SPECIFICATION DocgenSpec
CONSTANTS
  f1 = f1  f2 = f2
  Funcs = {f1, f2}
  Declarations <- MCDeclarations
  Absent = Absent
  Torn = Torn
  MaxEdits = 1
INVARIANTS GatesAreListed RowsWereThere
