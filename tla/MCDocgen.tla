------------------------------ MODULE MCDocgen ------------------------------
(* Small instances of Docgen for TLC.                                      *)
EXTENDS Docgen

CONSTANTS f1, f2

Fn(place, doc) == [place |-> place, parses |-> TRUE, call |-> "named", doc |-> doc]

Pro        == [tags |-> <<"pro">>, reason |-> TRUE]
Unreasoned == [Pro EXCEPT !.reason = FALSE]
Repeating  == [Pro EXCEPT !.tags = <<"pro", "", "pro">>]

(* With and without a marker, one without a reason, and one too many with  *)
(* a tag it repeats; a call the check does not see, a marker without a     *)
(* call; a file that does not parse; tests and skipped directories.        *)
MCDeclarations ==
  {Fn("code", d) : d \in {<<>>, <<Pro>>, <<Unreasoned>>, <<Pro, Repeating>>}}
  \cup {[Fn("code", <<>>) EXCEPT !.call = "aliased"], [Fn("code", <<Pro>>) EXCEPT !.call = "none"],
        [Fn("code", <<Pro>>) EXCEPT !.parses = FALSE]}
  \cup {Fn("_test", <<>>), Fn("_test", <<Pro>>),
        [Fn("_test", <<Pro>>) EXCEPT !.parses = FALSE],
        [Fn("skipped", <<Pro>>) EXCEPT !.parses = FALSE]}
=============================================================================
