------------------------------ MODULE MCSuite ------------------------------
(* Small instances of Suite for TLC.                                       *)
EXTENDS Suite

CONSTANTS t1, t2, r1, f1, p1, p2, s1, s2

Opt(reuse, persist, override) ==
  [reuse |-> reuse, persist |-> persist, override |-> override, autoPrefix |-> TRUE]

MCList   == <<s1, s2>>
MCOne    == <<s1>>
MCPlain  == {Opt(None, FALSE, None)}
(* A test that leaves everything to New, one that passes EdgeURLOverride.  *)
MCRouted == {Opt(None, TRUE, None), Opt(None, FALSE, s1)}
============================================================================
