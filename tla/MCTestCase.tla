----------------------------- MODULE MCTestCase -----------------------------
(* Small instances of TestCase for TLC.                                    *)
EXTENDS TestCase

CONSTANTS t1, t2, r1, r2, f1, m1, p1, p2, proxy

Opt(reuse, persist, override, auto) ==
  [reuse |-> reuse, persist |-> persist, override |-> override, autoPrefix |-> auto]

(* Every way to find a container, with and without PersistOnFailure, every *)
(* module taking name_prefix.                                              *)
MCPrefixed ==
  {Opt(None, FALSE, None, TRUE), Opt(None, TRUE, None, TRUE),
   Opt(ReusedCtr, FALSE, None, TRUE), Opt(ReusedCtr, FALSE, proxy, TRUE)}

MCPlain   == {Opt(None, FALSE, None, TRUE)}
MCPersist == {Opt(None, TRUE, None, TRUE)}
MCOwn     == MCPlain \cup MCPersist
=============================================================================
