----------------------------- MODULE MCSnapshot -----------------------------
(* Small instances of Snapshot for TLC.                                    *)
EXTENDS Snapshot

CONSTANTS c1, c2, d1, d2, b1
=============================================================================
