---------------------------- MODULE MCSneakystack ----------------------------
(* Small instances of Sneakystack for TLC.                                 *)
EXTENDS Sneakystack

CONSTANTS q1, q2, q3, k1, i1, i2, a
==============================================================================
