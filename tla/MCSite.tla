------------------------------ MODULE MCSite ------------------------------
(***************************************************************************)
(* Instances of Site for TLC.                                             *)
(***************************************************************************)
EXTENDS Site, TLC

CONSTANTS u1, u2, n1, n2, w1, w2

=============================================================================
