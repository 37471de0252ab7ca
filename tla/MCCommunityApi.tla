-------------------------- MODULE MCCommunityApi --------------------------
(***************************************************************************)
(* Instances of CommunityApi for TLC.                                     *)
(***************************************************************************)
EXTENDS CommunityApi

CONSTANTS u1, u2, u3, c1, c2, w1, w2

=============================================================================
