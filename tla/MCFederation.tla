--------------------------- MODULE MCFederation ---------------------------
(***************************************************************************)
(* A moderator and a remote person: one post Create, one ban request.     *)
(***************************************************************************)
EXTENDS Federation, TLC

CONSTANTS u1, r1, c1, a1, w1, v1

ActCreate == a1 :> [kind |-> "Create", innerFollow |-> FALSE, actor |-> r1,
                    object |-> c1, to |-> {c1}, public |-> TRUE, signed |-> TRUE,
                    local |-> FALSE, domainsValid |-> TRUE, sent |-> 0]

=============================================================================
