------------------------- MODULE MCCommunityInbox -------------------------
(***************************************************************************)
(* Instances of CommunityInbox for TLC: the activities each run delivers. *)
(***************************************************************************)
EXTENDS CommunityInbox, TLC

CONSTANTS p1, p2, c1, c2, a1, a2, a3, a4, a5, a6, a7, a8, a9, w1, w2

\* An activity as a remote Lemmy (or another implementation) sends it.
Mk(kind, innerFollow, actor, object, to, public, signed, local, domainsValid) ==
    [kind |-> kind, innerFollow |-> innerFollow, actor |-> actor,
     object |-> object, to |-> to, public |-> public, signed |-> signed,
     local |-> local, domainsValid |-> domainsValid, sent |-> 0]

\* The same activity, minted as the n-th by its server.
Nth(a, n) == [a EXCEPT !.sent = n]

\* Well-formed activities of one person to one community.
Good(kind, innerFollow, actor, c) ==
    Mk(kind, innerFollow, actor, c, {c}, TRUE, TRUE, FALSE, TRUE)

\* Two concurrent handlers racing on a post and a follow.
ActRace == [i \in {a1, a2} |->
              IF i = a1 THEN Good("Create", FALSE, p1, c1)
                        ELSE Good("Follow", FALSE, p1, c1)]

\* A Follow of c1 by p1.
ActFollow == (a1 :> Good("Follow", FALSE, p1, c1))

\* One activity per branch of the handler, delivered one at a time; the
\* Undo of the Follow is minted after it.
ActBranches ==
    (a1 :> Good("Follow", FALSE, p1, c1)) @@
    (a2 :> Nth(Good("Undo", TRUE, p1, c1), 1)) @@
    (a3 :> Good("Create", FALSE, p1, c1)) @@
    (a4 :> Good("Remove", FALSE, p1, c1)) @@
    (a5 :> Mk("Undo", FALSE, p1, c1, {c1}, FALSE, TRUE, FALSE, TRUE)) @@
    (a6 :> Mk("Undo", TRUE, p1, c1, {c1}, TRUE, TRUE, FALSE, FALSE)) @@
    (a7 :> Mk("Follow", FALSE, p1, c1, {c1}, TRUE, TRUE, FALSE, FALSE)) @@
    (a8 :> Mk("Create", FALSE, p1, c1, {c1}, TRUE, FALSE, FALSE, TRUE)) @@
    (a9 :> Mk("Like", FALSE, p1, c1, {c1}, TRUE, TRUE, TRUE, TRUE))

\* A Follow of c1 and its Undo, minted after it.
ActFollowUndo == (a1 :> Good("Follow", FALSE, p1, c1)) @@
                 (a2 :> Nth(Good("Undo", TRUE, p1, c1), 1))

\* A Follow of c1 that also carries c2 in its cc.
ActCc == (a1 :> Mk("Follow", FALSE, p1, c1, {c1, c2}, TRUE, TRUE, FALSE, TRUE))

=============================================================================
