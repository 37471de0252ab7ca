------------------------- MODULE MCPostTranslator -------------------------
(***************************************************************************)
(* Posts for the runs of PostTranslator.                                  *)
(***************************************************************************)
EXTENDS PostTranslator, TLC

CONSTANTS p1, p2, c1, n1, n2, g1, g2, g3, g4, g5

\* A post with a link and a thumbnail, by a person in good standing.
Linked(p) == [creator |-> p, community |-> c1, name |-> n1, body |-> "text",
              url |-> TRUE, thumbnail |-> "sent", locked |-> TRUE,
              nsfw |-> FALSE, stickied |-> TRUE]

\* A post without a link, its flags the other way round.
Plain == [creator |-> p1, community |-> c1, name |-> n1, body |-> "slurs",
          url |-> FALSE, thumbnail |-> "sent", locked |-> FALSE,
          nsfw |-> TRUE, stickied |-> FALSE]

\* One post per outcome: linked, plain, banned creator, spoofed id (g4),
\* slur in the name.
SentAll ==
    (g1 :> Linked(p1)) @@
    (g2 :> Plain) @@
    (g3 :> Linked(p2)) @@
    (g4 :> [Plain EXCEPT !.body = None, !.thumbnail = None]) @@
    (g5 :> [Plain EXCEPT !.name = n2])

=============================================================================
