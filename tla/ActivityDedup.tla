--------------------------- MODULE ActivityDedup ---------------------------
(***************************************************************************)
(* What the inbox promises about one activity id, whatever the number and *)
(* timing of its deliveries (spec.md 4.3, 4.7 and property 8.1): the id is *)
(* recorded as seen once, the content effect of a recorded id is applied  *)
(* at most once, and only an applied activity is announced, at most once.*)
(* Each step is atomic here; CommunityInbox spreads them over several     *)
(* awaits of concurrent request handlers and is checked to refine this.  *)
(***************************************************************************)
EXTENDS Naturals

CONSTANT Ids            \* activity ids minted by remote servers

VARIABLES
    seen,               \* ids with a dedup record
    applied,            \* applied[i]: 1 once the effect of i is applied
    announced           \* announced[i]: 1 once i is announced to followers

vars == <<seen, applied, announced>>

TypeOK ==
    /\ seen \subseteq Ids
    /\ applied \in [Ids -> 0..1]
    /\ announced \in [Ids -> 0..1]

Init ==
    /\ seen = {}
    /\ applied = [i \in Ids |-> 0]
    /\ announced = [i \in Ids |-> 0]

\* First delivery of i wins the dedup record.
Record(i) ==
    /\ i \notin seen
    /\ seen' = seen \cup {i}
    /\ UNCHANGED <<applied, announced>>

\* The effect of a recorded activity happens once.
Apply(i) ==
    /\ i \in seen
    /\ applied[i] = 0
    /\ applied' = [applied EXCEPT ![i] = 1]
    /\ UNCHANGED <<seen, announced>>

\* Only an applied activity is re-published, once.
Announce(i) ==
    /\ applied[i] = 1
    /\ announced[i] = 0
    /\ announced' = [announced EXCEPT ![i] = 1]
    /\ UNCHANGED <<seen, applied>>

Next == \E i \in Ids : Record(i) \/ Apply(i) \/ Announce(i)

Spec == Init /\ [][Next]_vars

=============================================================================
