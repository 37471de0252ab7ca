--------------------------- MODULE CommunityInbox ---------------------------
(***************************************************************************)
(* The community inbox of crates/apub/src/inbox/community_inbox.rs: every *)
(* POST of an activity to /c/<name>/inbox is handled by community_inbox    *)
(* and community_receive_message as an independent task, and the tasks     *)
(* interleave at every await on the database pool or the network.  A     *)
(* worker is one such task; its pc is the await it is suspended at.        *)
(*                                                                         *)
(* Data is abstracted to what the checks tell apart: an activity id is a  *)
(* model value and Act[id] is the content the remote server minted for it:*)
(* its kind, its actor (a remote person), the community its object names, *)
(* its to/cc addressing, whether it is public, whether its HTTP signature  *)
(* verifies, whether its id is local, and whether its ids have the actor's *)
(* domain (verify_activity_domains_valid).  Its sent field is the order  *)
(* in which the remote server minted it; deliveries need not keep it.     *)
(***************************************************************************)
EXTENDS Naturals, FiniteSets

CONSTANTS
    Persons,        \* remote persons, the only senders to a community inbox
    Communities,    \* local communities, each with its inbox path
    Ids,            \* activity ids minted by remote servers
    Act,            \* Act[i]: the activity a remote server sent under id i
    Workers,        \* concurrently running request handlers
    None,           \* no activity (an idle worker)
    MaxDeliveries   \* bound on the number of HTTP deliveries

\* CommunityValidTypes (community_inbox.rs:46-55); an Undo carries whether
\* its object is a Follow (handle_undo, community_inbox.rs:216-218).
Kinds == {"Follow", "Undo", "Create", "Update", "Like", "Dislike",
          "Delete", "Remove"}

\* The kinds handed to the receive_*_for_community helpers.
ContentKinds == {"Create", "Update", "Like", "Dislike", "Delete"}

Activity == [kind: Kinds, innerFollow: BOOLEAN, actor: Persons,
             object: Communities, to: SUBSET Communities, public: BOOLEAN,
             signed: BOOLEAN, local: BOOLEAN, domainsValid: BOOLEAN, sent: Nat]

ASSUME Act \in [Ids -> Activity]
ASSUME MaxDeliveries \in Nat

VARIABLES
    activity,       \* ids with a row in the activity table (insert_activity)
    followers,      \* community_follower rows, as <<community, person>>
    bans,           \* community_person_ban rows, as <<community, person>>
    siteBanned,     \* persons whose person.banned flag is set
    worker,         \* worker[w]: the await the handler is at, and its input
    deliveries,     \* HTTP deliveries so far
    applied,        \* applied[i]: times the receive_* effect of i happened
    announced,      \* announced[i]: times send_announce ran for i
    accepted,       \* Follow ids answered with an Accept (send_accept_follow)
    followed,       \* Follow ids whose follower insert ran
    undone          \* Undo(Follow) ids whose unfollow ran

vars == <<activity, followers, bans, siteBanned, worker, deliveries,
          applied, announced, accepted, followed, undone>>

Pcs == {"idle", "verify", "known", "insert", "ban", "dispatch", "accept",
        "announce"}

Idle == [pc |-> "idle", id |-> None, path |-> None]

TypeOK ==
    /\ activity \subseteq Ids
    /\ followers \subseteq Communities \X Persons
    /\ bans \subseteq Communities \X Persons
    /\ siteBanned \subseteq Persons
    /\ worker \in [Workers -> [pc: Pcs, id: Ids \cup {None},
                               path: Communities \cup {None}]]
    /\ deliveries \in 0..MaxDeliveries
    /\ applied \in [Ids -> 0..MaxDeliveries]
    /\ announced \in [Ids -> 0..MaxDeliveries]
    /\ accepted \subseteq Ids
    /\ followed \subseteq Ids
    /\ undone \subseteq Ids

\* Any ban configuration the moderators may have set up; no follower yet.
Init ==
    /\ activity = {}
    /\ followers = {}
    /\ bans \in SUBSET (Communities \X Persons)
    /\ siteBanned \in SUBSET Persons
    /\ worker = [w \in Workers |-> Idle]
    /\ deliveries = 0
    /\ applied = [i \in Ids |-> 0]
    /\ announced = [i \in Ids |-> 0]
    /\ accepted = {}
    /\ followed = {}
    /\ undone = {}

(***************************************************************************)
(* Helpers                                                                 *)
(***************************************************************************)

\* check_community_or_site_ban: the site-wide flag, then the community ban.
IsBanned(p, c) == p \in siteBanned \/ <<c, p>> \in bans

\* insert_activity (not under src/): the unique index on the activity id is
\* the sole arbiter of the first delivery (spec.md 4.3, 5); a second insert
\* of the same id fails.
InsertActivity(i) ==
    /\ i \notin activity
    /\ activity' = activity \cup {i}

\* The handler returns, with Ok(HttpResponse::Ok()) or with an error that
\* the remote server answers by retrying later (a new Deliver).
Return(w) == worker' = [worker EXCEPT ![w] = Idle]

Goto(w, pc) == worker' = [worker EXCEPT ![w].pc = pc]

InboxUnchanged == UNCHANGED <<activity, followers, bans, siteBanned>>

(***************************************************************************)
(* Actions, one per await of community_inbox / community_receive_message   *)
(***************************************************************************)

\* A remote server POSTs activity i to the inbox of community c, first
\* sending or retrying: at-least-once, to any inbox path.
Deliver(w, i, c) ==
    /\ worker[w].pc = "idle"
    /\ deliveries < MaxDeliveries
    /\ worker' = [worker EXCEPT ![w] = [pc |-> "verify", id |-> i, path |-> c]]
    /\ deliveries' = deliveries + 1
    /\ UNCHANGED <<activity, followers, bans, siteBanned, applied, announced,
                   accepted, followed, undone>>

\* inbox_verify_http_signature: the signature against the actor's key.
Verify(w) ==
    LET a == Act[worker[w].id] IN
    /\ worker[w].pc = "verify"
    /\ \/ a.signed /\ Goto(w, "known")
       \/ ~a.signed /\ Return(w)
    /\ InboxUnchanged
    /\ UNCHANGED <<deliveries, applied, announced, accepted, followed, undone>>

\* is_activity_already_known: a replay is answered 200 without processing.
CheckKnown(w) ==
    LET i == worker[w].id IN
    /\ worker[w].pc = "known"
    /\ \/ i \in activity /\ Return(w)
       \/ i \notin activity /\ Goto(w, "insert")
    /\ InboxUnchanged
    /\ UNCHANGED <<deliveries, applied, announced, accepted, followed, undone>>

\* Mutant: the error of insert_activity ignored, as handle_follow does
\* with the follower insert.
CheckAddressAndInsertIgnoreDup(w) ==
    LET i == worker[w].id
        a == Act[i]
    IN
    /\ worker[w].pc = "insert"
    /\ \/ /\ worker[w].path \in a.to
          /\ ~a.local
          /\ activity' = activity \cup {i}
          /\ Goto(w, "ban")
       \/ /\ worker[w].path \notin a.to \/ a.local
          /\ Return(w)
          /\ UNCHANGED activity
    /\ UNCHANGED <<followers, bans, siteBanned, deliveries, applied,
                   announced, accepted, followed, undone>>

\* The addressing check, assert_activity_not_local, then insert_activity.
CheckAddressAndInsert(w) ==
    LET i == worker[w].id
        a == Act[i]
    IN
    /\ worker[w].pc = "insert"
    /\ \/ /\ worker[w].path \in a.to
          /\ ~a.local
          /\ InsertActivity(i)
          /\ Goto(w, "ban")
       \/ /\ worker[w].path \notin a.to \/ a.local \/ i \in activity
          /\ Return(w)
          /\ UNCHANGED activity
    /\ UNCHANGED <<followers, bans, siteBanned, deliveries, applied,
                   announced, accepted, followed, undone>>

\* Person::read_from_apub_id and check_community_or_site_ban, for every kind.
CheckBan(w) ==
    LET a == Act[worker[w].id] IN
    /\ worker[w].pc = "ban"
    /\ \/ IsBanned(a.actor, worker[w].path) /\ Return(w)
       \/ ~IsBanned(a.actor, worker[w].path) /\ Goto(w, "dispatch")
    /\ InboxUnchanged
    /\ UNCHANGED <<deliveries, applied, announced, accepted, followed, undone>>

\* Mutant: the follower row built with its two ids swapped.
HandleFollowSwapped(w) ==
    LET a == Act[worker[w].id] IN
    /\ a.kind = "Follow"
    /\ \/ a.domainsValid
          /\ followers' = followers \cup {<<a.actor, worker[w].path>>}
          /\ followed' = followed \cup {worker[w].id}
          /\ Goto(w, "accept")
       \/ ~a.domainsValid /\ Return(w) /\ UNCHANGED <<followers, followed>>
    /\ UNCHANGED <<applied, undone>>

\* handle_follow up to the follower insert, whose error is ignored.  The
\* relation is made with the community of the inbox path.
HandleFollow(w) ==
    LET a == Act[worker[w].id] IN
    /\ a.kind = "Follow"
    /\ \/ a.domainsValid
          /\ followers' = followers \cup {<<worker[w].path, a.actor>>}
          /\ followed' = followed \cup {worker[w].id}
          /\ Goto(w, "accept")
       \/ ~a.domainsValid /\ Return(w) /\ UNCHANGED <<followers, followed>>
    /\ UNCHANGED <<applied, undone>>

\* handle_undo_follow: both domain checks, then unfollow (error ignored).
HandleUndoFollow(w) ==
    LET a == Act[worker[w].id] IN
    /\ a.kind = "Undo" /\ a.innerFollow
    /\ \/ a.domainsValid
          /\ followers' = followers \ {<<worker[w].path, a.actor>>}
          /\ undone' = undone \cup {worker[w].id}
          /\ Return(w)
       \/ ~a.domainsValid /\ Return(w) /\ UNCHANGED <<followers, undone>>
    /\ UNCHANGED <<applied, followed>>

\* receive_{create,update,like,dislike,delete,undo}_for_community (not
\* under src/): the effect on posts, comments or votes; then announce.
ReceiveForCommunity(w) ==
    LET i == worker[w].id IN
    /\ Act[i].kind \in ContentKinds \/ (Act[i].kind = "Undo" /\ ~Act[i].innerFollow)
    /\ applied' = [applied EXCEPT ![i] = @ + 1]
    /\ Goto(w, "announce")
    /\ UNCHANGED <<followers, followed, undone>>

\* Remove: remote moderators are not supported; ignored, not announced.
IgnoreRemove(w) ==
    /\ Act[worker[w].id].kind = "Remove"
    /\ Return(w)
    /\ UNCHANGED <<followers, applied, followed, undone>>

\* The match on the activity kind in community_receive_message.
Dispatch(w) ==
    /\ worker[w].pc = "dispatch"
    /\ \/ HandleFollow(w)
       \/ HandleUndoFollow(w)
       \/ ReceiveForCommunity(w)
       \/ IgnoreRemove(w)
    /\ UNCHANGED <<activity, bans, siteBanned, deliveries, announced, accepted>>

\* community.send_accept_follow, after the follower row exists.
SendAcceptFollow(w) ==
    /\ worker[w].pc = "accept"
    /\ accepted' = accepted \cup {worker[w].id}
    /\ Return(w)
    /\ InboxUnchanged
    /\ UNCHANGED <<deliveries, applied, announced, followed, undone>>

\* do_announce: is_addressed_to_public again, then send_announce.
AnnounceToFollowers(w) ==
    LET i == worker[w].id IN
    /\ worker[w].pc = "announce"
    /\ \/ Act[i].public /\ announced' = [announced EXCEPT ![i] = @ + 1]
          /\ Return(w)
       \/ ~Act[i].public /\ Return(w) /\ UNCHANGED announced
    /\ InboxUnchanged
    /\ UNCHANGED <<deliveries, applied, accepted, followed, undone>>

\* A database or network call fails, or the connection is dropped, at the
\* await the handler is suspended at: nothing is rolled back (spec.md 5, 7)
\* and the sender sees an error.
Abandon(w) ==
    /\ worker[w].pc # "idle"
    /\ Return(w)
    /\ InboxUnchanged
    /\ UNCHANGED <<deliveries, applied, announced, accepted, followed, undone>>

Next ==
    \/ \E w \in Workers, i \in Ids, c \in Communities : Deliver(w, i, c)
    \/ \E w \in Workers :
          \/ Verify(w) \/ CheckKnown(w) \/ CheckAddressAndInsert(w)
          \/ CheckBan(w) \/ Dispatch(w) \/ SendAcceptFollow(w)
          \/ AnnounceToFollowers(w) \/ Abandon(w)

Spec == Init /\ [][Next]_vars

(***************************************************************************)
(* Properties                                                              *)
(***************************************************************************)

\* Refinement of ActivityDedup: however deliveries of one id interleave,
\* are retried or abandoned, the dedup record is written once, the
\* receive_* effect happens at most once and only after the record, and
\* send_announce runs at most once and only after the effect.
Dedup == INSTANCE ActivityDedup WITH
            seen <- activity, applied <- applied, announced <- announced

DedupRefined == Dedup!Spec

\* spec.md 4.5 and 8.3: the follower table holds what each remote person
\* last asked of each community: a row <<c, p>> exists only for a Follow
\* of c by p that was handled, and no Undo of that follow, sent after it,
\* was handled.  handle_follow (200) builds the row from the inbox path,
\* not from the Follow's object, and an Undo handled before an older
\* Follow (handle_undo_follow, 255) is not remembered.
FollowerReflectsIntent ==
    \A <<c, p>> \in followers :
        \E i \in followed :
            /\ Act[i].actor = p /\ Act[i].object = c
            /\ \A j \in undone :
                  Act[j].actor = p /\ Act[j].object = c => Act[j].sent < Act[i].sent

\* spec.md 5, 7: a collaborator failure is surfaced so that the sender
\* retries, and the retry must still be able to complete the activity: a
\* content activity is applied, a valid Follow is stored and answered with
\* an Accept.  An activity is lost when it is recorded as seen, was not
\* completed, no handler is still working on it, and it was not rejected
\* for a ban: every retry is then answered 200 by is_activity_already_known
\* and dropped.  insert_activity (89) precedes the effect, and
\* send_accept_follow (204) follows the follower insert.
Completed(i) == IF Act[i].kind = "Follow" THEN i \in accepted ELSE applied[i] > 0

Lost(i) ==
    /\ i \in activity
    /\ ~Completed(i)
    /\ Act[i].kind \in ContentKinds \/ (Act[i].kind = "Follow" /\ Act[i].domainsValid)
    /\ \A c \in Act[i].to : ~IsBanned(Act[i].actor, c)
    /\ \A w \in Workers : worker[w].id = i => worker[w].pc \in {"idle", "verify", "known"}

NoLostActivity == \A i \in Ids : ~Lost(i)

=============================================================================
