----------------------------- MODULE Federation -----------------------------
(***************************************************************************)
(* The community inbox and the community API of one Lemmy instance, run   *)
(* side by side against the same community_follower and                  *)
(* community_person_ban tables: a moderator's BanFromCommunity request and *)
(* a remote person's activities are handled by concurrent tasks.           *)
(***************************************************************************)
EXTENDS Naturals

CONSTANTS
    Users, Remote, Admins, Communities, InitCommunities, RemoteCommunities, Ops, Requesters,
    MaxRequests, CommentsEach, Ids, Act, Workers, None, MaxDeliveries

VARIABLES
    activity, followers, bans, siteBanned, worker, deliveries, applied,
    announced, accepted, followed, undone,
    communities, creator, mods, deleted, removed, req, requests, appointed,
    postsRemoved, commentsRemoved

inboxOnly == <<activity, siteBanned, worker, deliveries, applied, announced, accepted,
              followed, undone>>
apiOnly == <<communities, creator, mods, deleted, removed, req, requests, appointed,
            postsRemoved, commentsRemoved>>
vars == <<inboxOnly, apiOnly, followers, bans>>

Inbox == INSTANCE CommunityInbox WITH Persons <- Remote

Api == INSTANCE CommunityApi WITH Persons <- Users \cup Remote, Workers <- Requesters

TypeOK == Inbox!TypeOK /\ Api!TypeOK

\* The API's initial tables, no activity received yet, nobody banned.
Init ==
    /\ Api!Init
    /\ siteBanned = {}
    /\ activity = {}
    /\ worker = [w \in Workers |-> Inbox!Idle]
    /\ deliveries = 0
    /\ applied = [i \in Ids |-> 0]
    /\ announced = [i \in Ids |-> 0]
    /\ accepted = {}
    /\ followed = {}
    /\ undone = {}

Next ==
    \/ Inbox!Next /\ UNCHANGED apiOnly
    \/ Api!Next /\ UNCHANGED inboxOnly

Spec == Init /\ [][Next]_vars

\* spec.md 8.5 and 4.4: the receive_* effect of a content activity never
\* happens while its sender is banned from the community it is addressed
\* to.  community_receive_message checks the ban once, an await before the
\* effect, and BanFromCommunity may insert the ban row in between.
BanEnforced ==
    [][\A i \in Ids :
         applied'[i] # applied[i] =>
            \A c \in Act[i].to : <<c, Act[i].actor>> \notin bans]_vars

=============================================================================
