---------------------------- MODULE CommunityApi ----------------------------
(***************************************************************************)
(* The community handlers of crates/api/src/community.rs that change      *)
(* state: CreateCommunity, EditCommunity, FollowCommunity, BanFromCommunity,              *)
(* AddModToCommunity, TransferCommunity, DeleteCommunity, RemoveCommunity.*)
(* Each request is one task; every blocking(pool, ..).await is a point    *)
(* where other requests run, and nothing is wrapped in a transaction.     *)
(* A request is a record in req[w]; its pc is the await it waits at.      *)
(*                                                                         *)
(* Tables: community (a name, its creator and its deleted and removed     *)
(* flags), community_moderator (per community, the moderators in the      *)
(* order of their rows, which CommunityModeratorView lists), and the       *)
(* community_follower and community_person_ban rows, and the removed flag *)
(* of each person's posts and comments in a community, which              *)
(* BanFromCommunity's remove_data sets.  Titles, icons, descriptions, the  *)
(* mod log and the websocket messages are left out.                       *)
(***************************************************************************)
EXTENDS Naturals, Sequences, SequencesExt

CONSTANTS
    Persons,        \* persons with a row: local users and known remote persons
    Users,          \* local users, who call the API
    Admins,         \* users with the admin flag (is_admin)
    Communities,    \* community names
    InitCommunities,\* communities that exist at the start, as CreateCommunity leaves them
    RemoteCommunities,\* communities of other instances (community.local is false)
    Ops,            \* the handlers the clients of a run call
    Workers,        \* concurrently running requests
    None,
    MaxRequests,    \* bound on the number of requests
    CommentsEach    \* comments each person has in each community

ASSUME Users \subseteq Persons /\ Admins \subseteq Users /\ InitCommunities \subseteq Communities
       /\ RemoteCommunities \subseteq InitCommunities

AllOps == {"create", "edit", "follow", "ban", "addmod", "transfer", "delete", "remove"}

ASSUME Ops \subseteq AllOps

VARIABLES
    communities,    \* names with a community row
    creator,        \* creator[c]: community.creator_id
    mods,           \* mods[c]: community_moderator rows of c, oldest first
    followers,      \* community_follower rows <<community, person>>
    bans,           \* community_person_ban rows <<community, person>>
    deleted,        \* deleted[c]: community.deleted
    removed,        \* removed[c]: community.removed
    postsRemoved,   \* <<c, p>> whose posts in c are marked removed
    commentsRemoved,\* <<c, p, k>>: p's k-th comment in c is marked removed
    req,            \* req[w]: the request task w runs
    requests,       \* requests issued so far
    appointed       \* history: <<c, p>> whose last successful join or leave
                    \* of AddModToCommunity / CreateCommunity was a join

vars == <<communities, creator, mods, followers, bans, deleted, removed,
          postsRemoved, commentsRemoved, req, requests, appointed>>

Pcs == {"idle", "dupe", "insert", "join", "follow", "read", "bancheck",
        "unfollow", "auth", "ban", "unban", "leave", "update", "readmods",
        "delete", "rejoin", "removeposts", "listcomments", "removecomment",
        "sendfollow", "sendunfollow"}

\* One record for every handler: user is the caller, target the person the
\* request is about, flag the boolean of the form (follow, ban, added,
\* deleted, removed), data BanFromCommunity's remove_data, snap the
\* moderators TransferCommunity re-inserts, idx the position of a loop, row
\* the community row EditCommunity read.
Row == [creator: Persons \cup {None}, deleted: BOOLEAN, removed: BOOLEAN]

Request == [op: AllOps \cup {"none"}, pc: Pcs, user: Persons \cup {None},
            comm: Communities \cup {None}, target: Persons \cup {None},
            flag: BOOLEAN, data: BOOLEAN, snap: Seq(Persons), idx: Nat, row: Row]

NoRequest == [op |-> "none", pc |-> "idle", user |-> None, comm |-> None,
              target |-> None, flag |-> FALSE, data |-> FALSE, snap |-> <<>>, idx |-> 0,
              row |-> [creator |-> None, deleted |-> FALSE, removed |-> FALSE]]

\* The rows of community_moderator, community_person_ban and
\* community_follower (CommunityModerator, CommunityPersonBan,
\* CommunityFollower and their insert forms): a community and a person.
\* Ids and publish dates are left out; a follower's pending flag is false
\* for every row these handlers write.
ModeratorRow == Communities \X Persons

BanRow == Communities \X Persons

FollowerRow == Communities \X Persons

IsMod(p, c) == \E i \in 1..Len(mods[c]) : mods[c][i] = p

TypeOK ==
    /\ communities \subseteq Communities
    /\ creator \in [Communities -> Persons \cup {None}]
    /\ mods \in [Communities -> Seq(Persons)]
    /\ \A c \in Communities : {c} \X ToSet(mods[c]) \subseteq ModeratorRow
    /\ followers \subseteq FollowerRow
    /\ bans \subseteq BanRow
    /\ deleted \in [Communities -> BOOLEAN]
    /\ removed \in [Communities -> BOOLEAN]
    /\ postsRemoved \subseteq Communities \X Persons
    /\ commentsRemoved \subseteq Communities \X Persons \X (1..CommentsEach)
    /\ req \in [Workers -> Request]
    /\ requests \in 0..MaxRequests
    /\ appointed \subseteq Communities \X Persons

\* Each initial community was made by CreateCommunity: its creator is its
\* only moderator and follows it.
Init ==
    /\ communities = InitCommunities
    /\ \E cr \in [InitCommunities -> Users] :
          /\ creator = [c \in Communities |-> IF c \in InitCommunities THEN cr[c] ELSE None]
          /\ mods = [c \in Communities |-> IF c \in InitCommunities THEN <<cr[c]>> ELSE <<>>]
          /\ followers = {<<c, cr[c]>> : c \in InitCommunities}
          /\ appointed = {<<c, cr[c]>> : c \in InitCommunities}
    /\ bans = {}
    /\ deleted = [c \in Communities |-> FALSE]
    /\ removed = [c \in Communities |-> FALSE]
    /\ postsRemoved = {}
    /\ commentsRemoved = {}
    /\ req = [w \in Workers |-> NoRequest]
    /\ requests = 0

(***************************************************************************)
(* Helpers                                                                 *)
(***************************************************************************)

\* TransferCommunity: position of the new creator, remove it, insert(0, ..).
MoveToFront(s, p) ==
    LET i == SelectInSeq(s, LAMBDA x : x = p)
    IN  InsertAt(RemoveAt(s, i), 1, s[i])

Done(w) == req' = [req EXCEPT ![w] = NoRequest]

Goto(w, pc) == req' = [req EXCEPT ![w].pc = pc]

Content == <<postsRemoved, commentsRemoved>>

Tables == <<communities, creator, mods, followers, bans, deleted, removed, appointed, Content>>

\* A request starts: get_local_user_view_from_jwt has named the caller.
Start(w, op, u, c, p, flag, data, pc) ==
    /\ req[w].pc = "idle"
    /\ requests < MaxRequests
    /\ op \in Ops
    /\ req' = [req EXCEPT ![w] = [op |-> op, pc |-> pc, user |-> u, comm |-> c,
                                  target |-> p, flag |-> flag, data |-> data,
                                  snap |-> <<>>, idx |-> 0, row |-> NoRequest.row]]
    /\ requests' = requests + 1
    /\ UNCHANGED Tables

Issue(w) ==
    \E u \in Users, c \in Communities, p \in Persons, flag \in BOOLEAN :
        \/ c \notin communities /\ Start(w, "create", u, c, u, TRUE, FALSE, "dupe")
        \/ c \in communities /\
           \/ Start(w, "edit", u, c, u, flag, FALSE, "auth")
           \/ Start(w, "follow", u, c, u, flag, FALSE, "read")
           \/ \E data \in BOOLEAN : Start(w, "ban", u, c, p, flag, data, "auth")
           \/ Start(w, "addmod", u, c, p, flag, FALSE, "auth")
           \/ Start(w, "transfer", u, c, p, TRUE, FALSE, "auth")
           \/ Start(w, "delete", u, c, u, flag, FALSE, "read")
           \/ u \in Admins /\ Start(w, "remove", u, c, u, flag, FALSE, "update")

(***************************************************************************)
(* CreateCommunity                                                         *)
(***************************************************************************)

\* The duplicate check on the actor id; an error response if it exists.
CreateDupeCheck(w) ==
    LET c == req[w].comm IN
    /\ req[w].op = "create" /\ req[w].pc = "dupe"
    /\ IF c \in communities THEN Done(w) ELSE Goto(w, "insert")
    /\ UNCHANGED Tables

\* Community::create; its unique name makes a concurrent second create fail.
CreateInsert(w) ==
    LET c == req[w].comm IN
    /\ req[w].op = "create" /\ req[w].pc = "insert"
    /\ \/ c \in communities /\ Done(w) /\ UNCHANGED Tables
       \/ /\ c \notin communities
          /\ communities' = communities \cup {c}
          /\ creator' = [creator EXCEPT ![c] = req[w].user]
          /\ mods' = [mods EXCEPT ![c] = <<>>]
          /\ Goto(w, "join")
          /\ UNCHANGED <<followers, bans, deleted, removed, appointed, Content>>

\* The creator becomes a moderator (CommunityModerator::join, an error on
\* an existing row), then follows the community.
CreateJoin(w) ==
    LET c == req[w].comm
        u == req[w].user
    IN
    /\ req[w].op = "create" /\ req[w].pc = "join"
    /\ \/ IsMod(u, c) /\ Done(w) /\ UNCHANGED <<mods, appointed>>
       \/ /\ ~IsMod(u, c)
          /\ mods' = [mods EXCEPT ![c] = Append(@, u)]
          /\ appointed' = appointed \cup {<<c, u>>}
          /\ Goto(w, "follow")
    /\ UNCHANGED <<communities, creator, followers, bans, deleted, removed, Content>>

CreateFollow(w) ==
    /\ req[w].op = "create" /\ req[w].pc = "follow"
    /\ followers' = followers \cup {<<req[w].comm, req[w].user>>}
    /\ Done(w)
    /\ UNCHANGED <<communities, creator, mods, bans, deleted, removed, appointed, Content>>

(***************************************************************************)
(* EditCommunity                                                           *)
(***************************************************************************)

\* CommunityModeratorView::for_community: only a moderator may edit.
EditModCheck(w) ==
    /\ req[w].op = "edit" /\ req[w].pc = "auth"
    /\ IF IsMod(req[w].user, req[w].comm) THEN Goto(w, "read") ELSE Done(w)
    /\ UNCHANGED Tables

\* Community::read; the form copies creator_id, removed and deleted from it.
EditRead(w) ==
    LET c == req[w].comm IN
    /\ req[w].op = "edit" /\ req[w].pc = "read"
    /\ req' = [req EXCEPT ![w].row = [creator |-> creator[c], deleted |-> deleted[c],
                                      removed |-> removed[c]],
                          ![w].pc = "update"]
    /\ UNCHANGED Tables

\* Community::update writes the whole form: the new title, description,
\* icon, banner and nsfw (not modelled) and the row fields as read.
EditUpdate(w) ==
    LET c == req[w].comm IN
    /\ req[w].op = "edit" /\ req[w].pc = "update"
    /\ creator' = [creator EXCEPT ![c] = req[w].row.creator]
    /\ deleted' = [deleted EXCEPT ![c] = req[w].row.deleted]
    /\ removed' = [removed EXCEPT ![c] = req[w].row.removed]
    /\ Done(w)
    /\ UNCHANGED <<communities, mods, followers, bans, appointed, Content>>

(***************************************************************************)
(* FollowCommunity, for a local community                                  *)
(***************************************************************************)

\* Community::read, then the follow or the unfollow branch of a local
\* community, or of a remote one.
FollowRead(w) ==
    LET remote == req[w].comm \in RemoteCommunities IN
    /\ req[w].op = "follow" /\ req[w].pc = "read"
    /\ Goto(w, CASE ~remote /\ req[w].flag -> "bancheck"
                 [] ~remote -> "unfollow"
                 [] req[w].flag -> "sendfollow"
                 [] OTHER -> "sendunfollow")
    /\ UNCHANGED Tables

\* A remote community: send_follow, and no row "because you need to wait
\* for the accept" (the person inbox, outside this component).
SendFollow(w) ==
    /\ req[w].op = "follow" /\ req[w].pc = "sendfollow"
    /\ Done(w)
    /\ UNCHANGED Tables

\* A remote community: send_unfollow, then the row is deleted.
SendUnfollow(w) ==
    /\ req[w].op = "follow" /\ req[w].pc = "sendunfollow"
    /\ Goto(w, "unfollow")
    /\ UNCHANGED Tables

\* check_community_ban: an error if the caller is banned from c.
FollowBanCheck(w) ==
    /\ req[w].op = "follow" /\ req[w].pc = "bancheck"
    /\ IF <<req[w].comm, req[w].user>> \in bans THEN Done(w) ELSE Goto(w, "follow")
    /\ UNCHANGED Tables

\* Mutant: the follower form built with its two ids swapped.
FollowInsertSwapped(w) ==
    LET f == <<req[w].user, req[w].comm>> IN
    /\ req[w].op = "follow" /\ req[w].pc = "follow"
    /\ followers' = followers \cup {f}
    /\ Done(w)
    /\ UNCHANGED <<communities, creator, mods, bans, deleted, removed, appointed, Content>>

\* CommunityFollower::follow; a second follow of the same pair is an error.
FollowInsert(w) ==
    LET f == <<req[w].comm, req[w].user>> IN
    /\ req[w].op = "follow" /\ req[w].pc = "follow"
    /\ followers' = followers \cup {f}
    /\ Done(w)
    /\ UNCHANGED <<communities, creator, mods, bans, deleted, removed, appointed, Content>>

FollowUnfollow(w) ==
    /\ req[w].op = "follow" /\ req[w].pc = "unfollow"
    /\ followers' = followers \ {<<req[w].comm, req[w].user>>}
    /\ Done(w)
    /\ UNCHANGED <<communities, creator, mods, bans, deleted, removed, appointed, Content>>

(***************************************************************************)
(* BanFromCommunity and AddModToCommunity                                  *)
(***************************************************************************)

\* is_mod_or_admin: the caller moderates c or is an admin.
ModOrAdminCheck(w) ==
    LET next == CASE req[w].op = "ban" /\ req[w].flag -> "ban"
                  [] req[w].op = "ban" -> "unban"
                  [] req[w].flag -> "join"
                  [] OTHER -> "leave"
    IN
    /\ req[w].op \in {"ban", "addmod"} /\ req[w].pc = "auth"
    /\ IF req[w].user \in Admins \/ IsMod(req[w].user, req[w].comm)
          THEN Goto(w, next) ELSE Done(w)
    /\ UNCHANGED Tables

\* CommunityPersonBan::ban; banning a banned person is an error.
BanInsert(w) ==
    LET b == <<req[w].comm, req[w].target>> IN
    /\ req[w].op = "ban" /\ req[w].pc = "ban"
    /\ \/ b \in bans /\ Done(w) /\ UNCHANGED bans
       \/ b \notin bans /\ bans' = bans \cup {b} /\ Goto(w, "unfollow")
    /\ UNCHANGED <<communities, creator, mods, followers, deleted, removed, appointed, Content>>

\* "Also unsubscribe them from the community, if they are subscribed"
\* (its error ignored); then remove_data, if asked.
BanUnfollow(w) ==
    /\ req[w].op = "ban" /\ req[w].pc = "unfollow"
    /\ followers' = followers \ {<<req[w].comm, req[w].target>>}
    /\ IF req[w].data THEN Goto(w, "removeposts") ELSE Done(w)
    /\ UNCHANGED <<communities, creator, mods, bans, deleted, removed, appointed, Content>>

\* CommunityPersonBan::unban deletes the row, if any; then remove_data.
Unban(w) ==
    /\ req[w].op = "ban" /\ req[w].pc = "unban"
    /\ bans' = bans \ {<<req[w].comm, req[w].target>>}
    /\ IF req[w].data THEN Goto(w, "removeposts") ELSE Done(w)
    /\ UNCHANGED <<communities, creator, mods, followers, deleted, removed, appointed, Content>>

\* "Remove/Restore their data if that's desired": for a ban and for an
\* unban alike, Post::update_removed_for_creator(.., true) marks all posts
\* of the person in the community removed.
BanRemovePosts(w) ==
    /\ req[w].op = "ban" /\ req[w].pc = "removeposts"
    /\ postsRemoved' = postsRemoved \cup {<<req[w].comm, req[w].target>>}
    /\ Goto(w, "listcomments")
    /\ UNCHANGED <<communities, creator, mods, followers, bans, deleted, removed,
                   appointed, commentsRemoved>>

\* CommentQueryBuilder lists the person's comments in the community.
BanListComments(w) ==
    /\ req[w].op = "ban" /\ req[w].pc = "listcomments"
    /\ req' = [req EXCEPT ![w].pc = "removecomment", ![w].idx = 1]
    /\ UNCHANGED Tables

\* One iteration of the loop of Comment::update_removed(.., true) over the
\* list; the mod log and the response come after it.
BanRemoveComment(w) ==
    LET k == req[w].idx IN
    /\ req[w].op = "ban" /\ req[w].pc = "removecomment"
    /\ \/ k > CommentsEach /\ Done(w) /\ UNCHANGED commentsRemoved
       \/ /\ k <= CommentsEach
          /\ commentsRemoved' = commentsRemoved \cup {<<req[w].comm, req[w].target, k>>}
          /\ req' = [req EXCEPT ![w].idx = k + 1]
    /\ UNCHANGED <<communities, creator, mods, followers, bans, deleted, removed,
                   appointed, postsRemoved>>

\* AddModToCommunity, added: CommunityModerator::join; the row of an
\* existing moderator (unique on community and person) makes it fail with
\* community_moderator_already_exists.
AddModJoin(w) ==
    LET c == req[w].comm
        p == req[w].target
    IN
    /\ req[w].op = "addmod" /\ req[w].pc = "join"
    /\ \/ IsMod(p, c) /\ Done(w) /\ UNCHANGED <<mods, appointed>>
       \/ /\ ~IsMod(p, c)
          /\ mods' = [mods EXCEPT ![c] = Append(@, p)]
          /\ appointed' = appointed \cup {<<c, p>>}
          /\ Done(w)
    /\ UNCHANGED <<communities, creator, followers, bans, deleted, removed, Content>>

\* CommunityModerator::leave deletes the row, if any.
AddModLeave(w) ==
    LET c == req[w].comm
        p == req[w].target
    IN
    /\ req[w].op = "addmod" /\ req[w].pc = "leave"
    /\ mods' = [mods EXCEPT ![c] = Remove(@, p)]
    /\ appointed' = appointed \ {<<c, p>>}
    /\ Done(w)
    /\ UNCHANGED <<communities, creator, followers, bans, deleted, removed, Content>>

(***************************************************************************)
(* TransferCommunity                                                       *)
(***************************************************************************)

\* Community::read, Site::read, the admins; the caller must be the creator
\* or an admin.
TransferAuth(w) ==
    LET u == req[w].user IN
    /\ req[w].op = "transfer" /\ req[w].pc = "auth"
    /\ IF u = creator[req[w].comm] \/ u \in Admins
          THEN Goto(w, "update") ELSE Done(w)
    /\ UNCHANGED Tables

\* Community::update_creator, before anything checks the new creator.
TransferUpdateCreator(w) ==
    /\ req[w].op = "transfer" /\ req[w].pc = "update"
    /\ creator' = [creator EXCEPT ![req[w].comm] = req[w].target]
    /\ Goto(w, "readmods")
    /\ UNCHANGED <<communities, mods, followers, bans, deleted, removed, appointed, Content>>

\* CommunityModeratorView::for_community, then the new creator moved to the
\* front; `.context(..)?` fails the request if the new creator is no mod.
TransferReadMods(w) ==
    LET c == req[w].comm
        p == req[w].target
    IN
    /\ req[w].op = "transfer" /\ req[w].pc = "readmods"
    /\ \/ ~IsMod(p, c) /\ Done(w)
       \/ IsMod(p, c) /\ req' = [req EXCEPT ![w].snap = MoveToFront(mods[c], p),
                                            ![w].pc = "delete"]
    /\ UNCHANGED Tables

\* CommunityModerator::delete_for_community.
TransferDeleteMods(w) ==
    /\ req[w].op = "transfer" /\ req[w].pc = "delete"
    /\ mods' = [mods EXCEPT ![req[w].comm] = <<>>]
    /\ req' = [req EXCEPT ![w].pc = "rejoin", ![w].idx = 1]
    /\ UNCHANGED <<communities, creator, followers, bans, deleted, removed, appointed, Content>>

\* One iteration of the loop re-joining the moderators read before; a join
\* that meets an existing row fails the request, the mod log comes last.
TransferRejoin(w) ==
    LET c == req[w].comm
        i == req[w].idx
    IN
    /\ req[w].op = "transfer" /\ req[w].pc = "rejoin"
    /\ \/ i > Len(req[w].snap) /\ Done(w) /\ UNCHANGED mods
       \/ /\ i <= Len(req[w].snap)
          /\ IsMod(req[w].snap[i], c)
          /\ Done(w) /\ UNCHANGED mods
       \/ /\ i <= Len(req[w].snap)
          /\ ~IsMod(req[w].snap[i], c)
          /\ mods' = [mods EXCEPT ![c] = Append(@, req[w].snap[i])]
          /\ req' = [req EXCEPT ![w].idx = i + 1]
    /\ UNCHANGED <<communities, creator, followers, bans, deleted, removed, appointed, Content>>

(***************************************************************************)
(* DeleteCommunity and RemoveCommunity                                     *)
(***************************************************************************)

\* Community::read: only the creator may delete or restore.
DeleteAuth(w) ==
    /\ req[w].op = "delete" /\ req[w].pc = "read"
    /\ IF req[w].user = creator[req[w].comm] THEN Goto(w, "update") ELSE Done(w)
    /\ UNCHANGED Tables

\* Community::update_deleted; the Delete or Undo activity is sent after.
DeleteUpdate(w) ==
    /\ req[w].op = "delete" /\ req[w].pc = "update"
    /\ deleted' = [deleted EXCEPT ![req[w].comm] = req[w].flag]
    /\ Done(w)
    /\ UNCHANGED <<communities, creator, mods, followers, bans, removed, appointed, Content>>

\* Community::update_removed by an admin (is_admin was checked at Start).
RemoveUpdate(w) ==
    /\ req[w].op = "remove" /\ req[w].pc = "update"
    /\ removed' = [removed EXCEPT ![req[w].comm] = req[w].flag]
    /\ Done(w)
    /\ UNCHANGED <<communities, creator, mods, followers, bans, deleted, appointed, Content>>

\* A database call fails or the process stops at the await the request waits
\* at; what the earlier awaits wrote stays (no transaction).
Abandon(w) ==
    /\ req[w].pc # "idle"
    /\ Done(w)
    /\ UNCHANGED Tables

\* The steps of a started request that do not fail it.
Progress(w) ==
    \/ CreateDupeCheck(w) \/ CreateInsert(w) \/ CreateJoin(w) \/ CreateFollow(w)
    \/ EditModCheck(w) \/ EditRead(w) \/ EditUpdate(w)
    \/ FollowRead(w) \/ FollowBanCheck(w) \/ FollowInsert(w) \/ FollowUnfollow(w)
    \/ SendFollow(w) \/ SendUnfollow(w)
    \/ ModOrAdminCheck(w) \/ BanInsert(w) \/ BanUnfollow(w) \/ Unban(w)
    \/ BanRemovePosts(w) \/ BanListComments(w) \/ BanRemoveComment(w)
    \/ AddModJoin(w) \/ AddModLeave(w)
    \/ TransferAuth(w) \/ TransferUpdateCreator(w) \/ TransferReadMods(w)
    \/ TransferDeleteMods(w) \/ TransferRejoin(w)
    \/ DeleteAuth(w) \/ DeleteUpdate(w) \/ RemoveUpdate(w)

Next ==
    \/ \E w \in Workers : Issue(w) \/ ((Progress(w) \/ Abandon(w)) /\ UNCHANGED requests)

Spec == Init /\ [][Next]_vars

(***************************************************************************)
(* Properties                                                              *)
(***************************************************************************)

\* A ban request between its ban row (community.rs:604) and its unfollow
\* (615) for the pair <<c, p>>.
BanUnfollowPending(c, p) ==
    \E w \in Workers : req[w].op = "ban" /\ req[w].pc = "unfollow"
                       /\ req[w].comm = c /\ req[w].target = p

\* BanFromCommunity unsubscribes the person it bans (community.rs:609), and
\* FollowCommunity refuses a banned person (check_community_ban, 503): no
\* follower row of a banned person is created, except one that the ban's
\* own pending unfollow will delete.  Broken when FollowCommunity passes
\* check_community_ban before the ban row is inserted and writes its row
\* after the ban's unfollow has run.
BannedNotFollower ==
    [][\A c \in Communities, p \in Persons :
         (<<c, p>> \notin followers /\ <<c, p>> \in followers')
            => (<<c, p>> \notin bans' \/ BanUnfollowPending(c, p))]_vars

\* A moderator appointed by CreateCommunity or AddModToCommunity, and not
\* removed by AddModToCommunity since, is still a moderator whenever no
\* TransferCommunity of that community is between its delete and its last
\* re-join.  TransferCommunity re-inserts the list it read before deleting.
NoModeratorLost ==
    \A <<c, p>> \in appointed :
        (\A w \in Workers : ~(req[w].op = "transfer" /\ req[w].comm = c
                              /\ req[w].pc \in {"delete", "rejoin"}))
            => IsMod(p, c)

\* EditCommunity changes only the title, description, icon, banner and
\* nsfw flag: it copies creator_id, removed and deleted from the row it
\* read.  An update of the community by another request between that read
\* and Community::update (a TransferCommunity, an admin's RemoveCommunity,
\* the creator's DeleteCommunity) is written back to its old value.
EditKeepsRow ==
    [][\A w \in Workers :
         EditUpdate(w) => UNCHANGED <<creator, deleted, removed>>]_vars

=============================================================================
