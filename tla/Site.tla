-------------------------------- MODULE Site --------------------------------
(***************************************************************************)
(* The site handlers of crates/api/src/site.rs that change state:          *)
(* CreateSite, EditSite, TransferSite, and GetSite, which on a first start *)
(* with a setup section registers the setup admin and performs a           *)
(* CreateSite itself.  Requests are concurrent tasks that interleave at    *)
(* every blocking(pool, ..).await; req[w].pc is the await w waits at.      *)
(*                                                                         *)
(* The site table is a sequence of rows, oldest first: Site::read_simple   *)
(* and SiteView::read return the first row, EditSite updates the row with  *)
(* id 1, the first one.  A row keeps its name (unique in the schema) and   *)
(* its creator; description, icon, banner and the flags are left out.      *)
(***************************************************************************)
EXTENDS Naturals, Sequences

CONSTANTS
    Persons,        \* persons who may have a local account
    Preregistered,  \* persons who may have registered before the first start
    Names,          \* site names
    SetupAdmin,     \* the admin_username of the setup section
    SetupName,      \* the site_name of the setup section
    Ops,            \* the handlers the clients of a run call
    Workers,        \* concurrently running requests
    None,
    MaxRequests,    \* bound on the requests that may write (all but GetSite)
    MaxCrashes      \* bound on the requests that fail or stop half-way

AllOps == {"getsite", "create", "edit", "transfer"}

ASSUME Preregistered \subseteq Persons /\ SetupAdmin \in Persons /\ SetupName \in Names /\ Ops \subseteq AllOps

VARIABLES
    sites,          \* rows of the site table, oldest first
    registered,     \* persons with a local user account
    admins,         \* persons whose local user has the admin flag
    req,            \* req[w]: the request task w runs
    requests,       \* writing requests issued so far
    crashes,        \* requests that failed half-way so far
    strayCreator    \* history: a TransferSite made a person who is no
                    \* admin the site creator

vars == <<sites, registered, admins, req, requests, crashes, strayCreator>>

SiteRow == [name: Names, creator: Persons]

Pcs == {"idle", "read", "register", "auth", "create", "update", "transfer",
        "reread", "admins", "banned"}

Request == [op: AllOps \cup {"none"}, pc: Pcs, user: Persons \cup {None},
            name: Names \cup {None}, target: Persons \cup {None},
            creator: Persons \cup {None}, setup: BOOLEAN, listed: BOOLEAN]

NoRequest == [op |-> "none", pc |-> "idle", user |-> None, name |-> None,
              target |-> None, creator |-> None, setup |-> FALSE, listed |-> FALSE]

TypeOK ==
    /\ sites \in Seq(SiteRow)
    /\ \A i \in 1..Len(sites) : sites[i].creator \in registered
    /\ registered \subseteq Persons
    /\ admins \subseteq registered
    /\ req \in [Workers -> Request]
    /\ requests \in 0..MaxRequests
    /\ crashes \in 0..MaxCrashes
    /\ strayCreator \in BOOLEAN

\* No site yet; users may have registered already, the first as an admin.
Init ==
    /\ sites = <<>>
    /\ registered \in SUBSET Preregistered
    /\ admins \in SUBSET registered
    /\ registered # {} => admins # {}
    /\ req = [w \in Workers |-> NoRequest]
    /\ requests = 0
    /\ crashes = 0
    /\ strayCreator = FALSE

Done(w) == req' = [req EXCEPT ![w] = NoRequest]

Goto(w, pc) == req' = [req EXCEPT ![w].pc = pc]

Accounts == <<registered, admins>>

\* A request starts; for every handler but GetSite the caller is a
\* registered user (get_local_user_view_from_jwt) and, except for
\* CreateSite, where the check comes after the first read, is_admin holds.
\* GetSite, which every client calls when it loads, is not counted.
Start(w, op, u, n, p, pc) ==
    /\ req[w].pc = "idle"
    /\ op \in Ops
    /\ op # "getsite" => requests < MaxRequests
    /\ req' = [req EXCEPT ![w] = [op |-> op, pc |-> pc, user |-> u, name |-> n,
                                  target |-> p, creator |-> None, setup |-> FALSE,
                                  listed |-> FALSE]]
    /\ requests' = IF op = "getsite" THEN requests ELSE requests + 1
    /\ UNCHANGED <<sites, registered, admins, strayCreator>>

LoadSite(w) == Start(w, "getsite", None, None, None, "read")

Issue(w) ==
    \/ LoadSite(w)
    \/ \E u \in registered, n \in Names, p \in Persons :
          \/ Start(w, "create", u, n, None, "read")
          \/ u \in admins /\ Start(w, "edit", u, n, None, "read")
          \/ u \in admins /\ Start(w, "transfer", u, None, p, "read")

\* GetSite: SiteView::read; without a site the setup is performed, else
\* the site view, and with it its creator, goes into the response.
GetSiteRead(w) ==
    /\ req[w].op = "getsite" /\ req[w].pc = "read"
    /\ IF sites = <<>> THEN Goto(w, "register")
                       ELSE req' = [req EXCEPT ![w].pc = "admins",
                                               ![w].creator = sites[1].creator]
    /\ UNCHANGED <<sites, registered, admins, strayCreator>>

\* GetSite, after the setup's CreateSite: SiteView::read again, `??`.
GetSiteReread(w) ==
    /\ req[w].op = "getsite" /\ req[w].pc = "reread"
    /\ \/ sites = <<>> /\ Done(w)
       \/ sites # <<>> /\ req' = [req EXCEPT ![w].pc = "admins",
                                             ![w].creator = sites[1].creator]
    /\ UNCHANGED <<sites, registered, admins, strayCreator>>

\* GetSite: PersonViewSafe::admins, then the site creator of the response
\* is moved to the front of them if it is among them (listed).
GetSiteAdmins(w) ==
    /\ req[w].op = "getsite" /\ req[w].pc = "admins"
    /\ req' = [req EXCEPT ![w].pc = "banned", ![w].listed = req[w].creator \in admins]
    /\ UNCHANGED <<sites, registered, admins, strayCreator>>

\* GetSite: PersonViewSafe::banned, the user's settings and the federated
\* instances are read (any may fail: Abandon); the response is returned.
GetSiteBanned(w) ==
    /\ req[w].op = "getsite" /\ req[w].pc = "banned"
    /\ Done(w)
    /\ UNCHANGED <<sites, registered, admins, strayCreator>>

\* Register::perform (crates/api, not under src/) for the setup admin: the
\* username is unique, and the first local user becomes an admin.  Then
\* GetSite performs a CreateSite with the jwt of the new account.
SetupRegister(w) ==
    /\ req[w].op = "getsite" /\ req[w].pc = "register"
    /\ \/ SetupAdmin \in registered /\ Done(w) /\ UNCHANGED Accounts
       \/ /\ SetupAdmin \notin registered
          /\ registered' = registered \cup {SetupAdmin}
          /\ admins' = IF admins = {} THEN {SetupAdmin} ELSE admins
          /\ req' = [req EXCEPT ![w] = [NoRequest EXCEPT !.op = "create", !.pc = "read",
                                         !.user = SetupAdmin, !.name = SetupName,
                                         !.setup = TRUE]]
    /\ UNCHANGED <<sites, strayCreator>>

\* CreateSite: Site::read_simple; a site that exists is an error.
CreateSiteRead(w) ==
    /\ req[w].op = "create" /\ req[w].pc = "read"
    /\ IF sites # <<>> THEN Done(w) ELSE Goto(w, "auth")
    /\ UNCHANGED <<sites, registered, admins, strayCreator>>

\* Mutant: CreateSite without is_admin.
CreateSiteAuthAny(w) ==
    /\ req[w].op = "create" /\ req[w].pc = "auth"
    /\ Goto(w, "create")
    /\ UNCHANGED <<sites, registered, admins, strayCreator>>

\* CreateSite: is_admin, after the read.
CreateSiteAuth(w) ==
    /\ req[w].op = "create" /\ req[w].pc = "auth"
    /\ IF req[w].user \in admins THEN Goto(w, "create") ELSE Done(w)
    /\ UNCHANGED <<sites, registered, admins, strayCreator>>

\* A row other than row skip has name n (the unique index on site.name).
NameTaken(n, skip) == \E i \in 1..Len(sites) : i # skip /\ sites[i].name = n

\* CreateSite returns; the one GetSite performs for the setup goes on.
CreateSiteReturn(w) ==
    IF req[w].setup THEN req' = [req EXCEPT ![w] = [NoRequest EXCEPT !.op = "getsite",
                                                                     !.pc = "reread"]]
                    ELSE Done(w)

\* Mutant: Site::create without the unique index on the name.
CreateSiteInsertAny(w) ==
    /\ req[w].op = "create" /\ req[w].pc = "create"
    /\ sites' = Append(sites, [name |-> req[w].name, creator |-> req[w].user])
    /\ CreateSiteReturn(w)
    /\ UNCHANGED <<registered, admins, strayCreator>>

\* Site::create; the unique name is the only thing that stops a second row.
CreateSiteInsert(w) ==
    /\ req[w].op = "create" /\ req[w].pc = "create"
    /\ \/ NameTaken(req[w].name, 0) /\ UNCHANGED sites /\ Done(w)
       \/ ~NameTaken(req[w].name, 0)
          /\ sites' = Append(sites, [name |-> req[w].name, creator |-> req[w].user])
          /\ CreateSiteReturn(w)
    /\ UNCHANGED <<registered, admins, strayCreator>>

\* EditSite: Site::read_simple; the form copies creator_id from it.
EditSiteRead(w) ==
    /\ req[w].op = "edit" /\ req[w].pc = "read"
    /\ \/ sites = <<>> /\ Done(w)
       \/ sites # <<>> /\ req' = [req EXCEPT ![w].creator = sites[1].creator,
                                             ![w].pc = "update"]
    /\ UNCHANGED <<sites, registered, admins, strayCreator>>

\* EditSite: Site::update(conn, 1, form) writes the new name and the
\* creator_id read before; another row with that name makes it fail.
EditSiteUpdate(w) ==
    /\ req[w].op = "edit" /\ req[w].pc = "update"
    /\ \/ NameTaken(req[w].name, 1) /\ UNCHANGED sites
       \/ ~NameTaken(req[w].name, 1)
          /\ sites' = [sites EXCEPT ![1] = [name |-> req[w].name,
                                            creator |-> req[w].creator]]
    /\ Done(w)
    /\ UNCHANGED <<registered, admins, strayCreator>>

\* TransferSite: Site::read_simple; only the site creator may transfer.
TransferSiteRead(w) ==
    /\ req[w].op = "transfer" /\ req[w].pc = "read"
    /\ IF sites # <<>> /\ sites[1].creator = req[w].user
          THEN Goto(w, "transfer") ELSE Done(w)
    /\ UNCHANGED <<sites, registered, admins, strayCreator>>

\* Mutant: the transfer with no foreign key on creator_id.
TransferSiteUpdateNoFK(w) ==
    /\ req[w].op = "transfer" /\ req[w].pc = "transfer"
    /\ sites' = [sites EXCEPT ![1].creator = req[w].target]
    /\ strayCreator' = (strayCreator \/ req[w].target \notin admins)
    /\ Done(w)
    /\ UNCHANGED <<registered, admins>>

\* Site::transfer (not under src/) sets the creator_id of the site to the
\* person of the form, whoever it is (the foreign key on creator_id fails
\* it for a person without an account).  ModAdd::create, SiteView::read and
\* the admins follow; `.context(..)?` on the new creator's position among
\* the admins fails the request, after the transfer, if it is no admin.
TransferSiteUpdate(w) ==
    /\ req[w].op = "transfer" /\ req[w].pc = "transfer"
    /\ \/ req[w].target \in registered
          /\ sites' = [sites EXCEPT ![1].creator = req[w].target]
          /\ strayCreator' = (strayCreator \/ req[w].target \notin admins)
       \/ req[w].target \notin registered /\ UNCHANGED <<sites, strayCreator>>
    /\ Done(w)
    /\ UNCHANGED <<registered, admins>>

\* A database call fails or the task stops at the await it waits at; what
\* the earlier awaits wrote stays.
Abandon(w) ==
    /\ req[w].pc # "idle"
    /\ crashes < MaxCrashes
    /\ crashes' = crashes + 1
    /\ Done(w)
    /\ UNCHANGED <<sites, registered, admins, strayCreator>>

\* The steps of a started request that do not fail it.
Progress(w) ==
    \/ GetSiteRead(w) \/ SetupRegister(w) \/ GetSiteReread(w)
    \/ GetSiteAdmins(w) \/ GetSiteBanned(w)
    \/ CreateSiteRead(w) \/ CreateSiteAuth(w) \/ CreateSiteInsert(w)
    \/ EditSiteRead(w) \/ EditSiteUpdate(w)
    \/ TransferSiteRead(w) \/ TransferSiteUpdate(w)

Next ==
    \E w \in Workers :
        \/ Issue(w) /\ UNCHANGED crashes
        \/ Progress(w) /\ UNCHANGED <<requests, crashes>>
        \/ Abandon(w) /\ UNCHANGED requests

Spec == Init /\ [][Next]_vars

\* A started request runs on (its awaits return, with a result or an
\* error) and clients keep loading the site; other requests need not come.
FairSpec ==
    /\ Spec
    /\ \A w \in Workers : WF_vars(Progress(w) /\ UNCHANGED <<requests, crashes>>)
    /\ WF_vars(\E v \in Workers : LoadSite(v) /\ UNCHANGED crashes)

(***************************************************************************)
(* Properties                                                              *)
(***************************************************************************)

\* GetSite lists the site creator first among the admins and its comment
\* (site.rs:291-292) wonders why the creator is sometimes missing from
\* them; TransferSite fails at site.rs:533 when it is.  The site creator
\* is an admin.
SiteCreatorIsAdmin == sites # <<>> => sites[1].creator \in admins

\* GetSite moves the creator of the site view it read to the front of the
\* admins it read an await later (site.rs:286-295); the TODO there asks why
\* the creator is sometimes not found among them.  A response without the
\* creator among its admins comes only after a TransferSite gave the site
\* to a person who is no admin (site.rs:512-533): neither CreateSite, nor
\* the setup, nor an EditSite that writes back a creator it read, nor a
\* transfer landing between GetSite's two reads leaves the creator out.
CreatorMissingOnlyAfterTransfer ==
    \A w \in Workers : req[w].op = "getsite" /\ req[w].pc = "banned" /\ ~req[w].listed
                        => strayCreator

\* CreateSite answers "site_already_exists" when Site::read_simple finds a
\* site (site.rs:151), and every reader takes the first row: an instance
\* has at most one site row.  The check and Site::create (site.rs:176) are
\* two awaits apart, and only the name is unique.
SiteRowUnique == Len(sites) <= 1

\* GetSite sets the site up from the setup section when it finds none
\* (site.rs:250-283), so a site that is loaded again and again is
\* eventually set up, whatever single request fails on the way.  The setup
\* is a Register and a CreateSite, two requests in a row: once the setup
\* admin's username exists, the Register of every later GetSite fails.
SiteSetUp == <>(sites # <<>>)

====
