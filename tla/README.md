# TLA+ models of the Lemmy federation core and its API handlers

This directory holds TLA+ models of the code under `src/`:
- the community inbox (`crates/apub/src/inbox/community_inbox.rs`);
- the community and site API handlers (`crates/api/src/community.rs`, `crates/api/src/site.rs`);
- the inbound post translator (`crates/apub/src/objects/post.rs`).

The runs check them with TLC.

Every module models concurrent request handling the same way.
- Each HTTP request, whether an inbox delivery or an API call, is its own task.
- Tasks interleave at every `blocking(pool, ..).await` and at every network call.
- Nothing runs in a transaction.
- A task is a record with a `pc`: the await it is suspended at.
- Every await is one action.
- `Abandon`/`Fail` model a database or network error, or a dropped connection, at any await. What earlier awaits wrote stays.

## Inventory

| Part | Source | State it changes | Operations | Module |
|---|---|---|---|---|
| Community inbox | community_inbox.rs | activity (dedup) rows, community_follower rows; receive_* effects; announces; Accepts | `community_inbox`, `community_receive_message`, `handle_follow`, `handle_undo(_follow)`, `check_community_or_site_ban`, announce | CommunityInbox |
| Dedup promise (abstract) | spec.md 4.3, 4.7 | seen ids, applied, announced | record, apply, announce | ActivityDedup |
| Community API | api/community.rs | community row (creator, deleted, removed), community_moderator (ordered), community_follower, community_person_ban, the removed flag of a person's posts and comments | Create, Edit, Follow (local and remote), Ban/Unban with remove_data, AddMod (join/leave), Transfer, Delete, Remove | CommunityApi |
| Inbox + API | both | shared follower and ban rows | both sets of actions | Federation |
| Site API | api/site.rs | site rows (name, creator), accounts and admin flags (setup) | CreateSite, EditSite, TransferSite, GetSite (setup, site view, admins, banned) | Site |
| Post translator | apub/objects/post.rs | person, community, pictrs thumbnail, post rows and the PostForm stored | ToApub (the sender's page), creator upsert, community fetch, iframely/pictrs, check_slurs, check_object_domain, get_object_from_apub, ban check | PostTranslator |
| Aggregates | db_queries/aggregates/*.rs | counters kept by SQL triggers (not under src/) | tests only | not modelled |
| Structs | db_schema/source/*.rs, api_structs/person.rs | none | none | rows are the variables; `Row` is CommunityForm; `ModeratorRow`, `BanRow` and `FollowerRow` (CommunityApi) are the moderator, ban and follower rows that TypeOK types `mods`, `bans` and `followers` by |

How the parts interact:
- A remote person's activities reach the inbox.
- Local users' requests reach the API.
- Both read and write the same follower and ban tables.
- The inbox applies content through the translator (the receive_* helpers, not under src/).

Hard behaviours, as the code shows them:
- Check-then-act across awaits: dedup, ban, site existence, the moderator list.
- Read-modify-write of whole rows: EditCommunity and EditSite.
- Writes done before the checks that can still fail: insert_activity, update_creator, Site::transfer, the translator's upserts.
- At-least-once delivery to any inbox path.

## Modules and how they map to the code

**`ActivityDedup`** is the abstract specification. Per activity id:
- the id is recorded once;
- the effect is applied at most once, and only after the id is recorded;
- the announce happens at most once, and only after the effect.

**`CommunityInbox`** has these variables:
- `activity`: the dedup rows;
- `followers` and `bans`;
- `siteBanned`;
- `worker[w]`: pc, id and inbox path;
- `deliveries`;
- `applied[i]` and `announced[i]`: counts of the receive effect and of send_announce;
- `accepted`.

Its actions, one per await:
- `Deliver`: a remote server POSTs id i to community c. Deliveries are at-least-once and may go to any path.
- `Verify`: the signature check.
- `CheckKnown`: is_activity_already_known.
- `CheckAddressAndInsert`: the to/cc check, assert_activity_not_local, then insert_activity.
- `CheckBan`.
- `Dispatch`, with disjuncts `HandleFollow`, `HandleUndoFollow`, `ReceiveForCommunity` and `IgnoreRemove`.
- `SendAcceptFollow`.
- `AnnounceToFollowers`.
- `Abandon`.

An activity is a record with these fields: kind, inner-Follow flag, actor, object community, to/cc set, public, signed, local and domains-valid. `DedupRefined` checks `INSTANCE ActivityDedup WITH seen <- activity` as a property.

**`CommunityApi`** has these variables:
- `communities`, `creator`, `deleted`, `removed`;
- `mods[c]`: a sequence in row order, which TransferCommunity reorders;
- `followers`, `bans`;
- `postsRemoved` and `commentsRemoved`: the (community, person) pairs whose posts, and the comments (community, person, k), that BanFromCommunity's remove_data marked removed; each person has `CommentsEach` comments in each community;
- `req[w]`: the request, with the `data` flag of remove_data;
- `appointed`: a history of appointed moderators.

Each handler is split at its awaits, for example TransferAuth → TransferUpdateCreator → TransferReadMods → TransferDeleteMods → TransferRejoin. The loop of TransferRejoin is one action per iteration, and so is the loop over the comments in BanRemoveComment. `MoveToFront` is TransferCommunity's `position`/`remove`/`insert(0, ..)`.

**`Federation`** instantiates both components, sharing `followers` and `bans`. The inbox's persons are the remote persons; the API's callers are the local users.

**`Site`**:
- `sites` is the site table as a sequence. The first row is what `read_simple` and `update(1, ..)` touch.
- `registered` and `admins` cover the accounts.
- Register (not under src/) is modelled from its known behaviour: unique username, first user becomes admin.
- `Preregistered` are the persons who may have an account before the first start, and `crashes` counts requests that stopped half-way, up to `MaxCrashes`.
- `LoadSite` is a client loading the site: a GetSite, not counted against `MaxRequests`.
- GetSite runs to its response: `GetSiteRead` (or, after the setup's CreateSite returns through `CreateSiteReturn`, `GetSiteReread`) takes the site view's creator, `GetSiteAdmins` reads the admins and records whether that creator is among them (`listed`, the move to the front at site.rs:286-295), and `GetSiteBanned` covers the remaining reads.
- `strayCreator` is a history variable: it becomes true when a TransferSite makes a person who is no admin the site creator.

**`PostTranslator`** follows one page through the awaits of `FromApub for Post` in code order. It records `effects[i]` (what was written), `result[i]` (the outcome in spec.md 7's terms) and `form[i]` (the PostForm built).
- The page of id i is `ToApub(Sent[i])`: the operator translates `ToApub for Post` from the sender's post row (creator, community, name, body, url, thumbnail, locked, nsfw, stickied).
- `FormOf(page, t)` translates the PostForm literal of `PostForm::from_apub`, with t the thumbnail fetch_iframely_and_pictrs_data returned (a pictrs url or None when a url is present).
- `Spoofed` are the ids whose page id fails check_object_domain, and `SlurNames` the names check_slurs rejects.

## Runs

| Run | Expect | What it shows |
|---|---|---|
| inbox_all | pass | One activity per branch (9 ids, 2 inbox paths), 2 concurrent handlers, 3 deliveries (a race and a retry), failures anywhere: refines ActivityDedup. |
| inbox_lost | violation | A failure after insert_activity loses the activity for good (spec.md 5/7). |
| inbox_cc | violation | A Follow cc'd to a second community follows it too (spec.md 4.5). |
| api_all | pass | All 8 handlers, 2 concurrent requests, ban with and without remove_data, failures at any await: every table stays within its row type (TypeOK). It is the reachability run for the API: every action and branch fires. |
| api_ban | violation | A FollowCommunity that passed check_community_ban before the ban row writes its follower row after the ban's unfollow: a banned person is subscribed (comment at community.rs:609). `BannedNotFollower` is an action property on new follower rows, so a ban that is between its own insert and unfollow is not counted. |
| api_transfer | violation | The shortest trace is a TransferCommunity that fails after delete_for_community (827) and before any re-join: every moderator is lost. An AddModToCommunity between the transfer's read of the moderators and its delete is lost too. |
| api_edit | violation | EditCommunity undoes a concurrent RemoveCommunity. |
| federation_ban | violation | A ban landing between the inbox's ban check and the effect lets a banned person's post through (spec.md 8.5). |
| site_all | pass | All site handlers, 2 concurrent, 3 requests: every site row's creator has an account, and a GetSite response misses the site creator among its admins only after a TransferSite to a person who is no admin (`CreatorMissingOnlyAfterTransfer`). For the modelled handlers this is the cause the TODO at site.rs:291 asks about. It does not exercise a stale admins read: admin rights are only taken away by AddAdmin and BanPerson, which are not under src/, so in the model the admins only grow. |
| site_setup | violation | Under FairSpec, one GetSite that stops between the setup's Register and its CreateSite leaves the site never set up (SiteSetUp): every later GetSite fails at Register. |
| site_rows | violation | Two CreateSite calls at once (in the trace both by u1), with different names, both pass the existence check: two site rows (SiteRowUnique). |
| post_all | pass | No post with a foreign-domain id is ever stored (spec.md 8.4); a stored post has the sender's fields after ToApub and from_apub (RoundTrip). |

Each finding is described in `PROJECT.json` at the source line where it happens. Every property of a passing run has a mutant in `PROJECT.json`: a plausible bug in a mapped definition that makes TLC report the property violated.

Why the bounds are enough:
- Two workers are enough for every race here. Each race involves two requests.
- Request and delivery counts of 2 or 3 let every request run with one retry or one competitor.
- The violations need 5 to 10 steps.
- The passing runs reach every action and every branch.
- TLC finishes each run in under a minute.
- api_all calls the API as two users (u1 an admin) on three persons: the third person is a target who is no caller (a ban, a new moderator, a transfer), and a third caller only multiplies the states.
- api_all treats c1 as a remote community. Follows of c1 take the remote branch, and follows of c2, once it is created, take the local one.
- `CommentsEach` is 2: the remove_data loop runs more than once.
- post_all has five posts: one with a url and a thumbnail, one without a url and with the opposite flags and a body with slurs, one by a banned person, one with a spoofed id and no body or thumbnail, and one with a slur in the name.
- site_setup has a fresh install (`Preregistered = {}`), only GetSite calls and one crash: the smallest setting in which the setup can fail.

Every run disables deadlock checking. The bounds on requests and deliveries end all activity, and the server then just waits for more.

## Fairness

One specification assumes fairness.

- **`Site!FairSpec`** (site_setup) adds weak fairness of `Progress(w)` for each request slot. `Progress(w)` is every step of a started request except `Abandon`. The assumption: actix runs a handler's future to its end, and every `blocking(..).await` returns with a value or an error. The error case is `Abandon`, and it is not assumed fair. It also assumes weak fairness of `LoadSite`: clients keep loading the site, and every page load calls GetSite. Crashes are bounded by `MaxCrashes`, so fairness cannot be met just by crashing forever. `SiteSetUp` says the site is eventually set up. A single crash at the wrong await breaks it.

No other run assumes fairness. Remote servers need not send anything, so the inbox has no delivery that must happen.

## Not modelled, and why

- The receive_* effects and insert_activity are not under `src/`. They are modelled from spec.md: the effect is one count, and the insert is unique on the id.
- Signature cryptography and actor fetching are reduced to booleans and set insertions.
- Websocket messages, mod log rows, titles, descriptions, icons and the slur filter's text processing are left out. No property depends on them.
- SaveSiteConfig writes a file.
- The aggregate triggers are SQL, not under `src/`. The files under `db_queries/src/aggregates` only hold the structs, a read query and tests of those triggers. spec.md 7 puts the counters out of scope, so they stay unmodelled.
- Person rows and API structs (`db_schema/source/person.rs`, `api_structs/person.rs`) are data definitions with no operation that changes state.
- For a remote community (`RemoteCommunities`), FollowCommunity sends the Follow and inserts no row (`SendFollow`), or sends the Undo and then deletes the row (`SendUnfollow`). The row is created when the Accept reaches the person inbox. That path is not under `src/`, and spec.md 3 puts it out of scope, so it is not modelled.
- The mod log rows written after BanFromCommunity, AddMod and Transfer, and the read-only handlers (GetCommunity, ListCommunities, GetFollowedCommunities, GetModlog, Search, GetSiteConfig; GetSite is modelled because its first start writes), change no modelled state. Any failure they cause is the `Abandon` at their await.
- Dates, ap ids and the embed fields of a post are left out of the round trip. Their conversion helpers (convert_datetime, set_content_and_source) are not under `src/`.

Unban with remove_data: BanFromCommunity calls `Post::update_removed_for_creator(.., true)` and `Comment::update_removed(.., true)` whether `ban` is true or false (community.rs:631, 649). The comment at 627 says "Remove/Restore", so an unban that asks to restore the content removes it instead. The model has this behaviour (BanRemovePosts, BanRemoveComment), but no run checks it. It is sequential, and a unit test reaches it.

## Stated but not checked

The 12 runs are the checker's limit. These properties are defined in the modules and were found violated, but no run checks them now:
- `SiteCreatorIsAdmin` (Site): TransferSite makes a non-admin the site creator. The behaviour is sequential. site_all's `CreatorMissingOnlyAfterTransfer` shows it is the only way the creator drops out of GetSite's admins.
- `BannedPostNotStored` (PostTranslator): FromApub for Post stores the post before the ban check (post.rs:121), against spec.md 8.5. The behaviour is sequential. federation_ban checks the concurrent form of the same rule.

CommunityApi also reaches these hazards, which no property states (see `PROJECT.json`):
- BanFromCommunity stopping between its ban row and its unfollow, which leaves the person subscribed, and a retry of it that stops at "already banned";
- CreateCommunity stopping between the insert and the creator's join;
- DeleteCommunity's creator check going stale across a TransferCommunity;
- is_mod_or_admin going stale across an AddModToCommunity leave.

## Plan for the next sittings

A new violation run replaces an existing one. Candidates, each already reachable in the modules:
1. EditSite undoing a TransferSite (site.rs:213).
2. A write made by a caller who is no longer authorized when it lands (community.rs:338, 596).
3. A transfer to a non-moderator changing the creator (community.rs:807).
4. A property stating which content a finished ban with remove_data has removed.
5. Federation: a passing run with the ban re-checked at the effect.
