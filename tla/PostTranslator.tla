--------------------------- MODULE PostTranslator ---------------------------
(***************************************************************************)
(* The inbound direction of the post object translator of                 *)
(* crates/apub/src/objects/post.rs: FromApub for Post calls               *)
(* get_object_from_apub, which builds the form with PostForm::from_apub   *)
(* and stores the post, and then checks the ban.  One page is translated  *)
(* at a time, its steps in the order of the code; each await that fetches *)
(* or writes may fail.                                                    *)
(*                                                                         *)
(* A page id i carries the page a Lemmy instance built with ToApub for    *)
(* Post from its post row Sent[i]; Spoofed are the ids whose page id is   *)
(* not of the expected domain (check_object_domain).  A post row keeps    *)
(* the fields the two directions translate: creator, community, name,     *)
(* body, url, thumbnail and the locked, nsfw and stickied flags; the ap    *)
(* id, the dates and the embed fields are left out.                        *)
(***************************************************************************)
EXTENDS FiniteSets

CONSTANTS
    Persons,        \* remote persons
    Communities,    \* communities
    Names,          \* post names
    SlurNames,      \* the names check_slurs rejects
    Ids,            \* page ids
    Sent,           \* Sent[i]: the sender's post row the page i was built from
    Spoofed,        \* ids whose page id is not of the expected domain
    Banned,         \* persons banned from the site or the page's community
    None

\* A body is absent, plain, or contains slurs; remove_slurs censors them.
Bodies == {None, "text", "slurs", "censored"}

\* A thumbnail url is absent, the sender's, or the one pictrs stored here.
Thumbs == {None, "sent", "pictrs"}

PostRow == [creator: Persons, community: Communities, name: Names,
            body: Bodies, url: BOOLEAN, thumbnail: Thumbs,
            locked: BOOLEAN, nsfw: BOOLEAN, stickied: BOOLEAN]

ASSUME Sent \in [Ids -> PostRow] /\ SlurNames \subseteq Names
       /\ Spoofed \subseteq Ids /\ Banned \subseteq Persons

\* ToApub for Post: the Page and its PageExtension.  The name goes into
\* name and summary, the body into content/source, the thumbnail into
\* image; comments_enabled is the negation of locked.
ToApub(p) ==
    [attributedTo |-> p.creator, to |-> p.community, name |-> p.name,
     summary |-> p.name, content |-> p.body, url |-> p.url,
     image |-> p.thumbnail, commentsEnabled |-> ~p.locked,
     sensitive |-> p.nsfw, stickied |-> p.stickied]

Page(i) == ToApub(Sent[i])

RemoveSlurs(b) == IF b = "slurs" THEN "censored" ELSE b

\* Mutant: comments_enabled copied into locked without its negation.
FormOfUnnegated(g, t) ==
    [creator |-> g.attributedTo, community |-> g.to, name |-> g.name,
     body |-> RemoveSlurs(g.content), url |-> g.url,
     thumbnail |-> IF g.url THEN t ELSE g.image, locked |-> g.commentsEnabled,
     nsfw |-> g.sensitive, stickied |-> g.stickied]

\* PostForm::from_apub's form from page g, when fetch_iframely_and_pictrs_data
\* returned thumbnail t: with a url the thumbnail is what pictrs stored for
\* it, without one the page's image.
FormOf(g, t) ==
    [creator |-> g.attributedTo, community |-> g.to, name |-> g.name,
     body |-> RemoveSlurs(g.content), url |-> g.url,
     thumbnail |-> IF g.url THEN t ELSE g.image, locked |-> ~g.commentsEnabled,
     nsfw |-> g.sensitive, stickied |-> g.stickied]

\* Outcomes of a translation, as the error taxonomy of spec.md 7 names them.
Results == {"none", "ok", "SlurRejected", "DomainMismatch", "ActorBanned", "Failed"}

\* The rows and uploads a translation may leave behind, besides the post.
Effects == {"person", "community", "thumbnail"}

VARIABLES
    persons,        \* person rows (get_or_fetch_and_upsert_person)
    communities,    \* community rows (get_to_community)
    thumbnails,     \* pages whose link thumbnail pictrs stored
    posts,          \* pages with a post row
    pc,             \* the await the translation is at
    cur,            \* the page being translated, or None
    result,         \* result[i]: how the translation of i ended
    effects,        \* effects[i]: what the translation of i wrote
    form            \* form[i]: the PostForm built for i, or None

vars == <<persons, communities, thumbnails, posts, pc, cur, result, effects, form>>

Pcs == {"idle", "creator", "community", "iframely", "slurs", "domain",
        "upsert", "ban"}

TypeOK ==
    /\ persons \subseteq Persons
    /\ communities \subseteq Communities
    /\ thumbnails \subseteq Ids
    /\ posts \subseteq Ids
    /\ pc \in Pcs
    /\ cur \in Ids \cup {None}
    /\ (pc = "idle") <=> (cur = None)
    /\ result \in [Ids -> Results]
    /\ effects \in [Ids -> SUBSET Effects]
    /\ form \in [Ids -> PostRow \cup {None}]

Init ==
    /\ persons = {}
    /\ communities = {}
    /\ thumbnails = {}
    /\ posts = {}
    /\ pc = "idle"
    /\ cur = None
    /\ result = [i \in Ids |-> "none"]
    /\ effects = [i \in Ids |-> {}]
    /\ form = [i \in Ids |-> None]

Stores == <<persons, communities, thumbnails, posts>>

Goto(p) == pc' = p /\ UNCHANGED <<cur, result>>

\* The translation returns with result r.
Finish(r) ==
    /\ result' = [result EXCEPT ![cur] = r]
    /\ pc' = "idle"
    /\ cur' = None

Wrote(e) == effects' = [effects EXCEPT ![cur] = @ \cup {e}]

\* A Create or Update hands page i to the translator.
Receive(i) ==
    /\ pc = "idle"
    /\ result[i] = "none"
    /\ cur' = i
    /\ pc' = "creator"
    /\ UNCHANGED <<Stores, result, effects, form>>

\* Mutant: the person upserted from the page's to field.
UpsertCreatorWrongActor ==
    /\ pc = "creator"
    /\ persons' = persons \cup {Page(cur).to}
    /\ Wrote("person")
    /\ Goto("community")
    /\ UNCHANGED <<communities, thumbnails, posts, form>>

\* get_or_fetch_and_upsert_person for attributed_to.
UpsertCreator ==
    /\ pc = "creator"
    /\ persons' = persons \cup {Page(cur).attributedTo}
    /\ Wrote("person")
    /\ Goto("community")
    /\ UNCHANGED <<communities, thumbnails, posts, form>>

\* get_to_community: the community the page is addressed to.
GetToCommunity ==
    /\ pc = "community"
    /\ communities' = communities \cup {Page(cur).to}
    /\ Wrote("community")
    /\ Goto("iframely")
    /\ UNCHANGED <<persons, thumbnails, posts, form>>

\* The rest of PostForm::from_apub: fetch_iframely_and_pictrs_data for the
\* url, if any, whose failures are swallowed into None values (pictrs
\* stores the thumbnail when it succeeds); the name, the body with
\* remove_slurs, and the fields of the form.
FetchIframely ==
    /\ pc = "iframely"
    /\ \E t \in IF Page(cur).url THEN {"pictrs", None} ELSE {None} :
          /\ IF t = "pictrs"
                THEN thumbnails' = thumbnails \cup {cur} /\ Wrote("thumbnail")
                ELSE UNCHANGED <<thumbnails, effects>>
          /\ form' = [form EXCEPT ![cur] = FormOf(Page(cur), t)]
    /\ Goto("slurs")
    /\ UNCHANGED <<persons, communities, posts>>

\* check_slurs on the name.
CheckSlurs ==
    /\ pc = "slurs"
    /\ \/ Page(cur).name \notin SlurNames /\ Goto("domain")
       \/ Page(cur).name \in SlurNames /\ Finish("SlurRejected")
    /\ UNCHANGED <<Stores, effects, form>>

\* Mutant: the form built without check_object_domain.
CheckDomainSkipped ==
    /\ pc = "domain"
    /\ Goto("upsert")
    /\ UNCHANGED <<Stores, effects, form>>

\* check_object_domain, the last field of the PostForm.
CheckDomain ==
    /\ pc = "domain"
    /\ \/ cur \notin Spoofed /\ Goto("upsert")
       \/ cur \in Spoofed /\ Finish("DomainMismatch")
    /\ UNCHANGED <<Stores, effects, form>>

\* get_object_from_apub (not under src/): the post is upserted from the form.
UpsertPost ==
    /\ pc = "upsert"
    /\ posts' = posts \cup {cur}
    /\ Goto("ban")
    /\ UNCHANGED <<persons, communities, thumbnails, effects, form>>

\* check_object_for_community_or_site_ban, after the post is stored.
CheckBan ==
    /\ pc = "ban"
    /\ \/ Page(cur).attributedTo \in Banned /\ Finish("ActorBanned")
       \/ Page(cur).attributedTo \notin Banned /\ Finish("ok")
    /\ UNCHANGED <<Stores, effects, form>>

\* A fetch or a database call fails at the await the translation is at.
Fail ==
    /\ pc \in {"creator", "community", "upsert", "ban"}
    /\ Finish("Failed")
    /\ UNCHANGED <<Stores, effects, form>>

Next ==
    \/ \E i \in Ids : Receive(i)
    \/ UpsertCreator \/ GetToCommunity \/ FetchIframely \/ CheckSlurs
    \/ CheckDomain \/ UpsertPost \/ CheckBan \/ Fail

Spec == Init /\ [][Next]_vars

(***************************************************************************)
(* Properties                                                              *)
(***************************************************************************)

\* spec.md 8.4: a page whose id is not of the expected domain never becomes
\* a post, whatever else it carries and whichever awaits fail.
DomainContained == posts \cap Spoofed = {}

\* spec.md 7 and 8.5: an ActorBanned rejection produces no content
\* mutation.  FromApub for Post checks the ban after get_object_from_apub
\* has stored the post.
BannedPostNotStored ==
    \A i \in Ids : result[i] = "ActorBanned" => i \notin posts

\* A post sent by one Lemmy instance and stored by another keeps its
\* creator, community, name, url and flags through ToApub for Post and
\* PostForm::from_apub; its body too unless remove_slurs censored it, and
\* its thumbnail unless it has a url, whose thumbnail pictrs fetches anew.
Kept == {"creator", "community", "name", "url", "locked", "nsfw", "stickied"}

RoundTrip ==
    \A i \in posts :
        /\ \A k \in Kept : form[i][k] = Sent[i][k]
        /\ Sent[i].body # "slurs" => form[i].body = Sent[i].body
        /\ ~Sent[i].url => form[i].thumbnail = Sent[i].thumbnail

=============================================================================
