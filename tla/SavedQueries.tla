--------------------------- MODULE SavedQueries ---------------------------
(* The saved-query sidecar: one YAML file the server rewrites whole, under  *)
(* a write mutex and with a derived ETag per entry (ADR-0036), and the      *)
(* `/queries` pages of several browsers that load, edit, save, overwrite    *)
(* and delete its entries.  A request travels to the server and its reply   *)
(* travels back, each in a step of its own.                                 *)
EXTENDS Naturals, FiniteSets, TLC

CONSTANTS
    Tabs,          \* open `/queries` pages
    Slugs, Bodies, ParameterLists, Descriptions,
    NoSlug, NoEntry, NoDescription,
    MaxRequests,   \* requests a page has under way at a time (bound)
    MaxWrites,     \* file rewrites of a behaviour (bound)
    MaxHandEdits   \* edits of the file by hand (bound)

VARIABLES
    file,      \* slug -> entry or NoEntry
    writing,   \* mutations between load and rename: [doc, call, clean]
    tabs,      \* page -> what it shows
    asked,     \* requests on their way to the server
    replies,   \* replies on their way to a page
    writes, handEdits

qvars == <<file, writing, tabs, asked, replies, writes, handEdits>>

Entries == [body : Bodies, parameters : ParameterLists, description : Descriptions \cup {NoDescription}]

(* deriveEntryEtag: slug, description and body; the parameters are not in. *)
Etag(slug, entry) == <<slug, entry.description, entry.body>>
NoEtag == << >>

EmptyTab == [kind |-> "empty", selected |-> NoSlug, slug |-> NoSlug, etag |-> NoEtag,
             seen |-> NoEntry, draft |-> NoEntry, stale |-> NoSlug, staleDelete |-> NoSlug]

QueriesInit ==
    /\ file \in [Slugs -> Entries \cup {NoEntry}]
    /\ writing = {}
    /\ tabs = [t \in Tabs |-> EmptyTab]
    /\ asked = {} /\ replies = {}
    /\ writes = 0 /\ handEdits = 0

Pending(t) == {c \in asked : c.tab = t} \cup {r \in replies : r.tab = t}
              \cup {w.call : w \in {x \in writing : x.call.tab = t}}

Call(t, op, slug, etag, entry, then) ==
    [tab |-> t, op |-> op, slug |-> slug, etag |-> etag, entry |-> entry, then |-> then,
     seen |-> tabs[t].seen]

SendCall(call) == call \notin asked /\ Cardinality(Pending(call.tab)) < MaxRequests
              /\ asked' = asked \cup {call}

Shows(t, changes) == tabs' = [tabs EXCEPT ![t] = changes @@ @]

(* toWriteBody: what the page sends has no description. *)
WriteBody(t) == [tabs[t].draft EXCEPT !.description = NoDescription]

-----------------------------------------------------------------------------
(* The pages. *)

(* loadSlug, through the navigation of onSelect: the page shows what it had *)
(* until the entry arrives.                                                 *)
LoadSlug(t, slug) ==
    /\ tabs[t].selected # slug
    /\ Shows(t, [selected |-> slug, kind |-> IF tabs[t].kind = "loaded" THEN "loaded" ELSE "loading"])
    /\ SendCall(Call(t, "get", slug, NoEtag, NoEntry, "load"))
    /\ UNCHANGED <<file, writing, replies, writes, handEdits>>

(* onBodyChange and onParametersDraftChange. *)
EditDraft(t, body, parameters) ==
    /\ tabs[t].kind = "loaded"
    /\ Shows(t, [draft |-> [tabs[t].draft EXCEPT !.body = body, !.parameters = parameters]])
    /\ UNCHANGED <<file, writing, asked, replies, writes, handEdits>>

Save(t) ==
    /\ tabs[t].kind = "loaded"
    /\ SendCall(Call(t, "put", tabs[t].slug, tabs[t].etag, WriteBody(t), "save"))
    /\ UNCHANGED <<file, writing, tabs, replies, writes, handEdits>>

(* onDelete, once the user confirmed. *)
StartDelete(t) ==
    /\ tabs[t].kind = "loaded"
    /\ SendCall(Call(t, "delete", tabs[t].slug, tabs[t].etag, NoEntry, "delete"))
    /\ UNCHANGED <<file, writing, tabs, replies, writes, handEdits>>

(* The two dialogs a 412 opens: reload, or fetch the entry and write over   *)
(* it, or fetch it and delete it.                                           *)
AfterStale(t, then) ==
    LET slug == IF then \in {"reload", "overwrite"} THEN tabs[t].stale ELSE tabs[t].staleDelete IN
    /\ tabs[t].kind = "loaded" /\ slug # NoSlug
    /\ SendCall(Call(t, "get", slug, NoEtag, NoEntry, then))
    /\ UNCHANGED <<file, writing, tabs, replies, writes, handEdits>>

(* onCreate: a PUT without If-Match. *)
Create(t, slug, entry) ==
    /\ tabs[t].kind \in {"empty", "not-found"}
    /\ SendCall(Call(t, "put", slug, NoEtag, [entry EXCEPT !.description = NoDescription], "create"))
    /\ UNCHANGED <<file, writing, tabs, replies, writes, handEdits>>

Loaded(t, slug, entry) ==
    [kind |-> "loaded", slug |-> slug, etag |-> Etag(slug, entry), seen |-> entry, draft |-> entry,
     stale |-> NoSlug]

(* A reply reaches the page that asked.  loadSlug drops a late one; the     *)
(* dialogs and the save do not compare it with what the page shows now.     *)
Relevant(t, reply) == tabs[t].selected = reply.slug

Takes(reply, kinds) == reply \in replies /\ reply.then \in kinds
Keeps(reply) == replies' = replies \ {reply} /\ UNCHANGED <<file, writing, writes, handEdits>>

(* A page that goes away no longer hears of what it asked. *)
Deaf(t, c) == IF c.tab = t THEN [c EXCEPT !.then = "nobody"] ELSE c

LeavesPage(t, more) ==
    /\ replies' = {r \in replies : r.tab # t}
    /\ writing' = {[w EXCEPT !.call = Deaf(t, w.call)] : w \in writing}
    /\ asked' = {Deaf(t, c) : c \in asked} \cup more
    /\ UNCHANGED <<file, writes, handEdits>>

EntryArrives(reply) ==
    /\ Takes(reply, {"load"}) /\ Keeps(reply) /\ UNCHANGED asked
    /\ IF ~Relevant(reply.tab, reply) THEN UNCHANGED tabs
       ELSE IF reply.status = "ok" THEN Shows(reply.tab, Loaded(reply.tab, reply.slug, reply.entry))
       ELSE Shows(reply.tab, [kind |-> "not-found"])

(* onStaleReload, and DeleteController.reload: applyLoadedFromServer sets   *)
(* body and ETag, whatever slug the page shows by now.                      *)
ReloadArrives(reply) ==
    /\ Takes(reply, {"reload", "reload after delete"}) /\ Keeps(reply) /\ UNCHANGED asked
    /\ IF reply.status = "ok" /\ tabs[reply.tab].kind = "loaded"
       THEN Shows(reply.tab,
              [etag |-> Etag(reply.slug, reply.entry), seen |-> reply.entry, draft |-> reply.entry]
              @@ (IF reply.then = "reload" THEN [stale |-> NoSlug] ELSE [staleDelete |-> NoSlug]))
       ELSE UNCHANGED tabs

(* onStaleOverwrite and confirmAfterStale: the entry just fetched gives the *)
(* ETag of the write that follows.                                          *)
FetchedForWrite(reply) ==
    LET t == reply.tab
        put == Call(t, "put", reply.slug, Etag(reply.slug, reply.entry), WriteBody(t), "save over")
        delete == Call(t, "delete", reply.slug, Etag(reply.slug, reply.entry), NoEntry, "delete") IN
    /\ Takes(reply, {"overwrite", "delete over"}) /\ Keeps(reply) /\ UNCHANGED tabs
    /\ asked' = IF reply.status = "ok" /\ tabs[t].kind = "loaded"
                THEN asked \cup {[(IF reply.then = "overwrite" THEN put ELSE delete)
                                   EXCEPT !.seen = reply.entry]}
                ELSE asked

(* onSave and onStaleOverwrite, the reply: applyAfterSave, or the dialog.   *)
SaveArrives(reply) ==
    /\ Takes(reply, {"save", "save over"}) /\ Keeps(reply) /\ UNCHANGED asked
    /\ CASE tabs[reply.tab].kind = "loaded" /\ reply.status = "ok" ->
               Shows(reply.tab, [etag |-> Etag(reply.slug, reply.entry), seen |-> reply.entry]
                                @@ (IF reply.then = "save over" THEN [stale |-> NoSlug] ELSE << >>))
         [] tabs[reply.tab].kind = "loaded" /\ reply.status = "stale" /\ reply.then = "save" ->
               Shows(reply.tab, [stale |-> reply.slug])
         [] OTHER -> UNCHANGED tabs

(* DeleteController.start and confirmAfterStale, the reply: afterDeleted    *)
(* navigates to `/queries`.                                                 *)
DeleteArrives(reply) ==
    /\ Takes(reply, {"delete"})
    /\ IF reply.status = "ok"
       THEN Shows(reply.tab, EmptyTab) /\ LeavesPage(reply.tab, {})
       ELSE /\ Keeps(reply) /\ UNCHANGED asked
            /\ IF reply.status = "stale" THEN Shows(reply.tab, [staleDelete |-> reply.slug])
               ELSE UNCHANGED tabs

CreateArrives(reply) ==
    /\ Takes(reply, {"create"})
    /\ IF reply.status = "ok"
       THEN /\ Shows(reply.tab, [EmptyTab EXCEPT !.selected = reply.slug, !.kind = "loading"])
            /\ LeavesPage(reply.tab, {Call(reply.tab, "get", reply.slug, NoEtag, NoEntry, "load")})
       ELSE Keeps(reply) /\ UNCHANGED <<asked, tabs>>

NobodyHears(reply) ==
    Takes(reply, {"nobody"}) /\ Keeps(reply) /\ UNCHANGED <<asked, tabs>>

-----------------------------------------------------------------------------
(* The server. *)

Reply(call, status, entry) ==
    [tab |-> call.tab, then |-> call.then, slug |-> call.slug, status |-> status, entry |-> entry]

(* GET /api/saved-queries/:slug: reads are not gated by the mutex. *)
GetOne(call) ==
    /\ call \in asked /\ call.op = "get"
    /\ asked' = asked \ {call}
    /\ replies' = replies \cup
         {Reply(call, IF file[call.slug] = NoEntry THEN "not-found" ELSE "ok", file[call.slug])}
    /\ UNCHANGED <<file, writing, tabs, writes, handEdits>>

(* runExclusive: the mutations run one after the other; each loads the      *)
(* whole document before it decides.                                        *)
MutexIgnored == TRUE
MutexFree == writing = {}

LoadDoc(call) ==
    /\ call \in asked /\ call.op \in {"put", "delete"}
    /\ MutexFree
    /\ writes < MaxWrites
    /\ asked' = asked \ {call}
    /\ writing' = writing \cup {[doc |-> file, call |-> call, clean |-> TRUE]}
    /\ UNCHANGED <<file, tabs, replies, writes, handEdits>>

(* put and delete: what the ETag says of the entry the document holds.      *)
Verdict(doc, call) ==
    LET existing == doc[call.slug] IN
    IF call.op = "put"
    THEN CASE existing = NoEntry -> "ok"
           [] existing # NoEntry /\ call.etag = NoEtag -> "slug-exists"
           [] existing # NoEntry /\ call.etag # NoEtag /\ call.etag # Etag(call.slug, existing) -> "stale"
           [] OTHER -> "ok"
    ELSE CASE existing = NoEntry -> "missing"
           [] existing # NoEntry /\ call.etag # Etag(call.slug, existing) -> "stale"
           [] OTHER -> "ok"

(* upsertEntry or removeEntry on the document, then atomicWriteFile renames *)
(* the whole of it over the file.                                           *)
WriteFile(w) ==
    LET status == Verdict(w.doc, w.call)
        entry == IF w.call.op = "put" THEN w.call.entry ELSE NoEntry IN
    /\ w \in writing /\ writing' = writing \ {w}
    /\ file' = IF status = "ok" THEN [w.doc EXCEPT ![w.call.slug] = entry] ELSE file
    /\ writes' = IF status = "ok" THEN writes + 1 ELSE writes
    /\ replies' = replies \cup {Reply(w.call, status, entry)}
    /\ UNCHANGED <<tabs, asked, handEdits>>

(* Writing the temp file or renaming it fails: the file is left as it was,  *)
(* the mutex goes to the next mutation and the page shows no outcome.       *)
WriteFails(w) ==
    /\ w \in writing /\ writing' = writing \ {w}
    /\ UNCHANGED <<file, tabs, asked, replies, writes, handEdits>>

(* "multi-line SPARQL bodies are still occasionally hand-edited". *)
HandEdit(slug, entry) ==
    /\ handEdits < MaxHandEdits /\ file[slug] # entry
    /\ handEdits' = handEdits + 1
    /\ file' = [file EXCEPT ![slug] = entry]
    /\ writing' = {[w EXCEPT !.clean = FALSE] : w \in writing}
    /\ UNCHANGED <<tabs, asked, replies, writes>>

QueriesNext ==
    \/ \E t \in Tabs :
         \/ \E s \in Slugs : LoadSlug(t, s) \/ \E e \in Entries : Create(t, s, e)
         \/ \E b \in Bodies, p \in ParameterLists : EditDraft(t, b, p)
         \/ Save(t) \/ StartDelete(t)
         \/ \E then \in {"reload", "overwrite", "reload after delete", "delete over"} : AfterStale(t, then)
    \/ \E reply \in replies :
         \/ EntryArrives(reply) \/ ReloadArrives(reply) \/ FetchedForWrite(reply)
         \/ SaveArrives(reply) \/ DeleteArrives(reply) \/ CreateArrives(reply) \/ NobodyHears(reply)
    \/ \E call \in asked : GetOne(call) \/ LoadDoc(call)
    \/ \E w \in writing : WriteFile(w) \/ WriteFails(w)
    \/ \E s \in Slugs, e \in Entries \cup {NoEntry} : HandEdit(s, e)

QueriesSpec == QueriesInit /\ [][QueriesNext]_qvars

(* The mutex makes the check of an ETag and the rename one step: a          *)
(* conditional write that goes through replaces an entry that still has the *)
(* ETag it was sent with, and leaves every other entry as the file has it,  *)
(* however the mutations of several pages interleave.  (A hand edit that    *)
(* lands between the load and the rename is lost: `clean` excludes it.)     *)
WritesAreAtomic ==
    [][\A w \in writing : WriteFile(w) /\ w.clean /\ Verdict(w.doc, w.call) = "ok" =>
         /\ \A s \in Slugs \ {w.call.slug} : file'[s] = file[s]
         /\ w.call.etag # NoEtag /\ file[w.call.slug] # NoEntry
              => Etag(w.call.slug, file[w.call.slug]) = w.call.etag
         /\ w.call.etag = NoEtag => file[w.call.slug] = NoEntry]_qvars

(* "Two browsers (or two tabs) editing the same template silently lose one  *)
(* user's work" is what the ETag is there to prevent (ADR-0036): a save     *)
(* that goes through replaces the entry its page has seen.                  *)
NoLostUpdate ==
    [][\A w \in writing :
         WriteFile(w) /\ w.clean /\ Verdict(w.doc, w.call) = "ok" /\ w.call.etag # NoEtag
         /\ file[w.call.slug] # NoEntry
           => file[w.call.slug] = w.call.seen]_qvars
============================================================================
