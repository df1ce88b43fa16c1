------------------------- MODULE SourceStateStream -------------------------
(***************************************************************************)
(* How a transition of a source reaches the Sources page of a browser:     *)
(* SourceStateEmitter, SourceStateBroker and SourceStateRingBuffer in      *)
(* `serve' (libs/server/src/lib/sources), the snapshot and stream          *)
(* endpoints of SourcesController, and SourcesRegistryService with its     *)
(* EventSource in the web application.                                     *)
(*                                                                         *)
(* The state of an entry is a number that each change increases: what      *)
(* matters is which state a row shows, not what the state is.  A row of a  *)
(* top-level source is a function on its family, itself and the children   *)
(* of a split glob.  Heartbeats carry no row and are left out.             *)
(***************************************************************************)
EXTENDS Naturals, Sequences, FiniteSets, SequencesExt

CONSTANTS
    Entries,      \* ids of the served sources, children of split globs too
    ParentOf,     \* child -> its split-glob meta, NoParent for the others
    DiskBacked,   \* the entries with an index, which may go stale
    NoParent,
    Capacity,     \* of the ring buffer
    MaxChanges,   \* bound: entry -> its changes
    MaxFaults     \* bound: lost connections, failed fetches and restarts

ASSUME CapacityAssumption == Capacity \in Nat \ {0}
ASSUME ParentAssumption == ParentOf \in [Entries -> Entries \cup {NoParent}]

VARIABLES
    state,      \* entry -> its state in the server
    unnoticed,  \* the stale entries whose reason is not in staleReasonSeen yet
    tail,       \* transitions that projectionTail has still to project
    partial,    \* what projectTopLevelRow has read for the first of them
    ring,       \* the events that the ring buffer still holds
    nextId,     \* the id of the next event
    channel,    \* what the server has written to the open SSE connection
    connected,  \* the EventSource has a connection
    phase,      \* of the client: "fetching", "streaming" or "stopped"
    snap,       \* what the snapshot request in flight has read
    rows,       \* the table the page shows; empty stands for null
    lastId,     \* the EventSource's last event id, 0 if it has none
    base,       \* history: nextId when the client last connected without an id
    fresh,      \* history: no restart since the client's snapshot began
    sent,       \* history: the last event of each source, also when it left the ring
    announced,  \* history: entry -> its state when it last emitted
    faults

queue == <<tail, unnoticed, announced>>
server == <<state, queue, partial, ring, nextId>>
client == <<phase, snap, rows, lastId, base>>
vars == <<server, channel, connected, client, fresh, sent, faults>>

NoRow == <<>>
Top == {e \in Entries : ParentOf[e] = NoParent}
TopLevelId(e) == IF ParentOf[e] = NoParent THEN e ELSE ParentOf[e]
Family(s) == {e \in Entries : TopLevelId(e) = s}

NothingSent == [s \in Top |-> [id |-> 0, src |-> s, row |-> NoRow]]

Init ==
    /\ state = [e \in Entries |-> 0] /\ announced = state
    /\ tail = <<>> /\ unnoticed = {} /\ partial = NoRow
    /\ ring = <<>> /\ nextId = 1
    /\ channel = <<>> /\ connected = FALSE
    /\ phase = "fetching" /\ snap = NoRow /\ rows = NoRow
    /\ lastId = 0 /\ base = 1
    /\ fresh = TRUE /\ faults = 0
    /\ sent = NothingSent

-----------------------------------------------------------------------------
(* The server.  A load, an unload and a build change an entry and emit in  *)
(* the same turn, and the broker appends the transition to its serial      *)
(* queue.  A disk-backed entry may be left stale by it, as by a cancelled  *)
(* build.                                                                  *)
Change(e) ==
    /\ state[e] < MaxChanges[e]
    /\ state' = [state EXCEPT ![e] = @ + 1]
    /\ \E stale \in SUBSET ({e} \cap DiskBacked) : unnoticed' = (unnoticed \ {e}) \cup stale

Emit(e) ==
    /\ Change(e)
    /\ announced' = [announced EXCEPT ![e] = state[e] + 1]
    /\ tail' = Append(tail, e)
    /\ UNCHANGED <<partial, ring, nextId, channel, connected, client, fresh, sent, faults>>

(* Other changes emit nothing: a reclaimed worker loses the sources it     *)
(* held (resetWorkerResidency), a queued build is cancelled or dropped by  *)
(* shutdown(), the watcher swaps a store or sees a file come and go, and   *)
(* the files of an index, or its manifest, change on disk.                 *)
ChangeSilently(e) ==
    /\ Change(e)
    /\ UNCHANGED <<announced, tail, partial, ring, nextId>>
    /\ UNCHANGED <<channel, connected, client, fresh, sent, faults>>

(* readState() emits stale-detected, once for a reason, when the entry it  *)
(* reads has gone stale: whoever looks first tells the others.             *)
ReconcileStaleDedup(e) ==
    IF e \in unnoticed
    THEN /\ tail' = Append(tail, e) /\ unnoticed' = unnoticed \ {e}
         /\ announced' = [announced EXCEPT ![e] = state[e]]
    ELSE UNCHANGED queue

(* Another page's snapshot, or a request that asks after one source.       *)
ReadElsewhere(e) ==
    /\ e \in unnoticed
    /\ ReconcileStaleDedup(e)
    /\ UNCHANGED <<state, partial, ring, nextId, channel, connected, client, fresh, sent, faults>>

(* readState of one member of the family, the source before its children:  *)
(* each is awaited, so other members may change in between.                *)
CanRead(e, s, read) ==
    /\ e \in Family(s) \ DOMAIN read
    /\ e = s \/ s \in DOMAIN read
WithState(read, e) == [x \in DOMAIN read \cup {e} |-> IF x = e THEN state[e] ELSE read[x]]

Sample(e) ==
    /\ tail # <<>>
    /\ CanRead(e, TopLevelId(Head(tail)), partial)
    /\ partial' = WithState(partial, e)
    /\ ReconcileStaleDedup(e)
    /\ UNCHANGED <<state, ring, nextId, channel, connected, client, fresh, sent, faults>>

Bounded(events) == IF Len(events) > Capacity THEN Tail(events) ELSE events

PublishCoalesced ==
    LET s == TopLevelId(Head(tail))
        event == [id |-> nextId, src |-> s, row |-> partial]
    IN  /\ tail # <<>>
        /\ DOMAIN partial = Family(s)
        /\ ring' = Bounded(Append(ring, event))
        /\ nextId' = nextId + 1
        /\ sent' = [sent EXCEPT ![s] = event]
        /\ channel' = IF connected THEN Append(channel, event) ELSE channel
        /\ tail' = SelectSeq(Tail(tail), LAMBDA e : TopLevelId(e) # s) /\ partial' = NoRow
        /\ UNCHANGED <<state, unnoticed, announced, connected, client, fresh, faults>>

(* The row is complete: append it to the ring and send it to whoever       *)
(* listens.                                                                *)
Publish ==
    LET s == TopLevelId(Head(tail))
        event == [id |-> nextId, src |-> s, row |-> partial]
    IN  /\ tail # <<>>
        /\ DOMAIN partial = Family(s)
        /\ ring' = Bounded(Append(ring, event))
        /\ nextId' = nextId + 1
        /\ sent' = [sent EXCEPT ![s] = event]
        /\ channel' = IF connected THEN Append(channel, event) ELSE channel
        /\ tail' = Tail(tail) /\ partial' = NoRow
        /\ UNCHANGED <<state, unnoticed, announced, connected, client, fresh, faults>>

(* since(): what a client that has seen `last' still needs.  The ids       *)
(* increase along the ring, so the newer events are those at its end.      *)
NewerThan(last) ==
    SubSeq(ring, Cardinality({i \in DOMAIN ring : ring[i].id <= last}) + 1, Len(ring))

SentinelRow == [id |-> 0, src |-> NoParent, row |-> NoRow]
OverflowOffByOne(last) == ring # <<>> /\ last > 0 /\ last + 1 < ring[1].id - 1
Overflow(last) == ring # <<>> /\ last > 0 /\ last < ring[1].id - 1
SinceSkipsOne(last) ==
    IF Overflow(last) THEN <<SentinelRow>> ELSE NewerThan(last + 1)
Since(last) ==
    IF Overflow(last) THEN <<SentinelRow>> ELSE NewerThan(last)

(* GET /api/sources/stream.  An EventSource that has no last event id      *)
(* sends no header, and then nothing is replayed.                          *)
Connect ==
    /\ phase = "streaming" /\ ~connected
    /\ connected' = TRUE
    /\ channel' = IF lastId = 0 THEN <<>> ELSE Since(lastId)
    /\ base' = IF lastId = 0 THEN nextId ELSE base
    /\ UNCHANGED <<server, phase, snap, rows, lastId, fresh, sent, faults>>

(* GET /api/sources reads the rows one after the other.                    *)
SnapshotReads(e) ==
    /\ phase = "fetching"
    /\ CanRead(e, TopLevelId(e), snap)
    /\ snap' = WithState(snap, e)
    /\ ReconcileStaleDedup(e)
    /\ UNCHANGED <<state, partial, ring, nextId, channel, connected, phase, rows, lastId, base>>
    /\ UNCHANGED <<fresh, sent, faults>>

-----------------------------------------------------------------------------
(* The client.  fetchSnapshot() shows the answer and opens a new           *)
(* EventSource, which has no last event id.                                *)
SnapshotArrives ==
    /\ phase = "fetching" /\ DOMAIN snap = Entries
    /\ rows' = [s \in Top |-> [e \in Family(s) |-> snap[e]]]
    /\ snap' = NoRow
    /\ phase' = "streaming" /\ lastId' = 0
    /\ UNCHANGED <<server, channel, connected, base, fresh, sent, faults>>

(* applyRow() keeps the children it has.                                   *)
ApplyRow(table, event) ==
    [table EXCEPT ![event.src] =
        [e \in Family(event.src) |-> IF e = event.src THEN event.row[e] ELSE @[e]]]

OnRow ==
    /\ connected /\ channel # <<>> /\ Head(channel).id > 0
    /\ rows' = ApplyRow(rows, Head(channel))
    /\ lastId' = Head(channel).id
    /\ channel' = Tail(channel)
    /\ UNCHANGED <<server, connected, phase, snap, base, fresh, sent, faults>>

(* onRefetchSnapshot() closes the stream and starts over.                  *)
OnRefetchSnapshot ==
    /\ connected /\ channel # <<>> /\ Head(channel).id = 0
    /\ connected' = FALSE /\ channel' = <<>>
    /\ phase' = "fetching" /\ fresh' = TRUE
    /\ UNCHANGED <<server, snap, rows, lastId, base, sent, faults>>

(* A fetch that fails is not repeated: the page keeps what it shows.       *)
SnapshotFails ==
    /\ phase = "fetching"
    /\ phase' = "stopped" /\ snap' = NoRow
    /\ UNCHANGED <<server, channel, connected, rows, lastId, base, fresh, sent>>

ConnectionDrops ==
    /\ connected
    /\ connected' = FALSE /\ channel' = <<>>
    /\ UNCHANGED <<server, client, fresh, sent>>

(* `serve' stops and starts again: its sources are not loaded, its ring is *)
(* empty and its ids start over.                                           *)
Restart ==
    /\ state' = [e \in Entries |-> 0] /\ announced' = state'
    /\ tail' = <<>> /\ unnoticed' = {} /\ partial' = NoRow
    /\ ring' = <<>> /\ nextId' = 1
    /\ connected' = FALSE /\ channel' = <<>>
    /\ phase' = (IF phase = "fetching" THEN "stopped" ELSE phase) /\ snap' = NoRow
    /\ fresh' = FALSE /\ sent' = NothingSent
    /\ UNCHANGED <<rows, lastId, base>>

Fault ==
    /\ faults < MaxFaults
    /\ faults' = faults + 1
    /\ SnapshotFails \/ ConnectionDrops \/ Restart

Next ==
    \/ \E e \in Entries : Emit(e) \/ ChangeSilently(e) \/ ReadElsewhere(e)
    \/ \E e \in Entries : Sample(e) \/ SnapshotReads(e)
    \/ Publish \/ Connect
    \/ SnapshotArrives \/ OnRow \/ OnRefetchSnapshot
    \/ Fault

(* The server projects, the browser reconnects and what is written to an   *)
(* open connection arrives.  Transitions and faults are not fair.          *)
Fairness ==
    /\ \A e \in Entries : WF_vars(Sample(e)) /\ WF_vars(SnapshotReads(e))
    /\ WF_vars(Publish) /\ WF_vars(Connect) /\ WF_vars(SnapshotArrives)
    /\ WF_vars(OnRow) /\ WF_vars(OnRefetchSnapshot)

Spec == Init /\ [][Next]_vars /\ Fairness

-----------------------------------------------------------------------------
(* A row is read after awaits, so it may show a later state than the       *)
(* transition it is sent for, and a silent change may or may not be in it. *)
(* It never shows an earlier state for good: when the queue is empty the   *)
(* last event of a source has, for each member of its family, the state    *)
(* that it last announced, or a later one.  So the row of a source whose   *)
(* members changed silently no more is exact.                              *)
LastOf(s, events) ==
    {i \in DOMAIN events : events[i].src = s /\ \A j \in DOMAIN events : j > i => events[j].src # s}

IdleShowsAnnounced ==
    tail = <<>> =>
       \A s \in Top : \A i \in LastOf(s, ring) : \A e \in Family(s) :
          ring[i].row[e] \in announced[e] .. state[e]

(* A client that is connected misses nothing that was published since it   *)
(* subscribed, whatever connections it lost and however much the ring had  *)
(* to drop meanwhile: once it has read what is on its way, every source    *)
(* shows its last event.  (The restart of the server is another matter,    *)
(* see RestartRefetches.)                                                  *)
Shown(s) == IF LastOf(s, channel) = {} THEN rows[s][s]
            ELSE channel[CHOOSE i \in LastOf(s, channel) : TRUE].row[s]
ToldToRefetch == \E i \in DOMAIN channel : channel[i].id = 0

ConnectedSeesAll ==
    connected /\ fresh /\ ~ToldToRefetch =>
       \A s \in Top : sent[s].id > 0 /\ sent[s].id >= base => Shown(s) = sent[s].row[s]

(* Every change is announced once, and once more if it left an index stale.*)
MaxEvents == FoldFunction(+, 0, MaxChanges) + FoldFunctionOnSet(+, 0, MaxChanges, DiskBacked)

(* A client that subscribed before an event gets it or a later one, or is  *)
(* told to fetch a new snapshot, or the server is gone, or the connection  *)
(* was lost before its first event, when there is no last event id to go   *)
(* by (then base moves).                                                   *)
EventReaches ==
    \A n \in 1..MaxEvents :
       (phase = "streaming" /\ fresh /\ connected /\ base <= n /\ n < nextId)
          ~> (lastId >= n \/ phase # "streaming" \/ ~fresh \/ base > n)

(* A client that is connected shows the rows that were sent, children      *)
(* folded in (source-state-broker.ts:126-129).                             *)
ChildrenFollow ==
    connected /\ fresh /\ channel = <<>> /\ ring # <<>> /\ lastId = Last(ring).id
       => rows[Last(ring).src] = Last(ring).row

(* A restart drops the buffer and reconnecting clients fall back to a      *)
(* snapshot fetch (source-state-ring-buffer.ts:12).                        *)
RestartRefetches == connected /\ ~fresh => ToldToRefetch
=============================================================================
