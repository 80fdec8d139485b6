--------------------------- MODULE DurableEvents ---------------------------
(***************************************************************************)
(* The durable event router (src/probos/substrate/durable_events.py):      *)
(* envelopes offered from any thread, a bounded queue and one writer task  *)
(* per binding to an event loop, loss episodes recorded by drop-marker     *)
(* rows, drains and re-arming.                                             *)
(*                                                                         *)
(* Steps: what runs between two awaits on the loop is atomic; a thread     *)
(* takes the router's lock several times in one offer(), and each of these *)
(* is a step.  A record is an element of Records, so a count in the code   *)
(* (an episode's by_event) is a set here; `unresolved`, whose agreement    *)
(* with what is held is the point, stays a counter.                        *)
(*                                                                         *)
(* The event log is external: rows, markers, and whether it is open.  A    *)
(* commit and the writer's resumption are separate steps, and a cancelled  *)
(* write may have committed or not.                                        *)
(***************************************************************************)
EXTENDS Naturals, Sequences, FiniteSets

CONSTANTS
    Records,        \* the envelopes offered in a behaviour, each once
    Events,         \* routed event values
    EventOf,        \* [Records -> Events]
    NoRecord,
    QueueMax,       \* DURABLE_EVENT_QUEUE_MAX
    MaxBinds,       \* bound on bind_loop() calls
    MaxGeneration,  \* bound on the generation counter: binds and drains
    MarkerKeys      \* _MARKER_EVENT_KEYS: names a marker keeps before "_other"

ASSUME RouterAssumption ==
    /\ IsFiniteSet(Records) /\ NoRecord \notin Records
    /\ EventOf \in [Records -> Events]
    /\ QueueMax \in Nat \ {0}
    /\ MaxBinds \in Nat /\ MaxGeneration \in Nat /\ MarkerKeys \in Nat

Binds == 1..MaxBinds

VARIABLES
    loop,        \* _loop: 0 when unbound, else which event loop
    live,        \* whether that loop is open
    closed,      \* _closed
    generation,  \* _generation
    bind,        \* how many times bind_loop() ran: the queue and writer in use
    queue,       \* [Binds -> Seq(Records)]
    writer,      \* [Binds -> WriterState]
    held,        \* [Binds -> Records \cup {NoRecord}]: the record a writer writes
    carry,       \* [Binds -> SUBSET Records]: the episode a writer's marker names
    cancelled,   \* SUBSET Binds: writers a drain cancelled
    episode,     \* losses no marker records or carries yet
    unresolved,  \* [Events -> Nat]
    at,          \* [Records -> Place]: where each record is
    seen,        \* [Records -> what an offering thread read under the lock]
    stats,       \* the counters of DurableEventStats
    drain,       \* "none", "joining" (queue.join) or "stopping" (the writer)
    rows,        \* SUBSET Records: committed rows of the event log
    markers,     \* committed drop-marker rows, oldest first
    open         \* the event log's is_open

routerVars == <<loop, live, closed, generation, bind, cancelled, drain>>
writerVars == <<queue, writer, held, carry>>
lossVars == <<episode, unresolved, at, stats>>
logVars == <<rows, markers, open>>
vars == <<loop, live, closed, generation, bind, queue, writer, held, carry, cancelled,
          episode, unresolved, at, seen, stats, drain, rows, markers, open>>

\* "begun": counted as offered; "refused": the thread read closed or unbound;
\* "routed": the thread read an open loop; "handed": call_soon_threadsafe'd;
\* "lost": in an episode; "marked": in an episode a written marker named.
Place == {"new", "begun", "refused", "routed", "handed", "queued", "writing",
          "written", "lost", "marked"}

\* Where unresolved() counts a record.
HeldPlaces == {"routed", "handed", "queued", "writing", "lost"}

WriterState == {"none", "idle", "writing", "marking", "marked", "dead"}

Seen == [loop : Nat, generation : Nat]
Stats == [offered : Nat, accepted : Nat, dropped : Nat, written : Nat,
          failed : Nat, notRecorded : Nat, markersWritten : Nat]
Marker == [names : SUBSET Events, other : BOOLEAN]

RecordsOf(e) == {r \in Records : EventOf[r] = e}
NamesOf(S) == {EventOf[r] : r \in S}
HeldOf(e) == {r \in Records : EventOf[r] = e /\ at[r] \in HeldPlaces}

TypeOK ==
    /\ loop \in Nat /\ live \in BOOLEAN /\ closed \in BOOLEAN
    /\ generation \in Nat /\ bind \in 0..MaxBinds
    /\ queue \in [Binds -> Seq(Records)]
    /\ writer \in [Binds -> WriterState]
    /\ held \in [Binds -> Records \cup {NoRecord}]
    /\ carry \in [Binds -> SUBSET Records]
    /\ cancelled \subseteq Binds
    /\ episode \subseteq Records
    /\ unresolved \in [Events -> Nat]
    /\ at \in [Records -> Place]
    /\ seen \in [Records -> Seen]
    /\ stats \in Stats
    /\ drain \in {"none", "joining", "stopping"}
    /\ rows \subseteq Records
    /\ markers \in Seq(Marker)
    /\ open \in BOOLEAN

Init ==
    /\ loop = 0 /\ live = FALSE /\ closed = FALSE /\ generation = 0 /\ bind = 0
    /\ queue = [b \in Binds |-> <<>>]
    /\ writer = [b \in Binds |-> "none"]
    /\ held = [b \in Binds |-> NoRecord]
    /\ carry = [b \in Binds |-> {}]
    /\ cancelled = {}
    /\ episode = {}
    /\ unresolved = [e \in Events |-> 0]
    /\ at = [r \in Records |-> "new"]
    /\ seen = [r \in Records |-> [loop |-> 0, generation |-> 0]]
    /\ stats = [offered |-> 0, accepted |-> 0, dropped |-> 0, written |-> 0,
                failed |-> 0, notRecorded |-> 0, markersWritten |-> 0]
    /\ drain = "none"
    /\ rows = {} /\ markers = <<>> /\ open = TRUE

-----------------------------------------------------------------------------
(* Losses.  _drop, and the loss branches of _write, under the lock. *)

\* A record unresolved() already counts joins the episode (held=True).
Lose(r, counter) ==
    /\ episode' = episode \cup {r}
    /\ at' = [at EXCEPT ![r] = "lost"]
    /\ stats' = [stats EXCEPT ![counter] = @ + 1]
    /\ UNCHANGED unresolved

\* A record it does not count yet starts counting (held=False).
LoseUncounted(r) ==
    /\ episode' = episode \cup {r}
    /\ at' = [at EXCEPT ![r] = "lost"]
    /\ stats' = [stats EXCEPT !.dropped = @ + 1]
    /\ unresolved' = [unresolved EXCEPT ![EventOf[r]] = @ + 1]

-----------------------------------------------------------------------------
(* offer() on a thread that is not the loop's. *)

OfferBegin(r) ==
    /\ at[r] = "new"
    /\ at' = [at EXCEPT ![r] = "begun"]
    /\ stats' = [stats EXCEPT !.offered = @ + 1]
    /\ UNCHANGED <<routerVars, writerVars, episode, unresolved, seen, logVars>>

\* The snapshot of the envelope raised: offer_error.
OfferError(r) ==
    /\ at[r] = "begun"
    /\ LoseUncounted(r)
    /\ UNCHANGED <<routerVars, writerVars, seen, logVars>>

\* A slip: counting is left to the loop, as it was for a refused envelope.
OfferRouteUncounted(r) ==
    /\ at[r] = "begun"
    /\ IF loop # 0 /\ ~closed
         THEN /\ at' = [at EXCEPT ![r] = "routed"]
              /\ seen' = [seen EXCEPT ![r] = [loop |-> loop, generation |-> generation]]
         ELSE /\ at' = [at EXCEPT ![r] = "refused"]
              /\ UNCHANGED seen
    /\ UNCHANGED <<routerVars, writerVars, episode, unresolved, stats, logVars>>

\* One lock section reads loop, closed and generation, and counts the record.
OfferRoute(r) ==
    /\ at[r] = "begun"
    /\ IF loop # 0 /\ ~closed
         THEN /\ at' = [at EXCEPT ![r] = "routed"]
              /\ seen' = [seen EXCEPT ![r] = [loop |-> loop, generation |-> generation]]
              /\ unresolved' = [unresolved EXCEPT ![EventOf[r]] = @ + 1]
         ELSE /\ at' = [at EXCEPT ![r] = "refused"]
              /\ UNCHANGED <<seen, unresolved>>
    /\ UNCHANGED <<routerVars, writerVars, episode, stats, logVars>>

\* unbound or closed
OfferRefused(r) ==
    /\ at[r] = "refused"
    /\ LoseUncounted(r)
    /\ UNCHANGED <<routerVars, writerVars, seen, logVars>>

\* call_soon_threadsafe, which raises once the loop it was read from is closed.
HandOff(r) ==
    /\ at[r] = "routed"
    /\ IF live /\ seen[r].loop = loop
         THEN /\ at' = [at EXCEPT ![r] = "handed"]
              /\ UNCHANGED <<episode, unresolved, stats>>
         ELSE Lose(r, "dropped")
    /\ UNCHANGED <<routerVars, writerVars, seen, logVars>>

-----------------------------------------------------------------------------
(* On the loop. *)

\* A slip: the admission test forgets the generation.
AcceptClosedOnly(r, g) ==
    IF closed \/ Len(queue[bind]) >= QueueMax
      THEN Lose(r, "dropped") /\ UNCHANGED writerVars
      ELSE /\ queue' = [queue EXCEPT ![bind] = Append(@, r)]
           /\ writer' = [writer EXCEPT ![bind] = IF @ \in {"none", "dead"} THEN "idle" ELSE @]
           /\ at' = [at EXCEPT ![r] = "queued"]
           /\ stats' = [stats EXCEPT !.accepted = @ + 1]
           /\ UNCHANGED <<held, carry, episode, unresolved>>

\* _accept_on_loop: a stale hand-off or a full queue is a drop; else the
\* record is queued and the writer armed.
Accept(r, g) ==
    IF closed \/ g # generation \/ Len(queue[bind]) >= QueueMax
      THEN Lose(r, "dropped") /\ UNCHANGED writerVars
      ELSE /\ queue' = [queue EXCEPT ![bind] = Append(@, r)]
           /\ writer' = [writer EXCEPT ![bind] = IF @ \in {"none", "dead"} THEN "idle" ELSE @]
           /\ at' = [at EXCEPT ![r] = "queued"]
           /\ stats' = [stats EXCEPT !.accepted = @ + 1]
           /\ UNCHANGED <<held, carry, episode, unresolved>>

RunHandOff(r) ==
    /\ at[r] = "handed" /\ live /\ seen[r].loop = loop
    /\ Accept(r, seen[r].generation)
    /\ UNCHANGED <<routerVars, seen, logVars>>

\* offer() on the loop's own thread runs on into _accept_on_loop; its other
\* outcomes are those of a thread's offer.
OfferOnLoop(r) ==
    /\ at[r] = "new" /\ live /\ ~closed
    /\ IF Len(queue[bind]) >= QueueMax
         THEN /\ episode' = episode \cup {r}
              /\ at' = [at EXCEPT ![r] = "lost"]
              /\ stats' = [stats EXCEPT !.offered = @ + 1, !.dropped = @ + 1]
              /\ UNCHANGED writerVars
         ELSE /\ queue' = [queue EXCEPT ![bind] = Append(@, r)]
              /\ writer' = [writer EXCEPT ![bind] = IF @ \in {"none", "dead"} THEN "idle" ELSE @]
              /\ at' = [at EXCEPT ![r] = "queued"]
              /\ stats' = [stats EXCEPT !.offered = @ + 1, !.accepted = @ + 1]
              /\ UNCHANGED <<held, carry, episode>>
    /\ unresolved' = [unresolved EXCEPT ![EventOf[r]] = @ + 1]
    /\ UNCHANGED <<routerVars, seen, logVars>>

-----------------------------------------------------------------------------
(* The writer of binding b: _writer_loop, _write and _write_marker.  Once  *)
(* cancelled it can only unwind.                                           *)

Take(b) ==
    /\ writer[b] = "idle" /\ b \notin cancelled /\ queue[b] # <<>>
    /\ held' = [held EXCEPT ![b] = Head(queue[b])]
    /\ at' = [at EXCEPT ![Head(queue[b])] = "writing"]
    /\ queue' = [queue EXCEPT ![b] = Tail(@)]
    /\ writer' = [writer EXCEPT ![b] = "writing"]
    /\ UNCHANGED <<routerVars, carry, episode, unresolved, seen, stats, logVars>>

\* EventLog.log commits the row.
RowCommits(b) ==
    /\ writer[b] = "writing" /\ open /\ held[b] \notin rows
    /\ rows' = rows \cup {held[b]}
    /\ UNCHANGED <<routerVars, writerVars, lossVars, seen, markers, open>>

\* log() returned a row id: the record is resolved, and with losses kept the
\* writer swaps the episode for a fresh one and goes on to its marker.
RowWritten(b) ==
    LET r == held[b] IN
    /\ writer[b] = "writing" /\ b \notin cancelled /\ r \in rows
    /\ at' = [at EXCEPT ![r] = "written"]
    /\ unresolved' = [unresolved EXCEPT ![EventOf[r]] = @ - 1]
    /\ stats' = [stats EXCEPT !.written = @ + 1]
    /\ held' = [held EXCEPT ![b] = NoRecord]
    /\ carry' = [carry EXCEPT ![b] = episode]
    /\ episode' = {}
    /\ writer' = [writer EXCEPT ![b] = IF episode = {} THEN "idle" ELSE "marking"]
    /\ UNCHANGED <<routerVars, queue, seen, logVars>>

\* A slip: an exception ends the writer's loop.
RowLostEndsWriter(b) ==
    /\ writer[b] = "writing" /\ b \notin cancelled /\ held[b] \notin rows
    /\ Lose(held[b], "failed")
    /\ held' = [held EXCEPT ![b] = NoRecord]
    /\ writer' = [writer EXCEPT ![b] = "dead"]
    /\ UNCHANGED <<routerVars, queue, carry, seen, logVars>>

\* log() raised, or returned no row id, which an open log never does: a loss.
RowLost(b) ==
    /\ writer[b] = "writing" /\ b \notin cancelled /\ held[b] \notin rows
    /\ \/ Lose(held[b], "failed")
       \/ ~open /\ Lose(held[b], "notRecorded")
    /\ held' = [held EXCEPT ![b] = NoRecord]
    /\ writer' = [writer EXCEPT ![b] = "idle"]
    /\ UNCHANGED <<routerVars, queue, carry, seen, logVars>>

\* A slip: names past the bound are cut, not folded into "_other".
Cut(S, m) ==
    /\ m.names \subseteq NamesOf(S)
    /\ Cardinality(m.names) =
          IF Cardinality(NamesOf(S)) <= MarkerKeys THEN Cardinality(NamesOf(S)) ELSE MarkerKeys
    /\ ~m.other

\* _folded: the first names are kept, the others summed into "_other".
Folded(S, m) ==
    /\ m.names \subseteq NamesOf(S)
    /\ Cardinality(m.names) =
          IF Cardinality(NamesOf(S)) <= MarkerKeys THEN Cardinality(NamesOf(S)) ELSE MarkerKeys
    /\ m.other <=> m.names # NamesOf(S)

MarkerCommits(b) ==
    /\ writer[b] = "marking" /\ open
    /\ \E m \in Marker : Folded(carry[b], m) /\ markers' = Append(markers, m)
    /\ writer' = [writer EXCEPT ![b] = "marked"]
    /\ UNCHANGED <<routerVars, queue, held, carry, lossVars, seen, rows, open>>

\* A slip: the marker also answers for losses counted since it was built.
MarkerWrittenForLater(b) ==
    /\ writer[b] = "marked" /\ b \notin cancelled
    /\ at' = [r \in Records |-> IF r \in carry[b] THEN "marked" ELSE at[r]]
    /\ unresolved' = [e \in Events |-> unresolved[e] -
                         Cardinality({r \in carry[b] \cup episode : EventOf[r] = e})]
    /\ stats' = [stats EXCEPT !.markersWritten = @ + 1]
    /\ carry' = [carry EXCEPT ![b] = {}]
    /\ writer' = [writer EXCEPT ![b] = "idle"]
    /\ UNCHANGED <<routerVars, queue, held, episode, seen, logVars>>

\* The marker answers for its losses from here on.
MarkerWritten(b) ==
    /\ writer[b] = "marked" /\ b \notin cancelled
    /\ at' = [r \in Records |-> IF r \in carry[b] THEN "marked" ELSE at[r]]
    /\ unresolved' = [e \in Events |->
                         unresolved[e] - Cardinality({r \in carry[b] : EventOf[r] = e})]
    /\ stats' = [stats EXCEPT !.markersWritten = @ + 1]
    /\ carry' = [carry EXCEPT ![b] = {}]
    /\ writer' = [writer EXCEPT ![b] = "idle"]
    /\ UNCHANGED <<routerVars, queue, held, episode, seen, logVars>>

\* A slip: the finally block puts the old episode back over the new one.
MarkerFailsOver(b) ==
    /\ writer[b] = "marking" /\ b \notin cancelled
    /\ episode' = carry[b]
    /\ carry' = [carry EXCEPT ![b] = {}]
    /\ writer' = [writer EXCEPT ![b] = "idle"]
    /\ UNCHANGED <<routerVars, queue, held, unresolved, at, seen, stats, logVars>>

\* The marker's write raised or returned no row id: its losses are merged
\* with those counted meanwhile.
MarkerFails(b) ==
    /\ writer[b] = "marking" /\ b \notin cancelled
    /\ episode' = carry[b] \cup episode
    /\ carry' = [carry EXCEPT ![b] = {}]
    /\ writer' = [writer EXCEPT ![b] = "idle"]
    /\ UNCHANGED <<routerVars, queue, held, unresolved, at, seen, stats, logVars>>

\* A slip: the cancelled write is counted as failed.
UnwindCounted(b) ==
    /\ b \in cancelled /\ writer[b] # "dead"
    /\ writer' = [writer EXCEPT ![b] = "dead"]
    /\ episode' = carry[b] \cup episode
    /\ carry' = [carry EXCEPT ![b] = {}]
    /\ stats' = IF writer[b] = "writing" THEN [stats EXCEPT !.failed = @ + 1] ELSE stats
    /\ UNCHANGED <<routerVars, queue, held, unresolved, at, seen, logVars>>

\* CancelledError at the writer's await.  An interrupted row stays
\* unresolved, landed or not; a marker's losses are merged back, landed or not.
Unwind(b) ==
    /\ b \in cancelled /\ writer[b] # "dead"
    /\ writer' = [writer EXCEPT ![b] = "dead"]
    /\ episode' = carry[b] \cup episode
    /\ carry' = [carry EXCEPT ![b] = {}]
    /\ UNCHANGED <<routerVars, queue, held, unresolved, at, seen, stats, logVars>>

-----------------------------------------------------------------------------
(* bind_loop, drain, and the environment. *)

BindLoop ==
    /\ loop = 0 \/ closed
    /\ drain = "none" /\ bind < MaxBinds /\ generation < MaxGeneration
    /\ loop' = IF live THEN loop ELSE loop + 1
    /\ live' = TRUE
    /\ closed' = FALSE
    /\ generation' = generation + 1
    /\ bind' = bind + 1
    /\ UNCHANGED <<cancelled, drain, writerVars, lossVars, seen, logVars>>

\* Admission closes and the generation ends; with no queue, or never bound,
\* there is nothing to wait for.
DrainStarts ==
    /\ live \/ loop = 0
    /\ drain = "none" /\ generation < MaxGeneration
    /\ closed' = TRUE
    /\ generation' = generation + 1
    /\ drain' = IF bind # 0 /\ writer[bind] # "none" THEN "joining" ELSE "none"
    /\ UNCHANGED <<loop, live, bind, cancelled, writerVars, lossVars, seen, logVars>>

\* A slip: the drain waits for queue.join() without a budget.
DrainJoinsForever ==
    /\ drain = "joining"
    /\ queue[bind] = <<>> /\ held[bind] = NoRecord /\ writer[bind] \in {"idle", "dead"}
    /\ IF writer[bind] = "dead"
         THEN drain' = "none" /\ UNCHANGED cancelled
         ELSE drain' = "stopping" /\ cancelled' = cancelled \cup {bind}
    /\ UNCHANGED <<loop, live, closed, generation, bind, writerVars, lossVars, seen, logVars>>

\* queue.join() returned or the wait budget is spent: the writer is cancelled.
DrainCancelsWriter ==
    /\ drain = "joining"
    /\ IF writer[bind] = "dead"
         THEN drain' = "none" /\ UNCHANGED cancelled
         ELSE drain' = "stopping" /\ cancelled' = cancelled \cup {bind}
    /\ UNCHANGED <<loop, live, closed, generation, bind, writerVars, lossVars, seen, logVars>>

\* The writer stopped, or the wait for it is spent and it unwinds later.
DrainReturns ==
    /\ drain = "stopping"
    /\ drain' = "none"
    /\ UNCHANGED <<loop, live, closed, generation, bind, cancelled, writerVars, lossVars,
                   seen, logVars>>

\* The drain's own cancellation propagates from either wait: before the
\* writer's cancel, the writer is left running.
DrainCancelled ==
    /\ drain # "none"
    /\ drain' = "none"
    /\ UNCHANGED <<loop, live, closed, generation, bind, cancelled, writerVars, lossVars,
                   seen, logVars>>

\* The runner of the loop cancels what a drain left running, and closes the
\* loop once its tasks ended; hand-offs waiting in it never run.
LoopCancelsTasks ==
    /\ live /\ closed /\ drain = "none"
    /\ \E b \in Binds \ cancelled : writer[b] # "none"
    /\ cancelled' = {b \in Binds : writer[b] # "none"}
    /\ UNCHANGED <<loop, live, closed, generation, bind, drain, writerVars, lossVars, seen,
                   logVars>>

LoopEnds ==
    /\ live /\ closed /\ drain = "none"
    /\ \A b \in Binds : writer[b] \in {"none", "dead"}
    /\ live' = FALSE
    /\ UNCHANGED <<loop, closed, generation, bind, cancelled, drain, writerVars, lossVars,
                   seen, logVars>>

\* EventLog.stop (also after a failed rollback) and EventLog.start.
LogCloses == open /\ open' = FALSE
             /\ UNCHANGED <<routerVars, writerVars, lossVars, seen, rows, markers>>
LogOpens == ~open /\ open' = TRUE
            /\ UNCHANGED <<routerVars, writerVars, lossVars, seen, rows, markers>>

-----------------------------------------------------------------------------
OfferStep ==
    \E r \in Records :
        \/ OfferBegin(r) \/ OfferError(r) \/ OfferRoute(r) \/ OfferRefused(r)
        \/ HandOff(r) \/ RunHandOff(r) \/ OfferOnLoop(r)

\* What a running writer does next without help from outside.
WriterRuns(b) == Take(b) \/ RowWritten(b) \/ RowLost(b) \/ MarkerWritten(b) \/ MarkerFails(b)

WriterStep ==
    \E b \in Binds : WriterRuns(b) \/ RowCommits(b) \/ MarkerCommits(b) \/ Unwind(b)

LifeStep ==
    \/ BindLoop \/ DrainStarts \/ DrainCancelsWriter \/ DrainReturns \/ DrainCancelled
    \/ LoopCancelsTasks \/ LoopEnds \/ LogCloses \/ LogOpens

Next == OfferStep \/ WriterStep \/ LifeStep

Spec == Init /\ [][Next]_vars

\* An event loop runs its ready callbacks and resumes a task whose wait is
\* over; a drain's two waits have timeouts.  Offers, commits, drains and
\* restarts are not promised, nor here that a write ever returns.
FairSpec ==
    /\ Spec
    /\ \A r \in Records : WF_vars(RunHandOff(r))
    /\ \A b \in Binds : WF_vars(Unwind(b))
    /\ WF_vars(DrainCancelsWriter) /\ WF_vars(DrainReturns)

\* Every wait of EventLog.log is inside its write budget, so a write returns
\* or raises.
WritesReturn == \A b \in Binds : WF_vars(WriterRuns(b))

-----------------------------------------------------------------------------
(* unresolved() is exact: it counts the records that were admitted or lost *)
(* and that events.db reflects neither by a resolved row nor by a marker,  *)
(* each once, through hand-offs, failed markers, cancellations, re-arming. *)
UnresolvedIsExact ==
    \A e \in Events : unresolved[e] = Cardinality(HeldOf(e))

(* Every loss waits in exactly one place for a marker: the current episode *)
(* or the episode one writer carries.  Merging and swapping lose none.     *)
LossesKept ==
    /\ {r \in Records : at[r] = "lost"} = episode \cup UNION {carry[b] : b \in Binds}
    /\ \A b \in Binds : carry[b] \cap episode = {}
    /\ \A b, c \in Binds : b # c => carry[b] \cap carry[c] = {}

\* A marker with "_other" answers for every event.
NotedEvents ==
    {e \in Events : \E k \in 1..Len(markers) : e \in markers[k].names \/ markers[k].other}

(* What unresolved() stopped counting, events.db shows: once it is zero    *)
(* for an event, each record offered and counted has its row, or a marker  *)
(* names the event or folded it into "_other".                             *)
NothingSilentlyLost ==
    \A r \in Records :
        unresolved[EventOf[r]] = 0 =>
            \/ at[r] \in {"new", "begun", "refused"}
            \/ r \in rows
            \/ EventOf[r] \in NotedEvents

(* The accounting of DurableEventStats: each envelope offered is dropped,  *)
(* written, failed or not recorded, or is still on its way.                *)
StatsAddUp ==
    stats.offered = stats.dropped + stats.written + stats.failed + stats.notRecorded
        + Cardinality({r \in Records :
              at[r] \in {"begun", "refused", "routed", "handed", "queued", "writing"}})

(* A hand-off made before a drain or a re-arming never joins a later       *)
(* queue: what is queued was routed in the generation the queue serves.    *)
StaleHandOffRefused ==
    [][\A r \in Records :
          at[r] = "handed" /\ at'[r] = "queued" => seen[r].generation = generation]_vars

\* The ledger's account of a record, by where the record is.
AccountAt(p) ==
    CASE p \in {"new", "begun", "refused"} -> "none"
      [] p \in {"routed", "handed", "queued", "writing"} -> "held"
      [] p = "written" -> "recorded"
      [] OTHER -> p

AccountOf == [r \in Records |-> AccountAt(at[r])]

(* The router implements the ledger of RecordLedger: no step forgets a     *)
(* record it owes, resolves one twice or without evidence, or loses one    *)
(* that has its row.                                                       *)
Ledger == INSTANCE RecordLedger WITH
    account <- AccountOf, owed <- unresolved, logged <- rows, noted <- NotedEvents

KeepsLedger == Ledger!Spec

\* r is in the queue that is in use, or in its writer's hands.
InHand(r) ==
    /\ bind # 0
    /\ \/ \E k \in 1..Len(queue[bind]) : queue[bind][k] = r
       \/ held[bind] = r /\ writer[bind] = "writing"

(* If writes return, a record an armed router has accepted is decided, its *)
(* row written or its loss kept, unless the router is drained first.       *)
AdmittedIsDecided ==
    WritesReturn =>
        \A r \in Records : InHand(r) ~> (at[r] \in {"written", "lost", "marked"} \/ closed)

(* A drain returns even when a write never does, and when nobody will take *)
(* what the queue still holds.                                             *)
DrainEnds == (drain # "none") ~> (drain = "none")

=============================================================================
