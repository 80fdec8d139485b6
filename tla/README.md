# TLA+ specifications of ProbOS

ProbOS is a runtime for populations of cooperating AI agents (Python, `src/src/probos/`). This directory
holds TLA+ models of its state machines, TLC configurations that check them on small instances, and
TLAPS proofs for every instance. Paths below are relative to `src/src/probos/`.

Contents: 1 inventory, 2 modules and their code, 3 runs, 4 fairness, 5 proofs, 6 findings, 7 limits, 8 plan.

## 1. Inventory

| Component | State it keeps | Operations and interactions | What is hard | What makes it correct |
|---|---|---|---|---|
| Work board (`workforce.py`, `WorkItemStore`) | SQLite rows of work items and bookings; the in-memory resource registry | create, transition, update, merge of metadata and tokens, delete; push (`assign_work_item`), pull (`claim_work_item`), unassign; start, pause, resume, complete, cancel a booking. Called by HTTP routes, shell, agents, the agent work runner and its own tick loop | every operation is one transaction under a process-wide lock, but clients make several calls; the item's status, its assignee and its bookings are three things no table constraint ties together | a live booking belongs to its item's assignee; one live booking an item; capacity; every token of a counter accounted; ended bookings final; terminal statuses final |
| Board clients (tick loop, `cognitive/cognitive_agent.py` dispatch, PATCH in `routers/workforce.py`) | what they read before their next call | TTL sweep: one SELECT, then a transition a row. Dispatch: read, own, move. PATCH: unconditional write | check-then-act over awaits | a sweep spares ended work; a claim undoes no later move and replaces no assignee; expired work leaves `open` |
| Durable event router (`substrate/durable_events.py`) | bound loop, generation, queue, writer task, loss episode, `unresolved` counters, statistics | `offer` from any thread, `_accept_on_loop`, writer loop, marker rows, `drain`, `bind_loop` | threads against the loop; stale hand-offs; cancelled writes; failing markers while new losses come in; re-arming | every loss is recorded or still counted, once; `unresolved()` exact; counters add up; drains end |
| Durable answers (`durable_answer`, same file) | nothing: two queries and one counter, read at different moments | reads events.db and the running router | a record moves from the counter to a row, or to a marker, between the reads | "not recorded" is evidence of absence |
| Event log (`substrate/event_log.py`) | hash-chained rows, open or closed, one write lock and budgets | `log`, `query_structured`, pruning, `start`/`stop` | an interrupted commit, rollback failure closes the log | a row id is returned only for a committed row; the chain verifies |
| Agent work runner (`agent_work_runner.py`, `agent_work*.py`) | the runs, kept starts and the delivery lock in memory; items, bookings, watchers, claimed notices and uses on the board; capability requests beside it | starts an item filed by an agent or claimed, runs it in its assignee's loop, parks it on a call that needs approval, resumes it when the Captain has decided, records its end, closes its bookings, reports it, recovers at start | every await lets the board, the Captain and other coroutines in; a start while the item runs; a decision before the park; a crash between the end, the closing of bookings and the notice; an exception at any of its awaits, which is logged and dropped | no start, park or report is forgotten but to an exception; an approval is one call; nobody hears twice; a filed call is never passed over |
| Escalation and quorum (`consensus/escalation.py`, `quorum.py`, `verification.py`) | votes, tier of each failed node | retry with another agent, arbitrate, ask the user | retried acts, user declining, abstentions | an act is performed at most as often as its tiers allow; no commit without quorum |
| Trust network (`consensus/trust.py`) | Beta records, dampening windows, outcome receipts | `record_outcome`, decay, receipts | receipts reconciled after a crash | an outcome counts once |
| Substrate (`substrate/pool.py`, `scaler.py`, `spawner.py`, `registry.py`, `heartbeat.py`) | agents of a pool, targets, cooldowns | health check, recycle, add, remove, scale | agents failing while a pool is resized | size stays within limits; no agent in two pools |
| Mesh (`mesh/intent.py`, `nats_bus.py`, `routing.py`, `gossip.py`) | subscriptions, queues, dedup sets, weights | broadcast, dispatch, acknowledgement | redelivery, time-outs, shutdown drain | an intent is handled at most once an agent |
| Federation (`federation/*`, `federation_envelope_store.py`) | sender: key, epoch, sequence; receiver: held key and replay windows, in memory and in the store, and the one write whose outcome is not known | seal; admit, resync, re-anchor, reset, each one store write under the accept lock; restart of either ship | the window is committed before the message is delivered, by a write that may fail, be cancelled or outlive its wait; the network repeats and reorders | no envelope is delivered twice, also after a restart; the store's windows are exact; the held history never goes back |
| Admission (`admission/*`) | work tickets, the order they were issued in, an index of children | issue, issue a child, check at an effect point, revoke with the tree below, release, drop what ended long ago | entries are dropped while relatives live; stops are met only by a check; a child may come after its parent's end | a revocation reaches all that is registered below it; a ticket is no wider than its ancestors; an end is final |
| Execution (`execution/*`) | journalled authority, effect receipts | authorise, run, settle | crash between effect and settlement | an effect has its authority; ambiguity is recorded |
| Approvals (`capability_request.py`, `delegated_approvals.py`, `execution/command_approvals.py`) | requests and decisions | file, decide, fulfil, claim once | two decisions at once: the pending check is the route's, before the store's lock; late answers | a covered call is made once, after an approval was fulfilled |
| Agent stop, stand-down (`agent_stop.py`, `stand_down.py`) | a record read at every dispatch gate | stop, resume | read at one gate, changed before the next | a stopped agent starts nothing new |
| Persistent tasks (`persistent_tasks.py`) | scheduled callbacks, checkpoints | schedule, fire, cancel | missed fires over a restart | a task fires no more than it is due |
| Cognitive layer, knowledge, ward room, tools, shell, HTTP | projections, prompts, files, wiring | | language-model calls and data shapes rather than protocols | |

How they interact: agents and people change the **work board** through HTTP, the shell and the runner; the
board emits events on the runtime's event path; routed events reach the **durable event router**, which writes
the **event log**; readers put **durable answers** together from the log and the router. The agent work runner
listens to the board's events and to those of the capability requests, writes the board through the same store
operations as everyone else, and asks agent stop before and after a run. Tickets ask agent stop too. The envelope guard
stands between a transport and the bridge. The consensus layer and the mesh serve the runtime's intent pipeline and
share no state with the board.

`PROJECT.json` lists each component with its status, and the hazards of the code, each at its line with the
properties that watch it.

## 2. Modules and the code they model

### WorkBoard (`workforce.py`)

Every store operation runs in one `_booking_transaction` (process-wide lock, `BEGIN IMMEDIATE`, commit or
rollback), so an operation is one action and a refused one is a stutter. Rows are values of a few functions;
"absent" means no row.

| TLA+ | Code |
|---|---|
| `Edges`, `OwnerEdges`, `TypeTerminal`, `InitialStatus`, `MayMove` | `BUILTIN_WORK_TYPES` and the registry's checks, all five plain types |
| `Create`, `Transition`, `Delete` | `create_work_item` (its caller may name the status and the tokens), `transition_work_item` (touches no booking), `delete_work_item` (with the item's bookings) |
| `Merge` | `merge_work_item_metadata` with an `actual_tokens_delta` and perhaps a status; `compare_and_set_work_item_verification` adds in the same way |
| `Book` | `_assign_work_item`: item `scheduled` and owned, fresh booking `scheduled` |
| `Assign`, `Claim`, `ClaimNext` | `assign_work_item`; `claim_work_item` with an id (looks at earlier bookings) and without one (does not) |
| `Unassign` | `unassign_work_item`: live bookings cancelled, item `open` whatever it was |
| `StartBooking` .. `CancelBooking` | the booking operations; a break gives the slot back, resume takes it again; completion adds the charge or refuses it whole |
| `TtlPasses`, `Toggle` | the clock; `register_resource`, `unregister_resource` |

`actual_tokens` is no sum of charges: completions, merges and the creator all write it. The ghost `uncharged` counts what
came from the last two, and `TokensConserved` says that the counter is that plus what the item's bookings were charged, so that
no writer loses, doubles or misplaces what another wrote and the ceiling refuses a whole operation.

### BoardClients (extends WorkBoard)

`TickSelect` and `CancelExpired` are the sweep's SELECT and its per-row transition; `DispatchRead`,
`DispatchOwn`, `DispatchMove` the three store calls of an agent that was dispatched an item; `PatchItem` the
unguarded write of status and assignee. Every operation of WorkBoard may come between them (`StoreCall`).

### DurableEvents (`substrate/durable_events.py`)

What runs between two awaits on the loop is one action; a foreign thread's `offer` is one action per lock
section (`OfferBegin`, `OfferRoute`, `OfferRefused`, `HandOff`), an offer on the loop is one action
(`OfferOnLoop`). A record is an element of a set, so the counts of an episode are sets (`episode`, and `carry`
for the episode a writer has swapped out); `unresolved` stays a counter since its exactness is the question.
`Take`, `RowWritten`, `RowLost`, `MarkerWritten`, `MarkerFails`, `Unwind` are the writer; `RowCommits` and
`MarkerCommits` are the database committing before the writer resumes, so that a cancelled write may have
landed. Writers are indexed by binding: a writer left over by a drain may still run after `bind_loop` re-armed
the router. `DrainStarts`, `DrainCancelsWriter`, `DrainReturns`, `DrainCancelled` are `drain()` at its two
waits. `LoopCancelsTasks` and `LoopEnds` are the loop's end; `LogCloses` and `LogOpens` the event log's.

### RecordLedger (abstract specification of the router)

What `unresolved()` promises a reader of events.db: a record is owed from its admission or refusal until its row,
or a committed marker for its loss, stands in the log; never recorded and lost, never owed again. DurableEvents
implements it (`KeepsLedger`): threads, hand-offs, queues, writers and bindings disappear in the mapping, the
counter `unresolved` maps to `owed`, and a marker that folded names into `_other` answers for every event.

### DurableAnswer (extends DurableEvents)

`durable_answer()` for one routed member, asked with the running router: `AskRows`, `AskPending`,
`AskMarkers`, `AskConclude`, with every router action in between. A query reads when the database thread
executes it (`AskRows`, `AskMarkers`) and the asker resumes later.

### AgentWork (extends WorkBoard; `agent_work_runner.py`, `agent_work.py`, `cognitive/capability_gap_driver.py`, `capability_request.py`)

The runner's coroutines share one loop, so what runs between two awaits is one action, and a store operation is the
WorkBoard action it is. Rows survive `ShipEnds`; `run`, `restart`, `starting`, `events`, `handler`, `delivery`, `deciding` and `capEvents` do not.

| TLA+ | Code |
|---|---|
| `AgentCreates`, `AgentClaims`, `Cancelled`, `WatcherAdded` | the board's other writers, with the events they send |
| `Start`, `Leave`, `Starts` | `_start` (one run an item; a start meanwhile is kept) and the `finally` of `_run` |
| `RunReads` .. `RunLinks`, `Proceeds` | `_run` up to its executor: `execution_allowed`, `_begin`, `_linked_calls`, `_cancel_or_park` |
| `RunParks`, `RunSettles` | `block_on_request`, and its second look at the request (BF-878) |
| `RunClaimsUse`, `RunCalls`, `RunFiles` | the run's gate: a fulfilled request's use is a claimed row (BF-947); another call is filed |
| `RunReturns`, `RunReleases`, `RunRecords`, `RunFails`, `RunDenied`, `RunCloses` | the ends of a run, `_record_outcome`, `_close_bookings` |
| `DecisionBegins` | `_decide_request` (`routers/capability_requests.py`): the pending check, made before `decide()` gets its lock; an approved request is fulfilled again (BF-722) |
| `Approve`, `Deny`, `MarkFulfilled` | `decide()` and `mark_fulfilled()`, which look at no status: a decision writes over whatever another one left |
| `CapabilityEvent` | AD-855's driver at a DECIDED or FULFILLED event |
| `RunFails`, `StartFails`, `EventFails`, `DeliveryFails`, `DecisionFails`, `CapabilityEventFails` | an exception at any await of a run, a start, an event's handler, a delivery, a decision, the driver: logged, and what was being done is dropped |
| `EventReads`, `EventLists`, `EventCloses`, `EventDelivers` | `on_store_event` for an end |
| `Deliver`, `DeliveryClaims`, `DeliveryPosts` | `deliver_due_notices` under its lock: list, claim a recipient at a time, one post an item |
| `ShipStops`, `ShipEnds`, `ShipStarts`, `RecoverStarts`, `RecoverDelivers` | `stop`, the end of the process at any moment, start-up and `recover` |

`calls` and `posts` count what the outside sees; `granted` are the requests fulfilled at some time. `settledBefore`,
`returned` and `dropped` name the cases the code does not promise (section 6); `dropped` holds what a logged exception took from
an item ("run", "park" or "end") in this life of the process. An awaited call that raises did nothing; one that commits
and raises afterwards is the call followed by the failure of what it sets off.

### EnvelopeGuard (`federation/envelope.py`, `federation_envelope_store.py`)

One sending ship, the envelopes it sealed (the network may bring any of them at any time, any number of times), and the
guard and store of a receiving ship. A key history is its newest event; a window's bit mask is the set of numbers it
marks. `Admit`, `Reanchor` and `Forget` judge and begin a store write under the accept lock; `WriteCommits`,
`WriteFails` and `WriteCancelled` are the write's own task; `Settles` and `SettleTimesOut` are the lock's holder after its
bounded wait. A write that outlives the wait stays with the guard (`Unsettled`), which admits nothing until it has ended.
`HeldNow` and `WindowsNow` are what the next holder of the lock finds once it has looked at a late write. `ProcessEnds` may come at any
moment; `Starts` reads the store, or cannot and stays closed. Three awaits under the accept lock are part of these steps and have
no bound in the code: `key_ids` and `before_record` of an admission, the entry of `holding(did)` of a reset (envelope.py 908, 957,
858). A store that does not answer them keeps the lock, so nothing is claimed of its release.

### Tickets (`admission/tickets.py`)

Every call of the registry is synchronous: one action each. A ticket is its place in the order of issue. `Above` and
`Below` are the two walks of the code (to the parents, through the index) as least closed sets; `Ancestors` is the true
lineage, dropped tickets included. `Registers` drops what `_purge` drops before it looks whether the registry is full;
`FindsStop` is what a check or an issue does to a ticket under a stop: the nearest stopped entry's tree is revoked.

## 3. Runs

| Run | Bounds | What it shows |
|---|---|---|
| `board_safety` | 2 tasks (one depends on the other, and has a TTL), 2 resources of capacity 1 and 2, 3 bookings; 2 tokens charged, merged or given at creation under a ceiling of 3, `in_progress` named at creation; bookings symmetric | `TypeOK`, `LiveBookingOwned`, `OneLiveBooking`, `CapacityRespected`, `TokensConserved`, `EndedBookingIsFinal` |
| `board_terminal`, `board_owner` | the same without TTLs, merges and a named status | findings 1 and 2 |
| `clients` | 1 item (task or incident) with a TTL, 2 resources, 1 dispatched agent, 1 booking, PATCH to open, blocked, done | the sweep, the dispatch and PATCH against the store; liveness of the sweep |
| `clients_dispatch_race` | the same | finding 3 |
| `durable` | 3 records of 2 events, queue of 1, 2 bindings, 3 generations, 1 name a marker | every loss is kept for a marker, `unresolved()` is exact, counters add up, stale hand-offs are refused, and the router implements `RecordLedger` |
| `durable_live` | 2 records, else the same | accepted records are decided; drains end |
| `answer` | 2 records of 2 of 3 events, 1 binding, 2 generations, a scan of 1 marker | absence hides no loss |
| `answer_race` | the same | finding 4 |
| `agent_work` | 1 item, filed for oneself or asked for; 2 agents, 2 bookings, 1 call that needs approval, a requester and a watcher, 1 end of the process, 1 exception or second decision of a request under way (`MaxMishaps`, `Deciders`); the board's other writers in the first life only (`BusyLives`), an item with a watcher files no call (`WatchedFiles`); agents, bookings and decisions symmetric | `ToldOnce`, `ApprovedCallOnce`, `DoneHasAllCalls`, `NoLostWakeUp`, `NoForgottenPark`, `NoLostReport`, `NoLostBooking`, `EndIsKept` |
| `envelope` | 3 envelopes, 2 channels, 3 keys (k1 continues k0, r1 is a recovery that takes precedence over k1), windows of 2, 2 starts of the sender, 1 reset, 1 end of the receiver's process | `DeliveredOnce`, `WindowsAreExact`, `MemoryIsStore`, `NoConflict`, `StampsAreUnique`, `HoldNeverRollsBack` |
| `tickets` | 4 tickets of 2 roots, 3 at a time, depth 2, 2 principals (one asks without a ceiling), life of 2 ticks kept for 1 more, 2 ticks | `RevocationReaches`, `LineageIsWhole`, `NoWiderThanAncestors`, `EndIsFinal` |

Why the bounds suffice. Board: the hazards need an old booking beside a new one of the same item, a full
resource with a booking on break, and a charge, or a merge, over the ceiling; two items, three bookings and
capacities one and two give all of them, and the proofs cover the rest. The registry's other work types differ
only in data; `clients` adds a type whose open items may not be cancelled. Durable: a marker that folds needs two
events lost at once with one name kept, a stale hand-off needs two generations of open admission, a full queue
needs a queue of one, and a failing marker with a later loss needs three records. Answer: one record to be
lost while the other's write marks its loss, and an event with no record, for which an answer may rightly be
"not recorded". `MaxBinds` and `MaxGeneration` bound `bind_loop` and `drain` calls; nothing else is capped.
Agent work: the runner keeps no state across items but the delivery lock, so one item shows its races; a released item
claimed again needs a second agent and a second booking; a run repeated after a crash needs one end of the process; one
call that needs approval is filed, parked on, decided at each moment and used. With one item the lock is contended by
recovery and by two events of it. One mishap is enough for each place that can raise, and for two decisions that both pass
the pending check; the proofs have any number. `BusyLives` keeps creation, claims, cancellations and watchers out of the second
life of the process, where runs, decisions, deliveries and recovery go on; `WatchedFiles` keeps a watcher and a filed call apart,
which meet only in a longer list of recipients. Envelope: a window of 2 with 3 numbers has a number too old, one at the last bit and a gap;
an old write that commits late needs one envelope before and one after it; a hold that moves back needs
the recovery key. Tickets: a chain of three and a ticket aside, of which the full registry drops the oldest.

Deadlock is checked in every run but the last three: there the work may be done and the ship down for good, the guard
closed or stopped for good, the clock and the tickets used up.

Every property of a passing run has a mutant: an operator in the module ("A slip: ...") that replaces one
mapped action and breaks that property in that run.

## 4. Fairness

* `FairClientSpec`: weak fairness of `TickSelect` and of each `CancelExpired`. The tick loop runs as long as the
  store does and handles each selected row, logging failures and going on. Nobody is obliged to call the store.
* `FairSpec` of DurableEvents: weak fairness of `RunHandOff` (a loop runs its ready callbacks), `Unwind` (a
  cancelled task is resumed), `DrainCancelsWriter` and `DrainReturns` (`asyncio.wait` with a timeout). Offers,
  commits, drains and re-arming are not promised.
* AgentWork, EnvelopeGuard and Tickets state no fairness: a run may take for ever (a model's answer), an await under the accept
  lock too, and nobody has to ask a registry. What the runner owes is stated by invariants instead: whatever has to happen
  next is on its way in some task, or was dropped by a logged exception (`NoLostWakeUp`, `NoForgottenPark`, `NoLostReport`,
  `NoLostBooking`).
* That a router's write returns is not promised either. `AdmittedIsDecided` states it as a premise, `WritesReturn`
  (every wait in `EventLog.log` is inside its write budget); `DrainEnds` holds without it.

## 5. Proofs

Every invariant and every action property of the passing runs is a theorem, for all constants that satisfy the named
assumptions; each component module has a proof module beside it. The refinements are theorems too. TLC finds each inductive
invariant to hold on the instance of its component's run.

### Work board (`WorkBoardProofs`; `BoardAssumption`)

The assumption: finitely many bookings, `None` not an id, capacities positive, charges within the ceiling; nothing else about
items, resources, eligibility or dependencies.

* `BoardInvariant`: `BoardInv == TypeOK /\ LiveBookingOwned /\ OneLiveBooking` is inductive. Types and exclusiveness are not
  on their own. Starting or completing a booking writes its item's row, so types need a live booking to have one
  (`BookingHasItem`, the weaker half of ownership). Exclusiveness needs ownership: a push does not look at bookings; it finds
  no live one only because the item it takes has no assignee and a live booking's item has one. Hence `TypeCorrect`,
  `BookingsOwned` and `BookingsExclusive`: under the store's own operations `claim_work_item` never meets
  `work_pull_booking_integrity`.
* `CapacityHolds`: `OccupiedStep` shows that a step only removes occupying bookings of a resource, or adds one after the
  capacity check passed; `WithinBound` turns that into the cardinality bound.
* `TokensAreConserved`: `uncharged` plus charges. The sum of an item's charges is stated as the number of its charged units (`ChargedUnits`), so that a
  charge adds a set apart from the others (`UnitsAdded`) and no induction over a sum is needed. The invariant adds
  `ChargesArePlaced`: only completed bookings have a charge, and no booking is of an item without a row; a new row would
  otherwise begin with another's charges.
* `EndedFinal`: the action property, a case for each operation.

### Board clients (`BoardClientsProofs`; with `ClientsAssumption`)

PATCH can give a booked item to someone else, so `LiveBookingOwned` is lost. `ClientInv` keeps `BookingHasItem` instead, and
types. `ClientStepKinds` says that to the store every client step is one of its own operations or a write of status or
assignee that neither creates nor deletes a row. So capacity and the finality of ended bookings hold under all
clients (`ClientsWithinCapacity`, `ClientsKeepEndedBookings`). `SweepSparesEnded` and
`DispatchKeepsMoves` follow a case for each step.

### Agent work runner (`AgentWorkProofs`; `BoardAssumption`, `WorkAssumption`)

`WorkAssumption` says beside types that a task may be created, with a TTL and no tokens, and closed without a charge: what the runner does.

* `RunnerUsesBoard`: `WorkSpec => Spec`. Each action of the runner is one board operation or leaves the board alone, so
  `WorkWithinCapacity` and `WorkKeepsEndedBookings` are corollaries, and `BoardInv` is part of the runner's invariant.
* `WorkInvariant`: `WorkInv` says what a coroutine may still rely on after each await. `HeldItems` and `RunStatus`: whose the
  item of a run is, and where it may be, at each pc (where the run left it, or ended by others). `BookedItems`: a scheduled item
  has its scheduled booking, unless it was returned ended. `ClosingEnded`: closers list every live booking of an ended item.
  `CallsSeen`, `UsesClaimed`, `NoticesClaimed`: the facts in rows that outlive the process. `DownMeansIdle`: what a
  restart may assume.
* `ToldAtMostOnce` and `ApprovedOnce` rest on claims that precede the call or the post and are never undone. `ApprovedOnce` and
  `DoneHeardCalls` speak of requests fulfilled at some time (`granted`): a status read before an await may have been written over by
  an overlapping decision, what it once was cannot. `WakeUpsKept`,
  `ParksRemembered`, `ReportsKept` and `BookingsFreed` are inductive only together with the invariants above: whatever has to
  happen next is some task's next step, and an item that is parked, started or ended by someone else does not take it away; only
  an exception does, and then it is in `dropped` (`DroppedGrows`).

### Durable router (`DurableEventsProofs`; `RouterAssumption`: finitely many records, a queue of at least one)

* `RouterInvariant`: the counters are exact because each record is in one place, with which queues (`QueuesHold`,
  `QueuedOnce`), writers' hands (`WritersHold`, `WrittenByOne`), episodes (`LossesKept`, `CarriersMark`), rows and markers agree.
  `CountMove` says how a move between places changes the number of records in a set of places; `UnresolvedIsExact` and
  `StatsAddUp` follow from it for one record, or for all the losses one marker answers for. That no counter goes below zero
  is a consequence, not an assumption (`RouterTypes` leaves it out).
* `SilenceIsSound`, `StaleHandOffsRefused` (the generation of a hand-off outlives a drain and a re-arming, its queue does not).
* `RouterKeepsLedger`: `Spec => KeepsLedger`, the refinement of `RecordLedger`, step by step: which actions admit, record or lose a
  record, which marker answers for losses, and that all others change no account.

### Durable answers (`DurableAnswerProofs`; `ScanAssumption`)

`AskedRouterIsRouter` (`AnswerSpec => Spec`) brings the router's theorems; `QuestionInvariant` says that what each query has shown
cannot be undone before the answer; `AbsenceTheorem` concludes that "not recorded" hides no loss.

### Envelope guard (`EnvelopeGuardProofs`; `GuardAssumption`)

`GuardAssumption` makes `Extends \cup Overrides` a strict order of key histories, which is `recovery_precedence` and the
prefix order: at the first event where two histories part a valid recovery comes before what is none, and a history comes before
its own beginnings.

* `GuardInvariant`: that an envelope is delivered once rests on a chain. What is delivered was recorded
  (`DeliveredIsRecorded`); a write under way records a stamp not recorded yet (`BegunAgainstStore`); the guard chose it by
  memory, which then was what the store held (`MemoryFollows`, with an exception for a write whose outcome is not known); the
  store's windows are exact under the held key; and a history that was given up is never held again (`HoldMovesOn`).
* `DeliveredAtMostOnce`, `ExactWindows`, `MemoryHoldsStore`, `NoConflicts` and `HoldKept` follow. `UniqueStamps` has an invariant of its own: as many
  labels as calls of `seal`, all behind the next one.

### Tickets (`TicketsProofs`; `TicketAssumption`)

`TicketInvariant` relates each ticket to its parent only. It reaches whole lineages without induction: reachability is a least
closed set, so a set that holds the ticket and the parent of each it holds contains every ancestor, and the proof names that
set. `SuffixRegistered` (what is dropped is a prefix of the order of issue) makes a lineage leave the registry once and for
all. Hence `LineageStaysWhole`, `RevocationReachesAll`, `AttenuatedLineages` (dropped ancestors included) and `EndsAreFinal`.

### Model-checked only

* Liveness: `ExpiredWorkLeavesOpen`, `AdmittedIsDecided`, `DrainEnds` (fairness and ENABLED are out of the
  prover's reach).
* The four disagreements of section 6: their runs show a counterexample.

## 6. Findings

1. `unassign_work_item` resets the status to `open` without reading it, so an ended item with an assignee comes
   back to the board; `_TERMINAL_STATUSES` says no transition leaves them (run `board_terminal`). Starting a
   booking of an ended item does the same.
2. The task type "requires assignment for in_progress", but only one of the two edges into it says so: an
   unassigned task gets there through `blocked` (run `board_owner`).
3. The dispatched agent's claim is a read and a write without compare-and-set: an assignment made in between is
   replaced, though the comment promises it is left untouched (run `clients_dispatch_race`).
4. `durable_answer` reads the rows before it asks the router. A record that commits and is resolved in between
   is in neither, so "not recorded" is answered for a record that was pending when the question was put and is in
   events.db when it is answered (run `answer_race`). What does hold is `AbsenceIsSound`: the answer hides no
   loss and no row that was there when the question was put.

What the agent work runner does not promise, and its properties therefore except (the first two are what its own log messages
say):

* An exception at an await of the runner or of AD-855's driver is logged and dropped. A run or a start that raises may leave the
  item `scheduled` or `in_progress` with no run ("it stays in_progress"; `NoLostWakeUp` excepts it); a driver that raises leaves it
  parked ("it needs a manual transition"; `NoForgottenPark`); a handler or a delivery that raises leaves an end unreported ("the
  next start's recovery retries it"; `NoLostReport`) or a booking live, which no recovery closes (`NoLostBooking`). The next start's
  `recover()` runs what is left and sends what is owed. `ToldOnce`, `ApprovedCallOnce`, `DoneHasAllCalls` and `EndIsKept` except nothing.
* Two decisions of one request that overlap both pass the pending check, and neither `decide()` nor `mark_fulfilled()` looks again: a
  request may be denied after its call was made, or approved and fulfilled twice. The call is made at most once all the same, after a
  fulfilment, and an item is done only when every call its assignee filed was fulfilled at some time.

* Giving an item back (`unassign_work_item`) reopens one that ended meanwhile (finding 1, met by a run: the item is in
  `returned`). Its end is claimed and not told again; another agent may claim it, and the old end's handler then
  cancels that agent's booking, so that the item stays `scheduled` with no run. `NoLostWakeUp` and `NoLostBooking` except it.
* The process may end after the terminal transition and before `_close_bookings`: `recover()` lists open items, so that booking
  stays live for good (`NoLostBooking` is about a process that has not ended).
* The process may end after a request settled and before the item parked on it was resumed: capability events are not
  replayed, and the item waits for its TTL (`settledBefore`).
* A notice whose claim is recorded and whose post fails, or is overtaken by the end of the process, is never posted:
  `ToldOnce` is at most once. A watcher added after the end is told with the next delivery, whenever that is; `NoLostReport`
  is about the requester.

## 7. Limits of the models

* A resource's capacity is constant; re-registering one with a smaller capacity is left out, and `capacity` 0 with it.
* Eligibility and requirements are one constant relation. Step gates, owned steps and crew sessions
  refuse or reserve calls on this surface and are left out, as are templates, journals and events.
* `create_work_item` takes any status text and any token count from the HTTP route; the model has the statuses there are and
  counts within the ceiling (`Named`, `Opening`), since nothing is claimed of rows outside them. The owned-step writer that adds its
  execution's tokens (`workforce.py` 7415) is left out with owned steps, and PATCH of the counter with the other columns: `TokensConserved` is
  about the store's other writers, and is not claimed under PATCH.
* PATCH writes status and assignee only. `LiveBookingOwned` is not claimed under PATCH: the route does not look at
  bookings, by design.
* The event log is whatever the router sees of it; its hash chain, pruning and write budget are not modelled. Retention
  is left out of DurableAnswer ("within retention" in its docstring), and its properties are about questions
  during which the log stayed open: one closed and reopened during a question proves nothing either way.
* AgentWork leaves out the activation notice and declining, the executor's own park (AD-1324), the results carried to a
  later run, the volume guards, the limits of the two listings, and an unassignment by the Captain. No more than
  `SCAN_LIMIT` (2,000) items are open, since `_commit` refuses beyond it; a delivery lists at most 50 due notices and leaves the
  rest to the next delivery, so `NoLostReport` is about fewer than that. Whether an agent is stopped, or holds its tools, is
  a free answer at each question: the properties hold whatever is answered. A start by `claim` follows the claim at once (in
  the code one read later).
* EnvelopeGuard says nothing of how long the accept lock is held (section 2), and leaves out the checks of one envelope by
  itself (signature, audience, identity pins), unsigned envelopes, the
  key history gap (over 32 events) and losing a committed write to a power failure. A guard is started once in a process.
* Tickets has one ceiling for two that are compared alike, and leaves findings and tallies out. A stop reaches what is
  registered: the stop of a dropped ancestor's principal does not reach a live descendant, as the docstring of
  `_liveness` says ("registered").
* Wording, logging, payload projection and timestamps are left out everywhere.

## 8. Plan

Done: WorkBoard, BoardClients, DurableEvents, RecordLedger, DurableAnswer, AgentWork, EnvelopeGuard, Tickets, and the proofs
of all safety and action properties of their runs (section 5).

Proofs worth adding: an abstract specification of the guard (a set of delivered envelopes that only grows between resets, over
any network) that EnvelopeGuard implements; one of the ticket registry as a forest in which a revocation takes a subtree; and, with
the guard that PATCH does not have (hazard at `workforce.py`, `update_work_item`), ownership of live bookings under all clients.

Models worth adding: `Escalation` with `Quorum` (how often one act is performed over retry, arbitration and the user's answer);
`OutcomeReceipts` (trust: the receipt transaction and its reconciliation); `Pool` with the scaler; intent dispatch with
duplicate suppression; delegated approvals.

Not modelled, and why:

* Escalation, receipts, pools and intent dispatch: state machines a model would say something about, left for later
  because the parts above carry the harder interleavings (persistence, restarts and several writers).
* Execution authority: large, journalled, and its state machine is covered closely by its own tests.
* The cognitive layer, knowledge, ward room, tools, routers and interfaces: language-model calls, projections and I/O rather
  than protocols. They are most of the repository's lines, so the share of lines under a model stays small.
