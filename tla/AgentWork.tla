----------------------------- MODULE AgentWork -----------------------------
(***************************************************************************)
(* The runner of agent-created work (src/probos/agent_work_runner.py) over *)
(* the work board: an item an agent filed for itself or asked a department *)
(* for is run in its assignee's loop, parked while a call it filed awaits  *)
(* the Captain, and reported once to everyone who asked for it.            *)
(*                                                                         *)
(* The runner's coroutines share one event loop, so what a coroutine does  *)
(* between two awaits is one step here, and a store transaction is one     *)
(* step of WorkBoard.  The board, the capability requests, the claimed     *)
(* notices and the watchers are rows and survive a crash; runs, pending    *)
(* starts, events and deliveries are tasks in memory and do not.           *)
(*                                                                         *)
(* Any awaited call may raise, at any time.  What then happens is an       *)
(* action of its own (RunFails, StartFails, EventFails, ...): the code     *)
(* logs the exception and drops what it was doing.  A call that commits    *)
(* and raises afterwards is the call, followed by the failure of what it   *)
(* would have set off.                                                     *)
(*                                                                         *)
(* Left out: the activation notice and declining (claim-once like the      *)
(* terminal notice), the executor's own tier-floor park (AD-1324), the     *)
(* results carried to a later run, the volume guards, and the limits of    *)
(* list_agent_work and list_due_work_notices (SCAN_LIMIT).                 *)
(***************************************************************************)
EXTENDS WorkBoard

CONSTANTS
    MaxRequests,  \* the number of calls the agents may file for approval
    Recipients,   \* who may ask for work: the requester and the watchers
    Requester,    \* the recipient who created the item
    Kinds,        \* the ways items are created, a subset of {"self", "request"}
    Deciders,     \* decisions of one request that may be under way at once
    MaxCrashes,   \* how often the process may end and be started again
    MaxMishaps,   \* bound: exceptions, and decisions that begin during another one
    BusyLives,    \* bound: the lives of the process, 0 the first, in which items are
                  \* created, claimed, cancelled and watched; runs go on in the others
    WatchedFiles  \* bound: whether an item with watchers also files calls

Requests == 1..MaxRequests  \* capability_requests rows, in the order filed

ASSUME WorkAssumption ==
    /\ MaxRequests \in Nat /\ MaxCrashes \in Nat
    /\ Requester \in Recipients
    /\ Kinds \subseteq {"self", "request"}
    /\ MaxMishaps \in Nat /\ BusyLives \subseteq 0..MaxCrashes /\ WatchedFiles \in BOOLEAN
    /\ "task" \in WorkTypes /\ 0 \in Charges \cap Opening
    /\ \A i \in Items : "running" \in Lives[i]

VARIABLES
    kind,      \* [Items -> "self" | "request"]: AgentWorkRecord.kind
    parkedOn,  \* [Items -> Requests \cup {0}]: metadata capability_request_id
    rstate,    \* [Requests -> RequestState]
    ritem,     \* [Requests -> Items \cup {None}]
    ragent,    \* [Requests -> Resources \cup {None}]
    used,      \* SUBSET Requests: claimed approval_use rows (BF-947)
    told,      \* [Items -> SUBSET Recipients]: claimed terminal notices
    watchers,  \* [Items -> SUBSET Recipients]
    mode,      \* "up", "stopping" (stop() was called) or "down"
    crashes,   \* ends of the process so far
    recover,   \* what recover() does next: "list", "deliver" or "off"
    run,       \* [Items -> Run]: the item's run task, at most one
    restart,   \* SUBSET Items: _restart
    starting,  \* [Items -> Nat]: _start calls on their way
    events,    \* [Items -> Nat]: STATUS_CHANGED events of an end, not yet handled
    handler,   \* [Items -> Handler]: on_store_event handling one of them
    delivery,  \* what the holder of _deliver_lock has to claim and to post
    deciding,  \* [Requests -> [Deciders -> Decision]]: calls of the decide route
    capEvents, \* [Requests \X Verdicts -> Nat]: DECIDED and FULFILLED on their way
    calls,     \* ghost, [Requests -> Nat]: times the approved call was made
    posts,     \* ghost, [Items -> [Recipients -> Nat]]: attempts to post to the recipient
    settledBefore, \* ghost, SUBSET Requests: settled before the process last ended
    granted,   \* ghost, SUBSET Requests: fulfilled at some time
    returned,  \* ghost, SUBSET Items: released by a run after they ended
    mishaps,   \* ghost: counts what MaxMishaps bounds
    dropped    \* ghost, SUBSET (Items \X Losses): what a logged exception took from an
               \* item in this life of the process

runVars == <<run, restart, starting>>
requestVars == <<rstate, ritem, ragent, deciding, capEvents, granted>>
noticeVars == <<told, posts, delivery, watchers>>
eventVars == <<events, handler>>
shipVars == <<mode, crashes, recover, settledBefore>>
exceptVars == <<returned, dropped, mishaps>>
workVars == <<kind, parkedOn, used, calls, exceptVars,
              runVars, requestVars, noticeVars, eventVars, shipVars>>
allVars == <<vars, workVars>>

RequestState == {"absent", "pending", "approved", "fulfilled", "denied"}
Verdicts == {"fulfilled", "denied"}
Decision == {"idle", "approve", "deny", "fulfil"}
Losses == {"run", "park", "end"}
Settled(q) == rstate[q] \in {"fulfilled", "denied"}

RunPc == {"idle", "read", "list", "start", "move", "link", "deny", "park", "settle",
          "work", "call", "release", "record", "close"}
Run == [pc : RunPc, slot : Resources \cup {None}, book : Bookings \cup {None},
        req : Requests \cup {0}, use : SUBSET Requests, filed : Requests \cup {0},
        fin : BOOLEAN, todo : SUBSET Bookings]
Idle == [pc |-> "idle", slot |-> None, book |-> None, req |-> 0, use |-> {}, filed |-> 0,
         fin |-> FALSE, todo |-> {}]
Begun == [Idle EXCEPT !.pc = "read"]

Handler == [pc : {"idle", "bookings", "close", "deliver"}, fin : BOOLEAN, todo : SUBSET Bookings]
NoEvent == [pc |-> "idle", fin |-> FALSE, todo |-> {}]

Notices == Items \X Recipients
NoDelivery == [due |-> {}, ready |-> {}]

WorkTypeOK ==
    /\ TypeOK
    /\ kind \in [Items -> {"self", "request"}]
    /\ parkedOn \in [Items -> Requests \cup {0}]
    /\ rstate \in [Requests -> RequestState]
    /\ ritem \in [Requests -> Items \cup {None}]
    /\ ragent \in [Requests -> Resources \cup {None}]
    /\ deciding \in [Requests -> [Deciders -> Decision]]
    /\ capEvents \in [Requests \X Verdicts -> Nat]
    /\ used \subseteq Requests /\ granted \subseteq Requests
    /\ settledBefore \subseteq Requests
    /\ returned \subseteq Items /\ dropped \subseteq Items \X Losses /\ mishaps \in 0..MaxMishaps
    /\ told \in [Items -> SUBSET Recipients] /\ watchers \in [Items -> SUBSET Recipients]
    /\ mode \in {"up", "stopping", "down"} /\ crashes \in 0..MaxCrashes
    /\ recover \in {"off", "list", "deliver"}
    /\ run \in [Items -> Run] /\ restart \subseteq Items /\ starting \in [Items -> Nat]
    /\ events \in [Items -> Nat] /\ handler \in [Items -> Handler]
    /\ delivery \in [due : SUBSET Notices, ready : SUBSET Notices]
    /\ calls \in [Requests -> Nat] /\ posts \in [Items -> [Recipients -> Nat]]

WorkInit ==
    /\ Init
    /\ kind = [i \in Items |-> "self"]
    /\ parkedOn = [i \in Items |-> 0]
    /\ rstate = [q \in Requests |-> "absent"]
    /\ ritem = [q \in Requests |-> None] /\ ragent = [q \in Requests |-> None]
    /\ deciding = [q \in Requests |-> [d \in Deciders |-> "idle"]]
    /\ capEvents = [e \in Requests \X Verdicts |-> 0]
    /\ used = {} /\ granted = {} /\ settledBefore = {}
    /\ returned = {} /\ dropped = {} /\ mishaps = 0
    /\ told = [i \in Items |-> {}] /\ watchers = [i \in Items |-> {}]
    /\ mode = "up" /\ crashes = 0 /\ recover = "off"
    /\ run = [i \in Items |-> Idle] /\ restart = {} /\ starting = [i \in Items |-> 0]
    /\ events = [i \in Items |-> 0] /\ handler = [i \in Items |-> NoEvent]
    /\ delivery = NoDelivery
    /\ calls = [q \in Requests |-> 0]
    /\ posts = [i \in Items |-> [r \in Recipients |-> 0]]

-----------------------------------------------------------------------------
(* What the operations share. *)

Up == mode # "down"
Busy == Up /\ crashes \in BusyLives
Ended(i) == status[i] \in Terminal

\* transition_work_item with expected_status: a compare-and-set.  An end is
\* announced by STATUS_CHANGED.
Moves(i, from, to) == status[i] = from /\ MayMove(i, to)
Move(i, to) ==
    /\ Transition(i, to)
    /\ events' = IF to \in Terminal THEN [events EXCEPT ![i] = @ + 1] ELSE events
Kept == UNCHANGED <<vars, events>>

\* The end of _run, its finally clause: a start kept during the run is made.
Leave(i) ==
    /\ run' = [run EXCEPT ![i] = IF i \in restart THEN Begun ELSE Idle]
    /\ restart' = restart \ {i}
GoTo(i, r) == run' = [run EXCEPT ![i] = r] /\ UNCHANGED restart
Step(i, pc) == GoTo(i, [run[i] EXCEPT !.pc = pc])
Only(pc) == [Idle EXCEPT !.pc = pc]  \* a step that needs nothing of what the run has read

\* A slip: a start that arrives while the item runs is dropped.
StartDropped(i) ==
    IF mode = "up" /\ run[i].pc = "idle"
      THEN GoTo(i, Begun)
      ELSE UNCHANGED <<run, restart>>

\* _start: once at a time; a start that finds the item running is kept.
Start(i) ==
    IF mode # "up" THEN UNCHANGED <<run, restart>>
    ELSE IF run[i].pc = "idle" THEN GoTo(i, Begun)
    ELSE restart' = restart \cup {i} /\ UNCHANGED run

\* execution_allowed, or the executor's entry, says no: a request is given
\* back to the board, anything else is left.  The Captain's stop, the agent's
\* tools and its department change between any two questions, so either
\* answer is possible whenever one is asked.
Refused(i) == IF kind[i] = "request" THEN GoTo(i, Only("release")) ELSE Leave(i)

\* _linked_calls: what slot a filed on the item; the oldest has the least id.
Linked(i, a) == {q \in Requests : rstate[q] # "absent" /\ ritem[q] = i /\ ragent[q] = a}
In(S, states) == {q \in S : rstate[q] \in states}
IsOldest(q, S) == q \in S /\ \A p \in S : q <= p

Mishap == mishaps < MaxMishaps /\ mishaps' = mishaps + 1
Drops(i, loss) == Mishap /\ dropped' = dropped \cup {<<i, loss>>}

\* _close_bookings, one of the bookings it listed.
CloseBooking(b, completed) ==
    IF bstate[b] \notin Live THEN UNCHANGED vars
    ELSE IF completed /\ bstate[b] \in Occupying THEN CompleteBooking(b, 0)
    ELSE CancelBooking(b)

-----------------------------------------------------------------------------
(* The board's other writers. *)

\* AgentWorkService._commit, then WORK_ITEM_CREATED: a self-task is started.
AgentCreates(i, k, a) ==
    /\ Busy
    /\ Create(i, "task", a, "running", "open", 0)
    /\ (k = "request") = (a = None)
    /\ kind' = [kind EXCEPT ![i] = k]
    /\ starting' = [starting EXCEPT ![i] = IF k = "self" THEN @ + 1 ELSE @]
    /\ UNCHANGED <<parkedOn, used, calls, exceptVars, run, restart, requestVars, noticeVars,
                   eventVars, shipVars>>

\* A claimed request is started by WORK_ITEM_CLAIMED, and once more by
\* claim() when that is how it was claimed (one read later; here at once).
AgentClaims(i, a, b, viaRunner) ==
    /\ Busy
    /\ kind[i] = "request"
    /\ Claim(i, a, b)
    /\ starting' = [starting EXCEPT ![i] = @ + 1]
    /\ IF viaRunner THEN Start(i) ELSE UNCHANGED <<run, restart>>
    /\ UNCHANGED <<kind, parkedOn, used, calls, exceptVars, requestVars, noticeVars,
                   eventVars, shipVars>>

\* The Captain, or the TTL sweep, ends an item.
Cancelled(i) ==
    /\ Busy
    /\ MayMove(i, "cancelled")
    /\ Move(i, "cancelled")
    /\ UNCHANGED <<kind, parkedOn, used, calls, exceptVars, runVars, requestVars, noticeVars,
                   handler, shipVars>>

\* A duplicate of an open request makes its author a watcher.  _commit adds
\* the row after it listed the open items: the item may have ended meanwhile.
WatcherAdded(i, w) ==
    /\ Busy
    /\ kind[i] = "request" /\ status[i] # "absent" /\ w # Requester
    /\ WatchedFiles \/ \A q \in Requests : ritem[q] # i
    /\ watchers' = [watchers EXCEPT ![i] = @ \cup {w}]
    /\ UNCHANGED <<vars, kind, parkedOn, used, calls, exceptVars, runVars, requestVars, told, posts,
                   delivery, eventVars, shipVars>>

-----------------------------------------------------------------------------
(* The Captain's decisions: CapabilityRequestStore and AD-855's driver. *)

\* _decide_request: the pending check, made before decide() waits for its
\* lock.  An approved request is approved again to retry its fulfilment (BF-722).
DecisionBegins(q, d, s) ==
    /\ Up /\ deciding[q][d] = "idle"
    /\ s \in {"approve", "deny"} => rstate[q] = "pending"
    /\ s = "fulfil" => rstate[q] = "approved"
    /\ s # "idle"
    /\ IF \E other \in Deciders : deciding[q][other] # "idle" THEN Mishap ELSE UNCHANGED mishaps
    /\ deciding' = [deciding EXCEPT ![q][d] = s]
    /\ UNCHANGED <<vars, kind, parkedOn, used, calls, returned, dropped, runVars, rstate, ritem, ragent,
                   capEvents, granted, noticeVars, eventVars, shipVars>>

\* decide(approve=True): it looks at no status again.  mark_fulfilled is a
\* call of its own; a crash before it leaves the request approved.
Approve(q, d) ==
    /\ Up /\ deciding[q][d] = "approve"
    /\ rstate' = [rstate EXCEPT ![q] = "approved"]
    /\ deciding' = [deciding EXCEPT ![q][d] = "fulfil"]
    /\ UNCHANGED <<vars, kind, parkedOn, used, calls, exceptVars, runVars, ritem, ragent, capEvents,
                   granted, noticeVars, eventVars, shipVars>>

Settle(q, d, s) ==
    /\ Up
    /\ rstate' = [rstate EXCEPT ![q] = s]
    /\ deciding' = [deciding EXCEPT ![q][d] = "idle"]
    /\ capEvents' = [capEvents EXCEPT ![<<q, s>>] = @ + 1]
    /\ granted' = IF s = "fulfilled" THEN granted \cup {q} ELSE granted
    /\ UNCHANGED <<vars, kind, parkedOn, used, calls, exceptVars, runVars, ritem, ragent,
                   noticeVars, eventVars, shipVars>>

\* decide(approve=False) and mark_fulfilled write over any status.
Deny(q, d) == deciding[q][d] = "deny" /\ Settle(q, d, "denied")
MarkFulfilled(q, d) == deciding[q][d] = "fulfil" /\ Settle(q, d, "fulfilled")

\* A decision, or a fulfilment, that raises: the request stays as it is.
DecisionFails(q, d) ==
    /\ Up /\ deciding[q][d] # "idle" /\ Mishap
    /\ deciding' = [deciding EXCEPT ![q][d] = "idle"]
    /\ UNCHANGED <<vars, kind, parkedOn, used, calls, returned, dropped, runVars, rstate, ritem, ragent,
                   capEvents, granted, noticeVars, eventVars, shipVars>>

DecisionStep(q, d) ==
    \/ \E s \in Decision : DecisionBegins(q, d, s)
    \/ Approve(q, d) \/ Deny(q, d) \/ MarkFulfilled(q, d) \/ DecisionFails(q, d)

\* _resume and _cancel: compare-and-set on the item being parked on q.
ParkedOn(i, q) == status[i] = "blocked" /\ parkedOn[i] = q

\* on_capability_event goes by what the event says, not by the request's
\* status; an item not parked on the request is left alone.
CapabilityEvent(q, verdict) ==
    /\ Up /\ capEvents[<<q, verdict>>] > 0
    /\ capEvents' = [capEvents EXCEPT ![<<q, verdict>>] = @ - 1]
    /\ LET i == ritem[q] IN
       IF ~ParkedOn(i, q) THEN Kept /\ UNCHANGED starting
       ELSE IF verdict = "fulfilled"
         THEN Move(i, "in_progress") /\ starting' = [starting EXCEPT ![i] = @ + 1]
         ELSE Move(i, "cancelled") /\ UNCHANGED starting
    /\ UNCHANGED <<kind, parkedOn, used, calls, exceptVars, run, restart, rstate, ritem, ragent,
                   deciding, granted, noticeVars, handler, shipVars>>

\* It raises: the event is dropped, the item stays parked.
CapabilityEventFails(q, verdict) ==
    /\ Up /\ capEvents[<<q, verdict>>] > 0
    /\ capEvents' = [capEvents EXCEPT ![<<q, verdict>>] = @ - 1]
    /\ Drops(ritem[q], "park")
    /\ UNCHANGED <<vars, kind, parkedOn, used, calls, returned, runVars, rstate, ritem, ragent,
                   deciding, granted, noticeVars, eventVars, shipVars>>

-----------------------------------------------------------------------------
(* A run: _run, one step per await. *)

\* What a run step leaves alone unless it says otherwise.
RunAdds == UNCHANGED <<kind, starting, noticeVars, handler, shipVars>>
RunKeeps == RunAdds /\ UNCHANGED exceptVars
NoCalls == UNCHANGED <<used, calls>>
NoRequests == UNCHANGED requestVars

Starts(i) ==
    /\ Up /\ starting[i] > 0
    /\ starting' = [starting EXCEPT ![i] = @ - 1]
    /\ Start(i)
    /\ UNCHANGED <<vars, kind, parkedOn, used, calls, exceptVars, requestVars, noticeVars,
                   eventVars, shipVars>>

\* on_store_event, or AD-855's resume, raises before it calls _start.
StartFails(i) ==
    /\ Up /\ starting[i] > 0
    /\ starting' = [starting EXCEPT ![i] = @ - 1]
    /\ Drops(i, "run")
    /\ UNCHANGED <<vars, kind, parkedOn, used, calls, returned, run, restart, requestVars, noticeVars,
                   eventVars, shipVars>>

\* The run's way from _begin to its executor, without an await: the choice
\* of _cancel_or_park among the calls the assignee filed, and the executor's
\* first question, whether the agent is stopped (AgentStopped).
Proceeds(i, r) ==
    LET linked == Linked(i, r.slot)
        waiting == In(linked, {"pending", "approved"})
    IN
    IF In(linked, {"denied"}) # {} THEN GoTo(i, Only("deny"))
    ELSE IF waiting # {}
      THEN \E q \in Requests : IsOldest(q, waiting) /\ GoTo(i, [Only("park") EXCEPT !.req = q])
    ELSE GoTo(i, [r EXCEPT !.pc = "work", !.use = linked]) \/ Refused(i)

\* get_work_item and the checks before the run: an item that is gone, ended,
\* parked or nobody's is not run; neither is one its assignee may not run.
RunReads(i) ==
    /\ run[i].pc = "read"
    /\ LET r == [run[i] EXCEPT !.slot = assignee[i]] IN
       IF assignee[i] = None \/ status[i] \notin {"open", "scheduled", "in_progress"} THEN Leave(i)
       ELSE \/ Refused(i)
            \/ status[i] = "open" /\ GoTo(i, [r EXCEPT !.pc = "move"])
            \/ status[i] = "scheduled" /\ GoTo(i, [r EXCEPT !.pc = "list"])
            \/ status[i] = "in_progress" /\ Proceeds(i, r)
    /\ Kept /\ UNCHANGED parkedOn /\ NoCalls /\ NoRequests /\ RunKeeps

\* _begin of a claimed request: exactly one scheduled booking of the assignee.
RunListsBooking(i) ==
    /\ run[i].pc = "list"
    /\ LET mine == {b \in Bookings : bitem[b] = i /\ bstate[b] = "scheduled"
                                     /\ bres[b] = run[i].slot} IN
       IF Cardinality(mine) = 1
         THEN GoTo(i, [run[i] EXCEPT !.pc = "start", !.book = CHOOSE b \in mine : TRUE])
         ELSE Leave(i)
    /\ Kept /\ UNCHANGED parkedOn /\ NoCalls /\ NoRequests /\ RunKeeps

RunStartsBooking(i) ==
    /\ run[i].pc = "start"
    /\ IF bstate[run[i].book] = "scheduled"
         THEN /\ StartBooking(run[i].book) /\ UNCHANGED events
              /\ GoTo(i, [run[i] EXCEPT !.pc = "link", !.book = None])
         ELSE Kept /\ Leave(i)
    /\ UNCHANGED parkedOn /\ NoCalls /\ NoRequests /\ RunKeeps

\* _begin of a self-task.
RunMoves(i) ==
    /\ run[i].pc = "move"
    /\ IF Moves(i, "open", "in_progress")
         THEN Move(i, "in_progress") /\ Step(i, "link")
         ELSE Kept /\ Leave(i)
    /\ UNCHANGED parkedOn /\ NoCalls /\ NoRequests /\ RunKeeps

RunLinks(i) ==
    /\ run[i].pc = "link"
    /\ Proceeds(i, run[i])
    /\ Kept /\ UNCHANGED parkedOn /\ NoCalls /\ NoRequests /\ RunKeeps

\* _close_bookings at the end of a run: the live bookings it lists.  No
\* booking of the item is made between the run's last write and this list.
Closes(i, completed) ==
    IF LiveOn(i) = {} THEN Leave(i)
    ELSE GoTo(i, [Only("close") EXCEPT !.fin = completed, !.todo = LiveOn(i)])

\* A denied call cancels the item, and its bookings are closed.
RunDenied(i) ==
    /\ run[i].pc = "deny"
    /\ IF Moves(i, "in_progress", "cancelled")
         THEN /\ Move(i, "cancelled")
              /\ Closes(i, FALSE)
         ELSE Kept /\ Leave(i)
    /\ UNCHANGED parkedOn /\ NoCalls /\ NoRequests /\ RunKeeps

\* A slip: an item is parked whatever its status.
RunParksAnyway(i) ==
    /\ run[i].pc = "park"
    /\ status' = [status EXCEPT ![i] = "blocked"]
    /\ parkedOn' = [parkedOn EXCEPT ![i] = run[i].req]
    /\ Step(i, "settle")
    /\ UNCHANGED <<workType, assignee, ttl, tokens, uncharged, bookingVars, active, events>>
    /\ NoCalls /\ NoRequests /\ RunKeeps

\* block_on_request: parks the item from whatever status may be blocked, and
\* records the request in the same write.
RunParks(i) ==
    /\ run[i].pc = "park"
    /\ IF status[i] = "blocked" \/ MayMove(i, "blocked")
         THEN /\ IF status[i] = "blocked" THEN Kept ELSE Move(i, "blocked")
              /\ parkedOn' = [parkedOn EXCEPT ![i] = run[i].req]
              /\ Step(i, "settle")
         ELSE Kept /\ UNCHANGED parkedOn /\ Leave(i)
    /\ NoCalls /\ NoRequests /\ RunKeeps

\* A slip: parking does not look at the request again.
RunForgetsSettled(i) ==
    /\ run[i].pc = "settle"
    /\ Leave(i)
    /\ Kept /\ UNCHANGED parkedOn /\ NoCalls /\ NoRequests /\ RunKeeps

\* _resolve_if_settled (BF-878): a request settled before the park is acted
\* on as its event would have been; a resume's start is kept for this run's end.
RunSettles(i) ==
    /\ run[i].pc = "settle"
    /\ LET q == run[i].req IN
       IF ParkedOn(i, q) /\ rstate[q] = "fulfilled"
         THEN /\ Move(i, "in_progress")
              /\ GoTo(i, Begun)     \* kept in _restart, made as the run ends
         ELSE /\ IF ParkedOn(i, q) /\ rstate[q] = "denied" THEN Move(i, "cancelled") ELSE Kept
              /\ Leave(i)
    /\ UNCHANGED parkedOn /\ NoCalls /\ NoRequests /\ RunKeeps

\* A slip: the use of an approval is kept with the run only.
RunUsesInMemory(i, q) ==
    /\ run[i].pc = "work" /\ q \in run[i].use
    /\ GoTo(i, [run[i] EXCEPT !.pc = "call", !.req = q, !.use = @ \ {q}])
    /\ Kept /\ UNCHANGED <<parkedOn, calls, used>> /\ NoRequests /\ RunKeeps

\* The gate admits a call a fulfilled request covers, once: the use is a
\* claimed row before the call is made.
RunClaimsUse(i, q) ==
    /\ run[i].pc = "work" /\ q \in run[i].use \ used
    /\ used' = used \cup {q}
    /\ GoTo(i, [run[i] EXCEPT !.pc = "call", !.req = q])
    /\ Kept /\ UNCHANGED <<parkedOn, calls>> /\ NoRequests /\ RunKeeps

RunCalls(i) ==
    /\ run[i].pc = "call"
    /\ calls' = [calls EXCEPT ![run[i].req] = @ + 1]
    /\ GoTo(i, [run[i] EXCEPT !.pc = "work", !.req = 0])
    /\ Kept /\ UNCHANGED <<parkedOn, used>> /\ NoRequests /\ RunKeeps

\* Any other call is filed and not made; the first filed is parked on.
RunFiles(i, q) ==
    /\ run[i].pc = "work" /\ rstate[q] = "absent" /\ \A p \in 1..(q - 1) : rstate[p] # "absent"
    /\ WatchedFiles \/ watchers[i] = {}
    /\ rstate' = [rstate EXCEPT ![q] = "pending"]
    /\ ritem' = [ritem EXCEPT ![q] = i]
    /\ ragent' = [ragent EXCEPT ![q] = run[i].slot]
    /\ GoTo(i, [run[i] EXCEPT !.filed = IF @ = 0 THEN q ELSE @])
    /\ Kept /\ UNCHANGED <<parkedOn, deciding, capEvents, granted>> /\ NoCalls /\ RunKeeps

\* A slip: a run that filed a call is recorded all the same.
RunReturnsFiled(i, answered) ==
    /\ run[i].pc = "work"
    /\ \/ kind[i] = "request" /\ GoTo(i, Only("release"))
       \/ GoTo(i, [Only("record") EXCEPT !.fin = answered])
    /\ Kept /\ UNCHANGED parkedOn /\ NoCalls /\ NoRequests /\ RunKeeps

\* The executor returns, with an answer or without: a request whose claimant
\* may not run it any more is released (F5), a run that filed is parked (F3).
RunReturns(i, answered) ==
    /\ run[i].pc = "work"
    /\ \/ kind[i] = "request" /\ GoTo(i, Only("release"))
       \/ /\ run[i].filed # 0
          /\ GoTo(i, [Only("park") EXCEPT !.req = run[i].filed])
       \/ /\ run[i].filed = 0
          /\ GoTo(i, [Only("record") EXCEPT !.fin = answered])
    /\ Kept /\ UNCHANGED parkedOn /\ NoCalls /\ NoRequests /\ RunKeeps

\* unassign_work_item: the item goes back to the board, whatever its status.
RunReleases(i) ==
    /\ run[i].pc = "release"
    /\ IF assignee[i] # None THEN Unassign(i) ELSE UNCHANGED vars
    /\ returned' = IF Ended(i) THEN returned \cup {i} ELSE returned
    /\ UNCHANGED <<events, parkedOn, dropped, mishaps>> /\ Leave(i)
    /\ NoCalls /\ NoRequests /\ RunAdds

\* _record_outcome; an item that ended meanwhile keeps its end.  Its bookings
\* are closed either way, completed only when this run made it done.
RunRecords(i) ==
    /\ run[i].pc = "record"
    /\ LET end == IF run[i].fin THEN "done" ELSE "failed"
           moved == Moves(i, "in_progress", end)
       IN
       /\ IF moved THEN Move(i, end) ELSE Kept
       /\ Closes(i, moved /\ run[i].fin)
    /\ UNCHANGED parkedOn /\ NoCalls /\ NoRequests /\ RunKeeps

\* _run's exception handler, whatever it awaited: an item in progress is
\* failed, and its bookings are closed only if this run ended it; any other
\* item, or one whose transition raises too, is left as it is.  A failing
\* _resolve_if_settled is caught there, and leaves the item parked.
RunFails(i) ==
    /\ run[i].pc # "idle"
    /\ \/ /\ run[i].pc # "settle" /\ Moves(i, "in_progress", "failed")
          /\ Move(i, "failed") /\ Closes(i, FALSE)
          /\ Mishap /\ UNCHANGED dropped
       \/ /\ Kept /\ Leave(i)
          /\ Drops(i, IF run[i].pc = "settle" THEN "park" ELSE "run")
    /\ UNCHANGED <<parkedOn, returned>> /\ NoCalls /\ NoRequests /\ RunAdds

\* _close_bookings goes through what it listed.
RunCloses(i) ==
    /\ run[i].pc = "close"
    /\ \E b \in run[i].todo :
         /\ CloseBooking(b, run[i].fin)
         /\ IF run[i].todo = {b} THEN Leave(i) ELSE GoTo(i, [run[i] EXCEPT !.todo = @ \ {b}])
    /\ UNCHANGED <<events, parkedOn>> /\ NoCalls /\ NoRequests /\ RunKeeps

RunStep(i) ==
    \/ RunReads(i) \/ RunListsBooking(i) \/ RunStartsBooking(i) \/ RunMoves(i) \/ RunLinks(i)
    \/ RunDenied(i) \/ RunParks(i) \/ RunSettles(i) \/ RunCalls(i) \/ RunFails(i)
    \/ RunReleases(i) \/ RunRecords(i) \/ RunCloses(i)
    \/ \E q \in Requests : RunClaimsUse(i, q) \/ RunFiles(i, q)
    \/ \E answered \in BOOLEAN : RunReturns(i, answered)

-----------------------------------------------------------------------------
(* The store's events and the notices. *)

\* A slip: the handler runs once more than there were events.
EventReadsAgain(i) ==
    /\ Up /\ handler[i].pc = "idle"
    /\ events' = [events EXCEPT ![i] = @ - 1]
    /\ handler' = [handler EXCEPT ![i] =
         IF Ended(i) THEN [pc |-> "bookings", fin |-> status[i] = "done", todo |-> {}] ELSE NoEvent]
    /\ UNCHANGED <<vars, kind, parkedOn, used, calls, exceptVars, runVars, requestVars, noticeVars,
                   shipVars>>

\* on_store_event for a STATUS_CHANGED: reads the item again.
EventReads(i) ==
    /\ Up /\ events[i] > 0 /\ handler[i].pc = "idle"
    /\ events' = [events EXCEPT ![i] = @ - 1]
    /\ handler' = [handler EXCEPT ![i] =
         IF Ended(i) THEN [pc |-> "bookings", fin |-> status[i] = "done", todo |-> {}] ELSE NoEvent]
    /\ UNCHANGED <<vars, kind, parkedOn, used, calls, exceptVars, runVars, requestVars, noticeVars,
                   shipVars>>

\* A slip: the bookings of an item its own run did not end are not closed.
EventSparesBookings(i) ==
    /\ handler[i].pc = "bookings"
    /\ handler' = [handler EXCEPT ![i] = [NoEvent EXCEPT !.pc = "deliver"]]
    /\ UNCHANGED <<vars, kind, parkedOn, used, calls, exceptVars, runVars, requestVars, noticeVars,
                   events, shipVars>>

EventLists(i) ==
    /\ handler[i].pc = "bookings"
    /\ handler' = [handler EXCEPT ![i] =
         IF LiveOn(i) = {} THEN [NoEvent EXCEPT !.pc = "deliver"]
                           ELSE [@ EXCEPT !.pc = "close", !.todo = LiveOn(i)]]
    /\ UNCHANGED <<vars, kind, parkedOn, used, calls, exceptVars, runVars, requestVars, noticeVars,
                   events, shipVars>>

EventCloses(i) ==
    /\ handler[i].pc = "close"
    /\ \E b \in handler[i].todo :
         /\ CloseBooking(b, handler[i].fin)
         /\ handler' = [handler EXCEPT ![i] =
              IF @.todo = {b} THEN [NoEvent EXCEPT !.pc = "deliver"]
              ELSE [handler[i] EXCEPT !.todo = @ \ {b}]]
    /\ UNCHANGED <<kind, parkedOn, used, calls, exceptVars, runVars, requestVars, noticeVars,
                   events, shipVars>>

\* on_store_event raises, wherever it is: the event is logged and dropped.
EventFails(i) ==
    /\ Up
    /\ \/ handler[i].pc = "idle" /\ events[i] > 0 /\ events' = [events EXCEPT ![i] = @ - 1]
       \/ handler[i].pc # "idle" /\ UNCHANGED events
    /\ handler' = [handler EXCEPT ![i] = NoEvent]
    /\ Drops(i, "end")
    /\ UNCHANGED <<vars, kind, parkedOn, used, calls, returned, runVars, requestVars, noticeVars,
                   shipVars>>

\* list_due_work_notices: ended items' requester and watchers not yet told.
Hearing(i) == IF status[i] = "absent" THEN {} ELSE {Requester} \cup watchers[i]
Due == {n \in Notices : Ended(n[1]) /\ n[2] \in Hearing(n[1]) \ told[n[1]]}

\* deliver_due_notices holds its lock from the listing of what is due until
\* every listed notice is claimed and posted.
Delivering == delivery.due \cup delivery.ready # {}
Deliver ==
    /\ ~Delivering
    /\ delivery' = [due |-> Due, ready |-> {}]
    /\ UNCHANGED <<told, posts, watchers>>

EventDelivers(i) ==
    /\ handler[i].pc = "deliver"
    /\ Deliver
    /\ handler' = [handler EXCEPT ![i] = NoEvent]
    /\ UNCHANGED <<vars, kind, parkedOn, used, calls, exceptVars, runVars, requestVars, events,
                   shipVars>>

\* A slip: the claim of a notice is not recorded.
DeliveryUnclaimed(n) ==
    /\ n \in delivery.due
    /\ \A m \in delivery.ready : m[1] = n[1]
    /\ delivery' = [delivery EXCEPT !.due = @ \ {n}, !.ready = @ \cup {n}]
    /\ UNCHANGED told
    /\ UNCHANGED <<vars, kind, parkedOn, used, calls, exceptVars, runVars, requestVars, posts, watchers,
                   eventVars, shipVars>>

\* claim_notice, one recipient at a time: True once, across restarts.
DeliveryClaims(n) ==
    /\ n \in delivery.due
    /\ \A m \in delivery.ready : m[1] = n[1]
    /\ told' = [told EXCEPT ![n[1]] = @ \cup {n[2]}]
    /\ delivery' = [delivery EXCEPT !.due = @ \ {n},
                                    !.ready = IF n[2] \in told[n[1]] THEN @ ELSE @ \cup {n}]
    /\ UNCHANGED <<vars, kind, parkedOn, used, calls, exceptVars, runVars, requestVars, posts, watchers,
                   eventVars, shipVars>>

\* One post for all newly claimed recipients of an item, tried once.
DeliveryPosts(i) ==
    /\ {n \in delivery.ready : n[1] = i} # {} /\ \A n \in delivery.due : n[1] # i
    /\ posts' = [posts EXCEPT ![i] = [r \in Recipients |->
                    @[r] + IF <<i, r>> \in delivery.ready THEN 1 ELSE 0]]
    /\ delivery' = [delivery EXCEPT !.ready = {}]
    /\ UNCHANGED <<vars, kind, parkedOn, used, calls, exceptVars, runVars, requestVars, told, watchers,
                   eventVars, shipVars>>

\* A delivery raises: it ends with what it had not claimed, and not posted.
DeliveryFails ==
    /\ Delivering /\ Mishap
    /\ delivery' = NoDelivery
    /\ dropped' = dropped \cup {<<n[1], "end">> : n \in delivery.due}
    /\ UNCHANGED <<vars, kind, parkedOn, used, calls, returned, runVars, requestVars, told, posts,
                   watchers,
                   eventVars, shipVars>>

HandlerStep(i) ==
    EventReads(i) \/ EventLists(i) \/ EventCloses(i) \/ EventDelivers(i) \/ EventFails(i)
DeliveryStep ==
    \/ \E n \in Notices : DeliveryClaims(n)
    \/ \E i \in Items : DeliveryPosts(i)
    \/ DeliveryFails

-----------------------------------------------------------------------------
(* The process: stop, the end of the process, the next start. *)

\* stop(): runs are cancelled and waited for; a stopping runner starts nothing.
ShipStops ==
    /\ mode = "up" /\ crashes < MaxCrashes
    /\ mode' = "stopping" /\ recover' = "off"
    /\ run' = [i \in Items |-> Idle] /\ restart' = {}
    /\ UNCHANGED <<vars, kind, parkedOn, used, calls, exceptVars, starting, requestVars, noticeVars,
                   eventVars, crashes, settledBefore>>

\* The process ends, at any moment: everything in memory is gone.  A recover()
\* that raises ends the start, and the process with it.
ShipEnds ==
    /\ Up /\ crashes < MaxCrashes
    /\ mode' = "down" /\ crashes' = crashes + 1 /\ recover' = "off"
    /\ run' = [i \in Items |-> Idle] /\ restart' = {}
    /\ starting' = [i \in Items |-> 0] /\ events' = [i \in Items |-> 0]
    /\ handler' = [i \in Items |-> NoEvent] /\ delivery' = NoDelivery
    /\ deciding' = [q \in Requests |-> [d \in Deciders |-> "idle"]]
    /\ capEvents' = [e \in Requests \X Verdicts |-> 0]
    /\ settledBefore' = {q \in Requests : Settled(q)} /\ dropped' = {}
    /\ UNCHANGED <<vars, kind, parkedOn, used, calls, returned, mishaps, rstate, ritem, ragent,
                   granted, told, posts, watchers>>

\* The runner is wired to the store's events, then recover() is called.
ShipStarts ==
    /\ mode = "down"
    /\ mode' = "up" /\ recover' = "list"
    /\ UNCHANGED <<vars, kind, parkedOn, used, calls, exceptVars, runVars, requestVars, noticeVars,
                   eventVars, crashes, settledBefore>>

\* A slip: recover() sends no notices.
RecoverStartsOnly ==
    /\ recover = "list" /\ recover' = "off"
    /\ LET left == {i \in Items : /\ status[i] \notin Terminal \cup {"absent", "blocked"}
                                  /\ assignee[i] # None} IN
       /\ run' = [i \in Items |-> IF i \in left /\ run[i].pc = "idle" THEN Begun ELSE run[i]]
       /\ restart' = restart \cup {i \in left : run[i].pc # "idle"}
    /\ UNCHANGED <<vars, kind, parkedOn, used, calls, exceptVars, starting, requestVars, noticeVars,
                   eventVars, mode, crashes, settledBefore>>

\* recover: open assigned items that are not parked are started; a start that
\* finds the item running is kept.
RecoverStarts ==
    /\ recover = "list" /\ recover' = "deliver"
    /\ LET left == {i \in Items : /\ status[i] \notin Terminal \cup {"absent", "blocked"}
                                  /\ assignee[i] # None} IN
       /\ run' = [i \in Items |-> IF i \in left /\ run[i].pc = "idle" THEN Begun ELSE run[i]]
       /\ restart' = restart \cup {i \in left : run[i].pc # "idle"}
    /\ UNCHANGED <<vars, kind, parkedOn, used, calls, exceptVars, starting, requestVars, noticeVars,
                   eventVars, mode, crashes, settledBefore>>

RecoverDelivers ==
    /\ recover = "deliver" /\ recover' = "off"
    /\ Deliver
    /\ UNCHANGED <<vars, kind, parkedOn, used, calls, exceptVars, runVars, requestVars, eventVars,
                   mode, crashes, settledBefore>>

RecoverStep == RecoverStarts \/ RecoverDelivers

-----------------------------------------------------------------------------
Others ==
    \/ \E i \in Items, k \in Kinds, a \in Resources \cup {None} : AgentCreates(i, k, a)
    \/ \E i \in Items, a \in Resources, b \in Bookings, viaRunner \in BOOLEAN :
          AgentClaims(i, a, b, viaRunner)
    \/ \E i \in Items : Cancelled(i)
    \/ \E i \in Items, w \in Recipients : WatcherAdded(i, w)
    \/ \E q \in Requests, d \in Deciders : DecisionStep(q, d)
    \/ ShipStops \/ ShipEnds

WorkNext ==
    \/ Others
    \/ \E q \in Requests, v \in Verdicts : CapabilityEvent(q, v) \/ CapabilityEventFails(q, v)
    \/ \E i \in Items : Starts(i) \/ StartFails(i) \/ RunStep(i) \/ HandlerStep(i)
    \/ DeliveryStep \/ ShipStarts \/ RecoverStep

WorkSpec == WorkInit /\ [][WorkNext]_allVars

-----------------------------------------------------------------------------
(* deliver_due_notices' promise: a notice is sent at most once to each     *)
(* recipient, whatever overlaps, fails or restarts.                        *)
ToldOnce == \A i \in Items, r \in Recipients : posts[i][r] <= 1

(* BF-947: an approval is one call.  The call it covers is made at most    *)
(* once, and only when the request had been fulfilled, also when the       *)
(* process ends between the claim of its use and the call, when the item   *)
(* runs again, and when overlapping decisions write the request twice: a   *)
(* second fulfilment is no second call.                                    *)
ApprovedCallOnce ==
    \A q \in Requests : calls[q] <= 1 /\ (calls[q] = 1 => q \in granted)

(* A call an agent filed is never passed over: an item its runner brought  *)
(* to done has no call of its assignee that was never fulfilled (a second  *)
(* decision, overlapping the first, may deny one later).                   *)
DoneHasAllCalls ==
    \A i \in Items : status[i] = "done" => Linked(i, assignee[i]) \subseteq granted

(* A1 (F2), BF-878: no wake-up is lost but to a logged exception.  While   *)
(* the runner is up and has recovered, a request under way is being run or *)
(* about to be, unless a run of it or its start raised in this life of the *)
(* process: the next start's recovery makes up for that.  An item returned *)
(* to the board while a run or the handling of its end was not done with   *)
(* it is excepted: those may close its next claimant's booking.            *)
NoLostWakeUp ==
    \A i \in Items \ returned :
        mode = "up" /\ recover # "list" /\ kind[i] = "request"
        /\ status[i] \in {"scheduled", "in_progress"}
            => run[i].pc # "idle" \/ starting[i] > 0 \/ <<i, "run">> \in dropped

(* BF-878: an item parked on a request that settled in this life of the    *)
(* process is about to be resumed or cancelled: an event of the request is *)
(* on its way or the run that parked the item has still to look, unless    *)
(* one of the two raised (then "it needs a manual transition").            *)
NoForgottenPark ==
    \A i \in Items :
        LET q == parkedOn[i] IN
        mode = "up" /\ status[i] = "blocked" /\ Settled(q) /\ q \notin settledBefore
            => \/ \E v \in Verdicts : capEvents[<<q, v>>] > 0
               \/ run[i].pc = "settle" /\ run[i].req = q
               \/ <<i, "park">> \in dropped

(* No end goes unreported but to a logged exception: while an ended item's *)
(* requester has no claimed notice, its event, its handler or a delivery   *)
(* that names it is on its way, or recover() has still to deliver.  A      *)
(* crash at any point between the end and the claim changes nothing, and   *)
(* the next start sends what an exception dropped.                         *)
NoLostReport ==
    \A i \in Items :
        mode = "up" /\ recover = "off" /\ Ended(i) /\ Requester \notin told[i]
            => \/ events[i] > 0 \/ handler[i].pc # "idle"
               \/ <<i, Requester>> \in delivery.due
               \/ <<i, "end">> \in dropped

(* A finished item's live booking is freed: the handling of its end has    *)
(* still to close it, whatever became of the run that ended it, unless     *)
(* that handling raised or the process ended since, when nobody will.      *)
NoLostBooking ==
    \A i \in Items \ returned :
        mode = "up" /\ Ended(i) /\ LiveOn(i) # {} /\ crashes = 0
            => \/ events[i] > 0 \/ handler[i].pc \in {"bookings", "close"}
               \/ <<i, "end">> \in dropped

(* An ended item is reopened only by giving it back to the board: by a     *)
(* run whose claimant may not run it any more, or by the Captain.          *)
EndIsKept ==
    [][\A i \in Items :
          Ended(i) /\ ~Ended(i)' => status'[i] = "open" /\ i \in returned']_allVars

=============================================================================
