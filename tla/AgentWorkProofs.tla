-------------------------- MODULE AgentWorkProofs --------------------------
(***************************************************************************)
(* Proofs about the runner of agent work, for any items, agents, bookings, *)
(* requests, overlapping decisions, recipients, exceptions and crashes.    *)
(*                                                                         *)
(* The runner is a client of the work board: each of its steps is a step   *)
(* of WorkBoard or leaves the board alone, so what is proved of the board  *)
(* holds under it.  What is proved here on top of it needs to know, at     *)
(* every await of a run, what may have changed since: the invariant says   *)
(* what a run, a handler and a delivery at each pc may still rely on.      *)
(***************************************************************************)
EXTENDS AgentWork, WorkBoardProofs

(* A request that was filed is about an item; only such a request is       *)
(* decided and announced; one that is fulfilled was granted.               *)
RequestsAreFiled ==
    \A q \in Requests :
        /\ rstate[q] # "absent" => ritem[q] \in Items
        /\ \A v \in Verdicts : capEvents[<<q, v>>] > 0 => rstate[q] # "absent"
        /\ \A d \in Deciders : deciding[q][d] # "idle" => rstate[q] # "absent"
        /\ rstate[q] = "fulfilled" => q \in granted

(* q was filed on i. *)
FiledOn(q, i) == q \in Requests /\ rstate[q] # "absent" /\ ritem[q] = i

(* The requests and bookings a run or a parked item refers to exist and    *)
(* are about the item. *)
RunsAreSound ==
    \A i \in Items :
        /\ run[i].pc = "start" =>
              /\ run[i].book \in Bookings
              /\ bitem[run[i].book] = i /\ bstate[run[i].book] # "absent"
        /\ run[i].pc \in {"park", "settle", "call"} => FiledOn(run[i].req, i)
        /\ run[i].filed # 0 => FiledOn(run[i].filed, i)
        /\ run[i].pc = "settle" => parkedOn[i] = run[i].req
        /\ status[i] = "blocked" => parkedOn[i] # 0
        /\ parkedOn[i] # 0 => FiledOn(parkedOn[i], i)
        /\ \A q \in run[i].use : FiledOn(q, i) /\ q \in granted

(* The runner files nothing but tasks. *)
OnlyTasks == \A i \in Items : workType[i] = "task"

(* When the runner is not up no item runs, and only recover() of a runner  *)
(* that is up has something to do; what settled before an end is known.    *)
DownMeansIdle ==
    /\ mode # "up" => \A i \in Items : run[i].pc = "idle"
    /\ recover # "off" => mode = "up"
    /\ mode = "down" => /\ crashes > 0
                        /\ \A q \in Requests : Settled(q) => q \in settledBefore

(* An item that does not exist, or that a run has not read yet, may be     *)
(* nobody's; one that is under way or that a run holds is somebody's, and  *)
(* stays the one's the run has read. *)
HeldItems ==
    \A i \in Items :
        /\ status[i] = "absent" => assignee[i] = None
        /\ status[i] \in {"scheduled", "in_progress", "blocked"} => assignee[i] # None
        /\ run[i].pc \notin {"idle", "read"} => assignee[i] # None
        /\ run[i].pc \in {"list", "start", "move", "link", "work", "call"}
              => run[i].slot = assignee[i]

(* What the item of a run may be at each pc: where the run left it, or     *)
(* ended by somebody else; never done, which only its own run makes it.    *)
EndedByOthers == {"cancelled", "failed"}
RunStatus ==
    \A i \in Items :
        /\ run[i].pc \in {"list", "start"} => status[i] = "scheduled"
        /\ run[i].pc = "move" => status[i] \in {"open"} \cup EndedByOthers
        /\ run[i].pc \in {"link", "deny", "park", "work", "call", "record"}
              => status[i] \in {"in_progress"} \cup EndedByOthers
        /\ run[i].pc = "settle" => status[i] \in {"blocked", "in_progress"} \cup EndedByOthers
        /\ run[i].pc = "release"
              => status[i] \in {"open", "scheduled", "in_progress"} \cup EndedByOthers
        /\ run[i].pc = "settle" /\ status[i] = "in_progress"
              => starting[i] > 0 \/ i \in restart \/ <<i, "run">> \in dropped

(* A scheduled booking is of a scheduled item.  A scheduled item has its   *)
(* booking, and a booking about to be started is still scheduled, unless   *)
(* the item was returned ended: a closing begun before may still cancel.   *)
BookedItems ==
    /\ \A b \in Bookings : bstate[b] = "scheduled" => status[bitem[b]] = "scheduled"
    /\ \A i \in Items \ returned :
          /\ status[i] = "scheduled"
                => \E b \in Bookings : bstate[b] = "scheduled" /\ bitem[b] = i
          /\ run[i].pc = "start" => bstate[run[i].book] = "scheduled"

(* A run or a handler closes bookings of its own item. *)
TodosOwned ==
    \A i \in Items :
        /\ run[i].pc = "close"
              => \A b \in run[i].todo : bitem[b] = i /\ bstate[b] # "absent"
        /\ handler[i].pc = "close"
              => \A b \in handler[i].todo : bitem[b] = i /\ bstate[b] # "absent"

(* Bookings are closed of ended items, and all that are live are listed.   *)
ClosingEnded ==
    \A i \in Items \ returned :
        /\ run[i].pc = "close" => Ended(i) /\ LiveOn(i) \subseteq run[i].todo
        /\ handler[i].pc \in {"bookings", "close"} => Ended(i)
        /\ handler[i].pc = "close" => LiveOn(i) \subseteq handler[i].todo

(* A run at work has seen every call of its assignee granted, or filed     *)
(* the others itself; one that records filed none.                         *)
CallsSeen ==
    \A i \in Items :
        /\ run[i].pc \in {"work", "call"} /\ run[i].filed = 0
              => Linked(i, assignee[i]) \subseteq granted
        /\ run[i].pc = "record" => Linked(i, assignee[i]) \subseteq granted

(* The use of an approval is claimed before its call, by one run.          *)
UsesClaimed ==
    /\ used \subseteq granted
    /\ \A q \in Requests : calls[q] <= 1 /\ (calls[q] = 1 => q \in used)
    /\ \A i \in Items : run[i].pc = "call" => run[i].req \in used /\ calls[run[i].req] = 0

(* A notice is claimed before it is posted, and posted once.               *)
NoticesClaimed ==
    /\ \A n \in delivery.ready : n[2] \in told[n[1]] /\ posts[n[1]][n[2]] = 0
    /\ \A i \in Items, r \in Recipients :
          posts[i][r] <= 1 /\ (posts[i][r] = 1 => r \in told[i])

(* The inductive invariant. *)
WorkInv ==
    /\ BoardInv /\ WorkTypeOK
    /\ RequestsAreFiled /\ RunsAreSound /\ OnlyTasks /\ DownMeansIdle
    /\ HeldItems /\ RunStatus /\ BookedItems /\ TodosOwned /\ ClosingEnded
    /\ CallsSeen /\ UsesClaimed /\ NoticesClaimed
    /\ DoneHasAllCalls /\ NoLostWakeUp /\ NoForgottenPark /\ NoLostReport /\ NoLostBooking

-----------------------------------------------------------------------------
(* Records of runs. *)

(* A set of one element has one. *)
LEMMA OneIsNotNone ==
    ASSUME NEW S, Cardinality(S) = 1
    PROVE  S # {}
  BY FS_EmptySet

(* What a run's record becomes at a step is such a record. *)
LEMMA RunTyped ==
    /\ Idle \in Run /\ Begun \in Run
    /\ \A pc \in RunPc : Only(pc) \in Run
    /\ \A r \in Run, pc \in RunPc : [r EXCEPT !.pc = pc] \in Run
  BY DEF Idle, Begun, Only, Run, RunPc

-----------------------------------------------------------------------------
(* The runner is a client of the board. *)

(* Closing a booking is an operation of the board, or nothing. *)
LEMMA CloseIsBoardStep ==
    ASSUME NEW b \in Bookings, NEW completed, CloseBooking(b, completed)
    PROVE  [Next]_vars
  BY WorkAssumption DEF CloseBooking, Next, BookingStep

(* So is moving an item. *)
LEMMA MoveIsBoardStep ==
    ASSUME NEW i \in Items, NEW s \in ItemStatus, Move(i, s)
    PROVE  [Next]_vars
  BY DEF Move, Next, ItemStep

(* Every step of the runner's world is a step of the board or leaves the   *)
(* What no step of a decision writes. *)
LEMMA DecisionLeaves ==
    ASSUME NEW q, NEW d, DecisionStep(q, d)
    PROVE  UNCHANGED <<vars, kind, parkedOn, used, calls, returned, dropped, runVars, ritem, ragent,
                       noticeVars, eventVars, shipVars>>
  BY DEF DecisionStep, DecisionBegins, Approve, MarkFulfilled, Deny, Settle, DecisionFails, exceptVars

(* board alone. *)
LEMMA WorkIsBoardStep ==
    ASSUME WorkTypeOK, RequestsAreFiled, RunsAreSound, [WorkNext]_allVars
    PROVE  [Next]_vars
  <1>1. ASSUME NEW i \in Items, NEW k \in Kinds, NEW a \in Resources \cup {None},
               AgentCreates(i, k, a)
        PROVE  [Next]_vars
    <2>1. InitialStatus["task"] = "open"
      BY DEF InitialStatus, BuiltinTypes
    <2> QED
      BY <1>1, <2>1, WorkAssumption DEF AgentCreates, Next, ItemStep
  <1>2. ASSUME NEW i \in Items, NEW a \in Resources, NEW b \in Bookings, NEW v \in BOOLEAN,
               AgentClaims(i, a, b, v)
        PROVE  [Next]_vars
    BY <1>2 DEF AgentClaims, Next, AssignStep
  <1>3. ASSUME NEW i \in Items, Cancelled(i)
        PROVE  [Next]_vars
    BY <1>3, MoveIsBoardStep DEF Cancelled, ItemStatus
  <1>4. ASSUME NEW q \in Requests, NEW v \in Verdicts, CapabilityEvent(q, v)
        PROVE  [Next]_vars
    <2>1. ritem[q] \in Items
      BY <1>4 DEF CapabilityEvent, RequestsAreFiled
    <2>2. \/ UNCHANGED vars
          \/ Move(ritem[q], "in_progress")
          \/ Move(ritem[q], "cancelled")
      BY <1>4 DEF CapabilityEvent, Kept
    <2> QED
      BY <2>1, <2>2, MoveIsBoardStep DEF ItemStatus
  <1>5. ASSUME NEW i \in Items, RunStep(i)
        PROVE  [Next]_vars
    <2>1. ASSUME RunStartsBooking(i)
          PROVE  [Next]_vars
      BY <2>1 DEF RunStartsBooking, RunsAreSound, Kept, Next, BookingStep
    <2>2. ASSUME RunReleases(i)
          PROVE  [Next]_vars
      BY <2>2 DEF RunReleases, Next, ItemStep
    <2>3. ASSUME RunCloses(i)
          PROVE  [Next]_vars
      <3>1. run[i].todo \in SUBSET Bookings
        BY DEF WorkTypeOK, Run
      <3> QED
        BY <2>3, <3>1, CloseIsBoardStep DEF RunCloses
    <2>4. ASSUME RunMoves(i) \/ RunDenied(i) \/ RunParks(i) \/ RunSettles(i) \/ RunRecords(i)
                     \/ RunFails(i)
          PROVE  [Next]_vars
      <3>1. UNCHANGED vars \/ \E s \in ItemStatus : Move(i, s)
        BY <2>4 DEF RunMoves, RunDenied, RunParks, RunSettles, RunRecords, RunFails, Kept, ItemStatus
      <3> QED
        BY <3>1, MoveIsBoardStep
    <2>5. ASSUME \/ RunReads(i) \/ RunListsBooking(i) \/ RunLinks(i) \/ RunCalls(i)
                 \/ \E q \in Requests : RunClaimsUse(i, q) \/ RunFiles(i, q)
                 \/ \E answered \in BOOLEAN : RunReturns(i, answered)
          PROVE  UNCHANGED vars
      BY <2>5 DEF RunReads, RunListsBooking, RunLinks, RunCalls, RunClaimsUse, RunFiles,
                  RunReturns, Kept
    <2> QED
      BY <1>5, <2>1, <2>2, <2>3, <2>4, <2>5 DEF RunStep
  <1>6. ASSUME NEW i \in Items, EventCloses(i)
        PROVE  [Next]_vars
    <2>1. handler[i].todo \in SUBSET Bookings
      BY DEF WorkTypeOK, Handler
    <2> QED
      BY <1>6, <2>1, CloseIsBoardStep DEF EventCloses
  <1>7. ASSUME \/ \E i \in Items, w \in Recipients : WatcherAdded(i, w)
               \/ \E q \in Requests, d \in Deciders : DecisionStep(q, d)
               \/ \E q \in Requests, e \in Verdicts : CapabilityEventFails(q, e)
               \/ ShipStops \/ ShipEnds \/ ShipStarts \/ RecoverStep \/ DeliveryStep
               \/ \E i \in Items : Starts(i) \/ StartFails(i) \/ EventReads(i)
                                  \/ EventLists(i) \/ EventDelivers(i)
                                   \/ EventFails(i)
        PROVE  UNCHANGED vars
    BY <1>7, DecisionLeaves DEF WatcherAdded, CapabilityEventFails, ShipStops, ShipEnds, ShipStarts,
        RecoverStep, RecoverStarts, RecoverDelivers, DeliveryStep, DeliveryFails, DeliveryClaims,
        DeliveryPosts, Starts, StartFails, EventReads, EventFails, EventLists, EventDelivers
  <1>8. ASSUME UNCHANGED allVars
        PROVE  UNCHANGED vars
    BY <1>8 DEF allVars
  <1> QED
    BY <1>1, <1>2, <1>3, <1>4, <1>5, <1>6, <1>7, <1>8 DEF WorkNext, Others, HandlerStep

-----------------------------------------------------------------------------
(* Types. *)

(* What a run becomes at each of its steps is a run, or it ends. *)
LEMMA RunRecordStep ==
    ASSUME WorkTypeOK, RunsAreSound, NEW i \in Items, RunStep(i)
    PROVE  Leave(i) \/ \E r \in Run : GoTo(i, r)
  <1> USE DEF WorkTypeOK, TypeOK
  <1>1. run[i] \in Run /\ assignee[i] \in Resources \cup {None}
    OBVIOUS
  <1>2. \A pc \in RunPc : Only(pc) \in Run /\ [run[i] EXCEPT !.pc = pc] \in Run
    BY <1>1, RunTyped
  <1>3. ASSUME NEW r \in Run, Proceeds(i, r)
        PROVE  Leave(i) \/ \E s \in Run : GoTo(i, s)
    <2>1. Linked(i, r.slot) \in SUBSET Requests
      BY DEF Linked
    <2>2. [r EXCEPT !.pc = "work", !.use = Linked(i, r.slot)] \in Run
      BY <2>1 DEF Run, RunPc
    <2>3. \A q \in Requests : [Only("park") EXCEPT !.req = q] \in Run
      BY DEF Only, Idle, Run, RunPc
    <2> QED
      BY <1>2, <1>3, <2>2, <2>3 DEF Proceeds, Refused, RunPc
  <1>4. CASE RunReads(i)
    <2>1. [run[i] EXCEPT !.slot = assignee[i]] \in Run
      BY <1>1 DEF Run
    <2>2. \A pc \in RunPc : [[run[i] EXCEPT !.slot = assignee[i]] EXCEPT !.pc = pc] \in Run
      BY <2>1, RunTyped
    <2> QED
      BY <1>2, <1>3, <1>4, <2>1, <2>2 DEF RunReads, Refused, RunPc
  <1>5. CASE RunListsBooking(i)
    <2> DEFINE mine == {b \in Bookings : bitem[b] = i /\ bstate[b] = "scheduled"
                                          /\ bres[b] = run[i].slot}
    <2>1. CASE Cardinality(mine) = 1
      <3>1. mine # {}
        BY <2>1, OneIsNotNone
      <3>2. (CHOOSE b \in mine : TRUE) \in Bookings
        BY <3>1
      <3>3. \A b \in Bookings : [run[i] EXCEPT !.pc = "start", !.book = b] \in Run
        BY <1>1 DEF Run, RunPc
      <3> QED
        BY <1>5, <2>1, <3>2, <3>3 DEF RunListsBooking
    <2> QED
      BY <1>5, <2>1 DEF RunListsBooking
  <1>6. CASE RunStartsBooking(i)
    <2>1. [run[i] EXCEPT !.pc = "link", !.book = None] \in Run
      BY <1>1 DEF Run, RunPc
    <2> QED
      BY <1>6, <2>1 DEF RunStartsBooking
  <1>7. CASE RunMoves(i) \/ RunParks(i)
    BY <1>2, <1>7 DEF RunMoves, RunParks, Step, RunPc
  <1>8. CASE RunLinks(i)
    BY <1>1, <1>3, <1>8 DEF RunLinks
  <1>9. ASSUME NEW c \in BOOLEAN, Closes(i, c)
        PROVE  Leave(i) \/ \E r \in Run : GoTo(i, r)
    <2>1. [Only("close") EXCEPT !.fin = c, !.todo = LiveOn(i)] \in Run
      BY DEF Only, Idle, Run, RunPc, LiveOn
    <2> QED
      BY <1>9, <2>1 DEF Closes
  <1>10. CASE RunDenied(i) \/ RunFails(i)
    BY <1>9, <1>10 DEF RunDenied, RunFails
  <1>11. CASE RunRecords(i)
    <2>1. run[i].fin \in BOOLEAN
      BY <1>1 DEF Run
    <2>2. Closes(i, Moves(i, "in_progress", IF run[i].fin THEN "done" ELSE "failed") /\ run[i].fin)
      BY <1>11 DEF RunRecords
    <2> QED
      BY <1>9, <2>2
  <1>12. CASE RunSettles(i)
    BY <1>12, RunTyped DEF RunSettles
  <1>13. CASE RunCalls(i)
    <2>1. [run[i] EXCEPT !.pc = "work", !.req = 0] \in Run
      BY <1>1 DEF Run, RunPc
    <2> QED
      BY <1>13, <2>1 DEF RunCalls
  <1>14. CASE RunReleases(i)
    BY <1>14 DEF RunReleases
  <1>15. CASE RunCloses(i)
    <2>1. \A b \in Bookings : [run[i] EXCEPT !.todo = @ \ {b}] \in Run
      BY <1>1 DEF Run
    <2>2. run[i].todo \in SUBSET Bookings
      BY <1>1 DEF Run
    <2> QED
      BY <1>15, <2>1, <2>2 DEF RunCloses
  <1>16. ASSUME NEW q \in Requests, RunClaimsUse(i, q)
         PROVE  \E r \in Run : GoTo(i, r)
    <2>1. [run[i] EXCEPT !.pc = "call", !.req = q] \in Run
      BY <1>1 DEF Run, RunPc
    <2> QED
      BY <1>16, <2>1 DEF RunClaimsUse
  <1>17. ASSUME NEW q \in Requests, RunFiles(i, q)
         PROVE  \E r \in Run : GoTo(i, r)
    <2>1. [run[i] EXCEPT !.filed = IF @ = 0 THEN q ELSE @] \in Run
      BY <1>1 DEF Run
    <2> QED
      BY <1>17, <2>1 DEF RunFiles
  <1>18. ASSUME NEW c \in BOOLEAN, RunReturns(i, c)
         PROVE  \E r \in Run : GoTo(i, r)
    <2>1. [Only("record") EXCEPT !.fin = c] \in Run
      BY DEF Only, Idle, Run, RunPc
    <2>2. run[i].filed # 0 => [Only("park") EXCEPT !.req = run[i].filed] \in Run
      BY <1>1 DEF Only, Idle, Run, RunPc
    <2> QED
      BY <1>2, <1>18, <2>1, <2>2 DEF RunReturns, RunPc
  <1> QED
    BY <1>4, <1>5, <1>6, <1>7, <1>8, <1>10, <1>11, <1>12, <1>13, <1>14, <1>15, <1>16, <1>17, <1>18
       DEF RunStep

(* So every step keeps the runs typed. *)
LEMMA RunTypeStep ==
    ASSUME WorkTypeOK, RequestsAreFiled, RunsAreSound, [WorkNext]_allVars
    PROVE  run' \in [Items -> Run] /\ restart' \subseteq Items
  <1> USE WorkAssumption DEF WorkTypeOK
  <1>1. ASSUME NEW i \in Items, NEW r \in Run, GoTo(i, r) \/ Leave(i)
        PROVE  run' \in [Items -> Run] /\ restart' \subseteq Items
    <2>1. CASE GoTo(i, r)
      BY <2>1 DEF GoTo
    <2>2. CASE Leave(i)
      BY <2>2, RunTyped DEF Leave
    <2> QED
      BY <1>1, <2>1, <2>2
  <1>2. ASSUME NEW i \in Items, Start(i)
        PROVE  run' \in [Items -> Run] /\ restart' \subseteq Items
    BY <1>2, RunTyped DEF GoTo, Start
  <1>3. ASSUME NEW i \in Items, RunStep(i)
        PROVE  run' \in [Items -> Run] /\ restart' \subseteq Items
    BY <1>1, <1>3, RunRecordStep, RunTyped
  <1>4. ASSUME NEW i \in Items, NEW a \in Resources, NEW b \in Bookings, NEW v \in BOOLEAN,
               AgentClaims(i, a, b, v)
        PROVE  run' \in [Items -> Run] /\ restart' \subseteq Items
    BY <1>2, <1>4 DEF AgentClaims
  <1>5. ASSUME NEW i \in Items, Starts(i)
        PROVE  run' \in [Items -> Run] /\ restart' \subseteq Items
    BY <1>2, <1>5 DEF Starts
  <1>6. CASE ShipStops \/ ShipEnds
    BY <1>6, RunTyped DEF ShipStops, ShipEnds
  <1>7. CASE RecoverStarts
    BY <1>7, RunTyped DEF RecoverStarts
  <1>8. ASSUME \/ \E i \in Items, k \in Kinds, a \in Resources \cup {None} : AgentCreates(i, k, a)
               \/ \E i \in Items : Cancelled(i)
               \/ \E i \in Items, w \in Recipients : WatcherAdded(i, w)
               \/ \E q \in Requests, d \in Deciders : DecisionStep(q, d)
               \/ \E q \in Requests, e \in Verdicts : CapabilityEvent(q, e) \/ CapabilityEventFails(q, e)
               \/ \E i \in Items : HandlerStep(i) \/ StartFails(i)
               \/ DeliveryStep \/ ShipStarts \/ RecoverDelivers \/ UNCHANGED allVars
        PROVE  UNCHANGED <<run, restart>>
    BY <1>8, DecisionLeaves DEF StartFails, AgentCreates, Cancelled, WatcherAdded, CapabilityEvent,
        CapabilityEventFails, HandlerStep, EventFails, EventReads, EventLists, EventCloses,
        EventDelivers, DeliveryStep, DeliveryFails, DeliveryClaims, DeliveryPosts, ShipStarts,
        RecoverDelivers, runVars, allVars, workVars
  <1> QED
    BY <1>3, <1>4, <1>5, <1>6, <1>7, <1>8 DEF WorkNext, Others, RecoverStep

(* The types of the other variables. *)
RestTypeOK ==
    /\ kind \in [Items -> {"self", "request"}]
    /\ parkedOn \in [Items -> Requests \cup {0}]
    /\ rstate \in [Requests -> RequestState]
    /\ ritem \in [Requests -> Items \cup {None}]
    /\ ragent \in [Requests -> Resources \cup {None}]
    /\ deciding \in [Requests -> [Deciders -> Decision]]
    /\ capEvents \in [Requests \X Verdicts -> Nat]
    /\ used \subseteq Requests /\ granted \subseteq Requests
    /\ settledBefore \subseteq Requests
    /\ returned \subseteq Items /\ dropped \subseteq Items \X Losses /\ mishaps \in 0..MaxMishaps
    /\ told \in [Items -> SUBSET Recipients] /\ watchers \in [Items -> SUBSET Recipients]
    /\ mode \in {"up", "stopping", "down"} /\ crashes \in 0..MaxCrashes
    /\ recover \in {"off", "list", "deliver"}
    /\ starting \in [Items -> Nat]
    /\ events \in [Items -> Nat] /\ handler \in [Items -> Handler]
    /\ delivery \in [due : SUBSET Notices, ready : SUBSET Notices]
    /\ calls \in [Requests -> Nat] /\ posts \in [Items -> [Recipients -> Nat]]

LEMMA RestTypeStep ==
    ASSUME WorkTypeOK, RequestsAreFiled, RunsAreSound, [WorkNext]_allVars
    PROVE  RestTypeOK'
  <1> USE WorkAssumption DEF WorkTypeOK, RestTypeOK, runVars, requestVars, noticeVars, eventVars,
                             shipVars, exceptVars
  <1>0. /\ Mishap => mishaps' \in 0..MaxMishaps
        /\ \A i \in Items, loss \in Losses : Drops(i, loss) =>
              mishaps' \in 0..MaxMishaps /\ dropped' \subseteq Items \X Losses
    BY DEF Mishap, Drops
  <1>1. ASSUME NEW i \in Items, NEW s, Move(i, s)
        PROVE  events' \in [Items -> Nat]
    BY <1>1 DEF Move
  <1>2. ASSUME NEW i \in Items, NEW k \in Kinds, NEW a \in Resources \cup {None},
               AgentCreates(i, k, a)
        PROVE  RestTypeOK'
    BY <1>2 DEF AgentCreates
  <1>3. ASSUME NEW i \in Items, NEW a \in Resources, NEW b \in Bookings, NEW v \in BOOLEAN,
               AgentClaims(i, a, b, v)
        PROVE  RestTypeOK'
    BY <1>3 DEF AgentClaims
  <1>4. ASSUME NEW i \in Items, Cancelled(i)
        PROVE  RestTypeOK'
    BY <1>1, <1>4 DEF Cancelled
  <1>5. ASSUME NEW i \in Items, NEW w \in Recipients, WatcherAdded(i, w)
        PROVE  RestTypeOK'
    BY <1>5 DEF WatcherAdded
  <1>6. ASSUME NEW q \in Requests, NEW d \in Deciders, DecisionStep(q, d)
        PROVE  RestTypeOK'
    <2>1. ASSUME NEW v \in Decision
          PROVE  [deciding EXCEPT ![q][d] = v] \in [Requests -> [Deciders -> Decision]]
      OBVIOUS
    <2>2. ASSUME NEW v \in Decision, DecisionBegins(q, d, v)
          PROVE  RestTypeOK'
      BY <1>0, <2>1, <2>2 DEF DecisionBegins
    <2>3. CASE Approve(q, d)
      BY <2>1, <2>3 DEF Approve, RequestState, Decision
    <2>4. ASSUME NEW v \in Verdicts, Settle(q, d, v)
          PROVE  RestTypeOK'
      <3>1. capEvents' \in [Requests \X Verdicts -> Nat]
        <4>1. <<q, v>> \in Requests \X Verdicts /\ capEvents[<<q, v>>] + 1 \in Nat
          OBVIOUS
        <4> QED
          BY <2>4, <4>1 DEF Settle
      <3>2. rstate' \in [Requests -> RequestState] /\ granted' \subseteq Requests
        BY <2>4 DEF Settle, RequestState, Verdicts
      <3> QED
        BY <2>1, <2>4, <3>1, <3>2 DEF Settle, Decision
    <2>5. CASE DecisionFails(q, d)
      BY <1>0, <2>1, <2>5 DEF DecisionFails, Decision
    <2> QED
      BY <1>6, <2>2, <2>3, <2>4, <2>5 DEF DecisionStep, Deny, MarkFulfilled, Verdicts
  <1>7. ASSUME NEW q \in Requests, NEW v \in Verdicts,
               CapabilityEvent(q, v) \/ CapabilityEventFails(q, v)
        PROVE  RestTypeOK'
    <2>1. ritem[q] \in Items /\ <<q, v>> \in Requests \X Verdicts /\ capEvents[<<q, v>>] > 0
      BY <1>7 DEF CapabilityEvent, CapabilityEventFails, RequestsAreFiled
    <2>2. capEvents' \in [Requests \X Verdicts -> Nat]
      <3>1. capEvents' = [capEvents EXCEPT ![<<q, v>>] = @ - 1]
        BY <1>7 DEF CapabilityEvent, CapabilityEventFails
      <3>2. capEvents[<<q, v>>] - 1 \in Nat
        BY <2>1
      <3> QED
        BY <2>1, <3>1, <3>2
    <2>3. CASE CapabilityEvent(q, v)
      <3>1. \/ UNCHANGED <<events, starting>>
            \/ UNCHANGED starting /\ Move(ritem[q], "cancelled")
            \/ /\ starting' = [starting EXCEPT ![ritem[q]] = @ + 1]
               /\ Move(ritem[q], "in_progress")
        BY <2>3 DEF CapabilityEvent, Kept
      <3>2. events' \in [Items -> Nat]
        BY <1>1, <2>1, <3>1
      <3>3. starting' \in [Items -> Nat]
        <4>1. starting[ritem[q]] + 1 \in Nat
          BY <2>1
        <4> QED
          BY <2>1, <3>1, <4>1
      <3> QED
        BY <2>2, <2>3, <3>2, <3>3 DEF CapabilityEvent
    <2>4. CASE CapabilityEventFails(q, v)
      BY <1>0, <2>1, <2>2, <2>4 DEF CapabilityEventFails, Losses
    <2> QED
      BY <1>7, <2>3, <2>4
  <1>8. ASSUME NEW i \in Items, Starts(i) \/ StartFails(i)
        PROVE  RestTypeOK'
    <2>1. starting' \in [Items -> Nat]
      BY <1>8 DEF Starts, StartFails
    <2>2. CASE Starts(i)
      BY <2>1, <2>2 DEF Starts
    <2>3. CASE StartFails(i)
      BY <1>0, <2>1, <2>3 DEF StartFails, Losses
    <2> QED
      BY <1>8, <2>2, <2>3
  <1>9. ASSUME NEW i \in Items, RunStep(i)
        PROVE  RestTypeOK'
    <2> USE DEF RunAdds, RunKeeps, NoCalls, NoRequests
    <2>1. run[i] \in Run
      OBVIOUS
    <2>2. ASSUME NEW q \in Requests, RunFiles(i, q)
          PROVE  RestTypeOK'
      <3>1. run[i].slot \in Resources \cup {None}
        BY <2>1 DEF Run
      <3> QED
        BY <2>2, <3>1 DEF RunFiles, RequestState, Kept
    <2>3. CASE RunParks(i)
      <3>1. run[i].req \in Requests \cup {0}
        BY <2>1 DEF Run
      <3>2. events' \in [Items -> Nat]
        BY <1>1, <2>3 DEF RunParks, Kept
      <3>3. parkedOn' \in [Items -> Requests \cup {0}]
        BY <2>3, <3>1 DEF RunParks
      <3> QED
        BY <2>3, <3>2, <3>3 DEF RunParks
    <2>4. CASE RunCalls(i)
      <3>1. calls' \in [Requests -> Nat]
        <4>1. run[i].req \in Requests
          BY <2>4 DEF RunCalls, RunsAreSound, FiledOn
        <4>2. calls[run[i].req] + 1 \in Nat
          BY <4>1
        <4> QED
          BY <2>4, <4>1, <4>2 DEF RunCalls
      <3> QED
        BY <2>4, <3>1 DEF RunCalls, Kept
    <2>5. CASE RunReleases(i)
      BY <2>5 DEF RunReleases
    <2>6. ASSUME NEW q \in Requests, RunClaimsUse(i, q)
          PROVE  RestTypeOK'
      BY <2>6 DEF RunClaimsUse, Kept
    <2>7. ASSUME \/ RunReads(i) \/ RunListsBooking(i) \/ RunStartsBooking(i) \/ RunMoves(i)
                 \/ RunLinks(i) \/ RunDenied(i) \/ RunSettles(i) \/ RunRecords(i)
                 \/ RunCloses(i) \/ \E c \in BOOLEAN : RunReturns(i, c)
          PROVE  RestTypeOK'
      <3>1. events' \in [Items -> Nat]
        BY <1>1, <2>7 DEF RunReads, RunListsBooking, RunStartsBooking, RunMoves, RunLinks, RunDenied,
                          RunSettles, RunRecords, RunCloses, RunReturns, Kept
      <3>2. UNCHANGED <<parkedOn, used, calls, exceptVars>> /\ RunAdds /\ NoRequests
        BY <2>7 DEF RunReads, RunListsBooking, RunStartsBooking, RunMoves, RunLinks, RunDenied,
                    RunSettles, RunRecords, RunCloses, RunReturns
      <3> QED
        BY <3>1, <3>2
    <2>8. CASE RunFails(i)
      <3>1. events' \in [Items -> Nat]
        BY <1>1, <2>8 DEF RunFails, Kept
      <3>2. mishaps' \in 0..MaxMishaps /\ dropped' \subseteq Items \X Losses
        BY <1>0, <2>8 DEF RunFails, Losses
      <3> QED
        BY <2>8, <3>1, <3>2 DEF RunFails
    <2> QED
      BY <1>9, <2>2, <2>3, <2>4, <2>5, <2>6, <2>7, <2>8 DEF RunStep
  <1>10. ASSUME NEW i \in Items, HandlerStep(i)
         PROVE  RestTypeOK'
    <2>1. handler[i] \in Handler /\ LiveOn(i) \in SUBSET Bookings
      BY DEF LiveOn
    <2>2. \A b : /\ NoEvent \in Handler /\ [NoEvent EXCEPT !.pc = "deliver"] \in Handler
                 /\ [handler[i] EXCEPT !.todo = @ \ {b}] \in Handler
                 /\ [handler[i] EXCEPT !.pc = "close", !.todo = LiveOn(i)] \in Handler
      BY <2>1 DEF NoEvent, Handler
    <2>3. \A c \in BOOLEAN : [pc |-> "bookings", fin |-> c, todo |-> {}] \in Handler
      BY DEF Handler
    <2>4. CASE EventReads(i)
      <3>1. events' \in [Items -> Nat]
        BY <2>4 DEF EventReads
      <3>2. handler' \in [Items -> Handler]
        BY <2>2, <2>3, <2>4 DEF EventReads
      <3> QED
        BY <2>4, <3>1, <3>2 DEF EventReads
    <2>5. CASE EventLists(i)
      BY <2>2, <2>5 DEF EventLists
    <2>6. CASE EventCloses(i)
      <3> DEFINE h(b) == IF handler[i].todo = {b} THEN [NoEvent EXCEPT !.pc = "deliver"]
                         ELSE [handler[i] EXCEPT !.todo = @ \ {b}]
      <3>1. \E b : handler' = [handler EXCEPT ![i] = h(b)]
        BY <2>6 DEF EventCloses
      <3>2. \A b : h(b) \in Handler
        BY <2>2
      <3>3. handler' \in [Items -> Handler]
        <4> HIDE DEF h
        <4> QED
          BY <3>1, <3>2
      <3> QED
        BY <2>6, <3>3 DEF EventCloses
    <2>7. CASE EventDelivers(i)
      BY <2>2, <2>7 DEF EventDelivers, Deliver, Due
    <2>8. CASE EventFails(i)
      <3>1. events' \in [Items -> Nat]
        <4>1. CASE UNCHANGED events
          BY <4>1
        <4>2. CASE events[i] > 0 /\ events' = [events EXCEPT ![i] = @ - 1]
          <5>1. events[i] - 1 \in Nat
            BY <4>2
          <5> QED
            BY <4>2, <5>1
        <4> QED
          BY <2>8, <4>1, <4>2 DEF EventFails
      <3> QED
        BY <1>0, <2>2, <2>8, <3>1 DEF EventFails, Losses
    <2> QED
      BY <1>10, <2>4, <2>5, <2>6, <2>7, <2>8 DEF HandlerStep
  <1>11. CASE DeliveryStep
    <2>1. ASSUME NEW n \in Notices, DeliveryClaims(n)
          PROVE  RestTypeOK'
      <3>1. n[1] \in Items /\ n[2] \in Recipients
        BY DEF Notices
      <3> QED
        BY <2>1, <3>1 DEF DeliveryClaims
    <2>2. ASSUME NEW i \in Items, DeliveryPosts(i)
          PROVE  RestTypeOK'
      <3>1. posts' \in [Items -> [Recipients -> Nat]]
        <4> DEFINE p == [r \in Recipients |-> posts[i][r] + IF <<i, r>> \in delivery.ready THEN 1 ELSE 0]
        <4>1. p \in [Recipients -> Nat]
          OBVIOUS
        <4>2. posts' = [posts EXCEPT ![i] = p]
          BY <2>2 DEF DeliveryPosts
        <4> HIDE DEF p
        <4> QED
          BY <4>1, <4>2
      <3>2. delivery' \in [due : SUBSET Notices, ready : SUBSET Notices]
        BY <2>2 DEF DeliveryPosts
      <3> QED
        BY <2>2, <3>1, <3>2 DEF DeliveryPosts
    <2>3. CASE DeliveryFails
      <3>1. dropped' \subseteq Items \X Losses
        <4>1. \A n \in delivery.due : <<n[1], "end">> \in Items \X Losses
          BY DEF Notices, Losses
        <4> QED
          BY <2>3, <4>1 DEF DeliveryFails
      <3>2. NoDelivery \in [due : SUBSET Notices, ready : SUBSET Notices]
        BY DEF NoDelivery
      <3> QED
        BY <1>0, <2>3, <3>1, <3>2 DEF DeliveryFails
    <2> QED
      BY <1>11, <2>1, <2>2, <2>3 DEF DeliveryStep
  <1>12. CASE ShipStops \/ ShipEnds \/ ShipStarts
    <2>1. CASE ShipStops
      BY <2>1 DEF ShipStops
    <2>2. CASE ShipEnds
      <3>1. NoEvent \in Handler /\ NoDelivery \in [due : SUBSET Notices, ready : SUBSET Notices]
        BY DEF NoEvent, Handler, NoDelivery
      <3>2. crashes + 1 \in 0..MaxCrashes
        BY <2>2 DEF ShipEnds
      <3>3. /\ [q \in Requests |-> [d \in Deciders |-> "idle"]] \in [Requests -> [Deciders -> Decision]]
            /\ [e \in Requests \X Verdicts |-> 0] \in [Requests \X Verdicts -> Nat]
        BY DEF Decision
      <3> QED
        BY <2>2, <3>1, <3>2, <3>3 DEF ShipEnds
    <2>3. CASE ShipStarts
      BY <2>3 DEF ShipStarts
    <2> QED
      BY <1>12, <2>1, <2>2, <2>3
  <1>13. CASE RecoverStep
    BY <1>13 DEF RecoverStep, RecoverStarts, RecoverDelivers, Deliver, Due
  <1>14. CASE UNCHANGED allVars
    BY <1>14 DEF allVars, workVars
  <1> HIDE DEF WorkTypeOK, RestTypeOK
  <1> QED
    BY <1>2, <1>3, <1>4, <1>5, <1>6, <1>7, <1>8, <1>9, <1>10, <1>11, <1>12, <1>13, <1>14
       DEF WorkNext, Others

(* Every step keeps the types. *)
LEMMA WorkTypeStep ==
    ASSUME BoardInv, WorkTypeOK, RequestsAreFiled, RunsAreSound, [WorkNext]_allVars
    PROVE  BoardInv' /\ WorkTypeOK'
  <1>1. TypeOK' /\ LiveBookingOwned' /\ OneLiveBooking'
    BY WorkIsBoardStep, TypeStep, OwnershipStep DEF BoardInv, LiveBookingOwned, BookingHasItem
  <1> QED
    BY <1>1, RunTypeStep, RestTypeStep DEF BoardInv, WorkTypeOK, RestTypeOK

-----------------------------------------------------------------------------
(* Requests. *)

(* The steps that write nothing of a request. *)
LEMMA RequestsLeftAlone ==
    ASSUME [WorkNext]_allVars,
           ~ \E q \in Requests, d \in Deciders : DecisionStep(q, d),
           ~ \E i \in Items, q \in Requests : RunFiles(i, q)
    PROVE  UNCHANGED <<rstate, ritem, ragent, deciding, granted>> \/ ShipEnds
  <1>1. ASSUME NEW i \in Items, RunStep(i)
        PROVE  UNCHANGED <<rstate, ritem, ragent, deciding, granted>>
    BY <1>1 DEF RunStep, RunReads, RunListsBooking, RunStartsBooking, RunMoves, RunLinks, RunDenied,
                RunParks, RunSettles, RunCalls, RunFails, RunReleases, RunRecords, RunCloses,
                RunClaimsUse, RunReturns, NoRequests, requestVars
  <1>2. ASSUME \/ \E i \in Items, k \in Kinds, a \in Resources \cup {None} : AgentCreates(i, k, a)
               \/ \E i \in Items, a \in Resources, b \in Bookings, v \in BOOLEAN : AgentClaims(i, a, b, v)
               \/ \E i \in Items : Cancelled(i)
               \/ \E i \in Items, w \in Recipients : WatcherAdded(i, w)
               \/ \E q \in Requests, e \in Verdicts : CapabilityEvent(q, e) \/ CapabilityEventFails(q, e)
               \/ \E i \in Items : Starts(i) \/ StartFails(i) \/ HandlerStep(i)
               \/ ShipStops \/ DeliveryStep \/ ShipStarts \/ RecoverStep
               \/ UNCHANGED allVars
        PROVE  UNCHANGED <<rstate, ritem, ragent, deciding, granted>>
    BY <1>2 DEF AgentCreates, AgentClaims, Cancelled, WatcherAdded, CapabilityEvent,
        CapabilityEventFails, Starts, StartFails, HandlerStep, EventFails, EventReads, EventLists,
        EventCloses, EventDelivers, ShipStops, DeliveryStep, DeliveryFails, DeliveryClaims,
        DeliveryPosts, ShipStarts, RecoverStep, RecoverStarts, RecoverDelivers, requestVars,
        allVars, workVars
  <1> QED
    BY <1>1, <1>2 DEF WorkNext, Others

(* A filed request stays filed by whom and on what it was; what was        *)
(* granted stays so; what is new was filed by a run at work.               *)
LEMMA RequestsKeep ==
    ASSUME WorkTypeOK, RequestsAreFiled, [WorkNext]_allVars, NEW q \in Requests
    PROVE  /\ rstate[q] # "absent" =>
                 rstate'[q] # "absent" /\ ritem'[q] = ritem[q] /\ ragent'[q] = ragent[q]
           /\ q \in granted => q \in granted'
           /\ rstate[q] = "absent" /\ rstate'[q] # "absent" => \E i \in Items : RunFiles(i, q)
  <1> USE DEF WorkTypeOK
  <1>1. ASSUME NEW p \in Requests, NEW d \in Deciders, DecisionStep(p, d)
        PROVE  /\ UNCHANGED <<ritem, ragent>> /\ granted \subseteq granted'
               /\ rstate'[q] = "absent" <=> rstate[q] = "absent"
    <2>1. ASSUME NEW v, DecisionBegins(p, d, v)
          PROVE  UNCHANGED <<rstate, ritem, ragent, granted>>
      BY <2>1 DEF DecisionBegins
    <2>2. CASE DecisionFails(p, d)
      BY <2>2 DEF DecisionFails
    <2>3. ASSUME Approve(p, d) \/ Deny(p, d) \/ MarkFulfilled(p, d)
          PROVE  /\ UNCHANGED <<ritem, ragent>> /\ granted \subseteq granted'
                 /\ rstate[p] # "absent" /\ rstate'[p] # "absent"
                 /\ q # p => rstate'[q] = rstate[q]
      <3>1. rstate[p] # "absent"
        BY <2>3 DEF RequestsAreFiled, Approve, Deny, MarkFulfilled
      <3> QED
        BY <2>3, <3>1 DEF Approve, Deny, MarkFulfilled, Settle
    <2> QED
      BY <1>1, <2>1, <2>2, <2>3 DEF DecisionStep
  <1>2. ASSUME NEW i \in Items, NEW p \in Requests, RunFiles(i, p)
        PROVE  /\ rstate[q] # "absent" =>
                     rstate'[q] = rstate[q] /\ ritem'[q] = ritem[q] /\ ragent'[q] = ragent[q]
               /\ rstate[q] = "absent" /\ rstate'[q] # "absent" => p = q
               /\ UNCHANGED granted
    BY <1>2 DEF RunFiles
  <1>3. CASE ShipEnds
    BY <1>3 DEF ShipEnds
  <1> QED
    BY <1>1, <1>2, <1>3, RequestsLeftAlone

(* So what was filed on an item stays filed on it. *)
LEMMA FiledOnKeeps ==
    ASSUME WorkTypeOK, RequestsAreFiled, [WorkNext]_allVars, NEW q, NEW i, FiledOn(q, i)
    PROVE  FiledOn(q, i)'
  BY RequestsKeep DEF FiledOn

(* An event of a request is announced by its decision, and taken only by   *)
(* its handler or lost with the process. *)
LEMMA EventsOfRequests ==
    ASSUME WorkTypeOK, [WorkNext]_allVars, NEW q \in Requests, NEW v \in Verdicts
    PROVE  /\ capEvents[<<q, v>>] > 0 =>
                 \/ capEvents'[<<q, v>>] > 0
                 \/ CapabilityEvent(q, v) \/ CapabilityEventFails(q, v) \/ ShipEnds
           /\ capEvents'[<<q, v>>] > 0 =>
                 capEvents[<<q, v>>] > 0 \/ \E d \in Deciders : DecisionStep(q, d)
  <1> USE DEF WorkTypeOK
  <1>1. ASSUME NEW i \in Items, RunStep(i)
        PROVE  UNCHANGED capEvents
    BY <1>1 DEF RunStep, RunReads, RunListsBooking, RunStartsBooking, RunMoves, RunLinks, RunDenied,
                RunParks, RunSettles, RunCalls, RunFails, RunReleases, RunRecords, RunCloses,
                RunClaimsUse, RunFiles, RunReturns, NoRequests, requestVars
  <1>2. ASSUME NEW p \in Requests, NEW d \in Deciders, DecisionStep(p, d)
        PROVE  /\ capEvents[<<q, v>>] > 0 => capEvents'[<<q, v>>] > 0
               /\ p # q => capEvents'[<<q, v>>] = capEvents[<<q, v>>]
    <2>1. ASSUME NEW w \in Verdicts, Settle(p, d, w)
          PROVE  /\ capEvents[<<q, v>>] > 0 => capEvents'[<<q, v>>] > 0
                 /\ p # q => capEvents'[<<q, v>>] = capEvents[<<q, v>>]
      <3>1. capEvents' = [capEvents EXCEPT ![<<p, w>>] = @ + 1]
        BY <2>1 DEF Settle
      <3>2. <<q, v>> \in Requests \X Verdicts /\ capEvents[<<q, v>>] \in Nat
        OBVIOUS
      <3>3. CASE <<p, w>> = <<q, v>>
        BY <3>1, <3>2, <3>3
      <3>4. CASE <<p, w>> # <<q, v>>
        BY <3>1, <3>2, <3>4
      <3> QED
        BY <3>3, <3>4
    <2>2. ASSUME Approve(p, d) \/ DecisionFails(p, d) \/ \E w \in Decision : DecisionBegins(p, d, w)
          PROVE  UNCHANGED capEvents
      BY <2>2 DEF Approve, DecisionFails, DecisionBegins
    <2> QED
      BY <1>2, <2>1, <2>2 DEF DecisionStep, Deny, MarkFulfilled, Verdicts
  <1>3. ASSUME NEW p \in Requests, NEW w \in Verdicts,
               CapabilityEvent(p, w) \/ CapabilityEventFails(p, w)
        PROVE  /\ <<p, w>> # <<q, v>> => capEvents'[<<q, v>>] = capEvents[<<q, v>>]
               /\ capEvents'[<<q, v>>] > 0 => capEvents[<<q, v>>] > 0
    <2>1. capEvents' = [capEvents EXCEPT ![<<p, w>>] = @ - 1]
      BY <1>3 DEF CapabilityEvent, CapabilityEventFails
    <2>2. <<q, v>> \in Requests \X Verdicts /\ capEvents[<<q, v>>] \in Nat
      OBVIOUS
    <2>3. CASE <<p, w>> = <<q, v>>
      BY <2>1, <2>2, <2>3
    <2>4. CASE <<p, w>> # <<q, v>>
      BY <2>1, <2>2, <2>4
    <2> QED
      BY <2>3, <2>4
  <1>4. ASSUME \/ \E i \in Items, k \in Kinds, a \in Resources \cup {None} : AgentCreates(i, k, a)
               \/ \E i \in Items, a \in Resources, b \in Bookings, u \in BOOLEAN : AgentClaims(i, a, b, u)
               \/ \E i \in Items : Cancelled(i)
               \/ \E i \in Items, w \in Recipients : WatcherAdded(i, w)
               \/ \E i \in Items : Starts(i) \/ StartFails(i) \/ HandlerStep(i)
               \/ ShipStops \/ DeliveryStep \/ ShipStarts \/ RecoverStep
               \/ UNCHANGED allVars
        PROVE  UNCHANGED capEvents
    BY <1>4 DEF AgentCreates, AgentClaims, Cancelled, WatcherAdded, Starts, StartFails,
                HandlerStep, EventFails, EventReads, EventLists, EventCloses, EventDelivers, ShipStops,
                DeliveryStep, DeliveryFails, DeliveryClaims, DeliveryPosts, ShipStarts, RecoverStep,
                RecoverStarts, RecoverDelivers, requestVars, allVars, workVars
  <1>5. CASE ShipEnds
    BY <1>5 DEF ShipEnds
  <1> QED
    BY <1>1, <1>2, <1>3, <1>4, <1>5 DEF WorkNext, Others

(* A request settles by a decision, which announces it. *)
LEMMA SettlingAnnounced ==
    ASSUME WorkTypeOK, [WorkNext]_allVars, NEW q \in Requests, ~Settled(q), Settled(q)'
    PROVE  \E v \in Verdicts : capEvents'[<<q, v>>] > 0
  <1> USE DEF WorkTypeOK, Settled
  <1>1. ASSUME NEW p \in Requests, NEW d \in Deciders, DecisionStep(p, d)
        PROVE  \E v \in Verdicts : capEvents'[<<q, v>>] > 0
    <2>1. \/ UNCHANGED rstate \/ rstate' = [rstate EXCEPT ![p] = "approved"]
          \/ \E v \in Verdicts : Settle(p, d, v)
      BY <1>1 DEF DecisionStep, DecisionBegins, Approve, Deny, MarkFulfilled, DecisionFails, Verdicts
    <2>2. PICK v \in Verdicts : Settle(p, d, v)
      BY <2>1
    <2>3. p = q
      BY <2>2 DEF Settle
    <2>4. <<q, v>> \in Requests \X Verdicts /\ capEvents[<<q, v>>] \in Nat
      OBVIOUS
    <2>5. capEvents' = [capEvents EXCEPT ![<<q, v>>] = @ + 1]
      BY <2>2, <2>3 DEF Settle
    <2>6. capEvents'[<<q, v>>] > 0
      BY <2>4, <2>5
    <2> QED
      BY <2>6
  <1>2. ASSUME NEW i \in Items, NEW p \in Requests, RunFiles(i, p)
        PROVE  rstate'[q] \in {rstate[q], "pending"}
    BY <1>2 DEF RunFiles
  <1>3. ~ShipEnds
    BY DEF ShipEnds
  <1> QED
    BY <1>1, <1>2, <1>3, RequestsLeftAlone

(* Only what was filed is decided and announced; a grant stays known. *)
LEMMA RequestsStep ==
    ASSUME WorkTypeOK, RequestsAreFiled, RunsAreSound, [WorkNext]_allVars
    PROVE  RequestsAreFiled'
  <1> USE DEF WorkTypeOK, RequestsAreFiled
  <1>1. ASSUME NEW q \in Requests, rstate'[q] # "absent"
        PROVE  ritem'[q] \in Items
    <2>1. ASSUME NEW i \in Items, RunFiles(i, q)
          PROVE  ritem'[q] \in Items
      BY <2>1 DEF RunFiles
    <2> QED
      BY <1>1, <2>1, RequestsKeep
  <1>2. ASSUME NEW q \in Requests, NEW d \in Deciders, DecisionStep(q, d)
        PROVE  rstate[q] # "absent"
    BY <1>2 DEF DecisionStep, DecisionBegins, Approve, Deny, MarkFulfilled, DecisionFails, Decision
  <1>3. ASSUME NEW q \in Requests, NEW v \in Verdicts, capEvents'[<<q, v>>] > 0
        PROVE  rstate'[q] # "absent"
    BY <1>2, <1>3, EventsOfRequests, RequestsKeep
  <1>4. ASSUME NEW q \in Requests
        PROVE  /\ \A d \in Deciders : deciding'[q][d] # "idle" => rstate'[q] # "absent"
               /\ rstate'[q] = "fulfilled" => q \in granted'
    <2>1. ASSUME NEW p \in Requests, NEW e \in Deciders, DecisionStep(p, e)
          PROVE  /\ p # q => deciding'[q] = deciding[q] /\ rstate'[q] = rstate[q]
                 /\ rstate'[q] = "fulfilled" => rstate[q] = "fulfilled" \/ q \in granted'
      <3>1. ASSUME NEW v \in Decision, DecisionBegins(p, e, v)
            PROVE  UNCHANGED rstate /\ (p # q => deciding'[q] = deciding[q])
        BY <3>1 DEF DecisionBegins
      <3>2. ASSUME NEW v \in Verdicts, Settle(p, e, v)
            PROVE  /\ p # q => deciding'[q] = deciding[q] /\ rstate'[q] = rstate[q]
                   /\ rstate'[q] = "fulfilled" => rstate[q] = "fulfilled" \/ q \in granted'
        BY <3>2 DEF Settle
      <3>3. ASSUME Approve(p, e) \/ DecisionFails(p, e)
            PROVE  /\ p # q => deciding'[q] = deciding[q] /\ rstate'[q] = rstate[q]
                   /\ rstate'[q] = "fulfilled" => rstate[q] = "fulfilled"
        BY <3>3 DEF Approve, DecisionFails
      <3> QED
        BY <2>1, <3>1, <3>2, <3>3 DEF DecisionStep, Deny, MarkFulfilled, Verdicts
    <2>2. CASE \E p \in Requests, e \in Deciders : DecisionStep(p, e)
      <3>1. PICK p \in Requests, e \in Deciders : DecisionStep(p, e)
        BY <2>2
      <3>2. q = p => rstate'[q] # "absent"
        BY <1>2, <3>1, RequestsKeep
      <3> QED
        BY <2>1, <3>1, <3>2, RequestsKeep
    <2>3. ASSUME NEW i \in Items, NEW p \in Requests, RunFiles(i, p)
          PROVE  /\ UNCHANGED <<deciding, granted>>
                 /\ rstate'[q] \in {rstate[q], "pending"}
      BY <2>3 DEF RunFiles
    <2>4. CASE ShipEnds
      BY <2>4 DEF ShipEnds
    <2> QED
      BY <2>2, <2>3, <2>4, RequestsLeftAlone, RequestsKeep
  <1> QED
    BY <1>1, <1>3, <1>4

-----------------------------------------------------------------------------
(* Notices: deliver_due_notices. *)

(* The steps that neither list, claim nor post a notice. *)
LEMMA NoticesLeftAlone ==
    ASSUME [WorkNext]_allVars, ~DeliveryStep, ~RecoverDelivers, ~ShipEnds,
           ~ \E i \in Items : EventDelivers(i)
    PROVE  UNCHANGED <<told, posts, delivery>>
  <1>1. ASSUME NEW i \in Items, RunStep(i)
        PROVE  UNCHANGED <<told, posts, delivery>>
    BY <1>1 DEF RunStep, RunReads, RunListsBooking, RunStartsBooking, RunMoves, RunLinks, RunDenied,
                RunParks, RunSettles, RunCalls, RunFails, RunReleases, RunRecords, RunCloses,
                RunClaimsUse, RunFiles, RunReturns, RunAdds, RunKeeps, noticeVars
  <1>2. ASSUME \/ \E i \in Items, k \in Kinds, a \in Resources \cup {None} : AgentCreates(i, k, a)
               \/ \E i \in Items, a \in Resources, b \in Bookings, v \in BOOLEAN : AgentClaims(i, a, b, v)
               \/ \E i \in Items : Cancelled(i)
               \/ \E i \in Items, w \in Recipients : WatcherAdded(i, w)
               \/ \E q \in Requests, d \in Deciders : DecisionStep(q, d)
               \/ \E q \in Requests, e \in Verdicts : CapabilityEvent(q, e) \/ CapabilityEventFails(q, e)
               \/ \E i \in Items : Starts(i) \/ StartFails(i) \/ EventReads(i)
                                  \/ EventLists(i) \/ EventCloses(i)
                                   \/ EventFails(i)
               \/ ShipStops \/ ShipStarts \/ RecoverStarts \/ UNCHANGED allVars
        PROVE  UNCHANGED <<told, posts, delivery>>
    BY <1>2, DecisionLeaves DEF EventFails, AgentCreates, AgentClaims, Cancelled, WatcherAdded,
        CapabilityEvent, CapabilityEventFails, Starts, StartFails, EventReads, EventLists,
        EventCloses, ShipStops, ShipStarts, RecoverStarts, noticeVars, allVars, workVars
  <1> QED
    BY <1>1, <1>2 DEF WorkNext, Others, HandlerStep, RecoverStep

(* A claim is for good, and what is posted was claimed before, by the      *)
(* delivery that posts it. *)
LEMMA NoticesStep ==
    ASSUME WorkTypeOK, NoticesClaimed, [WorkNext]_allVars
    PROVE  NoticesClaimed'
  <1> USE DEF WorkTypeOK, NoticesClaimed
  <1>1. ASSUME NEW n \in Notices, DeliveryClaims(n)
        PROVE  NoticesClaimed'
    <2>1. n[1] \in Items /\ n[2] \in Recipients /\ n = <<n[1], n[2]>>
      BY DEF Notices
    <2>2. /\ UNCHANGED posts
          /\ \A i \in Items : told[i] \subseteq told'[i]
          /\ n[2] \in told'[n[1]]
      BY <1>1, <2>1 DEF DeliveryClaims
    <2>3. \A m \in delivery'.ready :
             m \in delivery.ready \/ (m = n /\ n[2] \notin told[n[1]])
      BY <1>1 DEF DeliveryClaims
    <2>4. delivery.ready \in SUBSET Notices
      OBVIOUS
    <2>5. \A m \in delivery'.ready : m[2] \in told'[m[1]]
      BY <2>1, <2>2, <2>3, <2>4 DEF Notices
    <2>6. \A m \in delivery'.ready : posts'[m[1]][m[2]] = 0
      <3>1. n[2] \notin told[n[1]] => posts[n[1]][n[2]] = 0
        <4>1. posts[n[1]][n[2]] \in Nat /\ posts[n[1]][n[2]] <= 1
          BY <2>1
        <4>2. posts[n[1]][n[2]] = 0 \/ posts[n[1]][n[2]] = 1
          BY ONLY <4>1
        <4>3. posts[n[1]][n[2]] = 1 => n[2] \in told[n[1]]
          BY <2>1
        <4> QED
          BY ONLY <4>2, <4>3
      <3> QED
        BY <2>2, <2>3, <3>1
    <2> QED
      BY <2>2, <2>5, <2>6
  <1>2. ASSUME NEW i \in Items, DeliveryPosts(i)
        PROVE  NoticesClaimed'
    <2>1. UNCHANGED told /\ delivery'.ready = {}
      BY <1>2 DEF DeliveryPosts
    <2>2. \A j \in Items, r \in Recipients :
             posts'[j][r] = IF j = i /\ <<i, r>> \in delivery.ready THEN posts[j][r] + 1
                                                                  ELSE posts[j][r]
      BY <1>2 DEF DeliveryPosts
    <2>3. \A r \in Recipients : <<i, r>> \in delivery.ready => r \in told[i] /\ posts[i][r] = 0
      OBVIOUS
    <2>4. ASSUME NEW j \in Items, NEW r \in Recipients
          PROVE  posts'[j][r] <= 1 /\ (posts'[j][r] = 1 => r \in told[j])
      <3>1. posts[j][r] <= 1 /\ (posts[j][r] = 1 => r \in told[j])
        OBVIOUS
      <3>2. CASE j = i /\ <<i, r>> \in delivery.ready
        <4>1. posts'[j][r] = posts[j][r] + 1
          BY <2>2, <3>2
        <4>2. posts[j][r] = 0 /\ r \in told[j]
          BY <2>3, <3>2
        <4> QED
          BY <4>1, <4>2
      <3>3. CASE ~(j = i /\ <<i, r>> \in delivery.ready)
        <4>1. posts'[j][r] = posts[j][r]
          BY <2>2, <3>3
        <4> QED
          BY <3>1, <4>1
      <3> QED
        BY <3>2, <3>3
    <2> QED
      BY <2>1, <2>4
  <1>3. CASE ShipEnds
    BY <1>3 DEF ShipEnds, NoDelivery
  <1>6. CASE DeliveryFails
    BY <1>6 DEF DeliveryFails, NoDelivery
  <1>4. CASE RecoverDelivers \/ \E i \in Items : EventDelivers(i)
    BY <1>4 DEF RecoverDelivers, EventDelivers, Deliver
  <1>5. CASE UNCHANGED <<told, posts, delivery>>
    BY <1>5
  <1> QED
    BY <1>1, <1>2, <1>3, <1>4, <1>5, <1>6, NoticesLeftAlone DEF DeliveryStep

-----------------------------------------------------------------------------
(* The process. *)

(* When the process is not up nothing runs, and what had settled before an *)
(* end is what is settled until the next start. *)
LEMMA ProcessStep ==
    ASSUME WorkTypeOK, RequestsAreFiled, RunsAreSound, DownMeansIdle, [WorkNext]_allVars
    PROVE  DownMeansIdle'
  <1> USE DEF WorkTypeOK, DownMeansIdle
  <1>1. ASSUME NEW i \in Items, RunStep(i)
        PROVE  DownMeansIdle'
    <2>1. mode = "up" /\ UNCHANGED <<mode, recover>>
      BY <1>1 DEF RunStep, RunReads, RunListsBooking, RunStartsBooking, RunMoves, RunLinks, RunDenied,
                  RunParks, RunSettles, RunCalls, RunFails, RunReleases, RunRecords, RunCloses,
                  RunClaimsUse, RunFiles, RunReturns, RunAdds, RunKeeps, shipVars
    <2> QED
      BY <2>1
  <1>2. ASSUME NEW i \in Items, Start(i)
        PROVE  mode # "up" => UNCHANGED run
    BY <1>2 DEF Start
  <1>3. ASSUME \/ \E i \in Items, k \in Kinds, a \in Resources \cup {None} : AgentCreates(i, k, a)
               \/ \E i \in Items, a \in Resources, b \in Bookings, v \in BOOLEAN : AgentClaims(i, a, b, v)
               \/ \E i \in Items : Cancelled(i)
               \/ \E i \in Items, w \in Recipients : WatcherAdded(i, w)
               \/ \E q \in Requests, e \in Verdicts : CapabilityEvent(q, e) \/ CapabilityEventFails(q, e)
               \/ \E i \in Items : Starts(i) \/ StartFails(i) \/ HandlerStep(i)
               \/ DeliveryStep \/ UNCHANGED allVars
        PROVE  UNCHANGED <<shipVars, rstate>> /\ (mode # "up" => UNCHANGED run)
    BY <1>2, <1>3 DEF AgentCreates, AgentClaims, Cancelled, WatcherAdded, CapabilityEvent,
        CapabilityEventFails, Starts, StartFails, HandlerStep, EventFails, EventReads, EventLists,
        EventCloses, EventDelivers, DeliveryStep, DeliveryFails, DeliveryClaims, DeliveryPosts,
        requestVars, runVars, allVars, workVars
  <1>4. ASSUME UNCHANGED <<shipVars, rstate>> /\ (mode # "up" => UNCHANGED run)
        PROVE  DownMeansIdle'
    BY <1>4 DEF shipVars, Settled
  <1>5. ASSUME NEW q \in Requests, NEW d \in Deciders, DecisionStep(q, d)
        PROVE  DownMeansIdle'
    BY <1>5 DEF DecisionStep, DecisionBegins, Approve, MarkFulfilled, Deny, Settle, DecisionFails,
        shipVars, runVars, Up
  <1>6. CASE ShipStops
    BY <1>6 DEF ShipStops, Idle
  <1>7. CASE ShipEnds
    <2>1. crashes' > 0
      BY <1>7 DEF ShipEnds
    <2> QED
      BY <1>7, <2>1 DEF ShipEnds, Idle, Settled
  <1>8. CASE ShipStarts
    BY <1>8 DEF ShipStarts, runVars
  <1>9. CASE RecoverStep
    BY <1>9 DEF RecoverStep, RecoverStarts, RecoverDelivers, runVars
  <1> QED
    BY <1>1, <1>3, <1>4, <1>5, <1>6, <1>7, <1>8, <1>9 DEF WorkNext, Others

-----------------------------------------------------------------------------
(* What the rest of the world may do to an item between two steps of its   *)
(* own run. *)

(* The moves of a task, from the registry's table. *)
LEMMA TaskMoves ==
    ASSUME NEW i \in Items, workType[i] = "task", NEW s
    PROVE  MayMove(i, s) <=>
               \/ /\ status[i] = "open" /\ s \in {"in_progress", "cancelled", "blocked"}
                  /\ s = "in_progress" => assignee[i] # None
               \/ status[i] = "in_progress" /\ s \in {"done", "failed", "cancelled", "blocked"}
               \/ status[i] = "blocked" /\ s \in {"in_progress", "cancelled"}
  <1>1. /\ TypeTerminal["task"] = {"done", "failed", "cancelled"}
        /\ Edges["task"] = {"open"} \X {"in_progress", "cancelled", "blocked"}
                           \cup {"in_progress"} \X {"done", "failed", "cancelled", "blocked"}
                           \cup {"blocked"} \X {"in_progress", "cancelled"}
        /\ OwnerEdges["task"] = {<<"open", "in_progress">>}
    BY DEF TypeTerminal, Edges, OwnerEdges, BuiltinTypes
  <1>2. MayMove(i, s) <=>
           /\ status[i] \notin {"done", "failed", "cancelled"}
           /\ <<status[i], s>> \in Edges["task"]
           /\ <<status[i], s>> = <<"open", "in_progress">> => assignee[i] # None
    BY <1>1 DEF MayMove
  <1>3. <<status[i], s>> \in Edges["task"] <=>
           \/ status[i] = "open" /\ s \in {"in_progress", "cancelled", "blocked"}
           \/ status[i] = "in_progress" /\ s \in {"done", "failed", "cancelled", "blocked"}
           \/ status[i] = "blocked" /\ s \in {"in_progress", "cancelled"}
    BY <1>1
  <1> QED
    BY <1>2, <1>3

(* What an exception took stays known while the process lives. *)
LEMMA DroppedGrows ==
    ASSUME [WorkNext]_allVars
    PROVE  mode' = "up" => dropped \subseteq dropped'
  <1>1. ASSUME NEW i, NEW loss, Drops(i, loss)
        PROVE  dropped \subseteq dropped'
    BY <1>1 DEF Drops
  <1>2. ASSUME NEW i \in Items, RunStep(i)
        PROVE  dropped \subseteq dropped'
    BY <1>1, <1>2 DEF RunStep, RunReads, RunListsBooking, RunStartsBooking, RunMoves, RunLinks,
        RunDenied, RunParks, RunSettles, RunCalls, RunFails, RunReleases, RunRecords, RunCloses,
        RunClaimsUse, RunFiles, RunReturns, RunKeeps, exceptVars
  <1>3. ASSUME \/ \E q \in Requests, e \in Verdicts : CapabilityEventFails(q, e)
               \/ \E i \in Items : StartFails(i) \/ EventFails(i)
        PROVE  dropped \subseteq dropped'
    BY <1>1, <1>3 DEF CapabilityEventFails, StartFails, EventFails
  <1>4. CASE DeliveryStep
    BY <1>4 DEF DeliveryStep, DeliveryFails, DeliveryClaims, DeliveryPosts, exceptVars
  <1>5. ASSUME \/ \E i \in Items, k \in Kinds, a \in Resources \cup {None} : AgentCreates(i, k, a)
               \/ \E i \in Items, a \in Resources, b \in Bookings, v \in BOOLEAN : AgentClaims(i, a, b, v)
               \/ \E i \in Items : Cancelled(i)
               \/ \E i \in Items, w \in Recipients : WatcherAdded(i, w)
               \/ \E q \in Requests, d \in Deciders : DecisionStep(q, d)
               \/ \E q \in Requests, e \in Verdicts : CapabilityEvent(q, e)
               \/ \E i \in Items : Starts(i) \/ EventReads(i) \/ EventLists(i) \/ EventCloses(i)
                                   \/ EventDelivers(i)
               \/ ShipStops \/ ShipStarts \/ RecoverStep \/ UNCHANGED allVars
        PROVE  UNCHANGED dropped
    BY <1>5, DecisionLeaves DEF AgentCreates, AgentClaims, Cancelled, WatcherAdded, CapabilityEvent,
        Starts, EventReads, EventLists, EventCloses, EventDelivers, ShipStops, ShipStarts,
        RecoverStep, RecoverStarts, RecoverDelivers, exceptVars, allVars, workVars
  <1>6. ShipEnds => mode' # "up"
    BY DEF ShipEnds
  <1> QED
    BY <1>2, <1>3, <1>4, <1>5, <1>6 DEF WorkNext, Others, HandlerStep

(* A step of another item's run leaves the item, its run and its park as   *)
(* they are. *)
LEMMA OtherRuns ==
    ASSUME WorkTypeOK, LiveBookingOwned, RunsAreSound, NEW j \in Items, RunStep(j), NEW i \in Items, i # j
    PROVE  /\ run'[i] = run[i] /\ (i \in restart' <=> i \in restart)
           /\ status'[i] = status[i] /\ assignee'[i] = assignee[i]
           /\ parkedOn'[i] = parkedOn[i] /\ events'[i] = events[i]
           /\ i \in returned' <=> i \in returned
           /\ UNCHANGED starting
  <1>0. /\ run \in [Items -> Run] /\ restart \subseteq Items /\ events \in [Items -> Nat]
        /\ parkedOn \in [Items -> Requests \cup {0}] /\ returned \subseteq Items
        /\ status \in [Items -> ItemStatus \cup {"absent"}]
        /\ assignee \in [Items -> Resources \cup {None}]
    BY DEF WorkTypeOK, TypeOK
  <1>1. run'[i] = run[i] /\ (i \in restart' <=> i \in restart)
    BY <1>0, RunRecordStep DEF GoTo, Leave
  <1> UNCHANGED starting
    BY DEF RunStep, RunReads, RunListsBooking, RunStartsBooking, RunMoves, RunLinks, RunDenied,
           RunParks, RunSettles, RunCalls, RunFails, RunReleases, RunRecords, RunCloses,
           RunClaimsUse, RunFiles, RunReturns, RunAdds, RunKeeps
  <1>2. ASSUME NEW s, Move(j, s)
        PROVE  status'[i] = status[i] /\ assignee'[i] = assignee[i] /\ events'[i] = events[i]
    BY <1>0, <1>2 DEF Move, Transition
  <1>3. ASSUME NEW b \in Bookings, NEW c, CloseBooking(b, c)
        PROVE  UNCHANGED <<status, assignee>>
    BY <1>3 DEF CloseBooking, CompleteBooking, CancelBooking, itemVars, vars
  <1>4. CASE RunStartsBooking(j)
    BY <1>0, <1>1, <1>4 DEF RunStartsBooking, StartBooking, RunsAreSound, Kept, RunKeeps, vars,
        exceptVars
  <1>5. CASE RunReleases(j)
    BY <1>0, <1>1, <1>5 DEF RunReleases, Unassign, vars
  <1>6. CASE RunCloses(j)
    <2>1. run[j].todo \in SUBSET Bookings
      BY <1>0 DEF Run
    <2> QED
      BY <1>1, <1>3, <1>6, <2>1 DEF RunCloses, RunKeeps, exceptVars
  <1>7. CASE RunParks(j)
    BY <1>0, <1>1, <1>2, <1>7 DEF RunParks, Kept, RunKeeps, vars, exceptVars
  <1>8. ASSUME RunMoves(j) \/ RunDenied(j) \/ RunSettles(j) \/ RunRecords(j) \/ RunFails(j)
        PROVE  /\ status'[i] = status[i] /\ assignee'[i] = assignee[i]
               /\ events'[i] = events[i] /\ UNCHANGED <<parkedOn, returned>>
    BY <1>2, <1>8 DEF RunMoves, RunDenied, RunSettles, RunRecords, RunFails, Kept, RunKeeps, vars,
        exceptVars
  <1>9. ASSUME \/ RunReads(j) \/ RunListsBooking(j) \/ RunLinks(j) \/ RunCalls(j)
               \/ \E q \in Requests : RunClaimsUse(j, q) \/ RunFiles(j, q)
               \/ \E c \in BOOLEAN : RunReturns(j, c)
        PROVE  UNCHANGED <<vars, events, parkedOn, returned>>
    BY <1>9 DEF RunReads, RunListsBooking, RunLinks, RunCalls, RunClaimsUse, RunFiles, RunReturns,
                Kept, RunKeeps, exceptVars
  <1> QED
    BY <1>1, <1>4, <1>5, <1>6, <1>7, <1>8, <1>9 DEF RunStep, vars

(* What may happen to an item while its run does not step: it is created,  *)
(* claimed while it is nobody's, cancelled, or resumed; a start is on its  *)
(* way until it is made or kept or raises; its run is begun or cut off.    *)
OutsideStep(i) ==
    /\ \/ status'[i] = status[i] /\ assignee'[i] = assignee[i]
       \/ status[i] = "absent" /\ status'[i] = "open"
       \/ /\ status[i] = "open" /\ assignee[i] = None
          /\ status'[i] = "scheduled" /\ assignee'[i] # None /\ starting'[i] > 0
          /\ \E b \in Bookings : bstate'[b] = "scheduled" /\ bitem'[b] = i
       \/ /\ status[i] \in {"open", "in_progress", "blocked"}
          /\ status'[i] = "cancelled" /\ assignee'[i] = assignee[i]
       \/ /\ status[i] = "blocked" /\ status'[i] = "in_progress"
          /\ assignee'[i] = assignee[i] /\ starting'[i] > 0
    /\ parkedOn'[i] = parkedOn[i]
    /\ \/ run'[i] = run[i] /\ (i \in restart => i \in restart')
       \/ run[i].pc = "idle" /\ run'[i] = Begun
       \/ run'[i] = Idle /\ mode' # "up"
    /\ starting[i] > 0 =>
          \/ starting'[i] > 0 \/ mode' # "up" \/ run'[i] = Begun
          \/ i \in restart' /\ run'[i].pc # "idle"
          \/ <<i, "run">> \in dropped'

LEMMA OutsideKeeps ==
    ASSUME WorkTypeOK, LiveBookingOwned, RequestsAreFiled, RunsAreSound, OnlyTasks,
           [WorkNext]_allVars, NEW i \in Items, ~RunStep(i)
    PROVE  OutsideStep(i)
  <1> USE DEF WorkTypeOK, TypeOK, OutsideStep
  <1>1. ASSUME NEW j \in Items, RunStep(j)
        PROVE  OutsideStep(i)
    BY <1>1, OtherRuns
  <1>2. ASSUME NEW j \in Items, Start(j)
        PROVE  \/ run'[i] = run[i] /\ (i \in restart => i \in restart')
               \/ run[i].pc = "idle" /\ run'[i] = Begun
    BY <1>2 DEF Start, GoTo
  <1>3. ASSUME NEW j \in Items, NEW k \in Kinds, NEW a \in Resources \cup {None},
               AgentCreates(j, k, a)
        PROVE  OutsideStep(i)
    <2>1. InitialStatus["task"] = "open"
      BY DEF InitialStatus, BuiltinTypes
    <2> QED
      BY <1>3, <2>1 DEF AgentCreates, Create
  <1>4. ASSUME NEW j \in Items, NEW a \in Resources, NEW b \in Bookings, NEW v \in BOOLEAN,
               AgentClaims(j, a, b, v)
        PROVE  OutsideStep(i)
    BY <1>2, <1>4, BoardAssumption DEF AgentClaims, Claim, ReadyForPull, Book
  <1>5. ASSUME NEW j \in Items, Cancelled(j)
        PROVE  OutsideStep(i)
    BY <1>5, TaskMoves DEF Cancelled, Move, Transition, OnlyTasks, runVars
  <1>6. ASSUME NEW q \in Requests, NEW v \in Verdicts, CapabilityEvent(q, v)
        PROVE  OutsideStep(i)
    <2>1. ritem[q] \in Items
      BY <1>6 DEF CapabilityEvent, RequestsAreFiled
    <2>2. UNCHANGED <<run, restart, parkedOn>>
      BY <1>6 DEF CapabilityEvent
    <2>3. CASE ~ParkedOn(ritem[q], q)
      BY <1>6, <2>2, <2>3 DEF CapabilityEvent, Kept, vars
    <2>4. CASE ParkedOn(ritem[q], q) /\ v = "fulfilled"
      <3>1. /\ Move(ritem[q], "in_progress") /\ status[ritem[q]] = "blocked"
            /\ starting' = [starting EXCEPT ![ritem[q]] = @ + 1]
        BY <1>6, <2>4 DEF CapabilityEvent, ParkedOn
      <3>2. starting'[ritem[q]] > 0
        BY <2>1, <3>1
      <3> QED
        BY <2>1, <2>2, <3>1, <3>2 DEF Move, Transition
    <2>5. CASE ParkedOn(ritem[q], q) /\ v # "fulfilled"
      <3>1. Move(ritem[q], "cancelled") /\ status[ritem[q]] = "blocked"
        BY <1>6, <2>5 DEF CapabilityEvent, ParkedOn
      <3>2. UNCHANGED starting
        BY <1>6, <2>5 DEF CapabilityEvent
      <3> QED
        BY <2>1, <2>2, <3>1, <3>2 DEF Move, Transition
    <2> QED
      BY <2>3, <2>4, <2>5
  <1>7. ASSUME NEW j \in Items, Starts(j)
        PROVE  OutsideStep(i)
    <2>1. starting' = [starting EXCEPT ![j] = @ - 1]
      BY <1>7 DEF Starts
    <2>2. Start(j) /\ UNCHANGED <<vars, parkedOn, mode>>
      BY <1>7 DEF Starts, StartFails, shipVars
    <2>3. i = j => \/ mode # "up" \/ run'[i] = Begun
                   \/ i \in restart' /\ run'[i].pc # "idle"
      BY <2>2 DEF Start, GoTo
    <2>4. i # j => starting'[i] = starting[i]
      BY <2>1
    <2> QED
      BY <1>2, <2>2, <2>3, <2>4 DEF vars
  <1>13. ASSUME NEW j \in Items, StartFails(j)
         PROVE  OutsideStep(i)
    BY <1>13 DEF StartFails, Drops, vars
  <1>8. ASSUME NEW j \in Items, EventCloses(j)
        PROVE  OutsideStep(i)
    BY <1>8 DEF EventCloses, CloseBooking, CompleteBooking, CancelBooking, itemVars, vars, runVars
  <1>9. CASE ShipStops \/ ShipEnds
    BY <1>9 DEF ShipStops, ShipEnds, vars
  <1>10. CASE RecoverStarts
    BY <1>10 DEF RecoverStarts, vars
  <1>11. ASSUME \/ \E j \in Items, w \in Recipients : WatcherAdded(j, w)
                \/ \E q \in Requests, d \in Deciders : DecisionStep(q, d)
                \/ \E j \in Items : EventReads(j) \/ EventLists(j) \/ EventDelivers(j)
                                   \/ EventFails(j)
                \/ \E q \in Requests, e \in Verdicts : CapabilityEventFails(q, e)
                \/ DeliveryStep \/ ShipStarts \/ RecoverDelivers \/ UNCHANGED allVars
         PROVE  UNCHANGED <<vars, run, restart, starting, parkedOn>>
    BY <1>11, DecisionLeaves DEF WatcherAdded, CapabilityEventFails, EventReads, EventFails,
        EventLists, EventDelivers, DeliveryStep, DeliveryFails, DeliveryClaims, DeliveryPosts,
        ShipStarts, RecoverDelivers, runVars, allVars, workVars
  <1>12. CASE UNCHANGED <<vars, run, restart, starting, parkedOn>>
    BY <1>12 DEF vars
  <1> HIDE DEF WorkTypeOK, TypeOK, OutsideStep
  <1> QED
    BY <1>1, <1>3, <1>4, <1>5, <1>6, <1>7, <1>8, <1>9, <1>10, <1>11, <1>12, <1>13
       DEF WorkNext, Others, HandlerStep, RecoverStep

-----------------------------------------------------------------------------
(* Bookings. *)

(* How a booking changes: it is made by a claim, started by the run that   *)
(* listed it, ended by a closing that listed it or by a release.           *)
BookingChange(b) ==
    \/ bstate'[b] = bstate[b] /\ bitem'[b] = bitem[b]
    \/ \E i \in Items : /\ bstate[b] = "absent" /\ bstate'[b] = "scheduled" /\ bitem'[b] = i
                        /\ status[i] = "open" /\ status'[i] = "scheduled" /\ LiveOn(i) = {}
    \/ \E i \in Items : /\ RunStartsBooking(i) /\ run[i].book = b
                        /\ bstate[b] = "scheduled" /\ bstate'[b] = "active"
                        /\ bitem[b] = i /\ bitem'[b] = i
    \/ /\ bstate[b] \in Live /\ bstate'[b] \in {"completed", "cancelled"} /\ bitem'[b] = bitem[b]
       /\ \E i \in Items : \/ RunReleases(i) /\ bitem[b] = i
                           \/ RunCloses(i) /\ b \in run[i].todo
                           \/ EventCloses(i) /\ b \in handler[i].todo

LEMMA BookingChanges ==
    ASSUME WorkTypeOK, RunsAreSound, [WorkNext]_allVars, NEW b \in Bookings
    PROVE  BookingChange(b)
  <1> USE DEF WorkTypeOK, TypeOK
  <1>1. ASSUME NEW i \in Items, NEW a \in Resources, NEW c \in Bookings, NEW v \in BOOLEAN,
               AgentClaims(i, a, c, v)
        PROVE  BookingChange(b)
    BY <1>1 DEF AgentClaims, Claim, ReadyForPull, Book, BookingChange
  <1>2. ASSUME NEW i \in Items, RunStartsBooking(i)
        PROVE  BookingChange(b)
    <2>1. CASE bstate[run[i].book] = "scheduled"
      <3>1. StartBooking(run[i].book) /\ run[i].pc = "start"
        BY <1>2, <2>1 DEF RunStartsBooking
      <3>2. run[i].book \in Bookings /\ bitem[run[i].book] = i
        BY <3>1 DEF RunsAreSound
      <3> QED
        BY <1>2, <3>1, <3>2 DEF StartBooking, BookingChange
    <2>2. CASE bstate[run[i].book] # "scheduled"
      BY <1>2, <2>2 DEF RunStartsBooking, Kept, vars, BookingChange
    <2> QED
      BY <2>1, <2>2
  <1>3. ASSUME NEW i \in Items, RunReleases(i)
        PROVE  BookingChange(b)
    <2>1. /\ UNCHANGED bitem
          /\ bstate'[b] = bstate[b] \/ (b \in LiveOn(i) /\ bstate'[b] = "cancelled")
      BY <1>3 DEF RunReleases, Unassign, vars
    <2> QED
      BY <1>3, <2>1 DEF LiveOn, BookingChange
  <1>4. ASSUME NEW c \in Bookings, NEW done, CloseBooking(c, done)
        PROVE  \/ bstate'[b] = bstate[b] /\ bitem'[b] = bitem[b]
               \/ /\ b = c /\ bstate[b] \in Live /\ bstate'[b] \in {"completed", "cancelled"}
                  /\ bitem'[b] = bitem[b]
    BY <1>4 DEF CloseBooking, CompleteBooking, CancelBooking, Live, Occupying, vars
  <1>5. ASSUME NEW i \in Items, RunCloses(i)
        PROVE  BookingChange(b)
    <2>1. run[i].todo \in SUBSET Bookings
      BY DEF Run
    <2>2. PICK c \in run[i].todo : CloseBooking(c, run[i].fin)
      BY <1>5 DEF RunCloses
    <2> QED
      BY <1>4, <1>5, <2>1, <2>2 DEF BookingChange
  <1>6. ASSUME NEW i \in Items, EventCloses(i)
        PROVE  BookingChange(b)
    <2>1. handler[i].todo \in SUBSET Bookings
      BY DEF Handler
    <2>2. PICK c \in handler[i].todo : CloseBooking(c, handler[i].fin)
      BY <1>6 DEF EventCloses
    <2> QED
      BY <1>4, <1>6, <2>1, <2>2 DEF BookingChange
  <1>7. ASSUME NEW i, NEW s, Move(i, s)
        PROVE  UNCHANGED <<bstate, bitem>>
    BY <1>7 DEF Move, Transition, bookingVars
  <1>8. ASSUME \/ \E i \in Items, k \in Kinds, a \in Resources \cup {None} : AgentCreates(i, k, a)
               \/ \E i \in Items : Cancelled(i)
               \/ \E q \in Requests, e \in Verdicts : CapabilityEvent(q, e) \/ CapabilityEventFails(q, e)
               \/ \E i \in Items : \/ RunMoves(i) \/ RunDenied(i) \/ RunParks(i) \/ RunSettles(i)
                                   \/ RunFails(i) \/ RunRecords(i)
        PROVE  UNCHANGED <<bstate, bitem>>
    BY <1>7, <1>8 DEF AgentCreates, Create, Cancelled, CapabilityEvent, CapabilityEventFails,
        RunMoves, RunDenied, RunParks, RunSettles, RunFails, RunRecords, Kept, vars, bookingVars
  <1>9. ASSUME \/ \E i \in Items : \/ RunReads(i) \/ RunListsBooking(i) \/ RunLinks(i) \/ RunCalls(i)
                                   \/ \E q \in Requests : RunClaimsUse(i, q) \/ RunFiles(i, q)
                                   \/ \E c \in BOOLEAN : RunReturns(i, c)
               \/ \E i \in Items, w \in Recipients : WatcherAdded(i, w)
               \/ \E q \in Requests, d \in Deciders : DecisionStep(q, d)
               \/ \E i \in Items : Starts(i) \/ StartFails(i) \/ EventReads(i)
                                  \/ EventLists(i) \/ EventDelivers(i)
                                   \/ EventFails(i)
               \/ DeliveryStep \/ ShipStops \/ ShipEnds \/ ShipStarts \/ RecoverStep
               \/ UNCHANGED allVars
        PROVE  UNCHANGED vars
    BY <1>9, DecisionLeaves DEF RunReads, RunListsBooking, RunLinks, RunCalls, RunClaimsUse,
        RunFiles, RunReturns, Kept, WatcherAdded, Starts, StartFails, EventReads, EventFails,
        EventLists, EventDelivers, DeliveryStep, DeliveryFails, DeliveryClaims, DeliveryPosts,
        ShipStops, ShipEnds, ShipStarts, RecoverStep, RecoverStarts, RecoverDelivers, allVars
  <1>10. CASE UNCHANGED <<bstate, bitem>>
    BY <1>10 DEF BookingChange
  <1> QED
    BY <1>1, <1>2, <1>3, <1>5, <1>6, <1>8, <1>9, <1>10 DEF WorkNext, Others, RunStep, HandlerStep, vars

-----------------------------------------------------------------------------
(* Runs. *)

(* Where _cancel_or_park leads: the choice among the calls the assignee    *)
(* filed; a run goes to work only past granted ones. *)
LEMMA ProceedsTo ==
    ASSUME WorkTypeOK, RequestsAreFiled, NEW i \in Items, NEW r \in Run, Proceeds(i, r)
    PROVE  \/ GoTo(i, Only("deny"))
           \/ \E q \in Linked(i, r.slot) : GoTo(i, [Only("park") EXCEPT !.req = q])
           \/ /\ Linked(i, r.slot) \subseteq granted
              /\ GoTo(i, [r EXCEPT !.pc = "work", !.use = Linked(i, r.slot)])
           \/ kind[i] = "request" /\ GoTo(i, Only("release"))
           \/ kind[i] # "request" /\ Leave(i)
  <1> DEFINE linked == Linked(i, r.slot)
             waiting == In(linked, {"pending", "approved"})
  <1>1. CASE In(linked, {"denied"}) # {}
    BY <1>1 DEF Proceeds
  <1>2. CASE In(linked, {"denied"}) = {} /\ waiting # {}
    <2>1. PICK q \in Requests : IsOldest(q, waiting) /\ GoTo(i, [Only("park") EXCEPT !.req = q])
      BY <1>2 DEF Proceeds
    <2>2. q \in linked
      BY <2>1 DEF IsOldest, In
    <2> QED
      BY <2>1, <2>2
  <1>3. CASE In(linked, {"denied"}) = {} /\ waiting = {}
    <2>1. GoTo(i, [r EXCEPT !.pc = "work", !.use = linked]) \/ Refused(i)
      BY <1>3 DEF Proceeds
    <2>2. linked \subseteq granted
      BY <1>3 DEF In, Linked, WorkTypeOK, RequestState, RequestsAreFiled
    <2> QED
      BY <2>1, <2>2 DEF Refused
  <1> QED
    BY <1>1, <1>2, <1>3

(* A run of an item refers to bookings and requests of the item only.      *)
LEMMA RunsSoundStep ==
    ASSUME WorkTypeOK, LiveBookingOwned, RequestsAreFiled, RunsAreSound, OnlyTasks, [WorkNext]_allVars
    PROVE  RunsAreSound'
  <1> DEFINE Sound(r, i) ==
               /\ r.pc = "start" => /\ r.book \in Bookings
                                    /\ bitem[r.book] = i /\ bstate[r.book] # "absent"
               /\ r.pc \in {"park", "settle", "call"} => FiledOn(r.req, i)
               /\ r.filed # 0 => FiledOn(r.filed, i)
               /\ \A q \in r.use : FiledOn(q, i) /\ q \in granted
             StillSound(r, i) ==
               /\ r.pc = "start" => /\ r.book \in Bookings
                                    /\ bitem'[r.book] = i /\ bstate'[r.book] # "absent"
               /\ r.pc \in {"park", "settle", "call"} =>
                     r.req \in Requests /\ rstate'[r.req] # "absent" /\ ritem'[r.req] = i
               /\ r.filed # 0 =>
                     r.filed \in Requests /\ rstate'[r.filed] # "absent" /\ ritem'[r.filed] = i
               /\ \A q \in r.use :
                     q \in Requests /\ q \in granted' /\ rstate'[q] # "absent" /\ ritem'[q] = i
             Parked(i) ==
               /\ run[i].pc = "settle" => parkedOn[i] = run[i].req
               /\ status[i] = "blocked" => parkedOn[i] # 0
               /\ parkedOn[i] # 0 => FiledOn(parkedOn[i], i)
  <1> USE DEF WorkTypeOK, TypeOK
  <1>1. \A i \in Items : Sound(run[i], i) /\ Parked(i)
    BY DEF RunsAreSound
  <1>2. \A b \in Bookings : bstate[b] # "absent" => bstate'[b] # "absent" /\ bitem'[b] = bitem[b]
    BY BookingChanges DEF BookingChange, Live
  <1>3. \A q \in Requests : rstate[q] # "absent" => rstate'[q] # "absent" /\ ritem'[q] = ritem[q]
    BY RequestsKeep
  <1>4. \A q \in Requests : q \in granted => q \in granted'
    BY RequestsKeep
  <1>5. ASSUME NEW i \in Items, NEW r, Sound(r, i)
        PROVE  StillSound(r, i)
    BY <1>2, <1>3, <1>4, <1>5 DEF FiledOn
  <1>6. \A i \in Items : Sound(Idle, i) /\ Sound(Begun, i)
    BY DEF Idle, Begun
  <1>7. ASSUME NEW i \in Items, ~RunStep(i)
        PROVE  StillSound(run'[i], i) /\ Parked(i)'
    <2>1. OutsideStep(i)
      BY <1>7, OutsideKeeps
    <2>2. run'[i] \in {run[i], Begun, Idle}
      BY <2>1 DEF OutsideStep
    <2>3. Sound(run'[i], i)
      <3> HIDE DEF Sound
      <3> QED
        BY <1>1, <1>6, <2>2
    <2>4. StillSound(run'[i], i)
      <3> HIDE DEF Sound, StillSound
      <3> QED
        BY <1>5, <2>3
    <2>5. parkedOn'[i] = parkedOn[i] /\ (parkedOn[i] # 0 => FiledOn(parkedOn[i], i))
      BY <1>1, <2>1 DEF OutsideStep
    <2>6. run'[i].pc = "settle" => run'[i] = run[i]
      BY <2>2 DEF Begun, Idle
    <2>7. status'[i] = "blocked" => status[i] = "blocked"
      BY <2>1 DEF OutsideStep
    <2>8. Parked(i)'
      BY <1>1, <1>3, <2>5, <2>6, <2>7 DEF FiledOn
    <2> QED
      BY <2>4, <2>8
  <1>8. ASSUME NEW i \in Items, RunStep(i)
        PROVE  StillSound(run'[i], i) /\ Parked(i)'
    <2>1. run[i] \in Run /\ assignee[i] \in Resources \cup {None}
      OBVIOUS
    <2>2. ASSUME Sound(run'[i], i), run'[i].pc # "settle", ~RunParks(i), ~\E q \in Requests : RunFiles(i, q)
          PROVE  StillSound(run'[i], i) /\ Parked(i)'
      <3>1. StillSound(run'[i], i)
        <4> HIDE DEF Sound, StillSound
        <4> QED
          BY <1>5, <2>2
      <3>2. ASSUME NEW s, Move(i, s)
            PROVE  status'[i] = s
        BY <3>2 DEF Move, Transition
      <3>3. parkedOn' = parkedOn /\ (status'[i] = "blocked" => status[i] = "blocked")
        BY <1>8, <2>2, <3>2 DEF RunStep, RunReads, RunListsBooking, RunStartsBooking, StartBooking,
            RunMoves, RunLinks, RunDenied, RunSettles, RunCalls, RunFails, RunReleases, Unassign,
            RunRecords, RunCloses, CloseBooking, CompleteBooking, CancelBooking, RunClaimsUse,
            RunReturns, Kept, vars, itemVars
      <3> QED
        BY <1>1, <1>3, <2>2, <3>1, <3>3 DEF FiledOn
    <2>3. \A pc : pc \notin {"start", "park", "settle", "call"} => Sound(Only(pc), i) /\ Only(pc).pc = pc
      BY DEF Only, Idle
    <2>4. ASSUME Leave(i) \/ GoTo(i, Begun) \/ GoTo(i, Only("release")) \/ GoTo(i, Only("deny"))
          PROVE  Sound(run'[i], i) /\ run'[i].pc # "settle"
      <3>1. \/ run'[i] = Idle \/ run'[i] = Begun
            \/ run'[i] = Only("release") \/ run'[i] = Only("deny")
        BY <2>4 DEF Leave, GoTo
      <3>2. Idle.pc # "settle" /\ Begun.pc # "settle"
        BY DEF Idle, Begun
      <3> HIDE DEF Sound
      <3> QED
        BY <1>6, <2>3, <3>1, <3>2
    <2>5. ASSUME NEW r \in Run, Sound(r, i), Proceeds(i, r)
          PROVE  Sound(run'[i], i) /\ run'[i].pc # "settle"
      <3>1. ASSUME NEW q \in Linked(i, r.slot), GoTo(i, [Only("park") EXCEPT !.req = q])
            PROVE  Sound(run'[i], i) /\ run'[i].pc # "settle"
        BY <3>1 DEF GoTo, Only, Idle, Linked, FiledOn
      <3>2. ASSUME Linked(i, r.slot) \subseteq granted,
                   GoTo(i, [r EXCEPT !.pc = "work", !.use = Linked(i, r.slot)])
            PROVE  Sound(run'[i], i) /\ run'[i].pc # "settle"
        <4>1. run'[i] = [r EXCEPT !.pc = "work", !.use = Linked(i, r.slot)]
          BY <3>2 DEF GoTo
        <4>2. run'[i].pc = "work" /\ run'[i].use = Linked(i, r.slot) /\ run'[i].filed = r.filed
          BY <4>1 DEF Run
        <4> QED
          BY <2>5, <3>2, <4>2 DEF Linked, FiledOn
      <3>3. ASSUME GoTo(i, Only("deny")) \/ GoTo(i, Only("release")) \/ Leave(i)
            PROVE  Sound(run'[i], i) /\ run'[i].pc # "settle"
        <4> HIDE DEF Sound
        <4> QED
          BY <2>4, <3>3
      <3> QED
        BY <2>5, <3>1, <3>2, <3>3, ProceedsTo
    <2>6. CASE RunReads(i)
      <3> DEFINE r == [run[i] EXCEPT !.slot = assignee[i]]
      <3>1. r \in Run /\ r.book = run[i].book /\ r.req = run[i].req /\ r.filed = run[i].filed
            /\ r.use = run[i].use /\ r.pc = "read"
        BY <2>1, <2>6 DEF Run, RunReads
      <3>2. Sound(r, i)
        BY <1>1, <3>1
      <3>3. ASSUME NEW pc \in {"move", "list"}, GoTo(i, [r EXCEPT !.pc = pc])
            PROVE  Sound(run'[i], i) /\ run'[i].pc # "settle"
        <4>1. /\ run'[i].pc = pc /\ run'[i].filed = r.filed /\ run'[i].use = r.use
          BY <3>1, <3>3 DEF GoTo, Run
        <4> QED
          BY <3>2, <4>1
      <3>4. \/ Leave(i) \/ GoTo(i, Only("release")) \/ GoTo(i, [r EXCEPT !.pc = "move"])
            \/ GoTo(i, [r EXCEPT !.pc = "list"]) \/ Proceeds(i, r)
        BY <2>6 DEF RunReads, Refused
      <3>5. Sound(run'[i], i) /\ run'[i].pc # "settle"
        <4> HIDE DEF Sound
        <4>1. CASE Leave(i) \/ GoTo(i, Only("release"))
          BY <2>4, <4>1
        <4>2. CASE Proceeds(i, r)
          <5> HIDE DEF r
          <5> QED
            BY <2>5, <3>1, <3>2, <4>2
        <4> QED
          BY <3>3, <3>4, <4>1, <4>2
      <3> QED
        BY <2>2, <2>6, <3>5 DEF RunReads, RunParks, RunFiles
    <2>7. CASE RunListsBooking(i)
      <3> DEFINE mine == {b \in Bookings : bitem[b] = i /\ bstate[b] = "scheduled"
                                            /\ bres[b] = run[i].slot}
                 c == CHOOSE b \in mine : TRUE
      <3>1. CASE Cardinality(mine) = 1
        <4>1. mine # {}
          BY <3>1, OneIsNotNone
        <4>2. c \in mine
          BY <4>1
        <4>3. run'[i] = [run[i] EXCEPT !.pc = "start", !.book = c]
          BY <2>7, <3>1 DEF RunListsBooking, GoTo
        <4>4. c \in Bookings /\ bitem[c] = i /\ bstate[c] = "scheduled"
          BY <4>2
        <4> HIDE DEF c
        <4>5. /\ run'[i].pc = "start" /\ run'[i].book = c
              /\ run'[i].filed = run[i].filed /\ run'[i].use = run[i].use
          BY <2>1, <4>3 DEF Run
        <4>6. Sound(run'[i], i) /\ run'[i].pc # "settle"
          BY <1>1, <4>4, <4>5
        <4> QED
          BY <2>2, <2>7, <4>6 DEF RunListsBooking, RunParks, RunFiles
      <3>2. CASE Cardinality(mine) # 1
        <4>1. Leave(i)
          BY <2>7, <3>2 DEF RunListsBooking
        <4> QED
          BY <2>2, <2>4, <2>7, <4>1 DEF RunListsBooking, RunParks, RunFiles
      <3> QED
        BY <3>1, <3>2
    <2>8. CASE RunStartsBooking(i) \/ RunMoves(i)
      <3>1. \/ Leave(i) \/ GoTo(i, [run[i] EXCEPT !.pc = "link", !.book = None])
            \/ GoTo(i, [run[i] EXCEPT !.pc = "link"])
        BY <2>8 DEF RunStartsBooking, RunMoves, Step
      <3>2. ASSUME \/ GoTo(i, [run[i] EXCEPT !.pc = "link", !.book = None])
                   \/ GoTo(i, [run[i] EXCEPT !.pc = "link"])
            PROVE  Sound(run'[i], i) /\ run'[i].pc # "settle"
        <4>1. run'[i].pc = "link" /\ run'[i].filed = run[i].filed /\ run'[i].use = run[i].use
          <5>1. \/ run'[i] = [run[i] EXCEPT !.pc = "link", !.book = None]
                \/ run'[i] = [run[i] EXCEPT !.pc = "link"]
            BY <3>2 DEF GoTo
          <5> QED
            BY <2>1, <5>1 DEF Run
        <4> QED
          BY <1>1, <4>1
      <3>3. Sound(run'[i], i) /\ run'[i].pc # "settle"
        BY <2>4, <3>1, <3>2
      <3> QED
        BY <2>2, <2>8, <3>3 DEF RunStartsBooking, RunMoves, RunParks, RunFiles
    <2>9. CASE RunLinks(i)
      <3>1. Sound(run'[i], i) /\ run'[i].pc # "settle"
        BY <1>1, <2>1, <2>5, <2>9 DEF RunLinks
      <3> QED
        BY <2>2, <2>9, <3>1 DEF RunLinks, RunParks, RunFiles
    <2>10. ASSUME NEW done, Closes(i, done)
           PROVE  Sound(run'[i], i) /\ run'[i].pc # "settle"
      <3>1. CASE GoTo(i, [Only("close") EXCEPT !.fin = done, !.todo = LiveOn(i)])
        BY <3>1 DEF GoTo, Only, Idle
      <3> QED
        BY <2>4, <2>10, <3>1 DEF Closes
    <2>11. CASE RunDenied(i) \/ RunFails(i) \/ RunRecords(i)
      <3>1. Leave(i) \/ \E done : Closes(i, done)
        BY <2>11 DEF RunDenied, RunFails, RunRecords
      <3>2. Sound(run'[i], i) /\ run'[i].pc # "settle"
        BY <2>4, <2>10, <3>1
      <3>3. StillSound(run'[i], i)
        <4> HIDE DEF Sound, StillSound
        <4> QED
          BY <1>5, <3>2
      <3>4. ASSUME NEW s, Move(i, s)
            PROVE  status'[i] = s
        BY <3>4 DEF Move, Transition
      <3>5. parkedOn' = parkedOn /\ (status'[i] = "blocked" => status[i] = "blocked")
        BY <2>11, <3>4 DEF RunDenied, RunFails, RunRecords, Kept, vars, itemVars
      <3> QED
        BY <1>1, <1>3, <3>2, <3>3, <3>5 DEF FiledOn
    <2>12. CASE RunParks(i)
      <3>1. CASE GoTo(i, [run[i] EXCEPT !.pc = "settle"]) /\ parkedOn' = [parkedOn EXCEPT ![i] = run[i].req]
        <4>1. /\ run'[i].pc = "settle" /\ run'[i].req = run[i].req
              /\ run'[i].filed = run[i].filed /\ run'[i].use = run[i].use
          BY <2>1, <3>1 DEF GoTo, Run
        <4>2. FiledOn(run[i].req, i)
          BY <1>1, <2>12 DEF RunParks
        <4>3. Sound(run'[i], i)
          BY <1>1, <4>1, <4>2
        <4>4. StillSound(run'[i], i)
          <5> HIDE DEF Sound, StillSound
          <5> QED
            BY <1>5, <4>3
        <4>5. run[i].req # 0
          BY <4>2, WorkAssumption DEF FiledOn, Requests
        <4>6. Parked(i)'
          BY <1>3, <3>1, <4>1, <4>2, <4>5 DEF FiledOn
        <4> QED
          BY <4>4, <4>6
      <3>2. CASE Leave(i) /\ UNCHANGED <<parkedOn, status>>
        <4>1. StillSound(run'[i], i)
          <5> HIDE DEF Sound, StillSound
          <5> QED
            BY <1>5, <2>4, <3>2
        <4>2. Parked(i)'
          BY <1>1, <1>3, <2>4, <3>2 DEF FiledOn
        <4> QED
          BY <4>1, <4>2
      <3> QED
        BY <2>12, <3>1, <3>2 DEF RunParks, Step, Kept, vars
    <2>13. CASE RunSettles(i) \/ RunReleases(i)
      <3>1. Leave(i) \/ GoTo(i, Begun)
        BY <2>13 DEF RunSettles, RunReleases
      <3> QED
        BY <2>2, <2>4, <2>13, <3>1 DEF RunSettles, RunReleases, RunParks, RunFiles
    <2>14. CASE RunCalls(i)
      <3>1. run'[i] = [run[i] EXCEPT !.pc = "work", !.req = 0]
        BY <2>14 DEF RunCalls, GoTo
      <3>2. run'[i].pc = "work" /\ run'[i].filed = run[i].filed /\ run'[i].use = run[i].use
        BY <2>1, <3>1 DEF Run
      <3>3. Sound(run'[i], i) /\ run'[i].pc # "settle"
        BY <1>1, <3>2
      <3> QED
        BY <2>2, <2>14, <3>3 DEF RunCalls, RunParks, RunFiles
    <2>15. ASSUME NEW q \in Requests, RunClaimsUse(i, q)
           PROVE  StillSound(run'[i], i) /\ Parked(i)'
      <3>1. run'[i] = [run[i] EXCEPT !.pc = "call", !.req = q] /\ q \in run[i].use /\ UNCHANGED rstate
        BY <2>15 DEF RunClaimsUse, GoTo, NoRequests, requestVars
      <3>2. /\ run'[i].pc = "call" /\ run'[i].req = q
            /\ run'[i].filed = run[i].filed /\ run'[i].use = run[i].use
        BY <2>1, <3>1 DEF Run
      <3>3. Sound(run'[i], i) /\ run'[i].pc # "settle"
        BY <1>1, <3>1, <3>2
      <3> QED
        BY <2>2, <2>15, <3>1, <3>3 DEF RunClaimsUse, RunParks, RunFiles
    <2>16. ASSUME NEW q \in Requests, RunFiles(i, q)
           PROVE  StillSound(run'[i], i) /\ Parked(i)'
      <3>1. /\ run'[i] = [run[i] EXCEPT !.filed = IF @ = 0 THEN q ELSE @]
            /\ rstate'[q] = "pending" /\ ritem'[q] = i
            /\ UNCHANGED <<parkedOn, status>> /\ run[i].pc = "work"
        BY <2>16 DEF RunFiles, GoTo, Kept, vars
      <3>2. /\ run'[i].pc = "work" /\ run'[i].use = run[i].use
            /\ run'[i].filed = q \/ run'[i].filed = run[i].filed
        BY <2>1, <3>1 DEF Run
      <3>3. StillSound(run[i], i)
        <4> HIDE DEF Sound, StillSound
        <4> QED
          BY <1>1, <1>5
      <3>4. StillSound(run'[i], i)
        BY <3>1, <3>2, <3>3
      <3> QED
        BY <1>1, <1>3, <3>1, <3>2, <3>4 DEF FiledOn
    <2>17. ASSUME NEW c \in BOOLEAN, RunReturns(i, c)
           PROVE  StillSound(run'[i], i) /\ Parked(i)'
      <3>1. ASSUME run[i].filed # 0, GoTo(i, [Only("park") EXCEPT !.req = run[i].filed])
            PROVE  Sound(run'[i], i) /\ run'[i].pc # "settle"
        BY <1>1, <3>1 DEF GoTo, Only, Idle
      <3>2. ASSUME GoTo(i, [Only("record") EXCEPT !.fin = c])
            PROVE  Sound(run'[i], i) /\ run'[i].pc # "settle"
        BY <3>2 DEF GoTo, Only, Idle
      <3>3. Sound(run'[i], i) /\ run'[i].pc # "settle"
        <4> HIDE DEF Sound
        <4> QED
          BY <2>4, <2>17, <3>1, <3>2 DEF RunReturns
      <3>4. run[i].pc = "work" /\ UNCHANGED rstate
        BY <2>17 DEF RunReturns, NoRequests, requestVars
      <3> QED
        BY <2>2, <3>3, <3>4 DEF RunParks, RunFiles
    <2>18. CASE RunCloses(i)
      <3>1. ASSUME NEW b, GoTo(i, [run[i] EXCEPT !.todo = @ \ {b}])
            PROVE  Sound(run'[i], i) /\ run'[i].pc # "settle"
        <4>1. /\ run'[i].pc = "close" /\ run'[i].filed = run[i].filed /\ run'[i].use = run[i].use
          BY <2>1, <2>18, <3>1 DEF GoTo, Run, RunCloses
        <4> QED
          BY <1>1, <4>1
      <3>2. Sound(run'[i], i) /\ run'[i].pc # "settle"
        <4> HIDE DEF Sound
        <4> QED
          BY <2>4, <2>18, <3>1 DEF RunCloses
      <3> QED
        BY <2>2, <2>18, <3>2 DEF RunCloses, RunParks, RunFiles
    <2> QED
      BY <1>8, <2>6, <2>7, <2>8, <2>9, <2>11, <2>12, <2>13, <2>14, <2>15, <2>16, <2>17, <2>18 DEF
          RunStep
  <1> QED
    BY <1>7, <1>8 DEF RunsAreSound, FiledOn

-----------------------------------------------------------------------------
(* What a step of its run does to an item, by where the run is. *)

Goes(i, from, to) == run[i].pc \in from /\ run'[i].pc \in to
Left(i) == run'[i].pc \in {"idle", "read"} /\ (i \in restart => run'[i].pc = "read")
SameItem(i) == status'[i] = status[i] /\ assignee'[i] = assignee[i]
Becomes(i, s) == status'[i] = s /\ assignee'[i] = assignee[i]
SameSlot(i) == run'[i].slot = run[i].slot
\* its bookings are listed, if it has live ones
Lists(i) == \/ run'[i].pc = "close" /\ run'[i].todo = LiveOn(i)
            \/ Left(i) /\ LiveOn(i) = {}
\* past _cancel_or_park for agent a
Past(i, a) ==
    \/ run'[i].pc \in {"deny", "park"}
    \/ /\ run'[i].pc = "work" /\ run'[i].slot = a
       /\ Linked(i, a) \subseteq granted
    \/ run'[i].pc = "release"
    \/ Left(i) /\ kind[i] # "request"

Reading(i) ==
    /\ run[i].pc = "read" /\ SameItem(i)
    /\ \/ Left(i) /\ (assignee[i] = None \/ status[i] \notin {"open", "scheduled", "in_progress"})
       \/ Left(i) /\ kind[i] # "request"
       \/ /\ assignee[i] # None /\ status[i] \in {"open", "scheduled", "in_progress"}
          /\ run'[i].pc = "release"
       \/ assignee[i] # None /\ status[i] = "open" /\ run'[i].pc = "move" /\ run'[i].slot = assignee[i]
       \/ assignee[i] # None /\ status[i] = "scheduled" /\ run'[i].pc = "list" /\ run'[i].slot = assignee[i]
       \/ assignee[i] # None /\ status[i] = "in_progress" /\ Past(i, assignee[i])

Booking(i) ==
    LET mine == {b \in Bookings : bitem[b] = i /\ bstate[b] = "scheduled" /\ bres[b] = run[i].slot} IN
    \/ /\ Goes(i, {"list"}, {"start"}) /\ SameItem(i) /\ SameSlot(i)
       /\ bstate'[run'[i].book] = "scheduled"
    \/ run[i].pc = "list" /\ Left(i) /\ SameItem(i) /\ Cardinality(mine) # 1
    \/ /\ Goes(i, {"start"}, {"link"}) /\ Becomes(i, "in_progress") /\ SameSlot(i)
       /\ run[i].book \in LiveOn(i) /\ bstate'[run[i].book] = "active"
    \/ run[i].pc = "start" /\ Left(i) /\ SameItem(i) /\ bstate[run[i].book] # "scheduled"

Moving(i) ==
    \/ Goes(i, {"move"}, {"link"}) /\ status[i] = "open" /\ Becomes(i, "in_progress") /\ SameSlot(i)
    \/ run[i].pc = "move" /\ Left(i) /\ SameItem(i) /\ (status[i] # "open" \/ assignee[i] = None)
    \/ run[i].pc = "link" /\ SameItem(i) /\ Past(i, run[i].slot)

Parking(i) ==
    \/ /\ Goes(i, {"park"}, {"settle"}) /\ Becomes(i, "blocked")
       /\ status[i] \in {"open", "in_progress", "blocked"}
       /\ parkedOn'[i] = run[i].req /\ run'[i].req = run[i].req
    \/ run[i].pc = "park" /\ Left(i) /\ SameItem(i) /\ status[i] \notin {"open", "in_progress", "blocked"}
    \/ Goes(i, {"settle"}, {"read"}) /\ status[i] = "blocked" /\ Becomes(i, "in_progress")
    \/ /\ run[i].pc = "settle" /\ Left(i) /\ ParkedOn(i, run[i].req)
       /\ rstate[run[i].req] = "denied" /\ Becomes(i, "cancelled")
    \/ /\ run[i].pc = "settle" /\ Left(i) /\ SameItem(i)
       /\ ~(ParkedOn(i, run[i].req) /\ Settled(run[i].req))

Working(i) ==
    \/ /\ \/ Goes(i, {"work"}, {"call"}) /\ \E q \in Requests : RunClaimsUse(i, q)
          \/ Goes(i, {"call"}, {"work"})
       /\ SameItem(i) /\ SameSlot(i) /\ run'[i].filed = run[i].filed
    \/ Goes(i, {"work"}, {"work"}) /\ SameItem(i) /\ SameSlot(i) /\ run'[i].filed # 0
    \/ Goes(i, {"work"}, {"release", "park"}) /\ SameItem(i)
    \/ Goes(i, {"work"}, {"record"}) /\ SameItem(i) /\ run[i].filed = 0

Ending(i) ==
    \/ /\ \/ run[i].pc \in {"deny", "record"} /\ status'[i] \in EndedByOthers
          \/ run[i].pc = "record" /\ status'[i] = "done"
       /\ status[i] = "in_progress" /\ assignee'[i] = assignee[i] /\ Lists(i)
    \/ run[i].pc = "deny" /\ status[i] # "in_progress" /\ SameItem(i) /\ Left(i)
    \/ run[i].pc = "record" /\ status[i] # "in_progress" /\ SameItem(i) /\ Lists(i)
    \/ /\ run[i].pc = "release" /\ Left(i) /\ (Ended(i) => i \in returned')
       /\ IF assignee[i] # None THEN status'[i] = "open" /\ assignee'[i] = None ELSE SameItem(i)
       /\ assignee[i] # None => \A b \in LiveOn(i) : bstate'[b] = "cancelled"
    \/ /\ run[i].pc = "close" /\ SameItem(i)
       /\ \E b \in run[i].todo :
             /\ bstate'[b] \notin Live
             /\ \/ run'[i].pc = "close" /\ run'[i].todo = run[i].todo \ {b}
                \/ Left(i) /\ run[i].todo = {b}

Failing(i) ==
    /\ run[i].pc # "idle" /\ UNCHANGED parkedOn
    /\ \/ /\ run[i].pc # "settle" /\ status[i] = "in_progress"
          /\ Becomes(i, "failed") /\ Lists(i)
       \/ /\ SameItem(i) /\ Left(i)
          /\ <<i, IF run[i].pc = "settle" THEN "park" ELSE "run">> \in dropped'

LEMMA RunDoes ==
    ASSUME WorkTypeOK, RequestsAreFiled, RunsAreSound, OnlyTasks, NEW i \in Items, RunStep(i)
    PROVE  \/ Reading(i) \/ Booking(i) \/ Moving(i) \/ Parking(i) \/ Working(i) \/ Ending(i)
           \/ Failing(i)
  <1> USE DEF WorkTypeOK, TypeOK
  <1>1. run[i] \in Run
    OBVIOUS
  <1>2. Leave(i) => Left(i)
    BY DEF Leave, Left, Idle, Begun
  <1>3. \A pc : Only(pc).pc = pc
    BY DEF Only, Idle
  <1>4. ASSUME NEW s, Move(i, s)
        PROVE  Becomes(i, s) /\ UNCHANGED bookingVars
    BY <1>4 DEF Move, Transition, Becomes
  <1>5. ASSUME NEW r \in Run, Proceeds(i, r)
        PROVE  Past(i, r.slot)
    <2>1. ASSUME NEW q \in Linked(i, r.slot), GoTo(i, [Only("park") EXCEPT !.req = q])
          PROVE  run'[i].pc = "park"
      BY <2>1 DEF GoTo, Only, Idle
    <2>2. ASSUME GoTo(i, [r EXCEPT !.pc = "work", !.use = Linked(i, r.slot)])
          PROVE  run'[i].pc = "work" /\ run'[i].slot = r.slot
      BY <2>2 DEF GoTo, Run
    <2>3. GoTo(i, Only("deny")) => run'[i].pc = "deny"
      BY <1>3 DEF GoTo
    <2>4. GoTo(i, Only("release")) => run'[i].pc = "release"
      BY <1>3 DEF GoTo
    <2> QED
      BY <1>2, <1>5, <2>1, <2>2, <2>3, <2>4, ProceedsTo DEF Past
  <1>6. CASE RunReads(i)
    <2> DEFINE r == [run[i] EXCEPT !.slot = assignee[i]]
    <2>1. r \in Run /\ r.slot = assignee[i]
      BY <1>1 DEF Run
    <2>2. ASSUME NEW pc, GoTo(i, [r EXCEPT !.pc = pc])
          PROVE  run'[i].pc = pc /\ run'[i].slot = assignee[i]
      BY <2>1, <2>2 DEF GoTo, Run
    <2>3. SameItem(i) /\ run[i].pc = "read"
      BY <1>6 DEF RunReads, Kept, vars, SameItem
    <2>4. Refused(i) => \/ kind[i] = "request" /\ run'[i].pc = "release"
                        \/ kind[i] # "request" /\ Left(i)
      BY <1>2, <1>3 DEF Refused, GoTo
    <2>5. Proceeds(i, r) => Past(i, assignee[i])
      BY <1>5, <2>1
    <2>6. \/ /\ assignee[i] = None \/ status[i] \notin {"open", "scheduled", "in_progress"}
             /\ Leave(i)
          \/ /\ assignee[i] # None /\ status[i] \in {"open", "scheduled", "in_progress"}
             /\ \/ Refused(i)
                \/ status[i] = "open" /\ GoTo(i, [r EXCEPT !.pc = "move"])
                \/ status[i] = "scheduled" /\ GoTo(i, [r EXCEPT !.pc = "list"])
                \/ status[i] = "in_progress" /\ Proceeds(i, r)
      BY <1>6 DEF RunReads
    <2> HIDE DEF r
    <2> QED
      BY <1>2, <2>2, <2>3, <2>4, <2>5, <2>6 DEF Reading
  <1>7. CASE RunListsBooking(i)
    <2> DEFINE mine == {b \in Bookings : bitem[b] = i /\ bstate[b] = "scheduled" /\ bres[b] = run[i].slot}
               c == CHOOSE b \in mine : TRUE
    <2>1. SameItem(i) /\ run[i].pc = "list"
      BY <1>7 DEF RunListsBooking, Kept, vars, SameItem
    <2>2. CASE Cardinality(mine) = 1
      <3>1. c \in mine
        BY <2>2, OneIsNotNone
      <3>2. bstate'[c] = "scheduled"
        BY <1>7, <3>1 DEF RunListsBooking, Kept, vars, bookingVars
      <3>3. run'[i] = [run[i] EXCEPT !.pc = "start", !.book = c]
        BY <1>7, <2>2 DEF RunListsBooking, GoTo
      <3> HIDE DEF c
      <3>4. run'[i].pc = "start" /\ run'[i].book = c /\ SameSlot(i)
        BY <1>1, <3>3 DEF Run, SameSlot
      <3> QED
        BY <2>1, <3>2, <3>4 DEF Booking, Goes
    <2>3. CASE Cardinality(mine) # 1
      BY <1>2, <1>7, <2>1, <2>3 DEF RunListsBooking, Booking
    <2> QED
      BY <2>2, <2>3
  <1>8. CASE RunStartsBooking(i)
    <2>1. CASE bstate[run[i].book] = "scheduled"
      <3>1. run'[i] = [run[i] EXCEPT !.pc = "link", !.book = None]
        BY <1>8, <2>1 DEF RunStartsBooking, GoTo
      <3>2. run'[i].pc = "link" /\ SameSlot(i)
        BY <1>1, <3>1 DEF Run, SameSlot
      <3>3. run[i].book \in Bookings /\ bitem[run[i].book] = i /\ StartBooking(run[i].book)
        BY <1>8, <2>1 DEF RunStartsBooking, RunsAreSound
      <3>4. /\ Becomes(i, "in_progress") /\ bstate'[run[i].book] = "active"
            /\ run[i].book \in LiveOn(i)
        BY <3>3 DEF StartBooking, Becomes, LiveOn, Live
      <3> QED
        BY <1>8, <2>1, <3>2, <3>4 DEF RunStartsBooking, Booking, Goes
    <2>2. CASE bstate[run[i].book] # "scheduled"
      BY <1>2, <1>8, <2>2 DEF RunStartsBooking, Kept, vars, SameItem, Booking
    <2> QED
      BY <2>1, <2>2
  <1>9. CASE RunMoves(i)
    <2>1. CASE Moves(i, "open", "in_progress")
      <3>1. run'[i] = [run[i] EXCEPT !.pc = "link"] /\ Move(i, "in_progress")
        BY <1>9, <2>1 DEF RunMoves, Step, GoTo
      <3>2. run'[i].pc = "link" /\ SameSlot(i)
        BY <1>1, <3>1 DEF Run, SameSlot
      <3> QED
        BY <1>4, <1>9, <2>1, <3>1, <3>2 DEF RunMoves, Moves, Moving, Goes
    <2>2. CASE ~Moves(i, "open", "in_progress")
      <3>1. status[i] # "open" \/ assignee[i] = None
        BY <2>2, TaskMoves DEF Moves, OnlyTasks
      <3> QED
        BY <1>2, <1>9, <2>2, <3>1 DEF RunMoves, Kept, vars, SameItem, Moving
    <2> QED
      BY <2>1, <2>2
  <1>10. CASE RunLinks(i)
    BY <1>1, <1>5, <1>10 DEF RunLinks, Kept, vars, SameItem, Moving
  <1>11. ASSUME NEW done, Closes(i, done)
         PROVE  Lists(i)
    <2>1. CASE LiveOn(i) # {}
      <3>1. run'[i] = [Only("close") EXCEPT !.fin = done, !.todo = LiveOn(i)]
        BY <1>11, <2>1 DEF Closes, GoTo
      <3>2. run'[i].pc = "close" /\ run'[i].todo = LiveOn(i)
        BY <3>1 DEF Only, Idle
      <3> QED
        BY <3>2 DEF Lists
    <2> QED
      BY <1>2, <1>11, <2>1 DEF Closes, Lists
  <1>12. \A s \in EndedByOthers \cup {"done"} : Moves(i, "in_progress", s) <=> status[i] = "in_progress"
    BY TaskMoves DEF Moves, OnlyTasks, EndedByOthers
  <1>13. CASE RunDenied(i)
    <2>1. CASE status[i] = "in_progress"
      <3>1. Move(i, "cancelled") /\ Closes(i, FALSE) /\ run[i].pc = "deny"
        BY <1>12, <1>13, <2>1 DEF RunDenied, EndedByOthers
      <3>2. Becomes(i, "cancelled") /\ Lists(i)
        BY <1>4, <1>11, <3>1
      <3> QED
        BY <2>1, <3>1, <3>2 DEF Ending, Becomes, EndedByOthers
    <2>2. CASE status[i] # "in_progress"
      BY <1>2, <1>13, <2>2 DEF RunDenied, Moves, Kept, vars, SameItem, Ending
    <2> QED
      BY <2>1, <2>2
  <1>14. CASE RunFails(i)
    <2>1. ASSUME run[i].pc # "settle", Moves(i, "in_progress", "failed"), Move(i, "failed"), Closes(i, FALSE)
          PROVE  Failing(i)
      <3>1. Becomes(i, "failed") /\ Lists(i) /\ status[i] = "in_progress"
        BY <1>4, <1>11, <2>1 DEF Moves
      <3> QED
        BY <1>14, <2>1, <3>1 DEF RunFails, Failing
    <2>2. ASSUME Kept, Leave(i), Drops(i, IF run[i].pc = "settle" THEN "park" ELSE "run")
          PROVE  Failing(i)
      BY <1>2, <1>14, <2>2 DEF RunFails, Kept, vars, SameItem, Drops, Failing
    <2> QED
      BY <1>14, <2>1, <2>2 DEF RunFails
  <1>15. CASE RunRecords(i)
    <2> DEFINE end == IF run[i].fin THEN "done" ELSE "failed"
    <2>1. run[i].pc = "record" /\ Lists(i)
      BY <1>11, <1>15 DEF RunRecords
    <2>2. CASE status[i] = "in_progress"
      <3>1. Move(i, end)
        BY <1>12, <1>15, <2>2 DEF RunRecords, EndedByOthers
      <3>2. Becomes(i, end)
        BY <1>4, <3>1
      <3> QED
        BY <2>1, <2>2, <3>2 DEF Ending, Becomes, EndedByOthers
    <2>3. CASE status[i] # "in_progress"
      BY <1>15, <2>1, <2>3 DEF RunRecords, Moves, Kept, vars, SameItem, Ending
    <2> QED
      BY <2>2, <2>3
  <1>16. CASE RunParks(i)
    <2>1. CASE status[i] \in {"open", "in_progress", "blocked"}
      <3>1. MayMove(i, "blocked") \/ status[i] = "blocked"
        BY <2>1, TaskMoves DEF OnlyTasks
      <3>2. /\ run'[i] = [run[i] EXCEPT !.pc = "settle"] /\ run[i].pc = "park"
            /\ parkedOn' = [parkedOn EXCEPT ![i] = run[i].req]
            /\ Becomes(i, "blocked")
        BY <1>4, <1>16, <3>1 DEF RunParks, Step, GoTo, Kept, vars, Becomes
      <3>3. run'[i].pc = "settle" /\ run'[i].req = run[i].req
        BY <1>1, <3>2 DEF Run
      <3> QED
        BY <2>1, <3>2, <3>3 DEF Parking, Goes
    <2>2. CASE status[i] \notin {"open", "in_progress", "blocked"}
      <3>1. ~MayMove(i, "blocked")
        BY <2>2, TaskMoves DEF OnlyTasks
      <3> QED
        BY <1>2, <1>16, <2>2, <3>1 DEF RunParks, Kept, vars, SameItem, Parking
    <2> QED
      BY <2>1, <2>2
  <1>17. CASE RunSettles(i)
    <2> DEFINE q == run[i].req
    <2>1. CASE ParkedOn(i, q) /\ rstate[q] = "fulfilled"
      <3>1. Move(i, "in_progress") /\ run'[i].pc = "read" /\ run[i].pc = "settle"
        BY <1>17, <2>1 DEF RunSettles, GoTo, Begun, Idle
      <3> QED
        BY <1>4, <2>1, <3>1 DEF Parking, Goes, ParkedOn
    <2>2. CASE ParkedOn(i, q) /\ rstate[q] = "denied"
      <3>1. Move(i, "cancelled") /\ Left(i) /\ run[i].pc = "settle"
        BY <1>2, <1>17, <2>2 DEF RunSettles
      <3> QED
        BY <1>4, <2>2, <3>1 DEF Parking
    <2>3. CASE ~(ParkedOn(i, q) /\ Settled(q))
      <3>1. SameItem(i) /\ Left(i) /\ run[i].pc = "settle"
        BY <1>2, <1>17, <2>3 DEF RunSettles, Settled, Kept, vars, SameItem
      <3> QED
        BY <2>3, <3>1 DEF Parking
    <2> QED
      BY <2>1, <2>2, <2>3 DEF Settled
  <1>18. CASE RunCalls(i)
    <2>1. run'[i] = [run[i] EXCEPT !.pc = "work", !.req = 0] /\ run[i].pc = "call" /\ SameItem(i)
      BY <1>18 DEF RunCalls, GoTo, Kept, vars, SameItem
    <2>2. run'[i].pc = "work" /\ SameSlot(i) /\ run'[i].filed = run[i].filed
      BY <1>1, <2>1 DEF Run, SameSlot
    <2> QED
      BY <2>1, <2>2 DEF Working, Goes
  <1>19. CASE RunReleases(i)
    <2>1. assignee[i] # None => /\ status'[i] = "open" /\ assignee'[i] = None
                                /\ \A b \in LiveOn(i) : bstate'[b] = "cancelled"
      BY <1>19 DEF RunReleases, Unassign, LiveOn
    <2>2. assignee[i] = None => SameItem(i)
      BY <1>19 DEF RunReleases, vars, SameItem
    <2> QED
      BY <1>2, <1>19, <2>1, <2>2 DEF RunReleases, Ending
  <1>20. CASE RunCloses(i)
    <2>1. PICK b \in run[i].todo :
            /\ CloseBooking(b, run[i].fin)
            /\ IF run[i].todo = {b} THEN Leave(i) ELSE GoTo(i, [run[i] EXCEPT !.todo = @ \ {b}])
      BY <1>20 DEF RunCloses
    <2>2. SameItem(i) /\ run[i].pc = "close"
      BY <1>20, <2>1 DEF RunCloses, CloseBooking, CompleteBooking, CancelBooking, vars, itemVars,
          SameItem
    <2>3. GoTo(i, [run[i] EXCEPT !.todo = @ \ {b}]) =>
             run'[i].pc = "close" /\ run'[i].todo = run[i].todo \ {b}
      BY <1>1, <2>2 DEF GoTo, Run
    <2>4. bstate'[b] \notin Live
      <3>1. b \in Bookings
        BY <1>1, <2>1 DEF Run
      <3> QED
        BY <2>1, <3>1 DEF CloseBooking, CompleteBooking, CancelBooking, Live, Occupying, vars,
                          bookingVars
    <2> QED
      BY <1>2, <2>1, <2>2, <2>3, <2>4 DEF Ending
  <1>21. ASSUME NEW q \in Requests, RunClaimsUse(i, q)
         PROVE  Working(i)
    <2>1. run'[i] = [run[i] EXCEPT !.pc = "call", !.req = q] /\ run[i].pc = "work" /\ SameItem(i)
      BY <1>21 DEF RunClaimsUse, GoTo, Kept, vars, SameItem
    <2>2. run'[i].pc = "call" /\ SameSlot(i) /\ run'[i].filed = run[i].filed
      BY <1>1, <2>1 DEF Run, SameSlot
    <2> QED
      BY <1>21, <2>1, <2>2 DEF Working, Goes
  <1>22. ASSUME NEW q \in Requests, RunFiles(i, q)
         PROVE  Working(i)
    <2>1. /\ run'[i] = [run[i] EXCEPT !.filed = IF @ = 0 THEN q ELSE @]
          /\ run[i].pc = "work" /\ SameItem(i)
      BY <1>22 DEF RunFiles, GoTo, Kept, vars, SameItem
    <2>2. q # 0
      BY WorkAssumption DEF Requests
    <2>3. run'[i].pc = "work" /\ SameSlot(i) /\ run'[i].filed # 0
      BY <1>1, <2>1, <2>2 DEF Run, SameSlot
    <2> QED
      BY <2>1, <2>3 DEF Working, Goes
  <1>23. ASSUME NEW c \in BOOLEAN, RunReturns(i, c)
         PROVE  Working(i)
    <2>1. SameItem(i) /\ run[i].pc = "work"
      BY <1>23 DEF RunReturns, Kept, vars, SameItem
    <2>2. GoTo(i, Only("release")) => run'[i].pc = "release"
      BY <1>3 DEF GoTo
    <2>3. GoTo(i, [Only("park") EXCEPT !.req = run[i].filed]) => run'[i].pc = "park"
      BY DEF GoTo, Only, Idle
    <2>4. GoTo(i, [Only("record") EXCEPT !.fin = c]) => run'[i].pc = "record"
      BY DEF GoTo, Only, Idle
    <2> QED
      BY <1>23, <2>1, <2>2, <2>3, <2>4 DEF RunReturns, Working, Goes
  <1> QED
    BY <1>6, <1>7, <1>8, <1>9, <1>10, <1>13, <1>14, <1>15, <1>16, <1>17, <1>18, <1>19, <1>20, <1>21,
       <1>22, <1>23 DEF RunStep


(* What no step of a run writes. *)
LEMMA RunLeaves ==
    ASSUME NEW i \in Items, RunStep(i)
    PROVE  UNCHANGED <<kind, starting, noticeVars, handler, shipVars, capEvents>>
  BY DEF RunStep, RunReads, RunListsBooking, RunStartsBooking, RunMoves, RunLinks, RunDenied,
         RunParks, RunSettles, RunCalls, RunFails, RunReleases, RunRecords, RunCloses,
         RunClaimsUse, RunFiles, RunReturns, RunAdds, RunKeeps, NoRequests, requestVars

-----------------------------------------------------------------------------
(* Items under a run. *)

(* The runner creates tasks only, and the board changes no type. *)
LEMMA TasksStep ==
    ASSUME WorkTypeOK, RequestsAreFiled, RunsAreSound, OnlyTasks, [WorkNext]_allVars
    PROVE  OnlyTasks'
  <1> USE DEF WorkTypeOK, TypeOK, OnlyTasks
  <1>1. ASSUME NEW i \in Items, NEW k \in Kinds, NEW a \in Resources \cup {None},
               AgentCreates(i, k, a)
        PROVE  OnlyTasks'
    BY <1>1 DEF AgentCreates, Create
  <1>2. ASSUME NEW i, NEW s, Move(i, s)
        PROVE  UNCHANGED workType
    BY <1>2 DEF Move, Transition
  <1>3. ASSUME NEW b, NEW c, CloseBooking(b, c)
        PROVE  UNCHANGED workType
    BY <1>3 DEF CloseBooking, CompleteBooking, CancelBooking, itemVars, vars
  <1>4. ASSUME NEW i \in Items, RunStep(i)
        PROVE  UNCHANGED workType
    <2>1. ASSUME RunMoves(i) \/ RunDenied(i) \/ RunParks(i) \/ RunSettles(i) \/ RunRecords(i)
                     \/ RunFails(i)
          PROVE  UNCHANGED workType
      BY <1>2, <2>1 DEF RunMoves, RunDenied, RunParks, RunSettles, RunRecords, RunFails, Kept, vars
    <2>2. ASSUME RunStartsBooking(i) \/ RunReleases(i) \/ RunCloses(i)
          PROVE  UNCHANGED workType
      BY <1>3, <2>2 DEF RunStartsBooking, RunReleases, RunCloses, StartBooking, Unassign, Kept, vars
    <2>3. ASSUME \/ RunReads(i) \/ RunListsBooking(i) \/ RunLinks(i) \/ RunCalls(i)
                 \/ \E q \in Requests : RunClaimsUse(i, q) \/ RunFiles(i, q)
                 \/ \E c \in BOOLEAN : RunReturns(i, c)
          PROVE  UNCHANGED workType
      BY <2>3 DEF RunReads, RunListsBooking, RunLinks, RunCalls, RunClaimsUse, RunFiles, RunReturns,
                  Kept, vars
    <2> QED
      BY <1>4, <2>1, <2>2, <2>3 DEF RunStep
  <1>5. ASSUME \/ \E i \in Items, a \in Resources, b \in Bookings, v \in BOOLEAN : AgentClaims(i, a, b, v)
               \/ \E i \in Items : Cancelled(i) \/ EventCloses(i)
               \/ \E q \in Requests, e \in Verdicts : CapabilityEvent(q, e) \/ CapabilityEventFails(q, e)
        PROVE  UNCHANGED workType
    BY <1>2, <1>3, <1>5 DEF AgentClaims, Claim, Book, Cancelled, EventCloses, CapabilityEvent,
        CapabilityEventFails, Kept, vars
  <1>6. ASSUME \/ \E i \in Items, w \in Recipients : WatcherAdded(i, w)
               \/ \E q \in Requests, d \in Deciders : DecisionStep(q, d)
               \/ \E i \in Items : Starts(i) \/ StartFails(i) \/ EventReads(i)
                                  \/ EventLists(i) \/ EventDelivers(i)
                                   \/ EventFails(i)
               \/ DeliveryStep \/ ShipStops \/ ShipEnds \/ ShipStarts \/ RecoverStep
               \/ UNCHANGED allVars
        PROVE  UNCHANGED workType
    BY <1>6, DecisionLeaves DEF WatcherAdded, Starts, StartFails, EventReads, EventFails,
        EventLists, EventDelivers, DeliveryStep, DeliveryFails, DeliveryClaims, DeliveryPosts,
        ShipStops, ShipEnds, ShipStarts, RecoverStep, RecoverStarts, RecoverDelivers, allVars, vars
  <1>7. CASE UNCHANGED workType
    BY <1>7
  <1> QED
    BY <1>1, <1>4, <1>5, <1>6, <1>7 DEF WorkNext, Others, HandlerStep

(* An item that is under way or run is somebody's, and stays the agent's   *)
(* whose call and booking the run looks at. *)
LEMMA HeldStep ==
    ASSUME WorkTypeOK, LiveBookingOwned, RequestsAreFiled, RunsAreSound, OnlyTasks, HeldItems,
           RunStatus, [WorkNext]_allVars
    PROVE  HeldItems'
  <1> DEFINE Held(i) ==
        /\ status'[i] = "absent" => assignee'[i] = None
        /\ status'[i] \in {"scheduled", "in_progress", "blocked"} => assignee'[i] # None
        /\ run'[i].pc \notin {"idle", "read"} => assignee'[i] # None
        /\ run'[i].pc \in {"list", "start", "move", "link", "work", "call"}
              => run'[i].slot = assignee'[i]
  <1> USE DEF HeldItems
  <1>1. ASSUME NEW i \in Items, ~RunStep(i)
        PROVE  Held(i)
    <2>1. OutsideStep(i)
      BY <1>1, OutsideKeeps
    <2> QED
      BY <2>1 DEF OutsideStep, Idle, Begun
  <1>2. ASSUME NEW i \in Items, RunStep(i)
        PROVE  Held(i)
    <2> USE DEF RunStatus, EndedByOthers, Left, Goes, SameItem, SameSlot, Becomes, Past, Lists
    <2>1. CASE Reading(i)
      BY <2>1 DEF Reading
    <2>2. CASE Booking(i)
      BY <2>2 DEF Booking
    <2>3. CASE Moving(i)
      BY <2>3 DEF Moving
    <2>4. CASE Parking(i)
      BY <2>4 DEF Parking
    <2>5. CASE Working(i)
      BY <2>5 DEF Working
    <2>6. CASE Ending(i)
      BY <2>6 DEF Ending
    <2>7. CASE Failing(i)
      BY <2>7 DEF Failing
    <2> QED
      BY <1>2, <2>1, <2>2, <2>3, <2>4, <2>5, <2>6, <2>7, RunDoes
  <1> QED
    BY <1>1, <1>2

(* Where a run is says what its item may be: what the others do to an item *)
(* under a run is to cancel it, and to resume it while it is parked.       *)
LEMMA StatusStep ==
    ASSUME WorkTypeOK, LiveBookingOwned, RequestsAreFiled, RunsAreSound, OnlyTasks, DownMeansIdle,
           HeldItems, RunStatus, [WorkNext]_allVars
    PROVE  RunStatus'
  <1> DEFINE Fits(i) ==
        /\ run'[i].pc \in {"list", "start"} => status'[i] = "scheduled"
        /\ run'[i].pc = "move" => status'[i] \in {"open"} \cup EndedByOthers
        /\ run'[i].pc \in {"link", "deny", "park", "work", "call", "record"}
              => status'[i] \in {"in_progress"} \cup EndedByOthers
        /\ run'[i].pc = "settle" => status'[i] \in {"blocked", "in_progress"} \cup EndedByOthers
        /\ run'[i].pc = "release"
              => status'[i] \in {"open", "scheduled", "in_progress"} \cup EndedByOthers
        /\ run'[i].pc = "settle" /\ status'[i] = "in_progress"
              => starting'[i] > 0 \/ i \in restart' \/ <<i, "run">> \in dropped'
  <1> USE DEF RunStatus, EndedByOthers
  <1>1. ASSUME NEW i \in Items, ~RunStep(i)
        PROVE  Fits(i)
    <2>1. OutsideStep(i)
      BY <1>1, OutsideKeeps
    <2>2. mode' # "up" => run'[i].pc = "idle"
      BY ProcessStep DEF DownMeansIdle
    <2>3. mode' = "up" => dropped \subseteq dropped'
      BY DroppedGrows
    <2> QED
      BY <2>1, <2>2, <2>3 DEF OutsideStep, Idle, Begun, HeldItems
  <1>2. ASSUME NEW i \in Items, RunStep(i)
        PROVE  Fits(i)
    <2> USE DEF Left, Goes, SameItem, SameSlot, Becomes, Past, Lists
    <2>1. CASE Reading(i)
      BY <2>1 DEF Reading
    <2>2. CASE Booking(i)
      BY <2>2 DEF Booking
    <2>3. CASE Moving(i)
      BY <2>3 DEF Moving
    <2>4. CASE Parking(i)
      BY <2>4 DEF Parking
    <2>5. CASE Working(i)
      BY <2>5 DEF Working
    <2>6. CASE Ending(i)
      BY <2>6 DEF Ending
    <2>7. CASE Failing(i)
      BY <2>7 DEF Failing
    <2> QED
      BY <1>2, <2>1, <2>2, <2>3, <2>4, <2>5, <2>6, <2>7, RunDoes
  <1> QED
    BY <1>1, <1>2

-----------------------------------------------------------------------------
(* Calls. *)

(* What an agent filed on an item stays granted, unless the item's run     *)
(* files another call. *)
LEMMA LinkedKeeps ==
    ASSUME WorkTypeOK, RequestsAreFiled, [WorkNext]_allVars, NEW i \in Items, NEW a,
           Linked(i, a) \subseteq granted,
           ~ \E q \in Requests : RunFiles(i, q),
           NEW q \in Requests, rstate'[q] # "absent", ritem'[q] = i, ragent'[q] = a
    PROVE  q \in granted'
  <1>1. CASE rstate[q] = "absent"
    <2>1. PICK j \in Items : RunFiles(j, q)
      BY <1>1, RequestsKeep
    <2>2. ritem'[q] = j
      BY <2>1 DEF RunFiles, WorkTypeOK
    <2> QED
      BY <2>1, <2>2
  <1>2. CASE rstate[q] # "absent"
    <2>1. q \in Linked(i, a)
      BY <1>2, RequestsKeep DEF Linked
    <2> QED
      BY <2>1, RequestsKeep
  <1> QED
    BY <1>1, <1>2

(* Filing a call keeps the run at work, with a call filed. *)
LEMMA FilingGoesOn ==
    ASSUME WorkTypeOK, NEW i \in Items, NEW q \in Requests, RunFiles(i, q)
    PROVE  run[i].pc = "work" /\ run'[i].pc = "work" /\ run'[i].filed # 0
  <1>1. run[i] \in Run /\ q # 0
    BY WorkAssumption DEF WorkTypeOK, Requests
  <1>2. run'[i] = [run[i] EXCEPT !.filed = IF @ = 0 THEN q ELSE @] /\ run[i].pc = "work"
    BY DEF RunFiles, GoTo, WorkTypeOK
  <1> QED
    BY <1>1, <1>2 DEF Run

(* A run goes to work past granted calls only,   and records an outcome    *)
(* only if it filed no other. *)
LEMMA CallsStep ==
    ASSUME WorkTypeOK, LiveBookingOwned, RequestsAreFiled, RunsAreSound, OnlyTasks, HeldItems,
           CallsSeen, [WorkNext]_allVars
    PROVE  CallsSeen'
  <1> DEFINE AllGranted(i) == Linked(i, assignee[i]) \subseteq granted
             StillGranted(i) ==
               \A q \in Requests : rstate'[q] # "absent" /\ ritem'[q] = i /\ ragent'[q] = assignee'[i]
                                       => q \in granted'
             Seen(i) ==
               /\ run'[i].pc \in {"work", "call"} /\ run'[i].filed = 0 => StillGranted(i)
               /\ run'[i].pc = "record" => StillGranted(i)
  <1>1. ASSUME NEW i \in Items, AllGranted(i), assignee'[i] = assignee[i],
               ~ \E q \in Requests : RunFiles(i, q)
        PROVE  StillGranted(i)
    BY <1>1, LinkedKeeps
  <1>2. ASSUME NEW i \in Items, NEW q \in Requests, RunFiles(i, q)
        PROVE  Seen(i)
    BY <1>2, FilingGoesOn
  <1>3. ASSUME NEW i \in Items, ~RunStep(i)
        PROVE  Seen(i)
    <2>1. OutsideStep(i)
      BY <1>3, OutsideKeeps
    <2>2. ~ \E q \in Requests : RunFiles(i, q)
      BY <1>3 DEF RunStep
    <2>3. run'[i].pc \in {"work", "call", "record"} =>
             run'[i] = run[i] /\ assignee'[i] = assignee[i]
      BY <2>1 DEF OutsideStep, Idle, Begun, HeldItems
    <2>4. (run'[i].pc \in {"work", "call"} /\ run'[i].filed = 0) \/ run'[i].pc = "record"
             => AllGranted(i)
      BY <2>3 DEF CallsSeen
    <2> HIDE DEF AllGranted, StillGranted
    <2> QED
      BY <1>1, <2>2, <2>3, <2>4
  <1>4. ASSUME NEW i \in Items, RunStep(i), ~ \E q \in Requests : RunFiles(i, q)
        PROVE  Seen(i)
    <2>1. (run'[i].pc \in {"work", "call"} /\ run'[i].filed = 0) \/ run'[i].pc = "record"
             => AllGranted(i) /\ assignee'[i] = assignee[i]
      <3> USE DEF HeldItems, CallsSeen, Left, Goes, SameItem, SameSlot, Becomes, Past, Lists
      <3>1. CASE Reading(i)
        BY <3>1 DEF Reading
      <3>2. CASE Booking(i)
        BY <3>2 DEF Booking
      <3>3. CASE Moving(i)
        BY <3>3 DEF Moving
      <3>4. CASE Parking(i)
        BY <3>4 DEF Parking
      <3>5. CASE Working(i)
        BY <3>5 DEF Working
      <3>6. CASE Ending(i)
        BY <3>6 DEF Ending
      <3>7. CASE Failing(i)
        BY <3>7 DEF Failing
      <3> QED
        BY <1>4, <3>1, <3>2, <3>3, <3>4, <3>5, <3>6, <3>7, RunDoes
    <2> HIDE DEF AllGranted, StillGranted
    <2> QED
      BY <1>1, <1>4, <2>1
  <1>5. \A i \in Items : Seen(i)
    <2> HIDE DEF Seen
    <2> QED
      BY <1>2, <1>3, <1>4
  <1> QED
    BY <1>5 DEF CallsSeen, Linked

(* Only its own run makes an item done, from record. *)
LEMMA DoneStep ==
    ASSUME WorkTypeOK, LiveBookingOwned, RequestsAreFiled, RunsAreSound, OnlyTasks, HeldItems,
           RunStatus, CallsSeen, DoneHasAllCalls, [WorkNext]_allVars
    PROVE  DoneHasAllCalls'
  <1> DEFINE AllGranted(i) == Linked(i, assignee[i]) \subseteq granted
             StillGranted(i) ==
               \A q \in Requests : rstate'[q] # "absent" /\ ritem'[q] = i /\ ragent'[q] = assignee'[i]
                                       => q \in granted'
  <1>1. ASSUME NEW i \in Items, ~RunStep(i), status'[i] = "done"
        PROVE  AllGranted(i) /\ assignee'[i] = assignee[i]
    <2>1. OutsideStep(i)
      BY <1>1, OutsideKeeps
    <2> QED
      BY <1>1, <2>1 DEF OutsideStep, DoneHasAllCalls
  <1>2. ASSUME NEW i \in Items, RunStep(i), status'[i] = "done"
        PROVE  AllGranted(i) /\ assignee'[i] = assignee[i]
    <2> USE DEF DoneHasAllCalls, CallsSeen, RunStatus, EndedByOthers, Left, Goes, SameItem, SameSlot,
                Becomes, Past, Lists
    <2>1. CASE Reading(i)
      BY <1>2, <2>1 DEF Reading
    <2>2. CASE Booking(i)
      BY <1>2, <2>2 DEF Booking
    <2>3. CASE Moving(i)
      BY <1>2, <2>3 DEF Moving
    <2>4. CASE Parking(i)
      BY <1>2, <2>4 DEF Parking
    <2>5. CASE Working(i)
      BY <1>2, <2>5 DEF Working
    <2>6. CASE Ending(i)
      BY <1>2, <2>6 DEF Ending, HeldItems
    <2>7. CASE Failing(i)
      BY <1>2, <2>7 DEF Failing, HeldItems
    <2> QED
      BY <1>2, <2>1, <2>2, <2>3, <2>4, <2>5, <2>6, <2>7, RunDoes
  <1>3. ASSUME NEW i \in Items, status'[i] = "done", NEW q \in Requests
        PROVE  ~RunFiles(i, q)
    <2>1. SUFFICES ASSUME RunFiles(i, q)
                   PROVE  FALSE
      OBVIOUS
    <2>2. UNCHANGED status /\ run[i].pc = "work"
      BY <2>1 DEF RunFiles, Kept, vars, itemVars
    <2> QED
      BY <1>3, <2>2 DEF RunStatus, EndedByOthers
  <1>4. ASSUME NEW i \in Items, status'[i] = "done"
        PROVE  StillGranted(i)
    <2>1. AllGranted(i) /\ assignee'[i] = assignee[i]
      BY <1>1, <1>2, <1>4
    <2> QED
      BY <1>3, <1>4, <2>1, LinkedKeeps
  <1> QED
    BY <1>4 DEF DoneHasAllCalls, Linked

(* The use of an approval is one row: it is claimed once, by the item's    *)
(* only run, before the call. *)
LEMMA UsesStep ==
    ASSUME WorkTypeOK, LiveBookingOwned, RequestsAreFiled, RunsAreSound, OnlyTasks, UsesClaimed,
           [WorkNext]_allVars
    PROVE  UsesClaimed'
  <1> USE DEF WorkTypeOK
  <1>1. granted \subseteq granted'
    BY RequestsKeep
  <1>2. ASSUME NEW i \in Items, RunCalls(i)
        PROVE  UsesClaimed'
    <2> DEFINE q == run[i].req
    <2>1. FiledOn(q, i) /\ q \in used /\ calls[q] = 0
      BY <1>2 DEF RunCalls, RunsAreSound, UsesClaimed
    <2>2. calls' = [calls EXCEPT ![q] = 1] /\ UNCHANGED used
      BY <1>2, <2>1 DEF RunCalls
    <2>3. \A j \in Items : run'[j].pc = "call" => j # i /\ run'[j] = run[j]
      <3>1. run'[i].pc = "work"
        <4>1. run'[i] = [run[i] EXCEPT !.pc = "work", !.req = 0] /\ run[i] \in Run
          BY <1>2 DEF RunCalls, GoTo
        <4> QED
          BY <4>1 DEF Run
      <3> QED
        BY <1>2, <3>1 DEF RunCalls, GoTo
    <2>4. \A j \in Items : run'[j].pc = "call" => run'[j].req \in used /\ run'[j].req # q /\ calls[run'[j].req] = 0
      BY <2>1, <2>3 DEF UsesClaimed, RunsAreSound, FiledOn
    <2>5. q \in Requests
      BY <2>1 DEF FiledOn
    <2> HIDE DEF q
    <2> QED
      BY <1>1, <2>1, <2>2, <2>4, <2>5 DEF UsesClaimed
  <1>3. ASSUME NEW i \in Items, NEW q \in Requests, RunClaimsUse(i, q)
        PROVE  UsesClaimed'
    <2>1. /\ q \in run[i].use \ used /\ used' = used \cup {q} /\ UNCHANGED calls
          /\ run' = [run EXCEPT ![i] = [run[i] EXCEPT !.pc = "call", !.req = q]]
      BY <1>3 DEF RunClaimsUse, GoTo
    <2>2. q \in granted
      BY <2>1 DEF RunsAreSound
    <2>3. calls[q] = 0
      <3>1. calls[q] \in Nat /\ calls[q] <= 1 /\ calls[q] # 1
        BY <2>1 DEF UsesClaimed
      <3> QED
        BY ONLY <3>1
    <2>4. run'[i].req = q /\ \A j \in Items : j # i => run'[j] = run[j]
      BY <2>1 DEF Run
    <2> QED
      BY <1>1, <2>1, <2>2, <2>3, <2>4 DEF UsesClaimed
  <1>4. ASSUME ~ \E i \in Items : RunCalls(i), ~ \E i \in Items, q \in Requests : RunClaimsUse(i, q)
        PROVE  UNCHANGED <<used, calls>>
    <2>1. ASSUME NEW i \in Items, RunStep(i)
          PROVE  UNCHANGED <<used, calls>>
      BY <1>4, <2>1 DEF RunStep, RunReads, RunListsBooking, RunStartsBooking, RunMoves, RunLinks,
                RunDenied, RunParks, RunSettles, RunFails, RunReleases, RunRecords, RunCloses,
                RunFiles, RunReturns, NoCalls
    <2>2. ASSUME \/ \E i \in Items, k \in Kinds, a \in Resources \cup {None} : AgentCreates(i, k, a)
                 \/ \E i \in Items, a \in Resources, b \in Bookings, v \in BOOLEAN : AgentClaims(i, a, b, v)
                 \/ \E i \in Items : Cancelled(i)
                 \/ \E i \in Items, w \in Recipients : WatcherAdded(i, w)
                 \/ \E q \in Requests, d \in Deciders : DecisionStep(q, d)
                 \/ \E q \in Requests, e \in Verdicts : CapabilityEvent(q, e) \/ CapabilityEventFails(q, e)
                 \/ \E i \in Items : Starts(i) \/ StartFails(i) \/ HandlerStep(i)
                 \/ ShipStops \/ ShipEnds \/ DeliveryStep \/ ShipStarts \/ RecoverStep
                 \/ UNCHANGED allVars
          PROVE  UNCHANGED <<used, calls>>
      BY <2>2, DecisionLeaves DEF AgentCreates, AgentClaims, Cancelled, WatcherAdded,
          CapabilityEvent, CapabilityEventFails, Starts, StartFails, HandlerStep, EventFails,
          EventReads, EventLists, EventCloses, EventDelivers, ShipStops, ShipEnds, DeliveryStep,
          DeliveryFails, DeliveryClaims, DeliveryPosts, ShipStarts, RecoverStep, RecoverStarts,
          RecoverDelivers, allVars, workVars
    <2> QED
      BY <2>1, <2>2 DEF WorkNext, Others
  <1>5. ASSUME ~ \E i \in Items : RunCalls(i), ~ \E i \in Items, q \in Requests : RunClaimsUse(i, q)
        PROVE  UsesClaimed'
    <2>1. ASSUME NEW i \in Items, run'[i].pc = "call"
          PROVE  run[i].pc = "call" /\ run'[i].req = run[i].req
      <3>1. CASE ~RunStep(i)
        <4>1. OutsideStep(i)
          BY <3>1, OutsideKeeps
        <4> QED
          BY <2>1, <4>1 DEF OutsideStep, Idle, Begun
      <3>2. CASE RunStep(i)
        <4> USE DEF Left, Goes, Past, Lists
        <4>1. ~Reading(i) /\ ~Booking(i) /\ ~Moving(i) /\ ~Parking(i) /\ ~Ending(i)
              /\ ~Failing(i)
          BY <2>1 DEF Reading, Booking, Moving, Parking, Ending, Failing
        <4>2. ~Working(i)
          BY <1>5, <2>1 DEF Working
        <4> QED
          BY <3>2, <4>1, <4>2, RunDoes
      <3> QED
        BY <3>1, <3>2
    <2> QED
      BY <1>1, <1>4, <1>5, <2>1 DEF UsesClaimed
  <1> QED
    BY <1>2, <1>3, <1>5

-----------------------------------------------------------------------------
(* Closing bookings. *)

(* The steps of a handler of an item's end; nothing else moves one, but    *)
(* the end of the process. *)
HandlerMoves(i) ==
    \/ handler'[i] = handler[i]
    \/ handler'[i].pc = "idle" /\ mode' # "up"
    \/ /\ EventReads(i) /\ handler[i].pc = "idle" /\ UNCHANGED vars
       /\ IF Ended(i) THEN handler'[i].pc = "bookings" ELSE handler'[i].pc = "idle"
    \/ /\ handler[i].pc = "bookings" /\ UNCHANGED vars
       /\ \/ handler'[i].pc = "deliver" /\ LiveOn(i) = {}
          \/ handler'[i].pc = "close" /\ handler'[i].todo = LiveOn(i)
    \/ /\ EventCloses(i) /\ handler[i].pc = "close"
       /\ \E b \in handler[i].todo :
             /\ bstate'[b] \notin Live
             /\ \/ handler'[i].pc = "close" /\ handler'[i].todo = handler[i].todo \ {b}
                \/ handler'[i].pc = "deliver" /\ handler[i].todo = {b}
    \/ EventDelivers(i) /\ handler'[i].pc = "idle"
    \/ EventFails(i) /\ handler'[i].pc = "idle" /\ <<i, "end">> \in dropped'

LEMMA HandlerDoes ==
    ASSUME WorkTypeOK, [WorkNext]_allVars, NEW i \in Items
    PROVE  HandlerMoves(i)
  <1> USE DEF WorkTypeOK, TypeOK
  <1>1. ASSUME NEW j \in Items, EventReads(j)
        PROVE  HandlerMoves(i)
    BY <1>1 DEF EventReads, EventFails, NoEvent, HandlerMoves
  <1>2. ASSUME NEW j \in Items, EventLists(j)
        PROVE  HandlerMoves(i)
    <2>1. /\ handler[j].pc = "bookings" /\ UNCHANGED vars
          /\ i # j => handler'[i] = handler[i]
          /\ handler'[j] = IF LiveOn(j) = {} THEN [NoEvent EXCEPT !.pc = "deliver"]
                           ELSE [handler[j] EXCEPT !.pc = "close", !.todo = LiveOn(j)]
      BY <1>2 DEF EventLists
    <2>2. handler[j] \in Handler
      OBVIOUS
    <2>3. IF LiveOn(j) = {} THEN handler'[j].pc = "deliver"
          ELSE handler'[j].pc = "close" /\ handler'[j].todo = LiveOn(j)
      BY <2>1, <2>2 DEF NoEvent, Handler
    <2> QED
      BY <2>1, <2>3 DEF HandlerMoves
  <1>3. ASSUME NEW j \in Items, EventCloses(j)
        PROVE  HandlerMoves(i)
    <2>1. handler[j] \in Handler
      OBVIOUS
    <2>2. PICK b \in handler[j].todo :
            /\ CloseBooking(b, handler[j].fin)
            /\ handler' = [handler EXCEPT ![j] =
                 IF @.todo = {b} THEN [NoEvent EXCEPT !.pc = "deliver"]
                 ELSE [handler[j] EXCEPT !.todo = @ \ {b}]]
      BY <1>3 DEF EventCloses
    <2>3. bstate'[b] \notin Live
      <3>1. b \in Bookings
        BY <2>1, <2>2 DEF Handler
      <3> QED
        BY <2>2, <3>1 DEF CloseBooking, CompleteBooking, CancelBooking, Live, Occupying, vars,
                          bookingVars
    <2>4. /\ i # j => handler'[i] = handler[i]
          /\ handler'[j] = IF handler[j].todo = {b} THEN [NoEvent EXCEPT !.pc = "deliver"]
                           ELSE [handler[j] EXCEPT !.todo = @ \ {b}]
      BY <2>2
    <2>5. IF handler[j].todo = {b} THEN handler'[j].pc = "deliver"
          ELSE handler'[j].pc = handler[j].pc /\ handler'[j].todo = handler[j].todo \ {b}
      BY <2>1, <2>4 DEF NoEvent, Handler
    <2>6. handler[j].pc = "close"
      BY <1>3 DEF EventCloses
    <2> QED
      BY <1>3, <2>2, <2>3, <2>4, <2>5, <2>6 DEF HandlerMoves
  <1>4. ASSUME NEW j \in Items, EventDelivers(j)
        PROVE  HandlerMoves(i)
    BY <1>4 DEF EventDelivers, NoEvent, HandlerMoves
  <1>9. ASSUME NEW j \in Items, EventFails(j)
        PROVE  HandlerMoves(i)
    BY <1>9 DEF EventFails, Drops, NoEvent, HandlerMoves
  <1>5. CASE ShipEnds
    BY <1>5 DEF ShipEnds, NoEvent, HandlerMoves
  <1>6. ASSUME NEW j \in Items, RunStep(j)
        PROVE  UNCHANGED handler
    BY <1>6, RunLeaves
  <1>7. ASSUME \/ \E j \in Items, k \in Kinds, a \in Resources \cup {None} : AgentCreates(j, k, a)
               \/ \E j \in Items, a \in Resources, b \in Bookings, v \in BOOLEAN : AgentClaims(j, a, b, v)
               \/ \E j \in Items : Cancelled(j) \/ Starts(j) \/ StartFails(j)
               \/ \E j \in Items, w \in Recipients : WatcherAdded(j, w)
               \/ \E q \in Requests, d \in Deciders : DecisionStep(q, d)
               \/ \E q \in Requests, e \in Verdicts : CapabilityEvent(q, e) \/ CapabilityEventFails(q, e)
               \/ ShipStops \/ DeliveryStep \/ ShipStarts \/ RecoverStep
               \/ UNCHANGED allVars
        PROVE  UNCHANGED handler
    BY <1>7, DecisionLeaves DEF AgentCreates, AgentClaims, Cancelled, WatcherAdded, CapabilityEvent,
        CapabilityEventFails, Starts, StartFails, ShipStops, DeliveryStep, DeliveryFails,
        DeliveryClaims, DeliveryPosts, ShipStarts, RecoverStep, RecoverStarts, RecoverDelivers,
        eventVars, allVars, workVars
  <1>8. CASE UNCHANGED handler
    BY <1>8 DEF HandlerMoves
  <1> QED
    BY <1>1, <1>2, <1>3, <1>4, <1>5, <1>6, <1>7, <1>8, <1>9 DEF WorkNext, Others, HandlerStep

(* An item that was returned ended stays known as such. *)
LEMMA ReturnedGrows ==
    ASSUME [WorkNext]_allVars
    PROVE  returned \subseteq returned'
  <1>1. ASSUME NEW i \in Items, RunStep(i)
        PROVE  returned \subseteq returned'
    BY <1>1 DEF RunStep, RunReads, RunListsBooking, RunStartsBooking, RunMoves, RunLinks, RunDenied,
                RunParks, RunSettles, RunCalls, RunFails, RunReleases, RunRecords, RunCloses,
                RunClaimsUse, RunFiles, RunReturns, RunKeeps, exceptVars
  <1>2. ASSUME \/ \E i \in Items, k \in Kinds, a \in Resources \cup {None} : AgentCreates(i, k, a)
               \/ \E i \in Items, a \in Resources, b \in Bookings, v \in BOOLEAN : AgentClaims(i, a, b, v)
               \/ \E i \in Items : Cancelled(i)
               \/ \E i \in Items, w \in Recipients : WatcherAdded(i, w)
               \/ \E q \in Requests, d \in Deciders : DecisionStep(q, d)
               \/ \E q \in Requests, e \in Verdicts : CapabilityEvent(q, e) \/ CapabilityEventFails(q, e)
               \/ \E i \in Items : Starts(i) \/ StartFails(i) \/ HandlerStep(i)
               \/ ShipStops \/ ShipEnds \/ DeliveryStep \/ ShipStarts \/ RecoverStep
               \/ UNCHANGED allVars
        PROVE  UNCHANGED returned
    BY <1>2, DecisionLeaves DEF AgentCreates, AgentClaims, Cancelled, WatcherAdded, CapabilityEvent,
        CapabilityEventFails, Starts, StartFails, HandlerStep, EventFails, EventReads, EventLists,
        EventCloses, EventDelivers, ShipStops, ShipEnds, DeliveryStep, DeliveryFails,
        DeliveryClaims, DeliveryPosts, ShipStarts, RecoverStep, RecoverStarts, RecoverDelivers,
        exceptVars, allVars, workVars
  <1> QED
    BY <1>1, <1>2 DEF WorkNext, Others

(* An ended item keeps its end, unless a run gives it back to the board.   *)
LEMMA EndKept ==
    ASSUME WorkTypeOK, LiveBookingOwned, RequestsAreFiled, RunsAreSound, OnlyTasks, RunStatus,
           [WorkNext]_allVars, NEW i \in Items, Ended(i)
    PROVE  status'[i] = status[i] \/ (i \in returned' /\ status'[i] = "open")
  <1> USE DEF Ended, Terminal
  <1>1. CASE ~RunStep(i)
    <2>1. OutsideStep(i)
      BY <1>1, OutsideKeeps
    <2> QED
      BY <2>1 DEF OutsideStep
  <1>2. CASE RunStep(i)
    <2> USE DEF RunStatus, EndedByOthers, Left, Goes, SameItem, SameSlot, Becomes, Past, Lists
    <2>1. CASE Reading(i)
      BY <2>1 DEF Reading
    <2>2. CASE Booking(i)
      BY <2>2 DEF Booking
    <2>3. CASE Moving(i)
      BY <2>3 DEF Moving
    <2>4. CASE Parking(i)
      BY <2>4 DEF Parking, ParkedOn
    <2>5. CASE Working(i)
      BY <2>5 DEF Working
    <2>6. CASE Ending(i)
      BY <2>6 DEF Ending
    <2>7. CASE Failing(i)
      BY <2>7 DEF Failing
    <2> QED
      BY <1>2, <2>1, <2>2, <2>3, <2>4, <2>5, <2>6, <2>7, RunDoes
  <1> QED
    BY <1>1, <1>2

(* A live booking is new to an item only by the item's claim; a booking    *)
(* that exists stays the item's. *)
LEMMA LiveOnKeeps ==
    ASSUME WorkTypeOK, RunsAreSound, [WorkNext]_allVars, NEW i \in Items
    PROVE  /\ status[i] # "open" => LiveOn(i)' \subseteq LiveOn(i)
           /\ \A b \in Bookings : bitem[b] = i /\ bstate[b] # "absent"
                                     => bitem'[b] = i /\ bstate'[b] # "absent"
  <1>1. \A b \in Bookings : BookingChange(b)
    BY BookingChanges
  <1> QED
    BY <1>1 DEF BookingChange, LiveOn, Live

(* A closing goes over bookings of its own item. *)
LEMMA TodosStep ==
    ASSUME WorkTypeOK, LiveBookingOwned, RequestsAreFiled, RunsAreSound, OnlyTasks, TodosOwned,
           [WorkNext]_allVars
    PROVE  TodosOwned'
  <1>1. ASSUME NEW i \in Items
        PROVE  run'[i].pc = "close" =>
                 \/ run[i].pc = "close" /\ run'[i].todo \subseteq run[i].todo
                 \/ run'[i].todo = LiveOn(i)
    <2>1. CASE ~RunStep(i)
      <3>1. OutsideStep(i)
        BY <2>1, OutsideKeeps
      <3> QED
        BY <3>1 DEF OutsideStep, Idle, Begun
    <2>2. CASE RunStep(i)
      <3> USE DEF Left, Goes, Past, Lists
      <3>1. CASE Ending(i)
        BY <3>1 DEF Ending
      <3>2. CASE Reading(i) \/ Booking(i) \/ Moving(i) \/ Parking(i) \/ Working(i)
        BY <3>2 DEF Reading, Booking, Moving, Parking, Working
      <3>3. CASE Failing(i)
        BY <3>3 DEF Failing
      <3> QED
        BY <2>2, <3>1, <3>2, <3>3, RunDoes
    <2> QED
      BY <2>1, <2>2
  <1>2. ASSUME NEW i \in Items
        PROVE  handler'[i].pc = "close" =>
                 \/ handler[i].pc = "close" /\ handler'[i].todo \subseteq handler[i].todo
                 \/ handler'[i].todo = LiveOn(i)
    BY HandlerDoes DEF HandlerMoves
  <1>3. \A i \in Items : \A b \in LiveOn(i) : bitem[b] = i /\ bstate[b] # "absent"
    BY DEF LiveOn, Live
  <1>4. \A i \in Items : run[i].todo \in SUBSET Bookings /\ handler[i].todo \in SUBSET Bookings
    BY DEF WorkTypeOK, Run, Handler
  <1>5. \A i \in Items : LiveOn(i) \subseteq Bookings
    BY DEF LiveOn
  <1> QED
    BY <1>1, <1>2, <1>3, <1>4, <1>5, LiveOnKeeps DEF TodosOwned

(* A scheduled item keeps its booking until its run starts or returns it;  *)
(* only what is left of an end that was returned may cancel it before.     *)
LEMMA BookedStep ==
    ASSUME WorkTypeOK, BoardInv, RequestsAreFiled, RunsAreSound, OnlyTasks, HeldItems, RunStatus,
           BookedItems, TodosOwned, ClosingEnded, [WorkNext]_allVars
    PROVE  BookedItems'
  <1> USE DEF BoardInv
  <1>1. \A b \in Bookings : BookingChange(b)
    BY BookingChanges
  <1>2. returned \subseteq returned'
    BY ReturnedGrows
  \* no closing touches a booking of a scheduled item that was not returned
  <1>3. ASSUME NEW i \in Items \ returned, status[i] = "scheduled",
               NEW b \in Bookings, bitem[b] = i, bstate[b] = "scheduled"
        PROVE  \/ bstate'[b] = "scheduled" /\ bitem'[b] = i
               \/ RunStartsBooking(i) /\ run[i].book = b
               \/ RunReleases(i)
    <2>1. run[i].pc # "close" /\ handler[i].pc # "close"
      BY <1>3 DEF ClosingEnded, Ended, Terminal
    <2>2. ASSUME NEW j \in Items, RunCloses(j), b \in run[j].todo
          PROVE  FALSE
      BY <1>3, <2>1, <2>2 DEF RunCloses, TodosOwned
    <2>3. ASSUME NEW j \in Items, EventCloses(j), b \in handler[j].todo
          PROVE  FALSE
      BY <1>3, <2>1, <2>3 DEF EventCloses, TodosOwned
    <2> QED
      BY <1>1, <1>3, <2>2, <2>3 DEF BookingChange
  \* where a scheduled item goes
  <1>4. ASSUME NEW i \in Items, status[i] = "scheduled"
        PROVE  \/ status'[i] = "scheduled"
               \/ RunStep(i) /\ run[i].book \in LiveOn(i) /\ bstate'[run[i].book] = "active"
               \/ RunStep(i) /\ \A b \in LiveOn(i) : bstate'[b] = "cancelled"
    <2>1. CASE ~RunStep(i)
      <3>1. OutsideStep(i)
        BY <2>1, OutsideKeeps
      <3> QED
        BY <1>4, <3>1 DEF OutsideStep
    <2>2. CASE RunStep(i)
      <3> USE <1>4 DEF RunStatus, EndedByOthers, Goes, SameItem, Becomes
      <3>1. CASE Reading(i) \/ Moving(i)
        BY <3>1 DEF Reading, Moving
      <3>2. CASE Booking(i)
        BY <2>2, <3>2 DEF Booking
      <3>3. CASE Parking(i) \/ Working(i)
        BY <3>3 DEF Parking, Working
      <3>4. CASE Ending(i)
        BY <2>2, <3>4 DEF Ending
      <3>5. CASE Failing(i)
        BY <2>2, <3>5 DEF Failing
      <3> QED
        BY <2>2, <3>1, <3>2, <3>3, <3>4, <3>5, RunDoes
    <2> QED
      BY <2>1, <2>2
  <1>5. ASSUME NEW b \in Bookings, bstate'[b] = "scheduled"
        PROVE  status'[bitem'[b]] = "scheduled"
    <2>1. CASE bstate[b] = "scheduled" /\ bitem'[b] = bitem[b]
      <3> DEFINE i == bitem[b]
      <3>1. i \in Items /\ b \in LiveOn(i) /\ status[i] = "scheduled"
        BY <2>1 DEF BookedItems, LiveBookingOwned, LiveOn, Live
      <3>2. \A c \in LiveOn(i) : c = b
        BY <3>1 DEF OneLiveBooking, LiveOn
      <3> QED
        BY <1>4, <1>5, <2>1, <3>1, <3>2
    <2>2. CASE ~(bstate[b] = "scheduled" /\ bitem'[b] = bitem[b])
      BY <1>1, <1>5, <2>2 DEF BookingChange
    <2> QED
      BY <2>1, <2>2
  <1>6. ASSUME NEW i \in Items \ returned', status'[i] = "scheduled"
        PROVE  \E b \in Bookings : bstate'[b] = "scheduled" /\ bitem'[b] = i
    <2>1. CASE status[i] = "scheduled"
      <3>1. PICK b \in Bookings : bstate[b] = "scheduled" /\ bitem[b] = i
        BY <1>2, <2>1 DEF BookedItems
      <3>2. ASSUME RunStartsBooking(i), run[i].book = b
            PROVE  FALSE
        <4>1. StartBooking(b)
          BY <3>1, <3>2 DEF RunStartsBooking
        <4> QED
          BY <1>6, <3>1, <4>1 DEF StartBooking, WorkTypeOK, TypeOK
      <3>3. ASSUME RunReleases(i)
            PROVE  FALSE
        BY <1>6, <2>1, <3>3 DEF RunReleases, Unassign, HeldItems, WorkTypeOK, TypeOK
      <3> QED
        BY <1>2, <1>3, <2>1, <3>1, <3>2, <3>3
    <2>2. CASE status[i] # "scheduled"
      <3>1. CASE ~RunStep(i)
        <4>1. OutsideStep(i)
          BY <3>1, OutsideKeeps
        <4> QED
          BY <1>6, <2>2, <4>1 DEF OutsideStep
      <3>2. CASE RunStep(i)
        <4> USE <1>6, <2>2 DEF SameItem, Becomes, EndedByOthers
        <4>1. ~Reading(i) /\ ~Booking(i) /\ ~Moving(i)
          BY DEF Reading, Booking, Moving
        <4>2. ~Parking(i) /\ ~Working(i) /\ ~Ending(i) /\ ~Failing(i)
          BY DEF Parking, Working, Ending, Failing
        <4> QED
          BY <3>2, <4>1, <4>2, RunDoes
      <3> QED
        BY <3>1, <3>2
    <2> QED
      BY <2>1, <2>2
  <1>7. ASSUME NEW i \in Items \ returned', run'[i].pc = "start"
        PROVE  bstate'[run'[i].book] = "scheduled"
    <2>1. CASE ~RunStep(i)
      <3>1. OutsideStep(i)
        BY <2>1, OutsideKeeps
      <3>2. run'[i] = run[i]
        BY <1>7, <3>1 DEF OutsideStep, Idle, Begun
      <3>3. /\ bstate[run[i].book] = "scheduled" /\ run[i].book \in Bookings
            /\ bitem[run[i].book] = i /\ status[i] = "scheduled"
        BY <1>2, <1>7, <3>2 DEF BookedItems, RunsAreSound, RunStatus
      <3>4. ~RunStartsBooking(i) /\ ~RunReleases(i)
        BY <2>1 DEF RunStep
      <3> QED
        BY <1>2, <1>3, <1>7, <3>2, <3>3, <3>4
    <2>2. CASE RunStep(i)
      <3> USE <1>7 DEF Left, Goes, Past, Lists
      <3>1. ~Reading(i) /\ ~Moving(i) /\ ~Parking(i) /\ ~Working(i) /\ ~Ending(i)
            /\ ~Failing(i)
        BY DEF Reading, Moving, Parking, Working, Ending, Failing
      <3> QED
        BY <2>2, <3>1, RunDoes DEF Booking
    <2> QED
      BY <2>1, <2>2
  <1> QED
    BY <1>5, <1>6, <1>7 DEF BookedItems

(* What is closed has ended, and every live booking of it is on the list.  *)
LEMMA ClosingStep ==
    ASSUME WorkTypeOK, BoardInv, RequestsAreFiled, RunsAreSound, OnlyTasks, HeldItems, RunStatus,
           ClosingEnded, [WorkNext]_allVars
    PROVE  ClosingEnded'
  <1> USE DEF BoardInv
  <1>1. ASSUME NEW i \in Items \ returned'
        PROVE  Ended(i) => Ended(i)' /\ LiveOn(i)' \subseteq LiveOn(i)
    BY <1>1, EndKept, LiveOnKeeps DEF Ended, Terminal
  <1>2. returned \subseteq returned'
    BY ReturnedGrows
  <1>3. ASSUME NEW i \in Items \ returned', run'[i].pc = "close"
        PROVE  Ended(i)' /\ LiveOn(i)' \subseteq run'[i].todo
    <2>1. CASE ~RunStep(i)
      <3>1. OutsideStep(i)
        BY <2>1, OutsideKeeps
      <3>2. run'[i] = run[i]
        BY <1>3, <3>1 DEF OutsideStep, Idle, Begun
      <3> QED
        BY <1>1, <1>2, <1>3, <3>2 DEF ClosingEnded
    <2>2. CASE RunStep(i)
      <3>1. ~Reading(i) /\ ~Booking(i) /\ ~Moving(i) /\ ~Parking(i) /\ ~Working(i)
        BY <1>3 DEF Reading, Booking, Moving, Parking, Working, Left, Goes, Past
      <3>2. Ending(i) \/ Failing(i)
        BY <2>2, <3>1, RunDoes
      <3>3. CASE run[i].pc = "close"
        <4>1. PICK b \in run[i].todo : bstate'[b] \notin Live /\ run'[i].todo = run[i].todo \ {b}
          <5>1. status[i] # "in_progress"
            BY <1>2, <1>3, <3>3 DEF ClosingEnded, Ended, Terminal
          <5> QED
            BY <1>3, <3>2, <3>3, <5>1 DEF Ending, Failing, Left
        <4>2. Ended(i) /\ LiveOn(i) \subseteq run[i].todo
          BY <1>2, <1>3, <3>3 DEF ClosingEnded
        <4>3. b \notin LiveOn(i)'
          BY <4>1 DEF LiveOn
        <4> QED
          BY <1>1, <1>3, <4>1, <4>2, <4>3
      <3>4. CASE run[i].pc # "close"
        <4>1. /\ run'[i].todo = LiveOn(i) /\ status[i] # "open"
              /\ status'[i] \in {"cancelled", "failed", "done"}
          BY <1>3, <3>2, <3>4 DEF Ending, Failing, Left, Lists, RunStatus, EndedByOthers, SameItem,
              Becomes
        <4>2. LiveOn(i)' \subseteq LiveOn(i)
          BY <4>1, LiveOnKeeps
        <4> QED
          BY <4>1, <4>2 DEF Ended, Terminal
      <3> QED
        BY <3>3, <3>4
    <2> QED
      BY <2>1, <2>2
  <1>4. ASSUME NEW i \in Items \ returned', handler'[i].pc \in {"bookings", "close"}
        PROVE  Ended(i)' /\ (handler'[i].pc = "close" => LiveOn(i)' \subseteq handler'[i].todo)
    <2>1. Ended(i) /\ (handler'[i].pc = "close" => LiveOn(i)' \subseteq handler'[i].todo)
      <3>1. CASE handler'[i] = handler[i]
        BY <1>1, <1>2, <1>4, <3>1 DEF ClosingEnded
      <3>2. CASE handler[i].pc = "close" /\ handler'[i] # handler[i]
        <4>1. PICK b \in handler[i].todo :
                bstate'[b] \notin Live /\ handler'[i].todo = handler[i].todo \ {b}
          BY <1>4, <3>2, HandlerDoes DEF HandlerMoves, EventDelivers
        <4>2. Ended(i) /\ LiveOn(i) \subseteq handler[i].todo
          BY <1>2, <1>4, <3>2 DEF ClosingEnded
        <4>3. b \notin LiveOn(i)'
          BY <4>1 DEF LiveOn
        <4> QED
          BY <1>1, <1>4, <4>1, <4>2, <4>3
      <3>3. CASE handler[i].pc # "close" /\ handler'[i] # handler[i]
        <4>1. \/ Ended(i) /\ handler'[i].pc = "bookings"
              \/ handler[i].pc = "bookings" /\ handler'[i].todo = LiveOn(i)
          BY <1>4, <3>3, HandlerDoes DEF HandlerMoves
        <4> QED
          BY <1>1, <1>2, <1>4, <4>1 DEF ClosingEnded
      <3> QED
        BY <3>1, <3>2, <3>3
    <2> QED
      BY <1>1, <1>4, <2>1
  <1> QED
    BY <1>3, <1>4 DEF ClosingEnded

-----------------------------------------------------------------------------
(* Nothing is forgotten: the life of the process, starts and events.       *)

(* When the runner is up and has read what the last life left, it was so   *)
(* before, or recover() has just done it. *)
LEMMA LifeStep ==
    ASSUME [WorkNext]_allVars
    PROVE  /\ mode' = "up" /\ recover' # "list" =>
                 (mode = "up" /\ recover # "list") \/ RecoverStarts
           /\ mode' = "up" /\ recover' = "off" =>
                 (mode = "up" /\ recover = "off") \/ RecoverDelivers
           /\ mode' = "up" => mode = "up" \/ ShipStarts
           /\ crashes' = 0 => crashes = 0 \/ ShipEnds
           /\ ShipEnds \/ UNCHANGED <<crashes, settledBefore>>
  <1>1. ASSUME NEW i \in Items, RunStep(i)
        PROVE  UNCHANGED shipVars
    BY <1>1, RunLeaves
  <1>2. ASSUME \/ \E i \in Items, k \in Kinds, a \in Resources \cup {None} : AgentCreates(i, k, a)
               \/ \E i \in Items, a \in Resources, b \in Bookings, v \in BOOLEAN : AgentClaims(i, a, b, v)
               \/ \E i \in Items : Cancelled(i)
               \/ \E i \in Items, w \in Recipients : WatcherAdded(i, w)
               \/ \E q \in Requests, d \in Deciders : DecisionStep(q, d)
               \/ \E q \in Requests, e \in Verdicts : CapabilityEvent(q, e) \/ CapabilityEventFails(q, e)
               \/ \E i \in Items : Starts(i) \/ StartFails(i) \/ HandlerStep(i)
               \/ DeliveryStep \/ UNCHANGED allVars
        PROVE  UNCHANGED shipVars
    BY <1>2, DecisionLeaves DEF AgentCreates, AgentClaims, Cancelled, WatcherAdded, CapabilityEvent,
        CapabilityEventFails, Starts, StartFails, HandlerStep, EventFails, EventReads, EventLists,
        EventCloses, EventDelivers, DeliveryStep, DeliveryFails, DeliveryClaims, DeliveryPosts,
        allVars, workVars
  <1>3. CASE ShipStops \/ ShipStarts \/ RecoverStarts \/ RecoverDelivers
    BY <1>3 DEF ShipStops, ShipStarts, RecoverStarts, RecoverDelivers
  <1>4. CASE ShipEnds
    BY <1>4 DEF ShipEnds
  <1> QED
    BY <1>1, <1>2, <1>3, <1>4 DEF WorkNext, Others, RecoverStep, shipVars

(* An item's kind is fixed when it is created. *)
LEMMA KindKept ==
    ASSUME WorkTypeOK, [WorkNext]_allVars, NEW i \in Items, status[i] # "absent"
    PROVE  kind'[i] = kind[i]
  <1>1. ASSUME NEW j \in Items, RunStep(j)
        PROVE  UNCHANGED kind
    BY <1>1, RunLeaves
  <1>2. ASSUME NEW j \in Items, NEW k \in Kinds, NEW a \in Resources \cup {None}, AgentCreates(j, k, a)
        PROVE  kind'[i] = kind[i]
    BY <1>2 DEF AgentCreates, Create, WorkTypeOK
  <1>3. ASSUME \/ \E j \in Items, a \in Resources, b \in Bookings, v \in BOOLEAN : AgentClaims(j, a, b, v)
               \/ \E j \in Items : Cancelled(j)
               \/ \E j \in Items, w \in Recipients : WatcherAdded(j, w)
               \/ \E q \in Requests, d \in Deciders : DecisionStep(q, d)
               \/ \E q \in Requests, e \in Verdicts : CapabilityEvent(q, e) \/ CapabilityEventFails(q, e)
               \/ \E j \in Items : Starts(j) \/ StartFails(j) \/ HandlerStep(j)
               \/ ShipStops \/ ShipEnds \/ DeliveryStep \/ ShipStarts \/ RecoverStep
               \/ UNCHANGED allVars
        PROVE  UNCHANGED kind
    BY <1>3, DecisionLeaves DEF AgentClaims, Cancelled, WatcherAdded, CapabilityEvent,
        CapabilityEventFails, Starts, StartFails, HandlerStep, EventFails, EventReads, EventLists,
        EventCloses, EventDelivers, ShipStops, ShipEnds, DeliveryStep, DeliveryFails,
        DeliveryClaims, DeliveryPosts, ShipStarts, RecoverStep, RecoverStarts, RecoverDelivers,
        allVars, workVars
  <1> QED
    BY <1>1, <1>2, <1>3 DEF WorkNext, Others

(* BF-878: whatever takes a run of a live request away leaves a start. *)
LEMMA WakeUpStep ==
    ASSUME WorkTypeOK, BoardInv, RequestsAreFiled, RunsAreSound, OnlyTasks, DownMeansIdle, HeldItems,
           RunStatus, BookedItems, ClosingEnded, NoLostWakeUp, [WorkNext]_allVars
    PROVE  NoLostWakeUp'
  <1> DEFINE Awake(i) == run[i].pc # "idle" \/ starting[i] > 0 \/ <<i, "run">> \in dropped
             StillAwake(i) == run'[i].pc # "idle" \/ starting'[i] > 0 \/ <<i, "run">> \in dropped'
  <1> USE DEF BoardInv
  <1>1. SUFFICES ASSUME NEW i \in Items \ returned', mode' = "up", recover' # "list",
                        kind'[i] = "request", status'[i] \in {"scheduled", "in_progress"}
                 PROVE  StillAwake(i)
    BY DEF NoLostWakeUp
  <1>2. i \in Items \ returned
    BY <1>1, ReturnedGrows
  <1>0. dropped \subseteq dropped'
    BY <1>1, DroppedGrows
  <1>3. CASE RecoverStarts
    <2>1. status[i] \in {"scheduled", "in_progress"}
      BY <1>1, <1>3 DEF RecoverStarts, vars, itemVars
    <2>2. assignee[i] # None
      BY <2>1 DEF HeldItems
    <2> QED
      BY <1>3, <2>1, <2>2 DEF RecoverStarts, Terminal, Begun, Idle
  <1>4. CASE mode = "up" /\ recover # "list" /\ ~RunStep(i)
    <2>1. OutsideStep(i)
      BY <1>4, OutsideKeeps
    <2>2. CASE status'[i] = status[i]
      <3>1. kind[i] = "request"
        BY <1>1, <2>2, KindKept
      <3>2. Awake(i)
        BY <1>1, <1>2, <1>4, <2>2, <3>1 DEF NoLostWakeUp
      <3> QED
        BY <1>0, <1>1, <2>1, <3>2 DEF OutsideStep, Begun, Idle
    <2>3. CASE status'[i] # status[i]
      BY <1>1, <2>1, <2>3 DEF OutsideStep
    <2> QED
      BY <2>2, <2>3
  <1>5. CASE mode = "up" /\ recover # "list" /\ RunStep(i)
    <2>1. UNCHANGED <<kind, starting>>
      BY <1>5, RunLeaves
    <2>2. kind[i] = "request"
      BY <1>1, <2>1
    <2>3. ASSUME run[i].pc = "list"
          PROVE  Cardinality({b \in Bookings : bitem[b] = i /\ bstate[b] = "scheduled"
                                                /\ bres[b] = run[i].slot}) = 1
      <3> DEFINE mine == {b \in Bookings : bitem[b] = i /\ bstate[b] = "scheduled"
                                             /\ bres[b] = run[i].slot}
      <3>1. PICK b \in Bookings : bstate[b] = "scheduled" /\ bitem[b] = i
        BY <1>2, <2>3 DEF BookedItems, RunStatus
      <3>2. mine = {b}
        BY <2>3, <3>1 DEF LiveBookingOwned, OneLiveBooking, Live, HeldItems
      <3> HIDE DEF mine
      <3>3. Cardinality(mine) = 1
        BY <3>2, FS_Singleton
      <3> QED
        BY <3>3 DEF mine
    <2> USE <1>1 DEF Left, Goes, SameItem, SameSlot, Becomes, Past, Lists, EndedByOthers
    <2>4. CASE Reading(i)
      BY <2>2, <2>4 DEF Reading, HeldItems
    <2>5. CASE Booking(i)
      BY <1>2, <2>3, <2>5 DEF Booking, HeldItems, RunStatus, BookedItems
    <2>6. CASE Moving(i)
      BY <2>2, <2>6 DEF Moving, HeldItems, RunStatus
    <2>7. CASE Parking(i)
      BY <1>0, <2>1, <2>7 DEF Parking, RunStatus
    <2>8. CASE Working(i)
      BY <2>8 DEF Working
    <2>9. CASE Ending(i)
      BY <1>2, <2>9 DEF Ending, HeldItems, RunStatus, ClosingEnded, Ended, Terminal
    <2>10. CASE Failing(i)
      <3>1. StillAwake(i) \/ status'[i] = "failed"
        BY <1>0, <2>1, <2>10 DEF Failing, RunStatus
      <3> QED
        BY <3>1
    <2> QED
      BY <1>5, <2>4, <2>5, <2>6, <2>7, <2>8, <2>9, <2>10, RunDoes
  <1> QED
    BY <1>1, <1>3, <1>4, <1>5, LifeStep

(* BF-878: a park and the decision it waits for cross in no order that     *)
(* forgets the item. *)
LEMMA ParkStep ==
    ASSUME WorkTypeOK, LiveBookingOwned, RequestsAreFiled, RunsAreSound, OnlyTasks, DownMeansIdle,
           HeldItems, RunStatus, NoForgottenPark, [WorkNext]_allVars
    PROVE  NoForgottenPark'
  <1> DEFINE Known(q) == \E v \in Verdicts : capEvents[<<q, v>>] > 0
             Hears(i, q) == Known(q) \/ (run[i].pc = "settle" /\ run[i].req = q)
                                    \/ <<i, "park">> \in dropped
             StillKnown(q) == \E v \in Verdicts : capEvents'[<<q, v>>] > 0
             StillHears(i, q) == StillKnown(q) \/ (run'[i].pc = "settle" /\ run'[i].req = q)
                                              \/ <<i, "park">> \in dropped'
  <1>1. SUFFICES ASSUME NEW i \in Items, NEW q, q = parkedOn'[i], mode' = "up",
                        status'[i] = "blocked", Settled(q)', q \notin settledBefore'
                 PROVE  StillHears(i, q)
    BY DEF NoForgottenPark, Settled
  <1>2. q \in Requests
    BY <1>1, RunsSoundStep DEF RunsAreSound, FiledOn
  <1>3. SUFFICES ASSUME Settled(q)
                 PROVE  StillHears(i, q)
    BY <1>1, <1>2, SettlingAnnounced
  <1>4. mode = "up"
    BY <1>1, <1>2, <1>3, LifeStep DEF ShipStarts, DownMeansIdle
  <1>5. ~ShipEnds /\ UNCHANGED settledBefore /\ dropped \subseteq dropped'
    BY <1>1, LifeStep, DroppedGrows DEF ShipEnds
  <1>8. ASSUME status[i] = "blocked", parkedOn[i] = q
        PROVE  Hears(i, q)
    BY <1>1, <1>3, <1>4, <1>5, <1>8 DEF NoForgottenPark
  <1>6. CASE ~RunStep(i)
    <2>1. OutsideStep(i)
      BY <1>6, OutsideKeeps
    <2>2. status[i] = "blocked" /\ parkedOn[i] = q
      BY <1>1, <2>1 DEF OutsideStep
    <2>3. ritem[q] = i
      BY <2>2, <1>2 DEF RunsAreSound, FiledOn, WorkTypeOK, Requests
    <2>4. ASSUME NEW v \in Verdicts, capEvents[<<q, v>>] > 0
          PROVE  StillHears(i, q)
      <3>1. ~CapabilityEvent(q, v)
        <4>1. SUFFICES ASSUME CapabilityEvent(q, v)
                       PROVE  FALSE
          OBVIOUS
        <4>2. Move(i, "in_progress") \/ Move(i, "cancelled")
          BY <2>2, <2>3, <4>1 DEF CapabilityEvent, ParkedOn
        <4> QED
          BY <1>1, <4>2 DEF Move, Transition, WorkTypeOK, TypeOK
      <3>2. CapabilityEventFails(q, v) => <<i, "park">> \in dropped'
        BY <2>3 DEF CapabilityEventFails, Drops
      <3> QED
        BY <1>2, <1>5, <2>4, <3>1, <3>2, EventsOfRequests
    <2>5. run[i].pc = "settle" => run'[i] = run[i]
      BY <1>1, <2>1 DEF OutsideStep
    <2> QED
      BY <1>5, <1>8, <2>2, <2>4, <2>5
  <1>7. CASE RunStep(i)
    <2>1. UNCHANGED capEvents
      BY <1>7, RunLeaves
    <2>2. CASE Failing(i)
      <3>1. SameItem(i) /\ Left(i) /\ UNCHANGED parkedOn
        BY <1>1, <2>2 DEF Failing, Becomes
      <3>2. run[i].pc = "settle" => <<i, "park">> \in dropped'
        BY <1>1, <2>2 DEF Failing, Becomes
      <3> QED
        BY <1>1, <1>5, <1>8, <2>1, <3>1, <3>2 DEF SameItem
    <2>3. CASE run[i].pc \in {"park", "settle"} /\ ~Failing(i)
      <3>1. Parking(i)
        BY <1>7, <2>3, RunDoes DEF Reading, Booking, Moving, Working, Ending, Goes
      <3>2. CASE run[i].pc = "park"
        BY <1>1, <3>1, <3>2 DEF Parking, Goes, SameItem
      <3>3. CASE run[i].pc = "settle"
        <4>1. status[i] = "blocked" /\ ~(ParkedOn(i, run[i].req) /\ Settled(run[i].req))
          BY <1>1, <3>1, <3>3 DEF Parking, Goes, SameItem, Becomes
        <4>2. parkedOn'[i] = parkedOn[i]
          BY <1>7, <3>3 DEF RunStep, RunReads, RunListsBooking, RunStartsBooking, RunMoves, RunLinks,
                     RunDenied, RunParks, RunSettles, RunCalls, RunFails, RunReleases, RunRecords,
                     RunCloses, RunClaimsUse, RunFiles, RunReturns
        <4> QED
          BY <1>1, <1>3, <3>3, <4>1, <4>2 DEF RunsAreSound, ParkedOn
      <3> QED
        BY <2>3, <3>2, <3>3
    <2>4. CASE run[i].pc \notin {"park", "settle"} /\ ~Failing(i)
      <3>1. status[i] = "blocked"
        <4> USE <1>1, <2>4 DEF Goes, SameItem, Becomes, EndedByOthers
        <4>1. ~Booking(i) /\ ~Parking(i) /\ (Reading(i) \/ Moving(i) \/ Working(i) => status[i] = "blocked")
          BY DEF Reading, Booking, Moving, Parking, Working, RunStatus
        <4>2. Ending(i) => status[i] = "blocked"
          BY DEF Ending, RunStatus
        <4> QED
          BY <1>7, <4>1, <4>2, RunDoes
      <3>2. parkedOn'[i] = parkedOn[i]
        BY <1>7, <2>4 DEF RunStep, RunReads, RunListsBooking, RunStartsBooking, RunMoves, RunLinks,
                   RunDenied, RunParks, RunSettles, RunCalls, RunFails, RunReleases, RunRecords,
                   RunCloses, RunClaimsUse, RunFiles, RunReturns
      <3> QED
        BY <1>1, <1>5, <1>8, <2>1, <2>4, <3>1, <3>2
    <2> QED
      BY <2>2, <2>3, <2>4
  <1> QED
    BY <1>6, <1>7

(* An end is announced, and the announcement is taken by its handler only. *)
LEMMA EndsAnnounced ==
    ASSUME WorkTypeOK, LiveBookingOwned, RequestsAreFiled, RunsAreSound, OnlyTasks, [WorkNext]_allVars,
           NEW i \in Items
    PROVE  /\ ~Ended(i) /\ Ended(i)' => events'[i] > 0
           /\ events[i] > 0 => events'[i] > 0 \/ EventReads(i) \/ EventFails(i) \/ ShipEnds
  <1> DEFINE Announced == /\ ~Ended(i) /\ Ended(i)' => events'[i] > 0
                          /\ events[i] > 0 => events'[i] > 0
  <1> USE DEF WorkTypeOK, TypeOK
  <1>1. ASSUME NEW j \in Items, NEW s, Move(j, s)
        PROVE  Announced
    <2>1. status' = [status EXCEPT ![j] = s]
      BY <1>1 DEF Move, Transition
    <2>2. events[i] \in Nat
      OBVIOUS
    <2>3. CASE i = j
      BY <1>1, <2>1, <2>2, <2>3 DEF Move, Ended
    <2>4. CASE i # j
      BY <1>1, <2>1, <2>4 DEF Move, Ended
    <2> QED
      BY <2>3, <2>4
  <1>2. CASE UNCHANGED <<status, events>>
    BY <1>2 DEF Ended
  <1>3. ASSUME NEW j \in Items, RunStep(j)
        PROVE  Announced
    <2>1. ASSUME RunMoves(j) \/ RunDenied(j) \/ RunParks(j) \/ RunSettles(j) \/ RunRecords(j)
                     \/ RunFails(j)
          PROVE  UNCHANGED <<status, events>> \/ \E s : Move(j, s)
      BY <2>1 DEF RunMoves, RunDenied, RunParks, RunSettles, RunRecords, RunFails, Kept, vars, itemVars
    <2>2. CASE RunStartsBooking(j)
      <3>1. /\ UNCHANGED events
            /\ \/ UNCHANGED status
               \/ status' = [status EXCEPT ![bitem[run[j].book]] = "in_progress"]
        BY <2>2 DEF RunStartsBooking, StartBooking, Kept, vars, itemVars
      <3> QED
        BY <3>1 DEF Ended, Terminal
    <2>3. CASE RunReleases(j)
      BY <2>3 DEF RunReleases, Unassign, vars, itemVars, Ended, Terminal
    <2>4. CASE RunCloses(j)
      BY <1>2, <2>4 DEF RunCloses, CloseBooking, CompleteBooking, CancelBooking, vars, itemVars
    <2>5. ASSUME \/ RunReads(j) \/ RunListsBooking(j) \/ RunLinks(j) \/ RunCalls(j)
                 \/ \E q \in Requests : RunClaimsUse(j, q) \/ RunFiles(j, q)
                 \/ \E c \in BOOLEAN : RunReturns(j, c)
          PROVE  UNCHANGED <<status, events>>
      BY <2>5 DEF RunReads, RunListsBooking, RunLinks, RunCalls, RunClaimsUse, RunFiles, RunReturns,
                  Kept, vars, itemVars
    <2>6. ASSUME UNCHANGED <<status, events>> \/ \E s : Move(j, s)
          PROVE  Announced
      BY <1>1, <1>2, <2>6
    <2> QED
      BY <1>3, <2>1, <2>2, <2>3, <2>4, <2>5, <2>6 DEF RunStep
  <1>4. ASSUME NEW q \in Requests, NEW c \in Verdicts, CapabilityEvent(q, c)
        PROVE  Announced
    <2>1. ritem[q] \in Items
      BY <1>4 DEF CapabilityEvent, RequestsAreFiled
    <2>2. PICK j \in Items : j = ritem[q]
      BY <2>1
    <2>3. UNCHANGED <<status, events>> \/ Move(j, "in_progress") \/ Move(j, "cancelled")
      BY <1>4, <2>2 DEF CapabilityEvent, Kept, vars, itemVars
    <2> QED
      BY <1>1, <1>2, <2>3
  <1>5. ASSUME NEW j \in Items, NEW k \in Kinds, NEW a \in Resources \cup {None}, AgentCreates(j, k, a)
        PROVE  Announced
    <2>1. InitialStatus["task"] = "open"
      BY DEF InitialStatus, BuiltinTypes
    <2> QED
      BY <1>5, <2>1 DEF AgentCreates, Create, eventVars, Ended, Terminal
  <1>6. ASSUME NEW j \in Items, NEW a \in Resources, NEW b \in Bookings, NEW v \in BOOLEAN,
               AgentClaims(j, a, b, v)
        PROVE  Announced
    BY <1>6 DEF AgentClaims, Claim, Book, eventVars, Ended, Terminal
  <1>7. ASSUME NEW j \in Items, Cancelled(j)
        PROVE  Announced
    BY <1>1, <1>7 DEF Cancelled
  <1>8. ASSUME NEW j \in Items, EventReads(j) \/ EventFails(j)
        PROVE  UNCHANGED status /\ (i # j => events'[i] = events[i])
    BY <1>8 DEF EventReads, EventFails, vars, itemVars
  <1>9. ASSUME NEW j \in Items, EventCloses(j)
        PROVE  UNCHANGED <<status, events>>
    BY <1>9 DEF EventCloses, CloseBooking, CompleteBooking, CancelBooking, vars, itemVars
  <1>10. ASSUME \/ \E j \in Items, w \in Recipients : WatcherAdded(j, w)
                \/ \E q \in Requests, d \in Deciders : DecisionStep(q, d)
                \/ \E q \in Requests, c \in Verdicts : CapabilityEventFails(q, c)
                \/ \E j \in Items : Starts(j) \/ StartFails(j) \/ EventLists(j) \/ EventDelivers(j)
                \/ ShipStops \/ DeliveryStep \/ ShipStarts \/ RecoverStep
                \/ UNCHANGED allVars
         PROVE  UNCHANGED <<status, events>>
    BY <1>10, DecisionLeaves DEF WatcherAdded, CapabilityEventFails, Starts, StartFails, EventLists,
        EventDelivers, ShipStops, DeliveryStep, DeliveryFails, DeliveryClaims, DeliveryPosts,
        ShipStarts, RecoverStep, RecoverStarts, RecoverDelivers, eventVars, allVars, workVars, vars,
        itemVars
  <1>11. CASE ShipEnds
    BY <1>11 DEF ShipEnds, vars, itemVars, Ended
  <1>12. \/ Announced \/ ShipEnds \/ (EventReads(i) /\ UNCHANGED status)
         \/ (EventFails(i) /\ UNCHANGED status)
    <2>1. ASSUME NEW j \in Items, EventReads(j) \/ EventFails(j), i # j
          PROVE  Announced
      BY <1>8, <2>1 DEF Ended
    <2> QED
      BY <2>1, <1>8, <1>2, <1>3, <1>4, <1>5, <1>6, <1>7, <1>8, <1>9, <1>10 DEF WorkNext, Others,
          HandlerStep
  <1> QED
    BY <1>11, <1>12 DEF Ended

(* A listed notice stays listed until it is claimed, and a claim is kept.  *)
LEMMA ListedKept ==
    ASSUME WorkTypeOK, [WorkNext]_allVars, NEW i \in Items, NEW r \in Recipients
    PROVE  /\ told[i] \subseteq told'[i]
           /\ <<i, r>> \in delivery.due =>
                 \/ <<i, r>> \in delivery'.due \/ r \in told'[i]
                 \/ <<i, "end">> \in dropped' \/ ShipEnds
  <1> USE DEF WorkTypeOK
  <1>1. ASSUME NEW n \in Notices, DeliveryClaims(n)
        PROVE  /\ told[i] \subseteq told'[i]
               /\ <<i, r>> \in delivery.due => <<i, r>> \in delivery'.due \/ r \in told'[i]
    <2>1. n[1] \in Items /\ n[2] \in Recipients /\ n = <<n[1], n[2]>>
      BY DEF Notices
    <2>2. delivery'.due = delivery.due \ {n}
      BY <1>1 DEF DeliveryClaims
    <2>3. told' = [told EXCEPT ![n[1]] = @ \cup {n[2]}]
      BY <1>1 DEF DeliveryClaims
    <2> QED
      BY <2>1, <2>2, <2>3
  <1>2. ASSUME NEW j \in Items, DeliveryPosts(j)
        PROVE  UNCHANGED told /\ delivery'.due = delivery.due
    BY <1>2 DEF DeliveryPosts
  <1>3. ASSUME Deliver
        PROVE  UNCHANGED told /\ delivery.due = {}
    BY <1>3 DEF Deliver, Delivering
  <1>4. CASE ShipEnds
    BY <1>4 DEF ShipEnds
  <1>5. ASSUME RecoverDelivers \/ \E j \in Items : EventDelivers(j)
        PROVE  Deliver
    BY <1>5 DEF RecoverDelivers, EventDelivers
  <1>6. CASE UNCHANGED <<told, posts, delivery>>
    BY <1>6
  <1>7. CASE DeliveryFails
    <2>1. <<i, r>> \in delivery.due => <<<<i, r>>[1], "end">> \in dropped'
      BY <1>7 DEF DeliveryFails
    <2> QED
      BY <1>7, <2>1 DEF DeliveryFails
  <1> QED
    BY <1>1, <1>2, <1>3, <1>4, <1>5, <1>6, <1>7, NoticesLeftAlone DEF DeliveryStep

(* A delivery lists every ended item's requester that was not told. *)
LEMMA DeliverLists ==
    ASSUME WorkTypeOK, NEW i \in Items, Deliver, Ended(i), Requester \notin told[i]
    PROVE  <<i, Requester>> \in delivery'.due
  <1> DEFINE n == <<i, Requester>>
  <1>1. n \in Notices /\ n[1] = i /\ n[2] = Requester
    BY WorkAssumption DEF Notices
  <1>2. Requester \in Hearing(i)
    BY DEF Hearing, Ended, Terminal
  <1>3. n \in Due
    BY <1>1, <1>2 DEF Due
  <1> QED
    BY <1>3 DEF Deliver

(* From an item's end to the claim of its requester's notice somebody is   *)
(* always on it: the event, its handler, a delivery, the next recover().   *)
LEMMA ReportStep ==
    ASSUME WorkTypeOK, LiveBookingOwned, RequestsAreFiled, RunsAreSound, OnlyTasks, RunStatus,
           DownMeansIdle, NoLostReport, [WorkNext]_allVars
    PROVE  NoLostReport'
  <1>1. SUFFICES ASSUME NEW i \in Items, mode' = "up", recover' = "off", Ended(i)',
                        Requester \notin told'[i], ~(events'[i] > 0), handler'[i].pc = "idle",
                        <<i, "end">> \notin dropped'
                 PROVE  <<i, Requester>> \in delivery'.due
    BY DEF NoLostReport, Ended
  <1>2. Ended(i)
    BY <1>1, EndsAnnounced
  <1>3. Requester \notin told[i] /\ Requester \in Recipients
    BY <1>1, ListedKept, WorkAssumption
  <1>4. CASE RecoverDelivers
    BY <1>2, <1>3, <1>4, DeliverLists DEF RecoverDelivers
  <1>5. CASE EventDelivers(i)
    BY <1>2, <1>3, <1>5, DeliverLists DEF EventDelivers
  <1>6. CASE mode = "up" /\ recover = "off" /\ ~EventDelivers(i)
    <2>1. ~ShipEnds
      BY <1>1 DEF ShipEnds
    <2>2. events[i] > 0 => EventReads(i)
      BY <1>1, <2>1, EndsAnnounced DEF EventFails, Drops
    <2>3. ~EventReads(i)
      <3>1. SUFFICES ASSUME EventReads(i)
                     PROVE  FALSE
        OBVIOUS
      <3>2. handler'[i] = [pc |-> "bookings", fin |-> status[i] = "done", todo |-> {}]
        BY <1>2, <3>1 DEF EventReads, WorkTypeOK
      <3> QED
        BY <1>1, <3>2
    <2>4. handler[i].pc = "idle"
      BY <1>1, <1>6, <2>3, HandlerDoes DEF HandlerMoves
    <2>5. <<i, Requester>> \in delivery.due
      BY <1>1, <1>2, <1>3, <1>6, <2>2, <2>3, <2>4, DroppedGrows DEF NoLostReport
    <2> QED
      BY <1>1, <1>3, <2>1, <2>5, ListedKept
  <1> QED
    BY <1>1, <1>4, <1>5, <1>6, LifeStep

(* From an item's end to the closing of its booking somebody is always on  *)
(* it, as long as the process lives. *)
LEMMA FreeingStep ==
    ASSUME WorkTypeOK, BoardInv, RequestsAreFiled, RunsAreSound, OnlyTasks, DownMeansIdle, HeldItems,
           RunStatus, ClosingEnded, NoLostBooking, [WorkNext]_allVars
    PROVE  NoLostBooking'
  <1> USE DEF BoardInv
  <1>1. SUFFICES ASSUME NEW i \in Items \ returned', mode' = "up", Ended(i)', LiveOn(i)' # {},
                        crashes' = 0, ~(events'[i] > 0), handler'[i].pc \notin {"bookings", "close"},
                        <<i, "end">> \notin dropped'
                 PROVE  FALSE
    BY DEF NoLostBooking, Ended
  <1>2. i \in Items \ returned
    BY <1>1, ReturnedGrows
  <1>3. Ended(i)
    BY <1>1, EndsAnnounced
  <1>4. LiveOn(i)' \subseteq LiveOn(i)
    BY <1>3, LiveOnKeeps DEF Ended, Terminal
  <1>5. ~ShipEnds
    BY <1>1 DEF ShipEnds
  <1>6. mode = "up" /\ crashes = 0
    BY <1>1, <1>5, LifeStep DEF ShipStarts, DownMeansIdle
  <1>7. ~(events[i] > 0)
    <2>1. ~EventReads(i)
      <3>1. SUFFICES ASSUME EventReads(i)
                     PROVE  FALSE
        OBVIOUS
      <3>2. handler'[i] = [pc |-> "bookings", fin |-> status[i] = "done", todo |-> {}]
        BY <1>3, <3>1 DEF EventReads, WorkTypeOK
      <3> QED
        BY <1>1, <3>2
    <2> QED
      BY <1>1, <1>5, <2>1, EndsAnnounced DEF EventFails, Drops
  <1>8. handler[i].pc \notin {"bookings", "close"}
    <2>1. SUFFICES ASSUME handler[i].pc \in {"bookings", "close"}
                   PROVE  FALSE
      OBVIOUS
    <2>2. CASE handler[i].pc = "bookings"
      <3>1. LiveOn(i) = {}
        BY <1>1, <2>2, HandlerDoes DEF HandlerMoves, EventDelivers, EventCloses
      <3> QED
        BY <1>1, <1>4, <3>1
    <2>3. CASE handler[i].pc = "close"
      <3>1. PICK b \in handler[i].todo : bstate'[b] \notin Live /\ handler[i].todo = {b}
        BY <1>1, <2>3, HandlerDoes DEF HandlerMoves, EventDelivers
      <3>2. LiveOn(i) \subseteq {b}
        BY <1>2, <2>3, <3>1 DEF ClosingEnded
      <3>3. b \notin LiveOn(i)'
        BY <3>1 DEF LiveOn
      <3> QED
        BY <1>1, <1>4, <3>2, <3>3
    <2> QED
      BY <2>1, <2>2, <2>3
  <1> QED
    BY <1>1, <1>2, <1>3, <1>4, <1>6, <1>7, <1>8, DroppedGrows DEF NoLostBooking

-----------------------------------------------------------------------------
(* The invariant. *)

(* It holds of the empty board and the runner that just started. *)
LEMMA WorkBegins == WorkInit => WorkInv
  <1> SUFFICES ASSUME WorkInit
               PROVE  WorkInv
    OBVIOUS
  <1> USE DEF WorkInit
  <1>1. BoardInv
    BY BoardInit
  <1>2. WorkTypeOK
    <2>1. Idle \in Run /\ NoEvent \in Handler
      BY RunTyped DEF NoEvent, Handler
    <2>2. crashes \in 0..MaxCrashes
      BY WorkAssumption
    <2>3. delivery \in [due : SUBSET Notices, ready : SUBSET Notices]
      BY DEF NoDelivery
    <2>4. /\ capEvents \in [Requests \X Verdicts -> Nat] /\ mishaps \in 0..MaxMishaps
          /\ deciding \in [Requests -> [Deciders -> Decision]]
      BY WorkAssumption DEF Decision
    <2> QED
      BY <1>1, <2>1, <2>2, <2>3, <2>4 DEF WorkTypeOK, BoardInv, RequestState
  <1>3. status = [i \in Items |-> "absent"] /\ bstate = [b \in Bookings |-> "absent"]
        /\ assignee = [i \in Items |-> None] /\ workType = [i \in Items |-> "task"]
    BY DEF Init
  <1>4. \A i \in Items : run[i].pc = "idle" /\ run[i].filed = 0 /\ run[i].use = {}
    BY DEF Idle
  <1>5. RequestsAreFiled /\ RunsAreSound
    BY <1>3, <1>4 DEF RequestsAreFiled, RunsAreSound
  <1>6. OnlyTasks /\ DownMeansIdle /\ HeldItems /\ RunStatus
    BY <1>3, <1>4 DEF OnlyTasks, DownMeansIdle, HeldItems, RunStatus
  <1>7. BookedItems /\ TodosOwned /\ ClosingEnded
    BY <1>3, <1>4 DEF BookedItems, TodosOwned, ClosingEnded, NoEvent
  <1>8. CallsSeen /\ UsesClaimed /\ NoticesClaimed
    BY <1>4 DEF CallsSeen, UsesClaimed, NoticesClaimed, NoDelivery
  <1>9. DoneHasAllCalls /\ NoLostWakeUp /\ NoForgottenPark /\ NoLostReport /\ NoLostBooking
    BY <1>3 DEF DoneHasAllCalls, NoLostWakeUp, NoForgottenPark, NoLostReport, NoLostBooking, Ended,
                Terminal
  <1> QED
    BY <1>1, <1>2, <1>5, <1>6, <1>7, <1>8, <1>9 DEF WorkInv

(* Every step of the runner, the Captain, the other agents and the process *)
(* keeps it. *)
LEMMA WorkInvStep == WorkInv /\ [WorkNext]_allVars => WorkInv'
  <1> SUFFICES ASSUME WorkInv, [WorkNext]_allVars
               PROVE  WorkInv'
    OBVIOUS
  <1> USE DEF WorkInv
  <1>0. LiveBookingOwned
    BY DEF BoardInv
  <1>1. BoardInv' /\ WorkTypeOK'
    BY WorkTypeStep
  <1>2. RequestsAreFiled' /\ RunsAreSound' /\ OnlyTasks' /\ DownMeansIdle'
    BY <1>0, RequestsStep, RunsSoundStep, TasksStep, ProcessStep
  <1>3. HeldItems' /\ RunStatus' /\ BookedItems' /\ TodosOwned' /\ ClosingEnded'
    BY <1>0, HeldStep, StatusStep, BookedStep, TodosStep, ClosingStep
  <1>4. CallsSeen' /\ UsesClaimed' /\ NoticesClaimed' /\ DoneHasAllCalls'
    BY <1>0, CallsStep, UsesStep, NoticesStep, DoneStep
  <1>5. NoLostWakeUp' /\ NoForgottenPark' /\ NoLostReport' /\ NoLostBooking'
    BY <1>0, WakeUpStep, ParkStep, ReportStep, FreeingStep
  <1> QED
    BY <1>1, <1>2, <1>3, <1>4, <1>5

(* The runner's invariant, for any number of items, agents, bookings,      *)
(* requests, recipients and ends of the process. *)
THEOREM WorkInvariant == WorkSpec => []WorkInv
  BY WorkBegins, WorkInvStep, PTL DEF WorkSpec

(* Rows and tasks of the runner keep their types. *)
THEOREM RunnerTypes == WorkSpec => []WorkTypeOK
  <1>1. WorkInv => WorkTypeOK
    BY DEF WorkInv
  <1> QED
    BY <1>1, WorkInvariant, PTL

(* deliver_due_notices sends a notice at most once to each recipient:      *)
(* a notice is claimed before it is posted and a claim is never undone.    *)
THEOREM ToldAtMostOnce == WorkSpec => []ToldOnce
  <1>1. WorkInv => ToldOnce
    BY DEF WorkInv, NoticesClaimed, ToldOnce
  <1> QED
    BY <1>1, WorkInvariant, PTL

(* BF-947: an approval is one call, across every crash, every rerun and    *)
(* every overlapping decision: the use of a request is claimed before its  *)
(* call and only of a request that was fulfilled, and neither the claim    *)
(* nor the fact that it was fulfilled is ever undone.                      *)
THEOREM ApprovedOnce == WorkSpec => []ApprovedCallOnce
  <1>1. WorkInv => ApprovedCallOnce
    BY DEF WorkInv, UsesClaimed, ApprovedCallOnce
  <1> QED
    BY <1>1, WorkInvariant, PTL

(* No item is brought to done past a call its agent filed and that was     *)
(* never fulfilled.  A decision that overlaps another may write over a     *)
(* fulfilled request afterwards; it undoes no call.                        *)
THEOREM DoneHeardCalls == WorkSpec => []DoneHasAllCalls
  <1>1. WorkInv => DoneHasAllCalls
    BY DEF WorkInv
  <1> QED
    BY <1>1, WorkInvariant, PTL

(* BF-878, A1: a request under way is running or about to be, however      *)
(* starts, runs, decisions and restarts overlap, unless a run of it or its *)
(* start raised since the process started.                                 *)
THEOREM WakeUpsKept == WorkSpec => []NoLostWakeUp
  <1>1. WorkInv => NoLostWakeUp
    BY DEF WorkInv
  <1> QED
    BY <1>1, WorkInvariant, PTL

(* BF-878: no item stays parked on a request that settled in this life of  *)
(* the process with nobody about to act on it, unless the driver raised    *)
(* over it, which it logs as needing a manual transition.                  *)
THEOREM ParksRemembered == WorkSpec => []NoForgottenPark
  <1>1. WorkInv => NoForgottenPark
    BY DEF WorkInv
  <1> QED
    BY <1>1, WorkInvariant, PTL

(* No end of an item goes unreported, wherever the process ends; what a    *)
(* handler or a delivery that raised dropped waits for the next start.     *)
THEOREM ReportsKept == WorkSpec => []NoLostReport
  <1>1. WorkInv => NoLostReport
    BY DEF WorkInv
  <1> QED
    BY <1>1, WorkInvariant, PTL

(* No live booking of an ended item is left with nobody to close it while  *)
(* the process that saw the end lives, unless the handling of the end      *)
(* raised: the runner that ended the item need not come that far itself.   *)
THEOREM BookingsFreed == WorkSpec => []NoLostBooking
  <1>1. WorkInv => NoLostBooking
    BY DEF WorkInv
  <1> QED
    BY <1>1, WorkInvariant, PTL

(* An ended item is reopened by a release only. *)
THEOREM EndsKept == WorkSpec => EndIsKept
  <1> DEFINE Keeps == \A i \in Items :
                        Ended(i) /\ ~Ended(i)' => status'[i] = "open" /\ i \in returned'
  <1>1. WorkInv /\ [WorkNext]_allVars => Keeps
    BY EndKept DEF WorkInv, BoardInv, Ended
  <1>2. WorkInv /\ [WorkNext]_allVars => [Keeps]_allVars
    BY <1>1
  <1> QED
    BY <1>2, WorkInvariant, PTL DEF WorkSpec, EndIsKept

(* The runner implements the board: what is proved of the board holds      *)
(* under it. *)
THEOREM RunnerUsesBoard == WorkSpec => Spec
  <1>1. WorkInit => Init
    BY DEF WorkInit
  <1>2. WorkInv /\ [WorkNext]_allVars => [Next]_vars
    BY WorkIsBoardStep DEF WorkInv
  <1> QED
    BY <1>1, <1>2, WorkInvariant, PTL DEF WorkSpec, Spec

(* So no resource is overbooked by its agents' runs, *)
THEOREM WorkWithinCapacity == WorkSpec => []CapacityRespected
  BY RunnerUsesBoard, CapacityHolds

(* and no closing that comes late changes how a booking ended. *)
THEOREM WorkKeepsEndedBookings == WorkSpec => EndedBookingIsFinal
  BY RunnerUsesBoard, EndedFinal
=============================================================================
