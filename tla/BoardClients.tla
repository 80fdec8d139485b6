--------------------------- MODULE BoardClients ----------------------------
(***************************************************************************)
(* The work board with three clients whose work is more than one store     *)
(* call, so that other writers come between their steps:                   *)
(*  - the store's own TTL sweep: one SELECT of expired rows, then one      *)
(*    transition per row (_expire_ttl_items);                              *)
(*  - an agent that was dispatched an item without a booking: it reads the *)
(*    item, writes itself as the assignee if it read none, then moves the  *)
(*    item from the status it read (cognitive_agent.py, BF-607, BF-900);   *)
(*  - the Captain's PATCH route, which writes an item's fields with no     *)
(*    check on status or assignee (update_work_item).                      *)
(***************************************************************************)
EXTENDS WorkBoard

CONSTANTS
    Agents,        \* the resources that are dispatched items without a booking
    PatchStatuses  \* the statuses a PATCH writes

ASSUME ClientsAssumption == Agents \subseteq Resources /\ PatchStatuses \subseteq ItemStatus

VARIABLES
    sweep,   \* SUBSET Items: the selected expired rows not yet handled
    duty     \* where each dispatched agent is: "off", "read" or "owned", and what it read

clientVars == <<workType, status, assignee, ttl, tokens, uncharged, bstate, bitem, bres,
                btokens, active, sweep, duty>>

\* What an agent on a dispatched item remembers from its read: the item, its
\* status and its owner, until it is done ("off").
Off == [pc |-> "off", item |-> None, saw |-> "absent", owner |-> None]

ClientInit == Init /\ sweep = {} /\ duty = [a \in Agents |-> Off]

-----------------------------------------------------------------------------
(* The TTL sweep. *)

\* A slip: the SELECT skips the rows nobody took.
ExpiredTaken == {i \in Items : ttl[i] = "passed" /\ assignee[i] # None
                              /\ status[i] \notin Terminal \cup {"absent"}}

\* The SELECT of _expire_ttl_items.
Expired == {i \in Items : ttl[i] = "passed" /\ status[i] \notin Terminal \cup {"absent"}}

TickSelect ==
    /\ sweep = {} /\ Expired # {}
    /\ sweep' = Expired
    /\ UNCHANGED <<vars, duty>>

\* A slip: the row as selected decides, not the row as it is now.
CancelExpiredBlindly(i) ==
    /\ i \in sweep
    /\ sweep' = sweep \ {i}
    /\ status' = [status EXCEPT ![i] = IF @ = "absent" THEN @ ELSE "cancelled"]
    /\ UNCHANGED <<workType, assignee, ttl, tokens, uncharged, bookingVars, active, duty>>

\* One row of the sweep: the store cancels it, or declines and the row stays.
CancelExpired(i) ==
    /\ i \in sweep
    /\ sweep' = sweep \ {i}
    /\ IF status[i] # "absent" /\ MayMove(i, "cancelled")
         THEN Transition(i, "cancelled")
         ELSE UNCHANGED vars
    /\ UNCHANGED duty

-----------------------------------------------------------------------------
(* A dispatched agent. *)

DispatchRead(a, i) ==
    /\ duty[a].pc = "off" /\ status[i] # "absent"
    /\ duty' = [duty EXCEPT ![a] =
                   [pc |-> "read", item |-> i, saw |-> status[i], owner |-> assignee[i]]]
    /\ UNCHANGED <<vars, sweep>>

\* update_work_item(assigned_to=self.id), made when the read found no owner.
DispatchOwn(a) ==
    /\ duty[a].pc = "read"
    /\ duty' = [duty EXCEPT ![a].pc = "owned"]
    /\ assignee' = IF duty[a].owner = None /\ status[duty[a].item] # "absent"
                     THEN [assignee EXCEPT ![duty[a].item] = a]
                     ELSE assignee
    /\ UNCHANGED <<workType, status, ttl, tokens, uncharged, bookingVars, active, sweep>>

\* A slip: transition_work_item called without expected_status, for any status read.
DispatchMoveBlindly(a) ==
    /\ duty[a].pc = "owned"
    /\ duty' = [duty EXCEPT ![a] = Off]
    /\ LET i == duty[a].item IN
       IF status[i] # "absent" /\ MayMove(i, "in_progress")
         THEN Transition(i, "in_progress")
         ELSE UNCHANGED vars
    /\ UNCHANGED sweep

\* transition_work_item(..., "in_progress", expected_status=what was read);
\* an item read as blocked is not moved.
DispatchMove(a) ==
    /\ duty[a].pc = "owned"
    /\ duty' = [duty EXCEPT ![a] = Off]
    /\ LET i == duty[a].item IN
       IF /\ duty[a].saw # "blocked" /\ status[i] = duty[a].saw
          /\ MayMove(i, "in_progress")
         THEN Transition(i, "in_progress")
         ELSE UNCHANGED vars
    /\ UNCHANGED sweep

-----------------------------------------------------------------------------
(* The Captain's PATCH: update_work_item with a status, an assignee, or    *)
(* both.  It writes what it is given; the other columns it can write are   *)
(* left out, actual_tokens among them: a PATCHed counter need not agree    *)
(* with any charge, so TokensConserved is not claimed of this module.      *)

PatchItem(i, s, a) ==
    /\ status[i] # "absent"
    /\ status' = [status EXCEPT ![i] = s]
    /\ assignee' = [assignee EXCEPT ![i] = a]
    /\ UNCHANGED <<workType, ttl, tokens, uncharged, bookingVars, active, sweep, duty>>

-----------------------------------------------------------------------------
StoreCall == Next /\ UNCHANGED <<sweep, duty>>

Tick == TickSelect \/ \E i \in Items : CancelExpired(i)

Dispatch ==
    \/ \E a \in Agents, i \in Items : DispatchRead(a, i)
    \/ \E a \in Agents : DispatchOwn(a) \/ DispatchMove(a)

Patch ==
    \E i \in Items : \E s \in PatchStatuses \cup {status[i]}, a \in Resources \cup {None} :
        PatchItem(i, s, a)

ClientNext == StoreCall \/ Tick \/ Dispatch \/ Patch

ClientSpec == ClientInit /\ [][ClientNext]_clientVars

\* The tick loop runs as long as the store does; nobody has to call the store.
FairClientSpec ==
    ClientSpec /\ WF_clientVars(TickSelect) /\ \A i \in Items : WF_clientVars(CancelExpired(i))

-----------------------------------------------------------------------------
(* The sweep acts on rows it selected earlier; a row that ended meanwhile  *)
(* keeps its end, its result is not replaced by a TTL cancellation.        *)
SweepSparesEndedWork ==
    [][\A i \in Items :
          i \in sweep /\ i \notin sweep' /\ status[i] \in TypeTerminal[workType[i]]
              => status'[i] = status[i]]_clientVars

(* BF-900: a park, or any move another writer made after the dispatched    *)
(* agent's read, is not undone by the agent's own move to in_progress.     *)
DispatchKeepsLaterMoves ==
    [][\A a \in Agents :
          duty[a].pc = "owned" /\ duty'[a].pc = "off"
          /\ status[duty[a].item] # duty[a].saw
              => status' = status]_clientVars

(* BF-607: the dispatched agent claims an item only if it is unassigned;   *)
(* an item the Captain or a claim assigned meanwhile is left untouched.    *)
DispatchLeavesAssignedAlone ==
    [][\A a \in Agents :
          duty[a].pc = "read" /\ duty'[a].pc = "owned" /\ assignee[duty[a].item] # None
              => assignee' = assignee]_clientVars

(* The TTL is the backstop of unclaimed work: an expired item of a type    *)
(* that may be cancelled while open does not stay open for ever.           *)
ExpiredWorkLeavesOpen ==
    \A i \in Items :
        (ttl[i] = "passed" /\ status[i] = "open" /\ <<"open", "cancelled">> \in Edges[workType[i]])
            ~> status[i] # "open"

=============================================================================
