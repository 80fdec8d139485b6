------------------------- MODULE BoardClientsProofs -------------------------
(***************************************************************************)
(* Proofs about the work board under its multi-call clients: the TTL       *)
(* sweep, the dispatched agents and the Captain's PATCH.  A PATCH can give *)
(* an item with a live booking to someone else, so that LiveBookingOwned   *)
(* is lost; what stays is BookingHasItem, and it is enough for the types   *)
(* and for what does not depend on who is assigned.                        *)
(***************************************************************************)
EXTENDS BoardClients, WorkBoardProofs

DutyType == [pc : {"off", "read", "owned"}, item : Items \cup {None},
             saw : ItemStatus \cup {"absent"}, owner : Resources \cup {None}]

\* The sweep and the duties are of items; an agent on duty has one.
ClientTypes ==
    /\ sweep \subseteq Items
    /\ duty \in [Agents -> DutyType]
    /\ \A a \in Agents : duty[a].pc # "off" => duty[a].item \in Items

(* The inductive invariant of the board with its clients. *)
ClientInv == TypeOK /\ BookingHasItem /\ ClientTypes

\* A write of an item's status or assignee that the store's operations do not
\* make: it neither creates nor deletes a row, and leaves the bookings alone.
FieldWrite ==
    /\ status' \in [Items -> ItemStatus \cup {"absent"}]
    /\ assignee' \in [Items -> Resources \cup {None}]
    /\ \A i \in Items : status'[i] = "absent" <=> status[i] = "absent"
    /\ UNCHANGED <<workType, ttl, tokens, uncharged, bookingVars, active>>

(* To the store every step of a client is one of its own operations, or a  *)
(* write of an item's status or assignee: the sweep's cancel and the       *)
(* agent's move are transitions.                                           *)
LEMMA ClientStepKinds == ClientInv /\ [ClientNext]_clientVars => [Next]_vars \/ FieldWrite
  <1> SUFFICES ASSUME ClientInv, [ClientNext]_clientVars
               PROVE  [Next]_vars \/ FieldWrite
    OBVIOUS
  <1> USE DEF ClientInv
  <1>1. CASE StoreCall
    BY <1>1 DEF StoreCall
  <1>2. CASE Tick
    <2>1. ASSUME NEW i \in Items, Transition(i, "cancelled")
          PROVE  Next
      BY <2>1 DEF Next, ItemStep, ItemStatus
    <2> QED
      BY <1>2, <2>1 DEF Tick, TickSelect, CancelExpired
  <1>3. ASSUME NEW a \in Agents, DispatchMove(a)
        PROVE  [Next]_vars
    <2>1. duty[a].item \in Items
      BY <1>3 DEF DispatchMove, ClientTypes
    <2>2. ASSUME Transition(duty[a].item, "in_progress")
          PROVE  Next
      BY <2>1, <2>2 DEF Next, ItemStep, ItemStatus
    <2> QED
      BY <1>3, <2>2 DEF DispatchMove
  <1>4. ASSUME NEW a \in Agents, DispatchOwn(a)
        PROVE  FieldWrite
    <2>1. a \in Resources
      BY ClientsAssumption
    <2> QED
      BY <1>4, <2>1 DEF DispatchOwn, FieldWrite, TypeOK
  <1>5. ASSUME NEW a \in Agents, NEW i \in Items, DispatchRead(a, i)
        PROVE  UNCHANGED vars
    BY <1>5 DEF DispatchRead
  <1>6. CASE Dispatch
    BY <1>3, <1>4, <1>5, <1>6 DEF Dispatch
  <1>7. ASSUME NEW i \in Items, NEW s \in PatchStatuses \cup {status[i]},
               NEW a \in Resources \cup {None}, PatchItem(i, s, a)
        PROVE  FieldWrite
    <2>1. s \in ItemStatus
      BY <1>7, ClientsAssumption DEF PatchItem, TypeOK
    <2>2. "absent" \notin ItemStatus
      BY DEF ItemStatus
    <2> QED
      BY <1>7, <2>1, <2>2 DEF PatchItem, FieldWrite, TypeOK
  <1>8. CASE UNCHANGED clientVars
    BY <1>8 DEF clientVars, vars
  <1> QED
    BY <1>1, <1>2, <1>6, <1>7, <1>8 DEF ClientNext, Patch

(* The store's operations leave every live booking an item that exists. *)
LEMMA HasItemStep == TypeOK /\ BookingHasItem /\ [Next]_vars => BookingHasItem'
  <1> SUFFICES ASSUME TypeOK, BookingHasItem, [Next]_vars
               PROVE  BookingHasItem'
    OBVIOUS
  <1> USE BoardAssumption DEF TypeOK, BookingState, Live, Occupying, BookingHasItem,
                              itemVars, bookingVars
  <1>1. ASSUME NEW i \in Items, NEW t \in WorkTypes, NEW a \in Resources \cup {None},
               NEW life \in Lives[i], NEW s \in {InitialStatus[t]} \cup Named,
               NEW n \in Opening, Create(i, t, a, life, s, n)
        PROVE  BookingHasItem'
    BY <1>1, InitialTyped DEF Create, ItemStatus
  <1>2. ASSUME NEW i \in Items, NEW s \in ItemStatus, Transition(i, s)
        PROVE  BookingHasItem'
    BY <1>2 DEF Transition, ItemStatus
  <1>3. ASSUME NEW i \in Items, Delete(i)
        PROVE  BookingHasItem'
    BY <1>3 DEF Delete
  <1>4. ASSUME NEW i \in Items, TtlPasses(i) \/ Unassign(i)
        PROVE  BookingHasItem'
    BY <1>4 DEF TtlPasses, Unassign, LiveOn
  <1>5. ASSUME NEW r \in Resources, Toggle(r)
        PROVE  BookingHasItem'
    BY <1>5 DEF Toggle
  <1>6. ASSUME NEW i \in Items, NEW r \in Resources, NEW b \in Bookings, Book(i, r, b)
        PROVE  BookingHasItem'
    BY <1>6 DEF Book
  <1>7. CASE BookingStep
    BY <1>7 DEF BookingStep, StartBooking, PauseBooking, ResumeBooking, CancelBooking,
                CompleteBooking
  <1>9. ASSUME NEW i \in Items, NEW s \in ItemStatus, NEW n \in Deltas, Merge(i, s, n)
        PROVE  BookingHasItem'
    BY <1>9 DEF Merge, ItemStatus
  <1>8. CASE UNCHANGED vars
    BY <1>8 DEF vars
  <1> QED
    BY <1>1, <1>2, <1>3, <1>4, <1>5, <1>6, <1>7, <1>8, <1>9
       DEF Next, ItemStep, AssignStep, Assign, Claim, ClaimNext

(* The sweep and the duties stay typed. *)
LEMMA ClientTypesStep ==
    TypeOK /\ ClientTypes /\ [ClientNext]_clientVars => ClientTypes'
  <1> SUFFICES ASSUME TypeOK, ClientTypes, [ClientNext]_clientVars
               PROVE  ClientTypes'
    OBVIOUS
  <1> USE BoardAssumption DEF ClientTypes
  <1>1. CASE StoreCall
    BY <1>1 DEF StoreCall
  <1>2. CASE Tick
    BY <1>2 DEF Tick, TickSelect, CancelExpired, Expired
  <1>3. ASSUME NEW a \in Agents, NEW i \in Items, DispatchRead(a, i)
        PROVE  ClientTypes'
    <2>1. [pc |-> "read", item |-> i, saw |-> status[i], owner |-> assignee[i]] \in DutyType
      BY DEF TypeOK, DutyType
    <2> QED
      BY <1>3, <2>1 DEF DispatchRead
  <1>4. ASSUME NEW a \in Agents, DispatchOwn(a)
        PROVE  ClientTypes'
    <2>1. [duty[a] EXCEPT !.pc = "owned"] \in DutyType
      BY DEF DutyType
    <2>2. [duty[a] EXCEPT !.pc = "owned"].item = duty[a].item
      BY DEF DutyType
    <2> QED
      BY <1>4, <2>1, <2>2 DEF DispatchOwn
  <1>5. ASSUME NEW a \in Agents, DispatchMove(a)
        PROVE  ClientTypes'
    <2>1. Off \in DutyType /\ Off.pc = "off"
      BY DEF Off, DutyType
    <2> QED
      BY <1>5, <2>1 DEF DispatchMove
  <1>6. CASE Patch
    BY <1>6 DEF Patch, PatchItem
  <1>7. CASE UNCHANGED clientVars
    BY <1>7 DEF clientVars
  <1> QED
    BY <1>1, <1>2, <1>3, <1>4, <1>5, <1>6, <1>7 DEF ClientNext, Dispatch

(* The rows stay typed, a live booking keeps naming a resource and an item *)
(* that exists, and the clients' memories are of items, whatever the       *)
(* sweep, the dispatched agents and PATCH do between store calls.          *)
THEOREM ClientInvariant == ClientSpec => []ClientInv
  <1>1. ClientInit => ClientInv
    BY BoardInit DEF ClientInit, ClientInv, BoardInv, LiveBookingOwned, BookingHasItem,
                     ClientTypes, DutyType, Off
  <1>2. ClientInv /\ [ClientNext]_clientVars => ClientInv'
    <2> SUFFICES ASSUME ClientInv, [ClientNext]_clientVars
                 PROVE  ClientInv'
      OBVIOUS
    <2>1. ClientTypes'
      BY ClientTypesStep DEF ClientInv
    <2>2. CASE [Next]_vars
      BY <2>1, <2>2, TypeStep, HasItemStep DEF ClientInv
    <2>3. CASE FieldWrite
      BY <2>1, <2>3 DEF FieldWrite, ClientInv, TypeOK, BookingHasItem, bookingVars
    <2> QED
      BY <2>2, <2>3, ClientStepKinds
  <1> QED
    BY <1>1, <1>2, PTL DEF ClientSpec

-----------------------------------------------------------------------------
(* A row of the sweep that ended after it was selected keeps its end. *)
THEOREM SweepSparesEnded == ClientSpec => SweepSparesEndedWork
  <1> DEFINE Spared(i) ==
        i \in sweep /\ i \notin sweep' /\ status[i] \in TypeTerminal[workType[i]]
            => status'[i] = status[i]
  <1>1. ASSUME ClientInv, [ClientNext]_clientVars, NEW i \in Items
        PROVE  Spared(i)
    <2>1. CASE TickSelect
      BY <2>1 DEF TickSelect
    <2>2. ASSUME NEW j \in Items, CancelExpired(j)
          PROVE  Spared(i)
      <3>1. CASE i = j
        BY <2>2, <3>1 DEF CancelExpired, MayMove, vars
      <3>2. CASE i # j
        BY <2>2, <3>2 DEF CancelExpired
      <3> QED
        BY <3>1, <3>2
    <2>3. CASE sweep' = sweep
      BY <2>3
    <2>4. [ClientNext]_clientVars => Tick \/ sweep' = sweep
      BY DEF ClientNext, StoreCall, Dispatch, DispatchRead, DispatchOwn, DispatchMove,
             Patch, PatchItem, clientVars
    <2> QED
      BY <1>1, <2>1, <2>2, <2>3, <2>4 DEF Tick
  <1>2. ClientInv /\ [ClientNext]_clientVars => [\A i \in Items : Spared(i)]_clientVars
    BY <1>1
  <1> QED
    BY <1>2, ClientInvariant, PTL DEF ClientSpec, SweepSparesEndedWork

(* A move made after the dispatched agent's read is never undone by the    *)
(* agent's own move to in_progress.                                        *)
THEOREM DispatchKeepsMoves == ClientSpec => DispatchKeepsLaterMoves
  <1> DEFINE Yields(a) ==
        duty[a].pc = "owned" /\ duty'[a].pc = "off" /\ status[duty[a].item] # duty[a].saw
            => status' = status
  <1>1. ASSUME ClientInv, [ClientNext]_clientVars, NEW a \in Agents
        PROVE  Yields(a)
    <2> USE <1>1 DEF ClientInv, ClientTypes
    <2>1. CASE duty' = duty
      BY <2>1
    <2>2. ASSUME NEW c \in Agents, NEW i \in Items, DispatchRead(c, i)
          PROVE  Yields(a)
      BY <2>2 DEF DispatchRead, vars
    <2>3. ASSUME NEW c \in Agents, DispatchOwn(c)
          PROVE  Yields(a)
      BY <2>3 DEF DispatchOwn
    <2>4. ASSUME NEW c \in Agents, DispatchMove(c)
          PROVE  Yields(a)
      <3>1. CASE c = a
        BY <2>4, <3>1 DEF DispatchMove, vars
      <3>2. CASE c # a
        BY <2>4, <3>2 DEF DispatchMove
      <3> QED
        BY <3>1, <3>2
    <2>5. Dispatch \/ duty' = duty
      BY DEF ClientNext, StoreCall, Tick, TickSelect, CancelExpired, Patch, PatchItem, clientVars
    <2> QED
      BY <2>1, <2>2, <2>3, <2>4, <2>5 DEF Dispatch
  <1>2. ClientInv /\ [ClientNext]_clientVars => [\A a \in Agents : Yields(a)]_clientVars
    BY <1>1
  <1> QED
    BY <1>2, ClientInvariant, PTL DEF ClientSpec, DispatchKeepsLaterMoves

(* The clients cannot overbook: no write of theirs adds a booking, and a   *)
(* PATCHed item's bookings still count against the resource they name.     *)
THEOREM ClientsWithinCapacity == ClientSpec => []CapacityRespected
  <1>1. ClientInit => CapacityRespected
    BY CapacityStarts DEF ClientInit
  <1>2. ClientInv /\ CapacityRespected /\ [ClientNext]_clientVars => CapacityRespected'
    <2> SUFFICES ASSUME ClientInv, CapacityRespected, [ClientNext]_clientVars
                 PROVE  CapacityRespected'
      OBVIOUS
    <2>1. CASE [Next]_vars
      BY <2>1, CapacityStep DEF ClientInv
    <2>2. CASE FieldWrite
      BY <2>2 DEF FieldWrite, bookingVars, CapacityRespected, Occupied
    <2> QED
      BY <2>1, <2>2, ClientStepKinds
  <1> QED
    BY <1>1, <1>2, ClientInvariant, PTL DEF ClientSpec

(* An ended booking stays as it ended under the clients too, until its     *)
(* item is deleted. *)
THEOREM ClientsKeepEndedBookings == ClientSpec => EndedBookingIsFinal
  <1>1. ClientInv /\ [ClientNext]_clientVars => [\A b \in Bookings : BookingEndKept(b)]_vars
    <2>1. ASSUME FieldWrite, NEW b \in Bookings
          PROVE  BookingEndKept(b)
      BY <2>1 DEF FieldWrite, bookingVars, BookingEndKept
    <2> QED
      BY <2>1, EndStep, ClientStepKinds DEF ClientInv
  <1> QED
    BY <1>1, ClientInvariant, PTL DEF ClientSpec, EndedBookingIsFinal, BookingEndKept

=============================================================================
