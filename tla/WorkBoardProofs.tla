-------------------------- MODULE WorkBoardProofs --------------------------
(***************************************************************************)
(* Proofs about the work board, for any items, resources, capacities and   *)
(* dependencies.  Ownership and exclusiveness of live bookings are         *)
(* inductive only together: a push tests that the item has no assignee,    *)
(* and it is LiveBookingOwned that makes this test exclude a second live   *)
(* booking.                                                                *)
(***************************************************************************)
EXTENDS WorkBoard, FiniteSetTheorems, TLAPS

(* The inductive invariant: types, ownership, exclusiveness. *)
BoardInv == TypeOK /\ LiveBookingOwned /\ OneLiveBooking

(* What is left of ownership when items are also written around the        *)
(* store's checks: a live booking still names a resource and an item that  *)
(* exists.  It is enough for the types, for it gives a booking that is     *)
(* started or completed a row to write.                                    *)
BookingHasItem ==
    \A b \in Bookings :
        bstate[b] \in Live =>
            bitem[b] \in Items /\ status[bitem[b]] # "absent" /\ bres[b] \in Resources

(* The status an item is created with, the registry's or the caller's, is  *)
(* a status. *)
LEMMA InitialTyped == \A t \in WorkTypes : {InitialStatus[t]} \cup Named \subseteq ItemStatus
  BY BoardAssumption DEF InitialStatus, BuiltinTypes, ItemStatus

(* Types hold in the initial state and are kept by every operation of the  *)
(* store; a booking that is started or completed has an item, by           *)
(* BookingHasItem.                                                         *)
LEMMA TypeStep == TypeOK /\ BookingHasItem /\ [Next]_vars => TypeOK'
  <1> SUFFICES ASSUME TypeOK, BookingHasItem, [Next]_vars
               PROVE  TypeOK'
    OBVIOUS
  <1> USE BoardAssumption DEF TypeOK, BookingState, Live, Occupying, itemVars, bookingVars
  <1>1. ASSUME NEW i \in Items, NEW t \in WorkTypes, NEW a \in Resources \cup {None},
               NEW life \in Lives[i], NEW s \in {InitialStatus[t]} \cup Named,
               NEW n \in Opening, Create(i, t, a, life, s, n)
        PROVE  TypeOK'
    BY <1>1, InitialTyped DEF Create
  <1>2. ASSUME NEW i \in Items, NEW s \in ItemStatus, Transition(i, s)
        PROVE  TypeOK'
    BY <1>2 DEF Transition
  <1>3. ASSUME NEW i \in Items, Delete(i)
        PROVE  TypeOK'
    BY <1>3 DEF Delete, BuiltinTypes
  <1>4. ASSUME NEW i \in Items, TtlPasses(i)
        PROVE  TypeOK'
    BY <1>4 DEF TtlPasses
  <1>5. ASSUME NEW i \in Items, Unassign(i)
        PROVE  TypeOK'
    BY <1>5 DEF Unassign, ItemStatus
  <1>6. ASSUME NEW r \in Resources, Toggle(r)
        PROVE  TypeOK'
    BY <1>6 DEF Toggle
  <1>7. ASSUME NEW i \in Items, NEW r \in Resources, NEW b \in Bookings, Book(i, r, b)
        PROVE  TypeOK'
    BY <1>7 DEF Book, ItemStatus
  <1>8. ASSUME NEW b \in Bookings, StartBooking(b)
        PROVE  TypeOK'
    BY <1>8 DEF StartBooking, ItemStatus, BookingHasItem
  <1>9. ASSUME NEW b \in Bookings,
               PauseBooking(b) \/ ResumeBooking(b) \/ CancelBooking(b)
        PROVE  TypeOK'
    BY <1>9 DEF PauseBooking, ResumeBooking, CancelBooking
  <1>10. ASSUME NEW b \in Bookings, NEW n \in Charges, CompleteBooking(b, n)
         PROVE  TypeOK'
    <2>1. bitem[b] \in Items
      BY <1>10 DEF CompleteBooking, BookingHasItem
    <2>2. tokens[bitem[b]] + n \in 0..MaxTokens
      BY <1>10, <2>1 DEF CompleteBooking
    <2>3. tokens' \in [Items -> 0..MaxTokens]
      BY <1>10, <2>1, <2>2 DEF CompleteBooking
    <2> QED
      BY <1>10, <2>3 DEF CompleteBooking
  <1>12. ASSUME NEW i \in Items, NEW s \in ItemStatus, NEW n \in Deltas, Merge(i, s, n)
         PROVE  TypeOK'
    <2>1. tokens[i] + n \in 0..MaxTokens /\ uncharged[i] + n \in Nat
      BY <1>12 DEF Merge
    <2> QED
      BY <1>12, <2>1 DEF Merge
  <1>11. CASE UNCHANGED vars
    BY <1>11 DEF vars
  <1> QED
    BY <1>1, <1>2, <1>3, <1>4, <1>5, <1>6, <1>7, <1>8, <1>9, <1>10, <1>11, <1>12
       DEF Next, ItemStep, AssignStep, BookingStep, Assign, Claim, ClaimNext

(* Every operation keeps live bookings owned and one to an item. *)
LEMMA OwnershipStep ==
    BoardInv /\ [Next]_vars => LiveBookingOwned' /\ OneLiveBooking'
  <1> SUFFICES ASSUME BoardInv, [Next]_vars
               PROVE  LiveBookingOwned' /\ OneLiveBooking'
    OBVIOUS
  <1> USE BoardAssumption DEF BoardInv, TypeOK, BookingState, Live, Occupying,
                              LiveBookingOwned, OneLiveBooking, itemVars, bookingVars
  <1>1. ASSUME NEW i \in Items, NEW t \in WorkTypes, NEW a \in Resources \cup {None},
               NEW life \in Lives[i], NEW s \in {InitialStatus[t]} \cup Named,
               NEW n \in Opening, Create(i, t, a, life, s, n)
        PROVE  LiveBookingOwned' /\ OneLiveBooking'
    BY <1>1, InitialTyped DEF Create, ItemStatus
  <1>2. ASSUME NEW i \in Items, NEW s \in ItemStatus, Transition(i, s)
        PROVE  LiveBookingOwned' /\ OneLiveBooking'
    BY <1>2 DEF Transition, ItemStatus
  <1>3. ASSUME NEW i \in Items, Delete(i)
        PROVE  LiveBookingOwned' /\ OneLiveBooking'
    BY <1>3 DEF Delete
  <1>4. ASSUME NEW i \in Items, TtlPasses(i)
        PROVE  LiveBookingOwned' /\ OneLiveBooking'
    BY <1>4 DEF TtlPasses
  <1>5. ASSUME NEW i \in Items, Unassign(i)
        PROVE  LiveBookingOwned' /\ OneLiveBooking'
    BY <1>5 DEF Unassign, LiveOn
  <1>6. ASSUME NEW r \in Resources, Toggle(r)
        PROVE  LiveBookingOwned' /\ OneLiveBooking'
    BY <1>6 DEF Toggle
  <1>7. ASSUME NEW i \in Items, NEW r \in Resources, NEW b \in Bookings,
               assignee[i] = None, status[i] # "absent", Book(i, r, b)
        PROVE  LiveBookingOwned' /\ OneLiveBooking'
    <2>1. \A c \in Bookings : bstate[c] \in Live => bitem[c] # i
      BY <1>7
    <2> QED
      BY <1>7, <2>1 DEF Book
  <1>8. ASSUME NEW b \in Bookings, StartBooking(b)
        PROVE  LiveBookingOwned' /\ OneLiveBooking'
    BY <1>8 DEF StartBooking
  <1>9. ASSUME NEW b \in Bookings,
               PauseBooking(b) \/ ResumeBooking(b) \/ CancelBooking(b)
        PROVE  LiveBookingOwned' /\ OneLiveBooking'
    BY <1>9 DEF PauseBooking, ResumeBooking, CancelBooking
  <1>10. ASSUME NEW b \in Bookings, NEW n \in Charges, CompleteBooking(b, n)
         PROVE  LiveBookingOwned' /\ OneLiveBooking'
    BY <1>10 DEF CompleteBooking
  <1>12. ASSUME NEW i \in Items, NEW s \in ItemStatus, NEW n \in Deltas, Merge(i, s, n)
         PROVE  LiveBookingOwned' /\ OneLiveBooking'
    BY <1>12 DEF Merge, ItemStatus
  <1>11. CASE UNCHANGED vars
    BY <1>11 DEF vars
  <1> QED
    BY <1>1, <1>2, <1>3, <1>4, <1>5, <1>6, <1>7, <1>8, <1>9, <1>10, <1>11, <1>12
       DEF Next, ItemStep, AssignStep, BookingStep, Assign, Claim, ClaimNext, ReadyForPull

(* The empty board satisfies the invariant. *)
LEMMA BoardInit == Init => BoardInv
  BY BoardAssumption DEF Init, BoardInv, TypeOK, LiveBookingOwned, OneLiveBooking,
                         BookingState, Live, BuiltinTypes

(* The work board's invariant: the rows are well typed, every live booking *)
(* is of an item assigned to the booking's resource, and no item has two.  *)
THEOREM BoardInvariant == Spec => []BoardInv
  <1>1. BoardInv /\ [Next]_vars => BoardInv'
    BY TypeStep, OwnershipStep DEF BoardInv, LiveBookingOwned, BookingHasItem
  <1> QED
    BY BoardInit, <1>1, PTL DEF Spec

(* Type correctness of the store's rows under every operation. *)
THEOREM TypeCorrect == Spec => []TypeOK
  BY BoardInvariant, PTL DEF BoardInv

(* No agent ever holds a live booking of work that is not assigned to it. *)
THEOREM BookingsOwned == Spec => []LiveBookingOwned
  BY BoardInvariant, PTL DEF BoardInv

(* No item ever has two live bookings, so claim_work_item never meets the  *)
(* work_pull_booking_integrity error under the store's own operations.     *)
THEOREM BookingsExclusive == Spec => []OneLiveBooking
  BY BoardInvariant, PTL DEF BoardInv

-----------------------------------------------------------------------------
(* A set that lost elements, or gained one while it was below the bound,   *)
(* stays within the bound. *)
LEMMA WithinBound ==
    ASSUME NEW S, NEW T, NEW x, NEW n \in Nat, IsFiniteSet(S),
           \/ T \subseteq S /\ Cardinality(S) <= n
           \/ T \subseteq S \cup {x} /\ Cardinality(S) < n
    PROVE  Cardinality(T) <= n
  <1>1. Cardinality(S) \in Nat
    BY FS_CardinalityType
  <1>2. CASE T \subseteq S /\ Cardinality(S) <= n
    <2>1. IsFiniteSet(T) /\ Cardinality(T) <= Cardinality(S)
      BY <1>2, FS_Subset
    <2> QED
      BY <2>1, <1>1, <1>2, FS_CardinalityType
  <1>3. CASE T \subseteq S \cup {x} /\ Cardinality(S) < n
    <2>1. /\ IsFiniteSet(S \cup {x})
          /\ \/ Cardinality(S \cup {x}) = Cardinality(S)
             \/ Cardinality(S \cup {x}) = Cardinality(S) + 1
      BY FS_AddElement
    <2>2. IsFiniteSet(T) /\ Cardinality(T) <= Cardinality(S \cup {x})
      BY <1>3, <2>1, FS_Subset
    <2>3. Cardinality(T) \in Nat
      BY <2>2, FS_CardinalityType
    <2> QED
      BY <2>1, <2>2, <2>3, <1>1, <1>3
  <1> QED
    BY <1>2, <1>3

(* What each operation does to the bookings that occupy a resource: only a *)
(* new booking and a resumed one add an element, and both ask for room.    *)
LEMMA OccupiedStep ==
    ASSUME TypeOK, [Next]_vars, NEW q \in Resources
    PROVE  \/ Occupied(q)' \subseteq Occupied(q)
           \/ HasCapacity(q) /\ \E b \in Bookings : Occupied(q)' \subseteq Occupied(q) \cup {b}
  <1> DEFINE Goal == \/ Occupied(q)' \subseteq Occupied(q)
                     \/ HasCapacity(q) /\ \E b \in Bookings : Occupied(q)' \subseteq Occupied(q) \cup {b}
  <1> USE BoardAssumption DEF TypeOK, BookingState, Live, Occupying, Occupied,
                              itemVars, bookingVars
  <1>1. ASSUME ItemStep
        PROVE  Occupied(q)' \subseteq Occupied(q)
    <2>1. ASSUME NEW i \in Items, Delete(i)
          PROVE  Occupied(q)' \subseteq Occupied(q)
      BY <2>1 DEF Delete
    <2>2. ASSUME NEW i \in Items, Unassign(i)
          PROVE  Occupied(q)' \subseteq Occupied(q)
      BY <2>2 DEF Unassign, LiveOn
    <2> QED
      BY <1>1, <2>1, <2>2 DEF ItemStep, Create, Merge, Transition, TtlPasses, Toggle
  <1>2. ASSUME NEW i \in Items, NEW r \in Resources, NEW b \in Bookings,
               HasCapacity(r), Book(i, r, b)
        PROVE  Goal
    <2>1. CASE q = r
      BY <1>2, <2>1 DEF Book
    <2>2. CASE q # r
      BY <1>2, <2>2 DEF Book
    <2> QED
      BY <2>1, <2>2
  <1>3. ASSUME NEW b \in Bookings, ResumeBooking(b)
        PROVE  Goal
    <2>1. CASE q = bres[b]
      BY <1>3, <2>1 DEF ResumeBooking
    <2>2. CASE q # bres[b]
      BY <1>3, <2>2 DEF ResumeBooking
    <2> QED
      BY <2>1, <2>2
  <1>4. ASSUME NEW b \in Bookings,
               StartBooking(b) \/ PauseBooking(b) \/ CancelBooking(b)
                   \/ \E n \in Charges : CompleteBooking(b, n)
        PROVE  Occupied(q)' \subseteq Occupied(q)
    BY <1>4 DEF StartBooking, PauseBooking, CancelBooking, CompleteBooking
  <1>5. CASE UNCHANGED vars
    BY <1>5 DEF vars
  <1> QED
    BY <1>1, <1>2, <1>3, <1>4, <1>5 DEF Next, AssignStep, BookingStep, Assign, Claim, ClaimNext

(* An empty board is within every capacity. *)
LEMMA CapacityStarts == Init => CapacityRespected
  <1> SUFFICES ASSUME Init, NEW r \in Resources
               PROVE  Cardinality(Occupied(r)) <= Capacity[r]
    BY DEF CapacityRespected
  <1>1. Occupied(r) = {}
    BY DEF Init, Occupied, Occupying
  <1> QED
    BY <1>1, FS_EmptySet, BoardAssumption

(* Every operation of the store keeps every resource within its capacity. *)
LEMMA CapacityStep == TypeOK /\ CapacityRespected /\ [Next]_vars => CapacityRespected'
  <1> SUFFICES ASSUME TypeOK, CapacityRespected, [Next]_vars, NEW q \in Resources
               PROVE  Cardinality(Occupied(q)') <= Capacity[q]
    BY DEF CapacityRespected
  <1>1. Capacity[q] \in Nat /\ Cardinality(Occupied(q)) <= Capacity[q]
    BY BoardAssumption DEF CapacityRespected
  <1>2. IsFiniteSet(Occupied(q))
    <2>1. Occupied(q) \in SUBSET Bookings
      BY DEF Occupied
    <2> QED
      BY <2>1, FS_Subset, BoardAssumption
  <1>3. CASE Occupied(q)' \subseteq Occupied(q)
    BY <1>1, <1>2, <1>3, WithinBound
  <1>4. CASE HasCapacity(q) /\ \E b \in Bookings : Occupied(q)' \subseteq Occupied(q) \cup {b}
    BY <1>1, <1>2, <1>4, WithinBound DEF HasCapacity
  <1> QED
    BY <1>3, <1>4, OccupiedStep

(* No resource ever holds more scheduled and active bookings than its      *)
(* capacity, whatever is pushed, pulled, paused and resumed.               *)
THEOREM CapacityHolds == Spec => []CapacityRespected
  BY CapacityStarts, CapacityStep, TypeCorrect, PTL DEF Spec

(* What EndedBookingIsFinal asks of a step for one booking. *)
BookingEndKept(b) ==
    bstate[b] \in {"completed", "cancelled"} =>
        \/ bstate'[b] = bstate[b] /\ btokens'[b] = btokens[b] /\ bitem'[b] = bitem[b]
        \/ bstate'[b] = "absent" /\ status'[bitem[b]] = "absent"

(* Every operation of the store leaves ended bookings as they are, or      *)
(* deletes them with their item. *)
LEMMA EndStep ==
    ASSUME TypeOK, [Next]_vars, NEW b \in Bookings
    PROVE  BookingEndKept(b)
  <1> USE BoardAssumption DEF TypeOK, BookingState, Live, Occupying, BookingEndKept,
                              itemVars, bookingVars
  <1>1. ASSUME NEW i \in Items, Delete(i)
        PROVE  BookingEndKept(b)
    BY <1>1 DEF Delete
  <1>2. ASSUME NEW i \in Items, Unassign(i)
        PROVE  BookingEndKept(b)
    BY <1>2 DEF Unassign, LiveOn
  <1>3. CASE ItemStep
    BY <1>1, <1>2, <1>3 DEF ItemStep, Create, Merge, Transition, TtlPasses, Toggle
  <1>4. CASE AssignStep
    BY <1>4 DEF AssignStep, Assign, Claim, ClaimNext, Book
  <1>5. CASE BookingStep
    BY <1>5 DEF BookingStep, StartBooking, PauseBooking, ResumeBooking, CancelBooking,
                CompleteBooking
  <1>6. CASE UNCHANGED vars
    BY <1>6 DEF vars
  <1> QED
    BY <1>3, <1>4, <1>5, <1>6 DEF Next

(* An ended booking keeps its end and its charge until its item is deleted. *)
THEOREM EndedFinal == Spec => EndedBookingIsFinal
  <1>1. TypeOK /\ [Next]_vars => [\A b \in Bookings : BookingEndKept(b)]_vars
    BY EndStep
  <1> QED
    BY <1>1, TypeCorrect, PTL DEF Spec, EndedBookingIsFinal, BookingEndKept

-----------------------------------------------------------------------------
(* What the charges need to be found again: only a completed booking has   *)
(* one, and no booking is of an item that has no row.  A new row would     *)
(* otherwise start with another's charges.                                 *)
ChargesArePlaced ==
    \A b \in Bookings :
        /\ bstate[b] # "completed" => btokens[b] = 0
        /\ bitem[b] \in Items => status[bitem[b]] # "absent"

(* Every operation of the store keeps the charges where they belong. *)
LEMMA PlacedStep ==
    TypeOK /\ BookingHasItem /\ ChargesArePlaced /\ [Next]_vars => ChargesArePlaced'
  <1> SUFFICES ASSUME TypeOK, BookingHasItem, ChargesArePlaced, [Next]_vars
               PROVE  ChargesArePlaced'
    OBVIOUS
  <1> USE BoardAssumption DEF TypeOK, BookingState, Live, Occupying, BookingHasItem,
                              ChargesArePlaced, itemVars, bookingVars
  <1>1. ASSUME NEW i \in Items, NEW t \in WorkTypes, NEW a \in Resources \cup {None},
               NEW life \in Lives[i], NEW s \in {InitialStatus[t]} \cup Named,
               NEW n \in Opening, Create(i, t, a, life, s, n)
        PROVE  ChargesArePlaced'
    BY <1>1, InitialTyped DEF Create, ItemStatus
  <1>2. ASSUME NEW i \in Items, NEW s \in ItemStatus, Transition(i, s)
        PROVE  ChargesArePlaced'
    BY <1>2 DEF Transition, ItemStatus
  <1>3. ASSUME NEW i \in Items, Delete(i)
        PROVE  ChargesArePlaced'
    BY <1>3 DEF Delete
  <1>4. ASSUME NEW i \in Items, TtlPasses(i) \/ Unassign(i)
        PROVE  ChargesArePlaced'
    BY <1>4 DEF TtlPasses, Unassign, LiveOn
  <1>5. ASSUME NEW r \in Resources, Toggle(r)
        PROVE  ChargesArePlaced'
    BY <1>5 DEF Toggle
  <1>6. ASSUME NEW i \in Items, NEW r \in Resources, NEW b \in Bookings, Book(i, r, b)
        PROVE  ChargesArePlaced'
    BY <1>6 DEF Book
  <1>7. CASE BookingStep
    BY <1>7 DEF BookingStep, StartBooking, PauseBooking, ResumeBooking, CancelBooking,
                CompleteBooking
  <1>9. ASSUME NEW i \in Items, NEW s \in ItemStatus, NEW n \in Deltas, Merge(i, s, n)
         PROVE  ChargesArePlaced'
    BY <1>9 DEF Merge, ItemStatus
  <1>8. CASE UNCHANGED vars
    BY <1>8 DEF vars
  <1> QED
    BY <1>1, <1>2, <1>3, <1>4, <1>5, <1>6, <1>7, <1>8, <1>9
       DEF Next, ItemStep, AssignStep, Assign, Claim, ClaimNext

(* A charge of n tokens is n units, apart from all that was charged before. *)
LEMMA UnitsAdded ==
    ASSUME NEW U, IsFiniteSet(U), NEW b, NEW n \in Nat, U \cap ({b} \X (1..n)) = {}
    PROVE  Cardinality(U \cup ({b} \X (1..n))) = Cardinality(U) + n
  <1>1. IsFiniteSet({b}) /\ Cardinality({b}) = 1
    BY FS_Singleton
  <1>2. IsFiniteSet(1..n) /\ Cardinality(1..n) = n
    BY FS_Interval
  <1>3. IsFiniteSet({b} \X (1..n)) /\ Cardinality({b} \X (1..n)) = n
    <2>1. /\ IsFiniteSet({b} \X (1..n))
          /\ Cardinality({b} \X (1..n)) = Cardinality({b}) * Cardinality(1..n)
      BY ONLY <1>1, <1>2, FS_Product
    <2>2. Cardinality({b}) * Cardinality(1..n) = 1 * n
      BY ONLY <1>1, <1>2
    <2> QED
      BY ONLY <2>1, <2>2, n \in Nat
  <1>4. Cardinality(U \cap ({b} \X (1..n))) = 0
    BY FS_EmptySet
  <1>5. Cardinality(U \cup ({b} \X (1..n)))
            = Cardinality(U) + Cardinality({b} \X (1..n)) - Cardinality(U \cap ({b} \X (1..n)))
    BY <1>3, FS_Union
  <1>6. Cardinality(U) \in Nat
    BY FS_CardinalityType
  <1> QED
    BY ONLY <1>3, <1>4, <1>5, <1>6, n \in Nat

(* Every operation of the store keeps the items' counters in step with the *)
(* charges of their bookings.                                              *)
LEMMA TokensStep ==
    TypeOK /\ BookingHasItem /\ ChargesArePlaced /\ TokensConserved /\ [Next]_vars
        => TokensConserved'
  <1> SUFFICES ASSUME TypeOK, BookingHasItem, ChargesArePlaced, TokensConserved, [Next]_vars,
                      NEW j \in Items
               PROVE  tokens'[j] = uncharged'[j] + Cardinality(ChargedUnits(j)')
    BY DEF TokensConserved
  <1> DEFINE Goal == tokens'[j] = uncharged'[j] + Cardinality(ChargedUnits(j)')
  <1>0. tokens[j] = uncharged[j] + Cardinality(ChargedUnits(j))
    BY DEF TokensConserved
  <1>c. IsFiniteSet(ChargedUnits(j)) /\ Cardinality(ChargedUnits(j)) \in Nat
    <2>1. IsFiniteSet(1..MaxTokens)
      BY FS_Interval, BoardAssumption
    <2>2. IsFiniteSet(Bookings \X (1..MaxTokens))
      BY <2>1, FS_Product, BoardAssumption
    <2>3. ChargedUnits(j) \subseteq Bookings \X (1..MaxTokens)
      BY DEF ChargedUnits
    <2> QED
      BY <2>2, <2>3, FS_Subset, FS_CardinalityType
  <1>d. uncharged[j] \in Nat /\ tokens[j] \in Nat
    BY BoardAssumption DEF TypeOK
  <1>a. ASSUME tokens'[j] = tokens[j], uncharged'[j] = uncharged[j],
               ChargedUnits(j)' = ChargedUnits(j)
        PROVE  Goal
    BY <1>0, <1>a
  <1>b. ASSUME tokens'[j] = uncharged'[j], uncharged'[j] \in Nat, \A b \in Bookings : bitem'[b] # j
        PROVE  Goal
    <2>1. ChargedUnits(j)' = {}
      BY <1>b DEF ChargedUnits
    <2> QED
      BY <1>b, <2>1, FS_EmptySet
  <1>1. ASSUME NEW i \in Items, NEW t \in WorkTypes, NEW a \in Resources \cup {None},
               NEW life \in Lives[i], NEW s \in {InitialStatus[t]} \cup Named,
               NEW n \in Opening, Create(i, t, a, life, s, n)
        PROVE  Goal
    <2>1. CASE i = j
      <3>1. /\ tokens'[j] = uncharged'[j] /\ uncharged'[j] \in Nat
            /\ \A b \in Bookings : bitem'[b] # j
        BY <1>1, <2>1, BoardAssumption DEF Create, bookingVars, TypeOK, ChargesArePlaced
      <3> QED
        BY <3>1, <1>b
    <2>2. CASE i # j
      <3>1. /\ tokens'[j] = tokens[j] /\ uncharged'[j] = uncharged[j]
            /\ ChargedUnits(j)' = ChargedUnits(j)
        BY <1>1, <2>2 DEF Create, bookingVars, TypeOK, ChargedUnits
      <3> QED
        BY <3>1, <1>a
    <2> QED
      BY <2>1, <2>2
  <1>2. ASSUME NEW i \in Items, Delete(i)
        PROVE  Goal
    <2>1. CASE i = j
      <3>1. /\ tokens'[j] = uncharged'[j] /\ uncharged'[j] \in Nat
            /\ \A b \in Bookings : bitem'[b] # j
        BY <1>2, <2>1, BoardAssumption DEF Delete, TypeOK
      <3> QED
        BY <3>1, <1>b
    <2>2. CASE i # j
      <3>1. tokens'[j] = tokens[j] /\ uncharged'[j] = uncharged[j]
        BY <1>2, <2>2 DEF Delete, TypeOK
      <3>2. \A b \in Bookings :
               /\ bitem'[b] = j <=> bitem[b] = j
               /\ bitem[b] = j => btokens'[b] = btokens[b]
        BY <1>2, <2>2, BoardAssumption DEF Delete, TypeOK
      <3>3. ChargedUnits(j)' = ChargedUnits(j)
        BY <3>2 DEF ChargedUnits
      <3> QED
        BY <3>1, <3>3, <1>a
    <2> QED
      BY <2>1, <2>2
  <1>3. ASSUME NEW i \in Items, NEW r \in Resources, NEW b \in Bookings, Book(i, r, b)
        PROVE  Goal
    <2>1. btokens[b] = 0
      BY <1>3 DEF Book, ChargesArePlaced
    <2>2. \A c \in Bookings : c # b => bitem'[c] = bitem[c]
      BY <1>3 DEF Book, TypeOK
    <2>3. ChargedUnits(j)' = ChargedUnits(j)
      BY <1>3, <2>1, <2>2 DEF Book, ChargedUnits
    <2> QED
      BY <1>3, <2>3, <1>a DEF Book
  <1>4. ASSUME NEW b \in Bookings, NEW n \in Charges, CompleteBooking(b, n)
        PROVE  Goal
    <2>1. /\ bitem[b] \in Items /\ btokens[b] = 0 /\ n \in 0..MaxTokens /\ MaxTokens \in Nat
          /\ tokens[bitem[b]] \in Nat
      BY <1>4, BoardAssumption
         DEF CompleteBooking, BookingHasItem, ChargesArePlaced, Live, Occupying, TypeOK
    <2>2. \A c \in Bookings : btokens'[c] = IF c = b THEN n ELSE btokens[c]
      BY <1>4 DEF CompleteBooking, TypeOK
    <2>3. CASE bitem[b] = j
      <3>1. tokens'[j] = tokens[j] + n /\ uncharged'[j] = uncharged[j]
        BY <1>4, <2>3 DEF CompleteBooking, TypeOK
      <3>2. ChargedUnits(j)' = ChargedUnits(j) \cup ({b} \X (1..n))
        BY <1>4, <2>1, <2>2, <2>3 DEF CompleteBooking, ChargedUnits
      <3>3. ChargedUnits(j) \cap ({b} \X (1..n)) = {}
        BY <2>1 DEF ChargedUnits
      <3>5. Cardinality(ChargedUnits(j) \cup ({b} \X (1..n))) = Cardinality(ChargedUnits(j)) + n
        <4>1. n \in Nat
          BY <2>1
        <4> QED
          BY ONLY <3>3, <1>c, <4>1, UnitsAdded
      <3> QED
        BY <1>0, <1>c, <1>d, <2>1, <3>1, <3>2, <3>5
    <2>4. CASE bitem[b] # j
      <3>1. tokens'[j] = tokens[j] /\ uncharged'[j] = uncharged[j]
        BY <1>4, <2>4 DEF CompleteBooking, TypeOK
      <3>2. ChargedUnits(j)' = ChargedUnits(j)
        BY <1>4, <2>2, <2>4 DEF CompleteBooking, ChargedUnits
      <3> QED
        BY <3>1, <3>2, <1>a
    <2> QED
      BY <2>3, <2>4
  <1>10. ASSUME NEW i \in Items, NEW s \in ItemStatus, NEW n \in Deltas, Merge(i, s, n)
         PROVE  Goal
    <2>1. ChargedUnits(j)' = ChargedUnits(j)
      BY <1>10 DEF Merge, bookingVars, ChargedUnits
    <2>2. CASE i = j
      <3>1. tokens'[j] = tokens[j] + n /\ uncharged'[j] = uncharged[j] + n /\ n \in Nat
        BY <1>10, <2>2, BoardAssumption DEF Merge, TypeOK
      <3> QED
        BY <1>0, <1>c, <1>d, <2>1, <3>1
    <2>3. CASE i # j
      <3>1. tokens'[j] = tokens[j] /\ uncharged'[j] = uncharged[j]
        BY <1>10, <2>3 DEF Merge, TypeOK
      <3> QED
        BY <2>1, <3>1, <1>a
    <2> QED
      BY <2>2, <2>3
  <1>5. ASSUME UNCHANGED <<tokens, uncharged, bitem, btokens>>
        PROVE  Goal
    BY <1>5, <1>0 DEF ChargedUnits
  <1>6. CASE ItemStep
    BY <1>1, <1>2, <1>5, <1>6, <1>10
       DEF ItemStep, Transition, TtlPasses, Unassign, Toggle, itemVars, bookingVars
  <1>7. CASE AssignStep
    BY <1>3, <1>7 DEF AssignStep, Assign, Claim, ClaimNext
  <1>8. CASE BookingStep
    BY <1>4, <1>5, <1>8
       DEF BookingStep, StartBooking, PauseBooking, ResumeBooking, CancelBooking, itemVars
  <1>9. CASE UNCHANGED vars
    BY <1>5, <1>9 DEF vars
  <1> QED
    BY <1>6, <1>7, <1>8, <1>9 DEF Next

(* No charge: an empty board conserves the tokens. *)
LEMMA TokensStart == Init => ChargesArePlaced /\ TokensConserved
  <1> SUFFICES ASSUME Init
               PROVE  ChargesArePlaced /\ TokensConserved
    OBVIOUS
  <1>1. ChargesArePlaced
    BY BoardAssumption DEF Init, ChargesArePlaced
  <1>2. ASSUME NEW i \in Items
        PROVE  tokens[i] = uncharged[i] + Cardinality(ChargedUnits(i))
    <2>1. ChargedUnits(i) = {}
      BY BoardAssumption DEF Init, ChargedUnits
    <2> QED
      BY <2>1, FS_EmptySet DEF Init
  <1> QED
    BY <1>1, <1>2 DEF TokensConserved

(* An item's counter is what it was created with, what was merged into it  *)
(* and the sum of the charges of its bookings, for any ceiling and any     *)
(* amounts: a charge is neither lost nor put on another item, also when    *)
(* items are deleted and their ids and bookings used again.                *)
THEOREM TokensAreConserved == Spec => []TokensConserved
  <1>1. BoardInv => TypeOK /\ BookingHasItem
    BY DEF BoardInv, LiveBookingOwned, BookingHasItem
  <1> QED
    BY <1>1, BoardInvariant, TokensStart, PlacedStep, TokensStep, PTL DEF Spec

=============================================================================
