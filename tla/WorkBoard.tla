----------------------------- MODULE WorkBoard -----------------------------
(***************************************************************************)
(* The assignment engine and booking lifecycle of WorkItemStore            *)
(* (src/probos/workforce.py).  Every operation runs in one                 *)
(* _booking_transaction: a process-wide write lock around BEGIN IMMEDIATE  *)
(* ... COMMIT, rolled back on any exception.  So an operation is one step, *)
(* and a refused or failed one leaves the board as it was (a stutter).     *)
(*                                                                         *)
(* A row is a value in a few functions: an item whose status is "absent"   *)
(* and a booking whose state is "absent" have no row.  Not modelled, since *)
(* no guard here reads it: timestamps and journals (write-only evidence),  *)
(* a requirement's "fulfilled" flag, owned steps and crew sessions (their  *)
(* writes are refused on this surface).  The other conditions on one call  *)
(* (steps gate, visibility, departments) are in Eligible or let through,   *)
(* which only adds behaviours.  update_work_item, which writes any field   *)
(* with no check, is in BoardClients.                                      *)
(***************************************************************************)
EXTENDS Naturals, FiniteSets

CONSTANTS
    Items,        \* ids of work items
    Resources,    \* bookable resources (agents)
    Bookings,     \* ids of bookings, never reused while their row exists
    None,         \* "no resource" / "no item" (SQL NULL)
    WorkTypes,    \* the work types in use, a subset of the built-in ones
    Named,        \* the statuses a caller of create_work_item names itself
    Lives,        \* [Items -> how it is created: "none" (no ttl_seconds), "running"]
    Capacity,     \* [Resources -> Nat \ {0}]: BookableResource.capacity
    Eligible,     \* <<r, i>>: _check_eligibility and _requirements_allow agree
    DependsOn,    \* [Items -> SUBSET Items]: WorkItem.depends_on
    MaxTokens,    \* _MAX_WORK_ITEM_ACTUAL_TOKENS (2^63 - 1 in the code)
    Opening,      \* the actual_tokens values an item is created with
    Charges,      \* the tokens_consumed values complete_booking is called with
    Deltas        \* the actual_tokens_delta values merged into an item, 0 aside

BuiltinTypes == {"card", "task", "work_order", "duty", "incident"}
ItemStatus == {"draft", "open", "scheduled", "in_progress", "review",
               "done", "failed", "cancelled", "blocked"}

ASSUME BoardAssumption ==
    /\ None \notin Items \cup Resources
    /\ IsFiniteSet(Bookings)
    /\ WorkTypes \subseteq BuiltinTypes
    /\ Lives \in [Items -> SUBSET {"none", "running"}]
    /\ Capacity \in [Resources -> Nat \ {0}]
    /\ Eligible \subseteq Resources \X Items
    /\ DependsOn \in [Items -> SUBSET Items]
    /\ MaxTokens \in Nat
    /\ Named \subseteq ItemStatus
    /\ Opening \subseteq 0..MaxTokens
    /\ Charges \subseteq 0..MaxTokens
    /\ Deltas \subseteq 1..MaxTokens

VARIABLES
    workType,   \* [Items -> BuiltinTypes]
    status,     \* [Items -> Status]
    assignee,   \* [Items -> Resources \cup {None}]: assigned_to
    ttl,        \* [Items -> "none" | "running" | "passed"]
    tokens,     \* [Items -> 0..MaxTokens]: actual_tokens
    uncharged,  \* ghost, [Items -> Nat]: tokens no booking was charged for
    bstate,     \* [Bookings -> BookingState]
    bitem,      \* [Bookings -> Items \cup {None}]: work_item_id
    bres,       \* [Bookings -> Resources \cup {None}]: resource_id
    btokens,    \* [Bookings -> 0..MaxTokens]: total_tokens_consumed
    active      \* SUBSET Resources: registered resources whose active flag is set

itemVars == <<workType, status, assignee, ttl, tokens, uncharged>>
bookingVars == <<bstate, bitem, bres, btokens>>
vars == <<workType, status, assignee, ttl, tokens, uncharged, bstate, bitem, bres, btokens, active>>

-----------------------------------------------------------------------------
(* The work type registry: BUILTIN_WORK_TYPES. *)

InitialStatus == [t \in BuiltinTypes |->
    CASE t \in {"card", "work_order"} -> "draft"
      [] t \in {"task", "incident"}   -> "open"
      [] t = "duty"                   -> "scheduled"]

\* terminal_statuses of each type: nothing leaves them by a validated move.
TypeTerminal == [t \in BuiltinTypes |->
    CASE t \in {"task", "work_order"}  -> {"done", "failed", "cancelled"}
      [] t = "card"                    -> {"done", "cancelled"}
      [] t \in {"duty", "incident"}    -> {"done", "failed"}]

Edges == [t \in BuiltinTypes |->
    CASE t = "card" ->
           {"draft"} \X {"open", "done", "cancelled"} \cup {"open"} \X {"done", "cancelled"}
      [] t = "task" ->
           {"open"} \X {"in_progress", "cancelled", "blocked"}
           \cup {"in_progress"} \X {"done", "failed", "cancelled", "blocked"}
           \cup {"blocked"} \X {"in_progress", "cancelled"}
      [] t = "work_order" ->
           {"draft"} \X {"open", "cancelled"}
           \cup {"open"} \X {"scheduled", "cancelled", "blocked"}
           \cup {"scheduled"} \X {"in_progress", "cancelled", "blocked"}
           \cup {"in_progress"} \X {"review", "failed", "cancelled", "blocked"}
           \cup {"review"} \X {"done", "in_progress", "failed"}
           \cup {"blocked"} \X {"in_progress", "cancelled"}
      [] t = "duty" ->
           {"scheduled"} \X {"in_progress", "blocked"}
           \cup {"in_progress"} \X {"done", "failed", "blocked"}
           \cup {"blocked"} \X {"in_progress", "cancelled"}
      [] t = "incident" ->
           {"open"} \X {"in_progress", "blocked"}
           \cup {"in_progress"} \X {"review", "failed", "blocked"}
           \cup {"review"} \X {"done", "in_progress", "failed"}
           \cup {"blocked"} \X {"in_progress", "cancelled"}]

\* The edges flagged requires_assignment.
OwnerEdges == [t \in BuiltinTypes |->
    CASE t = "task"       -> {<<"open", "in_progress">>}
      [] t = "work_order" -> {<<"scheduled", "in_progress">>}
      [] t = "incident"   -> {<<"open", "in_progress">>, <<"in_progress", "review">>,
                              <<"review", "done">>, <<"review", "in_progress">>}
      [] OTHER            -> {}]

\* _TERMINAL_STATUSES: what assign, claim and the TTL sweep call ended.
Terminal == {"done", "cancelled", "failed"}

\* _validate_work_item_status_transition (its steps gate only refuses more).
MayMove(i, s) ==
    /\ status[i] \notin TypeTerminal[workType[i]]
    /\ <<status[i], s>> \in Edges[workType[i]]
    /\ <<status[i], s>> \in OwnerEdges[workType[i]] => assignee[i] # None

-----------------------------------------------------------------------------
Live == {"scheduled", "active", "on_break"}   \* not completed and not cancelled
Occupying == {"scheduled", "active"}          \* what the capacity query counts
BookingState == Live \cup {"completed", "cancelled", "absent"}

LiveOn(i) == {b \in Bookings : bitem[b] = i /\ bstate[b] \in Live}
Occupied(r) == {b \in Bookings : bres[b] = r /\ bstate[b] \in Occupying}

\* _has_booking_capacity
HasCapacity(r) == Cardinality(Occupied(r)) < Capacity[r]

\* _ready_for_pull
ReadyForPull(i, r) ==
    /\ status[i] = "open" /\ assignee[i] = None
    /\ <<r, i>> \in Eligible
    /\ ttl[i] # "passed"
    /\ \A d \in DependsOn[i] : status[d] = "done"

TypeOK ==
    /\ workType \in [Items -> BuiltinTypes]
    /\ status \in [Items -> ItemStatus \cup {"absent"}]
    /\ assignee \in [Items -> Resources \cup {None}]
    /\ ttl \in [Items -> {"none", "running", "passed"}]
    /\ tokens \in [Items -> 0..MaxTokens] /\ uncharged \in [Items -> Nat]
    /\ bstate \in [Bookings -> BookingState]
    /\ bitem \in [Bookings -> Items \cup {None}]
    /\ bres \in [Bookings -> Resources \cup {None}]
    /\ btokens \in [Bookings -> 0..MaxTokens]
    /\ active \subseteq Resources

Init ==
    /\ workType = [i \in Items |-> "task"]
    /\ status = [i \in Items |-> "absent"]
    /\ assignee = [i \in Items |-> None]
    /\ ttl = [i \in Items |-> "none"]
    /\ tokens = [i \in Items |-> 0] /\ uncharged = [i \in Items |-> 0]
    /\ bstate = [b \in Bookings |-> "absent"]
    /\ bitem = [b \in Bookings |-> None]
    /\ bres = [b \in Bookings |-> None]
    /\ btokens = [b \in Bookings |-> 0]
    /\ active = Resources

-----------------------------------------------------------------------------
(* Items. *)

\* create_work_item: the registry's initial status unless the caller names
\* one; a caller may also name an assignee at once (a self-task or a chief's
\* assignment), with no booking, and the tokens the item starts with.
Create(i, t, a, life, s, n) ==
    /\ status[i] = "absent"
    /\ workType' = [workType EXCEPT ![i] = t]
    /\ status' = [status EXCEPT ![i] = s]
    /\ assignee' = [assignee EXCEPT ![i] = a]
    /\ ttl' = [ttl EXCEPT ![i] = life]
    /\ tokens' = [tokens EXCEPT ![i] = n] /\ uncharged' = [uncharged EXCEPT ![i] = n]
    /\ UNCHANGED <<bookingVars, active>>

\* merge_work_item_metadata with an actual_tokens_delta, and a new_status or
\* none; compare_and_set_work_item_verification adds to the counter in the
\* same way.  No booking is charged; an overflow raises.
Merge(i, s, n) ==
    /\ status[i] # "absent"
    /\ tokens[i] <= MaxTokens - n
    /\ s # status[i] => MayMove(i, s)
    /\ status' = [status EXCEPT ![i] = s]
    /\ tokens' = [tokens EXCEPT ![i] = @ + n]
    /\ uncharged' = [uncharged EXCEPT ![i] = @ + n]
    /\ UNCHANGED <<workType, assignee, ttl, bookingVars, active>>

\* transition_work_item: it never touches a booking.  The same status is a
\* no-op, an edge outside the registry is refused.
Transition(i, s) ==
    /\ status[i] # "absent" /\ s # status[i]
    /\ MayMove(i, s)
    /\ status' = [status EXCEPT ![i] = s]
    /\ UNCHANGED <<workType, assignee, ttl, tokens, uncharged, bookingVars, active>>

\* A slip: deleting an item leaves its ended bookings behind.
DeleteKeepsEnded(i) ==
    LET gone == {b \in Bookings : bitem[b] = i /\ bstate[b] \in Live} IN
    /\ status[i] # "absent"
    /\ workType' = [workType EXCEPT ![i] = "task"]
    /\ status' = [status EXCEPT ![i] = "absent"]
    /\ assignee' = [assignee EXCEPT ![i] = None]
    /\ ttl' = [ttl EXCEPT ![i] = "none"]
    /\ tokens' = [tokens EXCEPT ![i] = 0] /\ uncharged' = [uncharged EXCEPT ![i] = 0]
    /\ bstate' = [b \in Bookings |-> IF b \in gone THEN "absent" ELSE bstate[b]]
    /\ bitem' = [b \in Bookings |-> IF b \in gone THEN None ELSE bitem[b]]
    /\ bres' = [b \in Bookings |-> IF b \in gone THEN None ELSE bres[b]]
    /\ btokens' = [b \in Bookings |-> IF b \in gone THEN 0 ELSE btokens[b]]
    /\ UNCHANGED active

\* delete_work_item: the row and every booking of it.
Delete(i) ==
    LET gone == {b \in Bookings : bitem[b] = i} IN
    /\ status[i] # "absent"
    /\ workType' = [workType EXCEPT ![i] = "task"]
    /\ status' = [status EXCEPT ![i] = "absent"]
    /\ assignee' = [assignee EXCEPT ![i] = None]
    /\ ttl' = [ttl EXCEPT ![i] = "none"]
    /\ tokens' = [tokens EXCEPT ![i] = 0] /\ uncharged' = [uncharged EXCEPT ![i] = 0]
    /\ bstate' = [b \in Bookings |-> IF b \in gone THEN "absent" ELSE bstate[b]]
    /\ bitem' = [b \in Bookings |-> IF b \in gone THEN None ELSE bitem[b]]
    /\ bres' = [b \in Bookings |-> IF b \in gone THEN None ELSE bres[b]]
    /\ btokens' = [b \in Bookings |-> IF b \in gone THEN 0 ELSE btokens[b]]
    /\ UNCHANGED active

\* The wall clock passes created_at + ttl_seconds.
TtlPasses(i) ==
    /\ ttl[i] = "running"
    /\ ttl' = [ttl EXCEPT ![i] = "passed"]
    /\ UNCHANGED <<workType, status, assignee, tokens, uncharged, bookingVars, active>>

\* A resource leaves or joins: unregister_resource, register_resource.
Toggle(r) ==
    /\ active' = IF r \in active THEN active \ {r} ELSE active \cup {r}
    /\ UNCHANGED <<itemVars, bookingVars>>

-----------------------------------------------------------------------------
(* Assignment. *)

\* _assign_work_item: the item is scheduled for r and a fresh booking made.
Book(i, r, b) ==
    /\ bstate[b] = "absent"
    /\ status' = [status EXCEPT ![i] = "scheduled"]
    /\ assignee' = [assignee EXCEPT ![i] = r]
    /\ bstate' = [bstate EXCEPT ![b] = "scheduled"]
    /\ bitem' = [bitem EXCEPT ![b] = i]
    /\ bres' = [bres EXCEPT ![b] = r]
    /\ UNCHANGED <<workType, ttl, tokens, uncharged, btokens, active>>

\* A slip: a push that replaces the current assignee.
AssignOverwrites(i, r, b) ==
    /\ status[i] \notin Terminal \cup {"absent"}
    /\ r \in active
    /\ <<r, i>> \in Eligible
    /\ HasCapacity(r)
    /\ Book(i, r, b)

\* assign_work_item: the Captain pushes; any status but an ended one will do.
Assign(i, r, b) ==
    /\ status[i] \notin Terminal \cup {"absent"}
    /\ assignee[i] = None
    /\ r \in active
    /\ <<r, i>> \in Eligible
    /\ HasCapacity(r)
    /\ Book(i, r, b)

\* claim_work_item with a work_item_id.  An item assigned already, or booked
\* before by r, is answered without a change; two live bookings raise.
Claim(i, r, b) ==
    /\ r \in active
    /\ assignee[i] = None
    /\ \A c \in Bookings : bitem[c] = i => bres[c] # r
    /\ LiveOn(i) = {}
    /\ HasCapacity(r)
    /\ ReadyForPull(i, r)
    /\ Book(i, r, b)

\* claim_work_item without one: the first ready candidate of the queue.  The
\* queue's order is left out: any ready item may be the first.  This path
\* reads no earlier booking of the item.
ClaimNext(i, r, b) ==
    /\ r \in active
    /\ HasCapacity(r)
    /\ ReadyForPull(i, r)
    /\ Book(i, r, b)

\* A slip: only the bookings that occupy the resource are cancelled.
UnassignSparesBreaks(i) ==
    /\ status[i] # "absent" /\ assignee[i] # None
    /\ bstate' = [b \in Bookings |->
                     IF b \in LiveOn(i) /\ bstate[b] \in Occupying THEN "cancelled" ELSE bstate[b]]
    /\ status' = [status EXCEPT ![i] = "open"]
    /\ assignee' = [assignee EXCEPT ![i] = None]
    /\ UNCHANGED <<workType, ttl, tokens, uncharged, bitem, bres, btokens, active>>

\* unassign_work_item: cancels every live booking and reopens the item,
\* whatever its status.
Unassign(i) ==
    /\ status[i] # "absent" /\ assignee[i] # None
    /\ bstate' = [b \in Bookings |-> IF b \in LiveOn(i) THEN "cancelled" ELSE bstate[b]]
    /\ status' = [status EXCEPT ![i] = "open"]
    /\ assignee' = [assignee EXCEPT ![i] = None]
    /\ UNCHANGED <<workType, ttl, tokens, uncharged, bitem, bres, btokens, active>>

-----------------------------------------------------------------------------
(* Booking lifecycle. *)

\* start_booking: the item goes to in_progress, whatever its status.
StartBooking(b) ==
    /\ bstate[b] = "scheduled"
    /\ bstate' = [bstate EXCEPT ![b] = "active"]
    /\ status' = [status EXCEPT ![bitem[b]] = "in_progress"]
    /\ UNCHANGED <<workType, assignee, ttl, tokens, uncharged, bitem, bres, btokens, active>>

\* pause_booking: a booking on break does not occupy its resource.
PauseBooking(b) ==
    /\ bstate[b] = "active"
    /\ bstate' = [bstate EXCEPT ![b] = "on_break"]
    /\ UNCHANGED <<itemVars, bitem, bres, btokens, active>>

\* A slip: the break never gave the slot back.
ResumeWithoutRoom(b) ==
    /\ bstate[b] = "on_break"
    /\ bres[b] \in active
    /\ bstate' = [bstate EXCEPT ![b] = "active"]
    /\ UNCHANGED <<itemVars, bitem, bres, btokens, active>>

\* resume_booking: only while its resource is there and has room.
ResumeBooking(b) ==
    /\ bstate[b] = "on_break"
    /\ bres[b] \in active
    /\ HasCapacity(bres[b])
    /\ bstate' = [bstate EXCEPT ![b] = "active"]
    /\ UNCHANGED <<itemVars, bitem, bres, btokens, active>>

\* A slip: the item's counter is not checked before the charge.
CompleteUnchecked(b, n) ==
    /\ bstate[b] \in Occupying
    /\ bstate' = [bstate EXCEPT ![b] = "completed"]
    /\ btokens' = [btokens EXCEPT ![b] = n]
    /\ tokens' = [tokens EXCEPT ![bitem[b]] = @ + n]
    /\ UNCHANGED <<workType, status, assignee, ttl, uncharged, bitem, bres, active>>

\* complete_booking: charges the item; an overflow of the item's counter
\* raises before anything is written.
CompleteBooking(b, n) ==
    /\ bstate[b] \in Occupying
    /\ tokens[bitem[b]] <= MaxTokens - n
    /\ bstate' = [bstate EXCEPT ![b] = "completed"]
    /\ btokens' = [btokens EXCEPT ![b] = n]
    /\ tokens' = [tokens EXCEPT ![bitem[b]] = @ + n]
    /\ UNCHANGED <<workType, status, assignee, ttl, uncharged, bitem, bres, active>>

\* A slip: a completed booking can still be cancelled.
CancelCompleted(b) ==
    /\ bstate[b] \notin {"absent", "cancelled"}
    /\ bstate' = [bstate EXCEPT ![b] = "cancelled"]
    /\ UNCHANGED <<itemVars, bitem, bres, btokens, active>>

\* cancel_booking: the item stays assigned.
CancelBooking(b) ==
    /\ bstate[b] \in Live
    /\ bstate' = [bstate EXCEPT ![b] = "cancelled"]
    /\ UNCHANGED <<itemVars, bitem, bres, btokens, active>>

-----------------------------------------------------------------------------
ItemStep ==
    \/ \E i \in Items, t \in WorkTypes, a \in Resources \cup {None}, n \in Opening :
          \E life \in Lives[i], s \in {InitialStatus[t]} \cup Named : Create(i, t, a, life, s, n)
    \/ \E i \in Items, s \in ItemStatus, n \in Deltas : Merge(i, s, n)
    \/ \E i \in Items, s \in ItemStatus : Transition(i, s)
    \/ \E i \in Items : Delete(i) \/ TtlPasses(i) \/ Unassign(i)
    \/ \E r \in Resources : Toggle(r)

AssignStep ==
    \E i \in Items, r \in Resources, b \in Bookings :
        Assign(i, r, b) \/ Claim(i, r, b) \/ ClaimNext(i, r, b)

BookingStep ==
    \/ \E b \in Bookings : StartBooking(b) \/ PauseBooking(b) \/ ResumeBooking(b) \/ CancelBooking(b)
    \/ \E b \in Bookings, n \in Charges : CompleteBooking(b, n)

Next == ItemStep \/ AssignStep \/ BookingStep

Spec == Init /\ [][Next]_vars

-----------------------------------------------------------------------------
(* A live booking belongs to an existing item that is assigned to the      *)
(* booking's resource: no agent holds a booking of work that is someone    *)
(* else's, or nobody's.  No table constraint enforces it: it is kept by    *)
(* assign, unassign, delete and the lifecycle together.                    *)
LiveBookingOwned ==
    \A b \in Bookings :
        bstate[b] \in Live =>
            /\ bitem[b] \in Items /\ status[bitem[b]] # "absent"
            /\ bres[b] \in Resources /\ assignee[bitem[b]] = bres[b]

(* An item has at most one live booking.  Claiming an item that has two    *)
(* raises work_pull_booking_integrity; assigning it never looks.           *)
OneLiveBooking ==
    \A b, c \in Bookings :
        bstate[b] \in Live /\ bstate[c] \in Live /\ bitem[b] = bitem[c] => b = c

(* A resource never holds more scheduled and active bookings than its      *)
(* capacity, across pushes, pulls, starts, breaks and resumes.             *)
CapacityRespected ==
    \A r \in Resources : Cardinality(Occupied(r)) <= Capacity[r]

\* What the bookings of an item were charged, an element a token, so that the
\* sum of the charges is a cardinality.
ChargedUnits(i) ==
    {u \in Bookings \X (1..MaxTokens) : bitem[u[1]] = i /\ u[2] <= btokens[u[1]]}

(* actual_tokens is what the item was created with, what was merged into   *)
(* it and the sum of what its bookings were charged: no charge is lost,    *)
(* doubled, or put on another item, and one that would pass the 63-bit     *)
(* ceiling is refused whole, whichever writer used the room before it.     *)
TokensConserved == \A i \in Items : tokens[i] = uncharged[i] + Cardinality(ChargedUnits(i))

(* An ended booking stays as it ended, with its charge, until its item is  *)
(* deleted: a late start, resume or second completion changes nothing.     *)
EndedBookingIsFinal ==
    [][\A b \in Bookings :
          bstate[b] \in {"completed", "cancelled"} =>
              \/ bstate'[b] = bstate[b] /\ btokens'[b] = btokens[b] /\ bitem'[b] = bitem[b]
              \/ bstate'[b] = "absent" /\ status'[bitem[b]] = "absent"]_vars

(* The comment on _TERMINAL_STATUSES: no transition leaves a terminal      *)
(* status (deleting the item aside).                                       *)
TerminalIsFinal ==
    [][\A i \in Items :
          status[i] \in Terminal => status'[i] \in {status[i], "absent"}]_vars

(* The task type: "Requires assignment for in_progress" (BF-608 enforces   *)
(* it on open -> in_progress).                                             *)
InProgressTaskHasOwner ==
    \A i \in Items :
        workType[i] = "task" /\ status[i] = "in_progress" => assignee[i] # None

=============================================================================
