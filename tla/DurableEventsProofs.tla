------------------------ MODULE DurableEventsProofs ------------------------
(***************************************************************************)
(* Proofs about the durable event router, for any number of records,       *)
(* events and bindings, and any queue and marker bounds.                   *)
(*                                                                         *)
(* The counters are exact because each record is in one place, and the     *)
(* queues, the writers' hands and the episodes agree with the place each   *)
(* record is in (the inductive invariant).  A step then moves one record,  *)
(* or all the losses one marker names, and a lemma on how a move changes   *)
(* the number of records in a set of places gives both counters.           *)
(***************************************************************************)
EXTENDS DurableEvents, Integers, FiniteSetTheorems, TLAPS

(* TypeOK, but for the counter of unresolved records: that it never goes   *)
(* below zero follows from its exactness.                                  *)
RouterTypes ==
    /\ loop \in Nat /\ live \in BOOLEAN /\ closed \in BOOLEAN
    /\ generation \in Nat /\ bind \in 0..MaxBinds
    /\ queue \in [Binds -> Seq(Records)]
    /\ writer \in [Binds -> WriterState]
    /\ held \in [Binds -> Records \cup {NoRecord}]
    /\ carry \in [Binds -> SUBSET Records]
    /\ cancelled \subseteq Binds
    /\ episode \subseteq Records
    /\ unresolved \in [Events -> Int]
    /\ at \in [Records -> Place]
    /\ seen \in [Records -> Seen]
    /\ stats \in Stats
    /\ drain \in {"none", "joining", "stopping"}
    /\ rows \subseteq Records
    /\ markers \in Seq(Marker)
    /\ open \in BOOLEAN

(* A loop that runs, and a drain that waits, have a queue. *)
BoundWhenUsed == (live => bind # 0) /\ (drain = "joining" => bind # 0)

(* What a queue holds is in place "queued", in one queue, once. *)
QueuesHold ==
    \A b \in Binds : \A k \in 1..Len(queue[b]) : at[queue[b][k]] = "queued"
QueuedOnce ==
    \A b, c \in Binds : \A j \in 1..Len(queue[b]) : \A k \in 1..Len(queue[c]) :
        queue[b][j] = queue[c][k] => b = c /\ j = k

(* What a writer is writing is in place "writing", and no other writes it. *)
WritersHold ==
    \A b \in Binds : writer[b] = "writing" => held[b] \in Records /\ at[held[b]] = "writing"
WrittenByOne ==
    \A b, c \in Binds :
        writer[b] = "writing" /\ writer[c] = "writing" /\ held[b] = held[c] => b = c

(* Only a writer at its marker carries losses, and it carries some until   *)
(* the marker is committed.                                                *)
CarriersMark ==
    \A b \in Binds :
        /\ carry[b] # {} => writer[b] \in {"marking", "marked"}
        /\ writer[b] = "marking" => carry[b] # {}

(* A row is that of a record being written or written, and what is written *)
(* has its row.                                                            *)
RowsAreWritten ==
    \A r \in Records :
        /\ r \in rows => at[r] \in {"writing", "written"}
        /\ at[r] = "written" => r \in rows

(* A committed marker answers for what is marked, and for what a writer    *)
(* carries once its marker is committed.                                   *)
MarksAreNoted ==
    /\ \A r \in Records : at[r] = "marked" => EventOf[r] \in NotedEvents
    /\ \A b \in Binds : writer[b] = "marked" => \A r \in carry[b] : EventOf[r] \in NotedEvents

(* Where things are, without the counters; and the inductive invariant. *)
PlacesAgree ==
    /\ QueuesHold /\ QueuedOnce /\ WritersHold /\ WrittenByOne /\ CarriersMark
    /\ LossesKept /\ RowsAreWritten /\ MarksAreNoted

RouterInv ==
    /\ RouterTypes /\ BoundWhenUsed /\ PlacesAgree
    /\ UnresolvedIsExact /\ StatsAddUp
-----------------------------------------------------------------------------
(* Sequences and counts. *)

(* What a queue holds after an Append. *)
LEMMA Appended ==
    ASSUME NEW S, NEW s \in Seq(S), NEW x \in S
    PROVE  /\ Append(s, x) \in Seq(S) /\ Len(s) \in Nat
           /\ Len(Append(s, x)) = Len(s) + 1
           /\ \A k \in 1..Len(s) : Append(s, x)[k] = s[k] /\ s[k] \in S
           /\ Append(s, x)[Len(s) + 1] = x
  OBVIOUS

(* What a queue holds after its head is taken. *)
LEMMA HeadTaken ==
    ASSUME NEW S, NEW s \in Seq(S), s # <<>>
    PROVE  /\ Tail(s) \in Seq(S) /\ Len(s) \in Nat \ {0}
           /\ Len(Tail(s)) = Len(s) - 1
           /\ Head(s) = s[1] /\ s[1] \in S
           /\ \A k \in 1..(Len(s) - 1) : Tail(s)[k] = s[k + 1]
  OBVIOUS

(* The elements of S that f puts in the places P. *)
InPlaces(f, S, P) == {x \in S : f[x] \in P}

(* How a move of r alone changes the number of elements of S in places P. *)
MoveCounts(R, S, P, r) ==
    \A f, g : (\A x \in R : x # r => g[x] = f[x]) =>
        /\ Cardinality(InPlaces(f, S, P)) \in Nat
        /\ Cardinality(InPlaces(g, S, P)) \in Nat
        /\ (r \notin S \/ (f[r] \in P <=> g[r] \in P)) =>
               Cardinality(InPlaces(g, S, P)) = Cardinality(InPlaces(f, S, P))
        /\ (r \in S /\ f[r] \notin P /\ g[r] \in P) =>
               Cardinality(InPlaces(g, S, P)) = Cardinality(InPlaces(f, S, P)) + 1
        /\ (r \in S /\ f[r] \in P /\ g[r] \notin P) =>
               Cardinality(InPlaces(g, S, P)) = Cardinality(InPlaces(f, S, P)) - 1

(* It counts by at most one, for a finite set. *)
LEMMA CountMove ==
    ASSUME NEW R, IsFiniteSet(R), NEW S \in SUBSET R, NEW P, NEW r \in R
    PROVE  MoveCounts(R, S, P, r)
  <1> SUFFICES
        ASSUME NEW f, NEW g, \A x \in R : x # r => g[x] = f[x]
        PROVE  /\ Cardinality(InPlaces(f, S, P)) \in Nat
               /\ Cardinality(InPlaces(g, S, P)) \in Nat
               /\ (r \notin S \/ (f[r] \in P <=> g[r] \in P)) =>
                      Cardinality(InPlaces(g, S, P)) = Cardinality(InPlaces(f, S, P))
               /\ (r \in S /\ f[r] \notin P /\ g[r] \in P) =>
                      Cardinality(InPlaces(g, S, P)) = Cardinality(InPlaces(f, S, P)) + 1
               /\ (r \in S /\ f[r] \in P /\ g[r] \notin P) =>
                      Cardinality(InPlaces(g, S, P)) = Cardinality(InPlaces(f, S, P)) - 1
    BY Zenon DEF MoveCounts
  <1> DEFINE B == InPlaces(f, S, P)
             A == InPlaces(g, S, P)
  <1>1. IsFiniteSet(B) /\ IsFiniteSet(A)
    <2>1. B \in SUBSET R /\ A \in SUBSET R
      BY DEF InPlaces
    <2>2. QED
      BY <2>1, FS_Subset
  <1>2. Cardinality(B) \in Nat /\ Cardinality(A) \in Nat
    BY <1>1, FS_CardinalityType
  <1>3. r \notin S \/ (f[r] \in P <=> g[r] \in P) => A = B
    BY DEF InPlaces
  <1>4. r \in S /\ f[r] \notin P /\ g[r] \in P => A = B \cup {r} /\ r \notin B
    BY DEF InPlaces
  <1>5. r \in S /\ f[r] \in P /\ g[r] \notin P => A = B \ {r} /\ r \in B
    BY DEF InPlaces
  <1>6. Cardinality(B \cup {r}) = IF r \in B THEN Cardinality(B) ELSE Cardinality(B) + 1
    BY <1>1, FS_AddElement
  <1>7. Cardinality(B \ {r}) = IF r \in B THEN Cardinality(B) - 1 ELSE Cardinality(B)
    BY <1>1, FS_RemoveElement
  <1> HIDE DEF A, B
  <1>8. /\ Cardinality(B) \in Nat /\ Cardinality(A) \in Nat
        /\ (r \notin S \/ (f[r] \in P <=> g[r] \in P)) => Cardinality(A) = Cardinality(B)
        /\ r \in S /\ f[r] \notin P /\ g[r] \in P => Cardinality(A) = Cardinality(B) + 1
        /\ r \in S /\ f[r] \in P /\ g[r] \notin P => Cardinality(A) = Cardinality(B) - 1
    BY <1>2, <1>3, <1>4, <1>5, <1>6, <1>7
  <1>9. QED
    BY <1>8 DEF A, B
-----------------------------------------------------------------------------
(* The shapes of the steps. *)

(* The places of a record the loop has not admitted. *)
Early == {"new", "begun", "refused", "routed", "handed"}

Turns(r) ==
    /\ \E q \in Early : at' = [at EXCEPT ![r] = q]
    /\ UNCHANGED <<writerVars, episode>>
Loses(r) ==
    /\ at' = [at EXCEPT ![r] = "lost"]
    /\ episode' = episode \cup {r}
    /\ UNCHANGED writerVars
Enters(r) ==
    /\ at' = [at EXCEPT ![r] = "queued"]
    /\ bind \in Binds
    /\ queue' = [queue EXCEPT ![bind] = Append(@, r)]
    /\ writer' = [writer EXCEPT ![bind] = IF @ \in {"none", "dead"} THEN "idle" ELSE @]
    /\ UNCHANGED <<held, carry, episode>>

OfferOf(r) ==
    \/ OfferBegin(r) \/ OfferError(r) \/ OfferRoute(r) \/ OfferRefused(r)
    \/ HandOff(r) \/ RunHandOff(r) \/ OfferOnLoop(r)

(* Each step of an offer moves its record, one the loop has not admitted,  *)
(* to another such place, into the episode, or into the queue in use.      *)
LEMMA OfferShape ==
    ASSUME RouterTypes, BoundWhenUsed, NEW r \in Records, OfferOf(r)
    PROVE  /\ at[r] \in Early /\ UNCHANGED <<rows, markers>>
           /\ Turns(r) \/ Loses(r) \/ Enters(r)
  <1> USE DEF Early, logVars, writerVars
  <1>0. live => bind \in Binds
    BY RouterAssumption DEF RouterTypes, BoundWhenUsed, Binds
  <1>1. CASE OfferBegin(r)
    BY <1>1 DEF OfferBegin, Turns
  <1>2. CASE OfferError(r)
    BY <1>2 DEF OfferError, LoseUncounted, Loses
  <1>3. CASE OfferRoute(r)
    BY <1>3 DEF OfferRoute, Turns
  <1>4. CASE OfferRefused(r)
    BY <1>4 DEF OfferRefused, LoseUncounted, Loses
  <1>5. CASE HandOff(r)
    BY <1>5 DEF HandOff, Lose, Turns, Loses
  <1>6. CASE RunHandOff(r)
    BY <1>0, <1>6 DEF RunHandOff, Accept, Lose, Loses, Enters
  <1>7. CASE OfferOnLoop(r)
    BY <1>0, <1>7 DEF OfferOnLoop, Loses, Enters
  <1>8. QED
    BY <1>1, <1>2, <1>3, <1>4, <1>5, <1>6, <1>7 DEF OfferOf

(* Binding, draining, and the environment move no record. *)
LEMMA LifeShape ==
    ASSUME LifeStep \/ UNCHANGED vars
    PROVE  UNCHANGED <<writerVars, lossVars, seen, rows, markers>>
  BY DEF LifeStep, vars, writerVars, lossVars, logVars, BindLoop, DrainStarts,
         DrainCancelsWriter, DrainReturns, DrainCancelled, LoopCancelsTasks, LoopEnds,
         LogCloses, LogOpens

(* A step is a step of an offer, of a writer, or of neither. *)
LEMMA StepKinds ==
    ASSUME [Next]_vars
    PROVE  \/ \E r \in Records : OfferOf(r)
           \/ \E b \in Binds : Take(b)
           \/ \E b \in Binds : RowCommits(b)
           \/ \E b \in Binds : RowWritten(b)
           \/ \E b \in Binds : RowLost(b)
           \/ \E b \in Binds : MarkerCommits(b)
           \/ \E b \in Binds : MarkerWritten(b)
           \/ \E b \in Binds : MarkerFails(b)
           \/ \E b \in Binds : Unwind(b)
           \/ LifeStep \/ UNCHANGED vars
  BY DEF Next, OfferStep, OfferOf, WriterStep, WriterRuns

-----------------------------------------------------------------------------
(* Types. *)

(* What is carried of one event is a finite number. *)
LEMMA CarriedIsFinite ==
    ASSUME RouterTypes, NEW b \in Binds, NEW e
    PROVE  Cardinality({r \in carry[b] : EventOf[r] = e}) \in Nat
  <1>1. {r \in carry[b] : EventOf[r] = e} \in SUBSET Records
    BY DEF RouterTypes
  <1>2. IsFiniteSet({r \in carry[b] : EventOf[r] = e})
    BY <1>1, FS_Subset, RouterAssumption
  <1>3. QED
    BY <1>2, FS_CardinalityType

(* A writer's step, like an offer's, keeps the types. *)
LEMMA TypesStep ==
    ASSUME RouterTypes, BoundWhenUsed, WritersHold, [Next]_vars
    PROVE  RouterTypes' /\ BoundWhenUsed'
  <1> USE DEF BoundWhenUsed
  <1> USE RouterAssumption DEF routerVars, writerVars, lossVars, logVars
  <1>0. /\ {"idle", "writing", "marking", "marked", "dead"} \subseteq WriterState
        /\ Early \cup {"lost", "queued", "writing", "written", "marked"} \subseteq Place
    BY DEF WriterState, Place, Early
  <1>1. ASSUME NEW r \in Records, OfferOf(r)
        PROVE  RouterTypes' /\ BoundWhenUsed'
    <2>1. /\ UNCHANGED <<routerVars, rows, markers, open>>
          /\ UNCHANGED seen \/ seen' = [seen EXCEPT ![r] = [loop |-> loop, generation |-> generation]]
          /\ UNCHANGED unresolved \/ unresolved' = [unresolved EXCEPT ![EventOf[r]] = @ + 1]
      BY <1>1 DEF OfferOf, OfferBegin, OfferError, OfferRoute, OfferRefused, HandOff,
                  RunHandOff, Accept, OfferOnLoop, Lose, LoseUncounted
    <2>2. stats' \in Stats
      <3>1. /\ stats.offered + 1 \in Nat /\ stats.dropped + 1 \in Nat
            /\ stats.accepted + 1 \in Nat /\ stats \in Stats
        BY DEF RouterTypes, Stats
      <3>2. QED
        BY <1>1, <3>1 DEF OfferOf, OfferBegin, OfferError, OfferRoute, OfferRefused, HandOff,
                  RunHandOff, Accept, OfferOnLoop, Lose, LoseUncounted, Stats
    <2>3. seen' \in [Records -> Seen] /\ unresolved' \in [Events -> Int]
      <3>1. [loop |-> loop, generation |-> generation] \in Seen /\ EventOf[r] \in Events
        BY DEF RouterTypes, Seen
      <3>2. unresolved[EventOf[r]] + 1 \in Int
        BY <3>1 DEF RouterTypes
      <3>3. seen' \in [Records -> Seen]
        BY <2>1, <3>1 DEF RouterTypes
      <3>4. unresolved' \in [Events -> Int]
        BY <2>1, <3>1, <3>2 DEF RouterTypes
      <3>5. QED
        BY <3>3, <3>4
    <2>4. CASE Turns(r)
      BY <1>0, <2>1, <2>2, <2>3, <2>4 DEF RouterTypes, Turns
    <2>5. CASE Loses(r)
      BY <1>0, <2>1, <2>2, <2>3, <2>5 DEF RouterTypes, Loses
    <2>6. CASE Enters(r)
      <3>1. Append(queue[bind], r) \in Seq(Records)
        BY <2>6, Appended DEF RouterTypes, Enters
      <3>2. queue' \in [Binds -> Seq(Records)] /\ writer' \in [Binds -> WriterState]
        BY <1>0, <2>6, <3>1 DEF RouterTypes, Enters
      <3>3. QED
        BY <1>0, <2>1, <2>2, <2>3, <2>6, <3>2 DEF RouterTypes, Enters
    <2>7. QED
      BY <1>1, <2>4, <2>5, <2>6, OfferShape
  <1>2. ASSUME NEW b \in Binds, Take(b)
        PROVE  RouterTypes' /\ BoundWhenUsed'
    <2>1. /\ Tail(queue[b]) \in Seq(Records)
          /\ Head(queue[b]) \in Records
      BY <1>2, HeadTaken DEF RouterTypes, Take
    <2>2. QED
      BY <1>0, <1>2, <2>1 DEF RouterTypes, Take
  <1>3. ASSUME NEW b \in Binds, RowCommits(b)
        PROVE  RouterTypes' /\ BoundWhenUsed'
    BY <1>3 DEF RouterTypes, RowCommits, WritersHold
  <1>4. ASSUME NEW b \in Binds, RowWritten(b)
        PROVE  RouterTypes' /\ BoundWhenUsed'
    <2>1. stats' \in Stats /\ unresolved' \in [Events -> Int]
      <3>1. stats.written + 1 \in Nat /\ stats \in Stats
        BY DEF RouterTypes, Stats
      <3>2. EventOf[held[b]] \in Events
        BY <1>4 DEF RowWritten, RouterTypes
      <3>3. unresolved[EventOf[held[b]]] - 1 \in Int
        BY <3>2 DEF RouterTypes
      <3>4. unresolved' \in [Events -> Int]
        BY <1>4, <3>2, <3>3 DEF RowWritten, RouterTypes
      <3>5. stats' \in Stats
        BY <1>4, <3>1 DEF RowWritten, Stats
      <3>6. QED
        BY <3>4, <3>5
    <2>2. QED
      BY <1>0, <1>4, <2>1 DEF RouterTypes, RowWritten
  <1>5. ASSUME NEW b \in Binds, RowLost(b)
        PROVE  RouterTypes' /\ BoundWhenUsed'
    <2>1. stats' \in Stats
      <3>1. /\ stats.failed + 1 \in Nat /\ stats.notRecorded + 1 \in Nat
            /\ stats \in Stats
        BY DEF RouterTypes, Stats
      <3>2. QED
        BY <1>5, <3>1 DEF RowLost, Lose, Stats
    <2>2. held[b] \in Records
      BY <1>5 DEF RowLost, WritersHold
    <2>3. /\ UNCHANGED <<routerVars, queue, carry, seen, logVars, unresolved>>
          /\ episode' = episode \cup {held[b]}
          /\ at' = [at EXCEPT ![held[b]] = "lost"]
          /\ held' = [held EXCEPT ![b] = NoRecord]
          /\ writer' = [writer EXCEPT ![b] = "idle"]
      BY <1>5 DEF RowLost, Lose
    <2>4. QED
      BY <1>0, <2>1, <2>2, <2>3 DEF RouterTypes
  <1>6. ASSUME NEW b \in Binds, MarkerCommits(b)
        PROVE  RouterTypes' /\ BoundWhenUsed'
    <2>1. PICK m \in Marker : markers' = Append(markers, m)
      BY <1>6 DEF MarkerCommits
    <2>2. markers' \in Seq(Marker)
      BY <2>1, Appended DEF RouterTypes
    <2>3. QED
      BY <1>0, <1>6, <2>2 DEF RouterTypes, MarkerCommits
  <1>7. ASSUME NEW b \in Binds, MarkerWritten(b)
        PROVE  RouterTypes' /\ BoundWhenUsed'
    <2>1. stats' \in Stats
      <3>1. stats.markersWritten + 1 \in Nat /\ stats \in Stats
        BY DEF RouterTypes, Stats
      <3>2. QED
        BY <1>7, <3>1 DEF MarkerWritten, Stats
    <2>2. unresolved' \in [Events -> Int]
      <3>1. ASSUME NEW e \in Events
            PROVE  unresolved[e] - Cardinality({r \in carry[b] : EventOf[r] = e}) \in Int
        <4>1. unresolved[e] \in Int
          BY DEF RouterTypes
        <4>2. QED
          BY <4>1, CarriedIsFinite
      <3>2. QED
        BY <1>7, <3>1 DEF MarkerWritten
    <2>3. QED
      BY <1>0, <1>7, <2>1, <2>2 DEF RouterTypes, MarkerWritten
  <1>8. ASSUME NEW b \in Binds, MarkerFails(b)
        PROVE  RouterTypes' /\ BoundWhenUsed'
    BY <1>0, <1>8 DEF RouterTypes, MarkerFails
  <1>9. ASSUME NEW b \in Binds, Unwind(b)
        PROVE  RouterTypes' /\ BoundWhenUsed'
    BY <1>0, <1>9 DEF RouterTypes, Unwind
  <1>10. CASE LifeStep
    <2>1. UNCHANGED <<writerVars, lossVars, seen, rows, markers>>
      BY <1>10, LifeShape
    <2>2. /\ loop' \in Nat /\ live' \in BOOLEAN /\ closed' \in BOOLEAN
          /\ generation' \in Nat /\ bind' \in 0..MaxBinds /\ cancelled' \subseteq Binds
          /\ drain' \in {"none", "joining", "stopping"} /\ open' \in BOOLEAN
          /\ BoundWhenUsed'
      <3>0. /\ loop \in Nat /\ live \in BOOLEAN /\ closed \in BOOLEAN
            /\ generation \in Nat /\ bind \in 0..MaxBinds /\ MaxBinds \in Nat
            /\ cancelled \subseteq Binds /\ open \in BOOLEAN
            /\ drain \in {"none", "joining", "stopping"} /\ BoundWhenUsed
        BY DEF RouterTypes
      <3>1. CASE BindLoop
        <4>1. /\ loop' \in Nat /\ live' = TRUE /\ closed' = FALSE
              /\ generation' \in Nat /\ UNCHANGED <<cancelled, drain, open>>
          BY ONLY <3>0, <3>1 DEF BindLoop, logVars
        <4>2. bind' \in 0..MaxBinds /\ bind' # 0
          BY ONLY <3>0, <3>1 DEF BindLoop
        <4>3. QED
          BY ONLY <3>0, <4>1, <4>2 DEF BoundWhenUsed
      <3>2. CASE DrainStarts
        BY ONLY <3>0, <3>2 DEF DrainStarts, BoundWhenUsed, logVars
      <3>3. CASE DrainCancelsWriter
        <4>1. CASE drain' = "none" /\ UNCHANGED cancelled
          BY ONLY <3>0, <3>3, <4>1 DEF DrainCancelsWriter, BoundWhenUsed, logVars
        <4>2. CASE drain' = "stopping" /\ cancelled' = cancelled \cup {bind}
          BY ONLY <3>0, <3>3, <4>2 DEF DrainCancelsWriter, BoundWhenUsed, logVars, Binds
        <4>3. QED
          BY <3>3, <4>1, <4>2 DEF DrainCancelsWriter
      <3>4. CASE DrainReturns \/ DrainCancelled
        BY ONLY <3>0, <3>4 DEF DrainReturns, DrainCancelled, BoundWhenUsed, logVars
      <3>5. CASE LoopCancelsTasks \/ LoopEnds \/ LogCloses \/ LogOpens
        <4>1. /\ UNCHANGED <<loop, closed, generation, bind, drain>>
              /\ live' = live \/ live' = FALSE
              /\ open' = open \/ open' = FALSE \/ open' = TRUE
              /\ cancelled' = cancelled \/ cancelled' \subseteq Binds
          BY ONLY <3>5 DEF LoopCancelsTasks, LoopEnds, LogCloses, LogOpens,
                  routerVars, logVars
        <4>2. live' \in BOOLEAN /\ open' \in BOOLEAN /\ cancelled' \subseteq Binds
          BY ONLY <3>0, <4>1, Zenon
        <4>3. live' => live
          BY ONLY <4>1, Zenon
        <4>4. QED
          BY ONLY <3>0, <4>1, <4>2, <4>3 DEF BoundWhenUsed
      <3>6. QED
        BY <1>10, <3>1, <3>2, <3>3, <3>4, <3>5 DEF LifeStep
    <2>3. QED
      BY <2>1, <2>2 DEF RouterTypes
  <1>11. CASE UNCHANGED vars
    BY <1>11 DEF RouterTypes, vars
  <1>12. QED
    BY <1>1, <1>2, <1>3, <1>4, <1>5, <1>6, <1>7, <1>8, <1>9, <1>10, <1>11, StepKinds

-----------------------------------------------------------------------------
(* Places. *)

(* Record r, alone, moves to place q. *)
MovesOne(r, q) == at' = [at EXCEPT ![r] = q]

(* What a writer's step does to places and queues. *)
LEMMA WriterShape ==
    ASSUME RouterTypes, PlacesAgree, NEW b \in Binds
    PROVE  /\ RowWritten(b) =>
                /\ held[b] \in Records /\ at[held[b]] = "writing" /\ carry[b] = {}
                /\ held[b] \in rows /\ MovesOne(held[b], "written")
                /\ UNCHANGED <<queue, rows, markers>>
           /\ RowLost(b) =>
                /\ held[b] \in Records /\ at[held[b]] = "writing" /\ carry[b] = {}
                /\ held[b] \notin rows /\ MovesOne(held[b], "lost")
                /\ episode' = episode \cup {held[b]}
                /\ held' = [held EXCEPT ![b] = NoRecord]
                /\ writer' = [writer EXCEPT ![b] = "idle"]
                /\ UNCHANGED <<queue, carry, rows, markers>>
           /\ Take(b) =>
                /\ Head(queue[b]) \in Records /\ at[Head(queue[b])] = "queued"
                /\ Head(queue[b]) = queue[b][1] /\ Len(queue[b]) \in Nat \ {0}
                /\ Tail(queue[b]) \in Seq(Records)
                /\ Len(Tail(queue[b])) = Len(queue[b]) - 1
                /\ \A k \in 1..(Len(queue[b]) - 1) : Tail(queue[b])[k] = queue[b][k + 1]
                /\ MovesOne(Head(queue[b]), "writing")
                /\ UNCHANGED <<carry, episode, rows, markers>>
           /\ MarkerWritten(b) =>
                /\ \A r \in carry[b] : r \in Records /\ at[r] = "lost"
                /\ at' = [r \in Records |-> IF r \in carry[b] THEN "marked" ELSE at[r]]
                /\ UNCHANGED <<queue, held, episode, rows, markers>>
  <1> USE DEF PlacesAgree, MovesOne, writerVars, routerVars, logVars
  <1>1. ASSUME RowWritten(b)
        PROVE  /\ held[b] \in Records /\ at[held[b]] = "writing" /\ carry[b] = {}
               /\ held[b] \in rows /\ MovesOne(held[b], "written")
               /\ UNCHANGED <<queue, rows, markers>>
    BY <1>1 DEF RowWritten, WritersHold, CarriersMark
  <1>2. ASSUME RowLost(b)
        PROVE  /\ held[b] \in Records /\ at[held[b]] = "writing" /\ carry[b] = {}
               /\ held[b] \notin rows /\ MovesOne(held[b], "lost")
               /\ episode' = episode \cup {held[b]}
               /\ held' = [held EXCEPT ![b] = NoRecord]
               /\ writer' = [writer EXCEPT ![b] = "idle"]
               /\ UNCHANGED <<queue, carry, rows, markers>>
    BY <1>2 DEF RowLost, Lose, WritersHold, CarriersMark
  <1>3. ASSUME Take(b)
        PROVE  /\ Head(queue[b]) \in Records /\ at[Head(queue[b])] = "queued"
               /\ Head(queue[b]) = queue[b][1] /\ Len(queue[b]) \in Nat \ {0}
               /\ Tail(queue[b]) \in Seq(Records)
               /\ Len(Tail(queue[b])) = Len(queue[b]) - 1
               /\ \A k \in 1..(Len(queue[b]) - 1) : Tail(queue[b])[k] = queue[b][k + 1]
               /\ MovesOne(Head(queue[b]), "writing")
               /\ UNCHANGED <<carry, episode, rows, markers>>
    <2>1. queue[b] \in Seq(Records) /\ queue[b] # <<>>
      BY <1>3 DEF Take, RouterTypes
    <2>2. /\ Tail(queue[b]) \in Seq(Records) /\ Len(queue[b]) \in Nat \ {0}
          /\ Len(Tail(queue[b])) = Len(queue[b]) - 1
          /\ Head(queue[b]) = queue[b][1] /\ queue[b][1] \in Records
          /\ \A k \in 1..(Len(queue[b]) - 1) : Tail(queue[b])[k] = queue[b][k + 1]
      BY <2>1, HeadTaken
    <2>3. at[queue[b][1]] = "queued"
      BY <2>2 DEF QueuesHold
    <2>4. QED
      BY <1>3, <2>2, <2>3 DEF Take
  <1>4. ASSUME MarkerWritten(b)
        PROVE  /\ \A r \in carry[b] : r \in Records /\ at[r] = "lost"
               /\ at' = [r \in Records |-> IF r \in carry[b] THEN "marked" ELSE at[r]]
               /\ UNCHANGED <<queue, held, episode, rows, markers>>
    <2>1. carry[b] \subseteq {r \in Records : at[r] = "lost"}
      BY DEF LossesKept
    <2>2. QED
      BY <1>4, <2>1 DEF MarkerWritten
  <1>5. QED
    BY <1>1, <1>2, <1>3, <1>4

(* A step that moves no queue and takes nothing queued keeps the queues. *)
LEMMA QueuesStay ==
    ASSUME RouterTypes, QueuesHold, QueuedOnce, queue' = queue,
           \A r \in Records : at[r] = "queued" => at'[r] = "queued"
    PROVE  QueuesHold' /\ QueuedOnce'
  <1>1. \A b \in Binds : \A k \in 1..Len(queue[b]) : queue[b][k] \in Records
    BY DEF RouterTypes
  <1>2. QED
    BY <1>1 DEF QueuesHold, QueuedOnce

(* The queues keep what they hold in place "queued", once. *)
LEMMA QueuesStep ==
    ASSUME RouterTypes, BoundWhenUsed, PlacesAgree, [Next]_vars
    PROVE  QueuesHold' /\ QueuedOnce'
  <1> USE DEF PlacesAgree, Early
  <1>1. ASSUME NEW r \in Records, OfferOf(r)
        PROVE  QueuesHold' /\ QueuedOnce'
    <2>1. at[r] \in Early /\ (Turns(r) \/ Loses(r) \/ Enters(r))
      BY <1>1, OfferShape
    <2>2. CASE Turns(r) \/ Loses(r)
      <3>1. queue' = queue /\ \A x \in Records : x # r => at'[x] = at[x]
        BY <2>2 DEF Turns, Loses, RouterTypes, writerVars
      <3>2. QED
        BY <2>1, <3>1, QueuesStay
    <2>3. CASE Enters(r)
      <3> DEFINE n == Len(queue[bind])
      <3>1. /\ n \in Nat /\ Len(queue'[bind]) = n + 1
            /\ \A k \in 1..n : queue'[bind][k] = queue[bind][k]
            /\ queue'[bind][n + 1] = r
            /\ \A b \in Binds : b # bind => queue'[b] = queue[b]
        BY <2>3, Appended DEF Enters, RouterTypes
      <3>2. bind \in Binds /\ at'[r] = "queued" /\ \A x \in Records : x # r => at'[x] = at[x]
        BY <2>3 DEF Enters, RouterTypes
      <3>3. \A b \in Binds : \A k \in 1..Len(queue[b]) :
                queue[b][k] \in Records /\ queue[b][k] # r
        BY <2>1 DEF QueuesHold, RouterTypes
      <3> HIDE DEF n
      <3>4. \A b \in Binds : \A k \in 1..Len(queue'[b]) :
                \/ queue'[b][k] = r /\ b = bind /\ k = n + 1
                \/ k \in 1..Len(queue[b]) /\ queue'[b][k] = queue[b][k]
        <4> TAKE b \in Binds
        <4>1. CASE b = bind
          BY <3>1, <4>1 DEF n
        <4>2. CASE b # bind
          BY <3>1, <4>2
        <4>3. QED
          BY <4>1, <4>2
      <3>5. QueuesHold'
        BY <3>2, <3>3, <3>4 DEF QueuesHold
      <3>6. QueuedOnce'
        BY <3>3, <3>4 DEF QueuedOnce
      <3>7. QED
        BY <3>5, <3>6
    <2>4. QED
      BY <2>1, <2>2, <2>3
  <1>2. ASSUME NEW b \in Binds, Take(b)
        PROVE  QueuesHold' /\ QueuedOnce'
    <2> DEFINE h == Head(queue[b])
    <2>1. /\ h = queue[b][1] /\ Len(queue[b]) \in Nat \ {0}
          /\ Len(queue'[b]) = Len(queue[b]) - 1
          /\ \A k \in 1..(Len(queue[b]) - 1) : queue'[b][k] = queue[b][k + 1]
          /\ \A c \in Binds : c # b => queue'[c] = queue[c]
      BY <1>2, WriterShape DEF Take, RouterTypes
    <2>2. \A x \in Records : x # h => at'[x] = at[x]
      BY <1>2 DEF Take, RouterTypes
    <2> HIDE DEF h
    <2>3. \A c \in Binds : \A k \in 1..Len(queue'[c]) :
              \E j \in 1..Len(queue[c]) :
                  /\ j = IF c = b THEN k + 1 ELSE k
                  /\ queue'[c][k] = queue[c][j]
      <3> TAKE c \in Binds
      <3> TAKE k \in 1..Len(queue'[c])
      <3>1. CASE c = b
        <4>1. k + 1 \in 1..Len(queue[c]) /\ queue'[c][k] = queue[c][k + 1]
          BY <2>1, <3>1
        <4>2. QED
          BY <3>1, <4>1
      <3>2. CASE c # b
        BY <2>1, <3>2
      <3>3. QED
        BY <3>1, <3>2
    <2>4. \A c \in Binds : \A j \in 1..Len(queue[c]) :
              queue[c][j] \in Records /\ at[queue[c][j]] = "queued"
      BY DEF QueuesHold, RouterTypes
    <2>5. ASSUME NEW c \in Binds, NEW k \in 1..Len(queue'[c])
          PROVE  queue'[c][k] # h
      <3>1. PICK j \in 1..Len(queue[c]) :
                /\ j = IF c = b THEN k + 1 ELSE k
                /\ queue'[c][k] = queue[c][j]
        BY <2>3
      <3>2. 1 \in 1..Len(queue[b]) /\ queue[b][1] = h
        BY <2>1
      <3>3. queue[c][j] = h => c = b /\ j = 1
        BY <3>2 DEF QueuedOnce
      <3>4. c = b => j # 1
        BY <3>1
      <3>5. QED
        BY <3>1, <3>3, <3>4
    <2>6. QueuesHold'
      BY <2>2, <2>3, <2>4, <2>5 DEF QueuesHold
    <2>7. QueuedOnce'
      <3>1. SUFFICES ASSUME NEW c \in Binds, NEW d \in Binds,
                            NEW k \in 1..Len(queue'[c]), NEW l \in 1..Len(queue'[d]),
                            queue'[c][k] = queue'[d][l]
                     PROVE  c = d /\ k = l
        BY DEF QueuedOnce
      <3>2. PICK j \in 1..Len(queue[c]) :
                j = (IF c = b THEN k + 1 ELSE k) /\ queue'[c][k] = queue[c][j]
        BY <2>3
      <3>3. PICK i \in 1..Len(queue[d]) :
                i = (IF d = b THEN l + 1 ELSE l) /\ queue'[d][l] = queue[d][i]
        BY <2>3
      <3>4. queue[c][j] = queue[d][i]
        BY <3>1, <3>2, <3>3
      <3>5. QueuedOnce
        OBVIOUS
      <3>6. c = d /\ j = i
        BY ONLY <3>4, <3>5, c \in Binds, d \in Binds, j \in 1..Len(queue[c]),
                i \in 1..Len(queue[d]) DEF QueuedOnce
      <3>7. k \in Nat /\ l \in Nat
        OBVIOUS
      <3>8. QED
        BY ONLY <3>2, <3>3, <3>6, <3>7
    <2>8. QED
      BY <2>6, <2>7
  <1>3. ASSUME NEW b \in Binds, RowWritten(b) \/ RowLost(b)
        PROVE  QueuesHold' /\ QueuedOnce'
    <2>1. /\ at[held[b]] = "writing" /\ queue' = queue
          /\ \A x \in Records : x # held[b] => at'[x] = at[x]
      BY <1>3, WriterShape DEF MovesOne, RouterTypes
    <2>2. QED
      BY <2>1, QueuesStay
  <1>4. ASSUME NEW b \in Binds, MarkerWritten(b)
        PROVE  QueuesHold' /\ QueuedOnce'
    <2>1. queue' = queue /\ \A x \in Records : at[x] = "queued" => at'[x] = at[x]
      BY <1>4, WriterShape
    <2>2. QED
      BY <2>1, QueuesStay
  <1>5. ASSUME NEW b \in Binds,
               RowCommits(b) \/ MarkerCommits(b) \/ MarkerFails(b) \/ Unwind(b)
        PROVE  QueuesHold' /\ QueuedOnce'
    BY <1>5, QueuesStay DEF RowCommits, MarkerCommits, MarkerFails, Unwind, writerVars, lossVars
  <1>6. CASE LifeStep \/ UNCHANGED vars
    BY <1>6, LifeShape, QueuesStay DEF writerVars, lossVars
  <1>7. QED
    BY <1>1, <1>2, <1>3, <1>4, <1>5, <1>6, StepKinds


(* A step that starts no write and ends none of the writes that remain.    *)
LEMMA WritesStay ==
    ASSUME WritersHold, WrittenByOne,
           \A c \in Binds :
               writer'[c] = "writing" =>
                   writer[c] = "writing" /\ held'[c] = held[c] /\ at'[held[c]] = "writing"
    PROVE  WritersHold' /\ WrittenByOne'
  BY DEF WritersHold, WrittenByOne

(* A writer's record stays in its hands, and in no other's. *)
LEMMA WritersStep ==
    ASSUME RouterTypes, BoundWhenUsed, PlacesAgree, [Next]_vars
    PROVE  WritersHold' /\ WrittenByOne'
  <1> USE DEF PlacesAgree
  <1>0. \A c \in Binds : writer[c] = "writing" => held[c] \in Records /\ at[held[c]] = "writing"
    BY DEF WritersHold
  <1>1. ASSUME NEW r \in Records, OfferOf(r)
        PROVE  WritersHold' /\ WrittenByOne'
    <2>1. at[r] \in Early /\ (Turns(r) \/ Loses(r) \/ Enters(r))
      BY <1>1, OfferShape
    <2>2. \A x \in Records : x # r => at'[x] = at[x]
      BY <2>1 DEF Turns, Loses, Enters, RouterTypes
    <2>3. \A c \in Binds : writer'[c] = "writing" => writer[c] = "writing" /\ held'[c] = held[c]
      BY <2>1 DEF Turns, Loses, Enters, RouterTypes, writerVars
    <2>4. at[r] # "writing"
      BY <2>1 DEF Early
    <2>5. QED
      BY <1>0, <2>2, <2>3, <2>4, WritesStay
  <1>2. ASSUME NEW b \in Binds, Take(b)
        PROVE  WritersHold' /\ WrittenByOne'
    <2> DEFINE h == Head(queue[b])
    <2>1. h \in Records /\ at[h] = "queued" /\ MovesOne(h, "writing")
      BY <1>2, WriterShape
    <2>2. /\ writer' = [writer EXCEPT ![b] = "writing"]
          /\ held' = [held EXCEPT ![b] = h]
      BY <1>2 DEF Take
    <2> HIDE DEF h
    <2>3. /\ held'[b] = h /\ at'[h] = "writing"
          /\ \A x \in Records : x # h => at'[x] = at[x]
          /\ \A c \in Binds : c # b => writer'[c] = writer[c] /\ held'[c] = held[c]
      BY <2>1, <2>2 DEF RouterTypes, MovesOne
    <2>4. \A c \in Binds : writer[c] = "writing" => held[c] # h
      BY <1>0, <2>1
    <2>5. WritersHold'
      BY <1>0, <2>1, <2>3, <2>4 DEF WritersHold
    <2>6. WrittenByOne'
      BY <1>0, <2>3, <2>4 DEF WrittenByOne
    <2>7. QED
      BY <2>5, <2>6
  <1>3. ASSUME NEW b \in Binds, RowWritten(b) \/ RowLost(b)
        PROVE  WritersHold' /\ WrittenByOne'
    <2>1. \A x \in Records : x # held[b] => at'[x] = at[x]
      BY <1>3, WriterShape DEF MovesOne, RouterTypes
    <2>2. /\ writer[b] = "writing" /\ writer'[b] # "writing"
          /\ \A c \in Binds : c # b => writer'[c] = writer[c] /\ held'[c] = held[c]
      BY <1>3 DEF RowWritten, RowLost, RouterTypes
    <2>3. \A c \in Binds : writer[c] = "writing" /\ c # b => held[c] # held[b]
      BY <2>2 DEF WrittenByOne
    <2>4. QED
      BY <1>0, <2>1, <2>2, <2>3, WritesStay
  <1>4. ASSUME NEW b \in Binds, MarkerWritten(b)
        PROVE  WritersHold' /\ WrittenByOne'
    <2>1. \A x \in Records : at[x] = "writing" => at'[x] = at[x]
      BY <1>4, WriterShape
    <2>2. held' = held /\ writer' = [writer EXCEPT ![b] = "idle"]
      BY <1>4 DEF MarkerWritten
    <2>3. QED
      BY <1>0, <2>1, <2>2, WritesStay DEF RouterTypes
  <1>5. ASSUME NEW b \in Binds,
               RowCommits(b) \/ MarkerCommits(b) \/ MarkerFails(b) \/ Unwind(b)
        PROVE  WritersHold' /\ WrittenByOne'
    <2>1. /\ at' = at /\ held' = held
          /\ \A c \in Binds : writer'[c] = "writing" => writer[c] = "writing"
      BY <1>5 DEF RowCommits, MarkerCommits, MarkerFails, Unwind, writerVars, lossVars,
                  RouterTypes
    <2>2. QED
      BY <1>0, <2>1, WritesStay
  <1>6. CASE LifeStep \/ UNCHANGED vars
    BY <1>0, <1>6, LifeShape, WritesStay DEF writerVars, lossVars
  <1>7. QED
    BY <1>1, <1>2, <1>3, <1>4, <1>5, <1>6, StepKinds

(* Losses are carried only by a writer at its marker. *)
LEMMA CarriersStep ==
    ASSUME RouterTypes, BoundWhenUsed, PlacesAgree, [Next]_vars
    PROVE  CarriersMark'
  <1> USE DEF PlacesAgree, CarriersMark
  <1>1. ASSUME NEW r \in Records, OfferOf(r)
        PROVE  CarriersMark'
    <2>1. Turns(r) \/ Loses(r) \/ Enters(r)
      BY <1>1, OfferShape
    <2>2. /\ carry' = carry
          /\ \A c \in Binds : writer[c] \in {"marking", "marked"} => writer'[c] = writer[c]
          /\ \A c \in Binds : writer'[c] = "marking" => writer[c] = "marking"
      BY <2>1 DEF Turns, Loses, Enters, RouterTypes, writerVars
    <2>3. QED
      BY <2>2
  <1>2. ASSUME NEW b \in Binds, Take(b) \/ RowCommits(b) \/ RowWritten(b) \/ RowLost(b)
        PROVE  CarriersMark'
    <2>1. \A c \in Binds : c # b => writer'[c] = writer[c] /\ carry'[c] = carry[c]
      BY <1>2 DEF Take, RowCommits, RowWritten, RowLost, RouterTypes, writerVars
    <2>2. \/ carry'[b] = {} /\ writer'[b] # "marking"
          \/ carry'[b] # {} /\ writer'[b] = "marking"
      BY <1>2 DEF Take, RowCommits, RowWritten, RowLost, RouterTypes, writerVars
    <2>3. QED
      BY <2>1, <2>2
  <1>3. ASSUME NEW b \in Binds,
               MarkerCommits(b) \/ MarkerWritten(b) \/ MarkerFails(b) \/ Unwind(b)
        PROVE  CarriersMark'
    BY <1>3 DEF MarkerCommits, MarkerWritten, MarkerFails, Unwind, RouterTypes, lossVars
  <1>4. CASE LifeStep \/ UNCHANGED vars
    BY <1>4, LifeShape DEF writerVars
  <1>5. QED
    BY <1>1, <1>2, <1>3, <1>4, StepKinds

-----------------------------------------------------------------------------
(* Losses, rows and markers. *)

(* LossesKept, record by record. *)
LossesByRecord ==
    /\ \A r \in Records : at[r] = "lost" <=> r \in episode \/ \E b \in Binds : r \in carry[b]
    /\ \A b \in Binds : \A r \in carry[b] : r \notin episode
    /\ \A b, c \in Binds : \A r \in carry[b] : r \in carry[c] => b = c

(* The two say the same. *)
LEMMA LossesEachOnce == RouterTypes => (LossesKept <=> LossesByRecord)
  <1> SUFFICES ASSUME RouterTypes PROVE LossesKept <=> LossesByRecord
    OBVIOUS
  <1> DEFINE lost == {r \in Records : at[r] = "lost"}
             kept == episode \cup UNION {carry[b] : b \in Binds}
  <1>1. kept \subseteq Records
    BY DEF RouterTypes
  <1>2. \A r : r \in kept <=> r \in episode \/ \E b \in Binds : r \in carry[b]
    OBVIOUS
  <1>3. lost = kept <=> \A r \in Records : at[r] = "lost" <=> r \in kept
    BY <1>1
  <1> HIDE DEF kept
  <1>4. lost = kept <=> \A r \in Records :
            at[r] = "lost" <=> r \in episode \/ \E b \in Binds : r \in carry[b]
    BY <1>2, <1>3
  <1>5. \A b \in Binds : (carry[b] \cap episode = {}) <=> \A r \in carry[b] : r \notin episode
    OBVIOUS
  <1>6. \A b, c \in Binds :
            (b # c => carry[b] \cap carry[c] = {}) <=> \A r \in carry[b] : r \in carry[c] => b = c
    OBVIOUS
  <1> HIDE DEF lost
  <1>7. LossesKept <=> /\ lost = kept
                       /\ \A b \in Binds : carry[b] \cap episode = {}
                       /\ \A b, c \in Binds : b # c => carry[b] \cap carry[c] = {}
    BY DEF LossesKept, lost, kept
  <1>8. QED
    BY <1>4, <1>5, <1>6, <1>7 DEF LossesByRecord

(* Each loss stays in the one episode that will be marked. *)
LEMMA LossesStep ==
    ASSUME RouterTypes, BoundWhenUsed, PlacesAgree, [Next]_vars, RouterTypes'
    PROVE  LossesKept'
  <1> USE DEF PlacesAgree
  <1>0. LossesByRecord
    BY LossesEachOnce
  <1>a. SUFFICES LossesByRecord'
    <2>1. RouterTypes' => (LossesKept' <=> LossesByRecord')
      BY LossesEachOnce, PTL
    <2>2. QED
      BY <2>1
  <1>1. ASSUME NEW r \in Records, OfferOf(r)
        PROVE  LossesByRecord'
    <2>1. at[r] \in Early /\ (Turns(r) \/ Loses(r) \/ Enters(r))
      BY <1>1, OfferShape
    <2>2. /\ carry' = carry /\ \A x \in Records : x # r => at'[x] = at[x]
          /\ at[r] # "lost"
      BY <2>1 DEF Turns, Loses, Enters, RouterTypes, writerVars, Early
    <2>3. CASE Turns(r) \/ Enters(r)
      <3>1. at'[r] # "lost" /\ episode' = episode
        BY <2>3 DEF Turns, Enters, RouterTypes, Early
      <3>2. QED
        BY <1>0, <2>2, <3>1 DEF LossesByRecord
    <2>4. CASE Loses(r)
      <3>1. at'[r] = "lost" /\ episode' = episode \cup {r}
        BY <2>4 DEF Loses, RouterTypes
      <3>2. QED
        BY <1>0, <2>2, <3>1 DEF LossesByRecord
    <2>5. QED
      BY <2>1, <2>3, <2>4
  <1>2. ASSUME NEW b \in Binds, Take(b) \/ RowCommits(b) \/ MarkerCommits(b)
        PROVE  LossesByRecord'
    <2>1. carry' = carry /\ episode' = episode
      BY <1>2 DEF Take, RowCommits, MarkerCommits, lossVars, writerVars
    <2>2. \A x \in Records : at'[x] = "lost" <=> at[x] = "lost"
      <3>1. CASE Take(b)
        <4>1. /\ at[Head(queue[b])] = "queued"
              /\ MovesOne(Head(queue[b]), "writing")
          BY <3>1, WriterShape
        <4>2. QED
          BY <4>1 DEF MovesOne, RouterTypes
      <3>2. CASE RowCommits(b) \/ MarkerCommits(b)
        BY <3>2 DEF RowCommits, MarkerCommits, lossVars
      <3>3. QED
        BY <1>2, <3>1, <3>2
    <2>3. QED
      BY <1>0, <2>1, <2>2 DEF LossesByRecord
  <1>3. ASSUME NEW b \in Binds, RowWritten(b)
        PROVE  LossesByRecord'
    <2>1. \A x \in Records : at'[x] = "lost" <=> at[x] = "lost"
      BY <1>3, WriterShape DEF MovesOne, RouterTypes
    <2>2. /\ carry[b] = {} /\ carry'[b] = episode /\ episode' = {}
          /\ \A c \in Binds : c # b => carry'[c] = carry[c]
      BY <1>3, WriterShape DEF RowWritten, RouterTypes
    <2>3. \A r : (r \in episode' \/ \E c \in Binds : r \in carry'[c])
              <=> (r \in episode \/ \E c \in Binds : r \in carry[c])
      BY <2>2
    <2>4. QED
      BY <1>0, <2>1, <2>2, <2>3 DEF LossesByRecord
  <1>4. ASSUME NEW b \in Binds, RowLost(b)
        PROVE  LossesByRecord'
    <2>1. /\ carry' = carry /\ held[b] \in Records /\ at[held[b]] = "writing"
          /\ episode' = episode \cup {held[b]} /\ at'[held[b]] = "lost"
          /\ \A x \in Records : x # held[b] => at'[x] = at[x]
      BY <1>4, WriterShape DEF MovesOne, RouterTypes
    <2>2. QED
      BY <1>0, <2>1 DEF LossesByRecord
  <1>5. ASSUME NEW b \in Binds, MarkerWritten(b)
        PROVE  LossesByRecord'
    <2>1. /\ episode' = episode /\ carry'[b] = {}
          /\ \A c \in Binds : c # b => carry'[c] = carry[c]
      BY <1>5 DEF MarkerWritten, RouterTypes
    <2>2. \A x \in Records : at'[x] = IF x \in carry[b] THEN "marked" ELSE at[x]
      BY <1>5, WriterShape
    <2>3. ASSUME NEW r \in Records
          PROVE  at'[r] = "lost" <=> r \in episode' \/ \E c \in Binds : r \in carry'[c]
      <3>1. CASE r \in carry[b]
        <4>1. at'[r] = "marked" /\ r \notin episode
          BY <1>0, <2>2, <3>1 DEF LossesByRecord
        <4>2. \A c \in Binds : r \notin carry'[c]
          BY <1>0, <2>1, <3>1 DEF LossesByRecord
        <4>3. QED
          BY <2>1, <4>1, <4>2
      <3>2. CASE r \notin carry[b]
        BY <1>0, <2>1, <2>2, <3>2 DEF LossesByRecord
      <3>3. QED
        BY <3>1, <3>2
    <2>4. QED
      BY <1>0, <2>1, <2>3 DEF LossesByRecord
  <1>6. ASSUME NEW b \in Binds, MarkerFails(b) \/ Unwind(b)
        PROVE  LossesByRecord'
    <2>1. /\ episode' = carry[b] \cup episode /\ carry'[b] = {} /\ at' = at
          /\ \A c \in Binds : c # b => carry'[c] = carry[c]
      BY <1>6 DEF MarkerFails, Unwind, RouterTypes
    <2>2. \A r : (r \in episode' \/ \E c \in Binds : r \in carry'[c])
              <=> (r \in episode \/ \E c \in Binds : r \in carry[c])
      BY <2>1
    <2>3. QED
      BY <1>0, <2>1, <2>2 DEF LossesByRecord
  <1>7. CASE LifeStep \/ UNCHANGED vars
    BY <1>0, <1>7, LifeShape DEF writerVars, lossVars, LossesByRecord
  <1>8. QED
    BY <1>1, <1>2, <1>3, <1>4, <1>5, <1>6, <1>7, StepKinds

(* A row is only that of a record whose write is under way or returned. *)
LEMMA RowsStep ==
    ASSUME RouterTypes, BoundWhenUsed, PlacesAgree, [Next]_vars
    PROVE  RowsAreWritten'
  <1> USE DEF PlacesAgree, RowsAreWritten
  <1>1. ASSUME NEW r \in Records, OfferOf(r)
        PROVE  RowsAreWritten'
    <2>1. /\ at[r] \in Early /\ rows' = rows
          /\ Turns(r) \/ Loses(r) \/ Enters(r)
      BY <1>1, OfferShape
    <2>2. /\ r \notin rows /\ at'[r] # "written"
          /\ \A x \in Records : x # r => at'[x] = at[x]
      BY <2>1 DEF Turns, Loses, Enters, RouterTypes, Early
    <2>3. QED
      BY <2>1, <2>2
  <1>2. ASSUME NEW b \in Binds, Take(b) \/ RowWritten(b) \/ RowLost(b)
        PROVE  RowsAreWritten'
    <2>1. CASE Take(b)
      <3>1. /\ rows' = rows /\ at[Head(queue[b])] = "queued"
            /\ MovesOne(Head(queue[b]), "writing")
        BY <2>1, WriterShape
      <3>2. QED
        BY <3>1 DEF MovesOne, RouterTypes
    <2>2. CASE RowWritten(b) \/ RowLost(b)
      BY <2>2, WriterShape DEF MovesOne, RouterTypes
    <2>3. QED
      BY <1>2, <2>1, <2>2
  <1>3. ASSUME NEW b \in Binds, MarkerWritten(b)
        PROVE  RowsAreWritten'
    BY <1>3, WriterShape
  <1>4. ASSUME NEW b \in Binds,
               RowCommits(b) \/ MarkerCommits(b) \/ MarkerFails(b) \/ Unwind(b)
        PROVE  RowsAreWritten'
    BY <1>4 DEF RowCommits, MarkerCommits, MarkerFails, Unwind, lossVars, logVars, WritersHold
  <1>5. CASE LifeStep \/ UNCHANGED vars
    BY <1>5, LifeShape DEF lossVars
  <1>6. QED
    BY <1>1, <1>2, <1>3, <1>4, <1>5, StepKinds


(* A marker answers for each event of the losses it was built from. *)
LEMMA MarkerAnswers ==
    ASSUME RouterTypes, NEW b \in Binds, MarkerCommits(b)
    PROVE  /\ NotedEvents \subseteq NotedEvents'
           /\ \A r \in carry[b] : EventOf[r] \in NotedEvents'
           /\ \E E \in SUBSET Events :
                  /\ E \subseteq NamesOf(carry[b]) \/ E = Events
                  /\ NotedEvents' = NotedEvents \cup E
  <1>1. PICK m \in Marker : Folded(carry[b], m) /\ markers' = Append(markers, m)
    BY DEF MarkerCommits
  <1> DEFINE n == Len(markers)
             E == IF m.other THEN Events ELSE m.names
  <1>2. /\ n \in Nat /\ Len(markers') = n + 1 /\ markers'[n + 1] = m
        /\ \A k \in 1..n : markers'[k] = markers[k]
    BY <1>1, Appended DEF RouterTypes
  <1>3. m.names \subseteq Events /\ m.other \in BOOLEAN
    BY DEF Marker
  <1> HIDE DEF n
  <1>4. NotedEvents = {e \in Events : \E k \in 1..n : e \in markers[k].names \/ markers[k].other}
    BY DEF NotedEvents, n
  <1>5. NotedEvents' =
            {e \in Events : \E k \in 1..(n + 1) : e \in markers'[k].names \/ markers'[k].other}
    BY <1>2 DEF NotedEvents
  <1>6. \A e \in Events : e \in NotedEvents' <=> e \in NotedEvents \/ e \in m.names \/ m.other
    <2> TAKE e \in Events
    <2>1. ASSUME e \in NotedEvents
          PROVE  e \in NotedEvents'
      BY <1>2, <1>4, <1>5, <2>1
    <2>2. ASSUME e \in m.names \/ m.other
          PROVE  e \in NotedEvents'
      BY <1>2, <1>5, <2>2
    <2>3. ASSUME e \in NotedEvents', e \notin NotedEvents
          PROVE  e \in m.names \/ m.other
      <3>1. PICK k \in 1..(n + 1) : e \in markers'[k].names \/ markers'[k].other
        BY <1>5, <2>3
      <3>2. k \notin 1..n
        BY <1>2, <1>4, <2>3, <3>1
      <3>3. k = n + 1
        BY <1>2, <3>2
      <3>4. QED
        BY <1>2, <3>1, <3>3
    <2>4. QED
      BY <2>1, <2>2, <2>3
  <1>7. NotedEvents' \subseteq Events /\ NotedEvents \subseteq Events
    BY <1>4, <1>5
  <1>8. NotedEvents \subseteq NotedEvents'
    BY <1>6, <1>7
  <1>9. \A r \in carry[b] : EventOf[r] \in NotedEvents'
    <2> TAKE r \in carry[b]
    <2>1. r \in Records /\ EventOf[r] \in Events /\ EventOf[r] \in NamesOf(carry[b])
      BY RouterAssumption DEF RouterTypes, NamesOf
    <2>2. EventOf[r] \in m.names \/ m.other
      BY <1>1, <2>1 DEF Folded
    <2>3. QED
      BY <1>6, <2>1, <2>2
  <1>10. NotedEvents' = NotedEvents \cup E
    BY <1>3, <1>6, <1>7
  <1>11. E \in SUBSET Events /\ (E \subseteq NamesOf(carry[b]) \/ E = Events)
    BY <1>1, <1>3 DEF Folded
  <1>12. QED
    BY <1>8, <1>9, <1>10, <1>11

(* What is marked, and what a committed marker carries, is answered for. *)
LEMMA MarksStep ==
    ASSUME RouterTypes, BoundWhenUsed, PlacesAgree, [Next]_vars
    PROVE  MarksAreNoted'
  <1> USE DEF PlacesAgree
  <1>0. /\ \A r \in Records : at[r] = "marked" => EventOf[r] \in NotedEvents
        /\ \A b \in Binds : writer[b] = "marked" =>
               \A r \in carry[b] : EventOf[r] \in NotedEvents
    BY DEF MarksAreNoted
  <1>1. ASSUME NEW r \in Records, OfferOf(r)
        PROVE  MarksAreNoted'
    <2>1. markers' = markers /\ (Turns(r) \/ Loses(r) \/ Enters(r))
      BY <1>1, OfferShape
    <2>2. /\ at'[r] # "marked" /\ \A x \in Records : x # r => at'[x] = at[x]
          /\ carry' = carry
          /\ \A c \in Binds : writer'[c] = "marked" => writer[c] = "marked"
      BY <2>1 DEF Turns, Loses, Enters, RouterTypes, Early, writerVars
    <2>3. NotedEvents' = NotedEvents
      BY <2>1 DEF NotedEvents
    <2>4. QED
      BY <1>0, <2>2, <2>3 DEF MarksAreNoted
  <1>2. ASSUME NEW b \in Binds, Take(b) \/ RowCommits(b) \/ RowWritten(b) \/ RowLost(b)
        PROVE  MarksAreNoted'
    <2>1. /\ writer'[b] # "marked"
          /\ \A c \in Binds : c # b => writer'[c] = writer[c] /\ carry'[c] = carry[c]
          /\ markers' = markers
      BY <1>2 DEF Take, RowCommits, RowWritten, RowLost, RouterTypes, writerVars, logVars
    <2>2. \A x \in Records : at'[x] = "marked" => at[x] = "marked"
      <3>1. CASE Take(b)
        <4>1. MovesOne(Head(queue[b]), "writing")
          BY <3>1, WriterShape
        <4>2. QED
          BY <4>1 DEF MovesOne, RouterTypes
      <3>2. CASE RowWritten(b) \/ RowLost(b)
        BY <3>2, WriterShape DEF MovesOne, RouterTypes
      <3>3. CASE RowCommits(b)
        BY <3>3 DEF RowCommits, lossVars
      <3>4. QED
        BY <1>2, <3>1, <3>2, <3>3
    <2>3. NotedEvents' = NotedEvents
      BY <2>1 DEF NotedEvents
    <2>4. QED
      BY <1>0, <2>1, <2>2, <2>3 DEF MarksAreNoted
  <1>3. ASSUME NEW b \in Binds, MarkerCommits(b)
        PROVE  MarksAreNoted'
    <2>1. /\ NotedEvents \subseteq NotedEvents' /\ carry' = carry /\ at' = at
          /\ \A r \in carry[b] : EventOf[r] \in NotedEvents'
          /\ \A c \in Binds : c # b => writer'[c] = writer[c]
      BY <1>3, MarkerAnswers DEF MarkerCommits, lossVars, RouterTypes
    <2>2. QED
      BY <1>0, <2>1 DEF MarksAreNoted
  <1>4. ASSUME NEW b \in Binds, MarkerWritten(b)
        PROVE  MarksAreNoted'
    <2>1. /\ writer[b] = "marked" /\ writer'[b] = "idle" /\ markers' = markers
          /\ \A c \in Binds : c # b => writer'[c] = writer[c] /\ carry'[c] = carry[c]
          /\ at' = [r \in Records |-> IF r \in carry[b] THEN "marked" ELSE at[r]]
      BY <1>4 DEF MarkerWritten, RouterTypes, logVars
    <2>2. NotedEvents' = NotedEvents
      BY <2>1 DEF NotedEvents
    <2>3. QED
      BY <1>0, <2>1, <2>2 DEF MarksAreNoted
  <1>5. ASSUME NEW b \in Binds, MarkerFails(b) \/ Unwind(b)
        PROVE  MarksAreNoted'
    <2>1. /\ writer'[b] # "marked" /\ markers' = markers /\ at' = at
          /\ \A c \in Binds : c # b => writer'[c] = writer[c] /\ carry'[c] = carry[c]
      BY <1>5 DEF MarkerFails, Unwind, RouterTypes, logVars
    <2>2. NotedEvents' = NotedEvents
      BY <2>1 DEF NotedEvents
    <2>3. QED
      BY <1>0, <2>1, <2>2 DEF MarksAreNoted
  <1>6. CASE LifeStep \/ UNCHANGED vars
    BY <1>0, <1>6, LifeShape DEF writerVars, lossVars, MarksAreNoted, NotedEvents
  <1>7. QED
    BY <1>1, <1>2, <1>3, <1>4, <1>5, <1>6, StepKinds

(* Places keep agreeing. *)
LEMMA PlacesStep ==
    ASSUME RouterTypes, BoundWhenUsed, PlacesAgree, [Next]_vars
    PROVE  RouterTypes' /\ BoundWhenUsed' /\ PlacesAgree'
  <1>1. RouterTypes' /\ BoundWhenUsed'
    BY TypesStep DEF PlacesAgree
  <1>2. QED
    BY <1>1, QueuesStep, WritersStep, CarriersStep, LossesStep, RowsStep, MarksStep
       DEF PlacesAgree

-----------------------------------------------------------------------------
(* The counters. *)

(* What the move of one record does to the number of records held. *)
LEMMA HeldMove ==
    ASSUME RouterTypes, UnresolvedIsExact, NEW r \in Records, NEW q, MovesOne(r, q),
           NEW e \in Events
    PROVE  /\ unresolved[e] \in Nat
           /\ (e # EventOf[r] \/ (at[r] \in HeldPlaces <=> q \in HeldPlaces)) =>
                  Cardinality(HeldOf(e)') = unresolved[e]
           /\ (e = EventOf[r] /\ at[r] \notin HeldPlaces /\ q \in HeldPlaces) =>
                  Cardinality(HeldOf(e)') = unresolved[e] + 1
           /\ (e = EventOf[r] /\ at[r] \in HeldPlaces /\ q \notin HeldPlaces) =>
                  Cardinality(HeldOf(e)') = unresolved[e] - 1
  <1> DEFINE S == {x \in Records : EventOf[x] = e}
             before == Cardinality(InPlaces(at, S, HeldPlaces))
             after == Cardinality(InPlaces(at', S, HeldPlaces))
  <1>1. /\ S \in SUBSET Records /\ IsFiniteSet(Records) /\ at'[r] = q
        /\ \A x \in Records : x # r => at'[x] = at[x]
    BY RouterAssumption DEF RouterTypes, MovesOne
  <1>2. r \in S <=> e = EventOf[r]
    OBVIOUS
  <1>3. unresolved[e] = before
    BY DEF UnresolvedIsExact, HeldOf, InPlaces
  <1>4. Cardinality(HeldOf(e)') = after
    BY DEF HeldOf, InPlaces
  <1> HIDE DEF S
  <1> DEFINE P == HeldPlaces
  <1> HIDE DEF P
  <1>5. MoveCounts(Records, S, P, r)
    BY ONLY <1>1, r \in Records, CountMove
  <1> HIDE DEF before, after
  <1>6. QED
    BY <1>1, <1>2, <1>3, <1>4, <1>5 DEF P, before, after, MoveCounts

(* The counter follows the record that moves. *)
LEMMA ExactAfterMove ==
    ASSUME RouterTypes, UnresolvedIsExact, NEW r \in Records, NEW q, MovesOne(r, q),
           \/ (at[r] \in HeldPlaces <=> q \in HeldPlaces) /\ UNCHANGED unresolved
           \/ /\ at[r] \notin HeldPlaces /\ q \in HeldPlaces
              /\ unresolved' = [unresolved EXCEPT ![EventOf[r]] = @ + 1]
           \/ /\ at[r] \in HeldPlaces /\ q \notin HeldPlaces
              /\ unresolved' = [unresolved EXCEPT ![EventOf[r]] = @ - 1]
    PROVE  UnresolvedIsExact'
  <1>1. SUFFICES ASSUME NEW e \in Events
                 PROVE  unresolved'[e] = Cardinality(HeldOf(e)')
    BY DEF UnresolvedIsExact
  <1>2. unresolved \in [Events -> Int]
    BY DEF RouterTypes
  <1>3. CASE (at[r] \in HeldPlaces <=> q \in HeldPlaces) /\ UNCHANGED unresolved
    BY <1>3, HeldMove
  <1>4. CASE /\ at[r] \notin HeldPlaces /\ q \in HeldPlaces
             /\ unresolved' = [unresolved EXCEPT ![EventOf[r]] = @ + 1]
    <2>1. unresolved'[e] = IF e = EventOf[r] THEN unresolved[e] + 1 ELSE unresolved[e]
      BY <1>2, <1>4
    <2>2. QED
      BY <1>4, <2>1, HeldMove
  <1>5. CASE /\ at[r] \in HeldPlaces /\ q \notin HeldPlaces
             /\ unresolved' = [unresolved EXCEPT ![EventOf[r]] = @ - 1]
    <2>1. unresolved'[e] = IF e = EventOf[r] THEN unresolved[e] - 1 ELSE unresolved[e]
      BY <1>2, <1>5
    <2>2. QED
      BY <1>5, <2>1, HeldMove
  <1>6. QED
    BY <1>3, <1>4, <1>5

(* Each loss a marker answers for leaves the count, once. *)
LEMMA ExactAfterMarker ==
    ASSUME RouterTypes, PlacesAgree, UnresolvedIsExact, NEW b \in Binds, MarkerWritten(b)
    PROVE  UnresolvedIsExact'
  <1>1. SUFFICES ASSUME NEW e \in Events
                 PROVE  unresolved'[e] = Cardinality(HeldOf(e)')
    BY DEF UnresolvedIsExact
  <1> DEFINE H == {r \in Records : EventOf[r] = e /\ at[r] \in HeldPlaces}
             C == {r \in carry[b] : EventOf[r] = e}
  <1>2. /\ \A r \in carry[b] : r \in Records /\ at[r] = "lost"
        /\ at' = [r \in Records |-> IF r \in carry[b] THEN "marked" ELSE at[r]]
    BY WriterShape
  <1>3. C \subseteq H /\ H \in SUBSET Records
    BY <1>2 DEF HeldPlaces
  <1>4. HeldOf(e)' = H \ C
    <2>1. HeldOf(e)' = {r \in Records : EventOf[r] = e /\ at'[r] \in HeldPlaces}
      BY DEF HeldOf
    <2>2. \A r \in Records : at'[r] \in HeldPlaces <=> at[r] \in HeldPlaces /\ r \notin carry[b]
      BY <1>2 DEF HeldPlaces
    <2>3. QED
      BY <1>2, <2>1, <2>2
  <1>5. unresolved[e] = Cardinality(H)
    BY DEF UnresolvedIsExact, HeldOf
  <1>6. unresolved'[e] = unresolved[e] - Cardinality(C)
    BY DEF MarkerWritten
  <1> HIDE DEF H, C
  <1>7. IsFiniteSet(H) /\ IsFiniteSet(C) /\ IsFiniteSet(H \ C)
    <2>1. IsFiniteSet(H)
      BY <1>3, FS_Subset, RouterAssumption
    <2>2. C \in SUBSET H /\ H \ C \in SUBSET H
      BY <1>3
    <2>3. QED
      BY <2>1, <2>2, FS_Subset
  <1>8. Cardinality(H) = Cardinality(C) + Cardinality(H \ C)
    <2>1. C \cup (H \ C) = H /\ C \cap (H \ C) = {}
      BY <1>3
    <2>2. /\ Cardinality(C) \in Nat /\ Cardinality(H \ C) \in Nat /\ Cardinality({}) = 0
      BY <1>7, FS_CardinalityType, FS_EmptySet
    <2>3. Cardinality(C \cup (H \ C)) =
              Cardinality(C) + Cardinality(H \ C) - Cardinality(C \cap (H \ C))
      BY <1>7, FS_Union
    <2>4. Cardinality(H) = Cardinality(C) + Cardinality(H \ C) - Cardinality({})
      BY <2>1, <2>3, Zenon
    <2>5. QED
      BY <2>2, <2>4
  <1>9. Cardinality(C) \in Nat /\ Cardinality(H \ C) \in Nat
    BY <1>7, FS_CardinalityType
  <1>10. QED
    BY <1>4, <1>5, <1>6, <1>8, <1>9

(* unresolved() stays exact. *)
LEMMA ExactStep ==
    ASSUME RouterTypes, BoundWhenUsed, PlacesAgree, UnresolvedIsExact, [Next]_vars
    PROVE  UnresolvedIsExact'
  <1> USE DEF HeldPlaces
  <1>1. ASSUME NEW r \in Records, OfferOf(r)
        PROVE  UnresolvedIsExact'
    <2>1. CASE OfferBegin(r)
      <3>1. at[r] = "new" /\ MovesOne(r, "begun") /\ UNCHANGED unresolved
        BY <2>1 DEF OfferBegin, MovesOne
      <3>2. QED
        BY <3>1, ExactAfterMove
    <2>2. CASE OfferError(r) \/ OfferRefused(r)
      <3>1. /\ at[r] \in {"begun", "refused"} /\ MovesOne(r, "lost")
            /\ unresolved' = [unresolved EXCEPT ![EventOf[r]] = @ + 1]
        BY <2>2 DEF OfferError, OfferRefused, LoseUncounted, MovesOne
      <3>2. QED
        BY <3>1, ExactAfterMove
    <2>3. CASE OfferRoute(r)
      <3>1. \/ /\ at[r] = "begun" /\ MovesOne(r, "routed")
               /\ unresolved' = [unresolved EXCEPT ![EventOf[r]] = @ + 1]
            \/ at[r] = "begun" /\ MovesOne(r, "refused") /\ UNCHANGED unresolved
        BY <2>3 DEF OfferRoute, MovesOne
      <3>2. QED
        BY <3>1, ExactAfterMove
    <2>4. CASE HandOff(r)
      <3>1. /\ at[r] = "routed" /\ UNCHANGED unresolved
            /\ MovesOne(r, "handed") \/ MovesOne(r, "lost")
        BY <2>4 DEF HandOff, Lose, MovesOne
      <3>2. QED
        BY <3>1, ExactAfterMove
    <2>5. CASE RunHandOff(r)
      <3>1. /\ at[r] = "handed" /\ UNCHANGED unresolved
            /\ MovesOne(r, "queued") \/ MovesOne(r, "lost")
        BY <2>5 DEF RunHandOff, Accept, Lose, MovesOne
      <3>2. QED
        BY <3>1, ExactAfterMove
    <2>6. CASE OfferOnLoop(r)
      <3>1. /\ at[r] = "new" /\ (MovesOne(r, "queued") \/ MovesOne(r, "lost"))
            /\ unresolved' = [unresolved EXCEPT ![EventOf[r]] = @ + 1]
        BY <2>6 DEF OfferOnLoop, MovesOne
      <3>2. QED
        BY <3>1, ExactAfterMove
    <2>7. QED
      BY <1>1, <2>1, <2>2, <2>3, <2>4, <2>5, <2>6 DEF OfferOf
  <1>2. ASSUME NEW b \in Binds, Take(b)
        PROVE  UnresolvedIsExact'
    <2>1. /\ Head(queue[b]) \in Records /\ at[Head(queue[b])] = "queued"
          /\ MovesOne(Head(queue[b]), "writing") /\ UNCHANGED unresolved
      BY <1>2, WriterShape DEF Take
    <2>2. QED
      BY <2>1, ExactAfterMove
  <1>3. ASSUME NEW b \in Binds, RowWritten(b) \/ RowLost(b)
        PROVE  UnresolvedIsExact'
    <2>1. held[b] \in Records /\ at[held[b]] = "writing"
      BY <1>3, WriterShape
    <2>2. CASE RowWritten(b)
      <3>1. /\ MovesOne(held[b], "written")
            /\ unresolved' = [unresolved EXCEPT ![EventOf[held[b]]] = @ - 1]
        BY <2>2 DEF RowWritten, MovesOne
      <3>2. QED
        BY <2>1, <3>1, ExactAfterMove
    <2>3. CASE RowLost(b)
      <3>1. MovesOne(held[b], "lost") /\ UNCHANGED unresolved
        BY <2>3 DEF RowLost, Lose, MovesOne
      <3>2. QED
        BY <2>1, <3>1, ExactAfterMove
    <2>4. QED
      BY <1>3, <2>2, <2>3
  <1>4. ASSUME NEW b \in Binds, MarkerWritten(b)
        PROVE  UnresolvedIsExact'
    BY <1>4, ExactAfterMarker
  <1>5. ASSUME UNCHANGED <<unresolved, at>>
        PROVE  UnresolvedIsExact'
    BY <1>5 DEF UnresolvedIsExact, HeldOf
  <1>6. ASSUME NEW b \in Binds,
               RowCommits(b) \/ MarkerCommits(b) \/ MarkerFails(b) \/ Unwind(b)
        PROVE  UnresolvedIsExact'
    BY <1>5, <1>6 DEF RowCommits, MarkerCommits, MarkerFails, Unwind, lossVars
  <1>7. CASE LifeStep \/ UNCHANGED vars
    BY <1>5, <1>7, LifeShape DEF lossVars
  <1>8. QED
    BY <1>1, <1>2, <1>3, <1>4, <1>6, <1>7, StepKinds


(* The places of a record that was offered and not decided. *)
OnTheWay == {"begun", "refused", "routed", "handed", "queued", "writing"}
Ways == Cardinality(InPlaces(at, Records, OnTheWay))
Decided == stats.dropped + stats.written + stats.failed + stats.notRecorded

(* StatsAddUp, by these names. *)
LEMMA StatsSum == StatsAddUp <=> stats.offered = Decided + Ways
  BY DEF StatsAddUp, Decided, Ways, OnTheWay, InPlaces

(* The statistics follow the record that moves. *)
LEMMA StatsAfterMove ==
    ASSUME RouterTypes, RouterTypes', StatsAddUp, NEW r \in Records, NEW q, MovesOne(r, q),
           \/ /\ at[r] \in OnTheWay <=> q \in OnTheWay
              /\ \/ stats'.offered = stats.offered /\ Decided' = Decided
                 \/ stats'.offered = stats.offered + 1 /\ Decided' = Decided + 1
           \/ /\ at[r] \notin OnTheWay /\ q \in OnTheWay
              /\ stats'.offered = stats.offered + 1 /\ Decided' = Decided
           \/ /\ at[r] \in OnTheWay /\ q \notin OnTheWay
              /\ stats'.offered = stats.offered /\ Decided' = Decided + 1
    PROVE  StatsAddUp'
  <1>1. stats.offered \in Nat /\ Decided \in Nat
    <2>1. stats \in Stats
      BY DEF RouterTypes
    <2>2. /\ stats.offered \in Nat /\ stats.dropped \in Nat /\ stats.written \in Nat
          /\ stats.failed \in Nat /\ stats.notRecorded \in Nat
      BY ONLY <2>1 DEF Stats
    <2>3. QED
      BY ONLY <2>2 DEF Decided
  <1>2. stats.offered = Decided + Ways
    BY StatsSum
  <1> DEFINE S == Records
  <1>3. /\ IsFiniteSet(Records) /\ S \in SUBSET Records /\ r \in S /\ at'[r] = q
        /\ \A x \in Records : x # r => at'[x] = at[x]
    BY RouterAssumption DEF RouterTypes, MovesOne
  <1> DEFINE P == OnTheWay
  <1> HIDE DEF P, S
  <1>4. MoveCounts(Records, S, P, r)
    BY ONLY <1>3, r \in Records, CountMove
  <1>5. Ways' = Cardinality(InPlaces(at', S, P)) /\ Ways = Cardinality(InPlaces(at, S, P))
    BY DEF Ways, P, S
  <1>6. /\ Ways \in Nat /\ Ways' \in Nat
        /\ (at[r] \in OnTheWay <=> q \in OnTheWay) => Ways' = Ways
        /\ (at[r] \notin OnTheWay /\ q \in OnTheWay) => Ways' = Ways + 1
        /\ (at[r] \in OnTheWay /\ q \notin OnTheWay) => Ways' = Ways - 1
    BY <1>3, <1>4, <1>5 DEF P, MoveCounts
  <1>7. (stats.offered = Decided + Ways)'
    BY <1>1, <1>2, <1>6
  <1>8. QED
    BY <1>7, StatsSum, PTL

(* A step that leaves the number on the way and the sums alone. *)
LEMMA StatsStay ==
    ASSUME StatsAddUp, stats'.offered = stats.offered, Decided' = Decided,
           \A r \in Records : at'[r] \in OnTheWay <=> at[r] \in OnTheWay
    PROVE  StatsAddUp'
  <1>1. Ways' = Ways
    BY DEF Ways, InPlaces
  <1>2. stats.offered = Decided + Ways
    BY StatsSum
  <1>3. (stats.offered = Decided + Ways)'
    BY <1>1, <1>2
  <1>4. QED
    BY <1>3, StatsSum, PTL

(* The accounting stays complete. *)
LEMMA StatsStep ==
    ASSUME RouterTypes, BoundWhenUsed, PlacesAgree, StatsAddUp, [Next]_vars, RouterTypes'
    PROVE  StatsAddUp'
  <1> USE DEF OnTheWay
  <1>0. /\ stats.offered \in Nat /\ stats.dropped \in Nat /\ stats.written \in Nat
        /\ stats.failed \in Nat /\ stats.notRecorded \in Nat /\ stats.accepted \in Nat
        /\ stats.markersWritten \in Nat
        /\ stats = [offered |-> stats.offered, accepted |-> stats.accepted,
                    dropped |-> stats.dropped, written |-> stats.written,
                    failed |-> stats.failed, notRecorded |-> stats.notRecorded,
                    markersWritten |-> stats.markersWritten]
    BY DEF RouterTypes, Stats
  <1>1. ASSUME NEW r \in Records, OfferOf(r)
        PROVE  StatsAddUp'
    <2>1. CASE OfferBegin(r)
      <3>1. /\ at[r] = "new" /\ MovesOne(r, "begun")
            /\ stats'.offered = stats.offered + 1 /\ Decided' = Decided
        BY <1>0, <2>1 DEF OfferBegin, MovesOne, Decided
      <3>2. QED
        BY <3>1, StatsAfterMove
    <2>2. CASE OfferError(r) \/ OfferRefused(r)
      <3>1. /\ at[r] \in {"begun", "refused"} /\ MovesOne(r, "lost")
            /\ stats'.offered = stats.offered /\ Decided' = Decided + 1
        BY <1>0, <2>2 DEF OfferError, OfferRefused, LoseUncounted, MovesOne, Decided
      <3>2. QED
        BY <3>1, StatsAfterMove
    <2>3. CASE OfferRoute(r)
      <3>1. /\ at[r] = "begun" /\ (MovesOne(r, "routed") \/ MovesOne(r, "refused"))
            /\ stats' = stats
        BY <2>3 DEF OfferRoute, MovesOne
      <3>2. QED
        BY <3>1, StatsAfterMove DEF Decided
    <2>4. CASE HandOff(r)
      <3>1. /\ at[r] = "routed"
            /\ \/ MovesOne(r, "handed") /\ stats' = stats
               \/ /\ MovesOne(r, "lost")
                  /\ stats' = [stats EXCEPT !.dropped = @ + 1]
        BY <2>4 DEF HandOff, Lose, MovesOne
      <3>2. \/ MovesOne(r, "handed") /\ stats'.offered = stats.offered /\ Decided' = Decided
            \/ MovesOne(r, "lost") /\ stats'.offered = stats.offered /\ Decided' = Decided + 1
        BY <1>0, <3>1 DEF Decided
      <3>3. QED
        BY <3>1, <3>2, StatsAfterMove
    <2>5. CASE RunHandOff(r)
      <3>1. /\ at[r] = "handed"
            /\ \/ MovesOne(r, "queued") /\ stats' = [stats EXCEPT !.accepted = @ + 1]
               \/ MovesOne(r, "lost") /\ stats' = [stats EXCEPT !.dropped = @ + 1]
        BY <2>5 DEF RunHandOff, Accept, Lose, MovesOne
      <3>2. \/ MovesOne(r, "queued") /\ stats'.offered = stats.offered /\ Decided' = Decided
            \/ MovesOne(r, "lost") /\ stats'.offered = stats.offered /\ Decided' = Decided + 1
        BY <1>0, <3>1 DEF Decided
      <3>3. QED
        BY <3>1, <3>2, StatsAfterMove
    <2>6. CASE OfferOnLoop(r)
      <3>1. /\ at[r] = "new"
            /\ \/ /\ MovesOne(r, "queued")
                  /\ stats' = [stats EXCEPT !.offered = @ + 1, !.accepted = @ + 1]
               \/ /\ MovesOne(r, "lost")
                  /\ stats' = [stats EXCEPT !.offered = @ + 1, !.dropped = @ + 1]
        BY <2>6 DEF OfferOnLoop, MovesOne
      <3>2. \/ /\ MovesOne(r, "queued")
               /\ stats'.offered = stats.offered + 1 /\ Decided' = Decided
            \/ /\ MovesOne(r, "lost")
               /\ stats'.offered = stats.offered + 1 /\ Decided' = Decided + 1
        <4>1. CASE /\ MovesOne(r, "queued")
                   /\ stats' = [stats EXCEPT !.offered = @ + 1, !.accepted = @ + 1]
          BY ONLY <1>0, <4>1 DEF Decided
        <4>2. CASE /\ MovesOne(r, "lost")
                   /\ stats' = [stats EXCEPT !.offered = @ + 1, !.dropped = @ + 1]
          BY ONLY <1>0, <4>2 DEF Decided
        <4>3. QED
          BY <3>1, <4>1, <4>2
      <3>3. QED
        BY <3>1, <3>2, StatsAfterMove
    <2>7. QED
      BY <1>1, <2>1, <2>2, <2>3, <2>4, <2>5, <2>6 DEF OfferOf
  <1>2. ASSUME NEW b \in Binds, Take(b)
        PROVE  StatsAddUp'
    <2>1. /\ Head(queue[b]) \in Records /\ at[Head(queue[b])] = "queued"
          /\ MovesOne(Head(queue[b]), "writing") /\ stats' = stats
      BY <1>2, WriterShape DEF Take
    <2>2. QED
      BY <2>1, StatsAfterMove DEF Decided
  <1>3. ASSUME NEW b \in Binds, RowWritten(b) \/ RowLost(b)
        PROVE  StatsAddUp'
    <2>1. /\ held[b] \in Records /\ at[held[b]] = "writing"
          /\ MovesOne(held[b], "written") \/ MovesOne(held[b], "lost")
      BY <1>3, WriterShape
    <2>2. \/ stats' = [stats EXCEPT !.written = @ + 1]
          \/ stats' = [stats EXCEPT !.failed = @ + 1]
          \/ stats' = [stats EXCEPT !.notRecorded = @ + 1]
      BY <1>3 DEF RowWritten, RowLost, Lose
    <2>3. stats'.offered = stats.offered /\ Decided' = Decided + 1
      BY <1>0, <2>2 DEF Decided
    <2>4. QED
      BY <2>1, <2>3, StatsAfterMove
  <1>4. ASSUME NEW b \in Binds, MarkerWritten(b)
        PROVE  StatsAddUp'
    <2>1. \A r \in Records : at'[r] \in OnTheWay <=> at[r] \in OnTheWay
      BY <1>4, WriterShape
    <2>2. stats'.offered = stats.offered /\ Decided' = Decided
      BY <1>0, <1>4 DEF MarkerWritten, Decided
    <2>3. QED
      BY <2>1, <2>2, StatsStay
  <1>5. ASSUME UNCHANGED <<stats, at>>
        PROVE  StatsAddUp'
    BY <1>5 DEF StatsAddUp
  <1>6. ASSUME NEW b \in Binds,
               RowCommits(b) \/ MarkerCommits(b) \/ MarkerFails(b) \/ Unwind(b)
        PROVE  StatsAddUp'
    BY <1>5, <1>6 DEF RowCommits, MarkerCommits, MarkerFails, Unwind, lossVars
  <1>7. CASE LifeStep \/ UNCHANGED vars
    BY <1>5, <1>7, LifeShape DEF lossVars
  <1>8. QED
    BY <1>1, <1>2, <1>3, <1>4, <1>6, <1>7, StepKinds

-----------------------------------------------------------------------------
(* The invariant. *)

(* Nothing is offered, nothing is bound. *)
LEMMA RouterStarts ==
    ASSUME Init
    PROVE  RouterInv
  <1> USE RouterAssumption DEF Init
  <1>1. RouterTypes
    <2>1. /\ [loop |-> 0, generation |-> 0] \in Seen /\ "none" \in WriterState
          /\ "new" \in Place /\ stats \in Stats
      BY DEF Seen, WriterState, Place, Stats
    <2>2. <<>> \in Seq(Records) /\ markers \in Seq(Marker)
      OBVIOUS
    <2>3. /\ queue \in [Binds -> Seq(Records)]
          /\ writer \in [Binds -> WriterState]
          /\ held \in [Binds -> Records \cup {NoRecord}]
          /\ carry \in [Binds -> SUBSET Records]
          /\ unresolved \in [Events -> Int]
          /\ at \in [Records -> Place]
          /\ seen \in [Records -> Seen]
      BY <2>1, <2>2
    <2>4. live \in BOOLEAN /\ closed \in BOOLEAN /\ open \in BOOLEAN
      BY Zenon
    <2>5. loop \in Nat /\ generation \in Nat /\ bind \in 0..MaxBinds
      OBVIOUS
    <2>6. /\ cancelled \subseteq Binds /\ episode \subseteq Records /\ rows \subseteq Records
          /\ drain \in {"none", "joining", "stopping"}
      OBVIOUS
    <2>7. QED
      BY <2>1, <2>2, <2>3, <2>4, <2>5, <2>6 DEF RouterTypes
  <1>2. BoundWhenUsed
    BY DEF BoundWhenUsed
  <1>3. QueuesHold /\ QueuedOnce /\ WritersHold /\ WrittenByOne /\ CarriersMark
    BY DEF QueuesHold, QueuedOnce, WritersHold, WrittenByOne, CarriersMark
  <1>4. LossesKept /\ RowsAreWritten /\ MarksAreNoted
    BY DEF LossesKept, RowsAreWritten, MarksAreNoted
  <1>5. UnresolvedIsExact
    <2>1. \A e : HeldOf(e) = {}
      BY DEF HeldOf, HeldPlaces
    <2>2. QED
      BY <2>1, FS_EmptySet DEF UnresolvedIsExact
  <1>6. StatsAddUp
    <2>1. InPlaces(at, Records, OnTheWay) = {}
      BY DEF InPlaces, OnTheWay
    <2>2. Ways = 0
      BY <2>1, FS_EmptySet DEF Ways
    <2>3. stats.offered = Decided + Ways
      BY <2>2 DEF Decided
    <2>4. QED
      BY <2>3, StatsSum
  <1>7. QED
    BY <1>1, <1>2, <1>3, <1>4, <1>5, <1>6 DEF RouterInv, PlacesAgree

(* Every step keeps it. *)
LEMMA RouterKeepsInv ==
    ASSUME RouterInv, [Next]_vars
    PROVE  RouterInv'
  <1> USE DEF RouterInv
  <1>1. RouterTypes' /\ BoundWhenUsed' /\ PlacesAgree'
    BY PlacesStep
  <1>2. UnresolvedIsExact'
    BY ExactStep
  <1>3. StatsAddUp'
    BY <1>1, StatsStep
  <1>4. QED
    BY <1>1, <1>2, <1>3

(* The counter of an event is the number of its records held: zero, then,  *)
(* says that there is none.                                                *)
LEMMA CounterIsCount ==
    ASSUME RouterInv, NEW e \in Events
    PROVE  /\ unresolved[e] \in Nat
           /\ unresolved[e] = 0 => HeldOf(e) = {}
  <1>1. HeldOf(e) \in SUBSET Records /\ unresolved[e] = Cardinality(HeldOf(e))
    BY DEF HeldOf, RouterInv, UnresolvedIsExact
  <1>2. IsFiniteSet(HeldOf(e))
    BY <1>1, FS_Subset, RouterAssumption
  <1>3. QED
    BY <1>1, <1>2, FS_CardinalityType, FS_EmptySet

(* What the invariant says to a reader of the counters and of the log. *)
LEMMA RouterInvImplies ==
    ASSUME RouterInv
    PROVE  TypeOK /\ LossesKept /\ UnresolvedIsExact /\ StatsAddUp /\ NothingSilentlyLost
  <1>1. TypeOK
    <2>1. unresolved \in [Events -> Nat]
      BY CounterIsCount DEF RouterInv, RouterTypes
    <2>2. QED
      BY <2>1 DEF RouterInv, RouterTypes, TypeOK
  <1>2. NothingSilentlyLost
    <2>1. SUFFICES ASSUME NEW r \in Records, unresolved[EventOf[r]] = 0
                   PROVE  \/ at[r] \in {"new", "begun", "refused"}
                          \/ r \in rows
                          \/ EventOf[r] \in NotedEvents
      BY DEF NothingSilentlyLost
    <2>2. EventOf[r] \in Events /\ at[r] \in Place
      BY RouterAssumption DEF RouterInv, RouterTypes
    <2>3. at[r] \notin HeldPlaces
      BY <2>1, <2>2, CounterIsCount DEF HeldOf
    <2>4. at[r] \in {"new", "begun", "refused", "written", "marked"}
      BY <2>2, <2>3 DEF Place, HeldPlaces
    <2>5. QED
      BY <2>4 DEF RouterInv, PlacesAgree, RowsAreWritten, MarksAreNoted
  <1>3. QED
    BY <1>1, <1>2 DEF RouterInv, PlacesAgree

(* The inductive invariant holds in every behaviour of the router. *)
THEOREM RouterInvariant == Spec => []RouterInv
  BY RouterStarts, RouterKeepsInv, PTL DEF Spec

(* The router's state is well typed: no counter goes below zero.           *)
THEOREM RouterTypesHold == Spec => []TypeOK
  BY RouterInvariant, RouterInvImplies, PTL

(* Every loss waits in exactly one episode for its marker, however         *)
(* markers fail, writers are cancelled and episodes are merged.            *)
THEOREM LossesAreKept == Spec => []LossesKept
  BY RouterInvariant, RouterInvImplies, PTL

(* unresolved() counts exactly the records held, across threads, writers,  *)
(* drains and bindings.                                                    *)
THEOREM UnresolvedCounts == Spec => []UnresolvedIsExact
  BY RouterInvariant, RouterInvImplies, PTL

(* The statistics account for every envelope offered.                      *)
THEOREM StatsAccount == Spec => []StatsAddUp
  BY RouterInvariant, RouterInvImplies, PTL

(* Once unresolved() is zero for an event, each of its records offered and *)
(* counted has its row or a marker that answers for it.                    *)
THEOREM SilenceIsSound == Spec => []NothingSilentlyLost
  BY RouterInvariant, RouterInvImplies, PTL
-----------------------------------------------------------------------------
(* Stale hand-offs. *)

StaleRefused ==
    \A r \in Records : at[r] = "handed" /\ at'[r] = "queued" => seen[r].generation = generation

(* Only the run of a hand-off queues what was handed over, and only in the *)
(* generation it was routed in.                                            *)
LEMMA HandOffsAreFresh ==
    ASSUME RouterInv, [Next]_vars
    PROVE  StaleRefused
  <1> SUFFICES ASSUME NEW x \in Records, at[x] = "handed", at'[x] = "queued"
               PROVE  seen[x].generation = generation
    BY DEF StaleRefused
  <1> USE DEF RouterInv, PlacesAgree
  <1>1. ASSUME NEW r \in Records, OfferOf(r)
        PROVE  seen[x].generation = generation
    <2>1. CASE RunHandOff(r)
      BY <2>1 DEF RunHandOff, Accept, Lose, RouterTypes
    <2>2. CASE OfferOnLoop(r)
      BY <2>2 DEF OfferOnLoop, RouterTypes
    <2>3. CASE OfferBegin(r) \/ OfferError(r) \/ OfferRoute(r) \/ OfferRefused(r) \/ HandOff(r)
      BY <2>3 DEF OfferBegin, OfferError, OfferRoute, OfferRefused, HandOff, Lose,
                  LoseUncounted, RouterTypes
    <2>4. QED
      BY <1>1, <2>1, <2>2, <2>3 DEF OfferOf
  <1>2. ASSUME NEW b \in Binds, Take(b) \/ RowWritten(b) \/ RowLost(b) \/ MarkerWritten(b)
        PROVE  FALSE
    <2>1. CASE Take(b)
      <3>1. MovesOne(Head(queue[b]), "writing")
        BY <2>1, WriterShape
      <3>2. QED
        BY <3>1 DEF MovesOne, RouterTypes
    <2>2. CASE RowWritten(b) \/ RowLost(b)
      <3>1. MovesOne(held[b], "written") \/ MovesOne(held[b], "lost")
        BY <2>2, WriterShape
      <3>2. QED
        BY <3>1 DEF MovesOne, RouterTypes
    <2>3. CASE MarkerWritten(b)
      BY <2>3, WriterShape
    <2>4. QED
      BY <1>2, <2>1, <2>2, <2>3
  <1>3. ASSUME NEW b \in Binds,
               RowCommits(b) \/ MarkerCommits(b) \/ MarkerFails(b) \/ Unwind(b)
        PROVE  FALSE
    BY <1>3 DEF RowCommits, MarkerCommits, MarkerFails, Unwind, lossVars
  <1>4. CASE LifeStep \/ UNCHANGED vars
    BY <1>4, LifeShape DEF lossVars
  <1>5. QED
    BY <1>1, <1>2, <1>3, <1>4, StepKinds

(* A hand-off made before a drain or a re-arming never joins a later queue. *)
THEOREM StaleHandOffsRefused == Spec => StaleHandOffRefused
  <1>1. RouterInv /\ [Next]_vars => [StaleRefused]_vars
    BY HandOffsAreFresh
  <1>2. QED
    BY <1>1, RouterInvariant, PTL DEF Spec, StaleHandOffRefused, StaleRefused

-----------------------------------------------------------------------------
(* The router keeps the ledger. *)

(* The account of a record, place by place. *)
LEMMA AccountTable ==
    /\ \A p \in {"new", "begun", "refused"} : AccountAt(p) = "none"
    /\ \A p \in {"routed", "handed", "queued", "writing"} : AccountAt(p) = "held"
    /\ AccountAt("written") = "recorded"
    /\ AccountAt("lost") = "lost"
    /\ AccountAt("marked") = "marked"
  BY DEF AccountAt

(* The accounts follow the record that moves. *)
LEMMA AccountMoves ==
    ASSUME RouterTypes, NEW r \in Records, NEW q, MovesOne(r, q)
    PROVE  /\ AccountOf[r] = AccountAt(at[r])
           /\ AccountOf' = [AccountOf EXCEPT ![r] = AccountAt(q)]
  <1>1. \A x \in Records : at'[x] = IF x = r THEN q ELSE at[x]
    BY DEF RouterTypes, MovesOne
  <1>2. AccountOf' = [x \in Records |-> AccountAt(at'[x])]
    BY DEF AccountOf
  <1>3. AccountOf = [x \in Records |-> AccountAt(at[x])]
    BY DEF AccountOf
  <1>4. \A x \in Records : AccountAt(at'[x]) = IF x = r THEN AccountAt(q) ELSE AccountAt(at[x])
    BY <1>1
  <1>5. QED
    BY <1>2, <1>3, <1>4

(* A move within one account is no step of the ledger. *)
LEMMA AccountStays ==
    ASSUME RouterTypes, NEW r \in Records, NEW q, MovesOne(r, q),
           AccountAt(at[r]) = AccountAt(q)
    PROVE  AccountOf' = AccountOf
  <1>1. /\ AccountOf[r] = AccountAt(q)
        /\ AccountOf' = [AccountOf EXCEPT ![r] = AccountAt(q)]
    BY AccountMoves
  <1>2. AccountOf = [x \in Records |-> AccountAt(at[x])]
    BY DEF AccountOf
  <1>3. QED
    BY <1>1, <1>2

(* A record is admitted to the ledger. *)
LEMMA MoveAdmits ==
    ASSUME RouterTypes, NEW r \in Records, NEW q, MovesOne(r, q),
           AccountAt(at[r]) = "none", AccountAt(q) \in {"held", "lost"},
           unresolved' = [unresolved EXCEPT ![EventOf[r]] = @ + 1],
           rows' = rows, NotedEvents' = NotedEvents
    PROVE  Ledger!Next
  <1>1. Ledger!Admit(r)
    BY AccountMoves DEF Ledger!Admit
  <1>2. QED
    BY <1>1 DEF Ledger!Next

(* A record with no row becomes a loss of the ledger. *)
LEMMA MoveLoses ==
    ASSUME RouterTypes, NEW r \in Records, MovesOne(r, "lost"),
           AccountAt(at[r]) = "held", r \notin rows,
           unresolved' = unresolved, rows' = rows, NotedEvents' = NotedEvents
    PROVE  Ledger!Next
  <1>1. Ledger!Lose(r)
    BY AccountMoves, AccountTable DEF Ledger!Lose
  <1>2. QED
    BY <1>1 DEF Ledger!Next

(* Each step of the router is a step of the ledger, or none. *)
LEMMA LedgerStep ==
    ASSUME RouterInv, [Next]_vars
    PROVE  Ledger!Next \/ UNCHANGED Ledger!ledgerVars
  <1> USE DEF RouterInv, PlacesAgree
  <1>1. ASSUME NEW r \in Records, OfferOf(r)
        PROVE  Ledger!Next \/ UNCHANGED Ledger!ledgerVars
    <2>1. rows' = rows /\ NotedEvents' = NotedEvents /\ at[r] \in Early
      BY <1>1, OfferShape DEF NotedEvents
    <2>2. r \notin rows
      BY <2>1 DEF RowsAreWritten, Early
    <2>3. CASE OfferBegin(r)
      <3>1. /\ at[r] = "new" /\ MovesOne(r, "begun") /\ UNCHANGED unresolved
        BY <2>3 DEF OfferBegin, MovesOne
      <3>2. QED
        BY <2>1, <3>1, AccountStays, AccountTable DEF Ledger!ledgerVars
    <2>4. CASE OfferError(r) \/ OfferRefused(r)
      <3>1. /\ at[r] \in {"begun", "refused"} /\ MovesOne(r, "lost")
            /\ unresolved' = [unresolved EXCEPT ![EventOf[r]] = @ + 1]
        BY <2>4 DEF OfferError, OfferRefused, LoseUncounted, MovesOne
      <3>2. QED
        BY <2>1, <3>1, MoveAdmits, AccountTable
    <2>5. CASE OfferRoute(r)
      <3>1. CASE /\ at[r] = "begun" /\ MovesOne(r, "routed")
                 /\ unresolved' = [unresolved EXCEPT ![EventOf[r]] = @ + 1]
        BY <2>1, <3>1, MoveAdmits, AccountTable
      <3>2. CASE at[r] = "begun" /\ MovesOne(r, "refused") /\ UNCHANGED unresolved
        BY <2>1, <3>2, AccountStays, AccountTable DEF Ledger!ledgerVars
      <3>3. QED
        BY <2>5, <3>1, <3>2 DEF OfferRoute, MovesOne
    <2>6. CASE HandOff(r) \/ RunHandOff(r)
      <3>1. /\ at[r] \in {"routed", "handed"} /\ UNCHANGED unresolved
            /\ MovesOne(r, "handed") \/ MovesOne(r, "queued") \/ MovesOne(r, "lost")
        BY <2>6 DEF HandOff, RunHandOff, Accept, Lose, MovesOne
      <3>2. CASE MovesOne(r, "handed") \/ MovesOne(r, "queued")
        BY <2>1, <3>1, <3>2, AccountStays, AccountTable DEF Ledger!ledgerVars
      <3>3. CASE MovesOne(r, "lost")
        BY <2>1, <2>2, <3>1, <3>3, MoveLoses, AccountTable
      <3>4. QED
        BY <3>1, <3>2, <3>3
    <2>7. CASE OfferOnLoop(r)
      <3>1. /\ at[r] = "new" /\ (MovesOne(r, "queued") \/ MovesOne(r, "lost"))
            /\ unresolved' = [unresolved EXCEPT ![EventOf[r]] = @ + 1]
        BY <2>7 DEF OfferOnLoop, MovesOne
      <3>2. QED
        BY <2>1, <3>1, MoveAdmits, AccountTable
    <2>8. QED
      BY <1>1, <2>3, <2>4, <2>5, <2>6, <2>7 DEF OfferOf
  <1>2. ASSUME NEW b \in Binds, Take(b)
        PROVE  Ledger!Next \/ UNCHANGED Ledger!ledgerVars
    <2>1. /\ Head(queue[b]) \in Records /\ at[Head(queue[b])] = "queued"
          /\ MovesOne(Head(queue[b]), "writing")
      BY <1>2, WriterShape
    <2>2. UNCHANGED <<unresolved, rows, markers>>
      BY <1>2 DEF Take, logVars
    <2>3. NotedEvents' = NotedEvents
      BY <2>2 DEF NotedEvents
    <2>4. AccountOf' = AccountOf
      BY <2>1, AccountStays, AccountTable
    <2>5. QED
      BY <2>2, <2>3, <2>4 DEF Ledger!ledgerVars
  <1>3. ASSUME NEW b \in Binds, RowCommits(b)
        PROVE  Ledger!Next
    <2>1. held[b] \in Records /\ at[held[b]] = "writing"
      BY <1>3 DEF RowCommits, WritersHold
    <2>2. /\ rows' = rows \cup {held[b]}
          /\ UNCHANGED <<at, unresolved, markers>>
      BY <1>3 DEF RowCommits, lossVars
    <2>3. AccountOf[held[b]] = "held" /\ AccountOf' = AccountOf /\ NotedEvents' = NotedEvents
      BY <2>1, <2>2, AccountTable DEF AccountOf, NotedEvents
    <2>4. Ledger!Log(held[b])
      BY <2>2, <2>3 DEF Ledger!Log
    <2>5. QED
      BY <2>1, <2>4 DEF Ledger!Next
  <1>4. ASSUME NEW b \in Binds, RowWritten(b)
        PROVE  Ledger!Next
    <2>1. /\ held[b] \in Records /\ at[held[b]] = "writing" /\ held[b] \in rows
          /\ MovesOne(held[b], "written") /\ UNCHANGED <<rows, markers>>
      BY <1>4, WriterShape
    <2>2. unresolved' = [unresolved EXCEPT ![EventOf[held[b]]] = @ - 1]
      BY <1>4 DEF RowWritten
    <2>3. NotedEvents' = NotedEvents
      BY <2>1 DEF NotedEvents
    <2>4. /\ AccountOf[held[b]] = "held"
          /\ AccountOf' = [AccountOf EXCEPT ![held[b]] = "recorded"]
      BY <2>1, AccountMoves, AccountTable
    <2>5. Ledger!Resolve(held[b])
      BY <2>1, <2>2, <2>3, <2>4 DEF Ledger!Resolve
    <2>6. QED
      BY <2>1, <2>5 DEF Ledger!Next
  <1>5. ASSUME NEW b \in Binds, RowLost(b)
        PROVE  Ledger!Next
    <2>1. /\ held[b] \in Records /\ at[held[b]] = "writing" /\ held[b] \notin rows
          /\ MovesOne(held[b], "lost") /\ UNCHANGED <<rows, markers>>
      BY <1>5, WriterShape
    <2>2. unresolved' = unresolved
      BY <1>5 DEF RowLost, Lose
    <2>3. NotedEvents' = NotedEvents
      BY <2>1 DEF NotedEvents
    <2>4. QED
      BY <2>1, <2>2, <2>3, MoveLoses, AccountTable
  <1>6. ASSUME NEW b \in Binds, MarkerCommits(b)
        PROVE  Ledger!Next
    <2>1. PICK E \in SUBSET Events :
              /\ E \subseteq NamesOf(carry[b]) \/ E = Events
              /\ NotedEvents' = NotedEvents \cup E
      BY <1>6, MarkerAnswers
    <2>2. UNCHANGED <<at, unresolved, rows>> /\ AccountOf' = AccountOf
      BY <1>6 DEF MarkerCommits, lossVars, AccountOf
    <2> DEFINE losses == {EventOf[r] : r \in {x \in Records : AccountOf[x] = "lost"}}
    <2>3. NamesOf(carry[b]) \subseteq losses
      <3>1. carry[b] \subseteq {r \in Records : at[r] = "lost"}
        BY DEF LossesKept
      <3>2. \A r \in carry[b] : r \in Records /\ AccountOf[r] = "lost"
        BY <3>1, AccountTable DEF AccountOf
      <3>3. QED
        BY <3>2 DEF NamesOf
    <2>4. losses # {}
      <3>1. carry[b] # {}
        BY <1>6 DEF MarkerCommits, CarriersMark
      <3>2. NamesOf(carry[b]) # {}
        BY <3>1 DEF NamesOf
      <3>3. QED
        BY <2>3, <3>2
    <2>5. E \subseteq losses \/ E = Events
      BY <2>1, <2>3
    <2>6. Ledger!Note(E)
      BY <2>1, <2>2, <2>4, <2>5 DEF Ledger!Note
    <2>7. QED
      BY <2>1, <2>6 DEF Ledger!Next
  <1>7. ASSUME NEW b \in Binds, MarkerWritten(b)
        PROVE  Ledger!Next
    <2>1. /\ \A r \in carry[b] : r \in Records /\ at[r] = "lost"
          /\ at' = [r \in Records |-> IF r \in carry[b] THEN "marked" ELSE at[r]]
          /\ UNCHANGED <<rows, markers>>
      BY <1>7, WriterShape
    <2>2. /\ writer[b] = "marked"
          /\ unresolved' = [e \in Events |->
                 unresolved[e] - Cardinality({r \in carry[b] : EventOf[r] = e})]
      BY <1>7 DEF MarkerWritten
    <2>3. NotedEvents' = NotedEvents
      BY <2>1 DEF NotedEvents
    <2>4. \A r \in carry[b] : AccountOf[r] = "lost" /\ EventOf[r] \in NotedEvents
      BY <2>1, <2>2, AccountTable DEF AccountOf, MarksAreNoted
    <2>5. AccountOf' = [r \in Records |-> IF r \in carry[b] THEN "marked" ELSE AccountOf[r]]
      <3>1. \A r \in Records :
                AccountAt(at'[r]) = IF r \in carry[b] THEN "marked" ELSE AccountAt(at[r])
        BY <2>1, AccountTable
      <3>2. AccountOf' = [r \in Records |-> AccountAt(at'[r])]
        BY DEF AccountOf
      <3>3. QED
        BY <3>1, <3>2 DEF AccountOf
    <2>6. Ledger!Mark(carry[b])
      <3>1. \A e : Ledger!Count(carry[b], e) = Cardinality({r \in carry[b] : EventOf[r] = e})
        BY Zenon DEF Ledger!Count, Ledger!Cardinality, Cardinality
      <3>2. unresolved' = [e \in Events |-> unresolved[e] - Ledger!Count(carry[b], e)]
        BY <2>2, <3>1, Zenon
      <3>3. QED
        BY <2>1, <2>3, <2>4, <2>5, <3>2, Zenon DEF Ledger!Mark
    <2>7. carry[b] \in SUBSET {r \in Records : AccountOf[r] = "lost"}
      BY <2>1, <2>4
    <2>8. QED
      BY <2>6, <2>7 DEF Ledger!Next
  <1>8. ASSUME UNCHANGED <<at, unresolved, rows, markers>>
        PROVE  UNCHANGED Ledger!ledgerVars
    BY <1>8 DEF Ledger!ledgerVars, AccountOf, NotedEvents
  <1>9. ASSUME NEW b \in Binds, MarkerFails(b) \/ Unwind(b)
        PROVE  UNCHANGED Ledger!ledgerVars
    BY <1>8, <1>9 DEF MarkerFails, Unwind, logVars
  <1>10. CASE LifeStep \/ UNCHANGED vars
    BY <1>8, <1>10, LifeShape DEF lossVars
  <1>11. QED
    BY <1>1, <1>2, <1>3, <1>4, <1>5, <1>6, <1>7, <1>9, <1>10, StepKinds

(* A router where nothing was offered is an empty ledger. *)
LEMMA LedgerStarts ==
    ASSUME Init
    PROVE  Ledger!Init
  <1>1. AccountOf = [r \in Records |-> "none"]
    BY AccountTable DEF Init, AccountOf
  <1>2. NotedEvents = {}
    BY DEF Init, NotedEvents
  <1>3. QED
    BY <1>1, <1>2 DEF Init, Ledger!Init

(* The router implements the ledger: no record it owes is forgotten,       *)
(* resolved twice or without evidence, or lost once it has its row.        *)
THEOREM RouterKeepsLedger == Spec => KeepsLedger
  <1>1. Init => Ledger!Init
    BY LedgerStarts
  <1>2. RouterInv /\ [Next]_vars => [Ledger!Next]_(Ledger!ledgerVars)
    BY LedgerStep
  <1>3. QED
    BY <1>1, <1>2, RouterInvariant, PTL DEF Spec, KeepsLedger, Ledger!Spec
=============================================================================
