------------------------ MODULE DurableAnswerProofs ------------------------
(***************************************************************************)
(* Proof that an answer "not_recorded" is sound, for any routers, records, *)
(* events and scan bound.                                                  *)
(*                                                                         *)
(* Each query of durable_answer() sees the log at another moment, so what  *)
(* each of them showed must be something the router's further steps cannot *)
(* undo (the inductive invariant): rows are only added, a record that was  *)
(* resolved stays resolved, and a marker stays in the log.                 *)
(***************************************************************************)
EXTENDS DurableAnswer, DurableEventsProofs

Asking == {"rows", "rowsRead", "markers", "markersRead"}
Answers == {"none", "recorded", "unknown_pending", "unknown_dropped", "not_recorded",
            "unavailable"}

AskTypeOK ==
    ask \in [pc : Asking \cup {"done"}, event : Events, hit : BOOLEAN, named : BOOLEAN,
             full : BOOLEAN, answer : Answers, known : SUBSET Records,
             landed : SUBSET Records, steady : BOOLEAN]

(* What was known is of the event and stays admitted; what had landed      *)
(* stays; a steady question's log is open.                                 *)
KnownStays ==
    /\ ask.landed \subseteq rows
    /\ \A r \in ask.known :
           EventOf[r] = ask.event /\ at[r] \in HeldPlaces \cup {"written", "marked"}
    /\ ask.landed \subseteq RecordsOf(ask.event)
    /\ ask.pc \in Asking /\ ask.steady => open

(* No row was there when the row query found none. *)
RowsSeen ==
    ask.steady =>
        /\ ask.pc = "rowsRead" /\ ~ask.hit => ask.landed = {}
        /\ ask.pc \in {"markers", "markersRead"} => ask.landed = {}

(* Nothing known was held when the router answered zero. *)
PendingSeen ==
    ask.pc \in {"markers", "markersRead"} =>
        \A r \in ask.known : at[r] \in {"written", "marked"}

(* No marker answered for what was known when the markers were read. *)
MarkersSeen ==
    ask.pc = "markersRead" /\ ask.steady /\ ~ask.named /\ ~ask.full => ask.known \subseteq rows

AskInv == AskTypeOK /\ KnownStays /\ RowsSeen /\ PendingSeen /\ MarkersSeen
-----------------------------------------------------------------------------
(* The router beneath the question. *)

(* A step of the asked router is a step of the router, or none of it. *)
THEOREM AskedRouterIsRouter == AnswerSpec => Spec
  <1>1. AnswerInit => Init
    BY DEF AnswerInit
  <1>2. [AnswerNext]_allVars => [Next]_vars
    BY DEF AnswerNext, AskStep, RouterStep, AskStart, AskRows, AskPending, AskMarkers,
           AskConclude, AskFails, allVars
  <1>3. QED
    BY <1>1, <1>2, PTL DEF AnswerSpec, Spec


(* What the router's steps cannot undo: a row that is there, a record that *)
(* was admitted, a record that was resolved.                               *)
LEMMA RouterGoesOn ==
    ASSUME RouterInv, [Next]_vars
    PROVE  /\ rows \subseteq rows'
           /\ \A r \in Records :
                 /\ at[r] \in HeldPlaces \cup {"written", "marked"} =>
                        at'[r] \in HeldPlaces \cup {"written", "marked"}
                 /\ at[r] \in {"written", "marked"} => at'[r] \in {"written", "marked"}
  <1> DEFINE Kept(r) ==
                 /\ at[r] \in HeldPlaces \cup {"written", "marked"} =>
                        at'[r] \in HeldPlaces \cup {"written", "marked"}
                 /\ at[r] \in {"written", "marked"} => at'[r] \in {"written", "marked"}
  <1> USE DEF RouterInv, PlacesAgree, HeldPlaces
  <1>1. ASSUME NEW x \in Records, NEW q, MovesOne(x, q),
               at[x] \notin {"written", "marked"},
               \/ at[x] \in {"new", "begun", "refused"}
               \/ q \in HeldPlaces \cup {"written", "marked"},
               NEW r \in Records
        PROVE  Kept(r)
    BY <1>1 DEF MovesOne, RouterTypes
  <1>2. ASSUME NEW x \in Records, OfferOf(x)
        PROVE  rows \subseteq rows' /\ \A r \in Records : Kept(r)
    <2>1. rows' = rows
      BY <1>2, OfferShape
    <2>2. CASE OfferBegin(x) \/ OfferError(x) \/ OfferRoute(x) \/ OfferRefused(x)
      <3>1. /\ at[x] \in {"new", "begun", "refused"}
            /\ \E q : MovesOne(x, q)
        BY <2>2 DEF OfferBegin, OfferError, OfferRoute, OfferRefused, LoseUncounted, MovesOne
      <3>2. QED
        BY <2>1, <3>1, <1>1
    <2>3. CASE HandOff(x) \/ RunHandOff(x) \/ OfferOnLoop(x)
      <3>1. /\ at[x] \in {"routed", "handed", "new"}
            /\ MovesOne(x, "handed") \/ MovesOne(x, "queued") \/ MovesOne(x, "lost")
        BY <2>3 DEF HandOff, RunHandOff, Accept, OfferOnLoop, Lose, MovesOne
      <3>2. QED
        BY <2>1, <3>1, <1>1
    <2>4. QED
      BY <1>2, <2>2, <2>3 DEF OfferOf
  <1>3. ASSUME NEW b \in Binds, Take(b)
        PROVE  rows \subseteq rows' /\ \A r \in Records : Kept(r)
    <2>1. /\ Head(queue[b]) \in Records /\ at[Head(queue[b])] = "queued" /\ rows' = rows
          /\ MovesOne(Head(queue[b]), "writing")
      BY <1>3, WriterShape
    <2>2. QED
      BY <2>1, <1>1
  <1>4. ASSUME NEW b \in Binds, RowWritten(b) \/ RowLost(b)
        PROVE  rows \subseteq rows' /\ \A r \in Records : Kept(r)
    <2>1. /\ held[b] \in Records /\ at[held[b]] = "writing" /\ rows' = rows
          /\ MovesOne(held[b], "written") \/ MovesOne(held[b], "lost")
      BY <1>4, WriterShape
    <2>2. QED
      BY <2>1, <1>1
  <1>5. ASSUME NEW b \in Binds, MarkerWritten(b)
        PROVE  rows \subseteq rows' /\ \A r \in Records : Kept(r)
    BY <1>5, WriterShape
  <1>6. ASSUME NEW b \in Binds,
               RowCommits(b) \/ MarkerCommits(b) \/ MarkerFails(b) \/ Unwind(b)
        PROVE  rows \subseteq rows' /\ \A r \in Records : Kept(r)
    BY <1>6 DEF RowCommits, MarkerCommits, MarkerFails, Unwind, lossVars, logVars
  <1>7. CASE LifeStep \/ UNCHANGED vars
    BY <1>7, LifeShape DEF lossVars
  <1>8. QED
    BY <1>2, <1>3, <1>4, <1>5, <1>6, <1>7, StepKinds

(* A scan that is not full read every marker there is. *)
LEMMA ScanIsWhole ==
    ASSUME RouterTypes, open,
           Cardinality({k \in 1..Len(markers) : open /\ k > Len(markers) - MarkerScan}) < MarkerScan
    PROVE  \A k \in 1..Len(markers) : k > Len(markers) - MarkerScan
  <1> DEFINE n == Len(markers)
             read == {k \in 1..n : open /\ k > n - MarkerScan}
  <1>1. n \in Nat /\ MarkerScan \in Nat \ {0}
    BY ScanAssumption DEF RouterTypes
  <1> HIDE DEF n
  <1>2. CASE n <= MarkerScan
    <2>1. \A k \in 1..n : k > n - MarkerScan
      BY <1>1, <1>2
    <2>2. QED
      BY <2>1 DEF n
  <1>3. CASE n > MarkerScan
    <2>1. read = (n - MarkerScan + 1)..n
      BY <1>1, <1>3
    <2>2. n - MarkerScan + 1 \in Int /\ n \in Int
      BY <1>1
    <2>3. Cardinality((n - MarkerScan + 1)..n) = MarkerScan
      <3>1. Cardinality((n - MarkerScan + 1)..n) =
                IF n - MarkerScan + 1 > n THEN 0 ELSE n - (n - MarkerScan + 1) + 1
        BY <2>2, FS_Interval
      <3>2. QED
        BY <1>1, <3>1
    <2>4. Cardinality(read) = MarkerScan
      BY <2>1, <2>3, Zenon
    <2>5. QED
      BY <1>1, <2>4 DEF n
  <1>4. QED
    BY <1>1, <1>2, <1>3
-----------------------------------------------------------------------------
(* The invariant of a question. *)

(* Once a question is answered, nothing of it is kept but the answer. *)
LEMMA RestIsQuiet ==
    ASSUME NEW e \in Events, NEW a \in Answers, ask' = Rest(e, a)
    PROVE  AskInv'
  <1>1. /\ ask'.pc = "done" /\ ask'.known = {} /\ ask'.landed = {} /\ ask'.event = e
        /\ AskTypeOK'
    BY DEF Rest, AskTypeOK
  <1>2. QED
    BY <1>1 DEF AskInv, KnownStays, RowsSeen, PendingSeen, MarkersSeen, Asking


(* Each step of the asker keeps the invariant. *)
LEMMA AskStepKeeps ==
    ASSUME RouterInv, AskInv, AskStep
    PROVE  AskInv'
  <1> USE DEF AskInv
  <1>0. /\ ask.pc \in Asking \cup {"done"} /\ ask.event \in Events
        /\ ask.known \in SUBSET Records /\ ask.landed \in SUBSET Records
        /\ ask.hit \in BOOLEAN /\ ask.named \in BOOLEAN /\ ask.full \in BOOLEAN
        /\ ask.steady \in BOOLEAN /\ ask.answer \in Answers
    BY DEF AskTypeOK
  <1>1. ASSUME NEW e \in Events, AskStart(e)
        PROVE  AskInv'
    <2>1. CASE ~open
      BY <1>1, <2>1, RestIsQuiet DEF AskStart, Answers
    <2>2. CASE open
      <3> DEFINE K == Admitted(e)
                 L == rows \cap RecordsOf(e)
      <3>1. /\ K \in SUBSET Records /\ L \in SUBSET Records /\ L \subseteq rows
            /\ L \subseteq RecordsOf(e)
            /\ \A r \in K : EventOf[r] = e /\ at[r] \in HeldPlaces \cup {"written", "marked"}
        BY DEF Admitted, RecordsOf
      <3> HIDE DEF K, L
      <3>2. ask' = [pc |-> "rows", event |-> e, hit |-> FALSE, named |-> FALSE, full |-> FALSE,
                    answer |-> "none", known |-> K, landed |-> L, steady |-> TRUE]
        BY <1>1, <2>2 DEF AskStart, Rest, K, L
      <3>3. UNCHANGED <<rows, at, open>>
        BY <1>1 DEF AskStart, vars
      <3>4. AskTypeOK'
        BY <3>1, <3>2 DEF AskTypeOK, Asking, Answers
      <3>5. KnownStays'
        BY <2>2, <3>1, <3>2, <3>3 DEF KnownStays
      <3>6. QED
        BY <3>2, <3>4, <3>5 DEF RowsSeen, PendingSeen, MarkersSeen
    <2>3. QED
      BY <2>1, <2>2
  <1>2. CASE AskRows
    <2>1. ask' = [ask EXCEPT !.pc = "rowsRead",
                             !.hit = open /\ rows \cap RecordsOf(ask.event) # {}]
      BY <1>2 DEF AskRows
    <2>2. /\ ask.pc = "rows" /\ ask'.pc = "rowsRead" /\ ask'.event = ask.event
          /\ ask'.known = ask.known /\ ask'.landed = ask.landed
          /\ ask'.steady = ask.steady
          /\ ask'.hit = (open /\ rows \cap RecordsOf(ask.event) # {})
      BY <1>2, <2>1 DEF AskRows, AskTypeOK
    <2>3. AskTypeOK'
      BY <2>1 DEF AskTypeOK, Asking
    <2>4. UNCHANGED <<rows, at, open>>
      BY <1>2 DEF AskRows, vars
    <2>5. KnownStays'
      BY <2>2, <2>4 DEF KnownStays, Asking
    <2>6. RowsSeen'
      BY <2>2, <2>4 DEF RowsSeen, KnownStays, Asking
    <2>7. QED
      BY <2>2, <2>3, <2>5, <2>6 DEF PendingSeen, MarkersSeen
  <1>3. CASE AskPending
    <2>1. CASE \E a \in Answers : ask' = Rest(ask.event, a)
      BY <1>0, <2>1, RestIsQuiet
    <2>2. CASE /\ ask.pc = "rowsRead" /\ ~ask.hit /\ unresolved[ask.event] = 0
               /\ ask' = [ask EXCEPT !.pc = "markers"] /\ UNCHANGED vars
      <3>1. /\ ask'.pc = "markers" /\ ask'.event = ask.event
            /\ ask'.known = ask.known /\ ask'.landed = ask.landed
            /\ ask'.steady = ask.steady
        BY <2>2 DEF AskTypeOK
      <3>2. AskTypeOK'
        BY <2>2 DEF AskTypeOK, Asking
      <3>3. UNCHANGED <<rows, at, open>>
        BY <2>2 DEF vars
      <3>4. KnownStays'
        BY <2>2, <3>1, <3>3 DEF KnownStays, Asking
      <3>5. RowsSeen'
        BY <2>2, <3>1 DEF RowsSeen
      <3>6. HeldOf(ask.event) = {}
        BY <1>0, <2>2, CounterIsCount
      <3>7. \A r \in ask.known : at[r] \notin HeldPlaces
        BY <1>0, <3>6 DEF KnownStays, HeldOf
      <3>8. \A r \in ask.known : at[r] \in {"written", "marked"}
        BY <3>7 DEF KnownStays
      <3>9. PendingSeen'
        BY <3>1, <3>3, <3>8 DEF PendingSeen
      <3>10. QED
        BY <3>1, <3>2, <3>4, <3>5, <3>9 DEF MarkersSeen
    <2>3. QED
      BY <1>3, <2>1, <2>2 DEF AskPending, Answered, Answers
  <1>4. CASE AskMarkers
    <2> DEFINE read == {k \in 1..Len(markers) : open /\ k > Len(markers) - MarkerScan}
               name == \E k \in read : ask.event \in markers[k].names \/ markers[k].other
    <2>1. ask' = [ask EXCEPT !.pc = "markersRead", !.named = name,
                             !.full = Cardinality(read) >= MarkerScan]
      BY <1>4 DEF AskMarkers
    <2>2. /\ ask.pc = "markers" /\ ask'.pc = "markersRead" /\ ask'.event = ask.event
          /\ ask'.known = ask.known /\ ask'.landed = ask.landed
          /\ ask'.steady = ask.steady
      BY <1>4 DEF AskMarkers, AskTypeOK
    <2>3. ask'.named = name /\ ask'.full = (Cardinality(read) >= MarkerScan)
      BY <2>1 DEF AskTypeOK
    <2>4. AskTypeOK'
      <3>1. name \in BOOLEAN /\ (Cardinality(read) >= MarkerScan) \in BOOLEAN
        OBVIOUS
      <3> HIDE DEF name, read
      <3>2. QED
        BY <2>1, <3>1 DEF AskTypeOK, Asking
    <2>5. UNCHANGED <<rows, at, open>>
      BY <1>4 DEF AskMarkers, vars
    <2>6. KnownStays' /\ RowsSeen' /\ PendingSeen'
      BY <2>2, <2>5 DEF KnownStays, RowsSeen, PendingSeen, Asking
    <2>7. MarkersSeen'
      <3>1. SUFFICES ASSUME ask.steady, ~name, ~(Cardinality(read) >= MarkerScan)
                     PROVE  ask.known \subseteq rows
        BY <2>2, <2>3, <2>5 DEF MarkersSeen
      <3>2. open
        BY <2>2, <3>1 DEF KnownStays, Asking
      <3>3. Cardinality(read) \in Nat /\ MarkerScan \in Nat
        <4>1. read \in SUBSET (1..Len(markers)) /\ Len(markers) \in Nat
          BY DEF RouterInv, RouterTypes
        <4>2. IsFiniteSet(1..Len(markers))
          BY <4>1, FS_Interval
        <4>3. IsFiniteSet(read)
          BY <4>1, <4>2, FS_Subset
        <4>4. QED
          BY <4>3, FS_CardinalityType, ScanAssumption
      <3>4. Cardinality(read) < MarkerScan
        BY <3>1, <3>3
      <3>5. \A k \in 1..Len(markers) : k > Len(markers) - MarkerScan
        BY <3>2, <3>4, ScanIsWhole DEF RouterInv
      <3>6. ask.event \notin NotedEvents
        BY <3>1, <3>2, <3>5 DEF NotedEvents
      <3>7. \A r \in ask.known : EventOf[r] = ask.event /\ at[r] \in {"written", "marked"}
        BY <2>2 DEF KnownStays, PendingSeen
      <3>8. \A r \in ask.known : r \in Records /\ at[r] = "written"
        BY <1>0, <3>6, <3>7 DEF RouterInv, PlacesAgree, MarksAreNoted
      <3>9. QED
        BY <3>8 DEF RouterInv, PlacesAgree, RowsAreWritten
    <2>8. QED
      BY <2>4, <2>6, <2>7
  <1>5. CASE AskConclude
    <2>1. \E a \in Answers : ask' = Rest(ask.event, a)
      BY <1>5 DEF AskConclude, Answered, Answers
    <2>2. QED
      BY <1>0, <2>1, RestIsQuiet
  <1>6. CASE AskFails
    <2>1. \E a \in Answers : ask' = Rest(ask.event, a)
      BY <1>6 DEF AskFails, Answered, Answers
    <2>2. QED
      BY <1>0, <2>1, RestIsQuiet
  <1>7. QED
    BY <1>1, <1>2, <1>3, <1>4, <1>5, <1>6 DEF AskStep


(* The router's steps undo nothing that a query has shown. *)
LEMMA RouterLeavesAnswers ==
    ASSUME RouterInv, AskInv, RouterInv', RouterStep \/ UNCHANGED allVars
    PROVE  AskInv'
  <1> USE DEF AskInv
  <1>1. CASE UNCHANGED allVars
    <2>1. UNCHANGED <<ask, rows, at, open>>
      BY <1>1 DEF allVars, vars
    <2>2. QED
      BY <2>1 DEF AskTypeOK, KnownStays, RowsSeen, PendingSeen, MarkersSeen
  <1>2. CASE RouterStep
    <2>1. /\ rows \subseteq rows'
          /\ \A r \in Records :
                /\ at[r] \in HeldPlaces \cup {"written", "marked"} =>
                       at'[r] \in HeldPlaces \cup {"written", "marked"}
                /\ at[r] \in {"written", "marked"} => at'[r] \in {"written", "marked"}
      BY <1>2, RouterGoesOn DEF RouterStep
    <2>2. ask' = [ask EXCEPT !.steady = @ /\ (ask.pc = "done" \/ open')]
      BY <1>2 DEF RouterStep
    <2>3. /\ ask'.pc = ask.pc /\ ask'.event = ask.event /\ ask'.hit = ask.hit
          /\ ask'.named = ask.named /\ ask'.full = ask.full
          /\ ask'.known = ask.known /\ ask'.landed = ask.landed
          /\ ask'.steady = (ask.steady /\ (ask.pc = "done" \/ open'))
          /\ ask.known \in SUBSET Records
      BY <2>2 DEF AskTypeOK
    <2>4. AskTypeOK'
      <3>1. (ask.steady /\ (ask.pc = "done" \/ open')) \in BOOLEAN
        OBVIOUS
      <3>2. QED
        BY <2>2, <3>1 DEF AskTypeOK
    <2>5. KnownStays'
      BY <2>1, <2>3 DEF KnownStays, Asking
    <2>6. RowsSeen' /\ PendingSeen'
      BY <2>1, <2>3 DEF RowsSeen, PendingSeen
    <2>7. MarkersSeen'
      BY <2>1, <2>3 DEF MarkersSeen
    <2>8. QED
      BY <2>4, <2>5, <2>6, <2>7
  <1>3. QED
    BY <1>1, <1>2

(* What the queries have shown stays true until the answer. *)
THEOREM QuestionInvariant == AnswerSpec => []AskInv
  <1>1. AnswerInit => AskInv
    BY DEF AnswerInit, Rest, AskInv, AskTypeOK, KnownStays, RowsSeen, PendingSeen,
           MarkersSeen, Asking, Answers
  <1>2. RouterInv /\ RouterInv' /\ AskInv /\ [AnswerNext]_allVars => AskInv'
    BY AskStepKeeps, RouterLeavesAnswers DEF AnswerNext
  <1>3. AnswerSpec => []RouterInv
    BY AskedRouterIsRouter, RouterInvariant, PTL
  <1>4. QED
    BY <1>1, <1>2, <1>3, PTL DEF AnswerSpec

AbsenceSound == AbsenceConcluded => ask.landed = {} /\ ask.known \subseteq rows

(* Only the last step of a question answers it.                            *)
LEMMA AbsenceStep ==
    ASSUME AskInv, [AnswerNext]_allVars
    PROVE  AbsenceSound
  <1> SUFFICES ASSUME AbsenceConcluded
               PROVE  ask.landed = {} /\ ask.known \subseteq rows
    BY DEF AbsenceSound
  <1> USE DEF AskInv
  <1>1. ask.pc = "markersRead" /\ ask.steady /\ ask'.pc = "done" /\ ask'.answer = "not_recorded"
    BY DEF AbsenceConcluded
  <1>2. ask.landed = {}
    BY <1>1 DEF RowsSeen
  <1>3. AskConclude \/ AskFails
    <2>1. ~UNCHANGED allVars
      BY <1>1 DEF allVars
    <2>2. ~RouterStep
      BY <1>1 DEF RouterStep, AskTypeOK
    <2>3. AskStep
      BY <2>1, <2>2 DEF AnswerNext
    <2>4. QED
      BY <1>1, <2>3 DEF AskStep, AskStart, AskRows, AskPending, AskMarkers
  <1>4. ~AskFails
    BY <1>1 DEF AskFails, Answered, Rest
  <1>5. ~ask.named /\ ~ask.full
    BY <1>1, <1>3, <1>4 DEF AskConclude, Answered, Rest
  <1>6. QED
    BY <1>1, <1>2, <1>5 DEF MarkersSeen

(* "not_recorded" hides no loss, and no row that was there when the        *)
(* question was put, whatever the router does between the queries.         *)
THEOREM AbsenceTheorem == AnswerSpec => AbsenceIsSound
  <1>1. AskInv /\ [AnswerNext]_allVars => [AbsenceSound]_allVars
    BY AbsenceStep
  <1>2. QED
    BY <1>1, QuestionInvariant, PTL DEF AnswerSpec, AbsenceIsSound, AbsenceSound
=============================================================================
