--------------------------- MODULE DurableAnswer ---------------------------
(***************************************************************************)
(* durable_answer() (src/probos/substrate/durable_events.py) asked on the  *)
(* running router's loop while the router goes on: whether events.db holds *)
(* a record of a routed event.                                             *)
(*                                                                         *)
(* Each query's SELECT sees the rows there are when the database's thread  *)
(* executes it; fetching and closing the cursor are further turns of that  *)
(* thread, so the writer may commit and resume before the asker does.      *)
(* Only what the answer is made of is kept of a query's result.            *)
(* Retention is left out: nothing is pruned.                               *)
(***************************************************************************)
EXTENDS DurableEvents

CONSTANT MarkerScan     \* _MARKER_SCAN: how many of the newest markers are read

ASSUME ScanAssumption == MarkerScan \in Nat \ {0}

VARIABLE
    ask     \* the question being answered, and its answer once "done"

\* ask is a record:
\*   pc     "rows", "rowsRead", "markers", "markersRead" or "done";
\*   event  the event asked about;
\*   hit    the row query returned a row;
\*   named  a marker read names the event or "_other";
\*   full   the marker query returned MarkerScan rows;
\*   answer an AnswerStatus, "none" when nothing was asked, "unavailable";
\* and, for the properties only, as of the question:
\*   known  the event's records admitted or counted lost;
\*   landed those with a committed row;
\*   steady the log has been open ever since.

allVars == <<vars, ask>>

\* No query is under way, and nothing of one is kept but the answer.
Rest(e, a) ==
    [pc |-> "done", event |-> e, hit |-> FALSE, named |-> FALSE, full |-> FALSE,
     answer |-> a, known |-> {}, landed |-> {}, steady |-> TRUE]

AnswerInit == Init /\ \E e \in Events : ask = Rest(e, "none")

-----------------------------------------------------------------------------
Admitted(e) == {r \in RecordsOf(e) : at[r] \in HeldPlaces \cup {"written", "marked"}}

AskStart(e) ==
    /\ ask.pc = "done"
    /\ ask' = IF ~open THEN Rest(e, "unavailable")
              ELSE [Rest(e, "none") EXCEPT !.pc = "rows", !.known = Admitted(e),
                                           !.landed = rows \cap RecordsOf(e)]
    /\ UNCHANGED vars

\* query_structured: empty when the log is closed.
AskRows ==
    /\ ask.pc = "rows"
    /\ ask' = [ask EXCEPT !.pc = "rowsRead",
                          !.hit = open /\ rows \cap RecordsOf(ask.event) # {}]
    /\ UNCHANGED vars

Answered(a) == ask' = Rest(ask.event, a)

\* A slip: what the router still holds is not asked.
AskPendingSkipped ==
    /\ ask.pc = "rowsRead"
    /\ IF ask.hit THEN Answered("recorded") ELSE ask' = [ask EXCEPT !.pc = "markers"]
    /\ UNCHANGED vars

AskPending ==
    /\ ask.pc = "rowsRead"
    /\ \/ ask.hit /\ Answered("recorded")
       \/ ~ask.hit /\ unresolved[ask.event] > 0 /\ Answered("unknown_pending")
       \/ ~ask.hit /\ unresolved[ask.event] = 0 /\ ask' = [ask EXCEPT !.pc = "markers"]
    /\ UNCHANGED vars

\* The newest MarkerScan markers.
AskMarkers ==
    LET read == {k \in 1..Len(markers) : open /\ k > Len(markers) - MarkerScan} IN
    /\ ask.pc = "markers"
    /\ ask' = [ask EXCEPT !.pc = "markersRead",
                  !.named = \E k \in read : ask.event \in markers[k].names \/ markers[k].other,
                  !.full = Cardinality(read) >= MarkerScan]
    /\ UNCHANGED vars

AskConclude ==
    /\ ask.pc = "markersRead"
    /\ Answered(IF ask.named \/ ask.full THEN "unknown_dropped"
                ELSE IF open THEN "not_recorded" ELSE "unavailable")
    /\ UNCHANGED vars

\* A query over a connection that closed under it raises to the caller.
AskFails ==
    /\ ask.pc \in {"rowsRead", "markersRead"} /\ ~open
    /\ Answered("none")
    /\ UNCHANGED vars

AskStep ==
    \/ \E e \in Events : AskStart(e)
    \/ AskRows \/ AskPending \/ AskMarkers \/ AskConclude \/ AskFails

\* The router's own steps; the question only remembers that the log closed.
RouterStep == Next /\ ask' = [ask EXCEPT !.steady = @ /\ (ask.pc = "done" \/ open')]

AnswerNext == AskStep \/ RouterStep

AnswerSpec == AnswerInit /\ [][AnswerNext]_allVars

-----------------------------------------------------------------------------
\* The step that concludes "not_recorded" over a log open all along.
AbsenceConcluded ==
    ask.pc = "markersRead" /\ ask.steady /\ ask'.pc = "done" /\ ask'.answer = "not_recorded"

(* An answer "not_recorded" never hides a loss, nor a row that was there   *)
(* when the question was put: while the log stays open, a record admitted  *)
(* by then can only be one whose row landed during the question.           *)
AbsenceIsSound ==
    [][AbsenceConcluded => ask.landed = {} /\ ask.known \subseteq rows]_allVars

(* durable_answer's docstring: "not_recorded" means no row and nothing     *)
(* unresolved, "evidence of absence".  So no record the router had         *)
(* admitted when the question was put can be in events.db when it is       *)
(* answered so.                                                            *)
NotRecordedMeansAbsent ==
    [][AbsenceConcluded => ask.known \cap rows = {}]_allVars

=============================================================================
