---------------------------- MODULE RecordLedger ---------------------------
(***************************************************************************)
(* What the durable event router promises a reader of events.db, whatever  *)
(* threads, queues, writers, drains and bindings it is built from          *)
(* (unresolved() in src/probos/substrate/durable_events.py): a record is   *)
(* owed from its admission or refusal until its row, or a committed marker *)
(* for its loss, stands in the log.  A record is never recorded and lost,  *)
(* and what was resolved is never owed again.                              *)
(***************************************************************************)
EXTENDS Naturals, FiniteSets

CONSTANTS Records, Events, EventOf

VARIABLES
    account,   \* [Records -> Account]
    owed,      \* [Events -> Nat]: what unresolved() answers
    logged,    \* SUBSET Records: committed rows
    noted      \* SUBSET Events: events some committed marker answers for

ledgerVars == <<account, owed, logged, noted>>

Account == {"none", "held", "lost", "recorded", "marked"}

Count(S, e) == Cardinality({r \in S : EventOf[r] = e})

Init ==
    /\ account = [r \in Records |-> "none"]
    /\ owed = [e \in Events |-> 0]
    /\ logged = {} /\ noted = {}

\* The record is owed from now on: on its way, or refused at once.
Admit(r) ==
    /\ account[r] = "none"
    /\ \E a \in {"held", "lost"} : account' = [account EXCEPT ![r] = a]
    /\ owed' = [owed EXCEPT ![EventOf[r]] = @ + 1]
    /\ UNCHANGED <<logged, noted>>

Log(r) ==
    /\ account[r] = "held"
    /\ logged' = logged \cup {r}
    /\ UNCHANGED <<account, owed, noted>>

\* Only a record with no row is a loss; it stays owed.
Lose(r) ==
    /\ account[r] = "held" /\ r \notin logged
    /\ account' = [account EXCEPT ![r] = "lost"]
    /\ UNCHANGED <<owed, logged, noted>>

Resolve(r) ==
    /\ account[r] = "held" /\ r \in logged
    /\ account' = [account EXCEPT ![r] = "recorded"]
    /\ owed' = [owed EXCEPT ![EventOf[r]] = @ - 1]
    /\ UNCHANGED <<logged, noted>>

\* A marker answers for events that have losses, or for every event.
Note(E) ==
    LET losses == {EventOf[r] : r \in {x \in Records : account[x] = "lost"}} IN
    /\ losses # {} /\ (E \subseteq losses \/ E = Events)
    /\ noted' = noted \cup E
    /\ UNCHANGED <<account, owed, logged>>

\* Losses that markers answer for are owed no longer, each once.
Mark(S) ==
    /\ \A r \in S : account[r] = "lost" /\ EventOf[r] \in noted
    /\ account' = [r \in Records |-> IF r \in S THEN "marked" ELSE account[r]]
    /\ owed' = [e \in Events |-> owed[e] - Count(S, e)]
    /\ UNCHANGED <<logged, noted>>

Next ==
    \/ \E r \in Records : Admit(r) \/ Log(r) \/ Lose(r) \/ Resolve(r)
    \/ \E E \in SUBSET Events : Note(E)
    \/ \E S \in SUBSET {r \in Records : account[r] = "lost"} : Mark(S)

Spec == Init /\ [][Next]_ledgerVars
=============================================================================
