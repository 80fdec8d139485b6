------------------------------ MODULE Tickets ------------------------------
(***************************************************************************)
(* The registry of work tickets (src/probos/admission/tickets.py): the     *)
(* capability a unit of admitted work carries, handed on to child work no  *)
(* wider, and asked about at every effect point.  The registry awaits      *)
(* nothing, so each of its calls is one step.  Entries are dropped oldest  *)
(* first, and the descendants a revocation reaches are found through an    *)
(* index that is dropped with them: what is hard is that neither cuts a    *)
(* ticket off from the ancestor whose end must be its end.                 *)
(*                                                                         *)
(* A ticket is its place in the order of issue (ids are random and never   *)
(* used again), a time a number of ticks.  The two ceilings of a budget    *)
(* are compared alike and are one here; the findings, their texts and      *)
(* their tally, the work kind and the seam are left out.                   *)
(***************************************************************************)
EXTENDS Integers, FiniteSets

CONSTANTS
    MaxIssued,    \* bound: tickets issued while the registry lives
    MaxRoots,     \* bound: how many of them are for work that has no parent
    MaxTickets,   \* MAX_TICKETS
    MaxDepth,     \* max_depth
    TTL, Retain,  \* ttl_seconds, retain_seconds
    MaxTime,      \* bound: the ticks of the clock
    Principals,   \* the principals tickets are issued to, and the Captain stops
    Effects,      \* TICKET_EFFECTS
    Asks,         \* what the work of each principal asks for: scopes with ceilings
    Unbounded     \* no ceiling

ASSUME TicketAssumption ==
    /\ MaxIssued \in Nat /\ MaxRoots \in Nat /\ MaxTickets \in Nat
    /\ MaxDepth \in Nat /\ MaxTime \in Nat
    /\ TTL \in Nat \ {0} /\ Retain \in Nat \ {0}
    /\ \A p \in Principals :
          Asks[p] \subseteq [scope : SUBSET Effects, ceiling : Nat \cup {Unbounded}]
    /\ Unbounded \notin Nat

Ids == 1..MaxIssued
None == 0         \* no parent
Never == -1       \* not revoked

VARIABLES
    now,       \* the registry's clock
    issued,    \* how many tickets have been issued
    entries,   \* SUBSET Ids: the ids registered, _entries and _order
    entry,     \* [Ids -> Entry]: an entry, which stays as it was when it is dropped
    children,  \* [Ids -> SUBSET Ids]: _children
    stopped,   \* SUBSET Principals: who is under a Captain's stop
    expiry     \* ghost, [Ids -> Nat]: when the ticket was to expire as it was issued

vars == <<now, issued, entries, entry, children, stopped, expiry>>

Entry == [principal : Principals \cup {"nobody"}, scope : SUBSET Effects,
          ceiling :
            (UNION {{ask.ceiling : ask \in Asks[p]} : p \in Principals}) \cup {Unbounded},
          parent : Ids \cup {None}, depth : 0..MaxDepth,
          expires : 0..(MaxTime + TTL), revoked : 0..MaxTime \cup {Never}]
NoEntry == [principal |-> "nobody", scope |-> {}, ceiling |-> Unbounded, parent |-> None,
            depth |-> 0, expires |-> 0, revoked |-> Never]

TicketTypeOK ==
    /\ now \in 0..MaxTime /\ issued \in 0..MaxIssued
    /\ entries \subseteq 1..issued /\ Cardinality(entries) <= MaxTickets
    /\ entry \in [Ids -> Entry]
    /\ children \in [Ids -> SUBSET Ids]
    /\ stopped \subseteq Principals
    /\ expiry \in [Ids -> 0..(MaxTime + TTL)]

Init ==
    /\ now = 0 /\ issued = 0 /\ entries = {}
    /\ entry = [t \in Ids |-> NoEntry]
    /\ children = [t \in Ids |-> {}]
    /\ stopped = {}
    /\ expiry = [t \in Ids |-> 0]

-----------------------------------------------------------------------------
(* Lineage.  What is reached from a ticket, itself included, is in every   *)
(* set that holds it and holds the next of each it holds.                  *)

\* Upwards, as _liveness walks: from an entry to its parent while registered.
Above(t) ==
    {p \in entries : \A S \in SUBSET entries :
        t \in S /\ (\A c \in S : entry[c].parent \in entries => entry[c].parent \in S) => p \in S}
\* Downwards, as _revoke_tree walks: the index of each registered id.
Below(t) ==
    {c \in entries : \A S \in SUBSET entries :
        t \in S /\ (\A p \in S : children[p] \cap entries \subseteq S) => c \in S}

\* The true ancestors of a ticket, the dropped ones included.
Ancestors(t) ==
    {p \in 1..issued : p # t /\ \A S \in SUBSET (1..issued) :
        t \in S /\ (\A c \in S : entry[c].parent # None => entry[c].parent \in S) => p \in S}

Revoked(t) == entry[t].revoked # Never
Expired(t) == now >= entry[t].expires

\* _ended: when an entry stopped being live, or is to.
EndOf(e) == IF e.revoked # Never /\ e.revoked < e.expires THEN e.revoked ELSE e.expires

\* _revoke_tree: the first revocation of an entry stands.
RevokedBy(roots) ==
    [t \in Ids |-> IF t \in UNION {Below(r) : r \in roots} /\ ~Revoked(t)
                     THEN [entry[t] EXCEPT !.revoked = now] ELSE entry[t]]

-----------------------------------------------------------------------------
(* _register *)

\* A slip: whatever ended long enough ago is dropped, out of turn.
PurgesAnyEnded == {t \in entries : now - EndOf(entry[t]) <= Retain}

\* _purge: in issue order, while the oldest ended more than Retain ago.
Purged == {t \in entries : \E u \in entries : u <= t /\ now - EndOf(entry[u]) <= Retain}

\* A slip: a full registry takes one more.
FullByOne == Cardinality(Purged) > MaxTickets

Full == Cardinality(Purged) >= MaxTickets

\* The entry is added after the purge, unless MAX_TICKETS entries remain.
Registers(e) ==
    /\ issued < MaxIssued
    /\ LET index == [p \in Ids |-> IF p \in Purged THEN children[p] ELSE {}] IN
       IF Full
         THEN /\ entries' = Purged /\ children' = index
              /\ UNCHANGED <<issued, entry, expiry>>
         ELSE LET t == issued + 1 IN
              /\ issued' = t
              /\ entries' = Purged \cup {t}
              /\ entry' = [entry EXCEPT ![t] = e]
              /\ children' = [p \in Ids |-> index[p] \cup (IF p = e.parent THEN {t} ELSE {})]
              /\ expiry' = [expiry EXCEPT ![t] = e.expires]

-----------------------------------------------------------------------------
(* The registry's calls. *)

Issue(p, ask) ==
    /\ Cardinality({t \in 1..issued : entry[t].parent = None}) < MaxRoots
    /\ Registers([principal |-> p, scope |-> ask.scope, ceiling |-> ask.ceiling,
                  parent |-> None, depth |-> 0, expires |-> now + TTL, revoked |-> Never])
    /\ UNCHANGED <<now, stopped>>

\* _liveness of a registered ticket.  The entry nearest to it under a stop,
\* itself or an ancestor, is revoked with its tree, by a check or an issue.
Stops(t) == {p \in Above(t) : entry[p].principal \in stopped}
StopFound(t) == ~Revoked(t) /\ ~Expired(t) /\ Stops(t) # {}
Nearest(S) == CHOOSE p \in S : \A q \in S : q <= p
Live(t) == ~Revoked(t) /\ ~Expired(t) /\ Stops(t) = {}

\* A slip: a child is issued under a stopped or revoked parent.
MayParentUnasked(t) == t \in entries /\ ~Expired(t)

MayParent(t) == t \in entries /\ Live(t)

Within(c, ceiling) == ceiling # Unbounded => c # Unbounded /\ c <= ceiling
Inherited(c, ceiling) == IF c = Unbounded THEN ceiling ELSE c
Earlier(a, b) == IF a <= b THEN a ELSE b

\* A slip: a child that asks for no ceiling has none.
IssueChildUninherited(t, p, ask) ==
    LET e == entry[t] IN
    /\ MayParent(t)
    /\ e.depth < MaxDepth /\ ask.scope \subseteq e.scope
    /\ ask.ceiling # Unbounded => Within(ask.ceiling, e.ceiling)
    /\ Registers([principal |-> p, scope |-> ask.scope, ceiling |-> ask.ceiling,
                  parent |-> t, depth |-> e.depth + 1,
                  expires |-> Earlier(now + TTL, e.expires), revoked |-> Never])
    /\ UNCHANGED <<now, stopped>>

\* issue_child, not refused: a live parent, no deeper than MaxDepth, and a
\* scope and a ceiling no wider than the parent's.
IssueChild(t, p, ask) ==
    LET e == entry[t]
        ceiling == Inherited(ask.ceiling, e.ceiling)
    IN
    /\ MayParent(t)
    /\ e.depth < MaxDepth /\ ask.scope \subseteq e.scope /\ Within(ceiling, e.ceiling)
    /\ Registers([principal |-> p, scope |-> ask.scope, ceiling |-> ceiling,
                  parent |-> t, depth |-> e.depth + 1,
                  expires |-> Earlier(now + TTL, e.expires), revoked |-> Never])
    /\ UNCHANGED <<now, stopped>>

\* check and issue_child of a ticket under a stop.
FindsStop(t) ==
    /\ t \in entries /\ StopFound(t)
    /\ entry' = RevokedBy({Nearest(Stops(t))})
    /\ UNCHANGED <<now, issued, entries, children, stopped, expiry>>

Revoke(t) ==
    /\ t \in entries
    /\ entry' = RevokedBy({t})
    /\ UNCHANGED <<now, issued, entries, children, stopped, expiry>>

\* A slip: a release is a new end, also of a ticket that has one.
ReleasesAgain(t) ==
    /\ t \in entries
    /\ entry' = [entry EXCEPT ![t].expires = now, ![t].revoked = Never]
    /\ UNCHANGED <<now, issued, entries, children, stopped, expiry>>

Release(t) ==
    /\ t \in entries /\ now < entry[t].expires
    /\ entry' = [entry EXCEPT ![t].expires = now]
    /\ UNCHANGED <<now, issued, entries, children, stopped, expiry>>

\* AgentStopService and the clock.
CaptainStops(p) ==
    /\ p \notin stopped
    /\ stopped' = stopped \cup {p}
    /\ UNCHANGED <<now, issued, entries, entry, children, expiry>>
CaptainLifts(p) ==
    /\ p \in stopped
    /\ stopped' = stopped \ {p}
    /\ UNCHANGED <<now, issued, entries, entry, children, expiry>>
Tick ==
    /\ now < MaxTime
    /\ now' = now + 1
    /\ UNCHANGED <<issued, entries, entry, children, stopped, expiry>>

Next ==
    \/ \E p \in Principals : \E ask \in Asks[p] : Issue(p, ask)
    \/ \E t \in Ids, p \in Principals : \E ask \in Asks[p] : IssueChild(t, p, ask)
    \/ \E t \in Ids : FindsStop(t) \/ Revoke(t) \/ Release(t)
    \/ \E p \in Principals : CaptainStops(p) \/ CaptainLifts(p)
    \/ Tick

Spec == Init /\ [][Next]_vars

-----------------------------------------------------------------------------
(* A revocation reaches the whole work: no registered ticket is unrevoked  *)
(* while a registered ancestor, however far, is revoked, whatever was      *)
(* dropped between them and whenever its lineage was issued.               *)
RevocationReaches ==
    \A t \in entries : \A p \in Ancestors(t) \cap entries : Revoked(p) => Revoked(t)

(* Purging never cuts a lineage: a registered ancestor is found from the  *)
(* ticket through its parents, so a check of the ticket finds a stop of    *)
(* that ancestor's principal, and the ticket from the ancestor through the *)
(* index, so a revocation of the ancestor reaches the ticket.              *)
LineageIsWhole ==
    \A t \in entries : \A p \in Ancestors(t) \cap entries : p \in Above(t) /\ t \in Below(p)

(* The design note's rule 3 over a whole lineage: a ticket is no wider, no *)
(* costlier and lives no longer than any ancestor was issued for, also one *)
(* dropped or released meanwhile.                                          *)
NoWiderThanAncestors ==
    \A t \in 1..issued : \A p \in Ancestors(t) :
        /\ entry[t].scope \subseteq entry[p].scope
        /\ Within(entry[t].ceiling, entry[p].ceiling)
        /\ entry[t].depth > entry[p].depth
        /\ entry[t].expires <= expiry[p]

(* A ticket that has ended has ended: the time of its end never moves, and *)
(* it is dropped only more than Retain later, so that until then a check   *)
(* says how it ended and never that it is unknown.                         *)
EndIsFinal ==
    [][\A t \in entries :
          /\ EndOf(entry[t]) <= now => EndOf(entry'[t]) = EndOf(entry[t])
          /\ t \notin entries' => now - EndOf(entry[t]) > Retain]_vars

=============================================================================
