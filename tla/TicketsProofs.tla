--------------------------- MODULE TicketsProofs ---------------------------
(***************************************************************************)
(* Proofs about the ticket registry, for any number of tickets, principals *)
(* and asks, and any limits.                                               *)
(*                                                                         *)
(* What is said of a ticket and all its ancestors follows from what holds  *)
(* between each ticket and its parent (the inductive invariant): a set     *)
(* that holds the ticket and the parent of each it holds also holds every  *)
(* ancestor, so a well chosen set takes the place of an induction along    *)
(* the lineage.  The registry must be a suffix of the tickets issued for   *)
(* it: a lineage then leaves the registry once, and never comes back.      *)
(***************************************************************************)
EXTENDS Tickets, FiniteSetTheorems, TLAPS

(* The registered tickets are the last ones issued. *)
SuffixRegistered ==
    \A t \in entries : \A u \in 1..issued : t <= u => u \in entries

(* A ticket's parent was issued before it. *)
ParentsFirst ==
    \A t \in 1..issued : entry[t].parent = None \/ entry[t].parent \in 1..(t - 1)

(* The index of a registered ticket is the set of its children, and a      *)
(* ticket that is not registered has none.                                 *)
IndexIsExact ==
    \A p \in Ids :
        children[p] = IF p \in entries THEN {t \in 1..issued : entry[t].parent = p} ELSE {}

(* A child of a revoked ticket is revoked, where both are registered. *)
RevokedWithParent ==
    \A t \in entries :
        entry[t].parent \in entries /\ Revoked(entry[t].parent) => Revoked(t)

(* A ticket is no wider than its parent, and none outlives its issue. *)
NoWider(t, p) ==
    /\ entry[t].scope \subseteq entry[p].scope
    /\ Within(entry[t].ceiling, entry[p].ceiling)
    /\ entry[t].depth > entry[p].depth
    /\ expiry[t] <= expiry[p]
NoWiderThanParent ==
    \A t \in 1..issued :
        /\ entry[t].parent # None => NoWider(t, entry[t].parent)
        /\ entry[t].expires <= expiry[t]

(* The inductive invariant. *)
TicketInv ==
    /\ TicketTypeOK /\ SuffixRegistered /\ ParentsFirst /\ IndexIsExact
    /\ RevokedWithParent /\ NoWiderThanParent
-----------------------------------------------------------------------------
(* From parents to ancestors, in one state. *)

(* A registered ancestor is found upwards from the ticket: what is found   *)
(* and what is not registered is closed under parents.                     *)
LEMMA AncestorIsAbove ==
    ASSUME TicketInv, NEW t \in entries, NEW p \in Ancestors(t) \cap entries
    PROVE  p \in Above(t)
  <1> DEFINE S == Above(t) \cup ((1..issued) \ entries)
  <1> USE DEF TicketInv, TicketTypeOK
  <1>1. S \in SUBSET (1..issued) /\ t \in S
    BY DEF Above
  <1>2. ASSUME NEW c \in S, entry[c].parent # None
        PROVE  entry[c].parent \in S
    <2>1. entry[c].parent \in 1..issued /\ entry[c].parent < c
      BY <1>1, <1>2 DEF ParentsFirst
    <2>2. CASE c \in Above(t) /\ entry[c].parent \in entries
      BY <2>2 DEF Above
    <2>3. CASE c \notin entries
      BY <1>1, <2>1, <2>3 DEF SuffixRegistered
    <2> QED
      BY <2>1, <2>2, <2>3 DEF Above
  <1>3. p \in S
    BY <1>1, <1>2 DEF Ancestors
  <1> QED
    BY <1>3

(* A ticket is found downwards from a registered ancestor: what a set      *)
(* closed under the index leaves out is closed under parents.              *)
LEMMA DescendantIsBelow ==
    ASSUME TicketInv, NEW t \in entries, NEW p \in Ancestors(t) \cap entries
    PROVE  t \in Below(p)
  <1> USE DEF TicketInv, TicketTypeOK
  <1> SUFFICES ASSUME NEW S \in SUBSET entries, p \in S, t \notin S,
                      \A q \in S : children[q] \cap entries \subseteq S
               PROVE  FALSE
    BY DEF Below
  <1> DEFINE T == (1..issued) \ S
  <1>1. T \in SUBSET (1..issued) /\ t \in T
    OBVIOUS
  <1>2. ASSUME NEW c \in T, entry[c].parent # None
        PROVE  entry[c].parent \in T
    <2>1. entry[c].parent \in 1..issued /\ entry[c].parent < c /\ entry[c].parent \in Ids
      BY <1>1, <1>2, TicketAssumption DEF ParentsFirst, Ids
    <2>2. ASSUME entry[c].parent \in S
          PROVE  FALSE
      <3>1. c \in entries
        BY <1>1, <2>1, <2>2 DEF SuffixRegistered
      <3>2. c \in children[entry[c].parent]
        BY <1>1, <2>1, <2>2 DEF IndexIsExact
      <3> QED
        BY <2>2, <3>1, <3>2
    <2> QED
      BY <2>1, <2>2
  <1>3. p \in T
    BY <1>1, <1>2 DEF Ancestors
  <1> QED
    BY <1>3

(* A registered ticket of a revoked registered ancestor is revoked. *)
LEMMA RevokedWithAncestor ==
    ASSUME TicketInv, NEW t \in entries, NEW p \in Ancestors(t) \cap entries, Revoked(p)
    PROVE  Revoked(t)
  <1> USE DEF TicketInv, TicketTypeOK
  <1> SUFFICES ASSUME ~Revoked(t)
               PROVE  FALSE
    OBVIOUS
  <1> DEFINE T == {c \in 1..issued : c \notin entries \/ ~Revoked(c)}
  <1>1. T \in SUBSET (1..issued) /\ t \in T
    OBVIOUS
  <1>2. ASSUME NEW c \in T, entry[c].parent # None
        PROVE  entry[c].parent \in T
    <2>1. entry[c].parent \in 1..issued /\ entry[c].parent < c
      BY <1>1, <1>2 DEF ParentsFirst
    <2>2. entry[c].parent \in entries => c \in entries
      BY <1>1, <2>1 DEF SuffixRegistered
    <2> QED
      BY <2>1, <2>2 DEF RevokedWithParent
  <1>3. p \in T
    BY <1>1, <1>2 DEF Ancestors
  <1> QED
    BY <1>3

(* Ceilings are numbers or none at all. *)
Ceilings == (UNION {{ask.ceiling : ask \in Asks[p]} : p \in Principals}) \cup {Unbounded}
LEMMA CeilingTyped == Ceilings \subseteq Nat \cup {Unbounded}
  BY TicketAssumption DEF Ceilings

(* Being no wider is transitive. *)
LEMMA NoWiderTransitive ==
    ASSUME TicketTypeOK, NEW t \in Ids, NEW c \in Ids, NEW p \in Ids,
           NoWider(t, c), NoWider(c, p)
    PROVE  NoWider(t, p)
  <1>1. \A i \in Ids : /\ entry[i].ceiling \in Nat \cup {Unbounded} /\ entry[i].depth \in Nat
                       /\ expiry[i] \in Nat
    <2> SUFFICES ASSUME NEW i \in Ids
                 PROVE  /\ entry[i].ceiling \in Nat \cup {Unbounded} /\ entry[i].depth \in Nat
                        /\ expiry[i] \in Nat
      OBVIOUS
    <2>1. entry[i] \in Entry /\ expiry[i] \in 0..(MaxTime + TTL)
      BY DEF TicketTypeOK
    <2>2. entry[i].ceiling \in Ceilings /\ entry[i].depth \in 0..MaxDepth
      BY <2>1 DEF Entry, Ceilings
    <2>3. entry[i].ceiling \in Nat \cup {Unbounded}
      BY <2>2, CeilingTyped
    <2> QED
      BY <2>1, <2>2, <2>3, TicketAssumption
  <1> QED
    BY <1>1, TicketAssumption DEF NoWider, Within

(* A ticket is no wider than any ancestor. *)
LEMMA NoWiderThanAncestor ==
    ASSUME TicketInv, NEW t \in 1..issued, NEW p \in Ancestors(t)
    PROVE  NoWider(t, p) /\ entry[t].expires <= expiry[p]
  <1> USE DEF TicketInv
  <1> DEFINE T == {c \in 1..issued : c = t \/ NoWider(t, c)}
  <1>1. T \in SUBSET (1..issued) /\ t \in T /\ 1..issued \subseteq Ids
    BY TicketAssumption DEF TicketTypeOK, Ids
  <1>2. ASSUME NEW c \in T, entry[c].parent # None
        PROVE  entry[c].parent \in T
    <2>1. entry[c].parent \in 1..issued /\ NoWider(c, entry[c].parent)
      BY <1>1, <1>2 DEF ParentsFirst, NoWiderThanParent, TicketTypeOK
    <2>2. c = t \/ NoWider(t, c)
      OBVIOUS
    <2>3. NoWider(t, entry[c].parent)
      BY <1>1, <2>1, <2>2, NoWiderTransitive
    <2> QED
      BY <2>1, <2>3
  <1>3. p \in T /\ p # t
    BY <1>1, <1>2 DEF Ancestors
  <1>4. entry[t].expires <= expiry[t] /\ NoWider(t, p)
    BY <1>3 DEF NoWiderThanParent
  <1>5. /\ entry[t].expires \in Int /\ expiry[t] \in Int /\ expiry[p] \in Int
    <2>1. entry[t] \in Entry /\ expiry[t] \in 0..(MaxTime + TTL) /\ expiry[p] \in 0..(MaxTime + TTL)
      BY <1>1, <1>3 DEF TicketTypeOK
    <2> QED
      BY <2>1 DEF Entry
  <1> QED
    BY <1>4, <1>5 DEF NoWider
-----------------------------------------------------------------------------
(* What is purged is older than what stays, and an entry that may have     *)
(* children stays.                                                         *)
LEMMA PurgeKeepsSuffix ==
    ASSUME TicketInv
    PROVE  /\ Purged \subseteq entries
           /\ \A t \in Purged : \A u \in 1..issued : t <= u => u \in Purged
           /\ \A t \in entries : MayParent(t) => t \in Purged
           /\ \A t \in entries \ Purged : now - EndOf(entry[t]) > Retain
  <1> USE TicketAssumption DEF TicketInv, TicketTypeOK, Purged
  <1>1. \A t \in entries : t \in Int /\ entry[t] \in Entry
    BY DEF Ids
  <1>2. \A t \in entries : EndOf(entry[t]) \in Int
    BY <1>1 DEF EndOf, Entry
  <1>3. \A t \in Purged : \A u \in 1..issued : t <= u => u \in Purged
    BY <1>1 DEF SuffixRegistered
  <1>4. ASSUME NEW t \in entries, MayParent(t)
        PROVE  t \in Purged
    <2>1. EndOf(entry[t]) = entry[t].expires /\ now < entry[t].expires
      BY <1>1, <1>4 DEF MayParent, Live, Revoked, Expired, EndOf, Entry
    <2> QED
      BY <1>1, <1>2, <2>1
  <1>5. ASSUME NEW t \in entries, t \notin Purged
        PROVE  now - EndOf(entry[t]) > Retain
    BY <1>1, <1>2, <1>5
  <1> QED
    BY <1>3, <1>4, <1>5

(* A ticket that the registry issues: its types, and its place under a     *)
(* parent that is live.                                                    *)
MayRegister(e) ==
    /\ e \in Entry /\ e.revoked = Never
    /\ e.parent # None =>
           /\ e.parent \in entries /\ MayParent(e.parent)
           /\ e.scope \subseteq entry[e.parent].scope
           /\ Within(e.ceiling, entry[e.parent].ceiling)
           /\ e.depth > entry[e.parent].depth
           /\ e.expires <= entry[e.parent].expires

(* A registration keeps the inductive invariant: the oldest are dropped,   *)
(* the new ticket comes last, and its parent stays.                        *)
LEMMA RegisterStep ==
    ASSUME TicketInv, NEW e, MayRegister(e), Registers(e), UNCHANGED <<now, stopped>>
    PROVE  TicketInv'
  <1> USE TicketAssumption DEF TicketInv, TicketTypeOK, Ids, None
  <1>1. /\ Purged \subseteq entries /\ IsFiniteSet(entries) /\ IsFiniteSet(Purged)
        /\ Cardinality(Purged) \in Nat /\ Cardinality(Purged) <= Cardinality(entries)
        /\ Cardinality(entries) \in Nat
    <2>1. IsFiniteSet(1..issued)
      <3>1. 1 \in Int /\ issued \in Int
        OBVIOUS
      <3> QED
        BY ONLY <3>1, FS_Interval
    <2>2. IsFiniteSet(entries)
      BY <2>1, FS_Subset
    <2> QED
      BY <2>2, PurgeKeepsSuffix, FS_Subset, FS_CardinalityType
  <1>2. CASE Full
    <2>1. /\ entries' = Purged /\ UNCHANGED <<issued, entry, expiry>>
          /\ children' = [p \in Ids |-> IF p \in Purged THEN children[p] ELSE {}]
      BY <1>2 DEF Registers
    <2>2. TicketTypeOK'
      BY <1>1, <2>1
    <2>3. SuffixRegistered' /\ ParentsFirst' /\ NoWiderThanParent'
      BY <2>1, PurgeKeepsSuffix
         DEF SuffixRegistered, ParentsFirst, NoWiderThanParent, NoWider
    <2>4. IndexIsExact'
      BY <1>1, <2>1 DEF IndexIsExact
    <2>5. RevokedWithParent'
      BY <1>1, <2>1 DEF RevokedWithParent, Revoked
    <2> QED
      BY <2>2, <2>3, <2>4, <2>5
  <1>3. CASE ~Full
    <2> DEFINE t == issued + 1
    <2>1. /\ issued' = t /\ entries' = Purged \cup {t} /\ t \in Ids /\ t \notin entries
          /\ entry' = [entry EXCEPT ![t] = e]
          /\ children' = [p \in Ids |-> (IF p \in Purged THEN children[p] ELSE {})
                                            \cup (IF p = e.parent THEN {t} ELSE {})]
          /\ expiry' = [expiry EXCEPT ![t] = e.expires]
      BY <1>3 DEF Registers
    <2>2. /\ entry'[t] = e /\ expiry'[t] = e.expires /\ e \in Entry
          /\ \A u \in 1..issued : entry'[u] = entry[u] /\ expiry'[u] = expiry[u]
      BY <2>1 DEF MayRegister
    <2>3. \A u \in 1..issued : entry[u].parent = None \/ entry[u].parent \in 1..issued
      BY DEF ParentsFirst
    <2>4. e.parent = None \/ (e.parent \in Purged /\ e.parent \in 1..issued)
      BY PurgeKeepsSuffix DEF MayRegister
    <2>5. TicketTypeOK'
      <3>1. Cardinality(entries') <= MaxTickets
        <4>1. t \notin Purged
          BY <1>1, <2>1
        <4>2. Cardinality(entries') = Cardinality(Purged) + 1
          BY <1>1, <2>1, <4>1, FS_AddElement
        <4> QED
          BY <1>1, <1>3, <4>2 DEF Full
      <3>2. entry' \in [Ids -> Entry] /\ expiry' \in [Ids -> 0..(MaxTime + TTL)]
        BY <2>1, <2>2 DEF Entry
      <3>3. children' \in [Ids -> SUBSET Ids]
        BY <2>1
      <3> QED
        BY <1>1, <2>1, <3>1, <3>2, <3>3
    <2>6. SuffixRegistered'
      BY <1>1, <2>1, PurgeKeepsSuffix DEF SuffixRegistered
    <2>7. ParentsFirst'
      BY <2>1, <2>2, <2>4 DEF ParentsFirst
    <2>8. IndexIsExact'
      <3> SUFFICES ASSUME NEW p \in Ids
                   PROVE  children'[p] = IF p \in entries'
                              THEN {u \in 1..issued' : entry'[u].parent = p} ELSE {}
        BY DEF IndexIsExact
      <3>1. CASE p \in Purged
        <4>1. children[p] = {u \in 1..issued : entry[u].parent = p}
          BY <1>1, <3>1 DEF IndexIsExact
        <4>2. {u \in 1..issued' : entry'[u].parent = p} =
                  {u \in 1..issued : entry[u].parent = p} \cup (IF p = e.parent THEN {t} ELSE {})
          BY <2>1, <2>2
        <4> QED
          BY <2>1, <3>1, <4>1, <4>2
      <3>2. CASE p = t
        <4>1. \A u \in 1..issued' : entry'[u].parent # t
          BY <1>1, <2>1, <2>2, <2>3, <2>4
        <4>2. children'[t] = {}
          BY <1>1, <2>1, <2>4
        <4> QED
          BY <2>1, <3>2, <4>1, <4>2
      <3>3. CASE p \notin Purged /\ p # t
        BY <2>1, <2>4, <3>3
      <3> QED
        BY <3>1, <3>2, <3>3
    <2>9. RevokedWithParent'
      <3> SUFFICES ASSUME NEW u \in entries', entry'[u].parent \in entries',
                          Revoked(entry[u].parent)'
                   PROVE  Revoked(u)'
        BY DEF RevokedWithParent
      <3>1. CASE u = t
        <4>1. e.parent \in Purged /\ ~Revoked(e.parent)
          BY <1>1, <2>1, <2>2, <2>4, <3>1 DEF MayRegister, MayParent, Live
        <4>2. entry'[e.parent] = entry[e.parent]
          BY <1>1, <2>2, <4>1
        <4> QED
          BY <2>2, <3>1, <4>1, <4>2 DEF Revoked
      <3>2. CASE u \in Purged
        <4>1. u \in 1..issued /\ entry'[u] = entry[u] /\ entry[u].parent \in entries'
          BY <1>1, <2>2, <3>2
        <4>2. entry[u].parent \in Purged /\ entry'[entry[u].parent] = entry[entry[u].parent]
          BY <1>1, <2>1, <2>2, <2>3, <4>1
        <4> QED
          BY <1>1, <3>2, <4>1, <4>2 DEF RevokedWithParent, Revoked
      <3> QED
        BY <2>1, <3>1, <3>2
    <2>10. NoWiderThanParent'
      <3> SUFFICES ASSUME NEW u \in 1..issued'
                   PROVE  /\ entry'[u].parent # None => NoWider(u, entry[u].parent)'
                          /\ entry'[u].expires <= expiry'[u]
        BY DEF NoWiderThanParent
      <3>1. CASE u = t
        <4>1. e.expires \in Int
          BY <2>2 DEF Entry
        <4>2. ASSUME e.parent # None
              PROVE  /\ e.parent \in 1..issued /\ e.expires <= expiry[e.parent]
                     /\ entry'[e.parent] = entry[e.parent] /\ expiry'[e.parent] = expiry[e.parent]
          <5>1. e.parent \in 1..issued /\ e.expires <= entry[e.parent].expires
            BY <2>4, <4>2 DEF MayRegister
          <5>2. entry[e.parent] \in Entry /\ expiry[e.parent] \in Int
            BY <2>1, <5>1
          <5>3. entry[e.parent].expires \in Int /\ entry[e.parent].expires <= expiry[e.parent]
            BY <5>1, <5>2 DEF Entry, NoWiderThanParent
          <5>4. e.expires <= expiry[e.parent]
            BY <4>1, <5>1, <5>2, <5>3
          <5> QED
            BY <2>2, <5>1, <5>4
        <4> QED
          BY <2>2, <3>1, <4>1, <4>2 DEF NoWider, MayRegister
      <3>2. CASE u \in 1..issued
        <4>1. entry[u].parent # None => entry[u].parent \in 1..issued
          BY <2>3, <3>2
        <4> QED
          BY <2>2, <3>2, <4>1 DEF NoWider, NoWiderThanParent
      <3> QED
        BY <2>1, <3>1, <3>2
    <2> QED
      BY <2>5, <2>6, <2>7, <2>8, <2>9, <2>10
  <1> QED
    BY <1>2, <1>3
-----------------------------------------------------------------------------
(* The registry's calls. *)

(* A revocation reaches the registered children of what it reaches. *)
LEMMA BelowIsClosed ==
    ASSUME NEW r
    PROVE  \A p \in Below(r) : children[p] \cap entries \subseteq Below(r)
  BY DEF Below

(* A revocation of a tree keeps the inductive invariant. *)
LEMMA RevokeStep ==
    ASSUME TicketInv, NEW r, entry' = RevokedBy({r}),
           UNCHANGED <<now, issued, entries, children, stopped, expiry>>
    PROVE  TicketInv'
  <1> USE TicketAssumption DEF TicketInv
  <1>1. /\ entry' \in [Ids -> Entry]
        /\ \A t \in Ids : /\ entry'[t].parent = entry[t].parent /\ entry'[t].scope = entry[t].scope
                          /\ entry'[t].ceiling = entry[t].ceiling /\ entry'[t].depth = entry[t].depth
                          /\ entry'[t].expires = entry[t].expires
                          /\ Revoked(t) => entry'[t] = entry[t]
                          /\ t \in Below(r) => entry'[t].revoked # Never
                          /\ t \notin Below(r) => entry'[t] = entry[t]
    <2> SUFFICES ASSUME NEW t \in Ids
                 PROVE  /\ entry'[t] \in Entry
                        /\ entry'[t].parent = entry[t].parent /\ entry'[t].scope = entry[t].scope
                        /\ entry'[t].ceiling = entry[t].ceiling /\ entry'[t].depth = entry[t].depth
                        /\ entry'[t].expires = entry[t].expires
                        /\ Revoked(t) => entry'[t] = entry[t]
                        /\ t \in Below(r) => entry'[t].revoked # Never
                        /\ t \notin Below(r) => entry'[t] = entry[t]
      BY DEF RevokedBy, TicketTypeOK
    <2>1. entry[t] \in Entry /\ now \in 0..MaxTime /\ now # Never
      BY DEF TicketTypeOK, Never
    <2>2. CASE t \in Below(r) /\ ~Revoked(t)
      <3>1. entry'[t] = [entry[t] EXCEPT !.revoked = now]
        BY <2>2 DEF RevokedBy
      <3> QED
        BY <2>1, <2>2, <3>1 DEF Entry
    <2>3. CASE ~(t \in Below(r) /\ ~Revoked(t))
      <3>1. entry'[t] = entry[t]
        BY <2>3 DEF RevokedBy
      <3> QED
        BY <2>1, <2>3, <3>1 DEF Revoked
    <2> QED
      BY <2>2, <2>3
  <1>2. /\ \A t \in 1..issued : t \in Ids
        /\ \A t \in entries : t \in 1..issued /\ t \in Ids
    BY DEF Ids, ParentsFirst, TicketTypeOK
  <1>3. TicketTypeOK' /\ SuffixRegistered'
    BY <1>1 DEF SuffixRegistered, TicketTypeOK
  <1>4. ParentsFirst' /\ IndexIsExact'
    <2>1. ParentsFirst'
      BY <1>1, <1>2 DEF ParentsFirst
    <2>2. \A t \in 1..issued : entry'[t].parent = entry[t].parent
      BY <1>1, <1>2
    <2>3. \A p \in Ids :
              {t \in 1..issued : entry'[t].parent = p} = {t \in 1..issued : entry[t].parent = p}
      BY <2>2
    <2> QED
      BY <2>1, <2>3 DEF IndexIsExact
  <1>5. NoWiderThanParent'
    <2> SUFFICES ASSUME NEW t \in 1..issued
                 PROVE  /\ entry'[t].parent # None => NoWider(t, entry[t].parent)'
                        /\ entry'[t].expires <= expiry'[t]
      BY <1>1, <1>2 DEF NoWiderThanParent
    <2>1. t \in Ids /\ (entry[t].parent # None => entry[t].parent \in Ids)
      BY <1>2 DEF ParentsFirst, TicketTypeOK, Ids
    <2>2. /\ entry[t].parent # None => NoWider(t, entry[t].parent)
          /\ entry[t].expires <= expiry[t]
      BY DEF NoWiderThanParent
    <2>3. /\ entry'[t].parent = entry[t].parent /\ entry'[t].scope = entry[t].scope
          /\ entry'[t].ceiling = entry[t].ceiling /\ entry'[t].depth = entry[t].depth
          /\ entry'[t].expires = entry[t].expires
      BY <1>1, <2>1
    <2>4. entry[t].parent # None =>
              LET p == entry[t].parent IN
              /\ entry'[p].scope = entry[p].scope /\ entry'[p].ceiling = entry[p].ceiling
              /\ entry'[p].depth = entry[p].depth
      BY <1>1, <2>1
    <2> QED
      BY <2>2, <2>3, <2>4 DEF NoWider
  <1>6. RevokedWithParent'
    <2> SUFFICES ASSUME NEW t \in entries, entry[t].parent \in entries,
                        entry'[entry[t].parent].revoked # Never
                 PROVE  entry'[t].revoked # Never
      BY <1>1, <1>2 DEF RevokedWithParent, Revoked
    <2>1. CASE entry[t].parent \in Below(r)
      <3>1. t \in children[entry[t].parent]
        <4>1. children[entry[t].parent] = {u \in 1..issued : entry[u].parent = entry[t].parent}
          BY <1>2 DEF IndexIsExact
        <4> QED
          BY <1>2, <4>1
      <3>2. t \in Below(r)
        BY <2>1, <3>1, BelowIsClosed
      <3> QED
        BY <1>1, <1>2, <3>2
    <2>2. CASE entry[t].parent \notin Below(r)
      <3>1. Revoked(entry[t].parent)
        BY <1>1, <1>2, <2>2 DEF Revoked
      <3>2. Revoked(t)
        BY <3>1 DEF RevokedWithParent
      <3> QED
        BY <1>1, <1>2, <3>2 DEF Revoked
    <2> QED
      BY <2>1, <2>2
  <1> QED
    BY <1>3, <1>4, <1>5, <1>6

(* Every call keeps the inductive invariant. *)
LEMMA TicketInvStep == TicketInv /\ [Next]_vars => TicketInv'
  <1> SUFFICES ASSUME TicketInv, [Next]_vars
               PROVE  TicketInv'
    OBVIOUS
  <1> USE TicketAssumption
  <1>1. ASSUME NEW p \in Principals, NEW ask \in Asks[p], Issue(p, ask)
        PROVE  TicketInv'
    <2> DEFINE e == [principal |-> p, scope |-> ask.scope, ceiling |-> ask.ceiling,
                     parent |-> None, depth |-> 0, expires |-> now + TTL, revoked |-> Never]
    <2>1. ask.scope \in SUBSET Effects /\ ask.ceiling \in Ceilings
      BY DEF Ceilings
    <2>2. e \in Entry
      BY <2>1 DEF Entry, Ceilings, TicketInv, TicketTypeOK, None
    <2>3. MayRegister(e)
      BY <2>2 DEF MayRegister
    <2> QED
      BY <1>1, <2>3, RegisterStep DEF Issue
  <1>2. ASSUME NEW t \in Ids, NEW p \in Principals, NEW ask \in Asks[p], IssueChild(t, p, ask)
        PROVE  TicketInv'
    <2> DEFINE ceiling == Inherited(ask.ceiling, entry[t].ceiling)
               expires == Earlier(now + TTL, entry[t].expires)
               e == [principal |-> p, scope |-> ask.scope, ceiling |-> ceiling,
                     parent |-> t, depth |-> entry[t].depth + 1,
                     expires |-> expires, revoked |-> Never]
    <2>1. ask.scope \in SUBSET Effects /\ ask.ceiling \in Ceilings
      BY DEF Ceilings
    <2>2. entry[t] \in Entry /\ entry[t].ceiling \in Ceilings
      BY DEF Entry, Ceilings, TicketInv, TicketTypeOK
    <2>3. ceiling \in Ceilings
      BY <2>1, <2>2 DEF Inherited
    <2>4. expires \in 0..(MaxTime + TTL) /\ expires <= entry[t].expires
      BY <2>2 DEF Earlier, Entry, TicketInv, TicketTypeOK
    <2>5. entry[t].depth + 1 \in 0..MaxDepth /\ entry[t].depth + 1 > entry[t].depth
      BY <1>2, <2>2 DEF IssueChild, Entry
    <2>6. e \in Entry
      BY <2>1, <2>3, <2>4, <2>5 DEF Entry, Ceilings
    <2>7. /\ t \in entries /\ MayParent(t) /\ ask.scope \subseteq entry[t].scope
          /\ Within(ceiling, entry[t].ceiling)
          /\ Registers(e) /\ UNCHANGED <<now, stopped>>
      BY <1>2 DEF IssueChild, MayParent
    <2>8. MayRegister(e)
      BY <2>4, <2>5, <2>6, <2>7 DEF MayRegister
    <2> QED
      BY <2>7, <2>8, RegisterStep
  <1>3. ASSUME NEW t \in Ids, FindsStop(t)
        PROVE  TicketInv'
    BY <1>3, RevokeStep DEF FindsStop
  <1>4. ASSUME NEW t \in Ids, Revoke(t)
        PROVE  TicketInv'
    BY <1>4, RevokeStep DEF Revoke
  <1>5. ASSUME NEW t \in Ids, Release(t)
        PROVE  TicketInv'
    <2> USE DEF TicketInv, TicketTypeOK
    <2>1. entry' = [entry EXCEPT ![t].expires = now] /\ now < entry[t].expires
          /\ UNCHANGED <<now, issued, entries, children, stopped, expiry>>
      BY <1>5 DEF Release
    <2>2. entry' \in [Ids -> Entry]
      BY <2>1 DEF Entry
    <2>3. \A u \in Ids : /\ entry'[u].parent = entry[u].parent /\ entry'[u].scope = entry[u].scope
                         /\ entry'[u].ceiling = entry[u].ceiling /\ entry'[u].depth = entry[u].depth
                         /\ entry'[u].expires <= entry[u].expires
                         /\ entry'[u].revoked = entry[u].revoked
      BY <2>1 DEF Entry
    <2>4. \A u \in Ids : entry'[u].expires \in Int /\ entry[u].expires \in Int /\ expiry[u] \in Int
      BY <2>2 DEF Entry
    <2>5. 1..issued \subseteq Ids /\ entries \subseteq Ids
      BY DEF Ids
    <2>6. TicketTypeOK' /\ SuffixRegistered' /\ ParentsFirst' /\ IndexIsExact'
      BY <2>1, <2>2, <2>3, <2>5 DEF SuffixRegistered, ParentsFirst, IndexIsExact
    <2>7. RevokedWithParent'
      BY <2>1, <2>3, <2>5 DEF RevokedWithParent, Revoked
    <2>8. NoWiderThanParent'
      BY <2>1, <2>3, <2>4, <2>5 DEF NoWiderThanParent, NoWider, ParentsFirst, None
    <2> QED
      BY <2>6, <2>7, <2>8
  <1>6. ASSUME UNCHANGED <<issued, entries, entry, children, expiry>>,
               now' \in 0..MaxTime, stopped' \subseteq Principals
        PROVE  TicketInv'
    BY <1>6 DEF TicketInv, TicketTypeOK, SuffixRegistered, ParentsFirst, IndexIsExact,
                RevokedWithParent, Revoked, NoWiderThanParent, NoWider
  <1>7. ASSUME (\E p \in Principals : CaptainStops(p) \/ CaptainLifts(p)) \/ Tick
               \/ UNCHANGED vars
        PROVE  TicketInv'
    <2>1. now' \in 0..MaxTime /\ stopped' \subseteq Principals
      BY <1>7 DEF CaptainStops, CaptainLifts, Tick, vars, TicketInv, TicketTypeOK
    <2> QED
      BY <1>6, <1>7, <2>1 DEF CaptainStops, CaptainLifts, Tick, vars
  <1> QED
    BY <1>1, <1>2, <1>3, <1>4, <1>5, <1>7 DEF Next
(* In every state the inductive invariant holds. *)
THEOREM TicketInvariant == Spec => []TicketInv
  <1>1. Init => TicketInv
    <2> SUFFICES ASSUME Init
                 PROVE  TicketInv
      OBVIOUS
    <2> USE TicketAssumption DEF Init
    <2>1. NoEntry \in Entry
      BY DEF NoEntry, Entry, None, Never
    <2>2. Cardinality(entries) <= MaxTickets
      BY FS_EmptySet
    <2>3. TicketTypeOK
      BY <2>1, <2>2 DEF TicketTypeOK, Ids
    <2>4. SuffixRegistered /\ ParentsFirst /\ IndexIsExact /\ RevokedWithParent /\ NoWiderThanParent
      BY DEF SuffixRegistered, ParentsFirst, IndexIsExact, RevokedWithParent, NoWiderThanParent
    <2> QED
      BY <2>3, <2>4 DEF TicketInv
  <1> QED
    BY <1>1, TicketInvStep, PTL DEF Spec

(* In every state everything has its type, and the registry its bound.     *)
THEOREM TicketTypes == Spec => []TicketTypeOK
  BY TicketInvariant, PTL DEF TicketInv

(* A check of a ticket finds every registered ancestor, and a revocation   *)
(* of an ancestor every registered descendant, whatever was dropped.       *)
THEOREM LineageStaysWhole == Spec => []LineageIsWhole
  <1>1. TicketInv => LineageIsWhole
    BY AncestorIsAbove, DescendantIsBelow DEF LineageIsWhole
  <1> QED
    BY <1>1, TicketInvariant, PTL

(* No registered ticket outlives the revocation of a registered ancestor,  *)
(* however far, and whenever the lineage between them was issued.          *)
THEOREM RevocationReachesAll == Spec => []RevocationReaches
  <1>1. TicketInv => RevocationReaches
    BY RevokedWithAncestor DEF RevocationReaches
  <1> QED
    BY <1>1, TicketInvariant, PTL

(* Nobody hands on more than any ancestor was issued, along a lineage of   *)
(* any length, the ancestors dropped and released meanwhile included.      *)
THEOREM AttenuatedLineages == Spec => []NoWiderThanAncestors
  <1>1. TicketInv => NoWiderThanAncestors
    BY NoWiderThanAncestor DEF NoWiderThanAncestors, NoWider
  <1> QED
    BY <1>1, TicketInvariant, PTL

-----------------------------------------------------------------------------
(* A revocation of an entry that has ended leaves the time of its end. *)
LEMMA RevokedEnd ==
    ASSUME TicketTypeOK, NEW r, NEW t \in Ids, EndOf(entry[t]) <= now
    PROVE  EndOf(RevokedBy({r})[t]) = EndOf(entry[t])
  <1> USE TicketAssumption
  <1>1. entry[t] \in Entry /\ now \in 0..MaxTime
    BY DEF TicketTypeOK
  <1>2. CASE t \in Below(r) /\ ~Revoked(t)
    <2>1. RevokedBy({r})[t] = [entry[t] EXCEPT !.revoked = now]
      BY <1>2 DEF RevokedBy
    <2>2. entry[t].expires <= now /\ EndOf(entry[t]) = entry[t].expires
      BY <1>1, <1>2 DEF EndOf, Revoked
    <2>3. RevokedBy({r})[t].revoked = now /\ RevokedBy({r})[t].expires = entry[t].expires
      BY <1>1, <2>1 DEF Entry
    <2> QED
      BY <1>1, <2>2, <2>3 DEF EndOf, Entry
  <1>3. CASE ~(t \in Below(r) /\ ~Revoked(t))
    BY <1>3 DEF RevokedBy
  <1> QED
    BY <1>2, <1>3

(* The end of an ended ticket never moves, and it stays registered for at  *)
(* least Retain: one step.                                                 *)
EndKept ==
    \A t \in entries :
        /\ EndOf(entry[t]) <= now => EndOf(entry'[t]) = EndOf(entry[t])
        /\ t \notin entries' => now - EndOf(entry[t]) > Retain

LEMMA EndStep == TicketInv /\ [Next]_vars => EndKept
  <1> SUFFICES ASSUME TicketInv, [Next]_vars
               PROVE  EndKept
    OBVIOUS
  <1> USE TicketAssumption
  <1>1. TicketTypeOK /\ \A t \in entries : t \in Ids /\ t \in 1..issued /\ entry[t] \in Entry
    BY DEF TicketInv, TicketTypeOK, Ids
  <1>2. ASSUME NEW e, Registers(e)
        PROVE  EndKept
    <2>1. \A t \in entries : entry'[t] = entry[t]
      BY <1>1, <1>2 DEF Registers, TicketTypeOK
    <2>2. \A t \in entries : t \in Purged => t \in entries'
      BY <1>2 DEF Registers
    <2> QED
      BY <2>1, <2>2, PurgeKeepsSuffix DEF EndKept
  <1>3. ASSUME NEW r, entry' = RevokedBy({r}), entries' = entries
        PROVE  EndKept
    BY <1>1, <1>3, RevokedEnd DEF EndKept
  <1>4. ASSUME NEW r \in Ids, Release(r)
        PROVE  EndKept
    <2> SUFFICES ASSUME NEW t \in entries, EndOf(entry[t]) <= now
                 PROVE  EndOf(entry'[t]) = EndOf(entry[t])
      BY <1>4 DEF EndKept, Release
    <2>1. CASE t = r
      <3>1. /\ entry'[t] = [entry[t] EXCEPT !.expires = now]
            /\ now < entry[t].expires /\ now \in 0..MaxTime
        BY <1>1, <1>4, <2>1 DEF Release, TicketTypeOK
      <3>2. entry'[t].revoked = entry[t].revoked /\ entry'[t].expires = now
        BY <1>1, <3>1 DEF Entry
      <3>3. entry[t].revoked # Never /\ entry[t].revoked <= now
            /\ EndOf(entry[t]) = entry[t].revoked
        BY <1>1, <3>1 DEF EndOf, Entry
      <3> QED
        BY <1>1, <3>1, <3>2, <3>3 DEF EndOf, Entry
    <2>2. CASE t # r
      BY <1>1, <1>4, <2>2 DEF Release, TicketTypeOK
    <2> QED
      BY <2>1, <2>2
  <1>5. CASE UNCHANGED <<entries, entry>>
    BY <1>5 DEF EndKept
  <1> QED
    BY <1>2, <1>3, <1>4, <1>5
       DEF Next, vars, Issue, IssueChild, FindsStop, Revoke, CaptainStops, CaptainLifts, Tick

(* A ticket that has ended has ended: no call moves the time of its end,   *)
(* and until Retain later it is registered, so that a check can say how.   *)
THEOREM EndsAreFinal == Spec => EndIsFinal
  <1>1. TicketInv /\ [Next]_vars => [EndKept]_vars
    BY EndStep
  <1>2. [EndKept]_vars <=> [\A t \in entries :
          /\ EndOf(entry[t]) <= now => EndOf(entry'[t]) = EndOf(entry[t])
          /\ t \notin entries' => now - EndOf(entry[t]) > Retain]_vars
    BY DEF EndKept
  <1> QED
    BY <1>1, <1>2, TicketInvariant, PTL DEF Spec, EndIsFinal
=============================================================================
