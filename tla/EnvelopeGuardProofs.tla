------------------------ MODULE EnvelopeGuardProofs ------------------------
(***************************************************************************)
(* Proofs about the replay guard, for any keys, channels, window width and *)
(* any number of envelopes, restarts and resets.                           *)
(*                                                                         *)
(* That an envelope is delivered once is not inductive.  It rests on a     *)
(* chain: what is delivered was recorded; a write under way records a      *)
(* stamp that is not recorded yet; the guard chose that stamp by memory,   *)
(* which then was what the store holds; and the store's windows are exact  *)
(* under the held key, while no history that was given up for another is   *)
(* ever held again, since histories are strictly ordered.                  *)
(***************************************************************************)
EXTENDS EnvelopeGuard, FiniteSetTheorems, TLAPS

(* One history precedes another: the guard may move its hold to it. *)
Precedes(k, j) == <<k, j>> \in Extends \cup Overrides

(* A record or a re-anchor: a write that is for an envelope. *)
ForEnvelope == write.kind \in {"record", "reanchor"}

(* What every write says of itself: nothing is waited for when there is    *)
(* none, one that is for an envelope has an envelope's stamp, one that is  *)
(* not running any more is waited for only until it is settled, and none   *)
(* is left where the process is not there.                                 *)
WriteShape ==
    /\ write.kind = "none" => write = NoWrite
    /\ ForEnvelope => write.stamp \in sent
    /\ mode \in {"down", "closed"} => write = NoWrite

(* What is recorded was recorded under the held key or one it precedes. *)
HoldMovesOn ==
    /\ \A s \in recorded : sheld # NoKey /\ (s.key = sheld \/ Precedes(sheld, s.key))
    /\ \A c \in Channels :
           swindows[c] # NoWindow => sheld # NoKey /\ swindows[c].keySeq <= KeySeq[sheld]

(* What the guard had tested when it began the write that is running. *)
BegunAgainstStore ==
    Running =>
        /\ write.kind = "record" =>
               LET w == swindows[write.stamp.channel] IN
               /\ sheld = NoKey \/ write.stamp.key = sheld \/ <<write.stamp.key, sheld>> \in Extends
               /\ Admissible(w, write.stamp) /\ write.window = Advance(w, write.stamp)
        /\ write.kind = "reanchor" =>
               /\ sheld # NoKey /\ <<write.stamp.key, sheld>> \in Overrides
               /\ write.stamp.channel = Direct /\ write.window = Advance(NoWindow, write.stamp)

(* Memory is the store's state before a running write and, once it has     *)
(* ended with a known outcome, what it makes of it.                        *)
MemoryFollows ==
    mode = "armed" /\ (write.kind # "none" => write.task # "cancelled") =>
        HeldNow = sheld /\ WindowsNow = swindows

(* Nothing is delivered that is not recorded, and a write that is waited   *)
(* for and committed is for an envelope recorded and not delivered yet.    *)
DeliveredIsRecorded ==
    /\ delivered \subseteq recorded
    /\ ForEnvelope /\ write.task = "committed" =>
           write.stamp \in recorded /\ (write.waited => write.stamp \notin delivered)

(* The inductive invariant. *)
GuardInv ==
    /\ GuardTypeOK /\ seq <= seals /\ WriteShape
    /\ HoldMovesOn /\ WindowsAreExact
    /\ BegunAgainstStore /\ MemoryFollows
    /\ DeliveredIsRecorded /\ DeliveredOnce

(* The stamps sealed so far are finitely many and all behind the sender's  *)
(* next number.                                                            *)
SealedBehind ==
    \A s \in sent : s.epoch < epoch \/ (s.epoch = epoch /\ s.seq <= seq)

-----------------------------------------------------------------------------
(* Precedence is a strict order of the histories. *)
LEMMA PrecedesIsStrict ==
    /\ \A k \in Keys : ~Precedes(k, k)
    /\ \A k, j, i \in Keys : Precedes(k, j) /\ Precedes(j, i) => Precedes(k, i)
  BY GuardAssumption DEF Precedes

(* Windows advance to windows. *)
LEMMA AdvanceTyped ==
    ASSUME NEW w \in Windows, NEW s \in Stamps
    PROVE  Advance(w, s) \in Windows
  <1> USE GuardAssumption DEF Windows, Stamps
  <1>1. KeySeq[s.key] \in Nat /\ s.epoch \in 0..MaxEpoch /\ s.seq \in 0..MaxSeals
    OBVIOUS
  <1>2. ASSUME NEW hwm \in 0..MaxSeals, NEW seen \in SUBSET (1..MaxSeals)
        PROVE  [keySeq |-> KeySeq[s.key], epoch |-> s.epoch, hwm |-> hwm,
                seen |-> {n \in seen : n > hwm - Width}] \in Windows
    BY <1>1
  <1>3. (IF Fills(w, s) THEN w.hwm ELSE s.seq) \in 0..MaxSeals
    BY <1>1
  <1>4. (IF Fresh(w, s) THEN {s.seq} ELSE w.seen \cup {s.seq}) \in SUBSET (1..MaxSeals)
    OBVIOUS
  <1> QED
    BY <1>2, <1>3, <1>4 DEF Advance

(* A window that marks only numbers in its reach never moves back.         *)
LEMMA AdvanceMovesForward ==
    ASSUME NEW w \in Windows, NEW s \in Stamps, Admissible(w, s),
           Fills(w, s) => \A n \in w.seen : n > w.hwm - Width
    PROVE  MovesForward(w, Advance(w, s))
  <1> USE GuardAssumption DEF Windows, Stamps
  <1>1. CASE Fresh(w, s)
    BY <1>1 DEF Fresh, Advance, MovesForward
  <1>2. CASE Advances(w, s)
    BY <1>2 DEF Advances, Fills, Advance, MovesForward
  <1>3. CASE Fills(w, s)
    <2>1. ~Fresh(w, s)
      BY <1>3 DEF Fresh, Fills
    <2>2. \A n \in w.seen : n \in {m \in w.seen \cup {s.seq} : m > w.hwm - Width}
      BY <1>3
    <2> QED
      BY <1>3, <2>1, <2>2 DEF Fills, Advance, MovesForward
  <1> QED
    BY <1>1, <1>2, <1>3 DEF Admissible

(* An empty window is behind every stamp. *)
LEMMA FreshAfterNoWindow ==
    ASSUME NEW s \in Stamps
    PROVE  NoWindow \in Windows /\ Fresh(NoWindow, s) /\ Admissible(NoWindow, s)
  BY GuardAssumption DEF NoWindow, Windows, Stamps, Fresh, Admissible

(* What passes the guard's tests against the store's hold and windows has  *)
(* not been recorded.                                                      *)
LEMMA AdmissibleIsNew ==
    ASSUME GuardTypeOK, HoldMovesOn, WindowsAreExact, NEW s \in Stamps,
           sheld = NoKey \/ s.key = sheld \/ <<s.key, sheld>> \in Extends,
           Admissible(swindows[s.channel], s)
    PROVE  s \notin recorded
  <1> SUFFICES ASSUME s \in recorded
               PROVE  FALSE
    OBVIOUS
  <1> DEFINE w == swindows[s.channel]
             now == {r \in recorded : r.key = sheld /\ r.channel = s.channel}
             last == {r \in now : r.epoch = w.epoch}
  <1>1. sheld \in Keys /\ s.key \in Keys /\ s.channel \in Channels /\ w \in Windows
    BY DEF HoldMovesOn, GuardTypeOK, Stamps
  <1>2. s.key = sheld
    BY <1>1, PrecedesIsStrict DEF HoldMovesOn, Precedes
  <1>3. s \in now
    BY <1>2
  <1>4. /\ w.keySeq = KeySeq[sheld]
        /\ \A r \in now : r.epoch <= w.epoch
        /\ \A r \in last : r.seq <= w.hwm
        /\ w.seen = {n \in 1..MaxSeals : n > w.hwm - Width /\ \E r \in last : r.seq = n}
    BY <1>1, <1>3 DEF WindowsAreExact
  <1>5. s.epoch <= w.epoch /\ (s.epoch = w.epoch => s \in last /\ s.seq <= w.hwm)
    BY <1>3, <1>4
  <1>6. KeySeq[s.key] = w.keySeq
    BY <1>2, <1>4
  <1>7. s.epoch = w.epoch /\ s.seq > w.hwm - Width /\ s.seq \notin w.seen
    BY <1>1, <1>5, <1>6, GuardAssumption DEF Admissible, Fresh, Advances, Fills, Windows, Stamps
  <1>8. s.seq \in w.seen
    BY <1>4, <1>5, <1>7 DEF Stamps
  <1> QED
    BY <1>7, <1>8

-----------------------------------------------------------------------------
(* The empty write and window are typed, and so are the changes a write    *)
(* goes through.                                                           *)
LEMMA NoWriteTyped ==
    NoWrite \in Writes /\ NoWindow \in Windows /\ NoWindows \in [Channels -> Windows]
  <1> USE GuardAssumption
  <1>1. NoWindow \in Windows
    BY DEF NoWindow, Windows
  <1>2. NoWrite \in Writes
    BY <1>1 DEF NoWrite, Writes
  <1> QED
    BY <1>1, <1>2 DEF NoWindows

(* A write stays one as its caller is cancelled or leaves, and as it ends. *)
LEMMA WriteTyped ==
    ASSUME NEW w \in Writes
    PROVE  /\ [w EXCEPT !.cancelled = TRUE] \in Writes
           /\ [w EXCEPT !.waited = FALSE, !.cancelled = FALSE] \in Writes
           /\ \A how \in {"committed", "failed", "cancelled"} : [w EXCEPT !.task = how] \in Writes
  <1>1. [w EXCEPT !.cancelled = TRUE] \in Writes
    BY DEF Writes
  <1>2. [w EXCEPT !.waited = FALSE, !.cancelled = FALSE] \in Writes
    BY DEF Writes
  <1>3. ASSUME NEW how \in {"committed", "failed", "cancelled"}
        PROVE  [w EXCEPT !.task = how] \in Writes
    BY DEF Writes
  <1> QED
    BY <1>1, <1>2, <1>3

(* A write that is waited for is one. *)
LEMMA WaitedIsWrite ==
    ASSUME write \in Writes, WriteShape, write.waited
    PROVE  write.kind # "none" /\ mode \notin {"down", "closed"}
  BY DEF Writes, NoWrite, WriteShape

(* What the guard holds, once an ended write is published, is typed.       *)
LEMMA NowTyped ==
    ASSUME GuardTypeOK, WriteShape
    PROVE  HeldNow \in Keys \cup {NoKey} /\ WindowsNow \in [Channels -> Windows]
  <1> USE GuardAssumption DEF GuardTypeOK, WriteShape, ForEnvelope
  <1>1. write.window \in Windows
    BY DEF Writes
  <1>2. NoWindow \in Windows /\ NoWindows \in [Channels -> Windows]
    BY NoWriteTyped
  <1>3. ForEnvelope => write.stamp.key \in Keys /\ write.stamp.channel \in Channels
    BY DEF Stamps
  <1>4. WindowsAfter(write, windows) \in [Channels -> Windows]
    BY <1>1, <1>2, <1>3 DEF WindowsAfter
  <1>5. HeldAfter(write, held) \in Keys \cup {NoKey}
    BY <1>3 DEF HeldAfter
  <1> QED
    BY <1>4, <1>5 DEF HeldNow, WindowsNow

(* A commit keeps the store's hold and windows typed. *)
LEMMA CommitTyped ==
    ASSUME GuardTypeOK, WriteShape, Running, Commit(write)
    PROVE  /\ sheld' \in Keys \cup {NoKey} /\ swindows' \in [Channels -> Windows]
           /\ recorded' \subseteq sent /\ delivered' \subseteq sent /\ again' \subseteq delivered'
  <1> USE GuardAssumption DEF GuardTypeOK, WriteShape, ForEnvelope, Running, Commit, deliveryVars
  <1>1. write.window \in Windows
    BY DEF Writes
  <1>2. NoWindow \in Windows /\ NoWindows \in [Channels -> Windows]
    BY NoWriteTyped
  <1>3. ForEnvelope => write.stamp.key \in Keys /\ write.stamp.channel \in Channels
    BY DEF Stamps
  <1>4. WindowsAfter(write, swindows) \in [Channels -> Windows]
    BY <1>1, <1>2, <1>3 DEF WindowsAfter
  <1>5. HeldAfter(write, sheld) \in Keys \cup {NoKey}
    BY <1>3 DEF HeldAfter
  <1>6. write.kind \in {"record", "reanchor", "forget"}
    BY DEF Writes
  <1> QED
    BY <1>4, <1>5, <1>6

(* Types and the shape of writes are kept by every step. *)
LEMMA GuardTypeStep ==
    GuardTypeOK /\ seq <= seals /\ WriteShape /\ [Next]_vars
        => GuardTypeOK' /\ (seq <= seals)' /\ WriteShape'
  <1> SUFFICES ASSUME GuardTypeOK, seq <= seals, WriteShape, [Next]_vars
               PROVE  GuardTypeOK' /\ (seq <= seals)' /\ WriteShape'
    OBVIOUS
  <1> USE GuardAssumption
      DEF GuardTypeOK, WriteShape, ForEnvelope, senderVars, memoryVars, storeVars, deliveryVars
  <1>1. ASSUME NEW c \in Channels, Seal(c)
        PROVE  GuardTypeOK' /\ (seq <= seals)' /\ WriteShape'
    BY <1>1 DEF Seal, Stamps
  <1>2. ASSUME SenderRestarts
        PROVE  GuardTypeOK' /\ (seq <= seals)' /\ WriteShape'
    BY <1>2 DEF SenderRestarts
  <1>3. ASSUME NEW k \in Keys, Rotates(k)
        PROVE  GuardTypeOK' /\ (seq <= seals)' /\ WriteShape'
    BY <1>3 DEF Rotates
  <1>4. ASSUME NEW s \in sent, Admit(s)
        PROVE  GuardTypeOK' /\ (seq <= seals)' /\ WriteShape'
    <2>1. s \in Stamps /\ s.channel \in Channels
      BY DEF Stamps
    <2>2. HeldNow \in Keys \cup {NoKey} /\ WindowsNow \in [Channels -> Windows]
      BY NowTyped
    <2>3. Advance(WindowsNow[s.channel], s) \in Windows
      BY <2>1, <2>2, AdvanceTyped
    <2>4. write' = NoWrite
          \/ write' = [kind |-> "record", stamp |-> s, window |-> Advance(WindowsNow[s.channel], s),
                       task |-> "running", waited |-> TRUE, cancelled |-> FALSE]
      BY <1>4 DEF Admit, Begins
    <2>5. write' \in Writes
      <3>1. [kind |-> "record", stamp |-> s, window |-> Advance(WindowsNow[s.channel], s),
             task |-> "running", waited |-> TRUE, cancelled |-> FALSE] \in Writes
        BY <2>1, <2>3 DEF Writes
      <3> QED
        BY <2>4, <3>1, NoWriteTyped
    <2>6. WriteShape'
      BY <1>4, <2>4 DEF Admit, GuardKeeps, NoWrite
    <2> QED
      BY <1>4, <2>2, <2>5, <2>6 DEF Admit, GuardKeeps
  <1>5. ASSUME NEW s \in sent, Reanchor(s)
        PROVE  GuardTypeOK' /\ (seq <= seals)' /\ WriteShape'
    <2>1. s \in Stamps
      OBVIOUS
    <2>2. HeldNow \in Keys \cup {NoKey} /\ WindowsNow \in [Channels -> Windows]
      BY NowTyped
    <2>3. Advance(NoWindow, s) \in Windows
      BY <2>1, FreshAfterNoWindow, AdvanceTyped
    <2>4. write' \in Writes
      BY <1>5, <2>1, <2>3 DEF Reanchor, Begins, Writes
    <2> QED
      BY <1>5, <2>2, <2>4 DEF Reanchor, Begins, GuardKeeps
  <1>6. ASSUME Forget
        PROVE  GuardTypeOK' /\ (seq <= seals)' /\ WriteShape'
    <2>1. HeldNow \in Keys \cup {NoKey} /\ WindowsNow \in [Channels -> Windows]
      BY NowTyped
    <2>2. write' \in Writes
      BY <1>6, NoWriteTyped DEF Forget, Begins, Writes
    <2> QED
      BY <1>6, <2>1, <2>2 DEF Forget, Begins, GuardKeeps
  <1>7. ASSUME CallerCancelled
        PROVE  GuardTypeOK' /\ (seq <= seals)' /\ WriteShape'
    <2>1. write' \in Writes
      BY <1>7, WriteTyped DEF CallerCancelled
    <2>2. WriteShape'
      BY <1>7, <2>1, WaitedIsWrite DEF CallerCancelled, Writes
    <2> QED
      BY <1>7, <2>1, <2>2 DEF CallerCancelled
  <1>8. ASSUME Settles
        PROVE  GuardTypeOK' /\ (seq <= seals)' /\ WriteShape'
    <2>1. HeldNow \in Keys \cup {NoKey} /\ WindowsNow \in [Channels -> Windows]
      BY NowTyped
    <2>2. write' = Unwaited \/ write' = NoWrite
      BY <1>8 DEF Settles, Released
    <2>3. write' \in Writes /\ Unwaited \in Writes
      <3>1. write \in Writes /\ Unwaited \in Writes
        BY WriteTyped DEF Unwaited
      <3> QED
        BY <2>2, <3>1, NoWriteTyped
    <2>4. write.kind # "none" /\ mode \notin {"down", "closed"}
      BY <1>8, WaitedIsWrite DEF Settles
    <2>5. delivered' \subseteq sent /\ again' \subseteq delivered'
      BY <1>8, <2>4 DEF Settles, Delivers, Deliver, Writes
    <2>6. UNCHANGED <<senderVars, mode, storeVars, resets, ends>> /\ held' = HeldNow /\ windows' = WindowsNow
      BY <1>8 DEF Settles
    <2>7. WriteShape'
      <3>1. Unwaited.kind = write.kind /\ Unwaited.stamp = write.stamp
        BY DEF Unwaited, Writes
      <3>2. NoWrite.kind = "none"
        BY DEF NoWrite
      <3> QED
        BY <2>2, <2>4, <2>6, <3>1, <3>2
    <2> QED
      BY <2>1, <2>3, <2>5, <2>6, <2>7
  <1>9. ASSUME SettleTimesOut
        PROVE  GuardTypeOK' /\ (seq <= seals)' /\ WriteShape'
    <2>1. write' \in Writes
      BY <1>9, WriteTyped DEF SettleTimesOut, Unwaited
    <2>2. WriteShape'
      BY <1>9, <2>1, WaitedIsWrite DEF SettleTimesOut, Unwaited, Writes
    <2> QED
      BY <1>9, <2>1, <2>2 DEF SettleTimesOut
  <1>10. ASSUME WriteStep
         PROVE  GuardTypeOK' /\ (seq <= seals)' /\ WriteShape'
    <2>1. PICK how \in {"committed", "failed", "cancelled"} :
              Running /\ WriteEnds(how) /\ (Commit(write) \/ UNCHANGED <<storeVars, deliveryVars>>)
      BY <1>10 DEF WriteStep, WriteCommits, WriteFails, WriteCancelled
    <2>2. write' \in Writes /\ write' = [write EXCEPT !.task = how]
      BY <2>1 DEF WriteEnds, Writes
    <2>3. /\ sheld' \in Keys \cup {NoKey} /\ swindows' \in [Channels -> Windows]
          /\ recorded' \subseteq sent /\ delivered' \subseteq sent /\ again' \subseteq delivered'
      BY <2>1, CommitTyped
    <2>4. UNCHANGED <<senderVars, mode, memoryVars, resets, ends>>
      BY <2>1 DEF WriteEnds
    <2>5. GuardTypeOK' /\ (seq <= seals)'
      BY <2>2, <2>3, <2>4
    <2>6. WriteShape'
      BY <2>1, <2>2, <2>4 DEF Running, Writes, NoWrite
    <2> QED
      BY <2>5, <2>6
  <1>11. ASSUME Stops \/ ProcessEnds \/ Starts
         PROVE  GuardTypeOK' /\ (seq <= seals)' /\ WriteShape'
    <2>1. /\ held' \in Keys \cup {NoKey} /\ windows' \in [Channels -> Windows]
          /\ write' \in Writes /\ (write' = write \/ write' = NoWrite)
      BY <1>11, NoWriteTyped DEF Stops, ProcessEnds, Starts
    <2>2. /\ UNCHANGED <<senderVars, storeVars, deliveryVars, resets>> /\ ends' \in 0..MaxEnds
          /\ mode' \in {"armed", "closed", "stopped", "down"}
      BY <1>11 DEF Stops, ProcessEnds, Starts
    <2>3. WriteShape'
      BY <1>11, <2>2 DEF Stops, ProcessEnds, Starts, NoWrite
    <2> QED
      BY <2>1, <2>2, <2>3
  <1>12. CASE UNCHANGED vars
    BY <1>12 DEF vars
  <1> QED
    BY <1>1, <1>2, <1>3, <1>4, <1>5, <1>6, <1>7, <1>8, <1>9, <1>10, <1>11, <1>12 DEF Next
-----------------------------------------------------------------------------
(* A window is exact for the stamps now that one channel recorded under    *)
(* the held key.                                                           *)
ExactFor(w, hold, now) ==
    LET last == {s \in now : s.epoch = w.epoch} IN
    IF now = {} THEN hold = NoKey \/ w.keySeq < KeySeq[hold]
    ELSE /\ w.keySeq = KeySeq[hold]
         /\ \A s \in now : s.epoch <= w.epoch
         /\ \E s \in last : s.seq = w.hwm
         /\ \A s \in last : s.seq <= w.hwm
         /\ w.seen = {n \in 1..MaxSeals : n > w.hwm - Width /\ \E s \in last : s.seq = n}

UnderHeld(c) == {s \in recorded : s.key = sheld /\ s.channel = c}

(* The committed windows are exact when each is exact for its channel.     *)
LEMMA ExactByChannel ==
    WindowsAreExact <=> \A c \in Channels : ExactFor(swindows[c], sheld, UnderHeld(c))
  BY DEF WindowsAreExact, ExactFor, UnderHeld

(* A window that starts with a stamp is exact for it. *)
LEMMA ExactStarts ==
    ASSUME NEW w \in Windows, NEW s \in Stamps, Fresh(w, s)
    PROVE  ExactFor(Advance(w, s), s.key, {s})
  <1> USE GuardAssumption DEF Windows, Stamps
  <1> DEFINE v == Advance(w, s)
  <1>1. ~Fills(w, s)
    BY DEF Fresh, Fills
  <1>2. /\ v.keySeq = KeySeq[s.key] /\ v.epoch = s.epoch /\ v.hwm = s.seq
        /\ v.seen = {n \in {s.seq} : n > s.seq - Width}
    BY <1>1 DEF Advance
  <1>3. v.seen = {n \in 1..MaxSeals : n > v.hwm - Width /\ n = s.seq}
    BY <1>2
  <1> QED
    BY <1>2, <1>3 DEF ExactFor

(* A window that is exact stays so when an admissible stamp of the same    *)
(* key advances it.                                                        *)
LEMMA ExactGoesOn ==
    ASSUME NEW w \in Windows, NEW s \in Stamps, NEW now \in SUBSET Stamps, now # {},
           ExactFor(w, s.key, now), Admissible(w, s)
    PROVE  ExactFor(Advance(w, s), s.key, now \cup {s})
  <1> USE GuardAssumption DEF Windows, Stamps
  <1> DEFINE v    == Advance(w, s)
             last == {r \in now : r.epoch = w.epoch}
             all  == now \cup {s}
             next == {r \in all : r.epoch = v.epoch}
  <1>1. /\ w.keySeq = KeySeq[s.key]
        /\ \A r \in now : r.epoch <= w.epoch
        /\ \E r \in last : r.seq = w.hwm
        /\ \A r \in last : r.seq <= w.hwm
        /\ w.seen = {n \in 1..MaxSeals : n > w.hwm - Width /\ \E r \in last : r.seq = n}
    BY DEF ExactFor
  <1>2. v.keySeq = KeySeq[s.key] /\ v.epoch = s.epoch
    BY DEF Advance
  <1>3. CASE Fresh(w, s)
    <2>1. s.epoch > w.epoch /\ ~Fills(w, s)
      BY <1>1, <1>3 DEF Fresh, Fills
    <2>2. v.hwm = s.seq /\ v.seen = {n \in {s.seq} : n > s.seq - Width}
      BY <1>3, <2>1 DEF Advance
    <2>3. next = {s}
      BY <1>1, <1>2, <2>1
    <2>4. v.seen = {n \in 1..MaxSeals : n > v.hwm - Width /\ \E r \in next : r.seq = n}
      BY <2>2, <2>3
    <2>5. \A r \in all : r.epoch <= v.epoch
      BY <1>1, <1>2, <2>1
    <2> QED
      BY <1>2, <2>2, <2>3, <2>4, <2>5 DEF ExactFor
  <1>4. CASE ~Fresh(w, s)
    <2>1. s.epoch = w.epoch /\ next = last \cup {s}
      BY <1>1, <1>2, <1>4 DEF Admissible, Fresh, Advances, Fills
    <2>2. v.seen = {n \in w.seen \cup {s.seq} : n > v.hwm - Width}
      BY <1>4 DEF Advance
    <2>3. v.hwm >= w.hwm /\ v.hwm >= s.seq /\ (v.hwm = w.hwm \/ v.hwm = s.seq)
      BY <1>4 DEF Admissible, Advances, Fills, Advance
    <2>4. v.seen = {n \in 1..MaxSeals : n > v.hwm - Width /\ \E r \in next : r.seq = n}
      BY <1>1, <2>1, <2>2, <2>3
    <2>5. /\ \A r \in all : r.epoch <= v.epoch
          /\ \E r \in next : r.seq = v.hwm
          /\ \A r \in next : r.seq <= v.hwm
      BY <1>1, <1>2, <2>1, <2>3
    <2> QED
      BY <1>2, <2>4, <2>5 DEF ExactFor
  <1> QED
    BY <1>3, <1>4

-----------------------------------------------------------------------------
(* The stamp of a running record or re-anchor is under the held key, or    *)
(* its history precedes the held one.                                      *)
LEMMA StampMovesOn ==
    ASSUME GuardTypeOK, WriteShape, BegunAgainstStore, Running, ForEnvelope
    PROVE  /\ write.stamp \in Stamps /\ write.stamp.key \in Keys /\ write.stamp.channel \in Channels
           /\ sheld \in Keys \cup {NoKey}
           /\ sheld = NoKey \/ write.stamp.key = sheld \/ Precedes(write.stamp.key, sheld)
           /\ sheld # NoKey /\ write.stamp.key # sheld /\ write.kind = "record"
                  => KeySeq[write.stamp.key] > KeySeq[sheld]
  BY GuardAssumption
     DEF GuardTypeOK, WriteShape, BegunAgainstStore, ForEnvelope, Precedes, Stamps

(* A commit moves the hold on. *)
LEMMA CommitMovesOn ==
    ASSUME GuardTypeOK, WriteShape, HoldMovesOn, BegunAgainstStore, Running, Commit(write)
    PROVE  HoldMovesOn'
  <1> DEFINE s == write.stamp
  <1>1. CASE write.kind = "forget"
    <2>1. sheld' = NoKey /\ recorded' = {} /\ swindows' = NoWindows
      BY <1>1 DEF Commit, HeldAfter, WindowsAfter
    <2> QED
      BY <2>1 DEF HoldMovesOn, NoWindows
  <1>2. CASE ForEnvelope
    <2>1. sheld' = s.key /\ recorded' = recorded \cup {s} /\ s.key # NoKey
      BY <1>2, StampMovesOn, GuardAssumption DEF Commit, HeldAfter, ForEnvelope
    <2>2. \A r \in recorded : sheld \in Keys /\ r.key \in Keys
                              /\ (r.key = sheld \/ Precedes(sheld, r.key))
      BY StampMovesOn, <1>2 DEF HoldMovesOn, GuardTypeOK, Stamps
    <2>3. \A r \in recorded : r.key = s.key \/ Precedes(s.key, r.key)
      BY <1>2, <2>2, StampMovesOn, PrecedesIsStrict, GuardAssumption
    <2>4. write.window.keySeq = KeySeq[s.key]
      BY <1>2 DEF BegunAgainstStore, Advance, ForEnvelope
    <2>5. ASSUME NEW c \in Channels, swindows'[c] # NoWindow
          PROVE  swindows'[c].keySeq <= KeySeq[s.key]
      <3>0. KeySeq[s.key] \in Nat
        BY <1>2, StampMovesOn, GuardAssumption
      <3>1. CASE c = s.channel
        <4>1. swindows'[c] = write.window
          BY <1>2, <3>1, StampMovesOn DEF Commit, WindowsAfter, ForEnvelope, GuardTypeOK, NoWindows
        <4> QED
          BY <2>4, <3>0, <4>1
      <3>2. CASE c # s.channel
        <4>1. write.kind = "record" /\ swindows'[c] = swindows[c]
          BY <1>2, <2>5, <3>2, StampMovesOn
             DEF Commit, WindowsAfter, ForEnvelope, GuardTypeOK, NoWindows
        <4>2. sheld \in Keys /\ swindows[c].keySeq <= KeySeq[sheld]
          BY <2>5, <4>1 DEF HoldMovesOn, GuardTypeOK
        <4>3. KeySeq[sheld] <= KeySeq[s.key] /\ KeySeq[sheld] \in Nat /\ swindows[c].keySeq \in Int
          BY <1>2, <4>1, <4>2, StampMovesOn, GuardAssumption DEF GuardTypeOK, Windows
        <4> QED
          BY <3>0, <4>1, <4>2, <4>3
      <3> QED
        BY <3>1, <3>2
    <2> QED
      BY <2>1, <2>3, <2>5 DEF HoldMovesOn
  <1> QED
    BY <1>1, <1>2 DEF Running, ForEnvelope, GuardTypeOK, Writes
(* A commit keeps the windows exact: nothing recorded before is under a    *)
(* key the hold moves to, so only the written channel has stamps then.     *)
LEMMA CommitKeepsExact ==
    ASSUME GuardTypeOK, WriteShape, HoldMovesOn, WindowsAreExact, BegunAgainstStore,
           Running, Commit(write)
    PROVE  WindowsAreExact'
  <1> DEFINE s == write.stamp
             Now(c) == {r \in recorded' : r.key = sheld' /\ r.channel = c}
  <1>1. CASE write.kind = "forget"
    <2>1. sheld' = NoKey /\ recorded' = {}
      BY <1>1 DEF Commit, HeldAfter
    <2> QED
      BY <2>1 DEF WindowsAreExact
  <1>2. CASE ForEnvelope
    <2>1. s \in Stamps /\ s.key \in Keys /\ s.channel \in Channels /\ KeySeq[s.key] \in Nat
      BY <1>2, StampMovesOn, GuardAssumption
    <2>2. sheld' = s.key /\ recorded' = recorded \cup {s} /\ s.key # NoKey
      BY <1>2, <2>1, GuardAssumption DEF Commit, HeldAfter, ForEnvelope
    <2>3. swindows'[s.channel] = write.window
      BY <1>2, <2>1, NoWriteTyped DEF Commit, WindowsAfter, ForEnvelope, GuardTypeOK
    <2>4. ASSUME NEW c \in Channels
          PROVE  ExactFor(swindows'[c], s.key, Now(c))
      <3>1. CASE s.key = sheld /\ write.kind = "record"
        <4>1. ExactFor(swindows[c], sheld, UnderHeld(c)) /\ UnderHeld(c) \in SUBSET Stamps
          BY ExactByChannel DEF UnderHeld, GuardTypeOK
        <4>2. CASE c = s.channel
          <5>1. Now(c) = UnderHeld(c) \cup {s}
            BY <2>2, <3>1, <4>2 DEF UnderHeld
          <5>2. /\ swindows[c] \in Windows /\ Admissible(swindows[c], s)
                /\ swindows'[c] = Advance(swindows[c], s)
            BY <2>3, <3>1, <4>2 DEF BegunAgainstStore, GuardTypeOK
          <5>3. CASE UnderHeld(c) = {}
            <6>1. Fresh(swindows[c], s)
              BY <2>2, <3>1, <4>1, <5>3 DEF ExactFor, Fresh
            <6> QED
              BY <2>1, <5>1, <5>2, <5>3, <6>1, ExactStarts
          <5> QED
            BY <2>1, <3>1, <4>1, <5>1, <5>2, <5>3, ExactGoesOn
        <4>3. CASE c # s.channel
          <5>1. Now(c) = UnderHeld(c) /\ swindows'[c] = swindows[c]
            BY <1>2, <2>1, <2>2, <3>1, <4>3 DEF UnderHeld, Commit, WindowsAfter, GuardTypeOK
          <5> QED
            BY <3>1, <4>1, <5>1
        <4> QED
          BY <4>2, <4>3
      <3>2. CASE ~(s.key = sheld /\ write.kind = "record")
        <4>1. s.key # sheld
          BY <1>2, <2>1, <2>2, <3>2, PrecedesIsStrict
             DEF BegunAgainstStore, ForEnvelope, Precedes
        <4>2. \A r \in recorded : r.key # s.key
          BY <2>1, <2>2, <1>2, <4>1, StampMovesOn, PrecedesIsStrict DEF HoldMovesOn
        <4>3. CASE c = s.channel
          <5>1. Now(c) = {s}
            BY <2>2, <4>2, <4>3
          <5>2. PICK w \in Windows : Fresh(w, s) /\ swindows'[c] = Advance(w, s)
            <6>1. CASE write.kind = "record"
              <7>1. swindows[c] \in Windows /\ swindows'[c] = Advance(swindows[c], s)
                BY <2>3, <4>3, <6>1 DEF BegunAgainstStore, GuardTypeOK
              <7>2. swindows[c].keySeq < KeySeq[s.key]
                BY <1>2, <2>1, <2>2, <4>1, <6>1, <7>1, StampMovesOn, GuardAssumption
                   DEF HoldMovesOn, NoWindow, Windows
              <7>3. Fresh(swindows[c], s)
                BY <7>2 DEF Fresh
              <7> QED
                BY <7>1, <7>3
            <6>2. CASE write.kind = "reanchor"
              BY <2>1, <2>3, <4>3, <6>2, FreshAfterNoWindow DEF BegunAgainstStore
            <6> QED
              BY <1>2, <6>1, <6>2 DEF ForEnvelope
          <5> QED
            BY <2>1, <5>1, <5>2, ExactStarts
        <4>4. CASE c # s.channel
          <5>1. Now(c) = {}
            BY <2>2, <4>2, <4>4
          <5>2. swindows'[c] = swindows[c] \/ swindows'[c] = NoWindow
            BY <1>2, <2>1, <4>4 DEF Commit, WindowsAfter, ForEnvelope, GuardTypeOK, NoWindows
          <5>3. swindows'[c].keySeq < KeySeq[s.key]
            <6>1. CASE swindows'[c] = NoWindow
              BY <2>1, <6>1 DEF NoWindow
            <6>2. CASE swindows'[c] # NoWindow
              <7>1. swindows'[c] = swindows[c] /\ write.kind = "record"
                BY <1>2, <2>1, <4>4, <5>2, <6>2
                   DEF Commit, WindowsAfter, ForEnvelope, GuardTypeOK, NoWindows
              <7>2. sheld # NoKey /\ swindows[c].keySeq <= KeySeq[sheld] /\ swindows[c] \in Windows
                BY <6>2, <7>1 DEF HoldMovesOn, GuardTypeOK
              <7> QED
                BY <1>2, <2>1, <4>1, <7>1, <7>2, StampMovesOn, GuardAssumption DEF Windows
            <6> QED
              BY <6>1, <6>2
          <5> QED
            BY <5>1, <5>3 DEF ExactFor
        <4> QED
          BY <4>3, <4>4
      <3> QED
        BY <3>1, <3>2
    <2> QED
      BY <2>2, <2>4 DEF WindowsAreExact, ExactFor
  <1> QED
    BY <1>1, <1>2 DEF Running, ForEnvelope, GuardTypeOK, Writes
-----------------------------------------------------------------------------
(* The store changes by the commit of the running write only. *)
LEMMA StoreChanges ==
    [Next]_vars => UNCHANGED storeVars \/ (Running /\ Commit(write))
  BY DEF Next, vars, Seal, SenderRestarts, Rotates, Admit, Reanchor, Forget, CallerCancelled,
         Settles, SettleTimesOut, WriteStep, WriteCommits, WriteFails, WriteCancelled, Stops,
         ProcessEnds, Starts, GuardKeeps

(* Every step keeps the hold moving on and the windows exact. *)
LEMMA StoreStep ==
    GuardInv /\ [Next]_vars => HoldMovesOn' /\ WindowsAreExact'
  <1> SUFFICES ASSUME GuardInv, [Next]_vars
               PROVE  HoldMovesOn' /\ WindowsAreExact'
    OBVIOUS
  <1>1. CASE UNCHANGED storeVars
    BY <1>1 DEF GuardInv, HoldMovesOn, WindowsAreExact, storeVars
  <1>2. CASE Running /\ Commit(write)
    BY <1>2, CommitMovesOn, CommitKeepsExact DEF GuardInv
  <1> QED
    BY <1>1, <1>2, StoreChanges

(* Where the guard may judge an envelope, memory is the store. *)
LEMMA JudgesByStore ==
    MemoryFollows /\ mode = "armed" /\ ~Unsettled => HeldNow = sheld /\ WindowsNow = swindows
  BY DEF MemoryFollows, Unsettled

(* A judgement leaves no write or one that runs. *)
LEMMA JudgedRuns ==
    (\E s \in sent : Admit(s) \/ Reanchor(s)) \/ Forget
        => write' = NoWrite \/ write'.task = "running"
  <1>1. ASSUME NEW s \in sent, Admit(s)
        PROVE  write' = NoWrite \/ write'.task = "running"
    BY <1>1 DEF Admit, Begins
  <1>2. ASSUME NEW s \in sent, Reanchor(s)
        PROVE  write'.task = "running"
    BY <1>2 DEF Reanchor, Begins
  <1>3. ASSUME Forget
        PROVE  write'.task = "running"
    BY <1>3 DEF Forget, Begins
  <1> QED
    BY <1>1, <1>2, <1>3

(* Once settled there is no write, or one whose outcome nobody knows. *)
LEMMA SettledEnds ==
    ASSUME write \in Writes, Settles
    PROVE  write'.task \notin {"running", "committed"}
  <1>1. CASE write.task = "cancelled"
    <2>1. write' = [write EXCEPT !.waited = FALSE, !.cancelled = FALSE]
      BY <1>1 DEF Settles, Released, Unwaited
    <2>2. write'.task = write.task
      BY <2>1 DEF Writes
    <2> QED
      BY <1>1, <2>2
  <1>2. CASE write.task # "cancelled"
    BY <1>2 DEF Settles, Released, NoWrite
  <1> QED
    BY <1>1, <1>2

(* A caller that is cancelled or leaves changes nothing of what is written. *)
LEMMA SameWrite ==
    ASSUME write \in Writes, CallerCancelled \/ SettleTimesOut
    PROVE  /\ write'.kind = write.kind /\ write'.stamp = write.stamp
           /\ write'.window = write.window /\ write'.task = write.task
           /\ write'.waited => write.waited
  <1>1. CASE CallerCancelled
    BY <1>1 DEF CallerCancelled, Writes
  <1>2. CASE SettleTimesOut
    BY <1>2 DEF SettleTimesOut, Unwaited, Writes
  <1> QED
    BY <1>1, <1>2

(* A write is begun against what the store holds, and while it runs the    *)
(* store does not change.                                                  *)
LEMMA BegunStep == GuardInv /\ [Next]_vars => BegunAgainstStore'
  <1> SUFFICES ASSUME GuardInv, [Next]_vars
               PROVE  BegunAgainstStore'
    OBVIOUS
  <1> USE DEF GuardInv
  <1>1. ASSUME NEW s \in sent, Admit(s)
        PROVE  BegunAgainstStore'
    <2>1. HeldNow = sheld /\ WindowsNow = swindows
      BY <1>1, JudgesByStore DEF Admit
    <2>2. sheld' = sheld /\ swindows' = swindows
      BY <1>1 DEF Admit, GuardKeeps, storeVars
    <2>3. CASE write' = NoWrite
      BY <2>3 DEF BegunAgainstStore, Running, NoWrite
    <2>4. CASE write' # NoWrite
      <3>1. KeepsHeld(s) /\ Admissible(swindows[s.channel], s)
        BY <1>1, <2>1, <2>4 DEF Admit
      <3>2. write' = [kind |-> "record", stamp |-> s, window |-> Advance(swindows[s.channel], s),
                      task |-> "running", waited |-> TRUE, cancelled |-> FALSE]
        BY <1>1, <2>1, <2>4 DEF Admit, Begins
      <3> QED
        BY <2>1, <2>2, <3>1, <3>2 DEF BegunAgainstStore, KeepsHeld
    <2> QED
      BY <2>3, <2>4
  <1>2. ASSUME NEW s \in sent, Reanchor(s)
        PROVE  BegunAgainstStore'
    <2>1. HeldNow = sheld
      BY <1>2, JudgesByStore DEF Reanchor
    <2>2. sheld' = sheld
      BY <1>2 DEF Reanchor, GuardKeeps, storeVars
    <2> QED
      BY <1>2, <2>1, <2>2 DEF Reanchor, Begins, BegunAgainstStore
  <1>3. ASSUME Forget
        PROVE  BegunAgainstStore'
    BY <1>3 DEF Forget, Begins, BegunAgainstStore
  <1>4. ASSUME WriteStep
        PROVE  BegunAgainstStore'
    BY <1>4 DEF WriteStep, WriteCommits, WriteFails, WriteCancelled, WriteEnds, Running,
                BegunAgainstStore, GuardTypeOK, Writes
  <1>5. ASSUME CallerCancelled \/ SettleTimesOut
        PROVE  BegunAgainstStore'
    <2>1. UNCHANGED storeVars
      BY <1>5 DEF CallerCancelled, SettleTimesOut
    <2> QED
      BY <1>5, <2>1, SameWrite DEF BegunAgainstStore, Running, storeVars, GuardTypeOK
  <1>6. ASSUME Settles
        PROVE  BegunAgainstStore'
    BY <1>6, SettledEnds DEF BegunAgainstStore, Running, GuardTypeOK
  <1>7. ASSUME ProcessEnds
        PROVE  BegunAgainstStore'
    BY <1>7 DEF ProcessEnds, NoWrite, Running, BegunAgainstStore
  <1>8. CASE UNCHANGED <<storeVars, write>>
    BY <1>8 DEF BegunAgainstStore, Running, storeVars
  <1> QED
    BY <1>1, <1>2, <1>3, <1>4, <1>5, <1>6, <1>7, <1>8
       DEF Next, vars, Seal, SenderRestarts, Rotates, Stops, Starts
(* Memory keeps following the store. *)
LEMMA MemoryStep == GuardInv /\ [Next]_vars => MemoryFollows'
  <1> SUFFICES ASSUME GuardInv, [Next]_vars, mode' = "armed",
                      (write.kind # "none" => write.task # "cancelled")'
               PROVE  HeldNow' = sheld' /\ WindowsNow' = swindows'
    BY DEF MemoryFollows
  <1> USE DEF GuardInv
  <1>1. ASSUME (\E s \in sent : Admit(s) \/ Reanchor(s)) \/ Forget
        PROVE  HeldNow' = sheld' /\ WindowsNow' = swindows'
    <2>1. HeldNow = sheld /\ WindowsNow = swindows
      BY <1>1, JudgesByStore DEF Admit, Reanchor, Forget
    <2>2. held' = HeldNow /\ windows' = WindowsNow /\ UNCHANGED storeVars
      BY <1>1 DEF Admit, Reanchor, Forget, GuardKeeps
    <2>3. write'.task # "committed"
      <3>1. write' = NoWrite \/ write'.task = "running"
        BY <1>1, JudgedRuns
      <3> QED
        BY <3>1 DEF NoWrite
    <2> QED
      BY <2>1, <2>2, <2>3 DEF HeldNow, WindowsNow, storeVars
  <1>2. ASSUME WriteStep
        PROVE  HeldNow' = sheld' /\ WindowsNow' = swindows'
    <2>1. /\ Running /\ mode = "armed" /\ held' = held /\ windows' = windows
          /\ held = sheld /\ windows = swindows
      BY <1>2 DEF WriteStep, WriteCommits, WriteFails, WriteCancelled, WriteEnds, memoryVars,
                  Running, MemoryFollows, HeldNow, WindowsNow
    <2>2. CASE WriteCommits
      <3>1. write' = [write EXCEPT !.task = "committed"]
        BY <2>2 DEF WriteCommits, WriteEnds
      <3>2. /\ write'.kind = write.kind /\ write'.stamp = write.stamp
            /\ write'.window = write.window /\ write'.task = "committed"
        BY <3>1 DEF GuardTypeOK, Writes
      <3>3. sheld' = HeldAfter(write, sheld) /\ swindows' = WindowsAfter(write, swindows)
        BY <2>2 DEF WriteCommits, Commit
      <3>4. HeldAfter(write', held') = HeldAfter(write, held)
        BY <2>1, <3>2 DEF HeldAfter
      <3>5. WindowsAfter(write', windows') = WindowsAfter(write, windows)
        BY <2>1, <3>2 DEF WindowsAfter
      <3> QED
        BY <2>1, <3>2, <3>3, <3>4, <3>5 DEF HeldNow, WindowsNow
    <2>3. CASE WriteFails
      BY <2>1, <2>3 DEF WriteFails, WriteEnds, storeVars, HeldNow, WindowsNow, GuardTypeOK, Writes
    <2>4. CASE WriteCancelled
      BY <2>1, <2>4 DEF WriteCancelled, WriteEnds, Running, GuardTypeOK, Writes
    <2> QED
      BY <1>2, <2>2, <2>3, <2>4 DEF WriteStep
  <1>3. ASSUME Settles
        PROVE  HeldNow' = sheld' /\ WindowsNow' = swindows'
    <2>1. write.kind # "none" /\ mode = "armed"
      BY <1>3, WaitedIsWrite DEF Settles, GuardTypeOK
    <2>2. write.task # "cancelled" /\ write' = NoWrite
      BY <1>3, <2>1 DEF Settles, Released, Unwaited, GuardTypeOK, Writes
    <2>3. HeldNow = sheld /\ WindowsNow = swindows
      BY <2>1, <2>2 DEF MemoryFollows
    <2> QED
      BY <1>3, <2>2, <2>3 DEF Settles, NoWrite, HeldNow, WindowsNow, storeVars
  <1>4. ASSUME CallerCancelled \/ SettleTimesOut
        PROVE  HeldNow' = sheld' /\ WindowsNow' = swindows'
    <2>1. /\ write'.kind = write.kind /\ write'.stamp = write.stamp
          /\ write'.window = write.window /\ write'.task = write.task
      BY <1>4, SameWrite DEF GuardTypeOK
    <2>2. mode = "armed" /\ UNCHANGED <<held, windows, sheld, swindows>>
      BY <1>4 DEF CallerCancelled, SettleTimesOut, memoryVars, storeVars
    <2>3. HeldNow = sheld /\ WindowsNow = swindows
      BY <2>1, <2>2 DEF MemoryFollows
    <2>4. HeldAfter(write', held') = HeldAfter(write, held)
      BY <2>1, <2>2 DEF HeldAfter
    <2>5. WindowsAfter(write', windows') = WindowsAfter(write, windows)
      BY <2>1, <2>2 DEF WindowsAfter
    <2> QED
      BY <2>1, <2>2, <2>3, <2>4, <2>5 DEF HeldNow, WindowsNow
  <1>5. ASSUME Starts
        PROVE  HeldNow' = sheld' /\ WindowsNow' = swindows'
    BY <1>5 DEF Starts, WriteShape, NoWrite, HeldNow, WindowsNow, storeVars
  <1>6. CASE UNCHANGED <<mode, memoryVars, storeVars, write>>
    BY <1>6 DEF memoryVars, storeVars, MemoryFollows, HeldNow, WindowsNow
  <1> QED
    BY <1>1, <1>2, <1>3, <1>4, <1>5, <1>6
       DEF Next, vars, Seal, SenderRestarts, Rotates, Stops, ProcessEnds
-----------------------------------------------------------------------------
(* The stamp of a running write is not recorded yet. *)
LEMMA RunningIsNew ==
    ASSUME GuardInv, Running, ForEnvelope
    PROVE  write.stamp \notin recorded
  <1> USE DEF GuardInv
  <1>1. CASE write.kind = "record"
    BY <1>1, StampMovesOn, AdmissibleIsNew DEF BegunAgainstStore
  <1>2. CASE write.kind = "reanchor"
    <2>1. /\ sheld \in Keys /\ write.stamp.key \in Keys
          /\ Precedes(write.stamp.key, sheld) /\ write.stamp.key # sheld
      BY <1>2, StampMovesOn, PrecedesIsStrict DEF BegunAgainstStore, Precedes
    <2> QED
      BY <2>1, PrecedesIsStrict DEF HoldMovesOn
  <1> QED
    BY <1>1, <1>2 DEF ForEnvelope

(* Every step delivers only what is recorded, and nothing twice. *)
LEMMA DeliveredStep ==
    GuardInv /\ [Next]_vars => DeliveredIsRecorded' /\ DeliveredOnce'
  <1> SUFFICES ASSUME GuardInv, [Next]_vars
               PROVE  DeliveredIsRecorded' /\ DeliveredOnce'
    OBVIOUS
  <1> USE DEF GuardInv
  <1>1. ASSUME (\E s \in sent : Admit(s) \/ Reanchor(s)) \/ Forget \/ ProcessEnds
        PROVE  DeliveredIsRecorded' /\ DeliveredOnce'
    <2>1. write' = NoWrite \/ write'.task = "running"
      BY <1>1, JudgedRuns DEF ProcessEnds
    <2>2. write'.task # "committed"
      BY <2>1 DEF NoWrite
    <2>3. UNCHANGED <<storeVars, deliveryVars>>
      BY <1>1 DEF Admit, Reanchor, Forget, ProcessEnds, GuardKeeps
    <2> QED
      BY <2>2, <2>3 DEF DeliveredIsRecorded, DeliveredOnce, ForEnvelope, storeVars, deliveryVars
  <1>2. ASSUME WriteStep
        PROVE  DeliveredIsRecorded' /\ DeliveredOnce'
    <2>1. PICK how \in {"committed", "failed", "cancelled"} :
              /\ Running /\ WriteEnds(how)
              /\ Commit(write) \/ (how # "committed" /\ UNCHANGED <<storeVars, deliveryVars>>)
      BY <1>2 DEF WriteStep, WriteCommits, WriteFails, WriteCancelled
    <2>2. /\ write'.kind = write.kind /\ write'.stamp = write.stamp
          /\ write'.waited = write.waited /\ write'.task = how
      BY <2>1 DEF WriteEnds, GuardTypeOK, Writes
    <2>3. CASE Commit(write) /\ ForEnvelope
      <3>1. recorded' = recorded \cup {write.stamp} /\ delivered' = delivered /\ again' = again
        BY <2>3 DEF Commit, ForEnvelope, deliveryVars
      <3>2. write.stamp \notin delivered
        BY <2>1, <2>3, RunningIsNew DEF DeliveredIsRecorded
      <3> QED
        BY <2>2, <3>1, <3>2 DEF DeliveredIsRecorded, DeliveredOnce
    <2>4. CASE Commit(write) /\ ~ForEnvelope
      <3>1. delivered' = {} /\ again' = {}
        BY <2>1, <2>4 DEF Commit, ForEnvelope, Running, GuardTypeOK, Writes
      <3> QED
        BY <2>2, <2>4, <3>1 DEF DeliveredIsRecorded, DeliveredOnce, ForEnvelope
    <2>5. CASE how # "committed" /\ UNCHANGED <<storeVars, deliveryVars>>
      BY <2>2, <2>5 DEF DeliveredIsRecorded, DeliveredOnce, storeVars, deliveryVars
    <2> QED
      BY <2>1, <2>3, <2>4, <2>5
  <1>3. ASSUME Settles
        PROVE  DeliveredIsRecorded' /\ DeliveredOnce'
    <2>1. write'.task # "committed"
      BY <1>3, SettledEnds DEF GuardTypeOK
    <2>2. recorded' = recorded
      BY <1>3 DEF Settles, storeVars
    <2>3. CASE Delivers
      <3>1. write.kind # "none"
        BY <1>3, WaitedIsWrite DEF Settles, GuardTypeOK
      <3>2. ForEnvelope /\ write.task = "committed" /\ write.waited
        BY <1>3, <2>3, <3>1 DEF Settles, Delivers, ForEnvelope, GuardTypeOK, Writes
      <3>3. write.stamp \in recorded /\ write.stamp \notin delivered
        BY <3>2 DEF DeliveredIsRecorded
      <3>4. delivered' = delivered \cup {write.stamp} /\ again' = again
        BY <1>3, <2>3, <3>3 DEF Settles, Deliver
      <3> QED
        BY <2>1, <2>2, <3>3, <3>4 DEF DeliveredIsRecorded, DeliveredOnce
    <2>4. CASE ~Delivers
      BY <1>3, <2>1, <2>2, <2>4 DEF Settles, deliveryVars, DeliveredIsRecorded, DeliveredOnce
    <2> QED
      BY <2>3, <2>4
  <1>4. ASSUME CallerCancelled \/ SettleTimesOut
        PROVE  DeliveredIsRecorded' /\ DeliveredOnce'
    <2>1. /\ write'.kind = write.kind /\ write'.stamp = write.stamp /\ write'.task = write.task
          /\ write'.waited => write.waited
      BY <1>4, SameWrite DEF GuardTypeOK
    <2>2. UNCHANGED <<storeVars, deliveryVars>>
      BY <1>4 DEF CallerCancelled, SettleTimesOut
    <2> QED
      BY <2>1, <2>2 DEF DeliveredIsRecorded, DeliveredOnce, ForEnvelope, storeVars, deliveryVars
  <1>5. CASE UNCHANGED <<storeVars, deliveryVars, write>>
    BY <1>5 DEF DeliveredIsRecorded, DeliveredOnce, ForEnvelope, storeVars, deliveryVars
  <1> QED
    BY <1>1, <1>2, <1>3, <1>4, <1>5 DEF Next, vars, Seal, SenderRestarts, Rotates, Stops, Starts
-----------------------------------------------------------------------------
(* The inductive invariant holds initially. *)
LEMMA GuardInvInit == Init => GuardInv
  <1> SUFFICES ASSUME Init
               PROVE  GuardInv
    OBVIOUS
  <1> USE GuardAssumption DEF Init
  <1>1. GuardTypeOK /\ seq <= seals /\ WriteShape
    BY NoWriteTyped DEF GuardTypeOK, WriteShape, ForEnvelope, NoWrite
  <1>2. HoldMovesOn /\ WindowsAreExact
    BY DEF HoldMovesOn, WindowsAreExact, NoWindows
  <1>3. BegunAgainstStore /\ MemoryFollows /\ DeliveredIsRecorded /\ DeliveredOnce
    BY DEF BegunAgainstStore, Running, MemoryFollows, HeldNow, WindowsNow, DeliveredIsRecorded,
           DeliveredOnce, ForEnvelope, NoWrite
  <1> QED
    BY <1>1, <1>2, <1>3 DEF GuardInv

(* Every step keeps the inductive invariant. *)
LEMMA GuardInvStep == GuardInv /\ [Next]_vars => GuardInv'
  BY GuardTypeStep, StoreStep, BegunStep, MemoryStep, DeliveredStep DEF GuardInv

(* In every state the inductive invariant holds. *)
THEOREM GuardInvariant == Spec => []GuardInv
  BY GuardInvInit, GuardInvStep, PTL DEF Spec

(* In every state everything has its type. *)
THEOREM GuardTypes == Spec => []GuardTypeOK
  BY GuardInvariant, PTL DEF GuardInv

(* No envelope is delivered twice between two resets, whatever the network *)
(* repeats or reorders, whoever is cancelled, however a write ends and     *)
(* wherever the process does (AD-1197).                                    *)
THEOREM DeliveredAtMostOnce == Spec => []DeliveredOnce
  BY GuardInvariant, PTL DEF GuardInv

(* The committed windows refuse precisely what was recorded under the held *)
(* key within their reach, and what is behind it.                          *)
THEOREM ExactWindows == Spec => []WindowsAreExact
  BY GuardInvariant, PTL DEF GuardInv

(* A guard that may judge an envelope judges it by what the store holds    *)
(* (AD-1198 A-1, A-2).                                                     *)
THEOREM MemoryHoldsStore == Spec => []MemoryIsStore
  <1>1. GuardInv => MemoryIsStore
    BY JudgesByStore DEF GuardInv, MemoryIsStore
  <1> QED
    BY <1>1, GuardInvariant, PTL

(* The history held for the sender is never rolled back between two        *)
(* resets: it continues, or took precedence over, the history of every key *)
(* under which an envelope was recorded (AD-1198 slice 2b).                *)
THEOREM HoldKept == Spec => []HoldNeverRollsBack
  <1>1. GuardInv => HoldNeverRollsBack
    BY DEF GuardInv, HoldMovesOn, Precedes, HoldNeverRollsBack
  <1> QED
    BY <1>1, GuardInvariant, PTL

(* The store refuses no write of its only guard as moving backwards: a     *)
(* conflict means that a second process writes to it.                      *)
THEOREM NoConflicts == Spec => []NoConflict
  <1>1. ASSUME GuardInv, Running
        PROVE  ~Conflicts(write)
    <2>1. CASE write.kind = "record"
      <3> DEFINE s == write.stamp
                 w == swindows[s.channel]
      <3>1. /\ s \in Stamps /\ s.channel \in Channels /\ w \in Windows
            /\ Admissible(w, s) /\ write.window = Advance(w, s)
        BY <1>1, <2>1, StampMovesOn DEF GuardInv, ForEnvelope, BegunAgainstStore, GuardTypeOK
      <3>2. sheld # NoKey /\ s.key # sheld => KeySeq[s.key] > KeySeq[sheld] /\ sheld \in Keys
        BY <1>1, <2>1, StampMovesOn DEF GuardInv, ForEnvelope
      <3>3. ASSUME Fills(w, s)
            PROVE  \A n \in w.seen : n > w.hwm - Width
        <4>1. w.keySeq = KeySeq[s.key] /\ w # NoWindow /\ s.key \in Keys
          BY <3>1, <3>3, GuardAssumption DEF Fills, NoWindow, Stamps
        <4>2. sheld \in Keys /\ w.keySeq <= KeySeq[sheld]
          BY <1>1, <3>1, <4>1 DEF GuardInv, HoldMovesOn, GuardTypeOK
        <4>3. s.key = sheld
          BY <3>1, <3>2, <4>1, <4>2, GuardAssumption
        <4>4. ExactFor(w, sheld, UnderHeld(s.channel))
          BY <1>1, <3>1, ExactByChannel DEF GuardInv
        <4>5. UnderHeld(s.channel) # {}
          BY <4>1, <4>2, <4>3, <4>4, GuardAssumption DEF ExactFor
        <4> QED
          BY <4>4, <4>5 DEF ExactFor
      <3>4. MovesForward(w, write.window)
        BY <3>1, <3>3, AdvanceMovesForward
      <3> QED
        BY <2>1, <3>1, <3>2, <3>4, GuardAssumption DEF Conflicts, Stamps
    <2>2. CASE write.kind # "record"
      BY <1>1, <2>2 DEF Conflicts, GuardInv, BegunAgainstStore
    <2> QED
      BY <2>1, <2>2
  <1>2. GuardInv => NoConflict
    BY <1>1 DEF NoConflict
  <1> QED
    BY <1>2, GuardInvariant, PTL
-----------------------------------------------------------------------------
(* The key, epoch and number of the envelopes sealed so far. *)
Label(s) == [key |-> s.key, epoch |-> s.epoch, seq |-> s.seq]
Labels == {Label(s) : s \in sent}

(* Every envelope sealed has a label behind the sender's next one, and     *)
(* there are as many labels as there were calls of seal.                   *)
SealInv == SealedBehind /\ IsFiniteSet(Labels) /\ Cardinality(Labels) = seals

(* No step seals a label twice: the number grows in a life of the sender,  *)
(* and the epoch with every life.                                          *)
LEMMA SealStep == GuardTypeOK /\ SealInv /\ [Next]_vars => SealInv'
  <1> SUFFICES ASSUME GuardTypeOK, SealInv, [Next]_vars
               PROVE  SealInv'
    OBVIOUS
  <1> USE GuardAssumption DEF GuardTypeOK, SealInv
  <1>1. ASSUME NEW c \in Channels, Seal(c)
        PROVE  SealInv'
    <2> DEFINE stamp == [key |-> key, epoch |-> epoch, seq |-> seq + 1, channel |-> c]
    <2>1. /\ sent' = sent \cup {stamp} /\ seq' = seq + 1 /\ seals' = seals + 1
          /\ epoch' = epoch
      BY <1>1 DEF Seal
    <2>2. Labels' = Labels \cup {Label(stamp)}
      BY <2>1 DEF Labels
    <2>3. Label(stamp) \notin Labels
      <3> SUFFICES ASSUME NEW s \in sent, Label(s) = Label(stamp)
                   PROVE  FALSE
        BY DEF Labels
      <3>1. s.epoch = epoch /\ s.seq = seq + 1
        BY DEF Label
      <3> QED
        BY <3>1 DEF SealedBehind
    <2>4. IsFiniteSet(Labels') /\ Cardinality(Labels') = Cardinality(Labels) + 1
      BY <2>2, <2>3, FS_AddElement
    <2>5. SealedBehind'
      BY <2>1 DEF SealedBehind, Stamps
    <2> QED
      BY <2>1, <2>4, <2>5
  <1>2. ASSUME SenderRestarts
        PROVE  SealInv'
    BY <1>2 DEF SenderRestarts, SealedBehind, Labels, Stamps
  <1>3. CASE UNCHANGED <<epoch, seq, sent, seals>>
    BY <1>3 DEF SealedBehind, Labels
  <1> QED
    BY <1>1, <1>2, <1>3
       DEF Next, vars, senderVars, Rotates, Admit, Reanchor, Forget, CallerCancelled, Settles,
           SettleTimesOut, WriteStep, WriteCommits, WriteFails, WriteCancelled, WriteEnds, Stops,
           ProcessEnds, Starts, GuardKeeps

(* No two envelopes share a key, an epoch and a number, however often the  *)
(* sender restarts and rotates its key.                                    *)
THEOREM UniqueStamps == Spec => []StampsAreUnique
  <1>1. Init => SealInv
    <2> SUFFICES ASSUME Init
                 PROVE  SealInv
      OBVIOUS
    <2>1. Labels = {} /\ seals = 0 /\ SealedBehind
      BY DEF Init, Labels, SealedBehind
    <2> QED
      BY <2>1, FS_EmptySet DEF SealInv
  <1>2. SealInv => StampsAreUnique
    BY DEF SealInv, StampsAreUnique, Labels, Label
  <1> QED
    BY <1>1, <1>2, SealStep, GuardTypes, PTL DEF Spec
=============================================================================
