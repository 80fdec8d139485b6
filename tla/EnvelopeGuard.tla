--------------------------- MODULE EnvelopeGuard ---------------------------
(***************************************************************************)
(* Signed federation envelopes (src/probos/federation/envelope.py over     *)
(* src/probos/federation_envelope_store.py): one ship seals its envelopes  *)
(* with a key, an epoch and a sequence number; the network keeps every     *)
(* envelope and may bring it any number of times, in any order; the guard  *)
(* of a receiving ship admits each through a replay window per channel     *)
(* that is committed before the envelope is delivered.                     *)
(*                                                                         *)
(* Admissions, resyncs and resets exclude each other by the accept lock;   *)
(* the store's write runs in a task of its own, which the lock's holder    *)
(* waits for no longer than STORE_WRITE_SETTLE_S.  What the holder awaits  *)
(* before its write is part of its step: key_ids and before_record for an  *)
(* admission, the entry of holding() for a reset.  None of them is bounded *)
(* in the code, so nothing here says that the lock is ever released.  The  *)
(* store is a row per window and one for the held key, and survives the    *)
(* end of the process.                                                     *)
(*                                                                         *)
(* A key history is known by its newest event (a key), a replay window's   *)
(* bit mask by the set of the sequence numbers it marks.  Left out: the    *)
(* identity pins, unsigned envelopes, histories of more than 32 events     *)
(* (key history gap), and every check of one envelope by itself.           *)
(***************************************************************************)
EXTENDS Integers, FiniteSets

CONSTANTS
    Keys,       \* the keys of the sending ship, each the newest event of a history
    KeySeq,     \* [Keys -> Nat]: the number of that event in its history
    Extends,    \* SUBSET (Keys \X Keys): <<k, j>> when k's history continues j's
    Overrides,  \* SUBSET (Keys \X Keys): <<k, j>> when k's history parts from j's by a recovery
    FirstKey,   \* the key the ship starts with
    NoKey,      \* nothing is held
    Channels,   \* the replay channels of a source; resyncs use the directed one
    Direct,
    Width,      \* REPLAY_WINDOW
    MaxEpoch, MaxSeals, MaxResets, MaxEnds  \* bounds: starts of the sender, envelopes, resets
                                            \* begun, ends of the receiver's process

ASSUME GuardAssumption ==
    /\ KeySeq \in [Keys -> Nat] /\ FirstKey \in Keys /\ NoKey \notin Keys
    /\ Extends \subseteq Keys \X Keys /\ Overrides \subseteq Keys \X Keys
    /\ \A k, j \in Keys : <<k, j>> \in Extends => KeySeq[k] > KeySeq[j]
    /\ \A k, j \in Keys : <<k, j>> \in Overrides => <<k, j>> \notin Extends /\ k # j
       \* where two histories part, a recovery precedes what is none, and a
       \* history that goes on one that ends: a strict order
    /\ \A k, j, i \in Keys :
           <<k, j>> \in Extends \cup Overrides /\ <<j, i>> \in Extends \cup Overrides
               => <<k, i>> \in Extends \cup Overrides
    /\ Direct \in Channels
    /\ Width \in Nat \ {0}
    /\ MaxEpoch \in Nat \ {0} /\ MaxSeals \in Nat /\ MaxResets \in Nat /\ MaxEnds \in Nat

VARIABLES
    key, epoch, seq,  \* the sender: its active key, _epoch and _seq
    sent,             \* SUBSET Stamps: the envelopes sealed
    mode,             \* the guard's _mode, or "down" while the process is not there
    held, windows,    \* _holds and _windows: what the guard holds in memory
    sheld, swindows,  \* envelope_senders and envelope_windows: what the store holds
    write,            \* the store write that is waited for or unsettled
    seals,            \* ghost: calls of seal that signed
    resets, ends,     \* ghost: resets begun and ends of the process so far
    recorded,         \* ghost, SUBSET Stamps: committed since the last reset
    delivered, again  \* ghost, SUBSET Stamps: delivered, and delivered again, since then

senderVars == <<key, epoch, seq, sent, seals>>
memoryVars == <<held, windows>>
storeVars == <<sheld, swindows, recorded>>
deliveryVars == <<delivered, again>>
vars == <<senderVars, mode, memoryVars, storeVars, deliveryVars, write, resets, ends>>

Stamps == [key : Keys, epoch : 1..MaxEpoch, seq : 1..MaxSeals, channel : Channels]

NoWindow == [keySeq |-> -1, epoch |-> 0, hwm |-> 0, seen |-> {}]
Windows == [keySeq : Nat \cup {-1}, epoch : 0..MaxEpoch, hwm : 0..MaxSeals,
            seen : SUBSET (1..MaxSeals)]
NoWindows == [c \in Channels |-> NoWindow]

\* A write: what it does, the stamp it is for, the window it records, how far
\* its task is, whether it is waited for, whether the waiting caller was
\* cancelled.
NoStamp == [key |-> NoKey, epoch |-> 0, seq |-> 0, channel |-> Direct]
NoWrite == [kind |-> "none", stamp |-> NoStamp, window |-> NoWindow, task |-> "failed",
            waited |-> FALSE, cancelled |-> FALSE]
Writes == [kind : {"none", "record", "reanchor", "forget"}, stamp : Stamps \cup {NoStamp},
           window : Windows, task : {"running", "committed", "failed", "cancelled"},
           waited : BOOLEAN, cancelled : BOOLEAN]

GuardTypeOK ==
    /\ key \in Keys /\ epoch \in 1..MaxEpoch /\ seq \in 0..MaxSeals
    /\ sent \subseteq Stamps /\ seals \in 0..MaxSeals
    /\ mode \in {"armed", "closed", "stopped", "down"}
    /\ held \in Keys \cup {NoKey} /\ sheld \in Keys \cup {NoKey}
    /\ windows \in [Channels -> Windows] /\ swindows \in [Channels -> Windows]
    /\ write \in Writes
    /\ resets \in 0..MaxResets /\ ends \in 0..MaxEnds
    /\ recorded \subseteq sent /\ delivered \subseteq sent /\ again \subseteq delivered

Init ==
    /\ key = FirstKey /\ epoch = 1 /\ seq = 0 /\ sent = {} /\ seals = 0
    /\ mode = "armed"
    /\ held = NoKey /\ windows = NoWindows /\ sheld = NoKey /\ swindows = NoWindows
    /\ write = NoWrite /\ resets = 0 /\ ends = 0
    /\ recorded = {} /\ delivered = {} /\ again = {}

-----------------------------------------------------------------------------
(* The sending ship. *)

\* _sign_locked: the number is taken once the envelope is signed.
Seal(c) ==
    /\ seals < MaxSeals
    /\ seq' = seq + 1
    /\ sent' = sent \cup {[key |-> key, epoch |-> epoch, seq |-> seq + 1, channel |-> c]}
    /\ seals' = seals + 1
    /\ UNCHANGED <<key, epoch, mode, memoryVars, storeVars, deliveryVars, write, resets, ends>>

\* A slip: the next start goes on with the committed epoch.
SenderKeepsEpoch ==
    /\ epoch < MaxEpoch /\ seq > 0
    /\ epoch' = epoch /\ seq' = 0
    /\ UNCHANGED <<key, sent, seals, mode, memoryVars, storeVars, deliveryVars, write, resets, ends>>

\* The sender's process ends and starts: next_send_epoch commits before
\* anything is sealed.
SenderRestarts ==
    /\ epoch < MaxEpoch /\ seq > 0   \* bound: a life that seals nothing is not counted
    /\ epoch' = epoch + 1 /\ seq' = 0
    /\ UNCHANGED <<key, sent, seals, mode, memoryVars, storeVars, deliveryVars, write, resets, ends>>

\* The ship's key is rotated, or recovered from an earlier event.
Rotates(k) ==
    /\ <<k, key>> \in Extends \cup Overrides
    /\ key' = k
    /\ UNCHANGED <<epoch, seq, sent, seals, mode, memoryVars, storeVars, deliveryVars, write,
                   resets, ends>>

-----------------------------------------------------------------------------
(* advance_window and _moves_forward. *)

\* A slip: the oldest number the mask still marks counts as too old to judge.
FillsOneMore(w, s) ==
    /\ KeySeq[s.key] = w.keySeq /\ s.epoch = w.epoch /\ s.seq <= w.hwm
    /\ s.seq >= w.hwm - Width /\ s.seq \notin w.seen

Fresh(w, s) ==
    KeySeq[s.key] > w.keySeq \/ (KeySeq[s.key] = w.keySeq /\ s.epoch > w.epoch)
Advances(w, s) == KeySeq[s.key] = w.keySeq /\ s.epoch = w.epoch /\ s.seq > w.hwm
Fills(w, s) ==
    /\ KeySeq[s.key] = w.keySeq /\ s.epoch = w.epoch /\ s.seq <= w.hwm
    /\ s.seq > w.hwm - Width /\ s.seq \notin w.seen

\* Not refused as a stale key, a stale epoch, too old or a duplicate.
Admissible(w, s) == Fresh(w, s) \/ Advances(w, s) \/ Fills(w, s)

\* The window after admitting an admissible stamp.
Advance(w, s) ==
    LET hwm == IF Fills(w, s) THEN w.hwm ELSE s.seq
        seen == IF Fresh(w, s) THEN {s.seq} ELSE w.seen \cup {s.seq}
    IN [keySeq |-> KeySeq[s.key], epoch |-> s.epoch, hwm |-> hwm,
        seen |-> {n \in seen : n > hwm - Width}]

MovesForward(w, v) ==
    \/ v.keySeq > w.keySeq
    \/ v.keySeq = w.keySeq /\ v.epoch > w.epoch
    \/ v.keySeq = w.keySeq /\ v.epoch = w.epoch /\ v.hwm > w.hwm
    \/ v.keySeq = w.keySeq /\ v.epoch = w.epoch /\ v.hwm = w.hwm /\ w.seen \subseteq v.seen

-----------------------------------------------------------------------------
(* A store write and its outcome. *)

\* What write w makes of a held key and of windows: the transaction on the
\* store, and publish on memory.
HeldAfter(w, h) ==
    CASE w.kind = "forget" -> NoKey
      [] w.kind \in {"record", "reanchor"} -> w.stamp.key
      [] OTHER -> h

\* A slip: a re-anchor leaves the other channels' windows in the store.
WindowsKept(w, ws) ==
    CASE w.kind = "forget" -> NoWindows
      [] w.kind \in {"record", "reanchor"} -> [ws EXCEPT ![w.stamp.channel] = w.window]
      [] OTHER -> ws

WindowsAfter(w, ws) ==
    CASE w.kind = "forget" -> NoWindows
      [] w.kind = "record" -> [ws EXCEPT ![w.stamp.channel] = w.window]
      [] w.kind = "reanchor" -> [NoWindows EXCEPT ![w.stamp.channel] = w.window]
      [] OTHER -> ws

\* EnvelopeStateConflict: a record moves the hold and the window forward only,
\* a re-anchor needs a hold.
Conflicts(w) ==
    \/ /\ w.kind = "record"
       /\ \/ ~MovesForward(swindows[w.stamp.channel], w.window)
          \/ sheld # NoKey /\ sheld # w.stamp.key /\ KeySeq[w.stamp.key] <= KeySeq[sheld]
    \/ w.kind = "reanchor" /\ sheld = NoKey

Commit(w) ==
    /\ sheld' = HeldAfter(w, sheld) /\ swindows' = WindowsAfter(w, swindows)
    /\ recorded' = IF w.kind = "forget" THEN {} ELSE recorded \cup {w.stamp}
    /\ IF w.kind = "forget" THEN delivered' = {} /\ again' = {} ELSE UNCHANGED deliveryVars

Running == write.kind # "none" /\ write.task = "running"
WriteEnds(how) ==
    /\ write' = [write EXCEPT !.task = how]
    /\ UNCHANGED <<senderVars, mode, memoryVars, resets, ends>>

\* A write that outlives its caller commits all the same.
WriteCommits ==
    /\ Running /\ ~Conflicts(write)
    /\ Commit(write)
    /\ WriteEnds("committed")
WriteFails ==
    /\ Running
    /\ WriteEnds("failed") /\ UNCHANGED <<storeVars, deliveryVars>>
\* The write's own task is cancelled: aiosqlite completes a COMMIT it has
\* begun, so the store may hold the write or not, and nobody is told.
WriteCancelled ==
    /\ Running
    /\ \/ Commit(write) /\ ~Conflicts(write)
       \/ UNCHANGED <<storeVars, deliveryVars>>
    /\ WriteEnds("cancelled")

WriteStep == WriteCommits \/ WriteFails \/ WriteCancelled

-----------------------------------------------------------------------------
(* The guard. *)

LockFree == ~write.waited
\* outcome(late=True): while a write is running or was cancelled, nothing is
\* admitted; one that has ended is let go, and what it committed is held.
Unsettled == write.kind # "none" /\ write.task \in {"running", "cancelled"}
HeldNow == IF write.task = "committed" THEN HeldAfter(write, held) ELSE held
WindowsNow == IF write.task = "committed" THEN WindowsAfter(write, windows) ELSE windows

Begins(kind, s, w) ==
    write' = [kind |-> kind, stamp |-> s, window |-> w, task |-> "running",
              waited |-> TRUE, cancelled |-> FALSE]
GuardKeeps == UNCHANGED <<senderVars, mode, storeVars, deliveryVars, ends>>

\* keeps_held_key_events: the hold, or a history that continues it.
KeepsHeld(s) == HeldNow = NoKey \/ s.key = HeldNow \/ <<s.key, HeldNow>> \in Extends

\* A slip: an unsettled write is let go before its outcome is known.
AdmitUnsettled(s) ==
    /\ mode = "armed" /\ LockFree
    /\ held' = HeldNow /\ windows' = WindowsNow
    /\ LET w == WindowsNow[s.channel] IN
       IF KeepsHeld(s) /\ Admissible(w, s)
         THEN Begins("record", s, Advance(w, s))
         ELSE write' = NoWrite
    /\ GuardKeeps /\ UNCHANGED resets

\* _admit_locked for an envelope: refused, or its record is begun.  The lock
\* is held over key_ids and before_record, so nothing it read changes meanwhile.
Admit(s) ==
    /\ mode = "armed" /\ LockFree /\ ~Unsettled
    /\ held' = HeldNow /\ windows' = WindowsNow
    /\ LET w == WindowsNow[s.channel] IN
       IF KeepsHeld(s) /\ Admissible(w, s)
         THEN Begins("record", s, Advance(w, s))
         ELSE write' = NoWrite
    /\ GuardKeeps /\ UNCHANGED resets

\* A slip: a resync may part from the held history without a recovery.
ReanchorsAnywhere(s) ==
    /\ mode = "armed" /\ LockFree /\ ~Unsettled
    /\ s.channel = Direct /\ HeldNow \notin {NoKey, s.key}
    /\ held' = HeldNow /\ windows' = WindowsNow
    /\ Begins("reanchor", s, Advance(NoWindow, s))
    /\ GuardKeeps /\ UNCHANGED resets

\* A resync whose chain takes precedence over the held events: the windows
\* start again with this envelope's, even when the hold moves back.
Reanchor(s) ==
    /\ mode = "armed" /\ LockFree /\ ~Unsettled
    /\ s.channel = Direct /\ HeldNow # NoKey /\ <<s.key, HeldNow>> \in Overrides
    /\ held' = HeldNow /\ windows' = WindowsNow
    /\ Begins("reanchor", s, Advance(NoWindow, s))
    /\ GuardKeeps /\ UNCHANGED resets

\* forget: a reset by the Captain, with identity.db's imports held off first.
Forget ==
    /\ mode = "armed" /\ LockFree /\ ~Unsettled /\ resets < MaxResets
    /\ held' = HeldNow /\ windows' = WindowsNow
    /\ Begins("forget", NoStamp, NoWindow)
    /\ resets' = resets + 1
    /\ GuardKeeps

\* The waiting caller is cancelled; it goes on waiting.
CallerCancelled ==
    /\ write.waited /\ ~write.cancelled
    /\ write' = [write EXCEPT !.cancelled = TRUE]
    /\ UNCHANGED <<senderVars, mode, memoryVars, storeVars, deliveryVars, resets, ends>>

\* The write as it is once nobody waits for it, and once its outcome is read.
Unwaited == [write EXCEPT !.waited = FALSE, !.cancelled = FALSE]
Released == IF write.task = "cancelled" THEN Unwaited ELSE NoWrite
Delivers == write.task = "committed" /\ write.kind # "forget" /\ ~write.cancelled
Deliver(s) == delivered' = delivered \cup {s} /\ again' = again \cup (delivered \cap {s})

\* A slip: what the write committed is not held.
SettlesUnpublished ==
    /\ write.waited /\ write.task # "running"
    /\ write' = Released
    /\ IF Delivers THEN Deliver(write.stamp) ELSE UNCHANGED deliveryVars
    /\ UNCHANGED <<senderVars, mode, memoryVars, storeVars, resets, ends>>

\* A slip: a reset is settled like an envelope.
SettlesReset ==
    /\ write.waited /\ write.task # "running"
    /\ held' = HeldNow /\ windows' = WindowsNow
    /\ write' = Released
    /\ IF write.task = "committed" /\ ~write.cancelled THEN Deliver(write.stamp)
                                                       ELSE UNCHANGED deliveryVars
    /\ UNCHANGED <<senderVars, mode, storeVars, resets, ends>>

\* _settled: the write has ended.  What it committed is held, and the
\* envelope is delivered unless the caller, or the write, was cancelled.
Settles ==
    /\ write.waited /\ write.task # "running"
    /\ held' = HeldNow /\ windows' = WindowsNow
    /\ write' = Released
    /\ IF Delivers THEN Deliver(write.stamp) ELSE UNCHANGED deliveryVars
    /\ UNCHANGED <<senderVars, mode, storeVars, resets, ends>>

\* STORE_WRITE_SETTLE_S has passed: the envelope is not delivered, and the
\* guard owns the write until its outcome is known.
SettleTimesOut ==
    /\ write.waited /\ write.task = "running"
    /\ write' = Unwaited
    /\ UNCHANGED <<senderVars, mode, memoryVars, storeVars, deliveryVars, resets, ends>>

\* stop(): under the accept lock.  (Bound: the process ends after it.)
Stops ==
    /\ mode = "armed" /\ LockFree /\ ends < MaxEnds
    /\ mode' = "stopped"
    /\ UNCHANGED <<senderVars, memoryVars, storeVars, deliveryVars, write, resets, ends>>

\* The process ends, at any moment; a write that has not committed is gone.
ProcessEnds ==
    /\ mode # "down" /\ ends < MaxEnds
    /\ mode' = "down" /\ ends' = ends + 1
    /\ held' = NoKey /\ windows' = NoWindows /\ write' = NoWrite
    /\ UNCHANGED <<senderVars, storeVars, deliveryVars, resets>>

\* start(): the store is loaded, or cannot be opened, and federation is closed.
Starts ==
    /\ mode = "down"
    /\ \/ mode' = "armed" /\ held' = sheld /\ windows' = swindows
       \/ mode' = "closed" /\ UNCHANGED memoryVars
    /\ UNCHANGED <<senderVars, storeVars, deliveryVars, write, resets, ends>>

-----------------------------------------------------------------------------
Next ==
    \/ \E c \in Channels : Seal(c)
    \/ SenderRestarts \/ \E k \in Keys : Rotates(k)
    \/ \E s \in sent : Admit(s)
    \/ \E s \in sent : Reanchor(s)
    \/ Forget \/ CallerCancelled \/ Settles \/ SettleTimesOut
    \/ WriteStep
    \/ Stops \/ ProcessEnds \/ Starts

Spec == Init /\ [][Next]_vars

-----------------------------------------------------------------------------
(* AD-1197: an envelope is delivered at most once between two resets,      *)
(* whatever the network repeats or reorders and wherever the process ends. *)
DeliveredOnce == again = {}

(* The committed windows are exact: under the held key the window of a     *)
(* channel has its newest epoch and number, and marks precisely the        *)
(* recorded numbers it still covers, so that nothing recorded is admitted  *)
(* again and nothing in the window's reach is refused that was not.        *)
WindowsAreExact ==
    \A c \in Channels :
        LET w == swindows[c]
            now == {s \in recorded : s.key = sheld /\ s.channel = c}
            last == {s \in now : s.epoch = w.epoch}
        IN
        IF now = {} THEN sheld = NoKey \/ w.keySeq < KeySeq[sheld]
        ELSE /\ w.keySeq = KeySeq[sheld]
             /\ \A s \in now : s.epoch <= w.epoch
             /\ \E s \in last : s.seq = w.hwm
             /\ \A s \in last : s.seq <= w.hwm
             /\ w.seen = {n \in 1..MaxSeals : n > w.hwm - Width /\ \E s \in last : s.seq = n}

(* AD-1198 A-1, A-2: an armed guard with no write in flight, or one whose  *)
(* outcome it may read, judges the next envelope by what the store holds.  *)
MemoryIsStore ==
    mode = "armed" /\ ~Unsettled => HeldNow = sheld /\ WindowsNow = swindows

(* A write the guard begins is never refused by the store as moving        *)
(* backwards: EnvelopeStateConflict guards against a second writer only.   *)
NoConflict == Running => ~Conflicts(write)

(* Two envelopes never carry the same key, epoch and number, across the    *)
(* sender's restarts: the second would be refused as a duplicate.          *)
StampsAreUnique ==
    Cardinality({[key |-> s.key, epoch |-> s.epoch, seq |-> s.seq] : s \in sent}) = seals

(* AD-1198 slice 2b: between two resets the held history is never rolled   *)
(* back.  Under whatever key an envelope was recorded, the history held    *)
(* now is that key's, continues it, or took precedence over it by a        *)
(* recovery, also after old resyncs are repeated, a write is settled late  *)
(* or the process starts again.                                            *)
HoldNeverRollsBack ==
    \A s \in recorded : s.key = sheld \/ <<sheld, s.key>> \in Extends \cup Overrides

=============================================================================
