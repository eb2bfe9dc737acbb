---------------------------- MODULE LossTracker ----------------------------
(***************************************************************************)
(* RTPLostPackets (src/mcu/src/rtp.cpp): the receive-side loss window of   *)
(* one incoming source group.  A fixed array of `size` arrival slots,      *)
(* `first` (the extended sequence number held by slot 0) and `len` (the    *)
(* number of slots in use).  AddPacket records an arrival and returns the  *)
(* number of newly discovered losses; GetNacks turns the holes of the      *)
(* window into NACK fields {pid, 16-bit "following lost" mask}.            *)
(*                                                                         *)
(* The tracker is written as pure operators over a record                  *)
(*   [first, len, slots]                                                   *)
(* so that the transport model (ReceivePath) can drive the same code.      *)
(* Arrival times are abstracted to "recorded or not": the code only ever   *)
(* compares a slot with 0.  WORD-typed locals (pos, the NACK pid) keep     *)
(* their 16-bit width.                                                     *)
(***************************************************************************)
EXTENDS Integers, FiniteSets, FiniteSetsExt, Sequences

CONSTANTS
  Capacity,  \* `size`, the number of slots (the transport builds it with 1024)
  SeqIn      \* extended sequence numbers the network may deliver

ASSUME Capacity \in 1 .. 1024
ASSUME SeqIn \subseteq Nat

WordMod == 65536

\* C conversion of an unsigned value to a 16-bit WORD.
Word(x) == x % WordMod

Slots == 0 .. Capacity - 1

(***************************************************************************)
(* Mutated forms of the operators below, used only by the mutation runs.   *)
(***************************************************************************)
\* The slide forgets to zero the slots it brings into the window.
SlideNoClear(lt, n) ==
  [i \in Slots |-> IF i < Capacity - n THEN lt.slots[i + n] ELSE lt.slots[i]]

\* The NACK mask bit for the current slot is written one position late.
MaskOffsetLate(n) == n + 2

\* The mask bit of a hole is never set.
MaskBitDropped(bits, n, received) == bits

\* The window slides when pos reaches size rather than size-1.
MustSlideLate(pos) == pos > Capacity

\* The lost-run loop starts one slot too low (i = pos-2).
RunOfEmptyShort(s, pos) ==
  LET hit == {i \in 0 .. pos - 2 : s[i]}
  IN  IF hit = {} THEN Max({pos - 1, 0}) ELSE pos - 2 - Max(hit)

(***************************************************************************)
(* The tracker, as the code keeps it.                                      *)
(***************************************************************************)
\* RTPLostPackets::RTPLostPackets(WORD num): all slots 0, first = 0, len = 0.
EmptyTracker == [first |-> 0, len |-> 0, slots |-> [i \in Slots |-> FALSE]]

\* RTPLostPackets::Reset(): the same state as a fresh tracker.
ResetOp(lt) == EmptyTracker

\* memmove(packets, packets+n, ...); memset(packets+(size-n), 0, n)
SlideSlots(lt, n) ==
  [i \in Slots |-> IF i < Capacity - n THEN lt.slots[i + n] ELSE FALSE]

\* `if (pos+1>size)`: the packet lies beyond the last slot.
MustSlide(pos) == pos + 1 > Capacity

\* `first = extSeq-size+1`: the packet becomes the last slot.
SlideFirst(extSeq) == extSeq - Capacity + 1

\* The loop `for (i=pos-1; i>=0 && !packets[i]; --i) lost++`.
RunOfEmpty(s, pos) ==
  LET hit == {i \in 0 .. pos - 1 : s[i]}
  IN  IF hit = {} THEN pos ELSE pos - 1 - Max(hit)

(***************************************************************************)
(* RTPLostPackets::AddPacket.  Returns [tracker, lost].                    *)
(***************************************************************************)
AddPacketOp(lt, extSeq) ==
  IF extSeq < lt.first
  THEN [tracker |-> lt, lost |-> 0]             \* very old packet
  ELSE
    LET f0    == IF lt.first = 0 THEN extSeq ELSE lt.first
        p0    == Word(extSeq - f0)                \* WORD pos = extSeq-first
        slide == MustSlide(p0)
        n     == Min({p0 + 1 - Capacity, Capacity})
        s1    == IF slide THEN SlideSlots(lt, n) ELSE lt.slots
        f1    == IF slide THEN SlideFirst(extSeq) ELSE f0
        l1    == IF slide THEN Capacity ELSE lt.len
        pos   == IF slide THEN Capacity - 1 ELSE p0
        last  == l1 - 1 <= pos
    IN  [tracker |-> [first |-> f1,
                      len   |-> IF last THEN pos + 1 ELSE l1,
                      slots |-> [s1 EXCEPT ![pos] = TRUE]],
         lost    |-> IF last THEN RunOfEmpty(s1, pos) ELSE 0]

(***************************************************************************)
(* RTPLostPackets::GetNacks.  `lost` is the WORD pid of the open run (0    *)
(* means no run, so a run whose first hole has 16-bit number 0 is never    *)
(* opened), `bits` the offsets k set in the mask (bit k asks for pid+k),   *)
(* `n` the number of mask bits written so far.  The list is a sequence.   *)
(***************************************************************************)
\* `w.Put(1, packets[i]==0)`: the n-th bit written asks for pid+n+1.
MaskOffset(n) == n + 1

MaskBit(bits, n, received) ==
  IF received THEN bits ELSE bits \cup {MaskOffset(n)}

RECURSIVE NackScan(_, _, _, _, _)
NackScan(lt, i, lost, bits, n) ==
  IF i >= lt.len
  THEN IF lost # 0 THEN <<[pid |-> lost, blp |-> bits]>> ELSE <<>>
  ELSE IF lost # 0
       THEN LET bits2 == MaskBit(bits, n, lt.slots[i])
            IN  IF n + 1 = 16
                THEN <<[pid |-> lost, blp |-> bits2]>> \o NackScan(lt, i + 1, 0, {}, 0)
                ELSE NackScan(lt, i + 1, lost, bits2, n + 1)
       ELSE IF lt.slots[i]
            THEN NackScan(lt, i + 1, 0, {}, 0)
            ELSE NackScan(lt, i + 1, Word(lt.first + i), {}, 0)

GetNacks(lt) == NackScan(lt, 0, 0, {}, 0)

\* The 16-bit sequence numbers a list of NACK fields asks for.
NackedWire(fields) ==
  UNION {{fields[i].pid} \cup {Word(fields[i].pid + k) : k \in fields[i].blp} : i \in DOMAIN fields}

(***************************************************************************)
(* Stand-alone specification: the network delivers any sequence number    *)
(* of SeqIn, in any order and any number of times.                         *)
(***************************************************************************)
VARIABLES
  lt,        \* the tracker record
  recv,      \* history: extended numbers delivered since the last Reset
  lastIn,    \* history: the number delivered by the last step (-1 after Reset)
  lastLost   \* the value the last AddPacket returned

vars == <<lt, recv, lastIn, lastLost>>

Init ==
  /\ lt = EmptyTracker
  /\ recv = {}
  /\ lastIn = -1
  /\ lastLost = 0

AddPacket(extSeq) ==
  LET r == AddPacketOp(lt, extSeq)
  IN  /\ lt' = r.tracker
      /\ lastLost' = r.lost
      /\ recv' = recv \cup {extSeq}
      /\ lastIn' = extSeq

Reset ==
  /\ lt' = ResetOp(lt)
  /\ recv' = {}
  /\ lastIn' = -1
  /\ lastLost' = 0

Next ==
  \/ \E s \in SeqIn : AddPacket(s)
  \/ Reset

Spec == Init /\ [][Next]_vars

(***************************************************************************)
(* Properties.                                                             *)
(***************************************************************************)
TypeOK ==
  /\ lt.first \in Nat
  /\ lt.len \in 0 .. Capacity
  /\ lt.slots \in [Slots -> BOOLEAN]
  /\ recv \subseteq SeqIn
  /\ lastLost \in 0 .. Capacity

\* The window is exactly the arrival history: after any sequence of
\* AddPacket calls (reordered, duplicated, far ahead), slot i is set iff
\* packet first+i has arrived, and no slot beyond len is set.  This is what
\* the memmove/memset slide, the re-anchoring of `first` and the WORD `pos`
\* of AddPacket must preserve.
WindowMirrorsArrivals ==
  /\ \A i \in 0 .. lt.len - 1 : lt.slots[i] <=> (lt.first + i) \in recv
  /\ \A i \in lt.len .. Capacity - 1 : ~lt.slots[i]

\* The holes of the window: packets between first and the highest recorded
\* one that never arrived.
Holes == {s \in lt.first .. lt.first + lt.len - 1 : s \notin recv}

\* GetNacks never asks for a packet that has arrived: every sequence number
\* its pid/mask fields encode is the 16-bit number of a hole of the window.
NackSound == NackedWire(GetNacks(lt)) \subseteq {Word(s) : s \in Holes}

\* GetNacks asks for every hole of the window (spec.md property 4: it
\* reports exactly the numbers between first and the highest seen that
\* were never recorded).
NackComplete == {Word(s) : s \in Holes} \subseteq NackedWire(GetNacks(lt))

\* AddPacket reports a loss whenever the packet it records leaves a gap
\* above the highest packet seen so far; onData only builds a NACK when
\* AddPacket returns non-zero, so a gap reported as 0 is never NACKed.
GapSignalled ==
  [][(lastIn' \in SeqIn /\ recv # {} /\ lastIn' > Max(recv) + 1)
       => lastLost' > 0]_vars
=============================================================================
