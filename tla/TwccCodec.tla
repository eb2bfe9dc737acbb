----------------------------- MODULE TwccCodec -----------------------------
(***************************************************************************)
(* RTCPRTPFeedback::TransportWideFeedbackMessageField (src/mcu/src/rtp.cpp) *)
(* Serialize and Parse: the transport-wide congestion-control feedback     *)
(* field.  A field is the sequence of arrival times of consecutive         *)
(* transport-wide sequence numbers (0 = not received).  Serialize writes   *)
(* the 8-byte header {base, status count, 24-bit reference time, feedback  *)
(* count}, a list of 16-bit status chunks and the delta bytes, zero-padded *)
(* to 4 bytes; Parse reads them back.                                      *)
(*                                                                         *)
(* The header fields that Parse does not need to rebuild the times (base   *)
(* sequence number, feedback count) are left out.  The chunk and delta     *)
(* area (everything after the header) is a sequence of bytes, so that a    *)
(* chunk or delta written with one width and read with another shows up    *)
(* as a misaligned read.  BitWritter::Put(n, v) is taken to write the low  *)
(* n bits of v; every chunk is 16 bits, so Flush() returns 2 bytes a chunk.*)
(***************************************************************************)
EXTENDS Integers, Sequences, SequencesExt

\* enum PacketStatus
NotReceived          == 0
SmallDelta           == 1
LargeOrNegativeDelta == 2
Reserved             == 3

\* The n-bit two's-complement reading of an unsigned x < 2^n.
Signed(x, n) == IF x >= 2^(n - 1) THEN x - 2^n ELSE x

(***************************************************************************)
(* `int delta = (it->second-time)/250` with QWORD operands: a negative     *)
(* difference wraps to 2^64 + d before the division, and the quotient is   *)
(* truncated to 32 bits.  2^64 = 250 * q + 116 with q % 2^32 = 790273982,  *)
(* so (2^64 + d) \div 250 = q + (116 + d) \div 250.                       *)
(***************************************************************************)
QLow32 == 790273982
QRem   == 116

DeltaUnits(t, time) ==
  IF t >= time
  THEN (t - time) \div 250
  ELSE Signed((QLow32 + (QRem + t - time) \div 250) % 2^32, 32)

\* `if (delta<0 || delta> 127) LargeOrNegativeDelta else SmallDelta`
DeltaStatus(d) == IF d < 0 \/ d > 127 THEN LargeOrNegativeDelta ELSE SmallDelta

\* The delta write: `if (*it<0 || *it>128)` set2((short)d) else set1((BYTE)d).
DeltaBytes(d) ==
  IF d < 0 \/ d > 128
  THEN <<(d % 65536) \div 256, d % 256>>
  ELSE <<d % 256>>

(***************************************************************************)
(* The three chunk forms, as 16-bit words.                                 *)
(***************************************************************************)
\* Put(1,0); Put(2,status); Put(13,count)
RunChunk(s, n) == (s % 4) * 2^13 + (n % 2^13)

\* Put(1,1); Put(1,1); two bits a status; Put(14-2*size,0)
Vec2Chunk(ss) ==
  3 * 2^14 + FoldLeft(LAMBDA a, s : a * 4 + (s % 4), 0, ss) * 4^(7 - Len(ss))

\* A vector chunk whose one-bit symbols are written one position too low.
Vec1Shifted(ss) ==
  2^15 + FoldLeft(LAMBDA a, s : a * 2 + (s % 2), 0, ss) * 2^(13 - Len(ss))

\* Put(1,1); Put(1,0); one bit a status; Put(14-size,0)
Vec1Chunk(ss) ==
  2^15 + FoldLeft(LAMBDA a, s : a * 2 + (s % 2), 0, ss) * 2^(14 - Len(ss))

\* The "how big was the same run" test of Serialize.
RunFlush(max, n) ==
  \/ max = LargeOrNegativeDelta /\ n > 7
  \/ max < LargeOrNegativeDelta /\ n > 14

(***************************************************************************)
(* One iteration of Serialize's loop over the packets.  The record holds   *)
(* the loop's locals: referenceTime, time, deltas, statuses, lastStatus,   *)
(* maxStatus, allsame and the chunks written so far.                       *)
(***************************************************************************)
EmptyWriter ==
  [ref |-> 0, time |-> 0, deltas |-> <<>>, statuses |-> <<>>,
   last |-> Reserved, max |-> NotReceived, allsame |-> TRUE, chunks |-> <<>>]

SerializeStep(st, t) ==
  LET first  == t # 0 /\ st.ref = 0
      ref    == IF first THEN t \div 64000 ELSE st.ref
      from   == IF first THEN ref * 64000 ELSE st.time
      d      == DeltaUnits(t, from)
      status == IF t = 0 THEN NotReceived ELSE DeltaStatus(d)
      s1     == Append(st.statuses, status)
      diff   == st.allsame /\ st.last # Reserved /\ status # st.last
      run    == diff /\ RunFlush(st.max, Len(s1))
      c1     == IF run THEN Append(st.chunks, RunChunk(status, Len(s1))) ELSE st.chunks
      s2     == IF run THEN <<>> ELSE s1
      max1   == IF run THEN NotReceived ELSE st.max
      max2   == IF status > max1 THEN status ELSE max1
      vec2   == max2 = LargeOrNegativeDelta /\ Len(s2) > 6
      vec1   == ~vec2 /\ Len(s2) > 13
  IN [ref      |-> ref,
      time     |-> IF t # 0 THEN t ELSE st.time,
      deltas   |-> IF t # 0 THEN st.deltas \o DeltaBytes(d) ELSE st.deltas,
      chunks   |-> CASE vec2  -> Append(c1, Vec2Chunk(SubSeq(s2, 1, 7)))
                     [] vec1  -> Append(c1, Vec1Chunk(SubSeq(s2, 1, 14)))
                     [] OTHER -> c1,
      statuses |-> CASE vec2  -> SubSeq(s2, 8, Len(s2))
                     [] vec1  -> SubSeq(s2, 15, Len(s2))
                     [] OTHER -> s2,
      \* after a 2-bit chunk the "max of the rest" loop only sees `status`
      last     |-> IF vec1 THEN Reserved ELSE status,
      max      |-> CASE vec2 -> status [] vec1 -> NotReceived [] OTHER -> max2,
      allsame  |-> vec2 \/ vec1 \/ (st.allsame /\ ~diff)]

\* "If not finished yet": the pending statuses become one last chunk.
FinalChunks(st) ==
  IF st.statuses = <<>> THEN st.chunks
  ELSE Append(st.chunks,
              CASE st.allsame -> RunChunk(st.last, Len(st.statuses))
                [] st.max = LargeOrNegativeDelta -> Vec2Chunk(st.statuses)
                [] OTHER -> Vec1Chunk(st.statuses))

WordBytes(w) == <<w \div 256, w % 256>>

\* `while (len%4) data[len++] = 0`
PadTo4(b) == b \o [i \in 1 .. (4 - (Len(b) % 4)) % 4 |-> 0]

\* Serialize: the header fields Parse uses and the bytes after the header.
\* (With no packet received referenceTime is never written; Parse then
\* never reads it, so any value will do.)
Serialize(p) ==
  LET st == FoldLeft(SerializeStep, EmptyWriter, p)
  IN  [count |-> Len(p) % 65536,
       ref   |-> st.ref % 2^24,
       body  |-> PadTo4(FoldLeft(LAMBDA b, w : b \o WordBytes(w), <<>>,
                                 FinalChunks(st)) \o st.deltas)]

(***************************************************************************)
(* GetSize: the length RTCPRTPFeedback::Serialize writes into the RTCP     *)
(* header and checks the buffer against.  It walks the packets like        *)
(* Serialize, but its `status` stays NotReceived, `time` is never moved    *)
(* past the reference time, and a full 1-bit vector is counted without     *)
(* clearing the pending statuses.  The record holds its locals.            *)
(***************************************************************************)
SizeStep(st, t) ==
  LET first  == t # 0 /\ st.ref = 0
      ref    == IF first THEN t \div 64000 ELSE st.ref
      time   == IF first THEN ref * 64000 ELSE st.time
      d      == DeltaUnits(t, time)
      len1   == st.len + (IF t = 0 THEN 0 ELSE IF d < 0 \/ d > 127 THEN 2 ELSE 1)
      status == NotReceived
      diff   == st.allsame /\ st.last # Reserved /\ status # st.last
      run    == diff /\ RunFlush(st.max, st.n)
      len2   == IF run THEN len1 + 1 ELSE len1
      n1     == IF run THEN 0 ELSE st.n
      max1   == IF run THEN NotReceived ELSE st.max
      max2   == IF status > max1 THEN status ELSE max1
      vec2   == max2 = LargeOrNegativeDelta /\ n1 > 6
      vec1   == ~vec2 /\ n1 > 13
  IN  [ref     |-> ref,
       time    |-> time,
       len     |-> IF vec2 \/ vec1 THEN len2 + 1 ELSE len2,
       n       |-> IF vec2 \/ vec1 THEN n1 ELSE n1 + 1,
       \* the "max of the rest" loop after a 2-bit chunk sees only `status`
       last    |-> IF vec1 THEN Reserved ELSE status,
       max     |-> CASE vec2 -> status [] vec1 -> NotReceived [] OTHER -> max2,
       allsame |-> vec2 \/ vec1 \/ (st.allsame /\ ~diff)]

\* `len` from the 8-byte header, one more for pending statuses, padded.
GetSize(p) ==
  LET st  == FoldLeft(SizeStep, [ref |-> 0, time |-> 0, len |-> 8, n |-> 0,
                                 last |-> Reserved, max |-> NotReceived,
                                 allsame |-> TRUE], p)
      len == st.len + (IF st.n > 0 THEN 1 ELSE 0)
  IN  IF p = <<>> THEN 0 ELSE len + ((4 - (len % 4)) % 4)

(***************************************************************************)
(* Parse.  Positions are offsets into the body (the code's len - 8); the   *)
(* bounds tests `len+k>size` read the same.                                *)
(***************************************************************************)
ChunkStatuses(c) ==
  IF c \div 2^15 = 1
  THEN IF (c \div 2^14) % 2 = 1
       THEN [j \in 1 .. 7 |-> (c \div 4^(7 - j)) % 4]
       ELSE [j \in 1 .. 14 |-> (c \div 2^(14 - j)) % 2]
  ELSE [j \in 1 .. c % 2^13 |-> c \div 2^13]

RECURSIVE ReadChunks(_, _, _, _)
ReadChunks(b, pos, sts, count) ==
  IF Len(sts) >= count THEN [ok |-> TRUE, pos |-> pos, statuses |-> sts]
  ELSE IF pos + 2 > Len(b) THEN [ok |-> FALSE, pos |-> pos, statuses |-> sts]
  ELSE ReadChunks(b, pos + 2,
                  sts \o ChunkStatuses(b[pos + 1] * 256 + b[pos + 2]), count)

\* The time Parse stores for a Reserved status: none (the switch has no case).
Absent == -1

RECURSIVE ReadTimes(_, _, _, _, _, _)
ReadTimes(b, pos, sts, count, time, out) ==
  LET i == Len(out) + 1
  IN  IF i > count THEN [ok |-> TRUE, pos |-> pos, times |-> out]
      ELSE CASE sts[i] = NotReceived ->
                  ReadTimes(b, pos, sts, count, time, Append(out, 0))
             [] sts[i] = SmallDelta ->
                  IF pos + 1 > Len(b) THEN [ok |-> FALSE, pos |-> pos, times |-> out]
                  ELSE LET tm == time + b[pos + 1] * 250
                       IN  ReadTimes(b, pos + 1, sts, count, tm, Append(out, tm))
             [] sts[i] = LargeOrNegativeDelta ->
                  IF pos + 2 > Len(b) THEN [ok |-> FALSE, pos |-> pos, times |-> out]
                  ELSE LET tm == time + Signed(b[pos + 1] * 256 + b[pos + 2], 16) * 250
                       IN  ReadTimes(b, pos + 2, sts, count, tm, Append(out, tm))
             [] OTHER ->
                  ReadTimes(b, pos, sts, count, time, Append(out, Absent))

\* Parse(m): [ok, len (padded bytes read after the header), times].
Parse(m) ==
  LET c == ReadChunks(m.body, 0, <<>>, m.count)
      r == ReadTimes(m.body, c.pos, c.statuses, m.count, m.ref * 64000, <<>>)
  IN  IF c.ok /\ r.ok
      THEN [ok |-> TRUE, len |-> r.pos + ((4 - (r.pos % 4)) % 4), times |-> r.times]
      ELSE [ok |-> FALSE, len |-> 0, times |-> <<>>]

\* A field whose arrival times lie on the 250 us grid of its reference time
\* survives Serialize then Parse unchanged: Parse succeeds, consumes exactly
\* the bytes Serialize wrote and rebuilds every time (0 for not received).
RoundTrips(p) ==
  LET m == Serialize(p)
      r == Parse(m)
  IN  r.ok /\ r.len = Len(m.body) /\ r.times = p
=============================================================================
