----------------------------- MODULE CcaSender -----------------------------
(***************************************************************************)
(* The congestion-control test sender (src/cca/sender.cpp).                *)
(*                                                                         *)
(*   main  parses the options into the Sender's fields, calls Start,       *)
(*         reads stdin until 'q' and calls Stop.                           *)
(*   thr   the thread running Sender::Run: it sets up an RTPSession and,   *)
(*         while `sending`, makes one frame (an I frame every gop frames,  *)
(*         a P frame of a random size between the sizes for rateMin and    *)
(*         rate otherwise), cuts it into packets of at most maxRTPSize,    *)
(*         sends them and sleeps until the next frame is due.              *)
(*                                                                         *)
(* The option parsing is abstracted to the set Options of field values it  *)
(* can leave; the socket I/O to the record of the frames and packets sent. *)
(* Time is left out: the sleep is one step back to the loop test.          *)
(***************************************************************************)
EXTENDS Naturals, Sequences, SequencesExt

CONSTANTS
  Options,    \* records [ip, port, rate, rateMin, fps, gop, maxRTPSize, scaleIP]
  DwordMod,   \* the modulus of the code's DWORD arithmetic (2^32)
  RandMax,    \* RAND_MAX
  RandDraws,  \* values rand() may return, a subset of 0 .. RandMax
  MaxFrames   \* frames the model lets Run send

ASSUME /\ RandDraws \subseteq 0 .. RandMax
       /\ \A o \in Options : o.fps > 0 /\ o.gop > 0 /\ o.maxRTPSize > 0

VARIABLES
  opt,           \* the Sender's fields
  main,          \* "start", "wait" (reading stdin), "join", "exited"
  sending,       \* Sender::sending
  thr,           \* Run's place: "none", "setup", "check", "frame", "end", "exited"
  frameSize,     \* Run's frameSize and frameSizeMin
  frameSizeMin,
  num, ts, seq,  \* Run's frame count, RTP timestamp and sequence number
  frames         \* the frames sent: [num, size, pkts |-> <<[seq, len, mark]>>]

vars == <<opt, main, sending, thr, frameSize, frameSizeMin, num, ts, seq, frames>>

Dword(x) == x % DwordMod

Init ==
  /\ opt \in Options
  /\ main = "start" /\ sending = FALSE /\ thr = "none"
  /\ frameSize = 0 /\ frameSizeMin = 0
  /\ num = 0 /\ ts = 0 /\ seq = 0 /\ frames = <<>>

(***************************************************************************)
(* The main thread.                                                        *)
(***************************************************************************)
\* `if (!rateMin) rateMin = rate;` before the order of the rates is checked.
WithRateMin(o) == IF o.rateMin = 0 THEN [o EXCEPT !.rateMin = o.rate] ELSE o

\* Start: no ip or no port is an error; so are rates out of order.  Then
\* sending = 1 and the thread is created, which may fail too.  On any
\* error main returns -1.
StartRefused ==
  /\ main = "start" /\ main' = "exited"
  /\ \/ ~opt.ip /\ UNCHANGED opt
     \/ opt.ip /\ opt.port = 0 /\ UNCHANGED opt
     \/ /\ opt.ip /\ opt.port # 0
        /\ WithRateMin(opt).rateMin > WithRateMin(opt).rate
        /\ opt' = WithRateMin(opt)
  /\ UNCHANGED <<sending, thr, frameSize, frameSizeMin, num, ts, seq, frames>>

\* Start without the check that rateMin does not exceed rate.
StartUnchecked ==
  /\ main = "start" /\ opt.ip /\ opt.port # 0
  /\ opt' = WithRateMin(opt) /\ sending' = TRUE
  /\ \/ thr' = "setup" /\ main' = "wait"
     \/ UNCHANGED thr /\ main' = "exited"
  /\ UNCHANGED <<frameSize, frameSizeMin, num, ts, seq, frames>>

Start ==
  /\ main = "start" /\ opt.ip /\ opt.port # 0
  /\ WithRateMin(opt).rateMin <= WithRateMin(opt).rate
  /\ opt' = WithRateMin(opt) /\ sending' = TRUE
  /\ \/ thr' = "setup" /\ main' = "wait"
     \/ UNCHANGED thr /\ main' = "exited"   \* pthread_create failed
  /\ UNCHANGED <<frameSize, frameSizeMin, num, ts, seq, frames>>

\* 'q' read: Stop clears `sending` ...
Stop ==
  /\ main = "wait" /\ main' = "join" /\ sending' = FALSE
  /\ UNCHANGED <<opt, thr, frameSize, frameSizeMin, num, ts, seq, frames>>

\* ... and pthread_join returns once Run has exited.
Join ==
  /\ main = "join" /\ thr = "exited" /\ main' = "exited"
  /\ UNCHANGED <<opt, sending, thr, frameSize, frameSizeMin, num, ts, seq, frames>>

(***************************************************************************)
(* Sender::Run.                                                            *)
(***************************************************************************)
\* `(gop+scaleIP-1)*rate/(8*fps*gop)`, every product a DWORD.
FrameSizeFor(o, rate) ==
  Dword((o.gop + o.scaleIP - 1) * rate) \div Dword(8 * o.fps * o.gop)

RunSetup ==
  /\ thr = "setup" /\ thr' = "check"
  /\ frameSize' = FrameSizeFor(opt, opt.rate)
  /\ frameSizeMin' = FrameSizeFor(opt, opt.rateMin)
  /\ num' = 0 /\ ts' = 0 /\ seq' = 0
  /\ UNCHANGED <<opt, main, sending, frames>>

\* `while(sending)`; out of it, sess.End() and pthread_exit.
RunCheck ==
  /\ thr = "check" /\ thr' = IF sending THEN "frame" ELSE "end"
  /\ UNCHANGED <<opt, main, sending, frameSize, frameSizeMin, num, ts, seq, frames>>

RunEnd ==
  /\ thr = "end" /\ thr' = "exited"
  /\ UNCHANGED <<opt, main, sending, frameSize, frameSizeMin, num, ts, seq, frames>>

\* `frameSizeMin + ((QWORD)(frameSize-frameSizeMin))*rand()/RAND_MAX`,
\* stored in a DWORD; the first frame of each gop is `frameSize*scaleIP`.
FrameBytes(r) ==
  IF num % opt.gop = 0
  THEN Dword(frameSize * opt.scaleIP)
  ELSE Dword(frameSizeMin + (Dword(frameSize - frameSizeMin) * r) \div RandMax)

\* The mark test moved before `size -= len` (a swapped order).
RECURSIVE MarkBeforeDecrement(_, _)
MarkBeforeDecrement(size, first) ==
  IF size = 0 THEN <<>>
  ELSE LET len == IF size > opt.maxRTPSize THEN opt.maxRTPSize ELSE size
       IN  <<[seq |-> first % 65536, len |-> len, mark |-> size = 0]>>
             \o MarkBeforeDecrement(size - len, first + 1)

\* The packetising loop `while(size)`: `len = size`, capped at maxRTPSize;
\* `SetSeqNum(seq++)` (a 16-bit RTP field); `size -= len`; the mark, reset
\* for the frame, is set when size has become 0; `SendPacket`.
RECURSIVE FramePackets(_, _)
FramePackets(size, first) ==
  IF size = 0 THEN <<>>
  ELSE LET len  == IF size > opt.maxRTPSize THEN opt.maxRTPSize ELSE size
           left == size - len
       IN  <<[seq |-> first % 65536, len |-> len, mark |-> left = 0]>>
             \o FramePackets(left, first + 1)

\* One iteration of the loop: the frame, its packets sent with
\* sess.SendPacket, num++, `ts += 90000/fps`, and the sleep.
SendFrame ==
  /\ thr = "frame" /\ num < MaxFrames /\ thr' = "check"
  /\ \E r \in RandDraws :
       LET size == FrameBytes(r)
           pkts == FramePackets(size, seq)
       IN /\ frames' = Append(frames, [num |-> num, size |-> size, pkts |-> pkts])
          /\ seq' = seq + Len(pkts)   \* only its low 16 bits are sent
  /\ num' = Dword(num + 1) /\ ts' = ts + 90000 \div opt.fps
  /\ UNCHANGED <<opt, main, sending, frameSize, frameSizeMin>>

Next ==
  \/ StartRefused \/ Start \/ Stop \/ Join
  \/ RunSetup \/ RunCheck \/ SendFrame \/ RunEnd

Spec == Init /\ [][Next]_vars

(***************************************************************************)
(* Properties.                                                             *)
(***************************************************************************)
\* The size Start's rates ask for, `(gop+scaleIP-1)*rate/(8*fps*gop)`
\* computed without the DWORD wrap.
IntendedSize(rate) ==
  ((opt.gop + opt.scaleIP - 1) * rate) \div (8 * opt.fps * opt.gop)

\* Every frame Run sends has the size the options ask for: the first of
\* each gop scaleIP times the size for rate, the others between the sizes
\* for rateMin and rate.  Start's defaulting and ordering of the rates and
\* Run's DWORD arithmetic and random draw all have to agree for this.
FrameSizesFollowRates ==
  \A i \in DOMAIN frames :
    IF frames[i].num % opt.gop = 0
    THEN frames[i].size = IntendedSize(opt.rate) * opt.scaleIP
    ELSE frames[i].size \in IntendedSize(opt.rateMin) .. IntendedSize(opt.rate)

\* The packets Run sends are numbered 0, 1, 2, ... (mod 2^16) across frames
\* with no gap or repeat, and each frame is cut into the fewest packets of
\* 1 to maxRTPSize bytes whose lengths add up to its size, the marker set
\* on its last packet and on no other.
PacketStreamWellFormed ==
  LET all == FlattenSeq([i \in DOMAIN frames |-> frames[i].pkts])
      Bytes(f) == FoldSeq(LAMBDA p, acc : p.len + acc, 0, f.pkts)
  IN /\ \A k \in DOMAIN all : all[k].seq = (k - 1) % 65536
     /\ \A i \in DOMAIN frames :
          LET f == frames[i] IN
          /\ Bytes(f) = f.size
          /\ Len(f.pkts) = (f.size + opt.maxRTPSize - 1) \div opt.maxRTPSize
          /\ \A k \in DOMAIN f.pkts :
               /\ f.pkts[k].len \in 1 .. opt.maxRTPSize
               /\ f.pkts[k].mark <=> k = Len(f.pkts)
====
