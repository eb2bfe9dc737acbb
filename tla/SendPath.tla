----------------------------- MODULE SendPath -----------------------------
(***************************************************************************)
(* The send side of DTLSICETransport (src/mcu/src/DTLSICETransport.cpp)    *)
(* for one outgoing video source group: Send(RTPTimedPacket&) with its     *)
(* retransmission buffer and pruning, the NACK and PLI handling of onRTCP  *)
(* and ReSendPacket, and the operations that enable them (candidates,      *)
(* SDES/DTLS keying, Reset, Add/RemoveOutgoingSourceGroup).                *)
(*                                                                         *)
(* The application sends media packets with consecutive sequence numbers; *)
(* the remote sends NACK fields {pid, mask} and PLIs at any time.  Time is *)
(* counted in ticks; a packet older than Keep ticks is due for pruning.    *)
(* Byte layout, SRTP and the transport-wide number are abstracted away.    *)
(***************************************************************************)
EXTENDS Integers, FiniteSets, SequencesExt, Bitwise

CONSTANTS
  Keep,       \* pruning age: 200 ms (+ 2*rtt, rtt is always 0) in ticks
  MaxTime,    \* bound on the clock
  SeqStarts,  \* possible first sequence numbers of the application's packets
  MaxPkts,    \* bound on the packets the application sends
  Pids,       \* NACK pids the remote may send (16-bit)
  Offsets,    \* mask offsets k (bit 15-(k-1) asks for pid+k) the remote may set
  Fits        \* whether a stored packet leaves room for the 2-byte OSN

ASSUME Keep \in Nat \ {0} /\ Offsets \subseteq 1 .. 16 /\ Fits \subseteq BOOLEAN

\* C conversion to a 16-bit WORD.
Word(x) == x % 65536

\* group->media.cycles: no code path of the transport writes it.
MediaCycles == 0

Ops == {"none", "send", "nack", "pli"}

VARIABLES
  active,       \* active != NULL
  sendSession,  \* sendSRTPSession != NULL
  recvSession,  \* recvSRTPSession != NULL (needed to read RTCP in onData)
  registered,   \* the group is in the `outgoing` map
  buffer,       \* group->packets: [key, seq, t, fits] per stored packet
  nextSeq,      \* the application's next sequence number (extended)
  sent,         \* packets the application has handed to Send
  now,          \* the clock
  \* --- what the last step did ---
  lastOp,       \* which operation the last step was
  requested,    \* 16-bit numbers the NACK of the last step asked for
  resent,       \* 16-bit OSNs of the RTX packets the last step sent
  pli           \* the last step called listener->onPLIRequest

vars == <<active, sendSession, recvSession, registered, buffer, nextSeq,
          sent, now, lastOp, requested, resent, pli>>

(***************************************************************************)
(* Mutated forms of the operators below, used only by the mutation runs.   *)
(***************************************************************************)
\* The lookup key is one past the requested number.
LookupKeyOffByOne(seq) == ((MediaCycles * 65536) | seq) + 1

\* Pruning keeps a packet exactly at the pruning age: `>=` for `>`.
PruneStrict(b, until) ==
  LET fresh == {e \in b : e.t >= until}
  IN  IF fresh = {} THEN {} ELSE {e \in b : e.key >= Min({x.key : x \in fresh})}

\* The requested numbers taken as ints, without the 16-bit truncation.
RequestedWide(seqs) == {seqs[i] : i \in DOMAIN seqs}

(***************************************************************************)
(* Operators of the code.                                                  *)
(***************************************************************************)
\* The key Send stores a packet under: rtx->GetExtSeqNum() of a packet
\* rebuilt from the header with SetSeqCycles(source.cycles).
StoreKey(seq) == (MediaCycles * 65536) | Word(seq)

\* group->packets[key] = rtx: a packet already under the key is replaced.
Store(b, p) == {e \in b : e.key # p.key} \cup {p}

\* The pruning loop: erase in key order while pkt->GetTime() <= until,
\* stop at the first newer packet.
Prune(b, until) ==
  LET fresh == {e \in b : e.t > until}
  IN  IF fresh = {} THEN {} ELSE {e \in b : e.key >= Min({x.key : x \in fresh})}

\* ReSendPacket's key: `(DWORD)(group->media.cycles)<<16 | seq`, seq an int.
LookupKey(seq) == (MediaCycles * 65536) | seq

\* ReSendPacket(group, seq) on the fold state [buffer, resent, pli]: a hit
\* sends an RTX copy unless it would not fit the MTU (error, nothing sent);
\* it uses sendSRTPSession and active unchecked (TransportLocking follows
\* the session).  A miss asks the listener for a PLI and deletes the whole
\* buffer.
ReSendPacket(st, seq) ==
  LET hit == {e \in st.buffer : e.key = LookupKey(seq)}
  IN  IF hit # {}
      THEN IF \A e \in hit : ~e.fits
           THEN st
           ELSE [st EXCEPT !.resent = @ \cup {Word(seq)}]
      ELSE [st EXCEPT !.pli = TRUE, !.buffer = {}]

\* The numbers onRTCP passes to ReSendPacket for one NACK field, in order:
\* pid, then pid+i+1 for every set bit i = 0..15.
NackSeqs(pid, offs) == <<pid>> \o SetToSortSeq({pid + k : k \in offs}, <)

\* The 16-bit numbers a NACK field asks for.
Requested(seqs) == {Word(seqs[i]) : i \in DOMAIN seqs}

(***************************************************************************)
(* Specification.                                                          *)
(***************************************************************************)
Init ==
  /\ active = FALSE /\ sendSession = FALSE /\ recvSession = FALSE
  /\ registered = FALSE
  /\ buffer = {}
  /\ nextSeq \in SeqStarts
  /\ sent = 0
  /\ now = 0
  /\ lastOp = "none" /\ requested = {} /\ resent = {} /\ pli = FALSE

\* What a step that neither sends nor answers feedback leaves behind.
Quiet ==
  /\ lastOp' = "none" /\ requested' = {} /\ resent' = {} /\ pli' = FALSE

\* Send(RTPTimedPacket&) with an active candidate, a send session and the
\* SSRC registered: store the packet, send it, prune by age.
SendRtp(fits) ==
  /\ sent < MaxPkts
  /\ active /\ sendSession /\ registered
  /\ LET p == [key |-> StoreKey(nextSeq), seq |-> nextSeq, t |-> now, fits |-> fits]
     IN  buffer' = Prune(Store(buffer, p), now - Keep)
  /\ nextSeq' = nextSeq + 1
  /\ sent' = sent + 1
  /\ lastOp' = "send" /\ requested' = {} /\ resent' = {} /\ pli' = FALSE
  /\ UNCHANGED <<active, sendSession, recvSession, registered, now>>

\* Send(RTPTimedPacket&) returning early: the packet is not stored.
SendRtpRefused ==
  /\ sent < MaxPkts
  /\ ~(active /\ sendSession /\ registered)
  /\ nextSeq' = nextSeq + 1
  /\ sent' = sent + 1
  /\ Quiet
  /\ UNCHANGED <<active, sendSession, recvSession, registered, buffer, now>>

\* onData (RTCP branch, needs recvSRTPSession) -> onRTCP: a NACK field for
\* the registered group; ReSendPacket is called for each number in order.
OnRtcpNack(pid, offs) ==
  /\ recvSession /\ registered
  /\ LET seqs == NackSeqs(pid, offs)
         st   == FoldLeft(ReSendPacket,
                          [buffer |-> buffer, resent |-> {}, pli |-> FALSE], seqs)
     IN  /\ buffer' = st.buffer
         /\ resent' = st.resent
         /\ pli' = st.pli
         /\ requested' = Requested(seqs)
  /\ lastOp' = "nack"
  /\ UNCHANGED <<active, sendSession, recvSession, registered, nextSeq, sent, now>>

\* onRTCP: a PLI or FIR for the registered group reaches the listener.
OnRtcpPli ==
  /\ recvSession /\ registered
  /\ lastOp' = "pli" /\ requested' = {} /\ resent' = {} /\ pli' = TRUE
  /\ UNCHANGED <<active, sendSession, recvSession, registered, buffer,
                 nextSeq, sent, now>>

Tick ==
  /\ now < MaxTime
  /\ now' = now + 1
  /\ Quiet
  /\ UNCHANGED <<active, sendSession, recvSession, registered, buffer, nextSeq, sent>>

(***************************************************************************)
(* Operations that configure the transport.                                *)
(***************************************************************************)
Config(a, s, r, g) ==
  /\ active' = a /\ sendSession' = s /\ recvSession' = r /\ registered' = g
  /\ Quiet
  /\ UNCHANGED <<buffer, nextSeq, sent, now>>

\* AddRemoteCandidate: the first candidate becomes active.
AddRemoteCandidate == ~active /\ Config(TRUE, sendSession, recvSession, registered)

\* SetLocalCryptoSDES: a new send session replaces the old one.
SetLocalCryptoSDES == Config(active, TRUE, recvSession, registered)

\* SetRemoteCryptoSDES: a new receive session replaces the old one.
SetRemoteCryptoSDES == Config(active, sendSession, TRUE, registered)

\* onDTLSSetup: SetLocalCryptoSDES then SetRemoteCryptoSDES.
OnDataDtlsSetup == Config(active, TRUE, TRUE, registered)

\* Reset: both SRTP sessions freed; candidates and groups stay.
Reset == Config(active, FALSE, FALSE, registered)

\* AddOutgoingSourceGroup: media, fec and rtx SSRCs map to the group.
AddOutgoingSourceGroup == Config(active, sendSession, recvSession, TRUE)

\* RemoveOutgoingSourceGroup: the three entries are erased; the buffer
\* belongs to the group and stays with it.
RemoveOutgoingSourceGroup == Config(active, sendSession, recvSession, FALSE)

Next ==
  \/ \E f \in Fits : SendRtp(f)
  \/ SendRtpRefused
  \/ \E pid \in Pids, offs \in SUBSET Offsets : OnRtcpNack(pid, offs)
  \/ OnRtcpPli
  \/ Tick
  \/ AddRemoteCandidate
  \/ SetLocalCryptoSDES
  \/ SetRemoteCryptoSDES
  \/ OnDataDtlsSetup
  \/ Reset
  \/ AddOutgoingSourceGroup
  \/ RemoveOutgoingSourceGroup

Spec == Init /\ [][Next]_vars

(***************************************************************************)
(* Properties.                                                             *)
(***************************************************************************)
TypeOK ==
  /\ {active, sendSession, recvSession, registered, pli} \subseteq BOOLEAN
  /\ buffer \subseteq [key : Nat, seq : Nat, t : 0 .. MaxTime, fits : BOOLEAN]
  /\ sent \in 0 .. MaxPkts /\ now \in 0 .. MaxTime /\ lastOp \in Ops
  /\ requested \subseteq 0 .. 65535 /\ resent \subseteq requested

\* A NACK makes ReSendPacket request a PLI (and flush the buffer) only when
\* some packet the remote asked for is really gone from the buffer.
PliOnlyOnMiss ==
  [][lastOp' = "nack" /\ pli' =>
       \E s \in requested' : ~\E e \in buffer : Word(e.seq) = s]_vars

\* After Send has pruned, no packet older than the pruning age is left in
\* the retransmission buffer.
BufferPruned ==
  lastOp = "send" => \A e \in buffer : e.t > now - Keep
=============================================================================
