---------------------------- MODULE ReceivePath ----------------------------
(***************************************************************************)
(* The receive side of DTLSICETransport (src/mcu/src/DTLSICETransport.cpp) *)
(* for one incoming video source group {media, rtx, fec}: the RTP branch   *)
(* of onData (SRTP unprotect, payload-type and SSRC lookup, RTX unwrap,    *)
(* sequence-cycle detection, transport-wide feedback, loss tracking and    *)
(* NACK generation, delivery to the listener) and the operations that set *)
(* up what onData depends on: SetProperties, AddRemoteCandidate, the SDES  *)
(* and DTLS keying, Reset, Add/RemoveIncomingSourceGroup.                  *)
(*                                                                         *)
(* The remote peer is the environment: it sends media packets in order,    *)
(* FEC packets in their own sequence space and RTX copies of packets it    *)
(* was NACKed for, each stamped with the next transport-wide number.  The  *)
(* network loses, reorders and duplicates: any datagram ever sent may be   *)
(* delivered any number of times, or never.  Sequence numbers of the       *)
(* remote are extended (true) numbers; the wire carries their low 16 bits. *)
(***************************************************************************)
EXTENDS Integers, FiniteSets, FiniteSetsExt

CONSTANTS
  Capacity,     \* size of the loss window (RTPLostPackets(1024))
  MediaStarts,  \* possible first media sequence numbers of the remote
  FecStarts,    \* possible first FEC sequence numbers of the remote
  TseqStarts,   \* possible first transport-wide numbers of the remote
  MaxSent,      \* bound on the datagrams the remote sends
  WithFec,      \* whether the group has a FEC SSRC (fec.SSRC != 0)
  Configs,      \* property sets SetProperties may be called with
  RemotePT      \* payload types the remote stamps: [media, rtx, fec]

ASSUME MaxSent \in Nat /\ WithFec \in BOOLEAN

\* MediaFrame::Video, the value of group->type for a video group.
VideoType == 1

Codecs == {"OPUS", "VP9", "RTX", "FLEXFEC"}

Sources == {"media", "rtx", "fec"}

NoPkt == [src |-> "none", seq |-> 0, tseq |-> 0]

\* The outcome recorded by steps that are not an onData call.
NoOutcome == [d |-> NoPkt, ext |-> 0, ok |-> FALSE]

VARIABLES
  \* --- DTLSICETransport state ---
  recvSession,  \* recvSRTPSession != NULL
  sendSession,  \* sendSRTPSession != NULL
  active,       \* active != NULL (a remote candidate is registered)
  dtlsKeyed,    \* the DTLS engine has delivered keys (onDTLSSetup ran)
  rtpMap,       \* payload type -> codec
  incoming,     \* sources of the group registered in the `incoming` map
  cycles,       \* RTPIncomingSource::cycles per source
  srcExtSeq,    \* RTPIncomingSource::extSeq per source (read, never written)
  losts,        \* the group's RTPLostPackets
  fbCycles,     \* feedbackCycles
  fbLast,       \* lastFeedbackPacketExtSeqNum
  \* --- what the transport sent back, and what it delivered ---
  feedback,     \* entries of the last transport-wide feedback sent, or {}
  lastNack,     \* 16-bit numbers the NACK sent by the last step asks for
  nacked,       \* 16-bit numbers every NACK sent so far asked for
  delivered,    \* remote media numbers handed to listener->onRTP
  tseqGot,      \* remote transport numbers of the video packets accepted
  lastPkt,      \* the datagram the last onData call processed, and outcome
  \* --- the remote peer and the network ---
  mediaNext, fecNext, tseqNext,
  inflight      \* every datagram the remote has sent

transport == <<recvSession, sendSession, active, dtlsKeyed, rtpMap, incoming,
               cycles, srcExtSeq, losts, fbCycles, fbLast>>
outputs   == <<feedback, lastNack, nacked, delivered, tseqGot, lastPkt>>
remote    == <<mediaNext, fecNext, tseqNext, inflight>>
vars      == <<transport, outputs, remote>>

LT == INSTANCE LossTracker WITH
        Capacity <- Capacity, SeqIn <- {}, lt <- losts,
        recv <- {}, lastIn <- -1, lastLost <- 0

Word(x) == LT!Word(x)

\* Extended number from a cycle count and a 16-bit number: cycles<<16 | seq.
Extend(cyc, seq) == cyc * 65536 + seq

(***************************************************************************)
(* Mutated forms of the operators below, used only by the mutation runs.   *)
(***************************************************************************)
\* The backfill of lost transport numbers stops one short.
BackfillShort(last, ext) == {[key |-> i, got |-> FALSE] : i \in last .. ext - 2}

(***************************************************************************)
(* Helpers of onData.                                                      *)
(***************************************************************************)
\* SetProperties: rtpMap.clear(), then opus.pt, vp9.pt, vp9.rtx and
\* flexfec.pt in this order, so a later assignment to the same payload
\* type (a missing property reads as 0) overrides an earlier one.
MapOf(cfg) ==
  [pt \in {cfg.opus, cfg.vp9, cfg.rtx, cfg.flexfec} |->
     CASE pt = cfg.flexfec -> "FLEXFEC"
       [] pt = cfg.rtx     -> "RTX"
       [] pt = cfg.vp9     -> "VP9"
       [] OTHER            -> "OPUS"]

\* rtpMap.GetCodecForType(pt), "NotFound" when unmapped.
CodecFor(pt) == IF pt \in DOMAIN rtpMap THEN rtpMap[pt] ELSE "NotFound"

\* `seq<0x0FFF && (source->extSeq & 0xFFFF)>0xF000`
SeqWrapped(seq, ext) == seq < 4095 /\ Word(ext) > 61440

\* Lost transport numbers from the last one seen up to the current one.
Backfill(last, ext) == {[key |-> i, got |-> FALSE] : i \in last .. ext - 1}

\* The reason onData returns before delivering the RTP datagram d, or
\* "none".  The RTX check looks up the codec of group->type, the value of
\* the media type, not of the RTX apt (the association payload type).
DropReason(d) ==
  LET codec == CodecFor(RemotePT[d.src]) IN
  CASE ~recvSession                               -> "noRecvSRTPSession"
    [] codec = "NotFound"                         -> "typeUnknown"
    [] d.src \notin incoming                      -> "unknownSSRC"
    [] d.src = "rtx" /\ codec # "RTX"             -> "noRtxCodec"
    [] d.src = "rtx" /\ CodecFor(VideoType) = "NotFound" -> "aptUnknown"
    [] d.src = "fec" /\ codec # "FLEXFEC"         -> "noFlexFecCodec"
    [] OTHER                                      -> "none"

\* The 16-bit number the packet object carries: the OSN for an RTX packet.
WireSeq(d) == Word(d.seq)

\* The transport-wide feedback field built for a packet with transport
\* number tseq: backfilled entries keyed by extended numbers, the packet
\* itself keyed by its 16-bit number (std::map::insert keeps an existing key).
FeedbackField(last, ext, tseq) ==
  LET lostE == IF last # 0 THEN Backfill(last, ext) ELSE {}
  IN  IF \E e \in lostE : e.key = tseq THEN lostE
      ELSE lostE \cup {[key |-> tseq, got |-> TRUE]}

\* DTLSICETransport::Send(RTCPCompoundPacket&) sends only with an active
\* candidate and a send SRTP session.
CanSendRTCP == active /\ sendSession

(***************************************************************************)
(* Initial state: a fresh transport, a group created by the application   *)
(* but not yet registered, a remote that has sent nothing.                 *)
(***************************************************************************)
Init ==
  /\ recvSession = FALSE
  /\ sendSession = FALSE
  /\ active = FALSE
  /\ dtlsKeyed = FALSE
  /\ rtpMap = [pt \in {} |-> "OPUS"]
  /\ incoming = {}
  /\ cycles = [s \in Sources |-> 0]
  /\ srcExtSeq = [s \in Sources |-> 0]
  /\ losts = LT!EmptyTracker
  /\ fbCycles = 0
  /\ fbLast = 0
  /\ feedback = {}
  /\ lastNack = {}
  /\ nacked = {}
  /\ delivered = {}
  /\ tseqGot = {}
  /\ lastPkt = NoOutcome
  /\ mediaNext \in MediaStarts
  /\ fecNext \in FecStarts
  /\ tseqNext \in TseqStarts
  /\ inflight = {}

\* What a step that sends nothing on the receive path leaves behind.
Quiet ==
  /\ feedback' = {}
  /\ lastNack' = {}
  /\ lastPkt' = NoOutcome

(***************************************************************************)
(* onData, RTP branch: an accepted datagram.  Cycle detection, the        *)
(* transport-wide feedback sent for every video packet, the loss tracker,  *)
(* a NACK when AddPacket reports losses on the media SSRC, and delivery.   *)
(***************************************************************************)
OnDataRtp(d) ==
  /\ DropReason(d) = "none"
  /\ LET src  == d.src
         seq  == WireSeq(d)
         cyc  == IF SeqWrapped(seq, srcExtSeq[src]) THEN cycles[src] + 1
                 ELSE cycles[src]
         ext  == Extend(cyc, seq)
         t16  == Word(d.tseq)
         fcyc == IF SeqWrapped(t16, fbLast) THEN fbCycles + 1 ELSE fbCycles
         text == Extend(fcyc, t16)
         r    == LT!AddPacketOp(losts, ext)
         nack == IF r.lost > 0 /\ src = "media"
                 THEN LT!NackedWire(LT!GetNacks(r.tracker)) ELSE {}
     IN  /\ cycles' = [cycles EXCEPT ![src] = cyc]
         /\ fbCycles' = fcyc
         /\ fbLast' = text
         /\ feedback' = IF CanSendRTCP THEN FeedbackField(fbLast, text, t16)
                        ELSE {}
         /\ losts' = r.tracker
         /\ lastNack' = IF CanSendRTCP THEN nack ELSE {}
         /\ nacked' = IF CanSendRTCP THEN nacked \cup nack ELSE nacked
         /\ delivered' = IF src = "fec" THEN delivered
                         ELSE delivered \cup {d.seq}
         /\ tseqGot' = tseqGot \cup {d.tseq}
         /\ lastPkt' = [d |-> d, ext |-> ext, ok |-> TRUE]
  /\ UNCHANGED <<recvSession, sendSession, active, dtlsKeyed, rtpMap,
                 incoming, srcExtSeq, remote>>

\* onData, RTP branch: one of the early returns (logged, nothing changed).
OnDataRtpDropped(d) ==
  /\ DropReason(d) # "none"
  /\ feedback' = {}
  /\ lastNack' = {}
  /\ lastPkt' = [d |-> d, ext |-> 0, ok |-> FALSE]
  /\ UNCHANGED <<transport, nacked, delivered, tseqGot, remote>>

(***************************************************************************)
(* Operations that configure the transport.                                *)
(***************************************************************************)
\* SetProperties: rtpMap rebuilt from the codec properties (the extension
\* map is assumed to map the transport-wide-cc id).
SetProperties(cfg) ==
  /\ rtpMap' = MapOf(cfg)
  /\ Quiet
  /\ UNCHANGED <<recvSession, sendSession, active, dtlsKeyed, incoming,
                 cycles, srcExtSeq, losts, fbCycles, fbLast,
                 nacked, delivered, tseqGot, remote>>

\* AddRemoteCandidate: the candidate becomes active if none is.
AddRemoteCandidate ==
  /\ ~active
  /\ active' = TRUE
  /\ Quiet
  /\ UNCHANGED <<recvSession, sendSession, dtlsKeyed, rtpMap, incoming,
                 cycles, srcExtSeq, losts, fbCycles, fbLast,
                 nacked, delivered, tseqGot, remote>>

\* SetLocalCryptoSDES with a known suite and a key of the right length:
\* the new send session replaces (and frees) the previous one.
SetLocalCryptoSDES ==
  /\ sendSession' = TRUE
  /\ Quiet
  /\ UNCHANGED <<recvSession, active, dtlsKeyed, rtpMap, incoming,
                 cycles, srcExtSeq, losts, fbCycles, fbLast,
                 nacked, delivered, tseqGot, remote>>

\* SetRemoteCryptoSDES, likewise for the receive session.
SetRemoteCryptoSDES ==
  /\ recvSession' = TRUE
  /\ Quiet
  /\ UNCHANGED <<sendSession, active, dtlsKeyed, rtpMap, incoming,
                 cycles, srcExtSeq, losts, fbCycles, fbLast,
                 nacked, delivered, tseqGot, remote>>

\* onData, DTLS branch, on the record that completes the handshake: the
\* engine calls onDTLSSetup, which installs both SRTP sessions.
OnDataDtlsSetup ==
  /\ ~dtlsKeyed
  /\ dtlsKeyed' = TRUE
  /\ sendSession' = TRUE
  /\ recvSession' = TRUE
  /\ Quiet
  /\ UNCHANGED <<active, rtpMap, incoming, cycles, srcExtSeq, losts,
                 fbCycles, fbLast, nacked, delivered, tseqGot, remote>>

\* Reset: both SRTP sessions are freed; candidates, maps and groups stay.
Reset ==
  /\ sendSession' = FALSE
  /\ recvSession' = FALSE
  /\ Quiet
  /\ UNCHANGED <<active, dtlsKeyed, rtpMap, incoming, cycles, srcExtSeq,
                 losts, fbCycles, fbLast, nacked, delivered, tseqGot, remote>>

\* AddIncomingSourceGroup: media always, fec and rtx when their SSRC != 0.
AddIncomingSourceGroup ==
  /\ incoming' = {"media", "rtx"} \cup (IF WithFec THEN {"fec"} ELSE {})
  /\ Quiet
  /\ UNCHANGED <<recvSession, sendSession, active, dtlsKeyed, rtpMap,
                 cycles, srcExtSeq, losts, fbCycles, fbLast,
                 nacked, delivered, tseqGot, remote>>

\* RemoveIncomingSourceGroup: the group's SSRCs leave the map; the group
\* object and its state stay with the application.
RemoveIncomingSourceGroup ==
  /\ incoming' = {}
  /\ Quiet
  /\ UNCHANGED <<recvSession, sendSession, active, dtlsKeyed, rtpMap,
                 cycles, srcExtSeq, losts, fbCycles, fbLast,
                 nacked, delivered, tseqGot, remote>>

(***************************************************************************)
(* The remote peer.                                                        *)
(***************************************************************************)
CanEmit == Cardinality(inflight) < MaxSent

SentMedia == {d.seq : d \in {x \in inflight : x.src = "media"}}

RemoteStep(d) ==
  /\ CanEmit
  /\ inflight' = inflight \cup {d}
  /\ tseqNext' = tseqNext + 1
  /\ Quiet
  /\ UNCHANGED <<transport, nacked, delivered, tseqGot>>

\* A new media packet.
EmitMedia ==
  /\ RemoteStep([src |-> "media", seq |-> mediaNext, tseq |-> tseqNext])
  /\ mediaNext' = mediaNext + 1
  /\ UNCHANGED fecNext

\* An RTX copy of a media packet the transport NACKed.
EmitRtx(s) ==
  /\ Word(s) \in nacked
  /\ RemoteStep([src |-> "rtx", seq |-> s, tseq |-> tseqNext])
  /\ UNCHANGED <<mediaNext, fecNext>>

\* A FEC packet, numbered in the FEC stream's own sequence space.
EmitFec ==
  /\ WithFec
  /\ RemoteStep([src |-> "fec", seq |-> fecNext, tseq |-> tseqNext])
  /\ fecNext' = fecNext + 1
  /\ UNCHANGED mediaNext

Next ==
  \/ \E d \in inflight : OnDataRtp(d)
  \/ \E d \in inflight : OnDataRtpDropped(d)
  \/ \E cfg \in Configs : SetProperties(cfg)
  \/ AddRemoteCandidate
  \/ SetLocalCryptoSDES
  \/ SetRemoteCryptoSDES
  \/ OnDataDtlsSetup
  \/ Reset
  \/ AddIncomingSourceGroup
  \/ RemoveIncomingSourceGroup
  \/ EmitMedia
  \/ \E s \in SentMedia : EmitRtx(s)
  \/ EmitFec

Spec == Init /\ [][Next]_vars

(***************************************************************************)
(* Properties.                                                             *)
(***************************************************************************)
TypeOK ==
  /\ recvSession \in BOOLEAN /\ sendSession \in BOOLEAN
  /\ active \in BOOLEAN /\ dtlsKeyed \in BOOLEAN
  /\ DOMAIN rtpMap \subseteq Nat /\ \A pt \in DOMAIN rtpMap : rtpMap[pt] \in Codecs
  /\ incoming \subseteq Sources
  /\ cycles \in [Sources -> Nat] /\ srcExtSeq \in [Sources -> Nat]
  /\ losts.len \in 0 .. Capacity
  /\ lastNack \subseteq nacked

\* A NACK only asks for media packets the remote has sent and that have not
\* reached the listener, across reordering, duplicates, RTX recovery and
\* Reset.  FEC packets also enter the group's loss window; the runs keep
\* their numbers apart from the media numbers.
NackSound ==
  \A w \in lastNack :
    \E s \in SentMedia : Word(s) = w /\ s \notin delivered

\* The 16-bit transport number the remote reads for feedback entry e: the
\* base is the first key, entries follow in key order.
Reported(e) ==
  Word(Min({x.key : x \in feedback}) + Cardinality({x \in feedback : x.key < e.key}))

GotWire == {Word(t) : t \in tseqGot}

\* A transport-wide feedback never reports as received a packet that was
\* not received.
TwccNoFalseReceived ==
  \A e \in feedback : e.got => Reported(e) \in GotWire

\* A transport-wide feedback never reports as lost a packet that was
\* received (spec.md 4.4 step 4: only the gaps since the last observed
\* transport number are backfilled as not received).
TwccNoFalseLost ==
  \A e \in feedback : ~e.got => Reported(e) \notin GotWire

\* The extended transport-wide number the feedback state tracks never runs
\* ahead of the numbers the remote has stamped: feedbackCycles advances only
\* on a real wrap, even when packets around the wrap arrive reordered.
FeedbackNotAhead == fbLast < tseqNext

\* The extended sequence number onData gives a media or RTX packet is the
\* remote's once every media packet sent before it has been delivered:
\* the source's cycles advance when its 16-bit number wraps (spec.md 4.4
\* step 3), which needs the last number seen (source->extSeq) kept current.
ExtSeqReconstructed ==
  /\ lastPkt.ok /\ lastPkt.d.src \in {"media", "rtx"}
  /\ \A s \in SentMedia : s < lastPkt.d.seq => s \in delivered
  => lastPkt.ext = lastPkt.d.seq

\* An RTX packet on a registered group whose RTX payload type is mapped to
\* RTX and whose associated (apt) media payload type is configured is
\* unwrapped and delivered (spec.md 4.1, RTX unwrap).
RtxRecovers ==
  /\ lastPkt.d.src = "rtx"
  /\ recvSession /\ "rtx" \in incoming
  /\ CodecFor(RemotePT.rtx) = "RTX"
  /\ CodecFor(RemotePT.media) # "NotFound"
  => lastPkt.ok
=============================================================================
