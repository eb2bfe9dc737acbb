--------------------------- MODULE MCLossTracker ---------------------------
(***************************************************************************)
(* Model-checking instances of LossTracker.                                *)
(***************************************************************************)
EXTENDS LossTracker

Rtcp == INSTANCE RtcpCodec

\* Extended numbers around the first 16-bit wrap, 65536 = cycle 1, seq 0.
MCSeqWrap == 65532 .. 65538

\* Numbers 1..22 and 41 for the 19-slot window: 1 then 22 slides by three
\* and leaves 18 holes, one more than a pid and its 16-bit mask can ask for,
\* so GetNacks splits them over two fields; 1 then 41 slides by more than
\* the window (n > size), which clears it whole.
MCSeqLong == (1 .. 22) \cup {41}

\* Bound the history: at most 3 distinct arrivals (duplicates are free).
LongConstraint == Cardinality(recv) <= 3
\* The buffer DTLSICETransport::Send serializes into (MTU) and the media
\* SSRC the NACK is about, one whose four bytes all differ.
MCMTU == 1500
MCMediaSSRC == 16909060

\* The packet onData builds after a loss: RTCPRTPFeedback::Create(NACK, 0,
\* ssrc) with GetNacks' fields added in the order of its list.
NackPacket(nacks) ==
  [pt |-> Rtcp!RTPFeedback, type |-> Rtcp!NACK, sender |-> 0, media |-> MCMediaSSRC,
   fields |-> nacks]

\* The packet SendPLI builds: RTCPPayloadFeedback::Create(PictureLossIndication,
\* 0, ssrc), with no fields.
PliPacket ==
  [pt |-> Rtcp!PayloadFeedback, type |-> Rtcp!PictureLossIndication, sender |-> 0,
   media |-> MCMediaSSRC, fields |-> <<>>]

\* Whenever AddPacket reports losses, so that onData sends a NACK of one
\* or two fields, that NACK survives the RTCP codec even behind another
\* feedback packet: RTCPCompoundPacket::Parse of the bytes Serialize writes
\* for SendPLI's packet followed by the NACK (header lengths from GetSize,
\* the PLI's empty body, the parse loop's offset advance) gives back both
\* packets in order, with the same SSRCs and pid/mask fields.  The
\* transport itself sends the two in separate compounds; a peer may batch
\* them.  The NACK field's own bytes follow RFC 4585 (rtp.h is absent).
PliNackCompoundRoundTrips ==
  lastLost > 0 =>
    LET nacks == GetNacks(lt)
    IN  nacks # <<>> =>
          Rtcp!CompoundRoundTrips(<<PliPacket, NackPacket(nacks)>>, MCMTU)
=============================================================================
