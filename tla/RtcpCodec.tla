------------------------------ MODULE RtcpCodec ------------------------------
(***************************************************************************)
(* The RTCP codecs of src/mcu/src/rtp.cpp that the transport's feedback    *)
(* loop goes through: the common header length (Get/SetRTCPHeaderLength), *)
(* RTCPRTPFeedback (GetSize, Serialize, Parse) with its NACK, TMMBR/TMMBN  *)
(* and transport-wide fields, and RTCPCompoundPacket::Parse.               *)
(*                                                                         *)
(* A datagram is a sequence of bytes (values 0 .. 255).  A sub-packet is a *)
(* record tagged with its payload type; an RTP feedback packet carries its *)
(* feedback type, its two SSRCs and its fields: a NACK field [pid, blp]    *)
(* with blp the set of offsets k in 1 .. 16 it asks for (pid+k), a TMMBR   *)
(* field its two FCI words, a transport-wide field its arrival times as    *)
(* in TwccCodec.  The other sub-packet kinds are parsed by codecs this     *)
(* module leaves out; they are kept as their type and bytes.               *)
(*                                                                         *)
(* NACKField, TempMaxMediaStreamBitrateField, IsRTCP and                   *)
(* RTCPCompoundPacket::Serialize live in rtp.h, which is not part of the   *)
(* sources; they follow the wire formats the design names (RFC 3550/4585/  *)
(* 5104, RFC 5761 for the payload-type range).                             *)
(***************************************************************************)
EXTENDS Integers, Sequences, SequencesExt

Twcc == INSTANCE TwccCodec

\* RTCPPacket::Type
FullIntraRequest == 192
NACKType == 193
ExtendedJitterReport == 195
SenderReport == 200
ReceiverReport == 201
SDES == 202
Bye == 203
App == 204
RTPFeedback == 205
PayloadFeedback == 206

KnownTypes == {FullIntraRequest, NACKType, ExtendedJitterReport, SenderReport,
               ReceiverReport, SDES, Bye, App, RTPFeedback, PayloadFeedback}

\* RTCPRTPFeedback::FeedbackType
NACK == 1
TMMBR == 3
TMMBN == 4
TransportWideFeedbackMessage == 15

\* RTCPPayloadFeedback::FeedbackType: PLI, FIR, and the kinds whose fields
\* this module keeps as bytes (SLI, RPSI, TSTR, TSTN, VBCM, AFB).
PictureLossIndication == 1
FullIntraRequestFeedback == 4
OtherPayloadTypes == {2, 3, 5, 6, 7, 15}

\* A value get4 cannot return: the bytes lie past the end of the buffer.
Undefined == -1

\* getN(data, off): n bytes big-endian; setN: the n bytes of v.
Get(b, off, n) ==
  IF off + n > Len(b) THEN Undefined
  ELSE CASE n = 1 -> b[off + 1]
         [] n = 2 -> b[off + 1] * 256 + b[off + 2]
         [] n = 3 -> (b[off + 1] * 256 + b[off + 2]) * 256 + b[off + 3]
         [] n = 4 -> ((b[off + 1] * 256 + b[off + 2]) * 256 + b[off + 3]) * 256 + b[off + 4]

Set(v, n) == [i \in 1 .. n |-> (v \div 256^(n - i)) % 256]

(***************************************************************************)
(* The common header {version:2, p:1, count:5, pt:8, length:16}.           *)
(***************************************************************************)
GetRTCPHeaderLength(b) == (Get(b, 2, 2) + 1) * 4

\* `length = htons(size/4)`: the words-minus-one rule forgotten.
SetLengthWords(size) == (size \div 4) % 65536

\* `header->length = htons(size/4-1)`: a DWORD cut to 16 bits.
SetRTCPHeaderLength(size) == (size \div 4 - 1) % 65536

HeaderBytes(count, pt, size) ==
  <<2 * 64 + count, pt>> \o Set(SetRTCPHeaderLength(size), 2)

\* IsRTCP: at least a header, version 2, payload type in 192 .. 223.
IsRTCP(b) == Len(b) >= 4 /\ b[1] \div 64 = 2 /\ b[2] \in 192 .. 223

(***************************************************************************)
(* Feedback fields.                                                        *)
(***************************************************************************)
\* NACKField: pid, then the mask with bit 16-k asking for pid+k (the bit
\* onRTCP tests as `(blp >> (15-i)) & 1` for pid+i+1).
RECURSIVE BlpWord(_)
BlpWord(ks) ==
  IF ks = {} THEN 0
  ELSE LET k == CHOOSE k \in ks : TRUE IN 2^(16 - k) + BlpWord(ks \ {k})
BlpOffsets(w) == {k \in 1 .. 16 : (w \div 2^(16 - k)) % 2 = 1}

FieldGetSize(p, f) ==
  CASE p.pt = PayloadFeedback -> IF p.type = FullIntraRequestFeedback THEN 8 ELSE Len(f)
    [] p.type = NACK -> 4
    [] p.type \in {TMMBR, TMMBN} -> 8
    [] p.type = TransportWideFeedbackMessage -> Twcc!GetSize(f)

\* Field::Serialize.  The transport-wide header's base sequence number and
\* feedback count, which TwccCodec abstracts, are written as 0.  A FIR
\* field is {ssrc, seq, 3 reserved bytes}.
FieldBytes(p, f) ==
  CASE p.pt = PayloadFeedback ->
         IF p.type = FullIntraRequestFeedback THEN Set(f.ssrc, 4) \o Set(f.seq, 1) \o Set(0, 3)
         ELSE f
    [] p.type = NACK -> Set(f.pid, 2) \o Set(BlpWord(f.blp), 2)
    [] p.type \in {TMMBR, TMMBN} -> Set(f[1], 4) \o Set(f[2], 4)
    [] p.type = TransportWideFeedbackMessage ->
         IF f = <<>> THEN <<>>
         ELSE LET m == Twcc!Serialize(f)
              IN  Set(0, 2) \o Set(m.count, 2) \o Set(m.ref, 3) \o Set(0, 1) \o m.body

\* Field::Parse(data, size): [parsed (0 = error), field].
ParseField(type, d) ==
  CASE type = NACK ->
         IF Len(d) < 4 THEN [parsed |-> 0]
         ELSE [parsed |-> 4, field |-> [pid |-> Get(d, 0, 2), blp |-> BlpOffsets(Get(d, 2, 2))]]
    [] type \in {TMMBR, TMMBN} ->
         IF Len(d) < 8 THEN [parsed |-> 0]
         ELSE [parsed |-> 8, field |-> <<Get(d, 0, 4), Get(d, 4, 4)>>]
    [] type = TransportWideFeedbackMessage ->
         IF Len(d) < 8 THEN [parsed |-> 0]
         ELSE LET r == Twcc!Parse([count |-> Get(d, 2, 2), ref |-> Get(d, 4, 3),
                                   body  |-> SubSeq(d, 9, Len(d))])
              IN  IF r.ok THEN [parsed |-> 8 + r.len, field |-> r.times]
                  ELSE [parsed |-> 0]
    [] OTHER -> [parsed |-> 0]   \* `return Error("Unknown RTCPRTPFeedback type")`

\* RTCPPayloadFeedback::Parse's switch: a PLI has no body; the fields of
\* the kinds in OtherPayloadTypes are taken whole.
PayloadField(type, d) ==
  CASE type = PictureLossIndication -> [parsed |-> 0]   \* "PictureLossIndication with body"
    [] type = FullIntraRequestFeedback ->
         IF Len(d) < 8 THEN [parsed |-> 0]
         ELSE [parsed |-> 8, field |-> [ssrc |-> Get(d, 0, 4), seq |-> Get(d, 4, 1)]]
    [] type \in OtherPayloadTypes -> [parsed |-> Len(d), field |-> d]
    [] OTHER -> [parsed |-> 0]   \* "Unknown RTCPPayloadFeedback type"

FieldParser(pt, type, d) ==
  IF pt = RTPFeedback THEN ParseField(type, d) ELSE PayloadField(type, d)

(***************************************************************************)
(* RTCPRTPFeedback; RTCPPayloadFeedback's GetSize, Parse and Serialize    *)
(* are the same code with its own field switch.                            *)
(***************************************************************************)
\* `8+sizeof(rtcp_common_t)` plus each field's GetSize.
GetSize(p) ==
  LET len[i \in 0 .. Len(p.fields)] ==
        IF i = 0 THEN 12 ELSE len[i - 1] + FieldGetSize(p, p.fields[i])
  IN  len[Len(p.fields)]

\* Serialize(data, size): the header with GetSize's length, the SSRCs and
\* every field as its Serialize writes it; nothing if GetSize exceeds size.
Serialize(p, size) ==
  LET packetSize == GetSize(p) IN
  IF size < packetSize THEN <<>>
  ELSE HeaderBytes(p.type, p.pt, packetSize) \o Set(p.sender, 4) \o Set(p.media, 4)
         \o LET w[i \in 0 .. Len(p.fields)] ==
                  IF i = 0 THEN <<>> ELSE w[i - 1] \o FieldBytes(p, p.fields[i])
             IN  w[Len(p.fields)]

\* The field loop: `while (len<packetSize)`, each field given packetSize-len.
RECURSIVE ParseFields(_, _, _, _, _, _)
ParseFields(d, pt, type, len, packetSize, fields) ==
  IF len >= packetSize THEN [ok |-> TRUE, fields |-> fields]
  ELSE LET f == FieldParser(pt, type, SubSeq(d, len + 1, packetSize))
       IN  IF f.parsed = 0 THEN [ok |-> FALSE, fields |-> fields]
           ELSE ParseFields(d, pt, type, len + f.parsed, packetSize, Append(fields, f.field))

\* Parse(data, size), data being the rest of the datagram: the SSRCs are
\* read at 4 and 8 whatever packetSize says.  [ok, pkt].
ParseFeedback(d, size) ==
  LET packetSize == GetRTCPHeaderLength(d)
      type       == d[1] % 32
      r          == ParseFields(d, d[2], type, 12, packetSize, <<>>)
  IN  IF size < packetSize \/ ~r.ok THEN [ok |-> FALSE]
      ELSE [ok |-> TRUE,
            pkt |-> [pt |-> d[2], type |-> type, sender |-> Get(d, 4, 4),
                     media |-> Get(d, 8, 4), fields |-> r.fields]]

(***************************************************************************)
(* RTCPCompoundPacket.                                                     *)
(***************************************************************************)
\* Serialize: each sub-packet written into the space the previous left.
CompoundSerialize(pkts, size) ==
  LET w[i \in 0 .. Len(pkts)] ==
        IF i = 0 THEN <<>> ELSE w[i - 1] \o Serialize(pkts[i], size - Len(w[i - 1]))
  IN  w[Len(pkts)]

\* One turn of Parse's loop on the bytes b left: [fail] or [ok, pkt].
\* Fewer than 4 bytes left: the header is read past the buffer, and every
\* length it can give, at least 4, exceeds what is left.
RECURSIVE ParseFrom(_, _)
ParseFrom(b, pkts) ==
  IF b = <<>> THEN [ok |-> TRUE, packets |-> pkts]
  ELSE IF Len(b) < 4 THEN [ok |-> FALSE, packets |-> <<>>]
  ELSE LET len  == GetRTCPHeaderLength(b)
           pt   == b[2]
           sub  == CASE pt \in {RTPFeedback, PayloadFeedback} -> ParseFeedback(b, len)
                     [] pt \in KnownTypes -> [ok |-> TRUE, pkt |-> [pt |-> pt, bytes |-> SubSeq(b, 1, len)]]
                     [] OTHER -> [ok |-> FALSE]   \* unknown type: skipped
       IN  IF len > Len(b) THEN [ok |-> FALSE, packets |-> <<>>]   \* "Wrong rtcp packet size": NULL
           ELSE ParseFrom(SubSeq(b, len + 1, Len(b)), IF sub.ok THEN Append(pkts, sub.pkt) ELSE pkts)

\* Parse(data, size): NULL unless IsRTCP.
CompoundParse(b) ==
  IF IsRTCP(b) THEN ParseFrom(b, <<>>) ELSE [ok |-> FALSE, packets |-> <<>>]

\* What the peer gets back from a compound packet the transport sends into
\* its MTU buffer: the same sub-packets.
CompoundRoundTrips(pkts, size) ==
  CompoundParse(CompoundSerialize(pkts, size)) = [ok |-> TRUE, packets |-> pkts]
=============================================================================
