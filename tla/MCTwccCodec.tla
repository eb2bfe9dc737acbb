---------------------------- MODULE MCTwccCodec ----------------------------
(***************************************************************************)
(* Drives TwccCodec with every field TLC can build within the bounds: a    *)
(* field grows one transport-wide sequence number at a time (lost, or      *)
(* received some whole number of 250 us units after the previous received  *)
(* one), and is sent and restarted at any point.  onData builds a field   *)
(* with one received entry after the backfilled lost ones; the fields      *)
(* here are more general, with several received entries.                   *)
(***************************************************************************)
EXTENDS TwccCodec

Rtcp == INSTANCE RtcpCodec

CONSTANTS
  MaxLen,      \* the longest field built
  FirstTimes,  \* arrival times (us) the first received packet may have
  Steps        \* 250 us units from one received packet to the next

ASSUME FirstTimes \subseteq {t \in 64000 .. 2^24 : (t - 64000) % 250 = 0}

VARIABLE field

\* The arrival time of the last received packet of a field that has one.
LastArrival(f) == f[CHOOSE i \in DOMAIN f : f[i] # 0 /\ \A j \in i + 1 .. Len(f) : f[j] = 0]

ArrivalsAfter(f) ==
  {0} \cup IF \A i \in DOMAIN f : f[i] = 0
           THEN FirstTimes
           ELSE {LastArrival(f) + 250 * k : k \in Steps}

Init == field = <<>>

\* The next sequence number is added to the field.
Record(t) ==
  /\ Len(field) < MaxLen
  /\ field' = Append(field, t)

\* The field is serialized and sent; the next feedback starts a new one.
Send ==
  /\ field # <<>>
  /\ field' = <<>>

Next ==
  \/ \E t \in ArrivalsAfter(field) : Record(t)
  \/ Send

Spec == Init /\ [][Next]_field

\* Every field the receiver may build decodes to itself: the chunk list
\* Serialize writes (run-length, 1-bit and 2-bit vectors, chosen by the
\* allsame/maxStatus bookkeeping) and its delta bytes are read back by Parse
\* to the same statuses and times, with no byte left over or missing.
FieldRoundTrips == field # <<>> => RoundTrips(field)

\* The feedback packet onData builds per received video packet:
\* RTCPRTPFeedback::Create(TransportWideFeedbackMessage, 0, ssrc) holding
\* the one field, added to a compound sent through the MTU buffer.
MCMTU == 1500
MCMediaSSRC == 16909060

FeedbackPacket ==
  [pt |-> Rtcp!RTPFeedback, type |-> Rtcp!TransportWideFeedbackMessage,
   sender |-> 0, media |-> MCMediaSSRC, fields |-> <<field>>]

\* The transport-wide feedback reaches the peer intact (the RTCP round trip
\* the design asks of every sub-packet kind): RTCPCompoundPacket::Parse of
\* the bytes RTCPRTPFeedback::Serialize writes, with the header length it
\* takes from the field's GetSize, gives back the one feedback packet with
\* the same arrival times.
FeedbackRoundTrips ==
  field # <<>> => Rtcp!CompoundRoundTrips(<<FeedbackPacket>>, MCMTU)
=============================================================================
