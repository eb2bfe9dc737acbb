# TLA+ models of the mcumediaserver WebRTC transport core

This directory holds TLA+ specifications of the media transport in
`src/mcu/src/DTLSICETransport.cpp` and `src/mcu/src/rtp.cpp`, and of the
thread control of the video stream in `src/mcu/src/videostream.cpp` and of
the test sender in `src/cca/sender.cpp`, the TLC
configurations that check them, and `PROJECT.json`. `PROJECT.json` lists the
components, the runs, the mutants, the mapping from each definition to its
source lines, the findings and the hazards.

## The system

`DTLSICETransport` is one bundled WebRTC transport. Its parts and how they
interact:

| Part | Code | State | Operations |
|---|---|---|---|
| Receive path | `onData` (68-403) | `recvSRTPSession`, `rtpMap`, `extMap`, `incoming` map, per-source `cycles`/`extSeq`, `feedbackCycles`, `lastFeedbackPacketExtSeqNum`, each group's `RTPLostPackets` | Demultiplexes DTLS, RTCP and RTP. For RTP it unprotects SRTP, looks up the payload type and SSRC, unwraps RTX, detects sequence wrap, sends a transport-wide feedback for every video packet, records the packet in the loss window, sends a NACK when losses appear, and hands the packet to the group listener. |
| Loss window | `RTPLostPackets` (rtp.cpp 1533-1675) | `packets[size]`, `first`, `len` | `AddPacket` returns the number of new losses. `GetNacks` returns NACK fields `{pid, 16-bit mask}`. `Reset`. |
| Send path | `Send(RTPTimedPacket&)` (928-1062), `ReSendPacket` (405-493) | `outgoing` map, `transportSeqNum`, each group's retransmission buffer `packets` | Protects and sends RTP. Stores each sent packet by extended number and prunes by age. Re-sends as RTX on a NACK. On a cache miss it requests a PLI and flushes the buffer. |
| RTCP dispatch | `onRTCP` (1065-1244), `Send(RTCP)` (880-911), `SendPLI` | none of its own | NACK feeds `ReSendPacket`. PLI/FIR feeds the listener. Reports, REMB and TMMBR are only logged. |
| Configuration and keying | `SetProperties`, `AddRemoteCandidate`, `SetLocal/RemoteCryptoSDES`, `SetRemoteCryptoDTLS`, `onDTLSSetup`, `Reset`, STUN credential setters, `Add/Remove{Incoming,Outgoing}SourceGroup` | `rtpMap`, `extMap`, `candidates`, `active`, SRTP sessions, the group maps | Each operation sets up what `onData` and `Send` rely on. |
| Codecs | rtp.cpp | none | RTCP compound parse and serialise, the RTP-feedback packet and its fields (NACK, TMMBR, TWCC), the other RTCP sub-packets, RTP header extensions. The transport serialises the NACK and TWCC feedback it builds into its MTU buffer (`Send(RTCP)`); the peer's `RTCPCompoundPacket::Parse` must give it back. |

The threads are the network receive thread (`onData`, which also calls
`onRTCP`) and application threads (`Send`, `SendPLI`, the configuration
calls). `onData`, `Send`, `SendPLI` and `AddRemoteCandidate` take the
transport mutex. `Reset`, the SDES setters and the group registry do not.

`VideoStream` (`videostream.cpp`) is the application side of one video
stream over an `RTPSession`. It has three threads:
- the control thread calls `StartSending`, `StartReceiving`, `StopSending`,
  `StopReceiving` and `End`; each Start first stops a running thread, and each
  Stop clears the thread's flag (`sendingVideo`, `receivingVideo`), cancels
  its blocking call (`CancelGrabFrame`, `CancelGetPacket`), signals the
  condition variable (sending only) and joins the thread;
- `SendVideo` loops while `sendingVideo`: grab a frame, encode it, wait on
  `cond` with a timeout of one frame interval (after the first frame), and
  send it through the smoother; a 0 return from the wait is taken for
  StopSending's signal and ends the loop;
- `RecVideo` loops while `receivingVideo`: get a packet, unwrap RED, (re)create
  the decoder, count losses, request intra frames, decode and output.

In the transport models the remote peer stands for the application.

`src/cca/sender.cpp` is a traffic generator for congestion-control tests.
`main` sets the `Sender`'s fields from the options, calls `Start` (which
checks them, sets `sending` and creates the thread), reads stdin until `q`
and calls `Stop` (clear `sending`, join). The thread's `Run` computes the
frame sizes for `rate` and `rateMin` and, while `sending`, sends an I frame
every `gop` frames and random-size P frames otherwise, each cut into packets
of at most `maxRTPSize` bytes, then sleeps until the next frame is due.

## Modules

### `LossTracker.tla`: `RTPLostPackets`

The tracker is a record `[first, len, slots]`. Slots hold "recorded or not",
because the code only ever compares an arrival time with 0.

- Operators:
  - `AddPacketOp` models `AddPacket`: the very-old early return, the re-anchor when `first == 0`, the WORD `pos`, the memmove/memset slide and the count of lost packets.
  - `GetNacks` models `GetNacks`. Its scan is the `RECURSIVE NackScan`, which keeps the WORD pid, the mask bits written and the flush every 16 bits.
  - `NackedWire` decodes fields the way `onRTCP` does: bit `15-i` asks for `pid+i+1`. This is the same order in which `GetNacks` writes them.
- Stand-alone specification: the network delivers any number of `SeqIn` in any order, any number of times. `Reset` may happen at any time. The history variable `recv` is the set of numbers delivered since the last `Reset`.
- `ReceivePath` reuses the operators through `INSTANCE`.

### `ReceivePath.tla`: the RTP branch of `onData` and the operations it depends on

The model covers one video source group with media, RTX and (optionally) FEC
sources.

- Transport state: `recvSession`, `sendSession`, `active`, `dtlsKeyed`, `rtpMap`, `incoming` (which of the group's SSRCs are registered), `cycles` and `srcExtSeq` per source, `losts`, `fbCycles` and `fbLast`.
- The remote peer is the environment:
  - `EmitMedia` sends media packets in order.
  - `EmitFec` sends FEC packets in their own sequence space.
  - `EmitRtx` sends RTX copies of packets it was NACKed for.
  - Every datagram gets the next transport-wide number.
  - `inflight` keeps every datagram ever sent. The receiver may take any of them at any time, any number of times, or never, which models loss, reordering and duplication.
- Outputs recorded for the properties:
  - `feedback`: the field of the feedback sent by the last step.
  - `lastNack` and `nacked`: the NACKs sent.
  - `delivered`: packets handed to the listener.
  - `tseqGot`: transport numbers received.
  - `lastPkt`: what the last `onData` did.
- Actions:
  - `OnDataRtp` is the whole accepted path: cycles, feedback state and field, `AddPacket`, NACK, delivery.
  - `OnDataRtpDropped` covers every early return (see `DropReason`).
  - `SetProperties`, `AddRemoteCandidate`, `SetLocalCryptoSDES`, `SetRemoteCryptoSDES`, `OnDataDtlsSetup` (the DTLS record that completes the handshake), `Reset`, `AddIncomingSourceGroup` and `RemoveIncomingSourceGroup` each model their operation.
- Payload types: `MapOf` reproduces the order of the assignments in `SetProperties`, so a later one wins. `Configs` enumerates property sets.
- Abstraction: every operation is atomic. This is the coarse-lock view of the spec. `TransportLocking` models what that view hides for the SRTP sessions.

### `SendPath.tla`: `Send(RTP)`, the retransmission buffer, `onRTCP` NACK/PLI, `ReSendPacket`

The model covers one outgoing video group.

- State:
  - `buffer`: `group->packets`, as records `[key, seq, t, fits]`.
  - `active`, `sendSession`, `recvSession`, `registered`: the flags the operations check.
  - `nextSeq` and `sent`: the application's packets.
  - `now`: a clock in ticks.
- Actions:
  - `SendRtp` is the whole accepted `Send`: store under `StoreKey`, replace an existing key, prune by age in key order.
  - `SendRtpRefused` covers its early returns.
  - `OnRtcpNack(pid, offs)` models the NACK case of `onRTCP`. It folds `ReSendPacket` over pid and then every set mask bit, in the order the loop calls it. `ReSendPacket` has three paths: a hit sends RTX; a packet too large for the OSN is logged and skipped; a miss requests a PLI and deletes the buffer.
  - `OnRtcpPli` models PLI/FIR.
  - The keying, candidate and registry operations.
  - `Tick` advances the clock.
- `group->media.cycles` is never written by the transport, so `MediaCycles` is 0.
- `fits` is chosen when a packet is stored. It stands for the packet's size relative to the MTU.
- Abstracted away: the transport-wide sequence number, the RTX source's own sequence number and SRTP protect failures.

### `TransportLocking.tla`: the mutex and the SRTP sessions

- Three threads:
  - `recv` is the network thread. `OnData` takes the `ScopedLock`. It then either takes the RTP path (`RtpCheck`, `RtpUnprotect`, `RtpDone`, and the transport-wide feedback's `Send(RTCP)`: `FeedbackCheck`, `FeedbackProtect`, `FeedbackDone`) or takes a DTLS record that completes the handshake. In the second case `onDTLSSetup` runs `SetLocalCryptoSDES` then `SetRemoteCryptoSDES` on this thread, still under the lock.
  - `app` runs `SendRtp` under the lock: `SendCheck`, `SendProtect`, `SendDone`.
  - `sig` is the signalling thread. It runs `Reset` (`ResetFree` for each member, then `ResetClear`) or either setter, without the lock.
- `lock` is the owner of the recursive mutex, and `Release` is the `~ScopedLock` on every return path.
- `sess` holds the two members.
- `mem` is the state of each session's memory: `unused`, `live`, `freed`, or `corrupt` once it has been freed twice.
- `using` is the session an SRTP call started on. A call spans its start (`UseSession`) and its return (`EndUse`), so another thread can act in between.
- `tmp` is a setter's local `srtp_t session` between `srtp_create` and the store into the member.
- A setter is `CreateSession` (which fails with nothing changed, or creates), then `FreeOld` (`if (member) srtp_dealloc(member)`), then `Publish`. `After` gives where a setter returns to.
- The RTCP branch of `onData` is `RtcpCheck`, `RtcpUnprotect` and `RtcpDone`. `onRTCP` then takes one of three paths:
  - `ReSendProtect`: a NACK of a buffered packet makes `ReSendPacket` call `srtp_protect(sendSRTPSession)` without checking the member;
  - `ReSendMiss`: a NACK of a packet that is gone requests a PLI and deletes the buffer;
  - `RtcpNoNack`: any other report.
- `buffered` records whether `group->packets` holds a packet. `SendProtect` stores the packet before it protects (lines 1023-1026). `SendPath` models the buffer's contents.
- `SendPLI` is `Send(RTCP)` under the lock, the same as the feedback. Data and keys are abstracted away.

### `TwccCodec.tla`: the transport-wide feedback field codec

- `Serialize(p)` and `Parse(m)` of `TransportWideFeedbackMessageField` are pure operators. A field `p` is the sequence of arrival times (in us) of consecutive transport-wide numbers, with 0 meaning not received.
- `SerializeStep` is one iteration of `Serialize`'s loop. Its record holds the loop's locals: `referenceTime`, `time`, `statuses`, `lastStatus`, `maxStatus`, `allsame`, the chunks and the delta bytes. `FinalChunks` is the "not finished yet" tail, and `PadTo4` is the zero padding.
- Chunks are 16-bit words: `RunChunk`, `Vec2Chunk` and `Vec1Chunk`. Everything after the header is a byte sequence, so a width mismatch between writer and reader shows up as a misaligned read.
- `DeltaUnits` keeps the code's QWORD arithmetic. A negative difference wraps before the division.
- `Parse` is `ReadChunks` followed by `ReadTimes`, each with its "not enough data" failure.
- `MCTwccCodec` builds every field within the bounds, one entry at a time, and sends and restarts it at any point.
- `FieldRoundTrips` says that `Parse(Serialize(p))` succeeds, reads exactly the bytes written, and returns `p`.
- `GetSize(p)` folds `SizeStep` over the packets. `SizeStep` is one iteration of `GetSize`'s loop, over the same locals as `Serialize`'s. Its result is what `RtcpCodec` writes into the RTCP header.
- Assumption: `BitWritter::Put(n, v)` writes the low `n` bits of `v`. Its header is not in the repository.

### `RtcpCodec.tla`: the RTCP header, `RTCPRTPFeedback`, `RTCPPayloadFeedback` and `RTCPCompoundPacket::Parse`

- A datagram is a sequence of bytes. `Get`/`Set` are `getN`/`setN`. A read past the buffer gives `Undefined`, a value `get4` cannot return.
- `GetRTCPHeaderLength`, `SetRTCPHeaderLength` and `HeaderBytes` model the common header. `SetRTCPHeaderLength` keeps the DWORD `size/4-1` cut to 16 bits.
- `GetSize`, `Serialize` and `ParseFeedback`/`ParseFields` model `RTCPRTPFeedback`. `Serialize` writes the header length from `GetSize` and then whatever each field's `Serialize` writes. `ParseFields` is the `while (len<packetSize)` loop: each field gets `packetSize-len` bytes, and a field that fails fails the packet.
- `ParseField` dispatches on the feedback type. The transport-wide field goes through `TwccCodec` (`Twcc == INSTANCE TwccCodec`). NACK fields are `[pid, blp]`, with `blp` the set of offsets k that bit `16-k` asks for, the order `onRTCP` reads (`BlpOffsets`). The NACK, TMMBR and TMMBN fields, `IsRTCP` and the compound `Serialize` are in `rtp.h`, which is not in the repository. They follow RFC 4585/5104 and RFC 5761 and are marked `spec_modelled`.
- `RTCPPayloadFeedback` has the same `GetSize`, `Serialize` and `Parse` as `RTCPRTPFeedback`, with its own field switch: `FieldParser` picks it by the packet type, and `PayloadField` is that switch. A PLI with a body is an error. A FIR field is `[ssrc, seq]` followed by 3 reserved bytes. The SLI, RPSI, TSTR/TSTN, VBCM and AFB fields are kept as bytes. The feedback-type numbers are in `rtp.h` and are `spec_modelled`.
- `ParseFrom` is `RTCPCompoundPacket::Parse`'s loop, `RECURSIVE` over the bytes left. Fewer than 4 bytes, or a header length above what is left, gives NULL. A known type's packet is added if its `Parse` succeeds. An unknown type is skipped by its length. Sub-packet kinds other than RTP and payload feedback are kept as their type and bytes.
- Two compositions use it. `MCLossTracker` serialises the PLI `SendPLI` builds (`PliPacket`) followed by the feedback `onData` builds from `GetNacks` (`NackPacket`), as one compound. `MCTwccCodec` serialises the one-field transport-wide feedback (`FeedbackPacket`). `GetNacks` returns its fields as a list, in the code's order.

### `VideoStream.tla`: the stream threads of `videostream.cpp`

- State: `sending` and `receiving` are the two flags; `ctl` is where the
  control thread is inside a call and `ret` where that call returns to (End
  stops sending, then receiving); `snd` and `rcv` are the program points of
  `SendVideo` and `RecVideo` (`none` when no thread runs); `frameTime` is
  whether a frame has been sent, after which the loop waits; `grabCancel` and
  `pktCancel` are a pending `CancelGrabFrame` and `CancelGetPacket`.
- Each step of the control thread is one statement of `StopSending`
  (`StopSendingFlag`, `StopSendingCancel`, `StopSendingSignal`,
  `StopSendingJoin`) or `StopReceiving`, or the rest of a Start call
  (`StartSendingThread` with its error returns, `StartReceivingThread`).
- `SendVideo` is `SendVideoStart` (the error returns before the loop),
  `SendVideoCheck`, `GrabFrame`/`GrabFrameCanceled`, `EncodeFrame` (a failed
  encode is `continue`), `WaitTimeout`, `WaitSpurious`, `SendFrame` and
  `SendVideoEnd`. `RecVideo` is `RecVideoCheck`, `GetPacket`/`GetPacketCanceled`
  and `ProcessPacket`, which stands for every path of one packet.
- `pthread_cond_signal` is sent without the mutex and with no predicate, so
  it wakes the sender only if it is inside the wait (`StopSendingSignal`).
- Assumptions, since the input and `RTPSession` are not in the repository: a
  cancel makes the next (or the current) `GrabFrame`/`GetPacket` return NULL
  once. `Spec` has a `pthread_cond_timedwait` that returns 0 only on a
  signal; `SpecSpurious` adds `WaitSpurious`, a return of 0 with no signal,
  which POSIX allows.
- Frame and packet contents, bitrate adaptation, decoding and the loss and
  FPU accounting are abstracted: they change no control state.

### `CcaSender.tla` and `MCCcaSender.tla`: the test sender

- State: `opt` (the `Sender`'s fields), `main` and `thr` (where each thread
  is), `sending`, `Run`'s locals `frameSize`, `frameSizeMin`, `num`, `ts`,
  `seq`, and `frames`, the record of every frame sent with its packets
  `[seq, len, mark]`.
- `Init` chooses the options from `Options`: the option parsing is
  abstracted to the field values it can leave.
- `StartRefused` is each error return of `Start` (no ip, no port, rates out
  of order after `WithRateMin`); `Start` sets `sending` and creates the
  thread or fails to. `Stop` clears `sending`, and `Join` returns when the
  thread has exited.
- `RunSetup` computes the sizes with `FrameSizeFor`, in DWORDs (`Dword`).
  `SendFrame` is one iteration of the loop: `FrameBytes` (the random draw,
  or the I frame), the packetising loop (`FramePackets`, `RECURSIVE` over the
  bytes left: `len` capped at `maxRTPSize`, `seq++`, `size -= len`, and the
  mark set when `size` has become 0), the packets sent, `num++`, `ts` and the sleep. `RunCheck` and `RunEnd` are the
  loop test and the exit.
- `DwordMod` is 2^32 in the code. TLC's integers stop at 2^31, so
  `Cca_sender` scales it to 2^8 with the rates; no product of its options
  reaches it, as none of the code's defaults reaches 2^32.

## Runs

| Run | Expect | What it shows |
|---|---|---|
| `LossTracker_long` | pass | With 19 slots and any three distinct arrivals, reordered and duplicated, the window always equals the arrival history (`WindowMirrorsArrivals`), through slides by one, by several and by the whole window. Every gap above the highest packet is reported (`GapSignalled`). 18 holes do not fit one field (a pid and 16 mask bits), and the two fields `GetNacks` splits them into together NACK every hole (`NackComplete`) and nothing else (`NackSound`). The NACK of one or two fields, serialised behind `SendPLI`'s packet and parsed by the peer, comes back with both packets intact (`PliNackCompoundRoundTrips`). The NACK field's own bytes follow the RFC, since `rtp.h` is absent, so the mask bit order of `GetNacks`'s `BitWritter` is not checked against `onRTCP`'s. |
| `Receive_core` | pass | Under loss, reordering, duplication, RTX recovery, re-keying, `Reset` and group (de)registration, with FEC numbers kept far from the media ones, the transport NACKs only media that was sent and not delivered (`NackSound`). Feedback never reports a transport number as received that was not (`TwccNoFalseReceived`); with no wrap this checks the upper end of the backfill, not the 16-bit key of the current packet. |
| `Receive_wrap` | violation | `ExtSeqReconstructed`: once every earlier media packet was delivered, the extended number `onData` gives a packet is the sender's (spec.md 4.4 step 3). Media packets 65535 and 65536 arrive in order, and the second gets extended number 0. The wrap test reads `source->extSeq`, which nothing in the receive path writes, so `cycles` never advances. The loss window then drops the packet as very old and sends no NACK. Keeping `extSeq` current would fix this order but not a late duplicate of 65535, which the test, having no backward case, would number 131071. |
| `Receive_twcc_last` | violation | The backfill includes the previous packet, which is then reported lost. |
| `Receive_rtx_apt` | violation | With a typical configuration every RTX packet is dropped, because the apt check looks up `group->type`. |
| `Send_core` | pass | Away from the wrap, with buffered packets that fit the MTU or not, a NACK makes `ReSendPacket` request a PLI and flush the buffer only when some requested packet is really gone: the key `ReSendPacket` looks up is the key `Send` stored (`PliOnlyOnMiss`). `Send` leaves no packet past the pruning age (`BufferPruned`). |
| `Twcc_small` | pass | Every field of up to 15 entries, with received packets 0 to 127 units of 250 us apart, is parsed back to itself (`FieldRoundTrips`). |
| `Rtcp_twcc` | violation | `FeedbackRoundTrips`: the transport-wide feedback `onData` sends comes back from `RTCPCompoundPacket::Parse` unchanged (spec.md: `parse(serialize(p)) == p`). For three packets 250 us apart, `GetSize` gives 12 bytes of field and `Serialize` writes 16. `GetSize` counts one byte per 16-bit chunk, never sets `status`, and measures every delta from the reference time. The header announces 24 bytes, so the peer's field parse runs out of bytes and the feedback is dropped. The 4 bytes left over are read as a header of unknown type and skipped, and the peer gets an empty compound. `onData` builds fields with one received entry after the backfilled lost ones, not three received ones; it reaches the same mismatch once 14 or more losses are backfilled. |
| `Locking_race` | violation | `SessionsLive`: every SRTP call works on a live session and no session is freed twice. TLC finds a double free in 10 steps. `onData`'s DTLS path runs `SetLocalCryptoSDES` under the lock while the signalling thread runs it too. Both free the same old session, and a `Reset` frees it again. Without the DTLS path the same property fails through a use-after-free: `Reset` frees the send session while `Send(RTP)` is inside `srtp_protect`. It also fails through a NULL session: a packet is sent, `Reset` runs, only the receive session is keyed again, and a NACK makes `ReSendPacket` protect with `sendSRTPSession` NULL. |
| `Cca_sender` | pass | For the 48 option sets of `MCOptions` (every path of `Start`, both frame kinds, one to three packets per frame), `Start` refuses exactly the bad ones, every frame `Run` sends has the size the rates ask for (`FrameSizesFollowRates`), and its packets are numbered without gaps across frames, are at most `maxRTPSize` bytes, are the fewest possible and carry the marker on the last packet of each frame only (`PacketStreamWellFormed`). |
| `Stream_live` | pass | With a condition variable that wakes only on a signal or a timeout, `SendVideo` leaves its loop only after `sendingVideo` was cleared (`SenderLeavesOnlyWhenStopped`), and every Start, Stop and End call of the control thread returns, whatever the stream threads do and even when the camera and the peer deliver nothing (`ControlCallsReturn`). The signal that `StopSending` sends outside the mutex is lost when the sender is not yet waiting; the frame timeout still gets it out. |
| `Stream_spurious` | violation | Under `SpecSpurious`: after one frame is sent, the wait returns 0 with no signal, `canceled` is set and `SendVideo` ends while `sendingVideo` is still 1. Video stops until the application restarts sending. |

Eight defects found while modelling have no run of their own. Each is recorded
as a hazard in `PROJECT.json` with the counterexample TLC gives when the bounds
are widened:
- a hole at 16-bit number 0 is never NACKed (`NackComplete`, numbers 65532..65538);
- a NACK mask crossing 65535 flushes the retransmission buffer (`PliOnlyOnMiss`, pid 65535);
- a TWCC delta of exactly 128 units misaligns `Parse` (`FieldRoundTrips`, one packet);
- a transport number reordered across the wrap pushes `lastFeedbackPacketExtSeqNum` 65536 ahead (`FeedbackNotAhead`, `TseqStarts = {65535}`);
- FEC packets fed to the media loss window make the transport NACK media numbers never sent (`NackSound`, `FecStarts = {8}` below `MediaStarts = {10}`);
- after a 2-bit vector chunk of the TWCC field the pending statuses are written as a run of the current one, so 8 lost packets then one received 129 units later decode with the 8th packet received (`FieldRoundTrips`, `MaxLen = 12`, `FirstTimes = {64000, 96250}`, `Steps = {0, 129}`);
- the test sender's frame size wraps in DWORDs above about 14.3 Mbps (`FrameSizesFollowRates`, at the scaled word with rate 160 and rateMin 80);
- after the application's numbers wrap, `Send`'s pruning stops at the new low keys and pre-wrap packets stay buffered (`BufferPruned`, `SeqStarts = {65534}`, `Keep = 2`).

`FeedbackNotAhead` is defined in `ReceivePath` but checked by no run: away from
the wrap it holds whatever the code does, and at the wrap it is violated and no
run slot is left. The same goes for a stream that starts at extended number 0
(`GapSignalled`), and for packets within 2 bytes of the MTU: `ReSendPacket`
logs them and requests no PLI, so "every buffered NACKed packet is resent or
replaced by a PLI" is false there, and it is recorded as a hazard only.

Every property of a passing run has a mutant in `PROJECT.json`: an operator
changed the way a plausible bug would change it, under which TLC finds the
property violated.

## Bounds

- **Loss window.** After `AddPacket` the top slot always holds the packet just recorded, so a window of n slots has at most n-1 holes; 19 slots is the smallest size with more holes (18) than one field asks for (a pid and 16 mask bits). The numbers are 1..22 and 41: 1 then 22 slides by three and leaves 18 holes, split over two fields; 1 then 41 slides by more than the window (`n > size`) and clears it whole. `LongConstraint` bounds the history to three distinct arrivals; duplicates and very old packets are unbounded. The 16-bit wrap is left to the hazards, because the pid-0 sentinel defect fails `NackComplete` there, and so is the `first == 0` case, since the numbers start at 1.
- **Receive path.** `MaxSent = 4` datagrams (media and RTX) and 3 slots, with FEC numbers from 1000. An FEC packet there moves the window far ahead of the media numbers, so later media packets count as very old, instead of creating holes among them. With FEC numbers among the media numbers (`FecStarts = {8}`) TLC finds the FEC hazard. This is enough for:
  - two holes, a NACK, and an RTX answering it;
  - a duplicate;
  - keying before or after the first packets;
  - `Reset` in the middle.
- **Starting numbers.** Starting numbers are constants. The passing runs start away from 65535. Near 65535 the known wrap defects make every property fail, and the reordered transport-number wrap produces feedback with tens of thousands of entries. The wrap cases are recorded as hazards, with the starting numbers that make TLC find them.
- **RTX in the passing runs.** RTX can only be accepted with a configuration in which some codec is mapped to payload type 1. `MCCfgPt1` is such a legal configuration, so RTX recovery happens in the passing runs.

- **Send path.**
  - `Keep = 2` ticks (200 ms) and a clock of 3 ticks let packets age out between sends.
  - 4 application packets and pids around them, with mask offsets 1 and 2, give fields whose first number misses and whose later numbers hit.
  - In `Send_core` a stored packet may fit the MTU or not (`MCFitsAny`), so `ReSendPacket`'s too-large path is taken.
  - The buffer holds numbers 10..13, never 0, so the int `pid+i+1` crossing 65535 is left to the hazards.

- **Locking.** `MaxSessions = 3` `srtp_create` calls are enough for two setters to each create a session on top of one that already exists. The signalling thread may call all three entry points. This reaches both the double free and the use-after-free. `MaxSessions` bounds the state space, because a setter whose pool is exhausted can only take its failure path.

- **Test sender.** 48 option sets (ip set or not, port 0 or not, `rateMin` 0, below or above `rate`, two packet sizes, two I-frame scales), 3 frames and the draws 0, 1 and `RAND_MAX` (4) give an I frame of 2 or 3 packets, P frames at both ends of the range and between, packets cut short and packets of exactly the maximum. The run does not check deadlock: the program really ends (main returns after `Join` or an error), and `MaxFrames` stops `Run` inside its loop; `CcaSender` states no liveness and no fairness for the same reason.

- **Video stream.** Every variable of `VideoStream` ranges over a small fixed set, so the whole state space (3956 states) is explored with no bound.

- **RTCP codec.** `PliNackCompoundRoundTrips` is checked on every window of `LossTracker_long` after a loss, which gives one and two NACK fields and masks with bits near both ends. `Rtcp_twcc` needs only fields of up to 4 entries: the first mismatch between `GetSize` and `Serialize` is at 3.

- **TWCC codec.** Fields of up to 15 entries reach the 14-symbol one-bit chunk flush and one entry after it. Two-bit chunks are flushed at 7 entries and run chunks at 8 or 15, so fields of 9 to 12 entries reach them. The steps of the passing run (127 units) sit at the edge of the one-byte delta. The 2-bit chunk defect is found with 129 units, which avoids the separate 128-unit defect. First arrival times are multiples of 250 us above 64000, so the reference time is 1 and the deltas are exact.

## Fairness

`VideoStream` states fairness. It is
`WF_vars` of each thread's progress: the control thread inside a call, and
every step of `SendVideo` and `RecVideo` except a frame or packet arriving
(`GrabFrame`, `GetPacket`) and a spurious wakeup. The timed wait's timeout is
among the fair steps, because `pthread_cond_timedwait` returns at its
deadline; nothing forces the camera, the peer or the application to do
anything.

`TransportLocking` states no fairness. The mutex is a `ScopedLock` released
by its destructor on every return, and no step inside a call waits for
anything, so a property that the lock is released would hold by construction
and is not stated.

The transport's other modules state only safety properties. The code has no retry or
timer on the receive side: a lost NACK or a lost RTX is never repeated unless
another loss triggers a new NACK. So no "eventually recovered" property holds
without assuming something of the network, and none is claimed.

## Not modelled, and why

- **Out of TLC's reach or pure I/O:**
  - the DTLS engine internals (out of scope per spec.md);
  - SRTP cryptography (an unprotect failure is one more early return);
  - ICE/STUN credentials;
  - the extension map (assumed to map transport-wide-cc);
  - statistics counters;
  - byte layouts.
- **Application code.** In `sender.cpp`: the option strings (abstracted to the values they set), time (the sleep, whose QWORD difference wraps when the thread falls behind, is a hazard), and the `RTPSession`. In `videostream.cpp`: the codec, mute and listener setters (plain field writes read by the loops), `GetStatistics`, and the data of `RecVideo` (RED/ULPFEC unwrapping, the DWORD loss count that wraps on a reordered packet, the FPU request timer, the `frameSeqNum` check that never fires because the field is never set). Whether `RTPSession::GetPacket` reorders is decided by code that is not in the repository, and memory ownership is not modelled: the RED packet leaked at line 574 and the wrapping loss count are hazards in `PROJECT.json`, and `SendVideo` also leaks its encoder on the error returns at lines 373 and 377.
- **RTCP sub-packets other than RTP feedback** (SR, RR, SDES, Bye, App, and the SLI/RPSI/TSTR/VBCM/AFB fields of payload feedback) are parsed by their own codecs. `onRTCP` acts only on NACK and PLI/FIR, and the dispatch is modelled in `SendPath`. Their round trips are byte-layout checks with no control behind them, so they are kept as type and bytes. One layout defect was found while reading them, and no run checks it: `RTCPBye::GetSize` does not pad the reason to 4 bytes. A Bye with a 1-byte reason writes 10 bytes under a header length of 8, and the peer's compound parse then fails on the 2 leftover bytes. The transport never sends a Bye. RTP header and extension parsing is not modelled either: the transport models treat the numbers it extracts as model values.
- **Memory ownership.** `onData` never deletes the `RTCPCompoundPacket` it parses, and `RTCPCompoundPacket::Parse` leaks the compound and the current packet when it returns NULL.
- **Assumption.** The `RTPLostPackets` length is a WORD and the source structs are zero-initialised. Their headers are not in the repository.

## Plan

1. **Done:** `LossTracker` and `ReceivePath` with their runs.
2. **Done:** `SendPath` with its runs.
   Next: compose it with the receive side of a peer, so that fields built by `GetNacks` drive `ReSendPacket`. Then add the RTX source's sequence and cycles.
3. **Done:** `TwccCodec` (`GetSize`, `Serialize`, `Parse`) and `RtcpCodec`, composed with `GetNacks` and the TWCC field. Next: feed the fields `ReceivePath` builds through the codec.
4. **Done, for the SRTP sessions:** `TransportLocking`. Next: the incoming group registry, which `Add/RemoveIncomingSourceGroup` change without the lock while `onData` looks it up.
5. **Done:** `VideoStream`'s thread control. Next: the setters racing the loops (`SetTemporalBitrateLimit` against the bitrate countdown).
6. **Done:** `CcaSender`.
7. **The receive path across the 16-bit wraps** once `extSeq` is kept: the backward case of the wrap test and the 16-bit key of the current packet in the feedback.
8. **An abstract loss-reporting specification** (the set of holes) refined by `LossTracker` through a refinement mapping.
