---------------------------- MODULE VideoStream ----------------------------
(***************************************************************************)
(* The threads of VideoStream (src/mcu/src/videostream.cpp).               *)
(*                                                                         *)
(*   ctl  the caller of StartSending, StopSending, StartReceiving,         *)
(*        StopReceiving and End (one control thread).                      *)
(*   snd  the thread running SendVideo: grab a frame, encode it, wait on   *)
(*        `cond` for the frame time, hand the frame to the smoother.       *)
(*   rcv  the thread running RecVideo: GetPacket, decode, loop.            *)
(*                                                                         *)
(* The loops run while the plain flags sendingVideo and receivingVideo are *)
(* set.  To stop, ctl clears the flag, cancels the blocking call           *)
(* (CancelGrabFrame, CancelGetPacket), for the sender signals `cond`       *)
(* without holding `mutex`, and joins the thread.  A cancel is taken to    *)
(* make the blocked or the next GrabFrame/GetPacket return NULL once (the  *)
(* classes are not in the repository).  pthread_cond_signal wakes a thread *)
(* only if one is waiting; pthread_cond_timedwait returns 0 on a signal    *)
(* and, in SpecSpurious, also spuriously.  Frames, packets and their      *)
(* processing are abstracted to the control flow they cause.               *)
(***************************************************************************)
EXTENDS Naturals

VARIABLES
  sending,     \* sendingVideo
  receiving,   \* receivingVideo
  ctl,         \* the control thread's place: "idle" or inside a call
  ret,         \* where StopSending/StopReceiving return to
  snd,         \* sendVideoThread: "none", a place in SendVideo, "exited"
  rcv,         \* recVideoThread: "none", a place in RecVideo, "exited"
  frameTime,   \* SendVideo's frameTime # 0: a frame was sent already
  grabCancel,  \* a CancelGrabFrame not yet seen by GrabFrame
  pktCancel    \* a CancelGetPacket not yet seen by GetPacket

vars == <<sending, receiving, ctl, ret, snd, rcv, frameTime, grabCancel, pktCancel>>

Init ==
  /\ sending = FALSE /\ receiving = FALSE
  /\ ctl = "idle" /\ ret = "idle"
  /\ snd = "none" /\ rcv = "none"
  /\ frameTime = FALSE /\ grabCancel = FALSE /\ pktCancel = FALSE

Ctl(l)      == ctl' = l
Call(l, r)  == ctl' = l /\ ret' = r

(***************************************************************************)
(* The control thread's entry points.                                      *)
(***************************************************************************)
\* StartSending: `if (sendingVideo) StopSending();` then set up and start.
StartSending ==
  /\ ctl = "idle" /\ Call("stop_snd", "start_snd")
  /\ UNCHANGED <<sending, receiving, snd, rcv, frameTime, grabCancel, pktCancel>>

\* StartReceiving: `if (receivingVideo) StopReceiving();` then start.
StartReceiving ==
  /\ ctl = "idle" /\ Call("stop_rcv", "start_rcv")
  /\ UNCHANGED <<sending, receiving, snd, rcv, frameTime, grabCancel, pktCancel>>

\* StopSending or StopReceiving called directly; End stops both in turn.
CallStop ==
  /\ ctl = "idle"
  /\ \E c \in {<<"stop_snd", "idle">>, <<"stop_rcv", "idle">>, <<"stop_snd", "end_rcv">>} :
       Call(c[1], c[2])
  /\ UNCHANGED <<sending, receiving, snd, rcv, frameTime, grabCancel, pktCancel>>

\* The port is 0, SetRemotePort fails or the codec is not supported: an
\* error return; otherwise sendingVideo=1 and the thread is created.
StartSendingThread ==
  /\ ctl = "start_snd" /\ Ctl("idle")
  /\ \/ UNCHANGED <<sending, snd, frameTime>>
     \/ /\ sending' = TRUE /\ snd' = "init"
        /\ frameTime' = FALSE
  /\ UNCHANGED <<receiving, ret, rcv, grabCancel, pktCancel>>

StartReceivingThread ==
  /\ ctl = "start_rcv" /\ Ctl("idle")
  /\ receiving' = TRUE /\ rcv' = "check"
  /\ UNCHANGED <<sending, ret, snd, frameTime, grabCancel, pktCancel>>

\* End, after StopSending: StopReceiving, then smoother.End and rtp.End.
EndReceiving ==
  /\ ctl = "end_rcv" /\ Call("stop_rcv", "idle")
  /\ UNCHANGED <<sending, receiving, snd, rcv, frameTime, grabCancel, pktCancel>>

(***************************************************************************)
(* StopSending: `if (sendingVideo) { sendingVideo=0; CancelGrabFrame();    *)
(* pthread_cond_signal(&cond); pthread_join(sendVideoThread); }`           *)
(***************************************************************************)
StopSendingFlag ==
  /\ ctl = "stop_snd"
  /\ IF sending THEN sending' = FALSE /\ Ctl("cancel_grab")
               ELSE UNCHANGED sending /\ Ctl(ret)
  /\ UNCHANGED <<receiving, ret, snd, rcv, frameTime, grabCancel, pktCancel>>

\* StopSending with the call to CancelGrabFrame left out.
CancelGrabSkipped ==
  /\ ctl = "cancel_grab" /\ Ctl("signal")
  /\ UNCHANGED <<sending, receiving, ret, snd, rcv, frameTime, grabCancel, pktCancel>>

StopSendingCancel ==
  /\ ctl = "cancel_grab" /\ Ctl("signal")
  /\ grabCancel' = TRUE
  /\ UNCHANGED <<sending, receiving, ret, snd, rcv, frameTime, pktCancel>>

\* Taken without `mutex`: lost unless SendVideo is inside the wait.
StopSendingSignal ==
  /\ ctl = "signal" /\ Ctl("join_snd")
  /\ snd' = IF snd = "wait" THEN "out" ELSE snd
  /\ UNCHANGED <<sending, receiving, ret, rcv, frameTime, grabCancel, pktCancel>>

StopSendingJoin ==
  /\ ctl = "join_snd" /\ snd = "exited"
  /\ snd' = "none" /\ Ctl(ret)
  /\ UNCHANGED <<sending, receiving, ret, rcv, frameTime, grabCancel, pktCancel>>

(***************************************************************************)
(* StopReceiving: `if (receivingVideo) { receivingVideo=0;                 *)
(* rtp.CancelGetPacket(); pthread_join(recVideoThread); }`                 *)
(***************************************************************************)
StopReceivingFlag ==
  /\ ctl = "stop_rcv"
  /\ IF receiving THEN receiving' = FALSE /\ Ctl("cancel_get")
                  ELSE UNCHANGED receiving /\ Ctl(ret)
  /\ UNCHANGED <<sending, ret, snd, rcv, frameTime, grabCancel, pktCancel>>

StopReceivingCancel ==
  /\ ctl = "cancel_get" /\ Ctl("join_rcv")
  /\ pktCancel' = TRUE
  /\ UNCHANGED <<sending, receiving, ret, snd, rcv, frameTime, grabCancel>>

StopReceivingJoin ==
  /\ ctl = "join_rcv" /\ rcv = "exited"
  /\ rcv' = "none" /\ Ctl(ret)
  /\ UNCHANGED <<sending, receiving, ret, snd, frameTime, grabCancel, pktCancel>>

(***************************************************************************)
(* SendVideo.                                                              *)
(***************************************************************************)
\* Creating the encoder, a missing input or StartVideoCapture failing
\* returns before the loop; otherwise the loop starts with frameTime = 0.
SendVideoStart ==
  /\ snd = "init"
  /\ snd' \in {"exited", "check"} /\ frameTime' = FALSE
  /\ UNCHANGED <<sending, receiving, ctl, ret, rcv, grabCancel, pktCancel>>

\* `while(sendingVideo)`
SendVideoCheck ==
  /\ snd = "check"
  /\ snd' = IF sending THEN "grab" ELSE "out"
  /\ UNCHANGED <<sending, receiving, ctl, ret, rcv, frameTime, grabCancel, pktCancel>>

\* GrabFrame returns NULL on a cancel: `continue`.
GrabFrameCanceled ==
  /\ snd = "grab" /\ grabCancel
  /\ grabCancel' = FALSE /\ snd' = "check"
  /\ UNCHANGED <<sending, receiving, ctl, ret, rcv, frameTime, pktCancel>>

\* GrabFrame returns a picture when the input has one.
GrabFrame ==
  /\ snd = "grab" /\ snd' = "encode"
  /\ UNCHANGED <<sending, receiving, ctl, ret, rcv, frameTime, grabCancel, pktCancel>>

\* FastPictureUpdate and bitrate adaptation, then EncodeFrame; a failed
\* encode is `continue`.  After the first frame the thread waits.
EncodeFrame ==
  /\ snd = "encode"
  /\ snd' \in {"check", IF frameTime THEN "wait" ELSE "send"}
  /\ UNCHANGED <<sending, receiving, ctl, ret, rcv, frameTime, grabCancel, pktCancel>>

\* The wait's result read the wrong way round: a timeout ends the loop.
WaitTimeoutBreaks ==
  /\ snd = "wait" /\ snd' = "out"
  /\ UNCHANGED <<sending, receiving, ctl, ret, rcv, frameTime, grabCancel, pktCancel>>

\* pthread_cond_timedwait times out (ETIMEDOUT): not canceled.
WaitTimeout ==
  /\ snd = "wait" /\ snd' = "send"
  /\ UNCHANGED <<sending, receiving, ctl, ret, rcv, frameTime, grabCancel, pktCancel>>

\* pthread_cond_timedwait returns 0 with no signal: `canceled`, break.
WaitSpurious ==
  /\ snd = "wait" /\ snd' = "out"
  /\ UNCHANGED <<sending, receiving, ctl, ret, rcv, frameTime, grabCancel, pktCancel>>

\* frameTime = 1000/videoFPS; onMediaFrame; smoother.SendFrame.
SendFrame ==
  /\ snd = "send" /\ snd' = "check" /\ frameTime' = TRUE
  /\ UNCHANGED <<sending, receiving, ctl, ret, rcv, grabCancel, pktCancel>>

\* Out of the loop: StopVideoCapture, delete the encoder, return.
SendVideoEnd ==
  /\ snd = "out" /\ snd' = "exited"
  /\ UNCHANGED <<sending, receiving, ctl, ret, rcv, frameTime, grabCancel, pktCancel>>

(***************************************************************************)
(* RecVideo.                                                               *)
(***************************************************************************)
\* `while(receivingVideo)`; out of the loop the decoder is deleted and the
\* thread exits.
RecVideoCheck ==
  /\ rcv = "check"
  /\ rcv' = IF receiving THEN "get" ELSE "exited"
  /\ UNCHANGED <<sending, receiving, ctl, ret, snd, frameTime, grabCancel, pktCancel>>

\* GetPacket returns NULL on a cancel: `continue`.
GetPacketCanceled ==
  /\ rcv = "get" /\ pktCancel
  /\ pktCancel' = FALSE /\ rcv' = "check"
  /\ UNCHANGED <<sending, receiving, ctl, ret, snd, frameTime, grabCancel>>

\* GetPacket returns a packet when the peer sends one.
GetPacket ==
  /\ rcv = "get" /\ rcv' = "process"
  /\ UNCHANGED <<sending, receiving, ctl, ret, snd, frameTime, grabCancel, pktCancel>>

\* RED unwrapping, decoder (re)creation, loss count and FPU requests,
\* DecodePacket and the frame output: every path goes back to the loop.
ProcessPacket ==
  /\ rcv = "process" /\ rcv' = "check"
  /\ UNCHANGED <<sending, receiving, ctl, ret, snd, frameTime, grabCancel, pktCancel>>

(***************************************************************************)
(* Scheduling.  A thread inside a call keeps running and a timed wait      *)
(* times out; the camera and the peer need not deliver anything, nobody    *)
(* has to call the stream, and a spurious return is never forced.          *)
(***************************************************************************)
CtlProgress ==
  \/ StartSendingThread \/ StartReceivingThread \/ EndReceiving
  \/ StopSendingFlag \/ StopSendingCancel \/ StopSendingSignal \/ StopSendingJoin
  \/ StopReceivingFlag \/ StopReceivingCancel \/ StopReceivingJoin

SndProgress ==
  \/ SendVideoStart \/ SendVideoCheck \/ GrabFrameCanceled \/ EncodeFrame
  \/ WaitTimeout \/ SendFrame \/ SendVideoEnd

RcvProgress == RecVideoCheck \/ GetPacketCanceled \/ ProcessPacket

Next ==
  \/ StartSending \/ StartReceiving \/ CallStop
  \/ CtlProgress \/ SndProgress \/ RcvProgress
  \/ GrabFrame \/ GetPacket

Fairness == WF_vars(CtlProgress) /\ WF_vars(SndProgress) /\ WF_vars(RcvProgress)

Spec == Init /\ [][Next]_vars /\ Fairness

\* The same threads with a pthread_cond_timedwait that may also return 0
\* with no signal, as POSIX allows.  A spurious return is never forced.
NextSpurious == Next \/ WaitSpurious

SpecSpurious == Init /\ [][NextSpurious]_vars /\ Fairness

(***************************************************************************)
(* Properties.                                                             *)
(***************************************************************************)
\* Every call of the control thread returns, however the stream threads
\* are interleaved with it and even when the camera and the peer deliver
\* nothing more: StopSending's and StopReceiving's joins end, because the
\* flag and the cancel together get each loop out of its blocking call.
ControlCallsReturn == ctl # "idle" ~> ctl = "idle"

\* SendVideo leaves its loop only when sending has been stopped: the
\* `canceled` test after pthread_cond_timedwait must not end the stream
\* while sendingVideo is still set.
SenderLeavesOnlyWhenStopped == snd = "out" => ~sending
====
