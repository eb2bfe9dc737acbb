-------------------------- MODULE TransportLocking --------------------------
(***************************************************************************)
(* The SRTP sessions of DTLSICETransport (src/mcu/src/DTLSICETransport.cpp) *)
(* and the threads that create, use and free them.                         *)
(*                                                                         *)
(*   recv  the network thread: onData, under ScopedLock(mutex).  An RTP    *)
(*         datagram checks recvSRTPSession, unprotects with it, then sends *)
(*         the transport-wide feedback through Send(RTCP), which checks    *)
(*         and protects with sendSRTPSession.  An RTCP datagram checks and *)
(*         unprotects with recvSRTPSession; a NACK in it makes             *)
(*         ReSendPacket protect with sendSRTPSession, unchecked.  A DTLS   *)
(*         record may complete the handshake: onDTLSSetup calls            *)
(*         SetLocalCryptoSDES then SetRemoteCryptoSDES on this thread,     *)
(*         still under the lock.                                           *)
(*   app   the application's media thread: Send(RTP), under the lock.     *)
(*   sig   the signalling thread: Reset, SetLocalCryptoSDES and            *)
(*         SetRemoteCryptoSDES, which take no lock.                        *)
(*                                                                         *)
(* A member is read again at every use, as the C++ does, so a check and    *)
(* the use after it are separate steps; an SRTP call that works on a       *)
(* session spans the steps from "use" to "done".  The mutex is recursive   *)
(* (mutex(true)).  Sessions are numbered 1..MaxSessions; memory of a       *)
(* session is "unused", "live", "freed", or "corrupt" once freed twice.    *)
(***************************************************************************)
EXTENDS Integers, Sequences, FiniteSets

CONSTANTS
  MaxSessions,   \* srtp_create calls available to the run
  SigOps         \* the entry points the signalling thread calls

ASSUME MaxSessions \in 1 .. 5
ASSUME SigOps \subseteq {"reset", "send", "recv"}

Threads   == {"recv", "app", "sig"}
Members   == {"send", "recv"}           \* sendSRTPSession, recvSRTPSession
Sessions  == 1 .. MaxSessions
NoSession == 0                           \* NULL
NoOwner   == "none"

VARIABLES
  lock,    \* owner of the transport mutex
  pc,      \* each thread's place in the code
  sess,    \* [Members -> Sessions \cup {NoSession}]: the two members
  mem,     \* [Sessions -> state of that session's memory]
  using,   \* the session an SRTP call of a thread is working on
  tmp,     \* a setter's local `srtp_t session`, created, not yet published
  buffered \* the retransmission buffer group->packets holds a packet

vars == <<lock, pc, sess, mem, using, tmp, buffered>>

Init ==
  /\ lock = NoOwner
  /\ pc = [t \in Threads |-> "idle"]
  /\ sess = [m \in Members |-> NoSession]
  /\ mem = [s \in Sessions |-> "unused"]
  /\ using = [t \in Threads |-> NoSession]
  /\ tmp = [t \in Threads |-> NoSession]
  /\ buffered = FALSE

Goto(t, l) == pc' = [pc EXCEPT ![t] = l]

\* srtp_dealloc(s)
FreeMem(s) == [mem EXCEPT ![s] = IF @ = "live" THEN "freed" ELSE "corrupt"]

\* Where a setter returns to: onDTLSSetup goes on to the remote setter and
\* then onData returns; the signalling thread's call simply returns.
After(t, m) ==
  IF t = "recv" THEN (IF m = "send" THEN "create_recv" ELSE "release") ELSE "idle"

(***************************************************************************)
(* The locked entry points.                                                *)
(***************************************************************************)
\* onData: ScopedLock, then an RTP or RTCP datagram or a DTLS record.
OnData ==
  /\ pc["recv"] = "idle" /\ lock \in {NoOwner, "recv"}
  /\ lock' = "recv"
  /\ \E l \in {"rtp_check", "rtcp_check", "create_send"} : Goto("recv", l)
  /\ UNCHANGED <<buffered, sess, mem, using, tmp>>

\* Send(RTPTimedPacket&): ScopedLock.
SendRtp ==
  /\ pc["app"] = "idle" /\ lock \in {NoOwner, "app"}
  /\ lock' = "app"
  /\ Goto("app", "send_check")
  /\ UNCHANGED <<buffered, sess, mem, using, tmp>>

\* `if (!xSRTPSession) return Error(...)`: a NULL member ends the call.
CheckSession(t, at, m, next) ==
  /\ pc[t] = at
  /\ Goto(t, IF sess[m] = NoSession THEN "release" ELSE next)
  /\ UNCHANGED <<buffered, lock, sess, mem, using, tmp>>

\* srtp_unprotect/srtp_protect(xSRTPSession, ...) starts on the member's
\* current value.
UseSession(t, at, m, next) ==
  /\ pc[t] = at
  /\ using' = [using EXCEPT ![t] = sess[m]]
  /\ Goto(t, next)
  /\ UNCHANGED <<buffered, lock, sess, mem, tmp>>

\* The SRTP call returns.
EndUse(t, at, next) ==
  /\ pc[t] = at
  /\ using' = [using EXCEPT ![t] = NoSession]
  /\ Goto(t, next)
  /\ UNCHANGED <<buffered, lock, sess, mem, tmp>>

RtpCheck      == CheckSession("recv", "rtp_check", "recv", "rtp_use")
RtpUnprotect  == UseSession("recv", "rtp_use", "recv", "rtp_done")
RtpDone       == EndUse("recv", "rtp_done", "fb_check")
FeedbackCheck == CheckSession("recv", "fb_check", "send", "fb_use")
FeedbackProtect == UseSession("recv", "fb_use", "send", "fb_done")
FeedbackDone  == EndUse("recv", "fb_done", "release")
RtcpCheck     == CheckSession("recv", "rtcp_check", "recv", "rtcp_use")
RtcpUnprotect == UseSession("recv", "rtcp_use", "recv", "rtcp_done")
RtcpDone      == EndUse("recv", "rtcp_done", "resend")
ReSendDone    == EndUse("recv", "resend_done", "release")
SendCheck     == CheckSession("app", "send_check", "send", "send_use")
SendDone      == EndUse("app", "send_done", "release")

\* Send(RTP) stores the packet in group->packets, then srtp_protect starts
\* on sendSRTPSession.
SendProtect ==
  /\ pc["app"] = "send_use"
  /\ buffered' = TRUE
  /\ using' = [using EXCEPT !["app"] = sess["send"]]
  /\ Goto("app", "send_done")
  /\ UNCHANGED <<lock, sess, mem, tmp>>

\* onRTCP, a NACK whose packet is still buffered: ReSendPacket calls
\* srtp_protect(sendSRTPSession) with no check of the member.
ReSendProtect ==
  /\ buffered
  /\ UseSession("recv", "resend", "send", "resend_done")

\* onRTCP, a NACK whose packet is gone: onPLIRequest and the whole buffer
\* is deleted; no SRTP call.
ReSendMiss ==
  /\ pc["recv"] = "resend"
  /\ buffered' = FALSE
  /\ Goto("recv", "release")
  /\ UNCHANGED <<lock, sess, mem, using, tmp>>

\* onRTCP with no NACK (a report, a PLI, a REMB): no SRTP call.
RtcpNoNack ==
  /\ pc["recv"] = "resend"
  /\ Goto("recv", "release")
  /\ UNCHANGED <<buffered, lock, sess, mem, using, tmp>>

\* ~ScopedLock on every return path.
Release(t) ==
  /\ pc[t] = "release"
  /\ lock' = NoOwner
  /\ Goto(t, "idle")
  /\ UNCHANGED <<buffered, sess, mem, using, tmp>>

(***************************************************************************)
(* SetLocalCryptoSDES (m = "send") and SetRemoteCryptoSDES (m = "recv"):   *)
(* srtp_create into a local, srtp_dealloc of the member if set, then the   *)
(* member is overwritten.  No lock is taken.                               *)
(***************************************************************************)
\* An unknown suite, a wrong key size or a failing srtp_create returns
\* before anything is changed; otherwise a fresh session is created.
CreateSession(t, m) ==
  /\ pc[t] = "create_" \o m
  /\ \/ /\ Goto(t, After(t, m))
        /\ UNCHANGED <<buffered, mem, tmp>>
     \/ \E s \in Sessions :
          /\ mem[s] = "unused"
          /\ mem' = [mem EXCEPT ![s] = "live"]
          /\ tmp' = [tmp EXCEPT ![t] = s]
          /\ Goto(t, "free_" \o m)
  /\ UNCHANGED <<buffered, lock, sess, using>>

\* `if (xSRTPSession) srtp_dealloc(xSRTPSession)`
FreeOld(t, m) ==
  /\ pc[t] = "free_" \o m
  /\ mem' = IF sess[m] # NoSession THEN FreeMem(sess[m]) ELSE mem
  /\ Goto(t, "publish_" \o m)
  /\ UNCHANGED <<buffered, lock, sess, using, tmp>>

\* `xSRTPSession = session`
Publish(t, m) ==
  /\ pc[t] = "publish_" \o m
  /\ sess' = [sess EXCEPT ![m] = tmp[t]]
  /\ tmp' = [tmp EXCEPT ![t] = NoSession]
  /\ Goto(t, After(t, m))
  /\ UNCHANGED <<buffered, lock, mem, using>>

(***************************************************************************)
(* Reset: dealloc sendSRTPSession, dealloc recvSRTPSession, then set both  *)
(* to NULL.  No lock is taken.                                             *)
(***************************************************************************)
StartSig(op) ==
  /\ pc["sig"] = "idle"
  /\ Goto("sig", IF op = "reset" THEN "reset_send" ELSE "create_" \o op)
  /\ UNCHANGED <<buffered, lock, sess, mem, using, tmp>>

ResetFree(at, m, next) ==
  /\ pc["sig"] = at
  /\ mem' = IF sess[m] # NoSession THEN FreeMem(sess[m]) ELSE mem
  /\ Goto("sig", next)
  /\ UNCHANGED <<buffered, lock, sess, using, tmp>>

ResetClear ==
  /\ pc["sig"] = "reset_clear"
  /\ sess' = [m \in Members |-> NoSession]
  /\ Goto("sig", "idle")
  /\ UNCHANGED <<buffered, lock, mem, using, tmp>>

(***************************************************************************)
(* Every step but the start of a call: the running thread's own progress.  *)
(***************************************************************************)
Progress(t) ==
  \/ \E m \in Members : CreateSession(t, m) \/ FreeOld(t, m) \/ Publish(t, m)
  \/ Release(t)
  \/ t = "recv" /\ (RtpCheck \/ RtpUnprotect \/ RtpDone
                    \/ FeedbackCheck \/ FeedbackProtect \/ FeedbackDone
                    \/ RtcpCheck \/ RtcpUnprotect \/ RtcpDone
                    \/ ReSendProtect \/ ReSendDone \/ ReSendMiss \/ RtcpNoNack)
  \/ t = "app" /\ (SendCheck \/ SendProtect \/ SendDone)
  \/ t = "sig" /\ (ResetFree("reset_send", "send", "reset_recv")
                   \/ ResetFree("reset_recv", "recv", "reset_clear")
                   \/ ResetClear)

Next ==
  \/ OnData
  \/ SendRtp
  \/ \E op \in SigOps : StartSig(op)
  \/ \E t \in Threads : Progress(t)

Spec == Init /\ [][Next]_vars

(***************************************************************************)
(* Properties.                                                             *)
(***************************************************************************)
\* Every SRTP call works on a session that is allocated and not yet freed,
\* and no session is freed twice: onData's unprotects, Send(RTCP)'s,
\* ReSendPacket's and Send(RTP)'s protects against Reset and the SDES
\* setters, which free and replace the sessions without the mutex the
\* users hold, and against a member that is still NULL.
SessionsLive ==
  /\ \A t \in Threads : pc[t] \in {"rtp_done", "fb_done", "rtcp_done", "resend_done", "send_done"}
                         => using[t] \in Sessions /\ mem[using[t]] = "live"
  /\ \A s \in Sessions : mem[s] # "corrupt"

=============================================================================
