--------------------------- MODULE MCReceivePath ---------------------------
(***************************************************************************)
(* Model-checking instances of ReceivePath.                                *)
(***************************************************************************)
EXTENDS ReceivePath

\* Payload types the remote stamps (VP9 96, RTX 97, FlexFEC 98).
MCRemotePT == [media |-> 96, rtx |-> 97, fec |-> 98]

\* Codec properties of a typical offer: opus 111, vp9 96/rtx 97, flexfec 98.
MCCfgTypical == [opus |-> 111, vp9 |-> 96, rtx |-> 97, flexfec |-> 98]

\* A legal property set in which opus uses payload type 1, the value of
\* MediaFrame::Video: the only kind of set for which onData accepts RTX.
MCCfgPt1 == [opus |-> 1, vp9 |-> 96, rtx |-> 97, flexfec |-> 98]

\* A property set without FlexFEC (flexfec.pt reads as 0).
MCCfgNoFec == [opus |-> 111, vp9 |-> 96, rtx |-> 97, flexfec |-> 0]

MCConfigsCore == {MCCfgPt1, MCCfgNoFec}
MCConfigsTypical == {MCCfgTypical}
MCConfigsRtx == {MCCfgTypical, MCCfgPt1}
=============================================================================
