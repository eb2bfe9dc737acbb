---------------------------- MODULE MCSendPath ----------------------------
(***************************************************************************)
(* Model-checking instances of SendPath.                                   *)
(***************************************************************************)
EXTENDS SendPath

\* Packets of any size up to the MTU.
MCFitsAny == {TRUE, FALSE}
=============================================================================
