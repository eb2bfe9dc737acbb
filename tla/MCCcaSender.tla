---------------------------- MODULE MCCcaSender ----------------------------
(***************************************************************************)
(* CcaSender with option values that reach every path of Start and both   *)
(* kinds of frame: one or two packets per P frame, three per I frame.      *)
(* The rates are scaled down with the DWORD modulus (see Cca_sender.cfg). *)
(***************************************************************************)
EXTENDS CcaSender

MCOptions ==
  [ip : BOOLEAN, port : {0, 5004}, rate : {32}, rateMin : {0, 16, 48},
   fps : {1}, gop : {2}, maxRTPSize : {4, 5}, scaleIP : {1, 2}]
====
