----------------------------- MODULE MCOrderSession -----------------------------
(***************************************************************************)
(* The slots of two entries for TLC.                                       *)
(***************************************************************************)
EXTENDS OrderSession

SessionSlots == {"order1", "oco1"} \X {"submission", "wait", "action"}
=============================================================================
