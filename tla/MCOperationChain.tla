-------------------------- MODULE MCOperationChain --------------------------
(***************************************************************************)
(* Chains for TLC.  MixedChain has an OCO order, a transfer and an         *)
(* ordinary order, in this order; OrderChain trades twice in a row.        *)
(***************************************************************************)
EXTENDS OperationChainInvariant

MixedChain == <<"PLACE_OCO", "SEND_TO", "PLACE_ORDER">>

OrderChain == <<"PLACE_ORDER", "PLACE_OCO">>
=============================================================================
