-------------------------- MODULE MCChannelDelivery --------------------------
(* Model-checking instance of ChannelDelivery. Calls of deliverDraft are     *)
(* interchangeable.                                                          *)
EXTENDS ChannelDelivery, TLC

FlowSymmetry == Permutations(Flows)
=============================================================================
