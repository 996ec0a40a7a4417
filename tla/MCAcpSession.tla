---------------------------- MODULE MCAcpSession ----------------------------
(* Model-checking instance of AcpSession. The ids of permission requests are *)
(* interchangeable.                                                          *)
EXTENDS AcpSession, TLC

EveryWire == {[wire |-> w, canDelete |-> TRUE] : w \in {1, 2}}
SafeDelete == {[wire |-> 1, canDelete |-> TRUE], [wire |-> 2, canDelete |-> FALSE]}
WireV2 == {[wire |-> 2, canDelete |-> TRUE]}
KeySymmetry == Permutations(Keys)
=============================================================================
