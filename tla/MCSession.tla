----------------------------- MODULE MCSession -----------------------------
(***************************************************************************)
(* The TLC instance of a conversation with an ACP Agent: the actor that    *)
(* decides when a turn begins and ends (AcpSession), and what is shown of  *)
(* what the Agent writes in it (TurnProjection).  The two share no state:  *)
(* one of them, the focus, runs in each behaviour.                         *)
(***************************************************************************)
EXTENDS MCAcpSession, TurnProjection

VARIABLE focus

SessionInit ==
  /\ focus \in {"session", "projection"}
  /\ Init /\ ProjectionInit
  /\ focus = "session" => protocol = "v2"
  /\ focus = "projection" => negotiated = [wire |-> 2, canDelete |-> TRUE]

SessionStep == focus = "session" /\ Next /\ UNCHANGED <<focus, projectionVars>>
ProjectionStep == focus = "projection" /\ ProjectionNext /\ UNCHANGED <<focus, vars>>

SessionNext == SessionStep \/ ProjectionStep

SessionSpec == SessionInit /\ [][SessionNext]_<<focus, vars, projectionVars>>

(* The types of the actor's and the projection's state. *)
SessionTypeOK == TypeOK /\ ProjectionTypeOK
=============================================================================
