---------------------------- MODULE TurnProtocol ----------------------------
(***************************************************************************)
(* What one agent conversation promises to everything that displays or      *)
(* records it, without saying how: its turns form a list in which only the  *)
(* last one may be running, a turn that has ended never changes again, and  *)
(* a new turn begins only when no turn is running.                          *)
(*                                                                          *)
(* AcpSession implements this specification.                                *)
(***************************************************************************)
EXTENDS Naturals, Sequences

VARIABLE turns   \* the status of every turn, oldest first

EndedStatuses == {"completed", "failed"}
Statuses == EndedStatuses \union {"running"}

Settled == \A i \in 1..Len(turns) : turns[i] \in EndedStatuses

Init == turns = <<>>

(* A restored conversation starts with the history the agent replayed. *)
Restore == /\ turns = <<>>
           /\ turns' = <<"completed">>

Begin == /\ Settled
         /\ turns' = Append(turns, "running")

End == /\ Len(turns) > 0
       /\ turns[Len(turns)] = "running"
       /\ \E status \in EndedStatuses : turns' = [turns EXCEPT ![Len(turns)] = status]

Next == Restore \/ Begin \/ End

Spec == Init /\ [][Next]_turns
=============================================================================
