------------------------ MODULE MCConversationService ------------------------
(***************************************************************************)
(* The TLC instance of ConversationService. Two states are one for TLC when *)
(* they differ only in what nothing reads any more: of a call that is done, *)
(* everything but its conversation, whether it was a removal, its workspace *)
(* while the conversation is active on it, and its outcome while others     *)
(* wait for it; and of tickets, all but whether there is one.               *)
(***************************************************************************)
EXTENDS ConversationService, TLC

Symmetry == Permutations(Workspaces)

Live(i) == stage[i] # "done"
Current(i) == \E c \in Conversations : activeHandles[c] = i
Awaited(i) == \E j \in Calls : stage[j] \in {"previous", "joined"} /\ peer[j] = i

LiveCall(i) ==
    <<stage[i], conversation[i], actor[i],
      IF Live(i) \/ operation[i] = "remove" THEN operation[i] ELSE "none",
      IF Live(i) THEN <<key[i], peer[i], ticket[i] = 0>> ELSE <<>>,
      IF Live(i) \/ Current(i) THEN target[i] ELSE NoWorkspace,
      IF Live(i) \/ Awaited(i) THEN outcome[i] ELSE "none">>

LiveState ==
    <<catalogVars, mapVars, shutdownVars, runtimeVars, turns, [i \in Calls |-> LiveCall(i)]>>
=============================================================================
