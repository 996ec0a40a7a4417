------------------------- MODULE ConversationRecords -------------------------
(***************************************************************************)
(* What the conversation service promises about the conversations of the    *)
(* catalog: a conversation is cataloged together with its open session, is  *)
(* opened in the workspace its row names, moves to another workspace only   *)
(* by being opened there, and once removed never comes back.                *)
(***************************************************************************)
CONSTANTS Conversations, Workspaces, NoWorkspace

VARIABLES
    bound,   \* the workspace a cataloged conversation is bound to
    open,    \* the workspace an open conversation was opened in
    removed  \* the conversations that were removed

recordVars == <<bound, open, removed>>

Init ==
    /\ bound \in [Conversations -> Workspaces \cup {NoWorkspace}]
    /\ open = [c \in Conversations |-> NoWorkspace]
    /\ removed = {}

(* A conversation is created, opened, or moved: it ends up open where its   *)
(* row says. Only a conversation that is not open moves.                    *)
Open(c, w) ==
    /\ c \notin removed
    /\ open[c] = NoWorkspace
    /\ bound' = [bound EXCEPT ![c] = w]
    /\ open' = [open EXCEPT ![c] = w]
    /\ UNCHANGED removed

(* The row is deleted and the conversation is not open any more. *)
Remove(c) ==
    /\ bound[c] # NoWorkspace
    /\ bound' = [bound EXCEPT ![c] = NoWorkspace]
    /\ open' = [open EXCEPT ![c] = NoWorkspace]
    /\ removed' = removed \cup {c}

(* The row could not be deleted, its conversation is closed all the same. *)
Forget(c) ==
    /\ open' = [open EXCEPT ![c] = NoWorkspace]
    /\ UNCHANGED <<bound, removed>>

(* The service shuts down. *)
CloseAll ==
    /\ open' = [c \in Conversations |-> NoWorkspace]
    /\ UNCHANGED <<bound, removed>>

Next ==
    \/ \E c \in Conversations : Remove(c) \/ Forget(c) \/ \E w \in Workspaces : Open(c, w)
    \/ CloseAll

Spec == Init /\ [][Next]_recordVars
=============================================================================
