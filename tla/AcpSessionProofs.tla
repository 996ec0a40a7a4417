-------------------------- MODULE AcpSessionProofs --------------------------
(***************************************************************************)
(* Proofs about AcpSession: its safety invariants, that answers to          *)
(* permission requests are final, and that it implements TurnProtocol, for  *)
(* every number of turns, approvals and buffered updates.                   *)
(*                                                                          *)
(* The invariants are not inductive: a finishing turn must be known to be   *)
(* the last one shown, a beginning turn to find no other, and an approval   *)
(* id to be fresh. Inv adds what they need, in one part for every group of  *)
(* variables, so that a step that leaves a group alone preserves its part.  *)
(*                                                                          *)
(* Last, the same of the instance MCSession, which holds the actor beside   *)
(* the projection of what the Agent writes (TurnProjectionProofs and        *)
(* TurnReplayProofs).                                                       *)
(***************************************************************************)
EXTENDS MCSession, TurnReplayProofs, TLAPS

(* The variables no other part of the invariant is about. *)
EnvironmentTypeOK ==
    /\ negotiated \in Negotiable
    /\ startKind \in {"none", "create", "load", "resume"}
    /\ buffered \in Seq(UpdateKinds)
    /\ restoreFailure \in BOOLEAN /\ replayed \in BOOLEAN
    /\ deleting \in {"idle", "requested", "closing", "returned"}
    /\ shutdown \in {"idle", "closing", "returned"}
    /\ connection \in {"open", "closed"}
    /\ attachment \in {"none", "waiting", "attached", "refused", "dropped"}
    /\ connectionNotice \in BOOLEAN /\ attachmentNotice \in BOOLEAN
    /\ request \in [{"start", "config", "delete"} -> RequestStates]
    /\ promptRequest \in [Turns -> RequestStates]
    /\ working \subseteq Turns

(* The turns and the operation behind the last of them. *)
TurnInv ==
    /\ activeOperation \in Turns \union {NoTurn}
    /\ nextOperationId \in 1..(MaxTurns + 1)
    /\ promptPending \in BOOLEAN
    /\ prompting \in {"idle", "configuring", "running"}
    /\ turns \in Seq(EndedStatuses \union {"running"})
    /\ TurnsFollowOperation
    /\ activeOperation # NoTurn => prompting = "running"
    /\ promptPending <=> prompting # "idle"
    /\ prompting = "configuring" => nextOperationId \in Turns

(* Nothing is prompted before the session is started. *)
StartInv ==
    /\ lifecycle \in Lifecycles
    /\ starting \in {"idle", "requested", "draining", "returned", "threw"}
    /\ lifecycle = "new" => starting = "idle"
    /\ starting # "returned" => turns = <<>> /\ prompting = "idle"

(* The permission coordinator. Approval ids are taken in order, and one that *)
(* is pending or not yet taken has no answer.                                *)
ApprovalInv ==
    /\ pending \subseteq Approvals
    /\ requestKey \in [Approvals -> Keys \union {NoKey}]
    /\ requestIds \subseteq Keys
    /\ nextApproval \in 1..(MaxApprovals + 1)
    /\ raisedIn \in [Approvals -> Turns \union {NoTurn}]
    /\ answers \in [Approvals -> {"none", "selected", "cancelled"}]
    /\ RequestIdsMatchPending
    /\ \A a \in pending : a < nextApproval
    /\ \A a \in Approvals : a \in pending \/ a >= nextApproval => answers[a] = "none"

Inv == EnvironmentTypeOK /\ TurnInv /\ StartInv /\ ApprovalInv /\ ApprovalsBelongToTurn

(* What a step does to the answers and to the list of turns. *)
AnswersKept == \A a \in Approvals : answers[a] # "none" => answers'[a] = answers[a]
ProtocolStep == [Protocol!Next]_turns

-----------------------------------------------------------------------------
(* What the shared steps do to each part. *)

(* Leaving a group of variables alone preserves its part. *)
LEMMA TurnStutter == TurnInv /\ UNCHANGED turnVars => TurnInv'
  BY DEF TurnInv, TurnsFollowOperation, turnVars

LEMMA ApprovalStutter == ApprovalInv /\ UNCHANGED approvalVars => ApprovalInv'
  BY DEF ApprovalInv, RequestIdsMatchPending, approvalVars

(* cancelAll leaves nothing pending, and forgets every wire request. *)
LEMMA CancelAllClears ==
  ASSUME ApprovalInv, CancelAll
  PROVE  ApprovalInv' /\ pending' = {} /\ requestIds' = {} /\ AnswersKept
<1>1. pending' = {} /\ requestIds' = {} /\ UNCHANGED <<requestKey, nextApproval, raisedIn>>
  BY DEF ApprovalInv, RequestIdsMatchPending, CancelAll
<1>2. \A a \in Approvals : a >= nextApproval => a \notin pending
  BY BoundAssumption DEF ApprovalInv, Approvals
<1>3. /\ answers' \in [Approvals -> {"none", "selected", "cancelled"}]
      /\ \A a \in Approvals : a >= nextApproval => answers'[a] = "none"
  BY <1>2 DEF ApprovalInv, CancelAll
<1>4. AnswersKept
  BY DEF ApprovalInv, CancelAll, AnswersKept
<1> QED
  BY <1>1, <1>3, <1>4 DEF ApprovalInv, RequestIdsMatchPending

(* Reducing an event into the last turn changes the status of that turn only. *)
LEMMA EmitEffect ==
  ASSUME turns \in Seq(EndedStatuses \union {"running"}), Len(turns) > 0,
         NEW status \in EndedStatuses \union {"running"}, Emit(status)
  PROVE  /\ turns' \in Seq(EndedStatuses \union {"running"})
         /\ Len(turns') = Len(turns)
         /\ turns'[Len(turns)] = status
         /\ \A i \in 1..(Len(turns) - 1) : turns'[i] = turns[i]
  BY DEF Emit

(* finishOperation ends the last turn and clears its approvals, or does      *)
(* nothing when the operation is not the active one.                        *)
LEMMA FinishPreserves ==
  ASSUME TurnInv, ApprovalInv, NEW op \in Turns, NEW status \in EndedStatuses,
         FinishOperation(op, status)
  PROVE  /\ TurnInv' /\ ApprovalInv'
         /\ ApprovalsBelongToTurn => ApprovalsBelongToTurn'
         /\ AnswersKept /\ ProtocolStep
         /\ prompting' = prompting
         /\ turns = <<>> => turns' = <<>>
<1>1. CASE activeOperation = op
  <2>1. op # NoTurn
    BY DEF Turns, NoTurn
  <2>2. Len(turns) > 0 /\ turns \in Seq(EndedStatuses \union {"running"})
    BY <1>1, <2>1 DEF TurnInv, TurnsFollowOperation
  <2>3. Emit(status) /\ CancelAll /\ activeOperation' = NoTurn
        /\ UNCHANGED <<nextOperationId, promptPending, prompting>>
    BY <1>1 DEF FinishOperation
  <2>4. /\ turns' \in Seq(EndedStatuses \union {"running"})
        /\ Len(turns') = Len(turns) /\ turns'[Len(turns)] = status
        /\ \A i \in 1..(Len(turns) - 1) : turns'[i] = turns[i]
    BY <2>2, <2>3, EmitEffect
  <2>5. TurnsFollowOperation'
    BY <2>2, <2>3, <2>4 DEF TurnInv, TurnsFollowOperation, EndedStatuses
  <2>6. TurnInv'
    BY <2>3, <2>4, <2>5 DEF TurnInv
  <2>7. ApprovalInv' /\ pending' = {} /\ AnswersKept
    BY <2>3, CancelAllClears
  <2>8. Protocol!End
    <3>1. turns[Len(turns)] = "running"
      BY <1>1, <2>1, <2>2 DEF TurnInv, TurnsFollowOperation
    <3>2. turns' = [turns EXCEPT ![Len(turns)] = status]
      BY <2>2, <2>3 DEF Emit
    <3> QED BY <2>2, <3>1, <3>2 DEF Protocol!End, Protocol!EndedStatuses, EndedStatuses
  <2> QED
    BY <2>2, <2>3, <2>6, <2>7, <2>8 DEF ApprovalsBelongToTurn, ProtocolStep, Protocol!Next
<1>2. CASE activeOperation # op
  <2>1. UNCHANGED turnVars /\ UNCHANGED approvalVars
    BY <1>2 DEF FinishOperation
  <2> QED
    BY <2>1, TurnStutter, ApprovalStutter
    DEF turnVars, approvalVars, ApprovalsBelongToTurn, AnswersKept, ProtocolStep
<1> QED BY <1>1, <1>2

LEMMA EndActivePreserves ==
  ASSUME TurnInv, ApprovalInv, NEW status \in EndedStatuses, EndActiveTurn(status)
  PROVE  /\ TurnInv' /\ ApprovalInv'
         /\ ApprovalsBelongToTurn => ApprovalsBelongToTurn'
         /\ AnswersKept /\ ProtocolStep
         /\ prompting' = prompting
         /\ turns = <<>> => turns' = <<>>
<1>1. CASE activeOperation # NoTurn
  <2>1. activeOperation \in Turns /\ FinishOperation(activeOperation, status)
    BY <1>1 DEF TurnInv, EndActiveTurn
  <2> QED BY <2>1, FinishPreserves
<1>2. CASE activeOperation = NoTurn
  <2>1. UNCHANGED turnVars /\ UNCHANGED approvalVars
    BY <1>2 DEF EndActiveTurn
  <2> QED
    BY <2>1, TurnStutter, ApprovalStutter
    DEF turnVars, approvalVars, ApprovalsBelongToTurn, AnswersKept, ProtocolStep
<1> QED BY <1>1, <1>2

LEMMA EndTurnAndApprovalsPreserves ==
  ASSUME TurnInv, ApprovalInv, NEW status \in EndedStatuses, EndTurnAndApprovals(status)
  PROVE  /\ TurnInv' /\ ApprovalInv'
         /\ ApprovalsBelongToTurn => ApprovalsBelongToTurn'
         /\ AnswersKept /\ ProtocolStep
         /\ prompting' = prompting
         /\ turns = <<>> => turns' = <<>>
<1>1. CASE activeOperation # NoTurn
  <2>1. activeOperation \in Turns /\ FinishOperation(activeOperation, status)
    BY <1>1 DEF TurnInv, EndTurnAndApprovals
  <2> QED BY <2>1, FinishPreserves
<1>2. CASE activeOperation = NoTurn
  <2>1. UNCHANGED turnVars /\ CancelAll
    BY <1>2 DEF EndTurnAndApprovals
  <2>2. ApprovalInv' /\ pending' = {} /\ AnswersKept
    BY <2>1, CancelAllClears
  <2> QED
    BY <2>1, <2>2, TurnStutter DEF turnVars, ApprovalsBelongToTurn, ProtocolStep
<1> QED BY <1>1, <1>2

(* A turn begins when none is active: the list grows by a running turn. *)
LEMMA BeginPreserves ==
  ASSUME TurnInv, activeOperation = NoTurn, nextOperationId \in Turns, BeginTurn
  PROVE  TurnInv' /\ ProtocolStep
<1>1. /\ turns' = Append(turns, "running") /\ activeOperation' = nextOperationId
      /\ nextOperationId' = nextOperationId + 1 /\ promptPending' = TRUE
      /\ prompting' = "running"
  BY DEF BeginTurn
<1>2. turns \in Seq(EndedStatuses \union {"running"})
  BY DEF TurnInv
<1>3. /\ turns' \in Seq(EndedStatuses \union {"running"})
      /\ Len(turns') = Len(turns) + 1 /\ turns'[Len(turns')] = "running"
      /\ \A i \in 1..Len(turns) : turns'[i] = turns[i]
  BY <1>1, <1>2
<1>4. \A i \in 1..Len(turns) : turns[i] \in EndedStatuses
  <2>1. \A i \in 1..Len(turns) : turns[i] \in EndedStatuses \union {"running"}
    BY <1>2
  <2> QED BY <1>2, <2>1 DEF TurnInv, TurnsFollowOperation
<1>5. nextOperationId # NoTurn
  BY DEF Turns, NoTurn
<1>6. TurnsFollowOperation'
  BY <1>1, <1>2, <1>3, <1>4, <1>5 DEF TurnsFollowOperation
<1>7. nextOperationId' \in 1..(MaxTurns + 1)
  BY <1>1, BoundAssumption DEF Turns
<1>8. Protocol!Begin
  BY <1>1, <1>4 DEF Protocol!Begin, Protocol!Settled, Protocol!EndedStatuses, EndedStatuses
<1> QED
  BY <1>1, <1>3, <1>6, <1>7, <1>8 DEF TurnInv, ProtocolStep, Protocol!Next

-----------------------------------------------------------------------------
(* Every step preserves every part. *)

(* Closing the connection or the attachment, in whatever state it is. *)
LEMMA RejectType ==
  ASSUME NEW Ids, NEW requests \in [Ids -> RequestStates]
  PROVE  Reject(requests) \in [Ids -> RequestStates]
  BY DEF Reject, RequestStates

LEMMA LoseConnectionTypes ==
  ASSUME EnvironmentTypeOK, LoseConnection
  PROVE  /\ connection' \in {"open", "closed"} /\ connectionNotice' \in BOOLEAN
         /\ promptRequest' \in [Turns -> RequestStates]
         /\ working' \subseteq Turns
<1>1. promptRequest' \in [Turns -> RequestStates]
  BY RejectType DEF LoseConnection, EnvironmentTypeOK
<1>2. connectionNotice' \in BOOLEAN
  BY DEF LoseConnection
<1> QED BY <1>1, <1>2 DEF LoseConnection

LEMMA LoseAttachmentTypes ==
  ASSUME EnvironmentTypeOK, LoseAttachment
  PROVE  /\ attachment' \in {"none", "waiting", "attached", "refused", "dropped"}
         /\ attachmentNotice' \in BOOLEAN
<1>1. attachmentNotice' \in BOOLEAN
  BY DEF LoseAttachment
<1>2. attachment' \in {"none", "waiting", "attached", "refused", "dropped"}
  BY DEF LoseAttachment, ClosedAttachment, EnvironmentTypeOK
<1> QED BY <1>1, <1>2

LEMMA CloseTypes ==
  ASSUME EnvironmentTypeOK, CloseResources, request' = Reject(request)
  PROVE  /\ connection' \in {"open", "closed"} /\ connectionNotice' \in BOOLEAN
         /\ attachment' \in {"none", "waiting", "attached", "refused", "dropped"}
         /\ attachmentNotice' \in BOOLEAN
         /\ request' \in [{"start", "config", "delete"} -> RequestStates]
         /\ promptRequest' \in [Turns -> RequestStates]
         /\ working' \subseteq Turns
<1>1. request' \in [{"start", "config", "delete"} -> RequestStates]
  BY RejectType DEF EnvironmentTypeOK
<1>2. LoseConnection /\ LoseAttachment
  BY DEF CloseResources
<1> QED BY <1>1, <1>2, LoseConnectionTypes, LoseAttachmentTypes

(* What a step leaves alone, and the types of what it changes. *)
AgentTypes ==
  /\ request \in [{"start", "config", "delete"} -> RequestStates]
  /\ promptRequest \in [Turns -> RequestStates]
  /\ working \subseteq Turns
ResourceTypes ==
  /\ connection \in {"open", "closed"} /\ connectionNotice \in BOOLEAN
  /\ attachment \in {"none", "waiting", "attached", "refused", "dropped"}
  /\ attachmentNotice \in BOOLEAN

LEMMA EnvironmentKept ==
  ASSUME EnvironmentTypeOK, ResourceTypes', AgentTypes',
         UNCHANGED <<negotiated, buffered, deleting, shutdown>>,
         startKind' \in {"none", "create", "load", "resume"},
         restoreFailure' \in BOOLEAN, replayed' \in BOOLEAN
  PROVE  EnvironmentTypeOK'
  BY DEF EnvironmentTypeOK, ResourceTypes, AgentTypes

LEMMA AgentSame ==
  ASSUME EnvironmentTypeOK, UNCHANGED <<request, promptRequest, working>>
  PROVE  AgentTypes'
  BY DEF EnvironmentTypeOK, AgentTypes

LEMMA ResourcesSame ==
  ASSUME EnvironmentTypeOK, UNCHANGED <<connection, connectionNotice, attachment, attachmentNotice>>
  PROVE  ResourceTypes'
  BY DEF EnvironmentTypeOK, ResourceTypes

(* The connection, the attachment and the requests keep their types. *)
LEMMA EnvironmentStep ==
  ASSUME EnvironmentTypeOK, TurnInv, Next
  PROVE  EnvironmentTypeOK'
<1> USE DEF EnvironmentTypeOK, RequestStates
<1>1. CASE CreateSession
  BY <1>1
  DEF CreateSession, resourceVars, closeVars, Ask
<1>2. ASSUME NEW kind \in {"load", "resume"}, RestoreSession(kind) PROVE EnvironmentTypeOK'
  <2>1. startKind' = kind /\ restoreFailure' = FALSE /\ Ask("start")
        /\ UNCHANGED <<negotiated, buffered, replayed, closeVars, resourceVars, promptRequest, working>>
    BY <1>2 DEF RestoreSession
  <2>2. request' \in [{"start", "config", "delete"} -> RequestStates]
    BY <2>1 DEF Ask
  <2>3. AgentTypes'
    BY <2>1, <2>2 DEF AgentTypes
  <2>4. ResourceTypes'
    BY <2>1, ResourcesSame DEF resourceVars
  <2>5. restoreFailure' \in BOOLEAN /\ startKind' \in {"none", "create", "load", "resume"}
    BY <1>2, <2>1
  <2>6. replayed' \in BOOLEAN /\ UNCHANGED <<negotiated, buffered, deleting, shutdown>>
    BY <2>1 DEF closeVars
  <2> QED BY <2>3, <2>4, <2>5, <2>6, EnvironmentKept
<1>3. CASE RestoreUnsupported
  BY <1>3, CloseTypes DEF RestoreUnsupported, closeVars, StartThrows
<1>4. CASE Prompt
  BY <1>4
  DEF Prompt, startVars, closeVars, resourceVars, BeginTurn, PromptAccepted
<1>5. CASE PromptWithOptions
  BY <1>5
  DEF PromptWithOptions, startVars, closeVars, resourceVars, Ask
<1>6. CASE Cancel
  BY <1>6
  DEF Cancel, startVars, closeVars, resourceVars, agentVars
<1>7. CASE DeleteSession
  BY <1>7
  DEF DeleteSession, startVars, resourceVars, Ask
<1>8. CASE Shutdown
  <2>1. CASE lifecycle = "closed"
    BY <1>8, <2>1 DEF Shutdown, startVars, resourceVars, agentVars
  <2>2. CASE lifecycle # "closed"
    BY <1>8, <2>2, CloseTypes DEF Shutdown, startVars
  <2> QED BY <2>1, <2>2
<1>9. ASSUME NEW a \in Approvals, ResolveApproval(a) PROVE EnvironmentTypeOK'
  BY <1>9
  DEF ResolveApproval, startVars, closeVars, resourceVars, agentVars
<1>10. ASSUME NEW r \in {"start", "config", "delete"}, AgentAnswers(r) PROVE EnvironmentTypeOK'
  BY <1>10
  DEF AgentAnswers, startVars, closeVars, resourceVars
<1>11. ASSUME NEW t \in Turns, AgentAnswersPrompt(t) PROVE EnvironmentTypeOK'
  BY <1>11
  DEF AgentAnswersPrompt, startVars, closeVars, resourceVars
<1>12. ASSUME NEW t \in Turns, IdleUpdate(t) PROVE EnvironmentTypeOK'
  BY <1>12
  DEF IdleUpdate, startVars, closeVars, resourceVars
<1>13. ASSUME NEW kind \in UpdateKinds, BufferUpdate(kind) PROVE EnvironmentTypeOK'
  BY <1>13
  DEF BufferUpdate, closeVars, resourceVars, agentVars
<1>14. ASSUME NEW kind \in UpdateKinds, RestoringUpdate(kind) PROVE EnvironmentTypeOK'
  <2>1. UNCHANGED <<negotiated, startKind, buffered, closeVars, resourceVars, agentVars>>
    BY <1>14 DEF RestoringUpdate
  <2>2. restoreFailure' \in BOOLEAN
    BY <1>14 DEF RestoringUpdate
  <2>3. replayed' \in BOOLEAN
    BY <1>14 DEF RestoringUpdate
  <2>4. ResourceTypes' /\ AgentTypes'
    BY <2>1, ResourcesSame, AgentSame DEF resourceVars, agentVars
  <2>5. UNCHANGED <<negotiated, buffered, deleting, shutdown>> /\ startKind' = startKind
    BY <2>1 DEF closeVars
  <2> QED BY <2>2, <2>3, <2>4, <2>5, EnvironmentKept
<1>36. CASE RestoringInvalidUpdate
  BY <1>36, SMTT(30) DEF RestoringInvalidUpdate, closeVars, resourceVars, agentVars
<1>15. CASE OutputUpdate
  BY <1>15
  DEF OutputUpdate, startVars, closeVars, resourceVars, agentVars
<1>16. CASE InvalidMessage
  BY <1>16
  DEF InvalidMessage, startVars, closeVars, resourceVars, agentVars
<1>17. ASSUME NEW key \in Keys, PermissionRequest(key) PROVE EnvironmentTypeOK'
  BY <1>17
  DEF PermissionRequest, startVars, closeVars, resourceVars, agentVars
<1>18. CASE ConnectionCloses
  BY <1>18, LoseConnectionTypes, RejectType DEF ConnectionCloses, startVars, closeVars
<1>19. CASE AttachmentConnects
  BY <1>19
  DEF AttachmentConnects, startVars, closeVars, agentVars
<1>20. CASE AttachmentCloses
  BY <1>20, SMTT(30)
  DEF AttachmentCloses, startVars, closeVars, agentVars, LoseAttachment,
      ClosedAttachment
<1>21. CASE StartFails
  BY <1>21, SMTT(30)
  DEF StartFails, closeVars, StartThrows, CloseResources, LoseConnection,
      LoseAttachment, ClosedAttachment, Reject
<1>22. CASE RestoreTimesOut
  BY <1>22, CloseTypes DEF RestoreTimesOut, closeVars, StartThrows
<1>23. CASE CreateSucceeds
  BY <1>23
  DEF CreateSucceeds, closeVars, resourceVars, agentVars
<1>24. CASE RestoreSucceeds
  BY <1>24
  DEF RestoreSucceeds, closeVars, resourceVars, agentVars
<1>25. CASE DrainBuffered
  <2>1. buffered' \in Seq(UpdateKinds)
    BY <1>25 DEF DrainBuffered
  <2>2. CASE lifecycle = "active" /\ Head(buffered) = "passive"
    BY <1>25, <2>1, <2>2 DEF DrainBuffered, closeVars, resourceVars, agentVars
  <2>3. CASE ~(lifecycle = "active" /\ Head(buffered) = "passive")
    BY <1>25, <2>1, <2>3, CloseTypes DEF DrainBuffered, StartThrows, closeVars
  <2> QED BY <2>2, <2>3
<1>26. CASE CreateReturns
  BY <1>26
  DEF CreateReturns, closeVars, resourceVars, agentVars
<1>27. CASE ConfigurationApplied
  BY <1>27, SMTT(30)
  DEF ConfigurationApplied, TurnInv, startVars, closeVars, resourceVars, BeginTurn
<1>28. CASE ConfigurationFails
  BY <1>28
  DEF ConfigurationFails, startVars, closeVars, resourceVars
<1>29. CASE PromptReturns
  BY <1>29
  DEF PromptReturns, startVars, closeVars, resourceVars, agentVars
<1>30. ASSUME NEW t \in Turns, DispatchContinues(t) PROVE EnvironmentTypeOK'
  BY <1>30
  DEF DispatchContinues, startVars, closeVars, resourceVars
<1>31. CASE DeleteAnswered
  BY <1>31, CloseTypes DEF DeleteAnswered, startVars
<1>32. CASE DeleteReturns
  BY <1>32
  DEF DeleteReturns, startVars, resourceVars, agentVars
<1>33. CASE ShutdownReturns
  BY <1>33
  DEF ShutdownReturns, startVars, resourceVars, agentVars
<1>34. CASE HandleConnectionClosed
  <2>1. connectionNotice' = FALSE
        /\ UNCHANGED <<negotiated, startKind, buffered, replayed, closeVars, connection, agentVars>>
    BY <1>34 DEF HandleConnectionClosed
  <2>2. restoreFailure' \in BOOLEAN
    BY <1>34 DEF HandleConnectionClosed
  <2>3. (attachment' = attachment /\ attachmentNotice' = attachmentNotice) \/ LoseAttachment
    BY <1>34 DEF HandleConnectionClosed
  <2>4. attachment' \in {"none", "waiting", "attached", "refused", "dropped"} /\ attachmentNotice' \in BOOLEAN
    BY <2>3, LoseAttachmentTypes
  <2>5. ResourceTypes'
    BY <2>1, <2>4 DEF ResourceTypes
  <2>6. AgentTypes'
    BY <2>1, AgentSame DEF agentVars
  <2>7. UNCHANGED <<negotiated, buffered, deleting, shutdown>> /\ startKind' = startKind /\ replayed' = replayed
    BY <2>1 DEF closeVars
  <2> QED BY <2>2, <2>5, <2>6, <2>7, EnvironmentKept
<1>35. CASE HandleAttachmentClosed
  <2>1. attachmentNotice' = FALSE /\ UNCHANGED <<negotiated, startKind, buffered, replayed, closeVars, attachment>>
    BY <1>35 DEF HandleAttachmentClosed
  <2>2. restoreFailure' \in BOOLEAN
    BY <1>35 DEF HandleAttachmentClosed
  <2>3. \/ UNCHANGED <<connection, connectionNotice, agentVars>>
        \/ LoseConnection /\ request' = Reject(request)
    BY <1>35 DEF HandleAttachmentClosed
  <2>4. CASE UNCHANGED <<connection, connectionNotice, agentVars>>
    <3>1. AgentTypes'
      BY <2>4, AgentSame DEF agentVars
    <3>2. ResourceTypes'
      BY <2>1, <2>4 DEF ResourceTypes
    <3>3. UNCHANGED <<negotiated, buffered, deleting, shutdown>> /\ startKind' = startKind /\ replayed' = replayed
      BY <2>1 DEF closeVars
    <3> QED BY <2>2, <3>1, <3>2, <3>3, EnvironmentKept
  <2>5. CASE LoseConnection /\ request' = Reject(request)
    <3>1. request' \in [{"start", "config", "delete"} -> RequestStates]
      BY <2>5, RejectType
    <3>2. AgentTypes'
      BY <2>5, <3>1, LoseConnectionTypes DEF AgentTypes
    <3>3. ResourceTypes'
      BY <2>1, <2>5, LoseConnectionTypes DEF ResourceTypes
    <3>4. UNCHANGED <<negotiated, buffered, deleting, shutdown>> /\ startKind' = startKind /\ replayed' = replayed
      BY <2>1 DEF closeVars
    <3> QED BY <2>2, <3>2, <3>3, <3>4, EnvironmentKept
  <2> QED BY <2>3, <2>4, <2>5
<1> QED
  BY <1>1, <1>2, <1>3, <1>4, <1>5, <1>6, <1>7, <1>8, <1>9, <1>10, <1>11, <1>12, <1>13,
     <1>14, <1>15, <1>16, <1>17, <1>18, <1>19, <1>20, <1>21, <1>22, <1>23, <1>24, <1>25,
     <1>26, <1>27, <1>28, <1>29, <1>30, <1>31, <1>32, <1>33, <1>34, <1>35, <1>36
  DEF Next, Host, Agent, Continuation

(* Output keeps the last turn running. *)
LEMMA OutputPreserves ==
  ASSUME TurnInv, activeOperation # NoTurn, Emit("running"),
         UNCHANGED <<activeOperation, nextOperationId, promptPending, prompting>>
  PROVE  TurnInv' /\ turns # <<>> /\ ProtocolStep
<1>1. Len(turns) > 0 /\ turns \in Seq(EndedStatuses \union {"running"})
  BY DEF TurnInv, TurnsFollowOperation
<1>2. /\ turns' \in Seq(EndedStatuses \union {"running"})
      /\ Len(turns') = Len(turns) /\ turns'[Len(turns)] = "running"
      /\ \A i \in 1..(Len(turns) - 1) : turns'[i] = turns[i]
  BY <1>1, EmitEffect
<1>3. TurnsFollowOperation'
  BY <1>1, <1>2 DEF TurnInv, TurnsFollowOperation
<1>4. turns' = turns
  BY <1>1 DEF Emit, TurnInv, TurnsFollowOperation
<1> QED BY <1>1, <1>2, <1>3, <1>4 DEF TurnInv, ProtocolStep

(* A new approval takes a fresh id and a wire request that is not pending. *)
LEMMA RaisePreserves ==
  ASSUME TurnInv, ApprovalInv, ApprovalsBelongToTurn, activeOperation # NoTurn,
         NEW key \in Keys, key \notin requestIds,
         nextApproval \in Approvals,
         pending' = pending \union {nextApproval},
         requestIds' = requestIds \union {key},
         requestKey' = [requestKey EXCEPT ![nextApproval] = key],
         raisedIn' = [raisedIn EXCEPT ![nextApproval] = activeOperation],
         nextApproval' = nextApproval + 1,
         UNCHANGED <<answers, activeOperation>>
  PROVE  ApprovalInv' /\ ApprovalsBelongToTurn' /\ AnswersKept
<1>1. nextApproval \notin pending /\ \A a \in pending : a \in Approvals /\ a # nextApproval
  BY BoundAssumption DEF ApprovalInv, Approvals
<1>2. \A a \in pending : requestKey'[a] = requestKey[a] /\ raisedIn'[a] = raisedIn[a]
  BY <1>1 DEF ApprovalInv
<1>3. requestKey'[nextApproval] = key /\ raisedIn'[nextApproval] = activeOperation
  BY DEF ApprovalInv
<1>4. RequestIdsMatchPending'
  <2>1. requestIds' = {requestKey'[a] : a \in pending'}
    BY <1>2, <1>3 DEF ApprovalInv, RequestIdsMatchPending
  <2>2. \A a, b \in pending' : requestKey'[a] = requestKey'[b] => a = b
    BY <1>2, <1>3 DEF ApprovalInv, RequestIdsMatchPending
  <2> QED BY <2>1, <2>2 DEF RequestIdsMatchPending
<1>5. /\ nextApproval' \in 1..(MaxApprovals + 1)
      /\ \A a \in pending' : a < nextApproval'
      /\ \A a \in Approvals : a \in pending' \/ a >= nextApproval' => answers'[a] = "none"
  BY BoundAssumption DEF ApprovalInv, Approvals
<1>6. ApprovalInv'
  BY <1>4, <1>5 DEF ApprovalInv, TurnInv
<1>7. ApprovalsBelongToTurn'
  BY <1>2, <1>3 DEF ApprovalsBelongToTurn
<1> QED BY <1>6, <1>7 DEF AnswersKept

(* Resolving an approval removes it with its wire request. *)
LEMMA ResolvePreserves ==
  ASSUME ApprovalInv, ApprovalsBelongToTurn, NEW a \in Approvals, ResolveApproval(a)
  PROVE  ApprovalInv' /\ ApprovalsBelongToTurn' /\ AnswersKept
<1>1. /\ a \in pending /\ pending' = pending \ {a}
      /\ requestIds' = requestIds \ {requestKey[a]}
      /\ UNCHANGED <<requestKey, nextApproval, raisedIn, activeOperation>>
  BY DEF ResolveApproval, turnVars
<1>2. PICK outcome \in {"selected", "cancelled"} :
         answers' = [answers EXCEPT ![a] = outcome]
  BY DEF ResolveApproval
<1>3. RequestIdsMatchPending'
  BY <1>1 DEF ApprovalInv, RequestIdsMatchPending
<1>4. a < nextApproval /\ nextApproval \in Int /\ a \in Int
  BY <1>1, BoundAssumption DEF ApprovalInv, Approvals
<1>5. /\ answers' \in [Approvals -> {"none", "selected", "cancelled"}]
      /\ \A b \in Approvals : b \in pending' \/ b >= nextApproval' => answers'[b] = "none"
  BY <1>1, <1>2, <1>4 DEF ApprovalInv
<1>6. AnswersKept
  BY <1>1, <1>2 DEF ApprovalInv, AnswersKept
<1> QED BY <1>1, <1>3, <1>5, <1>6 DEF ApprovalInv, ApprovalsBelongToTurn

(* A step outside the turns and the approvals preserves what is about them. *)
LEMMA QuietPreserves ==
  ASSUME Inv, UNCHANGED turnVars, UNCHANGED approvalVars
  PROVE  /\ TurnInv' /\ ApprovalInv' /\ ApprovalsBelongToTurn'
         /\ UNCHANGED <<turns, prompting>>
         /\ AnswersKept /\ ProtocolStep
  BY TurnStutter, ApprovalStutter
  DEF Inv, turnVars, approvalVars, ApprovalsBelongToTurn, AnswersKept, ProtocolStep

(* The actor's own steps: turns, start and approvals stay consistent. *)
LEMMA ActorStep ==
  ASSUME Inv, Next
  PROVE  /\ TurnInv' /\ StartInv' /\ ApprovalInv' /\ ApprovalsBelongToTurn'
         /\ AnswersKept /\ ProtocolStep
<1> DEFINE Goal == /\ TurnInv' /\ StartInv' /\ ApprovalInv' /\ ApprovalsBelongToTurn'
                   /\ AnswersKept /\ ProtocolStep
<1> USE DEF Lifecycles
<1> SUFFICES Goal
  OBVIOUS
<1>1. CASE CreateSession
  <2>1. UNCHANGED turnVars /\ UNCHANGED approvalVars
    BY <1>1 DEF CreateSession
  <2>2. StartInv'
    BY <1>1, <2>1, QuietPreserves DEF Inv, StartInv, CreateSession
  <2> QED BY <2>1, <2>2, QuietPreserves
<1>2. ASSUME NEW kind \in {"load", "resume"}, RestoreSession(kind) PROVE Goal
  <2>1. UNCHANGED turnVars /\ UNCHANGED approvalVars
    BY <1>2 DEF RestoreSession
  <2>2. StartInv'
    BY <1>2, <2>1, QuietPreserves DEF Inv, StartInv, RestoreSession
  <2> QED BY <2>1, <2>2, QuietPreserves
<1>3. CASE RestoreUnsupported
  <2>1. UNCHANGED turnVars /\ UNCHANGED approvalVars
    BY <1>3 DEF RestoreUnsupported
  <2>2. StartInv'
    BY <1>3, <2>1, QuietPreserves DEF Inv, StartInv, RestoreUnsupported, StartThrows
  <2> QED BY <2>1, <2>2, QuietPreserves
<1>4. ASSUME NEW r \in {"start", "config", "delete"}, AgentAnswers(r) PROVE Goal
  <2>1. UNCHANGED turnVars /\ UNCHANGED approvalVars
    BY <1>4 DEF AgentAnswers
  <2>2. StartInv'
    BY <1>4, <2>1, QuietPreserves DEF Inv, StartInv, AgentAnswers, startVars
  <2> QED BY <2>1, <2>2, QuietPreserves
<1>5. ASSUME NEW t \in Turns, AgentAnswersPrompt(t) PROVE Goal
  <2>1. UNCHANGED turnVars /\ UNCHANGED approvalVars
    BY <1>5 DEF AgentAnswersPrompt
  <2>2. StartInv'
    BY <1>5, <2>1, QuietPreserves DEF Inv, StartInv, AgentAnswersPrompt, startVars
  <2> QED BY <2>1, <2>2, QuietPreserves
<1>6. ASSUME NEW kind \in UpdateKinds, BufferUpdate(kind) PROVE Goal
  <2>1. UNCHANGED turnVars /\ UNCHANGED approvalVars
    BY <1>6 DEF BufferUpdate
  <2>2. StartInv'
    BY <1>6, <2>1, QuietPreserves DEF Inv, StartInv, BufferUpdate
  <2> QED BY <2>1, <2>2, QuietPreserves
<1>7. ASSUME NEW kind \in UpdateKinds, RestoringUpdate(kind) PROVE Goal
  <2>1. UNCHANGED turnVars /\ UNCHANGED approvalVars
    BY <1>7 DEF RestoringUpdate
  <2>2. StartInv'
    BY <1>7, <2>1, QuietPreserves DEF Inv, StartInv, RestoringUpdate
  <2> QED BY <2>1, <2>2, QuietPreserves
<1>8. CASE RestoringInvalidUpdate
  <2>1. UNCHANGED turnVars /\ UNCHANGED approvalVars
    BY <1>8 DEF RestoringInvalidUpdate
  <2>2. StartInv'
    BY <1>8, <2>1, QuietPreserves DEF Inv, StartInv, RestoringInvalidUpdate
  <2> QED BY <2>1, <2>2, QuietPreserves
<1>9. CASE ConnectionCloses
  <2>1. UNCHANGED turnVars /\ UNCHANGED approvalVars
    BY <1>9 DEF ConnectionCloses
  <2>2. StartInv'
    BY <1>9, <2>1, QuietPreserves DEF Inv, StartInv, ConnectionCloses, startVars
  <2> QED BY <2>1, <2>2, QuietPreserves
<1>10. CASE AttachmentConnects
  <2>1. UNCHANGED turnVars /\ UNCHANGED approvalVars
    BY <1>10 DEF AttachmentConnects
  <2>2. StartInv'
    BY <1>10, <2>1, QuietPreserves DEF Inv, StartInv, AttachmentConnects, startVars
  <2> QED BY <2>1, <2>2, QuietPreserves
<1>11. CASE AttachmentCloses
  <2>1. UNCHANGED turnVars /\ UNCHANGED approvalVars
    BY <1>11 DEF AttachmentCloses
  <2>2. StartInv'
    BY <1>11, <2>1, QuietPreserves DEF Inv, StartInv, AttachmentCloses, startVars
  <2> QED BY <2>1, <2>2, QuietPreserves
<1>12. CASE StartFails
  <2>1. UNCHANGED turnVars /\ UNCHANGED approvalVars
    BY <1>12 DEF StartFails
  <2>2. StartInv'
    BY <1>12, <2>1, QuietPreserves DEF Inv, StartInv, StartFails, StartThrows
  <2> QED BY <2>1, <2>2, QuietPreserves
<1>13. CASE RestoreTimesOut
  <2>1. UNCHANGED turnVars /\ UNCHANGED approvalVars
    BY <1>13 DEF RestoreTimesOut
  <2>2. StartInv'
    BY <1>13, <2>1, QuietPreserves DEF Inv, StartInv, RestoreTimesOut, StartThrows
  <2> QED BY <2>1, <2>2, QuietPreserves
<1>14. CASE CreateSucceeds
  <2>1. UNCHANGED turnVars /\ UNCHANGED approvalVars
    BY <1>14 DEF CreateSucceeds
  <2>2. StartInv'
    BY <1>14, <2>1, QuietPreserves DEF Inv, StartInv, CreateSucceeds
  <2> QED BY <2>1, <2>2, QuietPreserves
<1>15. CASE DrainBuffered
  <2>1. UNCHANGED turnVars /\ UNCHANGED approvalVars
    BY <1>15 DEF DrainBuffered
  <2>2. StartInv'
    BY <1>15, <2>1, QuietPreserves DEF Inv, StartInv, DrainBuffered, StartThrows
  <2> QED BY <2>1, <2>2, QuietPreserves
<1>16. CASE CreateReturns
  <2>1. UNCHANGED turnVars /\ UNCHANGED approvalVars
    BY <1>16 DEF CreateReturns
  <2>2. StartInv'
    BY <1>16, <2>1, QuietPreserves DEF Inv, StartInv, CreateReturns
  <2> QED BY <2>1, <2>2, QuietPreserves
<1>17. CASE DeleteReturns
  <2>1. UNCHANGED turnVars /\ UNCHANGED approvalVars
    BY <1>17 DEF DeleteReturns
  <2>2. StartInv'
    BY <1>17, <2>1, QuietPreserves DEF Inv, StartInv, DeleteReturns, startVars
  <2> QED BY <2>1, <2>2, QuietPreserves
<1>18. CASE ShutdownReturns
  <2>1. UNCHANGED turnVars /\ UNCHANGED approvalVars
    BY <1>18 DEF ShutdownReturns
  <2>2. StartInv'
    BY <1>18, <2>1, QuietPreserves DEF Inv, StartInv, ShutdownReturns, startVars
  <2> QED BY <2>1, <2>2, QuietPreserves
<1>19. CASE Prompt
  <2>1. TurnInv' /\ ProtocolStep
    BY <1>19, BeginPreserves DEF Inv, Prompt, PromptAccepted
  <2>2. ApprovalInv' /\ ApprovalsBelongToTurn' /\ AnswersKept
    <3>1. UNCHANGED approvalVars /\ activeOperation = NoTurn
      BY <1>19 DEF Prompt, PromptAccepted
    <3> QED BY <3>1, ApprovalStutter DEF Inv, ApprovalsBelongToTurn, AnswersKept, approvalVars
  <2>3. StartInv'
    BY <1>19 DEF Inv, StartInv, Prompt, PromptAccepted, startVars
  <2> QED BY <2>1, <2>2, <2>3
<1>20. CASE PromptWithOptions
  <2>1. TurnInv' /\ ProtocolStep
    BY <1>20 DEF Inv, TurnInv, TurnsFollowOperation, ProtocolStep, PromptWithOptions,
        PromptAccepted
  <2>2. ApprovalInv' /\ ApprovalsBelongToTurn' /\ AnswersKept
    BY <1>20, ApprovalStutter
    DEF Inv, PromptWithOptions, ApprovalsBelongToTurn, AnswersKept, approvalVars
  <2>3. StartInv'
    BY <1>20 DEF Inv, StartInv, PromptWithOptions, PromptAccepted, startVars
  <2> QED BY <2>1, <2>2, <2>3
<1>21. CASE ConfigurationApplied
  <2>1. activeOperation = NoTurn /\ nextOperationId \in Turns
    BY <1>21 DEF Inv, TurnInv, ConfigurationApplied
  <2>2. TurnInv' /\ ProtocolStep
    BY <1>21, <2>1, BeginPreserves DEF Inv, ConfigurationApplied
  <2>3. ApprovalInv' /\ ApprovalsBelongToTurn' /\ AnswersKept
    <3>1. UNCHANGED approvalVars
      BY <1>21 DEF ConfigurationApplied
    <3> QED BY <2>1, <3>1, ApprovalStutter DEF Inv, ApprovalsBelongToTurn, AnswersKept, approvalVars
  <2>4. StartInv'
    BY <1>21 DEF Inv, StartInv, ConfigurationApplied, startVars
  <2> QED BY <2>2, <2>3, <2>4
<1>22. CASE ConfigurationFails
  <2>1. TurnInv' /\ ProtocolStep
    BY <1>22 DEF Inv, TurnInv, TurnsFollowOperation, ProtocolStep, ConfigurationFails
  <2>2. ApprovalInv' /\ ApprovalsBelongToTurn' /\ AnswersKept
    BY <1>22, ApprovalStutter
    DEF Inv, ConfigurationFails, ApprovalsBelongToTurn, AnswersKept, approvalVars
  <2>3. StartInv'
    BY <1>22 DEF Inv, StartInv, ConfigurationFails, startVars
  <2> QED BY <2>1, <2>2, <2>3
<1>23. CASE PromptReturns
  <2>1. TurnInv' /\ ProtocolStep
    BY <1>23 DEF Inv, TurnInv, TurnsFollowOperation, ProtocolStep, PromptReturns
  <2>2. ApprovalInv' /\ ApprovalsBelongToTurn' /\ AnswersKept
    BY <1>23, ApprovalStutter DEF Inv, PromptReturns, ApprovalsBelongToTurn, AnswersKept, approvalVars
  <2>3. StartInv'
    BY <1>23 DEF Inv, StartInv, PromptReturns, startVars
  <2> QED BY <2>1, <2>2, <2>3
<1>24. CASE RestoreSucceeds
  <2>1. starting = "requested" /\ turns = <<>> /\ prompting = "idle" /\ activeOperation = NoTurn
    BY <1>24 DEF Inv, StartInv, TurnInv, RestoreSucceeds
  <2>2. /\ turns' = <<"completed">> \/ turns' = turns
        /\ UNCHANGED <<activeOperation, nextOperationId, promptPending, prompting>>
        /\ UNCHANGED approvalVars /\ lifecycle' = "active" /\ starting' = "returned"
    BY <1>24 DEF RestoreSucceeds
  <2>3. TurnInv'
    <3>1. CASE turns' = turns
      BY <2>2, <3>1, TurnStutter DEF Inv, turnVars
    <3>2. CASE turns' = <<"completed">>
      <4>1. /\ turns' \in Seq(EndedStatuses \union {"running"})
            /\ Len(turns') = 1 /\ turns'[1] = "completed"
        BY <3>2 DEF EndedStatuses
      <4>2. TurnsFollowOperation'
        BY <2>1, <2>2, <4>1 DEF TurnsFollowOperation
      <4> QED BY <2>1, <2>2, <4>1, <4>2 DEF Inv, TurnInv
    <3> QED BY <2>2, <3>1, <3>2
  <2>4. ApprovalInv' /\ ApprovalsBelongToTurn' /\ AnswersKept
    BY <2>2, ApprovalStutter DEF Inv, ApprovalsBelongToTurn, AnswersKept, approvalVars
  <2>5. StartInv'
    BY <2>2 DEF StartInv
  <2>6. ProtocolStep
    <3>1. turns' = <<"completed">> => Protocol!Restore
      BY <2>1 DEF Protocol!Restore
    <3> QED BY <2>2, <3>1 DEF ProtocolStep, Protocol!Next
  <2> QED BY <2>3, <2>4, <2>5, <2>6
<1>25. CASE Cancel
  <2>1. EndActiveTurn("failed") /\ UNCHANGED <<lifecycle, starting>>
    BY <1>25 DEF Cancel, startVars
  <2> QED
    BY <2>1, EndActivePreserves DEF Inv, StartInv, EndedStatuses
<1>26. CASE DeleteSession
  <2>1. EndActiveTurn("failed") /\ UNCHANGED <<lifecycle, starting>>
    BY <1>26 DEF DeleteSession, startVars
  <2> QED
    BY <2>1, EndActivePreserves DEF Inv, StartInv, EndedStatuses
<1>27. CASE InvalidMessage
  <2>1. EndActiveTurn("failed") /\ UNCHANGED <<lifecycle, starting>>
    BY <1>27 DEF InvalidMessage, startVars
  <2> QED
    BY <2>1, EndActivePreserves DEF Inv, StartInv, EndedStatuses
<1>28. ASSUME NEW t \in Turns, IdleUpdate(t) PROVE Goal
  <2>1. UNCHANGED <<lifecycle, starting>>
    BY <1>28 DEF IdleUpdate, startVars
  <2>2. CASE lifecycle = "active"
    <3>1. PICK status \in EndedStatuses : EndActiveTurn(status)
      BY <1>28, <2>2 DEF IdleUpdate
    <3> QED BY <2>1, <3>1, EndActivePreserves DEF Inv, StartInv
  <2>3. CASE lifecycle # "active"
    <3>1. UNCHANGED turnVars /\ UNCHANGED approvalVars
      BY <1>28, <2>3 DEF IdleUpdate
    <3> QED BY <2>1, <3>1, QuietPreserves DEF Inv, StartInv
  <2> QED BY <2>2, <2>3
<1>29. ASSUME NEW t \in Turns, DispatchContinues(t) PROVE Goal
  <2>1. UNCHANGED <<lifecycle, starting>>
    BY <1>29 DEF DispatchContinues, startVars
  <2>2. \/ \E status \in EndedStatuses : FinishOperation(t, status)
        \/ UNCHANGED turnVars /\ UNCHANGED approvalVars
    BY <1>29 DEF DispatchContinues, EndedStatuses
  <2>3. CASE \E status \in EndedStatuses : FinishOperation(t, status)
    BY <2>1, <2>3, FinishPreserves DEF Inv, StartInv
  <2>4. CASE UNCHANGED turnVars /\ UNCHANGED approvalVars
    BY <2>1, <2>4, QuietPreserves DEF Inv, StartInv
  <2> QED BY <2>2, <2>3, <2>4
<1>30. CASE OutputUpdate
  <2>1. /\ UNCHANGED <<lifecycle, starting, activeOperation, nextOperationId, promptPending,
                       prompting>>
        /\ UNCHANGED approvalVars
    BY <1>30 DEF OutputUpdate, startVars
  <2>2. TurnInv' /\ (turns = <<>> => turns' = <<>>) /\ ProtocolStep
    <3>1. CASE activeOperation = NoTurn
      BY <1>30, <2>1, <3>1, TurnStutter DEF OutputUpdate, Inv, turnVars, ProtocolStep
    <3>2. CASE activeOperation # NoTurn
      BY <1>30, <2>1, <3>2, OutputPreserves DEF OutputUpdate, Inv
    <3> QED BY <3>1, <3>2
  <2>3. ApprovalInv' /\ ApprovalsBelongToTurn' /\ AnswersKept
    BY <2>1, ApprovalStutter DEF Inv, ApprovalsBelongToTurn, AnswersKept, approvalVars
  <2> QED BY <2>1, <2>2, <2>3 DEF Inv, StartInv
<1>31. ASSUME NEW key \in Keys, PermissionRequest(key) PROVE Goal
  <2>1. UNCHANGED <<lifecycle, starting>> /\ activeOperation # NoTurn
    BY <1>31 DEF PermissionRequest, startVars
  <2>2. CASE key \in requestIds
    <3>1. EndActiveTurn("failed")
      BY <1>31, <2>2 DEF PermissionRequest
    <3> QED BY <2>1, <3>1, EndActivePreserves DEF Inv, StartInv, EndedStatuses
  <2>3. CASE key \notin requestIds
    <3>1. /\ nextApproval \in Approvals
          /\ pending' = pending \union {nextApproval}
          /\ requestIds' = requestIds \union {key}
          /\ requestKey' = [requestKey EXCEPT ![nextApproval] = key]
          /\ raisedIn' = [raisedIn EXCEPT ![nextApproval] = activeOperation]
          /\ nextApproval' = nextApproval + 1
          /\ Emit("running")
          /\ UNCHANGED <<answers, activeOperation, nextOperationId, promptPending, prompting>>
      BY <1>31, <2>3 DEF PermissionRequest
    <3>2. TurnInv' /\ turns # <<>> /\ ProtocolStep
      BY <2>1, <3>1, OutputPreserves DEF Inv
    <3>3. ApprovalInv' /\ ApprovalsBelongToTurn' /\ AnswersKept
      BY <2>1, <2>3, <3>1, RaisePreserves DEF Inv
    <3> QED BY <2>1, <3>1, <3>2, <3>3 DEF Inv, StartInv
  <2> QED BY <2>2, <2>3
<1>32. ASSUME NEW a \in Approvals, ResolveApproval(a) PROVE Goal
  <2>1. UNCHANGED <<lifecycle, starting>> /\ UNCHANGED turnVars
    BY <1>32 DEF ResolveApproval, startVars
  <2>2. ApprovalInv' /\ ApprovalsBelongToTurn' /\ AnswersKept
    BY <1>32, ResolvePreserves DEF Inv
  <2> QED BY <2>1, <2>2, TurnStutter DEF Inv, StartInv, turnVars, ProtocolStep
<1>33. CASE DeleteAnswered
  <2>1. /\ UNCHANGED turnVars /\ CancelAll /\ UNCHANGED starting
        /\ lifecycle' = "closing"
    BY <1>33 DEF DeleteAnswered, startVars
  <2>2. ApprovalInv' /\ ApprovalsBelongToTurn' /\ AnswersKept
    BY <2>1, CancelAllClears DEF Inv, ApprovalsBelongToTurn
  <2> QED BY <2>1, <2>2, TurnStutter DEF Inv, StartInv, turnVars, ProtocolStep
<1>34. CASE Shutdown
  <2>1. CASE lifecycle = "closed"
    <3>1. UNCHANGED <<lifecycle, starting>> /\ UNCHANGED turnVars /\ UNCHANGED approvalVars
      BY <1>34, <2>1 DEF Shutdown, startVars
    <3> QED BY <3>1, QuietPreserves DEF Inv, StartInv
  <2>2. CASE lifecycle = "active"
    <3>1. /\ UNCHANGED starting /\ lifecycle' = "closing"
          /\ EndTurnAndApprovals("failed")
      BY <1>34, <2>2 DEF Shutdown, startVars
    <3> QED BY <3>1, EndTurnAndApprovalsPreserves DEF Inv, StartInv, EndedStatuses
  <2>3. CASE lifecycle \notin {"active", "closed"}
    <3>1. /\ UNCHANGED turnVars /\ CancelAll /\ UNCHANGED starting
          /\ lifecycle' = "closing"
      BY <1>34, <2>3 DEF Shutdown, startVars
    <3>2. ApprovalInv' /\ ApprovalsBelongToTurn' /\ AnswersKept
      BY <3>1, CancelAllClears DEF Inv, ApprovalsBelongToTurn
    <3> QED BY <3>1, <3>2, TurnStutter DEF Inv, StartInv, turnVars, ProtocolStep
  <2> QED BY <2>1, <2>2, <2>3
<1>35. CASE HandleConnectionClosed
  <2>1. CASE lifecycle \in {"closing", "closed", "failed"}
    <3>1. UNCHANGED <<lifecycle, starting>> /\ UNCHANGED turnVars /\ UNCHANGED approvalVars
      BY <1>35, <2>1 DEF HandleConnectionClosed
    <3> QED BY <3>1, QuietPreserves DEF Inv, StartInv
  <2>2. CASE lifecycle \notin {"closing", "closed", "failed"}
    <3>1. lifecycle' = "failed" /\ UNCHANGED starting /\ EndTurnAndApprovals("failed")
      BY <1>35, <2>2 DEF HandleConnectionClosed
    <3> QED BY <3>1, EndTurnAndApprovalsPreserves DEF Inv, StartInv, EndedStatuses
  <2> QED BY <2>1, <2>2
<1>36. CASE HandleAttachmentClosed
  <2>1. CASE lifecycle \in {"closing", "closed", "failed"}
    <3>1. UNCHANGED <<lifecycle, starting>> /\ UNCHANGED turnVars /\ UNCHANGED approvalVars
      BY <1>36, <2>1 DEF HandleAttachmentClosed
    <3> QED BY <3>1, QuietPreserves DEF Inv, StartInv
  <2>2. CASE lifecycle \notin {"closing", "closed", "failed"}
    <3>1. lifecycle' = "failed" /\ UNCHANGED starting /\ EndTurnAndApprovals("failed")
      BY <1>36, <2>2 DEF HandleAttachmentClosed
    <3> QED BY <3>1, EndTurnAndApprovalsPreserves DEF Inv, StartInv, EndedStatuses
  <2> QED BY <2>1, <2>2
<1> QED
  BY <1>1, <1>2, <1>3, <1>4, <1>5, <1>6, <1>7, <1>8, <1>9, <1>10, <1>11, <1>12, <1>13,
     <1>14, <1>15, <1>16, <1>17, <1>18, <1>19, <1>20, <1>21, <1>22, <1>23, <1>24, <1>25,
     <1>26, <1>27, <1>28, <1>29, <1>30, <1>31, <1>32, <1>33, <1>34, <1>35, <1>36
  DEF Next, Host, Agent, Continuation

-----------------------------------------------------------------------------
(* The theorems. *)

LEMMA InitEstablishesInv == Init => Inv
<1> SUFFICES ASSUME Init PROVE Inv
  OBVIOUS
<1>1. EnvironmentTypeOK
  <2>1. /\ request \in [{"start", "config", "delete"} -> RequestStates]
        /\ promptRequest \in [Turns -> RequestStates]
    BY DEF Init, RequestStates
  <2>2. buffered \in Seq(UpdateKinds)
    BY DEF Init
  <2>3. attachment \in {"none", "waiting", "attached", "refused", "dropped"}
    BY DEF Init
  <2> QED BY <2>1, <2>2, <2>3 DEF Init, EnvironmentTypeOK
<1>2. TurnInv
  <2>1. turns = <<>> /\ activeOperation = NoTurn /\ prompting = "idle" /\ promptPending = FALSE
    BY DEF Init
  <2>2. turns \in Seq(EndedStatuses \union {"running"}) /\ Len(turns) = 0
    BY <2>1
  <2>3. TurnsFollowOperation
    BY <2>1, <2>2 DEF TurnsFollowOperation
  <2>4. nextOperationId \in 1..(MaxTurns + 1)
    BY BoundAssumption DEF Init
  <2> QED BY <2>1, <2>2, <2>3, <2>4 DEF TurnInv
<1>3. StartInv
  BY DEF Init, StartInv, Lifecycles
<1>4. ApprovalInv
  BY BoundAssumption DEF Init, ApprovalInv, RequestIdsMatchPending, Approvals
<1>5. ApprovalsBelongToTurn
  BY DEF Init, ApprovalsBelongToTurn
<1> QED BY <1>1, <1>2, <1>3, <1>4, <1>5 DEF Inv

LEMMA StepPreservesInv == Inv /\ [Next]_vars => Inv'
<1> SUFFICES ASSUME Inv, [Next]_vars PROVE Inv'
  OBVIOUS
<1>1. CASE Next
  BY <1>1, EnvironmentStep, ActorStep DEF Inv
<1>2. CASE UNCHANGED vars
  <2>1. UNCHANGED turnVars /\ UNCHANGED approvalVars
    BY <1>2 DEF vars
  <2>2. EnvironmentTypeOK'
    BY <1>2 DEF Inv, EnvironmentTypeOK, vars, startVars, closeVars, resourceVars, agentVars
  <2>3. StartInv'
    BY <1>2, <2>1 DEF Inv, StartInv, vars, startVars, turnVars
  <2> QED BY <2>1, <2>2, <2>3, QuietPreserves DEF Inv
<1> QED BY <1>1, <1>2

(* Inv holds in every reachable state. *)
THEOREM Invariance == Spec => []Inv
  BY InitEstablishesInv, StepPreservesInv, PTL DEF Spec

(* The actor never leaves its types. *)
THEOREM TypeCorrectness == Spec => []TypeOK
<1>1. Inv => TypeOK
  BY DEF Inv, EnvironmentTypeOK, TurnInv, StartInv, ApprovalInv, TypeOK
<1> QED BY <1>1, Invariance, PTL

(* The list of turns shown and the operation the actor accepts agree. *)
THEOREM TurnsAreConsistent == Spec => []TurnsFollowOperation
<1>1. Inv => TurnsFollowOperation
  BY DEF Inv, TurnInv
<1> QED BY <1>1, Invariance, PTL

(* A decision can only reach the agent inside the turn that asked for it. *)
THEOREM ApprovalsAreScoped == Spec => []ApprovalsBelongToTurn
<1>1. Inv => ApprovalsBelongToTurn
  BY DEF Inv
<1> QED BY <1>1, Invariance, PTL

(* Every pending approval answers a wire request of its own. *)
THEOREM RequestsAreTracked == Spec => []RequestIdsMatchPending
<1>1. Inv => RequestIdsMatchPending
  BY DEF Inv, ApprovalInv
<1> QED BY <1>1, Invariance, PTL

(* The agent is told at most once what became of a permission request. *)
THEOREM AnswersFinal == Spec => AnswersAreFinal
<1>1. Inv /\ [Next]_vars =>
        [\A a \in Approvals : answers[a] # "none" => answers'[a] = answers[a]]_vars
  BY ActorStep DEF AnswersKept
<1> QED BY <1>1, Invariance, PTL DEF Spec, AnswersAreFinal

(* The actor implements the turn protocol. *)
THEOREM Refinement == Spec => ImplementsTurnProtocol
<1>1. Init => Protocol!Init
  BY DEF Init, Protocol!Init
<1>2. Inv /\ [Next]_vars => [Protocol!Next]_turns
  <2>1. Inv /\ Next => [Protocol!Next]_turns
    BY ActorStep DEF ProtocolStep
  <2>2. UNCHANGED vars => UNCHANGED turns
    BY DEF vars, turnVars
  <2> QED BY <2>1, <2>2
<1> QED BY <1>1, <1>2, Invariance, PTL DEF Spec, ImplementsTurnProtocol, Protocol!Spec

-----------------------------------------------------------------------------
(* The actor beside the projection of what the Agent writes, as MCSession    *)
(* runs them.                                                                 *)
SessionInv == Inv /\ ProjectionInv /\ RestoreInv

LEMMA SessionInitInv == SessionInit => SessionInv
BY InitEstablishesInv, ProjectionInitInv, RestoreInit DEF SessionInit, SessionInv

LEMMA SessionStepInv ==
    ASSUME SessionInv, [SessionNext]_<<focus, vars, projectionVars>>
    PROVE  SessionInv'
<1>1. [Next]_vars /\ [ProjectionNext]_projectionVars
  BY DEF SessionNext, SessionStep, ProjectionStep
<1>2. Inv'
  BY <1>1, StepPreservesInv DEF SessionInv
<1>3. ProjectionInv'
  BY <1>1, ProjectionStepInv DEF SessionInv
<1>4. RestoreInv'
  BY <1>1, RestoreStep DEF SessionInv
<1> QED BY <1>2, <1>3, <1>4 DEF SessionInv

THEOREM SessionInvariance == SessionSpec => []SessionInv
<1>1. SessionInv /\ [SessionNext]_<<focus, vars, projectionVars>> => SessionInv'
  BY SessionStepInv
<1> QED BY <1>1, SessionInitInv, PTL DEF SessionSpec

(* The state of the actor and of the projection stays of its types. *)
THEOREM SessionTypeCorrect == SessionSpec => []SessionTypeOK
<1>1. SessionInv => SessionTypeOK
  BY ProjectionInvShows
     DEF SessionInv, SessionTypeOK, Inv, EnvironmentTypeOK, TurnInv, StartInv, ApprovalInv, TypeOK
<1> QED BY <1>1, SessionInvariance, PTL

(* Whatever the Agent writes in a turn, in whichever pieces, repetitions and  *)
(* order, and across restarts of the desktop, is shown once and in order.     *)
THEOREM WrittenTextShown == SessionSpec => []WrittenTextIsShown
<1>1. SessionInv => WrittenTextIsShown
  BY ProjectionInvShows DEF SessionInv
<1> QED BY <1>1, SessionInvariance, PTL

(* A replay of what a version 1 Agent has recorded restores the turns that    *)
(* were shown, as long as no update came without a turn and something tells   *)
(* the turns apart.                                                           *)
THEOREM ReplayRestores == SessionSpec => []ReplayRestoresTurns
<1>1. SessionInv => ReplayRestoresTurns
  BY RestoreInvShows DEF SessionInv
<1> QED BY <1>1, SessionInvariance, PTL
=============================================================================
