----------------------------- MODULE AcpSession -----------------------------
(***************************************************************************)
(* AcpSessionActor (electron/conversation/acp/session.ts) with its turn     *)
(* operations (operation.ts) and its permission coordinator                 *)
(* (permissions.ts): the state machine that owns one conversation with an   *)
(* external ACP agent.                                                      *)
(*                                                                          *)
(* The actor is single threaded: one action is what runs between two        *)
(* awaits. A coroutine suspended on a request continues in an action of its *)
(* own, so everything that may run while it is suspended is interleaved     *)
(* with it. The agent process, the connection to it and the attachment that *)
(* serves host tools to it are the environment. A message the agent sends   *)
(* is handled by the action that delivers it; the agent may delay it, so    *)
(* messages in flight need no channel.                                      *)
(***************************************************************************)
EXTENDS Integers, Sequences, FiniteSets

CONSTANTS
    Negotiable,    \* what a connection may negotiate: records of the wire
                   \* version, 1 or 2, and whether session/delete is advertised
    HasAttachment, \* the session serves host tools through an MCP attachment
    MaxTurns,      \* bound: prompts accepted in one session
    MaxApprovals,  \* bound: permission requests accepted in one session
    MaxBuffered,   \* bound: updates the agent sends before session/new returns
    Keys,          \* JSON-RPC ids the agent uses for permission requests
    NoKey          \* no such id

ASSUME NegotiableAssumption == Negotiable \subseteq [wire : {1, 2}, canDelete : BOOLEAN]
ASSUME AttachmentAssumption == HasAttachment \in BOOLEAN
ASSUME BoundAssumption == MaxTurns \in Nat /\ MaxApprovals \in Nat /\ MaxBuffered \in Nat
ASSUME KeyAssumption == NoKey \notin Keys

Turns == 1..MaxTurns
Approvals == 1..MaxApprovals
NoTurn == 0

VARIABLES
    negotiated,      \* the connection's initialization: a member of Negotiable
    lifecycle,       \* SessionLifecycle
    startKind,       \* which of session/new, session/load, session/resume was asked
    starting,        \* where createSession or restoreSession stands
    buffered,        \* bufferedUpdates, each "passive" or "output"
    restoreFailure,  \* restoreFailure is set
    replayed,        \* the replay collector holds at least one turn
    activeOperation, \* id of the active AcpTurnOperation, or NoTurn
    nextOperationId,
    promptPending,
    prompting,       \* where the accepted prompt call stands
    turns,           \* status of every turn as reduceConversationTurn leaves it
    pending,         \* approval ids in the coordinator's pending map
    requestKey,      \* the wire request behind an approval
    requestIds,      \* wire requests in the coordinator's requestIds set
    nextApproval,    \* the next fresh approval id
    raisedIn,        \* history: the operation an approval was raised in
    answers,         \* history: what the agent was told about an approval
    deleting,        \* where deleteSession stands
    shutdown,        \* where shutdownOnce stands
    connection,      \* the transport to the agent
    connectionNotice,\* connection.closed is settled and its handler has not run
    attachment,      \* the MCP attachment
    attachmentNotice,\* attachment.closed is settled and its handler has not run
    request,         \* the outstanding session-wide requests
    promptRequest,   \* the session/prompt request of every operation
    working          \* agent: the operations it still works on

startVars == <<startKind, starting, buffered, restoreFailure, replayed>>
turnVars == <<activeOperation, nextOperationId, promptPending, prompting, turns>>
approvalVars == <<pending, requestKey, requestIds, nextApproval, raisedIn, answers>>
closeVars == <<deleting, shutdown>>
resourceVars == <<connection, connectionNotice, attachment, attachmentNotice>>
agentVars == <<request, promptRequest, working>>
vars == <<negotiated, lifecycle, startVars, turnVars, approvalVars, closeVars, resourceVars, agentVars>>

Lifecycles == {"new", "creating", "restoring", "active", "failed", "closing", "closed"}
\* "failed" stands for runFailed with any failure code, cancelled included.
EndedStatuses == {"completed", "failed"}
RequestStates == {"idle", "waiting", "ok", "err", "settled"}

Wire == negotiated.wire
CanDelete == negotiated.canDelete

Init ==
    /\ negotiated \in Negotiable
    /\ lifecycle = "new"
    /\ startKind = "none" /\ starting = "idle" /\ buffered = <<>>
    /\ restoreFailure = FALSE /\ replayed = FALSE
    /\ activeOperation = NoTurn /\ nextOperationId = 1
    /\ promptPending = FALSE /\ prompting = "idle" /\ turns = <<>>
    /\ pending = {} /\ requestIds = {} /\ nextApproval = 1
    /\ requestKey = [a \in Approvals |-> NoKey]
    /\ raisedIn = [a \in Approvals |-> NoTurn]
    /\ answers = [a \in Approvals |-> "none"]
    /\ deleting = "idle" /\ shutdown = "idle"
    /\ connection = "open" /\ connectionNotice = FALSE
    /\ attachment = (IF HasAttachment THEN "waiting" ELSE "none")
    /\ attachmentNotice = FALSE
    /\ request = [r \in {"start", "config", "delete"} |-> "idle"]
    /\ promptRequest = [t \in Turns |-> "idle"]
    /\ working = {}

-----------------------------------------------------------------------------
(* The steps the handlers share. *)

(* emitKind: the event is reduced into the last turn, whatever its state. *)
Emit(status) ==
    turns' = IF turns = <<>> THEN turns ELSE [turns EXCEPT ![Len(turns)] = status]

(* Defect: requestIds is not cleared with the pending approvals. *)
CancelAllKeepingRequestIds ==
    /\ pending' = {}
    /\ answers' = [a \in Approvals |-> IF a \in pending THEN "cancelled" ELSE answers[a]]
    /\ UNCHANGED <<requestKey, requestIds, nextApproval, raisedIn>>

(* AcpPermissionCoordinator.cancelAll *)
CancelAll ==
    /\ pending' = {}
    /\ requestIds' = requestIds \ {requestKey[a] : a \in pending}
    /\ answers' = [a \in Approvals |-> IF a \in pending THEN "cancelled" ELSE answers[a]]
    /\ UNCHANGED <<requestKey, nextApproval, raisedIn>>

(* Defect: the answer of any operation ends the turn shown last. *)
FinishAnyOperation(op, status) ==
    /\ activeOperation' = NoTurn
    /\ Emit(status)
    /\ CancelAll
    /\ UNCHANGED <<nextOperationId, promptPending, prompting>>

(* Defect: a turn ends without cancelling its approvals. *)
FinishOperationKeepingApprovals(op, status) ==
    /\ IF activeOperation = op
       THEN activeOperation' = NoTurn /\ Emit(status)
       ELSE UNCHANGED <<activeOperation, turns>>
    /\ UNCHANGED <<nextOperationId, promptPending, prompting, approvalVars>>

(* finishOperation: only the active operation can be finished, and only once. *)
FinishOperation(op, status) ==
    IF activeOperation = op
    THEN /\ activeOperation' = NoTurn
         /\ Emit(status)
         /\ CancelAll
         /\ UNCHANGED <<nextOperationId, promptPending, prompting>>
    ELSE UNCHANGED <<turnVars, approvalVars>>

(* failActiveOperation, and the same test in cancel and shutdownOnce *)
EndActiveTurn(status) ==
    IF activeOperation # NoTurn
    THEN FinishOperation(activeOperation, status)
    ELSE UNCHANGED <<turnVars, approvalVars>>

(* EndActiveTurn together with an unconditional cancelAll *)
EndTurnAndApprovals(status) ==
    IF activeOperation # NoTurn
    THEN FinishOperation(activeOperation, status)
    ELSE CancelAll /\ UNCHANGED turnVars

Reject(requests) == [r \in DOMAIN requests |->
                        IF requests[r] = "waiting" THEN "err" ELSE requests[r]]

ClosedAttachment == CASE attachment = "waiting"  -> "refused"
                      [] attachment = "attached" -> "dropped"
                      [] OTHER -> attachment

(* A closed connection rejects every outstanding request, settles           *)
(* connection.closed and ends the agent process.                            *)
LoseConnection ==
    /\ connection' = "closed"
    /\ connectionNotice' = (connectionNotice \/ connection = "open")
    /\ promptRequest' = Reject(promptRequest)
    /\ working' = {}

LoseAttachment ==
    /\ attachment' = ClosedAttachment
    /\ attachmentNotice' = (attachmentNotice \/ attachment # ClosedAttachment)

(* closeResources closes both, once; later calls wait for the first. *)
CloseResources == LoseConnection /\ LoseAttachment

Ask(r) == request' = [request EXCEPT ![r] = IF connection = "open" THEN "waiting" ELSE "err"]

AttachmentReady == attachment \in {"none", "attached", "dropped"}

-----------------------------------------------------------------------------
(* createSession and restoreSession *)

CreateSession ==
    /\ lifecycle = "new"
    /\ lifecycle' = "creating"
    /\ startKind' = "create" /\ starting' = "requested"
    /\ Ask("start")
    /\ UNCHANGED <<negotiated, buffered, restoreFailure, replayed, turnVars, approvalVars,
                   closeVars, resourceVars, promptRequest, working>>

(* session/load needs wire version 1; otherwise the session is resumed. *)
RestoreSession(kind) ==
    /\ lifecycle = "new"
    /\ kind = "load" => Wire = 1
    /\ lifecycle' = "restoring"
    /\ startKind' = kind /\ starting' = "requested"
    /\ restoreFailure' = FALSE
    /\ Ask("start")
    /\ UNCHANGED <<negotiated, buffered, replayed, turnVars, approvalVars, closeVars,
                   resourceVars, promptRequest, working>>

(* The catch of both: the session fails whatever it has become meanwhile. *)
StartThrows ==
    /\ lifecycle' = "failed"
    /\ starting' = "threw"
    /\ CloseResources
    /\ request' = Reject(request)

(* The agent supports neither way of restoring. *)
RestoreUnsupported ==
    /\ lifecycle = "new"
    /\ startKind' = "resume"
    /\ restoreFailure' = FALSE
    /\ StartThrows
    /\ UNCHANGED <<negotiated, buffered, replayed, turnVars, approvalVars, closeVars>>

RestoreTimesOut ==
    /\ starting = "requested" /\ startKind # "create"
    /\ StartThrows
    /\ UNCHANGED <<negotiated, startKind, buffered, restoreFailure, replayed, turnVars,
                   approvalVars, closeVars>>

StartFails ==
    /\ starting = "requested"
    /\ \/ request["start"] = "err" \/ attachment = "refused"  \* Promise.all rejects
       \/ /\ request["start"] = "ok" /\ AttachmentReady
          /\ startKind # "create"
          /\ restoreFailure \/ (startKind = "load" /\ ~replayed)
    /\ StartThrows
    /\ UNCHANGED <<negotiated, startKind, buffered, restoreFailure, replayed, turnVars,
                   approvalVars, closeVars>>

(* createSession does not look at lifecycle again before it sets it. *)
CreateSucceeds ==
    /\ starting = "requested" /\ startKind = "create"
    /\ request["start"] = "ok" /\ AttachmentReady
    /\ lifecycle' = "active"
    /\ starting' = "draining"
    /\ UNCHANGED <<negotiated, startKind, buffered, restoreFailure, replayed, turnVars,
                   approvalVars, closeVars, resourceVars, agentVars>>

RestoreSucceeds ==
    /\ starting = "requested" /\ startKind # "create"
    /\ request["start"] = "ok" /\ AttachmentReady
    /\ ~restoreFailure
    /\ startKind = "load" => replayed
    /\ lifecycle' = "active"
    /\ starting' = "returned"
    /\ turns' = IF startKind = "load" THEN <<"completed">> ELSE turns
    /\ UNCHANGED <<negotiated, startKind, buffered, restoreFailure, replayed,
                   activeOperation, nextOperationId, promptPending, prompting, approvalVars,
                   closeVars, resourceVars, agentVars>>

(* The buffered updates go through handleSessionUpdate one at a time. No    *)
(* turn exists yet, so anything but a passive update makes creation throw.  *)
DrainBuffered ==
    /\ starting = "draining" /\ buffered # <<>>
    /\ buffered' = Tail(buffered)
    /\ IF lifecycle = "active" /\ Head(buffered) = "passive"
       THEN UNCHANGED <<lifecycle, starting, resourceVars, agentVars>>
       ELSE StartThrows
    /\ UNCHANGED <<negotiated, startKind, restoreFailure, replayed, turnVars, approvalVars,
                   closeVars>>

CreateReturns ==
    /\ starting = "draining" /\ buffered = <<>>
    /\ starting' = "returned"
    /\ UNCHANGED <<negotiated, lifecycle, startKind, buffered, restoreFailure, replayed,
                   turnVars, approvalVars, closeVars, resourceVars, agentVars>>

-----------------------------------------------------------------------------
(* prompt and dispatchPrompt. The host reaches the actor once it is started. *)

(* Defect: the new turn is never reported as started. *)
BeginTurnSilently ==
    /\ activeOperation' = nextOperationId
    /\ nextOperationId' = nextOperationId + 1
    /\ turns' = Append(turns, "sending")
    /\ promptPending' = TRUE /\ prompting' = "running"
    /\ promptRequest' = [promptRequest EXCEPT ![nextOperationId] =
                            IF connection = "open" THEN "waiting" ELSE "err"]
    /\ working' = working \union (IF connection = "open" THEN {nextOperationId} ELSE {})

BeginTurn ==
    /\ activeOperation' = nextOperationId
    /\ nextOperationId' = nextOperationId + 1
    /\ turns' = Append(turns, "running")
    /\ promptPending' = TRUE /\ prompting' = "running"
    /\ promptRequest' = [promptRequest EXCEPT ![nextOperationId] =
                            IF connection = "open" THEN "waiting" ELSE "err"]
    /\ working' = working \union (IF connection = "open" THEN {nextOperationId} ELSE {})

PromptAccepted ==
    /\ starting = "returned" /\ lifecycle = "active"
    /\ activeOperation = NoTurn /\ ~promptPending
    /\ nextOperationId \in Turns

Prompt ==
    /\ PromptAccepted
    /\ BeginTurn
    /\ UNCHANGED <<negotiated, lifecycle, startVars, approvalVars, closeVars, resourceVars,
                   request>>

(* A prompt with options applies the session configuration first. *)
PromptWithOptions ==
    /\ PromptAccepted
    /\ promptPending' = TRUE /\ prompting' = "configuring"
    /\ Ask("config")
    /\ UNCHANGED <<negotiated, lifecycle, startVars, activeOperation, nextOperationId,
                   turns, approvalVars, closeVars, resourceVars, promptRequest, working>>

ConfigurationApplied ==
    /\ prompting = "configuring" /\ request["config"] = "ok"
    /\ lifecycle = "active"
    /\ BeginTurn
    /\ request' = [request EXCEPT !["config"] = "idle"]
    /\ UNCHANGED <<negotiated, lifecycle, startVars, approvalVars, closeVars, resourceVars>>

ConfigurationFails ==
    /\ prompting = "configuring"
    /\ \/ request["config"] = "err"
       \/ request["config"] = "ok" /\ lifecycle # "active"
    /\ promptPending' = FALSE /\ prompting' = "idle"
    /\ request' = [request EXCEPT !["config"] = "idle"]
    /\ UNCHANGED <<negotiated, lifecycle, startVars, activeOperation, nextOperationId,
                   turns, approvalVars, closeVars, resourceVars, promptRequest, working>>

(* The continuation of "await operation.completed". *)
PromptReturns ==
    /\ prompting = "running" /\ activeOperation = NoTurn
    /\ promptPending' = FALSE /\ prompting' = "idle"
    /\ UNCHANGED <<negotiated, lifecycle, startVars, activeOperation, nextOperationId,
                   turns, approvalVars, closeVars, resourceVars, agentVars>>

(* Defect: a rejected session/prompt request is not caught. *)
DispatchContinuesOnSuccess(t) ==
    /\ promptRequest[t] \in {"ok", "err"}
    /\ promptRequest' = [promptRequest EXCEPT ![t] = "settled"]
    /\ IF promptRequest[t] = "ok" /\ Wire = 1
       THEN \E status \in EndedStatuses : FinishOperation(t, status)
       ELSE UNCHANGED <<turnVars, approvalVars>>
    /\ UNCHANGED <<negotiated, lifecycle, startVars, closeVars, resourceVars, request, working>>

(* dispatchPrompt after its request is answered: with wire version 1 the    *)
(* answer is the end of the turn, with wire version 2 only its acceptance.  *)
DispatchContinues(t) ==
    /\ promptRequest[t] \in {"ok", "err"}
    /\ promptRequest' = [promptRequest EXCEPT ![t] = "settled"]
    /\ IF promptRequest[t] = "err"
       THEN FinishOperation(t, "failed")
       ELSE IF Wire = 1
            THEN \E status \in EndedStatuses : FinishOperation(t, status)
            ELSE UNCHANGED <<turnVars, approvalVars>>
    /\ UNCHANGED <<negotiated, lifecycle, startVars, closeVars, resourceVars, request,
                   working>>

-----------------------------------------------------------------------------
(* handleSessionUpdate *)

Receiving == connection = "open"

\* A passive update, isPassiveUpdate in the code, belongs to no turn.
UpdateKinds == {"passive", "output"}

BufferUpdate(kind) ==
    /\ Receiving /\ lifecycle = "creating"
    /\ Len(buffered) < MaxBuffered
    /\ buffered' = Append(buffered, kind)
    /\ UNCHANGED <<negotiated, lifecycle, startKind, starting, restoreFailure, replayed,
                   turnVars, approvalVars, closeVars, resourceVars, agentVars>>

(* session/load replays the conversation; session/resume must not. *)
RestoringUpdate(kind) ==
    /\ Receiving /\ lifecycle = "restoring"
    /\ IF kind = "output" /\ startKind # "load"
       THEN restoreFailure' = TRUE
       ELSE UNCHANGED restoreFailure
    /\ replayed' = IF kind = "output" /\ startKind = "load" THEN TRUE ELSE replayed
    /\ UNCHANGED <<negotiated, lifecycle, startKind, starting, buffered, turnVars,
                   approvalVars, closeVars, resourceVars, agentVars>>

RestoringInvalidUpdate ==
    /\ Receiving /\ lifecycle = "restoring"
    /\ restoreFailure' = TRUE
    /\ UNCHANGED <<negotiated, lifecycle, startKind, starting, buffered, replayed, turnVars,
                   approvalVars, closeVars, resourceVars, agentVars>>

(* Defect: output is reported although no turn is active. *)
OutputUpdateAnytime ==
    /\ Receiving /\ lifecycle = "active" /\ working # {}
    /\ Emit("running")
    /\ UNCHANGED <<negotiated, lifecycle, startVars, activeOperation, nextOperationId,
                   promptPending, prompting, approvalVars, closeVars, resourceVars, agentVars>>

(* An update that projects to an output event. It needs an active turn, and  *)
(* is reported in the active one whichever turn the agent produced it for.   *)
OutputUpdate ==
    /\ Receiving /\ lifecycle = "active" /\ working # {}
    /\ IF activeOperation # NoTurn THEN Emit("running") ELSE UNCHANGED turns
    /\ UNCHANGED <<negotiated, lifecycle, startVars, activeOperation, nextOperationId,
                   promptPending, prompting, approvalVars, closeVars, resourceVars,
                   agentVars>>

(* An update or a permission request the actor rejects: wrong owner, wrong   *)
(* wire version, or content the projector refuses. It fails the active turn. *)
InvalidMessage ==
    /\ Receiving /\ lifecycle = "active"
    /\ EndActiveTurn("failed")
    /\ UNCHANGED <<negotiated, lifecycle, startVars, closeVars, resourceVars, agentVars>>

(* With wire version 2, state_update idle ends the turn that is active when  *)
(* it is handled; t is the one the agent has ended.                          *)
IdleUpdate(t) ==
    /\ Receiving /\ Wire = 2 /\ t \in working
    /\ promptRequest[t] \in {"ok", "settled"}
    /\ working' = working \ {t}
    /\ IF lifecycle = "active"
       THEN \E status \in EndedStatuses : EndActiveTurn(status)
       ELSE UNCHANGED <<turnVars, approvalVars>>
    /\ UNCHANGED <<negotiated, lifecycle, startVars, closeVars, resourceVars, request,
                   promptRequest>>

-----------------------------------------------------------------------------
(* Permissions *)

PermissionRequest(key) ==
    /\ Receiving /\ lifecycle = "active" /\ working # {}
    /\ activeOperation # NoTurn
    /\ IF key \in requestIds
       THEN EndActiveTurn("failed")
       ELSE /\ nextApproval \in Approvals
            /\ pending' = pending \union {nextApproval}
            /\ requestIds' = requestIds \union {key}
            /\ requestKey' = [requestKey EXCEPT ![nextApproval] = key]
            /\ raisedIn' = [raisedIn EXCEPT ![nextApproval] = activeOperation]
            /\ nextApproval' = nextApproval + 1
            /\ Emit("running")
            /\ UNCHANGED <<answers, activeOperation, nextOperationId, promptPending, prompting>>
    /\ UNCHANGED <<negotiated, lifecycle, startVars, closeVars, resourceVars, agentVars>>

(* Defect: a resolved approval stays in the pending map. *)
ResolveApprovalKeepingIt(approval) ==
    /\ lifecycle = "active"
    /\ approval \in pending
    /\ \E outcome \in {"selected", "cancelled"} :
          answers' = [answers EXCEPT ![approval] = outcome]
    /\ UNCHANGED <<negotiated, pending, requestIds, requestKey, nextApproval, raisedIn, lifecycle,
                   startVars, turnVars, closeVars, resourceVars, agentVars>>

ResolveApproval(approval) ==
    /\ lifecycle = "active"
    /\ approval \in pending
    /\ pending' = pending \ {approval}
    /\ requestIds' = requestIds \ {requestKey[approval]}
    /\ \E outcome \in {"selected", "cancelled"} :
          answers' = [answers EXCEPT ![approval] = outcome]
    /\ UNCHANGED <<negotiated, requestKey, nextApproval, raisedIn, lifecycle, startVars,
                   turnVars, closeVars, resourceVars, agentVars>>

-----------------------------------------------------------------------------
(* cancel, deleteSession, shutdown *)

Cancel ==
    /\ starting = "returned" /\ lifecycle = "active"
    /\ activeOperation # NoTurn
    /\ EndActiveTurn("failed")
    /\ UNCHANGED <<negotiated, lifecycle, startVars, closeVars, resourceVars, agentVars>>

DeleteSession ==
    /\ starting = "returned" /\ lifecycle = "active"
    /\ CanDelete
    /\ deleting = "idle"
    /\ EndActiveTurn("failed")
    /\ deleting' = "requested"
    /\ Ask("delete")
    /\ UNCHANGED <<negotiated, lifecycle, startVars, shutdown, resourceVars, promptRequest,
                   working>>

(* Whatever the agent answered, the session is closed. The turn is not       *)
(* looked at again: it was ended before the request was sent.                *)
DeleteAnswered ==
    /\ deleting = "requested" /\ request["delete"] \in {"ok", "err"}
    /\ deleting' = "closing"
    /\ lifecycle' = "closing"
    /\ CancelAll
    /\ CloseResources
    /\ request' = Reject(request)
    /\ UNCHANGED <<negotiated, startVars, turnVars, shutdown>>

DeleteReturns ==
    /\ deleting = "closing"
    /\ deleting' = "returned"
    /\ lifecycle' = "closed"
    /\ UNCHANGED <<negotiated, startVars, turnVars, approvalVars, shutdown, resourceVars,
                   agentVars>>

Shutdown ==
    /\ shutdown = "idle"
    /\ IF lifecycle = "closed"
       THEN /\ shutdown' = "returned"
            /\ UNCHANGED <<lifecycle, turnVars, approvalVars, resourceVars, agentVars>>
       ELSE /\ shutdown' = "closing"
            /\ lifecycle' = "closing"
            /\ IF lifecycle = "active"
               THEN EndTurnAndApprovals("failed")
               ELSE CancelAll /\ UNCHANGED turnVars
            /\ CloseResources
            /\ request' = Reject(request)
    /\ UNCHANGED <<negotiated, startVars, deleting>>

ShutdownReturns ==
    /\ shutdown = "closing"
    /\ shutdown' = "returned"
    /\ lifecycle' = "closed"
    /\ UNCHANGED <<negotiated, startVars, turnVars, approvalVars, deleting, resourceVars,
                   agentVars>>

-----------------------------------------------------------------------------
(* Connection and attachment *)

(* The agent exits or its transport breaks. *)
ConnectionCloses ==
    /\ connection = "open"
    /\ LoseConnection
    /\ request' = Reject(request)
    /\ UNCHANGED <<negotiated, lifecycle, startVars, turnVars, approvalVars, closeVars,
                   attachment, attachmentNotice>>

HandleConnectionClosed ==
    /\ connectionNotice
    /\ connectionNotice' = FALSE
    /\ IF lifecycle \in {"closing", "closed", "failed"}
       THEN UNCHANGED <<lifecycle, restoreFailure, turnVars, approvalVars, attachment,
                        attachmentNotice>>
       ELSE /\ lifecycle' = "failed"
            /\ restoreFailure' = TRUE
            /\ EndTurnAndApprovals("failed")
            /\ LoseAttachment
    /\ UNCHANGED <<negotiated, startKind, starting, buffered, replayed, closeVars,
                   connection, agentVars>>

AttachmentConnects ==
    /\ attachment = "waiting"
    /\ attachment' = "attached"
    /\ UNCHANGED <<negotiated, lifecycle, startVars, turnVars, approvalVars, closeVars,
                   connection, connectionNotice, attachmentNotice, agentVars>>

AttachmentCloses ==
    /\ attachment # ClosedAttachment
    /\ LoseAttachment
    /\ UNCHANGED <<negotiated, lifecycle, startVars, turnVars, approvalVars, closeVars,
                   connection, connectionNotice, agentVars>>

HandleAttachmentClosed ==
    /\ attachmentNotice
    /\ attachmentNotice' = FALSE
    /\ IF lifecycle \in {"closing", "closed", "failed"}
       THEN UNCHANGED <<lifecycle, restoreFailure, turnVars, approvalVars, connection,
                        connectionNotice, agentVars>>
       ELSE /\ lifecycle' = "failed"
            /\ restoreFailure' = TRUE
            /\ EndTurnAndApprovals("failed")
            /\ LoseConnection
            /\ request' = Reject(request)
    /\ UNCHANGED <<negotiated, startKind, starting, buffered, replayed, closeVars,
                   attachment>>

-----------------------------------------------------------------------------
(* The agent answers requests *)

AgentAnswers(r) ==
    /\ Receiving /\ request[r] = "waiting"
    /\ \E reply \in {"ok", "err"} : request' = [request EXCEPT ![r] = reply]
    /\ UNCHANGED <<negotiated, lifecycle, startVars, turnVars, approvalVars, closeVars,
                   resourceVars, promptRequest, working>>

AgentAnswersPrompt(t) ==
    /\ Receiving /\ promptRequest[t] = "waiting"
    /\ \E reply \in {"ok", "err"} :
          /\ promptRequest' = [promptRequest EXCEPT ![t] = reply]
          /\ working' = IF Wire = 2 /\ reply = "ok" THEN working ELSE working \ {t}
    /\ UNCHANGED <<negotiated, lifecycle, startVars, turnVars, approvalVars, closeVars,
                   resourceVars, request>>

-----------------------------------------------------------------------------
Host ==
    \/ CreateSession \/ \E kind \in {"load", "resume"} : RestoreSession(kind)
    \/ RestoreUnsupported
    \/ Prompt \/ PromptWithOptions \/ Cancel \/ DeleteSession \/ Shutdown
    \/ \E a \in Approvals : ResolveApproval(a)

Agent ==
    \/ \E r \in {"start", "config", "delete"} : AgentAnswers(r)
    \/ \E t \in Turns : AgentAnswersPrompt(t) \/ IdleUpdate(t)
    \/ \E kind \in UpdateKinds : BufferUpdate(kind) \/ RestoringUpdate(kind)
    \/ RestoringInvalidUpdate
    \/ OutputUpdate \/ InvalidMessage
    \/ \E key \in Keys : PermissionRequest(key)
    \/ ConnectionCloses \/ AttachmentConnects \/ AttachmentCloses

Continuation ==
    \/ StartFails \/ RestoreTimesOut \/ CreateSucceeds \/ RestoreSucceeds
    \/ DrainBuffered \/ CreateReturns
    \/ ConfigurationApplied \/ ConfigurationFails \/ PromptReturns
    \/ \E t \in Turns : DispatchContinues(t)
    \/ DeleteAnswered \/ DeleteReturns \/ ShutdownReturns
    \/ HandleConnectionClosed \/ HandleAttachmentClosed

Next == Host \/ Agent \/ Continuation

(* The event loop runs every continuation that is ready. An agent that stays *)
(* connected answers every request and, with wire version 2, reports the end *)
(* of every turn it accepted; the host tools attachment connects or times    *)
(* out. Nothing makes the host call, or the agent produce output.            *)
Fairness ==
    /\ WF_vars(StartFails) /\ WF_vars(RestoreTimesOut) /\ WF_vars(CreateSucceeds)
    /\ WF_vars(RestoreSucceeds) /\ WF_vars(DrainBuffered) /\ WF_vars(CreateReturns)
    /\ WF_vars(ConfigurationApplied) /\ WF_vars(ConfigurationFails) /\ WF_vars(PromptReturns)
    /\ \A t \in Turns : WF_vars(DispatchContinues(t))
    /\ WF_vars(DeleteAnswered) /\ WF_vars(DeleteReturns) /\ WF_vars(ShutdownReturns)
    /\ WF_vars(HandleConnectionClosed) /\ WF_vars(HandleAttachmentClosed)
    /\ \A r \in {"start", "config", "delete"} : WF_vars(AgentAnswers(r))
    /\ \A t \in Turns : WF_vars(AgentAnswersPrompt(t)) /\ WF_vars(IdleUpdate(t))
    /\ WF_vars(AttachmentConnects \/ AttachmentCloses)

Spec == Init /\ [][Next]_vars
FairSpec == Spec /\ Fairness

-----------------------------------------------------------------------------
(* Correctness *)

TypeOK ==
    /\ negotiated \in Negotiable
    /\ lifecycle \in Lifecycles
    /\ startKind \in {"none", "create", "load", "resume"}
    /\ starting \in {"idle", "requested", "draining", "returned", "threw"}
    /\ buffered \in Seq(UpdateKinds)
    /\ restoreFailure \in BOOLEAN /\ replayed \in BOOLEAN
    /\ activeOperation \in Turns \union {NoTurn}
    /\ nextOperationId \in 1..(MaxTurns + 1)
    /\ promptPending \in BOOLEAN
    /\ prompting \in {"idle", "configuring", "running"}
    /\ turns \in Seq(EndedStatuses \union {"running"})
    /\ pending \subseteq Approvals
    /\ requestKey \in [Approvals -> Keys \union {NoKey}]
    /\ requestIds \subseteq Keys
    /\ nextApproval \in 1..(MaxApprovals + 1)
    /\ raisedIn \in [Approvals -> Turns \union {NoTurn}]
    /\ answers \in [Approvals -> {"none", "selected", "cancelled"}]
    /\ deleting \in {"idle", "requested", "closing", "returned"}
    /\ shutdown \in {"idle", "closing", "returned"}
    /\ connection \in {"open", "closed"}
    /\ attachment \in {"none", "waiting", "attached", "refused", "dropped"}
    /\ connectionNotice \in BOOLEAN /\ attachmentNotice \in BOOLEAN
    /\ request \in [{"start", "config", "delete"} -> RequestStates]
    /\ promptRequest \in [Turns -> RequestStates]
    /\ working \subseteq Turns

(* The list of turns, which the host shows, and activeOperation, which       *)
(* decides what the actor accepts, agree: the last turn is running exactly   *)
(* while an operation is active, and every earlier turn has ended.           *)
TurnsFollowOperation ==
    /\ \A i \in 1..(Len(turns) - 1) : turns[i] \in EndedStatuses
    /\ Len(turns) > 0 => (turns[Len(turns)] = "running" <=> activeOperation # NoTurn)
    /\ activeOperation # NoTurn => Len(turns) > 0

(* A permission waits for a decision only inside the turn that raised it:    *)
(* once that turn has ended in any way, or another has begun, no decision    *)
(* of the user can reach the agent.                                          *)
ApprovalsBelongToTurn ==
    \A a \in pending : activeOperation # NoTurn /\ raisedIn[a] = activeOperation

(* requestIds is the set of wire requests of the pending approvals, and no   *)
(* two of them answer the same wire request.                                 *)
RequestIdsMatchPending ==
    /\ requestIds = {requestKey[a] : a \in pending}
    /\ \A a, b \in pending : requestKey[a] = requestKey[b] => a = b

(* The agent gets at most one answer to a permission request. *)
AnswersAreFinal ==
    [][\A a \in Approvals : answers[a] # "none" => answers'[a] = answers[a]]_vars

(* Every turn that begins ends. *)
TurnsEnd == \A t \in Turns : (activeOperation = t) ~> (activeOperation # t)

(* Every permission request is answered. *)
ApprovalsAnswered == \A a \in Approvals : (a \in pending) ~> (answers[a] # "none")

(* With wire version 2 the end of a turn the agent reports ends that turn,   *)
(* and no other.                                                             *)
StaleIdleIgnored ==
    [][\A t \in Turns : (IdleUpdate(t) /\ activeOperation # t) => UNCHANGED turns]_vars

Protocol == INSTANCE TurnProtocol
(* The actor implements the turn protocol: no event revives an ended turn,    *)
(* and no turn begins before the previous one has ended.                     *)
ImplementsTurnProtocol == Protocol!Spec
=============================================================================
