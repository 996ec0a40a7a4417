------------------------- MODULE ConversationService -------------------------
(***************************************************************************)
(* RuntimeConversationService (electron/conversation/service.ts) over the   *)
(* ACP runtime (acp/runtime.ts) and the rows of the conversation catalog    *)
(* (catalog.ts): the calls that create, restore, relocate, prompt and       *)
(* remove conversations while others of the same conversation run.          *)
(*                                                                          *)
(* A call is a coroutine: one action is what it runs between two awaits.    *)
(* Calls share a promise by the number of the call that made it. An actor   *)
(* is the agent process and session a call has started; what it does is the *)
(* subject of AcpSession, here it starts, runs, is shut down, or fails by   *)
(* itself, of which the service is not told.                                *)
(***************************************************************************)
EXTENDS Integers, Sequences, FiniteSets, SequenceFilters

CONSTANTS
    Conversations,  \* conversation ids
    Existing,       \* those that may have a row when the service starts
    Workspaces,     \* canonical working directories
    Keys,           \* idempotency keys of creations
    MaxCalls,       \* bound: calls made to the service
    NoConversation, \* a call that has none
    NoWorkspace,    \* no row: the conversation is not cataloged
    NoKey           \* the key of a row created before

ASSUME NoneAssumption ==
    NoConversation \notin Conversations /\ NoWorkspace \notin Workspaces /\ NoKey \notin Keys
ASSUME ExistingAssumption == Existing \subseteq Conversations
ASSUME BoundAssumption == MaxCalls \in Nat

Calls == 1..MaxCalls
None == 0

VARIABLES
    workspace,           \* catalog: the workspace of the row's binding
    idempotencyKey,      \* catalog: the key of the row
    restoreFailed,       \* catalog: rows with a last restore failure
    contexts,            \* catalog: the turn contexts, by the call that wrote them
    activeHandles,       \* service: the call whose actor a conversation is active on
    pendingCreations,    \* service: the creation of a key
    pendingRestores,     \* service: the restore or relocation of a conversation
    service,             \* where shutdown stands
    awaited,             \* calls shutdown waits for
    sessions,            \* runtime: the call whose actor is registered
    opening,             \* runtime: its pendingCreations
    listeners,           \* runtime: listeners of a conversation
    configuredToolScopes,\* runtime: conversations with host tools configured
    actor,               \* the agent process and session of a call
    turns,               \* agent: the calls whose prompt it accepted
    operation,           \* what a call asks
    conversation,        \* its conversation
    target,              \* the workspace of the binding it opens
    key,                 \* the idempotency key it creates under
    stage,               \* where the call stands
    peer,                \* the call it waits for, or whose actor it acts on
    outcome,             \* how the promise of the call has settled
    ticket,              \* the order in which restores and relocations were registered, 0
                         \* for a call that registered none
    nextTicket,
    removed,             \* history: conversations whose row was deleted
    orphans              \* history: calls whose refused prompt left its turn context

catalogVars == <<workspace, idempotencyKey, restoreFailed, contexts, removed, orphans>>
mapVars == <<activeHandles, pendingCreations, pendingRestores>>
shutdownVars == <<service, awaited>>
runtimeVars == <<sessions, opening, listeners, configuredToolScopes>>
agentVars == <<actor, turns>>
requestVars == <<operation, conversation, target, key>>
stageVars == <<stage, peer, outcome>>
ticketVars == <<ticket, nextTicket>>
vars == <<catalogVars, mapVars, shutdownVars, runtimeVars, agentVars, requestVars, stageVars, ticketVars>>

Operations == {"none", "create", "restore", "send", "relocate", "remove"}
Stages == {"idle", "canonical", "previous", "joined", "resolve", "opening", "cleanup", "closing",
           "closingDeleted", "closingUndeleted", "awaiting", "deleting", "deletingInactive",
           "activated", "prompting", "done"}

Cataloged(c) == workspace[c] # NoWorkspace
CatalogOpen == service # "closed"
RuntimeDown == service \in {"runtime", "closed"}
Settled(i) == IF i = None THEN TRUE ELSE outcome[i] # "none"
(* A conversation id is a fresh UUID. *)
Unused(c) == ~Cataloged(c) /\ c \notin removed /\ \A i \in Calls : conversation[i] # c

Init ==
    /\ workspace \in [Conversations -> Workspaces \cup {NoWorkspace}]
    /\ \A c \in Conversations : Cataloged(c) => c \in Existing
    /\ idempotencyKey = [c \in Conversations |-> NoKey]
    /\ restoreFailed = {} /\ removed = {} /\ orphans = {}
    /\ contexts = [c \in Conversations |-> <<>>]
    /\ activeHandles = [c \in Conversations |-> None]
    /\ pendingCreations = [k \in Keys |-> None]
    /\ pendingRestores = [c \in Conversations |-> None]
    /\ service = "active" /\ awaited = {}
    /\ sessions = [c \in Conversations |-> None]
    /\ opening = [c \in Conversations |-> None]
    /\ listeners = [c \in Conversations |-> "none"]
    /\ configuredToolScopes = {}
    /\ actor = [i \in Calls |-> "none"]
    /\ turns = [c \in Conversations |-> <<>>]
    /\ operation = [i \in Calls |-> "none"]
    /\ conversation = [i \in Calls |-> NoConversation]
    /\ target = [i \in Calls |-> NoWorkspace]
    /\ key = [i \in Calls |-> NoKey]
    /\ stage = [i \in Calls |-> "idle"]
    /\ peer = [i \in Calls |-> None]
    /\ outcome = [i \in Calls |-> "none"]
    /\ ticket = [i \in Calls |-> 0] /\ nextTicket = 1

-----------------------------------------------------------------------------
(* The steps the operations share. *)

Without(map, i) == [x \in DOMAIN map |-> IF map[x] = i THEN None ELSE map[x]]

(* Defect: the stage is recorded as the outcome. *)
SettleAsDone(i, op, s) ==
    /\ outcome' = [outcome EXCEPT ![i] = "done"]
    /\ stage' = [stage EXCEPT ![i] = "done"]
    /\ pendingCreations' = Without(pendingCreations, i)
    /\ pendingRestores' = Without(pendingRestores, i)

(* The promise of the call settles: the maps that hold it let go of it, and *)
(* a send goes on to its prompt.                                            *)
Settle(i, op, s) ==
    /\ outcome' = [outcome EXCEPT ![i] = s]
    /\ stage' = [stage EXCEPT ![i] = IF s = "ok" /\ op = "send" THEN "activated" ELSE "done"]
    /\ pendingCreations' = Without(pendingCreations, i)
    /\ pendingRestores' = Without(pendingRestores, i)

Go(i, s) == stage' = [stage EXCEPT ![i] = s]

Register(i, c) ==
    /\ pendingRestores' = [pendingRestores EXCEPT ![c] = i]
    /\ ticket' = [ticket EXCEPT ![i] = nextTicket]
    /\ nextTicket' = nextTicket + 1

(* Calls are numbered in the order they are made; assertActive. *)
Begins(i, op) ==
    /\ service = "active"
    /\ operation[i] = "none"
    /\ \A j \in 1..(i - 1) : operation[j] # "none"
    /\ operation' = [operation EXCEPT ![i] = op]

Request(i, c, w, k) ==
    /\ conversation' = [conversation EXCEPT ![i] = c]
    /\ target' = [target EXCEPT ![i] = w]
    /\ key' = [key EXCEPT ![i] = k]

(* activateRecord: the handle of an active conversation, the restore or     *)
(* relocation under way, or a restore of its own.                           *)
Activate(i, op, c, creations) ==
    \/ /\ activeHandles[c] # None
       /\ Settle(i, op, "ok")
       /\ UNCHANGED <<peer, ticketVars>>
    \/ /\ activeHandles[c] = None /\ pendingRestores[c] # None
       /\ Go(i, "joined")
       /\ peer' = [peer EXCEPT ![i] = pendingRestores[c]]
       /\ pendingCreations' = creations
       /\ UNCHANGED <<pendingRestores, outcome, ticketVars>>
    \/ /\ activeHandles[c] = None /\ pendingRestores[c] = None
       /\ Go(i, "resolve")
       /\ Register(i, c)
       /\ pendingCreations' = creations
       /\ UNCHANGED <<peer, outcome>>

-----------------------------------------------------------------------------
(* Calls that open a conversation. *)

InRuntime == <<catalogVars, activeHandles, shutdownVars, runtimeVars, agentVars>>

(* Defect: a creation under way under the same key is not looked up. *)
CreateUncoalesced(i, k, w) ==
    /\ Begins(i, "create")
    /\ \E c \in Conversations :
         /\ Request(i, c, w, k)
         /\ Unused(c) /\ \A d \in Conversations : Cataloged(d) => idempotencyKey[d] # k
         /\ Go(i, "resolve")
         /\ pendingCreations' = [pendingCreations EXCEPT ![k] = i]
    /\ UNCHANGED <<InRuntime, pendingRestores, peer, outcome, ticketVars>>

(* createConversation and createConversationOnce up to the first await *)
CreateConversation(i, k, w) ==
    /\ Begins(i, "create")
    /\ \E c \in Conversations :
         /\ Request(i, c, w, k)
         /\ \/ LET j == pendingCreations[k] IN
               /\ j # None /\ c = conversation[j]
               /\ IF target[j] = w
                  THEN /\ Go(i, "joined")
                       /\ peer' = [peer EXCEPT ![i] = j]
                       /\ UNCHANGED <<pendingCreations, pendingRestores, outcome>>
                  ELSE /\ Settle(i, "create", "failed")
                       /\ UNCHANGED peer
               /\ UNCHANGED ticketVars
            \/ /\ pendingCreations[k] = None
               /\ Cataloged(c) /\ idempotencyKey[c] = k
               /\ IF workspace[c] = w
                  THEN Activate(i, "create", c, [pendingCreations EXCEPT ![k] = i])
                  ELSE /\ Settle(i, "create", "failed")
                       /\ UNCHANGED <<peer, ticketVars>>
            \/ /\ pendingCreations[k] = None
               /\ \A d \in Conversations : Cataloged(d) => idempotencyKey[d] # k
               /\ Unused(c)
               /\ Go(i, "resolve")
               /\ pendingCreations' = [pendingCreations EXCEPT ![k] = i]
               /\ UNCHANGED <<pendingRestores, peer, outcome, ticketVars>>
    /\ UNCHANGED InRuntime

(* restoreConversation; sendMessage and loadConversationHistory activate    *)
(* the conversation the same way.                                           *)
ActivateConversation(i, op, c) ==
    /\ Begins(i, op)
    /\ Request(i, c, workspace[c], NoKey)
    /\ IF Cataloged(c)
       THEN Activate(i, op, c, pendingCreations)
       ELSE Settle(i, "restore", "failed") /\ UNCHANGED <<peer, ticketVars>>
    /\ UNCHANGED InRuntime

RestoreConversation(i, c) == ActivateConversation(i, "restore", c)
SendMessage(i, c) == ActivateConversation(i, "send", c)

(* relocateConversationWorkspace up to its await for the directory *)
RelocateConversation(i, c, w) ==
    /\ Begins(i, "relocate")
    /\ Request(i, c, w, NoKey)
    /\ Go(i, "canonical")
    /\ UNCHANGED <<InRuntime, pendingCreations, pendingRestores, peer, outcome, ticketVars>>

(* Defect: the restore to wait for is read before the directory is checked. *)
RegisterUnchained(i) ==
    LET c == conversation[i] IN
    /\ stage[i] = "canonical"
    /\ \/ /\ Register(i, c)
          /\ Go(i, "previous")
          /\ UNCHANGED <<pendingCreations, peer, outcome>>
       \/ /\ Settle(i, "relocate", "failed")
          /\ UNCHANGED <<peer, ticketVars>>
    /\ UNCHANGED <<InRuntime, requestVars>>

(* Defect: the relocation registers itself before it reads what to wait for.*)
RegisterBehindItself(i) ==
    /\ stage[i] = "canonical"
    /\ peer' = [peer EXCEPT ![i] = i]
    /\ Register(i, conversation[i])
    /\ Go(i, "previous")
    /\ UNCHANGED <<InRuntime, requestVars, pendingCreations, outcome>>

(* The directory is there and the relocation chains itself behind the       *)
(* restore or relocation under way, or the directory is not available.      *)
RegisterRelocation(i) ==
    LET c == conversation[i] IN
    /\ stage[i] = "canonical"
    /\ \/ /\ peer' = [peer EXCEPT ![i] = pendingRestores[c]]
          /\ Register(i, c)
          /\ Go(i, "previous")
          /\ UNCHANGED <<pendingCreations, outcome>>
       \/ /\ Settle(i, "relocate", "failed")
          /\ UNCHANGED <<peer, ticketVars>>
    /\ UNCHANGED <<InRuntime, requestVars>>

(* Defect: an active conversation is relocated. *)
BeginAnyRelocation(i) ==
    /\ operation[i] = "relocate" /\ stage[i] = "previous" /\ Settled(peer[i])
    /\ Go(i, "resolve")
    /\ UNCHANGED <<InRuntime, requestVars, pendingCreations, pendingRestores, outcome, peer, ticketVars>>

(* The relocation's turn: only a cataloged conversation that is not active  *)
(* moves.                                                                   *)
BeginRelocation(i) ==
    LET c == conversation[i] IN
    /\ operation[i] = "relocate" /\ stage[i] = "previous" /\ Settled(peer[i])
    /\ IF activeHandles[c] = None /\ Cataloged(c) /\ CatalogOpen
       THEN /\ Go(i, "resolve")
            /\ UNCHANGED <<pendingCreations, pendingRestores, outcome>>
       ELSE Settle(i, "relocate", "failed")
    /\ UNCHANGED <<InRuntime, requestVars, peer, ticketVars>>

(* A call that joined a promise gets its outcome. *)
Joined(i) ==
    /\ stage[i] = "joined" /\ Settled(peer[i])
    /\ Settle(i, operation[i], outcome[peer[i]])
    /\ UNCHANGED <<InRuntime, requestVars, peer, ticketVars>>

(* configureHostTools *)
MayConfigure(c) == ~RuntimeDown /\ sessions[c] = None /\ opening[c] = None

(* The runtime begins to create or to restore the session. *)
BeginOpening(i, c) ==
    /\ opening' = [opening EXCEPT ![c] = i]
    /\ listeners' = [listeners EXCEPT ![c] = "empty"]
    /\ configuredToolScopes' = configuredToolScopes \cup {c}
    /\ actor' = [actor EXCEPT ![i] = "starting"]

(* hostTools.resolve settles. The tools are configured and the runtime      *)
(* begins to open the session, or one of the steps throws.                  *)
HostToolsResolved(i) ==
    LET c == conversation[i] IN
    /\ stage[i] = "resolve"
    /\ \/ /\ MayConfigure(c)
          /\ BeginOpening(i, c)
          /\ Go(i, "opening")
       \/ /\ Go(i, "cleanup")
          /\ \/ UNCHANGED configuredToolScopes
             \/ MayConfigure(c) /\ configuredToolScopes' = configuredToolScopes \cup {c}
          /\ UNCHANGED <<opening, listeners, actor>>
    /\ UNCHANGED <<catalogVars, mapVars, shutdownVars, sessions, turns, requestVars, peer, outcome,
                   ticketVars>>

(* What a call opens: a new conversation, or one that is cataloged; a       *)
(* creation that found the row of its key restores it.                      *)
IsCreation(i) == operation[i] = "create" /\ ticket[i] = 0
IsRestore(i) == operation[i] # "relocate" /\ ticket[i] # 0

(* The service remembers the handle and subscribes to the events. *)
Remember(i, c) ==
    /\ activeHandles' = [activeHandles EXCEPT ![c] = i]
    /\ listeners' = [listeners EXCEPT ![c] = "service"]

(* Defect: a relocation inserts the row when it is gone. *)
CatalogUpserted(i, c) ==
    /\ CatalogOpen
    /\ workspace' = [workspace EXCEPT ![c] = target[i]]
    /\ restoreFailed' = restoreFailed \ {c}
    /\ UNCHANGED <<contexts, removed, orphans, idempotencyKey>>

(* catalog.create, catalog.relocateWorkspace or catalog.clearRestoreFailure *)
CatalogOpened(i, c) ==
    /\ CatalogOpen
    /\ IF IsCreation(i)
       THEN /\ \A d \in Conversations : Cataloged(d) => idempotencyKey[d] # key[i]
            /\ ~Cataloged(c)
            /\ idempotencyKey' = [idempotencyKey EXCEPT ![c] = key[i]]
       ELSE Cataloged(c) /\ UNCHANGED idempotencyKey
    /\ workspace' = IF operation[i] \in {"create", "relocate"}
                    THEN [workspace EXCEPT ![c] = target[i]] ELSE workspace
    /\ restoreFailed' = restoreFailed \ {c}
    /\ UNCHANGED <<contexts, removed, orphans>>

(* The runtime registers the actor whose session the agent has opened. *)
RegisterSession(i, c) ==
    /\ actor' = [actor EXCEPT ![i] = "running"]
    /\ sessions' = [sessions EXCEPT ![c] = i]
    /\ opening' = [opening EXCEPT ![c] = None]

(* Defect: the session stays when the catalog could not be written. *)
SessionKept(i) ==
    LET c == conversation[i] IN
    /\ stage[i] = "opening" /\ ~RuntimeDown
    /\ RegisterSession(i, c)
    /\ Settle(i, operation[i], "failed")
    /\ UNCHANGED <<catalogVars, activeHandles, listeners, shutdownVars, configuredToolScopes, turns,
                   requestVars, peer, ticketVars>>

(* The agent has created or restored the session. The runtime registers it  *)
(* and the service writes the catalog and remembers the handle; when the    *)
(* write fails the session is closed again.                                 *)
SessionOpened(i) ==
    LET c == conversation[i] IN
    /\ stage[i] = "opening" /\ ~RuntimeDown
    /\ RegisterSession(i, c)
    /\ \/ /\ CatalogOpened(i, c)
          /\ Remember(i, c)
          /\ Settle(i, operation[i], "ok")
       \/ /\ Go(i, "cleanup")
          /\ UNCHANGED <<catalogVars, mapVars, listeners, outcome>>
    /\ UNCHANGED <<shutdownVars, configuredToolScopes, turns, requestVars, peer, ticketVars>>

(* The agent failed to, or the runtime is shutting down: the runtime has    *)
(* taken down the actor, the listeners and the tool scope.                  *)
SessionNotOpened(i) ==
    LET c == conversation[i] IN
    /\ stage[i] = "opening"
    /\ actor' = [actor EXCEPT ![i] = "closed"]
    /\ opening' = [opening EXCEPT ![c] = None]
    /\ listeners' = [listeners EXCEPT ![c] = "none"]
    /\ configuredToolScopes' = configuredToolScopes \ {c}
    /\ Go(i, "cleanup")
    /\ UNCHANGED <<catalogVars, mapVars, shutdownVars, sessions, turns, requestVars, peer, outcome,
                   ticketVars>>

(* cleanupFailedRestore and closeAfterFailure, once the session is closed *)
FailOpening(i) ==
    LET c == conversation[i] IN
    /\ Settle(i, operation[i], "failed")
    /\ restoreFailed' = IF IsRestore(i) /\ Cataloged(c) /\ CatalogOpen
                        THEN restoreFailed \cup {c} ELSE restoreFailed
    /\ UNCHANGED <<workspace, idempotencyKey, contexts, removed, orphans>>

(* closeConversationResources up to the actor's shutdown *)
TakeSession(i, c, s) ==
    /\ peer' = [peer EXCEPT ![i] = sessions[c]]
    /\ actor' = [actor EXCEPT ![sessions[c]] = "closing"]
    /\ sessions' = [sessions EXCEPT ![c] = None]
    /\ listeners' = [listeners EXCEPT ![c] = "none"]
    /\ Go(i, s)

(* runtime.closeConversation after a failure: it throws once the runtime is *)
(* shut down, has nothing but the tool scope to remove when the session was *)
(* not registered, and otherwise waits for the actor to shut down.          *)
CleanUp(i) ==
    LET c == conversation[i] IN
    /\ stage[i] = "cleanup"
    /\ \/ /\ RuntimeDown
          /\ FailOpening(i)
          /\ UNCHANGED <<runtimeVars, actor, peer>>
       \/ /\ ~RuntimeDown /\ opening[c] = None /\ sessions[c] = None
          /\ FailOpening(i)
          /\ listeners' = [listeners EXCEPT ![c] = "none"]
          /\ configuredToolScopes' = configuredToolScopes \ {c}
          /\ UNCHANGED <<sessions, opening, actor, peer>>
       \/ /\ ~RuntimeDown /\ opening[c] = None /\ sessions[c] # None
          /\ TakeSession(i, c, "closing")
          /\ UNCHANGED <<catalogVars, opening, configuredToolScopes, pendingCreations,
                         pendingRestores, outcome>>
    /\ UNCHANGED <<activeHandles, shutdownVars, turns, requestVars, ticketVars>>

(* The actor is shut down and the failure reaches the caller. *)
CleanedUp(i) ==
    LET c == conversation[i] IN
    /\ stage[i] = "closing"
    /\ actor' = [actor EXCEPT ![peer[i]] = "closed"]
    /\ configuredToolScopes' = configuredToolScopes \ {c}
    /\ FailOpening(i)
    /\ UNCHANGED <<activeHandles, shutdownVars, sessions, opening, listeners, turns, requestVars,
                   peer, ticketVars>>

-----------------------------------------------------------------------------
(* Prompts. *)

Accepting(c) == sessions[c] # None /\ actor[sessions[c]] = "running"

(* sendMessage with the conversation active: the turn context is written,   *)
(* and the runtime refuses the prompt at once when there is no session that *)
(* runs or another prompt is on its way.  The context is deleted then,      *)
(* unless the deletion fails.                                               *)
Prompt(i) ==
    LET c == conversation[i] IN
    /\ stage[i] = "activated"
    /\ IF /\ Cataloged(c) /\ CatalogOpen /\ ~RuntimeDown /\ Accepting(c)
          /\ \A j \in Calls : stage[j] = "prompting" => peer[j] # sessions[c]
       THEN /\ contexts' = [contexts EXCEPT ![c] = Append(@, i)]
            /\ peer' = [peer EXCEPT ![i] = sessions[c]]
            /\ Go(i, "prompting")
            /\ UNCHANGED orphans
       ELSE /\ Go(i, "done")
            /\ \/ /\ Cataloged(c) /\ CatalogOpen
                  /\ contexts' = [contexts EXCEPT ![c] = Append(@, i)]
                  /\ orphans' = orphans \cup {i}
               \/ UNCHANGED <<contexts, orphans>>
            /\ UNCHANGED peer
    /\ UNCHANGED <<workspace, idempotencyKey, restoreFailed, removed, mapVars, shutdownVars,
                   runtimeVars, agentVars, requestVars, outcome, ticketVars>>

(* Defect: the context of a rejected prompt is kept. *)
PromptedKeepingContext(i) ==
    LET c == conversation[i] IN
    /\ stage[i] = "prompting"
    /\ IF actor[peer[i]] = "running"
       THEN \/ turns' = [turns EXCEPT ![c] = Append(@, i)]
            \/ UNCHANGED turns
       ELSE UNCHANGED turns
    /\ Go(i, "done")
    /\ UNCHANGED <<catalogVars, mapVars, shutdownVars, runtimeVars, actor, requestVars, peer, outcome,
                   ticketVars>>

(* The prompt is accepted, or it is rejected and its context is deleted,    *)
(* unless the deletion fails.                                               *)
Prompted(i) ==
    LET c == conversation[i] IN
    /\ stage[i] = "prompting"
    /\ \/ /\ actor[peer[i]] = "running"
          /\ turns' = [turns EXCEPT ![c] = Append(@, i)]
          /\ UNCHANGED <<contexts, orphans>>
       \/ /\ contexts' = [contexts EXCEPT ![c] = Kept(@, Calls \ {i})]
          /\ UNCHANGED <<turns, orphans>>
       \/ /\ orphans' = orphans \cup {i}
          /\ UNCHANGED <<turns, contexts>>
    /\ Go(i, "done")
    /\ UNCHANGED <<workspace, idempotencyKey, restoreFailed, removed, mapVars, shutdownVars,
                   runtimeVars, actor, requestVars, peer, outcome, ticketVars>>

-----------------------------------------------------------------------------
(* Removal. *)

(* remove up to its await for the restore or relocation under way *)
RemoveConversation(i, c) ==
    /\ Begins(i, "remove")
    /\ Request(i, c, workspace[c], NoKey)
    /\ IF Cataloged(c)
       THEN /\ peer' = [peer EXCEPT ![i] = pendingRestores[c]]
            /\ Go(i, "previous")
       ELSE Go(i, "done") /\ UNCHANGED peer
    /\ UNCHANGED <<InRuntime, pendingCreations, pendingRestores, outcome, ticketVars>>

(* runtime.deleteConversation: a session being opened is waited for, then   *)
(* the session is deleted through its actor or over a connection of its own.*)
DeleteConversation(i) ==
    LET c == conversation[i] IN
    /\ operation[i] = "remove"
    /\ \/ stage[i] = "previous" /\ Settled(peer[i])
       \/ stage[i] = "awaiting" /\ actor[peer[i]] # "starting"
    /\ CASE stage[i] = "previous" /\ RuntimeDown ->
              Go(i, "done") /\ UNCHANGED peer
         [] stage[i] = "previous" /\ ~RuntimeDown /\ opening[c] # None ->
              Go(i, "awaiting") /\ peer' = [peer EXCEPT ![i] = opening[c]]
         [] OTHER ->
              IF sessions[c] # None
              THEN Go(i, "deleting") /\ peer' = [peer EXCEPT ![i] = sessions[c]]
              ELSE Go(i, "deletingInactive") /\ UNCHANGED peer
    /\ UNCHANGED <<InRuntime, requestVars, pendingCreations, pendingRestores, outcome, ticketVars>>

(* remove once the agent has deleted the session *)
RemoveRow(i, c) ==
    /\ activeHandles' = [activeHandles EXCEPT ![c] = None]
    /\ \/ /\ Cataloged(c) /\ CatalogOpen
          /\ workspace' = [workspace EXCEPT ![c] = NoWorkspace]
          /\ idempotencyKey' = [idempotencyKey EXCEPT ![c] = NoKey]
          /\ contexts' = [contexts EXCEPT ![c] = <<>>]
          /\ restoreFailed' = restoreFailed \ {c}
          /\ removed' = removed \cup {c}
          /\ UNCHANGED orphans
       \/ UNCHANGED catalogVars
    /\ Go(i, "done")

Unsubscribed(c) == IF listeners[c] = "service" /\ activeHandles[c] # None THEN "empty" ELSE listeners[c]

(* session.deleteSession settles: a session without the capability stays    *)
(* when it runs, any other outcome closes the resources of the conversation.*)
SessionDeleted(i) ==
    LET c == conversation[i] IN
    /\ stage[i] = "deleting"
    /\ \/ /\ actor[peer[i]] # "failed"
          /\ Go(i, "done")
          /\ UNCHANGED <<sessions, listeners, configuredToolScopes, actor, peer, catalogVars,
                         activeHandles>>
       \/ /\ sessions[c] # None
          /\ \/ actor[peer[i]] = "running" /\ TakeSession(i, c, "closingDeleted")
             \/ TakeSession(i, c, "closingUndeleted")
          /\ UNCHANGED <<configuredToolScopes, catalogVars, activeHandles>>
       \/ /\ sessions[c] = None
          /\ listeners' = [listeners EXCEPT ![c] = "none"]
          /\ configuredToolScopes' = configuredToolScopes \ {c}
          /\ Go(i, "done")
          /\ UNCHANGED <<sessions, actor, peer, catalogVars, activeHandles>>
    /\ UNCHANGED <<pendingCreations, pendingRestores, shutdownVars, opening, turns, requestVars,
                   outcome, ticketVars>>

(* The actor of a deleted session is shut down; so is that of a session     *)
(* whose deletion failed, and the failure reaches the caller.               *)
DeletedClosed(i) ==
    LET c == conversation[i] IN
    /\ stage[i] \in {"closingDeleted", "closingUndeleted"}
    /\ actor' = [actor EXCEPT ![peer[i]] = "closed"]
    /\ configuredToolScopes' = configuredToolScopes \ {c}
    /\ \/ /\ stage[i] = "closingDeleted"
          /\ RemoveRow(i, c)
          /\ listeners' = [listeners EXCEPT ![c] = Unsubscribed(c)]
       \/ /\ Go(i, "done")
          /\ UNCHANGED <<catalogVars, activeHandles, listeners>>
    /\ UNCHANGED <<pendingCreations, pendingRestores, shutdownVars, sessions, opening, turns,
                   requestVars, peer, outcome, ticketVars>>

(* deleteInactiveConversation settles. *)
InactiveDeleted(i) ==
    LET c == conversation[i] IN
    /\ stage[i] = "deletingInactive"
    /\ \/ /\ RemoveRow(i, c)
          /\ configuredToolScopes' = configuredToolScopes \ {c}
          /\ listeners' = [listeners EXCEPT ![c] = Unsubscribed(c)]
       \/ /\ Go(i, "done")
          /\ UNCHANGED <<catalogVars, activeHandles, configuredToolScopes, listeners>>
    /\ UNCHANGED <<pendingCreations, pendingRestores, shutdownVars, sessions, opening, agentVars,
                   requestVars, peer, outcome, ticketVars>>

-----------------------------------------------------------------------------
(* The connection or the attachment of a session is lost: its actor fails,  *)
(* rejects its prompt and closes the other of the two.  Neither the runtime *)
(* nor the service hears of it.                                             *)
SessionLost(i) ==
    /\ actor[i] = "running"
    /\ actor' = [actor EXCEPT ![i] = "failed"]
    /\ UNCHANGED <<catalogVars, mapVars, shutdownVars, runtimeVars, turns, requestVars, stageVars,
                   ticketVars>>

-----------------------------------------------------------------------------
(* Shutdown. *)

InMap(map) == {map[x] : x \in DOMAIN map} \ {None}

(* shutdown, once: from here on assertActive refuses calls. *)
Shutdown ==
    /\ service = "active"
    /\ service' = "settling"
    /\ awaited' = InMap(pendingCreations) \cup InMap(pendingRestores)
    /\ UNCHANGED <<catalogVars, mapVars, runtimeVars, agentVars, requestVars, stageVars, ticketVars>>

(* The runtime shuts down and waits for the sessions being opened. *)
ShutdownRuntime ==
    /\ service = "settling" /\ \A i \in awaited : Settled(i)
    /\ service' = "runtime"
    /\ awaited' = InMap(opening)
    /\ UNCHANGED <<catalogVars, mapVars, runtimeVars, agentVars, requestVars, stageVars, ticketVars>>

OpeningsSettled == service = "runtime" /\ \A i \in awaited : actor[i] # "starting"

(* ... then shuts down its sessions one after the other ... *)
ShutdownSession(c) ==
    /\ OpeningsSettled /\ sessions[c] # None
    /\ actor' = [actor EXCEPT ![sessions[c]] = "closed"]
    /\ sessions' = [sessions EXCEPT ![c] = None]
    /\ listeners' = [listeners EXCEPT ![c] = "none"]
    /\ configuredToolScopes' = configuredToolScopes \ {c}
    /\ UNCHANGED <<catalogVars, mapVars, shutdownVars, opening, turns, requestVars, stageVars,
                   ticketVars>>

(* ... and the service closes the catalog. A prompt waiting on a closed     *)
(* connection is rejected before the connection's close is done.            *)
ShutdownEnds ==
    /\ OpeningsSettled /\ \A c \in Conversations : sessions[c] = None
    /\ \A i \in Calls : stage[i] # "prompting"
    /\ service' = "closed" /\ awaited' = {}
    /\ activeHandles' = [c \in Conversations |-> None]
    /\ listeners' = [c \in Conversations |-> "none"]
    /\ configuredToolScopes' = {}
    /\ UNCHANGED <<catalogVars, pendingCreations, pendingRestores, sessions, opening, agentVars,
                   requestVars, stageVars, ticketVars>>

-----------------------------------------------------------------------------
Continue(i) ==
    \/ RegisterRelocation(i) \/ BeginRelocation(i) \/ Joined(i) \/ HostToolsResolved(i)
    \/ SessionOpened(i) \/ SessionNotOpened(i) \/ CleanUp(i) \/ CleanedUp(i)
    \/ Prompt(i) \/ Prompted(i)
    \/ DeleteConversation(i) \/ SessionDeleted(i) \/ DeletedClosed(i) \/ InactiveDeleted(i)

Next ==
    \/ \E i \in Calls :
         \/ \E k \in Keys, w \in Workspaces : CreateConversation(i, k, w)
         \/ \E c \in Conversations :
              \/ RestoreConversation(i, c) \/ SendMessage(i, c) \/ RemoveConversation(i, c)
              \/ \E w \in Workspaces : RelocateConversation(i, c, w)
         \/ Continue(i) \/ SessionLost(i)
    \/ Shutdown \/ ShutdownRuntime \/ ShutdownEnds
    \/ \E c \in Conversations : ShutdownSession(c)

Spec == Init /\ [][Next]_vars

-----------------------------------------------------------------------------
(* The types of the variables. *)
TypeOK ==
    /\ workspace \in [Conversations -> Workspaces \cup {NoWorkspace}]
    /\ idempotencyKey \in [Conversations -> Keys \cup {NoKey}]
    /\ restoreFailed \subseteq Conversations /\ removed \subseteq Conversations
    /\ orphans \subseteq Calls
    /\ contexts \in [Conversations -> Seq(Calls)]
    /\ activeHandles \in [Conversations -> Calls \cup {None}]
    /\ pendingCreations \in [Keys -> Calls \cup {None}]
    /\ pendingRestores \in [Conversations -> Calls \cup {None}]
    /\ service \in {"active", "settling", "runtime", "closed"}
    /\ awaited \subseteq Calls
    /\ sessions \in [Conversations -> Calls \cup {None}]
    /\ opening \in [Conversations -> Calls \cup {None}]
    /\ listeners \in [Conversations -> {"none", "empty", "service"}]
    /\ configuredToolScopes \subseteq Conversations
    /\ actor \in [Calls -> {"none", "starting", "running", "failed", "closing", "closed"}]
    /\ turns \in [Conversations -> Seq(Calls)]
    /\ operation \in [Calls -> Operations]
    /\ conversation \in [Calls -> Conversations \cup {NoConversation}]
    /\ target \in [Calls -> Workspaces \cup {NoWorkspace}]
    /\ key \in [Calls -> Keys \cup {NoKey}]
    /\ stage \in [Calls -> Stages]
    /\ peer \in [Calls -> Calls \cup {None}]
    /\ outcome \in [Calls -> {"none", "ok", "failed"}]
    /\ ticket \in [Calls -> Nat] /\ nextTicket \in Nat

(* The calls that restore, create or relocate, from the moment they may     *)
(* touch the session until they have cleaned up after themselves.           *)
Opens(i) == stage[i] \in {"resolve", "opening", "cleanup", "closing"}

(* Restores and relocations of a conversation wait for one another: two     *)
(* calls never open, or close after a failure, the session of the same      *)
(* conversation at once, whatever they joined or chained themselves behind. *)
OneOpenerPerConversation ==
    \A i, j \in Calls : Opens(i) /\ Opens(j) /\ i # j => conversation[i] # conversation[j]

RemovalTried(c) == \E r \in Calls : operation[r] = "remove" /\ conversation[r] = c

(* What the runtime has in its map of sessions: an actor that opened its    *)
(* session, whether it still runs or has lost it.                           *)
Opened == {"running", "failed"}

(* The handle the service remembers, the row and the runtime agree: the row *)
(* names the workspace the session was opened in and no restore failure,    *)
(* the runtime has the very session of the handle, with its tool scope and  *)
(* the service listening to it. It runs unless it lost its connection by    *)
(* itself; it is closed before the handle is gone by nothing but a removal  *)
(* or the shutdown.                                                         *)
HandleIsBacked ==
    \A c \in Conversations : activeHandles[c] # None =>
        /\ workspace[c] = target[activeHandles[c]]
        /\ c \notin restoreFailed
        /\ \/ /\ sessions[c] = activeHandles[c] /\ actor[sessions[c]] \in Opened
              /\ listeners[c] = "service"
              /\ c \in configuredToolScopes \/ RemovalTried(c)
           \/ /\ sessions[c] = None /\ actor[activeHandles[c]] \in {"closing", "closed"}
              /\ RemovalTried(c) \/ RuntimeDown

Quiet == \A i \in Calls : stage[i] \in {"idle", "done"}

(* When no call is under way every session that is not closed is the one    *)
(* the service knows the conversation by, except after a removal, so that a *)
(* removal or the shutdown reaches it, and none is left once the service    *)
(* has shut down.                                                           *)
NoStraySession ==
    Quiet /\ service # "runtime" => \A i \in Calls : actor[i] # "none" =>
        \/ actor[i] = "closed"
        \/ /\ actor[i] \in Opened /\ service # "closed"
           /\ sessions[conversation[i]] = i
           /\ activeHandles[conversation[i]] = i \/ RemovalTried(conversation[i])

(* However often a creation is repeated under one key, before, while or     *)
(* after the first one runs or fails, there is one conversation for it.     *)
OneConversationPerKey ==
    \A k \in Keys, c, d \in Conversations :
        LET Creates(e) == \/ idempotencyKey[e] = k
                          \/ \E i \in Calls : /\ operation[i] = "create" /\ key[i] = k
                                              /\ conversation[i] = e /\ Opens(i)
        IN Creates(c) /\ Creates(d) => c = d

Sent == {i \in Calls : stage[i] # "prompting" /\ i \notin orphans}
SentContexts(c) == Kept(contexts[c], Sent)

(* The turn contexts of a conversation are those of the turns the agent     *)
(* accepted, in their order, so that each turn of a history page is shown   *)
(* with the text of its own prompt.  One that a failed deletion left, and   *)
(* nothing else, stands between them, and shifts those after it.            *)
ContextsMatchTurns ==
    \A c \in Conversations : Cataloged(c) => SentContexts(c) = turns[c]

WaitsFor(i) ==
    CASE stage[i] \in {"previous", "joined"} -> peer[i]
      [] stage[i] = "awaiting" -> IF actor[peer[i]] = "starting" THEN peer[i] ELSE None
      [] stage[i] = "cleanup" -> opening[conversation[i]]
      [] OTHER -> None
Blocked(i) == IF stage[i] \in {"previous", "joined"} THEN ~Settled(peer[i]) ELSE WaitsFor(i) # None

(* Calls that wait for one another's promises never wait in a circle.       *)
NoCircularWait ==
    \A W \in SUBSET {i \in Calls : Blocked(i)} : W # {} => \E i \in W : WaitsFor(i) \notin W

(* The catalog and the active handles implement ConversationRecords.        *)
Records == INSTANCE ConversationRecords WITH
    bound <- workspace,
    open <- [c \in Conversations |->
               IF activeHandles[c] = None THEN NoWorkspace ELSE target[activeHandles[c]]]
RecordsKept == Records!Spec
=============================================================================
