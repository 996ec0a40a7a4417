----------------------------- MODULE ToolBroker -----------------------------
(***************************************************************************)
(* The HostTool broker of electron/conversation/toolBroker.ts.  It owns    *)
(* the tool definitions of every conversation and the calls an Agent makes *)
(* of them through its MCP relay; the renderer, a handler in the main      *)
(* process, a timer, an aborted request, a new configuration, a removal    *)
(* or the shutdown may each be the one that answers a call.                *)
(*                                                                         *)
(* A call is the promise that call() returns.  JSON schemas are abstracted *)
(* to whether an argument or a result passes them, the codes of a failure  *)
(* are not told apart, and the history of settled calls, which chooses     *)
(* the wording of an error, is left out.                                   *)
(***************************************************************************)
EXTENDS Naturals, FiniteSets

CONSTANTS
  Owners,        \* conversation ids
  ToolCalls,     \* call ids, each generated once
  MaxPending,    \* maxPendingCalls
  MaxRevision    \* a bound: configurations in one behaviour

VARIABLES
  scopes,        \* revision configured for a conversation, 0 when none is
  nextRevision,
  handles,       \* scopes opened for an attachment: conversation and revision
  pending,       \* calls waiting for a result, with the scope they belong to
  timers,        \* calls whose timer is armed
  executing,     \* calls the main-process handler has not returned from
  aborted,       \* those of them whose AbortController has fired
  answers,       \* what the promise of a call resolved to
  brokerShutDown

brokerVars == <<scopes, nextRevision, handles, pending, timers, executing,
                aborted, answers, brokerShutDown>>

Scope == [owner : Owners, revision : 1..MaxRevision]
Outcomes == {"result", "failure"}
Waiting == DOMAIN pending

BrokerTypeOK ==
  /\ scopes \in [Owners -> 0..MaxRevision]
  /\ nextRevision \in 1..(MaxRevision + 1)
  /\ handles \subseteq Scope
  /\ Waiting \subseteq ToolCalls
  /\ pending \in [Waiting -> Scope]
  /\ timers \subseteq ToolCalls
  /\ executing \subseteq ToolCalls
  /\ aborted \subseteq executing
  /\ answers \in [ToolCalls -> Outcomes \cup {"new", "waiting"}]
  /\ brokerShutDown \in BOOLEAN

BrokerInit ==
  /\ scopes = [o \in Owners |-> 0]
  /\ nextRevision = 1
  /\ handles = {}
  /\ pending = [c \in {} |-> c]
  /\ timers = {}
  /\ executing = {}
  /\ aborted = {}
  /\ answers = [c \in ToolCalls |-> "new"]
  /\ brokerShutDown = FALSE

-----------------------------------------------------------------------------
(* Settling: the call leaves the table, its timer is cleared, its promise   *)
(* resolves; a failure aborts the handler that works on it.                 *)

PendingOf(owners) == {c \in Waiting : pending[c].owner \in owners}

Settle(calls, outcome) ==
  /\ pending' = [c \in Waiting \ calls |-> pending[c]]
  /\ timers' = timers \ calls
  /\ answers' = [c \in ToolCalls |-> IF c \in calls THEN outcome ELSE answers[c]]

SettleFailure(calls) ==
  /\ Settle(calls, "failure")
  /\ aborted' = aborted \cup (calls \cap executing)

CancelPending(owners) == SettleFailure(PendingOf(owners))

-----------------------------------------------------------------------------
(* Configuration, by the runtimes. *)

\* A bug: the calls of the definitions that are replaced are left.
ConfigureKeepsCalls(o) ==
  /\ ~brokerShutDown
  /\ nextRevision <= MaxRevision
  /\ scopes' = [scopes EXCEPT ![o] = nextRevision]
  /\ nextRevision' = nextRevision + 1
  /\ UNCHANGED <<handles, pending, timers, executing, aborted, answers, brokerShutDown>>

\* Definitions that do not pass the checks throw before anything changes.
ConfigureConversation(o) ==
  /\ ~brokerShutDown
  /\ nextRevision <= MaxRevision
  /\ CancelPending({o})
  /\ scopes' = [scopes EXCEPT ![o] = nextRevision]
  /\ nextRevision' = nextRevision + 1
  /\ UNCHANGED <<handles, executing, brokerShutDown>>

OpenScope(o) ==
  /\ ~brokerShutDown
  /\ scopes[o] # 0
  /\ handles' = handles \cup {[owner |-> o, revision |-> scopes[o]]}
  /\ UNCHANGED <<scopes, nextRevision, pending, timers, executing, aborted,
                 answers, brokerShutDown>>

CancelConversation(o) ==
  /\ ~brokerShutDown
  /\ scopes[o] # 0
  /\ CancelPending({o})
  /\ UNCHANGED <<scopes, nextRevision, handles, executing, brokerShutDown>>

RemoveConversation(o) ==
  /\ ~brokerShutDown
  /\ scopes[o] # 0
  /\ CancelPending({o})
  /\ scopes' = [scopes EXCEPT ![o] = 0]
  /\ UNCHANGED <<nextRevision, handles, executing, brokerShutDown>>

\* Only the calls of conversations that have a scope are cancelled.
ShutdownBroker ==
  /\ ~brokerShutDown
  /\ brokerShutDown' = TRUE
  /\ CancelPending({o \in Owners : scopes[o] # 0})
  /\ scopes' = [o \in Owners |-> 0]
  /\ UNCHANGED <<nextRevision, handles, executing>>

-----------------------------------------------------------------------------
(* Calls, by the relay of the attachment that holds the scope h. *)

IsCurrent(h) == scopes[h.owner] = h.revision
HasRoom == Cardinality(Waiting) < MaxPending

\* immediateFailure: a stale scope, an unknown tool, arguments that are malformed
\* or too large, an aborted signal, a full table, a handler that throws at once.
CallRefused(h, c) ==
  /\ ~brokerShutDown
  /\ h \in handles
  /\ answers[c] = "new"
  /\ answers' = [answers EXCEPT ![c] = "failure"]
  /\ UNCHANGED <<scopes, nextRevision, handles, pending, timers, executing,
                 aborted, brokerShutDown>>

\* The call waits: for the main-process handler when it handles the tool's
\* name, for the renderer it is emitted to otherwise.
CallStarted(h, c) ==
  /\ ~brokerShutDown
  /\ h \in handles
  /\ answers[c] = "new"
  /\ IsCurrent(h)
  /\ HasRoom
  /\ pending' = [d \in Waiting \cup {c} |-> IF d = c THEN h ELSE pending[d]]
  /\ timers' = timers \cup {c}
  /\ answers' = [answers EXCEPT ![c] = "waiting"]
  /\ executing' \in {executing, executing \cup {c}}
  /\ UNCHANGED <<scopes, nextRevision, handles, aborted, brokerShutDown>>

\* resolve(): a result of the renderer, which knows the calls emitted to it, for
\* the conversation it names.  The result of a call that is settled, or of
\* another conversation, throws.
RendererResolves(o, c) ==
  /\ ~brokerShutDown
  /\ c \notin executing
  /\ c \in Waiting
  /\ pending[c].owner = o
  /\ \E outcome \in Outcomes : Settle({c}, outcome)
  /\ UNCHANGED <<scopes, nextRevision, handles, executing, aborted, brokerShutDown>>

\* The handler's promise settles, with a result or a failure; nobody waits
\* for it any more when the call was settled meanwhile.
HandlerReturns(c) ==
  /\ c \in executing
  /\ executing' = executing \ {c}
  /\ aborted' = aborted \ {c}
  /\ \/ /\ c \in Waiting
        /\ \E outcome \in Outcomes : Settle({c}, outcome)
     \/ /\ c \notin Waiting
        /\ UNCHANGED <<pending, timers, answers>>
  /\ UNCHANGED <<scopes, nextRevision, handles, brokerShutDown>>

TimerFires(c) ==
  /\ c \in timers
  /\ SettleFailure({c} \cap Waiting)
  /\ UNCHANGED <<scopes, nextRevision, handles, executing, brokerShutDown>>

\* The Agent cancels its request, or its connection closes.
RequestAborted(c) ==
  /\ c \in Waiting
  /\ SettleFailure({c})
  /\ UNCHANGED <<scopes, nextRevision, handles, executing, brokerShutDown>>

BrokerNext ==
  \/ ShutdownBroker
  \/ \E o \in Owners :
       \/ ConfigureConversation(o)
       \/ OpenScope(o)
       \/ CancelConversation(o)
       \/ RemoveConversation(o)
  \/ \E c \in ToolCalls :
       \/ \E h \in handles : CallRefused(h, c) \/ CallStarted(h, c)
       \/ \E o \in Owners : RendererResolves(o, c)
       \/ HandlerReturns(c)
       \/ TimerFires(c)
       \/ RequestAborted(c)

BrokerSpec == BrokerInit /\ [][BrokerNext]_brokerVars

-----------------------------------------------------------------------------
(* Every call that waits belongs to the scope its conversation has now and  *)
(* has its timer: whatever happens to the conversation, a reconfiguration,  *)
(* a removal or the shutdown finds it, and none waits once the broker is    *)
(* shut down.  The table never holds more than its limit.                   *)
NoCallIsStranded ==
  /\ \A c \in ToolCalls : answers[c] = "waiting" <=> c \in Waiting
  /\ \A c \in Waiting : c \in timers /\ IsCurrent(pending[c])
  /\ Cardinality(Waiting) <= MaxPending
  /\ brokerShutDown => Waiting = {}

(* The main-process handler is told to stop when its call was answered      *)
(* without it, whoever answered.                                            *)
AbandonedHandlersAborted == \A c \in executing : c \in Waiting \/ c \in aborted

CallsAccountedFor == NoCallIsStranded /\ AbandonedHandlersAborted
=============================================================================
