--------------------------- MODULE RunnerCommands ---------------------------
(***************************************************************************)
(* The commands of Center on a runner: enqueueCommand, handleCommand and   *)
(* stop of packages/runner/src/runner.ts over the executor of acp.ts.      *)
(* Commands of a conversation run one after the other; a decision about a  *)
(* permission does not wait in that line, because the prompt at its head   *)
(* waits for it.  Center may deliver a command again; the runner remembers *)
(* a bounded number of ids.  A graceful stop lets active work end.         *)
(*                                                                         *)
(* The events commands emit are those of RunnerSpool and are left out.     *)
(***************************************************************************)
EXTENDS Naturals, Sequences, FiniteSets

CONSTANTS
  Chats,         \* conversation ids
  MaxOrders,     \* a bound: commands of Center other than decisions
  HistoryLimit,  \* commandHistoryLimit
  MaxRuns,       \* a bound: receptions of commands
  MaxAsks,       \* a bound: permission requests of the Agents
  MaxLate        \* a bound: decisions that come too late

VARIABLES
  sent,          \* the commands Center has delivered, once or more often
  runs,          \* the handlings of commands, in the order of reception
  lastRun,       \* commandChains: the last run in a conversation's line
  processed,     \* processedCommands: the ids remembered, oldest first
  receptions,    \* how many envelopes were accepted
  registered,    \* the registrations of the connection are there
  executor,      \* the executor's session of a conversation
  approvals,     \* permission requests waiting in it
  asks, late,
  active,        \* activeConversations
  failedStarts,  \* failedConversations
  stop           \* how far stop() is

commandVars == <<sent, runs, lastRun, processed, receptions, registered,
                 executor, approvals, asks, late, active, failedStarts, stop>>

Orders == 1..MaxOrders   \* numbered as they are first delivered
Kinds == {"start", "prompt", "cancel"}
Decision == 0
Receptions == MaxRuns + MaxAsks + MaxLate
Order == [kind : Kinds, chat : Chats]
Run == [order : Orders, after : 0..MaxRuns, receipt : 1..Receptions,
        stage : {"queued", "begun", "done"}]

Sent == DOMAIN sent
Chat(i) == sent[runs[i].order].chat
Kind(i) == sent[runs[i].order].kind

CommandsTypeOK ==
  /\ Sent \subseteq Orders /\ sent \in [Sent -> Order]
  /\ runs \in Seq(Run) /\ Len(runs) <= MaxRuns
  /\ lastRun \in [Chats -> 0..MaxRuns]
  /\ processed \in Seq(Orders \cup {Decision}) /\ Len(processed) <= HistoryLimit
  /\ receptions \in 0..Receptions
  /\ registered \in BOOLEAN
  /\ executor \in [Chats -> {"none", "starting", "open"}]
  /\ approvals \in [Chats -> 0..MaxAsks]
  /\ asks \in 0..MaxAsks /\ late \in 0..MaxLate
  /\ active \subseteq Chats
  /\ failedStarts \subseteq Chats
  /\ stop \in {"no", "graceful", "forced", "closing", "stopped"}

CommandsInit ==
  /\ sent = [o \in {} |-> o]
  /\ runs = <<>>
  /\ lastRun = [v \in Chats |-> 0]
  /\ processed = <<>>
  /\ receptions = 0
  /\ registered = TRUE
  /\ executor = [v \in Chats |-> "none"]
  /\ approvals = [v \in Chats |-> 0]
  /\ asks = 0
  /\ late = 0
  /\ active = {}
  /\ failedStarts = {}
  /\ stop = "no"

-----------------------------------------------------------------------------
(* The connection to Center. *)

\* The connection is lost, or comes back with its attachments.
Reconnect ==
  /\ stop # "stopped"
  /\ registered' = ~registered
  /\ UNCHANGED <<sent, runs, lastRun, processed, receptions, executor, approvals,
                 asks, late, active, failedStarts, stop>>

-----------------------------------------------------------------------------
(* enqueueCommand *)

InHistory(x) == \E i \in DOMAIN processed : processed[i] = x

\* A bug: the ids are never forgotten.
RememberAll(x) ==
  /\ processed' = Append(processed, x)
  /\ receptions' = receptions + 1

Remember(x) ==
  LET s == Append(processed, x) IN
  /\ processed' = IF Len(s) > HistoryLimit THEN Tail(s) ELSE s
  /\ receptions' = receptions + 1

\* A command waits for the one before it in its conversation's line; one that
\* comes again is the same command.
Receive(o, order) ==
  LET v == order.chat IN
  /\ stop = "no"
  /\ ~InHistory(o)
  /\ Len(runs) < MaxRuns
  /\ IF o \in Sent THEN order = sent[o] ELSE o = Cardinality(Sent) + 1
  /\ sent' = [p \in Sent \cup {o} |-> IF p = o THEN order ELSE sent[p]]
  /\ Remember(o)
  /\ runs' = Append(runs, [order |-> o, after |-> lastRun[v],
                           receipt |-> receptions + 1, stage |-> "queued"])
  /\ lastRun' = [lastRun EXCEPT ![v] = Len(runs) + 1]
  /\ UNCHANGED <<registered, executor, approvals, asks, late, active, failedStarts, stop>>

\* The catch block of handleCommand, for a conversation: it stays active when
\* the event that ends it cannot be written either.
Failed(v, isStart) ==
  /\ active' \in {active \ {v}, active}
  /\ failedStarts' = IF isStart THEN failedStarts \cup {v} ELSE failedStarts

\* A bug: a decision waits for the commands before it.
DecideInLine(v) ==
  /\ stop = "no"
  /\ registered
  /\ approvals[v] > 0
  /\ executor[v] # "none"
  /\ lastRun[v] = 0
  /\ Remember(Decision)
  /\ approvals' = [approvals EXCEPT ![v] = @ - 1]
  /\ UNCHANGED <<sent, runs, lastRun, registered, executor, asks, late, active, failedStarts, stop>>

\* A decision is handled at once: it answers the request that waits.
Decide(v) ==
  /\ stop = "no"
  /\ registered
  /\ approvals[v] > 0
  /\ executor[v] # "none"
  /\ Remember(Decision)
  /\ approvals' = [approvals EXCEPT ![v] = @ - 1]
  /\ UNCHANGED <<sent, runs, lastRun, registered, executor, asks, late, active, failedStarts, stop>>

\* A decision about a request that no longer waits throws; what its handler
\* reports is the failure of the conversation.
DecideLate(v) ==
  /\ stop = "no"
  /\ registered
  /\ late < MaxLate
  /\ late' = late + 1
  /\ Remember(Decision)
  /\ Failed(v, FALSE)
  /\ UNCHANGED <<sent, runs, lastRun, registered, executor, approvals, asks, stop>>

-----------------------------------------------------------------------------
(* handleCommand of the run i *)

\* A bug: a command does not wait for the one before it.
MayBeginAtOnce(i) ==
  /\ i \in DOMAIN runs
  /\ runs[i].stage = "queued"

MayBegin(i) ==
  /\ i \in DOMAIN runs
  /\ runs[i].stage = "queued"
  /\ runs[i].after # 0 => runs[runs[i].after].stage = "done"

\* The chain's entry goes with the last run of the line.
Done(i) ==
  /\ runs' = [runs EXCEPT ![i].stage = "done"]
  /\ lastRun' = [v \in Chats |-> IF lastRun[v] = i THEN 0 ELSE lastRun[v]]

\* Without its assignment a command is ignored or refused as stale; a prompt
\* is ignored after a start that failed.
RunIgnored(i) ==
  /\ MayBegin(i)
  /\ ~registered \/ (Kind(i) = "prompt" /\ Chat(i) \in failedStarts)
  /\ Done(i)
  /\ UNCHANGED <<sent, processed, receptions, registered, executor, approvals,
                 asks, late, active, failedStarts, stop>>

\* Nothing of the command could be carried out: the workspace or the provider
\* lease is missing, or there is no session to prompt.
RunFails(i) ==
  /\ MayBegin(i)
  /\ registered
  /\ ~(Kind(i) = "prompt" /\ Chat(i) \in failedStarts)
  /\ Done(i)
  /\ Failed(Chat(i), Kind(i) = "start")
  /\ UNCHANGED <<sent, processed, receptions, registered, executor, approvals, asks, late, stop>>

StartBegins(i) ==
  LET v == Chat(i) IN
  /\ MayBegin(i)
  /\ registered
  /\ Kind(i) = "start"
  /\ failedStarts' = failedStarts \ {v}
  /\ runs' = [runs EXCEPT ![i].stage = "begun"]
  /\ executor' = [executor EXCEPT ![v] = IF @ = "none" THEN "starting" ELSE @]
  /\ UNCHANGED <<sent, lastRun, processed, receptions, registered, approvals,
                 asks, late, active, stop>>

\* The process is initialized and its session created, whether or not the
\* event that tells so can be written; when the executor was shut down
\* meanwhile, or the Agent does not start, the process is closed.
StartEnds(i) ==
  LET v == Chat(i) IN
  /\ i \in DOMAIN runs
  /\ runs[i].stage = "begun"
  /\ Kind(i) = "start"
  /\ Done(i)
  /\ \/ /\ executor[v] # "none"
        /\ executor' = [executor EXCEPT ![v] = "open"]
        /\ active' = active \cup {v}
        /\ UNCHANGED failedStarts
     \/ /\ executor[v] # "none"
        /\ executor' = [executor EXCEPT ![v] = "open"]
        /\ active' \in {active \ {v}, active \cup {v}}
        /\ failedStarts' = failedStarts \cup {v}
     \/ /\ executor' = [executor EXCEPT ![v] = IF @ = "starting" THEN "none" ELSE @]
        /\ Failed(v, TRUE)
  /\ UNCHANGED <<sent, processed, receptions, registered, approvals, asks, late, stop>>

PromptBegins(i) ==
  /\ MayBegin(i)
  /\ registered
  /\ Kind(i) = "prompt"
  /\ Chat(i) \notin failedStarts
  /\ executor[Chat(i)] = "open"
  /\ runs' = [runs EXCEPT ![i].stage = "begun"]
  /\ UNCHANGED <<sent, lastRun, processed, receptions, registered, executor, approvals,
                 asks, late, active, failedStarts, stop>>

Prompting(v) == \E i \in DOMAIN runs :
                  runs[i].stage = "begun" /\ Kind(i) = "prompt" /\ Chat(i) = v

AgentAsks(v) ==
  /\ Prompting(v)
  /\ executor[v] = "open"
  /\ asks < MaxAsks
  /\ asks' = asks + 1
  /\ approvals' = [approvals EXCEPT ![v] = @ + 1]
  /\ UNCHANGED <<sent, runs, lastRun, processed, receptions, registered, executor,
                 late, active, failedStarts, stop>>

\* The Agent ends the turn once its permission requests are answered.
PromptEnds(i) ==
  LET v == Chat(i) IN
  /\ i \in DOMAIN runs
  /\ runs[i].stage = "begun"
  /\ Kind(i) = "prompt"
  /\ executor[v] = "open"
  /\ approvals[v] = 0
  /\ Done(i)
  /\ Failed(v, FALSE)
  /\ UNCHANGED <<sent, processed, receptions, registered, executor, approvals, asks, late, stop>>

\* The Agent's process ends, by itself or with the executor.
PromptBreaks(i) ==
  /\ i \in DOMAIN runs
  /\ runs[i].stage = "begun"
  /\ Kind(i) = "prompt"
  /\ Done(i)
  /\ Failed(Chat(i), FALSE)
  /\ UNCHANGED <<sent, processed, receptions, registered, executor, approvals, asks, late, stop>>

\* Pending permission requests are cancelled with the turn.
Cancel(i) ==
  LET v == Chat(i) IN
  /\ MayBegin(i)
  /\ registered
  /\ Kind(i) = "cancel"
  /\ Done(i)
  /\ approvals' = [approvals EXCEPT ![v] = IF executor[v] = "none" THEN @ ELSE 0]
  /\ active' = active \ {v}
  /\ UNCHANGED <<sent, processed, receptions, registered, executor, asks, late, failedStarts, stop>>

-----------------------------------------------------------------------------
(* stop *)

InProgress == {i \in DOMAIN runs : runs[i].stage # "done"}

Stop(mode) ==
  /\ stop = "no" \/ (stop = "graceful" /\ mode = "forced")
  /\ stop' = mode
  /\ UNCHANGED <<sent, runs, lastRun, processed, receptions, registered, executor, approvals,
                 asks, late, active, failedStarts>>

\* drainUntilIdle: the lines are empty, then no conversation is active.
Idle == InProgress = {} /\ active = {}

\* The socket closes, the executor closes every process.
StopProceeds ==
  /\ stop = "forced" \/ (stop = "graceful" /\ Idle)
  /\ stop' = "closing"
  /\ active' = IF stop = "forced" THEN {} ELSE active
  /\ executor' = [v \in Chats |-> "none"]
  /\ approvals' = [v \in Chats |-> 0]
  /\ UNCHANGED <<sent, runs, lastRun, processed, receptions, registered, asks, late, failedStarts>>

StopEnds ==
  /\ stop = "closing"
  /\ InProgress = {}
  /\ stop' = "stopped"
  /\ lastRun' = [v \in Chats |-> 0]
  /\ processed' = <<>>
  /\ failedStarts' = {}
  /\ registered' = FALSE
  /\ UNCHANGED <<sent, runs, receptions, executor, approvals, asks, late, active>>

CommandsNext ==
  \/ Reconnect \/ StopProceeds \/ StopEnds
  \/ \E mode \in {"graceful", "forced"} : Stop(mode)
  \/ \E v \in Chats : Decide(v) \/ DecideLate(v) \/ AgentAsks(v)
  \/ \E o \in Orders, order \in Order : Receive(o, order)
  \/ \E i \in 1..MaxRuns :
       \/ RunIgnored(i) \/ RunFails(i) \/ StartBegins(i) \/ StartEnds(i)
       \/ PromptBegins(i) \/ PromptEnds(i) \/ PromptBreaks(i) \/ Cancel(i)

CommandsSpec == CommandsInit /\ [][CommandsNext]_commandVars

\* What becomes of a run that was accepted; processes that are closed break their
\* prompts.
Proceeds(i) ==
  \/ RunIgnored(i) \/ RunFails(i) \/ StartBegins(i) \/ PromptBegins(i) \/ Cancel(i)
  \/ StartEnds(i) \/ PromptEnds(i) \/ (stop = "closing" /\ PromptBreaks(i))

-----------------------------------------------------------------------------
(* Two commands of a conversation are never carried out at once, and they    *)
(* begin in the order they came, whatever fails, is ignored or is decided in *)
(* between.                                                                  *)
OneCommandAtATime ==
  \A i, j \in DOMAIN runs :
    i < j /\ Chat(i) = Chat(j) /\ runs[j].stage # "queued" => runs[i].stage = "done"

(* A command that is delivered again is not carried out again while fewer    *)
(* others came since than the runner remembers.                              *)
RedeliveryIgnored ==
  \A i, j \in DOMAIN runs :
    i < j /\ runs[i].order = runs[j].order
      => runs[j].receipt - runs[i].receipt > HistoryLimit

CommandsOnceInOrder == OneCommandAtATime /\ RedeliveryIgnored

(* "Putting it behind the conversation chain would deadlock that prompt": a   *)
(* command the runner has accepted is carried out or dropped, permission      *)
(* requests included, unless a graceful stop has begun, which drops decisions *)
(* and waits.                                                                 *)
CommandsEnd ==
  \A i \in 1..MaxRuns :
    (i \in InProgress) ~> (i \notin InProgress \/ stop = "graceful")
=============================================================================
