# Tea Desktop: formal models

TLA+ specifications of Tea Desktop's conversation core, their TLC instances and
TLAPS proofs. Every definition is translated from the TypeScript source;
`PROJECT.json` maps each one to the lines it stands for.

## The system

Tea Desktop is an Electron application in which a user converses with coding
agents, alone or about the messages of an instant-messaging channel. The main
process owns all durable and concurrent state. The renderer keeps projections
of it. A second program, the runner, executes agents on other hosts for
conversations owned by a server (Tea Center, not in this repository).

```
renderer stores --IPC--> conversation services --> runtime service --> ACP runtime --> session actor --> agent process
      |                        |                        |                    |               |
      |                        |                        +--> catalog (SQLite)  tool broker --+-- MCP attachment <-- proxy
      |                        +--> cloud adapter --HTTP--> Tea Center <--WebSocket-- runner --> agent process
      +--> channel transport --> Yunxin SDK
```

| component | state it keeps | operations | interacts through |
|---|---|---|---|
| ACP session actor (`electron/conversation/acp/session.ts`, `operation.ts`, `permissions.ts`) | lifecycle, active operation, turns, pending approvals, buffered updates | create, restore, prompt, cancel, resolve approval, delete, shutdown; handlers of updates, permission requests, closed connection, closed attachment | requests and notifications of the agent, events to listeners |
| ACP runtime (`acp/runtime.ts`, `binding.ts`) | sessions, listeners, pending creations, configured tool scopes | create, restore, send, cancel, resolve, close, delete, generate subject, shutdown | session actors, connection host, tool broker |
| Conversation runtime service (`service.ts`, `runtimeRegistry.ts`) | active handles and subscriptions, pending creations, restores and subject generations | create (idempotent), restore, relocate, send, cancel, respond, remove, shutdown | runtime, catalog, events |
| Conversation catalog (`catalog.ts`, `electron/storage`) | conversations, turn contexts, sources, drafts, deliveries in SQLite | create, relocate, record and clear restore failures, drafts and deliveries, remove | transactions |
| Channel delivery (`src/infrastructure/collaboration`, `src/features/collaboration/store.ts`) | drafts and deliveries as shown, sending flag | create, edit and deliver a draft | catalog commands, channel transport |
| Host tool broker (`toolBroker.ts`, `collaboration.ts`) | scopes and their revision, pending calls | configure, call, resolve, cancel, remove, shutdown | MCP server of the attachment, renderer |
| MCP attachment (`acp/mcpAttachment*.ts`, `mcpProxy.ts`, `mcpServer.ts`) | state of the attachment, sockets, attempts | listen, authenticate, attach, fail, close | local socket, timers |
| Agent connection and process (`acp/connection.ts`, `process.ts`) | wire version, capabilities, process | negotiate, request, close | agent process |
| Event projection (`acp/projector.ts`, `replay.ts`, `src/features/conversation/timelineReducer.ts`) | tool calls, turn blocks and status | project an update, reduce an event, replay a history | called by the session actor, the cloud adapter and the renderer |
| Session configuration (`acp/sessionConfiguration.ts`) | advertised options, model, mode | accept a response or update, plan requests | called by the session actor |
| Cloud adapter (`cloudCommandService.ts`, `cloudRunnerClient.ts`) | cloud conversation ids, pollers and their cursors | route commands, poll events, remove, dispose | HTTP to Tea Center |
| Runner (`packages/runner`) | socket, registrations, command chains, processed commands, active conversations, event spool on disk | connect, attach, execute commands, emit, replay, acknowledge, drain, stop | WebSocket to Tea Center, agent process, disk |
| Center authentication (`centerAuth.ts`, `credentials.ts`) | tokens, pending sign-in and refresh | sign in, refresh, sign out | HTTP, credential store |
| Plugins and managed catalog (`centerPlugins.ts`, `plugins.ts`, `catalog.ts` in `electron/services`) | installed versions | install, enable, remove | HTTP, disk |
| Channel services (`electron/services/channel*.ts`) | drafts, notifications, attachment tokens | save, remove, notify, issue and release a token | JSON stores, renderer |
| Renderer stores (`src/features/*/store.ts`) | projections of the above | load, select, send, apply events | IPC |

Hard behaviours: continuations that run after an `await` in a state other than
the one they began in (all components); answers of requests that arrive after a
cancellation, a deletion or the loss of a process (session actor, runtime,
service); two durable or external facts that no transaction joins (session and
catalog, delivery and channel, spool and Center); retries of a call whose first
answer was lost (creation, delivery, runner commands); shutting down while work
is pending (service, runner); and order or duplication of events across a
reconnect (runner, cloud adapter). The `hazards` of `PROJECT.json` place each of
them at its line and name the properties that cover it.

What makes each component correct:

- session actor: one running turn at most, every turn ends exactly once and
  never changes afterwards, approvals live and die with their turn, each
  permission request gets exactly one answer;
- runtime service and runtime: one session per conversation, none without a
  catalog row once calls have settled, creation idempotent, relocation atomic,
  nothing left after shutdown;
- catalog and channel delivery: a sent delivery is final, one message per
  delivery, the content of the version it was prepared for;
- tool broker and attachment: a call settles once, within its scope, before its
  timeout; one authenticated peer at most;
- projection: a tool call ends once and belongs to the turn it began in;
- runner: no event lost, commands executed once and in order, a graceful stop
  ends;
- cloud adapter: the events of a conversation published in order and once, and
  polling that does not die out, until the conversation is removed.

## Plan

1. `TurnProtocol` (abstract) and `AcpSession` (the session actor), checked and
   proved. *Done.*
2. `ChannelDelivery`: drafts, deliveries, the collaboration client and a channel
   that loses answers and crashes. Proofs: a sent delivery is final, causes one
   message and is not sent again. *Done.*
3. `EventOutbox` (abstract) and `RunnerSpool`: the runner's connection, its
   events, their spool, replay and acknowledgement, and crashes; and
   `RunnerCommands`: the commands that emit them. Proofs: no event is lost or
   left behind; commands run once and in order. *Done.* Left: the two composed,
   so that a command that emits waits for its spool.
4. `ConversationRecords` (abstract) and `ConversationService`: creation, restore,
   relocation, prompts, removal and shutdown over the catalog and the ACP
   runtime. Proofs: one opener per conversation; the refinement; sessions, handles,
   keys, contexts and waits. *Done.*
5. `ToolBroker`, `McpAttachment` and `CloudPolling`, checked and proved;
   `TurnProjection`, checked and proved. *Done.*
6. `ChannelComposer`: what a user types, submits and retries in a channel, as the
   renderer store and the draft catalog of the main process treat it, checked and
   proved. *Done.*
   Left: the lists of messages of the channel store against reordered events.

Each module takes its bounds as CONSTANTS and uses no RECURSIVE operator;
recursion over data is a fold or a recursive function.

## Modules

| module | models |
|---|---|
| `TurnProtocol` | what a conversation promises: turns form a list, only the last may run, an ended turn never changes |
| `AcpSession` | `AcpSessionActor`, `AcpTurnOperation`, `AcpPermissionCoordinator` |
| `TurnReducer` | operators: the reducer of `timelineReducer.ts` |
| `AcpProjection` | operators: `AcpEventProjector`, `AcpV1ReplayCollector`, the projector of cloud conversations |
| `TurnProjection` | turns as an agent writes them into a session, a restored session or a cloud conversation |
| `ConversationRecords` | what the service promises about cataloged, open and removed conversations |
| `ConversationService` | `RuntimeConversationService` over the sessions of `AcpConversationRuntime` and the rows of the catalog |
| `ToolBroker` | `ConversationToolBroker` |
| `McpAttachment` | the attachment, the relay processes and the server of the host tools of one session |
| `CloudPolling` | which conversations are known to be in the cloud, their polls and the requests about them |
| `EventOutbox` | what a runner promises: an event in its keeping is never given up |
| `RunnerSpool` | the event side of `TeaRunner`: connection, `sendEvent`, `writeSpool`, `replaySpool`, acknowledgements |
| `RunnerCommands` | the command side: `enqueueCommand`, `handleCommand`, `stop`, and the executor of `acp.ts` |
| `ChannelDelivery` | drafts and deliveries: catalog, collaboration store, draft dialog, `ConversationCollaborationClient`, channel transport and provider |
| `ChannelComposer` | the composer of the channel store and the draft catalog of the main process |
| `SequenceFilters` | an operator: the elements of a sequence that are in a set |
| `MCAcpSession`, `MCSession`, `MCConversationService`, `MCChannelDelivery`, `MCRunnerSpool`, `MCComponents` | TLC instances |
| `ConversationServiceProofs`, `ChannelDeliveryProofs`, `RunnerSpoolProofs` | theorems about one module |
| `TurnProjectionProofs`, `TurnReplayProofs` | theorems about `TurnProjection`: its turns, and what a replay of them restores |
| `AcpSessionProofs` | theorems about `AcpSession`, and about the instance that holds it with `TurnProjection` |
| `ComponentProofs` | theorems about `ToolBroker`, `McpAttachment`, `RunnerCommands`, `CloudPolling` and `ChannelComposer`, and about the instance that holds them |
| `SequenceFilterProofs` | lemmas: induction over numbers and sequences, and what `SequenceFilters` computes |

Components that call one another are composed where their interleaving matters:
service, runtime and catalog in `ConversationService`; catalog, store, client and
provider in `ChannelDelivery`; attachment, relays and server in `McpAttachment`;
store, disk and provider in `ChannelComposer`; Center, polls and requests in
`CloudPolling`. Components that share no state are checked side by side in one
instance (`MCComponents`, `MCSession`): `focus` says which of them runs in a
behaviour, the others keep one initial state. This adds no states, and nothing
is claimed of their interleaving, which could show nothing new.

### AcpSession

The actor is single threaded, so an action is what runs between two awaits. A
suspended coroutine is a variable that says where it stands (`starting`,
`prompting`, `deleting`, `shutdown`) and an action that continues it:
`DispatchContinues(t)` is the rest of `dispatchPrompt`, `ConfigurationApplied`
and `ConfigurationFails` the rest of `prompt` after `applyConfiguration`,
`DeleteAnswered` the rest of `deleteSession`. `request` and `promptRequest` hold
the outstanding requests, which the agent answers (`AgentAnswers`) or a lost
connection rejects (`LoseConnection`). `connectionNotice` and
`attachmentNotice` separate the closing of a resource from the handler that
runs later. `turns` is the status `reduceConversationTurn` gives each turn;
`raisedIn` and `answers` are history variables. `working` is the agent's own
view of which prompts it still works on; it decides what the agent may send
and lets it lag behind the actor. `negotiated` is the outcome of the
handshake: wire version 1, in which the answer to `session/prompt` ends a turn,
or 2, in which an idle update does.

Abstracted: the content of updates (they produce output, or not), event
sequence numbers, failure codes (`"failed"` stands for all), the configuration
itself, the subject sessions. The initial state is a session whose connection
has been negotiated and whose attachment, if any, waits for its proxy.

### TurnReducer, AcpProjection and TurnProjection

`Reduce` is the shared reducer (`reduceConversationTurn`): a turn is its blocks,
text a sequence of pieces. `Project` makes events of one update of the agent, in
either wire version; `Replay` makes the turns of a whole record (`session/load`),
with `Collected` before its `finish()`, and `FinalDelta` the new part of a final
message in the cloud. `TurnProjection` drives them: `PromptTurn`, `Update`,
`Permission` and `TurnEnds` are the session's, `LateUpdate` one that comes
without a turn, `Restart` another process that replays `record`; `CloudPrompt`,
`CloudUpdate`, `CloudTurnEnds` and `CloudCancelled` are the events that Center
has stored. The agent is not assumed to be well behaved: it writes chunks and
whole messages in any order, repeats and contradicts patches and forgets tools.

`produced`, `shownText`, `final`, `astray` and `retired` are histories: what the
agent wrote, what the current prompt has shown and should end with, the contents
it wrote without a turn, and the ids of tools of earlier processes.

Two properties, one for each reading of the updates. `ReplayRestoresTurns`
compares the reducer's turns with the collector's, whoever ended the turns;
`WrittenTextIsShown` compares them with what the agent wrote. Their exceptions
are behaviour of the code: the collector adds an update that came without a turn
to the turn before it, joins prompts that have no id and no output between them,
and refuses a record with an unfinished tool call (`replay.ts:177`), in which
case the conversation cannot be restored; overlapping prompts of a cloud
conversation repeat their final message (`cloudCommandService.ts:393`).

### ConversationService

A call of the service is a coroutine, numbered in the order the calls are made;
`stage[i]` says after which await it stands and `Continue(i)` runs it to the next.

| `stage` | the call waits for | continues with |
|---|---|---|
| `canonical` | the directory of a relocation | `RegisterRelocation` |
| `previous` | the restore or relocation before it | `BeginRelocation` |
| `joined` | the promise of another call | `Joined` |
| `resolve` | `hostTools.resolve` | `HostToolsResolved` |
| `opening` | the runtime, which creates or restores the session | `SessionOpened`, `SessionNotOpened` |
| `cleanup`, `closing` | the runtime, which closes what a failed call opened | `CleanUp`, `CleanedUp` |
| `activated`, `prompting` | the prompt of a send | `Prompt`, `Prompted` |
| `awaiting` | the restore a removal waits for | `DeleteConversation` |
| `deleting`, `closingDeleted`, `closingUndeleted`, `deletingInactive` | the runtime, which deletes the session | `SessionDeleted`, `DeletedClosed`, `InactiveDeleted` |

`sessions`, `opening`, `listeners` and `configuredToolScopes` are the maps of the
runtime, `activeHandles`, `pendingCreations` and `pendingRestores` those of the
service, `workspace`, `idempotencyKey`, `restoreFailed` and `contexts` the rows.
A promise shared by two calls is the number of the call that made it. The actor
of a call is reduced to what `AcpSession` shows of its lifetime; `SessionLost`
makes it `failed` by itself, when its connection or attachment goes
(`session.ts:574-593`), which neither runtime nor service hears of. `turns` are
the prompts the agent accepted, against which `contexts` is read; `orphans` are
the calls whose context stayed because removing it failed as well
(`service.ts:357-361`). `ticket` is a history: the order in which restores and
relocations registered themselves.

A lost session keeps its handle. `HandleIsBacked` therefore does not say that the
session of a handle runs, but that it is the one the runtime has of the
conversation, opened where the row says: running or lost by itself, and closed
by nothing but a removal or the shutdown. Until then a restore returns that
handle, and prompts to it fail. `ContextsMatchTurns` leaves out `orphans`: each of
them shifts the turns after it in the catalog, since the index of a context is
one more than the last.

Behaviour the properties leave room for: a restore that begins while a removal
deletes the session leaves a session without a row (`NoStraySession` and
`HandleIsBacked` except conversations whose removal was tried), and `remove`
rethrows a failed deletion before it forgets the handle and the subscription,
which ADR 0029 wants cleaned up after an attempted delete; the application may end
between a turn's context and its prompt, which leaves an orphan too and is not
modelled.

### ToolBroker and McpAttachment

`ToolBroker` has one action per entry point of `ConversationToolBroker` and per callback
that may settle a call: the handler, the renderer, the timer, the abort, a new
configuration, a removal, the shutdown. A call that was abandoned leaves its
handler `executing` and `aborted` until it returns.

`McpAttachment` begins when the socket listens. `relay` is where each relay
process stands with the credential (`CheckCredential`, `ReadCredential`,
`TakeCredential`, which may be overtaken between any two), `sockets` how the
desktop treats each connection (`end`, the transport; `step`, the handshake),
`cleanup` how far the teardown has come. `TearDown` is `fail` and `closeOnce`.
The close handler of a socket does not tell a losing candidate from the relay
that is served (`mcpAttachment.ts:199-203`), so a stranger that hangs up may
end the attachment: the properties are about what is then left.

### CloudPolling

An event is its number. A poll (`poll[p]`) is an object: `polls` names the one a
conversation has, one that was stopped may still hold an answer. `running` is
where `poll()` stands (`CenterAnswers` is the moment Center reads the events,
`EventsLoaded` the one they are published at), `timers` how many timers are armed
for it, since a forced poll arms a second one and both chains go on. A request of
the renderer is answered by Center at one moment (`CenterServes`) and by the
service at a later one (`Found`, `MessageSent`, `Removed`), with other answers in
between.

`published` is what the renderer has got of a conversation, from all its polls
together. `EventsInOrder` says that it is the events in order, each once, and that
a conversation has one poll object for as long as no removal of it has returned:
no list, opening, send, forced poll or failure makes another one. As in the code,
a poll that was stopped while it waits still publishes what it gets. The exception
is a conversation that was removed and that a list read before the removal brings
back (`:112-117`): it gets a second poll, from the first event, and what the two
publish may repeat. A summary that could not be loaded is not loaded again before
the next event (`cloudCommandService.ts:356`): nothing is promised of it.

### ChannelDelivery

Three processes meet: the main process, whose catalog commits each command
(`version`, `status`, `sentRef`); the renderer, which shows a copy of it
(`viewDraft`, `viewStatus`, `dialog`, `edited`, `sending`) and runs the calls of
`deliverDraft`; and the provider (`keyOf`, `textOf`, `undecided`, `channel`).
A call is a record of `flow` whose `pc` says after which await it stands:

| `pc` | the call waits for or has returned from | next |
|---|---|---|
| `prepared` | `prepareDelivery` | return, mark as sending, look the message up, or reject |
| `looking` | `loadMessages` | complete, fail as uncertain, mark as sending again, or reject |
| `marked` | `markDeliverySending` | `sendMessage` |
| `waiting` | the provider's answer | complete or fail |
| `failing` | the `catch` block | `failDelivery` |
| `threw` | the store's `catch` and `finally` | `refreshCollaboration`, or end |
| `returning` | its reply is in `mailbox` | `Receive` |

A step of the client up to its next command includes the catalog's transaction of
that command, which is where other calls can interleave; the command's answer may
be lost although it took effect (`Accepted`, `Complete`). `mailbox` keeps the
replies that change the window in the order of their calls. `edited` is what
`DraftEditor` keeps to itself: the text of its area differs from the draft's. Save
needs it, Deliver needs the opposite (`DraftEditor.vue:56`, `:65`); it ends when
the user puts the text back (`UndoEdit`), when the shown text changes
(`KeepEdit`), and with the dialog or the view. `generation` is the store's
`lifecycleGeneration`; since `configure` replaces bridge and transport with it, a
call of an older generation has a disposed transport. The transport remembers what
it sent (`sentByKey`) until it is disconnected. A page of history is any suffix of
our messages, since others write and revoke messages in the same channel. `missed`
is a history variable: the deliveries a lookup did not find although the provider
had their message.

Abstracted: message content (the version it was read from), timestamps (a
refused update is a fault), capabilities (constant in the transport), failure
codes, the conversation list. One conversation bound to one channel of one
account. Removing the conversation while a delivery is under way, and binding
the same window to another account, are not modelled.

### RunnerSpool

The runner is single threaded too. Five coroutines meet in this module:
`connect` (`link`), any number of `replaySpool` calls (`replay`), `sendEvent` of
every event (`emission`), the handler of acknowledgements (`unlinking`), and the
close of a socket, which the runner notices after the transport has broken
(`alive`).

| `link` | `connect` stands at | continues with |
|---|---|---|
| `opening` | the wait for `open` | `Opened`, `OpenFails` |
| `greeting` | its `host.hello` and `runner.attach` frames | `Greeted`, `GreetingFails` |
| `attaching` | `await attachmentReady` | `Attached`, `AttachmentRefused` |
| `attached` | the barrier is resolved, `connect` not yet resumed | `BecomeReady` |
| `ready` | `socketReadyForEvents`; `sendResume` and `replaySpool` run | `ReplaySpool` |

A command may be accepted from `attached` on, and emits events while the
connection comes and goes. `Emit` is `sendEvent` until its write, `WriteDone`
the rename of the file, `Spooled` the rest, with the check of
`socketReadyForEvents`; a connection that becomes ready between them lists the
spool before or after the rename. A replay belongs to the connection that began
it, but is not stopped with it: `send` takes the current socket, so a replay
whose connection is lost goes on over the next one, and its failure
(`Throw`) then fails nothing. `ReadFile` fails on a file that an acknowledgement
has unlinked meanwhile. A lost connection delivers any part of what was sent and
any part of the acknowledgements (`CloseSocket`). `stored` is what Center has
persisted; its answers to events may arrive late, in any order, and over a
later connection. `ours` is a history variable, the events of this process.

Abstracted: one entry and one conversation, so that a refused attachment is the
only one; commands (`working` says that one is running); the epochs in an
envelope; temporary files; the wait for a full disk, during which a write is
merely not done. A process that has ended is started again.

### RunnerCommands

A run is one reception of a command: `runs` lists them in their order, `lastRun`
is the end of each conversation's chain. `Receive` is `enqueueCommand` up to the
chain, `RunIgnored`, `StartBegins`, `PromptBegins`, `Cancel` and `RunFails` what
`handleCommand` does when the chain comes to it. A permission decision does not
wait in the chain (`Decide`, `DecideLate`). `executor` and `approvals` are what
`acp.ts` knows of a conversation; `processed` is the history of ids, of at most
`HistoryLimit`. `Reconnect` clears the registrations, under queued commands too.

`CommandsEnd` leaves out runs under a graceful stop: the runner then drops
decisions and waits for the prompts that need them until it is forced. A forced
stop lets a start that is queued begin after the executor was closed, and a
decision that comes too late reports the running prompt as failed (`:765-775`).

### ChannelComposer

One channel of the store, the draft as it is shown (`draft`, `dirty`), the timer
and promise of its saves (`saveTimer`, `flush`, with the text it holds), the
loads, and `disk`, the catalog of each account. A submission is a text in
several messages: `submission` says how far `submitComposer` has come, `attempt`
and `flights` are its messages and their sends, `batch` those not yet confirmed,
`posted` what the provider has taken. Confirmations come with the answer or as
an event, in any order and after retries and cancellations.

The account of the status and the account whose drafts are loaded are two things
(`account`, `loadedFor`). `Connecting` is a status that names an account without
being connected: it replaces the account at once, clears the drafts of another one
only if the status before named that one, and loads nothing (`:2099-2110`).
`Connected` loads (`:2171-2173`). While the two differ the composer shows nothing
of the account's catalog, so `CleanDraftIsSaved` speaks of loaded drafts only; and
`flushDraft` takes the account of the moment (`:1948`), so text typed for one
account is saved for the other if the timer fires, or the save is scheduled again
(`:1989`), between the two statuses. The plan
(`docs/plans/2026-09-03-im-channel-drafts.md:17`) and ADR 0040 keep drafts apart
by account: the code does so in the catalog and not here.

Both properties state where the code does not keep them: `unsure` marks accounts
for which a load failed, came late or overlapped a change (`store.ts:1912`), a
save failed after its account was gone (`:1974-1989`, `:1884`), or a text was saved
under another account than its own (`Astray`). Of two submissions
that overlap while the first waits for its save (`:927`, `:935`), the text is kept for
one only; the run makes one.

## Runs

| run | question | result |
|---|---|---|
| `acp_session` | Do turns and approvals stay consistent, and does the actor implement `TurnProtocol`, under every interleaving, wire version and failure? Is what the agent writes shown once, and again after a restart? | holds |
| `acp_session_live` | Does every turn end and every permission request get an answer? | holds when no deletion can race a prompt |
| `acp_delete_race` | The same with wire version 2 and `session/delete` | violated: finding 1 |
| `acp_stale_idle` | Does the end of a cancelled turn leave the next one alone? | violated: finding 2 |
| `channel_delivery` | Do catalog, window and channel agree about a delivery, and is it posted once, with overlapping calls, lost answers, failures and restarts? | holds |
| `channel_delivery_live` | Does every confirmation end and free the composer? | holds |
| `delivery_stuck` | Does a delivery that was interrupted while sending settle, if the user keeps trying? | violated: finding 3 |
| `delivery_version` | Does a delivery carry the text of its version? | violated: finding 4 |
| `runner_spool` | Does every spooled event reach Center, none lost or left behind, with numbers that go on, and does the runner implement `EventOutbox`? | holds |
| `conversation_service` | Do sessions, handles and rows agree, is each conversation created and opened once, do calls never wait in a circle, and does the service implement `ConversationRecords`? | holds |
| `components` | Does every host tool call end, one relay get served and everything get released; is every cloud event published once; does every command run once, in order and to its end; does unsent text survive? | holds |
| `runner_unhandled` | Does a disconnection leave the work of the runner alone? | violated: finding 5 |

Bounds of `AcpSession`: two turns, so that a late answer of the first meets the
second; two approvals with two keys, so that a key can be repeated while pending,
reused after an answer and cross turns; one buffered update, enough for creation
to drain or to throw. `Keys` are interchangeable, hence the symmetry (safety run
only). Deadlock is not checked: a closed session stops.

Bounds of `TurnProjection`: two turns, so that an update of the first comes in the
second; one tool, one message and one thought; three updates, enough for a
message in pieces, interrupted and repeated in full. The properties have been
seen to hold with four as well.

Bounds of `ConversationService`: three calls, so that one can join or chain itself
behind a second while a third fails, removes or shuts down; two conversations, of
which one may exist; two workspaces, so that a relocation moves something; one
key. Nothing else is bounded: any call may fail at any step, the removal of a
rejected prompt's context included, and any session may be lost at any time.
`LiveState` is the VIEW of the run: it leaves out what nothing reads any more of a
call that is done, and the numbers of tickets, of which only 0 is ever tested. No
guard, property or later value depends on what is left out, so each state stands
for those that differ from it in that alone.

Bounds of `MCComponents`. Broker: three calls at a limit of two, two owners, two
configurations. Attachment: two relays that race and a stranger, two
connections. Cloud: one conversation, three requests, two events, two polls,
enough for a poll that was stopped to overlap the next one of a conversation that a
list brought back; requests are numbered in the order they are made
(`RequestsInOrder`). Commands: one chain of
three receptions with a history of two, so that a command may come again at the
edge of the history; a permission request and a late decision. Composer: one
submission of two messages, one retry, two statuses that name an account, of
which there are two: a draft is loaded again after its submission, or flushed for
another account. One account is the first to connect, which costs nothing since
they are alike (`FirstConnects`); attempts are retried under the first status only
(`EarlyRetries`). Once the bounded inputs are used up nothing
need happen, so deadlock is not checked in these runs.

Bounds of `ChannelDelivery`: two calls and two generations, so that a call of a
workspace that was left overlaps one of the next; two messages, enough for a
delivery to be posted twice; two faults, so that a failed write can follow a
lost answer; connections and restarts are not bounded. The safety run has one
version of the draft. The liveness run has two versions and no faults of its
own: rejections still happen through disconnections, which are unlimited. The
calls are interchangeable, hence the symmetry of the safety run. A session in
which nobody does anything stops, so deadlock is not checked.

Bounds of `RunnerSpool`: two events that may be written together; two replays, so
that the replay of a lost connection overlaps the next; two faults, so that a
process that has replayed after one can meet another. A fault is a lost
connection, a refused attachment, a failed write or unlink, or a crash. Once the
faults and events are used up a session stops, so deadlock is not checked.

Every property has a mutant of the model, a defect a change of the code could
introduce, that TLC finds (`mutants` in `PROJECT.json`). The mutated operators
stand in the modules, before the ones they replace, marked `Defect:`.

### Fairness

`FairSpec` assumes weak fairness of the actor's continuations, because the
event loop runs every ready continuation, and of the agent's answers: while it
stays connected it answers each request, ends each prompt it accepted, and the
attachment connects or times out. The host is not forced to call anything, and
the agent not to produce output, request permissions or stay alive.

In `ChannelDelivery`, `FairSpec` assumes weak fairness of each call, of the
replies, of a detail being loaded, and of the provider, which in the end posts
or drops what it received. `PersistentSpec`, for `delivery_stuck` only, adds a
user who reconnects, selects the conversation, leaves no edit open and confirms
whenever the window keeps offering it: the most that the window lets a user do.

In `RunnerSpool`, `FairSpec` assumes weak fairness of the reconnect timer, of
the continuations of `connect`, of a file that has been written, and of each
replay; and of Center, which attaches the runner and stores what arrives, except
where a fault intervenes. Writes, acknowledgements and unlinks are not assumed
to happen, nor commands or faults. That something restarts a process that has
ended is an assumption on its operator.

In `MCComponents`, `AttachmentFairness` assumes the timer of the attachment, the
close events of sockets it has destroyed, and its own cleanup; nothing of relays
or strangers. `CommandsFairness` assumes that the runner handles what it accepted
(`Proceeds`), that agents finish prompts that wait for nobody, that somebody
decides a permission request (strong fairness, since the connection comes and
goes), and that the runner reconnects and stops.

## Findings

1. **A turn that never ends** (`acp_delete_race`). `deleteSession` ends the
   active turn and then waits for `session/delete` with the session still
   active. A prompt accepted meanwhile begins a turn; after the answer the
   session goes to `closing`, only approvals are cancelled, and the close
   handlers return early. On wire version 2 nothing ends that turn: its
   `prompt` call never returns.
2. **A stale idle update ends the wrong turn** (`acp_stale_idle`). On wire
   version 2 the idle update that reports a cancelled turn is applied to the
   turn that is active when it arrives.
3. **An interrupted delivery stays `sending`** (`delivery_stuck`). Only another
   confirmation reconciles a delivery, but the Deliver button is disabled while
   it is `sending`, and after a restart the dialog of an existing draft cannot
   be opened. The design document says no sending state remains indefinitely
   after a restart (docs/design/channel-bound-agent-collaboration.md:482).
4. **The text of one version under the delivery of another**
   (`delivery_version`). `deliverDraft` sends the draft the window shows, while
   `prepareDelivery` binds the version the catalog holds: an edit that is being
   saved separates them. The Deliver button does wait for a text that is not
   edited (`DraftEditor.vue:65`), but not for the save: the user puts the old text
   back by hand before the reply and confirms it. The same comes about without
   it when the conversation is selected again during the save and a detail read
   before it fills the view. The design document says a delivery always records the
   exact reviewed version (:221).

5. **A connection that breaks early ends the runner** (`runner_unhandled`).
   `connect` creates the promise of the attachment barrier before it sends its
   frames and awaits it after them. If the socket breaks in between, the promise
   is rejected with no handler and Node ends the process, with all active ACP
   work. `packages/runner/README.md:87` says that active tasks continue locally
   when the WebSocket disconnects.

`OneMessagePerDelivery` states its exception: a message that reaches the channel
after the lookup, or has left the 50 messages it reads, is sent again. The
documents only promise a lookup in "bounded recent" history (ADR 0012), so this
is a limit of the design and not a finding.

## Proofs

`AcpSessionProofs` proves, for every value of the constants that satisfies the
assumptions of `AcpSession`, type correctness, the three invariants of the
safety run, `AnswersAreFinal` and the refinement of `TurnProtocol`. The
inductive invariant `Inv` adds to the type invariant what the properties need
to survive a step:

- `TurnInv` relates the turns, the operation counter, the pending prompt and
  the requests: an operation that has been accepted is the last turn, and no
  prompt is accepted while one is pending;
- `StartInv`: no turn exists before the session has started, so `Emit`, which
  writes the last turn, never touches a replayed one;
- `ApprovalInv`: approvals at or above `nextApproval` are fresh and `requestIds`
  mirrors `pending`.

Each action has a lemma per conjunct it can disturb; lemmas about `Emit`,
`CancelAll` and `FinishOperation` are stated once. The refinement maps `turns`
to itself: each step is a step of the protocol or a stutter.

`ChannelDeliveryProofs` proves type correctness, `MessagesAreOnRecord`,
`SentDeliveriesArePosted`, `ShownSentIsSent` and `SentIsFinal`, from the
assumptions of `ChannelDelivery` (`NoneAssumption`, `BoundAssumption`). None is
inductive alone: what the window will show depends on replies on their way,
and what the catalog accepts on the messages calls hold. The invariant `Inv`
has a part per group of variables; two facts about every step connect them:

- `CatalogStep`: no delivery moves back to `none` or `pending`, and a sent one
  does not change. It is what `SentIsFinal` says, and it keeps replies and
  loaded details true while they travel;
- `ChannelStep`: the channel keeps its messages, and a message its key. It keeps
  true what calls, the catalog and the transport remember of a message.

A group that a step leaves alone is preserved by its stutter lemma
(`CatalogStutter`, `ViewStutter`, ...); the shared steps (`GotoPreserves`,
`ReturnPreserves`, `CompletePreserves`, ...) are proved once, and each action
has one lemma.

`RunnerSpoolProofs` proves type correctness, `ReadyConnectionLeavesNothing`,
`SequencesContinue` and the refinement of `EventOutbox`, for any number of
events, concurrent writes, overlapping replays and faults, from
`NoReplayAssumption` and `BoundAssumption`. `Inv` adds to them:

- `LinkInv`: a connection has a replay of its own exactly when it is ready, and
  only an open one has a working transport;
- `KeptInv`: what travels has been kept, and what is acknowledged or unlinked has
  been stored. The refinement needs it: `kept` is the spool together with what
  Center has stored, so removing a stored event's file keeps it;
- `ReplayInv`: a replay holds kept events, so a file that has vanished from under
  it was stored;
- `SeqInv`: the events of the process are the newest, their numbers grow and stay
  at or below the counter, and while a connection is ready an event with a
  greater number is one its replay still has to consider.

`KeptStep` says what any step does to the spool and to Center: nothing kept is
given up, and only kept events become stored. For the events a ready connection
has left, `ReplayStep`, `ConnectionStep` and `EventStep` say once what a replay,
the connection and an event's own steps can change.

`ConversationServiceProofs` proves `OneOpenerPerConversation` and the refinement of
`ConversationRecords`, for any number of conversations, workspaces, keys and
calls. Neither the maps nor the stages say alone that openers exclude each
other; the invariant gives every registered call a ticket and shows that the
registered calls of a conversation settle in the order of their tickets:

- `PendingInv`: the map of restores holds the unsettled call with the greatest
  ticket, or nothing is unsettled;
- `ChainInv`: a relocation waits for a call with a smaller ticket, with none
  between the two, so once that call is settled all before it are;
- `OrderInv`: whoever opens has only settled calls before it;
- `CreationInv`: a creation's id is fresh, and what has no row is activated by
  nobody, so it needs no ticket;
- `RecordInv`, `JoinInv`: what rows, handles and joined calls say of each other,
  which the refinement needs.

Its second half goes on from that invariant to everything else the run
checks: `TypeOK`, `HandleIsBacked`, `NoStraySession`, `OneConversationPerKey`,
`NoCircularWait` and `ContextsMatchTurns`. Each has an invariant of its own:

- `MachineInv` says of every stage of a call what its actor does and who closes
  it. An actor runs exactly while it is the session of its conversation, and one
  that is closing has a call that waits for it to close;
- `HandleInv`: a session is named by the active handle, or the call that opened it
  is about to close it, or its conversation's removal was tried, or the runtime
  is shutting down; and a handle without a session is there for the last two
  reasons only. A step concerns one call and one conversation, so all others
  keep their part (`OnlyCall`);
- `KeyInv`: two rows never have one key, and the creation that has registered a
  key and may still write a row is the only one to have it;
- `WaitInv`: a call that others join waits itself for a restore or a relocation
  only. Those wait in the order of their tickets, so in a circle the one with the
  smallest ticket would have to wait outside it (`NoCircle`);
- `ContextInv`: of the contexts recorded for a conversation, those of prompts the
  agent accepted are its turns, in order; a prompt that may still be accepted has
  the newest context.

`ContextsMatchTurns` filters a sequence, and facts about filtering are inductions.
The provers cannot instantiate the induction theorems of the library, whose
predicate is an operator; `SequenceFilterProofs` states induction for a set (a set of
numbers that has 0 and with each number its successor has them all, because a
least one outside it would have a predecessor) and derives from it what `Kept`,
a recursive function, computes.

The second half of `ChannelDeliveryProofs` proves `OneMessagePerDelivery` and
`SentIsNotSentAgain`: a delivery is posted twice only when its lookup missed the
first message. `SendInv` says who may still send. A workspace session has one
call at a time, and `sending` is set while it lasts (`CallInv`, and `ReplyInv` for the
reply it awaits). A call of a session that was left goes on; `CommitInv` says that
once it is committed to a delivery, no call of a later session has the same one,
because what the later window can know of it offers no confirmation (`FreshInv`,
which needs that nothing the window learns is ahead of the catalog, `AgeInv`).
`MessageInv` concludes that a call that may send a delivery has seen that it caused
no message yet, or its lookup missed one.

`ComponentProofs` has a part for each component. That of `ToolBroker` proves
`CallsAccountedFor` for any number of calls, owners and revisions and any limit;
each way to settle calls shrinks the table with its timers (`SettleShrinks`). That
of `McpAttachment` proves `OneRelay` and `NothingLeftBehind` for any number of
relays, strangers and attempts. `RelayInv` holds the argument of the credential:
who has it has deleted it; `DesktopInv` says nobody is served while the attachment
waits; `CleanupInv` follows the stages of the teardown, each of which keeps what
the earlier ones released. That of `RunnerCommands` proves `CommandsOnceInOrder`
for any number of conversations, commands, redeliveries and any history: `Waits`
says that the chains are chains, and a receipt number places each run in the
history. Its types need an account of the envelopes: each was a run, answered a
permission request that no longer waits, or came too late (`EnvelopeCount`).

The part of `CloudPolling` proves `EventsInOrder` and `KnownCloudsArePolled` for
any number of conversations, events, polls and requests, from `CloudAssumption`.
`PublishedBy` says that a conversation with one poll has got exactly what is
before its cursor, and `OnePoll` that it has at most one until a removal of it has
returned; `PollAt` bounds the timers and requests a poll has under way (`Load`) by the
number of forced polls; `CurrentInv` says that the current poll of a conversation
has one or the other until the service is disposed. The part of `ChannelComposer`
proves `CleanDraftIsSaved` and `UndeliveredTextIsKept` for any number of accounts,
texts, messages and retries, from `ComposerAssumption`: `SavedInv` follows the
text from the window through the save under way to the disk, `BatchInv` says that
what is no longer in a batch was posted, `BlankInv`, `MissingInv` and `EmptiedInv`
where an empty or missing draft may come from. Last, `ComponentsTypeCorrect` puts
the five type theorems together: a step of one component leaves the others alone.

`TurnProjectionProofs` proves `ProjectionTypeOK` and `WrittenTextIsShown` for any number
of prompts, updates, messages, thoughts and tools, from `ContentAssumption`,
`NoneAssumption` and `PromptsAssumption`. Its first half is about the operators:
what the reducer, `ApplyEvents`, `Project` and the collector make of the text shown of
one message or thought (`MessageShown`, `ThoughtShown`), by the induction of
`SequenceFilterProofs` over the events of an update and the updates of a record. The
invariant `ProjectionInv` adds to the types what the text alone does not say:

- `TurnsOK`: the turns agree with what was produced of every content that is not
  astray (`Faithful`). Of a thought this says more than the property: a block that
  can still be continued is one of the last blocks that make up its present text, and
  it is the last block of its turn, so a delta extends the right one. The last event
  is not ahead of `sequence`, so no event is dropped, and every turn has a prompt,
  which bounds their number;
- `Knows`: in version 2 the projector remembers of every content that is not
  astray exactly what was produced of it. A whole message that continues it
  therefore adds only the rest;
- `RecordOK`: in version 1, unless the collector refuses the record, its turns
  show what was produced of every content, astray or not, and have the prompts
  the user sent. It is what `Restart` needs, which makes the collector's turns the
  session's and takes every content back from `astray`;
- `CloudOK`: while prompts do not overlap, what the runner will send as the final
  message is what the projector has shown of the prompt, so `FinalDelta` is empty.

`TurnReplayProofs` proves `ReplayRestoresTurns` over it, for the same constants and
assumptions. The session and the collector of a replay go through the same updates
with projectors of their own, and the session does what the collector never sees: it
asks for permissions, and it ends turns that fail or are cancelled. The property
compares them only at rest, where nothing is astray, so the invariant `RestoreInv`
says what they have in common at every moment that ACP version 1 speaks, unless the
collector refuses the record:

- `CollectorKeeps`: the collector knows only the tools that the record patches, the
  calls of its last turn that are over are those its projector has ended, and the id
  of a prompt, if the agent gives one, is its number;
- `SameTools`: on every tool of the present process the two projectors agree, as long
  as nothing is astray. The tools of an earlier process are known to the collector
  alone; no update names them again;
- `Mirrors`: as long as the record tells one prompt from the next, there are as many
  turns, all but the last look the same, and the last is made of like blocks
  (`BlocksAlike`: equal but for the approval of a tool call, and for the status of one
  the collector has open) until its end makes it look the same.

That a step keeps it rests on three facts about the operators: the same update makes
like blocks of like blocks (`MirrorsGo`, by induction over its events); ending a turn
makes like turns look the same, whoever ends it and however (`MirrorsEnd`); and what
the collector completes by itself at the next prompt, or at the end of the record,
looks as it did (`CompletingLooks`).

`AcpSessionProofs` puts both beside the actor: `WrittenTextShown`, `ReplayRestores` and
`SessionTypeCorrect` are about the specification the run checks.

The type invariants of `RunnerSpool` and `ChannelDelivery` are proved and not
checked by a run as well.

Every safety invariant and every action property of the passing runs is a theorem.
Model-checked only, since fairness is beyond the prover: the liveness properties
`TurnsEnd`, `ApprovalsAnswered`, `EventsReachCenter`, `ConfirmationsEnd`,
`AttachmentSettles` and `CommandsEnd`.

## Not modelled

The models cover the code that decides what happens when: the state machines of
the main process, the runner and two renderer stores. Most of the repository's
lines decide something else, and no model of them would say more than they do:

- components of the window (`App.vue`, `*.vue`), the fixture application, locales,
  styles, formatting and translation: presentation of state kept elsewhere;
- `YunxinWebChannelTransport.ts`, `yunxinNode.ts` and `connection.ts`: adapters of
  SDKs whose behaviour is not in the repository. What callers see of them is the
  environment of `ChannelDelivery`, `ChannelComposer` and `AcpSession`;
- SQL, migrations and JSON stores: single synchronous transactions, which the
  models take as one step; IPC, preload and validation: stateless;
- Tea Center: not in the repository, an environment of `RunnerSpool`,
  `RunnerCommands`, `CloudPolling` and `TurnProjection`;
- agent discovery and workspaces: lookups and single calls;
- the configuration of a session: what an agent advertises, accepted as it comes.

Some code was left out because the property one would want does not hold from
the first overlap on, and no document promises it; the hazards without a
property say where:

- the renderer's conversation store writes late answers to whichever conversation
  is selected (`store.ts:736`, `:683`);
- sign-in, refresh and sign-out do not check after an await whether they were
  overtaken (`centerAuth.ts:406`), which ADR 0014 asks for;
- plugin processes may be started after they were disabled or twice
  (`plugins.ts:79`).

Of modelled components: heartbeats and configuration of the runner, subjects and
models of a conversation, the building of an attachment's directory, message
lists, receipts, search and pins of the channel store.
