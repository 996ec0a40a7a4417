--------------------------- MODULE TurnProjection ---------------------------
(***************************************************************************)
(* The turns of a conversation as its Agent writes them: in a session of   *)
(* the desktop with ACP version 1 or 2 (acp/session.ts), in which version  *)
(* 1 lets the Agent replay its record after a restart, or in the cloud,    *)
(* where a runner adds the final message of each prompt and the desktop    *)
(* projects the events Center has stored (cloudCommandService.ts).         *)
(*                                                                         *)
(* The Agent may write in any order and past the end of a turn, repeat a   *)
(* patch, contradict itself, or end a turn with its tools unfinished.  It  *)
(* asks for permission for tools it has announced in the turn, and gives   *)
(* the tools of another process new ids.                                   *)
(***************************************************************************)
EXTENDS AcpProjection, FiniteSets, SequenceFilters

CONSTANTS MaxPrompts, MaxUpdates   \* bounds of a behaviour

ASSUME PromptsAssumption == MaxPrompts \in Nat /\ MaxUpdates \in Nat

VARIABLES
  protocol,   \* "v1", "v2" or "cloud"
  named,      \* the Agent gives the prompts it records an id
  shownTurns,
  sequence,   \* of the last event
  projecting, \* activeOperation; in the cloud, the prompts the runner has yet to end
  projector,
  record,     \* what a version 1 Agent would replay
  produced,   \* history: what the Agent has written, by message and thought
  updates,    \* their number
  final,      \* runner: text of the messages of the prompt it carries out
  shownText,  \* CloudEventProjector.agentMessageText
  astray,     \* history: messages and thoughts of which an update was not projected
  retired     \* tools of an earlier Agent process

projectionVars == <<protocol, named, shownTurns, sequence, projecting, projector, record, produced,
                    updates, final, shownText, astray, retired>>

Statuses == {"none", "in_progress", "completed", "failed"}

\* The pieces of text of a message or a thought.
Pieces(m) == {m} \X (1..MaxUpdates)
MessageTexts == Seq(Messages \X (1..MaxUpdates))
ThoughtTexts == Seq(Thoughts \X (1..MaxUpdates))

TextBlocks == [kind : {"assistantText"}, text : MessageTexts, streaming : BOOLEAN]
ThoughtBlocks ==
  [kind : {"agentThought"}, text : ThoughtTexts, id : Thoughts, streaming : BOOLEAN]
ToolStatuses == OpenStatus \cup {"completed", "failed", "cancelled"}
BlockApprovals == {None} \cup [id : Tools, status : {"pending"}]
ToolBlocks ==
  [kind : {"toolCall"}, tool : Tools, status : ToolStatuses, approval : BlockApprovals]
Blocks == TextBlocks \cup ThoughtBlocks \cup ToolBlocks \cup {FailureTip}

ConversationTurns ==
  [user : Seq(1..MaxPrompts), status : {"sending", "running", "completed", "failed", "cancelled"},
   blocks : Seq(Blocks), lastEvent : Nat]
RecordedUpdates ==
  [kind : {"user"}, text : Seq(1..MaxPrompts), id : {None} \cup (1..MaxPrompts)]
    \cup [kind : {"messageChunk"}, id : Messages, text : MessageTexts \cup {None}]
    \cup [kind : {"thoughtChunk"}, id : Thoughts, text : ThoughtTexts]
    \cup [kind : {"tool"}, tool : Tools, status : Statuses]
Projectors ==
  [tools : [Tools -> [known : BOOLEAN, status : Statuses, patch : Statuses]],
   texts : [Contents -> MessageTexts \cup ThoughtTexts]]

ProjectionTypeOK ==
  /\ protocol \in {"v1", "v2", "cloud"}
  /\ named \in BOOLEAN
  /\ shownTurns \in Seq(ConversationTurns)
  /\ Len(shownTurns) <= MaxPrompts
  /\ sequence \in Nat
  /\ projecting \in 0..MaxPrompts
  /\ projector \in Projectors
  /\ \A m \in Contents : projector.texts[m] \in Seq(Pieces(m))
  /\ record \in Seq(RecordedUpdates)
  /\ produced \in [Contents -> MessageTexts \cup ThoughtTexts]
  /\ \A m \in Contents : produced[m] \in Seq(Pieces(m))
  /\ updates \in 0..MaxUpdates
  /\ final \in MessageTexts
  /\ shownText \in MessageTexts
  /\ astray \subseteq Contents
  /\ retired \subseteq Tools

ProjectionInit ==
  /\ protocol \in {"v1", "v2", "cloud"}
  /\ named \in BOOLEAN
  /\ protocol # "v1" => ~named
  /\ shownTurns = <<>>
  /\ sequence = 0
  /\ projecting = 0
  /\ projector = NewProjector
  /\ record = <<>>
  /\ produced = [m \in Contents |-> <<>>]
  /\ updates = 0
  /\ final = <<>>
  /\ shownText = <<>>
  /\ astray = {}
  /\ retired = {}

Version == IF protocol = "v2" THEN 2 ELSE 1

\* emitKind, once for each event; of several events of a cloud update too.
EmitEvents(events) ==
  /\ shownTurns' = ApplyEvents(shownTurns, sequence, events)
  /\ sequence' = sequence + Len(events)

Recorded(update) == IF protocol = "v1" THEN Append(record, update) ELSE record

\* How many prompts the turns show; a restored turn may show several.
Prompts == Len(FlattenSeq([i \in DOMAIN shownTurns |-> shownTurns[i].user]))

\* prompt: the session opens the turn and sends it to the Agent.
PromptTurn ==
  /\ protocol # "cloud" /\ projecting = 0 /\ Prompts < MaxPrompts
  /\ LET n == Prompts + 1
         turn == CreateConversationTurn(<<n>>, sequence)
     IN /\ shownTurns' = Append(shownTurns, Reduce(turn, sequence + 1, RunStarted))
        /\ record' = Recorded(UserChunk(n, IF named THEN n ELSE None))
  /\ sequence' = sequence + 1
  /\ projecting' = 1
  /\ UNCHANGED <<protocol, named, projector, produced, updates, final, shownText, astray, retired>>

\* user.prompt: Center has accepted a prompt, whatever the runner is still doing.
CloudPrompt ==
  /\ protocol = "cloud" /\ Prompts < MaxPrompts
  /\ shownTurns' = Append(shownTurns, CreateConversationTurn(<<Prompts + 1>>, sequence + 1))
  /\ sequence' = sequence + 1
  /\ projecting' = projecting + 1
  /\ shownText' = <<>>
  /\ astray' = IF projecting > 0 THEN Contents ELSE astray
  /\ UNCHANGED <<protocol, named, projector, record, produced, updates, final, retired>>

-----------------------------------------------------------------------------
(* What the Agent may write.                                               *)

Piece(id) == <<id, updates + 1>>

Chunks ==
  {[kind |-> "messageChunk", id |-> m, text |-> <<Piece(m)>>] : m \in Messages}
    \cup {[kind |-> "thoughtChunk", id |-> m, text |-> <<Piece(m)>>] : m \in Thoughts}
NonText == {[kind |-> "messageChunk", id |-> m, text |-> None] : m \in Messages}

\* A message or a thought is repeated, continued or replaced.
Wholes ==
  LET Texts(m) == {produced[m], Append(produced[m], Piece(m)), <<Piece(m)>>, <<>>}
      Whole(kind, m) == {[kind |-> kind, id |-> m, text |-> text] : text \in Texts(m)}
  IN UNION ({Whole("message", m) : m \in Messages} \cup {Whole("thought", m) : m \in Thoughts})

Patches == {[kind |-> "tool", tool |-> t, status |-> s] : t \in Tools \ retired, s \in Statuses}

Written(texts, update) ==
  CASE update.kind \in {"message", "thought"} -> [texts EXCEPT ![update.id] = update.text]
    [] update.kind \in {"messageChunk", "thoughtChunk"} ->
         [texts EXCEPT ![update.id] = @ \o ContentText(update.text)]
    [] OTHER -> texts

Writes(update) ==
  /\ updates < MaxUpdates
  /\ updates' = updates + 1
  /\ produced' = Written(produced, update)
  /\ record' = Recorded(update)

Loses(update) == IF update.kind = "tool" THEN astray ELSE astray \cup {update.id}

Inputs ==
  Chunks \cup Patches \cup (IF protocol = "v2" THEN Wholes ELSE NonText)

\* handleSessionUpdate: the update is projected, or ends the turn as failed.
Update(update) ==
  LET projected == Project(Version, projector, update)
  IN /\ protocol # "cloud" /\ projecting = 1
     /\ Writes(update)
     /\ projector' = projected.projector
     /\ IF projected.refused
        THEN EmitEvents(<<RunFailed("failed")>>) /\ projecting' = 0 /\ astray' = Loses(update)
        ELSE EmitEvents(projected.events) /\ UNCHANGED <<projecting, astray>>
     /\ UNCHANGED <<protocol, named, final, shownText, retired>>

\* handleSessionUpdate without an active turn: the update is refused unseen.
LateUpdate(update) ==
  /\ protocol # "cloud" /\ projecting = 0 /\ shownTurns # <<>>
  /\ Writes(update)
  /\ astray' = IF update.kind = "tool" THEN Contents ELSE astray \cup {update.id}
  /\ UNCHANGED <<protocol, named, shownTurns, sequence, projecting, projector, final, shownText, retired>>

\* acp.session.update: the runner stores it, the desktop projects what it can.
CloudUpdate(update) ==
  LET projected == Project(1, projector, update)
      said == IF update.kind = "messageChunk" THEN ContentText(update.text) ELSE <<>>
  IN /\ protocol = "cloud" /\ projecting > 0
     /\ Writes(update)
     /\ projector' = projected.projector
     /\ EmitEvents(projected.events)
     /\ shownText' = shownText \o MessageText(projected.events)
     /\ final' = final \o said
     /\ UNCHANGED <<protocol, named, projecting, astray, retired>>

\* handlePermissionRequest, permission.requested; a tool asks once in a turn.
Permission(tool) ==
  /\ projecting > 0
  /\ projector.tools[tool].status \notin Terminal
  /\ LET blocks == Last(shownTurns).blocks
         i == FindTool(blocks, tool)
     IN i # 0 /\ blocks[i].approval = None
  /\ EmitEvents(<<ApprovalRequested(tool, tool)>>)
  /\ UNCHANGED <<protocol, named, projecting, projector, record, produced, updates, final,
                 shownText, astray, retired>>

-----------------------------------------------------------------------------
\* The answer to session/prompt, an idle update, or cancel.
TurnEnds(end) ==
  /\ protocol # "cloud" /\ projecting = 1
  /\ EmitEvents(<<end>>)
  /\ projecting' = 0
  /\ UNCHANGED <<protocol, named, projector, record, produced, updates, final, shownText,
                 astray, retired>>

CloudEvent(event) ==
  /\ EmitEvents(<<event>>)
  /\ shownText' = <<>>
  /\ final' = <<>>
  /\ UNCHANGED <<protocol, named, projector, record, produced, updates, astray, retired>>

\* assistant.message, conversation.failed: the runner has carried out a prompt.
CloudTurnEnds(event) ==
  /\ protocol = "cloud" /\ projecting > 0
  /\ projecting' = projecting - 1
  /\ CloudEvent(event)

\* conversation.cancelled: the runner comes to a cancel once its prompt is over.
\* One in a turn that has not failed is enough.
CloudCancelled ==
  /\ protocol = "cloud" /\ shownTurns # <<>> /\ final = <<>>
  /\ \A i \in DOMAIN Last(shownTurns).blocks : Last(shownTurns).blocks[i] # FailureTip
  /\ CloudEvent(RunFailed("cancelled"))
  /\ UNCHANGED projecting

\* Another process of the desktop and the Agent: session/load replays the record.
RestoreFrom(replay) ==
  /\ ~replay.refused
  /\ shownTurns' = replay.turns
  /\ sequence' = replay.sequence

Restart ==
  /\ protocol = "v1" /\ record # <<>>
  /\ RestoreFrom(Replay(record))
  /\ projecting' = 0
  /\ projector' = NewProjector
  /\ astray' = {}
  /\ retired' = {t \in Tools : \E i \in DOMAIN record : record[i].kind = "tool" /\ record[i].tool = t}
  /\ UNCHANGED <<protocol, named, record, produced, updates, final, shownText>>

Ends == {RunFinished, RunFailed("failed"), RunFailed("cancelled")}

ProjectionNext ==
  \/ PromptTurn \/ CloudPrompt \/ CloudCancelled \/ Restart
  \/ \E update \in Inputs : Update(update) \/ LateUpdate(update) \/ CloudUpdate(update)
  \/ \E tool \in Tools : Permission(tool)
  \/ \E end \in Ends : TurnEnds(end)
  \/ \E event \in {MessageDelta(FinalDelta(shownText, final), TRUE), RunFailed("failed")} :
       CloudTurnEnds(event)

ProjectionSpec == ProjectionInit /\ [][ProjectionNext]_projectionVars

-----------------------------------------------------------------------------
\* What a reader of a turn sees, whoever ended it.
WithoutTip(blocks) ==
  FlattenSeq([i \in DOMAIN blocks |->
    IF blocks[i].kind = "failureTip" THEN <<>> ELSE <<blocks[i]>>])
Appearance(turn) == [user |-> turn.user, blocks |-> WithoutTip(CloseStreamingText(turn.blocks))]

\* The Agent's record tells where a turn ends: its prompts have ids, or every turn shows something.
Delimited ==
  named \/ \A i \in DOMAIN shownTurns : Appearance(shownTurns[i]).blocks # <<>>

(* A conversation that is restored shows the turns it showed before: the      *)
(* collector makes of the Agent's record what the session made of the same    *)
(* updates while they came, whoever ended the turns and whatever was repeated *)
(* or cancelled.  Not so for an update that came without a turn, which the    *)
(* session refuses and the collector adds to the turn before, nor for turns   *)
(* that nothing delimits, which the collector joins.                          *)
ReplayRestoresTurns ==
  LET Shows(replay) ==
        ~replay.refused => /\ Len(replay.turns) = Len(shownTurns)
                           /\ \A i \in DOMAIN shownTurns :
                                Appearance(replay.turns[i]) = Appearance(shownTurns[i])
  IN (protocol = "v1" /\ projecting = 0 /\ astray = {} /\ Delimited) => Shows(Replay(record))

\* What blocks and turns show of a message, and the blocks in which they show a thought.
MessagePart(block, m) ==
  IF block.kind = "assistantText" THEN Kept(block.text, Pieces(m)) ELSE <<>>
ThoughtPart(block, m) ==
  IF block.kind = "agentThought" /\ block.id = m THEN <<block.text>> ELSE <<>>
MessageIn(blocks, m) == FlattenSeq([i \in DOMAIN blocks |-> MessagePart(blocks[i], m)])
ThoughtIn(blocks, m) == FlattenSeq([i \in DOMAIN blocks |-> ThoughtPart(blocks[i], m)])
MessageShown(ts, m) == FlattenSeq([i \in DOMAIN ts |-> MessageIn(ts[i].blocks, m)])
ThoughtShown(ts, m) == FlattenSeq([i \in DOMAIN ts |-> ThoughtIn(ts[i].blocks, m)])

(* Everything the Agent has said is shown, once and in order, and no more,    *)
(* although it may say it in pieces, in full, or both, and interleave it with *)
(* thoughts and tools; of a thought that it replaced, the last blocks show    *)
(* what it says now.  In the cloud this holds for prompts that did not        *)
(* overlap, while the one being carried out has yet to be ended.              *)
WrittenTextIsShown ==
  /\ \A m \in Messages \ astray : MessageShown(shownTurns, m) = produced[m]
  /\ \A m \in Thoughts \ astray :
       LET texts == ThoughtShown(shownTurns, m)
       IN \E i \in 1..(Len(texts) + 1) :
            FlattenSeq(SubSeq(texts, i, Len(texts))) = produced[m]
=============================================================================
