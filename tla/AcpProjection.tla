--------------------------- MODULE AcpProjection ---------------------------
(***************************************************************************)
(* What Tea makes of the updates of an ACP Agent: AcpEventProjector (acp/  *)
(* projector.ts), AcpV1ReplayCollector (acp/replay.ts) and the projector   *)
(* and history of cloud conversations (cloudCommandService.ts), as         *)
(* operators.                                                              *)
(*                                                                         *)
(* An update is a chunk or the whole of a message or a thought, with the   *)
(* text that contentText finds in it (None where its content is no text),  *)
(* or a patch of a tool call, of which the status is kept.  Two patches    *)
(* with the same status have the same fingerprint; a tool that the Agent   *)
(* cancelled goes the way of one that failed.  The limits of a replay are  *)
(* not reached, and no prompt is empty.                                    *)
(***************************************************************************)
EXTENDS TurnReducer

CONSTANTS
  Tools,     \* tool call ids
  Messages,  \* ids of agent messages
  Thoughts   \* ids of agent thoughts

\* Messages and thoughts are kept apart by the kind of an update, here by their ids.
ASSUME ContentAssumption == Messages # {} /\ Messages \cap Thoughts = {}
ASSUME NoneAssumption == None \notin Nat /\ None \notin Seq((Messages \cup Thoughts) \X Nat)

Terminal == {"completed", "failed"}
Contents == Messages \cup Thoughts
Kinds == {"messageChunk", "message", "thoughtChunk", "thought", "tool"}

\* Constructor of AcpEventProjector.
NewProjector ==
  [tools |-> [t \in Tools |-> [known |-> FALSE, status |-> "none", patch |-> "none"]],
   texts |-> [m \in Contents |-> <<>>]]

Projected(projector, events) == [projector |-> projector, events |-> events, refused |-> FALSE]
Invalid(projector) == [projector |-> projector, events |-> <<>>, refused |-> TRUE]

ContentText(text) == IF text = None THEN <<>> ELSE text
Delta(kind, id, text, replace) ==
  IF kind = "message" THEN <<MessageDelta(text, FALSE)>> ELSE <<ThoughtDelta(text, id, replace)>>

\* textDelta, thoughtDelta
ProjectV1Chunk(projector, kind, id, text) ==
  Projected(projector, IF text = <<>> THEN <<>> ELSE Delta(kind, id, text, FALSE))

\* Defect: a chunk is not added to what the message is known to contain.
ProjectV2Chunk_Forgotten(projector, kind, id, text) == ProjectV1Chunk(projector, kind, id, text)

\* projectV2AgentChunk, projectV2AgentThoughtChunk
ProjectV2Chunk(projector, kind, id, text) ==
  IF text = <<>> THEN Projected(projector, <<>>)
  ELSE Projected([projector EXCEPT !.texts[id] = @ \o text], Delta(kind, id, text, FALSE))

\* projectV2AgentMessage, projectV2AgentThought
ProjectWhole(projector, kind, id, text) ==
  LET previous == projector.texts[id]
      grows == IsPrefix(previous, text)
      projectedTo(events) == Projected([projector EXCEPT !.texts[id] = text], events)
  IN CASE text = previous -> Projected(projector, <<>>)
       [] text # previous /\ grows ->
            projectedTo(Delta(kind, id, SubSeq(text, Len(previous) + 1, Len(text)), FALSE))
       [] ~grows /\ kind = "message" -> Invalid(projector)
       [] ~grows /\ kind = "thought" -> projectedTo(Delta(kind, id, text, TRUE))

ToolEvents(tool, known, status) ==
  (IF known THEN <<>> ELSE <<ToolRequested(tool)>>)
    \o (CASE status = "in_progress" -> <<ToolProgress(tool)>>
          [] status \in Terminal -> <<ToolCompleted(tool, status)>>
          [] OTHER -> <<>>)

ProjectTool(projector, tool, patch) ==
  LET old == projector.tools[tool]
      status == IF patch = "none" THEN old.status ELSE patch
  IN CASE old.known /\ old.patch = patch -> Projected(projector, <<>>)
       [] old.patch # patch /\ old.status \in Terminal ->
            IF patch = old.status THEN Projected(projector, <<>>) ELSE Invalid(projector)
       [] OTHER ->
            Projected([projector EXCEPT !.tools[tool] =
                         [known |-> TRUE, status |-> status, patch |-> patch]],
                      ToolEvents(tool, old.known, status))

KindOf(update) == IF update.kind \in {"messageChunk", "message"} THEN "message" ELSE "thought"

\* project, of an update that the wire version has.
Project(version, projector, update) ==
  CASE update.kind = "tool" -> ProjectTool(projector, update.tool, update.status)
    [] update.kind \in {"message", "thought"} ->
         ProjectWhole(projector, update.kind, update.id, update.text)
    [] OTHER ->
         IF version = 1
         THEN ProjectV1Chunk(projector, KindOf(update), update.id, ContentText(update.text))
         ELSE ProjectV2Chunk(projector, KindOf(update), update.id, ContentText(update.text))

\* An event reaches the last turn.
ApplyEvent(turns, sequence, event) ==
  ReplaceAt(turns, Len(turns), Reduce(Last(turns), sequence, event))

\* Events reach it one after the other, each with the next sequence number.
ApplyEvents(turns, sequence, events) ==
  LET applied[n \in 0..Len(events)] ==
        IF n = 0 THEN turns ELSE ApplyEvent(applied[n - 1], sequence + n, events[n])
  IN applied[Len(events)]

-----------------------------------------------------------------------------
(* AcpV1ReplayCollector: the turns of a conversation from what the Agent   *)
(* recorded of it.                                                         *)

UserChunk(prompt, id) == [kind |-> "user", text |-> <<prompt>>, id |-> id]

NewCollector ==
  [projector |-> NewProjector, turns |-> <<>>, sequence |-> 0, phase |-> "empty",
   id |-> None, refused |-> FALSE]

Collect(collector, events) ==
  [collector EXCEPT !.turns = ApplyEvents(@, collector.sequence, events),
                    !.sequence = @ + Len(events)]

Unfinished(turn) ==
  \E i \in DOMAIN turn.blocks :
    turn.blocks[i].kind = "toolCall" /\ turn.blocks[i].status \in OpenStatus

CompleteCurrentTurn(collector) ==
  IF Unfinished(Last(collector.turns)) THEN [collector EXCEPT !.refused = TRUE]
  ELSE Collect(collector, <<RunFinished>>)

BeginReplayedTurn(collector, id) ==
  IF collector.refused THEN collector
  ELSE Collect([collector EXCEPT !.turns = Append(@, CreateConversationTurn(<<>>, collector.sequence)),
                                 !.id = id, !.phase = "user"],
               <<RunStarted>>)

StartTurn(collector, id) ==
  BeginReplayedTurn(IF collector.turns = <<>> THEN collector ELSE CompleteCurrentTurn(collector), id)

\* Defect: output between two prompts does not end the first turn.
StartsNewMessage_Ids(collector, id) ==
  collector.phase = "empty" \/ (id # None /\ collector.id # None /\ id # collector.id)

StartsNewMessage(collector, id) ==
  \/ collector.phase \in {"empty", "output"}
  \/ id # None /\ collector.id # None /\ id # collector.id

ExtendUser(collector, text) ==
  IF collector.refused THEN collector
  ELSE [collector EXCEPT !.turns[Len(collector.turns)].user = @ \o text, !.phase = "user"]

AcceptUserChunk(collector, update) ==
  ExtendUser(IF StartsNewMessage(collector, update.id) THEN StartTurn(collector, update.id)
             ELSE collector,
             update.text)

AcceptOutput(collector, update) ==
  LET projected == Project(1, collector.projector, update)
      seen == [collector EXCEPT !.projector = projected.projector]
      unreadable == projected.refused \/ (update.kind # "tool" /\ update.text = None)
  IN CASE unreadable -> [collector EXCEPT !.refused = TRUE]
       [] ~unreadable /\ projected.events = <<>> -> seen
       [] ~unreadable /\ projected.events # <<>> /\ collector.phase = "empty" ->
            [collector EXCEPT !.refused = TRUE]
       [] OTHER -> Collect([seen EXCEPT !.phase = "output"], projected.events)

Accept(collector, update) ==
  IF collector.refused THEN collector
  ELSE IF update.kind = "user" THEN AcceptUserChunk(collector, update)
  ELSE AcceptOutput(collector, update)

\* The updates of session/load, then finish().
Finish(collector) ==
  IF collector.refused \/ collector.turns = <<>> THEN [collector EXCEPT !.refused = TRUE]
  ELSE CompleteCurrentTurn(collector)

Collected(record) ==
  LET collected[n \in 0..Len(record)] ==
        IF n = 0 THEN NewCollector ELSE Accept(collected[n - 1], record[n])
  IN collected[Len(record)]

Replay(record) == Finish(Collected(record))

-----------------------------------------------------------------------------
(* CloudEventProjector: the messages so far tell how much of the final one *)
(* is new.                                                                 *)

\* Defect: the final message is shown in full.
FinalDelta_Whole(shown, text) == text

FinalDelta(shown, text) ==
  IF shown # <<>> /\ IsPrefix(shown, text) THEN SubSeq(text, Len(shown) + 1, Len(text)) ELSE text

\* agentMessageText after an update.
MessageText(events) ==
  FlattenSeq([i \in DOMAIN events |->
    IF events[i].type = "messageDelta" THEN events[i].text ELSE <<>>])
=============================================================================
