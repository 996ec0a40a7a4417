---------------------------- MODULE TurnReducer ----------------------------
(***************************************************************************)
(* The reducer of features/conversation/timelineReducer.ts: what an event  *)
(* of a conversation makes of the turn it is applied to.  The session, the *)
(* collector of a replay, the history of a cloud conversation and the      *)
(* window all use it.                                                      *)
(*                                                                         *)
(* A turn is a list of blocks.  Text is a sequence of pieces; the names,   *)
(* arguments and messages of tools, the resources of an approval and the   *)
(* wording of a failure are left out.  A block other than a tool call is   *)
(* told from its neighbours by its place, which its id only repeats.       *)
(***************************************************************************)
EXTENDS Naturals, Sequences, SequencesExt

CONSTANT None

OpenStatus == {"requested", "running", "approvalRequired"}

CreateConversationTurn(user, sequence) ==
  [user |-> user, status |-> "sending", blocks |-> <<>>, lastEvent |-> sequence]

TextBlock(text) == [kind |-> "assistantText", text |-> text, streaming |-> TRUE]
ThoughtBlock(text, id) == [kind |-> "agentThought", text |-> text, id |-> id, streaming |-> TRUE]
ToolBlock(tool) == [kind |-> "toolCall", tool |-> tool, status |-> "requested", approval |-> None]
FailureTip == [kind |-> "failureTip"]

\* The events, ConversationEventKind.
RunStarted == [type |-> "runStarted"]
MessageDelta(text, terminal) == [type |-> "messageDelta", text |-> text, terminal |-> terminal]
ThoughtDelta(text, id, replace) ==
  [type |-> "thoughtDelta", text |-> text, id |-> id, replace |-> replace]
ToolRequested(tool) == [type |-> "toolRequested", tool |-> tool]
ToolProgress(tool) == [type |-> "toolProgress", tool |-> tool]
ToolCompleted(tool, status) == [type |-> "toolCompleted", tool |-> tool, status |-> status]
ApprovalRequested(tool, approval) ==
  [type |-> "approvalRequested", tool |-> tool, approval |-> approval]
RunFinished == [type |-> "runFinished"]
RunFailed(status) == [type |-> "runFailed", status |-> status]

-----------------------------------------------------------------------------
FindTool(blocks, tool) ==
  SelectInSeq(blocks, LAMBDA block : block.kind = "toolCall" /\ block.tool = tool)

CloseStreamingText(blocks) ==
  [i \in DOMAIN blocks |->
     IF blocks[i].kind \in {"assistantText", "agentThought"}
     THEN [blocks[i] EXCEPT !.streaming = FALSE] ELSE blocks[i]]

\* What an open tool call becomes when its turn ends.
ToolEnd(status, end) ==
  CASE status \notin OpenStatus -> status
    [] status \in OpenStatus /\ end # "completed" -> end
    [] status = "approvalRequired" /\ end = "completed" -> "cancelled"
    [] OTHER -> "completed"

CloseTurnBlocks(blocks, end) ==
  [i \in DOMAIN blocks |->
     IF blocks[i].kind = "toolCall"
     THEN [blocks[i] EXCEPT !.status = ToolEnd(@, end), !.approval = None]
     ELSE CloseStreamingText(blocks)[i]]

End(turn, end) == [turn EXCEPT !.status = end, !.blocks = CloseTurnBlocks(@, end)]

\* The tool has a block, or gets one that ends the text before it.
WithTool(turn, tool) ==
  [turn EXCEPT !.status = "running",
               !.blocks = IF FindTool(@, tool) # 0 THEN @
                          ELSE Append(CloseStreamingText(@), ToolBlock(tool))]

LastIs(blocks, kind) == blocks # <<>> /\ Last(blocks).kind = kind
Running(turn, blocks) == [turn EXCEPT !.status = "running", !.blocks = blocks]
ExtendLast(blocks, text) == [blocks EXCEPT ![Len(blocks)].text = @ \o text]

ReduceMessage(turn, event) ==
  LET joins == LastIs(turn.blocks, "assistantText") /\ Last(turn.blocks).streaming
      blocks == IF joins THEN ExtendLast(turn.blocks, event.text)
                ELSE Append(turn.blocks, TextBlock(event.text))
  IN IF event.terminal THEN End(Running(turn, blocks), "completed") ELSE Running(turn, blocks)

ReduceThought(turn, event) ==
  LET blocks == turn.blocks
      same == LastIs(blocks, "agentThought") /\ Last(blocks).id = event.id
  IN CASE same /\ ~event.replace /\ Last(blocks).streaming ->
            Running(turn, ExtendLast(blocks, event.text))
       [] same /\ event.replace /\ event.text = <<>> ->
            Running(turn, Front(blocks))
       [] same /\ event.replace /\ event.text # <<>> ->
            Running(turn, ReplaceAt(blocks, Len(blocks), ThoughtBlock(event.text, event.id)))
       [] ~(same /\ (event.replace \/ Last(blocks).streaming)) /\ event.text = <<>> -> turn
       [] OTHER ->
            Running(turn, Append(CloseStreamingText(blocks), ThoughtBlock(event.text, event.id)))

ReduceToolCompleted(turn, event) ==
  LET i == FindTool(turn.blocks, event.tool)
  IN IF i = 0 THEN turn
     ELSE [turn EXCEPT !.blocks[i].status = event.status, !.blocks[i].approval = None]

Apply(turn, event) ==
  CASE event.type = "runStarted" -> [turn EXCEPT !.status = "running"]
    [] event.type = "messageDelta" -> ReduceMessage(turn, event)
    [] event.type = "thoughtDelta" -> ReduceThought(turn, event)
    [] event.type = "toolRequested" -> WithTool(turn, event.tool)
    [] event.type = "toolProgress" ->
         LET known == WithTool(turn, event.tool)
         IN [known EXCEPT !.blocks[FindTool(known.blocks, event.tool)].status = "running"]
    [] event.type = "toolCompleted" -> ReduceToolCompleted(turn, event)
    [] event.type = "approvalRequested" ->
         LET known == WithTool(turn, event.tool)
             i == FindTool(known.blocks, event.tool)
         IN [known EXCEPT !.blocks[i].status = "approvalRequired",
                          !.blocks[i].approval = [id |-> event.approval, status |-> "pending"]]
    [] event.type = "runFinished" -> End(turn, "completed")
    [] event.type = "runFailed" ->
         [End(turn, event.status) EXCEPT !.blocks = Append(@, FailureTip)]

\* reduceConversationTurn
Reduce(turn, sequence, event) ==
  IF sequence <= turn.lastEvent THEN turn
  ELSE Apply([turn EXCEPT !.lastEvent = sequence], event)

=============================================================================
