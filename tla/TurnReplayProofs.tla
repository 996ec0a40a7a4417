-------------------------- MODULE TurnReplayProofs --------------------------
(***************************************************************************)
(* More proofs about TurnProjection, over TurnProjectionProofs: a replay   *)
(* of a version 1 Agent's record restores the turns the desktop has shown, *)
(* for every number of prompts and updates and every set of messages,      *)
(* thoughts and tools.                                                     *)
(*                                                                         *)
(* The collector of a replay and the session go through the same updates   *)
(* with projectors of their own.  RestoreInv says what they have in common *)
(* while the record grows: of the tools of this process the projectors     *)
(* know the same (SameTools), and the collector's turns mirror those shown *)
(* (Mirrors): all but the last look the same, and the last is made of like *)
(* blocks (BlocksAlike) until its end makes it look the same.  For that,   *)
(* one update must make like blocks of like blocks (MirrorsGo), and ending *)
(* or completing a turn must not show whether a tool was asked about or    *)
(* left open (MirrorsEnd, CompletingLooks).                                *)
(***************************************************************************)
EXTENDS TurnProjectionProofs

(* What a replay restores. The collector has seen what the session has seen,  *)
(* but for permissions and the end of a turn: its blocks are the session's,   *)
(* a tool call that is over has the same status, and none has an approval.    *)
BlockAlike(a, b) ==
    IF a.kind = "toolCall"
    THEN /\ b.kind = "toolCall" /\ b.tool = a.tool /\ a.approval = None
         /\ a.status \notin OpenStatus => b.status = a.status
    ELSE b = a

BlocksAlike(a, b) ==
    /\ a \in Seq(Blocks) /\ b \in Seq(Blocks) /\ Len(b) = Len(a)
    /\ \A i \in 1..Len(a) : BlockAlike(a[i], b[i])

IsCallOf(x, tool) == x.kind = "toolCall" /\ x.tool = tool
IsOver(x, tool) == IsCallOf(x, tool) /\ x.status \notin OpenStatus

(* The tools that have a call among the blocks, and those whose call is over. *)
ToolsIn(blocks) == {tool \in Tools : \E i \in 1..Len(blocks) : IsCallOf(blocks[i], tool)}
OverIn(blocks) == {tool \in Tools : \E i \in 1..Len(blocks) : IsOver(blocks[i], tool)}

(* Blocks that were alike still are; which tools may have been called or ended. *)
Goes(a, c, b, d, called, ended) ==
    /\ BlocksAlike(c, d)
    /\ ToolsIn(c) \subseteq ToolsIn(a) \cup called
    /\ OverIn(c) \subseteq OverIn(a) \cup ended

LEMMA GoesThen ==
    ASSUME NEW a, NEW b, NEW c, NEW d, NEW x, NEW y, NEW called, NEW ended,
           Goes(a, c, b, d, called, ended), Goes(c, x, d, y, called, ended)
    PROVE  Goes(a, x, b, y, called, ended)
BY DEF Goes

LEMMA GoesMore ==
    ASSUME NEW a, NEW b, NEW c, NEW d, NEW called, NEW ended, Goes(a, c, b, d, called, ended),
           NEW more, NEW over, called \subseteq more, ended \subseteq over
    PROVE  Goes(a, c, b, d, more, over)
BY DEF Goes

LEMMA GoesNowhere ==
    ASSUME NEW a, NEW b, BlocksAlike(a, b), NEW called, NEW ended
    PROVE  Goes(a, a, b, b, called, ended)
BY DEF Goes

(* Blocks that differ in what does not matter. *)
LEMMA GoesAlike ==
    ASSUME NEW a, NEW b, BlocksAlike(a, b), NEW c \in Seq(Blocks), NEW d \in Seq(Blocks),
           Len(c) = Len(a), Len(d) = Len(b), NEW called \in SUBSET Tools, NEW ended \in SUBSET Tools,
           \A i \in 1..Len(a) : BlockAlike(c[i], d[i]),
           \A i \in 1..Len(a), tool \in Tools : IsCallOf(c[i], tool) => IsCallOf(a[i], tool),
           \A i \in 1..Len(a), tool \in Tools \ ended : IsOver(c[i], tool) => IsOver(a[i], tool)
    PROVE  Goes(a, c, b, d, called, ended)
<1>1. BlocksAlike(c, d)
  BY DEF BlocksAlike
<1>2. ToolsIn(c) \subseteq ToolsIn(a)
  BY DEF ToolsIn
<1>3. OverIn(c) \subseteq OverIn(a) \cup ended
  BY DEF OverIn
<1> QED BY <1>1, <1>2, <1>3 DEF Goes

LEMMA GoesOn ==
    ASSUME NEW a, NEW b, BlocksAlike(a, b), NEW x \in Blocks, NEW y \in Blocks, BlockAlike(x, y),
           NEW called \in SUBSET Tools, \A tool \in Tools : IsCallOf(x, tool) => tool \in called /\ ~IsOver(x, tool),
           NEW ended
    PROVE  Goes(a, Append(a, x), b, Append(b, y), called, ended)
<1>1. a \in Seq(Blocks) /\ b \in Seq(Blocks) /\ Len(b) = Len(a)
  BY DEF BlocksAlike
<1>2. PICK c \in Seq(Blocks) : c = Append(a, x)
  BY <1>1, LastOfAppend
<1>3. PICK d \in Seq(Blocks) : d = Append(b, y)
  BY <1>1, LastOfAppend
<1>4. Len(c) = Len(a) + 1 /\ Len(d) = Len(c) /\ c[Len(a) + 1] = x /\ d[Len(a) + 1] = y
      /\ \A i \in 1..Len(a) : c[i] = a[i] /\ d[i] = b[i]
  BY <1>1, <1>2, <1>3
<1>5. \A i \in 1..Len(c) : i \in 1..Len(a) \/ i = Len(a) + 1
  BY <1>1, <1>4
<1>6. BlocksAlike(c, d)
  BY <1>1, <1>4, <1>5 DEF BlocksAlike
<1>7. ToolsIn(c) \subseteq ToolsIn(a) \cup called
  BY <1>4, <1>5 DEF ToolsIn
<1>8. OverIn(c) \subseteq OverIn(a) \cup ended
  BY <1>4, <1>5 DEF OverIn, IsOver
<1> QED BY <1>2, <1>3, <1>6, <1>7, <1>8 DEF Goes

LEMMA LastAlike ==
    ASSUME NEW a, NEW b, BlocksAlike(a, b), a # <<>>
    PROVE  /\ b # <<>> /\ BlockAlike(Last(a), Last(b)) /\ BlocksAlike(Front(a), Front(b))
           /\ a = Append(Front(a), Last(a)) /\ b = Append(Front(b), Last(b))
<1>1. a \in Seq(Blocks) /\ b \in Seq(Blocks) /\ Len(b) = Len(a) /\ b # <<>>
  BY DEF BlocksAlike
<1>2. /\ Len(a) \in 1..Len(a) /\ Last(a) = a[Len(a)] /\ Front(a) \in Seq(Blocks) /\ Len(Front(a)) = Len(a) - 1
      /\ \A i \in 1..(Len(a) - 1) : Front(a)[i] = a[i]
      /\ a = Append(Front(a), Last(a))
  BY <1>1, LastOfSequence
<1>3. /\ Last(b) = b[Len(b)] /\ Front(b) \in Seq(Blocks) /\ Len(Front(b)) = Len(b) - 1
      /\ \A i \in 1..(Len(b) - 1) : Front(b)[i] = b[i]
      /\ b = Append(Front(b), Last(b))
  BY <1>1, LastOfSequence
<1>4. BlockAlike(Last(a), Last(b))
  BY <1>1, <1>2, <1>3 DEF BlocksAlike
<1>5. BlocksAlike(Front(a), Front(b))
  <2>1. \A i \in 1..(Len(a) - 1) : i \in 1..Len(a) /\ BlockAlike(a[i], b[i])
    BY <1>1 DEF BlocksAlike
  <2> QED BY <1>1, <1>2, <1>3, <2>1 DEF BlocksAlike
<1> QED BY <1>1, <1>2, <1>3, <1>4, <1>5

LEMMA ClosingAlike ==
    ASSUME NEW a, NEW b, BlocksAlike(a, b), NEW called \in SUBSET Tools, NEW ended \in SUBSET Tools
    PROVE  Goes(a, CloseStreamingText(a), b, CloseStreamingText(b), called, ended)
<1>1. a \in Seq(Blocks) /\ b \in Seq(Blocks) /\ Len(b) = Len(a) /\ \A i \in 1..Len(a) : BlockAlike(a[i], b[i])
  BY DEF BlocksAlike
<1>2. PICK c : c = CloseStreamingText(a)
  OBVIOUS
<1>3. PICK d : d = CloseStreamingText(b)
  OBVIOUS
<1>4. c \in Seq(Blocks) /\ Len(c) = Len(a) /\ d \in Seq(Blocks) /\ Len(d) = Len(b)
  BY <1>1, <1>2, <1>3, ClosingText
<1>5. ASSUME NEW i \in 1..Len(a)
      PROVE  /\ BlockAlike(c[i], d[i])
             /\ \A tool \in Tools : IsCallOf(c[i], tool) => IsCallOf(a[i], tool)
             /\ \A tool \in Tools : IsOver(c[i], tool) => IsOver(a[i], tool)
  <2>1. a[i] \in Blocks /\ b[i] \in Blocks /\ BlockAlike(a[i], b[i]) /\ i \in 1..Len(b)
    BY <1>1
  <2>2. CASE a[i].kind \in {"toolCall", "failureTip"}
    <3>1. c[i] = a[i]
      BY <1>1, <1>2, <2>2, ClosingText
    <3>2. b[i].kind \in {"toolCall", "failureTip"}
      BY <2>1, <2>2 DEF BlockAlike
    <3>3. d[i] = b[i]
      BY <1>1, <1>3, <2>1, <3>2, ClosingText
    <3> QED BY <2>1, <3>1, <3>3
  <2>3. CASE a[i].kind \in {"assistantText", "agentThought"}
    <3>1. b[i] = a[i]
      BY <2>1, <2>3 DEF BlockAlike
    <3>2. c[i] = [a[i] EXCEPT !.streaming = FALSE] /\ d[i] = [b[i] EXCEPT !.streaming = FALSE]
      BY <1>1, <1>2, <1>3, <2>1, <2>3, <3>1, ClosingText
    <3>3. c[i].kind = a[i].kind
      <4>1. PICK x \in Blocks : x = a[i]
        BY <2>1
      <4> QED BY <2>3, <3>2, <4>1, ClosedBlock
    <3> QED BY <2>3, <3>1, <3>2, <3>3 DEF BlockAlike, IsCallOf, IsOver
  <2> QED BY <2>1, <2>2, <2>3, BlockKinds
<1> QED BY <1>1, <1>2, <1>3, <1>4, <1>5, GoesAlike

LEMMA FoundAlike ==
    ASSUME NEW a, NEW b, BlocksAlike(a, b), NEW tool
    PROVE  FindTool(b, tool) = FindTool(a, tool)
<1>1. \A i \in 1..Len(a) : a[i].kind = "toolCall" /\ a[i].tool = tool <=> b[i].kind = "toolCall" /\ b[i].tool = tool
  BY DEF BlocksAlike, BlockAlike
<1> QED BY <1>1, SameToolFound DEF BlocksAlike

(* The call of a tool gets a status, and one without its approval. *)
LEMMA CallGets ==
    ASSUME NEW x \in Blocks, x.kind = "toolCall", NEW status \in ToolStatuses, NEW y,
           y = [x EXCEPT !.status = status]
    PROVE  y \in Blocks /\ y.kind = "toolCall" /\ y.tool = x.tool /\ y.status = status /\ y.approval = x.approval
<1>1. x \in ToolBlocks
  BY BlockKinds
<1>2. y \in ToolBlocks /\ y.kind = "toolCall" /\ y.tool = x.tool /\ y.status = status /\ y.approval = x.approval
  BY <1>1 DEF ToolBlocks
<1> QED BY <1>2 DEF Blocks

CallWith(x, status, approval) == [x EXCEPT !.status = status, !.approval = approval]

LEMMA CallChanged ==
    ASSUME NEW x \in Blocks, x.kind = "toolCall", NEW status \in ToolStatuses, NEW approval \in BlockApprovals
    PROVE  LET y == CallWith(x, status, approval)
           IN y \in Blocks /\ y.kind = "toolCall" /\ y.tool = x.tool /\ y.status = status /\ y.approval = approval
<1>1. x \in ToolBlocks
  BY BlockKinds
<1>2. PICK y : y = CallWith(x, status, approval)
  OBVIOUS
<1>3. y \in ToolBlocks /\ y.kind = "toolCall" /\ y.tool = x.tool /\ y.status = status /\ y.approval = approval
  BY <1>1, <1>2 DEF ToolBlocks, CallWith
<1> QED BY <1>2, <1>3 DEF Blocks

LEMMA StatusGiven ==
    ASSUME NEW t \in ConversationTurns, NEW b, b = t.blocks, NEW i \in 1..Len(b), b[i].kind = "toolCall",
           NEW status \in ToolStatuses, NEW x, x = [b[i] EXCEPT !.status = status]
    PROVE  WithStatus(t, i, status).blocks = [b EXCEPT ![i] = x]
<1>1. b \in Seq(Blocks) /\ b[i] \in Blocks
  BY BlocksOfTurns
<1>2. PICK p \in Blocks : p = b[i] /\ p.kind = "toolCall"
  BY <1>1
<1>3. x = [p EXCEPT !.status = status]
  BY <1>2
<1>4. x \in Blocks
  BY <1>2, <1>3, CallGets
<1>5. PICK c : c = [b EXCEPT ![i] = x]
  OBVIOUS
<1>6. c \in Seq(Blocks)
  BY <1>1, <1>4, <1>5
<1>7. WithStatus(t, i, status) = [t EXCEPT !.blocks = c]
  BY <1>2, <1>3, <1>5 DEF ConversationTurns, WithStatus
<1>8. [t EXCEPT !.blocks = c].blocks = c
  BY <1>6 DEF ConversationTurns
<1> QED BY <1>5, <1>7, <1>8

LEMMA ApprovalGiven ==
    ASSUME NEW t \in ConversationTurns, NEW b, b = t.blocks, NEW i \in 1..Len(b), b[i].kind = "toolCall",
           NEW status \in ToolStatuses, NEW approval \in BlockApprovals
    PROVE  WithApproval(t, i, status, approval).blocks = [b EXCEPT ![i] = CallWith(b[i], status, approval)]
<1>1. b \in Seq(Blocks) /\ b[i] \in Blocks
  BY BlocksOfTurns
<1>2. PICK p \in Blocks : p = b[i] /\ p.kind = "toolCall"
  BY <1>1
<1>3. PICK x : x = CallWith(p, status, approval)
  OBVIOUS
<1>4. x \in Blocks
  BY <1>2, <1>3, CallChanged
<1>5. PICK c \in Seq(Blocks) : c = [b EXCEPT ![i] = x]
  <2>1. [b EXCEPT ![i] = x] \in Seq(Blocks)
    BY <1>1, <1>4
  <2> QED BY <2>1, Zenon
<1>6. WithApproval(t, i, status, approval) = [t EXCEPT !.blocks = c]
  <2>1. PICK d : d = [b EXCEPT ![i] = [p EXCEPT !.status = status]]
    OBVIOUS
  <2>2. d[i] = [p EXCEPT !.status = status]
    BY <1>1, <2>1
  <2>3. c = [d EXCEPT ![i] = [d[i] EXCEPT !.approval = approval]]
    <3>1. [d EXCEPT ![i] = [d[i] EXCEPT !.approval = approval]] = [d EXCEPT ![i] = x]
      BY <1>3, <2>2 DEF CallWith
    <3>2. [d EXCEPT ![i] = x] = [b EXCEPT ![i] = x]
      BY <1>1, <2>1
    <3> QED BY <1>5, <3>1, <3>2
  <2>4. [t EXCEPT !.blocks[i].status = status] = [t EXCEPT !.blocks = d]
    BY <1>1, <1>2, <2>1 DEF ConversationTurns
  <2>5. [t EXCEPT !.blocks = d].blocks = d
    BY DEF ConversationTurns
  <2>6. WithApproval(t, i, status, approval)
          = [[t EXCEPT !.blocks = d] EXCEPT !.blocks = [d EXCEPT ![i] = [d[i] EXCEPT !.approval = approval]]]
    BY <2>4, <2>5, Zenon DEF WithApproval
  <2>7. [[t EXCEPT !.blocks = d] EXCEPT !.blocks = c] = [t EXCEPT !.blocks = c]
    BY DEF ConversationTurns
  <2> QED BY <2>3, <2>6, <2>7
<1>7. [t EXCEPT !.blocks = c].blocks = c
  BY DEF ConversationTurns
<1> QED BY <1>2, <1>3, <1>5, <1>6, <1>7

LEMMA CallReplaced ==
    ASSUME NEW a, NEW b, BlocksAlike(a, b), NEW i \in 1..Len(a), NEW tool \in Tools, IsCallOf(a[i], tool),
           NEW x \in Blocks, NEW y \in Blocks, IsCallOf(x, tool), BlockAlike(x, y),
           NEW called \in SUBSET Tools, NEW ended \in SUBSET Tools, IsOver(x, tool) => tool \in ended
    PROVE  Goes(a, [a EXCEPT ![i] = x], b, [b EXCEPT ![i] = y], called, ended)
<1>1. a \in Seq(Blocks) /\ b \in Seq(Blocks) /\ Len(b) = Len(a) /\ \A k \in 1..Len(a) : BlockAlike(a[k], b[k])
  BY DEF BlocksAlike
<1>2. PICK c : c = [a EXCEPT ![i] = x]
  OBVIOUS
<1>3. PICK d : d = [b EXCEPT ![i] = y]
  OBVIOUS
<1>4. c \in Seq(Blocks) /\ Len(c) = Len(a) /\ c[i] = x /\ \A k \in 1..Len(a) : k # i => c[k] = a[k]
  BY <1>1, <1>2
<1>5. d \in Seq(Blocks) /\ Len(d) = Len(b) /\ d[i] = y /\ \A k \in 1..Len(a) : k # i => d[k] = b[k]
  BY <1>1, <1>3
<1>6. \A k \in 1..Len(a) : BlockAlike(c[k], d[k])
  BY <1>1, <1>4, <1>5
<1>7. \A k \in 1..Len(a), other \in Tools : IsCallOf(c[k], other) => IsCallOf(a[k], other)
  BY <1>4 DEF IsCallOf
<1>8. \A k \in 1..Len(a), other \in Tools \ ended : IsOver(c[k], other) => IsOver(a[k], other)
  BY <1>4 DEF IsCallOf, IsOver
<1>9. Goes(a, c, b, d, called, ended)
  BY <1>4, <1>5, <1>6, <1>7, <1>8, GoesAlike
<1> QED BY <1>2, <1>3, <1>9

(* The blocks of turns that were alike still are after an event. *)
EventGoes(t, u, e, called, ended) ==
    Goes(t.blocks, Apply(t, e).blocks, u.blocks, Apply(u, e).blocks, called, ended)

LEMMA WithToolAlike ==
    ASSUME NEW t \in ConversationTurns, NEW u \in ConversationTurns, BlocksAlike(t.blocks, u.blocks),
           NEW tool \in Tools
    PROVE  Goes(t.blocks, WithTool(t, tool).blocks, u.blocks, WithTool(u, tool).blocks, {tool}, {})
<1>1. PICK a : a = t.blocks
  OBVIOUS
<1>2. PICK b : b = u.blocks
  OBVIOUS
<1>3. BlocksAlike(a, b) /\ FindTool(b, tool) = FindTool(a, tool)
  BY <1>1, <1>2, FoundAlike
<1>4. /\ WithTool(t, tool).blocks
           = IF FindTool(a, tool) # 0 THEN a ELSE Append(CloseStreamingText(a), ToolBlock(tool))
      /\ WithTool(u, tool).blocks
           = IF FindTool(b, tool) # 0 THEN b ELSE Append(CloseStreamingText(b), ToolBlock(tool))
  BY <1>1, <1>2, WithToolTells
<1>5. CASE FindTool(a, tool) # 0
  <2>1. Goes(a, a, b, b, {tool}, {})
    BY <1>3, GoesNowhere
  <2> QED BY <1>1, <1>2, <1>3, <1>4, <1>5, <2>1
<1>6. CASE FindTool(a, tool) = 0
  <2>1. PICK c, d : c = CloseStreamingText(a) /\ d = CloseStreamingText(b)
    OBVIOUS
  <2>2. Goes(a, c, b, d, {tool}, {})
    BY <1>3, <2>1, ClosingAlike
  <2>3. PICK x \in Blocks : x = ToolBlock(tool)
    BY BlockTypes
  <2>4. BlockAlike(x, x) /\ \A other \in Tools : IsCallOf(x, other) => other \in {tool} /\ ~IsOver(x, other)
    BY <2>3 DEF ToolBlock, BlockAlike, IsCallOf, IsOver, OpenStatus
  <2>5. Goes(c, Append(c, x), d, Append(d, x), {tool}, {})
    <3>1. BlocksAlike(c, d)
      BY <2>2 DEF Goes
    <3> QED BY <2>4, <3>1, GoesOn
  <2>6. Goes(a, Append(c, x), b, Append(d, x), {tool}, {})
    BY <2>2, <2>5, GoesThen
  <2> QED BY <1>1, <1>2, <1>3, <1>4, <1>6, <2>1, <2>3, <2>6
<1> QED BY <1>5, <1>6

LEMMA RequestedAlike ==
    ASSUME NEW t \in ConversationTurns, NEW u \in ConversationTurns, BlocksAlike(t.blocks, u.blocks),
           NEW tool \in Tools
    PROVE  EventGoes(t, u, ToolRequested(tool), {tool}, {})
<1>1. Apply(t, ToolRequested(tool)) = WithTool(t, tool) /\ Apply(u, ToolRequested(tool)) = WithTool(u, tool)
  BY DEF Apply, ToolRequested
<1> QED BY <1>1, WithToolAlike DEF EventGoes

LEMMA ProgressAlike ==
    ASSUME NEW t \in ConversationTurns, NEW u \in ConversationTurns, BlocksAlike(t.blocks, u.blocks),
           NEW tool \in Tools
    PROVE  EventGoes(t, u, ToolProgress(tool), {tool}, {})
<1>1. PICK v, w : v = WithTool(t, tool) /\ w = WithTool(u, tool)
  OBVIOUS
<1>2. PICK a, b : a = v.blocks /\ b = w.blocks
  OBVIOUS
<1>3. Goes(t.blocks, a, u.blocks, b, {tool}, {}) /\ BlocksAlike(a, b)
  BY <1>1, <1>2, WithToolAlike DEF Goes
<1>4. v \in ConversationTurns /\ w \in ConversationTurns
  BY <1>1, WithToolTells DEF Tells
<1>5. PICK i : i = FindTool(a, tool)
  OBVIOUS
<1>6. i = FindTool(b, tool)
  BY <1>3, <1>5, FoundAlike
<1>7. i \in 1..Len(a) /\ a[i].kind = "toolCall" /\ a[i].tool = tool
  BY <1>1, <1>2, <1>5, WithToolTells
<1>8. i \in 1..Len(b) /\ b[i].kind = "toolCall" /\ b[i].tool = tool
  BY <1>1, <1>2, <1>6, WithToolTells
<1>9. a \in Seq(Blocks) /\ b \in Seq(Blocks) /\ a[i] \in Blocks /\ b[i] \in Blocks /\ BlockAlike(a[i], b[i])
  BY <1>3, <1>7, <1>8 DEF BlocksAlike
<1>10. PICK status \in ToolStatuses, approval \in BlockApprovals : status = "running"
  BY DEF ToolStatuses, OpenStatus, BlockApprovals
<1>21. /\ Apply(t, ToolProgress(tool)) = WithStatus(v, i, status)
       /\ Apply(u, ToolProgress(tool)) = WithStatus(w, i, status)
  BY <1>1, <1>2, <1>5, <1>6, <1>10 DEF Apply, ToolProgress, WithStatus
<1>11. PICK p \in Blocks, q \in Blocks : p = a[i] /\ q = b[i] /\ p.kind = "toolCall" /\ q.kind = "toolCall"
  BY <1>7, <1>8, <1>9
<1>12. PICK x : x = [p EXCEPT !.status = status]
  OBVIOUS
<1>13. PICK y : y = [q EXCEPT !.status = status]
  OBVIOUS
<1>14. /\ x \in Blocks /\ x.kind = "toolCall" /\ x.tool = tool /\ x.status = status /\ x.approval = a[i].approval
       /\ y \in Blocks /\ y.kind = "toolCall" /\ y.tool = tool /\ y.status = status
  <2>1. x \in Blocks /\ x.kind = "toolCall" /\ x.tool = p.tool /\ x.status = status /\ x.approval = p.approval
    BY <1>10, <1>11, <1>12, CallGets
  <2>2. y \in Blocks /\ y.kind = "toolCall" /\ y.tool = q.tool /\ y.status = status
    BY <1>10, <1>11, <1>13, CallGets
  <2> QED BY <1>7, <1>8, <1>11, <2>1, <2>2
<1>15. BlockAlike(x, y) /\ IsCallOf(a[i], tool) /\ IsCallOf(x, tool) /\ ~IsOver(x, tool)
  BY <1>7, <1>9, <1>10, <1>14 DEF BlockAlike, IsCallOf, IsOver, OpenStatus
<1>16. Goes(a, [a EXCEPT ![i] = x], b, [b EXCEPT ![i] = y], {tool}, {})
  BY <1>3, <1>7, <1>14, <1>15, CallReplaced
<1>17. WithStatus(v, i, status).blocks = [a EXCEPT ![i] = x]
  <2>1. x = [a[i] EXCEPT !.status = status]
    BY <1>11, <1>12
  <2> QED BY <1>2, <1>4, <1>7, <1>10, <2>1, StatusGiven
<1>18. WithStatus(w, i, status).blocks = [b EXCEPT ![i] = y]
  <2>1. y = [b[i] EXCEPT !.status = status]
    BY <1>11, <1>13
  <2> QED BY <1>2, <1>4, <1>8, <1>10, <2>1, StatusGiven
<1>19. PICK c, d : c = [a EXCEPT ![i] = x] /\ d = [b EXCEPT ![i] = y]
  OBVIOUS
<1>20. Goes(t.blocks, c, u.blocks, d, {tool}, {})
  BY <1>3, <1>16, <1>19, GoesThen
<1> QED BY <1>21, <1>17, <1>18, <1>19, <1>20, Zenon DEF EventGoes

LEMMA CompletedAlike ==
    ASSUME NEW t \in ConversationTurns, NEW u \in ConversationTurns, BlocksAlike(t.blocks, u.blocks),
           NEW tool \in Tools, NEW status \in Terminal
    PROVE  EventGoes(t, u, ToolCompleted(tool, status), {tool}, {tool})
<1>1. PICK a, b : a = t.blocks /\ b = u.blocks
  OBVIOUS
<1>2. BlocksAlike(a, b) /\ a \in Seq(Blocks) /\ b \in Seq(Blocks) /\ Len(b) = Len(a)
  BY <1>1 DEF BlocksAlike
<1>3. PICK i : i = FindTool(a, tool)
  OBVIOUS
<1>4. i = FindTool(b, tool)
  BY <1>2, <1>3, FoundAlike
<1>5. /\ Apply(t, ToolCompleted(tool, status))
           = IF i = 0 THEN t ELSE [t EXCEPT !.blocks[i].status = status, !.blocks[i].approval = None]
      /\ Apply(u, ToolCompleted(tool, status))
           = IF i = 0 THEN u ELSE [u EXCEPT !.blocks[i].status = status, !.blocks[i].approval = None]
  <2>1. PICK e : e = ToolCompleted(tool, status)
    OBVIOUS
  <2>2. e.type = "toolCompleted" /\ e.tool = tool /\ e.status = status
    BY <2>1 DEF ToolCompleted
  <2>3. ASSUME NEW v  PROVE Apply(v, e) = ReduceToolCompleted(v, e)
    BY <2>2, Zenon DEF Apply
  <2>4. ReduceToolCompleted(t, e)
          = IF i = 0 THEN t ELSE [t EXCEPT !.blocks[i].status = status, !.blocks[i].approval = None]
    BY <1>1, <1>3, <2>2, Zenon DEF ReduceToolCompleted
  <2>5. ReduceToolCompleted(u, e)
          = IF i = 0 THEN u ELSE [u EXCEPT !.blocks[i].status = status, !.blocks[i].approval = None]
    BY <1>1, <1>4, <2>2, Zenon DEF ReduceToolCompleted
  <2> QED BY <2>1, <2>3, <2>4, <2>5, Zenon
<1>6. CASE i = 0
  <2>1. Goes(a, a, b, b, {tool}, {tool})
    BY <1>2, GoesNowhere
  <2> QED BY <1>1, <1>5, <1>6, <2>1 DEF EventGoes
<1>7. CASE i # 0
  <2>1. i \in 0..Len(a) /\ a[i].kind = "toolCall" /\ a[i].tool = tool
    BY <1>2, <1>3, <1>7, ToolFound
  <2>2. i \in 1..Len(a) /\ i \in 1..Len(b)
    BY <1>2, <1>7, <2>1
  <2>3. b[i].kind = "toolCall" /\ b[i].tool = tool
    BY <1>2, <1>4, <1>7, ToolFound
  <2>4. a[i] \in Blocks /\ b[i] \in Blocks
    BY <1>2, <2>2
  <2>5. PICK approval \in BlockApprovals : approval = None
    BY DEF BlockApprovals
  <2>6. PICK over \in ToolStatuses : over = status
    BY DEF Terminal, ToolStatuses
  <2>7. /\ Apply(t, ToolCompleted(tool, status)) = WithApproval(t, i, over, approval)
        /\ Apply(u, ToolCompleted(tool, status)) = WithApproval(u, i, over, approval)
    BY <1>5, <1>7, <2>5, <2>6, Zenon DEF WithApproval
  <2>8. PICK p \in Blocks, q \in Blocks : p = a[i] /\ q = b[i] /\ p.kind = "toolCall" /\ q.kind = "toolCall"
    BY <2>1, <2>3, <2>4
  <2>9. PICK x : x = CallWith(p, over, approval)
    OBVIOUS
  <2>10. PICK y : y = CallWith(q, over, approval)
    OBVIOUS
  <2>11. /\ x \in Blocks /\ x.kind = "toolCall" /\ x.tool = tool /\ x.status = over /\ x.approval = None
         /\ y \in Blocks /\ y.kind = "toolCall" /\ y.tool = tool /\ y.status = over
    <3>1. x \in Blocks /\ x.kind = "toolCall" /\ x.tool = p.tool /\ x.status = over /\ x.approval = None
      BY <2>5, <2>6, <2>8, <2>9, CallChanged
    <3>2. y \in Blocks /\ y.kind = "toolCall" /\ y.tool = q.tool /\ y.status = over
      BY <2>5, <2>6, <2>8, <2>10, CallChanged
    <3> QED BY <2>1, <2>3, <2>8, <3>1, <3>2
  <2>12. BlockAlike(x, y) /\ IsCallOf(a[i], tool) /\ IsCallOf(x, tool)
    BY <2>1, <2>11 DEF BlockAlike, IsCallOf
  <2>13. Goes(a, [a EXCEPT ![i] = x], b, [b EXCEPT ![i] = y], {tool}, {tool})
    BY <1>2, <2>2, <2>11, <2>12, CallReplaced
  <2>14. WithApproval(t, i, over, approval).blocks = [a EXCEPT ![i] = x]
    <3>1. x = CallWith(a[i], over, approval)
      BY <2>8, <2>9
    <3> QED BY <1>1, <2>1, <2>2, <2>5, <2>6, <3>1, ApprovalGiven
  <2>15. WithApproval(u, i, over, approval).blocks = [b EXCEPT ![i] = y]
    <3>1. y = CallWith(b[i], over, approval)
      BY <2>8, <2>10
    <3> QED BY <1>1, <2>2, <2>3, <2>5, <2>6, <3>1, ApprovalGiven
  <2> QED BY <1>1, <2>7, <2>13, <2>14, <2>15, Zenon DEF EventGoes
<1> QED BY <1>6, <1>7

Lengthened(x, text) == [x EXCEPT !.text = @ \o text]

LEMMA FrontGoes ==
    ASSUME NEW a, NEW b, BlocksAlike(a, b), a # <<>>
    PROVE  Goes(a, Front(a), b, Front(b), {}, {})
<1>1. BlocksAlike(Front(a), Front(b))
  BY LastAlike
<1>2. PICK c : c = Front(a)
  OBVIOUS
<1>3. a \in Seq(Blocks)
  BY DEF BlocksAlike
<1>4. Len(c) = Len(a) - 1 /\ \A i \in 1..(Len(a) - 1) : c[i] = a[i]
  BY <1>2, <1>3, LastOfSequence
<1>5. \A i \in 1..Len(c) : i \in 1..Len(a) /\ c[i] = a[i]
  BY <1>3, <1>4
<1>6. ToolsIn(c) \subseteq ToolsIn(a) /\ OverIn(c) \subseteq OverIn(a)
  BY <1>5 DEF ToolsIn, OverIn
<1> QED BY <1>1, <1>2, <1>6 DEF Goes

LEMMA SameAppended ==
    ASSUME NEW a, NEW b, BlocksAlike(a, b), NEW x \in Blocks, x.kind # "toolCall"
    PROVE  Goes(a, Append(a, x), b, Append(b, x), {}, {})
<1>1. BlockAlike(x, x) /\ \A tool \in Tools : ~IsCallOf(x, tool)
  BY DEF BlockAlike, IsCallOf
<1> QED BY <1>1, GoesOn

LEMMA LastReplacedAlike ==
    ASSUME NEW a, NEW b, BlocksAlike(a, b), a # <<>>, NEW x \in Blocks, x.kind # "toolCall"
    PROVE  Goes(a, Append(Front(a), x), b, Append(Front(b), x), {}, {})
<1>1. PICK c, d : c = Front(a) /\ d = Front(b)
  OBVIOUS
<1>2. Goes(a, c, b, d, {}, {}) /\ BlocksAlike(c, d)
  BY <1>1, FrontGoes DEF Goes
<1>3. Goes(c, Append(c, x), d, Append(d, x), {}, {})
  BY <1>2, SameAppended
<1>4. PICK p, q : p = Append(c, x) /\ q = Append(d, x)
  OBVIOUS
<1>5. Goes(a, p, b, q, {}, {})
  BY <1>2, <1>3, <1>4, GoesThen
<1> QED BY <1>1, <1>4, <1>5

LEMMA LastExtended ==
    ASSUME NEW b \in Seq(Blocks), b # <<>>, NEW text,
           \/ Last(b).kind = "assistantText" /\ text \in MessageTexts
           \/ Last(b).kind = "agentThought" /\ text \in ThoughtTexts
    PROVE  /\ ExtendLast(b, text) = Append(Front(b), Lengthened(Last(b), text))
           /\ Lengthened(Last(b), text) \in Blocks
           /\ Lengthened(Last(b), text).kind # "toolCall"
<1>2. PICK x \in Blocks : x = Last(b) /\ x = b[Len(b)]
  BY LastOfSequence
<1>3. PICK y : y = Lengthened(x, text)
  OBVIOUS
<1>4. y \in Blocks /\ y.kind # "toolCall"
  <2>1. CASE x.kind = "assistantText" /\ text \in MessageTexts
    <3>1. y \in Blocks /\ y.kind = "assistantText"
      BY <1>3, <2>1, TextChanges DEF Lengthened
    <3> QED BY <3>1
  <2>2. CASE x.kind = "agentThought" /\ text \in ThoughtTexts
    <3>1. y \in Blocks /\ y.kind = "agentThought"
      BY <1>3, <2>2, ThoughtChanges DEF Lengthened
    <3> QED BY <3>1
  <2> QED BY <1>2, <2>1, <2>2
<1>6. Len(b) \in 1..Len(b)
  BY LastOfSequence
<1>7. ExtendLast(b, text) = [b EXCEPT ![Len(b)] = y]
  BY <1>2, <1>3, <1>6, Zenon DEF ExtendLast, Lengthened
<1>8. [b EXCEPT ![Len(b)] = y] = Append(Front(b), y)
  BY <1>4, ReplaceLast
<1> QED BY <1>2, <1>3, <1>4, <1>7, <1>8

(* Text that joins the last block, or does not, does so in both. *)
LEMMA SameLast ==
    ASSUME NEW a, NEW b, BlocksAlike(a, b)
    PROVE  /\ a = <<>> <=> b = <<>>
           /\ a # <<>> /\ (Last(a).kind # "toolCall" \/ Last(b).kind # "toolCall") => Last(b) = Last(a)
<1>1. a = <<>> <=> b = <<>>
  BY DEF BlocksAlike
<1>2. ASSUME a # <<>>  PROVE BlockAlike(Last(a), Last(b))
  BY <1>2, LastAlike
<1> QED BY <1>1, <1>2 DEF BlockAlike

LEMMA BothExtended ==
    ASSUME NEW a, NEW b, BlocksAlike(a, b), a # <<>>, NEW text,
           \/ Last(a).kind = "assistantText" /\ text \in MessageTexts
           \/ Last(a).kind = "agentThought" /\ text \in ThoughtTexts
    PROVE  Goes(a, ExtendLast(a, text), b, ExtendLast(b, text), {}, {})
<1>1. a \in Seq(Blocks) /\ b \in Seq(Blocks) /\ b # <<>> /\ Last(b) = Last(a)
  BY SameLast DEF BlocksAlike
<1>2. PICK x : x = Lengthened(Last(a), text)
  OBVIOUS
<1>3. ExtendLast(a, text) = Append(Front(a), x) /\ x \in Blocks /\ x.kind # "toolCall"
  BY <1>1, <1>2, LastExtended
<1>4. ExtendLast(b, text) = Append(Front(b), x)
  BY <1>1, <1>2, LastExtended
<1>5. Goes(a, Append(Front(a), x), b, Append(Front(b), x), {}, {})
  BY <1>3, LastReplacedAlike
<1> QED BY <1>3, <1>4, <1>5

(* v is the turn t with other blocks. *)
Gives(t, v, c) == v \in ConversationTurns /\ v.user = t.user /\ v.blocks = c /\ v.lastEvent = t.lastEvent

LEMMA RunningGives ==
    ASSUME NEW t \in ConversationTurns, NEW c \in Seq(Blocks)
    PROVE  Gives(t, Running(t, c), c)
BY DEF Running, ConversationTurns, Gives

LEMMA ExtendedBlocks ==
    ASSUME NEW b \in Seq(Blocks), b # <<>>, NEW text,
           \/ Last(b).kind = "assistantText" /\ text \in MessageTexts
           \/ Last(b).kind = "agentThought" /\ text \in ThoughtTexts
    PROVE  ExtendLast(b, text) \in Seq(Blocks)
<1>1. PICK x \in Blocks : x = Lengthened(Last(b), text)
  BY LastExtended
<1>2. ExtendLast(b, text) = Append(Front(b), x) /\ Front(b) \in Seq(Blocks)
  BY <1>1, LastExtended, LastOfSequence
<1> QED BY <1>2, LastOfAppend

MessageBlocks(b, text) ==
    IF LastIs(b, "assistantText") /\ Last(b).streaming THEN ExtendLast(b, text) ELSE Append(b, TextBlock(text))

LEMMA MessageGives ==
    ASSUME NEW t \in ConversationTurns, NEW text \in MessageTexts
    PROVE  Gives(t, Apply(t, MessageDelta(text, FALSE)), MessageBlocks(t.blocks, text))
<1>1. PICK c \in Seq(Blocks) : c = MessageBlocks(t.blocks, text)
  <2>1. PICK b \in Seq(Blocks) : b = t.blocks
    BY BlocksOfTurns
  <2>2. CASE LastIs(b, "assistantText") /\ Last(b).streaming
    <3>1. ExtendLast(b, text) \in Seq(Blocks)
      BY <2>2, ExtendedBlocks DEF LastIs
    <3> QED BY <2>1, <2>2, <3>1 DEF MessageBlocks
  <2>3. CASE ~(LastIs(b, "assistantText") /\ Last(b).streaming)
    <3>1. TextBlock(text) \in Blocks
      BY BlockTypes
    <3>2. Append(b, TextBlock(text)) \in Seq(Blocks)
      BY <3>1, LastOfAppend
    <3> QED BY <2>1, <2>3, <3>2 DEF MessageBlocks
  <2> QED BY <2>2, <2>3
<1>2. Apply(t, MessageDelta(text, FALSE)) = Running(t, c)
  <2>1. Apply(t, MessageDelta(text, FALSE)) = ReduceMessage(t, MessageDelta(text, FALSE))
    BY DEF Apply, MessageDelta
  <2>2. MessageDelta(text, FALSE).text = text /\ MessageDelta(text, FALSE).terminal = FALSE
    BY DEF MessageDelta
  <2> QED BY <1>1, <2>1, <2>2, Zenon DEF ReduceMessage, MessageBlocks
<1> QED BY <1>1, <1>2, RunningGives

LEMMA MessageAlike ==
    ASSUME NEW t \in ConversationTurns, NEW u \in ConversationTurns, BlocksAlike(t.blocks, u.blocks),
           NEW text \in MessageTexts
    PROVE  EventGoes(t, u, MessageDelta(text, FALSE), {}, {})
<1>1. PICK a, b : a = t.blocks /\ b = u.blocks
  OBVIOUS
<1>2. BlocksAlike(a, b)
  BY <1>1
<1>3. PICK c, d : c = MessageBlocks(a, text) /\ d = MessageBlocks(b, text)
  OBVIOUS
<1>4. Goes(a, c, b, d, {}, {})
  <2>1. CASE LastIs(a, "assistantText") /\ Last(a).streaming
    <3>1. a # <<>> /\ Last(a).kind = "assistantText"
      BY <2>1 DEF LastIs
    <3>2. LastIs(b, "assistantText") /\ Last(b).streaming
      BY <1>2, <2>1, <3>1, SameLast DEF LastIs
    <3>3. Goes(a, ExtendLast(a, text), b, ExtendLast(b, text), {}, {})
      BY <1>2, <3>1, BothExtended
    <3> QED BY <1>3, <2>1, <3>2, <3>3 DEF MessageBlocks
  <2>2. CASE ~(LastIs(a, "assistantText") /\ Last(a).streaming)
    <3>1. ~(LastIs(b, "assistantText") /\ Last(b).streaming)
      BY <1>2, <2>2, SameLast DEF LastIs
    <3>2. PICK x \in Blocks : x = TextBlock(text) /\ x.kind # "toolCall"
      BY BlockTypes DEF TextBlock
    <3>3. Goes(a, Append(a, x), b, Append(b, x), {}, {})
      BY <1>2, <3>2, SameAppended
    <3> QED BY <1>3, <2>2, <3>1, <3>2, <3>3 DEF MessageBlocks
  <2> QED BY <2>1, <2>2
<1>5. Apply(t, MessageDelta(text, FALSE)).blocks = c
  BY <1>1, <1>3, MessageGives DEF Gives
<1>6. Apply(u, MessageDelta(text, FALSE)).blocks = d
  BY <1>1, <1>3, MessageGives DEF Gives
<1> QED BY <1>1, <1>4, <1>5, <1>6 DEF EventGoes

ThoughtBlocksAfter(b, text, id) ==
    IF LastIs(b, "agentThought") /\ Last(b).id = id /\ Last(b).streaming THEN ExtendLast(b, text)
    ELSE Append(CloseStreamingText(b), ThoughtBlock(text, id))

LEMMA ThoughtGives ==
    ASSUME NEW t \in ConversationTurns, NEW text \in ThoughtTexts, text # <<>>, NEW id \in Thoughts
    PROVE  Gives(t, Apply(t, ThoughtDelta(text, id, FALSE)), ThoughtBlocksAfter(t.blocks, text, id))
<1> DEFINE same == LastIs(t.blocks, "agentThought") /\ Last(t.blocks).id = id
<1>1. PICK c \in Seq(Blocks) : c = ThoughtBlocksAfter(t.blocks, text, id)
  <2>1. PICK b \in Seq(Blocks) : b = t.blocks
    BY BlocksOfTurns
  <2>2. CASE LastIs(b, "agentThought") /\ Last(b).id = id /\ Last(b).streaming
    <3>1. ExtendLast(b, text) \in Seq(Blocks)
      BY <2>2, ExtendedBlocks DEF LastIs
    <3> QED BY <2>1, <2>2, <3>1 DEF ThoughtBlocksAfter
  <2>3. CASE ~(LastIs(b, "agentThought") /\ Last(b).id = id /\ Last(b).streaming)
    <3>1. PICK p \in Seq(Blocks), x \in Blocks : p = CloseStreamingText(b) /\ x = ThoughtBlock(text, id)
      BY BlockTypes, ClosingText
    <3>2. Append(p, x) \in Seq(Blocks)
      BY LastOfAppend
    <3> QED BY <2>1, <2>3, <3>1, <3>2 DEF ThoughtBlocksAfter
  <2> QED BY <2>2, <2>3
<1>2. Apply(t, ThoughtDelta(text, id, FALSE)) = Running(t, c)
  <2>1. Apply(t, ThoughtDelta(text, id, FALSE)) = ReduceThought(t, ThoughtDelta(text, id, FALSE))
    BY DEF Apply, ThoughtDelta
  <2>2. /\ ThoughtDelta(text, id, FALSE).text = text /\ ThoughtDelta(text, id, FALSE).id = id
        /\ ThoughtDelta(text, id, FALSE).replace = FALSE
    BY DEF ThoughtDelta
  <2>3. PICK b, ext, app, u, v, w : b = t.blocks /\ ext = Running(t, ExtendLast(b, text))
          /\ app = Running(t, Append(CloseStreamingText(b), ThoughtBlock(text, id)))
          /\ u = Running(t, Front(b)) /\ v = Running(t, ReplaceAt(b, Len(b), ThoughtBlock(text, id)))
          /\ w = ReduceThought(t, ThoughtDelta(text, id, FALSE))
    OBVIOUS
  <2>4. w = CASE same /\ ~FALSE /\ Last(b).streaming -> ext
              [] same /\ FALSE /\ text = <<>> -> u
              [] same /\ FALSE /\ text # <<>> -> v
              [] ~(same /\ (FALSE \/ Last(b).streaming)) /\ text = <<>> -> t
              [] OTHER -> app
    BY <2>2, <2>3, Zenon DEF ReduceThought
  <2>5. w = IF same /\ Last(b).streaming THEN ext ELSE app
    <3> HIDE DEF same
    <3> QED BY <2>4
  <2> QED BY <1>1, <2>1, <2>3, <2>5, Zenon DEF ThoughtBlocksAfter
<1> QED BY <1>1, <1>2, RunningGives

LEMMA ThoughtAlike ==
    ASSUME NEW t \in ConversationTurns, NEW u \in ConversationTurns, BlocksAlike(t.blocks, u.blocks),
           NEW text \in ThoughtTexts, text # <<>>, NEW id \in Thoughts
    PROVE  EventGoes(t, u, ThoughtDelta(text, id, FALSE), {}, {})
<1>1. PICK a, b : a = t.blocks /\ b = u.blocks
  OBVIOUS
<1>2. BlocksAlike(a, b)
  BY <1>1
<1>3. PICK c, d : c = ThoughtBlocksAfter(a, text, id) /\ d = ThoughtBlocksAfter(b, text, id)
  OBVIOUS
<1>4. Goes(a, c, b, d, {}, {})
  <2>1. CASE LastIs(a, "agentThought") /\ Last(a).id = id /\ Last(a).streaming
    <3>1. a # <<>> /\ Last(a).kind = "agentThought"
      BY <2>1 DEF LastIs
    <3>2. LastIs(b, "agentThought") /\ Last(b).id = id /\ Last(b).streaming
      BY <1>2, <2>1, <3>1, SameLast DEF LastIs
    <3>3. Goes(a, ExtendLast(a, text), b, ExtendLast(b, text), {}, {})
      BY <1>2, <3>1, BothExtended
    <3> QED BY <1>3, <2>1, <3>2, <3>3 DEF ThoughtBlocksAfter
  <2>2. CASE ~(LastIs(a, "agentThought") /\ Last(a).id = id /\ Last(a).streaming)
    <3>1. ~(LastIs(b, "agentThought") /\ Last(b).id = id /\ Last(b).streaming)
      BY <1>2, <2>2, SameLast DEF LastIs
    <3>2. PICK x \in Blocks : x = ThoughtBlock(text, id) /\ x.kind # "toolCall"
      BY BlockTypes DEF ThoughtBlock
    <3>3. PICK p, q : p = CloseStreamingText(a) /\ q = CloseStreamingText(b)
      OBVIOUS
    <3>4. Goes(a, p, b, q, {}, {}) /\ BlocksAlike(p, q)
      BY <1>2, <3>3, ClosingAlike DEF Goes
    <3>5. Goes(p, Append(p, x), q, Append(q, x), {}, {})
      BY <3>2, <3>4, SameAppended
    <3>6. c = Append(p, x) /\ d = Append(q, x)
      BY <1>3, <2>2, <3>1, <3>2, <3>3 DEF ThoughtBlocksAfter
    <3>7. Goes(p, c, q, d, {}, {})
      BY <3>5, <3>6
    <3> QED BY <3>4, <3>7, GoesThen
  <2> QED BY <2>1, <2>2
<1>5. Apply(t, ThoughtDelta(text, id, FALSE)).blocks = c
  BY <1>1, <1>3, ThoughtGives DEF Gives
<1>6. Apply(u, ThoughtDelta(text, id, FALSE)).blocks = d
  BY <1>1, <1>3, ThoughtGives DEF Gives
<1> QED BY <1>1, <1>4, <1>5, <1>6 DEF EventGoes

-----------------------------------------------------------------------------
(* The same events reach two lists of turns whose last turns are alike.       *)
KeepsTurn(e) ==
    \A t \in ConversationTurns :
      Apply(t, e) \in ConversationTurns /\ Apply(t, e).user = t.user /\ Apply(t, e).lastEvent = t.lastEvent

GoesEvent(e, called, ended) ==
    /\ KeepsTurn(e)
    /\ \A t \in ConversationTurns, u \in ConversationTurns :
         BlocksAlike(t.blocks, u.blocks) => EventGoes(t, u, e, called, ended)

GoesEvents(events, called, ended) ==
    \/ events = <<>>
    \/ \E e : events = <<e>> /\ GoesEvent(e, called, ended)
    \/ \E e, d : events = <<e, d>> /\ GoesEvent(e, called, ended) /\ GoesEvent(d, called, ended)

(* The turns vs are the turns ts, with other blocks in the last one. *)
Reworked(ts, vs, n) ==
    \E F \in Seq(ConversationTurns), t \in ConversationTurns, v \in ConversationTurns :
      ts = Append(F, t) /\ vs = Append(F, v) /\ v.user = t.user /\ n \in Nat /\ v.lastEvent <= n

BothGo(ts, vs, n, us, ws, k, called, ended) ==
    /\ Reworked(ts, vs, n) /\ Reworked(us, ws, k)
    /\ Goes(Last(ts).blocks, Last(vs).blocks, Last(us).blocks, Last(ws).blocks, called, ended)

LEMMA ReworkedReady ==
    ASSUME NEW ts, NEW vs, NEW n, Reworked(ts, vs, n)
    PROVE  /\ Ready(vs, n) /\ ts \in Seq(ConversationTurns) /\ ts # <<>> /\ Len(vs) = Len(ts)
           /\ \A i \in 1..(Len(ts) - 1) : vs[i] = ts[i]
           /\ Last(vs).user = Last(ts).user /\ Last(vs) = vs[Len(ts)] /\ Last(ts) = ts[Len(ts)]
<1>1. PICK F \in Seq(ConversationTurns), t \in ConversationTurns, v \in ConversationTurns :
      ts = Append(F, t) /\ vs = Append(F, v) /\ v.user = t.user /\ n \in Nat /\ v.lastEvent <= n
  BY DEF Reworked
<1>2. vs \in Seq(ConversationTurns) /\ vs # <<>> /\ Last(vs) = v /\ Len(vs) = Len(F) + 1
  BY <1>1, LastOfAppend
<1>3. ts \in Seq(ConversationTurns) /\ ts # <<>> /\ Last(ts) = t /\ Len(ts) = Len(F) + 1
  BY <1>1, LastOfAppend
<1>4. (\A i \in 1..(Len(ts) - 1) : vs[i] = ts[i]) /\ vs[Len(ts)] = v /\ ts[Len(ts)] = t
  BY <1>1, <1>3
<1> QED BY <1>1, <1>2, <1>3, <1>4 DEF Ready

LEMMA ReworkedThen ==
    ASSUME NEW ts, NEW vs, NEW n, NEW ws, NEW k, Reworked(ts, vs, n), Reworked(vs, ws, k)
    PROVE  Reworked(ts, ws, k)
<1>1. PICK F \in Seq(ConversationTurns), t \in ConversationTurns, v \in ConversationTurns :
      ts = Append(F, t) /\ vs = Append(F, v) /\ v.user = t.user
  BY DEF Reworked
<1>2. PICK G \in Seq(ConversationTurns), x \in ConversationTurns, w \in ConversationTurns :
      vs = Append(G, x) /\ ws = Append(G, w) /\ w.user = x.user /\ k \in Nat /\ w.lastEvent <= k
  BY DEF Reworked
<1>3. F = Front(vs) /\ G = Front(vs) /\ v = Last(vs) /\ x = Last(vs)
  BY <1>1, <1>2, LastOfAppend, FrontOfAppend
<1> QED BY <1>1, <1>2, <1>3 DEF Reworked

LEMMA ReworkedNowhere ==
    ASSUME NEW ts, NEW n, Ready(ts, n)
    PROVE  Reworked(ts, ts, n)
<1>1. PICK F \in Seq(ConversationTurns), t \in ConversationTurns : ts = Append(F, t) /\ t = Last(ts)
  BY LastOfSequence DEF Ready
<1> QED BY <1>1 DEF Reworked, Ready

LEMMA EventReworks ==
    ASSUME NEW ts, NEW n, Ready(ts, n), NEW e, KeepsTurn(e)
    PROVE  \E s \in ConversationTurns :
             /\ s.blocks = Last(ts).blocks /\ s.user = Last(ts).user
             /\ Reworked(ts, ApplyEvent(ts, n + 1, e), n + 1)
             /\ Last(ApplyEvent(ts, n + 1, e)).blocks = Apply(s, e).blocks
<1>1. PICK F \in Seq(ConversationTurns), t \in ConversationTurns, s \in ConversationTurns :
             /\ ts = Append(F, t) /\ t = Last(ts)
             /\ s.user = t.user /\ s.blocks = t.blocks /\ s.lastEvent = n + 1
             /\ Apply(s, e) \in ConversationTurns => ApplyEvent(ts, n + 1, e) = Append(F, Apply(s, e))
  BY LastTurn
<1>2. PICK v : v = Apply(s, e)
  OBVIOUS
<1>3. v \in ConversationTurns /\ v.user = s.user /\ v.lastEvent = s.lastEvent
  BY <1>2 DEF KeepsTurn
<1>4. ApplyEvent(ts, n + 1, e) = Append(F, v)
  BY <1>1, <1>2, <1>3
<1>5. Last(Append(F, v)) = v
  BY <1>3, LastOfAppend
<1>6. n + 1 \in Nat /\ v.lastEvent <= n + 1
  BY <1>1, <1>3 DEF Ready
<1>7. Reworked(ts, Append(F, v), n + 1)
  BY <1>1, <1>3, <1>6 DEF Reworked
<1> QED BY <1>1, <1>2, <1>4, <1>5, <1>7

LEMMA EventGoesOn ==
    ASSUME NEW ts, NEW n, Ready(ts, n), NEW us, NEW k, Ready(us, k), BlocksAlike(Last(ts).blocks, Last(us).blocks),
           NEW e, NEW called, NEW ended, GoesEvent(e, called, ended)
    PROVE  BothGo(ts, ApplyEvent(ts, n + 1, e), n + 1, us, ApplyEvent(us, k + 1, e), k + 1, called, ended)
<1>0. KeepsTurn(e)
  BY DEF GoesEvent
<1>1. PICK s \in ConversationTurns :
             /\ s.blocks = Last(ts).blocks
             /\ Reworked(ts, ApplyEvent(ts, n + 1, e), n + 1)
             /\ Last(ApplyEvent(ts, n + 1, e)).blocks = Apply(s, e).blocks
  BY <1>0, EventReworks
<1>2. PICK r \in ConversationTurns :
             /\ r.blocks = Last(us).blocks
             /\ Reworked(us, ApplyEvent(us, k + 1, e), k + 1)
             /\ Last(ApplyEvent(us, k + 1, e)).blocks = Apply(r, e).blocks
  BY <1>0, EventReworks
<1>3. BlocksAlike(s.blocks, r.blocks)
  BY <1>1, <1>2
<1>4. Goes(s.blocks, Apply(s, e).blocks, r.blocks, Apply(r, e).blocks, called, ended)
  BY <1>3 DEF GoesEvent, EventGoes
<1> QED BY <1>1, <1>2, <1>4 DEF BothGo

LEMMA BothGoThen ==
    ASSUME NEW ts, NEW vs, NEW n, NEW us, NEW ws, NEW k, NEW called, NEW ended,
           BothGo(ts, vs, n, us, ws, k, called, ended),
           NEW x, NEW i, NEW y, NEW j, BothGo(vs, x, i, ws, y, j, called, ended)
    PROVE  BothGo(ts, x, i, us, y, j, called, ended)
<1>1. Reworked(ts, x, i) /\ Reworked(us, y, j)
  BY ReworkedThen DEF BothGo
<1>2. Goes(Last(ts).blocks, Last(x).blocks, Last(us).blocks, Last(y).blocks, called, ended)
  BY GoesThen DEF BothGo
<1> QED BY <1>1, <1>2 DEF BothGo

LEMMA EventsGo ==
    ASSUME NEW ts, NEW n, Ready(ts, n), NEW us, NEW k, Ready(us, k), BlocksAlike(Last(ts).blocks, Last(us).blocks),
           NEW events, NEW called, NEW ended, GoesEvents(events, called, ended)
    PROVE  BothGo(ts, ApplyEvents(ts, n, events), n + Len(events), us, ApplyEvents(us, k, events), k + Len(events),
                  called, ended)
<1>0. n \in Nat /\ k \in Nat
  BY DEF Ready
<1>1. CASE events = <<>>
  <2>1. n + Len(events) = n /\ k + Len(events) = k
    BY <1>0, <1>1
  <2>2. ApplyEvents(ts, n, events) = ts /\ ApplyEvents(us, k, events) = us
    BY <1>1, ApplyNone
  <2>3. Reworked(ts, ts, n) /\ Reworked(us, us, k)
    BY ReworkedNowhere
  <2>4. Goes(Last(ts).blocks, Last(ts).blocks, Last(us).blocks, Last(us).blocks, called, ended)
    BY GoesNowhere
  <2>5. BothGo(ts, ts, n, us, us, k, called, ended)
    BY <2>3, <2>4 DEF BothGo
  <2> QED BY <2>1, <2>2, <2>5
<1>2. ASSUME NEW e, events = <<e>>, GoesEvent(e, called, ended)
      PROVE  BothGo(ts, ApplyEvents(ts, n, events), n + Len(events), us, ApplyEvents(us, k, events), k + Len(events),
                  called, ended)
  <2>1. Len(events) = 1
    BY <1>2
  <2>2. ApplyEvents(ts, n, events) = ApplyEvent(ts, n + 1, e)
    BY <1>2, ApplyTwo
  <2>3. ApplyEvents(us, k, events) = ApplyEvent(us, k + 1, e)
    BY <1>2, ApplyTwo
  <2>4. BothGo(ts, ApplyEvent(ts, n + 1, e), n + 1, us, ApplyEvent(us, k + 1, e), k + 1, called, ended)
    BY <1>2, EventGoesOn
  <2> QED BY <2>1, <2>2, <2>3, <2>4
<1>3. ASSUME NEW e, NEW d, events = <<e, d>>, GoesEvent(e, called, ended), GoesEvent(d, called, ended)
      PROVE  BothGo(ts, ApplyEvents(ts, n, events), n + Len(events), us, ApplyEvents(us, k, events), k + Len(events),
                  called, ended)
  <2>1. Len(events) = 2
    BY <1>3
  <2>2. PICK vs, m : vs = ApplyEvent(ts, n + 1, e) /\ m = n + 1
    OBVIOUS
  <2>3. PICK ws, j : ws = ApplyEvent(us, k + 1, e) /\ j = k + 1
    OBVIOUS
  <2>4. ApplyEvents(ts, n, events) = ApplyEvent(vs, m + 1, d)
    <3>1. ApplyEvents(ts, n, events) = ApplyEvent(ApplyEvent(ts, n + 1, e), n + 2, d)
      BY <1>3, ApplyTwo
    <3>2. n + 2 = m + 1
      BY <1>0, <2>2
    <3> QED BY <2>2, <3>1, <3>2
  <2>5. ApplyEvents(us, k, events) = ApplyEvent(ws, j + 1, d)
    <3>1. ApplyEvents(us, k, events) = ApplyEvent(ApplyEvent(us, k + 1, e), k + 2, d)
      BY <1>3, ApplyTwo
    <3>2. k + 2 = j + 1
      BY <1>0, <2>3
    <3> QED BY <2>3, <3>1, <3>2
  <2>6. BothGo(ts, vs, m, us, ws, j, called, ended)
    BY <1>3, <2>2, <2>3, EventGoesOn
  <2>7. Ready(vs, m) /\ Ready(ws, j) /\ BlocksAlike(Last(vs).blocks, Last(ws).blocks)
    BY <2>6, ReworkedReady DEF BothGo, Goes
  <2>8. BothGo(vs, ApplyEvent(vs, m + 1, d), m + 1, ws, ApplyEvent(ws, j + 1, d), j + 1, called, ended)
    BY <1>3, <2>7, EventGoesOn
  <2>9. BothGo(ts, ApplyEvent(vs, m + 1, d), m + 1, us, ApplyEvent(ws, j + 1, d), j + 1, called, ended)
    BY <2>6, <2>8, BothGoThen
  <2>10. m + 1 = n + Len(events) /\ j + 1 = k + Len(events)
    BY <1>0, <2>1, <2>2, <2>3
  <2> QED BY <2>4, <2>5, <2>9, <2>10
<1> QED BY <1>1, <1>2, <1>3 DEF GoesEvents

-----------------------------------------------------------------------------
(* Two projectors that know the same of a tool make the same of an update.    *)
LEMMA QuietKeeps ==
    ASSUME NEW e \in QuietEvents
    PROVE  KeepsTurn(e)
<1>1. \A t \in ConversationTurns : Tells(t, Apply(t, e), <<>>)
  BY ApplyQuiet
<1> QED BY <1>1 DEF KeepsTurn, Tells

LEMMA AlikeGoes ==
    ASSUME NEW e, KeepsTurn(e), NEW called, NEW ended, NEW more, NEW over, called \subseteq more, ended \subseteq over,
           \A t \in ConversationTurns, u \in ConversationTurns :
             BlocksAlike(t.blocks, u.blocks) => EventGoes(t, u, e, called, ended)
    PROVE  GoesEvent(e, more, over)
<1>1. ASSUME NEW t \in ConversationTurns, NEW u \in ConversationTurns, BlocksAlike(t.blocks, u.blocks)
      PROVE  EventGoes(t, u, e, more, over)
  <2>1. Goes(t.blocks, Apply(t, e).blocks, u.blocks, Apply(u, e).blocks, called, ended)
    BY <1>1 DEF EventGoes
  <2> QED BY <2>1, GoesMore DEF EventGoes
<1> QED BY <1>1 DEF GoesEvent

LEMMA ToolEventsGo ==
    ASSUME NEW tool \in Tools, NEW known \in BOOLEAN, NEW status \in Statuses, NEW ended,
           status \in Terminal => tool \in ended
    PROVE  GoesEvents(ToolEvents(tool, known, status), {tool}, ended)
<1>1. PICK r, s : r = ToolRequested(tool)
                  /\ s = IF status = "in_progress" THEN ToolProgress(tool) ELSE ToolCompleted(tool, status)
  OBVIOUS
<1>2. ToolEvents(tool, known, status) =
        IF known THEN IF status = "in_progress" \/ status \in Terminal THEN <<s>> ELSE <<>>
        ELSE IF status = "in_progress" \/ status \in Terminal THEN <<r, s>> ELSE <<r>>
  BY <1>1, ToolEventsAre
<1>3. GoesEvent(r, {tool}, ended)
  <2>1. KeepsTurn(r)
    BY <1>1, QuietKeeps DEF QuietEvents
  <2>2. {tool} \subseteq {tool} /\ {} \subseteq ended
    OBVIOUS
  <2>3. \A t \in ConversationTurns, u \in ConversationTurns :
             BlocksAlike(t.blocks, u.blocks) => EventGoes(t, u, r, {tool}, {})
    BY <1>1, RequestedAlike
  <2> QED BY <2>1, <2>2, <2>3, AlikeGoes
<1>4. ASSUME status = "in_progress"  PROVE GoesEvent(s, {tool}, ended)
  <2>1. KeepsTurn(s)
    BY <1>1, <1>4, QuietKeeps DEF QuietEvents
  <2>2. {tool} \subseteq {tool} /\ {} \subseteq ended
    OBVIOUS
  <2>3. \A t \in ConversationTurns, u \in ConversationTurns :
             BlocksAlike(t.blocks, u.blocks) => EventGoes(t, u, s, {tool}, {})
    BY <1>1, <1>4, ProgressAlike
  <2> QED BY <2>1, <2>2, <2>3, AlikeGoes
<1>5. ASSUME status \in Terminal  PROVE GoesEvent(s, {tool}, ended)
  <2>0. s = ToolCompleted(tool, status)
    BY <1>1, <1>5 DEF Terminal
  <2>1. KeepsTurn(s)
    BY <2>0, <1>5, QuietKeeps DEF QuietEvents, Terminal
  <2>2. {tool} \subseteq {tool} /\ {tool} \subseteq ended
    BY <1>5
  <2>3. \A t \in ConversationTurns, u \in ConversationTurns :
             BlocksAlike(t.blocks, u.blocks) => EventGoes(t, u, s, {tool}, {tool})
    BY <2>0, <1>5, CompletedAlike
  <2> QED BY <2>1, <2>2, <2>3, AlikeGoes
<1> QED BY <1>2, <1>3, <1>4, <1>5 DEF GoesEvents

ChunkEvents(update) ==
    IF ContentText(update.text) = <<>> THEN <<>>
    ELSE Delta(KindOf(update), update.id, ContentText(update.text), FALSE)

LEMMA ChunkIs ==
    ASSUME NEW update, IsChunk(update), NEW p, NEW P, P = Project(1, p, update)
    PROVE  P.projector = p /\ P.events = ChunkEvents(update) /\ P.refused = FALSE
<1>1. P = ProjectV1Chunk(p, KindOf(update), update.id, ContentText(update.text))
  BY ChunkContent DEF Project
<1>2. PICK events : events = ChunkEvents(update)
  OBVIOUS
<1>3. P = Projected(p, events)
  BY <1>1, <1>2, Zenon DEF ProjectV1Chunk, ChunkEvents
<1> QED BY <1>2, <1>3 DEF Projected

LEMMA ChunkGoes ==
    ASSUME NEW update, IsChunk(update), NEW called, NEW ended
    PROVE  GoesEvents(ChunkEvents(update), called, ended)
<1>0. PICK id \in Contents : id = update.id
  BY DEF IsChunk
<1>1. PICK text \in Seq(Pieces(id)) : text = ContentText(update.text)
  BY <1>0, ChunkContent
<1>2. KindOf(update) = IF id \in Messages THEN "message" ELSE "thought"
  BY <1>0, ChunkContent
<1>3. {} \subseteq called /\ {} \subseteq ended
  OBVIOUS
<1>4. CASE text = <<>>
  BY <1>1, <1>4 DEF ChunkEvents, GoesEvents
<1>5. CASE text # <<>> /\ id \in Messages
  <2>1. PICK e : e = MessageDelta(text, FALSE)
    OBVIOUS
  <2>2. ChunkEvents(update) = <<e>>
    BY <1>0, <1>1, <1>2, <1>5, <2>1 DEF ChunkEvents, Delta
  <2>3. text \in MessageTexts
    BY <1>5, TextsOf
  <2>4. KeepsTurn(e)
    BY <2>1, <2>3, MessageGives DEF KeepsTurn, Gives
  <2>5. \A t \in ConversationTurns, u \in ConversationTurns :
             BlocksAlike(t.blocks, u.blocks) => EventGoes(t, u, e, {}, {})
    BY <2>1, <2>3, MessageAlike
  <2>6. GoesEvent(e, called, ended)
    BY <1>3, <2>4, <2>5, AlikeGoes
  <2> QED BY <2>2, <2>6 DEF GoesEvents
<1>6. CASE text # <<>> /\ id \notin Messages
  <2>1. PICK e : e = ThoughtDelta(text, id, FALSE)
    OBVIOUS
  <2>2. ChunkEvents(update) = <<e>>
    BY <1>0, <1>1, <1>2, <1>6, <2>1 DEF ChunkEvents, Delta
  <2>3. text \in ThoughtTexts /\ id \in Thoughts
    BY <1>6, TextsOf DEF Contents
  <2>4. KeepsTurn(e)
    BY <1>6, <2>1, <2>3, ThoughtGives DEF KeepsTurn, Gives
  <2>5. \A t \in ConversationTurns, u \in ConversationTurns :
             BlocksAlike(t.blocks, u.blocks) => EventGoes(t, u, e, {}, {})
    BY <1>6, <2>1, <2>3, ThoughtAlike
  <2>6. GoesEvent(e, called, ended)
    BY <1>3, <2>4, <2>5, AlikeGoes
  <2> QED BY <2>2, <2>6 DEF GoesEvents
<1> QED BY <1>4, <1>5, <1>6

LEMMA PatchOutcome ==
    ASSUME NEW p, NEW tool, NEW patch, NEW old, old = p.tools[tool],
           NEW status, status = IF patch = "none" THEN old.status ELSE patch
    PROVE  ProjectTool(p, tool, patch) =
             IF old.known /\ old.patch = patch THEN Projected(p, <<>>)
             ELSE IF old.patch # patch /\ old.status \in Terminal
             THEN IF patch = old.status THEN Projected(p, <<>>) ELSE Invalid(p)
             ELSE Projected(Patched(p, tool, status, patch), ToolEvents(tool, old.known, status))
<1>1. PICK none, some, wrong : none = Projected(p, <<>>) /\ wrong = Invalid(p)
        /\ some = Projected(Patched(p, tool, status, patch), ToolEvents(tool, old.known, status))
  OBVIOUS
<1>2. PICK P : P = ProjectTool(p, tool, patch)
  OBVIOUS
<1>3. P = CASE old.known /\ old.patch = patch -> none
            [] old.patch # patch /\ old.status \in Terminal -> IF patch = old.status THEN none ELSE wrong
            [] OTHER -> some
  BY <1>1, <1>2, Zenon DEF ProjectTool, Patched
<1>4. P = IF old.known /\ old.patch = patch THEN none
          ELSE IF old.patch # patch /\ old.status \in Terminal THEN IF patch = old.status THEN none ELSE wrong
          ELSE some
  BY <1>3
<1> QED BY <1>1, <1>2, <1>4

(* The tools that a projector takes for ended. *)
Ended(p) == {tool \in Tools : p.tools[tool].status \in Terminal}

(* What a patch makes of a projector. *)
PatchDoes(P, p, tool) ==
    /\ ProjectorOK(P.projector) /\ P.refused \in BOOLEAN
    /\ \A t \in Tools \ {tool} : P.projector.tools[t] = p.tools[t]
    /\ P.projector.tools[tool] # p.tools[tool] =>
         P.projector.tools[tool].known /\ ~(p.tools[tool].known /\ p.tools[tool].status \in Terminal)
    /\ GoesEvents(P.events, {tool}, Ended(P.projector))

LEMMA PatchGoes ==
    ASSUME NEW p, ProjectorOK(p), NEW tool \in Tools, NEW patch \in Statuses, NEW P, P = ProjectTool(p, tool, patch)
    PROVE  PatchDoes(P, p, tool)
<1>1. PICK old : old = p.tools[tool]
  OBVIOUS
<1>2. old.known \in BOOLEAN /\ old.status \in Statuses
  BY <1>1, ProjectorFields DEF ProjectorOK
<1>3. PICK status \in Statuses : status = IF patch = "none" THEN old.status ELSE patch
  BY <1>2
<1>4. PICK known \in BOOLEAN : known = old.known
  BY <1>2
<1>5. P = IF old.known /\ old.patch = patch THEN Projected(p, <<>>)
             ELSE IF old.patch # patch /\ old.status \in Terminal
             THEN IF patch = old.status THEN Projected(p, <<>>) ELSE Invalid(p)
             ELSE Projected(Patched(p, tool, status, patch), ToolEvents(tool, old.known, status))
  BY <1>1, <1>3, PatchOutcome
<1>6. CASE P = Projected(p, <<>>) \/ P = Invalid(p)
  <2>1. P.projector = p /\ P.events = <<>> /\ P.refused \in BOOLEAN
    <3>1. PICK none : none = <<>>
      OBVIOUS
    <3>2. CASE P = Projected(p, none)
      BY <3>1, <3>2 DEF Projected
    <3>3. CASE P = Invalid(p)
      BY <3>3 DEF Invalid
    <3> QED BY <1>6, <3>1, <3>2, <3>3
  <2> QED BY <2>1 DEF PatchDoes, GoesEvents
<1>7. CASE /\ P = Projected(Patched(p, tool, status, patch), ToolEvents(tool, known, status))
           /\ ~(old.known /\ old.status \in Terminal)
  <2>1. PICK q : q = Patched(p, tool, status, patch)
    OBVIOUS
  <2>2. PatchesTool(p, q, tool, status, patch)
    BY <2>1, ProjectorPatched
  <2>3. P.projector = q /\ P.events = ToolEvents(tool, known, status) /\ P.refused = FALSE
    BY <1>7, <2>1 DEF Projected
  <2>4. q.tools[tool].known /\ q.tools[tool].status = status
    BY <2>2 DEF PatchesTool
  <2>5. PICK over : over = Ended(q)
    OBVIOUS
  <2>6. status \in Terminal => tool \in over
    BY <2>4, <2>5 DEF Ended
  <2>7. GoesEvents(ToolEvents(tool, known, status), {tool}, over)
    BY <2>6, ToolEventsGo
  <2> QED BY <1>1, <1>7, <2>2, <2>3, <2>4, <2>5, <2>7 DEF PatchDoes, PatchesTool
<1> QED BY <1>4, <1>5, <1>6, <1>7

SameProjection(P, Q) == P.events = Q.events /\ P.refused = Q.refused

LEMMA PatchesAlike ==
    ASSUME NEW p, ProjectorOK(p), NEW q, ProjectorOK(q), NEW tool \in Tools, NEW patch \in Statuses,
           p.tools[tool] = q.tools[tool], NEW P, P = ProjectTool(p, tool, patch), NEW Q, Q = ProjectTool(q, tool, patch)
    PROVE  SameProjection(P, Q) /\ P.projector.tools[tool] = Q.projector.tools[tool]
<1>1. PICK old : old = p.tools[tool] /\ old = q.tools[tool]
  OBVIOUS
<1>2. old.status \in Statuses
  BY <1>1, ProjectorFields DEF ProjectorOK
<1>3. PICK status \in Statuses : status = IF patch = "none" THEN old.status ELSE patch
  BY <1>2
<1>4. PICK x : x = Patched(p, tool, status, patch)
  OBVIOUS
<1>5. PICK y : y = Patched(q, tool, status, patch)
  OBVIOUS
<1>6. PICK events : events = ToolEvents(tool, old.known, status)
  OBVIOUS
<1>7. PatchesTool(p, x, tool, status, patch) /\ PatchesTool(q, y, tool, status, patch)
  BY <1>4, <1>5, ProjectorPatched
<1>8. x.tools[tool] = y.tools[tool]
  BY <1>7 DEF PatchesTool
<1>9. P = IF old.known /\ old.patch = patch THEN Projected(p, <<>>)
             ELSE IF old.patch # patch /\ old.status \in Terminal
             THEN IF patch = old.status THEN Projected(p, <<>>) ELSE Invalid(p)
             ELSE Projected(x, events)
  BY <1>1, <1>3, <1>4, <1>6, PatchOutcome
<1>10. Q = IF old.known /\ old.patch = patch THEN Projected(q, <<>>)
             ELSE IF old.patch # patch /\ old.status \in Terminal
             THEN IF patch = old.status THEN Projected(q, <<>>) ELSE Invalid(q)
             ELSE Projected(y, events)
  BY <1>1, <1>3, <1>5, <1>6, PatchOutcome
<1> QED BY <1>1, <1>8, <1>9, <1>10 DEF SameProjection, Projected, Invalid

-----------------------------------------------------------------------------
(* What is seen of a turn that is over does not depend on who ended it.       *)
Look(blocks) == WithoutTip(CloseStreamingText(blocks))

LEMMA LookOfTurn ==
    ASSUME NEW t, NEW u, t.user = u.user, Look(t.blocks) = Look(u.blocks)
    PROVE  Appearance(t) = Appearance(u)
BY DEF Look, Appearance

CallEnded(x, end) == [x EXCEPT !.status = ToolEnd(x.status, end), !.approval = None]
Shut(x) == [x EXCEPT !.streaming = FALSE]

(* What becomes of the block x in place i. *)
LEMMA ClosedAt ==
    ASSUME NEW b \in Seq(Blocks), NEW c, c = CloseStreamingText(b), NEW i \in 1..Len(b), NEW x \in Blocks, x = b[i]
    PROVE  /\ x.kind \in {"assistantText", "agentThought"} => c[i] = Shut(x)
           /\ x.kind \in {"toolCall", "failureTip"} => c[i] = x
<1>1. /\ b[i].kind \in {"assistantText", "agentThought"} => CloseStreamingText(b)[i] = [b[i] EXCEPT !.streaming = FALSE]
      /\ b[i].kind \in {"toolCall", "failureTip"} => CloseStreamingText(b)[i] = b[i]
  BY ClosingText, Zenon
<1> QED BY <1>1, Zenon DEF Shut

LEMMA EndedAt ==
    ASSUME NEW b \in Seq(Blocks), NEW end \in {"completed", "failed", "cancelled"}, NEW e, e = CloseTurnBlocks(b, end),
           NEW i \in 1..Len(b), NEW x \in Blocks, x = b[i]
    PROVE  /\ x.kind = "toolCall" => e[i] = CallEnded(x, end)
           /\ x.kind # "toolCall" => e[i] = CloseStreamingText(b)[i]
<1>1. \A k \in 1..Len(b) :
        /\ b[k].kind = "toolCall" =>
             CloseTurnBlocks(b, end)[k] = [b[k] EXCEPT !.status = ToolEnd(b[k].status, end), !.approval = None]
        /\ b[k].kind # "toolCall" => CloseTurnBlocks(b, end)[k] = CloseStreamingText(b)[k]
  BY ClosingTurn, Zenon
<1> QED BY <1>1, Zenon DEF CallEnded

LEMMA ClosedOnce ==
    ASSUME NEW x \in Blocks, x.kind \in {"assistantText", "agentThought"}, NEW z, z = Shut(x),
           NEW w, w = Shut(z)
    PROVE  z \in Blocks /\ z.kind = x.kind /\ w = z
<1>1. z \in Blocks /\ z.kind = x.kind /\ z.text = x.text /\ z.streaming = FALSE
      /\ (x.kind = "agentThought" => z.id = x.id)
  BY ClosedBlock DEF Shut
<1>2. w \in Blocks /\ w.kind = z.kind /\ w.text = z.text /\ w.streaming = FALSE
      /\ (z.kind = "agentThought" => w.id = z.id)
  BY <1>1, ClosedBlock DEF Shut
<1> QED BY <1>1, <1>2, SameBlock

LEMMA CallEnds ==
    ASSUME NEW x \in Blocks, NEW y \in Blocks, x.kind = "toolCall", BlockAlike(x, y), x.status \notin OpenStatus,
           NEW end \in {"completed", "failed", "cancelled"},
           NEW z, z = CallEnded(y, end)
    PROVE  z = x
<1>1. y.kind = "toolCall" /\ y.tool = x.tool /\ x.approval = None /\ y.status = x.status
  BY DEF BlockAlike
<1>2. PICK status \in ToolStatuses : status = y.status
  BY <1>1, BlockFields
<1>3. ToolEnd(y.status, end) = status
  BY <1>1, <1>2, ToolEndType
<1>4. PICK approval \in BlockApprovals : approval = None
  BY DEF BlockApprovals
<1>5. z = CallWith(y, status, approval)
  BY <1>3, <1>4, Zenon DEF CallWith, CallEnded
<1>6. z \in Blocks /\ z.kind = "toolCall" /\ z.tool = y.tool /\ z.status = status /\ z.approval = approval
  <2>1. LET w == CallWith(y, status, approval)
        IN w \in Blocks /\ w.kind = "toolCall" /\ w.tool = y.tool /\ w.status = status /\ w.approval = approval
    BY <1>1, CallChanged, Zenon
  <2> QED BY <1>5, <2>1
<1> QED BY <1>1, <1>2, <1>4, <1>6, SameBlock

(* No tool call is open. *)
AllOver(b) == \A i \in 1..Len(b) : b[i].kind = "toolCall" => b[i].status \notin OpenStatus

LEMMA OverUnlessUnfinished ==
    ASSUME NEW t \in ConversationTurns, ~Unfinished(t)
    PROVE  AllOver(t.blocks)
<1>1. PICK b \in Seq(Blocks) : b = t.blocks
  BY BlocksOfTurns
<1>2. DOMAIN b = 1..Len(b)
  OBVIOUS
<1> QED BY <1>1, <1>2 DEF Unfinished, AllOver

LEMMA ClosedAfterEnd ==
    ASSUME NEW a, NEW b, BlocksAlike(a, b), AllOver(a), NEW end \in {"completed", "failed", "cancelled"},
           NEW e, e = CloseTurnBlocks(b, end)
    PROVE  e \in Seq(Blocks) /\ CloseStreamingText(e) = CloseStreamingText(a)
<1>1. a \in Seq(Blocks) /\ b \in Seq(Blocks) /\ Len(b) = Len(a) /\ \A i \in 1..Len(a) : BlockAlike(a[i], b[i])
  BY DEF BlocksAlike
<1>2. e \in Seq(Blocks) /\ Len(e) = Len(a)
  BY <1>1, ClosingTurn
<1>3. PICK c : c = CloseStreamingText(a)
  OBVIOUS
<1>4. PICK d : d = CloseStreamingText(b)
  OBVIOUS
<1>5. PICK f : f = CloseStreamingText(e)
  OBVIOUS
<1>6. c \in Seq(Blocks) /\ Len(c) = Len(a) /\ f \in Seq(Blocks) /\ Len(f) = Len(a)
  BY <1>1, <1>2, <1>3, <1>5, ClosingText
<1>7. ASSUME NEW i \in 1..Len(a)
      PROVE  f[i] = c[i]
  <2>1. PICK x \in Blocks, y \in Blocks, z \in Blocks : x = a[i] /\ y = b[i] /\ z = e[i]
    BY <1>1, <1>2
  <2>2. BlockAlike(x, y) /\ i \in 1..Len(b) /\ i \in 1..Len(e)
    BY <1>1, <1>2, <2>1
  <2>3. /\ x.kind \in {"assistantText", "agentThought"} => c[i] = Shut(x)
        /\ x.kind \in {"toolCall", "failureTip"} => c[i] = x
    BY <1>1, <1>3, <2>1, ClosedAt
  <2>4. /\ y.kind \in {"assistantText", "agentThought"} => d[i] = Shut(y)
        /\ y.kind \in {"toolCall", "failureTip"} => d[i] = y
    BY <1>1, <1>4, <2>1, <2>2, ClosedAt
  <2>5. /\ z.kind \in {"assistantText", "agentThought"} => f[i] = Shut(z)
        /\ z.kind \in {"toolCall", "failureTip"} => f[i] = z
    BY <1>2, <1>5, <2>1, <2>2, ClosedAt
  <2>6. /\ y.kind = "toolCall" => z = CallEnded(y, end)
        /\ y.kind # "toolCall" => z = d[i]
    BY <1>1, <1>4, <2>1, <2>2, EndedAt
  <2>7. CASE x.kind = "toolCall"
    <3>1. y.kind = "toolCall"
      BY <2>2, <2>7 DEF BlockAlike
    <3>2. x.status \notin OpenStatus
      BY <2>1, <2>7 DEF AllOver
    <3>3. z = CallEnded(y, end)
      BY <2>6, <3>1
    <3>4. z = x
      BY <2>2, <2>7, <3>2, <3>3, CallEnds
    <3> QED BY <2>3, <2>5, <2>7, <3>4
  <2>8. CASE x.kind # "toolCall"
    <3>1. y = x
      BY <2>2, <2>8 DEF BlockAlike
    <3>2. CASE x.kind = "failureTip"
      BY <2>3, <2>4, <2>5, <2>6, <3>1, <3>2
    <3>3. CASE x.kind \in {"assistantText", "agentThought"}
      <4>1. z = Shut(x) /\ c[i] = z
        BY <2>3, <2>4, <2>6, <3>1, <3>3
      <4>2. PICK w : w = Shut(z)
        OBVIOUS
      <4>3. z.kind = x.kind /\ w = z
        BY <3>3, <4>1, <4>2, ClosedOnce
      <4> QED BY <2>5, <3>3, <4>1, <4>2, <4>3
    <3> QED BY <2>8, <3>2, <3>3, BlockKinds
  <2> QED BY <2>7, <2>8
<1>8. f = c
  BY <1>6, <1>7, SeqEqual
<1> QED BY <1>2, <1>3, <1>5, <1>8

LEMMA TipClosed ==
    ASSUME NEW b \in Seq(Blocks)
    PROVE  CloseStreamingText(Append(b, FailureTip)) = Append(CloseStreamingText(b), FailureTip)
<1>1. PICK tip \in Blocks : tip = FailureTip /\ tip.kind = "failureTip"
  BY BlockTypes DEF FailureTip
<1>2. PICK c \in Seq(Blocks) : c = Append(b, tip)
  BY LastOfAppend
<1>3. Len(c) = Len(b) + 1 /\ c[Len(b) + 1] = tip /\ \A i \in 1..Len(b) : c[i] = b[i]
  BY <1>2
<1>4. PICK d : d = CloseStreamingText(b)
  OBVIOUS
<1>5. PICK f : f = CloseStreamingText(c)
  OBVIOUS
<1>11. d \in Seq(Blocks) /\ Len(d) = Len(b) /\ f \in Seq(Blocks) /\ Len(f) = Len(c)
  BY <1>2, <1>4, <1>5, ClosingText
<1>6. PICK g \in Seq(Blocks) : g = Append(d, tip)
  BY <1>11, LastOfAppend
<1>7. Len(g) = Len(b) + 1 /\ g[Len(b) + 1] = tip /\ \A i \in 1..Len(b) : g[i] = d[i]
  BY <1>6, <1>11
<1>8. \A i \in 1..Len(c) : i \in 1..Len(b) \/ i = Len(b) + 1
  BY <1>3
<1>9. ASSUME NEW i \in 1..Len(c)
      PROVE  f[i] = g[i]
  <2>1. CASE i = Len(b) + 1
    <3>1. i \in 1..Len(c) /\ c[i] = tip
      BY <1>3, <2>1
    <3>2. f[i] = tip
      <4>1. tip = c[i] /\ c \in Seq(Blocks) /\ f = CloseStreamingText(c)
        BY <1>2, <1>5, <3>1
      <4>2. tip.kind \in {"toolCall", "failureTip"} => f[i] = tip
        BY <3>1, <4>1, ClosedAt
      <4> QED BY <1>1, <4>2
    <3> QED BY <1>7, <2>1, <3>2
  <2>2. CASE i \in 1..Len(b)
    <3>0. b[i] \in Blocks /\ c[i] = b[i]
      BY <1>3, <2>2
    <3>1. PICK x \in Blocks : x = b[i]
      BY <3>0
    <3>2. x = c[i] /\ c \in Seq(Blocks)
      BY <1>2, <3>0, <3>1
    <3>3. f = CloseStreamingText(c) /\ d = CloseStreamingText(b)
      BY <1>4, <1>5
    <3>4. /\ x.kind \in {"assistantText", "agentThought"} => f[i] = Shut(x)
          /\ x.kind \in {"toolCall", "failureTip"} => f[i] = x
      BY <3>2, <3>3, ClosedAt
    <3>5. /\ x.kind \in {"assistantText", "agentThought"} => d[i] = Shut(x)
          /\ x.kind \in {"toolCall", "failureTip"} => d[i] = x
      BY <2>2, <3>1, <3>3, ClosedAt
    <3> QED BY <1>7, <2>2, <3>4, <3>5, BlockKinds
  <2> QED BY <1>8, <2>1, <2>2
<1>10. f = g
  <2>1. Len(f) = Len(g)
    BY <1>3, <1>7, <1>11
  <2> QED BY <1>6, <1>9, <1>11, <2>1, SeqEqual
<1> QED BY <1>1, <1>2, <1>4, <1>5, <1>6, <1>10

LEMMA TipUnseen ==
    ASSUME NEW s \in Seq(Blocks)
    PROVE  WithoutTip(Append(s, FailureTip)) = WithoutTip(s)
<1> DEFINE P(y) == IF y.kind = "failureTip" THEN <<>> ELSE <<y>>
           parts == [i \in DOMAIN s |-> P(s[i])]
<1>0. PICK x \in Blocks : x = FailureTip /\ x.kind = "failureTip"
  BY BlockTypes DEF FailureTip
<1>1. \A y \in Blocks : P(y) \in Seq(Blocks)
  OBVIOUS
<1>2. P(x) = <<>>
  BY <1>0
<1> HIDE DEF P
<1>3. parts \in Seq(Seq(Blocks))
  <2>1. parts \in [1..Len(s) -> Seq(Blocks)]
    BY <1>1
  <2> QED BY <2>1, IsASeq
<1>4. [i \in DOMAIN Append(s, x) |-> P(Append(s, x)[i])] = Append(parts, P(x))
  BY <1>1
<1>5. WithoutTip(Append(s, x)) = FlattenSeq(Append(parts, P(x))) /\ WithoutTip(s) = FlattenSeq(parts)
  BY <1>4 DEF WithoutTip, P
<1>6. FlattenSeq(Append(parts, P(x))) = FlattenSeq(parts) \o P(x)
  BY <1>1, <1>3, FlattenAppend
<1>7. FlattenSeq(parts) \in Seq(Blocks)
  BY <1>3, FlattenType
<1>8. FlattenSeq(parts) \o P(x) = FlattenSeq(parts)
  BY <1>2, <1>7
<1> QED BY <1>0, <1>5, <1>6, <1>8

LEMMA LookWithTip ==
    ASSUME NEW b \in Seq(Blocks)
    PROVE  Look(Append(b, FailureTip)) = Look(b)
<1>1. PICK c \in Seq(Blocks) : c = CloseStreamingText(b)
  BY ClosingText
<1>2. CloseStreamingText(Append(b, FailureTip)) = Append(c, FailureTip)
  BY <1>1, TipClosed
<1> QED BY <1>1, <1>2, TipUnseen DEF Look

LEMMA NothingLooked == Look(<<>>) = <<>>
<1>1. CloseStreamingText(<<>>) = <<>>
  BY DEF CloseStreamingText
<1>2. [i \in DOMAIN <<>> |-> IF <<>>[i].kind = "failureTip" THEN <<>> ELSE <<(<<>>[i])>>] = <<>>
  OBVIOUS
<1>3. WithoutTip(<<>>) = FlattenSeq([i \in DOMAIN <<>> |-> IF <<>>[i].kind = "failureTip" THEN <<>> ELSE <<(<<>>[i])>>])
  BY DEF WithoutTip
<1> QED BY <1>1, <1>2, <1>3, FlattenNothing, Zenon DEF Look

(* An event that ends a turn, and what it does to the turn. *)
EndsAs(e, end) ==
    \A t \in ConversationTurns :
      \/ Apply(t, e).blocks = CloseTurnBlocks(t.blocks, end)
      \/ Apply(t, e).blocks = Append(CloseTurnBlocks(t.blocks, end), FailureTip)

LEMMA EndIs ==
    ASSUME NEW e, e \in Ends
    PROVE  KeepsTurn(e) /\ \E end \in {"completed", "failed", "cancelled"} : EndsAs(e, end)
<1>1. KeepsTurn(e)
  BY QuietKeeps DEF Ends, QuietEvents
<1>2. CASE e = RunFinished
  <2>1. \A t \in ConversationTurns : Apply(t, e) = End(t, "completed")
    BY <1>2 DEF Apply, RunFinished
  <2>2. \A t \in ConversationTurns : Apply(t, e).blocks = CloseTurnBlocks(t.blocks, "completed")
    BY <2>1, EndTells
  <2> QED BY <1>1, <2>2 DEF EndsAs
<1>3. ASSUME NEW end \in {"failed", "cancelled"}, e = RunFailed(end)
      PROVE  EndsAs(e, end)
  <2> SUFFICES ASSUME NEW t \in ConversationTurns
               PROVE  Apply(t, e).blocks = Append(CloseTurnBlocks(t.blocks, end), FailureTip)
    BY DEF EndsAs
  <2>1. PICK u \in ConversationTurns : u = End(t, end) /\ u.blocks = CloseTurnBlocks(t.blocks, end)
    BY EndTells DEF Tells
  <2>2. e.type = "runFailed" /\ e.status = end
    BY <1>3 DEF RunFailed
  <2>3. Apply(t, e) = [u EXCEPT !.blocks = Append(@, FailureTip)]
    BY <2>1, <2>2 DEF Apply
  <2> QED BY <2>1, <2>3 DEF ConversationTurns
<1> QED BY <1>1, <1>2, <1>3 DEF Ends

LEMMA EndedLook ==
    ASSUME NEW t \in ConversationTurns, NEW u \in ConversationTurns, BlocksAlike(t.blocks, u.blocks), ~Unfinished(t),
           NEW e \in Ends
    PROVE  Look(Apply(u, e).blocks) = Look(t.blocks)
<1>1. PICK end \in {"completed", "failed", "cancelled"} : EndsAs(e, end)
  BY EndIs
<1>2. PICK b : b = CloseTurnBlocks(u.blocks, end)
  OBVIOUS
<1>3. b \in Seq(Blocks) /\ CloseStreamingText(b) = CloseStreamingText(t.blocks)
  BY <1>2, OverUnlessUnfinished, ClosedAfterEnd
<1>4. Look(b) = Look(t.blocks)
  BY <1>3 DEF Look
<1>5. Look(Append(b, FailureTip)) = Look(b)
  BY <1>3, LookWithTip
<1>6. Apply(u, e).blocks = b \/ Apply(u, e).blocks = Append(b, FailureTip)
  BY <1>1, <1>2 DEF EndsAs
<1> QED BY <1>4, <1>5, <1>6

-----------------------------------------------------------------------------
(* The turns of the collector and those of the session.                       *)
SameLook(ts, us) == Len(us) = Len(ts) /\ \A i \in 1..Len(ts) : Appearance(us[i]) = Appearance(ts[i])

DelimitedBefore(ts, ids) == ids \/ \A i \in 1..(Len(ts) - 1) : Appearance(ts[i]).blocks # <<>>

(* The last turn is the collector's as long as the session projects it, and   *)
(* looks the same once it is over.                                            *)
LastMirrors(t, u, busy, gone) ==
    IF busy THEN t.user = u.user /\ BlocksAlike(t.blocks, u.blocks) /\ ToolsIn(t.blocks) \cap gone = {}
    ELSE Unfinished(t) \/ Appearance(t) = Appearance(u)

Mirrors(ts, us, busy, gone) ==
    /\ Len(us) = Len(ts)
    /\ \A i \in 1..(Len(ts) - 1) : Appearance(us[i]) = Appearance(ts[i])
    /\ ts # <<>> => LastMirrors(Last(ts), Last(us), busy, gone)

LEMMA ReworkedDelimits ==
    ASSUME NEW ts, NEW vs, NEW n, Reworked(ts, vs, n), NEW ids, DelimitedBefore(vs, ids)
    PROVE  DelimitedBefore(ts, ids)
<1>1. Len(vs) = Len(ts) /\ \A i \in 1..(Len(ts) - 1) : vs[i] = ts[i]
  BY ReworkedReady
<1> QED BY <1>1 DEF DelimitedBefore

LEMMA MirrorsReworked ==
    ASSUME NEW ts, NEW us, NEW busy, NEW gone, Mirrors(ts, us, busy, gone),
           NEW vs, NEW n, Reworked(ts, vs, n), NEW ws, NEW k, Reworked(us, ws, k),
           NEW after, LastMirrors(Last(vs), Last(ws), after, gone)
    PROVE  Mirrors(vs, ws, after, gone)
<1>1. Len(vs) = Len(ts) /\ \A i \in 1..(Len(ts) - 1) : vs[i] = ts[i]
  BY ReworkedReady
<1>2. Len(ws) = Len(us) /\ \A i \in 1..(Len(us) - 1) : ws[i] = us[i]
  BY ReworkedReady
<1> QED BY <1>1, <1>2 DEF Mirrors

LEMMA MirrorsGo ==
    ASSUME NEW ts, NEW n, Ready(ts, n), NEW us, NEW k, Ready(us, k), NEW gone, Mirrors(ts, us, TRUE, gone),
           NEW events, NEW called, NEW ended, GoesEvents(events, called, ended), called \cap gone = {},
           NEW vs, vs = ApplyEvents(ts, n, events), NEW ws, ws = ApplyEvents(us, k, events)
    PROVE  Mirrors(vs, ws, TRUE, gone) /\ Reworked(us, ws, k + Len(events))
<1>1. LastMirrors(Last(ts), Last(us), TRUE, gone)
  BY DEF Mirrors, Ready
<1>2. Last(ts).user = Last(us).user /\ BlocksAlike(Last(ts).blocks, Last(us).blocks)
      /\ ToolsIn(Last(ts).blocks) \cap gone = {}
  BY <1>1 DEF LastMirrors
<1>3. BothGo(ts, vs, n + Len(events), us, ws, k + Len(events), called, ended)
  BY <1>2, EventsGo
<1>4. Reworked(ts, vs, n + Len(events)) /\ Reworked(us, ws, k + Len(events))
      /\ Goes(Last(ts).blocks, Last(vs).blocks, Last(us).blocks, Last(ws).blocks, called, ended)
  BY <1>3 DEF BothGo
<1>5. Last(vs).user = Last(ts).user /\ Last(ws).user = Last(us).user
  BY <1>4, ReworkedReady
<1>6. BlocksAlike(Last(vs).blocks, Last(ws).blocks) /\ ToolsIn(Last(vs).blocks) \cap gone = {}
  BY <1>2, <1>4 DEF Goes
<1>7. LastMirrors(Last(vs), Last(ws), TRUE, gone)
  BY <1>2, <1>5, <1>6 DEF LastMirrors
<1> QED BY <1>4, <1>7, MirrorsReworked

(* A turn ends. *)
LEMMA EndLooks ==
    ASSUME NEW us, NEW k, Ready(us, k), NEW t \in ConversationTurns, BlocksAlike(t.blocks, Last(us).blocks), ~Unfinished(t),
           t.user = Last(us).user, NEW e \in Ends, NEW events, events = <<e>>, NEW ws, ws = ApplyEvents(us, k, events)
    PROVE  Reworked(us, ws, k + 1) /\ Appearance(Last(ws)) = Appearance(t)
<1>1. ws = ApplyEvent(us, k + 1, e)
  BY ApplyTwo
<1>2. KeepsTurn(e)
  BY EndIs
<1>3. PICK s \in ConversationTurns :
             /\ s.blocks = Last(us).blocks /\ s.user = Last(us).user
             /\ Reworked(us, ApplyEvent(us, k + 1, e), k + 1)
             /\ Last(ApplyEvent(us, k + 1, e)).blocks = Apply(s, e).blocks
  BY <1>2, EventReworks
<1>4. Reworked(us, ws, k + 1) /\ Last(ws).blocks = Apply(s, e).blocks
  BY <1>1, <1>3
<1>5. Last(ws).user = t.user
  BY <1>4, ReworkedReady
<1>6. Look(Last(ws).blocks) = Look(t.blocks)
  BY <1>3, <1>4, EndedLook
<1> QED BY <1>4, <1>5, <1>6, LookOfTurn

(* Whoever ends it, the session or, for a reason of its own, the Agent. *)
LEMMA ReworkedEnd ==
    ASSUME NEW us, NEW k, Ready(us, k), NEW e \in Ends, NEW events, events = <<e>>, NEW ws, ws = ApplyEvents(us, k, events)
    PROVE  Reworked(us, ws, k + 1)
<1>1. ws = ApplyEvent(us, k + 1, e)
  BY ApplyTwo
<1>2. KeepsTurn(e)
  BY EndIs
<1> QED BY <1>1, <1>2, EventReworks

LEMMA MirrorsEnd ==
    ASSUME NEW ts \in Seq(ConversationTurns), NEW us, NEW k, Ready(us, k), NEW gone, Mirrors(ts, us, TRUE, gone),
           NEW e \in Ends, NEW events, events = <<e>>, NEW ws, ws = ApplyEvents(us, k, events)
    PROVE  Mirrors(ts, ws, FALSE, gone)
<1>1. us \in Seq(ConversationTurns) /\ us # <<>> /\ Len(us) = Len(ts) /\ ts # <<>>
  BY DEF Mirrors, Ready
<1>2. Reworked(us, ws, k + 1)
  BY ReworkedEnd
<1>3. Len(ws) = Len(us) /\ \A i \in 1..(Len(us) - 1) : ws[i] = us[i]
  BY <1>2, ReworkedReady
<1>4. PICK t \in ConversationTurns : t = Last(ts)
  BY <1>1, LastOfSequence
<1>5. t.user = Last(us).user /\ BlocksAlike(t.blocks, Last(us).blocks)
  BY <1>1, <1>4 DEF Mirrors, LastMirrors
<1>6. LastMirrors(t, Last(ws), FALSE, gone)
  <2>1. CASE Unfinished(t)
    BY <2>1 DEF LastMirrors
  <2>2. CASE ~Unfinished(t)
    <3>1. Appearance(Last(ws)) = Appearance(t)
      BY <1>5, <2>2, EndLooks
    <3> QED BY <3>1 DEF LastMirrors
  <2> QED BY <2>1, <2>2
<1> QED BY <1>1, <1>3, <1>4, <1>6 DEF Mirrors

(* A new turn follows a last turn that is over in both. *)
LEMMA MirrorsOpen ==
    ASSUME NEW ts \in Seq(ConversationTurns), NEW us \in Seq(ConversationTurns), SameLook(ts, us),
           NEW t \in ConversationTurns, NEW u \in ConversationTurns, t.user = u.user, t.blocks = <<>>, u.blocks = <<>>,
           NEW gone
    PROVE  Mirrors(Append(ts, t), Append(us, u), TRUE, gone)
<1>1. PICK vs \in Seq(ConversationTurns) : vs = Append(ts, t)
  BY LastOfAppend
<1>2. PICK ws \in Seq(ConversationTurns) : ws = Append(us, u)
  BY LastOfAppend
<1>3. Len(vs) = Len(ts) + 1 /\ Last(vs) = t /\ \A i \in 1..Len(ts) : vs[i] = ts[i]
  BY <1>1, LastOfAppend
<1>4. Len(ws) = Len(us) + 1 /\ Last(ws) = u /\ \A i \in 1..Len(us) : ws[i] = us[i]
  BY <1>2, LastOfAppend
<1>5. Len(us) = Len(ts) /\ \A i \in 1..Len(ts) : Appearance(us[i]) = Appearance(ts[i])
  BY DEF SameLook
<1>6. (Len(ts) + 1) - 1 = Len(ts)
  OBVIOUS
<1>7. \A i \in 1..(Len(vs) - 1) : Appearance(ws[i]) = Appearance(vs[i])
  BY <1>3, <1>4, <1>5, <1>6
<1>8. LastMirrors(t, u, TRUE, gone)
  <2>1. BlocksAlike(<<>>, <<>>) /\ ToolsIn(<<>>) = {}
    BY DEF BlocksAlike, ToolsIn
  <2> QED BY <2>1 DEF LastMirrors
<1> QED BY <1>1, <1>2, <1>3, <1>4, <1>5, <1>7, <1>8 DEF Mirrors

-----------------------------------------------------------------------------
(* The collector by itself. A tool is unknown to it until the record patches  *)
(* it; the calls of its last turn that are over are those of tools that have  *)
(* ended; and the id of a prompt is its number.                               *)
PatchedIn(log) == {t \in Tools : \E i \in DOMAIN log : log[i].kind = "tool" /\ log[i].tool = t}
Untouched(p, patched) ==
    \A t \in Tools \ patched : p.tools[t] = [known |-> FALSE, status |-> "none", patch |-> "none"]
KnowsEnded(p) == \A t \in Ended(p) : p.tools[t].known

LastKept(ts, p) == BlocksAlike(Last(ts).blocks, Last(ts).blocks) /\ OverIn(Last(ts).blocks) \subseteq Ended(p)

CollectorKeeps(c, patched, ids) ==
    /\ c.phase = "user" => Last(c.turns).blocks = <<>>
    /\ c.turns # <<>> => LastKept(c.turns, c.projector)
    /\ KnowsEnded(c.projector) /\ Untouched(c.projector, patched)
    /\ ids /\ c.turns # <<>> => c.id = Len(PromptsIn(c.turns))

LEMMA SameEnds ==
    ASSUME NEW ts \in Seq(ConversationTurns), NEW us \in Seq(ConversationTurns), ts # <<>>, Len(us) = Len(ts),
           \A i \in 1..(Len(ts) - 1) : us[i] = ts[i], Appearance(Last(us)) = Appearance(Last(ts))
    PROVE  SameLook(ts, us)
<1>1. Last(us) = us[Len(ts)] /\ Last(ts) = ts[Len(ts)]
  BY DEF Last
<1>2. \A i \in 1..Len(ts) : i \in 1..(Len(ts) - 1) \/ i = Len(ts)
  OBVIOUS
<1>3. ASSUME NEW i \in 1..Len(ts)  PROVE Appearance(us[i]) = Appearance(ts[i])
  <2>1. CASE i = Len(ts)
    BY <1>1, <2>1
  <2>2. CASE i \in 1..(Len(ts) - 1)
    BY <2>2
  <2> QED BY <1>2, <2>1, <2>2
<1> QED BY <1>3 DEF SameLook

(* A turn that is complete looks as it did. *)
LEMMA CompletingLooks ==
    ASSUME NEW c, NEW texts, NEW prompts, Collects(c, texts, prompts), c.turns # <<>>, LastKept(c.turns, c.projector),
           NEW d, d = CompleteCurrentTurn(c), ~d.refused
    PROVE  /\ ~Unfinished(Last(c.turns)) /\ SameLook(c.turns, d.turns) /\ Collects(d, texts, prompts)
           /\ d.projector = c.projector /\ d.turns # <<>>
<1>1. CollectorOK(c) /\ ~c.refused /\ Faithful(c.turns, c.sequence, texts, {})
  BY DEF Collects, Gathered
<1>2. c.turns \in Seq(ConversationTurns) /\ c.sequence \in Nat
  BY <1>1 DEF Faithful
<1>3. Ready(c.turns, c.sequence)
  BY <1>1, FaithfulReady
<1>4. Collects(d, texts, prompts) /\ d.turns # <<>> /\ ~Unfinished(Last(c.turns)) /\ d.projector = c.projector
  BY CompletingGathers
<1>5. PICK t \in ConversationTurns : t = Last(c.turns)
  BY <1>2, LastOfSequence
<1>6. PICK events : events = <<RunFinished>>
  OBVIOUS
<1>7. PICK e \in Ends : e = RunFinished
  BY DEF Ends
<1>8. PICK ws : ws = ApplyEvents(c.turns, c.sequence, events)
  OBVIOUS
<1>9. Reworked(c.turns, ws, c.sequence + 1) /\ Appearance(Last(ws)) = Appearance(t)
  <2>1. BlocksAlike(t.blocks, Last(c.turns).blocks) /\ ~Unfinished(t) /\ t.user = Last(c.turns).user /\ events = <<e>>
    BY <1>4, <1>5, <1>6, <1>7 DEF LastKept
  <2> QED BY <1>3, <1>8, <2>1, EndLooks
<1>10. ws \in Seq(ConversationTurns) /\ Len(ws) = Len(c.turns) /\ \A i \in 1..(Len(c.turns) - 1) : ws[i] = c.turns[i]
  BY <1>9, ReworkedReady DEF Ready
<1>11. d.turns = ws
  <2>1. ws = ApplyEvents(c.turns, c.sequence, <<RunFinished>>)
    BY <1>6, <1>8
  <2>2. PICK k \in Nat : k = c.sequence + 1
    BY <1>2
  <2>3. d.refused \/ WithTurns(c, d, ws, k)
    BY <1>1, <1>10, <2>1, <2>2, Completing
  <2> QED BY <2>3 DEF WithTurns, CollectorOf
<1>12. SameLook(c.turns, ws)
  BY <1>2, <1>5, <1>9, <1>10, SameEnds
<1> QED BY <1>4, <1>11, <1>12

(* What an output makes of the collector's tools. *)
OutputTouches(P, p, called, more) ==
    /\ ProjectorOK(P.projector) /\ P.refused \in BOOLEAN
    /\ GoesEvents(P.events, called, Ended(P.projector))
    /\ Ended(p) \subseteq Ended(P.projector) /\ KnowsEnded(P.projector) /\ Untouched(P.projector, more)

LEMMA OutputTools ==
    ASSUME NEW p, ProjectorOK(p), NEW patched, KnowsEnded(p), Untouched(p, patched), NEW more, patched \subseteq more,
           NEW update, IsPatch(update) \/ IsChunk(update), IsPatch(update) => update.tool \in more,
           NEW P, P = Project(1, p, update)
    PROVE  \E called : OutputTouches(P, p, called, more)
<1>1. CASE IsPatch(update)
  <2>1. PICK tool \in Tools : tool = update.tool /\ tool \in more
    BY <1>1 DEF IsPatch
  <2>2. PatchDoes(P, p, tool)
    BY <1>1, <2>1, PatchGoes DEF Project, IsPatch
  <2>3. PICK q : q = P.projector
    OBVIOUS
  <2>4. /\ ProjectorOK(q) /\ P.refused \in BOOLEAN /\ GoesEvents(P.events, {tool}, Ended(q))
        /\ \A t \in Tools \ {tool} : q.tools[t] = p.tools[t]
        /\ q.tools[tool] # p.tools[tool] => q.tools[tool].known /\ ~(p.tools[tool].known /\ p.tools[tool].status \in Terminal)
    BY <2>2, <2>3 DEF PatchDoes
  <2>5. Ended(p) \subseteq Ended(q) /\ KnowsEnded(q)
    <3>1. ASSUME NEW t \in Tools, t \in Ended(p)  PROVE t \in Ended(q)
      BY <2>4, <3>1 DEF Ended, KnowsEnded
    <3>2. ASSUME NEW t \in Tools, t \in Ended(q)  PROVE q.tools[t].known
      BY <2>4, <3>2 DEF Ended, KnowsEnded
    <3> QED BY <3>1, <3>2 DEF Ended, KnowsEnded
  <2>6. Untouched(q, more)
    BY <2>1, <2>4 DEF Untouched
  <2> QED BY <2>3, <2>4, <2>5, <2>6 DEF OutputTouches
<1>2. CASE IsChunk(update)
  <2>1. P.projector = p /\ P.events = ChunkEvents(update) /\ P.refused = FALSE
    BY <1>2, ChunkIs
  <2>2. GoesEvents(P.events, {}, Ended(p))
    BY <1>2, <2>1, ChunkGoes
  <2>3. Untouched(p, more)
    BY DEF Untouched
  <2> QED BY <2>1, <2>2, <2>3 DEF OutputTouches
<1> QED BY <1>1, <1>2

LEMMA ReworkedUsers ==
    ASSUME NEW ts, NEW us, NEW k, Reworked(ts, us, k)
    PROVE  SameUsers(ts, us)
<1>1. /\ Ready(us, k) /\ ts \in Seq(ConversationTurns) /\ ts # <<>> /\ Len(us) = Len(ts)
      /\ \A i \in 1..(Len(ts) - 1) : us[i] = ts[i]
      /\ Last(us).user = Last(ts).user /\ Last(us) = us[Len(ts)] /\ Last(ts) = ts[Len(ts)]
  BY ReworkedReady
<1>2. \A i \in 1..Len(ts) : i \in 1..(Len(ts) - 1) \/ i = Len(ts)
  BY <1>1
<1> QED BY <1>1, <1>2 DEF SameUsers, Ready

(* What an output that the collector accepts does to it. *)
OutputMakes(c, d, P, update) ==
    /\ ~P.refused /\ (update.kind # "tool" => update.text # None)
    /\ d.projector = P.projector /\ d.turns = ApplyEvents(c.turns, c.sequence, P.events)
    /\ c.turns = <<>> => P.events = <<>>

LEMMA OutputKeeps ==
    ASSUME NEW c, NEW texts, NEW prompts, Collects(c, texts, prompts),
           NEW patched, NEW ids, CollectorKeeps(c, patched, ids), NEW more, patched \subseteq more,
           NEW update, IsPatch(update) \/ IsChunk(update), IsPatch(update) => update.tool \in more,
           NEW P, P = Project(1, c.projector, update), NEW d, d = Accept(c, update), ~d.refused
    PROVE  CollectorKeeps(d, more, ids) /\ OutputMakes(c, d, P, update)
<1>1. /\ CollectorOK(c) /\ ~c.refused /\ Faithful(c.turns, c.sequence, texts, {}) /\ ProjectorOK(c.projector)
      /\ (c.phase = "empty" <=> c.turns = <<>>) /\ Prompted(c.turns)
  BY DEF Collects, Gathered, CollectorOK
<1>2. c.turns \in Seq(ConversationTurns) /\ c.sequence \in Nat
  BY <1>1 DEF Faithful
<1>3. PICK called : OutputTouches(P, c.projector, called, more)
  BY <1>1, OutputTools DEF CollectorKeeps
<1>4. PICK ended : ended = Ended(P.projector)
  OBVIOUS
<1>5. /\ ProjectorOK(P.projector) /\ P.refused \in BOOLEAN /\ GoesEvents(P.events, called, ended)
      /\ Ended(c.projector) \subseteq ended /\ KnowsEnded(P.projector) /\ Untouched(P.projector, more)
  BY <1>3, <1>4 DEF OutputTouches
<1>6. PICK us : us = ApplyEvents(c.turns, c.sequence, P.events)
  OBVIOUS
<1>7. PICK k : k = c.sequence + Len(P.events)
  OBVIOUS
<1>8. CASE c.turns = <<>>
  <2>1. P.events = <<>>
    <3>1. update.kind # "user"
      BY ChunkContent DEF IsPatch, IsChunk
    <3> QED BY <1>1, <1>8, <3>1, OutputWithoutTurn
  <2>2. us = c.turns /\ k = c.sequence
    <3>1. ApplyEvents(c.turns, c.sequence, <<>>) = c.turns
      BY ApplyNone
    <3>2. c.sequence + Len(<<>>) = c.sequence
      BY <1>2
    <3> QED BY <1>6, <1>7, <2>1, <3>1, <3>2
  <2>3. us \in Seq(ConversationTurns) /\ k \in Nat
    BY <1>2, <2>2
  <2>4. /\ ~P.refused /\ (update.kind # "tool" => update.text # None) /\ d.projector = P.projector
        /\ CollectorOf(d, us, k) /\ d.phase = c.phase
    BY <1>1, <1>5, <1>6, <1>7, <2>1, <2>3, Outputs
  <2>5. d.turns = <<>> /\ d.phase = "empty"
    BY <1>1, <1>8, <2>2, <2>4 DEF CollectorOf
  <2> QED BY <1>5, <1>6, <2>1, <2>4, <2>5 DEF CollectorKeeps, OutputMakes, CollectorOf
<1>9. CASE c.turns # <<>>
  <2>1. Ready(c.turns, c.sequence)
    BY <1>1, <1>9, FaithfulReady
  <2>2. BlocksAlike(Last(c.turns).blocks, Last(c.turns).blocks) /\ OverIn(Last(c.turns).blocks) \subseteq Ended(c.projector)
    BY <1>9 DEF CollectorKeeps, LastKept
  <2>3. BothGo(c.turns, us, k, c.turns, us, k, called, ended)
    BY <1>5, <1>6, <1>7, <2>1, <2>2, EventsGo
  <2>4. Reworked(c.turns, us, k) /\ Goes(Last(c.turns).blocks, Last(us).blocks, Last(c.turns).blocks, Last(us).blocks, called, ended)
    BY <2>3 DEF BothGo
  <2>5. us \in Seq(ConversationTurns) /\ k \in Nat /\ us # <<>>
    BY <2>4, ReworkedReady DEF Ready
  <2>6. /\ ~P.refused /\ (update.kind # "tool" => update.text # None) /\ d.projector = P.projector
        /\ CollectorOf(d, us, k) /\ d.id = c.id
        /\ P.events = <<>> => d.phase = c.phase
        /\ P.events # <<>> => d.phase = "output"
    BY <1>1, <1>5, <1>6, <1>7, <2>5, Outputs
  <2>7. PromptsIn(us) = PromptsIn(c.turns)
    <3>1. SameUsers(c.turns, us)
      BY <2>4, ReworkedUsers
    <3> QED BY <1>1, <3>1, SamePrompts
  <2>8. LastKept(us, P.projector)
    <3>1. BlocksAlike(Last(us).blocks, Last(us).blocks) /\ OverIn(Last(us).blocks) \subseteq OverIn(Last(c.turns).blocks) \cup ended
      BY <2>4 DEF Goes
    <3> QED BY <1>4, <1>5, <2>2, <3>1 DEF LastKept
  <2>9. d.phase = "user" => Last(us).blocks = <<>>
    <3>1. SUFFICES ASSUME d.phase = "user"  PROVE Last(us).blocks = <<>>
      OBVIOUS
    <3>2. P.events = <<>> /\ c.phase = "user"
      BY <2>6, <3>1
    <3>3. us = c.turns
      BY <1>6, <3>2, ApplyNone
    <3> QED BY <3>2, <3>3 DEF CollectorKeeps
  <2>10. ids => d.id = Len(PromptsIn(us))
    BY <1>9, <2>6, <2>7 DEF CollectorKeeps
  <2> QED BY <1>5, <1>6, <1>9, <2>6, <2>8, <2>9, <2>10 DEF CollectorKeeps, OutputMakes, CollectorOf
<1> QED BY <1>8, <1>9

(* A turn that begins is empty. *)
LEMMA StartKeepsBlocks ==
    ASSUME NEW s \in ConversationTurns
    PROVE  Apply(s, RunStarted).blocks = s.blocks
BY DEF Apply, RunStarted, ConversationTurns

LEMMA BeginningOpens ==
    ASSUME NEW c, NEW texts, NEW prompts, Collects(c, texts, prompts), NEW id \in {None} \cup (1..MaxPrompts),
           NEW d, d = BeginReplayedTurn(c, id)
    PROVE  /\ CollectorOK(d) /\ ~d.refused /\ d.phase = "user" /\ d.id = id /\ d.projector = c.projector
           /\ \E v \in ConversationTurns : d.turns = Append(c.turns, v) /\ v.blocks = <<>> /\ v.user = <<>>
<1>1. CollectorOK(c) /\ ~c.refused /\ Faithful(c.turns, c.sequence, texts, {})
  BY DEF Collects, Gathered
<1>2. c.turns \in Seq(ConversationTurns) /\ c.sequence \in Nat
  BY <1>1 DEF Faithful
<1>3. PICK user \in Seq(1..MaxPrompts) : user = <<>>
  <2>1. <<>> \in Seq(1..MaxPrompts)
    OBVIOUS
  <2> QED BY <2>1, Zenon
<1>4. PICK t : t = CreateConversationTurn(user, c.sequence)
  OBVIOUS
<1>5. t \in ConversationTurns /\ t.blocks = <<>> /\ t.lastEvent <= c.sequence /\ t.user = <<>>
  <2>1. PICK n \in Nat : n = c.sequence
    BY <1>2
  <2>2. t \in ConversationTurns /\ t.blocks = <<>> /\ t.lastEvent = n /\ t.user = user
    <3>1. t = CreateConversationTurn(user, n)
      BY <1>4, <2>1
    <3> QED BY <3>1, TurnCreated
  <2>3. n <= n
    OBVIOUS
  <2> QED BY <1>3, <2>1, <2>2, <2>3
<1>6. PICK vs \in Seq(ConversationTurns) : vs = Append(c.turns, t)
  BY <1>2, <1>5, LastOfAppend
<1>7. vs # <<>> /\ Last(vs) = t
  BY <1>2, <1>5, <1>6, LastOfAppend
<1>8. Ready(vs, c.sequence)
  BY <1>2, <1>5, <1>7 DEF Ready
<1>9. PICK e : e = RunStarted
  OBVIOUS
<1>10. KeepsTurn(e)
  BY <1>9, QuietKeeps DEF QuietEvents
<1>11. PICK us : us = ApplyEvent(vs, c.sequence + 1, e)
  OBVIOUS
<1>12. PICK s \in ConversationTurns :
             /\ s.blocks = Last(vs).blocks /\ s.user = Last(vs).user
             /\ Reworked(vs, us, c.sequence + 1)
             /\ Last(us).blocks = Apply(s, e).blocks
  BY <1>8, <1>10, <1>11, EventReworks
<1>13. Last(us).blocks = <<>>
  BY <1>5, <1>7, <1>9, <1>12, StartKeepsBlocks
<1>14. PICK v \in ConversationTurns : us = Append(c.turns, v) /\ v.user = <<>>
  <2>1. PICK F \in Seq(ConversationTurns), x \in ConversationTurns, v \in ConversationTurns :
          vs = Append(F, x) /\ us = Append(F, v) /\ v.user = x.user
    BY <1>12 DEF Reworked
  <2>2. F = c.turns
    <3>1. Front(vs) = F
      BY <2>1, FrontOfAppend
    <3>2. Front(vs) = c.turns
      BY <1>2, <1>5, <1>6, FrontOfAppend
    <3> QED BY <3>1, <3>2
  <2>3. x = t
    BY <1>7, <2>1, LastOfAppend
  <2> QED BY <1>5, <2>1, <2>2, <2>3
<1>15. v.blocks = <<>>
  BY <1>2, <1>13, <1>14, LastOfAppend
<1>16. us \in Seq(ConversationTurns)
  BY <1>12, ReworkedReady DEF Ready
<1>17. PICK k \in Nat : k = c.sequence + 1
  BY <1>2
<1>18. PICK events : events = <<RunStarted>>
  OBVIOUS
<1>19. us = ApplyEvents(vs, c.sequence, events)
  BY <1>9, <1>11, <1>18, ApplyTwo
<1>20. Begins(c, vs, us, k)
  BY <1>3, <1>4, <1>6, <1>17, <1>18, <1>19 DEF Begins
<1>21. /\ CollectorOK(d) /\ CollectorOf(d, us, k)
       /\ d.projector = c.projector /\ d.phase = "user" /\ d.id = id /\ ~d.refused
  BY <1>1, <1>16, <1>20, Beginning
<1> QED BY <1>14, <1>15, <1>21 DEF CollectorOf

(* A prompt is the first of a turn, or continues the last. *)
UserOf(v, text) == [v EXCEPT !.user = @ \o text]

LEMMA UserGiven ==
    ASSUME NEW s \in Seq(ConversationTurns), NEW v \in ConversationTurns, NEW text \in Seq(1..MaxPrompts),
           NEW x, x = UserOf(v, text)
    PROVE  /\ x \in ConversationTurns /\ x.blocks = v.blocks /\ (v.user = <<>> => x.user = text)
           /\ WithUser(Append(s, v), text) = Append(s, x)
<1>0. PICK user \in Seq(1..MaxPrompts) : user = v.user \o text /\ (v.user = <<>> => user = text)
  <2>1. v.user \in Seq(1..MaxPrompts)
    BY DEF ConversationTurns
  <2>2. v.user \o text \in Seq(1..MaxPrompts) /\ (v.user = <<>> => v.user \o text = text)
    BY <2>1
  <2> QED BY <2>2
<1>1. x \in ConversationTurns /\ x.blocks = v.blocks /\ x.user = user
  <2>1. x = [v EXCEPT !.user = user]
    BY <1>0 DEF UserOf
  <2> QED BY <1>0, <2>1 DEF ConversationTurns
<1>2. v.user = <<>> => x.user = text
  BY <1>0, <1>1
<1>3. PICK vs \in Seq(ConversationTurns) : vs = Append(s, v)
  BY LastOfAppend
<1>4. Len(vs) = Len(s) + 1 /\ vs[Len(s) + 1] = v /\ \A i \in 1..Len(s) : vs[i] = s[i]
  BY <1>3
<1>5. PICK ws : ws = WithUser(vs, text)
  OBVIOUS
<1>6. ws = [vs EXCEPT ![Len(vs)] = x]
  BY <1>4, <1>5 DEF WithUser, UserOf
<1>7. ws \in Seq(ConversationTurns) /\ Len(ws) = Len(s) + 1
  BY <1>1, <1>4, <1>6
<1>8. ws[Len(s) + 1] = x /\ \A i \in 1..Len(s) : ws[i] = s[i]
  BY <1>4, <1>6
<1>9. PICK zs \in Seq(ConversationTurns) : zs = Append(s, x)
  BY <1>1, LastOfAppend
<1>10. Len(zs) = Len(s) + 1 /\ zs[Len(s) + 1] = x /\ \A i \in 1..Len(s) : zs[i] = s[i]
  BY <1>9
<1>11. \A i \in 1..Len(ws) : ws[i] = zs[i]
  <2>1. \A i \in 1..(Len(s) + 1) : i \in 1..Len(s) \/ i = Len(s) + 1
    OBVIOUS
  <2> QED BY <1>7, <1>8, <1>10, <2>1
<1>12. ws = zs
  BY <1>7, <1>9, <1>10, <1>11, SeqEqual
<1> QED BY <1>1, <1>2, <1>3, <1>5, <1>9, <1>12

(* The prompt opens a turn after turns that look as those before. *)
OpensAnew(ts, us, text) ==
    \E vs \in Seq(ConversationTurns), x \in ConversationTurns :
      us = Append(vs, x) /\ x.blocks = <<>> /\ x.user = text /\ SameLook(ts, vs)

LEMMA SameLookSelf ==
    ASSUME NEW ts
    PROVE  SameLook(ts, ts)
BY DEF SameLook

\* A prompt c takes as a new message leaves d: a turn of its own, after the look of the others.
PromptOpened(c, d, text, id) ==
    /\ OpensAnew(c.turns, d.turns, text)
    /\ c.turns # <<>> => ~Unfinished(Last(c.turns))
    /\ d.phase = "user" /\ d.id = id /\ d.projector = c.projector

LEMMA PromptOpens ==
    ASSUME NEW c, NEW texts, NEW prompts, Collects(c, texts, prompts), NEW patched, NEW ids, CollectorKeeps(c, patched, ids),
           NEW text \in Seq(1..MaxPrompts), NEW id \in {None} \cup (1..MaxPrompts),
           NEW e, e = IF c.turns = <<>> THEN c ELSE CompleteCurrentTurn(c), ~e.refused,
           NEW d, d = ExtendUser(BeginReplayedTurn(e, id), text)
    PROVE  PromptOpened(c, d, text, id)
<1>1. Collects(e, texts, prompts) /\ SameLook(c.turns, e.turns) /\ e.projector = c.projector
      /\ (c.turns # <<>> => ~Unfinished(Last(c.turns)))
  <2>1. CASE c.turns = <<>>
    BY <2>1, SameLookSelf
  <2>2. CASE c.turns # <<>>
    <3>1. e = CompleteCurrentTurn(c) /\ LastKept(c.turns, c.projector)
      BY <2>2 DEF CollectorKeeps
    <3> QED BY <2>2, <3>1, CompletingLooks
  <2> QED BY <2>1, <2>2
<1>2. PICK b : b = BeginReplayedTurn(e, id)
  OBVIOUS
<1>3. /\ CollectorOK(b) /\ ~b.refused /\ b.phase = "user" /\ b.id = id /\ b.projector = e.projector
      /\ \E v \in ConversationTurns : b.turns = Append(e.turns, v) /\ v.blocks = <<>> /\ v.user = <<>>
  BY <1>1, <1>2, BeginningOpens
<1>4. PICK v \in ConversationTurns : b.turns = Append(e.turns, v) /\ v.blocks = <<>> /\ v.user = <<>>
  BY <1>3
<1>5. e.turns \in Seq(ConversationTurns)
  BY <1>1 DEF Collects, Gathered, Faithful
<1>6. PICK x : x = UserOf(v, text)
  OBVIOUS
<1>7. x \in ConversationTurns /\ x.blocks = <<>> /\ x.user = text /\ WithUser(Append(e.turns, v), text) = Append(e.turns, x)
  BY <1>4, <1>5, <1>6, UserGiven
<1>8. PICK us \in Seq(ConversationTurns) : us = Append(e.turns, x)
  BY <1>5, <1>7, LastOfAppend
<1>9. us = WithUser(b.turns, text)
  BY <1>4, <1>7, <1>8
<1>10. CollectorOf(d, us, b.sequence) /\ d.projector = b.projector /\ d.phase = "user" /\ d.id = b.id
  <2>1. d = ExtendUser(b, text)
    BY <1>2
  <2>2. CollectorOK(b) /\ ~b.refused /\ us \in Seq(ConversationTurns)
    BY <1>3, <1>8
  <2>3. CollectorOf(d, us, b.sequence) /\ d.projector = b.projector /\ d.phase = "user" /\ d.id = b.id
    BY <1>9, <2>1, <2>2, Extending
  <2> QED BY <2>3
<1>11. OpensAnew(c.turns, us, text)
  BY <1>1, <1>5, <1>7, <1>8 DEF OpensAnew
<1>12. d.turns = us /\ d.projector = c.projector /\ d.id = id
  BY <1>1, <1>3, <1>10 DEF CollectorOf
<1> QED BY <1>1, <1>10, <1>11, <1>12, Zenon DEF PromptOpened

LEMMA EmptyKept ==
    ASSUME NEW ts, Last(ts).blocks = <<>>, NEW p
    PROVE  LastKept(ts, p)
<1>1. BlocksAlike(<<>>, <<>>) /\ OverIn(<<>>) = {}
  BY DEF BlocksAlike, OverIn
<1> QED BY <1>1 DEF LastKept

IsPromptOf(update, p, ids) ==
    p \in 1..MaxPrompts /\ update = UserChunk(p, IF ids THEN p ELSE None)

(* What a prompt that the collector accepts does to it. *)
PromptMakes(c, d, text, ids) ==
    \/ OpensAnew(c.turns, d.turns, text) /\ (c.turns # <<>> => ~Unfinished(Last(c.turns)))
    \/ ~ids /\ c.turns # <<>> /\ Last(c.turns).blocks = <<>>

LEMMA PromptKeeps ==
    ASSUME NEW c, NEW texts, NEW prompts \in Seq(1..MaxPrompts), Collects(c, texts, prompts),
           NEW patched, NEW ids \in BOOLEAN, CollectorKeeps(c, patched, ids),
           NEW p, p = Len(prompts) + 1, NEW update, IsPromptOf(update, p, ids), NEW d, d = Accept(c, update), ~d.refused
    PROVE  CollectorKeeps(d, patched, ids) /\ PromptMakes(c, d, <<p>>, ids) /\ d.projector = c.projector
<1>1. PICK text \in Seq(1..MaxPrompts) : text = <<p>> /\ text # <<>>
  <2>1. <<p>> \in Seq(1..MaxPrompts)
    BY DEF IsPromptOf
  <2> QED BY <2>1
<1>2. PICK id \in {None} \cup (1..MaxPrompts) : id = IF ids THEN p ELSE None
  BY DEF IsPromptOf
<1>3. update.kind = "user" /\ update.text = text /\ update.id = id
  BY <1>1, <1>2 DEF IsPromptOf, UserChunk
<1>4. CollectorOK(c) /\ ~c.refused /\ c.turns \in Seq(ConversationTurns) /\ PromptsIn(c.turns) = prompts
      /\ (c.phase = "empty" <=> c.turns = <<>>)
  BY DEF Collects, Gathered, Faithful
<1>5. d = ExtendUser(IF StartsNewMessage(c, id) THEN StartTurn(c, id) ELSE c, text)
  BY <1>3, <1>4 DEF Accept, AcceptUserChunk
<1>6. Collects(d, texts, prompts \o text)
  <2>1. IsPrompt(update)
    BY <1>1, <1>2, <1>3 DEF IsPrompt
  <2> QED BY <1>3, <2>1, PromptCollected
<1>7. PromptsIn(d.turns) = prompts \o text /\ d.turns \in Seq(ConversationTurns)
  BY <1>6 DEF Collects, Gathered, Faithful
<1>8. Len(prompts \o text) = p
  BY <1>1
<1>9. CASE StartsNewMessage(c, id)
  <2>1. PICK e : e = IF c.turns = <<>> THEN c ELSE CompleteCurrentTurn(c)
    OBVIOUS
  <2>2. d = ExtendUser(BeginReplayedTurn(e, id), text)
    BY <1>5, <1>9, <2>1 DEF StartTurn
  <2>3. ~e.refused
    <3>1. SUFFICES ASSUME e.refused  PROVE FALSE
      OBVIOUS
    <3>2. d = e
      BY <2>2, <3>1 DEF BeginReplayedTurn, ExtendUser
    <3> QED BY <3>1, <3>2
  <2>4. /\ OpensAnew(c.turns, d.turns, text) /\ (c.turns # <<>> => ~Unfinished(Last(c.turns)))
        /\ d.phase = "user" /\ d.id = id /\ d.projector = c.projector
    <3>1. PromptOpened(c, d, text, id)
      BY <1>1, <1>2, <2>1, <2>2, <2>3, PromptOpens
    <3> QED BY <3>1, Zenon DEF PromptOpened
  <2>5. PICK vs \in Seq(ConversationTurns), x \in ConversationTurns : d.turns = Append(vs, x) /\ x.blocks = <<>>
    BY <2>4 DEF OpensAnew
  <2>6. Last(d.turns).blocks = <<>>
    BY <2>5, LastOfAppend
  <2>7. LastKept(d.turns, d.projector)
    BY <2>6, EmptyKept
  <2>8. ids => d.id = Len(PromptsIn(d.turns))
    BY <1>2, <1>7, <1>8, <2>4
  <2> QED BY <1>1, <2>4, <2>6, <2>7, <2>8 DEF CollectorKeeps, PromptMakes
<1>10. CASE ~StartsNewMessage(c, id)
  <2>1. d = ExtendUser(c, text)
    BY <1>5, <1>10
  <2>2. c.phase = "user" /\ c.turns # <<>> /\ ~(id # None /\ c.id # None /\ id # c.id)
    BY <1>4, <1>10, CollectorFields DEF StartsNewMessage, CollectorOK
  <2>3. ~ids
    <3>1. SUFFICES ASSUME ids  PROVE FALSE
      OBVIOUS
    <3>2. c.id = Len(prompts) /\ id = p
      BY <1>2, <1>4, <2>2, <3>1 DEF CollectorKeeps
    <3>3. Len(prompts) \in Nat /\ p \in Nat /\ p # Len(prompts)
      OBVIOUS
    <3> QED BY <2>2, <3>2, <3>3, NoneAssumption
  <2>4. PICK v \in ConversationTurns, s \in Seq(ConversationTurns) : c.turns = Append(s, v) /\ v = Last(c.turns)
    BY <1>4, <2>2, LastOfSequence
  <2>5. v.blocks = <<>>
    BY <2>2, <2>4 DEF CollectorKeeps
  <2>6. PICK x : x = UserOf(v, text)
    OBVIOUS
  <2>7. x \in ConversationTurns /\ x.blocks = <<>> /\ WithUser(Append(s, v), text) = Append(s, x)
    <3>1. v \in ConversationTurns /\ s \in Seq(ConversationTurns)
      BY <2>4
    <3> QED BY <2>5, <2>6, <3>1, UserGiven
  <2>8. PICK us \in Seq(ConversationTurns) : us = Append(s, x)
    BY <2>7, LastOfAppend
  <2>9. us = WithUser(c.turns, text)
    BY <2>4, <2>7, <2>8
  <2>10. d.turns = us /\ d.phase = "user" /\ d.projector = c.projector
    BY <1>4, <2>1, <2>9, Extending DEF CollectorOf
  <2>11. Last(d.turns).blocks = <<>>
    BY <2>7, <2>8, <2>10, LastOfAppend
  <2>12. LastKept(d.turns, d.projector)
    BY <2>11, EmptyKept
  <2>13. PromptMakes(c, d, <<p>>, ids)
    BY <2>2, <2>3, <2>4, <2>5 DEF PromptMakes
  <2> QED BY <2>3, <2>10, <2>11, <2>12, <2>13 DEF CollectorKeeps
<1> QED BY <1>9, <1>10

(* The session opens a turn for the prompt as well. *)
LEMMA DelimitedFront ==
    ASSUME NEW us \in Seq(ConversationTurns), NEW u \in ConversationTurns, NEW ids, DelimitedBefore(Append(us, u), ids)
    PROVE  DelimitedBefore(us, ids) /\ (ids \/ us = <<>> \/ Appearance(Last(us)).blocks # <<>>)
<1>1. PICK ws \in Seq(ConversationTurns) : ws = Append(us, u)
  BY LastOfAppend
<1>2. Len(ws) = Len(us) + 1 /\ \A i \in 1..Len(us) : ws[i] = us[i]
  BY <1>1
<1>3. ids \/ \A i \in 1..(Len(ws) - 1) : Appearance(ws[i]).blocks # <<>>
  BY <1>1 DEF DelimitedBefore
<1>4. ids \/ \A i \in 1..Len(us) : Appearance(us[i]).blocks # <<>>
  BY <1>2, <1>3
<1>5. us # <<>> => Len(us) \in 1..Len(us)
  OBVIOUS
<1> QED BY <1>4, <1>5 DEF DelimitedBefore, Last

LEMMA MirrorsPrompt ==
    ASSUME NEW c, c.turns \in Seq(ConversationTurns), NEW d, NEW text, NEW ids, PromptMakes(c, d, text, ids),
           NEW us \in Seq(ConversationTurns), NEW gone, Mirrors(c.turns, us, FALSE, gone),
           NEW u \in ConversationTurns, u.user = text, u.blocks = <<>>, DelimitedBefore(Append(us, u), ids)
    PROVE  Mirrors(d.turns, Append(us, u), TRUE, gone)
<1>1. ids \/ us = <<>> \/ Appearance(Last(us)).blocks # <<>>
  BY DelimitedFront
<1>2. PICK ts \in Seq(ConversationTurns) : ts = c.turns
  OBVIOUS
<1>3. Len(us) = Len(ts) /\ (\A i \in 1..(Len(ts) - 1) : Appearance(us[i]) = Appearance(ts[i]))
      /\ (ts # <<>> => Unfinished(Last(ts)) \/ Appearance(Last(ts)) = Appearance(Last(us)))
  BY <1>2 DEF Mirrors, LastMirrors
<1>4. CASE OpensAnew(ts, d.turns, text) /\ (ts # <<>> => ~Unfinished(Last(ts)))
  <2>1. PICK vs \in Seq(ConversationTurns), x \in ConversationTurns :
          d.turns = Append(vs, x) /\ x.blocks = <<>> /\ x.user = text /\ SameLook(ts, vs)
    BY <1>4 DEF OpensAnew
  <2>2. SameLook(ts, us)
    <3>1. CASE ts = <<>>
      BY <1>3, <3>1 DEF SameLook
    <3>2. CASE ts # <<>>
      <4>1. Appearance(Last(ts)) = Appearance(Last(us))
        BY <1>3, <1>4, <3>2
      <4>2. Last(us) = us[Len(ts)] /\ Last(ts) = ts[Len(ts)]
        BY <1>3 DEF Last
      <4>3. \A i \in 1..Len(ts) : i \in 1..(Len(ts) - 1) \/ i = Len(ts)
        OBVIOUS
      <4>4. ASSUME NEW i \in 1..Len(ts)  PROVE Appearance(us[i]) = Appearance(ts[i])
        <5>1. CASE i = Len(ts)
          BY <4>1, <4>2, <5>1
        <5>2. CASE i \in 1..(Len(ts) - 1)
          BY <1>3, <5>2
        <5> QED BY <4>3, <5>1, <5>2
      <4> QED BY <1>3, <4>4 DEF SameLook
    <3> QED BY <3>1, <3>2
  <2>3. SameLook(vs, us)
    BY <2>1, <2>2 DEF SameLook
  <2>4. Mirrors(Append(vs, x), Append(us, u), TRUE, gone)
    BY <2>1, <2>3, MirrorsOpen
  <2> QED BY <2>1, <2>4
<1>5. CASE ~ids /\ ts # <<>> /\ Last(ts).blocks = <<>>
  <2>1. ~Unfinished(Last(ts))
    BY <1>5 DEF Unfinished
  <2>2. Appearance(Last(ts)).blocks = <<>>
    BY <1>5, NothingLooked DEF Appearance, Look
  <2>3. us # <<>>
    BY <1>3, <1>5
  <2> QED BY <1>1, <1>3, <1>5, <2>1, <2>2, <2>3
<1> QED BY <1>2, <1>4, <1>5 DEF PromptMakes

-----------------------------------------------------------------------------
(* What a replay of the record would restore, as long as everything the Agent *)
(* writes is projected: the collector knows of the tools of this process what *)
(* the session knows, and mirrors its turns if they are delimited.            *)
SameTools(p, q, gone) == \A t \in Tools \ gone : p.tools[t] = q.tools[t]

Restores(c, patched, ids, p, gone, lost, ts, busy) ==
    c.refused \/
      /\ CollectorKeeps(c, patched, ids)
      /\ lost = {} => SameTools(p, c.projector, gone)
      /\ lost = {} /\ DelimitedBefore(ts, ids) => Mirrors(c.turns, ts, busy, gone)

LEMMA RestoresRefused ==
    ASSUME NEW c, c.refused, NEW patched, NEW ids, NEW p, NEW gone, NEW lost, NEW ts, NEW busy
    PROVE  Restores(c, patched, ids, p, gone, lost, ts, busy)
BY DEF Restores

LEMMA RestoresLost ==
    ASSUME NEW c, NEW patched, NEW ids, c.refused \/ CollectorKeeps(c, patched, ids),
           NEW p, NEW gone, NEW lost, lost # {}, NEW ts, NEW busy
    PROVE  Restores(c, patched, ids, p, gone, lost, ts, busy)
BY DEF Restores

LEMMA PatchedMore ==
    ASSUME NEW log \in Seq(RecordedUpdates), NEW update \in RecordedUpdates, NEW more, more = PatchedIn(Append(log, update))
    PROVE  PatchedIn(log) \subseteq more /\ (IsPatch(update) => update.tool \in more)
<1>1. PICK s \in Seq(RecordedUpdates) : s = Append(log, update)
  <2>1. Append(log, update) \in Seq(RecordedUpdates)
    OBVIOUS
  <2> QED BY <2>1, Zenon
<1>2. DOMAIN s = 1..(Len(log) + 1) /\ s[Len(log) + 1] = update /\ DOMAIN log = 1..Len(log)
      /\ \A i \in 1..Len(log) : s[i] = log[i]
  BY <1>1
<1>3. more = {t \in Tools : \E i \in DOMAIN s : s[i].kind = "tool" /\ s[i].tool = t}
  BY <1>1 DEF PatchedIn
<1>4. ASSUME NEW t \in PatchedIn(log)  PROVE t \in more
  <2>1. PICK i \in DOMAIN log : log[i].kind = "tool" /\ log[i].tool = t /\ t \in Tools
    BY DEF PatchedIn
  <2>2. i \in DOMAIN s /\ s[i] = log[i]
    BY <1>2, <2>1
  <2> QED BY <1>3, <2>1, <2>2
<1>5. ASSUME IsPatch(update)  PROVE update.tool \in more
  <2>1. update.kind = "tool" /\ update.tool \in Tools
    BY <1>5 DEF IsPatch
  <2>2. Len(log) + 1 \in DOMAIN s
    BY <1>2
  <2> QED BY <1>2, <1>3, <2>1, <2>2
<1> QED BY <1>4, <1>5

LEMMA EventsRework ==
    ASSUME NEW ts, NEW n, Ready(ts, n), NEW events, NEW called, NEW ended, GoesEvents(events, called, ended)
    PROVE  Reworked(ts, ApplyEvents(ts, n, events), n + Len(events))
<1>0. n \in Nat
  BY DEF Ready
<1>1. CASE events = <<>>
  <2>1. n + Len(events) = n
    BY <1>0, <1>1
  <2>2. ApplyEvents(ts, n, events) = ts
    BY <1>1, ApplyNone
  <2>3. Reworked(ts, ts, n)
    BY ReworkedNowhere
  <2> QED BY <2>1, <2>2, <2>3
<1>2. ASSUME NEW e, events = <<e>>, GoesEvent(e, called, ended)
      PROVE  Reworked(ts, ApplyEvents(ts, n, events), n + Len(events))
  <2>1. Len(events) = 1 /\ KeepsTurn(e)
    BY <1>2 DEF GoesEvent
  <2>2. ApplyEvents(ts, n, events) = ApplyEvent(ts, n + 1, e)
    BY <1>2, ApplyTwo
  <2>3. Reworked(ts, ApplyEvent(ts, n + 1, e), n + 1)
    BY <2>1, EventReworks
  <2> QED BY <2>1, <2>2, <2>3
<1>3. ASSUME NEW e, NEW d, events = <<e, d>>, GoesEvent(e, called, ended), GoesEvent(d, called, ended)
      PROVE  Reworked(ts, ApplyEvents(ts, n, events), n + Len(events))
  <2>1. Len(events) = 2 /\ KeepsTurn(e) /\ KeepsTurn(d)
    BY <1>3 DEF GoesEvent
  <2>2. PICK vs, m : vs = ApplyEvent(ts, n + 1, e) /\ m = n + 1
    OBVIOUS
  <2>3. ApplyEvents(ts, n, events) = ApplyEvent(vs, m + 1, d)
    <3>1. ApplyEvents(ts, n, events) = ApplyEvent(ApplyEvent(ts, n + 1, e), n + 2, d)
      BY <1>3, ApplyTwo
    <3>2. m + 1 = n + 2
      BY <1>0, <2>2
    <3> QED BY <2>2, <3>1, <3>2
  <2>4. Reworked(ts, vs, m)
    BY <2>1, <2>2, EventReworks
  <2>5. Ready(vs, m)
    BY <2>4, ReworkedReady
  <2>6. Reworked(vs, ApplyEvent(vs, m + 1, d), m + 1)
    BY <2>1, <2>5, EventReworks
  <2>7. Reworked(ts, ApplyEvent(vs, m + 1, d), m + 1)
    BY <2>4, <2>6, ReworkedThen
  <2>8. m + 1 = n + Len(events)
    BY <1>0, <2>1, <2>2
  <2> QED BY <2>3, <2>7, <2>8
<1> QED BY <1>1, <1>2, <1>3 DEF GoesEvents

(* Of a tool of this process, session and collector make the same. *)
LEMMA SameOutput ==
    ASSUME NEW p, ProjectorOK(p), NEW q, ProjectorOK(q), NEW gone, SameTools(p, q, gone),
           NEW update, IsPatch(update) \/ IsChunk(update), IsPatch(update) => update.tool \notin gone,
           NEW P, P = Project(1, p, update), NEW Q, Q = Project(1, q, update)
    PROVE  /\ SameProjection(P, Q) /\ SameTools(P.projector, Q.projector, gone)
           /\ \E called, ended : GoesEvents(Q.events, called, ended) /\ called \cap gone = {}
<1>1. CASE IsPatch(update)
  <2>1. PICK tool \in Tools : tool = update.tool /\ tool \notin gone
    BY <1>1 DEF IsPatch
  <2>2. PICK patch \in Statuses : patch = update.status
    BY <1>1 DEF IsPatch
  <2>3. P = ProjectTool(p, tool, patch) /\ Q = ProjectTool(q, tool, patch)
    BY <1>1, <2>1, <2>2 DEF Project, IsPatch
  <2>4. p.tools[tool] = q.tools[tool]
    BY <2>1 DEF SameTools
  <2>5. SameProjection(P, Q) /\ P.projector.tools[tool] = Q.projector.tools[tool]
    BY <2>3, <2>4, PatchesAlike
  <2>6. PatchDoes(P, p, tool) /\ PatchDoes(Q, q, tool)
    BY <2>3, PatchGoes
  <2>7. SameTools(P.projector, Q.projector, gone)
    BY <2>5, <2>6 DEF SameTools, PatchDoes
  <2>8. GoesEvents(Q.events, {tool}, Ended(Q.projector)) /\ {tool} \cap gone = {}
    BY <2>1, <2>6 DEF PatchDoes
  <2> QED BY <2>5, <2>7, <2>8
<1>2. CASE IsChunk(update)
  <2>1. P.projector = p /\ P.events = ChunkEvents(update) /\ P.refused = FALSE
    BY <1>2, ChunkIs
  <2>2. Q.projector = q /\ Q.events = ChunkEvents(update) /\ Q.refused = FALSE
    BY <1>2, ChunkIs
  <2>3. GoesEvents(Q.events, {}, {}) /\ {} \cap gone = {}
    BY <1>2, <2>2, ChunkGoes
  <2> QED BY <2>1, <2>2, <2>3 DEF SameProjection
<1> QED BY <1>1, <1>2

(* The collector after an output. *)
CollectorAfter(c, d, update, texts, prompts, more, ids) ==
    d.refused \/
      /\ ~c.refused /\ Collects(c, texts, prompts) /\ CollectorKeeps(d, more, ids)
      /\ OutputMakes(c, d, Project(1, c.projector, update), update)

LEMMA OutputAfter ==
    ASSUME NEW log \in Seq(RecordedUpdates), NEW update \in RecordedUpdates, IsPatch(update) \/ IsChunk(update),
           NEW texts, NEW us, RecordOK(log, texts, us), NEW c, c = Collected(log), NEW ids,
           c.refused \/ CollectorKeeps(c, PatchedIn(log), ids), NEW next, next = Append(log, update),
           NEW d, d = Collected(next)
    PROVE  CollectorAfter(c, d, update, texts, PromptsIn(us), PatchedIn(next), ids)
<1>1. d = Accept(c, update)
  BY CollectedAppend
<1>2. CASE c.refused
  <2>1. d = c
    BY <1>1, <1>2 DEF Accept
  <2> QED BY <1>2, <2>1 DEF CollectorAfter
<1>3. CASE ~c.refused /\ ~d.refused
  <2>1. Collects(c, texts, PromptsIn(us)) /\ CollectorKeeps(c, PatchedIn(log), ids)
    BY <1>3 DEF RecordOK
  <2>2. PICK more : more = PatchedIn(next)
    OBVIOUS
  <2>3. PatchedIn(log) \subseteq more /\ (IsPatch(update) => update.tool \in more)
    BY <2>2, PatchedMore
  <2>4. PICK P : P = Project(1, c.projector, update)
    OBVIOUS
  <2>5. PICK prompts : prompts = PromptsIn(us)
    OBVIOUS
  <2>6. PICK patched : patched = PatchedIn(log)
    OBVIOUS
  <2>7. Collects(c, texts, prompts) /\ CollectorKeeps(c, patched, ids) /\ patched \subseteq more
    BY <2>1, <2>3, <2>5, <2>6
  <2>8. CollectorKeeps(d, more, ids) /\ OutputMakes(c, d, P, update)
    BY <1>1, <1>3, <2>3, <2>4, <2>7, OutputKeeps
  <2> QED BY <1>3, <2>1, <2>2, <2>4, <2>8 DEF CollectorAfter
<1> QED BY <1>2, <1>3 DEF CollectorAfter

(* An update without the tools of another process. *)
OwnOutput(update, gone) ==
    (IsPatch(update) \/ IsChunk(update)) /\ (IsPatch(update) => update.tool \notin gone)

OutputRestored(d, more, ids, P, gone, lost, ws) ==
    Restores(d, more, ids, P.projector, gone, lost, ws, TRUE) /\ (lost = {} /\ P.refused => d.refused)

LEMMA OutputRestores ==
    ASSUME NEW c, NEW d, NEW update, NEW texts, NEW prompts, NEW more, NEW ids,
           CollectorAfter(c, d, update, texts, prompts, more, ids),
           NEW patched, NEW p, ProjectorOK(p), NEW gone, NEW lost, NEW us, NEW k, Ready(us, k),
           Restores(c, patched, ids, p, gone, lost, us, TRUE), OwnOutput(update, gone),
           NEW P, P = Project(1, p, update), NEW ws, ws = ApplyEvents(us, k, P.events)
    PROVE  OutputRestored(d, more, ids, P, gone, lost, ws)
<1> USE DEF OutputRestored
<1>0. (IsPatch(update) \/ IsChunk(update)) /\ (IsPatch(update) => update.tool \notin gone)
  BY DEF OwnOutput
<1>1. CASE d.refused
  BY <1>1, RestoresRefused
<1>2. CASE ~d.refused
  <2>1. PICK Q : Q = Project(1, c.projector, update)
    OBVIOUS
  <2>2. ~c.refused /\ Collects(c, texts, prompts) /\ CollectorKeeps(d, more, ids) /\ OutputMakes(c, d, Q, update)
    BY <1>2, <2>1 DEF CollectorAfter
  <2>3. CASE lost # {}
    BY <2>2, <2>3, RestoresLost
  <2>4. CASE lost = {}
    <3>1. SameTools(p, c.projector, gone) /\ (DelimitedBefore(us, ids) => Mirrors(c.turns, us, TRUE, gone))
      BY <2>2, <2>4 DEF Restores
    <3>2. ProjectorOK(c.projector) /\ Faithful(c.turns, c.sequence, texts, {})
      BY <2>2 DEF Collects, Gathered, CollectorOK
    <3>3. PICK q : q = c.projector
      OBVIOUS
    <3>4. SameTools(p, q, gone) /\ ProjectorOK(q) /\ Q = Project(1, q, update)
      BY <2>1, <3>1, <3>2, <3>3
    <3>5. /\ SameProjection(P, Q) /\ SameTools(P.projector, Q.projector, gone)
          /\ \E called, ended : GoesEvents(Q.events, called, ended) /\ called \cap gone = {}
      BY <1>0, <3>4, SameOutput
    <3>6. PICK called, ended : GoesEvents(Q.events, called, ended) /\ called \cap gone = {}
      BY <3>5
    <3>7. P.events = Q.events /\ P.refused = Q.refused
      BY <3>5 DEF SameProjection
    <3>8. ~Q.refused /\ d.projector = Q.projector /\ d.turns = ApplyEvents(c.turns, c.sequence, Q.events)
      BY <2>2 DEF OutputMakes
    <3>9. ~P.refused /\ SameTools(P.projector, d.projector, gone)
      BY <3>5, <3>7, <3>8
    <3>10. ASSUME DelimitedBefore(ws, ids)  PROVE Mirrors(d.turns, ws, TRUE, gone)
      <4>1. PICK events : events = Q.events
        OBVIOUS
      <4>2. ws = ApplyEvents(us, k, events) /\ d.turns = ApplyEvents(c.turns, c.sequence, events)
            /\ GoesEvents(events, called, ended)
        BY <3>6, <3>7, <3>8, <4>1
      <4>3. Reworked(us, ws, k + Len(events))
        BY <4>2, EventsRework
      <4>4. DelimitedBefore(us, ids)
        BY <3>10, <4>3, ReworkedDelimits
      <4>5. Mirrors(c.turns, us, TRUE, gone)
        BY <3>1, <4>4
      <4>6. c.turns # <<>>
        <5>1. Len(us) = Len(c.turns) /\ us # <<>> /\ us \in Seq(ConversationTurns)
          BY <4>5 DEF Mirrors, Ready
        <5> QED BY <5>1
      <4>7. Ready(c.turns, c.sequence)
        BY <3>2, <4>6, FaithfulReady
      <4> QED BY <3>6, <4>2, <4>5, <4>7, MirrorsGo
    <3> QED BY <2>2, <2>4, <3>9, <3>10 DEF Restores
  <2> QED BY <2>3, <2>4
<1> QED BY <1>1, <1>2

OneCallChanges(b, c, i, tool) == \E x \in Blocks : IsCallOf(x, tool) /\ c = [b EXCEPT ![i] = x]

(* A permission opens the call of the session; the collector's is open.       *)
LEMMA ApprovalAsked ==
    ASSUME NEW t \in ConversationTurns, NEW tool \in Tools, NEW b, b = t.blocks, NEW i, i = FindTool(b, tool), i # 0,
           NEW e, e = ApprovalRequested(tool, tool)
    PROVE  i \in 1..Len(b) /\ OneCallChanges(b, Apply(t, e).blocks, i, tool)
<1>1. PICK u : u = WithTool(t, tool)
  OBVIOUS
<1>2. PICK j : j = FindTool(u.blocks, tool)
  OBVIOUS
<1>3. Tells(t, u, <<>>) /\ j \in 1..Len(u.blocks) /\ u.blocks[j].kind = "toolCall" /\ u.blocks[j].tool = tool
      /\ u.blocks = IF FindTool(t.blocks, tool) # 0 THEN t.blocks
                    ELSE Append(CloseStreamingText(t.blocks), ToolBlock(tool))
  BY <1>1, <1>2, WithToolTells
<1>4. u.blocks = b /\ j = i /\ u \in ConversationTurns
  BY <1>2, <1>3 DEF Tells
<1>5. i \in 1..Len(b) /\ b[i].kind = "toolCall" /\ b[i].tool = tool /\ b \in Seq(Blocks)
  BY <1>3, <1>4, BlocksOfTurns
<1>6. PICK status \in ToolStatuses : status = "approvalRequired"
  BY DEF ToolStatuses, OpenStatus
<1>7. PICK approval \in BlockApprovals : approval = [id |-> tool, status |-> "pending"]
  BY DEF BlockApprovals
<1>8. Apply(t, e) = WithApproval(u, i, status, approval)
  BY <1>1, <1>2, <1>4, <1>6, <1>7 DEF Apply, ApprovalRequested, WithApproval
<1>9. PICK y \in Blocks : y = b[i] /\ y.kind = "toolCall" /\ y.tool = tool
  BY <1>5
<1>10. PICK x : x = CallWith(y, status, approval)
  OBVIOUS
<1>11. x \in Blocks /\ x.kind = "toolCall" /\ x.tool = y.tool
  BY <1>9, <1>10, CallChanged
<1>12. WithApproval(u, i, status, approval).blocks = [b EXCEPT ![i] = x]
  <2>1. b = u.blocks /\ x = CallWith(b[i], status, approval)
    BY <1>4, <1>9, <1>10
  <2>2. u \in ConversationTurns
    BY <1>4
  <2>3. i \in 1..Len(b) /\ b[i].kind = "toolCall" /\ status \in ToolStatuses /\ approval \in BlockApprovals
    BY <1>5, <1>6, <1>7
  <2>4. b = u.blocks
    BY <2>1
  <2>5. WithApproval(u, i, status, approval).blocks = [b EXCEPT ![i] = CallWith(b[i], status, approval)]
    BY <2>2, <2>3, <2>4, ApprovalGiven
  <2> QED BY <2>1, <2>5, Zenon
<1>13. x \in Blocks /\ IsCallOf(x, tool)
  BY <1>7, <1>9, <1>11, <1>10 DEF IsCallOf
<1>14. Apply(t, e).blocks = [b EXCEPT ![i] = x]
  BY <1>8, <1>12, Zenon
<1> QED BY <1>5, <1>13, <1>14, Zenon DEF OneCallChanges

LEMMA OneReplaced ==
    ASSUME NEW a, NEW b, BlocksAlike(a, b), NEW i \in 1..Len(b), NEW x \in Blocks, BlockAlike(a[i], x),
           NEW c, c = [b EXCEPT ![i] = x]
    PROVE  BlocksAlike(a, c)
<1>1. a \in Seq(Blocks) /\ b \in Seq(Blocks) /\ Len(b) = Len(a) /\ \A k \in 1..Len(a) : BlockAlike(a[k], b[k])
  BY DEF BlocksAlike
<1>2. c \in Seq(Blocks) /\ Len(c) = Len(b) /\ c[i] = x /\ \A k \in 1..Len(b) : k # i => c[k] = b[k]
  BY <1>1
<1>3. \A k \in 1..Len(a) : BlockAlike(a[k], c[k])
  BY <1>1, <1>2
<1> QED BY <1>1, <1>2, <1>3 DEF BlocksAlike

LEMMA PermissionMirrors ==
    ASSUME NEW ts, NEW n, Ready(ts, n), NEW us, NEW k, Ready(us, k), NEW gone, Mirrors(ts, us, TRUE, gone),
           NEW q, LastKept(ts, q), NEW tool \in Tools, tool \notin gone => tool \notin Ended(q),
           FindTool(Last(us).blocks, tool) # 0, NEW e, e = ApprovalRequested(tool, tool), KeepsTurn(e),
           NEW events, events = <<e>>, NEW ws, ws = ApplyEvents(us, k, events)
    PROVE  Mirrors(ts, ws, TRUE, gone)
<1>1. PICK a : a = Last(ts).blocks
  OBVIOUS
<1>2. PICK b : b = Last(us).blocks
  OBVIOUS
<1>3. Last(ts).user = Last(us).user /\ BlocksAlike(a, b) /\ ToolsIn(a) \cap gone = {} /\ OverIn(a) \subseteq Ended(q)
  BY <1>1, <1>2 DEF Mirrors, LastMirrors, LastKept, Ready
<1>4. PICK s \in ConversationTurns :
             /\ s.blocks = Last(us).blocks /\ s.user = Last(us).user
             /\ Reworked(us, ApplyEvent(us, k + 1, e), k + 1)
             /\ Last(ApplyEvent(us, k + 1, e)).blocks = Apply(s, e).blocks
  BY EventReworks
<1>5. ws = ApplyEvent(us, k + 1, e)
  BY ApplyTwo
<1>6. Reworked(us, ws, k + 1) /\ Last(ws).blocks = Apply(s, e).blocks /\ b = s.blocks /\ s \in ConversationTurns
  BY <1>2, <1>4, <1>5
<1>7. PICK i : i = FindTool(b, tool)
  OBVIOUS
<1>8. i # 0
  BY <1>2, <1>7
<1>9. i \in 1..Len(b) /\ OneCallChanges(b, Apply(s, e).blocks, i, tool)
  <2>1. s \in ConversationTurns /\ b = s.blocks
    BY <1>6
  <2> QED BY <1>7, <1>8, <2>1, ApprovalAsked, Zenon
<1>10. PICK x \in Blocks : IsCallOf(x, tool) /\ Last(ws).blocks = [b EXCEPT ![i] = x]
  BY <1>6, <1>9 DEF OneCallChanges
<1>11. a \in Seq(Blocks) /\ b \in Seq(Blocks) /\ Len(b) = Len(a) /\ \A m \in 1..Len(a) : BlockAlike(a[m], b[m])
  BY <1>3 DEF BlocksAlike
<1>12. i \in 1..Len(a) /\ IsCallOf(a[i], tool)
  <2>1. i = FindTool(a, tool)
    BY <1>3, <1>7, FoundAlike
  <2>2. a[i].kind = "toolCall" /\ a[i].tool = tool
    BY <1>8, <1>11, <2>1, ToolFound
  <2> QED BY <1>9, <1>11, <2>2 DEF IsCallOf
<1>13. a[i].status \in OpenStatus
  <2>1. tool \in ToolsIn(a)
    BY <1>12 DEF ToolsIn
  <2>2. tool \notin OverIn(a)
    BY <1>3, <2>1
  <2> QED BY <1>12, <2>2 DEF OverIn, IsOver
<1>14. BlockAlike(a[i], x)
  <2>1. a[i].approval = None
    BY <1>11, <1>12 DEF BlockAlike, IsCallOf
  <2> QED BY <1>10, <1>12, <1>13, <2>1 DEF BlockAlike, IsCallOf
<1>15. BlocksAlike(a, Last(ws).blocks)
  <2>1. PICK c : c = Last(ws).blocks
    OBVIOUS
  <2>2. c = [b EXCEPT ![i] = x]
    BY <1>10, <2>1
  <2>3. BlocksAlike(a, c)
    BY <1>3, <1>9, <1>10, <1>14, <2>2, OneReplaced
  <2> QED BY <2>1, <2>3
<1>16. LastMirrors(Last(ts), Last(ws), TRUE, gone)
  <2>1. Last(ws).user = Last(us).user
    BY <1>6, ReworkedReady
  <2> QED BY <1>1, <1>3, <1>15, <2>1 DEF LastMirrors
<1>17. Reworked(ts, ts, n)
  BY ReworkedNowhere
<1> QED BY <1>6, <1>16, <1>17, MirrorsReworked

LEMMA PermissionRestores ==
    ASSUME NEW c, NEW texts, NEW prompts, c.refused \/ Collects(c, texts, prompts), NEW patched, NEW ids, NEW p,
           NEW gone, NEW lost, NEW us, NEW k, Ready(us, k), Restores(c, patched, ids, p, gone, lost, us, TRUE),
           NEW tool \in Tools, p.tools[tool].status \notin Terminal, FindTool(Last(us).blocks, tool) # 0,
           NEW e, e = ApprovalRequested(tool, tool), NEW events, events = <<e>>, NEW ws, ws = ApplyEvents(us, k, events)
    PROVE  Restores(c, patched, ids, p, gone, lost, ws, TRUE)
<1>1. CASE c.refused
  BY <1>1, RestoresRefused
<1>2. CASE ~c.refused
  <2>1. CollectorKeeps(c, patched, ids) /\ (lost = {} => SameTools(p, c.projector, gone))
        /\ (lost = {} /\ DelimitedBefore(us, ids) => Mirrors(c.turns, us, TRUE, gone))
    BY <1>2 DEF Restores
  <2>2. KeepsTurn(e)
    BY QuietKeeps DEF QuietEvents
  <2>3. Reworked(us, ws, k + 1)
    <3>1. ws = ApplyEvent(us, k + 1, e)
      BY ApplyTwo
    <3> QED BY <2>2, <3>1, EventReworks
  <2>4. ASSUME lost = {}, DelimitedBefore(ws, ids)  PROVE Mirrors(c.turns, ws, TRUE, gone)
    <3>1. DelimitedBefore(us, ids)
      BY <2>3, <2>4, ReworkedDelimits
    <3>2. Mirrors(c.turns, us, TRUE, gone)
      BY <2>1, <2>4, <3>1
    <3>3. c.turns # <<>>
      <4>1. Len(us) = Len(c.turns) /\ us # <<>> /\ us \in Seq(ConversationTurns)
        BY <3>2 DEF Mirrors, Ready
      <4> QED BY <4>1
    <3>4. Ready(c.turns, c.sequence)
      BY <1>2, <3>3, FaithfulReady DEF Collects, Gathered
    <3>5. LastKept(c.turns, c.projector)
      BY <2>1, <3>3 DEF CollectorKeeps
    <3>6. tool \notin gone => tool \notin Ended(c.projector)
      BY <2>1, <2>4 DEF SameTools, Ended
    <3> QED BY <2>2, <3>2, <3>4, <3>5, <3>6, PermissionMirrors
  <2> QED BY <2>1, <2>4 DEF Restores
<1> QED BY <1>1, <1>2

LEMMA EndRestores ==
    ASSUME NEW c, NEW texts, NEW prompts, c.refused \/ Collects(c, texts, prompts), NEW patched, NEW ids, NEW p,
           NEW gone, NEW lost, NEW us, NEW k, Ready(us, k), Restores(c, patched, ids, p, gone, lost, us, TRUE),
           NEW e \in Ends, NEW events, events = <<e>>, NEW ws, ws = ApplyEvents(us, k, events)
    PROVE  Restores(c, patched, ids, p, gone, lost, ws, FALSE)
<1>1. CASE c.refused
  BY <1>1, RestoresRefused
<1>2. CASE ~c.refused
  <2>1. CollectorKeeps(c, patched, ids) /\ (lost = {} => SameTools(p, c.projector, gone))
        /\ (lost = {} /\ DelimitedBefore(us, ids) => Mirrors(c.turns, us, TRUE, gone))
    BY <1>2 DEF Restores
  <2>2. Reworked(us, ws, k + 1)
    BY ReworkedEnd
  <2>3. c.turns \in Seq(ConversationTurns)
    BY <1>2 DEF Collects, Gathered, Faithful
  <2>4. ASSUME lost = {}, DelimitedBefore(ws, ids)  PROVE Mirrors(c.turns, ws, FALSE, gone)
    <3>1. DelimitedBefore(us, ids)
      BY <2>2, <2>4, ReworkedDelimits
    <3>2. Mirrors(c.turns, us, TRUE, gone)
      BY <2>1, <2>4, <3>1
    <3> QED BY <2>3, <3>2, MirrorsEnd
  <2> QED BY <2>1, <2>4 DEF Restores
<1> QED BY <1>1, <1>2

LEMMA PromptRestores ==
    ASSUME NEW log \in Seq(RecordedUpdates), NEW update \in RecordedUpdates, NEW texts, NEW us \in Seq(ConversationTurns),
           RecordOK(log, texts, us), NEW ids \in BOOLEAN, NEW pr, NEW gone, NEW lost, NEW c, c = Collected(log),
           Restores(c, PatchedIn(log), ids, pr, gone, lost, us, FALSE),
           NEW p, p = Len(PromptsIn(us)) + 1, IsPromptOf(update, p, ids), NEW next, next = Append(log, update),
           NEW u \in ConversationTurns, u.user = <<p>>, u.blocks = <<>>, NEW ws, ws = Append(us, u)
    PROVE  Restores(Collected(next), PatchedIn(next), ids, pr, gone, lost, ws, TRUE)
<1>1. PICK d : d = Collected(next)
  OBVIOUS
<1>2. d = Accept(c, update)
  BY <1>1, CollectedAppend
<1>3. PICK more : more = PatchedIn(next)
  OBVIOUS
<1>4. CASE d.refused
  BY <1>1, <1>4, RestoresRefused
<1>5. CASE ~d.refused
  <2>1. ~c.refused
    <3>1. SUFFICES ASSUME c.refused  PROVE FALSE
      OBVIOUS
    <3>2. d = c
      BY <1>2, <3>1 DEF Accept
    <3> QED BY <1>5, <3>1, <3>2
  <2>2. PICK prompts \in Seq(1..MaxPrompts) : prompts = PromptsIn(us)
    BY PromptsType
  <2>3. Collects(c, texts, prompts)
    BY <2>1, <2>2 DEF RecordOK
  <2>4. PICK patched : patched = PatchedIn(log)
    OBVIOUS
  <2>5. CollectorKeeps(c, patched, ids) /\ (lost = {} => SameTools(pr, c.projector, gone))
        /\ (lost = {} /\ DelimitedBefore(us, ids) => Mirrors(c.turns, us, FALSE, gone))
    BY <2>1, <2>4 DEF Restores
  <2>6. CollectorKeeps(d, patched, ids) /\ PromptMakes(c, d, <<p>>, ids) /\ d.projector = c.projector
    <3>1. p = Len(prompts) + 1
      BY <2>2
    <3>2. CollectorKeeps(c, patched, ids)
      BY <2>5
    <3> QED BY <1>2, <1>5, <2>3, <3>1, <3>2, PromptKeeps
  <2>7. patched \subseteq more
    BY <1>3, <2>4, PatchedMore
  <2>8. CollectorKeeps(d, more, ids)
    BY <2>6, <2>7 DEF CollectorKeeps, Untouched
  <2>9. ASSUME lost = {}, DelimitedBefore(ws, ids)  PROVE Mirrors(d.turns, ws, TRUE, gone)
    <3>1. DelimitedBefore(us, ids)
      BY <2>9, DelimitedFront
    <3>2. Mirrors(c.turns, us, FALSE, gone)
      BY <2>5, <2>9, <3>1
    <3>3. c.turns \in Seq(ConversationTurns)
      BY <2>3 DEF Collects, Gathered, Faithful
    <3>4. PICK text : text = <<p>>
      OBVIOUS
    <3>5. PromptMakes(c, d, text, ids) /\ u.user = text
      BY <2>6, <3>4
    <3>6. DelimitedBefore(Append(us, u), ids)
      BY <2>9
    <3>7. Mirrors(d.turns, Append(us, u), TRUE, gone)
      BY <3>2, <3>3, <3>5, <3>6, MirrorsPrompt
    <3> QED BY <3>7
  <2>10. Restores(d, more, ids, pr, gone, lost, ws, TRUE)
    BY <2>5, <2>6, <2>8, <2>9 DEF Restores
  <2> QED BY <1>1, <1>3, <2>10
<1> QED BY <1>4, <1>5

LEMMA FinishedLooks ==
    ASSUME NEW log, NEW texts, NEW ts, RecordOK(log, texts, ts), NEW c, c = Collected(log), NEW r, r = Replay(log), ~r.refused,
           NEW patched, NEW ids, c.refused \/ CollectorKeeps(c, patched, ids)
    PROVE  /\ ~c.refused /\ CollectorKeeps(c, patched, ids) /\ c.turns \in Seq(ConversationTurns) /\ c.turns # <<>>
           /\ ~Unfinished(Last(c.turns)) /\ SameLook(c.turns, r.turns)
<1>1. ~c.refused /\ c.turns # <<>> /\ r = CompleteCurrentTurn(c) /\ Collects(c, texts, PromptsIn(ts))
  BY Finishing
<1>2. CollectorKeeps(c, patched, ids) /\ LastKept(c.turns, c.projector)
  BY <1>1 DEF CollectorKeeps
<1>3. PICK prompts : prompts = PromptsIn(ts)
  OBVIOUS
<1>4. Collects(c, texts, prompts)
  BY <1>1, <1>3
<1>5. ~Unfinished(Last(c.turns)) /\ SameLook(c.turns, r.turns)
  BY <1>1, <1>2, <1>4, CompletingLooks
<1>6. c.turns \in Seq(ConversationTurns)
  BY <1>1 DEF Collects, Gathered, Faithful
<1> QED BY <1>1, <1>2, <1>5, <1>6

LEMMA LookMirrors ==
    ASSUME NEW ts \in Seq(ConversationTurns), ts # <<>>, NEW us \in Seq(ConversationTurns), SameLook(ts, us), NEW gone
    PROVE  Mirrors(ts, us, FALSE, gone)
<1>1. Len(us) = Len(ts) /\ \A i \in 1..Len(ts) : Appearance(us[i]) = Appearance(ts[i])
  BY DEF SameLook
<1>2. Last(us) = us[Len(ts)] /\ Last(ts) = ts[Len(ts)] /\ Len(ts) \in 1..Len(ts)
  BY <1>1 DEF Last
<1>3. Appearance(Last(ts)) = Appearance(Last(us))
  BY <1>1, <1>2
<1>4. \A i \in 1..(Len(ts) - 1) : Appearance(us[i]) = Appearance(ts[i])
  BY <1>1
<1> QED BY <1>1, <1>3, <1>4 DEF Mirrors, LastMirrors

LEMMA RestartRestores ==
    ASSUME NEW log, NEW texts, NEW ts, RecordOK(log, texts, ts), NEW c, c = Collected(log), NEW r, r = Replay(log), ~r.refused,
           NEW patched, NEW ids, c.refused \/ CollectorKeeps(c, patched, ids), r.turns \in Seq(ConversationTurns)
    PROVE  Restores(c, patched, ids, NewProjector, patched, {}, r.turns, FALSE)
<1>1. /\ CollectorKeeps(c, patched, ids) /\ c.turns \in Seq(ConversationTurns) /\ c.turns # <<>>
      /\ SameLook(c.turns, r.turns)
  BY FinishedLooks
<1>2. Mirrors(c.turns, r.turns, FALSE, patched)
  BY <1>1, LookMirrors
<1>3. SameTools(NewProjector, c.projector, patched)
  <2>1. \A t \in Tools : NewProjector.tools[t] = [known |-> FALSE, status |-> "none", patch |-> "none"]
    BY DEF NewProjector
  <2> QED BY <1>1, <2>1 DEF CollectorKeeps, Untouched, SameTools
<1> QED BY <1>1, <1>2, <1>3 DEF Restores

(* A replay restores the turns that the session has shown. *)
LEMMA RestoresShown ==
    ASSUME NEW log, NEW texts, NEW us \in Seq(ConversationTurns), RecordOK(log, texts, us), NEW c, c = Collected(log),
           NEW r, r = Replay(log), ~r.refused, NEW patched, NEW ids, NEW p, NEW gone,
           Restores(c, patched, ids, p, gone, {}, us, FALSE), DelimitedBefore(us, ids)
    PROVE  SameLook(us, r.turns)
<1>1. c.refused \/ CollectorKeeps(c, patched, ids)
  BY DEF Restores
<1>2. /\ ~c.refused /\ c.turns \in Seq(ConversationTurns) /\ c.turns # <<>>
      /\ ~Unfinished(Last(c.turns)) /\ SameLook(c.turns, r.turns)
  BY <1>1, FinishedLooks
<1>3. Mirrors(c.turns, us, FALSE, gone)
  BY <1>2 DEF Restores
<1>4. /\ Len(us) = Len(c.turns) /\ \A i \in 1..(Len(c.turns) - 1) : Appearance(us[i]) = Appearance(c.turns[i])
      /\ Appearance(Last(c.turns)) = Appearance(Last(us))
  BY <1>2, <1>3 DEF Mirrors, LastMirrors
<1>5. PICK ts \in Seq(ConversationTurns) : ts = c.turns
  BY <1>2
<1>6. Last(us) = us[Len(ts)] /\ Last(ts) = ts[Len(ts)]
  BY <1>4, <1>5 DEF Last
<1>7. \A i \in 1..Len(ts) : i \in 1..(Len(ts) - 1) \/ i = Len(ts)
  OBVIOUS
<1>8. ASSUME NEW i \in 1..Len(ts)  PROVE Appearance(us[i]) = Appearance(ts[i])
  <2>1. CASE i = Len(ts)
    BY <1>4, <1>5, <1>6, <2>1
  <2>2. CASE i \in 1..(Len(ts) - 1)
    BY <1>4, <1>5, <2>2
  <2> QED BY <1>7, <2>1, <2>2
<1> QED BY <1>2, <1>4, <1>5, <1>8 DEF SameLook

-----------------------------------------------------------------------------
(* While ACP version 1 speaks, the record would restore what is shown.        *)
RecordRestores(log, ids, p, gone, lost, ts, busy) ==
    Restores(Collected(log), PatchedIn(log), ids, p, gone, lost, ts, busy)

RestoreInv ==
    protocol = "v1" =>
      /\ projecting = 1 => RecordRestores(record, named, projector, retired, astray, shownTurns, TRUE)
      /\ projecting = 0 => RecordRestores(record, named, projector, retired, astray, shownTurns, FALSE)

LEMMA RestoreInit == ProjectionInit => RestoreInv
<1> SUFFICES ASSUME ProjectionInit  PROVE RestoreInv
  OBVIOUS
<1>1. projecting = 0 /\ record = <<>> /\ shownTurns = <<>> /\ projector = NewProjector
  BY DEF ProjectionInit
<1>2. PICK c : c = Collected(record)
  OBVIOUS
<1>3. c = NewCollector
  BY <1>1, <1>2, CollectedNothing
<1>4. c.phase = "empty" /\ c.turns = <<>> /\ c.projector = NewProjector
  BY <1>3 DEF NewCollector
<1>5. \A t \in Tools : NewProjector.tools[t] = [known |-> FALSE, status |-> "none", patch |-> "none"]
  BY DEF NewProjector
<1>6. KnowsEnded(NewProjector)
  BY <1>5 DEF KnowsEnded, Ended, Terminal
<1>7. CollectorKeeps(c, PatchedIn(record), named)
  BY <1>4, <1>5, <1>6 DEF CollectorKeeps, Untouched
<1>8. SameTools(projector, c.projector, retired) /\ Mirrors(c.turns, shownTurns, FALSE, retired)
  BY <1>1, <1>4 DEF SameTools, Mirrors
<1>9. RecordRestores(record, named, projector, retired, astray, shownTurns, FALSE)
  BY <1>2, <1>7, <1>8 DEF RecordRestores, Restores
<1>10. projecting # 1
  BY <1>1
<1> QED BY <1>9, <1>10, Zenon DEF RestoreInv

(* What holds of a session with version 1. *)
LEMMA RestoreFields ==
    ASSUME ProjectionInv, protocol = "v1"
    PROVE  /\ record \in Seq(RecordedUpdates) /\ RecordOK(record, produced, shownTurns) /\ TextsOK(produced)
           /\ ProjectorOK(projector) /\ named \in BOOLEAN /\ shownTurns \in Seq(ConversationTurns)
           /\ shownTurns # <<>> => Ready(shownTurns, sequence)
           /\ Collected(record).refused \/ Collects(Collected(record), produced, PromptsIn(shownTurns))
<1>1. Faithful(shownTurns, sequence, produced, astray)
  BY ProjectionFields DEF TurnsOK
<1>2. shownTurns # <<>> => Ready(shownTurns, sequence)
  BY <1>1, FaithfulReady
<1>3. shownTurns \in Seq(ConversationTurns)
  BY <1>1 DEF Faithful
<1>4. RecordOK(record, produced, shownTurns)
  BY DEF ProjectionInv
<1> QED BY <1>2, <1>3, <1>4, ProjectionFields DEF RecordOK

LEMMA PromptTurnRestores ==
    ASSUME ProjectionInv, RestoreInv, PromptTurn
    PROVE  RestoreInv'
<1> SUFFICES ASSUME protocol = "v1"
             PROVE  projecting' = 1 /\ RecordRestores(record', named', projector', retired', astray', shownTurns', TRUE)
  <2>1. protocol' = protocol
    BY DEF PromptTurn
  <2>2. projecting' = 1 => projecting' # 0
    OBVIOUS
  <2> QED BY <2>1, <2>2, Zenon DEF RestoreInv
<1>1. /\ projecting = 0 /\ projecting' = 1 /\ named' = named /\ projector' = projector /\ astray' = astray
      /\ retired' = retired
  BY DEF PromptTurn
<1>2. PICK p \in 1..MaxPrompts, t \in ConversationTurns :
        /\ p = Len(PromptsIn(shownTurns)) + 1 /\ t.user = <<p>> /\ t.blocks = <<>>
        /\ shownTurns' = Append(shownTurns, t)
        /\ record' = Recorded(UserChunk(p, IF named THEN p ELSE None))
  BY PromptTurnOpens
<1>3. PICK update : update = UserChunk(p, IF named THEN p ELSE None)
  OBVIOUS
<1>4. IsPromptOf(update, p, named) /\ update \in RecordedUpdates
  <2>1. named \in BOOLEAN
    BY RestoreFields
  <2> QED BY <1>2, <1>3, <2>1 DEF IsPromptOf, UserChunk, RecordedUpdates
<1>5. PICK c : c = Collected(record)
  OBVIOUS
<1>6. Restores(c, PatchedIn(record), named, projector, retired, astray, shownTurns, FALSE)
  BY <1>1, <1>5 DEF RestoreInv, RecordRestores
<1>7. PICK next : next = Append(record, update)
  OBVIOUS
<1>8. record' = next
  BY <1>2, <1>3, <1>7 DEF Recorded
<1>9. PICK ws : ws = Append(shownTurns, t)
  OBVIOUS
<1>10. t \in ConversationTurns /\ t.user = <<p>> /\ t.blocks = <<>> /\ p = Len(PromptsIn(shownTurns)) + 1
  BY <1>2
<1>11. record \in Seq(RecordedUpdates) /\ RecordOK(record, produced, shownTurns) /\ named \in BOOLEAN
       /\ shownTurns \in Seq(ConversationTurns)
  BY RestoreFields
<1>12. Restores(Collected(next), PatchedIn(next), named, projector, retired, astray, ws, TRUE)
  BY <1>4, <1>5, <1>6, <1>7, <1>9, <1>10, <1>11, PromptRestores
<1>13. shownTurns' = ws
  BY <1>2, <1>9
<1> QED BY <1>1, <1>8, <1>12, <1>13 DEF RecordRestores

LEMMA PermissionRestored ==
    ASSUME ProjectionInv, RestoreInv, NEW tool \in Tools, Permission(tool)
    PROVE  RestoreInv'
<1> SUFFICES ASSUME protocol = "v1"
             PROVE  projecting' = 1 /\ RecordRestores(record', named', projector', retired', astray', shownTurns', TRUE)
  <2>1. protocol' = protocol
    BY DEF Permission
  <2>2. projecting' = 1 => projecting' # 0
    OBVIOUS
  <2> QED BY <2>1, <2>2, Zenon DEF RestoreInv
<1>1. PICK e : e = ApprovalRequested(tool, tool)
  OBVIOUS
<1>2. PICK events : events = <<e>>
  OBVIOUS
<1>3. /\ projecting > 0 /\ projecting' = projecting /\ named' = named /\ projector' = projector /\ astray' = astray
      /\ retired' = retired /\ record' = record /\ shownTurns' = ApplyEvents(shownTurns, sequence, events)
      /\ projector.tools[tool].status \notin Terminal /\ FindTool(Last(shownTurns).blocks, tool) # 0
  BY <1>1, <1>2 DEF Permission, EmitEvents
<1>4. projecting = 1 /\ shownTurns # <<>>
  <2>1. projecting \in Nat /\ projecting <= 1 /\ (projecting > 0 => shownTurns # <<>>)
    BY ProjectionFields, PromptsAssumption DEF ProjectionInv
  <2> QED BY <1>3, <2>1
<1>5. PICK c : c = Collected(record)
  OBVIOUS
<1>6. Restores(c, PatchedIn(record), named, projector, retired, astray, shownTurns, TRUE)
  BY <1>4, <1>5 DEF RestoreInv, RecordRestores
<1>7. PICK prompts : prompts = PromptsIn(shownTurns)
  OBVIOUS
<1>8. Ready(shownTurns, sequence) /\ (c.refused \/ Collects(c, produced, prompts))
  BY <1>4, <1>5, <1>7, RestoreFields
<1>9. PICK ws : ws = ApplyEvents(shownTurns, sequence, events)
  OBVIOUS
<1>10. PICK patched : patched = PatchedIn(record)
  OBVIOUS
<1>11. Restores(c, patched, named, projector, retired, astray, ws, TRUE)
  BY <1>1, <1>2, <1>3, <1>6, <1>8, <1>9, <1>10, PermissionRestores
<1> QED BY <1>3, <1>4, <1>5, <1>9, <1>10, <1>11 DEF RecordRestores

LEMMA TurnEndsRestores ==
    ASSUME ProjectionInv, RestoreInv, NEW end \in Ends, TurnEnds(end)
    PROVE  RestoreInv'
<1> SUFFICES ASSUME protocol = "v1"
             PROVE  projecting' = 0 /\ RecordRestores(record', named', projector', retired', astray', shownTurns', FALSE)
  <2>1. protocol' = protocol
    BY DEF TurnEnds
  <2>2. projecting' = 0 => projecting' # 1
    OBVIOUS
  <2> QED BY <2>1, <2>2, Zenon DEF RestoreInv
<1>1. PICK events : events = <<end>>
  OBVIOUS
<1>2. /\ projecting = 1 /\ projecting' = 0 /\ named' = named /\ projector' = projector /\ astray' = astray
      /\ retired' = retired /\ record' = record /\ shownTurns' = ApplyEvents(shownTurns, sequence, events)
  BY <1>1 DEF TurnEnds, EmitEvents
<1>3. shownTurns # <<>>
  BY <1>2 DEF ProjectionInv
<1>4. PICK c : c = Collected(record)
  OBVIOUS
<1>5. PICK patched : patched = PatchedIn(record)
  OBVIOUS
<1>6. Restores(c, patched, named, projector, retired, astray, shownTurns, TRUE)
  BY <1>2, <1>4, <1>5 DEF RestoreInv, RecordRestores
<1>7. PICK prompts : prompts = PromptsIn(shownTurns)
  OBVIOUS
<1>8. Ready(shownTurns, sequence) /\ (c.refused \/ Collects(c, produced, prompts))
  BY <1>3, <1>4, <1>7, RestoreFields
<1>9. PICK ws : ws = ApplyEvents(shownTurns, sequence, events)
  OBVIOUS
<1>10. Restores(c, patched, named, projector, retired, astray, ws, FALSE)
  BY <1>1, <1>6, <1>8, <1>9, EndRestores
<1> QED BY <1>2, <1>4, <1>5, <1>9, <1>10 DEF RecordRestores

(* What an Agent of version 1 writes; its tools are not those of another process. *)
LEMMA WritesRecord ==
    ASSUME ProjectionInv, protocol = "v1", NEW update \in Inputs, Writes(update)
    PROVE  /\ IsPatch(update) \/ IsChunk(update)
           /\ IsPatch(update) => update.tool \notin retired
           /\ update \in RecordedUpdates /\ record' = Append(record, update)
<1>1. TextsOK(produced) /\ updates \in 0..MaxUpdates
  BY ProjectionFields
<1>2. updates < MaxUpdates /\ record' = Append(record, update)
  BY DEF Writes, Recorded
<1>3. (IsPatch(update) \/ IsChunk(update)) /\ update \in RecordedUpdates
  BY <1>1, <1>2, InputKinds
<1>4. update \in Patches => update.tool \notin retired
  BY DEF Patches
<1>5. update \in Chunks \cup NonText => update.kind # "tool"
  BY DEF Chunks, NonText
<1>6. update \in Patches \/ update \in Chunks \cup NonText
  BY DEF Inputs
<1>7. IsPatch(update) => update.kind = "tool"
  BY DEF IsPatch
<1> QED BY <1>2, <1>3, <1>4, <1>5, <1>6, <1>7

LEMMA WritesCollected ==
    ASSUME ProjectionInv, RestoreInv, protocol = "v1", NEW update \in Inputs, Writes(update),
           NEW c, c = Collected(record), NEW d, d = Collected(record'), NEW more, more = PatchedIn(record'),
           NEW prompts, prompts = PromptsIn(shownTurns)
    PROVE  CollectorAfter(c, d, update, produced, prompts, more, named)
<1>1. /\ IsPatch(update) \/ IsChunk(update)
      /\ update \in RecordedUpdates /\ record' = Append(record, update)
  BY WritesRecord
<1>2. projecting = 1 \/ projecting = 0
  BY ProjectionFields, PromptsAssumption DEF ProjectionInv
<1>3. PICK patched : patched = PatchedIn(record)
  OBVIOUS
<1>4. c.refused \/ CollectorKeeps(c, patched, named)
  <2>1. CASE projecting = 1
    <3>1. RecordRestores(record, named, projector, retired, astray, shownTurns, TRUE)
      BY <2>1, Zenon DEF RestoreInv
    <3> QED BY <1>3, <3>1, Zenon DEF RecordRestores, Restores
  <2>2. CASE projecting = 0
    <3>1. RecordRestores(record, named, projector, retired, astray, shownTurns, FALSE)
      BY <2>2, Zenon DEF RestoreInv
    <3> QED BY <1>3, <3>1, Zenon DEF RecordRestores, Restores
  <2> QED BY <1>2, <2>1, <2>2
<1>5. PICK next : next = Append(record, update)
  OBVIOUS
<1>6. d = Collected(next) /\ more = PatchedIn(next)
  BY <1>1, <1>5
<1>7. record \in Seq(RecordedUpdates) /\ RecordOK(record, produced, shownTurns)
  BY RestoreFields
<1>8. CollectorAfter(c, d, update, produced, PromptsIn(shownTurns), PatchedIn(next), named)
  BY <1>1, <1>3, <1>4, <1>5, <1>6, <1>7, OutputAfter
<1> QED BY <1>6, <1>8

LEMMA LostStays ==
    ASSUME NEW c, NEW d, NEW update, NEW texts, NEW prompts, NEW more, NEW ids,
           CollectorAfter(c, d, update, texts, prompts, more, ids), NEW lost, lost # {}, NEW p, NEW gone, NEW ts, NEW busy
    PROVE  Restores(d, more, ids, p, gone, lost, ts, busy)
BY RestoresLost DEF CollectorAfter

LEMMA UpdateRestores ==
    ASSUME ProjectionInv, RestoreInv, NEW update \in Inputs, Update(update)
    PROVE  RestoreInv'
<1> SUFFICES ASSUME protocol = "v1"
             PROVE  /\ projecting' = 1 => RecordRestores(record', named', projector', retired', astray', shownTurns', TRUE)
                    /\ projecting' = 0 => RecordRestores(record', named', projector', retired', astray', shownTurns', FALSE)
  <2>1. protocol' = protocol
    BY DEF Update
  <2> QED BY <2>1, Zenon DEF RestoreInv
<1>1. PICK P : P = Project(1, projector, update)
  OBVIOUS
<1>2. P = Project(Version, projector, update)
  BY <1>1 DEF Version
<1>3. projecting = 1 /\ Writes(update) /\ projector' = P.projector /\ named' = named /\ retired' = retired
  BY <1>2 DEF Update
<1>4. OwnOutput(update, retired)
  BY <1>3, WritesRecord DEF OwnOutput
<1>5. PICK c : c = Collected(record)
  OBVIOUS
<1>6. PICK d : d = Collected(record')
  OBVIOUS
<1>7. PICK more : more = PatchedIn(record')
  OBVIOUS
<1>8. PICK prompts : prompts = PromptsIn(shownTurns)
  OBVIOUS
<1>9. CollectorAfter(c, d, update, produced, prompts, more, named)
  BY <1>3, <1>5, <1>6, <1>7, <1>8, WritesCollected
<1>10. PICK patched : patched = PatchedIn(record)
  OBVIOUS
<1>11. Restores(c, patched, named, projector, retired, astray, shownTurns, TRUE)
  <2>1. RecordRestores(record, named, projector, retired, astray, shownTurns, TRUE)
    BY <1>3, Zenon DEF RestoreInv
  <2> QED BY <1>5, <1>10, <2>1 DEF RecordRestores
<1>12. Ready(shownTurns, sequence) /\ ProjectorOK(projector)
  <2>1. shownTurns # <<>>
    BY <1>3 DEF ProjectionInv
  <2> QED BY <2>1, RestoreFields
<1>13. PICK ws : ws = ApplyEvents(shownTurns, sequence, P.events)
  OBVIOUS
<1>14. Restores(d, more, named, P.projector, retired, astray, ws, TRUE) /\ (astray = {} /\ P.refused => d.refused)
  <2>1. PICK p : p = projector
    OBVIOUS
  <2>2. PICK us : us = shownTurns
    OBVIOUS
  <2>3. PICK gone, lost : gone = retired /\ lost = astray
    OBVIOUS
  <2>4. ProjectorOK(p) /\ Ready(us, sequence) /\ OwnOutput(update, gone)
    BY <1>4, <1>12, <2>1, <2>2, <2>3
  <2>5. Restores(c, patched, named, p, gone, lost, us, TRUE)
    BY <1>11, <2>1, <2>2, <2>3
  <2>6. P = Project(1, p, update) /\ ws = ApplyEvents(us, sequence, P.events)
    BY <1>1, <1>13, <2>1, <2>2
  <2>7. OutputRestored(d, more, named, P, gone, lost, ws)
    BY <1>9, <2>4, <2>5, <2>6, OutputRestores
  <2> QED BY <2>3, <2>7 DEF OutputRestored
<1>15. CASE ~P.refused
  <2>1. shownTurns' = ws /\ projecting' = projecting /\ astray' = astray
    BY <1>2, <1>13, <1>15 DEF Update, EmitEvents
  <2>2. RecordRestores(record', named', projector', retired', astray', shownTurns', TRUE)
    BY <1>3, <1>6, <1>7, <1>14, <2>1 DEF RecordRestores
  <2>3. projecting' # 0
    BY <1>3, <2>1
  <2> QED BY <2>2, <2>3
<1>16. CASE P.refused
  <2>1. projecting' = 0 /\ astray' = Loses(update)
    BY <1>2, <1>16 DEF Update
  <2>2. astray # {} => astray' # {}
    BY <2>1 DEF Loses
  <2>3. PICK lost : lost = astray'
    OBVIOUS
  <2>4. PICK us : us = shownTurns'
    OBVIOUS
  <2>5. Restores(d, more, named, P.projector, retired, lost, us, FALSE)
    <3>1. CASE astray = {}
      <4>1. d.refused
        BY <1>14, <1>16, <3>1
      <4> QED BY <4>1, RestoresRefused
    <3>2. CASE astray # {}
      <4>1. lost # {}
        BY <2>2, <2>3, <3>2
      <4> QED BY <1>9, <4>1, LostStays
    <3> QED BY <3>1, <3>2
  <2>6. RecordRestores(record', named', projector', retired', astray', shownTurns', FALSE)
    BY <1>3, <1>6, <1>7, <2>3, <2>4, <2>5 DEF RecordRestores
  <2>7. projecting' # 1
    BY <2>1
  <2> QED BY <2>6, <2>7
<1> QED BY <1>15, <1>16

LEMMA LateUpdateRestores ==
    ASSUME ProjectionInv, RestoreInv, NEW update \in Inputs, LateUpdate(update)
    PROVE  RestoreInv'
<1> SUFFICES ASSUME protocol = "v1"
             PROVE  projecting' = 0 /\ RecordRestores(record', named', projector', retired', astray', shownTurns', FALSE)
  <2>1. protocol' = protocol
    BY DEF LateUpdate
  <2>2. projecting' = 0 => projecting' # 1
    OBVIOUS
  <2> QED BY <2>1, <2>2, Zenon DEF RestoreInv
<1>1. /\ projecting = 0 /\ projecting' = projecting /\ Writes(update) /\ projector' = projector /\ named' = named
      /\ retired' = retired /\ shownTurns' = shownTurns
      /\ astray' = IF update.kind = "tool" THEN Contents ELSE astray \cup {update.id}
  BY DEF LateUpdate
<1>2. PICK c : c = Collected(record)
  OBVIOUS
<1>3. PICK d : d = Collected(record')
  OBVIOUS
<1>4. PICK more : more = PatchedIn(record')
  OBVIOUS
<1>5. PICK prompts : prompts = PromptsIn(shownTurns)
  OBVIOUS
<1>6. CollectorAfter(c, d, update, produced, prompts, more, named)
  BY <1>1, <1>2, <1>3, <1>4, <1>5, WritesCollected
<1>7. PICK lost : lost = astray'
  OBVIOUS
<1>8. lost # {}
  BY <1>1, <1>7, ContentAssumption DEF Contents
<1>9. Restores(d, more, named, projector, retired, lost, shownTurns, FALSE)
  BY <1>6, <1>8, LostStays
<1> QED BY <1>1, <1>3, <1>4, <1>7, <1>9 DEF RecordRestores

LEMMA RestartRestored ==
    ASSUME ProjectionInv, RestoreInv, Restart
    PROVE  RestoreInv'
<1> SUFFICES projecting' = 0 /\ RecordRestores(record', named', projector', retired', astray', shownTurns', FALSE)
  <2>1. projecting' = 0 => projecting' # 1
    OBVIOUS
  <2> QED BY <2>1, Zenon DEF RestoreInv
<1>1. PICK r : r = Replay(record)
  OBVIOUS
<1>2. PICK patched : patched = PatchedIn(record)
  OBVIOUS
<1>3. /\ protocol = "v1" /\ ~r.refused /\ shownTurns' = r.turns /\ projecting' = 0 /\ projector' = NewProjector
      /\ astray' = {} /\ named' = named /\ record' = record /\ retired' = patched
  BY <1>1, <1>2 DEF Restart, RestoreFrom, PatchedIn
<1>4. PICK c : c = Collected(record)
  OBVIOUS
<1>5. c.refused \/ CollectorKeeps(c, patched, named)
  <2>1. projecting = 1 \/ projecting = 0
    BY <1>3, ProjectionFields, PromptsAssumption DEF ProjectionInv
  <2>2. CASE projecting = 1
    <3>1. RecordRestores(record, named, projector, retired, astray, shownTurns, TRUE)
      BY <1>3, <2>2, Zenon DEF RestoreInv
    <3> QED BY <1>2, <1>4, <3>1, Zenon DEF RecordRestores, Restores
  <2>3. CASE projecting = 0
    <3>1. RecordRestores(record, named, projector, retired, astray, shownTurns, FALSE)
      BY <1>3, <2>3, Zenon DEF RestoreInv
    <3> QED BY <1>2, <1>4, <3>1, Zenon DEF RecordRestores, Restores
  <2> QED BY <2>1, <2>2, <2>3
<1>6. RecordOK(record, produced, shownTurns) /\ Len(PromptsIn(shownTurns)) <= MaxPrompts
  BY <1>3, ProjectionFields DEF ProjectionInv, TurnsOK
<1>7. r.turns \in Seq(ConversationTurns)
  <2>1. TurnsOK(r.turns, r.sequence, produced, {})
    BY <1>1, <1>3, <1>6, Replayed
  <2> QED BY <2>1 DEF TurnsOK, Faithful
<1>8. Restores(c, patched, named, NewProjector, patched, {}, r.turns, FALSE)
  BY <1>1, <1>3, <1>4, <1>5, <1>6, <1>7, RestartRestores
<1> QED BY <1>2, <1>3, <1>4, <1>8 DEF RecordRestores

LEMMA CloudRestores ==
    ASSUME protocol' = "cloud"
    PROVE  RestoreInv'
<1>1. protocol' # "v1"
  OBVIOUS
<1> QED BY <1>1, Zenon DEF RestoreInv

LEMMA RestoreStutter ==
    ASSUME RestoreInv, UNCHANGED projectionVars
    PROVE  RestoreInv'
<1>1. /\ protocol' = protocol /\ named' = named /\ shownTurns' = shownTurns /\ projecting' = projecting
      /\ projector' = projector /\ record' = record /\ astray' = astray /\ retired' = retired
  BY DEF projectionVars
<1> QED BY <1>1, Zenon DEF RestoreInv

LEMMA RestoreStep == ProjectionInv /\ RestoreInv /\ [ProjectionNext]_projectionVars => RestoreInv'
<1> SUFFICES ASSUME ProjectionInv, RestoreInv, [ProjectionNext]_projectionVars  PROVE RestoreInv'
  OBVIOUS
<1>1. CASE PromptTurn
  BY <1>1, PromptTurnRestores
<1>2. CASE CloudPrompt
  BY <1>2, CloudRestores DEF CloudPrompt
<1>3. CASE CloudCancelled
  BY <1>3, CloudRestores DEF CloudCancelled, CloudEvent
<1>4. CASE Restart
  BY <1>4, RestartRestored
<1>5. ASSUME NEW update \in Inputs, Update(update) \/ LateUpdate(update) \/ CloudUpdate(update)
      PROVE  RestoreInv'
  <2>1. CloudUpdate(update) => protocol' = "cloud"
    BY DEF CloudUpdate
  <2> QED BY <1>5, <2>1, UpdateRestores, LateUpdateRestores, CloudRestores
<1>6. ASSUME NEW tool \in Tools, Permission(tool)  PROVE RestoreInv'
  BY <1>6, PermissionRestored
<1>7. ASSUME NEW end \in Ends, TurnEnds(end)  PROVE RestoreInv'
  BY <1>7, TurnEndsRestores
<1>8. ASSUME NEW event \in {MessageDelta(FinalDelta(shownText, final), TRUE), RunFailed("failed")},
             CloudTurnEnds(event)
      PROVE  RestoreInv'
  <2>1. protocol' = "cloud"
    BY <1>8 DEF CloudTurnEnds, CloudEvent
  <2> QED BY <2>1, CloudRestores
<1>9. CASE UNCHANGED projectionVars
  BY <1>9, RestoreStutter
<1> QED BY <1>1, <1>2, <1>3, <1>4, <1>5, <1>6, <1>7, <1>8, <1>9 DEF ProjectionNext

(* A replay of the record shows the turns again. *)
LEMMA RestoreInvShows == ProjectionInv /\ RestoreInv => ReplayRestoresTurns
<1> SUFFICES ASSUME ProjectionInv, RestoreInv, protocol = "v1", projecting = 0, astray = {}, Delimited,
                    ~Replay(record).refused
             PROVE  LET r == Replay(record)
                    IN /\ Len(r.turns) = Len(shownTurns)
                       /\ \A i \in DOMAIN shownTurns : Appearance(r.turns[i]) = Appearance(shownTurns[i])
  BY Zenon DEF ReplayRestoresTurns
<1>1. PICK r : r = Replay(record)
  OBVIOUS
<1>2. ~r.refused
  BY <1>1
<1>3. PICK c : c = Collected(record)
  OBVIOUS
<1>4. PICK patched : patched = PatchedIn(record)
  OBVIOUS
<1>5. Restores(c, patched, named, projector, retired, {}, shownTurns, FALSE)
  <2>1. RecordRestores(record, named, projector, retired, astray, shownTurns, FALSE)
    BY Zenon DEF RestoreInv
  <2> QED BY <1>3, <1>4, <2>1 DEF RecordRestores
<1>6. shownTurns \in Seq(ConversationTurns) /\ RecordOK(record, produced, shownTurns)
  BY RestoreFields
<1>7. DOMAIN shownTurns = 1..Len(shownTurns) /\ Len(shownTurns) \in Nat
  BY <1>6
<1>8. DelimitedBefore(shownTurns, named)
  BY <1>7 DEF Delimited, DelimitedBefore
<1>9. SameLook(shownTurns, r.turns)
  BY <1>1, <1>2, <1>3, <1>5, <1>6, <1>8, RestoresShown
<1> QED BY <1>1, <1>7, <1>9 DEF SameLook

(* A replay of a version 1 Agent's record restores the turns that the desktop *)
(* has shown, whatever was repeated, cut short or cancelled: what the         *)
(* collector of a replay (AcpV1ReplayCollector) makes of the updates is what  *)
(* the session (AcpEventProjector) made of them while they came.              *)
THEOREM ProjectionRestores == ProjectionSpec => []ReplayRestoresTurns
<1>1. ProjectionInv /\ RestoreInv /\ [ProjectionNext]_projectionVars => (ProjectionInv /\ RestoreInv)'
  BY ProjectionStepInv, RestoreStep
<1>2. ProjectionInit => ProjectionInv /\ RestoreInv
  BY ProjectionInitInv, RestoreInit
<1>3. ProjectionSpec => [](ProjectionInv /\ RestoreInv)
  BY <1>1, <1>2, PTL DEF ProjectionSpec
<1>4. ProjectionInv /\ RestoreInv => ReplayRestoresTurns
  BY RestoreInvShows
<1> QED BY <1>3, <1>4, PTL

=============================================================================
