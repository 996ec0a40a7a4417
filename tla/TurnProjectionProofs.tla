------------------------ MODULE TurnProjectionProofs ------------------------
(***************************************************************************)
(* Proofs about TurnProjection: what the Agent writes is shown, once and    *)
(* in order, in a session, in the cloud and after a restart, for every      *)
(* number of prompts and updates and every set of messages, thoughts and    *)
(* tools.                                                                   *)
(***************************************************************************)
EXTENDS TurnProjection, SequenceFilterProofs

(* What FlattenSeq computes for the first m sequences. *)
FlattenOf(s, m, f) == f = [n \in 1..m |-> IF n = 1 THEN s[n] ELSE f[n - 1] \o s[n]]

LEMMA FlattenExists ==
    ASSUME NEW s
    PROVE  \A m \in Nat : \E f : FlattenOf(s, m, f)
<1> DEFINE G == {m \in Nat : \E f : FlattenOf(s, m, f)}
<1>1. 0 \in G
  <2> DEFINE f == [n \in 1..0 |-> <<>>]
  <2>1. FlattenOf(s, 0, f)
    BY DEF FlattenOf
  <2> QED BY <2>1
<1>2. ASSUME NEW m \in Nat, m \in G  PROVE m + 1 \in G
  <2>1. PICK f : FlattenOf(s, m, f)
    BY <1>2
  <2> DEFINE g == [n \in 1..(m + 1) |-> IF n <= m THEN f[n] ELSE IF n = 1 THEN s[n] ELSE f[n - 1] \o s[n]]
  <2>2. FlattenOf(s, m + 1, g)
    <3>1. \A n \in 1..m : f[n] = IF n = 1 THEN s[n] ELSE f[n - 1] \o s[n]
      BY <2>1 DEF FlattenOf
    <3>2. \A n \in 1..(m + 1) : g[n] = IF n = 1 THEN s[n] ELSE g[n - 1] \o s[n]
      <4>1. \A n \in 1..m : g[n] = f[n]
        OBVIOUS
      <4> HIDE DEF g
      <4> TAKE n \in 1..(m + 1)
      <4>2. CASE n \in 1..m
        <5>1. n # 1 => n - 1 \in 1..m
          BY <4>2
        <5> QED BY <3>1, <4>1, <4>2, <5>1
      <4>3. CASE n = m + 1
        <5>1. g[n] = IF n = 1 THEN s[n] ELSE f[n - 1] \o s[n]
          BY <4>3 DEF g
        <5>2. n # 1 => n - 1 \in 1..m
          BY <4>3
        <5> QED BY <4>1, <5>1, <5>2
      <4> QED BY <4>2, <4>3
    <3>3. g = [n \in 1..(m + 1) |-> g[n]]
      OBVIOUS
    <3> HIDE DEF g
    <3> QED BY <3>2, <3>3 DEF FlattenOf
  <2> HIDE DEF g
  <2> QED BY <2>2
<1> HIDE DEF G
<1>3. Nat \subseteq G
  BY <1>1, <1>2, AllNumbers
<1> QED BY <1>3 DEF G

LEMMA FlattenIs ==
    ASSUME NEW T, NEW s \in Seq(T), s # <<>>
    PROVE  \E f : FlattenOf(s, Len(s), f) /\ FlattenSeq(s) = f[Len(s)]
<1> DEFINE f == CHOOSE f : FlattenOf(s, Len(s), f)
<1>1. FlattenOf(s, Len(s), f)
  BY FlattenExists
<1>2. FlattenSeq(s) = f[Len(s)]
  <2>1. Len(s) # 0
    OBVIOUS
  <2> QED BY <2>1 DEF FlattenSeq, FlattenOf
<1> QED BY <1>1, <1>2

(* Two computations agree as far as they read the same. *)
LEMMA FlattenAgree ==
    ASSUME NEW s, NEW t, NEW m \in Nat, NEW k \in Nat, NEW f, NEW g,
           1 <= m, m <= k, FlattenOf(s, m, f), FlattenOf(t, k, g), \A n \in 1..m : s[n] = t[n]
    PROVE  f[m] = g[m]
<1> DEFINE N == {n \in Nat : n + 1 <= m => f[n + 1] = g[n + 1]}
<1>1. /\ \A n \in 1..m : f[n] = IF n = 1 THEN s[n] ELSE f[n - 1] \o s[n]
      /\ \A n \in 1..k : g[n] = IF n = 1 THEN t[n] ELSE g[n - 1] \o t[n]
  BY DEF FlattenOf
<1>2. 0 \in N
  BY <1>1
<1>3. ASSUME NEW n \in Nat, n \in N  PROVE n + 1 \in N
  <2> SUFFICES ASSUME (n + 1) + 1 <= m  PROVE f[(n + 1) + 1] = g[(n + 1) + 1]
    OBVIOUS
  <2>1. f[n + 1] = g[n + 1]
    BY <1>3
  <2>2. (n + 1) + 1 \in 1..m /\ (n + 1) + 1 \in 1..k /\ (n + 1) + 1 # 1 /\ ((n + 1) + 1) - 1 = n + 1
    OBVIOUS
  <2> QED BY <1>1, <2>1, <2>2
<1> HIDE DEF N
<1>4. Nat \subseteq N
  BY <1>2, <1>3, AllNumbers
<1>5. m - 1 \in N /\ (m - 1) + 1 = m
  BY <1>4
<1> QED BY <1>5 DEF N

LEMMA FlattenNothing == FlattenSeq(<<>>) = <<>>
BY DEF FlattenSeq

(* Flattening one sequence more adds it at the end. *)
LEMMA FlattenAppend ==
    ASSUME NEW T, NEW s \in Seq(Seq(T)), NEW x \in Seq(T)
    PROVE  FlattenSeq(Append(s, x)) = FlattenSeq(s) \o x
<1>1. PICK m \in Nat : m = Len(s)
  OBVIOUS
<1>2. PICK t \in Seq(Seq(T)) : t = Append(s, x)
  <2>1. Append(s, x) \in Seq(Seq(T))
    OBVIOUS
  <2> QED BY <2>1, Zenon
<1>3. Len(t) = m + 1 /\ t[m + 1] = x /\ (\A n \in 1..m : t[n] = s[n]) /\ t # <<>>
  <2>1. Len(t) = m + 1 /\ t[m + 1] = x /\ \A n \in 1..m : t[n] = s[n]
    BY <1>1, <1>2
  <2>2. Len(<<>>) = 0
    OBVIOUS
  <2> QED BY <2>1, <2>2
<1>4. PICK g : FlattenOf(t, m + 1, g) /\ FlattenSeq(t) = g[m + 1]
  BY <1>3, FlattenIs
<1>5. \A n \in 1..(m + 1) : g[n] = IF n = 1 THEN t[n] ELSE g[n - 1] \o t[n]
  BY <1>4 DEF FlattenOf
<1>6. CASE s = <<>>
  <2>1. m = 0 /\ g[1] = x
    BY <1>1, <1>3, <1>5, <1>6
  <2>2. FlattenSeq(s) \o x = x
    <3>1. FlattenSeq(s) = <<>>
      BY <1>6, FlattenNothing, Zenon
    <3> QED BY <3>1
  <2>3. FlattenSeq(t) = x
    BY <1>4, <2>1
  <2> QED BY <1>2, <2>2, <2>3, Zenon
<1>7. CASE s # <<>>
  <2>1. PICK f : FlattenOf(s, m, f) /\ FlattenSeq(s) = f[m]
    BY <1>1, <1>7, FlattenIs
  <2>2. 1 <= m
    BY <1>1, <1>7
  <2>3. f[m] = g[m]
    <3>0. PICK k \in Nat : k = m + 1
      OBVIOUS
    <3>1. FlattenOf(s, m, f) /\ FlattenOf(t, k, g) /\ m <= k /\ \A n \in 1..m : s[n] = t[n]
      BY <1>3, <1>4, <2>1, <3>0
    <3> QED BY <2>2, <3>1, FlattenAgree
  <2>4. g[m + 1] = g[m] \o x
    <3>1. m + 1 \in 1..(m + 1) /\ m + 1 # 1 /\ (m + 1) - 1 = m
      BY <2>2
    <3> QED BY <1>3, <1>5, <3>1
  <2> QED BY <1>2, <1>4, <2>1, <2>3, <2>4, Zenon
<1> QED BY <1>6, <1>7

LEMMA FlattenType ==
    ASSUME NEW T, NEW s \in Seq(Seq(T))
    PROVE  FlattenSeq(s) \in Seq(T)
<1> DEFINE G == {q \in Seq(Seq(T)) : FlattenSeq(q) \in Seq(T)}
<1>1. <<>> \in G
  <2>1. <<>> \in Seq(T) /\ <<>> \in Seq(Seq(T))
    OBVIOUS
  <2> QED BY <2>1, FlattenNothing
<1>2. ASSUME NEW q \in Seq(Seq(T)), NEW x \in Seq(T), q \in G  PROVE Append(q, x) \in G
  <2>1. FlattenSeq(q) \o x \in Seq(T) /\ Append(q, x) \in Seq(Seq(T))
    BY <1>2
  <2>2. FlattenSeq(Append(q, x)) = FlattenSeq(q) \o x
    BY FlattenAppend
  <2> QED BY <2>1, <2>2
<1> HIDE DEF G
<1>3. Seq(Seq(T)) \subseteq G
  BY <1>1, <1>2, AllSequences
<1> QED BY <1>3 DEF G

-----------------------------------------------------------------------------
(* What is read off the blocks of a turn and off the turns is read off one    *)
(* after the other.                                                           *)
LEMMA MessagePartType ==
    ASSUME NEW x \in Blocks, NEW m
    PROVE  MessagePart(x, m) \in Seq(Messages \X (1..MaxUpdates))
<1>1. CASE x.kind = "assistantText"
  <2>1. x.text \in Seq(Messages \X (1..MaxUpdates))
    BY <1>1 DEF Blocks, TextBlocks, ThoughtBlocks, ToolBlocks, FailureTip, MessageTexts
  <2> QED BY <1>1, <2>1, KeptType DEF MessagePart
<1>2. CASE x.kind # "assistantText"
  BY <1>2 DEF MessagePart
<1> QED BY <1>1, <1>2

LEMMA ThoughtPartType ==
    ASSUME NEW x \in Blocks, NEW m
    PROVE  ThoughtPart(x, m) \in Seq(ThoughtTexts)
<1>1. CASE x.kind = "agentThought" /\ x.id = m
  <2>1. x.text \in ThoughtTexts
    BY <1>1 DEF Blocks, TextBlocks, ThoughtBlocks, ToolBlocks, FailureTip
  <2> QED BY <1>1, <2>1 DEF ThoughtPart
<1>2. CASE ~(x.kind = "agentThought" /\ x.id = m)
  BY <1>2 DEF ThoughtPart
<1> QED BY <1>1, <1>2

LEMMA MessageInAppend ==
    ASSUME NEW s \in Seq(Blocks), NEW x \in Blocks, NEW m
    PROVE  MessageIn(Append(s, x), m) = MessageIn(s, m) \o MessagePart(x, m)
<1> DEFINE P(y) == MessagePart(y, m)
           parts == [i \in DOMAIN s |-> P(s[i])]
<1>1. \A y \in Blocks : P(y) \in Seq(Messages \X (1..MaxUpdates))
  BY MessagePartType
<1> HIDE DEF P
<1>2. parts \in Seq(Seq(Messages \X (1..MaxUpdates)))
  <2>1. parts \in [1..Len(s) -> Seq(Messages \X (1..MaxUpdates))]
    BY <1>1
  <2> QED BY <2>1, IsASeq
<1>3. [i \in DOMAIN Append(s, x) |-> P(Append(s, x)[i])] = Append(parts, P(x))
  BY <1>1
<1>4. MessageIn(Append(s, x), m) = FlattenSeq(Append(parts, P(x))) /\ MessageIn(s, m) = FlattenSeq(parts)
  BY <1>3 DEF MessageIn, P
<1>5. FlattenSeq(Append(parts, P(x))) = FlattenSeq(parts) \o P(x)
  BY <1>1, <1>2, FlattenAppend
<1> QED BY <1>4, <1>5 DEF P

LEMMA MessageInType ==
    ASSUME NEW s \in Seq(Blocks), NEW m
    PROVE  MessageIn(s, m) \in Seq(Messages \X (1..MaxUpdates))
<1> DEFINE P(y) == MessagePart(y, m)
           parts == [i \in DOMAIN s |-> P(s[i])]
<1>1. \A y \in Blocks : P(y) \in Seq(Messages \X (1..MaxUpdates))
  BY MessagePartType
<1> HIDE DEF P
<1>2. parts \in Seq(Seq(Messages \X (1..MaxUpdates)))
  <2>1. parts \in [1..Len(s) -> Seq(Messages \X (1..MaxUpdates))]
    BY <1>1
  <2> QED BY <2>1, IsASeq
<1>3. MessageIn(s, m) = FlattenSeq(parts)
  BY DEF MessageIn, P
<1> QED BY <1>2, <1>3, FlattenType

LEMMA MessageInNothing ==
    ASSUME NEW m PROVE MessageIn(<<>>, m) = <<>>
<1> DEFINE P(y) == MessagePart(y, m)
<1>1. [i \in DOMAIN <<>> |-> P(<<>>[i])] = <<>>
  <2> HIDE DEF P
  <2> QED OBVIOUS
<1>2. MessageIn(<<>>, m) = FlattenSeq([i \in DOMAIN <<>> |-> P(<<>>[i])])
  BY DEF MessageIn
<1> QED BY <1>1, <1>2, FlattenNothing, Zenon

LEMMA ThoughtInAppend ==
    ASSUME NEW s \in Seq(Blocks), NEW x \in Blocks, NEW m
    PROVE  ThoughtIn(Append(s, x), m) = ThoughtIn(s, m) \o ThoughtPart(x, m)
<1> DEFINE P(y) == ThoughtPart(y, m)
           parts == [i \in DOMAIN s |-> P(s[i])]
<1>1. \A y \in Blocks : P(y) \in Seq(ThoughtTexts)
  BY ThoughtPartType
<1> HIDE DEF P
<1>2. parts \in Seq(Seq(ThoughtTexts))
  <2>1. parts \in [1..Len(s) -> Seq(ThoughtTexts)]
    BY <1>1
  <2> QED BY <2>1, IsASeq
<1>3. [i \in DOMAIN Append(s, x) |-> P(Append(s, x)[i])] = Append(parts, P(x))
  BY <1>1
<1>4. ThoughtIn(Append(s, x), m) = FlattenSeq(Append(parts, P(x))) /\ ThoughtIn(s, m) = FlattenSeq(parts)
  BY <1>3 DEF ThoughtIn, P
<1>5. FlattenSeq(Append(parts, P(x))) = FlattenSeq(parts) \o P(x)
  BY <1>1, <1>2, FlattenAppend
<1> QED BY <1>4, <1>5 DEF P

LEMMA ThoughtInType ==
    ASSUME NEW s \in Seq(Blocks), NEW m
    PROVE  ThoughtIn(s, m) \in Seq(ThoughtTexts)
<1> DEFINE P(y) == ThoughtPart(y, m)
           parts == [i \in DOMAIN s |-> P(s[i])]
<1>1. \A y \in Blocks : P(y) \in Seq(ThoughtTexts)
  BY ThoughtPartType
<1> HIDE DEF P
<1>2. parts \in Seq(Seq(ThoughtTexts))
  <2>1. parts \in [1..Len(s) -> Seq(ThoughtTexts)]
    BY <1>1
  <2> QED BY <2>1, IsASeq
<1>3. ThoughtIn(s, m) = FlattenSeq(parts)
  BY DEF ThoughtIn, P
<1> QED BY <1>2, <1>3, FlattenType

LEMMA ThoughtInNothing ==
    ASSUME NEW m PROVE ThoughtIn(<<>>, m) = <<>>
<1> DEFINE P(y) == ThoughtPart(y, m)
<1>1. [i \in DOMAIN <<>> |-> P(<<>>[i])] = <<>>
  <2> HIDE DEF P
  <2> QED OBVIOUS
<1>2. ThoughtIn(<<>>, m) = FlattenSeq([i \in DOMAIN <<>> |-> P(<<>>[i])])
  BY DEF ThoughtIn
<1> QED BY <1>1, <1>2, FlattenNothing, Zenon

LEMMA BlocksOfTurns ==
    ASSUME NEW x \in ConversationTurns
    PROVE  x.blocks \in Seq(Blocks) /\ x.user \in Seq(1..MaxPrompts) /\ x.lastEvent \in Nat
BY DEF ConversationTurns

LEMMA MessageShownAppend ==
    ASSUME NEW s \in Seq(ConversationTurns), NEW x \in ConversationTurns, NEW m
    PROVE  MessageShown(Append(s, x), m) = MessageShown(s, m) \o MessageIn(x.blocks, m)
<1> DEFINE P(y) == MessageIn(y.blocks, m)
           parts == [i \in DOMAIN s |-> P(s[i])]
<1>1. \A y \in ConversationTurns : P(y) \in Seq(Messages \X (1..MaxUpdates))
  BY BlocksOfTurns, MessageInType
<1> HIDE DEF P
<1>2. parts \in Seq(Seq(Messages \X (1..MaxUpdates)))
  <2>1. parts \in [1..Len(s) -> Seq(Messages \X (1..MaxUpdates))]
    BY <1>1
  <2> QED BY <2>1, IsASeq
<1>3. [i \in DOMAIN Append(s, x) |-> P(Append(s, x)[i])] = Append(parts, P(x))
  BY <1>1
<1>4. MessageShown(Append(s, x), m) = FlattenSeq(Append(parts, P(x))) /\ MessageShown(s, m) = FlattenSeq(parts)
  BY <1>3 DEF MessageShown, P
<1>5. FlattenSeq(Append(parts, P(x))) = FlattenSeq(parts) \o P(x)
  BY <1>1, <1>2, FlattenAppend
<1> QED BY <1>4, <1>5 DEF P

LEMMA MessageShownType ==
    ASSUME NEW s \in Seq(ConversationTurns), NEW m
    PROVE  MessageShown(s, m) \in Seq(Messages \X (1..MaxUpdates))
<1> DEFINE P(y) == MessageIn(y.blocks, m)
           parts == [i \in DOMAIN s |-> P(s[i])]
<1>1. \A y \in ConversationTurns : P(y) \in Seq(Messages \X (1..MaxUpdates))
  BY BlocksOfTurns, MessageInType
<1> HIDE DEF P
<1>2. parts \in Seq(Seq(Messages \X (1..MaxUpdates)))
  <2>1. parts \in [1..Len(s) -> Seq(Messages \X (1..MaxUpdates))]
    BY <1>1
  <2> QED BY <2>1, IsASeq
<1>3. MessageShown(s, m) = FlattenSeq(parts)
  BY DEF MessageShown, P
<1> QED BY <1>2, <1>3, FlattenType

LEMMA MessageShownNothing ==
    ASSUME NEW m PROVE MessageShown(<<>>, m) = <<>>
<1> DEFINE P(y) == MessageIn(y.blocks, m)
<1>1. [i \in DOMAIN <<>> |-> P(<<>>[i])] = <<>>
  <2> HIDE DEF P
  <2> QED OBVIOUS
<1>2. MessageShown(<<>>, m) = FlattenSeq([i \in DOMAIN <<>> |-> P(<<>>[i])])
  BY DEF MessageShown
<1> QED BY <1>1, <1>2, FlattenNothing, Zenon

LEMMA ThoughtShownAppend ==
    ASSUME NEW s \in Seq(ConversationTurns), NEW x \in ConversationTurns, NEW m
    PROVE  ThoughtShown(Append(s, x), m) = ThoughtShown(s, m) \o ThoughtIn(x.blocks, m)
<1> DEFINE P(y) == ThoughtIn(y.blocks, m)
           parts == [i \in DOMAIN s |-> P(s[i])]
<1>1. \A y \in ConversationTurns : P(y) \in Seq(ThoughtTexts)
  BY BlocksOfTurns, ThoughtInType
<1> HIDE DEF P
<1>2. parts \in Seq(Seq(ThoughtTexts))
  <2>1. parts \in [1..Len(s) -> Seq(ThoughtTexts)]
    BY <1>1
  <2> QED BY <2>1, IsASeq
<1>3. [i \in DOMAIN Append(s, x) |-> P(Append(s, x)[i])] = Append(parts, P(x))
  BY <1>1
<1>4. ThoughtShown(Append(s, x), m) = FlattenSeq(Append(parts, P(x))) /\ ThoughtShown(s, m) = FlattenSeq(parts)
  BY <1>3 DEF ThoughtShown, P
<1>5. FlattenSeq(Append(parts, P(x))) = FlattenSeq(parts) \o P(x)
  BY <1>1, <1>2, FlattenAppend
<1> QED BY <1>4, <1>5 DEF P

LEMMA ThoughtShownType ==
    ASSUME NEW s \in Seq(ConversationTurns), NEW m
    PROVE  ThoughtShown(s, m) \in Seq(ThoughtTexts)
<1> DEFINE P(y) == ThoughtIn(y.blocks, m)
           parts == [i \in DOMAIN s |-> P(s[i])]
<1>1. \A y \in ConversationTurns : P(y) \in Seq(ThoughtTexts)
  BY BlocksOfTurns, ThoughtInType
<1> HIDE DEF P
<1>2. parts \in Seq(Seq(ThoughtTexts))
  <2>1. parts \in [1..Len(s) -> Seq(ThoughtTexts)]
    BY <1>1
  <2> QED BY <2>1, IsASeq
<1>3. ThoughtShown(s, m) = FlattenSeq(parts)
  BY DEF ThoughtShown, P
<1> QED BY <1>2, <1>3, FlattenType

LEMMA ThoughtShownNothing ==
    ASSUME NEW m PROVE ThoughtShown(<<>>, m) = <<>>
<1> DEFINE P(y) == ThoughtIn(y.blocks, m)
<1>1. [i \in DOMAIN <<>> |-> P(<<>>[i])] = <<>>
  <2> HIDE DEF P
  <2> QED OBVIOUS
<1>2. ThoughtShown(<<>>, m) = FlattenSeq([i \in DOMAIN <<>> |-> P(<<>>[i])])
  BY DEF ThoughtShown
<1> QED BY <1>1, <1>2, FlattenNothing, Zenon

-----------------------------------------------------------------------------
(* The kinds of blocks.                                                       *)
LEMMA BlockKinds ==
    ASSUME NEW x \in Blocks
    PROVE  /\ x.kind \in {"assistantText", "agentThought", "toolCall", "failureTip"}
           /\ x.kind = "assistantText" <=> x \in TextBlocks
           /\ x.kind = "agentThought" <=> x \in ThoughtBlocks
           /\ x.kind = "toolCall" <=> x \in ToolBlocks
           /\ x.kind = "failureTip" <=> x = FailureTip
BY DEF Blocks, TextBlocks, ThoughtBlocks, ToolBlocks, FailureTip

LEMMA BlockFields ==
    ASSUME NEW x \in Blocks
    PROVE  /\ x.kind = "assistantText" => x.text \in MessageTexts /\ x.streaming \in BOOLEAN
           /\ x.kind = "agentThought" => x.text \in ThoughtTexts /\ x.id \in Thoughts /\ x.streaming \in BOOLEAN
           /\ x.kind = "toolCall" => x.tool \in Tools /\ x.status \in ToolStatuses /\ x.approval \in BlockApprovals
BY BlockKinds DEF TextBlocks, ThoughtBlocks, ToolBlocks

LEMMA BlockTypes ==
    /\ \A text \in MessageTexts : TextBlock(text) \in Blocks
    /\ \A text \in ThoughtTexts, id \in Thoughts : ThoughtBlock(text, id) \in Blocks
    /\ \A tool \in Tools : ToolBlock(tool) \in Blocks
    /\ FailureTip \in Blocks
<1>1. ASSUME NEW text \in MessageTexts  PROVE TextBlock(text) \in Blocks
  BY DEF Blocks, TextBlocks, TextBlock
<1>2. ASSUME NEW text \in ThoughtTexts, NEW id \in Thoughts  PROVE ThoughtBlock(text, id) \in Blocks
  BY DEF Blocks, ThoughtBlocks, ThoughtBlock
<1>3. ASSUME NEW tool \in Tools  PROVE ToolBlock(tool) \in Blocks
  BY DEF Blocks, ToolBlocks, ToolBlock, OpenStatus, ToolStatuses, BlockApprovals
<1>4. FailureTip \in Blocks
  BY DEF Blocks
<1> QED BY <1>1, <1>2, <1>3, <1>4

(* What the changes of a block leave of it. *)
LEMMA TextChanges ==
    ASSUME NEW x \in Blocks, x.kind = "assistantText", NEW text \in MessageTexts
    PROVE  LET y == [x EXCEPT !.text = @ \o text]
           IN y \in Blocks /\ y.kind = "assistantText" /\ y.text = x.text \o text /\ y.streaming = x.streaming
<1>1. x.text \o text \in MessageTexts
  BY BlockFields DEF MessageTexts
<1>2. PICK t \in MessageTexts : t = x.text \o text
  BY <1>1, Zenon
<1>3. x \in TextBlocks
  BY BlockKinds
<1>4. LET y == [x EXCEPT !.text = t]
      IN y \in TextBlocks /\ y.kind = "assistantText" /\ y.text = t /\ y.streaming = x.streaming
  BY <1>3 DEF TextBlocks
<1>5. [x EXCEPT !.text = @ \o text] = [x EXCEPT !.text = t]
  BY <1>2, Zenon
<1>6. TextBlocks \subseteq Blocks
  BY DEF Blocks
<1> QED BY <1>2, <1>4, <1>5, <1>6

LEMMA ThoughtChanges ==
    ASSUME NEW x \in Blocks, x.kind = "agentThought", NEW text \in ThoughtTexts
    PROVE  LET y == [x EXCEPT !.text = @ \o text]
           IN /\ y \in Blocks /\ y.kind = "agentThought" /\ y.id = x.id /\ y.streaming = x.streaming
              /\ y.text = x.text \o text
<1>1. x.text \o text \in ThoughtTexts
  BY BlockFields DEF ThoughtTexts
<1>2. PICK t \in ThoughtTexts : t = x.text \o text
  BY <1>1, Zenon
<1>3. x \in ThoughtBlocks
  BY BlockKinds
<1>4. LET y == [x EXCEPT !.text = t]
      IN y \in ThoughtBlocks /\ y.kind = "agentThought" /\ y.text = t /\ y.id = x.id /\ y.streaming = x.streaming
  BY <1>3 DEF ThoughtBlocks
<1>5. [x EXCEPT !.text = @ \o text] = [x EXCEPT !.text = t]
  BY <1>2, Zenon
<1>6. ThoughtBlocks \subseteq Blocks
  BY DEF Blocks
<1> QED BY <1>2, <1>4, <1>5, <1>6

LEMMA ClosedBlock ==
    ASSUME NEW x \in Blocks, x.kind \in {"assistantText", "agentThought"}
    PROVE  LET y == [x EXCEPT !.streaming = FALSE]
           IN /\ y \in Blocks /\ y.kind = x.kind /\ y.text = x.text /\ y.streaming = FALSE
              /\ x.kind = "agentThought" => y.id = x.id
<1>1. CASE x.kind = "assistantText"
  <2>1. x \in TextBlocks
    BY <1>1, BlockKinds
  <2>2. LET y == [x EXCEPT !.streaming = FALSE]
        IN y \in TextBlocks /\ y.kind = x.kind /\ y.text = x.text /\ y.streaming = FALSE
    BY <2>1 DEF TextBlocks
  <2> QED BY <1>1, <2>2 DEF Blocks
<1>2. CASE x.kind = "agentThought"
  <2>1. x \in ThoughtBlocks
    BY <1>2, BlockKinds
  <2>2. LET y == [x EXCEPT !.streaming = FALSE]
        IN y \in ThoughtBlocks /\ y.kind = x.kind /\ y.text = x.text /\ y.id = x.id /\ y.streaming = FALSE
    BY <2>1 DEF ThoughtBlocks
  <2> QED BY <1>2, <2>2 DEF Blocks
<1> QED BY <1>1, <1>2

LEMMA ToolChanges ==
    ASSUME NEW x \in Blocks, x.kind = "toolCall",
           NEW status \in ToolStatuses, NEW approval \in BlockApprovals
    PROVE  LET y == [x EXCEPT !.status = status, !.approval = approval]
               z == [x EXCEPT !.status = status]
           IN /\ y \in Blocks /\ y.kind = "toolCall" /\ y.tool = x.tool /\ y.status = status /\ y.approval = approval
              /\ z \in Blocks /\ z.kind = "toolCall" /\ z.tool = x.tool /\ z.status = status /\ z.approval = x.approval
<1>1. x \in ToolBlocks
  BY BlockKinds
<1>2. LET y == [x EXCEPT !.status = status, !.approval = approval]
      IN y \in ToolBlocks /\ y.kind = "toolCall" /\ y.tool = x.tool /\ y.status = status /\ y.approval = approval
  BY <1>1 DEF ToolBlocks
<1>3. LET z == [x EXCEPT !.status = status]
      IN z \in ToolBlocks /\ z.kind = "toolCall" /\ z.tool = x.tool /\ z.status = status /\ z.approval = x.approval
  BY <1>1 DEF ToolBlocks
<1> QED BY <1>2, <1>3 DEF Blocks

(* A block is what its fields are. *)
LEMMA SameBlock ==
    ASSUME NEW x \in Blocks, NEW y \in Blocks, x.kind = y.kind,
           x.kind = "assistantText" => x.text = y.text /\ x.streaming = y.streaming,
           x.kind = "agentThought" => x.text = y.text /\ x.id = y.id /\ x.streaming = y.streaming,
           x.kind = "toolCall" => x.tool = y.tool /\ x.status = y.status /\ x.approval = y.approval
    PROVE  x = y
<1>1. \A z \in TextBlocks : z = [kind |-> "assistantText", text |-> z.text, streaming |-> z.streaming]
  BY DEF TextBlocks
<1>2. \A z \in ThoughtBlocks :
        z = [kind |-> "agentThought", text |-> z.text, id |-> z.id, streaming |-> z.streaming]
  BY DEF ThoughtBlocks
<1>3. \A z \in ToolBlocks :
        z = [kind |-> "toolCall", tool |-> z.tool, status |-> z.status, approval |-> z.approval]
  BY DEF ToolBlocks
<1>4. CASE x.kind = "assistantText"
  <2>1. x \in TextBlocks /\ y \in TextBlocks
    BY <1>4, BlockKinds
  <2> QED BY <1>1, <1>4, <2>1, Zenon
<1>5. CASE x.kind = "agentThought"
  <2>1. x \in ThoughtBlocks /\ y \in ThoughtBlocks
    BY <1>5, BlockKinds
  <2> QED BY <1>2, <1>5, <2>1, Zenon
<1>6. CASE x.kind = "toolCall"
  <2>1. x \in ToolBlocks /\ y \in ToolBlocks
    BY <1>6, BlockKinds
  <2> QED BY <1>3, <1>6, <2>1, Zenon
<1>7. CASE x.kind = "failureTip"
  BY <1>7, BlockKinds
<1> QED BY <1>4, <1>5, <1>6, <1>7, BlockKinds

-----------------------------------------------------------------------------
(* What a change of the blocks of a turn adds to what they show. A thought    *)
(* that may be continued is the last block, and the thoughts before a last    *)
(* thought are over, so that dropping it leaves none to be continued.         *)
OpenThought(blocks, m) ==
    LastIs(blocks, "agentThought") /\ Last(blocks).id = m /\ Last(blocks).streaming

ThoughtsClosed(blocks) ==
    LastIs(blocks, "agentThought") =>
      \A i \in 1..(Len(blocks) - 1) : blocks[i].kind = "agentThought" => ~blocks[i].streaming

SameText(x, y) ==
    /\ y.kind = x.kind
    /\ x.kind = "assistantText" => y.text = x.text
    /\ x.kind = "agentThought" => y.text = x.text /\ y.id = x.id /\ (y.streaming => x.streaming)

Says(b, c, text) ==
    /\ c \in Seq(Blocks)
    /\ ThoughtsClosed(b) => ThoughtsClosed(c)
    /\ \A m \in Contents : /\ MessageIn(c, m) = MessageIn(b, m) \o Kept(text, Pieces(m))
                           /\ ThoughtIn(c, m) = ThoughtIn(b, m)
                           /\ OpenThought(c, m) => OpenThought(b, m)

LEMMA LastOfSequence ==
    ASSUME NEW T, NEW s \in Seq(T), s # <<>>
    PROVE  /\ Len(s) \in 1..Len(s) /\ Last(s) = s[Len(s)] /\ Last(s) \in T
           /\ Front(s) \in Seq(T) /\ Len(Front(s)) = Len(s) - 1
           /\ \A i \in 1..(Len(s) - 1) : Front(s)[i] = s[i]
           /\ s = Append(Front(s), Last(s))
<1>1. Len(s) \in Nat /\ Len(s) >= 1
  OBVIOUS
<1>2. Last(s) = s[Len(s)] /\ Last(s) \in T /\ Front(s) \in Seq(T) /\ Len(Front(s)) = Len(s) - 1
      /\ \A i \in 1..(Len(s) - 1) : Front(s)[i] = s[i]
  <2>1. Last(s) = s[Len(s)] /\ Last(s) \in T
    BY <1>1 DEF Last
  <2>2. Front(s) \in Seq(T) /\ Len(Front(s)) = Len(s) - 1
    <3>1. 1 \in Int /\ Len(s) - 1 \in Int /\ \A i \in 1..(Len(s) - 1) : s[i] \in T
      BY <1>1
    <3>2. SubSeq(s, 1, Len(s) - 1) \in Seq(T)
          /\ Len(SubSeq(s, 1, Len(s) - 1)) = IF 1 <= Len(s) - 1 THEN (Len(s) - 1) - 1 + 1 ELSE 0
      BY <3>1, SubSeqProperties
    <3>3. \A n \in Nat : n >= 1 => n - 1 = IF 1 <= n - 1 THEN (n - 1) - 1 + 1 ELSE 0
      OBVIOUS
    <3> QED BY <1>1, <3>2, <3>3, Zenon DEF Front
  <2>3. \A i \in 1..(Len(s) - 1) : Front(s)[i] = s[i]
    BY <1>1 DEF Front
  <2> QED BY <2>1, <2>2, <2>3
<1>3. Append(Front(s), Last(s)) \in Seq(T) /\ Len(Append(Front(s), Last(s))) = Len(s)
      /\ \A i \in 1..Len(s) : Append(Front(s), Last(s))[i] = s[i]
  BY <1>1, <1>2
<1>4. s = Append(Front(s), Last(s))
  BY <1>3, SeqEqual
<1> QED BY <1>1, <1>2, <1>4

LEMMA LastOfAppend ==
    ASSUME NEW T, NEW s \in Seq(T), NEW x \in T
    PROVE  /\ Append(s, x) \in Seq(T) /\ Append(s, x) # <<>> /\ Last(Append(s, x)) = x
           /\ Len(Append(s, x)) = Len(s) + 1 /\ Front(Append(s, x)) = s
           /\ \A i \in 1..Len(s) : Append(s, x)[i] = s[i]
<1>1. Append(s, x) \in Seq(T) /\ Len(Append(s, x)) = Len(s) + 1 /\ Append(s, x)[Len(s) + 1] = x
      /\ \A i \in 1..Len(s) : Append(s, x)[i] = s[i]
  OBVIOUS
<1>2. Append(s, x) # <<>>
  BY <1>1
<1>3. Front(Append(s, x)) = s
  BY <1>1 DEF Front
<1>4. Last(Append(s, x)) = x
  BY <1>1 DEF Last
<1> QED BY <1>1, <1>2, <1>3, <1>4

LEMMA ReplaceLast ==
    ASSUME NEW T, NEW s \in Seq(T), s # <<>>, NEW x \in T
    PROVE  ReplaceAt(s, Len(s), x) = Append(Front(s), x) /\ [s EXCEPT ![Len(s)] = x] = Append(Front(s), x)
<1>1. [s EXCEPT ![Len(s)] = x] \in Seq(T) /\ Append(Front(s), x) \in Seq(T)
  BY LastOfSequence
<1>2. Len([s EXCEPT ![Len(s)] = x]) = Len(s) /\ Len(Append(Front(s), x)) = Len(s)
  BY LastOfSequence, LastOfAppend
<1>3. \A i \in 1..Len(s) : [s EXCEPT ![Len(s)] = x][i] = Append(Front(s), x)[i]
  BY LastOfSequence
<1>4. [s EXCEPT ![Len(s)] = x] = Append(Front(s), x)
  BY <1>1, <1>2, <1>3, SeqEqual
<1> QED BY <1>4 DEF ReplaceAt

LEMMA MessageOf ==
    ASSUME NEW s \in Seq(Blocks), NEW m
    PROVE  MessageIn(s, m) \in Seq(Messages \X (1..MaxUpdates)) /\ MessageIn(s, m) \o <<>> = MessageIn(s, m)
<1>1. MessageIn(s, m) \in Seq(Messages \X (1..MaxUpdates))
  BY MessageInType
<1> QED BY <1>1

LEMMA Restyled ==
    ASSUME NEW b \in Seq(Blocks), NEW c \in Seq(Blocks), Len(c) = Len(b),
           \A i \in 1..Len(b) : SameText(b[i], c[i])
    PROVE  Says(b, c, <<>>)
<1>1. DOMAIN b = 1..Len(b) /\ DOMAIN c = 1..Len(b) /\ \A i \in 1..Len(b) : b[i] \in Blocks /\ c[i] \in Blocks
  OBVIOUS
<1>2. ASSUME NEW m \in Contents
      PROVE MessageIn(c, m) = MessageIn(b, m) /\ ThoughtIn(c, m) = ThoughtIn(b, m)
  <2>1. \A i \in 1..Len(b) : MessagePart(b[i], m) = MessagePart(c[i], m) /\ ThoughtPart(b[i], m) = ThoughtPart(c[i], m)
    BY <1>1 DEF SameText, MessagePart, ThoughtPart
  <2>2. /\ [i \in DOMAIN c |-> MessagePart(c[i], m)] = [i \in DOMAIN b |-> MessagePart(b[i], m)]
        /\ [i \in DOMAIN c |-> ThoughtPart(c[i], m)] = [i \in DOMAIN b |-> ThoughtPart(b[i], m)]
    BY <1>1, <2>1, Zenon
  <2> QED BY <2>2, Zenon DEF MessageIn, ThoughtIn
<1>3. ASSUME NEW kind, LastIs(c, kind)
      PROVE LastIs(b, kind) /\ Len(b) \in 1..Len(b) /\ Last(b) = b[Len(b)] /\ Last(c) = c[Len(b)]
            /\ Last(b).kind = kind
  <2>1. c # <<>> /\ Len(c) # 0 /\ b # <<>>
    BY <1>3 DEF LastIs
  <2>2. Last(b) = b[Len(b)] /\ Last(c) = c[Len(b)] /\ Len(b) \in 1..Len(b)
    BY <2>1 DEF Last
  <2> QED BY <1>3, <2>1, <2>2 DEF LastIs, SameText
<1>4. ASSUME NEW m \in Contents, OpenThought(c, m)  PROVE OpenThought(b, m)
  <2>1. LastIs(c, "agentThought")
    BY <1>4 DEF OpenThought
  <2> QED BY <1>3, <1>4, <2>1 DEF OpenThought, SameText
<1>5. ASSUME ThoughtsClosed(b)  PROVE ThoughtsClosed(c)
  <2> SUFFICES ASSUME LastIs(c, "agentThought"), NEW i \in 1..(Len(c) - 1), c[i].kind = "agentThought"
               PROVE  ~c[i].streaming
    BY DEF ThoughtsClosed
  <2>1. LastIs(b, "agentThought") /\ i \in 1..(Len(b) - 1) /\ i \in 1..Len(b)
    BY <1>3
  <2> QED BY <1>5, <2>1 DEF ThoughtsClosed, SameText
<1> QED BY <1>2, <1>4, <1>5, MessageOf, KeptNothing DEF Says

LEMMA SaysNothing ==
    ASSUME NEW b \in Seq(Blocks)
    PROVE  Says(b, b, <<>>)
BY MessageOf, KeptNothing DEF Says

LEMMA SaysThenRestyled ==
    ASSUME NEW b \in Seq(Blocks), NEW c, NEW d, NEW text, Says(b, c, text), Says(c, d, <<>>)
    PROVE  Says(b, d, text)
<1>1. c \in Seq(Blocks)
  BY DEF Says
<1>2. ASSUME NEW m \in Contents  PROVE MessageIn(d, m) = MessageIn(b, m) \o Kept(text, Pieces(m))
  <2>0. Kept(<<>>, Pieces(m)) = <<>>
    BY KeptNothing
  <2>1. MessageIn(d, m) = MessageIn(c, m) \o <<>> /\ MessageIn(c, m) = MessageIn(b, m) \o Kept(text, Pieces(m))
    BY <2>0, Zenon DEF Says
  <2> QED BY <1>1, <2>1, MessageOf, Zenon
<1> QED BY <1>2 DEF Says

LEMMA RestyledThenSays ==
    ASSUME NEW b \in Seq(Blocks), NEW c, NEW d, NEW text, Says(b, c, <<>>), Says(c, d, text)
    PROVE  Says(b, d, text)
<1>1. ASSUME NEW m \in Contents  PROVE MessageIn(d, m) = MessageIn(b, m) \o Kept(text, Pieces(m))
  <2>0. Kept(<<>>, Pieces(m)) = <<>>
    BY KeptNothing
  <2>1. MessageIn(d, m) = MessageIn(c, m) \o Kept(text, Pieces(m)) /\ MessageIn(c, m) = MessageIn(b, m) \o <<>>
    BY <2>0, Zenon DEF Says
  <2> QED BY <2>1, MessageOf, Zenon
<1> QED BY <1>1 DEF Says

LEMMA ThoughtOf ==
    ASSUME NEW s \in Seq(Blocks), NEW m
    PROVE  ThoughtIn(s, m) \in Seq(ThoughtTexts) /\ ThoughtIn(s, m) \o <<>> = ThoughtIn(s, m)
<1>1. ThoughtIn(s, m) \in Seq(ThoughtTexts)
  BY ThoughtInType
<1> QED BY <1>1

(* A block that is no thought is added. *)
LEMMA BlockAppended ==
    ASSUME NEW b \in Seq(Blocks), NEW x \in Blocks, x.kind # "agentThought", NEW text,
           \A m : MessagePart(x, m) = Kept(text, Pieces(m))
    PROVE  Says(b, Append(b, x), text)
<1>1. Append(b, x) \in Seq(Blocks) /\ Last(Append(b, x)) = x /\ ~LastIs(Append(b, x), "agentThought")
  BY LastOfAppend DEF LastIs
<1>2. ASSUME NEW m \in Contents
      PROVE  /\ MessageIn(Append(b, x), m) = MessageIn(b, m) \o Kept(text, Pieces(m))
             /\ ThoughtIn(Append(b, x), m) = ThoughtIn(b, m)
  <2>1. MessageIn(Append(b, x), m) = MessageIn(b, m) \o MessagePart(x, m)
    BY MessageInAppend
  <2>2. ThoughtIn(Append(b, x), m) = ThoughtIn(b, m) \o ThoughtPart(x, m) /\ ThoughtPart(x, m) = <<>>
    BY ThoughtInAppend DEF ThoughtPart
  <2> QED BY <2>1, <2>2, ThoughtOf, Zenon
<1> QED BY <1>1, <1>2 DEF Says, OpenThought, ThoughtsClosed

LEMMA TextAppended ==
    ASSUME NEW b \in Seq(Blocks), NEW text \in MessageTexts
    PROVE  Says(b, Append(b, TextBlock(text)), text)
<1>1. TextBlock(text) \in Blocks /\ TextBlock(text).kind = "assistantText" /\ TextBlock(text).text = text
  BY BlockTypes DEF TextBlock
<1>2. \A m : MessagePart(TextBlock(text), m) = Kept(text, Pieces(m))
  BY <1>1 DEF MessagePart
<1> QED BY <1>1, <1>2, BlockAppended

LEMMA OtherAppended ==
    ASSUME NEW b \in Seq(Blocks), NEW x \in Blocks, x.kind \in {"toolCall", "failureTip"}
    PROVE  Says(b, Append(b, x), <<>>)
<1>1. \A m : MessagePart(x, m) = Kept(<<>>, Pieces(m))
  BY KeptNothing DEF MessagePart
<1> QED BY <1>1, BlockAppended

LEMMA Regrouped ==
    ASSUME NEW T, NEW f \in Seq(T), NEW k \in Seq(T), NEW l \in Seq(T)
    PROVE  (f \o k) \o l = f \o (k \o l)
BY ConcatAssociative

LEMMA KeptGrows ==
    ASSUME NEW T, NEW f \in Seq(T), NEW old \in Seq(T), NEW new \in Seq(T), NEW S
    PROVE  f \o Kept(old \o new, S) = (f \o Kept(old, S)) \o Kept(new, S)
<1>1. PICK k \in Seq(T), l \in Seq(T) : k = Kept(old, S) /\ l = Kept(new, S)
  BY KeptType
<1>2. Kept(old \o new, S) = Kept(old, S) \o Kept(new, S)
  BY KeptConcat, SMTT(30)
<1>3. (f \o k) \o l = f \o (k \o l)
  BY Regrouped, SMTT(30)
<1> QED BY <1>1, <1>2, <1>3, Zenon

LEMMA TextGrows ==
    ASSUME NEW a \in Seq(Blocks), NEW x \in Blocks, NEW y \in Blocks, NEW text \in MessageTexts,
           x.kind = "assistantText", y.kind = "assistantText", y.text = x.text \o text
    PROVE  Says(Append(a, x), Append(a, y), text)
<1>1. x.text \in Seq(Messages \X (1..MaxUpdates)) /\ text \in Seq(Messages \X (1..MaxUpdates))
  BY BlockFields DEF MessageTexts
<1>3. ASSUME NEW m \in Contents
      PROVE  MessageIn(Append(a, y), m) = MessageIn(Append(a, x), m) \o Kept(text, Pieces(m))
  <2>1. MessageIn(a, m) \in Seq(Messages \X (1..MaxUpdates))
    BY MessageInType
  <2>2. MessagePart(x, m) = Kept(x.text, Pieces(m)) /\ MessagePart(y, m) = Kept(x.text \o text, Pieces(m))
    BY DEF MessagePart
  <2>3. MessageIn(Append(a, x), m) = MessageIn(a, m) \o MessagePart(x, m)
    BY MessageInAppend
  <2>4. MessageIn(Append(a, y), m) = MessageIn(a, m) \o MessagePart(y, m)
    BY MessageInAppend
  <2>5. PICK f \in Seq(Messages \X (1..MaxUpdates)), old \in Seq(Messages \X (1..MaxUpdates)),
             new \in Seq(Messages \X (1..MaxUpdates)) :
          f = MessageIn(a, m) /\ old = x.text /\ new = text
    BY <1>1, <2>1
  <2>6. PICK S : S = Pieces(m)
    OBVIOUS
  <2>7. PICK T : T = Messages \X (1..MaxUpdates)
    OBVIOUS
  <2>8. f \in Seq(T) /\ old \in Seq(T) /\ new \in Seq(T)
    BY <2>5, <2>7
  <2>9. f \o Kept(old \o new, S) = (f \o Kept(old, S)) \o Kept(new, S)
    BY <2>8, KeptGrows
  <2> QED BY <2>2, <2>3, <2>4, <2>5, <2>6, <2>9, Zenon
<1>4. ASSUME NEW m \in Contents
      PROVE  ThoughtIn(Append(a, y), m) = ThoughtIn(Append(a, x), m)
  <2>1. ThoughtPart(x, m) = <<>> /\ ThoughtPart(y, m) = <<>>
    BY DEF ThoughtPart
  <2>2. ThoughtIn(Append(a, y), m) = ThoughtIn(a, m) \o ThoughtPart(y, m)
    BY ThoughtInAppend
  <2>3. ThoughtIn(Append(a, x), m) = ThoughtIn(a, m) \o ThoughtPart(x, m)
    BY ThoughtInAppend
  <2> QED BY <2>1, <2>2, <2>3, Zenon
<1>5. Append(a, y) \in Seq(Blocks) /\ ~LastIs(Append(a, y), "agentThought")
  BY LastOfAppend DEF LastIs
<1> QED BY <1>3, <1>4, <1>5 DEF Says, OpenThought, ThoughtsClosed

LEMMA TextExtended ==
    ASSUME NEW b \in Seq(Blocks), LastIs(b, "assistantText"), NEW text \in MessageTexts
    PROVE  Says(b, ExtendLast(b, text), text)
<1>1. b # <<>> /\ Last(b).kind = "assistantText"
  BY DEF LastIs
<1>2. PICK x \in Blocks : x = Last(b) /\ x = b[Len(b)] /\ x.kind = "assistantText"
  BY <1>1, LastOfSequence
<1>3. PICK a \in Seq(Blocks) : a = Front(b) /\ b = Append(a, x)
  BY <1>1, <1>2, LastOfSequence
<1>4. PICK y \in Blocks : y = [x EXCEPT !.text = @ \o text]
  BY <1>2, TextChanges
<1>5. y.kind = "assistantText" /\ y.text = x.text \o text
  BY <1>2, <1>4, TextChanges
<1>6. Len(b) \in 1..Len(b)
  BY <1>1, LastOfSequence
<1>7. ExtendLast(b, text) = [b EXCEPT ![Len(b)] = y]
  BY <1>2, <1>4, <1>6, Zenon DEF ExtendLast
<1>8. [b EXCEPT ![Len(b)] = y] = Append(a, y)
  <2>1. [b EXCEPT ![Len(b)] = y] = Append(Front(b), y)
    BY <1>1, ReplaceLast
  <2> QED BY <1>3, <2>1, Zenon
<1>9. Says(Append(a, x), Append(a, y), text)
  BY <1>2, <1>5, TextGrows
<1> QED BY <1>3, <1>7, <1>8, <1>9, Zenon

(* Blocks are closed, one by one. *)
LEMMA ClosingText ==
    ASSUME NEW b \in Seq(Blocks)
    PROVE  /\ CloseStreamingText(b) \in Seq(Blocks) /\ Len(CloseStreamingText(b)) = Len(b)
           /\ \A i \in 1..Len(b) :
                /\ SameText(b[i], CloseStreamingText(b)[i])
                /\ b[i].kind \in {"assistantText", "agentThought"} =>
                     CloseStreamingText(b)[i] = [b[i] EXCEPT !.streaming = FALSE]
                       /\ CloseStreamingText(b)[i].streaming = FALSE
                /\ b[i].kind \in {"toolCall", "failureTip"} => CloseStreamingText(b)[i] = b[i]
           /\ Says(b, CloseStreamingText(b), <<>>)
<1> DEFINE C(x) == IF x.kind \in {"assistantText", "agentThought"} THEN [x EXCEPT !.streaming = FALSE] ELSE x
<1>1. ASSUME NEW x \in Blocks
      PROVE  C(x) \in Blocks /\ SameText(x, C(x))
  <2>1. CASE x.kind \in {"assistantText", "agentThought"}
    BY <2>1, ClosedBlock, Zenon DEF SameText
  <2>2. CASE x.kind \notin {"assistantText", "agentThought"}
    BY <2>2 DEF SameText
  <2> QED BY <2>1, <2>2
<1>2. CloseStreamingText(b) = [i \in 1..Len(b) |-> C(b[i])]
  BY DEF CloseStreamingText
<1>3. \A i \in 1..Len(b) : b[i] \in Blocks
  OBVIOUS
<1>4. \A x \in Blocks : x.kind \in {"assistantText", "agentThought"} => C(x) = [x EXCEPT !.streaming = FALSE] /\ C(x).streaming = FALSE
  BY ClosedBlock
<1>5. \A x \in Blocks : x.kind \in {"toolCall", "failureTip"} => C(x) = x
  OBVIOUS
<1> HIDE DEF C
<1>6. CloseStreamingText(b) \in Seq(Blocks) /\ Len(CloseStreamingText(b)) = Len(b)
      /\ \A i \in 1..Len(b) : CloseStreamingText(b)[i] = C(b[i])
  <2>1. [i \in 1..Len(b) |-> C(b[i])] \in [1..Len(b) -> Blocks]
    BY <1>1, <1>3
  <2> QED BY <1>2, <2>1, IsASeq
<1>7. \A i \in 1..Len(b) : SameText(b[i], CloseStreamingText(b)[i])
  BY <1>1, <1>3, <1>6
<1>8. Says(b, CloseStreamingText(b), <<>>)
  BY <1>6, <1>7, Restyled
<1> QED BY <1>3, <1>4, <1>5, <1>6, <1>7, <1>8

LEMMA ToolEndType ==
    ASSUME NEW status \in ToolStatuses, NEW end \in {"completed", "failed", "cancelled"}
    PROVE  /\ ToolEnd(status, end) \in ToolStatuses \ OpenStatus
           /\ status \notin OpenStatus => ToolEnd(status, end) = status
BY DEF ToolEnd, ToolStatuses, OpenStatus

LEMMA ClosingTurn ==
    ASSUME NEW b \in Seq(Blocks), NEW end \in {"completed", "failed", "cancelled"}
    PROVE  /\ CloseTurnBlocks(b, end) \in Seq(Blocks) /\ Len(CloseTurnBlocks(b, end)) = Len(b)
           /\ \A i \in 1..Len(b) :
                /\ b[i].kind = "toolCall" =>
                     CloseTurnBlocks(b, end)[i] = [b[i] EXCEPT !.status = ToolEnd(b[i].status, end), !.approval = None]
                /\ b[i].kind # "toolCall" => CloseTurnBlocks(b, end)[i] = CloseStreamingText(b)[i]
           /\ Says(b, CloseTurnBlocks(b, end), <<>>)
<1> DEFINE C(i) == IF b[i].kind = "toolCall"
                   THEN [b[i] EXCEPT !.status = ToolEnd(b[i].status, end), !.approval = None]
                   ELSE CloseStreamingText(b)[i]
<1>1. ASSUME NEW i \in 1..Len(b)
      PROVE  C(i) \in Blocks /\ SameText(b[i], C(i))
  <2>0. b[i] \in Blocks
    OBVIOUS
  <2>1. CASE b[i].kind = "toolCall"
    <3>1. PICK status \in ToolStatuses : status = ToolEnd(b[i].status, end)
      BY <2>0, <2>1, BlockFields, ToolEndType
    <3>2. None \in BlockApprovals
      BY DEF BlockApprovals
    <3>0. PICK x \in Blocks : x = b[i]
      BY <2>0
    <3>3. LET y == [x EXCEPT !.status = status, !.approval = None] IN y \in Blocks /\ y.kind = "toolCall"
      <4>1. PICK approval \in BlockApprovals : approval = None
        BY <3>2
      <4>2. x.kind = "toolCall"
        BY <2>1, <3>0
      <4>3. LET y == [x EXCEPT !.status = status, !.approval = approval] IN y \in Blocks /\ y.kind = "toolCall"
        <5>1. x \in ToolBlocks
          BY <4>2, BlockKinds
        <5>2. LET y == [x EXCEPT !.status = status, !.approval = approval] IN y \in ToolBlocks /\ y.kind = "toolCall"
          BY <5>1 DEF ToolBlocks
        <5> QED BY <5>2 DEF Blocks
      <4> QED BY <4>1, <4>3, Zenon
    <3>4. C(i) = [b[i] EXCEPT !.status = status, !.approval = None]
      BY <2>1, <3>1, Zenon
    <3>5. C(i) \in Blocks /\ C(i).kind = "toolCall"
      BY <3>0, <3>3, <3>4
    <3> QED BY <2>1, <3>5 DEF SameText
  <2>2. CASE b[i].kind # "toolCall"
    <3>1. C(i) = CloseStreamingText(b)[i]
      BY <2>2
    <3>2. CloseStreamingText(b)[i] \in Blocks /\ SameText(b[i], CloseStreamingText(b)[i])
      <4>1. CloseStreamingText(b) \in Seq(Blocks) /\ Len(CloseStreamingText(b)) = Len(b)
        BY ClosingText
      <4>2. SameText(b[i], CloseStreamingText(b)[i])
        BY ClosingText
      <4> QED BY <4>1, <4>2
    <3> QED BY <3>1, <3>2, Zenon
  <2> QED BY <2>1, <2>2
<1>2. CloseTurnBlocks(b, end) = [i \in 1..Len(b) |-> C(i)]
  BY DEF CloseTurnBlocks
<1>3. \A i \in 1..Len(b) :
                /\ b[i].kind = "toolCall" =>
                     C(i) = [b[i] EXCEPT !.status = ToolEnd(b[i].status, end), !.approval = None]
                /\ b[i].kind # "toolCall" => C(i) = CloseStreamingText(b)[i]
  OBVIOUS
<1> HIDE DEF C
<1>6. CloseTurnBlocks(b, end) \in Seq(Blocks) /\ Len(CloseTurnBlocks(b, end)) = Len(b)
      /\ \A i \in 1..Len(b) : CloseTurnBlocks(b, end)[i] = C(i)
  <2>1. [i \in 1..Len(b) |-> C(i)] \in [1..Len(b) -> Blocks]
    BY <1>1
  <2> QED BY <1>2, <2>1, IsASeq
<1>7. \A i \in 1..Len(b) : SameText(b[i], CloseTurnBlocks(b, end)[i])
  BY <1>1, <1>6
<1>8. Says(b, CloseTurnBlocks(b, end), <<>>)
  BY <1>6, <1>7, Restyled
<1> QED BY <1>3, <1>6, <1>8, Zenon

(* A tool call changes. *)
LEMMA ToolReplaced ==
    ASSUME NEW b \in Seq(Blocks), NEW i \in 1..Len(b), b[i].kind = "toolCall",
           NEW y \in Blocks, y.kind = "toolCall"
    PROVE  [b EXCEPT ![i] = y] \in Seq(Blocks) /\ Says(b, [b EXCEPT ![i] = y], <<>>)
<1> DEFINE c == [b EXCEPT ![i] = y]
<1>1. c \in Seq(Blocks) /\ Len(c) = Len(b) /\ \A j \in 1..Len(b) : c[j] = IF j = i THEN y ELSE b[j]
  OBVIOUS
<1> HIDE DEF c
<1>2. \A j \in 1..Len(b) : SameText(b[j], c[j])
  BY <1>1 DEF SameText
<1>3. Says(b, c, <<>>)
  BY <1>1, <1>2, Restyled
<1> QED BY <1>1, <1>3 DEF c

-----------------------------------------------------------------------------
(* Where FindTool finds a tool call.                                          *)
LEMMA ToolFound ==
    ASSUME NEW b \in Seq(Blocks), NEW tool
    PROVE  /\ FindTool(b, tool) \in 0..Len(b)
           /\ FindTool(b, tool) # 0 =>
                b[FindTool(b, tool)].kind = "toolCall" /\ b[FindTool(b, tool)].tool = tool
           /\ \A i \in 1..Len(b) : b[i].kind = "toolCall" /\ b[i].tool = tool => FindTool(b, tool) # 0
<1> DEFINE I == {i \in 1..Len(b) : b[i].kind = "toolCall" /\ b[i].tool = tool}
<1>1. FindTool(b, tool) = IF I # {} THEN Min(I) ELSE 0
  BY DEF FindTool, SelectInSeq
<1>2. ASSUME I # {}  PROVE Min(I) \in I
  <2>1. I \subseteq Nat
    OBVIOUS
  <2>2. \E x \in I : \A y \in I : x <= y
    BY <1>2, <2>1, LeastNumber
  <2> HIDE DEF I
  <2> QED BY <2>2 DEF Min
<1>3. \A i \in I : i \in 1..Len(b) /\ i # 0 /\ b[i].kind = "toolCall" /\ b[i].tool = tool
  OBVIOUS
<1>4. \A i \in 1..Len(b) : b[i].kind = "toolCall" /\ b[i].tool = tool => i \in I
  OBVIOUS
<1>5. Len(b) \in Nat
  OBVIOUS
<1> HIDE DEF I
<1>6. CASE I = {}
  BY <1>1, <1>4, <1>5, <1>6
<1>7. CASE I # {}
  <2>1. FindTool(b, tool) \in I
    BY <1>1, <1>2, <1>7
  <2> QED BY <1>3, <2>1
<1> QED BY <1>6, <1>7

LEMMA SameToolFound ==
    ASSUME NEW b \in Seq(Blocks), NEW c \in Seq(Blocks), NEW tool, Len(b) = Len(c),
           \A i \in 1..Len(b) :
             b[i].kind = "toolCall" /\ b[i].tool = tool <=> c[i].kind = "toolCall" /\ c[i].tool = tool
    PROVE  FindTool(b, tool) = FindTool(c, tool)
<1>1. {i \in 1..Len(b) : b[i].kind = "toolCall" /\ b[i].tool = tool}
        = {i \in 1..Len(c) : c[i].kind = "toolCall" /\ c[i].tool = tool}
  OBVIOUS
<1> QED BY <1>1, Zenon DEF FindTool, SelectInSeq

(* What an event leaves of a turn. *)
TurnStatuses == {"sending", "running", "completed", "failed", "cancelled"}

(* u is t after an event other than a thought, which says the text. *)
Tells(t, u, text) ==
    u \in ConversationTurns /\ u.user = t.user /\ u.lastEvent = t.lastEvent /\ Says(t.blocks, u.blocks, text)

LEMMA EndTells ==
    ASSUME NEW t \in ConversationTurns, NEW end \in {"completed", "failed", "cancelled"}
    PROVE  Tells(t, End(t, end), <<>>) /\ End(t, end).blocks = CloseTurnBlocks(t.blocks, end)
<1>1. PICK b \in Seq(Blocks) : b = CloseTurnBlocks(t.blocks, end) /\ Says(t.blocks, b, <<>>)
  BY BlocksOfTurns, ClosingTurn
<1>2. End(t, end) = [t EXCEPT !.status = end, !.blocks = b]
  BY <1>1, Zenon DEF End
<1>3. end \in TurnStatuses
  BY DEF TurnStatuses
<1>4. LET u == [t EXCEPT !.status = end, !.blocks = b]
      IN u \in ConversationTurns /\ u.user = t.user /\ u.blocks = b /\ u.lastEvent = t.lastEvent
  BY <1>3 DEF ConversationTurns, TurnStatuses
<1> QED BY <1>1, <1>2, <1>4 DEF Tells

LEMMA WithToolTells ==
    ASSUME NEW t \in ConversationTurns, NEW tool \in Tools
    PROVE  LET u == WithTool(t, tool)
               i == FindTool(u.blocks, tool)
           IN /\ Tells(t, u, <<>>)
              /\ i \in 1..Len(u.blocks) /\ u.blocks[i].kind = "toolCall" /\ u.blocks[i].tool = tool
              /\ u.blocks = IF FindTool(t.blocks, tool) # 0 THEN t.blocks
                            ELSE Append(CloseStreamingText(t.blocks), ToolBlock(tool))
<1>1. t.blocks \in Seq(Blocks)
  BY BlocksOfTurns
<1>2. PICK b : b = IF FindTool(t.blocks, tool) # 0 THEN t.blocks
                   ELSE Append(CloseStreamingText(t.blocks), ToolBlock(tool))
  OBVIOUS
<1>3. b \in Seq(Blocks) /\ Says(t.blocks, b, <<>>)
      /\ FindTool(b, tool) \in 1..Len(b) /\ b[FindTool(b, tool)].kind = "toolCall" /\ b[FindTool(b, tool)].tool = tool
  <2>1. CASE FindTool(t.blocks, tool) # 0
    <3>1. b = t.blocks
      BY <1>2, <2>1
    <3>2. FindTool(b, tool) \in 0..Len(b) /\ FindTool(b, tool) # 0
      BY <1>1, <2>1, <3>1, ToolFound
    <3>3. Says(b, b, <<>>)
      BY <1>1, <3>1, SaysNothing
    <3> QED BY <1>1, <3>1, <3>2, <3>3, ToolFound
  <2>2. CASE FindTool(t.blocks, tool) = 0
    <3>1. PICK c \in Seq(Blocks) : c = CloseStreamingText(t.blocks) /\ Says(t.blocks, c, <<>>)
      BY <1>1, ClosingText
    <3>2. PICK x \in Blocks : x = ToolBlock(tool) /\ x.kind = "toolCall" /\ x.tool = tool
      BY BlockTypes DEF ToolBlock
    <3>3. b = Append(c, x)
      BY <1>2, <2>2, <3>1, <3>2
    <3>4. Says(c, b, <<>>)
      BY <3>2, <3>3, OtherAppended
    <3>5. b \in Seq(Blocks) /\ Len(b) \in 1..Len(b) /\ b[Len(b)] = x
      BY <3>3
    <3>6. FindTool(b, tool) # 0
      BY <3>2, <3>5, ToolFound
    <3>7. Says(t.blocks, b, <<>>)
      BY <1>1, <3>1, <3>4, SaysThenRestyled
    <3>8. FindTool(b, tool) \in 0..Len(b) /\ b[FindTool(b, tool)].kind = "toolCall" /\ b[FindTool(b, tool)].tool = tool
      BY <3>5, <3>6, ToolFound
    <3> QED BY <3>5, <3>6, <3>7, <3>8
  <2> QED BY <2>1, <2>2
<1>4. WithTool(t, tool) = [t EXCEPT !.status = "running", !.blocks = b]
  BY <1>2, Zenon DEF WithTool
<1>5. "running" \in TurnStatuses
  BY DEF TurnStatuses
<1>6. LET u == [t EXCEPT !.status = "running", !.blocks = b]
      IN u \in ConversationTurns /\ u.user = t.user /\ u.blocks = b /\ u.lastEvent = t.lastEvent
  BY <1>3 DEF ConversationTurns
<1> QED BY <1>2, <1>3, <1>4, <1>6 DEF Tells

WithStatus(t, i, status) == [t EXCEPT !.blocks[i].status = status]
WithApproval(t, i, status, approval) ==
    [t EXCEPT !.blocks[i].status = status, !.blocks[i].approval = approval]

LEMMA ToolChangeTells ==
    ASSUME NEW t \in ConversationTurns, NEW i \in 1..Len(t.blocks), t.blocks[i].kind = "toolCall",
           NEW status \in ToolStatuses, NEW approval \in BlockApprovals
    PROVE  /\ Tells(t, WithStatus(t, i, status), <<>>)
           /\ WithStatus(t, i, status).blocks = [t.blocks EXCEPT ![i] = [@ EXCEPT !.status = status]]
           /\ Tells(t, WithApproval(t, i, status, approval), <<>>)
           /\ WithApproval(t, i, status, approval).blocks
                = [t.blocks EXCEPT ![i] = [@ EXCEPT !.status = status, !.approval = approval]]
<1>1. PICK b \in Seq(Blocks) : b = t.blocks
  BY BlocksOfTurns
<1>2. PICK x \in Blocks : x = b[i] /\ x.kind = "toolCall"
  BY <1>1
<1>3. x \in ToolBlocks
  BY <1>2, BlockKinds
<1>4. PICK y : y = [x EXCEPT !.status = status]
  OBVIOUS
<1>5. PICK z : z = [x EXCEPT !.status = status, !.approval = approval]
  OBVIOUS
<1>6. y \in ToolBlocks /\ z \in ToolBlocks /\ y.kind = "toolCall" /\ z.kind = "toolCall"
  BY <1>3, <1>4, <1>5 DEF ToolBlocks
<1>7. y \in Blocks /\ z \in Blocks
  BY <1>6 DEF Blocks
<1>8. i \in 1..Len(b) /\ b[i].kind = "toolCall"
  BY <1>1, <1>2
<1>9. PICK c \in Seq(Blocks) : c = [b EXCEPT ![i] = y] /\ Says(b, c, <<>>)
  BY <1>6, <1>7, <1>8, ToolReplaced
<1>10. PICK d \in Seq(Blocks) : d = [b EXCEPT ![i] = z] /\ Says(b, d, <<>>)
  BY <1>6, <1>7, <1>8, ToolReplaced
<1>11. LET u == [t EXCEPT !.blocks = c]
           v == [t EXCEPT !.blocks = d]
       IN /\ u \in ConversationTurns /\ u.user = t.user /\ u.blocks = c /\ u.lastEvent = t.lastEvent
          /\ v \in ConversationTurns /\ v.user = t.user /\ v.blocks = d /\ v.lastEvent = t.lastEvent
  BY DEF ConversationTurns
<1>12. WithStatus(t, i, status) = [t EXCEPT !.blocks = c]
  BY <1>1, <1>2, <1>4, <1>8, <1>9 DEF ConversationTurns, WithStatus
<1>13. WithApproval(t, i, status, approval) = [t EXCEPT !.blocks = d]
  BY <1>1, <1>2, <1>5, <1>8, <1>10 DEF ConversationTurns, WithApproval
<1>14. c = [b EXCEPT ![i] = [@ EXCEPT !.status = status]]
  BY <1>2, <1>4, <1>8, <1>9, Zenon
<1>15. d = [b EXCEPT ![i] = [@ EXCEPT !.status = status, !.approval = approval]]
  BY <1>2, <1>5, <1>8, <1>10, Zenon
<1> QED BY <1>1, <1>9, <1>10, <1>11, <1>12, <1>13, <1>14, <1>15 DEF Tells

LEMMA TellsThen ==
    ASSUME NEW t, NEW u, NEW v, NEW text, t.blocks \in Seq(Blocks), Tells(t, u, text), Tells(u, v, <<>>)
    PROVE  Tells(t, v, text)
<1>1. Says(t.blocks, v.blocks, text)
  BY SaysThenRestyled DEF Tells
<1> QED BY <1>1 DEF Tells

(* The events that say nothing. *)
QuietEvents ==
    {RunStarted, RunFinished, RunFailed("failed"), RunFailed("cancelled")}
      \cup {ToolRequested(tool) : tool \in Tools} \cup {ToolProgress(tool) : tool \in Tools}
      \cup {ToolCompleted(tool, "completed") : tool \in Tools} \cup {ToolCompleted(tool, "failed") : tool \in Tools}
      \cup {ApprovalRequested(tool, tool) : tool \in Tools}

LEMMA ApplyQuiet ==
    ASSUME NEW t \in ConversationTurns, NEW e \in QuietEvents
    PROVE  Tells(t, Apply(t, e), <<>>)
<1>0. t.blocks \in Seq(Blocks)
  BY BlocksOfTurns
<1>1. CASE e = RunStarted
  <2>1. Apply(t, e) = [t EXCEPT !.status = "running"]
    BY <1>1 DEF Apply, RunStarted
  <2>2. LET u == [t EXCEPT !.status = "running"]
        IN u \in ConversationTurns /\ u.user = t.user /\ u.blocks = t.blocks /\ u.lastEvent = t.lastEvent
    BY DEF ConversationTurns
  <2> QED BY <1>0, <2>1, <2>2, SaysNothing DEF Tells
<1>2. CASE e = RunFinished
  <2>1. Apply(t, e) = End(t, "completed")
    BY <1>2 DEF Apply, RunFinished
  <2> QED BY <2>1, EndTells
<1>3. ASSUME NEW status \in {"failed", "cancelled"}, e = RunFailed(status)
      PROVE  Tells(t, Apply(t, e), <<>>)
  <2>1. PICK u \in ConversationTurns : u = End(t, status) /\ Tells(t, u, <<>>)
    <3>1. Tells(t, End(t, status), <<>>)
      BY EndTells
    <3> QED BY <3>1 DEF Tells
  <2>2. Apply(t, e) = [u EXCEPT !.blocks = Append(@, FailureTip)]
    BY <1>3, <2>1 DEF Apply, RunFailed
  <2>3. PICK b \in Seq(Blocks) : b = Append(u.blocks, FailureTip) /\ Says(u.blocks, b, <<>>)
    <3>1. u.blocks \in Seq(Blocks) /\ FailureTip \in Blocks /\ FailureTip.kind = "failureTip"
      BY BlocksOfTurns, BlockTypes DEF FailureTip
    <3>2. Says(u.blocks, Append(u.blocks, FailureTip), <<>>)
      BY <3>1, OtherAppended
    <3> QED BY <3>2 DEF Says
  <2>4. Apply(t, e) = [u EXCEPT !.blocks = b]
    BY <2>2, <2>3, Zenon
  <2>5. LET v == [u EXCEPT !.blocks = b]
        IN v \in ConversationTurns /\ v.user = u.user /\ v.blocks = b /\ v.lastEvent = u.lastEvent
    BY DEF ConversationTurns
  <2>6. Tells(u, Apply(t, e), <<>>)
    BY <2>3, <2>4, <2>5 DEF Tells
  <2> QED BY <1>0, <2>1, <2>6, TellsThen
<1>4. ASSUME NEW tool \in Tools, e = ToolRequested(tool)
      PROVE  Tells(t, Apply(t, e), <<>>)
  <2>1. Apply(t, e) = WithTool(t, tool)
    BY <1>4 DEF Apply, ToolRequested
  <2> QED BY <2>1, WithToolTells
<1>5. ASSUME NEW tool \in Tools, e \in {ToolProgress(tool), ApprovalRequested(tool, tool)}
      PROVE  Tells(t, Apply(t, e), <<>>)
  <2>1. PICK u, i : u = WithTool(t, tool) /\ i = FindTool(u.blocks, tool)
    OBVIOUS
  <2>2. Tells(t, u, <<>>) /\ i \in 1..Len(u.blocks) /\ u.blocks[i].kind = "toolCall"
    BY <2>1, WithToolTells
  <2>3. u \in ConversationTurns
    BY <2>2 DEF Tells
  <2>4. CASE e = ToolProgress(tool)
    <3>1. Apply(t, e) = WithStatus(u, i, "running")
      BY <2>1, <2>4 DEF Apply, ToolProgress, WithStatus
    <3>2. PICK status \in ToolStatuses, approval \in BlockApprovals : status = "running"
      BY DEF ToolStatuses, OpenStatus, BlockApprovals
    <3>4. Tells(u, WithStatus(u, i, status), <<>>)
      BY <2>2, <2>3, ToolChangeTells
    <3>3. Tells(u, Apply(t, e), <<>>)
      BY <3>1, <3>2, <3>4, Zenon
    <3> QED BY <1>0, <2>2, <3>3, TellsThen
  <2>5. CASE e = ApprovalRequested(tool, tool)
    <3>1. PICK approval \in BlockApprovals : approval = [id |-> tool, status |-> "pending"]
      BY DEF BlockApprovals
    <3>2. Apply(t, e) = WithApproval(u, i, "approvalRequired", approval)
      BY <2>1, <2>5, <3>1 DEF Apply, ApprovalRequested, WithApproval
    <3>3. PICK status \in ToolStatuses : status = "approvalRequired"
      BY DEF ToolStatuses, OpenStatus
    <3>5. Tells(u, WithApproval(u, i, status, approval), <<>>)
      BY <2>2, <2>3, ToolChangeTells
    <3>4. Tells(u, Apply(t, e), <<>>)
      BY <3>2, <3>3, <3>5, Zenon
    <3> QED BY <1>0, <2>2, <3>4, TellsThen
  <2> QED BY <1>5, <2>4, <2>5
<1>6. ASSUME NEW tool \in Tools, NEW status \in Terminal, e = ToolCompleted(tool, status)
      PROVE  Tells(t, Apply(t, e), <<>>)
  <2>1. PICK i : i = FindTool(t.blocks, tool)
    OBVIOUS
  <2>2. Apply(t, e) = IF i = 0 THEN t
                      ELSE [t EXCEPT !.blocks[i].status = status, !.blocks[i].approval = None]
    BY <1>6, <2>1 DEF Apply, ToolCompleted, ReduceToolCompleted
  <2>3. CASE i = 0
    BY <1>0, <2>2, <2>3, SaysNothing DEF Tells
  <2>4. CASE i # 0
    <3>1. i \in 0..Len(t.blocks) /\ t.blocks[i].kind = "toolCall"
      BY <1>0, <2>1, <2>4, ToolFound
    <3>2. i \in 1..Len(t.blocks)
      BY <1>0, <2>4, <3>1
    <3>3. status \in ToolStatuses
      BY DEF Terminal, ToolStatuses
    <3>4. PICK approval \in BlockApprovals : approval = None
      BY DEF BlockApprovals
    <3>5. Apply(t, e) = WithApproval(t, i, status, approval)
      BY <2>2, <2>4, <3>4, Zenon DEF WithApproval
    <3>6. PICK s \in ToolStatuses : s = status
      BY <3>3
    <3>7. Tells(t, WithApproval(t, i, s, approval), <<>>)
      BY <3>1, <3>2, ToolChangeTells
    <3> QED BY <3>5, <3>6, <3>7, Zenon
  <2> QED BY <2>3, <2>4
<1> QED BY <1>1, <1>2, <1>3, <1>4, <1>5, <1>6 DEF QuietEvents, Terminal

(* A message delta says its text. *)
LEMMA ApplyMessage ==
    ASSUME NEW t \in ConversationTurns, NEW text \in MessageTexts, NEW terminal \in BOOLEAN
    PROVE  Tells(t, Apply(t, MessageDelta(text, terminal)), text)
<1> DEFINE joins == LastIs(t.blocks, "assistantText") /\ Last(t.blocks).streaming
<1>1. t.blocks \in Seq(Blocks)
  BY BlocksOfTurns
<1>2. PICK b : b = IF joins THEN ExtendLast(t.blocks, text) ELSE Append(t.blocks, TextBlock(text))
  OBVIOUS
<1>3. b \in Seq(Blocks) /\ Says(t.blocks, b, text)
  <2>1. CASE joins
    <3>1. Says(t.blocks, ExtendLast(t.blocks, text), text)
      BY <1>1, <2>1, TextExtended
    <3> QED BY <1>2, <2>1, <3>1 DEF Says
  <2>2. CASE ~joins
    <3>1. Says(t.blocks, Append(t.blocks, TextBlock(text)), text)
      BY <1>1, TextAppended
    <3>2. b = Append(t.blocks, TextBlock(text))
      BY <1>2, <2>2
    <3> QED BY <3>1, <3>2 DEF Says
  <2> QED BY <2>1, <2>2
<1>4. PICK u : u = [t EXCEPT !.status = "running", !.blocks = b]
  OBVIOUS
<1>5. u \in ConversationTurns /\ u.user = t.user /\ u.blocks = b /\ u.lastEvent = t.lastEvent
  BY <1>3, <1>4 DEF ConversationTurns
<1>6. Apply(t, MessageDelta(text, terminal)) = IF terminal THEN End(u, "completed") ELSE u
  <2>1. Apply(t, MessageDelta(text, terminal)) = ReduceMessage(t, MessageDelta(text, terminal))
    BY DEF Apply, MessageDelta
  <2>2. MessageDelta(text, terminal).text = text /\ MessageDelta(text, terminal).terminal = terminal
    BY DEF MessageDelta
  <2>3. u = Running(t, b)
    BY <1>4, Zenon DEF Running
  <2> QED BY <1>2, <2>1, <2>2, <2>3, Zenon DEF ReduceMessage
<1>7. Tells(t, u, text)
  BY <1>3, <1>5 DEF Tells
<1>8. Tells(u, End(u, "completed"), <<>>)
  BY <1>5, EndTells
<1>9. Tells(t, End(u, "completed"), text)
  BY <1>1, <1>7, <1>8, TellsThen
<1> QED BY <1>6, <1>7, <1>9

(* A thought is continued, replaced, taken back or begun. *)
NoneOpen(blocks) == \A i \in 1..Len(blocks) : blocks[i].kind = "agentThought" => ~blocks[i].streaming

Thinks(b, c, text, id, replace) ==
    /\ c \in Seq(Blocks)
    /\ ThoughtsClosed(c)
    /\ \A m \in Contents : MessageIn(c, m) = MessageIn(b, m)
    /\ \A m \in Contents \ {id} : ThoughtIn(c, m) = ThoughtIn(b, m) /\ (OpenThought(c, m) => OpenThought(b, m))
    /\ ~replace => \/ ThoughtIn(c, id) = Append(ThoughtIn(b, id), text)
                   \/ OpenThought(b, id) /\ \E X \in Seq(ThoughtTexts), p \in ThoughtTexts :
                        ThoughtIn(b, id) = Append(X, p) /\ ThoughtIn(c, id) = Append(X, p \o text)
    /\ replace /\ text # <<>> => \E X \in Seq(ThoughtTexts) : ThoughtIn(c, id) = Append(X, text)
    /\ replace /\ text = <<>> => ~OpenThought(c, id)

LEMMA NoneOpened ==
    ASSUME NEW b \in Seq(Blocks), NoneOpen(b)
    PROVE  ThoughtsClosed(b) /\ \A m : ~OpenThought(b, m)
<1>1. ThoughtsClosed(b)
  BY DEF NoneOpen, ThoughtsClosed
<1>2. ASSUME NEW m, OpenThought(b, m)  PROVE FALSE
  <2>1. b # <<>> /\ Last(b).kind = "agentThought" /\ Last(b).streaming
    BY <1>2 DEF OpenThought, LastIs
  <2>2. Last(b) = b[Len(b)] /\ Len(b) \in 1..Len(b)
    BY <2>1, LastOfSequence
  <2> QED BY <2>1, <2>2 DEF NoneOpen
<1> QED BY <1>1, <1>2

LEMMA ThoughtAppended ==
    ASSUME NEW a \in Seq(Blocks), NEW x \in Blocks, x.kind = "agentThought"
    PROVE  /\ Append(a, x) \in Seq(Blocks) /\ LastIs(Append(a, x), "agentThought") /\ Last(Append(a, x)) = x
           /\ ThoughtsClosed(Append(a, x)) <=> NoneOpen(a)
           /\ ThoughtIn(Append(a, x), x.id) = Append(ThoughtIn(a, x.id), x.text)
           /\ \A m \in Contents : MessageIn(Append(a, x), m) = MessageIn(a, m)
           /\ \A m \in Contents \ {x.id} : ThoughtIn(Append(a, x), m) = ThoughtIn(a, m)
<1>1. Append(a, x) \in Seq(Blocks) /\ LastIs(Append(a, x), "agentThought") /\ Last(Append(a, x)) = x
      /\ Len(Append(a, x)) = Len(a) + 1 /\ \A i \in 1..Len(a) : Append(a, x)[i] = a[i]
  BY LastOfAppend DEF LastIs
<1>2. ThoughtsClosed(Append(a, x)) <=> NoneOpen(a)
  <2>1. \A n \in Nat : (n + 1) - 1 = n
    OBVIOUS
  <2>2. Len(a) \in Nat
    OBVIOUS
  <2>3. Len(Append(a, x)) - 1 = Len(a)
    BY <1>1, <2>1, <2>2
  <2> QED BY <1>1, <2>3 DEF ThoughtsClosed, NoneOpen
<1>3. ThoughtIn(Append(a, x), x.id) = Append(ThoughtIn(a, x.id), x.text)
  <2>1. ThoughtIn(Append(a, x), x.id) = ThoughtIn(a, x.id) \o ThoughtPart(x, x.id)
    BY ThoughtInAppend
  <2>2. ThoughtPart(x, x.id) = <<x.text>>
    BY DEF ThoughtPart
  <2>3. PICK s \in Seq(ThoughtTexts), p \in ThoughtTexts : s = ThoughtIn(a, x.id) /\ p = x.text
    BY ThoughtInType, BlockFields
  <2>4. s \o <<p>> = Append(s, p)
    OBVIOUS
  <2> QED BY <2>1, <2>2, <2>3, <2>4, Zenon
<1>4. ASSUME NEW m \in Contents  PROVE MessageIn(Append(a, x), m) = MessageIn(a, m)
  <2>1. MessageIn(Append(a, x), m) = MessageIn(a, m) \o MessagePart(x, m)
    BY MessageInAppend
  <2>2. MessagePart(x, m) = <<>>
    BY DEF MessagePart
  <2>3. MessageIn(a, m) \o <<>> = MessageIn(a, m)
    BY MessageOf
  <2> QED BY <2>1, <2>2, <2>3, Zenon
<1>5. ASSUME NEW m \in Contents \ {x.id}  PROVE ThoughtIn(Append(a, x), m) = ThoughtIn(a, m)
  <2>1. ThoughtIn(Append(a, x), m) = ThoughtIn(a, m) \o ThoughtPart(x, m)
    BY ThoughtInAppend
  <2>2. ThoughtPart(x, m) = <<>>
    BY DEF ThoughtPart
  <2>3. ThoughtIn(a, m) \o <<>> = ThoughtIn(a, m)
    BY ThoughtOf
  <2> QED BY <2>1, <2>2, <2>3, Zenon
<1> QED BY <1>1, <1>2, <1>3, <1>4, <1>5

(* The last thought is continued. *)
LEMMA ThoughtContinued ==
    ASSUME NEW a \in Seq(Blocks), NEW x \in Blocks, x.kind = "agentThought", x.streaming, NoneOpen(a),
           NEW text \in ThoughtTexts, NEW y \in Blocks, y.kind = "agentThought", y.id = x.id,
           y.text = x.text \o text
    PROVE  Thinks(Append(a, x), Append(a, y), text, x.id, FALSE)
<1>1. /\ Append(a, y) \in Seq(Blocks) /\ ThoughtsClosed(Append(a, y)) /\ Last(Append(a, y)) = y
      /\ LastIs(Append(a, y), "agentThought")
      /\ ThoughtIn(Append(a, y), y.id) = Append(ThoughtIn(a, y.id), y.text)
      /\ \A m \in Contents : MessageIn(Append(a, y), m) = MessageIn(a, m)
      /\ \A m \in Contents \ {y.id} : ThoughtIn(Append(a, y), m) = ThoughtIn(a, m)
  BY ThoughtAppended
<1>2. /\ LastIs(Append(a, x), "agentThought") /\ Last(Append(a, x)) = x
      /\ ThoughtIn(Append(a, x), x.id) = Append(ThoughtIn(a, x.id), x.text)
      /\ \A m \in Contents : MessageIn(Append(a, x), m) = MessageIn(a, m)
      /\ \A m \in Contents \ {x.id} : ThoughtIn(Append(a, x), m) = ThoughtIn(a, m)
  BY ThoughtAppended
<1>3. OpenThought(Append(a, x), x.id) /\ \A m : OpenThought(Append(a, y), m) => m = x.id
  BY <1>1, <1>2 DEF OpenThought
<1>4. PICK s \in Seq(ThoughtTexts), p \in ThoughtTexts : s = ThoughtIn(a, x.id) /\ p = x.text
  BY ThoughtInType, BlockFields
<1>5. ThoughtIn(Append(a, x), x.id) = Append(s, p) /\ ThoughtIn(Append(a, y), x.id) = Append(s, p \o text)
  BY <1>1, <1>2, <1>4, Zenon
<1>6. \A m \in Contents : MessageIn(Append(a, y), m) = MessageIn(Append(a, x), m)
  BY <1>1, <1>2, Zenon
<1>7. \A m \in Contents \ {x.id} : ThoughtIn(Append(a, y), m) = ThoughtIn(Append(a, x), m)
  BY <1>1, <1>2, Zenon
<1> QED BY <1>1, <1>3, <1>5, <1>6, <1>7, Zenon DEF Thinks

LEMMA ThoughtReplaced ==
    ASSUME NEW a \in Seq(Blocks), NEW x \in Blocks, x.kind = "agentThought", NoneOpen(a),
           NEW text \in ThoughtTexts, text # <<>>
    PROVE  Thinks(Append(a, x), Append(a, ThoughtBlock(text, x.id)), text, x.id, TRUE)
<1>0. PICK y \in Blocks : y = ThoughtBlock(text, x.id) /\ y.kind = "agentThought" /\ y.id = x.id /\ y.text = text
  <2>1. x.id \in Thoughts
    BY BlockFields
  <2>2. ThoughtBlock(text, x.id) \in Blocks
    BY <2>1, BlockTypes
  <2> QED BY <2>2 DEF ThoughtBlock
<1>1. /\ Append(a, y) \in Seq(Blocks) /\ ThoughtsClosed(Append(a, y)) /\ Last(Append(a, y)) = y
      /\ LastIs(Append(a, y), "agentThought")
      /\ ThoughtIn(Append(a, y), y.id) = Append(ThoughtIn(a, y.id), y.text)
      /\ \A m \in Contents : MessageIn(Append(a, y), m) = MessageIn(a, m)
      /\ \A m \in Contents \ {y.id} : ThoughtIn(Append(a, y), m) = ThoughtIn(a, m)
  BY <1>0, ThoughtAppended
<1>2. /\ \A m \in Contents : MessageIn(Append(a, x), m) = MessageIn(a, m)
      /\ \A m \in Contents \ {x.id} : ThoughtIn(Append(a, x), m) = ThoughtIn(a, m)
  BY ThoughtAppended
<1>3. \A m : OpenThought(Append(a, y), m) => m = x.id
  BY <1>0, <1>1 DEF OpenThought
<1>4. \E X \in Seq(ThoughtTexts) : ThoughtIn(Append(a, y), x.id) = Append(X, text)
  <2>1. ThoughtIn(a, x.id) \in Seq(ThoughtTexts)
    BY ThoughtInType
  <2>2. ThoughtIn(Append(a, y), x.id) = Append(ThoughtIn(a, x.id), text)
    BY <1>0, <1>1, Zenon
  <2> QED BY <2>1, <2>2
<1>6. \A m \in Contents : MessageIn(Append(a, y), m) = MessageIn(Append(a, x), m)
  BY <1>1, <1>2, Zenon
<1>7. \A m \in Contents \ {x.id} : ThoughtIn(Append(a, y), m) = ThoughtIn(Append(a, x), m)
  BY <1>0, <1>1, <1>2, Zenon
<1>8. Thinks(Append(a, x), Append(a, y), text, x.id, TRUE)
  BY <1>1, <1>3, <1>4, <1>6, <1>7 DEF Thinks
<1> QED BY <1>0, <1>8, Zenon

LEMMA ThoughtTakenBack ==
    ASSUME NEW a \in Seq(Blocks), NEW x \in Blocks, x.kind = "agentThought", NoneOpen(a)
    PROVE  Thinks(Append(a, x), a, <<>>, x.id, TRUE)
<1>1. ThoughtsClosed(a) /\ \A m : ~OpenThought(a, m)
  BY NoneOpened
<1>2. /\ \A m \in Contents : MessageIn(Append(a, x), m) = MessageIn(a, m)
      /\ \A m \in Contents \ {x.id} : ThoughtIn(Append(a, x), m) = ThoughtIn(a, m)
  BY ThoughtAppended
<1> QED BY <1>1, <1>2, Zenon DEF Thinks

LEMMA ThoughtBegun ==
    ASSUME NEW b \in Seq(Blocks), NEW text \in ThoughtTexts, text # <<>>, NEW id \in Thoughts,
           NEW replace \in BOOLEAN
    PROVE  Thinks(b, Append(CloseStreamingText(b), ThoughtBlock(text, id)), text, id, replace)
<1>0. PICK y \in Blocks : y = ThoughtBlock(text, id) /\ y.kind = "agentThought" /\ y.id = id /\ y.text = text
  <2>2. ThoughtBlock(text, id) \in Blocks
    BY BlockTypes
  <2> QED BY <2>2 DEF ThoughtBlock
<1>1. PICK a \in Seq(Blocks) : a = CloseStreamingText(b) /\ NoneOpen(a) /\ Says(b, a, <<>>)
  <2>1. CloseStreamingText(b) \in Seq(Blocks) /\ Len(CloseStreamingText(b)) = Len(b) /\ Says(b, CloseStreamingText(b), <<>>)
    BY ClosingText
  <2>2. ASSUME NEW i \in 1..Len(b), CloseStreamingText(b)[i].kind = "agentThought"
        PROVE  ~CloseStreamingText(b)[i].streaming
    <3>1. SameText(b[i], CloseStreamingText(b)[i])
      BY ClosingText
    <3>2. b[i].kind = "agentThought"
      BY <2>2, <3>1 DEF SameText
    <3>3. CloseStreamingText(b)[i].streaming = FALSE
      BY <3>2, ClosingText
    <3> QED BY <3>3
  <2>3. NoneOpen(CloseStreamingText(b))
    BY <2>1, <2>2 DEF NoneOpen
  <2> QED BY <2>1, <2>3
<1>2. /\ Append(a, y) \in Seq(Blocks) /\ ThoughtsClosed(Append(a, y)) /\ Last(Append(a, y)) = y
      /\ LastIs(Append(a, y), "agentThought")
      /\ ThoughtIn(Append(a, y), y.id) = Append(ThoughtIn(a, y.id), y.text)
      /\ \A m \in Contents : MessageIn(Append(a, y), m) = MessageIn(a, m)
      /\ \A m \in Contents \ {y.id} : ThoughtIn(Append(a, y), m) = ThoughtIn(a, m)
  BY <1>0, <1>1, ThoughtAppended
<1>3. \A m : OpenThought(Append(a, y), m) => m = id
  BY <1>0, <1>2 DEF OpenThought
<1>4. id \in Contents
  BY DEF Contents
<1>5. ASSUME NEW m \in Contents
      PROVE  MessageIn(a, m) = MessageIn(b, m) /\ ThoughtIn(a, m) = ThoughtIn(b, m)
  <2>1. MessageIn(a, m) = MessageIn(b, m) \o Kept(<<>>, Pieces(m)) /\ ThoughtIn(a, m) = ThoughtIn(b, m)
    BY <1>1, Zenon DEF Says
  <2>2. Kept(<<>>, Pieces(m)) = <<>>
    BY KeptNothing
  <2>3. MessageIn(b, m) \o <<>> = MessageIn(b, m)
    BY MessageOf
  <2> QED BY <2>1, <2>2, <2>3, Zenon
<1>6. ThoughtIn(Append(a, y), id) = Append(ThoughtIn(b, id), text)
  BY <1>0, <1>2, <1>4, <1>5, Zenon
<1>7. \E X \in Seq(ThoughtTexts) : ThoughtIn(Append(a, y), id) = Append(X, text)
  <2>1. ThoughtIn(b, id) \in Seq(ThoughtTexts)
    BY ThoughtInType
  <2> QED BY <1>6, <2>1
<1>8. \A m \in Contents : MessageIn(Append(a, y), m) = MessageIn(b, m)
  BY <1>2, <1>5, Zenon
<1>9. \A m \in Contents \ {id} : ThoughtIn(Append(a, y), m) = ThoughtIn(b, m)
  BY <1>0, <1>2, <1>5, Zenon
<1>10. Thinks(b, Append(a, y), text, id, replace)
  BY <1>2, <1>3, <1>6, <1>7, <1>8, <1>9 DEF Thinks
<1> QED BY <1>0, <1>1, <1>10, Zenon

LEMMA ThoughtUntouched ==
    ASSUME NEW b \in Seq(Blocks), ThoughtsClosed(b), NEW id, ~(LastIs(b, "agentThought") /\ Last(b).id = id)
    PROVE  Thinks(b, b, <<>>, id, TRUE)
BY DEF Thinks, OpenThought

LEMMA ApplyThought ==
    ASSUME NEW t \in ConversationTurns, ThoughtsClosed(t.blocks), NEW text \in ThoughtTexts, NEW id \in Thoughts,
           NEW replace \in BOOLEAN, ~replace => text # <<>>
    PROVE  LET u == Apply(t, ThoughtDelta(text, id, replace))
           IN /\ u \in ConversationTurns /\ u.user = t.user /\ u.lastEvent = t.lastEvent
              /\ Thinks(t.blocks, u.blocks, text, id, replace)
<1> DEFINE same == LastIs(t.blocks, "agentThought") /\ Last(t.blocks).id = id
<1>1. PICK b \in Seq(Blocks) : b = t.blocks
  BY BlocksOfTurns
<1>2. ASSUME NEW c, Thinks(b, c, text, id, replace)
      PROVE  LET u == Running(t, c)
             IN /\ u \in ConversationTurns /\ u.user = t.user /\ u.lastEvent = t.lastEvent
                /\ Thinks(b, u.blocks, text, id, replace)
  <2>1. c \in Seq(Blocks)
    BY <1>2 DEF Thinks
  <2>2. LET u == [t EXCEPT !.status = "running", !.blocks = c]
        IN u \in ConversationTurns /\ u.user = t.user /\ u.lastEvent = t.lastEvent /\ u.blocks = c
    BY <2>1 DEF ConversationTurns
  <2> QED BY <1>2, <2>2 DEF Running
<1>3. PICK u : u = Apply(t, ThoughtDelta(text, id, replace))
  OBVIOUS
<1>4. u = CASE same /\ ~replace /\ Last(b).streaming -> Running(t, ExtendLast(b, text))
            [] same /\ replace /\ text = <<>> -> Running(t, Front(b))
            [] same /\ replace /\ text # <<>> -> Running(t, ReplaceAt(b, Len(b), ThoughtBlock(text, id)))
            [] ~(same /\ (replace \/ Last(b).streaming)) /\ text = <<>> -> t
            [] OTHER -> Running(t, Append(CloseStreamingText(b), ThoughtBlock(text, id)))
  <2>1. u = ReduceThought(t, ThoughtDelta(text, id, replace))
    BY <1>3 DEF Apply, ThoughtDelta
  <2>2. /\ ThoughtDelta(text, id, replace).text = text /\ ThoughtDelta(text, id, replace).id = id
        /\ ThoughtDelta(text, id, replace).replace = replace
    BY DEF ThoughtDelta
  <2> QED BY <1>1, <2>1, <2>2, Zenon DEF ReduceThought
<1>5. ASSUME same
      PROVE  \E a \in Seq(Blocks), x \in Blocks :
               /\ b = Append(a, x) /\ x = Last(b) /\ x.kind = "agentThought" /\ x.id = id /\ NoneOpen(a)
               /\ a = Front(b) /\ x = b[Len(b)] /\ Len(b) \in 1..Len(b)
  <2>1. b # <<>> /\ Last(b).kind = "agentThought" /\ Last(b).id = id
    BY <1>1, <1>5 DEF LastIs
  <2>2. PICK a \in Seq(Blocks), x \in Blocks : a = Front(b) /\ x = Last(b) /\ b = Append(a, x)
    BY <2>1, LastOfSequence
  <2>3. ThoughtsClosed(Append(a, x)) <=> NoneOpen(a)
    BY <2>1, <2>2, ThoughtAppended
  <2>4. NoneOpen(a)
    BY <1>1, <2>2, <2>3, Zenon
  <2>5. x = b[Len(b)] /\ Len(b) \in 1..Len(b)
    BY <2>1, <2>2, LastOfSequence
  <2> QED BY <2>1, <2>2, <2>4, <2>5
<1> HIDE DEF same
<1>6. CASE same /\ ~replace /\ Last(b).streaming
  <2>1. u = Running(t, ExtendLast(b, text))
    BY <1>4, <1>6
  <2>2. PICK a \in Seq(Blocks), x \in Blocks :
               /\ b = Append(a, x) /\ x = Last(b) /\ x.kind = "agentThought" /\ x.id = id /\ NoneOpen(a)
               /\ a = Front(b) /\ x = b[Len(b)] /\ Len(b) \in 1..Len(b)
    BY <1>5, <1>6
  <2>3. PICK y \in Blocks : y = [x EXCEPT !.text = @ \o text] /\ y.kind = "agentThought" /\ y.id = x.id /\ y.text = x.text \o text
    BY <2>2, ThoughtChanges
  <2>4. ExtendLast(b, text) = Append(a, y)
    <3>1. ExtendLast(b, text) = [b EXCEPT ![Len(b)] = y]
      BY <2>2, <2>3, Zenon DEF ExtendLast
    <3>2. [b EXCEPT ![Len(b)] = y] = Append(Front(b), y)
      <4>1. b # <<>>
        BY <1>1, <1>6 DEF same, LastIs
      <4> QED BY <4>1, ReplaceLast
    <3> QED BY <2>2, <3>1, <3>2, Zenon
  <2>5. Thinks(Append(a, x), Append(a, y), text, x.id, FALSE)
    <3>1. x.streaming
      BY <1>6, <2>2
    <3> QED BY <2>2, <2>3, <3>1, ThoughtContinued
  <2>6. Thinks(b, ExtendLast(b, text), text, id, replace)
    BY <1>6, <2>2, <2>4, <2>5
  <2> QED BY <1>1, <1>2, <1>3, <2>1, <2>6
<1>7. CASE same /\ replace /\ text = <<>>
  <2>1. u = Running(t, Front(b))
    BY <1>4, <1>7
  <2>2. PICK a \in Seq(Blocks), x \in Blocks :
               /\ b = Append(a, x) /\ x = Last(b) /\ x.kind = "agentThought" /\ x.id = id /\ NoneOpen(a)
               /\ a = Front(b) /\ x = b[Len(b)] /\ Len(b) \in 1..Len(b)
    BY <1>5, <1>7
  <2>3. Thinks(Append(a, x), a, <<>>, x.id, TRUE)
    BY <2>2, ThoughtTakenBack
  <2>4. Thinks(b, Front(b), text, id, replace)
    BY <1>7, <2>2, <2>3
  <2> QED BY <1>1, <1>2, <1>3, <2>1, <2>4
<1>8. CASE same /\ replace /\ text # <<>>
  <2>1. u = Running(t, ReplaceAt(b, Len(b), ThoughtBlock(text, id)))
    BY <1>4, <1>8
  <2>2. PICK a \in Seq(Blocks), x \in Blocks :
               /\ b = Append(a, x) /\ x = Last(b) /\ x.kind = "agentThought" /\ x.id = id /\ NoneOpen(a)
               /\ a = Front(b) /\ x = b[Len(b)] /\ Len(b) \in 1..Len(b)
    BY <1>5, <1>8
  <2>3. Thinks(Append(a, x), Append(a, ThoughtBlock(text, x.id)), text, x.id, TRUE)
    BY <1>8, <2>2, ThoughtReplaced
  <2>4. ReplaceAt(b, Len(b), ThoughtBlock(text, id)) = Append(a, ThoughtBlock(text, id))
    <3>1. b # <<>>
      BY <1>1, <1>8 DEF same, LastIs
    <3>2. PICK y \in Blocks : y = ThoughtBlock(text, id)
      BY BlockTypes
    <3>3. ReplaceAt(b, Len(b), y) = Append(Front(b), y)
      BY <3>1, ReplaceLast
    <3> QED BY <2>2, <3>2, <3>3, Zenon
  <2>5. Thinks(b, ReplaceAt(b, Len(b), ThoughtBlock(text, id)), text, id, replace)
    BY <1>8, <2>2, <2>3, <2>4
  <2> QED BY <1>1, <1>2, <1>3, <2>1, <2>5
<1>9. CASE ~(same /\ (replace \/ Last(b).streaming)) /\ text = <<>>
  <2>1. u = t /\ replace = TRUE /\ ~same
    BY <1>4, <1>9
  <2>2. Thinks(b, b, <<>>, id, TRUE)
    BY <1>1, <2>1, ThoughtUntouched DEF same
  <2> QED BY <1>1, <1>3, <1>9, <2>1, <2>2
<1>10. CASE /\ ~(same /\ ~replace /\ Last(b).streaming)
            /\ ~(same /\ replace)
            /\ text # <<>>
  <2>1. u = Running(t, Append(CloseStreamingText(b), ThoughtBlock(text, id)))
    BY <1>4, <1>10
  <2>2. Thinks(b, Append(CloseStreamingText(b), ThoughtBlock(text, id)), text, id, replace)
    BY <1>10, ThoughtBegun
  <2> QED BY <1>1, <1>2, <1>3, <2>1, <2>2
<1> QED BY <1>6, <1>7, <1>8, <1>9, <1>10

-----------------------------------------------------------------------------
(* Events reach the last turn, one after the other.                           *)
LEMMA ApplyNone ==
    ASSUME NEW ts, NEW n
    PROVE  ApplyEvents(ts, n, <<>>) = ts
<1> DEFINE f == [k \in 0..0 |-> ts]
           D(g) == g = [k \in 0..Len(<<>>) |-> IF k = 0 THEN ts ELSE ApplyEvent(g[k - 1], n + k, <<>>[k])]
<1>1. Len(<<>>) = 0
  OBVIOUS
<1>2. D(f)
  BY <1>1
<1>3. D(CHOOSE g : D(g))
  <2> HIDE DEF D, f
  <2> QED BY <1>2, Zenon
<1>4. (CHOOSE g : D(g))[0] = ts
  <2>1. PICK g : g = CHOOSE h : D(h)
    OBVIOUS
  <2>2. g = [k \in 0..0 |-> IF k = 0 THEN ts ELSE ApplyEvent(g[k - 1], n + k, <<>>[k])]
    BY <1>1, <1>3, <2>1
  <2>3. g[0] = ts
    BY <2>2
  <2> HIDE DEF D
  <2> QED BY <2>1, <2>3
<1>5. ApplyEvents(ts, n, <<>>) = (CHOOSE g : D(g))[Len(<<>>)]
  BY DEF ApplyEvents
<1> HIDE DEF D
<1> QED BY <1>1, <1>4, <1>5

LEMMA ApplyTwo ==
    ASSUME NEW ts, NEW n, NEW events, NEW e, NEW d
    PROVE  /\ events = <<e>> => ApplyEvents(ts, n, events) = ApplyEvent(ts, n + 1, e)
           /\ events = <<e, d>> => ApplyEvents(ts, n, events) = ApplyEvent(ApplyEvent(ts, n + 1, e), n + 2, d)
<1>1. ASSUME NEW L \in Nat, Len(events) = L, L \in {1, 2}, events[1] = e, L = 2 => events[2] = d
      PROVE  ApplyEvents(ts, n, events) = IF L = 1 THEN ApplyEvent(ts, n + 1, e)
                                          ELSE ApplyEvent(ApplyEvent(ts, n + 1, e), n + 2, d)
  <2> DEFINE f == [k \in 0..L |-> IF k = 0 THEN ts ELSE IF k = 1 THEN ApplyEvent(ts, n + 1, e)
                                  ELSE ApplyEvent(ApplyEvent(ts, n + 1, e), n + 2, d)]
             D(g) == g = [k \in 0..Len(events) |-> IF k = 0 THEN ts ELSE ApplyEvent(g[k - 1], n + k, events[k])]
  <2>1. f[0] = ts /\ f[1] = ApplyEvent(ts, n + 1, e)
        /\ (L = 2 => f[2] = ApplyEvent(ApplyEvent(ts, n + 1, e), n + 2, d))
    BY <1>1
  <2>2. D(f)
    <3>1. ASSUME NEW k \in 0..L
          PROVE  f[k] = IF k = 0 THEN ts ELSE ApplyEvent(f[k - 1], n + k, events[k])
      <4>1. CASE k = 0
        BY <2>1, <4>1
      <4>2. CASE k = 1
        <5>1. k - 1 = 0 /\ k # 0
          BY <4>2
        <5> QED BY <1>1, <2>1, <4>2, <5>1
      <4>3. CASE k = 2 /\ L = 2
        <5>1. k - 1 = 1 /\ k # 0
          BY <4>3
        <5> QED BY <1>1, <2>1, <4>3, <5>1
      <4> QED BY <1>1, <4>1, <4>2, <4>3
    <3>2. f = [k \in 0..L |-> f[k]]
      OBVIOUS
    <3> HIDE DEF f
    <3> QED BY <1>1, <3>1, <3>2, Zenon
  <2>3. PICK g : g = CHOOSE h : D(h)
    OBVIOUS
  <2>4. D(g)
    <3> HIDE DEF D, f
    <3> QED BY <2>2, <2>3, Zenon
  <2>5. \A k \in 0..L : g[k] = IF k = 0 THEN ts ELSE ApplyEvent(g[k - 1], n + k, events[k])
    BY <1>1, <2>4
  <2>6. g[0] = ts /\ g[1] = ApplyEvent(ts, n + 1, e)
    <3>1. 0 \in 0..L /\ 1 \in 0..L /\ 1 - 1 = 0 /\ 1 # 0
      BY <1>1
    <3>2. g[0] = ts
      BY <2>5, <3>1
    <3>3. g[1] = ApplyEvent(g[1 - 1], n + 1, events[1])
      BY <2>5, <3>1
    <3> QED BY <1>1, <3>1, <3>2, <3>3
  <2>7. L = 2 => g[2] = ApplyEvent(ApplyEvent(ts, n + 1, e), n + 2, d)
    <3> SUFFICES ASSUME L = 2 PROVE g[2] = ApplyEvent(ApplyEvent(ts, n + 1, e), n + 2, d)
      OBVIOUS
    <3>1. 2 \in 0..L /\ 2 - 1 = 1 /\ 2 # 0
      OBVIOUS
    <3>2. g[2] = ApplyEvent(g[2 - 1], n + 2, events[2])
      BY <2>5, <3>1
    <3> QED BY <1>1, <2>6, <3>1, <3>2
  <2>8. ApplyEvents(ts, n, events) = g[Len(events)]
    BY <2>3 DEF ApplyEvents
  <2> HIDE DEF D, f
  <2> QED BY <1>1, <2>6, <2>7, <2>8
<1>2. ASSUME events = <<e>>
      PROVE  ApplyEvents(ts, n, events) = ApplyEvent(ts, n + 1, e)
  <2>1. PICK L : L = 1
    OBVIOUS
  <2>2. L \in Nat /\ Len(events) = L /\ L \in {1, 2} /\ events[1] = e /\ (L = 2 => events[2] = d) /\ L = 1
    BY <1>2, <2>1
  <2> QED BY <1>1, <2>2
<1>3. ASSUME events = <<e, d>>
      PROVE  ApplyEvents(ts, n, events) = ApplyEvent(ApplyEvent(ts, n + 1, e), n + 2, d)
  <2>1. PICK L : L = 2
    OBVIOUS
  <2>2. L \in Nat /\ Len(events) = L /\ L \in {1, 2} /\ events[1] = e /\ (L = 2 => events[2] = d) /\ L # 1
    BY <1>3, <2>1
  <2> QED BY <1>1, <2>2
<1> QED BY <1>2, <1>3

Ready(ts, n) == n \in Nat /\ ts \in Seq(ConversationTurns) /\ ts # <<>> /\ Last(ts).lastEvent <= n

(* us are the turns ts after events that say the text. *)
Told(ts, us, n, text) ==
    \E F \in Seq(ConversationTurns), t \in ConversationTurns, u \in ConversationTurns :
      /\ ts = Append(F, t) /\ us = Append(F, u) /\ u.user = t.user /\ n \in Nat /\ u.lastEvent <= n
      /\ Says(t.blocks, u.blocks, text)

(* us are the turns ts after a thought delta. *)
Thought(ts, us, n, text, id, replace) ==
    \E F \in Seq(ConversationTurns), t \in ConversationTurns, u \in ConversationTurns :
      /\ ts = Append(F, t) /\ us = Append(F, u) /\ u.user = t.user /\ n \in Nat /\ u.lastEvent <= n
      /\ Thinks(t.blocks, u.blocks, text, id, replace)

LEMMA LastTurn ==
    ASSUME NEW ts, NEW n, Ready(ts, n), NEW e
    PROVE  \E F \in Seq(ConversationTurns), t \in ConversationTurns, s \in ConversationTurns :
             /\ ts = Append(F, t) /\ t = Last(ts)
             /\ s.user = t.user /\ s.blocks = t.blocks /\ s.lastEvent = n + 1
             /\ Apply(s, e) \in ConversationTurns => ApplyEvent(ts, n + 1, e) = Append(F, Apply(s, e))
<1>1. PICK F \in Seq(ConversationTurns), t \in ConversationTurns : F = Front(ts) /\ t = Last(ts) /\ ts = Append(F, t)
  BY LastOfSequence DEF Ready
<1>0. PICK k \in Nat : k = n + 1
  BY DEF Ready
<1>2. PICK s : s = [t EXCEPT !.lastEvent = k]
  OBVIOUS
<1>6. s \in ConversationTurns /\ s.user = t.user /\ s.blocks = t.blocks /\ s.lastEvent = k
  BY <1>2 DEF ConversationTurns
<1>3. s \in ConversationTurns /\ s.user = t.user /\ s.blocks = t.blocks /\ s.lastEvent = n + 1
  BY <1>0, <1>6
<1>4. Reduce(t, n + 1, e) = Apply(s, e)
  <2>1. ~(n + 1 <= t.lastEvent)
    BY <1>1, BlocksOfTurns DEF Ready
  <2> QED BY <1>0, <1>2, <2>1, Zenon DEF Reduce
<1>5. ASSUME Apply(s, e) \in ConversationTurns
      PROVE  ApplyEvent(ts, n + 1, e) = Append(F, Apply(s, e))
  <2>1. PICK u \in ConversationTurns : u = Apply(s, e)
    BY <1>5
  <2>2. ReplaceAt(ts, Len(ts), u) = Append(Front(ts), u)
    BY ReplaceLast DEF Ready
  <2> QED BY <1>1, <1>4, <2>1, <2>2, Zenon DEF ApplyEvent
<1> QED BY <1>1, <1>3, <1>5

LEMMA ToldEvent ==
    ASSUME NEW ts, NEW n, Ready(ts, n), NEW e, NEW text, \A t \in ConversationTurns : Tells(t, Apply(t, e), text)
    PROVE  Told(ts, ApplyEvent(ts, n + 1, e), n + 1, text)
<1>1. PICK F \in Seq(ConversationTurns), t \in ConversationTurns, s \in ConversationTurns :
             /\ ts = Append(F, t) /\ t = Last(ts)
             /\ s.user = t.user /\ s.blocks = t.blocks /\ s.lastEvent = n + 1
             /\ Apply(s, e) \in ConversationTurns => ApplyEvent(ts, n + 1, e) = Append(F, Apply(s, e))
  BY LastTurn
<1>2. PICK u : u = Apply(s, e)
  OBVIOUS
<1>3. u \in ConversationTurns /\ u.user = t.user /\ u.lastEvent = n + 1 /\ Says(t.blocks, u.blocks, text)
  BY <1>1, <1>2 DEF Tells
<1>4. n + 1 \in Nat /\ u.lastEvent <= n + 1
  BY <1>3 DEF Ready
<1>5. ApplyEvent(ts, n + 1, e) = Append(F, u)
  BY <1>1, <1>2, <1>3
<1> QED BY <1>1, <1>3, <1>4, <1>5 DEF Told

LEMMA ThoughtEvent ==
    ASSUME NEW ts, NEW n, Ready(ts, n), ThoughtsClosed(Last(ts).blocks), NEW text \in ThoughtTexts,
           NEW id \in Thoughts, NEW replace \in BOOLEAN, ~replace => text # <<>>
    PROVE  Thought(ts, ApplyEvent(ts, n + 1, ThoughtDelta(text, id, replace)), n + 1, text, id, replace)
<1> DEFINE e == ThoughtDelta(text, id, replace)
<1> HIDE DEF e
<1>1. PICK F \in Seq(ConversationTurns), t \in ConversationTurns, s \in ConversationTurns :
             /\ ts = Append(F, t) /\ t = Last(ts)
             /\ s.user = t.user /\ s.blocks = t.blocks /\ s.lastEvent = n + 1
             /\ Apply(s, e) \in ConversationTurns => ApplyEvent(ts, n + 1, e) = Append(F, Apply(s, e))
  BY LastTurn
<1>2. PICK u : u = Apply(s, e)
  OBVIOUS
<1>3. u \in ConversationTurns /\ u.user = s.user /\ u.lastEvent = s.lastEvent
      /\ Thinks(s.blocks, u.blocks, text, id, replace)
  <2>1. ThoughtsClosed(s.blocks)
    BY <1>1
  <2> QED BY <1>2, <2>1, ApplyThought DEF e
<1>4. n + 1 \in Nat /\ u.lastEvent <= n + 1
  BY <1>1, <1>3 DEF Ready
<1>5. ApplyEvent(ts, n + 1, e) = Append(F, u)
  BY <1>1, <1>2, <1>3
<1>6. Thought(ts, ApplyEvent(ts, n + 1, e), n + 1, text, id, replace)
  BY <1>1, <1>3, <1>4, <1>5 DEF Thought
<1> QED BY <1>6 DEF e

LEMMA ToldReady ==
    ASSUME NEW ts, NEW us, NEW n, NEW text, Told(ts, us, n, text)
    PROVE  Ready(us, n) /\ ts \in Seq(ConversationTurns) /\ ts # <<>> /\ Len(us) = Len(ts)
           /\ \A i \in 1..Len(ts) : us[i].user = ts[i].user
<1>1. PICK F \in Seq(ConversationTurns), t \in ConversationTurns, u \in ConversationTurns :
      /\ ts = Append(F, t) /\ us = Append(F, u) /\ u.user = t.user /\ n \in Nat /\ u.lastEvent <= n
  BY DEF Told
<1>2. us \in Seq(ConversationTurns) /\ us # <<>> /\ Last(us) = u /\ Len(us) = Len(F) + 1
  BY <1>1, LastOfAppend
<1>3. ts \in Seq(ConversationTurns) /\ ts # <<>> /\ Last(ts) = t /\ Len(ts) = Len(F) + 1
  BY <1>1, LastOfAppend
<1>4. \A i \in 1..Len(ts) : us[i].user = ts[i].user
  BY <1>1, <1>3
<1> QED BY <1>1, <1>2, <1>3, <1>4 DEF Ready

LEMMA ThoughtReady ==
    ASSUME NEW ts, NEW us, NEW n, NEW text, NEW id, NEW replace, Thought(ts, us, n, text, id, replace)
    PROVE  Ready(us, n) /\ ts \in Seq(ConversationTurns) /\ ts # <<>> /\ Len(us) = Len(ts)
           /\ (\A i \in 1..Len(ts) : us[i].user = ts[i].user)
           /\ ThoughtsClosed(Last(us).blocks)
<1>1. PICK F \in Seq(ConversationTurns), t \in ConversationTurns, u \in ConversationTurns :
      /\ ts = Append(F, t) /\ us = Append(F, u) /\ u.user = t.user /\ n \in Nat /\ u.lastEvent <= n
      /\ ThoughtsClosed(u.blocks)
  BY DEF Thought, Thinks
<1>2. us \in Seq(ConversationTurns) /\ us # <<>> /\ Last(us) = u /\ Len(us) = Len(F) + 1
  BY <1>1, LastOfAppend
<1>3. ts \in Seq(ConversationTurns) /\ ts # <<>> /\ Last(ts) = t /\ Len(ts) = Len(F) + 1
  BY <1>1, LastOfAppend
<1>4. \A i \in 1..Len(ts) : us[i].user = ts[i].user
  BY <1>1, <1>3
<1> QED BY <1>1, <1>2, <1>3, <1>4 DEF Ready

-----------------------------------------------------------------------------
(* What the turns show after an event.                                        *)
LEMMA ConcatAppend ==
    ASSUME NEW T, NEW f \in Seq(T), NEW s \in Seq(T), NEW p \in T
    PROVE  f \o Append(s, p) = Append(f \o s, p) /\ f \o s \in Seq(T)
<1>1. f \o s \in Seq(T)
  OBVIOUS
<1>2. Append(s, p) \in Seq(T) /\ f \o Append(s, p) \in Seq(T) /\ Append(f \o s, p) \in Seq(T)
  BY <1>1
<1>3. Len(f \o Append(s, p)) = Len(Append(f \o s, p))
  BY <1>1
<1>4. \A i \in 1..Len(f \o Append(s, p)) : (f \o Append(s, p))[i] = Append(f \o s, p)[i]
  BY <1>1
<1> QED BY <1>1, <1>2, <1>3, <1>4, SeqEqual

LEMMA ThoughtTextGrows ==
    ASSUME NEW p \in ThoughtTexts, NEW text \in ThoughtTexts
    PROVE  p \o text \in ThoughtTexts
BY DEF ThoughtTexts

LEMMA ToldShows ==
    ASSUME NEW ts, NEW us, NEW n, NEW text \in MessageTexts, Told(ts, us, n, text)
    PROVE  /\ ThoughtsClosed(Last(ts).blocks) => ThoughtsClosed(Last(us).blocks)
           /\ \A m \in Contents :
                /\ MessageShown(us, m) = MessageShown(ts, m) \o Kept(text, Pieces(m))
                /\ ThoughtShown(us, m) = ThoughtShown(ts, m)
                /\ OpenThought(Last(us).blocks, m) => OpenThought(Last(ts).blocks, m)
<1>1. PICK F \in Seq(ConversationTurns), t \in ConversationTurns, u \in ConversationTurns :
        ts = Append(F, t) /\ us = Append(F, u) /\ Says(t.blocks, u.blocks, text)
  BY DEF Told
<1>2. Last(us) = u /\ Last(ts) = t
  BY <1>1, LastOfAppend
<1>3. ASSUME NEW m \in Contents
      PROVE  MessageShown(us, m) = MessageShown(ts, m) \o Kept(text, Pieces(m))
  <2>1. MessageShown(us, m) = MessageShown(F, m) \o MessageIn(u.blocks, m)
    BY <1>1, MessageShownAppend
  <2>2. MessageShown(ts, m) = MessageShown(F, m) \o MessageIn(t.blocks, m)
    BY <1>1, MessageShownAppend
  <2>3. MessageIn(u.blocks, m) = MessageIn(t.blocks, m) \o Kept(text, Pieces(m))
    BY <1>1 DEF Says
  <2>4. u.blocks \in Seq(Blocks) /\ t.blocks \in Seq(Blocks)
    BY BlocksOfTurns
  <2>5. MessageShown(F, m) \in Seq(Messages \X (1..MaxUpdates))
    BY MessageShownType
  <2>6. MessageIn(t.blocks, m) \in Seq(Messages \X (1..MaxUpdates))
    BY <2>4, MessageInType
  <2>7. Kept(text, Pieces(m)) \in Seq(Messages \X (1..MaxUpdates))
    <3>1. text \in Seq(Messages \X (1..MaxUpdates))
      BY DEF MessageTexts
    <3> QED BY <3>1, KeptType
  <2>8. PICK f \in Seq(Messages \X (1..MaxUpdates)), g \in Seq(Messages \X (1..MaxUpdates)),
             k \in Seq(Messages \X (1..MaxUpdates)) :
          f = MessageShown(F, m) /\ g = MessageIn(t.blocks, m) /\ k = Kept(text, Pieces(m))
    BY <2>5, <2>6, <2>7
  <2>9. (f \o g) \o k = f \o (g \o k)
    BY Regrouped, SMTT(30)
  <2> QED BY <2>1, <2>2, <2>3, <2>8, <2>9, Zenon
<1>4. ASSUME NEW m \in Contents
      PROVE  /\ ThoughtShown(us, m) = ThoughtShown(ts, m)
             /\ OpenThought(Last(us).blocks, m) => OpenThought(Last(ts).blocks, m)
  <2>1. ThoughtShown(us, m) = ThoughtShown(F, m) \o ThoughtIn(u.blocks, m)
    BY <1>1, ThoughtShownAppend
  <2>2. ThoughtShown(ts, m) = ThoughtShown(F, m) \o ThoughtIn(t.blocks, m)
    BY <1>1, ThoughtShownAppend
  <2>3. ThoughtIn(u.blocks, m) = ThoughtIn(t.blocks, m) /\ (OpenThought(u.blocks, m) => OpenThought(t.blocks, m))
    BY <1>1 DEF Says
  <2> QED BY <1>2, <2>1, <2>2, <2>3, Zenon
<1>5. ThoughtsClosed(Last(ts).blocks) => ThoughtsClosed(Last(us).blocks)
  BY <1>1, <1>2 DEF Says
<1> QED BY <1>3, <1>4, <1>5

(* The last of the texts is continued. *)
Continued(parts, more, text) ==
    \E X \in Seq(ThoughtTexts), p \in ThoughtTexts : parts = Append(X, p) /\ more = Append(X, p \o text)

(* The last of the texts is this one. *)
EndsIn(parts, text) == \E X \in Seq(ThoughtTexts) : parts = Append(X, text)

LEMMA ThoughtShows ==
    ASSUME NEW ts, NEW us, NEW n, NEW text \in ThoughtTexts, NEW id \in Thoughts, NEW replace,
           Thought(ts, us, n, text, id, replace)
    PROVE  /\ \A m \in Contents : MessageShown(us, m) = MessageShown(ts, m)
           /\ \A m \in Contents \ {id} :
                /\ ThoughtShown(us, m) = ThoughtShown(ts, m)
                /\ OpenThought(Last(us).blocks, m) => OpenThought(Last(ts).blocks, m)
           /\ ~replace => \/ ThoughtShown(us, id) = Append(ThoughtShown(ts, id), text)
                          \/ /\ OpenThought(Last(ts).blocks, id)
                             /\ Continued(ThoughtShown(ts, id), ThoughtShown(us, id), text)
           /\ replace /\ text = <<>> => ~OpenThought(Last(us).blocks, id)
<1>1. PICK F \in Seq(ConversationTurns), t \in ConversationTurns, u \in ConversationTurns :
        ts = Append(F, t) /\ us = Append(F, u) /\ Thinks(t.blocks, u.blocks, text, id, replace)
  BY DEF Thought
<1>2. Last(us) = u /\ Last(ts) = t
  BY <1>1, LastOfAppend
<1>3. ASSUME NEW m \in Contents
      PROVE  MessageShown(us, m) = MessageShown(ts, m)
  <2>1. MessageShown(us, m) = MessageShown(F, m) \o MessageIn(u.blocks, m)
    BY <1>1, MessageShownAppend
  <2>2. MessageShown(ts, m) = MessageShown(F, m) \o MessageIn(t.blocks, m)
    BY <1>1, MessageShownAppend
  <2>3. MessageIn(u.blocks, m) = MessageIn(t.blocks, m)
    BY <1>1 DEF Thinks
  <2> QED BY <2>1, <2>2, <2>3, Zenon
<1>4. \A m : /\ ThoughtShown(us, m) = ThoughtShown(F, m) \o ThoughtIn(u.blocks, m)
             /\ ThoughtShown(ts, m) = ThoughtShown(F, m) \o ThoughtIn(t.blocks, m)
  BY <1>1, ThoughtShownAppend
<1>5. ASSUME NEW m \in Contents \ {id}
      PROVE  /\ ThoughtShown(us, m) = ThoughtShown(ts, m)
             /\ OpenThought(Last(us).blocks, m) => OpenThought(Last(ts).blocks, m)
  <2>1. ThoughtIn(u.blocks, m) = ThoughtIn(t.blocks, m) /\ (OpenThought(u.blocks, m) => OpenThought(t.blocks, m))
    BY <1>1 DEF Thinks
  <2> QED BY <1>2, <1>4, <2>1, Zenon
<1>6. PICK f \in Seq(ThoughtTexts), g \in Seq(ThoughtTexts) : f = ThoughtShown(F, id) /\ g = ThoughtIn(t.blocks, id)
  BY ThoughtShownType, ThoughtInType, BlocksOfTurns
<1>7. ThoughtShown(ts, id) = f \o g /\ ThoughtShown(us, id) = f \o ThoughtIn(u.blocks, id)
  BY <1>4, <1>6, Zenon
<1>8. ASSUME ~replace
      PROVE  \/ ThoughtShown(us, id) = Append(ThoughtShown(ts, id), text)
             \/ /\ OpenThought(Last(ts).blocks, id)
                /\ Continued(ThoughtShown(ts, id), ThoughtShown(us, id), text)
  <2>1. CASE ThoughtIn(u.blocks, id) = Append(g, text)
    <3>1. f \o Append(g, text) = Append(f \o g, text)
      BY ConcatAppend
    <3> QED BY <1>7, <2>1, <3>1, Zenon
  <2>2. ASSUME OpenThought(t.blocks, id), NEW X \in Seq(ThoughtTexts), NEW p \in ThoughtTexts,
               g = Append(X, p), ThoughtIn(u.blocks, id) = Append(X, p \o text)
        PROVE  /\ OpenThought(Last(ts).blocks, id)
               /\ Continued(ThoughtShown(ts, id), ThoughtShown(us, id), text)
    <3>1. PICK q \in ThoughtTexts : q = p \o text
      <4>1. p \o text \in ThoughtTexts
        BY ThoughtTextGrows
      <4> QED BY <4>1
    <3>2. f \o Append(X, p) = Append(f \o X, p) /\ f \o X \in Seq(ThoughtTexts)
      BY ConcatAppend
    <3>3. f \o Append(X, q) = Append(f \o X, q)
      BY ConcatAppend
    <3> QED BY <1>2, <1>7, <2>2, <3>1, <3>2, <3>3, Zenon DEF Continued
  <2>3. \/ ThoughtIn(u.blocks, id) = Append(g, text)
        \/ OpenThought(t.blocks, id) /\ \E X \in Seq(ThoughtTexts), p \in ThoughtTexts :
             g = Append(X, p) /\ ThoughtIn(u.blocks, id) = Append(X, p \o text)
    BY <1>1, <1>6, <1>8, Zenon DEF Thinks
  <2> QED BY <2>1, <2>2, <2>3
<1>9. replace /\ text = <<>> => ~OpenThought(Last(us).blocks, id)
  BY <1>1, <1>2, Zenon DEF Thinks
<1> QED BY <1>3, <1>5, <1>8, <1>9

LEMMA ThoughtShowsMore ==
    ASSUME NEW ts, NEW us, NEW n, NEW text \in ThoughtTexts, NEW id \in Thoughts,
           Thought(ts, us, n, text, id, FALSE)
    PROVE  \/ ThoughtShown(us, id) = Append(ThoughtShown(ts, id), text)
           \/ /\ OpenThought(Last(ts).blocks, id)
              /\ Continued(ThoughtShown(ts, id), ThoughtShown(us, id), text)
<1>1. ASSUME NEW replace, Thought(ts, us, n, text, id, replace), ~replace
      PROVE  \/ ThoughtShown(us, id) = Append(ThoughtShown(ts, id), text)
             \/ /\ OpenThought(Last(ts).blocks, id)
                /\ Continued(ThoughtShown(ts, id), ThoughtShown(us, id), text)
  BY <1>1, ThoughtShows
<1> QED BY <1>1

LEMMA ThoughtShowsAnew ==
    ASSUME NEW ts, NEW us, NEW n, NEW text \in ThoughtTexts, NEW id \in Thoughts, NEW replace, replace,
           Thought(ts, us, n, text, id, replace), text # <<>>
    PROVE  EndsIn(ThoughtShown(us, id), text)
<1>1. PICK F \in Seq(ConversationTurns), t \in ConversationTurns, u \in ConversationTurns :
        ts = Append(F, t) /\ us = Append(F, u) /\ Thinks(t.blocks, u.blocks, text, id, replace)
  BY DEF Thought
<1>2. ThoughtShown(us, id) = ThoughtShown(F, id) \o ThoughtIn(u.blocks, id)
  BY <1>1, ThoughtShownAppend
<1>3. PICK f \in Seq(ThoughtTexts) : f = ThoughtShown(F, id)
  BY ThoughtShownType
<1>4. PICK X \in Seq(ThoughtTexts) : ThoughtIn(u.blocks, id) = Append(X, text)
  BY <1>1 DEF Thinks
<1>5. f \o Append(X, text) = Append(f \o X, text) /\ f \o X \in Seq(ThoughtTexts)
  BY ConcatAppend
<1> QED BY <1>2, <1>3, <1>4, <1>5, Zenon DEF EndsIn

LEMMA ThoughtShowsInstead ==
    ASSUME NEW ts, NEW us, NEW n, NEW text \in ThoughtTexts, NEW id \in Thoughts,
           Thought(ts, us, n, text, id, TRUE)
    PROVE  /\ text # <<>> => EndsIn(ThoughtShown(us, id), text)
           /\ text = <<>> => ~OpenThought(Last(us).blocks, id)
<1>1. ASSUME NEW replace, Thought(ts, us, n, text, id, replace), replace
      PROVE  /\ text # <<>> => EndsIn(ThoughtShown(us, id), text)
             /\ text = <<>> => ~OpenThought(Last(us).blocks, id)
  <2>1. ASSUME text # <<>>  PROVE EndsIn(ThoughtShown(us, id), text)
    BY <1>1, <2>1, ThoughtShowsAnew
  <2>2. replace /\ text = <<>> => ~OpenThought(Last(us).blocks, id)
    BY <1>1, ThoughtShows
  <2> QED BY <1>1, <2>1, <2>2, Zenon
<1> QED BY <1>1

-----------------------------------------------------------------------------
(* The turns show what the Agent has written: of each message all of it, of   *)
(* each thought its present text in the last blocks. A thought that can be    *)
(* continued is among these.                                                  *)
Agrees(parts, text, open) ==
    \E old \in Seq(ThoughtTexts), rest \in Seq(ThoughtTexts) :
      parts = old \o rest /\ FlattenSeq(rest) = text /\ (open => rest # <<>>)

ThoughtAgrees(ts, m, text) == Agrees(ThoughtShown(ts, m), text, OpenThought(Last(ts).blocks, m))

TextAgrees(ts, texts, lost) ==
    /\ \A m \in Messages \ lost : MessageShown(ts, m) = texts[m]
    /\ \A m \in Thoughts \ lost : ThoughtAgrees(ts, m, texts[m])

LEMMA QuietAgrees ==
    ASSUME NEW ts, NEW us, NEW n, Told(ts, us, n, <<>>), NEW texts, NEW lost, TextAgrees(ts, texts, lost)
    PROVE  TextAgrees(us, texts, lost)
<1>0. PICK none \in MessageTexts : none = <<>>
  <2>1. <<>> \in MessageTexts
    BY DEF MessageTexts
  <2> QED BY <2>1, Zenon
<1>1. /\ \A m \in Contents :
                /\ MessageShown(us, m) = MessageShown(ts, m) \o Kept(none, Pieces(m))
                /\ ThoughtShown(us, m) = ThoughtShown(ts, m)
                /\ OpenThought(Last(us).blocks, m) => OpenThought(Last(ts).blocks, m)
  BY <1>0, ToldShows
<1>2. ASSUME NEW m \in Messages \ lost  PROVE MessageShown(us, m) = texts[m]
  <2>1. MessageShown(us, m) = MessageShown(ts, m) \o Kept(none, Pieces(m))
    BY <1>1 DEF Contents
  <2>2. Kept(none, Pieces(m)) = <<>>
    BY <1>0, KeptNothing
  <2>3. MessageShown(ts, m) = texts[m]
    BY DEF TextAgrees
  <2>4. PICK s \in Seq(Messages \X (1..MaxUpdates)) : s = MessageShown(ts, m)
    <3>1. ts \in Seq(ConversationTurns)
      BY ToldReady
    <3> QED BY <3>1, MessageShownType
  <2>5. s \o <<>> = s
    OBVIOUS
  <2> QED BY <2>1, <2>2, <2>3, <2>4, <2>5, Zenon
<1>3. ASSUME NEW m \in Thoughts \ lost  PROVE ThoughtAgrees(us, m, texts[m])
  <2>1. ThoughtAgrees(ts, m, texts[m])
    BY DEF TextAgrees
  <2>2. ThoughtShown(us, m) = ThoughtShown(ts, m) /\ (OpenThought(Last(us).blocks, m) => OpenThought(Last(ts).blocks, m))
    BY <1>1 DEF Contents
  <2> QED BY <2>1, <2>2, Zenon DEF ThoughtAgrees, Agrees
<1> QED BY <1>2, <1>3 DEF TextAgrees

LEMMA KeptPieces ==
    ASSUME NEW m, NEW text \in Seq(Pieces(m))
    PROVE  Kept(text, Pieces(m)) = text /\ \A k : k # m => Kept(text, Pieces(k)) = <<>>
<1>1. Kept(text, Pieces(m)) = text
  BY KeptWhole
<1>2. ASSUME NEW k, k # m  PROVE Kept(text, Pieces(k)) = <<>>
  <2>1. Pieces(m) \cap Pieces(k) = {}
    BY <1>2 DEF Pieces
  <2> QED BY <2>1, KeptNone
<1> QED BY <1>1, <1>2

LEMMA MessageAgrees ==
    ASSUME NEW ts, NEW us, NEW n, NEW m \in Messages, NEW text \in Seq(Pieces(m)), Told(ts, us, n, text),
           NEW lost, NEW texts, NEW after, TextAgrees(ts, texts, lost),
           \A k \in Contents : after[k] = IF k = m THEN texts[k] \o text ELSE texts[k]
    PROVE  TextAgrees(us, after, lost)
<1>0. text \in MessageTexts
  <2>1. Pieces(m) \subseteq Messages \X (1..MaxUpdates)
    BY DEF Pieces
  <2> QED BY <2>1, SeqMonotonic DEF MessageTexts
<1>1. \A k \in Contents :
                /\ MessageShown(us, k) = MessageShown(ts, k) \o Kept(text, Pieces(k))
                /\ ThoughtShown(us, k) = ThoughtShown(ts, k)
                /\ OpenThought(Last(us).blocks, k) => OpenThought(Last(ts).blocks, k)
  BY <1>0, ToldShows
<1>2. ASSUME NEW k \in Messages \ lost  PROVE MessageShown(us, k) = after[k]
  <2>1. MessageShown(us, k) = MessageShown(ts, k) \o Kept(text, Pieces(k))
    BY <1>1 DEF Contents
  <2>2. MessageShown(ts, k) = texts[k]
    BY DEF TextAgrees
  <2>3. CASE k = m
    <3>1. after[k] = texts[k] \o text
      BY <2>3 DEF Contents
    <3>2. Kept(text, Pieces(k)) = text
      BY <2>3, KeptPieces
    <3> QED BY <2>1, <2>2, <3>1, <3>2, Zenon
  <2>4. CASE k # m
    <3>1. after[k] = texts[k]
      BY <2>4 DEF Contents
    <3>2. Kept(text, Pieces(k)) = <<>>
      BY <2>4, KeptPieces
    <3>3. PICK s \in Seq(Messages \X (1..MaxUpdates)) : s = MessageShown(ts, k)
      <4>1. ts \in Seq(ConversationTurns)
        BY ToldReady
      <4> QED BY <4>1, MessageShownType
    <3>4. s \o <<>> = s
      OBVIOUS
    <3> QED BY <2>1, <2>2, <3>1, <3>2, <3>3, <3>4, Zenon
  <2> QED BY <2>3, <2>4
<1>3. ASSUME NEW k \in Thoughts \ lost  PROVE ThoughtAgrees(us, k, after[k])
  <2>1. ThoughtAgrees(ts, k, texts[k])
    BY DEF TextAgrees
  <2>2. ThoughtShown(us, k) = ThoughtShown(ts, k) /\ (OpenThought(Last(us).blocks, k) => OpenThought(Last(ts).blocks, k))
    BY <1>1 DEF Contents
  <2>3. after[k] = texts[k]
    BY ContentAssumption DEF Contents
  <2> QED BY <2>1, <2>2, <2>3, Zenon DEF ThoughtAgrees, Agrees
<1> QED BY <1>2, <1>3 DEF TextAgrees

(* Of a thought that is continued or begun the last block shows more. *)
LEMMA LastTexts ==
    ASSUME NEW rest \in Seq(ThoughtTexts), rest # <<>>
    PROVE  \E r \in Seq(ThoughtTexts), q \in ThoughtTexts : rest = Append(r, q)
<1>1. Front(rest) \in Seq(ThoughtTexts) /\ Last(rest) \in ThoughtTexts /\ rest = Append(Front(rest), Last(rest))
  BY LastOfSequence
<1> QED BY <1>1, Zenon

EndsAlike(Y, q, X, p) == Append(Y, q) = Append(X, p) => Y = X /\ q = p

LEMMA SameEnd ==
    ASSUME NEW Y \in Seq(ThoughtTexts), NEW X \in Seq(ThoughtTexts), NEW q \in ThoughtTexts,
           NEW p \in ThoughtTexts
    PROVE  EndsAlike(Y, q, X, p)
<1>1. Front(Append(Y, q)) = Y /\ Last(Append(Y, q)) = q
  BY LastOfAppend
<1>2. Front(Append(X, p)) = X /\ Last(Append(X, p)) = p
  BY LastOfAppend
<1> QED BY <1>1, <1>2, Zenon DEF EndsAlike

Added(old, rest, text) ==
    \E r \in Seq(ThoughtTexts) :
      /\ r = Append(rest, text) /\ r # <<>>
      /\ old \o r = Append(old \o rest, text)
      /\ FlattenSeq(r) = FlattenSeq(rest) \o text

LEMMA TextAddedAtEnd ==
    ASSUME NEW old \in Seq(ThoughtTexts), NEW rest \in Seq(ThoughtTexts), NEW text \in ThoughtTexts
    PROVE  Added(old, rest, text)
<1>1. old \o Append(rest, text) = Append(old \o rest, text)
  BY ConcatAppend
<1>2. FlattenSeq(Append(rest, text)) = FlattenSeq(rest) \o text
  BY FlattenAppend DEF ThoughtTexts
<1>3. Append(rest, text) \in Seq(ThoughtTexts) /\ Append(rest, text) # <<>>
  BY LastOfAppend
<1> QED BY <1>1, <1>2, <1>3, Zenon DEF Added

LEMMA AgreesMore ==
    ASSUME NEW parts, NEW before, NEW open, Agrees(parts, before, open), NEW text \in ThoughtTexts, NEW after
    PROVE  Agrees(Append(parts, text), before \o text, after)
<1>1. PICK old \in Seq(ThoughtTexts), rest \in Seq(ThoughtTexts) :
        parts = old \o rest /\ FlattenSeq(rest) = before
  BY DEF Agrees
<1>2. PICK r \in Seq(ThoughtTexts) :
             /\ r = Append(rest, text) /\ r # <<>>
             /\ old \o r = Append(old \o rest, text)
             /\ FlattenSeq(r) = FlattenSeq(rest) \o text
  <2>1. Added(old, rest, text)
    BY TextAddedAtEnd
  <2> QED BY <2>1, Zenon DEF Added
<1>3. Append(parts, text) = old \o r /\ FlattenSeq(r) = before \o text
  BY <1>1, <1>2, Zenon
<1> QED BY <1>2, <1>3, Zenon DEF Agrees

LEMMA TextsRegrouped ==
    ASSUME NEW s \in Seq(ThoughtTexts), NEW p \in ThoughtTexts, NEW text \in ThoughtTexts
    PROVE  (FlattenSeq(s) \o p) \o text = FlattenSeq(s) \o (p \o text)
<1>1. s \in Seq(Seq(Thoughts \X (1..MaxUpdates)))
  BY DEF ThoughtTexts
<1>2. FlattenSeq(s) \in Seq(Thoughts \X (1..MaxUpdates))
  BY <1>1, FlattenType
<1>3. p \in Seq(Thoughts \X (1..MaxUpdates)) /\ text \in Seq(Thoughts \X (1..MaxUpdates))
  BY DEF ThoughtTexts
<1>4. PICK T : T = Thoughts \X (1..MaxUpdates)
  OBVIOUS
<1>5. PICK f \in Seq(T), g \in Seq(T), k \in Seq(T) : f = FlattenSeq(s) /\ g = p /\ k = text
  BY <1>2, <1>3, <1>4, Zenon
<1>6. (f \o g) \o k = f \o (g \o k)
  BY Regrouped, SMTT(30)
<1> QED BY <1>5, <1>6, Zenon

LEMMA AgreesContinued ==
    ASSUME NEW parts, NEW more, NEW before, Agrees(parts, before, TRUE), NEW text \in ThoughtTexts,
           Continued(parts, more, text), NEW after
    PROVE  Agrees(more, before \o text, after)
<1>1. PICK old \in Seq(ThoughtTexts), rest \in Seq(ThoughtTexts) :
        parts = old \o rest /\ FlattenSeq(rest) = before /\ rest # <<>>
  BY Zenon DEF Agrees
<1>2. PICK s \in Seq(ThoughtTexts), q \in ThoughtTexts : rest = Append(s, q)
  BY <1>1, LastTexts
<1>3. PICK X \in Seq(ThoughtTexts), p \in ThoughtTexts : parts = Append(X, p) /\ more = Append(X, p \o text)
  BY DEF Continued
<1>4. PICK Y \in Seq(ThoughtTexts) : Y = old \o s
  <2>1. old \o s \in Seq(ThoughtTexts)
    BY ConcatAppend
  <2> QED BY <2>1, Zenon
<1>5. PICK z \in ThoughtTexts : z = q \o text
  <2>1. q \o text \in ThoughtTexts
    BY ThoughtTextGrows
  <2> QED BY <2>1, Zenon
<1>6. PICK v \in Seq(ThoughtTexts) :
        v = Append(s, q) /\ old \o v = Append(old \o s, q) /\ FlattenSeq(v) = FlattenSeq(s) \o q
  <2>1. Added(old, s, q)
    BY TextAddedAtEnd
  <2> QED BY <2>1, Zenon DEF Added
<1>7. PICK r \in Seq(ThoughtTexts) :
        r = Append(s, z) /\ r # <<>> /\ old \o r = Append(old \o s, z) /\ FlattenSeq(r) = FlattenSeq(s) \o z
  <2>1. Added(old, s, z)
    BY TextAddedAtEnd
  <2> QED BY <2>1, Zenon DEF Added
<1>8. Y = X /\ q = p
  <2>1. Append(Y, q) = Append(X, p)
    BY <1>1, <1>2, <1>3, <1>4, <1>6, Zenon
  <2>2. EndsAlike(Y, q, X, p)
    BY SameEnd
  <2> QED BY <2>1, <2>2, Zenon DEF EndsAlike
<1>9. more = old \o r
  BY <1>3, <1>4, <1>5, <1>7, <1>8, Zenon
<1>10. FlattenSeq(r) = before \o text
  <2>1. (FlattenSeq(s) \o q) \o text = FlattenSeq(s) \o (q \o text)
    BY TextsRegrouped
  <2> QED BY <1>1, <1>2, <1>5, <1>6, <1>7, <2>1, Zenon
<1> QED BY <1>7, <1>9, <1>10, Zenon DEF Agrees

LEMMA AgreesAnew ==
    ASSUME NEW X \in Seq(ThoughtTexts), NEW text \in ThoughtTexts, NEW open
    PROVE  Agrees(Append(X, text), text, open)
<1>1. PICK none \in Seq(ThoughtTexts) : none = <<>>
  <2>1. <<>> \in Seq(ThoughtTexts)
    OBVIOUS
  <2> QED BY <2>1, Zenon
<1>2. PICK r \in Seq(ThoughtTexts) :
        /\ r = Append(none, text) /\ r # <<>> /\ X \o r = Append(X \o none, text)
        /\ FlattenSeq(r) = FlattenSeq(none) \o text
  <2>1. Added(X, none, text)
    BY TextAddedAtEnd
  <2> QED BY <2>1, Zenon DEF Added
<1>3. X \o <<>> = X /\ <<>> \o text = text
  BY DEF ThoughtTexts
<1>4. Append(X, text) = X \o r /\ FlattenSeq(r) = text
  BY <1>1, <1>2, <1>3, FlattenNothing, Zenon
<1> QED BY <1>2, <1>4, Zenon DEF Agrees

LEMMA AgreesNothing ==
    ASSUME NEW parts \in Seq(ThoughtTexts)
    PROVE  Agrees(parts, <<>>, FALSE)
<1>1. <<>> \in Seq(ThoughtTexts) /\ parts \o <<>> = parts
  OBVIOUS
<1> QED BY <1>1, FlattenNothing, Zenon DEF Agrees

LEMMA ContinuedAgrees ==
    ASSUME NEW ts, NEW us, NEW n, NEW id \in Thoughts, NEW text \in ThoughtTexts,
           Thought(ts, us, n, text, id, FALSE), NEW before, ThoughtAgrees(ts, id, before)
    PROVE  ThoughtAgrees(us, id, before \o text)
<1>1. Agrees(ThoughtShown(ts, id), before, OpenThought(Last(ts).blocks, id))
  BY DEF ThoughtAgrees
<1>2. PICK parts, more, open, after :
        /\ parts = ThoughtShown(ts, id) /\ more = ThoughtShown(us, id) /\ open = OpenThought(Last(ts).blocks, id)
        /\ after = OpenThought(Last(us).blocks, id)
  OBVIOUS
<1>3. more = Append(parts, text) \/ (OpenThought(Last(ts).blocks, id) /\ Continued(parts, more, text))
  BY <1>2, ThoughtShowsMore
<1>4. CASE more = Append(parts, text)
  <2>1. Agrees(Append(parts, text), before \o text, after)
    BY <1>1, <1>2, AgreesMore
  <2> QED BY <1>2, <1>4, <2>1, Zenon DEF ThoughtAgrees
<1>5. CASE OpenThought(Last(ts).blocks, id) /\ Continued(parts, more, text)
  <2>1. Agrees(parts, before, TRUE)
    BY <1>1, <1>2, <1>5, Zenon DEF Agrees
  <2>2. Agrees(more, before \o text, after)
    BY <1>5, <2>1, AgreesContinued
  <2> QED BY <1>2, <2>2, Zenon DEF ThoughtAgrees
<1> QED BY <1>3, <1>4, <1>5

LEMMA ReplacedAgrees ==
    ASSUME NEW ts, NEW us, NEW n, NEW id \in Thoughts, NEW text \in ThoughtTexts,
           Thought(ts, us, n, text, id, TRUE)
    PROVE  ThoughtAgrees(us, id, text)
<1>1. CASE text # <<>>
  <2>1. PICK X \in Seq(ThoughtTexts) : ThoughtShown(us, id) = Append(X, text)
    BY <1>1, ThoughtShowsInstead DEF EndsIn
  <2>2. PICK open : open = OpenThought(Last(us).blocks, id)
    OBVIOUS
  <2>3. Agrees(Append(X, text), text, open)
    BY AgreesAnew
  <2> QED BY <2>1, <2>2, <2>3, Zenon DEF ThoughtAgrees
<1>2. CASE text = <<>>
  <2>1. ~OpenThought(Last(us).blocks, id)
    BY <1>2, ThoughtShowsInstead
  <2>2. PICK s \in Seq(ThoughtTexts) : s = ThoughtShown(us, id)
    BY ThoughtReady, ThoughtShownType DEF Ready
  <2>3. Agrees(s, <<>>, FALSE)
    BY AgreesNothing
  <2>4. Agrees(s, text, OpenThought(Last(us).blocks, id))
    BY <1>2, <2>1, <2>3, Zenon DEF Agrees
  <2> QED BY <2>2, <2>4, Zenon DEF ThoughtAgrees
<1> QED BY <1>1, <1>2

LEMMA ThoughtDeltaAgrees ==
    ASSUME NEW ts, NEW us, NEW n, NEW id \in Thoughts, NEW text \in ThoughtTexts, NEW replace \in BOOLEAN,
           Thought(ts, us, n, text, id, replace), NEW lost, NEW texts, NEW after, TextAgrees(ts, texts, lost),
           \A k \in Contents : after[k] = IF k # id THEN texts[k] ELSE IF replace THEN text ELSE texts[k] \o text
    PROVE  TextAgrees(us, after, lost)
<1>1. ASSUME NEW k \in Messages \ lost  PROVE MessageShown(us, k) = after[k]
  <2>1. MessageShown(us, k) = MessageShown(ts, k)
    BY ThoughtShows DEF Contents
  <2>2. k # id /\ after[k] = texts[k]
    BY ContentAssumption DEF Contents
  <2> QED BY <2>1, <2>2 DEF TextAgrees
<1>2. ASSUME NEW k \in Thoughts \ lost  PROVE ThoughtAgrees(us, k, after[k])
  <2>0. ThoughtAgrees(ts, k, texts[k]) /\ k \in Contents
    BY DEF TextAgrees, Contents
  <2>1. CASE k # id
    <3>1. ThoughtShown(us, k) = ThoughtShown(ts, k) /\ (OpenThought(Last(us).blocks, k) => OpenThought(Last(ts).blocks, k))
      BY <2>0, <2>1, ThoughtShows
    <3>2. after[k] = texts[k]
      BY <2>0, <2>1
    <3> QED BY <2>0, <3>1, <3>2, Zenon DEF ThoughtAgrees, Agrees
  <2>2. CASE k = id /\ replace = FALSE
    <3>1. ThoughtAgrees(us, id, texts[id] \o text)
      BY <2>0, <2>2, ContinuedAgrees
    <3> QED BY <2>0, <2>2, <3>1
  <2>3. CASE k = id /\ replace = TRUE
    <3>1. ThoughtAgrees(us, id, text)
      BY <2>3, ReplacedAgrees
    <3> QED BY <2>0, <2>3, <3>1
  <2> QED BY <2>1, <2>2, <2>3
<1> QED BY <1>1, <1>2 DEF TextAgrees

-----------------------------------------------------------------------------
(* Turns show what the Agent has written, and can take the events to come.    *)
Faithful(ts, n, texts, lost) ==
    /\ n \in Nat /\ ts \in Seq(ConversationTurns)
    /\ ts = <<>> => \A m \in Contents : texts[m] = <<>>
    /\ ts # <<>> => Last(ts).lastEvent <= n /\ ThoughtsClosed(Last(ts).blocks) /\ TextAgrees(ts, texts, lost)

SameUsers(ts, us) ==
    ts \in Seq(ConversationTurns) /\ us \in Seq(ConversationTurns) /\ Len(us) = Len(ts)
    /\ \A i \in 1..Len(ts) : us[i].user = ts[i].user

(* What the turns ts become. *)
Become(ts, us, n, texts, lost) == Faithful(us, n, texts, lost) /\ us # <<>> /\ SameUsers(ts, us)

LEMMA FaithfulReady ==
    ASSUME NEW ts, NEW n, NEW texts, NEW lost, Faithful(ts, n, texts, lost), ts # <<>>
    PROVE  Ready(ts, n) /\ ThoughtsClosed(Last(ts).blocks) /\ TextAgrees(ts, texts, lost)
BY DEF Faithful, Ready

LEMMA ToldUsers ==
    ASSUME NEW ts, NEW us, NEW n, NEW text, Told(ts, us, n, text)
    PROVE  Ready(us, n) /\ us # <<>> /\ SameUsers(ts, us)
<1>1. Ready(us, n) /\ ts \in Seq(ConversationTurns) /\ ts # <<>> /\ Len(us) = Len(ts)
           /\ \A i \in 1..Len(ts) : us[i].user = ts[i].user
  BY ToldReady
<1> QED BY <1>1, Zenon DEF Ready, SameUsers

LEMMA ThoughtUsers ==
    ASSUME NEW ts, NEW us, NEW n, NEW text, NEW id, NEW replace, Thought(ts, us, n, text, id, replace)
    PROVE  Ready(us, n) /\ us # <<>> /\ SameUsers(ts, us) /\ ThoughtsClosed(Last(us).blocks)
<1>1. Ready(us, n) /\ ts \in Seq(ConversationTurns) /\ ts # <<>> /\ Len(us) = Len(ts)
           /\ (\A i \in 1..Len(ts) : us[i].user = ts[i].user)
           /\ ThoughtsClosed(Last(us).blocks)
  BY ThoughtReady
<1> QED BY <1>1, Zenon DEF Ready, SameUsers

LEMMA BecomeFrom ==
    ASSUME NEW ts, NEW us, NEW n, Ready(us, n), us # <<>>, SameUsers(ts, us), ThoughtsClosed(Last(us).blocks),
           NEW texts, NEW lost, TextAgrees(us, texts, lost)
    PROVE  Become(ts, us, n, texts, lost)
BY Zenon DEF Become, Faithful, Ready

LEMMA ToldBecomes ==
    ASSUME NEW ts, NEW n, NEW texts, NEW lost, Faithful(ts, n, texts, lost), ts # <<>>,
           NEW us, NEW k, Told(ts, us, k, <<>>)
    PROVE  Become(ts, us, k, texts, lost)
<1>1. ThoughtsClosed(Last(ts).blocks) /\ TextAgrees(ts, texts, lost)
  BY FaithfulReady
<1>2. Ready(us, k) /\ us # <<>> /\ SameUsers(ts, us)
  BY ToldUsers
<1>3. ThoughtsClosed(Last(us).blocks)
  <2>1. PICK none \in MessageTexts : none = <<>>
    <3>1. <<>> \in MessageTexts
      BY DEF MessageTexts
    <3> QED BY <3>1, Zenon
  <2> QED BY <1>1, <2>1, ToldShows
<1>4. TextAgrees(us, texts, lost)
  BY <1>1, QuietAgrees
<1> QED BY <1>2, <1>3, <1>4, BecomeFrom

LEMMA QuietEvent ==
    ASSUME NEW ts, NEW n, NEW texts, NEW lost, Faithful(ts, n, texts, lost), ts # <<>>, NEW e \in QuietEvents
    PROVE  Become(ts, ApplyEvent(ts, n + 1, e), n + 1, texts, lost)
<1>1. Ready(ts, n)
  BY FaithfulReady
<1>2. PICK none : none = <<>>
  OBVIOUS
<1>3. \A t \in ConversationTurns : Tells(t, Apply(t, e), none)
  BY <1>2, ApplyQuiet
<1>4. Told(ts, ApplyEvent(ts, n + 1, e), n + 1, none)
  BY <1>1, <1>3, ToldEvent
<1> QED BY <1>2, <1>4, ToldBecomes

LEMMA BecomeThen ==
    ASSUME NEW ts, NEW us, NEW vs, NEW n, NEW k, NEW texts, NEW lost, NEW after,
           Become(ts, us, n, texts, lost), Become(us, vs, k, after, lost)
    PROVE  Become(ts, vs, k, after, lost)
BY DEF Become, SameUsers

LEMMA BecomeSame ==
    ASSUME NEW ts, NEW n, NEW texts, NEW lost, Faithful(ts, n, texts, lost), ts # <<>>
    PROVE  Become(ts, ts, n, texts, lost)
BY DEF Become, SameUsers, Faithful

(* Events that say nothing. *)
Quiet(events) ==
    events = <<>> \/ (\E e \in QuietEvents : events = <<e>>) \/ \E e \in QuietEvents, d \in QuietEvents : events = <<e, d>>

LEMMA QuietBecomes ==
    ASSUME NEW ts, NEW n, NEW texts, NEW lost, Faithful(ts, n, texts, lost), ts # <<>>, NEW events, Quiet(events)
    PROVE  Become(ts, ApplyEvents(ts, n, events), n + Len(events), texts, lost)
<1>0. n \in Nat
  BY DEF Faithful
<1>1. CASE events = <<>>
  <2>1. n + Len(events) = n
    BY <1>0, <1>1
  <2>2. ApplyEvents(ts, n, events) = ts
    BY <1>1, ApplyNone
  <2> QED BY <2>1, <2>2, BecomeSame
<1>2. ASSUME NEW e \in QuietEvents, events = <<e>>
      PROVE  Become(ts, ApplyEvents(ts, n, events), n + Len(events), texts, lost)
  <2>1. Len(events) = 1
    BY <1>2
  <2>2. ApplyEvents(ts, n, events) = ApplyEvent(ts, n + 1, e)
    BY <1>2, ApplyTwo
  <2> QED BY <2>1, <2>2, QuietEvent
<1>3. ASSUME NEW e \in QuietEvents, NEW d \in QuietEvents, events = <<e, d>>
      PROVE  Become(ts, ApplyEvents(ts, n, events), n + Len(events), texts, lost)
  <2>1. Len(events) = 2 /\ (n + 1) + 1 = n + 2
    BY <1>0, <1>3
  <2>2. PICK us : us = ApplyEvent(ts, n + 1, e)
    OBVIOUS
  <2>3. ApplyEvents(ts, n, events) = ApplyEvent(us, n + 2, d)
    <3>1. ApplyEvents(ts, n, events) = ApplyEvent(ApplyEvent(ts, n + 1, e), n + 2, d)
      BY <1>3, ApplyTwo
    <3> QED BY <2>2, <3>1, Zenon
  <2>4. Become(ts, us, n + 1, texts, lost)
    BY <2>2, QuietEvent
  <2>5. PICK k : k = n + 1
    OBVIOUS
  <2>6. Become(us, ApplyEvent(us, k + 1, d), k + 1, texts, lost)
    BY <2>4, <2>5, QuietEvent DEF Become
  <2>7. Become(ts, ApplyEvent(us, k + 1, d), k + 1, texts, lost)
    BY <2>4, <2>6, BecomeThen
  <2> QED BY <2>1, <2>3, <2>5, <2>7
<1> QED BY <1>1, <1>2, <1>3 DEF Quiet

LEMMA AgreesElsewhere ==
    ASSUME NEW ts, NEW texts, NEW lost, TextAgrees(ts, texts, lost), NEW after, NEW more,
           lost \subseteq more, \A m \in Contents \ more : after[m] = texts[m]
    PROVE  TextAgrees(ts, after, more)
BY DEF TextAgrees, Contents

LEMMA BecomeElsewhere ==
    ASSUME NEW ts, NEW us, NEW n, NEW texts, NEW lost, Become(ts, us, n, texts, lost), NEW after, NEW more,
           lost \subseteq more, \A m \in Contents \ more : after[m] = texts[m]
    PROVE  Become(ts, us, n, after, more)
<1>1. TextAgrees(us, after, more)
  BY AgreesElsewhere DEF Become, Faithful
<1> QED BY <1>1, Zenon DEF Become, Faithful

LEMMA MessageEvent ==
    ASSUME NEW ts, NEW n, Ready(ts, n), NEW text \in MessageTexts, NEW terminal \in BOOLEAN,
           NEW events, events = <<MessageDelta(text, terminal)>>
    PROVE  Told(ts, ApplyEvents(ts, n, events), n + Len(events), text)
<1>1. PICK e : e = MessageDelta(text, terminal)
  OBVIOUS
<1>2. \A t \in ConversationTurns : Tells(t, Apply(t, e), text)
  BY <1>1, ApplyMessage
<1>3. Told(ts, ApplyEvent(ts, n + 1, e), n + 1, text)
  BY <1>2, ToldEvent
<1>4. events = <<e>>
  BY <1>1
<1>5. Len(events) = 1
  BY <1>4
<1>6. ApplyEvents(ts, n, events) = ApplyEvent(ts, n + 1, e)
  BY <1>4, ApplyTwo
<1> QED BY <1>3, <1>5, <1>6

LEMMA MessageBecomes ==
    ASSUME NEW ts, NEW n, NEW texts, NEW lost, Faithful(ts, n, texts, lost), ts # <<>>,
           NEW m \in Messages, NEW text \in Seq(Pieces(m)), NEW terminal \in BOOLEAN,
           NEW events, events = <<MessageDelta(text, terminal)>>,
           NEW after, \A k \in Contents : after[k] = IF k = m THEN texts[k] \o text ELSE texts[k]
    PROVE  Become(ts, ApplyEvents(ts, n, events), n + Len(events), after, lost)
<1>1. Ready(ts, n) /\ ThoughtsClosed(Last(ts).blocks) /\ TextAgrees(ts, texts, lost)
  BY FaithfulReady
<1>2. text \in MessageTexts
  <2>1. Pieces(m) \subseteq Messages \X (1..MaxUpdates)
    BY DEF Pieces
  <2> QED BY <2>1, SeqMonotonic DEF MessageTexts
<1>3. PICK us, k : us = ApplyEvents(ts, n, events) /\ k = n + Len(events)
  OBVIOUS
<1>4. Told(ts, us, k, text)
  BY <1>1, <1>2, <1>3, MessageEvent
<1>5. Ready(us, k) /\ us # <<>> /\ SameUsers(ts, us)
  BY <1>4, ToldUsers
<1>6. ThoughtsClosed(Last(us).blocks)
  BY <1>1, <1>2, <1>4, ToldShows
<1>7. TextAgrees(us, after, lost)
  BY <1>1, <1>4, MessageAgrees
<1>8. Become(ts, us, k, after, lost)
  BY <1>5, <1>6, <1>7, BecomeFrom
<1> QED BY <1>3, <1>8

(* A message whose text need not be right, where nothing is claimed.          *)
LEMMA MessageAmongLost ==
    ASSUME NEW ts, NEW n, NEW texts, Faithful(ts, n, texts, Contents), ts # <<>>,
           NEW text \in MessageTexts, NEW terminal \in BOOLEAN,
           NEW events, events = <<MessageDelta(text, terminal)>>
    PROVE  Become(ts, ApplyEvents(ts, n, events), n + Len(events), texts, Contents)
<1>1. Ready(ts, n) /\ ThoughtsClosed(Last(ts).blocks)
  BY FaithfulReady
<1>3. PICK us, k : us = ApplyEvents(ts, n, events) /\ k = n + Len(events)
  OBVIOUS
<1>4. Told(ts, us, k, text)
  BY <1>1, <1>3, MessageEvent
<1>5. Ready(us, k) /\ us # <<>> /\ SameUsers(ts, us)
  BY <1>4, ToldUsers
<1>6. ThoughtsClosed(Last(us).blocks)
  BY <1>1, <1>4, ToldShows
<1>7. TextAgrees(us, texts, Contents)
  BY DEF TextAgrees, Contents
<1>8. Become(ts, us, k, texts, Contents)
  BY <1>5, <1>6, <1>7, BecomeFrom
<1> QED BY <1>3, <1>8

Rethought(texts, after, text, id, replace) ==
    \A k \in Contents : after[k] = IF k # id THEN texts[k] ELSE IF replace THEN text ELSE texts[k] \o text

LEMMA ThoughtBecomes ==
    ASSUME NEW ts, NEW n, NEW texts, NEW lost, Faithful(ts, n, texts, lost), ts # <<>>,
           NEW id \in Thoughts, NEW text \in Seq(Pieces(id)), NEW replace \in BOOLEAN, ~replace => text # <<>>,
           NEW events, events = <<ThoughtDelta(text, id, replace)>>,
           NEW after, Rethought(texts, after, text, id, replace)
    PROVE  Become(ts, ApplyEvents(ts, n, events), n + Len(events), after, lost)
<1>1. Ready(ts, n) /\ ThoughtsClosed(Last(ts).blocks) /\ TextAgrees(ts, texts, lost)
  BY FaithfulReady
<1>2. text \in ThoughtTexts
  <2>1. Pieces(id) \subseteq Thoughts \X (1..MaxUpdates)
    BY DEF Pieces
  <2> QED BY <2>1, SeqMonotonic DEF ThoughtTexts
<1>3. PICK us, k : us = ApplyEvents(ts, n, events) /\ k = n + Len(events)
  OBVIOUS
<1>4. Thought(ts, us, k, text, id, replace)
  <2>1. PICK e : e = ThoughtDelta(text, id, replace)
    OBVIOUS
  <2>2. Thought(ts, ApplyEvent(ts, n + 1, e), n + 1, text, id, replace)
    BY <1>1, <1>2, <2>1, ThoughtEvent
  <2>3. events = <<e>>
    BY <2>1
  <2>4. Len(events) = 1
    BY <2>3
  <2>5. ApplyEvents(ts, n, events) = ApplyEvent(ts, n + 1, e)
    BY <2>3, ApplyTwo
  <2> QED BY <1>3, <2>2, <2>4, <2>5
<1>5. Ready(us, k) /\ us # <<>> /\ SameUsers(ts, us) /\ ThoughtsClosed(Last(us).blocks)
  BY <1>4, ThoughtUsers
<1>7. TextAgrees(us, after, lost)
  BY <1>1, <1>2, <1>4, ThoughtDeltaAgrees DEF Rethought
<1>8. Become(ts, us, k, after, lost)
  BY <1>5, <1>7, BecomeFrom
<1> QED BY <1>3, <1>8

(* A turn begins. *)
LEMMA EmptyTurnAgrees ==
    ASSUME NEW ts \in Seq(ConversationTurns), NEW t \in ConversationTurns, t.blocks = <<>>, NEW m
    PROVE  /\ MessageShown(Append(ts, t), m) = MessageShown(ts, m)
           /\ ThoughtShown(Append(ts, t), m) = ThoughtShown(ts, m)
           /\ ~OpenThought(Last(Append(ts, t)).blocks, m)
<1>1. MessageShown(Append(ts, t), m) = MessageShown(ts, m) \o <<>>
  <2>1. MessageShown(Append(ts, t), m) = MessageShown(ts, m) \o MessageIn(t.blocks, m)
    BY MessageShownAppend
  <2>2. MessageIn(t.blocks, m) = <<>>
    BY MessageInNothing, Zenon
  <2> QED BY <2>1, <2>2, Zenon
<1>2. ThoughtShown(Append(ts, t), m) = ThoughtShown(ts, m) \o <<>>
  <2>1. ThoughtShown(Append(ts, t), m) = ThoughtShown(ts, m) \o ThoughtIn(t.blocks, m)
    BY ThoughtShownAppend
  <2>2. ThoughtIn(t.blocks, m) = <<>>
    BY ThoughtInNothing, Zenon
  <2> QED BY <2>1, <2>2, Zenon
<1>3. MessageShown(ts, m) \o <<>> = MessageShown(ts, m)
  BY MessageShownType
<1>4. ThoughtShown(ts, m) \o <<>> = ThoughtShown(ts, m)
  BY ThoughtShownType
<1>5. Last(Append(ts, t)) = t
  BY LastOfAppend
<1>6. ~OpenThought(t.blocks, m)
  BY DEF OpenThought, LastIs
<1> QED BY <1>1, <1>2, <1>3, <1>4, <1>5, <1>6

LEMMA TurnBegins ==
    ASSUME NEW ts, NEW n, NEW texts, NEW lost, Faithful(ts, n, texts, lost),
           NEW t \in ConversationTurns, t.blocks = <<>>, NEW k \in Nat, t.lastEvent <= k
    PROVE  Faithful(Append(ts, t), k, texts, lost) /\ Append(ts, t) # <<>>
<1>0. ts \in Seq(ConversationTurns)
  BY DEF Faithful
<1>1. PICK us : us = Append(ts, t)
  OBVIOUS
<1>2. us \in Seq(ConversationTurns) /\ us # <<>> /\ Last(us) = t
  BY <1>0, <1>1, LastOfAppend
<1>3. ThoughtsClosed(t.blocks)
  BY DEF ThoughtsClosed, LastIs
<1>4. \A m : MessageShown(us, m) = MessageShown(ts, m) /\ ThoughtShown(us, m) = ThoughtShown(ts, m)
             /\ ~OpenThought(Last(us).blocks, m)
  BY <1>0, <1>1, EmptyTurnAgrees
<1>5. TextAgrees(us, texts, lost)
  <2>1. CASE ts = <<>>
    <3>1. \A m \in Contents : texts[m] = <<>>
      BY <2>1 DEF Faithful
    <3>2. ASSUME NEW m \in Messages \ lost  PROVE MessageShown(us, m) = texts[m]
      BY <1>4, <2>1, <3>1, MessageShownNothing DEF Contents
    <3>3. ASSUME NEW m \in Thoughts \ lost  PROVE ThoughtAgrees(us, m, texts[m])
      <4>1. ThoughtShown(us, m) = <<>> /\ texts[m] = <<>> /\ ~OpenThought(Last(us).blocks, m)
        BY <1>4, <2>1, <3>1, ThoughtShownNothing DEF Contents
      <4>2. PICK none \in Seq(ThoughtTexts) : none = <<>>
        <5>1. <<>> \in Seq(ThoughtTexts)
          OBVIOUS
        <5> QED BY <5>1, Zenon
      <4>3. Agrees(none, <<>>, FALSE)
        BY AgreesNothing
      <4>4. Agrees(ThoughtShown(us, m), texts[m], OpenThought(Last(us).blocks, m))
        BY <4>1, <4>2, <4>3, Zenon DEF Agrees
      <4> QED BY <4>4 DEF ThoughtAgrees
    <3> QED BY <3>2, <3>3 DEF TextAgrees
  <2>2. CASE ts # <<>>
    <3>1. TextAgrees(ts, texts, lost)
      BY <2>2, FaithfulReady
    <3>2. ASSUME NEW m \in Messages \ lost  PROVE MessageShown(us, m) = texts[m]
      BY <1>4, <3>1 DEF TextAgrees
    <3>3. ASSUME NEW m \in Thoughts \ lost  PROVE ThoughtAgrees(us, m, texts[m])
      <4>1. ThoughtAgrees(ts, m, texts[m])
        BY <3>1 DEF TextAgrees
      <4> QED BY <1>4, <4>1, Zenon DEF ThoughtAgrees, Agrees
    <3> QED BY <3>2, <3>3 DEF TextAgrees
  <2> QED BY <2>1, <2>2
<1> QED BY <1>1, <1>2, <1>3, <1>5 DEF Faithful

-----------------------------------------------------------------------------
(* What the turns show, as the property puts it.                              *)
ShowsText(ts, texts, lost) ==
    /\ \A m \in Messages \ lost : MessageShown(ts, m) = texts[m]
    /\ \A m \in Thoughts \ lost :
         LET parts == ThoughtShown(ts, m)
         IN \E i \in 1..(Len(parts) + 1) : FlattenSeq(SubSeq(parts, i, Len(parts))) = texts[m]

LEMMA TheRest ==
    ASSUME NEW T, NEW old \in Seq(T), NEW rest \in Seq(T)
    PROVE  /\ Len(old) + 1 \in 1..(Len(old \o rest) + 1)
           /\ SubSeq(old \o rest, Len(old) + 1, Len(old \o rest)) = rest
<1>1. PICK k \in Nat, l \in Nat : k = Len(old) /\ l = Len(rest)
  OBVIOUS
<1>2. old \o rest \in Seq(T) /\ Len(old \o rest) = k + l
  BY <1>1
<1>3. \A i \in 1..l : (old \o rest)[k + i] = rest[i]
  BY <1>1
<1>4. PICK z \in Seq(T) : z = old \o rest
  BY <1>2
<1>5. SubSeq(z, k + 1, k + l) = [i \in 1..l |-> z[k + i]]
  <2>1. (k + l) - (k + 1) + 1 = l /\ \A i \in 1..l : i + (k + 1) - 1 = k + i
    OBVIOUS
  <2>2. SubSeq(z, k + 1, k + l) = [i \in 1..((k + l) - (k + 1) + 1) |-> z[i + (k + 1) - 1]]
    OBVIOUS
  <2> QED BY <2>1, <2>2
<1>6. rest = [i \in 1..l |-> rest[i]]
  BY <1>1
<1>7. SubSeq(z, k + 1, k + l) = rest
  BY <1>3, <1>4, <1>5, <1>6
<1>8. Len(z) = k + l /\ k + 1 \in 1..(Len(z) + 1)
  BY <1>2, <1>4
<1>9. SubSeq(z, k + 1, Len(z)) = rest
  BY <1>7, <1>8
<1> QED BY <1>1, <1>4, <1>8, <1>9, Zenon

LEMMA FaithfulShows ==
    ASSUME NEW ts, NEW n, NEW texts, NEW lost, Faithful(ts, n, texts, lost)
    PROVE  ShowsText(ts, texts, lost)
<1>1. CASE ts = <<>>
  <2>1. \A m \in Contents : texts[m] = <<>>
    BY <1>1 DEF Faithful
  <2>2. ASSUME NEW m \in Messages \ lost  PROVE MessageShown(ts, m) = texts[m]
    BY <1>1, <2>1, MessageShownNothing DEF Contents
  <2>3. ASSUME NEW m \in Thoughts \ lost, NEW parts, parts = ThoughtShown(ts, m)
        PROVE  \E i \in 1..(Len(parts) + 1) : FlattenSeq(SubSeq(parts, i, Len(parts))) = texts[m]
    <3>1. parts = <<>> /\ texts[m] = <<>>
      BY <1>1, <2>1, <2>3, ThoughtShownNothing DEF Contents
    <3>2. Len(parts) = 0 /\ SubSeq(parts, 1, 0) = <<>>
      BY <3>1
    <3>3. FlattenSeq(SubSeq(parts, 1, Len(parts))) = texts[m]
      BY <3>1, <3>2, FlattenNothing
    <3>4. 1 \in 1..(Len(parts) + 1)
      BY <3>2
    <3> QED BY <3>3, <3>4, Zenon
  <2> QED BY <2>2, <2>3 DEF ShowsText
<1>2. CASE ts # <<>>
  <2>1. TextAgrees(ts, texts, lost)
    BY <1>2, FaithfulReady
  <2>2. ASSUME NEW m \in Messages \ lost  PROVE MessageShown(ts, m) = texts[m]
    BY <2>1 DEF TextAgrees
  <2>3. ASSUME NEW m \in Thoughts \ lost, NEW parts, parts = ThoughtShown(ts, m)
        PROVE  \E i \in 1..(Len(parts) + 1) : FlattenSeq(SubSeq(parts, i, Len(parts))) = texts[m]
    <3>1. PICK old \in Seq(ThoughtTexts), rest \in Seq(ThoughtTexts) : parts = old \o rest /\ FlattenSeq(rest) = texts[m]
      BY <2>1, <2>3 DEF TextAgrees, ThoughtAgrees, Agrees
    <3>2. Len(old) + 1 \in 1..(Len(old \o rest) + 1) /\ SubSeq(old \o rest, Len(old) + 1, Len(old \o rest)) = rest
      BY TheRest
    <3> QED BY <3>1, <3>2, Zenon
  <2> QED BY <2>2, <2>3 DEF ShowsText
<1> QED BY <1>1, <1>2

-----------------------------------------------------------------------------
(* The prompts that turns show.                                               *)
PromptsIn(ts) == FlattenSeq([i \in DOMAIN ts |-> ts[i].user])

(* Every turn has a prompt. *)
Prompted(ts) == \A i \in 1..Len(ts) : ts[i].user # <<>>

LEMMA PromptsAppend ==
    ASSUME NEW s \in Seq(ConversationTurns), NEW x \in ConversationTurns
    PROVE  PromptsIn(Append(s, x)) = PromptsIn(s) \o x.user
<1> DEFINE parts == [i \in DOMAIN s |-> s[i].user]
<1>1. \A y \in ConversationTurns : y.user \in Seq(1..MaxPrompts)
  BY BlocksOfTurns
<1>2. parts \in Seq(Seq(1..MaxPrompts))
  <2>1. parts \in [1..Len(s) -> Seq(1..MaxPrompts)]
    BY <1>1
  <2> QED BY <2>1, IsASeq
<1>3. [i \in DOMAIN Append(s, x) |-> Append(s, x)[i].user] = Append(parts, x.user)
  BY <1>1
<1>4. PromptsIn(Append(s, x)) = FlattenSeq(Append(parts, x.user)) /\ PromptsIn(s) = FlattenSeq(parts)
  BY <1>3 DEF PromptsIn
<1>5. FlattenSeq(Append(parts, x.user)) = FlattenSeq(parts) \o x.user
  BY <1>1, <1>2, FlattenAppend
<1> QED BY <1>4, <1>5

LEMMA PromptsType ==
    ASSUME NEW s \in Seq(ConversationTurns)
    PROVE  PromptsIn(s) \in Seq(1..MaxPrompts)
<1> DEFINE parts == [i \in DOMAIN s |-> s[i].user]
<1>1. parts \in Seq(Seq(1..MaxPrompts))
  <2>1. parts \in [1..Len(s) -> Seq(1..MaxPrompts)]
    BY BlocksOfTurns
  <2> QED BY <2>1, IsASeq
<1>2. PromptsIn(s) = FlattenSeq(parts)
  BY DEF PromptsIn
<1> QED BY <1>1, <1>2, FlattenType

LEMMA PromptsNothing == PromptsIn(<<>>) = <<>>
<1>1. [i \in DOMAIN <<>> |-> <<>>[i].user] = <<>>
  OBVIOUS
<1>2. PromptsIn(<<>>) = FlattenSeq([i \in DOMAIN <<>> |-> <<>>[i].user])
  BY DEF PromptsIn
<1> QED BY <1>1, <1>2, FlattenNothing, Zenon

LEMMA SamePrompts ==
    ASSUME NEW ts, NEW us, SameUsers(ts, us)
    PROVE  PromptsIn(us) = PromptsIn(ts) /\ Len(us) = Len(ts) /\ (Prompted(ts) => Prompted(us))
<1>1. DOMAIN us = DOMAIN ts /\ DOMAIN ts = 1..Len(ts)
  BY DEF SameUsers
<1>2. [i \in DOMAIN us |-> us[i].user] = [i \in DOMAIN ts |-> ts[i].user]
  BY <1>1 DEF SameUsers
<1>3. PromptsIn(us) = PromptsIn(ts)
  BY <1>2, Zenon DEF PromptsIn
<1>4. Prompted(ts) => Prompted(us)
  BY DEF Prompted, SameUsers
<1> QED BY <1>3, <1>4 DEF SameUsers

LEMMA EachTurnPrompted ==
    ASSUME NEW ts \in Seq(ConversationTurns), Prompted(ts)
    PROVE  Len(ts) <= Len(PromptsIn(ts))
<1> DEFINE G == {s \in Seq(ConversationTurns) : Prompted(s) => Len(s) <= Len(PromptsIn(s))}
<1>1. <<>> \in G
  <2>1. Len(PromptsIn(<<>>)) = 0 /\ Len(<<>>) = 0 /\ <<>> \in Seq(ConversationTurns)
    BY PromptsNothing
  <2> QED BY <2>1
<1>2. ASSUME NEW s \in Seq(ConversationTurns), NEW x \in ConversationTurns, s \in G
      PROVE  Append(s, x) \in G
  <2>1. PICK us \in Seq(ConversationTurns) : us = Append(s, x)
    <3>1. Append(s, x) \in Seq(ConversationTurns)
      OBVIOUS
    <3> QED BY <3>1, Zenon
  <2>2. ASSUME Prompted(us)  PROVE Len(us) <= Len(PromptsIn(us))
    <3>1. Len(us) = Len(s) + 1 /\ us[Len(s) + 1] = x /\ \A i \in 1..Len(s) : us[i] = s[i]
      BY <2>1
    <3>2. Prompted(s) /\ x.user # <<>>
      BY <2>2, <3>1 DEF Prompted
    <3>3. Len(s) <= Len(PromptsIn(s))
      BY <1>2, <3>2
    <3>4. PICK p \in Seq(1..MaxPrompts) : p = PromptsIn(s)
      BY PromptsType
    <3>5. PICK u \in Seq(1..MaxPrompts) : u = x.user
      BY BlocksOfTurns
    <3>6. PromptsIn(us) = p \o u
      BY <2>1, <3>4, <3>5, PromptsAppend
    <3>7. Len(p \o u) = Len(p) + Len(u) /\ Len(u) >= 1
      BY <3>2, <3>5
    <3> QED BY <3>1, <3>3, <3>4, <3>6, <3>7
  <2> QED BY <2>1, <2>2
<1> HIDE DEF G
<1>3. Seq(ConversationTurns) \subseteq G
  BY <1>1, <1>2, AllSequences
<1> QED BY <1>3 DEF G

(* A prompt is continued: only the user's part of the last turn changes.      *)
WithUser(ts, text) == [ts EXCEPT ![Len(ts)].user = @ \o text]

LEMMA UserExtended ==
    ASSUME NEW ts, NEW n, NEW texts, NEW lost, Faithful(ts, n, texts, lost), ts # <<>>,
           NEW text \in Seq(1..MaxPrompts), NEW us, us = WithUser(ts, text)
    PROVE  /\ Faithful(us, n, texts, lost) /\ us # <<>>
           /\ PromptsIn(us) = PromptsIn(ts) \o text
           /\ Prompted(Front(ts)) /\ text # <<>> => Prompted(us)
<1>1. PICK F \in Seq(ConversationTurns), t \in ConversationTurns :
        F = Front(ts) /\ t = Last(ts) /\ ts = Append(F, t) /\ t = ts[Len(ts)]
  BY LastOfSequence DEF Faithful
<1>2. PICK u : u = [t EXCEPT !.user = @ \o text]
  OBVIOUS
<1>3. t.user \o text \in Seq(1..MaxPrompts)
  BY BlocksOfTurns
<1>4. u \in ConversationTurns /\ u.user = t.user \o text /\ u.blocks = t.blocks /\ u.lastEvent = t.lastEvent
  <2>1. PICK w \in Seq(1..MaxPrompts) : w = t.user \o text
    BY <1>3
  <2>2. u = [t EXCEPT !.user = w]
    BY <1>2, <2>1
  <2> QED BY <2>1, <2>2 DEF ConversationTurns
<1>5. us = Append(F, u)
  <2>1. us = [ts EXCEPT ![Len(ts)] = u]
    BY <1>1, <1>2 DEF WithUser
  <2>2. ts \in Seq(ConversationTurns)
    BY DEF Faithful
  <2>3. [ts EXCEPT ![Len(ts)] = u] = Append(Front(ts), u)
    BY <1>4, <2>2, ReplaceLast
  <2> QED BY <1>1, <2>1, <2>3
<1>6. us \in Seq(ConversationTurns) /\ us # <<>> /\ Last(us) = u /\ Last(ts) = t
  <2>1. us \in Seq(ConversationTurns) /\ us # <<>> /\ Last(us) = u
    <3>1. PICK v \in ConversationTurns : v = u
      BY <1>4
    <3>2. Append(F, v) \in Seq(ConversationTurns) /\ Append(F, v) # <<>> /\ Last(Append(F, v)) = v
      BY LastOfAppend
    <3> QED BY <1>5, <3>1, <3>2, Zenon
  <2> QED BY <1>1, <2>1
<1>7. ASSUME NEW m  PROVE MessageShown(us, m) = MessageShown(ts, m) /\ ThoughtShown(us, m) = ThoughtShown(ts, m)
  <2>1. MessageShown(us, m) = MessageShown(F, m) \o MessageIn(u.blocks, m)
    BY <1>4, <1>5, MessageShownAppend
  <2>2. MessageShown(ts, m) = MessageShown(F, m) \o MessageIn(t.blocks, m)
    BY <1>1, MessageShownAppend
  <2>3. ThoughtShown(us, m) = ThoughtShown(F, m) \o ThoughtIn(u.blocks, m)
    BY <1>4, <1>5, ThoughtShownAppend
  <2>4. ThoughtShown(ts, m) = ThoughtShown(F, m) \o ThoughtIn(t.blocks, m)
    BY <1>1, ThoughtShownAppend
  <2> QED BY <1>4, <2>1, <2>2, <2>3, <2>4, Zenon
<1>8. Ready(ts, n) /\ ThoughtsClosed(t.blocks) /\ TextAgrees(ts, texts, lost)
  BY <1>6, FaithfulReady
<1>9. TextAgrees(us, texts, lost)
  <2>1. \A m \in Messages \ lost : MessageShown(us, m) = texts[m]
    BY <1>7, <1>8 DEF TextAgrees
  <2>2. ASSUME NEW m \in Thoughts \ lost  PROVE ThoughtAgrees(us, m, texts[m])
    <3>1. ThoughtAgrees(ts, m, texts[m])
      BY <1>8 DEF TextAgrees
    <3>2. OpenThought(Last(us).blocks, m) = OpenThought(Last(ts).blocks, m)
      BY <1>4, <1>6, Zenon
    <3> QED BY <1>7, <3>1, <3>2, Zenon DEF ThoughtAgrees
  <2> QED BY <2>1, <2>2 DEF TextAgrees
<1>10. Faithful(us, n, texts, lost)
  <2>1. n \in Nat /\ Last(us).lastEvent <= n /\ ThoughtsClosed(Last(us).blocks)
    BY <1>4, <1>6, <1>8 DEF Ready
  <2> QED BY <1>6, <1>9, <2>1 DEF Faithful
<1>11. PromptsIn(us) = PromptsIn(ts) \o text
  <2>1. PICK p \in Seq(1..MaxPrompts), q \in Seq(1..MaxPrompts) : p = PromptsIn(F) /\ q = t.user
    BY PromptsType, BlocksOfTurns
  <2>2. PromptsIn(us) = p \o (q \o text)
    BY <1>4, <1>5, <2>1, PromptsAppend
  <2>3. PromptsIn(ts) = p \o q
    BY <1>1, <2>1, PromptsAppend
  <2>4. (p \o q) \o text = p \o (q \o text)
    BY Regrouped, SMTT(30)
  <2> QED BY <2>2, <2>3, <2>4
<1>12. ASSUME Prompted(F), text # <<>>  PROVE Prompted(us)
  <2>1. Len(us) = Len(F) + 1 /\ (\A i \in 1..Len(F) : us[i] = F[i]) /\ us[Len(F) + 1] = u
    BY <1>4, <1>5
  <2>2. u.user # <<>>
    <3>1. PICK q \in Seq(1..MaxPrompts) : q = t.user
      BY BlocksOfTurns
    <3>2. Len(q \o text) = Len(q) + Len(text) /\ Len(text) >= 1 /\ Len(q) >= 0
      BY <1>12
    <3>3. q \o text # <<>>
      BY <3>2
    <3> QED BY <1>4, <3>1, <3>3
  <2> QED BY <1>12, <2>1, <2>2 DEF Prompted
<1> QED BY <1>1, <1>6, <1>10, <1>11, <1>12

-----------------------------------------------------------------------------
(* What the projector makes of an update.                                     *)
ProjectorOK(p) == p \in Projectors /\ \A m \in Contents : p.texts[m] \in Seq(Pieces(m))

LEMMA ProjectorFields ==
    ASSUME NEW p \in Projectors
    PROVE  /\ p.tools \in [Tools -> [known : BOOLEAN, status : Statuses, patch : Statuses]]
           /\ p.texts \in [Contents -> MessageTexts \cup ThoughtTexts]
           /\ DOMAIN p.tools = Tools /\ DOMAIN p.texts = Contents
BY DEF Projectors

LEMMA TextsOf ==
    ASSUME NEW m \in Contents, NEW text \in Seq(Pieces(m))
    PROVE  /\ text \in MessageTexts \cup ThoughtTexts
           /\ m \in Messages => text \in MessageTexts
           /\ m \in Thoughts => text \in ThoughtTexts
           /\ text # None /\ ContentText(text) = text
<1>1. ASSUME m \in Messages  PROVE text \in MessageTexts
  <2>1. Pieces(m) \subseteq Messages \X (1..MaxUpdates)
    BY <1>1 DEF Pieces
  <2> QED BY <2>1, SeqMonotonic DEF MessageTexts
<1>2. ASSUME m \in Thoughts  PROVE text \in ThoughtTexts
  <2>1. Pieces(m) \subseteq Thoughts \X (1..MaxUpdates)
    BY <1>2 DEF Pieces
  <2> QED BY <2>1, SeqMonotonic DEF ThoughtTexts
<1>3. text # None
  <2>1. Pieces(m) \subseteq (Messages \cup Thoughts) \X Nat
    BY DEF Pieces, Contents
  <2>2. text \in Seq((Messages \cup Thoughts) \X Nat)
    BY <2>1, SeqMonotonic
  <2> QED BY <2>2, NoneAssumption
<1> QED BY <1>1, <1>2, <1>3 DEF Contents, ContentText

Rewritten(p, id, text) == [p EXCEPT !.texts[id] = text]

Rewrites(p, q, id, text) ==
    /\ ProjectorOK(q) /\ q.tools = p.tools
    /\ \A m \in Contents : q.texts[m] = IF m = id THEN text ELSE p.texts[m]

LEMMA ProjectorAdds ==
    ASSUME NEW p, ProjectorOK(p), NEW id \in Contents, NEW text \in Seq(Pieces(id)),
           NEW q, q = Rewritten(p, id, text)
    PROVE  Rewrites(p, q, id, text)
<1>0. q = [p EXCEPT !.texts[id] = text]
  BY DEF Rewritten
<1>1. PICK tools, texts : tools = p.tools /\ texts = p.texts /\ p = [tools |-> tools, texts |-> texts]
  BY DEF ProjectorOK, Projectors
<1>2. tools \in [Tools -> [known : BOOLEAN, status : Statuses, patch : Statuses]]
      /\ texts \in [Contents -> MessageTexts \cup ThoughtTexts]
  BY <1>1, ProjectorFields DEF ProjectorOK
<1>3. text \in MessageTexts \cup ThoughtTexts
  BY TextsOf
<1>4. PICK after : after = [texts EXCEPT ![id] = text]
  OBVIOUS
<1>5. after \in [Contents -> MessageTexts \cup ThoughtTexts]
      /\ \A m \in Contents : after[m] = IF m = id THEN text ELSE texts[m]
  BY <1>2, <1>3, <1>4
<1>6. q = [tools |-> tools, texts |-> after]
  BY <1>0, <1>1, <1>4
<1>7. q \in Projectors
  BY <1>2, <1>5, <1>6 DEF Projectors
<1>8. q.tools = p.tools /\ \A m \in Contents : q.texts[m] = IF m = id THEN text ELSE p.texts[m]
  BY <1>1, <1>5, <1>6
<1>9. \A m \in Contents : q.texts[m] \in Seq(Pieces(m))
  BY <1>8 DEF ProjectorOK
<1> QED BY <1>7, <1>8, <1>9 DEF ProjectorOK, Rewrites

Patched(p, tool, status, patch) ==
    [p EXCEPT !.tools[tool] = [known |-> TRUE, status |-> status, patch |-> patch]]

PatchesTool(p, q, tool, status, patch) ==
    /\ ProjectorOK(q) /\ q.texts = p.texts
    /\ \A t \in Tools : q.tools[t] = IF t = tool THEN [known |-> TRUE, status |-> status, patch |-> patch]
                                     ELSE p.tools[t]

LEMMA ProjectorPatched ==
    ASSUME NEW p, ProjectorOK(p), NEW tool \in Tools, NEW status \in Statuses, NEW patch \in Statuses,
           NEW q, q = Patched(p, tool, status, patch)
    PROVE  PatchesTool(p, q, tool, status, patch)
<1> DEFINE new == [known |-> TRUE, status |-> status, patch |-> patch]
<1>0. q = [p EXCEPT !.tools[tool] = new]
  BY DEF Patched
<1>1. PICK tools, texts : tools = p.tools /\ texts = p.texts /\ p = [tools |-> tools, texts |-> texts]
  BY DEF ProjectorOK, Projectors
<1>2. tools \in [Tools -> [known : BOOLEAN, status : Statuses, patch : Statuses]]
      /\ texts \in [Contents -> MessageTexts \cup ThoughtTexts]
  BY <1>1, ProjectorFields DEF ProjectorOK
<1>3. new \in [known : BOOLEAN, status : Statuses, patch : Statuses]
  OBVIOUS
<1> HIDE DEF new
<1>4. PICK after : after = [tools EXCEPT ![tool] = new]
  OBVIOUS
<1>5. after \in [Tools -> [known : BOOLEAN, status : Statuses, patch : Statuses]]
      /\ \A t \in Tools : after[t] = IF t = tool THEN new ELSE tools[t]
  BY <1>2, <1>3, <1>4
<1>6. q = [tools |-> after, texts |-> texts]
  BY <1>0, <1>1, <1>4
<1>7. q \in Projectors
  BY <1>2, <1>5, <1>6 DEF Projectors
<1>8. q.texts = p.texts /\ \A t \in Tools : q.tools[t] = IF t = tool THEN new ELSE p.tools[t]
  BY <1>1, <1>5, <1>6
<1>9. \A m \in Contents : q.texts[m] \in Seq(Pieces(m))
  BY <1>8 DEF ProjectorOK
<1> QED BY <1>7, <1>8, <1>9 DEF new, ProjectorOK, PatchesTool

LEMMA SingleAppended ==
    ASSUME NEW s
    PROVE  Append(<<>>, s) = <<s>>
OBVIOUS
LEMMA PairAppended ==
    ASSUME NEW T, NEW r \in T, NEW s \in T
    PROVE  Append(<<r>>, s) = <<r, s>>
<1>1. PICK a, c : a = <<r>> /\ c = <<r, s>>
  OBVIOUS
<1>2. a \in Seq(T) /\ c \in Seq(T) /\ Len(a) = 1 /\ a[1] = r /\ Len(c) = 2 /\ c[1] = r /\ c[2] = s
  BY <1>1
<1>3. Append(a, s) \in Seq(T) /\ Len(Append(a, s)) = 2 /\ Append(a, s)[1] = a[1] /\ Append(a, s)[2] = s
  <2>1. PICK k \in Nat : k = Len(a)
    BY <1>2
  <2>2. a \in Seq(T)
    BY <1>2
  <2>3. Append(a, s) \in Seq(T) /\ Len(Append(a, s)) = k + 1 /\ Append(a, s)[k + 1] = s
        /\ \A i \in 1..k : Append(a, s)[i] = a[i]
    BY <2>1, <2>2
  <2>4. k = 1 /\ k + 1 = 2 /\ 1 \in 1..k
    BY <1>2, <2>1
  <2> QED BY <2>3, <2>4
<1>4. \A i \in 1..Len(Append(a, s)) : Append(a, s)[i] = c[i]
  BY <1>2, <1>3
<1>5. Append(a, s) = c
  BY <1>2, <1>3, <1>4, SeqEqual
<1> QED BY <1>1, <1>5

(* The events of a tool: its call if it is new, and what became of it. *)
LEMMA ToolEventsAre ==
    ASSUME NEW tool, NEW known \in BOOLEAN, NEW status, NEW r, r = ToolRequested(tool),
           NEW s, s = IF status = "in_progress" THEN ToolProgress(tool) ELSE ToolCompleted(tool, status)
    PROVE  ToolEvents(tool, known, status) =
             IF known THEN IF status = "in_progress" \/ status \in Terminal THEN <<s>> ELSE <<>>
             ELSE IF status = "in_progress" \/ status \in Terminal THEN <<r, s>> ELSE <<r>>
<1>1. <<>> \o <<>> = <<>> /\ <<>> \o <<s>> = <<s>> /\ <<r>> \o <<s>> = <<r, s>> /\ <<r>> \o <<>> = <<r>>
  <2>1. PICK a \in Seq({r, s}), b \in Seq({r, s}), c \in Seq({r, s}) : a = <<r>> /\ b = <<s>> /\ c = <<r, s>>
    <3>1. <<r>> \in Seq({r, s}) /\ <<s>> \in Seq({r, s}) /\ <<r, s>> \in Seq({r, s})
      OBVIOUS
    <3> QED BY <3>1, Zenon
  <2>2. <<>> \o b = b /\ a \o <<>> = a
    OBVIOUS
  <2>3. PICK T, none : T = {r, s} /\ none = <<>>
    OBVIOUS
  <2>4. a \in Seq(T) /\ none \in Seq(T) /\ s \in T /\ a \o none = a
    BY <2>2, <2>3
  <2>5. a \o Append(none, s) = Append(a \o none, s)
    BY <2>4, ConcatAppend
  <2>6. Append(<<>>, s) = <<s>> /\ Append(<<r>>, s) = <<r, s>>
    <3>1. r \in T /\ s \in T
      BY <2>3
    <3>2. Append(<<r>>, s) = <<r, s>>
      BY <3>1, PairAppended
    <3> QED BY <3>2, SingleAppended
  <2>7. Append(none, s) = b /\ Append(a, s) = c
    BY <2>1, <2>3, <2>6, Zenon
  <2>8. a \o b = c
    BY <2>4, <2>5, <2>7, Zenon
  <2>9. <<>> \o <<>> = <<>>
    OBVIOUS
  <2> QED BY <2>1, <2>2, <2>8, <2>9, Zenon
<1>2. CASE status = "in_progress"
  BY <1>1, <1>2 DEF ToolEvents, Terminal
<1>3. CASE status \in Terminal
  BY <1>1, <1>3 DEF ToolEvents, Terminal
<1>4. CASE status # "in_progress" /\ status \notin Terminal
  BY <1>1, <1>4 DEF ToolEvents, Terminal
<1> QED BY <1>2, <1>3, <1>4

LEMMA ToolEventsQuiet ==
    ASSUME NEW tool \in Tools, NEW known \in BOOLEAN, NEW status \in Statuses
    PROVE  Quiet(ToolEvents(tool, known, status)) /\ MessageText(ToolEvents(tool, known, status)) = <<>>
<1> DEFINE start == IF known THEN <<>> ELSE <<ToolRequested(tool)>>
<1>1. ToolRequested(tool) \in QuietEvents /\ ToolProgress(tool) \in QuietEvents
      /\ (status \in Terminal => ToolCompleted(tool, status) \in QuietEvents)
  BY DEF QuietEvents, Terminal
<1>2. /\ ToolRequested(tool).type # "messageDelta" /\ ToolProgress(tool).type # "messageDelta"
      /\ ToolCompleted(tool, status).type # "messageDelta"
  BY DEF ToolRequested, ToolProgress, ToolCompleted
<1>3. PICK r, s : r = ToolRequested(tool)
                  /\ s = IF status = "in_progress" THEN ToolProgress(tool) ELSE ToolCompleted(tool, status)
  OBVIOUS
<1>4. ToolEvents(tool, known, status) =
        IF known THEN IF status = "in_progress" \/ status \in Terminal THEN <<s>> ELSE <<>>
        ELSE IF status = "in_progress" \/ status \in Terminal THEN <<r, s>> ELSE <<r>>
  BY <1>3, ToolEventsAre
<1>5. Quiet(ToolEvents(tool, known, status))
  BY <1>1, <1>3, <1>4 DEF Quiet
<1>6. ASSUME NEW events \in Seq({r, s})  PROVE MessageText(events) = <<>>
  <2>1. r.type # "messageDelta" /\ s.type # "messageDelta"
    BY <1>2, <1>3
  <2>2. PICK parts : parts = [i \in DOMAIN events |-> <<>>]
    OBVIOUS
  <2>3. MessageText(events) = FlattenSeq(parts)
    BY <2>1, <2>2 DEF MessageText
  <2>4. PICK k \in Nat : k = Len(events)
    <3>1. Len(events) \in Nat
      OBVIOUS
    <3> QED BY <3>1, Zenon
  <2>5. parts \in Seq(Seq({})) /\ Len(parts) = k
    <3>1. parts = [i \in 1..k |-> <<>>]
      BY <2>2, <2>4
    <3>2. <<>> \in Seq({})
      OBVIOUS
    <3> QED BY <3>1, <3>2, IsASeq
  <2>6. FlattenSeq(parts) \in Seq({})
    BY <2>5, FlattenType
  <2>7. \A x \in Seq({}) : x = <<>>
    OBVIOUS
  <2> QED BY <2>3, <2>6, <2>7
<1>7. MessageText(ToolEvents(tool, known, status)) = <<>>
  <2>1. <<r, s>> \in Seq({r, s}) /\ <<r>> \in Seq({r, s}) /\ <<s>> \in Seq({r, s}) /\ <<>> \in Seq({r, s})
    OBVIOUS
  <2>2. ToolEvents(tool, known, status) \in Seq({r, s})
    BY <1>4, <2>1, Zenon
  <2> QED BY <1>6, <2>2
<1> QED BY <1>5, <1>7

LEMMA ToolProjected ==
    ASSUME NEW p, ProjectorOK(p), NEW tool \in Tools, NEW patch \in Statuses
    PROVE  LET P == ProjectTool(p, tool, patch)
           IN /\ ProjectorOK(P.projector) /\ P.projector.texts = p.texts
              /\ Quiet(P.events) /\ MessageText(P.events) = <<>> /\ P.refused \in BOOLEAN
              /\ P.refused => P.events = <<>> /\ P.projector = p
<1> DEFINE old == p.tools[tool]
           status == IF patch = "none" THEN old.status ELSE patch
           P == ProjectTool(p, tool, patch)
<1>1. old.known \in BOOLEAN /\ old.status \in Statuses /\ status \in Statuses
  BY ProjectorFields DEF ProjectorOK
<1>2. MessageText(<<>>) = <<>>
  <2>1. [i \in DOMAIN <<>> |-> IF <<>>[i].type = "messageDelta" THEN <<>>[i].text ELSE <<>>] = <<>>
    OBVIOUS
  <2> QED BY <2>1, FlattenNothing DEF MessageText
<1>3. Quiet(<<>>)
  BY DEF Quiet
<1>4. PICK none : none = <<>>
  OBVIOUS
<1>5. \/ P = Projected(p, none) \/ P = Invalid(p)
      \/ P = Projected([p EXCEPT !.tools[tool] = [known |-> TRUE, status |-> status, patch |-> patch]],
                       ToolEvents(tool, old.known, status))
  BY <1>4 DEF ProjectTool
<1>6. CASE P = Projected(p, none) \/ P = Invalid(p)
  <2> HIDE DEF P
  <2>1. P.projector = p /\ P.events = <<>> /\ P.refused \in BOOLEAN
    <3>1. CASE P = Projected(p, none)
      BY <1>4, <3>1 DEF Projected
    <3>2. CASE P = Invalid(p)
      BY <3>2 DEF Invalid
    <3> QED BY <1>6, <3>1, <3>2
  <2>2. ProjectorOK(P.projector) /\ P.projector.texts = p.texts
              /\ Quiet(P.events) /\ MessageText(P.events) = <<>> /\ P.refused \in BOOLEAN
              /\ (P.refused => P.events = <<>> /\ P.projector = p)
    BY <1>2, <1>3, <2>1, Zenon
  <2> QED BY <2>2 DEF P
<1>7. CASE P = Projected([p EXCEPT !.tools[tool] = [known |-> TRUE, status |-> status, patch |-> patch]],
                         ToolEvents(tool, old.known, status))
  <2>1. PICK q : q = [p EXCEPT !.tools[tool] = [known |-> TRUE, status |-> status, patch |-> patch]]
    OBVIOUS
  <2>2. PICK s \in Statuses : s = status
    BY <1>1
  <2>3. q = Patched(p, tool, s, patch)
    BY <2>1, <2>2 DEF Patched
  <2>4. ProjectorOK(q) /\ q.texts = p.texts
    <3>1. PatchesTool(p, q, tool, s, patch)
      BY <2>3, ProjectorPatched
    <3> QED BY <3>1 DEF PatchesTool
  <2>5. PICK k \in BOOLEAN : k = old.known
    BY <1>1
  <2>6. Quiet(ToolEvents(tool, k, s)) /\ MessageText(ToolEvents(tool, k, s)) = <<>>
    BY ToolEventsQuiet
  <2>7. P.projector = q /\ P.events = ToolEvents(tool, k, s) /\ ~P.refused /\ P.refused \in BOOLEAN
    BY <1>7, <2>1, <2>2, <2>5 DEF Projected
  <2> HIDE DEF P
  <2>8. ProjectorOK(P.projector) /\ P.projector.texts = p.texts
              /\ Quiet(P.events) /\ MessageText(P.events) = <<>> /\ P.refused \in BOOLEAN
              /\ (P.refused => P.events = <<>> /\ P.projector = p)
    BY <2>4, <2>6, <2>7, Zenon
  <2> QED BY <2>8 DEF P
<1> QED BY <1>5, <1>6, <1>7

(* Events that make of the text of a message or a thought another one.        *)
Speaks(events, id, before, after) ==
    \/ events = <<>> /\ after = before
    \/ id \in Messages /\ \E text \in Seq(Pieces(id)), terminal \in {FALSE} :
         events = <<MessageDelta(text, terminal)>> /\ after = before \o text
    \/ id \in Thoughts /\ \E text \in Seq(Pieces(id)), replace \in BOOLEAN :
         /\ ~replace => text # <<>>
         /\ events = <<ThoughtDelta(text, id, replace)>>
         /\ after = IF replace THEN text ELSE before \o text

Changes(texts, after, id, text) == \A k \in Contents : after[k] = IF k = id THEN text ELSE texts[k]

LEMMA SpeaksBecomes ==
    ASSUME NEW ts, NEW n, NEW texts, NEW lost, Faithful(ts, n, texts, lost), ts # <<>>,
           NEW id \in Contents, NEW events, NEW x, Speaks(events, id, texts[id], x),
           NEW after, Changes(texts, after, id, x)
    PROVE  Become(ts, ApplyEvents(ts, n, events), n + Len(events), after, lost)
<1>0. \A k \in Contents : after[k] = IF k = id THEN x ELSE texts[k]
  BY DEF Changes
<1>1. CASE events = <<>> /\ x = texts[id]
  <2>1. Become(ts, ApplyEvents(ts, n, events), n + Len(events), texts, lost)
    <3>1. Quiet(events)
      BY <1>1 DEF Quiet
    <3> QED BY <3>1, QuietBecomes
  <2>2. \A k \in Contents \ lost : after[k] = texts[k]
    BY <1>0, <1>1
  <2> QED BY <2>1, <2>2, BecomeElsewhere
<1>2. ASSUME id \in Messages, NEW text \in Seq(Pieces(id)), NEW terminal \in {FALSE},
             events = <<MessageDelta(text, terminal)>>, x = texts[id] \o text
      PROVE  Become(ts, ApplyEvents(ts, n, events), n + Len(events), after, lost)
  <2>1. \A k \in Contents : after[k] = IF k = id THEN texts[k] \o text ELSE texts[k]
    BY <1>0, <1>2
  <2>2. terminal \in BOOLEAN
    BY <1>2
  <2> QED BY <1>2, <2>1, <2>2, MessageBecomes
<1>3. ASSUME id \in Thoughts, NEW text \in Seq(Pieces(id)), NEW replace \in BOOLEAN, ~replace => text # <<>>,
             events = <<ThoughtDelta(text, id, replace)>>,
             x = IF replace THEN text ELSE texts[id] \o text
      PROVE  Become(ts, ApplyEvents(ts, n, events), n + Len(events), after, lost)
  <2>1. Rethought(texts, after, text, id, replace)
    BY <1>0, <1>3 DEF Rethought
  <2> QED BY <1>3, <2>1, ThoughtBecomes
<1> QED BY <1>1, <1>2, <1>3 DEF Speaks

LEMMA SpeaksDelta ==
    ASSUME NEW id \in Contents, NEW text \in Seq(Pieces(id)), NEW replace \in BOOLEAN, ~replace => text # <<>>,
           NEW kind, kind = IF id \in Messages THEN "message" ELSE "thought", id \in Messages => ~replace,
           NEW before
    PROVE  Speaks(Delta(kind, id, text, replace), id, before, IF replace THEN text ELSE before \o text)
<1>1. CASE id \in Messages
  <2>1. PICK terminal : terminal = FALSE
    OBVIOUS
  <2>2. Delta(kind, id, text, replace) = <<MessageDelta(text, terminal)>>
    BY <1>1, <2>1 DEF Delta
  <2> QED BY <1>1, <2>1, <2>2 DEF Speaks
<1>2. CASE id \notin Messages
  <2>1. id \in Thoughts
    BY <1>2 DEF Contents
  <2>2. Delta(kind, id, text, replace) = <<ThoughtDelta(text, id, replace)>>
    BY <1>2 DEF Delta
  <2> QED BY <2>1, <2>2 DEF Speaks
<1> QED BY <1>1, <1>2

LEMMA ChunkSpeaks ==
    ASSUME NEW id \in Contents, NEW text \in Seq(Pieces(id)),
           NEW kind, kind = IF id \in Messages THEN "message" ELSE "thought", NEW before \in Seq(Pieces(id))
    PROVE  Speaks(IF text = <<>> THEN <<>> ELSE Delta(kind, id, text, FALSE), id, before, before \o text)
<1>1. CASE text = <<>>
  <2>1. before \o text = before
    BY <1>1
  <2> QED BY <1>1, <2>1 DEF Speaks
<1>2. CASE text # <<>>
  <2>1. PICK replace \in BOOLEAN : replace = FALSE
    OBVIOUS
  <2>2. Speaks(Delta(kind, id, text, replace), id, before, IF replace THEN text ELSE before \o text)
    BY <1>2, <2>1, SpeaksDelta
  <2> QED BY <1>2, <2>1, <2>2
<1> QED BY <1>1, <1>2

LEMMA ChunkText ==
    ASSUME NEW id \in Contents, NEW text \in Seq(Pieces(id)),
           NEW kind, kind = IF id \in Messages THEN "message" ELSE "thought"
    PROVE  MessageText(IF text = <<>> THEN <<>> ELSE Delta(kind, id, text, FALSE))
             = IF id \in Messages THEN text ELSE <<>>
<1> DEFINE events == IF text = <<>> THEN <<>> ELSE Delta(kind, id, text, FALSE)
           parts == [i \in DOMAIN events |-> IF events[i].type = "messageDelta" THEN events[i].text ELSE <<>>]
<1>1. MessageText(events) = FlattenSeq(parts)
  BY DEF MessageText
<1>2. CASE text = <<>>
  <2>1. parts = <<>>
    BY <1>2
  <2> HIDE DEF parts
  <2> QED BY <1>1, <1>2, <2>1, FlattenNothing
<1>3. CASE text # <<>>
  <2>1. PICK x : x = IF id \in Messages THEN text ELSE <<>>
    OBVIOUS
  <2>2. parts = <<x>>
    <3>1. CASE id \in Messages
      <4>1. PICK e : e = MessageDelta(text, FALSE)
        OBVIOUS
      <4>2. e.type = "messageDelta" /\ e.text = text
        BY <4>1 DEF MessageDelta
      <4>3. events = <<e>>
        BY <1>3, <3>1, <4>1 DEF Delta
      <4> HIDE DEF events
      <4>4. DOMAIN events = 1..1 /\ events[1] = e
        BY <4>3
      <4>5. parts = [i \in 1..1 |-> x]
        BY <2>1, <3>1, <4>2, <4>4
      <4> HIDE DEF parts
      <4> QED BY <4>5
    <3>2. CASE id \notin Messages
      <4>1. PICK e : e = ThoughtDelta(text, id, FALSE)
        OBVIOUS
      <4>2. e.type # "messageDelta"
        BY <4>1 DEF ThoughtDelta
      <4>3. events = <<e>>
        BY <1>3, <3>2, <4>1 DEF Delta
      <4> HIDE DEF events
      <4>4. DOMAIN events = 1..1 /\ events[1] = e
        BY <4>3
      <4>5. parts = [i \in 1..1 |-> x]
        BY <2>1, <3>2, <4>2, <4>4
      <4> HIDE DEF parts
      <4> QED BY <4>5
    <3> QED BY <3>1, <3>2
  <2>3. PICK T : T = Pieces(id)
    OBVIOUS
  <2>4. x \in Seq(T)
    BY <2>1, <2>3
  <2>5. FlattenSeq(<<x>>) = x
    <3>1. PICK none \in Seq(Seq(T)) : none = <<>>
      <4>1. <<>> \in Seq(Seq(T))
        OBVIOUS
      <4> QED BY <4>1, Zenon
    <3>2. FlattenSeq(Append(none, x)) = FlattenSeq(none) \o x
      BY <2>4, FlattenAppend
    <3>3. FlattenSeq(none) = <<>> /\ Append(none, x) = <<x>>
      BY <3>1, FlattenNothing, SingleAppended
    <3>4. <<>> \o x = x
      BY <2>4
    <3> QED BY <3>2, <3>3, <3>4, Zenon
  <2> HIDE DEF parts
  <2> QED BY <1>1, <2>1, <2>2, <2>5
<1> QED BY <1>2, <1>3

LEMMA PrefixRest ==
    ASSUME NEW T, NEW s \in Seq(T), NEW t \in Seq(T), IsPrefix(s, t)
    PROVE  /\ SubSeq(t, Len(s) + 1, Len(t)) \in Seq(T)
           /\ s \o SubSeq(t, Len(s) + 1, Len(t)) = t
           /\ s # t => SubSeq(t, Len(s) + 1, Len(t)) # <<>>
<1>1. PICK k \in Nat, l \in Nat : k = Len(s) /\ l = Len(t)
  OBVIOUS
<1>2. k <= l /\ SubSeq(s, 1, k) = SubSeq(t, 1, k)
  BY <1>1 DEF IsPrefix
<1>3. \A i \in 1..k : s[i] = t[i]
  <2>1. SubSeq(s, 1, k) = [i \in 1..k |-> s[i]]
    <3>1. k - 1 + 1 = k /\ \A i \in 1..k : i + 1 - 1 = i
      OBVIOUS
    <3>2. SubSeq(s, 1, k) = [i \in 1..(k - 1 + 1) |-> s[i + 1 - 1]]
      OBVIOUS
    <3> QED BY <3>1, <3>2
  <2>2. SubSeq(t, 1, k) = [i \in 1..k |-> t[i]]
    <3>1. k - 1 + 1 = k /\ \A i \in 1..k : i + 1 - 1 = i
      OBVIOUS
    <3>2. SubSeq(t, 1, k) = [i \in 1..(k - 1 + 1) |-> t[i + 1 - 1]]
      OBVIOUS
    <3> QED BY <3>1, <3>2
  <2>3. [i \in 1..k |-> s[i]] = [i \in 1..k |-> t[i]]
    BY <1>2, <2>1, <2>2
  <2> QED BY <2>3
<1>4. PICK r : r = SubSeq(t, k + 1, l)
  OBVIOUS
<1>5. r \in Seq(T) /\ Len(r) = l - k /\ \A i \in 1..(l - k) : r[i] = t[k + i]
  <2>1. l - (k + 1) + 1 = l - k /\ \A i \in 1..(l - k) : i + (k + 1) - 1 = k + i
    OBVIOUS
  <2>2. r = [i \in 1..(l - (k + 1) + 1) |-> t[i + (k + 1) - 1]]
    BY <1>4
  <2>3. r = [i \in 1..(l - k) |-> t[k + i]]
    BY <2>1, <2>2
  <2>4. l - k \in Nat /\ \A i \in 1..(l - k) : t[k + i] \in T
    BY <1>1, <1>2
  <2> QED BY <2>3, <2>4, IsASeq
<1>6. s \o r = t
  <2>1. s \o r \in Seq(T) /\ Len(s \o r) = l
    <3>1. r \in Seq(T)
      BY <1>5
    <3>2. s \o r \in Seq(T)
      BY <3>1
    <3>3. Len(s \o r) = Len(s) + Len(r)
      BY <3>1
    <3> QED BY <1>1, <1>2, <1>5, <3>2, <3>3
  <2>2. \A i \in 1..l : (s \o r)[i] = t[i]
    <3> TAKE i \in 1..l
    <3>1. CASE i <= k
      BY <1>1, <1>3, <1>5, <3>1
    <3>2. CASE i > k
      <4>1. i - k \in 1..(l - k) /\ k + (i - k) = i
        BY <3>2
      <4>2. (s \o r)[i] = r[i - k]
        BY <1>1, <1>5, <3>2, <4>1
      <4> QED BY <1>5, <4>1, <4>2
    <3>3. i <= k \/ i > k
      OBVIOUS
    <3> QED BY <3>1, <3>2, <3>3
  <2> QED BY <1>1, <2>1, <2>2, SeqEqual
<1>7. ASSUME s # t  PROVE r # <<>>
  <2>1. s \o <<>> = s
    OBVIOUS
  <2> QED BY <1>6, <1>7, <2>1
<1> QED BY <1>1, <1>4, <1>5, <1>6, <1>7

(* The updates that the Agent writes. *)
IsPatch(update) == update.kind = "tool" /\ update.tool \in Tools /\ update.status \in Statuses
IsChunk(update) ==
    /\ update.id \in Contents
    /\ update.kind = IF update.id \in Messages THEN "messageChunk" ELSE "thoughtChunk"
    /\ update.text \in Seq(Pieces(update.id)) \/ (update.kind = "messageChunk" /\ update.text = None)
IsWhole(update) ==
    /\ update.id \in Contents
    /\ update.kind = IF update.id \in Messages THEN "message" ELSE "thought"
    /\ update.text \in Seq(Pieces(update.id))

TextsOK(texts) ==
    texts \in [Contents -> MessageTexts \cup ThoughtTexts] /\ \A m \in Contents : texts[m] \in Seq(Pieces(m))

ChunkMakes(P, p, version, id, text) ==
    /\ ~P.refused /\ ProjectorOK(P.projector) /\ P.projector.tools = p.tools
    /\ \A before \in Seq(Pieces(id)) : Speaks(P.events, id, before, before \o text)
    /\ MessageText(P.events) = IF id \in Messages THEN text ELSE <<>>
    /\ version = 1 => P.projector = p
    /\ version = 2 =>
         \A m \in Contents : P.projector.texts[m] = IF m = id THEN p.texts[m] \o text ELSE p.texts[m]

LEMMA ChunkContent ==
    ASSUME NEW update, IsChunk(update)
    PROVE  /\ ContentText(update.text) \in Seq(Pieces(update.id))
           /\ update.text # None => ContentText(update.text) = update.text
           /\ KindOf(update) = IF update.id \in Messages THEN "message" ELSE "thought"
           /\ update.kind \notin {"message", "thought", "tool"} /\ update.kind \in {"messageChunk", "thoughtChunk"}
<1>1. ContentText(update.text) \in Seq(Pieces(update.id))
  <2>1. <<>> \in Seq(Pieces(update.id))
    OBVIOUS
  <2> QED BY <2>1 DEF IsChunk, ContentText
<1>2. KindOf(update) = IF update.id \in Messages THEN "message" ELSE "thought"
  BY DEF IsChunk, KindOf
<1> QED BY <1>1, <1>2 DEF IsChunk, ContentText

LEMMA ChunkProjected ==
    ASSUME NEW p, ProjectorOK(p), NEW update, IsChunk(update), NEW version \in {1, 2},
           NEW P, P = Project(version, p, update)
    PROVE  ChunkMakes(P, p, version, update.id, ContentText(update.text))
<1>0. PICK id \in Contents : id = update.id
  BY DEF IsChunk
<1>1. PICK kind : id = update.id /\ kind = KindOf(update)
  BY <1>0
<1>2. PICK text \in Seq(Pieces(id)) : text = ContentText(update.text)
  BY <1>1, ChunkContent
<1>3. kind = IF id \in Messages THEN "message" ELSE "thought"
  BY <1>1, ChunkContent
<1>4. P = IF version = 1 THEN ProjectV1Chunk(p, kind, id, text) ELSE ProjectV2Chunk(p, kind, id, text)
  BY <1>1, <1>2, ChunkContent DEF Project
<1>5. PICK events : events = IF text = <<>> THEN <<>> ELSE Delta(kind, id, text, FALSE)
  OBVIOUS
<1>6. \A before \in Seq(Pieces(id)) : Speaks(events, id, before, before \o text)
  BY <1>3, <1>5, ChunkSpeaks
<1>7. MessageText(events) = IF id \in Messages THEN text ELSE <<>>
  BY <1>3, <1>5, ChunkText
<1>8. CASE version = 1
  <2>1. P.projector = p /\ P.events = events /\ ~P.refused
    BY <1>4, <1>5, <1>8 DEF ProjectV1Chunk, Projected
  <2>2. ChunkMakes(P, p, version, id, text)
    BY <1>6, <1>7, <1>8, <2>1 DEF ChunkMakes
  <2> QED BY <1>1, <1>2, <2>2
<1>9. CASE version = 2
  <2>1. CASE text = <<>>
    <3>1. P.projector = p /\ P.events = events /\ ~P.refused
      BY <1>4, <1>5, <1>9, <2>1 DEF ProjectV2Chunk, Projected
    <3>2. \A m \in Contents : p.texts[m] = IF m = id THEN p.texts[m] \o text ELSE p.texts[m]
      BY <2>1 DEF ProjectorOK
    <3>3. ChunkMakes(P, p, version, id, text)
      BY <1>6, <1>7, <1>9, <3>1, <3>2 DEF ChunkMakes
    <3> QED BY <1>1, <1>2, <3>3
  <2>2. CASE text # <<>>
    <3>1. PICK whole \in Seq(Pieces(id)) : whole = p.texts[id] \o text
      <4>1. PICK old \in Seq(Pieces(id)) : old = p.texts[id]
        BY DEF ProjectorOK
      <4>2. old \o text \in Seq(Pieces(id))
        OBVIOUS
      <4> QED BY <4>1, <4>2, Zenon
    <3>2. PICK q : q = Rewritten(p, id, whole)
      OBVIOUS
    <3>3. P = Projected(q, events)
      <4>1. q = [p EXCEPT !.texts[id] = @ \o text]
        BY <3>1, <3>2 DEF Rewritten
      <4> QED BY <1>4, <1>5, <1>9, <2>2, <4>1 DEF ProjectV2Chunk
    <3>4. P.projector = q /\ P.events = events /\ ~P.refused
      BY <3>3 DEF Projected
    <3>5. Rewrites(p, q, id, whole)
      BY <3>2, ProjectorAdds
    <3>6. \A m \in Contents : q.texts[m] = IF m = id THEN p.texts[m] \o text ELSE p.texts[m]
      BY <3>1, <3>5 DEF Rewrites
    <3>7. ChunkMakes(P, p, version, id, text)
      BY <1>6, <1>7, <1>9, <3>4, <3>5, <3>6 DEF ChunkMakes, Rewrites
    <3> QED BY <1>1, <1>2, <3>7
  <2> QED BY <2>1, <2>2
<1> QED BY <1>8, <1>9

WholeMakes(P, p, id, text) ==
    /\ P.refused \in BOOLEAN /\ ProjectorOK(P.projector) /\ P.projector.tools = p.tools
    /\ P.refused => P.events = <<>> /\ P.projector = p
    /\ ~P.refused =>
         /\ Speaks(P.events, id, p.texts[id], text)
         /\ \A m \in Contents : P.projector.texts[m] = IF m = id THEN text ELSE p.texts[m]

LEMMA WholeProjected ==
    ASSUME NEW p, ProjectorOK(p), NEW update, IsWhole(update), NEW version,
           NEW P, P = Project(version, p, update)
    PROVE  WholeMakes(P, p, update.id, update.text)
<1>0. PICK id \in Contents : id = update.id
  BY DEF IsWhole
<1>1. PICK kind : id = update.id /\ kind = update.kind
  BY <1>0
<1>2. PICK text \in Seq(Pieces(id)) : text = update.text
  BY <1>1 DEF IsWhole
<1>3. kind = IF id \in Messages THEN "message" ELSE "thought"
  BY <1>1 DEF IsWhole
<1>4. P = ProjectWhole(p, kind, id, text)
  BY <1>1, <1>2, <1>3 DEF Project
<1>5. PICK old \in Seq(Pieces(id)) : old = p.texts[id]
  BY DEF ProjectorOK
<1>6. PICK q : q = Rewritten(p, id, text)
  OBVIOUS
<1>7. q = [p EXCEPT !.texts[id] = text]
  BY <1>6 DEF Rewritten
<1>8. Rewrites(p, q, id, text)
  BY <1>6, ProjectorAdds
<1>9. ASSUME NEW events, P = Projected(q, events), Speaks(events, id, old, text)
      PROVE  WholeMakes(P, p, id, text)
  <2>1. P.projector = q /\ P.events = events /\ P.refused = FALSE
    BY <1>9 DEF Projected
  <2> QED BY <1>5, <1>8, <1>9, <2>1 DEF WholeMakes, Rewrites
<1>10. CASE text = old
  <2>0. PICK none : none = <<>>
    OBVIOUS
  <2>3. IsPrefix(old, text)
    BY <1>10 DEF IsPrefix
  <2>1. P = Projected(p, none)
    BY <1>4, <1>5, <1>10, <2>0, <2>3 DEF ProjectWhole
  <2>2. P.projector = p /\ P.events = <<>> /\ P.refused = FALSE
    BY <2>0, <2>1 DEF Projected
  <2>4. Speaks(P.events, id, old, text)
    BY <1>10, <2>2 DEF Speaks
  <2>5. WholeMakes(P, p, id, text)
    BY <1>5, <1>10, <2>2, <2>4 DEF WholeMakes
  <2> QED BY <1>1, <1>2, <2>5
<1>11. CASE text # old /\ IsPrefix(old, text)
  <2>1. PICK rest : rest = SubSeq(text, Len(old) + 1, Len(text))
    OBVIOUS
  <2>2. rest \in Seq(Pieces(id)) /\ old \o rest = text /\ rest # <<>>
    BY <1>11, <2>1, PrefixRest
  <2>3. PICK replace \in BOOLEAN : replace = FALSE
    OBVIOUS
  <2>4. Speaks(Delta(kind, id, rest, replace), id, old, IF replace THEN rest ELSE old \o rest)
    BY <1>3, <2>2, <2>3, SpeaksDelta
  <2>5. Speaks(Delta(kind, id, rest, FALSE), id, old, text)
    BY <2>2, <2>3, <2>4
  <2>6. P = Projected(q, Delta(kind, id, rest, FALSE))
    BY <1>4, <1>5, <1>7, <1>11, <2>1 DEF ProjectWhole
  <2>7. WholeMakes(P, p, id, text)
    BY <1>9, <2>5, <2>6
  <2> QED BY <1>1, <1>2, <2>7
<1>12. CASE text # old /\ ~IsPrefix(old, text) /\ kind = "message"
  <2>1. P = Invalid(p)
    BY <1>4, <1>5, <1>12 DEF ProjectWhole
  <2>2. P.projector = p /\ P.events = <<>> /\ P.refused = TRUE
    BY <2>1 DEF Invalid
  <2>4. WholeMakes(P, p, id, text)
    BY <2>2 DEF WholeMakes
  <2> QED BY <1>1, <1>2, <2>4
<1>13. CASE text # old /\ ~IsPrefix(old, text) /\ kind = "thought"
  <2>1. id \notin Messages
    BY <1>3, <1>13
  <2>3. PICK replace \in BOOLEAN : replace = TRUE
    OBVIOUS
  <2>4. Speaks(Delta(kind, id, text, replace), id, old, IF replace THEN text ELSE old \o text)
    BY <1>3, <2>1, <2>3, SpeaksDelta
  <2>5. Speaks(Delta(kind, id, text, TRUE), id, old, text)
    BY <2>3, <2>4
  <2>6. P = Projected(q, Delta(kind, id, text, TRUE))
    BY <1>4, <1>5, <1>7, <1>13 DEF ProjectWhole
  <2>7. WholeMakes(P, p, id, text)
    BY <1>9, <2>5, <2>6
  <2> QED BY <1>1, <1>2, <2>7
<1> QED BY <1>3, <1>10, <1>11, <1>12, <1>13

PatchMakes(P, p) ==
    /\ ProjectorOK(P.projector) /\ P.projector.texts = p.texts
    /\ Quiet(P.events) /\ MessageText(P.events) = <<>> /\ P.refused \in BOOLEAN
    /\ P.refused => P.events = <<>> /\ P.projector = p

LEMMA PatchProjected ==
    ASSUME NEW p, ProjectorOK(p), NEW update, IsPatch(update), NEW version,
           NEW P, P = Project(version, p, update)
    PROVE  PatchMakes(P, p)
<1>1. P = ProjectTool(p, update.tool, update.status)
  BY DEF Project, IsPatch
<1>2. PICK tool \in Tools, status \in Statuses : tool = update.tool /\ status = update.status
  BY DEF IsPatch
<1>3. PatchMakes(ProjectTool(p, tool, status), p)
  BY ToolProjected, Zenon DEF PatchMakes
<1> QED BY <1>1, <1>2, <1>3

-----------------------------------------------------------------------------
(* An update is projected: the turns show what the Agent has written with it. *)
LEMMA TextsChange ==
    ASSUME NEW texts, TextsOK(texts), NEW id \in Contents, NEW text \in Seq(Pieces(id)),
           NEW after, after = [texts EXCEPT ![id] = text]
    PROVE  TextsOK(after) /\ Changes(texts, after, id, text)
<1>1. text \in MessageTexts \cup ThoughtTexts
  BY TextsOf
<1> QED BY <1>1 DEF TextsOK, Changes

LEMMA WrittenChunk ==
    ASSUME NEW update, IsChunk(update), NEW texts, TextsOK(texts)
    PROVE  /\ TextsOK(Written(texts, update))
           /\ Changes(texts, Written(texts, update), update.id, texts[update.id] \o ContentText(update.text))
           /\ texts[update.id] \o ContentText(update.text) \in Seq(Pieces(update.id))
<1>0. PICK id \in Contents : id = update.id
  BY DEF IsChunk
<1>1. PICK old \in Seq(Pieces(id)), new \in Seq(Pieces(id)) : old = texts[id] /\ new = ContentText(update.text)
  BY <1>0, ChunkContent DEF TextsOK
<1>2. PICK whole \in Seq(Pieces(id)) : whole = old \o new
  <2>1. old \o new \in Seq(Pieces(id))
    OBVIOUS
  <2> QED BY <2>1, Zenon
<1>3. PICK after : after = [texts EXCEPT ![id] = whole]
  OBVIOUS
<1>4. TextsOK(after) /\ Changes(texts, after, id, whole)
  BY <1>3, TextsChange
<1>5. Written(texts, update) = after
  BY <1>0, <1>1, <1>2, <1>3, ChunkContent DEF Written
<1> QED BY <1>0, <1>1, <1>2, <1>4, <1>5

LEMMA WrittenWhole ==
    ASSUME NEW update, IsWhole(update), NEW texts, TextsOK(texts)
    PROVE  /\ TextsOK(Written(texts, update))
           /\ Changes(texts, Written(texts, update), update.id, update.text)
<1>0. PICK id \in Contents : id = update.id
  BY DEF IsWhole
<1>2. PICK whole \in Seq(Pieces(id)) : whole = update.text
  BY <1>0 DEF IsWhole
<1>3. PICK after : after = [texts EXCEPT ![id] = whole]
  OBVIOUS
<1>4. TextsOK(after) /\ Changes(texts, after, id, whole)
  BY <1>3, TextsChange
<1>5. Written(texts, update) = after
  BY <1>0, <1>2, <1>3 DEF Written, IsWhole
<1> QED BY <1>0, <1>2, <1>4, <1>5

LEMMA WrittenPatch ==
    ASSUME NEW update, IsPatch(update), NEW texts
    PROVE  Written(texts, update) = texts
BY DEF Written, IsPatch

(* The projector knows the texts that are not lost. *)
Knows(p, texts, lost) == \A m \in Contents \ lost : p.texts[m] = texts[m]

LEMMA PatchBecomes ==
    ASSUME NEW p, ProjectorOK(p), NEW update, IsPatch(update), NEW version, NEW P, P = Project(version, p, update),
           NEW ts, NEW n, NEW texts, NEW lost, Faithful(ts, n, texts, lost), ts # <<>>
    PROVE  /\ Become(ts, ApplyEvents(ts, n, P.events), n + Len(P.events), Written(texts, update), lost)
           /\ Knows(p, texts, lost) => Knows(P.projector, Written(texts, update), lost)
           /\ MessageText(P.events) = <<>>
<1>1. PatchMakes(P, p)
  BY PatchProjected
<1>2. PICK after : after = Written(texts, update) /\ after = texts
  BY WrittenPatch
<1>3. PICK events : events = P.events
  OBVIOUS
<1>4. Quiet(events)
  BY <1>1, <1>3 DEF PatchMakes
<1>5. Become(ts, ApplyEvents(ts, n, events), n + Len(events), texts, lost)
  BY <1>4, QuietBecomes
<1>6. Knows(p, texts, lost) => Knows(P.projector, texts, lost)
  BY <1>1 DEF PatchMakes, Knows
<1> QED BY <1>1, <1>2, <1>3, <1>5, <1>6 DEF PatchMakes

LEMMA ChunkBecomes ==
    ASSUME NEW p, ProjectorOK(p), NEW update, IsChunk(update), NEW version \in {1, 2},
           NEW P, P = Project(version, p, update),
           NEW ts, NEW n, NEW texts, TextsOK(texts), NEW lost, Faithful(ts, n, texts, lost), ts # <<>>
    PROVE  /\ Become(ts, ApplyEvents(ts, n, P.events), n + Len(P.events), Written(texts, update), lost)
           /\ version = 2 /\ Knows(p, texts, lost) => Knows(P.projector, Written(texts, update), lost)
<1>0. PICK id \in Contents : id = update.id
  BY DEF IsChunk
<1>1. PICK text \in Seq(Pieces(id)) : text = ContentText(update.text)
  BY <1>0, ChunkContent
<1>2. ChunkMakes(P, p, version, id, text)
  BY <1>0, <1>1, ChunkProjected
<1>3. PICK after, x : after = Written(texts, update) /\ x = texts[id] \o text
  OBVIOUS
<1>4. Changes(texts, after, id, x)
  BY <1>0, <1>1, <1>3, WrittenChunk
<1>5. PICK events : events = P.events
  OBVIOUS
<1>6. Speaks(events, id, texts[id], x)
  <2>1. texts[id] \in Seq(Pieces(id))
    BY DEF TextsOK
  <2> QED BY <1>2, <1>3, <1>5, <2>1 DEF ChunkMakes
<1>7. Become(ts, ApplyEvents(ts, n, events), n + Len(events), after, lost)
  BY <1>4, <1>6, SpeaksBecomes
<1>8. version = 2 /\ Knows(p, texts, lost) => Knows(P.projector, after, lost)
  BY <1>2, <1>3, <1>4 DEF Knows, ChunkMakes, Changes
<1> QED BY <1>3, <1>5, <1>7, <1>8

LEMMA FaithfulElsewhere ==
    ASSUME NEW ts, NEW n, NEW texts, NEW lost, Faithful(ts, n, texts, lost), ts # <<>>, NEW after, NEW more,
           lost \subseteq more, \A m \in Contents \ more : after[m] = texts[m]
    PROVE  Faithful(ts, n, after, more)
<1>1. TextAgrees(ts, after, more)
  BY AgreesElsewhere DEF Faithful
<1> QED BY <1>1, Zenon DEF Faithful

LEMMA WholeBecomes ==
    ASSUME NEW p, ProjectorOK(p), NEW update, IsWhole(update), NEW version,
           NEW P, P = Project(version, p, update), ~P.refused,
           NEW ts, NEW n, NEW texts, TextsOK(texts), NEW lost, Knows(p, texts, lost),
           Faithful(ts, n, texts, lost), ts # <<>>
    PROVE  /\ Become(ts, ApplyEvents(ts, n, P.events), n + Len(P.events), Written(texts, update), lost)
           /\ Knows(P.projector, Written(texts, update), lost)
<1>0. PICK id \in Contents : id = update.id
  BY DEF IsWhole
<1>1. PICK text \in Seq(Pieces(id)) : text = update.text
  BY <1>0 DEF IsWhole
<1>2. WholeMakes(P, p, id, text)
  BY <1>0, <1>1, WholeProjected
<1>3. PICK after : after = Written(texts, update)
  OBVIOUS
<1>4. Changes(texts, after, id, text)
  BY <1>0, <1>1, <1>3, WrittenWhole
<1>5. PICK events : events = P.events
  OBVIOUS
<1>6. PICK known : known = [k \in Contents |-> IF k = id THEN p.texts[id] ELSE texts[k]]
  OBVIOUS
<1>7. \A k \in Contents \ lost : known[k] = texts[k]
  BY <1>6 DEF Knows
<1>8. Faithful(ts, n, known, lost)
  BY <1>7, FaithfulElsewhere
<1>9. known[id] = p.texts[id] /\ Changes(known, after, id, text)
  BY <1>4, <1>6 DEF Changes
<1>10. Speaks(events, id, known[id], text)
  BY <1>2, <1>5, <1>9 DEF WholeMakes
<1>11. Become(ts, ApplyEvents(ts, n, events), n + Len(events), after, lost)
  BY <1>8, <1>9, <1>10, SpeaksBecomes
<1>12. Knows(P.projector, after, lost)
  BY <1>2, <1>4 DEF Knows, WholeMakes, Changes
<1> QED BY <1>3, <1>5, <1>11, <1>12

-----------------------------------------------------------------------------
(* The collector reads the record one update after the other.                 *)
CollectedOf(s, m, f) == f = [n \in 0..m |-> IF n = 0 THEN NewCollector ELSE Accept(f[n - 1], s[n])]

LEMMA CollectedExists ==
    ASSUME NEW s
    PROVE  \A m \in Nat : \E f : CollectedOf(s, m, f)
<1> DEFINE G == {m \in Nat : \E f : CollectedOf(s, m, f)}
<1>1. 0 \in G
  <2> DEFINE f == [n \in 0..0 |-> NewCollector]
  <2>1. CollectedOf(s, 0, f)
    BY DEF CollectedOf
  <2> QED BY <2>1
<1>2. ASSUME NEW m \in Nat, m \in G  PROVE m + 1 \in G
  <2>1. PICK f : CollectedOf(s, m, f)
    BY <1>2
  <2> DEFINE g == [n \in 0..(m + 1) |-> IF n <= m THEN f[n] ELSE Accept(f[n - 1], s[n])]
  <2>2. CollectedOf(s, m + 1, g)
    <3>1. \A n \in 0..m : f[n] = IF n = 0 THEN NewCollector ELSE Accept(f[n - 1], s[n])
      BY <2>1 DEF CollectedOf
    <3>2. \A n \in 0..(m + 1) : g[n] = IF n = 0 THEN NewCollector ELSE Accept(g[n - 1], s[n])
      <4>1. \A n \in 0..m : g[n] = f[n]
        OBVIOUS
      <4> HIDE DEF g
      <4> TAKE n \in 0..(m + 1)
      <4>2. CASE n \in 0..m
        <5>1. n # 0 => n - 1 \in 0..m
          BY <4>2
        <5> QED BY <3>1, <4>1, <4>2, <5>1
      <4>3. CASE n = m + 1
        <5>1. g[n] = Accept(f[n - 1], s[n])
          BY <4>3 DEF g
        <5>2. n - 1 \in 0..m /\ n # 0
          BY <4>3
        <5> QED BY <4>1, <5>1, <5>2
      <4> QED BY <4>2, <4>3
    <3>3. g = [n \in 0..(m + 1) |-> g[n]]
      OBVIOUS
    <3> HIDE DEF g
    <3> QED BY <3>2, <3>3 DEF CollectedOf
  <2> HIDE DEF g
  <2> QED BY <2>2
<1> HIDE DEF G
<1>3. Nat \subseteq G
  BY <1>1, <1>2, AllNumbers
<1> QED BY <1>3 DEF G

LEMMA CollectedIs ==
    ASSUME NEW T, NEW s \in Seq(T)
    PROVE  \E f : CollectedOf(s, Len(s), f) /\ Collected(s) = f[Len(s)]
<1> DEFINE f == CHOOSE f : CollectedOf(s, Len(s), f)
<1>1. CollectedOf(s, Len(s), f)
  BY CollectedExists
<1>2. Collected(s) = f[Len(s)]
  BY DEF Collected, CollectedOf
<1> QED BY <1>1, <1>2

LEMMA CollectedAgree ==
    ASSUME NEW s, NEW t, NEW m \in Nat, NEW k \in Nat, NEW f, NEW g,
           m <= k, CollectedOf(s, m, f), CollectedOf(t, k, g), \A n \in 1..m : s[n] = t[n]
    PROVE  f[m] = g[m]
<1> DEFINE N == {n \in Nat : n <= m => f[n] = g[n]}
<1>1. /\ \A n \in 0..m : f[n] = IF n = 0 THEN NewCollector ELSE Accept(f[n - 1], s[n])
      /\ \A n \in 0..k : g[n] = IF n = 0 THEN NewCollector ELSE Accept(g[n - 1], t[n])
  BY DEF CollectedOf
<1>2. 0 \in N
  BY <1>1
<1>3. ASSUME NEW n \in Nat, n \in N  PROVE n + 1 \in N
  <2> SUFFICES ASSUME n + 1 <= m  PROVE f[n + 1] = g[n + 1]
    OBVIOUS
  <2>1. f[n] = g[n]
    BY <1>3
  <2>2. n + 1 \in 0..m /\ n + 1 \in 0..k /\ n + 1 # 0 /\ (n + 1) - 1 = n /\ n + 1 \in 1..m
    OBVIOUS
  <2> QED BY <1>1, <2>1, <2>2
<1> HIDE DEF N
<1>4. Nat \subseteq N
  BY <1>2, <1>3, AllNumbers
<1> QED BY <1>4 DEF N

LEMMA CollectedNothing == Collected(<<>>) = NewCollector
<1>1. <<>> \in Seq({}) /\ Len(<<>>) = 0
  OBVIOUS
<1>2. PICK f : CollectedOf(<<>>, Len(<<>>), f) /\ Collected(<<>>) = f[Len(<<>>)]
  BY <1>1, CollectedIs
<1>3. f[0] = NewCollector
  BY <1>1, <1>2 DEF CollectedOf
<1> QED BY <1>1, <1>2, <1>3

LEMMA CollectedAppend ==
    ASSUME NEW T, NEW s \in Seq(T), NEW x \in T
    PROVE  Collected(Append(s, x)) = Accept(Collected(s), x)
<1>1. PICK m \in Nat : m = Len(s)
  OBVIOUS
<1>2. PICK t \in Seq(T) : t = Append(s, x)
  <2>1. Append(s, x) \in Seq(T)
    OBVIOUS
  <2> QED BY <2>1, Zenon
<1>3. Len(t) = m + 1 /\ t[m + 1] = x /\ \A n \in 1..m : t[n] = s[n]
  BY <1>1, <1>2
<1>4. PICK f : CollectedOf(s, m, f) /\ Collected(s) = f[m]
  BY <1>1, CollectedIs
<1>5. PICK g : CollectedOf(t, m + 1, g) /\ Collected(t) = g[m + 1]
  BY <1>3, CollectedIs
<1>6. f[m] = g[m]
  <2>0. PICK k \in Nat : k = m + 1
    OBVIOUS
  <2>1. m <= k /\ \A n \in 1..m : s[n] = t[n]
    BY <1>3, <2>0
  <2>2. CollectedOf(s, m, f) /\ CollectedOf(t, k, g)
    BY <1>4, <1>5, <2>0
  <2> QED BY <2>1, <2>2, CollectedAgree
<1>7. g[m + 1] = Accept(g[m], x)
  <2>1. m + 1 \in 0..(m + 1) /\ m + 1 # 0 /\ (m + 1) - 1 = m
    OBVIOUS
  <2> QED BY <1>3, <1>5, <2>1 DEF CollectedOf
<1>8. Collected(t) = Accept(Collected(s), x)
  BY <1>4, <1>5, <1>6, <1>7, Zenon
<1> QED BY <1>2, <1>8, Zenon

-----------------------------------------------------------------------------
(* The collector, step by step.                                               *)
Collectors ==
  [projector : Projectors, turns : Seq(ConversationTurns), sequence : Nat,
   phase : {"empty", "user", "output"}, id : {None} \cup (1..MaxPrompts), refused : BOOLEAN]

CollectorOK(c) == c \in Collectors /\ ProjectorOK(c.projector)

IsPrompt(update) ==
    /\ update.kind = "user" /\ update.text \in Seq(1..MaxPrompts) /\ update.text # <<>>
    /\ update.id \in {None} \cup (1..MaxPrompts)

CollectorOf(c, turns, n) == c.turns = turns /\ c.sequence = n

(* The collector d is c with other turns. *)
WithTurns(c, d, turns, n) ==
    CollectorOf(d, turns, n) /\ d.projector = c.projector /\ d.phase = c.phase /\ d.id = c.id /\ d.refused = c.refused

LEMMA CollectorFields ==
    ASSUME NEW c \in Collectors
    PROVE  /\ c.projector \in Projectors /\ c.turns \in Seq(ConversationTurns) /\ c.sequence \in Nat
           /\ c.phase \in {"empty", "user", "output"} /\ c.id \in {None} \cup (1..MaxPrompts) /\ c.refused \in BOOLEAN
BY DEF Collectors

LEMMA CollectorMade ==
    ASSUME NEW p \in Projectors, NEW ts \in Seq(ConversationTurns), NEW n \in Nat,
           NEW phase \in {"empty", "user", "output"}, NEW id \in {None} \cup (1..MaxPrompts), NEW refused \in BOOLEAN
    PROVE  [projector |-> p, turns |-> ts, sequence |-> n, phase |-> phase, id |-> id, refused |-> refused] \in Collectors
BY DEF Collectors

LEMMA Refusing ==
    ASSUME NEW c, CollectorOK(c), NEW d, d = [c EXCEPT !.refused = TRUE]
    PROVE  CollectorOK(d) /\ d.refused
BY DEF CollectorOK, Collectors

LEMMA Collecting ==
    ASSUME NEW c, CollectorOK(c), NEW events, NEW us \in Seq(ConversationTurns), NEW k \in Nat,
           us = ApplyEvents(c.turns, c.sequence, events), k = c.sequence + Len(events),
           NEW d, d = Collect(c, events)
    PROVE  CollectorOK(d) /\ WithTurns(c, d, us, k)
<1>1. d = [c EXCEPT !.turns = us, !.sequence = k]
  BY DEF Collect
<1>2. d.turns = us /\ d.sequence = k /\ d.projector = c.projector /\ d.phase = c.phase /\ d.id = c.id
      /\ d.refused = c.refused
  BY <1>1 DEF CollectorOK, Collectors
<1>3. d \in Collectors
  BY <1>1 DEF CollectorOK, Collectors
<1> QED BY <1>2, <1>3 DEF WithTurns, CollectorOf, CollectorOK

LEMMA Outputs ==
    ASSUME NEW c, CollectorOK(c), ~c.refused, NEW update, IsPatch(update) \/ IsChunk(update),
           NEW P, P = Project(1, c.projector, update), ProjectorOK(P.projector), P.refused \in BOOLEAN,
           NEW us \in Seq(ConversationTurns), NEW k \in Nat,
           us = ApplyEvents(c.turns, c.sequence, P.events), k = c.sequence + Len(P.events),
           NEW d, d = Accept(c, update)
    PROVE  /\ CollectorOK(d)
           /\ \/ d.refused
              \/ /\ ~P.refused /\ (update.kind # "tool" => update.text # None)
                 /\ d.projector = P.projector /\ d.id = c.id /\ ~d.refused
                 /\ CollectorOf(d, us, k)
                 /\ P.events = <<>> => d.phase = c.phase
                 /\ P.events # <<>> => c.phase # "empty" /\ d.phase = "output"
<1>1. update.kind # "user"
  BY ChunkContent DEF IsPatch, IsChunk
<1>2. d = AcceptOutput(c, update)
  BY <1>1 DEF Accept
<1>3. PICK seen : seen = [c EXCEPT !.projector = P.projector]
  OBVIOUS
<1>4. /\ CollectorOK(seen) /\ seen.turns = c.turns /\ seen.sequence = c.sequence /\ seen.phase = c.phase
      /\ seen.id = c.id /\ seen.refused = c.refused /\ seen.projector = P.projector
  BY <1>3 DEF CollectorOK, Collectors, ProjectorOK
<1>5. CASE P.refused \/ (update.kind # "tool" /\ update.text = None)
  <2>1. d = [c EXCEPT !.refused = TRUE]
    BY <1>2, <1>5 DEF AcceptOutput
  <2> QED BY <2>1, Refusing
<1>6. CASE ~P.refused /\ ~(update.kind # "tool" /\ update.text = None) /\ P.events = <<>>
  <2>1. d = seen
    BY <1>2, <1>3, <1>6 DEF AcceptOutput
  <2>2. us = c.turns /\ k = c.sequence
    <3>1. ApplyEvents(c.turns, c.sequence, <<>>) = c.turns
      BY ApplyNone
    <3>2. c.sequence + Len(<<>>) = c.sequence
      BY CollectorFields DEF CollectorOK
    <3> QED BY <1>6, <3>1, <3>2
  <2> QED BY <1>4, <1>6, <2>1, <2>2 DEF CollectorOf
<1>7. CASE ~P.refused /\ ~(update.kind # "tool" /\ update.text = None) /\ P.events # <<>> /\ c.phase = "empty"
  <2>1. d = [c EXCEPT !.refused = TRUE]
    BY <1>2, <1>7 DEF AcceptOutput
  <2> QED BY <2>1, Refusing
<1>8. CASE ~P.refused /\ ~(update.kind # "tool" /\ update.text = None) /\ P.events # <<>> /\ c.phase # "empty"
  <2>1. PICK e : e = [seen EXCEPT !.phase = "output"]
    OBVIOUS
  <2>2. /\ CollectorOK(e) /\ e.turns = c.turns /\ e.sequence = c.sequence /\ e.phase = "output"
        /\ e.id = c.id /\ e.refused = c.refused /\ e.projector = P.projector
    BY <1>4, <2>1 DEF CollectorOK, Collectors
  <2>3. d = Collect(e, P.events)
    BY <1>2, <1>3, <1>8, <2>1 DEF AcceptOutput
  <2>4. us = ApplyEvents(e.turns, e.sequence, P.events) /\ k = e.sequence + Len(P.events)
    BY <2>2
  <2>5. CollectorOK(d) /\ WithTurns(e, d, us, k)
    BY <2>2, <2>3, <2>4, Collecting
  <2> QED BY <1>8, <2>2, <2>5 DEF WithTurns
<1> QED BY <1>5, <1>6, <1>7, <1>8

LEMMA Completing ==
    ASSUME NEW c, CollectorOK(c), ~c.refused, NEW us \in Seq(ConversationTurns), NEW k \in Nat,
           us = ApplyEvents(c.turns, c.sequence, <<RunFinished>>), k = c.sequence + 1,
           NEW d, d = CompleteCurrentTurn(c)
    PROVE  CollectorOK(d) /\ (d.refused \/ (~Unfinished(Last(c.turns)) /\ ~d.refused /\ WithTurns(c, d, us, k)))
<1>1. CASE Unfinished(Last(c.turns))
  <2>1. d = [c EXCEPT !.refused = TRUE]
    BY <1>1 DEF CompleteCurrentTurn
  <2> QED BY <2>1, Refusing
<1>2. CASE ~Unfinished(Last(c.turns))
  <2>1. d = Collect(c, <<RunFinished>>)
    BY <1>2 DEF CompleteCurrentTurn
  <2>2. Len(<<RunFinished>>) = 1
    OBVIOUS
  <2>3. PICK events : events = <<RunFinished>>
    OBVIOUS
  <2>4. us = ApplyEvents(c.turns, c.sequence, events) /\ k = c.sequence + Len(events) /\ d = Collect(c, events)
    BY <2>1, <2>2, <2>3
  <2>5. CollectorOK(d) /\ WithTurns(c, d, us, k)
    BY <2>4, Collecting
  <2> QED BY <1>2, <2>5 DEF WithTurns
<1> QED BY <1>1, <1>2

(* The collector has the turns us after a new turn, from the turns vs with it. *)
Begins(c, vs, us, k) ==
    /\ vs = Append(c.turns, CreateConversationTurn(<<>>, c.sequence))
    /\ us = ApplyEvents(vs, c.sequence, <<RunStarted>>) /\ k = c.sequence + 1

LEMMA Beginning ==
    ASSUME NEW c, CollectorOK(c), ~c.refused, NEW id \in {None} \cup (1..MaxPrompts),
           NEW vs \in Seq(ConversationTurns), NEW us \in Seq(ConversationTurns), NEW k \in Nat,
           Begins(c, vs, us, k), NEW d, d = BeginReplayedTurn(c, id)
    PROVE  /\ CollectorOK(d) /\ CollectorOf(d, us, k)
           /\ d.projector = c.projector /\ d.phase = "user" /\ d.id = id /\ ~d.refused
<1>1. PICK e : e = [c EXCEPT !.turns = vs, !.id = id, !.phase = "user"]
  OBVIOUS
<1>2. /\ CollectorOK(e) /\ e.turns = vs /\ e.sequence = c.sequence /\ e.phase = "user"
      /\ e.id = id /\ e.refused = c.refused /\ e.projector = c.projector
  BY <1>1 DEF CollectorOK, Collectors
<1>3. PICK events : events = <<RunStarted>>
  OBVIOUS
<1>4. d = Collect(e, events)
  BY <1>1, <1>3 DEF BeginReplayedTurn, Begins
<1>5. Len(events) = 1
  BY <1>3
<1>6. us = ApplyEvents(e.turns, e.sequence, events) /\ k = e.sequence + Len(events)
  BY <1>2, <1>3, <1>5 DEF Begins
<1>7. CollectorOK(d) /\ WithTurns(e, d, us, k)
  BY <1>2, <1>4, <1>6, Collecting
<1> QED BY <1>2, <1>7 DEF WithTurns

LEMMA Extending ==
    ASSUME NEW c, CollectorOK(c), ~c.refused, NEW text, NEW us \in Seq(ConversationTurns),
           us = WithUser(c.turns, text),
           NEW d, d = ExtendUser(c, text)
    PROVE  /\ CollectorOK(d) /\ CollectorOf(d, us, c.sequence)
           /\ d.projector = c.projector /\ d.phase = "user" /\ d.id = c.id /\ ~d.refused
<1>1. d = [c EXCEPT !.turns = us, !.phase = "user"]
  <2>1. c.turns \in Seq(ConversationTurns)
    BY DEF CollectorOK, Collectors
  <2>2. PICK vs : vs = c.turns
    OBVIOUS
  <2>3. [c EXCEPT !.turns[Len(c.turns)].user = @ \o text, !.phase = "user"]
          = [c EXCEPT !.turns = [c.turns EXCEPT ![Len(c.turns)].user = @ \o text], !.phase = "user"]
    BY DEF CollectorOK, Collectors
  <2> QED BY <2>3 DEF ExtendUser, WithUser
<1>2. d.turns = us /\ d.sequence = c.sequence /\ d.projector = c.projector /\ d.phase = "user" /\ d.id = c.id
      /\ d.refused = c.refused
  BY <1>1 DEF CollectorOK, Collectors
<1>3. d \in Collectors
  BY <1>1 DEF CollectorOK, Collectors
<1> QED BY <1>2, <1>3 DEF CollectorOf, CollectorOK

-----------------------------------------------------------------------------
(* What the collector has made of a record.                                   *)
Gathered(c, texts, prompts) ==
    /\ CollectorOK(c) /\ ~c.refused
    /\ Faithful(c.turns, c.sequence, texts, {})
    /\ PromptsIn(c.turns) = prompts

(* Between two updates, every turn has a prompt. *)
Collects(c, texts, prompts) ==
    Gathered(c, texts, prompts) /\ Prompted(c.turns) /\ (c.phase = "empty" <=> c.turns = <<>>)

(* In the last turn, a prompt may follow. *)
Prompting(c, texts, prompts) ==
    Gathered(c, texts, prompts) /\ c.turns # <<>> /\ Prompted(Front(c.turns))

LEMMA FrontOfAppend ==
    ASSUME NEW T, NEW s \in Seq(T), NEW x \in T
    PROVE  Front(Append(s, x)) = s
BY DEF Front

LEMMA FrontPrompted ==
    ASSUME NEW ts \in Seq(ConversationTurns), ts # <<>>, Prompted(ts)
    PROVE  Prompted(Front(ts))
BY DEF Front, Prompted

LEMMA SameFront ==
    ASSUME NEW ts, NEW us, SameUsers(ts, us), ts # <<>>, Prompted(Front(ts))
    PROVE  Prompted(Front(us))
BY DEF Front, Prompted, SameUsers

LEMMA CompletingGathers ==
    ASSUME NEW c, NEW texts, NEW prompts, Collects(c, texts, prompts), c.turns # <<>>,
           NEW d, d = CompleteCurrentTurn(c)
    PROVE  /\ CollectorOK(d)
           /\ \/ d.refused
              \/ /\ Collects(d, texts, prompts) /\ d.turns # <<>> /\ ~Unfinished(Last(c.turns))
                 /\ d.projector = c.projector /\ d.phase = c.phase /\ d.id = c.id
<1>1. CollectorOK(c) /\ ~c.refused /\ Faithful(c.turns, c.sequence, texts, {})
  BY DEF Collects, Gathered
<1>2. PICK events : events = <<RunFinished>>
  OBVIOUS
<1>3. Quiet(events) /\ Len(events) = 1
  BY <1>2 DEF Quiet, QuietEvents
<1>4. PICK us : us = ApplyEvents(c.turns, c.sequence, events)
  OBVIOUS
<1>5. PICK k : k = c.sequence + 1
  OBVIOUS
<1>6. Become(c.turns, us, k, texts, {})
  BY <1>1, <1>3, <1>4, <1>5, QuietBecomes
<1>7. us \in Seq(ConversationTurns) /\ k \in Nat /\ Faithful(us, k, texts, {}) /\ us # <<>> /\ SameUsers(c.turns, us)
  BY <1>6 DEF Become, Faithful
<1>8. us = ApplyEvents(c.turns, c.sequence, <<RunFinished>>)
  BY <1>2, <1>4
<1>9. CollectorOK(d) /\ (d.refused \/ (~Unfinished(Last(c.turns)) /\ ~d.refused /\ WithTurns(c, d, us, k)))
  BY <1>1, <1>5, <1>7, <1>8, Completing
<1>10. PromptsIn(us) = PromptsIn(c.turns) /\ (Prompted(c.turns) => Prompted(us))
  BY <1>7, SamePrompts
<1>11. c.phase # "empty" /\ Prompted(c.turns) /\ PromptsIn(c.turns) = prompts
  BY DEF Collects, Gathered
<1> QED BY <1>7, <1>9, <1>10, <1>11 DEF WithTurns, CollectorOf, Collects, Gathered

LEMMA BeginningGathers ==
    ASSUME NEW c, NEW texts, NEW prompts, Collects(c, texts, prompts), NEW id \in {None} \cup (1..MaxPrompts),
           NEW d, d = BeginReplayedTurn(c, id)
    PROVE  Prompting(d, texts, prompts) /\ d.phase = "user"
<1>1. CollectorOK(c) /\ ~c.refused /\ Faithful(c.turns, c.sequence, texts, {}) /\ PromptsIn(c.turns) = prompts
      /\ Prompted(c.turns)
  BY DEF Collects, Gathered
<1>2. c.turns \in Seq(ConversationTurns) /\ c.sequence \in Nat
  BY <1>1 DEF Faithful
<1>3. PICK t : t = CreateConversationTurn(<<>>, c.sequence)
  OBVIOUS
<1>4. t \in ConversationTurns /\ t.blocks = <<>> /\ t.lastEvent <= c.sequence /\ t.user = <<>>
  BY <1>2, <1>3 DEF CreateConversationTurn, ConversationTurns
<1>5. PICK vs : vs = Append(c.turns, t)
  OBVIOUS
<1>6. vs \in Seq(ConversationTurns) /\ vs # <<>> /\ Faithful(vs, c.sequence, texts, {})
  BY <1>1, <1>2, <1>4, <1>5, TurnBegins DEF Faithful
<1>7. PromptsIn(vs) = prompts
  <2>1. PromptsIn(vs) = PromptsIn(c.turns) \o <<>>
    BY <1>2, <1>4, <1>5, PromptsAppend
  <2>2. PromptsIn(c.turns) \in Seq(1..MaxPrompts)
    BY <1>2, PromptsType
  <2> QED BY <1>1, <2>1, <2>2
<1>8. Prompted(Front(vs))
  BY <1>1, <1>2, <1>4, <1>5, FrontOfAppend
<1>9. PICK events : events = <<RunStarted>>
  OBVIOUS
<1>10. Quiet(events) /\ Len(events) = 1
  BY <1>9 DEF Quiet, QuietEvents
<1>11. PICK us : us = ApplyEvents(vs, c.sequence, events)
  OBVIOUS
<1>12. PICK k : k = c.sequence + 1
  OBVIOUS
<1>13. Become(vs, us, k, texts, {})
  BY <1>6, <1>10, <1>11, <1>12, QuietBecomes
<1>14. us \in Seq(ConversationTurns) /\ k \in Nat /\ Faithful(us, k, texts, {}) /\ us # <<>> /\ SameUsers(vs, us)
  BY <1>13 DEF Become, Faithful
<1>16. CollectorOK(d) /\ CollectorOf(d, us, k) /\ d.phase = "user" /\ ~d.refused
  <2>1. Begins(c, vs, us, k)
    BY <1>3, <1>5, <1>9, <1>11, <1>12 DEF Begins
  <2> QED BY <1>1, <1>6, <1>14, <2>1, Beginning
<1>17. PromptsIn(us) = prompts /\ Prompted(Front(us))
  BY <1>6, <1>7, <1>8, <1>14, SamePrompts, SameFront
<1> QED BY <1>14, <1>16, <1>17 DEF CollectorOf, Prompting, Gathered

LEMMA ExtendingGathers ==
    ASSUME NEW c, NEW texts, NEW prompts, Prompting(c, texts, prompts),
           NEW text \in Seq(1..MaxPrompts), text # <<>>, NEW d, d = ExtendUser(c, text)
    PROVE  Collects(d, texts, prompts \o text)
<1>1. CollectorOK(c) /\ ~c.refused /\ Faithful(c.turns, c.sequence, texts, {}) /\ PromptsIn(c.turns) = prompts
      /\ c.turns # <<>> /\ Prompted(Front(c.turns))
  BY DEF Prompting, Gathered
<1>2. PICK us : us = WithUser(c.turns, text)
  OBVIOUS
<1>3. Faithful(us, c.sequence, texts, {}) /\ us # <<>> /\ PromptsIn(us) = PromptsIn(c.turns) \o text /\ Prompted(us)
  BY <1>1, <1>2, UserExtended
<1>4. us \in Seq(ConversationTurns)
  BY <1>3 DEF Faithful
<1>5. CollectorOK(d) /\ CollectorOf(d, us, c.sequence) /\ d.phase = "user" /\ ~d.refused
  BY <1>1, <1>2, <1>4, Extending
<1> QED BY <1>1, <1>3, <1>5 DEF CollectorOf, Collects, Gathered

(* A prompt that the collector accepts follows the prompts it had. *)
LEMMA PromptCollected ==
    ASSUME NEW c, NEW texts, NEW prompts, Collects(c, texts, prompts), NEW update, IsPrompt(update),
           NEW d, d = Accept(c, update)
    PROVE  CollectorOK(d) /\ (d.refused \/ Collects(d, texts, prompts \o update.text))
<1>1. PICK text \in Seq(1..MaxPrompts) : text = update.text /\ text # <<>>
  <2>1. update.text \in Seq(1..MaxPrompts)
    BY DEF IsPrompt
  <2> QED BY <2>1 DEF IsPrompt
<1>2. PICK id \in {None} \cup (1..MaxPrompts) : id = update.id
  <2>1. update.id \in {None} \cup (1..MaxPrompts)
    BY DEF IsPrompt
  <2> QED BY <2>1, Zenon
<1>3. CollectorOK(c) /\ ~c.refused
  BY DEF Collects, Gathered
<1>4. d = ExtendUser(IF StartsNewMessage(c, id) THEN StartTurn(c, id) ELSE c, text)
  BY <1>1, <1>2, <1>3 DEF IsPrompt, Accept, AcceptUserChunk
<1>5. CASE ~StartsNewMessage(c, id)
  <2>1. d = ExtendUser(c, text)
    BY <1>4, <1>5
  <2>2. c.phase # "empty"
    BY <1>5 DEF StartsNewMessage
  <2>3. c.turns # <<>> /\ c.turns \in Seq(ConversationTurns) /\ Prompted(c.turns)
    BY <2>2 DEF Collects, Gathered, Faithful
  <2>4. Prompting(c, texts, prompts)
    BY <2>3, FrontPrompted DEF Collects, Prompting
  <2>5. Collects(d, texts, prompts \o text)
    BY <1>1, <2>1, <2>4, ExtendingGathers
  <2> QED BY <1>1, <2>5 DEF Collects, Gathered
<1>6. CASE StartsNewMessage(c, id)
  <2>1. PICK e : e = IF c.turns = <<>> THEN c ELSE CompleteCurrentTurn(c)
    OBVIOUS
  <2>2. d = ExtendUser(BeginReplayedTurn(e, id), text)
    BY <1>4, <1>6, <2>1 DEF StartTurn
  <2>3. CollectorOK(e) /\ (e.refused \/ Collects(e, texts, prompts))
    BY <1>3, <2>1, CompletingGathers
  <2>4. CASE e.refused
    <3>1. d = e
      BY <2>2, <2>4 DEF BeginReplayedTurn, ExtendUser
    <3> QED BY <2>3, <2>4, <3>1
  <2>5. CASE Collects(e, texts, prompts)
    <3>1. PICK b : b = BeginReplayedTurn(e, id)
      OBVIOUS
    <3>2. Prompting(b, texts, prompts)
      BY <2>5, <3>1, BeginningGathers
    <3>3. Collects(d, texts, prompts \o text)
      BY <1>1, <2>2, <3>1, <3>2, ExtendingGathers
    <3> QED BY <1>1, <3>3 DEF Collects, Gathered
  <2> QED BY <2>3, <2>4, <2>5
<1> QED BY <1>5, <1>6

LEMMA OutputWithoutTurn ==
    ASSUME NEW c, CollectorOK(c), ~c.refused, c.phase = "empty", NEW update, update.kind # "user",
           NEW P, P = Project(1, c.projector, update), P.events # <<>>, NEW d, d = Accept(c, update)
    PROVE  CollectorOK(d) /\ d.refused
<1>1. d = AcceptOutput(c, update)
  BY DEF Accept
<1>2. d = [c EXCEPT !.refused = TRUE]
  <2>1. CASE P.refused \/ (update.kind # "tool" /\ update.text = None)
    BY <1>1, <2>1 DEF AcceptOutput
  <2>2. CASE ~(P.refused \/ (update.kind # "tool" /\ update.text = None))
    BY <1>1, <2>2 DEF AcceptOutput
  <2> QED BY <2>1, <2>2
<1> QED BY <1>2, Refusing

(* What an output that the collector accepts has made of it. *)
LEMMA OutputGathers ==
    ASSUME NEW c, NEW texts, NEW prompts, Collects(c, texts, prompts), NEW after,
           NEW update, IsPatch(update) \/ IsChunk(update), NEW P, P = Project(1, c.projector, update),
           ProjectorOK(P.projector), P.refused \in BOOLEAN, NEW us, us = ApplyEvents(c.turns, c.sequence, P.events),
           NEW k, k = c.sequence + Len(P.events),
           c.turns # <<>> => Become(c.turns, us, k, after, {}),
           c.turns = <<>> /\ P.events = <<>> => \A m \in Contents : after[m] = <<>>,
           NEW d, d = Accept(c, update)
    PROVE  CollectorOK(d) /\ (d.refused \/ Collects(d, after, prompts))
<1>1. /\ CollectorOK(c) /\ ~c.refused /\ Faithful(c.turns, c.sequence, texts, {})
      /\ PromptsIn(c.turns) = prompts /\ Prompted(c.turns) /\ (c.phase = "empty" <=> c.turns = <<>>)
  BY DEF Collects, Gathered
<1>2. CASE c.turns # <<>>
  <2>1. us \in Seq(ConversationTurns) /\ k \in Nat /\ Faithful(us, k, after, {}) /\ us # <<>> /\ SameUsers(c.turns, us)
    BY <1>2 DEF Become, Faithful
  <2>2. /\ CollectorOK(d)
        /\ d.refused \/ (~d.refused /\ CollectorOf(d, us, k) /\ (P.events = <<>> => d.phase = c.phase)
                           /\ (P.events # <<>> => d.phase = "output"))
    BY <1>1, <2>1, Outputs
  <2>3. PromptsIn(us) = prompts /\ Prompted(us)
    BY <1>1, <2>1, SamePrompts
  <2> QED BY <1>1, <1>2, <2>1, <2>2, <2>3 DEF CollectorOf, Collects, Gathered
<1>3. CASE c.turns = <<>> /\ P.events # <<>>
  <2>1. update.kind # "user"
    BY ChunkContent DEF IsPatch, IsChunk
  <2> QED BY <1>1, <1>3, <2>1, OutputWithoutTurn
<1>4. CASE c.turns = <<>> /\ P.events = <<>>
  <2>1. c.turns \in Seq(ConversationTurns) /\ c.sequence \in Nat
    BY <1>1 DEF Faithful
  <2>2. us = c.turns /\ k = c.sequence
    <3>1. ApplyEvents(c.turns, c.sequence, <<>>) = c.turns
      BY ApplyNone
    <3>2. c.sequence + Len(<<>>) = c.sequence
      BY <2>1
    <3> QED BY <1>4, <3>1, <3>2
  <2>3. us \in Seq(ConversationTurns) /\ k \in Nat
    BY <2>1, <2>2
  <2>4. CollectorOK(d) /\ (d.refused \/ (~d.refused /\ CollectorOf(d, us, k) /\ d.phase = c.phase))
    BY <1>1, <1>4, <2>3, Outputs
  <2>5. Faithful(c.turns, c.sequence, after, {})
    BY <1>4, <2>1 DEF Faithful
  <2> QED BY <1>1, <2>2, <2>4, <2>5 DEF CollectorOf, Collects, Gathered
<1> QED BY <1>2, <1>3, <1>4

(* An output that the collector accepts adds what it says. *)
LEMMA OutputCollected ==
    ASSUME NEW c, NEW texts, TextsOK(texts), NEW prompts, Collects(c, texts, prompts),
           NEW update, IsPatch(update) \/ IsChunk(update), NEW d, d = Accept(c, update)
    PROVE  CollectorOK(d) /\ (d.refused \/ Collects(d, Written(texts, update), prompts))
<1>1. ProjectorOK(c.projector) /\ Faithful(c.turns, c.sequence, texts, {})
  BY DEF Collects, Gathered, CollectorOK
<1>2. PICK P : P = Project(1, c.projector, update)
  OBVIOUS
<1>3. PICK us : us = ApplyEvents(c.turns, c.sequence, P.events)
  OBVIOUS
<1>4. PICK k : k = c.sequence + Len(P.events)
  OBVIOUS
<1>5. PICK after : after = Written(texts, update)
  OBVIOUS
<1>6. c.turns = <<>> => \A m \in Contents : texts[m] = <<>>
  BY <1>1 DEF Faithful
<1>7. CASE IsPatch(update)
  <2>1. ProjectorOK(P.projector) /\ P.refused \in BOOLEAN
    BY <1>1, <1>2, <1>7, PatchProjected DEF PatchMakes
  <2>2. c.turns # <<>> => Become(c.turns, us, k, after, {})
    BY <1>1, <1>2, <1>3, <1>4, <1>5, <1>7, PatchBecomes
  <2>3. c.turns = <<>> => \A m \in Contents : after[m] = <<>>
    BY <1>5, <1>6, <1>7, WrittenPatch
  <2>4. CollectorOK(d) /\ (d.refused \/ Collects(d, after, prompts))
    BY <1>2, <1>3, <1>4, <2>1, <2>2, <2>3, OutputGathers
  <2> QED BY <1>5, <2>4
<1>8. CASE IsChunk(update)
  <2>0. ChunkMakes(P, c.projector, 1, update.id, ContentText(update.text))
    BY <1>1, <1>2, <1>8, ChunkProjected
  <2>1. ProjectorOK(P.projector) /\ P.refused \in BOOLEAN
    <3>1. P.refused = FALSE
      BY <1>2, <1>8, ChunkContent DEF Project, ProjectV1Chunk, Projected
    <3> QED BY <2>0, <3>1 DEF ChunkMakes
  <2>2. c.turns # <<>> => Become(c.turns, us, k, after, {})
    BY <1>1, <1>2, <1>3, <1>4, <1>5, <1>8, ChunkBecomes
  <2>3. c.turns = <<>> /\ P.events = <<>> => \A m \in Contents : after[m] = <<>>
    <3>1. SUFFICES ASSUME c.turns = <<>>, P.events = <<>>  PROVE \A m \in Contents : after[m] = <<>>
      OBVIOUS
    <3>2. Changes(texts, after, update.id, texts[update.id] \o ContentText(update.text)) /\ update.id \in Contents
      BY <1>5, <1>8, WrittenChunk DEF IsChunk
    <3>3. PICK before \in Seq(Pieces(update.id)) : before = texts[update.id]
      <4>1. texts[update.id] \in Seq(Pieces(update.id))
        BY <3>2 DEF TextsOK
      <4> QED BY <4>1, Zenon
    <3>4. Speaks(P.events, update.id, before, before \o ContentText(update.text))
      BY <2>0 DEF ChunkMakes
    <3>5. before \o ContentText(update.text) = before
      BY <3>1, <3>4 DEF Speaks
    <3> QED BY <1>6, <3>1, <3>2, <3>3, <3>5 DEF Changes
  <2>4. CollectorOK(d) /\ (d.refused \/ Collects(d, after, prompts))
    BY <1>2, <1>3, <1>4, <1>8, <2>1, <2>2, <2>3, OutputGathers
  <2> QED BY <1>5, <2>4
<1> QED BY <1>7, <1>8

-----------------------------------------------------------------------------
(* The inductive invariant.                                                   *)
TurnsOK(ts, n, texts, lost) ==
    Faithful(ts, n, texts, lost) /\ Prompted(ts) /\ Len(PromptsIn(ts)) <= MaxPrompts

(* What the collector would make of the record, unless it refuses it. *)
RecordOK(log, texts, ts) ==
    Collected(log).refused \/ Collects(Collected(log), texts, PromptsIn(ts))

(* Until prompts overlap, the projector has shown what the runner will repeat. *)
CloudOK(n, lost, shown, last) ==
    /\ lost \in {{}, Contents}
    /\ lost = {} => shown = last /\ (n = 0 => last = <<>>)

ProjectionInv ==
    /\ ProjectionTypeOK
    /\ TurnsOK(shownTurns, sequence, produced, astray)
    /\ projecting > 0 => shownTurns # <<>>
    /\ protocol = "v2" => Knows(projector, produced, astray)
    /\ protocol = "v1" => RecordOK(record, produced, shownTurns)
    /\ protocol # "cloud" => projecting <= 1
    /\ protocol = "cloud" => CloudOK(projecting, astray, shownText, final)
                             /\ projecting <= Len(PromptsIn(shownTurns))

TurnsType(ts, n) == ts \in Seq(ConversationTurns) /\ Len(ts) <= MaxPrompts /\ n \in Nat

LEMMA TurnsTyped ==
    ASSUME NEW ts, NEW n, NEW texts, NEW lost, TurnsOK(ts, n, texts, lost)
    PROVE  TurnsType(ts, n)
<1>1. ts \in Seq(ConversationTurns) /\ n \in Nat /\ Prompted(ts)
  BY DEF TurnsOK, Faithful
<1>2. Len(ts) <= Len(PromptsIn(ts)) /\ PromptsIn(ts) \in Seq(1..MaxPrompts)
  BY <1>1, EachTurnPrompted, PromptsType
<1>3. Len(PromptsIn(ts)) \in Nat /\ Len(PromptsIn(ts)) <= MaxPrompts /\ Len(ts) \in Nat /\ MaxPrompts \in Nat
  BY <1>1, <1>2, PromptsAssumption DEF TurnsOK
<1> QED BY <1>1, <1>2, <1>3 DEF TurnsType

LEMMA TurnsKept ==
    ASSUME NEW ts, NEW n, NEW texts, NEW lost, TurnsOK(ts, n, texts, lost),
           NEW us, NEW k, NEW after, NEW more, Become(ts, us, k, after, more)
    PROVE  TurnsOK(us, k, after, more) /\ us # <<>> /\ PromptsIn(us) = PromptsIn(ts)
<1>1. SameUsers(ts, us) /\ Faithful(us, k, after, more) /\ us # <<>> /\ Prompted(ts)
  BY DEF Become, TurnsOK
<1>2. PromptsIn(us) = PromptsIn(ts) /\ Prompted(us)
  BY <1>1, SamePrompts
<1> QED BY <1>1, <1>2 DEF TurnsOK

LEMMA SamePromptsRecorded ==
    ASSUME NEW log, NEW texts, NEW ts, NEW us, RecordOK(log, texts, ts), PromptsIn(us) = PromptsIn(ts)
    PROVE  RecordOK(log, texts, us)
BY DEF RecordOK

LEMMA InputKinds ==
    ASSUME NEW update \in Inputs, TextsOK(produced), updates \in 0..MaxUpdates, updates < MaxUpdates
    PROVE  /\ IsPatch(update) \/ IsChunk(update) \/ (protocol = "v2" /\ IsWhole(update))
           /\ protocol = "v1" => update \in RecordedUpdates
<1>1. \A m \in Contents : <<Piece(m)>> \in Seq(Pieces(m))
  <2>1. SUFFICES ASSUME NEW m \in Contents  PROVE <<Piece(m)>> \in Seq(Pieces(m))
    OBVIOUS
  <2>2. updates + 1 \in 1..MaxUpdates
    BY PromptsAssumption
  <2>3. Piece(m) \in Pieces(m)
    BY <2>2 DEF Piece, Pieces
  <2> QED BY <2>3
<1>2. CASE update \in Patches
  <2>1. IsPatch(update)
    BY <1>2 DEF Patches, IsPatch, Statuses
  <2>2. update \in RecordedUpdates
    BY <1>2 DEF Patches, RecordedUpdates, Statuses
  <2> QED BY <2>1, <2>2
<1>3. CASE update \in Chunks
  <2>1. ASSUME NEW m \in Messages, update = [kind |-> "messageChunk", id |-> m, text |-> <<Piece(m)>>]
        PROVE  IsChunk(update) /\ update \in RecordedUpdates
    <3>1. m \in Contents /\ <<Piece(m)>> \in Seq(Pieces(m))
      BY <1>1 DEF Contents
    <3>2. <<Piece(m)>> \in MessageTexts
      BY <3>1, TextsOf
    <3>3. update.id = m /\ update.kind = "messageChunk" /\ update.text = <<Piece(m)>>
      BY <2>1
    <3>4. IsChunk(update)
      BY <3>1, <3>3 DEF IsChunk
    <3>5. update \in RecordedUpdates
      BY <2>1, <3>2 DEF RecordedUpdates
    <3> QED BY <3>4, <3>5
  <2>2. ASSUME NEW m \in Thoughts, update = [kind |-> "thoughtChunk", id |-> m, text |-> <<Piece(m)>>]
        PROVE  IsChunk(update) /\ update \in RecordedUpdates
    <3>1. m \in Contents /\ <<Piece(m)>> \in Seq(Pieces(m)) /\ m \notin Messages
      BY <1>1, ContentAssumption DEF Contents
    <3>2. <<Piece(m)>> \in ThoughtTexts
      BY <3>1, TextsOf
    <3>3. update.id = m /\ update.kind = "thoughtChunk" /\ update.text = <<Piece(m)>>
      BY <2>2
    <3>4. IsChunk(update)
      BY <3>1, <3>3 DEF IsChunk
    <3>5. update \in RecordedUpdates
      BY <2>2, <3>2 DEF RecordedUpdates
    <3> QED BY <3>4, <3>5
  <2> QED BY <1>3, <2>1, <2>2 DEF Chunks
<1>4. CASE protocol # "v2" /\ update \in NonText
  <2>1. PICK m \in Messages : update = [kind |-> "messageChunk", id |-> m, text |-> None]
    BY <1>4 DEF NonText
  <2>2. IsChunk(update)
    BY <2>1 DEF IsChunk, Contents
  <2>3. update \in RecordedUpdates
    BY <2>1 DEF RecordedUpdates
  <2> QED BY <2>2, <2>3
<1>5. CASE protocol = "v2" /\ update \in Wholes
  <2>1. ASSUME NEW m \in Contents, NEW text,
               text \in {produced[m], Append(produced[m], Piece(m)), <<Piece(m)>>, <<>>}
        PROVE  text \in Seq(Pieces(m))
    <3>1. produced[m] \in Seq(Pieces(m)) /\ Piece(m) \in Pieces(m)
      BY <1>1 DEF TextsOK
    <3>2. Append(produced[m], Piece(m)) \in Seq(Pieces(m))
      BY <3>1
    <3>3. <<Piece(m)>> \in Seq(Pieces(m)) /\ <<>> \in Seq(Pieces(m))
      BY <1>1
    <3> QED BY <2>1, <3>1, <3>2, <3>3, Zenon
  <2>2. \/ \E m \in Messages : \E text \in {produced[m], Append(produced[m], Piece(m)), <<Piece(m)>>, <<>>} :
             update = [kind |-> "message", id |-> m, text |-> text]
        \/ \E m \in Thoughts : \E text \in {produced[m], Append(produced[m], Piece(m)), <<Piece(m)>>, <<>>} :
             update = [kind |-> "thought", id |-> m, text |-> text]
    <3> DEFINE Texts(m) == {produced[m], Append(produced[m], Piece(m)), <<Piece(m)>>, <<>>}
               Whole(kind, m) == {[kind |-> kind, id |-> m, text |-> text] : text \in Texts(m)}
    <3>1. PICK W \in {Whole("message", m) : m \in Messages} \cup {Whole("thought", m) : m \in Thoughts} : update \in W
      BY <1>5, Zenon DEF Wholes
    <3>2. (\E m \in Messages : W = Whole("message", m)) \/ (\E m \in Thoughts : W = Whole("thought", m))
      BY <3>1, Zenon
    <3> HIDE DEF Whole
    <3>3. (\E m \in Messages : update \in Whole("message", m)) \/ (\E m \in Thoughts : update \in Whole("thought", m))
      BY <3>1, <3>2, Zenon
    <3> QED BY <3>3 DEF Whole
  <2>3. IsWhole(update)
    <3>1. ASSUME NEW m \in Messages, NEW text,
                 text \in {produced[m], Append(produced[m], Piece(m)), <<Piece(m)>>, <<>>},
                 update = [kind |-> "message", id |-> m, text |-> text]
          PROVE  IsWhole(update)
      <4>1. m \in Contents
        BY DEF Contents
      <4>2. text \in Seq(Pieces(m))
        BY <2>1, <3>1, <4>1
      <4>3. update.id = m /\ update.kind = "message" /\ update.text = text
        BY <3>1
      <4> QED BY <4>1, <4>2, <4>3 DEF IsWhole
    <3>2. ASSUME NEW m \in Thoughts, NEW text,
                 text \in {produced[m], Append(produced[m], Piece(m)), <<Piece(m)>>, <<>>},
                 update = [kind |-> "thought", id |-> m, text |-> text]
          PROVE  IsWhole(update)
      <4>1. m \in Contents /\ m \notin Messages
        BY ContentAssumption DEF Contents
      <4>2. text \in Seq(Pieces(m))
        BY <2>1, <3>2, <4>1
      <4>3. update.id = m /\ update.kind = "thought" /\ update.text = text
        BY <3>2
      <4> QED BY <4>1, <4>2, <4>3 DEF IsWhole
    <3> QED BY <2>2, <3>1, <3>2
  <2> QED BY <1>5, <2>3
<1> QED BY <1>2, <1>3, <1>4, <1>5 DEF Inputs

-----------------------------------------------------------------------------
(* Turns and the record.                                                      *)
LEMMA TurnCreated ==
    ASSUME NEW user \in Seq(1..MaxPrompts), NEW n \in Nat, NEW t, t = CreateConversationTurn(user, n)
    PROVE  t \in ConversationTurns /\ t.user = user /\ t.blocks = <<>> /\ t.lastEvent = n
<1>1. <<>> \in Seq(Blocks)
  OBVIOUS
<1> QED BY <1>1 DEF CreateConversationTurn, ConversationTurns

IsNewTurn(t, user, k) == t \in ConversationTurns /\ t.user = user /\ t.blocks = <<>> /\ t.lastEvent = k
StartedTurn(user, n) == Reduce(CreateConversationTurn(user, n), n + 1, RunStarted)

LEMMA TurnStarted ==
    ASSUME NEW user \in Seq(1..MaxPrompts), NEW n \in Nat, NEW k, k = n + 1, NEW t, t = StartedTurn(user, n)
    PROVE  IsNewTurn(t, user, k)
<1>1. PICK s : s = CreateConversationTurn(user, n)
  OBVIOUS
<1>2. s \in ConversationTurns /\ s.user = user /\ s.blocks = <<>> /\ s.lastEvent = n
  BY <1>1, TurnCreated
<1>3. PICK r : r = [s EXCEPT !.lastEvent = n + 1]
  OBVIOUS
<1>4. r \in ConversationTurns /\ r.user = user /\ r.blocks = <<>> /\ r.lastEvent = n + 1
  BY <1>2, <1>3 DEF ConversationTurns
<1>5. t = Apply(r, RunStarted)
  BY <1>1, <1>2, <1>3 DEF Reduce, StartedTurn
<1>6. t = [r EXCEPT !.status = "running"]
  BY <1>5 DEF Apply, RunStarted
<1> QED BY <1>4, <1>6 DEF ConversationTurns, IsNewTurn

(* The turns us are the turns ts and a new one for a prompt. *)
OpensTurn(ts, us, k, user) ==
    /\ k \in Nat /\ user \in Seq(1..MaxPrompts) /\ Len(user) = 1
    /\ \E t \in ConversationTurns :
         us = Append(ts, t) /\ t.blocks = <<>> /\ t.user = user /\ t.lastEvent <= k

LEMMA PromptOpensTurn ==
    ASSUME NEW ts, NEW n, NEW texts, NEW lost, TurnsOK(ts, n, texts, lost), Len(PromptsIn(ts)) < MaxPrompts,
           NEW us, NEW k, NEW user, OpensTurn(ts, us, k, user)
    PROVE  /\ TurnsOK(us, k, texts, lost) /\ us # <<>>
           /\ PromptsIn(us) = PromptsIn(ts) \o user /\ Len(PromptsIn(us)) = Len(PromptsIn(ts)) + 1
<1>0. PICK t \in ConversationTurns : us = Append(ts, t) /\ t.blocks = <<>> /\ t.user = user /\ t.lastEvent <= k
  BY DEF OpensTurn
<1>1. Faithful(ts, n, texts, lost) /\ ts \in Seq(ConversationTurns) /\ Prompted(ts)
  BY DEF TurnsOK, Faithful
<1>2. Faithful(us, k, texts, lost) /\ us # <<>>
  BY <1>0, <1>1, TurnBegins DEF OpensTurn
<1>3. PromptsIn(us) = PromptsIn(ts) \o user
  BY <1>0, <1>1, PromptsAppend
<1>4. PromptsIn(ts) \in Seq(1..MaxPrompts)
  BY <1>1, PromptsType
<1>5. Len(PromptsIn(us)) = Len(PromptsIn(ts)) + 1 /\ Len(PromptsIn(ts)) \in Nat
  <2>1. PICK s \in Seq(1..MaxPrompts) : s = PromptsIn(ts)
    BY <1>4
  <2>2. PICK u \in Seq(1..MaxPrompts) : u = user /\ Len(u) = 1
    BY DEF OpensTurn
  <2>3. Len(s \o u) = Len(s) + Len(u)
    OBVIOUS
  <2>4. Len(s) \in Nat
    OBVIOUS
  <2> QED BY <1>3, <2>1, <2>2, <2>3, <2>4
<1>6. Prompted(us)
  <2>1. Len(us) = Len(ts) + 1 /\ (\A i \in 1..Len(ts) : us[i] = ts[i]) /\ us[Len(ts) + 1] = t
    BY <1>0, <1>1
  <2>2. t.user # <<>>
    <3>1. user # <<>>
      <4>1. Len(user) = 1
        BY DEF OpensTurn
      <4>2. Len(<<>>) = 0
        OBVIOUS
      <4> QED BY <4>1, <4>2
    <3> QED BY <1>0, <3>1
  <2>3. \A i \in 1..Len(ts) : ts[i].user # <<>>
    BY <1>1 DEF Prompted
  <2>4. ASSUME NEW i \in 1..Len(us)  PROVE us[i].user # <<>>
    <3>1. i \in 1..Len(ts) \/ i = Len(ts) + 1
      BY <1>1, <2>1
    <3>2. CASE i \in 1..Len(ts)
      BY <2>1, <2>3, <3>2
    <3>3. CASE i = Len(ts) + 1
      BY <2>1, <2>2, <3>3
    <3> QED BY <3>1, <3>2, <3>3
  <2> QED BY <2>4 DEF Prompted
<1> QED BY <1>2, <1>3, <1>5, <1>6, PromptsAssumption DEF TurnsOK

LEMMA OutputRecorded ==
    ASSUME NEW log \in Seq(RecordedUpdates), NEW update \in RecordedUpdates, IsPatch(update) \/ IsChunk(update),
           NEW texts, TextsOK(texts), NEW ts, RecordOK(log, texts, ts)
    PROVE  RecordOK(Append(log, update), Written(texts, update), ts)
<1>1. PICK c : c = Collected(log)
  OBVIOUS
<1>2. PICK d : d = Collected(Append(log, update))
  OBVIOUS
<1>3. d = Accept(c, update)
  BY <1>1, <1>2, CollectedAppend
<1>4. CASE c.refused
  <2>1. d = c
    BY <1>3, <1>4 DEF Accept
  <2> QED BY <1>2, <1>4, <2>1 DEF RecordOK
<1>5. CASE ~c.refused
  <2>1. Collects(c, texts, PromptsIn(ts))
    BY <1>1, <1>5 DEF RecordOK
  <2>2. d.refused \/ Collects(d, Written(texts, update), PromptsIn(ts))
    BY <1>3, <2>1, OutputCollected
  <2> QED BY <1>2, <2>2 DEF RecordOK
<1> QED BY <1>4, <1>5

LEMMA PromptRecorded ==
    ASSUME NEW log \in Seq(RecordedUpdates), NEW update \in RecordedUpdates, IsPrompt(update),
           NEW texts, NEW ts, NEW us, RecordOK(log, texts, ts), PromptsIn(us) = PromptsIn(ts) \o update.text
    PROVE  RecordOK(Append(log, update), texts, us)
<1>1. PICK c : c = Collected(log)
  OBVIOUS
<1>2. PICK d : d = Collected(Append(log, update))
  OBVIOUS
<1>3. d = Accept(c, update)
  BY <1>1, <1>2, CollectedAppend
<1>4. CASE c.refused
  <2>1. d = c
    BY <1>3, <1>4 DEF Accept
  <2> QED BY <1>2, <1>4, <2>1 DEF RecordOK
<1>5. CASE ~c.refused
  <2>1. Collects(c, texts, PromptsIn(ts))
    BY <1>1, <1>5 DEF RecordOK
  <2>2. d.refused \/ Collects(d, texts, PromptsIn(ts) \o update.text)
    BY <1>3, <2>1, PromptCollected
  <2> QED BY <1>2, <2>2 DEF RecordOK
<1> QED BY <1>4, <1>5

(* A replay that is not refused. *)
LEMMA Finishing ==
    ASSUME NEW log, NEW texts, NEW ts, RecordOK(log, texts, ts), NEW c, c = Collected(log), NEW r, r = Replay(log), ~r.refused
    PROVE  ~c.refused /\ c.turns # <<>> /\ r = CompleteCurrentTurn(c) /\ Collects(c, texts, PromptsIn(ts))
<1>2. r = Finish(c)
  BY DEF Replay
<1>3. CASE c.refused
  <2>1. r = [c EXCEPT !.refused = TRUE]
    BY <1>2, <1>3 DEF Finish
  <2>2. CASE "refused" \in DOMAIN c
    BY <1>3, <2>1, <2>2
  <2>3. CASE "refused" \notin DOMAIN c
    BY <1>3, <2>1, <2>3
  <2> QED BY <2>2, <2>3
<1>4. CASE ~c.refused
  <2>1. Collects(c, texts, PromptsIn(ts))
    BY <1>4 DEF RecordOK
  <2>2. CollectorOK(c)
    BY <2>1 DEF Collects, Gathered
  <2>3. CASE c.turns = <<>>
    <3>1. r = [c EXCEPT !.refused = TRUE]
      BY <1>2, <2>3 DEF Finish
    <3> QED BY <2>2, <3>1, Refusing
  <2>4. CASE c.turns # <<>>
    BY <1>2, <1>4, <2>1, <2>4 DEF Finish
  <2> QED BY <2>3, <2>4
<1> QED BY <1>3, <1>4

(* The turns of a replay. *)
LEMMA Replayed ==
    ASSUME NEW log, NEW texts, NEW ts, RecordOK(log, texts, ts), NEW r, r = Replay(log), ~r.refused,
           Len(PromptsIn(ts)) <= MaxPrompts
    PROVE  /\ TurnsOK(r.turns, r.sequence, texts, {}) /\ r.turns # <<>>
           /\ PromptsIn(r.turns) = PromptsIn(ts)
<1>1. PICK c : c = Collected(log)
  OBVIOUS
<1>2. ~c.refused /\ c.turns # <<>> /\ r = CompleteCurrentTurn(c) /\ Collects(c, texts, PromptsIn(ts))
  BY <1>1, Finishing
<1>5. Collects(r, texts, PromptsIn(ts)) /\ r.turns # <<>>
  BY <1>2, CompletingGathers
<1> QED BY <1>5 DEF Collects, Gathered, TurnsOK

-----------------------------------------------------------------------------
(* The steps.                                                                 *)
LEMMA ProjectionFields ==
    ASSUME ProjectionInv
    PROVE  /\ protocol \in {"v1", "v2", "cloud"} /\ named \in BOOLEAN /\ TurnsType(shownTurns, sequence)
           /\ projecting \in 0..MaxPrompts /\ ProjectorOK(projector) /\ record \in Seq(RecordedUpdates)
           /\ TextsOK(produced) /\ updates \in 0..MaxUpdates /\ final \in MessageTexts
           /\ shownText \in MessageTexts /\ astray \subseteq Contents /\ retired \subseteq Tools
           /\ TurnsOK(shownTurns, sequence, produced, astray)
           /\ PromptsIn(shownTurns) \in Seq(1..MaxPrompts) /\ Len(PromptsIn(shownTurns)) \in Nat
           /\ Prompts = Len(PromptsIn(shownTurns))
<1>1. PromptsIn(shownTurns) \in Seq(1..MaxPrompts) /\ Len(PromptsIn(shownTurns)) \in Nat
  BY PromptsType DEF ProjectionInv, ProjectionTypeOK
<1> QED BY <1>1 DEF ProjectionInv, ProjectionTypeOK, ProjectorOK, TextsOK, TurnsType, Prompts, PromptsIn

LEMMA ProjectionInitInv == ProjectionInit => ProjectionInv
<1> SUFFICES ASSUME ProjectionInit  PROVE ProjectionInv
  OBVIOUS
<1>1. /\ protocol \in {"v1", "v2", "cloud"} /\ named \in BOOLEAN /\ shownTurns = <<>> /\ sequence = 0
      /\ projecting = 0 /\ projector = NewProjector /\ record = <<>> /\ produced = [m \in Contents |-> <<>>]
      /\ updates = 0 /\ final = <<>> /\ shownText = <<>> /\ astray = {} /\ retired = {}
  BY DEF ProjectionInit
<1>2. <<>> \in MessageTexts /\ \A m \in Contents : <<>> \in Seq(Pieces(m))
  BY DEF MessageTexts
<1>3. TextsOK(produced)
  BY <1>1, <1>2 DEF TextsOK
<1>4. ProjectorOK(projector)
  BY <1>1, <1>2 DEF ProjectorOK, NewProjector, Projectors, Statuses
<1>5. Faithful(shownTurns, sequence, produced, {})
  BY <1>1 DEF Faithful
<1>6. PromptsIn(shownTurns) = <<>> /\ Prompted(shownTurns)
  BY <1>1, PromptsNothing DEF Prompted
<1>7. TurnsOK(shownTurns, sequence, produced, astray)
  BY <1>1, <1>5, <1>6, PromptsAssumption DEF TurnsOK
<1>8. RecordOK(record, produced, shownTurns)
  <2>1. PICK c : c = Collected(record)
    OBVIOUS
  <2>2. c = NewCollector
    BY <1>1, <2>1, CollectedNothing
  <2>3. c.projector = projector /\ c.turns = <<>> /\ c.sequence = 0 /\ c.phase = "empty" /\ c.id = None /\ c.refused = FALSE
    BY <1>1, <2>2 DEF NewCollector
  <2>4. CollectorOK(c)
    BY <1>1, <1>4, <2>2 DEF CollectorOK, ProjectorOK, Collectors, NewCollector
  <2> QED BY <1>1, <1>5, <1>6, <2>1, <2>3, <2>4 DEF RecordOK, Collects, Gathered
<1>9. protocol = "v2" => Knows(projector, produced, astray)
  BY <1>1 DEF Knows, NewProjector
<1>10. projecting \in 0..MaxPrompts /\ updates \in 0..MaxUpdates /\ projecting <= Len(PromptsIn(shownTurns))
  BY <1>1, <1>6, PromptsAssumption
<1>11. TurnsType(shownTurns, sequence)
  BY <1>7, TurnsTyped
<1>12. CloudOK(projecting, astray, shownText, final)
  BY <1>1 DEF CloudOK
<1>13. ProjectionTypeOK
  BY <1>1, <1>2, <1>3, <1>4, <1>10, <1>11 DEF ProjectionTypeOK, TextsOK, ProjectorOK, TurnsType
<1> QED BY <1>1, <1>7, <1>8, <1>9, <1>10, <1>12, <1>13 DEF ProjectionInv

(* A prompt opens a turn, which the Agent may record. *)
LEMMA PromptTurnOpens ==
    ASSUME ProjectionInv, PromptTurn
    PROVE  \E p \in 1..MaxPrompts, t \in ConversationTurns :
             /\ p = Len(PromptsIn(shownTurns)) + 1 /\ t.user = <<p>> /\ t.blocks = <<>>
             /\ t.lastEvent = sequence + 1 /\ shownTurns' = Append(shownTurns, t) /\ sequence' = sequence + 1
             /\ record' = Recorded(UserChunk(p, IF named THEN p ELSE None))
<1>1. PICK p : p = Prompts + 1
  OBVIOUS
<1>2. p \in 1..MaxPrompts /\ p = Len(PromptsIn(shownTurns)) + 1
  BY <1>1, ProjectionFields, PromptsAssumption DEF PromptTurn
<1>3. PICK user \in Seq(1..MaxPrompts) : user = <<p>>
  <2>1. <<p>> \in Seq(1..MaxPrompts)
    BY <1>2
  <2> QED BY <2>1, Zenon
<1>4. PICK n \in Nat : n = sequence
  BY ProjectionFields DEF TurnsType
<1>5. PICK t : t = StartedTurn(user, n)
  OBVIOUS
<1>6. PICK k : k = n + 1
  OBVIOUS
<1>7. IsNewTurn(t, user, k)
  BY <1>5, <1>6, TurnStarted
<1>8. t \in ConversationTurns /\ t.user = <<p>> /\ t.blocks = <<>> /\ t.lastEvent = sequence + 1
  BY <1>3, <1>4, <1>6, <1>7 DEF IsNewTurn
<1>9. shownTurns' = Append(shownTurns, t) /\ sequence' = sequence + 1
      /\ record' = Recorded(UserChunk(p, IF named THEN p ELSE None))
  BY <1>1, <1>3, <1>4, <1>5 DEF PromptTurn, StartedTurn
<1> QED BY <1>2, <1>8, <1>9

LEMMA PromptTurnInv ==
    ASSUME ProjectionInv, PromptTurn
    PROVE  ProjectionInv'
<1>1. PICK p \in 1..MaxPrompts, t \in ConversationTurns :
        /\ p = Len(PromptsIn(shownTurns)) + 1 /\ t.user = <<p>> /\ t.blocks = <<>>
        /\ t.lastEvent = sequence + 1 /\ shownTurns' = Append(shownTurns, t) /\ sequence' = sequence + 1
        /\ record' = Recorded(UserChunk(p, IF named THEN p ELSE None))
  BY PromptTurnOpens
<1>2. p \in 1..MaxPrompts /\ p = Len(PromptsIn(shownTurns)) + 1
  BY <1>1
<1>3. PICK user \in Seq(1..MaxPrompts) : user = <<p>>
  <2>1. <<p>> \in Seq(1..MaxPrompts)
    BY <1>2
  <2> QED BY <2>1, Zenon
<1>4. sequence \in Nat /\ sequence + 1 \in Nat
  BY ProjectionFields DEF TurnsType
<1>5. t \in ConversationTurns /\ t.user = user /\ t.blocks = <<>> /\ t.lastEvent = sequence + 1
  BY <1>1, <1>3
<1>6. shownTurns' = Append(shownTurns, t) /\ sequence' = sequence + 1
  BY <1>1
<1>7. /\ TurnsOK(shownTurns', sequence', produced, astray) /\ shownTurns' # <<>>
      /\ PromptsIn(shownTurns') = PromptsIn(shownTurns) \o user
  <2>1. OpensTurn(shownTurns, shownTurns', sequence', user)
    BY <1>3, <1>4, <1>5, <1>6 DEF OpensTurn
  <2>2. Len(PromptsIn(shownTurns)) < MaxPrompts
    BY <1>2, ProjectionFields, PromptsAssumption
  <2> QED BY <2>1, <2>2, ProjectionFields, PromptOpensTurn
<1>8. PICK update : update = UserChunk(p, IF named THEN p ELSE None)
  OBVIOUS
<1>9. IsPrompt(update) /\ update \in RecordedUpdates /\ update.text = <<p>>
  BY <1>2, <1>8, ProjectionFields DEF UserChunk, IsPrompt, RecordedUpdates
<1>10. record' = IF protocol = "v1" THEN Append(record, update) ELSE record
  BY <1>1, <1>8 DEF Recorded
<1>11. record' \in Seq(RecordedUpdates)
  BY <1>9, <1>10, ProjectionFields
<1>12. protocol = "v1" => RecordOK(record', produced, shownTurns')
  <2>1. SUFFICES ASSUME protocol = "v1"  PROVE RecordOK(record', produced, shownTurns')
    OBVIOUS
  <2>2. RecordOK(record, produced, shownTurns) /\ record \in Seq(RecordedUpdates)
    BY <2>1, ProjectionFields DEF ProjectionInv
  <2>3. PromptsIn(shownTurns') = PromptsIn(shownTurns) \o update.text
    BY <1>3, <1>7, <1>9
  <2>4. RecordOK(Append(record, update), produced, shownTurns')
    BY <1>9, <2>2, <2>3, PromptRecorded
  <2> QED BY <1>10, <2>1, <2>4
<1>13. /\ protocol' = protocol /\ protocol # "cloud" /\ named' = named /\ projecting' = 1 /\ projector' = projector
       /\ produced' = produced /\ updates' = updates /\ final' = final /\ shownText' = shownText
       /\ astray' = astray /\ retired' = retired
  BY DEF PromptTurn
<1>14. TurnsType(shownTurns', sequence')
  BY <1>7, TurnsTyped
<1>15. 1 \in 0..MaxPrompts
  BY <1>2, PromptsAssumption
<1>16. ProjectionTypeOK'
  BY <1>11, <1>13, <1>14, <1>15, ProjectionFields DEF ProjectionTypeOK, TextsOK, ProjectorOK, TurnsType
<1>17. protocol = "v2" => Knows(projector, produced, astray)
  BY DEF ProjectionInv
<1> QED BY <1>7, <1>12, <1>13, <1>16, <1>17 DEF ProjectionInv

LEMMA CloudPromptInv ==
    ASSUME ProjectionInv, CloudPrompt
    PROVE  ProjectionInv'
<1>1. PICK p : p = Prompts + 1
  OBVIOUS
<1>2. p \in 1..MaxPrompts /\ p = Len(PromptsIn(shownTurns)) + 1
  BY <1>1, ProjectionFields, PromptsAssumption DEF CloudPrompt
<1>0. PICK user \in Seq(1..MaxPrompts) : user = <<p>>
  <2>1. <<p>> \in Seq(1..MaxPrompts)
    BY <1>2
  <2> QED BY <2>1, Zenon
<1>3. PICK t : t = CreateConversationTurn(<<p>>, sequence + 1)
  OBVIOUS
<1>4. sequence \in Nat /\ sequence + 1 \in Nat
  BY ProjectionFields DEF TurnsType
<1>5. t \in ConversationTurns /\ t.user = user /\ t.blocks = <<>> /\ t.lastEvent = sequence + 1
  <2>1. t = CreateConversationTurn(user, sequence + 1)
    BY <1>0, <1>3
  <2>2. t \in ConversationTurns /\ t.user = user /\ t.blocks = <<>> /\ t.lastEvent = sequence + 1
    BY <1>4, <2>1, TurnCreated
  <2> QED BY <1>0, <2>2
<1>6. shownTurns' = Append(shownTurns, t) /\ sequence' = sequence + 1
  BY <1>1, <1>3 DEF CloudPrompt
<1>7. astray' = (IF projecting > 0 THEN Contents ELSE astray) /\ projecting' = projecting + 1 /\ shownText' = <<>>
  BY DEF CloudPrompt
<1>8. TurnsOK(shownTurns, sequence, produced, astray')
  <2>1. CASE projecting > 0
    <3>1. shownTurns # <<>> /\ Faithful(shownTurns, sequence, produced, astray) /\ astray \subseteq Contents
      BY <2>1, ProjectionFields DEF ProjectionInv, TurnsOK
    <3>2. Faithful(shownTurns, sequence, produced, Contents)
      BY <3>1, FaithfulElsewhere
    <3> QED BY <1>7, <2>1, <3>2, ProjectionFields DEF TurnsOK
  <2>2. CASE ~(projecting > 0)
    BY <1>7, <2>2, ProjectionFields
  <2> QED BY <2>1, <2>2
<1>9. /\ TurnsOK(shownTurns', sequence', produced, astray') /\ shownTurns' # <<>>
      /\ PromptsIn(shownTurns') = PromptsIn(shownTurns) \o user /\ Len(PromptsIn(shownTurns')) = p
  <2>1. OpensTurn(shownTurns, shownTurns', sequence', user)
    BY <1>0, <1>4, <1>5, <1>6 DEF OpensTurn
  <2>2. Len(PromptsIn(shownTurns)) < MaxPrompts
    BY <1>2, ProjectionFields, PromptsAssumption
  <2> QED BY <1>2, <1>8, <2>1, <2>2, PromptOpensTurn
<1>10. TurnsType(shownTurns', sequence')
  BY <1>9, TurnsTyped
<1>11. /\ protocol' = protocol /\ protocol = "cloud" /\ named' = named /\ projector' = projector
       /\ record' = record /\ produced' = produced /\ updates' = updates /\ final' = final /\ retired' = retired
  BY DEF CloudPrompt
<1>12. CloudOK(projecting, astray, shownText, final) /\ projecting <= Len(PromptsIn(shownTurns))
  BY <1>11 DEF ProjectionInv
<1>13. projecting' \in 0..MaxPrompts /\ projecting' <= Len(PromptsIn(shownTurns')) /\ projecting' # 0
  BY <1>2, <1>7, <1>9, <1>12, ProjectionFields, PromptsAssumption
<1>14. CloudOK(projecting', astray', shownText', final)
  <2>1. CASE projecting > 0
    <3>1. Contents # {}
      BY ContentAssumption DEF Contents
    <3> QED BY <1>7, <2>1, <3>1 DEF CloudOK
  <2>2. CASE projecting = 0
    BY <1>7, <1>12, <1>13, <2>2 DEF CloudOK
  <2> QED BY <2>1, <2>2, ProjectionFields
<1>15. astray' \subseteq Contents /\ shownText' \in MessageTexts
  BY <1>7, ProjectionFields DEF MessageTexts
<1>16. ProjectionTypeOK'
  BY <1>10, <1>11, <1>13, <1>15, ProjectionFields DEF ProjectionTypeOK, TextsOK, ProjectorOK, TurnsType
<1> QED BY <1>9, <1>11, <1>13, <1>14, <1>16 DEF ProjectionInv

-----------------------------------------------------------------------------
(* An update and what is lost of it. *)
WrittenAs(texts, after, update) ==
    /\ TextsOK(after)
    /\ update.kind # "tool" => update.id \in Contents
    /\ \A m \in Contents : update.kind = "tool" \/ m # update.id => after[m] = texts[m]

LostWith(lost, more, update) == more = IF update.kind = "tool" THEN lost ELSE lost \cup {update.id}

LEMMA Writing ==
    ASSUME NEW update, IsPatch(update) \/ IsChunk(update) \/ IsWhole(update), NEW texts, TextsOK(texts),
           NEW after, after = Written(texts, update)
    PROVE  WrittenAs(texts, after, update)
<1>1. CASE IsPatch(update)
  <2>1. after = texts /\ update.kind = "tool"
    BY <1>1, WrittenPatch DEF IsPatch
  <2> QED BY <2>1 DEF WrittenAs
<1>2. CASE IsChunk(update)
  <2>1. TextsOK(after) /\ Changes(texts, after, update.id, texts[update.id] \o ContentText(update.text))
    BY <1>2, WrittenChunk
  <2>2. update.id \in Contents /\ update.kind # "tool"
    BY <1>2 DEF IsChunk
  <2> QED BY <2>1, <2>2 DEF Changes, WrittenAs
<1>3. CASE IsWhole(update)
  <2>1. TextsOK(after) /\ Changes(texts, after, update.id, update.text)
    BY <1>3, WrittenWhole
  <2>2. update.id \in Contents /\ update.kind # "tool"
    BY <1>3 DEF IsWhole
  <2> QED BY <2>1, <2>2 DEF Changes, WrittenAs
<1> QED BY <1>1, <1>2, <1>3

LEMMA Losing ==
    ASSUME NEW update, NEW texts, NEW after, WrittenAs(texts, after, update),
           NEW lost, lost \subseteq Contents, NEW more, LostWith(lost, more, update)
    PROVE  more \subseteq Contents /\ lost \subseteq more /\ \A m \in Contents \ more : after[m] = texts[m]
BY DEF WrittenAs, LostWith

LEMMA KnowsElsewhere ==
    ASSUME NEW p, NEW texts, NEW lost, Knows(p, texts, lost), NEW after, NEW more, lost \subseteq more,
           \A m \in Contents \ more : after[m] = texts[m]
    PROVE  Knows(p, after, more)
BY DEF Knows

(* What a step writes, and what it leaves alone. *)
WritesInv(update) ==
    /\ IsPatch(update) \/ IsChunk(update) \/ (protocol = "v2" /\ IsWhole(update))
    /\ WrittenAs(produced, produced', update) /\ produced' = Written(produced, update)
    /\ updates' \in 0..MaxUpdates /\ record' \in Seq(RecordedUpdates)
    /\ protocol = "v1" => RecordOK(record', produced', shownTurns)

LEMMA WritesKeeps ==
    ASSUME ProjectionInv, NEW update \in Inputs, Writes(update)
    PROVE  WritesInv(update)
<1>1. TextsOK(produced) /\ updates \in 0..MaxUpdates /\ record \in Seq(RecordedUpdates)
  BY ProjectionFields
<1>2. updates < MaxUpdates /\ updates' = updates + 1 /\ produced' = Written(produced, update)
      /\ record' = IF protocol = "v1" THEN Append(record, update) ELSE record
  BY DEF Writes, Recorded
<1>3. /\ IsPatch(update) \/ IsChunk(update) \/ (protocol = "v2" /\ IsWhole(update))
      /\ protocol = "v1" => update \in RecordedUpdates
  BY <1>1, <1>2, InputKinds
<1>4. WrittenAs(produced, produced', update)
  BY <1>1, <1>2, <1>3, Writing
<1>5. updates' \in 0..MaxUpdates
  BY <1>1, <1>2, PromptsAssumption
<1>6. record' \in Seq(RecordedUpdates)
  BY <1>1, <1>2, <1>3
<1>7. protocol = "v1" => RecordOK(record', produced', shownTurns)
  <2>1. SUFFICES ASSUME protocol = "v1"  PROVE RecordOK(record', produced', shownTurns)
    OBVIOUS
  <2>2. RecordOK(record, produced, shownTurns) /\ update \in RecordedUpdates /\ (IsPatch(update) \/ IsChunk(update))
    BY <1>3, <2>1 DEF ProjectionInv
  <2>3. RecordOK(Append(record, update), Written(produced, update), shownTurns)
    BY <1>1, <2>2, OutputRecorded
  <2> QED BY <1>2, <2>1, <2>3
<1> QED BY <1>2, <1>3, <1>4, <1>5, <1>6, <1>7 DEF WritesInv

(* What the projection of an update makes of the turns. *)
LEMMA UpdateTurns ==
    ASSUME ProjectionInv, NEW update, WritesInv(update), NEW version, version = Version, shownTurns # <<>>,
           NEW P, P = Project(version, projector, update),
           NEW us, us = ApplyEvents(shownTurns, sequence, P.events), NEW k, k = sequence + Len(P.events)
    PROVE  /\ ProjectorOK(P.projector) /\ (P.refused => P.projector = projector)
           /\ ~P.refused => /\ Become(shownTurns, us, k, produced', astray)
                            /\ protocol = "v2" => Knows(P.projector, produced', astray)
<1>1. ProjectorOK(projector) /\ TextsOK(produced) /\ Faithful(shownTurns, sequence, produced, astray)
  BY ProjectionFields DEF TurnsOK
<1>2. protocol = "v2" => Knows(projector, produced, astray)
  BY DEF ProjectionInv
<1>3. version \in {1, 2} /\ (protocol = "v2" => version = 2)
  BY DEF Version
<1>4. produced' = Written(produced, update)
  BY DEF WritesInv
<1>5. CASE IsPatch(update)
  <2>1. ProjectorOK(P.projector) /\ (P.refused => P.projector = projector)
    BY <1>1, <1>5, PatchProjected DEF PatchMakes
  <2>2. /\ Become(shownTurns, us, k, Written(produced, update), astray)
        /\ Knows(projector, produced, astray) => Knows(P.projector, Written(produced, update), astray)
    BY <1>1, <1>5, PatchBecomes
  <2> QED BY <1>2, <1>4, <2>1, <2>2
<1>6. CASE IsChunk(update)
  <2>1. ProjectorOK(P.projector) /\ ~P.refused
    BY <1>1, <1>3, <1>6, ChunkProjected DEF ChunkMakes
  <2>2. /\ Become(shownTurns, us, k, Written(produced, update), astray)
        /\ version = 2 /\ Knows(projector, produced, astray) => Knows(P.projector, Written(produced, update), astray)
    BY <1>1, <1>3, <1>6, ChunkBecomes
  <2> QED BY <1>2, <1>3, <1>4, <2>1, <2>2
<1>7. CASE protocol = "v2" /\ IsWhole(update)
  <2>1. ProjectorOK(P.projector) /\ (P.refused => P.projector = projector)
    BY <1>1, <1>7, WholeProjected DEF WholeMakes
  <2>2. ~P.refused =>
          /\ Become(shownTurns, us, k, Written(produced, update), astray)
          /\ Knows(P.projector, Written(produced, update), astray)
    BY <1>1, <1>2, <1>7, WholeBecomes
  <2> QED BY <1>4, <2>1, <2>2
<1> QED BY <1>5, <1>6, <1>7 DEF WritesInv

LEMMA UpdateInv ==
    ASSUME ProjectionInv, NEW update \in Inputs, Update(update)
    PROVE  ProjectionInv'
<1>1. PICK P : P = Project(Version, projector, update)
  OBVIOUS
<1>2. PICK us : us = ApplyEvents(shownTurns, sequence, P.events)
  OBVIOUS
<1>3. PICK k : k = sequence + Len(P.events)
  OBVIOUS
<1>4. /\ protocol # "cloud" /\ projecting = 1 /\ Writes(update) /\ projector' = P.projector
      /\ protocol' = protocol /\ named' = named /\ final' = final /\ shownText' = shownText /\ retired' = retired
  BY <1>1 DEF Update
<1>5. WritesInv(update)
  BY <1>4, WritesKeeps
<1>6. shownTurns # <<>> /\ astray \subseteq Contents /\ TurnsOK(shownTurns, sequence, produced, astray)
  BY <1>4, ProjectionFields DEF ProjectionInv
<1>7. /\ ProjectorOK(P.projector) /\ (P.refused => P.projector = projector)
      /\ ~P.refused => /\ Become(shownTurns, us, k, produced', astray)
                       /\ protocol = "v2" => Knows(P.projector, produced', astray)
  <2>1. PICK version : version = Version
    OBVIOUS
  <2>2. P = Project(version, projector, update)
    BY <1>1, <2>1
  <2> QED BY <1>2, <1>3, <1>5, <1>6, <2>1, <2>2, UpdateTurns
<1>8. /\ Become(shownTurns, shownTurns', sequence', produced', astray')
      /\ protocol = "v2" => Knows(projector', produced', astray')
      /\ astray' \subseteq Contents /\ projecting' \in {0, 1}
  <2>1. CASE P.refused
    <3>1. EmitEvents(<<RunFailed("failed")>>) /\ projecting' = 0 /\ astray' = Loses(update)
      BY <1>1, <2>1 DEF Update
    <3>2. WrittenAs(produced, produced', update) /\ LostWith(astray, astray', update)
      BY <1>5, <3>1 DEF WritesInv, LostWith, Loses
    <3>3. astray' \subseteq Contents /\ astray \subseteq astray' /\ \A m \in Contents \ astray' : produced'[m] = produced[m]
      BY <1>6, <3>2, Losing
    <3>4. Faithful(shownTurns, sequence, produced', astray')
      BY <1>6, <3>3, FaithfulElsewhere DEF TurnsOK
    <3>5. PICK events : events = <<RunFailed("failed")>>
      OBVIOUS
    <3>6. Quiet(events)
      BY <3>5 DEF Quiet, QuietEvents
    <3>7. shownTurns' = ApplyEvents(shownTurns, sequence, events) /\ sequence' = sequence + Len(events)
      BY <3>1, <3>5 DEF EmitEvents
    <3>8. Become(shownTurns, shownTurns', sequence', produced', astray')
      BY <1>6, <3>4, <3>6, <3>7, QuietBecomes
    <3>9. protocol = "v2" => Knows(projector', produced', astray')
      <4>1. protocol = "v2" => Knows(projector, produced, astray)
        BY DEF ProjectionInv
      <4> QED BY <1>4, <1>7, <2>1, <3>3, <4>1, KnowsElsewhere
    <3> QED BY <3>1, <3>3, <3>8, <3>9
  <2>2. CASE ~P.refused
    <3>1. EmitEvents(P.events) /\ projecting' = projecting /\ astray' = astray
      BY <1>1, <2>2 DEF Update
    <3>2. shownTurns' = us /\ sequence' = k
      BY <1>2, <1>3, <3>1 DEF EmitEvents
    <3> QED BY <1>4, <1>6, <1>7, <2>2, <3>1, <3>2
  <2> QED BY <2>1, <2>2
<1>9. /\ TurnsOK(shownTurns', sequence', produced', astray') /\ shownTurns' # <<>>
      /\ PromptsIn(shownTurns') = PromptsIn(shownTurns)
  <2>1. PICK ts : ts = shownTurns'
    OBVIOUS
  <2>2. PICK n : n = sequence'
    OBVIOUS
  <2>3. PICK after : after = produced'
    OBVIOUS
  <2>4. PICK more : more = astray'
    OBVIOUS
  <2>5. TurnsOK(ts, n, after, more) /\ ts # <<>> /\ PromptsIn(ts) = PromptsIn(shownTurns)
    BY <1>6, <1>8, <2>1, <2>2, <2>3, <2>4, TurnsKept
  <2> QED BY <2>1, <2>2, <2>3, <2>4, <2>5
<1>10. TurnsType(shownTurns', sequence')
  BY <1>9, TurnsTyped
<1>11. protocol = "v1" => RecordOK(record', produced', shownTurns')
  BY <1>5, <1>9, SamePromptsRecorded DEF WritesInv
<1>12. projecting' \in 0..MaxPrompts
  BY <1>4, <1>8, ProjectionFields, PromptsAssumption
<1>13. TextsOK(produced') /\ updates' \in 0..MaxUpdates /\ record' \in Seq(RecordedUpdates)
  BY <1>5 DEF WritesInv, WrittenAs
<1>14. ProjectionTypeOK'
  BY <1>4, <1>7, <1>8, <1>10, <1>12, <1>13, ProjectionFields DEF ProjectionTypeOK, TextsOK, ProjectorOK, TurnsType
<1> QED BY <1>4, <1>8, <1>9, <1>11, <1>14 DEF ProjectionInv

LEMMA LateUpdateInv ==
    ASSUME ProjectionInv, NEW update \in Inputs, LateUpdate(update)
    PROVE  ProjectionInv'
<1>1. /\ protocol # "cloud" /\ projecting = 0 /\ shownTurns # <<>> /\ Writes(update)
      /\ astray' = (IF update.kind = "tool" THEN Contents ELSE astray \cup {update.id})
      /\ protocol' = protocol /\ named' = named /\ shownTurns' = shownTurns /\ sequence' = sequence
      /\ projecting' = projecting /\ projector' = projector /\ final' = final /\ shownText' = shownText
      /\ retired' = retired
  BY DEF LateUpdate
<1>2. WritesInv(update)
  BY <1>1, WritesKeeps
<1>3. astray \subseteq Contents /\ TurnsOK(shownTurns, sequence, produced, astray)
  BY ProjectionFields
<1>4. astray' \subseteq Contents /\ astray \subseteq astray' /\ \A m \in Contents \ astray' : produced'[m] = produced[m]
  BY <1>1, <1>2, <1>3 DEF WritesInv, WrittenAs
<1>5. TurnsOK(shownTurns, sequence, produced', astray')
  <2>1. Faithful(shownTurns, sequence, produced', astray')
    BY <1>1, <1>3, <1>4, FaithfulElsewhere DEF TurnsOK
  <2> QED BY <1>3, <2>1 DEF TurnsOK
<1>6. protocol = "v2" => Knows(projector, produced', astray')
  <2>1. protocol = "v2" => Knows(projector, produced, astray)
    BY DEF ProjectionInv
  <2> QED BY <1>4, <2>1, KnowsElsewhere
<1>7. TextsOK(produced') /\ updates' \in 0..MaxUpdates /\ record' \in Seq(RecordedUpdates)
      /\ (protocol = "v1" => RecordOK(record', produced', shownTurns))
  BY <1>2 DEF WritesInv, WrittenAs
<1>8. ProjectionTypeOK'
  BY <1>1, <1>4, <1>7, ProjectionFields DEF ProjectionTypeOK, TextsOK, ProjectorOK, TurnsType
<1> QED BY <1>1, <1>5, <1>6, <1>7, <1>8 DEF ProjectionInv

(* What a cloud update adds to the text of the message. *)
LEMMA UpdateSays ==
    ASSUME NEW update, IsPatch(update) \/ IsChunk(update), NEW p, ProjectorOK(p), NEW P, P = Project(1, p, update),
           NEW said, said = IF update.kind = "messageChunk" THEN ContentText(update.text) ELSE <<>>
    PROVE  MessageText(P.events) = said /\ said \in MessageTexts
<1>1. CASE IsPatch(update)
  <2>1. MessageText(P.events) = <<>>
    BY <1>1, PatchProjected DEF PatchMakes
  <2>2. said = <<>>
    BY <1>1 DEF IsPatch
  <2>3. <<>> \in MessageTexts
    BY DEF MessageTexts
  <2> QED BY <2>1, <2>2, <2>3
<1>2. CASE IsChunk(update)
  <2>1. MessageText(P.events) = IF update.id \in Messages THEN ContentText(update.text) ELSE <<>>
    BY <1>2, ChunkProjected DEF ChunkMakes
  <2>2. update.kind = "messageChunk" <=> update.id \in Messages
    BY <1>2 DEF IsChunk
  <2>3. MessageText(P.events) = said
    BY <2>1, <2>2
  <2>4. said \in MessageTexts
    <3>1. CASE update.id \in Messages
      <4>1. ContentText(update.text) \in Seq(Pieces(update.id)) /\ update.id \in Contents
        BY <1>2, ChunkContent DEF IsChunk
      <4>2. ContentText(update.text) \in MessageTexts
        BY <3>1, <4>1, TextsOf
      <4> QED BY <2>2, <3>1, <4>2
    <3>2. CASE update.id \notin Messages
      BY <2>2, <3>2 DEF MessageTexts
    <3> QED BY <3>1, <3>2
  <2> QED BY <2>3, <2>4
<1> QED BY <1>1, <1>2

LEMMA CloudUpdateInv ==
    ASSUME ProjectionInv, NEW update \in Inputs, CloudUpdate(update)
    PROVE  ProjectionInv'
<1>1. PICK P : P = Project(1, projector, update)
  OBVIOUS
<1>2. PICK said : said = IF update.kind = "messageChunk" THEN ContentText(update.text) ELSE <<>>
  OBVIOUS
<1>3. /\ protocol = "cloud" /\ projecting > 0 /\ Writes(update) /\ projector' = P.projector
      /\ EmitEvents(P.events) /\ shownText' = shownText \o MessageText(P.events) /\ final' = final \o said
      /\ protocol' = protocol /\ named' = named /\ projecting' = projecting /\ astray' = astray /\ retired' = retired
  BY <1>1, <1>2 DEF CloudUpdate
<1>4. WritesInv(update)
  BY <1>3, WritesKeeps
<1>5. shownTurns # <<>> /\ astray \subseteq Contents /\ TurnsOK(shownTurns, sequence, produced, astray)
      /\ ProjectorOK(projector) /\ TextsOK(produced)
  BY <1>3, ProjectionFields DEF ProjectionInv
<1>6. (IsPatch(update) \/ IsChunk(update)) /\ produced' = Written(produced, update)
  BY <1>3, <1>4 DEF WritesInv
<1>7. MessageText(P.events) = said /\ said \in MessageTexts
  BY <1>1, <1>2, <1>5, <1>6, UpdateSays
<1>8. shownTurns' = ApplyEvents(shownTurns, sequence, P.events) /\ sequence' = sequence + Len(P.events)
  BY <1>3 DEF EmitEvents
<1>9. ProjectorOK(P.projector) /\ Become(shownTurns, shownTurns', sequence', produced', astray)
  <2>1. Faithful(shownTurns, sequence, produced, astray)
    BY <1>5 DEF TurnsOK
  <2>2. CASE IsPatch(update)
    <3>1. ProjectorOK(P.projector)
      BY <1>1, <1>5, <2>2, PatchProjected DEF PatchMakes
    <3> QED BY <1>1, <1>5, <1>6, <1>8, <2>1, <2>2, <3>1, PatchBecomes
  <2>3. CASE IsChunk(update)
    <3>1. ProjectorOK(P.projector)
      BY <1>1, <1>5, <2>3, ChunkProjected DEF ChunkMakes
    <3> QED BY <1>1, <1>5, <1>6, <1>8, <2>1, <2>3, <3>1, ChunkBecomes
  <2> QED BY <1>6, <2>2, <2>3
<1>10. /\ TurnsOK(shownTurns', sequence', produced', astray') /\ shownTurns' # <<>>
       /\ PromptsIn(shownTurns') = PromptsIn(shownTurns)
  BY <1>3, <1>5, <1>9, TurnsKept
<1>11. TurnsType(shownTurns', sequence')
  BY <1>10, TurnsTyped
<1>12. final' \in MessageTexts /\ shownText' \in MessageTexts
  <2>1. final \in MessageTexts /\ shownText \in MessageTexts
    BY ProjectionFields
  <2> QED BY <1>3, <1>7, <2>1 DEF MessageTexts
<1>13. CloudOK(projecting, astray, shownText', final') /\ projecting <= Len(PromptsIn(shownTurns))
  <2>1. CloudOK(projecting, astray, shownText, final) /\ projecting <= Len(PromptsIn(shownTurns))
    BY <1>3 DEF ProjectionInv
  <2>2. projecting # 0
    BY <1>3, ProjectionFields
  <2> QED BY <1>3, <1>7, <2>1, <2>2 DEF CloudOK
<1>14. TextsOK(produced') /\ updates' \in 0..MaxUpdates /\ record' \in Seq(RecordedUpdates)
  BY <1>4 DEF WritesInv, WrittenAs
<1>15. ProjectionTypeOK'
  BY <1>3, <1>9, <1>11, <1>12, <1>14, ProjectionFields DEF ProjectionTypeOK, TextsOK, ProjectorOK, TurnsType
<1> QED BY <1>3, <1>10, <1>13, <1>15 DEF ProjectionInv

(* An event that says nothing, of a permission or of an end. *)
LEMMA QuietStep ==
    ASSUME ProjectionInv, shownTurns # <<>>, NEW e \in QuietEvents, NEW events, events = <<e>>, EmitEvents(events)
    PROVE  /\ TurnsOK(shownTurns', sequence', produced, astray) /\ shownTurns' # <<>>
           /\ PromptsIn(shownTurns') = PromptsIn(shownTurns) /\ TurnsType(shownTurns', sequence')
           /\ protocol = "v1" => RecordOK(record, produced, shownTurns')
<1>1. TurnsOK(shownTurns, sequence, produced, astray)
  BY ProjectionFields
<1>2. shownTurns' = ApplyEvents(shownTurns, sequence, events) /\ sequence' = sequence + Len(events)
  BY DEF EmitEvents
<1>3. Quiet(events)
  BY DEF Quiet
<1>4. Become(shownTurns, shownTurns', sequence', produced, astray)
  BY <1>1, <1>2, <1>3, QuietBecomes DEF TurnsOK
<1>5. /\ TurnsOK(shownTurns', sequence', produced, astray) /\ shownTurns' # <<>>
      /\ PromptsIn(shownTurns') = PromptsIn(shownTurns)
  BY <1>1, <1>4, TurnsKept
<1>6. TurnsType(shownTurns', sequence')
  BY <1>5, TurnsTyped
<1>7. protocol = "v1" => RecordOK(record, produced, shownTurns')
  BY <1>5, SamePromptsRecorded DEF ProjectionInv
<1> QED BY <1>5, <1>6, <1>7

LEMMA PermissionInv ==
    ASSUME ProjectionInv, NEW tool \in Tools, Permission(tool)
    PROVE  ProjectionInv'
<1>1. PICK events : events = <<ApprovalRequested(tool, tool)>>
  OBVIOUS
<1>2. /\ projecting > 0 /\ EmitEvents(events) /\ protocol' = protocol /\ named' = named /\ projecting' = projecting
      /\ projector' = projector /\ record' = record /\ produced' = produced /\ updates' = updates
      /\ final' = final /\ shownText' = shownText /\ astray' = astray /\ retired' = retired
  BY <1>1 DEF Permission
<1>3. PICK e \in QuietEvents : events = <<e>>
  <2>1. ApprovalRequested(tool, tool) \in QuietEvents
    BY DEF QuietEvents
  <2> QED BY <1>1, <2>1
<1>4. shownTurns # <<>>
  BY <1>2 DEF ProjectionInv
<1>5. /\ TurnsOK(shownTurns', sequence', produced, astray) /\ shownTurns' # <<>>
      /\ PromptsIn(shownTurns') = PromptsIn(shownTurns) /\ TurnsType(shownTurns', sequence')
      /\ protocol = "v1" => RecordOK(record, produced, shownTurns')
  BY <1>2, <1>3, <1>4, QuietStep
<1>6. ProjectionTypeOK'
  BY <1>2, <1>5, ProjectionFields DEF ProjectionTypeOK, TextsOK, ProjectorOK, TurnsType
<1> QED BY <1>2, <1>5, <1>6 DEF ProjectionInv

LEMMA TurnEndsInv ==
    ASSUME ProjectionInv, NEW end \in Ends, TurnEnds(end)
    PROVE  ProjectionInv'
<1>1. PICK events : events = <<end>>
  OBVIOUS
<1>2. /\ protocol # "cloud" /\ projecting = 1 /\ EmitEvents(events) /\ protocol' = protocol /\ named' = named
      /\ projecting' = 0 /\ projector' = projector /\ record' = record /\ produced' = produced
      /\ updates' = updates /\ final' = final /\ shownText' = shownText /\ astray' = astray /\ retired' = retired
  BY <1>1 DEF TurnEnds
<1>3. end \in QuietEvents
  BY DEF Ends, QuietEvents
<1>4. shownTurns # <<>>
  BY <1>2 DEF ProjectionInv
<1>5. /\ TurnsOK(shownTurns', sequence', produced, astray) /\ shownTurns' # <<>>
      /\ PromptsIn(shownTurns') = PromptsIn(shownTurns) /\ TurnsType(shownTurns', sequence')
      /\ protocol = "v1" => RecordOK(record, produced, shownTurns')
  BY <1>1, <1>2, <1>3, <1>4, QuietStep
<1>6. projecting' \in 0..MaxPrompts /\ projecting' <= 1
  BY <1>2, PromptsAssumption
<1>7. ProjectionTypeOK'
  BY <1>2, <1>5, <1>6, ProjectionFields DEF ProjectionTypeOK, TextsOK, ProjectorOK, TurnsType
<1> QED BY <1>2, <1>5, <1>6, <1>7 DEF ProjectionInv

(* The rest of the final message is a text, and empty if all was shown. *)
LEMMA FinalDeltaText ==
    ASSUME NEW shown \in MessageTexts, NEW text \in MessageTexts
    PROVE  FinalDelta(shown, text) \in MessageTexts /\ (shown = text => FinalDelta(shown, text) = <<>>)
<1> DEFINE T == Messages \X (1..MaxUpdates)
<1>1. PICK s \in Seq(T), t \in Seq(T) : s = shown /\ t = text
  BY DEF MessageTexts
<1>2. FinalDelta(s, t) \in Seq(T)
  <2>1. CASE s # <<>> /\ IsPrefix(s, t)
    <3>1. SubSeq(t, Len(s) + 1, Len(t)) \in Seq(T)
      BY <2>1, PrefixRest
    <3> QED BY <2>1, <3>1 DEF FinalDelta
  <2>2. CASE ~(s # <<>> /\ IsPrefix(s, t))
    BY <2>2 DEF FinalDelta
  <2> QED BY <2>1, <2>2
<1>3. FinalDelta(s, s) = <<>>
  <2>1. CASE s = <<>>
    BY <2>1 DEF FinalDelta
  <2>2. CASE s # <<>>
    <3>1. IsPrefix(s, s)
      BY DEF IsPrefix
    <3>2. SubSeq(s, Len(s) + 1, Len(s)) = <<>>
      OBVIOUS
    <3> QED BY <2>2, <3>1, <3>2 DEF FinalDelta
  <2> QED BY <2>1, <2>2
<1> QED BY <1>1, <1>2, <1>3 DEF MessageTexts

LEMMA CloudTurnEndsInv ==
    ASSUME ProjectionInv, NEW event, CloudTurnEnds(event),
           event = MessageDelta(FinalDelta(shownText, final), TRUE) \/ event = RunFailed("failed")
    PROVE  ProjectionInv'
<1>1. PICK events : events = <<event>>
  OBVIOUS
<1>2. /\ protocol = "cloud" /\ projecting > 0 /\ EmitEvents(events) /\ projecting' = projecting - 1
      /\ shownText' = <<>> /\ final' = <<>> /\ protocol' = protocol /\ named' = named /\ projector' = projector
      /\ record' = record /\ produced' = produced /\ updates' = updates /\ astray' = astray /\ retired' = retired
  BY <1>1 DEF CloudTurnEnds, CloudEvent
<1>3. /\ shownTurns # <<>> /\ TurnsOK(shownTurns, sequence, produced, astray) /\ shownText \in MessageTexts
      /\ final \in MessageTexts /\ CloudOK(projecting, astray, shownText, final)
      /\ projecting <= Len(PromptsIn(shownTurns)) /\ TextsOK(produced)
  BY <1>2, ProjectionFields DEF ProjectionInv
<1>4. shownTurns' = ApplyEvents(shownTurns, sequence, events) /\ sequence' = sequence + Len(events)
  BY <1>2 DEF EmitEvents
<1>5. Faithful(shownTurns, sequence, produced, astray)
  BY <1>3 DEF TurnsOK
<1>6. Become(shownTurns, shownTurns', sequence', produced, astray)
  <2>1. CASE event = RunFailed("failed")
    <3>1. Quiet(events)
      BY <1>1, <2>1 DEF Quiet, QuietEvents
    <3> QED BY <1>3, <1>4, <1>5, <3>1, QuietBecomes
  <2>2. CASE event = MessageDelta(FinalDelta(shownText, final), TRUE)
    <3>1. PICK text \in MessageTexts : text = FinalDelta(shownText, final) /\ (shownText = final => text = <<>>)
      BY <1>3, FinalDeltaText
    <3>2. PICK terminal \in BOOLEAN : terminal = TRUE
      OBVIOUS
    <3>3. events = <<MessageDelta(text, terminal)>>
      BY <1>1, <2>2, <3>1, <3>2
    <3>4. CASE astray = Contents
      <4>1. Faithful(shownTurns, sequence, produced, Contents)
        BY <1>5, <3>4
      <4>2. Become(shownTurns, shownTurns', sequence', produced, Contents)
        BY <1>3, <1>4, <3>3, <4>1, MessageAmongLost
      <4> QED BY <3>4, <4>2
    <3>5. CASE astray = {}
      <4>1. text = <<>>
        BY <1>3, <3>1, <3>5 DEF CloudOK
      <4>2. PICK m : m \in Messages
        BY ContentAssumption
      <4>3. text \in Seq(Pieces(m))
        BY <4>1
      <4>4. \A i \in Contents : produced[i] = IF i = m THEN produced[i] \o text ELSE produced[i]
        <5>1. ASSUME NEW i \in Contents  PROVE produced[i] \o text = produced[i]
          BY <1>3, <4>1 DEF TextsOK
        <5> QED BY <5>1
      <4> QED BY <1>3, <1>4, <1>5, <3>3, <4>2, <4>3, <4>4, MessageBecomes
    <3> QED BY <1>3, <3>4, <3>5 DEF CloudOK
  <2> QED BY <2>1, <2>2
<1>7. /\ TurnsOK(shownTurns', sequence', produced, astray) /\ shownTurns' # <<>>
      /\ PromptsIn(shownTurns') = PromptsIn(shownTurns)
  BY <1>3, <1>6, TurnsKept
<1>8. TurnsType(shownTurns', sequence')
  BY <1>7, TurnsTyped
<1>9. projecting' \in 0..MaxPrompts /\ projecting' <= Len(PromptsIn(shownTurns'))
  BY <1>2, <1>3, <1>7, ProjectionFields, PromptsAssumption
<1>10. CloudOK(projecting', astray, shownText', final')
  BY <1>2, <1>3 DEF CloudOK
<1>11. <<>> \in MessageTexts
  BY DEF MessageTexts
<1>12. ProjectionTypeOK'
  BY <1>2, <1>8, <1>9, <1>11, ProjectionFields DEF ProjectionTypeOK, TextsOK, ProjectorOK, TurnsType
<1> QED BY <1>2, <1>7, <1>9, <1>10, <1>12 DEF ProjectionInv

LEMMA CloudCancelledInv ==
    ASSUME ProjectionInv, CloudCancelled
    PROVE  ProjectionInv'
<1>1. PICK events : events = <<RunFailed("cancelled")>>
  OBVIOUS
<1>2. /\ protocol = "cloud" /\ shownTurns # <<>> /\ EmitEvents(events) /\ projecting' = projecting
      /\ shownText' = <<>> /\ final' = <<>> /\ protocol' = protocol /\ named' = named /\ projector' = projector
      /\ record' = record /\ produced' = produced /\ updates' = updates /\ astray' = astray /\ retired' = retired
  BY <1>1 DEF CloudCancelled, CloudEvent
<1>3. PICK e \in QuietEvents : events = <<e>>
  <2>1. RunFailed("cancelled") \in QuietEvents
    BY DEF QuietEvents
  <2> QED BY <1>1, <2>1
<1>4. /\ TurnsOK(shownTurns', sequence', produced, astray) /\ shownTurns' # <<>>
      /\ PromptsIn(shownTurns') = PromptsIn(shownTurns) /\ TurnsType(shownTurns', sequence')
  BY <1>2, <1>3, QuietStep
<1>5. CloudOK(projecting, astray, shownText, final) /\ projecting <= Len(PromptsIn(shownTurns))
  BY <1>2 DEF ProjectionInv
<1>6. CloudOK(projecting', astray, shownText', final')
  BY <1>2, <1>5 DEF CloudOK
<1>7. <<>> \in MessageTexts
  BY DEF MessageTexts
<1>8. ProjectionTypeOK'
  BY <1>2, <1>4, <1>7, ProjectionFields DEF ProjectionTypeOK, TextsOK, ProjectorOK, TurnsType
<1> QED BY <1>2, <1>4, <1>5, <1>6, <1>8 DEF ProjectionInv

LEMMA RestartInv ==
    ASSUME ProjectionInv, Restart
    PROVE  ProjectionInv'
<1>1. PICK r : r = Replay(record)
  OBVIOUS
<1>2. /\ protocol = "v1" /\ ~r.refused /\ shownTurns' = r.turns /\ sequence' = r.sequence /\ projecting' = 0
      /\ projector' = NewProjector /\ astray' = {} /\ protocol' = protocol /\ named' = named
      /\ record' = record /\ produced' = produced /\ updates' = updates /\ final' = final
      /\ shownText' = shownText
  BY <1>1 DEF Restart, RestoreFrom
<1>3. RecordOK(record, produced, shownTurns) /\ Len(PromptsIn(shownTurns)) <= MaxPrompts
  BY <1>2, ProjectionFields DEF ProjectionInv, TurnsOK
<1>4. /\ TurnsOK(shownTurns', sequence', produced, astray') /\ shownTurns' # <<>>
      /\ PromptsIn(shownTurns') = PromptsIn(shownTurns)
  <2>1. TurnsOK(r.turns, r.sequence, produced, {}) /\ r.turns # <<>> /\ PromptsIn(r.turns) = PromptsIn(shownTurns)
    BY <1>1, <1>2, <1>3, Replayed
  <2> QED BY <1>2, <2>1
<1>5. TurnsType(shownTurns', sequence')
  BY <1>4, TurnsTyped
<1>6. RecordOK(record, produced, shownTurns')
  BY <1>3, <1>4, SamePromptsRecorded
<1>7. ProjectorOK(projector')
  <2>1. \A m \in Contents : <<>> \in Seq(Pieces(m))
    OBVIOUS
  <2>2. <<>> \in MessageTexts
    BY DEF MessageTexts
  <2> QED BY <1>2, <2>1, <2>2 DEF ProjectorOK, NewProjector, Projectors, Statuses
<1>8. retired' \subseteq Tools
  BY DEF Restart
<1>9. 0 \in 0..MaxPrompts
  BY PromptsAssumption
<1>10. ProjectionTypeOK'
  BY <1>2, <1>5, <1>7, <1>8, <1>9, ProjectionFields DEF ProjectionTypeOK, TextsOK, ProjectorOK, TurnsType
<1> QED BY <1>2, <1>4, <1>6, <1>10 DEF ProjectionInv

LEMMA StutterInv ==
    ASSUME ProjectionInv, UNCHANGED projectionVars
    PROVE  ProjectionInv'
<1>1. /\ protocol' = protocol /\ named' = named /\ shownTurns' = shownTurns /\ sequence' = sequence
      /\ projecting' = projecting /\ projector' = projector /\ record' = record /\ produced' = produced
      /\ updates' = updates /\ final' = final /\ shownText' = shownText /\ astray' = astray /\ retired' = retired
  BY DEF projectionVars
<1>2. ProjectionTypeOK'
  BY <1>1 DEF ProjectionInv, ProjectionTypeOK
<1> QED BY <1>1, <1>2 DEF ProjectionInv

(* Every step keeps the invariant. *)
LEMMA ProjectionStepInv == ProjectionInv /\ [ProjectionNext]_projectionVars => ProjectionInv'
<1> SUFFICES ASSUME ProjectionInv, [ProjectionNext]_projectionVars  PROVE ProjectionInv'
  OBVIOUS
<1>1. CASE PromptTurn
  BY <1>1, PromptTurnInv
<1>2. CASE CloudPrompt
  BY <1>2, CloudPromptInv
<1>3. CASE CloudCancelled
  BY <1>3, CloudCancelledInv
<1>4. CASE Restart
  BY <1>4, RestartInv
<1>5. ASSUME NEW update \in Inputs, Update(update) \/ LateUpdate(update) \/ CloudUpdate(update)
      PROVE  ProjectionInv'
  BY <1>5, UpdateInv, LateUpdateInv, CloudUpdateInv
<1>6. ASSUME NEW tool \in Tools, Permission(tool)  PROVE ProjectionInv'
  BY <1>6, PermissionInv
<1>7. ASSUME NEW end \in Ends, TurnEnds(end)  PROVE ProjectionInv'
  BY <1>7, TurnEndsInv
<1>8. ASSUME NEW event \in {MessageDelta(FinalDelta(shownText, final), TRUE), RunFailed("failed")},
             CloudTurnEnds(event)
      PROVE  ProjectionInv'
  BY <1>8, CloudTurnEndsInv
<1>9. CASE UNCHANGED projectionVars
  BY <1>9, StutterInv
<1> QED BY <1>1, <1>2, <1>3, <1>4, <1>5, <1>6, <1>7, <1>8, <1>9 DEF ProjectionNext

(* The types, and that what the Agent writes is shown, follow. *)
LEMMA ProjectionInvShows == ProjectionInv => ProjectionTypeOK /\ WrittenTextIsShown
<1> SUFFICES ASSUME ProjectionInv  PROVE ProjectionTypeOK /\ WrittenTextIsShown
  OBVIOUS
<1>1. Faithful(shownTurns, sequence, produced, astray)
  BY DEF ProjectionInv, TurnsOK
<1>2. ShowsText(shownTurns, produced, astray)
  BY <1>1, FaithfulShows
<1> QED BY <1>2 DEF ProjectionInv, ShowsText, WrittenTextIsShown

(* The projection of an Agent's updates shows everything the Agent says, once *)
(* and in order: TurnProjection's part of what AcpSession promises, of        *)
(* AcpEventProjector, the collector and the history of the cloud.             *)
THEOREM ProjectionShowsText == ProjectionSpec => [](ProjectionTypeOK /\ WrittenTextIsShown)
<1>1. ProjectionSpec => []ProjectionInv
  BY ProjectionInitInv, ProjectionStepInv, PTL DEF ProjectionSpec
<1> QED BY <1>1, ProjectionInvShows, PTL

=============================================================================
