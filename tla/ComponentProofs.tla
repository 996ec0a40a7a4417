-------------------------- MODULE ComponentProofs --------------------------
(***************************************************************************)
(* Proofs about the components that share no state, one part for each:     *)
(* RunnerCommands, ToolBroker, McpAttachment, CloudPolling and             *)
(* ChannelComposer.  At the end, the types of the five side by side, as    *)
(* MCComponents runs them.                                                 *)
(***************************************************************************)
EXTENDS MCComponents, FiniteSetTheorems, SequenceTheorems, TLAPS

-----------------------------------------------------------------------------
(* Proofs about RunnerCommands: the commands of a conversation are carried *)
(* out one at a time in the order they came, and one that is delivered     *)
(* again within the history is ignored, for any number of conversations,   *)
(* commands, redeliveries and any length of the history.                   *)
(*                                                                         *)
(* The invariant says that the lines of enqueueCommand are lines: a run    *)
(* waits for the last one before it of its conversation, and when there is *)
(* none to wait for, all before it are done.  The history is the tail of   *)
(* what was accepted, so a run knows its place in it by its receipt.       *)
(* The types need one thing more: the permission requests that wait,       *)
(* counted one by one, are among those the Agents made, so the envelopes   *)
(* accepted are bounded by the runs, the requests and the late decisions.  *)

AnyRun == [order : Orders, after : 0..MaxRuns, receipt : Nat, stage : {"queued", "begun", "done"}]

(* The lines of the conversations. *)
LineTypes ==
  /\ Sent \subseteq Orders /\ sent \in [Sent -> Order]
  /\ runs \in Seq(AnyRun) /\ Len(runs) <= MaxRuns
  /\ \A i \in DOMAIN runs : runs[i].order \in Sent
  /\ lastRun \in [Chats -> 0..MaxRuns]

(* A run waits for the last one before it, or all before it are done.       *)
Waits ==
  \A i, j \in DOMAIN runs : i < j /\ Chat(i) = Chat(j) =>
    /\ runs[j].after = 0 => runs[i].stage = "done"
    /\ runs[j].after # 0 => i <= runs[j].after

Predecessors ==
  \A j \in DOMAIN runs : runs[j].after # 0 =>
    runs[j].after \in DOMAIN runs /\ runs[j].after < j /\ Chat(runs[j].after) = Chat(j)

(* Where a line ends, or that it is empty. *)
LineEnds ==
  \A i \in DOMAIN runs :
    /\ lastRun[Chat(i)] = 0 => runs[i].stage = "done"
    /\ lastRun[Chat(i)] # 0 => i <= lastRun[Chat(i)]

Tails == \A v \in Chats : lastRun[v] # 0 => lastRun[v] \in DOMAIN runs /\ Chat(lastRun[v]) = v

Lines == Waits /\ Predecessors /\ LineEnds /\ Tails

LineInv == LineTypes /\ Lines /\ OneCommandAtATime

(* The history of accepted commands. *)
HistoryLength == IF receptions <= HistoryLimit THEN receptions ELSE HistoryLimit
Age(i) == receptions - runs[i].receipt

HistoryInv ==
  /\ processed \in Seq(Nat) /\ receptions \in Nat
  /\ stop # "stopped" => Len(processed) = HistoryLength
  /\ \A i \in DOMAIN runs : runs[i].receipt \in 1..receptions
  /\ stop # "stopped" => \A i \in DOMAIN runs : Age(i) < Len(processed) =>
       processed[Len(processed) - Age(i)] = runs[i].order

CommandInv == LineInv /\ HistoryInv /\ RedeliveryIgnored

(* What the types say of a run. *)
LEMMA RunFacts ==
    ASSUME MaxRuns \in Nat, LineTypes
    PROVE  /\ Len(runs) \in Nat /\ DOMAIN runs = 1..Len(runs)
           /\ \A i \in DOMAIN runs :
                /\ i \in Nat /\ i # 0 /\ runs[i] \in AnyRun
                /\ runs[i].after \in Nat /\ runs[i].receipt \in Nat /\ Chat(i) \in Chats
<1>1. /\ Len(runs) \in Nat /\ DOMAIN runs = 1..Len(runs)
      /\ \A i \in DOMAIN runs : i \in Nat /\ i # 0 /\ runs[i] \in AnyRun
  BY DEF LineTypes
<1>2. \A i \in DOMAIN runs : runs[i].after \in Nat /\ runs[i].receipt \in Nat
  BY <1>1 DEF AnyRun
<1>3. \A i \in DOMAIN runs : Chat(i) \in Chats
  BY DEF Chat, LineTypes, Order
<1> QED BY <1>1, <1>2, <1>3

(* Remembering an id moves every other one back by one place.               *)
LEMMA RememberShifts ==
    ASSUME HistoryLimit \in Nat, HistoryInv, stop # "stopped", NEW x \in Nat, Remember(x)
    PROVE  /\ processed' \in Seq(Nat) /\ receptions' = receptions + 1
           /\ Len(processed') = HistoryLength'
           /\ \A age \in Nat : age + 1 < Len(processed') =>
                /\ age < Len(processed)
                /\ processed'[Len(processed') - (age + 1)] = processed[Len(processed) - age]
           /\ Len(processed') > 0 => processed'[Len(processed')] = x
<1> DEFINE s == Append(processed, x)
<1>1. /\ s \in Seq(Nat) /\ Len(s) = Len(processed) + 1 /\ s[Len(s)] = x
      /\ \A k \in 1..Len(processed) : s[k] = processed[k]
  BY DEF HistoryInv
<1>2. Len(processed) \in Nat /\ Len(processed) = HistoryLength /\ receptions' = receptions + 1
      /\ receptions \in Nat
  BY DEF HistoryInv, Remember
<1>3. CASE Len(s) > HistoryLimit
  <2>1. processed' = Tail(s)
    BY <1>3 DEF Remember
  <2>2. /\ processed' \in Seq(Nat) /\ Len(processed') = Len(processed)
        /\ \A k \in 1..Len(processed) : processed'[k] = s[k + 1]
    <3> HIDE DEF s
    <3>1. s # <<>>
      BY <1>1, <1>2
    <3> QED BY <1>1, <1>2, <2>1, <3>1
  <2> HIDE DEF s
  <2>3. Len(processed') = HistoryLength'
    BY <1>1, <1>2, <1>3, <2>2 DEF HistoryLength
  <2>4. ASSUME NEW age \in Nat, age + 1 < Len(processed')
        PROVE  age < Len(processed)
               /\ processed'[Len(processed') - (age + 1)] = processed[Len(processed) - age]
    <3>1. Len(processed) - (age + 1) \in 1..Len(processed) /\ Len(processed) - age \in 1..Len(processed)
      BY <1>2, <2>2, <2>4
    <3> QED BY <1>1, <1>2, <2>2, <3>1
  <2>5. Len(processed') > 0 => processed'[Len(processed')] = x
    BY <1>1, <1>2, <2>2
  <2> QED BY <1>2, <2>2, <2>3, <2>4, <2>5
<1>4. CASE ~(Len(s) > HistoryLimit)
  <2>1. processed' = s
    BY <1>4 DEF Remember
  <2> HIDE DEF s
  <2>2. Len(processed') = HistoryLength'
    BY <1>1, <1>2, <1>4, <2>1 DEF HistoryLength
  <2> QED BY <1>1, <1>2, <2>1, <2>2
<1> QED BY <1>3, <1>4

(* Runs may change their stage without losing their place in the history.   *)
LEMMA HistoryKept ==
    ASSUME HistoryLimit \in Nat, LineTypes, HistoryInv, RedeliveryIgnored,
           DOMAIN runs' = DOMAIN runs,
           \A i \in DOMAIN runs : runs'[i].order = runs[i].order /\ runs'[i].receipt = runs[i].receipt,
           UNCHANGED <<processed, receptions>>, stop = "stopped" => stop' = "stopped"
    PROVE  HistoryInv' /\ RedeliveryIgnored'
<1>1. HistoryInv'
  BY DEF HistoryInv, Age, HistoryLength
<1>2. RedeliveryIgnored'
  BY DEF RedeliveryIgnored
<1> QED BY <1>1, <1>2

(* A decision goes into the history and into no line.                       *)
LEMMA DecisionKeeps ==
    ASSUME HistoryLimit \in Nat, MaxRuns \in Nat, CommandInv, Remember(Decision), stop = "no",
           UNCHANGED <<sent, runs, lastRun, stop>>
    PROVE  CommandInv'
<1>1. /\ processed' \in Seq(Nat) /\ receptions' = receptions + 1
      /\ Len(processed') = HistoryLength'
      /\ \A age \in Nat : age + 1 < Len(processed') =>
           /\ age < Len(processed)
           /\ processed'[Len(processed') - (age + 1)] = processed[Len(processed) - age]
  BY RememberShifts DEF CommandInv, Decision
<1>2. \A i \in DOMAIN runs : Age(i) \in Nat /\ Age(i)' = Age(i) + 1
  BY <1>1 DEF Age, CommandInv, HistoryInv
<1>3. HistoryInv'
  <2>1. \A i \in DOMAIN runs' : runs'[i].receipt \in 1..receptions'
    BY <1>1 DEF CommandInv, HistoryInv
  <2>2. ASSUME NEW i \in DOMAIN runs', Age(i)' < Len(processed')
        PROVE  processed'[Len(processed') - Age(i)'] = runs'[i].order
    <3>1. Age(i) \in Nat /\ Age(i)' = Age(i) + 1 /\ i \in DOMAIN runs /\ runs'[i] = runs[i]
      BY <1>2
    <3>2. Age(i) < Len(processed)
          /\ processed'[Len(processed') - (Age(i) + 1)] = processed[Len(processed) - Age(i)]
      BY <1>1, <2>2, <3>1
    <3>3. processed[Len(processed) - Age(i)] = runs[i].order
      BY <3>1, <3>2 DEF CommandInv, HistoryInv
    <3> QED BY <3>1, <3>2, <3>3
  <2>3. receptions' \in Nat
    BY <1>1 DEF CommandInv, HistoryInv
  <2> QED BY <1>1, <2>1, <2>2, <2>3 DEF HistoryInv
<1>4. LineInv'
  BY DEF CommandInv, LineInv, LineTypes, Lines, Waits, Predecessors, LineEnds, Tails, Chat, Sent, OneCommandAtATime
<1>5. RedeliveryIgnored'
  BY DEF CommandInv, RedeliveryIgnored
<1> QED BY <1>3, <1>4, <1>5 DEF CommandInv

(* All runs before one that may begin are done.                             *)
LEMMA MayBeginAfterAll ==
    ASSUME MaxRuns \in Nat, LineInv, NEW j, MayBegin(j), NEW i \in DOMAIN runs, i < j, Chat(i) = Chat(j)
    PROVE  runs[i].stage = "done"
<1>1. j \in DOMAIN runs /\ j \in Nat /\ i \in Nat /\ runs[j].after \in Nat
  BY RunFacts DEF MayBegin, LineInv
<1>2. CASE runs[j].after = 0
  BY <1>1, <1>2 DEF LineInv, Lines, Waits
<1>3. CASE runs[j].after # 0
  <2> DEFINE a == runs[j].after
  <2>1. i <= a
    BY <1>1, <1>3 DEF LineInv, Lines, Waits
  <2>2. a \in DOMAIN runs /\ Chat(a) = Chat(j) /\ runs[a].stage = "done"
    BY <1>1, <1>3 DEF LineInv, Lines, Predecessors, MayBegin
  <2> HIDE DEF a
  <2> QED BY <1>1, <2>1, <2>2, RunFacts DEF LineInv, OneCommandAtATime
<1> QED BY <1>2, <1>3

(* A run moves on to a stage other than queued when all before it are done; *)
(* at its end it leaves the line.                                           *)
LEMMA MoveKeeps ==
    ASSUME HistoryLimit \in Nat, MaxRuns \in Nat, CommandInv, NEW i \in DOMAIN runs, NEW s \in {"begun", "done"},
           runs[i].stage # "done",
           \A h \in DOMAIN runs : h < i /\ Chat(h) = Chat(i) => runs[h].stage = "done",
           runs' = [runs EXCEPT ![i].stage = s],
           \/ s = "begun" /\ lastRun' = lastRun
           \/ s = "done" /\ lastRun' = [v \in Chats |-> IF lastRun[v] = i THEN 0 ELSE lastRun[v]],
           UNCHANGED <<sent, processed, receptions, stop>>
    PROVE  CommandInv'
<1>1. /\ runs \in Seq(AnyRun) /\ runs' \in Seq(AnyRun) /\ Len(runs') = Len(runs)
      /\ DOMAIN runs' = DOMAIN runs /\ DOMAIN runs = 1..Len(runs) /\ Len(runs) \in Nat
  <2>1. runs \in Seq(AnyRun) /\ runs[i] \in AnyRun /\ Len(runs) \in Nat /\ DOMAIN runs = 1..Len(runs)
    BY RunFacts DEF CommandInv, LineInv, LineTypes
  <2>2. [runs[i] EXCEPT !.stage = s] \in AnyRun
    BY <2>1 DEF AnyRun
  <2> QED BY <2>1, <2>2
<1>2. \A j \in DOMAIN runs : /\ runs'[j].order = runs[j].order /\ runs'[j].receipt = runs[j].receipt
                             /\ runs'[j].after = runs[j].after
                             /\ runs'[j].stage = IF j = i THEN s ELSE runs[j].stage
  BY <1>1 DEF AnyRun
<1>3. HistoryInv' /\ RedeliveryIgnored'
  BY <1>1, <1>2, HistoryKept DEF CommandInv, LineInv
<1>4. LineTypes'
  <2>1. lastRun' \in [Chats -> 0..MaxRuns]
    BY <1>1 DEF CommandInv, LineInv, LineTypes
  <2> QED BY <1>1, <1>2, <2>1 DEF CommandInv, LineInv, LineTypes, Sent
<1>5. \A j \in DOMAIN runs : Chat(j)' = Chat(j) /\ Chat(j) \in Chats
  BY <1>2 DEF Chat, CommandInv, LineInv, LineTypes, Order
<1>6. OneCommandAtATime'
  BY <1>1, <1>2, <1>5 DEF OneCommandAtATime, CommandInv, LineInv
<1>7. Waits'
  BY <1>1, <1>2, <1>5 DEF CommandInv, LineInv, Lines, Waits
<1>8. Predecessors'
  <2> SUFFICES ASSUME NEW j \in DOMAIN runs, runs[j].after # 0
               PROVE  /\ runs[j].after \in DOMAIN runs /\ runs[j].after < j
                      /\ Chat(runs[j].after)' = Chat(j)'
    BY <1>1, <1>2 DEF Predecessors, Chat
  <2> DEFINE a == runs[j].after
  <2>1. a \in DOMAIN runs /\ a < j /\ Chat(a) = Chat(j) /\ runs'[j].after = a
    BY <1>2 DEF CommandInv, LineInv, Lines, Predecessors
  <2> HIDE DEF a
  <2>2. sent'[runs'[a].order].chat = Chat(j)'
    BY <1>5, <2>1 DEF Chat
  <2> QED BY <2>1, <2>2 DEF Chat, a
<1>9. LineEnds'
  <2> SUFFICES ASSUME NEW j \in DOMAIN runs
               PROVE  /\ lastRun'[Chat(j)] = 0 => runs'[j].stage = "done"
                      /\ lastRun'[Chat(j)] # 0 => j <= lastRun'[Chat(j)]
    BY <1>1, <1>5 DEF LineEnds
  <2>1. CASE s = "begun"
    BY <1>1, <1>2, <1>5, <2>1 DEF CommandInv, LineInv, Lines, LineEnds
  <2>2. CASE s = "done"
    <3>1. lastRun'[Chat(j)] = IF lastRun[Chat(j)] = i THEN 0 ELSE lastRun[Chat(j)]
      BY <1>5, <2>2
    <3>2. CASE lastRun[Chat(j)] = i
      <4>1. j <= i /\ Chat(i) = Chat(j)
        BY <1>1, <1>5, <3>2, RunFacts DEF CommandInv, LineInv, Lines, LineEnds, Tails
      <4> QED BY <1>1, <1>2, <2>2, <3>1, <3>2, <4>1
    <3>3. CASE lastRun[Chat(j)] # i
      BY <1>1, <1>2, <2>2, <3>1, <3>3 DEF CommandInv, LineInv, Lines, LineEnds
    <3> QED BY <3>2, <3>3
  <2> QED BY <2>1, <2>2
<1>10. Tails'
  <2> SUFFICES ASSUME NEW v \in Chats, lastRun'[v] # 0
               PROVE  lastRun'[v] \in DOMAIN runs' /\ sent'[runs'[lastRun'[v]].order].chat = v
    BY DEF Tails, Chat
  <2>1. lastRun'[v] = lastRun[v]
    OBVIOUS
  <2>2. lastRun[v] \in DOMAIN runs /\ Chat(lastRun[v]) = v
    BY <2>1 DEF CommandInv, LineInv, Lines, Tails
  <2> QED BY <1>1, <1>2, <2>1, <2>2 DEF Chat
<1> QED BY <1>3, <1>4, <1>6, <1>7, <1>8, <1>9, <1>10 DEF CommandInv, LineInv, Lines

(* A command that is received goes to the end of its line; one that came    *)
(* before and is no more in the history came long ago.                      *)
LEMMA ReceiveKeeps ==
    ASSUME HistoryLimit \in Nat, MaxRuns \in Nat, CommandInv,
           NEW o \in Orders, NEW order \in Order, Receive(o, order)
    PROVE  CommandInv'
<1> DEFINE n == Len(runs) + 1
           v == order.chat
           new == [order |-> o, after |-> lastRun[v], receipt |-> receptions + 1, stage |-> "queued"]
<1>1. /\ runs \in Seq(AnyRun) /\ Len(runs) \in Nat /\ DOMAIN runs = 1..Len(runs)
      /\ receptions \in Nat /\ v \in Chats /\ lastRun[v] \in 0..MaxRuns /\ n <= MaxRuns
      /\ new \in AnyRun
  BY DEF CommandInv, LineInv, LineTypes, HistoryInv, Receive, Order, AnyRun
<1>2. /\ runs' = Append(runs, new) /\ lastRun' = [lastRun EXCEPT ![v] = n]
      /\ sent' = [p \in Sent \cup {o} |-> IF p = o THEN order ELSE sent[p]]
      /\ stop = "no" /\ stop' = stop /\ ~InHistory(o) /\ Remember(o)
      /\ o \in Sent => order = sent[o]
  BY DEF Receive
<1> HIDE DEF new
<1>3. /\ runs' \in Seq(AnyRun) /\ Len(runs') = n /\ DOMAIN runs' = 1..n /\ runs'[n] = new
      /\ \A i \in DOMAIN runs : runs'[i] = runs[i] /\ i \in DOMAIN runs' /\ i < n
  BY <1>1, <1>2
<1>4. Sent' = Sent \cup {o} /\ sent' \in [Sent' -> Order] /\ Sent' \subseteq Orders
  BY <1>2 DEF Sent, CommandInv, LineInv, LineTypes
<1>5. /\ \A i \in DOMAIN runs : Chat(i)' = Chat(i) /\ Chat(i) \in Chats
      /\ \A i \in DOMAIN runs' : i = n => Chat(i)' = v
  <2>1. \A p \in Sent : sent'[p] = sent[p]
    BY <1>2
  <2>2. sent'[o] = order
    BY <1>2
  <2>3. ASSUME NEW i \in DOMAIN runs  PROVE Chat(i)' = Chat(i) /\ Chat(i) \in Chats
    <3>1. runs[i].order \in Sent /\ runs'[i] = runs[i]
      BY <1>3 DEF CommandInv, LineInv, LineTypes
    <3> QED BY <2>1, <3>1, RunFacts DEF Chat, CommandInv, LineInv
  <2>4. sent'[runs'[n].order].chat = v
    BY <1>3, <2>2 DEF new
  <2>5. \A i \in DOMAIN runs' : i = n => Chat(i)' = v
    BY <2>4 DEF Chat
  <2> QED BY <2>3, <2>5
<1>6. LineTypes'
  <2>1. \A i \in DOMAIN runs' : runs'[i].order \in Sent'
    <3>1. \A i \in 1..n : i = n \/ i \in DOMAIN runs
      BY <1>1
    <3> QED BY <1>3, <1>4, <3>1 DEF new, CommandInv, LineInv, LineTypes
  <2>2. lastRun' \in [Chats -> 0..MaxRuns]
    BY <1>1, <1>2 DEF CommandInv, LineInv, LineTypes
  <2> QED BY <1>1, <1>3, <1>4, <2>1, <2>2 DEF LineTypes
<1>7. n \notin DOMAIN runs /\ n \in Nat /\ \A i \in DOMAIN runs' : i = n \/ i \in DOMAIN runs
  BY <1>1, <1>3
<1>9. new.after = lastRun[v] /\ new.stage = "queued" /\ new.receipt = receptions + 1 /\ new.order = o
  BY DEF new
<1>10. \A i \in DOMAIN runs : Chat(i) = v =>
         /\ lastRun[v] = 0 => runs[i].stage = "done"
         /\ lastRun[v] # 0 => i <= lastRun[v]
  BY DEF CommandInv, LineInv, Lines, LineEnds
<1>11. lastRun[v] # 0 => lastRun[v] \in DOMAIN runs /\ Chat(lastRun[v]) = v
  BY <1>1 DEF CommandInv, LineInv, Lines, Tails
<1>12. OneCommandAtATime'
  BY <1>1, <1>3, <1>5, <1>7, <1>9 DEF OneCommandAtATime, CommandInv, LineInv
<1>13. Lines'
  <2>1. lastRun'[v] = n /\ \A w \in Chats : w # v => lastRun'[w] = lastRun[w]
    BY <1>1, <1>2 DEF CommandInv, LineInv, LineTypes
  <2>2. Waits'
    <3> SUFFICES ASSUME NEW i \in DOMAIN runs', NEW j \in DOMAIN runs', i < j, Chat(i)' = Chat(j)'
                 PROVE  /\ runs'[j].after = 0 => runs'[i].stage = "done"
                        /\ runs'[j].after # 0 => i <= runs'[j].after
      BY DEF Waits
    <3>1. i \in DOMAIN runs /\ runs'[i] = runs[i] /\ Chat(i)' = Chat(i)
      BY <1>1, <1>3, <1>5, <1>7
    <3>2. CASE j = n
      <4>1. Chat(i) = v /\ runs'[j] = new
        BY <1>3, <1>5, <3>1, <3>2
      <4> QED BY <1>9, <1>10, <3>1, <4>1
    <3>3. CASE j \in DOMAIN runs
      BY <1>3, <1>5, <3>1, <3>3 DEF CommandInv, LineInv, Lines, Waits
    <3> QED BY <1>7, <3>2, <3>3
  <2>3. Predecessors'
    <3> SUFFICES ASSUME NEW j \in DOMAIN runs', runs'[j].after # 0
                 PROVE  /\ runs'[j].after \in DOMAIN runs' /\ runs'[j].after < j
                        /\ sent'[runs'[runs'[j].after].order].chat = Chat(j)'
      BY DEF Predecessors, Chat
    <3> DEFINE a == runs'[j].after
    <3>1. a \in DOMAIN runs /\ a < j /\ Chat(a) = Chat(j)'
      <4>1. CASE j = n
        BY <1>3, <1>5, <1>9, <1>11, <4>1
      <4>2. CASE j \in DOMAIN runs
        BY <1>3, <1>5, <4>2 DEF CommandInv, LineInv, Lines, Predecessors
      <4> QED BY <1>7, <4>1, <4>2
    <3> HIDE DEF a
    <3>2. a \in DOMAIN runs' /\ sent'[runs'[a].order].chat = Chat(j)'
      BY <1>3, <1>5, <3>1 DEF Chat
    <3> QED BY <3>1, <3>2 DEF a
  <2>4. LineEnds'
    <3> SUFFICES ASSUME NEW i \in DOMAIN runs'
                 PROVE  /\ lastRun'[Chat(i)'] = 0 => runs'[i].stage = "done"
                        /\ lastRun'[Chat(i)'] # 0 => i <= lastRun'[Chat(i)']
      BY DEF LineEnds, Chat
    <3>1. CASE Chat(i)' = v
      BY <1>1, <1>3, <2>1, <3>1
    <3>2. CASE Chat(i)' # v
      <4>1. i \in DOMAIN runs
        BY <1>5, <1>7, <3>2
      <4>2. Chat(i)' = Chat(i) /\ Chat(i) \in Chats
        BY <1>5, <4>1
      <4> QED BY <1>3, <2>1, <3>2, <4>1, <4>2 DEF CommandInv, LineInv, Lines, LineEnds
    <3> QED BY <3>1, <3>2
  <2>5. Tails'
    <3> SUFFICES ASSUME NEW w \in Chats, lastRun'[w] # 0
                 PROVE  lastRun'[w] \in DOMAIN runs' /\ sent'[runs'[lastRun'[w]].order].chat = w
      BY DEF Tails, Chat
    <3>1. CASE w = v
      <4>1. n \in DOMAIN runs' /\ sent'[runs'[n].order].chat = v
        BY <1>1, <1>3, <1>5 DEF Chat
      <4> QED BY <1>1, <1>3, <2>1, <3>1, <4>1
    <3>2. CASE w # v
      <4>1. lastRun'[w] = lastRun[w]
        BY <2>1, <3>2
      <4>2. lastRun[w] \in DOMAIN runs /\ Chat(lastRun[w]) = w
        BY <4>1 DEF CommandInv, LineInv, Lines, Tails
      <4>3. sent'[runs'[lastRun[w]].order].chat = w
        BY <1>5, <4>2 DEF Chat
      <4> QED BY <1>3, <4>1, <4>2, <4>3
    <3> QED BY <3>1, <3>2
  <2> QED BY <2>2, <2>3, <2>4, <2>5 DEF Lines
<1>14. /\ processed' \in Seq(Nat) /\ receptions' = receptions + 1
       /\ Len(processed') = HistoryLength'
       /\ \A age \in Nat : age + 1 < Len(processed') =>
            /\ age < Len(processed)
            /\ processed'[Len(processed') - (age + 1)] = processed[Len(processed) - age]
       /\ Len(processed') > 0 => processed'[Len(processed')] = o
  <2>1. o \in Nat /\ stop # "stopped"
    BY <1>2 DEF Orders
  <2> QED BY <1>2, <2>1, RememberShifts DEF CommandInv
<1>15. \A i \in DOMAIN runs : Age(i) \in Nat /\ Age(i)' = Age(i) + 1
  BY <1>3, <1>14 DEF Age, CommandInv, HistoryInv
<1>16. HistoryInv'
  <2>1. \A i \in DOMAIN runs' : runs'[i].receipt \in 1..receptions'
    <3>1. \A i \in DOMAIN runs : runs'[i].receipt \in 1..receptions'
      BY <1>3, <1>14 DEF CommandInv, HistoryInv
    <3>2. runs'[n].receipt \in 1..receptions'
      BY <1>1, <1>3, <1>9, <1>14
    <3> QED BY <1>7, <3>1, <3>2
  <2>2. \A i \in DOMAIN runs' : Age(i)' < Len(processed') =>
          processed'[Len(processed') - Age(i)'] = runs'[i].order
    <3> SUFFICES ASSUME NEW i \in DOMAIN runs', Age(i)' < Len(processed')
                 PROVE  processed'[Len(processed') - Age(i)'] = runs'[i].order
      OBVIOUS
    <3>1. CASE i = n
      <4>1. Age(i)' = 0
        BY <1>1, <1>3, <1>9, <1>14, <3>1 DEF Age
      <4>2. Len(processed') \in Nat
        BY <1>14
      <4> QED BY <1>3, <1>9, <1>14, <3>1, <4>1, <4>2
    <3>2. CASE i \in DOMAIN runs
      <4>1. Age(i) \in Nat /\ Age(i)' = Age(i) + 1 /\ runs'[i] = runs[i]
        BY <1>3, <1>15, <3>2
      <4>2. Age(i) < Len(processed)
            /\ processed'[Len(processed') - (Age(i) + 1)] = processed[Len(processed) - Age(i)]
        BY <1>14, <4>1
      <4>3. processed[Len(processed) - Age(i)] = runs[i].order
        BY <1>2, <3>2, <4>2 DEF CommandInv, HistoryInv
      <4> QED BY <4>1, <4>2, <4>3
    <3> QED BY <1>7, <3>1, <3>2
  <2> QED BY <1>1, <1>14, <2>1, <2>2 DEF HistoryInv
<1>17. RedeliveryIgnored'
  <2> SUFFICES ASSUME NEW i \in DOMAIN runs', NEW j \in DOMAIN runs', i < j,
                      runs'[i].order = runs'[j].order
               PROVE  runs'[j].receipt - runs'[i].receipt > HistoryLimit
    BY DEF RedeliveryIgnored
  <2>1. i \in DOMAIN runs
    BY <1>1, <1>3, <1>7
  <2>2. CASE j \in DOMAIN runs
    BY <1>3, <2>1, <2>2 DEF CommandInv, RedeliveryIgnored
  <2>3. CASE j = n
    <3>1. runs[i].order = o /\ runs[i].receipt \in 1..receptions
      BY <1>3, <1>9, <2>1, <2>3 DEF CommandInv, HistoryInv
    <3>2. Len(processed) \in Nat /\ Len(processed) = HistoryLength
      BY <1>2 DEF CommandInv, HistoryInv
    <3>3. ~(Age(i) < Len(processed))
      <4> SUFFICES ASSUME Age(i) < Len(processed)  PROVE FALSE
        OBVIOUS
      <4>1. processed[Len(processed) - Age(i)] = o
        BY <1>2, <2>1, <3>1 DEF CommandInv, HistoryInv
      <4>2. Len(processed) - Age(i) \in DOMAIN processed
        <5>1. Age(i) \in Nat
          BY <1>1, <3>1 DEF Age
        <5> HIDE DEF Age
        <5>2. Len(processed) - Age(i) \in 1..Len(processed)
          BY <3>2, <5>1
        <5> QED BY <5>2 DEF CommandInv, HistoryInv
      <4> QED BY <1>2, <4>1, <4>2 DEF InHistory
    <3>4. receptions - runs[i].receipt >= HistoryLimit
      BY <1>1, <3>1, <3>2, <3>3 DEF Age, HistoryLength
    <3> QED BY <1>1, <1>3, <1>9, <2>1, <2>3, <3>1, <3>4
  <2> QED BY <1>7, <2>2, <2>3
<1> QED BY <1>6, <1>12, <1>13, <1>16, <1>17 DEF CommandInv, LineInv

(* The step of each action. *)
LEMMA CommandInvStep ==
    ASSUME HistoryLimit \in Nat, MaxRuns \in Nat, CommandInv, [CommandsNext]_commandVars
    PROVE  CommandInv'
<1>1. ASSUME UNCHANGED <<sent, runs, lastRun, processed, receptions>>,
             stop = "stopped" => stop' = "stopped"
      PROVE  CommandInv'
  <2>1. HistoryInv' /\ RedeliveryIgnored'
    BY <1>1, HistoryKept DEF CommandInv, LineInv
  <2>2. LineInv'
    BY <1>1 DEF CommandInv, LineInv, LineTypes, Lines, Waits, Predecessors, LineEnds, Tails, Chat, Sent, OneCommandAtATime
  <2> QED BY <2>1, <2>2 DEF CommandInv
<1>2. CASE Reconnect \/ StopProceeds \/ \E mode \in {"graceful", "forced"} : Stop(mode)
  BY <1>1, <1>2 DEF Reconnect, StopProceeds, Stop
<1>3. ASSUME NEW v \in Chats, AgentAsks(v)  PROVE CommandInv'
  BY <1>1, <1>3 DEF AgentAsks
<1>4. CASE UNCHANGED commandVars
  BY <1>1, <1>4 DEF commandVars
<1>5. ASSUME NEW v \in Chats, Decide(v) \/ DecideLate(v)  PROVE CommandInv'
  BY <1>5, DecisionKeeps DEF Decide, DecideLate
<1>6. ASSUME NEW o \in Orders, NEW order \in Order, Receive(o, order)  PROVE CommandInv'
  BY <1>6, ReceiveKeeps
<1>7. ASSUME NEW i, MayBegin(i), Done(i), UNCHANGED <<sent, processed, receptions, stop>>
      PROVE  CommandInv'
  <2>1. \A h \in DOMAIN runs : h < i /\ Chat(h) = Chat(i) => runs[h].stage = "done"
    BY <1>7, MayBeginAfterAll DEF CommandInv
  <2>2. i \in DOMAIN runs /\ runs[i].stage # "done"
    BY <1>7 DEF MayBegin
  <2> QED BY <1>7, <2>1, <2>2, MoveKeeps DEF Done
<1>8. ASSUME NEW i, MayBegin(i), runs' = [runs EXCEPT ![i].stage = "begun"],
             UNCHANGED <<sent, lastRun, processed, receptions, stop>>
      PROVE  CommandInv'
  <2>1. \A h \in DOMAIN runs : h < i /\ Chat(h) = Chat(i) => runs[h].stage = "done"
    BY <1>8, MayBeginAfterAll DEF CommandInv
  <2>2. i \in DOMAIN runs /\ runs[i].stage # "done"
    BY <1>8 DEF MayBegin
  <2> QED BY <1>8, <2>1, <2>2, MoveKeeps
<1>9. ASSUME NEW i, i \in DOMAIN runs, runs[i].stage = "begun", Done(i),
             UNCHANGED <<sent, processed, receptions, stop>>
      PROVE  CommandInv'
  <2>1. \A h \in DOMAIN runs : h < i /\ Chat(h) = Chat(i) => runs[h].stage = "done"
    BY <1>9 DEF CommandInv, LineInv, OneCommandAtATime
  <2> QED BY <1>9, <2>1, MoveKeeps DEF Done
<1>10. ASSUME NEW i, RunIgnored(i) \/ RunFails(i) \/ Cancel(i)  PROVE CommandInv'
  BY <1>7, <1>10 DEF RunIgnored, RunFails, Cancel
<1>11. ASSUME NEW i, StartBegins(i) \/ PromptBegins(i)  PROVE CommandInv'
  BY <1>8, <1>11 DEF StartBegins, PromptBegins
<1>12. ASSUME NEW i, StartEnds(i) \/ PromptEnds(i) \/ PromptBreaks(i)  PROVE CommandInv'
  BY <1>9, <1>12 DEF StartEnds, PromptEnds, PromptBreaks
<1>13. CASE StopEnds
  <2>1. \A i \in DOMAIN runs : runs[i].stage = "done"
    BY <1>13 DEF StopEnds, InProgress
  <2>2. /\ lastRun' = [v \in Chats |-> 0] /\ processed' = <<>> /\ stop' = "stopped"
        /\ UNCHANGED <<sent, runs, receptions>>
    BY <1>13 DEF StopEnds
  <2>3. HistoryInv' /\ RedeliveryIgnored'
    BY <2>2 DEF CommandInv, HistoryInv, RedeliveryIgnored
  <2>4. LineTypes' /\ OneCommandAtATime'
    BY <2>2 DEF CommandInv, LineInv, LineTypes, Sent, OneCommandAtATime, Chat
  <2>5. \A i \in DOMAIN runs : Chat(i)' = Chat(i) /\ Chat(i) \in Chats
    BY <2>2 DEF Chat, CommandInv, LineInv, LineTypes, Order
  <2>6. Lines'
    BY <2>1, <2>2, <2>5 DEF CommandInv, LineInv, Lines, Waits, Predecessors, LineEnds, Tails, Chat
  <2> QED BY <2>3, <2>4, <2>6 DEF CommandInv, LineInv
<1> QED
  BY <1>2, <1>3, <1>4, <1>5, <1>6, <1>10, <1>11, <1>12, <1>13 DEF CommandsNext

LEMMA CommandInvInit == ASSUME HistoryLimit \in Nat, MaxRuns \in Nat, CommandsInit  PROVE CommandInv
<1>1. Sent = {} /\ runs = <<>> /\ DOMAIN runs = {}
  BY DEF CommandsInit, Sent
<1>2. LineTypes
  BY <1>1 DEF CommandsInit, LineTypes, Sent
<1>3. Lines /\ OneCommandAtATime /\ RedeliveryIgnored
  BY <1>1 DEF CommandsInit, Lines, Waits, Predecessors, LineEnds, Tails, OneCommandAtATime, RedeliveryIgnored
<1>4. HistoryInv
  BY <1>1 DEF CommandsInit, HistoryInv, HistoryLength
<1> QED BY <1>2, <1>3, <1>4 DEF CommandInv, LineInv

(* Commands of a conversation are carried out one at a time and in the order *)
(* they came, and a command delivered again while it is in the history is    *)
(* ignored (enqueueCommand of runner.ts).                                    *)
THEOREM CommandsCarriedOutOnceInOrder ==
    ASSUME HistoryLimit \in Nat, MaxRuns \in Nat  PROVE CommandsSpec => []CommandsOnceInOrder
<1>1. CommandsInit => CommandInv
  BY CommandInvInit
<1>2. CommandInv /\ [CommandsNext]_commandVars => CommandInv'
  BY CommandInvStep
<1>3. CommandInv => CommandsOnceInOrder
  BY DEF CommandInv, LineInv, CommandsOnceInOrder
<1> QED BY <1>1, <1>2, <1>3, PTL DEF CommandsSpec

-----------------------------------------------------------------------------
(* The types of the state, and an account of the envelopes accepted.        *)

(* The permission requests that wait, one by one.  Each was one of the      *)
(* requests of the Agents, and a decision that is in time takes one away:   *)
(* so the envelopes accepted are bounded by what happened.                  *)
OpenAsks == {w \in Chats \X (1..MaxAsks) : w[2] <= approvals[w[1]]}

EnvelopeCount ==
  /\ IsFiniteSet(OpenAsks)
  /\ receptions + Cardinality(OpenAsks) <= Len(runs) + asks + late

StateTypes ==
  /\ processed \in Seq(Orders \cup {Decision}) /\ Len(processed) <= HistoryLimit
  /\ registered \in BOOLEAN
  /\ executor \in [Chats -> {"none", "starting", "open"}]
  /\ approvals \in [Chats -> 0..MaxAsks] /\ \A v \in Chats : approvals[v] <= asks
  /\ asks \in 0..MaxAsks /\ late \in 0..MaxLate
  /\ active \subseteq Chats
  /\ failedStarts \subseteq Chats
  /\ stop \in {"no", "graceful", "forced", "closing", "stopped"}

(* Fewer requests wait than before, or as many.                              *)
LEMMA WaitingShrinks ==
    ASSUME MaxAsks \in Nat, IsFiniteSet(OpenAsks), OpenAsks' \subseteq OpenAsks
    PROVE  IsFiniteSet(OpenAsks') /\ Cardinality(OpenAsks') <= Cardinality(OpenAsks)
           /\ Cardinality(OpenAsks') \in Nat /\ Cardinality(OpenAsks) \in Nat
<1>1. IsFiniteSet(OpenAsks') /\ Cardinality(OpenAsks') <= Cardinality(OpenAsks)
  BY FS_Subset
<1> QED BY <1>1, FS_CardinalityType

(* A request that is answered leaves, and one that is asked comes.           *)
LEMMA WaitingLosesOne ==
    ASSUME MaxAsks \in Nat, StateTypes, IsFiniteSet(OpenAsks), NEW v \in Chats, approvals[v] > 0,
           approvals' = [approvals EXCEPT ![v] = @ - 1]
    PROVE  /\ IsFiniteSet(OpenAsks') /\ Cardinality(OpenAsks') + 1 = Cardinality(OpenAsks)
           /\ Cardinality(OpenAsks') \in Nat /\ Cardinality(OpenAsks) \in Nat
<1> DEFINE last == <<v, approvals[v]>>
<1>1. approvals \in [Chats -> 0..MaxAsks]
  BY DEF StateTypes
<1>2. last \in OpenAsks
  BY <1>1 DEF OpenAsks
<1>3. ASSUME NEW w \in Chats \X (1..MaxAsks)
      PROVE  w \in OpenAsks' <=> w \in OpenAsks /\ w # last
  <2>1. PICK u \in Chats, n \in 1..MaxAsks : w = <<u, n>>
    OBVIOUS
  <2>2. approvals'[u] = IF u = v THEN approvals[v] - 1 ELSE approvals[u]
    BY <1>1
  <2>3. w \in OpenAsks' <=> n <= approvals'[u]
    BY <2>1 DEF OpenAsks
  <2>4. w \in OpenAsks <=> n <= approvals[u]
    BY <2>1 DEF OpenAsks
  <2>5. w # last <=> u # v \/ n # approvals[v]
    BY <2>1
  <2>6. approvals[v] \in 0..MaxAsks /\ approvals[u] \in 0..MaxAsks
    BY <1>1
  <2> HIDE DEF last
  <2> QED BY <2>2, <2>3, <2>4, <2>5, <2>6
<1>4. OpenAsks' = OpenAsks \ {last}
  BY <1>3 DEF OpenAsks
<1> HIDE DEF last
<1>5. IsFiniteSet(OpenAsks \ {last}) /\ Cardinality(OpenAsks \ {last}) = Cardinality(OpenAsks) - 1
  BY <1>2, FS_RemoveElement
<1>6. Cardinality(OpenAsks) \in Nat /\ Cardinality(OpenAsks') \in Nat
  BY <1>4, <1>5, FS_CardinalityType
<1> QED BY <1>4, <1>5, <1>6

LEMMA WaitingGainsOne ==
    ASSUME MaxAsks \in Nat, StateTypes, IsFiniteSet(OpenAsks), NEW v \in Chats, asks < MaxAsks,
           approvals' = [approvals EXCEPT ![v] = @ + 1]
    PROVE  /\ IsFiniteSet(OpenAsks') /\ Cardinality(OpenAsks') <= Cardinality(OpenAsks) + 1
           /\ Cardinality(OpenAsks') \in Nat /\ Cardinality(OpenAsks) \in Nat
<1> DEFINE new == <<v, approvals[v] + 1>>
<1>1. approvals \in [Chats -> 0..MaxAsks]
  BY DEF StateTypes
<1>2. ASSUME NEW w \in Chats \X (1..MaxAsks), w \in OpenAsks'
      PROVE  w \in OpenAsks \cup {new}
  <2>1. PICK u \in Chats, n \in 1..MaxAsks : w = <<u, n>>
    OBVIOUS
  <2>2. approvals'[u] = IF u = v THEN approvals[v] + 1 ELSE approvals[u]
    BY <1>1
  <2>3. n <= approvals'[u]
    BY <1>2, <2>1 DEF OpenAsks
  <2>4. w \in OpenAsks <=> n <= approvals[u]
    BY <2>1 DEF OpenAsks
  <2>5. u = v /\ n = approvals[v] + 1 => w = new
    BY <2>1
  <2>6. approvals[v] \in 0..MaxAsks /\ approvals[u] \in 0..MaxAsks
    BY <1>1
  <2> HIDE DEF new
  <2> QED BY <2>2, <2>3, <2>4, <2>5, <2>6
<1>3. OpenAsks' \subseteq OpenAsks \cup {new}
  BY <1>2 DEF OpenAsks
<1> HIDE DEF new
<1>4. /\ IsFiniteSet(OpenAsks \cup {new})
      /\ Cardinality(OpenAsks \cup {new}) = IF new \in OpenAsks THEN Cardinality(OpenAsks) ELSE Cardinality(OpenAsks) + 1
  BY FS_AddElement
<1>5. IsFiniteSet(OpenAsks') /\ Cardinality(OpenAsks') <= Cardinality(OpenAsks \cup {new})
  BY <1>3, <1>4, FS_Subset
<1>6. Cardinality(OpenAsks) \in Nat /\ Cardinality(OpenAsks') \in Nat
  BY <1>5, FS_CardinalityType
<1> QED BY <1>4, <1>5, <1>6

(* The history keeps its length and holds ids. *)
LEMMA RememberTypes ==
    ASSUME HistoryLimit \in Nat, processed \in Seq(Orders \cup {Decision}), Len(processed) <= HistoryLimit,
           NEW x \in Orders \cup {Decision}, Remember(x)
    PROVE  processed' \in Seq(Orders \cup {Decision}) /\ Len(processed') <= HistoryLimit
<1> DEFINE s == Append(processed, x)
<1>1. s \in Seq(Orders \cup {Decision}) /\ Len(s) = Len(processed) + 1 /\ s # <<>> /\ Len(processed) \in Nat
  OBVIOUS
<1>2. processed' = IF Len(s) > HistoryLimit THEN Tail(s) ELSE s
  BY DEF Remember
<1> HIDE DEF s
<1>3. Tail(s) \in Seq(Orders \cup {Decision}) /\ Len(Tail(s)) = Len(s) - 1
  BY <1>1
<1> QED BY <1>1, <1>2, <1>3

(* The bounds are numbers. *)
CommandLimits ==
  HistoryLimit \in Nat /\ MaxRuns \in Nat /\ MaxOrders \in Nat /\ MaxAsks \in Nat /\ MaxLate \in Nat

(* What the lines and the history say of the numbers.                        *)
LEMMA NumberFacts ==
    ASSUME CommandLimits, CommandInv, StateTypes, EnvelopeCount
    PROVE  /\ Len(runs) \in Nat /\ receptions \in Nat /\ asks \in Nat /\ late \in Nat
           /\ Cardinality(OpenAsks) \in Nat
           /\ \A i \in DOMAIN runs : Chat(i) \in Chats
<1>1. LineTypes /\ HistoryInv
  BY DEF CommandInv, LineInv
<1>2. Len(runs) \in Nat /\ \A i \in DOMAIN runs : Chat(i) \in Chats
  BY <1>1, RunFacts DEF CommandLimits
<1>3. receptions \in Nat
  BY <1>1 DEF HistoryInv
<1>4. asks \in Nat /\ late \in Nat
  BY DEF StateTypes, CommandLimits
<1>5. Cardinality(OpenAsks) \in Nat
  BY FS_CardinalityType DEF EnvelopeCount
<1> QED BY <1>2, <1>3, <1>4, <1>5

(* A run that moves on brings no request and takes none but those it cancels. *)
LEMMA MoveKeepsCount ==
    ASSUME CommandLimits, CommandInv, StateTypes, EnvelopeCount, Len(runs') = Len(runs),
           OpenAsks' \subseteq OpenAsks, UNCHANGED <<receptions, asks, late>>
    PROVE  EnvelopeCount'
<1>1. Len(runs) \in Nat /\ receptions \in Nat /\ asks \in Nat /\ late \in Nat
  BY NumberFacts
<1>2. IsFiniteSet(OpenAsks') /\ Cardinality(OpenAsks') <= Cardinality(OpenAsks)
      /\ Cardinality(OpenAsks') \in Nat /\ Cardinality(OpenAsks) \in Nat
  BY WaitingShrinks DEF EnvelopeCount, CommandLimits
<1> QED BY <1>1, <1>2 DEF EnvelopeCount

LEMMA FailedTypes ==
    ASSUME active \subseteq Chats, failedStarts \subseteq Chats, NEW v \in Chats,
           NEW isStart \in BOOLEAN, Failed(v, isStart)
    PROVE  active' \subseteq Chats /\ failedStarts' \subseteq Chats
<1>1. active' = active \ {v} \/ active' = active
  BY DEF Failed
<1>2. failedStarts' = failedStarts \cup {v} \/ failedStarts' = failedStarts
  BY DEF Failed
<1> QED BY <1>1, <1>2

(* The steps of the runs.                                                    *)
LEMMA RunStepTypes ==
    ASSUME CommandLimits, CommandInv, StateTypes, EnvelopeCount, NEW i \in 1..MaxRuns,
           \/ RunIgnored(i) \/ RunFails(i) \/ StartBegins(i) \/ StartEnds(i)
           \/ PromptBegins(i) \/ PromptEnds(i) \/ PromptBreaks(i) \/ Cancel(i)
    PROVE  StateTypes' /\ EnvelopeCount'
<1> DEFINE v == Chat(i)
<1>1. i \in DOMAIN runs
  BY DEF RunIgnored, RunFails, StartBegins, StartEnds, PromptBegins, PromptEnds, PromptBreaks, Cancel, MayBegin
<1>2. v \in Chats
  BY <1>1, NumberFacts
<1>3. runs \in Seq(AnyRun)
  BY DEF CommandInv, LineInv, LineTypes
<1>4. \E s \in {"begun", "done"} : runs' = [runs EXCEPT ![i].stage = s]
  BY DEF RunIgnored, RunFails, StartBegins, StartEnds, PromptBegins, PromptEnds, PromptBreaks, Cancel, Done
<1>5. Len(runs') = Len(runs)
  BY <1>3, <1>4
<1>6. UNCHANGED <<processed, receptions, registered, asks, late, stop>>
  BY DEF RunIgnored, RunFails, StartBegins, StartEnds, PromptBegins, PromptEnds, PromptBreaks, Cancel
<1> HIDE DEF v
<1>7. approvals' \in [Chats -> 0..MaxAsks] /\ \A u \in Chats : approvals'[u] <= approvals[u]
  <2>1. approvals \in [Chats -> 0..MaxAsks]
    BY DEF StateTypes
  <2>2. UNCHANGED approvals \/ \E n \in {approvals[v], 0} : approvals' = [approvals EXCEPT ![v] = n]
    BY DEF RunIgnored, RunFails, StartBegins, StartEnds, PromptBegins, PromptEnds, PromptBreaks, Cancel, v
  <2>3. CASE UNCHANGED approvals
    BY <2>1, <2>3 DEF CommandLimits
  <2>4. ASSUME NEW n \in {approvals[v], 0}, approvals' = [approvals EXCEPT ![v] = n]
        PROVE  approvals' \in [Chats -> 0..MaxAsks] /\ \A u \in Chats : approvals'[u] <= approvals[u]
    BY <1>2, <2>1, <2>4 DEF CommandLimits
  <2> QED BY <2>2, <2>3, <2>4
<1>8. OpenAsks' \subseteq OpenAsks
  BY <1>7 DEF OpenAsks, StateTypes, CommandLimits
<1>9. EnvelopeCount'
  BY <1>5, <1>6, <1>8, MoveKeepsCount
<1>10. executor' \in [Chats -> {"none", "starting", "open"}]
  <2>1. executor \in [Chats -> {"none", "starting", "open"}]
    BY DEF StateTypes
  <2>2. UNCHANGED executor
        \/ \E s \in {"none", "starting", "open"} : executor' = [executor EXCEPT ![v] = s]
    <3>1. executor[v] \in {"none", "starting", "open"}
      BY <1>2, <2>1
    <3> QED BY <3>1 DEF RunIgnored, RunFails, StartBegins, StartEnds, PromptBegins, PromptEnds,
                       PromptBreaks, Cancel, v
  <2> QED BY <1>2, <2>1, <2>2
<1>11. active' \subseteq Chats /\ failedStarts' \subseteq Chats
  <2>1. active \subseteq Chats /\ failedStarts \subseteq Chats
    BY DEF StateTypes
  <2>2. CASE RunFails(i) \/ PromptEnds(i) \/ PromptBreaks(i)
    <3>1. \E isStart \in BOOLEAN : Failed(v, isStart)
      BY <2>2 DEF RunFails, PromptEnds, PromptBreaks, v
    <3> QED BY <1>2, <2>1, <3>1, FailedTypes
  <2>3. CASE RunIgnored(i) \/ StartBegins(i) \/ PromptBegins(i) \/ Cancel(i)
    BY <2>1, <2>3 DEF RunIgnored, StartBegins, PromptBegins, Cancel
  <2>4. CASE StartEnds(i)
    <3>1. CASE Failed(v, TRUE)
      BY <1>2, <2>1, <3>1, FailedTypes
    <3>2. CASE ~Failed(v, TRUE)
      <4>1. active' \in {active \ {v}, active \cup {v}} /\ failedStarts' \in {failedStarts, failedStarts \cup {v}}
        BY <2>4, <3>2 DEF StartEnds, v
      <4> QED BY <1>2, <2>1, <4>1
    <3> QED BY <3>1, <3>2
  <2> QED BY <2>2, <2>3, <2>4
<1>12. \A u \in Chats : approvals'[u] <= asks'
  <2>1. \A u \in Chats : approvals'[u] \in 0..MaxAsks /\ approvals[u] \in 0..MaxAsks /\ approvals[u] <= asks
    BY <1>7 DEF StateTypes
  <2>2. asks \in Nat
    BY NumberFacts
  <2> QED BY <1>6, <1>7, <2>1, <2>2 DEF CommandLimits
<1>13. /\ processed' \in Seq(Orders \cup {Decision}) /\ Len(processed') <= HistoryLimit
       /\ registered' \in BOOLEAN
       /\ asks' \in 0..MaxAsks /\ late' \in 0..MaxLate
       /\ stop' \in {"no", "graceful", "forced", "closing", "stopped"}
  BY <1>6 DEF StateTypes
<1> QED BY <1>7, <1>9, <1>10, <1>11, <1>12, <1>13 DEF StateTypes

(* Every step keeps the types and the account of the envelopes.              *)
LEMMA StateStep ==
    ASSUME CommandLimits, CommandInv, StateTypes, EnvelopeCount, [CommandsNext]_commandVars
    PROVE  StateTypes' /\ EnvelopeCount'
<1>1. Len(runs) \in Nat /\ receptions \in Nat /\ asks \in Nat /\ late \in Nat
  BY NumberFacts
<1>2. ASSUME UNCHANGED <<runs, receptions, approvals, asks, late>>  PROVE EnvelopeCount'
  <2>1. OpenAsks' = OpenAsks
    BY <1>2 DEF OpenAsks
  <2> QED BY <1>2, <2>1, MoveKeepsCount
<1>3. CASE UNCHANGED commandVars
  BY <1>2, <1>3 DEF commandVars, StateTypes
<1>4. CASE Reconnect
  BY <1>2, <1>4 DEF Reconnect, StateTypes
<1>5. CASE StopEnds
  <2>1. processed' \in Seq(Orders \cup {Decision}) /\ Len(processed') <= HistoryLimit
    BY <1>5 DEF StopEnds, CommandLimits
  <2> QED BY <1>2, <1>5, <2>1 DEF StopEnds, StateTypes
<1>6. CASE StopProceeds
  <2>1. approvals' = [v \in Chats |-> 0] /\ UNCHANGED <<runs, receptions, asks, late>>
    BY <1>6 DEF StopProceeds
  <2>2. OpenAsks' \subseteq OpenAsks
    BY <2>1 DEF OpenAsks, CommandLimits
  <2>3. EnvelopeCount'
    BY <2>1, <2>2, MoveKeepsCount
  <2>4. approvals' \in [Chats -> 0..MaxAsks] /\ \A v \in Chats : approvals'[v] <= asks'
    BY <1>1, <2>1 DEF CommandLimits
  <2> QED BY <1>6, <2>3, <2>4 DEF StopProceeds, StateTypes
<1>7. ASSUME NEW mode \in {"graceful", "forced"}, Stop(mode)  PROVE StateTypes' /\ EnvelopeCount'
  BY <1>2, <1>7 DEF Stop, StateTypes
<1>8. ASSUME NEW v \in Chats, Decide(v)  PROVE StateTypes' /\ EnvelopeCount'
  <2>1. /\ approvals[v] > 0 /\ approvals' = [approvals EXCEPT ![v] = @ - 1] /\ Remember(Decision)
        /\ UNCHANGED <<runs, registered, executor, asks, late, active, failedStarts, stop>>
    BY <1>8 DEF Decide
  <2>2. receptions' = receptions + 1
    BY <2>1 DEF Remember
  <2>3. /\ IsFiniteSet(OpenAsks') /\ Cardinality(OpenAsks') + 1 = Cardinality(OpenAsks)
        /\ Cardinality(OpenAsks') \in Nat /\ Cardinality(OpenAsks) \in Nat
    BY <2>1, WaitingLosesOne DEF EnvelopeCount, CommandLimits
  <2>4. EnvelopeCount'
    BY <1>1, <2>1, <2>2, <2>3 DEF EnvelopeCount
  <2>5. processed' \in Seq(Orders \cup {Decision}) /\ Len(processed') <= HistoryLimit
    BY <2>1, RememberTypes DEF StateTypes, CommandLimits
  <2>6. approvals' \in [Chats -> 0..MaxAsks] /\ \A u \in Chats : approvals'[u] <= asks
    <3>1. approvals \in [Chats -> 0..MaxAsks] /\ \A u \in Chats : approvals[u] <= asks
      BY DEF StateTypes
    <3> QED BY <1>1, <2>1, <3>1 DEF CommandLimits
  <2> QED BY <2>1, <2>4, <2>5, <2>6 DEF StateTypes
<1>9. ASSUME NEW v \in Chats, DecideLate(v)  PROVE StateTypes' /\ EnvelopeCount'
  <2>1. /\ late < MaxLate /\ late' = late + 1 /\ Remember(Decision) /\ Failed(v, FALSE)
        /\ UNCHANGED <<runs, registered, executor, approvals, asks, stop>>
    BY <1>9 DEF DecideLate
  <2>2. receptions' = receptions + 1 /\ OpenAsks' = OpenAsks
    BY <2>1 DEF Remember, OpenAsks
  <2>3. EnvelopeCount'
    <3>1. Cardinality(OpenAsks) \in Nat
      BY NumberFacts
    <3> QED BY <1>1, <2>1, <2>2, <3>1 DEF EnvelopeCount
  <2>4. processed' \in Seq(Orders \cup {Decision}) /\ Len(processed') <= HistoryLimit
    BY <2>1, RememberTypes DEF StateTypes, CommandLimits
  <2>5. active' \subseteq Chats /\ failedStarts' \subseteq Chats
    BY <2>1, FailedTypes DEF StateTypes
  <2>6. late' \in 0..MaxLate
    BY <1>1, <2>1 DEF CommandLimits
  <2> QED BY <2>1, <2>3, <2>4, <2>5, <2>6 DEF StateTypes
<1>10. ASSUME NEW v \in Chats, AgentAsks(v)  PROVE StateTypes' /\ EnvelopeCount'
  <2>1. /\ asks < MaxAsks /\ asks' = asks + 1 /\ approvals' = [approvals EXCEPT ![v] = @ + 1]
        /\ UNCHANGED <<runs, processed, receptions, registered, executor, late, active, failedStarts, stop>>
    BY <1>10 DEF AgentAsks
  <2>2. /\ IsFiniteSet(OpenAsks') /\ Cardinality(OpenAsks') <= Cardinality(OpenAsks) + 1
        /\ Cardinality(OpenAsks') \in Nat /\ Cardinality(OpenAsks) \in Nat
    BY <2>1, WaitingGainsOne DEF EnvelopeCount, CommandLimits
  <2>3. EnvelopeCount'
    BY <1>1, <2>1, <2>2 DEF EnvelopeCount
  <2>4. asks' \in 0..MaxAsks /\ approvals' \in [Chats -> 0..MaxAsks] /\ \A u \in Chats : approvals'[u] <= asks'
    <3>1. approvals \in [Chats -> 0..MaxAsks] /\ \A u \in Chats : approvals[u] <= asks
      BY DEF StateTypes
    <3> QED BY <1>1, <2>1, <3>1 DEF CommandLimits
  <2> QED BY <2>1, <2>3, <2>4 DEF StateTypes
<1>11. ASSUME NEW o \in Orders, NEW order \in Order, Receive(o, order)  PROVE StateTypes' /\ EnvelopeCount'
  <2>1. /\ Remember(o) /\ \E r \in AnyRun : runs' = Append(runs, r)
        /\ UNCHANGED <<registered, executor, approvals, asks, late, active, failedStarts, stop>>
    <3>1. lastRun[order.chat] \in 0..MaxRuns
      BY DEF Order, CommandInv, LineInv, LineTypes
    <3>2. [order |-> o, after |-> lastRun[order.chat], receipt |-> receptions + 1, stage |-> "queued"] \in AnyRun
      BY <1>1, <3>1 DEF AnyRun
    <3> QED BY <1>11, <3>2 DEF Receive
  <2>2. receptions' = receptions + 1 /\ OpenAsks' = OpenAsks
    BY <2>1 DEF Remember, OpenAsks
  <2>3. Len(runs') = Len(runs) + 1
    <3>1. runs \in Seq(AnyRun)
      BY DEF CommandInv, LineInv, LineTypes
    <3> QED BY <2>1, <3>1
  <2>4. EnvelopeCount'
    <3>1. Cardinality(OpenAsks) \in Nat
      BY NumberFacts
    <3> QED BY <1>1, <2>1, <2>2, <2>3, <3>1 DEF EnvelopeCount
  <2>5. processed' \in Seq(Orders \cup {Decision}) /\ Len(processed') <= HistoryLimit
    BY <2>1, RememberTypes DEF StateTypes, CommandLimits
  <2> QED BY <2>1, <2>4, <2>5 DEF StateTypes
<1>12. ASSUME NEW i \in 1..MaxRuns,
              \/ RunIgnored(i) \/ RunFails(i) \/ StartBegins(i) \/ StartEnds(i)
              \/ PromptBegins(i) \/ PromptEnds(i) \/ PromptBreaks(i) \/ Cancel(i)
       PROVE  StateTypes' /\ EnvelopeCount'
  BY <1>12, RunStepTypes
<1> QED BY <1>3, <1>4, <1>5, <1>6, <1>7, <1>8, <1>9, <1>10, <1>11, <1>12 DEF CommandsNext

(* The runs, their lines, the history, the executor and the permission       *)
(* requests keep their types; an accepted envelope is a run, a decision in   *)
(* time or one that was late, so no more are accepted than these (the Maps   *)
(* and the processed-command list of runner.ts).                             *)
THEOREM CommandsTypeCorrect == ASSUME CommandLimits  PROVE CommandsSpec => []CommandsTypeOK
<1>1. CommandsInit => CommandInv /\ StateTypes /\ EnvelopeCount
  <2> SUFFICES ASSUME CommandsInit  PROVE CommandInv /\ StateTypes /\ EnvelopeCount
    OBVIOUS
  <2>1. CommandInv
    BY CommandInvInit DEF CommandLimits
  <2>2. StateTypes
    BY DEF CommandsInit, StateTypes, CommandLimits
  <2>3. OpenAsks = {}
    BY DEF CommandsInit, OpenAsks, CommandLimits
  <2>4. EnvelopeCount
    BY <2>3, FS_EmptySet DEF CommandsInit, EnvelopeCount
  <2> QED BY <2>1, <2>2, <2>4
<1>2. CommandInv /\ StateTypes /\ EnvelopeCount /\ [CommandsNext]_commandVars
        => (CommandInv /\ StateTypes /\ EnvelopeCount)'
  BY CommandInvStep, StateStep DEF CommandLimits
<1>3. CommandInv /\ StateTypes /\ EnvelopeCount => CommandsTypeOK
  <2> SUFFICES ASSUME CommandInv, StateTypes, EnvelopeCount  PROVE CommandsTypeOK
    OBVIOUS
  <2>1. LineTypes /\ HistoryInv
    BY DEF CommandInv, LineInv
  <2>2. /\ Len(runs) \in Nat /\ receptions \in Nat /\ asks \in 0..MaxAsks /\ late \in 0..MaxLate
        /\ Cardinality(OpenAsks) \in Nat
    BY NumberFacts DEF StateTypes
  <2>3. Len(runs) <= MaxRuns /\ receptions + Cardinality(OpenAsks) <= Len(runs) + asks + late
    BY <2>1 DEF LineTypes, EnvelopeCount
  <2>4. receptions \in 0..Receptions /\ Receptions \in Nat
    BY <2>2, <2>3 DEF Receptions, CommandLimits
  <2>5. \A i \in DOMAIN runs : runs[i] \in Run
    <3>1. \A i \in DOMAIN runs : runs[i] \in AnyRun /\ runs[i].receipt \in 1..receptions
      BY <2>1, RunFacts DEF HistoryInv, CommandLimits
    <3>2. \A i \in DOMAIN runs : runs[i].receipt \in 1..Receptions
      BY <2>2, <2>4, <3>1
    <3> QED BY <3>1, <3>2 DEF AnyRun, Run
  <2>6. runs \in Seq(Run)
    BY <2>1, <2>5 DEF LineTypes
  <2> QED BY <2>1, <2>4, <2>6 DEF CommandsTypeOK, LineTypes, StateTypes
<1> QED BY <1>1, <1>2, <1>3, PTL DEF CommandsSpec

-----------------------------------------------------------------------------
(* Proofs about ToolBroker: no call of a HostTool is left without an       *)
(* answer, whichever of renderer, handler, timer, abort, configuration,    *)
(* removal and shutdown comes first, for any number of conversations,      *)
(* calls and revisions and any limit of the table.                         *)
(*                                                                         *)
(* The invariant adds to the property the types and that the table is      *)
(* finite, which its limit needs.                                          *)

(* What the operations preserve. *)
BrokerInv == BrokerTypeOK /\ IsFiniteSet(Waiting) /\ CallsAccountedFor

(* Each way to settle calls takes them out of the table with their timers.  *)
LEMMA SettleShrinks ==
    ASSUME MaxPending \in Nat, BrokerInv, NEW calls, NEW outcome \in Outcomes,
           Settle(calls, outcome)
    PROVE  /\ Waiting' = Waiting \ calls
           /\ \A c \in Waiting' : pending'[c] = pending[c]
           /\ pending' \in [Waiting' -> Scope] /\ Waiting' \subseteq ToolCalls
           /\ timers' = timers \ calls
           /\ IsFiniteSet(Waiting') /\ Cardinality(Waiting') <= MaxPending
           /\ answers' = [c \in ToolCalls |-> IF c \in calls THEN outcome ELSE answers[c]]
           /\ answers' \in [ToolCalls -> Outcomes \cup {"new", "waiting"}]
<1>1. /\ Waiting' = Waiting \ calls
      /\ \A c \in Waiting' : pending'[c] = pending[c]
      /\ timers' = timers \ calls
      /\ answers' = [c \in ToolCalls |-> IF c \in calls THEN outcome ELSE answers[c]]
  BY DEF Settle, Waiting
<1>2. pending' \in [Waiting' -> Scope] /\ Waiting' \subseteq ToolCalls
  BY <1>1 DEF BrokerInv, BrokerTypeOK, Settle, Waiting
<1>3. answers' \in [ToolCalls -> Outcomes \cup {"new", "waiting"}]
  BY <1>1 DEF BrokerInv, BrokerTypeOK
<1>4. IsFiniteSet(Waiting') /\ Cardinality(Waiting') <= Cardinality(Waiting)
  BY <1>1, FS_Subset DEF BrokerInv
<1>5. Cardinality(Waiting) \in Nat /\ Cardinality(Waiting') \in Nat
  BY <1>4, FS_CardinalityType DEF BrokerInv
<1>6. Cardinality(Waiting') <= MaxPending
  BY <1>4, <1>5 DEF BrokerInv, CallsAccountedFor, NoCallIsStranded
<1> QED BY <1>1, <1>2, <1>3, <1>4, <1>6

(* Failing the calls of some conversations, while their scopes change or    *)
(* are taken away, keeps the invariant.                                     *)
LEMMA CancelKeeps ==
    ASSUME MaxPending \in Nat, BrokerInv, NEW owners \in SUBSET Owners, CancelPending(owners),
           scopes' \in [Owners -> 0..MaxRevision],
           \A o \in Owners \ owners : scopes'[o] = scopes[o],
           nextRevision' \in 1..(MaxRevision + 1),
           brokerShutDown' \in BOOLEAN,
           brokerShutDown' => brokerShutDown \/ \A o \in Owners \ owners : scopes[o] = 0,
           UNCHANGED <<handles, executing>>
    PROVE  BrokerInv'
<1> DEFINE calls == PendingOf(owners)
<1>1. Settle(calls, "failure") /\ aborted' = aborted \cup (calls \cap executing)
  BY DEF CancelPending, SettleFailure
<1>2. "failure" \in Outcomes
  BY DEF Outcomes
<1> HIDE DEF calls
<1>3. /\ Waiting' = Waiting \ calls
      /\ \A c \in Waiting' : pending'[c] = pending[c]
      /\ pending' \in [Waiting' -> Scope] /\ Waiting' \subseteq ToolCalls
      /\ timers' = timers \ calls
      /\ IsFiniteSet(Waiting') /\ Cardinality(Waiting') <= MaxPending
      /\ answers' = [c \in ToolCalls |-> IF c \in calls THEN "failure" ELSE answers[c]]
      /\ answers' \in [ToolCalls -> Outcomes \cup {"new", "waiting"}]
  BY <1>1, <1>2, SettleShrinks
<1>4. BrokerTypeOK'
  BY <1>1, <1>3 DEF BrokerInv, BrokerTypeOK
<1>5. calls \subseteq Waiting /\ \A c \in Waiting \ calls : pending[c].owner \in Owners \ owners
  BY DEF calls, PendingOf, BrokerInv, BrokerTypeOK, Scope
<1>6. \A c \in Waiting' : c \in timers' /\ IsCurrent(pending[c])'
  BY <1>3, <1>5 DEF BrokerInv, CallsAccountedFor, NoCallIsStranded, IsCurrent
<1>7. \A c \in ToolCalls : answers'[c] = "waiting" <=> c \in Waiting'
  BY <1>3 DEF BrokerInv, CallsAccountedFor, NoCallIsStranded
<1>8. brokerShutDown' => Waiting' = {}
  <2> SUFFICES ASSUME brokerShutDown', NEW c \in Waiting'  PROVE FALSE
    OBVIOUS
  <2>1. pending[c].owner \in Owners \ owners /\ pending[c].revision \in 1..MaxRevision
    BY <1>3, <1>5 DEF BrokerInv, BrokerTypeOK, Scope
  <2>2. scopes[pending[c].owner] = pending[c].revision
    BY <1>3 DEF BrokerInv, CallsAccountedFor, NoCallIsStranded, IsCurrent
  <2> QED BY <1>3, <2>1, <2>2 DEF BrokerInv, CallsAccountedFor, NoCallIsStranded
<1>9. AbandonedHandlersAborted'
  BY <1>1, <1>3 DEF BrokerInv, CallsAccountedFor, AbandonedHandlersAborted
<1> QED
  BY <1>3, <1>4, <1>6, <1>7, <1>8, <1>9 DEF BrokerInv, CallsAccountedFor, NoCallIsStranded

(* Answering one call keeps the invariant when its handler, if one works on *)
(* it, is done or told to stop.                                             *)
LEMMA AnswerKeeps ==
    ASSUME MaxPending \in Nat, BrokerInv, NEW calls, NEW outcome \in Outcomes,
           Settle(calls, outcome),
           calls \subseteq Waiting,
           executing' \subseteq executing, aborted' \subseteq executing',
           \A c \in executing' : c \in aborted \/ c \in calls => c \in aborted',
           UNCHANGED <<scopes, nextRevision, handles, brokerShutDown>>
    PROVE  BrokerInv'
<1>1. /\ Waiting' = Waiting \ calls
      /\ \A c \in Waiting' : pending'[c] = pending[c]
      /\ pending' \in [Waiting' -> Scope] /\ Waiting' \subseteq ToolCalls
      /\ timers' = timers \ calls
      /\ IsFiniteSet(Waiting') /\ Cardinality(Waiting') <= MaxPending
      /\ answers' = [c \in ToolCalls |-> IF c \in calls THEN outcome ELSE answers[c]]
      /\ answers' \in [ToolCalls -> Outcomes \cup {"new", "waiting"}]
  BY SettleShrinks
<1>2. BrokerTypeOK'
  BY <1>1 DEF BrokerInv, BrokerTypeOK
<1>3. \A c \in Waiting' : c \in timers' /\ IsCurrent(pending[c])'
  BY <1>1 DEF BrokerInv, CallsAccountedFor, NoCallIsStranded, IsCurrent
<1>4. \A c \in ToolCalls : answers'[c] = "waiting" <=> c \in Waiting'
  BY <1>1 DEF BrokerInv, CallsAccountedFor, NoCallIsStranded, Outcomes
<1>5. brokerShutDown' => Waiting' = {}
  BY <1>1 DEF BrokerInv, CallsAccountedFor, NoCallIsStranded
<1>6. AbandonedHandlersAborted'
  BY <1>1 DEF BrokerInv, CallsAccountedFor, AbandonedHandlersAborted
<1> QED
  BY <1>1, <1>2, <1>3, <1>4, <1>5, <1>6 DEF BrokerInv, CallsAccountedFor, NoCallIsStranded

(* The step of each operation. *)
LEMMA BrokerInvStep ==
    ASSUME MaxPending \in Nat, MaxRevision \in Nat, BrokerInv, [BrokerNext]_brokerVars
    PROVE  BrokerInv'
<1> USE DEF BrokerInv
<1>1. ASSUME NEW o \in Owners, ConfigureConversation(o)  PROVE BrokerInv'
  <2>1. scopes' \in [Owners -> 0..MaxRevision] /\ \A p \in Owners \ {o} : scopes'[p] = scopes[p]
    BY <1>1 DEF ConfigureConversation, BrokerTypeOK
  <2>2. nextRevision' \in 1..(MaxRevision + 1)
    BY <1>1 DEF ConfigureConversation, BrokerTypeOK
  <2>3. /\ CancelPending({o}) /\ brokerShutDown' \in BOOLEAN /\ brokerShutDown' = brokerShutDown
        /\ UNCHANGED <<handles, executing>>
    BY <1>1 DEF ConfigureConversation, BrokerTypeOK
  <2> QED BY <2>1, <2>2, <2>3, CancelKeeps
<1>2. ASSUME NEW o \in Owners, OpenScope(o)  PROVE BrokerInv'
  <2>1. Waiting' = Waiting /\ [owner |-> o, revision |-> scopes[o]] \in Scope
    BY <1>2 DEF OpenScope, BrokerTypeOK, Waiting, Scope
  <2> QED BY <1>2, <2>1 DEF OpenScope, BrokerTypeOK, CallsAccountedFor, NoCallIsStranded, IsCurrent,
                            AbandonedHandlersAborted
<1>3. ASSUME NEW o \in Owners, CancelConversation(o)  PROVE BrokerInv'
  BY <1>3, CancelKeeps DEF CancelConversation, BrokerTypeOK
<1>4. ASSUME NEW o \in Owners, RemoveConversation(o)  PROVE BrokerInv'
  <2>1. scopes' \in [Owners -> 0..MaxRevision] /\ \A p \in Owners \ {o} : scopes'[p] = scopes[p]
    BY <1>4 DEF RemoveConversation, BrokerTypeOK
  <2> QED BY <1>4, <2>1, CancelKeeps DEF RemoveConversation, BrokerTypeOK
<1>5. ASSUME ShutdownBroker  PROVE BrokerInv'
  <2> DEFINE owners == {o \in Owners : scopes[o] # 0}
  <2>1. scopes' \in [Owners -> 0..MaxRevision] /\ \A p \in Owners \ owners : scopes'[p] = scopes[p]
    BY <1>5 DEF ShutdownBroker, BrokerTypeOK
  <2>2. CancelPending(owners) /\ brokerShutDown' = TRUE
        /\ UNCHANGED <<nextRevision, handles, executing>>
    BY <1>5 DEF ShutdownBroker
  <2>3. \A p \in Owners \ owners : scopes[p] = 0
    OBVIOUS
  <2>4. owners \in SUBSET Owners /\ nextRevision' \in 1..(MaxRevision + 1)
    BY <2>2 DEF BrokerTypeOK
  <2> HIDE DEF owners
  <2> QED BY <2>1, <2>2, <2>3, <2>4, CancelKeeps
<1>6. ASSUME NEW c \in ToolCalls, NEW h \in handles, CallRefused(h, c)  PROVE BrokerInv'
  <2>1. Waiting' = Waiting /\ answers' \in [ToolCalls -> Outcomes \cup {"new", "waiting"}]
    BY <1>6 DEF CallRefused, BrokerTypeOK, Waiting, Outcomes
  <2>2. BrokerTypeOK'
    BY <1>6, <2>1 DEF CallRefused, BrokerTypeOK
  <2> QED BY <1>6, <2>1, <2>2 DEF CallRefused, BrokerTypeOK, CallsAccountedFor, NoCallIsStranded, IsCurrent,
                            AbandonedHandlersAborted
<1>7. ASSUME NEW c \in ToolCalls, NEW h \in handles, CallStarted(h, c)  PROVE BrokerInv'
  <2>1. /\ Waiting' = Waiting \cup {c} /\ c \notin Waiting
        /\ pending'[c] = h /\ \A d \in Waiting : pending'[d] = pending[d]
    BY <1>7 DEF CallStarted, Waiting, CallsAccountedFor, NoCallIsStranded
  <2>2. IsFiniteSet(Waiting') /\ Cardinality(Waiting') = Cardinality(Waiting) + 1
    BY <2>1, FS_AddElement
  <2>3. Cardinality(Waiting) \in Nat
    BY FS_CardinalityType
  <2>4. Cardinality(Waiting') <= MaxPending
    BY <1>7, <2>2, <2>3 DEF CallStarted, HasRoom
  <2>5. pending' \in [Waiting' -> Scope] /\ Waiting' \subseteq ToolCalls
    <3>1. h \in Scope /\ \A d \in Waiting : pending[d] \in Scope
      BY DEF BrokerTypeOK
    <3> QED BY <1>7, <2>1, <3>1 DEF CallStarted, BrokerTypeOK, Waiting
  <2>6. answers' \in [ToolCalls -> Outcomes \cup {"new", "waiting"}]
    BY <1>7 DEF CallStarted, BrokerTypeOK, Outcomes
  <2>7. BrokerTypeOK'
    BY <1>7, <2>5, <2>6 DEF CallStarted, BrokerTypeOK
  <2>8. NoCallIsStranded'
    BY <1>7, <2>1, <2>4 DEF CallStarted, BrokerTypeOK, CallsAccountedFor, NoCallIsStranded, IsCurrent
  <2>9. AbandonedHandlersAborted'
    BY <1>7, <2>1 DEF CallStarted, CallsAccountedFor, AbandonedHandlersAborted
  <2> QED BY <2>2, <2>7, <2>8, <2>9 DEF CallsAccountedFor
<1>8. ASSUME NEW c \in ToolCalls, NEW o \in Owners, RendererResolves(o, c)  PROVE BrokerInv'
  <2>1. PICK outcome \in Outcomes : Settle({c}, outcome)
    BY <1>8 DEF RendererResolves
  <2> QED BY <1>8, <2>1, AnswerKeeps DEF RendererResolves, BrokerTypeOK
<1>9. ASSUME NEW c \in ToolCalls, HandlerReturns(c)  PROVE BrokerInv'
  <2>1. CASE c \in Waiting
    <3>1. PICK outcome \in Outcomes : Settle({c}, outcome)
      BY <1>9, <2>1 DEF HandlerReturns
    <3>2. /\ executing' \subseteq executing /\ aborted' \subseteq executing'
          /\ \A d \in executing' : d \in aborted \/ d \in {c} => d \in aborted'
          /\ UNCHANGED <<scopes, nextRevision, handles, brokerShutDown>>
      BY <1>9 DEF HandlerReturns, BrokerTypeOK
    <3> QED BY <2>1, <3>1, <3>2, AnswerKeeps
  <2>2. CASE c \notin Waiting
    <3>1. Waiting' = Waiting
      BY <1>9, <2>2 DEF HandlerReturns, Waiting
    <3>2. UNCHANGED <<pending, timers, answers>>
      BY <1>9, <2>2 DEF HandlerReturns
    <3> QED BY <1>9, <2>2, <3>1, <3>2 DEF HandlerReturns, BrokerTypeOK, CallsAccountedFor, NoCallIsStranded,
                                          IsCurrent, AbandonedHandlersAborted
  <2> QED BY <2>1, <2>2
<1>10. ASSUME NEW calls, calls \subseteq Waiting, SettleFailure(calls),
              UNCHANGED <<scopes, nextRevision, handles, executing, brokerShutDown>>
       PROVE  BrokerInv'
  <2>1. "failure" \in Outcomes /\ Settle(calls, "failure")
        /\ aborted' = aborted \cup (calls \cap executing)
    BY <1>10 DEF SettleFailure, Outcomes
  <2> QED BY <1>10, <2>1, AnswerKeeps DEF BrokerTypeOK
<1>11. ASSUME NEW c \in ToolCalls, TimerFires(c)  PROVE BrokerInv'
  BY <1>10, <1>11 DEF TimerFires
<1>12. ASSUME NEW c \in ToolCalls, RequestAborted(c)  PROVE BrokerInv'
  BY <1>10, <1>12 DEF RequestAborted
<1>13. ASSUME UNCHANGED brokerVars  PROVE BrokerInv'
  BY <1>13 DEF brokerVars, BrokerTypeOK, CallsAccountedFor, NoCallIsStranded, IsCurrent,
              AbandonedHandlersAborted, Waiting
<1> QED
  BY <1>1, <1>2, <1>3, <1>4, <1>5, <1>6, <1>7, <1>8, <1>9, <1>11, <1>12, <1>13 DEF BrokerNext

LEMMA BrokerInvInit ==
    ASSUME MaxPending \in Nat, MaxRevision \in Nat, BrokerInit  PROVE BrokerInv
<1>1. Waiting = {}
  BY DEF BrokerInit, Waiting
<1>2. IsFiniteSet(Waiting) /\ Cardinality(Waiting) = 0
  BY <1>1, FS_EmptySet
<1>3. pending \in [Waiting -> Scope]
  BY <1>1 DEF BrokerInit
<1>4. scopes \in [Owners -> 0..MaxRevision] /\ nextRevision \in 1..(MaxRevision + 1)
  BY DEF BrokerInit
<1>5. answers \in [ToolCalls -> Outcomes \cup {"new", "waiting"}] /\ brokerShutDown \in BOOLEAN
  BY DEF BrokerInit
<1>6. handles \subseteq Scope /\ timers \subseteq ToolCalls /\ executing \subseteq ToolCalls
      /\ aborted \subseteq executing
  BY DEF BrokerInit
<1>7. BrokerTypeOK
  BY <1>1, <1>3, <1>4, <1>5, <1>6 DEF BrokerTypeOK
<1> QED BY <1>1, <1>2, <1>7 DEF BrokerInit, BrokerInv, CallsAccountedFor, NoCallIsStranded,
                                AbandonedHandlersAborted

(* The types of the broker's state. *)
THEOREM BrokerTypeCorrect ==
    ASSUME MaxPending \in Nat, MaxRevision \in Nat  PROVE BrokerSpec => []BrokerTypeOK
<1>1. BrokerInit => BrokerInv
  BY BrokerInvInit
<1>2. BrokerInv /\ [BrokerNext]_brokerVars => BrokerInv'
  BY BrokerInvStep
<1>3. BrokerInv => BrokerTypeOK
  BY DEF BrokerInv
<1> QED BY <1>1, <1>2, <1>3, PTL DEF BrokerSpec

(* Every call that waits has a scope, a timer and a place within the limit, *)
(* and every handler whose call was answered without it is told to stop     *)
(* (call, settle, cancelPending of toolBroker.ts).                          *)
THEOREM EveryCallAccountedFor ==
    ASSUME MaxPending \in Nat, MaxRevision \in Nat  PROVE BrokerSpec => []CallsAccountedFor
<1>1. BrokerInit => BrokerInv
  BY BrokerInvInit
<1>2. BrokerInv /\ [BrokerNext]_brokerVars => BrokerInv'
  BY BrokerInvStep
<1>3. BrokerInv => CallsAccountedFor
  BY DEF BrokerInv
<1> QED BY <1>1, <1>2, <1>3, PTL DEF BrokerSpec

-----------------------------------------------------------------------------
(* Proofs about McpAttachment: one relay at most is ever served, and an    *)
(* attachment that reports its end has left nothing behind, for any number *)
(* of relays, strangers and connection attempts.                           *)
(*                                                                         *)
(* The invariant has a part for each side.  The relays: who holds the      *)
(* credential has deleted it.  The desktop: nobody is served while the     *)
(* attachment waits, and the stages of cleanup() accumulate what is gone.  *)

Holds(p) == relay[p] \in {"holds", "connected", "relaying"}
Served(p) == sockets[p].step \in {"connecting", "writing", "unlinking"}
SocketMap == [Peers -> [end : Ends, step : Steps]]

(* The relays and the file they race for. *)
RelayInv ==
  /\ credential \in BOOLEAN
  /\ relay \in [Peers -> {"new", "checked", "read", "holds", "connected", "relaying", "failed"}]
  /\ \A p, q \in Relays : Holds(p) /\ Holds(q) => p = q
  /\ \A p \in Relays : Holds(p) => ~credential

(* The attachment, its sockets and its server. *)
DesktopInv ==
  /\ attachment \in {"waiting", "attaching", "attached", "failed", "closed"}
  /\ ready \in {"pending", "resolved", "rejected"}
  /\ attachTimer \in BOOLEAN /\ listening \in BOOLEAN
  /\ sockets \in SocketMap
  /\ server \in {"new", "connected", "closed"}
  /\ cleanup \in {"no", "server", "listener", "files", "resolved", "rejected"}
  /\ \A p, q \in Peers : Served(p) /\ Served(q) => p = q
  /\ attachment = "waiting" => \A p \in Peers : ~Served(p)
  /\ \A p \in Peers : sockets[p].step \in {"writing", "unlinking"} => server # "new"
  /\ ready = "resolved" => server # "new" /\ ~credential /\ attachment \in {"attached", "closed"}

(* How far cleanup() is. *)
CleanupInv ==
  /\ cleanup = "no" <=> attachment \in {"waiting", "attaching", "attached"}
  /\ cleanup # "no" => /\ ~listening /\ ~attachTimer /\ ready # "pending"
                       /\ \A p \in Peers : sockets[p].end # "open"
  /\ cleanup \in {"listener", "files", "resolved", "rejected"} => server = "closed"
  /\ cleanup \in {"files", "resolved", "rejected"} =>
       \A p \in Peers : sockets[p].end \in {"none", "closed"}

AttachmentInv == RelayInv /\ attempts \in 0..MaxAttempts /\ DesktopInv /\ CleanupInv

(* Sockets f follow from the present ones without serving or opening any.   *)
Tame(f) ==
  /\ f \in SocketMap
  /\ \A p \in Peers :
       /\ f[p].step \in {"connecting", "writing", "unlinking"} => Served(p)
       /\ f[p].step \in {"writing", "unlinking"} => server' # "new"
       /\ f[p].end = "open" => sockets[p].end = "open"
       /\ sockets[p].end \in {"none", "closed"} => f[p].end \in {"none", "closed"}

(* The server only moves on, and the credential does not come back. *)
Forward ==
  /\ server' \in {"new", "connected", "closed"}
  /\ server # "new" => server' # "new"
  /\ server = "closed" => server' = "closed"
  /\ credential' => credential

LEMMA CarryKeeps ==
    ASSUME DesktopInv, CleanupInv, NEW f, Tame(f), Forward, Carry(f)
    PROVE  DesktopInv' /\ CleanupInv'
<1>1. DesktopInv'
  BY DEF DesktopInv, Tame, Forward, Carry, Served
<1>2. CleanupInv'
  BY DEF CleanupInv, DesktopInv, Tame, Forward, Carry
<1> QED BY <1>1, <1>2

LEMMA TearDownKeeps ==
    ASSUME DesktopInv, CleanupInv, NEW f, Tame(f), Forward, NEW state \in {"failed", "closed"},
           TearDown(state, f), cleanup = "no",
           state = "failed" => ready # "resolved"
    PROVE  DesktopInv' /\ CleanupInv'
<1>1. /\ sockets' \in SocketMap
      /\ \A p \in Peers : sockets'[p].step = f[p].step /\ sockets'[p].end # "open"
  BY DEF TearDown, Destroyed, Tame, SocketMap, Ends, Steps
<1>2. DesktopInv'
  BY <1>1 DEF DesktopInv, Tame, Forward, TearDown, Served
<1>3. CleanupInv'
  BY <1>1 DEF CleanupInv, DesktopInv, TearDown
<1> QED BY <1>2, <1>3

LEMMA FailKeeps ==
    ASSUME DesktopInv, CleanupInv, NEW f, Tame(f), Forward, Fail(f)
    PROVE  DesktopInv' /\ CleanupInv'
<1>1. CASE attachment \in {"waiting", "attaching"}
  <2>1. TearDown("failed", f) /\ cleanup = "no" /\ ready # "resolved"
    BY <1>1 DEF Fail, CleanupInv, DesktopInv
  <2> QED BY <2>1, TearDownKeeps
<1>2. CASE attachment \notin {"waiting", "attaching"}
  BY <1>2, CarryKeeps DEF Fail
<1> QED BY <1>1, <1>2

LEMMA HandshakeFailsKeeps ==
    ASSUME DesktopInv, CleanupInv, NEW p \in Peers, Forward, HandshakeFails(p)
    PROVE  DesktopInv' /\ CleanupInv'
<1> DEFINE f == [sockets EXCEPT ![p].step = "done",
                                ![p].end = IF @ = "open" THEN "destroyed" ELSE @]
<1>1. f \in SocketMap /\ \A q \in Peers : q # p => f[q] = sockets[q]
  BY DEF DesktopInv, SocketMap, Ends, Steps
<1>2. f[p].step = "done" /\ f[p].end = IF sockets[p].end = "open" THEN "destroyed" ELSE sockets[p].end
  BY DEF DesktopInv, SocketMap
<1>3. Fail(f) \/ Carry(f)
  BY DEF HandshakeFails
<1> HIDE DEF f
<1>4. Tame(f)
  BY <1>1, <1>2 DEF Tame, DesktopInv, Served, Forward
<1> QED BY <1>3, <1>4, FailKeeps, CarryKeeps

(* A relay that fails breaks its connection, and holds nothing any more.    *)
LEMMA RelayFailsKeeps ==
    ASSUME AttachmentInv, NEW p \in Peers, RelayFails(p), credential' \in BOOLEAN,
           credential' => credential,
           UNCHANGED <<attachment, ready, attachTimer, listening, attempts, server, cleanup>>
    PROVE  AttachmentInv'
<1>1. RelayInv'
  BY DEF AttachmentInv, RelayInv, RelayFails, Holds, Peers
<1>2. /\ sockets' \in SocketMap
      /\ \A q \in Peers : sockets'[q].step = sockets[q].step
      /\ \A q \in Peers : q # p => sockets'[q] = sockets[q]
      /\ sockets'[p].end = IF sockets[p].end = "open" THEN "destroyed" ELSE sockets[p].end
  BY DEF AttachmentInv, DesktopInv, RelayFails, SocketMap, Ends, Steps
<1>3. Tame(sockets') /\ Forward /\ Carry(sockets')
  BY <1>2 DEF AttachmentInv, DesktopInv, Tame, Forward, Carry, Served
<1>4. DesktopInv' /\ CleanupInv'
  BY <1>3, CarryKeeps DEF AttachmentInv
<1> QED BY <1>1, <1>4 DEF AttachmentInv

(* A step that leaves the sockets as they are. *)
LEMMA StillKeeps ==
    ASSUME DesktopInv, CleanupInv, credential' => credential,
           UNCHANGED <<attachment, ready, attachTimer, listening, sockets, server, cleanup>>
    PROVE  DesktopInv' /\ CleanupInv'
<1>1. Tame(sockets) /\ Forward /\ Carry(sockets)
  BY DEF DesktopInv, Tame, Forward, Carry, Served
<1> QED BY <1>1, CarryKeeps

(* The step of each action. *)
LEMMA AttachmentInvStep ==
    ASSUME MaxAttempts \in Nat, AttachmentInv, [AttachmentNext]_attachVars
    PROVE  AttachmentInv'
<1> USE DEF AttachmentInv
<1> DEFINE desktop == <<attachment, ready, attachTimer, listening, sockets, server, cleanup>>
<1>1. ASSUME NEW p \in Peers, CheckCredential(p) \/ ReadCredential(p)  PROVE AttachmentInv'
  <2>1. CASE RelayFails(p)
    BY <1>1, <2>1, RelayFailsKeeps DEF CheckCredential, ReadCredential, RelayInv
  <2>2. CASE UNCHANGED sockets /\ relay' \in {[relay EXCEPT ![p] = "checked"], [relay EXCEPT ![p] = "read"]}
    <3>1. RelayInv' /\ attempts' = attempts /\ credential' = credential /\ UNCHANGED desktop
      BY <1>1, <2>2 DEF CheckCredential, ReadCredential, RelayInv, Holds, Peers
    <3> QED BY <3>1, StillKeeps
  <2> QED BY <1>1, <2>1, <2>2 DEF CheckCredential, ReadCredential
<1>2. ASSUME NEW p \in Peers, TakeCredential(p)  PROVE AttachmentInv'
  <2>1. CASE ~credential
    BY <1>2, <2>1, RelayFailsKeeps DEF TakeCredential, RelayInv
  <2>2. CASE credential
    <3>1. relay' = [relay EXCEPT ![p] = "holds"] /\ credential' = FALSE
          /\ UNCHANGED <<attempts, desktop>>
      BY <1>2, <2>2 DEF TakeCredential
    <3>2. RelayInv'
      BY <2>2, <3>1 DEF RelayInv, Holds, Peers
    <3> QED BY <3>1, <3>2, StillKeeps
  <2> QED BY <2>1, <2>2 DEF RelayInv
<1>3. ASSUME NEW p \in Peers, RelayEnds(p)  PROVE AttachmentInv'
  BY <1>3, RelayFailsKeeps DEF RelayEnds, RelayInv
<1>4. ASSUME Close  PROVE AttachmentInv'
  <2>1. Tame(sockets) /\ Forward
    BY <1>4 DEF Close, Tame, Forward, DesktopInv, Served
  <2>2. DesktopInv' /\ CleanupInv'
    BY <1>4, <2>1, TearDownKeeps DEF Close
  <2> QED BY <1>4, <2>2 DEF Close, RelayInv, Holds
<1>5. ASSUME Timeout  PROVE AttachmentInv'
  <2>1. Tame(sockets) /\ Forward
    BY <1>5 DEF Timeout, Tame, Forward, DesktopInv, Served
  <2>2. DesktopInv' /\ CleanupInv'
    BY <1>5, <2>1, FailKeeps DEF Timeout
  <2> QED BY <1>5, <2>2 DEF Timeout, RelayInv, Holds
<1>6. ASSUME ServerClosed  PROVE AttachmentInv'
  <2>1. DesktopInv'
    BY <1>6 DEF ServerClosed, DesktopInv, Served
  <2>2. CleanupInv'
    BY <1>6 DEF ServerClosed, CleanupInv, DesktopInv
  <2> QED BY <1>6, <2>1, <2>2 DEF ServerClosed, RelayInv, Holds
<1>7. ASSUME ListenerClosed  PROVE AttachmentInv'
  <2>1. DesktopInv'
    BY <1>7 DEF ListenerClosed, DesktopInv, Served
  <2>2. CleanupInv'
    BY <1>7 DEF ListenerClosed, CleanupInv, DesktopInv
  <2> QED BY <1>7, <2>1, <2>2 DEF ListenerClosed, RelayInv, Holds
<1>8. ASSUME FilesRemoved  PROVE AttachmentInv'
  <2>1. DesktopInv'
    BY <1>8 DEF FilesRemoved, DesktopInv, Served
  <2>2. CleanupInv'
    BY <1>8 DEF FilesRemoved, CleanupInv, DesktopInv
  <2>3. credential' \in {FALSE, credential} /\ relay' = relay /\ attempts' = attempts
    BY <1>8 DEF FilesRemoved
  <2>4. RelayInv'
    <3>1. CASE credential' = credential
      BY <2>3, <3>1 DEF RelayInv, Holds
    <3>2. CASE credential' = FALSE
      BY <2>3, <3>2 DEF RelayInv, Holds
    <3> QED BY <2>3, <3>1, <3>2
  <2> QED BY <2>1, <2>2, <2>3, <2>4
<1>9. ASSUME NEW p \in Peers, Connect(p)  PROVE AttachmentInv'
  <2>1. RelayInv'
    BY <1>9 DEF Connect, RelayInv, Holds, Peers
  <2>2. attempts' \in 0..MaxAttempts
    BY <1>9 DEF Connect, Refused
  <2>3. /\ sockets' \in SocketMap
        /\ \A q \in Peers : q # p => sockets'[q] = sockets[q]
        /\ sockets'[p].step \in {"done", "reading"}
    BY <1>9 DEF Connect, DesktopInv, SocketMap, Ends, Steps
  <2>4. listening /\ UNCHANGED <<attachment, ready, attachTimer, listening, server, cleanup, credential>>
    BY <1>9 DEF Connect
  <2>5. DesktopInv'
    BY <2>3, <2>4 DEF DesktopInv, Served
  <2>6. CleanupInv'
    BY <2>3, <2>4 DEF CleanupInv, DesktopInv
  <2> QED BY <2>1, <2>2, <2>5, <2>6
<1>10. ASSUME NEW p \in Peers, LineVerified(p)  PROVE AttachmentInv'
  <2>1. /\ sockets' \in SocketMap
        /\ sockets'[p] = [sockets[p] EXCEPT !.step = "connecting"]
        /\ \A q \in Peers : q # p => sockets'[q].step = sockets[q].step
    BY <1>10 DEF LineVerified, Destroyed, DesktopInv, SocketMap, Ends, Steps
  <2>2. DesktopInv'
    BY <1>10, <2>1 DEF LineVerified, DesktopInv, Served, SocketMap
  <2>3. CleanupInv'
    BY <1>10 DEF LineVerified, CleanupInv, DesktopInv
  <2> QED BY <1>10, <2>2, <2>3 DEF LineVerified, RelayInv, Holds
<1>11. ASSUME NEW p \in Peers, LineRejected(p)  PROVE AttachmentInv'
  <2>1. DesktopInv' /\ CleanupInv'
    BY <1>11, HandshakeFailsKeeps DEF LineRejected, Forward, DesktopInv
  <2> QED BY <1>11, <2>1 DEF LineRejected, RelayInv, Holds
<1>12. ASSUME NEW p \in Peers, ServerConnected(p)  PROVE AttachmentInv'
  <2>1. RelayInv' /\ attempts' = attempts /\ credential' = credential
    BY <1>12 DEF ServerConnected, RelayInv, Holds
  <2>2. CASE server # "new"
    <3>1. DesktopInv' /\ CleanupInv'
      BY <1>12, <2>2, HandshakeFailsKeeps DEF ServerConnected, Forward, DesktopInv
    <3> QED BY <2>1, <3>1
  <2>3. CASE server = "new"
    <3> DEFINE f == [sockets EXCEPT ![p].step = "writing"]
    <3>1. Carry(f) /\ server' = "connected" /\ Served(p)
      BY <1>12, <2>3 DEF ServerConnected, At, Served
    <3>2. /\ f \in SocketMap /\ \A q \in Peers : q # p => f[q] = sockets[q]
          /\ f[p].end = sockets[p].end
      BY DEF DesktopInv, SocketMap, Ends, Steps
    <3> HIDE DEF f
    <3>3. Tame(f) /\ Forward
      BY <2>1, <2>3, <3>1, <3>2 DEF Tame, Forward, Served, DesktopInv
    <3> QED BY <2>1, <3>1, <3>3, CarryKeeps
  <2> QED BY <2>2, <2>3
<1>13. ASSUME NEW p \in Peers, AcknowledgementWritten(p)  PROVE AttachmentInv'
  <2>1. RelayInv'
    BY <1>13 DEF AcknowledgementWritten, RelayInv, Holds, Peers
  <2>2. attempts' = attempts /\ credential' = credential /\ server' = server
    BY <1>13 DEF AcknowledgementWritten
  <2>3. CASE sockets[p].end # "open"
    <3>1. DesktopInv' /\ CleanupInv'
      BY <1>13, <2>2, <2>3, HandshakeFailsKeeps DEF AcknowledgementWritten, Forward, DesktopInv
    <3> QED BY <2>1, <2>2, <3>1
  <2>4. CASE sockets[p].end = "open"
    <3> DEFINE f == [sockets EXCEPT ![p].step = "unlinking"]
    <3>1. Carry(f) /\ sockets[p].step = "writing"
      BY <1>13, <2>4 DEF AcknowledgementWritten, At
    <3>2. /\ f \in SocketMap /\ \A q \in Peers : q # p => f[q] = sockets[q]
          /\ f[p].end = sockets[p].end
      BY DEF DesktopInv, SocketMap, Ends, Steps
    <3> HIDE DEF f
    <3>3. Tame(f) /\ Forward
      BY <2>2, <3>1, <3>2 DEF Tame, Forward, Served, DesktopInv
    <3>4. DesktopInv' /\ CleanupInv'
      BY <3>1, <3>3, CarryKeeps
    <3> QED BY <2>1, <2>2, <3>4
  <2> QED BY <2>3, <2>4
<1>14. ASSUME NEW p \in Peers, Attached(p)  PROVE AttachmentInv'
  <2>1. RelayInv' /\ attempts' = attempts /\ credential' = FALSE /\ server' = server
    BY <1>14 DEF Attached, RelayInv, Holds
  <2>2. CASE HandshakeFails(p)
    <3>1. DesktopInv' /\ CleanupInv'
      BY <2>1, <2>2, HandshakeFailsKeeps DEF Forward, DesktopInv
    <3> QED BY <2>1, <3>1
  <2>3. CASE /\ attachment = "attaching" /\ attachment' = "attached" /\ ready' = "resolved"
             /\ attachTimer' = FALSE /\ sockets' = [sockets EXCEPT ![p].step = "done"]
             /\ UNCHANGED <<listening, cleanup>>
    <3>1. sockets[p].step = "unlinking"
      BY <1>14 DEF Attached, At
    <3>2. /\ sockets' \in SocketMap /\ \A q \in Peers : q # p => sockets'[q] = sockets[q]
          /\ sockets'[p].step = "done"
      BY <2>3 DEF DesktopInv, SocketMap, Ends, Steps
    <3>3. DesktopInv'
      BY <2>1, <2>3, <3>1, <3>2 DEF DesktopInv, Served
    <3>4. CleanupInv'
      BY <2>3 DEF CleanupInv, DesktopInv
    <3> QED BY <2>1, <3>3, <3>4
  <2> QED BY <1>14, <2>2, <2>3 DEF Attached
<1>15. ASSUME NEW p \in Peers, SocketClosed(p)  PROVE AttachmentInv'
  <2> DEFINE f == [sockets EXCEPT ![p].end = "closed"]
  <2>1. RelayInv' /\ attempts' = attempts /\ UNCHANGED <<server, credential>>
    BY <1>15 DEF SocketClosed, RelayInv, Holds
  <2>2. \/ TearDown("failed", f) /\ attachment = "attaching"
        \/ TearDown("closed", f) /\ attachment = "attached"
        \/ Carry(f)
    BY <1>15 DEF SocketClosed
  <2>3. /\ f \in SocketMap /\ \A q \in Peers : q # p => f[q] = sockets[q]
        /\ f[p].step = sockets[p].step /\ f[p].end = "closed"
    BY DEF DesktopInv, SocketMap, Ends, Steps
  <2> HIDE DEF f
  <2>4. Tame(f) /\ Forward
    BY <2>1, <2>3 DEF Tame, Forward, Served, DesktopInv
  <2>5. CASE TearDown("failed", f) /\ attachment = "attaching"
    BY <2>1, <2>4, <2>5, TearDownKeeps DEF CleanupInv, DesktopInv
  <2>6. CASE TearDown("closed", f) /\ attachment = "attached"
    BY <2>1, <2>4, <2>6, TearDownKeeps DEF CleanupInv, DesktopInv
  <2>7. CASE Carry(f)
    BY <2>1, <2>4, <2>7, CarryKeeps
  <2> QED BY <2>2, <2>5, <2>6, <2>7
<1>16. ASSUME UNCHANGED attachVars  PROVE AttachmentInv'
  BY <1>16 DEF attachVars, RelayInv, Holds, DesktopInv, CleanupInv, Served
<1> QED
  BY <1>1, <1>2, <1>3, <1>4, <1>5, <1>6, <1>7, <1>8, <1>9, <1>10, <1>11, <1>12, <1>13, <1>14,
     <1>15, <1>16 DEF AttachmentNext

LEMMA AttachmentInvInit == ASSUME MaxAttempts \in Nat, AttachmentInit  PROVE AttachmentInv
<1>1. RelayInv
  BY DEF AttachmentInit, RelayInv, Holds, Peers
<1>2. DesktopInv
  BY DEF AttachmentInit, DesktopInv, Served, SocketMap, Ends, Steps
<1>3. CleanupInv
  BY DEF AttachmentInit, CleanupInv
<1> QED BY <1>1, <1>2, <1>3 DEF AttachmentInit, AttachmentInv

(* A set whose members are all the same has one at most. *)
LEMMA AtMostOne ==
    ASSUME NEW S, \A p, q \in S : p = q  PROVE Cardinality(S) <= 1
<1>1. CASE S = {}
  BY <1>1, FS_EmptySet
<1>2. CASE S # {}
  <2>1. PICK p : S = {p}
    BY <1>2
  <2>2. Cardinality({p}) = 1
    BY FS_Singleton
  <2> QED BY <2>1, <2>2
<1> QED BY <1>1, <1>2

(* One relay at most gets past the credential and is served, and whoever    *)
(* waits for the attachment is let through after that only                  *)
(* (readOneTimeCredential of mcpProxy.ts, handleConnection of               *)
(* mcpAttachment.ts).                                                       *)
THEOREM OneRelayServed == ASSUME MaxAttempts \in Nat  PROVE AttachmentSpec => []OneRelay
<1>1. AttachmentInit => AttachmentInv
  BY AttachmentInvInit
<1>2. AttachmentInv /\ [AttachmentNext]_attachVars => AttachmentInv'
  BY AttachmentInvStep
<1>3. AttachmentInv => OneRelay
  <2> SUFFICES ASSUME AttachmentInv  PROVE OneRelay
    OBVIOUS
  <2>1. Cardinality({p \in Relays : relay[p] \in {"holds", "connected", "relaying"}}) <= 1
    BY AtMostOne DEF AttachmentInv, RelayInv, Holds
  <2>2. Cardinality({p \in Peers : sockets[p].step \in {"connecting", "writing", "unlinking"}}) <= 1
    BY AtMostOne DEF AttachmentInv, DesktopInv, Served
  <2> QED BY <2>1, <2>2 DEF OneRelay, AttachmentInv, DesktopInv
<1> QED BY <1>1, <1>2, <1>3, PTL DEF AttachmentSpec

(* An attachment that reports its end listens no more, has no timer, no     *)
(* connection and no server, and has answered who waited for it (cleanup    *)
(* and closeOnce of mcpAttachment.ts).                                      *)
THEOREM AttachmentCleansUp == ASSUME MaxAttempts \in Nat  PROVE AttachmentSpec => []NothingLeftBehind
<1>1. AttachmentInit => AttachmentInv
  BY AttachmentInvInit
<1>2. AttachmentInv /\ [AttachmentNext]_attachVars => AttachmentInv'
  BY AttachmentInvStep
<1>3. AttachmentInv => NothingLeftBehind
  BY DEF AttachmentInv, CleanupInv, NothingLeftBehind
<1> QED BY <1>1, <1>2, <1>3, PTL DEF AttachmentSpec

(* The types of the attachment's state. *)
THEOREM AttachmentTypeCorrect == ASSUME MaxAttempts \in Nat  PROVE AttachmentSpec => []AttachmentTypeOK
<1>1. AttachmentInit => AttachmentInv
  BY AttachmentInvInit
<1>2. AttachmentInv /\ [AttachmentNext]_attachVars => AttachmentInv'
  BY AttachmentInvStep
<1>3. AttachmentInv => AttachmentTypeOK
  BY DEF AttachmentInv, RelayInv, DesktopInv, SocketMap, AttachmentTypeOK
<1> QED BY <1>1, <1>2, <1>3, PTL DEF AttachmentSpec

-----------------------------------------------------------------------------
(* CloudPolling: the events of a conversation are published in order, each  *)
(* once, and no poll dies out, for any number of conversations, events,     *)
(* requests and polls.                                                      *)

(* What a poll has under way: the timers armed and the request it waits for. *)
Load(q) == q.timers + (IF q.running = "no" THEN 0 ELSE 1)
Alive(q) == q.timers > 0 \/ q.running # "no"

(* Each request that is done adds one to the load of a poll at most: a       *)
(* forced poll does.                                                         *)
DoneRequests == {r \in DOMAIN request : request[r].stage = "done"}

RequestInv ==
  /\ center \in [Clouds -> {"absent", "present", "deleted"}]
  /\ log \in [Clouds -> 0..MaxEvents]
  /\ cloudIds \subseteq Clouds
  /\ removed \subseteq Clouds
  /\ DOMAIN request \subseteq Requests
  /\ \A r \in DOMAIN request : request[r] \in Request
  /\ cloudDisposed \in BOOLEAN

Runnings == {"no", "loading", "answered", "refreshing"}

(* The polls, without a bound of their timers. *)
PollStates == [conversation : Clouds, cursor : 0..MaxEvents, answer : 0..MaxEvents, timers : Nat,
               running : Runnings]

(* A poll object with the state q. *)
PollAt(q) ==
  /\ q \in PollStates
  /\ Load(q) <= 1 + Cardinality(DoneRequests)

PollInv ==
  /\ poll \in Seq(PollStates)
  /\ Len(poll) <= MaxPolls
  /\ \A p \in DOMAIN poll : PollAt(poll[p])

(* What was published of a conversation is what its poll, as long as it had  *)
(* one only, has read; and until it was removed it had no other one.         *)
PublishedBy(c) ==
  /\ PollsOf(c) = {} => published[c] = <<>>
  /\ \A p \in PollsOf(c) : PollsOf(c) = {p} => published[c] = Between(0, poll[p].cursor)

OnePoll(c) ==
  /\ \A p, q \in PollsOf(c) : p = q
  /\ ~cloudDisposed /\ polls[c] = NoPoll => PollsOf(c) = {}

PublishedInv ==
  /\ published \in [Clouds -> Seq(1..MaxEvents)]
  /\ \A c \in Clouds : PublishedBy(c)
  /\ \A c \in Clouds : c \notin removed => OnePoll(c)

(* The current poll of a conversation is one of its own, and goes on until   *)
(* the service is disposed.                                                  *)
CurrentInv ==
  /\ polls \in [Clouds -> 0..MaxPolls]
  /\ \A c \in Clouds : polls[c] # NoPoll =>
       /\ polls[c] \in DOMAIN poll /\ poll[polls[c]].conversation = c
       /\ ~cloudDisposed => Alive(poll[polls[c]])
  /\ ~cloudDisposed => \A c \in cloudIds : polls[c] # NoPoll

CloudInv == RequestInv /\ PollInv /\ PublishedInv /\ CurrentInv

-----------------------------------------------------------------------------
(* Publishing what follows the cursor continues what was published. *)
LEMMA BetweenJoins ==
    ASSUME NEW low \in Nat, NEW high \in Nat, low <= high
    PROVE  Between(0, low) \o Between(low, high) = Between(0, high)
<1> PICK f, g, h : f = Between(0, low) /\ g = Between(low, high) /\ h = Between(0, high)
  OBVIOUS
<1>1. /\ f \in Seq(Nat) /\ Len(f) = low /\ \A i \in 1..low : f[i] = i
      /\ g \in Seq(Nat) /\ Len(g) = high - low /\ \A i \in 1..(high - low) : g[i] = low + i
      /\ h \in Seq(Nat) /\ Len(h) = high /\ \A i \in 1..high : h[i] = i
  BY DEF Between
<1>2. f \o g \in Seq(Nat) /\ Len(f \o g) = high
  BY <1>1
<1>3. ASSUME NEW i \in 1..high  PROVE (f \o g)[i] = h[i]
  <2>1. CASE i <= low
    BY <1>1, <2>1
  <2>2. CASE i > low
    <3>1. (f \o g)[i] = g[i - low] /\ i - low \in 1..(high - low)
      BY <1>1, <2>2
    <3>2. g[i - low] = low + (i - low)
      BY <1>1, <3>1
    <3>3. low + (i - low) = i
      OBVIOUS
    <3>4. h[i] = i
      BY <1>1
    <3> QED BY <3>1, <3>2, <3>3, <3>4
  <2>3. i <= low \/ i > low
    OBVIOUS
  <2> QED BY <2>1, <2>2, <2>3 , Zenon
<1>4. h \in Seq(Nat) /\ Len(h) = Len(f \o g) /\ Len(h) = high
  BY <1>1, <1>2
<1>5. f \o g = h
  BY <1>2, <1>3, <1>4, SeqEqual
<1> QED BY <1>5

LEMMA BetweenTyped ==
    ASSUME NEW low \in Nat, NEW high \in 0..MaxEvents
    PROVE  Between(low, high) \in Seq(1..MaxEvents)
<1>1. CASE high <= low
  <2>1. Between(low, high) = <<>>
    BY <1>1, CloudAssumption DEF Between
  <2> QED BY <2>1
<1>2. CASE high > low
  <2>1. high - low \in Nat /\ MaxEvents \in Nat
    BY <1>2, CloudAssumption
  <2>2. \A i \in 1..(high - low) : low + i \in 1..MaxEvents
    BY <1>2, <2>1
  <2> QED BY <2>1, <2>2 DEF Between
<1> QED BY <1>1, <1>2, CloudAssumption

(* Requests that are done stay done. *)
LEMMA DoneRequestsGrow ==
    ASSUME RequestInv, RequestInv', DoneRequests \subseteq DoneRequests'
    PROVE  /\ IsFiniteSet(DoneRequests')
           /\ Cardinality(DoneRequests) \in Nat /\ Cardinality(DoneRequests') \in Nat
           /\ Cardinality(DoneRequests) <= Cardinality(DoneRequests')
           /\ Cardinality(DoneRequests') <= Cardinality(Requests)
<1>1. DoneRequests' \subseteq Requests
  BY DEF RequestInv, DoneRequests
<1> QED BY <1>1, FS_Subset, FS_CardinalityType, CloudAssumption

(* The load of a poll may grow with the requests that are done. *)
LEMMA PollAtKept ==
    ASSUME RequestInv, RequestInv', DoneRequests \subseteq DoneRequests', NEW q, PollAt(q),
           NEW r \in PollStates, Load(r) <= Load(q)
    PROVE  PollAt(r)'
<1>1. /\ Cardinality(DoneRequests) <= Cardinality(DoneRequests')
      /\ Cardinality(DoneRequests) \in Nat /\ Cardinality(DoneRequests') \in Nat
  BY DoneRequestsGrow
<1>2. Load(r) \in Nat /\ Load(q) \in Nat
  BY DEF Load, PollAt, PollStates
<1>3. Load(r) <= 1 + Cardinality(DoneRequests')
  BY <1>1, <1>2 DEF PollAt
<1> QED BY <1>3 DEF PollAt, Load

(* Polls that stay as they are keep what is required of them. *)
LEMMA AllPollsKept ==
    ASSUME CloudInv, RequestInv', DoneRequests \subseteq DoneRequests', NEW p \in DOMAIN poll
    PROVE  poll'[p] = poll[p] => PollAt(poll[p])'
<1> SUFFICES ASSUME poll'[p] = poll[p]  PROVE PollAt(poll[p])'
  OBVIOUS
<1>1. PICK r : r = poll'[p]
  OBVIOUS
<1>2. PollAt(poll[p]) /\ r = poll[p]
  BY <1>1 DEF CloudInv, PollInv
<1>3. r \in PollStates /\ Load(r) <= Load(poll[p])
  BY <1>2 DEF PollAt, PollStates, Load
<1>4. PollAt(r)'
  BY <1>2, <1>3, PollAtKept DEF CloudInv
<1> QED BY <1>1, <1>4 DEF PollAt, Load

(* Which polls a conversation has does not change with their cursors. *)
LEMMA SamePolls ==
    ASSUME DOMAIN poll' = DOMAIN poll, NEW c,
           \A p \in DOMAIN poll : poll'[p].conversation = poll[p].conversation
    PROVE  PollsOf(c)' = PollsOf(c)
BY DEF PollsOf

(* What was published stays in order when no cursor moves and no poll is     *)
(* made, and a conversation that loses its poll was removed.                 *)
LEMMA PublishedKept ==
    ASSUME PublishedInv, UNCHANGED published, DOMAIN poll' = DOMAIN poll,
           \A p \in DOMAIN poll : poll'[p].conversation = poll[p].conversation
                                  /\ poll'[p].cursor = poll[p].cursor,
           removed \subseteq removed', cloudDisposed => cloudDisposed',
           \A c \in Clouds : ~cloudDisposed' /\ c \notin removed' => polls'[c] = polls[c]
    PROVE  PublishedInv'
<1>1. ASSUME NEW c \in Clouds  PROVE PublishedBy(c)' /\ (c \notin removed' => OnePoll(c)')
  <2>1. PollsOf(c)' = PollsOf(c)
    BY SamePolls
  <2>2. PublishedBy(c)'
    BY <2>1 DEF PublishedInv, PublishedBy, PollsOf
  <2>3. c \notin removed' => OnePoll(c)'
    BY <2>1 DEF PublishedInv, OnePoll
  <2> QED BY <2>2, <2>3
<1> QED BY <1>1 DEF PublishedInv

(* A step that changes one poll at most. *)
LEMMA OnePollChanges ==
    ASSUME CloudInv, RequestInv', DoneRequests \subseteq DoneRequests', NEW p \in DOMAIN poll, NEW q,
           poll' = [poll EXCEPT ![p] = q], UNCHANGED <<polls, cloudIds, removed, cloudDisposed>>,
           q.conversation = poll[p].conversation, PollAt(q)',
           published' \in [Clouds -> Seq(1..MaxEvents)],
           \A d \in Clouds : d # q.conversation => published'[d] = published[d],
           PollsOf(q.conversation) = {p} => published'[q.conversation] = Between(0, q.cursor),
           ~cloudDisposed /\ polls[q.conversation] = p => Alive(q)
    PROVE  CloudInv'
<1> USE CloudAssumption
<1>0. q \in PollStates
  BY DEF PollAt
<1>1. /\ DOMAIN poll' = DOMAIN poll /\ Len(poll') = Len(poll) /\ poll'[p] = q
      /\ \A o \in DOMAIN poll : o # p => poll'[o] = poll[o]
      /\ poll' \in Seq(PollStates)
  BY <1>0 DEF CloudInv, PollInv
<1>3. ASSUME NEW o \in DOMAIN poll  PROVE PollAt(poll[o])'
  <2>1. CASE o = p
    BY <2>1, <1>1 DEF PollAt, Load
  <2>2. CASE o # p
    BY <2>2, <1>1, AllPollsKept
  <2> QED BY <2>1, <2>2
<1>4. PollInv'
  BY <1>1, <1>3 DEF CloudInv, PollInv
<1>7. PublishedInv'
  <2>1. ASSUME NEW c \in Clouds  PROVE PublishedBy(c)' /\ (c \notin removed' => OnePoll(c)')
    <3>1. PollsOf(c)' = PollsOf(c)
      BY <1>1, SamePolls
    <3>2. c \notin removed' => OnePoll(c)'
      BY <3>1 DEF CloudInv, PublishedInv, OnePoll
    <3>3. CASE c = q.conversation
      <4>1. p \in PollsOf(c)
        BY <3>3 DEF PollsOf
      <4> QED BY <3>1, <3>2, <3>3, <4>1, <1>1 DEF PublishedBy
    <3>4. CASE c # q.conversation
      <4>1. PublishedBy(c) /\ published'[c] = published[c] /\ p \notin PollsOf(c)
        BY <3>4 DEF CloudInv, PublishedInv, PollsOf
      <4>2. \A o \in PollsOf(c) : poll'[o] = poll[o]
        BY <4>1, <1>1 DEF PollsOf
      <4> QED BY <3>1, <3>2, <4>1, <4>2 DEF PublishedBy
    <3> QED BY <3>3, <3>4
  <2> QED BY <2>1 DEF PublishedInv
<1>5. ASSUME NEW c \in Clouds, polls[c] # NoPoll
      PROVE  /\ polls[c] \in DOMAIN poll' /\ poll'[polls[c]].conversation = c
             /\ ~cloudDisposed => Alive(poll'[polls[c]])
  <2>1. /\ polls[c] \in DOMAIN poll /\ poll[polls[c]].conversation = c
        /\ ~cloudDisposed => Alive(poll[polls[c]])
    BY <1>5 DEF CloudInv, CurrentInv
  <2>2. CASE polls[c] = p
    BY <2>1, <2>2, <1>1
  <2>3. CASE polls[c] # p
    BY <2>1, <2>3, <1>1
  <2> QED BY <2>2, <2>3
<1>6. CurrentInv'
  BY <1>5 DEF CloudInv, CurrentInv, Alive
<1> QED BY <1>6, <1>4, <1>7 DEF CloudInv

(* A step of the requests and of Center alone. *)
LEMMA NoPollChanges ==
    ASSUME CloudInv, RequestInv', DoneRequests \subseteq DoneRequests',
           UNCHANGED <<cloudIds, polls, poll, removed, published, cloudDisposed>>
    PROVE  CloudInv'
<1>1. PollInv'
  BY AllPollsKept DEF CloudInv, PollInv
<1>2. PublishedInv'
  BY PublishedKept DEF CloudInv
<1>3. CurrentInv'
  BY DEF CloudInv, CurrentInv
<1> QED BY <1>1, <1>2, <1>3 DEF CloudInv

LEMMA NewPollTyped ==
    \A c \in Clouds : NewPoll(c) \in PollStates /\ NewPoll(c).conversation = c /\ Alive(NewPoll(c))
                      /\ NewPoll(c).cursor = 0 /\ Load(NewPoll(c)) = 1
BY CloudAssumption DEF NewPoll, PollStates, Runnings, Alive, Load

(* New polls begin at the start of their conversation, with a timer armed. *)
LEMMA StartPollingKept ==
    ASSUME CloudInv, RequestInv', DoneRequests \subseteq DoneRequests', NEW cs \in SUBSET Clouds,
           StartPolling(cs), UNCHANGED <<removed, published, cloudDisposed>>,
           cloudIds' \subseteq cloudIds \cup cs
    PROVE  CloudInv'
<1> USE CloudAssumption
<1> PICK new : /\ new = {c \in cs : ~cloudDisposed /\ polls[c] = NoPoll}
               /\ AddPolls(new)
  BY DEF StartPolling
<1>1. /\ new \subseteq Clouds /\ IsFiniteSet(new) /\ Cardinality(new) \in Nat
      /\ Len(poll) \in Nat /\ poll \in Seq(PollStates) /\ Len(poll) <= MaxPolls
  BY FS_Subset, FS_CardinalityType DEF CloudInv, PollInv
<1> DEFINE n == Cardinality(new)
<1>0. n \in Nat
  BY <1>1
<1>2. PICK order \in [1..n -> new] :
        /\ Len(poll) + n <= MaxPolls
        /\ \A c \in new : \E i \in 1..n : order[i] = c
        /\ poll' = poll \o [i \in 1..n |-> NewPoll(order[i])]
        /\ polls' = [c \in Clouds |->
                       IF c \in new THEN Len(poll) + CHOOSE i \in 1..n : order[i] = c
                       ELSE polls[c]]
  BY <1>1, Zenon DEF AddPolls
<1> HIDE DEF n
<1> PICK added : added = [i \in 1..n |-> NewPoll(order[i])]
  OBVIOUS
<1>3. added \in Seq(PollStates) /\ Len(added) = n
  <2>1. \A i \in 1..n : order[i] \in Clouds
    BY <1>1, <1>0, <1>2
  <2>2. \A i \in 1..n : NewPoll(order[i]) \in PollStates
    BY <2>1, NewPollTyped
  <2>3. n \in Nat /\ added \in [1..n -> PollStates]
    BY <1>0, <2>2, <1>2
  <2> QED BY <2>3
<1>4. poll' \in Seq(PollStates) /\ Len(poll') = Len(poll) + n
  BY <1>1, <1>0, <1>2, <1>3
<1>5. \A p \in 1..Len(poll) : poll'[p] = poll[p]
  BY <1>1, <1>0, <1>2, <1>3
<1>6. \A i \in 1..n : poll'[Len(poll) + i] = NewPoll(order[i])
  BY <1>1, <1>0, <1>2, <1>3
<1>7. DOMAIN poll = 1..Len(poll) /\ DOMAIN poll' = 1..(Len(poll) + n)
  BY <1>1, <1>4
<1>8. ASSUME NEW p \in DOMAIN poll'  PROVE PollAt(poll[p])'
  <2>1. CASE p \in 1..Len(poll)
    BY <2>1, <1>5, <1>7, AllPollsKept
  <2>2. CASE p \notin 1..Len(poll)
    <3>1. PICK i \in 1..n : p = Len(poll) + i
      <4>1. p - Len(poll) \in 1..n /\ p = Len(poll) + (p - Len(poll))
        BY <1>0, <2>2, <1>7, <1>1
      <4> QED BY <4>1
    <3>2. poll'[p] = NewPoll(order[i]) /\ order[i] \in Clouds
      BY <3>1, <1>6, <1>2, <1>1
    <3>3. poll'[p] \in PollStates /\ Load(poll'[p]) = 1
      BY <3>2, NewPollTyped
    <3>4. Cardinality(DoneRequests') \in Nat
      BY DoneRequestsGrow DEF CloudInv
    <3> QED BY <3>3, <3>4 DEF PollAt, Load
  <2> QED BY <2>1, <2>2, Zenon
<1>9. PollInv'
  <2>1. Len(poll') <= MaxPolls
    BY <1>1, <1>0, <1>2, <1>4
  <2> QED BY <2>1, <1>4, <1>8 DEF PollInv
<1>12. order \in Injection(1..n, new)
  <2>1. order \in Surjection(1..n, new)
    BY <1>2, Zenon DEF Surjection
  <2>2. IsFiniteSet(1..n) /\ Cardinality(1..n) = n
    BY <1>0, FS_Interval
  <2> QED BY <2>1, <2>2, FS_SurjSameCardinalityImpliesInj DEF n
<1>13. PublishedInv'
  <2>1. ASSUME NEW c \in Clouds  PROVE PublishedBy(c)' /\ (c \notin removed' => OnePoll(c)')
    <3>1. CASE c \notin new
      <4>1. PollsOf(c)' = PollsOf(c)
        <5>1. \A p \in DOMAIN poll' \ DOMAIN poll : poll'[p].conversation # c
          <6>1. SUFFICES ASSUME NEW p \in DOMAIN poll' \ DOMAIN poll  PROVE poll'[p].conversation # c
            OBVIOUS
          <6>2. PICK i \in 1..n : p = Len(poll) + i
            <7>1. p - Len(poll) \in 1..n /\ p = Len(poll) + (p - Len(poll))
              BY <1>0, <1>7, <1>1
            <7> QED BY <7>1
          <6>3. poll'[p] = NewPoll(order[i]) /\ order[i] \in new
            BY <6>2, <1>6, <1>2
          <6> QED BY <6>3, <3>1 DEF NewPoll
        <5>2. DOMAIN poll \subseteq DOMAIN poll'
          BY <1>7, <1>1, <1>0
        <5> QED BY <5>1, <5>2, <1>5, <1>7 DEF PollsOf
      <4>2. \A p \in PollsOf(c) : poll'[p] = poll[p]
        BY <1>5, <1>7 DEF PollsOf
      <4>3. PublishedBy(c)'
        BY <4>1, <4>2 DEF CloudInv, PublishedInv, PublishedBy
      <4>4. polls'[c] = polls[c]
        BY <1>2, <3>1
      <4> QED BY <4>1, <4>3, <4>4 DEF CloudInv, PublishedInv, OnePoll
    <3>2. CASE c \in new
      <4>1. PICK i \in 1..n : order[i] = c
        BY <1>2, <3>2
      <4>2. PICK k : k = Len(poll) + i
        OBVIOUS
      <4>3. k \in DOMAIN poll' /\ k \notin DOMAIN poll /\ poll'[k] = NewPoll(c)
        BY <4>1, <4>2, <1>0, <1>1, <1>6, <1>7
      <4>4. \A j \in 1..n : order[j] = c => j = i
        BY <4>1, <1>12 DEF Injection, IsInjective
      <4>5. PollsOf(c)' = PollsOf(c) \cup {k}
        <5>1. \A p \in DOMAIN poll' \ DOMAIN poll : poll'[p].conversation = c => p = k
          <6>1. SUFFICES ASSUME NEW p \in DOMAIN poll' \ DOMAIN poll, poll'[p].conversation = c
                         PROVE  p = k
            OBVIOUS
          <6>2. PICK j \in 1..n : p = Len(poll) + j
            <7>1. p - Len(poll) \in 1..n /\ p = Len(poll) + (p - Len(poll))
              BY <1>0, <1>7, <1>1
            <7> QED BY <7>1
          <6>3. poll'[p] = NewPoll(order[j])
            BY <6>2, <1>6
          <6>4. order[j] = c
            BY <6>1, <6>3 DEF NewPoll
          <6> QED BY <6>2, <6>4, <4>4, <4>2
        <5>2. DOMAIN poll \subseteq DOMAIN poll'
          BY <1>7, <1>1, <1>0
        <5>3. poll'[k].conversation = c
          BY <4>3 DEF NewPoll
        <5> QED BY <5>1, <5>2, <5>3, <4>3, <1>5, <1>7 DEF PollsOf
      <4>6. PollsOf(c) \subseteq DOMAIN poll
        BY DEF PollsOf
      <4>7. PublishedBy(c)'
        <5>1. CASE PollsOf(c) = {}
          <6>1. published'[c] = <<>> /\ PollsOf(c)' = {k} /\ poll'[k].cursor = 0
            BY <5>1, <4>3, <4>5 DEF CloudInv, PublishedInv, PublishedBy, NewPoll
          <6>2. Between(0, 0) = <<>>
            BY DEF Between
          <6> QED BY <6>1, <6>2 DEF PublishedBy
        <5>2. CASE PollsOf(c) # {}
          <6>1. \A p \in PollsOf(c)' : PollsOf(c)' # {p}
            BY <5>2, <4>3, <4>5, <4>6
          <6> QED BY <6>1, <4>5 DEF PublishedBy
        <5> QED BY <5>1, <5>2
      <4>8. ASSUME c \notin removed'  PROVE OnePoll(c)'
        <5>1. PollsOf(c) = {}
          BY <4>8, <3>2 DEF CloudInv, PublishedInv, OnePoll
        <5>2. polls'[c] # NoPoll
          <6>1. PICK j \in 1..n : polls'[c] = Len(poll) + j
            BY <1>2, <3>2
          <6> QED BY <6>1, <1>1, <1>0 DEF NoPoll
        <5> QED BY <5>1, <5>2, <4>5 DEF OnePoll
      <4> QED BY <4>7, <4>8
    <3> QED BY <3>1, <3>2
  <2> QED BY <2>1 DEF CloudInv, PublishedInv
<1>10. ASSUME NEW c \in Clouds
       PROVE  /\ polls'[c] \in 0..MaxPolls
              /\ polls'[c] # NoPoll =>
                   /\ polls'[c] \in DOMAIN poll' /\ poll'[polls'[c]].conversation = c
                   /\ ~cloudDisposed => Alive(poll'[polls'[c]])
              /\ c \in new => polls'[c] # NoPoll
              /\ polls[c] # NoPoll => polls'[c] # NoPoll
  <2>1. CASE c \in new
    <3>1. PICK i \in 1..n : order[i] = c /\ polls'[c] = Len(poll) + i
      BY <1>0, <1>2, <2>1
    <3>2. poll'[polls'[c]] = NewPoll(c)
      BY <3>1, <1>6
    <3>6. polls'[c] \in 1..(Len(poll) + n)
      BY <3>1, <1>1, <1>0, <1>2
    <3>3. polls'[c] \in 0..MaxPolls
      BY <3>6, <1>1, <1>0, <1>2
    <3>4. NewPoll(c).conversation = c /\ Alive(NewPoll(c))
      BY NewPollTyped
    <3>5. polls'[c] # NoPoll
      BY <3>6, <1>1 DEF NoPoll
    <3> QED BY <3>2, <3>3, <3>4, <3>5, <3>6, <1>7
  <2>2. CASE c \notin new
    <3>1. polls'[c] = polls[c]
      BY <1>0, <1>2, <2>2
    <3>2. ASSUME polls[c] # NoPoll
          PROVE  poll'[polls[c]] = poll[polls[c]] /\ polls[c] \in DOMAIN poll'
      <4>1. polls[c] \in 1..Len(poll)
        BY <3>2, <1>7 DEF CloudInv, CurrentInv
      <4> QED BY <4>1, <1>5, <1>7, <1>1, <1>0, <1>2
    <3> QED BY <2>2, <3>1, <3>2 DEF CloudInv, CurrentInv
  <2> QED BY <2>1, <2>2
<1>11. CurrentInv'
  <2>1. polls' \in [Clouds -> 0..MaxPolls]
    BY <1>0, <1>2, <1>10
  <2>2. ASSUME ~cloudDisposed, NEW c \in cloudIds'  PROVE polls'[c] # NoPoll
    <3>1. c \in Clouds /\ c \in cloudIds \cup cs
      BY DEF RequestInv
    <3>2. polls[c] # NoPoll \/ c \in new
      BY <2>2, <3>1 DEF CloudInv, CurrentInv
    <3> QED BY <3>1, <3>2, <1>10
  <2> QED BY <2>1, <2>2, <1>10 DEF CurrentInv, Alive
<1> QED BY <1>9, <1>11, <1>13 DEF CloudInv

(* Polls that stop are forgotten by their conversation. *)
LEMMA StopPollingKept ==
    ASSUME CloudInv, RequestInv', DoneRequests \subseteq DoneRequests', NEW cs \in SUBSET Clouds,
           StopPolling(cs), UNCHANGED published,
           cloudDisposed => cloudDisposed',
           removed \subseteq removed', cloudDisposed' \/ cs \subseteq removed',
           cloudDisposed' \/ cloudIds' = cloudIds \ cs
    PROVE  CloudInv'
<1> USE CloudAssumption
<1>1. poll \in Seq(PollStates) /\ Len(poll) <= MaxPolls /\ DOMAIN poll = 1..Len(poll)
  BY DEF CloudInv, PollInv
<1>2. PICK stopped \in SUBSET (DOMAIN poll) :
        /\ \A p \in stopped : poll[p].conversation \in cs
        /\ polls' = [c \in Clouds |-> IF c \in cs THEN NoPoll ELSE polls[c]]
        /\ poll' = [p \in DOMAIN poll |->
                      IF p \in stopped /\ poll[p].timers > 0
                      THEN [poll[p] EXCEPT !.timers = @ - 1] ELSE poll[p]]
  BY DEF StopPolling
<1>3. ASSUME NEW p \in DOMAIN poll
      PROVE  /\ poll'[p] \in PollStates
             /\ poll'[p].conversation = poll[p].conversation /\ poll'[p].cursor = poll[p].cursor
             /\ Load(poll'[p]) <= Load(poll[p])
             /\ p \notin stopped => poll'[p] = poll[p]
  <2>1. poll[p] \in PollStates
    BY <1>1, ElementOfSeq
  <2>2. CASE p \in stopped /\ poll[p].timers > 0
    <3>1. poll'[p] = [poll[p] EXCEPT !.timers = poll[p].timers - 1]
      BY <1>2, <2>2
    <3>2. poll[p].timers - 1 \in Nat
      BY <2>1, <2>2 DEF PollStates
    <3> QED BY <2>1, <2>2, <3>1, <3>2 DEF PollStates, Load
  <2>3. CASE ~(p \in stopped /\ poll[p].timers > 0)
    <3>1. poll'[p] = poll[p]
      BY <1>2, <2>3
    <3> QED BY <2>1, <3>1 DEF PollStates, Load
  <2> QED BY <2>2, <2>3
<1>4. poll' \in Seq(PollStates) /\ Len(poll') = Len(poll) /\ DOMAIN poll' = DOMAIN poll
  BY <1>1, <1>2, <1>3
<1>5. ASSUME NEW p \in DOMAIN poll  PROVE PollAt(poll[p])'
  <2>1. PollAt(poll[p])
    BY DEF CloudInv, PollInv
  <2>2. PICK r : r = poll'[p]
    OBVIOUS
  <2>3. PollAt(r)'
    BY <2>1, <2>2, <1>3, PollAtKept DEF CloudInv
  <2> QED BY <2>2, <2>3 DEF PollAt, Load
<1>6. PollInv'
  BY <1>1, <1>4, <1>5 DEF CloudInv, PollInv
<1>7. ASSUME NEW c \in Clouds
      PROVE  /\ polls'[c] \in 0..MaxPolls
             /\ polls'[c] # NoPoll =>
                  /\ polls'[c] \in DOMAIN poll' /\ poll'[polls'[c]].conversation = c
                  /\ ~cloudDisposed' => Alive(poll'[polls'[c]])
             /\ c \notin cs => polls'[c] = polls[c]
  <2>1. CASE c \in cs
    BY <2>1, <1>2 DEF NoPoll
  <2>2. CASE c \notin cs
    <3>1. polls'[c] = polls[c]
      BY <2>2, <1>2
    <3>2. ASSUME polls[c] # NoPoll
          PROVE  polls[c] \in DOMAIN poll /\ poll[polls[c]].conversation = c
                 /\ (~cloudDisposed => Alive(poll[polls[c]]))
                 /\ poll'[polls[c]] = poll[polls[c]]
      BY <3>2, <2>2, <1>2, <1>3 DEF CloudInv, CurrentInv
    <3> QED BY <2>2, <3>1, <3>2, <1>4 DEF CloudInv, CurrentInv
  <2> QED BY <2>1, <2>2
<1>8. CurrentInv'
  <2>1. polls' \in [Clouds -> 0..MaxPolls]
    BY <1>2, <1>7
  <2>2. ASSUME ~cloudDisposed', NEW c \in cloudIds'  PROVE polls'[c] # NoPoll
    BY <2>2, <1>7 DEF CloudInv, CurrentInv, RequestInv
  <2> QED BY <2>1, <2>2, <1>7 DEF CurrentInv, Alive
<1>9. PublishedInv'
  <2>1. \A c \in Clouds : ~cloudDisposed' /\ c \notin removed' => polls'[c] = polls[c]
    BY <1>7
  <2> QED BY <2>1, <1>3, <1>4, PublishedKept DEF CloudInv
<1> QED BY <1>6, <1>8, <1>9 DEF CloudInv

-----------------------------------------------------------------------------
(* The operations. *)

LEMMA CloudInitInv == CloudInit => CloudInv
<1> SUFFICES ASSUME CloudInit  PROVE CloudInv
  OBVIOUS
<1> USE CloudAssumption
<1>1. RequestInv
  <2>1. DOMAIN request = {}
    BY DEF CloudInit
  <2>2. log \in [Clouds -> 0..MaxEvents]
    BY DEF CloudInit
  <2> QED BY <2>1, <2>2 DEF CloudInit, RequestInv
<1>2. PollInv
  BY DEF CloudInit, PollInv
<1>4. PublishedInv
  <2>1. \A c : PollsOf(c) = {}
    BY DEF CloudInit, PollsOf
  <2> QED BY <2>1 DEF CloudInit, PublishedInv, PublishedBy, OnePoll
<1>3. CurrentInv
  BY DEF CloudInit, CurrentInv, NoPoll
<1> QED BY <1>1, <1>2, <1>3, <1>4 DEF CloudInv

LEMMA PollTyped ==
    ASSUME CloudInv, NEW p \in DOMAIN poll
    PROVE  /\ PollAt(poll[p]) /\ poll[p] \in PollStates /\ poll[p].conversation \in Clouds
           /\ poll[p].cursor \in Nat /\ poll[p].timers \in Nat /\ poll[p].answer \in Nat
           /\ poll[p].cursor \in 0..MaxEvents /\ poll[p].answer \in 0..MaxEvents
           /\ poll[p].running \in Runnings
           /\ log[poll[p].conversation] \in 0..MaxEvents
           /\ p \in PollsOf(poll[p].conversation)
           /\ PollsOf(poll[p].conversation) = {p}
                => published[poll[p].conversation] = Between(0, poll[p].cursor)
<1>1. PollAt(poll[p]) /\ poll[p] \in PollStates
  BY DEF CloudInv, PollInv, PollAt
<1>2. /\ poll[p].conversation \in Clouds /\ poll[p].cursor \in 0..MaxEvents /\ poll[p].timers \in Nat
      /\ poll[p].answer \in 0..MaxEvents /\ poll[p].running \in Runnings
  BY <1>1 DEF PollStates
<1>3. log[poll[p].conversation] \in 0..MaxEvents
  BY <1>2 DEF CloudInv, RequestInv
<1>4. p \in PollsOf(poll[p].conversation)
  BY DEF PollsOf
<1>5. PublishedBy(poll[p].conversation)
  BY <1>2 DEF CloudInv, PublishedInv
<1> QED BY <1>1, <1>2, <1>3, <1>4, <1>5, CloudAssumption DEF PublishedBy

(* What a poll becomes that counts its timers and waits for something else. *)
Turned(p, armed, run, heard) ==
  [poll[p] EXCEPT !.timers = armed, !.running = run, !.answer = heard]

LEMMA RunKept ==
    ASSUME CloudInv, NEW p \in DOMAIN poll, NEW armed \in Nat,
           NEW run \in Runnings, NEW heard \in 0..MaxEvents, NEW q,
           q = Turned(p, armed, run, heard),
           Load(q) <= Load(poll[p])
    PROVE  PollAt(q) /\ q.conversation = poll[p].conversation /\ q.cursor = poll[p].cursor
<1>1. /\ q \in PollStates /\ q.conversation = poll[p].conversation
      /\ q.cursor = poll[p].cursor
  BY PollTyped DEF PollStates, Turned
<1>2. Load(q) \in Nat /\ Load(poll[p]) \in Nat
  BY <1>1, PollTyped DEF Load, PollStates
<1>3. Cardinality(DoneRequests) \in Nat
  <2>1. DoneRequests \subseteq Requests
    BY DEF CloudInv, RequestInv, DoneRequests
  <2> QED BY <2>1, FS_Subset, FS_CardinalityType, CloudAssumption
<1> QED BY <1>1, <1>2, <1>3, PollTyped DEF PollAt

(* The finally block of a poll that waited: its load does not grow, and it  *)
(* goes on when it is current.                                              *)
LEMMA FinishedKept ==
    ASSUME CloudInv, NEW p \in DOMAIN poll, poll[p].running # "no"
    PROVE  /\ PollAt(Finished(p)) /\ Finished(p).conversation = poll[p].conversation
           /\ Finished(p).cursor = poll[p].cursor
           /\ ~cloudDisposed /\ polls[poll[p].conversation] = p => Alive(Finished(p))
<1>1. PICK armed \in Nat : /\ armed = IF IsCurrentPoll(p) THEN poll[p].timers + 1 ELSE poll[p].timers
                           /\ armed <= poll[p].timers + 1
                           /\ IsCurrentPoll(p) => armed > 0
  BY PollTyped
<1>2. PICK q : q = Finished(p)
  OBVIOUS
<1>3. q = Turned(p, armed, "no", 0) /\ "no" \in Runnings /\ 0 \in 0..MaxEvents
  <2>1. "no" \in Runnings /\ 0 \in 0..MaxEvents
    BY CloudAssumption DEF Runnings
  <2>2. poll[p] \in PollStates
    BY PollTyped
  <2>3. q = Turned(p, armed, "no", 0)
    BY <1>1, <1>2, <2>2 DEF Finished, PollStates, Turned
  <2> QED BY <2>1, <2>3
<1>4. /\ q.timers = armed /\ q.running = "no" /\ q.conversation = poll[p].conversation
  BY <1>3, PollTyped DEF PollStates, Turned
<1>5. Load(q) <= Load(poll[p])
  BY <1>1, <1>4, PollTyped DEF Load
<1>6. PollAt(q) /\ q.cursor = poll[p].cursor
  BY <1>3, <1>5, RunKept
<1> QED BY <1>1, <1>2, <1>4, <1>6 DEF Alive, IsCurrentPoll

LEMMA TimersKept ==
    ASSUME CloudInv, NEW p \in DOMAIN poll, PollTimerFires(p)
    PROVE  CloudInv'
<1>1. RequestInv' /\ DoneRequests \subseteq DoneRequests'
  BY DEF PollTimerFires, CloudInv, RequestInv, DoneRequests
<1>2. PICK armed \in Nat : armed = poll[p].timers - 1
  BY PollTyped DEF PollTimerFires
<1>3. PICK run \in Runnings : run = IF MayPoll(p) THEN "loading" ELSE poll[p].running
  BY PollTyped DEF Runnings
<1>4. PICK q : q = Turned(p, armed, run, poll[p].answer)
  OBVIOUS
<1>5. /\ q.timers = armed /\ q.running = run
  BY <1>4, PollTyped DEF PollStates, Turned
<1>6. Load(q) <= Load(poll[p])
  BY <1>2, <1>3, <1>5, PollTyped DEF Load, MayPoll
<1>7. PollAt(q) /\ q.conversation = poll[p].conversation /\ q.cursor = poll[p].cursor
  BY <1>4, <1>6, PollTyped, RunKept
<1>8. poll' = [poll EXCEPT ![p] = q]
  BY <1>2, <1>3, <1>4, PollTyped DEF PollTimerFires, PollStates, Turned
<1>9. ~cloudDisposed /\ polls[q.conversation] = p => Alive(q)
  BY <1>3, <1>5, <1>7 DEF Alive, MayPoll, IsCurrentPoll
<1>10. PollAt(q)'
  BY <1>7 DEF PollTimerFires, PollAt, Load, DoneRequests
<1>11. published' = published /\ published \in [Clouds -> Seq(1..MaxEvents)]
  BY DEF PollTimerFires, CloudInv, PublishedInv
<1>12. PollsOf(q.conversation) = {p} => published'[q.conversation] = Between(0, q.cursor)
  BY <1>7, <1>11, PollTyped
<1> QED BY <1>1, <1>7, <1>8, <1>9, <1>10, <1>11, <1>12, OnePollChanges DEF PollTimerFires

LEMMA AnswersKept ==
    ASSUME CloudInv, NEW p \in DOMAIN poll,
           CenterAnswers(p) \/ EventsLoaded(p) \/ SummaryLoaded(p) \/ PollFails(p)
    PROVE  CloudInv'
<1>1. UNCHANGED <<center, log, cloudIds, polls, request, removed, cloudDisposed>> /\ poll[p].running # "no"
  BY DEF CenterAnswers, EventsLoaded, SummaryLoaded, PollFails
<1>2. RequestInv' /\ DoneRequests' = DoneRequests
  BY <1>1 DEF CloudInv, RequestInv, DoneRequests
<1>3. PICK c \in Clouds : c = poll[p].conversation
  BY PollTyped
<1>4. published \in [Clouds -> Seq(1..MaxEvents)]
  BY DEF CloudInv, PublishedInv
<1>5. ASSUME NEW q, PollAt(q), poll' = [poll EXCEPT ![p] = q], published' = published,
             q.conversation = c, q.cursor = poll[p].cursor, ~cloudDisposed /\ polls[c] = p => Alive(q)
      PROVE  CloudInv'
  <2>1. PollAt(q)'
    BY <1>2, <1>5 DEF PollAt, Load
  <2>2. PollsOf(q.conversation) = {p} => published'[q.conversation] = Between(0, q.cursor)
    BY <1>3, <1>5, PollTyped
  <2> QED BY <1>1, <1>2, <1>3, <1>4, <1>5, <2>1, <2>2, OnePollChanges
<1>6. ASSUME poll' = [poll EXCEPT ![p] = Finished(p)], published' = published
      PROVE  CloudInv'
  <2>1. PICK q : q = Finished(p)
    OBVIOUS
  <2>2. PollAt(q) /\ q.conversation = c /\ q.cursor = poll[p].cursor
        /\ (~cloudDisposed /\ polls[c] = p => Alive(q))
    BY <2>1, <1>1, <1>3, FinishedKept
  <2>3. poll' = [poll EXCEPT ![p] = q]
    BY <1>6, <2>1
  <2> QED BY <1>5, <1>6, <2>2, <2>3
<1>7. CASE CenterAnswers(p)
  <2>1. PICK q : q = Turned(p, poll[p].timers, "answered", log[c])
    OBVIOUS
  <2>2. q.timers = poll[p].timers /\ q.running = "answered" /\ "answered" \in Runnings
    BY <2>1, PollTyped DEF PollStates, Runnings, Turned
  <2>3. Load(q) <= Load(poll[p])
    BY <2>2, <1>1, PollTyped DEF Load
  <2>4. PollAt(q) /\ q.conversation = c /\ q.cursor = poll[p].cursor
    BY <2>1, <2>2, <2>3, <1>3, PollTyped, RunKept
  <2>5. poll' = [poll EXCEPT ![p] = q] /\ published' = published
    BY <1>7, <1>3, <2>1, PollTyped DEF CenterAnswers, PollStates, Turned
  <2>6. Alive(q)
    BY <2>2 DEF Alive
  <2> QED BY <1>5, <2>4, <2>5, <2>6
<1>8. CASE EventsLoaded(p)
  <2>1. PICK low \in 0..MaxEvents, high \in 0..MaxEvents : low = poll[p].cursor /\ high = poll[p].answer
    BY PollTyped
  <2>2. low \in Nat /\ high \in Nat
    BY <2>1, CloudAssumption
  <2>3. published' = [published EXCEPT ![c] = published[c] \o Between(low, high)]
    BY <1>8, <1>3, <2>1 DEF EventsLoaded
  <2>4. published[c] \in Seq(1..MaxEvents) /\ Between(low, high) \in Seq(1..MaxEvents)
    BY <1>4, <2>1, <2>2, BetweenTyped
  <2>5. /\ published' \in [Clouds -> Seq(1..MaxEvents)]
        /\ published'[c] = published[c] \o Between(low, high)
        /\ \A d \in Clouds : d # c => published'[d] = published[d]
    BY <2>3, <2>4, <1>4
  <2>6. CASE high > low
    <3>1. PICK q : q = [poll[p] EXCEPT !.cursor = high, !.answer = 0, !.running = "refreshing"]
      OBVIOUS
    <3>2. /\ q \in PollStates /\ q.conversation = c /\ q.cursor = high
          /\ q.timers = poll[p].timers /\ q.running = "refreshing"
      <4>1. poll[p] \in PollStates /\ high \in 0..MaxEvents /\ 0 \in 0..MaxEvents /\ "refreshing" \in Runnings
        BY <2>1, PollTyped, CloudAssumption DEF Runnings
      <4> QED BY <4>1, <3>1, <1>3 DEF PollStates
    <3>3. Load(q) = Load(poll[p])
      BY <3>2, <1>1 DEF Load
    <3>4. PollAt(q)'
      BY <3>2, <3>3, <1>2, PollTyped DEF PollAt, Load
    <3>5. poll' = [poll EXCEPT ![p] = q]
      BY <1>8, <2>1, <2>6, <3>1 DEF EventsLoaded
    <3>6. Alive(q)
      BY <3>2 DEF Alive
    <3>7. ASSUME PollsOf(c) = {p}  PROVE published'[c] = Between(0, high)
      <4>1. published[c] = Between(0, low)
        BY <3>7, <1>3, <2>1, PollTyped
      <4>2. Between(0, low) \o Between(low, high) = Between(0, high)
        <5>1. low <= high
          BY <2>2, <2>6
        <5> QED BY <2>2, <5>1, BetweenJoins
      <4> QED BY <4>1, <4>2, <2>5
    <3> QED BY <1>1, <1>2, <1>3, <2>5, <3>2, <3>4, <3>5, <3>6, <3>7, OnePollChanges
  <2>7. CASE ~(high > low)
    <3>1. Between(low, high) = <<>>
      BY <2>2, <2>7 DEF Between
    <3>2. published[c] \o Between(low, high) = published[c]
      BY <3>1, <2>4
    <3>3. published' = published
      BY <3>2, <2>3, <1>4
    <3>4. poll' = [poll EXCEPT ![p] = Finished(p)]
      BY <1>8, <2>1, <2>7 DEF EventsLoaded
    <3> QED BY <1>6, <3>3, <3>4
  <2> QED BY <2>6, <2>7
<1>9. CASE SummaryLoaded(p)
  BY <1>6, <1>9 DEF SummaryLoaded
<1>10. CASE PollFails(p)
  BY <1>6, <1>10 DEF PollFails
<1> QED BY <1>7, <1>8, <1>9, <1>10

(* A request that is done counts as one. *)
LEMMA EndedCounts ==
    ASSUME RequestInv, NEW r \in DOMAIN request, request' = Ended(r)
    PROVE  /\ DOMAIN request' = DOMAIN request /\ \A t \in DOMAIN request : request'[t] \in Request
           /\ DoneRequests' = DoneRequests \cup {r}
<1>1. request[r] \in Request
  BY DEF RequestInv
<1>2. PICK done : done = [request[r] EXCEPT !.operation = "none", !.stage = "done", !.found = {}]
  OBVIOUS
<1>3. done \in Request /\ done.stage = "done"
  BY <1>1, <1>2 DEF Request
<1>4. /\ DOMAIN request' = DOMAIN request /\ request'[r] = done
      /\ \A t \in DOMAIN request : t # r => request'[t] = request[t]
  BY <1>2 DEF Ended
<1> QED BY <1>3, <1>4 DEF RequestInv, DoneRequests

(* A poll that was asked for at once and is the first of its conversation,   *)
(* or the first since that was removed.                                      *)
LEMMA ForcedPollMade ==
    ASSUME CloudInv, NEW c \in Clouds, NEW q \in PollStates,
           q.conversation = c, q.cursor = 0, Alive(q), PollAt(q)',
           RequestInv', DoneRequests \subseteq DoneRequests',
           polls[c] = NoPoll, ~cloudDisposed, Len(poll) < MaxPolls,
           poll' = Append(poll, q), polls' = [polls EXCEPT ![c] = Len(poll) + 1],
           UNCHANGED <<cloudIds, removed, published, cloudDisposed>>
    PROVE  CloudInv'
<1> USE CloudAssumption
<1> PICK k : k = Len(poll) + 1
  OBVIOUS
<1>1. /\ poll \in Seq(PollStates) /\ Len(poll) \in Nat /\ DOMAIN poll = 1..Len(poll)
      /\ polls \in [Clouds -> 0..MaxPolls]
  BY DEF CloudInv, PollInv, CurrentInv
<1>2. /\ poll' \in Seq(PollStates) /\ Len(poll') = Len(poll) + 1
      /\ DOMAIN poll' = DOMAIN poll \cup {k} /\ k \notin DOMAIN poll /\ poll'[k] = q
      /\ \A p \in DOMAIN poll : poll'[p] = poll[p]
  BY <1>1
<1>3. PollInv'
  <2>1. ASSUME NEW p \in DOMAIN poll'  PROVE PollAt(poll[p])'
    <3>1. CASE p \in DOMAIN poll
      BY <3>1, <1>2, AllPollsKept
    <3>2. CASE p = k
      <4>1. poll'[p] = q
        BY <3>2, <1>2
      <4> QED BY <4>1 DEF PollAt, Load
    <3> QED BY <3>1, <3>2, <1>2
  <2>2. Len(poll') <= MaxPolls
    BY <1>1, <1>2
  <2> QED BY <2>1, <2>2, <1>2 DEF PollInv
<1>4. ASSUME NEW d \in Clouds
      PROVE  /\ polls'[d] \in 0..MaxPolls
             /\ polls'[d] # NoPoll =>
                  /\ polls'[d] \in DOMAIN poll' /\ poll'[polls'[d]].conversation = d
                  /\ ~cloudDisposed => Alive(poll'[polls'[d]])
             /\ polls[d] # NoPoll => polls'[d] # NoPoll
  <2>1. CASE d = c
    <3>1. polls'[d] = k /\ poll'[polls'[d]] = q
      BY <2>1, <1>1, <1>2
    <3>2. polls'[d] \in 1..MaxPolls /\ polls'[d] \in DOMAIN poll'
      BY <3>1, <1>1, <1>2
    <3> QED BY <2>1, <3>1, <3>2 DEF NoPoll
  <2>2. CASE d # c
    BY <2>2, <1>1, <1>2 DEF CloudInv, CurrentInv
  <2> QED BY <2>1, <2>2
<1>5. CurrentInv'
  <2>1. polls' \in [Clouds -> 0..MaxPolls]
    BY <1>1, <1>4
  <2> QED BY <2>1, <1>4 DEF CloudInv, RequestInv, CurrentInv, Alive
<1>6. PublishedInv'
  <2>1. ASSUME NEW d \in Clouds  PROVE PublishedBy(d)' /\ (d \notin removed' => OnePoll(d)')
    <3>1. CASE d # c
      <4>1. PollsOf(d)' = PollsOf(d)
        BY <3>1, <1>2 DEF PollsOf
      <4>2. \A p \in PollsOf(d) : poll'[p] = poll[p]
        BY <1>2 DEF PollsOf
      <4>3. PublishedBy(d)'
        BY <4>1, <4>2 DEF CloudInv, PublishedInv, PublishedBy
      <4>4. polls'[d] = polls[d]
        BY <3>1, <1>1
      <4> QED BY <4>1, <4>3, <4>4 DEF CloudInv, PublishedInv, OnePoll
    <3>2. CASE d = c
      <4>1. PollsOf(c)' = PollsOf(c) \cup {k}
        BY <1>2 DEF PollsOf
      <4>2. PollsOf(c) \subseteq DOMAIN poll
        BY DEF PollsOf
      <4>3. PublishedBy(c)'
        <5>1. CASE PollsOf(c) = {}
          <6>1. published'[c] = <<>> /\ PollsOf(c)' = {k} /\ poll'[k].cursor = 0
            BY <5>1, <4>1, <1>2 DEF CloudInv, PublishedInv, PublishedBy
          <6>2. Between(0, 0) = <<>>
            BY DEF Between
          <6> QED BY <6>1, <6>2 DEF PublishedBy
        <5>2. CASE PollsOf(c) # {}
          <6>1. \A p \in PollsOf(c)' : PollsOf(c)' # {p}
            BY <5>2, <1>2, <4>1, <4>2
          <6> QED BY <6>1, <4>1 DEF PublishedBy
        <5> QED BY <5>1, <5>2
      <4>4. ASSUME c \notin removed'  PROVE OnePoll(c)'
        <5>1. PollsOf(c) = {}
          BY <4>4 DEF CloudInv, PublishedInv, OnePoll
        <5>2. polls'[c] # NoPoll
          BY <1>1 DEF NoPoll
        <5> QED BY <5>1, <5>2, <4>1 DEF OnePoll
      <4> QED BY <3>2, <4>3, <4>4
    <3> QED BY <3>1, <3>2
  <2> QED BY <2>1 DEF CloudInv, PublishedInv
<1> QED BY <1>3, <1>5, <1>6 DEF CloudInv

LEMMA RequestStepsKept ==
    ASSUME CloudInv, NEW r \in Requests,
           CenterServes(r) \/ RequestFails(r) \/ Found(r) \/ MessageSent(r) \/ Removed(r) \/ PollsNow(r)
    PROVE  CloudInv'
<1> USE CloudAssumption
<1>1. /\ r \in DOMAIN request /\ request[r] \in Request
      /\ DOMAIN request \subseteq Requests /\ \A s \in DOMAIN request : request[s] \in Request
      /\ request[r].found \subseteq Clouds /\ request[r].conversation \in Clouds
  <2>1. r \in DOMAIN request
    BY DEF CenterServes, RequestFails, Found, MessageSent, Removed, PollsNow, Returning
  <2> QED BY <2>1 DEF CloudInv, RequestInv, Request
<1>2. ASSUME request' = Ended(r)
      PROVE  /\ DOMAIN request' = DOMAIN request /\ \A t \in DOMAIN request : request'[t] \in Request
             /\ DoneRequests' = DoneRequests \cup {r}
  BY <1>1, <1>2, EndedCounts DEF CloudInv
<1>4. CASE CenterServes(r)
  <2>1. /\ DOMAIN request' = DOMAIN request
        /\ \A t \in DOMAIN request : t # r => request'[t] = request[t]
        /\ request'[r] \in Request /\ request[r].stage # "done"
    <3>1. PICK found \in SUBSET Clouds : request' = [request EXCEPT ![r].stage = "served", ![r].found = found]
      BY <1>1, <1>4 DEF CenterServes
    <3>2. request'[r] = [request[r] EXCEPT !.stage = "served", !.found = found]
      BY <3>1, <1>1
    <3>3. request'[r] \in Request
      BY <3>2, <1>1 DEF Request
    <3> QED BY <3>1, <3>3, <1>1, <1>4 DEF CenterServes
  <2>2. center' \in [Clouds -> {"absent", "present", "deleted"}]
    BY <1>1, <1>4 DEF CenterServes, CloudInv, RequestInv
  <2>3. RequestInv'
    BY <2>1, <2>2, <1>1, <1>4 DEF CenterServes, CloudInv, RequestInv
  <2>4. DoneRequests \subseteq DoneRequests'
    BY <2>1, <1>1 DEF DoneRequests
  <2> QED BY <2>3, <2>4, <1>4, NoPollChanges DEF CenterServes
<1>5. CASE RequestFails(r)
  <2>1. RequestInv' /\ DoneRequests \subseteq DoneRequests'
    BY <1>1, <1>2, <1>5 DEF RequestFails, CloudInv, RequestInv
  <2> QED BY <2>1, <1>5, NoPollChanges DEF RequestFails
<1>6. CASE Found(r)
  <2>1. RequestInv' /\ DoneRequests \subseteq DoneRequests'
    BY <1>1, <1>2, <1>6 DEF Found, Returning, CloudInv, RequestInv
  <2> QED BY <2>1, <1>1, <1>6, StartPollingKept DEF Found
<1>7. CASE MessageSent(r)
  <2>1. RequestInv' /\ DoneRequests \subseteq DoneRequests'
    BY <1>1, <1>2, <1>7 DEF MessageSent, Returning, CloudInv, RequestInv
  <2>2. cloudIds' \subseteq cloudIds \cup request[r].found
    BY <1>7 DEF MessageSent
  <2> QED BY <2>1, <2>2, <1>1, <1>7, StartPollingKept DEF MessageSent
<1>8. CASE Removed(r)
  <2>1. RequestInv' /\ DoneRequests \subseteq DoneRequests'
    BY <1>1, <1>2, <1>8 DEF Removed, Returning, CloudInv, RequestInv
  <2> QED BY <2>1, <1>1, <1>8, StopPollingKept DEF Removed
<1>9. CASE PollsNow(r)
  <2>1. PICK c \in Clouds : c = request[r].conversation
    BY <1>1
  <2>2. RequestInv' /\ DoneRequests \subseteq DoneRequests'
    BY <1>1, <1>2, <1>9 DEF PollsNow, CloudInv, RequestInv
  <2>3. DoneRequests' = DoneRequests \cup {r} /\ r \notin DoneRequests
    BY <1>2, <1>9 DEF PollsNow, DoneRequests
  <2>4. /\ IsFiniteSet(DoneRequests) /\ Cardinality(DoneRequests) \in Nat
        /\ Cardinality(DoneRequests') = Cardinality(DoneRequests) + 1
    <3>1. IsFiniteSet(DoneRequests)
      <4>1. DoneRequests \subseteq Requests
        BY DEF DoneRequests, CloudInv, RequestInv
      <4> QED BY <4>1, FS_Subset
    <3> QED BY <3>1, <2>3, FS_AddElement, FS_CardinalityType
  <2>5. UNCHANGED <<cloudIds, removed, published, cloudDisposed>>
    BY <1>9 DEF PollsNow
  <2>6. published \in [Clouds -> Seq(1..MaxEvents)]
    BY DEF CloudInv, PublishedInv
  <2>7. CASE polls[c] # NoPoll /\ UNCHANGED polls
             /\ poll' = [poll EXCEPT ![polls[c]].running =
                            IF MayPoll(polls[c]) THEN "loading" ELSE @]
    <3>1. PICK p \in DOMAIN poll : p = polls[c] /\ poll[p].conversation = c
                                  /\ (~cloudDisposed => Alive(poll[p]))
      BY <2>7 DEF CloudInv, CurrentInv
    <3>2. PICK run \in Runnings :
            run = IF MayPoll(p) THEN "loading" ELSE poll[p].running
      BY PollTyped DEF Runnings
    <3>3. PICK q : q = [poll[p] EXCEPT !.running = run]
      OBVIOUS
    <3>4. /\ q \in PollStates /\ q.conversation = c /\ q.cursor = poll[p].cursor
          /\ q.timers = poll[p].timers /\ q.running = run
      BY <3>1, <3>3, PollTyped DEF PollStates
    <3>5. Load(q) <= Load(poll[p]) + 1 /\ Load(q) \in Nat /\ Load(poll[p]) \in Nat
      BY <3>4, PollTyped DEF Load
    <3>6. Load(q) <= 1 + Cardinality(DoneRequests')
      BY <3>5, <2>4, PollTyped DEF PollAt
    <3>7. PollAt(q)'
      BY <3>4, <3>6 DEF PollAt, Load
    <3>8. poll' = [poll EXCEPT ![p] = q]
      BY <2>7, <3>1, <3>2, <3>3
    <3>9. ~cloudDisposed => Alive(q)
      BY <3>1, <3>2, <3>4 DEF Alive
    <3>10. PollsOf(c) = {p} => published'[c] = Between(0, q.cursor)
      BY <3>1, <3>4, <2>5, PollTyped
    <3> QED BY <2>2, <2>5, <2>6, <2>7, <3>1, <3>4, <3>7, <3>8, <3>9, <3>10, OnePollChanges
  <2>8. CASE UNCHANGED <<polls, poll>>
    BY <2>2, <2>5, <2>8, NoPollChanges
  <2>9. CASE /\ polls[c] = NoPoll /\ ~cloudDisposed /\ Len(poll) < MaxPolls
             /\ poll' = Append(poll, [NewPoll(c) EXCEPT !.running = "loading"])
             /\ polls' = [polls EXCEPT ![c] = Len(poll) + 1]
    <3>1. PICK q : q = [NewPoll(c) EXCEPT !.running = "loading"]
      OBVIOUS
    <3>2. /\ q \in PollStates /\ q.conversation = c /\ q.cursor = 0 /\ q.timers = 1
          /\ q.running = "loading"
      BY <3>1 DEF NewPoll, PollStates, Runnings
    <3>3. Alive(q) /\ PollAt(q)'
      BY <3>2, <2>4 DEF Alive, PollAt, Load
    <3>4. poll' = Append(poll, q)
      BY <2>9, <3>1
    <3> QED BY <2>2, <2>5, <2>9, <3>2, <3>3, <3>4, ForcedPollMade
  <2> QED BY <2>1, <2>7, <2>8, <2>9, <1>9, Zenon DEF PollsNow
<1> QED BY <1>4, <1>5, <1>6, <1>7, <1>8, <1>9

LEMMA CloudStepKept == CloudInv /\ [CloudNext]_cloudVars => CloudInv'
<1> SUFFICES ASSUME CloudInv, [CloudNext]_cloudVars  PROVE CloudInv'
  OBVIOUS
<1> USE CloudAssumption
<1>1. CASE Dispose
  <2>1. RequestInv' /\ DoneRequests \subseteq DoneRequests'
    BY <1>1 DEF Dispose, CloudInv, RequestInv, DoneRequests
  <2> QED BY <2>1, <1>1, StopPollingKept DEF Dispose
<1>2. ASSUME NEW c \in Clouds, CenterAppends(c)  PROVE CloudInv'
  <2>1. log' \in [Clouds -> 0..MaxEvents]
    BY <1>2 DEF CenterAppends, CloudInv, RequestInv
  <2>2. RequestInv' /\ DoneRequests \subseteq DoneRequests'
    BY <1>2, <2>1 DEF CenterAppends, CloudInv, RequestInv, DoneRequests
  <2> QED BY <1>2, <2>2, NoPollChanges DEF CenterAppends
<1>3. ASSUME NEW c \in Clouds, NEW r \in Requests, NEW operation \in Operations,
             Asks(r, operation, c)
      PROVE  CloudInv'
  <2>1. /\ DOMAIN request' = DOMAIN request \cup {r} /\ r \notin DOMAIN request
        /\ request'[r] \in Request
        /\ \A s \in DOMAIN request : request'[s] = request[s]
    BY <1>3 DEF Asks, With, Fresh, Request
  <2>2. RequestInv'
    BY <1>3, <2>1 DEF Asks, CloudInv, RequestInv
  <2>3. DoneRequests \subseteq DoneRequests'
    BY <2>1 DEF DoneRequests
  <2> QED BY <1>3, <2>2, <2>3, NoPollChanges DEF Asks
<1>4. ASSUME NEW p \in Polls,
             \/ PollTimerFires(p) \/ CenterAnswers(p) \/ EventsLoaded(p) \/ SummaryLoaded(p)
             \/ PollFails(p)
      PROVE  CloudInv'
  <2>1. p \in DOMAIN poll
    BY <1>4 DEF PollTimerFires, CenterAnswers, EventsLoaded, SummaryLoaded, PollFails
  <2> QED BY <1>4, <2>1, TimersKept, AnswersKept
<1>5. CASE UNCHANGED cloudVars
  <2>1. RequestInv' /\ DoneRequests \subseteq DoneRequests'
    BY <1>5 DEF cloudVars, CloudInv, RequestInv, DoneRequests
  <2> QED BY <1>5, <2>1, NoPollChanges DEF cloudVars
<1> QED BY <1>1, <1>2, <1>3, <1>4, <1>5, RequestStepsKept DEF CloudNext

LEMMA CloudInvHolds == CloudSpec => []CloudInv
BY CloudInitInv, CloudStepKept, PTL DEF CloudSpec

(* The state of the polls, the requests and Center has its types: the timers *)
(* of a poll are the one it armed and those that forced polls left behind.   *)
THEOREM CloudTypeCorrect == CloudSpec => []CloudTypeOK
<1>1. ASSUME CloudInv  PROVE CloudTypeOK
  <2> USE CloudAssumption
  <2>1. ASSUME NEW p \in DOMAIN poll  PROVE poll[p] \in Poll
    <3>1. Load(poll[p]) <= 1 + Cardinality(DoneRequests) /\ Load(poll[p]) \in Nat
          /\ poll[p].timers <= Load(poll[p])
      BY <1>1, PollTyped DEF PollAt, Load
    <3>2. Cardinality(DoneRequests) \in Nat /\ Cardinality(Requests) \in Nat
          /\ Cardinality(DoneRequests) <= Cardinality(Requests)
      <4>1. DoneRequests \subseteq Requests
        BY <1>1 DEF CloudInv, RequestInv, DoneRequests
      <4> QED BY <4>1, FS_Subset, FS_CardinalityType
    <3>3. poll[p].timers \in 0..(1 + Cardinality(Requests))
      BY <1>1, <3>1, <3>2, PollTyped
    <3> QED BY <1>1, <3>3, PollTyped DEF Poll, PollStates, Runnings
  <2>2. poll \in Seq(Poll)
    <3>1. poll \in Seq(PollStates)
      BY <1>1 DEF CloudInv, PollInv
    <3>2. poll \in [1..Len(poll) -> Poll] /\ Len(poll) \in Nat
      BY <3>1, <2>1
    <3> QED BY <3>2
  <2> QED BY <1>1, <2>2 DEF CloudInv, RequestInv, PollInv, PublishedInv, CurrentInv, CloudTypeOK
<1> QED BY <1>1, CloudInvHolds, PTL

(* Whatever lists, openings, sends, forced polls, failures and late answers  *)
(* do meanwhile, one poll publishes the events of a conversation in order,   *)
(* each once and none skipped; only one whose removal has returned may get   *)
(* another poll, which begins again.                                         *)
THEOREM CloudEventsInOrder == CloudSpec => []EventsInOrder
<1>1. CloudInv => EventsInOrder
  BY DEF CloudInv, PublishedInv, PublishedBy, OnePoll, EventsInOrder
<1> QED BY <1>1, CloudInvHolds, PTL

(* Until the service is disposed, each conversation known to be in the cloud *)
(* has a poll that waits for an answer or has a timer armed.                 *)
THEOREM CloudsStayPolled == CloudSpec => []KnownCloudsArePolled
<1>1. CloudInv => KnownCloudsArePolled
  BY DEF CloudInv, CurrentInv, RequestInv, Alive, KnownCloudsArePolled
<1> QED BY <1>1, CloudInvHolds, PTL

-----------------------------------------------------------------------------
(* ChannelComposer: a text shown as saved is saved, and a submitted one is   *)
(* kept until it is delivered, for any number of accounts, texts,            *)
(* submissions, messages and retries.                                        *)

(* The invariant follows the text, of the account whose drafts are shown,    *)
(* also while it is not connected or another one is: the load and the flush  *)
(* are its own, or the account is one the catalog may differ from. An empty  *)
(* text comes from the user, or nothing was shown yet when it would be       *)
(* saved, or a batch has been delivered.                                     *)

SomeDelivered == \E s \in Submissions : submission[s].stage = "sent" /\ Delivered(s)

FlushRecords == [account : Accounts, current : BOOLEAN, draft : Drafts]

AccountTypes ==
  /\ connections \in 0..MaxConnections
  /\ account \in Accounts \cup {NoAccount}
  /\ loadedFor \in Accounts \cup {NoAccount}
  /\ opened \in BOOLEAN
  /\ load \in Accounts \cup {NoAccount}
DraftTypes ==
  /\ draft \in Drafts
  /\ dirty \in BOOLEAN
  /\ saveTimer \in BOOLEAN
  /\ flush = NoFlush \/ flush \in FlushRecords
  /\ restoring \subseteq Drafts
DiskTypes == disk \in [Accounts -> Drafts] /\ unsure \subseteq Accounts
SubmissionTypes ==
  /\ submission \in [Submissions -> [draft : Drafts, parts : 0..MaxParts, current : BOOLEAN,
                                     stage : {"new", "flushing", "sent", "dropped"}]]
  /\ batch \in [Submissions -> SUBSET Parts]
AttemptTypes ==
  /\ attempt \in [Messages -> [status : Statuses, try : 0..MaxTries]]
  /\ flights \subseteq Messages \X (1..MaxTries)
  /\ posted \subseteq Messages
ComposerTypes == AccountTypes /\ DraftTypes /\ DiskTypes /\ SubmissionTypes /\ AttemptTypes

(* Only the drafts of the account that is shown are being loaded. *)
AccountInv == load # NoAccount => load = loadedFor

(* What is not dirty is being saved, or is saved. *)
SavedInv ==
  loadedFor # NoAccount /\ load = NoAccount /\ loadedFor \notin unsure =>
    /\ flush # NoFlush => /\ flush.account = loadedFor /\ flush.current
                          /\ ~dirty => flush.draft.text = draft.text
    /\ flush = NoFlush /\ ~dirty => disk[loadedFor].text = draft.text

(* The messages of a submission that are not in its batch are confirmed. *)
BatchInv ==
  \A s \in Submissions :
    /\ submission[s].stage # "new" => submission[s].draft.text # Blank
    /\ batch[s] # {} =>
         /\ submission[s].stage = "sent"
         /\ \A p \in 1..submission[s].parts : p \notin batch[s] => <<s, p>> \in posted

(* Where an empty text comes from. *)
BlankInv ==
  /\ \A a \in Accounts : disk[a].text = Blank => disk[a] = NoDraft
  /\ \A d \in restoring : d.text # Blank
  /\ draft.text = Blank /\ draft # NoDraft => draft.of = loadedFor

(* Until a batch is delivered, a missing draft is not about to be saved.     *)
MissingInv ==
  ~SomeDelivered /\ draft = NoDraft /\ loadedFor \notin unsure /\ (dirty \/ flush # NoFlush) =>
    /\ ~(dirty /\ flush # NoFlush)
    /\ ~saveTimer

EmptiedInv ==
  ~SomeDelivered /\ flush # NoFlush /\ flush.draft.text = Blank /\ flush.account \notin unsure
    => flush.draft.of = flush.account

ComposerInv == /\ ComposerTypes /\ AccountInv /\ SavedInv
               /\ BatchInv /\ BlankInv /\ MissingInv /\ EmptiedInv

-----------------------------------------------------------------------------
(* The types. *)

LEMMA RecordFacts ==
    /\ NoDraft \in Drafts /\ NoDraft.text = Blank
    /\ \A d \in Drafts : d # NoDraft => d.of \in Accounts /\ d.text \in Texts \cup {Blank}
    /\ \A d \in Drafts : d.text # Blank => d # NoDraft
    /\ \A a \in Accounts, t \in Texts \cup {Blank} :
         LET d == [of |-> a, text |-> t] IN d \in Drafts /\ d # NoDraft /\ d.of = a /\ d.text = t
    /\ \A f \in FlushRecords : f # NoFlush /\ f.account \in Accounts /\ f.account # NoAccount
                               /\ f.draft \in Drafts /\ f.current \in BOOLEAN
<1>1. \A f \in FlushRecords : f.account \in Accounts /\ f.account # NoAccount
                               /\ f.draft \in Drafts /\ f.current \in BOOLEAN
  BY ComposerAssumption DEF FlushRecords
<1>2. NoFlush.account = NoAccount
  BY DEF NoFlush
<1>3. /\ NoDraft \in Drafts /\ NoDraft.text = Blank /\ NoDraft.of = NoAccount
  BY DEF NoDraft, Drafts
<1>4. \A a \in Accounts, t \in Texts \cup {Blank} :
         LET d == [of |-> a, text |-> t] IN d \in Drafts /\ d # NoDraft /\ d.of = a /\ d.text = t
  BY <1>3, ComposerAssumption DEF Drafts
<1>5. \A d \in Drafts : d # NoDraft => d.of \in Accounts /\ d.text \in Texts \cup {Blank}
  BY DEF Drafts
<1> QED BY <1>1, <1>2, <1>3, <1>4, <1>5

LEMMA FlushDraftTyped ==
    ASSUME NEW d \in Drafts, NEW isDirty \in BOOLEAN, AccountTypes, unsure \subseteq Accounts,
           flush = NoFlush \/ flush \in FlushRecords, FlushDraft(d, isDirty)
    PROVE  /\ saveTimer' = FALSE /\ dirty' \in BOOLEAN
           /\ flush' = NoFlush \/ flush' \in FlushRecords
           /\ unsure' \subseteq Accounts /\ unsure \subseteq unsure'
BY DEF FlushDraft, CanFlush, AccountTypes, FlushRecords, Astray

LEMMA SaveTyped ==
    ASSUME flush # NoFlush, DraftTypes, AccountTypes, DiskTypes, Save,
           unsure' \subseteq unsure \cup Overlapped \cup Astray
    PROVE  DiskTypes'
<1>1. flush.account \in Accounts /\ flush.draft \in Drafts /\ NoDraft \in Drafts
  BY RecordFacts DEF DraftTypes
<1>2. unsure' \subseteq Accounts
  BY <1>1 DEF Overlapped, Astray, AccountTypes, DiskTypes
<1> QED BY <1>1, <1>2 DEF Save, DiskTypes

LEMMA AttemptsRemoved ==
    ASSUME AttemptTypes, NEW set, RemoveAttempts(set), posted' \subseteq Messages
    PROVE  AttemptTypes'
<1>1. NoAttempt \in [status : Statuses, try : 0..MaxTries]
  BY ComposerAssumption DEF NoAttempt, Statuses
<1> QED BY <1>1 DEF RemoveAttempts, AttemptTypes

LEMMA AttemptsCleared ==
    ASSUME AttemptTypes, SubmissionTypes, ClearAttempts, UNCHANGED posted
    PROVE  AttemptTypes' /\ batch' = [s \in Submissions |-> {}]
           /\ batch' \in [Submissions -> SUBSET Parts]
BY AttemptsRemoved DEF ClearAttempts, SubmissionTypes, AttemptTypes

LEMMA AttemptsBegin ==
    ASSUME AttemptTypes, NEW new \in SUBSET Messages,
           attempt' = [m \in Messages |-> IF m \in new THEN [status |-> "sending", try |-> 1]
                                          ELSE attempt[m]],
           flights' = flights \cup {<<m, 1>> : m \in new}, UNCHANGED posted
    PROVE  AttemptTypes'
<1>1. 1 \in 1..MaxTries /\ [status |-> "sending", try |-> 1] \in [status : Statuses, try : 0..MaxTries]
  BY ComposerAssumption DEF Statuses
<1>2. attempt' \in [Messages -> [status : Statuses, try : 0..MaxTries]]
  BY <1>1 DEF AttemptTypes
<1>3. {<<m, 1>> : m \in new} \subseteq Messages \X (1..MaxTries)
  BY <1>1
<1> QED BY <1>2, <1>3 DEF AttemptTypes

LEMMA GoOnTyped ==
    ASSUME AttemptTypes, SubmissionTypes, GoOn, UNCHANGED posted
    PROVE  AttemptTypes' /\ SubmissionTypes'
<1> PICK going : going = {s \in Flushing : submission[s].current /\ opened}
  OBVIOUS
<1>1. /\ submission' = [s \in Submissions |->
            IF s \in going THEN [submission[s] EXCEPT !.stage = "sent"]
            ELSE IF s \in Flushing THEN [submission[s] EXCEPT !.stage = "dropped"]
            ELSE submission[s]]
      /\ SendAll(going) /\ going \subseteq Submissions
  BY DEF GoOn, Flushing
<1>2. submission' \in [Submissions -> [draft : Drafts, parts : 0..MaxParts, current : BOOLEAN,
                                       stage : {"new", "flushing", "sent", "dropped"}]]
  BY <1>1 DEF SubmissionTypes
<1>3. \A s \in Submissions : 1..submission[s].parts \subseteq Parts
  BY ComposerAssumption DEF SubmissionTypes, Parts
<1>4. batch' \in [Submissions -> SUBSET Parts]
  BY <1>1, <1>3 DEF SendAll, SubmissionTypes
<1>5. AttemptTypes'
  <2> PICK new : new = {m \in Messages : m[1] \in going /\ m[2] <= submission[m[1]].parts}
    OBVIOUS
  <2> QED BY <1>1, AttemptsBegin DEF SendAll
<1> QED BY <1>2, <1>4, <1>5 DEF SubmissionTypes

LEMMA SaveDraftTypes ==
    ASSUME ComposerTypes, SaveDraft \/ FlushAgain \/ FlushEnds \/ FlushFails
    PROVE  ComposerTypes'
<1> USE DEF ComposerTypes
<1>1. CASE SaveDraft
  <2>1. DraftTypes' /\ unsure' \subseteq Accounts
    BY <1>1, FlushDraftTyped DEF SaveDraft, DraftTypes, DiskTypes
  <2> QED BY <1>1, <2>1 DEF SaveDraft, AccountTypes, DiskTypes, SubmissionTypes, AttemptTypes
<1>2. CASE FlushAgain
  <2>1. DiskTypes'
    BY <1>2, SaveTyped DEF FlushAgain
  <2>2. flush' \in FlushRecords
    <3>1. flush \in FlushRecords
      BY <1>2 DEF FlushAgain, DraftTypes
    <3> QED BY <1>2, <3>1 DEF FlushAgain, DraftTypes, FlushRecords
  <2> QED BY <1>2, <2>1, <2>2
        DEF FlushAgain, DraftTypes, AccountTypes, SubmissionTypes, AttemptTypes
<1>3. CASE FlushEnds
  <2>1. DiskTypes'
    BY <1>3, SaveTyped DEF FlushEnds
  <2>2. AttemptTypes' /\ SubmissionTypes'
    BY <1>3, GoOnTyped DEF FlushEnds
  <2>3. saveTimer' \in BOOLEAN
    BY <1>3 DEF FlushEnds, DraftTypes
  <2> QED BY <1>3, <2>1, <2>2, <2>3 DEF FlushEnds, DraftTypes, AccountTypes
<1>4. CASE FlushFails
  <2>1. submission' \in [Submissions -> [draft : Drafts, parts : 0..MaxParts, current : BOOLEAN,
                                         stage : {"new", "flushing", "sent", "dropped"}]]
    BY <1>4 DEF FlushFails, SubmissionTypes
  <2>2. SubmissionTypes' /\ AttemptTypes' /\ AccountTypes'
    BY <1>4, <2>1 DEF FlushFails, SubmissionTypes, AttemptTypes, AccountTypes
  <2>3. DiskTypes'
    BY <1>4, RecordFacts DEF FlushFails, DiskTypes, DraftTypes
  <2>4. draft' \in Drafts /\ saveTimer' \in BOOLEAN /\ dirty' \in BOOLEAN
    BY <1>4 DEF FlushFails, DraftTypes, SameFlush
  <2> QED BY <1>4, <2>2, <2>3, <2>4 DEF FlushFails, DraftTypes
<1> QED BY <1>1, <1>2, <1>3, <1>4

LEMMA LifecycleEnds ==
    ASSUME SubmissionTypes,
           submission' = [s \in Submissions |-> [submission[s] EXCEPT !.current = FALSE]]
    PROVE  submission' \in [Submissions -> [draft : Drafts, parts : 0..MaxParts, current : BOOLEAN,
                                            stage : {"new", "flushing", "sent", "dropped"}]]
BY DEF SubmissionTypes

LEMMA AccountStepTypes ==
    ASSUME ComposerTypes,
           \/ Offline \/ LoggedOut \/ SelectChannel \/ Configure \/ Loaded \/ LoadFails
           \/ ChannelDeleted \/ \E a \in Accounts : Connecting(a) \/ Connected(a)
    PROVE  ComposerTypes'
<1> USE RecordFacts DEF ComposerTypes
<1>1. CASE Offline \/ SelectChannel \/ LoadFails
  <2>1. AccountTypes' /\ DraftTypes'
    BY <1>1 DEF Offline, SelectChannel, LoadFails, AccountTypes, DraftTypes
  <2>2. DiskTypes'
    BY <1>1 DEF Offline, SelectChannel, LoadFails, AccountTypes, DiskTypes
  <2> QED BY <1>1, <2>1, <2>2 DEF Offline, SelectChannel, LoadFails, SubmissionTypes, AttemptTypes
<1>2. CASE LoggedOut
  <2>1. AttemptTypes' /\ SubmissionTypes'
    BY <1>2, AttemptsCleared DEF LoggedOut, SubmissionTypes
  <2> QED BY <1>2, <2>1 DEF LoggedOut, AccountTypes, DraftTypes, DiskTypes
<1>3. CASE ChannelDeleted
  <2>1. AttemptTypes' /\ SubmissionTypes'
    BY <1>3, AttemptsCleared DEF ChannelDeleted, SubmissionTypes
  <2> QED BY <1>3, <2>1 DEF ChannelDeleted, AccountTypes, DraftTypes, DiskTypes
<1>4. CASE Configure
  <2>1. AttemptTypes' /\ batch' \in [Submissions -> SUBSET Parts]
    BY <1>4, AttemptsCleared DEF Configure
  <2>2. SubmissionTypes'
    <3>1. submission' \in [Submissions -> [draft : Drafts, parts : 0..MaxParts, current : BOOLEAN,
                                           stage : {"new", "flushing", "sent", "dropped"}]]
      BY <1>4, LifecycleEnds DEF Configure
    <3> QED BY <2>1, <3>1 DEF SubmissionTypes
  <2>3. flush' = NoFlush \/ flush' \in FlushRecords
    BY <1>4 DEF Configure, DraftTypes, FlushRecords
  <2> QED BY <1>4, <2>1, <2>2, <2>3 DEF Configure, AccountTypes, DraftTypes, DiskTypes
<1>5. CASE Loaded
  BY <1>5 DEF Loaded, AccountTypes, DraftTypes, DiskTypes, SubmissionTypes, AttemptTypes
<1>6. ASSUME NEW a \in Accounts, Connected(a)  PROVE ComposerTypes'
  <2>1. AttemptTypes'
    BY <1>6, AttemptsRemoved DEF Connected, AttemptTypes
  <2>2. SubmissionTypes'
    BY <1>6 DEF Connected, SubmissionTypes
  <2>3. connections' \in 0..MaxConnections
    BY <1>6, ComposerAssumption DEF Connected, AccountTypes
  <2> QED BY <1>6, <2>1, <2>2, <2>3 DEF Connected, AccountTypes, DraftTypes, DiskTypes
<1>7. ASSUME NEW a \in Accounts, Connecting(a)  PROVE ComposerTypes'
  <2>1. connections' \in 0..MaxConnections
    BY <1>7, ComposerAssumption DEF Connecting, AccountTypes
  <2>2. AttemptTypes' /\ SubmissionTypes'
    BY <1>7, AttemptsCleared DEF Connecting, AttemptTypes, SubmissionTypes
  <2> QED BY <1>7, <2>1, <2>2 DEF Connecting, AccountTypes, DraftTypes, DiskTypes
<1> QED BY <1>1, <1>2, <1>3, <1>4, <1>5, <1>6, <1>7

LEMMA SubmitTypes ==
    ASSUME ComposerTypes, NEW s \in Submissions, NEW parts \in Parts,
           Submit(s, parts) \/ SubmitUnsaved(s, parts)
    PROVE  ComposerTypes'
<1> USE RecordFacts DEF ComposerTypes
<1>0. parts \in 0..MaxParts /\ 1..parts \subseteq Parts
  BY ComposerAssumption DEF Parts
<1>1. CASE Submit(s, parts)
  <2>1. draft' \in Drafts
    BY <1>1 DEF Submit, MayUpdate, DraftTypes, AccountTypes, Drafts
  <2>2. /\ saveTimer' = FALSE /\ dirty' \in BOOLEAN /\ (flush' = NoFlush \/ flush' \in FlushRecords)
        /\ unsure' \subseteq Accounts
    BY <1>1, <2>1, FlushDraftTyped DEF Submit, DraftTypes, DiskTypes, MayUpdate, AccountTypes
  <2>3. SubmissionTypes'
    BY <1>0, <1>1 DEF Submit, SubmissionTypes, DraftTypes
  <2> QED BY <1>1, <2>1, <2>2, <2>3 DEF Submit, AccountTypes, DraftTypes, DiskTypes, AttemptTypes
<1>2. CASE SubmitUnsaved(s, parts)
  <2>1. SubmissionTypes'
    BY <1>0, <1>2 DEF SubmitUnsaved, SubmissionTypes, DraftTypes
  <2>2. AttemptTypes'
    <3> PICK new : new = {<<s, p>> : p \in 1..parts}
      OBVIOUS
    <3>1. new \subseteq Messages
      BY <1>0 DEF Messages
    <3> QED BY <1>2, <3>1, AttemptsBegin DEF SubmitUnsaved
  <2> QED BY <1>2, <2>1, <2>2 DEF SubmitUnsaved, AccountTypes, DraftTypes, DiskTypes
<1> QED BY <1>1, <1>2

(* A message is confirmed: its attempt goes, and the draft with the last.   *)
LEMMA ConfirmTypes ==
    ASSUME ComposerTypes, NEW m \in Messages, Confirm(m),
           UNCHANGED <<connections, account, loadedFor, opened, load, disk, submission>>
    PROVE  ComposerTypes'
<1> USE RecordFacts DEF ComposerTypes
<1>1. m[1] \in Submissions /\ m[2] \in Parts
  BY DEF Messages
<1>2. AttemptTypes'
  BY AttemptsRemoved DEF Confirm, AttemptTypes
<1>3. SubmissionTypes'
  BY <1>1 DEF Confirm, SubmissionTypes
<1>4. DraftTypes' /\ unsure' \subseteq Accounts
  BY FlushDraftTyped DEF Confirm, DraftTypes, DiskTypes
<1> QED BY <1>2, <1>3, <1>4 DEF AccountTypes, DiskTypes

LEMMA OutgoingTypes ==
    ASSUME ComposerTypes, NEW m \in Messages,
           \/ Upserted(m) \/ RetryOutgoing(m) \/ CancelOutgoing(m) \/ DismissOutgoing(m)
           \/ \E try \in 1..MaxTries : SendSucceeds(m, try) \/ SendFails(m, try)
    PROVE  ComposerTypes'
<1> USE RecordFacts DEF ComposerTypes
<1>1. CASE Upserted(m) \/ \E try \in 1..MaxTries : SendSucceeds(m, try)
  BY <1>1, ConfirmTypes DEF Upserted, SendSucceeds
<1>2. CASE RetryOutgoing(m)
  <2>1. attempt[m].try + 1 \in 1..MaxTries
    BY <1>2, ComposerAssumption DEF RetryOutgoing, AttemptTypes
  <2> QED BY <1>2, <2>1 DEF RetryOutgoing, AccountTypes, DraftTypes, DiskTypes, SubmissionTypes,
                            AttemptTypes, Statuses
<1>3. CASE CancelOutgoing(m)
  BY <1>3 DEF CancelOutgoing, AccountTypes, DraftTypes, DiskTypes, SubmissionTypes,
              AttemptTypes, Statuses
<1>4. CASE DismissOutgoing(m)
  <2>1. AttemptTypes'
    BY <1>4, AttemptsRemoved DEF DismissOutgoing, AttemptTypes
  <2> QED BY <1>4, <2>1 DEF DismissOutgoing, AccountTypes, DraftTypes, DiskTypes, SubmissionTypes
<1>5. ASSUME NEW try \in 1..MaxTries, SendFails(m, try)  PROVE ComposerTypes'
  BY <1>5 DEF SendFails, AccountTypes, DraftTypes, DiskTypes, SubmissionTypes, AttemptTypes, Statuses
<1> QED BY <1>1, <1>2, <1>3, <1>4, <1>5

LEMMA TypingTypes ==
    ASSUME ComposerTypes, NEW t \in Texts \cup {Blank}, UpdateDraft(t)
    PROVE  ComposerTypes'
<1>1. draft' \in Drafts
  BY RecordFacts DEF UpdateDraft, MayUpdate, ComposerTypes, AccountTypes
<1> QED BY <1>1 DEF UpdateDraft, ComposerTypes, AccountTypes, DraftTypes, DiskTypes,
                    SubmissionTypes, AttemptTypes

LEMMA ComposerTypesKept == ComposerTypes /\ [ComposerNext]_composerVars => ComposerTypes'
<1> SUFFICES ASSUME ComposerTypes, [ComposerNext]_composerVars  PROVE ComposerTypes'
  OBVIOUS
<1>1. CASE UNCHANGED composerVars
  BY <1>1 DEF composerVars, ComposerTypes, AccountTypes, DraftTypes, DiskTypes, SubmissionTypes,
              AttemptTypes
<1> QED BY <1>1, SaveDraftTypes, AccountStepTypes, SubmitTypes, OutgoingTypes, TypingTypes
        DEF ComposerNext

LEMMA ComposerInitTypes == ComposerInit => ComposerTypes
<1> SUFFICES ASSUME ComposerInit  PROVE ComposerTypes
  OBVIOUS
<1>0. AccountTypes
  <2>1. 0 \in 0..MaxConnections
    BY ComposerAssumption
  <2> QED BY <2>1 DEF ComposerInit, AccountTypes
<1> USE RecordFacts, ComposerAssumption
<1>1. DraftTypes /\ DiskTypes
  BY DEF ComposerInit, DraftTypes, DiskTypes
<1>2. SubmissionTypes
  BY DEF ComposerInit, SubmissionTypes
<1>3. AttemptTypes
  BY DEF ComposerInit, AttemptTypes, NoAttempt, Statuses
<1> QED BY <1>0, <1>1, <1>2, <1>3 DEF ComposerTypes

-----------------------------------------------------------------------------
(* What is in front, and what is saved. *)

(* What the steps that neither load nor save leave alone. *)
textVars == <<account, loadedFor, load, draft, dirty, saveTimer, flush, restoring, disk, unsure>>

LEMMA SendingStepsQuiet ==
    ASSUME NEW m \in Messages,
           \/ RetryOutgoing(m) \/ CancelOutgoing(m) \/ DismissOutgoing(m)
           \/ \E try \in 1..MaxTries : SendFails(m, try)
    PROVE  UNCHANGED textVars /\ UNCHANGED <<submission, posted>>
BY DEF RetryOutgoing, CancelOutgoing, DismissOutgoing, SendFails, textVars

(* A message is confirmed in the steps that answer a send or echo it. *)
LEMMA ConfirmingSteps ==
    ASSUME NEW m \in Messages,
           Upserted(m) \/ \E try \in 1..MaxTries : SendSucceeds(m, try)
    PROVE  Confirm(m) /\ UNCHANGED <<account, loadedFor, load, disk, submission>>
BY DEF Upserted, SendSucceeds

LEMMA AccountKept == ComposerTypes /\ AccountInv /\ [ComposerNext]_composerVars => AccountInv'
<1> SUFFICES ASSUME ComposerTypes, AccountInv, [ComposerNext]_composerVars  PROVE AccountInv'
  OBVIOUS
<1>1. CASE UNCHANGED <<account, loadedFor, load>>
  BY <1>1 DEF AccountInv
<1>2. CASE \/ Offline \/ LoggedOut \/ Configure \/ Loaded \/ LoadFails
           \/ \E a \in Accounts : Connecting(a) \/ Connected(a)
  BY <1>2 DEF Offline, LoggedOut, Configure, Loaded, LoadFails, Connecting, Connected, AccountInv
<1>3. CASE \/ SaveDraft \/ FlushAgain \/ FlushEnds \/ FlushFails \/ SelectChannel \/ ChannelDeleted
           \/ \E t \in Texts \cup {Blank} : UpdateDraft(t)
           \/ \E s \in Submissions, parts \in Parts : Submit(s, parts) \/ SubmitUnsaved(s, parts)
  BY <1>1, <1>3 DEF SaveDraft, FlushAgain, FlushEnds, FlushFails, SelectChannel, ChannelDeleted,
                    UpdateDraft, Submit, SubmitUnsaved
<1>4. ASSUME NEW m \in Messages,
             \/ Upserted(m) \/ RetryOutgoing(m) \/ CancelOutgoing(m) \/ DismissOutgoing(m)
             \/ \E try \in 1..MaxTries : SendSucceeds(m, try) \/ SendFails(m, try)
      PROVE  AccountInv'
  BY <1>1, <1>4, SendingStepsQuiet, ConfirmingSteps DEF textVars
<1>5. CASE UNCHANGED composerVars
  BY <1>1, <1>5 DEF composerVars
<1> QED BY <1>2, <1>3, <1>4, <1>5 DEF ComposerNext

(* flushDraft, of a draft that is or becomes the one shown. *)
LEMMA FlushDraftSaves ==
    ASSUME ComposerTypes, SavedInv, NEW d, NEW isDirty \in BOOLEAN, FlushDraft(d, isDirty),
           draft' = d, ~isDirty => ~dirty /\ d.text = draft.text,
           UNCHANGED <<loadedFor, account, load, disk>>
    PROVE  SavedInv'
<1> SUFFICES ASSUME loadedFor # NoAccount, load = NoAccount, loadedFor \notin unsure'
             PROVE  /\ flush' # NoFlush => /\ flush'.account = loadedFor /\ flush'.current
                                           /\ ~dirty' => flush'.draft.text = draft'.text
                    /\ flush' = NoFlush /\ ~dirty' => disk[loadedFor].text = draft'.text
  BY DEF SavedInv
<1>1. CASE CanFlush(isDirty)
  <2>1. flush' = [account |-> account, current |-> TRUE, draft |-> d] /\ draft' = d
    BY <1>1 DEF FlushDraft
  <2>2. flush'.account = account /\ flush'.account # NoFlush.account
    BY <1>1, <2>1 DEF NoFlush, CanFlush
  <2>3. account = loadedFor
    BY <1>1 DEF FlushDraft, Astray
  <2> QED BY <2>1, <2>2, <2>3
<1>2. CASE ~CanFlush(isDirty)
  <2>1. flush' = flush /\ dirty' = isDirty /\ unsure' = unsure
    BY <1>2 DEF FlushDraft
  <2>2. CASE flush = NoFlush /\ isDirty
    BY <2>1, <2>2
  <2>3. CASE flush # NoFlush \/ ~isDirty
    BY <2>1, <2>3 DEF SavedInv
  <2> QED BY <2>2, <2>3
<1> QED BY <1>1, <1>2

LEMMA SavedKept ==
    ComposerTypes /\ AccountInv /\ SavedInv /\ [ComposerNext]_composerVars => SavedInv'
<1> SUFFICES ASSUME ComposerTypes, AccountInv, SavedInv, [ComposerNext]_composerVars
             PROVE  SavedInv'
  OBVIOUS
<1>0. /\ dirty \in BOOLEAN /\ (flush = NoFlush \/ flush \in FlushRecords)
      /\ account \in Accounts \cup {NoAccount} /\ DraftTypes
      /\ disk \in [Accounts -> Drafts] /\ NoAccount \notin Accounts
  BY ComposerAssumption DEF ComposerTypes, DraftTypes, AccountTypes, DiskTypes
<1>1. CASE UNCHANGED <<loadedFor, load, draft, dirty, flush, disk, unsure>>
  BY <1>1 DEF SavedInv
<1>2. CASE SaveDraft
  BY <1>0, <1>2, FlushDraftSaves DEF SaveDraft
<1>3. CASE FlushAgain \/ FlushEnds
  <2>1. Save /\ flush # NoFlush /\ UNCHANGED <<loadedFor, load, draft>>
    BY <1>3 DEF FlushAgain, FlushEnds
  <2>2. flush \in FlushRecords /\ flush.account \in Accounts /\ unsure \subseteq unsure'
    BY <1>0, <1>3, <2>1, RecordFacts DEF FlushAgain, FlushEnds
  <2>3. disk'[flush.account].text = flush.draft.text
    BY <1>0, <2>1, <2>2 DEF Save, NoDraft
  <2>4. CASE FlushAgain
    <3>1. flush' \in FlushRecords /\ flush'.account = flush.account /\ flush'.current = flush.current
          /\ flush'.draft = draft
      BY <2>2, <2>4, <1>0 DEF FlushAgain, FlushRecords, DraftTypes
    <3>2. account = flush.account /\ flush.current
      BY <2>4 DEF FlushAgain, SameFlush
    <3> QED BY <2>1, <2>2, <3>1, <3>2, RecordFacts DEF SavedInv
  <2>5. CASE FlushEnds
    <3>1. flush' = NoFlush /\ dirty' = dirty /\ ~(SameFlush /\ dirty)
      BY <2>5 DEF FlushEnds
    <3> QED BY <2>1, <2>2, <2>3, <3>1 DEF SavedInv, SameFlush
  <2> QED BY <1>3, <2>4, <2>5
<1>4. CASE FlushFails
  <2>1. /\ flush # NoFlush /\ flush' = NoFlush /\ unsure \subseteq unsure'
        /\ UNCHANGED <<loadedFor, load, disk>> /\ (~dirty' => ~dirty /\ ~SameFlush)
        /\ ~SameFlush => flush.account \in unsure'
    BY <1>4 DEF FlushFails
  <2> QED BY <2>1 DEF SavedInv
<1>5. CASE Offline \/ LoggedOut
  BY <1>5 DEF Offline, LoggedOut, SavedInv
<1>6. CASE Configure
  BY <1>6 DEF Configure, SavedInv
<1>7. CASE LoadFails
  BY <1>7 DEF LoadFails, SavedInv, AccountInv
<1>8. CASE Loaded
  BY <1>0, <1>8 DEF Loaded, SavedInv, AccountInv
<1>9. CASE \E a \in Accounts : Connected(a)
  BY <1>0, <1>9 DEF Connected, SavedInv
<1>17. ASSUME NEW a \in Accounts, Connecting(a)  PROVE SavedInv'
  <2>1. loadedFor' = NoAccount \/ UNCHANGED <<loadedFor, load, draft, dirty, flush, disk, unsure>>
    BY <1>17 DEF Connecting
  <2> QED BY <1>1, <2>1 DEF SavedInv
<1>10. ASSUME NEW t \in Texts \cup {Blank}, UpdateDraft(t)  PROVE SavedInv'
  BY <1>10 DEF UpdateDraft, SavedInv
<1>11. CASE SelectChannel \/ ChannelDeleted
  BY <1>1, <1>11 DEF SelectChannel, ChannelDeleted
<1>12. ASSUME NEW s \in Submissions, NEW parts \in Parts, Submit(s, parts)  PROVE SavedInv'
  <2>1. draft'.text = draft.text /\ (dirty \/ MayUpdate) \in BOOLEAN
    BY <1>0, <1>12 DEF Submit, DraftTypes, Drafts, NoDraft, MayUpdate
  <2>2. FlushDraft(draft', dirty \/ MayUpdate) /\ UNCHANGED <<loadedFor, account, load, disk>>
    BY <1>12 DEF Submit
  <2>3. PICK d, isDirty : d = draft' /\ isDirty = (dirty \/ MayUpdate)
    OBVIOUS
  <2>4. FlushDraft(d, isDirty) /\ isDirty \in BOOLEAN /\ (~isDirty => ~dirty /\ d.text = draft.text)
    BY <2>1, <2>2, <2>3
  <2> QED BY <1>0, <2>2, <2>3, <2>4, FlushDraftSaves
<1>13. ASSUME NEW s \in Submissions, NEW parts \in Parts, SubmitUnsaved(s, parts)  PROVE SavedInv'
  BY <1>1, <1>13 DEF SubmitUnsaved
<1>14. ASSUME NEW m \in Messages,
              Upserted(m) \/ \E try \in 1..MaxTries : SendSucceeds(m, try)
       PROVE  SavedInv'
  <2>1. Confirm(m) /\ UNCHANGED <<loadedFor, account, load, disk>>
    BY <1>14, ConfirmingSteps
  <2>2. CASE draft' = NoDraft /\ FlushDraft(NoDraft, TRUE)
    BY <1>0, <2>1, <2>2, FlushDraftSaves
  <2>3. CASE UNCHANGED <<draft, dirty, flush, unsure>>
    BY <1>1, <2>1, <2>3
  <2> QED BY <2>1, <2>2, <2>3 DEF Confirm
<1>15. ASSUME NEW m \in Messages,
              \/ RetryOutgoing(m) \/ CancelOutgoing(m) \/ DismissOutgoing(m)
              \/ \E try \in 1..MaxTries : SendFails(m, try)
       PROVE  SavedInv'
  BY <1>1, <1>15, SendingStepsQuiet DEF textVars
<1>16. CASE UNCHANGED composerVars
  BY <1>1, <1>16 DEF composerVars
<1> QED BY <1>2, <1>3, <1>4, <1>5, <1>6, <1>7, <1>8, <1>9, <1>10, <1>11, <1>12, <1>13, <1>14,
           <1>15, <1>16, <1>17 DEF ComposerNext

-----------------------------------------------------------------------------
(* Batches and empty texts. *)

(* A confirmed message stays posted, and a sent submission stays as it was. *)
LEMMA DeliveredStays ==
    ASSUME posted \subseteq posted',
           \A s \in Submissions : submission[s].stage = "sent" =>
             submission'[s].stage = "sent" /\ submission'[s].parts = submission[s].parts
    PROVE  SomeDelivered => SomeDelivered'
BY DEF SomeDelivered, Delivered

(* Batches that are left alone, or given up. *)
LEMMA BatchesShrink ==
    ASSUME ComposerTypes, BatchInv, posted \subseteq posted',
           \A s \in Submissions :
             /\ submission'[s].stage = submission[s].stage
             /\ submission'[s].draft = submission[s].draft
             /\ submission'[s].parts = submission[s].parts
             /\ batch'[s] = {} \/ batch'[s] = batch[s]
    PROVE  BatchInv' /\ (SomeDelivered => SomeDelivered')
BY DeliveredStays DEF BatchInv

(* Who waited for a flush begins its batch, or is dropped. *)
LEMMA GoOnBatches ==
    ASSUME ComposerTypes, BatchInv, GoOn, UNCHANGED posted
    PROVE  BatchInv' /\ (SomeDelivered => SomeDelivered')
<1> PICK going : going = {s \in Flushing : submission[s].current /\ opened}
  OBVIOUS
<1>1. /\ submission' = [s \in Submissions |->
            IF s \in going THEN [submission[s] EXCEPT !.stage = "sent"]
            ELSE IF s \in Flushing THEN [submission[s] EXCEPT !.stage = "dropped"]
            ELSE submission[s]]
      /\ batch' = [s \in Submissions |-> IF s \in going THEN 1..submission[s].parts ELSE batch[s]]
      /\ going \subseteq Flushing
  BY DEF GoOn, SendAll
<1>2. ASSUME NEW s \in Submissions
      PROVE  /\ submission'[s].draft = submission[s].draft
             /\ submission'[s].parts = submission[s].parts
             /\ s \in going => submission'[s].stage = "sent" /\ batch'[s] = 1..submission[s].parts
             /\ s \in Flushing /\ s \notin going =>
                  submission'[s].stage = "dropped" /\ batch'[s] = batch[s]
             /\ s \notin Flushing => submission'[s].stage = submission[s].stage /\ batch'[s] = batch[s]
  <2>1. submission[s] \in [draft : Drafts, parts : 0..MaxParts, current : BOOLEAN,
                           stage : {"new", "flushing", "sent", "dropped"}]
    BY DEF ComposerTypes, SubmissionTypes
  <2> QED BY <2>1, <1>1
<1>3. ASSUME NEW s \in Submissions
      PROVE  /\ submission'[s].stage # "new" => submission'[s].draft.text # Blank
             /\ batch'[s] # {} =>
                  /\ submission'[s].stage = "sent"
                  /\ \A p \in 1..submission'[s].parts : p \notin batch'[s] => <<s, p>> \in posted'
  <2>1. /\ submission[s].stage # "new" => submission[s].draft.text # Blank
        /\ batch[s] # {} =>
             /\ submission[s].stage = "sent"
             /\ \A p \in 1..submission[s].parts : p \notin batch[s] => <<s, p>> \in posted
    BY DEF BatchInv
  <2>2. CASE s \in Flushing
    <3>1. submission[s].stage = "flushing"
      BY <2>2 DEF Flushing
    <3>2. batch[s] = {} /\ submission'[s].draft.text # Blank
      BY <3>1, <2>1, <1>2
    <3>3. CASE s \in going
      BY <3>2, <3>3, <1>2
    <3>4. CASE s \notin going
      BY <3>2, <3>4, <2>2, <1>2
    <3> QED BY <3>3, <3>4
  <2>3. CASE s \notin Flushing
    BY <2>3, <2>1, <1>2
  <2> QED BY <2>2, <2>3
<1>4. BatchInv'
  BY <1>3 DEF BatchInv
<1>5. \A s \in Submissions : submission[s].stage = "sent" =>
         submission'[s].stage = "sent" /\ submission'[s].parts = submission[s].parts
  BY <1>2 DEF Flushing
<1> QED BY <1>4, <1>5, DeliveredStays

(* A confirmed message leaves its batch; with the last one the batch has been *)
(* delivered.                                                                *)
LEMMA ConfirmBatches ==
    ASSUME ComposerTypes, BatchInv, NEW m \in Messages, Confirm(m), UNCHANGED submission
    PROVE  /\ BatchInv' /\ (SomeDelivered => SomeDelivered')
           /\ Last(m) => SomeDelivered' /\ submission[m[1]].draft.text # Blank
<1>1. m[1] \in Submissions /\ m = <<m[1], m[2]>>
  BY DEF Messages
<1>2. posted' = posted \cup {m} /\ batch' = [batch EXCEPT ![m[1]] = batch[m[1]] \ {m[2]}]
  BY DEF Confirm
<1>3. /\ batch'[m[1]] = batch[m[1]] \ {m[2]}
      /\ \A s \in Submissions : s # m[1] => batch'[s] = batch[s]
  BY <1>1, <1>2 DEF ComposerTypes, SubmissionTypes
<1>4. ASSUME NEW s \in Submissions
      PROVE  /\ submission[s].stage # "new" => submission[s].draft.text # Blank
             /\ batch'[s] # {} =>
                  /\ submission[s].stage = "sent"
                  /\ \A p \in 1..submission[s].parts : p \notin batch'[s] => <<s, p>> \in posted'
  <2>1. CASE s = m[1]
    <3>1. ASSUME batch'[s] # {}, NEW p \in 1..submission[s].parts, p \notin batch'[s]
          PROVE  <<s, p>> \in posted'
      <4>1. CASE p = m[2]
        BY <4>1, <2>1, <1>1, <1>2
      <4>2. CASE p # m[2]
        BY <4>2, <3>1, <2>1, <1>2, <1>3 DEF BatchInv
      <4> QED BY <4>1, <4>2
    <3> QED BY <3>1, <2>1, <1>3 DEF BatchInv
  <2>2. CASE s # m[1]
    BY <2>2, <1>2, <1>3 DEF BatchInv
  <2> QED BY <2>1, <2>2
<1>5. BatchInv'
  BY <1>4 DEF BatchInv
<1>6. SomeDelivered => SomeDelivered'
  BY <1>2, DeliveredStays
<1>7. ASSUME Last(m)  PROVE SomeDelivered' /\ submission[m[1]].draft.text # Blank
  <2>1. batch[m[1]] = {m[2]}
    BY <1>7 DEF Last
  <2>2. submission[m[1]].stage = "sent" /\ submission[m[1]].draft.text # Blank
    BY <2>1, <1>1 DEF BatchInv
  <2>3. ASSUME NEW p \in 1..submission[m[1]].parts  PROVE <<m[1], p>> \in posted'
    <3>1. CASE p = m[2]
      BY <3>1, <1>1, <1>2
    <3>2. CASE p # m[2]
      BY <3>2, <2>1, <1>1, <1>2 DEF BatchInv
    <3> QED BY <3>1, <3>2
  <2>4. Delivered(m[1])'
    BY <2>3 DEF Delivered
  <2> QED BY <1>1, <2>2, <2>4 DEF SomeDelivered
<1> QED BY <1>5, <1>6, <1>7

LEMMA BatchKept ==
    ComposerTypes /\ BatchInv /\ [ComposerNext]_composerVars
      => BatchInv' /\ (SomeDelivered => SomeDelivered')
<1> SUFFICES ASSUME ComposerTypes, BatchInv, [ComposerNext]_composerVars
             PROVE  BatchInv' /\ (SomeDelivered => SomeDelivered')
  OBVIOUS
<1>0. submission \in [Submissions -> [draft : Drafts, parts : 0..MaxParts, current : BOOLEAN,
                                      stage : {"new", "flushing", "sent", "dropped"}]]
      /\ batch \in [Submissions -> SUBSET Parts]
  BY DEF ComposerTypes, SubmissionTypes
<1>1. CASE UNCHANGED <<submission, batch, posted>>
  BY <1>1, BatchesShrink
<1>2. CASE FlushEnds
  BY <1>2, GoOnBatches DEF FlushEnds
<1>3. CASE FlushFails
  <2>1. ASSUME NEW s \in Submissions
        PROVE  /\ submission'[s].draft = submission[s].draft
               /\ submission'[s].parts = submission[s].parts
               /\ submission[s].stage = "new" <=> submission'[s].stage = "new"
               /\ submission[s].stage = "sent" <=> submission'[s].stage = "sent"
    BY <1>0, <1>3 DEF FlushFails, Flushing
  <2>2. UNCHANGED <<batch, posted>>
    BY <1>3 DEF FlushFails
  <2> QED BY <2>1, <2>2, DeliveredStays DEF BatchInv
<1>4. CASE \/ LoggedOut \/ ChannelDeleted \/ Configure
           \/ \E a \in Accounts : Connecting(a) \/ Connected(a)
  <2>1. ASSUME NEW s \in Submissions
        PROVE  /\ submission'[s].stage = submission[s].stage
               /\ submission'[s].draft = submission[s].draft
               /\ submission'[s].parts = submission[s].parts
               /\ batch'[s] = {} \/ batch'[s] = batch[s]
    BY <1>0, <1>4 DEF LoggedOut, ChannelDeleted, Configure, Connecting, Connected, ClearAttempts
  <2>2. posted' = posted
    BY <1>4 DEF LoggedOut, ChannelDeleted, Configure, Connecting, Connected
  <2> QED BY <2>1, <2>2, BatchesShrink
<1>5. ASSUME NEW s \in Submissions, NEW parts \in Parts, Submit(s, parts)
      PROVE  BatchInv' /\ (SomeDelivered => SomeDelivered')
  <2>1. /\ submission'[s].draft = draft /\ submission'[s].stage = "flushing"
        /\ \A t \in Submissions : t # s => submission'[t] = submission[t]
        /\ submission[s].stage = "new" /\ draft.text # Blank /\ UNCHANGED <<batch, posted>>
    BY <1>0, <1>5 DEF Submit
  <2> QED BY <2>1, DeliveredStays DEF BatchInv
<1>6. ASSUME NEW s \in Submissions, NEW parts \in Parts, SubmitUnsaved(s, parts)
      PROVE  BatchInv' /\ (SomeDelivered => SomeDelivered')
  <2>1. /\ submission'[s].draft = draft /\ submission'[s].stage = "sent"
        /\ submission'[s].parts = parts /\ batch'[s] = 1..parts
        /\ \A t \in Submissions : t # s => submission'[t] = submission[t] /\ batch'[t] = batch[t]
        /\ submission[s].stage = "new" /\ draft.text # Blank /\ UNCHANGED posted
    BY <1>0, <1>6 DEF SubmitUnsaved
  <2> QED BY <2>1, DeliveredStays DEF BatchInv
<1>7. ASSUME NEW m \in Messages,
             Upserted(m) \/ \E try \in 1..MaxTries : SendSucceeds(m, try)
      PROVE  BatchInv' /\ (SomeDelivered => SomeDelivered')
  BY <1>7, ConfirmingSteps, ConfirmBatches
<1>8. ASSUME NEW m \in Messages, DismissOutgoing(m)
      PROVE  BatchInv' /\ (SomeDelivered => SomeDelivered')
  <2>1. m[1] \in Submissions
    BY DEF Messages
  <2>2. UNCHANGED <<submission, posted>>
        /\ \A s \in Submissions : batch'[s] = {} \/ batch'[s] = batch[s]
    BY <2>1, <1>0, <1>8 DEF DismissOutgoing
  <2> QED BY <2>2, BatchesShrink
<1>9. ASSUME NEW m \in Messages,
             \/ RetryOutgoing(m) \/ CancelOutgoing(m)
             \/ \E try \in 1..MaxTries : SendFails(m, try)
      PROVE  BatchInv' /\ (SomeDelivered => SomeDelivered')
  BY <1>1, <1>9 DEF RetryOutgoing, CancelOutgoing, SendFails
<1>10. CASE \/ SaveDraft \/ FlushAgain \/ Offline \/ SelectChannel \/ Loaded \/ LoadFails
            \/ \E t \in Texts \cup {Blank} : UpdateDraft(t)
  BY <1>1, <1>10 DEF SaveDraft, FlushAgain, Offline, SelectChannel, Loaded, LoadFails, UpdateDraft
<1>11. CASE UNCHANGED composerVars
  BY <1>1, <1>11 DEF composerVars
<1> QED BY <1>2, <1>3, <1>4, <1>5, <1>6, <1>7, <1>8, <1>9, <1>10, <1>11 DEF ComposerNext

LEMMA BlankKept ==
    ComposerTypes /\ AccountInv /\ BatchInv /\ BlankInv /\ [ComposerNext]_composerVars => BlankInv'
<1> SUFFICES ASSUME ComposerTypes, AccountInv, BatchInv, BlankInv, [ComposerNext]_composerVars
             PROVE  BlankInv'
  OBVIOUS
<1>0. /\ disk \in [Accounts -> Drafts] /\ draft \in Drafts /\ restoring \subseteq Drafts
      /\ (flush = NoFlush \/ flush \in FlushRecords)
      /\ account \in Accounts \cup {NoAccount} /\ NoAccount \notin Accounts
      /\ load \in Accounts \cup {NoAccount}
  BY ComposerAssumption DEF ComposerTypes, DraftTypes, AccountTypes, DiskTypes
<1>1. CASE UNCHANGED <<disk, restoring, draft, loadedFor>>
  BY <1>1 DEF BlankInv
<1>2. CASE FlushAgain \/ FlushEnds
  <2>1. flush \in FlushRecords /\ flush # NoFlush /\ Save
    BY <1>0, <1>2 DEF FlushAgain, FlushEnds
  <2>2. \A a \in Accounts : disk'[a].text = Blank => disk'[a] = NoDraft
    BY <1>0, <2>1, RecordFacts DEF Save, BlankInv
  <2>3. UNCHANGED <<draft, loadedFor>> /\ restoring' \subseteq restoring
    BY <1>2 DEF FlushAgain, FlushEnds
  <2> QED BY <2>2, <2>3 DEF BlankInv
<1>3. CASE FlushFails
  <2>1. draft' \in restoring \/ draft' = draft
    BY <1>3 DEF FlushFails
  <2>2. UNCHANGED <<disk, loadedFor>> /\ restoring' = {}
    BY <1>3 DEF FlushFails
  <2> QED BY <2>1, <2>2 DEF BlankInv
<1>4. CASE Loaded
  <2>1. UNCHANGED <<disk, loadedFor, restoring>> /\ load \in Accounts
    BY <1>0, <1>4 DEF Loaded
  <2>2. draft' = draft \/ draft' = disk[load]
    BY <1>4 DEF Loaded
  <2> QED BY <2>1, <2>2 DEF BlankInv
<1>5. ASSUME NEW a \in Accounts, Connected(a)  PROVE BlankInv'
  <2>1. UNCHANGED <<disk, restoring>> /\ (draft' = NoDraft \/ UNCHANGED <<draft, loadedFor>>)
    BY <1>5 DEF Connected
  <2> QED BY <2>1 DEF BlankInv
<1>13. ASSUME NEW a \in Accounts, Connecting(a)  PROVE BlankInv'
  <2>1. UNCHANGED <<disk, restoring>> /\ (draft' = NoDraft \/ UNCHANGED <<draft, loadedFor>>)
    BY <1>13 DEF Connecting
  <2> QED BY <2>1 DEF BlankInv
<1>6. CASE Configure
  BY <1>6 DEF Configure, BlankInv
<1>7. ASSUME NEW t \in Texts \cup {Blank}, UpdateDraft(t)  PROVE BlankInv'
  BY <1>0, <1>7 DEF UpdateDraft, MayUpdate, BlankInv
<1>8. ASSUME NEW s \in Submissions, NEW parts \in Parts, Submit(s, parts)  PROVE BlankInv'
  <2>1. draft.text # Blank /\ draft'.text = draft.text /\ UNCHANGED <<disk, restoring, loadedFor>>
    BY <1>0, <1>8 DEF Submit, Drafts, NoDraft
  <2> QED BY <2>1 DEF BlankInv
<1>9. ASSUME NEW m \in Messages,
             Upserted(m) \/ \E try \in 1..MaxTries : SendSucceeds(m, try)
      PROVE  BlankInv'
  <2>1. Confirm(m) /\ UNCHANGED <<account, loadedFor, load, disk, submission>>
    BY <1>9, ConfirmingSteps
  <2>2. CASE UNCHANGED <<draft, restoring>>
    BY <1>1, <2>1, <2>2
  <2>3. CASE /\ Last(m) /\ draft.text = submission[m[1]].draft.text
             /\ draft' = NoDraft /\ restoring' = restoring \cup {draft}
    <3>1. submission[m[1]].draft.text # Blank
      BY <2>1, <2>3, ConfirmBatches
    <3> QED BY <2>1, <2>3, <3>1 DEF BlankInv
  <2> QED BY <2>1, <2>2, <2>3 DEF Confirm
<1>10. ASSUME NEW m \in Messages,
              \/ RetryOutgoing(m) \/ CancelOutgoing(m) \/ DismissOutgoing(m)
              \/ \E try \in 1..MaxTries : SendFails(m, try)
       PROVE  BlankInv'
  BY <1>1, <1>10, SendingStepsQuiet DEF textVars
<1>11. CASE \/ SaveDraft \/ Offline \/ LoggedOut \/ SelectChannel \/ LoadFails \/ ChannelDeleted
            \/ \E s \in Submissions, parts \in Parts : SubmitUnsaved(s, parts)
  BY <1>1, <1>11 DEF SaveDraft, Offline, LoggedOut, SelectChannel, LoadFails, ChannelDeleted,
                     SubmitUnsaved
<1>12. CASE UNCHANGED composerVars
  BY <1>1, <1>12 DEF composerVars
<1> QED BY <1>2, <1>3, <1>4, <1>5, <1>6, <1>7, <1>8, <1>9, <1>10, <1>11, <1>12, <1>13
        DEF ComposerNext

LEMMA MissingKept ==
    ASSUME ComposerTypes, AccountInv, BatchInv, BlankInv, MissingInv,
           [ComposerNext]_composerVars
    PROVE  MissingInv'
<1>0. /\ disk \in [Accounts -> Drafts] /\ draft \in Drafts /\ restoring \subseteq Drafts
      /\ (flush = NoFlush \/ flush \in FlushRecords)
      /\ account \in Accounts \cup {NoAccount} /\ NoAccount \notin Accounts
      /\ load \in Accounts \cup {NoAccount} /\ dirty \in BOOLEAN /\ saveTimer \in BOOLEAN
  BY ComposerAssumption DEF ComposerTypes, DraftTypes, AccountTypes, DiskTypes
<1>1. SomeDelivered => SomeDelivered'
  BY BatchKept
<1>2. CASE draft' # NoDraft
  BY <1>2 DEF MissingInv
<1>3. CASE UNCHANGED <<draft, loadedFor, unsure, dirty, flush, saveTimer>>
  BY <1>1, <1>3 DEF MissingInv
<1>4. CASE SaveDraft
  <2>1. /\ saveTimer /\ FlushDraft(draft, dirty)
        /\ UNCHANGED <<draft, loadedFor>> /\ unsure \subseteq unsure'
    BY <1>4 DEF SaveDraft, FlushDraft
  <2>2. CASE dirty \/ flush # NoFlush
    BY <1>1, <2>1, <2>2 DEF MissingInv
  <2>3. CASE ~dirty /\ flush = NoFlush
    <3>1. ~dirty' /\ flush' = NoFlush
      BY <2>1, <2>3 DEF FlushDraft, CanFlush
    <3> QED BY <3>1 DEF MissingInv
  <2> QED BY <2>2, <2>3
<1>5. CASE FlushAgain
  <2>1. flush # NoFlush /\ dirty /\ UNCHANGED <<draft, loadedFor>> /\ unsure \subseteq unsure'
    BY <1>5 DEF FlushAgain, Save
  <2> QED BY <1>1, <2>1 DEF MissingInv
<1>6. CASE FlushEnds
  <2>1. /\ flush # NoFlush /\ flush' = NoFlush /\ unsure \subseteq unsure'
        /\ UNCHANGED <<draft, loadedFor, dirty>>
    BY <1>6 DEF FlushEnds, Save
  <2> QED BY <1>1, <2>1 DEF MissingInv
<1>7. CASE FlushFails
  <2>1. /\ flush # NoFlush /\ flush' = NoFlush /\ unsure \subseteq unsure'
        /\ UNCHANGED loadedFor
        /\ draft' = NoDraft => draft = NoDraft
    <3>1. draft' = NoDraft => draft = NoDraft
      BY <1>7, RecordFacts DEF FlushFails, BlankInv
    <3> QED BY <3>1, <1>7 DEF FlushFails
  <2>2. ~dirty /\ dirty' /\ draft' = NoDraft => SameFlush
    BY <1>7, RecordFacts DEF FlushFails, BlankInv
  <2>3. SameFlush => account = flush.account
    BY DEF SameFlush
  <2>4. account = flush.account => saveTimer' = saveTimer
    BY <1>0, <1>7 DEF FlushFails
  <2> QED BY <1>1, <2>1, <2>2, <2>3, <2>4 DEF MissingInv
<1>8. ASSUME NEW a \in Accounts, Connected(a)  PROVE MissingInv'
  <2>1. UNCHANGED <<flush, unsure>>
    BY <1>8 DEF Connected
  <2>2. \/ ~dirty' /\ ~saveTimer'
        \/ UNCHANGED <<draft, dirty, loadedFor>> /\ (saveTimer' => saveTimer)
    BY <1>0, <1>8 DEF Connected
  <2> QED BY <1>1, <2>1, <2>2 DEF MissingInv
<1>20. ASSUME NEW a \in Accounts, Connecting(a)  PROVE MissingInv'
  <2>1. UNCHANGED <<flush, unsure>>
        /\ ((~dirty' /\ ~saveTimer') \/ UNCHANGED <<draft, dirty, loadedFor, saveTimer>>)
    BY <1>20 DEF Connecting
  <2> QED BY <1>1, <2>1 DEF MissingInv
<1>9. CASE Offline \/ LoggedOut
  BY <1>3, <1>9 DEF Offline, LoggedOut
<1>10. CASE Configure
  BY <1>10 DEF Configure, MissingInv
<1>11. CASE Loaded
  <2>1. load = loadedFor /\ UNCHANGED <<loadedFor, dirty, flush, saveTimer>> /\ unsure \subseteq unsure'
    BY <1>11 DEF Loaded, AccountInv
  <2>2. dirty \/ flush # NoFlush => load \in unsure'
    BY <1>11 DEF Loaded
  <2> QED BY <2>1, <2>2 DEF MissingInv
<1>12. CASE LoadFails
  BY <1>12 DEF LoadFails, MissingInv, AccountInv
<1>13. ASSUME NEW t \in Texts \cup {Blank}, UpdateDraft(t)  PROVE MissingInv'
  BY <1>0, <1>2, <1>13, RecordFacts DEF UpdateDraft, MayUpdate
<1>14. ASSUME NEW s \in Submissions, NEW parts \in Parts, Submit(s, parts)  PROVE MissingInv'
  <2>1. draft'.text # Blank
    BY <1>0, <1>14 DEF Submit, Drafts, NoDraft
  <2> QED BY <1>2, <2>1 DEF NoDraft
<1>15. ASSUME NEW m \in Messages,
              Upserted(m) \/ \E try \in 1..MaxTries : SendSucceeds(m, try)
       PROVE  MissingInv'
  <2>1. Confirm(m) /\ UNCHANGED <<account, loadedFor, load, disk, submission>>
    BY <1>15, ConfirmingSteps
  <2>2. CASE UNCHANGED <<draft, dirty, saveTimer, flush, unsure>>
    BY <1>3, <2>1, <2>2
  <2>3. CASE Last(m)
    BY <2>1, <2>3, ConfirmBatches DEF MissingInv
  <2> QED BY <2>1, <2>2, <2>3 DEF Confirm
<1>16. ASSUME NEW m \in Messages,
              \/ RetryOutgoing(m) \/ CancelOutgoing(m) \/ DismissOutgoing(m)
              \/ \E try \in 1..MaxTries : SendFails(m, try)
       PROVE  MissingInv'
  BY <1>3, <1>16, SendingStepsQuiet DEF textVars
<1>17. ASSUME NEW s \in Submissions, NEW parts \in Parts, SubmitUnsaved(s, parts)
       PROVE  MissingInv'
  <2>1. draft'.text # Blank
    BY <1>17 DEF SubmitUnsaved
  <2> QED BY <1>2, <2>1 DEF NoDraft
<1>18. CASE SelectChannel \/ ChannelDeleted
  BY <1>3, <1>18 DEF SelectChannel, ChannelDeleted
<1>19. CASE UNCHANGED composerVars
  BY <1>3, <1>19 DEF composerVars
<1> QED BY <1>4, <1>5, <1>6, <1>7, <1>8, <1>9, <1>10, <1>11, <1>12, <1>13, <1>14, <1>15, <1>16,
           <1>17, <1>18, <1>19, <1>20 DEF ComposerNext

LEMMA EmptiedKept ==
    ASSUME ComposerTypes, AccountInv, BatchInv, BlankInv, MissingInv, EmptiedInv,
           [ComposerNext]_composerVars
    PROVE  EmptiedInv'
<1>0. /\ draft \in Drafts /\ (flush = NoFlush \/ flush \in FlushRecords)
      /\ account \in Accounts \cup {NoAccount} /\ NoAccount \notin Accounts
      /\ dirty \in BOOLEAN /\ saveTimer \in BOOLEAN
  BY ComposerAssumption DEF ComposerTypes, DraftTypes, AccountTypes
<1>1. SomeDelivered => SomeDelivered'
  BY BatchKept
<1>2. CASE flush' = NoFlush
  BY <1>2 DEF EmptiedInv
<1>3. CASE flush' = flush /\ unsure \subseteq unsure'
  BY <1>1, <1>3 DEF EmptiedInv
<1>4. CASE SaveDraft
  <2>1. CASE ~CanFlush(dirty)
    BY <1>3, <1>4, <2>1 DEF SaveDraft, FlushDraft
  <2>2. CASE CanFlush(dirty)
    <3>1. /\ flush'.draft = draft /\ flush'.account = account /\ dirty
          /\ saveTimer /\ unsure \subseteq unsure' /\ (account = loadedFor \/ account \in unsure')
      BY <1>4, <2>2 DEF SaveDraft, FlushDraft, CanFlush, Astray
    <3>2. draft = NoDraft /\ ~SomeDelivered => loadedFor \in unsure
      BY <3>1 DEF MissingInv
    <3>3. draft # NoDraft /\ draft.text = Blank => draft.of = loadedFor
      BY DEF BlankInv
    <3> QED BY <1>1, <3>1, <3>2, <3>3 DEF EmptiedInv
  <2> QED BY <2>1, <2>2
<1>5. CASE FlushAgain
  <2>1. flush \in FlushRecords /\ flush # NoFlush /\ dirty /\ account = flush.account
        /\ unsure \subseteq unsure' /\ Astray \subseteq unsure'
    BY <1>0, <1>5 DEF FlushAgain, SameFlush
  <2>2. /\ flush'.draft = draft /\ flush'.account = account
        /\ (account = loadedFor \/ account \in unsure')
    BY <1>0, <1>5, <2>1, RecordFacts DEF FlushAgain, FlushRecords, Astray
  <2>3. draft = NoDraft /\ ~SomeDelivered => loadedFor \in unsure
    BY <2>1 DEF MissingInv
  <2>4. draft # NoDraft /\ draft.text = Blank => draft.of = loadedFor
    BY DEF BlankInv
  <2> QED BY <1>1, <2>1, <2>2, <2>3, <2>4 DEF EmptiedInv
<1>6. CASE FlushEnds \/ FlushFails
  BY <1>2, <1>6 DEF FlushEnds, FlushFails
<1>7. CASE Configure
  <2>1. CASE flush = NoFlush
    BY <1>2, <1>7, <2>1 DEF Configure
  <2>2. CASE flush # NoFlush
    <3>1. flush'.draft = flush.draft /\ flush'.account = flush.account /\ UNCHANGED unsure
      BY <1>0, <1>7, <2>2 DEF Configure, FlushRecords
    <3> QED BY <1>1, <2>2, <3>1 DEF EmptiedInv
  <2> QED BY <2>1, <2>2
<1>8. ASSUME NEW s \in Submissions, NEW parts \in Parts, Submit(s, parts)  PROVE EmptiedInv'
  <2>1. draft'.text # Blank
    BY <1>0, <1>8 DEF Submit, Drafts, NoDraft
  <2>2. unsure \subseteq unsure' /\ (flush' = flush \/ flush'.draft = draft')
    BY <1>8 DEF Submit, FlushDraft
  <2> QED BY <1>3, <2>1, <2>2 DEF EmptiedInv
<1>9. ASSUME NEW m \in Messages,
             Upserted(m) \/ \E try \in 1..MaxTries : SendSucceeds(m, try)
      PROVE  EmptiedInv'
  <2>1. Confirm(m) /\ UNCHANGED <<account, loadedFor, load, disk, submission>>
    BY <1>9, ConfirmingSteps
  <2>2. CASE UNCHANGED <<flush, unsure>>
    BY <1>3, <2>1, <2>2
  <2>3. CASE Last(m)
    BY <2>1, <2>3, ConfirmBatches DEF EmptiedInv
  <2> QED BY <2>1, <2>2, <2>3 DEF Confirm
<1>10. ASSUME NEW m \in Messages,
              \/ RetryOutgoing(m) \/ CancelOutgoing(m) \/ DismissOutgoing(m)
              \/ \E try \in 1..MaxTries : SendFails(m, try)
       PROVE  EmptiedInv'
  BY <1>3, <1>10, SendingStepsQuiet DEF textVars
<1>11. CASE \/ Offline \/ LoggedOut \/ SelectChannel \/ ChannelDeleted \/ Loaded \/ LoadFails
            \/ \E a \in Accounts : Connecting(a) \/ Connected(a)
            \/ \E t \in Texts \cup {Blank} : UpdateDraft(t)
            \/ \E s \in Submissions, parts \in Parts : SubmitUnsaved(s, parts)
  BY <1>3, <1>11 DEF Offline, LoggedOut, SelectChannel, ChannelDeleted, Loaded, LoadFails,
                     Connecting, Connected, UpdateDraft, SubmitUnsaved
<1>12. CASE UNCHANGED composerVars
  BY <1>3, <1>12 DEF composerVars
<1> QED BY <1>4, <1>5, <1>6, <1>7, <1>8, <1>9, <1>10, <1>11, <1>12 DEF ComposerNext

LEMMA ComposerInitInv == ComposerInit => ComposerInv
<1> SUFFICES ASSUME ComposerInit  PROVE ComposerInv
  OBVIOUS
<1>1. ComposerTypes
  BY ComposerInitTypes
<1>2. AccountInv /\ SavedInv /\ MissingInv /\ EmptiedInv
  BY DEF ComposerInit, AccountInv, SavedInv, MissingInv, EmptiedInv
<1>3. BatchInv /\ BlankInv
  BY DEF ComposerInit, BatchInv, BlankInv
<1> QED BY <1>1, <1>2, <1>3 DEF ComposerInv

LEMMA ComposerInvHolds == ComposerSpec => []ComposerInv
<1>1. ComposerInv /\ [ComposerNext]_composerVars => ComposerInv'
  BY ComposerTypesKept, AccountKept, SavedKept, BatchKept, BlankKept, MissingKept, EmptiedKept
     DEF ComposerInv
<1> QED BY <1>1, ComposerInitInv, PTL DEF ComposerSpec

(* Every variable of the composer, its drafts and attempts has its type. *)
THEOREM ComposerTypeCorrect == ComposerSpec => []ComposerTypeOK
<1>1. ComposerInv => ComposerTypeOK
  BY DEF ComposerInv, ComposerTypes, AccountTypes, DraftTypes, DiskTypes, SubmissionTypes,
         AttemptTypes, ComposerTypeOK, FlushRecords
<1> QED BY <1>1, ComposerInvHolds, PTL

(* Whoever types, submits, confirms, fails or reconnects, while the drafts of *)
(* the connected account are loaded the catalog has the text of a draft that  *)
(* is neither dirty nor being saved, as long as no load failed, came late or  *)
(* overlapped a change, no save failed after its account was gone and no text *)
(* was saved under another account.                                           *)
THEOREM CleanDraftsAreSaved == ComposerSpec => []CleanDraftIsSaved
<1>1. ComposerInv => CleanDraftIsSaved
  BY DEF ComposerInv, SavedInv, CleanDraftIsSaved
<1> QED BY <1>1, ComposerInvHolds, PTL

(* A draft leaves the catalog when the user emptied it or when every message  *)
(* of a submission has been posted, and for no other reason.                  *)
THEOREM UndeliveredTextsAreKept == ComposerSpec => UndeliveredTextIsKept
<1>1. ASSUME ComposerInv, [ComposerNext]_composerVars, NEW a \in Accounts,
             disk[a] # NoDraft, disk'[a] = NoDraft, a \notin unsure,
             flush.draft # [of |-> a, text |-> Blank]
      PROVE  SomeDelivered
  <2>0. ComposerTypes /\ EmptiedInv
    BY <1>1 DEF ComposerInv
  <2>1. Save /\ flush # NoFlush
    <3>1. \A m \in Messages :
            \/ Upserted(m) \/ RetryOutgoing(m) \/ CancelOutgoing(m) \/ DismissOutgoing(m)
            \/ \E try \in 1..MaxTries : SendSucceeds(m, try) \/ SendFails(m, try)
            => UNCHANGED disk
      BY SendingStepsQuiet, ConfirmingSteps DEF textVars
    <3>2. ASSUME \/ SaveDraft \/ FlushFails \/ Offline \/ LoggedOut \/ SelectChannel \/ Configure
                 \/ Loaded \/ LoadFails \/ ChannelDeleted
                 \/ \E b \in Accounts : Connecting(b) \/ Connected(b)
                 \/ \E t \in Texts \cup {Blank} : UpdateDraft(t)
                 \/ \E s \in Submissions, parts \in Parts : Submit(s, parts) \/ SubmitUnsaved(s, parts)
          PROVE  UNCHANGED disk
      BY <3>2 DEF SaveDraft, FlushFails, Offline, LoggedOut, SelectChannel, Configure, Loaded,
                  LoadFails, ChannelDeleted, Connecting, Connected, UpdateDraft, Submit, SubmitUnsaved
    <3>3. ~UNCHANGED disk
      BY <1>1
    <3>4. CASE FlushAgain \/ FlushEnds
      BY <3>4 DEF FlushAgain, FlushEnds
    <3> QED BY <1>1, <3>1, <3>2, <3>3, <3>4 DEF ComposerNext, composerVars
  <2>2. flush \in FlushRecords /\ flush.account \in Accounts /\ flush.draft \in Drafts
    BY <2>0, <2>1, RecordFacts DEF ComposerTypes, DraftTypes
  <2>3. a = flush.account /\ flush.draft.text = Blank
    BY <1>1, <2>0, <2>1, <2>2, RecordFacts DEF Save, ComposerTypes, DiskTypes
  <2>4. flush.draft.of = a => flush.draft = [of |-> a, text |-> Blank]
    BY <2>2, <2>3 DEF Drafts, NoDraft
  <2> QED BY <1>1, <2>0, <2>1, <2>3, <2>4 DEF EmptiedInv
<1>2. ComposerInv /\ [ComposerNext]_composerVars =>
        [\A a \in Accounts :
           (disk[a] # NoDraft /\ disk'[a] = NoDraft /\ a \notin unsure
              /\ flush.draft # [of |-> a, text |-> Blank])
             => \E s \in Submissions : submission[s].stage = "sent" /\ Delivered(s)]_composerVars
  BY <1>1 DEF SomeDelivered
<1> QED BY <1>2, ComposerInvHolds, PTL DEF ComposerSpec, UndeliveredTextIsKept

-----------------------------------------------------------------------------
(* The components side by side: a step of one leaves the others alone, so    *)
(* each of them goes through a behaviour of its own specification.           *)

LEMMA StepsOfComponents ==
    ASSUME [Next]_allVars
    PROVE  /\ [BrokerNext]_brokerVars /\ [CloudNext]_cloudVars /\ [AttachmentNext]_attachVars
           /\ [CommandsNext]_commandVars /\ [ComposerNext]_composerVars
<1>1. CASE UNCHANGED allVars
  BY <1>1 DEF allVars
<1>2. CASE BrokerStep
  BY <1>2 DEF BrokerStep
<1>3. CASE CloudStep
  BY <1>3 DEF CloudStep
<1>4. CASE AttachmentStep
  BY <1>4 DEF AttachmentStep
<1>5. CASE CommandsStep
  BY <1>5 DEF CommandsStep
<1>6. CASE ComposerStep
  BY <1>6 DEF ComposerStep
<1> QED BY <1>1, <1>2, <1>3, <1>4, <1>5, <1>6 DEF Next

(* The broker's table, the polls, the attachment's sockets, the runner's     *)
(* lines and history and the composer's drafts and attempts keep their types *)
(* in the program that holds all of them.                                    *)
THEOREM ComponentsTypeCorrect ==
    ASSUME MaxPending \in Nat, MaxRevision \in Nat, MaxAttempts \in Nat, CommandLimits
    PROVE  Spec => []ComponentsTypeOK
<1>1. Init => BrokerInit /\ CloudInit /\ AttachmentInit /\ CommandsInit /\ ComposerInit
  BY DEF Init
<1>2. [Next]_allVars =>
        /\ [BrokerNext]_brokerVars /\ [CloudNext]_cloudVars /\ [AttachmentNext]_attachVars
        /\ [CommandsNext]_commandVars /\ [ComposerNext]_composerVars
  BY StepsOfComponents
<1>3. Spec => BrokerSpec /\ CloudSpec /\ AttachmentSpec /\ CommandsSpec /\ ComposerSpec
  BY <1>1, <1>2, PTL DEF Spec, BrokerSpec, CloudSpec, AttachmentSpec, CommandsSpec, ComposerSpec
<1>4. BrokerTypeOK /\ CloudTypeOK /\ AttachmentTypeOK /\ CommandsTypeOK /\ ComposerTypeOK
        => ComponentsTypeOK
  BY DEF ComponentsTypeOK
<1> QED BY <1>3, <1>4, BrokerTypeCorrect, CloudTypeCorrect, AttachmentTypeCorrect, CommandsTypeCorrect,
           ComposerTypeCorrect, PTL
=============================================================================
