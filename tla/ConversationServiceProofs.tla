---------------------- MODULE ConversationServiceProofs ----------------------
(***************************************************************************)
(* Proofs about ConversationService, for any number of conversations,      *)
(* workspaces, keys and calls: two calls never open the session of one     *)
(* conversation at once; the catalog with the active handles implements    *)
(* ConversationRecords; and what the runs check of the types, the sessions *)
(* and handles of the runtime, the keys of creations, the turn contexts    *)
(* and the waits of calls for one another.                                 *)
(*                                                                         *)
(* The argument for the first is that registered calls of a conversation   *)
(* settle in the order of their tickets. pendingRestores holds the last of *)
(* those that are not settled; a relocation takes it as the call to wait   *)
(* for, so that when that call is settled all before it are. A creation    *)
(* needs no ticket: its id is new, and nothing activates a conversation    *)
(* without a row. This is ServiceInv; over it, each later part has an      *)
(* inductive invariant of its own, which the parts after it may use:       *)
(*   MachineInv  what a call's operation and stage say of its actor: where *)
(*               an actor comes from, whose it is and who closes it;       *)
(*   HandleInv   a session of the runtime is active, or somebody is about  *)
(*               to close it;                                              *)
(*   KeyInv      who holds a key, in the catalog or as a pending creation; *)
(*   WaitInv     a call that is joined leads a wait and waits for none but *)
(*               a restore or a relocation;                                *)
(*   ContextInv  the contexts of the catalog that were sent are the turns  *)
(*               of the Agent's session.                                   *)
(***************************************************************************)
EXTENDS ConversationService, SequenceFilterProofs

MaybeCall == Calls \cup {None}
OpenStages == {"resolve", "opening", "cleanup", "closing"}
Waiting(r) == operation[r] = "relocate" /\ stage[r] = "previous"
Registered(i) == ticket[i] # 0
Unsettled(i) == outcome[i] = "none"
Precedes(i, j) == Registered(i) /\ Registered(j) /\ conversation[i] = conversation[j] /\ ticket[i] < ticket[j]

ServiceTypes ==
    /\ workspace \in [Conversations -> Workspaces \cup {NoWorkspace}]
    /\ removed \subseteq Conversations
    /\ activeHandles \in [Conversations -> MaybeCall]
    /\ pendingRestores \in [Conversations -> MaybeCall]
    /\ operation \in [Calls -> Operations]
    /\ conversation \in [Calls -> Conversations \cup {NoConversation}]
    /\ target \in [Calls -> Workspaces \cup {NoWorkspace}]
    /\ stage \in [Calls -> Stages]
    /\ DOMAIN peer = Calls
    /\ outcome \in [Calls -> {"none", "ok", "failed"}]
    /\ ticket \in [Calls -> Nat] /\ nextTicket \in Nat \ {0}

(* What the stage of a call says of it. *)
CallInv ==
    \A i \in Calls :
        /\ operation[i] = "none" => stage[i] = "idle" /\ outcome[i] = "none" /\ ticket[i] = 0
        /\ operation[i] = "none" <=> conversation[i] = NoConversation
        /\ stage[i] \in {"canonical", "joined"} => ticket[i] = 0
        /\ stage[i] = "canonical" => operation[i] = "relocate" /\ Unsettled(i)
        /\ Waiting(i) => Registered(i) /\ Unsettled(i)
        /\ Opens(i) => Unsettled(i)
        /\ operation[i] = "relocate" => target[i] \in Workspaces

TicketInv ==
    /\ \A i \in Calls : ticket[i] < nextTicket
    /\ \A i, j \in Calls : ticket[i] = ticket[j] /\ Registered(i) => i = j

(* pendingRestores has the last registered call that is not settled. *)
PendingInv ==
    /\ \A c \in Conversations : pendingRestores[c] # None =>
         LET j == pendingRestores[c] IN Registered(j) /\ conversation[j] = c /\ Unsettled(j)
    /\ \A i \in Calls : Registered(i) /\ Unsettled(i) =>
         /\ pendingRestores[conversation[i]] # None
         /\ ticket[i] <= ticket[pendingRestores[conversation[i]]]

(* A relocation waits for the last of those before it that are not settled. *)
ChainInv ==
    \A r \in Calls : Waiting(r) =>
        /\ peer[r] # None => peer[r] \in Calls /\ Precedes(peer[r], r)
        /\ \A i \in Calls : Precedes(i, r) /\ Unsettled(i) =>
             peer[r] # None /\ ticket[i] <= ticket[peer[r]]

(* Registered calls of a conversation open it, and settle, in their order. *)
OrderInv ==
    \A i, j \in Calls : Precedes(i, j) /\ (Opens(j) \/ ~Unsettled(j)) => ~Unsettled(i)

(* A call that opens without a ticket creates a conversation of its own. *)
CreationInv ==
    \A i \in Calls : Opens(i) /\ ~Registered(i) =>
        /\ operation[i] = "create"
        /\ ~Cataloged(conversation[i]) /\ conversation[i] \notin removed
        /\ \A j \in Calls : Opens(j) /\ conversation[j] = conversation[i] => j = i

(* The rows, the handles and the calls that open agree. *)
RecordInv ==
    /\ \A c \in removed : ~Cataloged(c)
    /\ \A c \in Conversations : activeHandles[c] # None =>
         conversation[activeHandles[c]] = c /\ target[activeHandles[c]] \in Workspaces
    /\ \A i \in Calls : Opens(i) =>
         /\ target[i] \in Workspaces
         /\ activeHandles[conversation[i]] = None
         /\ IsRestore(i) /\ Cataloged(conversation[i]) => workspace[conversation[i]] = target[i]

ServiceInv ==
    /\ ServiceTypes /\ CallInv /\ TicketInv /\ PendingInv /\ ChainInv /\ OrderInv /\ CreationInv
    /\ RecordInv

LEMMA CallsAreNumbers == Calls \subseteq Nat /\ None \notin Calls /\ None = 0
BY BoundAssumption DEF Calls, None

(* An opening call has a conversation. *)
LEMMA HasConversation ==
    ASSUME ServiceTypes, CallInv, NEW i \in Calls, operation[i] # "none"
    PROVE  conversation[i] \in Conversations
BY DEF ServiceTypes, CallInv

LEMMA OpensHasConversation ==
    ASSUME ServiceTypes, CallInv, NEW i \in Calls, stage[i] # "idle"
    PROVE  conversation[i] \in Conversations /\ operation[i] # "none"
BY DEF ServiceTypes, CallInv

(* The invariant says that one call at most opens a conversation. *)
LEMMA OneOpens ==
    ASSUME ServiceInv, NEW i \in Calls, NEW j \in Calls, Opens(i), Opens(j),
           conversation[i] = conversation[j]
    PROVE  i = j
<1>1. CASE ~Registered(i) \/ ~Registered(j)
  BY <1>1 DEF ServiceInv, CreationInv
<1>2. CASE Registered(i) /\ Registered(j)
  <2>1. ticket[i] \in Nat /\ ticket[j] \in Nat
    BY DEF ServiceInv, ServiceTypes
  <2>2. ~(ticket[i] < ticket[j]) /\ ~(ticket[j] < ticket[i])
    BY <1>2 DEF ServiceInv, OrderInv, Precedes, CallInv
  <2> QED BY <1>2, <2>1, <2>2 DEF ServiceInv, TicketInv
<1> QED BY <1>1, <1>2

-----------------------------------------------------------------------------
(* Kinds of steps. *)

(* A call that has begun goes to a stage in which it opens nothing; a row   *)
(* may be removed and a handle forgotten.                                   *)
LEMMA MoveKeeps ==
    ASSUME ServiceInv, NEW i \in Calls, operation[i] # "none",
           NEW s \in Stages \ (OpenStages \cup {"idle", "previous", "canonical", "joined"}),
           stage' = [stage EXCEPT ![i] = s],
           DOMAIN peer' = Calls, \A j \in Calls : j # i => peer'[j] = peer[j],
           NEW c \in Conversations,
           \/ UNCHANGED <<workspace, removed>>
           \/ /\ workspace' = [workspace EXCEPT ![c] = NoWorkspace]
              /\ Cataloged(c) /\ removed' = removed \cup {c},
           activeHandles' = activeHandles \/ activeHandles' = [activeHandles EXCEPT ![c] = None],
           UNCHANGED <<pendingRestores, operation, conversation, target, outcome, ticketVars>>
    PROVE  ServiceInv'
<1> USE DEF ServiceInv, ticketVars
<1>1. \A j \in Calls : stage'[j] = IF j = i THEN s ELSE stage[j]
  BY DEF ServiceTypes
<1>2. /\ \A d \in Conversations : workspace'[d] = workspace[d] \/ workspace'[d] = NoWorkspace
      /\ \A d \in Conversations : activeHandles'[d] = activeHandles[d] \/ activeHandles'[d] = None
      /\ \A d \in removed' \ removed : workspace'[d] = NoWorkspace /\ workspace[d] # NoWorkspace
      /\ removed' \subseteq Conversations /\ removed \subseteq removed'
  BY DEF ServiceTypes, Cataloged
<1>3. ServiceTypes'
  <2>1. workspace' \in [Conversations -> Workspaces \cup {NoWorkspace}]
        /\ activeHandles' \in [Conversations -> MaybeCall]
    BY DEF ServiceTypes, MaybeCall
  <2> QED BY <1>2, <2>1 DEF ServiceTypes
<1>4. \A j \in Calls : Opens(j)' => Opens(j) /\ j # i
  BY <1>1 DEF Opens, OpenStages
<1>5. \A j \in Calls : Waiting(j)' => Waiting(j) /\ j # i /\ peer'[j] = peer[j]
  BY <1>1 DEF Waiting
<1>6. CallInv'
  BY <1>1, <1>4, <1>5 DEF CallInv, Registered, Unsettled
<1>7. TicketInv'
  BY DEF TicketInv, Registered
<1>8. PendingInv'
  BY DEF PendingInv, Registered, Unsettled
<1>9. ChainInv'
  <2>1. \A h, j \in Calls : Precedes(h, j)' <=> Precedes(h, j)
    BY DEF Precedes, Registered
  <2> QED BY <1>5, <2>1 DEF ChainInv, Unsettled, Precedes, Registered
<1>10. OrderInv'
  BY <1>4 DEF OrderInv, Unsettled, Precedes, Registered
<1>11. CreationInv'
  BY <1>2, <1>4, OpensHasConversation DEF CreationInv, Registered, Cataloged, Opens
<1>12. RecordInv'
  BY <1>2, <1>4, OpensHasConversation DEF RecordInv, IsRestore, Cataloged, Opens, ServiceTypes
<1> QED BY <1>3, <1>6, <1>7, <1>8, <1>9, <1>10, <1>11, <1>12

(* A call goes on opening. *)
LEMMA OpenKeeps ==
    ASSUME ServiceInv, NEW i \in Calls, Opens(i), NEW s \in OpenStages,
           stage' = [stage EXCEPT ![i] = s],
           DOMAIN peer' = Calls, \A j \in Calls : j # i => peer'[j] = peer[j],
           UNCHANGED <<workspace, removed, activeHandles, pendingRestores, operation, conversation,
                       target, outcome, ticketVars>>
    PROVE  ServiceInv'
<1> USE DEF ServiceInv, ticketVars
<1>1. \A j \in Calls : stage'[j] = IF j = i THEN s ELSE stage[j]
  BY DEF ServiceTypes
<1>2. ServiceTypes'
  BY DEF ServiceTypes, OpenStages, Stages
<1>3. \A j \in Calls : Opens(j)' <=> Opens(j)
  BY <1>1 DEF Opens, OpenStages
<1>4. \A j \in Calls : Waiting(j)' <=> Waiting(j) /\ j # i
  BY <1>1 DEF Waiting, Opens, OpenStages
<1>5. CallInv'
  BY <1>1, <1>3, <1>4 DEF CallInv, Registered, Unsettled, OpenStages, Opens
<1>6. TicketInv' /\ PendingInv'
  BY DEF TicketInv, PendingInv, Registered, Unsettled
<1>7. ChainInv'
  BY <1>4 DEF ChainInv, Unsettled, Precedes, Registered
<1>8. OrderInv'
  BY <1>3 DEF OrderInv, Unsettled, Precedes, Registered
<1>9. CreationInv'
  BY <1>3 DEF CreationInv, Registered, Cataloged
<1>10. RecordInv'
  BY <1>3 DEF RecordInv, IsRestore, Cataloged
<1> QED BY <1>2, <1>5, <1>6, <1>7, <1>8, <1>9, <1>10

(* A registered call whose turn it is, or a call without a ticket, settles. *)
LEMMA TurnOver ==
    ASSUME ServiceInv, NEW i \in Calls, operation[i] # "none",
           NEW op, NEW s \in {"ok", "failed"}, Settle(i, op, s),
           \A j \in Calls : Precedes(j, i) => ~Unsettled(j),
           UNCHANGED <<operation, conversation, target, peer, ticketVars>>
    PROVE  CallInv' /\ TicketInv' /\ PendingInv' /\ ChainInv' /\ OrderInv'
<1> USE DEF ServiceInv, ticketVars
<1>1. /\ \A j \in Calls : outcome'[j] = IF j = i THEN s ELSE outcome[j]
      /\ \A j \in Calls : j # i => stage'[j] = stage[j]
      /\ stage'[i] \in {"activated", "done"}
  BY DEF ServiceTypes, Settle
<1>2. /\ DOMAIN pendingRestores' = Conversations
      /\ \A c \in Conversations :
           pendingRestores'[c] = IF pendingRestores[c] = i THEN None ELSE pendingRestores[c]
  BY DEF ServiceTypes, Settle, Without
<1>4. \A j \in Calls : Opens(j)' <=> Opens(j) /\ j # i
  BY <1>1 DEF Opens
<1>5. \A j \in Calls : Waiting(j)' <=> Waiting(j) /\ j # i
  BY <1>1 DEF Waiting
<1>6. \A j \in Calls : Unsettled(j)' => Unsettled(j) /\ j # i
  BY <1>1 DEF Unsettled
<1>7. \A j \in Calls : j # i /\ Unsettled(j) => Unsettled(j)'
  BY <1>1 DEF Unsettled
<1>8. CallInv'
  BY <1>1, <1>4, <1>5, <1>7 DEF CallInv, Registered, Unsettled
<1>9. TicketInv'
  BY DEF TicketInv, Registered
<1>10. PendingInv'
  <2>1. ASSUME NEW c \in Conversations, pendingRestores'[c] # None
        PROVE  /\ ticket'[pendingRestores'[c]] # 0 /\ conversation'[pendingRestores'[c]] = c
               /\ outcome'[pendingRestores'[c]] = "none"
    <3>1. pendingRestores'[c] = pendingRestores[c] /\ pendingRestores[c] # i
          /\ pendingRestores[c] \in Calls
      BY <1>2, <2>1 DEF ServiceTypes, MaybeCall
    <3>2. /\ ticket[pendingRestores[c]] # 0 /\ conversation[pendingRestores[c]] = c
          /\ outcome[pendingRestores[c]] = "none"
      BY <2>1, <3>1 DEF PendingInv, Registered, Unsettled
    <3> QED BY <1>1, <3>1, <3>2
  <2>2. ASSUME NEW h \in Calls, Registered(h), Unsettled(h)'
        PROVE  /\ pendingRestores'[conversation'[h]] # None
               /\ ticket'[h] <= ticket'[pendingRestores'[conversation'[h]]]
    <3>1. Unsettled(h) /\ h # i /\ conversation[h] \in Conversations
      BY <1>6, <2>2 DEF CallInv, ServiceTypes, Registered
    <3>2. pendingRestores[conversation[h]] # None
          /\ ticket[h] <= ticket[pendingRestores[conversation[h]]]
      BY <2>2, <3>1 DEF PendingInv
    <3>3. pendingRestores[conversation[h]] # i
      <4> SUFFICES ASSUME pendingRestores[conversation[h]] = i  PROVE FALSE
        OBVIOUS
      <4>1. Registered(i) /\ conversation[i] = conversation[h] /\ ticket[h] <= ticket[i]
        BY <3>1, <3>2 DEF PendingInv
      <4>2. ticket[h] # ticket[i]
        BY <2>2, <3>1 DEF TicketInv
      <4>3. Precedes(h, i)
        BY <2>2, <4>1, <4>2 DEF Precedes, ServiceTypes
      <4> QED BY <3>1, <4>3
    <3> QED BY <1>2, <3>1, <3>2, <3>3
  <2> QED BY <2>1, <2>2 DEF PendingInv, Registered, Unsettled
<1>11. ChainInv'
  BY <1>5, <1>6 DEF ChainInv, Precedes, Registered
<1>12. OrderInv'
  BY <1>1, <1>4 DEF OrderInv, Precedes, Registered, Unsettled
<1> QED BY <1>8, <1>9, <1>10, <1>11, <1>12

LEMMA SettleKeeps ==
    ASSUME ServiceInv, NEW i \in Calls, operation[i] # "none",
           NEW op, NEW s \in {"ok", "failed"}, Settle(i, op, s),
           \A j \in Calls : Precedes(j, i) => ~Unsettled(j),
           UNCHANGED <<workspace, removed, activeHandles, operation, conversation, target, peer,
                       ticketVars>>
    PROVE  ServiceInv'
<1> USE DEF ServiceInv, ticketVars
<1>1. ServiceTypes'
  <2>1. stage' \in [Calls -> Stages] /\ outcome' \in [Calls -> {"none", "ok", "failed"}]
    BY DEF ServiceTypes, Settle, Stages
  <2>2. pendingRestores' \in [Conversations -> MaybeCall]
    BY DEF ServiceTypes, Settle, Without, MaybeCall
  <2> QED BY <2>1, <2>2 DEF ServiceTypes
<1>2. CallInv' /\ TicketInv' /\ PendingInv' /\ ChainInv' /\ OrderInv'
  BY TurnOver
<1>3. \A j \in Calls : Opens(j)' => Opens(j)
  BY DEF Settle, Opens, ServiceTypes
<1>4. CreationInv'
  BY <1>3 DEF CreationInv, Registered, Cataloged
<1>5. RecordInv'
  BY <1>3 DEF RecordInv, IsRestore, Cataloged
<1> QED BY <1>1, <1>2, <1>4, <1>5

(* Who opens, or need not wait any more, is preceded by settled calls only. *)
LEMMA OpensInTurn ==
    ASSUME ServiceInv, NEW i \in Calls, Opens(i), NEW j \in Calls, Precedes(j, i)
    PROVE  ~Unsettled(j)
BY DEF ServiceInv, OrderInv

LEMMA WaitedInTurn ==
    ASSUME ServiceInv, NEW i \in Calls, Waiting(i), Settled(peer[i]), NEW j \in Calls, Precedes(j, i)
    PROVE  ~Unsettled(j)
<1> SUFFICES ASSUME Unsettled(j)  PROVE FALSE
  OBVIOUS
<1> DEFINE h == peer[i]
<1>1. h # None /\ ticket[j] <= ticket[h] /\ h \in Calls /\ Precedes(h, i)
  BY DEF ServiceInv, ChainInv
<1>2. ~Unsettled(h)
  BY <1>1 DEF Settled, Unsettled
<1> HIDE DEF h
<1>3. ticket[j] \in Nat /\ ticket[h] \in Nat
  BY <1>1 DEF ServiceInv, ServiceTypes
<1>4. CASE ticket[j] = ticket[h]
  BY <1>1, <1>2, <1>4 DEF ServiceInv, TicketInv, Precedes
<1>5. CASE ticket[j] < ticket[h]
  <2>1. Precedes(j, h)
    BY <1>1, <1>5 DEF Precedes
  <2> QED BY <1>1, <1>2, <2>1 DEF ServiceInv, OrderInv
<1> QED BY <1>1, <1>3, <1>4, <1>5

(* A new call that takes no ticket and opens nothing. *)
LEMMA BeginKeeps ==
    ASSUME ServiceInv, NEW i \in Calls, NEW op \in Operations \ {"none"}, Begins(i, op),
           NEW c \in Conversations, NEW w \in Workspaces \cup {NoWorkspace}, NEW k, Request(i, c, w, k),
           op = "relocate" => w \in Workspaces,
           NEW s \in Stages \ (OpenStages \cup {"idle"}),
           stage' = [stage EXCEPT ![i] = s],
           s = "canonical" => op = "relocate", s = "previous" => op # "relocate",
           NEW o \in {"none", "ok", "failed"}, outcome' = [outcome EXCEPT ![i] = o],
           s = "canonical" => o = "none",
           DOMAIN peer' = Calls, \A j \in Calls : j # i => peer'[j] = peer[j],
           UNCHANGED <<workspace, removed, activeHandles, pendingRestores, ticketVars>>
    PROVE  ServiceInv'
<1> USE DEF ServiceInv, ticketVars
<1>1. operation[i] = "none" /\ stage[i] = "idle" /\ ticket[i] = 0 /\ outcome[i] = "none"
      /\ conversation[i] = NoConversation
  BY DEF Begins, CallInv
<1>2. \A j \in Calls : /\ operation'[j] = IF j = i THEN op ELSE operation[j]
                       /\ conversation'[j] = IF j = i THEN c ELSE conversation[j]
                       /\ target'[j] = IF j = i THEN w ELSE target[j]
                       /\ stage'[j] = IF j = i THEN s ELSE stage[j]
                       /\ outcome'[j] = IF j = i THEN o ELSE outcome[j]
  BY DEF ServiceTypes, Begins, Request
<1>3. ServiceTypes'
  BY DEF ServiceTypes, Begins, Request
<1>4. \A j \in Calls : Opens(j)' <=> Opens(j) /\ j # i
  BY <1>1, <1>2 DEF Opens, OpenStages
<1>5. \A j \in Calls : Waiting(j)' <=> Waiting(j) /\ j # i
  BY <1>1, <1>2 DEF Waiting
<1>6. \A h, j \in Calls : Precedes(h, j)' <=> Precedes(h, j)
  BY <1>1, <1>2 DEF Precedes, Registered
<1>7. CallInv'
  BY <1>1, <1>2, <1>4, <1>5, NoneAssumption DEF CallInv, Registered, Unsettled
<1>8. TicketInv'
  BY DEF TicketInv, Registered
<1>9. \A j \in Calls : Registered(j) => j # i /\ conversation'[j] = conversation[j]
                                        /\ outcome'[j] = outcome[j]
  BY <1>1, <1>2 DEF Registered
<1>10. PendingInv'
  <2>1. \A d \in Conversations : pendingRestores[d] # None => pendingRestores[d] \in Calls
    BY DEF ServiceTypes, MaybeCall
  <2> QED BY <1>9, <2>1 DEF PendingInv, Registered, Unsettled
<1>11. ChainInv'
  <2> SUFFICES ASSUME NEW r \in Calls, Waiting(r)'
               PROVE  /\ peer'[r] # None => peer'[r] \in Calls /\ ticket[peer'[r]] # 0 /\ ticket[r] # 0
                           /\ conversation'[peer'[r]] = conversation'[r] /\ ticket[peer'[r]] < ticket[r]
                      /\ \A h \in Calls : Precedes(h, r)' /\ Unsettled(h)' =>
                           peer'[r] # None /\ ticket[h] <= ticket[peer'[r]]
    BY DEF ChainInv, Precedes, Registered
  <2>1. Waiting(r) /\ r # i /\ peer'[r] = peer[r]
    BY <1>5
  <2>2. peer[r] # None => peer[r] \in Calls /\ ticket[peer[r]] # 0 /\ ticket[r] # 0
                          /\ conversation[peer[r]] = conversation[r] /\ ticket[peer[r]] < ticket[r]
    BY <2>1 DEF ChainInv, Precedes, Registered
  <2>3. \A h \in Calls : Precedes(h, r)' /\ Unsettled(h)' => Precedes(h, r) /\ Unsettled(h)
    BY <1>6, <1>9 DEF Precedes, Registered, Unsettled
  <2>4. \A h \in Calls : Precedes(h, r) /\ Unsettled(h) =>
          peer[r] # None /\ ticket[h] <= ticket[peer[r]]
    BY <2>1 DEF ChainInv
  <2> QED BY <1>9, <2>1, <2>2, <2>3, <2>4 DEF Registered
<1>12. OrderInv'
  BY <1>4, <1>6, <1>9 DEF OrderInv, Precedes, Registered, Unsettled
<1>13. CreationInv'
  BY <1>2, <1>4 DEF CreationInv, Registered, Cataloged
<1>14. RecordInv'
  <2>1. \A d \in Conversations : activeHandles[d] # None => activeHandles[d] \in Calls \ {i}
    BY <1>1, NoneAssumption DEF ServiceTypes, MaybeCall, RecordInv
  <2> QED BY <1>2, <1>4, <2>1 DEF RecordInv, IsRestore, Cataloged
<1> QED BY <1>3, <1>7, <1>8, <1>10, <1>11, <1>12, <1>13, <1>14

(* A new call opens a cataloged conversation nothing else restores. *)
LEMMA RegisterKeeps ==
    ASSUME ServiceInv, NEW i \in Calls, NEW op \in Operations \ {"none", "relocate"}, Begins(i, op),
           NEW c \in Conversations, NEW k, Request(i, c, workspace[c], k),
           Cataloged(c), activeHandles[c] = None, pendingRestores[c] = None,
           Go(i, "resolve"), Register(i, c),
           UNCHANGED <<workspace, removed, activeHandles, peer, outcome>>
    PROVE  ServiceInv'
<1> USE DEF ServiceInv
<1> DEFINE n == nextTicket
<1>1. operation[i] = "none" /\ stage[i] = "idle" /\ ticket[i] = 0 /\ outcome[i] = "none"
      /\ conversation[i] = NoConversation /\ n \in Nat \ {0}
  BY DEF Begins, CallInv, ServiceTypes
<1>2. \A j \in Calls : /\ operation'[j] = IF j = i THEN op ELSE operation[j]
                       /\ conversation'[j] = IF j = i THEN c ELSE conversation[j]
                       /\ target'[j] = IF j = i THEN workspace[c] ELSE target[j]
                       /\ stage'[j] = IF j = i THEN "resolve" ELSE stage[j]
                       /\ ticket'[j] = IF j = i THEN n ELSE ticket[j]
  BY DEF ServiceTypes, Begins, Request, Go, Register
<1>3. /\ \A d \in Conversations : pendingRestores'[d] = IF d = c THEN i ELSE pendingRestores[d]
      /\ workspace[c] \in Workspaces
  BY DEF ServiceTypes, Register, Cataloged
<1>4. ServiceTypes'
  <2>1. operation' \in [Calls -> Operations] /\ stage' \in [Calls -> Stages]
        /\ conversation' \in [Calls -> Conversations \cup {NoConversation}]
        /\ target' \in [Calls -> Workspaces \cup {NoWorkspace}]
    BY DEF ServiceTypes, Begins, Request, Go, Stages
  <2>2. pendingRestores' \in [Conversations -> MaybeCall] /\ ticket' \in [Calls -> Nat]
        /\ nextTicket' \in Nat \ {0}
    BY <1>1 DEF ServiceTypes, Register, MaybeCall
  <2> QED BY <2>1, <2>2 DEF ServiceTypes
<1> HIDE DEF n
<1>5. \A j \in Calls : Opens(j)' <=> Opens(j) \/ j = i
  BY <1>2 DEF Opens
<1>6. \A j \in Calls : Waiting(j)' <=> Waiting(j) /\ j # i
  BY <1>1, <1>2 DEF Waiting
<1>7. \A j \in Calls : ticket[j] \in Nat /\ ticket[j] < n
  BY DEF n, TicketInv, ServiceTypes
<1>8. \A h, j \in Calls : j # i => (Precedes(h, j)' <=> Precedes(h, j))
  BY <1>1, <1>2, <1>7 DEF Precedes, Registered
<1>9. \A h \in Calls : Precedes(h, i)' => ~Unsettled(h)
  <2> SUFFICES ASSUME NEW h \in Calls, Precedes(h, i)', Unsettled(h)  PROVE FALSE
    OBVIOUS
  <2>1. h # i
    BY <1>2, <1>1, <1>7 DEF Precedes
  <2>2. Registered(h) /\ conversation[h] = c
    BY <1>2, <2>1 DEF Precedes, Registered
  <2> QED BY <2>2 DEF PendingInv
<1>10. CallInv'
  BY <1>1, <1>2, <1>5, <1>6, NoneAssumption DEF CallInv, Registered, Unsettled
<1>11. TicketInv'
  <2>1. nextTicket' = n + 1
    BY DEF Register, n
  <2>2. \A j \in Calls : ticket'[j] < nextTicket'
    BY <1>1, <1>2, <1>7, <2>1
  <2>3. \A h, j \in Calls : ticket'[h] = ticket'[j] /\ ticket'[h] # 0 => h = j
    BY <1>2, <1>7 DEF TicketInv, Registered
  <2> QED BY <2>2, <2>3 DEF TicketInv, Registered
<1>12. PendingInv'
  <2>1. ASSUME NEW d \in Conversations, pendingRestores'[d] # None
        PROVE  /\ ticket'[pendingRestores'[d]] # 0 /\ conversation'[pendingRestores'[d]] = d
               /\ outcome'[pendingRestores'[d]] = "none"
    <3>1. CASE d = c
      BY <1>1, <1>2, <1>3, <3>1
    <3>2. CASE d # c
      <4>1. pendingRestores[d] # None /\ pendingRestores[d] \in Calls
        BY <1>3, <2>1, <3>2 DEF ServiceTypes, MaybeCall
      <4>2. /\ ticket[pendingRestores[d]] # 0 /\ conversation[pendingRestores[d]] = d
            /\ outcome[pendingRestores[d]] = "none"
        BY <4>1 DEF PendingInv, Registered, Unsettled
      <4> QED BY <1>1, <1>2, <1>3, <3>2, <4>1, <4>2
    <3> QED BY <3>1, <3>2
  <2>2. ASSUME NEW h \in Calls, ticket'[h] # 0, outcome'[h] = "none"
        PROVE  /\ pendingRestores'[conversation'[h]] # None
               /\ ticket'[h] <= ticket'[pendingRestores'[conversation'[h]]]
    <3>1. CASE h = i
      BY <1>1, <1>2, <1>3, <3>1, CallsAreNumbers
    <3>2. CASE h # i
      <4>1. Registered(h) /\ Unsettled(h)
        BY <1>2, <2>2, <3>2 DEF Registered, Unsettled
      <4>2. conversation[h] \in Conversations
        BY <4>1, HasConversation DEF CallInv, Registered
      <4>3. pendingRestores[conversation[h]] # None
            /\ ticket[h] <= ticket[pendingRestores[conversation[h]]]
        BY <4>1 DEF PendingInv
      <4>4. conversation[h] # c
        BY <4>3
      <4>5. pendingRestores[conversation[h]] \in Calls \ {i}
        BY <1>1, <4>2, <4>3 DEF ServiceTypes, MaybeCall, PendingInv, Registered
      <4> QED BY <1>2, <1>3, <3>2, <4>2, <4>3, <4>4, <4>5
    <3> QED BY <3>1, <3>2
  <2> QED BY <2>1, <2>2 DEF PendingInv, Registered, Unsettled
<1>13. ChainInv'
  <2> SUFFICES ASSUME NEW r \in Calls, Waiting(r)'
               PROVE  /\ peer[r] # None => peer[r] \in Calls /\ ticket'[peer[r]] # 0 /\ ticket'[r] # 0
                           /\ conversation'[peer[r]] = conversation'[r] /\ ticket'[peer[r]] < ticket'[r]
                      /\ \A h \in Calls : Precedes(h, r)' /\ Unsettled(h)' =>
                           peer[r] # None /\ ticket'[h] <= ticket'[peer[r]]
    BY DEF ChainInv, Precedes, Registered
  <2>1. Waiting(r) /\ r # i
    BY <1>6
  <2>2. peer[r] # None => peer[r] \in Calls /\ ticket[peer[r]] # 0 /\ ticket[r] # 0
                          /\ conversation[peer[r]] = conversation[r] /\ ticket[peer[r]] < ticket[r]
    BY <2>1 DEF ChainInv, Precedes, Registered
  <2>3. peer[r] # None => peer[r] # i
    BY <1>1, <2>2
  <2>4. \A h \in Calls : Precedes(h, r) /\ Unsettled(h) =>
          peer[r] # None /\ ticket[h] <= ticket[peer[r]]
    BY <2>1 DEF ChainInv
  <2>5. \A h \in Calls : Precedes(h, r) => h # i
    BY <1>1 DEF Precedes, Registered
  <2> QED BY <1>2, <1>8, <2>1, <2>2, <2>3, <2>4, <2>5 DEF Unsettled
<1>14. OrderInv'
  <2> SUFFICES ASSUME NEW h \in Calls, NEW j \in Calls, Precedes(h, j)', Opens(j)' \/ ~Unsettled(j)'
               PROVE  ~Unsettled(h)
    BY DEF OrderInv, Unsettled
  <2>1. CASE j = i
    BY <1>9, <2>1
  <2>2. CASE j # i
    BY <1>5, <1>8, <2>2 DEF OrderInv, Unsettled
  <2> QED BY <2>1, <2>2
<1>15. CreationInv'
  <2>1. \A j \in Calls : Opens(j) /\ ~Registered(j) => conversation[j] # c
    BY DEF CreationInv
  <2>2. \A j \in Calls : Registered(j)' <=> Registered(j) \/ j = i
    BY <1>1, <1>2 DEF Registered
  <2> QED BY <1>2, <1>5, <2>1, <2>2 DEF CreationInv, Cataloged
<1>16. RecordInv'
  <2>1. \A d \in Conversations : activeHandles[d] # None => activeHandles[d] \in Calls \ {i}
    BY <1>1, NoneAssumption DEF ServiceTypes, MaybeCall, RecordInv
  <2>2. /\ \A d \in removed' : ~Cataloged(d)'
        /\ \A d \in Conversations : activeHandles'[d] # None =>
             conversation'[activeHandles'[d]] = d /\ target'[activeHandles'[d]] \in Workspaces
    BY <1>2, <2>1 DEF RecordInv, Cataloged
  <2>3. ASSUME NEW j \in Calls, Opens(j)'
        PROVE  /\ target'[j] \in Workspaces
               /\ activeHandles'[conversation'[j]] = None
               /\ operation'[j] # "relocate" /\ ticket'[j] # 0 /\ workspace'[conversation'[j]] # NoWorkspace =>
                    workspace'[conversation'[j]] = target'[j]
    <3>1. CASE j = i
      BY <1>2, <1>3, <3>1
    <3>2. CASE j # i
      BY <1>2, <1>5, <2>3, <3>2 DEF RecordInv, IsRestore, Cataloged
    <3> QED BY <3>1, <3>2
  <2> QED BY <2>2, <2>3 DEF RecordInv, IsRestore, Cataloged
<1> QED BY <1>4, <1>10, <1>11, <1>12, <1>13, <1>14, <1>15, <1>16

(* A new call creates a conversation. *)
LEMMA CreateKeeps ==
    ASSUME ServiceInv, NEW i \in Calls, Begins(i, "create"),
           NEW c \in Conversations, NEW w \in Workspaces, NEW k, Request(i, c, w, k), Unused(c),
           Go(i, "resolve"),
           UNCHANGED <<workspace, removed, activeHandles, pendingRestores, peer, outcome, ticketVars>>
    PROVE  ServiceInv'
<1> USE DEF ServiceInv, ticketVars
<1>1. operation[i] = "none" /\ stage[i] = "idle" /\ ticket[i] = 0 /\ outcome[i] = "none"
      /\ conversation[i] = NoConversation
  BY DEF Begins, CallInv
<1>2. \A j \in Calls : /\ operation'[j] = IF j = i THEN "create" ELSE operation[j]
                       /\ conversation'[j] = IF j = i THEN c ELSE conversation[j]
                       /\ target'[j] = IF j = i THEN w ELSE target[j]
                       /\ stage'[j] = IF j = i THEN "resolve" ELSE stage[j]
  BY DEF ServiceTypes, Begins, Request, Go
<1>3. ServiceTypes'
  BY DEF ServiceTypes, Begins, Request, Go, Operations, Stages
<1>4. \A j \in Calls : Opens(j)' <=> Opens(j) \/ j = i
  BY <1>2 DEF Opens
<1>5. \A j \in Calls : Waiting(j)' <=> Waiting(j) /\ j # i
  BY <1>1, <1>2 DEF Waiting
<1>6. \A h, j \in Calls : Precedes(h, j)' <=> Precedes(h, j)
  BY <1>1, <1>2 DEF Precedes, Registered
<1>7. \A j \in Calls : Registered(j) => j # i /\ conversation'[j] = conversation[j]
  BY <1>1, <1>2 DEF Registered
<1>8. CallInv'
  BY <1>1, <1>2, <1>4, <1>5, NoneAssumption DEF CallInv, Registered, Unsettled
<1>9. TicketInv'
  BY DEF TicketInv, Registered
<1>10. PendingInv'
  <2>1. \A d \in Conversations : pendingRestores[d] # None => pendingRestores[d] \in Calls
    BY DEF ServiceTypes, MaybeCall
  <2> QED BY <1>7, <2>1 DEF PendingInv, Registered, Unsettled
<1>11. ChainInv'
  <2> SUFFICES ASSUME NEW r \in Calls, Waiting(r)'
               PROVE  /\ peer[r] # None => peer[r] \in Calls /\ ticket[peer[r]] # 0 /\ ticket[r] # 0
                           /\ conversation'[peer[r]] = conversation'[r] /\ ticket[peer[r]] < ticket[r]
                      /\ \A h \in Calls : Precedes(h, r)' /\ Unsettled(h)' =>
                           peer[r] # None /\ ticket[h] <= ticket[peer[r]]
    BY DEF ChainInv, Precedes, Registered
  <2>1. Waiting(r) /\ r # i
    BY <1>5
  <2>2. peer[r] # None => peer[r] \in Calls /\ ticket[peer[r]] # 0 /\ ticket[r] # 0
                          /\ conversation[peer[r]] = conversation[r] /\ ticket[peer[r]] < ticket[r]
    BY <2>1 DEF ChainInv, Precedes, Registered
  <2>3. \A h \in Calls : Precedes(h, r) /\ Unsettled(h) =>
          peer[r] # None /\ ticket[h] <= ticket[peer[r]]
    BY <2>1 DEF ChainInv
  <2> QED BY <1>6, <1>7, <2>1, <2>2, <2>3 DEF Registered, Unsettled
<1>12. OrderInv'
  <2>1. \A h, j \in Calls : Precedes(h, j) => j # i
    BY <1>7 DEF Precedes
  <2> QED BY <1>4, <1>6, <2>1 DEF OrderInv, Unsettled
<1>13. CreationInv'
  <2>1. \A j \in Calls : Opens(j) => conversation[j] # c
    BY DEF Unused
  <2> QED BY <1>1, <1>2, <1>4, <2>1 DEF CreationInv, Registered, Cataloged, Unused
<1>14. RecordInv'
  <2>1. \A d \in Conversations : activeHandles[d] # None => activeHandles[d] \in Calls \ {i}
    BY <1>1, NoneAssumption DEF ServiceTypes, MaybeCall, RecordInv
  <2>2. /\ \A d \in removed' : ~Cataloged(d)'
        /\ \A d \in Conversations : activeHandles'[d] # None =>
             conversation'[activeHandles'[d]] = d /\ target'[activeHandles'[d]] \in Workspaces
    BY <1>2, <2>1 DEF RecordInv, Cataloged
  <2>3. activeHandles[c] = None
    BY <2>1 DEF RecordInv, Unused
  <2>4. ASSUME NEW j \in Calls, Opens(j)'
        PROVE  /\ target'[j] \in Workspaces
               /\ activeHandles'[conversation'[j]] = None
               /\ operation'[j] # "relocate" /\ ticket'[j] # 0 /\ workspace'[conversation'[j]] # NoWorkspace =>
                    workspace'[conversation'[j]] = target'[j]
    <3>1. CASE j = i
      BY <1>1, <1>2, <2>3, <3>1
    <3>2. CASE j # i
      BY <1>2, <1>4, <2>4, <3>2 DEF RecordInv, IsRestore, Cataloged
    <3> QED BY <3>1, <3>2
  <2> QED BY <2>2, <2>4 DEF RecordInv, IsRestore, Cataloged
<1> QED BY <1>3, <1>8, <1>9, <1>10, <1>11, <1>12, <1>13, <1>14

(* A relocation takes its place behind the last unsettled call. *)
LEMMA ChainKeeps ==
    ASSUME ServiceInv, NEW i \in Calls, stage[i] = "canonical",
           NEW c, c = conversation[i],
           peer' = [peer EXCEPT ![i] = pendingRestores[c]],
           Register(i, c), Go(i, "previous"),
           UNCHANGED <<workspace, removed, activeHandles, operation, conversation, target, outcome>>
    PROVE  ServiceInv'
<1> USE DEF ServiceInv
<1> DEFINE n == nextTicket
           q == pendingRestores[c]
<1>1. operation[i] = "relocate" /\ ticket[i] = 0 /\ outcome[i] = "none" /\ n \in Nat \ {0}
      /\ c \in Conversations
  BY OpensHasConversation DEF CallInv, ServiceTypes, Unsettled
<1>2. \A j \in Calls : /\ stage'[j] = IF j = i THEN "previous" ELSE stage[j]
                       /\ ticket'[j] = IF j = i THEN n ELSE ticket[j]
                       /\ peer'[j] = IF j = i THEN q ELSE peer[j]
  BY DEF ServiceTypes, Go, Register
<1>3. \A d \in Conversations : pendingRestores'[d] = IF d = c THEN i ELSE pendingRestores[d]
  BY DEF ServiceTypes, Register
<1>4. ServiceTypes'
  <2>1. stage' \in [Calls -> Stages] /\ DOMAIN peer' = Calls
    BY DEF ServiceTypes, Go, Stages
  <2>2. pendingRestores' \in [Conversations -> MaybeCall] /\ ticket' \in [Calls -> Nat]
        /\ nextTicket' \in Nat \ {0}
    BY <1>1 DEF ServiceTypes, Register, MaybeCall
  <2> QED BY <2>1, <2>2 DEF ServiceTypes
<1>5. q # None => q \in Calls /\ Registered(q) /\ conversation[q] = c /\ Unsettled(q) /\ q # i
  BY <1>1 DEF ServiceTypes, MaybeCall, PendingInv, Registered
<1>6. \A j \in Calls : ticket[j] \in Nat /\ ticket[j] < n
  BY DEF n, TicketInv, ServiceTypes
<1>7. \A h \in Calls : Registered(h) /\ Unsettled(h) /\ conversation[h] = c =>
         q # None /\ ticket[h] <= ticket[q]
  BY DEF PendingInv
<1> HIDE DEF n, q
<1>8. \A j \in Calls : Opens(j)' <=> Opens(j)
  BY <1>2 DEF Opens
<1>9. \A j \in Calls : Waiting(j)' <=> Waiting(j) \/ j = i
  BY <1>1, <1>2 DEF Waiting
<1>10. \A h, j \in Calls : j # i => (Precedes(h, j)' <=> Precedes(h, j))
  BY <1>1, <1>2, <1>6 DEF Precedes, Registered
<1>11. CallInv'
  <2>1. \A j \in Calls : Registered(j)' <=> Registered(j) \/ j = i
    BY <1>1, <1>2 DEF Registered
  <2> QED BY <1>1, <1>2, <1>8, <1>9, <2>1 DEF CallInv, Unsettled, Registered
<1>12. TicketInv'
  <2>1. nextTicket' = n + 1
    BY DEF Register, n
  <2>2. \A j \in Calls : ticket'[j] < nextTicket'
    BY <1>1, <1>2, <1>6, <2>1
  <2>3. \A h, j \in Calls : ticket'[h] = ticket'[j] /\ ticket'[h] # 0 => h = j
    BY <1>2, <1>6 DEF TicketInv, Registered
  <2> QED BY <2>2, <2>3 DEF TicketInv, Registered
<1>13. PendingInv'
  <2>1. ASSUME NEW d \in Conversations, pendingRestores'[d] # None
        PROVE  /\ ticket'[pendingRestores'[d]] # 0 /\ conversation'[pendingRestores'[d]] = d
               /\ outcome'[pendingRestores'[d]] = "none"
    <3>1. CASE d = c
      BY <1>1, <1>2, <1>3, <3>1
    <3>2. CASE d # c
      <4>1. pendingRestores[d] # None /\ pendingRestores[d] \in Calls
        BY <1>3, <2>1, <3>2 DEF ServiceTypes, MaybeCall
      <4>2. /\ ticket[pendingRestores[d]] # 0 /\ conversation[pendingRestores[d]] = d
            /\ outcome[pendingRestores[d]] = "none"
        BY <4>1 DEF PendingInv, Registered, Unsettled
      <4> QED BY <1>1, <1>2, <1>3, <3>2, <4>1, <4>2
    <3> QED BY <3>1, <3>2
  <2>2. ASSUME NEW h \in Calls, ticket'[h] # 0, outcome'[h] = "none"
        PROVE  /\ pendingRestores'[conversation'[h]] # None
               /\ ticket'[h] <= ticket'[pendingRestores'[conversation'[h]]]
    <3>1. CASE conversation[h] = c
      <4>1. pendingRestores'[conversation'[h]] = i /\ ticket'[i] = n
        BY <1>1, <1>2, <1>3, <3>1
      <4>2. ticket'[h] <= n
        BY <1>1, <1>2, <1>6
      <4> QED BY <4>1, <4>2, CallsAreNumbers
    <3>2. CASE conversation[h] # c
      <4>1. Registered(h) /\ Unsettled(h) /\ h # i
        BY <1>2, <2>2, <3>2 DEF Registered, Unsettled
      <4>2. conversation[h] \in Conversations
        BY <4>1, HasConversation DEF CallInv, Registered
      <4>3. pendingRestores[conversation[h]] # None
            /\ ticket[h] <= ticket[pendingRestores[conversation[h]]]
        BY <4>1 DEF PendingInv
      <4>4. pendingRestores[conversation[h]] \in Calls \ {i}
        BY <1>1, <4>2, <4>3 DEF ServiceTypes, MaybeCall, PendingInv, Registered
      <4> QED BY <1>2, <1>3, <3>2, <4>1, <4>2, <4>3, <4>4
    <3> QED BY <3>1, <3>2
  <2> QED BY <2>1, <2>2 DEF PendingInv, Registered, Unsettled
<1>14. ChainInv'
  <2> SUFFICES ASSUME NEW r \in Calls, Waiting(r)'
               PROVE  /\ peer'[r] # None => peer'[r] \in Calls /\ ticket'[peer'[r]] # 0 /\ ticket'[r] # 0
                           /\ conversation'[peer'[r]] = conversation'[r] /\ ticket'[peer'[r]] < ticket'[r]
                      /\ \A h \in Calls : Precedes(h, r)' /\ Unsettled(h)' =>
                           peer'[r] # None /\ ticket'[h] <= ticket'[peer'[r]]
    BY DEF ChainInv, Precedes, Registered
  <2>1. CASE r = i
    <3>1. peer'[r] # None => peer'[r] \in Calls /\ ticket'[peer'[r]] # 0 /\ ticket'[r] # 0
             /\ conversation'[peer'[r]] = conversation'[r] /\ ticket'[peer'[r]] < ticket'[r]
      BY <1>1, <1>2, <1>5, <1>6, <2>1 DEF Registered
    <3>2. ASSUME NEW h \in Calls, Precedes(h, r)', Unsettled(h)'
          PROVE  peer'[r] # None /\ ticket'[h] <= ticket'[peer'[r]]
      <4>1. h # i /\ Registered(h) /\ conversation[h] = c
        BY <1>1, <1>2, <2>1, <3>2 DEF Precedes, Registered
      <4>2. q # None /\ ticket[h] <= ticket[q]
        BY <1>7, <3>2, <4>1 DEF Unsettled
      <4> QED BY <1>2, <1>5, <2>1, <4>1, <4>2
    <3> QED BY <3>1, <3>2
  <2>2. CASE r # i
    <3>1. Waiting(r) /\ peer'[r] = peer[r]
      BY <1>2, <1>9, <2>2
    <3>2. peer[r] # None => peer[r] \in Calls /\ ticket[peer[r]] # 0 /\ ticket[r] # 0
            /\ conversation[peer[r]] = conversation[r] /\ ticket[peer[r]] < ticket[r]
      BY <3>1 DEF ChainInv, Precedes, Registered
    <3>3. peer[r] # None => peer[r] # i
      BY <1>1, <3>2
    <3>4. \A h \in Calls : Precedes(h, r) /\ Unsettled(h) =>
            peer[r] # None /\ ticket[h] <= ticket[peer[r]]
      BY <3>1 DEF ChainInv
    <3>5. \A h \in Calls : Precedes(h, r) => h # i
      BY <1>1 DEF Precedes, Registered
    <3> QED BY <1>2, <1>10, <2>2, <3>1, <3>2, <3>3, <3>4, <3>5 DEF Unsettled
  <2> QED BY <2>1, <2>2
<1>15. OrderInv'
  <2> SUFFICES ASSUME NEW h \in Calls, NEW j \in Calls, Precedes(h, j)', Opens(j)' \/ ~Unsettled(j)'
               PROVE  ~Unsettled(h)
    BY DEF OrderInv, Unsettled
  <2>1. j # i
    BY <1>1, <1>8 DEF Opens, Unsettled
  <2> QED BY <1>8, <1>10, <2>1 DEF OrderInv, Unsettled
<1>16. \A j \in Calls : Opens(j) => j # i
  BY DEF Opens
<1>17. CreationInv' /\ RecordInv'
  BY <1>2, <1>8, <1>16 DEF CreationInv, RecordInv, IsRestore, Registered, Cataloged
<1> QED BY <1>4, <1>11, <1>12, <1>13, <1>14, <1>15, <1>17

(* The turn of a relocation that was waiting has come. *)
LEMMA TurnKeeps ==
    ASSUME ServiceInv, NEW i \in Calls, Waiting(i), Settled(peer[i]),
           NEW c, c = conversation[i], activeHandles[c] = None, Cataloged(c),
           Go(i, "resolve"),
           UNCHANGED <<workspace, removed, activeHandles, pendingRestores, operation, conversation,
                       target, outcome, peer, ticketVars>>
    PROVE  ServiceInv'
<1> USE DEF ServiceInv, ticketVars
<1>1. /\ operation[i] = "relocate" /\ Registered(i) /\ Unsettled(i)
      /\ c \in Conversations /\ target[i] \in Workspaces
  BY OpensHasConversation DEF CallInv, Waiting
<1>2. \A j \in Calls : stage'[j] = IF j = i THEN "resolve" ELSE stage[j]
  BY DEF ServiceTypes, Go
<1>3. ServiceTypes'
  BY DEF ServiceTypes, Go, Stages
<1>4. \A j \in Calls : Opens(j)' <=> Opens(j) \/ j = i
  BY <1>2 DEF Opens
<1>5. \A j \in Calls : Waiting(j)' <=> Waiting(j) /\ j # i
  BY <1>2 DEF Waiting
<1>6. CallInv'
  BY <1>1, <1>2, <1>4, <1>5 DEF CallInv, Registered, Unsettled
<1>7. TicketInv' /\ PendingInv'
  BY DEF TicketInv, PendingInv, Registered, Unsettled
<1>8. ChainInv'
  BY <1>5 DEF ChainInv, Unsettled, Precedes, Registered
<1>9. OrderInv'
  BY <1>4, WaitedInTurn DEF OrderInv, Unsettled, Precedes, Registered
<1>10. CreationInv'
  BY <1>1, <1>4 DEF CreationInv, Registered, Cataloged
<1>11. RecordInv'
  BY <1>1, <1>4 DEF RecordInv, IsRestore, Cataloged
<1> QED BY <1>3, <1>6, <1>7, <1>8, <1>9, <1>10, <1>11

(* A call that opens writes the row and becomes the active one. *)
LEMMA OpenedKeeps ==
    ASSUME ServiceInv, NEW i \in Calls, Opens(i), NEW c, c = conversation[i],
           CatalogOpened(i, c), Remember(i, c), Settle(i, operation[i], "ok"),
           UNCHANGED <<operation, conversation, target, peer, ticketVars>>
    PROVE  ServiceInv' /\ workspace' = [workspace EXCEPT ![c] = target[i]] /\ c \notin removed
<1> USE DEF ServiceInv
<1>1. c \in Conversations /\ operation[i] # "none" /\ target[i] \in Workspaces
  BY OpensHasConversation DEF RecordInv, Opens
<1>2. c \notin removed /\ (~IsCreation(i) => Cataloged(c))
  BY DEF CatalogOpened, CreationInv, RecordInv, IsCreation, Registered
<1>3. workspace' = [workspace EXCEPT ![c] = target[i]]
  <2>1. CASE operation[i] \in {"create", "relocate"}
    BY <2>1 DEF CatalogOpened
  <2>2. CASE operation[i] \notin {"create", "relocate"}
    <3>1. Registered(i)
      BY <2>2 DEF CreationInv
    <3>2. workspace[c] = target[i]
      BY <1>2, <2>2, <3>1 DEF RecordInv, IsCreation, IsRestore, Registered
    <3>3. workspace' = workspace
      BY <2>2 DEF CatalogOpened
    <3> QED BY <3>2, <3>3 DEF ServiceTypes
  <2> QED BY <2>1, <2>2
<1>4. removed' = removed
  BY DEF CatalogOpened
<1>5. \A j \in Calls : Opens(j) /\ conversation[j] = c => j = i
  BY OneOpens
<1>6. /\ \A d \in Conversations : workspace'[d] = IF d = c THEN target[i] ELSE workspace[d]
      /\ \A d \in Conversations : activeHandles'[d] = IF d = c THEN i ELSE activeHandles[d]
  BY <1>3 DEF ServiceTypes, Remember
<1>7. /\ \A j \in Calls : outcome'[j] = IF j = i THEN "ok" ELSE outcome[j]
      /\ \A j \in Calls : j # i => stage'[j] = stage[j]
      /\ stage'[i] \in {"activated", "done"}
      /\ \A d \in Conversations :
           pendingRestores'[d] = IF pendingRestores[d] = i THEN None ELSE pendingRestores[d]
  BY DEF ServiceTypes, Settle, Without
<1>8. \A j \in Calls : Opens(j)' <=> Opens(j) /\ j # i
  BY <1>7 DEF Opens
<1>9. ServiceTypes'
  <2>1. stage' \in [Calls -> Stages] /\ outcome' \in [Calls -> {"none", "ok", "failed"}]
        /\ pendingRestores' \in [Conversations -> MaybeCall]
    BY DEF ServiceTypes, Settle, Stages, Without, MaybeCall
  <2>2. workspace' \in [Conversations -> Workspaces \cup {NoWorkspace}]
        /\ activeHandles' \in [Conversations -> MaybeCall]
    BY <1>1, <1>3 DEF ServiceTypes, Remember, MaybeCall
  <2> QED BY <1>4, <2>1, <2>2 DEF ServiceTypes, ticketVars
<1>10. /\ CallInv' /\ TicketInv' /\ PendingInv' /\ ChainInv' /\ OrderInv'
  BY <1>1, OpensInTurn, TurnOver
<1>11. CreationInv'
  <2>1. \A j \in Calls : Opens(j)' => Opens(j) /\ conversation[j] # c
    BY <1>5, <1>8
  <2> QED BY <1>4, <1>6, <1>8, <2>1, OpensHasConversation DEF CreationInv, Registered, Cataloged,
          ticketVars, Opens
<1>12. RecordInv'
  <2>1. \A j \in Calls : Opens(j)' => Opens(j) /\ conversation[j] # c /\ conversation[j] \in Conversations
    BY <1>5, <1>8, OpensHasConversation DEF Opens
  <2>2. \A j \in Calls : IsRestore(j)' <=> IsRestore(j)
    BY DEF IsRestore, ticketVars
  <2>3. NoWorkspace \notin Workspaces
    BY NoneAssumption
  <2>4. \A d \in Conversations : activeHandles'[d] # None =>
          conversation'[activeHandles'[d]] = d /\ target'[activeHandles'[d]] \in Workspaces
    BY <1>1, <1>6 DEF RecordInv
  <2>5. \A d \in removed' : ~Cataloged(d)'
    BY <1>2, <1>4, <1>6 DEF RecordInv, ServiceTypes, Cataloged
  <2> QED BY <1>6, <2>1, <2>2, <2>4, <2>5 DEF RecordInv, Cataloged
<1> QED BY <1>2, <1>3, <1>9, <1>10, <1>11, <1>12

(* The service forgets its handles. *)
LEMMA ShutdownKeeps ==
    ASSUME ServiceInv, ShutdownEnds
    PROVE  ServiceInv'
<1> USE DEF ServiceInv, ShutdownEnds, catalogVars, requestVars, stageVars, ticketVars
<1>1. ServiceTypes' /\ \A c \in Conversations : activeHandles'[c] = None
  BY DEF ServiceTypes, MaybeCall
<1>2. CallInv' /\ TicketInv' /\ PendingInv' /\ ChainInv' /\ OrderInv' /\ CreationInv'
  BY DEF CallInv, TicketInv, PendingInv, ChainInv, OrderInv, CreationInv, Registered, Unsettled,
         Waiting, Opens, Precedes, Cataloged
<1>3. RecordInv'
  <2>1. \A i \in Calls : Opens(i)' => Opens(i) /\ conversation[i] \in Conversations
    BY OpensHasConversation DEF Opens
  <2> QED BY <1>1, <2>1 DEF RecordInv, IsRestore, Cataloged
<1> QED BY <1>1, <1>2, <1>3

serviceVars == <<workspace, removed, activeHandles, pendingRestores, operation, conversation, target,
                 stage, peer, outcome, ticket, nextTicket>>

LEMMA StutterKeeps ==
    ASSUME ServiceInv, UNCHANGED serviceVars
    PROVE  ServiceInv'
BY DEF ServiceInv, serviceVars, ServiceTypes, CallInv, TicketInv, PendingInv, ChainInv, OrderInv,
       CreationInv, RecordInv, Registered, Unsettled, Waiting, Opens, Precedes, Cataloged, IsRestore

-----------------------------------------------------------------------------
(* Every step keeps the invariant. *)

LEMMA InitHolds == Init => ServiceInv
<1> SUFFICES ASSUME Init  PROVE ServiceInv
  OBVIOUS
<1>1. ServiceTypes
  BY BoundAssumption DEF Init, ServiceTypes, MaybeCall, Operations, Stages
<1>2. \A i \in Calls : ~Opens(i) /\ ~Waiting(i) /\ ticket[i] = 0
  BY DEF Init, Opens, Waiting
<1>3. CallInv
  BY <1>2 DEF Init, CallInv, Unsettled
<1>4. TicketInv /\ PendingInv /\ ChainInv /\ OrderInv
  BY <1>2 DEF Init, TicketInv, PendingInv, ChainInv, OrderInv, Registered, Precedes
<1>5. CreationInv /\ RecordInv
  BY <1>2 DEF Init, CreationInv, RecordInv
<1> QED BY <1>1, <1>3, <1>4, <1>5 DEF ServiceInv

(* A call that has no ticket is preceded by none. *)
LEMMA NoTicketNoOrder ==
    ASSUME NEW i \in Calls, ticket[i] = 0
    PROVE  \A j \in Calls : ~Precedes(j, i)
BY DEF Precedes, Registered

LEMMA SettleNothing ==
    ASSUME ServiceInv, NEW i \in Calls, operation[i] = "none", NEW op, NEW s, Settle(i, op, s)
    PROVE  pendingRestores' = pendingRestores
<1>1. \A c \in Conversations : pendingRestores[c] # i
  BY CallsAreNumbers DEF ServiceInv, CallInv, PendingInv, Registered
<1> QED BY <1>1 DEF Settle, Without, ServiceInv, ServiceTypes

(* activateRecord in a call that begins. *)
LEMMA ActivateKeeps ==
    ASSUME ServiceInv, NEW i \in Calls, NEW op \in Operations \ {"none", "relocate"}, Begins(i, op),
           NEW c \in Conversations, NEW k, Request(i, c, workspace[c], k), Cataloged(c),
           NEW creations, Activate(i, op, c, creations),
           UNCHANGED InRuntime
    PROVE  ServiceInv'
<1> USE DEF InRuntime, catalogVars
<1>1. workspace[c] \in Workspaces /\ operation[i] = "none" /\ outcome[i] = "none" /\ DOMAIN peer = Calls
  BY DEF ServiceInv, ServiceTypes, Cataloged, CallInv, Begins
<1>2. CASE Settle(i, op, "ok") /\ UNCHANGED <<peer, ticketVars>>
  <2>1. PICK s \in {"activated", "done"} : stage' = [stage EXCEPT ![i] = s]
    BY <1>2 DEF Settle
  <2>2. pendingRestores' = pendingRestores
    BY <1>1, <1>2, SettleNothing
  <2> QED BY <1>1, <1>2, <2>1, <2>2, BeginKeeps DEF Settle, Stages, OpenStages
<1>3. CASE /\ Go(i, "joined") /\ peer' = [peer EXCEPT ![i] = pendingRestores[c]]
           /\ UNCHANGED <<pendingRestores, outcome, ticketVars>>
  <2>1. outcome' = [outcome EXCEPT ![i] = "none"]
    BY <1>1, <1>3 DEF ServiceInv, ServiceTypes
  <2>2. DOMAIN peer' = Calls /\ \A j \in Calls : j # i => peer'[j] = peer[j]
    BY <1>1, <1>3
  <2>3. /\ stage' = [stage EXCEPT ![i] = "joined"] /\ "joined" \in Stages \ (OpenStages \cup {"idle"})
        /\ UNCHANGED <<workspace, removed, activeHandles, pendingRestores, ticketVars>>
        /\ workspace[c] \in Workspaces \cup {NoWorkspace}
    BY <1>1, <1>3 DEF Go, Stages, OpenStages
  <2> QED BY <2>1, <2>2, <2>3, BeginKeeps
<1>4. CASE /\ activeHandles[c] = None /\ pendingRestores[c] = None
           /\ Go(i, "resolve") /\ Register(i, c) /\ UNCHANGED <<peer, outcome>>
  BY <1>4, RegisterKeeps
<1> QED BY <1>2, <1>3, <1>4 DEF Activate

LEMMA CreateConversationKeeps ==
    ASSUME ServiceInv, NEW i \in Calls, NEW k \in Keys, NEW w \in Workspaces,
           CreateConversation(i, k, w)
    PROVE  ServiceInv'
<1> USE DEF InRuntime, catalogVars
<1> DEFINE j == pendingCreations[k]
           Fails == Settle(i, "create", "failed") /\ UNCHANGED <<peer, ticketVars>>
<1>1. PICK c \in Conversations :
        /\ Request(i, c, w, k)
        /\ \/ /\ Go(i, "joined") /\ peer' = [peer EXCEPT ![i] = j]
              /\ UNCHANGED <<pendingRestores, outcome, ticketVars>>
           \/ Fails
           \/ /\ Cataloged(c) /\ workspace[c] = w
              /\ Activate(i, "create", c, [pendingCreations EXCEPT ![k] = i])
           \/ /\ Unused(c) /\ Go(i, "resolve")
              /\ UNCHANGED <<pendingRestores, peer, outcome, ticketVars>>
  BY DEF CreateConversation
<1>2. Begins(i, "create") /\ UNCHANGED InRuntime
  BY DEF CreateConversation
<1> HIDE DEF j
<1>3. operation[i] = "none" /\ outcome[i] = "none" /\ DOMAIN peer = Calls
  BY <1>2 DEF ServiceInv, ServiceTypes, CallInv, Begins
<1>4. CASE /\ Go(i, "joined") /\ peer' = [peer EXCEPT ![i] = j]
           /\ UNCHANGED <<pendingRestores, outcome, ticketVars>>
  <2>1. outcome' = [outcome EXCEPT ![i] = "none"]
    BY <1>3, <1>4 DEF ServiceInv, ServiceTypes
  <2>2. DOMAIN peer' = Calls /\ \A h \in Calls : h # i => peer'[h] = peer[h]
    BY <1>3, <1>4
  <2>3. /\ stage' = [stage EXCEPT ![i] = "joined"] /\ "joined" \in Stages \ (OpenStages \cup {"idle"})
        /\ UNCHANGED <<workspace, removed, activeHandles, pendingRestores, ticketVars>>
        /\ "create" \in Operations \ {"none"} /\ w \in Workspaces \cup {NoWorkspace}
    BY <1>2, <1>4 DEF Go, Stages, OpenStages, Operations
  <2> QED BY <1>1, <1>2, <2>1, <2>2, <2>3, BeginKeeps
<1>5. CASE Fails
  <2>1. pendingRestores' = pendingRestores
    BY <1>3, <1>5, SettleNothing
  <2>2. stage' = [stage EXCEPT ![i] = "done"] /\ outcome' = [outcome EXCEPT ![i] = "failed"]
        /\ UNCHANGED <<peer, ticketVars>>
    BY <1>5 DEF Settle
  <2>3. /\ "done" \in Stages \ (OpenStages \cup {"idle"})
        /\ UNCHANGED <<workspace, removed, activeHandles, pendingRestores, ticketVars>>
        /\ "create" \in Operations \ {"none"} /\ w \in Workspaces \cup {NoWorkspace}
    BY <1>2, <2>1, <2>2 DEF Stages, OpenStages, Operations
  <2> QED BY <1>1, <1>2, <1>3, <2>2, <2>3, BeginKeeps
<1>6. CASE /\ Cataloged(c) /\ workspace[c] = w
           /\ Activate(i, "create", c, [pendingCreations EXCEPT ![k] = i])
  <2>1. Request(i, c, workspace[c], k)
    BY <1>1, <1>6
  <2> QED BY <1>2, <1>6, <2>1, ActivateKeeps DEF Operations
<1>7. CASE /\ Unused(c) /\ Go(i, "resolve")
           /\ UNCHANGED <<pendingRestores, peer, outcome, ticketVars>>
  BY <1>1, <1>2, <1>7, CreateKeeps
<1> QED BY <1>1, <1>4, <1>5, <1>6, <1>7

LEMMA ActivateConversationKeeps ==
    ASSUME ServiceInv, NEW i \in Calls, NEW op \in {"restore", "send"}, NEW c \in Conversations,
           ActivateConversation(i, op, c)
    PROVE  ServiceInv'
<1>1. /\ Begins(i, op) /\ Request(i, c, workspace[c], NoKey) /\ UNCHANGED InRuntime
      /\ op \in Operations \ {"none", "relocate"}
  BY DEF ActivateConversation, Operations
<1>2. CASE Cataloged(c)
  BY <1>1, <1>2, ActivateKeeps DEF ActivateConversation
<1>3. CASE ~Cataloged(c)
  <2>1. Settle(i, "restore", "failed") /\ UNCHANGED <<peer, ticketVars>>
    BY <1>3 DEF ActivateConversation
  <2>2. pendingRestores' = pendingRestores
    BY <1>1, <2>1, SettleNothing DEF Begins
  <2>3. stage' = [stage EXCEPT ![i] = "done"] /\ outcome' = [outcome EXCEPT ![i] = "failed"]
    BY <2>1 DEF Settle
  <2>4. workspace[c] \in Workspaces \cup {NoWorkspace} /\ DOMAIN peer = Calls
    BY DEF ServiceInv, ServiceTypes
  <2>5. /\ UNCHANGED <<workspace, removed, activeHandles, peer, ticketVars>>
        /\ "done" \in Stages \ (OpenStages \cup {"idle"})
    BY <1>1, <2>1 DEF InRuntime, catalogVars, Stages, OpenStages
  <2> QED BY <1>1, <2>2, <2>3, <2>4, <2>5, BeginKeeps
<1> QED BY <1>2, <1>3

LEMMA OthersBeginKeep ==
    ASSUME ServiceInv, NEW i \in Calls, NEW c \in Conversations,
           RemoveConversation(i, c) \/ \E w \in Workspaces : RelocateConversation(i, c, w)
    PROVE  ServiceInv'
<1>1. outcome' = [outcome EXCEPT ![i] = "none"] /\ UNCHANGED outcome /\ DOMAIN peer = Calls
      /\ workspace[c] \in Workspaces \cup {NoWorkspace}
  BY DEF RemoveConversation, RelocateConversation, Begins, ServiceInv, ServiceTypes, CallInv, Unsettled
<1>2. CASE RemoveConversation(i, c)
  <2>1. PICK s \in {"previous", "done"} : stage' = [stage EXCEPT ![i] = s]
    BY <1>2 DEF RemoveConversation, Go
  <2>2. DOMAIN peer' = Calls /\ \A j \in Calls : j # i => peer'[j] = peer[j]
    BY <1>1, <1>2 DEF RemoveConversation
  <2>3. /\ Begins(i, "remove") /\ Request(i, c, workspace[c], NoKey)
        /\ s \in Stages \ (OpenStages \cup {"idle"}) /\ s # "canonical"
        /\ "remove" \in Operations \ {"none"}
        /\ UNCHANGED <<workspace, removed, activeHandles, pendingRestores, ticketVars>>
    BY <1>2 DEF RemoveConversation, InRuntime, catalogVars, Stages, OpenStages, Operations
  <2> QED BY <1>1, <2>1, <2>2, <2>3, BeginKeeps
<1>3. CASE \E w \in Workspaces : RelocateConversation(i, c, w)
  <2>1. PICK w \in Workspaces : RelocateConversation(i, c, w)
    BY <1>3
  <2> QED BY <1>1, <2>1, BeginKeeps
          DEF RelocateConversation, Go, InRuntime, catalogVars, Stages, OpenStages, Operations
<1> QED BY <1>2, <1>3

(* A call settles without a ticket, while it opens, or when it has waited. *)
LEMMA FailKeeps ==
    ASSUME ServiceInv, NEW i \in Calls, operation[i] # "none",
           ticket[i] = 0 \/ Opens(i) \/ (Waiting(i) /\ Settled(peer[i])),
           NEW op, NEW s \in {"ok", "failed"}, Settle(i, op, s),
           UNCHANGED <<workspace, removed, activeHandles, operation, conversation, target, ticketVars>>,
           DOMAIN peer' = Calls, \A j \in Calls : j # i => peer'[j] = peer[j],
           peer' = peer
    PROVE  ServiceInv'
BY NoTicketNoOrder, OpensInTurn, WaitedInTurn, SettleKeeps

LEMMA RelocationKeeps ==
    ASSUME ServiceInv, NEW i \in Calls, RegisterRelocation(i) \/ BeginRelocation(i)
    PROVE  ServiceInv'
<1> USE DEF InRuntime, catalogVars, requestVars
<1>1. DOMAIN peer = Calls
  BY DEF ServiceInv, ServiceTypes
<1>2. CASE RegisterRelocation(i)
  <2>1. operation[i] # "none" /\ ticket[i] = 0 /\ stage[i] = "canonical"
        /\ UNCHANGED <<InRuntime, requestVars>>
    BY <1>2 DEF RegisterRelocation, ServiceInv, CallInv
  <2>2. CASE Settle(i, "relocate", "failed") /\ UNCHANGED <<peer, ticketVars>>
    BY <1>1, <2>1, <2>2, FailKeeps
  <2>3. CASE /\ peer' = [peer EXCEPT ![i] = pendingRestores[conversation[i]]]
             /\ Register(i, conversation[i]) /\ Go(i, "previous") /\ UNCHANGED outcome
    BY <2>1, <2>3, ChainKeeps
  <2> QED BY <1>2, <2>2, <2>3 DEF RegisterRelocation
<1>3. CASE BeginRelocation(i)
  <2>1. /\ Waiting(i) /\ Settled(peer[i]) /\ operation[i] # "none"
        /\ UNCHANGED <<InRuntime, requestVars, peer, ticketVars>>
    BY <1>3 DEF BeginRelocation, Waiting
  <2>2. CASE Settle(i, "relocate", "failed")
    BY <1>1, <2>1, <2>2, FailKeeps
  <2>3. CASE /\ activeHandles[conversation[i]] = None /\ Cataloged(conversation[i])
             /\ Go(i, "resolve") /\ UNCHANGED <<pendingRestores, outcome>>
    BY <2>1, <2>3, TurnKeeps
  <2> QED BY <1>3, <2>2, <2>3 DEF BeginRelocation
<1> QED BY <1>2, <1>3

LEMMA JoinedKeeps ==
    ASSUME ServiceInv, NEW i \in Calls, Joined(i), outcome[peer[i]] \in {"ok", "failed"}
    PROVE  ServiceInv'
<1>1. operation[i] # "none" /\ ticket[i] = 0 /\ DOMAIN peer = Calls
  BY DEF Joined, ServiceInv, ServiceTypes, CallInv
<1>2. /\ Settle(i, operation[i], outcome[peer[i]])
      /\ UNCHANGED <<workspace, removed, activeHandles, operation, conversation, target, ticketVars>>
      /\ peer' = peer
  BY DEF Joined, InRuntime, catalogVars, requestVars
<1> QED BY <1>1, <1>2, FailKeeps

LEMMA OpeningKeeps ==
    ASSUME ServiceInv, NEW i \in Calls,
           HostToolsResolved(i) \/ SessionOpened(i) \/ SessionNotOpened(i) \/ CleanUp(i) \/ CleanedUp(i)
    PROVE  ServiceInv'
<1> USE DEF catalogVars, mapVars, requestVars
<1>1. Opens(i) /\ operation[i] # "none" /\ DOMAIN peer = Calls
  BY OpensHasConversation DEF HostToolsResolved, SessionOpened, SessionNotOpened, CleanUp, CleanedUp,
                              Opens, ServiceInv, ServiceTypes
<1> DEFINE Same == UNCHANGED <<workspace, removed, activeHandles, pendingRestores, operation,
                               conversation, target, outcome, ticketVars>>
<1>2. CASE HostToolsResolved(i)
  <2>1. PICK s \in {"opening", "cleanup"} : Go(i, s)
    BY <1>2 DEF HostToolsResolved
  <2>2. Same /\ peer' = peer
    BY <1>2 DEF HostToolsResolved
  <2> QED BY <1>1, <2>1, <2>2, OpenKeeps DEF Go, OpenStages
<1>3. CASE SessionOpened(i)
  <2>1. CASE /\ CatalogOpened(i, conversation[i]) /\ Remember(i, conversation[i])
             /\ Settle(i, operation[i], "ok")
    <3>1. UNCHANGED <<operation, conversation, target, peer, ticketVars>>
      BY <1>3 DEF SessionOpened
    <3> QED BY <1>1, <2>1, <3>1, OpenedKeeps
  <2>2. CASE Go(i, "cleanup") /\ UNCHANGED <<catalogVars, mapVars, listeners, outcome>>
    <3>1. Same /\ peer' = peer
      BY <1>3, <2>2 DEF SessionOpened
    <3> QED BY <1>1, <2>2, <3>1, OpenKeeps DEF Go, OpenStages
  <2> QED BY <1>3, <2>1, <2>2 DEF SessionOpened
<1>4. CASE SessionNotOpened(i)
  <2>1. Go(i, "cleanup") /\ Same /\ peer' = peer
    BY <1>4 DEF SessionNotOpened
  <2> QED BY <1>1, <2>1, OpenKeeps DEF Go, OpenStages
<1>5. ASSUME FailOpening(i), peer' = peer, UNCHANGED <<activeHandles, requestVars, ticketVars>>
      PROVE  ServiceInv'
  <2>1. Settle(i, operation[i], "failed") /\ UNCHANGED <<workspace, removed>>
    BY <1>5 DEF FailOpening
  <2> QED BY <1>1, <1>5, <2>1, FailKeeps
<1>6. CASE CleanUp(i)
  <2>1. CASE FailOpening(i) /\ peer' = peer
    BY <1>5, <1>6, <2>1 DEF CleanUp
  <2>2. CASE TakeSession(i, conversation[i], "closing")
             /\ UNCHANGED <<catalogVars, pendingRestores, outcome>>
    <3>1. Same
      BY <1>6, <2>2 DEF CleanUp
    <3>2. /\ stage' = [stage EXCEPT ![i] = "closing"] /\ "closing" \in OpenStages
          /\ DOMAIN peer' = Calls /\ \A j \in Calls : j # i => peer'[j] = peer[j]
      BY <1>1, <2>2 DEF TakeSession, Go, OpenStages
    <3> QED BY <1>1, <3>1, <3>2, OpenKeeps
  <2> QED BY <1>6, <2>1, <2>2 DEF CleanUp
<1>7. CASE CleanedUp(i)
  BY <1>5, <1>7 DEF CleanedUp
<1> QED BY <1>2, <1>3, <1>4, <1>6, <1>7

LEMMA OthersKeep ==
    ASSUME ServiceInv, NEW i \in Calls,
           \/ Prompt(i) \/ Prompted(i) \/ DeleteConversation(i) \/ SessionDeleted(i)
           \/ DeletedClosed(i) \/ InactiveDeleted(i)
    PROVE  ServiceInv'
<1> DEFINE MoveStages == Stages \ (OpenStages \cup {"idle", "previous", "canonical", "joined"})
<1>1. stage[i] # "idle" /\ DOMAIN peer = Calls
  BY DEF Prompt, Prompted, DeleteConversation, SessionDeleted, DeletedClosed, InactiveDeleted,
         ServiceInv, ServiceTypes, CallInv
<1>2. operation[i] # "none" /\ conversation[i] \in Conversations
  BY <1>1, OpensHasConversation DEF ServiceInv
<1>3. \E s \in MoveStages : stage' = [stage EXCEPT ![i] = s]
  BY DEF Prompt, Prompted, DeleteConversation, SessionDeleted, DeletedClosed, InactiveDeleted,
         TakeSession, RemoveRow, Go, Stages, OpenStages
<1>4. DOMAIN peer' = Calls /\ \A j \in Calls : j # i => peer'[j] = peer[j]
  BY <1>1 DEF Prompt, Prompted, DeleteConversation, SessionDeleted, DeletedClosed, InactiveDeleted,
         TakeSession, agentVars
<1>5. UNCHANGED <<pendingRestores, operation, conversation, target, outcome, ticketVars>>
  BY DEF Prompt, Prompted, DeleteConversation, SessionDeleted, DeletedClosed, InactiveDeleted,
         InRuntime, mapVars, requestVars
<1>6. /\ \/ UNCHANGED <<workspace, removed>>
         \/ /\ workspace' = [workspace EXCEPT ![conversation[i]] = NoWorkspace]
            /\ Cataloged(conversation[i]) /\ removed' = removed \cup {conversation[i]}
      /\ \/ activeHandles' = activeHandles
         \/ activeHandles' = [activeHandles EXCEPT ![conversation[i]] = None]
  <2>1. CASE RemoveRow(i, conversation[i])
    BY <2>1 DEF RemoveRow, catalogVars
  <2>2. CASE UNCHANGED <<workspace, removed, activeHandles>>
    BY <2>2
  <2> QED BY <2>1, <2>2 DEF Prompt, Prompted, DeleteConversation, SessionDeleted, DeletedClosed,
         InactiveDeleted, InRuntime, mapVars, catalogVars
<1> QED BY <1>2, <1>3, <1>4, <1>5, <1>6, MoveKeeps

(* A call joins the promise of another call. *)
JoinInv ==
    /\ pendingCreations \in [Keys -> MaybeCall]
    /\ \A i \in Calls : stage[i] = "joined" => peer[i] \in Calls

LEMMA JoinsKept ==
    ASSUME ServiceTypes, JoinInv, [Next]_vars
    PROVE  JoinInv'
<1> USE DEF JoinInv
<1>1. DOMAIN stage = Calls /\ DOMAIN peer = Calls /\ DOMAIN pendingCreations = Keys
  BY DEF ServiceTypes
<1>2. ASSUME NEW i \in Calls, NEW op, NEW s, Settle(i, op, s), peer' = peer
      PROVE  JoinInv'
  BY <1>1, <1>2 DEF Settle, Without, MaybeCall
<1>3. ASSUME NEW i \in Calls, NEW s \in Stages \ {"joined"}, Go(i, s),
             pendingCreations' \in [Keys -> MaybeCall], \A j \in Calls \ {i} : peer'[j] = peer[j]
      PROVE  JoinInv'
  BY <1>1, <1>3 DEF Go
<1>4. ASSUME NEW i \in Calls, NEW j \in Calls, Go(i, "joined"), peer' = [peer EXCEPT ![i] = j],
             pendingCreations' \in [Keys -> MaybeCall]
      PROVE  JoinInv'
  BY <1>1, <1>4 DEF Go
<1>5. ASSUME NEW i \in Calls, NEW op, NEW c \in Conversations, NEW creations \in [Keys -> MaybeCall],
             Activate(i, op, c, creations)
      PROVE  JoinInv'
  BY <1>1, <1>2, <1>3, <1>4, <1>5 DEF Activate, ServiceTypes, MaybeCall, Stages
<1>6. ASSUME NEW i \in Calls, NEW k \in Keys, NEW w \in Workspaces, CreateConversation(i, k, w)
      PROVE  JoinInv'
  <2> DEFINE j == pendingCreations[k]
  <2>1. j \in MaybeCall /\ [pendingCreations EXCEPT ![k] = i] \in [Keys -> MaybeCall]
    BY DEF MaybeCall
  <2>2. CASE j # None /\ Go(i, "joined") /\ peer' = [peer EXCEPT ![i] = j]
             /\ UNCHANGED pendingCreations
    BY <1>4, <2>1, <2>2 DEF MaybeCall
  <2>3. CASE Settle(i, "create", "failed") /\ peer' = peer
    BY <1>2, <2>3
  <2>4. CASE \E c \in Conversations : Activate(i, "create", c, [pendingCreations EXCEPT ![k] = i])
    BY <1>5, <2>1, <2>4
  <2>5. CASE Go(i, "resolve") /\ peer' = peer /\ pendingCreations' = [pendingCreations EXCEPT ![k] = i]
    BY <1>3, <2>1, <2>5 DEF Stages
  <2> QED BY <1>6, <2>2, <2>3, <2>4, <2>5 DEF CreateConversation
<1>7. ASSUME NEW i \in Calls, NEW c \in Conversations, NEW op, ActivateConversation(i, op, c)
      PROVE  JoinInv'
  BY <1>2, <1>5, <1>7 DEF ActivateConversation
<1>8. ASSUME NEW i \in Calls, NEW c \in Conversations,
             RemoveConversation(i, c) \/ \E w \in Workspaces : RelocateConversation(i, c, w)
      PROVE  JoinInv'
  <2>1. PICK s \in Stages \ {"joined"} : Go(i, s)
    BY <1>8 DEF RemoveConversation, RelocateConversation, Stages
  <2>2. pendingCreations' = pendingCreations /\ \A j \in Calls \ {i} : peer'[j] = peer[j]
    BY <1>1, <1>8 DEF RemoveConversation, RelocateConversation
  <2> QED BY <1>3, <2>1, <2>2
<1>9. ASSUME NEW i \in Calls, FailOpening(i), peer' = peer
      PROVE  JoinInv'
  BY <1>2, <1>9 DEF FailOpening
<1>10. ASSUME NEW i \in Calls, NEW c, NEW s \in Stages \ {"joined"}, TakeSession(i, c, s),
              pendingCreations' = pendingCreations
       PROVE  JoinInv'
  BY <1>1, <1>3, <1>10 DEF TakeSession
<1>11. ASSUME NEW i \in Calls,
              \/ RegisterRelocation(i) \/ BeginRelocation(i) \/ Joined(i) \/ HostToolsResolved(i)
              \/ SessionOpened(i) \/ SessionNotOpened(i) \/ CleanUp(i) \/ CleanedUp(i)
       PROVE  JoinInv'
  <2>1. CASE RegisterRelocation(i)
    <3>1. CASE Settle(i, "relocate", "failed") /\ UNCHANGED <<peer, ticketVars>>
      BY <1>2, <3>1
    <3>2. CASE Go(i, "previous") /\ peer' = [peer EXCEPT ![i] = pendingRestores[conversation[i]]]
               /\ UNCHANGED pendingCreations
      BY <1>1, <1>3, <3>2 DEF Stages
    <3> QED BY <2>1, <3>1, <3>2 DEF RegisterRelocation
  <2>2. CASE BeginRelocation(i) \/ Joined(i)
    BY <1>2, <1>3, <2>2 DEF BeginRelocation, Joined, Stages
  <2>3. CASE HostToolsResolved(i) \/ SessionNotOpened(i)
    BY <1>3, <2>3 DEF HostToolsResolved, SessionNotOpened, mapVars, Stages
  <2>4. CASE SessionOpened(i)
    BY <1>2, <1>3, <2>4 DEF SessionOpened, mapVars, Stages
  <2>5. CASE CleanUp(i) \/ CleanedUp(i)
    BY <1>9, <1>10, <2>5 DEF CleanUp, CleanedUp, Stages
  <2> QED BY <1>11, <2>1, <2>2, <2>3, <2>4, <2>5
<1>12. ASSUME NEW i \in Calls,
              \/ Prompt(i) \/ Prompted(i) \/ DeleteConversation(i) \/ SessionDeleted(i)
              \/ DeletedClosed(i) \/ InactiveDeleted(i)
       PROVE  JoinInv'
  <2>1. PICK s \in Stages \ {"joined"} : Go(i, s)
    BY <1>12 DEF Prompt, Prompted, DeleteConversation, SessionDeleted, DeletedClosed, InactiveDeleted,
                 TakeSession, RemoveRow, Stages
  <2>2. pendingCreations' = pendingCreations
    BY <1>12 DEF Prompt, Prompted, DeleteConversation, SessionDeleted, DeletedClosed, InactiveDeleted,
                 mapVars
  <2>3. \A j \in Calls \ {i} : peer'[j] = peer[j]
    BY <1>1, <1>12 DEF Prompt, Prompted, DeleteConversation, SessionDeleted, DeletedClosed,
                       InactiveDeleted, TakeSession
  <2> QED BY <1>3, <2>1, <2>2, <2>3
<1>13. CASE \/ Shutdown \/ ShutdownRuntime \/ ShutdownEnds \/ UNCHANGED vars
            \/ (\E c \in Conversations : ShutdownSession(c)) \/ \E i \in Calls : SessionLost(i)
  BY <1>13 DEF Shutdown, ShutdownRuntime, ShutdownEnds, ShutdownSession, SessionLost, vars, mapVars, stageVars
<1> QED BY <1>6, <1>7, <1>8, <1>11, <1>12, <1>13 DEF Next, Continue, RestoreConversation, SendMessage

LEMMA NextKeeps == ServiceInv /\ JoinInv /\ [Next]_vars => ServiceInv' /\ JoinInv'
<1> SUFFICES ASSUME ServiceInv, JoinInv, [Next]_vars  PROVE ServiceInv'
  BY JoinsKept DEF ServiceInv
<1>1. ASSUME NEW i \in Calls, Joined(i)
      PROVE  outcome[peer[i]] \in {"ok", "failed"}
  BY <1>1, CallsAreNumbers DEF Joined, Settled, ServiceInv, ServiceTypes, JoinInv
<1>2. ASSUME NEW i \in Calls, Continue(i)  PROVE ServiceInv'
  BY <1>1, <1>2, RelocationKeeps, JoinedKeeps, OpeningKeeps, OthersKeep DEF Continue
<1>3. ASSUME NEW i \in Calls, NEW c \in Conversations,
             RestoreConversation(i, c) \/ SendMessage(i, c)
      PROVE  ServiceInv'
  BY <1>3, ActivateConversationKeeps DEF RestoreConversation, SendMessage
<1>4. CASE \/ Shutdown \/ ShutdownRuntime
           \/ (\E c \in Conversations : ShutdownSession(c)) \/ \E i \in Calls : SessionLost(i)
  BY <1>4, StutterKeeps DEF Shutdown, ShutdownRuntime, ShutdownSession, SessionLost, serviceVars, catalogVars,
     mapVars, requestVars, stageVars, ticketVars
<1>5. CASE UNCHANGED vars
  BY <1>5, StutterKeeps DEF vars, serviceVars, catalogVars, mapVars, requestVars, stageVars, ticketVars
<1> QED BY <1>2, <1>3, <1>4, <1>5, CreateConversationKeeps, OthersBeginKeep, ShutdownKeeps DEF Next

-----------------------------------------------------------------------------
LEMMA ServiceInvHolds == Spec => [](ServiceInv /\ JoinInv)
<1>1. Init => JoinInv
  BY DEF Init, JoinInv, MaybeCall
<1> QED BY <1>1, InitHolds, NextKeeps, PTL DEF Spec

(* However restores, relocations and creations of a conversation overlap,   *)
(* join or chain themselves behind one another (activateRecord,             *)
(* relocateConversationWorkspace), one of them at most opens its session.   *)
THEOREM OneOpenerAtATime == Spec => []OneOpenerPerConversation
<1>1. ServiceInv => OneOpenerPerConversation
  BY OneOpens DEF OneOpenerPerConversation
<1> QED BY <1>1, ServiceInvHolds, PTL

-----------------------------------------------------------------------------
(* The refinement of ConversationRecords. *)

openNow == [c \in Conversations |->
              IF activeHandles[c] = None THEN NoWorkspace ELSE target[activeHandles[c]]]

(* The workspaces of the calls that have begun do not change. *)
TargetsKept == \A i \in Calls : operation[i] # "none" => target'[i] = target[i]

LEMMA HandlesHaveBegun ==
    ASSUME ServiceInv, NEW c \in Conversations, activeHandles[c] # None
    PROVE  activeHandles[c] \in Calls /\ operation[activeHandles[c]] # "none"
BY NoneAssumption DEF ServiceInv, ServiceTypes, MaybeCall, RecordInv, CallInv

LEMMA StutterRefines ==
    ASSUME ServiceInv, UNCHANGED <<workspace, removed, activeHandles>>, TargetsKept
    PROVE  UNCHANGED Records!recordVars
<1>1. openNow' = openNow
  BY HandlesHaveBegun DEF openNow, TargetsKept
<1> QED BY <1>1 DEF Records!recordVars, openNow

LEMMA RemoveRefines ==
    ASSUME ServiceInv, NEW i, NEW c \in Conversations, RemoveRow(i, c), UNCHANGED target
    PROVE  Records!Next
<1> DEFINE closed == [openNow EXCEPT ![c] = NoWorkspace]
<1>1. openNow' = closed
  BY DEF openNow, RemoveRow, ServiceInv, ServiceTypes
<1>2. CASE /\ Cataloged(c) /\ workspace' = [workspace EXCEPT ![c] = NoWorkspace]
           /\ removed' = removed \cup {c}
  BY <1>1, <1>2 DEF Records!Next, Records!Remove, openNow, Cataloged
<1>3. CASE UNCHANGED <<workspace, removed>>
  BY <1>1, <1>3 DEF Records!Next, Records!Forget, openNow
<1> QED BY <1>2, <1>3 DEF RemoveRow, catalogVars

LEMMA OpenedRefines ==
    ASSUME ServiceInv, NEW i \in Calls, Opens(i), NEW c, c = conversation[i],
           CatalogOpened(i, c), Remember(i, c), Settle(i, operation[i], "ok"),
           UNCHANGED <<operation, conversation, target, peer, ticketVars>>
    PROVE  Records!Next
<1>1. c \in Conversations /\ target[i] \in Workspaces /\ openNow[c] = NoWorkspace
  BY OpensHasConversation DEF ServiceInv, RecordInv, Opens, openNow
<1>2. workspace' = [workspace EXCEPT ![c] = target[i]] /\ c \notin removed /\ removed' = removed
  BY OpenedKeeps DEF CatalogOpened
<1>3. openNow' = [openNow EXCEPT ![c] = target[i]]
  BY <1>1, CallsAreNumbers DEF openNow, Remember, ServiceInv, ServiceTypes
<1>4. \E w \in Workspaces : Records!Open(c, w)
  BY <1>1, <1>2, <1>3 DEF Records!Open, openNow
<1> QED BY <1>1, <1>4 DEF Records!Next

LEMMA BeginRefines ==
    ASSUME ServiceInv, NEW i \in Calls, NEW op, Begins(i, op), NEW c, NEW w, NEW k,
           Request(i, c, w, k), UNCHANGED InRuntime
    PROVE  UNCHANGED Records!recordVars
<1>1. TargetsKept
  BY DEF TargetsKept, Begins, Request, ServiceInv, ServiceTypes
<1> QED BY <1>1, StutterRefines DEF InRuntime, catalogVars

LEMMA NextRefines ==
    ASSUME ServiceInv, [Next]_vars
    PROVE  Records!Next \/ UNCHANGED Records!recordVars
<1>1. ASSUME UNCHANGED <<workspace, removed, activeHandles, target>>
      PROVE  UNCHANGED Records!recordVars
  BY <1>1, StutterRefines DEF TargetsKept
<1>2. ASSUME NEW i \in Calls,
             \/ \E k \in Keys, w \in Workspaces : CreateConversation(i, k, w)
             \/ \E c \in Conversations :
                  \/ RestoreConversation(i, c) \/ SendMessage(i, c) \/ RemoveConversation(i, c)
                  \/ \E w \in Workspaces : RelocateConversation(i, c, w)
      PROVE  UNCHANGED Records!recordVars
  BY <1>2, BeginRefines DEF CreateConversation, RestoreConversation, SendMessage, ActivateConversation,
                            RemoveConversation, RelocateConversation
<1>3. ASSUME NEW i \in Calls, SessionOpened(i)
      PROVE  Records!Next \/ UNCHANGED Records!recordVars
  <2>1. Opens(i) /\ UNCHANGED <<operation, conversation, target, peer, ticketVars>>
    BY <1>3 DEF SessionOpened, Opens, requestVars
  <2>2. CASE /\ CatalogOpened(i, conversation[i]) /\ Remember(i, conversation[i])
             /\ Settle(i, operation[i], "ok")
    BY <2>1, <2>2, OpenedRefines
  <2>3. CASE UNCHANGED <<catalogVars, mapVars, listeners, outcome>>
    BY <1>1, <2>1, <2>3 DEF catalogVars, mapVars
  <2> QED BY <1>3, <2>2, <2>3 DEF SessionOpened
<1>4. ASSUME NEW i \in Calls, DeletedClosed(i) \/ InactiveDeleted(i)
      PROVE  Records!Next \/ UNCHANGED Records!recordVars
  <2>1. conversation[i] \in Conversations /\ UNCHANGED target
    BY <1>4, OpensHasConversation DEF DeletedClosed, InactiveDeleted, requestVars, ServiceInv
  <2>2. CASE RemoveRow(i, conversation[i])
    BY <2>1, <2>2, RemoveRefines
  <2>3. CASE UNCHANGED <<catalogVars, activeHandles>>
    BY <1>1, <2>1, <2>3 DEF catalogVars
  <2> QED BY <1>4, <2>2, <2>3 DEF DeletedClosed, InactiveDeleted
<1>5. CASE ShutdownEnds
  <2>1. openNow' = [c \in Conversations |-> NoWorkspace]
    BY <1>5 DEF ShutdownEnds, openNow
  <2> QED BY <1>5, <2>1 DEF Records!Next, Records!CloseAll, openNow, ShutdownEnds, catalogVars
<1>6. ASSUME NEW i \in Calls,
             \/ RegisterRelocation(i) \/ BeginRelocation(i) \/ Joined(i) \/ HostToolsResolved(i)
             \/ SessionNotOpened(i) \/ CleanUp(i) \/ CleanedUp(i)
             \/ Prompt(i) \/ Prompted(i) \/ DeleteConversation(i) \/ SessionDeleted(i)
      PROVE  UNCHANGED Records!recordVars
  BY <1>1, <1>6 DEF RegisterRelocation, BeginRelocation, Joined, HostToolsResolved, SessionNotOpened,
     CleanUp, CleanedUp, FailOpening, Prompt, Prompted, DeleteConversation, SessionDeleted,
     InRuntime, catalogVars, mapVars, requestVars
<1>7. CASE \/ Shutdown \/ ShutdownRuntime \/ UNCHANGED vars
           \/ (\E c \in Conversations : ShutdownSession(c)) \/ \E i \in Calls : SessionLost(i)
  BY <1>1, <1>7 DEF Shutdown, ShutdownRuntime, ShutdownSession, SessionLost, vars, catalogVars, mapVars, requestVars
<1> QED BY <1>2, <1>3, <1>4, <1>5, <1>6, <1>7 DEF Next, Continue

(* The catalog and the active handles (service.ts, catalog.ts) implement    *)
(* ConversationRecords: a conversation is cataloged with its open session,  *)
(* is open in the workspace of its row and never comes back once removed.   *)
THEOREM ServiceKeepsRecords == Spec => RecordsKept
<1>1. Init => Records!Init
  BY DEF Init, Records!Init
<1>2. ServiceInv /\ [Next]_vars => [Records!Next]_(Records!recordVars)
  BY NextRefines
<1> QED BY <1>1, <1>2, ServiceInvHolds, PTL DEF Spec, RecordsKept, Records!Spec

-----------------------------------------------------------------------------
(* The types, by the tuples of variables the actions leave unchanged.       *)

CatalogTypes ==
    /\ workspace \in [Conversations -> Workspaces \cup {NoWorkspace}]
    /\ idempotencyKey \in [Conversations -> Keys \cup {NoKey}]
    /\ restoreFailed \subseteq Conversations /\ removed \subseteq Conversations
    /\ orphans \subseteq Calls
    /\ contexts \in [Conversations -> Seq(Calls)]
MapTypes ==
    /\ activeHandles \in [Conversations -> MaybeCall]
    /\ pendingCreations \in [Keys -> MaybeCall]
    /\ pendingRestores \in [Conversations -> MaybeCall]
ShutdownTypes ==
    /\ service \in {"active", "settling", "runtime", "closed"}
    /\ awaited \subseteq Calls
RuntimeTypes ==
    /\ sessions \in [Conversations -> MaybeCall]
    /\ opening \in [Conversations -> MaybeCall]
    /\ listeners \in [Conversations -> {"none", "empty", "service"}]
    /\ configuredToolScopes \subseteq Conversations
AgentTypes ==
    /\ actor \in [Calls -> {"none", "starting", "running", "failed", "closing", "closed"}]
    /\ turns \in [Conversations -> Seq(Calls)]
RequestTypes ==
    /\ operation \in [Calls -> Operations]
    /\ conversation \in [Calls -> Conversations \cup {NoConversation}]
    /\ target \in [Calls -> Workspaces \cup {NoWorkspace}]
    /\ key \in [Calls -> Keys \cup {NoKey}]
StageTypes ==
    /\ stage \in [Calls -> Stages]
    /\ peer \in [Calls -> MaybeCall]
    /\ outcome \in [Calls -> {"none", "ok", "failed"}]
TicketTypes == ticket \in [Calls -> Nat] /\ nextTicket \in Nat

LEMMA TypeParts ==
    TypeOK <=> /\ CatalogTypes /\ MapTypes /\ ShutdownTypes /\ RuntimeTypes
               /\ AgentTypes /\ RequestTypes /\ StageTypes /\ TicketTypes
BY DEF TypeOK, CatalogTypes, MapTypes, ShutdownTypes, RuntimeTypes, AgentTypes, RequestTypes,
       StageTypes, TicketTypes, MaybeCall

LEMMA TypePartsNext ==
    ASSUME CatalogTypes', MapTypes', ShutdownTypes', RuntimeTypes', AgentTypes', RequestTypes',
           StageTypes', TicketTypes'
    PROVE  TypeOK'
BY DEF TypeOK, CatalogTypes, MapTypes, ShutdownTypes, RuntimeTypes, AgentTypes, RequestTypes,
       StageTypes, TicketTypes, MaybeCall

(* The types speak of what the tuples hold. *)
LEMMA TypesUnchanged ==
    /\ UNCHANGED catalogVars /\ CatalogTypes => CatalogTypes'
    /\ UNCHANGED mapVars /\ MapTypes => MapTypes'
    /\ UNCHANGED shutdownVars /\ ShutdownTypes => ShutdownTypes'
    /\ UNCHANGED runtimeVars /\ RuntimeTypes => RuntimeTypes'
    /\ UNCHANGED agentVars /\ AgentTypes => AgentTypes'
    /\ UNCHANGED requestVars /\ RequestTypes => RequestTypes'
    /\ UNCHANGED stageVars /\ StageTypes => StageTypes'
    /\ UNCHANGED ticketVars /\ TicketTypes => TicketTypes'
BY DEF catalogVars, mapVars, shutdownVars, runtimeVars, agentVars, requestVars, stageVars, ticketVars,
       CatalogTypes, MapTypes, ShutdownTypes, RuntimeTypes, AgentTypes, RequestTypes, StageTypes,
       TicketTypes

LEMMA SettleTypes ==
    ASSUME TypeOK, NEW i \in Calls, NEW op, NEW s \in {"ok", "failed"}, Settle(i, op, s),
           activeHandles' \in [Conversations -> MaybeCall], peer' \in [Calls -> MaybeCall]
    PROVE  MapTypes' /\ StageTypes'
<1>1. pendingCreations' \in [Keys -> MaybeCall] /\ pendingRestores' \in [Conversations -> MaybeCall]
  BY TypeParts DEF Settle, Without, MapTypes, MaybeCall
<1>2. stage' \in [Calls -> Stages] /\ outcome' \in [Calls -> {"none", "ok", "failed"}]
  BY TypeParts DEF Settle, StageTypes, Stages
<1> QED BY <1>1, <1>2 DEF MapTypes, StageTypes

LEMMA GoTypes ==
    ASSUME TypeOK, NEW i \in Calls, NEW s \in Stages, Go(i, s), peer' \in [Calls -> MaybeCall],
           UNCHANGED outcome
    PROVE  StageTypes'
BY TypeParts DEF Go, StageTypes

LEMMA RegisterTypes ==
    ASSUME TypeOK, NEW i \in Calls, NEW c \in Conversations, Register(i, c)
    PROVE  pendingRestores' \in [Conversations -> MaybeCall] /\ TicketTypes'
BY TypeParts DEF Register, MapTypes, TicketTypes, MaybeCall

LEMMA BeginTypes ==
    ASSUME TypeOK, NEW i \in Calls, NEW op \in Operations, Begins(i, op),
           NEW c \in Conversations, NEW w \in Workspaces \cup {NoWorkspace},
           NEW k \in Keys \cup {NoKey}, Request(i, c, w, k)
    PROVE  RequestTypes'
BY TypeParts DEF Begins, Request, RequestTypes

LEMMA ActivateTypes ==
    ASSUME TypeOK, NEW i \in Calls, NEW op, NEW c \in Conversations,
           NEW creations \in [Keys -> MaybeCall], Activate(i, op, c, creations),
           UNCHANGED activeHandles
    PROVE  MapTypes' /\ StageTypes' /\ TicketTypes'
<1>1. /\ activeHandles' \in [Conversations -> MaybeCall] /\ peer \in [Calls -> MaybeCall]
      /\ pendingRestores \in [Conversations -> MaybeCall] /\ TicketTypes
  BY TypeParts DEF MapTypes, StageTypes
<1>2. CASE Settle(i, op, "ok") /\ UNCHANGED <<peer, ticketVars>>
  BY <1>1, <1>2, SettleTypes, TypesUnchanged
<1>3. CASE /\ Go(i, "joined") /\ peer' = [peer EXCEPT ![i] = pendingRestores[c]]
           /\ pendingCreations' = creations /\ UNCHANGED <<pendingRestores, outcome, ticketVars>>
  <2>1. peer' \in [Calls -> MaybeCall]
    BY <1>1, <1>3
  <2> QED BY <1>1, <1>3, <2>1, GoTypes, TypesUnchanged DEF MapTypes, Stages
<1>4. CASE /\ Go(i, "resolve") /\ Register(i, c)
           /\ pendingCreations' = creations /\ UNCHANGED <<peer, outcome>>
  BY <1>1, <1>4, GoTypes, RegisterTypes DEF MapTypes, Stages
<1> QED BY <1>2, <1>3, <1>4 DEF Activate

LEMMA CreateTypes ==
    ASSUME TypeOK, ServiceInv, NEW i \in Calls, NEW k \in Keys, NEW w \in Workspaces,
           CreateConversation(i, k, w)
    PROVE  TypeOK'
<1> DEFINE j == pendingCreations[k]
<1>1. /\ j \in MaybeCall /\ [pendingCreations EXCEPT ![k] = i] \in [Keys -> MaybeCall]
      /\ activeHandles \in [Conversations -> MaybeCall] /\ peer \in [Calls -> MaybeCall] /\ TicketTypes
      /\ pendingRestores \in [Conversations -> MaybeCall]
  BY TypeParts DEF MapTypes, StageTypes, MaybeCall
<1>2. PICK c \in Conversations :
        /\ Request(i, c, w, k)
        /\ \/ /\ Go(i, "joined") /\ peer' = [peer EXCEPT ![i] = j]
              /\ UNCHANGED <<pendingCreations, pendingRestores, outcome, ticketVars>>
           \/ Settle(i, "create", "failed") /\ UNCHANGED <<peer, ticketVars>>
           \/ Activate(i, "create", c, [pendingCreations EXCEPT ![k] = i])
           \/ /\ Go(i, "resolve") /\ pendingCreations' = [pendingCreations EXCEPT ![k] = i]
              /\ UNCHANGED <<pendingRestores, peer, outcome, ticketVars>>
  BY DEF CreateConversation
<1>3. /\ Begins(i, "create") /\ UNCHANGED <<catalogVars, activeHandles, shutdownVars, runtimeVars, agentVars>>
  BY DEF CreateConversation, InRuntime
<1>4. RequestTypes'
  BY <1>2, <1>3, BeginTypes DEF Operations
<1>5. MapTypes' /\ StageTypes' /\ TicketTypes'
  <2>1. CASE /\ Go(i, "joined") /\ peer' = [peer EXCEPT ![i] = j]
             /\ UNCHANGED <<pendingCreations, pendingRestores, outcome, ticketVars>>
    <3>1. peer' \in [Calls -> MaybeCall]
      BY <1>1, <2>1
    <3> QED BY <1>1, <1>3, <2>1, <3>1, GoTypes, TypesUnchanged, TypeParts DEF Stages, MapTypes
  <2>2. CASE Settle(i, "create", "failed") /\ UNCHANGED <<peer, ticketVars>>
    BY <1>1, <1>3, <2>2, SettleTypes, TypesUnchanged
  <2>3. CASE Activate(i, "create", c, [pendingCreations EXCEPT ![k] = i])
    BY <1>1, <1>3, <2>3, ActivateTypes
  <2>4. CASE /\ Go(i, "resolve") /\ pendingCreations' = [pendingCreations EXCEPT ![k] = i]
             /\ UNCHANGED <<pendingRestores, peer, outcome, ticketVars>>
    BY <1>1, <1>3, <2>4, GoTypes, TypesUnchanged DEF MapTypes, Stages
  <2> QED BY <1>2, <2>1, <2>2, <2>3, <2>4
<1> QED BY <1>3, <1>4, <1>5, TypeParts, TypesUnchanged, TypePartsNext

LEMMA BeginningTypes ==
    ASSUME TypeOK, NEW i \in Calls, NEW c \in Conversations,
           \/ RestoreConversation(i, c) \/ SendMessage(i, c) \/ RemoveConversation(i, c)
           \/ \E w \in Workspaces : RelocateConversation(i, c, w)
    PROVE  TypeOK'
<1>1. /\ workspace[c] \in Workspaces \cup {NoWorkspace} /\ activeHandles \in [Conversations -> MaybeCall]
      /\ pendingCreations \in [Keys -> MaybeCall] /\ pendingRestores \in [Conversations -> MaybeCall]
      /\ peer \in [Calls -> MaybeCall] /\ TicketTypes
  BY TypeParts DEF CatalogTypes, MapTypes, StageTypes
<1>2. CASE RestoreConversation(i, c) \/ SendMessage(i, c)
  <2>1. PICK op \in {"restore", "send"} : ActivateConversation(i, op, c)
    BY <1>2 DEF RestoreConversation, SendMessage
  <2>2. UNCHANGED <<catalogVars, activeHandles, shutdownVars, runtimeVars, agentVars>> /\ RequestTypes'
    BY <1>1, <2>1, BeginTypes DEF ActivateConversation, InRuntime, Operations
  <2>3. MapTypes' /\ StageTypes' /\ TicketTypes'
    <3>1. CASE Activate(i, op, c, pendingCreations)
      BY <1>1, <2>2, <3>1, ActivateTypes
    <3>2. CASE Settle(i, "restore", "failed") /\ UNCHANGED <<peer, ticketVars>>
      BY <1>1, <2>2, <3>2, SettleTypes, TypesUnchanged
    <3> QED BY <2>1, <3>1, <3>2 DEF ActivateConversation
  <2> QED BY <2>2, <2>3, TypeParts, TypesUnchanged, TypePartsNext
<1>3. ASSUME NEW s \in Stages, Go(i, s), RequestTypes', peer' \in [Calls -> MaybeCall],
             UNCHANGED <<InRuntime, pendingCreations, pendingRestores, outcome, ticketVars>>
      PROVE  TypeOK'
  BY <1>1, <1>3, GoTypes, TypeParts, TypesUnchanged, TypePartsNext DEF InRuntime, MapTypes
<1>4. CASE RemoveConversation(i, c)
  <2>1. RequestTypes'
    BY <1>1, <1>4, BeginTypes DEF RemoveConversation, Operations
  <2>2. peer' \in [Calls -> MaybeCall]
    BY <1>1, <1>4 DEF RemoveConversation
  <2> QED BY <1>3, <1>4, <2>1, <2>2 DEF RemoveConversation, Stages
<1>5. CASE \E w \in Workspaces : RelocateConversation(i, c, w)
  <2>1. RequestTypes'
    BY <1>5, BeginTypes DEF RelocateConversation, Operations
  <2> QED BY <1>1, <1>3, <1>5, <2>1 DEF RelocateConversation, Stages
<1> QED BY <1>2, <1>4, <1>5

LEMMA FailOpeningTypes ==
    ASSUME TypeOK, NEW i \in Calls, conversation[i] \in Conversations, FailOpening(i),
           activeHandles' \in [Conversations -> MaybeCall], peer' \in [Calls -> MaybeCall]
    PROVE  CatalogTypes' /\ MapTypes' /\ StageTypes'
<1>1. Settle(i, operation[i], "failed")
  BY DEF FailOpening
<1>2. CatalogTypes'
  BY TypeParts DEF FailOpening, CatalogTypes
<1> QED BY <1>1, <1>2, SettleTypes

LEMMA TakeTypes ==
    ASSUME TypeOK, NEW i \in Calls, NEW c \in Conversations, NEW s \in Stages, TakeSession(i, c, s),
           UNCHANGED <<opening, turns, outcome, configuredToolScopes>>
    PROVE  RuntimeTypes' /\ AgentTypes' /\ StageTypes'
<1>1. sessions' \in [Conversations -> MaybeCall] /\ listeners' \in [Conversations -> {"none", "empty", "service"}]
  BY TypeParts DEF TakeSession, RuntimeTypes, MaybeCall
<1>2. actor' \in [Calls -> {"none", "starting", "running", "failed", "closing", "closed"}]
  BY TypeParts DEF TakeSession, AgentTypes
<1>3. peer' \in [Calls -> MaybeCall]
  BY TypeParts DEF TakeSession, RuntimeTypes, StageTypes
<1> QED BY <1>1, <1>2, <1>3, GoTypes, TypeParts DEF TakeSession, RuntimeTypes, AgentTypes

LEMMA RemoveRowTypes ==
    ASSUME TypeOK, NEW i \in Calls, NEW c \in Conversations, RemoveRow(i, c)
    PROVE  CatalogTypes' /\ activeHandles' \in [Conversations -> MaybeCall]
<1>1. activeHandles' \in [Conversations -> MaybeCall]
  BY TypeParts DEF RemoveRow, MapTypes, MaybeCall
<1>2. CASE UNCHANGED catalogVars
  BY <1>1, <1>2, TypeParts, TypesUnchanged
<1>3. CASE /\ workspace' = [workspace EXCEPT ![c] = NoWorkspace]
           /\ idempotencyKey' = [idempotencyKey EXCEPT ![c] = NoKey]
           /\ contexts' = [contexts EXCEPT ![c] = <<>>]
           /\ restoreFailed' = restoreFailed \ {c}
           /\ removed' = removed \cup {c} /\ orphans' = orphans
  <2>1. contexts' \in [Conversations -> Seq(Calls)]
    BY <1>3, TypeParts DEF CatalogTypes
  <2> QED BY <1>1, <1>3, <2>1, TypeParts DEF CatalogTypes
<1> QED BY <1>1, <1>2, <1>3 DEF RemoveRow

(* The types of what a call finds in its conversation. *)
LEMMA CallTypes ==
    ASSUME TypeOK, ServiceInv, NEW i \in Calls, stage[i] # "idle"
    PROVE  /\ conversation[i] \in Conversations
           /\ sessions[conversation[i]] \in MaybeCall /\ opening[conversation[i]] \in MaybeCall
           /\ pendingRestores[conversation[i]] \in MaybeCall
           /\ target[i] \in Workspaces \cup {NoWorkspace} /\ key[i] \in Keys \cup {NoKey}
           /\ actor \in [Calls -> {"none", "starting", "running", "failed", "closing", "closed"}]
           /\ peer \in [Calls -> MaybeCall] /\ activeHandles \in [Conversations -> MaybeCall]
           /\ pendingCreations \in [Keys -> MaybeCall] /\ pendingRestores \in [Conversations -> MaybeCall]
<1>1. conversation[i] \in Conversations
  BY OpensHasConversation DEF ServiceInv
<1> QED BY <1>1, TypeParts DEF MapTypes, RuntimeTypes, AgentTypes, RequestTypes, StageTypes

LEMMA RelocatingTypes ==
    ASSUME TypeOK, ServiceInv, NEW i \in Calls,
           RegisterRelocation(i) \/ BeginRelocation(i) \/ (Joined(i) /\ outcome[peer[i]] \in {"ok", "failed"})
    PROVE  TypeOK'
<1>1. stage[i] # "idle" /\ UNCHANGED <<catalogVars, activeHandles, shutdownVars, runtimeVars, agentVars, requestVars>>
  BY DEF RegisterRelocation, BeginRelocation, Joined, InRuntime
<1>2. CatalogTypes' /\ ShutdownTypes' /\ RuntimeTypes' /\ AgentTypes' /\ RequestTypes'
  BY <1>1, TypeParts, TypesUnchanged
<1>3. ASSUME NEW op, NEW s \in {"ok", "failed"}, Settle(i, op, s), UNCHANGED <<peer, ticketVars>>
      PROVE  TypeOK'
  <2>1. MapTypes' /\ StageTypes'
    BY <1>1, <1>3, SettleTypes, CallTypes
  <2> QED BY <1>2, <1>3, <2>1, TypeParts, TypesUnchanged, TypePartsNext
<1>4. CASE RegisterRelocation(i)
  <2>1. CASE Settle(i, "relocate", "failed") /\ UNCHANGED <<peer, ticketVars>>
    BY <1>3, <2>1
  <2>2. CASE /\ peer' = [peer EXCEPT ![i] = pendingRestores[conversation[i]]]
             /\ Register(i, conversation[i]) /\ Go(i, "previous") /\ UNCHANGED <<pendingCreations, outcome>>
    <3>1. peer' \in [Calls -> MaybeCall]
      BY <1>1, <2>2, CallTypes
    <3>2. StageTypes'
      BY <2>2, <3>1, GoTypes DEF Stages
    <3>3. MapTypes' /\ TicketTypes'
      BY <1>1, <2>2, CallTypes, RegisterTypes DEF MapTypes
    <3> QED BY <1>2, <3>2, <3>3, TypePartsNext
  <2> QED BY <1>4, <2>1, <2>2 DEF RegisterRelocation
<1>5. CASE BeginRelocation(i)
  <2>1. CASE Settle(i, "relocate", "failed") /\ UNCHANGED <<peer, ticketVars>>
    BY <1>3, <2>1
  <2>2. CASE Go(i, "resolve") /\ UNCHANGED <<peer, ticketVars, pendingCreations, pendingRestores, outcome>>
    <3>1. StageTypes' /\ MapTypes' /\ TicketTypes'
      BY <1>1, <2>2, CallTypes, GoTypes, TypeParts, TypesUnchanged DEF Stages, MapTypes
    <3> QED BY <1>2, <3>1, TypePartsNext
  <2> QED BY <1>5, <2>1, <2>2 DEF BeginRelocation
<1>6. CASE Joined(i) /\ outcome[peer[i]] \in {"ok", "failed"}
  BY <1>3, <1>6 DEF Joined
<1> QED BY <1>4, <1>5, <1>6

LEMMA OpeningTypes ==
    ASSUME TypeOK, ServiceInv, NEW i \in Calls,
           HostToolsResolved(i) \/ SessionOpened(i) \/ SessionNotOpened(i) \/ CleanUp(i) \/ CleanedUp(i)
    PROVE  TypeOK'
<1> DEFINE c == conversation[i]
<1>1. stage[i] # "idle" /\ UNCHANGED <<shutdownVars, requestVars, ticketVars>>
  BY DEF HostToolsResolved, SessionOpened, SessionNotOpened, CleanUp, CleanedUp
<1>2. ShutdownTypes' /\ RequestTypes' /\ TicketTypes'
  BY <1>1, TypeParts, TypesUnchanged
<1>3. c \in Conversations /\ peer \in [Calls -> MaybeCall] /\ activeHandles \in [Conversations -> MaybeCall]
      /\ sessions[c] \in MaybeCall /\ target[i] \in Workspaces \cup {NoWorkspace} /\ key[i] \in Keys \cup {NoKey}
      /\ i \in MaybeCall /\ None \in MaybeCall
  BY <1>1, CallTypes DEF MaybeCall
<1> HIDE DEF c
<1> USE DEF RuntimeTypes, AgentTypes
<1>4. CASE HostToolsResolved(i)
  <2>1. RuntimeTypes' /\ AgentTypes'
    <3>1. UNCHANGED <<sessions, turns>>
      BY <1>4 DEF HostToolsResolved
    <3>2. CASE BeginOpening(i, c)
      BY <1>3, <3>1, <3>2, TypeParts DEF BeginOpening
    <3>3. CASE /\ UNCHANGED <<opening, listeners, actor>>
               /\ \/ UNCHANGED configuredToolScopes
                  \/ configuredToolScopes' = configuredToolScopes \cup {c}
      BY <1>3, <3>1, <3>3, TypeParts
    <3> QED BY <1>4, <3>2, <3>3 DEF HostToolsResolved, c
  <2>2. StageTypes'
    BY <1>3, <1>4, GoTypes DEF HostToolsResolved, Stages
  <2>3. CatalogTypes' /\ MapTypes'
    BY <1>4, TypeParts, TypesUnchanged DEF HostToolsResolved
  <2> QED BY <1>2, <2>1, <2>2, <2>3, TypePartsNext
<1>5. CASE SessionOpened(i)
  <2>1. RuntimeTypes' /\ AgentTypes'
    BY <1>3, <1>5, TypeParts DEF SessionOpened, RegisterSession, Remember, c
  <2>2. CASE CatalogOpened(i, c) /\ Remember(i, c) /\ Settle(i, operation[i], "ok")
    <3>1. CatalogTypes'
      BY <1>3, <2>2, TypeParts DEF CatalogOpened, CatalogTypes
    <3>2. activeHandles' \in [Conversations -> MaybeCall]
      BY <1>3, <2>2 DEF Remember
    <3>3. MapTypes' /\ StageTypes'
      BY <1>3, <1>5, <2>2, <3>2, SettleTypes DEF SessionOpened
    <3> QED BY <1>2, <2>1, <3>1, <3>3, TypePartsNext
  <2>3. CASE Go(i, "cleanup") /\ UNCHANGED <<catalogVars, mapVars, listeners, outcome>>
    <3>1. StageTypes'
      BY <1>3, <1>5, <2>3, GoTypes DEF SessionOpened, Stages
    <3> QED BY <1>2, <2>1, <2>3, <3>1, TypeParts, TypesUnchanged, TypePartsNext
  <2> QED BY <1>5, <2>2, <2>3 DEF SessionOpened, c
<1>6. CASE SessionNotOpened(i)
  <2>1. RuntimeTypes' /\ AgentTypes'
    BY <1>3, <1>6, TypeParts DEF SessionNotOpened, c
  <2>2. StageTypes'
    BY <1>3, <1>6, GoTypes DEF SessionNotOpened, Stages
  <2>3. CatalogTypes' /\ MapTypes'
    BY <1>6, TypeParts, TypesUnchanged DEF SessionNotOpened
  <2> QED BY <1>2, <2>1, <2>2, <2>3, TypePartsNext
<1>7. ASSUME FailOpening(i), UNCHANGED <<activeHandles, peer>>
      PROVE  CatalogTypes' /\ MapTypes' /\ StageTypes'
  BY <1>3, <1>7, FailOpeningTypes DEF c
<1>8. CASE CleanUp(i)
  <2>1. UNCHANGED <<activeHandles, turns>>
    BY <1>8 DEF CleanUp
  <2>2. CASE FailOpening(i) /\ UNCHANGED <<runtimeVars, actor, peer>>
    BY <1>2, <1>7, <2>1, <2>2, TypeParts, TypesUnchanged, TypePartsNext DEF agentVars
  <2>3. CASE /\ FailOpening(i) /\ listeners' = [listeners EXCEPT ![c] = "none"]
             /\ configuredToolScopes' = configuredToolScopes \ {c}
             /\ UNCHANGED <<sessions, opening, actor, peer>>
    <3>1. RuntimeTypes' /\ AgentTypes'
      BY <2>1, <2>3, TypeParts
    <3> QED BY <1>2, <1>7, <2>1, <2>3, <3>1, TypePartsNext
  <2>4. CASE /\ TakeSession(i, c, "closing")
             /\ UNCHANGED <<catalogVars, opening, configuredToolScopes, pendingCreations, pendingRestores, outcome>>
    <3>1. RuntimeTypes' /\ AgentTypes' /\ StageTypes'
      BY <1>3, <2>1, <2>4, TakeTypes DEF Stages
    <3>2. CatalogTypes' /\ MapTypes'
      BY <2>1, <2>4, TypeParts, TypesUnchanged DEF mapVars
    <3> QED BY <1>2, <3>1, <3>2, TypePartsNext
  <2> QED BY <1>8, <2>2, <2>3, <2>4 DEF CleanUp, c
<1>9. CASE CleanedUp(i)
  <2>1. RuntimeTypes' /\ AgentTypes'
    BY <1>3, <1>9, TypeParts DEF CleanedUp
  <2> QED BY <1>2, <1>7, <1>9, <2>1, TypePartsNext DEF CleanedUp
<1> QED BY <1>4, <1>5, <1>6, <1>8, <1>9

LEMMA PromptTypes ==
    ASSUME TypeOK, ServiceInv, NEW i \in Calls, Prompt(i) \/ Prompted(i)
    PROVE  TypeOK'
<1> DEFINE c == conversation[i]
<1>1. /\ stage[i] # "idle"
      /\ UNCHANGED <<workspace, idempotencyKey, restoreFailed, removed, mapVars, shutdownVars,
                     runtimeVars, actor, requestVars, outcome, ticketVars>>
  BY DEF Prompt, Prompted, agentVars
<1>2. c \in Conversations /\ sessions[c] \in MaybeCall /\ peer \in [Calls -> MaybeCall]
      /\ contexts \in [Conversations -> Seq(Calls)] /\ turns \in [Conversations -> Seq(Calls)]
  BY <1>1, CallTypes, TypeParts DEF CatalogTypes, AgentTypes
<1> HIDE DEF c
<1>3. MapTypes' /\ ShutdownTypes' /\ RuntimeTypes' /\ RequestTypes' /\ TicketTypes'
  BY <1>1, TypeParts, TypesUnchanged
<1>4. contexts' \in [Conversations -> Seq(Calls)]
  <2>1. contexts[c] \in Seq(Calls) /\ Append(contexts[c], i) \in Seq(Calls)
    BY <1>2
  <2>2. Kept(contexts[c], Calls \ {i}) \in Seq(Calls)
    BY <2>1, KeptType
  <2>3. \/ contexts' = contexts
        \/ contexts' = [contexts EXCEPT ![c] = Append(contexts[c], i)]
        \/ contexts' = [contexts EXCEPT ![c] = Kept(contexts[c], Calls \ {i})]
    BY DEF Prompt, Prompted, c
  <2> QED BY <1>2, <2>1, <2>2, <2>3
<1>5. turns' \in [Conversations -> Seq(Calls)]
  <2>1. turns[c] \in Seq(Calls) /\ Append(turns[c], i) \in Seq(Calls)
    BY <1>2
  <2>2. turns' = turns \/ turns' = [turns EXCEPT ![c] = Append(turns[c], i)]
    BY DEF Prompt, Prompted, agentVars, c
  <2> QED BY <1>2, <2>1, <2>2
<1>6. peer' = peer \/ peer' = [peer EXCEPT ![i] = sessions[c]]
  BY DEF Prompt, Prompted, c
<1>7. peer' \in [Calls -> MaybeCall]
  BY <1>2, <1>6
<1>8. \E s \in Stages : Go(i, s)
  BY DEF Prompt, Prompted, Stages
<1>9. StageTypes'
  BY <1>1, <1>7, <1>8, GoTypes
<1>12. orphans' \subseteq Calls
  BY TypeParts DEF CatalogTypes, Prompt, Prompted
<1>10. CatalogTypes' /\ AgentTypes'
  BY <1>1, <1>4, <1>5, <1>12, TypeParts DEF CatalogTypes, AgentTypes
<1> QED BY <1>3, <1>9, <1>10, TypePartsNext

LEMMA RemovingTypes ==
    ASSUME TypeOK, ServiceInv, NEW i \in Calls,
           DeleteConversation(i) \/ SessionDeleted(i) \/ DeletedClosed(i) \/ InactiveDeleted(i)
    PROVE  TypeOK'
<1> DEFINE c == conversation[i]
<1>1. /\ stage[i] # "idle"
      /\ UNCHANGED <<pendingCreations, pendingRestores, shutdownVars, opening, turns, requestVars,
                     outcome, ticketVars>>
  BY DEF DeleteConversation, SessionDeleted, DeletedClosed, InactiveDeleted, InRuntime, agentVars,
         runtimeVars
<1>2. /\ c \in Conversations /\ peer \in [Calls -> MaybeCall] /\ activeHandles \in [Conversations -> MaybeCall]
      /\ sessions[c] \in MaybeCall /\ opening[c] \in MaybeCall
  BY <1>1, CallTypes
<1> HIDE DEF c
<1>3. ShutdownTypes' /\ RequestTypes' /\ TicketTypes'
  BY <1>1, TypeParts, TypesUnchanged
<1>4. CASE DeleteConversation(i)
  <2>1. peer' = peer \/ peer' = [peer EXCEPT ![i] = sessions[c]] \/ peer' = [peer EXCEPT ![i] = opening[c]]
    BY <1>4 DEF DeleteConversation, c
  <2>2. peer' \in [Calls -> MaybeCall] /\ \E s \in Stages : Go(i, s)
    BY <1>2, <1>4, <2>1 DEF DeleteConversation, Stages
  <2>3. StageTypes'
    BY <1>1, <2>2, GoTypes
  <2> QED BY <1>3, <1>4, <2>3, TypeParts, TypesUnchanged, TypePartsNext
          DEF DeleteConversation, InRuntime, mapVars
<1>5. ASSUME NEW s \in Stages, Go(i, s), peer' = peer
      PROVE  StageTypes'
  BY <1>1, <1>2, <1>5, GoTypes
<1>6. ASSUME UNCHANGED <<catalogVars, activeHandles>>
      PROVE  CatalogTypes' /\ MapTypes'
  BY <1>1, <1>6, TypeParts, TypesUnchanged DEF mapVars
<1>7. ASSUME RemoveRow(i, c)
      PROVE  CatalogTypes' /\ MapTypes'
  BY <1>1, <1>2, <1>7, RemoveRowTypes, TypeParts DEF MapTypes
<1>8. CASE SessionDeleted(i)
  <2>1. CatalogTypes' /\ MapTypes'
    BY <1>6, <1>8 DEF SessionDeleted
  <2>2. CASE Go(i, "done") /\ UNCHANGED <<sessions, listeners, configuredToolScopes, actor, peer>>
    <3>1. StageTypes'
      BY <1>5, <2>2 DEF Stages
    <3>2. RuntimeTypes' /\ AgentTypes'
      BY <1>1, <2>2, TypeParts DEF RuntimeTypes, AgentTypes
    <3> QED BY <1>3, <2>1, <3>1, <3>2, TypePartsNext
  <2>3. CASE /\ \E s \in {"closingDeleted", "closingUndeleted"} : TakeSession(i, c, s)
             /\ UNCHANGED configuredToolScopes
    <3>1. RuntimeTypes' /\ AgentTypes' /\ StageTypes'
      BY <1>1, <1>2, <2>3, TakeTypes DEF Stages
    <3> QED BY <1>3, <2>1, <3>1, TypePartsNext
  <2>4. CASE /\ listeners' = [listeners EXCEPT ![c] = "none"]
             /\ configuredToolScopes' = configuredToolScopes \ {c}
             /\ Go(i, "done") /\ UNCHANGED <<sessions, actor, peer>>
    <3>1. StageTypes'
      BY <1>5, <2>4 DEF Stages
    <3>2. RuntimeTypes' /\ AgentTypes'
      BY <1>1, <2>4, TypeParts DEF RuntimeTypes, AgentTypes
    <3> QED BY <1>3, <2>1, <3>1, <3>2, TypePartsNext
  <2> QED BY <1>8, <2>2, <2>3, <2>4 DEF SessionDeleted, c
<1>9. Unsubscribed(c) \in {"none", "empty", "service"}
  BY <1>2, TypeParts DEF Unsubscribed, RuntimeTypes
<1>10. CASE DeletedClosed(i)
  <2>1. CatalogTypes' /\ MapTypes'
    BY <1>6, <1>7, <1>10 DEF DeletedClosed, c
  <2>2. Go(i, "done") /\ peer' = peer
    BY <1>10 DEF DeletedClosed, RemoveRow
  <2>3. StageTypes'
    BY <1>5, <2>2 DEF Stages
  <2>4. /\ actor' = [actor EXCEPT ![peer[i]] = "closed"] /\ UNCHANGED <<sessions, opening>>
        /\ configuredToolScopes' = configuredToolScopes \ {c}
        /\ listeners' = listeners \/ listeners' = [listeners EXCEPT ![c] = Unsubscribed(c)]
    BY <1>10 DEF DeletedClosed, c
  <2>5. RuntimeTypes' /\ AgentTypes'
    BY <1>1, <1>9, <2>4, TypeParts DEF RuntimeTypes, AgentTypes
  <2> QED BY <1>3, <2>1, <2>3, <2>5, TypePartsNext
<1>11. CASE InactiveDeleted(i)
  <2>1. CatalogTypes' /\ MapTypes'
    BY <1>6, <1>7, <1>11 DEF InactiveDeleted, c
  <2>2. Go(i, "done") /\ UNCHANGED <<peer, sessions, opening, agentVars>>
    BY <1>11 DEF InactiveDeleted, RemoveRow
  <2>3. StageTypes'
    BY <1>5, <2>2 DEF Stages
  <2>4. /\ configuredToolScopes' = configuredToolScopes \/ configuredToolScopes' = configuredToolScopes \ {c}
        /\ listeners' = listeners \/ listeners' = [listeners EXCEPT ![c] = Unsubscribed(c)]
    BY <1>11 DEF InactiveDeleted, c
  <2>5. RuntimeTypes' /\ AgentTypes'
    BY <1>1, <1>9, <2>2, <2>4, TypeParts, TypesUnchanged DEF RuntimeTypes
  <2> QED BY <1>3, <2>1, <2>3, <2>5, TypePartsNext
<1> QED BY <1>4, <1>8, <1>10, <1>11

LEMMA ShutdownsTypes ==
    ASSUME TypeOK, \/ Shutdown \/ ShutdownRuntime \/ ShutdownEnds
                   \/ \E c \in Conversations : ShutdownSession(c)
    PROVE  TypeOK'
<1>1. InMap(pendingCreations) \cup InMap(pendingRestores) \subseteq Calls /\ InMap(opening) \subseteq Calls
  BY TypeParts DEF InMap, MapTypes, RuntimeTypes, MaybeCall
<1>2. CASE Shutdown \/ ShutdownRuntime
  <2>1. ShutdownTypes'
    BY <1>1, <1>2 DEF Shutdown, ShutdownRuntime, ShutdownTypes
  <2> QED BY <1>2, <2>1, TypeParts, TypesUnchanged, TypePartsNext DEF Shutdown, ShutdownRuntime
<1>3. CASE ShutdownEnds
  <2>1. ShutdownTypes' /\ MapTypes' /\ RuntimeTypes'
    BY <1>3, TypeParts DEF ShutdownEnds, ShutdownTypes, MapTypes, RuntimeTypes, MaybeCall
  <2> QED BY <1>3, <2>1, TypeParts, TypesUnchanged, TypePartsNext DEF ShutdownEnds
<1>4. CASE \E c \in Conversations : ShutdownSession(c)
  <2>1. PICK c \in Conversations : ShutdownSession(c)
    BY <1>4
  <2>2. RuntimeTypes' /\ AgentTypes'
    BY <2>1, TypeParts DEF ShutdownSession, RuntimeTypes, AgentTypes, MaybeCall
  <2> QED BY <2>1, <2>2, TypeParts, TypesUnchanged, TypePartsNext DEF ShutdownSession
<1> QED BY <1>2, <1>3, <1>4

LEMMA TypesKept ==
    ASSUME TypeOK, ServiceInv, JoinInv, [Next]_vars
    PROVE  TypeOK'
<1>1. ASSUME NEW i \in Calls, Joined(i)
      PROVE  outcome[peer[i]] \in {"ok", "failed"}
  BY <1>1, CallsAreNumbers DEF Joined, Settled, ServiceInv, ServiceTypes, JoinInv
<1>2. ASSUME NEW i \in Calls, Continue(i)  PROVE TypeOK'
  BY <1>1, <1>2, RelocatingTypes, OpeningTypes, PromptTypes, RemovingTypes DEF Continue
<1>3. CASE UNCHANGED vars
  BY <1>3, TypeParts, TypesUnchanged, TypePartsNext DEF vars
<1>4. ASSUME NEW i \in Calls, SessionLost(i)  PROVE TypeOK'
  <2>1. AgentTypes'
    BY <1>4, TypeParts DEF SessionLost, AgentTypes
  <2> QED BY <1>4, <2>1, TypeParts, TypesUnchanged, TypePartsNext DEF SessionLost
<1> QED BY <1>2, <1>3, <1>4, CreateTypes, BeginningTypes, ShutdownsTypes DEF Next

(* Every variable of the service, the catalog and the runtime has its type. *)
THEOREM ServiceTypeCorrect == Spec => []TypeOK
<1>1. Init => TypeOK
  <2> SUFFICES ASSUME Init  PROVE TypeOK
    OBVIOUS
  <2>1. contexts \in [Conversations -> Seq(Calls)] /\ turns \in [Conversations -> Seq(Calls)]
    BY DEF Init
  <2> QED BY <2>1, BoundAssumption DEF Init, TypeOK, Operations, Stages
<1>2. TypeOK /\ (ServiceInv /\ JoinInv) /\ [Next]_vars => TypeOK'
  BY TypesKept
<1> QED BY <1>1, <1>2, ServiceInvHolds, PTL DEF Spec

-----------------------------------------------------------------------------
(* The stages of the calls, the actors and the sessions of the runtime.     *)

CloseStages == {"closing", "closingDeleted", "closingUndeleted"}
RemoveStages == {"awaiting", "deleting", "deletingInactive", "closingDeleted", "closingUndeleted"}
EarlyStages == {"idle", "canonical", "previous", "joined", "resolve"}

(* What the stage of a call says of its operation, its actor and the actor  *)
(* it acts on.                                                              *)
StageInv ==
    \A i \in Calls :
        /\ stage[i] \in RemoveStages => operation[i] = "remove"
        /\ stage[i] = "previous" => operation[i] \in {"relocate", "remove"}
        /\ stage[i] \in EarlyStages => actor[i] = "none"
        /\ stage[i] \in CloseStages =>
             /\ peer[i] \in Calls /\ conversation[peer[i]] = conversation[i]
             /\ actor[peer[i]] \in {"closing", "closed"}
        /\ stage[i] = "prompting" =>
             /\ peer[i] \in Calls /\ conversation[peer[i]] = conversation[i]
             /\ actor[peer[i]] \in {"running", "failed", "closing", "closed"}

(* A starting actor is the one its runtime opens, an opened one is the      *)
(* session of its conversation, and a closing one has a call that closes it.*)
ActorInv ==
    /\ \A i \in Calls : actor[i] = "starting" <=> stage[i] = "opening"
    /\ \A i \in Calls : stage[i] = "opening" =>
         opening[conversation[i]] = i /\ sessions[conversation[i]] = None
    /\ \A c \in Conversations : opening[c] # None =>
         stage[opening[c]] = "opening" /\ conversation[opening[c]] = c
    /\ \A c \in Conversations : sessions[c] # None =>
         actor[sessions[c]] \in Opened /\ conversation[sessions[c]] = c
    /\ \A i \in Calls : actor[i] \in Opened => sessions[conversation[i]] = i
    /\ \A i \in Calls : actor[i] = "closing" =>
         \E j \in Calls : stage[j] \in CloseStages /\ peer[j] = i

MachineInv == StageInv /\ ActorInv

(* Only the call i goes on. *)
OnlyCall(i) ==
    \A j \in Calls \ {i} :
        /\ stage'[j] = stage[j] /\ peer'[j] = peer[j]
        /\ operation'[j] = operation[j] /\ conversation'[j] = conversation[j]

(* A call that has begun has a conversation. *)
LEMMA HaveConversations ==
    ASSUME ServiceInv, MachineInv, NEW i \in Calls, stage[i] # "idle" \/ actor[i] # "none"
    PROVE  conversation[i] \in Conversations
BY OpensHasConversation DEF ServiceInv, MachineInv, StageInv, EarlyStages

(* A call goes from a stage that has no actor in hand to another such one.  *)
LEMMA MoveMachine ==
    ASSUME TypeOK, ServiceInv, MachineInv, NEW i \in Calls, OnlyCall(i), UNCHANGED <<actor, sessions, opening>>,
           actor[i] = "none" \/ conversation'[i] = conversation[i],
           stage[i] \notin CloseStages \cup {"opening"}, stage'[i] \notin CloseStages \cup {"opening"},
           stage'[i] \in RemoveStages => operation'[i] = "remove",
           stage'[i] = "previous" => operation'[i] \in {"relocate", "remove"},
           stage'[i] \in EarlyStages => actor[i] = "none",
           stage'[i] = "prompting" =>
             /\ peer'[i] \in Calls /\ conversation[peer'[i]] = conversation'[i]
             /\ actor[peer'[i]] = "running"
    PROVE  MachineInv'
<1> USE DEF MachineInv, OnlyCall, Opened
<1>1. \A j \in Calls : actor[j] # "none" => conversation'[j] = conversation[j]
  OBVIOUS
<1>2. StageInv'
  BY <1>1 DEF StageInv
<1>3. ActorInv'
  <2>1. \A c \in Conversations : opening[c] # None => opening[c] \in Calls /\ opening[c] # i
    BY TypeParts DEF ActorInv, RuntimeTypes, MaybeCall
  <2>2. \A c \in Conversations : sessions[c] # None => sessions[c] \in Calls
    BY TypeParts DEF RuntimeTypes, MaybeCall
  <2>3. \A j \in Calls : stage'[j] = "opening" <=> stage[j] = "opening"
    OBVIOUS
  <2>4. \A j \in Calls : stage[j] \in CloseStages => stage'[j] = stage[j] /\ peer'[j] = peer[j]
    OBVIOUS
  <2>5. \A j \in Calls : actor[j] # "none" => conversation'[j] = conversation[j]
    BY <1>1
  <2>6. \A j \in Calls : stage[j] = "opening" => actor[j] # "none"
    BY DEF ActorInv
  <2> QED BY <2>1, <2>2, <2>3, <2>4, <2>5, <2>6 DEF ActorInv
<1> QED BY <1>2, <1>3

(* The runtime begins to open the session of a conversation. *)
LEMMA OpenMachine ==
    ASSUME TypeOK, ServiceInv, MachineInv, NEW i \in Calls, OnlyCall(i), NEW c \in Conversations,
           conversation[i] = c, UNCHANGED <<operation, conversation, sessions>>,
           stage[i] = "resolve", stage'[i] = "opening", sessions[c] = None, opening[c] = None,
           opening' = [opening EXCEPT ![c] = i], actor' = [actor EXCEPT ![i] = "starting"]
    PROVE  MachineInv'
<1> USE DEF MachineInv, OnlyCall, Opened
<1>1. /\ \A j \in Calls : actor'[j] = IF j = i THEN "starting" ELSE actor[j]
      /\ \A d \in Conversations : opening'[d] = IF d = c THEN i ELSE opening[d]
      /\ \A d \in Conversations : sessions[d] \in MaybeCall /\ opening[d] \in MaybeCall
      /\ actor[i] = "none"
  BY TypeParts DEF RuntimeTypes, AgentTypes, StageInv, EarlyStages
<1>2. \A j \in Calls : j # i => stage[j] # "opening" \/ conversation[j] # c
  BY CallsAreNumbers DEF ActorInv
<1>3. StageInv'
  BY <1>1 DEF StageInv, RemoveStages, EarlyStages, CloseStages
<1>4. ActorInv'
  <2>1. \A d \in Conversations : sessions[d] # None => sessions[d] \in Calls \ {i}
    BY <1>1 DEF ActorInv, MaybeCall
  <2>2. \A j \in Calls : stage[j] \in CloseStages => j # i
    BY DEF CloseStages
  <2>3. \A d \in Conversations : opening[d] # None => opening[d] \in Calls \ {i}
    BY <1>1 DEF ActorInv, MaybeCall
  <2>4. \A j \in Calls : /\ (actor'[j] = "starting" <=> stage'[j] = "opening")
                         /\ stage'[j] = "opening" =>
                              opening'[conversation[j]] = j /\ sessions'[conversation[j]] = None
    BY <1>1, <1>2, HaveConversations DEF ActorInv
  <2>5. \A d \in Conversations :
          /\ opening'[d] # None => stage'[opening'[d]] = "opening" /\ conversation[opening'[d]] = d
          /\ sessions'[d] # None => actor'[sessions'[d]] \in Opened /\ conversation[sessions'[d]] = d
    <3>1. \A d \in Conversations : opening'[d] # None =>
            stage'[opening'[d]] = "opening" /\ conversation[opening'[d]] = d
      <4>1. opening'[c] = i /\ stage'[i] = "opening" /\ conversation[i] = c
        BY <1>1
      <4>2. ASSUME NEW d \in Conversations, d # c, opening[d] # None
            PROVE  stage'[opening[d]] = "opening" /\ conversation[opening[d]] = d
        BY <2>3, <4>2 DEF ActorInv
      <4> QED BY <1>1, <4>1, <4>2
    <3>2. \A d \in Conversations : sessions'[d] # None =>
            actor'[sessions'[d]] \in Opened /\ conversation[sessions'[d]] = d
      BY <1>1, <2>1 DEF ActorInv
    <3> QED BY <3>1, <3>2
  <2>6. \A j \in Calls : actor'[j] \in Opened => sessions'[conversation[j]] = j
    BY <1>1 DEF ActorInv
  <2>7. \A j \in Calls : actor'[j] = "closing" => \E k \in Calls : stage'[k] \in CloseStages /\ peer'[k] = j
    BY <1>1, <2>2 DEF ActorInv
  <2> QED BY <2>4, <2>5, <2>6, <2>7 DEF ActorInv
<1> QED BY <1>3, <1>4

(* The runtime has opened the session, or has failed to. *)
LEMMA OpenedMachine ==
    ASSUME TypeOK, ServiceInv, MachineInv, NEW i \in Calls, OnlyCall(i), NEW c \in Conversations,
           conversation[i] = c, UNCHANGED <<operation, conversation>>,
           stage[i] = "opening", stage'[i] \in {"cleanup", "activated", "done"},
           opening' = [opening EXCEPT ![c] = None],
           \/ actor' = [actor EXCEPT ![i] = "running"] /\ sessions' = [sessions EXCEPT ![c] = i]
           \/ actor' = [actor EXCEPT ![i] = "closed"] /\ sessions' = sessions
    PROVE  MachineInv'
<1> USE DEF MachineInv, OnlyCall, Opened
<1>1. /\ \A j \in Calls \ {i} : actor'[j] = actor[j]
      /\ \A d \in Conversations : opening'[d] = IF d = c THEN None ELSE opening[d]
      /\ \A d \in Conversations \ {c} : sessions'[d] = sessions[d]
      /\ \A d \in Conversations : sessions[d] \in MaybeCall /\ opening[d] \in MaybeCall
      /\ \/ actor'[i] = "running" /\ sessions'[c] = i
         \/ actor'[i] = "closed" /\ sessions'[c] = None
      /\ actor[i] = "starting" /\ opening[c] = i /\ sessions[c] = None
  BY TypeParts DEF RuntimeTypes, AgentTypes, ActorInv
<1>3. StageInv'
  BY <1>1 DEF StageInv, RemoveStages, EarlyStages, CloseStages
<1>4. ActorInv'
  <2>1. \A d \in Conversations : sessions[d] # None => sessions[d] \in Calls \ {i}
    BY <1>1 DEF ActorInv, MaybeCall
  <2>2. \A j \in Calls : stage[j] \in CloseStages => j # i
    BY DEF CloseStages
  <2>3. \A d \in Conversations \ {c} : opening[d] # None => opening[d] \in Calls \ {i}
    BY <1>1 DEF ActorInv, MaybeCall
  <2>4. \A j \in Calls \ {i} : stage[j] = "opening" => conversation[j] # c
    BY <1>1 DEF ActorInv
  <2>5. \A j \in Calls \ {i} : actor[j] \in Opened => conversation[j] # c
    BY <1>1, CallsAreNumbers DEF ActorInv
  <2>6. \A j \in Calls : /\ (actor'[j] = "starting" <=> stage'[j] = "opening")
                         /\ stage'[j] = "opening" =>
                              opening'[conversation[j]] = j /\ sessions'[conversation[j]] = None
    BY <1>1, <2>4, HaveConversations DEF ActorInv
  <2>7. \A d \in Conversations :
          /\ opening'[d] # None => stage'[opening'[d]] = "opening" /\ conversation[opening'[d]] = d
          /\ sessions'[d] # None => actor'[sessions'[d]] \in Opened /\ conversation[sessions'[d]] = d
    BY <1>1, <2>1, <2>3 DEF ActorInv
  <2>8. \A j \in Calls : actor'[j] \in Opened => sessions'[conversation[j]] = j
    BY <1>1, <2>5, HaveConversations DEF ActorInv
  <2>9. \A j \in Calls : actor'[j] = "closing" => \E k \in Calls : stage'[k] \in CloseStages /\ peer'[k] = j
    BY <1>1, <2>2 DEF ActorInv
  <2> QED BY <2>6, <2>7, <2>8, <2>9 DEF ActorInv
<1> QED BY <1>3, <1>4

(* A call takes the session away to shut its actor down. *)
LEMMA TakeMachine ==
    ASSUME TypeOK, ServiceInv, MachineInv, NEW i \in Calls, OnlyCall(i), NEW c \in Conversations,
           conversation[i] = c, UNCHANGED <<operation, conversation, opening>>,
           NEW s \in CloseStages, TakeSession(i, c, s), sessions[c] # None,
           stage[i] \notin CloseStages \cup {"opening"}, s # "closing" => operation[i] = "remove"
    PROVE  MachineInv'
<1> USE DEF MachineInv, OnlyCall, Opened
<1>1. PICK h \in Calls : h = sessions[c]
  BY TypeParts DEF RuntimeTypes, MaybeCall
<1>2. /\ \A j \in Calls : actor'[j] = IF j = h THEN "closing" ELSE actor[j]
      /\ \A d \in Conversations : sessions'[d] = IF d = c THEN None ELSE sessions[d]
      /\ \A d \in Conversations : sessions[d] \in MaybeCall /\ opening[d] \in MaybeCall
      /\ peer'[i] = h /\ stage'[i] = s /\ actor[h] \in Opened /\ conversation[h] = c
  BY <1>1, TypeParts DEF TakeSession, Go, RuntimeTypes, AgentTypes, StageTypes, ActorInv
<1>3. StageInv'
  BY <1>1, <1>2 DEF StageInv, RemoveStages, EarlyStages, CloseStages
<1>4. ActorInv'
  <2>1. \A d \in Conversations \ {c} : sessions[d] # None => sessions[d] \in Calls \ {h}
    BY <1>2 DEF ActorInv, MaybeCall
  <2>2. \A j \in Calls : stage[j] \in CloseStages => j # i
    OBVIOUS
  <2>3. \A d \in Conversations : opening[d] # None => opening[d] \in Calls
    BY <1>2 DEF ActorInv, MaybeCall
  <2>4. \A j \in Calls : actor[j] \in Opened /\ conversation[j] = c => j = h
    BY <1>1 DEF ActorInv
  <2>5. "opening" \notin CloseStages
    BY DEF CloseStages
  <2>6. \A j \in Calls : /\ (actor'[j] = "starting" <=> stage'[j] = "opening")
                         /\ stage'[j] = "opening" =>
                              opening'[conversation[j]] = j /\ sessions'[conversation[j]] = None
    BY <1>1, <1>2, <2>5, HaveConversations DEF ActorInv
  <2>7. \A d \in Conversations :
          /\ opening'[d] # None => stage'[opening'[d]] = "opening" /\ conversation[opening'[d]] = d
          /\ sessions'[d] # None => actor'[sessions'[d]] \in Opened /\ conversation[sessions'[d]] = d
    BY <1>1, <1>2, <2>1, <2>3, <2>5 DEF ActorInv
  <2>8. \A j \in Calls : actor'[j] \in Opened => sessions'[conversation[j]] = j
    BY <1>1, <1>2, <2>4, HaveConversations DEF ActorInv
  <2>9. \A j \in Calls : actor'[j] = "closing" => \E k \in Calls : stage'[k] \in CloseStages /\ peer'[k] = j
    BY <1>1, <1>2, <2>2 DEF ActorInv
  <2> QED BY <2>6, <2>7, <2>8, <2>9 DEF ActorInv
<1> QED BY <1>3, <1>4

(* The actor a call shuts down is closed. *)
LEMMA ClosedMachine ==
    ASSUME TypeOK, ServiceInv, MachineInv, NEW i \in Calls, OnlyCall(i), UNCHANGED <<operation, conversation>>,
           stage[i] \in CloseStages, stage'[i] \in {"done", "activated"}, UNCHANGED <<opening, sessions>>,
           actor' = [actor EXCEPT ![peer[i]] = "closed"]
    PROVE  MachineInv'
<1> USE DEF MachineInv, OnlyCall, Opened
<1>1. PICK h \in Calls : h = peer[i] /\ actor[h] \in {"closing", "closed"}
  BY DEF StageInv
<1>2. /\ \A j \in Calls : actor'[j] = IF j = h THEN "closed" ELSE actor[j]
      /\ \A d \in Conversations : sessions[d] \in MaybeCall /\ opening[d] \in MaybeCall
  BY <1>1, TypeParts DEF RuntimeTypes, AgentTypes
<1>3. StageInv'
  BY <1>1, <1>2 DEF StageInv, RemoveStages, EarlyStages, CloseStages
<1>4. ActorInv'
  <2>1. \A d \in Conversations : sessions[d] # None => sessions[d] \in Calls \ {h}
    BY <1>1, <1>2 DEF ActorInv, MaybeCall
  <2>2. \A j \in Calls : stage[j] = "opening" => j # i /\ j # h
    BY <1>1 DEF CloseStages, ActorInv
  <2>3. \A d \in Conversations : opening[d] # None => opening[d] \in Calls
    BY <1>2 DEF ActorInv, MaybeCall
  <2>4. \A j \in Calls : actor[j] = "closing" /\ j # h =>
          \E k \in Calls \ {i} : stage[k] \in CloseStages /\ peer[k] = j
    BY <1>1 DEF ActorInv
  <2> QED BY <1>1, <1>2, <2>1, <2>2, <2>3, <2>4 DEF ActorInv
<1> QED BY <1>3, <1>4

(* The shutdown of the runtime closes a session. *)
LEMMA ShutdownMachine ==
    ASSUME TypeOK, ServiceInv, MachineInv, NEW c \in Conversations, sessions[c] # None,
           UNCHANGED <<operation, conversation, stage, peer, opening>>,
           actor' = [actor EXCEPT ![sessions[c]] = "closed"],
           sessions' = [sessions EXCEPT ![c] = None]
    PROVE  MachineInv'
<1> USE DEF MachineInv, Opened
<1>1. PICK h \in Calls : h = sessions[c]
  BY TypeParts DEF RuntimeTypes, MaybeCall
<1>2. /\ \A j \in Calls : actor'[j] = IF j = h THEN "closed" ELSE actor[j]
      /\ \A d \in Conversations : sessions'[d] = IF d = c THEN None ELSE sessions[d]
      /\ \A d \in Conversations : sessions[d] \in MaybeCall /\ opening[d] \in MaybeCall
      /\ actor[h] \in Opened /\ conversation[h] = c
  BY <1>1, TypeParts DEF RuntimeTypes, AgentTypes, ActorInv
<1>3. StageInv'
  BY <1>1, <1>2 DEF StageInv
<1>4. ActorInv'
  <2>1. \A d \in Conversations \ {c} : sessions[d] # None => sessions[d] \in Calls \ {h}
    BY <1>2 DEF ActorInv, MaybeCall
  <2>2. \A d \in Conversations : opening[d] # None => opening[d] \in Calls
    BY <1>2 DEF ActorInv, MaybeCall
  <2>3. \A j \in Calls : actor[j] \in Opened /\ conversation[j] = c => j = h
    BY <1>1 DEF ActorInv
  <2> QED BY <1>1, <1>2, <2>1, <2>2, <2>3 DEF ActorInv
<1> QED BY <1>3, <1>4

(* A session is lost. *)
LEMMA LostMachine ==
    ASSUME TypeOK, MachineInv, NEW i \in Calls, SessionLost(i)
    PROVE  MachineInv'
<1> USE DEF MachineInv, Opened
<1>1. UNCHANGED <<operation, conversation, stage, peer, sessions, opening>> /\ actor[i] = "running"
  BY DEF SessionLost, requestVars, stageVars, runtimeVars
<1>2. \A j \in Calls : actor'[j] = IF j = i THEN "failed" ELSE actor[j]
  BY TypeParts DEF SessionLost, AgentTypes
<1>3. StageInv'
  BY <1>1, <1>2 DEF StageInv
<1>4. ActorInv'
  <2>1. \A c \in Conversations : sessions[c] # None => sessions[c] \in Calls
    BY TypeParts DEF RuntimeTypes, MaybeCall
  <2> QED BY <1>1, <1>2, <2>1 DEF ActorInv
<1> QED BY <1>3, <1>4

-----------------------------------------------------------------------------
(* The calls that begin and those that go on.                               *)

BeginStep(i) ==
    \/ \E k \in Keys, w \in Workspaces : CreateConversation(i, k, w)
    \/ \E c \in Conversations :
         \/ RestoreConversation(i, c) \/ SendMessage(i, c) \/ RemoveConversation(i, c)
         \/ \E w \in Workspaces : RelocateConversation(i, c, w)

LEMMA StepsOfNext ==
    Next => \/ \E i \in Calls : BeginStep(i) \/ Continue(i) \/ SessionLost(i)
            \/ Shutdown \/ ShutdownRuntime \/ ShutdownEnds
            \/ \E c \in Conversations : ShutdownSession(c)
BY DEF Next, BeginStep

LEMMA SettleOnly ==
    ASSUME TypeOK, NEW i \in Calls, NEW op, NEW s \in {"ok", "failed"}, Settle(i, op, s),
           \A j \in Calls \ {i} : peer'[j] = peer[j] /\ operation'[j] = operation[j] /\ conversation'[j] = conversation[j]
    PROVE  OnlyCall(i) /\ stage'[i] \in {"activated", "done"} /\ (op # "send" \/ s # "ok" => stage'[i] = "done")
BY TypeParts DEF Settle, OnlyCall, StageTypes

LEMMA GoOnly ==
    ASSUME TypeOK, NEW i \in Calls, NEW s \in Stages, Go(i, s),
           \A j \in Calls \ {i} : peer'[j] = peer[j] /\ operation'[j] = operation[j] /\ conversation'[j] = conversation[j]
    PROVE  OnlyCall(i) /\ stage'[i] = s
BY TypeParts DEF Go, OnlyCall, StageTypes

(* How a call begins. *)
LEMMA BeginShape ==
    ASSUME TypeOK, ServiceInv, NEW i \in Calls, BeginStep(i)
    PROVE  /\ OnlyCall(i) /\ UNCHANGED InRuntime
           /\ operation[i] = "none" /\ stage[i] = "idle" /\ conversation[i] = NoConversation
           /\ operation'[i] \in Operations \ {"none"} /\ conversation'[i] \in Conversations
           /\ \A j \in Calls \ {i} : target'[j] = target[j] /\ key'[j] = key[j]
           /\ stage'[i] \in {"activated", "done", "joined", "resolve", "canonical", "previous"}
           /\ stage'[i] = "previous" => operation'[i] = "remove"
<1>1. operation[i] = "none" /\ stage[i] = "idle" /\ conversation[i] = NoConversation /\ UNCHANGED InRuntime
  BY DEF BeginStep, CreateConversation, RestoreConversation, SendMessage, ActivateConversation,
         RemoveConversation, RelocateConversation, Begins, ServiceInv, CallInv
<1>2. PICK op \in Operations \ {"none"}, c \in Conversations :
        Begins(i, op) /\ \E w, k : Request(i, c, w, k)
  BY DEF BeginStep, CreateConversation, RestoreConversation, SendMessage, ActivateConversation,
         RemoveConversation, RelocateConversation, Operations
<1>3. /\ operation'[i] = op /\ conversation'[i] = c
      /\ \A j \in Calls \ {i} : operation'[j] = operation[j] /\ conversation'[j] = conversation[j]
                                /\ target'[j] = target[j] /\ key'[j] = key[j]
  BY <1>2, TypeParts DEF Begins, Request, RequestTypes
<1>4. \A j \in Calls \ {i} : peer'[j] = peer[j]
  BY TypeParts DEF BeginStep, CreateConversation, RestoreConversation, SendMessage, ActivateConversation,
         RemoveConversation, RelocateConversation, Activate, StageTypes
<1>5. \/ \E o \in Operations, s \in {"ok", "failed"} : Settle(i, o, s)
      \/ \E s \in {"done", "joined", "resolve", "canonical"} : Go(i, s)
      \/ Go(i, "previous") /\ op = "remove"
  <2>1. CASE \E k0 \in Keys, w0 \in Workspaces : CreateConversation(i, k0, w0)
    BY <2>1 DEF CreateConversation, Activate, Operations
  <2>2. CASE \E d \in Conversations : RestoreConversation(i, d) \/ SendMessage(i, d)
    BY <2>2 DEF RestoreConversation, SendMessage, ActivateConversation, Activate, Operations
  <2>3. CASE \E d \in Conversations : RemoveConversation(i, d)
    <3>1. operation' = [operation EXCEPT ![i] = "remove"]
      BY <2>3 DEF RemoveConversation, Begins
    <3>2. op = "remove"
      BY <1>3, <3>1, TypeParts DEF RequestTypes
    <3> QED BY <2>3, <3>2 DEF RemoveConversation
  <2>4. CASE \E d \in Conversations, w0 \in Workspaces : RelocateConversation(i, d, w0)
    BY <2>4 DEF RelocateConversation
  <2> QED BY <2>1, <2>2, <2>3, <2>4 DEF BeginStep
<1>6. /\ OnlyCall(i) /\ stage'[i] \in {"activated", "done", "joined", "resolve", "canonical", "previous"}
      /\ stage'[i] = "previous" => op = "remove"
  BY <1>3, <1>4, <1>5, SettleOnly, GoOnly DEF Stages
<1> QED BY <1>1, <1>3, <1>6

(* A call that goes on is the only one to, and keeps its request. *)
LEMMA ContinueShape ==
    ASSUME TypeOK, ServiceInv, JoinInv, NEW i \in Calls, Continue(i)
    PROVE  OnlyCall(i) /\ UNCHANGED <<requestVars, shutdownVars>> /\ stage[i] # "idle" /\ stage'[i] # "idle"
<1> USE DEF requestVars
<1>1. UNCHANGED <<requestVars, shutdownVars>> /\ stage[i] # "idle"
  BY DEF Continue, RegisterRelocation, BeginRelocation, Joined, HostToolsResolved, SessionOpened,
         SessionNotOpened, CleanUp, CleanedUp, Prompt, Prompted, DeleteConversation, SessionDeleted,
         DeletedClosed, InactiveDeleted, InRuntime
<1>2. \A j \in Calls \ {i} : peer'[j] = peer[j]
  BY TypeParts DEF Continue, RegisterRelocation, BeginRelocation, Joined, HostToolsResolved, SessionOpened,
         SessionNotOpened, CleanUp, CleanedUp, TakeSession, Prompt, Prompted, DeleteConversation, SessionDeleted,
         DeletedClosed, InactiveDeleted, InRuntime, agentVars, StageTypes
<1>3. \/ \E op : \E s \in {"ok", "failed"} : Settle(i, op, s)
      \/ \E s \in Stages \ {"idle"} : Go(i, s)
  <2>1. CASE Joined(i)
    BY <2>1, CallsAreNumbers DEF Joined, Settled, ServiceInv, ServiceTypes, JoinInv
  <2>2. CASE CleanUp(i) \/ CleanedUp(i)
    BY <2>2 DEF CleanUp, CleanedUp, FailOpening, TakeSession, Stages
  <2>3. CASE RegisterRelocation(i) \/ BeginRelocation(i)
    BY <2>3 DEF RegisterRelocation, BeginRelocation, Stages
  <2>4. CASE HostToolsResolved(i) \/ SessionOpened(i) \/ SessionNotOpened(i)
    BY <2>4 DEF HostToolsResolved, SessionOpened, SessionNotOpened, Stages
  <2>5. CASE \/ Prompt(i) \/ Prompted(i) \/ DeleteConversation(i) \/ SessionDeleted(i)
             \/ DeletedClosed(i) \/ InactiveDeleted(i)
    BY <2>5 DEF Prompt, Prompted, DeleteConversation, SessionDeleted, DeletedClosed, InactiveDeleted,
         TakeSession, RemoveRow, Stages
  <2> QED BY <2>1, <2>2, <2>3, <2>4, <2>5 DEF Continue
<1> QED BY <1>1, <1>2, <1>3, SettleOnly, GoOnly

LEMMA MachineKept ==
    ASSUME TypeOK, TypeOK', ServiceInv, JoinInv, MachineInv, [Next]_vars
    PROVE  MachineInv'
<1> USE DEF MachineInv
<1>1. ASSUME NEW i \in Calls, BeginStep(i)
      PROVE  MachineInv'
  <2>1. UNCHANGED <<actor, sessions, opening>> /\ actor[i] = "none"
    BY <1>1, BeginShape DEF InRuntime, agentVars, runtimeVars, StageInv, EarlyStages
  <2> QED BY <1>1, <2>1, BeginShape, MoveMachine DEF CloseStages, RemoveStages
<1>2. ASSUME NEW i \in Calls, RegisterRelocation(i) \/ BeginRelocation(i) \/ Joined(i), Continue(i)
      PROVE  MachineInv'
  <2>1. UNCHANGED <<actor, sessions, opening>> /\ actor[i] = "none" /\ stage[i] \in {"canonical", "previous", "joined"}
    BY <1>2 DEF RegisterRelocation, BeginRelocation, Joined, InRuntime, agentVars, runtimeVars, StageInv, EarlyStages
  <2>2. stage'[i] \in {"previous", "resolve", "activated", "done"} /\ (stage'[i] = "previous" => operation[i] = "relocate")
    BY <1>2, TypeParts DEF RegisterRelocation, BeginRelocation, Joined, Settle, Go, StageTypes, ServiceInv, CallInv
  <2>3. OnlyCall(i) /\ operation' = operation /\ conversation' = conversation
    BY <1>2, ContinueShape DEF requestVars
  <2> QED BY <2>1, <2>2, <2>3, MoveMachine DEF CloseStages, RemoveStages
<1>3. ASSUME NEW i \in Calls, Continue(i),
             HostToolsResolved(i) \/ SessionOpened(i) \/ SessionNotOpened(i) \/ CleanUp(i) \/ CleanedUp(i)
      PROVE  MachineInv'
  <2>1. OnlyCall(i) /\ UNCHANGED <<operation, conversation>>
    BY <1>3, ContinueShape DEF requestVars
  <2>2. PICK c \in Conversations : c = conversation[i]
    BY <1>3, ContinueShape, HaveConversations
  <2>3. CASE HostToolsResolved(i)
    <3>1. stage[i] = "resolve" /\ sessions' = sessions
      BY <2>3 DEF HostToolsResolved
    <3>2. CASE MayConfigure(c) /\ BeginOpening(i, c) /\ Go(i, "opening")
      BY <2>1, <2>2, <3>1, <3>2, OpenMachine, GoOnly DEF BeginOpening, MayConfigure, OnlyCall, Stages
    <3>3. CASE Go(i, "cleanup") /\ UNCHANGED <<opening, actor>>
      <4>1. stage'[i] = "cleanup"
        BY <2>1, <3>3, GoOnly DEF OnlyCall, Stages
      <4> QED BY <2>1, <3>1, <3>3, <4>1, MoveMachine DEF CloseStages, RemoveStages, EarlyStages
    <3> QED BY <2>2, <2>3, <3>2, <3>3 DEF HostToolsResolved
  <2>4. CASE SessionOpened(i)
    <3>1. stage'[i] \in {"cleanup", "activated", "done"}
      BY <2>4, TypeParts DEF SessionOpened, Settle, Go, StageTypes
    <3> QED BY <2>1, <2>2, <2>4, <3>1, OpenedMachine DEF SessionOpened, RegisterSession
  <2>5. CASE SessionNotOpened(i)
    <3>1. stage'[i] = "cleanup"
      BY <2>5, TypeParts DEF SessionNotOpened, Go, StageTypes
    <3> QED BY <2>1, <2>2, <2>5, <3>1, OpenedMachine DEF SessionNotOpened
  <2>6. CASE CleanUp(i)
    <3>1. stage[i] = "cleanup"
      BY <2>6 DEF CleanUp
    <3>2. CASE FailOpening(i) /\ UNCHANGED <<sessions, opening, actor>>
      <4>1. stage'[i] = "done"
        BY <3>2, TypeParts DEF FailOpening, Settle, StageTypes
      <4> QED BY <2>1, <3>1, <3>2, <4>1, MoveMachine DEF CloseStages, RemoveStages, EarlyStages
    <3>3. CASE sessions[c] # None /\ TakeSession(i, c, "closing") /\ opening' = opening
      BY <2>1, <2>2, <3>1, <3>3, TakeMachine DEF CloseStages
    <3> QED BY <2>2, <2>6, <3>2, <3>3 DEF CleanUp, runtimeVars
  <2>7. CASE CleanedUp(i)
    <3>1. stage'[i] = "done"
      BY <2>7, TypeParts DEF CleanedUp, FailOpening, Settle, StageTypes
    <3> QED BY <2>1, <2>7, <3>1, ClosedMachine DEF CleanedUp, CloseStages
  <2> QED BY <1>3, <2>3, <2>4, <2>5, <2>6, <2>7
<1>4. ASSUME NEW i \in Calls, Continue(i),
             \/ Prompt(i) \/ Prompted(i) \/ DeleteConversation(i) \/ SessionDeleted(i)
             \/ DeletedClosed(i) \/ InactiveDeleted(i)
      PROVE  MachineInv'
  <2>1. OnlyCall(i) /\ UNCHANGED <<operation, conversation>>
    BY <1>4, ContinueShape DEF requestVars
  <2>2. PICK c \in Conversations : c = conversation[i]
    BY <1>4, ContinueShape, HaveConversations
  <2>3. CASE Prompt(i)
    <3>1. stage[i] = "activated" /\ UNCHANGED <<actor, sessions, opening>>
      BY <2>3 DEF Prompt, runtimeVars, agentVars
    <3>2. stage'[i] \in {"prompting", "done"} /\
          (stage'[i] = "prompting" => peer'[i] = sessions[c] /\ Accepting(c))
      BY <2>2, <2>3, TypeParts DEF Prompt, Go, StageTypes
    <3>3. Accepting(c) => sessions[c] \in Calls /\ conversation[sessions[c]] = c /\ actor[sessions[c]] = "running"
      BY TypeParts DEF Accepting, ActorInv, RuntimeTypes, MaybeCall
    <3> QED BY <2>1, <2>2, <3>1, <3>2, <3>3, MoveMachine DEF CloseStages, RemoveStages, EarlyStages
  <2>4. CASE Prompted(i) \/ InactiveDeleted(i) \/ (SessionDeleted(i) /\ UNCHANGED <<actor, sessions>> /\ Go(i, "done"))
    <3>1. /\ stage[i] \in {"prompting", "deletingInactive", "deleting"} /\ UNCHANGED <<actor, sessions, opening>>
          /\ Go(i, "done")
      BY <2>4 DEF Prompted, InactiveDeleted, SessionDeleted, RemoveRow, runtimeVars, agentVars
    <3>2. stage'[i] = "done"
      BY <3>1, TypeParts DEF Go, StageTypes
    <3> QED BY <2>1, <3>1, <3>2, MoveMachine DEF CloseStages, RemoveStages, EarlyStages
  <2>5. CASE DeleteConversation(i)
    <3>1. /\ stage[i] \in {"previous", "awaiting"} /\ UNCHANGED <<actor, sessions, opening>>
          /\ operation[i] = "remove"
      BY <2>5 DEF DeleteConversation, InRuntime, runtimeVars, agentVars
    <3>2. stage'[i] \in {"done", "awaiting", "deleting", "deletingInactive"}
      BY <2>5, TypeParts DEF DeleteConversation, Go, StageTypes
    <3> QED BY <2>1, <3>1, <3>2, MoveMachine DEF CloseStages, RemoveStages, EarlyStages
  <2>6. CASE SessionDeleted(i)
    <3>1. CASE UNCHANGED <<actor, sessions>> /\ Go(i, "done")
      BY <2>4, <2>6, <3>1
    <3>2. CASE \E s \in {"closingDeleted", "closingUndeleted"} : sessions[c] # None /\ TakeSession(i, c, s)
      <4>1. operation[i] = "remove" /\ stage[i] = "deleting" /\ opening' = opening
        BY <2>6 DEF SessionDeleted, StageInv, RemoveStages
      <4> QED BY <2>1, <2>2, <3>2, <4>1, TakeMachine DEF CloseStages
    <3> QED BY <2>2, <2>6, <3>1, <3>2 DEF SessionDeleted
  <2>7. CASE DeletedClosed(i)
    <3>1. /\ stage[i] \in CloseStages /\ UNCHANGED <<sessions, opening>> /\ Go(i, "done")
          /\ actor' = [actor EXCEPT ![peer[i]] = "closed"]
      BY <2>7 DEF DeletedClosed, RemoveRow, CloseStages
    <3>2. stage'[i] = "done"
      BY <3>1, TypeParts DEF Go, StageTypes
    <3> QED BY <2>1, <3>1, <3>2, ClosedMachine
  <2> QED BY <1>4, <2>3, <2>4, <2>5, <2>6, <2>7
<1>5. CASE Shutdown \/ ShutdownRuntime \/ ShutdownEnds \/ UNCHANGED vars
  <2>1. UNCHANGED <<actor, sessions, opening, stage, peer, operation, conversation>>
    BY <1>5 DEF Shutdown, ShutdownRuntime, ShutdownEnds, vars, runtimeVars, agentVars, requestVars, stageVars
  <2> QED BY <2>1 DEF StageInv, ActorInv
<1>6. CASE \E c \in Conversations : ShutdownSession(c)
  BY <1>6, ShutdownMachine DEF ShutdownSession, requestVars, stageVars
<1>7. CASE \E i \in Calls : SessionLost(i)
  BY <1>7, LostMachine
<1> QED BY <1>1, <1>2, <1>3, <1>4, <1>5, <1>6, <1>7, StepsOfNext DEF Continue

-----------------------------------------------------------------------------
(* The handles of the service and the sessions behind them.                 *)

Backed(c) ==
    activeHandles[c] # None =>
        /\ workspace[c] = target[activeHandles[c]]
        /\ c \notin restoreFailed
        /\ \/ /\ sessions[c] = activeHandles[c] /\ actor[sessions[c]] \in Opened
              /\ listeners[c] = "service"
              /\ c \in configuredToolScopes \/ RemovalTried(c)
           \/ /\ sessions[c] = None /\ actor[activeHandles[c]] \in {"closing", "closed"}
              /\ RemovalTried(c) \/ RuntimeDown

(* A session that is being opened has its host tools, and one that runs is  *)
(* either known to the service or about to be closed.                       *)
Scoped(c) == opening[c] # None /\ ~RuntimeDown => c \in configuredToolScopes \/ RemovalTried(c)
Served(c) ==
    sessions[c] # None =>
        \/ activeHandles[c] = sessions[c] \/ stage[sessions[c]] = "cleanup"
        \/ RemovalTried(c) \/ RuntimeDown
Ended(c) == service = "closed" => sessions[c] = None

HandleAt(c) == Backed(c) /\ Scoped(c) /\ Served(c) /\ Ended(c)
HandleInv == \A c \in Conversations : HandleAt(c)

LEMMA RemovalsStay ==
    ASSUME NEW i \in Calls, OnlyCall(i), operation[i] = "none" \/ UNCHANGED <<operation, conversation>>, NEW c
    PROVE  RemovalTried(c) => RemovalTried(c)'
BY DEF RemovalTried, OnlyCall

(* What a conversation has of the catalog, the service and the runtime *)
(* stays, but for an actor that goes from closing to closed or fails.  *)
LEMMA HandleStays ==
    ASSUME NEW c \in Conversations, HandleAt(c),
           workspace'[c] = workspace[c], activeHandles'[c] = activeHandles[c],
           sessions'[c] = sessions[c], opening'[c] = opening[c], listeners'[c] = listeners[c],
           c \in restoreFailed' => c \in restoreFailed,
           c \in configuredToolScopes => c \in configuredToolScopes',
           RuntimeDown => RuntimeDown', service' = "closed" => service = "closed" \/ sessions[c] = None,
           RemovalTried(c) => RemovalTried(c)',
           activeHandles[c] # None =>
             /\ target'[activeHandles[c]] = target[activeHandles[c]]
             /\ \/ actor'[activeHandles[c]] = actor[activeHandles[c]]
                \/ /\ actor[activeHandles[c]] \in {"closing", "closed"}
                   /\ actor'[activeHandles[c]] \in {"closing", "closed"}
                \/ actor[activeHandles[c]] \in Opened /\ actor'[activeHandles[c]] \in Opened,
           sessions[c] # None /\ stage[sessions[c]] = "cleanup" => stage'[sessions[c]] = "cleanup"
    PROVE  HandleAt(c)'
<1>1. Backed(c)'
  BY DEF HandleAt, Backed, Opened
<1>2. Scoped(c)' /\ Served(c)' /\ Ended(c)'
  BY DEF HandleAt, Scoped, Served, Ended
<1> QED BY <1>1, <1>2 DEF HandleAt

(* The actors a step of a call may touch are those of its conversation. *)
LEMMA ActorsElsewhere ==
    ASSUME TypeOK, ServiceInv, JoinInv, MachineInv, NEW i \in Calls, Continue(i)
    PROVE  \A j \in Calls : conversation[j] # conversation[i] => actor'[j] = actor[j]
<1> DEFINE c == conversation[i]
<1>1. conversation[i] \in Conversations
  BY ContinueShape, HaveConversations
<1>2. sessions[c] # None => sessions[c] \in Calls /\ conversation[sessions[c]] = c
  BY <1>1, TypeParts DEF MachineInv, ActorInv, RuntimeTypes, MaybeCall
<1>3. stage[i] \in CloseStages => conversation[peer[i]] = c
  BY DEF MachineInv, StageInv
<1>4. CASE CleanUp(i) \/ CleanedUp(i) \/ SessionDeleted(i) \/ DeletedClosed(i)
  BY <1>2, <1>3, <1>4, TypeParts DEF CleanUp, CleanedUp, SessionDeleted, DeletedClosed, TakeSession, CloseStages,
     AgentTypes
<1>5. CASE HostToolsResolved(i) \/ SessionOpened(i) \/ SessionNotOpened(i)
  BY <1>5, TypeParts DEF HostToolsResolved, BeginOpening, SessionOpened, SessionNotOpened, RegisterSession, AgentTypes
<1>6. CASE \/ RegisterRelocation(i) \/ BeginRelocation(i) \/ Joined(i) \/ Prompt(i) \/ Prompted(i)
           \/ DeleteConversation(i) \/ InactiveDeleted(i)
  BY <1>6 DEF RegisterRelocation, BeginRelocation, Joined, Prompt, Prompted, DeleteConversation, InactiveDeleted,
              InRuntime, agentVars
<1> QED BY <1>4, <1>5, <1>6 DEF Continue

(* A step of a call leaves the other conversations alone. *)
LEMMA ContinueElsewhere ==
    ASSUME TypeOK, ServiceInv, JoinInv, MachineInv, NEW i \in Calls, Continue(i),
           NEW d \in Conversations, d # conversation[i]
    PROVE  /\ workspace'[d] = workspace[d] /\ idempotencyKey'[d] = idempotencyKey[d]
           /\ contexts'[d] = contexts[d] /\ turns'[d] = turns[d]
           /\ activeHandles'[d] = activeHandles[d]
           /\ sessions'[d] = sessions[d] /\ opening'[d] = opening[d] /\ listeners'[d] = listeners[d]
           /\ (d \in restoreFailed' <=> d \in restoreFailed) /\ (d \in removed' <=> d \in removed)
           /\ (d \in configuredToolScopes' <=> d \in configuredToolScopes)
<1>1. /\ workspace'[d] = workspace[d] /\ idempotencyKey'[d] = idempotencyKey[d] /\ contexts'[d] = contexts[d]
      /\ (d \in restoreFailed' <=> d \in restoreFailed) /\ (d \in removed' <=> d \in removed)
  <2>1. CASE HostToolsResolved(i) \/ SessionNotOpened(i) \/ DeleteConversation(i) \/ SessionDeleted(i)
             \/ RegisterRelocation(i) \/ BeginRelocation(i) \/ Joined(i)
    BY <2>1 DEF HostToolsResolved, SessionNotOpened, DeleteConversation, SessionDeleted, RegisterRelocation,
                BeginRelocation, Joined, InRuntime, catalogVars
  <2>2. CASE SessionOpened(i)
    BY <2>2, TypeParts DEF SessionOpened, CatalogOpened, catalogVars, CatalogTypes
  <2>3. CASE CleanUp(i) \/ CleanedUp(i)
    BY <2>3 DEF CleanUp, CleanedUp, FailOpening, catalogVars
  <2>4. CASE Prompt(i) \/ Prompted(i)
    BY <2>4, TypeParts DEF Prompt, Prompted, CatalogTypes
  <2>5. CASE DeletedClosed(i) \/ InactiveDeleted(i)
    BY <2>5, TypeParts DEF DeletedClosed, InactiveDeleted, RemoveRow, catalogVars, CatalogTypes
  <2> QED BY <2>1, <2>2, <2>3, <2>4, <2>5 DEF Continue
<1>2. turns'[d] = turns[d]
  BY TypeParts DEF Continue, RegisterRelocation, BeginRelocation, Joined, HostToolsResolved, SessionOpened,
         SessionNotOpened, CleanUp, CleanedUp, Prompt, Prompted, DeleteConversation, SessionDeleted,
         DeletedClosed, InactiveDeleted, InRuntime, agentVars, AgentTypes
<1>3. activeHandles'[d] = activeHandles[d]
  BY TypeParts DEF Continue, RegisterRelocation, BeginRelocation, Joined, HostToolsResolved, SessionOpened,
         SessionNotOpened, CleanUp, CleanedUp, Prompt, Prompted, DeleteConversation, SessionDeleted,
         DeletedClosed, InactiveDeleted, InRuntime, mapVars, Remember, RemoveRow, MapTypes
<1>4. sessions'[d] = sessions[d] /\ opening'[d] = opening[d] /\ listeners'[d] = listeners[d]
      /\ (d \in configuredToolScopes' <=> d \in configuredToolScopes)
  <2>1. CASE RegisterRelocation(i) \/ BeginRelocation(i) \/ Joined(i) \/ DeleteConversation(i)
             \/ Prompt(i) \/ Prompted(i)
    BY <2>1 DEF DeleteConversation, RegisterRelocation, BeginRelocation, Joined, Prompt, Prompted, InRuntime,
                runtimeVars
  <2>2. CASE HostToolsResolved(i) \/ SessionOpened(i) \/ SessionNotOpened(i)
    BY <2>2, TypeParts DEF HostToolsResolved, BeginOpening, SessionOpened, SessionNotOpened, RegisterSession,
       Remember, RuntimeTypes
  <2>3. CASE CleanUp(i) \/ CleanedUp(i) \/ SessionDeleted(i) \/ DeletedClosed(i) \/ InactiveDeleted(i)
    BY <2>3, TypeParts DEF CleanUp, CleanedUp, TakeSession, SessionDeleted, DeletedClosed, InactiveDeleted,
       runtimeVars, RuntimeTypes
  <2> QED BY <2>1, <2>2, <2>3 DEF Continue
<1> QED BY <1>1, <1>2, <1>3, <1>4

(* The call a handle or a session names belongs to the conversation. *)
LEMMA NamedCalls ==
    ASSUME TypeOK, ServiceInv, MachineInv, NEW c \in Conversations
    PROVE  /\ activeHandles[c] # None => activeHandles[c] \in Calls /\ conversation[activeHandles[c]] = c
           /\ sessions[c] # None => /\ sessions[c] \in Calls /\ conversation[sessions[c]] = c
                                    /\ actor[sessions[c]] \in Opened
           /\ opening[c] # None => opening[c] \in Calls /\ conversation[opening[c]] = c
BY TypeParts DEF ServiceInv, RecordInv, MachineInv, ActorInv, MapTypes, RuntimeTypes, MaybeCall

(* A call that opens finds its conversation without a handle. *)
LEMMA OpensUnhandled ==
    ASSUME ServiceInv, NEW i \in Calls, Opens(i)
    PROVE  activeHandles[conversation[i]] = None
BY DEF ServiceInv, RecordInv

LEMMA HandleElsewhere ==
    ASSUME TypeOK, ServiceInv, JoinInv, MachineInv, HandleInv, NEW i \in Calls, Continue(i),
           NEW d \in Conversations, d # conversation[i]
    PROVE  HandleAt(d)'
<1>1. OnlyCall(i) /\ UNCHANGED <<operation, conversation, target, service>>
  BY ContinueShape DEF requestVars, shutdownVars
<1>2. RemovalTried(d) => RemovalTried(d)'
  BY <1>1, RemovalsStay
<1>3. RuntimeDown' = RuntimeDown
  BY <1>1 DEF RuntimeDown
<1>4. activeHandles[d] # None => actor'[activeHandles[d]] = actor[activeHandles[d]]
  BY NamedCalls, ActorsElsewhere
<1>5. sessions[d] # None => stage'[sessions[d]] = stage[sessions[d]]
  BY <1>1, NamedCalls DEF OnlyCall
<1> QED BY <1>1, <1>2, <1>3, <1>4, <1>5, ContinueElsewhere, HandleStays DEF HandleInv

(* Steps in which the runtime and the service stay as they are for the      *)
(* conversation of the call.                                                *)
LEMMA QuietHandle ==
    ASSUME TypeOK, ServiceInv, JoinInv, MachineInv, HandleInv, NEW i \in Calls, Continue(i),
           stage[i] # "cleanup", NEW c \in Conversations, c = conversation[i],
           UNCHANGED <<workspace, restoreFailed, activeHandles, sessions, opening, listeners, actor>>,
           c \in configuredToolScopes => c \in configuredToolScopes'
    PROVE  HandleAt(c)'
<1>1. OnlyCall(i) /\ UNCHANGED <<operation, conversation, target, service>>
  BY ContinueShape DEF requestVars, shutdownVars
<1>2. RemovalTried(c) => RemovalTried(c)'
  BY <1>1, RemovalsStay
<1>3. RuntimeDown' = RuntimeDown
  BY <1>1 DEF RuntimeDown
<1>4. sessions[c] # None /\ stage[sessions[c]] = "cleanup" => stage'[sessions[c]] = "cleanup"
  BY <1>1, NamedCalls DEF OnlyCall
<1> QED BY <1>1, <1>2, <1>3, <1>4, HandleStays DEF HandleInv

(* A failed call cleans up a conversation the service has no handle of. *)
LEMMA UnhandledAt ==
    ASSUME NEW c \in Conversations, activeHandles'[c] = None, opening'[c] = None,
           sessions'[c] = None \/ (stage'[sessions'[c]] = "cleanup" /\ service' # "closed")
                               \/ (RuntimeDown' /\ service' # "closed")
    PROVE  HandleAt(c)'
BY DEF HandleAt, Backed, Scoped, Served, Ended

LEMMA OpeningHandle ==
    ASSUME TypeOK, ServiceInv, JoinInv, MachineInv, HandleInv, NEW i \in Calls, Continue(i),
           NEW c \in Conversations, c = conversation[i],
           HostToolsResolved(i) \/ SessionOpened(i) \/ SessionNotOpened(i) \/ CleanUp(i) \/ CleanedUp(i)
    PROVE  HandleAt(c)'
<1>1. OnlyCall(i) /\ UNCHANGED <<operation, conversation, target, service>>
  BY ContinueShape DEF requestVars, shutdownVars
<1>2. activeHandles[c] = None /\ Opens(i)
  BY OpensUnhandled DEF Opens, HostToolsResolved, SessionOpened, SessionNotOpened, CleanUp, CleanedUp
<1>3. RuntimeDown' = RuntimeDown /\ HandleAt(c) /\ (RemovalTried(c) => RemovalTried(c)')
  BY <1>1, RemovalsStay DEF RuntimeDown, HandleInv
<1>4. sessions \in [Conversations -> MaybeCall] /\ opening \in [Conversations -> MaybeCall]
      /\ activeHandles \in [Conversations -> MaybeCall] /\ listeners \in [Conversations -> {"none", "empty", "service"}]
      /\ actor \in [Calls -> {"none", "starting", "running", "failed", "closing", "closed"}]
      /\ workspace \in [Conversations -> Workspaces \cup {NoWorkspace}]
  BY TypeParts DEF RuntimeTypes, MapTypes, AgentTypes, CatalogTypes
<1>5. CASE HostToolsResolved(i)
  <2>1. UNCHANGED <<workspace, restoreFailed, activeHandles, sessions>> /\ stage[i] = "resolve"
    BY <1>5 DEF HostToolsResolved, catalogVars, mapVars
  <2>2. CASE MayConfigure(c) /\ BeginOpening(i, c)
    <3>1. sessions'[c] = None /\ activeHandles'[c] = None /\ c \in configuredToolScopes'
      BY <1>2, <2>1, <2>2 DEF MayConfigure, BeginOpening
    <3> QED BY <3>1 DEF HandleAt, Backed, Scoped, Served, Ended
  <2>3. CASE UNCHANGED <<opening, listeners, actor>> /\ (c \in configuredToolScopes => c \in configuredToolScopes')
    BY <2>1, <2>3, QuietHandle
  <2> QED BY <1>5, <2>2, <2>3 DEF HostToolsResolved
<1>6. CASE SessionOpened(i)
  <2>1. /\ stage[i] = "opening" /\ ~RuntimeDown /\ service # "closed"
        /\ actor'[i] = "running" /\ sessions'[c] = i /\ opening'[c] = None
        /\ configuredToolScopes' = configuredToolScopes
    BY <1>4, <1>6 DEF SessionOpened, RegisterSession, RuntimeDown
  <2>2. CASE CatalogOpened(i, c) /\ Remember(i, c)
    <3>1. activeHandles'[c] = i /\ listeners'[c] = "service" /\ c \notin restoreFailed'
      BY <1>4, <2>2 DEF CatalogOpened, Remember
    <3>2. workspace'[c] = target[i]
      <4>1. CASE operation[i] \in {"create", "relocate"}
        BY <1>4, <2>2, <4>1 DEF CatalogOpened
      <4>2. CASE operation[i] \notin {"create", "relocate"}
        <5>1. workspace' = workspace /\ Cataloged(c) /\ ~IsCreation(i)
          BY <2>2, <4>2 DEF CatalogOpened, IsCreation
        <5>2. IsRestore(i)
          BY <1>2, <4>2 DEF IsRestore, ServiceInv, CreationInv, Registered
        <5> QED BY <1>2, <5>1, <5>2 DEF ServiceInv, RecordInv
      <4> QED BY <4>1, <4>2
    <3>3. c \in configuredToolScopes \/ RemovalTried(c)
      BY <1>3, <2>1, CallsAreNumbers DEF HandleAt, Scoped, MachineInv, ActorInv
    <3>4. Backed(c)'
      BY <1>1, <1>3, <2>1, <3>1, <3>2, <3>3 DEF Backed, Opened
    <3> QED BY <1>1, <2>1, <3>1, <3>4 DEF HandleAt, Scoped, Served, Ended
  <2>3. CASE Go(i, "cleanup") /\ UNCHANGED mapVars
    <3>1. stage'[i] = "cleanup" /\ activeHandles'[c] = None
      BY <1>2, <2>3, TypeParts DEF Go, StageTypes, mapVars
    <3> QED BY <1>1, <2>1, <3>1, UnhandledAt
  <2> QED BY <1>6, <2>2, <2>3 DEF SessionOpened
<1>7. CASE SessionNotOpened(i)
  <2>1. opening'[c] = None /\ activeHandles'[c] = None /\ sessions'[c] = None
    BY <1>2, <1>4, <1>7 DEF SessionNotOpened, mapVars, MachineInv, ActorInv
  <2> QED BY <2>1, UnhandledAt
<1>8. CASE CleanUp(i)
  <2>1. activeHandles'[c] = None
    BY <1>2, <1>8 DEF CleanUp
  <2>2. CASE RuntimeDown /\ UNCHANGED <<runtimeVars>>
    <3>1. Scoped(c)' /\ Served(c)'
      BY <1>3, <2>2 DEF Scoped, Served
    <3>2. Ended(c)' /\ Backed(c)'
      BY <1>1, <1>3, <2>1, <2>2 DEF Ended, HandleAt, Backed, runtimeVars
    <3> QED BY <3>1, <3>2 DEF HandleAt
  <2>3. CASE ~RuntimeDown /\ opening[c] = None /\ sessions[c] = None /\ UNCHANGED <<sessions, opening>>
    BY <2>1, <2>3, UnhandledAt
  <2>4. CASE ~RuntimeDown /\ opening[c] = None /\ TakeSession(i, c, "closing") /\ opening' = opening
    BY <1>4, <2>1, <2>4, UnhandledAt DEF TakeSession
  <2> QED BY <1>8, <2>2, <2>3, <2>4 DEF CleanUp
<1>9. CASE CleanedUp(i)
  <2>1. UNCHANGED <<activeHandles, sessions, opening>> /\ stage[i] = "closing"
    BY <1>9 DEF CleanedUp
  <2>2. opening[c] = None
    <3> SUFFICES ASSUME opening[c] # None  PROVE FALSE
      OBVIOUS
    <3>1. opening[c] \in Calls /\ stage[opening[c]] = "opening" /\ conversation[opening[c]] = c
      BY NamedCalls DEF MachineInv, ActorInv
    <3> QED BY <1>2, <2>1, <3>1, OneOpens DEF Opens
  <2>3. Served(c)'
    <3>1. sessions[c] # None => stage[sessions[c]] # "cleanup"
      BY <1>2, <2>1, NamedCalls, OneOpens DEF Opens
    <3> QED BY <1>2, <1>3, <2>1, <3>1 DEF HandleAt, Served
  <2> QED BY <1>1, <1>2, <1>3, <2>1, <2>2, <2>3 DEF HandleAt, Backed, Scoped, Ended
<1> QED BY <1>5, <1>6, <1>7, <1>8, <1>9

LEMMA RemovingHandle ==
    ASSUME TypeOK, ServiceInv, JoinInv, MachineInv, HandleInv, NEW i \in Calls, Continue(i),
           NEW c \in Conversations, c = conversation[i],
           SessionDeleted(i) \/ DeletedClosed(i) \/ InactiveDeleted(i)
    PROVE  HandleAt(c)'
<1>1. OnlyCall(i) /\ UNCHANGED <<operation, conversation, target, service>>
  BY ContinueShape DEF requestVars, shutdownVars
<1>2. /\ RuntimeDown' = RuntimeDown /\ HandleAt(c) /\ RemovalTried(c) /\ RemovalTried(c)'
      /\ stage[i] \in RemoveStages
  <2>1. operation[i] = "remove" /\ stage[i] \in RemoveStages
    BY DEF SessionDeleted, DeletedClosed, InactiveDeleted, MachineInv, StageInv, RemoveStages
  <2> QED BY <1>1, <2>1 DEF RuntimeDown, HandleInv, RemovalTried
<1>3. sessions \in [Conversations -> MaybeCall] /\ opening \in [Conversations -> MaybeCall]
      /\ activeHandles \in [Conversations -> MaybeCall] /\ listeners \in [Conversations -> {"none", "empty", "service"}]
      /\ actor \in [Calls -> {"none", "starting", "running", "failed", "closing", "closed"}]
      /\ workspace \in [Conversations -> Workspaces \cup {NoWorkspace}]
  BY TypeParts DEF RuntimeTypes, MapTypes, AgentTypes, CatalogTypes
<1>4. Scoped(c)' /\ Served(c)'
  BY <1>2 DEF Scoped, Served
<1>5. Ended(c)'
  <2>1. sessions'[c] = sessions[c] \/ sessions'[c] = None
    BY <1>3 DEF SessionDeleted, TakeSession, DeletedClosed, InactiveDeleted
  <2> QED BY <1>1, <1>2, <2>1 DEF HandleAt, Ended
<1>6. Backed(c)'
  <2>1. CASE SessionDeleted(i)
    <3>1. UNCHANGED <<workspace, restoreFailed, activeHandles>>
      BY <2>1 DEF SessionDeleted, catalogVars
    <3>2. CASE UNCHANGED <<sessions, actor, listeners, configuredToolScopes>>
      BY <1>1, <1>2, <3>1, <3>2 DEF HandleAt, Backed
    <3>3. CASE sessions[c] # None /\ \E s \in CloseStages : TakeSession(i, c, s)
      <4>1. PICK h \in Calls : h = sessions[c]
        BY <3>3, NamedCalls
      <4>2. sessions'[c] = None /\ actor'[h] = "closing"
        BY <1>3, <3>3, <4>1 DEF TakeSession
      <4> QED BY <1>1, <1>2, <3>1, <3>3, <4>1, <4>2 DEF HandleAt, Backed
    <3>4. CASE sessions[c] = None /\ UNCHANGED <<sessions, actor>>
      BY <1>1, <1>2, <3>1, <3>4 DEF HandleAt, Backed
    <3> QED BY <2>1, <3>2, <3>3, <3>4 DEF SessionDeleted, CloseStages
  <2>2. CASE DeletedClosed(i) \/ InactiveDeleted(i)
    <3>1. CASE RemoveRow(i, c)
      BY <1>3, <3>1 DEF RemoveRow, Backed
    <3>2. CASE UNCHANGED <<catalogVars, activeHandles, listeners>>
      <4>1. /\ sessions' = sessions
            /\ \/ actor' = actor
               \/ /\ actor' = [actor EXCEPT ![peer[i]] = "closed"]
                  /\ actor[peer[i]] \in {"closing", "closed"}
        BY <2>2 DEF DeletedClosed, InactiveDeleted, agentVars, MachineInv, StageInv, CloseStages
      <4>2. activeHandles[c] # None => \/ actor'[activeHandles[c]] = actor[activeHandles[c]]
                                       \/ /\ actor[activeHandles[c]] \in {"closing", "closed"}
                                          /\ actor'[activeHandles[c]] \in {"closing", "closed"}
        BY <1>3, <4>1, NamedCalls
      <4>3. UNCHANGED <<workspace, restoreFailed, activeHandles, listeners, sessions, target>>
        BY <1>1, <3>2, <4>1 DEF catalogVars
      <4>4. ASSUME activeHandles[c] # None
            PROVE  /\ workspace[c] = target[activeHandles[c]] /\ c \notin restoreFailed
                   /\ \/ /\ sessions[c] = activeHandles[c] /\ actor'[sessions[c]] \in Opened
                         /\ listeners[c] = "service"
                      \/ sessions[c] = None /\ actor'[activeHandles[c]] \in {"closing", "closed"}
        BY <1>2, <4>2, <4>4 DEF HandleAt, Backed, Opened
      <4> QED BY <1>2, <4>3, <4>4 DEF Backed
    <3> QED BY <2>2, <3>1, <3>2 DEF DeletedClosed, InactiveDeleted
  <2> QED BY <2>1, <2>2
<1> QED BY <1>4, <1>5, <1>6 DEF HandleAt

LEMMA BeginHandle ==
    ASSUME TypeOK, ServiceInv, MachineInv, HandleInv, NEW i \in Calls, BeginStep(i)
    PROVE  HandleInv'
<1> SUFFICES ASSUME NEW c \in Conversations  PROVE HandleAt(c)'
  BY DEF HandleInv
<1>1. OnlyCall(i) /\ conversation[i] = NoConversation /\ operation[i] = "none"
      /\ \A j \in Calls \ {i} : target'[j] = target[j]
  BY BeginShape
<1>2. UNCHANGED <<workspace, restoreFailed, activeHandles, sessions, opening, listeners, actor, service,
                  configuredToolScopes>>
  BY BeginShape DEF InRuntime, catalogVars, runtimeVars, shutdownVars, agentVars
<1>3. RemovalTried(c) => RemovalTried(c)'
  BY <1>1, RemovalsStay
<1>4. /\ activeHandles[c] # None => activeHandles[c] \in Calls \ {i}
      /\ sessions[c] # None => sessions[c] \in Calls \ {i}
  BY <1>1, NamedCalls, NoneAssumption
<1>5. RuntimeDown' = RuntimeDown
  BY <1>2 DEF RuntimeDown
<1> QED BY <1>1, <1>2, <1>3, <1>4, <1>5, HandleStays DEF HandleInv, OnlyCall

LEMMA ShutdownHandle ==
    ASSUME TypeOK, ServiceInv, MachineInv, HandleInv,
           Shutdown \/ ShutdownRuntime \/ ShutdownEnds \/ \E d \in Conversations : ShutdownSession(d)
    PROVE  HandleInv'
<1> SUFFICES ASSUME NEW c \in Conversations  PROVE HandleAt(c)'
  BY DEF HandleInv
<1>1. /\ UNCHANGED <<workspace, restoreFailed, opening, stage, target, operation, conversation>>
      /\ RemovalTried(c) => RemovalTried(c)'
  BY DEF Shutdown, ShutdownRuntime, ShutdownEnds, ShutdownSession, catalogVars, runtimeVars, stageVars,
         requestVars, RemovalTried
<1>2. HandleAt(c)
  BY DEF HandleInv
<1>3. CASE Shutdown \/ ShutdownRuntime
  <2>1. /\ UNCHANGED <<activeHandles, sessions, listeners, configuredToolScopes, actor>>
        /\ RuntimeDown => RuntimeDown'
        /\ service' # "closed"
    BY <1>3 DEF Shutdown, ShutdownRuntime, mapVars, runtimeVars, agentVars, RuntimeDown
  <2> QED BY <1>1, <1>2, <2>1, HandleStays
<1>4. CASE ShutdownEnds
  <2>1. activeHandles'[c] = None /\ sessions'[c] = None /\ RuntimeDown'
    BY <1>4 DEF ShutdownEnds, RuntimeDown
  <2> QED BY <2>1 DEF HandleAt, Backed, Scoped, Served, Ended
<1>5. ASSUME NEW d \in Conversations, ShutdownSession(d)  PROVE HandleAt(c)'
  <2>1. PICK h \in Calls : h = sessions[d] /\ conversation[h] = d
    BY <1>5, NamedCalls DEF ShutdownSession
  <2>2. /\ UNCHANGED <<activeHandles, service>> /\ service = "runtime" /\ RuntimeDown'
        /\ actor' = [actor EXCEPT ![h] = "closed"] /\ sessions' = [sessions EXCEPT ![d] = None]
        /\ listeners' = [listeners EXCEPT ![d] = "none"] /\ configuredToolScopes' = configuredToolScopes \ {d}
    BY <1>5, <2>1 DEF ShutdownSession, OpeningsSettled, mapVars, shutdownVars, RuntimeDown
  <2>3. sessions \in [Conversations -> MaybeCall] /\ listeners \in [Conversations -> {"none", "empty", "service"}]
        /\ actor \in [Calls -> {"none", "starting", "running", "failed", "closing", "closed"}]
    BY TypeParts DEF RuntimeTypes, AgentTypes
  <2>4. Scoped(c)' /\ Served(c)' /\ Ended(c)'
    BY <2>2 DEF Scoped, Served, Ended
  <2>5. Backed(c)'
    <3>1. CASE c = d
      BY <1>1, <1>2, <2>1, <2>2, <2>3, <3>1, NamedCalls DEF HandleAt, Backed
    <3>2. CASE c # d
      <4>1. activeHandles[c] # None => activeHandles[c] \in Calls \ {h}
        BY <2>1, <3>2, NamedCalls
      <4>2. sessions'[c] = sessions[c] /\ listeners'[c] = listeners[c]
            /\ (c \in configuredToolScopes => c \in configuredToolScopes')
        BY <2>2, <2>3, <3>2
      <4> QED BY <1>1, <1>2, <2>2, <2>3, <4>1, <4>2 DEF HandleAt, Backed
    <3> QED BY <3>1, <3>2
  <2> QED BY <2>4, <2>5 DEF HandleAt
<1> QED BY <1>3, <1>4, <1>5

(* The service keeps the handle of a session that is lost. *)
LEMMA LostHandle ==
    ASSUME TypeOK, ServiceInv, MachineInv, HandleInv, NEW i \in Calls, SessionLost(i)
    PROVE  HandleInv'
<1> SUFFICES ASSUME NEW c \in Conversations  PROVE HandleAt(c)'
  BY DEF HandleInv
<1>1. /\ UNCHANGED <<workspace, restoreFailed, activeHandles, sessions, opening, listeners, service,
                     configuredToolScopes, stage, target, operation, conversation>>
      /\ actor[i] = "running"
  BY DEF SessionLost, catalogVars, mapVars, runtimeVars, shutdownVars, requestVars, stageVars
<1>2. \A j \in Calls : actor'[j] = IF j = i THEN "failed" ELSE actor[j]
  BY TypeParts DEF SessionLost, AgentTypes
<1>3. activeHandles[c] # None =>
        \/ actor'[activeHandles[c]] = actor[activeHandles[c]]
        \/ actor[activeHandles[c]] \in Opened /\ actor'[activeHandles[c]] \in Opened
  BY <1>1, <1>2, NamedCalls DEF Opened
<1>4. RuntimeDown' = RuntimeDown /\ (RemovalTried(c) => RemovalTried(c)')
  BY <1>1 DEF RuntimeDown, RemovalTried
<1> QED BY <1>1, <1>3, <1>4, HandleStays DEF HandleInv

LEMMA HandlesKept ==
    ASSUME TypeOK, ServiceInv, JoinInv, MachineInv, HandleInv, [Next]_vars
    PROVE  HandleInv'
<1>1. ASSUME NEW i \in Calls, Continue(i)  PROVE HandleInv'
  <2> SUFFICES ASSUME NEW d \in Conversations  PROVE HandleAt(d)'
    BY DEF HandleInv
  <2>1. PICK c \in Conversations : c = conversation[i]
    BY <1>1, ContinueShape, HaveConversations
  <2>2. CASE d # c
    BY <1>1, <2>1, <2>2, HandleElsewhere
  <2>3. CASE d = c
    <3>1. CASE HostToolsResolved(i) \/ SessionOpened(i) \/ SessionNotOpened(i) \/ CleanUp(i) \/ CleanedUp(i)
      BY <1>1, <2>1, <2>3, <3>1, OpeningHandle
    <3>2. CASE SessionDeleted(i) \/ DeletedClosed(i) \/ InactiveDeleted(i)
      BY <1>1, <2>1, <2>3, <3>2, RemovingHandle
    <3>3. CASE \/ RegisterRelocation(i) \/ BeginRelocation(i) \/ Joined(i) \/ Prompt(i) \/ Prompted(i)
               \/ DeleteConversation(i)
      <4>1. /\ UNCHANGED <<workspace, restoreFailed, activeHandles, sessions, opening, listeners, actor,
                           configuredToolScopes>>
            /\ stage[i] # "cleanup"
        BY <3>3 DEF RegisterRelocation, BeginRelocation, Joined, Prompt, Prompted, DeleteConversation,
                    InRuntime, catalogVars, mapVars, runtimeVars, agentVars
      <4> QED BY <1>1, <2>1, <2>3, <4>1, QuietHandle
    <3> QED BY <1>1, <3>1, <3>2, <3>3 DEF Continue
  <2> QED BY <2>2, <2>3
<1>2. CASE UNCHANGED vars
  <2>1. UNCHANGED <<workspace, restoreFailed, activeHandles, sessions, opening, listeners, configuredToolScopes,
                    service, actor, stage, target, operation, conversation>>
    BY <1>2 DEF vars, catalogVars, mapVars, shutdownVars, runtimeVars, agentVars, requestVars, stageVars
  <2> QED BY <2>1 DEF HandleInv, HandleAt, Backed, Scoped, Served, Ended, RemovalTried, RuntimeDown
<1> QED BY <1>1, <1>2, BeginHandle, ShutdownHandle, LostHandle, StepsOfNext

LEMMA RuntimeStarts == Init => MachineInv /\ HandleInv
BY CallsAreNumbers DEF Init, MachineInv, StageInv, ActorInv, HandleInv, HandleAt, Backed, Scoped, Served, Ended,
   RemoveStages, EarlyStages, CloseStages, Opened

RuntimeInv == TypeOK /\ ServiceInv /\ JoinInv /\ MachineInv /\ HandleInv

LEMMA RuntimeInvHolds == Spec => []RuntimeInv
<1>1. TypeOK /\ TypeOK' /\ (ServiceInv /\ JoinInv) /\ (MachineInv /\ HandleInv) /\ [Next]_vars
        => (MachineInv /\ HandleInv)'
  BY MachineKept, HandlesKept
<1>2. TypeOK /\ (ServiceInv /\ JoinInv) /\ (MachineInv /\ HandleInv) <=> RuntimeInv
  BY DEF RuntimeInv
<1> QED BY <1>1, <1>2, RuntimeStarts, ServiceTypeCorrect, ServiceInvHolds, PTL DEF Spec

(* A handle the service remembers names the workspace of the row and the    *)
(* session the runtime has for it, which runs or lost its connection or its *)
(* attachment by itself (handleConnectionClosed, handleAttachmentClosed);   *)
(* only a removal, or the shutdown of the runtime, takes it away first      *)
(* (closeConversationResources, deleteConversation, shutdown).              *)
THEOREM HandlesAreBacked == Spec => []HandleIsBacked
<1>1. RuntimeInv => HandleIsBacked
  BY DEF RuntimeInv, HandleInv, HandleAt, Backed, HandleIsBacked
<1> QED BY <1>1, RuntimeInvHolds, PTL

(* When no call is under way no session is left over: each one that was not *)
(* closed, running or lost by itself, is the session the service knows the  *)
(* conversation by, unless a removal of the conversation was tried.         *)
THEOREM NoSessionIsStray == Spec => []NoStraySession
<1>1. RuntimeInv => NoStraySession
  <2> SUFFICES ASSUME RuntimeInv, Quiet, service # "runtime", NEW i \in Calls, actor[i] # "none"
               PROVE  \/ actor[i] = "closed"
                      \/ /\ actor[i] \in Opened /\ service # "closed"
                         /\ sessions[conversation[i]] = i
                         /\ activeHandles[conversation[i]] = i \/ RemovalTried(conversation[i])
    BY DEF NoStraySession
  <2> USE DEF RuntimeInv
  <2>1. conversation[i] \in Conversations
    BY HaveConversations
  <2>2. actor[i] # "starting" /\ actor[i] # "closing"
    BY DEF Quiet, MachineInv, ActorInv, CloseStages
  <2>3. actor[i] \in Opened => sessions[conversation[i]] = i /\ i # None
    BY CallsAreNumbers DEF MachineInv, ActorInv
  <2>4. actor[i] \in Opened => service # "closed" /\ ~RuntimeDown /\ stage[i] # "cleanup"
    BY <2>1, <2>3 DEF HandleInv, HandleAt, Ended, RuntimeDown, Quiet
  <2>5. actor[i] \in Opened => activeHandles[conversation[i]] = i \/ RemovalTried(conversation[i])
    BY <2>1, <2>3, <2>4 DEF HandleInv, HandleAt, Served
  <2> QED BY <2>2, <2>3, <2>4, <2>5, TypeParts DEF AgentTypes, Opened
<1> QED BY <1>1, RuntimeInvHolds, PTL

-----------------------------------------------------------------------------
(* The keys of the rows and of the creations under way.                     *)

RowKeys ==
    /\ \A c \in Conversations : ~Cataloged(c) => idempotencyKey[c] = NoKey
    /\ \A c, d \in Conversations :
         idempotencyKey[c] = idempotencyKey[d] /\ idempotencyKey[c] # NoKey => c = d
CallKeys ==
    \A i \in Calls : operation[i] = "create" =>
        /\ key[i] \in Keys
        /\ Opens(i) => /\ pendingCreations[key[i]] = i
                       /\ \A d \in Conversations : idempotencyKey[d] = key[i] => d = conversation[i]
PendingKeys ==
    \A k \in Keys : pendingCreations[k] # None =>
        LET j == pendingCreations[k] IN operation[j] = "create" /\ key[j] = k /\ Unsettled(j)
KeyInv == RowKeys /\ CallKeys /\ PendingKeys

(* A call goes on: it lets go of its key when it settles, and no row gets   *)
(* another key.                                                             *)
LEMMA KeysStay ==
    ASSUME TypeOK, KeyInv, NEW i \in Calls, OnlyCall(i), UNCHANGED <<operation, conversation, key>>,
           \A j \in Calls \ {i} : outcome'[j] = outcome[j],
           \/ UNCHANGED <<pendingCreations, outcome>>
           \/ pendingCreations' = Without(pendingCreations, i) /\ ~Opens(i)',
           operation[i] = "create" /\ Opens(i)' => Opens(i),
           \A d \in Conversations : \/ idempotencyKey'[d] = NoKey
                                    \/ idempotencyKey'[d] = idempotencyKey[d] /\ (Cataloged(d) => Cataloged(d)')
    PROVE  KeyInv'
<1>1. /\ \A k \in Keys : pendingCreations[k] \in MaybeCall
      /\ \A k \in Keys : \/ pendingCreations'[k] = pendingCreations[k]
                         \/ pendingCreations'[k] = None /\ pendingCreations[k] = i /\ ~Opens(i)'
      /\ UNCHANGED <<pendingCreations, outcome>> \/ \A k \in Keys : pendingCreations'[k] # i
  BY TypeParts, CallsAreNumbers DEF MapTypes, Without
<1>2. \A j \in Calls \ {i} : Opens(j)' <=> Opens(j)
  BY DEF Opens, OnlyCall
<1>3. RowKeys'
  BY DEF KeyInv, RowKeys
<1>4. CallKeys'
  <2> SUFFICES ASSUME NEW j \in Calls, operation[j] = "create"
               PROVE  /\ key[j] \in Keys
                      /\ Opens(j)' => /\ pendingCreations'[key[j]] = j
                                      /\ \A d \in Conversations : idempotencyKey'[d] = key[j] => d = conversation[j]
    BY DEF CallKeys
  <2>1. key[j] \in Keys /\ (Opens(j)' => Opens(j))
    BY <1>2 DEF KeyInv, CallKeys
  <2> QED BY <1>1, <2>1, NoneAssumption, CallsAreNumbers DEF KeyInv, CallKeys
<1>5. PendingKeys'
  BY <1>1 DEF KeyInv, PendingKeys, Unsettled, MaybeCall
<1> QED BY <1>3, <1>4, <1>5 DEF KeyInv

(* A creation writes the row of its key. *)
LEMMA KeysWritten ==
    ASSUME TypeOK, ServiceInv, KeyInv, NEW i \in Calls, OnlyCall(i), UNCHANGED <<operation, conversation, key>>,
           NEW c \in Conversations, c = conversation[i], Opens(i), CatalogOpened(i, c), Settle(i, operation[i], "ok")
    PROVE  KeyInv'
<1>1. /\ \A j \in Calls \ {i} : outcome'[j] = outcome[j]
      /\ pendingCreations' = Without(pendingCreations, i) /\ ~Opens(i)'
      /\ workspace \in [Conversations -> Workspaces \cup {NoWorkspace}]
      /\ idempotencyKey \in [Conversations -> Keys \cup {NoKey}]
      /\ target[i] \in Workspaces
  BY TypeParts DEF Settle, StageTypes, Opens, CatalogTypes, ServiceInv, RecordInv
<1>2. \A d \in Conversations : Cataloged(d) => Cataloged(d)'
  BY <1>1, NoneAssumption DEF CatalogOpened, Cataloged
<1>3. CASE ~IsCreation(i)
  BY <1>1, <1>2, <1>3, KeysStay DEF CatalogOpened
<1>4. CASE IsCreation(i)
  <2>1. /\ \A d \in Conversations : idempotencyKey'[d] = IF d = c THEN key[i] ELSE idempotencyKey[d]
        /\ \A d \in Conversations : idempotencyKey[d] # key[i]
        /\ operation[i] = "create" /\ key[i] \in Keys /\ Cataloged(c)'
    BY <1>1, <1>4, NoneAssumption DEF CatalogOpened, IsCreation, KeyInv, RowKeys, CallKeys, Cataloged
  <2>2. RowKeys'
    BY <1>2, <2>1 DEF KeyInv, RowKeys
  <2>3. \A k \in Keys : \/ pendingCreations'[k] = pendingCreations[k] /\ pendingCreations[k] # i
                        \/ pendingCreations'[k] = None /\ pendingCreations[k] = i
    BY <1>1, TypeParts DEF MapTypes, Without
  <2>4. CallKeys'
    <3> SUFFICES ASSUME NEW j \in Calls, operation[j] = "create"
                 PROVE  /\ key[j] \in Keys
                        /\ Opens(j)' => /\ pendingCreations'[key[j]] = j
                                        /\ \A d \in Conversations : idempotencyKey'[d] = key[j] => d = conversation[j]
      BY DEF CallKeys
    <3>1. key[j] \in Keys
      BY DEF KeyInv, CallKeys
    <3>2. Opens(j)' => Opens(j) /\ j # i
      BY <1>1 DEF Opens, OnlyCall
    <3>3. Opens(j) /\ j # i => pendingCreations'[key[j]] = j /\ key[j] # key[i]
      BY <2>1, <2>3, <3>1 DEF KeyInv, CallKeys
    <3> QED BY <2>1, <3>1, <3>2, <3>3 DEF KeyInv, CallKeys
  <2>5. PendingKeys'
    <3>1. \A k \in Keys : pendingCreations[k] \in MaybeCall
      BY TypeParts DEF MapTypes
    <3> QED BY <1>1, <2>3, <3>1 DEF KeyInv, PendingKeys, Unsettled, MaybeCall
  <2> QED BY <2>2, <2>4, <2>5 DEF KeyInv
<1> QED BY <1>3, <1>4

(* A call begins: it creates nothing, or takes a key nobody creates under.  *)
LEMMA KeysTaken ==
    ASSUME TypeOK, KeyInv, NEW i \in Calls, OnlyCall(i), operation[i] = "none",
           \A j \in Calls \ {i} : key'[j] = key[j] /\ outcome'[j] = outcome[j],
           UNCHANGED <<workspace, idempotencyKey>>,
           operation'[i] = "create" => key'[i] \in Keys,
           \/ UNCHANGED pendingCreations /\ ~(operation'[i] = "create" /\ Opens(i)')
           \/ /\ operation'[i] = "create" /\ pendingCreations[key'[i]] = None /\ outcome'[i] = "none"
              /\ pendingCreations' = [pendingCreations EXCEPT ![key'[i]] = i]
              /\ Opens(i)' => \A d \in Conversations : idempotencyKey[d] = key'[i] => d = conversation'[i]
    PROVE  KeyInv'
<1>1. \A k \in Keys : /\ pendingCreations[k] \in MaybeCall /\ pendingCreations[k] # i
                      /\ pendingCreations'[k] = pendingCreations[k] \/ (pendingCreations'[k] = i /\ k = key'[i])
  BY TypeParts, CallsAreNumbers DEF MapTypes, KeyInv, PendingKeys
<1>2. \A j \in Calls \ {i} : (Opens(j)' <=> Opens(j)) /\ operation'[j] = operation[j] /\ conversation'[j] = conversation[j]
  BY DEF Opens, OnlyCall
<1>3. RowKeys'
  BY DEF KeyInv, RowKeys, Cataloged
<1>4. CallKeys'
  <2> SUFFICES ASSUME NEW j \in Calls, operation'[j] = "create"
               PROVE  /\ key'[j] \in Keys
                      /\ Opens(j)' => /\ pendingCreations'[key'[j]] = j
                                      /\ \A d \in Conversations : idempotencyKey[d] = key'[j] => d = conversation'[j]
    BY DEF CallKeys
  <2>1. CASE j = i
    BY <2>1, TypeParts DEF MapTypes
  <2>2. CASE j # i
    <3>1. /\ key[j] \in Keys /\ key'[j] = key[j]
          /\ Opens(j)' => /\ pendingCreations[key[j]] = j
                          /\ \A d \in Conversations : idempotencyKey[d] = key[j] => d = conversation'[j]
      BY <1>2, <2>2 DEF KeyInv, CallKeys
    <3>2. Opens(j)' => pendingCreations'[key[j]] = j
      BY <1>1, <2>2, <3>1, TypeParts, CallsAreNumbers DEF MapTypes
    <3> QED BY <3>1, <3>2
  <2> QED BY <2>1, <2>2
<1>5. PendingKeys'
  <2> SUFFICES ASSUME NEW k \in Keys, pendingCreations'[k] # None
               PROVE  /\ operation'[pendingCreations'[k]] = "create" /\ key'[pendingCreations'[k]] = k
                      /\ outcome'[pendingCreations'[k]] = "none"
    BY DEF PendingKeys, Unsettled
  <2>1. CASE pendingCreations'[k] = pendingCreations[k]
    BY <1>1, <1>2, <2>1 DEF KeyInv, PendingKeys, Unsettled, MaybeCall
  <2>2. CASE pendingCreations'[k] = i
    BY <1>1, <2>2
  <2> QED BY <1>1, <2>1, <2>2
<1> QED BY <1>3, <1>4, <1>5 DEF KeyInv

LEMMA NothingToLetGo ==
    ASSUME TypeOK, KeyInv, NEW i \in Calls, operation[i] = "none"
    PROVE  Without(pendingCreations, i) = pendingCreations
<1>1. pendingCreations \in [Keys -> MaybeCall] /\ \A k \in Keys : pendingCreations[k] # i
  BY TypeParts, CallsAreNumbers DEF MapTypes, KeyInv, PendingKeys
<1> QED BY <1>1 DEF Without

LEMMA OutcomesStay ==
    ASSUME TypeOK, NEW i \in Calls, BeginStep(i) \/ Continue(i)
    PROVE  \A j \in Calls \ {i} : outcome'[j] = outcome[j]
<1>1. \/ outcome' = outcome \/ \E op, s : Settle(i, op, s)
  <2>1. CASE BeginStep(i)
    BY <2>1 DEF BeginStep, CreateConversation, RestoreConversation, SendMessage, ActivateConversation,
         RemoveConversation, RelocateConversation, Activate
  <2>2. CASE Continue(i)
    BY <2>2 DEF Continue, RegisterRelocation, BeginRelocation, Joined, HostToolsResolved, SessionOpened,
         SessionNotOpened, CleanUp, CleanedUp, FailOpening, Prompt, Prompted, DeleteConversation, SessionDeleted,
         DeletedClosed, InactiveDeleted
  <2> QED BY <2>1, <2>2
<1> QED BY <1>1, TypeParts DEF Settle, StageTypes

LEMMA BeginKeys ==
    ASSUME TypeOK, ServiceInv, KeyInv, NEW i \in Calls, BeginStep(i)
    PROVE  KeyInv'
<1>1. /\ OnlyCall(i) /\ operation[i] = "none" /\ \A j \in Calls \ {i} : key'[j] = key[j]
      /\ \A j \in Calls \ {i} : outcome'[j] = outcome[j]
      /\ UNCHANGED <<workspace, idempotencyKey>> /\ Without(pendingCreations, i) = pendingCreations
      /\ operation[i] = "none" /\ outcome[i] = "none"
  BY BeginShape, OutcomesStay, NothingToLetGo DEF InRuntime, catalogVars, ServiceInv, CallInv
<1>2. CASE \E k \in Keys, w \in Workspaces : CreateConversation(i, k, w)
  <2>1. PICK k \in Keys, w \in Workspaces, c \in Conversations :
          /\ Begins(i, "create") /\ Request(i, c, w, k)
          /\ \/ /\ Go(i, "joined") /\ UNCHANGED <<pendingCreations, outcome>>
             \/ Settle(i, "create", "failed")
             \/ /\ pendingCreations[k] = None /\ idempotencyKey[c] = k
                /\ Activate(i, "create", c, [pendingCreations EXCEPT ![k] = i])
             \/ /\ pendingCreations[k] = None /\ \A d \in Conversations : Cataloged(d) => idempotencyKey[d] # k
                /\ Go(i, "resolve") /\ pendingCreations' = [pendingCreations EXCEPT ![k] = i] /\ UNCHANGED outcome
    BY <1>2 DEF CreateConversation
  <2>2. operation'[i] = "create" /\ key'[i] = k /\ conversation'[i] = c /\ stage \in [Calls -> Stages]
    BY <2>1, TypeParts DEF Begins, Request, RequestTypes, StageTypes
  <2>3. CASE pendingCreations' = pendingCreations /\ stage'[i] \in {"joined", "activated", "done"}
    BY <1>1, <2>2, <2>3, KeysTaken DEF Opens
  <2>4. CASE /\ pendingCreations[k] = None /\ pendingCreations' = [pendingCreations EXCEPT ![k] = i]
             /\ UNCHANGED outcome
             /\ Opens(i)' => \A d \in Conversations : idempotencyKey[d] = k => d = c
    BY <1>1, <2>2, <2>4, KeysTaken
  <2>5. CASE Go(i, "joined") /\ UNCHANGED <<pendingCreations, outcome>>
    BY <2>2, <2>3, <2>5 DEF Go
  <2>6. ASSUME NEW op, NEW s \in {"ok", "failed"}, Settle(i, op, s)
        PROVE  pendingCreations' = pendingCreations /\ stage'[i] \in {"joined", "activated", "done"}
    BY <1>1, <2>2, <2>6 DEF Settle
  <2>7. CASE /\ pendingCreations[k] = None /\ idempotencyKey[c] = k
             /\ Activate(i, "create", c, [pendingCreations EXCEPT ![k] = i])
    <3>1. \A d \in Conversations : idempotencyKey[d] = k => d = c
      BY <2>7, NoneAssumption DEF KeyInv, RowKeys
    <3> QED BY <2>3, <2>4, <2>6, <2>7, <3>1 DEF Activate
  <2>8. CASE /\ pendingCreations[k] = None /\ \A d \in Conversations : Cataloged(d) => idempotencyKey[d] # k
             /\ Go(i, "resolve") /\ pendingCreations' = [pendingCreations EXCEPT ![k] = i] /\ UNCHANGED outcome
    <3>1. \A d \in Conversations : idempotencyKey[d] # k
      BY <2>8, NoneAssumption DEF KeyInv, RowKeys
    <3> QED BY <2>4, <2>8, <3>1
  <2> QED BY <2>1, <2>3, <2>5, <2>6, <2>7, <2>8
<1>3. CASE \E c \in Conversations :
             \/ RestoreConversation(i, c) \/ SendMessage(i, c) \/ RemoveConversation(i, c)
             \/ \E w \in Workspaces : RelocateConversation(i, c, w)
  <2>1. operation'[i] # "create"
    BY <1>3, TypeParts DEF RestoreConversation, SendMessage, ActivateConversation, RemoveConversation,
         RelocateConversation, Begins, RequestTypes
  <2>2. pendingCreations' = pendingCreations
    BY <1>1, <1>3 DEF RestoreConversation, SendMessage, ActivateConversation, RemoveConversation,
         RelocateConversation, Activate, Settle
  <2> QED BY <1>1, <2>1, <2>2, KeysTaken
<1> QED BY <1>2, <1>3 DEF BeginStep

LEMMA ContinueKeys ==
    ASSUME TypeOK, ServiceInv, JoinInv, KeyInv, NEW i \in Calls, Continue(i)
    PROVE  KeyInv'
<1>1. /\ OnlyCall(i) /\ UNCHANGED <<operation, conversation, key>>
      /\ \A j \in Calls \ {i} : outcome'[j] = outcome[j]
      /\ stage \in [Calls -> Stages]
  BY ContinueShape, OutcomesStay, TypeParts DEF requestVars, StageTypes
<1> DEFINE Written == \A d \in Conversations : \/ idempotencyKey'[d] = NoKey
                                              \/ /\ idempotencyKey'[d] = idempotencyKey[d]
                                                 /\ Cataloged(d) => Cataloged(d)'
<1>2. ASSUME NEW op, NEW s \in {"ok", "failed"}, Settle(i, op, s), Written
      PROVE  KeyInv'
  <2>1. pendingCreations' = Without(pendingCreations, i) /\ ~Opens(i)'
    BY <1>1, <1>2 DEF Settle, Opens
  <2> QED BY <1>1, <1>2, <2>1, KeysStay
<1>3. ASSUME UNCHANGED <<pendingCreations, outcome>>, Written, operation[i] = "create" /\ Opens(i)' => Opens(i)
      PROVE  KeyInv'
  BY <1>1, <1>3, KeysStay
<1>4. ASSUME UNCHANGED <<workspace, idempotencyKey>>  PROVE Written
  BY <1>4 DEF Cataloged
<1> HIDE DEF Written
<1>5. CASE RegisterRelocation(i) \/ BeginRelocation(i)
  <2>1. UNCHANGED <<workspace, idempotencyKey>> /\ operation[i] = "relocate"
    BY <1>5 DEF RegisterRelocation, BeginRelocation, InRuntime, catalogVars, ServiceInv, CallInv
  <2>2. (\E op : \E s \in {"ok", "failed"} : Settle(i, op, s)) \/ UNCHANGED <<pendingCreations, outcome>>
    BY <1>5 DEF RegisterRelocation, BeginRelocation
  <2> QED BY <1>2, <1>3, <1>4, <2>1, <2>2
<1>6. CASE Joined(i)
  <2>1. outcome[peer[i]] \in {"ok", "failed"}
    BY <1>6, CallsAreNumbers DEF Joined, Settled, ServiceInv, ServiceTypes, JoinInv
  <2> QED BY <1>2, <1>4, <1>6, <2>1 DEF Joined, InRuntime, catalogVars
<1>7. CASE HostToolsResolved(i) \/ SessionNotOpened(i)
  <2>1. UNCHANGED <<workspace, idempotencyKey, pendingCreations, outcome>> /\ Opens(i)
    BY <1>7 DEF HostToolsResolved, SessionNotOpened, catalogVars, mapVars, Opens
  <2> QED BY <1>3, <1>4, <2>1
<1>8. CASE SessionOpened(i)
  <2>1. Opens(i)
    BY <1>8 DEF SessionOpened, Opens
  <2>2. CASE CatalogOpened(i, conversation[i]) /\ Settle(i, operation[i], "ok")
    BY <1>1, <2>1, <2>2, KeysWritten, OpensHasConversation DEF ServiceInv, Opens
  <2>3. CASE UNCHANGED <<catalogVars, mapVars, outcome>>
    BY <1>3, <1>4, <2>1, <2>3 DEF catalogVars, mapVars
  <2> QED BY <1>8, <2>2, <2>3 DEF SessionOpened
<1>9. CASE CleanUp(i) \/ CleanedUp(i)
  <2>1. CASE FailOpening(i)
    BY <1>2, <1>4, <2>1 DEF FailOpening
  <2>2. CASE UNCHANGED <<catalogVars, pendingCreations, outcome>> /\ stage[i] = "cleanup"
    BY <1>3, <1>4, <2>2 DEF catalogVars, Opens
  <2> QED BY <1>9, <2>1, <2>2 DEF CleanUp, CleanedUp
<1>10. CASE \/ Prompt(i) \/ Prompted(i) \/ DeleteConversation(i) \/ SessionDeleted(i)
            \/ DeletedClosed(i) \/ InactiveDeleted(i)
  <2>1. UNCHANGED <<pendingCreations, outcome>>
    BY <1>10 DEF Prompt, Prompted, DeleteConversation, SessionDeleted, DeletedClosed, InactiveDeleted, mapVars
  <2>2. \E s \in Stages \ OpenStages : Go(i, s)
    BY <1>10 DEF Prompt, Prompted, DeleteConversation, SessionDeleted, DeletedClosed, InactiveDeleted, RemoveRow,
                 TakeSession, Stages, OpenStages
  <2>3. ~Opens(i)'
    BY <1>1, <2>2 DEF Go, Opens, OpenStages
  <2>4. CASE UNCHANGED <<workspace, idempotencyKey>>
    BY <1>3, <1>4, <2>1, <2>3, <2>4
  <2>5. CASE RemoveRow(i, conversation[i])
    <3>1. Written
      BY <2>5, TypeParts DEF RemoveRow, CatalogTypes, Written, Cataloged, catalogVars
    <3> QED BY <1>3, <2>1, <2>3, <3>1
  <2> QED BY <1>10, <2>4, <2>5 DEF Prompt, Prompted, DeleteConversation, SessionDeleted, DeletedClosed,
                                   InactiveDeleted, InRuntime, catalogVars
<1> QED BY <1>5, <1>6, <1>7, <1>8, <1>9, <1>10 DEF Continue

LEMMA KeysKept ==
    ASSUME TypeOK, ServiceInv, JoinInv, KeyInv, [Next]_vars
    PROVE  KeyInv'
<1>1. CASE \/ Shutdown \/ ShutdownRuntime \/ ShutdownEnds \/ UNCHANGED vars
           \/ (\E c \in Conversations : ShutdownSession(c)) \/ \E i \in Calls : SessionLost(i)
  <2>1. UNCHANGED <<workspace, idempotencyKey, pendingCreations, operation, conversation, key, stage, outcome>>
    BY <1>1 DEF Shutdown, ShutdownRuntime, ShutdownEnds, ShutdownSession, SessionLost, vars, catalogVars, mapVars, requestVars,
                stageVars
  <2> QED BY <2>1 DEF KeyInv, RowKeys, CallKeys, PendingKeys, Opens, Unsettled, Cataloged
<1> QED BY <1>1, BeginKeys, ContinueKeys, StepsOfNext

(* However often a creation is repeated under one key (createConversation,  *)
(* createConversationOnce), the rows and the creations under way make one   *)
(* conversation of it.                                                      *)
THEOREM KeysNameOneConversation == Spec => []OneConversationPerKey
<1>1. Init => KeyInv
  BY NoneAssumption DEF Init, KeyInv, RowKeys, CallKeys, PendingKeys
<1>2. TypeOK /\ (ServiceInv /\ JoinInv) /\ KeyInv /\ [Next]_vars => KeyInv'
  BY KeysKept
<1>3. KeyInv => OneConversationPerKey
  BY NoneAssumption DEF KeyInv, RowKeys, CallKeys, OneConversationPerKey
<1> QED BY <1>1, <1>2, <1>3, ServiceTypeCorrect, ServiceInvHolds, PTL DEF Spec

-----------------------------------------------------------------------------
(* The waits of calls for one another.                                      *)

(* A call that others may join: it has begun, and when it has itself joined *)
(* a call that one is a restore or a relocation.                            *)
Leads(j) == stage[j] # "idle" /\ (stage[j] = "joined" => peer[j] \in Calls /\ Registered(peer[j]))
WaitInv ==
    /\ \A k \in Keys : pendingCreations[k] # None => Leads(pendingCreations[k])
    /\ \A i \in Calls : stage[i] = "joined" => peer[i] \in Calls /\ Leads(peer[i])
    /\ \A i \in Calls : stage[i] = "previous" /\ peer[i] # None => peer[i] \in Calls /\ Registered(peer[i])
    /\ \A i \in Calls : Registered(i) => operation[i] # "remove" /\ stage[i] # "idle"

LEMMA WaitsStay ==
    ASSUME TypeOK, ServiceInv, WaitInv, NEW i \in Calls, OnlyCall(i),
           \A j \in Calls \ {i} : ticket'[j] = ticket[j],
           ticket'[i] # 0 => operation'[i] # "remove", Registered(i) => ticket'[i] # 0,
           stage'[i] # "idle",
           stage'[i] = "joined" => peer'[i] \in Calls /\ peer'[i] # i /\ Leads(peer'[i]) /\ stage[i] = "idle",
           stage'[i] = "previous" /\ peer'[i] # None => peer'[i] \in Calls /\ Registered(peer'[i]),
           \A k \in Keys : \/ pendingCreations'[k] \in {None, pendingCreations[k]}
                           \/ /\ pendingCreations'[k] = i
                              /\ stage'[i] = "joined" => Registered(peer'[i])
    PROVE  WaitInv'
<1> USE DEF OnlyCall
<1>1. \A j \in Calls : Registered(j) => Registered(j)'
  BY DEF Registered
<1>2. ASSUME NEW j \in Calls, Leads(j)
      PROVE  Leads(j)'
  <2>1. CASE j # i
    BY <1>1, <1>2, <2>1 DEF Leads
  <2>2. CASE j = i
    BY <1>2, <2>2 DEF Leads
  <2> QED BY <2>1, <2>2
<1>3. ASSUME NEW k \in Keys, pendingCreations'[k] # None
      PROVE  \E h \in Calls : h = pendingCreations'[k] /\ Leads(h)'
  <2>1. CASE pendingCreations'[k] = pendingCreations[k]
    <3>1. pendingCreations[k] \in Calls /\ Leads(pendingCreations[k])
      BY <1>3, <2>1, TypeParts DEF WaitInv, MapTypes, MaybeCall
    <3> QED BY <1>2, <2>1, <3>1
  <2>2. CASE pendingCreations'[k] = i /\ (stage'[i] = "joined" => Registered(peer'[i]))
    BY <2>2 DEF Leads, Registered
  <2> QED BY <1>3, <2>1, <2>2
<1>4. ASSUME NEW j \in Calls, stage'[j] = "joined"
      PROVE  \E h \in Calls : h = peer'[j] /\ Leads(h)'
  BY <1>2, <1>4 DEF WaitInv
<1>5. ASSUME NEW j \in Calls, stage'[j] = "previous", peer'[j] # None
      PROVE  \E h \in Calls : h = peer'[j] /\ Registered(h)'
  BY <1>1, <1>5 DEF WaitInv
<1>6. \A j \in Calls : Registered(j)' => operation'[j] # "remove" /\ stage'[j] # "idle"
  BY DEF WaitInv, Registered
<1> QED BY <1>3, <1>4, <1>5, <1>6 DEF WaitInv, Leads, Registered

LEMMA RegisteredPending ==
    ASSUME TypeOK, ServiceInv, NEW c \in Conversations, pendingRestores[c] # None
    PROVE  pendingRestores[c] \in Calls /\ Registered(pendingRestores[c])
BY TypeParts DEF ServiceInv, PendingInv, MapTypes, MaybeCall

LEMMA RegisteredLeads ==
    ASSUME ServiceInv, WaitInv, NEW i \in Calls, Registered(i)
    PROVE  Leads(i)
BY DEF Leads, WaitInv, ServiceInv, CallInv, Registered

LEMMA BeginWaits ==
    ASSUME TypeOK, ServiceInv, WaitInv, KeyInv, NEW i \in Calls, BeginStep(i)
    PROVE  WaitInv'
<1>1. /\ OnlyCall(i) /\ operation[i] = "none" /\ stage[i] = "idle" /\ stage'[i] # "idle"
      /\ Without(pendingCreations, i) = pendingCreations
      /\ ticket[i] = 0 /\ ~Leads(i)
  BY BeginShape, NothingToLetGo DEF ServiceInv, CallInv, Leads
<1>2. /\ stage \in [Calls -> Stages] /\ peer \in [Calls -> MaybeCall] /\ ticket \in [Calls -> Nat]
      /\ pendingCreations \in [Keys -> MaybeCall] /\ operation \in [Calls -> Operations]
  BY TypeParts DEF StageTypes, TicketTypes, MapTypes, RequestTypes
<1> DEFINE Given(k) == pendingCreations' = pendingCreations \/ pendingCreations' = [pendingCreations EXCEPT ![k] = i]
<1>3. ASSUME NEW op \in Operations, NEW c \in Conversations, NEW k, Begins(i, op), op # "remove",
             NEW creations, Activate(i, op, c, creations),
             creations = pendingCreations \/ creations = [pendingCreations EXCEPT ![k] = i]
      PROVE  WaitInv'
  <2>1. operation'[i] = op
    BY <1>2, <1>3 DEF Begins
  <2>2. CASE Settle(i, op, "ok") /\ UNCHANGED <<peer, ticketVars>>
    <3>1. stage'[i] \in {"activated", "done"}
      BY <1>2, <2>2 DEF Settle
    <3> QED BY <1>1, <2>1, <2>2, <3>1, WaitsStay DEF ticketVars, Registered, Settle
  <2>3. CASE /\ pendingRestores[c] # None /\ Go(i, "joined") /\ peer' = [peer EXCEPT ![i] = pendingRestores[c]]
             /\ pendingCreations' = creations /\ UNCHANGED ticketVars
    <3>1. stage'[i] = "joined" /\ peer'[i] = pendingRestores[c]
      BY <1>2, <2>3 DEF Go
    <3>2. peer'[i] \in Calls /\ Registered(peer'[i]) /\ Leads(peer'[i]) /\ peer'[i] # i
      BY <1>1, <2>3, <3>1, RegisteredPending, RegisteredLeads
    <3>3. \A h \in Keys : pendingCreations'[h] \in {pendingCreations[h], i}
      BY <1>2, <1>3, <2>3
    <3> QED BY <1>1, <2>1, <2>3, <3>1, <3>2, <3>3, WaitsStay DEF ticketVars, Registered
  <2>4. CASE Go(i, "resolve") /\ Register(i, c) /\ pendingCreations' = creations /\ UNCHANGED peer
    <3>1. stage'[i] = "resolve"
      BY <1>2, <2>4 DEF Go
    <3>2. \A h \in Keys : pendingCreations'[h] \in {pendingCreations[h], i}
      BY <1>2, <1>3, <2>4
    <3>3. \A j \in Calls \ {i} : ticket'[j] = ticket[j]
      BY <1>2, <2>4 DEF Register
    <3> QED BY <1>1, <1>3, <2>1, <3>1, <3>2, <3>3, WaitsStay DEF Registered
  <2> QED BY <1>3, <2>2, <2>3, <2>4 DEF Activate
<1>4. ASSUME NEW op \in Operations, Begins(i, op), NEW s \in {"ok", "failed"}, NEW o, Settle(i, o, s),
             UNCHANGED <<peer, ticketVars>>
      PROVE  WaitInv'
  <2>1. stage'[i] \in {"activated", "done"} /\ pendingCreations' = pendingCreations
    BY <1>1, <1>2, <1>4 DEF Settle
  <2> QED BY <1>1, <1>4, <2>1, WaitsStay DEF ticketVars, Registered
<1>5. CASE \E k \in Keys, w \in Workspaces : CreateConversation(i, k, w)
  <2>1. PICK k \in Keys, w \in Workspaces, c \in Conversations :
          /\ Begins(i, "create")
          /\ \/ /\ pendingCreations[k] # None /\ Go(i, "joined") /\ peer' = [peer EXCEPT ![i] = pendingCreations[k]]
                /\ UNCHANGED <<pendingCreations, ticketVars>>
             \/ Settle(i, "create", "failed") /\ UNCHANGED <<peer, ticketVars>>
             \/ Activate(i, "create", c, [pendingCreations EXCEPT ![k] = i])
             \/ /\ Go(i, "resolve") /\ pendingCreations' = [pendingCreations EXCEPT ![k] = i]
                /\ UNCHANGED <<peer, ticketVars>>
    BY <1>5 DEF CreateConversation
  <2>2. CASE /\ pendingCreations[k] # None /\ Go(i, "joined") /\ peer' = [peer EXCEPT ![i] = pendingCreations[k]]
             /\ UNCHANGED <<pendingCreations, ticketVars>>
    <3>1. stage'[i] = "joined" /\ peer'[i] = pendingCreations[k]
      BY <1>2, <2>2 DEF Go
    <3>2. peer'[i] \in Calls /\ Leads(peer'[i]) /\ peer'[i] # i
      BY <1>1, <1>2, <2>2, <3>1 DEF WaitInv, MaybeCall
    <3> QED BY <1>1, <2>2, <3>1, <3>2, WaitsStay DEF ticketVars, Registered
  <2>3. CASE Go(i, "resolve") /\ pendingCreations' = [pendingCreations EXCEPT ![k] = i] /\ UNCHANGED <<peer, ticketVars>>
    <3>1. stage'[i] = "resolve"
      BY <1>2, <2>3 DEF Go
    <3>2. \A h \in Keys : pendingCreations'[h] \in {pendingCreations[h], i}
      BY <1>2, <2>3
    <3> QED BY <1>1, <2>3, <3>1, <3>2, WaitsStay DEF ticketVars, Registered
  <2> QED BY <1>3, <1>4, <2>1, <2>2, <2>3 DEF Operations
<1>6. ASSUME NEW c \in Conversations, RestoreConversation(i, c) \/ SendMessage(i, c)
      PROVE  WaitInv'
  <2>1. PICK op \in {"restore", "send"} : ActivateConversation(i, op, c)
    BY <1>6 DEF RestoreConversation, SendMessage
  <2> QED BY <1>3, <1>4, <2>1 DEF ActivateConversation, Operations
<1>7. ASSUME NEW c \in Conversations, RemoveConversation(i, c)
      PROVE  WaitInv'
  <2>1. /\ stage'[i] \in {"previous", "done"} /\ UNCHANGED <<pendingCreations, ticketVars>>
        /\ stage'[i] = "previous" => peer'[i] = pendingRestores[c]
    BY <1>2, <1>7 DEF RemoveConversation, Go
  <2> QED BY <1>1, <2>1, RegisteredPending, WaitsStay DEF ticketVars, Registered
<1>8. ASSUME NEW c \in Conversations, NEW w \in Workspaces, RelocateConversation(i, c, w)
      PROVE  WaitInv'
  <2>1. stage'[i] = "canonical" /\ UNCHANGED <<pendingCreations, ticketVars>>
    BY <1>2, <1>8 DEF RelocateConversation, Go
  <2> QED BY <1>1, <2>1, WaitsStay DEF ticketVars, Registered
<1> QED BY <1>5, <1>6, <1>7, <1>8 DEF BeginStep

LEMMA ContinueWaits ==
    ASSUME TypeOK, ServiceInv, JoinInv, WaitInv, NEW i \in Calls, Continue(i)
    PROVE  WaitInv'
<1>1. OnlyCall(i) /\ operation' = operation /\ stage'[i] # "idle"
  BY ContinueShape DEF requestVars
<1>2. /\ stage \in [Calls -> Stages] /\ peer \in [Calls -> MaybeCall] /\ ticket \in [Calls -> Nat]
      /\ pendingCreations \in [Keys -> MaybeCall]
  BY TypeParts DEF StageTypes, TicketTypes, MapTypes
<1>3. \A k \in Keys : pendingCreations'[k] \in {None, pendingCreations[k]}
  BY <1>2 DEF Continue, RegisterRelocation, BeginRelocation, Joined, HostToolsResolved, SessionOpened,
         SessionNotOpened, CleanUp, CleanedUp, FailOpening, Prompt, Prompted, DeleteConversation, SessionDeleted,
         DeletedClosed, InactiveDeleted, InRuntime, mapVars, Settle, Without
<1>4. CASE RegisterRelocation(i)
  <2>1. CASE Settle(i, "relocate", "failed") /\ UNCHANGED ticketVars
    <3>1. stage'[i] = "done"
      BY <1>2, <2>1 DEF Settle
    <3> QED BY <1>1, <1>3, <2>1, <3>1, WaitsStay DEF ticketVars, WaitInv, Registered
  <2>2. CASE /\ peer' = [peer EXCEPT ![i] = pendingRestores[conversation[i]]]
             /\ Register(i, conversation[i]) /\ Go(i, "previous")
    <3>1. /\ stage'[i] = "previous" /\ peer'[i] = pendingRestores[conversation[i]]
          /\ \A j \in Calls \ {i} : ticket'[j] = ticket[j]
      BY <1>2, <2>2 DEF Go, Register
    <3>2. operation[i] = "relocate" /\ conversation[i] \in Conversations /\ ticket[i] = 0
      BY <1>4, OpensHasConversation DEF RegisterRelocation, ServiceInv, CallInv
    <3> QED BY <1>1, <1>3, <3>1, <3>2, RegisteredPending, WaitsStay DEF Registered
  <2> QED BY <1>4, <2>1, <2>2 DEF RegisterRelocation
<1>5. CASE ~RegisterRelocation(i)
  <2>1. ticket' = ticket
    BY <1>5 DEF Continue, BeginRelocation, Joined, HostToolsResolved, SessionOpened,
         SessionNotOpened, CleanUp, CleanedUp, Prompt, Prompted, DeleteConversation, SessionDeleted,
         DeletedClosed, InactiveDeleted, ticketVars
  <2>2. stage'[i] \notin {"joined", "previous"}
    <3>1. CASE BeginRelocation(i) \/ Joined(i) \/ HostToolsResolved(i) \/ SessionOpened(i) \/ SessionNotOpened(i)
      BY <1>2, <3>1 DEF BeginRelocation, Joined, HostToolsResolved, SessionOpened, SessionNotOpened, Settle, Go
    <3>2. CASE CleanUp(i) \/ CleanedUp(i)
      BY <1>2, <3>2 DEF CleanUp, CleanedUp, FailOpening, TakeSession, Settle, Go
    <3>3. CASE \/ Prompt(i) \/ Prompted(i) \/ DeleteConversation(i) \/ SessionDeleted(i)
               \/ DeletedClosed(i) \/ InactiveDeleted(i)
      BY <1>2, <3>3 DEF Prompt, Prompted, DeleteConversation, SessionDeleted, DeletedClosed, InactiveDeleted,
                        RemoveRow, TakeSession, Go
    <3> QED BY <1>5, <3>1, <3>2, <3>3 DEF Continue
  <2> QED BY <1>1, <1>3, <2>1, <2>2, WaitsStay DEF WaitInv, Registered
<1> QED BY <1>4, <1>5

LEMMA WaitsKept ==
    ASSUME TypeOK, ServiceInv, JoinInv, KeyInv, WaitInv, [Next]_vars
    PROVE  WaitInv'
<1>1. CASE \/ Shutdown \/ ShutdownRuntime \/ ShutdownEnds \/ UNCHANGED vars
           \/ (\E c \in Conversations : ShutdownSession(c)) \/ \E i \in Calls : SessionLost(i)
  <2>1. UNCHANGED <<pendingCreations, operation, stage, peer, ticket>>
    BY <1>1 DEF Shutdown, ShutdownRuntime, ShutdownEnds, ShutdownSession, SessionLost, vars, mapVars, requestVars, stageVars,
                ticketVars
  <2> QED BY <2>1 DEF WaitInv, Leads, Registered
<1> QED BY <1>1, BeginWaits, ContinueWaits, StepsOfNext

(* Whoever waits for a promise, waits for a call. *)
LEMMA BlockedOnPeer ==
    ASSUME TypeOK, ServiceInv, MachineInv, NEW i \in Calls, Blocked(i), Blocked(WaitsFor(i)), WaitsFor(i) \in Calls
    PROVE  stage[i] \in {"previous", "joined"} /\ WaitsFor(i) = peer[i] /\ peer[i] # None
<1>1. CASE stage[i] = "awaiting"
  <2>1. WaitsFor(i) = peer[i] /\ actor[peer[i]] = "starting" /\ peer[i] \in Calls
    BY <1>1, CallsAreNumbers DEF Blocked, WaitsFor
  <2>2. stage[peer[i]] = "opening"
    BY <2>1 DEF MachineInv, ActorInv
  <2> QED BY <2>1, <2>2 DEF Blocked, WaitsFor
<1>2. CASE stage[i] = "cleanup"
  <2>1. WaitsFor(i) = opening[conversation[i]] /\ opening[conversation[i]] # None
    BY <1>2, CallsAreNumbers DEF Blocked, WaitsFor
  <2>2. stage[opening[conversation[i]]] = "opening"
    BY <1>2, <2>1, HaveConversations DEF MachineInv, ActorInv
  <2> QED BY <2>1, <2>2 DEF Blocked, WaitsFor
<1>3. CASE stage[i] \in {"previous", "joined"}
  BY <1>3, CallsAreNumbers DEF WaitsFor
<1> QED BY <1>1, <1>2, <1>3 DEF Blocked, WaitsFor

LEMMA NoCircle ==
    ASSUME TypeOK, ServiceInv, MachineInv, WaitInv
    PROVE  NoCircularWait
<1> SUFFICES ASSUME NEW W, W \subseteq {i \in Calls : Blocked(i)}, W # {}, \A i \in W : WaitsFor(i) \in W
             PROVE  FALSE
  BY DEF NoCircularWait
<1>1. \A i \in W : /\ i \in Calls /\ stage[i] \in {"previous", "joined"} /\ peer[i] # None /\ peer[i] \in W
                   /\ WaitsFor(i) = peer[i]
  BY BlockedOnPeer
<1>2. \E r \in W : Registered(r)
  <2>1. PICK i \in W : TRUE
    OBVIOUS
  <2>2. CASE stage[i] = "previous"
    BY <1>1, <2>2 DEF WaitInv
  <2>3. CASE stage[i] = "joined"
    <3>1. peer[i] \in W /\ Leads(peer[i])
      BY <1>1, <2>3 DEF WaitInv
    <3>2. CASE stage[peer[i]] = "joined"
      BY <1>1, <3>1, <3>2 DEF Leads
    <3>3. CASE stage[peer[i]] = "previous"
      BY <1>1, <3>1, <3>3 DEF WaitInv
    <3> QED BY <1>1, <3>1, <3>2, <3>3
  <2> QED BY <1>1, <2>2, <2>3
<1> DEFINE T == {ticket[r] : r \in {q \in W : Registered(q)}}
<1>3. T \subseteq Nat /\ T # {}
  BY <1>1, <1>2 DEF ServiceInv, ServiceTypes
<1>4. PICK r \in W : Registered(r) /\ \A q \in W : Registered(q) => ticket[r] <= ticket[q]
  <2>1. PICK x \in T : \A y \in T : x <= y
    BY <1>3, LeastNumber
  <2> QED BY <2>1
<1>5. Waiting(r)
  <2>1. stage[r] # "joined"
    BY <1>1, <1>4 DEF ServiceInv, CallInv, Registered
  <2>2. stage[r] = "previous" /\ operation[r] = "relocate"
    BY <1>1, <1>4, <2>1 DEF WaitInv, MachineInv, StageInv
  <2> QED BY <2>2 DEF Waiting
<1>6. Precedes(peer[r], r) /\ peer[r] \in W
  BY <1>1, <1>5 DEF ServiceInv, ChainInv
<1>7. ticket[r] \in Nat /\ ticket[peer[r]] \in Nat
  BY <1>1, <1>6 DEF ServiceInv, ServiceTypes
<1> QED BY <1>4, <1>6, <1>7 DEF Precedes

(* Restores, relocations, creations and removals that wait for one          *)
(* another's promises (pendingRestores, pendingCreations, the runtime's own *)
(* pending creations) never wait in a circle: one of them always waits for  *)
(* something that is under way.                                             *)
THEOREM WaitsAreNotCircular == Spec => []NoCircularWait
<1>1. Init => WaitInv /\ KeyInv
  BY NoneAssumption DEF Init, WaitInv, Registered, KeyInv, RowKeys, CallKeys, PendingKeys
<1>2. TypeOK /\ (ServiceInv /\ JoinInv) /\ (WaitInv /\ KeyInv) /\ [Next]_vars => (WaitInv /\ KeyInv)'
  BY KeysKept, WaitsKept
<1>3. RuntimeInv /\ (WaitInv /\ KeyInv) => NoCircularWait
  BY NoCircle DEF RuntimeInv
<1> QED BY <1>1, <1>2, <1>3, RuntimeInvHolds, ServiceTypeCorrect, ServiceInvHolds, PTL DEF Spec

-----------------------------------------------------------------------------
(* The turn contexts of the catalog and the turns of the agent.             *)

(* A context that is counted once its prompt is accepted will be the last   *)
(* of those that are counted.                                               *)
Newest(c, i) == Kept(contexts[c], Sent \cup {i}) = Append(SentContexts(c), i)

ContextAt(c) ==
    /\ ~Cataloged(c) /\ c \notin removed => contexts[c] = <<>> /\ turns[c] = <<>>
    /\ \A n \in 1..Len(contexts[c]) :
         stage[contexts[c][n]] \in {"prompting", "done"} /\ conversation[contexts[c][n]] = c
    /\ Cataloged(c) => SentContexts(c) = turns[c]
    /\ \A i \in Calls : stage[i] = "prompting" /\ conversation[i] = c =>
         /\ Cataloged(c) \/ c \in removed
         /\ actor[peer[i]] = "running" /\ Cataloged(c) => Newest(c, i)

(* Only a call that is done has left a context behind, and one prompt at    *)
(* most is on its way to a session.                                         *)
PromptInv ==
    /\ \A i \in Calls : i \in orphans => stage[i] = "done"
    /\ \A i, j \in Calls : stage[i] = "prompting" /\ stage[j] = "prompting" /\ peer[i] = peer[j] => i = j

ContextInv == PromptInv /\ \A c \in Conversations : ContextAt(c)

(* An actor that runs after a step ran before it or was starting. *)
LEMMA NoneRevives ==
    ASSUME TypeOK, ServiceInv, MachineInv, [Next]_vars, NEW j \in Calls, actor'[j] = "running"
    PROVE  actor[j] \in {"running", "starting"}
<1>1. actor \in [Calls -> {"none", "starting", "running", "failed", "closing", "closed"}]
  BY TypeParts DEF AgentTypes
<1>2. ASSUME NEW i \in Calls, BeginStep(i)  PROVE actor' = actor
  BY <1>2, BeginShape DEF InRuntime, agentVars
<1>3. ASSUME NEW i \in Calls, SessionOpened(i)  PROVE actor[j] \in {"running", "starting"}
  BY <1>1, <1>3 DEF SessionOpened, RegisterSession, MachineInv, ActorInv
<1>4. ASSUME NEW i \in Calls, Continue(i), ~SessionOpened(i)
      PROVE  actor[j] \in {"running", "starting"}
  <2>1. CASE \/ RegisterRelocation(i) \/ BeginRelocation(i) \/ Joined(i) \/ Prompt(i) \/ Prompted(i)
             \/ DeleteConversation(i) \/ InactiveDeleted(i)
    BY <2>1 DEF RegisterRelocation, BeginRelocation, Joined, Prompt, Prompted, DeleteConversation,
                InactiveDeleted, InRuntime, agentVars
  <2>2. CASE HostToolsResolved(i) \/ SessionNotOpened(i) \/ CleanedUp(i) \/ DeletedClosed(i)
    BY <1>1, <2>2 DEF HostToolsResolved, BeginOpening, SessionNotOpened, CleanedUp, DeletedClosed
  <2>3. CASE CleanUp(i) \/ SessionDeleted(i)
    BY <1>1, <2>3 DEF CleanUp, SessionDeleted, TakeSession
  <2> QED BY <1>4, <2>1, <2>2, <2>3 DEF Continue
<1>5. CASE \/ Shutdown \/ ShutdownRuntime \/ ShutdownEnds \/ UNCHANGED vars
           \/ \E c \in Conversations : ShutdownSession(c)
  BY <1>1, <1>5 DEF Shutdown, ShutdownRuntime, ShutdownEnds, ShutdownSession, vars, agentVars
<1>6. ASSUME NEW i \in Calls, SessionLost(i)  PROVE actor[j] \in {"running", "starting"}
  BY <1>1, <1>6 DEF SessionLost
<1> QED BY <1>1, <1>2, <1>3, <1>4, <1>5, <1>6, StepsOfNext

(* Nobody begins or ends a prompt, and the row stays or is a new one. *)
LEMMA ContextStays ==
    ASSUME TypeOK, MachineInv, NEW c \in Conversations, ContextAt(c),
           contexts'[c] = contexts[c], turns'[c] = turns[c],
           c \in removed' <=> c \in removed,
           \A j \in Calls : conversation[j] = c => (j \in orphans' <=> j \in orphans),
           Cataloged(c) => Cataloged(c)', Cataloged(c)' => Cataloged(c) \/ c \notin removed,
           \A j \in Calls : stage[j] \in {"prompting", "done"} /\ conversation[j] = c =>
             stage'[j] = stage[j] /\ peer'[j] = peer[j] /\ conversation'[j] = c,
           \A j \in Calls : stage'[j] = "prompting" /\ conversation'[j] = c =>
             stage[j] = "prompting" /\ conversation[j] = c,
           \A j \in Calls : actor'[j] = "running" => actor[j] \in {"running", "starting"}
    PROVE  ContextAt(c)'
<1>1. PICK s \in Seq(Calls) : s = contexts[c] /\ s = contexts'[c]
  BY TypeParts DEF CatalogTypes
<1>2. \A n \in 1..Len(s) :
        /\ s[n] \in Calls /\ conversation[s[n]] = c
        /\ stage'[s[n]] = stage[s[n]] /\ conversation'[s[n]] = c
  BY <1>1 DEF ContextAt
<1>3. PICK S, R : S = Sent /\ R = Sent'
  OBVIOUS
<1>4. \A n \in 1..Len(s) : s[n] \in S <=> s[n] \in R
  BY <1>2, <1>3 DEF Sent
<1>5. SentContexts(c) = Kept(s, S) /\ SentContexts(c)' = Kept(s, R) /\ Kept(s, S) = Kept(s, R)
  BY <1>1, <1>3, <1>4, KeptSame DEF SentContexts
<1>6. Cataloged(c)' => SentContexts(c)' = turns'[c]
  <2>1. CASE Cataloged(c)
    BY <1>5, <2>1 DEF ContextAt
  <2>2. CASE ~Cataloged(c) /\ c \notin removed
    <3>1. s = <<>> /\ turns[c] = <<>>
      BY <1>1, <2>2 DEF ContextAt
    <3> QED BY <1>5, <3>1, KeptNothing
  <2> QED BY <2>1, <2>2
<1>7. ASSUME NEW i \in Calls, stage'[i] = "prompting", conversation'[i] = c
      PROVE  /\ Cataloged(c)' \/ c \in removed'
             /\ actor'[peer'[i]] = "running" /\ Cataloged(c)' => Newest(c, i)'
  <2>1. stage[i] = "prompting" /\ conversation[i] = c /\ peer'[i] = peer[i]
    BY <1>7
  <2>2. peer[i] \in Calls /\ actor[peer[i]] # "starting"
    BY <2>1 DEF MachineInv, StageInv
  <2>3. Newest(c, i) => Newest(c, i)'
    <3>1. Kept(s, S \cup {i}) = Kept(s, R \cup {i})
      <4>1. \A n \in 1..Len(s) : s[n] \in S \cup {i} <=> s[n] \in R \cup {i}
        BY <1>4
      <4> QED BY <1>1, <4>1, KeptSame
    <3>2. Newest(c, i) <=> Kept(s, S \cup {i}) = Append(SentContexts(c), i)
      BY <1>1, <1>3 DEF Newest
    <3>3. Newest(c, i)' <=> Kept(s, R \cup {i}) = Append(SentContexts(c)', i)
      BY <1>1, <1>3 DEF Newest
    <3> QED BY <1>5, <3>1, <3>2, <3>3
  <2> QED BY <2>1, <2>2, <2>3 DEF ContextAt
<1>8. \A n \in 1..Len(contexts'[c]) :
        stage'[contexts'[c][n]] \in {"prompting", "done"} /\ conversation'[contexts'[c][n]] = c
  BY <1>1, <1>2 DEF ContextAt
<1>9. ~Cataloged(c)' /\ c \notin removed' => contexts'[c] = <<>> /\ turns'[c] = <<>>
  BY DEF ContextAt
<1> QED BY <1>6, <1>7, <1>8, <1>9 DEF ContextAt

(* A context is written, and its call prompts or leaves it behind. *)
LEMMA ContextWritten ==
    ASSUME TypeOK, MachineInv, PromptInv, NEW i \in Calls, NEW c \in Conversations, c = conversation[i],
           ContextAt(c), stage[i] = "activated",
           \/ /\ Go(i, "prompting") /\ orphans' = orphans /\ peer' = [peer EXCEPT ![i] = sessions[c]]
              /\ Accepting(c) /\ \A j \in Calls : stage[j] = "prompting" => peer[j] # sessions[c]
           \/ Go(i, "done") /\ orphans' = orphans \cup {i} /\ peer' = peer,
           contexts' = [contexts EXCEPT ![c] = Append(@, i)], Cataloged(c),
           UNCHANGED <<workspace, removed, turns, actor, conversation>>
    PROVE  ContextAt(c)'
<1>1. contexts \in [Conversations -> Seq(Calls)] /\ stage \in [Calls -> Stages] /\ peer \in [Calls -> MaybeCall]
  BY TypeParts DEF CatalogTypes, StageTypes
<1>2. PICK s \in Seq(Calls), t \in Seq(Calls) : s = contexts[c] /\ t = contexts'[c] /\ t = Append(s, i)
  <2>1. contexts[c] \in Seq(Calls) /\ contexts'[c] = Append(contexts[c], i)
    BY <1>1
  <2>2. Append(contexts[c], i) \in Seq(Calls)
    BY <2>1
  <2> QED BY <2>1, <2>2, Zenon
<1>3. /\ \A j \in Calls \ {i} : stage'[j] = stage[j] /\ peer'[j] = peer[j] /\ (j \in orphans' <=> j \in orphans)
      /\ stage'[i] \in {"prompting", "done"} /\ (stage'[i] = "done" => i \in orphans')
  BY <1>1 DEF Go
<1>4. \A n \in 1..Len(s) : /\ s[n] \in Calls /\ s[n] # i /\ stage[s[n]] \in {"prompting", "done"}
                           /\ conversation[s[n]] = c
  BY <1>2 DEF ContextAt
<1>5. Len(t) = Len(s) + 1 /\ t[Len(s) + 1] = i /\ \A n \in 1..Len(s) : t[n] = s[n]
  BY <1>2
<1>6. \A n \in 1..Len(t) : stage'[t[n]] \in {"prompting", "done"} /\ conversation'[t[n]] = c
  <2>1. \A n \in 1..Len(t) : n \in 1..Len(s) \/ n = Len(s) + 1
    BY <1>2, <1>5
  <2> QED BY <1>3, <1>4, <1>5, <2>1
<1>7. PICK S, R : S = Sent /\ R = Sent'
  OBVIOUS
<1>8. i \notin R /\ \A n \in 1..Len(s) : s[n] \in S <=> s[n] \in R
  BY <1>3, <1>4, <1>7 DEF Sent
<1>9. SentContexts(c) = Kept(s, S) /\ SentContexts(c)' = Kept(s, S)
  <2>1. Kept(Append(s, i), R) = Kept(s, R)
    BY <1>8, KeptAppend
  <2>2. Kept(s, S) = Kept(s, R)
    BY <1>8, KeptSame
  <2>3. SentContexts(c) = Kept(s, S) /\ SentContexts(c)' = Kept(t, R)
    BY <1>2, <1>7 DEF SentContexts
  <2> QED BY <1>2, <2>1, <2>2, <2>3, Zenon
<1>10. ASSUME NEW j \in Calls, stage'[j] = "prompting", conversation[j] = c, actor[peer'[j]] = "running"
       PROVE  Newest(c, j)'
  <2>1. Newest(c, j)' <=> Kept(t, R \cup {j}) = Append(Kept(s, S), j)
    BY <1>2, <1>7, <1>9 DEF Newest
  <2>2. Kept(s, S \cup {j}) = Kept(s, R \cup {j})
    <3>1. \A n \in 1..Len(s) : s[n] \in S \cup {j} <=> s[n] \in R \cup {j}
      BY <1>8
    <3> QED BY <1>2, <3>1, KeptSame
  <2>3. CASE j = i
    <3>1. Kept(Append(s, i), R \cup {i}) = Append(Kept(s, R \cup {i}), i)
      BY <1>2, KeptAppend
    <3>2. \A n \in 1..Len(s) : s[n] \in S <=> s[n] \in S \cup {i}
      BY <1>4
    <3>3. Kept(s, S) = Kept(s, S \cup {i})
      BY <3>2, KeptSame
    <3> QED BY <1>2, <2>1, <2>2, <2>3, <3>1, <3>3, Zenon
  <2>4. CASE j # i
    <3>1. stage[j] = "prompting" /\ peer'[j] = peer[j]
      BY <1>3, <1>10, <2>4
    <3>2. peer[j] \in Calls /\ conversation[peer[j]] = c
      BY <1>10, <3>1 DEF MachineInv, StageInv
    <3>3. sessions[c] = peer[j]
      BY <1>10, <3>1, <3>2 DEF MachineInv, ActorInv, Opened
    <3>4. i \notin R \cup {j} /\ Newest(c, j)
      BY <1>8, <1>10, <2>4, <3>1, <3>3 DEF ContextAt
    <3>5. Kept(Append(s, i), R \cup {j}) = Kept(s, R \cup {j})
      BY <3>4, KeptAppend
    <3>6. Kept(s, S \cup {j}) = Append(Kept(s, S), j)
      BY <1>2, <1>7, <1>9, <3>4 DEF Newest
    <3> QED BY <1>2, <2>1, <2>2, <3>5, <3>6, Zenon
  <2> QED BY <2>3, <2>4
<1>11. Cataloged(c)' /\ Cataloged(c) /\ conversation' = conversation /\ turns' = turns
  BY DEF Cataloged
<1>12. SentContexts(c)' = turns[c]'
  BY <1>9, <1>11 DEF ContextAt
<1>13. \A n \in 1..Len(contexts[c]') :
         stage[contexts[c][n]]' \in {"prompting", "done"} /\ conversation[contexts[c][n]]' = c
  BY <1>2, <1>6, Zenon
<1>14. ASSUME NEW j \in Calls, stage[j]' = "prompting", conversation[j]' = c
       PROVE  actor[peer[j]]' = "running" => Newest(c, j)'
  BY <1>10, <1>11, <1>14
<1> QED BY <1>11, <1>12, <1>13, <1>14 DEF ContextAt

(* What is left to show when a prompt of the conversation has ended: the    *)
(* contexts are those of prompts, those counted are those of the turns, and *)
(* another prompt under way on the session would be the last to count.      *)
LEMMA PromptEnds ==
    ASSUME NEW i \in Calls, NEW c \in Conversations, ContextAt(c), stage \in [Calls -> Stages], Go(i, "done"),
           UNCHANGED <<workspace, removed, actor, conversation, peer>>, stage[i] = "prompting",
           conversation[i] = c,
           \A n \in 1..Len(contexts'[c]) : stage'[contexts'[c][n]] \in {"prompting", "done"}
                                           /\ conversation[contexts'[c][n]] = c,
           Cataloged(c) => SentContexts(c)' = turns'[c],
           \A j \in Calls \ {i} :
             /\ stage[j] = "prompting" /\ conversation[j] = c /\ actor[peer[j]] = "running" /\ Cataloged(c)
             /\ Newest(c, j)
             => Newest(c, j)'
    PROVE  ContextAt(c)'
<1>1. \A j \in Calls : stage'[j] = "prompting" => j # i /\ stage[j] = "prompting"
  BY DEF Go
<1>2. Cataloged(c)' = Cataloged(c) /\ (Cataloged(c) \/ c \in removed)
  BY DEF Cataloged, ContextAt
<1> QED BY <1>1, <1>2 DEF ContextAt

(* The agent accepts the prompt. *)
LEMMA ContextSent ==
    ASSUME TypeOK, MachineInv, PromptInv, NEW i \in Calls, NEW c \in Conversations, c = conversation[i],
           ContextAt(c), stage[i] = "prompting", Go(i, "done"), actor[peer[i]] = "running",
           turns' = [turns EXCEPT ![c] = Append(@, i)],
           UNCHANGED <<workspace, removed, contexts, orphans, actor, conversation, peer>>
    PROVE  ContextAt(c)'
<1>1. /\ contexts \in [Conversations -> Seq(Calls)] /\ stage \in [Calls -> Stages]
      /\ turns \in [Conversations -> Seq(Calls)]
  BY TypeParts DEF CatalogTypes, StageTypes, AgentTypes
<1>2. \A j \in Calls : stage'[j] = IF j = i THEN "done" ELSE stage[j]
  BY <1>1 DEF Go
<1>3. PICK s \in Seq(Calls) : s = contexts[c] /\ s = contexts'[c]
  BY <1>1
<1>4. \A n \in 1..Len(s) : s[n] \in Calls /\ stage'[s[n]] \in {"prompting", "done"} /\ conversation[s[n]] = c
  BY <1>2, <1>3 DEF ContextAt
<1>5. ASSUME Cataloged(c)
      PROVE  SentContexts(c)' = turns'[c]
  <2>1. Kept(s, Sent \cup {i}) = Append(SentContexts(c), i) /\ SentContexts(c) = turns[c]
    BY <1>3, <1>5 DEF ContextAt, Newest
  <2>2. PICK S, R : S = Sent \cup {i} /\ R = Sent'
    OBVIOUS
  <2>3. \A n \in 1..Len(s) : s[n] \in S <=> s[n] \in R
    BY <1>2, <1>4, <2>2 DEF Sent, PromptInv
  <2>4. Kept(s, S) = Kept(s, R) /\ SentContexts(c)' = Kept(s, R)
    BY <1>3, <2>2, <2>3, KeptSame DEF SentContexts
  <2> QED BY <1>1, <2>1, <2>2, <2>4
<1>6. ASSUME NEW j \in Calls \ {i}, stage[j] = "prompting", conversation[j] = c
      PROVE  actor[peer[j]] # "running"
  <2>1. peer[i] \in Calls /\ peer[j] \in Calls /\ conversation[peer[i]] = c /\ conversation[peer[j]] = c
    BY <1>6 DEF MachineInv, StageInv
  <2>2. peer[i] # peer[j]
    BY <1>6 DEF PromptInv
  <2> QED BY <2>1, <2>2 DEF MachineInv, ActorInv, Opened
<1>7. \A n \in 1..Len(contexts'[c]) : stage'[contexts'[c][n]] \in {"prompting", "done"}
                                      /\ conversation[contexts'[c][n]] = c
  BY <1>3, <1>4
<1> QED BY <1>1, <1>5, <1>6, <1>7, PromptEnds

(* The prompt is rejected, and its context is deleted or left. *)
LEMMA ContextDropped ==
    ASSUME TypeOK, PromptInv, NEW i \in Calls, NEW c \in Conversations, c = conversation[i], ContextAt(c),
           stage[i] = "prompting", Go(i, "done"),
           \/ contexts' = [contexts EXCEPT ![c] = Kept(@, Calls \ {i})] /\ orphans' = orphans
           \/ contexts' = contexts /\ orphans' = orphans \cup {i},
           UNCHANGED <<workspace, removed, turns, actor, conversation, peer>>
    PROVE  ContextAt(c)'
<1>1. contexts \in [Conversations -> Seq(Calls)] /\ stage \in [Calls -> Stages]
  BY TypeParts DEF CatalogTypes, StageTypes
<1>2. \A j \in Calls : stage'[j] = IF j = i THEN "done" ELSE stage[j]
  BY <1>1 DEF Go
<1>3. PICK s \in Seq(Calls), Q \in {Calls, Calls \ {i}} :
        /\ s = contexts[c] /\ contexts'[c] = Kept(s, Q)
        /\ (Q = Calls => i \in orphans') /\ \A j \in Calls \ {i} : j \in orphans' <=> j \in orphans
  <2>1. contexts[c] \in Seq(Calls) /\ Kept(contexts[c], Calls) = contexts[c]
    BY <1>1, KeptWhole
  <2> QED BY <1>1, <2>1
<1>4. PICK K : K = Kept(s, Q) /\ K = contexts'[c]
  BY <1>3
<1>5. PICK S, R : S = Sent /\ R = Sent'
  OBVIOUS
<1>6. i \notin S /\ i \notin Q \cap R /\ \A j \in Calls \ {i} : j \in Q /\ (j \in R <=> j \in S)
  BY <1>2, <1>3, <1>5 DEF Sent
<1>7. \A m \in 1..Len(s) : /\ s[m] \in Calls /\ stage[s[m]] \in {"prompting", "done"}
                           /\ conversation[s[m]] = c
  BY <1>3 DEF ContextAt
<1>8. \A n \in 1..Len(K) : stage'[K[n]] \in {"prompting", "done"} /\ conversation[K[n]] = c
  <2>1. \A n \in 1..Len(K) : \E m \in 1..Len(s) : s[m] = K[n]
    BY <1>3, <1>4, KeptMembers
  <2> QED BY <1>2, <1>7, <2>1
<1>9. SentContexts(c)' = Kept(s, S) /\ SentContexts(c) = Kept(s, S)
  <2>1. Kept(K, R) = Kept(s, Q \cap R)
    BY <1>3, <1>4, KeptTwice
  <2>2. Kept(s, Q \cap R) = Kept(s, S)
    BY <1>3, <1>6, <1>7, KeptSame
  <2>3. SentContexts(c)' = Kept(K, R) /\ SentContexts(c) = Kept(s, S)
    BY <1>3, <1>4, <1>5 DEF SentContexts
  <2> QED BY <2>1, <2>2, <2>3
<1>10. ASSUME NEW j \in Calls \ {i}, Newest(c, j)
       PROVE  Newest(c, j)'
  <2>1. Kept(K, R \cup {j}) = Kept(s, Q \cap (R \cup {j}))
    BY <1>3, <1>4, KeptTwice
  <2>2. \A n \in 1..Len(s) : s[n] \in Q \cap (R \cup {j}) <=> s[n] \in S \cup {j}
    BY <1>6, <1>7
  <2>3. Kept(s, Q \cap (R \cup {j})) = Kept(s, S \cup {j})
    BY <1>3, <2>2, KeptSame
  <2>4. Kept(s, S \cup {j}) = Append(Kept(s, S), j)
    BY <1>3, <1>5, <1>9, <1>10 DEF Newest
  <2>5. Newest(c, j)' <=> Kept(K, R \cup {j}) = Append(Kept(s, S), j)
    BY <1>4, <1>5, <1>9 DEF Newest
  <2> QED BY <2>1, <2>3, <2>4, <2>5
<1>11. Cataloged(c) => SentContexts(c)' = turns'[c]
  BY <1>9 DEF ContextAt
<1> QED BY <1>1, <1>4, <1>8, <1>10, <1>11, PromptEnds

(* No prompt of the call begins or ends. *)
QuietPrompt(i) == {stage[i], stage'[i]} \cap {"prompting"} = {} /\ stage[i] # "done"

LEMMA QuietContext ==
    ASSUME TypeOK, MachineInv, ContextInv, NEW i \in Calls, OnlyCall(i), QuietPrompt(i),
           UNCHANGED <<contexts, turns, removed, orphans>>,
           \A d \in Conversations : (Cataloged(d) => Cataloged(d)') /\ (Cataloged(d)' => Cataloged(d) \/ d \notin removed),
           \A j \in Calls : actor'[j] = "running" => actor[j] \in {"running", "starting"}
    PROVE  \A c \in Conversations : ContextAt(c)'
<1>1. /\ \A j \in Calls : stage[j] \in {"prompting", "done"} =>
           stage'[j] = stage[j] /\ peer'[j] = peer[j] /\ conversation'[j] = conversation[j]
      /\ \A j \in Calls : stage'[j] = "prompting" => stage[j] = "prompting"
  BY DEF OnlyCall, QuietPrompt
<1> QED BY <1>1, ContextStays DEF ContextInv

(* A call leaves a context behind when it ends, and prompts when no other   *)
(* prompt is on its way to the session.                                     *)
LEMMA PromptsKept ==
    ASSUME TypeOK, ServiceInv, JoinInv, MachineInv, PromptInv, [Next]_vars
    PROVE  PromptInv'
<1>1. stage \in [Calls -> Stages] /\ peer \in [Calls -> MaybeCall]
  BY TypeParts DEF StageTypes
<1>2. ASSUME NEW i \in Calls, OnlyCall(i), stage[i] # "done", stage'[i] # "prompting", orphans' = orphans
      PROVE  PromptInv'
  BY <1>2 DEF PromptInv, OnlyCall
<1>3. ASSUME NEW i \in Calls, BeginStep(i)  PROVE PromptInv'
  <2>1. OnlyCall(i) /\ stage[i] # "done" /\ stage'[i] # "prompting" /\ orphans' = orphans
    BY <1>3, BeginShape DEF InRuntime, catalogVars
  <2> QED BY <1>2, <2>1
<1>4. ASSUME NEW i \in Calls, Continue(i)  PROVE PromptInv'
  <2>1. OnlyCall(i)
    BY <1>4, ContinueShape
  <2>2. CASE Prompted(i)
    <3>1. stage[i] = "prompting" /\ Go(i, "done") /\ peer' = peer
          /\ (orphans' = orphans \/ orphans' = orphans \cup {i})
      BY <2>2 DEF Prompted
    <3>2. \A j \in Calls : stage'[j] = IF j = i THEN "done" ELSE stage[j]
      BY <1>1, <3>1 DEF Go
    <3> QED BY <3>1, <3>2 DEF PromptInv
  <2>3. CASE Prompt(i)
    <3>1. CASE Go(i, "done") /\ orphans' \subseteq orphans \cup {i}
      <4>1. stage'[i] = "done"
        BY <1>1, <3>1 DEF Go
      <4> QED BY <2>1, <3>1, <4>1 DEF PromptInv, OnlyCall
    <3>2. CASE /\ Go(i, "prompting") /\ orphans' = orphans /\ peer' = [peer EXCEPT ![i] = sessions[conversation[i]]]
               /\ \A j \in Calls : stage[j] = "prompting" => peer[j] # sessions[conversation[i]]
      <4>1. stage'[i] = "prompting" /\ peer'[i] = sessions[conversation[i]] /\ stage[i] = "activated"
        BY <1>1, <2>3, <3>2 DEF Go, Prompt
      <4> QED BY <2>1, <3>2, <4>1 DEF PromptInv, OnlyCall
    <3> QED BY <2>3, <3>1, <3>2 DEF Prompt
  <2>4. CASE \/ RegisterRelocation(i) \/ BeginRelocation(i) \/ Joined(i) \/ HostToolsResolved(i)
             \/ SessionOpened(i) \/ SessionNotOpened(i) \/ CleanUp(i) \/ CleanedUp(i)
             \/ DeleteConversation(i) \/ SessionDeleted(i) \/ DeletedClosed(i) \/ InactiveDeleted(i)
    <3>1. orphans' = orphans /\ stage[i] # "done"
      BY <2>4 DEF RegisterRelocation, BeginRelocation, Joined, HostToolsResolved, SessionOpened, CatalogOpened,
                  SessionNotOpened, CleanUp, CleanedUp, FailOpening, DeleteConversation, SessionDeleted,
                  DeletedClosed, InactiveDeleted, RemoveRow, InRuntime, catalogVars
    <3>2. stage'[i] # "prompting"
      BY <1>1, <2>4 DEF RegisterRelocation, BeginRelocation, Joined, HostToolsResolved, SessionOpened,
                  SessionNotOpened, CleanUp, CleanedUp, FailOpening, DeleteConversation, SessionDeleted,
                  DeletedClosed, InactiveDeleted, RemoveRow, TakeSession, Settle, Go
    <3> QED BY <1>2, <2>1, <3>1, <3>2
  <2> QED BY <1>4, <2>2, <2>3, <2>4 DEF Continue
<1>5. CASE \/ Shutdown \/ ShutdownRuntime \/ ShutdownEnds \/ UNCHANGED vars
           \/ (\E c \in Conversations : ShutdownSession(c)) \/ \E i \in Calls : SessionLost(i)
  <2>1. UNCHANGED <<orphans, stage, peer>>
    BY <1>5 DEF Shutdown, ShutdownRuntime, ShutdownEnds, ShutdownSession, SessionLost, vars, catalogVars, stageVars
  <2> QED BY <2>1 DEF PromptInv
<1> QED BY <1>3, <1>4, <1>5, StepsOfNext

LEMMA ContextsKept ==
    ASSUME TypeOK, ServiceInv, JoinInv, MachineInv, ContextInv, [Next]_vars
    PROVE  ContextInv'
<1> SUFFICES \A d \in Conversations : ContextAt(d)'
  BY PromptsKept DEF ContextInv
<1>0. PromptInv
  BY DEF ContextInv
<1>1. \A j \in Calls : actor'[j] = "running" => actor[j] \in {"running", "starting"}
  BY NoneRevives
<1>2. ASSUME UNCHANGED workspace
      PROVE  \A d \in Conversations : (Cataloged(d) => Cataloged(d)') /\ (Cataloged(d)' => Cataloged(d) \/ d \notin removed)
  BY <1>2 DEF Cataloged
<1>3. stage \in [Calls -> Stages]
  BY TypeParts DEF StageTypes
<1>4. ASSUME NEW i \in Calls, BeginStep(i)  PROVE \A d \in Conversations : ContextAt(d)'
  <2>1. OnlyCall(i) /\ QuietPrompt(i) /\ UNCHANGED <<contexts, turns, removed, orphans, workspace>>
    BY <1>4, BeginShape DEF QuietPrompt, InRuntime, catalogVars, agentVars
  <2> QED BY <1>1, <1>2, <2>1, QuietContext
<1>5. ASSUME NEW i \in Calls, Continue(i)  PROVE \A d \in Conversations : ContextAt(d)'
  <2>1. OnlyCall(i) /\ UNCHANGED <<operation, conversation>>
    BY <1>5, ContinueShape DEF requestVars
  <2>2. PICK c \in Conversations : c = conversation[i]
    BY <1>5, ContinueShape, HaveConversations
  <2>3. ASSUME ContextAt(c)'  PROVE \A d \in Conversations : ContextAt(d)'
    <3> SUFFICES ASSUME NEW d \in Conversations, d # c  PROVE ContextAt(d)'
      BY <2>3
    <3>1. /\ contexts'[d] = contexts[d] /\ turns'[d] = turns[d] /\ (d \in removed' <=> d \in removed)
          /\ (Cataloged(d)' <=> Cataloged(d))
      BY <1>5, <2>2, ContinueElsewhere DEF Cataloged
    <3>2. contexts[d] \in Seq(Calls)
      BY TypeParts DEF CatalogTypes
    <3>3. \A j \in Calls \ {i} : stage'[j] = stage[j] /\ peer'[j] = peer[j]
      BY <2>1 DEF OnlyCall
    <3>4. conversation[i] = c
      BY <2>2
    <3>5. ContextAt(d)
      BY DEF ContextInv
    <3>6. \A j \in Calls \ {i} : j \in orphans' <=> j \in orphans
      BY <1>5 DEF Continue, RegisterRelocation, BeginRelocation, Joined, HostToolsResolved, SessionOpened,
         CatalogOpened, SessionNotOpened, CleanUp, CleanedUp, FailOpening, Prompt, Prompted, DeleteConversation,
         SessionDeleted, DeletedClosed, InactiveDeleted, RemoveRow, InRuntime, catalogVars
    <3> QED BY <1>1, <2>1, <3>1, <3>3, <3>4, <3>5, <3>6, ContextStays
  <2>4. CASE \/ RegisterRelocation(i) \/ BeginRelocation(i) \/ Joined(i) \/ HostToolsResolved(i)
             \/ SessionNotOpened(i) \/ CleanUp(i) \/ CleanedUp(i) \/ DeleteConversation(i) \/ SessionDeleted(i)
    <3>1. UNCHANGED <<contexts, turns, removed, orphans, workspace>> /\ stage[i] \notin {"prompting", "done"}
      BY <2>4 DEF RegisterRelocation, BeginRelocation, Joined, HostToolsResolved, SessionNotOpened, CleanUp,
                  CleanedUp, FailOpening, DeleteConversation, SessionDeleted, InRuntime, catalogVars, agentVars
    <3>2. stage'[i] # "prompting"
      BY <1>3, <2>4 DEF RegisterRelocation, BeginRelocation, Joined, HostToolsResolved, SessionNotOpened, CleanUp,
                  CleanedUp, FailOpening, DeleteConversation, SessionDeleted, TakeSession, Settle, Go
    <3> QED BY <1>1, <1>2, <2>1, <3>1, <3>2, QuietContext DEF QuietPrompt
  <2>5. CASE SessionOpened(i)
    <3>1. /\ UNCHANGED <<contexts, turns, removed, orphans>> /\ stage[i] = "opening" /\ stage'[i] # "prompting"
      BY <1>3, <2>5 DEF SessionOpened, CatalogOpened, catalogVars, Settle, Go
    <3>2. \A d \in Conversations : (Cataloged(d) => Cataloged(d)') /\ (Cataloged(d)' => Cataloged(d) \/ d \notin removed)
      <4>1. CASE UNCHANGED catalogVars
        BY <1>2, <4>1 DEF catalogVars
      <4>2. CASE CatalogOpened(i, c)
        <5>1. Opens(i) /\ target[i] \in Workspaces
          BY <2>5 DEF SessionOpened, Opens, ServiceInv, RecordInv
        <5>2. Cataloged(c) \/ c \notin removed
          BY <2>2, <4>2, <5>1 DEF CatalogOpened, IsCreation, ServiceInv, CreationInv, Registered
        <5>3. \A d \in Conversations : workspace'[d] = workspace[d] \/ (d = c /\ workspace'[d] = target[i])
          BY <4>2, TypeParts DEF CatalogOpened, CatalogTypes
        <5> QED BY <5>1, <5>2, <5>3, NoneAssumption DEF Cataloged
      <4> QED BY <2>2, <2>5, <4>1, <4>2 DEF SessionOpened
    <3> QED BY <1>1, <2>1, <3>1, <3>2, QuietContext DEF QuietPrompt
  <2>6. CASE Prompt(i)
    <3>1. stage[i] = "activated" /\ UNCHANGED <<turns, removed, workspace, actor, sessions>>
      BY <2>6 DEF Prompt, agentVars, runtimeVars
    <3>2. CASE Go(i, "done") /\ UNCHANGED <<contexts, orphans>>
      <4>1. stage'[i] = "done"
        BY <1>3, <3>2 DEF Go
      <4> QED BY <1>1, <1>2, <2>1, <3>1, <3>2, <4>1, QuietContext DEF QuietPrompt
    <3>3. CASE /\ Cataloged(c) /\ Accepting(c) /\ \A j \in Calls : stage[j] = "prompting" => peer[j] # sessions[c]
               /\ contexts' = [contexts EXCEPT ![c] = Append(@, i)] /\ peer' = [peer EXCEPT ![i] = sessions[c]]
               /\ Go(i, "prompting") /\ orphans' = orphans
      BY <1>0, <2>1, <2>2, <2>3, <3>1, <3>3, ContextWritten DEF ContextInv
    <3>4. CASE /\ Cataloged(c) /\ contexts' = [contexts EXCEPT ![c] = Append(@, i)]
               /\ Go(i, "done") /\ orphans' = orphans \cup {i} /\ peer' = peer
      BY <1>0, <2>1, <2>2, <2>3, <3>1, <3>4, ContextWritten DEF ContextInv
    <3> QED BY <2>2, <2>6, <3>2, <3>3, <3>4 DEF Prompt
  <2>7. CASE Prompted(i)
    <3>1. stage[i] = "prompting" /\ Go(i, "done") /\ UNCHANGED <<removed, workspace, actor, peer>>
      BY <2>7 DEF Prompted
    <3>2. CASE /\ actor[peer[i]] = "running" /\ turns' = [turns EXCEPT ![c] = Append(@, i)]
               /\ UNCHANGED <<contexts, orphans>>
      BY <1>0, <2>1, <2>2, <2>3, <3>1, <3>2, ContextSent DEF ContextInv
    <3>3. CASE /\ UNCHANGED turns
               /\ \/ contexts' = [contexts EXCEPT ![c] = Kept(@, Calls \ {i})] /\ orphans' = orphans
                  \/ contexts' = contexts /\ orphans' = orphans \cup {i}
      BY <1>0, <2>1, <2>2, <2>3, <3>1, <3>3, ContextDropped DEF ContextInv
    <3> QED BY <2>2, <2>7, <3>2, <3>3 DEF Prompted
  <2>8. CASE DeletedClosed(i) \/ InactiveDeleted(i)
    <3>1. stage[i] \notin {"prompting", "done"} /\ Go(i, "done") /\ turns' = turns
      BY <2>8 DEF DeletedClosed, InactiveDeleted, RemoveRow, agentVars
    <3>2. stage'[i] = "done"
      BY <1>3, <3>1 DEF Go
    <3>3. CASE UNCHANGED catalogVars
      BY <1>1, <1>2, <2>1, <3>1, <3>2, <3>3, QuietContext DEF QuietPrompt, catalogVars
    <3>4. CASE /\ Cataloged(c) /\ workspace' = [workspace EXCEPT ![c] = NoWorkspace]
               /\ contexts' = [contexts EXCEPT ![c] = <<>>] /\ removed' = removed \cup {c}
      <4>1. ~Cataloged(c)' /\ c \in removed' /\ contexts'[c] = <<>>
        BY <3>4, TypeParts DEF CatalogTypes, Cataloged
      <4> QED BY <2>3, <4>1 DEF ContextAt
    <3> QED BY <2>2, <2>8, <3>3, <3>4 DEF DeletedClosed, InactiveDeleted, RemoveRow
  <2> QED BY <1>5, <2>4, <2>5, <2>6, <2>7, <2>8 DEF Continue
<1>6. CASE \/ Shutdown \/ ShutdownRuntime \/ ShutdownEnds \/ UNCHANGED vars
           \/ (\E c \in Conversations : ShutdownSession(c)) \/ \E i \in Calls : SessionLost(i)
  <2>1. UNCHANGED <<contexts, turns, removed, orphans, workspace, stage, peer, conversation>>
    BY <1>6 DEF Shutdown, ShutdownRuntime, ShutdownEnds, ShutdownSession, SessionLost, vars, catalogVars, agentVars, requestVars,
                stageVars
  <2> QED BY <1>1, <1>2, <2>1, ContextStays DEF ContextInv
<1> QED BY <1>4, <1>5, <1>6, StepsOfNext

(* The turn contexts of a conversation are those of the turns the agent     *)
(* accepted, in their order, whatever prompts are rejected in between; what *)
(* stands between them is the context of a prompt under way and those that  *)
(* a failed deletion left (sendMessage, catalog.removeTurnContext).         *)
THEOREM ContextsAreThoseOfTurns == Spec => []ContextsMatchTurns
<1>1. Init => ContextInv
  <2>0. Init => PromptInv
    BY DEF Init, PromptInv
  <2> SUFFICES ASSUME Init, NEW c \in Conversations  PROVE ContextAt(c)
    BY <2>0 DEF ContextInv
  <2>1. /\ contexts[c] = <<>> /\ turns[c] = <<>> /\ \A i \in Calls : stage[i] = "idle"
    BY DEF Init
  <2>2. SentContexts(c) = <<>>
    BY <2>1, KeptNothing DEF SentContexts
  <2> QED BY <2>1, <2>2 DEF ContextAt
<1>2. RuntimeInv /\ ContextInv /\ [Next]_vars => ContextInv'
  BY ContextsKept DEF RuntimeInv
<1>3. ContextInv => ContextsMatchTurns
  BY DEF ContextInv, ContextAt, ContextsMatchTurns
<1> QED BY <1>1, <1>2, <1>3, RuntimeInvHolds, PTL DEF Spec

=============================================================================
