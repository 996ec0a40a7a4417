--------------------------- MODULE ChannelDelivery ---------------------------
(***************************************************************************)
(* From an agent's answer to a message in a channel: the drafts and         *)
(* deliveries of the catalog (electron/conversation/catalog.ts), the        *)
(* renderer that edits and delivers them (collaboration/store.ts and the    *)
(* draft dialog), the client that carries a delivery out                    *)
(* (ConversationCollaborationClient.ts) and the channel transport           *)
(* (YunxinWebChannelTransport.ts) over a provider that may lose answers.    *)
(*                                                                          *)
(* The catalog commits a command when the renderer calls it; the rest of    *)
(* the calling coroutine is an action of its own. Replies that change what  *)
(* the renderer shows reach it in the order of the calls, through mailbox.  *)
(* One conversation, bound to one channel of one account. The text of a     *)
(* message is the version of the draft it was read from.                    *)
(***************************************************************************)
EXTENDS Integers, Sequences, FiniteSets

CONSTANTS
    Drafts,        \* ids of drafts
    NoDraft,       \* no draft
    Flows,         \* calls of deliverDraft that may be under way together
    NoFlow,        \* no such call
    MaxVersion,    \* bound: versions of a draft
    MaxSends,      \* bound: messages the provider accepts, it refuses any other
    MaxFaults,     \* bound: catalog writes and channel calls that fail
    MaxGenerations \* bound: times the workspace is entered

ASSUME NoneAssumption == NoDraft \notin Drafts /\ NoFlow \notin Flows
ASSUME BoundAssumption ==
    /\ MaxVersion \in Nat \ {0} /\ MaxSends \in Nat
    /\ MaxFaults \in Nat /\ MaxGenerations \in Nat

Versions == 1..MaxVersion
\* A delivery is identified by its draft and version, as is its idempotencyKey.
Keys == Drafts \X Versions
NoKey == <<>>
\* The client ids the SDK gives to messages, in the order they are sent.
Refs == 1..MaxSends
NoRef == 0

VARIABLES
    version,    \* catalog: current_version of every draft, 0 if there is none
    status,     \* catalog: status of every delivery, "none" if there is none
    sentRef,    \* catalog: sentMessageRef
    selected,   \* store: conversationId is set
    loading,    \* store: the detail selectConversation has read and not applied
    viewDraft,  \* store: collaboration.drafts, as their currentVersion
    viewStatus, \* store: collaboration.deliveries
    dialog,     \* draftDialogId
    edited,     \* DraftEditor: its text is not the one of the draft it shows
    sending,    \* store: sending
    generation, \* store: lifecycleGeneration; the bridge and transport with it
    connected,  \* transport: phase is "connected"
    sentByKey,  \* transport: messages it remembers having sent
    mailbox,    \* replies of the main process on their way to the store
    flow,       \* where every call of deliverDraft stands
    keyOf,      \* provider: idempotencyKey in the extension of a message
    textOf,     \* provider: text of a message
    undecided,  \* provider: messages it has received and neither posted nor lost
    channel,    \* provider: the deliveries' messages in the channel, oldest first
    missed,     \* history: deliveries a lookup did not find although sent
    faults      \* failures so far

catalogVars == <<version, status, sentRef>>
viewVars == <<selected, loading, viewDraft, viewStatus, dialog, edited>>
sessionVars == <<generation, connected>>
providerVars == <<keyOf, textOf, undecided, channel>>
vars == <<catalogVars, viewVars, sending, sessionVars, sentByKey, mailbox, flow, providerVars, missed, faults>>

Statuses == {"none", "pending", "sending", "sent", "failed"}
IdleFlow == [pc |-> "idle", gen |-> 0, key |-> NoKey, text |-> 0, seen |-> "none", ref |-> NoRef]
EmptyDrafts == [d \in Drafts |-> 0]
EmptyStatus == [k \in Keys |-> "none"]

\* ConversationService.getConversation as the renderer uses it
Snapshot == [drafts |-> version, deliveries |-> status]

Init ==
    /\ version = EmptyDrafts
    /\ status = EmptyStatus /\ sentRef = [k \in Keys |-> NoRef]
    /\ selected = FALSE /\ loading = {}
    /\ viewDraft = EmptyDrafts /\ viewStatus = EmptyStatus
    /\ dialog = NoDraft /\ edited = FALSE /\ sending = FALSE
    /\ generation = 1 /\ connected = FALSE
    /\ sentByKey = [k \in Keys |-> NoRef]
    /\ mailbox = <<>>
    /\ flow = [f \in Flows |-> IdleFlow]
    /\ keyOf = [r \in Refs |-> NoKey] /\ textOf = [r \in Refs |-> 0]
    /\ undecided = {} /\ channel = <<>>
    /\ missed = {} /\ faults = 0

-----------------------------------------------------------------------------
(* The steps the handlers share. *)

Goto(f, pc) == flow' = [flow EXCEPT ![f].pc = pc]
Fault == faults < MaxFaults /\ faults' = faults + 1

\* A call is refused: because it must be, or by a failure of its own (a storage
\* error, a clock that went back, a request that timed out).
Refused(allowed) == IF allowed THEN Fault ELSE UNCHANGED faults

\* A call took effect. Its caller continues in one way if it learns so, and in
\* the other if the answer is lost or the commit reports an error.
Accepted(f, learns, fails) == (Goto(f, learns) /\ UNCHANGED faults) \/ (Goto(f, fails) /\ Fault)

Post(reply) == mailbox' = Append(mailbox, reply)

\* The delivery that deliverDraft returns travels back to the store.
Return(f, result) ==
    /\ Goto(f, "returning")
    /\ Post([kind |-> "delivery", flow |-> f, gen |-> flow[f].gen,
             key |-> flow[f].key, status |-> result])

\* transitionDelivery: which status a delivery may leave for which.
MaySend(k) == status[k] \notin {"none", "sent"}
MayFail(k) == status[k] \in {"sending", "failed"}
MayComplete(k, r) == MayFail(k) \/ (status[k] = "sent" /\ sentRef[k] = r)

ClearView ==
    /\ selected' = FALSE /\ loading' = {}
    /\ viewDraft' = EmptyDrafts /\ viewStatus' = EmptyStatus
    /\ edited' = FALSE

\* The editor takes its text from the draft it shows, and again when that changes.
KeepEdit == edited' = (edited /\ dialog' = dialog /\ viewDraft'[dialog] = viewDraft[dialog])

-----------------------------------------------------------------------------
(* The draft dialog and the store. *)

\* openDraftEditor and createDraft: the modal dialog hides the button.
CreateDraft(d) ==
    /\ selected /\ loading = {} /\ dialog = NoDraft
    /\ version[d] = 0
    /\ version' = [version EXCEPT ![d] = 1]
    /\ Post([kind |-> "draft", gen |-> generation, draft |-> d, version |-> 1])
    /\ UNCHANGED <<status, sentRef, viewVars, sending, sessionVars, sentByKey, flow, providerVars, missed, faults>>

\* The user changes the text, of a draft that may get another version (a bound),
\* or makes it what it was.
EditDraft(d) ==
    /\ dialog = d /\ viewDraft[d] # 0 /\ ~edited
    /\ viewStatus[<<d, viewDraft[d]>>] # "sent"
    /\ version[d] < MaxVersion
    /\ edited' = TRUE
    /\ UNCHANGED <<catalogVars, selected, loading, viewDraft, viewStatus, dialog, sending, sessionVars, sentByKey, mailbox, flow, providerVars, missed, faults>>

UndoEdit(d) ==
    /\ dialog = d /\ edited
    /\ viewStatus[<<d, viewDraft[d]>>] # "sent"
    /\ edited' = FALSE
    /\ UNCHANGED <<catalogVars, selected, loading, viewDraft, viewStatus, dialog, sending, sessionVars, sentByKey, mailbox, flow, providerVars, missed, faults>>

\* saveDialogDraft and updateDraft: hidden once sent, disabled while sending or
\* without an edit, which stays one until the reply.
SaveDraft(d) ==
    /\ dialog = d /\ viewDraft[d] # 0 /\ ~sending /\ edited
    /\ viewStatus[<<d, viewDraft[d]>>] # "sent"
    /\ version[d] \in 1..(MaxVersion - 1)
    /\ version' = [version EXCEPT ![d] = @ + 1]
    /\ Post([kind |-> "draft", gen |-> generation, draft |-> d, version |-> version[d] + 1])
    /\ UNCHANGED <<status, sentRef, viewVars, sending, sessionVars, sentByKey, flow, providerVars, missed, faults>>

\* deliverDraft up to its first await: the button is disabled while the text is
\* edited or the shown delivery is sending or sent; prepareDelivery returns the
\* delivery of the catalog's current version, and makes it if there is none.
ConfirmDelivery(f, d) ==
    /\ dialog = d /\ viewDraft[d] # 0 /\ ~edited /\ ~sending /\ flow[f] = IdleFlow
    /\ viewStatus[<<d, viewDraft[d]>>] \notin {"sending", "sent"}
    /\ sending' = TRUE
    /\ LET called == [IdleFlow EXCEPT !.gen = generation, !.text = viewDraft[d]]
           k == <<d, version[d]>>
           prepared == IF status[k] = "none" THEN "pending" ELSE status[k]
       IN  \/ /\ version[d] # 0
              /\ status' = [status EXCEPT ![k] = prepared]
              /\ flow' = [flow EXCEPT ![f] = [called EXCEPT !.pc = "prepared", !.key = k, !.seen = prepared]]
              /\ UNCHANGED faults
           \/ /\ Refused(version[d] # 0)
              /\ flow' = [flow EXCEPT ![f] = [called EXCEPT !.pc = "threw"]]
              /\ UNCHANGED status
    /\ UNCHANGED <<version, sentRef, viewVars, sessionVars, sentByKey, mailbox, providerVars, missed>>

\* The agent finishes a turn: handleEvent calls refreshCollaboration.
RefreshCollaboration ==
    /\ selected
    /\ \A i \in DOMAIN mailbox : mailbox[i].kind # "detail"
    /\ Post([kind |-> "detail", flow |-> NoFlow, gen |-> generation, detail |-> Snapshot])
    /\ UNCHANGED <<catalogVars, viewVars, sending, sessionVars, sentByKey, flow, providerVars, missed, faults>>

\* selectConversation: the view is emptied, the detail read; it is applied once
\* the history has been loaded too, which may take as long as a restore.
SelectConversation ==
    /\ connected
    /\ selected' = TRUE /\ loading' = {Snapshot}
    /\ viewDraft' = EmptyDrafts /\ viewStatus' = EmptyStatus /\ edited' = FALSE
    /\ UNCHANGED <<catalogVars, dialog, sending, sessionVars, sentByKey, mailbox, flow, providerVars, missed, faults>>

ApplyDetail ==
    \E detail \in loading :
        /\ loading' = {}
        /\ viewDraft' = detail.drafts /\ viewStatus' = detail.deliveries
        /\ UNCHANGED <<catalogVars, selected, dialog, sending, sessionVars, sentByKey, mailbox, flow, providerVars, missed, faults>>
        /\ KeepEdit

CloseDialog ==
    /\ dialog # NoDraft /\ dialog' = NoDraft /\ edited' = FALSE
    /\ UNCHANGED <<catalogVars, selected, loading, viewDraft, viewStatus, sending, sessionVars, sentByKey, mailbox, flow, providerVars, missed, faults>>

-----------------------------------------------------------------------------
(* Replies that the store applies, if its generation is still theirs. *)

\* createDraft or updateDraft returns; a new draft opens the dialog.
ReceiveDraft(reply) ==
    /\ reply.kind = "draft"
    /\ LET d == reply.draft
           created == reply.version = 1
       IN  IF reply.gen = generation /\ (created \/ viewDraft[d] # 0)
           THEN /\ viewDraft' = [viewDraft EXCEPT ![d] = reply.version]
                /\ dialog' = IF created THEN d ELSE dialog
           ELSE UNCHANGED <<viewDraft, dialog>>
    /\ UNCHANGED <<viewStatus, sending, flow>>

\* refreshCollaboration returns. For a deliverDraft that threw it is the last
\* thing awaited, and finally resets sending.
ReceiveDetail(reply) ==
    /\ reply.kind = "detail"
    /\ IF reply.gen = generation /\ selected
       THEN viewDraft' = reply.detail.drafts /\ viewStatus' = reply.detail.deliveries
       ELSE UNCHANGED <<viewDraft, viewStatus>>
    /\ IF reply.flow \in Flows
       THEN /\ flow' = [flow EXCEPT ![reply.flow] = IdleFlow]
            /\ sending' = IF reply.gen = generation THEN FALSE ELSE sending
       ELSE UNCHANGED <<flow, sending>>
    /\ UNCHANGED dialog

\* Defect: the answer is dropped when the conversation is no longer selected.
ReceiveDeliverySelected(reply) ==
    /\ reply.kind = "delivery"
    /\ flow' = [flow EXCEPT ![reply.flow] = IdleFlow]
    /\ IF reply.gen = generation /\ selected
       THEN /\ viewStatus' = [viewStatus EXCEPT ![reply.key] = reply.status]
            /\ sending' = FALSE
       ELSE UNCHANGED <<viewStatus, sending>>
    /\ UNCHANGED <<viewDraft, dialog>>

\* deliverDraft of the client returns a delivery.
ReceiveDelivery(reply) ==
    /\ reply.kind = "delivery"
    /\ flow' = [flow EXCEPT ![reply.flow] = IdleFlow]
    /\ IF reply.gen = generation
       THEN /\ viewStatus' = [viewStatus EXCEPT ![reply.key] = reply.status]
            /\ sending' = FALSE
       ELSE UNCHANGED <<viewStatus, sending>>
    /\ UNCHANGED <<viewDraft, dialog>>

Receive ==
    /\ mailbox # <<>> /\ mailbox' = Tail(mailbox)
    /\ \/ ReceiveDraft(Head(mailbox))
       \/ ReceiveDetail(Head(mailbox))
       \/ ReceiveDelivery(Head(mailbox))
    /\ KeepEdit
    /\ UNCHANGED <<catalogVars, selected, loading, sessionVars, sentByKey, providerVars, missed, faults>>

-----------------------------------------------------------------------------
(* ConversationCollaborationClient.deliverDraft, step by step. *)

\* Defect: a call goes on with the transport of a later session.
UsableConnected(f) == connected

\* The transport of a call is the one of the workspace it began in.
Usable(f) == connected /\ flow[f].gen = generation

\* Defect: the message is sent although the catalog did not take the mark.
MarkSendingUnheeded(f) ==
    LET k == flow[f].key IN
    \/ /\ MaySend(k)
       /\ status' = [status EXCEPT ![k] = "sending"]
       /\ Accepted(f, "marked", "threw")
    \/ Refused(MaySend(k)) /\ Goto(f, "marked") /\ UNCHANGED status

\* markDeliverySending
MarkSending(f) ==
    LET k == flow[f].key IN
    \/ /\ MaySend(k)
       /\ status' = [status EXCEPT ![k] = "sending"]
       /\ Accepted(f, "marked", "threw")
    \/ Refused(MaySend(k)) /\ Goto(f, "threw") /\ UNCHANGED status

\* prepareDelivery has returned.
Prepared(f) ==
    /\ flow[f].pc = "prepared"
    /\ \/ /\ flow[f].seen = "sent"
          /\ Return(f, "sent") /\ UNCHANGED <<status, sentRef, faults>>
       \/ /\ flow[f].seen # "sent" /\ ~Usable(f)
          /\ Goto(f, "threw") /\ UNCHANGED <<status, sentRef, mailbox, faults>>
       \/ /\ flow[f].seen \in {"sending", "failed"} /\ Usable(f)
          /\ Goto(f, "looking") /\ UNCHANGED <<status, sentRef, mailbox, faults>>
       \/ /\ flow[f].seen = "pending" /\ Usable(f)
          /\ MarkSending(f) /\ UNCHANGED <<sentRef, mailbox>>
    /\ UNCHANGED <<version, viewVars, sending, sessionVars, sentByKey, providerVars, missed>>

\* Defect: the renderer takes the delivery for sent whatever the catalog says.
CompleteUnheeded(f, r, refusal) ==
    LET k == flow[f].key IN
    \/ /\ MayComplete(k, r)
       /\ status' = [status EXCEPT ![k] = "sent"]
       /\ sentRef' = [sentRef EXCEPT ![k] = r]
       /\ Return(f, "sent") /\ UNCHANGED faults
    \/ /\ Refused(MayComplete(k, r))
       /\ Return(f, "sent") /\ UNCHANGED <<status, sentRef>>

\* completeDelivery; a refusal continues as the caller says.
Complete(f, r, refusal) ==
    LET k == flow[f].key IN
    \/ /\ MayComplete(k, r)
       /\ status' = [status EXCEPT ![k] = "sent"]
       /\ sentRef' = [sentRef EXCEPT ![k] = r]
       /\ \/ Return(f, "sent") /\ UNCHANGED faults
          \/ Goto(f, refusal) /\ Fault /\ UNCHANGED mailbox
    \/ /\ Refused(MayComplete(k, r))
       /\ Goto(f, refusal) /\ UNCHANGED <<status, sentRef, mailbox>>

\* Defect: the catalog lets a sent delivery fail.
FailAlways(k) ==
    \/ /\ status[k] # "none"
       /\ status' = [status EXCEPT ![k] = "failed"]
       /\ UNCHANGED faults
    \/ Refused(TRUE) /\ UNCHANGED status

\* failDelivery: the catalog's part.
Fail(k) ==
    \/ /\ MayFail(k)
       /\ status' = [status EXCEPT ![k] = "failed"]
       /\ UNCHANGED faults
    \/ Refused(MayFail(k)) /\ UNCHANGED status

\* findDeliveredMessage reads the 50 newest messages of the channel. Others
\* write and revoke messages too, so the page ends anywhere in ours.
Pages == {SubSeq(channel, n, Len(channel)) : n \in 1..(Len(channel) + 1)}
\* find: the oldest message of the page that carries the key.
FirstOn(page, k, i) == keyOf[page[i]] = k /\ \A j \in 1..(i - 1) : keyOf[page[j]] # k
Posted == {channel[i] : i \in DOMAIN channel}
\* The messages a delivery has caused, the ones that may still appear included.
MessagesOf(k) == {r \in Posted \union undecided : keyOf[r] = k}

LookupFails(f) ==
    /\ flow[f].pc = "looking"
    /\ Refused(Usable(f)) /\ Goto(f, "threw")
    /\ UNCHANGED <<catalogVars, viewVars, sending, sessionVars, sentByKey, mailbox, providerVars, missed>>

LookupFinds(f) ==
    /\ flow[f].pc = "looking" /\ Usable(f)
    /\ \E page \in Pages : \E i \in DOMAIN page :
          FirstOn(page, flow[f].key, i) /\ Complete(f, page[i], "threw")
    /\ UNCHANGED <<version, viewVars, sending, sessionVars, sentByKey, providerVars, missed>>

\* An interrupted delivery becomes an uncertain failure, that the window shows.
Uncertain(f) ==
    LET k == flow[f].key IN
    \/ /\ MayFail(k)
       /\ status' = [status EXCEPT ![k] = "failed"]
       /\ Return(f, "failed") /\ UNCHANGED faults
    \/ Refused(MayFail(k)) /\ Goto(f, "threw") /\ UNCHANGED <<status, mailbox>>

\* Defect: a delivery that failed is sent again without a look at the channel.
LookupOmitted(f) ==
    /\ flow[f].pc = "looking" /\ Usable(f)
    /\ IF flow[f].seen = "sending"
       THEN Uncertain(f)
       ELSE MarkSending(f) /\ UNCHANGED mailbox
    /\ UNCHANGED <<version, sentRef, viewVars, sending, sessionVars, sentByKey, providerVars, missed>>

\* The page lacks the message: a failed delivery is sent again.
LookupMisses(f) ==
    LET k == flow[f].key IN
    /\ flow[f].pc = "looking" /\ Usable(f)
    /\ \E page \in Pages : \A i \in DOMAIN page : keyOf[page[i]] # k
    /\ IF flow[f].seen = "sending"
       THEN Uncertain(f)
       ELSE MarkSending(f) /\ UNCHANGED mailbox
    /\ missed' = IF MessagesOf(k) = {} THEN missed ELSE missed \union {k}
    /\ UNCHANGED <<version, sentRef, viewVars, sending, sessionVars, sentByKey, providerVars>>

\* markDeliverySending has returned: YunxinWebChannelTransport.sendMessage.
Send(f) ==
    LET k == flow[f].key IN
    /\ flow[f].pc = "marked"
    /\ \/ /\ Refused(Usable(f) /\ (sentByKey[k] # NoRef \/ \E r \in Refs : keyOf[r] = NoKey))
          /\ Goto(f, "failing")
          /\ UNCHANGED <<status, sentRef, mailbox, keyOf, textOf, undecided>>
       \/ /\ Usable(f) /\ sentByKey[k] # NoRef
          /\ Complete(f, sentByKey[k], "failing")
          /\ UNCHANGED <<keyOf, textOf, undecided>>
       \/ /\ Usable(f) /\ sentByKey[k] = NoRef
          /\ \E r \in Refs :
                /\ keyOf[r] = NoKey /\ \A q \in Refs : q < r => keyOf[q] # NoKey
                /\ keyOf' = [keyOf EXCEPT ![r] = k]
                /\ textOf' = [textOf EXCEPT ![r] = flow[f].text]
                /\ undecided' = undecided \union {r}
                /\ flow' = [flow EXCEPT ![f].pc = "waiting", ![f].ref = r]
          /\ UNCHANGED <<status, sentRef, mailbox, faults>>
    /\ UNCHANGED <<version, viewVars, sending, sessionVars, sentByKey, channel, missed>>

\* Defect: any answer of the provider counts as success.
SendAnsweredAnyhow(f) ==
    /\ flow[f].pc = "waiting"
    /\ Complete(f, flow[f].ref, "failing")
    /\ UNCHANGED <<version, viewVars, sending, sessionVars, sentByKey, providerVars, missed>>

\* The provider reports that it posted the message.
SendSucceeds(f) ==
    /\ flow[f].pc = "waiting" /\ flow[f].ref \in Posted
    /\ sentByKey' = IF flow[f].gen = generation
                    THEN [sentByKey EXCEPT ![flow[f].key] = flow[f].ref] ELSE sentByKey
    /\ Complete(f, flow[f].ref, "failing")
    /\ UNCHANGED <<version, viewVars, sending, sessionVars, providerVars, missed>>

\* The SDK gives up, whether the provider posted, lost or still holds the message.
SendFails(f) ==
    /\ flow[f].pc = "waiting"
    /\ Refused(Usable(f) /\ flow[f].ref \in Posted \union undecided)
    /\ Goto(f, "failing")
    /\ UNCHANGED <<catalogVars, viewVars, sending, sessionVars, sentByKey, mailbox, providerVars, missed>>

\* catch: failDelivery, whose own failure is swallowed.
FailDelivery(f) ==
    /\ flow[f].pc = "failing"
    /\ Fail(flow[f].key) /\ Goto(f, "threw")
    /\ UNCHANGED <<version, sentRef, viewVars, sending, sessionVars, sentByKey, mailbox, providerVars, missed>>

\* The store's catch and finally: refreshCollaboration unless the generation
\* has changed; without a conversation, or if it fails, it changes nothing.
Threw(f) ==
    /\ flow[f].pc = "threw"
    /\ LET current == flow[f].gen = generation IN
       \/ /\ current /\ selected
          /\ Goto(f, "returning")
          /\ Post([kind |-> "detail", flow |-> f, gen |-> generation, detail |-> Snapshot])
          /\ UNCHANGED <<sending, faults>>
       \/ /\ Refused(current /\ selected)
          /\ flow' = [flow EXCEPT ![f] = IdleFlow]
          /\ sending' = IF current THEN FALSE ELSE sending
          /\ UNCHANGED mailbox
    /\ UNCHANGED <<catalogVars, viewVars, sessionVars, sentByKey, providerVars, missed>>

DeliverDraft(f) ==
    \/ Prepared(f) \/ LookupFails(f) \/ LookupFinds(f) \/ LookupMisses(f)
    \/ Send(f) \/ SendSucceeds(f) \/ SendFails(f) \/ FailDelivery(f) \/ Threw(f)

-----------------------------------------------------------------------------
(* The provider, and what ends a session. *)

ProviderPosts(r) ==
    /\ r \in undecided
    /\ undecided' = undecided \ {r} /\ channel' = Append(channel, r)
    /\ UNCHANGED <<catalogVars, viewVars, sending, sessionVars, sentByKey, mailbox, flow, keyOf, textOf, missed, faults>>

ProviderLoses(r) ==
    /\ r \in undecided /\ undecided' = undecided \ {r}
    /\ UNCHANGED <<catalogVars, viewVars, sending, sessionVars, sentByKey, mailbox, flow, keyOf, textOf, channel, missed, faults>>

Connect ==
    /\ ~connected /\ connected' = TRUE
    /\ UNCHANGED <<catalogVars, viewVars, sending, generation, sentByKey, mailbox, flow, providerVars, missed, faults>>

\* disconnectChannel: the transport resets its memory, bindChannel the view.
Disconnect ==
    /\ connected /\ connected' = FALSE
    /\ sentByKey' = [k \in Keys |-> NoRef]
    /\ ClearView
    /\ UNCHANGED <<catalogVars, dialog, sending, generation, mailbox, flow, providerVars, missed, faults>>

\* The workspace is left and entered again: dispose, then configure with a new
\* transport. Calls under way continue with the old one.
SwitchWorkspace ==
    /\ generation < MaxGenerations /\ generation' = generation + 1
    /\ connected' = FALSE /\ sending' = FALSE
    /\ sentByKey' = [k \in Keys |-> NoRef]
    /\ ClearView
    /\ UNCHANGED <<catalogVars, dialog, mailbox, flow, providerVars, missed, faults>>

\* The renderer is reloaded, or the application exits and is started again.
Restart ==
    /\ connected' = FALSE /\ sending' = FALSE
    /\ sentByKey' = [k \in Keys |-> NoRef]
    /\ mailbox' = <<>> /\ flow' = [f \in Flows |-> IdleFlow]
    /\ ClearView /\ dialog' = NoDraft
    /\ UNCHANGED <<catalogVars, generation, providerVars, missed, faults>>

Next ==
    \/ \E d \in Drafts : CreateDraft(d) \/ EditDraft(d) \/ UndoEdit(d) \/ SaveDraft(d)
    \/ \E d \in Drafts, f \in Flows : ConfirmDelivery(f, d)
    \/ RefreshCollaboration \/ SelectConversation \/ ApplyDetail \/ CloseDialog \/ Receive
    \/ \E f \in Flows : DeliverDraft(f)
    \/ \E r \in Refs : ProviderPosts(r) \/ ProviderLoses(r)
    \/ Connect \/ Disconnect \/ SwitchWorkspace \/ Restart

Spec == Init /\ [][Next]_vars

\* What runs by itself: calls under way, replies, a loaded detail, and the
\* provider deciding on what it received.
Fairness ==
    /\ \A f \in Flows : WF_vars(DeliverDraft(f))
    /\ WF_vars(Receive) /\ WF_vars(ApplyDetail)
    /\ \A r \in Refs : WF_vars(ProviderPosts(r) \/ ProviderLoses(r))

FairSpec == Spec /\ Fairness

\* The same with a user who stays connected to the conversation, leaves no edit
\* open and confirms whenever the window offers it.
PersistentUser ==
    /\ WF_vars(Connect) /\ WF_vars(~selected /\ SelectConversation)
    /\ \A d \in Drafts : WF_vars(UndoEdit(d)) /\ SF_vars(\E f \in Flows : ConfirmDelivery(f, d))

PersistentSpec == FairSpec /\ PersistentUser

-----------------------------------------------------------------------------
(* Properties *)

Pcs == {"idle", "prepared", "looking", "marked", "waiting", "failing", "returning", "threw"}
MaybeKey == Keys \union {NoKey}
MaybeRef == Refs \union {NoRef}
DraftMap == [Drafts -> 0..MaxVersion]
StatusMap == [Keys -> Statuses]
FlowRecords == [pc : Pcs, gen : Nat, key : MaybeKey, text : 0..MaxVersion, seen : Statuses, ref : MaybeRef]
Details == [drafts : DraftMap, deliveries : StatusMap]
Replies ==
    [kind : {"draft"}, gen : Nat, draft : Drafts, version : Versions]
        \union [kind : {"detail"}, flow : Flows \union {NoFlow}, gen : Nat, detail : Details]
        \union [kind : {"delivery"}, flow : Flows, gen : Nat, key : Keys, status : Statuses]

\* Every variable has the type its declaration in the source gives it, a sent
\* delivery has a message, as the table's CHECK demands, and a call under way
\* has the delivery it prepared.
TypeOK ==
    /\ version \in DraftMap
    /\ status \in StatusMap /\ sentRef \in [Keys -> MaybeRef]
    /\ \A k \in Keys : status[k] = "sent" <=> sentRef[k] # NoRef
    /\ selected \in BOOLEAN
    /\ loading \subseteq Details
    /\ viewDraft \in DraftMap /\ viewStatus \in StatusMap /\ dialog \in Drafts \union {NoDraft}
    /\ edited \in BOOLEAN /\ sending \in BOOLEAN /\ generation \in Nat /\ connected \in BOOLEAN
    /\ sentByKey \in [Keys -> MaybeRef]
    /\ mailbox \in Seq(Replies)
    /\ flow \in [Flows -> FlowRecords]
    /\ \A f \in Flows : flow[f].pc \notin {"idle", "threw", "returning"} => flow[f].key \in Keys
    /\ keyOf \in [Refs -> MaybeKey] /\ textOf \in [Refs -> 0..MaxVersion]
    /\ undecided \subseteq Refs /\ channel \in Seq(Refs)
    /\ missed \subseteq Keys /\ faults \in Nat

\* A message reaches the provider only after its delivery has durably left
\* "pending": whatever is in the channel, the catalog knows it may be there.
MessagesAreOnRecord ==
    \A r \in Refs : keyOf[r] # NoKey => status[keyOf[r]] \notin {"none", "pending"}

\* The message a sent delivery names is in the channel and carries its key.
SentDeliveriesArePosted ==
    \A k \in Keys : status[k] = "sent" => sentRef[k] \in Posted /\ keyOf[sentRef[k]] = k

\* A delivery puts more than one message into the channel only if a lookup
\* missed the one that was there: because the provider had not posted it yet,
\* or because it had left the page. No crash, disconnection, failed write, lost
\* answer, change of workspace or second confirmation does so by itself.
OneMessagePerDelivery ==
    \A k \in Keys \ missed : \A q, r \in MessagesOf(k) : q = r

\* The window says "sent" only of deliveries that the catalog has as sent.
ShownSentIsSent == \A k \in Keys : viewStatus[k] = "sent" => status[k] = "sent"

\* A sent delivery never leaves that state nor changes its message, whichever
\* calls of deliverDraft are still under way (ADR 0028).
SentIsFinal ==
    [][\A k \in Keys : status[k] = "sent" =>
            status'[k] = "sent" /\ sentRef'[k] = sentRef[k]]_vars

\* Once a delivery is sent, confirming it again, or a call that was overtaken,
\* hands no further message to the provider.
SentIsNotSentAgain ==
    [][\A k \in Keys : status[k] = "sent" => \A r \in Refs : keyOf'[r] = k => keyOf[r] = k]_vars

\* The composer is not blocked for ever: every confirmation comes to an end.
ConfirmationsEnd == sending ~> ~sending

\* The design document: no sending state remains indefinitely, given a user who
\* in the end stays with the conversation and confirms whenever that is offered.
SendingSettles ==
    <>[](connected /\ selected) =>
        \A k \in Keys : (status[k] = "sending") ~> (status[k] # "sending")

\* The design document: a delivery always records the version that was reviewed.
\* The window lets nobody deliver an edited text; but an edit that is being saved
\* may be undone by hand, or lost to another selection of the conversation, after
\* which a detail that was read before the save shows the old text.
DeliveryRecordsReviewedVersion ==
    \A r \in Refs : keyOf[r] # NoKey => textOf[r] = keyOf[r][2]
=============================================================================
