----------------------- MODULE ChannelDeliveryProofs -----------------------
(***************************************************************************)
(* Proofs about ChannelDelivery: what the catalog and the window say of a   *)
(* delivery agrees with what is in the channel, and a sent delivery stays   *)
(* sent, for every number of drafts, versions, calls, messages, failures    *)
(* and changes of workspace.                                                *)
(*                                                                          *)
(* The invariant adds what travels: a reply, a detail that is loading and a *)
(* call that has read "sent" never say more than the catalog, a call that   *)
(* waits for the provider knows the message of its own key, and the         *)
(* transport remembers posted messages only. It holds because the catalog   *)
(* never moves a delivery back (CatalogStep) and the channel never loses or *)
(* relabels a message (ChannelStep).                                        *)
(*                                                                          *)
(* The second half proves that a delivery causes one message. Its invariant *)
(* SendInv says who may still send: a workspace session has one call at a   *)
(* time (CallInv, ReplyInv); a call that has marked its delivery shares it  *)
(* with no call of a later session (CommitInv), because what the window of  *)
(* that session can know of the delivery offers no confirmation (AgeInv,    *)
(* FreshInv); and a call that may send has seen no message (MessageInv).    *)
(***************************************************************************)
EXTENDS ChannelDelivery, TLAPS

(* The catalog, and the channel its sent deliveries refer to. *)
CatalogInv ==
    /\ version \in DraftMap
    /\ status \in StatusMap /\ sentRef \in [Keys -> MaybeRef]
    /\ \A k \in Keys : status[k] = "sent" <=> sentRef[k] # NoRef
    /\ SentDeliveriesArePosted

(* A detail of the conversation does not run ahead of the catalog. *)
Truthful(deliveries) == \A k \in Keys : deliveries[k] = "sent" => status[k] = "sent"

(* What the window shows, and is about to show. *)
ViewInv ==
    /\ selected \in BOOLEAN /\ sending \in BOOLEAN
    /\ loading \subseteq Details
    /\ viewDraft \in DraftMap /\ viewStatus \in StatusMap
    /\ dialog \in Drafts \union {NoDraft} /\ edited \in BOOLEAN
    /\ Truthful(viewStatus)
    /\ \A detail \in loading : Truthful(detail.deliveries)

(* A reply does not run ahead of the catalog either. *)
TruthfulReply(reply) ==
    /\ reply.kind = "detail" => Truthful(reply.detail.deliveries)
    /\ reply.kind = "delivery" => (reply.status = "sent" => status[reply.key] = "sent")

MailInv ==
    /\ mailbox \in Seq(Replies)
    /\ \A i \in DOMAIN mailbox : TruthfulReply(mailbox[i])

(* A call under way: what it has prepared, marked, and handed to the provider. *)
FlowInv ==
    /\ flow \in [Flows -> FlowRecords]
    /\ \A f \in Flows :
          LET c == flow[f] IN
          /\ c.pc \notin {"idle", "threw", "returning"} => c.key \in Keys
          /\ c.pc = "prepared" /\ c.seen = "sent" => status[c.key] = "sent"
          /\ c.pc = "marked" => status[c.key] \notin {"none", "pending"}
          /\ c.pc = "waiting" => c.ref \in Refs /\ keyOf[c.ref] = c.key

(* The provider, and what the transport remembers of it. *)
ChannelInv ==
    /\ keyOf \in [Refs -> MaybeKey] /\ textOf \in [Refs -> 0..MaxVersion]
    /\ undecided \subseteq Refs /\ channel \in Seq(Refs)
    /\ sentByKey \in [Keys -> MaybeRef]
    /\ MessagesAreOnRecord
    /\ \A k \in Keys : sentByKey[k] # NoRef => sentByKey[k] \in Posted /\ keyOf[sentByKey[k]] = k

SessionInv ==
    /\ generation \in Nat /\ connected \in BOOLEAN
    /\ missed \subseteq Keys /\ faults \in Nat

Inv == CatalogInv /\ ViewInv /\ MailInv /\ FlowInv /\ ChannelInv /\ SessionInv

(* No delivery moves back, and a sent one does not move at all. *)
CatalogStep ==
    \A k \in Keys :
        /\ status[k] \notin {"none", "pending"} => status'[k] \notin {"none", "pending"}
        /\ status[k] = "sent" => status'[k] = "sent" /\ sentRef'[k] = sentRef[k]

(* No message leaves the channel, and none changes the key it carries. *)
ChannelStep ==
    /\ Posted \subseteq Posted'
    /\ \A r \in Refs : keyOf[r] # NoKey => keyOf'[r] = keyOf[r]

-----------------------------------------------------------------------------
(* Data. *)

LEMMA NoKeyIsNoKey == NoKey \notin Keys
  BY DEF NoKey, Keys

LEMMA NoRefIsNoRef == NoRef \notin Refs
  BY DEF NoRef, Refs

LEMMA KeyParts == \A d \in Drafts, v \in Versions : <<d, v>> \in Keys
  BY DEF Keys

LEMMA IdleFlowTyped == IdleFlow \in FlowRecords
  BY BoundAssumption DEF IdleFlow, FlowRecords, Pcs, MaybeKey, MaybeRef, Statuses

(* A message on a page of the channel has been posted. *)
LEMMA PageIsPosted ==
  ASSUME channel \in Seq(Refs), NEW page \in Pages, NEW i \in DOMAIN page
  PROVE  page[i] \in Posted /\ page[i] \in Refs
<1>1. PICK n \in 1..(Len(channel) + 1) : page = SubSeq(channel, n, Len(channel))
  BY DEF Pages
<1>2. Len(channel) \in Nat
  OBVIOUS
<1>3. /\ Len(page) = Len(channel) - n + 1
      /\ \A j \in 1..(Len(channel) - n + 1) : page[j] = channel[n + j - 1]
      /\ i \in 1..(Len(channel) - n + 1)
  BY <1>1, <1>2
<1>4. n + i - 1 \in 1..Len(channel)
  BY <1>1, <1>2, <1>3
<1> QED
  BY <1>3, <1>4 DEF Posted

LEMMA PostedAreRefs == channel \in Seq(Refs) => Posted \subseteq Refs
  BY DEF Posted

-----------------------------------------------------------------------------
(* What leaves a group of variables alone preserves its part. *)

LEMMA CatalogStutter ==
  ASSUME CatalogInv, UNCHANGED catalogVars, ChannelStep
  PROVE  CatalogInv' /\ CatalogStep
<1>1. status' = status /\ sentRef' = sentRef /\ version' = version
  BY DEF catalogVars
<1>2. SentDeliveriesArePosted'
  BY <1>1, NoKeyIsNoKey DEF CatalogInv, SentDeliveriesArePosted, ChannelStep, MaybeRef, Refs, NoRef
<1> QED
  BY <1>1, <1>2 DEF CatalogInv, CatalogStep

LEMMA ViewStutter ==
  ASSUME ViewInv, UNCHANGED <<viewVars, sending>>, CatalogStep
  PROVE  ViewInv'
  BY DEF ViewInv, viewVars, CatalogStep, Truthful

LEMMA MailStutter ==
  ASSUME MailInv, UNCHANGED mailbox, CatalogStep
  PROVE  MailInv'
<1>1. ASSUME NEW reply \in Replies, TruthfulReply(reply) PROVE TruthfulReply(reply)'
  BY <1>1 DEF TruthfulReply, Truthful, CatalogStep, Replies
<1> QED
  BY <1>1 DEF MailInv

LEMMA FlowStutter ==
  ASSUME FlowInv, UNCHANGED flow, CatalogStep, ChannelStep
  PROVE  FlowInv'
  BY NoKeyIsNoKey DEF FlowInv, CatalogStep, ChannelStep

LEMMA ChannelStutter ==
  ASSUME ChannelInv, UNCHANGED <<sentByKey, providerVars>>
  PROVE  ChannelStep /\ (CatalogStep => ChannelInv')
<1>1. keyOf' = keyOf /\ textOf' = textOf /\ undecided' = undecided /\ channel' = channel /\ sentByKey' = sentByKey
  BY DEF providerVars
<1>2. Posted' = Posted
  BY <1>1 DEF Posted
<1>3. ASSUME CatalogStep PROVE MessagesAreOnRecord'
  BY <1>1, <1>3 DEF ChannelInv, MessagesAreOnRecord, CatalogStep, MaybeKey
<1> QED
  BY <1>1, <1>2, <1>3 DEF ChannelInv, ChannelStep

-----------------------------------------------------------------------------
(* What the shared steps preserve. *)

(* A commit that moves no delivery back. *)
LEMMA CommitPreserves ==
  ASSUME CatalogInv, ChannelStep, NEW k \in Keys, NEW new \in Statuses \ {"none", "sent"},
         status[k] # "sent", new = "pending" => status[k] \in {"none", "pending"},
         status' = [status EXCEPT ![k] = new], UNCHANGED <<version, sentRef>>
  PROVE  CatalogInv' /\ CatalogStep /\ status'[k] = new
<1>1. /\ status' \in StatusMap /\ status'[k] = new
      /\ \A q \in Keys : q # k => status'[q] = status[q]
  BY DEF CatalogInv, StatusMap
<1>2. \A q \in Keys : status'[q] = "sent" <=> status[q] = "sent"
  BY <1>1
<1>3. SentDeliveriesArePosted'
  BY <1>2, NoKeyIsNoKey DEF CatalogInv, SentDeliveriesArePosted, ChannelStep, MaybeRef, Refs, NoRef
<1>4. CatalogStep
  BY <1>1, <1>2 DEF CatalogStep, CatalogInv
<1> QED
  BY <1>1, <1>2, <1>3, <1>4 DEF CatalogInv

LEMMA GotoPreserves ==
  ASSUME FlowInv, CatalogStep, ChannelStep, NEW f \in Flows,
         NEW pc \in Pcs \ {"prepared", "waiting"},
         pc \notin {"idle", "threw", "returning"} => flow[f].key \in Keys,
         pc = "marked" => status'[flow[f].key] \notin {"none", "pending"},
         Goto(f, pc)
  PROVE  FlowInv'
<1>1. /\ flow' = [flow EXCEPT ![f].pc = pc]
      /\ flow' \in [Flows -> FlowRecords]
      /\ flow'[f].pc = pc /\ flow'[f].key = flow[f].key
      /\ \A g \in Flows : g # f => flow'[g] = flow[g]
  BY DEF Goto, FlowInv, FlowRecords
<1> QED
  BY <1>1, NoKeyIsNoKey DEF FlowInv, CatalogStep, ChannelStep

(* A call that ends is an idle one. *)
LEMMA EndPreserves ==
  ASSUME FlowInv, CatalogStep, ChannelStep, NEW f \in Flows,
         flow' = [flow EXCEPT ![f] = IdleFlow]
  PROVE  FlowInv'
<1>1. /\ flow' \in [Flows -> FlowRecords]
      /\ flow'[f].pc = "idle"
      /\ \A g \in Flows : g # f => flow'[g] = flow[g]
  BY IdleFlowTyped DEF IdleFlow, FlowInv
<1> QED
  BY <1>1, NoKeyIsNoKey DEF FlowInv, CatalogStep, ChannelStep

LEMMA PostPreserves ==
  ASSUME MailInv, CatalogStep, NEW reply \in Replies, TruthfulReply(reply)', Post(reply)
  PROVE  MailInv'
<1>1. ASSUME NEW old \in Replies, TruthfulReply(old) PROVE TruthfulReply(old)'
  BY <1>1 DEF TruthfulReply, Truthful, CatalogStep, Replies
<1>2. mailbox' \in Seq(Replies) /\ Len(mailbox') = Len(mailbox) + 1
      /\ mailbox'[Len(mailbox) + 1] = reply
      /\ \A i \in 1..Len(mailbox) : mailbox'[i] = mailbox[i] /\ mailbox[i] \in Replies
  BY DEF MailInv, Post
<1>3. ASSUME NEW i \in DOMAIN mailbox' PROVE TruthfulReply(mailbox[i])'
  <2>1. CASE i \in 1..Len(mailbox)
    <3>1. TruthfulReply(mailbox[i]) /\ mailbox[i] \in Replies
      BY <2>1 DEF MailInv
    <3>2. PICK old \in Replies : old = mailbox[i]
      BY <3>1
    <3>3. TruthfulReply(old)'
      BY <1>1, <3>1, <3>2
    <3> QED BY <1>2, <2>1, <3>2, <3>3
  <2>2. CASE i = Len(mailbox) + 1
    BY <1>2, <2>2
  <2> QED BY <1>2, <1>3, <2>1, <2>2 DEF MailInv
<1> QED
  BY <1>2, <1>3 DEF MailInv

LEMMA ReturnPreserves ==
  ASSUME FlowInv, MailInv, CatalogStep, ChannelStep, NEW f \in Flows,
         NEW result \in Statuses, flow[f].key \in Keys,
         result = "sent" => status'[flow[f].key] = "sent", Return(f, result)
  PROVE  FlowInv' /\ MailInv'
<1>1. FlowInv'
  BY GotoPreserves DEF Return, Pcs
<1>2. PICK reply \in Replies : reply = [kind |-> "delivery", flow |-> f, gen |-> flow[f].gen,
                                        key |-> flow[f].key, status |-> result]
  BY DEF Replies, FlowInv, FlowRecords
<1>3. TruthfulReply(reply)'
  BY <1>2 DEF TruthfulReply
<1>4. Post(reply)
  BY <1>2 DEF Return
<1> QED
  BY <1>1, <1>3, <1>4, PostPreserves

LEMMA MarkSendingPreserves ==
  ASSUME CatalogInv, FlowInv, ChannelStep, NEW f \in Flows, flow[f].key \in Keys,
         UNCHANGED <<version, sentRef>>, MarkSending(f)
  PROVE  CatalogInv' /\ FlowInv' /\ CatalogStep
<1> DEFINE k == flow[f].key
<1>1. CASE MaySend(k) /\ status' = [status EXCEPT ![k] = "sending"] /\ Accepted(f, "marked", "threw")
  <2>1. CatalogInv' /\ CatalogStep /\ status'[k] = "sending"
    BY <1>1, CommitPreserves DEF MaySend, Statuses
  <2> QED BY <1>1, <2>1, GotoPreserves DEF Accepted, Pcs
<1>2. CASE Goto(f, "threw") /\ UNCHANGED status
  <2>1. CatalogInv' /\ CatalogStep
    BY <1>2, CatalogStutter DEF catalogVars
  <2> QED BY <1>2, <2>1, GotoPreserves DEF Pcs
<1> QED
  BY <1>1, <1>2 DEF MarkSending

LEMMA CompletePreserves ==
  ASSUME CatalogInv, FlowInv, MailInv, ChannelStep, NEW f \in Flows, flow[f].key \in Keys,
         NEW r \in Refs, NEW refusal \in {"threw", "failing"},
         r \in Posted, keyOf[r] = flow[f].key,
         UNCHANGED version, Complete(f, r, refusal)
  PROVE  CatalogInv' /\ FlowInv' /\ MailInv' /\ CatalogStep
<1> DEFINE k == flow[f].key
<1>1. CASE /\ MayComplete(k, r)
           /\ status' = [status EXCEPT ![k] = "sent"]
           /\ sentRef' = [sentRef EXCEPT ![k] = r]
           /\ \/ Return(f, "sent")
              \/ Goto(f, refusal) /\ UNCHANGED mailbox
  <2>1. /\ status' \in StatusMap /\ status'[k] = "sent"
        /\ \A q \in Keys : q # k => status'[q] = status[q] /\ sentRef'[q] = sentRef[q]
        /\ sentRef' \in [Keys -> MaybeRef] /\ sentRef'[k] = r
    BY <1>1 DEF CatalogInv, StatusMap, Statuses, MaybeRef
  <2>2. CatalogStep
    BY <1>1, <2>1 DEF CatalogStep, MayComplete, MayFail
  <2>3. r \in Posted' /\ keyOf'[r] = k
    BY NoKeyIsNoKey DEF ChannelStep
  <2>4. SentDeliveriesArePosted'
    BY <2>1, <2>3, NoKeyIsNoKey DEF CatalogInv, SentDeliveriesArePosted, ChannelStep, MaybeRef, Refs, NoRef
  <2>5. CatalogInv'
    BY <2>1, <2>4, NoRefIsNoRef DEF CatalogInv
  <2>6. CASE Return(f, "sent")
    BY <2>1, <2>2, <2>5, <2>6, ReturnPreserves DEF Statuses
  <2>7. CASE Goto(f, refusal) /\ UNCHANGED mailbox
    BY <2>2, <2>5, <2>7, GotoPreserves, MailStutter DEF Pcs
  <2> QED BY <1>1, <2>6, <2>7
<1>2. CASE Goto(f, refusal) /\ UNCHANGED <<status, sentRef, mailbox>>
  <2>1. CatalogInv' /\ CatalogStep
    BY <1>2, CatalogStutter DEF catalogVars
  <2> QED BY <1>2, <2>1, GotoPreserves, MailStutter DEF Pcs
<1> QED
  BY <1>1, <1>2 DEF Complete

(* The catalog's part of failDelivery. *)
LEMMA FailPreserves ==
  ASSUME CatalogInv, ChannelStep, NEW k \in Keys, UNCHANGED <<version, sentRef>>, Fail(k)
  PROVE  CatalogInv' /\ CatalogStep
<1>1. CASE MayFail(k) /\ status' = [status EXCEPT ![k] = "failed"]
  BY <1>1, CommitPreserves DEF MayFail, Statuses
<1>2. CASE UNCHANGED status
  BY <1>2, CatalogStutter DEF catalogVars
<1> QED
  BY <1>1, <1>2 DEF Fail

LEMMA UncertainPreserves ==
  ASSUME CatalogInv, FlowInv, MailInv, ChannelStep, NEW f \in Flows, flow[f].key \in Keys,
         UNCHANGED <<version, sentRef>>, Uncertain(f)
  PROVE  CatalogInv' /\ FlowInv' /\ MailInv' /\ CatalogStep
<1> DEFINE k == flow[f].key
<1>1. CASE MayFail(k) /\ status' = [status EXCEPT ![k] = "failed"] /\ Return(f, "failed")
  <2>1. CatalogInv' /\ CatalogStep
    BY <1>1, CommitPreserves DEF MayFail, Statuses
  <2> QED BY <1>1, <2>1, ReturnPreserves DEF Statuses
<1>2. CASE Goto(f, "threw") /\ UNCHANGED <<status, mailbox>>
  <2>1. CatalogInv' /\ CatalogStep
    BY <1>2, CatalogStutter DEF catalogVars
  <2> QED BY <1>2, <2>1, GotoPreserves, MailStutter DEF Pcs
<1> QED
  BY <1>1, <1>2 DEF Uncertain

LEMMA FaultsCounted ==
  ASSUME faults \in Nat
  PROVE  /\ Fault => faults' \in Nat
         /\ \A allowed \in BOOLEAN : Refused(allowed) => faults' \in Nat
  BY DEF Fault, Refused

-----------------------------------------------------------------------------
(* The draft dialog and the store. *)

LEMMA EmptyMaps == EmptyDrafts \in DraftMap /\ EmptyStatus \in StatusMap /\ Truthful(EmptyStatus)
  BY BoundAssumption DEF EmptyDrafts, EmptyStatus, DraftMap, StatusMap, Truthful, Statuses

LEMMA InitInv == Init => Inv
<1> SUFFICES ASSUME Init PROVE Inv
  OBVIOUS
<1>1. CatalogInv
  BY BoundAssumption DEF Init, CatalogInv, DraftMap, StatusMap, EmptyDrafts, EmptyStatus, Statuses,
     MaybeRef, SentDeliveriesArePosted
<1>2. ViewInv
  BY EmptyMaps DEF Init, ViewInv
<1>3. MailInv
  BY DEF Init, MailInv
<1>4. FlowInv
  <2>1. \A f \in Flows : flow[f] = IdleFlow
    BY DEF Init
  <2> QED BY <2>1, IdleFlowTyped DEF Init, FlowInv, IdleFlow
<1>5. ChannelInv
  BY BoundAssumption DEF Init, ChannelInv, MaybeKey, MaybeRef, MessagesAreOnRecord
<1>6. SessionInv
  BY DEF Init, SessionInv
<1> QED
  BY <1>1, <1>2, <1>3, <1>4, <1>5, <1>6 DEF Inv

(* Giving a draft another version is a catalog step. *)
LEMMA VersionPreserves ==
  ASSUME CatalogInv, ChannelStep, NEW d \in Drafts, NEW v \in Versions,
         version' = [version EXCEPT ![d] = v], UNCHANGED <<status, sentRef>>
  PROVE  CatalogInv' /\ CatalogStep
<1>1. version' \in DraftMap
  BY DEF CatalogInv, DraftMap, Versions
<1>2. SentDeliveriesArePosted'
  BY NoKeyIsNoKey DEF CatalogInv, SentDeliveriesArePosted, ChannelStep, MaybeRef, Refs, NoRef
<1> QED
  BY <1>1, <1>2 DEF CatalogInv, CatalogStep

LEMMA DraftReplyPreserves ==
  ASSUME MailInv, SessionInv, CatalogStep, NEW d \in Drafts, NEW v \in Versions,
         Post([kind |-> "draft", gen |-> generation, draft |-> d, version |-> v])
  PROVE  MailInv'
<1>1. PICK reply \in Replies : reply = [kind |-> "draft", gen |-> generation, draft |-> d, version |-> v]
  BY DEF Replies, SessionInv
<1>2. TruthfulReply(reply)'
  BY <1>1 DEF TruthfulReply
<1> QED
  BY <1>1, <1>2, PostPreserves

LEMMA DetailReplyPreserves ==
  ASSUME CatalogInv, MailInv, SessionInv, CatalogStep, UNCHANGED status,
         NEW f \in Flows \union {NoFlow},
         Post([kind |-> "detail", flow |-> f, gen |-> generation, detail |-> Snapshot])
  PROVE  MailInv'
<1>1. Snapshot \in Details /\ Snapshot.deliveries = status
  BY DEF Snapshot, Details, CatalogInv
<1>2. PICK reply \in Replies : reply = [kind |-> "detail", flow |-> f, gen |-> generation, detail |-> Snapshot]
  BY <1>1 DEF Replies, SessionInv
<1>3. TruthfulReply(reply)'
  BY <1>1, <1>2 DEF TruthfulReply, Truthful
<1> QED
  BY <1>2, <1>3, PostPreserves

LEMMA CreateDraftPreserves ==
  ASSUME Inv, NEW d \in Drafts, CreateDraft(d)
  PROVE  Inv' /\ CatalogStep
<1>1. 1 \in Versions
  BY BoundAssumption DEF Versions
<1>2. ChannelStep
  BY ChannelStutter DEF Inv, CreateDraft
<1>3. CatalogInv' /\ CatalogStep
  BY <1>1, <1>2, VersionPreserves DEF Inv, CreateDraft
<1>4. ViewInv' /\ FlowInv' /\ ChannelInv'
  BY <1>2, <1>3, ViewStutter, FlowStutter, ChannelStutter DEF Inv, CreateDraft
<1>5. MailInv'
  BY <1>1, <1>3, DraftReplyPreserves DEF Inv, CreateDraft
<1>6. SessionInv'
  BY DEF Inv, SessionInv, CreateDraft, sessionVars
<1> QED
  BY <1>3, <1>4, <1>5, <1>6 DEF Inv

LEMMA SaveDraftPreserves ==
  ASSUME Inv, NEW d \in Drafts, SaveDraft(d)
  PROVE  Inv' /\ CatalogStep
<1>1. version[d] + 1 \in Versions
  BY BoundAssumption DEF Versions, SaveDraft
<1>2. ChannelStep
  BY ChannelStutter DEF Inv, SaveDraft
<1>3. version' = [version EXCEPT ![d] = version[d] + 1]
  BY DEF SaveDraft
<1>4. CatalogInv' /\ CatalogStep
  BY <1>1, <1>2, <1>3, VersionPreserves DEF Inv, SaveDraft
<1>5. ViewInv' /\ FlowInv' /\ ChannelInv'
  BY <1>2, <1>4, ViewStutter, FlowStutter, ChannelStutter DEF Inv, SaveDraft
<1>6. MailInv'
  BY <1>1, <1>4, DraftReplyPreserves DEF Inv, SaveDraft
<1>7. SessionInv'
  BY DEF Inv, SessionInv, SaveDraft, sessionVars
<1> QED
  BY <1>4, <1>5, <1>6, <1>7 DEF Inv

LEMMA ConfirmDeliveryPreserves ==
  ASSUME Inv, NEW f \in Flows, NEW d \in Drafts, ConfirmDelivery(f, d)
  PROVE  Inv' /\ CatalogStep
<1> DEFINE called == [IdleFlow EXCEPT !.gen = generation, !.text = viewDraft[d]]
           k == <<d, version[d]>>
           prepared == IF status[k] = "none" THEN "pending" ELSE status[k]
<1>1. ChannelStep
  BY ChannelStutter DEF Inv, ConfirmDelivery
<1>2. viewDraft[d] \in 0..MaxVersion /\ generation \in Nat /\ version[d] \in 0..MaxVersion
  BY DEF Inv, ViewInv, DraftMap, SessionInv, CatalogInv
<1>3. ViewInv'
  <2>1. UNCHANGED <<viewVars>> /\ sending' = TRUE
    BY DEF ConfirmDelivery
  <2>2. \A q \in Keys : status[q] = "sent" => status'[q] = "sent"
    BY DEF ConfirmDelivery, Inv, CatalogInv, StatusMap
  <2> QED BY <2>1, <2>2 DEF Inv, ViewInv, viewVars, Truthful
<1>4. faults' \in Nat
  BY DEF ConfirmDelivery, Refused, Fault, Inv, SessionInv
<1>5. SessionInv'
  BY <1>4 DEF ConfirmDelivery, Inv, SessionInv, sessionVars
<1>6. CASE /\ version[d] # 0
           /\ status' = [status EXCEPT ![k] = prepared]
           /\ flow' = [flow EXCEPT ![f] = [called EXCEPT !.pc = "prepared", !.key = k, !.seen = prepared]]
  <2>1. k \in Keys /\ prepared \in Statuses
    BY <1>2, <1>6, KeyParts DEF Versions, Inv, CatalogInv, StatusMap, Statuses
  <2>2. CatalogInv' /\ CatalogStep /\ status'[k] = prepared
    <3>1. CASE status[k] = "none"
      BY <1>1, <1>6, <2>1, <3>1, CommitPreserves DEF Statuses, Inv, ConfirmDelivery
    <3>2. CASE status[k] # "none"
      <4>1. status' = status
        BY <1>6, <2>1, <3>2 DEF Inv, CatalogInv, StatusMap
      <4>2. UNCHANGED catalogVars
        BY <4>1 DEF catalogVars, ConfirmDelivery
      <4> QED BY <1>1, <2>1, <3>2, <4>1, <4>2, CatalogStutter DEF Inv
    <3> QED BY <3>1, <3>2
  <2>3. /\ flow' \in [Flows -> FlowRecords]
        /\ flow'[f].pc = "prepared" /\ flow'[f].key = k /\ flow'[f].seen = prepared
        /\ \A g \in Flows : g # f => flow'[g] = flow[g]
    BY <1>2, <1>6, <2>1, IdleFlowTyped DEF IdleFlow, FlowRecords, Pcs, MaybeKey, Inv, FlowInv
  <2>4. FlowInv'
    BY <1>1, <2>1, <2>2, <2>3, NoKeyIsNoKey DEF Inv, FlowInv, CatalogStep, ChannelStep
  <2> QED
    BY <1>3, <1>5, <2>2, <2>4, MailStutter, ChannelStutter DEF Inv, ConfirmDelivery
<1>7. CASE flow' = [flow EXCEPT ![f] = [called EXCEPT !.pc = "threw"]] /\ UNCHANGED status
  <2>1. CatalogInv' /\ CatalogStep
    BY <1>1, <1>7, CatalogStutter DEF catalogVars, Inv, ConfirmDelivery
  <2>2. /\ flow' \in [Flows -> FlowRecords] /\ flow'[f].pc = "threw"
        /\ \A g \in Flows : g # f => flow'[g] = flow[g]
    BY <1>2, <1>7, IdleFlowTyped DEF IdleFlow, FlowRecords, Pcs, Inv, FlowInv
  <2>3. FlowInv'
    BY <1>1, <2>1, <2>2, NoKeyIsNoKey DEF Inv, FlowInv, CatalogStep, ChannelStep
  <2> QED
    BY <1>3, <1>5, <2>1, <2>3, MailStutter, ChannelStutter DEF Inv, ConfirmDelivery
<1> QED
  BY <1>6, <1>7 DEF ConfirmDelivery

LEMMA RefreshPreserves ==
  ASSUME Inv, RefreshCollaboration
  PROVE  Inv' /\ CatalogStep
<1>1. ChannelStep
  BY ChannelStutter DEF Inv, RefreshCollaboration
<1>2. CatalogInv' /\ CatalogStep /\ UNCHANGED status
  BY <1>1, CatalogStutter DEF Inv, RefreshCollaboration, catalogVars
<1>3. ViewInv' /\ FlowInv' /\ ChannelInv'
  BY <1>1, <1>2, ViewStutter, FlowStutter, ChannelStutter DEF Inv, RefreshCollaboration
<1>4. MailInv'
  BY <1>2, DetailReplyPreserves DEF Inv, RefreshCollaboration
<1>5. SessionInv'
  BY DEF Inv, SessionInv, RefreshCollaboration, sessionVars
<1> QED
  BY <1>2, <1>3, <1>4, <1>5 DEF Inv

(* Steps of the window that leave the catalog, the calls and the channel alone. *)
LEMMA ViewStepPreserves ==
  ASSUME Inv, UNCHANGED <<catalogVars, mailbox, flow, sentByKey, providerVars>>,
         SessionInv', CatalogStep => ViewInv'
  PROVE  Inv' /\ CatalogStep
<1>1. ChannelStep
  BY ChannelStutter DEF Inv
<1>2. CatalogInv' /\ CatalogStep
  BY <1>1, CatalogStutter DEF Inv
<1> QED
  BY <1>1, <1>2, MailStutter, FlowStutter, ChannelStutter DEF Inv

LEMMA SelectConversationPreserves ==
  ASSUME Inv, SelectConversation
  PROVE  Inv' /\ CatalogStep
<1>1. Snapshot \in Details /\ Snapshot.deliveries = status
  BY DEF Inv, CatalogInv, Snapshot, Details
<1>2. UNCHANGED <<catalogVars, dialog, sending, sessionVars, sentByKey, mailbox, flow, providerVars, missed, faults>>
  BY DEF SelectConversation
<1>3. status' = status /\ dialog' = dialog /\ sending' = sending
  BY <1>2 DEF catalogVars
<1>4. selected' = TRUE /\ loading' = {Snapshot} /\ viewDraft' = EmptyDrafts /\ viewStatus' = EmptyStatus
      /\ edited' = FALSE
  BY DEF SelectConversation
<1>5. Truthful(EmptyStatus)' /\ \A detail \in loading' : Truthful(detail.deliveries)'
  BY <1>1, <1>3, <1>4 DEF Truthful, EmptyStatus
<1>6. ViewInv'
  BY <1>1, <1>3, <1>4, <1>5, EmptyMaps DEF Inv, ViewInv, Truthful
<1>7. SessionInv'
  BY <1>2 DEF Inv, SessionInv, sessionVars
<1> QED
  BY <1>2, <1>6, <1>7, ViewStepPreserves

LEMMA ApplyDetailPreserves ==
  ASSUME Inv, ApplyDetail
  PROVE  Inv' /\ CatalogStep
<1>1. PICK detail \in loading :
        /\ loading' = {}
        /\ viewDraft' = detail.drafts /\ viewStatus' = detail.deliveries
        /\ UNCHANGED <<catalogVars, selected, dialog, sending, sessionVars, sentByKey, mailbox, flow, providerVars, missed, faults>>
  BY DEF ApplyDetail
<1>2. detail.drafts \in DraftMap /\ detail.deliveries \in StatusMap /\ Truthful(detail.deliveries)
  BY DEF Inv, ViewInv, Details
<1>3. edited' \in BOOLEAN
  BY DEF ApplyDetail, KeepEdit
<1>4. ViewInv'
  BY <1>1, <1>2, <1>3 DEF Inv, ViewInv, Truthful, catalogVars
<1>5. SessionInv'
  BY <1>1 DEF Inv, SessionInv, sessionVars
<1> QED
  BY <1>1, <1>4, <1>5, ViewStepPreserves

LEMMA EditPreserves ==
  ASSUME Inv, NEW d \in Drafts, EditDraft(d) \/ UndoEdit(d)
  PROVE  Inv' /\ CatalogStep
<1>1. /\ UNCHANGED <<catalogVars, selected, loading, viewDraft, viewStatus, dialog, sending, sessionVars, sentByKey, mailbox, flow, providerVars, missed, faults>>
      /\ edited' \in BOOLEAN
  BY DEF EditDraft, UndoEdit
<1>2. ViewInv'
  BY <1>1 DEF Inv, ViewInv, Truthful, catalogVars
<1>3. SessionInv'
  BY <1>1 DEF Inv, SessionInv, sessionVars
<1> QED
  BY <1>1, <1>2, <1>3, ViewStepPreserves

LEMMA CloseDialogPreserves ==
  ASSUME Inv, CloseDialog
  PROVE  Inv' /\ CatalogStep
<1>1. ViewInv'
  BY DEF CloseDialog, Inv, ViewInv, Truthful, catalogVars
<1>2. SessionInv'
  BY DEF CloseDialog, Inv, SessionInv, sessionVars
<1> QED
  BY <1>1, <1>2, ViewStepPreserves DEF CloseDialog

-----------------------------------------------------------------------------
(* Replies. *)

(* The oldest reply has its type and says no more than the catalog. *)
LEMMA HeadIsTruthful ==
  ASSUME MailInv, mailbox # <<>>
  PROVE  Head(mailbox) \in Replies /\ TruthfulReply(Head(mailbox))
  BY DEF MailInv

LEMMA TailPreserves ==
  ASSUME MailInv, mailbox # <<>>, mailbox' = Tail(mailbox), CatalogStep
  PROVE  MailInv'
<1>1. mailbox' \in Seq(Replies)
  BY DEF MailInv
<1>2. ASSUME NEW i \in DOMAIN mailbox' PROVE TruthfulReply(mailbox[i])'
  <2>1. mailbox'[i] = mailbox[i + 1] /\ i + 1 \in DOMAIN mailbox
    BY DEF MailInv
  <2>2. PICK old \in Replies : old = mailbox[i + 1]
    BY <2>1 DEF MailInv
  <2>3. TruthfulReply(old)'
    BY <2>1, <2>2 DEF MailInv, TruthfulReply, Truthful, CatalogStep, Replies
  <2> QED BY <2>1, <2>2, <2>3
<1> QED
  BY <1>1, <1>2 DEF MailInv

LEMMA ReceivePreserves ==
  ASSUME Inv, Receive
  PROVE  Inv' /\ CatalogStep
<1>1. /\ mailbox # <<>> /\ mailbox' = Tail(mailbox)
      /\ UNCHANGED <<catalogVars, selected, loading, sessionVars, sentByKey, providerVars, missed, faults>>
  BY DEF Receive
<1>2. ChannelStep
  BY <1>1, ChannelStutter DEF Inv
<1>3. CatalogInv' /\ CatalogStep
  BY <1>1, <1>2, CatalogStutter DEF Inv
<1>4. MailInv' /\ ChannelInv'
  BY <1>1, <1>3, TailPreserves, ChannelStutter DEF Inv
<1>5. SessionInv'
  BY <1>1 DEF Inv, SessionInv, sessionVars
<1>6. PICK reply \in Replies : reply = Head(mailbox) /\ TruthfulReply(reply)
  BY <1>1, HeadIsTruthful DEF Inv
<1>7. ReceiveDraft(reply) \/ ReceiveDetail(reply) \/ ReceiveDelivery(reply)
  BY <1>6 DEF Receive
<1>8. status' = status /\ selected' = selected /\ loading' = loading /\ edited' \in BOOLEAN
  BY <1>1 DEF catalogVars, Receive, KeepEdit
<1>9. CASE ReceiveDraft(reply)
  <2>1. reply.draft \in Drafts /\ reply.version \in 0..MaxVersion
    BY <1>9 DEF ReceiveDraft, Replies, Versions
  <2>2. viewDraft' \in DraftMap /\ dialog' \in Drafts \union {NoDraft}
    BY <1>9, <2>1 DEF ReceiveDraft, Inv, ViewInv, DraftMap
  <2>3. ViewInv' /\ UNCHANGED flow
    BY <1>8, <1>9, <2>2 DEF ReceiveDraft, Inv, ViewInv, Truthful
  <2> QED BY <1>2, <1>3, <1>4, <1>5, <2>3, FlowStutter DEF Inv
<1>10. CASE ReceiveDetail(reply)
  <2>1. reply.detail.drafts \in DraftMap /\ reply.detail.deliveries \in StatusMap
        /\ Truthful(reply.detail.deliveries)
    BY <1>6, <1>10 DEF ReceiveDetail, Replies, Details, TruthfulReply
  <2>2. viewDraft' \in DraftMap /\ viewStatus' \in StatusMap /\ Truthful(viewStatus)'
    BY <1>8, <1>10, <2>1 DEF ReceiveDetail, Inv, ViewInv, Truthful
  <2>3. ViewInv'
    BY <1>8, <1>10, <2>2 DEF ReceiveDetail, Inv, ViewInv, Truthful
  <2>4. FlowInv'
    BY <1>2, <1>3, <1>10, FlowStutter, EndPreserves DEF ReceiveDetail, Inv
  <2> QED BY <1>3, <1>4, <1>5, <2>3, <2>4 DEF Inv
<1>11. CASE ReceiveDelivery(reply)
  <2>1. reply.flow \in Flows /\ reply.key \in Keys /\ reply.status \in Statuses
        /\ (reply.status = "sent" => status[reply.key] = "sent")
    BY <1>6, <1>11 DEF ReceiveDelivery, Replies, TruthfulReply
  <2>2. viewStatus' \in StatusMap /\ Truthful(viewStatus)'
    BY <1>8, <1>11, <2>1 DEF ReceiveDelivery, Inv, ViewInv, Truthful, StatusMap
  <2>3. ViewInv'
    BY <1>8, <1>11, <2>2 DEF ReceiveDelivery, Inv, ViewInv, Truthful
  <2>4. FlowInv'
    BY <1>2, <1>3, <1>11, <2>1, EndPreserves DEF ReceiveDelivery, Inv
  <2> QED BY <1>3, <1>4, <1>5, <2>3, <2>4 DEF Inv
<1> QED
  BY <1>7, <1>9, <1>10, <1>11

-----------------------------------------------------------------------------
(* ConversationCollaborationClient.deliverDraft. *)

LEMMA PreparedPreserves ==
  ASSUME Inv, NEW f \in Flows, Prepared(f)
  PROVE  Inv' /\ CatalogStep
<1>1. flow[f].pc = "prepared" /\ flow[f].key \in Keys
      /\ UNCHANGED <<version, viewVars, sending, sessionVars, sentByKey, providerVars, missed>>
  BY DEF Prepared, Inv, FlowInv
<1>2. ChannelStep
  BY <1>1, ChannelStutter DEF Inv
<1>3. faults' \in Nat
  BY DEF Prepared, MarkSending, Accepted, Refused, Fault, Inv, SessionInv
<1>4. CatalogInv' /\ FlowInv' /\ MailInv' /\ CatalogStep
  <2>1. CASE flow[f].seen = "sent" /\ Return(f, "sent") /\ UNCHANGED <<status, sentRef>>
    <3>1. CatalogInv' /\ CatalogStep
      BY <1>1, <1>2, <2>1, CatalogStutter DEF catalogVars, Inv
    <3>2. status'[flow[f].key] = "sent"
      BY <1>1, <2>1 DEF Inv, FlowInv
    <3> QED BY <1>1, <1>2, <2>1, <3>1, <3>2, ReturnPreserves DEF Inv, Statuses
  <2>2. CASE Goto(f, "threw") /\ UNCHANGED <<status, sentRef, mailbox>>
    <3>1. CatalogInv' /\ CatalogStep
      BY <1>1, <1>2, <2>2, CatalogStutter DEF catalogVars, Inv
    <3> QED BY <1>1, <1>2, <2>2, <3>1, GotoPreserves, MailStutter DEF Inv, Pcs
  <2>3. CASE Goto(f, "looking") /\ UNCHANGED <<status, sentRef, mailbox>>
    <3>1. CatalogInv' /\ CatalogStep
      BY <1>1, <1>2, <2>3, CatalogStutter DEF catalogVars, Inv
    <3> QED BY <1>1, <1>2, <2>3, <3>1, GotoPreserves, MailStutter DEF Inv, Pcs
  <2>4. CASE MarkSending(f) /\ UNCHANGED <<sentRef, mailbox>>
    BY <1>1, <1>2, <2>4, MarkSendingPreserves, MailStutter DEF Inv
  <2> QED BY <2>1, <2>2, <2>3, <2>4 DEF Prepared
<1>5. ViewInv' /\ ChannelInv'
  BY <1>1, <1>4, ViewStutter, ChannelStutter DEF Inv
<1>6. SessionInv'
  BY <1>1, <1>3 DEF Inv, SessionInv, sessionVars
<1> QED
  BY <1>4, <1>5, <1>6 DEF Inv

(* A step of a call that changes neither the catalog nor the channel. *)
LEMMA CallStepPreserves ==
  ASSUME Inv, NEW f \in Flows, NEW pc \in {"threw", "failing"},
         pc = "failing" => flow[f].key \in Keys,
         Goto(f, pc), faults' \in Nat,
         UNCHANGED <<catalogVars, viewVars, sending, sessionVars, sentByKey, mailbox, providerVars, missed>>
  PROVE  Inv' /\ CatalogStep
<1>1. ChannelStep
  BY ChannelStutter DEF Inv
<1>2. CatalogInv' /\ CatalogStep
  BY <1>1, CatalogStutter DEF Inv
<1>3. FlowInv'
  BY <1>1, <1>2, GotoPreserves DEF Inv, Pcs
<1>4. SessionInv'
  BY DEF Inv, SessionInv, sessionVars
<1> QED
  BY <1>2, <1>3, <1>4, ViewStutter, MailStutter, ChannelStutter DEF Inv

LEMMA LookupFailsPreserves ==
  ASSUME Inv, NEW f \in Flows, LookupFails(f)
  PROVE  Inv' /\ CatalogStep
<1>1. faults' \in Nat
  BY DEF LookupFails, Refused, Fault, Inv, SessionInv
<1> QED
  BY <1>1, CallStepPreserves DEF LookupFails

LEMMA SendFailsPreserves ==
  ASSUME Inv, NEW f \in Flows, SendFails(f)
  PROVE  Inv' /\ CatalogStep
<1>1. faults' \in Nat
  BY DEF SendFails, Refused, Fault, Inv, SessionInv
<1>2. flow[f].key \in Keys
  BY DEF SendFails, Inv, FlowInv
<1> QED
  BY <1>1, <1>2, CallStepPreserves DEF SendFails

(* A step of a call that leaves the window and the channel alone. *)
LEMMA CommitStepPreserves ==
  ASSUME Inv, ChannelStep, ChannelStep /\ CatalogStep => ChannelInv',
         CatalogInv', FlowInv', MailInv', CatalogStep, faults' \in Nat, missed' \subseteq Keys,
         UNCHANGED <<viewVars, sending, sessionVars>>
  PROVE  Inv' /\ CatalogStep
<1>1. SessionInv'
  BY DEF Inv, SessionInv, sessionVars
<1> QED
  BY <1>1, ViewStutter DEF Inv

LEMMA LookupFindsPreserves ==
  ASSUME Inv, NEW f \in Flows, LookupFinds(f)
  PROVE  Inv' /\ CatalogStep
<1>1. flow[f].key \in Keys
      /\ UNCHANGED <<version, viewVars, sending, sessionVars, sentByKey, providerVars, missed>>
  BY DEF LookupFinds, Inv, FlowInv
<1> PICK page \in Pages : \E i \in DOMAIN page :
        FirstOn(page, flow[f].key, i) /\ Complete(f, page[i], "threw")
  BY DEF LookupFinds
<1>2. PICK i \in DOMAIN page : FirstOn(page, flow[f].key, i) /\ Complete(f, page[i], "threw")
  OBVIOUS
<1>3. page[i] \in Posted /\ page[i] \in Refs /\ keyOf[page[i]] = flow[f].key
  BY <1>2, PageIsPosted DEF FirstOn, Inv, ChannelInv
<1>4. ChannelStep
  BY <1>1, ChannelStutter DEF Inv
<1>5. CatalogInv' /\ FlowInv' /\ MailInv' /\ CatalogStep
  BY <1>1, <1>2, <1>3, <1>4, CompletePreserves DEF Inv
<1>6. faults' \in Nat
  BY <1>2 DEF Complete, Refused, Fault, Inv, SessionInv
<1> QED
  BY <1>1, <1>4, <1>5, <1>6, ChannelStutter, CommitStepPreserves DEF Inv, SessionInv

LEMMA LookupMissesPreserves ==
  ASSUME Inv, NEW f \in Flows, LookupMisses(f)
  PROVE  Inv' /\ CatalogStep
<1>1. flow[f].key \in Keys
      /\ UNCHANGED <<version, sentRef, viewVars, sending, sessionVars, sentByKey, providerVars>>
  BY DEF LookupMisses, Inv, FlowInv
<1>2. ChannelStep
  BY <1>1, ChannelStutter DEF Inv
<1>3. CatalogInv' /\ FlowInv' /\ MailInv' /\ CatalogStep
  <2>1. CASE Uncertain(f)
    BY <1>1, <1>2, <2>1, UncertainPreserves DEF Inv
  <2>2. CASE MarkSending(f) /\ UNCHANGED mailbox
    BY <1>1, <1>2, <2>2, MarkSendingPreserves, MailStutter DEF Inv
  <2> QED BY <2>1, <2>2 DEF LookupMisses
<1>4. faults' \in Nat /\ missed' \subseteq Keys
  BY <1>1 DEF LookupMisses, Uncertain, MarkSending, Accepted, Refused, Fault, Inv, SessionInv
<1> QED
  BY <1>1, <1>2, <1>3, <1>4, ChannelStutter, CommitStepPreserves DEF Inv

LEMMA SendPreserves ==
  ASSUME Inv, NEW f \in Flows, Send(f)
  PROVE  Inv' /\ CatalogStep
<1> DEFINE k == flow[f].key
<1>1. k \in Keys /\ status[k] \notin {"none", "pending"}
      /\ UNCHANGED <<version, viewVars, sending, sessionVars, sentByKey, channel, missed>>
  BY DEF Send, Inv, FlowInv
<1>2. faults' \in Nat
  BY DEF Send, Complete, Refused, Fault, Inv, SessionInv
<1>3. missed' \subseteq Keys
  BY <1>1 DEF Inv, SessionInv
<1>4. CASE Goto(f, "failing") /\ UNCHANGED <<status, sentRef, mailbox, keyOf, textOf, undecided>>
  <2>1. UNCHANGED catalogVars /\ UNCHANGED providerVars
    BY <1>1, <1>4 DEF catalogVars, providerVars
  <2> QED BY <1>1, <1>2, <1>4, <2>1, CallStepPreserves
<1>5. CASE sentByKey[k] # NoRef /\ Complete(f, sentByKey[k], "failing") /\ UNCHANGED <<keyOf, textOf, undecided>>
  <2>1. UNCHANGED providerVars
    BY <1>1, <1>5 DEF providerVars
  <2>2. ChannelStep
    BY <1>1, <2>1, ChannelStutter DEF Inv
  <2>3. sentByKey[k] \in Refs /\ sentByKey[k] \in Posted /\ keyOf[sentByKey[k]] = k
    BY <1>1, <1>5 DEF Inv, ChannelInv, MaybeRef
  <2>4. CatalogInv' /\ FlowInv' /\ MailInv' /\ CatalogStep
    BY <1>1, <1>5, <2>2, <2>3, CompletePreserves DEF Inv
  <2> QED
    BY <1>1, <1>2, <1>3, <2>1, <2>2, <2>4, ChannelStutter, CommitStepPreserves DEF Inv
<1>6. ASSUME NEW r \in Refs, keyOf[r] = NoKey,
             keyOf' = [keyOf EXCEPT ![r] = k],
             textOf' = [textOf EXCEPT ![r] = flow[f].text],
             undecided' = undecided \union {r},
             flow' = [flow EXCEPT ![f].pc = "waiting", ![f].ref = r],
             UNCHANGED <<status, sentRef, mailbox>>
      PROVE  Inv' /\ CatalogStep
  <2>1. /\ keyOf' \in [Refs -> MaybeKey] /\ keyOf'[r] = k
        /\ \A q \in Refs : q # r => keyOf'[q] = keyOf[q]
    BY <1>1, <1>6 DEF Inv, ChannelInv, MaybeKey
  <2>2. Posted' = Posted
    BY <1>1 DEF Posted
  <2>3. ChannelStep
    BY <1>6, <2>1, <2>2 DEF ChannelStep
  <2>4. CatalogInv' /\ CatalogStep
    BY <1>1, <1>6, <2>3, CatalogStutter DEF Inv, catalogVars
  <2>5. textOf' \in [Refs -> 0..MaxVersion] /\ undecided' \subseteq Refs /\ channel' \in Seq(Refs)
    BY <1>1, <1>6 DEF Inv, ChannelInv, FlowInv, FlowRecords
  <2>6. MessagesAreOnRecord'
    BY <1>1, <1>6, <2>1 DEF Inv, ChannelInv, MessagesAreOnRecord
  <2>7. ChannelInv'
    BY <1>1, <2>1, <2>2, <2>5, <2>6, NoKeyIsNoKey, <1>6 DEF Inv, ChannelInv, MaybeRef
  <2>8. /\ flow' \in [Flows -> FlowRecords]
        /\ flow'[f].pc = "waiting" /\ flow'[f].key = k /\ flow'[f].ref = r
        /\ \A g \in Flows : g # f => flow'[g] = flow[g]
    <3>1. flow \in [Flows -> FlowRecords]
      BY DEF Inv, FlowInv
    <3>2. PICK c \in FlowRecords : c = flow[f]
      BY <3>1
    <3>3. PICK d : d = [c EXCEPT !.pc = "waiting", !.ref = r]
      OBVIOUS
    <3>4. r \in MaybeRef /\ "waiting" \in Pcs
      BY DEF MaybeRef, Pcs
    <3>5. d \in FlowRecords /\ d.pc = "waiting" /\ d.key = c.key /\ d.ref = r
      BY <3>3, <3>4 DEF FlowRecords
    <3>6. flow' = [flow EXCEPT ![f] = d]
      BY <1>6, <3>2, <3>3, Zenon
    <3> QED
      BY <3>1, <3>2, <3>5, <3>6
  <2>9. FlowInv'
    BY <1>1, <2>1, <2>3, <2>4, <2>8, NoKeyIsNoKey DEF Inv, FlowInv, CatalogStep, ChannelStep
  <2> QED
    BY <1>1, <1>2, <1>3, <1>6, <2>3, <2>4, <2>7, <2>9, MailStutter, CommitStepPreserves DEF Inv
<1> QED
  BY <1>4, <1>5, <1>6 DEF Send

LEMMA SendSucceedsPreserves ==
  ASSUME Inv, NEW f \in Flows, SendSucceeds(f)
  PROVE  Inv' /\ CatalogStep
<1> DEFINE k == flow[f].key
           r == flow[f].ref
<1>1. /\ k \in Keys /\ r \in Refs /\ r \in Posted /\ keyOf[r] = k
      /\ UNCHANGED <<version, viewVars, sending, sessionVars, providerVars, missed>>
  BY DEF SendSucceeds, Inv, FlowInv
<1>2. keyOf' = keyOf /\ textOf' = textOf /\ undecided' = undecided /\ channel' = channel /\ Posted' = Posted
  BY <1>1 DEF providerVars, Posted
<1>3. ChannelStep
  BY <1>2 DEF ChannelStep
<1>4. CatalogInv' /\ FlowInv' /\ MailInv' /\ CatalogStep
  BY <1>1, <1>3, CompletePreserves DEF Inv, SendSucceeds
<1>5. sentByKey' = sentByKey \/ sentByKey' = [sentByKey EXCEPT ![k] = r]
  BY DEF SendSucceeds
<1>6. MessagesAreOnRecord'
  BY <1>2, <1>4 DEF Inv, ChannelInv, MessagesAreOnRecord, CatalogStep, MaybeKey
<1>7. ChannelInv'
  BY <1>1, <1>2, <1>5, <1>6 DEF Inv, ChannelInv, MaybeRef
<1>8. faults' \in Nat
  BY DEF SendSucceeds, Complete, Refused, Fault, Inv, SessionInv
<1> QED
  BY <1>1, <1>3, <1>4, <1>7, <1>8, CommitStepPreserves DEF Inv, SessionInv

LEMMA FailDeliveryPreserves ==
  ASSUME Inv, NEW f \in Flows, FailDelivery(f)
  PROVE  Inv' /\ CatalogStep
<1>1. flow[f].key \in Keys
      /\ UNCHANGED <<version, sentRef, viewVars, sending, sessionVars, sentByKey, mailbox, providerVars, missed>>
  BY DEF FailDelivery, Inv, FlowInv
<1>2. ChannelStep
  BY <1>1, ChannelStutter DEF Inv
<1>3. CatalogInv' /\ CatalogStep
  BY <1>1, <1>2, FailPreserves DEF FailDelivery, Inv
<1>4. FlowInv' /\ MailInv'
  BY <1>1, <1>2, <1>3, GotoPreserves, MailStutter DEF FailDelivery, Inv, Pcs
<1>5. faults' \in Nat
  BY DEF FailDelivery, Fail, Refused, Fault, Inv, SessionInv
<1> QED
  BY <1>1, <1>2, <1>3, <1>4, <1>5, ChannelStutter, CommitStepPreserves DEF Inv, SessionInv

LEMMA ThrewPreserves ==
  ASSUME Inv, NEW f \in Flows, Threw(f)
  PROVE  Inv' /\ CatalogStep
<1>1. UNCHANGED <<catalogVars, viewVars, sessionVars, sentByKey, providerVars, missed>>
  BY DEF Threw
<1>2. ChannelStep
  BY <1>1, ChannelStutter DEF Inv
<1>3. CatalogInv' /\ CatalogStep /\ UNCHANGED status
  BY <1>1, <1>2, CatalogStutter DEF Inv, catalogVars
<1>4. CASE /\ Goto(f, "returning")
           /\ Post([kind |-> "detail", flow |-> f, gen |-> generation, detail |-> Snapshot])
           /\ UNCHANGED <<sending, faults>>
  <2>1. FlowInv' /\ MailInv'
    BY <1>2, <1>3, <1>4, GotoPreserves, DetailReplyPreserves DEF Inv, Pcs
  <2> QED
    BY <1>1, <1>2, <1>3, <1>4, <2>1, ChannelStutter, CommitStepPreserves DEF Inv, SessionInv
<1>5. CASE /\ faults' \in Nat
           /\ flow' = [flow EXCEPT ![f] = IdleFlow]
           /\ sending' \in BOOLEAN /\ UNCHANGED mailbox
  <2>1. FlowInv' /\ MailInv' /\ ChannelInv'
    BY <1>1, <1>2, <1>3, <1>5, EndPreserves, MailStutter, ChannelStutter DEF Inv
  <2>2. ViewInv'
    BY <1>1, <1>3, <1>5 DEF Inv, ViewInv, viewVars, Truthful
  <2>3. SessionInv'
    BY <1>1, <1>5 DEF Inv, SessionInv, sessionVars
  <2> QED BY <1>3, <2>1, <2>2, <2>3 DEF Inv
<1>6. faults \in Nat /\ sending \in BOOLEAN
  BY DEF Inv, SessionInv, ViewInv
<1>7. \A allowed \in BOOLEAN : Refused(allowed) => faults' \in Nat
  BY <1>6, FaultsCounted
<1>8. (flow[f].gen = generation /\ selected) \in BOOLEAN
  OBVIOUS
<1> QED
  BY <1>4, <1>5, <1>6, <1>7, <1>8 DEF Threw

-----------------------------------------------------------------------------
(* The provider, and what ends a session. *)

LEMMA ProviderPostsPreserves ==
  ASSUME Inv, NEW r \in Refs, ProviderPosts(r)
  PROVE  Inv' /\ CatalogStep
<1>1. /\ undecided' = undecided \ {r} /\ channel' = Append(channel, r)
      /\ UNCHANGED <<catalogVars, viewVars, sending, sessionVars, sentByKey, mailbox, flow, keyOf, textOf, missed, faults>>
  BY DEF ProviderPosts
<1>2. channel' \in Seq(Refs) /\ \A i \in DOMAIN channel : i \in DOMAIN channel' /\ channel'[i] = channel[i]
  BY <1>1 DEF Inv, ChannelInv
<1>3. ChannelStep
  BY <1>1, <1>2 DEF ChannelStep, Posted
<1>4. CatalogInv' /\ CatalogStep
  BY <1>1, <1>3, CatalogStutter DEF Inv
<1>5. MessagesAreOnRecord'
  BY <1>1 DEF Inv, ChannelInv, MessagesAreOnRecord, catalogVars
<1>6. ChannelInv'
  BY <1>1, <1>2, <1>3, <1>5 DEF Inv, ChannelInv, ChannelStep
<1> QED
  BY <1>1, <1>3, <1>4, <1>6, FlowStutter, MailStutter, CommitStepPreserves DEF Inv, SessionInv

LEMMA ProviderLosesPreserves ==
  ASSUME Inv, NEW r \in Refs, ProviderLoses(r)
  PROVE  Inv' /\ CatalogStep
<1>1. /\ undecided' = undecided \ {r}
      /\ UNCHANGED <<catalogVars, viewVars, sending, sessionVars, sentByKey, mailbox, flow, keyOf, textOf, channel, missed, faults>>
  BY DEF ProviderLoses
<1>2. Posted' = Posted
  BY <1>1 DEF Posted
<1>3. ChannelStep
  BY <1>1, <1>2 DEF ChannelStep
<1>4. CatalogInv' /\ CatalogStep
  BY <1>1, <1>3, CatalogStutter DEF Inv
<1>5. MessagesAreOnRecord'
  BY <1>1 DEF Inv, ChannelInv, MessagesAreOnRecord, catalogVars
<1>6. ChannelInv'
  BY <1>1, <1>2, <1>5 DEF Inv, ChannelInv
<1> QED
  BY <1>1, <1>3, <1>4, <1>6, FlowStutter, MailStutter, CommitStepPreserves DEF Inv, SessionInv

(* What ends a session leaves the catalog and the provider alone. *)
LEMMA SessionStepPreserves ==
  ASSUME Inv, UNCHANGED <<catalogVars, providerVars, missed, faults>>,
         UNCHANGED sentByKey \/ sentByKey' = [k \in Keys |-> NoRef],
         UNCHANGED viewVars \/ (ClearView /\ dialog' \in Drafts \union {NoDraft}),
         UNCHANGED sending \/ sending' = FALSE,
         UNCHANGED <<mailbox, flow>> \/ (mailbox' = <<>> /\ flow' = [f \in Flows |-> IdleFlow]),
         generation' \in Nat, connected' \in BOOLEAN
  PROVE  Inv' /\ CatalogStep
<1>1. keyOf' = keyOf /\ textOf' = textOf /\ undecided' = undecided /\ channel' = channel /\ Posted' = Posted
  BY DEF providerVars, Posted
<1>2. ChannelStep
  BY <1>1 DEF ChannelStep
<1>3. CatalogInv' /\ CatalogStep /\ status' = status
  BY <1>2, CatalogStutter DEF Inv, catalogVars
<1>4. ViewInv'
  <2>1. CASE UNCHANGED viewVars
    BY <1>3, <2>1 DEF Inv, ViewInv, viewVars, Truthful
  <2>2. CASE ClearView /\ dialog' \in Drafts \union {NoDraft}
    <3>1. Truthful(viewStatus)'
      BY <2>2 DEF ClearView, Truthful, EmptyStatus
    <3> QED BY <2>2, <3>1, EmptyMaps DEF ClearView, Inv, ViewInv
  <2> QED BY <2>1, <2>2
<1>5. MailInv' /\ FlowInv'
  <2>1. CASE UNCHANGED <<mailbox, flow>>
    BY <1>2, <1>3, <2>1, MailStutter, FlowStutter DEF Inv
  <2>2. CASE mailbox' = <<>> /\ flow' = [f \in Flows |-> IdleFlow]
    <3>1. MailInv'
      BY <2>2 DEF MailInv
    <3>2. flow' \in [Flows -> FlowRecords] /\ \A f \in Flows : flow'[f].pc = "idle"
      BY <2>2, IdleFlowTyped DEF IdleFlow
    <3>3. FlowInv'
      BY <3>2 DEF FlowInv
    <3> QED BY <3>1, <3>3
  <2> QED BY <2>1, <2>2
<1>6. MessagesAreOnRecord'
  BY <1>1, <1>3 DEF Inv, ChannelInv, MessagesAreOnRecord
<1>7. ChannelInv'
  BY <1>1, <1>6 DEF Inv, ChannelInv, MaybeRef
<1>8. SessionInv'
  BY DEF Inv, SessionInv
<1> QED
  BY <1>3, <1>4, <1>5, <1>7, <1>8 DEF Inv

LEMMA SessionPreserves ==
  ASSUME Inv, Connect \/ Disconnect \/ SwitchWorkspace \/ Restart
  PROVE  Inv' /\ CatalogStep
<1>1. generation \in Nat /\ connected \in BOOLEAN /\ dialog \in Drafts \union {NoDraft}
  BY DEF Inv, SessionInv, ViewInv
<1>2. CASE Connect
  BY <1>1, <1>2, SessionStepPreserves DEF Connect
<1>3. CASE Disconnect
  BY <1>1, <1>3, SessionStepPreserves DEF Disconnect
<1>4. CASE SwitchWorkspace
  <2>1. connected' \in BOOLEAN /\ dialog' \in Drafts \union {NoDraft}
    BY <1>1, <1>4 DEF SwitchWorkspace
  <2>2. /\ UNCHANGED <<catalogVars, providerVars, missed, faults>> /\ UNCHANGED <<mailbox, flow>>
        /\ sentByKey' = [k \in Keys |-> NoRef] /\ ClearView /\ sending' = FALSE
    BY <1>4 DEF SwitchWorkspace
  <2>3. generation' \in Nat
    BY <1>1, <1>4 DEF SwitchWorkspace
  <2> QED BY <2>1, <2>2, <2>3, SessionStepPreserves
<1>5. CASE Restart
  BY <1>1, <1>5, SessionStepPreserves DEF Restart
<1> QED
  BY <1>2, <1>3, <1>4, <1>5

-----------------------------------------------------------------------------
(* The theorems. *)

LEMMA StepPreserves == Inv /\ [Next]_vars => Inv' /\ CatalogStep
<1> SUFFICES ASSUME Inv, [Next]_vars PROVE Inv' /\ CatalogStep
  OBVIOUS
<1>1. ASSUME NEW d \in Drafts, CreateDraft(d) \/ EditDraft(d) \/ UndoEdit(d) \/ SaveDraft(d)
      PROVE  Inv' /\ CatalogStep
  BY <1>1, CreateDraftPreserves, EditPreserves, SaveDraftPreserves
<1>7. ASSUME NEW d \in Drafts, NEW f \in Flows, ConfirmDelivery(f, d)
      PROVE  Inv' /\ CatalogStep
  BY <1>7, ConfirmDeliveryPreserves
<1>2. ASSUME RefreshCollaboration \/ SelectConversation \/ ApplyDetail \/ CloseDialog \/ Receive
      PROVE  Inv' /\ CatalogStep
  BY <1>2, RefreshPreserves, SelectConversationPreserves, ApplyDetailPreserves,
     CloseDialogPreserves, ReceivePreserves
<1>3. ASSUME NEW f \in Flows, DeliverDraft(f)
      PROVE  Inv' /\ CatalogStep
  BY <1>3, PreparedPreserves, LookupFailsPreserves, LookupFindsPreserves, LookupMissesPreserves,
     SendPreserves, SendSucceedsPreserves, SendFailsPreserves, FailDeliveryPreserves, ThrewPreserves
     DEF DeliverDraft
<1>4. ASSUME NEW r \in Refs, ProviderPosts(r) \/ ProviderLoses(r)
      PROVE  Inv' /\ CatalogStep
  BY <1>4, ProviderPostsPreserves, ProviderLosesPreserves
<1>5. CASE Connect \/ Disconnect \/ SwitchWorkspace \/ Restart
  BY <1>5, SessionPreserves
<1>6. CASE UNCHANGED vars
  <2>1. ViewInv' /\ UNCHANGED <<catalogVars, mailbox, flow, sentByKey, providerVars>>
    BY <1>6 DEF vars, viewVars, catalogVars, Inv, ViewInv, Truthful
  <2>2. SessionInv'
    BY <1>6 DEF vars, sessionVars, Inv, SessionInv
  <2> QED BY <2>1, <2>2, ViewStepPreserves
<1> QED
  BY <1>1, <1>7, <1>2, <1>3, <1>4, <1>5, <1>6 DEF Next

LEMMA InvImpliesTypeOK == Inv => TypeOK
  BY DEF Inv, CatalogInv, ViewInv, MailInv, FlowInv, ChannelInv, SessionInv, TypeOK

(* Every variable keeps its type; a delivery is sent exactly when it names a *)
(* message, as the CHECK of the deliveries table demands (migrations.ts).    *)
THEOREM TypeCorrectness == Spec => []TypeOK
<1>1. Inv /\ [Next]_vars => Inv'
  BY StepPreserves
<1> QED BY InitInv, <1>1, InvImpliesTypeOK, PTL DEF Spec

(* markDeliverySending commits before sendMessage: no message of a delivery  *)
(* exists that the catalog does not know may exist.                          *)
THEOREM MessagesOnRecord == Spec => []MessagesAreOnRecord
<1>1. Inv /\ [Next]_vars => Inv'
  BY StepPreserves
<1>2. Inv => MessagesAreOnRecord
  BY DEF Inv, ChannelInv
<1> QED BY InitInv, <1>1, <1>2, PTL DEF Spec

(* completeDelivery is called with posted messages of the same delivery only. *)
THEOREM SentArePosted == Spec => []SentDeliveriesArePosted
<1>1. Inv /\ [Next]_vars => Inv'
  BY StepPreserves
<1>2. Inv => SentDeliveriesArePosted
  BY DEF Inv, CatalogInv
<1> QED BY InitInv, <1>1, <1>2, PTL DEF Spec

(* However late a reply or a loaded detail is applied, the store shows "sent" *)
(* of sent deliveries only.                                                   *)
THEOREM ShownSent == Spec => []ShownSentIsSent
<1>1. Inv /\ [Next]_vars => Inv'
  BY StepPreserves
<1>2. Inv => ShownSentIsSent
  BY DEF Inv, ViewInv, Truthful, ShownSentIsSent
<1> QED BY InitInv, <1>1, <1>2, PTL DEF Spec

(* transitionDelivery keeps a sent delivery sent, and its message the same,   *)
(* against every call that has been overtaken.                                *)
THEOREM SentFinal == Spec => SentIsFinal
<1> DEFINE Final == \A k \in Keys : status[k] = "sent" => status'[k] = "sent" /\ sentRef'[k] = sentRef[k]
<1>1. Inv /\ [Next]_vars => Inv' /\ [Final]_vars
  BY StepPreserves DEF CatalogStep
<1>2. Init => Inv
  BY InitInv
<1> QED BY <1>1, <1>2, PTL DEF Spec, SentIsFinal

-----------------------------------------------------------------------------
(* Which call may still hand a message to the provider: the invariant that   *)
(* keeps a delivery at one message.                                          *)

(* A call between its mark in the catalog and the end of its send. *)
Committed(f) == flow[f].pc \in {"marked", "waiting", "failing"}
(* A call of the workspace session that is open now. *)
Current(f) == flow[f].gen = generation
(* A call that may write to the catalog. *)
Drives(f) == Committed(f) \/ (Current(f) /\ flow[f].pc \in {"prepared", "looking"})

Handed == Posted \union undecided
Mail == {mailbox[i] : i \in DOMAIN mailbox}

(* Nothing on its way to the window is newer than the catalog or the session. *)
NotAhead(drafts) == \A d \in Drafts : drafts[d] <= version[d]
AgeReply(reply) ==
    /\ reply.gen <= generation
    /\ reply.kind = "detail" => NotAhead(reply.detail.drafts)
    /\ reply.kind = "draft" => reply.version <= version[reply.draft]

AgeInv ==
    /\ NotAhead(viewDraft)
    /\ \A detail \in loading : NotAhead(detail.drafts)
    /\ \A reply \in Mail : AgeReply(reply)

(* A session has one call at a time, and sending is set while it lasts. *)
CallInv ==
    \A f \in Flows :
        /\ flow[f].pc = "idle" => flow[f] = IdleFlow
        /\ flow[f].gen <= generation
        /\ flow[f].pc # "idle" /\ Current(f) => sending
        /\ \A g \in Flows : flow[f].pc # "idle" /\ flow[g].pc # "idle" /\ flow[f].gen = flow[g].gen => f = g
        /\ flow[f].key \in Keys => flow[f].key[2] <= version[flow[f].key[1]]

(* A call awaits at most one reply, in its state "returning". *)
IsFor(reply, f) == reply.kind \in {"detail", "delivery"} /\ reply.flow = f
Awaited(reply, f) ==
    /\ flow[f].pc = "returning" /\ reply.gen = flow[f].gen
    /\ reply.kind = "delivery" => reply.key = flow[f].key

ReplyInv ==
    \A f \in Flows :
        /\ \A i \in DOMAIN mailbox : IsFor(mailbox[i], f) => Awaited(mailbox[i], f)
        /\ \A i, j \in DOMAIN mailbox : IsFor(mailbox[i], f) /\ IsFor(mailbox[j], f) => i = j

(* While a call is committed its delivery is being sent, and no call of a     *)
(* later session has the same delivery.                                       *)
CommitInv ==
    \A f \in Flows :
        /\ flow[f].pc \in {"marked", "waiting"} => status[flow[f].key] = "sending"
        /\ flow[f].pc = "failing" => status[flow[f].key] \in {"sending", "sent"}
        /\ \A g \in Flows : Committed(f) /\ flow[g].key = flow[f].key => flow[g].gen <= flow[f].gen

(* What the window of a later session knows of a delivery that a call of an   *)
(* earlier one is committed to: enough to offer no confirmation.              *)
Fresh(k, drafts, deliveries) == drafts[k[1]] >= k[2] /\ deliveries[k] \in {"sending", "sent"}
FreshReply(k, reply) ==
    /\ reply.kind = "detail" => Fresh(k, reply.detail.drafts, reply.detail.deliveries)
    /\ reply.kind = "draft" /\ reply.draft = k[1] => reply.version > k[2]
FreshFor(k) ==
    /\ viewDraft[k[1]] = 0 \/ Fresh(k, viewDraft, viewStatus)
    /\ \A detail \in loading : Fresh(k, detail.drafts, detail.deliveries)
    /\ \A reply \in Mail : reply.gen = generation => FreshReply(k, reply)

FreshInv == \A f \in Flows, k \in Keys : Committed(f) /\ ~Current(f) /\ flow[f].key = k => FreshFor(k)

(* The call that may send a delivery has seen that it caused no message yet. *)
MessageInv ==
    /\ \A k \in Keys \ missed : \A q, r \in Handed : keyOf[q] = k /\ keyOf[r] = k => q = r
    /\ \A f \in Flows :
          Current(f) =>
              /\ flow[f].pc = "prepared" /\ flow[f].seen = "pending" => status[flow[f].key] = "pending"
              /\ flow[f].pc = "marked" /\ flow[f].key \notin missed =>
                    \A r \in Handed : keyOf[r] # flow[f].key

SendInv == AgeInv /\ CallInv /\ ReplyInv /\ CommitInv /\ FreshInv /\ MessageInv

-----------------------------------------------------------------------------
(* The mailbox. *)

LEMMA MailPosted ==
  ASSUME MailInv, NEW reply \in Replies, Post(reply)
  PROVE  /\ Mail' = Mail \union {reply} /\ Mail \subseteq Replies
         /\ Len(mailbox) \in Nat /\ DOMAIN mailbox = 1..Len(mailbox)
         /\ DOMAIN mailbox' = 1..(Len(mailbox) + 1)
         /\ mailbox'[Len(mailbox) + 1] = reply
         /\ \A i \in 1..Len(mailbox) : mailbox'[i] = mailbox[i]
<1>1. /\ Len(mailbox) \in Nat /\ DOMAIN mailbox = 1..Len(mailbox)
      /\ DOMAIN mailbox' = 1..(Len(mailbox) + 1)
      /\ mailbox'[Len(mailbox) + 1] = reply
      /\ \A i \in 1..Len(mailbox) : mailbox'[i] = mailbox[i] /\ mailbox[i] \in Replies
  BY DEF MailInv, Post
<1>2. Mail \subseteq Replies
  BY <1>1 DEF Mail
<1>3. ASSUME NEW x \in Mail' PROVE x \in Mail \union {reply}
  <2>1. PICK i \in DOMAIN mailbox' : x = mailbox'[i]
    BY DEF Mail
  <2>2. CASE i = Len(mailbox) + 1
    BY <1>1, <2>1, <2>2
  <2>3. CASE i \in 1..Len(mailbox)
    BY <1>1, <2>1, <2>3 DEF Mail
  <2> QED BY <1>1, <2>2, <2>3
<1>4. ASSUME NEW x \in Mail PROVE x \in Mail'
  <2>1. PICK i \in DOMAIN mailbox : x = mailbox[i]
    BY DEF Mail
  <2>2. i \in DOMAIN mailbox' /\ mailbox'[i] = x
    BY <1>1, <2>1
  <2> QED BY <2>2 DEF Mail
<1>5. reply \in Mail'
  <2>1. Len(mailbox) + 1 \in DOMAIN mailbox'
    BY <1>1
  <2> QED BY <1>1, <2>1 DEF Mail
<1>6. Mail' = Mail \union {reply}
  BY <1>3, <1>4, <1>5
<1> QED
  BY <1>1, <1>2, <1>6

LEMMA MailTaken ==
  ASSUME MailInv, mailbox # <<>>, mailbox' = Tail(mailbox)
  PROVE  /\ Mail' \subseteq Mail /\ Mail \subseteq Replies
         /\ 1 \in DOMAIN mailbox /\ mailbox[1] = Head(mailbox) /\ Head(mailbox) \in Mail
         /\ \A i \in DOMAIN mailbox' : /\ i \in Nat /\ i + 1 \in DOMAIN mailbox /\ i + 1 # 1
                                       /\ mailbox'[i] = mailbox[i + 1]
<1>1. /\ Len(mailbox) \in Nat \ {0} /\ DOMAIN mailbox = 1..Len(mailbox)
      /\ DOMAIN mailbox' = 1..(Len(mailbox) - 1)
      /\ \A i \in 1..(Len(mailbox) - 1) : mailbox'[i] = mailbox[i + 1]
      /\ \A i \in 1..Len(mailbox) : mailbox[i] \in Replies
      /\ mailbox[1] = Head(mailbox)
  BY DEF MailInv
<1>2. \A i \in DOMAIN mailbox' : i \in Nat /\ i + 1 \in DOMAIN mailbox /\ i + 1 # 1 /\ mailbox'[i] = mailbox[i + 1]
  BY <1>1
<1>3. Mail' \subseteq Mail
  <2>1. ASSUME NEW x \in Mail' PROVE x \in Mail
    <3>1. PICK i \in DOMAIN mailbox' : x = mailbox'[i]
      BY DEF Mail
    <3> QED BY <1>2, <3>1 DEF Mail
  <2> QED BY <2>1
<1>4. Mail \subseteq Replies
  BY <1>1 DEF Mail
<1>5. 1 \in DOMAIN mailbox
  BY <1>1
<1>6. Head(mailbox) \in Mail
  BY <1>1, <1>5 DEF Mail
<1> QED
  BY <1>1, <1>2, <1>3, <1>4, <1>5, <1>6

LEMMA MailKept ==
  ASSUME MailInv
  PROVE  /\ Mail \subseteq Replies
         /\ mailbox' = mailbox => Mail' = Mail
         /\ mailbox' = <<>> => Mail' = {}
<1>1. Mail \subseteq Replies
  BY DEF Mail, MailInv
<1>2. mailbox' = mailbox => Mail' = Mail
  BY DEF Mail
<1>3. mailbox' = <<>> => Mail' = {}
  BY DEF Mail
<1> QED BY <1>1, <1>2, <1>3

-----------------------------------------------------------------------------
(* What is on its way to the window stays no newer than the catalog. *)

Grows == version' \in DraftMap /\ (\A d \in Drafts : version[d] <= version'[d])

LEMMA NotAheadKept ==
  ASSUME CatalogInv, Grows, NEW drafts \in DraftMap, NotAhead(drafts)
  PROVE  NotAhead(drafts)'
<1> SUFFICES ASSUME NEW d \in Drafts PROVE drafts[d] <= version'[d]
  BY DEF NotAhead
<1>1. drafts[d] \in Nat /\ version[d] \in Nat /\ version'[d] \in Nat
  BY BoundAssumption DEF DraftMap, CatalogInv, Grows
<1>2. drafts[d] <= version[d] /\ version[d] <= version'[d]
  BY DEF NotAhead, Grows
<1> QED BY <1>1, <1>2

LEMMA AgeReplyKept ==
  ASSUME CatalogInv, SessionInv, Grows, generation' \in Nat, generation <= generation',
         NEW reply \in Replies, AgeReply(reply)
  PROVE  AgeReply(reply)'
<1>1. reply.gen \in Nat
  BY DEF Replies
<1>2. reply.gen <= generation'
  BY <1>1 DEF SessionInv, AgeReply
<1>3. ASSUME reply.kind = "detail" PROVE NotAhead(reply.detail.drafts)'
  <2>1. PICK drafts \in DraftMap : drafts = reply.detail.drafts
    BY <1>3 DEF Replies, Details
  <2>2. NotAhead(drafts)
    BY <1>3, <2>1 DEF AgeReply
  <2> QED BY <2>1, <2>2, NotAheadKept
<1>4. ASSUME reply.kind = "draft" PROVE reply.version <= version'[reply.draft]
  <2>1. reply.draft \in Drafts /\ reply.version \in Nat
    BY <1>4 DEF Replies, Versions
  <2>2. version[reply.draft] \in Nat /\ version'[reply.draft] \in Nat
    BY <2>1, BoundAssumption DEF DraftMap, CatalogInv, Grows
  <2> QED BY <1>4, <2>1, <2>2 DEF AgeReply, Grows
<1> QED
  BY <1>2, <1>3, <1>4 DEF AgeReply

LEMMA AgeStep ==
  ASSUME Inv, AgeInv, Grows, generation' \in Nat, generation <= generation',
         viewDraft' = viewDraft \/ NotAhead(viewDraft)',
         \A detail \in loading' : detail \in loading \/ NotAhead(detail.drafts)',
         \A reply \in Mail' : reply \in Mail \/ AgeReply(reply)'
  PROVE  AgeInv'
<1>1. NotAhead(viewDraft)'
  <2>1. CASE viewDraft' = viewDraft
    <3>1. PICK drafts \in DraftMap : drafts = viewDraft
      BY DEF Inv, ViewInv
    <3>2. NotAhead(drafts)
      BY <3>1 DEF AgeInv
    <3>3. NotAhead(drafts)'
      BY <3>2, NotAheadKept DEF Inv
    <3> QED BY <2>1, <3>1, <3>3 DEF NotAhead
  <2> QED BY <2>1
<1>2. ASSUME NEW detail \in loading' PROVE NotAhead(detail.drafts)'
  <2>1. CASE detail \in loading
    <3>1. PICK drafts \in DraftMap : drafts = detail.drafts
      BY <2>1 DEF Inv, ViewInv, Details
    <3>2. NotAhead(drafts)
      BY <2>1, <3>1 DEF AgeInv
    <3> QED BY <3>1, <3>2, NotAheadKept DEF Inv
  <2> QED BY <1>2, <2>1
<1>3. ASSUME NEW reply \in Mail' PROVE AgeReply(reply)'
  <2>1. CASE reply \in Mail
    <3>1. reply \in Replies /\ AgeReply(reply)
      BY <2>1, MailKept DEF Inv, AgeInv
    <3> QED BY <3>1, AgeReplyKept DEF Inv
  <2> QED BY <1>3, <2>1
<1> QED
  BY <1>1, <1>2, <1>3 DEF AgeInv

LEMMA GrowsIfKept == ASSUME CatalogInv, UNCHANGED version PROVE Grows
<1>1. \A d \in Drafts : version[d] \in Int
  BY BoundAssumption DEF CatalogInv, DraftMap
<1> QED BY <1>1 DEF CatalogInv, Grows

LEMMA SnapshotNow ==
  ASSUME CatalogInv
  PROVE  /\ Snapshot \in Details /\ NotAhead(version)
         /\ UNCHANGED version => \A detail \in Details : detail = Snapshot => NotAhead(detail.drafts)'
<1>1. \A d \in Drafts : version[d] \in Int
  BY BoundAssumption DEF CatalogInv, DraftMap
<1>2. Snapshot \in Details /\ Snapshot.drafts = version
  BY DEF CatalogInv, Snapshot, Details
<1>3. ASSUME UNCHANGED version, NEW detail \in Details, detail = Snapshot PROVE NotAhead(detail.drafts)'
  <2>1. \A d \in Drafts : detail.drafts[d] <= version'[d]
    BY <1>1, <1>2, <1>3
  <2> QED BY <2>1 DEF NotAhead
<1> QED
  BY <1>1, <1>2, <1>3 DEF NotAhead

-----------------------------------------------------------------------------
(* What every step of a call of deliverDraft has in common. *)

DeliveryReply(f, result) ==
    [kind |-> "delivery", flow |-> f, gen |-> flow[f].gen, key |-> flow[f].key, status |-> result]
DetailReply(f) == [kind |-> "detail", flow |-> f, gen |-> generation, detail |-> Snapshot]

(* The catalog is written to for the call's own delivery, by a call that may. *)
CallCommits(f) ==
    \/ UNCHANGED status
    \/ /\ Drives(f)
       /\ \E s \in Statuses : status' = [status EXCEPT ![flow[f].key] = s]

CallMoves(f) ==
    /\ \A g \in Flows \ {f} : flow'[g] = flow[g]
    /\ flow'[f].pc # "idle" =>
          /\ flow'[f].gen = flow[f].gen /\ flow'[f].key = flow[f].key
          /\ flow'[f].pc # "prepared"
    /\ flow'[f].pc = "idle" => flow'[f] = IdleFlow
    /\ flow'[f].pc \in {"marked", "waiting", "failing"} => Drives(f)
    /\ flow'[f].pc \in {"marked", "waiting"} => status'[flow[f].key] = "sending"
    /\ flow'[f].pc = "failing" => status'[flow[f].key] \in {"sending", "sent"}

CallReplies(f) ==
    \/ UNCHANGED mailbox
    \/ /\ flow'[f].pc = "returning"
       /\ \/ flow[f].pc # "threw" /\ \E result \in Statuses : Post(DeliveryReply(f, result))
          \/ Current(f) /\ Post(DetailReply(f))

CallStep(f) ==
    /\ flow[f].pc \notin {"idle", "returning"}
    /\ UNCHANGED <<version, viewVars, sessionVars>>
    /\ CallCommits(f) /\ CallMoves(f) /\ CallReplies(f)
    /\ UNCHANGED sending \/ (flow'[f].pc = "idle" /\ Current(f))

LEMMA GotoMoves ==
  ASSUME FlowInv, NEW f \in Flows, NEW pc \in Pcs, Goto(f, pc)
  PROVE  /\ \A g \in Flows \ {f} : flow'[g] = flow[g]
         /\ flow'[f].pc = pc /\ flow'[f].gen = flow[f].gen /\ flow'[f].key = flow[f].key
         /\ flow'[f].ref = flow[f].ref
         /\ pc \notin {"idle", "prepared", "marked", "waiting", "failing"} => CallMoves(f)
<1>1. /\ \A g \in Flows \ {f} : flow'[g] = flow[g]
      /\ flow'[f].pc = pc /\ flow'[f].gen = flow[f].gen /\ flow'[f].key = flow[f].key
      /\ flow'[f].ref = flow[f].ref
  BY DEF Goto, FlowInv, FlowRecords
<1> QED
  BY <1>1 DEF CallMoves

LEMMA EndMoves ==
  ASSUME FlowInv, NEW f \in Flows, flow' = [flow EXCEPT ![f] = IdleFlow]
  PROVE  CallMoves(f) /\ flow'[f].pc = "idle"
<1>1. (\A g \in Flows \ {f} : flow'[g] = flow[g]) /\ flow'[f] = IdleFlow
  BY DEF FlowInv
<1>2. IdleFlow.pc = "idle"
  BY DEF IdleFlow
<1> QED
  BY <1>1, <1>2 DEF CallMoves

LEMMA ReturnMoves ==
  ASSUME FlowInv, NEW f \in Flows, NEW result \in Statuses, flow[f].pc # "threw", Return(f, result)
  PROVE  CallMoves(f) /\ CallReplies(f) /\ flow'[f].pc = "returning"
<1>1. CallMoves(f) /\ flow'[f].pc = "returning"
  BY GotoMoves DEF Return, Pcs
<1>2. Post(DeliveryReply(f, result))
  BY DEF Return, DeliveryReply
<1> QED
  BY <1>1, <1>2 DEF CallReplies

LEMMA MarkMoves ==
  ASSUME CatalogInv, FlowInv, NEW f \in Flows, flow[f].key \in Keys, Drives(f), MarkSending(f)
  PROVE  /\ CallMoves(f) /\ CallCommits(f) /\ flow'[f].pc # "idle"
         /\ flow'[f].pc = "marked" => MaySend(flow[f].key)
<1> DEFINE k == flow[f].key
<1>1. CASE MaySend(k) /\ status' = [status EXCEPT ![k] = "sending"] /\ Accepted(f, "marked", "threw")
  <2>1. status'[k] = "sending"
    BY <1>1 DEF CatalogInv, StatusMap
  <2>2. CASE Goto(f, "threw")
    <3>1. CallMoves(f) /\ flow'[f].pc = "threw"
      BY <2>2, GotoMoves DEF Pcs
    <3> QED BY <1>1, <3>1 DEF CallCommits, Statuses
  <2>3. CASE Goto(f, "marked")
    <3>1. /\ \A g \in Flows \ {f} : flow'[g] = flow[g]
          /\ flow'[f].pc = "marked" /\ flow'[f].gen = flow[f].gen /\ flow'[f].key = flow[f].key
      BY <2>3, GotoMoves DEF Pcs
    <3>2. CallMoves(f)
      BY <2>1, <3>1 DEF CallMoves
    <3> QED BY <1>1, <3>1, <3>2 DEF CallCommits, Statuses
  <2> QED BY <1>1, <2>2, <2>3 DEF Accepted
<1>2. CASE Goto(f, "threw") /\ UNCHANGED status
  <2>1. CallMoves(f) /\ flow'[f].pc = "threw"
    BY <1>2, GotoMoves DEF Pcs
  <2> QED BY <1>2, <2>1 DEF CallCommits
<1> QED
  BY <1>1, <1>2 DEF MarkSending

LEMMA CompleteMoves ==
  ASSUME CatalogInv, FlowInv, CommitInv, NEW f \in Flows, flow[f].key \in Keys, Drives(f), NEW r \in Refs,
         NEW refusal \in {"threw", "failing"}, refusal = "failing" => flow[f].pc \in {"marked", "waiting"},
         Complete(f, r, refusal)
  PROVE  CallMoves(f) /\ CallCommits(f) /\ CallReplies(f) /\ flow'[f].pc # "idle" /\ flow'[f].pc # "marked"
<1> DEFINE k == flow[f].key
<1>1. ASSUME Goto(f, refusal), status' = status \/ status' = [status EXCEPT ![k] = "sent"]
      PROVE  CallMoves(f) /\ CallCommits(f) /\ flow'[f].pc # "idle" /\ flow'[f].pc # "marked"
  <2>1. CallCommits(f)
    BY <1>1 DEF CallCommits, Statuses
  <2>2. /\ \A g \in Flows \ {f} : flow'[g] = flow[g]
        /\ flow'[f].pc = refusal /\ flow'[f].gen = flow[f].gen /\ flow'[f].key = flow[f].key
    BY <1>1, GotoMoves DEF Pcs
  <2>3. refusal = "failing" => status'[k] \in {"sending", "sent"}
    BY <1>1 DEF CommitInv, CatalogInv, StatusMap
  <2>4. CallMoves(f)
    BY <2>2, <2>3 DEF CallMoves
  <2> QED BY <2>1, <2>2, <2>4
<1>2. CASE status' = [status EXCEPT ![k] = "sent"] /\ Return(f, "sent")
  <2>1. CallMoves(f) /\ CallReplies(f) /\ flow'[f].pc = "returning"
    BY <1>2, ReturnMoves DEF Statuses, Drives, Committed
  <2> QED BY <1>2, <2>1 DEF CallCommits, Statuses
<1>3. CASE status' = [status EXCEPT ![k] = "sent"] /\ Goto(f, refusal) /\ UNCHANGED mailbox
  BY <1>1, <1>3 DEF CallReplies
<1>4. CASE Goto(f, refusal) /\ UNCHANGED <<status, sentRef, mailbox>>
  BY <1>1, <1>4 DEF CallReplies
<1> QED
  BY <1>2, <1>3, <1>4 DEF Complete

LEMMA PreparedMoves ==
  ASSUME Inv, CommitInv, NEW f \in Flows, Prepared(f)
  PROVE  CallStep(f)
<1>1. flow[f].pc = "prepared" /\ flow[f].key \in Keys
      /\ UNCHANGED <<version, viewVars, sending, sessionVars>>
  BY DEF Prepared, Inv, FlowInv
<1>2. CallMoves(f) /\ CallCommits(f) /\ CallReplies(f)
  <2>1. CASE Return(f, "sent") /\ UNCHANGED status
    BY <1>1, <2>1, ReturnMoves DEF CallCommits, Statuses, Inv
  <2>2. CASE Goto(f, "threw") /\ UNCHANGED <<status, mailbox>>
    BY <2>2, GotoMoves DEF Pcs, CallCommits, CallReplies, Inv
  <2>3. CASE Goto(f, "looking") /\ UNCHANGED <<status, mailbox>>
    BY <2>3, GotoMoves DEF Pcs, CallCommits, CallReplies, Inv
  <2>4. CASE Usable(f) /\ MarkSending(f) /\ UNCHANGED mailbox
    <3>1. Drives(f)
      BY <1>1, <2>4 DEF Drives, Usable, Current
    <3>2. CallMoves(f) /\ CallCommits(f)
      BY <1>1, <2>4, <3>1, MarkMoves DEF Inv
    <3> QED BY <2>4, <3>2 DEF CallReplies
  <2> QED BY <2>1, <2>2, <2>3, <2>4 DEF Prepared
<1> QED
  BY <1>1, <1>2 DEF CallStep

LEMMA LookupMoves ==
  ASSUME Inv, CommitInv, NEW f \in Flows, LookupFails(f) \/ LookupFinds(f) \/ LookupMisses(f)
  PROVE  CallStep(f)
<1>1. flow[f].pc = "looking" /\ flow[f].key \in Keys
      /\ UNCHANGED <<version, viewVars, sending, sessionVars>>
  BY DEF LookupFails, LookupFinds, LookupMisses, Inv, FlowInv, catalogVars
<1>2. CallMoves(f) /\ CallCommits(f) /\ CallReplies(f)
  <2>1. CASE LookupFails(f)
    <3>1. Goto(f, "threw") /\ UNCHANGED <<status, mailbox>>
      BY <2>1 DEF LookupFails, catalogVars
    <3> QED BY <3>1, GotoMoves DEF Pcs, CallCommits, CallReplies, Inv
  <2>2. CASE LookupFinds(f)
    <3> PICK page \in Pages : \E i \in DOMAIN page : Complete(f, page[i], "threw")
      BY <2>2 DEF LookupFinds
    <3>1. PICK i \in DOMAIN page : Complete(f, page[i], "threw")
      OBVIOUS
    <3>2. page[i] \in Refs
      BY PageIsPosted DEF Inv, ChannelInv
    <3>3. Drives(f)
      BY <1>1, <2>2 DEF Drives, LookupFinds, Usable, Current
    <3> QED BY <1>1, <3>1, <3>2, <3>3, CompleteMoves DEF Inv
  <2>3. CASE LookupMisses(f)
    <3>1. Drives(f)
      BY <1>1, <2>3 DEF Drives, LookupMisses, Usable, Current
    <3>2. CASE MarkSending(f) /\ UNCHANGED mailbox
      <4>1. CallMoves(f) /\ CallCommits(f)
        BY <1>1, <3>1, <3>2, MarkMoves DEF Inv
      <4> QED BY <3>2, <4>1 DEF CallReplies
    <3>3. CASE status' = [status EXCEPT ![flow[f].key] = "failed"] /\ Return(f, "failed")
      <4>1. CallMoves(f) /\ CallReplies(f)
        BY <1>1, <3>3, ReturnMoves DEF Statuses, Inv
      <4> QED BY <3>1, <3>3, <4>1 DEF CallCommits, Statuses
    <3>4. CASE Goto(f, "threw") /\ UNCHANGED <<status, mailbox>>
      BY <3>4, GotoMoves DEF Pcs, CallCommits, CallReplies, Inv
    <3> QED BY <2>3, <3>2, <3>3, <3>4 DEF LookupMisses, Uncertain
  <2> QED BY <2>1, <2>2, <2>3
<1> QED
  BY <1>1, <1>2 DEF CallStep

LEMMA FailingMoves ==
  ASSUME Inv, CommitInv, NEW f \in Flows, flow[f].pc \in {"marked", "waiting"},
         Goto(f, "failing"), UNCHANGED <<status, mailbox>>
  PROVE  CallMoves(f) /\ CallCommits(f) /\ CallReplies(f)
<1>1. /\ \A g \in Flows \ {f} : flow'[g] = flow[g]
      /\ flow'[f].pc = "failing" /\ flow'[f].gen = flow[f].gen /\ flow'[f].key = flow[f].key
  BY GotoMoves DEF Pcs, Inv
<1>2. Drives(f) /\ status[flow[f].key] = "sending"
  BY DEF Drives, Committed, CommitInv
<1> QED
  BY <1>1, <1>2 DEF CallMoves, CallCommits, CallReplies

LEMMA SendMoves ==
  ASSUME Inv, CommitInv, NEW f \in Flows, Send(f)
  PROVE  CallStep(f)
<1> DEFINE k == flow[f].key
<1>1. flow[f].pc = "marked" /\ k \in Keys /\ Drives(f) /\ status[k] = "sending"
      /\ UNCHANGED <<version, viewVars, sending, sessionVars>>
  BY DEF Send, Inv, FlowInv, CommitInv, Drives, Committed
<1>2. CallMoves(f) /\ CallCommits(f) /\ CallReplies(f)
  <2>1. CASE Goto(f, "failing") /\ UNCHANGED <<status, mailbox>>
    BY <1>1, <2>1, FailingMoves
  <2>2. CASE sentByKey[k] # NoRef /\ Complete(f, sentByKey[k], "failing")
    <3>1. sentByKey[k] \in Refs
      BY <1>1, <2>2 DEF Inv, ChannelInv, MaybeRef
    <3> QED BY <1>1, <2>2, <3>1, CompleteMoves DEF Inv
  <2>3. ASSUME NEW r \in Refs, flow' = [flow EXCEPT ![f].pc = "waiting", ![f].ref = r],
               UNCHANGED <<status, mailbox>>
        PROVE  CallMoves(f) /\ CallCommits(f) /\ CallReplies(f)
    <3>1. /\ \A g \in Flows \ {f} : flow'[g] = flow[g]
          /\ flow'[f].pc = "waiting" /\ flow'[f].gen = flow[f].gen /\ flow'[f].key = flow[f].key
      BY <2>3 DEF Inv, FlowInv, FlowRecords
    <3> QED BY <1>1, <2>3, <3>1 DEF CallMoves, CallCommits, CallReplies
  <2> QED BY <2>1, <2>2, <2>3 DEF Send
<1> QED
  BY <1>1, <1>2 DEF CallStep

LEMMA AnswerMoves ==
  ASSUME Inv, CommitInv, NEW f \in Flows, SendSucceeds(f) \/ SendFails(f) \/ FailDelivery(f)
  PROVE  CallStep(f)
<1>1. flow[f].key \in Keys /\ Drives(f) /\ flow[f].pc \in {"waiting", "failing"}
      /\ UNCHANGED <<version, viewVars, sending, sessionVars>>
  BY DEF SendSucceeds, SendFails, FailDelivery, Inv, FlowInv, Drives, Committed, catalogVars
<1>2. CallMoves(f) /\ CallCommits(f) /\ CallReplies(f)
  <2>1. CASE SendSucceeds(f)
    <3>1. flow[f].ref \in Refs /\ flow[f].pc = "waiting" /\ Complete(f, flow[f].ref, "failing")
      BY <2>1 DEF SendSucceeds, Inv, FlowInv
    <3> QED BY <1>1, <3>1, CompleteMoves DEF Inv
  <2>2. CASE SendFails(f)
    <3>1. flow[f].pc = "waiting" /\ Goto(f, "failing") /\ UNCHANGED <<status, mailbox>>
      BY <2>2 DEF SendFails, catalogVars
    <3> QED BY <3>1, FailingMoves
  <2>3. CASE FailDelivery(f)
    <3>1. CallMoves(f) /\ UNCHANGED mailbox
      BY <2>3, GotoMoves DEF FailDelivery, Pcs, Inv
    <3>2. CallCommits(f)
      BY <1>1, <2>3 DEF FailDelivery, Fail, CallCommits, Statuses
    <3> QED BY <3>1, <3>2 DEF CallReplies
  <2> QED BY <2>1, <2>2, <2>3
<1> QED
  BY <1>1, <1>2 DEF CallStep

LEMMA ThrewMoves ==
  ASSUME Inv, NEW f \in Flows, Threw(f)
  PROVE  CallStep(f)
<1>1. flow[f].pc = "threw" /\ UNCHANGED <<version, status, viewVars, sessionVars>>
  BY DEF Threw, catalogVars
<1>2. CASE Current(f) /\ Goto(f, "returning") /\ Post(DetailReply(f)) /\ UNCHANGED sending
  <2>1. CallMoves(f) /\ flow'[f].pc = "returning"
    BY <1>2, GotoMoves DEF Pcs, Inv
  <2> QED BY <1>1, <1>2, <2>1 DEF CallStep, CallCommits, CallReplies
<1>3. CASE flow' = [flow EXCEPT ![f] = IdleFlow] /\ UNCHANGED mailbox /\ (Current(f) \/ UNCHANGED sending)
  <2>1. CallMoves(f) /\ flow'[f].pc = "idle"
    BY <1>3, EndMoves DEF Inv
  <2> QED BY <1>1, <1>3, <2>1 DEF CallStep, CallCommits, CallReplies
<1> QED
  BY <1>2, <1>3 DEF Threw, Current, DetailReply

LEMMA DeliverMoves ==
  ASSUME Inv, CommitInv, NEW f \in Flows, DeliverDraft(f)
  PROVE  CallStep(f)
  BY PreparedMoves, LookupMoves, SendMoves, AnswerMoves, ThrewMoves DEF DeliverDraft

-----------------------------------------------------------------------------
(* What a step of a call preserves. *)

(* Two calls that may write for the same delivery are one. *)
LEMMA OneDriver ==
  ASSUME Inv, CallInv, CommitInv, NEW f \in Flows, NEW g \in Flows, Drives(f),
         Committed(g), flow[f].key = flow[g].key
  PROVE  f = g
<1>1. /\ flow[f].gen \in Nat /\ flow[g].gen \in Nat /\ generation \in Nat
      /\ flow[f].gen <= generation /\ flow[g].gen <= generation
  BY DEF Inv, FlowInv, FlowRecords, SessionInv, CallInv
<1>2. flow[f].gen <= flow[g].gen
  BY DEF CommitInv
<1>3. Committed(f) => flow[g].gen <= flow[f].gen
  BY DEF CommitInv
<1>4. flow[f].gen = flow[g].gen
  BY <1>1, <1>2, <1>3 DEF Drives, Current
<1> QED
  BY <1>4 DEF CallInv, Drives, Committed

LEMMA ReplyPosted ==
  ASSUME Inv, FlowInv', NEW f \in Flows, CallStep(f)
  PROVE  \/ UNCHANGED mailbox
         \/ \E reply \in Replies :
               /\ Post(reply) /\ flow'[f].pc = "returning" /\ IsFor(reply, f)
               /\ reply.kind # "draft" /\ reply.gen = flow[f].gen
               /\ reply.kind = "detail" => Current(f) /\ reply.detail = Snapshot
               /\ reply.kind = "delivery" => reply.key = flow[f].key
<1>1. flow[f].gen \in Nat /\ generation \in Nat /\ Snapshot \in Details
  BY SnapshotNow DEF Inv, FlowInv, FlowRecords, SessionInv
<1>2. CASE Current(f) /\ flow'[f].pc = "returning" /\ Post(DetailReply(f))
  <2>1. PICK reply \in Replies : reply = DetailReply(f)
    BY <1>1 DEF DetailReply, Replies
  <2> QED BY <1>2, <2>1 DEF DetailReply, IsFor, Current
<1>3. ASSUME NEW result \in Statuses, flow[f].pc # "threw", flow'[f].pc = "returning", Post(DeliveryReply(f, result))
      PROVE  \E reply \in Replies :
               /\ Post(reply) /\ flow'[f].pc = "returning" /\ IsFor(reply, f)
               /\ reply.kind # "draft" /\ reply.gen = flow[f].gen
               /\ reply.kind = "detail" => Current(f) /\ reply.detail = Snapshot
               /\ reply.kind = "delivery" => reply.key = flow[f].key
  <2>1. flow[f].key \in Keys
    BY <1>3 DEF CallStep, Inv, FlowInv
  <2>2. PICK reply \in Replies : reply = DeliveryReply(f, result)
    BY <1>1, <2>1 DEF DeliveryReply, Replies
  <2> QED BY <1>3, <2>2 DEF DeliveryReply, IsFor
<1> QED
  BY <1>2, <1>3 DEF CallStep, CallReplies

LEMMA CallAge ==
  ASSUME Inv, Inv', AgeInv, CallInv, NEW f \in Flows, CallStep(f)
  PROVE  AgeInv'
<1>1. /\ UNCHANGED version /\ generation' = generation /\ generation \in Nat
      /\ viewDraft' = viewDraft /\ loading' = loading
  BY DEF CallStep, viewVars, sessionVars, Inv, SessionInv
<1>2. Grows
  BY <1>1, GrowsIfKept DEF Inv
<1>3. ASSUME NEW reply \in Mail', reply \notin Mail PROVE AgeReply(reply)'
  <2>1. PICK new \in Replies : /\ Post(new) /\ new.kind # "draft" /\ new.gen = flow[f].gen
                               /\ new.kind = "detail" => Current(f) /\ new.detail = Snapshot
    BY <1>3, ReplyPosted, MailKept DEF Inv
  <2>2. reply = new
    BY <1>3, <2>1, MailPosted DEF Inv
  <2>3. new.kind \in {"detail", "delivery"} /\ new.gen <= generation
    <3>1. new.gen \in Nat
      BY DEF Replies
    <3> QED BY <1>1, <2>1, <3>1 DEF Replies, CallInv
  <2>4. new.kind = "detail" => NotAhead(new.detail.drafts)'
    <3>1. SUFFICES ASSUME new.kind = "detail" PROVE NotAhead(new.detail.drafts)'
      OBVIOUS
    <3>2. PICK detail \in Details : detail = new.detail
      BY <3>1 DEF Replies
    <3>3. detail = Snapshot
      BY <2>1, <3>1, <3>2
    <3>4. NotAhead(detail.drafts)'
      BY <1>1, <3>3, SnapshotNow DEF Inv
    <3> QED BY <3>2, <3>4
  <2> QED BY <1>1, <2>1, <2>2, <2>3, <2>4 DEF AgeReply
<1> QED
  BY <1>1, <1>2, <1>3, AgeStep

LEMMA CallCalls ==
  ASSUME Inv, Inv', CallInv, NEW f \in Flows, CallStep(f)
  PROVE  CallInv'
<1>1. /\ version' = version /\ generation' = generation
      /\ \A g \in Flows \ {f} : flow'[g] = flow[g]
      /\ flow[f].pc # "idle"
      /\ flow'[f].pc # "idle" => flow'[f].gen = flow[f].gen /\ flow'[f].key = flow[f].key
      /\ flow'[f].pc = "idle" => flow'[f] = IdleFlow
      /\ sending' = sending \/ (flow'[f].pc = "idle" /\ Current(f))
  BY DEF CallStep, CallMoves, sessionVars
<1>2. IdleFlow.gen = 0 /\ IdleFlow.key = NoKey /\ NoKey \notin Keys /\ generation \in Nat
  BY NoKeyIsNoKey DEF IdleFlow, Inv, SessionInv
<1>3. ASSUME NEW g \in Flows
      PROVE  /\ flow'[g].pc = "idle" => flow'[g] = IdleFlow
             /\ flow'[g].gen <= generation'
             /\ flow'[g].key \in Keys => flow'[g].key[2] <= version'[flow'[g].key[1]]
  BY <1>1, <1>2 DEF CallInv
<1>4. ASSUME NEW g \in Flows, flow'[g].pc # "idle", flow'[g].gen = generation' PROVE sending'
  <2>1. flow[g].pc # "idle" /\ flow[g].gen = generation
    BY <1>1, <1>4
  <2>2. sending
    BY <2>1 DEF CallInv, Current
  <2>3. flow'[f].pc = "idle" /\ Current(f) => f = g
    BY <1>1, <2>1 DEF CallInv, Current
  <2> QED BY <1>1, <1>4, <2>2, <2>3
<1>5. ASSUME NEW g \in Flows, NEW h \in Flows,
             flow'[g].pc # "idle", flow'[h].pc # "idle", flow'[g].gen = flow'[h].gen
      PROVE  g = h
  <2>1. flow[g].pc # "idle" /\ flow[h].pc # "idle" /\ flow[g].gen = flow[h].gen
    BY <1>1, <1>5
  <2> QED BY <2>1 DEF CallInv
<1> QED
  BY <1>3, <1>4, <1>5 DEF CallInv, Current

LEMMA CallReply ==
  ASSUME Inv, Inv', ReplyInv, NEW f \in Flows, CallStep(f)
  PROVE  ReplyInv'
<1>1. /\ \A g \in Flows \ {f} : flow'[g] = flow[g]
      /\ flow[f].pc # "returning"
      /\ flow'[f].pc # "idle" => flow'[f].gen = flow[f].gen /\ flow'[f].key = flow[f].key
  BY DEF CallStep, CallMoves
<1>2. \A i \in DOMAIN mailbox : ~IsFor(mailbox[i], f)
  BY <1>1 DEF ReplyInv, Awaited
<1>3. CASE UNCHANGED mailbox
  <2>1. ASSUME NEW g \in Flows, NEW i \in DOMAIN mailbox', IsFor(mailbox'[i], g)
        PROVE  /\ flow'[g].pc = "returning" /\ mailbox'[i].gen = flow'[g].gen
               /\ mailbox'[i].kind = "delivery" => mailbox'[i].key = flow'[g].key
    <3>1. g # f
      BY <1>2, <1>3, <2>1
    <3>2. Awaited(mailbox[i], g)
      BY <1>3, <2>1 DEF ReplyInv
    <3> QED BY <1>1, <1>3, <3>1, <3>2 DEF Awaited
  <2> QED BY <1>3, <2>1 DEF ReplyInv, Awaited, IsFor
<1>4. ASSUME NEW reply \in Replies, Post(reply), flow'[f].pc = "returning", IsFor(reply, f),
             reply.gen = flow[f].gen, reply.kind = "delivery" => reply.key = flow[f].key
      PROVE  ReplyInv'
  <2>1. /\ Len(mailbox) \in Nat /\ DOMAIN mailbox = 1..Len(mailbox)
        /\ DOMAIN mailbox' = 1..(Len(mailbox) + 1)
        /\ mailbox'[Len(mailbox) + 1] = reply
        /\ \A i \in 1..Len(mailbox) : mailbox'[i] = mailbox[i]
    BY <1>4, MailPosted DEF Inv
  <2> PICK n : n = Len(mailbox) + 1
    OBVIOUS
  <2>2. ASSUME NEW g \in Flows, NEW i \in DOMAIN mailbox', IsFor(mailbox'[i], g)
        PROVE  /\ flow'[g].pc = "returning" /\ mailbox'[i].gen = flow'[g].gen
               /\ mailbox'[i].kind = "delivery" => mailbox'[i].key = flow'[g].key
               /\ g = f <=> i = n
    <3>1. CASE i = n
      <4>1. mailbox'[i] = reply /\ g = f
        BY <1>4, <2>1, <2>2, <3>1 DEF IsFor
      <4> QED BY <1>1, <1>4, <3>1, <4>1
    <3>2. CASE i # n
      <4>1. i \in DOMAIN mailbox /\ mailbox'[i] = mailbox[i]
        BY <2>1, <3>2
      <4>2. g # f /\ Awaited(mailbox[i], g)
        BY <1>2, <2>2, <4>1 DEF ReplyInv
      <4> QED BY <1>1, <3>2, <4>1, <4>2 DEF Awaited
    <3> QED BY <3>1, <3>2
  <2>3. ASSUME NEW g \in Flows, NEW i \in DOMAIN mailbox', NEW j \in DOMAIN mailbox',
               IsFor(mailbox'[i], g), IsFor(mailbox'[j], g)
        PROVE  i = j
    <3>1. CASE g = f
      BY <2>2, <2>3, <3>1
    <3>2. CASE g # f
      <4>1. i # n /\ j # n
        BY <2>2, <2>3, <3>2
      <4>2. i \in DOMAIN mailbox /\ mailbox'[i] = mailbox[i] /\ j \in DOMAIN mailbox /\ mailbox'[j] = mailbox[j]
        BY <2>1, <4>1
      <4> QED BY <2>3, <4>2 DEF ReplyInv
    <3> QED BY <3>1, <3>2
  <2> QED BY <2>2, <2>3 DEF ReplyInv, Awaited, IsFor
<1> QED
  BY <1>3, <1>4, ReplyPosted DEF Inv

LEMMA CallCommit ==
  ASSUME Inv, Inv', CallInv, CommitInv, NEW f \in Flows, CallStep(f)
  PROVE  CommitInv'
<1>1. /\ generation' = generation /\ flow[f].pc # "idle"
      /\ \A g \in Flows \ {f} : flow'[g] = flow[g]
      /\ flow'[f].pc # "idle" => flow'[f].gen = flow[f].gen /\ flow'[f].key = flow[f].key
      /\ flow'[f].pc = "idle" => flow'[f] = IdleFlow
      /\ flow'[f].pc \in {"marked", "waiting", "failing"} => Drives(f)
      /\ flow'[f].pc \in {"marked", "waiting"} => status'[flow[f].key] = "sending"
      /\ flow'[f].pc = "failing" => status'[flow[f].key] \in {"sending", "sent"}
  BY DEF CallStep, CallMoves, sessionVars
<1>2. /\ IdleFlow.gen = 0 /\ generation \in Nat
      /\ \A g \in Flows : flow[g].gen \in Nat /\ flow[g].gen <= generation
  BY DEF IdleFlow, Inv, SessionInv, FlowInv, FlowRecords, CallInv
<1>3. ASSUME NEW g \in Flows, g # f, Committed(g) PROVE status'[flow[g].key] = status[flow[g].key]
  <2>1. CASE UNCHANGED status
    BY <2>1
  <2>2. ASSUME Drives(f), NEW s \in Statuses, status' = [status EXCEPT ![flow[f].key] = s]
        PROVE  status'[flow[g].key] = status[flow[g].key]
    <3>1. flow[f].key # flow[g].key
      BY <1>3, <2>2, OneDriver
    <3>2. flow[g].key \in Keys
      BY <1>3 DEF Committed, Inv, FlowInv
    <3> QED BY <2>2, <3>1, <3>2 DEF Inv, CatalogInv, StatusMap
  <2> QED BY <2>1, <2>2 DEF CallStep, CallCommits
<1>4. ASSUME NEW g \in Flows
      PROVE  /\ flow'[g].pc \in {"marked", "waiting"} => status'[flow'[g].key] = "sending"
             /\ flow'[g].pc = "failing" => status'[flow'[g].key] \in {"sending", "sent"}
  <2>1. CASE g = f
    BY <1>1, <2>1
  <2>2. CASE g # f
    <3>1. flow'[g] = flow[g]
      BY <1>1, <2>2
    <3>2. Committed(g) => status'[flow[g].key] = status[flow[g].key]
      BY <1>3, <2>2
    <3> QED BY <3>1, <3>2 DEF CommitInv, Committed
  <2> QED BY <2>1, <2>2
<1>5. ASSUME NEW g \in Flows, NEW h \in Flows,
             flow'[g].pc \in {"marked", "waiting", "failing"}, flow'[h].key = flow'[g].key
      PROVE  flow'[h].gen <= flow'[g].gen
  <2>1. flow'[g].gen = flow[g].gen /\ flow'[g].key = flow[g].key /\ flow'[g].pc # "idle"
    BY <1>1, <1>5
  <2>2. Committed(g) \/ Current(g)
    BY <1>1, <1>5 DEF Committed, Drives
  <2>3. CASE h = f /\ flow'[f].pc = "idle"
    BY <1>1, <1>2, <2>1, <2>3
  <2>4. CASE flow'[h].gen = flow[h].gen /\ flow'[h].key = flow[h].key
    BY <1>2, <1>5, <2>1, <2>2, <2>4 DEF CommitInv, Current
  <2> QED BY <1>1, <2>3, <2>4
<1> QED
  BY <1>4, <1>5 DEF CommitInv, Committed

(* A detail that is read now shows every delivery a call is committed to. *)
LEMMA SnapshotFresh ==
  ASSUME Inv, CallInv, CommitInv, NEW f \in Flows, Committed(f)
  PROVE  Fresh(flow[f].key, Snapshot.drafts, Snapshot.deliveries)
<1>1. Snapshot.drafts = version /\ Snapshot.deliveries = status
  BY DEF Snapshot
<1>2. PICK k \in Keys : k = flow[f].key
  BY DEF Committed, Inv, FlowInv
<1>3. PICK d \in Drafts, v \in Versions : k = <<d, v>>
  BY DEF Keys
<1>4. version[d] \in Int /\ v \in Int /\ v <= version[d]
  <2>1. version[d] \in Int /\ v \in Int
    BY BoundAssumption DEF Inv, CatalogInv, DraftMap, Versions
  <2>2. k[2] <= version[k[1]]
    BY <1>2 DEF CallInv
  <2> QED BY <1>3, <2>1, <2>2
<1>5. status[k] \in {"sending", "sent"}
  BY <1>2 DEF Committed, CommitInv
<1> QED
  BY <1>1, <1>2, <1>3, <1>4, <1>5 DEF Fresh

(* What the window knows, and every reply under way, keeps the deliveries of  *)
(* committed calls fresh.                                                     *)
LEMMA FreshStep ==
  ASSUME NEW k \in Keys, FreshFor(k), UNCHANGED <<viewDraft, viewStatus, loading, generation>>,
         \A reply \in Mail' : reply \in Mail \/ FreshReply(k, reply)
  PROVE  FreshFor(k)'
  BY DEF FreshFor, Fresh, FreshReply

LEMMA CallFresh ==
  ASSUME Inv, Inv', CallInv, CommitInv, FreshInv, NEW f \in Flows, CallStep(f)
  PROVE  FreshInv'
<1>1. /\ generation' = generation
      /\ UNCHANGED <<viewDraft, viewStatus, loading, generation>>
      /\ \A g \in Flows \ {f} : flow'[g] = flow[g]
      /\ flow'[f].pc # "idle" => flow'[f].gen = flow[f].gen /\ flow'[f].key = flow[f].key
      /\ flow'[f].pc \in {"marked", "waiting", "failing"} => Drives(f)
  BY DEF CallStep, CallMoves, sessionVars, viewVars
<1>2. SUFFICES ASSUME NEW g \in Flows, NEW k \in Keys, flow'[g].pc \in {"marked", "waiting", "failing"},
                      flow'[g].gen # generation', flow'[g].key = k
               PROVE  FreshFor(k)'
  BY DEF FreshInv, Committed, Current
<1>3. Committed(g) /\ ~Current(g) /\ flow[g].key = k
  BY <1>1, <1>2 DEF Committed, Current, Drives
<1>4. FreshFor(k)
  BY <1>3 DEF FreshInv
<1>5. ASSUME NEW reply \in Mail', reply \notin Mail PROVE FreshReply(k, reply)
  <2>1. PICK new \in Replies : Post(new) /\ new.kind # "draft" /\ (new.kind = "detail" => new.detail = Snapshot)
    BY <1>5, ReplyPosted, MailKept DEF Inv
  <2>2. reply = new
    BY <1>5, <2>1, MailPosted DEF Inv
  <2> QED BY <1>3, <2>1, <2>2, SnapshotFresh DEF FreshReply
<1> QED
  BY <1>1, <1>4, <1>5, FreshStep

(* A delivery that the call of this session has prepared is its own. *)
LEMMA PendingKept ==
  ASSUME Inv, CallInv, CommitInv, MessageInv, NEW f \in Flows, CallStep(f), NEW g \in Flows, g # f,
         Current(g), flow[g].pc = "prepared", flow[g].seen = "pending"
  PROVE  status'[flow[g].key] = "pending"
<1>1. status[flow[g].key] = "pending" /\ flow[g].key \in Keys
  BY DEF MessageInv, Inv, FlowInv
<1>2. ASSUME Drives(f), flow[f].key = flow[g].key PROVE FALSE
  <2>1. /\ flow[f].gen \in Nat /\ flow[g].gen \in Nat /\ generation \in Nat
        /\ flow[f].gen <= generation
    BY DEF Inv, FlowInv, FlowRecords, SessionInv, CallInv
  <2>2. Committed(f) => flow[g].gen <= flow[f].gen
    BY <1>2 DEF CommitInv
  <2>3. flow[f].gen = flow[g].gen
    BY <1>2, <2>1, <2>2 DEF Drives, Current
  <2> QED BY <1>2, <2>3 DEF CallInv, Drives, Committed
<1> QED
  BY <1>1, <1>2 DEF CallStep, CallCommits, Inv, CatalogInv, StatusMap

(* A step of a call that hands nothing to the provider. *)
LEMMA CallMessage ==
  ASSUME Inv, CallInv, CommitInv, MessageInv, NEW f \in Flows, CallStep(f),
         keyOf' = keyOf, undecided' = undecided, channel' = channel, missed \subseteq missed',
         flow'[f].pc = "marked" /\ flow[f].key \notin missed' => \A r \in Handed : keyOf[r] # flow[f].key
  PROVE  MessageInv'
<1>1. Handed' = Handed
  BY DEF Handed, Posted
<1>2. /\ generation' = generation
      /\ \A g \in Flows \ {f} : flow'[g] = flow[g]
      /\ flow'[f].pc # "idle" => flow'[f].key = flow[f].key /\ flow'[f].pc # "prepared"
  BY DEF CallStep, CallMoves, sessionVars
<1>3. \A k \in Keys \ missed' : \A q, r \in Handed' : keyOf'[q] = k /\ keyOf'[r] = k => q = r
  BY <1>1 DEF MessageInv
<1>4. ASSUME NEW g \in Flows, flow'[g].gen = generation'
      PROVE  /\ flow'[g].pc = "prepared" /\ flow'[g].seen = "pending" => status'[flow'[g].key] = "pending"
             /\ flow'[g].pc = "marked" /\ flow'[g].key \notin missed' =>
                   \A r \in Handed' : keyOf'[r] # flow'[g].key
  <2>1. CASE g = f
    BY <1>1, <1>2, <2>1
  <2>2. CASE g # f
    <3>1. flow'[g] = flow[g] /\ Current(g)
      BY <1>2, <1>4, <2>2 DEF Current
    <3>2. flow[g].pc = "prepared" /\ flow[g].seen = "pending" => status'[flow[g].key] = "pending"
      BY <2>2, <3>1, PendingKept
    <3>3. flow[g].pc = "marked" /\ flow[g].key \notin missed => \A r \in Handed : keyOf[r] # flow[g].key
      BY <3>1 DEF MessageInv
    <3> QED BY <1>1, <3>1, <3>2, <3>3
  <2> QED BY <2>1, <2>2
<1> QED
  BY <1>3, <1>4 DEF MessageInv, Current

(* A message handed to the provider is the first of its delivery, unless a    *)
(* lookup has missed one.                                                     *)
LEMMA SendMessage ==
  ASSUME Inv, SendInv, NEW f \in Flows, CallStep(f), flow[f].pc = "marked", Current(f),
         NEW r \in Refs, keyOf[r] = NoKey,
         keyOf' = [keyOf EXCEPT ![r] = flow[f].key],
         undecided' = undecided \union {r}, channel' = channel, missed' = missed,
         flow'[f].pc = "waiting"
  PROVE  MessageInv'
<1> DEFINE k == flow[f].key
<1>1. k \in Keys /\ Handed' = Handed \union {r} /\ Handed \subseteq Refs
  <2>1. k \in Keys
    BY DEF Inv, FlowInv
  <2>2. Posted' = Posted
    BY DEF Posted
  <2>3. Handed' = Handed \union {r}
    BY <2>2 DEF Handed
  <2>4. Handed \subseteq Refs
    BY PostedAreRefs DEF Handed, Inv, ChannelInv
  <2> QED BY <2>1, <2>3, <2>4
<1>2. keyOf'[r] = k /\ \A q \in Refs : q # r => keyOf'[q] = keyOf[q]
  BY DEF Inv, ChannelInv
<1>3. k \notin missed => \A q \in Handed : keyOf[q] # k
  BY DEF SendInv, MessageInv
<1>4. /\ generation' = generation
      /\ \A g \in Flows \ {f} : flow'[g] = flow[g]
  BY DEF CallStep, CallMoves, sessionVars
<1>5. ASSUME NEW j \in Keys \ missed', NEW p \in Handed', NEW q \in Handed', keyOf'[p] = j, keyOf'[q] = j
      PROVE  p = q
  <2>1. CASE j = k
    <3>1. p = r
      BY <1>1, <1>2, <1>3, <1>5, <2>1
    <3>2. q = r
      BY <1>1, <1>2, <1>3, <1>5, <2>1
    <3> QED BY <3>1, <3>2
  <2>2. CASE j # k
    <3>1. p # r /\ q # r /\ p \in Handed /\ q \in Handed /\ keyOf[p] = j /\ keyOf[q] = j
      BY <1>1, <1>2, <1>5, <2>2
    <3> QED BY <3>1 DEF SendInv, MessageInv
  <2> QED BY <2>1, <2>2
<1>6. ASSUME NEW g \in Flows, flow'[g].gen = generation'
      PROVE  /\ flow'[g].pc = "prepared" /\ flow'[g].seen = "pending" => status'[flow'[g].key] = "pending"
             /\ flow'[g].pc = "marked" /\ flow'[g].key \notin missed' =>
                   \A q \in Handed' : keyOf'[q] # flow'[g].key
  <2>1. CASE g = f
    BY <2>1
  <2>2. CASE g # f
    <3>1. flow'[g] = flow[g] /\ Current(g)
      BY <1>4, <1>6, <2>2 DEF Current
    <3>2. flow[g].pc = "prepared" /\ flow[g].seen = "pending" => status'[flow[g].key] = "pending"
      BY <2>2, <3>1, PendingKept DEF SendInv
    <3>3. flow[g].pc # "marked"
      BY <2>2, <3>1 DEF SendInv, CallInv, Current
    <3> QED BY <3>1, <3>2, <3>3
  <2> QED BY <2>1, <2>2
<1> QED
  BY <1>5, <1>6 DEF MessageInv, Current

LEMMA HandedAreRefs == ChannelInv => Handed \subseteq Refs
  BY PostedAreRefs DEF Handed, ChannelInv

LEMMA PreparedMessage ==
  ASSUME Inv, SendInv, NEW f \in Flows, Prepared(f)
  PROVE  MessageInv'
<1>1. CallStep(f) /\ flow[f].pc = "prepared"
  BY PreparedMoves DEF SendInv, Prepared
<1>2. keyOf' = keyOf /\ undecided' = undecided /\ channel' = channel /\ missed' = missed
  BY DEF Prepared, providerVars
<1>3. ASSUME flow'[f].pc = "marked" PROVE \A r \in Handed : keyOf[r] # flow[f].key
  <2>1. flow[f].seen = "pending" /\ Usable(f)
    <3>1. ~Return(f, "sent") /\ ~Goto(f, "threw") /\ ~Goto(f, "looking")
      BY <1>3, GotoMoves DEF Return, Pcs, Inv
    <3> QED BY <3>1 DEF Prepared
  <2>2. status[flow[f].key] = "pending"
    BY <1>1, <2>1 DEF SendInv, MessageInv, Usable, Current
  <2> QED
    BY <1>1, <2>2, HandedAreRefs, NoKeyIsNoKey DEF Inv, ChannelInv, FlowInv, MessagesAreOnRecord
<1> QED
  BY <1>1, <1>2, <1>3, CallMessage DEF SendInv

LEMMA LookupMissesMessage ==
  ASSUME Inv, SendInv, NEW f \in Flows, LookupMisses(f)
  PROVE  MessageInv'
<1>1. CallStep(f) /\ flow[f].key \in Keys
  BY LookupMoves DEF SendInv, LookupMisses, Inv, FlowInv
<1>2. keyOf' = keyOf /\ undecided' = undecided /\ channel' = channel
      /\ missed' = IF MessagesOf(flow[f].key) = {} THEN missed ELSE missed \union {flow[f].key}
  BY DEF LookupMisses, providerVars
<1>3. flow[f].key \notin missed' => \A r \in Handed : keyOf[r] # flow[f].key
  BY <1>2 DEF MessagesOf, Handed
<1> QED
  BY <1>1, <1>2, <1>3, CallMessage DEF SendInv

LEMMA CompleteUnmarked ==
  ASSUME FlowInv, NEW f \in Flows, NEW r \in Refs, NEW refusal \in {"threw", "failing"}, Complete(f, r, refusal)
  PROVE  flow'[f].pc # "marked"
  BY GotoMoves DEF Complete, Return, Pcs

LEMMA SendMessages ==
  ASSUME Inv, SendInv, NEW f \in Flows, Send(f)
  PROVE  MessageInv'
<1> DEFINE k == flow[f].key
<1>1. CallStep(f) /\ flow[f].pc = "marked" /\ channel' = channel /\ missed' = missed
  BY SendMoves DEF SendInv, Send
<1>2. CASE Goto(f, "failing") /\ UNCHANGED <<keyOf, textOf, undecided>>
  <2>1. flow'[f].pc # "marked"
    BY <1>2, GotoMoves DEF Pcs, Inv
  <2> QED BY <1>1, <1>2, <2>1, CallMessage DEF SendInv
<1>3. CASE sentByKey[k] # NoRef /\ Complete(f, sentByKey[k], "failing") /\ UNCHANGED <<keyOf, textOf, undecided>>
  <2>1. sentByKey[k] \in Refs
    BY <1>1, <1>3 DEF Inv, ChannelInv, MaybeRef, FlowInv
  <2>2. flow'[f].pc # "marked"
    BY <1>3, <2>1, CompleteUnmarked DEF Inv
  <2> QED BY <1>1, <1>3, <2>2, CallMessage DEF SendInv
<1>4. ASSUME Usable(f), NEW r \in Refs, keyOf[r] = NoKey, keyOf' = [keyOf EXCEPT ![r] = k],
             undecided' = undecided \union {r},
             flow' = [flow EXCEPT ![f].pc = "waiting", ![f].ref = r]
      PROVE  MessageInv'
  <2>1. flow'[f].pc = "waiting"
    BY <1>4 DEF Inv, FlowInv, FlowRecords
  <2>2. Current(f)
    BY <1>4 DEF Usable, Current
  <2> QED BY <1>1, <1>4, <2>1, <2>2, SendMessage
<1> QED
  BY <1>2, <1>3, <1>4 DEF Send

LEMMA OtherMessages ==
  ASSUME Inv, SendInv, NEW f \in Flows,
         LookupFails(f) \/ LookupFinds(f) \/ SendSucceeds(f) \/ SendFails(f) \/ FailDelivery(f) \/ Threw(f)
  PROVE  MessageInv'
<1>1. CallStep(f)
  BY LookupMoves, AnswerMoves, ThrewMoves DEF SendInv
<1>2. keyOf' = keyOf /\ undecided' = undecided /\ channel' = channel /\ missed' = missed
  BY DEF LookupFails, LookupFinds, SendSucceeds, SendFails, FailDelivery, Threw, providerVars
<1>3. flow'[f].pc # "marked"
  <2>1. CASE LookupFails(f) \/ SendFails(f) \/ FailDelivery(f)
    <3>1. Goto(f, "threw") \/ Goto(f, "failing")
      BY <2>1 DEF LookupFails, SendFails, FailDelivery
    <3> QED BY <3>1, GotoMoves DEF Pcs, Inv
  <2>2. CASE LookupFinds(f)
    <3> PICK page \in Pages : \E i \in DOMAIN page : Complete(f, page[i], "threw")
      BY <2>2 DEF LookupFinds
    <3>1. PICK i \in DOMAIN page : Complete(f, page[i], "threw")
      OBVIOUS
    <3>2. page[i] \in Refs
      BY PageIsPosted DEF Inv, ChannelInv
    <3> QED BY <3>1, <3>2, CompleteUnmarked DEF Inv
  <2>3. CASE SendSucceeds(f)
    <3>1. flow[f].ref \in Refs /\ Complete(f, flow[f].ref, "failing")
      BY <2>3 DEF SendSucceeds, Inv, FlowInv
    <3> QED BY <3>1, CompleteUnmarked DEF Inv
  <2>4. CASE Threw(f)
    <3>1. Goto(f, "returning") \/ flow' = [flow EXCEPT ![f] = IdleFlow]
      BY <2>4 DEF Threw
    <3> QED BY <3>1, GotoMoves, EndMoves DEF Pcs, Inv
  <2> QED BY <2>1, <2>2, <2>3, <2>4
<1> QED
  BY <1>1, <1>2, <1>3, CallMessage DEF SendInv

LEMMA DeliverKeepsSendInv ==
  ASSUME Inv, Inv', SendInv, NEW f \in Flows, DeliverDraft(f)
  PROVE  SendInv'
<1>1. CallStep(f)
  BY DeliverMoves DEF SendInv
<1>2. MessageInv'
  BY PreparedMessage, LookupMissesMessage, SendMessages, OtherMessages DEF DeliverDraft
<1> QED
  BY <1>1, <1>2, CallAge, CallCalls, CallReply, CallCommit, CallFresh DEF SendInv

-----------------------------------------------------------------------------
(* Steps that leave the calls alone. *)

LEMMA CallKept ==
  ASSUME Inv, CallInv, Grows, UNCHANGED <<flow, generation, sending>>
  PROVE  CallInv'
<1>1. ASSUME NEW f \in Flows, flow[f].key \in Keys
      PROVE  flow[f].key[2] <= version'[flow[f].key[1]]
  <2>1. PICK k \in Keys : k = flow[f].key
    BY <1>1
  <2>2. PICK d \in Drafts, v \in Versions : k = <<d, v>>
    BY DEF Keys
  <2>3. v \in Int /\ version[d] \in Int /\ version'[d] \in Int
    BY BoundAssumption DEF Versions, Grows, Inv, CatalogInv, DraftMap
  <2>4. v <= version[d] /\ version[d] <= version'[d]
    <3>1. k[2] <= version[k[1]]
      BY <2>1 DEF CallInv
    <3> QED BY <2>2, <3>1 DEF Grows
  <2>5. v <= version'[d]
    BY <2>3, <2>4
  <2> QED BY <2>1, <2>2, <2>5
<1> QED
  BY <1>1 DEF CallInv, Current

LEMMA CommitKept == ASSUME CommitInv, UNCHANGED <<flow, status>> PROVE CommitInv'
  BY DEF CommitInv, Committed

LEMMA MessageKept ==
  ASSUME MessageInv, UNCHANGED <<flow, generation, status, keyOf, missed>>, Handed' \subseteq Handed
  PROVE  MessageInv'
  BY DEF MessageInv, Current

LEMMA HandedKept == UNCHANGED providerVars => Handed' = Handed /\ keyOf' = keyOf
  BY DEF providerVars, Handed, Posted

LEMMA ReplyKept ==
  ASSUME Inv, ReplyInv, UNCHANGED flow,
         \/ UNCHANGED mailbox
         \/ \E reply \in Replies : Post(reply) /\ \A g \in Flows : ~IsFor(reply, g)
  PROVE  ReplyInv'
<1>1. CASE UNCHANGED mailbox
  BY <1>1 DEF ReplyInv, Awaited
<1>2. ASSUME NEW reply \in Replies, Post(reply), \A g \in Flows : ~IsFor(reply, g)
      PROVE  ReplyInv'
  <2>1. /\ DOMAIN mailbox = 1..Len(mailbox) /\ Len(mailbox) \in Nat
        /\ DOMAIN mailbox' = 1..(Len(mailbox) + 1)
        /\ mailbox'[Len(mailbox) + 1] = reply
        /\ \A i \in 1..Len(mailbox) : mailbox'[i] = mailbox[i]
    BY <1>2, MailPosted DEF Inv
  <2>2. ASSUME NEW g \in Flows, NEW i \in DOMAIN mailbox', IsFor(mailbox'[i], g)
        PROVE  i \in DOMAIN mailbox /\ mailbox'[i] = mailbox[i] /\ IsFor(mailbox[i], g)
    <3>1. i # Len(mailbox) + 1
      BY <1>2, <2>1, <2>2
    <3> QED BY <2>1, <2>2, <3>1
  <2>3. ASSUME NEW g \in Flows, NEW i \in DOMAIN mailbox', IsFor(mailbox'[i], g)
        PROVE  /\ flow'[g].pc = "returning" /\ mailbox'[i].gen = flow'[g].gen
               /\ mailbox'[i].kind = "delivery" => mailbox'[i].key = flow'[g].key
    <3>1. Awaited(mailbox[i], g) /\ mailbox'[i] = mailbox[i]
      BY <2>2, <2>3 DEF ReplyInv
    <3> QED BY <3>1 DEF Awaited
  <2>4. ASSUME NEW g \in Flows, NEW i \in DOMAIN mailbox', NEW j \in DOMAIN mailbox',
               IsFor(mailbox'[i], g), IsFor(mailbox'[j], g)
        PROVE  i = j
    BY <2>2, <2>4 DEF ReplyInv
  <2> QED BY <2>3, <2>4 DEF ReplyInv, Awaited, IsFor
<1> QED
  BY <1>1, <1>2

(* A step that may disturb what the window knows, for every delivery that a  *)
(* call of an earlier session is committed to.                               *)
LEMMA FreshKept ==
  ASSUME Inv, FreshInv, UNCHANGED <<flow, generation>>,
         \A f \in Flows, k \in Keys :
             Committed(f) /\ ~Current(f) /\ flow[f].key = k /\ FreshFor(k) => FreshFor(k)'
  PROVE  FreshInv'
<1>1. ASSUME NEW f \in Flows, NEW k \in Keys, flow'[f].pc \in {"marked", "waiting", "failing"},
             flow'[f].gen # generation', flow'[f].key = k
      PROVE  FreshFor(k)'
  <2>1. Committed(f) /\ ~Current(f) /\ flow[f].key = k
    BY <1>1 DEF Committed, Current
  <2>2. FreshFor(k)
    BY <2>1 DEF FreshInv
  <2> QED BY <2>1, <2>2
<1> QED
  BY <1>1 DEF FreshInv, Committed, Current

(* A step that posts one reply and changes nothing else of the renderer. *)
LEMMA PostKeeps ==
  ASSUME Inv, Inv', SendInv, Grows, NEW reply \in Replies, Post(reply),
         UNCHANGED <<flow, generation, sending, status, keyOf, missed, viewDraft, viewStatus, loading>>,
         Handed' = Handed, \A g \in Flows : ~IsFor(reply, g),
         AgeReply(reply)',
         \A f \in Flows, k \in Keys : Committed(f) /\ flow[f].key = k => FreshReply(k, reply)
  PROVE  SendInv'
<1>1. Mail' = Mail \union {reply}
  BY MailPosted DEF Inv
<1>2. generation' \in Nat /\ generation <= generation' /\ loading' = loading
  BY DEF Inv, SessionInv
<1>3. \A detail \in loading' : detail \in loading \/ NotAhead(detail.drafts)'
  BY <1>2
<1>4. \A new \in Mail' : new \in Mail \/ AgeReply(new)'
  BY <1>1
<1>5. AgeInv'
  BY <1>2, <1>3, <1>4, AgeStep DEF SendInv
<1>6. ASSUME NEW f \in Flows, NEW k \in Keys, Committed(f), flow[f].key = k, FreshFor(k)
      PROVE  FreshFor(k)'
  BY <1>1, <1>6, FreshStep
<1>7. FreshInv'
  BY <1>6, FreshKept DEF SendInv
<1> QED
  BY <1>5, <1>7, CallKept, CommitKept, MessageKept, ReplyKept DEF SendInv

(* createDraft and updateDraft post a version that no delivery has yet. *)
LEMMA DraftPosted ==
  ASSUME Inv, Inv', SendInv, NEW d \in Drafts, version[d] + 1 \in Versions,
         version' = [version EXCEPT ![d] = version[d] + 1],
         Post([kind |-> "draft", gen |-> generation, draft |-> d, version |-> version[d] + 1]),
         UNCHANGED <<flow, generation, sending, status, missed, viewVars, providerVars>>
  PROVE  SendInv'
<1>1. version \in DraftMap /\ version[d] \in Int /\ generation \in Nat /\ version' \in DraftMap
  BY BoundAssumption DEF Inv, CatalogInv, DraftMap, SessionInv
<1>2. Grows
  <2>1. \A e \in Drafts : version[e] \in Int
    BY <1>1, BoundAssumption DEF DraftMap
  <2> QED BY <1>1, <2>1 DEF Grows, DraftMap
<1> PICK n : n = version[d] + 1
  OBVIOUS
<1>3. PICK reply \in Replies : reply = [kind |-> "draft", gen |-> generation, draft |-> d, version |-> n]
  BY <1>1 DEF Replies
<1>4. Post(reply) /\ \A g \in Flows : ~IsFor(reply, g)
  BY <1>3 DEF IsFor
<1>5. AgeReply(reply)'
  <2>1. version'[d] = n
    BY <1>1 DEF DraftMap
  <2>2. reply.kind = "draft" /\ reply.gen = generation /\ reply.draft = d /\ reply.version = n
    BY <1>3
  <2>3. reply.gen <= generation'
    BY <1>1, <2>2
  <2>4. reply.version <= version'[reply.draft]
    BY <1>1, <2>1, <2>2
  <2> QED BY <2>2, <2>3, <2>4 DEF AgeReply
<1>6. ASSUME NEW f \in Flows, NEW k \in Keys, flow[f].key = k
      PROVE  FreshReply(k, reply)
  <2>1. PICK e \in Drafts, v \in Versions : k = <<e, v>>
    BY DEF Keys
  <2>2. v \in Int /\ k[1] = e /\ k[2] = v
    BY <2>1 DEF Versions
  <2>3. v <= version[e]
    BY <1>6, <2>2 DEF SendInv, CallInv
  <2>4. e = d => n > v
    BY <1>1, <2>2, <2>3
  <2> QED BY <1>3, <2>2, <2>4 DEF FreshReply
<1>7. UNCHANGED <<keyOf, viewDraft, viewStatus, loading>> /\ Handed' = Handed
  BY HandedKept DEF viewVars, providerVars
<1> QED
  BY <1>2, <1>4, <1>5, <1>6, <1>7, PostKeeps

LEMMA CreateKeeps ==
  ASSUME Inv, Inv', SendInv, NEW d \in Drafts, CreateDraft(d)
  PROVE  SendInv'
<1>1. version[d] = 0 /\ 0 + 1 \in Versions
  BY BoundAssumption DEF CreateDraft, Versions
<1>2. version[d] + 1 = 1
  BY <1>1
<1>3. /\ version' = [version EXCEPT ![d] = version[d] + 1]
      /\ Post([kind |-> "draft", gen |-> generation, draft |-> d, version |-> version[d] + 1])
  BY <1>2, Zenon DEF CreateDraft
<1>4. UNCHANGED <<flow, generation, sending, status, missed, viewVars, providerVars>>
  BY DEF CreateDraft, sessionVars
<1>5. version[d] + 1 \in Versions
  BY <1>1
<1> QED
  BY <1>3, <1>4, <1>5, DraftPosted

LEMMA SaveKeeps ==
  ASSUME Inv, Inv', SendInv, NEW d \in Drafts, SaveDraft(d)
  PROVE  SendInv'
<1>1. version[d] + 1 \in Versions
  BY BoundAssumption DEF SaveDraft, Versions
<1>2. version' = [version EXCEPT ![d] = version[d] + 1]
  BY DEF SaveDraft
<1> QED
  BY <1>1, <1>2, DraftPosted DEF SaveDraft, sessionVars

LEMMA RefreshKeeps ==
  ASSUME Inv, Inv', SendInv, RefreshCollaboration
  PROVE  SendInv'
<1>1. /\ UNCHANGED <<flow, generation, sending, status, missed, version, viewVars, providerVars>>
      /\ generation \in Nat /\ Snapshot \in Details
  BY SnapshotNow DEF RefreshCollaboration, sessionVars, catalogVars, Inv, SessionInv
<1>2. Grows
  BY <1>1, GrowsIfKept DEF Inv
<1>3. PICK reply \in Replies : reply = [kind |-> "detail", flow |-> NoFlow, gen |-> generation, detail |-> Snapshot]
  BY <1>1 DEF Replies
<1>4. Post(reply) /\ \A g \in Flows : ~IsFor(reply, g)
  BY <1>3, NoneAssumption DEF RefreshCollaboration, IsFor
<1>5. AgeReply(reply)'
  <2>1. PICK detail \in Details : detail = reply.detail
    BY <1>1, <1>3
  <2>2. NotAhead(detail.drafts)'
    BY <1>1, <1>3, <2>1, SnapshotNow DEF Inv
  <2>3. reply.kind = "detail" /\ reply.gen = generation
    BY <1>3
  <2>4. reply.gen <= generation'
    BY <1>1, <2>3
  <2> QED BY <2>1, <2>2, <2>3, <2>4 DEF AgeReply
<1>6. ASSUME NEW f \in Flows, NEW k \in Keys, Committed(f), flow[f].key = k
      PROVE  FreshReply(k, reply)
  BY <1>3, <1>6, SnapshotFresh DEF FreshReply, SendInv
<1>7. UNCHANGED <<keyOf, viewDraft, viewStatus, loading>> /\ Handed' = Handed
  BY <1>1, HandedKept DEF viewVars, providerVars
<1> QED
  BY <1>1, <1>2, <1>4, <1>5, <1>6, <1>7, PostKeeps

(* A step that changes the window only. *)
LEMMA WindowKeeps ==
  ASSUME Inv, Inv', SendInv, UNCHANGED <<flow, generation, sending, status, version, missed, keyOf, mailbox>>,
         Handed' \subseteq Handed,
         viewDraft' = viewDraft \/ NotAhead(viewDraft)',
         \A detail \in loading' : detail \in loading \/ NotAhead(detail.drafts)',
         \A f \in Flows, k \in Keys :
             Committed(f) /\ ~Current(f) /\ flow[f].key = k /\ FreshFor(k) => FreshFor(k)'
  PROVE  SendInv'
<1>1. Grows /\ Mail' = Mail /\ generation' \in Nat /\ generation <= generation'
  BY GrowsIfKept, MailKept DEF Inv, SessionInv
<1>2. \A reply \in Mail' : reply \in Mail \/ AgeReply(reply)'
  BY <1>1
<1>3. AgeInv'
  BY <1>1, <1>2, AgeStep DEF SendInv
<1>4. FreshInv'
  BY FreshKept DEF SendInv
<1> QED
  BY <1>1, <1>3, <1>4, CallKept, CommitKept, MessageKept, ReplyKept DEF SendInv

LEMMA FreshUnchanged ==
  ASSUME NEW k \in Keys, FreshFor(k), UNCHANGED <<viewDraft, viewStatus, loading, generation, mailbox>>
  PROVE  FreshFor(k)'
<1>1. Mail' = Mail
  BY DEF Mail
<1> QED BY <1>1, FreshStep

LEMMA EmptyNotAhead == ASSUME CatalogInv' PROVE viewDraft' = EmptyDrafts => NotAhead(viewDraft)'
<1>1. \A d \in Drafts : version'[d] \in Nat
  BY BoundAssumption DEF CatalogInv, DraftMap
<1> QED BY <1>1 DEF NotAhead, EmptyDrafts

LEMMA SelectKeeps ==
  ASSUME Inv, Inv', SendInv, SelectConversation
  PROVE  SendInv'
<1>1. /\ UNCHANGED <<flow, generation, sending, status, version, missed, mailbox, providerVars>>
      /\ loading' = {Snapshot} /\ viewDraft' = EmptyDrafts
  BY DEF SelectConversation, sessionVars, catalogVars
<1>2. NotAhead(viewDraft)'
  BY <1>1, EmptyNotAhead DEF Inv
<1>3. ASSUME NEW detail \in loading' PROVE NotAhead(detail.drafts)'
  <2>1. detail \in Details /\ detail = Snapshot
    BY <1>1, <1>3, SnapshotNow DEF Inv
  <2> QED BY <1>1, <2>1, SnapshotNow DEF Inv
<1>4. ASSUME NEW f \in Flows, NEW k \in Keys, Committed(f), flow[f].key = k, FreshFor(k)
      PROVE  FreshFor(k)'
  <2>1. viewDraft'[k[1]] = 0
    BY <1>1 DEF Keys, EmptyDrafts
  <2>2. ASSUME NEW detail \in loading' PROVE Fresh(k, detail.drafts, detail.deliveries)
    BY <1>1, <1>4, <2>2, SnapshotFresh DEF SendInv
  <2>3. Mail' = Mail /\ generation' = generation
    BY <1>1 DEF Mail
  <2> QED BY <1>4, <2>1, <2>2, <2>3 DEF FreshFor, Fresh, FreshReply
<1>5. keyOf' = keyOf /\ Handed' = Handed
  BY <1>1, HandedKept
<1> QED
  BY <1>1, <1>2, <1>3, <1>4, <1>5, WindowKeeps

LEMMA ApplyKeeps ==
  ASSUME Inv, Inv', SendInv, ApplyDetail
  PROVE  SendInv'
<1>1. PICK detail \in loading : loading' = {} /\ viewDraft' = detail.drafts /\ viewStatus' = detail.deliveries
  BY DEF ApplyDetail
<1>2. UNCHANGED <<flow, generation, sending, status, version, missed, mailbox, providerVars>>
  BY DEF ApplyDetail, sessionVars, catalogVars
<1>3. NotAhead(viewDraft)'
  BY <1>1, <1>2 DEF SendInv, AgeInv, NotAhead
<1>4. ASSUME NEW f \in Flows, NEW k \in Keys, FreshFor(k)
      PROVE  FreshFor(k)'
  <2>1. Fresh(k, detail.drafts, detail.deliveries)
    BY <1>4 DEF FreshFor
  <2>2. Mail' = Mail /\ generation' = generation
    BY <1>2 DEF Mail
  <2> QED BY <1>1, <1>4, <2>1, <2>2 DEF FreshFor, Fresh, FreshReply
<1>5. keyOf' = keyOf /\ Handed' = Handed
  BY <1>2, HandedKept
<1> QED
  BY <1>1, <1>2, <1>3, <1>4, <1>5, WindowKeeps

LEMMA EditKeeps ==
  ASSUME Inv, Inv', SendInv, NEW d \in Drafts, EditDraft(d) \/ UndoEdit(d)
  PROVE  SendInv'
<1>1. UNCHANGED <<flow, generation, sending, status, version, missed, mailbox, providerVars, viewDraft, viewStatus, loading>>
  BY DEF EditDraft, UndoEdit, sessionVars, catalogVars
<1>2. keyOf' = keyOf /\ Handed' = Handed
  BY <1>1, HandedKept
<1> QED
  BY <1>1, <1>2, FreshUnchanged, WindowKeeps

LEMMA CloseKeeps ==
  ASSUME Inv, Inv', SendInv, CloseDialog
  PROVE  SendInv'
<1>1. UNCHANGED <<flow, generation, sending, status, version, missed, mailbox, providerVars, viewDraft, viewStatus, loading>>
  BY DEF CloseDialog, sessionVars, catalogVars
<1>2. keyOf' = keyOf /\ Handed' = Handed
  BY <1>1, HandedKept
<1> QED
  BY <1>1, <1>2, FreshUnchanged, WindowKeeps

-----------------------------------------------------------------------------
(* A confirmation begins a call. *)

(* The window offers no confirmation of a delivery that a call is committed   *)
(* to: a call of this session keeps the button disabled, and of an earlier    *)
(* one the window knows that the delivery is being sent.                      *)
LEMMA NotOffered ==
  ASSUME Inv, SendInv, NEW f \in Flows, NEW d \in Drafts, ConfirmDelivery(f, d), version[d] # 0,
         NEW g \in Flows, Committed(g)
  PROVE  flow[g].key # <<d, version[d]>>
<1> SUFFICES ASSUME flow[g].key = <<d, version[d]>> PROVE FALSE
  OBVIOUS
<1>1. /\ ~sending /\ viewDraft[d] # 0
      /\ viewStatus[<<d, viewDraft[d]>>] \notin {"sending", "sent"}
  BY DEF ConfirmDelivery
<1>2. ~Current(g)
  BY <1>1 DEF SendInv, CallInv, Committed
<1>3. PICK k \in Keys : k = <<d, version[d]>>
  BY DEF Committed, Inv, FlowInv
<1>4. FreshFor(k)
  BY <1>2, <1>3 DEF SendInv, FreshInv
<1>5. k[1] = d /\ k[2] = version[d]
  BY <1>3
<1>6. Fresh(k, viewDraft, viewStatus)
  BY <1>1, <1>4, <1>5 DEF FreshFor
<1>7. viewDraft[d] \in Int /\ version[d] \in Int
  BY BoundAssumption DEF Inv, CatalogInv, ViewInv, DraftMap
<1>8. viewDraft[d] = version[d]
  BY <1>5, <1>6, <1>7 DEF Fresh, SendInv, AgeInv, NotAhead
<1>9. viewStatus[k] \in {"sending", "sent"}
  BY <1>6 DEF Fresh
<1> QED
  BY <1>1, <1>3, <1>8, <1>9

LEMMA ConfirmBegins ==
  ASSUME Inv, NEW f \in Flows, NEW d \in Drafts, ConfirmDelivery(f, d)
  PROVE  /\ \A g \in Flows \ {f} : flow'[g] = flow[g]
         /\ flow'[f].gen = generation /\ sending' /\ ~sending /\ flow[f] = IdleFlow
         /\ \/ /\ version[d] # 0 /\ flow'[f].pc = "prepared" /\ flow'[f].key = <<d, version[d]>>
               /\ <<d, version[d]>> \in Keys
               /\ flow'[f].seen = status'[<<d, version[d]>>]
               /\ \A k \in Keys : status[k] # "none" => status'[k] = status[k]
            \/ flow'[f].pc = "threw" /\ flow'[f].key = NoKey /\ UNCHANGED status
<1> DEFINE called == [IdleFlow EXCEPT !.gen = generation, !.text = viewDraft[d]]
           k == <<d, version[d]>>
           prepared == IF status[k] = "none" THEN "pending" ELSE status[k]
<1>1. flow \in [Flows -> FlowRecords] /\ sending' /\ ~sending /\ flow[f] = IdleFlow
  BY DEF Inv, FlowInv, ConfirmDelivery
<1>2. CASE /\ version[d] # 0
           /\ status' = [status EXCEPT ![k] = prepared]
           /\ flow' = [flow EXCEPT ![f] = [called EXCEPT !.pc = "prepared", !.key = k, !.seen = prepared]]
  <2>1. /\ \A g \in Flows \ {f} : flow'[g] = flow[g]
        /\ flow'[f].gen = generation /\ flow'[f].pc = "prepared"
        /\ flow'[f].key = k /\ flow'[f].seen = prepared
    BY <1>1, <1>2 DEF IdleFlow
  <2>2. k \in Keys
    <3>1. version[d] \in Versions
      BY <1>2, BoundAssumption DEF Inv, CatalogInv, DraftMap, Versions
    <3> QED BY <3>1, KeyParts
  <2>3. status'[k] = prepared /\ \A q \in Keys : status[q] # "none" => status'[q] = status[q]
    BY <1>2, <2>2 DEF Inv, CatalogInv, StatusMap
  <2> QED BY <1>1, <1>2, <2>1, <2>2, <2>3
<1>3. CASE flow' = [flow EXCEPT ![f] = [called EXCEPT !.pc = "threw"]] /\ UNCHANGED status
  BY <1>1, <1>3 DEF IdleFlow
<1> QED
  BY <1>2, <1>3 DEF ConfirmDelivery

LEMMA ConfirmKeeps ==
  ASSUME Inv, Inv', SendInv, NEW f \in Flows, NEW d \in Drafts, ConfirmDelivery(f, d)
  PROVE  SendInv'
<1>1. /\ \A g \in Flows \ {f} : flow'[g] = flow[g]
      /\ flow'[f].gen = generation /\ sending' /\ ~sending /\ flow[f] = IdleFlow
      /\ \/ /\ version[d] # 0 /\ flow'[f].pc = "prepared" /\ flow'[f].key = <<d, version[d]>>
            /\ flow'[f].seen = status'[<<d, version[d]>>]
         \/ flow'[f].pc = "threw" /\ flow'[f].key = NoKey
      /\ \A k \in Keys : status[k] # "none" => status'[k] = status[k]
  BY ConfirmBegins
<1>2. /\ UNCHANGED <<version, viewDraft, viewStatus, loading, generation, mailbox, missed, providerVars>>
      /\ generation \in Nat /\ \A g \in Flows : flow[g].gen \in Nat
  BY DEF ConfirmDelivery, viewVars, sessionVars, Inv, SessionInv, FlowInv, FlowRecords
<1>3. Mail' = Mail /\ Handed' = Handed /\ keyOf' = keyOf /\ Grows
  BY <1>2, MailKept, HandedKept, GrowsIfKept DEF Inv
<1>4. \A g \in Flows : Current(g) => flow[g].pc = "idle"
  BY <1>1 DEF SendInv, CallInv
<1>5. AgeInv'
  <2>1. \A reply \in Mail' : reply \in Mail
    BY <1>3
  <2>2. \A detail \in loading' : detail \in loading
    BY <1>2
  <2>3. generation' \in Nat /\ generation <= generation' /\ viewDraft' = viewDraft
    BY <1>2
  <2> QED BY <1>3, <2>1, <2>2, <2>3, AgeStep DEF SendInv
<1>6. CallInv'
  <2>1. ASSUME NEW g \in Flows
        PROVE  /\ flow'[g].pc = "idle" => flow'[g] = IdleFlow
               /\ flow'[g].gen <= generation'
               /\ flow'[g].key \in Keys => flow'[g].key[2] <= version'[flow'[g].key[1]]
    <3>1. CASE g = f
      <4>1. version[d] \in Int
        BY BoundAssumption DEF Inv, CatalogInv, DraftMap
      <4> QED BY <1>1, <1>2, <3>1, <4>1, NoKeyIsNoKey
    <3>2. CASE g # f
      BY <1>1, <1>2, <3>2 DEF SendInv, CallInv
    <3> QED BY <3>1, <3>2
  <2>2. ASSUME NEW g \in Flows, NEW h \in Flows,
               flow'[g].pc # "idle", flow'[h].pc # "idle", flow'[g].gen = flow'[h].gen
        PROVE  g = h
    <3>1. CASE g # f /\ h # f
      BY <1>1, <2>2, <3>1 DEF SendInv, CallInv
    <3>2. CASE g = f /\ h # f
      BY <1>1, <1>4, <2>2, <3>2 DEF Current
    <3>3. CASE g # f /\ h = f
      BY <1>1, <1>4, <2>2, <3>3 DEF Current
    <3> QED BY <3>1, <3>2, <3>3
  <2> QED BY <1>1, <2>1, <2>2 DEF CallInv
<1>7. ReplyInv'
  <2>1. \A i \in DOMAIN mailbox : ~IsFor(mailbox[i], f)
    BY <1>1 DEF SendInv, ReplyInv, Awaited, IdleFlow
  <2>2. ASSUME NEW g \in Flows, NEW i \in DOMAIN mailbox', IsFor(mailbox'[i], g)
        PROVE  /\ flow'[g].pc = "returning" /\ mailbox'[i].gen = flow'[g].gen
               /\ mailbox'[i].kind = "delivery" => mailbox'[i].key = flow'[g].key
    <3>1. mailbox' = mailbox
      BY <1>2
    <3>2. g # f /\ Awaited(mailbox[i], g)
      BY <2>1, <2>2, <3>1 DEF SendInv, ReplyInv
    <3> QED BY <1>1, <3>1, <3>2 DEF Awaited
  <2>3. mailbox' = mailbox
    BY <1>2
  <2> QED BY <2>2, <2>3 DEF SendInv, ReplyInv, Awaited, IsFor
<1>8. CommitInv'
  <2>1. ASSUME NEW g \in Flows, flow'[g].pc \in {"marked", "waiting", "failing"}
        PROVE  /\ g # f /\ flow'[g] = flow[g] /\ Committed(g)
               /\ status'[flow[g].key] = status[flow[g].key]
    <3>1. g # f /\ flow'[g] = flow[g] /\ Committed(g)
      BY <1>1, <2>1 DEF Committed
    <3>2. flow[g].key \in Keys /\ status[flow[g].key] # "none"
      BY <3>1 DEF Committed, SendInv, CommitInv, Inv, FlowInv
    <3> QED BY <1>1, <3>1, <3>2
  <2>2. ASSUME NEW g \in Flows
        PROVE  /\ flow'[g].pc \in {"marked", "waiting"} => status'[flow'[g].key] = "sending"
               /\ flow'[g].pc = "failing" => status'[flow'[g].key] \in {"sending", "sent"}
    BY <2>1 DEF SendInv, CommitInv
  <2>3. ASSUME NEW g \in Flows, NEW h \in Flows,
               flow'[g].pc \in {"marked", "waiting", "failing"}, flow'[h].key = flow'[g].key
        PROVE  flow'[h].gen <= flow'[g].gen
    <3>1. g # f /\ flow'[g] = flow[g] /\ Committed(g) /\ flow[g].key \in Keys
      BY <2>1, <2>3 DEF Committed, Inv, FlowInv
    <3>2. CASE h = f
      <4>1. version[d] # 0 /\ flow[g].key = <<d, version[d]>>
        BY <1>1, <2>3, <3>1, <3>2, NoKeyIsNoKey
      <4> QED BY <3>1, <4>1, NotOffered
    <3>3. CASE h # f
      BY <1>1, <2>3, <3>1, <3>3 DEF SendInv, CommitInv
    <3> QED BY <3>2, <3>3
  <2> QED BY <2>2, <2>3 DEF CommitInv, Committed
<1>9. FreshInv'
  <2>1. ASSUME NEW g \in Flows, NEW k \in Keys, flow'[g].pc \in {"marked", "waiting", "failing"},
               flow'[g].gen # generation', flow'[g].key = k
        PROVE  FreshFor(k)'
    <3>1. Committed(g) /\ ~Current(g) /\ flow[g].key = k
      BY <1>1, <1>2, <2>1 DEF Committed, Current
    <3>2. FreshFor(k)
      BY <3>1 DEF SendInv, FreshInv
    <3> QED BY <1>2, <3>2, FreshUnchanged
  <2> QED BY <2>1 DEF FreshInv, Committed, Current
<1>10. MessageInv'
  <2>1. \A k \in Keys \ missed' : \A q, r \in Handed' : keyOf'[q] = k /\ keyOf'[r] = k => q = r
    BY <1>2, <1>3 DEF SendInv, MessageInv
  <2>2. ASSUME NEW g \in Flows, flow'[g].gen = generation'
        PROVE  /\ flow'[g].pc = "prepared" /\ flow'[g].seen = "pending" => status'[flow'[g].key] = "pending"
               /\ flow'[g].pc # "marked"
    <3>1. CASE g = f
      BY <1>1, <3>1
    <3>2. CASE g # f
      BY <1>1, <1>2, <1>4, <2>2, <3>2 DEF Current
    <3> QED BY <3>1, <3>2
  <2> QED BY <2>1, <2>2 DEF MessageInv, Current
<1> QED
  BY <1>5, <1>6, <1>7, <1>8, <1>9, <1>10 DEF SendInv

-----------------------------------------------------------------------------
(* A reply is applied. *)

(* The call that awaited the reply is over, or the reply was for none. *)
EndsCall(reply) ==
    \/ UNCHANGED <<flow, sending>>
    \/ \E f \in Flows :
          /\ IsFor(reply, f)
          /\ flow' = [flow EXCEPT ![f] = IdleFlow]
          /\ UNCHANGED sending \/ reply.gen = generation

LEMMA ReceiveEnds ==
  ASSUME Inv, NEW reply \in Replies, ReceiveDraft(reply) \/ ReceiveDetail(reply) \/ ReceiveDelivery(reply)
  PROVE  EndsCall(reply)
<1>1. CASE ReceiveDraft(reply)
  BY <1>1 DEF ReceiveDraft, EndsCall
<1>2. CASE ReceiveDetail(reply)
  <2>1. reply.kind = "detail"
    BY <1>2 DEF ReceiveDetail
  <2>2. CASE reply.flow \in Flows
    <3>1. flow' = [flow EXCEPT ![reply.flow] = IdleFlow] /\ (UNCHANGED sending \/ reply.gen = generation)
      BY <1>2, <2>2 DEF ReceiveDetail
    <3> QED BY <2>1, <2>2, <3>1 DEF EndsCall, IsFor
  <2>3. CASE reply.flow \notin Flows
    BY <1>2, <2>3 DEF ReceiveDetail, EndsCall
  <2> QED BY <2>2, <2>3
<1>3. CASE ReceiveDelivery(reply)
  <2>1. reply.kind = "delivery" /\ reply.flow \in Flows
    BY <1>3 DEF ReceiveDelivery, Replies
  <2>2. flow' = [flow EXCEPT ![reply.flow] = IdleFlow] /\ (UNCHANGED sending \/ reply.gen = generation)
    BY <1>3 DEF ReceiveDelivery
  <2> QED BY <2>1, <2>2 DEF EndsCall, IsFor
<1> QED
  BY <1>1, <1>2, <1>3

LEMMA TakenCalls ==
  ASSUME Inv, SendInv, NEW reply \in Replies, mailbox # <<>>, reply = Head(mailbox), mailbox' = Tail(mailbox),
         EndsCall(reply), UNCHANGED <<version, status, generation, missed, providerVars>>
  PROVE  /\ CallInv' /\ ReplyInv' /\ CommitInv' /\ MessageInv'
         /\ \A f \in Flows : flow'[f] = flow[f] \/ flow'[f] = IdleFlow
<1>1. Grows /\ Handed' = Handed /\ keyOf' = keyOf
  BY GrowsIfKept, HandedKept DEF Inv
<1>2. /\ 1 \in DOMAIN mailbox /\ mailbox[1] = reply
      /\ \A i \in DOMAIN mailbox' : /\ i \in Nat /\ i + 1 \in DOMAIN mailbox /\ i + 1 # 1
                                    /\ mailbox'[i] = mailbox[i + 1]
  BY MailTaken DEF Inv
<1>3. ASSUME NEW f \in Flows, NEW i \in DOMAIN mailbox', NEW j \in DOMAIN mailbox',
             IsFor(mailbox'[i], f), IsFor(mailbox'[j], f)
      PROVE  i = j
  <2>1. PICK p \in DOMAIN mailbox : p = i + 1 /\ mailbox'[i] = mailbox[p]
    BY <1>2
  <2>2. PICK q \in DOMAIN mailbox : q = j + 1 /\ mailbox'[j] = mailbox[q]
    BY <1>2
  <2>3. p = q
    BY <1>3, <2>1, <2>2 DEF SendInv, ReplyInv
  <2> QED BY <1>2, <2>1, <2>2, <2>3
<1>4. ASSUME NEW f \in Flows, NEW i \in DOMAIN mailbox', IsFor(mailbox'[i], f)
      PROVE  ~IsFor(reply, f) /\ Awaited(mailbox'[i], f)
  <2>1. PICK p \in DOMAIN mailbox : p = i + 1 /\ mailbox'[i] = mailbox[p] /\ p # 1
    BY <1>2
  <2> QED BY <1>2, <1>4, <2>1 DEF SendInv, ReplyInv
<1>5. CASE UNCHANGED <<flow, sending>>
  <2>1. ASSUME NEW f \in Flows, NEW i \in DOMAIN mailbox', IsFor(mailbox'[i], f)
        PROVE  /\ flow'[f].pc = "returning" /\ mailbox'[i].gen = flow'[f].gen
               /\ mailbox'[i].kind = "delivery" => mailbox'[i].key = flow'[f].key
    BY <1>4, <1>5, <2>1 DEF Awaited
  <2>2. ReplyInv'
    BY <1>3, <2>1 DEF ReplyInv, Awaited, IsFor
  <2> QED BY <1>1, <1>5, <2>2, CallKept, CommitKept, MessageKept DEF SendInv
<1>6. ASSUME NEW f \in Flows, IsFor(reply, f), flow' = [flow EXCEPT ![f] = IdleFlow],
             UNCHANGED sending \/ reply.gen = generation
      PROVE  /\ CallInv' /\ ReplyInv' /\ CommitInv' /\ MessageInv'
             /\ \A g \in Flows : flow'[g] = flow[g] \/ flow'[g] = IdleFlow
  <2>1. /\ flow'[f] = IdleFlow /\ \A g \in Flows \ {f} : flow'[g] = flow[g]
        /\ IdleFlow.pc = "idle" /\ IdleFlow.gen = 0 /\ IdleFlow.key = NoKey /\ NoKey \notin Keys
        /\ generation \in Nat /\ \A g \in Flows : flow[g].gen \in Nat
    BY <1>6, NoKeyIsNoKey DEF Inv, FlowInv, FlowRecords, SessionInv, IdleFlow
  <2>2. Awaited(reply, f)
    BY <1>2, <1>6 DEF SendInv, ReplyInv
  <2>3. CallInv'
    <3>1. ASSUME NEW g \in Flows, g # f, flow[g].pc # "idle", Current(g) PROVE sending'
      <4>1. sending
        BY <3>1 DEF SendInv, CallInv
      <4>2. reply.gen # generation
        BY <2>2, <3>1 DEF SendInv, CallInv, Awaited, Current
      <4> QED BY <1>6, <4>1, <4>2
    <3>2. ASSUME NEW g \in Flows
          PROVE  /\ flow'[g].pc = "idle" => flow'[g] = IdleFlow
                 /\ flow'[g].gen <= generation'
                 /\ flow'[g].pc # "idle" /\ flow'[g].gen = generation' => sending'
                 /\ flow'[g].key \in Keys => flow'[g].key[2] <= version'[flow'[g].key[1]]
      BY <2>1, <3>1, <3>2 DEF SendInv, CallInv, Current
    <3>3. ASSUME NEW g \in Flows, NEW h \in Flows,
                 flow'[g].pc # "idle", flow'[h].pc # "idle", flow'[g].gen = flow'[h].gen
          PROVE  g = h
      BY <2>1, <3>3 DEF SendInv, CallInv
    <3> QED BY <3>2, <3>3 DEF CallInv, Current
  <2>4. ReplyInv'
    <3>1. ASSUME NEW g \in Flows, NEW i \in DOMAIN mailbox', IsFor(mailbox'[i], g)
          PROVE  /\ flow'[g].pc = "returning" /\ mailbox'[i].gen = flow'[g].gen
                 /\ mailbox'[i].kind = "delivery" => mailbox'[i].key = flow'[g].key
      <4>1. g # f /\ Awaited(mailbox'[i], g)
        BY <1>4, <1>6, <3>1
      <4> QED BY <2>1, <4>1 DEF Awaited
    <3> QED BY <1>3, <3>1 DEF ReplyInv, Awaited, IsFor
  <2>5. CommitInv'
    <3>1. ASSUME NEW g \in Flows
          PROVE  /\ flow'[g].pc \in {"marked", "waiting"} => status'[flow'[g].key] = "sending"
                 /\ flow'[g].pc = "failing" => status'[flow'[g].key] \in {"sending", "sent"}
      BY <2>1 DEF SendInv, CommitInv
    <3>2. ASSUME NEW g \in Flows, NEW h \in Flows,
                 flow'[g].pc \in {"marked", "waiting", "failing"}, flow'[h].key = flow'[g].key
          PROVE  flow'[h].gen <= flow'[g].gen
      <4>1. g # f /\ flow'[g] = flow[g] /\ Committed(g)
        BY <2>1, <3>2 DEF Committed
      <4>2. CASE h = f
        BY <2>1, <4>1, <4>2
      <4>3. CASE h # f
        BY <2>1, <3>2, <4>1, <4>3 DEF SendInv, CommitInv
      <4> QED BY <4>2, <4>3
    <3> QED BY <3>1, <3>2 DEF CommitInv, Committed
  <2>6. MessageInv'
    <3>1. \A k \in Keys \ missed' : \A q, r \in Handed' : keyOf'[q] = k /\ keyOf'[r] = k => q = r
      BY <1>1 DEF SendInv, MessageInv
    <3>2. ASSUME NEW g \in Flows, flow'[g].gen = generation'
          PROVE  /\ flow'[g].pc = "prepared" /\ flow'[g].seen = "pending" => status'[flow'[g].key] = "pending"
                 /\ flow'[g].pc = "marked" /\ flow'[g].key \notin missed' =>
                       \A r \in Handed' : keyOf'[r] # flow'[g].key
      <4>1. CASE g = f
        BY <2>1, <4>1
      <4>2. CASE g # f
        BY <1>1, <2>1, <3>2, <4>2 DEF SendInv, MessageInv, Current
      <4> QED BY <4>1, <4>2
    <3> QED BY <3>1, <3>2 DEF MessageInv, Current
  <2> QED BY <2>1, <2>3, <2>4, <2>5, <2>6
<1> QED
  BY <1>5, <1>6 DEF EndsCall

LEMMA TakenAge ==
  ASSUME Inv, Inv', SendInv, NEW reply \in Replies, reply \in Mail, Mail' \subseteq Mail,
         ReceiveDraft(reply) \/ ReceiveDetail(reply) \/ ReceiveDelivery(reply),
         UNCHANGED <<version, generation, loading>>
  PROVE  AgeInv'
<1>1. Grows /\ generation' \in Nat /\ generation <= generation' /\ AgeReply(reply)
  BY GrowsIfKept DEF Inv, SessionInv, SendInv, AgeInv
<1>2. viewDraft' = viewDraft \/ NotAhead(viewDraft)'
  <2>1. CASE ReceiveDraft(reply) /\ viewDraft' = [viewDraft EXCEPT ![reply.draft] = reply.version]
    <3>1. ASSUME NEW d \in Drafts PROVE viewDraft'[d] <= version'[d]
      <4>1. viewDraft \in DraftMap /\ viewDraft[d] <= version[d] /\ version' = version
        BY DEF Inv, ViewInv, SendInv, AgeInv, NotAhead
      <4>2. reply.version <= version[reply.draft]
        BY <1>1, <2>1 DEF ReceiveDraft, AgeReply
      <4> QED BY <2>1, <4>1, <4>2 DEF DraftMap
    <3> QED BY <3>1 DEF NotAhead
  <2>2. CASE ReceiveDetail(reply) /\ viewDraft' = reply.detail.drafts
    <3>1. NotAhead(reply.detail.drafts)
      BY <1>1, <2>2 DEF ReceiveDetail, AgeReply
    <3> QED BY <2>2, <3>1 DEF NotAhead
  <2>3. CASE viewDraft' = viewDraft
    BY <2>3
  <2> QED BY <2>1, <2>2, <2>3 DEF ReceiveDraft, ReceiveDetail, ReceiveDelivery
<1> QED
  BY <1>1, <1>2, AgeStep DEF SendInv

LEMMA TakenFresh ==
  ASSUME Inv, SendInv, NEW reply \in Replies, reply \in Mail, Mail' \subseteq Mail,
         ReceiveDraft(reply) \/ ReceiveDetail(reply) \/ ReceiveDelivery(reply),
         UNCHANGED <<generation, loading>>,
         NEW f \in Flows, NEW k \in Keys, Committed(f), ~Current(f), flow[f].key = k
  PROVE  FreshFor(k)'
<1>1. FreshFor(k)
  BY DEF SendInv, FreshInv
<1>2. PICK d \in Drafts, v \in Versions : k = <<d, v>>
  BY DEF Keys
<1>3. k[1] = d /\ k[2] = v /\ v \in Nat \ {0}
  BY <1>2 DEF Versions
<1>4. reply.gen = generation => FreshReply(k, reply)
  BY <1>1 DEF FreshFor
<1>5. viewDraft'[d] = 0 \/ (viewDraft'[d] >= v /\ viewStatus'[k] \in {"sending", "sent"})
  <2>1. viewDraft[d] = 0 \/ (viewDraft[d] >= v /\ viewStatus[k] \in {"sending", "sent"})
    BY <1>1, <1>3 DEF FreshFor, Fresh
  <2>2. CASE UNCHANGED <<viewDraft, viewStatus>>
    BY <2>1, <2>2
  <2>3. CASE /\ ReceiveDraft(reply) /\ reply.gen = generation
             /\ reply.version = 1 \/ viewDraft[reply.draft] # 0
             /\ viewDraft' = [viewDraft EXCEPT ![reply.draft] = reply.version] /\ UNCHANGED viewStatus
    <3>1. viewDraft \in DraftMap /\ reply.version \in Nat /\ reply.draft \in Drafts
      BY <2>3 DEF ReceiveDraft, Replies, Versions, Inv, ViewInv
    <3>2. CASE reply.draft # d
      BY <2>1, <2>3, <3>1, <3>2 DEF DraftMap
    <3>3. CASE reply.draft = d
      <4>1. reply.version > v
        BY <1>3, <1>4, <2>3, <3>3 DEF ReceiveDraft, FreshReply
      <4>2. viewDraft[d] # 0 /\ viewDraft'[d] = reply.version /\ viewDraft'[d] >= v
        BY <1>3, <2>3, <3>1, <3>3, <4>1 DEF DraftMap
      <4> QED BY <2>1, <2>3, <4>2
    <3> QED BY <3>2, <3>3
  <2>4. CASE /\ ReceiveDetail(reply) /\ reply.gen = generation
             /\ viewDraft' = reply.detail.drafts /\ viewStatus' = reply.detail.deliveries
    BY <1>3, <1>4, <2>4 DEF ReceiveDetail, FreshReply, Fresh
  <2>5. CASE /\ ReceiveDelivery(reply) /\ reply.gen = generation
             /\ viewStatus' = [viewStatus EXCEPT ![reply.key] = reply.status] /\ UNCHANGED viewDraft
    <3>1. reply.kind = "delivery" /\ reply.flow \in Flows
      BY <2>5 DEF ReceiveDelivery, Replies
    <3>2. PICK i \in DOMAIN mailbox : reply = mailbox[i]
      BY DEF Mail
    <3>3. Awaited(reply, reply.flow)
      BY <3>1, <3>2 DEF SendInv, ReplyInv, IsFor
    <3>4. reply.key # k
      <4>1. PICK g \in Flows : g = reply.flow
        BY <3>1
      <4>2. flow[g].key = reply.key /\ flow[g].gen = generation
        BY <2>5, <3>1, <3>3, <4>1 DEF Awaited
      <4>3. flow[g].key = k => flow[g].gen <= flow[f].gen
        BY DEF SendInv, CommitInv
      <4>4. flow[f].gen \in Nat /\ generation \in Nat /\ flow[f].gen <= generation /\ flow[f].gen # generation
        BY DEF Inv, FlowInv, FlowRecords, SessionInv, SendInv, CallInv, Current
      <4> QED BY <4>2, <4>3, <4>4
    <3> QED BY <2>1, <2>5, <3>4 DEF Inv, ViewInv, StatusMap
  <2> QED
    BY <2>2, <2>3, <2>4, <2>5 DEF ReceiveDraft, ReceiveDetail, ReceiveDelivery
<1> QED
  BY <1>1, <1>3, <1>5 DEF FreshFor, Fresh, FreshReply

LEMMA ReceiveKeeps ==
  ASSUME Inv, Inv', SendInv, Receive
  PROVE  SendInv'
<1>1. /\ mailbox # <<>> /\ mailbox' = Tail(mailbox)
      /\ UNCHANGED <<version, status, generation, loading, missed, providerVars>>
  BY DEF Receive, catalogVars, sessionVars
<1>2. Mail' \subseteq Mail /\ Head(mailbox) \in Mail /\ Mail \subseteq Replies
  BY <1>1, MailTaken DEF Inv
<1>3. PICK reply \in Replies : reply = Head(mailbox)
  BY <1>2
<1>4. ReceiveDraft(reply) \/ ReceiveDetail(reply) \/ ReceiveDelivery(reply)
  BY <1>3 DEF Receive
<1>5. AgeInv'
  BY <1>1, <1>2, <1>3, <1>4, TakenAge
<1>6. EndsCall(reply)
  BY <1>4, ReceiveEnds
<1>7. /\ CallInv' /\ ReplyInv' /\ CommitInv' /\ MessageInv'
      /\ \A f \in Flows : flow'[f] = flow[f] \/ flow'[f] = IdleFlow
  BY <1>1, <1>3, <1>6, TakenCalls
<1>8. FreshInv'
  <2>1. ASSUME NEW f \in Flows, NEW k \in Keys, flow'[f].pc \in {"marked", "waiting", "failing"},
               flow'[f].gen # generation', flow'[f].key = k
        PROVE  FreshFor(k)'
    <3>1. flow'[f] = flow[f]
      BY <1>7, <2>1 DEF IdleFlow
    <3>2. Committed(f) /\ ~Current(f) /\ flow[f].key = k
      BY <1>1, <2>1, <3>1 DEF Committed, Current
    <3> QED BY <1>1, <1>2, <1>3, <1>4, <3>2, TakenFresh
  <2> QED BY <2>1 DEF FreshInv, Committed, Current
<1> QED
  BY <1>5, <1>7, <1>8 DEF SendInv

-----------------------------------------------------------------------------
(* The provider, and what ends a session. *)

LEMMA ProviderKeeps ==
  ASSUME Inv, Inv', SendInv, NEW r \in Refs, ProviderPosts(r) \/ ProviderLoses(r)
  PROVE  SendInv'
<1>1. /\ UNCHANGED <<flow, generation, sending, status, version, missed, keyOf, mailbox, viewDraft, viewStatus, loading>>
      /\ r \in undecided /\ undecided' = undecided \ {r}
      /\ channel' = channel \/ channel' = Append(channel, r)
  BY DEF ProviderPosts, ProviderLoses, viewVars, sessionVars, catalogVars
<1>2. channel \in Seq(Refs)
  BY DEF Inv, ChannelInv
<1>3. Handed' \subseteq Handed
  <2>1. ASSUME NEW q \in Posted' PROVE q \in Handed
    <3>1. PICK i \in DOMAIN channel' : q = channel'[i]
      BY DEF Posted
    <3>2. q = r \/ (i \in DOMAIN channel /\ q = channel[i])
      <4>1. CASE channel' = channel
        BY <3>1, <4>1
      <4>2. CASE channel' = Append(channel, r)
        BY <1>2, <3>1, <4>2
      <4> QED BY <1>1, <4>1, <4>2
    <3> QED BY <1>1, <3>2 DEF Handed, Posted
  <2> QED BY <1>1, <2>1 DEF Handed
<1> QED
  BY <1>1, <1>3, FreshUnchanged, WindowKeeps

(* What the window shows after its conversation has been closed. *)
LEMMA ClearedIsFresh ==
  ASSUME ClearView, NEW k \in Keys, \A reply \in Mail' : reply.gen = generation' => FreshReply(k, reply)
  PROVE  FreshFor(k)'
<1>1. loading' = {} /\ viewDraft'[k[1]] = 0
  BY DEF ClearView, EmptyDrafts, Keys
<1> QED
  BY <1>1 DEF FreshFor, FreshReply, Fresh

LEMMA ConnectionKeeps ==
  ASSUME Inv, Inv', SendInv, Connect \/ Disconnect
  PROVE  SendInv'
<1>1. /\ UNCHANGED <<flow, generation, sending, status, version, missed, mailbox, providerVars>>
      /\ UNCHANGED <<viewDraft, viewStatus, loading>> \/ ClearView
  BY DEF Connect, Disconnect, viewVars, catalogVars
<1>2. Handed' = Handed /\ keyOf' = keyOf /\ Mail' = Mail
  BY <1>1, HandedKept, MailKept DEF Inv
<1>3. viewDraft' = viewDraft \/ NotAhead(viewDraft)'
  BY <1>1, EmptyNotAhead DEF Inv, ClearView
<1>4. \A detail \in loading' : detail \in loading
  BY <1>1 DEF ClearView
<1>5. ASSUME NEW k \in Keys, FreshFor(k) PROVE FreshFor(k)'
  <2>1. CASE UNCHANGED <<viewDraft, viewStatus, loading>>
    BY <1>1, <1>5, <2>1, FreshUnchanged
  <2>2. CASE ClearView
    <3>1. \A reply \in Mail' : reply.gen = generation' => FreshReply(k, reply)
      BY <1>1, <1>2, <1>5 DEF FreshFor
    <3> QED BY <2>2, <3>1, ClearedIsFresh
  <2> QED BY <1>1, <2>1, <2>2
<1> QED
  BY <1>1, <1>2, <1>3, <1>4, <1>5, WindowKeeps

LEMMA SwitchKeeps ==
  ASSUME Inv, Inv', SendInv, SwitchWorkspace
  PROVE  SendInv'
<1>1. /\ UNCHANGED <<flow, status, version, missed, mailbox, providerVars>> /\ ClearView
      /\ generation' = generation + 1 /\ generation \in Nat
  BY DEF SwitchWorkspace, catalogVars, Inv, SessionInv
<1>2. Handed' = Handed /\ keyOf' = keyOf /\ Mail' = Mail /\ Mail \subseteq Replies /\ Grows
  BY <1>1, HandedKept, MailKept, GrowsIfKept DEF Inv
<1>3. \A f \in Flows : flow[f].gen \in Nat /\ flow[f].gen <= generation /\ flow[f].gen # generation'
  BY <1>1 DEF Inv, FlowInv, FlowRecords, SendInv, CallInv
<1>4. ASSUME NEW reply \in Mail PROVE reply.gen # generation'
  <2>1. reply.gen \in Nat /\ reply.gen <= generation
    BY <1>2 DEF Replies, SendInv, AgeInv, AgeReply
  <2> QED BY <1>1, <2>1
<1>5. AgeInv'
  <2>1. NotAhead(viewDraft)' /\ loading' = {}
    BY <1>1, EmptyNotAhead DEF Inv, ClearView
  <2>2. generation' \in Nat /\ generation <= generation'
    BY <1>1
  <2>3. \A reply \in Mail' : reply \in Mail
    BY <1>2
  <2>4. \A detail \in loading' : detail \in loading
    BY <2>1
  <2> QED BY <1>2, <2>1, <2>2, <2>3, <2>4, AgeStep DEF SendInv
<1>6. CallInv'
  <2>1. \A f \in Flows : flow'[f] = flow[f] /\ flow'[f].gen <= generation' /\ flow'[f].gen # generation'
    BY <1>1, <1>3
  <2>2. version' = version
    BY <1>1
  <2> QED BY <2>1, <2>2 DEF SendInv, CallInv, Current
<1>7. ReplyInv' /\ CommitInv'
  BY <1>1, ReplyKept, CommitKept DEF SendInv
<1>8. FreshInv'
  <2>1. ASSUME NEW k \in Keys PROVE FreshFor(k)'
    BY <1>1, <1>2, <1>4, ClearedIsFresh
  <2> QED BY <2>1 DEF FreshInv
<1>9. MessageInv'
  <2>1. \A f \in Flows : flow'[f].gen # generation'
    BY <1>1, <1>3
  <2>2. \A k \in Keys \ missed' : \A q, r \in Handed' : keyOf'[q] = k /\ keyOf'[r] = k => q = r
    BY <1>1, <1>2 DEF SendInv, MessageInv
  <2> QED BY <2>1, <2>2 DEF MessageInv, Current
<1> QED
  BY <1>5, <1>6, <1>7, <1>8, <1>9 DEF SendInv

(* Without a call and without a reply there is nothing to remember. *)
AtRest ==
    /\ flow = [f \in Flows |-> IdleFlow] /\ mailbox = <<>> /\ generation \in Nat
    /\ loading = {} /\ NotAhead(viewDraft)
    /\ \A k \in Keys \ missed : \A q, r \in Handed : keyOf[q] = k /\ keyOf[r] = k => q = r

LEMMA RestInv == AtRest => SendInv
<1> SUFFICES ASSUME AtRest PROVE SendInv
  OBVIOUS
<1>1. /\ \A f \in Flows : flow[f] = IdleFlow
      /\ mailbox = <<>> /\ generation \in Nat /\ loading = {} /\ NotAhead(viewDraft)
  BY DEF AtRest
<1>2. IdleFlow.pc = "idle" /\ IdleFlow.gen = 0 /\ IdleFlow.key = NoKey /\ NoKey \notin Keys
  BY NoKeyIsNoKey DEF IdleFlow
<1>3. DOMAIN mailbox = {} /\ Mail = {}
  BY <1>1 DEF Mail
<1>4. AgeInv
  BY <1>1, <1>3 DEF AgeInv
<1>5. CallInv
  BY <1>1, <1>2 DEF CallInv
<1>6. ReplyInv
  BY <1>3 DEF ReplyInv
<1>7. CommitInv /\ FreshInv
  BY <1>1, <1>2 DEF CommitInv, FreshInv, Committed
<1>8. MessageInv
  BY <1>1, <1>2 DEF MessageInv, AtRest
<1> QED
  BY <1>4, <1>5, <1>6, <1>7, <1>8 DEF SendInv

LEMMA RestStep == AtRest' => SendInv'
  BY RestInv, PTL

LEMMA RestartKeeps ==
  ASSUME Inv, Inv', SendInv, Restart
  PROVE  SendInv'
<1>1. /\ flow' = [f \in Flows |-> IdleFlow] /\ mailbox' = <<>> /\ ClearView
      /\ UNCHANGED <<missed, providerVars>>
  BY DEF Restart
<1>2. NotAhead(viewDraft)' /\ loading' = {}
  BY <1>1, EmptyNotAhead DEF Inv, ClearView
<1>3. generation' \in Nat
  BY DEF Inv, SessionInv
<1>4. Handed' = Handed /\ keyOf' = keyOf
  BY <1>1, HandedKept
<1>5. \A k \in Keys \ missed' : \A q, r \in Handed' : keyOf'[q] = k /\ keyOf'[r] = k => q = r
  BY <1>1, <1>4 DEF SendInv, MessageInv
<1> QED
  BY <1>1, <1>2, <1>3, <1>5, RestStep DEF AtRest

LEMMA InitRest == Init => SendInv
<1> SUFFICES ASSUME Init PROVE AtRest
  BY RestInv
<1>1. Handed = {}
  BY DEF Init, Handed, Posted
<1>2. NotAhead(viewDraft)
  BY DEF Init, NotAhead, EmptyDrafts
<1> QED
  BY <1>1, <1>2 DEF Init, AtRest

(* No message is handed over for a delivery that is sent. *)
SendStep == \A k \in Keys : status[k] = "sent" => \A r \in Refs : keyOf'[r] = k => keyOf[r] = k

LEMMA OnlySendHandsOver ==
  ASSUME Inv, SendInv, Next
  PROVE  SendStep
<1>1. CASE UNCHANGED keyOf
  BY <1>1 DEF SendStep
<1>2. ASSUME NEW f \in Flows, flow[f].pc = "marked", NEW r \in Refs, keyOf' = [keyOf EXCEPT ![r] = flow[f].key]
      PROVE  SendStep
  <2>1. status[flow[f].key] = "sending"
    BY <1>2 DEF SendInv, CommitInv
  <2>2. \A q \in Refs : keyOf'[q] = keyOf[q] \/ keyOf'[q] = flow[f].key
    BY <1>2 DEF Inv, ChannelInv
  <2> QED BY <2>1, <2>2 DEF SendStep
<1>3. ASSUME NEW f \in Flows, DeliverDraft(f) PROVE SendStep
  <2>1. CASE Send(f)
    BY <1>1, <1>2, <2>1 DEF Send
  <2>2. CASE ~Send(f)
    BY <1>1, <1>3, <2>2 DEF DeliverDraft, Prepared, LookupFails, LookupFinds, LookupMisses,
       SendSucceeds, SendFails, FailDelivery, Threw, providerVars
  <2> QED BY <2>1, <2>2
<1>4. ASSUME NEW d \in Drafts, CreateDraft(d) \/ EditDraft(d) \/ UndoEdit(d) \/ SaveDraft(d)
      PROVE  SendStep
  BY <1>1, <1>4 DEF CreateDraft, EditDraft, UndoEdit, SaveDraft, providerVars
<1>8. ASSUME NEW d \in Drafts, NEW f \in Flows, ConfirmDelivery(f, d)
      PROVE  SendStep
  BY <1>1, <1>8 DEF ConfirmDelivery, providerVars
<1>5. CASE RefreshCollaboration \/ SelectConversation \/ ApplyDetail \/ CloseDialog \/ Receive
  BY <1>1, <1>5 DEF RefreshCollaboration, SelectConversation, ApplyDetail, CloseDialog, Receive, providerVars
<1>6. ASSUME NEW r \in Refs, ProviderPosts(r) \/ ProviderLoses(r) PROVE SendStep
  BY <1>1, <1>6 DEF ProviderPosts, ProviderLoses
<1>7. CASE Connect \/ Disconnect \/ SwitchWorkspace \/ Restart
  BY <1>1, <1>7 DEF Connect, Disconnect, SwitchWorkspace, Restart, providerVars
<1> QED
  BY <1>3, <1>4, <1>8, <1>5, <1>6, <1>7 DEF Next

LEMMA StepKeeps == Inv /\ Inv' /\ SendInv /\ [Next]_vars => SendInv' /\ [SendStep]_vars
<1> SUFFICES ASSUME Inv, Inv', SendInv, [Next]_vars PROVE SendInv' /\ [SendStep]_vars
  OBVIOUS
<1>1. CASE Next
  <2>1. ASSUME NEW d \in Drafts, CreateDraft(d) \/ EditDraft(d) \/ UndoEdit(d) \/ SaveDraft(d)
        PROVE  SendInv'
    BY <2>1, CreateKeeps, EditKeeps, SaveKeeps
  <2>7. ASSUME NEW d \in Drafts, NEW f \in Flows, ConfirmDelivery(f, d)
        PROVE  SendInv'
    BY <2>7, ConfirmKeeps
  <2>2. ASSUME RefreshCollaboration \/ SelectConversation \/ ApplyDetail \/ CloseDialog \/ Receive
        PROVE  SendInv'
    <3>1. CASE RefreshCollaboration BY <3>1, RefreshKeeps
    <3>2. CASE SelectConversation BY <3>2, SelectKeeps
    <3>3. CASE ApplyDetail BY <3>3, ApplyKeeps
    <3>4. CASE CloseDialog BY <3>4, CloseKeeps
    <3>5. CASE Receive BY <3>5, ReceiveKeeps
    <3> QED BY <2>2, <3>1, <3>2, <3>3, <3>4, <3>5
  <2>3. ASSUME NEW f \in Flows, DeliverDraft(f) PROVE SendInv'
    BY <2>3, DeliverKeepsSendInv
  <2>4. ASSUME NEW r \in Refs, ProviderPosts(r) \/ ProviderLoses(r) PROVE SendInv'
    BY <2>4, ProviderKeeps
  <2>5. ASSUME Connect \/ Disconnect \/ SwitchWorkspace \/ Restart PROVE SendInv'
    <3>1. CASE Connect \/ Disconnect BY <3>1, ConnectionKeeps
    <3>2. CASE SwitchWorkspace BY <3>2, SwitchKeeps
    <3>3. CASE Restart BY <3>3, RestartKeeps
    <3> QED BY <2>5, <3>1, <3>2, <3>3
  <2>6. SendInv'
    BY <1>1, <2>1, <2>7, <2>2, <2>3, <2>4, <2>5 DEF Next
  <2> QED BY <1>1, <2>6, OnlySendHandsOver
<1>2. CASE UNCHANGED vars
  <2>1. UNCHANGED <<flow, generation, sending, status, version, missed, mailbox, providerVars, viewDraft, viewStatus, loading>>
    BY <1>2 DEF vars, viewVars, catalogVars, sessionVars
  <2>2. keyOf' = keyOf /\ Handed' = Handed
    BY <2>1, HandedKept
  <2>3. SendInv'
    BY <2>1, <2>2, FreshUnchanged, WindowKeeps
  <2> QED BY <1>2, <2>3
<1> QED
  BY <1>1, <1>2

(* findDeliveredMessage before every repeated send: of a delivery that no     *)
(* lookup has missed at most one message is in the channel or on its way to   *)
(* it, after any crash, change of workspace, failed write or lost answer.     *)
THEOREM OneMessage == Spec => []OneMessagePerDelivery
<1>1. Inv /\ [Next]_vars => Inv'
  BY StepPreserves
<1>2. Init => Inv /\ SendInv
  BY InitInv, InitRest
<1>3. SendInv => OneMessagePerDelivery
  BY DEF SendInv, MessageInv, OneMessagePerDelivery, MessagesOf, Handed
<1> QED BY <1>1, <1>2, <1>3, StepKeeps, PTL DEF Spec

(* A call that was overtaken sends nothing: no message is handed to the       *)
(* provider for a delivery the catalog has as sent.                           *)
THEOREM NotSentAgain == Spec => SentIsNotSentAgain
<1>1. Inv /\ [Next]_vars => Inv'
  BY StepPreserves
<1>2. Init => Inv /\ SendInv
  BY InitInv, InitRest
<1>3. SentIsNotSentAgain <=> [][SendStep]_vars
  BY DEF SentIsNotSentAgain, SendStep
<1> QED BY <1>1, <1>2, <1>3, StepKeeps, PTL DEF Spec
=============================================================================
