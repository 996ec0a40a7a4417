--------------------------- MODULE ChannelComposer ---------------------------
(***************************************************************************)
(* What a user writes in a channel, from the composer to the provider:     *)
(* the drafts and outgoing attempts of src/features/channels/store.ts and  *)
(* the draft catalog of electron/services/channelDrafts.ts.  The text is   *)
(* saved before it is sent and removed once every message of its batch is  *)
(* confirmed, by the answer of the send or by an event; meanwhile the user *)
(* types, retries, cancels and dismisses, saves and sends fail, drafts are *)
(* loaded, and accounts come and go.                                       *)
(*                                                                         *)
(* One channel.  A submission is its text and an attachment at most; what  *)
(* was typed remembers the account that typed it.                          *)
(***************************************************************************)
EXTENDS Naturals, FiniteSets

CONSTANTS
  Accounts,
  Texts,
  Submissions,   \* submissions of the composer, each made once (a bound)
  MaxParts,      \* messages of a submission
  MaxTries,      \* a bound: executions of an attempt
  MaxRetried,    \* a bound: attempts that exist and were retried
  MaxConnections \* a bound

NoAccount == "none"
Blank == "blank"

ASSUME ComposerAssumption ==
  /\ NoAccount \notin Accounts /\ Blank \notin Texts
  /\ MaxParts \in Nat /\ MaxTries \in Nat \ {0} /\ MaxConnections \in Nat

NoDraft == [of |-> NoAccount, text |-> Blank]
NoFlush == [account |-> NoAccount]

VARIABLES
  connections,   \* how often a status has named an account
  account,       \* status.accountRef
  loadedFor,     \* loadedDraftAccountRef
  opened,        \* the channel is listed and is the active one
  draft,         \* draftsByChannel
  dirty,         \* dirtyDraftRefs
  saveTimer,     \* draftSaveTimers
  flush,         \* draftSavePromises: the account, the lifecycle and the text it saves
  restoring,     \* drafts that a clearDraft waiting for it restores if it fails
  load,          \* the current loadDrafts
  disk,          \* the catalog: the draft of an account
  submission,    \* beginComposerSubmission
  batch,         \* draftDeliveryBatches: the messages that are not confirmed
  attempt,       \* outgoingAttempts
  flights,       \* sends under way of attempts that exist: message and execution
  posted,        \* the messages that are known to be posted
  unsure         \* accounts whose composer and catalog may differ unnoticed: a load
                 \* failed, came late or overlapped a change, a save failed when they
                 \* were gone, or a text was saved under another account

composerVars == <<connections, account, loadedFor, opened, draft, dirty, saveTimer, flush, restoring,
                  load, disk, submission, batch, attempt, flights, posted, unsure>>

Parts == 1..MaxParts
Messages == Submissions \X Parts
Drafts == [of : Accounts, text : Texts \cup {Blank}] \cup {NoDraft}
Statuses == {"none", "sending", "ended"}   \* ended: failed or cancelled

ComposerTypeOK ==
  /\ connections \in 0..MaxConnections
  /\ account \in Accounts \cup {NoAccount}
  /\ loadedFor \in Accounts \cup {NoAccount}
  /\ opened \in BOOLEAN
  /\ draft \in Drafts
  /\ dirty \in BOOLEAN
  /\ saveTimer \in BOOLEAN
  /\ flush = NoFlush \/ flush \in [account : Accounts, current : BOOLEAN, draft : Drafts]
  /\ restoring \subseteq Drafts
  /\ load \in Accounts \cup {NoAccount}
  /\ disk \in [Accounts -> Drafts]
  /\ submission \in [Submissions -> [draft : Drafts, parts : 0..MaxParts, current : BOOLEAN,
                                     stage : {"new", "flushing", "sent", "dropped"}]]
  /\ batch \in [Submissions -> SUBSET Parts]
  /\ attempt \in [Messages -> [status : Statuses, try : 0..MaxTries]]
  /\ flights \subseteq Messages \X (1..MaxTries)
  /\ posted \subseteq Messages
  /\ unsure \subseteq Accounts

NoAttempt == [status |-> "none", try |-> 0]

ComposerInit ==
  /\ connections = 0
  /\ account = NoAccount
  /\ loadedFor = NoAccount
  /\ opened = FALSE
  /\ draft = NoDraft
  /\ dirty = FALSE
  /\ saveTimer = FALSE
  /\ flush = NoFlush
  /\ restoring = {}
  /\ load = NoAccount
  /\ disk = [a \in Accounts |-> NoDraft]
  /\ submission = [s \in Submissions |-> [draft |-> NoDraft, parts |-> 0, current |-> FALSE,
                                          stage |-> "new"]]
  /\ batch = [s \in Submissions |-> {}]
  /\ attempt = [m \in Messages |-> NoAttempt]
  /\ flights = {}
  /\ posted = {}
  /\ unsure = {}

-----------------------------------------------------------------------------
(* Saving. *)

\* flushDraft, of a draft d: a flush that runs is joined, what is not dirty
\* is not saved.
CanFlush(isDirty) == flush = NoFlush /\ isDirty /\ account # NoAccount

\* It is saved for the account of the status, whichever one typed it.
Astray == IF loadedFor = account THEN {} ELSE {loadedFor, account} \ {NoAccount}

FlushDraft(d, isDirty) ==
  /\ unsure' = IF CanFlush(isDirty) THEN unsure \cup Astray ELSE unsure
  /\ saveTimer' = FALSE
  /\ dirty' = (isDirty /\ ~CanFlush(isDirty))
  /\ flush' = IF CanFlush(isDirty)
              THEN [account |-> account, current |-> TRUE, draft |-> d]
              ELSE flush

MayUpdate == account # NoAccount /\ loadedFor = account /\ opened

\* updateDraft: the user types, or empties the composer.
UpdateDraft(t) ==
  /\ MayUpdate
  /\ draft.text # t
  /\ draft' = [of |-> account, text |-> t]
  /\ dirty' = TRUE
  /\ saveTimer' = TRUE
  /\ UNCHANGED <<connections, account, loadedFor, opened, flush, restoring, load, disk, submission,
                 batch, attempt, flights, posted, unsure>>

\* The timer, a change of channel, or flushAllDrafts.
SaveDraft ==
  /\ saveTimer
  /\ FlushDraft(draft, dirty)
  /\ UNCHANGED <<connections, account, loadedFor, opened, draft, restoring, load, disk, submission,
                 batch, attempt, flights, posted>>

\* The main process assigns its state once the file is written.  Its answers
\* come in the order it makes them: each is one step with what it answers.
Save ==
  disk' = [disk EXCEPT ![flush.account] = IF flush.draft.text = Blank THEN NoDraft ELSE flush.draft]

Overlapped == {flush.account} \cap {load}

\* The attempts of the submissions in set go out; those of a submission whose
\* text is durable form its batch.
SendAll(set) ==
  LET new == {m \in Messages : m[1] \in set /\ m[2] <= submission[m[1]].parts} IN
  /\ batch' = [s \in Submissions |-> IF s \in set THEN 1..submission[s].parts ELSE batch[s]]
  /\ attempt' = [m \in Messages |->
                   IF m \in new THEN [status |-> "sending", try |-> 1]
                   ELSE attempt[m]]
  /\ flights' = flights \cup {<<m, 1>> : m \in new}

Flushing == {s \in Submissions : submission[s].stage = "flushing"}

\* A submission that waited goes on when it is still of this lifecycle and its
\* channel is the active one.
GoOn ==
  LET ready == {s \in Flushing : submission[s].current /\ opened} IN
  /\ submission' = [s \in Submissions |->
       IF s \in ready THEN [submission[s] EXCEPT !.stage = "sent"]
       ELSE IF s \in Flushing THEN [submission[s] EXCEPT !.stage = "dropped"]
       ELSE submission[s]]
  /\ SendAll(ready)

SameFlush == flush.current /\ account = flush.account

\* The loop of flushDraft saves again what was typed meanwhile, unless the
\* lifecycle or the account has changed.
FlushAgain ==
  /\ flush # NoFlush
  /\ Save
  /\ SameFlush /\ dirty
  /\ dirty' = FALSE
  /\ flush' = [flush EXCEPT !.draft = draft]
  /\ unsure' = unsure \cup Overlapped \cup Astray
  /\ UNCHANGED <<connections, account, loadedFor, opened, draft, saveTimer, restoring, load,
                 submission, batch, attempt, flights, posted>>

\* A bug: what was typed during the save is taken for saved.
FlushEndsClean ==
  /\ flush # NoFlush
  /\ Save
  /\ flush' = NoFlush
  /\ dirty' = FALSE
  /\ restoring' = {}
  /\ unsure' = unsure \cup Overlapped
  /\ GoOn
  /\ UNCHANGED <<connections, account, loadedFor, opened, draft, saveTimer, load, posted>>

FlushEnds ==
  /\ flush # NoFlush
  /\ Save
  /\ ~(SameFlush /\ dirty)
  /\ flush' = NoFlush
  /\ saveTimer' = (saveTimer \/ (dirty /\ account # flush.account))
  /\ restoring' = {}
  /\ unsure' = unsure \cup Overlapped
  /\ GoOn
  /\ UNCHANGED <<connections, account, loadedFor, opened, draft, dirty, load, posted>>

\* Those who wait for it fail as well: a submission is not sent, the draft of
\* a confirmed batch comes back.
FlushFails ==
  LET restored == draft = NoDraft /\ restoring # {}
      dirtyNow == dirty \/ SameFlush IN
  /\ flush # NoFlush
  /\ flush' = NoFlush
  /\ saveTimer' = (saveTimer \/ (dirtyNow /\ account # flush.account))
  /\ dirty' = (dirtyNow \/ restored)
  /\ IF restored THEN draft' \in restoring ELSE UNCHANGED draft
  /\ restoring' = {}
  /\ submission' = [s \in Submissions |->
       IF s \in Flushing THEN [submission[s] EXCEPT !.stage = "dropped"] ELSE submission[s]]
  /\ unsure' = IF SameFlush THEN unsure ELSE unsure \cup {flush.account}
  /\ UNCHANGED <<connections, account, loadedFor, opened, load, disk, batch, attempt, flights, posted>>

-----------------------------------------------------------------------------
(* Accounts and loading. *)

\* The answer of a send whose attempt is gone changes nothing.
RemoveAttempts(set) ==
  /\ attempt' = [m \in Messages |-> IF m \in set THEN NoAttempt ELSE attempt[m]]
  /\ flights' = {f \in flights : f[1] \notin set}

\* clearProjection takes the attempts and their batches, clearDraftProjection
\* the drafts, whether saved or not.
ClearAttempts ==
  /\ RemoveAttempts(Messages)
  /\ batch' = [s \in Submissions |-> {}]

Replaced(a) == account # NoAccount /\ account # a

\* A status that names an account and is not "connected": the transport begins
\* to connect, or fails to.  Another account's drafts are cleared when the
\* status before it named that account, nothing is loaded.
Connecting(a) ==
  /\ connections < MaxConnections
  /\ connections' = connections + 1
  /\ account # a
  /\ account' = a
  /\ IF Replaced(a)
     THEN /\ loadedFor' = NoAccount /\ load' = NoAccount /\ opened' = FALSE
          /\ draft' = NoDraft /\ dirty' = FALSE /\ saveTimer' = FALSE
          /\ ClearAttempts
     ELSE UNCHANGED <<loadedFor, load, opened, draft, dirty, saveTimer, batch, attempt, flights>>
  /\ UNCHANGED <<flush, restoring, disk, submission, posted, unsure>>

\* The status "connected", of the account that was connecting or of another
\* one: the drafts are loaded, again when they are of this account already.
Connected(a) ==
  LET fresh == loadedFor # a \/ Replaced(a) IN
  /\ connections < MaxConnections
  /\ connections' = connections + 1
  /\ account' = a
  /\ loadedFor' = a
  /\ load' = a
  /\ opened' = (opened /\ ~Replaced(a))
  /\ draft' = IF fresh THEN NoDraft ELSE draft
  /\ dirty' = (dirty /\ ~fresh)
  /\ saveTimer' = (saveTimer /\ ~fresh)
  /\ batch' = IF fresh THEN [s \in Submissions |-> {}] ELSE batch
  /\ RemoveAttempts(IF Replaced(a) THEN Messages ELSE {})
  /\ UNCHANGED <<flush, restoring, disk, submission, posted, unsure>>

\* The network is lost: a status without an account.
Offline ==
  /\ account # NoAccount
  /\ account' = NoAccount
  /\ UNCHANGED <<connections, loadedFor, opened, draft, dirty, saveTimer, flush, restoring, load, disk,
                 submission, batch, attempt, flights, posted, unsure>>

\* The user logs out, or is logged out by another device.
LoggedOut ==
  /\ account # NoAccount
  /\ account' \in {account, NoAccount}
  /\ opened' = FALSE
  /\ ClearAttempts
  /\ UNCHANGED <<connections, loadedFor, draft, dirty, saveTimer, flush, restoring, load, disk,
                 submission, posted, unsure>>

SelectChannel ==
  /\ account # NoAccount
  /\ ~opened
  /\ opened' = TRUE
  /\ UNCHANGED <<connections, account, loadedFor, draft, dirty, saveTimer, flush, restoring, load, disk,
                 submission, batch, attempt, flights, posted, unsure>>

\* configure: another transport takes over, a flush of the old lifecycle runs on.
Configure ==
  /\ account' = NoAccount
  /\ loadedFor' = NoAccount
  /\ opened' = FALSE
  /\ draft' = NoDraft
  /\ dirty' = FALSE
  /\ saveTimer' = FALSE
  /\ flush' = IF flush = NoFlush THEN flush ELSE [flush EXCEPT !.current = FALSE]
  /\ load' = NoAccount
  /\ ClearAttempts
  /\ submission' = [s \in Submissions |-> [submission[s] EXCEPT !.current = FALSE]]
  /\ UNCHANGED <<connections, restoring, disk, posted, unsure>>

\* What was loaded replaces the draft, also one that was typed since.
Loaded ==
  /\ load # NoAccount
  /\ load' = NoAccount
  /\ IF account = load
     THEN /\ draft' = disk[load]
          /\ unsure' = IF dirty \/ flush # NoFlush THEN unsure \cup {load} ELSE unsure
     ELSE /\ unsure' = unsure \cup {load}
          /\ UNCHANGED draft
  /\ UNCHANGED <<connections, account, loadedFor, opened, dirty, saveTimer, flush, restoring, disk,
                 submission, batch, attempt, flights, posted>>

LoadFails ==
  /\ load # NoAccount
  /\ load' = NoAccount
  /\ unsure' = unsure \cup {load}
  /\ UNCHANGED <<connections, account, loadedFor, opened, draft, dirty, saveTimer, flush, restoring,
                 disk, submission, batch, attempt, flights, posted>>

-----------------------------------------------------------------------------
(* Sending. *)

Unresolved == \E s \in Submissions : batch[s] # {}

\* beginComposerSubmission, until its text is saved.
Submit(s, parts) ==
  /\ opened
  /\ ~Unresolved
  /\ draft.text # Blank
  /\ submission[s].stage = "new"
  /\ submission' = [submission EXCEPT ![s] = [draft |-> draft, parts |-> parts,
                                              current |-> TRUE, stage |-> "flushing"]]
  /\ draft' = IF MayUpdate THEN [draft EXCEPT !.of = account] ELSE draft
  /\ FlushDraft(draft', dirty \/ MayUpdate)
  /\ flush' # NoFlush
  /\ UNCHANGED <<connections, account, loadedFor, opened, restoring, load, disk, batch, attempt,
                 flights, posted>>

\* Without an account nothing is saved, and the attempts begin at once.
SubmitUnsaved(s, parts) ==
  /\ opened
  /\ ~Unresolved
  /\ draft.text # Blank
  /\ submission[s].stage = "new"
  /\ flush = NoFlush
  /\ ~CanFlush(dirty \/ MayUpdate)
  /\ saveTimer' = FALSE
  /\ LET sent == [submission EXCEPT ![s] = [draft |-> draft, parts |-> parts,
                                            current |-> TRUE, stage |-> "sent"]]
         new == {<<s, p>> : p \in 1..parts} IN
       /\ submission' = sent
       /\ batch' = [batch EXCEPT ![s] = 1..parts]
       /\ attempt' = [m \in Messages |->
                        IF m \in new THEN [status |-> "sending", try |-> 1]
                        ELSE attempt[m]]
       /\ flights' = flights \cup {<<m, 1>> : m \in new}
  /\ UNCHANGED <<connections, account, loadedFor, opened, draft, dirty, flush, restoring, load, disk,
                 posted, unsure>>

\* A bug: the first message that is confirmed stands for its batch.
LastIsAny(m) == m[2] \in batch[m[1]]

Last(m) == batch[m[1]] = {m[2]}

\* The attempt is done; the draft goes with the last message of its batch,
\* when it is still the text that was submitted.
Confirm(m) ==
  LET s == m[1]
      clears == Last(m) /\ draft.text = submission[s].draft.text /\ account # NoAccount IN
  /\ posted' = posted \cup {m}
  /\ RemoveAttempts({m})
  /\ batch' = [batch EXCEPT ![s] = @ \ {m[2]}]
  /\ \/ /\ clears
        /\ draft' = NoDraft
        /\ FlushDraft(NoDraft, TRUE)
        /\ restoring' = restoring \cup {draft}
     \/ /\ ~clears
        /\ UNCHANGED <<draft, dirty, saveTimer, flush, restoring, unsure>>

SendSucceeds(m, try) ==
  /\ <<m, try>> \in flights
  /\ Confirm(m)
  /\ UNCHANGED <<connections, account, loadedFor, opened, load, disk, submission>>

\* message.upserted with the reference of an attempt, whatever the store makes
\* of that attempt.
Upserted(m) ==
  /\ attempt[m].status # "none"
  /\ Confirm(m)
  /\ UNCHANGED <<connections, account, loadedFor, opened, load, disk, submission>>

\* A late failure changes neither a cancelled attempt nor one that was retried.
SendFails(m, try) ==
  /\ <<m, try>> \in flights
  /\ flights' = flights \ {<<m, try>>}
  /\ attempt' = [attempt EXCEPT ![m].status =
                   IF @ = "sending" /\ attempt[m].try = try THEN "ended" ELSE @]
  /\ UNCHANGED <<connections, account, loadedFor, opened, draft, dirty, saveTimer, flush, restoring, load,
                 disk, submission, batch, posted, unsure>>

\* Whether the provider's error allows it is left open.
RetryOutgoing(m) ==
  /\ attempt[m].status = "ended"
  /\ attempt[m].try < MaxTries
  /\ Cardinality({n \in Messages : attempt[n].try > 1} \ {m}) < MaxRetried
  /\ attempt' = [attempt EXCEPT ![m] = [status |-> "sending", try |-> attempt[m].try + 1]]
  /\ flights' = flights \cup {<<m, attempt[m].try + 1>>}
  /\ UNCHANGED <<connections, account, loadedFor, opened, draft, dirty, saveTimer, flush, restoring, load,
                 disk, submission, batch, posted, unsure>>

\* A cancellation that the provider refuses is a failure.
CancelOutgoing(m) ==
  /\ attempt[m].status = "sending"
  /\ attempt' = [attempt EXCEPT ![m].status = "ended"]
  /\ UNCHANGED <<connections, account, loadedFor, opened, draft, dirty, saveTimer, flush, restoring, load,
                 disk, submission, batch, flights, posted, unsure>>

\* The batch is given up with the attempt, the draft stays.
DismissOutgoing(m) ==
  /\ attempt[m].status = "ended"
  /\ RemoveAttempts({m})
  /\ batch' = [batch EXCEPT ![m[1]] = IF m[2] \in @ THEN {} ELSE @]
  /\ UNCHANGED <<connections, account, loadedFor, opened, draft, dirty, saveTimer, flush, restoring, load,
                 disk, submission, posted, unsure>>

ChannelDeleted ==
  /\ opened
  /\ opened' = FALSE
  /\ ClearAttempts
  /\ UNCHANGED <<connections, account, loadedFor, draft, dirty, saveTimer, flush, restoring, load, disk,
                 submission, posted, unsure>>

ComposerNext ==
  \/ SaveDraft \/ FlushAgain \/ FlushEnds \/ FlushFails
  \/ Offline \/ LoggedOut \/ SelectChannel \/ Configure \/ Loaded \/ LoadFails \/ ChannelDeleted
  \/ \E a \in Accounts : Connecting(a) \/ Connected(a)
  \/ \E t \in Texts \cup {Blank} : UpdateDraft(t)
  \/ \E s \in Submissions, parts \in Parts : Submit(s, parts) \/ SubmitUnsaved(s, parts)
  \/ \E m \in Messages :
       \/ Upserted(m) \/ RetryOutgoing(m) \/ CancelOutgoing(m) \/ DismissOutgoing(m)
       \/ \E try \in 1..MaxTries : SendSucceeds(m, try) \/ SendFails(m, try)

ComposerSpec == ComposerInit /\ [][ComposerNext]_composerVars

-----------------------------------------------------------------------------
(* Text that is shown as saved is saved: while the drafts of the connected    *)
(* account are loaded, a draft that is not dirty and is not being saved is    *)
(* what the catalog has, whoever typed, submitted, confirmed, failed or       *)
(* reconnected meanwhile. An account that connects or could not connect has   *)
(* no drafts loaded: the composer then shows nothing of its catalog.          *)
(* Not so once a load failed, came late or overlapped a change, a save failed *)
(* when its account was gone, or text was saved under another account:        *)
(* loadDrafts replaces the text, flushDraft forgets that it was not saved and *)
(* takes the account of the moment.                                           *)
CleanDraftIsSaved ==
  (account # NoAccount /\ loadedFor = account /\ load = NoAccount /\ ~dirty /\ flush = NoFlush
    /\ account \notin unsure)
    => disk[account].text = draft.text

Delivered(s) == \A p \in 1..submission[s].parts : <<s, p>> \in posted

(* The text of a submission stays in the catalog until every message of its   *)
(* batch is confirmed: only then, or when the user empties the composer, is a *)
(* draft removed, whatever is retried, cancelled, dismissed or lost on the    *)
(* way.                                                                       *)
UndeliveredTextIsKept ==
  [][\A a \in Accounts :
       (disk[a] # NoDraft /\ disk'[a] = NoDraft /\ a \notin unsure
          /\ flush.draft # [of |-> a, text |-> Blank])
         => \E s \in Submissions : submission[s].stage = "sent" /\ Delivered(s)]_composerVars
=============================================================================
