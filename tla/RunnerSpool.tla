----------------------------- MODULE RunnerSpool -----------------------------
(***************************************************************************)
(* How the events of a conversation get from a runner to Center: TeaRunner   *)
(* of packages/runner/src/runner.ts, without its commands. An event gets the *)
(* next sequence number, is written to a spool on disk, and is sent over the *)
(* current WebSocket if that is ready. A new connection replays the spool.   *)
(* Center acknowledges an event when it has stored it, and the               *)
(* acknowledgement removes the event's file.                                 *)
(*                                                                          *)
(* An action is what runs between two awaits. The replay of a connection     *)
(* goes on when the connection is lost, until it fails or ends, and may      *)
(* overlap the replay of the next one. The runner has one entry and one      *)
(* conversation; the spool is the directory of that conversation.            *)
(***************************************************************************)
EXTENDS Integers, FiniteSets

CONSTANTS
    MaxEvents,   \* bound: events of the conversation
    MaxWriting,  \* bound: events that are being written together
    Replays,     \* bound: replays that may be under way together
    NoReplay,    \* the current connection has no replay yet
    MaxFaults    \* bound: lost connections, refusals, disk errors and crashes

ASSUME NoReplayAssumption == NoReplay \notin Replays
ASSUME BoundAssumption == MaxEvents \in Nat /\ MaxWriting \in Nat /\ MaxFaults \in Nat

\* Events, in the order they are emitted. Each has its own messageId.
Events == 1..MaxEvents

VARIABLES
    disk,       \* events whose file is in the spool
    seqOf,      \* sequence of every event, in its envelope and file name
    emission,   \* where sendEvent stands, for every event
    working,    \* a command has been accepted since the process started
    lastSeq,    \* sequenceByConversation
    known,      \* keys of spoolByMessageId
    unlinking,  \* acknowledged events whose file is being removed
    link,       \* state of the connection: of connect, socket, socketReadyForEvents
    alive,      \* the transport of the current socket works
    registered, \* registrations has the entry
    blocked,    \* reconnectBlocked
    current,    \* the replay of the current connection
    replay,     \* every replaySpool that is under way
    wire,       \* events sent over the current socket and not yet received
    acks,       \* acknowledgements on their way to the runner
    stored,     \* events Center has stored
    ours,       \* history: events emitted by this process
    faults      \* faults so far

eventVars == <<disk, seqOf, emission>>
memoryVars == <<working, lastSeq, known, unlinking, ours>>
linkVars == <<link, alive, registered, blocked, current>>
networkVars == <<wire, acks, stored>>
vars == <<eventVars, memoryVars, linkVars, replay, networkVars, faults>>

\* "writing" until the file has its final name, "written" until sendEvent goes on,
\* "lost" if it never gets it.
Emissions == {"none", "writing", "written", "done", "lost"}
\* "greeting" while connect sends hello and attach frames, "attaching" while it
\* waits for the attachment, "attached" until it goes on, "ready" from then on.
Links == {"down", "opening", "greeting", "attaching", "attached", "ready"}
OpenLinks == Links \ {"down", "opening"}

IdleReplay == [stage |-> "off", files |-> {}, hand |-> {}]
Stages == {"off", "listing", "reading"}

Init ==
    /\ disk = {} /\ seqOf = [e \in Events |-> 0]
    /\ emission = [e \in Events |-> "none"]
    /\ working = FALSE /\ lastSeq = 0
    /\ known = {} /\ unlinking = {} /\ ours = {}
    /\ link = "down" /\ alive = FALSE /\ registered = FALSE /\ blocked = FALSE
    /\ current = NoReplay /\ replay = [r \in Replays |-> IdleReplay]
    /\ wire = {} /\ acks = {} /\ stored = {}
    /\ faults = 0

-----------------------------------------------------------------------------
(* The steps the handlers share. *)

Fault == faults < MaxFaults /\ faults' = faults + 1

\* send resolves; it throws if the socket is not open.
CanSend == link \in OpenLinks /\ alive

\* The socket closes: Center has received some of what was sent over it, and
\* some of the acknowledgements are still delivered.
CloseSocket ==
    /\ \E received \in SUBSET wire :
          /\ stored' = stored \union received
          /\ acks' \in SUBSET (acks \union received)
    /\ wire' = {}

FailConnection ==
    /\ link' = "down" /\ alive' = FALSE /\ current' = NoReplay
    /\ CloseSocket
    /\ UNCHANGED <<registered, blocked>>

\* Defect: a replay that fails ends without failing its connection.
ThrowSwallowed(r) ==
    /\ replay' = [replay EXCEPT ![r] = IdleReplay]
    /\ UNCHANGED <<linkVars, networkVars>>

\* replaySpool rejects: connect fails its own socket, if it is the current one.
Throw(r) ==
    /\ replay' = [replay EXCEPT ![r] = IdleReplay]
    /\ IF r = current THEN FailConnection ELSE UNCHANGED <<linkVars, networkVars>>

\* The replay goes on with the files it has not read.
Proceed(r, files) ==
    replay' = [replay EXCEPT ![r] =
        IF files = {} THEN IdleReplay ELSE [stage |-> "reading", files |-> files, hand |-> {}]]

\* The process ends. What is being written is lost; Center has received some of
\* what was sent. It is started again with an empty memory.
ProcessDies ==
    /\ emission' = [e \in Events |->
                      IF emission[e] = "writing" THEN "lost"
                      ELSE IF emission[e] = "written" THEN "done" ELSE emission[e]]
    /\ working' = FALSE /\ lastSeq' = 0
    /\ known' = {} /\ unlinking' = {} /\ ours' = {}
    /\ link' = "down" /\ alive' = FALSE /\ registered' = FALSE /\ blocked' = FALSE
    /\ current' = NoReplay /\ replay' = [r \in Replays |-> IdleReplay]
    /\ \E received \in SUBSET wire : stored' = stored \union received
    /\ wire' = {} /\ acks' = {}
    /\ UNCHANGED <<disk, seqOf>>

-----------------------------------------------------------------------------
(* The connection. *)

\* The reconnect timer, or start.
Connect ==
    /\ link = "down" /\ ~blocked
    /\ link' = "opening" /\ alive' = FALSE
    /\ UNCHANGED <<eventVars, memoryVars, registered, blocked, current, replay, networkVars, faults>>

OpenFails ==
    /\ link = "opening" /\ Fault
    /\ FailConnection
    /\ UNCHANGED <<eventVars, memoryVars, replay>>

Opened ==
    /\ link = "opening"
    /\ link' = "greeting" /\ alive' = TRUE
    /\ registered' = FALSE
    /\ UNCHANGED <<eventVars, memoryVars, blocked, current, replay, networkVars, faults>>

\* The frames are written, whether or not they arrive.
Greeted ==
    /\ link = "greeting"
    /\ link' = "attaching"
    /\ UNCHANGED <<eventVars, memoryVars, alive, registered, blocked, current, replay, networkVars, faults>>

\* A frame of the greeting cannot be sent, or the socket closes before connect
\* waits for the barrier: its promise is rejected and has no handler, which ends
\* the process.
GreetingFails ==
    /\ link = "greeting" /\ ~alive
    /\ ProcessDies
    /\ UNCHANGED faults

Attached ==
    /\ link = "attaching" /\ alive
    /\ link' = "attached" /\ registered' = TRUE
    /\ UNCHANGED <<eventVars, memoryVars, alive, blocked, current, replay, networkVars, faults>>

\* runner.error: the only attachment is refused, for now or for good.
AttachmentRefused(permanently) ==
    /\ link = "attaching" /\ alive /\ Fault
    /\ link' = "down" /\ alive' = FALSE
    /\ blocked' = permanently
    /\ CloseSocket
    /\ UNCHANGED <<eventVars, memoryVars, registered, current, replay>>

\* Defect: the spool is replayed only if the runner has no work under way.
BecomeReadyUnlessWorking(r) ==
    /\ link = "attached" /\ replay[r] = IdleReplay
    /\ link' = "ready" /\ current' = r
    /\ replay' = [replay EXCEPT ![r].stage = IF working THEN "off" ELSE "listing"]
    /\ UNCHANGED <<eventVars, memoryVars, alive, registered, blocked, networkVars, faults>>

BecomeReady(r) ==
    /\ link = "attached" /\ replay[r] = IdleReplay
    /\ link' = "ready" /\ current' = r
    /\ replay' = [replay EXCEPT ![r].stage = "listing"]
    /\ UNCHANGED <<eventVars, memoryVars, alive, registered, blocked, networkVars, faults>>

\* The transport breaks. The runner learns so later.
Disconnect ==
    /\ link \in OpenLinks /\ alive /\ Fault
    /\ alive' = FALSE
    /\ CloseSocket
    /\ UNCHANGED <<eventVars, memoryVars, link, registered, blocked, current, replay>>

HandleClose ==
    /\ link \in OpenLinks \ {"greeting"} /\ ~alive
    /\ link' = "down" /\ current' = NoReplay
    /\ UNCHANGED <<eventVars, memoryVars, alive, registered, blocked, replay, networkVars, faults>>

Crash ==
    /\ Fault
    /\ ProcessDies

-----------------------------------------------------------------------------
(* Events. *)

\* A command of the conversation is accepted.
AcceptCommand ==
    /\ link \in {"attached", "ready"} /\ alive /\ ~working
    /\ working' = TRUE
    /\ UNCHANGED <<eventVars, lastSeq, known, unlinking, ours, linkVars, replay, networkVars, faults>>

\* sendEvent until its first await. The executor chains its events, so that only
\* an update that arrives with the end of a prompt overlaps the prompt's own.
Emit(e) ==
    /\ working /\ emission[e] = "none"
    /\ \A d \in Events : d < e => emission[d] # "none"
    /\ Cardinality({d \in Events : emission[d] \in {"writing", "written"}}) < MaxWriting
    /\ lastSeq' = lastSeq + 1
    /\ seqOf' = [seqOf EXCEPT ![e] = lastSeq + 1]
    /\ emission' = [emission EXCEPT ![e] = "writing"]
    /\ ours' = ours \union {e}
    /\ UNCHANGED <<disk, working, known, unlinking, linkVars, replay, networkVars, faults>>

\* writeSpool: the file has its final name.
WriteDone(e) ==
    /\ emission[e] = "writing"
    /\ emission' = [emission EXCEPT ![e] = "written"]
    /\ disk' = disk \union {e}
    /\ UNCHANGED <<seqOf, memoryVars, linkVars, replay, networkVars, faults>>

\* An error other than a full disk, for which writeSpool waits.
WriteFails(e) ==
    /\ emission[e] = "writing" /\ Fault
    /\ emission' = [emission EXCEPT ![e] = "lost"]
    /\ UNCHANGED <<disk, seqOf, memoryVars, linkVars, replay, networkVars>>

\* Defect: an event that has been sent needs no file.
UnlinkWhenSent(e) ==
    /\ emission[e] = "written"
    /\ emission' = [emission EXCEPT ![e] = "done"]
    /\ IF link = "ready" /\ CanSend
       THEN wire' = wire \union {e} /\ disk' = disk \ {e} /\ UNCHANGED known
       ELSE known' = known \union {e} /\ UNCHANGED <<wire, disk>>
    /\ UNCHANGED <<seqOf, working, lastSeq, unlinking, ours, linkVars, replay, acks, stored, faults>>

\* sendEvent after writeSpool.
Spooled(e) ==
    /\ emission[e] = "written"
    /\ emission' = [emission EXCEPT ![e] = "done"]
    /\ known' = known \union {e}
    /\ wire' = IF link = "ready" /\ CanSend THEN wire \union {e} ELSE wire
    /\ UNCHANGED <<disk, seqOf, working, lastSeq, unlinking, ours, linkVars, replay, acks, stored, faults>>

\* runner.event.ack until its await.
HandleAck(e) ==
    /\ e \in acks
    /\ acks' = acks \ {e}
    /\ known' = known \ {e}
    /\ unlinking' = IF e \in known THEN unlinking \union {e} ELSE unlinking
    /\ UNCHANGED <<eventVars, working, lastSeq, ours, linkVars, replay, wire, stored, faults>>

\* unlink removes the file, or fails, which is ignored.
Unlink(e) ==
    /\ e \in unlinking
    /\ unlinking' = unlinking \ {e}
    /\ \/ disk' = disk \ {e} /\ UNCHANGED faults
       \/ Fault /\ UNCHANGED disk
    /\ UNCHANGED <<seqOf, emission, working, lastSeq, known, ours, linkVars, replay, networkVars>>

-----------------------------------------------------------------------------
(* Replaying the spool. *)

\* sendResume fails.
ResumeFails(r) ==
    /\ replay[r].stage = "listing" /\ ~(r = current /\ CanSend)
    /\ Throw(r)
    /\ UNCHANGED <<eventVars, memoryVars, faults>>

\* readdir of the conversation's directory.
ListSpool(r) ==
    /\ replay[r].stage = "listing"
    /\ Proceed(r, disk)
    /\ UNCHANGED <<eventVars, memoryVars, linkVars, networkVars, faults>>

\* readFile of the next file, by name. It fails if the file is gone.
ReadFile(r) ==
    /\ replay[r].stage = "reading" /\ replay[r].hand = {}
    /\ \E e \in replay[r].files :
          /\ \A d \in replay[r].files : seqOf[e] <= seqOf[d]
          /\ IF e \in disk
             THEN /\ replay' = [replay EXCEPT ![r].hand = {e}, ![r].files = @ \ {e}]
                  /\ UNCHANGED <<linkVars, networkVars>>
             ELSE Throw(r)
    /\ UNCHANGED <<eventVars, memoryVars, faults>>

\* Defect: the sequence continues from the event replayed last.
RestoredWithoutMax(e) == seqOf[e]

Restored(e) == IF seqOf[e] > lastSeq THEN seqOf[e] ELSE lastSeq

\* The rest of the loop's body, and the send of the event.
SendReplayed(r) ==
    /\ \E e \in replay[r].hand :
          IF ~registered
          THEN /\ Proceed(r, replay[r].files)
               /\ UNCHANGED <<lastSeq, known, linkVars, networkVars>>
          ELSE /\ lastSeq' = Restored(e)
               /\ known' = known \union {e}
               /\ IF CanSend
                  THEN /\ Proceed(r, replay[r].files)
                       /\ wire' = wire \union {e}
                       /\ UNCHANGED <<linkVars, acks, stored>>
                  ELSE Throw(r)
    /\ UNCHANGED <<eventVars, working, unlinking, ours, faults>>

-----------------------------------------------------------------------------
(* Center. *)

\* Center persists an event before it acknowledges it. It acknowledges an event
\* that it receives again.
CenterStores(e) ==
    /\ e \in wire
    /\ wire' = wire \ {e}
    /\ stored' = stored \union {e}
    /\ acks' = acks \union {e}
    /\ UNCHANGED <<eventVars, memoryVars, linkVars, replay, faults>>

-----------------------------------------------------------------------------

Connection ==
    \/ Connect \/ OpenFails \/ Opened \/ Greeted \/ GreetingFails \/ Attached
    \/ \E permanently \in BOOLEAN : AttachmentRefused(permanently)
    \/ \E r \in Replays : BecomeReady(r)
    \/ Disconnect \/ HandleClose \/ Crash
SendEvent(e) == Emit(e) \/ WriteDone(e) \/ WriteFails(e) \/ Spooled(e) \/ HandleAck(e) \/ Unlink(e)
ReplaySpool(r) == ResumeFails(r) \/ ListSpool(r) \/ ReadFile(r) \/ SendReplayed(r)

Next ==
    \/ Connection
    \/ AcceptCommand
    \/ \E e \in Events : SendEvent(e) \/ CenterStores(e)
    \/ \E r \in Replays : ReplaySpool(r)

Spec == Init /\ [][Next]_vars

\* The runner goes on with what it has begun, sockets open and Center attaches,
\* receives and answers, except where a fault intervenes.
FairSpec ==
    /\ Spec
    /\ WF_vars(Connect) /\ WF_vars(Opened) /\ WF_vars(Greeted) /\ WF_vars(GreetingFails)
    /\ WF_vars(Attached) /\ WF_vars(\E r \in Replays : BecomeReady(r)) /\ WF_vars(HandleClose)
    /\ \A e \in Events : WF_vars(Spooled(e)) /\ WF_vars(CenterStores(e))
    /\ \A r \in Replays : WF_vars(ReplaySpool(r))

-----------------------------------------------------------------------------
(* Properties. *)

\* The values the variables take.
TypeOK ==
    /\ disk \in SUBSET Events /\ seqOf \in [Events -> 0..MaxEvents]
    /\ emission \in [Events -> Emissions]
    /\ working \in BOOLEAN /\ lastSeq \in 0..MaxEvents
    /\ known \in SUBSET Events /\ unlinking \in SUBSET Events /\ ours \in SUBSET Events
    /\ link \in Links /\ alive \in BOOLEAN /\ registered \in BOOLEAN /\ blocked \in BOOLEAN
    /\ current \in Replays \union {NoReplay}
    /\ replay \in [Replays -> [stage : Stages, files : SUBSET Events, hand : SUBSET Events]]
    /\ wire \in SUBSET Events /\ acks \in SUBSET Events /\ stored \in SUBSET Events
    /\ faults \in 0..MaxFaults

\* Events the current connection has not considered yet: its replay will.
StillToReplay ==
    IF current = NoReplay THEN {}
    ELSE IF replay[current].stage = "listing" THEN disk
    ELSE replay[current].files \union replay[current].hand

\* While a connection is ready and works, every spooled event is stored, on its
\* way over that connection, or still to be considered by its replay or by the
\* sendEvent that wrote it. No event falls between the check of
\* socketReadyForEvents in sendEvent and the listing of the spool by replaySpool,
\* and none is skipped when a file vanishes during the replay.
ReadyConnectionLeavesNothing ==
    link = "ready" /\ alive =>
        \A e \in disk : \/ emission[e] = "written"
                        \/ e \in stored \union wire \union StillToReplay

\* Sequence numbers grow with every event of a process, over all its connections,
\* and once a connection has replayed the spool the next one is greater than any
\* in the spool, those of earlier processes included.
SequencesContinue ==
    /\ \A d, e \in ours : d < e => seqOf[d] < seqOf[e]
    /\ link = "ready" /\ alive /\ StillToReplay = {} => \A e \in disk : seqOf[e] <= lastSeq

Outbox == INSTANCE EventOutbox WITH kept <- disk \union stored
\* An event whose file has been written is never lost, whatever fails: its file
\* is removed only when Center has stored it (runner.event.ack, writeSpool).
ImplementsOutbox == Outbox!Spec

\* Every spooled event is stored in the end, unless Center refuses the runner for
\* good: a replay that fails is tried again on the next connection.
EventsReachCenter ==
    \A e \in Events : (e \in disk) ~> (e \in stored \/ blocked)

\* "When the WebSocket disconnects, active ACP tasks continue locally"
\* (packages/runner/README.md): only a crash ends them.
DisconnectKeepsWork == [][working /\ ~working' => Crash]_vars
=============================================================================
