-------------------------- MODULE RunnerSpoolProofs --------------------------
(***************************************************************************)
(* Proofs about RunnerSpool: no event that was written to the spool is lost, *)
(* a ready connection leaves none behind, and sequence numbers continue,     *)
(* for every number of events, overlapping writes and replays, and faults.   *)
(*                                                                          *)
(* The invariant has a part for the connection, one for the events that are  *)
(* kept, one for the replays and one for the sequence numbers.               *)
(***************************************************************************)
EXTENDS RunnerSpool, TLAPS

(* A connection has a replay exactly while it is ready; it is then attached. *)
LinkInv ==
    /\ link = "ready" <=> current # NoReplay
    /\ link \in {"attached", "ready"} => registered
    /\ alive => link \in OpenLinks

Kept == disk \union stored

(* What is on its way, or about to be unlinked, has been kept. *)
KeptInv ==
    /\ \A e \in Events : e \in Kept <=> emission[e] \in {"written", "done"}
    /\ wire \subseteq Kept
    /\ acks \subseteq stored
    /\ unlinking \subseteq stored

(* A replay holds kept events, at most one of them in its hand. *)
ReplayInv ==
    \A r \in Replays :
        /\ replay[r].files \subseteq Kept /\ replay[r].hand \subseteq Kept
        /\ \A d, e \in replay[r].hand : d = e
        /\ replay[r].hand # {} => replay[r].stage = "reading"

(* Events are numbered in order. The events of this process are the newest,  *)
(* and lastSeq is not below any number of theirs.                            *)
SeqInv ==
    /\ \A d, e \in Events : d < e /\ emission[d] = "none" => emission[e] = "none"
    /\ \A e \in Events : seqOf[e] <= e
    /\ \A e \in Events : emission[e] = "none" => lastSeq < e
    /\ \A e \in Events : emission[e] \in {"writing", "written"} => e \in ours
    /\ \A e \in ours : emission[e] # "none" /\ seqOf[e] <= lastSeq
    /\ \A d, e \in ours : d < e => seqOf[d] < seqOf[e]
    /\ link = "ready" => \A e \in disk : seqOf[e] <= lastSeq \/ e \in StillToReplay

Inv == TypeOK /\ LinkInv /\ KeptInv /\ ReplayInv /\ SeqInv /\ ReadyConnectionLeavesNothing

-----------------------------------------------------------------------------
(* The shared steps. *)

LEMMA IdleReplayTyped == IdleReplay \in [stage : Stages, files : SUBSET Events, hand : SUBSET Events]
  BY DEF IdleReplay, Stages

LEMMA ProceedResult ==
  ASSUME TypeOK, NEW r \in Replays, NEW files \in SUBSET Events, Proceed(r, files)
  PROVE  /\ replay' \in [Replays -> [stage : Stages, files : SUBSET Events, hand : SUBSET Events]]
         /\ replay'[r].stage # "listing" /\ replay'[r].files = files /\ replay'[r].hand = {}
         /\ \A q \in Replays : q # r => replay'[q] = replay[q]
<1>1. CASE files = {}
  BY <1>1, IdleReplayTyped DEF Proceed, TypeOK, IdleReplay
<1>2. CASE files # {}
  BY <1>2 DEF Proceed, TypeOK, Stages
<1> QED BY <1>1, <1>2

LEMMA CloseSocketResult ==
  ASSUME TypeOK, CloseSocket
  PROVE  /\ stored' \in SUBSET Events /\ acks' \in SUBSET Events /\ wire' = {}
         /\ stored \subseteq stored' /\ stored' \subseteq stored \union wire
         /\ acks' \subseteq acks \union stored'
  BY DEF TypeOK, CloseSocket

LEMMA ThrowResult ==
  ASSUME TypeOK, NEW r \in Replays, Throw(r)
  PROVE  /\ replay' \in [Replays -> [stage : Stages, files : SUBSET Events, hand : SUBSET Events]]
         /\ replay'[r] = IdleReplay
         /\ \A q \in Replays : q # r => replay'[q] = replay[q]
         /\ \/ r = current /\ FailConnection
            \/ r # current /\ UNCHANGED <<linkVars, networkVars>>
  BY IdleReplayTyped DEF Throw, TypeOK

-----------------------------------------------------------------------------
(* Each part of the invariant is preserved. *)

LEMMA InitInv == Init => Inv
<1> SUFFICES ASSUME Init PROVE Inv
  OBVIOUS
<1>1. TypeOK
  <2>1. replay \in [Replays -> [stage : Stages, files : SUBSET Events, hand : SUBSET Events]]
    BY IdleReplayTyped DEF Init
  <2>2. seqOf \in [Events -> 0..MaxEvents] /\ emission \in [Events -> Emissions]
    BY BoundAssumption DEF Init, Emissions
  <2>3. link \in Links /\ lastSeq \in 0..MaxEvents /\ faults \in 0..MaxFaults
    BY BoundAssumption DEF Init, Links
  <2>4. disk \in SUBSET Events /\ known \in SUBSET Events /\ unlinking \in SUBSET Events
        /\ ours \in SUBSET Events /\ wire \in SUBSET Events /\ acks \in SUBSET Events
        /\ stored \in SUBSET Events
    BY DEF Init
  <2>5. working \in BOOLEAN /\ alive \in BOOLEAN /\ registered \in BOOLEAN /\ blocked \in BOOLEAN
        /\ current \in Replays \union {NoReplay}
    BY DEF Init
  <2> QED BY <2>1, <2>2, <2>3, <2>4, <2>5 DEF TypeOK
<1>2. LinkInv /\ KeptInv /\ ReadyConnectionLeavesNothing
  BY DEF Init, LinkInv, KeptInv, Kept, ReadyConnectionLeavesNothing
<1>3. ReplayInv
  BY DEF Init, ReplayInv, IdleReplay
<1>4. SeqInv
  BY DEF Init, SeqInv, Events
<1> QED BY <1>1, <1>2, <1>3, <1>4 DEF Inv

LEMMA TypePreserved ==
  ASSUME Inv, [Next]_vars
  PROVE  TypeOK'
<1>0. ASSUME CloseSocket
      PROVE  stored' \in SUBSET Events /\ acks' \in SUBSET Events /\ wire' \in SUBSET Events
  BY <1>0, CloseSocketResult DEF Inv
<1>a. ASSUME Fault PROVE faults' \in 0..MaxFaults
  BY <1>a, BoundAssumption DEF Fault, Inv, TypeOK
<1> USE DEF Inv, TypeOK, eventVars, memoryVars, linkVars, networkVars
<1> USE BoundAssumption
<1>1. CASE Connect BY <1>1 DEF Connect, Links
<1>2. CASE OpenFails BY <1>0, <1>a, <1>2 DEF OpenFails, FailConnection, Links
<1>3. CASE Opened BY <1>3 DEF Opened, Links
<1>4. CASE Greeted BY <1>4 DEF Greeted, Links
<1>5. ASSUME ProcessDies, faults' \in 0..MaxFaults PROVE TypeOK'
  <2>1. replay' \in [Replays -> [stage : Stages, files : SUBSET Events, hand : SUBSET Events]]
    BY <1>5, IdleReplayTyped DEF ProcessDies
  <2>2. emission' \in [Events -> Emissions]
    BY <1>5 DEF ProcessDies, Emissions
  <2>3. stored' \in SUBSET Events
    BY <1>5 DEF ProcessDies
  <2>4. disk' \in SUBSET Events /\ known' \in SUBSET Events /\ unlinking' \in SUBSET Events
        /\ ours' \in SUBSET Events /\ wire' \in SUBSET Events /\ acks' \in SUBSET Events
    BY <1>5 DEF ProcessDies
  <2>5. working' \in BOOLEAN /\ alive' \in BOOLEAN /\ registered' \in BOOLEAN /\ blocked' \in BOOLEAN
        /\ current' \in Replays \union {NoReplay} /\ link' \in Links
    BY <1>5 DEF ProcessDies, Links
  <2>6. seqOf' \in [Events -> 0..MaxEvents] /\ lastSeq' \in 0..MaxEvents
    BY <1>5 DEF ProcessDies
  <2> QED BY <1>5, <2>1, <2>2, <2>3, <2>4, <2>5, <2>6
<1>6. CASE GreetingFails BY <1>5, <1>6 DEF GreetingFails
<1>7. CASE Attached BY <1>7 DEF Attached, Links
<1>8. ASSUME NEW permanently \in BOOLEAN, AttachmentRefused(permanently) PROVE TypeOK'
  BY <1>0, <1>a, <1>8 DEF AttachmentRefused, Links
<1>9. ASSUME NEW r \in Replays, BecomeReady(r) PROVE TypeOK'
  BY <1>9 DEF BecomeReady, Links, Stages
<1>10. CASE Disconnect BY <1>0, <1>a, <1>10 DEF Disconnect
<1>11. CASE HandleClose BY <1>11 DEF HandleClose, Links
<1>12. CASE Crash BY <1>5, <1>12 DEF Crash, Fault
<1>13. CASE AcceptCommand BY <1>13 DEF AcceptCommand
<1>14. ASSUME NEW e \in Events, Emit(e) PROVE TypeOK'
  <2>1. lastSeq + 1 \in 0..MaxEvents
    BY <1>14 DEF Emit, SeqInv, Events
  <2> QED BY <1>14, <2>1 DEF Emit, Emissions
<1>15. ASSUME NEW e \in Events, WriteDone(e) PROVE TypeOK'
  BY <1>15 DEF WriteDone, Emissions
<1>16. ASSUME NEW e \in Events, WriteFails(e) PROVE TypeOK'
  BY <1>16 DEF WriteFails, Emissions, Fault
<1>17. ASSUME NEW e \in Events, Spooled(e) PROVE TypeOK'
  BY <1>17 DEF Spooled, Emissions
<1>18. ASSUME NEW e \in Events, HandleAck(e) PROVE TypeOK'
  BY <1>18 DEF HandleAck
<1>19. ASSUME NEW e \in Events, Unlink(e) PROVE TypeOK'
  BY <1>19 DEF Unlink, Fault
<1>20. ASSUME NEW e \in Events, CenterStores(e) PROVE TypeOK'
  BY <1>20 DEF CenterStores
<1>21. ASSUME NEW r \in Replays, Throw(r), UNCHANGED <<eventVars, working, unlinking, ours, faults>>,
              lastSeq' \in 0..MaxEvents, known' \in SUBSET Events
       PROVE TypeOK'
  BY <1>0, <1>21, ThrowResult DEF FailConnection, Links
<1>22. ASSUME NEW r \in Replays, ResumeFails(r) PROVE TypeOK'
  BY <1>21, <1>22 DEF ResumeFails
<1>23. ASSUME NEW r \in Replays, ListSpool(r) PROVE TypeOK'
  BY <1>23, ProceedResult DEF ListSpool
<1>24. ASSUME NEW r \in Replays, ReadFile(r) PROVE TypeOK'
  <2>1. PICK e \in replay[r].files :
           IF e \in disk
           THEN /\ replay' = [replay EXCEPT ![r].hand = {e}, ![r].files = @ \ {e}]
                /\ UNCHANGED <<linkVars, networkVars>>
           ELSE Throw(r)
    BY <1>24 DEF ReadFile
  <2>2. CASE e \in disk BY <1>24, <2>1, <2>2 DEF ReadFile
  <2>3. CASE e \notin disk BY <1>21, <1>24, <2>1, <2>3 DEF ReadFile
  <2> QED BY <2>2, <2>3
<1>25. ASSUME NEW r \in Replays, SendReplayed(r) PROVE TypeOK'
  <2>1. PICK e \in replay[r].hand :
          IF ~registered
          THEN /\ Proceed(r, replay[r].files)
               /\ UNCHANGED <<lastSeq, known, linkVars, networkVars>>
          ELSE /\ lastSeq' = Restored(e)
               /\ known' = known \union {e}
               /\ IF CanSend
                  THEN /\ Proceed(r, replay[r].files)
                       /\ wire' = wire \union {e}
                       /\ UNCHANGED <<linkVars, acks, stored>>
                  ELSE Throw(r)
    BY <1>25 DEF SendReplayed
  <2>2. e \in Events /\ replay[r].files \in SUBSET Events /\ Restored(e) \in 0..MaxEvents
    BY <2>1 DEF Restored
  <2>3. CASE ~registered
    BY <1>25, <2>1, <2>2, <2>3, ProceedResult DEF SendReplayed
  <2>4. CASE registered /\ CanSend
    BY <1>25, <2>1, <2>2, <2>4, ProceedResult DEF SendReplayed
  <2>5. CASE registered /\ ~CanSend
    <3>1. lastSeq' \in 0..MaxEvents /\ known' \in SUBSET Events /\ Throw(r)
      BY <2>1, <2>2, <2>5
    <3> QED BY <1>21, <1>25, <3>1 DEF SendReplayed
  <2> QED BY <2>3, <2>4, <2>5
<1>26. CASE UNCHANGED vars BY <1>26 DEF vars
<1> QED
  BY <1>1, <1>2, <1>3, <1>4, <1>6, <1>7, <1>8, <1>9, <1>10, <1>11, <1>12, <1>13, <1>14, <1>15, <1>16,
     <1>17, <1>18, <1>19, <1>20, <1>22, <1>23, <1>24, <1>25, <1>26
     DEF Next, Connection, SendEvent, ReplaySpool

LEMMA LinkPreserved ==
  ASSUME Inv, [Next]_vars
  PROVE  LinkInv'
<1> USE DEF Inv, TypeOK, LinkInv, linkVars
<1> USE NoReplayAssumption
<1>1. CASE Connect BY <1>1 DEF Connect, OpenLinks, Links
<1>2. CASE OpenFails BY <1>2 DEF OpenFails, FailConnection, OpenLinks, Links
<1>3. CASE Opened BY <1>3 DEF Opened, OpenLinks, Links
<1>4. CASE Greeted BY <1>4 DEF Greeted, OpenLinks, Links
<1>5. CASE GreetingFails BY <1>5 DEF GreetingFails, ProcessDies
<1>6. CASE Attached BY <1>6 DEF Attached, OpenLinks, Links
<1>7. ASSUME NEW permanently \in BOOLEAN, AttachmentRefused(permanently) PROVE LinkInv'
  BY <1>7 DEF AttachmentRefused
<1>8. ASSUME NEW r \in Replays, BecomeReady(r) PROVE LinkInv'
  BY <1>8 DEF BecomeReady, OpenLinks, Links
<1>9. CASE Disconnect BY <1>9 DEF Disconnect
<1>10. CASE HandleClose BY <1>10 DEF HandleClose
<1>11. CASE Crash BY <1>11 DEF Crash, ProcessDies
<1>12. CASE UNCHANGED linkVars BY <1>12
<1>13. ASSUME NEW r \in Replays, ReplaySpool(r), ~UNCHANGED linkVars PROVE LinkInv'
  <2>1. Throw(r) /\ FailConnection
    BY <1>13 DEF ReplaySpool, ResumeFails, ListSpool, ReadFile, SendReplayed, Throw
  <2> QED BY <2>1 DEF FailConnection
<1>14. CASE AcceptCommand \/ \E e \in Events : SendEvent(e) \/ CenterStores(e)
  BY <1>12, <1>14 DEF AcceptCommand, SendEvent, Emit, WriteDone, WriteFails, Spooled, HandleAck, Unlink, CenterStores
<1> QED
  BY <1>1, <1>2, <1>3, <1>4, <1>5, <1>6, <1>7, <1>8, <1>9, <1>10, <1>11, <1>12, <1>13, <1>14
     DEF Next, Connection, vars

(* A step keeps what was kept, and stores only what was kept. *)
KeptStep == Kept \subseteq Kept' /\ stored \subseteq stored' /\ stored' \subseteq Kept

LEMMA KeptPreserved ==
  ASSUME Inv, [Next]_vars
  PROVE  KeptInv' /\ KeptStep
<1>0. ASSUME CloseSocket, UNCHANGED <<disk, emission, unlinking>> PROVE KeptInv' /\ KeptStep
  <2>1. /\ wire' = {} /\ stored \subseteq stored' /\ stored' \subseteq stored \union wire
        /\ acks' \subseteq acks \union stored'
    BY <1>0, CloseSocketResult DEF Inv
  <2> QED BY <1>0, <2>1 DEF Inv, TypeOK, KeptInv, Kept, KeptStep
<1> USE DEF Inv, TypeOK, KeptInv, Kept, KeptStep, eventVars, memoryVars, networkVars
<1>1. CASE UNCHANGED <<disk, emission, unlinking, networkVars>> BY <1>1
<1>2. CASE OpenFails BY <1>0, <1>2 DEF OpenFails, FailConnection
<1>3. ASSUME ProcessDies PROVE KeptInv' /\ KeptStep
  <2>1. PICK received \in SUBSET wire : stored' = stored \union received
    BY <1>3 DEF ProcessDies
  <2>2. \A e \in Events : emission'[e] \in {"written", "done"} <=> emission[e] \in {"written", "done"}
    BY <1>3 DEF ProcessDies
  <2>3. Kept' = Kept
    BY <1>3, <2>1 DEF ProcessDies
  <2> QED BY <1>3, <2>1, <2>2, <2>3 DEF ProcessDies
<1>4. CASE GreetingFails \/ Crash BY <1>3, <1>4 DEF GreetingFails, Crash
<1>5. ASSUME NEW permanently \in BOOLEAN, AttachmentRefused(permanently) PROVE KeptInv' /\ KeptStep
  BY <1>0, <1>5 DEF AttachmentRefused
<1>6. CASE Disconnect BY <1>0, <1>6 DEF Disconnect
<1>7. CASE Connect \/ Opened \/ Greeted \/ Attached \/ HandleClose \/ AcceptCommand
  BY <1>1, <1>7 DEF Connect, Opened, Greeted, Attached, HandleClose, AcceptCommand
<1>8. ASSUME NEW r \in Replays, BecomeReady(r) PROVE KeptInv' /\ KeptStep
  BY <1>1, <1>8 DEF BecomeReady
<1>9. ASSUME NEW e \in Events, Emit(e) PROVE KeptInv' /\ KeptStep
  BY <1>9 DEF Emit
<1>10. ASSUME NEW e \in Events, WriteDone(e) PROVE KeptInv' /\ KeptStep
  BY <1>10 DEF WriteDone
<1>11. ASSUME NEW e \in Events, WriteFails(e) PROVE KeptInv' /\ KeptStep
  BY <1>11 DEF WriteFails
<1>12. ASSUME NEW e \in Events, Spooled(e) PROVE KeptInv' /\ KeptStep
  BY <1>12 DEF Spooled
<1>13. ASSUME NEW e \in Events, HandleAck(e) PROVE KeptInv' /\ KeptStep
  BY <1>13 DEF HandleAck
<1>14. ASSUME NEW e \in Events, Unlink(e) PROVE KeptInv' /\ KeptStep
  BY <1>14 DEF Unlink
<1>15. ASSUME NEW e \in Events, CenterStores(e) PROVE KeptInv' /\ KeptStep
  BY <1>15 DEF CenterStores
<1>16. ASSUME NEW r \in Replays, Throw(r), UNCHANGED <<disk, emission, unlinking>> PROVE KeptInv' /\ KeptStep
  BY <1>0, <1>1, <1>16 DEF Throw, FailConnection
<1>17. ASSUME NEW r \in Replays, ReplaySpool(r) PROVE KeptInv' /\ KeptStep
  <2>1. CASE UNCHANGED networkVars
    BY <1>1, <1>17, <2>1 DEF ReplaySpool, ResumeFails, ListSpool, ReadFile, SendReplayed
  <2>2. CASE Throw(r)
    BY <1>16, <1>17, <2>2 DEF ReplaySpool, ResumeFails, ListSpool, ReadFile, SendReplayed
  <2>3. ASSUME NEW e \in replay[r].hand, wire' = wire \union {e}, UNCHANGED <<acks, stored>>
        PROVE KeptInv' /\ KeptStep
    <3>1. UNCHANGED <<disk, emission, unlinking>>
      BY <1>17 DEF ReplaySpool, ResumeFails, ListSpool, ReadFile, SendReplayed
    <3>2. e \in Kept
      BY <2>3 DEF ReplayInv
    <3> QED BY <2>3, <3>1, <3>2
  <2> QED
    BY <1>17, <2>1, <2>2, <2>3 DEF ReplaySpool, ResumeFails, ListSpool, ReadFile, SendReplayed
<1>18. CASE UNCHANGED vars BY <1>1, <1>18 DEF vars
<1> QED
  BY <1>2, <1>4, <1>5, <1>6, <1>7, <1>8, <1>9, <1>10, <1>11, <1>12, <1>13, <1>14, <1>15, <1>17, <1>18
     DEF Next, Connection, SendEvent

LEMMA ReplayPreserved ==
  ASSUME Inv, [Next]_vars
  PROVE  ReplayInv'
<1>1. Kept \subseteq Kept'
  BY KeptPreserved DEF KeptStep
<1>2. disk \subseteq Kept
  BY DEF Kept
<1>3. CASE UNCHANGED replay
  BY <1>1, <1>3 DEF Inv, ReplayInv
<1>4. CASE GreetingFails \/ Crash
  BY <1>4 DEF GreetingFails, Crash, ProcessDies, ReplayInv, IdleReplay
<1>5. ASSUME NEW r \in Replays, BecomeReady(r) PROVE ReplayInv'
  BY <1>1, <1>5 DEF BecomeReady, Inv, TypeOK, ReplayInv, IdleReplay
<1>6. ASSUME NEW r \in Replays, replay'[r].files \subseteq Kept, replay'[r].hand \subseteq Kept,
             \A d, e \in replay'[r].hand : d = e,
             replay'[r].hand # {} => replay'[r].stage = "reading",
             \A q \in Replays : q # r => replay'[q] = replay[q]
      PROVE  ReplayInv'
  BY <1>1, <1>6 DEF Inv, ReplayInv
<1>7. ASSUME NEW r \in Replays, Throw(r) PROVE ReplayInv'
  BY <1>6, <1>7, ThrowResult DEF IdleReplay, Inv
<1>8. ASSUME NEW r \in Replays, NEW files \in SUBSET Events, files \subseteq Kept, Proceed(r, files)
      PROVE  ReplayInv'
  BY <1>6, <1>8, ProceedResult DEF Inv
<1>9. ASSUME NEW r \in Replays, ReplaySpool(r) PROVE ReplayInv'
  <2>1. replay[r].files \in SUBSET Events /\ replay[r].files \subseteq Kept /\ disk \in SUBSET Events
    BY DEF Inv, TypeOK, ReplayInv
  <2>2. CASE ResumeFails(r)
    BY <1>7, <2>2 DEF ResumeFails
  <2>3. CASE ListSpool(r)
    BY <1>2, <1>8, <2>1, <2>3 DEF ListSpool
  <2>4. ASSUME NEW e \in replay[r].files, e \in disk,
               replay[r].stage = "reading",
               replay' = [replay EXCEPT ![r].hand = {e}, ![r].files = @ \ {e}]
        PROVE  ReplayInv'
    BY <1>2, <1>6, <2>1, <2>4 DEF Inv, TypeOK
  <2>5. CASE ReadFile(r)
    BY <1>7, <2>4, <2>5 DEF ReadFile
  <2>6. CASE SendReplayed(r)
    BY <1>7, <1>8, <2>1, <2>6 DEF SendReplayed
  <2> QED BY <1>9, <2>2, <2>3, <2>5, <2>6 DEF ReplaySpool
<1>10. CASE \/ Connect \/ OpenFails \/ Opened \/ Greeted \/ Attached \/ Disconnect \/ HandleClose
            \/ \E permanently \in BOOLEAN : AttachmentRefused(permanently)
            \/ AcceptCommand \/ \E e \in Events : SendEvent(e) \/ CenterStores(e)
            \/ UNCHANGED vars
  BY <1>3, <1>10 DEF Connect, OpenFails, Opened, Greeted, Attached, Disconnect, HandleClose, AttachmentRefused,
     AcceptCommand, SendEvent, Emit, WriteDone, WriteFails, Spooled, HandleAck, Unlink, CenterStores, vars
<1> QED
  BY <1>4, <1>5, <1>9, <1>10 DEF Next, Connection

-----------------------------------------------------------------------------
(* What a ready connection has still to replay. *)

(* Steps that are not the current replay's own leave its work as it is: while *)
(* it has not listed the spool it finds what is in it by then.                *)
LEMMA StillToReplayStutter ==
  ASSUME current \in Replays, current' = current, replay'[current] = replay[current], current # NoReplay
  PROVE  \A e \in disk' : e \in StillToReplay => e \in StillToReplay'
  BY DEF StillToReplay

(* A step of a replay that leaves the connection ready: what it no longer has *)
(* to replay it has sent, and lastSeq has caught up with it.                  *)
LEMMA ReplayStep ==
  ASSUME Inv, NEW r \in Replays, ReplaySpool(r), link' = "ready"
  PROVE  /\ link = "ready" /\ alive' = alive /\ stored' = stored /\ wire \subseteq wire'
         /\ UNCHANGED <<disk, seqOf, emission, ours>> /\ lastSeq' \in Nat /\ lastSeq <= lastSeq'
         /\ \A e \in disk : e \in StillToReplay =>
               e \in StillToReplay' \/ (seqOf[e] <= lastSeq' /\ (alive => e \in wire'))
<1>1. UNCHANGED <<disk, seqOf, emission, ours>>
  BY DEF ReplaySpool, ResumeFails, ListSpool, ReadFile, SendReplayed, eventVars, memoryVars
<1>2. TypeOK /\ LinkInv /\ lastSeq \in Nat /\ \A e \in Events : seqOf[e] \in Nat
  BY DEF Inv, TypeOK
<1>3. ASSUME UNCHANGED <<linkVars, stored>>
      PROVE  link = "ready" /\ alive' = alive /\ stored' = stored /\ current' = current
             /\ current \in Replays /\ current # NoReplay
  BY <1>2, <1>3 DEF linkVars, LinkInv, TypeOK
<1>4. CASE Throw(r) /\ UNCHANGED lastSeq
  <2>1. UNCHANGED <<linkVars, networkVars>> /\ r # current
    BY <1>2, <1>4, ThrowResult DEF FailConnection
  <2>2. current \in Replays /\ replay'[current] = replay[current]
    BY <1>2, <1>3, <1>4, <2>1, ThrowResult DEF networkVars
  <2> QED BY <1>1, <1>2, <1>3, <1>4, <2>1, <2>2, StillToReplayStutter DEF networkVars
<1>5. CASE ResumeFails(r)
  BY <1>4, <1>5 DEF ResumeFails, memoryVars
<1>6. CASE ListSpool(r)
  <2>1. Proceed(r, disk) /\ UNCHANGED <<linkVars, networkVars, lastSeq>> /\ disk \in SUBSET Events
    BY <1>2, <1>6 DEF ListSpool, memoryVars, TypeOK
  <2>2. CASE r = current
    <3>1. StillToReplay' = disk
      BY <1>2, <1>3, <2>1, <2>2, ProceedResult DEF StillToReplay, networkVars
    <3> QED BY <1>1, <1>2, <1>3, <2>1, <3>1 DEF networkVars
  <2>3. CASE r # current
    <3>1. replay'[current] = replay[current]
      BY <1>2, <1>3, <2>1, <2>3, ProceedResult DEF networkVars
    <3> QED BY <1>1, <1>2, <1>3, <2>1, <3>1, StillToReplayStutter DEF networkVars
  <2> QED BY <2>2, <2>3
<1>7. CASE ReadFile(r)
  <2>1. UNCHANGED lastSeq
    BY <1>7 DEF ReadFile, memoryVars
  <2>2. CASE Throw(r)
    BY <1>4, <2>1, <2>2
  <2>3. ASSUME NEW e \in replay[r].files, replay[r].stage = "reading", replay[r].hand = {},
               replay' = [replay EXCEPT ![r].hand = {e}, ![r].files = @ \ {e}],
               UNCHANGED <<linkVars, networkVars>>
        PROVE  \A d \in disk : d \in StillToReplay => d \in StillToReplay'
    <3>1. CASE r = current
      <4>1. replay'[r].stage = "reading" /\ replay'[r].hand = {e} /\ replay'[r].files = replay[r].files \ {e}
        BY <1>2, <2>3 DEF TypeOK
      <4> QED BY <1>3, <2>3, <3>1, <4>1 DEF StillToReplay, networkVars
    <3>2. CASE r # current
      BY <1>1, <1>2, <1>3, <2>3, <3>2, StillToReplayStutter DEF networkVars, TypeOK
    <3> QED BY <3>1, <3>2
  <2> QED BY <1>1, <1>2, <1>3, <1>7, <2>1, <2>2, <2>3 DEF ReadFile, networkVars
<1>8. CASE SendReplayed(r)
  <2>1. PICK e \in replay[r].hand :
          IF ~registered
          THEN /\ Proceed(r, replay[r].files)
               /\ UNCHANGED <<lastSeq, known, linkVars, networkVars>>
          ELSE /\ lastSeq' = Restored(e)
               /\ known' = known \union {e}
               /\ IF CanSend
                  THEN /\ Proceed(r, replay[r].files)
                       /\ wire' = wire \union {e}
                       /\ UNCHANGED <<linkVars, acks, stored>>
                  ELSE Throw(r)
    BY <1>8 DEF SendReplayed
  <2>2. e \in Events /\ replay[r].files \in SUBSET Events /\ replay[r].hand = {e}
    BY <2>1 DEF Inv, TypeOK, ReplayInv
  <2>3. seqOf[e] <= Restored(e) /\ lastSeq <= Restored(e) /\ Restored(e) \in Nat
    BY <1>2, <2>2 DEF Restored
  <2>4. CASE Proceed(r, replay[r].files) /\ UNCHANGED <<linkVars, stored>>
    <3>1. registered
      BY <1>2, <1>3, <2>4 DEF LinkInv
    <3>2. lastSeq' = Restored(e)
      BY <2>1, <3>1
    <3>3. wire \subseteq wire' /\ (alive => e \in wire')
      <4>1. CASE CanSend BY <2>1, <3>1, <4>1
      <4>2. CASE ~CanSend
        <5>1. Throw(r) BY <2>1, <3>1, <4>2
        <5>2. r # current /\ UNCHANGED networkVars
          BY <1>2, <1>3, <2>4, <5>1, ThrowResult DEF FailConnection
        <5>3. ~alive
          BY <1>3, <2>4, <4>2 DEF CanSend, OpenLinks, Links
        <5> QED BY <5>2, <5>3 DEF networkVars
      <4> QED BY <4>1, <4>2
    <3>4. CASE r = current
      <4>1. replay[r].stage = "reading"
        BY <2>1 DEF Inv, ReplayInv
      <4>2. StillToReplay = replay[r].files \union {e} /\ StillToReplay' = replay[r].files
        <5>1. replay'[r].stage # "listing" /\ replay'[r].files = replay[r].files /\ replay'[r].hand = {}
          BY <1>2, <2>2, <2>4, ProceedResult
        <5>2. current = r /\ current' = r /\ r # NoReplay
          BY <1>3, <2>4, <3>4
        <5>3. StillToReplay = replay[r].files \union {e}
          BY <2>2, <4>1, <5>2 DEF StillToReplay
        <5> QED BY <5>1, <5>2, <5>3 DEF StillToReplay
      <4> QED BY <1>1, <1>2, <1>3, <2>3, <2>4, <3>2, <3>3, <4>2
    <3>5. CASE r # current
      <4>1. replay'[current] = replay[current]
        BY <1>2, <1>3, <2>2, <2>4, <3>5, ProceedResult
      <4> QED BY <1>1, <1>2, <1>3, <2>3, <2>4, <3>2, <3>3, <4>1, StillToReplayStutter
    <3> QED BY <3>4, <3>5
  <2>5. CASE Throw(r) /\ ~CanSend
    <3>1. r # current /\ UNCHANGED <<linkVars, networkVars>>
      BY <1>2, <2>5, ThrowResult DEF FailConnection
    <3>2. replay'[current] = replay[current]
      BY <1>2, <1>3, <2>5, <3>1, ThrowResult DEF networkVars
    <3>3. lastSeq' \in Nat /\ lastSeq <= lastSeq'
      BY <1>2, <2>1, <2>3
    <3> QED BY <1>1, <1>2, <1>3, <3>1, <3>2, <3>3, StillToReplayStutter DEF networkVars
  <2> QED BY <2>1, <2>4, <2>5 DEF networkVars
<1> QED BY <1>5, <1>6, <1>7, <1>8 DEF ReplaySpool

(* A step of an event or of Center, seen from the connection. *)
LEMMA EventStep ==
  ASSUME Inv, UNCHANGED <<linkVars, replay>>, link = "ready"
  PROVE  \A e \in disk' : e \in StillToReplay => e \in StillToReplay'
  BY StillToReplayStutter DEF Inv, TypeOK, LinkInv, linkVars

(* A step of the connection that leaves it ready: it has become ready and has *)
(* the whole spool to replay, or it has just broken.                          *)
LEMMA ConnectionStep ==
  ASSUME Inv, Connection, link' = "ready"
  PROVE  /\ UNCHANGED <<eventVars, memoryVars>>
         /\ \/ StillToReplay' = disk
            \/ link = "ready" /\ ~alive' /\ StillToReplay' = StillToReplay
<1>1. CASE Disconnect
  <2>1. UNCHANGED <<eventVars, memoryVars, link, current, replay>> /\ alive' = FALSE
    BY <1>1 DEF Disconnect
  <2>2. StillToReplay' = StillToReplay
    BY <2>1 DEF StillToReplay, eventVars
  <2> QED BY <2>1, <2>2
<1>2. ASSUME NEW r \in Replays, BecomeReady(r)
      PROVE  UNCHANGED <<eventVars, memoryVars>> /\ StillToReplay' = disk
  <2>1. replay'[r].stage = "listing" /\ current' = r /\ r # NoReplay /\ UNCHANGED <<eventVars, memoryVars>>
    BY <1>2, NoReplayAssumption DEF BecomeReady, Inv, TypeOK
  <2> QED BY <2>1 DEF StillToReplay, eventVars
<1>3. CASE Disconnect \/ \E r \in Replays : BecomeReady(r)
  BY <1>1, <1>2, <1>3
<1>4. ~(Connect \/ OpenFails \/ Opened \/ Greeted \/ GreetingFails \/ Attached \/ HandleClose \/ Crash)
  BY DEF Connect, OpenFails, Opened, Greeted, GreetingFails, Attached, HandleClose, Crash, FailConnection, ProcessDies
<1>5. ~\E permanently \in BOOLEAN : AttachmentRefused(permanently)
  BY DEF AttachmentRefused
<1> QED BY <1>3, <1>4, <1>5 DEF Connection

LEMMA ReadyPreserved ==
  ASSUME Inv, [Next]_vars
  PROVE  ReadyConnectionLeavesNothing'
<1> SUFFICES ASSUME link' = "ready", alive', NEW e \in disk'
             PROVE  emission'[e] = "written" \/ e \in stored' \union wire' \union StillToReplay'
  BY DEF ReadyConnectionLeavesNothing
<1>1. CASE Connection
  BY <1>1, ConnectionStep DEF eventVars
<1>2. ASSUME NEW r \in Replays, ReplaySpool(r) PROVE e \in stored' \union wire' \union StillToReplay' \/ emission'[e] = "written"
  BY <1>2, ReplayStep DEF Inv, ReadyConnectionLeavesNothing
<1> DEFINE Considered == emission[e] = "written" \/ e \in stored \union wire \union StillToReplay
<1>3. ASSUME UNCHANGED <<linkVars, replay>>
      PROVE  /\ link = "ready" /\ alive
             /\ e \in disk => Considered
             /\ e \in StillToReplay => e \in StillToReplay'
  BY <1>3, EventStep DEF Inv, ReadyConnectionLeavesNothing, linkVars
<1>4. CASE AcceptCommand \/ UNCHANGED vars
  BY <1>3, <1>4 DEF AcceptCommand, vars, eventVars, networkVars
<1>5. ASSUME NEW d \in Events, SendEvent(d) \/ CenterStores(d)
      PROVE  emission'[e] = "written" \/ e \in stored' \union wire' \union StillToReplay'
  <2> USE DEF Inv, TypeOK, eventVars, memoryVars, networkVars
  <2>1. CASE Emit(d)
    <3>1. e \in Kept /\ emission[e] # "none"
      BY <2>1 DEF Emit, KeptInv, Kept
    <3> QED BY <1>3, <2>1, <3>1 DEF Emit
  <2>2. CASE WriteDone(d) BY <1>3, <2>2 DEF WriteDone
  <2>3. CASE WriteFails(d) BY <1>3, <2>3 DEF WriteFails
  <2>4. CASE Spooled(d)
    <3>1. link = "ready" /\ CanSend
      BY <1>3, <2>4 DEF Spooled, CanSend, OpenLinks, Links
    <3> QED BY <1>3, <2>4, <3>1 DEF Spooled
  <2>5. CASE HandleAck(d) BY <1>3, <2>5 DEF HandleAck
  <2>6. CASE Unlink(d) BY <1>3, <2>6 DEF Unlink
  <2>7. CASE CenterStores(d) BY <1>3, <2>7 DEF CenterStores
  <2> QED BY <1>5, <2>1, <2>2, <2>3, <2>4, <2>5, <2>6, <2>7 DEF SendEvent
<1> QED BY <1>1, <1>2, <1>4, <1>5 DEF Next

-----------------------------------------------------------------------------
(* Sequence numbers. *)

(* The conjuncts of SeqInv that say nothing of the connection. *)
Numbered ==
    /\ \A d, e \in Events : d < e /\ emission[d] = "none" => emission[e] = "none"
    /\ \A e \in Events : seqOf[e] <= e
    /\ \A e \in Events : emission[e] = "none" => lastSeq < e
    /\ \A e \in Events : emission[e] \in {"writing", "written"} => e \in ours
    /\ \A e \in ours : emission[e] # "none" /\ seqOf[e] <= lastSeq
    /\ \A d, e \in ours : d < e => seqOf[d] < seqOf[e]

LEMMA NumberedPreserved ==
  ASSUME Inv, [Next]_vars
  PROVE  Numbered'
<1> USE DEF Inv, TypeOK, SeqInv, Numbered, eventVars, memoryVars, Events
<1>1. CASE UNCHANGED <<emission, seqOf, lastSeq, ours>> BY <1>1
<1>2. ASSUME ProcessDies PROVE Numbered'
  <2>1. \A e \in Events : emission'[e] = "none" <=> emission[e] = "none"
    BY <1>2 DEF ProcessDies, Emissions
  <2>2. \A e \in Events : emission'[e] \notin {"writing", "written"}
    BY <1>2 DEF ProcessDies, Emissions
  <2>3. seqOf' = seqOf /\ lastSeq' = 0 /\ ours' = {}
    BY <1>2 DEF ProcessDies
  <2> QED BY <2>1, <2>2, <2>3
<1>3. CASE Connection
  <2>1. CASE GreetingFails \/ Crash BY <1>2, <2>1 DEF GreetingFails, Crash
  <2>2. CASE ~(GreetingFails \/ Crash)
    BY <1>1, <1>3, <2>2 DEF Connection, Connect, OpenFails, Opened, Greeted, Attached, AttachmentRefused,
       BecomeReady, Disconnect, HandleClose
  <2> QED BY <2>1, <2>2
<1>4. CASE AcceptCommand \/ UNCHANGED vars
  BY <1>1, <1>4 DEF AcceptCommand, vars
<1>5. ASSUME NEW e \in Events, Emit(e) PROVE Numbered'
  <2>1. lastSeq < e /\ e \notin ours /\ \A d \in ours : d < e
    BY <1>5 DEF Emit
  <2>2. lastSeq' = lastSeq + 1 /\ ours' = ours \union {e}
        /\ seqOf' = [seqOf EXCEPT ![e] = lastSeq + 1] /\ emission' = [emission EXCEPT ![e] = "writing"]
    BY <1>5 DEF Emit
  <2>3. seqOf'[e] = lastSeq + 1 /\ \A d \in Events : d # e => seqOf'[d] = seqOf[d]
    BY <2>2
  <2>4. emission'[e] = "writing" /\ \A d \in Events : d # e => emission'[d] = emission[d]
    BY <2>2
  <2>5. \A d, f \in Events : d < f /\ emission'[d] = "none" => emission'[f] = "none"
    BY <1>5, <2>4 DEF Emit
  <2>6. \A d \in Events : emission'[d] = "none" => e < d
    BY <1>5, <2>4 DEF Emit
  <2>7. \A d \in Events : emission'[d] = "none" => lastSeq' < d
    BY <2>1, <2>2, <2>6
  <2>8. \A d \in Events : seqOf'[d] <= d
    BY <2>1, <2>3
  <2>9. \A d \in Events : emission'[d] \in {"writing", "written"} => d \in ours'
    BY <2>2, <2>4
  <2>10. \A d \in ours' : emission'[d] # "none" /\ seqOf'[d] <= lastSeq'
    BY <2>2, <2>3, <2>4
  <2>11. \A d, f \in ours' : d < f => seqOf'[d] < seqOf'[f]
    BY <2>1, <2>2, <2>3
  <2> QED BY <2>5, <2>7, <2>8, <2>9, <2>10, <2>11
<1>6. ASSUME NEW e \in Events, emission[e] # "none", emission' = [emission EXCEPT ![e] = emission'[e]],
             emission'[e] \in {"written", "done", "lost"}, emission'[e] = "written" => e \in ours,
             UNCHANGED <<seqOf, lastSeq, ours>>
      PROVE  Numbered'
  <2>1. \A d \in Events : emission'[d] = "none" <=> emission[d] = "none"
    BY <1>6
  <2>2. \A d \in Events : emission'[d] \in {"writing", "written"} => d \in ours
    BY <1>6
  <2> QED BY <1>6, <2>1, <2>2
<1>7. ASSUME NEW e \in Events, WriteDone(e) \/ WriteFails(e) \/ Spooled(e) PROVE Numbered'
  BY <1>6, <1>7 DEF WriteDone, WriteFails, Spooled
<1>8. ASSUME NEW e \in Events, HandleAck(e) \/ Unlink(e) \/ CenterStores(e) PROVE Numbered'
  BY <1>1, <1>8 DEF HandleAck, Unlink, CenterStores
<1>9. ASSUME NEW r \in Replays, ResumeFails(r) \/ ListSpool(r) \/ ReadFile(r) PROVE Numbered'
  BY <1>1, <1>9 DEF ResumeFails, ListSpool, ReadFile
<1>10. ASSUME NEW r \in Replays, SendReplayed(r) PROVE Numbered'
  <2>1. PICK e \in replay[r].hand : lastSeq' \in {lastSeq, Restored(e)}
    BY <1>10 DEF SendReplayed
  <2>2. e \in Events /\ emission[e] # "none"
    BY <2>1 DEF ReplayInv, KeptInv
  <2>3. lastSeq <= lastSeq' /\ (lastSeq' = lastSeq \/ lastSeq' = seqOf[e]) /\ lastSeq' \in Nat
    BY <2>1, <2>2 DEF Restored
  <2>4. UNCHANGED <<emission, seqOf, ours>>
    BY <1>10 DEF SendReplayed
  <2>5. \A d \in Events : emission[d] = "none" => e < d
    BY <2>2
  <2>6. \A d \in Events : emission'[d] = "none" => lastSeq' < d
    BY <2>2, <2>3, <2>4, <2>5
  <2> QED BY <2>3, <2>4, <2>6
<1> QED
  BY <1>3, <1>4, <1>5, <1>7, <1>8, <1>9, <1>10 DEF Next, SendEvent, ReplaySpool

LEMMA SeqPreserved ==
  ASSUME Inv, [Next]_vars
  PROVE  SeqInv'
<1> DEFINE Caught(e) == seqOf[e] <= lastSeq \/ e \in StillToReplay
<1>0. Numbered' /\ Numbered
  BY NumberedPreserved DEF Numbered, Inv, SeqInv
<1> SUFFICES ASSUME link' = "ready", NEW e \in disk'
             PROVE  Caught(e)'
  BY <1>0 DEF SeqInv, Numbered
<1>1. disk \subseteq Events /\ lastSeq \in Nat /\ \A d \in Events : seqOf[d] \in Nat
  BY DEF Inv, TypeOK
<1>2. CASE Connection
  <2>1. UNCHANGED <<disk, seqOf, lastSeq>>
    BY <1>2, ConnectionStep DEF eventVars, memoryVars
  <2> QED BY <1>2, <2>1, ConnectionStep DEF Inv, SeqInv
<1>3. ASSUME NEW r \in Replays, ReplaySpool(r) PROVE Caught(e)'
  <2>1. e \in disk /\ seqOf' = seqOf /\ lastSeq' \in Nat /\ lastSeq <= lastSeq' /\ link = "ready"
    BY <1>3, ReplayStep
  <2>2. Caught(e)
    BY <2>1 DEF Inv, SeqInv
  <2> QED BY <1>1, <1>3, <2>1, <2>2, ReplayStep
<1>4. ASSUME UNCHANGED <<linkVars, replay>>, UNCHANGED <<seqOf, lastSeq>>, e \in disk PROVE Caught(e)'
  BY <1>4, EventStep DEF linkVars, Inv, SeqInv
<1>5. CASE AcceptCommand \/ UNCHANGED vars
  BY <1>4, <1>5 DEF AcceptCommand, vars, eventVars, memoryVars
<1>6. ASSUME NEW d \in Events, WriteFails(d) \/ Spooled(d) \/ HandleAck(d) \/ Unlink(d) \/ CenterStores(d)
      PROVE  Caught(e)'
  <2>1. UNCHANGED <<linkVars, replay, seqOf, lastSeq>> /\ e \in disk
    BY <1>6 DEF WriteFails, Spooled, HandleAck, Unlink, CenterStores, eventVars, memoryVars
  <2> QED BY <1>4, <2>1
<1>7. ASSUME NEW d \in Events, WriteDone(d) PROVE Caught(e)'
  <2>1. UNCHANGED <<linkVars, replay, seqOf, lastSeq>> /\ disk' = disk \union {d} /\ emission[d] = "writing"
    BY <1>7 DEF WriteDone, memoryVars
  <2>2. CASE e \in disk BY <1>4, <2>1, <2>2
  <2>3. CASE e = d
    BY <1>0, <2>1, <2>3 DEF Numbered
  <2> QED BY <2>1, <2>2, <2>3
<1>8. ASSUME NEW d \in Events, Emit(d) PROVE Caught(e)'
  <2>1. UNCHANGED <<linkVars, replay>> /\ e \in disk /\ lastSeq' = lastSeq + 1 /\ link = "ready"
    BY <1>8 DEF Emit, linkVars
  <2>2. e # d /\ seqOf'[e] = seqOf[e]
    <3>1. emission[e] \in {"written", "done"}
      BY <1>1, <2>1 DEF Inv, KeptInv, Kept
    <3> QED BY <1>1, <1>8, <2>1, <3>1 DEF Emit, Inv, TypeOK
  <2>3. Caught(e)
    BY <2>1 DEF Inv, SeqInv
  <2> QED BY <1>1, <2>1, <2>2, <2>3, EventStep
<1> QED
  BY <1>2, <1>3, <1>5, <1>6, <1>7, <1>8 DEF Next, SendEvent

-----------------------------------------------------------------------------
(* Theorems. *)

LEMMA StepPreserves == Inv /\ [Next]_vars => Inv'
  BY TypePreserved, LinkPreserved, KeptPreserved, ReplayPreserved, SeqPreserved, ReadyPreserved DEF Inv

(* Every variable keeps its type. *)
THEOREM TypeCorrectness == Spec => []TypeOK
<1>1. Inv => TypeOK
  BY DEF Inv
<1> QED BY InitInv, StepPreserves, <1>1, PTL DEF Spec

(* No event falls between the check of socketReadyForEvents in sendEvent and  *)
(* the listing of the spool in replaySpool.                                   *)
THEOREM NothingLeftBehind == Spec => []ReadyConnectionLeavesNothing
<1>1. Inv => ReadyConnectionLeavesNothing
  BY DEF Inv
<1> QED BY InitInv, StepPreserves, <1>1, PTL DEF Spec

(* Math.max in replaySpool lets the numbers continue after the spool's.       *)
THEOREM SequencesGoOn == Spec => []SequencesContinue
<1>1. Inv => SequencesContinue
  BY DEF Inv, SeqInv, SequencesContinue
<1> QED BY InitInv, StepPreserves, <1>1, PTL DEF Spec

(* TeaRunner keeps the promise of EventOutbox: an event leaves the spool only *)
(* after Center has stored it.                                                *)
THEOREM KeepsEveryEvent == Spec => ImplementsOutbox
<1>1. Init => Outbox!Init
  BY DEF Init, Outbox!Init
<1>2. ASSUME Inv, [Next]_vars PROVE [Outbox!Next]_(Outbox!vars)
  <2>1. ASSUME NEW e \in Events, WriteDone(e) PROVE Outbox!Keep(e)
    BY <2>1 DEF WriteDone, networkVars, Outbox!Keep
  <2>2. ASSUME disk' \subseteq disk PROVE Outbox!Store(stored')
    BY <1>2, <2>2, KeptPreserved DEF KeptStep, Kept, Outbox!Store
  <2>3. stored' \in SUBSET Events
    BY <1>2, TypePreserved DEF TypeOK
  <2>4. CASE \E e \in Events : WriteDone(e)
    BY <2>1, <2>4 DEF Outbox!Next
  <2>5. CASE ~\E e \in Events : WriteDone(e)
    <3>1. disk' \subseteq disk
      BY <1>2, <2>5 DEF Next, Connection, Connect, OpenFails, Opened, Greeted, GreetingFails, Attached,
         AttachmentRefused, BecomeReady, Disconnect, HandleClose, Crash, ProcessDies, AcceptCommand,
         SendEvent, Emit, WriteFails, Spooled, HandleAck, Unlink, CenterStores,
         ReplaySpool, ResumeFails, ListSpool, ReadFile, SendReplayed, eventVars, vars
    <3> QED BY <2>2, <2>3, <3>1 DEF Outbox!Next
  <2> QED BY <2>4, <2>5
<1> QED BY InitInv, StepPreserves, <1>1, <1>2, PTL DEF Spec, ImplementsOutbox, Outbox!Spec
=============================================================================
