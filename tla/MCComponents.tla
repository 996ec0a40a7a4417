---------------------------- MODULE MCComponents ----------------------------
(***************************************************************************)
(* The TLC instance of the components that share no state.  One of them,   *)
(* the focus, runs in each behaviour, the others keep their initial state; *)
(* the states of this module are those of the components, side by side.    *)
(***************************************************************************)
EXTENDS ToolBroker, CloudPolling, McpAttachment, RunnerCommands, ChannelComposer

VARIABLE focus

allVars == <<focus, brokerVars, cloudVars, attachVars, commandVars, composerVars>>

Init ==
  /\ focus \in {"broker", "cloud", "attachment", "commands", "composer"}
  /\ BrokerInit /\ CloudInit /\ AttachmentInit /\ CommandsInit /\ ComposerInit
  /\ focus # "cloud" => center = [x \in Clouds |-> "absent"]

\* Bounds. Two only say which of interchangeable values comes first: requests are
\* numbers, made in their order, and one account is the first to connect. Attempts
\* are retried under that connection.
RequestsInOrder == \A r \in DOMAIN request', q \in Requests : q < r => q \in DOMAIN request'
FirstAccount == CHOOSE a \in Accounts : TRUE
FirstConnects == connections = 0 /\ connections' = 1 => account' = FirstAccount
EarlyRetries == connections' > 1 => \A m \in Messages : attempt'[m].try <= 1

BrokerStep ==
  focus = "broker" /\ BrokerNext
    /\ UNCHANGED <<focus, cloudVars, attachVars, commandVars, composerVars>>
CloudStep ==
  focus = "cloud" /\ CloudNext /\ RequestsInOrder
    /\ UNCHANGED <<focus, brokerVars, attachVars, commandVars, composerVars>>
AttachmentStep ==
  focus = "attachment" /\ AttachmentNext
    /\ UNCHANGED <<focus, brokerVars, cloudVars, commandVars, composerVars>>
CommandsStep ==
  focus = "commands" /\ CommandsNext
    /\ UNCHANGED <<focus, brokerVars, cloudVars, attachVars, composerVars>>
ComposerStep ==
  focus = "composer" /\ ComposerNext /\ FirstConnects /\ EarlyRetries
    /\ UNCHANGED <<focus, brokerVars, cloudVars, attachVars, commandVars>>

Next == BrokerStep \/ CloudStep \/ AttachmentStep \/ CommandsStep \/ ComposerStep

\* The desktop's own steps on an attachment happen; relays and strangers may do
\* nothing.
AttachmentFairness ==
  /\ WF_attachVars(focus = "attachment" /\ Timeout)
  /\ WF_attachVars(focus = "attachment" /\ (ServerClosed \/ ListenerClosed \/ FilesRemoved))
  /\ \A p \in Peers : WF_attachVars(focus = "attachment" /\ SocketClosed(p))

\* The runner handles what it accepted, Agents finish what they are not asked
\* to wait for, and people decide, whenever the connection is there.
CommandsFairness ==
  /\ \A i \in 1..MaxRuns : WF_commandVars(focus = "commands" /\ Proceeds(i))
  /\ \A v \in Chats : SF_commandVars(focus = "commands" /\ Decide(v))
  /\ WF_commandVars(focus = "commands" /\ Reconnect /\ registered')
  /\ WF_commandVars(focus = "commands" /\ (StopProceeds \/ StopEnds))

Spec == Init /\ [][Next]_allVars /\ AttachmentFairness /\ CommandsFairness

-----------------------------------------------------------------------------
(* The types of every component's state. *)
ComponentsTypeOK ==
  BrokerTypeOK /\ CloudTypeOK /\ AttachmentTypeOK /\ CommandsTypeOK /\ ComposerTypeOK

(* Nobody waits for an attachment for ever: `ready` settles, and an          *)
(* attachment that failed or was closed is cleaned up.                       *)
AttachmentSettles ==
  /\ (focus = "attachment" /\ ready = "pending") ~> ready # "pending"
  /\ cleanup # "no" ~> cleanup \in {"resolved", "rejected"}
=============================================================================
