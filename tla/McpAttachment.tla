---------------------------- MODULE McpAttachment ----------------------------
(***************************************************************************)
(* The channel through which an Agent reaches the HostTools of one         *)
(* session.  electron/conversation/acp/mcpAttachment.ts listens on a       *)
(* private socket and leaves a credential in a file; the relay process the *)
(* Agent starts (mcpProxy.ts) takes the credential, which can be taken     *)
(* once, connects, proves it and then carries MCP messages between the     *)
(* Agent and the server of mcpServer.ts.  A timer, a broken connection, or *)
(* the end of the session tears everything down, at any point of a         *)
(* handshake that waits for files, sockets and the server.                 *)
(***************************************************************************)
EXTENDS Naturals, FiniteSets

CONSTANTS
  Relays,        \* relay processes
  Strangers,     \* other local processes that connect without the credential
  MaxAttempts    \* maxConnectionAttempts

Peers == Relays \cup Strangers

VARIABLES
  attachment,    \* state
  ready,         \* the promise `ready`
  attachTimer,   \* timeoutHandle is armed
  listening,
  attempts,
  sockets,       \* the server's end of each peer's connection
  server,        \* the MCP server is connected, or closed
  cleanup,       \* how far cleanup() is; "no" before it begins
  credential,    \* the credential file exists
  relay          \* what each peer has done

attachVars == <<attachment, ready, attachTimer, listening, attempts, sockets,
                server, cleanup, credential, relay>>

Steps == {"reading", "connecting", "writing", "unlinking", "done"}
Ends == {"none", "open", "refused", "destroyed", "closed"}

AttachmentTypeOK ==
  /\ attachment \in {"waiting", "attaching", "attached", "failed", "closed"}
  /\ ready \in {"pending", "resolved", "rejected"}
  /\ attachTimer \in BOOLEAN
  /\ listening \in BOOLEAN
  /\ attempts \in 0..MaxAttempts
  /\ sockets \in [Peers -> [end : Ends, step : Steps]]
  /\ server \in {"new", "connected", "closed"}
  /\ cleanup \in {"no", "server", "listener", "files", "resolved", "rejected"}
  /\ credential \in BOOLEAN
  /\ relay \in [Peers -> {"new", "checked", "read", "holds", "connected", "relaying", "failed"}]

\* create() has returned: the socket listens and the credential is written.
AttachmentInit ==
  /\ attachment = "waiting"
  /\ ready = "pending"
  /\ attachTimer = TRUE
  /\ listening = TRUE
  /\ attempts = 0
  /\ sockets = [p \in Peers |-> [end |-> "none", step |-> "done"]]
  /\ server = "new"
  /\ cleanup = "no"
  /\ credential = TRUE
  /\ relay = [p \in Peers |-> IF p \in Relays THEN "new" ELSE "holds"]

-----------------------------------------------------------------------------
(* The relay process, until it connects: lstat, readFile, unlink. *)

RelayFails(p) ==
  /\ relay' = [relay EXCEPT ![p] = "failed"]
  /\ sockets' = [sockets EXCEPT ![p].end = IF @ = "open" THEN "destroyed" ELSE @]

CheckCredential(p) ==
  /\ relay[p] = "new"
  /\ \/ credential /\ relay' = [relay EXCEPT ![p] = "checked"] /\ UNCHANGED sockets
     \/ ~credential /\ RelayFails(p)
  /\ UNCHANGED <<attachment, ready, attachTimer, listening, attempts, server, cleanup, credential>>

\* A file that another relay took meanwhile cannot be read.
ReadCredential(p) ==
  /\ relay[p] = "checked"
  /\ \/ credential /\ relay' = [relay EXCEPT ![p] = "read"] /\ UNCHANGED sockets
     \/ ~credential /\ RelayFails(p)
  /\ UNCHANGED <<attachment, ready, attachTimer, listening, attempts, server, cleanup, credential>>

\* A bug: what was read is used whether or not the file could be deleted.
UseCredential(p) ==
  /\ relay[p] = "read"
  /\ relay' = [relay EXCEPT ![p] = "holds"]
  /\ credential' = FALSE
  /\ UNCHANGED <<attachment, ready, attachTimer, listening, attempts, sockets, server, cleanup>>

\* The relay that cannot delete the file does not use what it read.
TakeCredential(p) ==
  /\ relay[p] = "read"
  /\ \/ credential /\ relay' = [relay EXCEPT ![p] = "holds"] /\ UNCHANGED sockets
     \/ ~credential /\ RelayFails(p)
  /\ credential' = FALSE
  /\ UNCHANGED <<attachment, ready, attachTimer, listening, attempts, server, cleanup>>

\* The handshake times out, the Agent ends the relay, or nobody listens.
RelayEnds(p) ==
  /\ relay[p] \in {"holds", "connected", "relaying"}
  /\ RelayFails(p)
  /\ UNCHANGED <<attachment, ready, attachTimer, listening, attempts, server, cleanup, credential>>

-----------------------------------------------------------------------------
(* Ending the attachment. *)

\* Every socket the attachment holds is destroyed, its close event follows.
Destroyed(f) == [p \in Peers |-> IF f[p].end = "open" THEN [f[p] EXCEPT !.end = "destroyed"] ELSE f[p]]

\* The synchronous part of fail() and of closeOnce(), for sockets f.
TearDown(state, f) ==
  /\ attachment' = state
  /\ ready' = IF ready = "pending" THEN "rejected" ELSE ready
  /\ attachTimer' = FALSE
  /\ listening' = FALSE
  /\ sockets' = Destroyed(f)
  /\ cleanup' = "server"

Carry(f) ==
  /\ sockets' = f
  /\ UNCHANGED <<attachment, ready, attachTimer, listening, cleanup>>

\* A bug: a handshake that began is not given up.
FailWaiting(f) == IF attachment = "waiting" THEN TearDown("failed", f) ELSE Carry(f)

Fail(f) == IF attachment \in {"waiting", "attaching"} THEN TearDown("failed", f) ELSE Carry(f)

\* close() by the session; one that follows another, or a failure, joins it.
Close ==
  /\ cleanup = "no"
  /\ TearDown("closed", sockets)
  /\ UNCHANGED <<attempts, server, credential, relay>>

Timeout ==
  /\ attachTimer
  /\ Fail(sockets)
  /\ UNCHANGED <<attempts, server, credential, relay>>

\* cleanup(): the server closes, whether or not without an error ...
ServerClosed ==
  /\ cleanup = "server"
  /\ cleanup' = "listener"
  /\ server' = "closed"
  /\ UNCHANGED <<attachment, ready, attachTimer, listening, attempts, sockets, credential, relay>>

\* A bug: the listener's connections are not waited for.
ListenerLeft ==
  /\ cleanup = "listener"
  /\ cleanup' = "files"
  /\ UNCHANGED <<attachment, ready, attachTimer, listening, attempts, sockets, server, credential, relay>>

\* ... the listener closes with its last connection ...
ListenerClosed ==
  /\ cleanup = "listener"
  /\ \A p \in Peers : sockets[p].end \in {"none", "closed"}
  /\ cleanup' = "files"
  /\ UNCHANGED <<attachment, ready, attachTimer, listening, attempts, sockets, server, credential, relay>>

\* ... and the private directory is removed; an error is reported at the end.
FilesRemoved ==
  /\ cleanup = "files"
  /\ \/ cleanup' \in {"resolved", "rejected"} /\ credential' = FALSE
     \/ cleanup' = "rejected" /\ UNCHANGED credential
  /\ UNCHANGED <<attachment, ready, attachTimer, listening, attempts, sockets, server, relay>>

-----------------------------------------------------------------------------
(* Connections: handleConnection, a coroutine for each socket. *)

At(p, step) == sockets[p].step = step

Refused == attachment # "waiting" \/ attempts >= MaxAttempts

Connect(p) ==
  /\ relay[p] = "holds"
  /\ sockets[p].end = "none"
  /\ listening
  /\ relay' = [relay EXCEPT ![p] = "connected"]
  /\ sockets' = [sockets EXCEPT ![p] = IF Refused THEN [end |-> "refused", step |-> "done"]
                                       ELSE [end |-> "open", step |-> "reading"]]
  /\ attempts' = IF Refused THEN attempts ELSE attempts + 1
  /\ UNCHANGED <<attachment, ready, attachTimer, listening, server, cleanup, credential>>

\* The catch block of handleConnection.
HandshakeFails(p) ==
  LET f == [sockets EXCEPT ![p].step = "done",
                           ![p].end = IF @ = "open" THEN "destroyed" ELSE @] IN
  IF attachment = "attaching" \/ attempts >= MaxAttempts THEN Fail(f) ELSE Carry(f)

\* The line is read: a relay's proves the credential, a stranger's does not.
LineVerified(p) ==
  /\ At(p, "reading")
  /\ p \in Relays
  /\ relay[p] = "connected"
  /\ sockets[p].end = "open"
  /\ attachment = "waiting"
  /\ attachment' = "attaching"
  /\ listening' = FALSE
  /\ sockets' = [q \in Peers |-> IF q = p THEN [sockets[p] EXCEPT !.step = "connecting"]
                                 ELSE Destroyed(sockets)[q]]
  /\ UNCHANGED <<ready, attachTimer, attempts, server, cleanup, credential, relay>>

LineRejected(p) ==
  /\ At(p, "reading")
  /\ \/ p \in Strangers
     \/ sockets[p].end # "open"
     \/ attachment # "waiting"
  /\ HandshakeFails(p)
  /\ UNCHANGED <<attempts, server, credential, relay>>

\* mcpServer.connect, in one step: refused once the server was closed.
ServerConnected(p) ==
  /\ At(p, "connecting")
  /\ \/ /\ server = "new"
        /\ server' = "connected"
        /\ Carry([sockets EXCEPT ![p].step = "writing"])
     \/ /\ server # "new"
        /\ HandshakeFails(p)
        /\ UNCHANGED server
  /\ UNCHANGED <<attempts, credential, relay>>

AcknowledgementWritten(p) ==
  /\ At(p, "writing")
  /\ \/ /\ sockets[p].end = "open"
        /\ Carry([sockets EXCEPT ![p].step = "unlinking"])
        /\ relay' = [relay EXCEPT ![p] = IF @ = "connected" THEN "relaying" ELSE @]
     \/ /\ sockets[p].end # "open"
        /\ HandshakeFails(p)
        /\ UNCHANGED relay
  /\ UNCHANGED <<attempts, server, credential>>

\* The credential file is deleted if it is still there, then the attachment
\* is attached, unless it ended or the socket was destroyed in the meantime.
Attached(p) ==
  /\ At(p, "unlinking")
  /\ credential' = FALSE
  /\ \/ /\ attachment = "attaching"
        /\ sockets[p].end = "open"
        /\ attachment' = "attached"
        /\ ready' = "resolved"
        /\ attachTimer' = FALSE
        /\ sockets' = [sockets EXCEPT ![p].step = "done"]
        /\ UNCHANGED <<listening, cleanup>>
     \/ /\ attachment # "attaching" \/ sockets[p].end # "open"
        /\ HandshakeFails(p)
  /\ UNCHANGED <<attempts, server, relay>>

\* The close event of a socket: one that was refused on arrival closes
\* unnoticed; of the others, which one it is is not told apart.
SocketClosed(p) ==
  LET f == [sockets EXCEPT ![p].end = "closed"] IN
  /\ sockets[p].end \in {"refused", "destroyed"}
  /\ CASE sockets[p].end = "destroyed" /\ attachment = "attaching" -> TearDown("failed", f)
       [] sockets[p].end = "destroyed" /\ attachment = "attached" -> TearDown("closed", f)
       [] OTHER -> Carry(f)
  /\ UNCHANGED <<attempts, server, credential, relay>>

AttachmentNext ==
  \/ Close \/ Timeout \/ ServerClosed \/ ListenerClosed \/ FilesRemoved
  \/ \E p \in Peers :
       \/ CheckCredential(p) \/ ReadCredential(p) \/ TakeCredential(p) \/ RelayEnds(p)
       \/ Connect(p) \/ LineVerified(p) \/ LineRejected(p)
       \/ ServerConnected(p) \/ AcknowledgementWritten(p) \/ Attached(p) \/ SocketClosed(p)

AttachmentSpec == AttachmentInit /\ [][AttachmentNext]_attachVars

-----------------------------------------------------------------------------
(* However many relays race for the file and whatever strangers connect, one *)
(* relay at most gets past the credential and one socket at most is served;  *)
(* who waits for `ready` is let through only after that relay was served,    *)
(* with the server connected to it and the credential gone.                  *)
OneRelay ==
  /\ Cardinality({p \in Relays : relay[p] \in {"holds", "connected", "relaying"}}) <= 1
  /\ Cardinality({p \in Peers : sockets[p].step \in {"connecting", "writing", "unlinking"}}) <= 1
  /\ ready = "resolved" => server # "new" /\ ~credential /\ attachment \in {"attached", "closed"}

(* When the attachment reports that it is closed it listens no more, no      *)
(* timer is armed, every connection is closed and its server too; who waited *)
(* for `ready` was answered.                                                 *)
NothingLeftBehind ==
  cleanup \in {"resolved", "rejected"} =>
    /\ ~listening /\ ~attachTimer /\ ready # "pending" /\ server = "closed"
    /\ \A p \in Peers : sockets[p].end \in {"none", "closed"}
=============================================================================
