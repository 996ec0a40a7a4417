---------------------------- MODULE CloudPolling ----------------------------
(***************************************************************************)
(* The cloud conversations of electron/conversation/                       *)
(* cloudCommandService.ts.  Center keeps a cloud conversation and its      *)
(* events; the desktop remembers which conversations are in the cloud and  *)
(* polls each of them from a cursor, publishing to the renderer the events *)
(* it has not seen.  Listing, opening, creating, sending to and removing a *)
(* conversation are requests to Center whose answers may come in any       *)
(* order, while polls are under way.                                       *)
(*                                                                         *)
(* Events are their sequence numbers.  A poll is an object of its own: one *)
(* that was stopped may still wait for an answer.                          *)
(***************************************************************************)
EXTENDS Naturals, Sequences, FiniteSets

CONSTANTS
  Clouds,        \* conversation ids
  Requests,      \* requests of the renderer, each made once (a bound)
  MaxEvents,     \* a bound: events of a conversation
  MaxPolls       \* a bound: poll objects in one behaviour

ASSUME CloudAssumption ==
  IsFiniteSet(Clouds) /\ IsFiniteSet(Requests) /\ MaxEvents \in Nat /\ MaxPolls \in Nat

NoPoll == 0
Polls == 1..MaxPolls
Operations == {"list", "get", "create", "send", "remove", "pollNow"}

VARIABLES
  center,        \* whether Center has the conversation
  log,           \* number of events Center has of it
  cloudIds,      \* cloudConversationIds
  polls,         \* the current poll object of a conversation
  poll,          \* the poll objects, in the order they were made
  request,       \* the requests: what for, and how far
  removed,       \* a history: conversations whose removal has returned
  published,     \* events of a conversation that were published, in order, by any poll
  cloudDisposed

cloudVars == <<center, log, cloudIds, polls, poll, request, removed, published, cloudDisposed>>

\* A poll that has been answered has not published yet what it got: the events
\* Center had then, up to the number `answer`.
Poll == [conversation : Clouds, cursor : 0..MaxEvents, answer : 0..MaxEvents,
         timers : 0..(1 + Cardinality(Requests)),
         running : {"no", "loading", "answered", "refreshing"}]
Request == [operation : Operations \cup {"none"}, conversation : Clouds,
            stage : {"asked", "served", "done"}, found : SUBSET Clouds]

CloudTypeOK ==
  /\ center \in [Clouds -> {"absent", "present", "deleted"}]
  /\ log \in [Clouds -> 0..MaxEvents]
  /\ cloudIds \subseteq Clouds
  /\ polls \in [Clouds -> 0..MaxPolls]
  /\ poll \in Seq(Poll) /\ Len(poll) <= MaxPolls
  /\ \A r \in DOMAIN request : request[r] \in Request
  /\ removed \subseteq Clouds
  /\ published \in [Clouds -> Seq(1..MaxEvents)]
  /\ cloudDisposed \in BOOLEAN

CloudInit ==
  /\ center \in [Clouds -> {"absent", "present"}]
  /\ log = [c \in Clouds |-> 0]
  /\ cloudIds = {}
  /\ polls = [c \in Clouds |-> NoPoll]
  /\ poll = <<>>
  /\ request = [r \in {} |-> r]
  /\ removed = {}
  /\ published = [c \in Clouds |-> <<>>]
  /\ cloudDisposed = FALSE

-----------------------------------------------------------------------------
(* Center: a runner appends events to a conversation. *)

CenterAppends(c) ==
  /\ center[c] = "present"
  /\ log[c] < MaxEvents
  /\ log' = [log EXCEPT ![c] = @ + 1]
  /\ UNCHANGED <<center, cloudIds, polls, poll, request, removed, published, cloudDisposed>>

-----------------------------------------------------------------------------
(* Polling. *)

NewPoll(c) == [conversation |-> c, cursor |-> 0, answer |-> 0, timers |-> 1, running |-> "no"]

\* A poll object for each conversation of the set, in any order.
AddPolls(new) ==
  LET n == Cardinality(new) IN
  /\ Len(poll) + n <= MaxPolls
  /\ \E order \in [1..n -> new] :
       /\ \A c \in new : \E i \in 1..n : order[i] = c
       /\ poll' = poll \o [i \in 1..n |-> NewPoll(order[i])]
       /\ polls' = [c \in Clouds |->
                      IF c \in new THEN Len(poll) + CHOOSE i \in 1..n : order[i] = c
                      ELSE polls[c]]

\* A bug: a conversation that is polled gets another poll.
StartPollingAgain(cs) == AddPolls({c \in cs : ~cloudDisposed})

\* startPolling for each conversation of the set that is not polled.
StartPolling(cs) == AddPolls({c \in cs : ~cloudDisposed /\ polls[c] = NoPoll})

\* stopPolling clears the timer armed last; an older one fires in vain.
StopPolling(cs) ==
  LET stopped == {p \in DOMAIN poll : polls[poll[p].conversation] = p
                                      /\ poll[p].conversation \in cs} IN
  /\ polls' = [c \in Clouds |-> IF c \in cs THEN NoPoll ELSE polls[c]]
  /\ poll' = [p \in DOMAIN poll |->
                IF p \in stopped /\ poll[p].timers > 0 THEN [poll[p] EXCEPT !.timers = @ - 1]
                ELSE poll[p]]

IsCurrentPoll(p) == ~cloudDisposed /\ polls[poll[p].conversation] = p

MayPoll(p) == IsCurrentPoll(p) /\ poll[p].running = "no"

\* A timer fires: the poll asks Center for what follows its cursor, unless it
\* was stopped or is asking already.
PollTimerFires(p) ==
  /\ p \in DOMAIN poll
  /\ poll[p].timers > 0
  /\ poll' = [poll EXCEPT ![p].timers = @ - 1,
                          ![p].running = IF MayPoll(p) THEN "loading" ELSE @]
  /\ UNCHANGED <<center, log, cloudIds, polls, request, removed, published, cloudDisposed>>

\* A bug: the next timer is not armed.
FinishedUnarmed(p) == [poll[p] EXCEPT !.running = "no", !.answer = 0]

\* The finally block of poll(): the next timer, unless the poll was stopped.
Finished(p) == [poll[p] EXCEPT !.running = "no", !.answer = 0,
                               !.timers = IF IsCurrentPoll(p) THEN @ + 1 ELSE @]

Between(low, high) == [i \in 1..(high - low) |-> low + i]

\* Center answers with the events it has at this moment, also of a conversation
\* it has just deleted.
CenterAnswers(p) ==
  /\ p \in DOMAIN poll
  /\ poll[p].running = "loading"
  /\ center[poll[p].conversation] # "absent"
  /\ poll' = [poll EXCEPT ![p].running = "answered", ![p].answer = log[poll[p].conversation]]
  /\ UNCHANGED <<center, log, cloudIds, polls, request, removed, published, cloudDisposed>>

\* The events after the cursor are published in order, even when the poll was
\* stopped meanwhile; when there were any, the summary is asked for.
EventsLoaded(p) ==
  /\ p \in DOMAIN poll
  /\ poll[p].running = "answered"
  /\ published' = [published EXCEPT
       ![poll[p].conversation] = @ \o Between(poll[p].cursor, poll[p].answer)]
  /\ poll' = [poll EXCEPT ![p] =
                IF @.answer > @.cursor
                THEN [@ EXCEPT !.cursor = poll[p].answer, !.answer = 0, !.running = "refreshing"]
                ELSE Finished(p)]
  /\ UNCHANGED <<center, log, cloudIds, polls, request, removed, cloudDisposed>>

\* The summary changes the list of conversations only.
SummaryLoaded(p) ==
  /\ p \in DOMAIN poll
  /\ poll[p].running = "refreshing"
  /\ poll' = [poll EXCEPT ![p] = Finished(p)]
  /\ UNCHANGED <<center, log, cloudIds, polls, request, removed, published, cloudDisposed>>

\* Either request fails: nothing is published, the next timer tries again.
PollFails(p) ==
  /\ p \in DOMAIN poll
  /\ poll[p].running # "no"
  /\ poll' = [poll EXCEPT ![p] = Finished(p)]
  /\ UNCHANGED <<center, log, cloudIds, polls, request, removed, published, cloudDisposed>>

-----------------------------------------------------------------------------
(* Requests of the renderer. *)

\* Of a request that is done nothing is kept.
Ended(r) == [request EXCEPT ![r] = [@ EXCEPT !.operation = "none", !.stage = "done", !.found = {}]]

Fresh(r) == r \in Requests /\ r \notin DOMAIN request

With(r, record) == [q \in DOMAIN request \cup {r} |-> IF q = r THEN record ELSE request[q]]

\* A conversation that is not in the cloud goes to the local service, except
\* to list, to create one, and to open one the local service does not know.
Asks(r, operation, c) ==
  /\ Fresh(r)
  /\ operation \in {"send", "remove"} => c \in cloudIds
  /\ operation = "create" => center[c] = "absent"
  /\ request' = With(r, [operation |-> operation, conversation |-> c,
                         stage |-> "asked", found |-> {}])
  /\ UNCHANGED <<center, log, cloudIds, polls, poll, removed, published, cloudDisposed>>

\* Center answers what it has at this moment.
CenterServes(r) ==
  /\ r \in DOMAIN request
  /\ request[r].stage = "asked"
  /\ LET c == request[r].conversation
         operation == request[r].operation IN
       /\ \/ operation = "create" /\ center[c] = "absent"
          \/ operation \in {"get", "send", "remove"} /\ center[c] = "present"
          \/ operation = "list"
       /\ center' = [center EXCEPT ![c] = CASE operation = "create" -> "present"
                                            [] operation = "remove" -> "deleted"
                                            [] OTHER -> @]
       /\ request' = [request EXCEPT
            ![r].stage = "served",
            ![r].found = IF operation = "list" THEN {d \in Clouds : center[d] = "present"} ELSE {c}]
  /\ UNCHANGED <<log, cloudIds, polls, poll, removed, published, cloudDisposed>>

\* The request fails, before or after Center carried it out.  A listing shows
\* the local conversations, every other one throws.
RequestFails(r) ==
  /\ r \in DOMAIN request
  /\ request[r].stage # "done"
  /\ request[r].operation # "pollNow"
  /\ request' = Ended(r)
  /\ UNCHANGED <<center, log, cloudIds, polls, poll, removed, published, cloudDisposed>>

Returning(r, operations) ==
  /\ r \in DOMAIN request
  /\ request[r].stage = "served"
  /\ request[r].operation \in operations
  /\ request' = Ended(r)

\* rememberCloud, then startPolling.
Found(r) ==
  /\ Returning(r, {"list", "get", "create"})
  /\ cloudIds' = cloudIds \cup request[r].found
  /\ StartPolling(request[r].found)
  /\ UNCHANGED <<center, log, removed, published, cloudDisposed>>

\* sendMessage and cancel make sure that the conversation is polled.
MessageSent(r) ==
  /\ Returning(r, {"send"})
  /\ StartPolling(request[r].found)
  /\ UNCHANGED <<center, log, cloudIds, removed, published, cloudDisposed>>

Removed(r) ==
  /\ Returning(r, {"remove"})
  /\ StopPolling(request[r].found)
  /\ cloudIds' = cloudIds \ request[r].found
  /\ removed' = removed \cup request[r].found
  /\ UNCHANGED <<center, log, published, cloudDisposed>>

\* pollConversationNow: the poll is started if need be, and polls at once; the
\* timer that is armed stays armed.
PollsNow(r) ==
  /\ r \in DOMAIN request
  /\ request[r].operation = "pollNow"
  /\ request[r].stage = "asked"
  /\ request' = Ended(r)
  /\ LET c == request[r].conversation IN
       \/ /\ polls[c] # NoPoll
          /\ poll' = [poll EXCEPT ![polls[c]].running = IF MayPoll(polls[c]) THEN "loading" ELSE @]
          /\ UNCHANGED polls
       \/ /\ polls[c] = NoPoll
          /\ cloudDisposed
          /\ UNCHANGED <<polls, poll>>
       \/ /\ polls[c] = NoPoll
          /\ ~cloudDisposed
          /\ Len(poll) < MaxPolls
          /\ poll' = Append(poll, [NewPoll(c) EXCEPT !.running = "loading"])
          /\ polls' = [polls EXCEPT ![c] = Len(poll) + 1]
  /\ UNCHANGED <<center, log, cloudIds, removed, published, cloudDisposed>>

Dispose ==
  /\ ~cloudDisposed
  /\ cloudDisposed' = TRUE
  /\ StopPolling(Clouds)
  /\ UNCHANGED <<center, log, cloudIds, request, removed, published>>

CloudNext ==
  \/ Dispose
  \/ \E c \in Clouds :
       \/ CenterAppends(c)
       \/ \E r \in Requests, operation \in Operations : Asks(r, operation, c)
  \/ \E p \in Polls :
       PollTimerFires(p) \/ CenterAnswers(p) \/ EventsLoaded(p) \/ SummaryLoaded(p) \/ PollFails(p)
  \/ \E r \in Requests :
       CenterServes(r) \/ RequestFails(r) \/ Found(r) \/ MessageSent(r) \/ Removed(r) \/ PollsNow(r)

CloudSpec == CloudInit /\ [][CloudNext]_cloudVars

-----------------------------------------------------------------------------
PollsOf(c) == {p \in DOMAIN poll : poll[p].conversation = c}

(* The renderer gets the events of a conversation in order, each once and    *)
(* none skipped, whatever lists, openings, sends, forced polls, failures and *)
(* late answers do meanwhile: there is one poll of it, from before the first *)
(* event to beyond its removal. Only a conversation whose removal has        *)
(* returned may get another one, when a list that was read before brings it  *)
(* back (:112-119, startPolling): that one begins again at the first event.  *)
EventsInOrder ==
  \A c \in Clouds :
    /\ c \notin removed => \A p, q \in PollsOf(c) : p = q
    /\ \A p \in PollsOf(c) : PollsOf(c) = {p} => published[c] = Between(0, poll[p].cursor)

(* Every conversation the desktop knows to be in the cloud is polled until   *)
(* the service is disposed, and its poll never dies out: it waits for an     *)
(* answer or a timer is armed, however requests, forced polls, removals and  *)
(* failures interleave.                                                      *)
KnownCloudsArePolled ==
  \A c \in cloudIds : ~cloudDisposed =>
    /\ polls[c] # NoPoll
    /\ poll[polls[c]].timers > 0 \/ poll[polls[c]].running # "no"
=============================================================================
