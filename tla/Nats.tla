-------------------------------- MODULE Nats --------------------------------
(***************************************************************************)
(* The NATS executor (crates/nats/src/provider.rs and                      *)
(* core_subscription.rs): one client that reconnects by itself, the event  *)
(* callback that runs beside the executor, one Core subscription, and      *)
(* publishing. The worker asks one thing at a time, so the mutex around    *)
(* the session is never contended.                                         *)
(*                                                                         *)
(* A client is numbered, and a callback is current while "gen" is its      *)
(* client's number; the code increments a counter to the same end.         *)
(***************************************************************************)
EXTENDS Integers, Sequences

CONSTANTS
    MaxConnect,     \* bound: clients
    MaxWrite,       \* bound: publishes
    MaxMessage,     \* bound: messages of the followed subject
    QueueLimit,     \* messages the client queues for a subscription
    MaxEvents,      \* bound: events of a client that wait for its callback
    MaxDown,        \* bound: failures of the servers
    MaxFollow,      \* bound: subscriptions
    MaxBatch        \* bound: batches of each

VARIABLE nats

-----------------------------------------------------------------------------
(* Data *)

Conn == 1 .. MaxConnect
Write == 1 .. MaxWrite
Message == 1 .. MaxMessage
Event == {"connected", "disconnected", "overflow", "server_error"}
Tells == {"disconnected", "overflow"}       \* what loses messages
Page == {"page", "open", "next", "check"}

(* batch: the cursor is the subscription's identity and this number.       *)
(* pending: the message that did not fit. arrived, shown, lost: history:  *)
(* what was published since it began, and what the caller was shown of it. *)
NoSub == [id |-> 0, batch |-> 0, queue |-> <<>>, pending |-> <<>>, arrived |-> 0,
          shown |-> <<>>, lost |-> FALSE]
Subscription == [id : 0 .. MaxFollow, batch : 0 .. MaxBatch, queue : Seq(Message),
                 pending : Seq(Message), arrived : 0 .. MaxMessage, shown : Seq(Message),
                 lost : BOOLEAN]

NoOp == [kind |-> "none", at |-> "idle", write |-> 0, conn |-> 0, rows |-> <<>>]

Idle == nats.op.kind = "none"
At(place) == nats.op.at = place
Up == nats.slot # 0 /\ nats.link[nats.slot] = "up"
Following == nats.slot # 0 /\ nats.sub.id # 0

Told(status) == [nats EXCEPT !.op = NoOp, !.status = status]

(* The client is dropped: no callback is current any more, and what waits  *)
(* for one is without effect.                                              *)
Dropped(state) ==
    [state EXCEPT !.slot = 0, !.events = [c \in Conn |-> <<>>], !.gen = 0, !.status = "Disconnected", !.sub = NoSub,
                  !.link = [c \in Conn |-> IF c = state.slot THEN "dropped" ELSE state.link[c]]]

-----------------------------------------------------------------------------
(* The worker asks *)

Ask ==
    /\ Idle /\ ~nats.closed
    /\ \E kind \in Page \union {"stop"} :
          /\ kind = "open" => nats.ids < MaxFollow
          /\ kind = "next" => nats.sub.batch < MaxBatch
          /\ nats' = [nats EXCEPT !.op = [NoOp EXCEPT !.kind = kind,
                                    !.at = IF kind = "stop" THEN "stop" ELSE "lease"]]

Publish ==
    /\ Idle /\ ~nats.closed
    /\ \E w \in Write :
          /\ nats.report[w] = "none" /\ \A v \in 1 .. w - 1 : nats.report[v] # "none"
          /\ nats' = [nats EXCEPT !.op = [NoOp EXCEPT !.kind = "publish", !.at = "lease",
                                                      !.write = w]]

Ready == IF nats.op.kind = "publish" THEN "send" ELSE "work"

(* ensure_session: a client that is connected is used again.               *)
Reuse ==
    /\ At("lease") /\ Up
    /\ nats' = [nats EXCEPT !.op.at = Ready]

(* connect: the errors are cleared and the callback becomes current first. *)
Connect ==
    /\ At("lease") /\ ~Up
    /\ \E c \in Conn :
          /\ nats.link[c] = "unused" /\ \A d \in 1 .. c - 1 : nats.link[d] # "unused"
          /\ nats' = [Dropped(nats) EXCEPT
                        !.status = "Connecting", !.gen = c, !.err = FALSE,
                        !.op = [nats.op EXCEPT !.at = "connect", !.conn = c]]

Connected ==
    /\ At("connect")
    /\ LET c == nats.op.conn IN
       nats' = [nats EXCEPT !.slot = c, !.link[c] = "up", !.status = "Connected",
                            !.events[c] = <<"connected">>, !.op.at = Ready]

(* The report of a publish that has no acknowledgement (publish_failure).  *)
Failure(state) ==
    IF nats.op.kind # "publish" THEN state
    ELSE [state EXCEPT !.report[nats.op.write] =
             IF nats.stored[nats.op.write] = "no" THEN "error" ELSE "Unknown"]

(* Also a cancellation or the deadline: context.run drops the attempt.     *)
ConnectFails ==
    /\ At("connect")
    /\ nats' = Failure([Told("Disconnected") EXCEPT !.gen = 0, !.link[nats.op.conn] = "dropped"])

(* Before the lease, or where a bound stops the model from connecting.     *)
AskFails ==
    /\ At("lease")
    /\ nats' = Failure([nats EXCEPT !.op = NoOp])

-----------------------------------------------------------------------------
(* A page, a batch or a check *)

Stopped(state) == [state EXCEPT !.sub = NoSub]

(* Subscription::start: a subscription ends before the next one begins.    *)
Started(state) == [state EXCEPT !.sub = [NoSub EXCEPT !.id = nats.ids + 1], !.ids = @ + 1]

HeldFits == nats.held = <<nats.sub.id, nats.sub.batch>>

(* Subscription::page: what is queued, up to the message that does not     *)
(* fit, which waits for the next batch.                                    *)
Batch(taken, waits) ==
    LET all == nats.sub.pending \o nats.sub.queue IN
    [nats EXCEPT !.op.at = "decode",
                 !.op.rows = SubSeq(all, 1, taken),
                 !.sub.pending = IF waits THEN <<all[taken + 1]>> ELSE <<>>,
                 !.sub.queue = SubSeq(all, taken + (IF waits THEN 2 ELSE 1), Len(all)),
                 !.sub.batch = @ + 1]

(* Mutation: the message that does not fit is dropped.                     *)
TakeForgets ==
    /\ At("work") /\ nats.op.kind = "next" /\ Up /\ Following /\ HeldFits /\ ~nats.err
    /\ LET all == nats.sub.pending \o nats.sub.queue IN
       \E taken \in 0 .. Len(all) :
          nats' = [Batch(Len(all), FALSE) EXCEPT !.op.rows = SubSeq(all, 1, taken)]

Take ==
    /\ At("work") /\ nats.op.kind = "next" /\ Up /\ Following /\ HeldFits /\ ~nats.err
    /\ LET all == nats.sub.pending \o nats.sub.queue IN
       \/ nats' = Batch(Len(all), FALSE)
       \/ \E taken \in 1 .. Len(all) - 1 : nats' = Batch(taken, TRUE)

(* A batch without a cursor only opens; any other page stops following.    *)
Work ==
    /\ At("work") /\ nats.op.kind # "next" /\ Up /\ ~nats.err
    /\ nats' = [CASE nats.op.kind = "open" -> [Started(nats) EXCEPT !.sub.batch = 1]
                  [] nats.op.kind = "page" -> Stopped(nats)
                  [] OTHER -> nats
                EXCEPT !.op.at = "decode"]

(* The decoders have run; the page is the caller's.                        *)
PageEnds ==
    /\ At("decode")
    /\ nats' = IF nats.op.kind \in {"open", "next"}
               THEN [nats EXCEPT !.op = NoOp, !.held = <<nats.sub.id, nats.sub.batch>>,
                                 !.sub.shown = @ \o nats.op.rows]
               ELSE [nats EXCEPT !.op = NoOp]

(* The server's own refusal leaves a connected client alone.               *)
Rejected ==
    /\ At("decode") /\ nats.op.kind \in {"page", "check"} /\ Up
    /\ nats' = Told("Connected")

(* An error of the callback, a cursor that is stale, a message beyond the  *)
(* limits, a decoder, the transport, a cancellation or the deadline: the   *)
(* client goes, with all it still owed.                                    *)
PageFails ==
    /\ nats.op.at \in {"work", "decode"}
    /\ nats' = [Dropped(nats) EXCEPT !.op = NoOp]

(* stop_follow                                                             *)
StopEnds == At("stop") /\ nats' = [Stopped(nats) EXCEPT !.op = NoOp]

StopFails ==
    /\ At("stop") /\ nats.slot # 0
    /\ nats' = [Dropped(nats) EXCEPT !.op = NoOp]

-----------------------------------------------------------------------------
(* Publishing *)

Send ==
    /\ At("send")
    /\ nats' = [nats EXCEPT !.op.at = "ack", !.stored[nats.op.write] = "running"]

(* After a publish the client is kept if it is connected.                  *)
Published(state) ==
    IF Up THEN [state EXCEPT !.op = NoOp, !.status = "Connected"]
    ELSE [Dropped(state) EXCEPT !.op = NoOp]

Acknowledged ==
    /\ At("ack") /\ nats.stored[nats.op.write] = "stored"
    /\ nats' = Published([nats EXCEPT !.report[nats.op.write] = "Applied"])

(* send_publish failed, or the acknowledgement is a refusal or never came. *)
PublishFails ==
    /\ nats.op.at \in {"send", "ack"}
    /\ nats' = Published(Failure(nats))

(* The stream stores the message or does not, whoever waits for it.        *)
Store ==
    \E w \in Write, result \in {"stored", "refused"} :
        nats.stored[w] = "running" /\ nats' = [nats EXCEPT !.stored[w] = result]

-----------------------------------------------------------------------------
(* The end of the executor *)

(* The subscription is dropped and the client drained.                     *)
Shutdown ==
    /\ Idle /\ ~nats.closed
    /\ nats' = [nats EXCEPT !.closed = TRUE, !.status = "Closing", !.slot = 0, !.sub = NoSub,
                            !.op = [NoOp EXCEPT !.kind = "shutdown", !.at = "drain",
                                                !.conn = nats.slot]]

(* Drained, nothing to drain, or the second is over.                       *)
ShutdownEnds == At("drain") /\ nats' = Told("Closed")

-----------------------------------------------------------------------------
(* The client's own tasks *)

Room(c) == Len(nats.events[c]) < MaxEvents

LoseServer(c) ==
    /\ nats.link[c] = "up" /\ Room(c) /\ nats.downs < MaxDown
    /\ nats' = [nats EXCEPT !.link[c] = "down", !.downs = @ + 1,
                            !.events[c] = Append(@, "disconnected")]

(* The client reconnects and subscribes again by itself.                   *)
Reconnect(c) ==
    /\ nats.link[c] = "down" /\ Room(c)
    /\ nats' = [nats EXCEPT !.link[c] = "up", !.events[c] = Append(@, "connected")]

ServerError(c) ==
    /\ nats.link[c] = "up" /\ Room(c) /\ nats.downs < MaxDown
    /\ nats' = [nats EXCEPT !.events[c] = Append(@, "server_error"), !.downs = @ + 1]

(* Someone publishes on the subject: Core NATS delivers at most once.      *)
Arrive ==
    /\ Following /\ nats.sub.arrived < MaxMessage
    /\ LET m == nats.sub.arrived + 1 IN
       \/ /\ Up /\ Len(nats.sub.queue) < QueueLimit
          /\ nats' = [nats EXCEPT !.sub.arrived = m, !.sub.queue = Append(@, m)]
       \/ /\ Up /\ Len(nats.sub.queue) = QueueLimit /\ Room(nats.slot)
          /\ nats' = [nats EXCEPT !.sub.arrived = m, !.sub.lost = TRUE,
                                  !.events[nats.slot] = Append(@, "overflow")]
       \/ ~Up /\ nats' = [nats EXCEPT !.sub.arrived = m, !.sub.lost = TRUE]

(* The callback looks at the generation and the status, then acts.         *)
Callback(c) ==
    /\ nats.running[c] = "none" /\ nats.events[c] # <<>>
    /\ nats' = [nats EXCEPT !.events[c] = Tail(@),
                            !.running[c] = IF nats.gen = c /\ ~nats.closed
                                           THEN Head(nats.events[c]) ELSE "none"]

CallbackActs(c) ==
    /\ nats.running[c] # "none"
    /\ nats' = [nats EXCEPT
                  !.running[c] = "none",
                  !.status = CASE nats.running[c] = "connected" -> "Connected"
                               [] nats.running[c] = "disconnected" -> "Disconnected"
                               [] OTHER -> @,
                  !.err = @ \/ nats.running[c] # "connected"]

-----------------------------------------------------------------------------
Init ==
    nats = [slot |-> 0, link |-> [c \in Conn |-> "unused"], gen |-> 0,
            events |-> [c \in Conn |-> <<>>], running |-> [c \in Conn |-> "none"],
            downs |-> 0,
            status |-> "Configured", err |-> FALSE, closed |-> FALSE, op |-> NoOp,
            sub |-> NoSub, ids |-> 0, held |-> <<0, 0>>,
            stored |-> [w \in Write |-> "no"], report |-> [w \in Write |-> "none"]]

(* What an operation does when its deadline comes.                         *)
Progress ==
    \/ Reuse \/ ConnectFails \/ AskFails \/ PageFails \/ StopFails \/ StopEnds
    \/ PublishFails \/ ShutdownEnds

Done == nats.closed /\ Idle /\ UNCHANGED nats

Next ==
    \/ Ask \/ Publish \/ Progress \/ Connect \/ Connected \/ Take \/ Work \/ PageEnds \/ Rejected
    \/ Send \/ Acknowledged \/ Store \/ Shutdown \/ Arrive
    \/ \E c \in Conn : LoseServer(c) \/ Reconnect(c) \/ ServerError(c)
                       \/ Callback(c) \/ CallbackActs(c)
    \/ Done

Spec == Init /\ [][Next]_nats

-----------------------------------------------------------------------------
(* Properties *)

TypeOK ==
    /\ nats.slot \in 0 .. MaxConnect /\ nats.gen \in 0 .. MaxConnect
    /\ nats.link \in [Conn -> {"unused", "up", "down", "dropped"}]
    /\ nats.running \in [Conn -> Event \union {"none"}]
    /\ \A c \in Conn : nats.events[c] \in Seq(Event) /\ Len(nats.events[c]) <= MaxEvents
    /\ nats.sub \in Subscription /\ Len(nats.sub.queue) <= QueueLimit
    /\ nats.report \in [Write -> {"none", "error", "Applied", "Unknown"}]

(* Whoever follows a subject has been shown its messages from the first on *)
(* and in order, and the next batches hold the others; where a message was *)
(* lost, an error of the callback is there, or on its way, to end the      *)
(* following.                                                              *)
LossIsTold ==
    Following =>
        \/ /\ ~nats.sub.lost
           /\ LET all == nats.sub.shown \o nats.op.rows \o nats.sub.pending \o nats.sub.queue IN
              all = [i \in 1 .. nats.sub.arrived |-> i]
        \/ nats.sub.lost /\ nats.err
        \/ /\ nats.sub.lost
           /\ \/ nats.running[nats.slot] \in Tells
              \/ \E i \in 1 .. Len(nats.events[nats.slot]) : nats.events[nats.slot][i] \in Tells

Statements == INSTANCE WriteOutcome WITH
    sent <- [w \in Write |-> nats.stored[w] # "no"],
    effect <- [w \in Write |-> nats.stored[w] = "stored"],
    report <- nats.report

ImplementsWriteOutcome == Statements!Spec

=============================================================================
