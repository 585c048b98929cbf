-------------------------------- MODULE Rabbit --------------------------------
(***************************************************************************)
(* The RabbitMQ executor (crates/rabbitmq/src/provider.rs and              *)
(* statement.rs): one HTTP client of the management API under a lease, set *)
(* up by a thread that cannot be cancelled and that all connections take   *)
(* in turns, pages, and the statements of the editor with what the native  *)
(* status says of them.                                                    *)
(*                                                                         *)
(* A statement that reads, GET with acknowledgement among them, is shown   *)
(* or is an error; only the others are told by WriteOutcome. An error      *)
(* status of the management API is taken, as the code does, for a refusal. *)
(***************************************************************************)
EXTENDS Integers

CONSTANT MaxWrite       \* bound: statements that write

VARIABLE mq

-----------------------------------------------------------------------------
(* Data *)

Write == 1 .. MaxWrite
Kind == {"page", "get", "raw", "write"}

NoOp == [kind |-> "none", at |-> "idle", write |-> 0, dispatched |-> FALSE]

Idle == mq.op.kind = "none"
At(place) == mq.op.at = place
W == mq.op.write
OfEditor == mq.op.kind # "page"
Reads == mq.op.kind # "write"

Fresh(w) == mq.report[w] = "none" /\ \A v \in 1 .. w - 1 : mq.report[v] # "none"

-----------------------------------------------------------------------------
(* fetch_page, check and execute_query take the lease *)

Ask ==
    /\ Idle /\ ~mq.closed
    /\ \/ \E kind \in Kind \ {"write"} :
             mq' = [mq EXCEPT !.op = [NoOp EXCEPT !.kind = kind, !.at = "lease"]]
       \/ \E w \in Write :
             /\ Fresh(w)
             /\ mq' = [mq EXCEPT !.op = [NoOp EXCEPT !.kind = "write", !.at = "lease",
                                                     !.write = w]]

Reported(state, outcome) ==
    IF W = 0 THEN state ELSE [state EXCEPT !.report[W] = outcome]

(* A statement that does not parse or fit, a bookmark of something else,   *)
(* a cancellation before the lease: nothing is touched.                    *)
AskFails ==
    /\ At("lease")
    /\ mq' = Reported([mq EXCEPT !.op = NoOp], "error")

(* The drop of the lease: one that is not clean takes the client with it,  *)
(* and the request that may still be on its connection.                    *)
Ends(clean, outcome) ==
    Reported([mq EXCEPT !.op = NoOp,
                        !.client = IF clean THEN "free" ELSE "none",
                        !.status = IF clean THEN "Connected" ELSE "Disconnected"], outcome)

Lease ==
    /\ At("lease")
    /\ mq' = IF mq.client = "none"
             THEN [mq EXCEPT !.op.at = "setup", !.status = "Connecting"]
             ELSE [mq EXCEPT !.op.at = "ready"]

-----------------------------------------------------------------------------
(* client(): the permit, and the thread that holds it *)

(* slot: who sets a client up, this request, or one that was cancelled, or *)
(* another connection.                                                     *)
Acquire ==
    /\ At("setup") /\ mq.slot = "free"
    /\ mq' = [mq EXCEPT !.slot = "mine", !.op.at = "thread"]

Prepared ==
    /\ At("thread")
    /\ mq' = [mq EXCEPT !.slot = "free", !.client = "free", !.op.at = "ready"]

(* No trust roots, or certificates that cannot be read.                    *)
PrepareFails ==
    /\ At("thread")
    /\ mq' = [Ends(FALSE, "error") EXCEPT !.slot = "free"]

OtherTakes == mq.slot = "free" /\ mq' = [mq EXCEPT !.slot = "other"]

OtherEnds == mq.slot = "other" /\ mq' = [mq EXCEPT !.slot = "free"]

-----------------------------------------------------------------------------
(* The request *)

Send ==
    /\ At("ready")
    /\ mq' = [mq EXCEPT !.op.at = "sent", !.op.dispatched = OfEditor, !.client = "busy",
                        !.effect = IF W = 0 THEN @ ELSE [@ EXCEPT ![W] = "running"]]

(* The management API answers what it did.                                 *)
Possible(success) ==
    W # 0 => IF success THEN mq.effect[W] = "done" ELSE mq.effect[W] = "refused"

(* A page needs a success that can be shown; of the editor's statements    *)
(* any answer that was read leaves the client clean (outcome).             *)
Answered ==
    /\ At("sent")
    /\ \E success \in BOOLEAN :
          /\ Possible(success)
          /\ mq' = Ends(OfEditor \/ success, IF success THEN "Applied" ELSE "Rejected")

(* The connection breaks, or the answer is larger than what is shown.      *)
Lost ==
    /\ At("sent")
    /\ mq' = Ends(FALSE, IF mq.op.dispatched /\ ~Reads THEN "Unknown" ELSE "error")

(* Mutation: the lease of a request that was cancelled ends clean.         *)
InterruptedKeeps ==
    /\ mq.op.at \in {"setup", "thread", "ready", "sent"}
    /\ mq' = [mq EXCEPT !.op = NoOp, !.slot = IF At("thread") THEN "other" ELSE @]

(* A cancellation or the deadline: a thread that sets up goes on alone and *)
(* keeps the slot until it ends.                                           *)
Interrupted ==
    /\ mq.op.at \in {"setup", "thread", "ready", "sent"}
    /\ mq' = [Ends(FALSE, IF mq.op.dispatched /\ ~Reads THEN "Unknown" ELSE "error")
                EXCEPT !.slot = IF At("thread") THEN "other" ELSE @]

(* The server runs a statement or refuses it, whoever still waits.         *)
Run ==
    \E w \in Write :
        /\ mq.effect[w] = "running"
        /\ \/ mq' = [mq EXCEPT !.effect[w] = "done"]
           \/ mq' = [mq EXCEPT !.effect[w] = "refused"]

-----------------------------------------------------------------------------
Shutdown ==
    /\ Idle /\ ~mq.closed
    /\ mq' = [mq EXCEPT !.closed = TRUE, !.client = "none", !.status = "Closed"]

Init ==
    mq = [client |-> "none", status |-> "Configured", closed |-> FALSE, slot |-> "free",
          op |-> NoOp, effect |-> [w \in Write |-> "no"], report |-> [w \in Write |-> "none"]]

Progress == Lease \/ Interrupted

Done == mq.closed /\ UNCHANGED mq

Next ==
    \/ Ask \/ AskFails \/ Progress \/ Acquire \/ Prepared \/ PrepareFails
    \/ OtherTakes \/ OtherEnds \/ Send \/ Answered \/ Lost \/ Run \/ Shutdown
    \/ Done

Spec == Init /\ [][Next]_mq

-----------------------------------------------------------------------------
(* Properties *)

TypeOK ==
    /\ mq.client \in {"none", "free", "busy"} /\ mq.slot \in {"free", "mine", "other"}
    /\ mq.op.at \in {"idle", "lease", "setup", "thread", "ready", "sent"}
    /\ mq.slot = "mine" <=> At("thread")
    /\ mq.effect \in [Write -> {"no", "running", "done", "refused"}]
    /\ mq.report \in [Write -> {"none", "error", "Applied", "Rejected", "Unknown"}]

(* Nobody leaves a client behind whose connection still has a request.     *)
NothingLeft == Idle => mq.client # "busy"

Statements == INSTANCE WriteOutcome WITH
    sent <- [w \in Write |-> mq.effect[w] # "no"],
    effect <- [w \in Write |-> mq.effect[w] = "done"],
    report <- mq.report

ImplementsWriteOutcome == Statements!Spec

=============================================================================
