-------------------------------- MODULE Qdrant --------------------------------
(***************************************************************************)
(* The Qdrant executor (crates/qdrant/src/provider.rs and the requests of  *)
(* crates/http-query): a gRPC channel for collections and points, an HTTP  *)
(* client for the topology and for the editor's requests, each under its   *)
(* own lease and both behind one status.                                   *)
(*                                                                         *)
(* An answer to an editor's request, whatever its HTTP status, is a page   *)
(* and says by itself what happened: "shown". The promise of WriteOutcome  *)
(* is about the other answers.                                             *)
(***************************************************************************)
EXTENDS Integers

CONSTANT MaxWrite       \* bound: requests of the editor that may write

VARIABLE qd

-----------------------------------------------------------------------------
(* Data *)

Write == 1 .. MaxWrite

(* A page through gRPC, a page of the topology, a GET or HEAD of the       *)
(* editor, and a request with any other method.                            *)
Kind == {"page", "topology", "get", "write"}
Client == {"grpc", "rest"}

NoOp == [kind |-> "none", at |-> "idle", write |-> 0, dispatched |-> FALSE]

Idle == qd.op.kind = "none"
At(place) == qd.op.at = place
W == qd.op.write
OfEditor == qd.op.kind \in {"get", "write"}
Mine == IF qd.op.kind = "page" THEN "grpc" ELSE "rest"

Fresh(w) == qd.report[w] = "none" /\ \A v \in 1 .. w - 1 : qd.report[v] # "none"

-----------------------------------------------------------------------------
(* fetch_page, check, execute_query and their leases *)

Ask ==
    /\ Idle /\ ~qd.closed
    /\ \/ \E kind \in Kind \ {"write"} :
             qd' = [qd EXCEPT !.op = [NoOp EXCEPT !.kind = kind, !.at = "lease"]]
       \/ \E w \in Write :
             /\ Fresh(w)
             /\ qd' = [qd EXCEPT !.op = [NoOp EXCEPT !.kind = "write", !.at = "lease",
                                                     !.write = w]]

Reported(state, outcome) ==
    IF W = 0 THEN state ELSE [state EXCEPT !.report[W] = outcome]

(* No rest_url, a path that leaves the endpoint, a bookmark of something   *)
(* else, or a cancellation before the lease.                               *)
AskFails ==
    /\ At("lease")
    /\ qd' = Reported([qd EXCEPT !.op = NoOp], "error")

Ends(clean, outcome) ==
    Reported([qd EXCEPT !.op = NoOp,
                        !.client[Mine] = IF clean THEN "free" ELSE "none",
                        !.status = IF clean THEN "Connected" ELSE "Disconnected"], outcome)

Lease ==
    /\ At("lease")
    /\ qd' = IF qd.client[Mine] # "none" THEN [qd EXCEPT !.op.at = "ready"]
             ELSE [qd EXCEPT !.status = "Connecting",
                             !.op.at = IF Mine = "grpc" THEN "connect" ELSE "setup"]

(* execute: the channel connects within the deadline.                      *)
Connected ==
    /\ At("connect")
    /\ qd' = [qd EXCEPT !.client["grpc"] = "free", !.op.at = "ready"]

ConnectFails == At("connect") /\ qd' = Ends(FALSE, "error")

(* connect_rest: one thread at a time, of all connections; it cannot be    *)
(* cancelled and keeps the slot to its end.                                *)
Acquire ==
    /\ At("setup") /\ qd.slot = "free"
    /\ qd' = [qd EXCEPT !.slot = "mine", !.op.at = "thread"]

Prepared ==
    /\ At("thread")
    /\ qd' = [qd EXCEPT !.slot = "free", !.client["rest"] = "free", !.op.at = "ready"]

PrepareFails == At("thread") /\ qd' = [Ends(FALSE, "error") EXCEPT !.slot = "free"]

OtherTakes == qd.slot = "free" /\ qd' = [qd EXCEPT !.slot = "other"]

OtherEnds == qd.slot = "other" /\ qd' = [qd EXCEPT !.slot = "free"]

-----------------------------------------------------------------------------
(* The request *)

Send ==
    /\ At("ready")
    /\ qd' = [qd EXCEPT !.op.at = "sent", !.op.dispatched = OfEditor, !.client[Mine] = "busy",
                        !.effect = IF W = 0 THEN @ ELSE [@ EXCEPT ![W] = "running"]]

(* A page that can be shown, or any answer to the editor.                  *)
Answered ==
    /\ At("sent")
    /\ W # 0 => qd.effect[W] # "running"
    /\ qd' = Ends(TRUE, "shown")

(* What is said when no answer could be shown.                             *)
Doubt == IF qd.op.dispatched /\ qd.op.kind = "write" THEN "Unknown" ELSE "error"

(* No answer, one that is too large, or a failed status of a page.         *)
Lost ==
    /\ At("sent")
    /\ qd' = Ends(FALSE, Doubt)

(* A cancellation or the deadline, also after the page was formatted.      *)
Interrupted ==
    /\ qd.op.at \in {"connect", "setup", "thread", "ready", "sent"}
    /\ qd' = [Ends(FALSE, Doubt) EXCEPT !.slot = IF At("thread") THEN "other" ELSE @]

Run ==
    \E w \in Write :
        /\ qd.effect[w] = "running"
        /\ \/ qd' = [qd EXCEPT !.effect[w] = "done"]
           \/ qd' = [qd EXCEPT !.effect[w] = "refused"]

-----------------------------------------------------------------------------
Shutdown ==
    /\ Idle /\ ~qd.closed
    /\ qd' = [qd EXCEPT !.closed = TRUE, !.client = [c \in Client |-> "none"],
                        !.status = "Closed"]

Init ==
    qd = [client |-> [c \in Client |-> "none"], status |-> "Configured", closed |-> FALSE,
          slot |-> "free", op |-> NoOp,
          effect |-> [w \in Write |-> "no"], report |-> [w \in Write |-> "none"]]

Progress == Lease \/ Interrupted

Done == qd.closed /\ UNCHANGED qd

Next ==
    \/ Ask \/ AskFails \/ Progress \/ Connected \/ ConnectFails \/ Acquire \/ Prepared
    \/ PrepareFails \/ OtherTakes \/ OtherEnds \/ Send \/ Answered \/ Lost \/ Run \/ Shutdown
    \/ Done

Spec == Init /\ [][Next]_qd

-----------------------------------------------------------------------------
(* Properties *)

TypeOK ==
    /\ qd.client \in [Client -> {"none", "free", "busy"}]
    /\ qd.slot \in {"free", "mine", "other"} /\ (qd.slot = "mine" <=> At("thread"))
    /\ qd.op.at \in {"idle", "lease", "connect", "setup", "thread", "ready", "sent"}
    /\ qd.effect \in [Write -> {"no", "running", "done", "refused"}]
    /\ qd.report \in [Write -> {"none", "error", "shown", "Unknown"}]

(* Nobody leaves a client behind whose connection still has a request, and *)
(* a status of "Connected" is that of a client.                            *)
NothingLeft ==
    Idle => /\ \A c \in Client : qd.client[c] # "busy"
            /\ qd.status = "Connected" => \E c \in Client : qd.client[c] = "free"

(* An answer that is shown is "applied" or "rejected" as the server says.  *)
Statements == INSTANCE WriteOutcome WITH
    sent <- [w \in Write |-> qd.effect[w] # "no"],
    effect <- [w \in Write |-> qd.effect[w] = "done"],
    report <- [w \in Write |-> IF qd.report[w] # "shown" THEN qd.report[w]
                               ELSE IF qd.effect[w] = "done" THEN "Applied" ELSE "Rejected"]

ImplementsWriteOutcome == Statements!Spec

=============================================================================
