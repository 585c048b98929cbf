-------------------------------- MODULE Dynamo --------------------------------
(***************************************************************************)
(* The DynamoDB executor (crates/dynamodb/src/provider.rs, api.rs and      *)
(* response.rs): one client under a lease, pages that the client may retry *)
(* and PartiQL statements that it may not, and what is said of a statement *)
(* whose answer never came or could not be shown. The worker asks one      *)
(* thing at a time, so the lock of the client is never contended.          *)
(***************************************************************************)
EXTENDS Integers

CONSTANTS
    MaxStatement,   \* bound: PartiQL statements
    MaxAttempt      \* bound: HTTP requests of a page, 3 in the SDK

VARIABLE ddb

-----------------------------------------------------------------------------
(* Data *)

Statement == 1 .. MaxStatement

(* A page of a view, a page of a query, a statement or transaction of the  *)
(* editor, and the connection check.                                       *)
Kind == {"page", "query", "statement", "check"}
OfEditor == ddb.op.kind \in {"query", "statement"}

(* What HTTP tells of a request: capture.status().                         *)
Answer == {"none", "2xx", "4xx", "5xx"}

(* progress: dispatched, and native_completed.                             *)
NoOp == [kind |-> "none", at |-> "idle", statement |-> 0, dispatched |-> FALSE,
         completed |-> FALSE, attempts |-> 0]

Idle == ddb.op.kind = "none"
At(place) == ddb.op.at = place
W == ddb.op.statement

Fresh(w) == ddb.report[w] = "none" /\ \A v \in 1 .. w - 1 : ddb.report[v] # "none"

-----------------------------------------------------------------------------
(* The worker asks: DynamoDbExecutor::read and check *)

Ask ==
    /\ Idle /\ ~ddb.closed
    /\ \/ \E kind \in Kind \ {"statement"} :
             ddb' = [ddb EXCEPT !.op = [NoOp EXCEPT !.kind = kind, !.at = "lease"]]
       \/ \E w \in Statement :
             /\ Fresh(w)
             /\ ddb' = [ddb EXCEPT !.op = [NoOp EXCEPT !.kind = "statement", !.at = "lease",
                                                       !.statement = w]]

Reported(state, outcome) ==
    IF W = 0 THEN state ELSE [state EXCEPT !.report[W] = outcome]

(* The statement does not parse, the bookmark belongs to something else,   *)
(* or a cancellation before the lease.                                     *)
AskFails ==
    /\ At("lease")
    /\ ddb' = Reported([ddb EXCEPT !.op = NoOp], "error")

(* The lease ends: whoever does not leave it clean drops the client.       *)
Ends(clean, outcome) ==
    Reported([ddb EXCEPT !.op = NoOp, !.client = @ /\ clean,
                         !.status = IF clean THEN "Connected" ELSE "Disconnected"], outcome)

(* A query whose attempt ended by itself keeps the client.                 *)
EndsByItself(outcome) == Ends(OfEditor /\ ddb.client, outcome)

Lease ==
    /\ At("lease")
    /\ ddb' = [ddb EXCEPT !.op.at = IF ddb.client THEN "dispatch" ELSE "connect",
                          !.status = IF ddb.client THEN @ ELSE "Connecting"]

Connected ==
    /\ At("connect")
    /\ ddb' = [ddb EXCEPT !.client = TRUE, !.op.at = "dispatch"]

(* The configuration does not load; or what a request needs to be built    *)
(* from is invalid.                                                        *)
ConnectFails ==
    /\ At("connect") \/ (At("dispatch") /\ ddb.op.attempts = 0)
    /\ ddb' = EndsByItself("error")

-----------------------------------------------------------------------------
(* An HTTP request and its answer *)

(* run_query sets dispatched before the request leaves. The clients of the *)
(* editor do not retry.                                                    *)
Send ==
    /\ At("dispatch")
    /\ ddb' = [ddb EXCEPT !.op.at = "sent", !.op.dispatched = OfEditor, !.op.attempts = @ + 1,
                          !.effect = IF W = 0 THEN @ ELSE [@ EXCEPT ![W] = "running"]]

(* The client of the pages tries again by itself.                          *)
Retries ==
    /\ At("sent") /\ ~OfEditor
    /\ ddb.op.attempts < MaxAttempt
    /\ ddb' = [ddb EXCEPT !.op.at = "dispatch"]

(* The report of a statement whose answer is an error or cannot be read.   *)
Class(answer) ==
    CASE answer \in {"2xx", "5xx", "none"} -> "Unknown"
      [] OTHER -> "Rejected"

(* What the service may answer to a statement it ran or refused.           *)
Possible(answer) ==
    W # 0 => CASE answer = "2xx" -> ddb.effect[W] = "done"
               [] answer = "4xx" -> ddb.effect[W] = "refused"
               [] OTHER -> TRUE

(* No answer, an error, or a body that is too large or is no JSON.         *)
SendFails ==
    /\ At("sent")
    /\ \E answer \in Answer : Possible(answer) /\ ddb' = EndsByItself(Class(answer))

Answered ==
    /\ At("sent") /\ Possible("2xx")
    /\ ddb' = [ddb EXCEPT !.op.at = "page", !.op.completed = W # 0]

(* The page is shown; of a statement it is the native response.            *)
PageEnds ==
    /\ At("page")
    /\ ddb' = Ends(TRUE, "Applied")

(* More items than were asked for, a key without a token, too many columns *)
(* or bytes (classify: native_completed).                                  *)
PageFails ==
    /\ At("page")
    /\ ddb' = EndsByItself("Unknown")

(* A cancellation or the deadline: context.run drops the attempt, the      *)
(* client goes, and a statement that was dispatched may have run.          *)
Interrupted ==
    /\ ddb.op.at \in {"connect", "dispatch", "sent", "page"}
    /\ ddb' = Ends(FALSE, IF ddb.op.dispatched \/ ddb.op.completed THEN "Unknown" ELSE "error")

(* The service runs the statement or refuses it, whoever still waits.      *)
Run ==
    \E w \in Statement :
        /\ ddb.effect[w] = "running"
        /\ \/ ddb' = [ddb EXCEPT !.effect[w] = "done"]
           \/ ddb' = [ddb EXCEPT !.effect[w] = "refused"]

-----------------------------------------------------------------------------
(* shutdown: nothing holds the lock any more.                              *)
Shutdown ==
    /\ Idle /\ ~ddb.closed
    /\ ddb' = [ddb EXCEPT !.closed = TRUE, !.client = FALSE, !.status = "Closed"]

Init ==
    ddb = [client |-> FALSE, status |-> "Configured", closed |-> FALSE, op |-> NoOp,
           effect |-> [w \in Statement |-> "no"],
           report |-> [w \in Statement |-> "none"]]

Progress == AskFails \/ Lease \/ Interrupted

Done == ddb.closed /\ Idle /\ UNCHANGED ddb

Next ==
    \/ Ask \/ Progress \/ Connected \/ ConnectFails \/ Send \/ Retries \/ SendFails
    \/ Answered \/ PageEnds \/ PageFails \/ Run \/ Shutdown
    \/ Done

Spec == Init /\ [][Next]_ddb

-----------------------------------------------------------------------------
(* Properties *)

TypeOK ==
    /\ ddb.client \in BOOLEAN /\ ddb.closed \in BOOLEAN
    /\ ddb.op.at \in {"idle", "lease", "connect", "dispatch", "sent", "page"}
    /\ ddb.op.attempts \in 0 .. MaxAttempt
    /\ ddb.effect \in [Statement -> {"no", "running", "done", "refused"}]
    /\ ddb.report \in [Statement -> {"none", "error", "Applied", "Rejected", "Unknown"}]

Statements == INSTANCE WriteOutcome WITH
    Write <- Statement,
    sent <- [w \in Statement |-> ddb.effect[w] # "no"],
    effect <- [w \in Statement |-> ddb.effect[w] = "done"],
    report <- ddb.report

ImplementsWriteOutcome == Statements!Spec

=============================================================================
