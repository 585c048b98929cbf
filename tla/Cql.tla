---------------------------------- MODULE Cql ----------------------------------
(***************************************************************************)
(* The CQL executor (crates/cql/src/provider.rs): one driver session that  *)
(* lives until shutdown, pages and statements that are prepared and then   *)
(* executed, the driver's retries on another node, and what is said of a   *)
(* statement by the node's answer. A statement here is one without rows:   *)
(* what comes back with rows is a page, or an error when it cannot be      *)
(* shown, although it ran (Received).                                      *)
(***************************************************************************)
EXTENDS Integers

CONSTANTS
    MaxWrite,       \* bound: statements without rows
    MaxRetry        \* bound: attempts on another node, of the driver

VARIABLE cql

-----------------------------------------------------------------------------
(* Data *)

Write == 1 .. MaxWrite
Kind == {"page", "query", "write", "check"}

(* A refusal came before anything was applied, like a syntax error, an     *)
(* invalid request or too few replicas; a doubt is a timeout or failure of *)
(* the coordinator, when some replicas may have the write. Broken is no    *)
(* answer at all.                                                          *)
Answer == {"refusal", "doubt", "broken"}

NoOp == [kind |-> "none", at |-> "idle", write |-> 0, dispatched |-> FALSE, retries |-> 0]

Idle == cql.op.kind = "none"
At(place) == cql.op.at = place
W == cql.op.write

Fresh(w) == cql.report[w] = "none" /\ \A v \in 1 .. w - 1 : cql.report[v] # "none"

-----------------------------------------------------------------------------
(* The worker asks: fetch_page, check and execute_query *)

Ask ==
    /\ Idle /\ ~cql.closed
    /\ \/ \E kind \in Kind \ {"write"} :
             cql' = [cql EXCEPT !.op = [NoOp EXCEPT !.kind = kind, !.at = "session"]]
       \/ \E w \in Write :
             /\ Fresh(w)
             /\ cql' = [cql EXCEPT !.op = [NoOp EXCEPT !.kind = "write", !.at = "session",
                                                       !.write = w]]

(* What the status and the user are told. "error" is also what a page of   *)
(* a view reports.                                                         *)
Settled(status, outcome) ==
    LET state == [cql EXCEPT !.op = NoOp, !.status = status] IN
    IF W = 0 THEN state ELSE [state EXCEPT !.report[W] = outcome]

(* session: the one there is, or a new one; dispatched comes after it.     *)
Prepares(op) == [op EXCEPT !.at = "prepare", !.dispatched = op.kind \in {"query", "write"}]

Session ==
    /\ At("session")
    /\ cql' = IF cql.session THEN [cql EXCEPT !.op = Prepares(@)]
              ELSE [cql EXCEPT !.status = "Connecting", !.op.at = "connect"]

Connected ==
    /\ At("connect")
    /\ cql' = [cql EXCEPT !.session = TRUE, !.op = Prepares(@)]

(* A bookmark of something else, a bad CA file, no node, a login that is   *)
(* refused: the slot stays empty.                                          *)
ConnectFails ==
    /\ At("connect")
    /\ cql' = Settled("Disconnected", "error")

-----------------------------------------------------------------------------
(* page: prepare, execute, render *)

(* Mutation: whatever a node answers is a refusal.                         *)
ReportRefuses(answer) ==
    CASE answer \in {"refusal", "doubt"} -> "Rejected"
      [] cql.op.dispatched /\ answer = "broken" -> "Unknown"
      [] OTHER -> "error"

(* refused first, then dispatched.                                         *)
Report(answer) ==
    CASE answer = "refusal" -> "Rejected"
      [] cql.op.dispatched /\ answer # "refusal" -> "Unknown"
      [] OTHER -> "error"

(* answered: the node's own error proves that the connection works.        *)
Status(answer) == IF answer = "broken" THEN "Disconnected" ELSE "Connected"

Prepared ==
    /\ At("prepare")
    /\ cql' = [cql EXCEPT !.op.at = "sent",
                          !.effect = IF W = 0 THEN @ ELSE [@ EXCEPT ![W] = "running"]]

PrepareFails ==
    /\ At("prepare")
    /\ \E answer \in Answer : cql' = Settled(Status(answer), Report(answer))

(* The driver tries another node only after a node that could not begin.   *)
Retries ==
    /\ At("sent") /\ cql.op.retries < MaxRetry
    /\ W # 0 => cql.effect[W] = "refused"
    /\ cql' = [cql EXCEPT !.op.retries = @ + 1,
                          !.effect = IF W = 0 THEN @ ELSE [@ EXCEPT ![W] = "running"]]

(* A refusal is only of what no replica has.                               *)
Possible(answer) == W # 0 /\ answer = "refusal" => cql.effect[W] = "refused"

ExecuteFails ==
    /\ At("sent")
    /\ \E answer \in Answer :
          Possible(answer) /\ cql' = Settled(Status(answer), Report(answer))

(* Rows are rendered as a page, and may be too many: Received.             *)
Answered ==
    /\ At("sent")
    /\ W # 0 => cql.effect[W] = "done"
    /\ cql' = IF W # 0 THEN Settled("Connected", "Applied")
              ELSE [cql EXCEPT !.op.at = "render"]

Rendered ==
    /\ At("render")
    /\ cql' = Settled("Connected", "error")

(* A cancellation or the deadline, wherever the request waits.             *)
Interrupted ==
    /\ ~Idle /\ ~At("render")
    /\ cql' = Settled("Disconnected", IF cql.op.dispatched THEN "Unknown" ELSE "error")

(* The nodes run a statement or refuse it, whoever still waits.            *)
Run ==
    \E w \in Write :
        /\ cql.effect[w] = "running"
        /\ \/ cql' = [cql EXCEPT !.effect[w] = "done"]
           \/ cql' = [cql EXCEPT !.effect[w] = "refused"]

-----------------------------------------------------------------------------
Shutdown ==
    /\ Idle /\ ~cql.closed
    /\ cql' = [cql EXCEPT !.closed = TRUE, !.session = FALSE, !.status = "Closed"]

Init ==
    cql = [session |-> FALSE, status |-> "Configured", closed |-> FALSE, op |-> NoOp,
           effect |-> [w \in Write |-> "no"],
           report |-> [w \in Write |-> "none"]]

Progress == Session \/ Rendered \/ Interrupted

Done == cql.closed /\ UNCHANGED cql

Next ==
    \/ Ask \/ Progress \/ Connected \/ ConnectFails \/ Prepared \/ PrepareFails \/ Retries
    \/ ExecuteFails \/ Answered \/ Run \/ Shutdown
    \/ Done

Spec == Init /\ [][Next]_cql

-----------------------------------------------------------------------------
(* Properties *)

TypeOK ==
    /\ cql.session \in BOOLEAN /\ cql.closed \in BOOLEAN
    /\ cql.status \in {"Configured", "Connecting", "Connected", "Disconnected", "Closed"}
    /\ cql.op.at \in {"idle", "session", "connect", "prepare", "sent", "render"}
    /\ cql.op.retries \in 0 .. MaxRetry
    /\ cql.effect \in [Write -> {"no", "running", "done", "refused"}]
    /\ cql.report \in [Write -> {"none", "error", "Applied", "Rejected", "Unknown"}]

(* A statement refused by one node and running on another has not taken    *)
(* effect.                                                                 *)
Statements == INSTANCE WriteOutcome WITH
    sent <- [w \in Write |-> cql.effect[w] # "no"],
    effect <- [w \in Write |-> cql.effect[w] = "done"],
    report <- cql.report

ImplementsWriteOutcome == Statements!Spec

=============================================================================
