------------------------------ MODULE Postgres ------------------------------
(***************************************************************************)
(* The PostgreSQL executor (crates/postgres/src/provider.rs): one leased   *)
(* session, its driver task, paged reads that roll back, statements that   *)
(* run once, and the shutdown. The worker of the terminal loop asks one    *)
(* thing at a time, so the mutex around the session is never contended.    *)
(*                                                                         *)
(* A session is numbered. Of the server the model keeps what a session     *)
(* leaves behind there and what became of the statements.                  *)
(***************************************************************************)
EXTENDS Integers, FiniteSets

CONSTANTS
    MaxSession,     \* bound: sessions opened
    MaxWrite        \* bound: statements submitted

ASSUME PostgresAssumption == MaxSession \in Nat /\ MaxWrite \in Nat

Session == 1 .. MaxSession
Write == 1 .. MaxWrite

VARIABLES
    session,    \* the session in the slot, 0 if none
    client,     \* of a session: unused, open, lost, dropped
    driver,     \* its task: unused, running, ending, done
    left,       \* what the server has of it: a set of traces
    status,
    closed,     \* shutdown began, or the executor was aborted
    op,         \* the operation in progress
    sent,       \* statements that were dispatched
    ran,        \* what the server made of them: no, running, applied, failed
    report      \* what the caller was told

vars == <<session, client, driver, left, status, closed, op, sent, ran, report>>

Outcome == {"error", "Applied", "Rejected", "Unknown"}

(* check, metadata and replication read the catalog; "rows" browses a      *)
(* table or view, "query" is a paged query.                                *)
Reads == {"catalog", "rows", "query"}

(* A statement or transaction that is open, a cancellation that was sent,  *)
(* and settings or advisory locks of the session, by whose text or         *)
(* function set them.                                                      *)
Trace == {"running", "cancelled", "rows", "query", "write"}

(* "result" is what the operation will return, "cancel" whether close      *)
(* sends a cancellation, "retire" the session that close waits for.        *)
NoOp == [kind |-> "none", write |-> 0, at |-> "idle", result |-> "none",
         cancel |-> FALSE, retire |-> 0]

Idle == op.kind = "none"
At(place) == op.at = place
Writing == op.kind = "write"
Reading == op.kind \in Reads

Goto(place) == op' = [op EXCEPT !.at = place]

Open == session # 0 /\ client[session] = "open"

(* Mutant of Result: a statement that was interrupted failed.              *)
ResultAsError(rejected) ==
    IF sent[op.write] /\ rejected THEN "Rejected" ELSE "error"

(* query_outcome for an error: only the server's own answer is a           *)
(* rejection, and only of a statement that was dispatched.                 *)
Result(rejected) ==
    IF ~sent[op.write] THEN "error"
    ELSE IF rejected THEN "Rejected"
    ELSE "Unknown"

(* The operation returns to the worker.                                    *)
Return ==
    /\ op' = NoOp
    /\ report' = IF Writing THEN [report EXCEPT ![op.write] = op.result] ELSE report

-----------------------------------------------------------------------------
(* The worker asks                                                         *)
Read(kind) ==
    /\ Idle
    /\ ~closed
    /\ op' = [NoOp EXCEPT !.kind = kind, !.at = "lease"]
    /\ UNCHANGED <<session, client, driver, left, status, closed, sent, ran, report>>

Execute(w) ==
    /\ Idle
    /\ ~closed
    /\ report[w] = "none"
    /\ op' = [NoOp EXCEPT !.kind = "write", !.write = w, !.at = "lease"]
    /\ UNCHANGED <<session, client, driver, left, status, closed, sent, ran, report>>

(* A client that is known to be closed is put away first. Its driver has   *)
(* only the status left to set.                                            *)
Reap ==
    /\ At("lease")
    /\ session # 0
    /\ client[session] = "lost"
    /\ driver[session] = "done"
    /\ session' = 0
    /\ left' = [left EXCEPT ![session] = {}]
    /\ UNCHANGED <<client, driver, status, closed, op, sent, ran, report>>

(* connect: a session that is open is used again.                          *)
Lease ==
    /\ At("lease")
    /\ session # 0 => client[session] = "open"
    /\ IF session = 0
       THEN Goto("connect") /\ status' = "Connecting"
       ELSE Goto("configure") /\ UNCHANGED status
    /\ UNCHANGED <<session, client, driver, left, closed, sent, ran, report>>

Connect ==
    /\ At("connect")
    /\ \E s \in Session :
         /\ client[s] = "unused"
         /\ \A t \in 1 .. s - 1 : client[t] # "unused"
         /\ session' = s
         /\ client' = [client EXCEPT ![s] = "open"]
         /\ driver' = [driver EXCEPT ![s] = "running"]
    /\ status' = "Connected"
    /\ Goto("configure")
    /\ UNCHANGED <<left, closed, sent, ran, report>>

(* The statement timeout is set; a read then sends its statements or       *)
(* begins its transaction, a statement is prepared, which runs nothing.    *)
Configure ==
    /\ At("configure")
    /\ Open
    /\ IF Writing
       THEN Goto("prepare") /\ UNCHANGED left
       ELSE Goto("work") /\ left' = [left EXCEPT ![session] = @ \cup {"running"}]
    /\ UNCHANGED <<session, client, driver, status, closed, sent, ran, report>>

-----------------------------------------------------------------------------
(* A read                                                                  *)

(* The page was read: a query rolls back and resets the session            *)
(* (DISCARD ALL), a page of rows commits, the catalog needs neither.       *)
ReadEnds ==
    /\ At("work")
    /\ Open
    /\ left' = [left EXCEPT ![session] =
                   IF op.kind = "query" THEN {} ELSE @ \ {"running"}]
    /\ Return
    /\ UNCHANGED <<session, client, driver, status, closed, sent, ran>>

(* Connecting, the server, the transport or a limit failed; the session,   *)
(* if there is one, is to be rolled back.                                  *)
ReadFails ==
    /\ Reading
    /\ op.at \in {"connect", "configure", "work"}
    /\ IF session = 0
       THEN op' = [op EXCEPT !.at = "discard", !.cancel = TRUE]
       ELSE Goto("recover")
    /\ UNCHANGED <<session, client, driver, left, status, closed, sent, ran, report>>

(* Mutant of Recover: the session is kept however the recovery ends.       *)
RecoverAnyway ==
    /\ At("recover")
    /\ Return
    /\ UNCHANGED <<session, client, driver, left, status, closed, sent, ran>>

(* ROLLBACK and DISCARD ALL, in the time the request has left.             *)
Recover ==
    /\ At("recover")
    /\ Open
    /\ left' = [left EXCEPT ![session] = {}]
    /\ Return
    /\ UNCHANGED <<session, client, driver, status, closed, sent, ran>>

RecoverFails ==
    /\ At("recover")
    /\ op' = [op EXCEPT !.at = "discard", !.cancel = TRUE]
    /\ UNCHANGED <<session, client, driver, left, status, closed, sent, ran, report>>

-----------------------------------------------------------------------------
(* A statement                                                             *)
Dispatch ==
    /\ At("prepare")
    /\ Open
    /\ sent' = [sent EXCEPT ![op.write] = TRUE]
    /\ ran' = [ran EXCEPT ![op.write] = "running"]
    /\ left' = [left EXCEPT ![session] = @ \cup {"running"}]
    /\ Goto("execute")
    /\ UNCHANGED <<session, client, driver, status, closed, report>>

(* The server does not parse the statement; the error is its own, so the   *)
(* session is cleaned and kept.                                            *)
Unprepared ==
    /\ At("prepare")
    /\ Open
    /\ op' = [op EXCEPT !.at = "clean", !.result = Result(TRUE)]
    /\ UNCHANGED <<session, client, driver, left, status, closed, sent, ran, report>>

(* The answer of the server.                                               *)
Answered ==
    /\ At("execute")
    /\ Open
    /\ ran[op.write] \in {"applied", "failed"}
    /\ op' = [op EXCEPT !.at = "clean",
                        !.result = IF ran[op.write] = "applied" THEN "Applied"
                                                                ELSE Result(TRUE)]
    /\ UNCHANGED <<session, client, driver, left, status, closed, sent, ran, report>>

(* Connecting, setting the timeout or the transport failed, or the answer  *)
(* is beyond a limit: the session is not used again.                       *)
StatementFails ==
    /\ Writing
    /\ op.at \in {"connect", "configure", "prepare", "execute"}
    /\ op' = [op EXCEPT !.at = "discard", !.result = Result(FALSE),
                        !.cancel = sent[op.write]]
    /\ UNCHANGED <<session, client, driver, left, status, closed, sent, ran, report>>

(* ROLLBACK and DISCARD ALL within a second, whatever the request has left.*)
Clean ==
    /\ At("clean")
    /\ Open
    /\ left' = [left EXCEPT ![session] = {}]
    /\ Return
    /\ UNCHANGED <<session, client, driver, status, closed, sent, ran>>

CleanFails ==
    /\ At("clean")
    /\ op' = [op EXCEPT !.at = "discard"]
    /\ UNCHANGED <<session, client, driver, left, status, closed, sent, ran, report>>

-----------------------------------------------------------------------------
(* Interruption and discarding                                             *)

(* context.run: the request is cancelled or its deadline passes.           *)
Interrupt ==
    /\ ~Idle
    /\ \/ /\ Reading
          /\ op.at \in {"connect", "configure", "work"}
          /\ op' = [op EXCEPT !.at = "discard", !.cancel = TRUE]
       \/ /\ Writing
          /\ op.at \in {"connect", "configure", "prepare", "execute"}
          /\ op' = [op EXCEPT !.at = "discard", !.result = Result(FALSE),
                              !.cancel = sent[op.write]]
    /\ UNCHANGED <<session, client, driver, left, status, closed, sent, ran, report>>

(* Before the lease is taken nothing has been touched.                     *)
InterruptEarly ==
    /\ At("lease")
    /\ op' = NoOp
    /\ report' = IF Writing THEN [report EXCEPT ![op.write] = "error"] ELSE report
    /\ UNCHANGED <<session, client, driver, left, status, closed, sent, ran>>

Dropped(s) == [client EXCEPT ![s] = "dropped"]

(* Mutant of Discard: the session stays in the slot.                       *)
DiscardKeepsSlot ==
    /\ At("discard")
    /\ op' = [op EXCEPT !.at = "close", !.retire = session]
    /\ client' = IF session = 0 THEN client ELSE Dropped(session)
    /\ UNCHANGED <<session, driver, left, status, closed, sent, ran, report>>

(* close: a cancellation may be on its way to the server; the client is    *)
(* dropped, and what it had goes with its connection.                      *)
Discard ==
    /\ At("discard")
    /\ op' = [op EXCEPT !.at = "close", !.retire = session]
    /\ session' = 0
    /\ IF session = 0
       THEN UNCHANGED <<client, left>>
       ELSE /\ client' = Dropped(session)
            /\ \E late \in SUBSET {"cancelled"} :
                 /\ late # {} => op.cancel
                 /\ left' = [left EXCEPT ![session] = late]
    /\ UNCHANGED <<driver, status, closed, sent, ran, report>>

(* Mutant of Close: nobody waits for the driver.                           *)
CloseAtOnce ==
    /\ At("close")
    /\ status' = "Disconnected"
    /\ Return
    /\ UNCHANGED <<session, client, driver, left, closed, sent, ran>>

Close ==
    /\ At("close")
    /\ op.retire # 0 => driver[op.retire] = "done"
    /\ status' = "Disconnected"
    /\ Return
    /\ UNCHANGED <<session, client, driver, left, closed, sent, ran>>

(* Mutant of CloseTimesOut: close waits until the driver ends.             *)
CloseNeverTimesOut == FALSE /\ UNCHANGED vars

(* After a second the driver is aborted, and awaited.                      *)
CloseTimesOut ==
    /\ At("close")
    /\ op.retire # 0
    /\ driver[op.retire] # "done"
    /\ driver' = [driver EXCEPT ![op.retire] = "done"]
    /\ status' = "Disconnected"
    /\ Return
    /\ UNCHANGED <<session, client, left, closed, sent, ran>>

-----------------------------------------------------------------------------
(* The end of the executor                                                 *)
Shutdown ==
    /\ Idle
    /\ ~closed
    /\ closed' = TRUE
    /\ status' = "Closing"
    /\ op' = [NoOp EXCEPT !.kind = "shutdown", !.at = "shut", !.retire = session]
    /\ client' = IF session = 0 THEN client ELSE Dropped(session)
    /\ left' = IF session = 0 THEN left ELSE [left EXCEPT ![session] = {}]
    /\ session' = 0
    /\ UNCHANGED <<driver, sent, ran, report>>

ShutdownEnds ==
    /\ At("shut")
    /\ driver' = IF op.retire = 0 THEN driver ELSE [driver EXCEPT ![op.retire] = "done"]
    /\ status' = "Closed"
    /\ op' = NoOp
    /\ UNCHANGED <<session, client, left, closed, sent, ran, report>>

(* The worker's task is aborted in the middle of an operation: the lease   *)
(* takes the session, the driver is aborted, nobody hears of the outcome.  *)
Abort ==
    /\ ~Idle
    /\ closed' = TRUE
    /\ op' = NoOp
    /\ session' = 0
    /\ LET held == {session, op.retire} \ {0} IN
       /\ client' = [s \in Session |-> IF s \in held THEN "dropped" ELSE client[s]]
       /\ driver' = [s \in Session |-> IF s \in held THEN "done" ELSE driver[s]]
       /\ left' = [s \in Session |-> IF s = session THEN {} ELSE left[s]]
    /\ UNCHANGED <<status, sent, ran, report>>

-----------------------------------------------------------------------------
(* The driver task, the network and the server                             *)
LoseConnection(s) ==
    /\ client[s] = "open"
    /\ client' = [client EXCEPT ![s] = "lost"]
    /\ driver' = [driver EXCEPT ![s] = "ending"]
    /\ UNCHANGED <<session, left, status, closed, op, sent, ran, report>>

(* The connection of a dropped client has been flushed and closed.         *)
LetGo(s) ==
    /\ client[s] = "dropped"
    /\ driver[s] = "running"
    /\ driver' = [driver EXCEPT ![s] = "ending"]
    /\ UNCHANGED <<session, client, left, status, closed, op, sent, ran, report>>

DriverEnds(s) ==
    /\ driver[s] = "ending"
    /\ driver' = [driver EXCEPT ![s] = "done"]
    /\ status' = IF status \in {"Closing", "Closed"} THEN status ELSE "Disconnected"
    /\ UNCHANGED <<session, client, left, closed, op, sent, ran, report>>

(* A statement takes effect or is undone as a whole, also when nobody      *)
(* waits for it any more.                                                  *)
Decide(w) ==
    /\ ran[w] = "running"
    /\ \E result \in {"applied", "failed"} : ran' = [ran EXCEPT ![w] = result]
    /\ UNCHANGED <<session, client, driver, left, status, closed, op, sent, report>>

(* A function of the view, the query or the statement changes a setting or *)
(* takes an advisory lock, which a read-only transaction allows.           *)
SetsState ==
    /\ \/ At("work") /\ op.kind \in {"rows", "query"}
       \/ At("execute")
    /\ Open
    /\ left' = [left EXCEPT ![session] = @ \cup {op.kind}]
    /\ UNCHANGED <<session, client, driver, status, closed, op, sent, ran, report>>

Ended == closed /\ Idle /\ UNCHANGED vars

Init ==
    /\ session = 0
    /\ client = [s \in Session |-> "unused"]
    /\ driver = [s \in Session |-> "unused"]
    /\ left = [s \in Session |-> {}]
    /\ status = "Configured"
    /\ closed = FALSE
    /\ op = NoOp
    /\ sent = [w \in Write |-> FALSE]
    /\ ran = [w \in Write |-> "no"]
    /\ report = [w \in Write |-> "none"]

(* What the operation does when it is not interrupted, and what it does    *)
(* when its time is over.                                                  *)
Progress ==
    \/ Reap
    \/ Lease
    \/ RecoverFails
    \/ CleanFails
    \/ Interrupt
    \/ Discard
    \/ Close
    \/ CloseTimesOut
    \/ ShutdownEnds

Next ==
    \/ \E kind \in Reads : Read(kind)
    \/ \E w \in Write : Execute(w)
    \/ Progress
    \/ Connect
    \/ Configure
    \/ ReadEnds
    \/ ReadFails
    \/ Recover
    \/ Dispatch
    \/ Unprepared
    \/ Answered
    \/ StatementFails
    \/ Clean
    \/ InterruptEarly
    \/ Shutdown
    \/ Abort
    \/ \E s \in Session : LoseConnection(s) \/ LetGo(s) \/ DriverEnds(s)
    \/ \E w \in Write : Decide(w)
    \/ SetsState
    \/ Ended

Spec == Init /\ [][Next]_vars

(* Every await of an operation has a deadline, and a task runs in the end. *)
(* The server and the network owe nothing.                                 *)
FairSpec ==
    /\ Spec
    /\ WF_vars(Progress)
    /\ \A s \in Session : WF_vars(DriverEnds(s))

-----------------------------------------------------------------------------
Status == {"Configured", "Connecting", "Connected", "Disconnected", "Closing", "Closed"}

Operation ==
    [kind : Reads \cup {"none", "write", "shutdown"},
     write : {0} \union Write,
     at : {"idle", "lease", "connect", "configure", "work", "recover",
           "prepare", "execute", "clean", "discard", "close", "shut"},
     result : {"none"} \union Outcome,
     cancel : BOOLEAN,
     retire : {0} \union Session]

TypeOK ==
    /\ session \in {0} \union Session
    /\ client \in [Session -> {"unused", "open", "lost", "dropped"}]
    /\ driver \in [Session -> {"unused", "running", "ending", "done"}]
    /\ left \in [Session -> SUBSET Trace]
    /\ status \in Status
    /\ closed \in BOOLEAN
    /\ op \in Operation
    /\ sent \in [Write -> BOOLEAN]
    /\ ran \in [Write -> {"no", "running", "applied", "failed"}]
    /\ report \in [Write -> {"none"} \union Outcome]
    /\ op.at = "idle" <=> Idle
    /\ session # 0 => client[session] \in {"open", "lost"}

(* A session that waits for the next request has no transaction and no     *)
(* settings or locks of a query or statement, and no cancellation is on    *)
(* its way to it, however the requests before ended. Only what functions   *)
(* of a browsed view have set can be left there (and the statement         *)
(* timeout, which every request sets anew).                                *)
WaitsClean ==
    session # 0 /\ (Idle \/ op.at \in {"lease", "configure"})
        => left[session] \subseteq {"rows"}

(* That is gone as well once a query or statement that reached the session *)
(* is over, or a read of any kind failed.                                  *)
ResetsClear ==
    Idle' /\ session' # 0 /\ (At("recover") \/ (op.kind \in {"query", "write"} /\ ~At("lease")))
        => left'[session'] = {}

(* What a request leaves at a session that is used again: every step keeps *)
(* to both (there is no session to begin with).                            *)
NothingLeft == [][WaitsClean' /\ ResetsClear]_vars

(* Between operations the status says whether there is a session: the      *)
(* driver of an earlier one never overwrites it.                           *)
StatusFits ==
    Idle /\ ~closed =>
        /\ session = 0 => status \in {"Configured", "Disconnected"}
        /\ Open => status = "Connected"
        /\ session # 0 /\ driver[session] = "done" => status = "Disconnected"

(* At most one connection is open, counting the ones that are closing.     *)
OneConnection == Cardinality({s \in Session : driver[s] = "running"}) <= 1

(* What is closing is only shown as closing until it is closed.            *)
ClosingCloses ==
    [][(status = "Closing" => status' \in {"Closing", "Closed"})
       /\ (status = "Closed" => status' = "Closed")]_vars

(* The status is true of the one connection there may be, from its opening *)
(* to its end.                                                             *)
StatusTruthful == [](StatusFits /\ OneConnection) /\ ClosingCloses

(* Every operation returns, whatever the server and the network do.        *)
OperationsReturn == ~Idle ~> Idle

Statements == INSTANCE WriteOutcome WITH
    effect <- [w \in Write |-> ran[w] = "applied"]

(* The reports keep the contract of WriteOutcome.                          *)
ImplementsWriteOutcome == Statements!Spec

=============================================================================
