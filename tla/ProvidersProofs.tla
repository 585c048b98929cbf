---------------------------- MODULE ProvidersProofs ----------------------------
(***************************************************************************)
(* What holds of the providers other than PostgreSQL for any number of     *)
(* sessions, jobs, statements, records and messages: one session has       *)
(* native Kafka clients, a job is told its own reports and errors, a NATS  *)
(* subscription is complete or its loss is told, the reports of statements *)
(* implement WriteOutcome, and nothing is left behind.                     *)
(*                                                                         *)
(* Every part has an inductive invariant of its own, prefixed as the part  *)
(* is: Kp publishing to Kafka, Na NATS, Cq CQL, Dd DynamoDB, Mq RabbitMQ,  *)
(* Qd Qdrant, Cm the command line; Single is that of the owners.           *)
(***************************************************************************)
EXTENDS Providers, FiniteSetTheorems, SequenceTheorems, TLAPS

-----------------------------------------------------------------------------
(* The owners of native Kafka clients                                      *)

Status == {"Configured", "Connecting", "Connected", "Disconnected", "Closing", "Closed"}

(* The type of every field.                                                *)
Own == [holder : {0} \union Session, phase : [Session -> Phase], thread : [Session -> Thread],
        slot : [Session -> {0} \union Job], job : [Session -> {0} \union Job],
        asked : [Session -> {0} \union Job], clients : [Session -> SUBSET Client],
        points : [Session -> [Client -> {0} \union Job]], status : [Session -> Status],
        needs : [Session -> Client], answer : [Job -> {"none", "waiting", "given"}],
        errors : [Job -> SUBSET Job], met : SUBSET Job, expired : Nat]

(* The permit is with the thread that runs, and clients only there. While  *)
(* a job runs its client exists and reports to that job.                   *)
Permits(s) ==
    /\ Owned(s) <=> own.holder = s
    /\ Native(s) => Owned(s)
    /\ own.thread[s] \in {"serve", "run"} => own.job[s] \in Job
    /\ own.thread[s] = "run" =>
          own.needs[s] \in own.clients[s] /\ own.points[s][own.needs[s]] = own.job[s]

(* A status is that of a thread which serves, or has gone for good.        *)
Statuses(s) ==
    /\ own.thread[s] = "none" => own.status[s] # "Connected"
    /\ own.status[s] = "Connected" /\ own.thread[s] = "idle" => Native(s)
    /\ own.thread[s] = "gone" /\ own.phase[s] # "shutdown" => own.status[s] = "Closed"

Single == own \in Own /\ (\A s \in Session : Permits(s) /\ Statuses(s)) /\ DiagnosticsOwn

-----------------------------------------------------------------------------
(* 0 stands for no session and no job, and is neither.                     *)
LEMMA SessionsPositive == 0 \notin Session /\ 0 \notin Job
  BY DEF Session, Job

(* No session has an owner at first.                                       *)
LEMMA InitSingle == Init => Single
  <1> SUFFICES ASSUME Init PROVE Single
    OBVIOUS
  <1>1. own \in Own
    BY DEF Init, Own, Phase, Thread, Status, Client
  <1>2. \A s \in Session : Permits(s) /\ Statuses(s)
    BY SessionsPositive DEF Init, Permits, Statuses, Owned, Native
  <1>3. DiagnosticsOwn
    BY DEF Init, DiagnosticsOwn
  <1> QED
    BY <1>1, <1>2, <1>3 DEF Single

(* A job that is over keeps the types.                                     *)
LEMMA ServedTyped ==
    ASSUME own \in Own, NEW s \in Session, NEW ok \in BOOLEAN, NEW intime \in BOOLEAN
    PROVE  Served(s, ok, intime) \in Own
  <1> DEFINE status == IF ok \/ ("consumer" \in own.clients[s] /\ own.errors[own.job[s]] = {}
                                  /\ intime)
                       THEN "Connected" ELSE "Disconnected"
  <1>1. status \in Status
    BY DEF Status
  <1>2. "consumer" \in Client
    BY DEF Client
  <1> HIDE DEF status
  <1>3. [own EXCEPT !.answer[own.job[s]] = "given", !.thread[s] = "idle", !.job[s] = 0,
                    !.needs[s] = "consumer", !.status[s] = status] \in Own
    BY <1>1, <1>2 DEF Own, Thread
  <1> QED
    BY <1>3 DEF Served, status

(* A step of a session changes what is its own and the permit it takes or  *)
(* gives back; a native error goes to the job that the client reports to.  *)
LEMMA StepSingle == Single /\ [Next]_own => Single'
  <1> SUFFICES ASSUME Single, [Next]_own PROVE Single'
    OBVIOUS
  <1> USE SessionsPositive DEF Single
  <1>1. ASSUME NEW s \in Session, Ask(s) PROVE Single'
    <2>1. own' \in Own
      <3>1. PICK j \in Job : own' = [own EXCEPT !.answer[j] = "waiting", !.asked[s] = j,
                                                !.phase[s] = "permit"]
        BY <1>1 DEF Ask
      <3> QED
        BY <3>1 DEF Own, Phase
    <2>2. \A r \in Session : Permits(r)'
      BY <1>1 DEF Ask, Own, Permits, Owned, Native
    <2>3. \A r \in Session : Statuses(r)'
      BY <1>1 DEF Ask, Own, Permits, Statuses, Owned, Native
    <2>4. DiagnosticsOwn'
      BY <1>1 DEF Ask, Own, Permits, DiagnosticsOwn
    <2> QED
      BY <2>1, <2>2, <2>3, <2>4
  <1>2. ASSUME NEW s \in Session, Acquire(s) PROVE Single'
    <2>1. own' \in Own
      BY <1>2, ZenonT(60) DEF Acquire, Own, Phase, Thread, Status
    <2>2. \A r \in Session : Permits(r)'
      BY <1>2 DEF Acquire, Own, Permits, Owned, Native
    <2>3. \A r \in Session : Statuses(r)'
      BY <1>2 DEF Acquire, Own, Permits, Statuses, Owned, Native
    <2>4. DiagnosticsOwn'
      BY <1>2 DEF Acquire, Own, Permits, DiagnosticsOwn
    <2> QED
      BY <2>1, <2>2, <2>3, <2>4
  <1>3. ASSUME NEW s \in Session, Send(s) PROVE Single'
    <2>1. own' \in Own
      BY <1>3, ZenonT(60) DEF Send, Own, Phase, Thread, Status
    <2>2. \A r \in Session : Permits(r)'
      BY <1>3 DEF Send, Own, Permits, Owned, Native
    <2>3. \A r \in Session : Statuses(r)'
      BY <1>3 DEF Send, Own, Permits, Statuses, Owned, Native
    <2>4. DiagnosticsOwn'
      BY <1>3 DEF Send, Own, Permits, DiagnosticsOwn
    <2> QED
      BY <2>1, <2>2, <2>3, <2>4
  <1>4. ASSUME NEW s \in Session, Busy(s) PROVE Single'
    <2>1. own' \in Own
      BY <1>4 DEF Busy, Own, Phase, Thread, Status
    <2>2. \A r \in Session : Permits(r)'
      BY <1>4 DEF Busy, Own, Permits, Owned, Native
    <2>3. \A r \in Session : Statuses(r)'
      BY <1>4 DEF Busy, Own, Permits, Statuses, Owned, Native
    <2>4. DiagnosticsOwn'
      BY <1>4 DEF Busy, Own, Permits, DiagnosticsOwn
    <2> QED
      BY <2>1, <2>2, <2>3, <2>4
  <1>5. ASSUME NEW s \in Session, Abandon(s) PROVE Single'
    <2>1. own' \in Own
      BY <1>5 DEF Abandon, Own, Phase, Thread, Status
    <2>2. \A r \in Session : Permits(r)'
      BY <1>5 DEF Abandon, Own, Permits, Owned, Native
    <2>3. \A r \in Session : Statuses(r)'
      BY <1>5 DEF Abandon, Own, Permits, Statuses, Owned, Native
    <2>4. DiagnosticsOwn'
      BY <1>5 DEF Abandon, Own, Permits, DiagnosticsOwn
    <2> QED
      BY <2>1, <2>2, <2>3, <2>4
  <1>6. ASSUME NEW s \in Session, Answered(s) PROVE Single'
    <2>1. own' \in Own
      BY <1>6 DEF Answered, Own, Phase, Thread, Status
    <2>2. \A r \in Session : Permits(r)'
      BY <1>6 DEF Answered, Own, Permits, Owned, Native
    <2>3. \A r \in Session : Statuses(r)'
      BY <1>6 DEF Answered, Own, Permits, Statuses, Owned, Native
    <2>4. DiagnosticsOwn'
      BY <1>6 DEF Answered, Own, Permits, DiagnosticsOwn
    <2> QED
      BY <2>1, <2>2, <2>3, <2>4
  <1>7. ASSUME NEW s \in Session, ShutdownEnds(s) PROVE Single'
    <2>1. own' \in Own
      BY <1>7 DEF ShutdownEnds, Own, Phase, Thread, Status
    <2>2. \A r \in Session : Permits(r)'
      BY <1>7 DEF ShutdownEnds, Own, Permits, Owned, Native
    <2>3. \A r \in Session : Statuses(r)'
      BY <1>7 DEF ShutdownEnds, Own, Permits, Statuses, Owned, Native
    <2>4. DiagnosticsOwn'
      BY <1>7 DEF ShutdownEnds, Own, Permits, DiagnosticsOwn
    <2> QED
      BY <2>1, <2>2, <2>3, <2>4
  <1>8. ASSUME NEW s \in Session, ShutdownFails(s) PROVE Single'
    <2>1. own' \in Own
      BY <1>8 DEF ShutdownFails, Own, Phase, Thread, Status
    <2>2. \A r \in Session : Permits(r)'
      BY <1>8 DEF ShutdownFails, Own, Permits, Owned, Native
    <2>3. \A r \in Session : Statuses(r)'
      BY <1>8 DEF ShutdownFails, Own, Permits, Statuses, Owned, Native
    <2>4. DiagnosticsOwn'
      BY <1>8 DEF ShutdownFails, Own, Permits, DiagnosticsOwn
    <2> QED
      BY <2>1, <2>2, <2>3, <2>4
  <1>9. ASSUME NEW s \in Session, Receive(s) PROVE Single'
    <2>1. own' \in Own
      <3>1. PICK k \in Client : own' = [own EXCEPT !.job[s] = own.slot[s], !.slot[s] = 0,
                                                   !.thread[s] = "serve", !.needs[s] = k]
        BY <1>9 DEF Receive
      <3> QED
        BY <3>1 DEF Own, Thread
    <2>2. \A r \in Session : Permits(r)'
      BY <1>9 DEF Receive, Own, Permits, Owned, Native
    <2>3. \A r \in Session : Statuses(r)'
      BY <1>9 DEF Receive, Own, Permits, Statuses, Owned, Native
    <2>4. DiagnosticsOwn'
      BY <1>9 DEF Receive, Own, Permits, DiagnosticsOwn
    <2> QED
      BY <2>1, <2>2, <2>3, <2>4
  <1>10. ASSUME NEW s \in Session, ServeFails(s) PROVE Single'
    <2>1. own' \in Own
      BY <1>10, ServedTyped DEF ServeFails
    <2>2. \A r \in Session : Permits(r)'
      BY <1>10 DEF ServeFails, Served, Own, Permits, Owned, Native
    <2>3. \A r \in Session : Statuses(r)'
      BY <1>10 DEF ServeFails, Served, Own, Permits, Statuses, Owned, Native
    <2>4. DiagnosticsOwn'
      BY <1>10 DEF ServeFails, Served, Own, Permits, DiagnosticsOwn
    <2> QED
      BY <2>1, <2>2, <2>3, <2>4
  <1>11. ASSUME NEW s \in Session, Refresh(s) PROVE Single'
    <2>1. own' \in Own
      <3> DEFINE k == own.needs[s]
                 clients == own.clients[s] \union {k}
                 points == [own.points[s] EXCEPT ![k] = own.job[s]]
                 status == IF k \in own.clients[s] THEN own.status[s] ELSE "Connecting"
      <3>1. clients \in SUBSET Client /\ status \in Status
        BY DEF Own, Status
      <3>2. points \in [Client -> {0} \union Job]
        BY DEF Own
      <3>3. own' = [own EXCEPT !.clients[s] = clients, !.points[s] = points,
                               !.status[s] = status, !.thread[s] = "run"]
        BY <1>11 DEF Refresh, Own
      <3> HIDE DEF clients, points, status
      <3> QED
        BY <3>1, <3>2, <3>3 DEF Own, Thread
    <2>2. \A r \in Session : Permits(r)'
      BY <1>11 DEF Refresh, Own, Permits, Owned, Native
    <2>3. \A r \in Session : Statuses(r)'
      BY <1>11 DEF Refresh, Own, Permits, Statuses, Owned, Native
    <2>4. DiagnosticsOwn'
      BY <1>11 DEF Refresh, Own, Permits, DiagnosticsOwn
    <2> QED
      BY <2>1, <2>2, <2>3, <2>4
  <1>12. ASSUME NEW s \in Session, RunEnds(s) PROVE Single'
    <2>1. own' \in Own
      BY <1>12, ServedTyped DEF RunEnds
    <2>2. \A r \in Session : Permits(r)'
      BY <1>12 DEF RunEnds, Served, Own, Permits, Owned, Native
    <2>3. \A r \in Session : Statuses(r)'
      BY <1>12 DEF RunEnds, Served, Own, Permits, Statuses, Owned, Native
    <2>4. DiagnosticsOwn'
      BY <1>12 DEF RunEnds, Served, Own, Permits, DiagnosticsOwn
    <2> QED
      BY <2>1, <2>2, <2>3, <2>4
  <1>13. ASSUME NEW s \in Session, Hangup(s) PROVE Single'
    <2>1. own' \in Own
      BY <1>13, ZenonT(60) DEF Hangup, Own, Phase, Thread, Status
    <2>2. \A r \in Session : Permits(r)'
      BY <1>13 DEF Hangup, Own, Permits, Owned, Native
    <2>3. \A r \in Session : Statuses(r)'
      BY <1>13 DEF Hangup, Own, Permits, Statuses, Owned, Native
    <2>4. DiagnosticsOwn'
      BY <1>13 DEF Hangup, Own, Permits, DiagnosticsOwn
    <2> QED
      BY <2>1, <2>2, <2>3, <2>4
  <1>14. ASSUME NEW s \in Session, Close(s) PROVE Single'
    <2>1. own' \in Own
      BY <1>14 DEF Close, Own, Phase, Thread, Status
    <2>2. \A r \in Session : Permits(r)'
      BY <1>14 DEF Close, Own, Permits, Owned, Native
    <2>3. \A r \in Session : Statuses(r)'
      BY <1>14 DEF Close, Own, Permits, Statuses, Owned, Native
    <2>4. DiagnosticsOwn'
      BY <1>14 DEF Close, Own, Permits, DiagnosticsOwn
    <2> QED
      BY <2>1, <2>2, <2>3, <2>4
  <1>15. ASSUME NEW s \in Session, Expire(s) PROVE Single'
    <2>1. own' \in Own
      <3>1. own.expired + 1 \in Nat /\ {} \in SUBSET Client
        BY DEF Own
      <3> QED
        BY <1>15, <3>1 DEF Expire, Own
    <2>2. \A r \in Session : Permits(r)'
      BY <1>15 DEF Expire, Own, Permits, Owned, Native
    <2>3. \A r \in Session : Statuses(r)'
      BY <1>15 DEF Expire, Own, Permits, Statuses, Owned, Native
    <2>4. DiagnosticsOwn'
      BY <1>15, SMTT(30) DEF Expire, Own, Permits, DiagnosticsOwn
    <2> QED
      BY <2>1, <2>2, <2>3, <2>4
  <1>16. ASSUME NEW s \in Session, NativeError(s) PROVE Single'
    <2> DEFINE j == own.job[s]
    <2>0. /\ j \in Job
          /\ own.errors[j] \union {j} \in SUBSET Job
          /\ own' = [own EXCEPT !.errors[j] = own.errors[j] \union {j},
                                !.met = own.met \union {j}, !.status[s] = "Disconnected"]
      BY <1>16, ZenonT(60) DEF NativeError, Own, Permits
    <2> HIDE DEF j
    <2>1. own' \in Own
      BY <1>16, <2>0 DEF Own, Status
    <2>2. \A r \in Session : Permits(r)'
      BY <1>16 DEF NativeError, Own, Permits, Owned, Native
    <2>3. \A r \in Session : Statuses(r)'
      BY <1>16 DEF NativeError, Own, Permits, Statuses, Owned, Native
    <2>4. DiagnosticsOwn'
      BY <2>0 DEF Own, DiagnosticsOwn
    <2> QED
      BY <2>1, <2>2, <2>3, <2>4
  <1>17. ASSUME NEW s \in Session, Shutdown(s) PROVE Single'
    <2>1. own' \in Own
      BY <1>17 DEF Shutdown, Own, Phase, Thread, Status
    <2>2. \A r \in Session : Permits(r)'
      BY <1>17 DEF Shutdown, Own, Permits, Owned, Native
    <2>3. \A r \in Session : Statuses(r)'
      BY <1>17 DEF Shutdown, Own, Permits, Statuses, Owned, Native
    <2>4. DiagnosticsOwn'
      BY <1>17 DEF Shutdown, Own, Permits, DiagnosticsOwn
    <2> QED
      BY <2>1, <2>2, <2>3, <2>4
  <1>18. ASSUME UNCHANGED own PROVE Single'
    BY <1>18 DEF Own, Permits, Statuses, Owned, Native, DiagnosticsOwn
  <1> QED
    BY <1>1, <1>2, <1>3, <1>4, <1>5, <1>6, <1>7, <1>8, <1>9, <1>10, <1>11, <1>12, <1>13, <1>14,
       <1>15, <1>16, <1>17, <1>18
       DEF Next, Caller, Owner, Done

-----------------------------------------------------------------------------
(* The sessions with native clients are one at most.                       *)
LEMMA OneNative ==
    ASSUME own \in Own, \A s \in Session : Permits(s)
    PROVE  Cardinality({s \in Session : Native(s)}) <= 1
  <1>1. {s \in Session : Native(s)} \subseteq {own.holder}
    BY DEF Permits
  <1>2. IsFiniteSet({own.holder}) /\ Cardinality({own.holder}) = 1
    BY FS_Singleton
  <1> QED
    BY <1>1, <1>2, FS_Subset

(* The types of the owners.                                                *)
LEMMA OwnTyped == Single => TypeOK
  BY DEF Single, Own, TypeOK

(* What the invariant says of the owners.                                  *)
LEMMA SingleOwner == Single => OneNativeOwner
  <1> SUFFICES ASSUME Single PROVE OneNativeOwner
    OBVIOUS
  <1>1. Cardinality({s \in Session : Native(s)}) <= 1
    BY OneNative DEF Single
  <1> QED BY <1>1 DEF Single, Permits, Statuses, OneNativeOwner
-----------------------------------------------------------------------------
(* Statements. An executor keeps of each what the server made of it and    *)
(* what the user was told.                                                 *)

Fates == {"no", "running", "done", "refused"}
Told == {"none", "error", "Applied", "Rejected", "Unknown"}

(* What was told is true, and stays true whatever still runs.              *)
Honest(effect, report) ==
    \A w \in DOMAIN report :
        /\ report[w] = "error" => effect[w] = "no"
        /\ report[w] = "Applied" => effect[w] = "done"
        /\ report[w] = "Rejected" => effect[w] \in {"no", "refused"}

(* One statement leaves, is decided by the server, or is reported.         *)
Sends(e, r, f, q) ==
    \E w \in DOMAIN r :
        /\ e[w] = "no" /\ r[w] = "none"
        /\ f = [e EXCEPT ![w] = "running"] /\ q = r

Decides(e, r, f, q) ==
    \E w \in DOMAIN r, made \in {"running", "done", "refused"} :
        /\ e[w] \in {"running", "refused"} /\ r[w] # "error"
        /\ e[w] = "refused" => made = "running" /\ r[w] = "none"
        /\ f = [e EXCEPT ![w] = made] /\ q = r

Reports(e, r, f, q) ==
    \E w \in DOMAIN r, outcome \in Told \ {"none"} :
        /\ r[w] = "none"
        /\ outcome = "error" => e[w] = "no"
        /\ outcome = "Applied" => e[w] = "done"
        /\ outcome = "Rejected" => e[w] \in {"no", "refused"}
        /\ f = e /\ q = [r EXCEPT ![w] = outcome]

StatementStep(e, r, f, q) ==
    \/ f = e /\ q = r
    \/ Sends(e, r, f, q) \/ Decides(e, r, f, q) \/ Reports(e, r, f, q)

(* What was told stays true.                                               *)
LEMMA HonestKept ==
    ASSUME NEW W, NEW e \in [W -> Fates], NEW r \in [W -> Told],
           NEW f, NEW q, Honest(e, r), StatementStep(e, r, f, q)
    PROVE  f \in [W -> Fates] /\ q \in [W -> Told] /\ Honest(f, q)
<1>1. CASE Sends(e, r, f, q)
  BY <1>1 DEF Sends, Honest, Fates, Told
<1>2. CASE Decides(e, r, f, q)
  BY <1>2 DEF Decides, Honest, Fates, Told
<1>3. CASE Reports(e, r, f, q)
  BY <1>3 DEF Reports, Honest, Fates, Told
<1> QED BY <1>1, <1>2, <1>3 DEF StatementStep

(* The three variables of WriteOutcome, of what an executor keeps.         *)
Sent(e) == [w \in DOMAIN e |-> e[w] # "no"]
Took(e) == [w \in DOMAIN e |-> e[w] = "done"]

Contract(e, r, f, q) ==
    \/ Sent(f) = Sent(e) /\ Took(f) = Took(e) /\ q = r
    \/ \E w \in DOMAIN r :
          \/ /\ r[w] = "none" /\ ~Sent(e)[w] /\ Sent(f) = [Sent(e) EXCEPT ![w] = TRUE]
             /\ Took(f) = Took(e) /\ q = r
          \/ /\ Sent(e)[w] /\ ~Took(e)[w] /\ r[w] \in {"none", "Unknown"}
             /\ Took(f) = [Took(e) EXCEPT ![w] = TRUE] /\ Sent(f) = Sent(e) /\ q = r
          \/ \E outcome \in Told \ {"none"} :
                /\ r[w] = "none"
                /\ outcome = "error" => ~Sent(e)[w]
                /\ outcome = "Applied" => Took(e)[w]
                /\ outcome = "Rejected" => ~Took(e)[w]
                /\ q = [r EXCEPT ![w] = outcome] /\ Sent(f) = Sent(e) /\ Took(f) = Took(e)

(* Every such step is one of WriteOutcome.                                 *)
LEMMA StepsKeepContract ==
    ASSUME NEW W, NEW e \in [W -> Fates], NEW r \in [W -> Told],
           NEW f, NEW q, Honest(e, r), StatementStep(e, r, f, q)
    PROVE  Contract(e, r, f, q)
<1>1. CASE Sends(e, r, f, q)
  <2>1. PICK w \in W : /\ e[w] = "no" /\ r[w] = "none"
                       /\ f = [e EXCEPT ![w] = "running"] /\ q = r
    BY <1>1 DEF Sends
  <2>2. ~Sent(e)[w] /\ Sent(f) = [Sent(e) EXCEPT ![w] = TRUE] /\ Took(f) = Took(e)
    BY <2>1 DEF Sent, Took
  <2> QED BY <2>1, <2>2 DEF Contract
<1>2. CASE Decides(e, r, f, q)
  <2>1. PICK w \in W, made \in {"running", "done", "refused"} :
            /\ e[w] \in {"running", "refused"} /\ r[w] # "error"
            /\ e[w] = "refused" => made = "running" /\ r[w] = "none"
            /\ f = [e EXCEPT ![w] = made] /\ q = r
    BY <1>2 DEF Decides
  <2>2. Sent(f) = Sent(e) /\ Sent(e)[w] /\ ~Took(e)[w]
    BY <2>1 DEF Sent, Took
  <2>3. CASE made # "done"
    <3>1. Took(f) = Took(e)
      BY <2>1, <2>3 DEF Took
    <3> QED BY <2>1, <2>2, <3>1 DEF Contract
  <2>4. CASE made = "done"
    <3>1. Took(f) = [Took(e) EXCEPT ![w] = TRUE]
      BY <2>1, <2>4 DEF Took
    <3>2. r[w] \in {"none", "Unknown"}
      BY <2>1, <2>4 DEF Honest, Told
    <3> QED BY <2>1, <2>2, <3>1, <3>2 DEF Contract
  <2> QED BY <2>3, <2>4
<1>3. CASE Reports(e, r, f, q)
  <2>1. PICK w \in W, outcome \in Told \ {"none"} :
            /\ r[w] = "none"
            /\ outcome = "error" => e[w] = "no"
            /\ outcome = "Applied" => e[w] = "done"
            /\ outcome = "Rejected" => e[w] \in {"no", "refused"}
            /\ f = e /\ q = [r EXCEPT ![w] = outcome]
    BY <1>3 DEF Reports
  <2>2. /\ outcome = "error" => ~Sent(e)[w]
        /\ outcome = "Applied" => Took(e)[w]
        /\ outcome = "Rejected" => ~Took(e)[w]
    BY <2>1 DEF Sent, Took
  <2> QED BY <2>1, <2>2 DEF Contract
<1>4. CASE f = e /\ q = r
  BY <1>4 DEF Contract
<1> QED BY <1>1, <1>2, <1>3, <1>4 DEF StatementStep
-----------------------------------------------------------------------------
(* Publishing to Kafka                                                     *)

KpSubmission == Publishing!Submission
KpIndex == Publishing!Index

(* The records of a submission that were handed to the producer.           *)
KpSent(f, z, s) == {r \in {s} \X (1 .. z[s]) : f[r] # "unsent"}

(* The batch in the owner's hands: its records are handed over in order,   *)
(* and there is an outcome for each.                                       *)
KpBatch ==
    job # 0 =>
        /\ size[job] # 0 /\ answer[job] \in {"waiting", "error"} /\ job # slot
        /\ DOMAIN reports = 1 .. size[job]
        /\ next <= size[job] + 1
        /\ step = "checked" => next <= size[job]
        /\ \A i \in KpIndex : fate[<<job, i>>] = "unsent" <=> i >= next

(* What lies in the channel, or was never submitted, has sent nothing.     *)
KpUnsent ==
    /\ slot # 0 => size[slot] # 0 /\ answer[slot] \in {"waiting", "error"}
    /\ \A s \in KpSubmission : s = slot \/ answer[s] = "none" =>
          \A i \in KpIndex : fate[<<s, i>>] = "unsent"

(* A record is reported after it was sent, and only then decided.          *)
KpReported ==
    \A s \in KpSubmission, i \in KpIndex :
        /\ <<s, i>> \in reported => fate[<<s, i>>] # "unsent"
        /\ fate[<<s, i>>] \in Publishing!Decided => <<s, i>> \in reported

(* The reports that a batch waits for are of its own records, unless it    *)
(* began with others in flight; what it has kept is what became of them.   *)
KpOwn ==
    job # 0 /\ job \notin mixed =>
        /\ \A s \in KpSubmission, i \in KpIndex :
              fate[<<s, i>>] # "unsent" /\ <<s, i>> \notin reported => s = job
        /\ \A i \in 1 .. size[job] : <<job, i>> \in reported =>
              /\ fate[<<job, i>>] \in Publishing!Decided
              /\ reports[i] = IF fate[<<job, i>>] = "appended" THEN "delivered" ELSE "failed"

(* Who was told an outcome has all records reported, and the outcome is    *)
(* what became of them.                                                    *)
KpTold ==
    \A s \in KpSubmission \ mixed : answer[s] \in Publishing!Outcome =>
        /\ size[s] # 0 /\ \A i \in 1 .. size[s] : <<s, i>> \in reported
        /\ answer[s] = "Applied" => \A i \in 1 .. size[s] : fate[<<s, i>>] = "appended"
        /\ answer[s] = "Rejected" => \A i \in 1 .. size[s] : fate[<<s, i>>] # "appended"
        /\ answer[s] = "Unknown" =>
              /\ \E i \in 1 .. size[s] : fate[<<s, i>>] = "appended"
              /\ \E i \in 1 .. size[s] : fate[<<s, i>>] # "appended"

(* After an answer one record more is handed over at most: the one that    *)
(* has passed its check.                                                   *)
KpHanded ==
    \A s \in KpSubmission : answer[s] \notin {"none", "waiting"} =>
        Cardinality(KpSent(fate, size, s))
           <= handed[s] + IF job = s /\ step = "checked" THEN 0 ELSE 1

KpRest == KpBatch /\ KpUnsent /\ KpReported /\ KpOwn /\ KpTold
KpInv == Publishing!TypeOK /\ KpRest /\ KpHanded

(* Numbers and sets the other facts need.                                  *)
LEMMA KpNumbers ==
    /\ 0 \notin KpSubmission /\ MaxRecords \in Nat /\ KpIndex = 1 .. MaxRecords
    /\ Publishing!Record = KpSubmission \X KpIndex
  BY ProvidersAssumption
     DEF ProvidersAssumption, KpSubmission, KpIndex, Publishing!Submission, Publishing!Index,
         Publishing!Record

(* The records of a submission that were handed over are counted.          *)
LEMMA KpCounts ==
    ASSUME Publishing!TypeOK, NEW s \in KpSubmission
    PROVE  /\ Publishing!HandedOver(s) = Cardinality(KpSent(fate, size, s))
           /\ IsFiniteSet(KpSent(fate, size, s))
           /\ Cardinality(KpSent(fate, size, s)) \in 0 .. MaxRecords
  <1>1. size[s] \in Nat /\ size[s] <= MaxRecords
    BY KpNumbers DEF Publishing!TypeOK, KpSubmission
  <1> DEFINE all == {s} \X (1 .. size[s])
             sent == KpSent(fate, size, s)
  <1>2. IsFiniteSet({s}) /\ Cardinality({s}) = 1
    BY FS_Singleton
  <1>3. IsFiniteSet(1 .. size[s]) /\ Cardinality(1 .. size[s]) = size[s]
    BY <1>1, FS_Interval
  <1>4. IsFiniteSet(all) /\ Cardinality(all) = Cardinality({s}) * Cardinality(1 .. size[s])
    BY <1>2, <1>3, FS_Product
  <1>5. Cardinality(all) = size[s]
    BY <1>1, <1>2, <1>3, <1>4
  <1>6. sent \subseteq all
    BY DEF KpSent
  <1>7. Publishing!HandedOver(s) = Cardinality(sent)
    <2>1. {r \in Publishing!Records(s) : fate[r] # "unsent"} = sent
      BY DEF Publishing!Records, KpSent
    <2> QED BY <2>1 DEF Publishing!HandedOver, Publishing!Cardinality, Cardinality
  <1> HIDE DEF all, sent
  <1>8. IsFiniteSet(sent) /\ Cardinality(sent) <= Cardinality(all) /\ Cardinality(sent) \in Nat
    BY <1>4, <1>6, FS_Subset, FS_CardinalityType
  <1>9. Cardinality(sent) \in 0 .. MaxRecords
    BY <1>1, <1>5, <1>8, KpNumbers
  <1> QED BY <1>7, <1>8, <1>9 DEF sent

(* Nothing is submitted at first.                                          *)
LEMMA KpBegins == Publishing!Init => KpInv
  <1> SUFFICES ASSUME Publishing!Init PROVE KpInv
    OBVIOUS
  <1>1. Publishing!TypeOK
    BY KpNumbers, EmptySeq DEF Publishing!Init, Publishing!TypeOK
  <1>2. KpRest
    BY KpNumbers
       DEF Publishing!Init, KpRest, KpBatch, KpUnsent, KpReported, KpOwn, KpTold, Publishing!Decided,
           Publishing!Outcome, KpSubmission
  <1>3. KpHanded
    BY DEF Publishing!Init, KpHanded, KpSubmission
  <1> QED BY <1>1, <1>2, <1>3 DEF KpInv

(* The types, of the names used here.                                      *)
LEMMA KpTypes ==
    ASSUME Publishing!TypeOK
    PROVE  /\ size \in [KpSubmission -> 0 .. MaxRecords]
           /\ answer \in [KpSubmission -> {"none", "waiting", "error", "Applied", "Rejected",
                                           "Unknown"}]
           /\ slot \in {0} \union KpSubmission /\ job \in {0} \union KpSubmission
           /\ step \in {"idle", "sending", "checked"}
           /\ step = "idle" <=> job = 0
           /\ next \in 1 .. MaxRecords + 1 /\ next \in Nat
           /\ reports \in Seq({"none", "delivered", "failed"})
           /\ fate \in [KpSubmission \X KpIndex -> {"unsent", "queued"} \union Publishing!Decided]
           /\ reported \subseteq KpSubmission \X KpIndex
           /\ handed \in [KpSubmission -> 0 .. MaxRecords]
           /\ mixed \subseteq KpSubmission
  BY KpNumbers DEF Publishing!TypeOK, KpSubmission, Publishing!Outcome

(* What is sent of a submission depends on the fates of its records alone. *)
LEMMA KpSame ==
    ASSUME NEW f, NEW g, NEW z, NEW y, NEW s, z[s] = y[s],
           \A i \in 1 .. z[s] : f[<<s, i>>] = "unsent" <=> g[<<s, i>>] = "unsent"
    PROVE  KpSent(f, z, s) = KpSent(g, y, s)
  BY DEF KpSent

(* Submit *)
LEMMA KpSubmits ==
    ASSUME KpInv, NEW s \in KpSubmission, Publishing!Submit(s)
    PROVE  KpInv'
  <1>1. PICK count \in KpIndex : size' = [size EXCEPT ![s] = count]
    BY DEF Publishing!Submit, KpIndex
  <1>2. /\ answer[s] = "none" /\ slot = 0 /\ slot' = s
        /\ answer' = [answer EXCEPT ![s] = "waiting"]
        /\ job' = job /\ step' = step /\ next' = next /\ reports' = reports /\ fate' = fate
        /\ reported' = reported /\ handed' = handed /\ mixed' = mixed
    BY DEF Publishing!Submit, Publishing!Fresh
  <1>3. Publishing!TypeOK
    BY DEF KpInv
  <1>4. count \in 0 .. MaxRecords /\ count # 0
    BY KpNumbers
  <1>5. Publishing!TypeOK'
    BY <1>1, <1>2, <1>3, <1>4 DEF Publishing!TypeOK, KpSubmission
  <1>6. job # 0 => job # s /\ size'[job] = size[job] /\ answer'[job] = answer[job]
    BY <1>1, <1>2, <1>3, KpTypes DEF KpInv, KpRest, KpBatch
  <1>7. KpRest'
    <2>1. KpBatch'
      BY <1>2, <1>3, <1>6, KpTypes, KpNumbers DEF KpInv, KpRest, KpBatch
    <2>2. KpUnsent'
      BY <1>1, <1>2, <1>3, <1>4, KpTypes DEF KpInv, KpRest, KpUnsent
    <2>3. KpReported'
      BY <1>2 DEF KpInv, KpRest, KpReported
    <2>4. KpOwn'
      BY <1>2, <1>6 DEF KpInv, KpRest, KpOwn
    <2>5. KpTold'
      BY <1>1, <1>2, <1>3, KpTypes DEF KpInv, KpRest, KpTold, Publishing!Outcome
    <2> QED BY <2>1, <2>2, <2>3, <2>4, <2>5 DEF KpRest
  <1>8. KpHanded'
    <2> SUFFICES ASSUME NEW t \in KpSubmission, answer'[t] \notin {"none", "waiting"}
                 PROVE  Cardinality(KpSent(fate', size', t))
                           <= handed'[t] + IF job' = t /\ step' = "checked" THEN 0 ELSE 1
      BY DEF KpHanded
    <2>1. t # s /\ answer'[t] = answer[t] /\ size'[t] = size[t]
      BY <1>1, <1>2, <1>3, KpTypes
    <2>2. KpSent(fate', size', t) = KpSent(fate, size, t)
      BY <1>2, <2>1, KpSame
    <2> QED BY <1>2, <2>1, <2>2 DEF KpInv, KpHanded
  <1> QED BY <1>5, <1>7, <1>8 DEF KpInv

(* The caller is told something, and nothing else happens.                 *)
LEMMA KpTells ==
    ASSUME KpInv, NEW s \in KpSubmission, answer[s] \in {"none", "waiting"},
           answer[s] = "none" => slot # s, Publishing!Tell(s, "error"),
           size' = size, slot' = slot, job' = job, step' = step, next' = next,
           reports' = reports, fate' = fate, reported' = reported, mixed' = mixed
    PROVE  KpInv'
  <1>1. /\ answer' = [answer EXCEPT ![s] = "error"]
        /\ handed' = [handed EXCEPT ![s] = Cardinality(KpSent(fate, size, s))]
    BY KpCounts DEF Publishing!Tell, KpInv
  <1>2. Publishing!TypeOK /\ Cardinality(KpSent(fate, size, s)) \in 0 .. MaxRecords
    BY KpCounts DEF KpInv
  <1>3. Publishing!TypeOK'
    BY <1>1, <1>2 DEF Publishing!TypeOK, KpSubmission
  <1>4. KpRest'
    <2>1. KpBatch'
      BY <1>1, <1>2, KpTypes, KpNumbers DEF KpInv, KpRest, KpBatch
    <2>2. KpUnsent'
      BY <1>1, <1>2, KpTypes, KpNumbers DEF KpInv, KpRest, KpUnsent
    <2>3. KpReported'
      BY DEF KpInv, KpRest, KpReported
    <2>4. KpOwn'
      BY DEF KpInv, KpRest, KpOwn
    <2>5. KpTold'
      BY <1>1, <1>2, KpTypes, SMTT(30) DEF KpInv, KpRest, KpTold, Publishing!Outcome
    <2> QED BY <2>1, <2>2, <2>3, <2>4, <2>5 DEF KpRest
  <1>5. KpHanded'
    <2> SUFFICES ASSUME NEW t \in KpSubmission, answer'[t] \notin {"none", "waiting"}
                 PROVE  Cardinality(KpSent(fate, size, t))
                           <= handed'[t] + IF job = t /\ step = "checked" THEN 0 ELSE 1
      BY DEF KpHanded
    <2>1. CASE t = s
      BY <1>1, <1>2, <2>1, KpTypes
    <2>2. CASE t # s
      BY <1>1, <1>2, <2>2, KpTypes DEF KpInv, KpHanded
    <2> QED BY <2>1, <2>2
  <1> QED BY <1>3, <1>4, <1>5 DEF KpInv

(* Busy and Abandon *)
LEMMA KpLeaves ==
    ASSUME KpInv, NEW s \in KpSubmission, Publishing!Busy(s) \/ Publishing!Abandon(s)
    PROVE  KpInv'
  <1>1. /\ answer[s] \in {"none", "waiting"} /\ Publishing!Tell(s, "error")
        /\ size' = size /\ slot' = slot /\ job' = job /\ step' = step /\ next' = next
        /\ reports' = reports /\ fate' = fate /\ reported' = reported /\ mixed' = mixed
    BY DEF Publishing!Busy, Publishing!Abandon, Publishing!Fresh
  <1>2. answer[s] = "none" => slot # s
    BY KpNumbers DEF KpInv, KpRest, KpUnsent
  <1> QED BY <1>1, <1>2, KpTells

(* A job ends, with an error or with what became of its records.           *)
LEMMA KpEnds ==
    ASSUME KpInv, job # 0, NEW outcome \in {"error"} \union Publishing!Outcome,
           Publishing!End(outcome),
           size' = size, slot' = slot, fate' = fate, reported' = reported, mixed' = mixed,
           outcome # "error" /\ job \notin mixed =>
              /\ \A i \in 1 .. size[job] : <<job, i>> \in reported
              /\ outcome = "Applied" => \A i \in 1 .. size[job] : fate[<<job, i>>] = "appended"
              /\ outcome = "Rejected" => \A i \in 1 .. size[job] : fate[<<job, i>>] # "appended"
              /\ outcome = "Unknown" =>
                    /\ \E i \in 1 .. size[job] : fate[<<job, i>>] = "appended"
                    /\ \E i \in 1 .. size[job] : fate[<<job, i>>] # "appended"
    PROVE  KpInv'
  <1>1. Publishing!TypeOK /\ job \in KpSubmission
    BY KpTypes DEF KpInv
  <1>2. /\ job' = 0 /\ step' = "idle" /\ next' = 1 /\ reports' = <<>>
        /\ \/ /\ answer[job] = "waiting" /\ answer' = [answer EXCEPT ![job] = outcome]
              /\ handed' = [handed EXCEPT ![job] = Cardinality(KpSent(fate, size, job))]
           \/ answer[job] # "waiting" /\ answer' = answer /\ handed' = handed
    BY <1>1, KpCounts DEF Publishing!End, Publishing!Tell
  <1>3. Cardinality(KpSent(fate, size, job)) \in 0 .. MaxRecords
    BY <1>1, KpCounts
  <1>4. Publishing!TypeOK'
    <2>1. answer' \in [KpSubmission -> {"none", "waiting", "error"} \union Publishing!Outcome]
      BY <1>1, <1>2, KpTypes DEF Publishing!Outcome
    <2>2. handed' \in [KpSubmission -> 0 .. MaxRecords]
      BY <1>1, <1>2, <1>3, KpTypes
    <2>3. 1 \in 1 .. MaxRecords + 1
      BY KpNumbers
    <2>4. reports' \in Seq({"none", "delivered", "failed"})
      BY <1>2, EmptySeq
    <2> QED BY <1>1, <1>2, <2>1, <2>2, <2>3, <2>4 DEF Publishing!TypeOK, KpSubmission
  <1>5. KpRest'
    <2>1. KpBatch'
      BY <1>2 DEF KpBatch
    <2>2. KpUnsent'
      BY <1>1, <1>2, KpTypes, KpNumbers DEF KpInv, KpRest, KpUnsent, KpBatch, Publishing!Outcome
    <2>3. KpReported'
      BY DEF KpInv, KpRest, KpReported
    <2>4. KpOwn'
      BY <1>2 DEF KpOwn
    <2>5. KpTold'
      <3>1. ASSUME NEW s \in KpSubmission \ mixed, s # job
            PROVE  answer'[s] = answer[s]
        BY <1>1, <1>2, <3>1, KpTypes
      <3>2. CASE job \in mixed
        BY <3>1, <3>2 DEF KpInv, KpRest, KpTold
      <3>3. CASE job \notin mixed
        <4>1. answer'[job] \in Publishing!Outcome => answer'[job] = outcome /\ outcome # "error"
          BY <1>1, <1>2, KpTypes DEF KpInv, KpRest, KpBatch, Publishing!Outcome
        <4>2. size[job] # 0
          BY DEF KpInv, KpRest, KpBatch
        <4> QED BY <3>1, <3>3, <4>1, <4>2 DEF KpInv, KpRest, KpTold
      <3> QED BY <3>2, <3>3
    <2> QED BY <2>1, <2>2, <2>3, <2>4, <2>5 DEF KpRest
  <1>6. KpHanded'
    <2> SUFFICES ASSUME NEW t \in KpSubmission, answer'[t] \notin {"none", "waiting"}
                 PROVE  Cardinality(KpSent(fate, size, t)) <= handed'[t] + 1
      BY <1>2, KpNumbers DEF KpHanded
    <2>1. Cardinality(KpSent(fate, size, t)) \in Nat /\ handed[t] \in Nat
      BY <1>1, KpCounts, KpTypes
    <2>2. CASE t = job
      BY <1>1, <1>2, <1>3, <2>1, <2>2, KpTypes DEF KpInv, KpHanded
    <2>3. CASE t # job
      BY <1>1, <1>2, <2>1, <2>3, KpTypes DEF KpInv, KpHanded
    <2> QED BY <2>2, <2>3
  <1> QED BY <1>4, <1>5, <1>6 DEF KpInv

(* RefuseLocally and Interrupt *)
LEMMA KpStops ==
    ASSUME KpInv, Publishing!RefuseLocally \/ Publishing!Interrupt
    PROVE  KpInv'
  <1>1. /\ Publishing!End("error") /\ size' = size /\ slot' = slot /\ fate' = fate
        /\ reported' = reported /\ mixed' = mixed
    BY DEF Publishing!RefuseLocally, Publishing!Interrupt
  <1>2. job # 0
    BY KpTypes
       DEF Publishing!RefuseLocally, Publishing!Interrupt, Publishing!Sending, Publishing!Polling,
           KpInv
  <1> QED BY <1>1, <1>2, KpEnds

(* Finish: the outcomes of the batch are those of its records.             *)
LEMMA KpFinishes ==
    ASSUME KpInv, Publishing!Finish
    PROVE  KpInv'
  <1> DEFINE outcomes == {reports[i] : i \in DOMAIN reports}
             outcome == Publishing!Result(outcomes)
  <1>1. /\ step = "sending" /\ next > size[job] /\ Publishing!InFlight = {}
        /\ Publishing!End(outcome) /\ size' = size /\ slot' = slot /\ fate' = fate
        /\ reported' = reported /\ mixed' = mixed
    BY DEF Publishing!Finish, Publishing!Polling
  <1>2. job # 0 /\ job \in KpSubmission /\ Publishing!TypeOK
    BY <1>1, KpTypes DEF KpInv
  <1>3. outcome \in Publishing!Outcome /\ outcome # "error"
    BY DEF Publishing!Result, Publishing!Outcome
  <1>4. ASSUME job \notin mixed
        PROVE  /\ \A i \in 1 .. size[job] : <<job, i>> \in reported
               /\ outcome = "Applied" => \A i \in 1 .. size[job] : fate[<<job, i>>] = "appended"
               /\ outcome = "Rejected" => \A i \in 1 .. size[job] : fate[<<job, i>>] # "appended"
               /\ outcome = "Unknown" =>
                     /\ \E i \in 1 .. size[job] : fate[<<job, i>>] = "appended"
                     /\ \E i \in 1 .. size[job] : fate[<<job, i>>] # "appended"
    <2>1. /\ size[job] \in Nat /\ size[job] # 0 /\ size[job] <= MaxRecords
          /\ DOMAIN reports = 1 .. size[job]
          /\ \A i \in KpIndex : fate[<<job, i>>] = "unsent" <=> i >= next
      BY <1>2, KpTypes, KpNumbers DEF KpInv, KpRest, KpBatch
    <2>2. ASSUME NEW i \in 1 .. size[job] PROVE i \in KpIndex /\ <<job, i>> \in reported
      <3>1. i \in KpIndex /\ fate[<<job, i>>] # "unsent"
        BY <1>1, <1>2, <2>1, KpNumbers, KpTypes
      <3>2. <<job, i>> \in Publishing!Record
        BY <1>2, <3>1, KpNumbers
      <3> QED BY <1>1, <3>1, <3>2 DEF Publishing!InFlight
    <2>3. \A i \in 1 .. size[job] :
             reports[i] = IF fate[<<job, i>>] = "appended" THEN "delivered" ELSE "failed"
      BY <1>2, <1>4, <2>2 DEF KpInv, KpRest, KpOwn
    <2>4. \A o : o \in outcomes <=> \E i \in 1 .. size[job] : o = reports[i]
      BY <2>1
    <2>5. 1 \in 1 .. size[job]
      BY <2>1
    <2>6. /\ outcomes = {"delivered"} => outcome = "Applied"
          /\ outcomes = {"failed"} => outcome = "Rejected"
          /\ outcomes # {"delivered"} /\ outcomes # {"failed"} => outcome = "Unknown"
          /\ outcome \in {"Applied", "Rejected", "Unknown"}
      BY DEF Publishing!Result
    <2>7. outcome = "Applied" => outcomes = {"delivered"}
      BY DEF Publishing!Result
    <2>8. outcome = "Rejected" => outcomes = {"failed"}
      BY DEF Publishing!Result
    <2>9. outcome = "Unknown" => outcomes # {"delivered"} /\ outcomes # {"failed"}
      BY DEF Publishing!Result
    <2> HIDE DEF outcomes, outcome
    <2>10. outcome = "Applied" => \A i \in 1 .. size[job] : fate[<<job, i>>] = "appended"
      BY <2>3, <2>4, <2>7
    <2>11. outcome = "Rejected" => \A i \in 1 .. size[job] : fate[<<job, i>>] # "appended"
      BY <2>3, <2>4, <2>8
    <2>12. ASSUME outcome = "Unknown"
           PROVE  /\ \E i \in 1 .. size[job] : fate[<<job, i>>] = "appended"
                  /\ \E i \in 1 .. size[job] : fate[<<job, i>>] # "appended"
      <3>1. CASE \A i \in 1 .. size[job] : fate[<<job, i>>] = "appended"
        <4>1. outcomes = {"delivered"}
          <5>1. \A i \in 1 .. size[job] : reports[i] = "delivered"
            BY <2>3, <3>1
          <5>2. \A o : o \in outcomes <=> o = "delivered"
            BY <2>4, <2>5, <5>1
          <5> QED BY <5>2
        <4> QED BY <2>9, <2>12, <4>1
      <3>2. CASE \A i \in 1 .. size[job] : fate[<<job, i>>] # "appended"
        <4>1. outcomes = {"failed"}
          <5>1. \A i \in 1 .. size[job] : reports[i] = "failed"
            BY <2>3, <3>2
          <5>2. \A o : o \in outcomes <=> o = "failed"
            BY <2>4, <2>5, <5>1
          <5> QED BY <5>2
        <4> QED BY <2>9, <2>12, <4>1
      <3> QED BY <3>1, <3>2
    <2> QED BY <2>2, <2>10, <2>11, <2>12
  <1> HIDE DEF outcomes, outcome
  <1> QED BY <1>1, <1>2, <1>3, <1>4, KpEnds

(* TakeAbandoned *)
LEMMA KpDrops ==
    ASSUME KpInv, Publishing!TakeAbandoned
    PROVE  KpInv'
  <1>1. /\ job = 0 /\ slot # 0 /\ slot' = 0 /\ size' = size /\ answer' = answer /\ job' = job
        /\ step' = step /\ next' = next /\ reports' = reports /\ fate' = fate
        /\ reported' = reported /\ handed' = handed /\ mixed' = mixed
    BY DEF Publishing!TakeAbandoned
  <1>2. Publishing!TypeOK'
    BY <1>1 DEF KpInv, Publishing!TypeOK
  <1>3. KpRest'
    BY <1>1, KpNumbers DEF KpInv, KpRest, KpBatch, KpUnsent, KpReported, KpOwn, KpTold
  <1>4. KpHanded'
    BY <1>1 DEF KpInv, KpHanded
  <1> QED BY <1>2, <1>3, <1>4 DEF KpInv

(* Take *)
LEMMA KpTakes ==
    ASSUME KpInv, Publishing!Take
    PROVE  KpInv'
  <1>1. /\ job = 0 /\ slot # 0 /\ answer[slot] = "waiting" /\ job' = slot /\ slot' = 0
        /\ step' = "sending" /\ next' = 1 /\ reports' = [i \in 1 .. size[slot] |-> "none"]
        /\ size' = size /\ answer' = answer /\ fate' = fate /\ handed' = handed
        /\ \/ /\ reported' = reported
              /\ mixed' = IF Publishing!InFlight = {} THEN mixed ELSE mixed \union {slot}
           \/ reported' = reported \union Publishing!InFlight /\ mixed' = mixed
    BY DEF Publishing!Take
  <1>2. /\ Publishing!TypeOK /\ slot \in KpSubmission /\ size[slot] \in Nat /\ size[slot] # 0
        /\ \A i \in KpIndex : fate[<<slot, i>>] = "unsent"
    BY <1>1, KpTypes DEF KpInv, KpRest, KpUnsent
  <1>3. Publishing!InFlight \subseteq KpSubmission \X KpIndex
    BY KpNumbers DEF Publishing!InFlight
  <1>4. ASSUME NEW s \in KpSubmission, NEW i \in KpIndex
        PROVE  <<s, i>> \in Publishing!InFlight
                  <=> <<s, i>> \notin reported /\ fate[<<s, i>>] # "unsent"
    BY <1>3, KpNumbers DEF Publishing!InFlight
  <1>5. reports' \in Seq({"none", "delivered", "failed"}) /\ DOMAIN reports' = 1 .. size[slot]
    <2> DEFINE n == size[slot]
               blank == [i \in 1 .. n |-> "none"]
    <2>1. blank \in [1 .. n -> {"none", "delivered", "failed"}] /\ DOMAIN blank = 1 .. n
      OBVIOUS
    <2>2. n \in Nat
      BY <1>2
    <2> HIDE DEF n
    <2>3. blank \in Seq({"none", "delivered", "failed"})
      <3> HIDE DEF blank
      <3> QED BY <2>1, <2>2, SeqDef
    <2> QED BY <1>1, <2>1, <2>3 DEF n
  <1>6. Publishing!TypeOK'
    <2>1. reported' \subseteq Publishing!Record /\ mixed' \subseteq KpSubmission
      BY <1>1, <1>2, <1>3, KpTypes, KpNumbers
    <2>2. 1 \in 1 .. MaxRecords + 1
      BY KpNumbers
    <2> QED BY <1>1, <1>2, <1>5, <2>1, <2>2, KpTypes, KpNumbers DEF Publishing!TypeOK, KpSubmission
  <1>7. KpRest'
    <2>1. KpBatch'
      BY <1>1, <1>2, <1>5, KpNumbers DEF KpBatch, KpInv, KpRest, KpUnsent
    <2>2. KpUnsent'
      BY <1>1, <1>2, KpNumbers DEF KpInv, KpRest, KpUnsent
    <2>3. KpReported'
      <3>1. ASSUME NEW s \in KpSubmission, NEW i \in KpIndex
            PROVE  <<s, i>> \in reported' =>
                      <<s, i>> \in reported \/ fate[<<s, i>>] # "unsent"
        BY <1>1, <1>4, <3>1
      <3>2. reported \subseteq reported'
        BY <1>1
      <3> QED BY <1>1, <3>1, <3>2 DEF KpInv, KpRest, KpReported
    <2>4. KpOwn'
      <3> SUFFICES ASSUME job' # 0 /\ job' \notin mixed'
                   PROVE  /\ \A s \in KpSubmission, i \in KpIndex :
                                fate[<<s, i>>] # "unsent" /\ <<s, i>> \notin reported' => s = slot
                          /\ \A i \in 1 .. size[slot] : <<slot, i>> \notin reported'
        BY <1>1 DEF KpOwn
      <3>1. ASSUME NEW s \in KpSubmission, NEW i \in KpIndex
            PROVE  fate[<<s, i>>] # "unsent" => <<s, i>> \in reported'
        BY <1>1, <1>4, <3>1
      <3>2. ASSUME NEW i \in 1 .. size[slot] PROVE <<slot, i>> \notin reported'
        <4>1. i \in KpIndex
          BY <1>2, KpTypes, KpNumbers
        <4>2. fate[<<slot, i>>] = "unsent" /\ <<slot, i>> \notin reported
          BY <1>2, <4>1 DEF KpInv, KpRest, KpReported
        <4> QED BY <1>1, <1>2, <1>4, <4>1, <4>2
      <3> QED BY <3>1, <3>2
    <2>5. KpTold'
      <3>1. reported \subseteq reported' /\ mixed \subseteq mixed'
        BY <1>1
      <3> QED BY <1>1, <3>1 DEF KpInv, KpRest, KpTold
    <2> QED BY <2>1, <2>2, <2>3, <2>4, <2>5 DEF KpRest
  <1>8. KpHanded'
    BY <1>1, <1>2, KpNumbers DEF KpInv, KpHanded
  <1> QED BY <1>6, <1>7, <1>8 DEF KpInv

(* Check *)
LEMMA KpChecks ==
    ASSUME KpInv, Publishing!Check
    PROVE  KpInv'
  <1>1. /\ step = "sending" /\ next <= size[job] /\ answer[job] = "waiting" /\ step' = "checked"
        /\ size' = size /\ answer' = answer /\ slot' = slot /\ job' = job /\ next' = next
        /\ reports' = reports /\ fate' = fate /\ reported' = reported /\ handed' = handed
        /\ mixed' = mixed
    BY DEF Publishing!Check, Publishing!Sending
  <1>2. Publishing!TypeOK'
    BY <1>1 DEF KpInv, Publishing!TypeOK
  <1>3. KpRest'
    BY <1>1 DEF KpInv, KpRest, KpBatch, KpUnsent, KpReported, KpOwn, KpTold
  <1>4. KpHanded'
    BY <1>1 DEF KpInv, KpHanded
  <1> QED BY <1>2, <1>3, <1>4 DEF KpInv

(* Enqueue: the next record of the batch is handed over.                   *)
LEMMA KpEnqueues ==
    ASSUME KpInv, Publishing!Enqueue
    PROVE  KpInv'
  <1>1. /\ step = "checked" /\ step' = "sending" /\ next' = next + 1
        /\ fate' = [fate EXCEPT ![<<job, next>>] = "queued"]
        /\ size' = size /\ answer' = answer /\ slot' = slot /\ job' = job
        /\ reports' = reports /\ reported' = reported /\ handed' = handed /\ mixed' = mixed
    BY DEF Publishing!Enqueue
  <1>2. /\ Publishing!TypeOK /\ job # 0 /\ job \in KpSubmission /\ job # slot
        /\ next \in Nat /\ next >= 1 /\ next <= size[job] /\ size[job] \in Nat
        /\ size[job] <= MaxRecords /\ answer[job] \in {"waiting", "error"}
    BY <1>1, KpTypes, KpNumbers DEF KpInv, KpRest, KpBatch
  <1>3. next \in KpIndex /\ <<job, next>> \in KpSubmission \X KpIndex
    BY <1>2, KpNumbers
  <1>4. ASSUME NEW s \in KpSubmission, NEW i \in KpIndex
        PROVE  fate'[<<s, i>>] = IF s = job /\ i = next THEN "queued" ELSE fate[<<s, i>>]
    BY <1>1, <1>2, <1>3, KpTypes
  <1>5. fate[<<job, next>>] = "unsent" /\ <<job, next>> \notin reported
    BY <1>2, <1>3 DEF KpInv, KpRest, KpBatch, KpReported
  <1>6. Publishing!TypeOK'
    <2>1. next' \in 1 .. MaxRecords + 1
      BY <1>1, <1>2, KpNumbers
    <2>2. fate' \in [Publishing!Record -> {"unsent", "queued"} \union Publishing!Decided]
      BY <1>1, <1>2, KpTypes, KpNumbers
    <2> QED BY <1>1, <1>2, <2>1, <2>2 DEF Publishing!TypeOK
  <1>7. KpRest'
    <2>1. KpBatch'
      <3>1. ASSUME NEW i \in KpIndex PROVE fate'[<<job, i>>] = "unsent" <=> i >= next + 1
        BY <1>2, <1>4, KpNumbers DEF KpInv, KpRest, KpBatch
      <3> QED BY <1>1, <1>2, <3>1 DEF KpInv, KpRest, KpBatch
    <2>2. KpUnsent'
      BY <1>1, <1>2, <1>4 DEF KpInv, KpRest, KpUnsent
    <2>3. KpReported'
      <3> SUFFICES ASSUME NEW s \in KpSubmission, NEW i \in KpIndex
                   PROVE  /\ <<s, i>> \in reported => fate'[<<s, i>>] # "unsent"
                          /\ fate'[<<s, i>>] \in Publishing!Decided => <<s, i>> \in reported
        BY <1>1 DEF KpReported
      <3>1. /\ <<s, i>> \in reported => fate[<<s, i>>] # "unsent"
            /\ fate[<<s, i>>] \in Publishing!Decided => <<s, i>> \in reported
        BY DEF KpInv, KpRest, KpReported
      <3>2. CASE s = job /\ i = next
        BY <1>4, <1>5, <3>2 DEF Publishing!Decided
      <3>3. CASE ~ (s = job /\ i = next)
        BY <1>4, <3>1, <3>3
      <3> QED BY <3>2, <3>3
    <2>4. KpOwn'
      <3> SUFFICES ASSUME job \notin mixed
                   PROVE  /\ \A s \in KpSubmission, i \in KpIndex :
                                fate'[<<s, i>>] # "unsent" /\ <<s, i>> \notin reported => s = job
                          /\ \A i \in 1 .. size[job] : <<job, i>> \in reported =>
                                /\ fate'[<<job, i>>] \in Publishing!Decided
                                /\ reports[i] = IF fate'[<<job, i>>] = "appended"
                                                THEN "delivered" ELSE "failed"
        BY <1>1 DEF KpOwn
      <3>1. ASSUME NEW s \in KpSubmission, NEW i \in KpIndex,
                   fate'[<<s, i>>] # "unsent", <<s, i>> \notin reported
            PROVE  s = job
        BY <1>2, <1>4, <3>1 DEF KpInv, KpRest, KpOwn
      <3>2. ASSUME NEW i \in 1 .. size[job], <<job, i>> \in reported
            PROVE  /\ fate'[<<job, i>>] \in Publishing!Decided
                   /\ reports[i] = IF fate'[<<job, i>>] = "appended"
                                   THEN "delivered" ELSE "failed"
        <4>1. i \in KpIndex /\ i # next
          BY <1>2, <1>5, <3>2, KpNumbers
        <4>2. fate'[<<job, i>>] = fate[<<job, i>>]
          BY <1>2, <1>4, <4>1
        <4> QED BY <1>2, <3>2, <4>2 DEF KpInv, KpRest, KpOwn
      <3> QED BY <3>1, <3>2
    <2>5. KpTold'
      <3> SUFFICES ASSUME NEW s \in KpSubmission \ mixed, answer[s] \in Publishing!Outcome
                   PROVE  \A i \in 1 .. size[s] : fate'[<<s, i>>] = fate[<<s, i>>]
        BY <1>1 DEF KpInv, KpRest, KpTold
      <3>1. s # job
        BY <1>2 DEF Publishing!Outcome
      <3>2. \A i \in 1 .. size[s] : i \in KpIndex
        BY <1>2, KpTypes, KpNumbers
      <3> QED BY <1>4, <3>1, <3>2
    <2> QED BY <2>1, <2>2, <2>3, <2>4, <2>5 DEF KpRest
  <1>8. KpHanded'
    <2> SUFFICES ASSUME NEW s \in KpSubmission, answer[s] \notin {"none", "waiting"}
                 PROVE  Cardinality(KpSent(fate', size, s)) <= handed[s] + 1
      BY <1>1 DEF KpHanded
    <2>0. \A i \in 1 .. size[s] : i \in KpIndex
      BY <1>2, KpTypes, KpNumbers
    <2>1. CASE s = job
      <3> DEFINE before == KpSent(fate, size, s)
      <3>1. KpSent(fate', size, s) = before \union {<<job, next>>}
        <4>1. ASSUME NEW r \in {s} \X (1 .. size[s])
              PROVE  fate'[r] # "unsent" <=> fate[r] # "unsent" \/ r = <<job, next>>
          <5>1. PICK i \in 1 .. size[s] : r = <<s, i>>
            OBVIOUS
          <5>2. fate'[<<s, i>>] = IF i = next THEN "queued" ELSE fate[<<s, i>>]
            BY <1>4, <2>0, <2>1
          <5>3. <<s, i>> = <<job, next>> <=> i = next
            BY <2>1
          <5> QED BY <5>1, <5>2, <5>3, <1>5, <2>1
        <4>2. <<job, next>> \in {s} \X (1 .. size[s])
          BY <1>2, <2>1
        <4> QED BY <4>1, <4>2 DEF KpSent
      <3>2. IsFiniteSet(before) /\ Cardinality(before) \in Nat
        BY <1>2, KpCounts, KpNumbers
      <3>3. Cardinality(before) <= handed[s] /\ handed[s] \in Nat
        BY <1>1, <1>2, <2>1, KpTypes, KpNumbers DEF KpInv, KpHanded
      <3> DEFINE handing == <<job, next>>
                 after == before \union {handing}
      <3>4. KpSent(fate', size, s) = after
        BY <3>1
      <3> HIDE DEF before, handing
      <3>5. Cardinality(after) = IF handing \in before THEN Cardinality(before)
                                 ELSE Cardinality(before) + 1
        BY <3>2, FS_AddElement
      <3>6. Cardinality(after) = Cardinality(before) \/ Cardinality(after) = Cardinality(before) + 1
        BY <3>5
      <3> HIDE DEF after
      <3> QED BY <3>2, <3>3, <3>4, <3>6
    <2>2. CASE s # job
      <3>1. \A i \in 1 .. size[s] : fate'[<<s, i>>] = fate[<<s, i>>]
        BY <1>4, <2>0, <2>2
      <3>2. KpSent(fate', size, s) = KpSent(fate, size, s)
        BY <3>1, KpSame
      <3> QED BY <2>2, <3>2 DEF KpInv, KpHanded
    <2> QED BY <2>1, <2>2
  <1> QED BY <1>6, <1>7, <1>8 DEF KpInv

(* Poll: a report comes, of any record that is in flight.                  *)
LEMMA KpPolls ==
    ASSUME KpInv, Publishing!Poll
    PROVE  KpInv'
  <1>1. PICK q \in Publishing!InFlight, f \in Publishing!Decided :
           /\ fate' = [fate EXCEPT ![q] = f]
           /\ reported' = reported \union {q}
           /\ reports' = IF q[2] \in DOMAIN reports
                         THEN [reports EXCEPT ![q[2]] =
                                 IF f = "appended" THEN "delivered" ELSE "failed"]
                         ELSE reports
    BY DEF Publishing!Poll
  <1>2. /\ size' = size /\ answer' = answer /\ slot' = slot /\ job' = job /\ step' = step
        /\ next' = next /\ handed' = handed /\ mixed' = mixed /\ step = "sending"
        /\ next > size[job]
    BY DEF Publishing!Poll, Publishing!Polling
  <1>3. PICK t \in KpSubmission, k \in KpIndex :
           q = <<t, k>> /\ fate[<<t, k>>] # "unsent" /\ <<t, k>> \notin reported
    BY KpNumbers DEF Publishing!InFlight
  <1>4. Publishing!TypeOK /\ job # 0 /\ job \in KpSubmission
    BY <1>2, KpTypes DEF KpInv
  <1>5. f # "unsent" /\ f # "queued"
    BY DEF Publishing!Decided
  <1>6. ASSUME NEW s \in KpSubmission, NEW i \in KpIndex
        PROVE  /\ fate'[<<s, i>>] = IF s = t /\ i = k THEN f ELSE fate[<<s, i>>]
               /\ <<s, i>> \in reported' <=> <<s, i>> \in reported \/ (s = t /\ i = k)
    BY <1>1, <1>3, <1>4, KpTypes
  <1>7. /\ DOMAIN reports' = DOMAIN reports
        /\ \A i \in DOMAIN reports :
              reports'[i] = IF i = k THEN (IF f = "appended" THEN "delivered" ELSE "failed")
                            ELSE reports[i]
    BY <1>1, <1>3
  <1>8. Publishing!TypeOK'
    <2>1. fate' \in [Publishing!Record -> {"unsent", "queued"} \union Publishing!Decided]
      BY <1>1, <1>3, <1>4, KpTypes, KpNumbers
    <2>2. reported' \subseteq Publishing!Record
      BY <1>1, <1>3, <1>4, KpTypes, KpNumbers
    <2>3. reports' \in Seq({"none", "delivered", "failed"})
      <3> DEFINE kind == IF f = "appended" THEN "delivered" ELSE "failed"
                 kinds == {"none", "delivered", "failed"}
      <3>1. reports \in Seq(kinds) /\ kind \in kinds
        BY <1>4, KpTypes
      <3>2. reports \in [1 .. Len(reports) -> kinds] /\ Len(reports) \in Nat
        BY <3>1, LenProperties, SeqDef
      <3>3. reports' = IF q[2] \in DOMAIN reports THEN [reports EXCEPT ![q[2]] = kind] ELSE reports
        BY <1>1
      <3> HIDE DEF kind, kinds
      <3>4. reports' \in [1 .. Len(reports) -> kinds]
        BY <3>1, <3>2, <3>3
      <3>5. reports' \in Seq(kinds)
        BY <3>2, <3>4, SeqDef
      <3> QED BY <3>5 DEF kinds
    <2> QED BY <1>2, <1>4, <2>1, <2>2, <2>3 DEF Publishing!TypeOK
  <1>9. KpRest'
    <2>1. KpBatch'
      <3>1. ASSUME NEW i \in KpIndex PROVE fate'[<<job, i>>] = "unsent" <=> fate[<<job, i>>] = "unsent"
        BY <1>3, <1>4, <1>5, <1>6
      <3> QED BY <1>2, <1>4, <1>7, <3>1 DEF KpInv, KpRest, KpBatch
    <2>2. KpUnsent'
      BY <1>2, <1>3, <1>6 DEF KpInv, KpRest, KpUnsent
    <2>3. KpReported'
      BY <1>5, <1>6 DEF KpInv, KpRest, KpReported
    <2>4. KpOwn'
      <3> SUFFICES ASSUME job \notin mixed
                   PROVE  /\ \A s \in KpSubmission, i \in KpIndex :
                                fate'[<<s, i>>] # "unsent" /\ <<s, i>> \notin reported' => s = job
                          /\ \A i \in 1 .. size[job] : <<job, i>> \in reported' =>
                                /\ fate'[<<job, i>>] \in Publishing!Decided
                                /\ reports'[i] = IF fate'[<<job, i>>] = "appended"
                                                 THEN "delivered" ELSE "failed"
        BY <1>2 DEF KpOwn
      <3>1. ASSUME NEW s \in KpSubmission, NEW i \in KpIndex,
                   fate'[<<s, i>>] # "unsent", <<s, i>> \notin reported'
            PROVE  s = job
        BY <1>4, <1>6, <3>1 DEF KpInv, KpRest, KpOwn
      <3>2. ASSUME NEW i \in 1 .. size[job], <<job, i>> \in reported'
            PROVE  /\ fate'[<<job, i>>] \in Publishing!Decided
                   /\ reports'[i] = IF fate'[<<job, i>>] = "appended"
                                    THEN "delivered" ELSE "failed"
        <4>1. i \in KpIndex /\ i \in DOMAIN reports
          BY <1>4, KpTypes, KpNumbers DEF KpInv, KpRest, KpBatch
        <4>2. t = job
          BY <1>3, <1>4 DEF KpInv, KpRest, KpOwn
        <4>3. /\ fate'[<<job, i>>] = IF i = k THEN f ELSE fate[<<job, i>>]
              /\ <<job, i>> \in reported' <=> <<job, i>> \in reported \/ i = k
          BY <1>4, <1>6, <4>1, <4>2
        <4>4. i # k => /\ fate[<<job, i>>] \in Publishing!Decided
                       /\ reports[i] = IF fate[<<job, i>>] = "appended"
                                       THEN "delivered" ELSE "failed"
          BY <1>4, <3>2, <4>3 DEF KpInv, KpRest, KpOwn
        <4> QED BY <1>7, <4>1, <4>3, <4>4
      <3> QED BY <3>1, <3>2
    <2>5. KpTold'
      <3> SUFFICES ASSUME NEW s \in KpSubmission \ mixed, answer[s] \in Publishing!Outcome
                   PROVE  \A i \in 1 .. size[s] : <<s, i>> \in reported'
                                                  /\ fate'[<<s, i>>] = fate[<<s, i>>]
        BY <1>2 DEF KpInv, KpRest, KpTold
      <3>1. \A i \in 1 .. size[s] : i \in KpIndex /\ <<s, i>> \in reported
        BY <1>4, KpTypes, KpNumbers DEF KpInv, KpRest, KpTold
      <3> QED BY <1>3, <1>6, <3>1
    <2> QED BY <2>1, <2>2, <2>3, <2>4, <2>5 DEF KpRest
  <1>10. KpHanded'
    <2> SUFFICES ASSUME NEW s \in KpSubmission
                 PROVE  KpSent(fate', size, s) = KpSent(fate, size, s)
      BY <1>2 DEF KpInv, KpHanded
    <2>1. \A i \in 1 .. size[s] : i \in KpIndex
      BY <1>4, KpTypes, KpNumbers
    <2>2. \A i \in 1 .. size[s] : fate'[<<s, i>>] = "unsent" <=> fate[<<s, i>>] = "unsent"
      BY <1>3, <1>5, <1>6, <2>1
    <2> QED BY <2>2, KpSame
  <1> QED BY <1>8, <1>9, <1>10 DEF KpInv

(* What does not publish keeps the invariant.                              *)
LEMMA KpKept == KpInv /\ publishing' = publishing => KpInv'
  <1> SUFFICES ASSUME KpInv, publishing' = publishing PROVE KpInv'
    OBVIOUS
  <1>1. /\ size' = size /\ answer' = answer /\ slot' = slot /\ job' = job /\ step' = step
        /\ next' = next /\ reports' = reports /\ fate' = fate /\ reported' = reported
        /\ handed' = handed /\ mixed' = mixed
    BY DEF publishing
  <1>2. Publishing!TypeOK'
    BY <1>1 DEF KpInv, Publishing!TypeOK
  <1>3. KpBatch' /\ KpUnsent' /\ KpReported'
    BY <1>1 DEF KpInv, KpRest, KpBatch, KpUnsent, KpReported
  <1>4. KpOwn'
    BY <1>1 DEF KpInv, KpRest, KpOwn
  <1>5. KpTold'
    BY <1>1 DEF KpInv, KpRest, KpTold
  <1>6. KpHanded'
    BY <1>1 DEF KpInv, KpHanded
  <1> QED BY <1>2, <1>3, <1>4, <1>5, <1>6 DEF KpInv, KpRest

(* Every step of publishing keeps the invariant.                           *)
LEMMA KpSteps == KpInv /\ Publishing!Next => KpInv'
  <1> SUFFICES ASSUME KpInv, Publishing!Next PROVE KpInv'
    OBVIOUS
  <1>1. CASE \E s \in KpSubmission : \/ Publishing!Submit(s) \/ Publishing!Busy(s)
                                     \/ Publishing!Abandon(s)
    BY <1>1, KpSubmits, KpLeaves
  <1>2. CASE Publishing!Owner
    BY <1>2, KpDrops, KpTakes, KpChecks, KpEnqueues, KpStops, KpFinishes DEF Publishing!Owner
  <1>3. CASE Publishing!Quiet
    BY <1>3, KpKept DEF Publishing!Quiet, Publishing!vars, publishing
  <1> QED BY <1>1, <1>2, <1>3, KpPolls DEF Publishing!Next, KpSubmission

(* What the invariant says of the answers.                                 *)
LEMMA KpAnswers == KpInv => Publishing!OwnReports /\ Publishing!TypeOK
  <1> SUFFICES ASSUME KpInv PROVE Publishing!OwnReports
    BY DEF KpInv
  <1>1. Publishing!TypeOK
    BY DEF KpInv
  <1>2. ASSUME NEW s \in KpSubmission
        PROVE  \A o : o \in Publishing!Fates(s) <=> \E i \in 1 .. size[s] : o = fate[<<s, i>>]
    <2> DEFINE records == {s} \X (1 .. size[s])
    <2>1. Publishing!Fates(s) = {fate[r] : r \in records}
      BY DEF Publishing!Fates, Publishing!Records
    <2>2. \A r \in records : \E i \in 1 .. size[s] : r = <<s, i>>
      OBVIOUS
    <2>3. \A i \in 1 .. size[s] : <<s, i>> \in records
      OBVIOUS
    <2> HIDE DEF records
    <2>4. ASSUME NEW o, o \in Publishing!Fates(s)
          PROVE  \E i \in 1 .. size[s] : o = fate[<<s, i>>]
      <3>1. PICK r \in records : o = fate[r]
        BY <2>1, <2>4
      <3>2. PICK i \in 1 .. size[s] : r = <<s, i>>
        BY <2>2
      <3> QED BY <3>1, <3>2
    <2>5. ASSUME NEW i \in 1 .. size[s] PROVE fate[<<s, i>>] \in Publishing!Fates(s)
      BY <2>1, <2>3
    <2> QED BY <2>4, <2>5
  <1>3. ASSUME NEW s \in KpSubmission \ mixed
        PROVE  /\ answer[s] = "Applied" => Publishing!Fates(s) = {"appended"}
               /\ answer[s] = "Rejected" => "appended" \notin Publishing!Fates(s)
               /\ answer[s] = "Unknown" => /\ {"appended"} # Publishing!Fates(s)
                                           /\ "appended" \in Publishing!Fates(s)
    <2> DEFINE fates == Publishing!Fates(s)
    <2>1. \A o : o \in fates <=> \E i \in 1 .. size[s] : o = fate[<<s, i>>]
      BY <1>2
    <2>2. size[s] \in Nat
      BY <1>1, KpTypes
    <2> HIDE DEF fates
    <2>3. ASSUME answer[s] = "Applied" PROVE fates = {"appended"}
      <3>1. /\ size[s] # 0 /\ \A i \in 1 .. size[s] : fate[<<s, i>>] = "appended"
        BY <2>3 DEF KpInv, KpRest, KpTold, Publishing!Outcome
      <3>2. 1 \in 1 .. size[s]
        BY <2>2, <3>1
      <3>3. \A o : o \in fates <=> o = "appended"
        BY <2>1, <3>1, <3>2
      <3> QED BY <3>3
    <2>4. ASSUME answer[s] = "Rejected" PROVE "appended" \notin fates
      BY <2>1, <2>4 DEF KpInv, KpRest, KpTold, Publishing!Outcome
    <2>5. ASSUME answer[s] = "Unknown" PROVE {"appended"} # fates /\ "appended" \in fates
      <3>1. /\ \E i \in 1 .. size[s] : fate[<<s, i>>] = "appended"
            /\ \E i \in 1 .. size[s] : fate[<<s, i>>] # "appended"
        BY <2>5 DEF KpInv, KpRest, KpTold, Publishing!Outcome
      <3> QED BY <2>1, <3>1
    <2> QED BY <2>3, <2>4, <2>5 DEF fates
  <1>4. ASSUME NEW s \in KpSubmission, answer[s] \notin {"none", "waiting"}
        PROVE  Publishing!HandedOver(s) <= handed[s] + 1
    <2> DEFINE n == Cardinality(KpSent(fate, size, s))
    <2>1. n \in Nat /\ handed[s] \in Nat /\ Publishing!HandedOver(s) = n
      BY <1>1, KpCounts, KpTypes, KpNumbers
    <2>2. n <= handed[s] + IF job = s /\ step = "checked" THEN 0 ELSE 1
      BY <1>4 DEF KpInv, KpHanded
    <2> HIDE DEF n
    <2> QED BY <2>1, <2>2
  <1> QED BY <1>3, <1>4 DEF Publishing!OwnReports, KpSubmission
-----------------------------------------------------------------------------
(* NATS                                                                    *)

NaConn == NatsServer!Conn
NaFields == {"slot", "link", "gen", "events", "running", "downs", "status", "err", "closed", "op",
             "sub", "ids", "held", "stored", "report"}
NaOp == [kind : {"none", "page", "open", "next", "check", "stop", "publish", "shutdown"},
         at : {"idle", "lease", "stop", "connect", "work", "send", "ack", "decode", "drain"},
         write : {0} \union NatsServer!Write, conn : {0} \union NaConn,
         rows : Seq(NatsServer!Message)]
NaStored == {"no", "running", "stored", "refused"}
NaStatus == {"Configured", "Connecting", "Connected", "Disconnected", "Closing", "Closed"}
NaState == [slot : {0} \union NaConn, link : [NaConn -> {"unused", "up", "down", "dropped"}],
            gen : {0} \union NaConn, events : [NaConn -> Seq(NatsServer!Event)],
            running : [NaConn -> NatsServer!Event \union {"none"}], downs : Nat,
            status : NaStatus, err : BOOLEAN, closed : BOOLEAN, op : NaOp,
            sub : NatsServer!Subscription, ids : 0 .. MaxFollow, held : Nat \X Nat,
            stored : [NatsServer!Write -> NaStored],
            report : [NatsServer!Write -> {"none", "error", "Applied", "Unknown"}]]

(* What became of a message, in the words of the other providers.          *)
NaEffect(stored) ==
    [w \in NatsServer!Write |-> IF stored[w] = "stored" THEN "done" ELSE stored[w]]

(* The message of a publish is not reported, and has left only while its   *)
(* acknowledgement is awaited; rows are those of a batch that is decoded.  *)
NaAsks(op, stored, report) ==
    /\ op.kind = "none" <=> op.at = "idle"
    /\ op.kind = "stop" <=> op.at = "stop"
    /\ op.kind = "shutdown" <=> op.at = "drain"
    /\ op.kind = "publish" <=> op.write # 0
    /\ op.at \in {"send", "ack"} => op.kind = "publish"
    /\ op.at \in {"work", "decode"} => op.kind # "publish"
    /\ op.rows # <<>> => op.at = "decode" /\ op.kind = "next"
    /\ op.write # 0 => report[op.write] = "none"
    /\ \A w \in NatsServer!Write :
          report[w] = "none" /\ stored[w] # "no" => op.write = w /\ op.at = "ack"

(* A client that is used is the one whose callback is current, and only    *)
(* with one there is a subscription.                                       *)
NaSlot(conn, gen, link, closed, op, sub) ==
    /\ conn # 0 => gen = conn /\ ~closed /\ link[conn] \in {"up", "down"}
    /\ conn = 0 => sub.id = 0 /\ ~sub.lost
    /\ op.at = "connect" => conn = 0 /\ gen = op.conn /\ op.conn # 0
    /\ closed => op.kind \in {"none", "shutdown"}

(* There is room for what the operation will begin.                        *)
NaRoom(op, ids, sub, events) ==
    /\ op.at \in {"lease", "connect", "work"} =>
          /\ op.kind = "open" => ids < MaxFollow
          /\ op.kind = "next" => sub.batch < MaxBatch
    /\ Len(sub.queue) <= QueueLimit /\ Len(sub.pending) <= 1
    /\ \A c \in NaConn : Len(events[c]) <= MaxEvents

(* Nothing that came is missing where nothing was lost.                    *)
NaWhole(rows, sub) ==
    ~sub.lost => ((sub.shown \o rows) \o sub.pending) \o sub.queue = [i \in 1 .. sub.arrived |-> i]

(* A loss, and a connection that is down, are told or about to be.         *)
NaWarned(conn, link, err, running, events, sub) ==
    conn # 0 /\ (sub.lost \/ link[conn] = "down") =>
       \/ err
       \/ running[conn] \in NatsServer!Tells
       \/ \E i \in 1 .. Len(events[conn]) : events[conn][i] \in NatsServer!Tells

NaInv ==
    /\ nats \in NaState
    /\ NaAsks(nats.op, nats.stored, nats.report)
    /\ NaSlot(nats.slot, nats.gen, nats.link, nats.closed, nats.op, nats.sub)
    /\ NaRoom(nats.op, nats.ids, nats.sub, nats.events)
    /\ NaWhole(nats.op.rows, nats.sub)
    /\ NaWarned(nats.slot, nats.link, nats.err, nats.running, nats.events, nats.sub)
    /\ Honest(NaEffect(nats.stored), nats.report)

NaStep == StatementStep(NaEffect(nats.stored), nats.report, NaEffect(nats'.stored), nats'.report)

(* Numbers and sets the other facts need.                                  *)
LEMMA NaNumbers ==
    /\ 0 \notin NaConn /\ 0 \notin NatsServer!Write
    /\ NaConn \subseteq Nat /\ MaxFollow \in Nat /\ MaxBatch \in Nat /\ MaxBatch # 0
    /\ MaxMessage \in Nat /\ QueueLimit \in Nat /\ MaxEvents \in Nat /\ MaxEvents # 0
  BY ProvidersAssumption
     DEF ProvidersAssumption, NaConn, NatsServer!Conn, NatsServer!Write

(* No subscription and no operation have the types of one.                 *)
LEMMA NaNothing ==
    /\ NatsServer!NoSub \in NatsServer!Subscription
    /\ NatsServer!NoSub.id = 0 /\ NatsServer!NoSub.batch = 0
    /\ NatsServer!NoSub.queue = <<>> /\ NatsServer!NoSub.pending = <<>>
    /\ NatsServer!NoSub.shown = <<>> /\ NatsServer!NoSub.arrived = 0 /\ ~NatsServer!NoSub.lost
    /\ NatsServer!NoOp \in NaOp /\ NatsServer!NoOp.kind = "none" /\ NatsServer!NoOp.at = "idle"
    /\ NatsServer!NoOp.write = 0 /\ NatsServer!NoOp.rows = <<>> /\ NatsServer!NoOp.conn = 0
  <1>1. NatsServer!NoSub \in NatsServer!Subscription
    BY NaNumbers, EmptySeq DEF NatsServer!NoSub, NatsServer!Subscription
  <1>2. NatsServer!NoOp \in NaOp
    BY EmptySeq DEF NatsServer!NoOp, NaOp
  <1> QED BY <1>1, <1>2 DEF NatsServer!NoSub, NatsServer!NoOp

(* Nothing follows and nothing is missing.                                 *)
LEMMA NaEmpty ==
    ASSUME NEW op, NEW ids, NEW events,
           op.at \in {"lease", "connect", "work"} /\ op.kind = "open" => ids < MaxFollow,
           \A c \in NaConn : Len(events[c]) <= MaxEvents
    PROVE  NaRoom(op, ids, NatsServer!NoSub, events) /\ NaWhole(<<>>, NatsServer!NoSub)
  <1>1. Len(<<>>) = 0 /\ (<<>> \o <<>>) \o <<>> = <<>>
    BY EmptySeq, ConcatEmptySeq
  <1>2. [i \in 1 .. 0 |-> i] = <<>>
    OBVIOUS
  <1> QED BY <1>1, <1>2, NaNothing, NaNumbers DEF NaRoom, NaWhole

(* Nothing has been asked at first.                                        *)
LEMMA NaBegins == NatsServer!Init => NaInv
  <1> SUFFICES ASSUME NatsServer!Init PROVE NaInv
    OBVIOUS
  <1>1. nats \in NaState
    BY NaNothing, NaNumbers, EmptySeq
       DEF NatsServer!Init, NaState, NaStatus, NaStored, NaConn, NatsServer!Event
  <1>2. /\ nats.op = NatsServer!NoOp /\ nats.sub = NatsServer!NoSub /\ nats.slot = 0
        /\ nats.closed = FALSE /\ nats.ids = 0
    BY DEF NatsServer!Init
  <1>3. \A c \in NaConn : Len(nats.events[c]) <= MaxEvents
    BY NaNumbers, EmptySeq DEF NatsServer!Init, NaConn
  <1>4. NaRoom(nats.op, nats.ids, nats.sub, nats.events) /\ NaWhole(nats.op.rows, nats.sub)
    BY <1>2, <1>3, NaNothing, NaEmpty
  <1>5. NaAsks(nats.op, nats.stored, nats.report)
    BY <1>2, NaNothing DEF NatsServer!Init, NaAsks
  <1>6. NaSlot(nats.slot, nats.gen, nats.link, nats.closed, nats.op, nats.sub)
    BY <1>2, NaNothing DEF NaSlot
  <1>7. Honest(NaEffect(nats.stored), nats.report)
    BY DEF NatsServer!Init, Honest
  <1> QED BY <1>1, <1>2, <1>4, <1>5, <1>6, <1>7 DEF NaInv, NaWarned

(* The parts of the invariant, by name.                                    *)
LEMMA NaKnown ==
    ASSUME NaInv
    PROVE  /\ nats \in NaState /\ nats.op \in NaOp /\ nats.sub \in NatsServer!Subscription
           /\ nats.slot \in {0} \union NaConn /\ nats.gen \in {0} \union NaConn
           /\ nats.events \in [NaConn -> Seq(NatsServer!Event)]
           /\ nats.link \in [NaConn -> {"unused", "up", "down", "dropped"}]
           /\ nats.running \in [NaConn -> NatsServer!Event \union {"none"}]
           /\ nats.stored \in [NatsServer!Write -> NaStored]
           /\ nats.report \in [NatsServer!Write -> {"none", "error", "Applied", "Unknown"}]
           /\ nats.report \in [NatsServer!Write -> Told]
           /\ NaEffect(nats.stored) \in [NatsServer!Write -> Fates]
           /\ NaAsks(nats.op, nats.stored, nats.report)
           /\ NaSlot(nats.slot, nats.gen, nats.link, nats.closed, nats.op, nats.sub)
           /\ NaRoom(nats.op, nats.ids, nats.sub, nats.events)
           /\ NaWhole(nats.op.rows, nats.sub)
           /\ NaWarned(nats.slot, nats.link, nats.err, nats.running, nats.events, nats.sub)
           /\ Honest(NaEffect(nats.stored), nats.report)
  BY DEF NaInv, NaState, NaEffect, NaStored, Fates, Told

(* An operation that begins or goes on and sends nothing, or is over with  *)
(* nothing to report.                                                      *)
LEMMA NaGoes ==
    ASSUME NaInv, NEW op \in NaOp, nats' = [nats EXCEPT !.op = op],
           NaAsks(op, nats.stored, nats.report),
           op.at = "connect" => nats.op.at = "connect" /\ op.conn = nats.op.conn,
           nats.closed => op.kind \in {"none", "shutdown"},
           op.at \in {"lease", "connect", "work"} =>
              /\ op.kind = "open" => nats.ids < MaxFollow
              /\ op.kind = "next" => nats.sub.batch < MaxBatch,
           op.rows = nats.op.rows
    PROVE  NaInv' /\ NaStep
  <1>1. /\ nats' \in NaState /\ nats'.op = op /\ nats'.slot = nats.slot /\ nats'.gen = nats.gen
        /\ nats'.link = nats.link /\ nats'.closed = nats.closed /\ nats'.sub = nats.sub
        /\ nats'.events = nats.events /\ nats'.running = nats.running /\ nats'.err = nats.err
        /\ nats'.ids = nats.ids /\ nats'.stored = nats.stored /\ nats'.report = nats.report
    BY NaKnown DEF NaState
  <1>2. NaSlot(nats.slot, nats.gen, nats.link, nats.closed, op, nats.sub)
    BY NaKnown DEF NaSlot
  <1>3. NaRoom(op, nats.ids, nats.sub, nats.events)
    BY NaKnown DEF NaRoom
  <1>4. NaStep
    BY <1>1 DEF NaStep, StatementStep
  <1> QED BY <1>1, <1>2, <1>3, <1>4, NaKnown DEF NaInv

(* Ask and Publish *)
LEMMA NaAsked == NaInv /\ (NatsServer!Ask \/ NatsServer!Publish) => NaInv' /\ NaStep
  <1> SUFFICES ASSUME NaInv, NatsServer!Ask \/ NatsServer!Publish PROVE NaInv' /\ NaStep
    OBVIOUS
  <1>0. /\ nats.op.kind = "none" /\ ~nats.closed /\ nats.op.rows = <<>>
        /\ \A w \in NatsServer!Write : nats.report[w] = "none" => nats.stored[w] = "no"
    BY NaKnown DEF NatsServer!Ask, NatsServer!Publish, NatsServer!Idle, NaAsks
  <1>1. ASSUME NEW kind \in {"page", "open", "next", "check", "stop"},
               kind = "open" => nats.ids < MaxFollow,
               kind = "next" => nats.sub.batch < MaxBatch,
               nats' = [nats EXCEPT !.op = [NatsServer!NoOp EXCEPT !.kind = kind,
                                    !.at = IF kind = "stop" THEN "stop" ELSE "lease"]]
        PROVE  NaInv' /\ NaStep
    <2> DEFINE op == [NatsServer!NoOp EXCEPT !.kind = kind,
                                    !.at = IF kind = "stop" THEN "stop" ELSE "lease"]
    <2>1. /\ op \in NaOp /\ op.kind = kind /\ op.write = 0 /\ op.rows = <<>>
          /\ op.at = IF kind = "stop" THEN "stop" ELSE "lease"
      BY NaNothing DEF NaOp
    <2>2. nats' = [nats EXCEPT !.op = op]
      BY <1>1
    <2> HIDE DEF op
    <2>3. NaAsks(op, nats.stored, nats.report)
      BY <1>0, <1>1, <2>1, NaNumbers DEF NaAsks
    <2> QED BY <1>0, <1>1, <2>1, <2>2, <2>3, NaGoes
  <1>2. ASSUME NEW w \in NatsServer!Write, nats.report[w] = "none",
               nats' = [nats EXCEPT !.op = [NatsServer!NoOp EXCEPT !.kind = "publish",
                                                    !.at = "lease", !.write = w]]
        PROVE  NaInv' /\ NaStep
    <2> DEFINE op == [NatsServer!NoOp EXCEPT !.kind = "publish", !.at = "lease", !.write = w]
    <2>1. /\ op \in NaOp /\ op.kind = "publish" /\ op.write = w /\ op.rows = <<>>
          /\ op.at = "lease"
      BY NaNothing DEF NaOp
    <2>2. nats' = [nats EXCEPT !.op = op]
      BY <1>2
    <2> HIDE DEF op
    <2>3. NaAsks(op, nats.stored, nats.report)
      BY <1>0, <1>2, <2>1, NaNumbers DEF NaAsks
    <2> QED BY <1>0, <1>2, <2>1, <2>2, <2>3, NaGoes
  <1>3. CASE NatsServer!Ask
    <2>1. PICK kind \in NatsServer!Page \union {"stop"} :
             /\ kind = "open" => nats.ids < MaxFollow
             /\ kind = "next" => nats.sub.batch < MaxBatch
             /\ nats' = [nats EXCEPT !.op = [NatsServer!NoOp EXCEPT !.kind = kind,
                                    !.at = IF kind = "stop" THEN "stop" ELSE "lease"]]
      BY <1>3 DEF NatsServer!Ask
    <2>2. kind \in {"page", "open", "next", "check", "stop"}
      BY DEF NatsServer!Page
    <2> QED BY <1>1, <2>1, <2>2
  <1>4. CASE NatsServer!Publish
    BY <1>2, <1>4 DEF NatsServer!Publish
  <1> QED BY <1>3, <1>4

(* Reuse *)
LEMMA NaReused == NaInv /\ NatsServer!Reuse => NaInv' /\ NaStep
  <1> SUFFICES ASSUME NaInv, NatsServer!Reuse PROVE NaInv' /\ NaStep
    OBVIOUS
  <1> DEFINE op == [nats.op EXCEPT !.at = NatsServer!Ready]
  <1>1. nats.op.at = "lease" /\ nats' = [nats EXCEPT !.op = op]
    BY NaKnown DEF NatsServer!Reuse, NatsServer!At, NaState
  <1>2. /\ NatsServer!Ready \in {"send", "work"}
        /\ NatsServer!Ready = "send" <=> nats.op.kind = "publish"
    BY DEF NatsServer!Ready
  <1>3. /\ op \in NaOp /\ op.kind = nats.op.kind /\ op.write = nats.op.write
        /\ op.rows = nats.op.rows /\ op.at = NatsServer!Ready
    BY <1>2, NaKnown DEF NaOp
  <1> HIDE DEF op
  <1>4. NaAsks(op, nats.stored, nats.report)
    BY <1>1, <1>2, <1>3, NaKnown DEF NaAsks
  <1>5. /\ op.kind = "open" => nats.ids < MaxFollow
        /\ op.kind = "next" => nats.sub.batch < MaxBatch
        /\ nats.closed => op.kind \in {"none", "shutdown"}
    BY <1>1, <1>3, NaKnown DEF NaRoom, NaSlot
  <1> QED BY <1>1, <1>2, <1>3, <1>4, <1>5, NaGoes

(* What an operation that is over reports.                                 *)
LEMMA NaReports ==
    ASSUME NaInv, NEW outcome \in {"error", "Applied", "Unknown"},
           nats'.op = NatsServer!NoOp, nats'.stored = nats.stored,
           nats'.report = IF nats.op.write = 0 THEN nats.report
                          ELSE [nats.report EXCEPT ![nats.op.write] = outcome],
           nats.op.write # 0 =>
              /\ outcome = "error" => nats.stored[nats.op.write] = "no"
              /\ outcome = "Applied" => nats.stored[nats.op.write] = "stored"
    PROVE  /\ NaAsks(nats'.op, nats'.stored, nats'.report) /\ NaStep
           /\ Honest(NaEffect(nats'.stored), nats'.report)
  <1>1. NaStep
    <2>1. CASE nats.op.write = 0
      BY <2>1 DEF NaStep, StatementStep
    <2>2. CASE nats.op.write # 0
      <3> DEFINE w == nats.op.write
      <3>1. w \in NatsServer!Write /\ w \in DOMAIN nats.report /\ nats.report[w] = "none"
        BY <2>2, NaKnown DEF NaOp, NaAsks
      <3>2. /\ outcome = "error" => NaEffect(nats.stored)[w] = "no"
            /\ outcome = "Applied" => NaEffect(nats.stored)[w] = "done"
        BY <2>2, <3>1 DEF NaEffect
      <3>3. Reports(NaEffect(nats.stored), nats.report, NaEffect(nats'.stored), nats'.report)
        BY <2>2, <3>1, <3>2 DEF Reports, Told
      <3> QED BY <3>3 DEF NaStep, StatementStep
    <2> QED BY <2>1, <2>2
  <1>2. Honest(NaEffect(nats'.stored), nats'.report)
    <2>1. /\ NaEffect(nats.stored) \in [NatsServer!Write -> Fates]
          /\ nats.report \in [NatsServer!Write -> Told]
          /\ Honest(NaEffect(nats.stored), nats.report)
      BY NaKnown
    <2> QED BY <1>1, <2>1, HonestKept DEF NaStep
  <1>3. NaAsks(nats'.op, nats'.stored, nats'.report)
    BY NaKnown, NaNothing, NaNumbers DEF NaAsks
  <1> QED BY <1>1, <1>2, <1>3

(* The client stays, and the subscription with it.                         *)
LEMMA NaStays ==
    ASSUME NaInv, nats' \in NaState, nats'.op = NatsServer!NoOp, nats.op.rows = <<>>,
           nats'.slot = nats.slot, nats'.closed = nats.closed,
           nats.slot # 0 => nats'.gen = nats.gen /\ nats'.link = nats.link,
           nats'.sub \in {nats.sub, NatsServer!NoSub},
           nats'.events = nats.events, nats'.running = nats.running, nats'.err = nats.err
    PROVE  /\ NaSlot(nats'.slot, nats'.gen, nats'.link, nats'.closed, nats'.op, nats'.sub)
           /\ NaRoom(nats'.op, nats'.ids, nats'.sub, nats'.events)
           /\ NaWhole(nats'.op.rows, nats'.sub)
           /\ NaWarned(nats'.slot, nats'.link, nats'.err, nats'.running, nats'.events, nats'.sub)
  <1>1. \A c \in NaConn : Len(nats'.events[c]) <= MaxEvents
    BY NaKnown DEF NaRoom
  <1>2. NaSlot(nats'.slot, nats'.gen, nats'.link, nats'.closed, nats'.op, nats'.sub)
    BY NaKnown, NaNothing DEF NaSlot
  <1>3. NaWarned(nats'.slot, nats'.link, nats'.err, nats'.running, nats'.events, nats'.sub)
    BY NaKnown, NaNothing DEF NaWarned
  <1>4. CASE nats'.sub = nats.sub
    <2>1. NaRoom(nats'.op, nats'.ids, nats'.sub, nats'.events)
      BY <1>1, <1>4, NaKnown, NaNothing DEF NaRoom
    <2>2. NaWhole(nats'.op.rows, nats'.sub)
      BY <1>4, NaKnown, NaNothing
    <2> QED BY <1>2, <1>3, <2>1, <2>2
  <1>5. CASE nats'.sub = NatsServer!NoSub
    BY <1>1, <1>2, <1>3, <1>5, NaEmpty, NaNothing
  <1> QED BY <1>4, <1>5

(* The client is gone, and the subscription with it.                       *)
LEMMA NaGone ==
    ASSUME NaInv, nats' \in NaState, nats'.slot = 0, nats'.sub = NatsServer!NoSub,
           \A c \in NaConn : Len(nats'.events[c]) <= MaxEvents, nats'.op.rows = <<>>,
           nats'.op.at \in {"lease", "connect", "work"} /\ nats'.op.kind = "open"
              => nats'.ids < MaxFollow,
           nats'.op.at = "connect" => nats'.gen = nats'.op.conn /\ nats'.op.conn # 0,
           nats'.closed => nats'.op.kind \in {"none", "shutdown"}
    PROVE  /\ NaSlot(nats'.slot, nats'.gen, nats'.link, nats'.closed, nats'.op, nats'.sub)
           /\ NaRoom(nats'.op, nats'.ids, nats'.sub, nats'.events)
           /\ NaWhole(nats'.op.rows, nats'.sub)
           /\ NaWarned(nats'.slot, nats'.link, nats'.err, nats'.running, nats'.events, nats'.sub)
  BY NaEmpty, NaNothing DEF NaSlot, NaWarned

(* What the client that is dropped leaves of a state.                      *)
LEMMA NaDropped ==
    ASSUME NEW state \in NaState
    PROVE  /\ NatsServer!Dropped(state) \in NaState /\ NatsServer!Dropped(state).slot = 0
           /\ NatsServer!Dropped(state).sub = NatsServer!NoSub
           /\ \A c \in NaConn : Len(NatsServer!Dropped(state).events[c]) <= MaxEvents
           /\ NatsServer!Dropped(state).closed = state.closed
           /\ NatsServer!Dropped(state).op = state.op
           /\ NatsServer!Dropped(state).ids = state.ids
           /\ NatsServer!Dropped(state).stored = state.stored
           /\ NatsServer!Dropped(state).report = state.report
  <1> DEFINE events == [c \in NaConn |-> <<>>]
             link == [c \in NaConn |-> IF c = state.slot THEN "dropped" ELSE state.link[c]]
  <1>1. events \in [NaConn -> Seq(NatsServer!Event)] /\ \A c \in NaConn : Len(events[c]) = 0
    BY EmptySeq
  <1>2. link \in [NaConn -> {"unused", "up", "down", "dropped"}]
    BY DEF NaState
  <1>3. NatsServer!Dropped(state) =
           [state EXCEPT !.slot = 0, !.events = events, !.gen = 0, !.status = "Disconnected",
                         !.sub = NatsServer!NoSub, !.link = link]
    BY DEF NatsServer!Dropped, NaConn
  <1> HIDE DEF events, link
  <1> DEFINE nosub == NatsServer!NoSub
  <1>a. nosub \in NatsServer!Subscription
    BY NaNothing
  <1> HIDE DEF nosub
  <1>b. [state EXCEPT !.slot = 0, !.events = events, !.gen = 0, !.status = "Disconnected",
                      !.sub = nosub, !.link = link] \in NaState
    BY <1>1, <1>2, <1>a DEF NaState, NaStatus
  <1>4. /\ NatsServer!Dropped(state) \in NaState /\ NatsServer!Dropped(state).slot = 0
        /\ NatsServer!Dropped(state).sub = NatsServer!NoSub
        /\ NatsServer!Dropped(state).events = events
        /\ NatsServer!Dropped(state).closed = state.closed
        /\ NatsServer!Dropped(state).op = state.op
        /\ NatsServer!Dropped(state).ids = state.ids
        /\ NatsServer!Dropped(state).stored = state.stored
        /\ NatsServer!Dropped(state).report = state.report
    <2>1. NatsServer!Dropped(state) \in NaState
      BY <1>3, <1>b DEF nosub
    <2>2. /\ NatsServer!Dropped(state).slot = 0
          /\ NatsServer!Dropped(state).sub = NatsServer!NoSub
          /\ NatsServer!Dropped(state).events = events
      BY <1>3 DEF NaState
    <2>3. /\ NatsServer!Dropped(state).closed = state.closed
          /\ NatsServer!Dropped(state).op = state.op
          /\ NatsServer!Dropped(state).ids = state.ids
          /\ NatsServer!Dropped(state).stored = state.stored
          /\ NatsServer!Dropped(state).report = state.report
      BY <1>3 DEF NaState
    <2> QED BY <2>1, <2>2, <2>3
  <1> QED BY <1>1, <1>4, NaNumbers

(* An operation that ends with the client dropped and nothing reported.    *)
LEMMA NaBreaks ==
    ASSUME NaInv, nats.op.write = 0, nats' = [NatsServer!Dropped(nats) EXCEPT !.op = NatsServer!NoOp]
    PROVE  NaInv' /\ NaStep
  <1>1. /\ nats' \in NaState /\ nats'.slot = 0 /\ nats'.sub = NatsServer!NoSub
        /\ \A c \in NaConn : Len(nats'.events[c]) <= MaxEvents
        /\ nats'.op = NatsServer!NoOp
        /\ nats'.stored = nats.stored /\ nats'.report = nats.report
    <2>1. NatsServer!Dropped(nats) \in NaState
      BY NaKnown, NaDropped
    <2> HIDE DEF NaState
    <2>2. /\ nats' \in NaState /\ nats'.op = NatsServer!NoOp
          /\ nats'.slot = NatsServer!Dropped(nats).slot
          /\ nats'.sub = NatsServer!Dropped(nats).sub
          /\ nats'.events = NatsServer!Dropped(nats).events
          /\ nats'.stored = NatsServer!Dropped(nats).stored
          /\ nats'.report = NatsServer!Dropped(nats).report
      BY <2>1, NaNothing DEF NaState
    <2> QED BY <2>2, NaKnown, NaDropped
  <1>2. /\ NaAsks(nats'.op, nats'.stored, nats'.report) /\ NaStep
        /\ Honest(NaEffect(nats'.stored), nats'.report)
    BY <1>1, NaReports
  <1>3. /\ NaSlot(nats'.slot, nats'.gen, nats'.link, nats'.closed, nats'.op, nats'.sub)
        /\ NaRoom(nats'.op, nats'.ids, nats'.sub, nats'.events)
        /\ NaWhole(nats'.op.rows, nats'.sub)
        /\ NaWarned(nats'.slot, nats'.link, nats'.err, nats'.running, nats'.events, nats'.sub)
    BY <1>1, NaGone, NaNothing
  <1> QED BY <1>1, <1>2, <1>3 DEF NaInv

(* PageFails and StopFails *)
LEMMA NaBroken == NaInv /\ (NatsServer!PageFails \/ NatsServer!StopFails) => NaInv' /\ NaStep
  <1> SUFFICES ASSUME NaInv, NatsServer!PageFails \/ NatsServer!StopFails PROVE NaInv' /\ NaStep
    OBVIOUS
  <1>1. nats' = [NatsServer!Dropped(nats) EXCEPT !.op = NatsServer!NoOp]
    BY DEF NatsServer!PageFails, NatsServer!StopFails
  <1>2. nats.op.write = 0
    BY NaKnown DEF NatsServer!PageFails, NatsServer!StopFails, NatsServer!At, NaAsks
  <1> QED BY <1>1, <1>2, NaBreaks

(* StopEnds, Rejected and ShutdownEnds *)
LEMMA NaStopped ==
    NaInv /\ (NatsServer!StopEnds \/ NatsServer!Rejected \/ NatsServer!ShutdownEnds)
       => NaInv' /\ NaStep
  <1> SUFFICES ASSUME NaInv,
                      NatsServer!StopEnds \/ NatsServer!Rejected \/ NatsServer!ShutdownEnds
               PROVE  NaInv' /\ NaStep
    OBVIOUS
  <1>1. nats.op.write = 0 /\ nats.op.rows = <<>>
    BY NaKnown
       DEF NatsServer!StopEnds, NatsServer!Rejected, NatsServer!ShutdownEnds, NatsServer!At,
           NaAsks
  <1>2. /\ nats' \in NaState /\ nats'.op = NatsServer!NoOp /\ nats'.slot = nats.slot
        /\ nats'.gen = nats.gen /\ nats'.link = nats.link /\ nats'.closed = nats.closed
        /\ nats'.sub \in {nats.sub, NatsServer!NoSub} /\ nats'.events = nats.events
        /\ nats'.running = nats.running /\ nats'.err = nats.err
        /\ nats'.stored = nats.stored /\ nats'.report = nats.report
    <2>1. CASE NatsServer!StopEnds
      BY <2>1, NaKnown, NaNothing DEF NatsServer!StopEnds, NatsServer!Stopped, NaState
    <2>2. CASE NatsServer!Rejected
      BY <2>2, NaKnown, NaNothing DEF NatsServer!Rejected, NatsServer!Told, NaState, NaStatus
    <2>3. CASE NatsServer!ShutdownEnds
      BY <2>3, NaKnown, NaNothing DEF NatsServer!ShutdownEnds, NatsServer!Told, NaState, NaStatus
    <2> QED BY <2>1, <2>2, <2>3
  <1>3. /\ NaAsks(nats'.op, nats'.stored, nats'.report) /\ NaStep
        /\ Honest(NaEffect(nats'.stored), nats'.report)
    BY <1>1, <1>2, NaReports
  <1> QED BY <1>1, <1>2, <1>3, NaStays DEF NaInv

(* What a failure makes of a state whose statements are as they were.      *)
LEMMA NaFailure ==
    ASSUME NaInv, NEW state \in NaState, state.report = nats.report
    PROVE  \E outcome \in {"error", "Unknown"} :
              /\ nats.op.write # 0 /\ outcome = "error" => nats.stored[nats.op.write] = "no"
              /\ NatsServer!Failure(state) =
                    [state EXCEPT !.report = IF nats.op.write = 0 THEN nats.report
                                 ELSE [nats.report EXCEPT ![nats.op.write] = outcome]]
  <1> DEFINE outcome == IF nats.op.write # 0 /\ nats.stored[nats.op.write] = "no" THEN "error" ELSE "Unknown"
  <1>1. outcome \in {"error", "Unknown"}
    OBVIOUS
  <1>2. nats.op.write # 0 /\ outcome = "error" => nats.stored[nats.op.write] = "no"
    OBVIOUS
  <1>3. nats.op.kind = "publish" <=> nats.op.write # 0
    BY NaKnown DEF NaAsks
  <1>4. CASE nats.op.write = 0
    <2>1. state = [state EXCEPT !.report = nats.report]
      BY DEF NaState
    <2>2. NatsServer!Failure(state) = state
      BY <1>3, <1>4 DEF NatsServer!Failure
    <2> QED BY <1>1, <1>2, <1>4, <2>1, <2>2
  <1>5. CASE nats.op.write # 0
    <2>1. NatsServer!Failure(state) = [state EXCEPT !.report[nats.op.write] = outcome]
      BY <1>3, <1>5 DEF NatsServer!Failure
    <2> HIDE DEF outcome
    <2>2. NatsServer!Failure(state) =
             [state EXCEPT !.report = [nats.report EXCEPT ![nats.op.write] = outcome]]
      BY <2>1
    <2> QED BY <1>1, <1>2, <1>5, <2>2
  <1> QED BY <1>4, <1>5

(* ConnectFails and AskFails *)
LEMMA NaNotConnected ==
    NaInv /\ (NatsServer!ConnectFails \/ NatsServer!AskFails) => NaInv' /\ NaStep
  <1> SUFFICES ASSUME NaInv, NatsServer!ConnectFails \/ NatsServer!AskFails PROVE NaInv' /\ NaStep
    OBVIOUS
  <1>1. nats.op.rows = <<>> /\ nats.op.at \in {"lease", "connect"}
    BY NaKnown DEF NatsServer!ConnectFails, NatsServer!AskFails, NatsServer!At, NaAsks
  <1>2. PICK state \in NaState :
           /\ nats' = NatsServer!Failure(state) /\ state.op = NatsServer!NoOp
           /\ state.slot = nats.slot /\ state.closed = nats.closed
           /\ nats.slot # 0 => state.gen = nats.gen /\ state.link = nats.link
           /\ state.sub = nats.sub /\ state.events = nats.events
           /\ state.running = nats.running /\ state.err = nats.err
           /\ state.stored = nats.stored /\ state.report = nats.report
    <2>1. CASE NatsServer!AskFails
      <3> DEFINE state == [nats EXCEPT !.op = NatsServer!NoOp]
      <3>1. nats' = NatsServer!Failure(state)
        BY <2>1 DEF NatsServer!AskFails
      <3>2. /\ state \in NaState /\ state.op = NatsServer!NoOp
            /\ state.slot = nats.slot /\ state.closed = nats.closed
            /\ state.gen = nats.gen /\ state.link = nats.link
            /\ state.sub = nats.sub /\ state.events = nats.events
            /\ state.running = nats.running /\ state.err = nats.err
            /\ state.stored = nats.stored /\ state.report = nats.report
        BY NaKnown, NaNothing DEF NaState
      <3> HIDE DEF state
      <3> QED BY <3>1, <3>2
    <2>2. CASE NatsServer!ConnectFails
      <3> DEFINE link == [nats.link EXCEPT ![nats.op.conn] = "dropped"]
                 state == [nats EXCEPT !.op = NatsServer!NoOp, !.status = "Disconnected", !.gen = 0,
                                       !.link = link]
      <3>1. link \in [NaConn -> {"unused", "up", "down", "dropped"}]
        BY NaKnown
      <3>2. nats' = NatsServer!Failure([NatsServer!Told("Disconnected") EXCEPT
                                          !.gen = 0, !.link[nats.op.conn] = "dropped"])
        BY <2>2 DEF NatsServer!ConnectFails
      <3>3. [NatsServer!Told("Disconnected") EXCEPT !.gen = 0, !.link[nats.op.conn] = "dropped"]
               = state
        BY NaKnown DEF NatsServer!Told, NaState
      <3>4. nats.slot = 0
        BY <2>2, NaKnown DEF NatsServer!ConnectFails, NatsServer!At, NaSlot
      <3> HIDE DEF link
      <3>5. /\ state \in NaState /\ state.op = NatsServer!NoOp
            /\ state.slot = nats.slot /\ state.closed = nats.closed
            /\ state.sub = nats.sub /\ state.events = nats.events
            /\ state.running = nats.running /\ state.err = nats.err
            /\ state.stored = nats.stored /\ state.report = nats.report
        BY <3>1, NaKnown, NaNothing DEF NaState, NaStatus
      <3> HIDE DEF state
      <3> QED BY <3>2, <3>3, <3>4, <3>5
    <2> QED BY <2>1, <2>2
  <1>3. PICK outcome \in {"error", "Unknown"} :
           /\ nats.op.write # 0 /\ outcome = "error" => nats.stored[nats.op.write] = "no"
           /\ nats' = [state EXCEPT !.report = IF nats.op.write = 0 THEN nats.report
                                 ELSE [nats.report EXCEPT ![nats.op.write] = outcome]]
    BY <1>2, NaFailure
  <1> DEFINE report == IF nats.op.write = 0 THEN nats.report
                       ELSE [nats.report EXCEPT ![nats.op.write] = outcome]
  <1>4. report \in [NatsServer!Write -> {"none", "error", "Applied", "Unknown"}]
    BY NaKnown
  <1>5. nats' = [state EXCEPT !.report = report]
    BY <1>3
  <1> HIDE DEF report
  <1>6. /\ nats' \in NaState /\ nats'.op = NatsServer!NoOp /\ nats'.report = report
        /\ nats'.slot = nats.slot /\ nats'.closed = nats.closed
        /\ nats.slot # 0 => nats'.gen = nats.gen /\ nats'.link = nats.link
        /\ nats'.sub = nats.sub /\ nats'.events = nats.events
        /\ nats'.running = nats.running /\ nats'.err = nats.err
        /\ nats'.stored = nats.stored
    BY <1>2, <1>4, <1>5, ZenonT(60) DEF NaState
  <1>7. /\ NaAsks(nats'.op, nats'.stored, nats'.report) /\ NaStep
        /\ Honest(NaEffect(nats'.stored), nats'.report)
    BY <1>3, <1>6, NaReports DEF report
  <1> QED BY <1>1, <1>6, <1>7, NaStays DEF NaInv

(* Connect *)
LEMMA NaConnects == NaInv /\ NatsServer!Connect => NaInv' /\ NaStep
  <1> SUFFICES ASSUME NaInv, NatsServer!Connect PROVE NaInv' /\ NaStep
    OBVIOUS
  <1>1. PICK c \in NaConn :
           nats' = [NatsServer!Dropped(nats) EXCEPT
                        !.status = "Connecting", !.gen = c, !.err = FALSE,
                        !.op = [nats.op EXCEPT !.at = "connect", !.conn = c]]
    BY DEF NatsServer!Connect, NaConn
  <1> DEFINE op == [nats.op EXCEPT !.at = "connect", !.conn = c]
             gone == NatsServer!Dropped(nats)
  <1>2. nats.op.at = "lease"
    BY DEF NatsServer!Connect, NatsServer!At
  <1>3. /\ op \in NaOp /\ op.at = "connect" /\ op.conn = c /\ op.kind = nats.op.kind
        /\ op.write = nats.op.write /\ op.rows = nats.op.rows
    BY NaKnown DEF NaOp
  <1>4. /\ gone \in NaState /\ gone.slot = 0 /\ gone.sub = NatsServer!NoSub
        /\ \A d \in NaConn : Len(gone.events[d]) <= MaxEvents
        /\ gone.closed = nats.closed /\ gone.ids = nats.ids
        /\ gone.stored = nats.stored /\ gone.report = nats.report
    BY NaKnown, NaDropped
  <1>5. nats' = [gone EXCEPT !.status = "Connecting", !.gen = c, !.err = FALSE, !.op = op]
    BY <1>1
  <1> HIDE DEF op, gone
  <1>6. /\ nats' \in NaState /\ nats'.op = op /\ nats'.gen = c
        /\ nats'.slot = gone.slot /\ nats'.sub = gone.sub /\ nats'.events = gone.events
        /\ nats'.closed = gone.closed /\ nats'.ids = gone.ids
        /\ nats'.stored = gone.stored /\ nats'.report = gone.report
    BY <1>3, <1>4, <1>5, ZenonT(60) DEF NaState, NaStatus
  <1>7. NaAsks(op, nats.stored, nats.report) /\ op.rows = <<>>
    BY <1>2, <1>3, NaKnown DEF NaAsks
  <1>8. /\ op.kind = "open" => nats.ids < MaxFollow
        /\ nats.closed => op.kind \in {"none", "shutdown"}
    BY <1>2, <1>3, NaKnown DEF NaRoom, NaSlot
  <1>9. NaStep
    BY <1>4, <1>6 DEF NaStep, StatementStep
  <1>10. /\ NaSlot(nats'.slot, nats'.gen, nats'.link, nats'.closed, nats'.op, nats'.sub)
        /\ NaRoom(nats'.op, nats'.ids, nats'.sub, nats'.events)
        /\ NaWhole(nats'.op.rows, nats'.sub)
        /\ NaWarned(nats'.slot, nats'.link, nats'.err, nats'.running, nats'.events, nats'.sub)
    BY <1>3, <1>4, <1>6, <1>7, <1>8, NaGone, NaNumbers
  <1> QED BY <1>4, <1>6, <1>7, <1>9, <1>10, NaKnown DEF NaInv

(* Connected *)
LEMMA NaIsConnected == NaInv /\ NatsServer!Connected => NaInv' /\ NaStep
  <1> SUFFICES ASSUME NaInv, NatsServer!Connected PROVE NaInv' /\ NaStep
    OBVIOUS
  <1> DEFINE c == nats.op.conn
             op == [nats.op EXCEPT !.at = NatsServer!Ready]
             link == [nats.link EXCEPT ![c] = "up"]
             events == [nats.events EXCEPT ![c] = <<"connected">>]
  <1>1. nats.op.at = "connect"
    BY DEF NatsServer!Connected, NatsServer!At
  <1>2. /\ nats.slot = 0 /\ nats.gen = c /\ c \in NaConn /\ ~nats.sub.lost /\ ~nats.closed
        /\ nats.op.kind \notin {"none", "shutdown", "stop"}
    BY <1>1, NaKnown DEF NaSlot, NaOp, NaAsks
  <1>3. nats' = [nats EXCEPT !.slot = c, !.link = link, !.status = "Connected",
                             !.events = events, !.op = op]
    BY NaKnown DEF NatsServer!Connected, NaState
  <1>4. /\ NatsServer!Ready \in {"send", "work"}
        /\ NatsServer!Ready = "send" <=> nats.op.kind = "publish"
    BY DEF NatsServer!Ready
  <1>5. /\ op \in NaOp /\ op.kind = nats.op.kind /\ op.write = nats.op.write
        /\ op.rows = nats.op.rows /\ op.at = NatsServer!Ready
    BY <1>4, NaKnown DEF NaOp
  <1>6. link \in [NaConn -> {"unused", "up", "down", "dropped"}] /\ link[c] = "up"
    BY <1>2, NaKnown
  <1>7. /\ events \in [NaConn -> Seq(NatsServer!Event)]
        /\ \A d \in NaConn : Len(events[d]) <= MaxEvents
    <2> DEFINE one == <<"connected">>
    <2>1. one \in Seq(NatsServer!Event) /\ Len(one) = 1
      BY DEF NatsServer!Event
    <2>2. \A d \in NaConn : Len(nats.events[d]) <= MaxEvents
      BY NaKnown DEF NaRoom
    <2>3. 1 <= MaxEvents
      BY NaNumbers
    <2> HIDE DEF one
    <2>4. events = [nats.events EXCEPT ![c] = one]
      BY DEF one
    <2> HIDE DEF events
    <2>5. events \in [NaConn -> Seq(NatsServer!Event)]
      BY <2>1, <2>4, NaKnown
    <2>6. ASSUME NEW d \in NaConn PROVE Len(events[d]) <= MaxEvents
      <3>1. CASE d = c
        BY <1>2, <2>1, <2>3, <2>4, <3>1, NaKnown
      <3>2. CASE d # c
        BY <2>2, <2>4, <3>2, NaKnown
      <3> QED BY <3>1, <3>2
    <2> QED BY <2>5, <2>6
  <1> HIDE DEF op, link, events
  <1>8. /\ nats' \in NaState /\ nats'.op = op /\ nats'.slot = c /\ nats'.gen = nats.gen
        /\ nats'.link = link /\ nats'.closed = nats.closed /\ nats'.sub = nats.sub
        /\ nats'.events = events /\ nats'.ids = nats.ids
        /\ nats'.stored = nats.stored /\ nats'.report = nats.report
    BY <1>2, <1>3, <1>5, <1>6, <1>7, NaKnown, ZenonT(60) DEF NaState, NaStatus
  <1>9. NaAsks(op, nats.stored, nats.report)
    BY <1>1, <1>4, <1>5, NaKnown DEF NaAsks
  <1>10. NaSlot(c, nats.gen, link, nats.closed, op, nats.sub)
    BY <1>2, <1>4, <1>5, <1>6, NaNumbers DEF NaSlot
  <1>11. NaRoom(op, nats.ids, nats.sub, events)
    BY <1>1, <1>5, <1>7, NaKnown DEF NaRoom
  <1>12. NaWhole(op.rows, nats.sub)
    BY <1>5, NaKnown
  <1>13. NaWarned(c, link, nats'.err, nats'.running, events, nats.sub)
    BY <1>2, <1>6 DEF NaWarned
  <1>14. NaStep
    BY <1>8 DEF NaStep, StatementStep
  <1> QED BY <1>8, <1>9, <1>10, <1>11, <1>12, <1>13, <1>14, NaKnown DEF NaInv

(* A step that leaves what became of the statements, and what is told.     *)
LEMMA NaQuiet ==
    ASSUME NaInv, nats'.stored = nats.stored, nats'.report = nats.report
    PROVE  NaStep /\ Honest(NaEffect(nats'.stored), nats'.report)
  BY NaKnown DEF NaStep, StatementStep

(* Send *)
LEMMA NaSends == NaInv /\ NatsServer!Send => NaInv' /\ NaStep
  <1> SUFFICES ASSUME NaInv, NatsServer!Send PROVE NaInv' /\ NaStep
    OBVIOUS
  <1> DEFINE w == nats.op.write
             op == [nats.op EXCEPT !.at = "ack"]
             stored == [nats.stored EXCEPT ![w] = "running"]
  <1>1. nats.op.at = "send" /\ nats' = [nats EXCEPT !.op = op, !.stored = stored]
    BY NaKnown DEF NatsServer!Send, NatsServer!At, NaState
  <1>2. /\ w \in NatsServer!Write /\ nats.report[w] = "none" /\ nats.stored[w] = "no"
        /\ nats.op.kind = "publish" /\ nats.op.rows = <<>>
    BY <1>1, NaKnown DEF NaAsks, NaOp
  <1>3. /\ op \in NaOp /\ op.at = "ack" /\ op.kind = nats.op.kind /\ op.write = w
        /\ op.rows = nats.op.rows
    BY NaKnown DEF NaOp
  <1>4. stored \in [NatsServer!Write -> NaStored]
    BY NaKnown DEF NaStored
  <1> HIDE DEF op
  <1>5. /\ nats' \in NaState /\ nats'.op = op /\ nats'.slot = nats.slot /\ nats'.gen = nats.gen
        /\ nats'.link = nats.link /\ nats'.closed = nats.closed /\ nats'.sub = nats.sub
        /\ nats'.events = nats.events /\ nats'.running = nats.running /\ nats'.err = nats.err
        /\ nats'.ids = nats.ids /\ nats'.stored = stored /\ nats'.report = nats.report
    <2> HIDE DEF stored
    <2> QED BY <1>1, <1>3, <1>4, NaKnown DEF NaState
  <1>6. NaAsks(op, stored, nats.report)
    BY <1>2, <1>3, NaKnown DEF NaAsks
  <1>7. NaStep
    <2>1. NaEffect(stored) = [NaEffect(nats.stored) EXCEPT ![w] = "running"]
      BY <1>2, NaKnown DEF NaEffect
    <2>2. NaEffect(nats.stored)[w] = "no"
      BY <1>2 DEF NaEffect
    <2>3. w \in DOMAIN nats.report
      BY <1>2, NaKnown
    <2> HIDE DEF stored
    <2>4. Sends(NaEffect(nats.stored), nats.report, NaEffect(nats'.stored), nats'.report)
      BY <1>2, <1>5, <2>1, <2>2, <2>3 DEF Sends
    <2> QED BY <2>4 DEF NaStep, StatementStep
  <1>8. Honest(NaEffect(nats'.stored), nats'.report)
    <2>1. /\ NaEffect(nats.stored) \in [NatsServer!Write -> Fates]
          /\ nats.report \in [NatsServer!Write -> Told]
          /\ Honest(NaEffect(nats.stored), nats.report)
      BY NaKnown
    <2> QED BY <1>7, <2>1, HonestKept DEF NaStep
  <1>9. NaSlot(nats.slot, nats.gen, nats.link, nats.closed, op, nats.sub)
    BY <1>3, NaKnown DEF NaSlot
  <1>10. NaRoom(op, nats.ids, nats.sub, nats.events)
    BY <1>3, NaKnown DEF NaRoom
  <1> QED BY <1>3, <1>5, <1>6, <1>7, <1>8, <1>9, <1>10, NaKnown DEF NaInv

(* Acknowledged and PublishFails *)
LEMMA NaPublished ==
    NaInv /\ (NatsServer!Acknowledged \/ NatsServer!PublishFails) => NaInv' /\ NaStep
  <1> SUFFICES ASSUME NaInv, NatsServer!Acknowledged \/ NatsServer!PublishFails
               PROVE  NaInv' /\ NaStep
    OBVIOUS
  <1>1. /\ nats.op.rows = <<>> /\ nats.op.write # 0 /\ nats.op.write \in NatsServer!Write
        /\ ~(nats.op.kind \in {"none", "shutdown"})
    BY NaKnown DEF NatsServer!Acknowledged, NatsServer!PublishFails, NatsServer!At, NaAsks, NaOp
  <1>2. PICK outcome \in {"error", "Applied", "Unknown"} :
           /\ outcome = "error" => nats.stored[nats.op.write] = "no"
           /\ outcome = "Applied" => nats.stored[nats.op.write] = "stored"
           /\ nats' = NatsServer!Published(
                 [nats EXCEPT !.report = [nats.report EXCEPT ![nats.op.write] = outcome]])
    <2>1. CASE NatsServer!Acknowledged
      <3>1. /\ nats.stored[nats.op.write] = "stored"
            /\ nats' = NatsServer!Published([nats EXCEPT !.report[nats.op.write] = "Applied"])
        BY <2>1 DEF NatsServer!Acknowledged
      <3>2. [nats EXCEPT !.report[nats.op.write] = "Applied"]
              = [nats EXCEPT !.report = [nats.report EXCEPT ![nats.op.write] = "Applied"]]
        OBVIOUS
      <3> QED BY <3>1, <3>2
    <2>2. CASE NatsServer!PublishFails
      <3>1. nats' = NatsServer!Published(NatsServer!Failure(nats))
        BY <2>2 DEF NatsServer!PublishFails
      <3>2. \E outcome \in {"error", "Unknown"} :
              /\ outcome = "error" => nats.stored[nats.op.write] = "no"
              /\ NatsServer!Failure(nats) =
                    [nats EXCEPT !.report = [nats.report EXCEPT ![nats.op.write] = outcome]]
        BY <1>1, NaKnown, NaFailure
      <3> QED BY <3>1, <3>2
    <2> QED BY <2>1, <2>2
  <1> DEFINE report == [nats.report EXCEPT ![nats.op.write] = outcome]
             state == [nats EXCEPT !.report = report]
  <1>3. report \in [NatsServer!Write -> {"none", "error", "Applied", "Unknown"}]
    BY NaKnown
  <1>4. nats' = NatsServer!Published(state)
    BY <1>2
  <1> HIDE DEF report
  <1>5. /\ state \in NaState /\ state.op = nats.op /\ state.report = report
        /\ state.slot = nats.slot /\ state.gen = nats.gen /\ state.link = nats.link
        /\ state.closed = nats.closed /\ state.sub = nats.sub /\ state.events = nats.events
        /\ state.running = nats.running /\ state.err = nats.err /\ state.stored = nats.stored
    BY <1>3, NaKnown DEF NaState
  <1> HIDE DEF state
  <1>6. CASE NatsServer!Up
    <2>1. nats' = [state EXCEPT !.op = NatsServer!NoOp, !.status = "Connected"]
      BY <1>4, <1>6 DEF NatsServer!Published
    <2>2. /\ nats' \in NaState /\ nats'.op = NatsServer!NoOp /\ nats'.report = report
          /\ nats'.slot = nats.slot /\ nats'.gen = nats.gen /\ nats'.link = nats.link
          /\ nats'.closed = nats.closed /\ nats'.sub = nats.sub /\ nats'.events = nats.events
          /\ nats'.running = nats.running /\ nats'.err = nats.err /\ nats'.stored = nats.stored
      BY <1>5, <2>1, NaNothing DEF NaState, NaStatus
    <2>3. /\ NaAsks(nats'.op, nats'.stored, nats'.report) /\ NaStep
          /\ Honest(NaEffect(nats'.stored), nats'.report)
      BY <1>1, <1>2, <2>2, NaReports DEF report
    <2> QED BY <1>1, <2>2, <2>3, NaStays DEF NaInv
  <1>7. CASE ~NatsServer!Up
    <2> DEFINE gone == NatsServer!Dropped(state)
    <2>1. nats' = [gone EXCEPT !.op = NatsServer!NoOp]
      BY <1>4, <1>7 DEF NatsServer!Published
    <2>2. /\ gone \in NaState /\ gone.slot = 0 /\ gone.sub = NatsServer!NoSub
          /\ \A d \in NaConn : Len(gone.events[d]) <= MaxEvents
          /\ gone.closed = nats.closed
          /\ gone.stored = nats.stored /\ gone.report = report
      BY <1>5, NaDropped
    <2> HIDE DEF gone
    <2>3. /\ nats' \in NaState /\ nats'.op = NatsServer!NoOp /\ nats'.report = report
          /\ nats'.slot = gone.slot /\ nats'.sub = gone.sub /\ nats'.events = gone.events
          /\ nats'.closed = gone.closed /\ nats'.stored = gone.stored
      BY <2>1, <2>2, NaNothing DEF NaState
    <2>4. /\ NaAsks(nats'.op, nats'.stored, nats'.report) /\ NaStep
          /\ Honest(NaEffect(nats'.stored), nats'.report)
      BY <1>1, <1>2, <2>2, <2>3, NaReports DEF report
    <2>5. /\ NaSlot(nats'.slot, nats'.gen, nats'.link, nats'.closed, nats'.op, nats'.sub)
          /\ NaRoom(nats'.op, nats'.ids, nats'.sub, nats'.events)
          /\ NaWhole(nats'.op.rows, nats'.sub)
          /\ NaWarned(nats'.slot, nats'.link, nats'.err, nats'.running, nats'.events, nats'.sub)
      BY <2>2, <2>3, NaGone, NaNothing
    <2> QED BY <2>3, <2>4, <2>5 DEF NaInv
  <1> QED BY <1>6, <1>7

(* Store *)
LEMMA NaStores == NaInv /\ NatsServer!Store => NaInv' /\ NaStep
  <1> SUFFICES ASSUME NaInv, NatsServer!Store PROVE NaInv' /\ NaStep
    OBVIOUS
  <1>1. PICK w \in NatsServer!Write, result \in {"stored", "refused"} :
           nats.stored[w] = "running" /\ nats' = [nats EXCEPT !.stored[w] = result]
    BY DEF NatsServer!Store
  <1> DEFINE stored == [nats.stored EXCEPT ![w] = result]
             made == IF result = "stored" THEN "done" ELSE "refused"
  <1>2. stored \in [NatsServer!Write -> NaStored]
    BY NaKnown DEF NaStored
  <1>3. nats' = [nats EXCEPT !.stored = stored]
    BY <1>1
  <1>4. /\ nats' \in NaState /\ nats'.op = nats.op /\ nats'.slot = nats.slot
        /\ nats'.gen = nats.gen /\ nats'.link = nats.link /\ nats'.closed = nats.closed
        /\ nats'.sub = nats.sub /\ nats'.events = nats.events /\ nats'.running = nats.running
        /\ nats'.err = nats.err /\ nats'.ids = nats.ids /\ nats'.stored = stored
        /\ nats'.report = nats.report
    <2> HIDE DEF stored
    <2> QED BY <1>2, <1>3, NaKnown DEF NaState
  <1>5. NaAsks(nats.op, stored, nats.report)
    BY <1>1, NaKnown DEF NaAsks
  <1>6. NaEffect(stored) = [NaEffect(nats.stored) EXCEPT ![w] = made]
    BY NaKnown DEF NaEffect
  <1>7. NaEffect(nats.stored)[w] = "running" /\ w \in DOMAIN nats.report
    BY <1>1, NaKnown DEF NaEffect
  <1>8. nats.report[w] # "error"
    BY <1>7, NaKnown DEF Honest
  <1>9. made \in {"running", "done", "refused"}
    OBVIOUS
  <1> HIDE DEF stored, made
  <1>10. Decides(NaEffect(nats.stored), nats.report, NaEffect(nats'.stored), nats'.report)
    BY <1>4, <1>6, <1>7, <1>8, <1>9 DEF Decides
  <1>11. NaStep
    BY <1>10 DEF NaStep, StatementStep
  <1>12. Honest(NaEffect(nats'.stored), nats'.report)
    <2>1. /\ NaEffect(nats.stored) \in [NatsServer!Write -> Fates]
          /\ nats.report \in [NatsServer!Write -> Told]
          /\ Honest(NaEffect(nats.stored), nats.report)
      BY NaKnown
    <2> QED BY <1>11, <2>1, HonestKept DEF NaStep
  <1> QED BY <1>4, <1>5, <1>11, <1>12, NaKnown DEF NaInv

(* Shutdown *)
LEMMA NaShutsDown == NaInv /\ NatsServer!Shutdown => NaInv' /\ NaStep
  <1> SUFFICES ASSUME NaInv, NatsServer!Shutdown PROVE NaInv' /\ NaStep
    OBVIOUS
  <1> DEFINE op == [NatsServer!NoOp EXCEPT !.kind = "shutdown", !.at = "drain",
                                           !.conn = nats.slot]
  <1>1. /\ op \in NaOp /\ op.kind = "shutdown" /\ op.at = "drain" /\ op.write = 0
        /\ op.rows = <<>>
    BY NaNothing, NaKnown DEF NaOp
  <1>2. /\ nats.op.kind = "none"
        /\ nats' = [nats EXCEPT !.closed = TRUE, !.status = "Closing", !.slot = 0,
                                !.sub = NatsServer!NoSub, !.op = op]
    BY DEF NatsServer!Shutdown, NatsServer!Idle
  <1> HIDE DEF op
  <1>3. /\ nats' \in NaState /\ nats'.op = op /\ nats'.slot = 0
        /\ nats'.sub = NatsServer!NoSub /\ nats'.events = nats.events
        /\ nats'.stored = nats.stored /\ nats'.report = nats.report
    BY <1>1, <1>2, NaKnown, NaNothing DEF NaState, NaStatus
  <1>4. \A c \in NaConn : Len(nats'.events[c]) <= MaxEvents
    BY <1>3, NaKnown DEF NaRoom
  <1>5. NaAsks(op, nats.stored, nats.report)
    BY <1>1, <1>2, NaKnown, NaNumbers DEF NaAsks
  <1>6. /\ NaSlot(nats'.slot, nats'.gen, nats'.link, nats'.closed, nats'.op, nats'.sub)
        /\ NaRoom(nats'.op, nats'.ids, nats'.sub, nats'.events)
        /\ NaWhole(nats'.op.rows, nats'.sub)
        /\ NaWarned(nats'.slot, nats'.link, nats'.err, nats'.running, nats'.events, nats'.sub)
    BY <1>1, <1>3, <1>4, NaGone, SMTT(30)
  <1> QED BY <1>3, <1>5, <1>6, NaQuiet DEF NaInv
-----------------------------------------------------------------------------
(* Sequences                                                               *)

(* A batch, the message that waits and what stays queued are all there was. *)
LEMMA BatchParts ==
    ASSUME NEW S, NEW a \in Seq(S), NEW n \in 1 .. Len(a) - 1
    PROVE  /\ SubSeq(a, 1, n) \in Seq(S) /\ <<a[n + 1]>> \in Seq(S)
           /\ SubSeq(a, n + 2, Len(a)) \in Seq(S)
           /\ Len(SubSeq(a, n + 2, Len(a))) = Len(a) - n - 1
           /\ (SubSeq(a, 1, n) \o <<a[n + 1]>>) \o SubSeq(a, n + 2, Len(a)) = a
  <1>1. /\ Len(a) \in Nat /\ n \in Nat /\ a[n + 1] \in S
        /\ \A i \in 1 .. Len(a) : a[i] \in S
    BY LenProperties, ElementOfSeq
  <1>2. SubSeq(a, 1, n) \in Seq(S)
    BY <1>1, SubSeqProperties
  <1>3. SubSeq(a, n + 2, Len(a)) \in Seq(S) /\ Len(SubSeq(a, n + 2, Len(a))) = Len(a) - n - 1
    <2>1. n + 2 \in Int /\ Len(a) \in Int /\ \A i \in n + 2 .. Len(a) : a[i] \in S
      BY <1>1
    <2>2. /\ SubSeq(a, n + 2, Len(a)) \in Seq(S)
          /\ Len(SubSeq(a, n + 2, Len(a)))
                = IF n + 2 <= Len(a) THEN Len(a) - (n + 2) + 1 ELSE 0
      BY <2>1, SubSeqProperties
    <2> QED BY <1>1, <2>2
  <1>4. SubSeq(a, 1, n + 1) = SubSeq(a, 1, n) \o <<a[n + 1]>>
    <2>1. 1 \in 1 .. Len(a) /\ n + 1 \in 1 .. Len(a) /\ (n + 1) - 1 = n
      BY <1>1
    <2> QED BY <2>1, SubSeqRecursiveSecond
  <1>5. SubSeq(a, 1, n + 1) \o SubSeq(a, (n + 1) + 1, Len(a)) = SubSeq(a, 1, Len(a))
    <2>1. 1 \in 1 .. Len(a) + 1 /\ n + 1 \in 1 - 1 .. Len(a) /\ Len(a) \in n + 1 .. Len(a)
      BY <1>1
    <2> QED BY <2>1, ConcatAdjacentSubSeq
  <1>6. SubSeq(a, 1, Len(a)) = a /\ (n + 1) + 1 = n + 2
    BY <1>1, SubSeqFull
  <1>7. <<a[n + 1]>> \in Seq(S)
    BY <1>1
  <1> QED BY <1>2, <1>3, <1>4, <1>5, <1>6, <1>7

(* A batch of all that is queued leaves nothing.                           *)
LEMMA BatchAll ==
    ASSUME NEW S, NEW a \in Seq(S)
    PROVE  SubSeq(a, 1, Len(a)) = a /\ SubSeq(a, Len(a) + 1, Len(a)) = <<>>
  <1>1. Len(a) \in Nat
    BY LenProperties
  <1>2. SubSeq(a, 1, Len(a)) = a
    BY SubSeqFull
  <1>3. SubSeq(a, Len(a) + 1, Len(a)) = <<>>
    BY <1>1, SubSeqEmpty
  <1> QED BY <1>2, <1>3

(* The numbers up to n, and the next one.                                  *)
LEMMA NextNumber ==
    ASSUME NEW n \in Nat
    PROVE  Append([i \in 1 .. n |-> i], n + 1) = [i \in 1 .. n + 1 |-> i]
  <1> DEFINE s == [i \in 1 .. n |-> i]
             t == [i \in 1 .. n + 1 |-> i]
  <1>1. s \in Seq(Nat) /\ t \in Seq(Nat) /\ Len(s) = n /\ Len(t) = n + 1
    <2>1. s \in [1 .. n -> Nat] /\ t \in [1 .. n + 1 -> Nat]
      OBVIOUS
    <2> HIDE DEF s, t
    <2>2. DOMAIN s = 1 .. n /\ DOMAIN t = 1 .. n + 1
      BY <2>1
    <2>3. s \in Seq(Nat) /\ t \in Seq(Nat)
      BY <2>1, SeqDef
    <2> QED BY <2>2, <2>3, LenProperties
  <1>2. /\ Append(s, n + 1) \in Seq(Nat) /\ Len(Append(s, n + 1)) = n + 1
        /\ \A i \in 1 .. n : Append(s, n + 1)[i] = s[i]
        /\ Append(s, n + 1)[n + 1] = n + 1
    <2> HIDE DEF s
    <2> QED BY <1>1, AppendProperties
  <1>3. \A i \in 1 .. n + 1 : Append(s, n + 1)[i] = t[i]
    BY <1>2
  <1> QED BY <1>1, <1>2, <1>3, SeqEqual

(* One more at the end of the last part.                                   *)
LEMMA AppendLast ==
    ASSUME NEW S, NEW s \in Seq(S), NEW q \in Seq(S), NEW m \in S
    PROVE  s \o Append(q, m) = Append(s \o q, m)
  <1>1. /\ Append(q, m) = q \o <<m>> /\ Append(s \o q, m) = (s \o q) \o <<m>>
    BY ConcatProperties, AppendIsConcat
  <1>2. <<m>> \in Seq(S)
    OBVIOUS
  <1> QED BY <1>1, <1>2, ConcatAssociative

(* Named, so that the provers need not look for the sequences it is of.    *)
Associates(s, t, u) == (s \o t) \o u = s \o (t \o u)

(* Concatenation is associative.                                           *)
LEMMA AllAssociate ==
    ASSUME NEW S, NEW s \in Seq(S), NEW t \in Seq(S), NEW u \in Seq(S)
    PROVE  Associates(s, t, u)
  BY ConcatAssociative DEF Associates

(* What was taken of what waited and was queued, what waits now and what   *)
(* stays; and that it is all still there after what went before.           *)
TakenFrom(taken, waits, stays, waited, queued) ==
    (taken \o waits) \o stays = waited \o queued

StillAfter(before, taken, waits, stays, waited, queued) ==
    ((before \o taken) \o waits) \o stays = ((before \o <<>>) \o waited) \o queued

(* What was taken is still between what went before and what stays.        *)
LEMMA Regrouped ==
    ASSUME NEW S, NEW a \in Seq(S), NEW b \in Seq(S), NEW c \in Seq(S), NEW d \in Seq(S),
           NEW e \in Seq(S), NEW f \in Seq(S), TakenFrom(d, e, f, b, c)
    PROVE  StillAfter(a, d, e, f, b, c)
  <1> DEFINE taken == d \o e
  <1>1. a \o <<>> = a
    BY ConcatEmptySeq
  <1>2. taken \in Seq(S)
    BY ConcatProperties
  <1>3. Associates(a, b, c) /\ Associates(a, d, e)
    BY AllAssociate
  <1>4. taken \o f = b \o c
    BY DEF TakenFrom
  <1>5. (a \o d) \o e = a \o taken
    BY <1>3 DEF Associates
  <1> HIDE DEF taken
  <1>6. Associates(a, taken, f)
    BY <1>2, AllAssociate
  <1> QED BY <1>1, <1>3, <1>4, <1>5, <1>6 DEF StillAfter, Associates

(* An event more for the callback of a client.                             *)
NaMore(events, c, event) == [events EXCEPT ![c] = Append(events[c], event)]

(* An event that the client meets is queued.                               *)
LEMMA NaEvent ==
    ASSUME NaInv, NEW c \in NaConn, NEW event \in NatsServer!Event,
           Len(nats.events[c]) < MaxEvents
    PROVE  LET events == NaMore(nats.events, c, event) IN
           /\ events \in [NaConn -> Seq(NatsServer!Event)]
           /\ \A d \in NaConn : Len(events[d]) <= MaxEvents
           /\ Len(events[c]) \in Nat /\ Len(events[c]) # 0 /\ events[c][Len(events[c])] = event
           /\ \A d \in NaConn : \A i \in 1 .. Len(nats.events[d]) :
                 i \in 1 .. Len(events[d]) /\ events[d][i] = nats.events[d][i]
  <1> DEFINE old == nats.events[c]
             more == Append(old, event)
             events == NaMore(nats.events, c, event)
  <1>1. /\ old \in Seq(NatsServer!Event) /\ Len(old) \in Nat /\ Len(old) < MaxEvents
        /\ \A d \in NaConn : Len(nats.events[d]) <= MaxEvents
    BY NaKnown, LenProperties DEF NaRoom
  <1>2. /\ more \in Seq(NatsServer!Event) /\ Len(more) = Len(old) + 1
        /\ \A i \in 1 .. Len(old) : more[i] = old[i]
        /\ more[Len(old) + 1] = event
    <2> HIDE DEF old
    <2> QED BY <1>1, AppendProperties
  <1>3. events = [nats.events EXCEPT ![c] = more]
    BY DEF NaMore
  <1>4. events[c] = more /\ \A d \in NaConn : d # c => events[d] = nats.events[d]
    BY <1>3, NaKnown
  <1> HIDE DEF more, events
  <1>5. events \in [NaConn -> Seq(NatsServer!Event)]
    BY <1>2, <1>3, NaKnown
  <1>6. ASSUME NEW d \in NaConn PROVE Len(events[d]) <= MaxEvents
    <2>1. CASE d = c
      BY <1>1, <1>2, <1>4, <2>1, NaNumbers
    <2>2. CASE d # c
      BY <1>1, <1>4, <2>2
    <2> QED BY <2>1, <2>2
  <1>7. Len(events[c]) \in Nat /\ Len(events[c]) # 0 /\ events[c][Len(events[c])] = event
    BY <1>1, <1>2, <1>4
  <1>8. ASSUME NEW d \in NaConn, NEW i \in 1 .. Len(nats.events[d])
        PROVE  i \in 1 .. Len(events[d]) /\ events[d][i] = nats.events[d][i]
    <2>1. CASE d = c
      BY <1>1, <1>2, <1>4, <2>1
    <2>2. CASE d # c
      BY <1>4, <2>2
    <2> QED BY <2>1, <2>2
  <1> QED BY <1>5, <1>6, <1>7, <1>8 DEF events

(* What was about to be told still is.                                     *)
LEMMA NaStillWarned ==
    ASSUME NaInv, NEW events, NEW link, NEW sub, NEW err, nats.err => err,
           \A d \in NaConn : \A i \in 1 .. Len(nats.events[d]) :
              i \in 1 .. Len(events[d]) /\ events[d][i] = nats.events[d][i],
           nats.slot # 0 => (link[nats.slot] = "down" => nats.link[nats.slot] = "down"),
           sub.lost => nats.sub.lost
    PROVE  NaWarned(nats.slot, link, err, nats.running, events, sub)
  <1> SUFFICES ASSUME nats.slot # 0, sub.lost \/ link[nats.slot] = "down"
               PROVE  \/ err
                      \/ nats.running[nats.slot] \in NatsServer!Tells
                      \/ \E i \in 1 .. Len(events[nats.slot]) :
                            events[nats.slot][i] \in NatsServer!Tells
    BY DEF NaWarned
  <1>1. nats.slot \in NaConn
    BY NaKnown
  <1>2. \/ nats.err
        \/ nats.running[nats.slot] \in NatsServer!Tells
        \/ \E i \in 1 .. Len(nats.events[nats.slot]) :
              nats.events[nats.slot][i] \in NatsServer!Tells
    BY NaKnown DEF NaWarned
  <1>3. CASE \E i \in 1 .. Len(nats.events[nats.slot]) :
                nats.events[nats.slot][i] \in NatsServer!Tells
    BY <1>1, <1>3
  <1> QED BY <1>2, <1>3

(* A step of a client's own tasks: events, and the state of its link.      *)
LEMMA NaHappens ==
    ASSUME NaInv, NEW events, NEW link, NEW downs \in Nat,
           events \in [NaConn -> Seq(NatsServer!Event)],
           \A d \in NaConn : Len(events[d]) <= MaxEvents,
           link \in [NaConn -> {"unused", "up", "down", "dropped"}],
           nats.slot # 0 => link[nats.slot] \in {"up", "down"},
           NaWarned(nats.slot, link, nats.err, nats.running, events, nats.sub),
           nats' = [nats EXCEPT !.link = link, !.downs = downs, !.events = events]
    PROVE  NaInv' /\ NaStep
  <1>1. /\ nats' \in NaState /\ nats'.op = nats.op /\ nats'.slot = nats.slot
        /\ nats'.gen = nats.gen /\ nats'.link = link /\ nats'.closed = nats.closed
        /\ nats'.sub = nats.sub /\ nats'.events = events /\ nats'.running = nats.running
        /\ nats'.err = nats.err /\ nats'.ids = nats.ids /\ nats'.stored = nats.stored
        /\ nats'.report = nats.report
    BY NaKnown DEF NaState
  <1>2. NaSlot(nats.slot, nats.gen, link, nats.closed, nats.op, nats.sub)
    BY NaKnown DEF NaSlot
  <1>3. NaRoom(nats.op, nats.ids, nats.sub, events)
    BY NaKnown DEF NaRoom
  <1> QED BY <1>1, <1>2, <1>3, NaQuiet, NaKnown DEF NaInv

(* LoseServer, Reconnect and ServerError *)
LEMMA NaLinks ==
    ASSUME NaInv, NEW c \in NaConn,
           NatsServer!LoseServer(c) \/ NatsServer!Reconnect(c) \/ NatsServer!ServerError(c)
    PROVE  NaInv' /\ NaStep
  <1>0. /\ nats.downs \in Nat /\ nats.downs + 1 \in Nat
        /\ Len(nats.events[c]) < MaxEvents
        /\ nats.slot # 0 => nats.link[nats.slot] \in {"up", "down"} /\ nats.slot \in NaConn
    BY NaKnown DEF NatsServer!LoseServer, NatsServer!Reconnect, NatsServer!ServerError,
                   NatsServer!Room, NaState, NaSlot
  <1>1. CASE NatsServer!LoseServer(c)
    <2> DEFINE events == NaMore(nats.events, c, "disconnected")
               link == [nats.link EXCEPT ![c] = "down"]
    <2>1. nats' = [nats EXCEPT !.link = link, !.downs = nats.downs + 1, !.events = events]
      BY <1>1, NaKnown DEF NatsServer!LoseServer, NaState, NaMore
    <2>2. /\ link \in [NaConn -> {"unused", "up", "down", "dropped"}]
          /\ nats.slot # 0 => link[nats.slot] \in {"up", "down"}
          /\ nats.slot # c /\ nats.slot # 0 => link[nats.slot] = nats.link[nats.slot]
      BY <1>0, NaKnown
    <2>3. "disconnected" \in NatsServer!Event /\ "disconnected" \in NatsServer!Tells
      BY DEF NatsServer!Event, NatsServer!Tells
    <2> HIDE DEF events, link
    <2>5. /\ events \in [NaConn -> Seq(NatsServer!Event)]
          /\ \A d \in NaConn : Len(events[d]) <= MaxEvents
          /\ Len(events[c]) \in Nat /\ Len(events[c]) # 0
          /\ events[c][Len(events[c])] = "disconnected"
          /\ \A d \in NaConn : \A i \in 1 .. Len(nats.events[d]) :
                i \in 1 .. Len(events[d]) /\ events[d][i] = nats.events[d][i]
      BY <1>0, <2>3, NaEvent DEF events
    <2>6. NaWarned(nats.slot, link, nats.err, nats.running, events, nats.sub)
      <3>1. CASE nats.slot = c
        <4>1. Len(events[c]) \in 1 .. Len(events[c])
          BY <2>5
        <4> QED BY <2>3, <2>5, <3>1, <4>1 DEF NaWarned
      <3>2. CASE nats.slot # c
        BY <2>2, <2>5, <3>2, NaStillWarned
      <3> QED BY <3>1, <3>2
    <2> QED BY <1>0, <2>1, <2>2, <2>5, <2>6, NaHappens
  <1>2. CASE NatsServer!Reconnect(c)
    <2> DEFINE events == NaMore(nats.events, c, "connected")
               link == [nats.link EXCEPT ![c] = "up"]
    <2>1. nats' = [nats EXCEPT !.link = link, !.downs = nats.downs, !.events = events]
      BY <1>2, NaKnown DEF NatsServer!Reconnect, NaState, NaMore
    <2>2. /\ link \in [NaConn -> {"unused", "up", "down", "dropped"}]
          /\ nats.slot # 0 => link[nats.slot] \in {"up", "down"}
          /\ nats.slot # 0 => (link[nats.slot] = "down" => nats.link[nats.slot] = "down")
      BY <1>0, NaKnown
    <2>3. "connected" \in NatsServer!Event
      BY DEF NatsServer!Event
    <2> HIDE DEF events, link
    <2>5. /\ events \in [NaConn -> Seq(NatsServer!Event)]
          /\ \A d \in NaConn : Len(events[d]) <= MaxEvents
          /\ \A d \in NaConn : \A i \in 1 .. Len(nats.events[d]) :
                i \in 1 .. Len(events[d]) /\ events[d][i] = nats.events[d][i]
      BY <1>0, <2>3, NaEvent DEF events
    <2>6. NaWarned(nats.slot, link, nats.err, nats.running, events, nats.sub)
      BY <2>2, <2>5, NaStillWarned
    <2> QED BY <1>0, <2>1, <2>2, <2>5, <2>6, NaHappens
  <1>3. CASE NatsServer!ServerError(c)
    <2> DEFINE events == NaMore(nats.events, c, "server_error")
    <2>1. nats' = [nats EXCEPT !.link = nats.link, !.downs = nats.downs + 1, !.events = events]
      BY <1>3, NaKnown DEF NatsServer!ServerError, NaState, NaMore
    <2>3. "server_error" \in NatsServer!Event
      BY DEF NatsServer!Event
    <2> HIDE DEF events
    <2>5. /\ events \in [NaConn -> Seq(NatsServer!Event)]
          /\ \A d \in NaConn : Len(events[d]) <= MaxEvents
          /\ \A d \in NaConn : \A i \in 1 .. Len(nats.events[d]) :
                i \in 1 .. Len(events[d]) /\ events[d][i] = nats.events[d][i]
      BY <1>0, <2>3, NaEvent DEF events
    <2>6. NaWarned(nats.slot, nats.link, nats.err, nats.running, events, nats.sub)
      BY <2>5, NaStillWarned
    <2> QED BY <1>0, <2>1, <2>5, <2>6, NaHappens, NaKnown
  <1> QED BY <1>1, <1>2, <1>3

(* CallbackActs *)
LEMMA NaCallbackActs ==
    ASSUME NaInv, NEW c \in NaConn, NatsServer!CallbackActs(c)
    PROVE  NaInv' /\ NaStep
  <1> DEFINE running == [nats.running EXCEPT ![c] = "none"]
             status == CASE nats.running[c] = "connected" -> "Connected"
                         [] nats.running[c] = "disconnected" -> "Disconnected"
                         [] OTHER -> nats.status
             err == nats.err \/ nats.running[c] # "connected"
  <1>1. nats' = [nats EXCEPT !.running = running, !.status = status, !.err = err]
    BY NaKnown DEF NatsServer!CallbackActs, NaState
  <1>2. running \in [NaConn -> NatsServer!Event \union {"none"}] /\ status \in NaStatus
    BY NaKnown DEF NaState, NaStatus
  <1>3. err \in BOOLEAN
    BY NaKnown DEF NaState
  <1>4. NaWarned(nats.slot, nats.link, err, running, nats.events, nats.sub)
    <2>1. CASE nats.slot = c /\ nats.running[c] \in NatsServer!Tells
      <3>1. err
        BY <2>1 DEF NatsServer!Tells
      <3> HIDE DEF err
      <3> QED BY <3>1 DEF NaWarned
    <2>2. CASE nats.slot # c \/ nats.running[c] \notin NatsServer!Tells
      <3>1. nats.slot # 0 => nats.slot \in NaConn
        BY NaKnown
      <3>2. nats.slot # 0 /\ nats.running[nats.slot] \in NatsServer!Tells
               => running[nats.slot] \in NatsServer!Tells
        BY <2>2, <3>1, NaKnown
      <3>3. nats.err => err
        OBVIOUS
      <3> HIDE DEF err, running
      <3> QED BY <3>2, <3>3, NaKnown DEF NaWarned
    <2> QED BY <2>1, <2>2
  <1> HIDE DEF running, status, err
  <1>5. /\ nats' \in NaState /\ nats'.op = nats.op /\ nats'.slot = nats.slot
        /\ nats'.gen = nats.gen /\ nats'.link = nats.link /\ nats'.closed = nats.closed
        /\ nats'.sub = nats.sub /\ nats'.events = nats.events /\ nats'.running = running
        /\ nats'.err = err /\ nats'.ids = nats.ids /\ nats'.stored = nats.stored
        /\ nats'.report = nats.report
    BY <1>1, <1>2, <1>3, NaKnown DEF NaState
  <1> QED BY <1>4, <1>5, NaQuiet, NaKnown DEF NaInv

(* Callback: what was the first of the events runs, if the client is used. *)
LEMMA NaCallback ==
    ASSUME NaInv, NEW c \in NaConn, NatsServer!Callback(c)
    PROVE  NaInv' /\ NaStep
  <1> DEFINE old == nats.events[c]
             events == [nats.events EXCEPT ![c] = Tail(old)]
             runs == IF nats.gen = c /\ ~nats.closed THEN Head(old) ELSE "none"
             running == [nats.running EXCEPT ![c] = runs]
  <1>1. /\ nats.running[c] = "none" /\ old # <<>>
        /\ nats' = [nats EXCEPT !.events = events, !.running = running]
    BY NaKnown DEF NatsServer!Callback, NaState
  <1>2. /\ old \in Seq(NatsServer!Event) /\ Len(old) \in Nat /\ Len(old) <= MaxEvents
        /\ Len(old) # 0
    BY <1>1, NaKnown, LenProperties, EmptySeq DEF NaRoom
  <1>3. /\ Tail(old) \in Seq(NatsServer!Event) /\ Len(Tail(old)) = Len(old) - 1
        /\ Head(old) \in NatsServer!Event /\ Head(old) = old[1]
        /\ \A i \in 2 .. Len(old) : Tail(old)[i - 1] = old[i]
    <2> HIDE DEF old
    <2>1. /\ Head(old) \in NatsServer!Event /\ Tail(old) \in Seq(NatsServer!Event)
          /\ Len(Tail(old)) = Len(old) - 1
          /\ \A i \in 1 .. Len(Tail(old)) : Tail(old)[i] = old[i + 1]
          /\ Head(old) = old[1]
      BY <1>1, <1>2, HeadTailProperties
    <2> QED BY <1>2, <2>1
  <1>4. events \in [NaConn -> Seq(NatsServer!Event)] /\ events[c] = Tail(old)
    BY <1>3, NaKnown
  <1>5. running \in [NaConn -> NatsServer!Event \union {"none"}] /\ running[c] = runs
    BY <1>3, NaKnown
  <1>6. ASSUME NEW d \in NaConn PROVE Len(events[d]) <= MaxEvents
    <2>1. CASE d = c
      BY <1>2, <1>3, <1>4, <2>1, NaNumbers
    <2>2. CASE d # c
      BY <2>2, NaKnown DEF NaRoom
    <2> QED BY <2>1, <2>2
  <1>7. NaWarned(nats.slot, nats.link, nats.err, running, events, nats.sub)
    <2>1. CASE nats.slot = c
      <3>1. runs = old[1]
        BY <1>3, <2>1, NaKnown, NaNumbers DEF NaSlot
      <3>2. ASSUME NEW i \in 1 .. Len(old), old[i] \in NatsServer!Tells
            PROVE  \/ running[c] \in NatsServer!Tells
                   \/ \E j \in 1 .. Len(events[c]) : events[c][j] \in NatsServer!Tells
        <4>1. CASE i = 1
          BY <1>5, <3>1, <3>2, <4>1
        <4>2. CASE i # 1
          <5>1. i \in 2 .. Len(old) /\ i - 1 \in 1 .. Len(old) - 1
            BY <1>2, <4>2
          <5> QED BY <1>3, <1>4, <3>2, <5>1
        <4> QED BY <4>1, <4>2
      <3> HIDE DEF events, running
      <3> QED BY <1>1, <2>1, <3>2, NaKnown DEF NaWarned, NatsServer!Tells
    <2>2. CASE nats.slot # c
      <3>1. nats.slot # 0 => /\ nats.slot \in NaConn
                             /\ running[nats.slot] = nats.running[nats.slot]
                             /\ events[nats.slot] = nats.events[nats.slot]
        BY <2>2, NaKnown
      <3> HIDE DEF events, running
      <3> QED BY <3>1, NaKnown DEF NaWarned
    <2> QED BY <2>1, <2>2
  <1> HIDE DEF events, running
  <1>8. /\ nats' \in NaState /\ nats'.op = nats.op /\ nats'.slot = nats.slot
        /\ nats'.gen = nats.gen /\ nats'.link = nats.link /\ nats'.closed = nats.closed
        /\ nats'.sub = nats.sub /\ nats'.events = events /\ nats'.running = running
        /\ nats'.err = nats.err /\ nats'.ids = nats.ids /\ nats'.stored = nats.stored
        /\ nats'.report = nats.report
    BY <1>1, <1>4, <1>5, NaKnown DEF NaState
  <1>9. NaRoom(nats.op, nats.ids, nats.sub, events)
    BY <1>6, NaKnown DEF NaRoom
  <1> QED BY <1>7, <1>8, <1>9, NaQuiet, NaKnown DEF NaInv

(* A step of the operation or of the subscription that sends nothing.      *)
LEMMA NaServes ==
    ASSUME NaInv, NEW op \in NaOp, NEW sub \in NatsServer!Subscription,
           NEW ids \in 0 .. MaxFollow, NEW held \in Nat \X Nat,
           NEW events \in [NaConn -> Seq(NatsServer!Event)],
           nats' = [nats EXCEPT !.op = op, !.sub = sub, !.ids = ids, !.held = held,
                                !.events = events],
           NaAsks(op, nats.stored, nats.report),
           NaSlot(nats.slot, nats.gen, nats.link, nats.closed, op, sub),
           NaRoom(op, ids, sub, events), NaWhole(op.rows, sub),
           NaWarned(nats.slot, nats.link, nats.err, nats.running, events, sub)
    PROVE  NaInv' /\ NaStep
  <1>1. /\ nats' \in NaState /\ nats'.op = op /\ nats'.slot = nats.slot
        /\ nats'.gen = nats.gen /\ nats'.link = nats.link /\ nats'.closed = nats.closed
        /\ nats'.sub = sub /\ nats'.events = events /\ nats'.running = nats.running
        /\ nats'.err = nats.err /\ nats'.ids = ids /\ nats'.stored = nats.stored
        /\ nats'.report = nats.report
    <2>1. nats' \in NaState
      BY NaKnown DEF NaState
    <2>2. /\ nats'.op = op /\ nats'.slot = nats.slot
          /\ nats'.gen = nats.gen /\ nats'.link = nats.link /\ nats'.closed = nats.closed
          /\ nats'.sub = sub /\ nats'.events = events /\ nats'.running = nats.running
          /\ nats'.err = nats.err /\ nats'.ids = ids /\ nats'.stored = nats.stored
          /\ nats'.report = nats.report
      BY NaKnown DEF NaState
    <2> QED BY <2>1, <2>2
  <1> QED BY <1>1, NaQuiet DEF NaInv

(* What a batch takes, the message that waits and what stays are what the  *)
(* subscription held.                                                      *)
LEMMA NaBatch ==
    ASSUME NaInv, nats.op.at = "work", nats.op.kind = "next", nats.sub.id # 0,
           NEW rows \in Seq(NatsServer!Message), NEW waits \in Seq(NatsServer!Message),
           NEW queue \in Seq(NatsServer!Message), Len(waits) <= 1, Len(queue) <= QueueLimit,
           TakenFrom(rows, waits, queue, nats.sub.pending, nats.sub.queue),
           nats' = [nats EXCEPT !.op.at = "decode", !.op.rows = rows, !.sub.pending = waits,
                                !.sub.queue = queue, !.sub.batch = nats.sub.batch + 1]
    PROVE  NaInv' /\ NaStep
  <1> DEFINE op == [nats.op EXCEPT !.at = "decode", !.rows = rows]
             sub == [nats.sub EXCEPT !.pending = waits, !.queue = queue,
                                     !.batch = nats.sub.batch + 1]
             shown == nats.sub.shown
             pending == nats.sub.pending
             queued == nats.sub.queue
  <1>1. /\ nats.op.rows = <<>> /\ nats.slot # 0 /\ nats.sub.batch < MaxBatch
        /\ nats.op.write = 0 /\ ~nats.closed
    BY NaKnown DEF NaAsks, NaSlot, NaRoom
  <1>2. /\ op \in NaOp /\ op.at = "decode" /\ op.kind = "next" /\ op.rows = rows
        /\ op.write = nats.op.write
    BY NaKnown DEF NaOp
  <1>3. /\ nats.sub.batch + 1 \in 0 .. MaxBatch
        /\ shown \in Seq(NatsServer!Message) /\ pending \in Seq(NatsServer!Message)
        /\ queued \in Seq(NatsServer!Message)
    <2>1. nats.sub \in NatsServer!Subscription
      BY NaKnown
    <2>2. /\ nats.sub.batch \in 0 .. MaxBatch
          /\ shown \in Seq(NatsServer!Message) /\ pending \in Seq(NatsServer!Message)
          /\ queued \in Seq(NatsServer!Message)
      BY <2>1 DEF NatsServer!Subscription
    <2>3. nats.sub.batch + 1 \in 0 .. MaxBatch
      <3> DEFINE batch == nats.sub.batch
      <3>1. batch \in 0 .. MaxBatch /\ batch < MaxBatch /\ MaxBatch \in Nat
        BY <1>1, <2>2, NaNumbers
      <3> HIDE DEF batch
      <3>2. batch + 1 \in 0 .. MaxBatch
        BY <3>1
      <3> QED BY <3>2 DEF batch
    <2> QED BY <2>2, <2>3
  <1>4. /\ sub \in NatsServer!Subscription /\ sub.id = nats.sub.id /\ sub.lost = nats.sub.lost
        /\ sub.pending = waits /\ sub.queue = queue /\ sub.shown = shown
        /\ sub.arrived = nats.sub.arrived
    BY <1>3, NaKnown DEF NatsServer!Subscription
  <1>5. nats' = [nats EXCEPT !.op = op, !.sub = sub, !.ids = nats.ids, !.held = nats.held,
                             !.events = nats.events]
    BY NaKnown DEF NaState
  <1>6. NaWhole(rows, sub)
    <2> SUFFICES ASSUME ~nats.sub.lost
                 PROVE  ((shown \o rows) \o waits) \o queue = [i \in 1 .. nats.sub.arrived |-> i]
      BY <1>4 DEF NaWhole
    <2>1. ((shown \o <<>>) \o pending) \o queued = [i \in 1 .. nats.sub.arrived |-> i]
      BY <1>1, NaKnown DEF NaWhole
    <2>2. TakenFrom(rows, waits, queue, pending, queued)
      OBVIOUS
    <2> HIDE DEF shown, pending, queued
    <2>a. /\ shown \in Seq(NatsServer!Message) /\ pending \in Seq(NatsServer!Message)
          /\ queued \in Seq(NatsServer!Message) /\ rows \in Seq(NatsServer!Message)
          /\ waits \in Seq(NatsServer!Message) /\ queue \in Seq(NatsServer!Message)
      BY <1>3
    <2>3. StillAfter(shown, rows, waits, queue, pending, queued)
      BY <2>a, <2>2, Regrouped
    <2> QED BY <2>1, <2>3 DEF StillAfter
  <1> HIDE DEF op, sub
  <1>7. NaAsks(op, nats.stored, nats.report)
    BY <1>1, <1>2, NaKnown DEF NaAsks
  <1>8. NaSlot(nats.slot, nats.gen, nats.link, nats.closed, op, sub)
    BY <1>1, <1>2, <1>4, NaKnown DEF NaSlot
  <1>9. NaRoom(op, nats.ids, sub, nats.events)
    BY <1>2, <1>4, NaKnown DEF NaRoom
  <1>10. NaWarned(nats.slot, nats.link, nats.err, nats.running, nats.events, sub)
    BY <1>4, NaKnown DEF NaWarned
  <1>11. nats.ids \in 0 .. MaxFollow /\ nats.held \in Nat \X Nat
    BY NaKnown DEF NaState
  <1>12. NaWhole(op.rows, sub) /\ nats.events \in [NaConn -> Seq(NatsServer!Event)]
    BY <1>2, <1>6, NaKnown
  <1> QED BY <1>2, <1>4, <1>5, <1>7, <1>8, <1>9, <1>10, <1>11, <1>12, NaServes

(* Take *)
LEMMA NaTakes == NaInv /\ NatsServer!Take => NaInv' /\ NaStep
  <1> SUFFICES ASSUME NaInv, NatsServer!Take PROVE NaInv' /\ NaStep
    OBVIOUS
  <1> DEFINE pending == nats.sub.pending
             queued == nats.sub.queue
             all == pending \o queued
  <1>1. nats.op.at = "work" /\ nats.op.kind = "next" /\ nats.sub.id # 0
    BY DEF NatsServer!Take, NatsServer!At, NatsServer!Following
  <1>2. /\ pending \in Seq(NatsServer!Message) /\ queued \in Seq(NatsServer!Message)
        /\ Len(pending) <= 1 /\ Len(queued) <= QueueLimit
        /\ Len(pending) \in Nat /\ Len(queued) \in Nat
    BY NaKnown, LenProperties DEF NatsServer!Subscription, NaRoom
  <1>3. /\ all \in Seq(NatsServer!Message) /\ Len(all) = Len(pending) + Len(queued)
        /\ Len(all) \in Nat
    BY <1>2, ConcatProperties, LenProperties
  <1>4. ASSUME nats' = NatsServer!Batch(Len(all), FALSE) PROVE NaInv' /\ NaStep
    <2>1. nats' = [nats EXCEPT !.op.at = "decode", !.op.rows = SubSeq(all, 1, Len(all)),
                               !.sub.pending = <<>>,
                               !.sub.queue = SubSeq(all, Len(all) + 1, Len(all)),
                               !.sub.batch = nats.sub.batch + 1]
      BY <1>4 DEF NatsServer!Batch
    <2>2. SubSeq(all, 1, Len(all)) = all /\ SubSeq(all, Len(all) + 1, Len(all)) = <<>>
      BY <1>3, BatchAll
    <2>3. nats' = [nats EXCEPT !.op.at = "decode", !.op.rows = all, !.sub.pending = <<>>,
                               !.sub.queue = <<>>, !.sub.batch = nats.sub.batch + 1]
      BY <2>1, <2>2
    <2> HIDE DEF all
    <2>4. (all \o <<>>) \o <<>> = all /\ <<>> \in Seq(NatsServer!Message) /\ Len(<<>>) = 0
      BY <1>3, ConcatEmptySeq, EmptySeq
    <2>5. all = nats.sub.pending \o nats.sub.queue
      BY DEF all
    <2>6. Len(<<>>) <= 1 /\ Len(<<>>) <= QueueLimit
      BY <2>4, NaNumbers
    <2>7. TakenFrom(all, <<>>, <<>>, nats.sub.pending, nats.sub.queue)
      BY <2>4, <2>5 DEF TakenFrom
    <2> QED BY <1>1, <1>3, <2>3, <2>4, <2>6, <2>7, NaBatch
  <1>5. ASSUME NEW taken \in 1 .. Len(all) - 1, nats' = NatsServer!Batch(taken, TRUE)
        PROVE  NaInv' /\ NaStep
    <2> DEFINE rows == SubSeq(all, 1, taken)
               waits == <<all[taken + 1]>>
               queue == SubSeq(all, taken + 2, Len(all))
    <2>1. nats' = [nats EXCEPT !.op.at = "decode", !.op.rows = rows, !.sub.pending = waits,
                               !.sub.queue = queue, !.sub.batch = nats.sub.batch + 1]
      BY <1>5, SMTT(30) DEF NatsServer!Batch
    <2>2. /\ rows \in Seq(NatsServer!Message) /\ waits \in Seq(NatsServer!Message)
          /\ queue \in Seq(NatsServer!Message) /\ Len(queue) = Len(all) - taken - 1
          /\ TakenFrom(rows, waits, queue, nats.sub.pending, nats.sub.queue)
      <3>1. all = nats.sub.pending \o nats.sub.queue
        OBVIOUS
      <3> HIDE DEF all
      <3>2. /\ rows \in Seq(NatsServer!Message) /\ waits \in Seq(NatsServer!Message)
            /\ queue \in Seq(NatsServer!Message) /\ Len(queue) = Len(all) - taken - 1
            /\ (rows \o waits) \o queue = all
        BY <1>3, BatchParts
      <3> QED BY <3>1, <3>2 DEF TakenFrom
    <2>3. Len(waits) = 1
      OBVIOUS
    <2>4. Len(queue) <= QueueLimit
      <3> HIDE DEF all, queue, pending, queued
      <3>1. taken \in Nat /\ taken >= 1
        BY <1>3
      <3> QED BY <1>2, <1>3, <2>2, <3>1, NaNumbers
    <2> HIDE DEF rows, waits, queue
    <2>5. Len(waits) <= 1
      BY <2>3
    <2> QED BY <1>1, <2>1, <2>2, <2>4, <2>5, NaBatch
  <1> QED BY <1>4, <1>5 DEF NatsServer!Take

(* Work *)
LEMMA NaWorks == NaInv /\ NatsServer!Work => NaInv' /\ NaStep
  <1> SUFFICES ASSUME NaInv, NatsServer!Work PROVE NaInv' /\ NaStep
    OBVIOUS
  <1> DEFINE op == [nats.op EXCEPT !.at = "decode"]
  <1>1. /\ nats.op.at = "work" /\ nats.op.kind # "next" /\ nats.slot # 0
        /\ nats.op.kind \in {"page", "open", "check"} /\ nats.op.rows = <<>> /\ nats.op.write = 0
    BY NaKnown DEF NatsServer!Work, NatsServer!At, NatsServer!Up, NaAsks, NaSlot, NaOp
  <1>2. /\ op \in NaOp /\ op.at = "decode" /\ op.kind = nats.op.kind /\ op.rows = <<>>
        /\ op.write = 0
    BY <1>1, NaKnown DEF NaOp
  <1>3. PICK sub \in NatsServer!Subscription, ids \in 0 .. MaxFollow :
           /\ nats' = [nats EXCEPT !.op = op, !.sub = sub, !.ids = ids, !.held = nats.held,
                                   !.events = nats.events]
           /\ sub = nats.sub \/ (sub.arrived = 0 /\ sub.shown = <<>> /\ sub.queue = <<>>
                                 /\ sub.pending = <<>> /\ ~sub.lost)
    <2>1. CASE nats.op.kind = "open"
      <3> DEFINE sub == [NatsServer!NoSub EXCEPT !.id = nats.ids + 1, !.batch = 1]
      <3>1. nats.ids < MaxFollow /\ nats.ids \in Nat
        BY <1>1, <2>1, NaKnown, NaNumbers DEF NaRoom, NaState
      <3>2. nats.ids + 1 \in 0 .. MaxFollow /\ 1 \in 0 .. MaxBatch
        BY <3>1, NaNumbers
      <3>3. /\ sub \in NatsServer!Subscription /\ sub.arrived = 0 /\ sub.shown = <<>>
            /\ sub.queue = <<>> /\ sub.pending = <<>> /\ ~sub.lost
        BY <3>2, NaNothing DEF NatsServer!Subscription
      <3>4. nats' = [[NatsServer!Started(nats) EXCEPT !.sub.batch = 1] EXCEPT !.op.at = "decode"]
        BY <2>1 DEF NatsServer!Work
      <3>5. NatsServer!Started(nats) = [nats EXCEPT !.sub = [NatsServer!NoSub EXCEPT !.id = nats.ids + 1],
                                                    !.ids = nats.ids + 1]
        BY NaKnown DEF NatsServer!Started, NaState
      <3>6. [NatsServer!Started(nats) EXCEPT !.sub.batch = 1]
               = [nats EXCEPT !.sub = sub, !.ids = nats.ids + 1]
        BY <3>5, NaKnown DEF NaState
      <3> HIDE DEF sub
      <3>7. nats' = [nats EXCEPT !.op = op, !.sub = sub, !.ids = nats.ids + 1,
                                 !.held = nats.held, !.events = nats.events]
        BY <3>4, <3>6, NaKnown DEF NaState
      <3> QED BY <3>2, <3>3, <3>7
    <2>2. CASE nats.op.kind = "page"
      <3>1. nats' = [[nats EXCEPT !.sub = NatsServer!NoSub] EXCEPT !.op.at = "decode"]
        BY <2>2 DEF NatsServer!Work, NatsServer!Stopped
      <3>2. nats' = [nats EXCEPT !.op = op, !.sub = NatsServer!NoSub, !.ids = nats.ids,
                                 !.held = nats.held, !.events = nats.events]
        BY <3>1, NaKnown DEF NaState
      <3>3. nats.ids \in 0 .. MaxFollow
        BY NaKnown DEF NaState
      <3> HIDE DEF op
      <3> QED BY <3>2, <3>3, NaNothing
    <2>3. CASE nats.op.kind = "check"
      <3>1. nats' = [nats EXCEPT !.op.at = "decode"]
        BY <2>3 DEF NatsServer!Work
      <3>2. nats' = [nats EXCEPT !.op = op, !.sub = nats.sub, !.ids = nats.ids,
                                 !.held = nats.held, !.events = nats.events]
        BY <3>1, NaKnown DEF NaState
      <3>3. nats.ids \in 0 .. MaxFollow
        BY NaKnown DEF NaState
      <3> HIDE DEF op
      <3> QED BY <3>2, <3>3, NaKnown
    <2> QED BY <1>1, <2>1, <2>2, <2>3
  <1> HIDE DEF op
  <1>4. NaAsks(op, nats.stored, nats.report)
    BY <1>1, <1>2, NaKnown DEF NaAsks
  <1>5. NaSlot(nats.slot, nats.gen, nats.link, nats.closed, op, sub)
    BY <1>1, <1>2, NaKnown DEF NaSlot
  <1>6. NaRoom(op, ids, sub, nats.events)
    <2>1. Len(sub.queue) <= QueueLimit /\ Len(sub.pending) <= 1
      BY <1>3, NaKnown, NaNumbers, EmptySeq DEF NaRoom
    <2> QED BY <1>2, <2>1, NaKnown DEF NaRoom
  <1>7. NaWhole(op.rows, sub)
    <2>1. CASE sub = nats.sub
      BY <1>1, <1>2, <2>1, NaKnown
    <2>2. CASE sub # nats.sub
      <3>1. (<<>> \o <<>>) \o <<>> = <<>> /\ <<>> \o <<>> = <<>>
        BY EmptySeq, ConcatEmptySeq
      <3>2. [i \in 1 .. 0 |-> i] = <<>>
        OBVIOUS
      <3>3. /\ sub.shown = <<>> /\ sub.queue = <<>> /\ sub.pending = <<>> /\ sub.arrived = 0
            /\ op.rows = <<>>
        BY <1>2, <1>3, <2>2
      <3> QED BY <3>1, <3>2, <3>3 DEF NaWhole
    <2> QED BY <2>1, <2>2
  <1>8. NaWarned(nats.slot, nats.link, nats.err, nats.running, nats.events, sub)
    BY <1>3, NaKnown DEF NaWarned
  <1>9. nats.held \in Nat \X Nat
    BY NaKnown DEF NaState
  <1> QED BY <1>2, <1>3, <1>4, <1>5, <1>6, <1>7, <1>8, <1>9, NaKnown, NaServes

(* PageEnds *)
LEMMA NaPageEnds == NaInv /\ NatsServer!PageEnds => NaInv' /\ NaStep
  <1> SUFFICES ASSUME NaInv, NatsServer!PageEnds PROVE NaInv' /\ NaStep
    OBVIOUS
  <1> DEFINE op == NatsServer!NoOp
  <1>1. nats.op.at = "decode" /\ nats.op.write = 0
    BY NaKnown DEF NatsServer!PageEnds, NatsServer!At, NaAsks
  <1>2. op \in NaOp /\ op.at = "idle" /\ op.kind = "none" /\ op.rows = <<>> /\ op.write = 0
    BY NaNothing
  <1>3. PICK sub \in NatsServer!Subscription, held \in Nat \X Nat :
           /\ nats' = [nats EXCEPT !.op = op, !.sub = sub, !.ids = nats.ids, !.held = held,
                                   !.events = nats.events]
           /\ sub.id = nats.sub.id /\ sub.lost = nats.sub.lost /\ sub.pending = nats.sub.pending
           /\ sub.queue = nats.sub.queue /\ sub.arrived = nats.sub.arrived
           /\ sub.shown = nats.sub.shown \o nats.op.rows
    <2>0. /\ nats.sub.shown \in Seq(NatsServer!Message) /\ nats.op.rows \in Seq(NatsServer!Message)
          /\ nats.sub.id \in Nat /\ nats.sub.batch \in Nat
      BY NaKnown, NaNumbers DEF NatsServer!Subscription, NaOp
    <2>1. CASE nats.op.kind \in {"open", "next"}
      <3> DEFINE shown == nats.sub.shown \o nats.op.rows
                 sub == [nats.sub EXCEPT !.shown = shown]
                 held == <<nats.sub.id, nats.sub.batch>>
      <3>1. nats' = [nats EXCEPT !.op = op, !.held = held,
                                 !.sub.shown = nats.sub.shown \o nats.op.rows]
        BY <2>1 DEF NatsServer!PageEnds
      <3>2. shown \in Seq(NatsServer!Message) /\ held \in Nat \X Nat
        BY <2>0, ConcatProperties
      <3>3. nats' = [nats EXCEPT !.op = op, !.sub = sub, !.ids = nats.ids, !.held = held,
                                 !.events = nats.events]
        <4> HIDE DEF held, op
        <4> QED BY <3>1, NaKnown DEF NaState
      <3> HIDE DEF shown, held
      <3>4. /\ sub \in NatsServer!Subscription
            /\ sub.id = nats.sub.id /\ sub.lost = nats.sub.lost /\ sub.pending = nats.sub.pending
            /\ sub.queue = nats.sub.queue /\ sub.arrived = nats.sub.arrived
            /\ sub.shown = shown
        BY <3>2, NaKnown DEF NatsServer!Subscription
      <3> HIDE DEF sub, op
      <3> QED BY <3>2, <3>3, <3>4 DEF shown
    <2>2. CASE nats.op.kind \notin {"open", "next"}
      <3>1. nats.op.rows = <<>>
        BY <2>2, NaKnown DEF NaAsks
      <3>2. nats.sub.shown = nats.sub.shown \o nats.op.rows
        BY <2>0, <3>1, ConcatEmptySeq
      <3> HIDE DEF op
      <3>3. nats' = [nats EXCEPT !.op = op, !.sub = nats.sub, !.ids = nats.ids,
                                 !.held = nats.held, !.events = nats.events]
        BY <2>2, NaKnown DEF NatsServer!PageEnds, NaState, op
      <3>4. nats.held \in Nat \X Nat
        BY NaKnown DEF NaState
      <3> QED BY <3>2, <3>3, <3>4, NaKnown
    <2> QED BY <2>1, <2>2
  <1> HIDE DEF op
  <1>4. NaAsks(op, nats.stored, nats.report)
    BY <1>1, <1>2, NaKnown, NaNumbers DEF NaAsks
  <1>5. NaSlot(nats.slot, nats.gen, nats.link, nats.closed, op, sub)
    BY <1>2, <1>3, NaKnown DEF NaSlot
  <1>6. NaRoom(op, nats.ids, sub, nats.events)
    BY <1>2, <1>3, NaKnown DEF NaRoom
  <1>7. NaWhole(op.rows, sub)
    <2>1. sub.shown \in Seq(NatsServer!Message)
      BY DEF NatsServer!Subscription
    <2>2. sub.shown \o <<>> = sub.shown
      BY <2>1, ConcatEmptySeq
    <2> QED BY <1>2, <1>3, <2>2, NaKnown DEF NaWhole
  <1>8. NaWarned(nats.slot, nats.link, nats.err, nats.running, nats.events, sub)
    BY <1>3, NaKnown DEF NaWarned
  <1>9. nats.ids \in 0 .. MaxFollow
    BY NaKnown DEF NaState
  <1> QED BY <1>2, <1>3, <1>4, <1>5, <1>6, <1>7, <1>8, <1>9, NaKnown, NaServes

(* Arrive *)
LEMMA NaArrives == NaInv /\ NatsServer!Arrive => NaInv' /\ NaStep
  <1> SUFFICES ASSUME NaInv, NatsServer!Arrive PROVE NaInv' /\ NaStep
    OBVIOUS
  <1> DEFINE m == nats.sub.arrived + 1
  <1>1. nats.slot # 0 /\ nats.sub.id # 0 /\ nats.slot \in NaConn
    BY NaKnown DEF NatsServer!Arrive, NatsServer!Following
  <1>2. /\ m \in NatsServer!Message /\ m \in 0 .. MaxMessage /\ nats.sub.arrived \in Nat
        /\ nats.sub.queue \in Seq(NatsServer!Message)
    BY NaKnown, NaNumbers, SMTT(30)
       DEF NatsServer!Arrive, NatsServer!Message, NatsServer!Subscription
  <1>3. nats.ids \in 0 .. MaxFollow /\ nats.held \in Nat \X Nat /\ nats.op \in NaOp
    BY NaKnown DEF NaState
  <1>a. ASSUME NEW sub \in NatsServer!Subscription,
               NEW events \in [NaConn -> Seq(NatsServer!Event)],
               sub.id = nats.sub.id, sub.batch = nats.sub.batch, sub.pending = nats.sub.pending,
               Len(sub.queue) <= QueueLimit, \A c \in NaConn : Len(events[c]) <= MaxEvents,
               nats' = [nats EXCEPT !.sub = sub, !.events = events],
               NaWhole(nats.op.rows, sub),
               NaWarned(nats.slot, nats.link, nats.err, nats.running, events, sub)
        PROVE  NaInv' /\ NaStep
    <2>1. NaSlot(nats.slot, nats.gen, nats.link, nats.closed, nats.op, sub)
      BY <1>1, NaKnown DEF NaSlot
    <2>2. NaRoom(nats.op, nats.ids, sub, events)
      BY <1>a, NaKnown DEF NaRoom
    <2>3. nats' = [nats EXCEPT !.op = nats.op, !.sub = sub, !.ids = nats.ids,
                               !.held = nats.held, !.events = events]
      BY <1>a, NaKnown DEF NaState
    <2>4. NaAsks(nats.op, nats.stored, nats.report)
      BY NaKnown
    <2>5. /\ NaWhole(nats.op.rows, sub)
          /\ NaWarned(nats.slot, nats.link, nats.err, nats.running, events, sub)
      BY <1>a
    <2> QED BY <1>3, <2>1, <2>2, <2>3, <2>4, <2>5, NaServes
  <1>b. ASSUME NEW sub, sub = [nats.sub EXCEPT !.arrived = m, !.lost = TRUE]
        PROVE  /\ sub \in NatsServer!Subscription /\ sub.id = nats.sub.id
               /\ sub.batch = nats.sub.batch /\ sub.pending = nats.sub.pending
               /\ Len(sub.queue) <= QueueLimit /\ sub.lost
    <2>1. sub \in NatsServer!Subscription /\ sub.queue = nats.sub.queue
      BY <1>2, <1>b, NaKnown DEF NatsServer!Subscription
    <2> QED BY <1>b, <2>1, NaKnown DEF NatsServer!Subscription, NaRoom
  <1>4. ASSUME Len(nats.sub.queue) < QueueLimit,
               nats' = [nats EXCEPT !.sub.arrived = m, !.sub.queue = Append(nats.sub.queue, m)]
        PROVE  NaInv' /\ NaStep
    <2> DEFINE queue == Append(nats.sub.queue, m)
               sub == [nats.sub EXCEPT !.arrived = m, !.queue = queue]
               before == (nats.sub.shown \o nats.op.rows) \o nats.sub.pending
    <2>1. queue \in Seq(NatsServer!Message) /\ Len(queue) <= QueueLimit
      <3>1. Len(nats.sub.queue) \in Nat /\ Len(queue) = Len(nats.sub.queue) + 1
        BY <1>2, AppendProperties, LenProperties
      <3>2. queue \in Seq(NatsServer!Message)
        BY <1>2, AppendProperties
      <3> HIDE DEF queue
      <3> QED BY <1>4, <3>1, <3>2, NaNumbers
    <2>2. nats' = [nats EXCEPT !.sub = sub, !.events = nats.events]
      BY <1>4, NaKnown DEF NaState
    <2>3. /\ before \in Seq(NatsServer!Message)
      <3>1. /\ nats.sub.shown \in Seq(NatsServer!Message)
            /\ nats.op.rows \in Seq(NatsServer!Message)
            /\ nats.sub.pending \in Seq(NatsServer!Message)
        BY NaKnown DEF NatsServer!Subscription, NaOp
      <3> QED BY <3>1, ConcatProperties
    <2>4. before \o queue = Append(before \o nats.sub.queue, m)
      <3> DEFINE queued == nats.sub.queue
      <3>1. before \in Seq(NatsServer!Message) /\ queued \in Seq(NatsServer!Message)
        BY <1>2, <2>3
      <3>2. m \in NatsServer!Message
        BY <1>2
      <3> HIDE DEF before, m, queued
      <3>3. before \o Append(queued, m) = Append(before \o queued, m)
        BY <3>1, <3>2, AppendLast
      <3> QED BY <3>3 DEF queued
    <2>5. Append([i \in 1 .. nats.sub.arrived |-> i], m) = [i \in 1 .. m |-> i]
      BY <1>2, NextNumber
    <2>6. ~nats.sub.lost => before \o nats.sub.queue = [i \in 1 .. nats.sub.arrived |-> i]
      BY NaKnown DEF NaWhole
    <2> HIDE DEF queue
    <2>7. /\ sub \in NatsServer!Subscription /\ sub.id = nats.sub.id
          /\ sub.batch = nats.sub.batch /\ sub.pending = nats.sub.pending
          /\ sub.queue = queue /\ sub.lost = nats.sub.lost /\ sub.arrived = m
          /\ sub.shown = nats.sub.shown
      BY <1>2, <2>1, NaKnown DEF NatsServer!Subscription
    <2>8. NaWhole(nats.op.rows, sub)
      <3>1. ((sub.shown \o nats.op.rows) \o sub.pending) \o sub.queue = before \o queue
        BY <2>7
      <3> HIDE DEF sub, before
      <3> QED BY <2>4, <2>5, <2>6, <2>7, <3>1 DEF NaWhole
    <2> HIDE DEF sub
    <2>9. NaWarned(nats.slot, nats.link, nats.err, nats.running, nats.events, sub)
      BY <2>7, NaKnown DEF NaWarned
    <2>10. \A c \in NaConn : Len(nats.events[c]) <= MaxEvents
      BY NaKnown DEF NaRoom
    <2> QED BY <1>a, <2>1, <2>2, <2>7, <2>8, <2>9, <2>10, NaKnown
  <1>5. ASSUME Len(nats.events[nats.slot]) < MaxEvents,
               nats' = [nats EXCEPT !.sub.arrived = m, !.sub.lost = TRUE,
                                    !.events[nats.slot] = Append(nats.events[nats.slot], "overflow")]
        PROVE  NaInv' /\ NaStep
    <2> DEFINE events == NaMore(nats.events, nats.slot, "overflow")
               sub == [nats.sub EXCEPT !.arrived = m, !.lost = TRUE]
    <2>1. nats' = [nats EXCEPT !.sub = sub, !.events = events]
      BY <1>5, NaKnown DEF NaState, NaMore
    <2>2. "overflow" \in NatsServer!Event /\ "overflow" \in NatsServer!Tells
      BY DEF NatsServer!Event, NatsServer!Tells
    <2>3. /\ events \in [NaConn -> Seq(NatsServer!Event)]
          /\ \A c \in NaConn : Len(events[c]) <= MaxEvents
          /\ Len(events[nats.slot]) \in Nat /\ Len(events[nats.slot]) # 0
          /\ events[nats.slot][Len(events[nats.slot])] = "overflow"
      BY <1>1, <1>5, <2>2, NaEvent DEF events
    <2>4. Len(events[nats.slot]) \in 1 .. Len(events[nats.slot])
      BY <2>3
    <2>5. sub = [nats.sub EXCEPT !.arrived = m, !.lost = TRUE]
      OBVIOUS
    <2> HIDE DEF events, sub
    <2>6. /\ sub \in NatsServer!Subscription /\ sub.id = nats.sub.id
          /\ sub.batch = nats.sub.batch /\ sub.pending = nats.sub.pending
          /\ Len(sub.queue) <= QueueLimit /\ sub.lost
      BY <1>b, <2>5
    <2>7. NaWarned(nats.slot, nats.link, nats.err, nats.running, events, sub)
      BY <2>2, <2>3, <2>4 DEF NaWarned
    <2>8. NaWhole(nats.op.rows, sub)
      BY <2>6 DEF NaWhole
    <2> QED BY <1>a, <2>1, <2>3, <2>6, <2>7, <2>8
  <1>6. ASSUME ~NatsServer!Up, nats' = [nats EXCEPT !.sub.arrived = m, !.sub.lost = TRUE]
        PROVE  NaInv' /\ NaStep
    <2> DEFINE sub == [nats.sub EXCEPT !.arrived = m, !.lost = TRUE]
    <2>1. nats' = [nats EXCEPT !.sub = sub, !.events = nats.events]
      BY <1>6, NaKnown DEF NaState
    <2>2. nats.link[nats.slot] = "down"
      BY <1>1, <1>6, NaKnown DEF NatsServer!Up, NaSlot
    <2>3. sub = [nats.sub EXCEPT !.arrived = m, !.lost = TRUE]
      OBVIOUS
    <2> HIDE DEF sub
    <2>4. /\ sub \in NatsServer!Subscription /\ sub.id = nats.sub.id
          /\ sub.batch = nats.sub.batch /\ sub.pending = nats.sub.pending
          /\ Len(sub.queue) <= QueueLimit /\ sub.lost
      BY <1>b, <2>3
    <2>5. NaWarned(nats.slot, nats.link, nats.err, nats.running, nats.events, sub)
      BY <1>1, <2>2, NaKnown DEF NaWarned
    <2>6. NaWhole(nats.op.rows, sub)
      BY <2>4 DEF NaWhole
    <2>7. \A c \in NaConn : Len(nats.events[c]) <= MaxEvents
      BY NaKnown DEF NaRoom
    <2> QED BY <1>a, <2>1, <2>4, <2>5, <2>6, <2>7, NaKnown
  <1> QED BY <1>4, <1>5, <1>6 DEF NatsServer!Arrive, NatsServer!Room

(* Every step of the NATS executor keeps the invariant and the contract.   *)
LEMMA NaSteps == NaInv /\ NatsServer!Next => NaInv' /\ NaStep
  <1> SUFFICES ASSUME NaInv, NatsServer!Next PROVE NaInv' /\ NaStep
    OBVIOUS
  <1>1. CASE NatsServer!Done
    <2>1. nats' = nats
      BY <1>1 DEF NatsServer!Done
    <2> QED BY <2>1, NaQuiet DEF NaInv
  <1>2. CASE \E c \in NaConn : NatsServer!LoseServer(c) \/ NatsServer!Reconnect(c)
                               \/ NatsServer!ServerError(c) \/ NatsServer!Callback(c)
                               \/ NatsServer!CallbackActs(c)
    BY <1>2, NaLinks, NaCallback, NaCallbackActs
  <1> QED BY <1>1, <1>2, NaAsked, NaReused, NaBroken, NaStopped, NaNotConnected, NaConnects,
             NaIsConnected, NaSends, NaPublished, NaStores, NaShutsDown, NaTakes, NaWorks,
             NaPageEnds, NaArrives
          DEF NatsServer!Next, NatsServer!Progress, NaConn

(* What the invariant says of the messages, and of the types.              *)
LEMMA NaTold == NaInv => NatsServer!LossIsTold /\ NatsServer!TypeOK
  <1> SUFFICES ASSUME NaInv PROVE NatsServer!LossIsTold /\ NatsServer!TypeOK
    OBVIOUS
  <1>1. NatsServer!LossIsTold
    <2> SUFFICES ASSUME nats.slot # 0, nats.sub.id # 0
                 PROVE  NatsServer!LossIsTold
      BY DEF NatsServer!LossIsTold, NatsServer!Following
    <2>1. CASE nats.sub.lost
      <3>1. \/ nats.err
            \/ nats.running[nats.slot] \in NatsServer!Tells
            \/ \E i \in 1 .. Len(nats.events[nats.slot]) :
                  nats.events[nats.slot][i] \in NatsServer!Tells
        BY <2>1, NaKnown DEF NaWarned
      <3> QED BY <2>1, <3>1 DEF NatsServer!LossIsTold
    <2>2. CASE ~nats.sub.lost
      <3> DEFINE all == ((nats.sub.shown \o nats.op.rows) \o nats.sub.pending) \o nats.sub.queue
      <3>1. all = [i \in 1 .. nats.sub.arrived |-> i]
        BY <2>2, NaKnown DEF NaWhole
      <3> QED BY <2>2, <3>1 DEF NatsServer!LossIsTold
    <2> QED BY <2>1, <2>2
  <1>2. NatsServer!TypeOK
    <2>1. nats.slot \in 0 .. MaxConnect /\ nats.gen \in 0 .. MaxConnect
      BY NaKnown, NaNumbers, ProvidersAssumption
         DEF ProvidersAssumption, NaConn, NatsServer!Conn
    <2>2. /\ nats.link \in [NaConn -> {"unused", "up", "down", "dropped"}]
          /\ nats.running \in [NaConn -> NatsServer!Event \union {"none"}]
          /\ \A c \in NaConn : nats.events[c] \in Seq(NatsServer!Event)
          /\ nats.sub \in NatsServer!Subscription
          /\ nats.report \in [NatsServer!Write -> {"none", "error", "Applied", "Unknown"}]
      BY NaKnown
    <2>3. /\ \A c \in NaConn : Len(nats.events[c]) <= MaxEvents
          /\ Len(nats.sub.queue) <= QueueLimit
      BY NaKnown DEF NaRoom
    <2> QED BY <2>1, <2>2, <2>3 DEF NatsServer!TypeOK, NaConn
  <1> QED BY <1>1, <1>2

(* The reports of NATS begin as WriteOutcome does, and go on so.           *)
LEMMA NaOutcomes ==
    /\ NatsServer!Init => NatsServer!Statements!Init
    /\ NaInv /\ NaStep /\ NaInv' => [NatsServer!Statements!Next]_NatsServer!Statements!vars
    /\ nats' = nats => [NatsServer!Statements!Next]_NatsServer!Statements!vars
  <1>1. NatsServer!Init => NatsServer!Statements!Init
    <2> SUFFICES ASSUME NatsServer!Init PROVE NatsServer!Statements!Init
      OBVIOUS
    <2> DEFINE outcome == nats.stored
               told == nats.report
    <2>1. /\ outcome = [w \in NatsServer!Write |-> "no"] /\ told = [w \in NatsServer!Write |-> "none"]
      BY DEF NatsServer!Init
    <2> HIDE DEF outcome, told
    <2>2. /\ [w \in NatsServer!Write |-> outcome[w] # "no"] = [w \in NatsServer!Write |-> FALSE]
          /\ [w \in NatsServer!Write |-> outcome[w] = "stored"] = [w \in NatsServer!Write |-> FALSE]
      BY <2>1
    <2> QED BY <2>1, <2>2 DEF NatsServer!Statements!Init, outcome, told
  <1>2. NaInv /\ NaStep /\ NaInv' => [NatsServer!Statements!Next]_NatsServer!Statements!vars
    <2> SUFFICES ASSUME NaInv, NaStep, NaInv'
                 PROVE  [NatsServer!Statements!Next]_NatsServer!Statements!vars
      OBVIOUS
    <2> DEFINE e == NaEffect(nats.stored)
               r == nats.report
               f == NaEffect(nats'.stored)
               q == nats'.report
    <2>1. /\ e \in [NatsServer!Write -> Fates] /\ r \in [NatsServer!Write -> Told]
          /\ f \in [NatsServer!Write -> Fates] /\ Honest(e, r)
          /\ nats.stored \in [NatsServer!Write -> NaStored]
          /\ nats'.stored \in [NatsServer!Write -> NaStored]
      <3>1. e \in [NatsServer!Write -> Fates] /\ r \in [NatsServer!Write -> Told] /\ Honest(e, r)
            /\ nats.stored \in [NatsServer!Write -> NaStored]
        BY NaKnown
      <3>2. nats'.stored \in [NatsServer!Write -> NaStored]
        BY DEF NaInv, NaState
      <3>3. f \in [NatsServer!Write -> Fates]
        BY <3>2 DEF NaEffect, NaStored, Fates
      <3> QED BY <3>1, <3>2, <3>3
    <2>2. Contract(e, r, f, q)
      BY <2>1, StepsKeepContract DEF NaStep
    <2>3. /\ Sent(e) = [w \in NatsServer!Write |-> nats.stored[w] # "no"]
          /\ Took(e) = [w \in NatsServer!Write |-> nats.stored[w] = "stored"]
          /\ Sent(f) = [w \in NatsServer!Write |-> nats'.stored[w] # "no"]
          /\ Took(f) = [w \in NatsServer!Write |-> nats'.stored[w] = "stored"]
          /\ DOMAIN r = NatsServer!Write
      <3> DEFINE before == nats.stored
                 after == nats'.stored
      <3>1. \A w \in NatsServer!Write : /\ e[w] # "no" <=> before[w] # "no"
                                        /\ e[w] = "done" <=> before[w] = "stored"
                                        /\ f[w] # "no" <=> after[w] # "no"
                                        /\ f[w] = "done" <=> after[w] = "stored"
        BY <2>1 DEF NaEffect, NaStored
      <3> HIDE DEF e, f, before, after
      <3>2. /\ Sent(e) = [w \in NatsServer!Write |-> before[w] # "no"]
            /\ Took(e) = [w \in NatsServer!Write |-> before[w] = "stored"]
            /\ Sent(f) = [w \in NatsServer!Write |-> after[w] # "no"]
            /\ Took(f) = [w \in NatsServer!Write |-> after[w] = "stored"]
        BY <2>1, <3>1 DEF Sent, Took
      <3> QED BY <2>1, <3>2 DEF before, after
    <2>4. CASE Sent(f) = Sent(e) /\ Took(f) = Took(e) /\ q = r
      BY <2>3, <2>4 DEF NatsServer!Statements!vars
    <2>5. ASSUME NEW w \in NatsServer!Write, r[w] = "none", ~Sent(e)[w],
                 Sent(f) = [Sent(e) EXCEPT ![w] = TRUE], Took(f) = Took(e), q = r
          PROVE  NatsServer!Statements!Send(w)
      BY <2>3, <2>5 DEF NatsServer!Statements!Send
    <2>6. ASSUME NEW w \in NatsServer!Write, Sent(e)[w], ~Took(e)[w], r[w] \in {"none", "Unknown"},
                 Took(f) = [Took(e) EXCEPT ![w] = TRUE], Sent(f) = Sent(e), q = r
          PROVE  NatsServer!Statements!TakeEffect(w)
      BY <2>3, <2>6 DEF NatsServer!Statements!TakeEffect
    <2>7. ASSUME NEW w \in NatsServer!Write, NEW outcome \in Told \ {"none"}, r[w] = "none",
                 outcome = "error" => ~Sent(e)[w], outcome = "Applied" => Took(e)[w],
                 outcome = "Rejected" => ~Took(e)[w],
                 q = [r EXCEPT ![w] = outcome], Sent(f) = Sent(e), Took(f) = Took(e)
          PROVE  NatsServer!Statements!Report(w, outcome)
      BY <2>3, <2>7 DEF NatsServer!Statements!Report
    <2>8. Told \ {"none"} = {"error", "Applied", "Rejected", "Unknown"}
      BY DEF Told
    <2>9. Contract(e, r, f, q) => \/ Sent(f) = Sent(e) /\ Took(f) = Took(e) /\ q = r
                                 \/ NatsServer!Statements!Next
      <3> HIDE DEF e, r, f, q
      <3> SUFFICES ASSUME NEW w \in DOMAIN r,
                          \/ NatsServer!Statements!Send(w) \/ NatsServer!Statements!TakeEffect(w)
                          \/ \E outcome \in Told \ {"none"} :
                                NatsServer!Statements!Report(w, outcome)
                   PROVE  NatsServer!Statements!Next
        BY <2>3, <2>5, <2>6, <2>7 DEF Contract
      <3>1. w \in NatsServer!Write
        BY <2>3
      <3> QED BY <2>8, <3>1 DEF NatsServer!Statements!Next
    <2> HIDE DEF e, r, f, q
    <2> QED BY <2>2, <2>4, <2>9
  <1>3. nats' = nats => [NatsServer!Statements!Next]_NatsServer!Statements!vars
    <2> SUFFICES ASSUME nats' = nats PROVE NatsServer!Statements!vars' = NatsServer!Statements!vars
      OBVIOUS
    <2> QED BY DEF NatsServer!Statements!vars
  <1> QED BY <1>1, <1>2, <1>3
-----------------------------------------------------------------------------
(* CQL                                                                     *)

CqPlace == {"idle", "session", "connect", "prepare", "sent", "render"}
CqRetry == 0 .. MaxRetry
CqOp == [kind : {"none", "page", "query", "write", "check"}, at : CqPlace,
         write : {0} \union Cassandra!Write, dispatched : BOOLEAN, retries : CqRetry]
CqState == [session : BOOLEAN,
            status : {"Configured", "Connecting", "Connected", "Disconnected", "Closed"},
            closed : BOOLEAN, op : CqOp,
            effect : [Cassandra!Write -> Fates], report : [Cassandra!Write -> Told]]

(* The statement of the operation is not reported, and has left only while *)
(* its answer is awaited; it is dispatched before it leaves.               *)
CqAsks(op, effect, report) ==
    /\ op.kind = "none" <=> op.at = "idle"
    /\ op.kind = "write" <=> op.write # 0
    /\ op.kind = "write" => op.at # "render"
    /\ op.kind = "write" /\ op.at \in {"prepare", "sent"} => op.dispatched
    /\ op.write # 0 => report[op.write] = "none"
    /\ \A w \in DOMAIN report :
          report[w] = "none" /\ effect[w] # "no" => op.write = w /\ op.at = "sent"

CqInv ==
    /\ cql \in CqState
    /\ CqAsks(cql.op, cql.effect, cql.report)
    /\ Honest(cql.effect, cql.report)

CqStep == StatementStep(cql.effect, cql.report, cql'.effect, cql'.report)

(* No statement is 0, and an operation begins with no retry.               *)
LEMMA CqWrites == 0 \notin Cassandra!Write /\ 0 \in CqRetry
  BY ProvidersAssumption DEF ProvidersAssumption, Cassandra!Write, CqRetry

(* Nothing has been asked at first.                                        *)
LEMMA CqBegins == Cassandra!Init => CqInv
  BY CqWrites
     DEF Cassandra!Init, Cassandra!NoOp, CqInv, CqState, CqOp, CqPlace,
         CqAsks, Honest, Fates, Told

(* An operation that is over is reported as it was.                        *)
LEMMA CqSettles ==
    ASSUME CqInv, NEW outcome \in Told \ {"none"},
           NEW status \in {"Connected", "Disconnected"},
           cql' = Cassandra!Settled(status, outcome),
           cql.op.write # 0 =>
              /\ outcome = "error" => cql.effect[cql.op.write] = "no"
              /\ outcome = "Applied" => cql.effect[cql.op.write] = "done"
              /\ outcome = "Rejected" => cql.effect[cql.op.write] \in {"no", "refused"}
    PROVE  CqInv' /\ CqStep
  <1>1. /\ cql.effect \in [Cassandra!Write -> Fates] /\ cql.report \in [Cassandra!Write -> Told]
        /\ Honest(cql.effect, cql.report)
    BY DEF CqInv, CqState
  <1>2. /\ cql' \in CqState /\ cql'.op = Cassandra!NoOp /\ cql'.effect = cql.effect
        /\ cql'.report = IF cql.op.write = 0 THEN cql.report
                         ELSE [cql.report EXCEPT ![cql.op.write] = outcome]
    <2> DEFINE state == [cql EXCEPT !.op = Cassandra!NoOp, !.status = status]
    <2>1. Cassandra!NoOp \in CqOp
      BY CqWrites DEF CqOp, CqPlace, Cassandra!NoOp
    <2>2. /\ state \in CqState /\ state.op = Cassandra!NoOp /\ state.effect = cql.effect
          /\ state.report = cql.report
      BY <2>1 DEF CqInv, CqState
    <2>3. cql' = IF cql.op.write = 0 THEN state ELSE [state EXCEPT !.report[cql.op.write] = outcome]
      BY DEF Cassandra!Settled, Cassandra!W
    <2> HIDE DEF state
    <2> QED BY <2>2, <2>3 DEF CqState
  <1>3. CqStep
    <2>1. CASE cql.op.write = 0
      BY <1>2, <2>1 DEF CqStep, StatementStep
    <2>2. CASE cql.op.write # 0
      <3>1. cql.op.write \in DOMAIN cql.report /\ cql.report[cql.op.write] = "none"
        BY <2>2 DEF CqInv, CqState, CqOp, CqAsks
      <3>2. Reports(cql.effect, cql.report, cql'.effect, cql'.report)
        BY <1>2, <2>2, <3>1 DEF Reports
      <3> QED BY <3>2 DEF CqStep, StatementStep
    <2> QED BY <2>1, <2>2
  <1>4. Honest(cql'.effect, cql'.report)
    BY <1>1, <1>3, HonestKept DEF CqStep
  <1>5. CqAsks(cql'.op, cql'.effect, cql'.report)
    <2>1. cql'.op.kind = "none" /\ cql'.op.at = "idle" /\ cql'.op.write = 0
      BY <1>2 DEF Cassandra!NoOp
    <2>2. \A w \in DOMAIN cql'.report :
             ~(cql'.report[w] = "none" /\ cql'.effect[w] # "no")
      BY <1>1, <1>2, CqWrites DEF CqInv, CqAsks
    <2> QED BY <2>1, <2>2 DEF CqAsks
  <1> QED BY <1>2, <1>3, <1>4, <1>5 DEF CqInv

(* Every step of the executor.                                             *)
LEMMA CqSteps == CqInv /\ Cassandra!Next => CqInv' /\ CqStep
  <1> SUFFICES ASSUME CqInv, Cassandra!Next PROVE CqInv' /\ CqStep
    OBVIOUS
  <1>t. /\ cql \in CqState /\ cql.op \in CqOp
        /\ cql.effect \in [Cassandra!Write -> Fates] /\ cql.report \in [Cassandra!Write -> Told]
        /\ Honest(cql.effect, cql.report) /\ CqAsks(cql.op, cql.effect, cql.report)
    BY DEF CqInv, CqState
  <1> USE DEF Cassandra!At, Cassandra!W
  <1>a. ASSUME cql'.effect = cql.effect, cql'.report = cql.report
        PROVE  CqStep /\ Honest(cql'.effect, cql'.report)
    BY <1>a, <1>t DEF CqStep, StatementStep
  (* A step of the same operation that sends nothing.                      *)
  <1>m. ASSUME cql' \in CqState, cql'.effect = cql.effect, cql'.report = cql.report,
               cql'.op.kind = cql.op.kind, cql'.op.write = cql.op.write,
               cql.op.at # "idle", cql'.op.at # "idle",
               cql.op.at = "sent" => cql.op.write = 0,
               cql'.op.at = "render" => cql.op.write = 0,
               cql.op.kind = "write" /\ cql'.op.at \in {"prepare", "sent"} => cql'.op.dispatched
        PROVE  CqInv' /\ CqStep
    <2>1. CqAsks(cql'.op, cql'.effect, cql'.report)
      BY <1>m, <1>t, CqWrites DEF CqAsks
    <2> QED BY <1>a, <1>m, <2>1 DEF CqInv
  <1>b. ASSUME NEW op \in CqOp, cql' = [cql EXCEPT !.op = op], cql.op.kind = "none",
               op.kind # "none", op.at = "session", op.kind = "write" <=> op.write # 0,
               op.write # 0 => cql.report[op.write] = "none" /\ cql.effect[op.write] = "no"
        PROVE  CqInv' /\ CqStep
    <2>1. /\ cql' \in CqState /\ cql'.effect = cql.effect /\ cql'.report = cql.report
          /\ cql'.op = op
      BY <1>b, <1>t DEF CqState
    <2>2. CqAsks(op, cql.effect, cql.report)
      BY <1>b, <1>t DEF CqAsks
    <2> QED BY <1>a, <2>1, <2>2 DEF CqInv
  <1>1. CASE Cassandra!Ask
    <2>0. cql.op.kind = "none"
      BY <1>1 DEF Cassandra!Ask, Cassandra!Idle
    <2>1. ASSUME NEW kind \in Cassandra!Kind \ {"write"},
                 cql' = [cql EXCEPT !.op = [Cassandra!NoOp EXCEPT !.kind = kind, !.at = "session"]]
          PROVE  CqInv' /\ CqStep
      <3> DEFINE op == [Cassandra!NoOp EXCEPT !.kind = kind, !.at = "session"]
      <3>1. op \in CqOp /\ op.kind = kind /\ op.at = "session" /\ op.write = 0
        BY CqWrites DEF Cassandra!NoOp, Cassandra!Kind, CqOp, CqPlace
      <3> HIDE DEF op
      <3> QED BY <1>b, <2>0, <2>1, <3>1 DEF op, Cassandra!Kind
    <2>2. ASSUME NEW w \in Cassandra!Write, Cassandra!Fresh(w),
                 cql' = [cql EXCEPT !.op = [Cassandra!NoOp EXCEPT !.kind = "write",
                                                    !.at = "session", !.write = w]]
          PROVE  CqInv' /\ CqStep
      <3> DEFINE op == [Cassandra!NoOp EXCEPT !.kind = "write", !.at = "session", !.write = w]
      <3>1. op \in CqOp /\ op.kind = "write" /\ op.at = "session" /\ op.write = w
        BY CqWrites DEF Cassandra!NoOp, CqOp, CqPlace
      <3>2. w # 0 /\ cql.report[w] = "none" /\ cql.effect[w] = "no"
        BY <1>t, <2>0, <2>2, CqWrites DEF Cassandra!Fresh, CqAsks
      <3>3. cql' = [cql EXCEPT !.op = op]
        BY <2>2
      <3> HIDE DEF op
      <3> QED BY <1>b, <2>0, <3>1, <3>2, <3>3
    <2> QED BY <1>1, <2>1, <2>2 DEF Cassandra!Ask
  <1>p. /\ Cassandra!Prepares(cql.op) \in CqOp
        /\ Cassandra!Prepares(cql.op).kind = cql.op.kind
        /\ Cassandra!Prepares(cql.op).at = "prepare"
        /\ Cassandra!Prepares(cql.op).write = cql.op.write
        /\ cql.op.kind = "write" => Cassandra!Prepares(cql.op).dispatched
    <2>1. ASSUME NEW flag \in BOOLEAN
          PROVE  [cql.op EXCEPT !.at = "prepare", !.dispatched = flag] \in CqOp
      BY <1>t DEF CqOp, CqPlace
    <2> DEFINE flag == cql.op.kind \in {"query", "write"}
    <2>2. flag = TRUE \/ flag = FALSE
      BY SMT
    <2>3. cql.op.kind = "write" => flag
      OBVIOUS
    <2>4. Cassandra!Prepares(cql.op) = [cql.op EXCEPT !.at = "prepare", !.dispatched = flag]
      BY DEF Cassandra!Prepares
    <2> HIDE DEF flag
    <2>5. flag \in BOOLEAN
      BY <2>2
    <2> QED BY <1>t, <2>1, <2>3, <2>4, <2>5 DEF CqOp
  <1>2. CASE Cassandra!Session
    <2>1. CASE cql.session
      <3>1. cql.op.at = "session" /\ cql' = [cql EXCEPT !.op = Cassandra!Prepares(cql.op)]
        BY <1>2, <2>1 DEF Cassandra!Session
      <3>2. /\ cql' \in CqState /\ cql'.effect = cql.effect /\ cql'.report = cql.report
            /\ cql'.op = Cassandra!Prepares(cql.op)
        BY <1>p, <1>t, <3>1 DEF CqState
      <3> QED BY <1>m, <1>p, <3>1, <3>2
    <2>2. CASE ~cql.session
      <3>1. /\ cql' \in CqState /\ cql'.effect = cql.effect /\ cql'.report = cql.report
            /\ cql.op.at = "session" /\ cql'.op.at = "connect"
            /\ cql'.op.kind = cql.op.kind /\ cql'.op.write = cql.op.write
        BY <1>2, <1>t, <2>2 DEF Cassandra!Session, CqState, CqOp, CqPlace
      <3> QED BY <1>m, <3>1
    <2> QED BY <2>1, <2>2
  <1>3. CASE Cassandra!Connected
    <2>1. /\ cql.op.at = "connect" /\ cql' \in CqState /\ cql'.effect = cql.effect
          /\ cql'.report = cql.report /\ cql'.op = Cassandra!Prepares(cql.op)
      BY <1>3, <1>p, <1>t DEF Cassandra!Connected, CqState
    <2> QED BY <1>m, <1>p, <2>1
  <1>4. CASE Cassandra!ConnectFails
    <2>1. cql.op.at = "connect" /\ cql' = Cassandra!Settled("Disconnected", "error")
      BY <1>4 DEF Cassandra!ConnectFails
    <2>2. cql.op.write # 0 => cql.effect[cql.op.write] = "no"
      BY <1>t, <2>1 DEF CqAsks, CqOp
    <2> QED BY <2>1, <2>2, CqSettles DEF Told
  <1>5. CASE Cassandra!Prepared
    <2>1. /\ cql.op.at = "prepare" /\ cql.op.kind # "none"
          /\ cql.op.write # 0 => /\ cql.op.write \in Cassandra!Write /\ cql.op.dispatched
                                 /\ cql.effect[cql.op.write] = "no"
                                 /\ cql.report[cql.op.write] = "none"
      BY <1>5, <1>t DEF Cassandra!Prepared, CqAsks, CqOp, CqState
    <2>2. /\ cql' \in CqState /\ cql'.report = cql.report
          /\ cql'.op.at = "sent" /\ cql'.op.kind = cql.op.kind /\ cql'.op.write = cql.op.write
          /\ cql'.op.dispatched = cql.op.dispatched
          /\ cql'.effect = IF cql.op.write = 0 THEN cql.effect
                           ELSE [cql.effect EXCEPT ![cql.op.write] = "running"]
      BY <1>5, <1>t DEF Cassandra!Prepared, CqState, CqOp, CqPlace, Fates
    <2>3. CqStep
      <3>1. CASE cql.op.write = 0
        BY <2>2, <3>1 DEF CqStep, StatementStep
      <3>2. CASE cql.op.write # 0
        <4>1. Sends(cql.effect, cql.report, cql'.effect, cql'.report)
          BY <2>1, <2>2, <3>2, <1>t DEF Sends
        <4> QED BY <4>1 DEF CqStep, StatementStep
      <3> QED BY <3>1, <3>2
    <2>4. Honest(cql'.effect, cql'.report)
      BY <1>t, <2>3, HonestKept DEF CqStep
    <2>5. CqAsks(cql'.op, cql'.effect, cql'.report)
      BY <1>t, <2>1, <2>2 DEF CqAsks
    <2> QED BY <2>2, <2>3, <2>4, <2>5 DEF CqInv
  (* What is reported of an answer.                                        *)
  <1>r. ASSUME NEW ending \in Cassandra!Answer
        PROVE  /\ Cassandra!Report(ending) \in Told \ {"none", "Applied"}
               /\ Cassandra!Report(ending) = "Rejected" => ending = "refusal"
               /\ Cassandra!Report(ending) = "error" => ~cql.op.dispatched
               /\ Cassandra!Status(ending) \in {"Connected", "Disconnected"}
    BY <1>r DEF Cassandra!Report, Cassandra!Status, Cassandra!Answer, Told
  <1>6. CASE Cassandra!PrepareFails
    <2>1. PICK ending \in Cassandra!Answer :
             cql' = Cassandra!Settled(Cassandra!Status(ending), Cassandra!Report(ending))
      BY <1>6 DEF Cassandra!PrepareFails
    <2>2. cql.op.write # 0 => cql.effect[cql.op.write] = "no"
      BY <1>6, <1>t DEF Cassandra!PrepareFails, CqAsks, CqOp, CqState
    <2> QED BY <1>r, <2>1, <2>2, CqSettles
  <1>7. CASE Cassandra!Retries
    <2>1. /\ cql.op.at = "sent" /\ cql' \in CqState /\ cql'.report = cql.report
          /\ cql'.op.at = "sent" /\ cql'.op.kind = cql.op.kind /\ cql'.op.write = cql.op.write
          /\ cql'.op.dispatched = cql.op.dispatched
          /\ cql'.effect = IF cql.op.write = 0 THEN cql.effect
                           ELSE [cql.effect EXCEPT ![cql.op.write] = "running"]
      <3> DEFINE op == [cql.op EXCEPT !.retries = cql.op.retries + 1]
                 effect == IF cql.op.write = 0 THEN cql.effect
                           ELSE [cql.effect EXCEPT ![cql.op.write] = "running"]
      <3>1. cql.op.retries + 1 \in CqRetry
        BY <1>7, <1>t, ProvidersAssumption
           DEF ProvidersAssumption, Cassandra!Retries, CqOp, CqRetry
      <3>2. /\ op \in CqOp /\ op.at = cql.op.at /\ op.kind = cql.op.kind
            /\ op.write = cql.op.write /\ op.dispatched = cql.op.dispatched
        BY <1>t, <3>1 DEF CqOp
      <3>3. effect \in [Cassandra!Write -> Fates]
        BY <1>t DEF Fates
      <3>4. cql.op.at = "sent" /\ cql' = [cql EXCEPT !.op = op, !.effect = effect]
        BY <1>7, <1>t DEF Cassandra!Retries, CqState
      <3> HIDE DEF op
      <3>5. cql' \in CqState /\ cql'.report = cql.report /\ cql'.op = op /\ cql'.effect = effect
        <4> HIDE DEF effect
        <4> QED BY <1>t, <3>2, <3>3, <3>4 DEF CqState
      <3> QED BY <3>2, <3>4, <3>5
    <2>2. CqStep
      <3>1. CASE cql.op.write = 0
        BY <2>1, <3>1 DEF CqStep, StatementStep
      <3>2. CASE cql.op.write # 0
        <4>1. /\ cql.op.write \in DOMAIN cql.report /\ cql.effect[cql.op.write] = "refused"
              /\ cql.report[cql.op.write] = "none"
          BY <1>7, <1>t, <3>2 DEF Cassandra!Retries, CqAsks, CqOp
        <4>2. Decides(cql.effect, cql.report, cql'.effect, cql'.report)
          BY <2>1, <3>2, <4>1 DEF Decides
        <4> QED BY <4>2 DEF CqStep, StatementStep
      <3> QED BY <3>1, <3>2
    <2>3. Honest(cql'.effect, cql'.report)
      BY <1>t, <2>2, HonestKept DEF CqStep
    <2>4. CqAsks(cql'.op, cql'.effect, cql'.report)
      BY <1>t, <2>1 DEF CqAsks
    <2> QED BY <2>1, <2>2, <2>3, <2>4 DEF CqInv
  <1>8. CASE Cassandra!ExecuteFails
    <2>1. PICK ending \in Cassandra!Answer :
             /\ Cassandra!Possible(ending)
             /\ cql' = Cassandra!Settled(Cassandra!Status(ending), Cassandra!Report(ending))
      BY <1>8 DEF Cassandra!ExecuteFails
    <2>2. cql.op.write # 0 => cql.op.dispatched
      BY <1>8, <1>t DEF Cassandra!ExecuteFails, CqAsks, CqOp, CqState
    <2>3. cql.op.write # 0 /\ ending = "refusal" => cql.effect[cql.op.write] = "refused"
      BY <2>1 DEF Cassandra!Possible
    <2> QED BY <1>r, <2>1, <2>2, <2>3, CqSettles
  <1>9. CASE Cassandra!Answered
    <2>1. CASE cql.op.write # 0
      <3>1. cql' = Cassandra!Settled("Connected", "Applied") /\ cql.effect[cql.op.write] = "done"
        BY <1>9, <2>1 DEF Cassandra!Answered
      <3> QED BY <3>1, CqSettles DEF Told
    <2>2. CASE cql.op.write = 0
      <3>1. /\ cql.op.at = "sent" /\ cql' \in CqState /\ cql'.effect = cql.effect
            /\ cql'.report = cql.report /\ cql'.op.at = "render"
            /\ cql'.op.kind = cql.op.kind /\ cql'.op.write = cql.op.write
        BY <1>9, <1>t, <2>2 DEF Cassandra!Answered, CqState, CqOp, CqPlace
      <3> QED BY <1>m, <2>2, <3>1
    <2> QED BY <2>1, <2>2
  <1>10. CASE Cassandra!Rendered
    <2>1. cql.op.write = 0 /\ cql' = Cassandra!Settled("Connected", "error")
      BY <1>10, <1>t DEF Cassandra!Rendered, CqAsks
    <2> QED BY <2>1, CqSettles DEF Told
  <1>11. CASE Cassandra!Interrupted
    <2> DEFINE outcome == IF cql.op.dispatched THEN "Unknown" ELSE "error"
    <2>1. cql' = Cassandra!Settled("Disconnected", outcome)
      BY <1>11 DEF Cassandra!Interrupted
    <2>2. /\ outcome \in Told \ {"none", "Applied", "Rejected"}
          /\ cql.op.write # 0 /\ outcome = "error" => cql.effect[cql.op.write] = "no"
      BY <1>t DEF Told, CqAsks, CqOp
    <2> HIDE DEF outcome
    <2> QED BY <2>1, <2>2, CqSettles
  <1>12. CASE Cassandra!Run
    <2>1. PICK w \in Cassandra!Write, made \in {"done", "refused"} :
             cql.effect[w] = "running" /\ cql' = [cql EXCEPT !.effect[w] = made]
      BY <1>12 DEF Cassandra!Run
    <2>2. /\ cql' \in CqState /\ cql'.report = cql.report /\ cql'.op = cql.op
          /\ cql'.effect = [cql.effect EXCEPT ![w] = made]
      BY <2>1, <1>t DEF CqState, Fates
    <2>3. cql.report[w] # "error" /\ w \in DOMAIN cql.report
      BY <2>1, <1>t DEF Honest
    <2>4. Decides(cql.effect, cql.report, cql'.effect, cql'.report)
      BY <2>1, <2>2, <2>3 DEF Decides
    <2>5. CqStep /\ Honest(cql'.effect, cql'.report)
      BY <1>t, <2>4, HonestKept DEF CqStep, StatementStep
    <2>6. CqAsks(cql'.op, cql'.effect, cql'.report)
      BY <1>t, <2>1, <2>2 DEF CqAsks
    <2> QED BY <1>t, <2>2, <2>5, <2>6 DEF CqInv
  <1>13. CASE Cassandra!Shutdown
    <2>1. /\ cql' \in CqState /\ cql'.effect = cql.effect /\ cql'.report = cql.report
          /\ cql'.op = cql.op
      BY <1>13, <1>t DEF Cassandra!Shutdown, CqState
    <2> QED BY <1>a, <1>t, <2>1 DEF CqInv
  <1>14. CASE Cassandra!Done
    <2>1. cql' = cql
      BY <1>14 DEF Cassandra!Done
    <2> QED BY <1>a, <1>t, <2>1 DEF CqInv
  <1> QED
    BY <1>1, <1>2, <1>3, <1>4, <1>5, <1>6, <1>7, <1>8, <1>9, <1>10, <1>11, <1>12, <1>13,
       <1>14 DEF Cassandra!Next, Cassandra!Progress

(* The reports of CQL begin as WriteOutcome does, and go on so.            *)
LEMMA CqOutcomes ==
    /\ Cassandra!Init => Cassandra!Statements!Init
    /\ CqInv /\ CqStep /\ CqInv' => [Cassandra!Statements!Next]_Cassandra!Statements!vars
    /\ cql' = cql => [Cassandra!Statements!Next]_Cassandra!Statements!vars
  <1>1. Cassandra!Init => Cassandra!Statements!Init
    <2> SUFFICES ASSUME Cassandra!Init PROVE Cassandra!Statements!Init
      OBVIOUS
    <2> DEFINE outcome == cql.effect
               told == cql.report
    <2>1. /\ outcome = [w \in Cassandra!Write |-> "no"] /\ told = [w \in Cassandra!Write |-> "none"]
      BY DEF Cassandra!Init
    <2> HIDE DEF outcome, told
    <2>2. /\ [w \in Cassandra!Write |-> outcome[w] # "no"] = [w \in Cassandra!Write |-> FALSE]
          /\ [w \in Cassandra!Write |-> outcome[w] = "done"] = [w \in Cassandra!Write |-> FALSE]
      BY <2>1
    <2> QED BY <2>1, <2>2 DEF Cassandra!Statements!Init, outcome, told
  <1>2. CqInv /\ CqStep /\ CqInv' => [Cassandra!Statements!Next]_Cassandra!Statements!vars
    <2> SUFFICES ASSUME CqInv, CqStep, CqInv'
                 PROVE  [Cassandra!Statements!Next]_Cassandra!Statements!vars
      OBVIOUS
    <2> DEFINE e == cql.effect
               r == cql.report
               f == cql'.effect
               q == cql'.report
    <2>1. /\ e \in [Cassandra!Write -> Fates] /\ r \in [Cassandra!Write -> Told]
          /\ f \in [Cassandra!Write -> Fates] /\ Honest(e, r)
      BY DEF CqInv, CqState
    <2>2. Contract(e, r, f, q)
      BY <2>1, StepsKeepContract DEF CqStep
    <2>3. /\ Sent(e) = [w \in Cassandra!Write |-> cql.effect[w] # "no"]
          /\ Took(e) = [w \in Cassandra!Write |-> cql.effect[w] = "done"]
          /\ Sent(f) = [w \in Cassandra!Write |-> cql'.effect[w] # "no"]
          /\ Took(f) = [w \in Cassandra!Write |-> cql'.effect[w] = "done"]
          /\ DOMAIN r = Cassandra!Write
      BY <2>1 DEF Sent, Took
    <2>4. CASE Sent(f) = Sent(e) /\ Took(f) = Took(e) /\ q = r
      BY <2>3, <2>4 DEF Cassandra!Statements!vars
    <2>5. ASSUME NEW w \in Cassandra!Write, r[w] = "none", ~Sent(e)[w],
                 Sent(f) = [Sent(e) EXCEPT ![w] = TRUE], Took(f) = Took(e), q = r
          PROVE  Cassandra!Statements!Send(w)
      BY <2>3, <2>5 DEF Cassandra!Statements!Send
    <2>6. ASSUME NEW w \in Cassandra!Write, Sent(e)[w], ~Took(e)[w], r[w] \in {"none", "Unknown"},
                 Took(f) = [Took(e) EXCEPT ![w] = TRUE], Sent(f) = Sent(e), q = r
          PROVE  Cassandra!Statements!TakeEffect(w)
      BY <2>3, <2>6 DEF Cassandra!Statements!TakeEffect
    <2>7. ASSUME NEW w \in Cassandra!Write, NEW outcome \in Told \ {"none"}, r[w] = "none",
                 outcome = "error" => ~Sent(e)[w], outcome = "Applied" => Took(e)[w],
                 outcome = "Rejected" => ~Took(e)[w],
                 q = [r EXCEPT ![w] = outcome], Sent(f) = Sent(e), Took(f) = Took(e)
          PROVE  Cassandra!Statements!Report(w, outcome)
      BY <2>3, <2>7 DEF Cassandra!Statements!Report
    <2>8. Told \ {"none"} = {"error", "Applied", "Rejected", "Unknown"}
      BY DEF Told
    <2>9. Contract(e, r, f, q) => \/ Sent(f) = Sent(e) /\ Took(f) = Took(e) /\ q = r
                                 \/ Cassandra!Statements!Next
      <3> HIDE DEF e, r, f, q
      <3> SUFFICES ASSUME NEW w \in DOMAIN r,
                          \/ Cassandra!Statements!Send(w) \/ Cassandra!Statements!TakeEffect(w)
                          \/ \E outcome \in Told \ {"none"} :
                                Cassandra!Statements!Report(w, outcome)
                   PROVE  Cassandra!Statements!Next
        BY <2>3, <2>5, <2>6, <2>7 DEF Contract
      <3>1. w \in Cassandra!Write
        BY <2>3
      <3> QED BY <2>8, <3>1 DEF Cassandra!Statements!Next
    <2> HIDE DEF e, r, f, q
    <2> QED BY <2>2, <2>4, <2>9
  <1>3. cql' = cql => [Cassandra!Statements!Next]_Cassandra!Statements!vars
    <2> SUFFICES ASSUME cql' = cql PROVE Cassandra!Statements!vars' = Cassandra!Statements!vars
      OBVIOUS
    <2> QED BY DEF Cassandra!Statements!vars
  <1> QED BY <1>1, <1>2, <1>3
-----------------------------------------------------------------------------
(* DynamoDB                                                                *)

DdPlace == {"idle", "lease", "connect", "dispatch", "sent", "page"}
DdTry == 0 .. MaxAttempt
DdOp == [kind : {"none", "page", "query", "statement", "check"}, at : DdPlace,
         statement : {0} \union DynamoDb!Statement, dispatched : BOOLEAN, completed : BOOLEAN,
         attempts : DdTry]
DdState == [client : BOOLEAN,
            status : {"Configured", "Connecting", "Connected", "Disconnected", "Closed"},
            closed : BOOLEAN, op : DdOp,
            effect : [DynamoDb!Statement -> Fates], report : [DynamoDb!Statement -> Told]]

(* The statement of the operation is not reported; it leaves once, and has *)
(* taken effect when its answer is made a page. Another attempt is only    *)
(* one of a page.                                                          *)
DdAsks(op, effect, report) ==
    /\ op.kind = "none" <=> op.at = "idle"
    /\ op.kind = "statement" <=> op.statement # 0
    /\ op.kind = "statement" /\ op.at \in {"sent", "page"} => op.dispatched
    /\ op.at \in {"idle", "lease", "connect"} => op.attempts = 0
    /\ op.at = "dispatch" => op.attempts < MaxAttempt
    /\ op.statement # 0 /\ op.at = "page" => effect[op.statement] = "done"
    /\ op.statement # 0 => report[op.statement] = "none"
    /\ \A w \in DOMAIN report :
          report[w] = "none" /\ effect[w] # "no" =>
             op.statement = w /\ op.at \in {"sent", "page"}

DdInv ==
    /\ ddb \in DdState
    /\ DdAsks(ddb.op, ddb.effect, ddb.report)
    /\ Honest(ddb.effect, ddb.report)

DdStep == StatementStep(ddb.effect, ddb.report, ddb'.effect, ddb'.report)

(* No statement is 0, and there is room for an attempt.                    *)
LEMMA DdWrites == 0 \notin DynamoDb!Statement /\ 0 \in DdTry /\ 0 < MaxAttempt
  BY ProvidersAssumption DEF ProvidersAssumption, DynamoDb!Statement, DdTry

(* Nothing is what an operation is before it begins and after its end.     *)
LEMMA DdNoOp ==
    /\ DynamoDb!NoOp \in DdOp /\ DynamoDb!NoOp.kind = "none" /\ DynamoDb!NoOp.at = "idle"
    /\ DynamoDb!NoOp.statement = 0 /\ DynamoDb!NoOp.attempts = 0
  BY DdWrites DEF DdOp, DdPlace, DynamoDb!NoOp

(* Nothing has been asked at first.                                        *)
LEMMA DdBegins == DynamoDb!Init => DdInv
  <1> SUFFICES ASSUME DynamoDb!Init PROVE DdInv
    OBVIOUS
  <1>1. ddb \in DdState /\ ddb.op = DynamoDb!NoOp
    BY DdNoOp DEF DynamoDb!Init, DdState, Fates, Told
  <1>2. DdAsks(ddb.op, ddb.effect, ddb.report) /\ Honest(ddb.effect, ddb.report)
    BY DdNoOp, <1>1 DEF DynamoDb!Init, DdAsks, Honest
  <1> QED BY <1>1, <1>2 DEF DdInv

(* An operation that is over is reported as it was.                        *)
LEMMA DdFinishes ==
    ASSUME DdInv, NEW outcome \in Told \ {"none"}, NEW state \in DdState,
           state.op = DynamoDb!NoOp, state.effect = ddb.effect, state.report = ddb.report,
           ddb' = DynamoDb!Reported(state, outcome),
           ddb.op.statement # 0 =>
              /\ outcome = "error" => ddb.effect[ddb.op.statement] = "no"
              /\ outcome = "Applied" => ddb.effect[ddb.op.statement] = "done"
              /\ outcome = "Rejected" => ddb.effect[ddb.op.statement] \in {"no", "refused"}
    PROVE  DdInv' /\ DdStep
  <1>1. /\ ddb.effect \in [DynamoDb!Statement -> Fates]
        /\ ddb.report \in [DynamoDb!Statement -> Told] /\ Honest(ddb.effect, ddb.report)
    BY DEF DdInv, DdState
  <1>2. /\ ddb' \in DdState /\ ddb'.op = DynamoDb!NoOp /\ ddb'.effect = ddb.effect
        /\ ddb'.report = IF ddb.op.statement = 0 THEN ddb.report
                         ELSE [ddb.report EXCEPT ![ddb.op.statement] = outcome]
    BY DEF DynamoDb!Reported, DynamoDb!W, DdState
  <1>3. DdStep
    <2>1. CASE ddb.op.statement = 0
      BY <1>2, <2>1 DEF DdStep, StatementStep
    <2>2. CASE ddb.op.statement # 0
      <3>1. ddb.op.statement \in DOMAIN ddb.report /\ ddb.report[ddb.op.statement] = "none"
        BY <2>2 DEF DdInv, DdState, DdOp, DdAsks
      <3>2. Reports(ddb.effect, ddb.report, ddb'.effect, ddb'.report)
        BY <1>2, <2>2, <3>1 DEF Reports
      <3> QED BY <3>2 DEF DdStep, StatementStep
    <2> QED BY <2>1, <2>2
  <1>4. Honest(ddb'.effect, ddb'.report)
    BY <1>1, <1>3, HonestKept DEF DdStep
  <1>5. DdAsks(ddb'.op, ddb'.effect, ddb'.report)
    <2>1. \A w \in DOMAIN ddb'.report :
             ~(ddb'.report[w] = "none" /\ ddb'.effect[w] # "no")
      BY <1>1, <1>2, DdWrites DEF DdInv, DdAsks
    <2> QED BY <1>2, <2>1, DdNoOp DEF DdAsks
  <1> QED BY <1>2, <1>3, <1>4, <1>5 DEF DdInv

(* The end of the lease is one, clean or not.                              *)
LEMMA DdEnds ==
    ASSUME DdInv, NEW outcome \in Told \ {"none"}, NEW clean \in BOOLEAN,
           ddb' = DynamoDb!Ends(clean, outcome),
           ddb.op.statement # 0 =>
              /\ outcome = "error" => ddb.effect[ddb.op.statement] = "no"
              /\ outcome = "Applied" => ddb.effect[ddb.op.statement] = "done"
              /\ outcome = "Rejected" => ddb.effect[ddb.op.statement] \in {"no", "refused"}
    PROVE  DdInv' /\ DdStep
  <1> DEFINE state == [ddb EXCEPT !.op = DynamoDb!NoOp, !.client = ddb.client /\ clean,
                         !.status = IF clean THEN "Connected" ELSE "Disconnected"]
  <1>1. ddb \in DdState
    BY DEF DdInv
  <1>2. (ddb.client /\ clean) \in BOOLEAN
    BY <1>1 DEF DdState
  <1>3. state \in DdState
    BY <1>1, <1>2, DdNoOp DEF DdState
  <1>4. state.op = DynamoDb!NoOp /\ state.effect = ddb.effect /\ state.report = ddb.report
    BY <1>1 DEF DdState
  <1>5. ddb' = DynamoDb!Reported(state, outcome)
    BY <1>1 DEF DynamoDb!Ends, DdState
  <1> HIDE DEF state
  <1> QED BY <1>3, <1>4, <1>5, DdFinishes

(* Every step of the executor.                                             *)
LEMMA DdSteps == DdInv /\ DynamoDb!Next => DdInv' /\ DdStep
  <1> SUFFICES ASSUME DdInv, DynamoDb!Next PROVE DdInv' /\ DdStep
    OBVIOUS
  <1>t. /\ ddb \in DdState /\ ddb.op \in DdOp
        /\ ddb.effect \in [DynamoDb!Statement -> Fates]
        /\ ddb.report \in [DynamoDb!Statement -> Told]
        /\ Honest(ddb.effect, ddb.report) /\ DdAsks(ddb.op, ddb.effect, ddb.report)
    BY DEF DdInv, DdState
  <1> USE DEF DynamoDb!At, DynamoDb!W
  <1>a. ASSUME ddb'.effect = ddb.effect, ddb'.report = ddb.report
        PROVE  DdStep /\ Honest(ddb'.effect, ddb'.report)
    BY <1>a, <1>t DEF DdStep, StatementStep
  (* The operation as a whole, of a step that sends nothing.               *)
  <1>m. ASSUME NEW op \in DdOp, ddb' \in DdState, ddb'.op = op,
               ddb'.effect = ddb.effect, ddb'.report = ddb.report,
               DdAsks(op, ddb.effect, ddb.report)
        PROVE  DdInv' /\ DdStep
    BY <1>a, <1>m DEF DdInv
  <1>1. CASE DynamoDb!Ask
    <2>0. ddb.op.kind = "none"
      BY <1>1 DEF DynamoDb!Ask, DynamoDb!Idle
    <2>b. ASSUME NEW op \in DdOp, ddb' = [ddb EXCEPT !.op = op], op.kind # "none",
                 op.at = "lease", op.kind = "statement" <=> op.statement # 0, op.attempts = 0,
                 op.statement # 0 =>
                    ddb.report[op.statement] = "none" /\ ddb.effect[op.statement] = "no"
          PROVE  DdInv' /\ DdStep
      <3>1. /\ ddb' \in DdState /\ ddb'.effect = ddb.effect /\ ddb'.report = ddb.report
            /\ ddb'.op = op
        BY <2>b, <1>t DEF DdState
      <3>2. DdAsks(op, ddb.effect, ddb.report)
        BY <2>b, <2>0, <1>t DEF DdAsks
      <3> QED BY <1>m, <3>1, <3>2
    <2>1. ASSUME NEW kind \in DynamoDb!Kind \ {"statement"},
                 ddb' = [ddb EXCEPT !.op = [DynamoDb!NoOp EXCEPT !.kind = kind, !.at = "lease"]]
          PROVE  DdInv' /\ DdStep
      <3> DEFINE op == [DynamoDb!NoOp EXCEPT !.kind = kind, !.at = "lease"]
      <3>1. /\ op \in DdOp /\ op.kind = kind /\ op.at = "lease" /\ op.statement = 0
            /\ op.attempts = 0
        BY DdNoOp DEF DynamoDb!Kind, DdOp, DdPlace
      <3> HIDE DEF op
      <3> QED BY <2>b, <2>1, <3>1 DEF op, DynamoDb!Kind
    <2>2. ASSUME NEW w \in DynamoDb!Statement, DynamoDb!Fresh(w),
                 ddb' = [ddb EXCEPT !.op = [DynamoDb!NoOp EXCEPT !.kind = "statement",
                                                    !.at = "lease", !.statement = w]]
          PROVE  DdInv' /\ DdStep
      <3> DEFINE op == [DynamoDb!NoOp EXCEPT !.kind = "statement", !.at = "lease",
                                             !.statement = w]
      <3>1. /\ op \in DdOp /\ op.kind = "statement" /\ op.at = "lease" /\ op.statement = w
            /\ op.attempts = 0
        BY DdNoOp DEF DdOp, DdPlace
      <3>2. w # 0 /\ ddb.report[w] = "none" /\ ddb.effect[w] = "no"
        BY <1>t, <2>0, <2>2, DdWrites DEF DynamoDb!Fresh, DdAsks
      <3>3. ddb' = [ddb EXCEPT !.op = op]
        BY <2>2
      <3> HIDE DEF op
      <3> QED BY <2>b, <3>1, <3>2, <3>3
    <2> QED BY <1>1, <2>1, <2>2 DEF DynamoDb!Ask
  <1>2. CASE DynamoDb!AskFails
    <2> DEFINE state == [ddb EXCEPT !.op = DynamoDb!NoOp]
    <2>1. ddb' = DynamoDb!Reported(state, "error") /\ ddb.op.at = "lease"
      BY <1>2 DEF DynamoDb!AskFails
    <2>2. /\ state \in DdState /\ state.op = DynamoDb!NoOp /\ state.effect = ddb.effect
          /\ state.report = ddb.report
      BY <1>t, DdNoOp DEF DdState
    <2>3. ddb.op.statement # 0 => ddb.effect[ddb.op.statement] = "no"
      BY <1>t, <2>1 DEF DdAsks, DdOp
    <2> HIDE DEF state
    <2> QED BY <2>1, <2>2, <2>3, DdFinishes DEF Told
  <1>3. CASE DynamoDb!Lease
    <2> DEFINE place == IF ddb.client THEN "dispatch" ELSE "connect"
               status == IF ddb.client THEN ddb.status ELSE "Connecting"
               op == [ddb.op EXCEPT !.at = place]
    <2>1. ddb.op.at = "lease" /\ ddb' = [ddb EXCEPT !.op.at = place, !.status = status]
      BY <1>3, <1>t DEF DynamoDb!Lease, DdState
    <2>2. place \in {"dispatch", "connect"} /\ status \in {"Connecting", ddb.status}
      OBVIOUS
    <2> HIDE DEF place, status
    <2>3. /\ op \in DdOp /\ op.at = place /\ op.kind = ddb.op.kind
          /\ op.statement = ddb.op.statement /\ op.attempts = ddb.op.attempts
      BY <1>t, <2>2 DEF DdOp, DdPlace
    <2>4. /\ ddb' \in DdState /\ ddb'.op = op /\ ddb'.effect = ddb.effect
          /\ ddb'.report = ddb.report
      BY <1>t, <2>1, <2>2, <2>3 DEF DdState
    <2> HIDE DEF op
    <2>5. DdAsks(op, ddb.effect, ddb.report)
      BY <1>t, <2>1, <2>2, <2>3, DdWrites DEF DdAsks
    <2> QED BY <1>m, <2>3, <2>4, <2>5
  <1>4. CASE DynamoDb!Connected
    <2> DEFINE op == [ddb.op EXCEPT !.at = "dispatch"]
    <2>1. ddb.op.at = "connect" /\ ddb' = [ddb EXCEPT !.client = TRUE, !.op.at = "dispatch"]
      BY <1>4 DEF DynamoDb!Connected
    <2>2. /\ op \in DdOp /\ op.at = "dispatch" /\ op.kind = ddb.op.kind
          /\ op.statement = ddb.op.statement /\ op.attempts = ddb.op.attempts
      BY <1>t DEF DdOp, DdPlace
    <2>3. /\ ddb' \in DdState /\ ddb'.op = op /\ ddb'.effect = ddb.effect
          /\ ddb'.report = ddb.report
      BY <1>t, <2>1, <2>2 DEF DdState
    <2> HIDE DEF op
    <2>4. DdAsks(op, ddb.effect, ddb.report)
      BY <1>t, <2>1, <2>2, DdWrites DEF DdAsks
    <2> QED BY <1>m, <2>2, <2>3, <2>4
  (* The client is kept after an error only of the editor's.               *)
  <1>k. ASSUME NEW outcome
        PROVE  \E clean \in BOOLEAN :
                  DynamoDb!EndsByItself(outcome) = DynamoDb!Ends(clean, outcome)
    <2> DEFINE clean == DynamoDb!OfEditor /\ ddb.client
    <2>1. clean = TRUE \/ clean = FALSE
      BY SMT
    <2>2. DynamoDb!EndsByItself(outcome) = DynamoDb!Ends(clean, outcome)
      BY DEF DynamoDb!EndsByItself
    <2> HIDE DEF clean
    <2> QED BY <2>1, <2>2
  <1>5. CASE DynamoDb!ConnectFails
    <2>1. /\ ddb' = DynamoDb!EndsByItself("error")
          /\ ddb.op.at \in {"connect", "dispatch"}
      BY <1>5 DEF DynamoDb!ConnectFails
    <2>2. ddb.op.statement # 0 => ddb.effect[ddb.op.statement] = "no"
      BY <1>t, <2>1 DEF DdAsks, DdOp
    <2> QED BY <1>k, <2>1, <2>2, DdEnds DEF Told
  <1>6. CASE DynamoDb!Send
    <2> DEFINE flag == DynamoDb!OfEditor
               op == [ddb.op EXCEPT !.at = "sent", !.dispatched = flag,
                                    !.attempts = ddb.op.attempts + 1]
               effect == IF ddb.op.statement = 0 THEN ddb.effect
                         ELSE [ddb.effect EXCEPT ![ddb.op.statement] = "running"]
    <2>1. /\ ddb.op.at = "dispatch"
          /\ ddb' = [ddb EXCEPT !.op.at = "sent", !.op.dispatched = flag, !.op.attempts = @ + 1,
                                !.effect = effect]
      BY <1>6, <1>t DEF DynamoDb!Send, DdState
    <2>2. flag = TRUE \/ flag = FALSE
      BY SMT DEF DynamoDb!OfEditor
    <2>3. ddb.op.kind = "statement" => flag
      BY DEF DynamoDb!OfEditor
    <2>4. ddb.op.attempts + 1 \in DdTry
      BY <1>t, <2>1, ProvidersAssumption DEF ProvidersAssumption, DdAsks, DdOp, DdTry
    <2> HIDE DEF flag
    <2>5. /\ op \in DdOp /\ op.at = "sent" /\ op.kind = ddb.op.kind
          /\ op.statement = ddb.op.statement /\ (op.dispatched <=> flag)
      <3>1. flag \in BOOLEAN
        BY <2>2
      <3> QED BY <1>t, <2>4, <3>1 DEF DdOp, DdPlace
    <2>6. effect \in [DynamoDb!Statement -> Fates]
      BY <1>t DEF Fates
    <2>7. /\ ddb' \in DdState /\ ddb'.op = op /\ ddb'.effect = effect
          /\ ddb'.report = ddb.report
      <3> HIDE DEF effect
      <3>1. ddb' = [ddb EXCEPT !.op = op, !.effect = effect]
        BY <1>t, <2>1 DEF DdState, DdOp
      <3> HIDE DEF op
      <3> QED BY <1>t, <2>5, <2>6, <3>1 DEF DdState
    <2> HIDE DEF op
    <2>8. ddb.op.statement # 0 => /\ ddb.op.statement \in DynamoDb!Statement
                                  /\ ddb.effect[ddb.op.statement] = "no"
                                  /\ ddb.report[ddb.op.statement] = "none"
      BY <1>t, <2>1 DEF DdAsks, DdOp
    <2>9. DdStep
      <3>1. CASE ddb.op.statement = 0
        BY <2>7, <3>1 DEF DdStep, StatementStep
      <3>2. CASE ddb.op.statement # 0
        <4>1. Sends(ddb.effect, ddb.report, ddb'.effect, ddb'.report)
          BY <2>7, <2>8, <3>2, <1>t DEF Sends
        <4> QED BY <4>1 DEF DdStep, StatementStep
      <3> QED BY <3>1, <3>2
    <2>10. Honest(ddb'.effect, ddb'.report)
      BY <1>t, <2>9, HonestKept DEF DdStep
    <2>11. DdAsks(op, effect, ddb.report)
      BY <1>t, <2>1, <2>3, <2>5, <2>8 DEF DdAsks
    <2> HIDE DEF effect
    <2> QED BY <2>5, <2>7, <2>9, <2>10, <2>11 DEF DdInv
  <1>7. CASE DynamoDb!Retries
    <2> DEFINE op == [ddb.op EXCEPT !.at = "dispatch"]
    <2>1. /\ ddb.op.at = "sent" /\ ddb' = [ddb EXCEPT !.op.at = "dispatch"]
          /\ ddb.op.attempts < MaxAttempt /\ ddb.op.statement = 0
      BY <1>7, <1>t DEF DynamoDb!Retries, DynamoDb!OfEditor, DdAsks
    <2>2. /\ op \in DdOp /\ op.at = "dispatch" /\ op.kind = ddb.op.kind
          /\ op.statement = ddb.op.statement /\ op.attempts = ddb.op.attempts
      BY <1>t DEF DdOp, DdPlace
    <2>3. /\ ddb' \in DdState /\ ddb'.op = op /\ ddb'.effect = ddb.effect
          /\ ddb'.report = ddb.report
      BY <1>t, <2>1, <2>2 DEF DdState
    <2> HIDE DEF op
    <2>4. DdAsks(op, ddb.effect, ddb.report)
      BY <1>t, <2>1, <2>2, DdWrites DEF DdAsks, DdState
    <2> QED BY <1>m, <2>2, <2>3, <2>4
  <1>8. CASE DynamoDb!SendFails
    <2>1. PICK ending \in DynamoDb!Answer :
             DynamoDb!Possible(ending) /\ ddb' = DynamoDb!EndsByItself(DynamoDb!Class(ending))
      BY <1>8 DEF DynamoDb!SendFails
    <2>2. /\ DynamoDb!Class(ending) \in {"Unknown", "Rejected"}
          /\ DynamoDb!Class(ending) = "Rejected" => ending = "4xx"
      BY DEF DynamoDb!Class, DynamoDb!Answer
    <2>3. ddb.op.statement # 0 /\ ending = "4xx" => ddb.effect[ddb.op.statement] = "refused"
      BY <2>1 DEF DynamoDb!Possible
    <2> QED BY <1>k, <2>1, <2>2, <2>3, DdEnds DEF Told
  <1>9. CASE DynamoDb!Answered
    <2> DEFINE flag == ddb.op.statement # 0
               op == [ddb.op EXCEPT !.at = "page", !.completed = flag]
    <2>1. /\ ddb.op.at = "sent" /\ ddb' = [ddb EXCEPT !.op.at = "page", !.op.completed = flag]
          /\ ddb.op.statement # 0 => ddb.effect[ddb.op.statement] = "done"
      BY <1>9 DEF DynamoDb!Answered, DynamoDb!Possible
    <2>2. flag = TRUE \/ flag = FALSE
      BY SMT
    <2> HIDE DEF flag
    <2>3. /\ op \in DdOp /\ op.at = "page" /\ op.kind = ddb.op.kind
          /\ op.statement = ddb.op.statement /\ op.dispatched = ddb.op.dispatched
      <3>1. flag \in BOOLEAN
        BY <2>2
      <3> QED BY <1>t, <3>1 DEF DdOp, DdPlace
    <2>4. /\ ddb' \in DdState /\ ddb'.op = op /\ ddb'.effect = ddb.effect
          /\ ddb'.report = ddb.report
      <3>1. ddb' = [ddb EXCEPT !.op = op]
        BY <1>t, <2>1 DEF DdState, DdOp
      <3> HIDE DEF op
      <3> QED BY <1>t, <2>3, <3>1 DEF DdState
    <2> HIDE DEF op
    <2>5. DdAsks(op, ddb.effect, ddb.report)
      BY <1>t, <2>1, <2>3 DEF DdAsks
    <2> QED BY <1>m, <2>3, <2>4, <2>5
  <1>10. CASE DynamoDb!PageEnds
    <2>1. /\ ddb' = DynamoDb!Ends(TRUE, "Applied")
          /\ ddb.op.statement # 0 => ddb.effect[ddb.op.statement] = "done"
      BY <1>10, <1>t DEF DynamoDb!PageEnds, DdAsks
    <2> QED BY <2>1, DdEnds DEF Told
  <1>11. CASE DynamoDb!PageFails
    BY <1>11, <1>k, DdEnds DEF DynamoDb!PageFails, Told
  <1>12. CASE DynamoDb!Interrupted
    <2> DEFINE outcome == IF ddb.op.dispatched \/ ddb.op.completed THEN "Unknown" ELSE "error"
    <2>1. ddb' = DynamoDb!Ends(FALSE, outcome)
      BY <1>12 DEF DynamoDb!Interrupted
    <2>2. /\ outcome \in Told \ {"none", "Applied", "Rejected"}
          /\ ddb.op.statement # 0 /\ outcome = "error" => ddb.effect[ddb.op.statement] = "no"
      BY <1>t DEF Told, DdAsks, DdOp
    <2> HIDE DEF outcome
    <2> QED BY <2>1, <2>2, DdEnds
  <1>13. CASE DynamoDb!Run
    <2>1. PICK w \in DynamoDb!Statement, made \in {"done", "refused"} :
             ddb.effect[w] = "running" /\ ddb' = [ddb EXCEPT !.effect[w] = made]
      BY <1>13 DEF DynamoDb!Run
    <2>2. /\ ddb' \in DdState /\ ddb'.report = ddb.report /\ ddb'.op = ddb.op
          /\ ddb'.effect = [ddb.effect EXCEPT ![w] = made]
      BY <2>1, <1>t DEF DdState, Fates
    <2>3. ddb.report[w] # "error" /\ w \in DOMAIN ddb.report
      BY <2>1, <1>t DEF Honest
    <2>4. Decides(ddb.effect, ddb.report, ddb'.effect, ddb'.report)
      BY <2>1, <2>2, <2>3 DEF Decides
    <2>5. DdStep /\ Honest(ddb'.effect, ddb'.report)
      BY <1>t, <2>4, HonestKept DEF DdStep, StatementStep
    <2>6. DdAsks(ddb.op, ddb'.effect, ddb'.report)
      BY <1>t, <2>1, <2>2 DEF DdAsks
    <2> QED BY <1>t, <2>2, <2>5, <2>6 DEF DdInv
  <1>14. CASE DynamoDb!Shutdown
    <2>1. /\ ddb' \in DdState /\ ddb'.effect = ddb.effect /\ ddb'.report = ddb.report
          /\ ddb'.op = ddb.op
      BY <1>14, <1>t DEF DynamoDb!Shutdown, DdState
    <2> QED BY <1>m, <1>t, <2>1
  <1>15. CASE DynamoDb!Done
    <2>1. ddb' = ddb
      BY <1>15 DEF DynamoDb!Done
    <2> QED BY <1>m, <1>t, <2>1
  <1> QED
    BY <1>1, <1>2, <1>3, <1>4, <1>5, <1>6, <1>7, <1>8, <1>9, <1>10, <1>11, <1>12, <1>13,
       <1>14, <1>15 DEF DynamoDb!Next, DynamoDb!Progress

(* The reports of DynamoDB begin as WriteOutcome does, and go on so.       *)
LEMMA DdOutcomes ==
    /\ DynamoDb!Init => DynamoDb!Statements!Init
    /\ DdInv /\ DdStep /\ DdInv' => [DynamoDb!Statements!Next]_DynamoDb!Statements!vars
    /\ ddb' = ddb => [DynamoDb!Statements!Next]_DynamoDb!Statements!vars
  <1>1. DynamoDb!Init => DynamoDb!Statements!Init
    <2> SUFFICES ASSUME DynamoDb!Init PROVE DynamoDb!Statements!Init
      OBVIOUS
    <2> DEFINE outcome == ddb.effect
               told == ddb.report
    <2>1. /\ outcome = [w \in DynamoDb!Statement |-> "no"] /\ told = [w \in DynamoDb!Statement |-> "none"]
      BY DEF DynamoDb!Init
    <2> HIDE DEF outcome, told
    <2>2. /\ [w \in DynamoDb!Statement |-> outcome[w] # "no"] = [w \in DynamoDb!Statement |-> FALSE]
          /\ [w \in DynamoDb!Statement |-> outcome[w] = "done"] = [w \in DynamoDb!Statement |-> FALSE]
      BY <2>1
    <2> QED BY <2>1, <2>2 DEF DynamoDb!Statements!Init, outcome, told
  <1>2. DdInv /\ DdStep /\ DdInv' => [DynamoDb!Statements!Next]_DynamoDb!Statements!vars
    <2> SUFFICES ASSUME DdInv, DdStep, DdInv'
                 PROVE  [DynamoDb!Statements!Next]_DynamoDb!Statements!vars
      OBVIOUS
    <2> DEFINE e == ddb.effect
               r == ddb.report
               f == ddb'.effect
               q == ddb'.report
    <2>1. /\ e \in [DynamoDb!Statement -> Fates] /\ r \in [DynamoDb!Statement -> Told]
          /\ f \in [DynamoDb!Statement -> Fates] /\ Honest(e, r)
      BY DEF DdInv, DdState
    <2>2. Contract(e, r, f, q)
      BY <2>1, StepsKeepContract DEF DdStep
    <2>3. /\ Sent(e) = [w \in DynamoDb!Statement |-> ddb.effect[w] # "no"]
          /\ Took(e) = [w \in DynamoDb!Statement |-> ddb.effect[w] = "done"]
          /\ Sent(f) = [w \in DynamoDb!Statement |-> ddb'.effect[w] # "no"]
          /\ Took(f) = [w \in DynamoDb!Statement |-> ddb'.effect[w] = "done"]
          /\ DOMAIN r = DynamoDb!Statement
      BY <2>1 DEF Sent, Took
    <2>4. CASE Sent(f) = Sent(e) /\ Took(f) = Took(e) /\ q = r
      BY <2>3, <2>4 DEF DynamoDb!Statements!vars
    <2>5. ASSUME NEW w \in DynamoDb!Statement, r[w] = "none", ~Sent(e)[w],
                 Sent(f) = [Sent(e) EXCEPT ![w] = TRUE], Took(f) = Took(e), q = r
          PROVE  DynamoDb!Statements!Send(w)
      BY <2>3, <2>5 DEF DynamoDb!Statements!Send
    <2>6. ASSUME NEW w \in DynamoDb!Statement, Sent(e)[w], ~Took(e)[w], r[w] \in {"none", "Unknown"},
                 Took(f) = [Took(e) EXCEPT ![w] = TRUE], Sent(f) = Sent(e), q = r
          PROVE  DynamoDb!Statements!TakeEffect(w)
      BY <2>3, <2>6 DEF DynamoDb!Statements!TakeEffect
    <2>7. ASSUME NEW w \in DynamoDb!Statement, NEW outcome \in Told \ {"none"}, r[w] = "none",
                 outcome = "error" => ~Sent(e)[w], outcome = "Applied" => Took(e)[w],
                 outcome = "Rejected" => ~Took(e)[w],
                 q = [r EXCEPT ![w] = outcome], Sent(f) = Sent(e), Took(f) = Took(e)
          PROVE  DynamoDb!Statements!Report(w, outcome)
      BY <2>3, <2>7 DEF DynamoDb!Statements!Report
    <2>8. Told \ {"none"} = {"error", "Applied", "Rejected", "Unknown"}
      BY DEF Told
    <2>9. Contract(e, r, f, q) => \/ Sent(f) = Sent(e) /\ Took(f) = Took(e) /\ q = r
                                 \/ DynamoDb!Statements!Next
      <3> HIDE DEF e, r, f, q
      <3> SUFFICES ASSUME NEW w \in DOMAIN r,
                          \/ DynamoDb!Statements!Send(w) \/ DynamoDb!Statements!TakeEffect(w)
                          \/ \E outcome \in Told \ {"none"} :
                                DynamoDb!Statements!Report(w, outcome)
                   PROVE  DynamoDb!Statements!Next
        BY <2>3, <2>5, <2>6, <2>7 DEF Contract
      <3>1. w \in DynamoDb!Statement
        BY <2>3
      <3> QED BY <2>8, <3>1 DEF DynamoDb!Statements!Next
    <2> HIDE DEF e, r, f, q
    <2> QED BY <2>2, <2>4, <2>9
  <1>3. ddb' = ddb => [DynamoDb!Statements!Next]_DynamoDb!Statements!vars
    <2> SUFFICES ASSUME ddb' = ddb PROVE DynamoDb!Statements!vars' = DynamoDb!Statements!vars
      OBVIOUS
    <2> QED BY DEF DynamoDb!Statements!vars
  <1> QED BY <1>1, <1>2, <1>3
-----------------------------------------------------------------------------
(* RabbitMQ                                                                *)

MqPlace == {"idle", "lease", "setup", "thread", "ready", "sent"}
MqOp == [kind : {"none", "page", "get", "raw", "write"}, at : MqPlace,
         write : {0} \union RabbitMq!Write, dispatched : BOOLEAN]
MqState == [client : {"none", "free", "busy"},
            status : {"Configured", "Connecting", "Connected", "Disconnected", "Closed"},
            closed : BOOLEAN, slot : {"free", "mine", "other"}, op : MqOp,
            effect : [RabbitMq!Write -> Fates], report : [RabbitMq!Write -> Told]]

(* The statement of the operation is not reported, and has left only while *)
(* the answer to its request is awaited.                                   *)
MqAsks(op, effect, report) ==
    /\ op.kind = "none" <=> op.at = "idle"
    /\ op.kind = "write" <=> op.write # 0
    /\ op.dispatched <=> (op.at = "sent" /\ op.kind # "page")
    /\ op.write # 0 => report[op.write] = "none"
    /\ \A w \in DOMAIN report :
          report[w] = "none" /\ effect[w] # "no" => op.write = w /\ op.at = "sent"

(* A client is busy, and the slot taken, only for the operation.           *)
MqHeld(client, permit, op) ==
    /\ client = "busy" => op.at = "sent"
    /\ permit = "mine" <=> op.at = "thread"

MqInv ==
    /\ mq \in MqState
    /\ MqAsks(mq.op, mq.effect, mq.report)
    /\ MqHeld(mq.client, mq.slot, mq.op)
    /\ Honest(mq.effect, mq.report)

MqStep == StatementStep(mq.effect, mq.report, mq'.effect, mq'.report)

(* No statement is 0.                                                      *)
LEMMA MqWrites == 0 \notin RabbitMq!Write
  BY DEF RabbitMq!Write

(* Nothing has been asked at first.                                        *)
LEMMA MqBegins == RabbitMq!Init => MqInv
  BY MqWrites DEF RabbitMq!Init, RabbitMq!NoOp, MqInv, MqState, MqOp, MqPlace, MqAsks, MqHeld,
                  Honest, Fates, Told

(* An operation that is over leaves no request, and its report is true.    *)
LEMMA MqFinishes ==
    ASSUME MqInv, NEW outcome \in Told \ {"none"},
           mq' \in MqState, mq'.op = RabbitMq!NoOp,
           mq'.client # "busy", mq'.slot # "mine", mq'.effect = mq.effect,
           mq'.report = IF mq.op.write = 0 THEN mq.report
                        ELSE [mq.report EXCEPT ![mq.op.write] = outcome],
           mq.op.write # 0 =>
              /\ outcome = "error" => mq.effect[mq.op.write] = "no"
              /\ outcome = "Applied" => mq.effect[mq.op.write] = "done"
              /\ outcome = "Rejected" => mq.effect[mq.op.write] \in {"no", "refused"}
    PROVE  MqInv' /\ MqStep
  <1>1. mq.effect \in [RabbitMq!Write -> Fates] /\ mq.report \in [RabbitMq!Write -> Told]
        /\ Honest(mq.effect, mq.report)
    BY DEF MqInv, MqState
  <1>2. MqStep
    <2>1. CASE mq.op.write = 0
      BY <2>1 DEF MqStep, StatementStep
    <2>2. CASE mq.op.write # 0
      <3>1. mq.op.write \in DOMAIN mq.report /\ mq.report[mq.op.write] = "none"
        BY <2>2 DEF MqInv, MqState, MqOp, MqAsks
      <3>2. Reports(mq.effect, mq.report, mq'.effect, mq'.report)
        BY <2>2, <3>1 DEF Reports
      <3> QED BY <3>2 DEF MqStep, StatementStep
    <2> QED BY <2>1, <2>2
  <1>3. Honest(mq'.effect, mq'.report)
    BY <1>1, <1>2, HonestKept DEF MqStep
  <1>4. MqAsks(mq'.op, mq'.effect, mq'.report) /\ MqHeld(mq'.client, mq'.slot, mq'.op)
    <2>1. mq'.op.kind = "none" /\ mq'.op.at = "idle" /\ mq'.op.write = 0 /\ ~mq'.op.dispatched
      BY DEF RabbitMq!NoOp
    <2>2. \A w \in DOMAIN mq'.report :
             ~(mq'.report[w] = "none" /\ mq'.effect[w] # "no")
      BY <1>1, MqWrites DEF MqInv, MqAsks
    <2> QED BY <2>1, <2>2 DEF MqAsks, MqHeld
  <1> QED BY <1>2, <1>3, <1>4 DEF MqInv

(* Every step of the executor.                                             *)
LEMMA MqSteps == MqInv /\ RabbitMq!Next => MqInv' /\ MqStep
  <1> SUFFICES ASSUME MqInv, RabbitMq!Next PROVE MqInv' /\ MqStep
    OBVIOUS
  <1>t. /\ mq \in MqState /\ mq.op \in MqOp
        /\ mq.effect \in [RabbitMq!Write -> Fates] /\ mq.report \in [RabbitMq!Write -> Told]
        /\ Honest(mq.effect, mq.report) /\ MqAsks(mq.op, mq.effect, mq.report)
        /\ MqHeld(mq.client, mq.slot, mq.op)
    BY DEF MqInv, MqState
  <1> USE DEF RabbitMq!At, RabbitMq!W
  <1>a. ASSUME mq'.effect = mq.effect, mq'.report = mq.report
        PROVE  MqStep /\ Honest(mq'.effect, mq'.report)
    BY <1>a, <1>t DEF MqStep, StatementStep
  <1>b. ASSUME NEW kind \in {"page", "get", "raw", "write"},
               NEW w \in {0} \union RabbitMq!Write,
               mq.op.kind = "none", kind = "write" <=> w # 0,
               w # 0 => mq.report[w] = "none" /\ mq.effect[w] = "no",
               mq' = [mq EXCEPT !.op = [kind |-> kind, at |-> "lease", write |-> w,
                                        dispatched |-> FALSE]]
        PROVE  MqInv' /\ MqStep
    <2>1. /\ mq' \in MqState /\ mq'.effect = mq.effect /\ mq'.report = mq.report
          /\ mq'.client = mq.client /\ mq'.slot = mq.slot
          /\ mq'.op = [kind |-> kind, at |-> "lease", write |-> w, dispatched |-> FALSE]
      BY <1>b, <1>t DEF MqState, MqOp, MqPlace
    <2>2. MqAsks(mq'.op, mq'.effect, mq'.report)
      BY <1>b, <1>t, <2>1 DEF MqAsks
    <2>3. MqHeld(mq'.client, mq'.slot, mq'.op)
      BY <1>b, <1>t, <2>1 DEF MqAsks, MqHeld
    <2> QED BY <1>a, <2>1, <2>2, <2>3 DEF MqInv
  <1>1. CASE RabbitMq!Ask
    <2>1. CASE \E kind \in RabbitMq!Kind \ {"write"} :
                  mq' = [mq EXCEPT !.op = [RabbitMq!NoOp EXCEPT !.kind = kind, !.at = "lease"]]
      BY <1>1, <1>b, <2>1, ZenonT(60) DEF RabbitMq!Ask, RabbitMq!Idle, RabbitMq!Kind, RabbitMq!NoOp
    <2>2. CASE \E w \in RabbitMq!Write :
                  /\ RabbitMq!Fresh(w)
                  /\ mq' = [mq EXCEPT !.op = [RabbitMq!NoOp EXCEPT !.kind = "write",
                                                    !.at = "lease", !.write = w]]
      <3>1. PICK w \in RabbitMq!Write :
               /\ mq.report[w] = "none"
               /\ mq' = [mq EXCEPT !.op = [kind |-> "write", at |-> "lease", write |-> w,
                                           dispatched |-> FALSE]]
        BY <2>2, ZenonT(60) DEF RabbitMq!Fresh, RabbitMq!NoOp
      <3>2. w # 0 /\ mq.op.kind = "none" /\ mq.effect[w] = "no"
        BY <1>1, <1>t, <3>1, MqWrites DEF RabbitMq!Ask, RabbitMq!Idle, MqAsks
      <3> QED BY <1>b, <3>1, <3>2
    <2> QED BY <1>1, <2>1, <2>2 DEF RabbitMq!Ask
  <1>2. CASE RabbitMq!AskFails
    <2>1. /\ mq' \in MqState /\ mq'.op = RabbitMq!NoOp
          /\ mq'.client # "busy" /\ mq'.slot # "mine" /\ mq'.effect = mq.effect
          /\ mq'.report = IF mq.op.write = 0 THEN mq.report
                          ELSE [mq.report EXCEPT ![mq.op.write] = "error"]
      BY <1>2, <1>t, MqWrites DEF RabbitMq!AskFails, RabbitMq!Reported, RabbitMq!NoOp, MqState, MqOp,
                        MqPlace, MqHeld, Told
    <2>2. mq.op.write # 0 => mq.effect[mq.op.write] = "no"
      BY <1>2, <1>t DEF RabbitMq!AskFails, MqAsks, MqOp, MqState
    <2> QED BY <2>1, <2>2, MqFinishes DEF Told
  <1>3. CASE RabbitMq!Lease
    <2>1. /\ mq' \in MqState /\ mq'.effect = mq.effect /\ mq'.report = mq.report
          /\ mq'.client = mq.client /\ mq'.slot = mq.slot
          /\ mq'.op.at \in {"setup", "ready"} /\ mq'.op.kind = mq.op.kind
          /\ mq'.op.write = mq.op.write /\ mq'.op.dispatched = mq.op.dispatched
          /\ mq.op.at = "lease"
      BY <1>3, <1>t DEF RabbitMq!Lease, MqState, MqOp, MqPlace
    <2>2. MqAsks(mq'.op, mq'.effect, mq'.report)
      BY <1>t, <2>1 DEF MqAsks
    <2>3. MqHeld(mq'.client, mq'.slot, mq'.op)
      BY <1>t, <2>1 DEF MqHeld
    <2> QED BY <1>a, <2>1, <2>2, <2>3 DEF MqInv
  <1>4. CASE RabbitMq!Acquire
    <2>1. /\ mq' \in MqState /\ mq'.effect = mq.effect /\ mq'.report = mq.report
          /\ mq'.client = mq.client /\ mq'.slot = "mine"
          /\ mq'.op.at = "thread" /\ mq'.op.kind = mq.op.kind
          /\ mq'.op.write = mq.op.write /\ mq'.op.dispatched = mq.op.dispatched
          /\ mq.op.at = "setup"
      BY <1>4, <1>t DEF RabbitMq!Acquire, MqState, MqOp, MqPlace
    <2>2. MqAsks(mq'.op, mq'.effect, mq'.report)
      BY <1>t, <2>1 DEF MqAsks
    <2>3. MqHeld(mq'.client, mq'.slot, mq'.op)
      BY <1>t, <2>1 DEF MqHeld
    <2> QED BY <1>a, <2>1, <2>2, <2>3 DEF MqInv
  <1>5. CASE RabbitMq!Prepared
    <2>1. /\ mq' \in MqState /\ mq'.effect = mq.effect /\ mq'.report = mq.report
          /\ mq'.client = "free" /\ mq'.slot = "free"
          /\ mq'.op.at = "ready" /\ mq'.op.kind = mq.op.kind
          /\ mq'.op.write = mq.op.write /\ mq'.op.dispatched = mq.op.dispatched
          /\ mq.op.at = "thread"
      BY <1>5, <1>t DEF RabbitMq!Prepared, MqState, MqOp, MqPlace
    <2>2. MqAsks(mq'.op, mq'.effect, mq'.report)
      BY <1>t, <2>1 DEF MqAsks
    <2>3. MqHeld(mq'.client, mq'.slot, mq'.op)
      BY <1>t, <2>1 DEF MqHeld
    <2> QED BY <1>a, <2>1, <2>2, <2>3 DEF MqInv
  <1>c. ASSUME NEW clean \in BOOLEAN, NEW outcome \in Told \ {"none"}, NEW permit \in {"free", "mine", "other"},
               mq' = [RabbitMq!Ends(clean, outcome) EXCEPT !.slot = permit]
        PROVE  /\ mq' \in MqState /\ mq'.op = RabbitMq!NoOp
               /\ mq'.client # "busy" /\ mq'.slot = permit /\ mq'.effect = mq.effect
               /\ mq'.report = IF mq.op.write = 0 THEN mq.report
                               ELSE [mq.report EXCEPT ![mq.op.write] = outcome]
    BY <1>c, <1>t, MqWrites, ZenonT(60)
       DEF RabbitMq!Ends, RabbitMq!Reported, RabbitMq!NoOp, MqState, MqOp, MqPlace
  <1>6. CASE RabbitMq!PrepareFails
    <2>1. mq.op.write # 0 => mq.effect[mq.op.write] = "no"
      BY <1>6, <1>t DEF RabbitMq!PrepareFails, MqAsks, MqOp, MqState
    <2> QED BY <1>6, <1>c, <2>1, MqFinishes DEF RabbitMq!PrepareFails, Told
  <1>7. CASE RabbitMq!OtherTakes
    <2>1. /\ mq' \in MqState /\ mq'.effect = mq.effect /\ mq'.report = mq.report
          /\ mq'.client = mq.client /\ mq.slot = "free" /\ mq'.slot = "other" /\ mq'.op = mq.op
      BY <1>7, <1>t DEF RabbitMq!OtherTakes, MqState
    <2>2. MqHeld(mq'.client, mq'.slot, mq'.op)
      BY <1>t, <2>1 DEF MqHeld
    <2> QED BY <1>a, <1>t, <2>1, <2>2 DEF MqInv
  <1>8. CASE RabbitMq!OtherEnds
    <2>1. /\ mq' \in MqState /\ mq'.effect = mq.effect /\ mq'.report = mq.report
          /\ mq'.client = mq.client /\ mq.slot = "other" /\ mq'.slot = "free" /\ mq'.op = mq.op
      BY <1>8, <1>t DEF RabbitMq!OtherEnds, MqState
    <2>2. MqHeld(mq'.client, mq'.slot, mq'.op)
      BY <1>t, <2>1 DEF MqHeld
    <2> QED BY <1>a, <1>t, <2>1, <2>2 DEF MqInv
  <1>9. CASE RabbitMq!Send
    <2>1. /\ mq.op.at = "ready" /\ mq.op.kind # "none"
          /\ mq.op.write # 0 => mq.op.write \in RabbitMq!Write
          /\ mq.op.write # 0 => mq.effect[mq.op.write] = "no" /\ mq.report[mq.op.write] = "none"
      BY <1>9, <1>t DEF RabbitMq!Send, MqAsks, MqOp, MqState
    <2>2. /\ mq' \in MqState /\ mq'.report = mq.report
          /\ mq'.client = "busy" /\ mq'.slot = mq.slot
          /\ mq'.op = [mq.op EXCEPT !.at = "sent", !.dispatched = mq.op.kind # "page"]
          /\ mq'.effect = IF mq.op.write = 0 THEN mq.effect
                          ELSE [mq.effect EXCEPT ![mq.op.write] = "running"]
      BY <1>9, <1>t, <2>1, ZenonT(60)
         DEF RabbitMq!Send, RabbitMq!OfEditor, MqState, MqOp, MqPlace, Fates
    <2>3. MqStep
      <3>1. CASE mq.op.write = 0
        BY <2>2, <3>1 DEF MqStep, StatementStep
      <3>2. CASE mq.op.write # 0
        <4>1. Sends(mq.effect, mq.report, mq'.effect, mq'.report)
          BY <2>1, <2>2, <3>2, <1>t DEF Sends
        <4> QED BY <4>1 DEF MqStep, StatementStep
      <3> QED BY <3>1, <3>2
    <2>4. Honest(mq'.effect, mq'.report)
      BY <1>t, <2>3, HonestKept DEF MqStep
    <2>5. /\ mq'.op.at = "sent" /\ mq'.op.kind = mq.op.kind /\ mq'.op.write = mq.op.write
          /\ mq'.op.dispatched <=> mq.op.kind # "page"
      BY <1>t, <2>2 DEF MqOp
    <2>6. MqAsks(mq'.op, mq'.effect, mq'.report)
      BY <1>t, <2>1, <2>2, <2>5 DEF MqAsks
    <2>7. MqHeld(mq'.client, mq'.slot, mq'.op)
      BY <1>t, <2>1, <2>2, <2>5 DEF MqHeld
    <2> QED BY <2>2, <2>3, <2>4, <2>6, <2>7 DEF MqInv
  <1>10. CASE RabbitMq!Answered
    <2>1. PICK success \in BOOLEAN :
             /\ RabbitMq!Possible(success)
             /\ mq' = RabbitMq!Ends(RabbitMq!OfEditor \/ success,
                                    IF success THEN "Applied" ELSE "Rejected")
      BY <1>10 DEF RabbitMq!Answered
    <2>2. mq.slot # "mine"
      BY <1>10, <1>t DEF RabbitMq!Answered, MqHeld
    <2> DEFINE clean == RabbitMq!OfEditor \/ success
               outcome == IF success THEN "Applied" ELSE "Rejected"
    <2>3. clean \in BOOLEAN /\ outcome \in Told \ {"none"} /\ mq.slot \in {"free", "mine", "other"}
      BY <1>t DEF RabbitMq!OfEditor, Told, MqState
    <2>4. mq' = [RabbitMq!Ends(clean, outcome) EXCEPT !.slot = mq.slot]
      BY <2>1, <1>t DEF RabbitMq!Ends, RabbitMq!Reported, MqState
    <2>5. mq.op.write # 0 =>
              /\ outcome = "error" => mq.effect[mq.op.write] = "no"
              /\ outcome = "Applied" => mq.effect[mq.op.write] = "done"
              /\ outcome = "Rejected" => mq.effect[mq.op.write] \in {"no", "refused"}
      BY <2>1 DEF RabbitMq!Possible
    <2> HIDE DEF clean, outcome
    <2> QED BY <1>c, <2>2, <2>3, <2>4, <2>5, MqFinishes
  <1> DEFINE doubt == IF mq.op.dispatched /\ ~RabbitMq!Reads THEN "Unknown" ELSE "error"
  <1>d. doubt \in Told \ {"none"}
    BY DEF Told
  <1>e. mq.op.write # 0 =>
              /\ doubt = "error" => mq.effect[mq.op.write] = "no"
              /\ doubt # "Applied" /\ doubt # "Rejected"
    BY <1>t DEF MqAsks, MqOp, MqState, RabbitMq!Reads
  <1>11. CASE RabbitMq!Lost
    <2>1. mq' = RabbitMq!Ends(FALSE, doubt) /\ mq.op.at = "sent"
      BY <1>11 DEF RabbitMq!Lost
    <2> HIDE DEF doubt
    <2>2. mq' = [RabbitMq!Ends(FALSE, doubt) EXCEPT !.slot = mq.slot]
      BY <2>1, <1>t DEF RabbitMq!Ends, RabbitMq!Reported, MqState
    <2>3. mq.slot # "mine" /\ mq.slot \in {"free", "mine", "other"}
      BY <2>1, <1>t DEF MqHeld, MqState
    <2> QED BY <1>c, <1>d, <1>e, <2>2, <2>3, MqFinishes
  <1>12. CASE RabbitMq!Interrupted
    <2> DEFINE permit == IF mq.op.at = "thread" THEN "other" ELSE mq.slot
    <2>1. mq' = [RabbitMq!Ends(FALSE, doubt) EXCEPT !.slot = IF mq.op.at = "thread" THEN "other" ELSE @]
      BY <1>12 DEF RabbitMq!Interrupted
    <2>2. permit \in {"free", "mine", "other"} /\ permit # "mine"
      BY <1>t DEF MqHeld, MqState
    <2> HIDE DEF doubt
    <2>3. mq' = [RabbitMq!Ends(FALSE, doubt) EXCEPT !.slot = permit]
      BY <2>1, <1>t DEF RabbitMq!Ends, RabbitMq!Reported, MqState
    <2> HIDE DEF permit
    <2> QED BY <1>c, <1>d, <1>e, <2>2, <2>3, MqFinishes
  <1>13. CASE RabbitMq!Run
    <2>1. PICK w \in RabbitMq!Write, made \in {"done", "refused"} :
             mq.effect[w] = "running" /\ mq' = [mq EXCEPT !.effect[w] = made]
      BY <1>13 DEF RabbitMq!Run
    <2>2. /\ mq' \in MqState /\ mq'.report = mq.report
          /\ mq'.client = mq.client /\ mq'.slot = mq.slot /\ mq'.op = mq.op
          /\ mq'.effect = [mq.effect EXCEPT ![w] = made]
      BY <2>1, <1>t DEF MqState, Fates
    <2>3. mq.report[w] # "error" /\ w \in DOMAIN mq.report
      BY <2>1, <1>t DEF Honest
    <2>4. Decides(mq.effect, mq.report, mq'.effect, mq'.report)
      BY <2>1, <2>2, <2>3 DEF Decides
    <2>5. MqStep /\ Honest(mq'.effect, mq'.report)
      BY <1>t, <2>4, HonestKept DEF MqStep, StatementStep
    <2>6. MqAsks(mq'.op, mq'.effect, mq'.report)
      BY <1>t, <2>1, <2>2 DEF MqAsks
    <2> QED BY <1>t, <2>2, <2>5, <2>6 DEF MqInv
  <1>14. CASE RabbitMq!Shutdown
    <2>1. /\ mq' \in MqState /\ mq'.effect = mq.effect /\ mq'.report = mq.report
          /\ mq'.client = "none" /\ mq'.slot = mq.slot /\ mq'.op = mq.op
      BY <1>14, <1>t DEF RabbitMq!Shutdown, MqState
    <2>2. MqHeld(mq'.client, mq'.slot, mq'.op)
      BY <1>t, <2>1 DEF MqHeld
    <2> QED BY <1>a, <1>t, <2>1, <2>2 DEF MqInv
  <1>15. CASE RabbitMq!Done
    <2>1. mq' = mq
      BY <1>15 DEF RabbitMq!Done
    <2> QED BY <1>a, <1>t, <2>1 DEF MqInv
  <1> QED
    BY <1>1, <1>2, <1>3, <1>4, <1>5, <1>6, <1>7, <1>8, <1>9, <1>10, <1>11, <1>12, <1>13,
       <1>14, <1>15 DEF RabbitMq!Next, RabbitMq!Progress

(* The reports of RabbitMQ begin as WriteOutcome does, and go on so.       *)
LEMMA MqOutcomes ==
    /\ RabbitMq!Init => RabbitMq!Statements!Init
    /\ MqInv /\ MqStep /\ MqInv' => [RabbitMq!Statements!Next]_RabbitMq!Statements!vars
    /\ mq' = mq => [RabbitMq!Statements!Next]_RabbitMq!Statements!vars
  <1>1. RabbitMq!Init => RabbitMq!Statements!Init
    <2> SUFFICES ASSUME RabbitMq!Init PROVE RabbitMq!Statements!Init
      OBVIOUS
    <2> DEFINE outcome == mq.effect
               told == mq.report
    <2>1. /\ outcome = [w \in RabbitMq!Write |-> "no"] /\ told = [w \in RabbitMq!Write |-> "none"]
      BY DEF RabbitMq!Init
    <2> HIDE DEF outcome, told
    <2>2. /\ [w \in RabbitMq!Write |-> outcome[w] # "no"] = [w \in RabbitMq!Write |-> FALSE]
          /\ [w \in RabbitMq!Write |-> outcome[w] = "done"] = [w \in RabbitMq!Write |-> FALSE]
      BY <2>1
    <2> QED BY <2>1, <2>2 DEF RabbitMq!Statements!Init, outcome, told
  <1>2. MqInv /\ MqStep /\ MqInv' => [RabbitMq!Statements!Next]_RabbitMq!Statements!vars
    <2> SUFFICES ASSUME MqInv, MqStep, MqInv'
                 PROVE  [RabbitMq!Statements!Next]_RabbitMq!Statements!vars
      OBVIOUS
    <2> DEFINE e == mq.effect
               r == mq.report
               f == mq'.effect
               q == mq'.report
    <2>1. /\ e \in [RabbitMq!Write -> Fates] /\ r \in [RabbitMq!Write -> Told]
          /\ f \in [RabbitMq!Write -> Fates] /\ Honest(e, r)
      BY DEF MqInv, MqState
    <2>2. Contract(e, r, f, q)
      BY <2>1, StepsKeepContract DEF MqStep
    <2>3. /\ Sent(e) = [w \in RabbitMq!Write |-> mq.effect[w] # "no"]
          /\ Took(e) = [w \in RabbitMq!Write |-> mq.effect[w] = "done"]
          /\ Sent(f) = [w \in RabbitMq!Write |-> mq'.effect[w] # "no"]
          /\ Took(f) = [w \in RabbitMq!Write |-> mq'.effect[w] = "done"]
          /\ DOMAIN r = RabbitMq!Write
      BY <2>1 DEF Sent, Took
    <2>4. CASE Sent(f) = Sent(e) /\ Took(f) = Took(e) /\ q = r
      BY <2>3, <2>4 DEF RabbitMq!Statements!vars
    <2>5. ASSUME NEW w \in RabbitMq!Write, r[w] = "none", ~Sent(e)[w],
                 Sent(f) = [Sent(e) EXCEPT ![w] = TRUE], Took(f) = Took(e), q = r
          PROVE  RabbitMq!Statements!Send(w)
      BY <2>3, <2>5 DEF RabbitMq!Statements!Send
    <2>6. ASSUME NEW w \in RabbitMq!Write, Sent(e)[w], ~Took(e)[w], r[w] \in {"none", "Unknown"},
                 Took(f) = [Took(e) EXCEPT ![w] = TRUE], Sent(f) = Sent(e), q = r
          PROVE  RabbitMq!Statements!TakeEffect(w)
      BY <2>3, <2>6 DEF RabbitMq!Statements!TakeEffect
    <2>7. ASSUME NEW w \in RabbitMq!Write, NEW outcome \in Told \ {"none"}, r[w] = "none",
                 outcome = "error" => ~Sent(e)[w], outcome = "Applied" => Took(e)[w],
                 outcome = "Rejected" => ~Took(e)[w],
                 q = [r EXCEPT ![w] = outcome], Sent(f) = Sent(e), Took(f) = Took(e)
          PROVE  RabbitMq!Statements!Report(w, outcome)
      BY <2>3, <2>7 DEF RabbitMq!Statements!Report
    <2>8. Told \ {"none"} = {"error", "Applied", "Rejected", "Unknown"}
      BY DEF Told
    <2>9. Contract(e, r, f, q) => \/ Sent(f) = Sent(e) /\ Took(f) = Took(e) /\ q = r
                                 \/ RabbitMq!Statements!Next
      <3> HIDE DEF e, r, f, q
      <3> SUFFICES ASSUME NEW w \in DOMAIN r,
                          \/ RabbitMq!Statements!Send(w) \/ RabbitMq!Statements!TakeEffect(w)
                          \/ \E outcome \in Told \ {"none"} :
                                RabbitMq!Statements!Report(w, outcome)
                   PROVE  RabbitMq!Statements!Next
        BY <2>3, <2>5, <2>6, <2>7 DEF Contract
      <3>1. w \in RabbitMq!Write
        BY <2>3
      <3> QED BY <2>8, <3>1 DEF RabbitMq!Statements!Next
    <2> HIDE DEF e, r, f, q
    <2> QED BY <2>2, <2>4, <2>9
  <1>3. mq' = mq => [RabbitMq!Statements!Next]_RabbitMq!Statements!vars
    <2> SUFFICES ASSUME mq' = mq PROVE RabbitMq!Statements!vars' = RabbitMq!Statements!vars
      OBVIOUS
    <2> QED BY DEF RabbitMq!Statements!vars
  <1> QED BY <1>1, <1>2, <1>3
-----------------------------------------------------------------------------
(* Qdrant                                                                  *)

QdPlace == {"idle", "lease", "connect", "setup", "thread", "ready", "sent"}
QdOp == [kind : {"none", "page", "topology", "get", "write"}, at : QdPlace,
         write : {0} \union QdrantDb!Write, dispatched : BOOLEAN]
QdState == [client : [QdrantDb!Client -> {"none", "free", "busy"}],
            status : {"Configured", "Connecting", "Connected", "Disconnected", "Closed"},
            closed : BOOLEAN, slot : {"free", "mine", "other"}, op : QdOp,
            effect : [QdrantDb!Write -> Fates],
            report : [QdrantDb!Write -> {"none", "error", "shown", "Unknown"}]]

(* What an answer that is shown says of its statement.                     *)
QdTold(effect, report) ==
    [w \in QdrantDb!Write |-> IF report[w] # "shown" THEN report[w]
                             ELSE IF effect[w] = "done" THEN "Applied" ELSE "Rejected"]

QdClient(op) == IF op.kind = "page" THEN "grpc" ELSE "rest"

(* The statement of the operation is not reported, and has left only while *)
(* the answer to its request is awaited.                                   *)
QdAsks(op, effect, report) ==
    /\ op.kind = "none" <=> op.at = "idle"
    /\ op.kind = "write" <=> op.write # 0
    /\ op.dispatched <=> (op.at = "sent" /\ op.kind \in {"get", "write"})
    /\ op.write # 0 => report[op.write] = "none"
    /\ \A w \in DOMAIN report :
          report[w] = "none" /\ effect[w] # "no" => op.write = w /\ op.at = "sent"

(* A client is busy, and the slot taken, only for the operation, and what  *)
(* is "Connected" has a client.                                            *)
QdHeld(client, status, permit, op) ==
    /\ \A c \in QdrantDb!Client : client[c] = "busy" => op.at = "sent" /\ c = QdClient(op)
    /\ status = "Connected" => \E c \in QdrantDb!Client : client[c] # "none"
    /\ permit = "mine" <=> op.at = "thread"

QdInv ==
    /\ qd \in QdState
    /\ QdAsks(qd.op, qd.effect, qd.report)
    /\ QdHeld(qd.client, qd.status, qd.slot, qd.op)
    /\ Honest(qd.effect, QdTold(qd.effect, qd.report))

QdStep == StatementStep(qd.effect, QdTold(qd.effect, qd.report),
                        qd'.effect, QdTold(qd'.effect, qd'.report))

(* No statement is 0.                                                      *)
LEMMA QdWrites == 0 \notin QdrantDb!Write
  BY DEF QdrantDb!Write

(* Nothing has been asked at first.                                        *)
LEMMA QdBegins == QdrantDb!Init => QdInv
  BY QdWrites DEF QdrantDb!Init, QdrantDb!NoOp, QdInv, QdState, QdOp, QdPlace, QdAsks, QdHeld,
                  QdTold, Honest, Fates

(* What is told of the statements is what WriteOutcome knows.              *)
LEMMA QdTyped ==
    ASSUME QdInv
    PROVE  /\ qd.effect \in [QdrantDb!Write -> Fates]
           /\ QdTold(qd.effect, qd.report) \in [QdrantDb!Write -> Told]
           /\ Honest(qd.effect, QdTold(qd.effect, qd.report))
  BY DEF QdInv, QdState, QdTold, Told

(* An operation that is over leaves no request, and its report is true.    *)
LEMMA QdFinishes ==
    ASSUME QdInv, NEW outcome \in {"error", "shown", "Unknown"},
           qd' \in QdState, qd'.op = QdrantDb!NoOp,
           \A c \in QdrantDb!Client : qd'.client[c] # "busy",
           qd'.status = "Connected" => \E c \in QdrantDb!Client : qd'.client[c] # "none",
           qd'.slot # "mine", qd'.effect = qd.effect,
           qd'.report = IF qd.op.write = 0 THEN qd.report
                        ELSE [qd.report EXCEPT ![qd.op.write] = outcome],
           qd.op.write # 0 =>
              /\ outcome = "error" => qd.effect[qd.op.write] = "no"
              /\ outcome = "shown" => qd.effect[qd.op.write] # "running"
    PROVE  QdInv' /\ QdStep
  <1>1. QdStep
    <2>1. CASE qd.op.write = 0
      BY <2>1 DEF QdStep, StatementStep
    <2>2. CASE qd.op.write # 0
      <3> DEFINE w == qd.op.write
                 made == IF outcome # "shown" THEN outcome
                         ELSE IF qd.effect[w] = "done" THEN "Applied" ELSE "Rejected"
      <3>1. /\ w \in QdrantDb!Write /\ w \in DOMAIN qd.report /\ qd.report[w] = "none"
            /\ qd.effect[w] \in Fates
        BY <2>2 DEF QdInv, QdState, QdOp, QdAsks
      <3>2. QdTold(qd'.effect, qd'.report) = [QdTold(qd.effect, qd.report) EXCEPT ![w] = made]
        <4>1. /\ qd'.report = [qd.report EXCEPT ![w] = outcome]
              /\ qd.report \in [QdrantDb!Write -> {"none", "error", "shown", "Unknown"}]
          BY <2>2 DEF QdInv, QdState
        <4>2. \A v \in QdrantDb!Write : v # w => qd'.report[v] = qd.report[v]
          BY <4>1
        <4>3. qd'.report[w] = outcome
          BY <3>1, <4>1
        <4> HIDE DEF w
        <4> QED BY <3>1, <4>2, <4>3 DEF QdTold
      <3>3. /\ w \in DOMAIN QdTold(qd.effect, qd.report)
            /\ QdTold(qd.effect, qd.report)[w] = "none"
        BY <3>1 DEF QdTold
      <3>4. /\ made \in Told \ {"none"}
            /\ made = "error" => qd.effect[w] = "no"
            /\ made = "Applied" => qd.effect[w] = "done"
            /\ made = "Rejected" => qd.effect[w] \in {"no", "refused"}
        BY <2>2, <3>1 DEF Told, Fates
      <3> HIDE DEF w, made
      <3>5. Reports(qd.effect, QdTold(qd.effect, qd.report),
                    qd'.effect, QdTold(qd'.effect, qd'.report))
        BY <3>2, <3>3, <3>4 DEF Reports
      <3> QED BY <3>5 DEF QdStep, StatementStep
    <2> QED BY <2>1, <2>2
  <1>2. Honest(qd'.effect, QdTold(qd'.effect, qd'.report))
    BY <1>1, QdTyped, HonestKept DEF QdStep
  <1>3. QdAsks(qd'.op, qd'.effect, qd'.report) /\ QdHeld(qd'.client, qd'.status, qd'.slot, qd'.op)
    <2>1. qd'.op.kind = "none" /\ qd'.op.at = "idle" /\ qd'.op.write = 0 /\ ~qd'.op.dispatched
      BY DEF QdrantDb!NoOp
    <2>2. \A w \in DOMAIN qd'.report :
             ~(qd'.report[w] = "none" /\ qd'.effect[w] # "no")
      BY QdTyped, QdWrites DEF QdInv, QdState, QdAsks
    <2> QED BY <2>1, <2>2 DEF QdAsks, QdHeld
  <1> QED BY <1>1, <1>2, <1>3 DEF QdInv

(* Every step of the executor.                                             *)
LEMMA QdSteps == QdInv /\ QdrantDb!Next => QdInv' /\ QdStep
  <1> SUFFICES ASSUME QdInv, QdrantDb!Next PROVE QdInv' /\ QdStep
    OBVIOUS
  <1>t. /\ qd \in QdState /\ qd.op \in QdOp
        /\ qd.effect \in [QdrantDb!Write -> Fates]
        /\ qd.report \in [QdrantDb!Write -> {"none", "error", "shown", "Unknown"}]
        /\ QdTold(qd.effect, qd.report) \in [QdrantDb!Write -> Told]
        /\ Honest(qd.effect, QdTold(qd.effect, qd.report)) /\ QdAsks(qd.op, qd.effect, qd.report)
        /\ QdHeld(qd.client, qd.status, qd.slot, qd.op)
    BY QdTyped DEF QdInv, QdState
  <1> USE DEF QdrantDb!At, QdrantDb!W
  <1>a. ASSUME qd'.effect = qd.effect, qd'.report = qd.report
        PROVE  QdStep /\ Honest(qd'.effect, QdTold(qd'.effect, qd'.report))
    BY <1>a, <1>t DEF QdStep, StatementStep
  <1>b. ASSUME NEW kind \in {"page", "topology", "get", "write"},
               NEW w \in {0} \union QdrantDb!Write,
               qd.op.kind = "none", kind = "write" <=> w # 0,
               w # 0 => qd.report[w] = "none" /\ qd.effect[w] = "no",
               qd' = [qd EXCEPT !.op = [kind |-> kind, at |-> "lease", write |-> w,
                                        dispatched |-> FALSE]]
        PROVE  QdInv' /\ QdStep
    <2>1. /\ qd' \in QdState /\ qd'.effect = qd.effect /\ qd'.report = qd.report
          /\ qd'.client = qd.client /\ qd'.slot = qd.slot /\ qd'.status = qd.status
          /\ qd'.op = [kind |-> kind, at |-> "lease", write |-> w, dispatched |-> FALSE]
      BY <1>b, <1>t DEF QdState, QdOp, QdPlace
    <2>2. QdAsks(qd'.op, qd'.effect, qd'.report)
      BY <1>b, <1>t, <2>1 DEF QdAsks
    <2>3. QdHeld(qd'.client, qd'.status, qd'.slot, qd'.op)
      BY <1>b, <1>t, <2>1 DEF QdAsks, QdHeld
    <2> QED BY <1>a, <2>1, <2>2, <2>3 DEF QdInv
  <1>1. CASE QdrantDb!Ask
    <2>1. CASE \E kind \in QdrantDb!Kind \ {"write"} :
                  qd' = [qd EXCEPT !.op = [QdrantDb!NoOp EXCEPT !.kind = kind, !.at = "lease"]]
      BY <1>1, <1>b, <2>1, ZenonT(60) DEF QdrantDb!Ask, QdrantDb!Idle, QdrantDb!Kind, QdrantDb!NoOp
    <2>2. CASE \E w \in QdrantDb!Write :
                  /\ QdrantDb!Fresh(w)
                  /\ qd' = [qd EXCEPT !.op = [QdrantDb!NoOp EXCEPT !.kind = "write",
                                                    !.at = "lease", !.write = w]]
      <3>1. PICK w \in QdrantDb!Write :
               /\ qd.report[w] = "none"
               /\ qd' = [qd EXCEPT !.op = [kind |-> "write", at |-> "lease", write |-> w,
                                           dispatched |-> FALSE]]
        BY <2>2 DEF QdrantDb!Fresh, QdrantDb!NoOp
      <3>2. w # 0 /\ qd.op.kind = "none" /\ qd.effect[w] = "no"
        BY <1>1, <1>t, <3>1, QdWrites DEF QdrantDb!Ask, QdrantDb!Idle, QdAsks
      <3> QED BY <1>b, <3>1, <3>2
    <2> QED BY <1>1, <2>1, <2>2 DEF QdrantDb!Ask
  <1>2. CASE QdrantDb!AskFails
    <2>1. /\ qd' \in QdState /\ qd'.op = QdrantDb!NoOp
          /\ qd'.client = qd.client /\ qd'.status = qd.status /\ qd'.slot = qd.slot
          /\ qd'.effect = qd.effect
          /\ qd'.report = IF qd.op.write = 0 THEN qd.report
                          ELSE [qd.report EXCEPT ![qd.op.write] = "error"]
      BY <1>2, <1>t, QdWrites
         DEF QdrantDb!AskFails, QdrantDb!Reported, QdrantDb!NoOp, QdState, QdOp, QdPlace
    <2>2. qd.op.write # 0 => qd.effect[qd.op.write] = "no"
      BY <1>2, <1>t DEF QdrantDb!AskFails, QdAsks, QdOp, QdState
    <2>3. /\ \A c \in QdrantDb!Client : qd.client[c] # "busy"
          /\ qd.status = "Connected" => \E c \in QdrantDb!Client : qd.client[c] # "none"
          /\ qd.slot # "mine"
      BY <1>2, <1>t DEF QdrantDb!AskFails, QdHeld
    <2> QED BY <2>1, <2>2, <2>3, QdFinishes
  (* A step of the same operation to another place.                        *)
  <1>m. ASSUME NEW place \in QdPlace \ {"idle", "sent"},
               qd.op.at \notin {"idle", "sent"}, qd' \in QdState,
               qd'.effect = qd.effect, qd'.report = qd.report,
               qd'.op = [qd.op EXCEPT !.at = place],
               \A c \in QdrantDb!Client : qd'.client[c] # "busy",
               qd'.status = "Connected" => \E c \in QdrantDb!Client : qd'.client[c] # "none",
               qd'.slot = "mine" <=> place = "thread"
        PROVE  QdInv' /\ QdStep
    <2>1. /\ qd'.op.at = place /\ qd'.op.kind = qd.op.kind /\ qd'.op.write = qd.op.write
          /\ qd'.op.dispatched = qd.op.dispatched
      BY <1>m, <1>t DEF QdOp
    <2>2. QdAsks(qd'.op, qd'.effect, qd'.report)
      BY <1>m, <1>t, <2>1 DEF QdAsks
    <2>3. QdHeld(qd'.client, qd'.status, qd'.slot, qd'.op)
      BY <1>m, <2>1 DEF QdHeld
    <2> QED BY <1>a, <1>m, <2>2, <2>3 DEF QdInv
  <1>f. qd.op.at # "sent" => \A c \in QdrantDb!Client : qd.client[c] # "busy"
    BY <1>t DEF QdHeld
  <1>g. QdrantDb!Mine \in QdrantDb!Client /\ QdrantDb!Mine = QdClient(qd.op)
    BY DEF QdrantDb!Mine, QdrantDb!Client, QdClient
  <1>3. CASE QdrantDb!Lease
    <2>1. CASE qd.client[QdrantDb!Mine] # "none"
      <3>1. qd.op.at = "lease" /\ qd' = [qd EXCEPT !.op.at = "ready"]
        BY <1>3, <2>1 DEF QdrantDb!Lease
      <3>2. /\ qd' \in QdState /\ qd'.effect = qd.effect /\ qd'.report = qd.report
            /\ qd'.op = [qd.op EXCEPT !.at = "ready"] /\ qd'.client = qd.client
            /\ qd'.status = qd.status /\ qd'.slot = qd.slot
        BY <3>1, <1>t DEF QdState, QdOp, QdPlace
      <3> QED BY <1>t, <1>f, <1>m, <3>1, <3>2 DEF QdHeld, QdPlace
    <2>2. CASE qd.client[QdrantDb!Mine] = "none"
      <3> DEFINE place == IF QdrantDb!Mine = "grpc" THEN "connect" ELSE "setup"
      <3>1. qd.op.at = "lease" /\ qd' = [qd EXCEPT !.status = "Connecting", !.op.at = place]
        BY <1>3, <2>2 DEF QdrantDb!Lease
      <3>2. place \in QdPlace \ {"idle", "sent", "thread"}
        BY DEF QdPlace
      <3> HIDE DEF place
      <3>3. /\ qd' \in QdState /\ qd'.effect = qd.effect /\ qd'.report = qd.report
            /\ qd'.op = [qd.op EXCEPT !.at = place] /\ qd'.client = qd.client
            /\ qd'.status = "Connecting" /\ qd'.slot = qd.slot
        BY <3>1, <3>2, <1>t DEF QdState, QdOp
      <3> QED BY <1>t, <1>f, <1>m, <3>1, <3>2, <3>3 DEF QdHeld
    <2> QED BY <2>1, <2>2
  <1>4. CASE QdrantDb!Connected
    <2>1. qd.op.at = "connect" /\ qd' = [qd EXCEPT !.client["grpc"] = "free", !.op.at = "ready"]
      BY <1>4 DEF QdrantDb!Connected
    <2>2. /\ qd' \in QdState /\ qd'.effect = qd.effect /\ qd'.report = qd.report
          /\ qd'.op = [qd.op EXCEPT !.at = "ready"]
          /\ qd'.client = [qd.client EXCEPT !["grpc"] = "free"]
          /\ qd'.status = qd.status /\ qd'.slot = qd.slot
      BY <2>1, <1>t DEF QdState, QdOp, QdPlace, QdrantDb!Client
    <2>3. \A c \in QdrantDb!Client : qd'.client[c] # "busy" /\ (qd.client[c] # "none" => qd'.client[c] # "none")
      BY <1>t, <1>f, <2>1, <2>2 DEF QdState
    <2> QED BY <1>t, <1>m, <2>1, <2>2, <2>3 DEF QdHeld, QdPlace
  <1>5. CASE QdrantDb!Acquire
    <2>1. /\ qd.op.at = "setup" /\ qd' \in QdState /\ qd'.effect = qd.effect
          /\ qd'.report = qd.report /\ qd'.op = [qd.op EXCEPT !.at = "thread"]
          /\ qd'.client = qd.client /\ qd'.status = qd.status /\ qd'.slot = "mine"
      BY <1>5, <1>t DEF QdrantDb!Acquire, QdState, QdOp, QdPlace
    <2> QED BY <1>t, <1>f, <1>m, <2>1 DEF QdHeld, QdPlace
  <1>6. CASE QdrantDb!Prepared
    <2>1. /\ qd.op.at = "thread" /\ qd' \in QdState /\ qd'.effect = qd.effect
          /\ qd'.report = qd.report /\ qd'.op = [qd.op EXCEPT !.at = "ready"]
          /\ qd'.client = [qd.client EXCEPT !["rest"] = "free"]
          /\ qd'.status = qd.status /\ qd'.slot = "free"
      BY <1>6, <1>t DEF QdrantDb!Prepared, QdState, QdOp, QdPlace, QdrantDb!Client
    <2>2. \A c \in QdrantDb!Client : qd'.client[c] # "busy" /\ (qd.client[c] # "none" => qd'.client[c] # "none")
      BY <1>t, <1>f, <2>1 DEF QdState
    <2> QED BY <1>t, <1>m, <2>1, <2>2 DEF QdHeld, QdPlace
  <1>c. ASSUME NEW clean \in BOOLEAN, NEW outcome \in {"error", "shown", "Unknown"},
               NEW place \in {"free", "other"},
               qd' = [QdrantDb!Ends(clean, outcome) EXCEPT !.slot = place],
               qd.op.write # 0 =>
                  /\ outcome = "error" => qd.effect[qd.op.write] = "no"
                  /\ outcome = "shown" => qd.effect[qd.op.write] # "running"
        PROVE  QdInv' /\ QdStep
    <2>1. /\ qd' \in QdState /\ qd'.op = QdrantDb!NoOp /\ qd'.slot = place
          /\ qd'.status = (IF clean THEN "Connected" ELSE "Disconnected")
          /\ qd'.client = [qd.client EXCEPT ![QdrantDb!Mine] = IF clean THEN "free" ELSE "none"]
          /\ qd'.effect = qd.effect
          /\ qd'.report = IF qd.op.write = 0 THEN qd.report
                               ELSE [qd.report EXCEPT ![qd.op.write] = outcome]
      BY <1>c, <1>g, <1>t, QdWrites, ZenonT(60)
         DEF QdrantDb!Ends, QdrantDb!Reported, QdrantDb!NoOp, QdState, QdOp, QdPlace
    <2>2. /\ \A c \in QdrantDb!Client : qd'.client[c] # "busy"
          /\ qd'.status = "Connected" => \E c \in QdrantDb!Client : qd'.client[c] # "none"
      BY <1>g, <1>t, <2>1 DEF QdHeld, QdState
    <2> QED BY <1>c, <2>1, <2>2, QdFinishes
  <1>k. ASSUME NEW clean, NEW outcome, qd' = QdrantDb!Ends(clean, outcome), qd.op.at # "thread"
        PROVE  qd.slot \in {"free", "other"} /\ qd' = [QdrantDb!Ends(clean, outcome) EXCEPT !.slot = qd.slot]
    BY <1>k, <1>t DEF QdrantDb!Ends, QdrantDb!Reported, QdState, QdHeld
  <1>7. CASE QdrantDb!ConnectFails
    <2>1. qd.op.write # 0 => qd.effect[qd.op.write] = "no"
      BY <1>7, <1>t DEF QdrantDb!ConnectFails, QdAsks, QdOp, QdState
    <2>2. qd.op.at = "connect" /\ qd' = QdrantDb!Ends(FALSE, "error")
      BY <1>7 DEF QdrantDb!ConnectFails
    <2>3. qd.slot \in {"free", "other"} /\ qd' = [QdrantDb!Ends(FALSE, "error") EXCEPT !.slot = qd.slot]
      BY <1>k, <2>2
    <2> QED BY <1>c, <2>1, <2>3
  <1>8. CASE QdrantDb!PrepareFails
    <2>1. qd.op.write # 0 => qd.effect[qd.op.write] = "no"
      BY <1>8, <1>t DEF QdrantDb!PrepareFails, QdAsks, QdOp, QdState
    <2> QED BY <1>8, <1>c, <2>1 DEF QdrantDb!PrepareFails
  <1>9. CASE QdrantDb!OtherTakes \/ QdrantDb!OtherEnds
    <2>1. /\ qd' \in QdState /\ qd'.effect = qd.effect /\ qd'.report = qd.report
          /\ qd'.client = qd.client /\ qd'.status = qd.status
          /\ qd.slot # "mine" /\ qd'.slot # "mine" /\ qd'.op = qd.op
      BY <1>9, <1>t DEF QdrantDb!OtherTakes, QdrantDb!OtherEnds, QdState
    <2>2. QdHeld(qd'.client, qd'.status, qd'.slot, qd'.op)
      BY <1>t, <2>1 DEF QdHeld
    <2> QED BY <1>a, <1>t, <2>1, <2>2 DEF QdInv
  <1>10. CASE QdrantDb!Send
    <2>1. /\ qd.op.at = "ready" /\ qd.op.kind # "none"
          /\ qd.op.write # 0 => /\ qd.op.write \in QdrantDb!Write
                                /\ qd.effect[qd.op.write] = "no" /\ qd.report[qd.op.write] = "none"
      BY <1>10, <1>t DEF QdrantDb!Send, QdAsks, QdOp, QdState
    <2>2. /\ qd' \in QdState /\ qd'.report = qd.report /\ qd'.status = qd.status
          /\ qd'.client = [qd.client EXCEPT ![QdrantDb!Mine] = "busy"] /\ qd'.slot = qd.slot
          /\ qd'.op = [qd.op EXCEPT !.at = "sent", !.dispatched = qd.op.kind \in {"get", "write"}]
          /\ qd'.effect = IF qd.op.write = 0 THEN qd.effect
                          ELSE [qd.effect EXCEPT ![qd.op.write] = "running"]
      <3>1. ASSUME NEW flag \in BOOLEAN
            PROVE  [qd.op EXCEPT !.at = "sent", !.dispatched = flag] \in QdOp
        BY <1>t DEF QdOp, QdPlace
      <3>2. (IF qd.op.write = 0 THEN qd.effect ELSE [qd.effect EXCEPT ![qd.op.write] = "running"])
               \in [QdrantDb!Write -> Fates]
        BY <1>t DEF Fates
      <3>3. [qd.op EXCEPT !.at = "sent", !.dispatched = qd.op.kind \in {"get", "write"}] \in QdOp
        <4> DEFINE flag == qd.op.kind \in {"get", "write"}
        <4>1. flag = TRUE \/ flag = FALSE
          BY SMT
        <4> HIDE DEF flag
        <4>2. flag \in BOOLEAN
          BY <4>1
        <4>3. [qd.op EXCEPT !.at = "sent", !.dispatched = flag] \in QdOp
          BY <3>1, <4>2
        <4> QED BY <4>3 DEF flag
      <3> QED BY <1>10, <1>g, <1>t, <3>2, <3>3 DEF QdrantDb!Send, QdrantDb!OfEditor, QdState
    <2>3. QdStep
      <3>1. CASE qd.op.write = 0
        BY <2>2, <3>1 DEF QdStep, StatementStep
      <3>2. CASE qd.op.write # 0
        <4>1. QdTold(qd'.effect, qd'.report) = QdTold(qd.effect, qd.report)
          BY <2>1, <2>2, <3>2, <1>t DEF QdTold
        <4>2. QdTold(qd.effect, qd.report)[qd.op.write] = "none"
          BY <2>1, <3>2 DEF QdTold
        <4>3. Sends(qd.effect, QdTold(qd.effect, qd.report),
                    qd'.effect, QdTold(qd'.effect, qd'.report))
          BY <2>1, <2>2, <3>2, <4>1, <4>2, <1>t DEF Sends
        <4> QED BY <4>3 DEF QdStep, StatementStep
      <3> QED BY <3>1, <3>2
    <2>4. Honest(qd'.effect, QdTold(qd'.effect, qd'.report))
      BY <1>t, <2>3, HonestKept DEF QdStep
    <2>5. /\ qd'.op.at = "sent" /\ qd'.op.kind = qd.op.kind /\ qd'.op.write = qd.op.write
          /\ qd'.op.dispatched <=> qd.op.kind \in {"get", "write"}
      BY <1>t, <2>2 DEF QdOp
    <2>6. QdAsks(qd'.op, qd'.effect, qd'.report)
      BY <1>t, <2>1, <2>2, <2>5 DEF QdAsks
    <2>7. \A c \in QdrantDb!Client :
             /\ qd'.client[c] = "busy" => c = QdrantDb!Mine
             /\ qd.client[c] # "none" => qd'.client[c] # "none"
      BY <1>f, <1>t, <2>1, <2>2 DEF QdState
    <2>8. QdClient(qd'.op) = QdrantDb!Mine
      BY <1>g, <2>5 DEF QdClient
    <2>9. QdHeld(qd'.client, qd'.status, qd'.slot, qd'.op)
      BY <1>t, <2>1, <2>2, <2>5, <2>7, <2>8 DEF QdHeld
    <2> QED BY <2>2, <2>3, <2>4, <2>6, <2>9 DEF QdInv
  <1>11. CASE QdrantDb!Answered
    <2>1. /\ qd.op.at = "sent" /\ qd' = QdrantDb!Ends(TRUE, "shown")
          /\ qd.op.write # 0 => qd.effect[qd.op.write] # "running"
      BY <1>11 DEF QdrantDb!Answered
    <2>2. qd.slot \in {"free", "other"} /\ qd' = [QdrantDb!Ends(TRUE, "shown") EXCEPT !.slot = qd.slot]
      BY <1>k, <2>1
    <2> QED BY <1>c, <2>1, <2>2
  <1>d. /\ QdrantDb!Doubt \in {"error", "Unknown"}
        /\ qd.op.write # 0 /\ QdrantDb!Doubt = "error" => qd.effect[qd.op.write] = "no"
    BY <1>t DEF QdrantDb!Doubt, QdAsks, QdOp, QdState
  <1>12. CASE QdrantDb!Lost
    <2>1. qd.op.at = "sent" /\ qd' = QdrantDb!Ends(FALSE, QdrantDb!Doubt)
      BY <1>12 DEF QdrantDb!Lost
    <2>2. /\ qd.slot \in {"free", "other"}
          /\ qd' = [QdrantDb!Ends(FALSE, QdrantDb!Doubt) EXCEPT !.slot = qd.slot]
      BY <1>k, <2>1
    <2> QED BY <1>c, <1>d, <2>2
  <1>13. CASE QdrantDb!Interrupted
    <2> DEFINE place == IF qd.op.at = "thread" THEN "other" ELSE qd.slot
    <2>1. qd' = [QdrantDb!Ends(FALSE, QdrantDb!Doubt)
                   EXCEPT !.slot = IF qd.op.at = "thread" THEN "other" ELSE @]
      BY <1>13 DEF QdrantDb!Interrupted
    <2>2. place \in {"free", "other"}
      BY <1>t DEF QdHeld, QdState
    <2>3. qd' = [QdrantDb!Ends(FALSE, QdrantDb!Doubt) EXCEPT !.slot = place]
      BY <2>1, <1>t DEF QdrantDb!Ends, QdrantDb!Reported, QdState
    <2> HIDE DEF place
    <2> QED BY <1>c, <1>d, <2>2, <2>3
  <1>14. CASE QdrantDb!Run
    <2>1. PICK w \in QdrantDb!Write, made \in {"done", "refused"} :
             qd.effect[w] = "running" /\ qd' = [qd EXCEPT !.effect[w] = made]
      BY <1>14 DEF QdrantDb!Run
    <2>2. /\ qd' \in QdState /\ qd'.report = qd.report /\ qd'.status = qd.status
          /\ qd'.client = qd.client /\ qd'.slot = qd.slot /\ qd'.op = qd.op
          /\ qd'.effect = [qd.effect EXCEPT ![w] = made]
      BY <2>1, <1>t DEF QdState, Fates
    <2> DEFINE told == QdTold(qd.effect, qd.report)
    <2>3. told[w] \notin {"error", "Rejected"} /\ w \in DOMAIN told
      BY <2>1, <1>t DEF Honest
    <2>4. qd.report[w] # "shown"
      BY <2>1, <2>3 DEF QdTold
    <2>5. QdTold(qd'.effect, qd'.report) = told
      BY <2>1, <2>2, <2>4, <1>t DEF QdTold
    <2>6. Decides(qd.effect, told, qd'.effect, told)
      <3> HIDE DEF told
      <3> QED BY <2>1, <2>2, <2>3 DEF Decides
    <2>7. QdStep
      BY <2>5, <2>6 DEF QdStep, StatementStep
    <2>8. Honest(qd'.effect, QdTold(qd'.effect, qd'.report))
      BY <1>t, <2>7, HonestKept DEF QdStep
    <2>9. QdAsks(qd'.op, qd'.effect, qd'.report)
      BY <1>t, <2>1, <2>2 DEF QdAsks
    <2> QED BY <1>t, <2>2, <2>7, <2>8, <2>9 DEF QdInv
  <1>15. CASE QdrantDb!Shutdown
    <2>1. /\ qd' \in QdState /\ qd'.effect = qd.effect /\ qd'.report = qd.report
          /\ \A c \in QdrantDb!Client : qd'.client[c] = "none"
          /\ qd'.slot = qd.slot /\ qd'.op = qd.op /\ qd'.status = "Closed"
      BY <1>15, <1>t DEF QdrantDb!Shutdown, QdState
    <2>2. QdHeld(qd'.client, qd'.status, qd'.slot, qd'.op)
      BY <1>t, <2>1 DEF QdHeld
    <2> QED BY <1>a, <1>t, <2>1, <2>2 DEF QdInv
  <1>16. CASE QdrantDb!Done
    <2>1. qd' = qd
      BY <1>16 DEF QdrantDb!Done
    <2> QED BY <1>a, <1>t, <2>1 DEF QdInv
  <1> QED
    BY <1>1, <1>2, <1>3, <1>4, <1>5, <1>6, <1>7, <1>8, <1>9, <1>10, <1>11, <1>12, <1>13,
       <1>14, <1>15, <1>16 DEF QdrantDb!Next, QdrantDb!Progress

(* The reports of Qdrant begin as WriteOutcome does, and go on so.         *)
LEMMA QdOutcomes ==
    /\ QdrantDb!Init => QdrantDb!Statements!Init
    /\ QdInv /\ QdStep /\ QdInv' => [QdrantDb!Statements!Next]_QdrantDb!Statements!vars
    /\ qd' = qd => [QdrantDb!Statements!Next]_QdrantDb!Statements!vars
  <1>1. QdrantDb!Init => QdrantDb!Statements!Init
    <2> SUFFICES ASSUME QdrantDb!Init PROVE QdrantDb!Statements!Init
      OBVIOUS
    <2> DEFINE outcome == qd.effect
               told == qd.report
    <2>1. /\ outcome = [w \in QdrantDb!Write |-> "no"] /\ told = [w \in QdrantDb!Write |-> "none"]
      BY DEF QdrantDb!Init
    <2> HIDE DEF outcome, told
    <2>2. /\ [w \in QdrantDb!Write |-> outcome[w] # "no"] = [w \in QdrantDb!Write |-> FALSE]
          /\ [w \in QdrantDb!Write |-> outcome[w] = "done"] = [w \in QdrantDb!Write |-> FALSE]
      BY <2>1
    <2> QED BY <2>1, <2>2 DEF QdrantDb!Statements!Init, outcome, told
  <1>2. QdInv /\ QdStep /\ QdInv' => [QdrantDb!Statements!Next]_QdrantDb!Statements!vars
    <2> SUFFICES ASSUME QdInv, QdStep, QdInv'
                 PROVE  [QdrantDb!Statements!Next]_QdrantDb!Statements!vars
      OBVIOUS
    <2> DEFINE e == qd.effect
               r == QdTold(qd.effect, qd.report)
               f == qd'.effect
               q == QdTold(qd'.effect, qd'.report)
    <2>1. /\ e \in [QdrantDb!Write -> Fates] /\ r \in [QdrantDb!Write -> Told]
          /\ f \in [QdrantDb!Write -> Fates] /\ Honest(e, r)
      BY QdTyped DEF QdInv, QdState
    <2>2. Contract(e, r, f, q)
      BY <2>1, StepsKeepContract DEF QdStep
    <2>3. /\ Sent(e) = [w \in QdrantDb!Write |-> qd.effect[w] # "no"]
          /\ Took(e) = [w \in QdrantDb!Write |-> qd.effect[w] = "done"]
          /\ Sent(f) = [w \in QdrantDb!Write |-> qd'.effect[w] # "no"]
          /\ Took(f) = [w \in QdrantDb!Write |-> qd'.effect[w] = "done"]
          /\ DOMAIN r = QdrantDb!Write
      BY <2>1 DEF Sent, Took
    <2>4. CASE Sent(f) = Sent(e) /\ Took(f) = Took(e) /\ q = r
      BY <2>3, <2>4 DEF QdrantDb!Statements!vars, QdTold
    <2>5. ASSUME NEW w \in QdrantDb!Write, r[w] = "none", ~Sent(e)[w],
                 Sent(f) = [Sent(e) EXCEPT ![w] = TRUE], Took(f) = Took(e), q = r
          PROVE  QdrantDb!Statements!Send(w)
      BY <2>3, <2>5 DEF QdrantDb!Statements!Send, QdTold
    <2>6. ASSUME NEW w \in QdrantDb!Write, Sent(e)[w], ~Took(e)[w], r[w] \in {"none", "Unknown"},
                 Took(f) = [Took(e) EXCEPT ![w] = TRUE], Sent(f) = Sent(e), q = r
          PROVE  QdrantDb!Statements!TakeEffect(w)
      BY <2>3, <2>6 DEF QdrantDb!Statements!TakeEffect, QdTold
    <2>7. ASSUME NEW w \in QdrantDb!Write, NEW outcome \in Told \ {"none"}, r[w] = "none",
                 outcome = "error" => ~Sent(e)[w], outcome = "Applied" => Took(e)[w],
                 outcome = "Rejected" => ~Took(e)[w],
                 q = [r EXCEPT ![w] = outcome], Sent(f) = Sent(e), Took(f) = Took(e)
          PROVE  QdrantDb!Statements!Report(w, outcome)
      BY <2>3, <2>7 DEF QdrantDb!Statements!Report, QdTold
    <2>8. Told \ {"none"} = {"error", "Applied", "Rejected", "Unknown"}
      BY DEF Told
    <2>9. Contract(e, r, f, q) => \/ Sent(f) = Sent(e) /\ Took(f) = Took(e) /\ q = r
                                 \/ QdrantDb!Statements!Next
      <3> HIDE DEF e, r, f, q
      <3> SUFFICES ASSUME NEW w \in DOMAIN r,
                          \/ QdrantDb!Statements!Send(w) \/ QdrantDb!Statements!TakeEffect(w)
                          \/ \E outcome \in Told \ {"none"} :
                                QdrantDb!Statements!Report(w, outcome)
                   PROVE  QdrantDb!Statements!Next
        BY <2>3, <2>5, <2>6, <2>7 DEF Contract
      <3>1. w \in QdrantDb!Write
        BY <2>3
      <3> QED BY <2>8, <3>1 DEF QdrantDb!Statements!Next
    <2> HIDE DEF e, r, f, q
    <2> QED BY <2>2, <2>4, <2>9
  <1>3. qd' = qd => [QdrantDb!Statements!Next]_QdrantDb!Statements!vars
    <2> SUFFICES ASSUME qd' = qd PROVE QdrantDb!Statements!vars' = QdrantDb!Statements!vars
      OBVIOUS
    <2> QED BY DEF QdrantDb!Statements!vars
  <1> QED BY <1>1, <1>2, <1>3
-----------------------------------------------------------------------------
(* The command line                                                        *)

(* An executor is open, and a check has an outcome, only on the way; an    *)
(* interrupted check is cancelled.                                         *)
CmInv ==
    /\ cmd \in Command!Cmd
    /\ cmd.executor = "open" => cmd.pc \in {"check", "cancelled", "shutdown"}
    /\ cmd.pc \in {"start", "tui", "check", "cancelled"} => cmd.checked = "none"
    /\ cmd.pc \notin {"exit"} => cmd.code = "none"
    /\ cmd.pc = "tui" => ~cmd.args.check
    /\ cmd.signal # "none" => cmd.cancel
    /\ cmd.checked = "ok" => cmd.call = Calls /\ cmd.signal = "none"
    /\ cmd.code = "ok" /\ cmd.args.check => cmd.call = Calls /\ cmd.signal = "none"

(* Nothing has run at first, and nothing ever does of a part that is not   *)
(* the one of the behavior.                                                *)
LEMMA CmBegins ==
    \/ Command!Init
    \/ cmd = [(CHOOSE start \in Command!Starts : TRUE) EXCEPT !.pc = "exit"]
    => CmInv
  <1> DEFINE args == [schema |-> FALSE, check |-> FALSE, connection |-> FALSE,
                      config |-> FALSE, terminal |-> FALSE, file |-> "valid",
                      alias |-> FALSE, secrets |-> FALSE]
             first == [pc |-> "start", args |-> args, call |-> 0, cancel |-> FALSE,
                       late |-> FALSE, signal |-> "none", checked |-> "none",
                       executor |-> "none", code |-> "none"]
             chosen == CHOOSE start \in Command!Starts : TRUE
  <1>1. 0 \in 0 .. Calls
    BY ProvidersAssumption DEF ProvidersAssumption
  <1>2. ASSUME NEW start \in Command!Starts, cmd = start \/ cmd = [start EXCEPT !.pc = "exit"]
        PROVE  CmInv
    <2>1. PICK given \in Command!Accepted :
             start = [pc |-> "start", args |-> given, call |-> 0, cancel |-> FALSE,
                      late |-> FALSE, signal |-> "none", checked |-> "none",
                      executor |-> "none", code |-> "none"]
      BY DEF Command!Starts
    <2>2. given \in Command!Args
      BY DEF Command!Accepted
    <2>3. start \in Command!Cmd
      BY <1>1, <2>1, <2>2 DEF Command!Cmd
    <2>4. cmd \in Command!Cmd
      BY <1>2, <2>3 DEF Command!Cmd
    <2> QED BY <1>2, <2>1, <2>4 DEF CmInv
  <1>3. first \in Command!Starts
    <2>1. args \in Command!Accepted
      BY DEF Command!Accepted, Command!Args
    <2> HIDE DEF args
    <2> QED BY <2>1 DEF Command!Starts
  <1> HIDE DEF first
  <1>4. chosen \in Command!Starts
    BY <1>3
  <1> HIDE DEF chosen
  <1>5. CASE cmd = [chosen EXCEPT !.pc = "exit"]
    BY <1>2, <1>4, <1>5
  <1> QED BY <1>2, <1>5 DEF Command!Init, chosen

(* Every step of an invocation keeps it.                                   *)
LEMMA CmSteps == CmInv /\ Command!Next => CmInv'
  <1> SUFFICES ASSUME CmInv, Command!Next PROVE CmInv'
    OBVIOUS
  <1>0. cmd \in Command!Cmd /\ Calls \in Nat
    BY ProvidersAssumption DEF CmInv, ProvidersAssumption
  <1>1. CASE Command!Schema \/ Command!Refused
    BY <1>0, <1>1, ZenonT(60) DEF Command!Schema, Command!Refused, Command!Exit, Command!Cmd, CmInv
  <1>2. CASE Command!Terminal \/ Command!TerminalEnds
    BY <1>0, <1>2 DEF Command!Terminal, Command!TerminalEnds, Command!Exit, Command!Cmd, CmInv
  <1>3. CASE Command!Configure
    BY <1>0, <1>3 DEF Command!Configure, Command!Cmd, CmInv
  <1>4. CASE Command!CallEnds
    <2>1. CASE cmd.call < Calls /\ cmd' = [cmd EXCEPT !.call = cmd.call + 1]
      <3>1. cmd.call + 1 \in 0 .. Calls
        BY <1>0, <2>1 DEF Command!Cmd
      <3> QED BY <1>0, <1>4, <2>1, <3>1 DEF Command!CallEnds, Command!Cmd, CmInv
    <2>2. CASE cmd' = Command!Checked("error")
      BY <1>0, <1>4, <2>2 DEF Command!CallEnds, Command!Checked, Command!Cmd, CmInv
    <2> QED BY <1>4, <2>1, <2>2 DEF Command!CallEnds
  <1>5. CASE Command!CheckSucceeds \/ Command!CheckStopped
    BY <1>0, <1>5, ZenonT(60)
       DEF Command!CheckSucceeds, Command!CheckStopped, Command!Checked, Command!Cmd, CmInv
  <1>6. CASE Command!DeadlinePasses \/ Command!Interrupted
    BY <1>0, <1>6 DEF Command!DeadlinePasses, Command!Interrupted, Command!Cmd, CmInv
  <1>7. CASE Command!Shutdown
    BY <1>0, <1>7, ZenonT(60) DEF Command!Shutdown, Command!Cmd, CmInv
  <1>8. CASE Command!Done
    BY <1>8 DEF Command!Done, CmInv
  <1> QED BY <1>1, <1>2, <1>3, <1>4, <1>5, <1>6, <1>7, <1>8 DEF Command!Next

(* What the invariant says of the ways out, and of the types.              *)
LEMMA CmLeaves == CmInv => Command!ChecksLeaveNothing /\ Command!TypeOK
  BY DEF CmInv, Command!ChecksLeaveNothing, Command!TypeOK

-----------------------------------------------------------------------------
(* All parts                                                               *)

(* RabbitMQ gives back no client with a request.                           *)
LEMMA MqLeaves == MqInv => RabbitMq!NothingLeft /\ RabbitMq!TypeOK
  BY DEF MqInv, MqState, MqOp, MqPlace, MqAsks, MqHeld, Fates, Told,
         RabbitMq!NothingLeft, RabbitMq!TypeOK, RabbitMq!Idle, RabbitMq!At

(* Qdrant gives back no client with a request, and is connected by one.    *)
LEMMA QdLeaves == QdInv => QdrantDb!NothingLeft /\ QdrantDb!TypeOK
  BY DEF QdInv, QdState, QdOp, QdPlace, QdAsks, QdHeld, Fates,
         QdrantDb!NothingLeft, QdrantDb!TypeOK, QdrantDb!Idle, QdrantDb!At

(* The types of CQL.                                                       *)
LEMMA CqTyped == CqInv => Cassandra!TypeOK
  BY DEF CqInv, CqState, CqOp, CqPlace, CqRetry, Fates, Told, Cassandra!TypeOK, Cassandra!At

(* The types of DynamoDB.                                                  *)
LEMMA DdTyped == DdInv => DynamoDb!TypeOK
  BY DEF DdInv, DdState, DdOp, DdPlace, DdTry, Fates, Told, DynamoDb!TypeOK, DynamoDb!At

(* Nothing that is done elsewhere disturbs a part.                         *)
LEMMA PartsKept ==
    /\ Single /\ own' = own => Single'
    /\ NaInv /\ nats' = nats => NaInv'
    /\ CqInv /\ cql' = cql => CqInv'
    /\ DdInv /\ ddb' = ddb => DdInv'
    /\ MqInv /\ mq' = mq => MqInv'
    /\ QdInv /\ qd' = qd => QdInv'
    /\ CmInv /\ cmd' = cmd => CmInv'
  <1>1. Single /\ own' = own => Single'
    BY StepSingle
  <1>2. NaInv /\ nats' = nats => NaInv'
    BY DEF NaInv
  <1>3. CqInv /\ cql' = cql => CqInv'
    BY DEF CqInv
  <1>4. DdInv /\ ddb' = ddb => DdInv'
    BY DEF DdInv
  <1>5. MqInv /\ mq' = mq => MqInv'
    BY DEF MqInv
  <1>6. QdInv /\ qd' = qd => QdInv'
    BY DEF QdInv
  <1>7. CmInv /\ cmd' = cmd => CmInv'
    BY DEF CmInv
  <1> QED BY <1>1, <1>2, <1>3, <1>4, <1>5, <1>6, <1>7

(* The invariant of all parts: those of the parts.                         *)
Sound ==
    /\ part \in Part
    /\ Single /\ KpInv /\ NaInv /\ CqInv /\ DdInv /\ MqInv /\ QdInv /\ CmInv

(* A statement is sent, decided or reported as its part says, or not at    *)
(* all.                                                                    *)
Reporting ==
    /\ nats' = nats \/ NaStep
    /\ cql' = cql \/ CqStep
    /\ ddb' = ddb \/ DdStep
    /\ mq' = mq \/ MqStep
    /\ qd' = qd \/ QdStep

(* Every part begins as its invariant says.                                *)
LEMMA SoundBegins == ProvidersInit => Sound
  <1> SUFFICES ASSUME ProvidersInit PROVE Sound
    OBVIOUS
  <1>1. /\ part \in Part /\ Init /\ Publishing!Init /\ NatsServer!Init /\ Cassandra!Init
        /\ DynamoDb!Init /\ RabbitMq!Init /\ QdrantDb!Init
        /\ \/ Command!Init
           \/ cmd = [(CHOOSE start \in Command!Starts : TRUE) EXCEPT !.pc = "exit"]
    BY DEF ProvidersInit
  <1> QED BY <1>1, InitSingle, KpBegins, NaBegins, CqBegins, DdBegins, MqBegins, QdBegins, CmBegins
          DEF Sound

(* A step is one of one part, and leaves the others alone.                 *)
LEMMA SoundSteps == Sound /\ [ProvidersNext]_allvars => Sound' /\ Reporting
  <1> SUFFICES ASSUME Sound, [ProvidersNext]_allvars PROVE Sound' /\ Reporting
    OBVIOUS
  <1>0. part' = part
    BY DEF ProvidersNext, allvars, Publishes, Owns, OfNats, OfCql, OfDynamoDb, OfRabbitMq,
           OfQdrant, Commands
  <1>1. CASE Publishes(Publishing!Next)
    <2>1. /\ Publishing!Next
          /\ own' = own /\ nats' = nats /\ cql' = cql /\ ddb' = ddb /\ mq' = mq /\ qd' = qd
          /\ cmd' = cmd
      BY <1>1 DEF Publishes
    <2> QED BY <1>0, <2>1, KpSteps, PartsKept DEF Sound, Reporting
  <1>2. CASE Owns(Next)
    <2>1. /\ Next
          /\ publishing' = publishing /\ nats' = nats /\ cql' = cql /\ ddb' = ddb /\ mq' = mq
          /\ qd' = qd /\ cmd' = cmd
      BY <1>2 DEF Owns
    <2> QED BY <1>0, <2>1, StepSingle, KpKept, PartsKept DEF Sound, Reporting
  <1>3. CASE OfNats(NatsServer!Next)
    <2>1. /\ NatsServer!Next
          /\ publishing' = publishing /\ own' = own /\ cql' = cql /\ ddb' = ddb /\ mq' = mq
          /\ qd' = qd /\ cmd' = cmd
      BY <1>3 DEF OfNats
    <2> QED BY <1>0, <2>1, NaSteps, KpKept, PartsKept DEF Sound, Reporting
  <1>4. CASE OfCql(Cassandra!Next)
    <2>1. /\ Cassandra!Next
          /\ publishing' = publishing /\ own' = own /\ nats' = nats /\ ddb' = ddb /\ mq' = mq
          /\ qd' = qd /\ cmd' = cmd
      BY <1>4 DEF OfCql
    <2> QED BY <1>0, <2>1, CqSteps, KpKept, PartsKept DEF Sound, Reporting
  <1>5. CASE OfDynamoDb(DynamoDb!Next)
    <2>1. /\ DynamoDb!Next
          /\ publishing' = publishing /\ own' = own /\ nats' = nats /\ cql' = cql /\ mq' = mq
          /\ qd' = qd /\ cmd' = cmd
      BY <1>5 DEF OfDynamoDb
    <2> QED BY <1>0, <2>1, DdSteps, KpKept, PartsKept DEF Sound, Reporting
  <1>6. CASE OfRabbitMq(RabbitMq!Next)
    <2>1. /\ RabbitMq!Next
          /\ publishing' = publishing /\ own' = own /\ nats' = nats /\ cql' = cql /\ ddb' = ddb
          /\ qd' = qd /\ cmd' = cmd
      BY <1>6 DEF OfRabbitMq
    <2> QED BY <1>0, <2>1, MqSteps, KpKept, PartsKept DEF Sound, Reporting
  <1>7. CASE OfQdrant(QdrantDb!Next)
    <2>1. /\ QdrantDb!Next
          /\ publishing' = publishing /\ own' = own /\ nats' = nats /\ cql' = cql /\ ddb' = ddb
          /\ mq' = mq /\ cmd' = cmd
      BY <1>7 DEF OfQdrant
    <2> QED BY <1>0, <2>1, QdSteps, KpKept, PartsKept DEF Sound, Reporting
  <1>8. CASE Commands(Command!Next)
    <2>1. /\ Command!Next
          /\ publishing' = publishing /\ own' = own /\ nats' = nats /\ cql' = cql /\ ddb' = ddb
          /\ mq' = mq /\ qd' = qd
      BY <1>8 DEF Commands
    <2> QED BY <1>0, <2>1, CmSteps, KpKept, PartsKept DEF Sound, Reporting
  <1>9. CASE UNCHANGED allvars
    <2>1. /\ publishing' = publishing /\ own' = own /\ nats' = nats /\ cql' = cql /\ ddb' = ddb
          /\ mq' = mq /\ qd' = qd /\ cmd' = cmd
      BY <1>9 DEF allvars
    <2> QED BY <1>0, <2>1, KpKept, PartsKept DEF Sound, Reporting
  <1> QED BY <1>1, <1>2, <1>3, <1>4, <1>5, <1>6, <1>7, <1>8, <1>9 DEF ProvidersNext

(* The invariants hold always.                                             *)
LEMMA SoundAlways == ProvidersSpec => []Sound
  BY SoundBegins, SoundSteps, PTL DEF ProvidersSpec

-----------------------------------------------------------------------------
(* The types of every part, of any number of sessions, jobs, statements,   *)
(* records and messages.                                                   *)
THEOREM PartsTyped == ProvidersSpec => []ProvidersTypeOK
  <1>1. Sound => ProvidersTypeOK
    BY OwnTyped, KpAnswers, NaTold, CqTyped, DdTyped, MqLeaves, QdLeaves, CmLeaves
       DEF Sound, ProvidersTypeOK
  <1> QED BY <1>1, SoundAlways, PTL

(* For any number of sessions, however slowly they end: at most one of a   *)
(* process has native clients, it is the one with the permit, and what it  *)
(* says of its connection is true (KafkaExecutor, NATIVE_OWNER).           *)
THEOREM NativeClientsHaveOneOwner == ProvidersSpec => []OneNativeOwner
  <1>1. Sound => OneNativeOwner
    BY SingleOwner DEF Sound
  <1> QED BY <1>1, SoundAlways, PTL

(* A submission to Kafka that began with no report outstanding is told     *)
(* what became of its own records, hands over one record at most after its *)
(* caller left, and is told its own native errors: for any number of       *)
(* submissions and records (produce::send, Reports, NativeWorker::serve).  *)
THEOREM KafkaJobsStayApart == ProvidersSpec => []KafkaJobsApart
  <1>1. Sound => KafkaJobsApart
    BY KpAnswers DEF Sound, Single, KafkaJobsApart
  <1> QED BY <1>1, SoundAlways, PTL

(* Whoever follows a NATS subject has all messages from the first on in    *)
(* order, shown or yet to be shown, or an error is there or on its way:    *)
(* for any number of messages, batches, connections and any queue limit    *)
(* (NatsExecutor::fetch_tail, ClientState::callback).                      *)
THEOREM LossOfMessagesIsTold == ProvidersSpec => []LossIsTold
  <1>1. Sound => LossIsTold
    BY NaTold DEF Sound, LossIsTold
  <1> QED BY <1>1, SoundAlways, PTL

(* RabbitMQ and Qdrant give no client back whose connection has a request, *)
(* a status "Connected" of Qdrant is that of a client, and no way out of   *)
(* the program leaves an executor open.                                    *)
THEOREM NothingIsLeft == ProvidersSpec => []NothingLeft
  <1>1. Sound => NothingLeft
    BY MqLeaves, QdLeaves, CmLeaves DEF Sound, NothingLeft
  <1> QED BY <1>1, SoundAlways, PTL

(* The reports of statements to NATS, CQL, DynamoDB, RabbitMQ and Qdrant   *)
(* are those of WriteOutcome: an error only of what never left, "applied"  *)
(* only of what took effect, "rejected" only of what never will.           *)
THEOREM ReportsImplementWriteOutcome == ProvidersSpec => ImplementsWriteOutcome
  <1>1. ProvidersInit => /\ NatsServer!Statements!Init /\ Cassandra!Statements!Init
                         /\ DynamoDb!Statements!Init /\ RabbitMq!Statements!Init
                         /\ QdrantDb!Statements!Init
    BY NaOutcomes, CqOutcomes, DdOutcomes, MqOutcomes, QdOutcomes DEF ProvidersInit
  <1>2. Sound /\ [ProvidersNext]_allvars /\ Sound' =>
           /\ [NatsServer!Statements!Next]_NatsServer!Statements!vars
           /\ [Cassandra!Statements!Next]_Cassandra!Statements!vars
           /\ [DynamoDb!Statements!Next]_DynamoDb!Statements!vars
           /\ [RabbitMq!Statements!Next]_RabbitMq!Statements!vars
           /\ [QdrantDb!Statements!Next]_QdrantDb!Statements!vars
    BY SoundSteps, NaOutcomes, CqOutcomes, DdOutcomes, MqOutcomes, QdOutcomes
       DEF Sound, Reporting
  <1> QED
    BY <1>1, <1>2, SoundAlways, PTL
       DEF ProvidersSpec, ImplementsWriteOutcome,
           NatsServer!ImplementsWriteOutcome, NatsServer!Statements!Spec,
           Cassandra!ImplementsWriteOutcome, Cassandra!Statements!Spec,
           DynamoDb!ImplementsWriteOutcome, DynamoDb!Statements!Spec,
           RabbitMq!ImplementsWriteOutcome, RabbitMq!Statements!Spec,
           QdrantDb!ImplementsWriteOutcome, QdrantDb!Statements!Spec

=============================================================================
