------------------------------ MODULE KafkaOwner ------------------------------
(***************************************************************************)
(* The owner threads of the Kafka sessions (crates/kafka/src/provider.rs): *)
(* a process has one native slot, which the thread of a session holds from *)
(* its first job until its clients are gone. A request goes through a      *)
(* channel of one job; whoever cancels it does not stop the thread. The    *)
(* thread keeps a consumer and a producer, and points the one it uses at   *)
(* the diagnostics of the job it serves.                                   *)
(*                                                                         *)
(* Every session is used by a worker of its own, which asks one thing at a *)
(* time. The terminal has one session; the next one is opened while the    *)
(* last one still closes.                                                  *)
(***************************************************************************)
EXTENDS Integers, FiniteSets

CONSTANTS
    MaxSession,     \* bound: sessions
    MaxJob,         \* bound: requests of all sessions
    MaxExpired      \* bound: OAuth tokens that expire

VARIABLE own

-----------------------------------------------------------------------------
(* Data *)

Session == 1 .. MaxSession
Job == 1 .. MaxJob
Client == {"consumer", "producer"}

(* phase: what the worker does with the executor. thread: its owner.       *)
Phase == {"open", "permit", "reply", "shutdown", "closed", "failed"}
Thread == {"none", "idle", "serve", "run", "close", "gone"}

Owned(s) == own.thread[s] \notin {"none", "gone"}
Native(s) == own.clients[s] # {}
Waits(j) == own.answer[j] = "waiting"

Opened(s) == \A r \in 1 .. s - 1 : own.phase[r] \in {"shutdown", "closed", "failed"}

Fresh(j) == own.answer[j] = "none" /\ \A i \in 1 .. j - 1 : own.answer[i] # "none"

-----------------------------------------------------------------------------
(* The request side: KafkaExecutor::execute *)

(* A session without an owner first needs the permit of the process.       *)
Ask(s) ==
    /\ own.phase[s] = "open" /\ Opened(s)
    /\ \E j \in Job :
          /\ Fresh(j)
          /\ own' = [own EXCEPT !.answer[j] = "waiting", !.asked[s] = j, !.phase[s] = "permit"]

(* NATIVE_OWNER.acquire, and the thread is spawned with it.                *)
Acquire(s) ==
    /\ own.phase[s] = "permit" /\ own.thread[s] = "none" /\ own.holder = 0
    /\ own' = [own EXCEPT !.holder = s, !.thread[s] = "idle"]

(* try_send: the channel holds one job, also an abandoned one.             *)
Send(s) ==
    /\ own.phase[s] = "permit" /\ Owned(s) /\ own.slot[s] = 0
    /\ own' = [own EXCEPT !.slot[s] = own.asked[s], !.phase[s] = "reply"]

Busy(s) ==
    /\ own.phase[s] = "permit" /\ Owned(s) /\ own.slot[s] # 0
    /\ own' = [own EXCEPT !.answer[own.asked[s]] = "given", !.phase[s] = "open"]

(* context.run: a cancellation, or the deadline, with the diagnostics the  *)
(* job has collected so far; the reply has no receiver any more.           *)
Abandon(s) ==
    /\ own.phase[s] \in {"permit", "reply"} /\ Waits(own.asked[s])
    /\ own' = [own EXCEPT !.answer[own.asked[s]] = "given", !.phase[s] = "open"]

Answered(s) ==
    /\ own.phase[s] = "reply" /\ ~Waits(own.asked[s])
    /\ own' = [own EXCEPT !.phase[s] = "open"]

-----------------------------------------------------------------------------
(* The owner thread: NativeWorker::serve and handle *)

(* needs: one native client cannot both consume and produce.               *)
Receive(s) ==
    /\ own.thread[s] = "idle" /\ own.slot[s] # 0
    /\ \E k \in Client :
          own' = [own EXCEPT !.job[s] = own.slot[s], !.slot[s] = 0, !.thread[s] = "serve",
                             !.needs[s] = k]

(* The job is over; an error leaves a session connected that has a         *)
(* consumer, met no native error and still had time.                       *)
Served(s, ok, intime) ==
    LET j == own.job[s] IN
    [own EXCEPT
        !.answer[j] = "given", !.thread[s] = "idle", !.job[s] = 0, !.needs[s] = "consumer",
        !.status[s] = IF ok \/ ("consumer" \in own.clients[s] /\ own.errors[j] = {} /\ intime)
                      THEN "Connected" ELSE "Disconnected"]

(* remaining() finds the reply closed or the deadline passed, the decoders *)
(* fail their check, or the statement does not parse.                      *)
ServeFails(s) ==
    /\ own.thread[s] = "serve"
    /\ \E intime \in BOOLEAN : own' = Served(s, FALSE, intime)

(* The token of the session has expired: its clients go, and a producer    *)
(* gets a second to flush what it holds.                                   *)
Expire(s) ==
    /\ own.thread[s] = "serve" /\ own.expired < MaxExpired /\ Native(s)
    /\ own' = [own EXCEPT !.clients[s] = {}, !.expired = @ + 1]

(* The client is created unless it is there, and pointed at the job.       *)
Refresh(s) ==
    /\ own.thread[s] = "serve"
    /\ LET k == own.needs[s] IN
       own' = [own EXCEPT !.clients[s] = @ \union {k}, !.points[s][k] = own.job[s],
                          !.status[s] = IF k \in own.clients[s] THEN @ ELSE "Connecting",
                          !.thread[s] = "run"]

(* NativeContext::error, which the client calls when it is polled.         *)
NativeError(s) ==
    /\ own.thread[s] = "run"
    /\ own.job[s] \notin own.met
    /\ LET j == own.job[s] IN
       own' = [own EXCEPT !.errors[own.points[s][own.needs[s]]] = @ \union {j},
                          !.met = @ \union {j}, !.status[s] = "Disconnected"]

(* A page, a check or a delivery report; job.remaining() is asked last, of *)
(* a consumer only.                                                        *)
RunEnds(s) ==
    /\ own.thread[s] = "run"
    /\ \E ok, intime \in BOOLEAN :
          /\ ok /\ own.needs[s] = "consumer" => Waits(own.job[s]) /\ intime
          /\ own' = Served(s, ok, intime)

-----------------------------------------------------------------------------
(* The end of a session *)

(* shutdown: the sender is dropped, what lies in the channel is still      *)
(* served.                                                                 *)
Shutdown(s) ==
    /\ own.phase[s] = "open" /\ Opened(s)
    /\ own' = [own EXCEPT !.phase[s] = "shutdown", !.status[s] = "Closing"]

(* Mutation: the permit is given back before the clients are gone.         *)
HangupReleases(s) ==
    /\ own.thread[s] = "idle" /\ own.slot[s] = 0
    /\ own.phase[s] \in {"shutdown", "failed"}
    /\ own' = [own EXCEPT !.thread[s] = "close", !.holder = 0]

Hangup(s) ==
    /\ own.thread[s] = "idle" /\ own.slot[s] = 0
    /\ own.phase[s] \in {"shutdown", "failed"}
    /\ own' = [own EXCEPT !.thread[s] = "close"]

(* close: the consumer is dropped and the producer flushed, which may take *)
(* five seconds; then the permit is free again.                            *)
Close(s) ==
    /\ own.thread[s] = "close"
    /\ own' = [own EXCEPT !.thread[s] = "gone", !.clients[s] = {}, !.holder = 0,
                          !.status[s] = "Closed"]

ShutdownEnds(s) ==
    /\ own.phase[s] = "shutdown" /\ ~Owned(s)
    /\ own' = [own EXCEPT !.phase[s] = "closed", !.status[s] = "Closed"]

(* The grace period is over: the slot remains reserved.                    *)
ShutdownFails(s) ==
    /\ own.phase[s] = "shutdown" /\ Owned(s)
    /\ own' = [own EXCEPT !.phase[s] = "failed"]

-----------------------------------------------------------------------------
Init ==
    own = [holder |-> 0, phase |-> [s \in Session |-> "open"],
           thread |-> [s \in Session |-> "none"], slot |-> [s \in Session |-> 0],
           job |-> [s \in Session |-> 0], asked |-> [s \in Session |-> 0],
           clients |-> [s \in Session |-> {}],
           points |-> [s \in Session |-> [k \in Client |-> 0]],
           status |-> [s \in Session |-> "Configured"],
           needs |-> [s \in Session |-> "consumer"],
           answer |-> [j \in Job |-> "none"],
           errors |-> [j \in Job |-> {}], met |-> {}, expired |-> 0]

(* What the worker's side does by itself.                                  *)
Caller(s) ==
    Send(s) \/ Busy(s) \/ Abandon(s) \/ Answered(s) \/ ShutdownEnds(s) \/ ShutdownFails(s)

(* What the thread does by itself: native calls are bounded by a job's     *)
(* remaining time.                                                         *)
Owner(s) == Receive(s) \/ ServeFails(s) \/ Refresh(s) \/ RunEnds(s) \/ Hangup(s) \/ Close(s)

Done == (\A s \in Session : own.phase[s] \in {"closed", "failed"} /\ ~Owned(s)) /\ UNCHANGED own

Next ==
    \/ \E s \in Session :
          Ask(s) \/ Acquire(s) \/ Caller(s) \/ Owner(s) \/ Expire(s) \/ NativeError(s) \/ Shutdown(s)
    \/ Done

Spec == Init /\ [][Next]_own

-----------------------------------------------------------------------------
(* Properties *)

TypeOK ==
    /\ own.holder \in {0} \union Session
    /\ own.phase \in [Session -> Phase] /\ own.thread \in [Session -> Thread]
    /\ own.slot \in [Session -> {0} \union Job] /\ own.job \in [Session -> {0} \union Job]
    /\ own.clients \in [Session -> SUBSET Client]
    /\ own.answer \in [Job -> {"none", "waiting", "given"}]

(* However slowly a session ends, the process never has the native clients *)
(* of two sessions; a session that says it is connected has a client, and  *)
(* one that has closed says so for good.                                   *)
OneNativeOwner ==
    /\ Cardinality({s \in Session : Native(s)}) <= 1
    /\ \A s \in Session :
          /\ Owned(s) <=> own.holder = s
          /\ own.status[s] = "Connected" /\ own.thread[s] = "idle" /\ own.phase[s] = "open"
                => Native(s)
          /\ own.thread[s] = "gone" /\ own.phase[s] # "shutdown" => own.status[s] = "Closed"

(* The diagnostics of a request are the native errors that came while it   *)
(* was served, all of them and no others.                                  *)
DiagnosticsOwn ==
    \A j \in Job : own.errors[j] = (IF j \in own.met THEN {j} ELSE {})

=============================================================================
