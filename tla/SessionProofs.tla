---------------------------- MODULE SessionProofs ----------------------------
(***************************************************************************)
(* For every set of connections and every bound: at most one executor is   *)
(* alive, and the loop's; Session implements Foreground, its requests stay *)
(* in order, which is that what the loop keeps of a request, wherever the  *)
(* user is by now, is true of the task that has it (RequestsInOrder), and  *)
(* a page is only ever shown in the session it was asked in                *)
(* (PagesFromOwnSession). The invariant Asked relates the three places a   *)
(* request's number is kept: App's generation, the worker's request, and   *)
(* the task.                                                               *)
(***************************************************************************)
EXTENDS Session, TLAPS

-----------------------------------------------------------------------------
(* Records: reading a field, and replacing one by a value of its type. The *)
(* operators below replace several fields at once, one lemma per field is  *)
(* what the prover can use for them.                                       *)

LEMMA NothingType == NoRequest \in Request /\ NoReply \in Reply
BY DEF Request, NoRequest, Reply, NoReply

LEMMA RequestFields ==
    ASSUME NEW r \in Request
    PROVE  r.id \in Nat /\ r.alias \in Alias \cup {NoAlias} /\ r.follow \in BOOLEAN
BY DEF Request

LEMMA AppFields ==
    ASSUME NEW a \in App
    PROVE  /\ a.generation \in Nat /\ a.session \in Nat
           /\ a.loaded \in Nat /\ a.status \in Nat
           /\ a.alias \in Alias \cup {NoAlias}
           /\ a.request \in Request
           /\ a.loading \in BOOLEAN /\ a.following \in BOOLEAN
           /\ a.due \in BOOLEAN /\ a.opening \in BOOLEAN
           /\ a.failed \in BOOLEAN /\ a.quit \in BOOLEAN
BY DEF App

LEMMA AppBooleans ==
    ASSUME NEW a \in App, NEW x \in BOOLEAN
    PROVE  /\ [a EXCEPT !.loading = x] \in App
           /\ [a EXCEPT !.following = x] \in App
           /\ [a EXCEPT !.due = x] \in App
           /\ [a EXCEPT !.opening = x] \in App
           /\ [a EXCEPT !.failed = x] \in App
           /\ [a EXCEPT !.quit = x] \in App
BY DEF App

LEMMA AppNumbers ==
    ASSUME NEW a \in App, NEW n \in Nat
    PROVE  /\ [a EXCEPT !.generation = n] \in App
           /\ [a EXCEPT !.session = n] \in App
           /\ [a EXCEPT !.loaded = n] \in App
           /\ [a EXCEPT !.status = n] \in App
BY DEF App

LEMMA AppRequest ==
    ASSUME NEW a \in App, NEW r \in Request PROVE [a EXCEPT !.request = r] \in App
BY DEF App

LEMMA AppAlias ==
    ASSUME NEW a \in App, NEW alias \in Alias \cup {NoAlias}
    PROVE  [a EXCEPT !.alias = alias] \in App
BY DEF App

-----------------------------------------------------------------------------
(* The methods of App keep its type. *)

LEMMA InvalidateType == ASSUME NEW a \in App PROVE Invalidate(a) \in App
<1>1. a.generation + 1 \in Nat
  BY AppFields
<1> QED BY <1>1, AppBooleans, AppNumbers, AppRequest, NothingType DEF Invalidate

LEMMA InvalidateFields ==
    ASSUME NEW a \in App
    PROVE  /\ Invalidate(a).generation = a.generation + 1
           /\ Invalidate(a).session = a.session
           /\ Invalidate(a).alias = a.alias
BY DEF Invalidate, App

LEMMA ConnectionsType == ASSUME NEW a \in App PROVE Connections(a) \in App
<1>1. Invalidate(a).session + 1 \in Nat
  BY InvalidateType, AppFields
<1> QED BY <1>1, InvalidateType, AppNumbers, AppAlias DEF Connections

LEMMA LoadType ==
    ASSUME NEW a \in App, NEW alias \in Alias \cup {NoAlias}
    PROVE  Load(a, alias) \in App
<1>1. [id |-> a.generation + 1, alias |-> alias, follow |-> FALSE] \in Request
  BY AppFields DEF Request
<1> QED BY <1>1, InvalidateType, AppBooleans, AppAlias, AppRequest DEF Load

LEMMA QueueFollowType == ASSUME NEW a \in App PROVE QueueFollow(a) \in App
<1>1. [id |-> a.generation + 1, alias |-> a.alias, follow |-> TRUE] \in Request
  BY AppFields DEF Request
<1>2. a.generation + 1 \in Nat
  BY AppFields
<1> QED BY <1>1, <1>2, AppBooleans, AppNumbers, AppRequest DEF QueueFollow

LEMMA OpenConnectionType ==
    ASSUME NEW a \in App, NEW alias \in Alias PROVE OpenConnection(a, alias) \in App
<1>1. Load(a, alias) \in App
  BY LoadType
<1>2. Load(a, alias).session + 1 \in Nat /\ a.session + 1 \in Nat
  BY <1>1, AppFields
<1> QED BY <1>1, <1>2, AppBooleans, AppNumbers DEF OpenConnection

LEMMA StartFollowType == ASSUME NEW a \in App PROVE StartFollow(a) \in App
BY InvalidateType, AppBooleans, QueueFollowType DEF StartFollow

LEMMA GoBackType ==
    ASSUME NEW a \in App, NEW toList \in BOOLEAN PROVE GoBack(a, toList) \in App
<1>1. Invalidate(a).session + 1 \in Nat
  BY InvalidateType, AppFields
<1> QED BY <1>1, InvalidateType, AppNumbers, AppAlias DEF GoBack

LEMMA StopFollowingType == ASSUME NEW a \in App PROVE StopFollowing(a) \in App
BY InvalidateType DEF StopFollowing

LEMMA CompleteType ==
    ASSUME NEW a \in App, NEW request \in Request, NEW ok \in BOOLEAN,
           NEW from \in Nat
    PROVE  Complete(a, request, ok, from) \in App
<1>1. CompleteFollow(a, ok, from) \in App
  BY AppBooleans, AppNumbers DEF CompleteFollow
<1>2. CompletePage(a, ok, from) \in App
  BY ConnectionsType, AppBooleans, AppNumbers DEF CompletePage
<1> QED BY <1>1, <1>2 DEF Complete

LEMMA UpdateStatusType ==
    ASSUME NEW a \in App, NEW session \in Nat, NEW alias
    PROVE  UpdateStatus(a, session, alias) \in App
BY AppNumbers DEF UpdateStatus

-----------------------------------------------------------------------------
(* The same for the worker and the tasks. *)

LEMMA NoWorkerType == NoWorker \in Worker
BY NothingType, BoundAssumption DEF NoWorker, Worker

LEMMA WorkerFields ==
    ASSUME NEW w \in Worker
    PROVE  /\ w.task \in 0 .. MaxTask /\ w.session \in Nat /\ w.cancel \in Nat
           /\ w.alias \in Alias \cup {NoAlias}
           /\ w.request \in Request
           /\ w.follow \in BOOLEAN /\ w.closing \in BOOLEAN
BY DEF Worker

LEMMA WorkerBooleans ==
    ASSUME NEW w \in Worker, NEW x \in BOOLEAN
    PROVE  [w EXCEPT !.follow = x] \in Worker /\ [w EXCEPT !.closing = x] \in Worker
BY DEF Worker

LEMMA WorkerNumbers ==
    ASSUME NEW w \in Worker, NEW n \in Nat
    PROVE  [w EXCEPT !.cancel = n] \in Worker /\ [w EXCEPT !.session = n] \in Worker
BY DEF Worker

LEMMA WorkerRequest ==
    ASSUME NEW w \in Worker, NEW r \in Request PROVE [w EXCEPT !.request = r] \in Worker
BY DEF Worker

LEMMA WorkerTask ==
    ASSUME NEW w \in Worker, NEW t \in 0 .. MaxTask PROVE [w EXCEPT !.task = t] \in Worker
BY DEF Worker

LEMMA WorkerAlias ==
    ASSUME NEW w \in Worker, NEW alias \in Alias \cup {NoAlias}
    PROVE  [w EXCEPT !.alias = alias] \in Worker
BY DEF Worker

LEMMA UnbornType == Unborn \in Task
BY NothingType DEF Unborn, Task, TaskState

LEMMA TaskFields ==
    ASSUME NEW k \in Task
    PROVE  /\ k.pc \in TaskState /\ k.session \in Nat /\ k.fired \in Nat
           /\ k.alias \in Alias \cup {NoAlias}
           /\ k.command \in Request /\ k.current \in Request
           /\ k.reply \in Reply
           /\ k.paused \in BOOLEAN /\ k.stop \in BOOLEAN
           /\ k.subscribed \in BOOLEAN /\ k.news \in BOOLEAN /\ k.ok \in BOOLEAN
BY DEF Task

LEMMA TaskBooleans ==
    ASSUME NEW k \in Task, NEW x \in BOOLEAN
    PROVE  /\ [k EXCEPT !.paused = x] \in Task
           /\ [k EXCEPT !.stop = x] \in Task
           /\ [k EXCEPT !.subscribed = x] \in Task
           /\ [k EXCEPT !.news = x] \in Task
           /\ [k EXCEPT !.ok = x] \in Task
BY DEF Task

LEMMA TaskNumbers ==
    ASSUME NEW k \in Task, NEW n \in Nat
    PROVE  [k EXCEPT !.session = n] \in Task /\ [k EXCEPT !.fired = n] \in Task
BY DEF Task

LEMMA TaskAlias ==
    ASSUME NEW k \in Task, NEW alias \in Alias \cup {NoAlias}
    PROVE  [k EXCEPT !.alias = alias] \in Task
BY DEF Task

LEMMA TaskProgress ==
    ASSUME NEW k \in Task, NEW pc \in TaskState PROVE [k EXCEPT !.pc = pc] \in Task
BY DEF Task

LEMMA TaskRequests ==
    ASSUME NEW k \in Task, NEW r \in Request
    PROVE  [k EXCEPT !.command = r] \in Task /\ [k EXCEPT !.current = r] \in Task
BY DEF Task

LEMMA TaskReply ==
    ASSUME NEW k \in Task, NEW m \in Reply PROVE [k EXCEPT !.reply = m] \in Task
BY DEF Task

LEMMA SignalledType ==
    ASSUME NEW k \in Task, NEW pauses \in BOOLEAN, NEW stops \in BOOLEAN,
           NEW cancel \in Nat
    PROVE  Signalled(k, pauses, stops, cancel) \in Task
<1>1. /\ (k.paused \/ pauses) \in BOOLEAN
      /\ (k.stop \/ stops) \in BOOLEAN
      /\ (IF cancel # 0 THEN cancel ELSE k.fired) \in Nat
  BY TaskFields
<1> QED BY <1>1, TaskBooleans, TaskNumbers DEF Signalled

-----------------------------------------------------------------------------
(* Type correctness *)

LEMMA TypeInit == Init => TypeOK
<1> SUFFICES ASSUME Init PROVE TypeOK
  OBVIOUS
<1>1. Blank \in App
  BY NothingType DEF Blank, App
<1>2. app \in App
  BY <1>1, ConnectionsType, OpenConnectionType DEF Init
<1>3. task \in [TaskId -> Task]
  BY UnbornType DEF Init
<1> QED BY <1>2, <1>3, NoWorkerType, BoundAssumption DEF Init, TypeOK, UiState

(* The loop waits, something changes App, and the iteration ends.          *)
LEMMA AppStepType ==
    ASSUME TypeOK, NEW next \in App, AppStep(next) PROVE TypeOK'
BY DEF AppStep, TypeOK, UiState

LEMMA UserType == ASSUME TypeOK, UserStep PROVE TypeOK'
<1>0. app \in App
  BY DEF TypeOK
<1>1. CASE UserOpensConnection
  BY <1>0, <1>1, OpenConnectionType, AppStepType DEF UserOpensConnection
<1>2. CASE UserLoads
  BY <1>0, <1>2, StopFollowingType, LoadType, AppFields, AppStepType DEF UserLoads
<1>3. CASE UserStartsFollowing
  BY <1>0, <1>3, StartFollowType, AppStepType DEF UserStartsFollowing
<1>4. CASE UserInvalidates
  BY <1>0, <1>4, InvalidateType, AppStepType DEF UserInvalidates
<1>5. CASE UserGoesBack
  BY <1>0, <1>5, StopFollowingType, GoBackType, AppStepType DEF UserGoesBack
<1>6. CASE UserShowsConnections
  BY <1>0, <1>6, StopFollowingType, ConnectionsType, AppStepType DEF UserShowsConnections
<1>7. CASE UserCancels
  BY <1>0, <1>7, InvalidateType, AppBooleans, AppStepType DEF UserCancels
<1>8. CASE UserConfirmsQuit
  BY <1>0, <1>8, InvalidateType, AppBooleans, AppStepType DEF UserConfirmsQuit
<1> QED BY <1>1, <1>2, <1>3, <1>4, <1>5, <1>6, <1>7, <1>8 DEF UserStep

LEMMA FollowTickType == ASSUME TypeOK, FollowTick PROVE TypeOK'
<1>0. app \in App
  BY DEF TypeOK
<1> QED BY <1>0, QueueFollowType, AppStepType DEF FollowTick

LEMMA LoopType == ASSUME TypeOK, LoopStep PROVE TypeOK'
<1>0. /\ app \in App /\ worker \in Worker /\ task \in [TaskId -> Task]
      /\ spawned \in 0 .. MaxTask /\ answered \in Nat
  BY DEF TypeOK
<1>1. CASE Retire
  <2>1. CASE worker.task = 0
    BY <1>1, <2>1 DEF Retire, RetireBy, TypeOK, UiState
  <2>2. CASE worker.task # 0
    <3>0. worker.task \in TaskId /\ Pauses \in BOOLEAN /\ Stops \in BOOLEAN
      BY <1>0, <2>2, WorkerFields, AppFields, BoundAssumption DEF TaskId, Pauses, Stops
    <3> DEFINE fires == worker.cancel # 0 /\ (Pauses \/ Stops \/ Stale)
    <3>1. /\ (worker.follow /\ ~Pauses) \in BOOLEAN
          /\ (worker.closing \/ Stops) \in BOOLEAN
          /\ (IF fires THEN 0 ELSE worker.cancel) \in Nat
          /\ (IF fires THEN worker.cancel ELSE 0) \in Nat
      BY <1>0, WorkerFields
    <3>2. worker' \in Worker
      <4>1. worker' = [worker EXCEPT !.follow  = worker.follow /\ ~Pauses,
                                     !.closing = worker.closing \/ Stops,
                                     !.cancel  = IF fires THEN 0 ELSE worker.cancel]
        BY <1>1, <2>2 DEF Retire, RetireBy
      <4> QED BY <1>0, <3>1, <4>1, WorkerBooleans, WorkerNumbers
    <3>3. task' \in [TaskId -> Task]
      <4>1. Signal(Pauses, Stops, IF fires THEN worker.cancel ELSE 0)
        BY <1>1, <2>2 DEF Retire, RetireBy
      <4>2. Signalled(task[worker.task], Pauses, Stops,
                      IF fires THEN worker.cancel ELSE 0) \in Task
        BY <1>0, <3>0, <3>1, SignalledType
      <4> QED BY <1>0, <3>0, <4>1, <4>2 DEF Signal
    <3> QED BY <1>1, <3>2, <3>3 DEF Retire, RetireBy, TypeOK, UiState
  <2> QED BY <2>1, <2>2
<1>2. CASE ConfigureSpawns
  <2>1. spawned' \in 0 .. MaxTask /\ spawned' \in TaskId
    BY <1>0, <1>2, BoundAssumption DEF ConfigureSpawns, TaskId
  <2>2. app.request.alias \in Alias \cup {NoAlias} /\ app.session \in Nat
    BY <1>0, AppFields, RequestFields
  <2>3. worker' \in Worker
    BY <1>2, <2>1, <2>2, NoWorkerType, WorkerTask, WorkerAlias, WorkerNumbers DEF ConfigureSpawns
  <2>4. [Unborn EXCEPT !.pc = "select", !.alias = app.request.alias,
                       !.session = app.session] \in Task
    BY <2>2, UnbornType, TaskProgress, TaskAlias, TaskNumbers DEF TaskState
  <2>5. task' \in [TaskId -> Task]
    BY <1>0, <1>2, <2>1, <2>4 DEF ConfigureSpawns
  <2> QED BY <1>2, <2>1, <2>3, <2>5 DEF ConfigureSpawns, TypeOK, UiState
<1>3. CASE ConfigureFails
  <2>1. [app EXCEPT !.request = NoRequest] \in App /\ app.request \in Request
    BY <1>0, AppRequest, AppFields, NothingType
  <2>2. app' \in App /\ answered' \in Nat
    BY <1>3, <2>1, CompleteType, RequestFields DEF ConfigureFails
  <2> QED BY <1>3, <2>2 DEF ConfigureFails, TypeOK, UiState
<1>4. CASE ConfigureNothing
  BY <1>4 DEF ConfigureNothing, TypeOK, UiState
<1>5. CASE Submit
  <2>1. worker.task \in TaskId
    BY <1>0, <1>5, WorkerFields, BoundAssumption DEF Submit, CanSubmit, TaskId
  <2>2. app.request \in Request /\ app.request.id \in Nat
        /\ (worker.follow \/ app.request.follow) \in BOOLEAN
    BY <1>0, AppFields, RequestFields, WorkerFields
  <2>3. worker' \in Worker
    BY <1>0, <1>5, <2>2, WorkerRequest, WorkerNumbers, WorkerBooleans DEF Submit
  <2>4. app' \in App
    BY <1>0, <1>5, AppRequest, NothingType DEF Submit
  <2>5. task' \in [TaskId -> Task]
    BY <1>0, <1>5, <2>1, <2>2, TaskRequests, NothingType DEF Submit
  <2> QED BY <1>5, <2>3, <2>4, <2>5 DEF Submit, TypeOK, UiState
<1>6. CASE SubmitFails
  BY <1>0, <1>6, AppRequest, NothingType DEF SubmitFails, TypeOK, UiState
<1>7. CASE SubmitNothing
  BY <1>7 DEF SubmitNothing, TypeOK, UiState
<1> QED BY <1>1, <1>2, <1>3, <1>4, <1>5, <1>6, <1>7 DEF LoopStep

LEMMA AbortType ==
    ASSUME task \in [TaskId -> Task], NEW t \in TaskId PROVE Abort(t) \in [TaskId -> Task]
<1>1. task[t] \in Task
  OBVIOUS
<1>2. [task[t] EXCEPT !.pc = "done", !.ok = FALSE, !.command = NoRequest,
                      !.current = NoRequest, !.subscribed = FALSE] \in Task
  BY <1>1, TaskProgress, TaskBooleans, TaskRequests, NothingType DEF TaskState
<1> QED BY <1>2 DEF Abort

LEMMA WorkerEventType == ASSUME TypeOK, WorkerEvent PROVE TypeOK'
<1>0. /\ app \in App /\ worker \in Worker /\ task \in [TaskId -> Task]
      /\ answered \in Nat
  BY DEF TypeOK
<1>1. worker.task \in TaskId
  BY <1>0, WorkerFields, BoundAssumption
  DEF WorkerEvent, WorkerFinished, ClosingTimesOut, WorkerReplies, Deliver,
      WorkerStatus, Listening, TaskId
<1> DEFINE k == task[worker.task]
<1>2. k \in Task
  BY <1>0, <1>1
<1>3. CASE WorkerFinished
  BY <1>3, NoWorkerType DEF WorkerFinished, TypeOK, UiState
<1>4. CASE ClosingTimesOut
  BY <1>0, <1>1, <1>4, NoWorkerType, AbortType DEF ClosingTimesOut, TypeOK, UiState
<1>5. CASE WorkerReplies
  <2>1. /\ k.reply.id \in Nat /\ k.reply.ok \in BOOLEAN /\ k.session \in Nat
        /\ worker.request \in Request
    BY <1>0, <1>2, TaskFields, WorkerFields DEF Reply
  <2>2. Complete(app, worker.request, k.reply.ok, k.session) \in App
    BY <1>0, <2>1, CompleteType
  <2>3. app' \in App
    BY <1>0, <1>5, <2>2 DEF WorkerReplies, Deliver
  <2>4. worker' \in Worker
    BY <1>0, <1>5, NothingType, WorkerRequest, WorkerNumbers DEF WorkerReplies, Deliver
  <2>5. task' \in [TaskId -> Task]
    BY <1>0, <1>1, <1>2, <1>5, NothingType, TaskReply DEF WorkerReplies, Deliver
  <2>6. answered' \in Nat
    BY <1>0, <1>5, <2>1 DEF WorkerReplies, Deliver
  <2> QED BY <1>5, <2>3, <2>4, <2>5, <2>6 DEF WorkerReplies, Deliver, TypeOK, UiState
<1>6. CASE WorkerStatus
  <2>1. app' \in App
    BY <1>0, <1>6, UpdateStatusType, WorkerFields DEF WorkerStatus
  <2>2. task' \in [TaskId -> Task]
    BY <1>0, <1>1, <1>2, <1>6, TaskBooleans DEF WorkerStatus
  <2> QED BY <1>6, <2>1, <2>2 DEF WorkerStatus, TypeOK, UiState
<1> QED BY <1>3, <1>4, <1>5, <1>6 DEF WorkerEvent

(* The loop joins a task only if it has one.                               *)
JoinsOwn == ui = "joining" => worker.task # 0

LEMMA ExitType == ASSUME TypeOK, JoinsOwn, Exit PROVE TypeOK'
<1>0. worker \in Worker /\ task \in [TaskId -> Task]
  BY DEF TypeOK
<1>1. CASE StopWorker
  <2>1. CASE worker.task = 0
    BY <1>1, <2>1 DEF StopWorker, TypeOK, UiState
  <2>2. CASE worker.task # 0
    <3>1. worker.task \in TaskId /\ worker.cancel \in Nat
      BY <1>0, <2>2, WorkerFields, BoundAssumption DEF TaskId
    <3>2. Signalled(task[worker.task], FALSE, TRUE, worker.cancel) \in Task
      BY <1>0, <3>1, SignalledType
    <3>3. task' \in [TaskId -> Task]
      BY <1>0, <1>1, <2>2, <3>1, <3>2 DEF StopWorker, Signal
    <3>4. worker' \in Worker
      <4>1. worker' = [worker EXCEPT !.closing = TRUE, !.cancel = 0]
        BY <1>1, <2>2 DEF StopWorker
      <4>2. [worker EXCEPT !.closing = TRUE] \in Worker
        BY <1>0, WorkerBooleans
      <4> QED BY <4>1, <4>2, WorkerNumbers
    <3> QED BY <1>1, <2>2, <3>3, <3>4 DEF StopWorker, TypeOK, UiState
  <2> QED BY <2>1, <2>2
<1>2. CASE JoinEnds
  BY <1>2 DEF JoinEnds, TypeOK, UiState
<1>3. CASE JoinTimesOut
  <2>1. worker.task \in TaskId
    BY <1>0, <1>3, WorkerFields, BoundAssumption DEF JoinTimesOut, JoinsOwn, TaskId
  <2> QED BY <1>0, <1>3, <2>1, AbortType DEF JoinTimesOut, TypeOK, UiState
<1> QED BY <1>1, <1>2, <1>3 DEF Exit

LEMMA TaskStepType ==
    ASSUME TypeOK, NEW t \in TaskId, NEW next \in Task, TaskStep(t, next)
    PROVE  TypeOK'
BY DEF TypeOK, TaskStep

LEMMA TaskType == ASSUME TypeOK, NEW t \in TaskId, TaskNext(t) PROVE TypeOK'
<1> DEFINE k == task[t]
<1>0. k \in Task
  BY DEF TypeOK
<1> USE DEF TaskState
<1>1. CASE TaskStops(t)
  <2>1. [k EXCEPT !.pc = "shutting", !.current = NoRequest] \in Task
    BY <1>0, NothingType, TaskProgress, TaskRequests
  <2> QED BY <1>1, <2>1, TaskStepType DEF TaskStops
<1>2. CASE TaskPauses(t)
  <2>1. [k EXCEPT !.pc = "pausing", !.paused = FALSE] \in Task
    BY <1>0, TaskProgress, TaskBooleans
  <2> QED BY <1>2, <2>1, TaskStepType DEF TaskPauses
<1>3. CASE TaskReleases(t)
  <2>1. [k EXCEPT !.pc = "select", !.subscribed = FALSE] \in Task
    BY <1>0, TaskProgress, TaskBooleans
  <2> QED BY <1>3, <2>1, TaskStepType DEF TaskReleases
<1>4. CASE TaskReleaseFails(t)
  <2>1. [k EXCEPT !.pc = "done", !.ok = FALSE, !.command = NoRequest,
                  !.subscribed = FALSE, !.news = TRUE] \in Task
    BY <1>0, NothingType, TaskProgress, TaskBooleans, TaskRequests
  <2> QED BY <1>4, <2>1, TaskStepType DEF TaskReleaseFails
<1>5. CASE TaskStarts(t)
  <2>1. ASSUME NEW pc \in TaskState
        PROVE  [k EXCEPT !.pc = pc, !.current = k.command,
                         !.command = NoRequest, !.ok = FALSE] \in Task
    BY <1>0, NothingType, TaskFields, TaskProgress, TaskBooleans, TaskRequests
  <2> QED BY <1>5, <2>1, TaskStepType DEF TaskStarts
<1>6. CASE TaskSucceeds(t)
  <2>1. (k.subscribed \/ k.current.follow) \in BOOLEAN
    BY <1>0, TaskFields
  <2>2. [k EXCEPT !.pc = "sending", !.ok = TRUE, !.news = TRUE,
                  !.subscribed = k.subscribed \/ k.current.follow] \in Task
    BY <1>0, <2>1, TaskProgress, TaskBooleans
  <2> QED BY <1>6, <2>2, TaskStepType DEF TaskSucceeds
<1>7. CASE TaskFails(t)
  <2>1. ASSUME NEW keeps \in BOOLEAN
        PROVE  [k EXCEPT !.pc = "sending", !.ok = FALSE, !.news = TRUE,
                         !.subscribed = k.subscribed /\ keeps] \in Task
    BY <1>0, TaskProgress, TaskBooleans
  <2> QED BY <1>7, <2>1, TaskStepType DEF TaskFails
<1>8. CASE TaskReplies(t)
  <2>1. [id |-> k.current.id, ok |-> k.ok] \in Reply
    BY <1>0, TaskFields, RequestFields DEF Reply
  <2>2. [k EXCEPT !.pc = "select", !.current = NoRequest, !.ok = FALSE,
                  !.reply = [id |-> k.current.id, ok |-> k.ok]] \in Task
    BY <1>0, <2>1, NothingType, TaskProgress, TaskBooleans, TaskRequests, TaskReply
  <2> QED BY <1>8, <2>2, TaskStepType DEF TaskReplies
<1>9. CASE TaskEnds(t)
  <2>1. ASSUME NEW ok \in BOOLEAN
        PROVE  [k EXCEPT !.pc = "done", !.ok = ok, !.news = TRUE,
                         !.command = NoRequest, !.subscribed = FALSE] \in Task
    BY <1>0, NothingType, TaskProgress, TaskBooleans, TaskRequests
  <2> QED BY <1>9, <2>1, TaskStepType DEF TaskEnds
<1> QED BY <1>1, <1>2, <1>3, <1>4, <1>5, <1>6, <1>7, <1>8, <1>9 DEF TaskNext

LEMMA TypeStep == ASSUME TypeOK, JoinsOwn, [Next]_vars PROVE TypeOK'
<1>1. CASE InputFails
  BY <1>1 DEF InputFails, TypeOK, UiState
<1>2. CASE UNCHANGED vars
  BY <1>2 DEF TypeOK, vars
<1> QED BY <1>1, <1>2, UserType, FollowTickType, LoopType, WorkerEventType,
           ExitType, TaskType DEF Next, Exited

-----------------------------------------------------------------------------
(* One executor at a time. Only ConfigureSpawns brings a task to life, and *)
(* only while the loop holds no worker: then no task can be alive, because *)
(* a live task is always the worker's. The worker is given up only when    *)
(* its task has ended. OneExecutor is inductive once JoinsOwn says which   *)
(* task JoinTimesOut aborts.                                               *)

Owned == TypeOK /\ OneExecutor /\ JoinsOwn

LEMMA OwnedInit == Init => Owned
BY TypeInit DEF Init, Owned, OneExecutor, JoinsOwn, Live, Unborn

(* Steps that neither end nor start a task, nor change the worker's.       *)
LEMMA QuietStep ==
    ASSUME OneExecutor, worker'.task = worker.task,
           \A t \in TaskId : task'[t].pc = task[t].pc
    PROVE  OneExecutor'
BY DEF OneExecutor, Live

LEMMA SignalKeepsPc ==
    ASSUME TypeOK, worker.task # 0, NEW pauses, NEW stops, NEW cancel,
           Signal(pauses, stops, cancel)
    PROVE  \A t \in TaskId : task'[t].pc = task[t].pc
<1>1. /\ worker.task \in TaskId
      /\ task \in [TaskId -> Task]
  BY WorkerFields, BoundAssumption DEF TypeOK, TaskId
<1>2. task[worker.task] \in Task
  BY <1>1
<1>3. Signalled(task[worker.task], pauses, stops, cancel).pc = task[worker.task].pc
  BY <1>2 DEF Signalled, Task
<1> QED BY <1>1, <1>3 DEF Signal

LEMMA AppStepOwned == ASSUME Owned, NEW next, AppStep(next) PROVE OneExecutor' /\ JoinsOwn'
BY QuietStep DEF AppStep, Owned, JoinsOwn

LEMMA UserOwned == ASSUME Owned, UserStep \/ FollowTick PROVE OneExecutor' /\ JoinsOwn'
BY AppStepOwned
DEF UserStep, UserOpensConnection, UserLoads, UserStartsFollowing, UserInvalidates,
    UserGoesBack, UserShowsConnections, UserCancels, UserConfirmsQuit, FollowTick

LEMMA LoopOwned == ASSUME Owned, LoopStep PROVE OneExecutor' /\ JoinsOwn'
<1>0. /\ worker \in Worker /\ task \in [TaskId -> Task] /\ OneExecutor /\ TypeOK
  BY DEF Owned, TypeOK
<1>1. JoinsOwn'
  BY DEF LoopStep, Retire, RetireBy, ConfigureSpawns, ConfigureFails,
         ConfigureNothing, Submit, SubmitFails, SubmitNothing, JoinsOwn
<1>2. CASE Retire
  <2>1. worker'.task = worker.task
    BY <1>0, <1>2 DEF Retire, RetireBy, Worker
  <2>2. \A t \in TaskId : task'[t].pc = task[t].pc
    BY <1>0, <1>2, SignalKeepsPc DEF Retire, RetireBy
  <2> QED BY <1>0, <1>1, <2>1, <2>2, QuietStep
<1>3. CASE ConfigureSpawns
  <2>1. \A t \in TaskId : ~Live(t)
    BY <1>0, <1>3 DEF ConfigureSpawns, NeedsExecutor, OneExecutor, TaskId
  <2>2. worker'.task = spawned'
    BY <1>3 DEF ConfigureSpawns, NoWorker
  <2>3. \A t \in TaskId : t # spawned' => task'[t] = task[t]
    BY <1>0, <1>3 DEF ConfigureSpawns
  <2> QED BY <1>1, <2>1, <2>2, <2>3 DEF OneExecutor, Live
<1>4. CASE Submit
  <2>1. worker'.task = worker.task
    BY <1>0, <1>4 DEF Submit, Worker
  <2>2. \A t \in TaskId : task'[t].pc = task[t].pc
    BY <1>0, <1>4 DEF Submit, Task
  <2> QED BY <1>0, <1>1, <2>1, <2>2, QuietStep
<1>5. CASE ConfigureFails \/ ConfigureNothing \/ SubmitFails \/ SubmitNothing
  BY <1>0, <1>1, <1>5, QuietStep
  DEF ConfigureFails, ConfigureNothing, SubmitFails, SubmitNothing
<1> QED BY <1>2, <1>3, <1>4, <1>5 DEF LoopStep

LEMMA AbortOwned ==
    ASSUME Owned, worker.task \in TaskId, task' = Abort(worker.task)
    PROVE  \A t \in TaskId : ~Live(t)'
<1>1. task'[worker.task].pc = "done"
  BY DEF Abort, Owned, TypeOK, Task
<1>2. \A t \in TaskId : t # worker.task => task'[t] = task[t]
  BY DEF Abort, Owned, TypeOK
<1> QED BY <1>1, <1>2 DEF Owned, OneExecutor, Live

LEMMA WorkerEventOwned == ASSUME Owned, WorkerEvent PROVE OneExecutor' /\ JoinsOwn'
<1>0. /\ worker \in Worker /\ task \in [TaskId -> Task] /\ OneExecutor
  BY DEF Owned, TypeOK
<1>1. worker.task \in TaskId
  BY <1>0, WorkerFields, BoundAssumption
  DEF WorkerEvent, WorkerFinished, ClosingTimesOut, WorkerReplies, Deliver,
      WorkerStatus, Listening, TaskId
<1>2. JoinsOwn'
  BY DEF WorkerEvent, WorkerFinished, ClosingTimesOut, WorkerReplies, Deliver,
         WorkerStatus, JoinsOwn
<1>3. CASE WorkerFinished
  BY <1>0, <1>2, <1>3 DEF WorkerFinished, Ended, OneExecutor, Live
<1>4. CASE ClosingTimesOut
  BY <1>1, <1>2, <1>4, AbortOwned DEF ClosingTimesOut, OneExecutor
<1>5. CASE WorkerReplies
  <2>1. worker'.task = worker.task
    BY <1>0, <1>5 DEF WorkerReplies, Deliver, Worker
  <2>2. \A t \in TaskId : task'[t].pc = task[t].pc
    BY <1>0, <1>1, <1>5 DEF WorkerReplies, Deliver, Task
  <2> QED BY <1>0, <1>2, <2>1, <2>2, QuietStep
<1>6. CASE WorkerStatus
  <2>1. \A t \in TaskId : task'[t].pc = task[t].pc
    BY <1>0, <1>1, <1>6 DEF WorkerStatus, Task
  <2> QED BY <1>0, <1>2, <1>6, <2>1, QuietStep DEF WorkerStatus
<1> QED BY <1>3, <1>4, <1>5, <1>6 DEF WorkerEvent

LEMMA ExitOwned == ASSUME Owned, Exit PROVE OneExecutor' /\ JoinsOwn'
<1>0. /\ worker \in Worker /\ task \in [TaskId -> Task] /\ OneExecutor /\ TypeOK
  BY DEF Owned, TypeOK
<1>1. CASE StopWorker
  <2>1. worker'.task = worker.task
    BY <1>0, <1>1 DEF StopWorker, Worker
  <2>2. \A t \in TaskId : task'[t].pc = task[t].pc
    BY <1>0, <1>1, SignalKeepsPc DEF StopWorker
  <2>3. JoinsOwn'
    BY <1>1, <2>1 DEF StopWorker, JoinsOwn
  <2> QED BY <1>0, <2>1, <2>2, <2>3, QuietStep
<1>2. CASE JoinEnds
  BY <1>0, <1>2, QuietStep DEF JoinEnds, JoinsOwn
<1>3. CASE JoinTimesOut
  <2>1. worker.task \in TaskId
    BY <1>0, <1>3, WorkerFields, BoundAssumption
    DEF JoinTimesOut, Owned, JoinsOwn, TaskId
  <2> QED BY <1>3, <2>1, AbortOwned DEF JoinTimesOut, OneExecutor, JoinsOwn
<1> QED BY <1>1, <1>2, <1>3 DEF Exit

(* A task that takes a step is alive, and no other task changes.           *)
LEMMA TaskStepsAlive ==
    ASSUME NEW t \in TaskId, TaskNext(t) PROVE Live(t)
BY DEF TaskNext, TaskStops, TaskPauses, TaskReleases, TaskReleaseFails, TaskStarts,
       TaskSucceeds, TaskFails, TaskReplies, TaskEnds, Live

LEMMA TaskStepsAlone ==
    ASSUME TypeOK, NEW t \in TaskId, TaskNext(t)
    PROVE  /\ UNCHANGED <<app, worker, spawned, ui, answered>>
           /\ \A u \in TaskId : u # t => task'[u] = task[u]
<1>1. ASSUME NEW next, TaskStep(t, next)
      PROVE  /\ UNCHANGED <<app, worker, spawned, ui, answered>>
             /\ \A u \in TaskId : u # t => task'[u] = task[u]
  BY <1>1 DEF TaskStep, TypeOK
<1> QED BY <1>1 DEF TaskNext, TaskStops, TaskPauses, TaskReleases, TaskReleaseFails,
        TaskStarts, TaskSucceeds, TaskFails, TaskReplies, TaskEnds

LEMMA TaskOwned == ASSUME Owned, NEW t \in TaskId, TaskNext(t) PROVE OneExecutor' /\ JoinsOwn'
BY TaskStepsAlive, TaskStepsAlone DEF Owned, OneExecutor, Live, JoinsOwn

LEMMA OwnedStep == ASSUME Owned, [Next]_vars PROVE Owned'
<1>1. TypeOK'
  BY TypeStep DEF Owned
<1>2. OneExecutor' /\ JoinsOwn'
  <2>1. CASE InputFails
    BY <2>1, QuietStep DEF InputFails, Owned, JoinsOwn
  <2>2. CASE UNCHANGED vars
    BY <2>2, QuietStep DEF vars, Owned, JoinsOwn
  <2> QED BY <2>1, <2>2, UserOwned, LoopOwned, WorkerEventOwned, ExitOwned, TaskOwned
      DEF Next, Exited
<1> QED BY <1>1, <1>2 DEF Owned

(* The state always has its type: in particular the loop never holds a     *)
(* task that was not spawned.                                              *)
THEOREM TypeCorrect == Spec => []TypeOK
<1>1. Owned => TypeOK
  BY DEF Owned
<1> QED BY <1>1, OwnedInit, OwnedStep, PTL DEF Spec

(* Whatever the user does and whenever tasks end, no two connections are   *)
(* open at once: every live task is the worker the loop holds.             *)
THEOREM NeverTwoExecutors == Spec => []OneExecutor
<1>1. Owned => OneExecutor
  BY DEF Owned
<1> QED BY <1>1, OwnedInit, OwnedStep, PTL DEF Spec

-----------------------------------------------------------------------------
(* What the methods of App do to the numbers. *)

(* App either keeps its awaited request, or uses a fresh number: for a new *)
(* request, or for none.                                                   *)
Kept(a, b) ==
    /\ b.generation = a.generation /\ b.loading = a.loading /\ b.request = a.request
    /\ b.session = a.session /\ b.alias = a.alias /\ b.following = a.following

Fresh(a, b) ==
    /\ b.generation > a.generation
    /\ IF b.loading THEN b.request.id = b.generation ELSE b.request.id = 0

LEMMA InvalidateNumbers ==
    ASSUME NEW a \in App
    PROVE  LET b == Invalidate(a) IN
           /\ b.generation = a.generation + 1
           /\ b.request.id = 0
           /\ b.loading = FALSE
<1>1. Invalidate(a).generation = a.generation + 1
  BY DEF Invalidate, App
<1>2. Invalidate(a).request = NoRequest
  BY DEF Invalidate, App
<1>3. Invalidate(a).loading = FALSE
  BY DEF Invalidate, App
<1> QED BY <1>1, <1>2, <1>3 DEF NoRequest

LEMMA ConnectionsNumbers ==
    ASSUME NEW a \in App
    PROVE  LET b == Connections(a) IN
           /\ b.generation = a.generation + 1
           /\ b.request.id = 0
           /\ b.loading = FALSE
<1> DEFINE b == Invalidate(a)
<1>1. b \in App
  BY InvalidateType
<1>2. /\ Connections(a).generation = b.generation
      /\ Connections(a).request = b.request
      /\ Connections(a).loading = b.loading
  BY <1>1 DEF Connections, App
<1> QED BY <1>2, InvalidateNumbers

LEMMA LoadNumbers ==
    ASSUME NEW a \in App, NEW alias \in Alias \cup {NoAlias}
    PROVE  LET b == Load(a, alias) IN
           /\ b.generation = a.generation + 1
           /\ b.request.id = a.generation + 1
           /\ b.loading = TRUE
<1> DEFINE b == Invalidate(a)
<1>1. b \in App
  BY InvalidateType
<1>2. /\ Load(a, alias).generation = b.generation
      /\ Load(a, alias).request.id = a.generation + 1
      /\ Load(a, alias).loading = TRUE
  BY <1>1 DEF Load, App
<1> QED BY <1>2, InvalidateNumbers

LEMMA OpenConnectionNumbers ==
    ASSUME NEW a \in App, NEW alias \in Alias
    PROVE  LET b == OpenConnection(a, alias) IN
           /\ b.generation = a.generation + 1
           /\ b.request.id = a.generation + 1
           /\ b.loading = TRUE
<1> DEFINE b == Load(a, alias)
<1>0. alias \in Alias \cup {NoAlias}
  OBVIOUS
<1>1. b \in App
  BY <1>0, LoadType
<1>2. /\ OpenConnection(a, alias).generation = b.generation
      /\ OpenConnection(a, alias).request = b.request
      /\ OpenConnection(a, alias).loading = b.loading
  BY <1>1 DEF OpenConnection, App
<1> QED BY <1>0, <1>2, LoadNumbers

LEMMA QueueFollowNumbers ==
    ASSUME NEW a \in App
    PROVE  LET b == QueueFollow(a) IN
           /\ b.generation = a.generation + 1
           /\ b.request.id = a.generation + 1
           /\ b.loading = TRUE
BY DEF QueueFollow, App

LEMMA StartFollowNumbers ==
    ASSUME NEW a \in App
    PROVE  LET b == StartFollow(a) IN
           /\ b.generation = a.generation + 2
           /\ b.request.id = a.generation + 2
           /\ b.loading = TRUE
<1> DEFINE b == [Invalidate(a) EXCEPT !.following = TRUE]
<1>1. b \in App
  BY InvalidateType, AppBooleans
<1>2. b.generation = a.generation + 1
  BY InvalidateType, InvalidateNumbers DEF App
<1>3. a.generation \in Nat
  BY AppFields
<1>4. StartFollow(a) = QueueFollow(b)
  BY DEF StartFollow
<1>5. /\ QueueFollow(b).generation = b.generation + 1
      /\ QueueFollow(b).request.id = b.generation + 1
      /\ QueueFollow(b).loading = TRUE
  BY <1>1, QueueFollowNumbers
<1> HIDE DEF b
<1> QED BY <1>2, <1>3, <1>4, <1>5

LEMMA StopFollowingNumbers ==
    ASSUME NEW a \in App
    PROVE  StopFollowing(a).generation \in {a.generation, a.generation + 1}
BY InvalidateNumbers DEF StopFollowing

LEMMA GoBackNumbers ==
    ASSUME NEW a \in App, NEW toList \in BOOLEAN
    PROVE  LET b == GoBack(a, toList) IN
           /\ b.generation = a.generation + 1
           /\ b.request.id = 0
           /\ b.loading = FALSE
<1> DEFINE b == Invalidate(a)
<1>1. b \in App
  BY InvalidateType
<1>2. /\ GoBack(a, toList).generation = b.generation
      /\ GoBack(a, toList).request = b.request
      /\ GoBack(a, toList).loading = b.loading
  BY <1>1 DEF GoBack, App
<1> QED BY <1>2, InvalidateNumbers

(* Completing the awaited request ends it; a failed opening uses a number. *)
LEMMA CompleteNumbers ==
    ASSUME NEW a \in App, NEW r \in Request, NEW ok \in BOOLEAN, NEW from \in Nat,
           r.id = a.generation
    PROVE  LET b == Complete(a, r, ok, from) IN
           /\ b.loading = FALSE
           /\ \/ b.generation = a.generation /\ b.request = a.request
              \/ b.generation = a.generation + 1 /\ b.request.id = 0
<1>1. LET b == CompleteFollow(a, ok, from) IN
      /\ b.loading = FALSE
      /\ b.generation = a.generation
      /\ b.request = a.request
  BY DEF CompleteFollow, App
<1>2. LET b == CompletePage(a, ok, from) IN
      /\ b.loading = FALSE
      /\ \/ b.generation = a.generation /\ b.request = a.request
         \/ b.generation = a.generation + 1 /\ b.request.id = 0
  BY ConnectionsNumbers DEF CompletePage, App
<1> QED BY <1>1, <1>2 DEF Complete

(* What the user and the timer do is one of the two.                       *)
LEMMA AsksFresh ==
    ASSUME NEW a \in App, NEW b \in App, NEW n \in Nat, n > a.generation,
           b.generation = n, b.request.id = n, b.loading = TRUE
    PROVE  Fresh(a, b)
BY DEF Fresh

LEMMA DropsFresh ==
    ASSUME NEW a \in App, NEW b \in App, NEW n \in Nat, n > a.generation,
           b.generation = n, b.request.id = 0, b.loading = FALSE
    PROVE  Fresh(a, b)
BY DEF Fresh

LEMMA UserMoves ==
    ASSUME Owned, UserStep \/ FollowTick
    PROVE  \E next \in App : AppStep(next) /\ (Kept(app, next) \/ Fresh(app, next))
<1> DEFINE g == app.generation
           Goal == \E next \in App : AppStep(next) /\ (Kept(app, next) \/ Fresh(app, next))
           s == StopFollowing(app)
<1>0. /\ app \in App /\ g \in Nat /\ s \in App /\ s.generation \in {g, g + 1}
      /\ app.alias \in Alias \cup {NoAlias}
  BY AppFields, StopFollowingType, StopFollowingNumbers DEF Owned, TypeOK
<1>n. /\ g + 1 \in Nat /\ g + 1 > g /\ g + 2 \in Nat /\ g + 2 > g
      /\ s.generation + 1 \in Nat /\ s.generation + 1 > g
  BY <1>0
<1>1. CASE UserOpensConnection
  <2>1. PICK alias \in Alias : AppStep(OpenConnection(app, alias))
    BY <1>1 DEF UserOpensConnection
  <2>2. Fresh(app, OpenConnection(app, alias))
    BY <1>0, <1>n, OpenConnectionType, OpenConnectionNumbers, AsksFresh
  <2> QED BY <1>0, <2>1, <2>2, OpenConnectionType
<1>2. CASE UserLoads
  <2>1. AppStep(Load(s, app.alias))
    BY <1>2 DEF UserLoads
  <2>2. Fresh(app, Load(s, app.alias))
    BY <1>0, <1>n, LoadType, LoadNumbers, AsksFresh
  <2> QED BY <1>0, <2>1, <2>2, LoadType
<1>3. CASE UserStartsFollowing
  <2>1. AppStep(StartFollow(app))
    BY <1>3 DEF UserStartsFollowing
  <2>2. Fresh(app, StartFollow(app))
    BY <1>0, <1>n, StartFollowType, StartFollowNumbers, AsksFresh
  <2> QED BY <1>0, <2>1, <2>2, StartFollowType
<1>i. Invalidate(app) \in App /\ Fresh(app, Invalidate(app))
  BY <1>0, <1>n, InvalidateType, InvalidateNumbers, DropsFresh
<1>4. CASE UserInvalidates
  BY <1>4, <1>i DEF UserInvalidates
<1>5. CASE UserGoesBack
  <2>1. PICK toList \in BOOLEAN : AppStep(GoBack(s, toList))
    BY <1>5 DEF UserGoesBack
  <2>2. Fresh(app, GoBack(s, toList))
    BY <1>0, <1>n, GoBackType, GoBackNumbers, DropsFresh
  <2> QED BY <1>0, <2>1, <2>2, GoBackType
<1>6. CASE UserShowsConnections
  <2>1. AppStep(Connections(s))
    BY <1>6 DEF UserShowsConnections
  <2>2. Fresh(app, Connections(s))
    BY <1>0, <1>n, ConnectionsType, ConnectionsNumbers, DropsFresh
  <2> QED BY <1>0, <2>1, <2>2, ConnectionsType
<1>7. CASE UserCancels
  <2>1. CASE app.following \/ app.loading
    BY <1>7, <1>i, <2>1 DEF UserCancels
  <2>2. CASE ~(app.following \/ app.loading)
    <3>1. AppStep([app EXCEPT !.quit = TRUE])
      BY <1>7, <2>2 DEF UserCancels
    <3>2. Kept(app, [app EXCEPT !.quit = TRUE])
      BY <1>0 DEF Kept, App
    <3> QED BY <1>0, <3>1, <3>2, AppBooleans
  <2> QED BY <2>1, <2>2
<1>8. CASE UserConfirmsQuit
  <2> DEFINE b == [Invalidate(app) EXCEPT !.quit = TRUE]
  <2>1. b \in App
    BY <1>i, AppBooleans
  <2>2. /\ b.generation = Invalidate(app).generation
        /\ b.request = Invalidate(app).request
        /\ b.loading = Invalidate(app).loading
    BY <1>i DEF App
  <2>3. AppStep(b)
    BY <1>8 DEF UserConfirmsQuit
  <2>4. Fresh(app, b)
    <3> HIDE DEF b
    <3> QED BY <1>0, <1>n, <2>1, <2>2, InvalidateNumbers, DropsFresh
  <2> QED BY <2>1, <2>3, <2>4
<1>9. CASE FollowTick
  <2>1. CASE app.following /\ ~app.loading
    <3>1. AppStep(QueueFollow(app))
      BY <1>9, <2>1 DEF FollowTick
    <3>2. Fresh(app, QueueFollow(app))
      BY <1>0, <1>n, QueueFollowType, QueueFollowNumbers, AsksFresh
    <3> QED BY <1>0, <3>1, <3>2, QueueFollowType
  <2>2. CASE ~(app.following /\ ~app.loading)
    BY <1>0, <1>9, <2>2 DEF FollowTick, Kept
  <2> QED BY <2>1, <2>2
<1> QED BY <1>1, <1>2, <1>3, <1>4, <1>5, <1>6, <1>7, <1>8, <1>9 DEF UserStep

-----------------------------------------------------------------------------
(* The invariant. A number that is still awaited is held by App's pending  *)
(* request or by the worker's; the task holds the worker's number in one   *)
(* place (SingleFlight); and no number is ahead of App's generation, so    *)
(* that a fresh one is unknown to everybody else.                          *)

Asked ==
    /\ Owned
    /\ SingleFlight
    /\ app.request.id # 0 => app.request.id = app.generation /\ app.loading
    /\ worker.request.id <= app.generation
    /\ worker.request.id # 0 /\ worker.request.id = app.generation
         => app.loading /\ app.request.id = 0
    /\ worker.task = 0 => worker.request.id = 0

LEMMA AskedInit == Init => Asked
<1> SUFFICES ASSUME Init PROVE Asked
  OBVIOUS
<1> DEFINE listed == Connections(Blank)
<1>1. Blank \in App /\ Blank.generation = 0
  BY NothingType DEF Blank, App
<1>2. listed \in App /\ listed.request.id = 0
  BY <1>1, ConnectionsType, ConnectionsNumbers
<1>3. app.request.id # 0 => app.request.id = app.generation /\ app.loading
  <2>1. CASE app = listed
    BY <1>2, <2>1
  <2>2. ASSUME NEW a \in Alias, app = OpenConnection(listed, a)
        PROVE  app.request.id = app.generation /\ app.loading
    BY <1>2, <2>2, OpenConnectionNumbers
  <2> QED BY <2>1, <2>2 DEF Init
<1>4. worker.request.id = 0 /\ worker.task = 0
  BY DEF Init, NoWorker, NoRequest
<1>5. app.generation \in Nat
  BY OwnedInit, AppFields DEF Owned, TypeOK
<1> QED BY <1>3, <1>4, <1>5, OwnedInit DEF Asked, SingleFlight

(* Steps of App alone.                                                     *)
LEMMA AppStepAsked ==
    ASSUME Asked, Owned', NEW next \in App, AppStep(next),
           Kept(app, next) \/ Fresh(app, next)
    PROVE  Asked'
<1>1. /\ app' = next /\ worker' = worker /\ task' = task
      /\ app.generation \in Nat /\ next.generation \in Nat /\ worker.request.id \in Nat
      /\ next.loading \in BOOLEAN
  BY AppFields, WorkerFields, RequestFields DEF AppStep, Asked, Owned, TypeOK
<1>2. SingleFlight'
  BY <1>1 DEF Asked, SingleFlight
<1>3. CASE Kept(app, next)
  BY <1>1, <1>2, <1>3 DEF Asked, Kept
<1>4. CASE Fresh(app, next)
  BY <1>1, <1>2, <1>4 DEF Asked, Fresh
<1> QED BY <1>3, <1>4

(* What a step of the task does to the three places.                       *)
LEMMA TaskMoves ==
    ASSUME TypeOK, NEW t \in TaskId, TaskNext(t)
    PROVE  LET k == task[t]
               m == task'[t]
           IN  \/ /\ m.command.id \in {0, k.command.id}
                  /\ m.current.id \in {0, k.current.id}
                  /\ m.reply = k.reply
               \/ /\ m.command.id = 0
                  /\ m.current = k.command
                  /\ m.reply = k.reply
                  /\ k.command.id # 0
               \/ /\ k.reply.id = 0
                  /\ m.command = k.command
                  /\ m.current.id = 0
                  /\ m.reply.id = k.current.id
<1> DEFINE k == task[t]
           m == task'[t]
<1>0. k \in Task /\ task \in [TaskId -> Task] /\ NoRequest.id = 0
  BY DEF TypeOK, NoRequest
<1>s. ASSUME NEW next, TaskStep(t, next) PROVE m = next
  BY <1>0, <1>s DEF TaskStep
<1>1. CASE TaskStops(t)
  <2>1. m = [k EXCEPT !.pc = "shutting", !.current = NoRequest]
    BY <1>1, <1>s DEF TaskStops
  <2>2. m.command = k.command /\ m.current = NoRequest /\ m.reply = k.reply
    BY <1>0, <2>1 DEF Task
  <2> QED BY <1>0, <2>2
<1>2. CASE TaskPauses(t) \/ TaskReleases(t) \/ TaskSucceeds(t) \/ TaskFails(t)
  <2>1. \/ m = [k EXCEPT !.pc = "pausing", !.paused = FALSE]
        \/ m = [k EXCEPT !.pc = "select", !.subscribed = FALSE]
        \/ m = [k EXCEPT !.pc = "sending", !.ok = TRUE, !.news = TRUE,
                         !.subscribed = @ \/ k.current.follow]
        \/ \E keeps \in BOOLEAN :
              m = [k EXCEPT !.pc = "sending", !.ok = FALSE, !.news = TRUE,
                            !.subscribed = @ /\ keeps]
    BY <1>2, <1>s DEF TaskPauses, TaskReleases, TaskSucceeds, TaskFails
  <2>2. m.command = k.command /\ m.current = k.current /\ m.reply = k.reply
    BY <1>0, <2>1 DEF Task
  <2> QED BY <2>2
<1>3. CASE TaskReleaseFails(t) \/ TaskEnds(t)
  <2>1. \/ m = [k EXCEPT !.pc = "done", !.ok = FALSE, !.command = NoRequest,
                         !.subscribed = FALSE, !.news = TRUE]
        \/ \E ok \in BOOLEAN :
              m = [k EXCEPT !.pc = "done", !.ok = ok, !.news = TRUE,
                            !.command = NoRequest, !.subscribed = FALSE]
    BY <1>3, <1>s DEF TaskReleaseFails, TaskEnds
  <2>2. m.command = NoRequest /\ m.current = k.current /\ m.reply = k.reply
    BY <1>0, <2>1 DEF Task
  <2> QED BY <1>0, <2>2
<1>4. CASE TaskStarts(t)
  <2>1. \E pc \in TaskState :
          m = [k EXCEPT !.pc = pc, !.current = k.command,
                        !.command = NoRequest, !.ok = FALSE]
    BY <1>4, <1>s DEF TaskStarts, TaskState
  <2>2. m.command = NoRequest /\ m.current = k.command /\ m.reply = k.reply
    BY <1>0, <2>1 DEF Task
  <2> QED BY <1>0, <1>4, <2>2 DEF TaskStarts
<1>5. CASE TaskReplies(t)
  <2>1. m = [k EXCEPT !.pc = "select", !.current = NoRequest, !.ok = FALSE,
                      !.reply = [id |-> k.current.id, ok |-> k.ok]]
    BY <1>5, <1>s DEF TaskReplies
  <2>2. /\ m.command = k.command /\ m.current = NoRequest
        /\ m.reply = [id |-> k.current.id, ok |-> k.ok]
    BY <1>0, <2>1 DEF Task
  <2> QED BY <1>0, <1>5, <2>2 DEF TaskReplies
<1> QED BY <1>1, <1>2, <1>3, <1>4, <1>5 DEF TaskNext

LEMMA TaskAsked == ASSUME Asked, Owned', NEW t \in TaskId, TaskNext(t) PROVE Asked'
<1>1. worker.task = t /\ TypeOK
  BY TaskStepsAlive DEF Asked, Owned, OneExecutor
<1>2. UNCHANGED <<app, worker>>
  BY <1>1, TaskStepsAlone
<1>3. SingleFlight'
  <2> DEFINE k == task[t]
             m == task'[t]
  <2>1. /\ k.command.id # 0 => k.command.id = worker.request.id /\ k.current.id = 0 /\ k.reply.id = 0
        /\ k.current.id # 0 => k.current.id = worker.request.id /\ k.reply.id = 0
        /\ k.reply.id # 0 => k.reply.id = worker.request.id
    BY <1>1 DEF Asked, SingleFlight, TaskId
  <2>2. \/ /\ m.command.id \in {0, k.command.id}
           /\ m.current.id \in {0, k.current.id}
           /\ m.reply = k.reply
        \/ /\ m.command.id = 0
           /\ m.current = k.command
           /\ m.reply = k.reply
           /\ k.command.id # 0
        \/ /\ k.reply.id = 0
           /\ m.command = k.command
           /\ m.current.id = 0
           /\ m.reply.id = k.current.id
    BY <1>1, TaskMoves
  <2>3. /\ m.command.id # 0 => m.command.id = worker.request.id /\ m.current.id = 0 /\ m.reply.id = 0
        /\ m.current.id # 0 => m.current.id = worker.request.id /\ m.reply.id = 0
        /\ m.reply.id # 0 => m.reply.id = worker.request.id
    <3> HIDE DEF k, m
    <3> QED BY <2>1, <2>2
  <2> QED BY <1>1, <1>2, <2>3 DEF SingleFlight
<1> QED BY <1>2, <1>3 DEF Asked

LEMMA SignalKeepsRequests ==
    ASSUME TypeOK, worker.task # 0, NEW pauses, NEW stops, NEW cancel,
           Signal(pauses, stops, cancel)
    PROVE  LET k == task[worker.task]
               m == task'[worker.task]
           IN  m.command = k.command /\ m.current = k.current /\ m.reply = k.reply
<1>1. worker.task \in TaskId /\ task \in [TaskId -> Task]
  BY WorkerFields, BoundAssumption DEF TypeOK, TaskId
<1> DEFINE k == task[worker.task]
<1>2. k \in Task /\ task'[worker.task] = Signalled(k, pauses, stops, cancel)
  BY <1>1 DEF Signal
<1> QED BY <1>2 DEF Signalled, Task

(* Steps that keep the numbers where they are.                             *)
LEMMA NumbersKept ==
    ASSUME Asked, Owned', UNCHANGED app,
           worker'.task = worker.task, worker'.request = worker.request,
           worker.task # 0 =>
               /\ task'[worker.task].command.id \in {0, task[worker.task].command.id}
               /\ task'[worker.task].current.id \in {0, task[worker.task].current.id}
               /\ task'[worker.task].reply = task[worker.task].reply
    PROVE  Asked'
<1>1. SingleFlight'
  BY DEF Asked, SingleFlight
<1> QED BY <1>1 DEF Asked

(* An executor that cannot be configured ends the pending request, which   *)
(* is the awaited one.                                                     *)
LEMMA ConfigureFailsNumbers ==
    ASSUME Asked, ConfigureFails
    PROVE  /\ app.generation # 0 /\ app.loading = TRUE
           /\ worker.request.id = 0 /\ worker.task = 0
           /\ app'.request.id = 0 /\ app'.loading = FALSE
           /\ app'.generation \in {app.generation, app.generation + 1}
           /\ answered' = app.generation
<1> DEFINE a == [app EXCEPT !.request = NoRequest]
<1>0. app \in App /\ app.request \in Request /\ app.generation \in Nat /\ app.loading \in BOOLEAN
  BY AppFields DEF Asked, Owned, TypeOK
<1>1. /\ a \in App /\ a.request.id = 0 /\ a.generation = app.generation
      /\ app.request.id = app.generation /\ app.request.id # 0 /\ app.loading = TRUE
      /\ worker.request.id = 0 /\ worker.task = 0
  BY <1>0, AppRequest, NothingType DEF ConfigureFails, NeedsExecutor, Asked, App, NoRequest
<1>2. app' = Complete(a, app.request, FALSE, 0) /\ answered' = app.request.id
  BY DEF ConfigureFails
<1> HIDE DEF a
<1>3. app.request.id = a.generation
  BY <1>1
<1> DEFINE b == Complete(a, app.request, FALSE, 0)
<1>4. b.loading = FALSE
  BY <1>0, <1>1, <1>3, CompleteNumbers, ZenonT(60)
<1>5. b.generation \in {a.generation, a.generation + 1}
  <2>1. a \in App /\ app.request \in Request /\ FALSE \in BOOLEAN /\ 0 \in Nat
    BY <1>0, <1>1
  <2>2. \/ b.generation = a.generation /\ b.request = a.request
        \/ b.generation = a.generation + 1 /\ b.request.id = 0
    BY ONLY <2>1, <1>3, CompleteNumbers, Zenon
  <2> HIDE DEF b
  <2> QED BY <2>2
<1>6. b.request.id = 0
  BY <1>0, <1>1, <1>3, CompleteNumbers, ZenonT(60)
<1> HIDE DEF b
<1>7. app' = b
  BY <1>2 DEF b
<1> QED BY <1>0, <1>1, <1>2, <1>4, <1>5, <1>6, <1>7

LEMMA LoopAsked == ASSUME Asked, Owned', LoopStep PROVE Asked'
<1>0. /\ TypeOK /\ app \in App /\ worker \in Worker /\ task \in [TaskId -> Task]
      /\ app.generation \in Nat /\ app.request \in Request
      /\ app.request.id \in Nat /\ worker.request.id \in Nat
      /\ NoRequest.id = 0
  BY AppFields, WorkerFields, RequestFields DEF Asked, Owned, TypeOK, NoRequest
<1>1. CASE Retire
  <2>1. worker'.task = worker.task /\ worker'.request = worker.request
    BY <1>0, <1>1 DEF Retire, RetireBy, Worker
  <2>2. worker.task # 0 =>
           /\ task'[worker.task].command = task[worker.task].command
           /\ task'[worker.task].current = task[worker.task].current
           /\ task'[worker.task].reply = task[worker.task].reply
    BY <1>0, <1>1, SignalKeepsRequests DEF Retire, RetireBy
  <2>3. UNCHANGED app
    BY <1>1 DEF Retire, RetireBy
  <2> QED BY <2>1, <2>2, <2>3, NumbersKept
<1>2. CASE ConfigureSpawns
  <2>1. spawned' \in TaskId
    BY <1>0, <1>2, BoundAssumption DEF ConfigureSpawns, TypeOK, TaskId
  <2>2. worker'.task = spawned' /\ worker'.request.id = 0
    BY <1>2 DEF ConfigureSpawns, NoWorker, NoRequest
  <2>3. task'[spawned'] = [Unborn EXCEPT !.pc = "select", !.alias = app.request.alias,
                                         !.session = app.session]
    BY <1>0, <1>2, <2>1 DEF ConfigureSpawns
  <2>4. /\ task'[spawned'].command.id = 0 /\ task'[spawned'].current.id = 0
        /\ task'[spawned'].reply.id = 0
    BY <2>3 DEF Unborn, NoRequest, NoReply
  <2>5. SingleFlight'
    BY <2>2, <2>4 DEF SingleFlight
  <2>6. spawned' # 0 /\ app' = app
    BY <1>2, <2>1 DEF ConfigureSpawns, TaskId
  <2> QED BY <1>0, <2>2, <2>5, <2>6 DEF Asked
<1>3. CASE ConfigureFails
  <2>1. worker' = worker /\ worker'.task = 0 /\ worker'.request.id = 0
    BY <1>3, ConfigureFailsNumbers DEF ConfigureFails
  <2>2. /\ app'.request.id = 0 /\ app'.loading = FALSE
        /\ app'.generation \in {app.generation, app.generation + 1}
    BY <1>3, ConfigureFailsNumbers
  <2>3. SingleFlight'
    BY <2>1 DEF SingleFlight
  <2> QED BY <1>0, <2>1, <2>2, <2>3 DEF Asked
<1>4. CASE Submit
  <2> DEFINE k == task[worker.task]
             m == task'[worker.task]
  <2>0. worker.task \in TaskId
    BY <1>0, <1>4, WorkerFields, BoundAssumption DEF Submit, CanSubmit, TaskId
  <2>1. k.command.id = 0 /\ k.current.id = 0 /\ k.reply.id = 0
    BY <1>4, <2>0 DEF Submit, CanSubmit, Asked, SingleFlight
  <2>2. m.command = app.request /\ m.current = k.current /\ m.reply = k.reply
    BY <1>0, <1>4, <2>0 DEF Submit, Task
  <2>3. worker'.task = worker.task /\ worker'.request = app.request
    BY <1>0, <1>4 DEF Submit, Worker
  <2>4. /\ app'.request.id = 0 /\ app'.generation = app.generation
        /\ app'.loading = app.loading
    BY <1>0, <1>4 DEF Submit, App
  <2>5. SingleFlight'
    <3>1. m.command.id = app.request.id /\ m.current.id = 0 /\ m.reply.id = 0
      <4> HIDE DEF k, m
      <4> QED BY <2>1, <2>2
    <3> QED BY <2>3, <3>1 DEF SingleFlight
  <2> QED BY <1>0, <1>4, <2>3, <2>4, <2>5 DEF Asked, Submit, CanSubmit
<1>5. CASE SubmitFails
  <2>1. /\ app'.request.id = 0 /\ app'.generation = app.generation
        /\ app'.loading = app.loading
    BY <1>0, <1>5 DEF SubmitFails, App
  <2>2. worker' = worker /\ task' = task
    BY <1>5 DEF SubmitFails
  <2> QED BY <2>1, <2>2 DEF Asked, SingleFlight
<1>6. CASE ConfigureNothing \/ SubmitNothing
  BY <1>6, NumbersKept DEF ConfigureNothing, SubmitNothing
<1> QED BY <1>1, <1>2, <1>3, <1>4, <1>5, <1>6 DEF LoopStep

LEMMA WorkerEventAsked == ASSUME Asked, Owned', WorkerEvent PROVE Asked'
<1>0. /\ TypeOK /\ app \in App /\ worker \in Worker /\ task \in [TaskId -> Task]
      /\ app.generation \in Nat /\ worker.request \in Request
      /\ worker.request.id \in Nat /\ NoRequest.id = 0 /\ NoReply.id = 0
  BY AppFields, WorkerFields, RequestFields DEF Asked, Owned, TypeOK, NoRequest, NoReply
<1>1. worker.task \in TaskId
  BY <1>0, WorkerFields, BoundAssumption
  DEF WorkerEvent, WorkerFinished, ClosingTimesOut, WorkerReplies, Deliver,
      WorkerStatus, Listening, TaskId
<1>2. CASE WorkerFinished \/ ClosingTimesOut
  <2>1. worker' = NoWorker /\ app' = app
    BY <1>2 DEF WorkerFinished, ClosingTimesOut
  <2>2. worker'.task = 0 /\ worker'.request.id = 0
    BY <2>1 DEF NoWorker, NoRequest
  <2> QED BY <1>0, <2>1, <2>2 DEF Asked, SingleFlight
<1>3. CASE WorkerReplies
  <2> DEFINE k == task[worker.task]
             m == task'[worker.task]
  <2>0. k \in Task /\ k.reply.id # 0 /\ k.reply.ok \in BOOLEAN /\ k.session \in Nat
    BY <1>0, <1>1, <1>3, TaskFields DEF WorkerReplies, Deliver, Reply
  <2>1. k.command.id = 0 /\ k.current.id = 0
    BY <1>1, <2>0 DEF Asked, SingleFlight, TaskId
  <2>2. m.command = k.command /\ m.current = k.current /\ m.reply = NoReply
    BY <1>0, <1>1, <1>3, <2>0 DEF WorkerReplies, Deliver, Task
  <2>3. worker'.task = worker.task /\ worker'.request.id = 0
    BY <1>0, <1>3 DEF WorkerReplies, Deliver, Worker, NoRequest
  <2>4. SingleFlight'
    <3>1. m.command.id = 0 /\ m.current.id = 0 /\ m.reply.id = 0
      <4> HIDE DEF k, m
      <4> QED BY <1>0, <2>1, <2>2
    <3> QED BY <2>3, <3>1 DEF SingleFlight
  <2>5. CASE app' = app
    BY <1>0, <1>1, <2>3, <2>4, <2>5 DEF Asked, TaskId
  <2>6. CASE app' = Complete(app, worker.request, k.reply.ok, k.session)
    <3>1. CASE worker.request.id = app.generation
      <4>1. app.request.id = 0
        BY <1>1, <2>0, <3>1 DEF Asked, SingleFlight, TaskId
      <4>2. app'.request.id = 0 /\ app'.generation \in {app.generation, app.generation + 1}
        BY <1>0, <2>0, <2>6, <3>1, <4>1, CompleteNumbers
      <4> QED BY <1>0, <2>3, <2>4, <4>2 DEF Asked
    <3>2. CASE worker.request.id # app.generation
      BY <2>5, <2>6, <3>2 DEF Complete
    <3> QED BY <3>1, <3>2
  <2> QED BY <1>3, <2>5, <2>6 DEF WorkerReplies, Deliver
<1>4. CASE WorkerStatus
  <2>1. /\ app'.generation = app.generation /\ app'.loading = app.loading
        /\ app'.request = app.request
    BY <1>0, <1>4 DEF WorkerStatus, UpdateStatus, App
  <2>2. /\ task'[worker.task].command = task[worker.task].command
        /\ task'[worker.task].current = task[worker.task].current
        /\ task'[worker.task].reply = task[worker.task].reply
    BY <1>0, <1>1, <1>4 DEF WorkerStatus, Task
  <2>3. worker' = worker
    BY <1>4 DEF WorkerStatus
  <2> QED BY <2>1, <2>2, <2>3 DEF Asked, SingleFlight
<1> QED BY <1>2, <1>3, <1>4 DEF WorkerEvent

LEMMA ExitAsked == ASSUME Asked, Owned', Exit PROVE Asked'
<1>0. /\ TypeOK /\ worker \in Worker /\ task \in [TaskId -> Task] /\ JoinsOwn
      /\ NoRequest.id = 0
  BY DEF Asked, Owned, TypeOK, NoRequest
<1>1. CASE StopWorker
  <2>1. worker'.task = worker.task /\ worker'.request = worker.request
    BY <1>0, <1>1 DEF StopWorker, Worker
  <2>2. worker.task # 0 =>
           /\ task'[worker.task].command = task[worker.task].command
           /\ task'[worker.task].current = task[worker.task].current
           /\ task'[worker.task].reply = task[worker.task].reply
    BY <1>0, <1>1, SignalKeepsRequests DEF StopWorker
  <2> QED BY <1>1, <2>1, <2>2, NumbersKept DEF StopWorker
<1>2. CASE JoinEnds
  BY <1>2, NumbersKept DEF JoinEnds
<1>3. CASE JoinTimesOut
  <2> DEFINE k == task[worker.task]
  <2>1. worker.task \in TaskId /\ k \in Task
    BY <1>0, <1>3, WorkerFields, BoundAssumption DEF JoinTimesOut, JoinsOwn, TaskId
  <2>2. task'[worker.task] = [k EXCEPT !.pc = "done", !.ok = FALSE,
                                       !.command = NoRequest, !.current = NoRequest,
                                       !.subscribed = FALSE]
    BY <1>0, <1>3, <2>1 DEF JoinTimesOut, Abort
  <2>3. /\ task'[worker.task].command = NoRequest
        /\ task'[worker.task].current = NoRequest
        /\ task'[worker.task].reply = k.reply
    BY <2>1, <2>2 DEF Task
  <2> QED BY <1>0, <1>3, <2>3, NumbersKept DEF JoinTimesOut
<1> QED BY <1>1, <1>2, <1>3 DEF Exit

LEMMA AskedStep == ASSUME Asked, [Next]_vars PROVE Asked'
<1>1. Owned'
  BY OwnedStep DEF Asked
<1>2. CASE UserStep \/ FollowTick
  BY <1>1, <1>2, UserMoves, AppStepAsked DEF Asked
<1>3. CASE InputFails
  BY <1>1, <1>3, NumbersKept DEF InputFails
<1>4. CASE UNCHANGED vars
  BY <1>1, <1>4, NumbersKept DEF vars
<1> QED BY <1>1, <1>2, <1>3, <1>4, LoopAsked, WorkerEventAsked, ExitAsked, TaskAsked
        DEF Next, Exited

(* A request the loop waits for is in one place at a time, so every reply  *)
(* that is applied is the reply to the request it is applied for.          *)
THEOREM OneRequestInFlight == Spec => []SingleFlight
<1>1. Asked => SingleFlight
  BY DEF Asked
<1> QED BY <1>1, AskedInit, AskedStep, PTL DEF Spec

-----------------------------------------------------------------------------
(* The refinement. Every step is an Ask, an Abandon, an Answer or changes  *)
(* nothing Foreground sees.                                                *)

LEMMA ForegroundInit == Init => Promise!Init
<1> SUFFICES ASSUME Init PROVE Promise!Init
  OBVIOUS
<1>1. app.generation \in Nat /\ app.loading \in BOOLEAN /\ answered = 0
  BY OwnedInit, AppFields DEF Owned, TypeOK, Init
<1> QED BY <1>1 DEF Promise!Init

(* Whatever keeps App's number and loading is not seen.                    *)
LEMMA Unseen ==
    ASSUME app'.generation = app.generation, app'.loading = app.loading,
           answered' = answered
    PROVE  UNCHANGED Promise!vars
BY DEF Promise!vars

(* The awaited request ends, and what was applied was its own result.      *)
LEMMA Answers ==
    ASSUME app.generation \in Nat, app.generation # 0, app.loading = TRUE,
           answered' = app.generation, app'.loading = FALSE,
           app'.generation \in {app.generation, app.generation + 1}
    PROVE  Promise!Answer
BY DEF Promise!Answer

LEMMA ForegroundStep == ASSUME Asked, [Next]_vars PROVE [Promise!Next]_Promise!vars
<1>0. /\ TypeOK /\ app \in App /\ worker \in Worker /\ task \in [TaskId -> Task]
      /\ app.generation \in Nat /\ app.loading \in BOOLEAN
      /\ worker.request \in Request /\ app.request \in Request
  BY AppFields, WorkerFields DEF Asked, Owned, TypeOK
<1>1. CASE UserStep \/ FollowTick
  <2>1. PICK next \in App : AppStep(next) /\ (Kept(app, next) \/ Fresh(app, next))
    BY <1>1, UserMoves DEF Asked
  <2>2. app' = next /\ answered' = answered
    BY <2>1 DEF AppStep
  <2>3. CASE Kept(app, next)
    BY <2>2, <2>3, Unseen DEF Kept
  <2>4. CASE Fresh(app, next)
    <3>1. next.generation \in Nat /\ next.loading \in BOOLEAN
          /\ next.generation > app.generation
      BY <2>4, AppFields DEF Fresh
    <3>2. CASE next.loading
      BY <1>0, <2>2, <3>1, <3>2 DEF Promise!Next, Promise!Ask
    <3>3. CASE ~next.loading
      BY <1>0, <2>2, <3>1, <3>3 DEF Promise!Next, Promise!Abandon
    <3> QED BY <3>2, <3>3
  <2> QED BY <2>1, <2>3, <2>4
<1>2. CASE ConfigureFails
  BY <1>0, <1>2, ConfigureFailsNumbers, Answers DEF Promise!Next
<1>3. CASE Submit \/ SubmitFails
  <2>1. /\ app'.generation = app.generation /\ app'.loading = app.loading
        /\ answered' = answered
    BY <1>0, <1>3 DEF Submit, SubmitFails, App
  <2> QED BY <2>1, Unseen
<1>4. CASE WorkerReplies
  <2> DEFINE k == task[worker.task]
             ours == worker.session = app.session
             current == worker.request.id = app.generation
  <2>0. worker.task \in TaskId /\ k.reply.id # 0
    BY <1>0, <1>4, WorkerFields, BoundAssumption
    DEF WorkerReplies, Deliver, Listening, TaskId
  <2>1. k \in Task /\ k.reply.ok \in BOOLEAN /\ k.session \in Nat
        /\ k.reply.id = worker.request.id
    BY <1>0, <2>0, TaskFields DEF Asked, SingleFlight, Reply, TaskId
  <2>2. CASE ours /\ current
    <3>1. app' = Complete(app, worker.request, k.reply.ok, k.session)
      BY <1>4, <2>2 DEF WorkerReplies, Deliver
    <3>2. answered' = k.reply.id
      BY <1>4, <2>2 DEF WorkerReplies, Deliver
    <3>3. app'.loading = FALSE /\ app'.generation \in {app.generation, app.generation + 1}
      BY <1>0, <2>1, <2>2, <3>1, CompleteNumbers
    <3>4. app.loading = TRUE /\ app.generation # 0
      BY <2>0, <2>1, <2>2 DEF Asked
    <3> QED BY <1>0, <2>1, <2>2, <3>2, <3>3, <3>4, Answers DEF Promise!Next
  <2>3. CASE ~(ours /\ current)
    <3>1. app' = app
      BY <1>4, <2>3 DEF WorkerReplies, Deliver, Complete
    <3>2. answered' = answered
      BY <1>4, <2>3 DEF WorkerReplies, Deliver
    <3> QED BY <3>1, <3>2, Unseen
  <2> QED BY <2>2, <2>3
<1>5. CASE WorkerStatus
  <2>1. /\ app'.generation = app.generation /\ app'.loading = app.loading
        /\ answered' = answered
    BY <1>0, <1>5 DEF WorkerStatus, UpdateStatus, App
  <2> QED BY <2>1, Unseen
<1>6. CASE \/ InputFails \/ Retire \/ ConfigureSpawns \/ ConfigureNothing
           \/ SubmitNothing \/ WorkerFinished \/ ClosingTimesOut \/ Exit
           \/ UNCHANGED vars
  <2>1. app' = app /\ answered' = answered
    BY <1>6 DEF InputFails, Retire, RetireBy, ConfigureSpawns, ConfigureNothing,
                SubmitNothing, WorkerFinished, ClosingTimesOut, Exit, StopWorker,
                JoinEnds, JoinTimesOut, vars
  <2> QED BY <2>1, Unseen
<1>7. ASSUME NEW t \in TaskId, TaskNext(t) PROVE UNCHANGED Promise!vars
  <2>1. app' = app /\ answered' = answered
    BY <1>0, <1>7, TaskStepsAlone
  <2> QED BY <2>1, Unseen
<1> QED BY <1>1, <1>2, <1>3, <1>4, <1>5, <1>6, <1>7
        DEF Next, Exited, LoopStep, WorkerEvent

(* The view applies at most one result per request, only the result of the *)
(* request it waits for, and never one it has abandoned: Foreground.tla.   *)
THEOREM ForegroundImplemented == Spec => ImplementsForeground
<1> QED BY AskedInit, AskedStep, ForegroundInit, ForegroundStep, PTL
        DEF Spec, ImplementsForeground, Promise!Spec


-----------------------------------------------------------------------------
(* The invariant. It says, besides Asked, what App asks for, what any task *)
(* has, what the worker's own task may hold, and why the awaited request *)
(* is safe from whatever else the loop does.                               *)

(* The pending request is for the connection on show, and follows if App   *)
(* does; the timer is armed and the status shown as the view says.         *)
AppInOrder(a) ==
    /\ a.generation # 0 /\ a.session # 0
    /\ a.due => a.following /\ ~a.loading
    /\ a.following => a.alias # NoAlias
    /\ a.status # 0 => a.status = a.session
    /\ a.status # 0 <=> a.alias # NoAlias
    /\ a.request.id # 0 => /\ a.request.alias = a.alias
                           /\ a.alias # NoAlias
                           /\ a.request.follow = a.following

(* A request is in an executor only while it runs or its result waits to   *)
(* be sent, and a task that is over has neither requests nor subscription. *)
TaskInOrder(k) ==
    /\ k.current.id # 0 => k.pc \in {"running", "sending"}
    /\ k.pc \in {"unborn", "done"} => k.command.id = 0 /\ ~k.subscribed

(* What the loop knows of its worker is true of the task, and what it held *)
(* to cancel a request is used for that request.                           *)
WorkerKnows(a, w, k) ==
    /\ w.alias # NoAlias /\ k.pc # "unborn"
    /\ k.alias = w.alias /\ k.session = w.session
    /\ k.stop <=> w.closing
    /\ k.command.id # 0 => k.command = w.request
    /\ k.current.id # 0 => k.current = w.request
    /\ w.request.id # 0 => w.request.alias = w.alias
    /\ w.cancel \in {0, w.request.id}
    /\ w.cancel = 0 /\ w.request.id # 0 => k.fired = w.request.id
    /\ k.fired <= a.generation

(* A subscription that is held, or that a running request may open, is     *)
(* known to the loop or about to be released; a request that would open    *)
(* one unknown to the loop is cancelled before it starts.                  *)
FollowKnown(w, k) ==
    /\ k.subscribed => w.follow \/ k.paused \/ k.pc \in {"pausing", "shutting"}
    /\ k.pc = "running" /\ k.current.follow => w.follow \/ k.paused
    /\ k.pc = "running" /\ ~k.current.follow => ~k.subscribed
    /\ k.command.id # 0 =>
          IF k.command.follow THEN w.follow \/ k.fired = k.command.id ELSE ~w.follow

(* The worker is the view's, and follows no longer than the view does.     *)
SameSession(a, w) == w.alias = a.alias /\ w.session = a.session
FollowsWith(a, w) == w.follow => a.following

AwaitedIsOwn(a, w) ==
    w.request.id = a.generation =>
        SameSession(a, w) /\ FollowsWith(a, w) /\ w.request.follow = a.following

AwaitedIsSafe(a, w, k) ==
    /\ w.request.id = a.generation => ~w.closing /\ k.fired # a.generation
    /\ a.request.id # 0 => k.fired # a.generation

RetiredIsOwn(a, w) == ~w.closing => SameSession(a, w) /\ FollowsWith(a, w)

WorkerInOrder ==
    LET k == task[worker.task] IN
    worker.task # 0 =>
        /\ WorkerKnows(app, worker, k) /\ FollowKnown(worker, k)
        /\ AwaitedIsOwn(app, worker)
        /\ InLoop => AwaitedIsSafe(app, worker, k)
        /\ ui \in {"configure", "submit"} => RetiredIsOwn(app, worker)

(* A request that is loading is App's or the worker's.                     *)
LoadingHeld(a, w, k) ==
    \/ a.request.id = a.generation
    \/ /\ w.request.id = a.generation /\ ~w.closing
       /\ k.pc # "done" => a.generation \in {k.command.id, k.current.id, k.reply.id}

InOrder ==
    /\ Asked
    /\ AppInOrder(app)
    /\ \A t \in TaskId : TaskInOrder(task[t])
    /\ WorkerInOrder
    /\ InLoop /\ app.loading => LoadingHeld(app, worker, task[worker.task])

(* The parts of the invariant, for the state after a step.                 *)
LEMMA Reordered ==
    ASSUME Asked', AppInOrder(app'),
           \A t \in TaskId : TaskInOrder(task'[t]),
           worker'.task # 0 =>
               /\ WorkerKnows(app', worker', task'[worker'.task])
               /\ FollowKnown(worker', task'[worker'.task])
               /\ AwaitedIsOwn(app', worker')
               /\ InLoop' => AwaitedIsSafe(app', worker', task'[worker'.task])
               /\ ui' \in {"configure", "submit"} => RetiredIsOwn(app', worker'),
           InLoop' /\ app'.loading => LoadingHeld(app', worker', task'[worker'.task])
    PROVE  InOrder'
BY DEF InOrder, AppInOrder, TaskInOrder, WorkerInOrder, WorkerKnows, FollowKnown,
       AwaitedIsOwn, AwaitedIsSafe, RetiredIsOwn, SameSession, FollowsWith, LoadingHeld

-----------------------------------------------------------------------------
(* What the methods of App do to the view. *)

(* The fields of App that AppInOrder reads, after a step of App.           *)
LEMMA SameOrder ==
    ASSUME NEW a \in App, NEW b \in App, AppInOrder(a),
           b.generation = a.generation, b.session = a.session, b.alias = a.alias,
           b.request = a.request, b.loading = a.loading, b.following = a.following,
           b.due = a.due, b.status = a.status
    PROVE  AppInOrder(b)
BY DEF AppInOrder

LEMMA InvalidateView ==
    ASSUME NEW a \in App
    PROVE  LET b == Invalidate(a) IN
           /\ b.following = FALSE /\ b.due = FALSE
           /\ b.session = a.session /\ b.alias = a.alias /\ b.status = a.status
BY DEF Invalidate, App

LEMMA InvalidateOrder ==
    ASSUME NEW a \in App, AppInOrder(a) PROVE AppInOrder(Invalidate(a))
<1> DEFINE b == Invalidate(a)
<1>1. b \in App /\ a.generation \in Nat
  BY InvalidateType, AppFields
<1>2. /\ b.following = FALSE /\ b.due = FALSE
      /\ b.session = a.session /\ b.alias = a.alias /\ b.status = a.status
      /\ b.generation = a.generation + 1 /\ b.request.id = 0
  BY InvalidateView, InvalidateNumbers
<1> HIDE DEF b
<1>3. AppInOrder(b)
  BY <1>1, <1>2 DEF AppInOrder
<1> QED BY <1>3 DEF b

LEMMA StopFollowingOrder ==
    ASSUME NEW a \in App, AppInOrder(a)
    PROVE  AppInOrder(StopFollowing(a)) /\ StopFollowing(a).alias = a.alias
BY InvalidateOrder, InvalidateView DEF StopFollowing

(* Back to the list: the session that was shown is over.                   *)
LEMMA ConnectionsOrder ==
    ASSUME NEW a \in App, a.following \in BOOLEAN PROVE AppInOrder(Connections(a))
<1> DEFINE b == Invalidate(a)
           c == Connections(a)
<1>1. b \in App /\ c \in App /\ a.generation \in Nat /\ a.session \in Nat
  BY InvalidateType, ConnectionsType, AppFields
<1>2. /\ c.following = b.following /\ c.due = b.due
      /\ c.session = b.session + 1 /\ c.alias = NoAlias /\ c.status = 0
  BY <1>1 DEF Connections, App
<1>3. /\ b.following = FALSE /\ b.due = FALSE /\ b.session = a.session
      /\ c.generation = a.generation + 1 /\ c.request.id = 0
  BY InvalidateView, ConnectionsNumbers
<1> HIDE DEF b, c
<1>4. AppInOrder(c)
  BY <1>1, <1>2, <1>3 DEF AppInOrder
<1> QED BY <1>4 DEF c

LEMMA LoadView ==
    ASSUME NEW a \in App, NEW alias \in Alias \cup {NoAlias}
    PROVE  LET b == Load(a, alias) IN
           /\ b.following = FALSE /\ b.due = FALSE /\ b.session = a.session
           /\ b.alias = alias /\ b.status = a.status
           /\ b.request.alias = alias /\ b.request.follow = FALSE
<1> DEFINE b == Invalidate(a)
<1>1. b \in App
  BY InvalidateType
<1>2. LET c == Load(a, alias) IN
      /\ c.following = b.following /\ c.due = b.due /\ c.session = b.session
      /\ c.alias = alias /\ c.status = b.status
      /\ c.request.alias = alias /\ c.request.follow = FALSE
  BY <1>1 DEF Load, App
<1> QED BY <1>2, InvalidateView

LEMMA LoadOrder ==
    ASSUME NEW a \in App, AppInOrder(a), a.alias # NoAlias
    PROVE  AppInOrder(Load(a, a.alias))
<1> DEFINE b == Load(a, a.alias)
<1>1. a.generation \in Nat /\ a.alias \in Alias \cup {NoAlias}
  BY AppFields
<1>2. /\ b.following = FALSE /\ b.due = FALSE /\ b.session = a.session
      /\ b.alias = a.alias /\ b.status = a.status
      /\ b.request.alias = a.alias /\ b.request.follow = FALSE
      /\ b.generation = a.generation + 1
  BY <1>1, LoadView, LoadNumbers
<1> HIDE DEF b
<1>3. b.request.follow = b.following
  BY ONLY <1>2, Zenon
<1>4. AppInOrder(b)
  BY <1>1, <1>2, <1>3 DEF AppInOrder
<1> QED BY <1>4 DEF b

(* A connection that is opened has a session of its own, and its status.   *)
LEMMA OpenConnectionOrder ==
    ASSUME NEW a \in App, AppInOrder(a), NEW alias \in Alias
    PROVE  AppInOrder(OpenConnection(a, alias))
<1> DEFINE b == Load(a, alias)
           c == OpenConnection(a, alias)
<1>1. /\ alias \in Alias \cup {NoAlias} /\ alias # NoAlias
      /\ a.generation \in Nat /\ a.session \in Nat /\ b \in App
  BY AliasAssumption, AppFields, LoadType
<1>2. /\ c.following = b.following /\ c.due = b.due /\ c.session = b.session + 1
      /\ c.alias = b.alias /\ c.status = a.session + 1 /\ c.request = b.request
      /\ c.generation = b.generation
  BY <1>1 DEF OpenConnection, App
<1>3. /\ b.following = FALSE /\ b.due = FALSE /\ b.session = a.session /\ b.alias = alias
      /\ b.request.alias = alias /\ b.request.follow = FALSE
      /\ b.generation = a.generation + 1
  BY <1>1, LoadView, LoadNumbers
<1> HIDE DEF b, c
<1>4. c.request.follow = c.following
  BY ONLY <1>2, <1>3, Zenon
<1>5. AppInOrder(c)
  BY <1>1, <1>2, <1>3, <1>4 DEF AppInOrder
<1> QED BY <1>5 DEF c

LEMMA QueueFollowOrder ==
    ASSUME NEW a \in App, AppInOrder(a), a.following = TRUE
    PROVE  AppInOrder(QueueFollow(a))
<1> DEFINE b == QueueFollow(a)
<1>1. a.generation \in Nat
  BY AppFields
<1>2. /\ b.following = a.following /\ b.due = FALSE /\ b.session = a.session
      /\ b.alias = a.alias /\ b.status = a.status
      /\ b.request.alias = a.alias /\ b.request.follow = TRUE
      /\ b.generation = a.generation + 1
  BY DEF QueueFollow, App
<1> HIDE DEF b
<1>3. b.request.follow = b.following /\ b.alias # NoAlias
  BY <1>2, Zenon DEF AppInOrder
<1>4. AppInOrder(b)
  BY <1>1, <1>2, <1>3 DEF AppInOrder
<1> QED BY <1>4 DEF b

LEMMA StartFollowOrder ==
    ASSUME NEW a \in App, AppInOrder(a), a.alias # NoAlias
    PROVE  AppInOrder(StartFollow(a))
<1> DEFINE b == Invalidate(a)
           c == [b EXCEPT !.following = TRUE]
<1>1. b \in App /\ c \in App /\ AppInOrder(b)
  BY InvalidateType, InvalidateOrder, AppBooleans
<1>2. /\ c.following = TRUE /\ c.due = b.due /\ c.session = b.session
      /\ c.alias = b.alias /\ c.status = b.status /\ c.request = b.request
      /\ c.generation = b.generation
  BY <1>1 DEF App
<1>3. b.due = FALSE /\ b.alias = a.alias /\ b.request.id = 0
  BY InvalidateView, InvalidateNumbers
<1>4. StartFollow(a) = QueueFollow(c)
  BY DEF StartFollow
<1> HIDE DEF b, c
<1>5. AppInOrder(c)
  BY <1>1, <1>2, <1>3 DEF AppInOrder
<1> QED BY <1>1, <1>2, <1>4, <1>5, QueueFollowOrder

LEMMA GoBackOrder ==
    ASSUME NEW a \in App, AppInOrder(a), NEW toList \in BOOLEAN
    PROVE  AppInOrder(GoBack(a, toList))
<1> DEFINE b == Invalidate(a)
           c == [b EXCEPT !.alias = NoAlias, !.session = @ + 1, !.status = 0]
<1>1. b \in App /\ AppInOrder(b) /\ b.session \in Nat
  BY InvalidateType, InvalidateOrder, AppFields
<1>2. /\ c.following = b.following /\ c.due = b.due /\ c.session = b.session + 1
      /\ c.alias = NoAlias /\ c.status = 0 /\ c.request = b.request
      /\ c.generation = b.generation
  BY <1>1 DEF App
<1>3. b.following = FALSE /\ b.due = FALSE /\ b.request.id = 0
  BY InvalidateView, InvalidateNumbers
<1>4. GoBack(a, toList) \in {b, c}
  BY DEF GoBack
<1> HIDE DEF b, c
<1>5. AppInOrder(c)
  BY <1>1, <1>2, <1>3 DEF AppInOrder
<1> QED BY <1>1, <1>4, <1>5

(* The awaited request ends: a batch arms the timer only while App follows. *)
LEMMA CompleteOrder ==
    ASSUME NEW a \in App, AppInOrder(a), a.request.id = 0, NEW r \in Request,
           r.id = a.generation => r.follow = a.following,
           NEW ok \in BOOLEAN, NEW from \in Nat
    PROVE  AppInOrder(Complete(a, r, ok, from))
<1>0. a.following \in BOOLEAN
  BY AppFields
<1>1. CASE r.id # a.generation
  BY <1>1 DEF Complete
<1>2. CASE r.id = a.generation /\ r.follow
  <2> DEFINE b == CompleteFollow(a, ok, from)
  <2>1. b.request = a.request /\ b.generation = a.generation /\ b.session = a.session
        /\ b.alias = a.alias /\ b.status = a.status /\ b.loading = FALSE
    BY DEF CompleteFollow, App
  <2>2. \/ b.following = a.following
        \/ b.following = FALSE /\ b.due = FALSE
    BY DEF CompleteFollow, App
  <2>3. a.following = TRUE
    BY <1>0, <1>2
  <2>4. Complete(a, r, ok, from) = b
    BY <1>2 DEF Complete
  <2> HIDE DEF b
  <2> QED BY <2>1, <2>2, <2>3, <2>4 DEF AppInOrder
<1>3. CASE r.id = a.generation /\ ~r.follow
  <2> DEFINE b == CompletePage(a, ok, from)
  <2>1. \/ b = Connections(a)
        \/ /\ b.request = a.request /\ b.generation = a.generation
           /\ b.session = a.session /\ b.alias = a.alias /\ b.status = a.status
           /\ b.loading = FALSE /\ b.following = a.following /\ b.due = a.due
    BY DEF CompletePage, App
  <2>2. Complete(a, r, ok, from) = b
    BY <1>3 DEF Complete
  <2> HIDE DEF b
  <2> QED BY <1>0, <2>1, <2>2, ConnectionsOrder DEF AppInOrder
<1> QED BY <1>1, <1>2, <1>3

-----------------------------------------------------------------------------
(* The user and the timer *)

LEMMA UserOrder ==
    ASSUME Owned, AppInOrder(app), UserStep \/ FollowTick PROVE AppInOrder(app')
<1> DEFINE s == StopFollowing(app)
<1>0. /\ app \in App /\ s \in App /\ AppInOrder(s) /\ s.alias = app.alias
      /\ app.following \in BOOLEAN /\ s.following \in BOOLEAN
  BY AppFields, StopFollowingType, StopFollowingOrder DEF Owned, TypeOK
<1>i. Invalidate(app) \in App /\ AppInOrder(Invalidate(app))
  BY <1>0, InvalidateType, InvalidateOrder
<1>q. ASSUME NEW a \in App, AppInOrder(a) PROVE AppInOrder([a EXCEPT !.quit = TRUE])
  <2> DEFINE b == [a EXCEPT !.quit = TRUE]
  <2>1. b \in App
    BY AppBooleans
  <2>2. /\ b.generation = a.generation /\ b.session = a.session /\ b.alias = a.alias
        /\ b.request = a.request /\ b.loading = a.loading /\ b.following = a.following
        /\ b.due = a.due /\ b.status = a.status
    BY DEF App
  <2> HIDE DEF b
  <2>3. AppInOrder(b)
    BY <1>q, <2>1, <2>2, SameOrder
  <2> QED BY <2>3 DEF b
<1>1. CASE UserOpensConnection
  <2>1. PICK alias \in Alias : app' = OpenConnection(app, alias)
    BY <1>1 DEF UserOpensConnection, AppStep
  <2> QED BY <1>0, <2>1, OpenConnectionOrder
<1>2. CASE UserLoads
  <2>1. app' = Load(s, s.alias) /\ s.alias # NoAlias
    BY <1>0, <1>2 DEF UserLoads, AppStep, Browsing
  <2> QED BY <1>0, <2>1, LoadOrder
<1>3. CASE UserStartsFollowing
  <2>1. app' = StartFollow(app) /\ app.alias # NoAlias
    BY <1>3 DEF UserStartsFollowing, AppStep, Browsing
  <2> QED BY <1>0, <2>1, StartFollowOrder
<1>4. CASE UserInvalidates
  BY <1>4, <1>i DEF UserInvalidates, AppStep
<1>5. CASE UserGoesBack
  <2>1. PICK toList \in BOOLEAN : app' = GoBack(s, toList)
    BY <1>5 DEF UserGoesBack, AppStep
  <2> QED BY <1>0, <2>1, GoBackOrder
<1>6. CASE UserShowsConnections
  <2>1. app' = Connections(s)
    BY <1>6 DEF UserShowsConnections, AppStep
  <2> QED BY <1>0, <2>1, ConnectionsOrder
<1>7. CASE UserCancels
  <2>1. app' = Invalidate(app) \/ app' = [app EXCEPT !.quit = TRUE]
    BY <1>7 DEF UserCancels, AppStep
  <2> QED BY <1>0, <1>i, <1>q, <2>1
<1>8. CASE UserConfirmsQuit
  <2>1. app' = [Invalidate(app) EXCEPT !.quit = TRUE]
    BY <1>8 DEF UserConfirmsQuit, AppStep
  <2> QED BY <1>i, <1>q, <2>1
<1>9. CASE FollowTick
  <2>1. \/ app' = app
        \/ app.following /\ app' = QueueFollow(app)
    BY <1>9 DEF FollowTick, AppStep
  <2> QED BY <1>0, <2>1, QueueFollowOrder
<1> QED BY <1>1, <1>2, <1>3, <1>4, <1>5, <1>6, <1>7, <1>8, <1>9 DEF UserStep

(* What the loop knows of its worker is still true when App takes a fresh  *)
(* number: nobody else has that number yet.                                *)
LEMMA FreshOrder ==
    ASSUME NEW a \in App, NEW b \in App, Fresh(a, b), NEW w \in Worker, NEW k \in Task,
           WorkerKnows(a, w, k), FollowKnown(w, k), w.request.id <= a.generation
    PROVE  /\ WorkerKnows(b, w, k) /\ AwaitedIsOwn(b, w) /\ AwaitedIsSafe(b, w, k)
           /\ b.loading => b.request.id = b.generation
<1>1. /\ a.generation \in Nat /\ b.generation \in Nat /\ b.generation > a.generation
      /\ w.request.id \in Nat /\ k.fired \in Nat
  BY AppFields, WorkerFields, RequestFields, TaskFields DEF Fresh
<1>2. k.fired <= a.generation
  BY DEF WorkerKnows
<1>3. w.request.id # b.generation /\ k.fired # b.generation /\ k.fired <= b.generation
  BY <1>1, <1>2
<1> QED BY <1>3 DEF Fresh, WorkerKnows, AwaitedIsOwn, AwaitedIsSafe

LEMMA AppStepOrder ==
    ASSUME InOrder, Asked', NEW next \in App, AppStep(next), AppInOrder(next),
           Kept(app, next) \/ Fresh(app, next)
    PROVE  InOrder'
<1> DEFINE k == task[worker.task]
<1>0. /\ app' = next /\ worker' = worker /\ task' = task /\ ui' \in {"stopping", "retire"}
      /\ ui = "wait" /\ InLoop /\ app \in App /\ worker \in Worker
      /\ task \in [TaskId -> Task] /\ worker.request.id <= app.generation
  BY DEF AppStep, InOrder, InLoop, Asked, Owned, TypeOK
<1>1. AppInOrder(app') /\ \A t \in TaskId : TaskInOrder(task'[t])
  BY <1>0 DEF InOrder
<1>2. ui' \notin {"configure", "submit"}
  BY <1>0
<1>3. worker.task # 0 =>
          /\ k \in Task /\ WorkerKnows(app, worker, k) /\ FollowKnown(worker, k)
          /\ AwaitedIsOwn(app, worker) /\ AwaitedIsSafe(app, worker, k)
  BY <1>0, WorkerFields, BoundAssumption DEF InOrder, WorkerInOrder, TaskId
<1>4. app.loading => LoadingHeld(app, worker, k)
  BY <1>0 DEF InOrder
<1> HIDE DEF k
<1>5. /\ worker.task # 0 =>
             /\ WorkerKnows(next, worker, k) /\ FollowKnown(worker, k)
             /\ AwaitedIsOwn(next, worker) /\ AwaitedIsSafe(next, worker, k)
      /\ next.loading => LoadingHeld(next, worker, k)
  <2>1. CASE Kept(app, next)
    <3>1. /\ next.generation = app.generation /\ next.loading = app.loading
          /\ next.request = app.request /\ next.session = app.session
          /\ next.alias = app.alias /\ next.following = app.following
      BY <2>1 DEF Kept
    <3> QED BY <1>3, <1>4, <3>1
        DEF WorkerKnows, AwaitedIsOwn, SameSession, FollowsWith, AwaitedIsSafe, LoadingHeld
  <2>2. CASE Fresh(app, next)
    <3>1. next.loading => next.request.id = next.generation
      BY <2>2 DEF Fresh
    <3> QED BY <1>0, <1>3, <2>2, <3>1, FreshOrder DEF LoadingHeld
  <2> QED BY <2>1, <2>2
<1> QED BY <1>0, <1>1, <1>2, <1>5, Reordered DEF k

-----------------------------------------------------------------------------
(* The tasks *)

(* What a step of a task does to it, field by field.                       *)
SameChannels(k, m) ==
    /\ m.alias = k.alias /\ m.session = k.session
    /\ m.stop = k.stop /\ m.fired = k.fired

Moved(k, m) ==
    \/ /\ k.pc \in {"select", "sending"} /\ k.stop /\ m.pc = "shutting"
       /\ m.command = k.command /\ m.current = NoRequest /\ m.reply = k.reply
       /\ m.paused = k.paused /\ m.subscribed = k.subscribed
    \/ /\ k.pc = "select" /\ m.pc = "pausing"
       /\ m.command = k.command /\ m.current = k.current /\ m.reply = k.reply
       /\ m.subscribed = k.subscribed
    \/ /\ k.pc = "pausing" /\ m.pc = "select"
       /\ m.command = k.command /\ m.current = k.current /\ m.reply = k.reply
       /\ m.subscribed = FALSE
    \/ /\ k.pc \in {"pausing", "shutting"} /\ m.pc = "done"
       /\ m.command = NoRequest /\ m.current = k.current /\ m.reply = k.reply
       /\ m.subscribed = FALSE
    \/ /\ k.pc = "select" /\ ~k.paused /\ k.command.id # 0
       /\ m.pc \in {"sending", "running"}
       /\ m.pc = "running" => k.fired # k.command.id
       /\ m.command = NoRequest /\ m.current = k.command /\ m.reply = k.reply
       /\ m.paused = k.paused /\ m.subscribed = k.subscribed
    \/ /\ k.pc = "running" /\ m.pc = "sending"
       /\ m.command = k.command /\ m.current = k.current /\ m.reply = k.reply
       /\ m.paused = k.paused
       /\ m.subscribed => k.subscribed \/ k.current.follow
    \/ /\ k.pc = "sending" /\ m.pc = "select" /\ k.reply.id = 0
       /\ m.command = k.command /\ m.current = NoRequest /\ m.reply.id = k.current.id
       /\ m.paused = k.paused /\ m.subscribed = k.subscribed

LEMMA TaskMoved ==
    ASSUME TypeOK, NEW t \in TaskId, TaskNext(t)
    PROVE  SameChannels(task[t], task'[t]) /\ Moved(task[t], task'[t])
<1> DEFINE k == task[t]
           m == task'[t]
<1>0. k \in Task /\ task \in [TaskId -> Task]
  BY DEF TypeOK
<1>s. ASSUME NEW next, TaskStep(t, next) PROVE m = next
  BY <1>0, <1>s DEF TaskStep
<1>1. CASE TaskStops(t)
  <2>1. m = [k EXCEPT !.pc = "shutting", !.current = NoRequest]
    BY <1>1, <1>s DEF TaskStops
  <2>2. k.pc \in {"select", "sending"} /\ k.stop
    BY <1>1 DEF TaskStops
  <2>3. /\ m.pc = "shutting" /\ m.command = k.command /\ m.current = NoRequest
        /\ m.reply = k.reply /\ m.paused = k.paused /\ m.subscribed = k.subscribed
    BY <1>0, <2>1 DEF Task
  <2>4. SameChannels(k, m)
    BY <1>0, <2>1 DEF Task, SameChannels
  <2> HIDE DEF k, m
  <2>5. Moved(k, m)
    BY <2>2, <2>3 DEF Moved
  <2> QED BY <2>4, <2>5 DEF k, m
<1>2. CASE TaskPauses(t)
  <2>1. m = [k EXCEPT !.pc = "pausing", !.paused = FALSE] /\ k.pc = "select"
    BY <1>2, <1>s DEF TaskPauses
  <2> QED BY <1>0, <2>1 DEF Task, SameChannels, Moved
<1>3. CASE TaskReleases(t)
  <2>1. m = [k EXCEPT !.pc = "select", !.subscribed = FALSE] /\ k.pc = "pausing"
    BY <1>3, <1>s DEF TaskReleases
  <2> QED BY <1>0, <2>1 DEF Task, SameChannels, Moved
<1>4. CASE TaskReleaseFails(t) \/ TaskEnds(t)
  <2>1. /\ k.pc \in {"pausing", "shutting"}
        /\ \E ok \in BOOLEAN :
              m = [k EXCEPT !.pc = "done", !.ok = ok, !.news = TRUE,
                            !.command = NoRequest, !.subscribed = FALSE]
    <3>1. CASE TaskReleaseFails(t)
      <4>1. /\ m = [k EXCEPT !.pc = "done", !.ok = FALSE, !.command = NoRequest,
                             !.subscribed = FALSE, !.news = TRUE]
            /\ k.pc = "pausing"
        BY <3>1, <1>s DEF TaskReleaseFails
      <4> QED BY <1>0, <4>1 DEF Task
    <3>2. CASE TaskEnds(t)
      BY <3>2, <1>s DEF TaskEnds
    <3> QED BY <1>4, <3>1, <3>2
  <2> QED BY <1>0, <2>1 DEF Task, SameChannels, Moved
<1>5. CASE TaskStarts(t)
  <2> DEFINE to == IF k.fired = k.command.id THEN "sending" ELSE "running"
  <2>1. /\ m = [k EXCEPT !.pc = to, !.current = k.command, !.command = NoRequest,
                         !.ok = FALSE]
        /\ k.pc = "select" /\ ~k.paused /\ k.command.id # 0
    BY <1>5, <1>s DEF TaskStarts
  <2>2. to \in {"sending", "running"} /\ (to = "running" => k.fired # k.command.id)
    OBVIOUS
  <2> HIDE DEF to
  <2> QED BY <1>0, <2>1, <2>2 DEF Task, SameChannels, Moved
<1>6. CASE TaskSucceeds(t)
  <2>1. /\ m = [k EXCEPT !.pc = "sending", !.ok = TRUE, !.news = TRUE,
                         !.subscribed = k.subscribed \/ k.current.follow]
        /\ k.pc = "running"
    BY <1>6, <1>s DEF TaskSucceeds
  <2> QED BY <1>0, <2>1 DEF Task, SameChannels, Moved
<1>7. CASE TaskFails(t)
  <2>1. PICK keeps \in BOOLEAN :
           m = [k EXCEPT !.pc = "sending", !.ok = FALSE, !.news = TRUE,
                         !.subscribed = k.subscribed /\ keeps]
    BY <1>7, <1>s DEF TaskFails
  <2> QED BY <1>0, <1>7, <2>1 DEF Task, SameChannels, Moved, TaskFails
<1>8. CASE TaskReplies(t)
  <2>1. /\ m = [k EXCEPT !.pc = "select", !.current = NoRequest, !.ok = FALSE,
                         !.reply = [id |-> k.current.id, ok |-> k.ok]]
        /\ k.pc = "sending" /\ k.reply.id = 0
    BY <1>8, <1>s DEF TaskReplies
  <2> QED BY <1>0, <2>1 DEF Task, SameChannels, Moved
<1> QED BY <1>1, <1>2, <1>3, <1>4, <1>5, <1>6, <1>7, <1>8 DEF TaskNext

LEMMA TaskOrder ==
    ASSUME InOrder, Asked', NEW t \in TaskId, TaskNext(t) PROVE InOrder'
<1> DEFINE k == task[t]
           m == task'[t]
<1>0. /\ TypeOK /\ worker.task = t /\ t # 0
      /\ NoRequest.id = 0 /\ app.generation # 0
  BY TaskStepsAlive DEF InOrder, Asked, Owned, OneExecutor, NoRequest, AppInOrder, TaskId
<1>1. /\ app' = app /\ worker' = worker /\ ui' = ui /\ (InLoop' <=> InLoop)
      /\ \A u \in TaskId : u # t => task'[u] = task[u]
  BY <1>0, TaskStepsAlone DEF InLoop
<1>2. SameChannels(k, m) /\ Moved(k, m)
  BY <1>0, TaskMoved
<1>3. /\ TaskInOrder(k) /\ WorkerKnows(app, worker, k) /\ FollowKnown(worker, k)
      /\ AwaitedIsOwn(app, worker)
      /\ InLoop => AwaitedIsSafe(app, worker, k)
      /\ ui \in {"configure", "submit"} => RetiredIsOwn(app, worker)
  BY <1>0 DEF InOrder, WorkerInOrder
<1>4. InLoop /\ app.loading => LoadingHeld(app, worker, k)
  BY <1>0 DEF InOrder
<1>5. k \in Task /\ m \in Task
  BY <1>0 DEF Asked, Owned, TypeOK
<1>6. /\ AppInOrder(app')
      /\ \A u \in TaskId : u # t => TaskInOrder(task'[u])
  BY <1>1 DEF InOrder
<1> HIDE DEF k, m
<1>7. TaskInOrder(m)
  BY <1>0, <1>2, <1>3 DEF Moved, TaskInOrder
<1>8. WorkerKnows(app, worker, m)
  BY <1>0, <1>2, <1>3 DEF Moved, SameChannels, WorkerKnows
<1>9. FollowKnown(worker, m)
  BY <1>0, <1>2, <1>3, <1>5 DEF Moved, SameChannels, FollowKnown
<1>10. InLoop => AwaitedIsSafe(app, worker, m)
  BY <1>2, <1>3 DEF SameChannels, AwaitedIsSafe
<1>11. InLoop /\ app.loading => LoadingHeld(app, worker, m)
  BY <1>0, <1>2, <1>3, <1>4 DEF Moved, TaskInOrder, WorkerKnows, LoadingHeld
<1>12. \A u \in TaskId : TaskInOrder(task'[u])
  BY <1>6, <1>7 DEF m
<1> QED BY <1>0, <1>1, <1>3, <1>6, <1>8, <1>9, <1>10, <1>11, <1>12, Reordered DEF m

-----------------------------------------------------------------------------
(* sync_worker *)

LEMMA SignalledFields ==
    ASSUME NEW k \in Task, NEW pauses \in BOOLEAN, NEW stops \in BOOLEAN,
           NEW cancel \in Nat
    PROVE  LET m == Signalled(k, pauses, stops, cancel) IN
           /\ m.pc = k.pc /\ m.alias = k.alias /\ m.session = k.session
           /\ m.command = k.command /\ m.current = k.current /\ m.reply = k.reply
           /\ m.subscribed = k.subscribed
           /\ m.paused <=> k.paused \/ pauses
           /\ m.stop <=> k.stop \/ stops
           /\ m.fired = IF cancel # 0 THEN cancel ELSE k.fired
<1> DEFINE m == Signalled(k, pauses, stops, cancel)
<1>1. /\ m.pc = k.pc /\ m.alias = k.alias /\ m.session = k.session
      /\ m.command = k.command /\ m.current = k.current /\ m.reply = k.reply
      /\ m.subscribed = k.subscribed
  BY DEF Signalled, Task
<1>2. m.paused <=> k.paused \/ pauses
  BY DEF Signalled, Task
<1>3. m.stop <=> k.stop \/ stops
  BY DEF Signalled, Task
<1>4. m.fired = IF cancel # 0 THEN cancel ELSE k.fired
  BY DEF Signalled, Task
<1> QED BY <1>1, <1>2, <1>3, <1>4

(* The worker that is left alone is the view's, and a request that is      *)
(* still awaited is left alone.                                            *)
LEMMA RetireOrder == ASSUME InOrder, Asked', Retire PROVE InOrder'
<1>0. /\ TypeOK /\ app \in App /\ worker \in Worker /\ task \in [TaskId -> Task]
      /\ app' = app /\ ui = "retire" /\ ui' = "configure" /\ app.generation # 0
      /\ app.generation \in Nat
  BY AppFields DEF InOrder, Asked, Owned, TypeOK, Retire, RetireBy, AppInOrder
<1>1. AppInOrder(app')
  BY <1>0 DEF InOrder
<1>2. CASE worker.task = 0
  <2>1. worker' = worker /\ task' = task
    BY <1>2 DEF Retire, RetireBy
  <2>2. app.loading => LoadingHeld(app, worker, task[worker.task])
    BY <1>0 DEF InOrder, InLoop
  <2>3. \A t \in TaskId : TaskInOrder(task[t])
    BY DEF InOrder
  <2> QED BY <1>0, <1>1, <1>2, <2>1, <2>2, <2>3, Reordered
<1>3. CASE worker.task # 0
  <2> DEFINE fires == worker.cancel # 0 /\ (Pauses \/ Stops \/ Stale)
             k == task[worker.task]
             m == task'[worker.task]
  <2>0. /\ worker.task \in TaskId /\ Pauses \in BOOLEAN /\ Stops \in BOOLEAN
        /\ worker.cancel \in Nat /\ k \in Task /\ worker.request.id \in Nat
    BY <1>0, <1>3, WorkerFields, RequestFields, BoundAssumption DEF TaskId, Pauses, Stops
  <2>1. /\ worker'.task = worker.task /\ worker'.alias = worker.alias
        /\ worker'.session = worker.session /\ worker'.request = worker.request
        /\ worker'.follow <=> worker.follow /\ ~Pauses
        /\ worker'.closing <=> worker.closing \/ Stops
        /\ worker'.cancel = IF fires THEN 0 ELSE worker.cancel
    <3>1. worker' = [worker EXCEPT !.follow  = worker.follow /\ ~Pauses,
                                   !.closing = worker.closing \/ Stops,
                                   !.cancel  = IF fires THEN 0 ELSE worker.cancel]
      BY <1>3 DEF Retire, RetireBy
    <3>2. /\ worker'.task = worker.task /\ worker'.alias = worker.alias
          /\ worker'.session = worker.session /\ worker'.request = worker.request
      BY <1>0, <3>1 DEF Worker
    <3>3. worker'.follow <=> worker.follow /\ ~Pauses
      BY <1>0, <3>1 DEF Worker
    <3>4. worker'.closing <=> worker.closing \/ Stops
      BY <1>0, <3>1 DEF Worker
    <3>5. worker'.cancel = IF fires THEN 0 ELSE worker.cancel
      <4> HIDE DEF fires
      <4> QED BY <1>0, <3>1 DEF Worker
    <3> QED BY <3>2, <3>3, <3>4, <3>5
  <2>2. /\ m = Signalled(k, Pauses, Stops, IF fires THEN worker.cancel ELSE 0)
        /\ \A t \in TaskId : t # worker.task => task'[t] = task[t]
    BY <1>0, <1>3, <2>0 DEF Retire, RetireBy, Signal
  <2>3. /\ m.pc = k.pc /\ m.alias = k.alias /\ m.session = k.session
        /\ m.command = k.command /\ m.current = k.current /\ m.reply = k.reply
        /\ m.subscribed = k.subscribed
        /\ m.paused <=> k.paused \/ Pauses
        /\ m.stop <=> k.stop \/ Stops
        /\ m.fired = IF fires THEN worker.cancel ELSE k.fired
    <3> DEFINE c == IF fires THEN worker.cancel ELSE 0
    <3>1. c \in Nat /\ (fires => c = worker.cancel /\ c # 0) /\ (~fires => c = 0)
      BY <2>0
    <3> HIDE DEF fires, c
    <3> QED BY <2>0, <2>2, <3>1, SignalledFields DEF c
  <2>4. /\ TaskInOrder(k) /\ WorkerKnows(app, worker, k) /\ FollowKnown(worker, k)
        /\ AwaitedIsOwn(app, worker) /\ AwaitedIsSafe(app, worker, k)
        /\ app.request.id # 0 => worker.request.id # app.generation
        /\ app.loading => LoadingHeld(app, worker, k)
    BY <1>0, <1>3, <2>0 DEF InOrder, WorkerInOrder, InLoop, Asked
  <2>5. worker.request.id = app.generation => ~fires /\ ~Stops /\ ~Pauses
    BY <2>4 DEF AwaitedIsOwn, SameSession, FollowsWith, Stops, Pauses, Stale
  <2>6. ~Stops => SameSession(app, worker)
    BY DEF Stops, SameSession
  <2>7. worker.follow /\ ~Pauses => app.following
    BY <1>0, AppFields DEF Pauses
  <2>8. fires => worker.cancel = worker.request.id /\ worker.cancel # 0
    BY <2>4 DEF WorkerKnows
  <2>9. Pauses => worker.cancel = 0 \/ fires
    OBVIOUS
  <2>10. m \in Task /\ k.fired \in Nat /\ worker.request.id <= app.generation
    BY <1>0, <2>0, TaskFields DEF InOrder, Asked, Owned, TypeOK
  <2> DEFINE w == worker'
  <2> HIDE DEF fires, k, m, w
  <2>11. TaskInOrder(m)
    BY <2>3, <2>4 DEF TaskInOrder
  <2>12. WorkerKnows(app, w, m)
    <3>1. w.cancel \in {0, w.request.id} /\ m.fired <= app.generation
      BY <2>0, <2>1, <2>3, <2>4, <2>8, <2>10 DEF WorkerKnows, w
    <3>2. w.cancel = 0 /\ w.request.id # 0 => m.fired = w.request.id
      BY <2>1, <2>3, <2>4, <2>8 DEF WorkerKnows, w
    <3>3. m.stop <=> w.closing
      BY <2>1, <2>3, <2>4 DEF WorkerKnows, w
    <3> QED BY <2>1, <2>3, <2>4, <3>1, <3>2, <3>3 DEF WorkerKnows, w
  <2>13. FollowKnown(w, m)
    <3>1. m.subscribed => w.follow \/ m.paused \/ m.pc \in {"pausing", "shutting"}
      BY <2>1, <2>3, <2>4 DEF FollowKnown, w
    <3>2. /\ m.pc = "running" /\ m.current.follow => w.follow \/ m.paused
          /\ m.pc = "running" /\ ~m.current.follow => ~m.subscribed
      BY <2>1, <2>3, <2>4 DEF FollowKnown, w
    <3>3. m.command.id # 0 /\ m.command.follow => w.follow \/ m.fired = m.command.id
      BY <2>1, <2>3, <2>4, <2>8, <2>9 DEF FollowKnown, WorkerKnows, w
    <3>4. m.command.id # 0 /\ ~m.command.follow => ~w.follow
      BY <2>1, <2>3, <2>4 DEF FollowKnown, w
    <3> QED BY <3>1, <3>2, <3>3, <3>4 DEF FollowKnown
  <2>14. AwaitedIsOwn(app, w)
    BY <2>1, <2>4 DEF AwaitedIsOwn, SameSession, FollowsWith, w
  <2>15. AwaitedIsSafe(app, w, m)
    <3>1. w.request.id = app.generation => ~w.closing /\ m.fired # app.generation
      BY <2>1, <2>3, <2>4, <2>5 DEF AwaitedIsSafe, w
    <3>2. app.request.id # 0 => m.fired # app.generation
      BY <2>3, <2>4, <2>8 DEF AwaitedIsSafe
    <3> QED BY <3>1, <3>2 DEF AwaitedIsSafe
  <2>16. RetiredIsOwn(app, w)
    BY <2>1, <2>6, <2>7 DEF RetiredIsOwn, SameSession, FollowsWith, w
  <2>17. app.loading => LoadingHeld(app, w, m)
    BY <2>1, <2>3, <2>4, <2>5 DEF LoadingHeld, w
  <2>18. \A t \in TaskId : TaskInOrder(task'[t])
    BY <2>2, <2>11 DEF InOrder, m
  <2> QED BY <1>0, <1>1, <2>1, <2>12, <2>13, <2>14, <2>15, <2>16, <2>17, <2>18, Reordered DEF w, m
<1> QED BY <1>2, <1>3

(* The worker that starts is that of the pending request, and so the       *)
(* view's.                                                                 *)
LEMMA SpawnOrder == ASSUME InOrder, Asked', ConfigureSpawns PROVE InOrder'
<1> DEFINE t == spawned'
           m == task'[t]
           w == worker'
<1>0. /\ app \in App /\ task \in [TaskId -> Task] /\ t \in TaskId
      /\ app' = app /\ ui' = "submit" /\ InLoop /\ worker.task = 0 /\ app.request.id # 0
      /\ app.generation \in Nat /\ app.generation # 0
      /\ AppInOrder(app) /\ worker.request.id = 0
      /\ NoRequest.id = 0 /\ NoReply.id = 0
  BY AppFields, BoundAssumption
  DEF ConfigureSpawns, NeedsExecutor, InLoop, InOrder, AppInOrder, Asked, Owned, TypeOK,
      TaskId, NoRequest, NoReply
<1>1. /\ w.task = t /\ w.alias = app.request.alias /\ w.session = app.session
      /\ w.request = NoRequest /\ w.cancel = 0 /\ w.follow = FALSE /\ w.closing = FALSE
  BY DEF ConfigureSpawns, NoWorker
<1>2. /\ m.pc = "select" /\ m.alias = app.request.alias /\ m.session = app.session
      /\ m.command = NoRequest /\ m.current = NoRequest /\ m.fired = 0
      /\ m.stop = FALSE /\ m.subscribed = FALSE
  <2>1. m = [Unborn EXCEPT !.pc = "select", !.alias = app.request.alias,
                           !.session = app.session]
    BY <1>0 DEF ConfigureSpawns
  <2> QED BY <2>1 DEF Unborn
<1>3. \A u \in TaskId : u # t => task'[u] = task[u]
  BY <1>0 DEF ConfigureSpawns
<1>4. app.request.alias = app.alias /\ app.alias # NoAlias
  BY <1>0 DEF AppInOrder
<1>5. app.loading => app.request.id = app.generation
  BY <1>0 DEF InOrder, LoadingHeld
<1> HIDE DEF t, m, w
<1>6. TaskInOrder(m)
  BY <1>0, <1>2 DEF TaskInOrder
<1>7. WorkerKnows(app, w, m)
  <2>1. m.stop <=> w.closing
    BY ONLY <1>1, <1>2, Zenon
  <2> QED BY <1>0, <1>1, <1>2, <1>4, <2>1 DEF WorkerKnows
<1>8. FollowKnown(w, m)
  BY <1>0, <1>2 DEF FollowKnown
<1>9. /\ AwaitedIsOwn(app, w) /\ AwaitedIsSafe(app, w, m) /\ RetiredIsOwn(app, w)
  <2>1. w.request.id # app.generation /\ m.fired # app.generation
    BY <1>0, <1>1, <1>2
  <2>2. SameSession(app, w)
    BY <1>1, <1>4 DEF SameSession
  <2>3. FollowsWith(app, w)
    BY ONLY <1>1, Zenon DEF FollowsWith
  <2> QED BY <2>1, <2>2, <2>3 DEF AwaitedIsOwn, AwaitedIsSafe, RetiredIsOwn
<1>10. app.loading => LoadingHeld(app, w, m)
  BY <1>5 DEF LoadingHeld
<1>11. \A u \in TaskId : TaskInOrder(task'[u])
  BY <1>3, <1>6 DEF InOrder, m
<1> QED BY <1>0, <1>1, <1>7, <1>8, <1>9, <1>10, <1>11, Reordered DEF m, w

LEMMA ConfigureFailsOrder == ASSUME InOrder, Asked', ConfigureFails PROVE InOrder'
<1> DEFINE a == [app EXCEPT !.request = NoRequest]
<1>0. /\ app \in App /\ app.request \in Request /\ AppInOrder(app) /\ a \in App
      /\ worker' = worker /\ task' = task /\ worker.task = 0 /\ app.request.id # 0
  BY AppFields, AppRequest, NothingType
  DEF ConfigureFails, NeedsExecutor, InOrder, Asked, Owned, TypeOK
<1>1. /\ a.generation = app.generation /\ a.session = app.session /\ a.alias = app.alias
      /\ a.loading = app.loading /\ a.following = app.following
      /\ a.due = app.due /\ a.status = app.status /\ a.request.id = 0
  BY <1>0 DEF App, NoRequest
<1>2. app' = Complete(a, app.request, FALSE, 0)
  BY DEF ConfigureFails
<1>3. app'.loading = FALSE
  BY ConfigureFailsNumbers DEF InOrder
<1> HIDE DEF a
<1>4. AppInOrder(a) /\ app.request.follow = a.following
  BY <1>0, <1>1 DEF AppInOrder
<1>5. AppInOrder(app')
  BY <1>0, <1>1, <1>2, <1>4, CompleteOrder
<1>6. \A t \in TaskId : TaskInOrder(task'[t])
  BY <1>0 DEF InOrder
<1> QED BY <1>0, <1>3, <1>5, <1>6, Reordered

(* The request goes to the view's worker, which has no other.              *)
LEMMA SubmitOrder == ASSUME InOrder, Asked', Submit PROVE InOrder'
<1> DEFINE t == worker.task
           k == task[t]
           m == task'[t]
           r == app.request
           w == worker'
           a == app'
<1>0. /\ app \in App /\ worker \in Worker /\ task \in [TaskId -> Task] /\ t \in TaskId /\ t # 0
      /\ ui = "submit" /\ ui' = "wait" /\ InLoop /\ InLoop'
      /\ worker.request.id = 0 /\ ~worker.closing /\ r.id # 0 /\ r \in Request
      /\ r.id = app.generation /\ k.command.id = 0 /\ k.pc # "done"
      /\ app.generation \in Nat /\ app.generation # 0 /\ NoRequest.id = 0
  BY AppFields, WorkerFields, BoundAssumption
  DEF Submit, CanSubmit, Accepts, InLoop, InOrder, Asked, Owned, TypeOK, TaskId, NoRequest
<1>1. /\ TaskInOrder(k) /\ WorkerKnows(app, worker, k) /\ FollowKnown(worker, k)
      /\ AwaitedIsSafe(app, worker, k) /\ RetiredIsOwn(app, worker)
      /\ AppInOrder(app)
  BY <1>0 DEF InOrder, WorkerInOrder
<1>2. /\ w.task = t /\ w.alias = worker.alias /\ w.session = worker.session
      /\ w.request = r /\ w.cancel = r.id
      /\ w.closing <=> worker.closing
  BY <1>0 DEF Submit, Worker
<1>3. w.follow <=> worker.follow \/ r.follow
  BY <1>0 DEF Submit, Worker
<1>4. /\ m.pc = k.pc /\ m.alias = k.alias /\ m.session = k.session
      /\ m.command = r /\ m.current = k.current /\ m.fired = k.fired
      /\ m.paused = k.paused /\ m.subscribed = k.subscribed /\ m.stop = k.stop
  BY <1>0 DEF Submit, Task
<1>5. /\ a.generation = app.generation /\ a.session = app.session /\ a.alias = app.alias
      /\ a.loading = app.loading /\ a.following = app.following
      /\ a.due = app.due /\ a.status = app.status /\ a.request.id = 0
  BY <1>0 DEF Submit, App, NoRequest
<1>6. \A u \in TaskId : u # t => task'[u] = task[u]
  BY <1>0 DEF Submit
<1>7. r.alias = app.alias /\ r.follow = app.following
  BY <1>0, <1>1 DEF AppInOrder
<1>8. worker.alias = app.alias /\ worker.session = app.session
      /\ (worker.follow => app.following)
  BY <1>0, <1>1 DEF RetiredIsOwn, SameSession, FollowsWith
<1>9. r.follow \in BOOLEAN /\ app.following \in BOOLEAN /\ worker.follow \in BOOLEAN
  BY <1>0, AppFields, RequestFields, WorkerFields
<1>10. k.current.id = 0
  BY <1>0 DEF InOrder, Asked, SingleFlight
<1> HIDE DEF k, m, r, w, a
<1>11. TaskInOrder(m)
  BY <1>0, <1>1, <1>4 DEF TaskInOrder, WorkerKnows
<1>12. AppInOrder(a)
  BY <1>1, <1>5 DEF AppInOrder
<1>13. WorkerKnows(a, w, m)
  BY <1>0, <1>1, <1>2, <1>4, <1>5, <1>7, <1>8, <1>10 DEF WorkerKnows
<1>14. FollowKnown(w, m)
  <2>1. m.subscribed => w.follow \/ m.paused \/ m.pc \in {"pausing", "shutting"}
    BY <1>1, <1>3, <1>4 DEF FollowKnown
  <2>2. /\ m.pc = "running" /\ m.current.follow => w.follow \/ m.paused
        /\ m.pc = "running" /\ ~m.current.follow => ~m.subscribed
    BY <1>1, <1>3, <1>4 DEF FollowKnown
  <2>3. r.follow => w.follow
    BY <1>3
  <2>4. ~r.follow => ~w.follow
    BY <1>3, <1>7, <1>8, <1>9
  <2> QED BY <1>4, <2>1, <2>2, <2>3, <2>4 DEF FollowKnown
<1>15. AwaitedIsOwn(a, w)
  <2>1. w.follow => a.following
    BY <1>3, <1>5, <1>7, <1>8, <1>9
  <2> QED BY <1>2, <1>5, <1>7, <1>8, <2>1 DEF AwaitedIsOwn, SameSession, FollowsWith
<1>16. AwaitedIsSafe(a, w, m)
  <2>1. m.fired # a.generation
    BY <1>0, <1>1, <1>4, <1>5 DEF AwaitedIsSafe, r
  <2> QED BY <1>0, <1>2, <1>5, <2>1 DEF AwaitedIsSafe
<1>17. LoadingHeld(a, w, m)
  BY <1>0, <1>2, <1>4, <1>5 DEF LoadingHeld
<1>18. \A u \in TaskId : TaskInOrder(task'[u])
  BY <1>6, <1>11 DEF InOrder, m
<1> QED BY <1>0, <1>2, <1>12, <1>13, <1>14, <1>15, <1>16, <1>17, <1>18, Reordered DEF a, w, m

(* Steps that change nothing but where the loop is, and ends there.        *)
LEMMA QuietOrder ==
    ASSUME InOrder, Asked', app' = app, worker' = worker, task' = task,
           InLoop' => InLoop,
           ui' \in {"configure", "submit"} => ui \in {"configure", "submit"}
    PROVE  InOrder'
BY Reordered DEF InOrder, WorkerInOrder

LEMMA SubmitFailsOrder == ASSUME InOrder, Asked', SubmitFails PROVE InOrder'
<1> DEFINE k == task[worker.task]
           a == app'
<1>0. /\ app \in App /\ worker' = worker /\ task' = task /\ ~InLoop' /\ AppInOrder(app)
      /\ ui' \notin {"configure", "submit"}
  BY DEF SubmitFails, InLoop, InOrder, Asked, Owned, TypeOK
<1>1. /\ a.generation = app.generation /\ a.session = app.session /\ a.alias = app.alias
      /\ a.loading = app.loading /\ a.following = app.following
      /\ a.due = app.due /\ a.status = app.status /\ a.request.id = 0
  BY <1>0 DEF SubmitFails, App, NoRequest
<1>2. /\ \A t \in TaskId : TaskInOrder(task[t])
      /\ worker.task # 0 => /\ WorkerKnows(app, worker, k) /\ FollowKnown(worker, k)
                            /\ AwaitedIsOwn(app, worker)
  BY DEF InOrder, WorkerInOrder
<1> HIDE DEF a, k
<1>3. AppInOrder(a)
  BY <1>0, <1>1 DEF AppInOrder
<1>4. worker.task # 0 => WorkerKnows(a, worker, k) /\ AwaitedIsOwn(a, worker)
  BY <1>1, <1>2 DEF WorkerKnows, AwaitedIsOwn, SameSession, FollowsWith
<1> QED BY <1>0, <1>2, <1>3, <1>4, Reordered DEF a, k

LEMMA LoopOrder == ASSUME InOrder, Asked', LoopStep PROVE InOrder'
<1>1. CASE ConfigureNothing \/ SubmitNothing
  BY <1>1, QuietOrder DEF ConfigureNothing, SubmitNothing, InLoop
<1> QED BY <1>1, RetireOrder, SpawnOrder, ConfigureFailsOrder, SubmitOrder, SubmitFailsOrder
        DEF LoopStep

-----------------------------------------------------------------------------
(* The worker's events *)

LEMMA AbortOrder ==
    ASSUME task \in [TaskId -> Task], NEW t \in TaskId, task' = Abort(t),
           \A u \in TaskId : TaskInOrder(task[u])
    PROVE  /\ \A u \in TaskId : TaskInOrder(task'[u])
           /\ \A u \in TaskId : u # t => task'[u] = task[u]
<1> DEFINE m == task'[t]
<1>1. \A u \in TaskId : u # t => task'[u] = task[u]
  BY DEF Abort
<1>2. m = [task[t] EXCEPT !.pc = "done", !.ok = FALSE, !.command = NoRequest,
                          !.current = NoRequest, !.subscribed = FALSE]
  BY DEF Abort
<1>3. m.command.id = 0 /\ m.current.id = 0 /\ m.subscribed = FALSE
  BY <1>2 DEF Task, NoRequest
<1> HIDE DEF m
<1>4. TaskInOrder(m)
  BY <1>3 DEF TaskInOrder
<1> QED BY <1>1, <1>4 DEF m

(* A worker that ends with the awaited request ends the loop.              *)
LEMMA WorkerEndsOrder ==
    ASSUME InOrder, Asked', WorkerFinished \/ ClosingTimesOut PROVE InOrder'
<1>0. /\ task \in [TaskId -> Task] /\ worker \in Worker /\ InLoop
      /\ AppInOrder(app) /\ \A t \in TaskId : TaskInOrder(task[t])
      /\ app' = app /\ worker'.task = 0
  BY DEF InOrder, Asked, Owned, TypeOK, WorkerFinished, ClosingTimesOut, Listening,
         InLoop, NoWorker
<1>1. AppInOrder(app')
  BY <1>0
<1>2. CASE WorkerFinished
  <2>1. task' = task /\ (InLoop' => worker.closing)
    BY <1>2 DEF WorkerFinished, InLoop
  <2>2. InLoop' /\ app.loading => app.request.id = app.generation
    BY <1>0, <2>1 DEF InOrder, LoadingHeld
  <2> QED BY <1>0, <1>1, <2>1, <2>2, Reordered DEF LoadingHeld
<1>3. CASE ClosingTimesOut
  <2>1. worker.task \in TaskId /\ task' = Abort(worker.task) /\ ~InLoop'
    BY <1>0, <1>3, WorkerFields, BoundAssumption
    DEF ClosingTimesOut, Listening, InLoop, TaskId
  <2> QED BY <1>0, <1>1, <2>1, AbortOrder, Reordered
<1> QED BY <1>2, <1>3

(* The reply is the awaited one only in the session it was asked in, so a  *)
(* reply that is dropped leaves nothing loading without an owner.          *)
LEMMA WorkerRepliesOrder == ASSUME InOrder, Asked', WorkerReplies PROVE InOrder'
<1> DEFINE t == worker.task
           k == task[t]
           m == task'[t]
           w == worker'
           ours == worker.session = app.session
           current == worker.request.id = app.generation
<1>0. /\ app \in App /\ worker \in Worker /\ task \in [TaskId -> Task]
      /\ t \in TaskId /\ t # 0 /\ k \in Task /\ InLoop
      /\ ui' \notin {"configure", "submit"}
      /\ worker.request \in Request /\ app.generation \in Nat /\ app.generation # 0
      /\ NoRequest.id = 0 /\ k.reply.id # 0
  <2>1. app \in App /\ worker \in Worker /\ task \in [TaskId -> Task] /\ app.generation # 0
    BY DEF InOrder, AppInOrder, Asked, Owned, TypeOK
  <2>2. /\ ui = "wait" /\ worker.task # 0 /\ ui' = "retire" /\ k.reply.id # 0
    BY Zenon DEF WorkerReplies, Deliver, Listening
  <2>3. worker.task \in 0 .. MaxTask /\ worker.request \in Request /\ app.generation \in Nat
    BY <2>1, AppFields, WorkerFields
  <2>4. t \in TaskId
    BY <2>2, <2>3, BoundAssumption DEF TaskId
  <2>5. k \in Task
    BY <2>1, <2>4
  <2>6. InLoop /\ ui' \notin {"configure", "submit"}
    BY <2>2 DEF InLoop
  <2>7. NoRequest.id = 0
    BY DEF NoRequest
  <2> QED
    BY <2>1, <2>2, <2>3, <2>4, <2>5, <2>6, <2>7
<1>1. /\ AppInOrder(app) /\ TaskInOrder(k)
      /\ WorkerKnows(app, worker, k) /\ FollowKnown(worker, k)
      /\ AwaitedIsOwn(app, worker) /\ AwaitedIsSafe(app, worker, k)
      /\ app.loading => LoadingHeld(app, worker, k)
  BY <1>0 DEF InOrder, WorkerInOrder
<1>2. k.reply.ok \in BOOLEAN /\ k.session \in Nat /\ k.fired \in Nat
  BY <1>0, TaskFields DEF Reply
<1>3. /\ k.command.id = 0 /\ k.current.id = 0
      /\ current => app.request.id = 0
  BY <1>0 DEF InOrder, Asked, SingleFlight
<1>4. /\ w.task = t /\ w.alias = worker.alias /\ w.session = worker.session
      /\ w.request.id = 0 /\ w.cancel = 0
      /\ w.follow = worker.follow /\ w.closing = worker.closing
  BY <1>0 DEF WorkerReplies, Deliver, Worker
<1>5. /\ m.pc = k.pc /\ m.alias = k.alias /\ m.session = k.session
      /\ m.command = k.command /\ m.current = k.current /\ m.fired = k.fired
      /\ m.paused = k.paused /\ m.stop = k.stop /\ m.subscribed = k.subscribed
  BY <1>0 DEF WorkerReplies, Deliver, Task
<1>6. \A u \in TaskId : u # t => task'[u] = task[u]
  BY <1>0 DEF WorkerReplies, Deliver
<1>7. /\ AppInOrder(app') /\ app'.generation \in {app.generation, app.generation + 1}
      /\ app'.request.id # 0 => app' = app
      /\ app'.loading => app' = app /\ app.request.id = app.generation
  <2>1. CASE ours /\ current
    <3>1. app' = Complete(app, worker.request, k.reply.ok, k.session)
      BY <2>1 DEF WorkerReplies, Deliver
    <3>2. worker.request.follow = app.following
      BY <1>1, <2>1 DEF AwaitedIsOwn
    <3> HIDE DEF k
    <3>3. AppInOrder(app')
      BY <1>0, <1>1, <1>2, <1>3, <2>1, <3>1, <3>2, CompleteOrder
    <3>4. app'.loading = FALSE
      BY <1>0, <1>2, <2>1, <3>1, CompleteNumbers
    <3>5. \/ app'.generation = app.generation /\ app'.request = app.request
          \/ app'.generation = app.generation + 1 /\ app'.request.id = 0
      BY <1>0, <1>2, <2>1, <3>1, CompleteNumbers
    <3> QED BY <1>3, <2>1, <3>3, <3>4, <3>5
  <2>2. CASE ~(ours /\ current)
    <3>1. app' = app
      BY <2>2 DEF WorkerReplies, Deliver, Complete
    <3>2. ~current
      BY <1>1, <2>2 DEF AwaitedIsOwn, SameSession
    <3>3. app.loading => app.request.id = app.generation
      BY <1>1, <3>2 DEF LoadingHeld
    <3> QED BY <1>1, <3>1, <3>3
  <2> QED BY <2>1, <2>2
<1> HIDE DEF k, m, w
<1>8. TaskInOrder(m)
  BY <1>1, <1>5 DEF TaskInOrder
<1>9. WorkerKnows(app', w, m)
  <2>1. m.fired <= app'.generation
    BY <1>0, <1>1, <1>2, <1>5, <1>7 DEF WorkerKnows
  <2>2. m.stop <=> w.closing
    BY <1>1, <1>4, <1>5 DEF WorkerKnows
  <2> QED BY <1>1, <1>3, <1>4, <1>5, <2>1, <2>2 DEF WorkerKnows
<1>10. FollowKnown(w, m)
  BY <1>1, <1>4, <1>5 DEF FollowKnown
<1>11. w.request.id # app'.generation
  BY <1>0, <1>4, <1>7
<1>12. AwaitedIsOwn(app', w) /\ AwaitedIsSafe(app', w, m)
  BY <1>1, <1>5, <1>7, <1>11 DEF AwaitedIsOwn, AwaitedIsSafe
<1>13. app'.loading => LoadingHeld(app', w, m)
  BY <1>7 DEF LoadingHeld
<1>14. \A u \in TaskId : TaskInOrder(task'[u])
  BY <1>6, <1>8 DEF InOrder, m
<1> QED BY <1>0, <1>4, <1>7, <1>9, <1>10, <1>12, <1>13, <1>14, Reordered DEF m, w

(* A status is shown only for the connection and session on show.          *)
LEMMA WorkerStatusOrder == ASSUME InOrder, Asked', WorkerStatus PROVE InOrder'
<1> DEFINE t == worker.task
           k == task[t]
           m == task'[t]
           a == app'
<1>0. /\ app \in App /\ worker \in Worker /\ task \in [TaskId -> Task]
      /\ t \in TaskId /\ t # 0 /\ k \in Task /\ InLoop /\ worker' = worker
      /\ ui' \notin {"configure", "submit"}
  BY WorkerFields, BoundAssumption
  DEF WorkerStatus, Listening, InLoop, InOrder, Asked, Owned, TypeOK, TaskId
<1>1. /\ AppInOrder(app) /\ TaskInOrder(k)
      /\ WorkerKnows(app, worker, k) /\ FollowKnown(worker, k)
      /\ AwaitedIsOwn(app, worker) /\ AwaitedIsSafe(app, worker, k)
      /\ app.loading => LoadingHeld(app, worker, k)
  BY <1>0 DEF InOrder, WorkerInOrder
<1>2. /\ a.generation = app.generation /\ a.session = app.session /\ a.alias = app.alias
      /\ a.request = app.request /\ a.loading = app.loading
      /\ a.following = app.following /\ a.due = app.due
  BY <1>0 DEF WorkerStatus, UpdateStatus, App
<1>3. \/ a.status = app.status
      \/ a.status = app.session /\ app.alias = worker.alias
  BY <1>0 DEF WorkerStatus, UpdateStatus, App
<1>4. /\ m.pc = k.pc /\ m.alias = k.alias /\ m.session = k.session
      /\ m.command = k.command /\ m.current = k.current /\ m.fired = k.fired
      /\ m.reply = k.reply /\ m.paused = k.paused /\ m.stop = k.stop
      /\ m.subscribed = k.subscribed
  BY <1>0 DEF WorkerStatus, Task
<1>5. \A u \in TaskId : u # t => task'[u] = task[u]
  BY <1>0 DEF WorkerStatus
<1> HIDE DEF k, m, a
<1>6. AppInOrder(a)
  BY <1>1, <1>2, <1>3 DEF AppInOrder, WorkerKnows
<1>7. TaskInOrder(m)
  BY <1>1, <1>4 DEF TaskInOrder
<1>8. WorkerKnows(a, worker, m)
  BY <1>1, <1>2, <1>4 DEF WorkerKnows
<1>9. FollowKnown(worker, m)
  BY <1>1, <1>4 DEF FollowKnown
<1>10. AwaitedIsOwn(a, worker) /\ AwaitedIsSafe(a, worker, m)
  BY <1>1, <1>2, <1>4 DEF AwaitedIsOwn, AwaitedIsSafe, SameSession, FollowsWith
<1>11. a.loading => LoadingHeld(a, worker, m)
  BY <1>1, <1>2, <1>4 DEF LoadingHeld
<1>12. \A u \in TaskId : TaskInOrder(task'[u])
  BY <1>5, <1>7 DEF InOrder, m
<1> QED BY <1>0, <1>6, <1>8, <1>9, <1>10, <1>11, <1>12, Reordered DEF m, a

-----------------------------------------------------------------------------
(* stop_worker *)

LEMMA StopWorkerOrder == ASSUME InOrder, Asked', StopWorker PROVE InOrder'
<1>0. /\ app' = app /\ ~InLoop' /\ ui' \notin {"configure", "submit"}
      /\ worker \in Worker /\ task \in [TaskId -> Task]
      /\ AppInOrder(app) /\ \A t \in TaskId : TaskInOrder(task[t])
      /\ app.generation \in Nat /\ worker.request.id <= app.generation
  BY AppFields DEF StopWorker, InLoop, InOrder, Asked, Owned, TypeOK
<1>1. AppInOrder(app')
  BY <1>0
<1>2. CASE worker.task = 0
  <2>1. worker' = worker /\ task' = task
    BY <1>2 DEF StopWorker
  <2> QED BY <1>0, <1>1, <1>2, <2>1, Reordered
<1>3. CASE worker.task # 0
  <2> DEFINE t == worker.task
             k == task[t]
             m == task'[t]
             w == worker'
  <2>0. /\ t \in TaskId /\ k \in Task /\ worker.cancel \in Nat
        /\ worker.request.id \in Nat /\ k.fired \in Nat
    BY <1>0, <1>3, WorkerFields, RequestFields, TaskFields, BoundAssumption DEF TaskId
  <2>1. /\ TaskInOrder(k) /\ WorkerKnows(app, worker, k) /\ FollowKnown(worker, k)
        /\ AwaitedIsOwn(app, worker)
    BY <1>0, <1>3, <2>0 DEF InOrder, WorkerInOrder
  <2>2. /\ w.task = t /\ w.alias = worker.alias /\ w.session = worker.session
        /\ w.request = worker.request /\ w.cancel = 0
        /\ w.follow = worker.follow /\ w.closing = TRUE
    BY <1>0, <1>3 DEF StopWorker, Worker
  <2>3. /\ m = Signalled(k, FALSE, TRUE, worker.cancel)
        /\ \A u \in TaskId : u # t => task'[u] = task[u]
    BY <1>0, <1>3, <2>0 DEF StopWorker, Signal
  <2>4. /\ m.pc = k.pc /\ m.alias = k.alias /\ m.session = k.session
        /\ m.command = k.command /\ m.current = k.current /\ m.subscribed = k.subscribed
        /\ m.paused <=> k.paused \/ FALSE
        /\ m.stop <=> k.stop \/ TRUE
        /\ m.fired = IF worker.cancel # 0 THEN worker.cancel ELSE k.fired
    <3> HIDE DEF k, m
    <3> QED BY <2>0, <2>3, SignalledFields, ZenonT(60)
  <2> HIDE DEF k, m, w
  <2>5. TaskInOrder(m)
    BY <2>1, <2>4 DEF TaskInOrder
  <2>6. WorkerKnows(app, w, m)
    <3>1. m.stop <=> w.closing
      BY <2>2, <2>4
    <3>2. m.fired <= app.generation
      BY <1>0, <2>0, <2>1, <2>4 DEF WorkerKnows
    <3>3. w.cancel = 0 /\ w.request.id # 0 => m.fired = w.request.id
      BY <2>1, <2>2, <2>4 DEF WorkerKnows
    <3> QED BY <2>1, <2>2, <2>4, <3>1, <3>2, <3>3 DEF WorkerKnows
  <2>7. FollowKnown(w, m)
    BY <2>1, <2>2, <2>4 DEF FollowKnown, WorkerKnows
  <2>8. AwaitedIsOwn(app, w)
    BY <2>1, <2>2 DEF AwaitedIsOwn, SameSession, FollowsWith
  <2>9. \A u \in TaskId : TaskInOrder(task'[u])
    BY <1>0, <2>3, <2>5 DEF m
  <2> QED BY <1>0, <1>1, <2>2, <2>6, <2>7, <2>8, <2>9, Reordered DEF m, w
<1> QED BY <1>2, <1>3

LEMMA JoinTimesOutOrder == ASSUME InOrder, Asked', JoinTimesOut PROVE InOrder'
<1> DEFINE t == worker.task
           k == task[t]
           m == task'[t]
<1>0. /\ app' = app /\ worker' = worker /\ ~InLoop' /\ ui' \notin {"configure", "submit"}
      /\ worker \in Worker /\ task \in [TaskId -> Task] /\ t \in TaskId /\ t # 0
      /\ k \in Task /\ task' = Abort(t) /\ NoRequest.id = 0
      /\ AppInOrder(app) /\ \A u \in TaskId : TaskInOrder(task[u])
  BY WorkerFields, BoundAssumption
  DEF JoinTimesOut, InLoop, InOrder, Asked, Owned, JoinsOwn, TypeOK, TaskId, NoRequest
<1>1. /\ WorkerKnows(app, worker, k) /\ AwaitedIsOwn(app, worker)
  BY <1>0 DEF InOrder, WorkerInOrder
<1>2. m = [k EXCEPT !.pc = "done", !.ok = FALSE, !.command = NoRequest,
                    !.current = NoRequest, !.subscribed = FALSE]
  BY <1>0 DEF Abort
<1>3. /\ m.pc = "done" /\ m.alias = k.alias /\ m.session = k.session
      /\ m.command.id = 0 /\ m.current.id = 0 /\ m.fired = k.fired
      /\ m.stop = k.stop /\ m.subscribed = FALSE
  BY <1>0, <1>2 DEF Task
<1>4. AppInOrder(app') /\ \A u \in TaskId : TaskInOrder(task'[u])
  BY <1>0, AbortOrder
<1> HIDE DEF k, m
<1>5. WorkerKnows(app, worker, m)
  BY <1>1, <1>3 DEF WorkerKnows
<1>6. FollowKnown(worker, m)
  BY <1>3 DEF FollowKnown
<1> QED BY <1>0, <1>1, <1>4, <1>5, <1>6, Reordered DEF m

-----------------------------------------------------------------------------
(* The invariant holds. *)

LEMMA InitOrder == Init => InOrder
<1> SUFFICES ASSUME Init PROVE InOrder
  OBVIOUS
<1> DEFINE listed == Connections(Blank)
<1>1. Asked
  BY AskedInit
<1>2. app \in App
  BY <1>1 DEF Asked, Owned, TypeOK
<1>3. Blank \in App /\ Blank.following \in BOOLEAN
  BY NothingType DEF Blank, App
<1>4. listed \in App /\ AppInOrder(listed) /\ listed.loading = FALSE
  BY <1>3, ConnectionsType, ConnectionsOrder, ConnectionsNumbers
<1> HIDE DEF listed
<1>5. AppInOrder(app) /\ (app.loading => app.request.id = app.generation)
  <2>1. CASE app = listed
    BY <1>4, <2>1
  <2>2. CASE \E alias \in Alias : app = OpenConnection(listed, alias)
    BY <1>4, <2>2, OpenConnectionOrder, OpenConnectionNumbers
  <2> QED BY <2>1, <2>2 DEF Init, listed
<1>6. \A t \in TaskId : TaskInOrder(task[t])
  BY DEF Init, Unborn, NoRequest, TaskInOrder
<1>7. worker.task = 0
  BY DEF Init, NoWorker
<1> QED BY <1>1, <1>5, <1>6, <1>7 DEF InOrder, WorkerInOrder, LoadingHeld

LEMMA StepOrder == ASSUME InOrder, [Next]_vars PROVE InOrder'
<1>1. Asked'
  BY AskedStep DEF InOrder
<1>2. CASE UserStep \/ FollowTick
  <2>1. PICK next \in App : AppStep(next) /\ (Kept(app, next) \/ Fresh(app, next))
    BY <1>2, UserMoves DEF InOrder, Asked
  <2>2. AppInOrder(app')
    BY <1>2, UserOrder DEF InOrder, Asked
  <2>3. app' = next
    BY <2>1 DEF AppStep
  <2> QED BY <1>1, <2>1, <2>2, <2>3, AppStepOrder
<1>3. CASE InputFails \/ JoinEnds
  BY <1>1, <1>3, QuietOrder DEF InputFails, JoinEnds, InLoop
<1>4. CASE UNCHANGED vars
  BY <1>1, <1>4, QuietOrder DEF vars, InLoop
<1>5. CASE WorkerEvent
  BY <1>1, <1>5, WorkerEndsOrder, WorkerRepliesOrder, WorkerStatusOrder DEF WorkerEvent
<1> QED BY <1>1, <1>2, <1>3, <1>4, <1>5, LoopOrder, StopWorkerOrder, JoinTimesOutOrder,
           TaskOrder DEF Next, Exit, Exited

(* A task that is not the worker's is not alive, and holds no request.     *)
LEMMA OrderedTasks == ASSUME InOrder PROVE OwnExecutor /\ NoReadWithSubscription
<1>0. /\ \A t \in TaskId : TaskInOrder(task[t]) /\ (Live(t) => worker.task = t)
      /\ 0 \notin TaskId
  BY DEF InOrder, Asked, Owned, OneExecutor, TaskId
<1>1. OwnExecutor
  <2> SUFFICES ASSUME NEW t \in TaskId, NEW r \in {task[t].command, task[t].current},
                      r.id # 0
               PROVE  /\ r.alias = task[t].alias
                      /\ r.id = app.generation => task[t].session = app.session
    BY DEF OwnExecutor
  <2>1. worker.task = t
    BY <1>0 DEF TaskInOrder, Live
  <2>2. WorkerKnows(app, worker, task[t]) /\ AwaitedIsOwn(app, worker)
    BY <1>0, <2>1 DEF InOrder, WorkerInOrder
  <2>3. r = worker.request
    BY <2>2 DEF WorkerKnows
  <2> QED BY <2>2, <2>3 DEF WorkerKnows, AwaitedIsOwn, SameSession
<1>2. NoReadWithSubscription
  <2> SUFFICES ASSUME NEW t \in TaskId, task[t].pc = "running", ~task[t].current.follow
               PROVE  ~task[t].subscribed
    BY DEF NoReadWithSubscription
  <2>1. worker.task = t
    BY <1>0 DEF Live
  <2>2. FollowKnown(worker, task[t])
    BY <1>0, <2>1 DEF InOrder, WorkerInOrder
  <2> QED BY <2>2 DEF FollowKnown
<1> QED BY <1>1, <1>2

LEMMA OrderedRequests == ASSUME InOrder PROVE RequestsInOrder
<1>1. CurrentNotCancelled
  <2> SUFFICES ASSUME InLoop, app.loading, worker.request.id = app.generation
               PROVE  /\ task[worker.task].fired # app.generation
                      /\ ~task[worker.task].stop
    BY DEF CurrentNotCancelled
  <2>1. worker.task # 0
    BY DEF InOrder, Asked, AppInOrder
  <2>2. /\ AwaitedIsSafe(app, worker, task[worker.task])
        /\ WorkerKnows(app, worker, task[worker.task])
    BY <2>1 DEF InOrder, WorkerInOrder
  <2> QED BY <2>2 DEF AwaitedIsSafe, WorkerKnows
<1>2. LoadingHasOwner
  BY DEF InOrder, LoadingHeld, LoadingHasOwner
<1>3. TimerOnlyWhenIdle /\ StatusBelongsToSession
  BY DEF InOrder, AppInOrder, TimerOnlyWhenIdle, StatusBelongsToSession, Browsing
<1> QED BY <1>1, <1>2, <1>3, OrderedTasks DEF RequestsInOrder

-----------------------------------------------------------------------------
(* What the methods of App show as loaded. *)

LEMMA LoadedKept ==
    ASSUME NEW a \in App
    PROVE  /\ Invalidate(a).loaded = a.loaded
           /\ Connections(a).loaded = a.loaded
           /\ QueueFollow(a).loaded = a.loaded
           /\ \A alias \in Alias \cup {NoAlias} : Load(a, alias).loaded = a.loaded
           /\ \A toList \in BOOLEAN : GoBack(a, toList).loaded = a.loaded
<1>1. Invalidate(a) \in App
  BY InvalidateType
<1>2. Invalidate(a).loaded = a.loaded
  BY DEF Invalidate, App
<1>3. Connections(a).loaded = a.loaded
  BY <1>1, <1>2 DEF Connections, App
<1>4. QueueFollow(a).loaded = a.loaded
  BY DEF QueueFollow, App
<1>5. \A alias \in Alias \cup {NoAlias} : Load(a, alias).loaded = a.loaded
  BY <1>1, <1>2 DEF Load, App
<1>6. \A toList \in BOOLEAN : GoBack(a, toList).loaded = a.loaded
  BY <1>1, <1>2 DEF GoBack, App
<1> QED BY <1>2, <1>3, <1>4, <1>5, <1>6

LEMMA OpeningLoads ==
    ASSUME NEW a \in App, NEW alias \in Alias
    PROVE  OpenConnection(a, alias).loaded = a.loaded
<1>1. alias \in Alias \cup {NoAlias}
  OBVIOUS
<1>2. Load(a, alias) \in App /\ Load(a, alias).loaded = a.loaded
  BY <1>1, LoadType, LoadedKept
<1> QED BY <1>2 DEF OpenConnection, App

LEMMA FollowLoads == ASSUME NEW a \in App PROVE StartFollow(a).loaded = a.loaded
<1> DEFINE b == [Invalidate(a) EXCEPT !.following = TRUE]
<1>1. b \in App /\ b.loaded = a.loaded
  <2>1. Invalidate(a) \in App /\ Invalidate(a).loaded = a.loaded
    BY InvalidateType, LoadedKept
  <2>2. b \in App
    BY <2>1, AppBooleans
  <2>3. b.loaded = Invalidate(a).loaded
    BY <2>1 DEF App
  <2> QED BY <2>1, <2>2, <2>3
<1>2. QueueFollow(b).loaded = b.loaded
  <2> HIDE DEF b
  <2> QED BY <1>1, LoadedKept
<1> QED BY <1>1, <1>2 DEF StartFollow

LEMMA CompleteLoads ==
    ASSUME NEW a \in App, NEW r \in Request, NEW ok \in BOOLEAN, NEW from \in Nat
    PROVE  LET b == Complete(a, r, ok, from) IN
           \/ b.loaded = a.loaded
           \/ r.id = a.generation /\ ok /\ b.loaded = from /\ b.session = a.session
<1>1. LET b == CompleteFollow(a, ok, from) IN
      \/ b.loaded = a.loaded
      \/ ok /\ b.loaded = from /\ b.session = a.session
  BY DEF CompleteFollow, App
<1>2. LET b == CompletePage(a, ok, from) IN
      \/ b.loaded = a.loaded
      \/ ok /\ b.loaded = from /\ b.session = a.session
  BY LoadedKept DEF CompletePage, App
<1> QED BY <1>1, <1>2 DEF Complete

LEMMA UserLoadsNothing ==
    ASSUME Owned, UserStep \/ FollowTick PROVE app'.loaded = app.loaded
<1> DEFINE s == StopFollowing(app)
<1>0. app \in App /\ s \in App /\ s.loaded = app.loaded
  BY StopFollowingType, LoadedKept DEF Owned, TypeOK, StopFollowing
<1>1. app.alias \in Alias \cup {NoAlias}
  BY <1>0, AppFields
<1>i. Invalidate(app) \in App /\ Invalidate(app).loaded = app.loaded
  BY <1>0, InvalidateType, LoadedKept
<1>q. ASSUME NEW a \in App PROVE [a EXCEPT !.quit = TRUE].loaded = a.loaded
  BY DEF App
<1>2. CASE UserOpensConnection
  BY <1>0, <1>2, OpeningLoads DEF UserOpensConnection, AppStep
<1>3. CASE UserLoads
  BY <1>0, <1>1, <1>3, LoadedKept DEF UserLoads, AppStep
<1>4. CASE UserStartsFollowing
  BY <1>0, <1>4, FollowLoads DEF UserStartsFollowing, AppStep
<1>5. CASE UserInvalidates
  BY <1>5, <1>i DEF UserInvalidates, AppStep
<1>6. CASE UserGoesBack
  BY <1>0, <1>6, LoadedKept DEF UserGoesBack, AppStep
<1>7. CASE UserShowsConnections
  BY <1>0, <1>7, LoadedKept DEF UserShowsConnections, AppStep
<1>8. CASE UserCancels
  <2>1. app' = Invalidate(app) \/ app' = [app EXCEPT !.quit = TRUE]
    BY <1>8 DEF UserCancels, AppStep
  <2> QED BY <1>0, <1>i, <1>q, <2>1
<1>9. CASE UserConfirmsQuit
  <2>1. app' = [Invalidate(app) EXCEPT !.quit = TRUE]
    BY <1>9 DEF UserConfirmsQuit, AppStep
  <2> QED BY <1>i, <1>q, <2>1
<1>10. CASE FollowTick
  BY <1>0, <1>10, LoadedKept DEF FollowTick, AppStep
<1> QED BY <1>2, <1>3, <1>4, <1>5, <1>6, <1>7, <1>8, <1>9, <1>10 DEF UserStep

(* Only a reply shows a page, and its executor is of the view's session.   *)
LEMMA OwnPages ==
    ASSUME InOrder, [Next]_vars
    PROVE  app'.loaded # app.loaded => app'.loaded = app.session
<1>0. /\ TypeOK /\ app \in App /\ worker \in Worker /\ task \in [TaskId -> Task]
      /\ worker.request \in Request
  BY WorkerFields DEF InOrder, Asked, Owned, TypeOK
<1>1. CASE UserStep \/ FollowTick
  BY <1>1, UserLoadsNothing DEF InOrder, Asked
<1>2. CASE ConfigureFails
  <2> DEFINE a == [app EXCEPT !.request = NoRequest]
  <2>1. a \in App /\ a.loaded = app.loaded /\ app.request \in Request
    BY <1>0, AppFields, AppRequest, NothingType DEF App
  <2>2. app' = Complete(a, app.request, FALSE, 0)
    BY <1>2 DEF ConfigureFails
  <2> HIDE DEF a
  <2> QED BY <2>1, <2>2, CompleteLoads
<1>3. CASE Submit \/ SubmitFails \/ WorkerStatus
  <2>1. app'.loaded = app.loaded
    BY <1>0, <1>3 DEF Submit, SubmitFails, WorkerStatus, UpdateStatus, App
  <2> QED BY <2>1
<1>4. CASE WorkerReplies
  <2> DEFINE k == task[worker.task]
  <2>1. worker.task \in TaskId /\ worker.task # 0
    BY <1>0, <1>4, WorkerFields, BoundAssumption
    DEF WorkerReplies, Deliver, Listening, TaskId
  <2>2. k \in Task /\ k.reply.ok \in BOOLEAN /\ k.session \in Nat
    BY <1>0, <2>1, TaskFields DEF Reply
  <2>3. k.session = worker.session
    BY <2>1 DEF InOrder, WorkerInOrder, WorkerKnows
  <2>4. \/ app' = app
        \/ /\ worker.session = app.session
           /\ app' = Complete(app, worker.request, k.reply.ok, k.session)
    BY <1>4 DEF WorkerReplies, Deliver
  <2> HIDE DEF k
  <2> QED BY <1>0, <2>2, <2>3, <2>4, CompleteLoads
<1>5. CASE \/ InputFails \/ Retire \/ ConfigureSpawns \/ ConfigureNothing
           \/ SubmitNothing \/ WorkerFinished \/ ClosingTimesOut \/ Exit
           \/ UNCHANGED vars
  <2>1. app' = app
    BY <1>5 DEF InputFails, Retire, RetireBy, ConfigureSpawns, ConfigureNothing,
                SubmitNothing, WorkerFinished, ClosingTimesOut, Exit, StopWorker,
                JoinEnds, JoinTimesOut, vars
  <2> QED BY <2>1
<1>6. ASSUME NEW t \in TaskId, TaskNext(t) PROVE app' = app
  BY <1>0, <1>6, TaskStepsAlone
<1> QED BY <1>1, <1>2, <1>3, <1>4, <1>5, <1>6 DEF Next, Exited, LoopStep, WorkerEvent

(* A request stays with the executor of its own connection and, while it   *)
(* is awaited, of its own session; it is neither lost nor cancelled by a   *)
(* late retire or stop; no read runs beside a live subscription; no follow *)
(* timer is armed in vain; the status shown is the session's on show.      *)
THEOREM RequestsStayInOrder == Spec => []RequestsInOrder
<1> QED BY InitOrder, StepOrder, OrderedRequests, PTL DEF Spec

(* Whatever tasks of earlier visits still send, a page enters the view     *)
(* only from the executor of the session that is on show.                  *)
THEOREM PagesOfTheSession == Spec => PagesFromOwnSession
<1> QED BY InitOrder, StepOrder, OwnPages, PTL DEF Spec, PagesFromOwnSession

-----------------------------------------------------------------------------
(* Why the loop ends. A task shuts its executor down, and ends well, only  *)
(* after it was told to stop; and who tells it marks the worker as closing *)
(* (WorkerKnows).                                                          *)

ToldToEnd(k) == k.pc = "shutting" \/ (k.pc = "done" /\ k.ok) => k.stop

EndsAsked == \A t \in TaskId : ToldToEnd(task[t])

(* Signals take no stop back.                                              *)
LEMMA SignalEnds ==
    ASSUME TypeOK, EndsAsked, worker.task # 0, NEW pauses \in BOOLEAN, NEW stops \in BOOLEAN,
           NEW cancel \in Nat, Signal(pauses, stops, cancel)
    PROVE  EndsAsked'
<1> DEFINE k == task[worker.task]
           m == Signalled(k, pauses, stops, cancel)
<1>1. /\ worker.task \in TaskId /\ task \in [TaskId -> Task] /\ k \in Task
  BY WorkerFields, BoundAssumption DEF TypeOK, TaskId
<1>2. m.pc = k.pc /\ (m.stop <=> k.stop \/ stops)
  BY <1>1, SignalledFields
<1>3. m.ok = k.ok
  BY <1>1 DEF Signalled, Task
<1>4. ToldToEnd(m)
  BY <1>1, <1>2, <1>3 DEF EndsAsked, ToldToEnd
<1>5. \A t \in TaskId : task'[t] = IF t = worker.task THEN m ELSE task[t]
  BY <1>1 DEF Signal
<1> HIDE DEF k, m
<1> QED BY <1>4, <1>5 DEF EndsAsked, ToldToEnd

(* What a task does by itself.                                             *)
LEMMA TaskEndsAsked ==
    ASSUME TypeOK, EndsAsked, NEW t \in TaskId, TaskNext(t)
    PROVE  EndsAsked'
<1> DEFINE k == task[t]
           m == task'[t]
<1>0. /\ k \in Task /\ task \in [TaskId -> Task] /\ ToldToEnd(k)
  BY DEF TypeOK, EndsAsked
<1>s. ASSUME NEW next, TaskStep(t, next) PROVE m = next
  BY <1>0, <1>s DEF TaskStep
<1>1. ToldToEnd(m)
  <2>1. CASE TaskStops(t)
    <3>1. m = [k EXCEPT !.pc = "shutting", !.current = NoRequest] /\ k.stop
      BY <1>s, <2>1 DEF TaskStops
    <3> QED BY <1>0, <3>1 DEF Task, ToldToEnd
  <2>2. CASE TaskPauses(t)
    <3>1. m = [k EXCEPT !.pc = "pausing", !.paused = FALSE]
      BY <1>s, <2>2 DEF TaskPauses
    <3> QED BY <1>0, <3>1 DEF Task, ToldToEnd
  <2>3. CASE TaskReleases(t)
    <3>1. m = [k EXCEPT !.pc = "select", !.subscribed = FALSE]
      BY <1>s, <2>3 DEF TaskReleases
    <3> QED BY <1>0, <3>1 DEF Task, ToldToEnd
  <2>4. CASE TaskReleaseFails(t)
    <3>1. m = [k EXCEPT !.pc = "done", !.ok = FALSE, !.command = NoRequest,
                        !.subscribed = FALSE, !.news = TRUE]
      BY <1>s, <2>4 DEF TaskReleaseFails
    <3> QED BY <1>0, <3>1 DEF Task, ToldToEnd
  <2>5. CASE TaskStarts(t)
    <3> DEFINE to == IF k.fired = k.command.id THEN "sending" ELSE "running"
    <3>1. m = [k EXCEPT !.pc = to, !.current = k.command, !.command = NoRequest, !.ok = FALSE]
      BY <1>s, <2>5 DEF TaskStarts
    <3>2. to \in {"sending", "running"}
      OBVIOUS
    <3> HIDE DEF to
    <3> QED BY <1>0, <3>1, <3>2 DEF Task, ToldToEnd
  <2>6. CASE TaskSucceeds(t)
    <3>1. m = [k EXCEPT !.pc = "sending", !.ok = TRUE, !.news = TRUE,
                        !.subscribed = k.subscribed \/ k.current.follow]
      BY <1>s, <2>6 DEF TaskSucceeds
    <3> QED BY <1>0, <3>1 DEF Task, ToldToEnd
  <2>7. CASE TaskFails(t)
    <3>1. PICK keeps \in BOOLEAN :
             m = [k EXCEPT !.pc = "sending", !.ok = FALSE, !.news = TRUE,
                           !.subscribed = k.subscribed /\ keeps]
      BY <1>s, <2>7 DEF TaskFails
    <3> QED BY <1>0, <3>1 DEF Task, ToldToEnd
  <2>8. CASE TaskReplies(t)
    <3>1. m = [k EXCEPT !.pc = "select", !.current = NoRequest, !.ok = FALSE,
                        !.reply = [id |-> k.current.id, ok |-> k.ok]]
      BY <1>s, <2>8 DEF TaskReplies
    <3> QED BY <1>0, <3>1 DEF Task, ToldToEnd
  <2>9. CASE TaskEnds(t)
    <3>1. PICK ok \in BOOLEAN :
             m = [k EXCEPT !.pc = "done", !.ok = ok, !.news = TRUE,
                           !.command = NoRequest, !.subscribed = FALSE]
      BY <1>s, <2>9 DEF TaskEnds
    <3>2. k.stop
      BY <1>0, <2>9 DEF TaskEnds, ToldToEnd
    <3> QED BY <1>0, <3>1, <3>2 DEF Task, ToldToEnd
  <2> QED BY <2>1, <2>2, <2>3, <2>4, <2>5, <2>6, <2>7, <2>8, <2>9 DEF TaskNext
<1>2. \A u \in TaskId : u # t => task'[u] = task[u]
  BY TaskStepsAlone
<1> HIDE DEF k, m
<1> QED BY <1>1, <1>2 DEF EndsAsked, ToldToEnd, k, m

LEMMA EndsAskedStep == ASSUME InOrder, EndsAsked, [Next]_vars PROVE EndsAsked'
<1>0. /\ TypeOK /\ worker \in Worker /\ task \in [TaskId -> Task] /\ JoinsOwn
      /\ worker.cancel \in Nat
      /\ worker.task # 0 => worker.task \in TaskId
  BY WorkerFields, BoundAssumption DEF InOrder, Asked, Owned, TypeOK, TaskId
<1>1. ASSUME NEW t \in TaskId, NEW m, task' = [task EXCEPT ![t] = m], ToldToEnd(m)
      PROVE  EndsAsked'
  BY <1>0, <1>1 DEF EndsAsked, ToldToEnd
<1>2. CASE task' = task
  BY <1>2 DEF EndsAsked, ToldToEnd
<1>3. CASE Retire
  <2>1. CASE worker.task = 0
    BY <1>2, <1>3, <2>1 DEF Retire, RetireBy
  <2>2. CASE worker.task # 0
    <3> DEFINE fires == worker.cancel # 0 /\ (Pauses \/ Stops \/ Stale)
               cancel == IF fires THEN worker.cancel ELSE 0
    <3>1. Signal(Pauses, Stops, cancel) /\ cancel \in Nat
      BY <1>0, <1>3, <2>2 DEF Retire, RetireBy
    <3>2. Pauses \in BOOLEAN /\ Stops \in BOOLEAN
      BY <1>0 DEF Pauses, Stops
    <3> HIDE DEF cancel
    <3> QED BY <1>0, <2>2, <3>1, <3>2, SignalEnds
  <2> QED BY <2>1, <2>2
<1>4. CASE StopWorker
  <2>1. CASE worker.task = 0
    BY <1>2, <1>4, <2>1 DEF StopWorker
  <2>2. CASE worker.task # 0
    <3>1. Signal(FALSE, TRUE, worker.cancel)
      BY <1>4, <2>2 DEF StopWorker
    <3> QED BY <1>0, <2>2, <3>1, SignalEnds
  <2> QED BY <2>1, <2>2
<1>5. CASE ConfigureSpawns
  <2> DEFINE m == [Unborn EXCEPT !.pc = "select", !.alias = app.request.alias,
                                 !.session = app.session]
  <2>1. task' = [task EXCEPT ![spawned'] = m] /\ m.pc = "select"
    BY <1>5 DEF ConfigureSpawns, Unborn
  <2>2. ToldToEnd(m)
    BY <2>1 DEF ToldToEnd
  <2> HIDE DEF m
  <2> QED BY <1>0, <2>1, <2>2 DEF EndsAsked, ToldToEnd
<1>6. CASE Submit
  <2> DEFINE k == task[worker.task]
             m == [k EXCEPT !.command = app.request]
  <2>1. worker.task \in TaskId /\ task' = [task EXCEPT ![worker.task] = m]
    BY <1>0, <1>6 DEF Submit, CanSubmit
  <2>2. k \in Task /\ ToldToEnd(k)
    BY <1>0, <2>1 DEF EndsAsked
  <2>3. ToldToEnd(m)
    BY <2>2 DEF Task, ToldToEnd
  <2> HIDE DEF m
  <2> QED BY <1>1, <2>1, <2>3
<1>7. CASE WorkerReplies \/ WorkerStatus
  <2> DEFINE k == task[worker.task]
  <2>1. worker.task \in TaskId /\ k \in Task /\ ToldToEnd(k)
    BY <1>0, <1>7 DEF WorkerReplies, Deliver, WorkerStatus, Listening, EndsAsked
  <2>2. \/ task' = [task EXCEPT ![worker.task] = [k EXCEPT !.reply = NoReply]]
        \/ task' = [task EXCEPT ![worker.task] = [k EXCEPT !.news = FALSE]]
    BY <1>7 DEF WorkerReplies, Deliver, WorkerStatus
  <2>3. ToldToEnd([k EXCEPT !.reply = NoReply]) /\ ToldToEnd([k EXCEPT !.news = FALSE])
    BY <2>1 DEF Task, ToldToEnd
  <2> HIDE DEF k
  <2> QED BY <1>1, <2>1, <2>2, <2>3
<1>8. CASE ClosingTimesOut \/ JoinTimesOut
  <2> DEFINE k == task[worker.task]
             m == [k EXCEPT !.pc = "done", !.ok = FALSE, !.command = NoRequest,
                            !.current = NoRequest, !.subscribed = FALSE]
  <2>1. worker.task \in TaskId /\ k \in Task
    BY <1>0, <1>8 DEF ClosingTimesOut, JoinTimesOut, Listening, JoinsOwn
  <2>2. task' = [task EXCEPT ![worker.task] = m]
    BY <1>8 DEF ClosingTimesOut, JoinTimesOut, Abort
  <2>3. ToldToEnd(m)
    BY <2>1 DEF Task, ToldToEnd
  <2> HIDE DEF m
  <2> QED BY <1>1, <2>1, <2>2, <2>3
<1>9. CASE UserStep \/ FollowTick
  BY <1>2, <1>9
  DEF UserStep, UserOpensConnection, UserLoads, UserStartsFollowing, UserInvalidates,
      UserGoesBack, UserShowsConnections, UserCancels, UserConfirmsQuit, FollowTick, AppStep
<1>10. CASE \/ InputFails \/ ConfigureFails \/ ConfigureNothing \/ SubmitFails
            \/ SubmitNothing \/ WorkerFinished \/ JoinEnds \/ UNCHANGED vars
  BY <1>2, <1>10 DEF InputFails, ConfigureFails, ConfigureNothing, SubmitFails,
                     SubmitNothing, WorkerFinished, JoinEnds, vars
<1>11. ASSUME NEW t \in TaskId, TaskNext(t) PROVE EndsAsked'
  BY <1>0, <1>11, TaskEndsAsked
<1> QED BY <1>3, <1>4, <1>5, <1>6, <1>7, <1>8, <1>9, <1>10, <1>11
        DEF Next, Exited, LoopStep, WorkerEvent, Exit

(* A worker that is submitted to is not busy, and one that has ended well  *)
(* was closing.                                                            *)
LEMMA EndsForCause ==
    ASSUME InOrder, EndsAsked, [Next]_vars, ui # "stopping", ui' = "stopping", ~app'.quit
    PROVE  \/ InputFails
           \/ /\ worker.task # 0
              /\ task'[worker.task].pc = "done" /\ ~task'[worker.task].ok
<1> DEFINE k == task[worker.task]
<1>0. /\ worker \in Worker /\ task \in [TaskId -> Task] /\ SingleFlight
      /\ worker.task # 0 => worker.task \in TaskId
  BY WorkerFields, BoundAssumption DEF InOrder, Asked, Owned, TypeOK, TaskId
<1>1. ASSUME worker.task # 0, k.pc = "done", ~worker.closing PROVE ~k.ok
  BY <1>0, <1>1 DEF EndsAsked, ToldToEnd, InOrder, WorkerInOrder, WorkerKnows
<1>2. CASE SubmitFails
  <2>1. worker.task # 0 /\ ~worker.closing /\ worker.request.id = 0 /\ task' = task
    BY <1>2 DEF SubmitFails, CanSubmit
  <2>2. k.command.id = 0
    BY <2>1 DEF InOrder, Asked, SingleFlight
  <2>3. k.pc = "done"
    BY <1>2, <2>2 DEF SubmitFails, Accepts
  <2> QED BY <1>1, <2>1, <2>3
<1>3. CASE WorkerFinished
  <2>1. worker.task # 0 /\ k.pc = "done" /\ task' = task /\ ~(k.ok /\ worker.closing)
    BY <1>3 DEF WorkerFinished, Listening, Ended
  <2> QED BY <1>1, <2>1
<1>4. CASE ClosingTimesOut
  <2>1. worker.task \in TaskId /\ worker.task # 0 /\ task' = Abort(worker.task)
    BY <1>0, <1>4 DEF ClosingTimesOut, Listening
  <2>2. task'[worker.task].pc = "done" /\ ~task'[worker.task].ok
    BY <1>0, <2>1 DEF Abort, Task
  <2> QED BY <2>1, <2>2
<1>5. ASSUME NEW next, AppStep(next) PROVE FALSE
  BY <1>5 DEF AppStep
<1>6. CASE UserStep \/ FollowTick
  BY <1>5, <1>6
  DEF UserStep, UserOpensConnection, UserLoads, UserStartsFollowing, UserInvalidates,
      UserGoesBack, UserShowsConnections, UserCancels, UserConfirmsQuit, FollowTick
<1>7. CASE \/ Retire \/ ConfigureSpawns \/ ConfigureFails \/ ConfigureNothing \/ Submit
           \/ SubmitNothing \/ WorkerReplies \/ WorkerStatus \/ Exit \/ UNCHANGED vars
  BY <1>7 DEF Retire, RetireBy, ConfigureSpawns, ConfigureFails, ConfigureNothing, Submit,
              SubmitNothing, WorkerReplies, Deliver, WorkerStatus, Exit, StopWorker,
              JoinEnds, JoinTimesOut, vars
<1>8. ASSUME NEW t \in TaskId, TaskNext(t) PROVE FALSE
  <2>1. ui' = ui
    BY <1>8, TaskStepsAlone DEF InOrder, Asked, Owned
  <2> QED BY <2>1
<1> QED BY <1>2, <1>3, <1>4, <1>6, <1>7, <1>8 DEF Next, Exited, LoopStep, WorkerEvent

(* Whatever the user does and whenever tasks end: the program only ends by *)
(* itself because its input did, or because an executor's stop_follow or   *)
(* shutdown failed or timed out (ui::run, Worker::new, sync_worker).       *)
THEOREM LoopEndsForCause == Spec => StopsForCause
<1>1. Init => InOrder /\ EndsAsked
  BY InitOrder DEF Init, EndsAsked, ToldToEnd, Unborn
<1>2. InOrder /\ EndsAsked /\ [Next]_vars => (InOrder /\ EndsAsked)'
  BY StepOrder, EndsAskedStep
<1> QED BY <1>1, <1>2, EndsForCause, PTL DEF Spec, StopsForCause
=============================================================================
