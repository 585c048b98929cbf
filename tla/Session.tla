------------------------------- MODULE Session -------------------------------
(***************************************************************************)
(* The request lifecycle of onetui: the application state that asks for    *)
(* pages (crates/tui/src/app.rs and app/follow.rs), the terminal loop that *)
(* hands requests to a worker (crates/tui/src/ui.rs), and the worker task  *)
(* that owns the provider's executor (crates/tui/src/worker.rs).           *)
(*                                                                         *)
(* Three processes interleave: the user and the timer, which only act      *)
(* while the loop waits in its select; the loop, whose sync_worker is      *)
(* three steps here because tasks run on other threads meanwhile; and the  *)
(* spawned tasks, at most one of which should ever be alive.               *)
(*                                                                         *)
(* Pages, resources, tokens and messages are abstracted to whether a       *)
(* request produced a page or an error. Paging.tla and Follow.tla model    *)
(* what a page does to the view.                                           *)
(***************************************************************************)
EXTENDS Naturals

CONSTANTS
    Alias,          \* configured connections
    NoAlias,        \* view.alias = None: the connection list
    MaxTask,        \* bound: tasks a behaviour may spawn
    MaxSession,     \* bound: sessions the user may open or leave
    MaxGeneration   \* bound: request generations the user may use

ASSUME AliasAssumption == NoAlias \notin Alias
(* Every opened session spawns at most one task, so MaxTask never blocks.  *)
ASSUME BoundAssumption ==
    /\ MaxTask \in Nat
    /\ MaxSession \in Nat
    /\ MaxGeneration \in Nat
    /\ MaxSession <= MaxTask

VARIABLES
    app,        \* the App record
    worker,     \* the Option<Worker> of the loop
    task,       \* the spawned tasks, with their channels and executors
    spawned,    \* how many tasks were spawned so far
    ui,         \* where the loop is
    answered    \* history: the last request whose result reached the view

vars == <<app, worker, task, spawned, ui, answered>>

-----------------------------------------------------------------------------
(* Data *)

TaskId == 1 .. MaxTask

(* Requests are numbered by the generation that asked for them, from 1.    *)
Request == [id : Nat, alias : Alias \cup {NoAlias}, follow : BOOLEAN]
NoRequest == [id |-> 0, alias |-> NoAlias, follow |-> FALSE]

Reply == [id : Nat, ok : BOOLEAN]
NoReply == [id |-> 0, ok |-> FALSE]

(* "loaded" is the session whose executor produced the latest page shown;  *)
(* "status" is the session the shown connection status came from, 0 for    *)
(* none; "failed" is a request's error standing in the footer.             *)
App == [generation : Nat, session : Nat, alias : Alias \cup {NoAlias},
        request : Request, loading : BOOLEAN, following : BOOLEAN,
        due : BOOLEAN, opening : BOOLEAN, failed : BOOLEAN,
        loaded : Nat, status : Nat, quit : BOOLEAN]

(* "cancel" is the request whose cancel sender is held, 0 for none.        *)
Worker == [task : 0 .. MaxTask, alias : Alias \cup {NoAlias}, session : Nat,
           request : Request, cancel : Nat, follow : BOOLEAN,
           closing : BOOLEAN]
NoWorker == [task |-> 0, alias |-> NoAlias, session |-> 0,
             request |-> NoRequest, cancel |-> 0, follow |-> FALSE,
             closing |-> FALSE]

TaskState == {"unborn", "select", "pausing", "running", "sending",
              "shutting", "done"}

(* command, paused, stop and reply are the task's channels; "fired" is the *)
(* request whose cancel sender was used; "subscribed" is a live            *)
(* subscription held by the executor; "news" is an unseen status change;   *)
(* "ok" is the Result the finished task returns.                           *)
Task == [pc : TaskState, alias : Alias \cup {NoAlias}, session : Nat,
         command : Request, current : Request, fired : Nat,
         paused : BOOLEAN, stop : BOOLEAN, reply : Reply,
         subscribed : BOOLEAN, news : BOOLEAN, ok : BOOLEAN]
Unborn == [pc |-> "unborn", alias |-> NoAlias, session |-> 0,
           command |-> NoRequest, current |-> NoRequest, fired |-> 0,
           paused |-> FALSE, stop |-> FALSE, reply |-> NoReply,
           subscribed |-> FALSE, news |-> FALSE, ok |-> FALSE]

UiState == {"retire", "configure", "submit", "wait", "stopping", "joining",
            "exited"}

-----------------------------------------------------------------------------
(* The methods of App: each takes the state and returns the next one. *)

(* Mutant of Invalidate: the generation runs backwards.                    *)
InvalidateBackwards(a) ==
    [a EXCEPT !.generation = @ - 1, !.request = NoRequest, !.loading = FALSE]

Invalidate(a) ==
    [a EXCEPT !.generation = @ + 1, !.following = FALSE, !.due = FALSE,
              !.request = NoRequest, !.loading = FALSE, !.failed = FALSE,
              !.opening = FALSE]

Connections(a) ==
    [Invalidate(a) EXCEPT !.session = @ + 1, !.alias = NoAlias, !.status = 0]

(* "load" takes the alias from the view, which Open has already replaced.  *)
Load(a, alias) ==
    [Invalidate(a) EXCEPT
        !.alias = alias, !.loading = TRUE,
        !.request = [id |-> a.generation + 1, alias |-> alias,
                     follow |-> FALSE]]

QueueFollow(a) ==
    [a EXCEPT !.generation = @ + 1, !.loading = TRUE, !.due = FALSE,
              !.request = [id |-> a.generation + 1, alias |-> a.alias,
                           follow |-> TRUE]]

(* Opening a connection marks the attempt only after load's invalidate.    *)
OpenConnection(a, alias) ==
    [Load(a, alias) EXCEPT !.session = @ + 1, !.status = a.session + 1,
                           !.opening = TRUE]

StartFollow(a) == QueueFollow([Invalidate(a) EXCEPT !.following = TRUE])

(* Leaving the last resource of a connection ends its session.             *)
GoBack(a, toList) ==
    IF toList
    THEN [Invalidate(a) EXCEPT !.alias = NoAlias, !.session = @ + 1,
                               !.status = 0]
    ELSE Invalidate(a)

(* A successful batch arms the timer; a failed one, one that is too large  *)
(* or one whose columns changed stops following.                           *)
CompleteFollow(a, ok, from) ==
    IF ok
    THEN [a EXCEPT !.loading = FALSE, !.due = TRUE, !.failed = FALSE,
                   !.loaded = from]
    ELSE [a EXCEPT !.loading = FALSE, !.following = FALSE, !.due = FALSE,
                   !.failed = TRUE]

(* "ok" is a page the view accepts: an oversized page is an error. A first *)
(* page that fails returns to the list; any other failure stays in the     *)
(* footer.                                                                 *)
CompletePage(a, ok, from) ==
    IF ok
    THEN [a EXCEPT !.loading = FALSE, !.opening = FALSE, !.failed = FALSE,
                   !.loaded = from]
    ELSE IF a.opening
         THEN Connections(a)
         ELSE [a EXCEPT !.loading = FALSE, !.failed = TRUE]

(* Mutant of Complete: the result of a superseded request is applied.      *)
CompleteUnchecked(a, request, ok, from) ==
    IF request.follow THEN CompleteFollow(a, ok, from)
                      ELSE CompletePage(a, ok, from)

(* Results of superseded requests are dropped.                             *)
Complete(a, request, ok, from) ==
    IF request.id # a.generation
    THEN a
    ELSE IF request.follow
         THEN CompleteFollow(a, ok, from)
         ELSE CompletePage(a, ok, from)

UpdateStatus(a, session, alias) ==
    IF session = a.session /\ a.alias = alias
    THEN [a EXCEPT !.status = session]
    ELSE a

(* Most actions first stop following, and only then do their own work.     *)
StopFollowing(a) == IF a.following THEN Invalidate(a) ELSE a

Browsing(a) == a.alias # NoAlias

-----------------------------------------------------------------------------
(* The user and the follow timer: the branches of the loop's select that   *)
(* change App. Every one ends the iteration, and the loop re-checks quit.  *)

AppStep(next) ==
    /\ ui = "wait"
    /\ app' = next
    /\ ui' = IF next.quit THEN "stopping" ELSE "retire"
    /\ UNCHANGED <<worker, task, spawned, answered>>

Room == app.generation < MaxGeneration

UserOpensConnection ==
    /\ Room
    /\ ~Browsing(app)
    /\ app.session < MaxSession
    /\ \E alias \in Alias : AppStep(OpenConnection(app, alias))

(* Enter on a resource, the next page, an uncached previous page, a query, *)
(* or Refresh, which is offered even while a request is loading.           *)
UserLoads ==
    /\ Room
    /\ Browsing(app)
    /\ AppStep(Load(StopFollowing(app), app.alias))

UserStartsFollowing ==
    /\ Room
    /\ Browsing(app)
    /\ ~app.loading
    /\ ~app.following
    /\ AppStep(StartFollow(app))

(* Anything that stops following, a cached previous page, or closing the   *)
(* query editor, even while its query loads: nothing new is asked for.     *)
UserInvalidates ==
    /\ Room
    /\ Browsing(app)
    /\ AppStep(Invalidate(app))

UserGoesBack ==
    /\ Room
    /\ Browsing(app)
    /\ app.session < MaxSession
    /\ \E toList \in BOOLEAN : AppStep(GoBack(StopFollowing(app), toList))

UserShowsConnections ==
    /\ Room
    /\ app.session < MaxSession
    /\ AppStep(Connections(StopFollowing(app)))

(* Ctrl-C cancels what is loading, stops following, or quits.              *)
UserCancels ==
    /\ AppStep(IF app.following \/ app.loading
               THEN Invalidate(app)
               ELSE [app EXCEPT !.quit = TRUE])

UserConfirmsQuit == AppStep([Invalidate(app) EXCEPT !.quit = TRUE])

FollowTick ==
    /\ Room
    /\ app.due
    /\ AppStep(IF app.following /\ ~app.loading THEN QueueFollow(app) ELSE app)

(* The terminal's event stream ends or fails.                              *)
InputFails ==
    /\ ui = "wait"
    /\ ui' = "stopping"
    /\ UNCHANGED <<app, worker, task, spawned, answered>>

UserStep ==
    \/ UserOpensConnection
    \/ UserLoads
    \/ UserStartsFollowing
    \/ UserInvalidates
    \/ UserGoesBack
    \/ UserShowsConnections
    \/ UserCancels
    \/ UserConfirmsQuit

-----------------------------------------------------------------------------
(* sync_worker: retire the worker's obsolete work, configure an executor,  *)
(* submit the pending request.                                             *)

(* What a task sees of the pause, stop and cancel channels; "cancel" is the *)
(* request whose sender is used, 0 for none.                               *)
Signalled(k, pauses, stops, cancel) ==
    [k EXCEPT !.paused = @ \/ pauses,
              !.stop   = @ \/ stops,
              !.fired  = IF cancel # 0 THEN cancel ELSE @]

Signal(pauses, stops, cancel) ==
    task' = [task EXCEPT ![worker.task] =
                Signalled(task[worker.task], pauses, stops, cancel)]

(* What Retire does, in terms of what it decides; the mutants below it are *)
(* the decisions a plausible mistake would make.                           *)
RetireBy(pauses, stops, stale) ==
    LET fires == worker.cancel # 0 /\ (pauses \/ stops \/ stale) IN
    /\ ui = "retire"
    /\ ui' = "configure"
    /\ IF worker.task = 0
       THEN UNCHANGED <<worker, task>>
       ELSE /\ worker' = [worker EXCEPT
                              !.follow  = @ /\ ~pauses,
                              !.closing = @ \/ stops,
                              !.cancel  = IF fires THEN 0 ELSE @]
            /\ Signal(pauses, stops, IF fires THEN worker.cancel ELSE 0)
    /\ UNCHANGED <<app, spawned, answered>>

Pauses == ~app.following /\ worker.follow
Stops == app.alias # worker.alias \/ app.session # worker.session
Stale == worker.request.id \notin {0, app.generation}

(* Mutants of Retire: every busy request is cancelled; the subscription of *)
(* a stopped follow is kept.                                               *)
RetireCancels == RetireBy(Pauses, Stops, worker.request.id # 0)
RetireNeverPauses == RetireBy(FALSE, Stops, Stale)

(* Stops following, then stops a worker of another session or connection,  *)
(* or else cancels a superseded request. Every use of the cancel sender    *)
(* fires the token it belongs to.                                          *)
Retire == RetireBy(Pauses, Stops, Stale)

(* Mutant: a closing worker is replaced before it has ended.               *)
ReplacesClosing ==
    /\ ui = "configure"
    /\ worker.task = 0 \/ worker.closing
    /\ app.request.id # 0

NeedsExecutor == ui = "configure" /\ worker.task = 0 /\ app.request.id # 0

(* The executor is configured for the alias of the request; the task it is *)
(* moved into starts listening.                                            *)
ConfigureSpawns ==
    /\ NeedsExecutor
    /\ spawned < MaxTask
    /\ spawned' = spawned + 1
    /\ task' = [task EXCEPT ![spawned'] =
                   [Unborn EXCEPT !.pc = "select",
                                  !.alias = app.request.alias,
                                  !.session = app.session]]
    /\ worker' = [NoWorker EXCEPT !.task = spawned',
                                  !.alias = app.request.alias,
                                  !.session = app.session]
    /\ ui' = "submit"
    /\ UNCHANGED <<app, answered>>

(* A missing secret or an invalid option completes the request at once.    *)
ConfigureFails ==
    /\ NeedsExecutor
    /\ app' = Complete([app EXCEPT !.request = NoRequest], app.request, FALSE, 0)
    /\ answered' = app.request.id
    /\ ui' = "submit"
    /\ UNCHANGED <<worker, task, spawned>>

ConfigureNothing ==
    /\ ui = "configure"
    /\ ~NeedsExecutor
    /\ ui' = "submit"
    /\ UNCHANGED <<app, worker, task, spawned, answered>>

(* Mutant: the worker's request may still be running.                      *)
SubmitsToBusy ==
    /\ ui = "submit"
    /\ worker.task # 0
    /\ ~worker.closing
    /\ app.request.id # 0

CanSubmit ==
    /\ ui = "submit"
    /\ worker.task # 0
    /\ ~worker.closing
    /\ worker.request.id = 0
    /\ app.request.id # 0

(* The channel holds one command, and closes with the task.                *)
Accepts(t) == task[t].pc # "done" /\ task[t].command.id = 0

Submit ==
    /\ CanSubmit
    /\ Accepts(worker.task)
    /\ task' = [task EXCEPT ![worker.task].command = app.request]
    /\ worker' = [worker EXCEPT !.request = app.request,
                                !.cancel = app.request.id,
                                !.follow = @ \/ app.request.follow]
    /\ app' = [app EXCEPT !.request = NoRequest]
    /\ ui' = "wait"
    /\ UNCHANGED <<spawned, answered>>

(* "browsing worker is unavailable" leaves the loop.                       *)
SubmitFails ==
    /\ CanSubmit
    /\ ~Accepts(worker.task)
    /\ app' = [app EXCEPT !.request = NoRequest]
    /\ ui' = "stopping"
    /\ UNCHANGED <<worker, task, spawned, answered>>

SubmitNothing ==
    /\ ui = "submit"
    /\ ~CanSubmit
    /\ ui' = "wait"
    /\ UNCHANGED <<app, worker, task, spawned, answered>>

LoopStep ==
    \/ Retire
    \/ ConfigureSpawns
    \/ ConfigureFails
    \/ ConfigureNothing
    \/ Submit
    \/ SubmitFails
    \/ SubmitNothing

-----------------------------------------------------------------------------
(* Worker.event, a biased select: the end of the task first, then the      *)
(* closing deadline, then a result, then a status change.                  *)

Listening == ui = "wait" /\ worker.task # 0
Ended == task[worker.task].pc = "done"

(* Mutant: the finished worker stays in place.                             *)
FinishedWorkerStays ==
    /\ Listening
    /\ Ended
    /\ ui' = IF task[worker.task].ok /\ worker.closing
             THEN "retire" ELSE "stopping"
    /\ UNCHANGED <<app, worker, task, spawned, answered>>

(* An error, or an end nobody asked for, leaves the loop.                  *)
WorkerFinished ==
    /\ Listening
    /\ Ended
    /\ worker' = NoWorker
    /\ ui' = IF task[worker.task].ok /\ worker.closing
             THEN "retire" ELSE "stopping"
    /\ UNCHANGED <<app, task, spawned, answered>>

Abort(t) == [task EXCEPT ![t] =
                [@ EXCEPT !.pc = "done", !.ok = FALSE, !.command = NoRequest,
                          !.current = NoRequest, !.subscribed = FALSE]]

ClosingTimesOut ==
    /\ Listening
    /\ ~Ended
    /\ worker.closing
    /\ task' = Abort(worker.task)
    /\ worker' = NoWorker
    /\ ui' = "stopping"
    /\ UNCHANGED <<app, spawned, answered>>

(* What a reply does to the loop, given what it does to App. *)
Deliver(next, applied) ==
    LET reply == task[worker.task].reply IN
    /\ Listening
    /\ ~Ended
    /\ reply.id # 0
    /\ worker' = [worker EXCEPT !.request = NoRequest, !.cancel = 0]
    /\ task' = [task EXCEPT ![worker.task].reply = NoReply]
    /\ app' = next
    /\ answered' = IF applied THEN reply.id ELSE answered
    /\ ui' = "retire"
    /\ UNCHANGED spawned

(* Mutants: any result is shown; the worker never becomes free again.      *)
RepliesUnchecked ==
    LET k == task[worker.task] IN
    Deliver(CompletePage(app, k.reply.ok, k.session), TRUE)

ReplyKeepsRequest ==
    LET k == task[worker.task] IN
    /\ Listening
    /\ ~Ended
    /\ k.reply.id # 0
    /\ task' = [task EXCEPT ![worker.task].reply = NoReply]
    /\ app' = Complete(app, worker.request, k.reply.ok, k.session)
    /\ ui' = "retire"
    /\ UNCHANGED <<worker, spawned, answered>>

(* The reply is attributed to the request the worker remembers; it reaches *)
(* the view only in the session it was asked in.                           *)
WorkerReplies ==
    LET k == task[worker.task]
        ours == worker.session = app.session
    IN  Deliver(IF ours
                THEN Complete(app, worker.request, k.reply.ok, k.session)
                ELSE app,
                ours /\ worker.request.id = app.generation)

WorkerStatus ==
    /\ Listening
    /\ ~Ended
    /\ task[worker.task].reply.id = 0
    /\ task[worker.task].news
    /\ task' = [task EXCEPT ![worker.task].news = FALSE]
    /\ app' = UpdateStatus(app, worker.session, worker.alias)
    /\ ui' = "retire"
    /\ UNCHANGED <<worker, spawned, answered>>

WorkerEvent ==
    \/ WorkerFinished
    \/ ClosingTimesOut
    \/ WorkerReplies
    \/ WorkerStatus

-----------------------------------------------------------------------------
(* stop_worker, after the loop. *)

StopWorker ==
    /\ ui = "stopping"
    /\ IF worker.task = 0
       THEN /\ ui' = "exited"
            /\ UNCHANGED <<worker, task>>
       ELSE /\ ui' = "joining"
            /\ worker' = [worker EXCEPT !.closing = TRUE, !.cancel = 0]
            /\ Signal(FALSE, TRUE, worker.cancel)
    /\ UNCHANGED <<app, spawned, answered>>

JoinEnds ==
    /\ ui = "joining"
    /\ Ended
    /\ ui' = "exited"
    /\ UNCHANGED <<app, worker, task, spawned, answered>>

JoinTimesOut ==
    /\ ui = "joining"
    /\ ~Ended
    /\ task' = Abort(worker.task)
    /\ ui' = "exited"
    /\ UNCHANGED <<app, worker, spawned, answered>>

Exit == StopWorker \/ JoinEnds \/ JoinTimesOut

-----------------------------------------------------------------------------
(* The task: a loop over a biased select (stop, pause, command), which ends *)
(* by shutting its executor down within a second.                          *)

TaskStep(t, next) ==
    /\ task' = [task EXCEPT ![t] = next]
    /\ UNCHANGED <<app, worker, spawned, ui, answered>>

TaskStops(t) ==
    /\ task[t].pc \in {"select", "sending"}
    /\ task[t].stop
    /\ TaskStep(t, [task[t] EXCEPT !.pc = "shutting", !.current = NoRequest])

TaskPauses(t) ==
    /\ task[t].pc = "select"
    /\ ~task[t].stop
    /\ task[t].paused
    /\ TaskStep(t, [task[t] EXCEPT !.pc = "pausing", !.paused = FALSE])

(* stop_follow releases the live subscription; its failure or its one      *)
(* second timeout ends the task without a shutdown.                        *)
TaskReleases(t) ==
    /\ task[t].pc = "pausing"
    /\ TaskStep(t, [task[t] EXCEPT !.pc = "select", !.subscribed = FALSE])

TaskReleaseFails(t) ==
    /\ task[t].pc = "pausing"
    /\ TaskStep(t, [task[t] EXCEPT !.pc = "done", !.ok = FALSE,
                                   !.command = NoRequest,
                                   !.subscribed = FALSE, !.news = TRUE])

(* A request cancelled before it starts fails at its first wait, without   *)
(* touching the session.                                                   *)
TaskStarts(t) ==
    LET request == task[t].command
        cancelled == task[t].fired = request.id
    IN
    /\ task[t].pc = "select"
    /\ ~task[t].stop
    /\ ~task[t].paused
    /\ request.id # 0
    /\ TaskStep(t, [task[t] EXCEPT
                       !.pc = IF cancelled THEN "sending" ELSE "running",
                       !.current = request, !.command = NoRequest,
                       !.ok = FALSE])

(* A page, or a follow batch that leaves the subscription open.            *)
TaskSucceeds(t) ==
    /\ task[t].pc = "running"
    /\ TaskStep(t, [task[t] EXCEPT
                       !.pc = "sending", !.ok = TRUE, !.news = TRUE,
                       !.subscribed = @ \/ task[t].current.follow])

(* Cancelled, timed out or failed: the session may keep its subscription   *)
(* or drop it with the connection.                                         *)
TaskFails(t) ==
    /\ task[t].pc = "running"
    /\ \E keeps \in BOOLEAN :
          TaskStep(t, [task[t] EXCEPT
                         !.pc = "sending", !.ok = FALSE, !.news = TRUE,
                         !.subscribed = @ /\ keeps])

TaskReplies(t) ==
    /\ task[t].pc = "sending"
    /\ ~task[t].stop
    /\ task[t].reply.id = 0
    /\ TaskStep(t, [task[t] EXCEPT
                       !.pc = "select", !.current = NoRequest, !.ok = FALSE,
                       !.reply = [id |-> task[t].current.id,
                                  ok |-> task[t].ok]])

(* shutdown succeeds, fails, or is cut off after a second; the executor is *)
(* dropped in every case.                                                  *)
TaskEnds(t) ==
    /\ task[t].pc = "shutting"
    /\ \E ok \in BOOLEAN :
          TaskStep(t, [task[t] EXCEPT
                         !.pc = "done", !.ok = ok, !.news = TRUE,
                         !.command = NoRequest, !.subscribed = FALSE])

TaskNext(t) ==
    \/ TaskStops(t)
    \/ TaskPauses(t)
    \/ TaskReleases(t)
    \/ TaskReleaseFails(t)
    \/ TaskStarts(t)
    \/ TaskSucceeds(t)
    \/ TaskFails(t)
    \/ TaskReplies(t)
    \/ TaskEnds(t)

-----------------------------------------------------------------------------
(* App::new shows the connections, and may open the one named on the       *)
(* command line.                                                           *)
Blank == [generation |-> 0, session |-> 0, alias |-> NoAlias,
          request |-> NoRequest, loading |-> FALSE, following |-> FALSE,
          due |-> FALSE, opening |-> FALSE, failed |-> FALSE,
          loaded |-> 0, status |-> 0, quit |-> FALSE]

Init ==
    /\ LET listed == Connections(Blank)
       IN  app \in {listed} \cup {OpenConnection(listed, a) : a \in Alias}
    /\ worker = NoWorker
    /\ task = [t \in TaskId |-> Unborn]
    /\ spawned = 0
    /\ ui = "retire"
    /\ answered = 0

Exited == ui = "exited" /\ UNCHANGED vars

Next ==
    \/ UserStep
    \/ FollowTick
    \/ InputFails
    \/ LoopStep
    \/ WorkerEvent
    \/ Exit
    \/ \E t \in TaskId : TaskNext(t)
    \/ Exited

Spec == Init /\ [][Next]_vars

(* The loop and the tasks are scheduled by tokio. The loop's select picks a *)
(* ready branch at random, so a worker event that stays possible is taken  *)
(* in the end even though every key press ends the wait: strong fairness.  *)
(* A request in an executor ends because RequestContext::run ends it at    *)
(* its deadline; stop_follow and shutdown are cut off after a second.      *)
Fairness ==
    /\ WF_vars(LoopStep)
    /\ SF_vars(WorkerEvent)
    /\ WF_vars(Exit)
    /\ \A t \in TaskId : WF_vars(TaskNext(t))

FairSpec == Spec /\ Fairness

-----------------------------------------------------------------------------
(* Safety *)

TypeOK ==
    /\ app \in App
    /\ worker \in Worker
    /\ task \in [TaskId -> Task]
    /\ spawned \in 0 .. MaxTask
    /\ ui \in UiState
    /\ answered \in Nat

Live(t) == task[t].pc \notin {"unborn", "done"}
InLoop == ui \notin {"stopping", "joining", "exited"}

(* The old connection's task and client are released before the next one   *)
(* opens: a task that still runs is always the loop's own worker.          *)
OneExecutor == \A t \in TaskId : Live(t) => worker.task = t

(* A request only ever reaches the executor of the connection it was asked *)
(* on, and the request the view still waits for runs in the view's own     *)
(* session, never in the session of an earlier visit to the connection.    *)
OwnExecutor ==
    \A t \in TaskId : \A r \in {task[t].command, task[t].current} :
        r.id # 0 => /\ r.alias = task[t].alias
                    /\ r.id = app.generation => task[t].session = app.session

(* A delayed cancellation or stop never hits the request the view waits    *)
(* for: whatever the loop cancelled was superseded.                        *)
CurrentNotCancelled ==
    InLoop /\ app.loading /\ worker.request.id = app.generation
        => /\ task[worker.task].fired # app.generation
           /\ ~task[worker.task].stop

(* The request the loop waits for is in one place at a time: the channel,  *)
(* the executor or the reply. So a reply is always that request's own, and *)
(* no older reply can be taken for it.                                     *)
SingleFlight ==
    worker.task # 0 =>
        LET k == task[worker.task] IN
        /\ k.command.id # 0 => /\ k.command.id = worker.request.id
                               /\ k.current.id = 0
                               /\ k.reply.id = 0
        /\ k.current.id # 0 => /\ k.current.id = worker.request.id
                               /\ k.reply.id = 0
        /\ k.reply.id # 0 => k.reply.id = worker.request.id

(* While the view shows a request as loading, the request exists: queued   *)
(* in App, or with the worker in the channel, the executor or the reply.   *)
LoadingHasOwner ==
    InLoop /\ app.loading =>
        \/ app.request.id = app.generation
        \/ LET k == task[worker.task] IN
            /\ worker.request.id = app.generation
            /\ ~worker.closing
            /\ k.pc # "done" =>
                 app.generation \in {k.command.id, k.current.id, k.reply.id}

(* stop_follow has released the live subscription before the executor      *)
(* starts any other kind of read.                                          *)
NoReadWithSubscription ==
    \A t \in TaskId :
        task[t].pc = "running" /\ ~task[t].current.follow => ~task[t].subscribed

(* The follow timer is armed only when a tick can use it. Otherwise the    *)
(* loop would wake on it again and again: a due timer stays due.           *)
TimerOnlyWhenIdle == app.due => app.following /\ ~app.loading

(* The status shown is the current session's, or none on the list: the     *)
(* closing of an old connection never shows on the next one.               *)
StatusBelongsToSession ==
    /\ app.status # 0 => app.status = app.session
    /\ app.status # 0 <=> Browsing(app)

(* What the loop keeps of its requests, wherever the user is by now: they  *)
(* stay with their own executor, are neither lost nor cancelled by         *)
(* mistake, never overlap a live subscription, leave no timer armed in     *)
(* vain, and a status is that of the session on show.                      *)
RequestsInOrder ==
    /\ OwnExecutor /\ CurrentNotCancelled /\ LoadingHasOwner
    /\ NoReadWithSubscription /\ TimerOnlyWhenIdle /\ StatusBelongsToSession

(* A page reaches the view only from an executor of the view's session.    *)
PagesFromOwnSession ==
    [][app'.loaded # app.loaded => app'.loaded = app.session]_vars

(* Unless the user quits, the loop only ends because the terminal's input  *)
(* does, or because the executor's stop_follow or shutdown failed or took  *)
(* too long: never because a worker that ended when it was told to had     *)
(* "stopped unexpectedly", or one that still runs was "unavailable".       *)
StopsForCause ==
    [][ui # "stopping" /\ ui' = "stopping" /\ ~app'.quit =>
          \/ InputFails
          \/ /\ worker.task # 0
             /\ task'[worker.task].pc = "done" /\ ~task'[worker.task].ok]_vars

(* What the foreground promises, see Foreground.tla.                       *)
Promise == INSTANCE Foreground WITH
    latest <- app.generation,
    awaiting <- IF app.loading THEN app.generation ELSE 0

ImplementsForeground == Promise!Spec

(* "The connection never produced a page: return to the list and explain   *)
(* there, rather than leaving an empty view with the reason in the footer" *)
(* (the comment in complete_page).                                         *)
OpeningFailureExplained ==
    app.failed /\ Browsing(app) => app.loaded = app.session

-----------------------------------------------------------------------------
(* Liveness *)

(* A request ends, is superseded, or the program ends.                     *)
RequestEnds ==
    \A g \in 1 .. MaxGeneration + 2 :
        app.loading /\ app.generation = g
            ~> ~app.loading \/ app.generation # g \/ ui = "exited"

(* Once following stops, the executor's live subscription is released,     *)
(* also when no further request is ever made.                              *)
SubscriptionReleased ==
    (\E t \in TaskId : task[t].subscribed) /\ ~app.following
        ~> app.following \/ \A t \in TaskId : ~task[t].subscribed

(* A worker that was told to stop is gone in the end, so the connection    *)
(* waiting behind it can open.                                             *)
ClosingWorkerEnds == worker.closing ~> worker.task = 0 \/ ui = "exited"

=============================================================================
