---------------------- MODULE SqliteTelemetryRepository ----------------------
(***************************************************************************)
(* The bounded task queue between the threads that submit batches and      *)
(* queries and the database thread that runs them, its shutdown, and the   *)
(* application controller's account of the batches it submitted.           *)
(*                                                                         *)
(* A step is one section under the mutex or one call outside of it, so any *)
(* two threads interleave between them.  A signal emitted on the GUI       *)
(* thread reaches the controller at once; one emitted on another thread is *)
(* queued to the GUI's event loop.                                         *)
(***************************************************************************)
EXTENDS Integers, Sequences, FiniteSets

CONSTANTS
  Threads,        (* the threads that submit                               *)
  Gui,            (* the one the controller lives on                       *)
  QueueCapacity,  (* options.queueCapacity                                 *)
  Kinds,          (* what is submitted: batches, queries                   *)
  MaxRequests,    (* bound: submissions and queries                        *)
  MaxStarts       (* bound: calls of start                                 *)

ASSUME GuiAssumption == Gui \in Threads

ASSUME KindsAssumption == Kinds \subseteq {"batch", "query"}

ASSUME BoundsAssumption ==
  QueueCapacity \in Nat \ {0} /\ MaxRequests \in Nat /\ MaxStarts \in Nat

VARIABLES
  repo,        (* m_running, m_accepting, m_wakeupScheduled, m_tasks and
                  m_nextRequestId, all under m_mutex                       *)
  thread,      (* m_thread: none, running, quitting (told to, still taking
                  what its event loop has), finished but not deleted       *)
  events,      (* calls posted to the worker's event loop                  *)
  worker,      (* where processQueue stands, and the task it holds         *)
  caller,      (* where each thread stands in a call of the repository     *)
  inbox,       (* signals queued to the GUI thread                         *)
  controller,  (* what AppController shows of its persistence              *)
  futures,     (* queries whose future has not finished                    *)
  history      (* serial numbers given out and run, calls made             *)

vars == <<repo, thread, events, worker, caller, inbox, controller, futures, history>>

Ids == 1..(MaxRequests + 1)

(* serial numbers the accepted tasks over all sessions; it is history, the *)
(* code knows only the request id, which restarts at 1 with the session.   *)
Task == [id : Ids, kind : Kinds, serial : 1..MaxRequests]
NoTask == [id |-> 0, kind |-> "none", serial |-> 0]

Alive == {"running", "quitting"}

(* The depth a signal announces is only shown and left out. *)
Signal == [type : {"depth", "completed", "rejected"}, value : 0..(MaxRequests + 1)]

Repository == [running : BOOLEAN, accepting : BOOLEAN, wakeupScheduled : BOOLEAN,
               tasks : Seq(Task), nextRequestId : Ids]

Worker == [at : {"idle", "pop", "announce", "run", "check", "post"},
           task : Task \cup {NoTask}, draining : BOOLEAN]

Call == [at : {"idle", "announce", "wakeup", "post", "drain", "wait"},
         task : Task \cup {NoTask}]

Controller == [pending : SUBSET Ids, accepted : Nat, completed : Nat,
               rejected : Nat]

(* deadPosts counts the calls posted to a worker that no longer exists,    *)
(* lostCompletions are the batches whose task threw.                       *)
History == [pushed : 0..MaxRequests, ran : 0..MaxRequests,
            lostCompletions : SUBSET Ids, requests : 0..MaxRequests,
            starts : 0..MaxStarts, deadPosts : Nat]

Init ==
  /\ repo = [running |-> FALSE, accepting |-> FALSE, wakeupScheduled |-> FALSE,
             tasks |-> <<>>, nextRequestId |-> 1]
  /\ thread = "none"
  /\ events = <<>>
  /\ worker = [at |-> "idle", task |-> NoTask, draining |-> FALSE]
  /\ caller = [t \in Threads |-> [at |-> "idle", task |-> NoTask]]
  /\ inbox = <<>>
  /\ controller = [pending |-> {}, accepted |-> 0, completed |-> 0,
                   rejected |-> 0]
  /\ futures = {}
  /\ history = [pushed |-> 0, ran |-> 0, lostCompletions |-> {},
                requests |-> 0, starts |-> 0, deadPosts |-> 0]

signal(type, value) == [type |-> type, value |-> value]

-----------------------------------------------------------------------------
(* AppController: handleQueueDepthChanged, handle...BatchCompleted and     *)
(* handleRequestRejected                                                   *)
handleSignal(c, s) ==
  CASE s.type = "depth"     -> c
    [] s.type = "completed" -> [c EXCEPT !.pending = @ \ {s.value},
                                         !.completed = @ + 1]
    [] s.type = "rejected"  -> [c EXCEPT !.rejected = @ + 1]

(* Direct on the GUI thread, queued from any other. *)
emit(t, s) ==
  IF t = Gui
  THEN controller' = handleSignal(controller, s) /\ UNCHANGED inbox
  ELSE inbox' = Append(inbox, s) /\ UNCHANGED controller

deliverSignal ==
  /\ caller[Gui].at = "idle"
  /\ inbox # <<>>
  /\ controller' = handleSignal(controller, Head(inbox))
  /\ inbox' = Tail(inbox)
  /\ UNCHANGED <<repo, thread, events, worker, caller, futures, history>>

-----------------------------------------------------------------------------
(* start() and shutdown(), called on the GUI thread *)

(* The database may fail to open; the thread is then gone again. *)
start ==
  /\ caller[Gui].at = "idle"
  /\ thread = "none"
  /\ history.starts < MaxStarts
  /\ history' = [history EXCEPT !.starts = @ + 1]
  /\ \/ /\ repo' = [repo EXCEPT !.running = TRUE, !.accepting = TRUE,
                                !.wakeupScheduled = FALSE]
        /\ thread' = "running"
        /\ emit(Gui, signal("depth", 0))
     \/ /\ repo' = [repo EXCEPT !.running = FALSE, !.accepting = FALSE,
                                !.wakeupScheduled = FALSE]
        /\ UNCHANGED <<thread, controller, inbox>>
  /\ UNCHANGED <<events, worker, caller, futures>>

(* Mutant: tasks are accepted until the thread has ended. *)
shutdown_StillAccepting ==
  /\ caller[Gui].at = "idle"
  /\ thread # "none"
  /\ caller' = [caller EXCEPT ![Gui].at = "drain"]
  /\ UNCHANGED <<repo, thread, events, worker, inbox, controller, futures, history>>

shutdown ==
  /\ caller[Gui].at = "idle"
  /\ thread # "none"
  /\ repo' = [repo EXCEPT !.accepting = FALSE]
  /\ caller' = [caller EXCEPT ![Gui].at = "drain"]
  /\ UNCHANGED <<thread, events, worker, inbox, controller, futures, history>>

(* Mutant: the thread is told to end without the last processQueue. *)
postDrain_QuitOnly ==
  /\ caller[Gui].at = "drain"
  /\ thread' = "quitting"
  /\ caller' = [caller EXCEPT ![Gui].at = "wait"]
  /\ UNCHANGED <<repo, events, worker, inbox, controller, futures, history>>

postDrain ==
  /\ caller[Gui].at = "drain"
  /\ events' = Append(events, "drain")
  /\ caller' = [caller EXCEPT ![Gui].at = "wait"]
  /\ UNCHANGED <<repo, thread, worker, inbox, controller, futures, history>>

(* wait() returns. *)
endShutdown ==
  /\ caller[Gui].at = "wait"
  /\ thread = "finished"
  /\ repo' = [running |-> FALSE, accepting |-> FALSE, wakeupScheduled |-> FALSE,
              tasks |-> <<>>, nextRequestId |-> 1]
  /\ thread' = "none"
  /\ events' = <<>>
  /\ emit(Gui, signal("depth", 0))
  /\ caller' = [caller EXCEPT ![Gui].at = "idle"]
  /\ UNCHANGED <<worker, futures, history>>

-----------------------------------------------------------------------------
(* enqueueTask and scheduleWakeup, called on any thread *)

(* Mutant: off by one at the capacity. *)
mayEnqueue_OneMore ==
  /\ repo.running
  /\ repo.accepting
  /\ Len(repo.tasks) <= QueueCapacity

mayEnqueue ==
  /\ repo.running
  /\ repo.accepting
  /\ Len(repo.tasks) < QueueCapacity

(* A rejected call also uses up a request id; a rejected query's future is *)
(* finished before it is returned.                                         *)
rejectTask(t) ==
  /\ caller[t].at = "idle"
  /\ history.requests < MaxRequests
  /\ ~mayEnqueue
  /\ repo' = [repo EXCEPT !.nextRequestId = @ + 1]
  /\ history' = [history EXCEPT !.requests = @ + 1]
  /\ emit(t, signal("rejected", repo.nextRequestId))
  /\ UNCHANGED <<thread, events, worker, caller, futures>>

enqueueTask(t, kind) ==
  LET task == [id |-> repo.nextRequestId, kind |-> kind, serial |-> history.pushed + 1]
      tasks == Append(repo.tasks, task)
  IN  /\ caller[t].at = "idle"
      /\ history.requests < MaxRequests
      /\ mayEnqueue
      /\ repo' = [repo EXCEPT !.nextRequestId = @ + 1, !.tasks = tasks]
      /\ caller' = [caller EXCEPT ![t] =
                      [at |-> "announce", task |-> task]]
      /\ futures' = IF kind = "query" THEN futures \cup {task.serial} ELSE futures
      /\ history' = [history EXCEPT !.requests = @ + 1, !.pushed = @ + 1]
      /\ UNCHANGED <<thread, events, worker, inbox, controller>>

announceDepth(t) ==
  /\ caller[t].at = "announce"
  /\ emit(t, signal("depth", 0))
  /\ caller' = [caller EXCEPT ![t].at = "wakeup"]
  /\ UNCHANGED <<repo, thread, events, worker, futures, history>>

(* The call returns; the controller counts the batch it submitted. *)
returned(c) == [caller EXCEPT ![c] = [at |-> "idle", task |-> NoTask]]
counted(t) ==
  IF t = Gui /\ caller[t].task.kind = "batch"
  THEN [controller EXCEPT !.pending = @ \cup {caller[t].task.id}, !.accepted = @ + 1]
  ELSE controller

scheduleWakeup(t) ==
  /\ caller[t].at = "wakeup"
  /\ IF repo.running /\ repo.accepting /\ ~repo.wakeupScheduled
     THEN /\ repo' = [repo EXCEPT !.wakeupScheduled = TRUE]
          /\ caller' = [caller EXCEPT ![t].at = "post"]
          /\ UNCHANGED controller
     ELSE /\ caller' = returned(t)
          /\ controller' = counted(t)
          /\ UNCHANGED repo
  /\ UNCHANGED <<thread, events, worker, inbox, futures, history>>

(* Outside the lock, so a concurrent shutdown may have ended the worker.   *)
postWakeup(t) ==
  /\ caller[t].at = "post"
  /\ IF thread \in Alive
     THEN events' = Append(events, "process") /\ UNCHANGED history
     ELSE history' = [history EXCEPT !.deadPosts = @ + 1] /\ UNCHANGED events
  /\ caller' = returned(t)
  /\ controller' = counted(t)
  /\ UNCHANGED <<repo, thread, worker, inbox, futures>>

-----------------------------------------------------------------------------
(* processQueue, on the database thread *)

(* Mutant: the flag is never cleared. *)
beginProcessing_KeepsFlag ==
  /\ thread \in Alive
  /\ worker.at = "idle"
  /\ events # <<>>
  /\ events' = Tail(events)
  /\ worker' = [worker EXCEPT !.at = "pop", !.draining = Head(events) = "drain"]
  /\ UNCHANGED <<repo, thread, caller, inbox, controller, futures, history>>

beginProcessing ==
  /\ thread \in Alive
  /\ worker.at = "idle"
  /\ events # <<>>
  /\ events' = Tail(events)
  /\ repo' = [repo EXCEPT !.wakeupScheduled = FALSE]
  /\ worker' = [worker EXCEPT !.at = "pop", !.draining = Head(events) = "drain"]
  /\ UNCHANGED <<thread, caller, inbox, controller, futures, history>>

popTask ==
  /\ worker.at = "pop"
  /\ repo.tasks # <<>>
  /\ repo' = [repo EXCEPT !.tasks = Tail(@)]
  /\ worker' = [worker EXCEPT !.at = "announce", !.task = Head(repo.tasks)]
  /\ UNCHANGED <<thread, events, caller, inbox, controller, futures, history>>

announcePop ==
  /\ worker.at = "announce"
  /\ inbox' = Append(inbox, signal("depth", 0))
  /\ worker' = [worker EXCEPT !.at = "run"]
  /\ UNCHANGED <<repo, thread, events, caller, controller, futures, history>>

(* A batch reports its completion, whether or not its rows were written; a *)
(* query's future finishes.  A task that throws is only logged: a batch is *)
(* then never reported, a future finishes as cancelled.                    *)
Ends == {"done", "failed", "threw"}

afterTask(end) ==
  /\ history' = [history EXCEPT
       !.ran = worker.task.serial,
       !.lostCompletions = IF worker.task.kind = "batch" /\ end = "threw"
                           THEN @ \cup {worker.task.id} ELSE @]
  /\ futures' = futures \ {worker.task.serial}
  /\ worker' = [worker EXCEPT !.at = "pop", !.task = NoTask]
  /\ UNCHANGED <<repo, thread, events, caller>>

(* Mutant: the controller is called on the database thread. *)
endTask_Direct(end) ==
  /\ worker.at = "run"
  /\ afterTask(end)
  /\ controller' = IF worker.task.kind = "batch" /\ end # "threw"
                   THEN handleSignal(controller, signal("completed", worker.task.id))
                   ELSE controller
  /\ UNCHANGED inbox

(* Mutant: a batch that failed is reported as an error only. *)
endTask_OnlyWhenDone(end) ==
  /\ worker.at = "run"
  /\ afterTask(end)
  /\ inbox' = IF worker.task.kind = "batch" /\ end = "done"
              THEN Append(inbox, signal("completed", worker.task.id)) ELSE inbox
  /\ UNCHANGED controller

endTask(end) ==
  /\ worker.at = "run"
  /\ afterTask(end)
  /\ inbox' = IF worker.task.kind = "batch" /\ end # "threw"
              THEN Append(inbox, signal("completed", worker.task.id)) ELSE inbox
  /\ UNCHANGED controller

runTask == \E end \in Ends : endTask(end)

loopEnds ==
  /\ worker.at = "pop"
  /\ repo.tasks = <<>>
  /\ worker' = [worker EXCEPT !.at = "check"]
  /\ UNCHANGED <<repo, thread, events, caller, inbox, controller, futures, history>>

(* Mutant: nothing tells the event loop to end. *)
processed_NoQuit ==
  /\ worker' = [worker EXCEPT !.at = "idle", !.draining = FALSE]
  /\ UNCHANGED thread

(* shutdown's last processQueue is followed by quit(): the event loop ends *)
(* once it has taken what was posted to it by then.                        *)
processed ==
  /\ worker' = [worker EXCEPT !.at = "idle", !.draining = FALSE]
  /\ thread' = IF worker.draining THEN "quitting" ELSE thread

(* Something may have been pushed since the queue was found empty. *)
recheck ==
  /\ worker.at = "check"
  /\ IF repo.tasks # <<>> /\ ~repo.wakeupScheduled
     THEN /\ repo' = [repo EXCEPT !.wakeupScheduled = TRUE]
          /\ worker' = [worker EXCEPT !.at = "post"]
          /\ UNCHANGED thread
     ELSE processed /\ UNCHANGED repo
  /\ UNCHANGED <<events, caller, inbox, controller, futures, history>>

postAgain ==
  /\ worker.at = "post"
  /\ events' = Append(events, "process")
  /\ processed
  /\ UNCHANGED <<repo, caller, inbox, controller, futures, history>>

(* The finished thread closes the database and deletes the worker. *)
threadEnds ==
  /\ thread = "quitting"
  /\ worker.at = "idle"
  /\ thread' = "finished"
  /\ UNCHANGED <<repo, events, worker, caller, inbox, controller, futures, history>>

-----------------------------------------------------------------------------
InCall(t) == announceDepth(t) \/ scheduleWakeup(t) \/ postWakeup(t)

Stopping == postDrain \/ endShutdown

Processing ==
  \/ beginProcessing \/ popTask \/ announcePop \/ runTask
  \/ loopEnds \/ recheck \/ postAgain \/ threadEnds

Next ==
  \/ start
  \/ shutdown
  \/ Stopping
  \/ \E t \in Threads, kind \in Kinds : enqueueTask(t, kind)
  \/ \E t \in Threads : rejectTask(t) \/ InCall(t)
  \/ Processing
  \/ deliverSignal

Spec == Init /\ [][Next]_vars

(* A thread inside a call goes on, the database thread takes what was      *)
(* posted to it, and the GUI thread, when it is in no call, its signals.   *)
Fairness ==
  /\ \A t \in Threads : WF_vars(InCall(t))
  /\ WF_vars(Stopping)
  /\ WF_vars(Processing)
  /\ WF_vars(deliverSignal)

FairSpec == Spec /\ Fairness

-----------------------------------------------------------------------------
(* Properties *)

(* Every variable has its type, and the queue never exceeds its capacity.  *)
TypeOK ==
  /\ repo \in Repository
  /\ Len(repo.tasks) <= QueueCapacity
  /\ thread \in Alive \cup {"none", "finished"}
  /\ events \in Seq({"process", "drain"})
  /\ worker \in Worker
  /\ caller \in [Threads -> Call]
  /\ inbox \in Seq(Signal)
  /\ controller \in Controller
  /\ futures \subseteq 1..MaxRequests
  /\ history \in History

(* Accepted tasks run once each and in the order they were accepted in,    *)
(* over shutdowns and restarts: what the worker holds and the queue are    *)
(* exactly the accepted tasks that have not run, without a gap.  A task    *)
(* accepted behind the last processQueue would be dropped by m_tasks.clear.*)
Held == IF worker.at \in {"announce", "run"} THEN 1 ELSE 0

NothingLost ==
  /\ Held = 1 => worker.task.serial = history.ran + 1
  /\ history.ran + Held + Len(repo.tasks) = history.pushed
  /\ \A i \in DOMAIN repo.tasks : repo.tasks[i].serial = history.ran + Held + i

(* A queued task is never left with the database thread asleep: it is in   *)
(* processQueue, a call of it is posted, or a thread that will post one,   *)
(* or shutdown, is on its way.  The flag is set and cleared under the lock *)
(* but the call is posted outside of it.                                   *)
WakeupOnTheWay ==
  repo.tasks # <<>> =>
    \/ worker.at # "idle"
    \/ events # <<>>
    \/ \E t \in Threads : caller[t].at \in {"announce", "wakeup", "post", "drain"}

(* Whatever was accepted is run, and the future of a query finishes, also  *)
(* when the repository is shut down right after.                           *)
AcceptedRuns ==
  \A n \in 1..MaxRequests :
    history.pushed >= n ~> (history.ran >= n /\ n \notin futures)

(* shutdown() waits for the database thread, which always ends.            *)
ShutdownReturns == caller[Gui].at \in {"drain", "wait"} ~> caller[Gui].at = "idle"

(* The batches the controller waits for are, between two of its calls,     *)
(* exactly those queued, being written or reported but not delivered, and  *)
(* those whose task threw; and its counters agree: it never drops a        *)
(* completion that overtakes the return of the submission.                 *)
InFlight ==
  {repo.tasks[i].id : i \in {j \in DOMAIN repo.tasks : repo.tasks[j].kind = "batch"}}
  \cup (IF worker.task.kind = "batch" THEN {worker.task.id} ELSE {})
  \cup {inbox[i].value : i \in {j \in DOMAIN inbox : inbox[j].type = "completed"}}

BatchesAccounted ==
  caller[Gui].at = "idle" =>
    /\ controller.pending = InFlight \cup history.lostCompletions
    /\ controller.accepted = controller.completed + Cardinality(controller.pending)
    /\ controller.rejected = history.requests - history.pushed

(* No batch stays pending for good, except one whose task threw.           *)
PendingSettles == <>[](controller.pending \subseteq history.lostCompletions)
=============================================================================
