---------------------- MODULE TelemetryRepositoryProofs ----------------------
(***************************************************************************)
(* Proofs about SqliteTelemetryRepository, for any number of submitting    *)
(* threads and any capacity: no accepted task is lost or overtaken, and no *)
(* queued task is left with the database thread asleep.                    *)
(***************************************************************************)
EXTENDS SqliteTelemetryRepository, FiniteSetTheorems, TLAPS

Has(s, x) == \E i \in DOMAIN s : s[i] = x

(* Types, and bounds on what has been counted so far. *)
Typed ==
  /\ TypeOK
  /\ repo.nextRequestId <= history.requests + 1
  /\ history.pushed <= history.requests

(* How a session ends: from the moment shutdown() stops accepting, its last *)
(* processQueue is on the way to the thread, is queued or runs, and the     *)
(* thread quits only with an empty queue.                                   *)
Session ==
  /\ \A t \in Threads : caller[t].at \in {"drain", "wait"} => t = Gui
  /\ repo.accepting => repo.running /\ thread = "running"
                       /\ caller[Gui].at \notin {"drain", "wait"}
  /\ caller[Gui].at \in {"drain", "wait"} => thread # "none"
  /\ caller[Gui].at = "drain" => thread = "running"
  /\ thread = "none" => repo.tasks = <<>>
  /\ thread \in {"quitting", "finished"} => caller[Gui].at = "wait" /\ repo.tasks = <<>>
  /\ thread \in {"none", "finished"} => worker.at = "idle"
  /\ Has(events, "drain") => caller[Gui].at = "wait"
  /\ worker.draining => caller[Gui].at = "wait" /\ worker.at \notin {"idle", "post"}
  /\ (worker.draining /\ worker.at = "check") => repo.tasks = <<>>
  /\ (repo.tasks # <<>> /\ ~repo.accepting)
       => caller[Gui].at = "drain" \/ Has(events, "drain") \/ worker.draining

(* While tasks are accepted, a set flag means that a call is posted or is  *)
(* about to be.                                                            *)
FlagHonest ==
  (repo.accepting /\ repo.wakeupScheduled)
    => \/ events # <<>>
       \/ worker.at = "post"
       \/ \E t \in Threads : caller[t].at = "post"

Awake ==
  (repo.accepting /\ repo.tasks # <<>>)
    => \/ worker.at # "idle"
       \/ events # <<>>
       \/ \E t \in Threads : caller[t].at \in {"announce", "wakeup", "post"}

IInv == Typed /\ NothingLost /\ Session /\ FlagHonest /\ Awake

-----------------------------------------------------------------------------
(* Sequences *)

LEMMA AppendFacts ==
  ASSUME NEW S, NEW s \in Seq(S), NEW y \in S
  PROVE  /\ Append(s, y) \in Seq(S) /\ Append(s, y) # <<>>
         /\ Len(Append(s, y)) = Len(s) + 1
         /\ DOMAIN Append(s, y) = 1..(Len(s) + 1)
         /\ \A i \in 1..Len(s) : Append(s, y)[i] = s[i]
         /\ Append(s, y)[Len(s) + 1] = y
         /\ DOMAIN s = 1..Len(s) /\ Len(s) \in Nat
  OBVIOUS

LEMMA TailFacts ==
  ASSUME NEW S, NEW s \in Seq(S), s # <<>>
  PROVE  /\ Tail(s) \in Seq(S) /\ Head(s) \in S
         /\ Len(s) \in Nat \ {0} /\ Len(Tail(s)) = Len(s) - 1
         /\ DOMAIN s = 1..Len(s) /\ DOMAIN Tail(s) = 1..(Len(s) - 1)
         /\ Head(s) = s[1]
         /\ \A i \in 1..(Len(s) - 1) : Tail(s)[i] = s[i + 1]
  OBVIOUS

LEMMA HasAppend ==
  ASSUME NEW S, NEW s \in Seq(S), NEW y \in S, NEW x
  PROVE  Has(Append(s, y), x) <=> Has(s, x) \/ y = x
  <1>1. /\ DOMAIN s = 1..Len(s)
        /\ DOMAIN Append(s, y) = 1..(Len(s) + 1)
        /\ \A i \in 1..Len(s) : Append(s, y)[i] = s[i]
        /\ Append(s, y)[Len(s) + 1] = y
        /\ Len(s) \in Nat
    BY AppendFacts
  <1>2. ASSUME Has(Append(s, y), x) PROVE Has(s, x) \/ y = x
    BY <1>1, <1>2 DEF Has
  <1>3. ASSUME Has(s, x) \/ y = x PROVE Has(Append(s, y), x)
    <2>1. CASE y = x
      <3>1. Len(s) + 1 \in DOMAIN Append(s, y)
        BY <1>1
      <3> QED BY <2>1, <3>1, <1>1 DEF Has
    <2>2. CASE Has(s, x)
      <3>1. PICK i \in DOMAIN s : s[i] = x
        BY <2>2 DEF Has
      <3>2. i \in DOMAIN Append(s, y) /\ Append(s, y)[i] = x
        BY <3>1, <1>1
      <3> QED BY <3>2 DEF Has
    <2> QED BY <1>3, <2>1, <2>2
  <1> QED BY <1>2, <1>3

LEMMA HasTail ==
  ASSUME NEW S, NEW s \in Seq(S), s # <<>>, NEW x
  PROVE  Has(s, x) <=> Head(s) = x \/ Has(Tail(s), x)
  <1>1. /\ DOMAIN s = 1..Len(s)
        /\ Len(s) \in Nat \ {0}
        /\ Head(s) = s[1]
        /\ DOMAIN Tail(s) = 1..(Len(s) - 1)
        /\ \A i \in 1..(Len(s) - 1) : Tail(s)[i] = s[i + 1]
    BY TailFacts
  <1>2. ASSUME Has(s, x) PROVE Head(s) = x \/ Has(Tail(s), x)
    <2>1. PICK i \in DOMAIN s : s[i] = x
      BY <1>2 DEF Has
    <2>2. CASE i = 1
      BY <2>1, <2>2, <1>1
    <2>3. CASE i # 1
      <3>1. i - 1 \in DOMAIN Tail(s) /\ Tail(s)[i - 1] = x
        BY <2>1, <2>3, <1>1
      <3> QED BY <3>1 DEF Has
    <2> QED BY <2>2, <2>3
  <1>3. ASSUME Head(s) = x \/ Has(Tail(s), x) PROVE Has(s, x)
    <2>1. CASE Head(s) = x
      <3>1. 1 \in DOMAIN s /\ s[1] = x
        BY <2>1, <1>1
      <3> QED BY <3>1 DEF Has
    <2>2. CASE Has(Tail(s), x)
      <3>1. PICK i \in DOMAIN Tail(s) : Tail(s)[i] = x
        BY <2>2 DEF Has
      <3>2. i + 1 \in DOMAIN s /\ s[i + 1] = x
        BY <3>1, <1>1
      <3> QED BY <3>2 DEF Has
    <2> QED BY <1>3, <2>1, <2>2
  <1> QED BY <1>2, <1>3

LEMMA HasNone == ASSUME NEW x PROVE ~Has(<<>>, x)
  BY DEF Has

-----------------------------------------------------------------------------
(* Signals *)

LEMMA SignalTyped ==
  ASSUME NEW type \in {"depth", "completed", "rejected"},
         NEW value \in 0..(MaxRequests + 1)
  PROVE  signal(type, value) \in Signal
  BY DEF signal, Signal

LEMMA HandledTyped ==
  ASSUME TypeOK, NEW s \in Signal
  PROVE  handleSignal(controller, s) \in Controller
  <1>1. s.type \in {"depth", "completed", "rejected"} /\ s.value \in Nat
    BY BoundsAssumption DEF Signal
  <1>2. controller \in Controller
    BY DEF TypeOK
  <1>3. CASE s.type = "depth"
    BY <1>2, <1>3 DEF handleSignal
  <1>4. CASE s.type = "completed"
    <2>1. handleSignal(controller, s) =
            [controller EXCEPT !.pending = controller.pending \ {s.value},
                               !.completed = controller.completed + 1]
      BY <1>4 DEF handleSignal
    <2>2. /\ controller.pending \ {s.value} \in SUBSET Ids
          /\ controller.completed + 1 \in Nat
      BY <1>2 DEF Controller
    <2> QED BY <2>1, <2>2, <1>2 DEF Controller
  <1>5. CASE s.type = "rejected"
    <2>1. handleSignal(controller, s) = [controller EXCEPT !.rejected = @ + 1]
      BY <1>5 DEF handleSignal
    <2> QED BY <2>1, <1>1, <1>2 DEF Controller
  <1> QED BY <1>1, <1>3, <1>4, <1>5

LEMMA EmitTyped ==
  ASSUME TypeOK, NEW t, NEW s \in Signal, emit(t, s)
  PROVE  /\ controller' \in Controller
         /\ inbox' \in Seq(Signal)
  <1>1. CASE t = Gui
    <2>1. controller' = handleSignal(controller, s) /\ inbox' = inbox
      BY <1>1 DEF emit
    <2>2. inbox' \in Seq(Signal)
      BY <2>1 DEF TypeOK
    <2> QED BY <2>1, <2>2, HandledTyped
  <1>2. CASE t # Gui
    <2>1. controller' = controller /\ inbox' = Append(inbox, s)
      BY <1>2 DEF emit
    <2>2. inbox \in Seq(Signal)
      BY DEF TypeOK
    <2>3. inbox' \in Seq(Signal)
      BY <2>1, <2>2
    <2> QED BY <2>1, <2>3 DEF TypeOK
  <1> QED BY <1>1, <1>2

-----------------------------------------------------------------------------
(* Steps *)

LEMMA InitHolds == Init => IInv
  <1> SUFFICES ASSUME Init PROVE IInv
    OBVIOUS
  <1> USE BoundsAssumption, GuiAssumption
  <1>1. Typed
    <2>1. TypeOK
      BY DEF Init, TypeOK, Ids, Alive, NoTask, Repository, Worker, Call, Controller, History
    <2> QED BY <2>1 DEF Typed, Init
  <1>2. NothingLost
    BY DEF Init, NothingLost, Held
  <1>3. Session
    BY HasNone DEF Init, Session
  <1>4. FlagHonest /\ Awake
    BY DEF Init, FlagHonest, Awake
  <1> QED BY <1>1, <1>2, <1>3, <1>4 DEF IInv

(* What a thread in a call changes of the callers. *)
LEMMA CallerMoves ==
  ASSUME TypeOK, NEW t \in Threads,
         NEW a \in {"idle", "announce", "wakeup", "post", "drain", "wait"},
         caller' = [caller EXCEPT ![t].at = a]
  PROVE  /\ caller' \in [Threads -> Call]
         /\ caller'[t].at = a
         /\ \A u \in Threads : u # t => caller'[u] = caller[u]
  BY DEF TypeOK, Call

LEMMA CallerReturns ==
  ASSUME NEW t \in Threads, TypeOK, caller' = returned(t)
  PROVE  /\ caller' \in [Threads -> Call]
         /\ caller'[t].at = "idle"
         /\ \A u \in Threads : u # t => caller'[u] = caller[u]
  <1>1. [at |-> "idle", task |-> NoTask] \in Call
    BY DEF Call
  <1> QED BY <1>1 DEF returned, TypeOK

LEMMA CountedTyped ==
  ASSUME TypeOK, NEW t \in Threads
  PROVE  counted(t) \in Controller
  <1>1. CASE t = Gui /\ caller[t].task.kind = "batch"
    <2>1. caller[t].task \in Task \cup {NoTask} /\ controller \in Controller
      BY DEF TypeOK, Call
    <2>2. caller[t].task.id \in Ids
      BY <1>1, <2>1 DEF Task, NoTask
    <2>3. counted(t) = [controller EXCEPT
            !.pending = controller.pending \cup {caller[t].task.id},
            !.accepted = controller.accepted + 1]
      BY <1>1 DEF counted
    <2>4. /\ controller.pending \cup {caller[t].task.id} \in SUBSET Ids
          /\ controller.accepted + 1 \in Nat
      BY <2>1, <2>2 DEF Controller
    <2> QED BY <2>1, <2>3, <2>4 DEF Controller
  <1>2. CASE ~(t = Gui /\ caller[t].task.kind = "batch")
    BY <1>2 DEF counted, TypeOK
  <1> QED BY <1>1, <1>2

LEMMA deliverSignal_Step ==
  ASSUME IInv, deliverSignal
  PROVE  IInv'
  <1> USE BoundsAssumption, GuiAssumption
  <1>1. Typed'
    <2>1. Head(inbox) \in Signal /\ Tail(inbox) \in Seq(Signal)
      BY DEF IInv, Typed, TypeOK, deliverSignal
    <2>2. TypeOK'
      BY <2>1, HandledTyped DEF IInv, Typed, TypeOK, deliverSignal
    <2> QED BY <2>2 DEF IInv, Typed, deliverSignal
  <1>2. NothingLost'
    BY DEF IInv, NothingLost, Held, deliverSignal
  <1>3. Session'
    BY DEF IInv, Session, deliverSignal
  <1>4. FlagHonest'
    BY DEF IInv, FlagHonest, deliverSignal
  <1>5. Awake'
    BY DEF IInv, Awake, deliverSignal
  <1> QED BY <1>1, <1>2, <1>3, <1>4, <1>5 DEF IInv

LEMMA start_Step ==
  ASSUME IInv, start
  PROVE  IInv'
  <1> USE BoundsAssumption, GuiAssumption
  <1>h. /\ history' \in History /\ history'.pushed = history.pushed
        /\ history'.ran = history.ran /\ history'.requests = history.requests
    <2>1. history' = [history EXCEPT !.starts = history.starts + 1]
          /\ history.starts < MaxStarts
      BY DEF start
    <2>2. history \in History
      BY DEF IInv, Typed, TypeOK
    <2> QED BY <2>1, <2>2 DEF History
  <1>r. /\ repo' \in Repository /\ repo'.tasks = repo.tasks
        /\ repo'.nextRequestId = repo.nextRequestId /\ ~repo'.wakeupScheduled
        /\ \/ thread' = "running" /\ repo'.running
           \/ thread' = "none" /\ ~repo'.accepting
    BY DEF IInv, Typed, TypeOK, Repository, start
  <1>e. /\ thread = "none" /\ caller[Gui].at = "idle"
        /\ UNCHANGED <<events, worker, caller, futures>>
    BY DEF start
  <1>c. controller' \in Controller /\ inbox' \in Seq(Signal)
    <2>1. signal("depth", 0) \in Signal
      BY SignalTyped
    <2> QED BY <2>1, EmitTyped DEF IInv, Typed, TypeOK, start
  <1>1. Typed'
    <2>1. TypeOK'
      BY <1>e, <1>h, <1>r, <1>c DEF IInv, Typed, TypeOK, Alive
    <2> QED BY <2>1, <1>e, <1>h, <1>r DEF IInv, Typed
  <1>2. NothingLost'
    BY <1>e, <1>h, <1>r, <1>c DEF IInv, NothingLost, Held
  <1>3. Session'
    BY <1>e, <1>h, <1>r, <1>c DEF IInv, Session
  <1>4. FlagHonest'
    BY <1>e, <1>h, <1>r DEF FlagHonest
  <1>5. Awake'
    BY <1>e, <1>h, <1>r DEF IInv, Session, Awake
  <1> QED BY <1>1, <1>2, <1>3, <1>4, <1>5 DEF IInv

LEMMA shutdown_Step ==
  ASSUME IInv, shutdown
  PROVE  IInv'
  <1> USE BoundsAssumption, GuiAssumption
  <1>e. /\ thread # "none" /\ caller[Gui].at = "idle"
        /\ repo' \in Repository /\ repo'.tasks = repo.tasks
        /\ repo'.nextRequestId = repo.nextRequestId /\ ~repo'.accepting
        /\ UNCHANGED <<thread, events, worker, inbox, controller, futures, history>>
    BY DEF IInv, Typed, TypeOK, Repository, shutdown
  <1>c. /\ caller' \in [Threads -> Call] /\ caller'[Gui].at = "drain"
        /\ \A t \in Threads : t # Gui => caller'[t] = caller[t]
    BY CallerMoves DEF IInv, Typed, TypeOK, shutdown
  <1>1. Typed'
    BY <1>e, <1>c DEF IInv, Typed, TypeOK
  <1>2. NothingLost'
    BY <1>e, <1>c DEF IInv, NothingLost, Held
  <1>3. Session'
    <2>1. thread = "running"
      BY <1>e DEF IInv, Session, Typed, TypeOK, Alive
    <2> QED BY <2>1, <1>e, <1>c DEF IInv, Session
  <1>4. FlagHonest'
    BY <1>e DEF FlagHonest
  <1>5. Awake'
    BY <1>e DEF Awake
  <1> QED BY <1>1, <1>2, <1>3, <1>4, <1>5 DEF IInv

LEMMA postDrain_Step ==
  ASSUME IInv, postDrain
  PROVE  IInv'
  <1> USE BoundsAssumption, GuiAssumption
  <1>e. /\ caller[Gui].at = "drain" /\ events' = Append(events, "drain")
        /\ events' \in Seq({"process", "drain"})
        /\ UNCHANGED <<repo, thread, worker, inbox, controller, futures, history>>
    BY DEF IInv, Typed, TypeOK, postDrain
  <1>c. /\ caller' \in [Threads -> Call] /\ caller'[Gui].at = "wait"
        /\ \A t \in Threads : t # Gui => caller'[t] = caller[t]
    BY CallerMoves DEF IInv, Typed, TypeOK, postDrain
  <1>d. Has(events', "drain") /\ ~repo.accepting
    <2>1. events \in Seq({"process", "drain"})
      BY DEF IInv, Typed, TypeOK
    <2> QED BY <2>1, <1>e, HasAppend DEF IInv, Session
  <1>1. Typed'
    BY <1>e, <1>c, <1>d DEF IInv, Typed, TypeOK
  <1>2. NothingLost'
    BY <1>e, <1>c, <1>d DEF IInv, NothingLost, Held
  <1>3. Session'
    BY <1>e, <1>c, <1>d DEF IInv, Session
  <1>4. FlagHonest'
    BY <1>e, <1>d DEF FlagHonest
  <1>5. Awake'
    BY <1>e, <1>d DEF Awake
  <1> QED BY <1>1, <1>2, <1>3, <1>4, <1>5 DEF IInv

LEMMA endShutdown_Step ==
  ASSUME IInv, endShutdown
  PROVE  IInv'
  <1> USE BoundsAssumption, GuiAssumption
  <1>e. /\ caller[Gui].at = "wait" /\ thread = "finished" /\ thread' = "none"
        /\ repo' \in Repository /\ repo'.tasks = <<>> /\ ~repo'.accepting
        /\ repo'.nextRequestId = 1 /\ events' = <<>>
        /\ UNCHANGED <<worker, futures, history>>
    BY DEF endShutdown, Repository, Ids
  <1>c. /\ caller' \in [Threads -> Call] /\ caller'[Gui].at = "idle"
        /\ \A t \in Threads : t # Gui => caller'[t] = caller[t]
    BY CallerMoves DEF IInv, Typed, TypeOK, endShutdown
  <1>s. controller' \in Controller /\ inbox' \in Seq(Signal)
    <2>1. signal("depth", 0) \in Signal
      BY SignalTyped
    <2> QED BY <2>1, EmitTyped DEF IInv, Typed, TypeOK, endShutdown
  <1>d. repo.tasks = <<>> /\ worker.at = "idle"
    BY <1>e DEF IInv, Session
  <1>1. Typed'
    <2>1. history.requests \in Nat
      BY DEF IInv, Typed, TypeOK, History
    <2>2. TypeOK'
      BY <1>e, <1>c, <1>s DEF IInv, Typed, TypeOK
    <2> QED BY <2>1, <2>2, <1>e, <1>c DEF IInv, Typed
  <1>2. NothingLost'
    BY <1>e, <1>c, <1>d DEF IInv, NothingLost, Held
  <1>3. Session'
    BY <1>e, <1>c, <1>d, HasNone DEF IInv, Session
  <1>4. FlagHonest'
    BY <1>e DEF FlagHonest
  <1>5. Awake'
    BY <1>e DEF Awake
  <1> QED BY <1>1, <1>2, <1>3, <1>4, <1>5 DEF IInv

LEMMA rejectTask_Step ==
  ASSUME IInv, NEW t \in Threads, rejectTask(t)
  PROVE  IInv'
  <1> USE BoundsAssumption, GuiAssumption
  <1>h. /\ history' \in History /\ history'.pushed = history.pushed
        /\ history'.ran = history.ran /\ history'.requests = history.requests + 1
    <2>1. history' = [history EXCEPT !.requests = history.requests + 1]
          /\ history.requests < MaxRequests
      BY DEF rejectTask
    <2>2. history \in History
      BY DEF IInv, Typed, TypeOK
    <2> QED BY <2>1, <2>2 DEF History
  <1>n. repo.nextRequestId \in Ids /\ repo.nextRequestId + 1 \in Ids
        /\ history.requests \in Nat /\ history.requests < MaxRequests
        /\ history.pushed \in Nat /\ repo.nextRequestId \in Nat
        /\ repo.nextRequestId <= history.requests + 1
        /\ history.pushed <= history.requests
    <2>1. repo \in Repository /\ history \in History /\ history.pushed <= history.requests
          /\ repo.nextRequestId <= history.requests + 1
      BY DEF IInv, Typed, TypeOK
    <2>2. history.requests < MaxRequests
      BY DEF rejectTask
    <2> QED BY <2>1, <2>2 DEF Repository, History, Ids
  <1>r. /\ repo' \in Repository /\ repo'.tasks = repo.tasks
        /\ repo'.nextRequestId = repo.nextRequestId + 1
        /\ repo'.accepting = repo.accepting /\ repo'.running = repo.running
        /\ repo'.wakeupScheduled = repo.wakeupScheduled
    <2>1. repo' = [repo EXCEPT !.nextRequestId = repo.nextRequestId + 1]
      BY DEF rejectTask
    <2>2. repo \in Repository
      BY DEF IInv, Typed, TypeOK
    <2> QED BY <2>1, <2>2, <1>n DEF Repository
  <1>e. UNCHANGED <<thread, events, worker, caller, futures>>
    BY DEF rejectTask
  <1>c. controller' \in Controller /\ inbox' \in Seq(Signal)
    <2>1. signal("rejected", repo.nextRequestId) \in Signal
      BY <1>n, SignalTyped DEF Ids
    <2> QED BY <2>1, EmitTyped DEF IInv, Typed, TypeOK, rejectTask
  <1>1. Typed'
    <2>1. TypeOK'
      BY <1>e, <1>h, <1>r, <1>c DEF IInv, Typed, TypeOK
    <2>2. repo'.nextRequestId <= history'.requests + 1
          /\ history'.pushed <= history'.requests
      BY <1>h, <1>r, <1>n
    <2> QED BY <2>1, <2>2, <1>e DEF IInv, Typed
  <1>2. NothingLost'
    BY <1>e, <1>h, <1>r DEF IInv, NothingLost, Held
  <1>3. Session'
    BY <1>e, <1>h, <1>r DEF IInv, Session
  <1>4. FlagHonest'
    BY <1>e, <1>h, <1>r DEF IInv, FlagHonest
  <1>5. Awake'
    BY <1>e, <1>h, <1>r DEF IInv, Awake
  <1> QED BY <1>1, <1>2, <1>3, <1>4, <1>5 DEF IInv

(* One more task pushed is one more task queued. *)
LEMMA OneMoreTask ==
  ASSUME NEW ran \in Nat, NEW held \in Nat, NEW queued \in Nat, NEW pushed \in Nat,
         ran + held + queued = pushed
  PROVE  ran + held + (queued + 1) = pushed + 1
  OBVIOUS

LEMMA enqueueTask_Step ==
  ASSUME IInv, NEW t \in Threads, NEW kind \in Kinds, enqueueTask(t, kind)
  PROVE  IInv'
  <1> USE BoundsAssumption, GuiAssumption
  <1> DEFINE task == [id |-> repo.nextRequestId, kind |-> kind,
                     serial |-> history.pushed + 1]
             tasks == Append(repo.tasks, task)
  <1>n. /\ repo.nextRequestId \in Ids /\ repo.nextRequestId + 1 \in Ids
        /\ history.requests \in Nat /\ history.requests < MaxRequests
        /\ history.pushed \in Nat /\ repo.nextRequestId \in Nat
        /\ repo.nextRequestId <= history.requests + 1
        /\ history.pushed <= history.requests
        /\ history.ran \in Nat /\ repo.tasks \in Seq(Task)
        /\ history.pushed + 1 \in 1..MaxRequests
    <2>1. repo \in Repository /\ history \in History /\ history.pushed <= history.requests
          /\ repo.nextRequestId <= history.requests + 1
      BY DEF IInv, Typed, TypeOK
    <2>2. history.requests < MaxRequests
      BY DEF enqueueTask
    <2> QED BY <2>1, <2>2 DEF Repository, History, Ids
  <1>t. task \in Task
    BY <1>n DEF Task
  <1> HIDE DEF task
  <1>q. /\ tasks \in Seq(Task) /\ Len(tasks) = Len(repo.tasks) + 1
        /\ tasks # <<>> /\ DOMAIN tasks = 1..(Len(repo.tasks) + 1)
        /\ \A i \in 1..Len(repo.tasks) : tasks[i] = repo.tasks[i]
        /\ tasks[Len(repo.tasks) + 1] = task
        /\ DOMAIN repo.tasks = 1..Len(repo.tasks)
        /\ Len(repo.tasks) \in Nat
    BY <1>n, <1>t, AppendFacts
  <1> HIDE DEF tasks
  <1>a. /\ caller[t].at = "idle" /\ mayEnqueue
        /\ repo' = [repo EXCEPT !.nextRequestId = repo.nextRequestId + 1,
                                !.tasks = tasks]
        /\ caller' = [caller EXCEPT ![t] = [at |-> "announce", task |-> task]]
        /\ futures' = IF kind = "query" THEN futures \cup {task.serial} ELSE futures
        /\ history' = [history EXCEPT !.requests = history.requests + 1,
                                      !.pushed = history.pushed + 1]
        /\ UNCHANGED <<thread, events, worker, inbox, controller>>
    BY DEF enqueueTask, task, tasks
  <1>h. /\ history' \in History /\ history'.pushed = history.pushed + 1
        /\ history'.ran = history.ran /\ history'.requests = history.requests + 1
    <2>1. history \in History
      BY DEF IInv, Typed, TypeOK
    <2>2. history.requests + 1 \in 0..MaxRequests /\ history.pushed + 1 \in 0..MaxRequests
      BY <1>n
    <2> QED BY <2>1, <2>2, <1>a DEF History
  <1>r. /\ repo' \in Repository /\ repo'.tasks = tasks
        /\ repo'.nextRequestId = repo.nextRequestId + 1
        /\ repo'.accepting = repo.accepting /\ repo'.running = repo.running
        /\ repo'.wakeupScheduled = repo.wakeupScheduled
    <2>1. repo \in Repository
      BY DEF IInv, Typed, TypeOK
    <2> QED BY <2>1, <1>n, <1>q, <1>a DEF Repository
  <1>m. repo.accepting /\ Len(repo.tasks) < QueueCapacity
    BY <1>a DEF mayEnqueue
  <1>c. /\ caller' \in [Threads -> Call]
        /\ caller'[t].at = "announce"
        /\ \A u \in Threads : u # t => caller'[u] = caller[u]
    <2>1. [at |-> "announce", task |-> task] \in Call
      BY <1>q, <1>t DEF Call
    <2> QED BY <2>1, <1>a DEF IInv, Typed, TypeOK
  <1>1. Typed'
    <2>1. futures' \subseteq 1..MaxRequests
      BY <1>a, <1>t DEF IInv, Typed, TypeOK, Task
    <2>2. TypeOK'
      BY <2>1, <1>a, <1>h, <1>r, <1>c, <1>m, <1>q DEF IInv, Typed, TypeOK
    <2>3. repo'.nextRequestId <= history'.requests + 1
          /\ history'.pushed <= history'.requests
      BY <1>h, <1>r, <1>n
    <2> QED BY <2>2, <2>3, <1>a DEF IInv, Typed
  <1>2. NothingLost'
    <2>1. Held' = Held
      BY <1>a DEF Held
    <2>0. /\ Held \in Nat /\ history.ran \in Nat /\ history.pushed \in Nat
          /\ Len(repo.tasks) \in Nat /\ Len(tasks) = Len(repo.tasks) + 1
      BY <1>n, <1>q DEF Held
    <2>2. history.ran + Held + Len(repo.tasks) = history.pushed
          /\ (Held = 1 => worker.task.serial = history.ran + 1)
      BY DEF IInv, NothingLost
    <2>3. history.ran + Held + (Len(repo.tasks) + 1) = history.pushed + 1
      BY <2>0, <2>2, OneMoreTask
    <2>4. \A i \in DOMAIN tasks : tasks[i].serial = history.ran + Held + i
      <3> SUFFICES ASSUME NEW i \in DOMAIN tasks
                   PROVE  tasks[i].serial = history.ran + Held + i
        OBVIOUS
      <3>1. CASE i \in DOMAIN repo.tasks
        BY <3>1, <1>q DEF IInv, NothingLost
      <3>2. CASE i = Len(repo.tasks) + 1
        <4>1. tasks[i].serial = history.pushed + 1
          BY <3>2, <1>q DEF task
        <4> QED BY <4>1, <2>3, <3>2
      <3> QED BY <3>1, <3>2, <1>q
    <2>5. history.ran + Held + Len(tasks) = history.pushed + 1
      BY <2>0, <2>3
    <2> QED BY <2>1, <2>2, <2>4, <2>5, <1>a, <1>h, <1>r DEF NothingLost
  <1>3. Session'
    <2>1. thread = "running" /\ caller[Gui].at \notin {"drain", "wait"}
      BY <1>m DEF IInv, Session
    <2> QED BY <2>1, <1>a, <1>r, <1>c, <1>m DEF IInv, Session
  <1>4. FlagHonest'
    BY <1>a, <1>h, <1>r, <1>c, <1>m DEF IInv, FlagHonest
  <1>5. Awake'
    BY <1>c DEF Awake
  <1> QED BY <1>1, <1>2, <1>3, <1>4, <1>5 DEF IInv

LEMMA announceDepth_Step ==
  ASSUME IInv, NEW t \in Threads, announceDepth(t)
  PROVE  IInv'
  <1> USE BoundsAssumption, GuiAssumption
  <1>e. /\ caller[t].at = "announce"
        /\ UNCHANGED <<repo, thread, events, worker, futures, history>>
    BY DEF announceDepth
  <1>c. /\ caller' \in [Threads -> Call] /\ caller'[t].at = "wakeup"
        /\ \A u \in Threads : u # t => caller'[u] = caller[u]
    BY CallerMoves DEF IInv, Typed, TypeOK, announceDepth
  <1>s. controller' \in Controller /\ inbox' \in Seq(Signal)
    <2>1. signal("depth", 0) \in Signal
      BY SignalTyped
    <2> QED BY <2>1, EmitTyped DEF IInv, Typed, TypeOK, announceDepth
  <1>1. Typed'
    <2>1. TypeOK'
      BY <1>e, <1>c, <1>s DEF IInv, Typed, TypeOK
    <2> QED BY <2>1, <1>e, <1>c DEF IInv, Typed
  <1>2. NothingLost'
    BY <1>e DEF IInv, NothingLost, Held
  <1>3. Session'
    BY <1>e, <1>c DEF IInv, Session
  <1>4. FlagHonest'
    BY <1>e, <1>c DEF IInv, FlagHonest
  <1>5. Awake'
    BY <1>c DEF Awake
  <1> QED BY <1>1, <1>2, <1>3, <1>4, <1>5 DEF IInv

LEMMA scheduleWakeup_Step ==
  ASSUME IInv, NEW t \in Threads, scheduleWakeup(t)
  PROVE  IInv'
  <1> USE BoundsAssumption, GuiAssumption
  <1>e. /\ caller[t].at = "wakeup"
        /\ UNCHANGED <<thread, events, worker, inbox, futures, history>>
    BY DEF scheduleWakeup
  <1>t. repo \in Repository /\ TypeOK
    BY DEF IInv, Typed, TypeOK
  <1>A. CASE repo.running /\ repo.accepting /\ ~repo.wakeupScheduled
    <2>r. /\ repo' \in Repository /\ repo'.tasks = repo.tasks
          /\ repo'.nextRequestId = repo.nextRequestId
          /\ repo'.accepting = repo.accepting /\ repo'.running = repo.running
      BY <1>A, <1>t DEF scheduleWakeup, Repository
    <2>c. /\ caller' \in [Threads -> Call] /\ caller'[t].at = "post"
          /\ \A u \in Threads : u # t => caller'[u] = caller[u]
      BY <1>A, <1>t, CallerMoves DEF scheduleWakeup
    <2>s. UNCHANGED controller
      BY <1>A DEF scheduleWakeup
    <2>1. Typed'
      <3>1. TypeOK'
        BY <1>e, <2>r, <2>c, <2>s DEF IInv, Typed, TypeOK
      <3> QED BY <3>1, <1>e, <2>r, <2>c DEF IInv, Typed
    <2>2. NothingLost'
      BY <1>e, <2>r DEF IInv, NothingLost, Held
    <2>3. Session'
      BY <1>e, <2>r, <2>c DEF IInv, Session
    <2>4. FlagHonest' /\ Awake'
      BY <2>c DEF FlagHonest, Awake
    <2> QED BY <2>1, <2>2, <2>3, <2>4 DEF IInv
  <1>B. CASE ~(repo.running /\ repo.accepting /\ ~repo.wakeupScheduled)
    <2>r. repo' = repo /\ caller' = returned(t) /\ controller' = counted(t)
      BY <1>B DEF scheduleWakeup
    <2>c. /\ caller' \in [Threads -> Call]
          /\ caller'[t].at = "idle"
          /\ \A u \in Threads : u # t => caller'[u] = caller[u]
      BY <2>r, <1>t, CallerReturns
    <2>s. controller' \in Controller
      BY <2>r, <1>t, CountedTyped
    <2>1. Typed'
      <3>1. TypeOK'
        BY <1>e, <2>r, <2>c, <2>s DEF IInv, Typed, TypeOK
      <3> QED BY <3>1, <1>e, <2>r DEF IInv, Typed
    <2>2. NothingLost'
      BY <1>e, <2>r DEF IInv, NothingLost, Held
    <2>3. Session'
      BY <1>e, <2>r, <2>c DEF IInv, Session
    <2>4. FlagHonest'
      BY <1>e, <2>r, <2>c DEF IInv, FlagHonest
    <2>5. Awake'
      (* The flag was set already, so somebody posts or has posted. *)
      <3> SUFFICES ASSUME repo.accepting, repo.tasks # <<>>
                   PROVE  \/ worker'.at # "idle"
                          \/ events' # <<>>
                          \/ \E u \in Threads : caller'[u].at
                               \in {"announce", "wakeup", "post"}
        BY <2>r DEF Awake
      <3>1. repo.wakeupScheduled
        BY <1>B DEF IInv, Session
      <3>2. \/ events # <<>> \/ worker.at = "post"
            \/ \E u \in Threads : caller[u].at = "post"
        BY <3>1 DEF IInv, FlagHonest
      <3> QED BY <3>2, <1>e, <2>c
    <2> QED BY <2>1, <2>2, <2>3, <2>4, <2>5 DEF IInv
  <1> QED BY <1>A, <1>B

LEMMA postWakeup_Step ==
  ASSUME IInv, NEW t \in Threads, postWakeup(t)
  PROVE  IInv'
  <1> USE BoundsAssumption, GuiAssumption
  <1>e. /\ caller[t].at = "post" /\ caller' = returned(t) /\ controller' = counted(t)
        /\ UNCHANGED <<repo, thread, worker, inbox, futures>>
        /\ \/ thread \in Alive /\ events' = Append(events, "process") /\ history' = history
           \/ /\ thread \notin Alive /\ events' = events
              /\ history' = [history EXCEPT !.deadPosts = @ + 1]
    BY DEF postWakeup
  <1>t. /\ TypeOK /\ events \in Seq({"process", "drain"}) /\ history \in History
    BY DEF IInv, Typed, TypeOK
  <1>c. /\ caller' \in [Threads -> Call]
        /\ caller'[t].at = "idle"
        /\ \A u \in Threads : u # t => caller'[u] = caller[u]
    BY <1>e, <1>t, CallerReturns
  <1>s. controller' \in Controller
    BY <1>e, <1>t, CountedTyped
  <1>h. /\ history' \in History /\ history'.pushed = history.pushed
        /\ history'.ran = history.ran /\ history'.requests = history.requests
    BY <1>e, <1>t DEF History
  <1>v. /\ events' \in Seq({"process", "drain"})
        /\ Has(events', "drain") <=> Has(events, "drain")
        /\ thread = "running" => events' # <<>>
    <2>1. CASE thread \in Alive /\ events' = Append(events, "process")
      <3>1. "process" \in {"process", "drain"} /\ "process" # "drain"
        OBVIOUS
      <3>2. Append(events, "process") \in Seq({"process", "drain"})
            /\ Append(events, "process") # <<>>
        BY <1>t, <3>1, AppendFacts
      <3>3. Has(Append(events, "process"), "drain") <=> Has(events, "drain")
        BY <1>t, <3>1, HasAppend
      <3> QED BY <2>1, <3>2, <3>3
    <2>2. CASE thread \notin Alive /\ events' = events
      BY <2>2, <1>t DEF Alive
    <2> QED BY <2>1, <2>2, <1>e
  <1>1. Typed'
    <2>1. TypeOK'
      BY <1>e, <1>c, <1>s, <1>h, <1>v DEF IInv, Typed, TypeOK
    <2> QED BY <2>1, <1>e, <1>h DEF IInv, Typed
  <1>2. NothingLost'
    BY <1>e, <1>h DEF IInv, NothingLost, Held
  <1>3. Session'
    BY <1>e, <1>c, <1>v DEF IInv, Session
  <1>4. FlagHonest' /\ Awake'
    BY <1>e, <1>v DEF IInv, Session, FlagHonest, Awake
  <1> QED BY <1>1, <1>2, <1>3, <1>4 DEF IInv

LEMMA beginProcessing_Step ==
  ASSUME IInv, beginProcessing
  PROVE  IInv'
  <1> USE BoundsAssumption, GuiAssumption
  <1>t. /\ repo \in Repository /\ worker \in Worker
        /\ events \in Seq({"process", "drain"})
    BY DEF IInv, Typed, TypeOK
  <1>e. /\ thread \in Alive /\ worker.at = "idle" /\ events # <<>>
        /\ events' = Tail(events)
        /\ UNCHANGED <<thread, caller, inbox, controller, futures, history>>
    BY DEF beginProcessing
  <1>r. /\ repo' \in Repository /\ repo'.tasks = repo.tasks
        /\ repo'.nextRequestId = repo.nextRequestId /\ ~repo'.wakeupScheduled
        /\ repo'.accepting = repo.accepting /\ repo'.running = repo.running
    BY <1>t DEF beginProcessing, Repository
  <1>w. /\ worker' \in Worker /\ worker'.at = "pop"
        /\ worker'.draining <=> Head(events) = "drain"
    BY <1>t DEF beginProcessing, Worker
  <1>v. /\ events' \in Seq({"process", "drain"})
        /\ Has(events, "drain") <=> Head(events) = "drain" \/ Has(events', "drain")
    BY <1>e, <1>t, HasTail, TailFacts
  <1>1. Typed'
    <2>1. TypeOK'
      BY <1>e, <1>r, <1>w, <1>v DEF IInv, Typed, TypeOK
    <2> QED BY <2>1, <1>e, <1>r, <1>w DEF IInv, Typed
  <1>2. NothingLost'
    BY <1>e, <1>r, <1>w DEF IInv, NothingLost, Held
  <1>3. Session'
    BY <1>e, <1>r, <1>w, <1>v DEF IInv, Session, Alive
  <1>4. FlagHonest' /\ Awake'
    BY <1>r, <1>w DEF FlagHonest, Awake
  <1> QED BY <1>1, <1>2, <1>3, <1>4 DEF IInv

LEMMA popTask_Step ==
  ASSUME IInv, popTask
  PROVE  IInv'
  <1> USE BoundsAssumption, GuiAssumption
  <1>t. /\ repo \in Repository /\ worker \in Worker /\ history \in History
        /\ repo.tasks \in Seq(Task) /\ history.ran \in Nat /\ history.pushed \in Nat
    BY DEF IInv, Typed, TypeOK, Repository, History
  <1>e. /\ worker.at = "pop" /\ repo.tasks # <<>>
        /\ repo' = [repo EXCEPT !.tasks = Tail(repo.tasks)]
        /\ worker' = [worker EXCEPT !.at = "announce", !.task = Head(repo.tasks)]
        /\ UNCHANGED <<thread, events, caller, inbox, controller, futures, history>>
    BY DEF popTask
  <1>q. /\ Tail(repo.tasks) \in Seq(Task) /\ Head(repo.tasks) \in Task
        /\ Len(repo.tasks) \in Nat \ {0} /\ Len(Tail(repo.tasks)) = Len(repo.tasks) - 1
        /\ DOMAIN repo.tasks = 1..Len(repo.tasks)
        /\ DOMAIN Tail(repo.tasks) = 1..(Len(repo.tasks) - 1)
        /\ Head(repo.tasks) = repo.tasks[1]
        /\ \A i \in 1..(Len(repo.tasks) - 1) : Tail(repo.tasks)[i] = repo.tasks[i + 1]
    BY <1>t, <1>e, TailFacts
  <1>r. /\ repo' \in Repository /\ repo'.tasks = Tail(repo.tasks)
        /\ repo'.nextRequestId = repo.nextRequestId
        /\ repo'.wakeupScheduled = repo.wakeupScheduled
        /\ repo'.accepting = repo.accepting /\ repo'.running = repo.running
    BY <1>t, <1>e, <1>q DEF Repository
  <1>w. /\ worker' \in Worker /\ worker'.at = "announce"
        /\ worker'.task = Head(repo.tasks)
        /\ worker'.draining = worker.draining
    BY <1>t, <1>e, <1>q DEF Worker
  <1>n. /\ history.ran + Len(repo.tasks) = history.pushed
        /\ \A i \in DOMAIN repo.tasks : repo.tasks[i].serial = history.ran + i
    <2>1. Held = 0
      BY <1>e DEF Held
    <2> QED BY <2>1, <1>t, <1>q DEF IInv, NothingLost
  <1>1. Typed'
    <2>1. Len(repo'.tasks) <= QueueCapacity
      <3>1. Len(repo.tasks) <= QueueCapacity
        BY DEF IInv, Typed, TypeOK
      <3> QED BY <3>1, <1>q, <1>r
    <2>2. TypeOK'
      BY <2>1, <1>e, <1>r, <1>w DEF IInv, Typed, TypeOK
    <2> QED BY <2>2, <1>e, <1>r DEF IInv, Typed
  <1>2. NothingLost'
    <2>1. Held' = 1
      BY <1>w DEF Held
    <2>2. worker'.task.serial = history.ran + 1
      BY <1>n, <1>q, <1>w
    <2>3. history.ran + 1 + Len(repo'.tasks) = history.pushed
      BY <1>n, <1>t, <1>q, <1>r
    <2>4. \A i \in DOMAIN repo'.tasks : repo'.tasks[i].serial = history.ran + 1 + i
      <3> SUFFICES ASSUME NEW i \in 1..(Len(repo.tasks) - 1)
                   PROVE  Tail(repo.tasks)[i].serial = history.ran + 1 + i
        BY <1>q, <1>r
      <3>1. i + 1 \in DOMAIN repo.tasks /\ Tail(repo.tasks)[i] = repo.tasks[i + 1]
        BY <1>q
      <3>2. repo.tasks[i + 1].serial = history.ran + (i + 1)
        BY <3>1, <1>n
      <3>3. history.ran + (i + 1) = history.ran + 1 + i
        BY <1>t, <1>q
      <3> QED BY <3>1, <3>2, <3>3
    <2> QED BY <2>1, <2>2, <2>3, <2>4, <1>e DEF NothingLost
  <1>3. Session'
    BY <1>e, <1>r, <1>w DEF IInv, Session
  <1>4. FlagHonest'
    BY <1>e, <1>r DEF IInv, FlagHonest
  <1>5. Awake'
    BY <1>w DEF Awake
  <1> QED BY <1>1, <1>2, <1>3, <1>4, <1>5 DEF IInv

LEMMA announcePop_Step ==
  ASSUME IInv, announcePop
  PROVE  IInv'
  <1> USE BoundsAssumption, GuiAssumption
  <1>t. worker \in Worker /\ inbox \in Seq(Signal)
    BY DEF IInv, Typed, TypeOK
  <1>e. /\ worker.at = "announce"
        /\ inbox' = Append(inbox, signal("depth", 0))
        /\ UNCHANGED <<repo, thread, events, caller, controller, futures, history>>
    BY DEF announcePop
  <1>w. /\ worker' \in Worker /\ worker'.at = "run"
        /\ worker'.task = worker.task /\ worker'.draining = worker.draining
    BY <1>t DEF announcePop, Worker
  <1>s. inbox' \in Seq(Signal)
    <2>1. signal("depth", 0) \in Signal
      BY SignalTyped
    <2> QED BY <2>1, <1>t, <1>e, AppendFacts
  <1>1. Typed'
    <2>1. TypeOK'
      BY <1>e, <1>w, <1>s DEF IInv, Typed, TypeOK
    <2> QED BY <2>1, <1>e, <1>w DEF IInv, Typed
  <1>2. NothingLost'
    BY <1>e, <1>w DEF IInv, NothingLost, Held
  <1>3. Session'
    BY <1>e, <1>w DEF IInv, Session
  <1>4. FlagHonest' /\ Awake'
    BY <1>e, <1>w DEF IInv, FlagHonest, Awake
  <1> QED BY <1>1, <1>2, <1>3, <1>4 DEF IInv

LEMMA runTask_Step ==
  ASSUME IInv, runTask
  PROVE  IInv'
  <1> USE BoundsAssumption, GuiAssumption
  <1>t. /\ worker \in Worker /\ history \in History /\ inbox \in Seq(Signal)
        /\ worker.task.id \in 0..(MaxRequests + 1)
        /\ worker.task.kind = "batch" => worker.task.id \in Ids
    BY DEF IInv, Typed, TypeOK, Worker, Task, NoTask, Ids
  <1>e. /\ worker.at = "run"
        /\ futures' = futures \ {worker.task.serial}
        /\ worker' = [worker EXCEPT !.at = "pop", !.task = NoTask]
        /\ UNCHANGED <<repo, thread, events, caller, controller>>
    BY DEF runTask, endTask, afterTask
  <1>n. worker.task.serial = history.ran + 1 /\ Held = 1
        /\ history.ran + 1 + Len(repo.tasks) = history.pushed
    BY <1>e DEF IInv, NothingLost, Held
  <1>l. Len(repo.tasks) \in Nat
    BY DEF IInv, Typed, TypeOK, Repository
  <1>h. /\ history' \in History /\ history'.pushed = history.pushed
        /\ history'.ran = history.ran + 1 /\ history'.requests = history.requests
    <2>1. PICK lost \in SUBSET Ids :
            history' = [history EXCEPT !.ran = worker.task.serial,
                                       !.lostCompletions = lost]
      <3>1. CASE \E end \in Ends : worker.task.kind = "batch" /\ end = "threw"
                   /\ afterTask(end)
        <4>1. history' = [history EXCEPT !.ran = worker.task.serial,
                 !.lostCompletions = history.lostCompletions \cup {worker.task.id}]
          BY <3>1 DEF afterTask
        <4>2. history.lostCompletions \cup {worker.task.id} \in SUBSET Ids
          BY <3>1, <1>t DEF History
        <4> QED BY <4>1, <4>2
      <3>2. CASE \E end \in Ends : ~(worker.task.kind = "batch" /\ end = "threw")
                   /\ afterTask(end)
        <4>1. history' = [history EXCEPT !.ran = worker.task.serial,
                            !.lostCompletions = history.lostCompletions]
          BY <3>2 DEF afterTask
        <4>2. history.lostCompletions \in SUBSET Ids
          BY <1>t DEF History
        <4> QED BY <4>1, <4>2
      <3> QED BY <3>1, <3>2 DEF runTask, endTask
    <2>2. history.ran + 1 \in 0..MaxRequests
      BY <1>n, <1>t, <1>l DEF History
    <2> QED BY <2>1, <2>2, <1>n, <1>t DEF History
  <1>w. /\ worker' \in Worker /\ worker'.at = "pop"
        /\ worker'.draining = worker.draining
    BY <1>t, <1>e DEF Worker
  <1>s. inbox' \in Seq(Signal)
    <2>1. signal("completed", worker.task.id) \in Signal
      BY <1>t, SignalTyped
    <2>2. Append(inbox, signal("completed", worker.task.id)) \in Seq(Signal)
      BY <2>1, <1>t, AppendFacts
    <2> QED BY <2>2, <1>t DEF runTask, endTask
  <1>1. Typed'
    <2>1. TypeOK'
      BY <1>e, <1>w, <1>s, <1>h DEF IInv, Typed, TypeOK
    <2> QED BY <2>1, <1>e, <1>w, <1>h DEF IInv, Typed
  <1>2. NothingLost'
    <2>1. Held' = 0
      BY <1>w DEF Held
    <2>2. \A i \in DOMAIN repo.tasks : repo.tasks[i].serial = history.ran + 1 + i
      BY <1>n DEF IInv, NothingLost
    <2>3. history'.ran + 0 + Len(repo.tasks) = history.pushed
      BY <1>n, <1>h, <1>t, <1>l DEF History
    <2>4. \A i \in DOMAIN repo.tasks : repo.tasks[i].serial = history'.ran + 0 + i
      <3>1. history'.ran + 0 = history.ran + 1
        BY <1>h, <1>t DEF History
      <3> QED BY <2>2, <3>1
    <2> QED BY <2>1, <2>3, <2>4, <1>e, <1>h DEF NothingLost
  <1>3. Session'
    BY <1>e, <1>w DEF IInv, Session
  <1>4. FlagHonest' /\ Awake'
    BY <1>e, <1>w DEF IInv, FlagHonest, Awake
  <1> QED BY <1>1, <1>2, <1>3, <1>4 DEF IInv

LEMMA loopEnds_Step ==
  ASSUME IInv, loopEnds
  PROVE  IInv'
  <1> USE BoundsAssumption, GuiAssumption
  <1>t. worker \in Worker
    BY DEF IInv, Typed, TypeOK
  <1>e. /\ worker.at = "pop" /\ repo.tasks = <<>>
        /\ UNCHANGED <<repo, thread, events, caller, inbox, controller, futures, history>>
    BY DEF loopEnds
  <1>w. /\ worker' \in Worker /\ worker'.at = "check"
        /\ worker'.draining = worker.draining
    BY <1>t DEF loopEnds, Worker
  <1>1. Typed'
    <2>1. TypeOK'
      BY <1>e, <1>w DEF IInv, Typed, TypeOK
    <2> QED BY <2>1, <1>e, <1>w DEF IInv, Typed
  <1>2. NothingLost'
    BY <1>e, <1>w DEF IInv, NothingLost, Held
  <1>3. Session'
    BY <1>e, <1>w DEF IInv, Session
  <1>4. FlagHonest' /\ Awake'
    BY <1>e, <1>w DEF IInv, FlagHonest, Awake
  <1> QED BY <1>1, <1>2, <1>3, <1>4 DEF IInv

(* The end of processQueue: after shutdown's last call the queue is empty, *)
(* and only then does the thread quit.                                     *)
LEMMA ProcessedFacts ==
  ASSUME IInv, processed, worker.at \in {"check", "post"}
  PROVE  /\ worker' \in Worker /\ worker'.at = "idle" /\ ~worker'.draining
         /\ thread' \in Alive \cup {"none", "finished"}
         /\ worker.draining => /\ thread' = "quitting" /\ repo.tasks = <<>>
                               /\ caller[Gui].at = "wait" /\ worker.at = "check"
         /\ ~worker.draining => thread' = thread
  <1>1. worker \in Worker
    BY DEF IInv, Typed, TypeOK
  <1>2. /\ worker' \in Worker /\ worker'.at = "idle" /\ ~worker'.draining
    BY <1>1 DEF processed, Worker
  <1>3. worker.draining => /\ thread' = "quitting" /\ repo.tasks = <<>>
                           /\ caller[Gui].at = "wait" /\ worker.at = "check"
    BY DEF IInv, Session, processed
  <1>4. ~worker.draining => thread' = thread
    BY DEF processed
  <1>5. thread' \in Alive \cup {"none", "finished"}
    BY <1>3, <1>4 DEF IInv, Typed, TypeOK, Alive
  <1> QED BY <1>2, <1>3, <1>4, <1>5

LEMMA recheck_Step ==
  ASSUME IInv, recheck
  PROVE  IInv'
  <1> USE BoundsAssumption, GuiAssumption
  <1>t. worker \in Worker /\ repo \in Repository
    BY DEF IInv, Typed, TypeOK
  <1>e. /\ worker.at = "check"
        /\ UNCHANGED <<events, caller, inbox, controller, futures, history>>
    BY DEF recheck
  <1>A. CASE repo.tasks # <<>> /\ ~repo.wakeupScheduled
    <2>r. /\ repo' \in Repository /\ repo'.tasks = repo.tasks
          /\ repo'.nextRequestId = repo.nextRequestId
          /\ repo'.accepting = repo.accepting /\ repo'.running = repo.running
          /\ thread' = thread
      BY <1>A, <1>t DEF recheck, Repository
    <2>w. /\ worker' \in Worker /\ worker'.at = "post"
          /\ worker'.draining = worker.draining
      BY <1>A, <1>t DEF recheck, Worker
    <2>1. Typed'
      <3>1. TypeOK'
        BY <1>e, <2>r, <2>w DEF IInv, Typed, TypeOK
      <3> QED BY <3>1, <1>e, <2>r, <2>w DEF IInv, Typed
    <2>2. NothingLost'
      BY <1>e, <2>r, <2>w DEF IInv, NothingLost, Held
    <2>3. Session'
      BY <1>A, <1>e, <2>r, <2>w DEF IInv, Session
    <2>4. FlagHonest' /\ Awake'
      BY <2>w DEF FlagHonest, Awake
    <2> QED BY <2>1, <2>2, <2>3, <2>4 DEF IInv
  <1>B. CASE ~(repo.tasks # <<>> /\ ~repo.wakeupScheduled)
    <2>r. processed /\ repo' = repo
      BY <1>B DEF recheck
    <2>w. /\ worker' \in Worker /\ worker'.at = "idle" /\ ~worker'.draining
          /\ thread' \in Alive \cup {"none", "finished"}
          /\ worker.draining => /\ thread' = "quitting" /\ repo.tasks = <<>>
                                /\ caller[Gui].at = "wait" /\ worker.at = "check"
          /\ ~worker.draining => thread' = thread
      BY <1>e, <2>r, ProcessedFacts
    <2>1. Typed'
      <3>1. TypeOK'
        BY <1>e, <2>r, <2>w DEF IInv, Typed, TypeOK
      <3> QED BY <3>1, <1>e, <2>r, <2>w DEF IInv, Typed
    <2>2. NothingLost'
      BY <1>e, <2>r, <2>w DEF IInv, NothingLost, Held
    <2>3. Session'
      BY <1>e, <2>r, <2>w DEF IInv, Session
    <2>4. FlagHonest'
      BY <1>e, <2>r, <2>w DEF IInv, FlagHonest
    <2>5. Awake'
      (* Tasks left behind have a flag set, which somebody set on the way to *)
      (* posting.                                                            *)
      BY <1>B, <1>e, <2>r, <2>w DEF IInv, FlagHonest, Awake
    <2> QED BY <2>1, <2>2, <2>3, <2>4, <2>5 DEF IInv
  <1> QED BY <1>A, <1>B

LEMMA postAgain_Step ==
  ASSUME IInv, postAgain
  PROVE  IInv'
  <1> USE BoundsAssumption, GuiAssumption
  <1>t. events \in Seq({"process", "drain"})
    BY DEF IInv, Typed, TypeOK
  <1>e. /\ worker.at = "post" /\ processed
        /\ events' = Append(events, "process")
        /\ UNCHANGED <<repo, caller, inbox, controller, futures, history>>
    BY DEF postAgain
  <1>w. /\ worker' \in Worker /\ worker'.at = "idle" /\ ~worker'.draining
        /\ ~worker.draining
        /\ thread' \in Alive \cup {"none", "finished"} /\ thread' = thread
    BY <1>e, ProcessedFacts
  <1>v. /\ events' \in Seq({"process", "drain"}) /\ events' # <<>>
        /\ Has(events', "drain") <=> Has(events, "drain")
    <2>1. "process" \in {"process", "drain"} /\ "process" # "drain"
      OBVIOUS
    <2>2. events' \in Seq({"process", "drain"}) /\ events' # <<>>
      BY <1>t, <1>e, <2>1, AppendFacts
    <2>3. Has(events', "drain") <=> Has(events, "drain")
      BY <1>t, <1>e, <2>1, HasAppend
    <2> QED BY <2>2, <2>3
  <1>1. Typed'
    <2>1. TypeOK'
      BY <1>e, <1>w, <1>v DEF IInv, Typed, TypeOK
    <2> QED BY <2>1, <1>e, <1>w DEF IInv, Typed
  <1>2. NothingLost'
    BY <1>e, <1>w DEF IInv, NothingLost, Held
  <1>3. Session'
    BY <1>e, <1>w, <1>v DEF IInv, Session
  <1>4. FlagHonest' /\ Awake'
    BY <1>v DEF FlagHonest, Awake
  <1> QED BY <1>1, <1>2, <1>3, <1>4 DEF IInv

LEMMA threadEnds_Step ==
  ASSUME IInv, threadEnds
  PROVE  IInv'
  <1> USE BoundsAssumption, GuiAssumption
  <1>e. /\ thread = "quitting" /\ worker.at = "idle" /\ thread' = "finished"
        /\ UNCHANGED <<repo, events, worker, caller, inbox, controller, futures, history>>
    BY DEF threadEnds
  <1>1. Typed'
    <2>1. TypeOK'
      BY <1>e DEF IInv, Typed, TypeOK, Alive
    <2> QED BY <2>1, <1>e DEF IInv, Typed
  <1>2. NothingLost'
    BY <1>e DEF IInv, NothingLost, Held
  <1>3. Session'
    BY <1>e DEF IInv, Session
  <1>4. FlagHonest' /\ Awake'
    BY <1>e DEF IInv, Session, FlagHonest, Awake
  <1> QED BY <1>1, <1>2, <1>3, <1>4 DEF IInv

LEMMA StutterHolds ==
  ASSUME IInv, UNCHANGED vars
  PROVE  IInv'
  <1>e. UNCHANGED <<repo, thread, events, worker, caller, inbox, controller, futures, history>>
    BY DEF vars
  <1>1. Typed'
    BY <1>e DEF IInv, Typed, TypeOK
  <1>2. NothingLost'
    BY <1>e DEF IInv, NothingLost, Held
  <1>3. Session'
    BY <1>e DEF IInv, Session
  <1>4. FlagHonest' /\ Awake'
    BY <1>e DEF IInv, FlagHonest, Awake
  <1> QED BY <1>1, <1>2, <1>3, <1>4 DEF IInv

LEMMA NextHolds ==
  ASSUME IInv, [Next]_vars
  PROVE  IInv'
  <1>1. CASE start
    BY <1>1, start_Step
  <1>2. CASE shutdown
    BY <1>2, shutdown_Step
  <1>3. CASE Stopping
    BY <1>3, postDrain_Step, endShutdown_Step DEF Stopping
  <1>4. CASE \E t \in Threads, kind \in Kinds : enqueueTask(t, kind)
    BY <1>4, enqueueTask_Step
  <1>5. CASE \E t \in Threads : rejectTask(t) \/ InCall(t)
    BY <1>5, rejectTask_Step, announceDepth_Step, scheduleWakeup_Step,
       postWakeup_Step DEF InCall
  <1>6. CASE Processing
    BY <1>6, beginProcessing_Step, popTask_Step, announcePop_Step, runTask_Step,
       loopEnds_Step, recheck_Step, postAgain_Step, threadEnds_Step DEF Processing
  <1>7. CASE deliverSignal
    BY <1>7, deliverSignal_Step
  <1>8. CASE UNCHANGED vars
    BY <1>8, StutterHolds
  <1> QED BY <1>1, <1>2, <1>3, <1>4, <1>5, <1>6, <1>7, <1>8 DEF Next

-----------------------------------------------------------------------------
(* The controller's account, for the program that starts its repository    *)
(* once and submits on the GUI thread alone, as main.cpp does.             *)

Done(box, x) == \E i \in DOMAIN box : box[i].type = "completed" /\ box[i].value = x
InQueue(tasks, x) == \E i \in DOMAIN tasks : tasks[i].kind = "batch" /\ tasks[i].id = x
InHand(task, x) == task.kind = "batch" /\ task.id = x

RisingIds(tasks) == \A i, j \in DOMAIN tasks : i < j => tasks[i].id < tasks[j].id
RisingValues(box) ==
  \A i, j \in DOMAIN box :
    i < j /\ box[i].type = "completed" /\ box[j].type = "completed"
      => box[i].value < box[j].value

(* The batch of a call that has not returned, not yet counted. *)
Own(x) == InHand(caller[Gui].task, x)
Lost(x) == x \in history.lostCompletions
Past(x) == Done(inbox, x) \/ Lost(x)

Holding == worker.task # NoTask

(* A batch is pending, or that of the call, exactly if it is queued, being *)
(* written, reported or lost.                                              *)
Balanced ==
  /\ \A x : x \in controller.pending \/ Own(x)
             <=> InQueue(repo.tasks, x) \/ InHand(worker.task, x) \/ Past(x)
  /\ \A x : Own(x) => x \notin controller.pending
  /\ controller.accepted = controller.completed + Cardinality(controller.pending)
  /\ controller.rejected = history.requests - history.pushed

(* Request ids grow from what was reported over what is being written to   *)
(* what is queued, so that none is met twice.                              *)
Rising ==
  /\ RisingIds(repo.tasks)
  /\ RisingValues(inbox)
  /\ \A x : Done(inbox, x) => ~Lost(x)
  /\ \A i \in DOMAIN repo.tasks :
       /\ Holding => worker.task.id < repo.tasks[i].id
       /\ \A x : Past(x) => x < repo.tasks[i].id
  /\ Holding => \A x : Past(x) => x < worker.task.id
  /\ repo.running \/ history.starts = 0 =>
       /\ \A i \in DOMAIN repo.tasks : repo.tasks[i].id < repo.nextRequestId
       /\ Holding => worker.task.id < repo.nextRequestId
       /\ \A x : Past(x) => x < repo.nextRequestId

Placed ==
  /\ caller[Gui].at \in {"idle", "drain", "wait"} => caller[Gui].task = NoTask
  /\ worker.at \in {"announce", "run"} <=> Holding
  /\ \A i \in DOMAIN inbox : inbox[i].type # "rejected"
  /\ history.starts = 0 => thread = "none" /\ ~repo.running

Account == Balanced /\ Rising /\ Placed

(* Steps that move no task and report nothing. *)
LEMMA SameAccount ==
  ASSUME Account, controller' = controller,
         repo'.tasks = repo.tasks, repo'.nextRequestId = repo.nextRequestId,
         worker'.task = worker.task,
         worker'.at \in {"announce", "run"} <=> worker.at \in {"announce", "run"},
         caller'[Gui].task = caller[Gui].task,
         caller'[Gui].at \in {"idle", "drain", "wait"} => caller'[Gui].task = NoTask,
         \A x : Done(inbox', x) <=> Done(inbox, x),
         RisingValues(inbox'), \A i \in DOMAIN inbox' : inbox'[i].type # "rejected",
         history'.lostCompletions = history.lostCompletions,
         history'.requests = history.requests, history'.pushed = history.pushed,
         repo'.running \/ history'.starts = 0 => repo.running \/ history.starts = 0,
         history'.starts = 0 => thread' = "none" /\ ~repo'.running
  PROVE  Account'
<1>1. /\ \A x : Own(x)' <=> Own(x)
      /\ \A x : Lost(x)' <=> Lost(x)
      /\ Holding' <=> Holding
  BY DEF Own, InHand, Lost, Holding
<1>2. \A x : Past(x)' <=> Past(x)
  BY <1>1 DEF Past
<1>3. Balanced'
  BY <1>1, <1>2 DEF Account, Balanced, InHand
<1>4. Rising'
  BY <1>1, <1>2 DEF Account, Rising
<1>5. Placed'
  BY <1>1 DEF Account, Placed
<1> QED BY <1>3, <1>4, <1>5 DEF Account

AsMainUsesIt == Threads = {Gui} /\ MaxStarts = 1

LEMMA AccountInit == Init => Account
<1> SUFFICES ASSUME Init PROVE Account
  OBVIOUS
<1>1. /\ repo.tasks = <<>> /\ ~repo.running /\ worker.task = NoTask /\ worker.at = "idle"
      /\ caller[Gui].at = "idle" /\ caller[Gui].task = NoTask /\ inbox = <<>>
      /\ controller.pending = {} /\ controller.accepted = 0 /\ controller.completed = 0
      /\ controller.rejected = 0 /\ history.lostCompletions = {}
      /\ history.requests = 0 /\ history.pushed = 0 /\ thread = "none"
  BY GuiAssumption DEF Init
<1>2. \A x : ~Past(x) /\ ~Own(x) /\ ~InQueue(repo.tasks, x) /\ ~InHand(worker.task, x)
  BY <1>1 DEF Past, Done, Lost, Own, InHand, InQueue, NoTask
<1>3. Cardinality(controller.pending) = 0
  BY <1>1, FS_EmptySet
<1>4. Balanced
  BY <1>1, <1>2, <1>3 DEF Balanced
<1>5. Rising
  BY <1>1, <1>2 DEF Rising, RisingIds, RisingValues, Past, Holding
<1>6. Placed
  BY <1>1 DEF Placed, Holding
<1> QED BY <1>4, <1>5, <1>6 DEF Account

(* A depth that is announced changes nothing of the account. *)
LEMMA DepthPosted ==
  ASSUME TypeOK, Account, inbox' = Append(inbox, signal("depth", 0))
  PROVE  /\ \A x : Done(inbox', x) <=> Done(inbox, x)
         /\ RisingValues(inbox')
         /\ \A i \in DOMAIN inbox' : inbox'[i].type # "rejected"
<1>1. PICK s \in Signal : s = signal("depth", 0) /\ s.type = "depth"
  BY SignalTyped, BoundsAssumption DEF signal
<1>2. inbox \in Seq(Signal) /\ inbox' = Append(inbox, s)
  BY <1>1 DEF TypeOK
<1>3. /\ DOMAIN inbox' = 1..(Len(inbox) + 1)
      /\ \A i \in 1..Len(inbox) : inbox'[i] = inbox[i]
      /\ inbox'[Len(inbox) + 1] = s
      /\ DOMAIN inbox = 1..Len(inbox) /\ Len(inbox) \in Nat
  BY <1>2, AppendFacts
<1>4. \A i \in DOMAIN inbox' : i \in DOMAIN inbox \/ i = Len(inbox) + 1
  BY <1>3
<1>5. \A i \in DOMAIN inbox : i \in DOMAIN inbox' /\ inbox'[i] = inbox[i]
  BY <1>3
<1>6. \A x : Done(inbox', x) <=> Done(inbox, x)
  BY <1>1, <1>3, <1>4, <1>5 DEF Done
<1>7. RisingValues(inbox) /\ \A i \in DOMAIN inbox : inbox[i].type # "rejected"
  BY DEF Account, Rising, Placed
<1>8. RisingValues(inbox')
  BY <1>1, <1>3, <1>4, <1>5, <1>7 DEF RisingValues
<1> QED BY <1>1, <1>3, <1>4, <1>5, <1>6, <1>7, <1>8

LEMMA SameInbox ==
  ASSUME Account, inbox' = inbox
  PROVE  /\ \A x : Done(inbox', x) <=> Done(inbox, x)
         /\ RisingValues(inbox')
         /\ \A i \in DOMAIN inbox' : inbox'[i].type # "rejected"
  BY DEF Account, Rising, Placed

LEMMA QuietAccounts ==
  ASSUME IInv, IInv', Account, AsMainUsesIt,
         \/ start \/ shutdown \/ Stopping \/ announceDepth(Gui)
         \/ beginProcessing \/ announcePop \/ loopEnds \/ recheck \/ postAgain \/ threadEnds
         \/ UNCHANGED vars
  PROVE  Account'
<1>1. /\ repo \in Repository /\ worker \in Worker /\ history \in History
      /\ caller \in [Threads -> Call] /\ Gui \in Threads /\ controller \in Controller
  BY GuiAssumption DEF IInv, Typed, TypeOK
<1>2. signal("depth", 0).type = "depth"
  BY DEF signal
<1>3. handleSignal(controller, signal("depth", 0)) = controller
  BY <1>2 DEF handleSignal
<1>4. ASSUME emit(Gui, signal("depth", 0))
      PROVE  controller' = controller /\ inbox' = inbox
  BY <1>3, <1>4 DEF emit
<1>5. history.starts = 0 => thread = "none" /\ ~repo.running
  BY DEF Account, Placed
<1>6. worker.at \in {"announce", "run"} <=> Holding
  BY DEF Account, Placed
<1>7. caller[Gui].at \in {"idle", "drain", "wait"} => caller[Gui].task = NoTask
  BY DEF Account, Placed
<1>8. CASE start
  <2>1. /\ controller' = controller /\ inbox' = inbox /\ worker' = worker /\ caller' = caller
        /\ history.starts = 0 /\ history'.starts = 1
        /\ repo'.tasks = repo.tasks /\ repo'.nextRequestId = repo.nextRequestId
        /\ history'.lostCompletions = history.lostCompletions
        /\ history'.requests = history.requests /\ history'.pushed = history.pushed
    <3>1. history.starts = 0 /\ history' = [history EXCEPT !.starts = history.starts + 1]
      BY <1>1, <1>8 DEF start, AsMainUsesIt, History
    <3>2. history' = [history EXCEPT !.starts = 1]
      BY <3>1
    <3>3. /\ history'.starts = 1 /\ history'.lostCompletions = history.lostCompletions
          /\ history'.requests = history.requests /\ history'.pushed = history.pushed
      BY <1>1, <3>2 DEF History
    <3>4. repo'.tasks = repo.tasks /\ repo'.nextRequestId = repo.nextRequestId
      BY <1>1, <1>8 DEF start, Repository
    <3>5. controller' = controller /\ inbox' = inbox /\ worker' = worker /\ caller' = caller
      BY <1>4, <1>8 DEF start
    <3> QED BY <3>1, <3>3, <3>4, <3>5
  <2> QED BY <1>7, <2>1, SameInbox, SameAccount
<1>9. CASE shutdown
  <2>1. /\ controller' = controller /\ inbox' = inbox /\ worker' = worker /\ history' = history
        /\ repo'.tasks = repo.tasks /\ repo'.nextRequestId = repo.nextRequestId
        /\ repo'.running = repo.running /\ thread' = thread
        /\ caller'[Gui].task = caller[Gui].task /\ caller[Gui].at = "idle"
    BY <1>1, <1>9 DEF shutdown, Repository, Call
  <2> QED BY <1>5, <1>7, <2>1, SameInbox, SameAccount
<1>10. CASE postDrain
  <2>1. /\ controller' = controller /\ inbox' = inbox /\ worker' = worker /\ history' = history
        /\ repo' = repo /\ thread' = thread
        /\ caller'[Gui].task = caller[Gui].task /\ caller[Gui].at = "drain"
    BY <1>1, <1>10 DEF postDrain, Call
  <2> QED BY <1>5, <1>7, <2>1, SameInbox, SameAccount
<1>11. CASE endShutdown
  <2>1. /\ controller' = controller /\ inbox' = inbox /\ worker' = worker /\ history' = history
        /\ repo'.tasks = <<>> /\ ~repo'.running /\ thread' = "none" /\ thread = "finished"
        /\ caller'[Gui].task = caller[Gui].task /\ caller[Gui].at = "wait"
    BY <1>1, <1>4, <1>11 DEF endShutdown, Call
  <2>2. repo.tasks = <<>> /\ repo'.tasks = repo.tasks /\ history.starts # 0
    BY <1>5, <2>1 DEF IInv, Session
  <2>3. \A x : /\ Own(x)' <=> Own(x)
               /\ Past(x)' <=> Past(x)
               /\ Lost(x)' <=> Lost(x)
    BY <2>1 DEF Own, InHand, Past, Lost
  <2>4. Balanced'
    BY <2>1, <2>2, <2>3 DEF Account, Balanced, InHand
  <2>5. Rising'
    BY <2>1, <2>2, <2>3 DEF Account, Rising, Holding
  <2>6. Placed'
    BY <1>7, <2>1, <2>2 DEF Account, Placed, Holding
  <2> QED BY <2>4, <2>5, <2>6 DEF Account
<1>12. CASE announceDepth(Gui)
  <2>1. /\ controller' = controller /\ inbox' = inbox /\ worker' = worker /\ history' = history
        /\ repo' = repo /\ thread' = thread
        /\ caller'[Gui].task = caller[Gui].task /\ caller'[Gui].at = "wakeup"
    BY <1>1, <1>4, <1>12 DEF announceDepth, Call
  <2> QED BY <1>5, <2>1, SameInbox, SameAccount
<1>13. CASE beginProcessing
  <2>1. /\ controller' = controller /\ inbox' = inbox /\ history' = history /\ caller' = caller
        /\ repo'.tasks = repo.tasks /\ repo'.nextRequestId = repo.nextRequestId
        /\ repo'.running = repo.running /\ thread' = thread
        /\ worker'.task = worker.task /\ worker.at = "idle" /\ worker'.at = "pop"
    BY <1>1, <1>13 DEF beginProcessing, Repository, Worker
  <2> QED BY <1>5, <1>7, <2>1, SameInbox, SameAccount
<1>14. CASE announcePop
  <2>1. /\ controller' = controller /\ history' = history /\ caller' = caller
        /\ repo' = repo /\ thread' = thread
        /\ worker'.task = worker.task /\ worker.at = "announce" /\ worker'.at = "run"
        /\ inbox' = Append(inbox, signal("depth", 0))
    BY <1>1, <1>14 DEF announcePop, Worker
  <2>2. TypeOK
    BY DEF IInv, Typed
  <2> QED BY <1>5, <1>7, <2>1, <2>2, DepthPosted, SameAccount
<1>15. CASE loopEnds \/ recheck \/ postAgain
  <2>1. /\ controller' = controller /\ inbox' = inbox /\ history' = history /\ caller' = caller
        /\ repo'.tasks = repo.tasks /\ repo'.nextRequestId = repo.nextRequestId
        /\ repo'.running = repo.running
        /\ worker'.task = worker.task /\ worker.at \in {"pop", "check", "post"}
        /\ worker'.at \in {"check", "post", "idle"}
        /\ thread' = thread \/ (thread' = "quitting" /\ worker.draining)
    BY <1>1, <1>15 DEF loopEnds, recheck, postAgain, processed, Repository, Worker
  <2>2. thread = "none" => worker.at = "idle"
    BY DEF IInv, Session
  <2>3. history'.starts = 0 => thread' = "none" /\ ~repo'.running
    BY <1>5, <2>1, <2>2
  <2> QED BY <1>7, <2>1, <2>3, SameInbox, SameAccount
<1>16. CASE threadEnds
  <2>1. /\ controller' = controller /\ inbox' = inbox /\ history' = history /\ caller' = caller
        /\ repo' = repo /\ worker' = worker /\ thread = "quitting"
    BY <1>16 DEF threadEnds
  <2> QED BY <1>5, <1>7, <2>1, SameInbox, SameAccount
<1>17. CASE UNCHANGED vars
  <2>1. /\ controller' = controller /\ inbox' = inbox /\ history' = history /\ caller' = caller
        /\ repo' = repo /\ worker' = worker /\ thread' = thread
    BY <1>17 DEF vars
  <2> QED BY <1>5, <1>7, <2>1, SameInbox, SameAccount
<1> QED BY <1>8, <1>9, <1>10, <1>11, <1>12, <1>13, <1>14, <1>15, <1>16, <1>17 DEF Stopping

LEMMA IdsAreNumbers ==
  ASSUME IInv
  PROVE  /\ \A x : Past(x) => x \in Nat
         /\ \A i \in DOMAIN repo.tasks : repo.tasks[i].id \in Nat
         /\ Holding => worker.task \in Task /\ worker.task.id \in Nat
<1>1. /\ repo.tasks \in Seq(Task) /\ inbox \in Seq(Signal) /\ worker.task \in Task \cup {NoTask}
      /\ history.lostCompletions \in SUBSET Ids
  BY DEF IInv, Typed, TypeOK, Repository, Worker, History
<1>2. \A t \in Task : t.id \in Nat
  BY DEF Task, Ids
<1>3. \A i \in DOMAIN repo.tasks : repo.tasks[i] \in Task
  BY <1>1
<1>4. \A i \in DOMAIN inbox : inbox[i] \in Signal
  BY <1>1
<1>5. \A s \in Signal : s.value \in Nat
  BY BoundsAssumption DEF Signal
<1>6. \A x : Past(x) => x \in Nat
  BY <1>1, <1>4, <1>5 DEF Past, Done, Lost, Ids
<1>7. Holding => worker.task \in Task
  BY <1>1 DEF Holding
<1> QED BY <1>2, <1>3, <1>6, <1>7

LEMMA rejectTask_Accounts ==
  ASSUME IInv, Account, rejectTask(Gui)
  PROVE  Account'
<1>1. /\ repo \in Repository /\ history \in History /\ controller \in Controller
      /\ repo.nextRequestId \in Nat
  BY BoundsAssumption DEF IInv, Typed, TypeOK, Repository, Ids
<1>2. /\ repo' = [repo EXCEPT !.nextRequestId = repo.nextRequestId + 1]
      /\ history' = [history EXCEPT !.requests = history.requests + 1]
      /\ controller' = handleSignal(controller, signal("rejected", repo.nextRequestId))
      /\ inbox' = inbox /\ thread' = thread /\ worker' = worker /\ caller' = caller
  BY DEF rejectTask, emit
<1>3. PICK n \in Nat : n = repo.nextRequestId + 1
  BY <1>1
<1>4. repo'.tasks = repo.tasks /\ repo'.running = repo.running /\ repo'.nextRequestId = n
  BY <1>1, <1>2, <1>3 DEF Repository
<1>5. PICK r \in Nat : r = history.requests + 1
  BY <1>1 DEF History
<1>6. /\ history'.requests = r /\ history'.pushed = history.pushed
      /\ history'.lostCompletions = history.lostCompletions /\ history'.starts = history.starts
  BY <1>1, <1>2, <1>5 DEF History
<1>7. controller' = [controller EXCEPT !.rejected = controller.rejected + 1]
  BY <1>2 DEF handleSignal, signal
<1>8. PICK m \in Nat : m = controller.rejected + 1
  BY <1>1 DEF Controller
<1>9. /\ controller'.rejected = m /\ controller'.pending = controller.pending
      /\ controller'.accepted = controller.accepted
      /\ controller'.completed = controller.completed
  BY <1>1, <1>7, <1>8 DEF Controller
<1>10. \A x : /\ Own(x)' <=> Own(x)
              /\ Past(x)' <=> Past(x)
              /\ Lost(x)' <=> Lost(x)
  BY <1>2, <1>6 DEF Own, InHand, Past, Lost
<1>11. Balanced'
  <2>1. m = r - history.pushed
    <3>1. controller.rejected = history.requests - history.pushed
      BY DEF Account, Balanced
    <3>2. history.requests \in Nat /\ history.pushed \in Nat /\ controller.rejected \in Nat
      BY <1>1 DEF History, Controller
    <3> QED BY <1>5, <1>8, <3>1, <3>2
  <2> QED BY <1>2, <1>4, <1>6, <1>9, <1>10, <2>1 DEF Account, Balanced, InHand
<1>12. Rising'
  <2>1. \A i \in Nat : i < repo.nextRequestId => i < n
    BY <1>1, <1>3
  <2> QED BY <1>2, <1>4, <1>6, <1>10, <2>1, IdsAreNumbers
          DEF Account, Rising, Holding
<1>13. Placed'
  BY <1>2, <1>4, <1>6 DEF Account, Placed, Holding
<1> QED BY <1>11, <1>12, <1>13 DEF Account

LEMMA enqueueTask_Accounts ==
  ASSUME IInv, Account, NEW kind \in Kinds, enqueueTask(Gui, kind)
  PROVE  Account'
<1>1. /\ repo \in Repository /\ history \in History /\ controller \in Controller
      /\ caller \in [Threads -> Call] /\ Gui \in Threads
      /\ repo.nextRequestId \in Ids /\ repo.nextRequestId \in Nat
      /\ repo.nextRequestId <= history.requests + 1
      /\ history.pushed <= history.requests /\ history.requests < MaxRequests
  BY GuiAssumption, BoundsAssumption
     DEF IInv, Typed, TypeOK, Repository, Ids, enqueueTask
<1>2. PICK task, tasks, n : /\ task = [id |-> repo.nextRequestId, kind |-> kind,
                                       serial |-> history.pushed + 1]
                            /\ tasks = Append(repo.tasks, task)
                            /\ n = repo.nextRequestId + 1
  OBVIOUS
<1>3. /\ repo' = [repo EXCEPT !.nextRequestId = n, !.tasks = tasks]
      /\ caller' = [caller EXCEPT ![Gui] = [at |-> "announce", task |-> task]]
      /\ history' = [history EXCEPT !.requests = history.requests + 1,
                                    !.pushed = history.pushed + 1]
      /\ inbox' = inbox /\ thread' = thread /\ worker' = worker /\ controller' = controller
      /\ repo.running /\ caller[Gui].at = "idle"
  BY <1>2 DEF enqueueTask, mayEnqueue
<1>4. /\ repo'.tasks = tasks /\ repo'.nextRequestId = n /\ repo'.running = repo.running
  BY <1>1, <1>3 DEF Repository
<1>5. task \in Task /\ task.id = repo.nextRequestId /\ task.kind = kind
  BY <1>1, <1>2, BoundsAssumption DEF Task, History
<1>6. caller'[Gui].at = "announce" /\ caller'[Gui].task = task
  BY <1>1, <1>3
<1>7. PICK r, p : r = history.requests + 1 /\ p = history.pushed + 1
  OBVIOUS
<1>8. /\ history'.requests = r /\ history'.pushed = p
      /\ history'.lostCompletions = history.lostCompletions /\ history'.starts = history.starts
  <2>1. history' = [history EXCEPT !.requests = r, !.pushed = p]
    BY <1>3, <1>7
  <2> QED BY <1>1, <2>1 DEF History
<1>9. /\ DOMAIN tasks = 1..(Len(repo.tasks) + 1)
      /\ \A i \in 1..Len(repo.tasks) : tasks[i] = repo.tasks[i]
      /\ tasks[Len(repo.tasks) + 1] = task
      /\ DOMAIN repo.tasks = 1..Len(repo.tasks) /\ Len(repo.tasks) \in Nat
  BY <1>1, <1>2, <1>5, AppendFacts DEF Repository
<1>10. /\ \A i \in DOMAIN tasks : i \in DOMAIN repo.tasks \/ i = Len(repo.tasks) + 1
       /\ \A i \in DOMAIN repo.tasks : i \in DOMAIN tasks /\ tasks[i] = repo.tasks[i]
       /\ Len(repo.tasks) + 1 \in DOMAIN tasks
  BY <1>9
<1>11. \A x : InQueue(tasks, x) <=> InQueue(repo.tasks, x) \/ InHand(task, x)
  BY <1>9, <1>10 DEF InQueue, InHand
<1>12. caller[Gui].task = NoTask /\ \A x : ~Own(x)
  BY <1>3 DEF Account, Placed, Own, InHand, NoTask
<1>13. \A x : /\ Own(x)' <=> InHand(task, x)
              /\ Past(x)' <=> Past(x)
              /\ Lost(x)' <=> Lost(x)
              /\ InHand(worker.task, x)' <=> InHand(worker.task, x)
  BY <1>3, <1>6, <1>8 DEF Own, InHand, Past, Lost
<1>14. /\ \A i \in DOMAIN repo.tasks : repo.tasks[i].id < task.id
       /\ Holding => worker.task.id < task.id
       /\ \A x : Past(x) => x < task.id
  BY <1>3, <1>5 DEF Account, Rising
<1>15. Balanced'
  <2>1. \A x : InHand(task, x) => x \notin controller.pending
    <3> SUFFICES ASSUME NEW x, InHand(task, x), x \in controller.pending
                 PROVE  FALSE
      OBVIOUS
    <3>1. x = task.id /\ task.id \in Nat
      BY <1>1, <1>5 DEF InHand
    <3>2. InQueue(repo.tasks, x) \/ InHand(worker.task, x) \/ Past(x)
      BY DEF Account, Balanced
    <3>3. InHand(worker.task, x) => Holding /\ worker.task.id = x
      BY DEF InHand, Holding, NoTask
    <3> QED BY <1>14, <3>1, <3>2, <3>3 DEF InQueue
  <2>2. r - p = history.requests - history.pushed
    BY <1>1, <1>7 DEF History
  <2> QED BY <1>3, <1>4, <1>8, <1>11, <1>12, <1>13, <2>1, <2>2 DEF Account, Balanced
<1>16. Rising'
  <2>1. /\ \A x : Past(x) => x \in Nat
        /\ \A i \in DOMAIN repo.tasks : repo.tasks[i].id \in Nat
        /\ Holding => worker.task.id \in Nat
        /\ task.id \in Nat /\ n \in Nat /\ task.id < n
    <3>1. task.id \in Nat /\ n \in Nat /\ task.id < n
      BY <1>1, <1>2, <1>5
    <3> QED BY <3>1, IdsAreNumbers
  <2>2. RisingIds(tasks)
    <3> SUFFICES ASSUME NEW i \in DOMAIN tasks, NEW j \in DOMAIN tasks, i < j
                 PROVE  tasks[i].id < tasks[j].id
      BY DEF RisingIds
    <3>1. i \in DOMAIN repo.tasks
      BY <1>9
    <3>2. CASE j \in DOMAIN repo.tasks
      BY <1>10, <3>1, <3>2 DEF Account, Rising, RisingIds
    <3>3. CASE j = Len(repo.tasks) + 1
      BY <1>9, <1>10, <1>14, <3>1, <3>3
    <3> QED BY <1>10, <3>2, <3>3
  <2>3. \A i \in DOMAIN tasks :
          /\ Holding => worker.task.id < tasks[i].id
          /\ \A x : Past(x) => x < tasks[i].id
          /\ tasks[i].id < n
    <3> SUFFICES ASSUME NEW i \in DOMAIN tasks
                 PROVE  /\ Holding => worker.task.id < tasks[i].id
                        /\ \A x : Past(x) => x < tasks[i].id
                        /\ tasks[i].id < n
      OBVIOUS
    <3>1. CASE i \in DOMAIN repo.tasks
      <4>1. tasks[i] = repo.tasks[i] /\ repo.tasks[i].id < task.id
        BY <1>10, <1>14, <3>1
      <4>2. tasks[i].id < n
        BY <2>1, <3>1, <4>1
      <4> QED BY <3>1, <4>1, <4>2 DEF Account, Rising
    <3>2. CASE i = Len(repo.tasks) + 1
      BY <1>9, <1>14, <2>1, <3>2
    <3> QED BY <1>10, <3>1, <3>2
  <2>4. (Holding => worker.task.id < n) /\ \A x : Past(x) => x < n
    BY <1>14, <2>1
  <2>5. Holding' <=> Holding
    BY <1>3 DEF Holding
  <2> QED BY <1>3, <1>4, <1>13, <2>2, <2>3, <2>4, <2>5 DEF Account, Rising
<1>17. Placed'
  BY <1>3, <1>4, <1>6, <1>8 DEF Account, Placed, Holding
<1> QED BY <1>15, <1>16, <1>17 DEF Account

LEMMA PendingFinite ==
  ASSUME TypeOK
  PROVE  IsFiniteSet(controller.pending)
<1>1. IsFiniteSet(1..(MaxRequests + 1))
  BY FS_Interval, BoundsAssumption
<1>2. controller.pending \in SUBSET (1..(MaxRequests + 1))
  BY DEF TypeOK, Controller, Ids
<1> QED BY <1>1, <1>2, FS_Subset

(* The call returns and its batch is counted. *)
LEMMA ReturnAccounts ==
  ASSUME IInv, Account, caller' = returned(Gui), controller' = counted(Gui),
         repo' = repo, inbox' = inbox, worker' = worker, thread' = thread,
         history'.lostCompletions = history.lostCompletions,
         history'.requests = history.requests, history'.pushed = history.pushed,
         history'.starts = history.starts
  PROVE  Account'
<1>1. /\ caller \in [Threads -> Call] /\ Gui \in Threads /\ controller \in Controller
  BY GuiAssumption DEF IInv, Typed, TypeOK
<1>2. caller'[Gui].at = "idle" /\ caller'[Gui].task = NoTask
  BY <1>1 DEF returned
<1>3. \A x : /\ ~Own(x)'
             /\ Past(x)' <=> Past(x)
             /\ Lost(x)' <=> Lost(x)
  BY <1>2 DEF Own, InHand, NoTask, Past, Lost
<1>4. Balanced'
  <2>1. CASE caller[Gui].task.kind = "batch"
    <3>1. PICK id : id = caller[Gui].task.id
      OBVIOUS
    <3>2. PICK all, n : all = controller.pending \cup {id} /\ n = controller.accepted + 1
      OBVIOUS
    <3>3. controller' = [controller EXCEPT !.pending = all, !.accepted = n]
      BY <2>1, <3>1, <3>2 DEF counted
    <3>4. /\ controller'.pending = all /\ controller'.accepted = n
          /\ controller'.completed = controller.completed
          /\ controller'.rejected = controller.rejected
      BY <1>1, <3>3 DEF Controller
    <3>5. \A x : Own(x) <=> x = id
      BY <2>1, <3>1 DEF Own, InHand
    <3>6. id \notin controller.pending
      BY <3>5 DEF Account, Balanced
    <3>7. IsFiniteSet(controller.pending)
      BY PendingFinite DEF IInv, Typed
    <3>8. Cardinality(all) = Cardinality(controller.pending) + 1 /\ Cardinality(all) \in Nat
      BY <3>2, <3>6, <3>7, FS_AddElement, FS_CardinalityType
    <3>9. n = controller.completed + Cardinality(all)
      <4>1. controller.accepted = controller.completed + Cardinality(controller.pending)
        BY DEF Account, Balanced
      <4>2. controller.completed \in Nat /\ Cardinality(controller.pending) \in Nat
        BY <1>1, <3>7, FS_CardinalityType DEF Controller
      <4> QED BY <3>2, <3>8, <4>1, <4>2
    <3>10. \A x : x \in all
             <=> InQueue(repo.tasks, x) \/ InHand(worker.task, x) \/ Past(x)
      BY <3>2, <3>5 DEF Account, Balanced
    <3> QED BY <1>3, <3>4, <3>9, <3>10 DEF Account, Balanced, InHand
  <2>2. CASE caller[Gui].task.kind # "batch"
    <3>1. controller' = controller /\ \A x : ~Own(x)
      BY <2>2 DEF counted, Own, InHand
    <3> QED BY <1>3, <3>1 DEF Account, Balanced, InHand
  <2> QED BY <2>1, <2>2
<1>5. Rising'
  BY <1>3 DEF Account, Rising, Holding
<1>6. Placed'
  BY <1>2 DEF Account, Placed, Holding
<1> QED BY <1>4, <1>5, <1>6 DEF Account

LEMMA wakeup_Accounts ==
  ASSUME IInv, Account, scheduleWakeup(Gui) \/ postWakeup(Gui)
  PROVE  Account'
<1>1. /\ repo \in Repository /\ history \in History
      /\ caller \in [Threads -> Call] /\ Gui \in Threads
  BY GuiAssumption DEF IInv, Typed, TypeOK
<1>2. CASE postWakeup(Gui)
  <2>1. /\ caller' = returned(Gui) /\ controller' = counted(Gui)
        /\ repo' = repo /\ inbox' = inbox /\ worker' = worker /\ thread' = thread
        /\ history' = history \/ history' = [history EXCEPT !.deadPosts = history.deadPosts + 1]
    BY <1>2 DEF postWakeup
  <2>2. /\ history'.lostCompletions = history.lostCompletions
        /\ history'.requests = history.requests /\ history'.pushed = history.pushed
        /\ history'.starts = history.starts
    BY <1>1, <2>1 DEF History
  <2> QED BY <2>1, <2>2, ReturnAccounts
<1>3. CASE scheduleWakeup(Gui) /\ caller' = returned(Gui) /\ repo' = repo
  <2>1. /\ controller' = counted(Gui)
        /\ inbox' = inbox /\ worker' = worker /\ thread' = thread /\ history' = history
    <3>1. caller'[Gui].at = "idle"
      BY <1>1, <1>3 DEF returned
    <3>2. caller' # [caller EXCEPT ![Gui].at = "post"]
      BY <1>1, <3>1 DEF Call
    <3> QED BY <1>3, <3>2 DEF scheduleWakeup
  <2> QED BY <1>3, <2>1, ReturnAccounts
<1>4. CASE scheduleWakeup(Gui) /\ ~(caller' = returned(Gui) /\ repo' = repo)
  <2>1. /\ repo' = [repo EXCEPT !.wakeupScheduled = TRUE]
        /\ caller' = [caller EXCEPT ![Gui].at = "post"] /\ controller' = controller
        /\ inbox' = inbox /\ worker' = worker /\ thread' = thread /\ history' = history
    BY <1>4 DEF scheduleWakeup
  <2>2. /\ repo'.tasks = repo.tasks /\ repo'.nextRequestId = repo.nextRequestId
        /\ repo'.running = repo.running
        /\ caller'[Gui].at = "post" /\ caller'[Gui].task = caller[Gui].task
    BY <1>1, <2>1 DEF Repository, Call
  <2>3. history.starts = 0 => thread = "none" /\ ~repo.running
    BY DEF Account, Placed
  <2> QED BY <2>1, <2>2, <2>3, SameInbox, SameAccount
<1> QED BY <1>2, <1>3, <1>4

LEMMA popTask_Accounts ==
  ASSUME IInv, Account, popTask
  PROVE  Account'
<1>1. /\ worker.at = "pop" /\ repo.tasks # <<>> /\ history' = history /\ inbox' = inbox
      /\ caller' = caller /\ controller' = controller /\ thread' = thread
      /\ repo' = [repo EXCEPT !.tasks = Tail(@)]
      /\ worker' = [worker EXCEPT !.at = "announce", !.task = Head(repo.tasks)]
      /\ worker \in Worker /\ repo \in Repository
  BY DEF popTask, IInv, Typed, TypeOK
<1>2. PICK tasks, first, rest : /\ tasks = repo.tasks /\ first = Head(tasks) /\ rest = Tail(tasks)
                                /\ tasks \in Seq(Task) /\ tasks # <<>>
  BY <1>1 DEF Repository
<1>3. /\ repo'.tasks = rest /\ repo'.running = repo.running
      /\ repo'.nextRequestId = repo.nextRequestId
      /\ worker'.at = "announce" /\ worker'.task = first
  BY <1>1, <1>2 DEF Worker, Repository
<1>4. /\ \A i \in DOMAIN rest : i + 1 \in DOMAIN tasks /\ rest[i] = tasks[i + 1] /\ 1 < i + 1
      /\ \A i \in DOMAIN tasks : i = 1 \/ (i - 1 \in DOMAIN rest /\ rest[i - 1] = tasks[i])
      /\ 1 \in DOMAIN tasks /\ first = tasks[1] /\ first \in Task
      /\ \A i, j \in DOMAIN rest : i < j => i + 1 < j + 1
  BY <1>2, TailFacts
<1>5. ~Holding /\ worker.task = NoTask
  BY <1>1 DEF Account, Placed, Holding
<1>6. first # NoTask
  BY <1>4 DEF Task, NoTask, Ids
<1>7. \A x : InQueue(tasks, x) <=> InQueue(rest, x) \/ InHand(first, x)
  <2>1. ASSUME NEW x, InQueue(tasks, x) PROVE InQueue(rest, x) \/ InHand(first, x)
    <3>1. PICK i \in DOMAIN tasks : tasks[i].kind = "batch" /\ tasks[i].id = x
      BY <2>1 DEF InQueue
    <3>2. CASE i = 1
      BY <1>4, <3>1, <3>2 DEF InHand
    <3>3. CASE i # 1
      <4>1. i - 1 \in DOMAIN rest /\ rest[i - 1] = tasks[i]
        BY <1>4, <3>3
      <4> QED BY <3>1, <4>1 DEF InQueue
    <3> QED BY <3>2, <3>3
  <2>2. ASSUME NEW x, InHand(first, x) PROVE InQueue(tasks, x)
    BY <1>4, <2>2 DEF InHand, InQueue
  <2>3. ASSUME NEW x, InQueue(rest, x) PROVE InQueue(tasks, x)
    <3>1. PICK i \in DOMAIN rest : rest[i].kind = "batch" /\ rest[i].id = x
      BY <2>3 DEF InQueue
    <3>2. i + 1 \in DOMAIN tasks /\ rest[i] = tasks[i + 1]
      BY <1>4
    <3> QED BY <3>1, <3>2 DEF InQueue
  <2> QED BY <2>1, <2>2, <2>3
<1>8. \A x : /\ Own(x)' <=> Own(x)
             /\ Past(x)' <=> Past(x)
             /\ Lost(x)' <=> Lost(x)
             /\ ~InHand(worker.task, x)
  BY <1>1, <1>5 DEF Own, InHand, Past, Lost, NoTask
<1>9. Balanced'
  BY <1>1, <1>2, <1>3, <1>7, <1>8 DEF Account, Balanced
<1>10. Rising'
  <2>1. /\ RisingIds(tasks)
        /\ \A i \in DOMAIN tasks : \A x : Past(x) => x < tasks[i].id
        /\ repo.running \/ history.starts = 0 =>
             /\ \A i \in DOMAIN tasks : tasks[i].id < repo.nextRequestId
             /\ \A x : Past(x) => x < repo.nextRequestId
    BY <1>2 DEF Account, Rising
  <2>2. RisingIds(rest)
    <3> SUFFICES ASSUME NEW i \in DOMAIN rest, NEW j \in DOMAIN rest, i < j
                 PROVE  rest[i].id < rest[j].id
      BY DEF RisingIds
    <3>1. i + 1 \in DOMAIN tasks /\ j + 1 \in DOMAIN tasks /\ i + 1 < j + 1
          /\ rest[i] = tasks[i + 1] /\ rest[j] = tasks[j + 1]
      BY <1>4
    <3> QED BY <2>1, <3>1 DEF RisingIds
  <2>3. ASSUME NEW i \in DOMAIN rest
        PROVE  /\ first.id < rest[i].id
               /\ \A x : Past(x) => x < rest[i].id
               /\ repo.running \/ history.starts = 0 => rest[i].id < repo.nextRequestId
    <3>1. i + 1 \in DOMAIN tasks /\ rest[i] = tasks[i + 1] /\ 1 < i + 1
      BY <1>4
    <3>2. first.id < rest[i].id
      BY <1>4, <2>1, <3>1 DEF RisingIds
    <3> QED BY <2>1, <3>1, <3>2
  <2>4. /\ \A x : Past(x) => x < first.id
        /\ repo.running \/ history.starts = 0 => first.id < repo.nextRequestId
    BY <1>4, <2>1
  <2> QED BY <1>1, <1>3, <1>8, <2>1, <2>2, <2>3, <2>4 DEF Account, Rising, Holding
<1>11. Placed'
  BY <1>1, <1>3, <1>6 DEF Account, Placed, Holding
<1> QED BY <1>9, <1>10, <1>11 DEF Account

(* A batch that was written is reported; one that threw is lost.           *)
LEMMA runTask_Accounts ==
  ASSUME IInv, Account, runTask
  PROVE  Account'
<1>1. PICK end \in Ends : endTask(end)
  BY DEF runTask
<1>2. /\ worker.at = "run" /\ worker \in Worker /\ history \in History /\ Holding
      /\ inbox \in Seq(Signal)
  BY <1>1 DEF endTask, IInv, Typed, TypeOK, Account, Placed
<1>3. PICK task : task = worker.task /\ task \in Task /\ task # NoTask
  BY <1>2 DEF Worker, Holding
<1>4. /\ repo' = repo /\ thread' = thread /\ caller' = caller /\ controller' = controller
      /\ worker' = [worker EXCEPT !.at = "pop", !.task = NoTask]
  BY <1>1 DEF endTask, afterTask
<1>5. worker'.at = "pop" /\ worker'.task = NoTask
  BY <1>2, <1>4 DEF Worker
<1>6. PICK serial, lost : /\ serial = task.serial
                          /\ lost = IF task.kind = "batch" /\ end = "threw"
                                    THEN history.lostCompletions \cup {task.id}
                                    ELSE history.lostCompletions
  OBVIOUS
<1>7. history' = [history EXCEPT !.ran = serial, !.lostCompletions = lost]
  BY <1>1, <1>3, <1>6 DEF endTask, afterTask
<1>8. /\ history'.lostCompletions = lost /\ history'.requests = history.requests
      /\ history'.pushed = history.pushed /\ history'.starts = history.starts
  BY <1>2, <1>7 DEF History
<1>9. \A x : Lost(x)' <=> Lost(x) \/ (end = "threw" /\ InHand(task, x))
  BY <1>6, <1>8 DEF Lost, InHand
<1>10. /\ \A i \in DOMAIN repo.tasks : task.id < repo.tasks[i].id
       /\ \A x : Past(x) => x < task.id
       /\ task.id \in Nat
       /\ repo.running \/ history.starts = 0 => task.id < repo.nextRequestId
  BY <1>2, <1>3, IdsAreNumbers DEF Account, Rising
<1>11. /\ \A x : Done(inbox', x) <=> Done(inbox, x) \/ (end # "threw" /\ InHand(task, x))
       /\ RisingValues(inbox') /\ \A i \in DOMAIN inbox' : inbox'[i].type # "rejected"
  <2>1. CASE task.kind = "batch" /\ end # "threw"
    <3>1. PICK s \in Signal : s.type = "completed" /\ s.value = task.id
                              /\ inbox' = Append(inbox, s)
      <4>1. task.id \in 0..(MaxRequests + 1)
        BY <1>3, BoundsAssumption DEF Task, Ids
      <4>2. signal("completed", task.id) \in Signal
        BY <4>1, SignalTyped
      <4> QED BY <1>1, <1>3, <2>1, <4>2 DEF endTask, signal
    <3>2. /\ DOMAIN inbox' = 1..(Len(inbox) + 1)
          /\ \A i \in 1..Len(inbox) : inbox'[i] = inbox[i]
          /\ inbox'[Len(inbox) + 1] = s
          /\ DOMAIN inbox = 1..Len(inbox) /\ Len(inbox) \in Nat
      BY <1>2, <3>1, AppendFacts
    <3>3. /\ \A i \in DOMAIN inbox' : i \in DOMAIN inbox \/ i = Len(inbox) + 1
          /\ \A i \in DOMAIN inbox : i \in DOMAIN inbox' /\ inbox'[i] = inbox[i]
          /\ Len(inbox) + 1 \in DOMAIN inbox'
      BY <3>2
    <3>4. \A x : Done(inbox', x) <=> Done(inbox, x) \/ x = task.id
      BY <3>1, <3>2, <3>3 DEF Done
    <3>5. RisingValues(inbox')
      <4> SUFFICES ASSUME NEW i \in DOMAIN inbox', NEW j \in DOMAIN inbox', i < j,
                          inbox'[i].type = "completed", inbox'[j].type = "completed"
                   PROVE  inbox'[i].value < inbox'[j].value
        BY DEF RisingValues
      <4>1. i \in DOMAIN inbox /\ inbox'[i] = inbox[i]
        BY <3>2
      <4>2. CASE j \in DOMAIN inbox
        BY <3>3, <4>1, <4>2 DEF Account, Rising, RisingValues
      <4>3. CASE j = Len(inbox) + 1
        <5>1. Past(inbox[i].value)
          BY <4>1 DEF Past, Done
        <5> QED BY <1>10, <3>1, <3>2, <4>1, <4>3, <5>1
      <4> QED BY <3>3, <4>2, <4>3
    <3>6. \A i \in DOMAIN inbox' : inbox'[i].type # "rejected"
      BY <3>1, <3>2, <3>3 DEF Account, Placed
    <3> QED BY <2>1, <3>4, <3>5, <3>6 DEF InHand
  <2>2. CASE ~(task.kind = "batch" /\ end # "threw")
    <3>1. inbox' = inbox /\ \A x : end # "threw" => ~InHand(task, x)
      BY <1>1, <1>3, <2>2 DEF endTask, InHand
    <3> QED BY <3>1, SameInbox
  <2> QED BY <2>1, <2>2
<1>12. \A x : /\ Own(x)' <=> Own(x)
              /\ Past(x)' <=> Past(x) \/ InHand(task, x)
              /\ ~InHand(worker'.task, x)
  BY <1>4, <1>5, <1>9, <1>11 DEF Own, InHand, Past, NoTask
<1>13. Balanced'
  BY <1>3, <1>4, <1>8, <1>12 DEF Account, Balanced
<1>14. Rising'
  <2>1. \A x : InHand(task, x) => x = task.id /\ ~Past(x)
    BY <1>10 DEF InHand
  <2>2. \A x : Done(inbox', x) => ~Lost(x)'
    <3> SUFFICES ASSUME NEW x, Done(inbox', x), Lost(x)'
                 PROVE  FALSE
      OBVIOUS
    <3>1. CASE InHand(task, x)
      <4>1. ~Done(inbox, x) /\ ~Lost(x)
        BY <2>1, <3>1 DEF Past
      <4> QED BY <1>9, <1>11, <4>1
    <3>2. CASE ~InHand(task, x)
      BY <1>9, <1>11, <3>2 DEF Account, Rising
    <3> QED BY <3>1, <3>2
  <2>3. \A i \in DOMAIN repo.tasks : \A x : Past(x)' => x < repo.tasks[i].id
    BY <1>10, <1>12, <2>1 DEF Account, Rising
  <2>4. repo.running \/ history.starts = 0 => \A x : Past(x)' => x < repo.nextRequestId
    BY <1>10, <1>12, <2>1 DEF Account, Rising
  <2> QED BY <1>4, <1>5, <1>8, <1>11, <2>2, <2>3, <2>4 DEF Account, Rising, Holding
<1>15. Placed'
  BY <1>4, <1>5, <1>8, <1>11 DEF Account, Placed, Holding
<1> QED BY <1>13, <1>14, <1>15 DEF Account

(* The controller takes the oldest signal: a completion is counted once.   *)
LEMMA deliverSignal_Accounts ==
  ASSUME IInv, Account, deliverSignal
  PROVE  Account'
<1>1. /\ controller \in Controller /\ inbox \in Seq(Signal) /\ inbox # <<>>
      /\ caller[Gui].at = "idle"
      /\ controller' = handleSignal(controller, Head(inbox)) /\ inbox' = Tail(inbox)
      /\ repo' = repo /\ thread' = thread /\ worker' = worker /\ caller' = caller
      /\ history' = history
  BY DEF deliverSignal, IInv, Typed, TypeOK
<1>2. PICK s, rest : s = Head(inbox) /\ rest = Tail(inbox)
  OBVIOUS
<1>3. /\ \A i \in DOMAIN rest : i + 1 \in DOMAIN inbox /\ rest[i] = inbox[i + 1] /\ 1 < i + 1
      /\ \A i \in DOMAIN inbox : i = 1 \/ (i - 1 \in DOMAIN rest /\ rest[i - 1] = inbox[i])
      /\ 1 \in DOMAIN inbox /\ s = inbox[1] /\ s \in Signal
      /\ \A i, j \in DOMAIN rest : i < j => i + 1 < j + 1
  BY <1>1, <1>2, TailFacts
<1>4. s.type \in {"depth", "completed"}
  BY <1>3 DEF Account, Placed, Signal
<1>5. \A x : ~Own(x)
  BY <1>1 DEF Account, Placed, Own, InHand, NoTask
<1>6. \A x : Done(inbox, x) <=> Done(rest, x) \/ (s.type = "completed" /\ x = s.value)
  <2>1. ASSUME NEW x, Done(inbox, x)
        PROVE  Done(rest, x) \/ (s.type = "completed" /\ x = s.value)
    <3>1. PICK i \in DOMAIN inbox : inbox[i].type = "completed" /\ inbox[i].value = x
      BY <2>1 DEF Done
    <3>2. CASE i = 1
      BY <1>3, <3>1, <3>2
    <3>3. CASE i # 1
      <4>1. i - 1 \in DOMAIN rest /\ rest[i - 1] = inbox[i]
        BY <1>3, <3>3
      <4> QED BY <3>1, <4>1 DEF Done
    <3> QED BY <3>2, <3>3
  <2>2. ASSUME NEW x, s.type = "completed", x = s.value
        PROVE  Done(inbox, x)
    BY <1>3, <2>2 DEF Done
  <2>3. ASSUME NEW x, Done(rest, x)
        PROVE  Done(inbox, x)
    <3>1. PICK i \in DOMAIN rest : rest[i].type = "completed" /\ rest[i].value = x
      BY <2>3 DEF Done
    <3>2. i + 1 \in DOMAIN inbox /\ rest[i] = inbox[i + 1]
      BY <1>3
    <3> QED BY <3>1, <3>2 DEF Done
  <2> QED BY <2>1, <2>2, <2>3
<1>7. s.type = "completed" => ~Done(rest, s.value)
  <2> SUFFICES ASSUME s.type = "completed", NEW i \in DOMAIN rest,
                      rest[i].type = "completed", rest[i].value = s.value
               PROVE  FALSE
    BY DEF Done
  <2>1. i + 1 \in DOMAIN inbox /\ rest[i] = inbox[i + 1] /\ 1 < i + 1
    BY <1>3
  <2>2. s.value < rest[i].value
    BY <1>3, <2>1 DEF Account, Rising, RisingValues
  <2>3. s.value \in Int
    BY <1>3 DEF Signal
  <2> QED BY <2>2, <2>3
<1>8. RisingValues(rest)
  <2> SUFFICES ASSUME NEW i \in DOMAIN rest, NEW j \in DOMAIN rest, i < j,
                      rest[i].type = "completed", rest[j].type = "completed"
               PROVE  rest[i].value < rest[j].value
    BY DEF RisingValues
  <2>1. i + 1 \in DOMAIN inbox /\ j + 1 \in DOMAIN inbox /\ i + 1 < j + 1
        /\ rest[i] = inbox[i + 1] /\ rest[j] = inbox[j + 1]
    BY <1>3
  <2> QED BY <2>1 DEF Account, Rising, RisingValues
<1>9. \A x : /\ Own(x)' <=> Own(x)
             /\ Lost(x)' <=> Lost(x)
             /\ Done(inbox', x) => Done(inbox, x)
             /\ Past(x)' => Past(x)
  BY <1>1, <1>2, <1>6 DEF Own, InHand, Lost, Past
<1>10. Balanced'
  <2>1. CASE s.type = "depth"
    <3>1. controller' = controller
      BY <1>1, <1>2, <2>1 DEF handleSignal
    <3>2. \A x : Past(x)' <=> Past(x)
      BY <1>1, <1>2, <1>6, <1>9, <2>1 DEF Past
    <3> QED BY <1>1, <1>9, <3>1, <3>2 DEF Account, Balanced, InHand
  <2>2. CASE s.type = "completed"
    <3>1. PICK v, left, n : v = s.value /\ left = controller.pending \ {v}
                            /\ n = controller.completed + 1
      OBVIOUS
    <3>2. controller' = [controller EXCEPT !.pending = left, !.completed = n]
      BY <1>1, <1>2, <2>2, <3>1 DEF handleSignal
    <3>3. /\ controller'.pending = left /\ controller'.completed = n
          /\ controller'.accepted = controller.accepted
          /\ controller'.rejected = controller.rejected
      BY <1>1, <3>2 DEF Controller
    <3>4. Done(inbox, v) /\ ~Lost(v) /\ ~Done(rest, v)
      BY <1>6, <1>7, <2>2, <3>1 DEF Account, Rising
    <3>5. v \in controller.pending
      BY <1>5, <3>4 DEF Account, Balanced, Past
    <3>6. IsFiniteSet(controller.pending)
      BY PendingFinite DEF IInv, Typed
    <3>7. Cardinality(left) = Cardinality(controller.pending) - 1
          /\ Cardinality(left) \in Nat
      BY <3>1, <3>5, <3>6, FS_RemoveElement, FS_CardinalityType
    <3>8. controller.accepted = n + Cardinality(left)
      <4>1. controller.accepted = controller.completed + Cardinality(controller.pending)
        BY DEF Account, Balanced
      <4>2. controller.completed \in Nat /\ Cardinality(controller.pending) \in Nat
        BY <1>1, <3>6, FS_CardinalityType DEF Controller
      <4> QED BY <3>1, <3>7, <4>1, <4>2
    <3>9. ~InQueue(repo.tasks, v) /\ ~InHand(worker.task, v)
      <4>1. Past(v) /\ v \in Nat
        BY <3>4, IdsAreNumbers DEF Past
      <4>2. ASSUME InQueue(repo.tasks, v) PROVE FALSE
        <5>1. PICK i \in DOMAIN repo.tasks : repo.tasks[i].id = v
          BY <4>2 DEF InQueue
        <5>2. v < repo.tasks[i].id
          BY <4>1 DEF Account, Rising
        <5> QED BY <4>1, <5>1, <5>2
      <4>3. ASSUME InHand(worker.task, v) PROVE FALSE
        <5>1. Holding /\ worker.task.id = v
          BY <4>3 DEF InHand, Holding, NoTask
        <5>2. v < worker.task.id
          BY <4>1, <5>1 DEF Account, Rising
        <5> QED BY <4>1, <5>1, <5>2
      <4> QED BY <4>2, <4>3
    <3>10. \A x : Past(x)' <=> (Past(x) /\ x # v)
      BY <1>1, <1>2, <1>6, <1>9, <2>2, <3>1, <3>4 DEF Past
    <3>11. \A x : x \in left
              <=> InQueue(repo.tasks, x) \/ InHand(worker.task, x) \/ (Past(x) /\ x # v)
      BY <1>5, <3>1, <3>9 DEF Account, Balanced
    <3> QED BY <1>1, <1>5, <1>9, <3>3, <3>8, <3>10, <3>11 DEF Account, Balanced, InHand
  <2> QED BY <1>4, <2>1, <2>2
<1>11. Rising'
  BY <1>1, <1>2, <1>8, <1>9 DEF Account, Rising, Holding
<1>12. Placed'
  BY <1>1, <1>2, <1>3 DEF Account, Placed, Holding
<1> QED BY <1>10, <1>11, <1>12 DEF Account

LEMMA AccountStep ==
  ASSUME AsMainUsesIt, IInv, IInv', Account, [Next]_vars
  PROVE  Account'
<1>1. \A t \in Threads : t = Gui
  BY DEF AsMainUsesIt
<1>2. CASE start \/ shutdown \/ Stopping \/ UNCHANGED vars
  BY <1>2, QuietAccounts
<1>3. CASE \E t \in Threads, kind \in Kinds : enqueueTask(t, kind)
  BY <1>1, <1>3, enqueueTask_Accounts
<1>4. CASE \E t \in Threads : rejectTask(t) \/ InCall(t)
  <2>1. rejectTask(Gui) \/ announceDepth(Gui) \/ scheduleWakeup(Gui) \/ postWakeup(Gui)
    BY <1>1, <1>4 DEF InCall
  <2> QED BY <2>1, rejectTask_Accounts, QuietAccounts, wakeup_Accounts
<1>5. CASE Processing
  BY <1>5, QuietAccounts, popTask_Accounts, runTask_Accounts DEF Processing
<1>6. CASE deliverSignal
  BY <1>6, deliverSignal_Accounts
<1> QED BY <1>2, <1>3, <1>4, <1>5, <1>6 DEF Next

LEMMA AccountImplies ==
  ASSUME IInv, Account
  PROVE  BatchesAccounted
<1> SUFFICES ASSUME caller[Gui].at = "idle"
             PROVE  /\ controller.pending = InFlight \cup history.lostCompletions
                    /\ controller.accepted = controller.completed
                                             + Cardinality(controller.pending)
                    /\ controller.rejected = history.requests - history.pushed
  BY DEF BatchesAccounted
<1>1. \A x : ~Own(x)
  BY DEF Account, Placed, Own, InHand, NoTask
<1>2. \A x : x \in InFlight <=> InQueue(repo.tasks, x) \/ InHand(worker.task, x) \/ Done(inbox, x)
  BY DEF InFlight, InQueue, InHand, Done
<1>3. \A x : x \in controller.pending <=> x \in InFlight \/ Lost(x)
  BY <1>1, <1>2 DEF Account, Balanced, Past
<1>4. controller.pending = InFlight \cup history.lostCompletions
  BY <1>3 DEF Lost
<1> QED BY <1>4 DEF Account, Balanced

-----------------------------------------------------------------------------
(* Theorems *)

(* The inductive invariant holds in every reachable state of the           *)
(* repository.                                                             *)
THEOREM Invariance == Spec => []IInv
  <1>1. Init => IInv
    BY InitHolds
  <1>2. IInv /\ [Next]_vars => IInv'
    BY NextHolds
  <1> QED BY <1>1, <1>2, PTL DEF Spec

(* Types, and the queue never exceeds queueCapacity, whichever threads     *)
(* submit at once (enqueueTask checks and pushes under one lock).          *)
THEOREM TypeCorrect == Spec => []TypeOK
  <1>1. IInv => TypeOK
    BY DEF IInv, Typed
  <1> QED BY <1>1, Invariance, PTL

(* Accepted tasks run once each in the order of acceptance, over any       *)
(* number of shutdowns and restarts: shutdown never drops one.             *)
THEOREM AcceptedNeverLost == Spec => []NothingLost
  <1>1. IInv => NothingLost
    BY DEF IInv
  <1> QED BY <1>1, Invariance, PTL

(* No wakeup is lost between enqueueTask, scheduleWakeup and processQueue:  *)
(* a queued task always has somebody on the way to it.                     *)
THEOREM AlwaysWoken == Spec => []WakeupOnTheWay
  <1>1. IInv => WakeupOnTheWay
    <2> SUFFICES ASSUME IInv, repo.tasks # <<>>
                 PROVE  \/ worker.at # "idle" \/ events # <<>>
                        \/ \E t \in Threads : caller[t].at
                             \in {"announce", "wakeup", "post", "drain"}
      BY DEF WakeupOnTheWay
    <2>1. CASE repo.accepting
      BY <2>1 DEF IInv, Awake
    <2>2. CASE ~repo.accepting
      <3>1. \/ caller[Gui].at = "drain" \/ Has(events, "drain") \/ worker.draining
        BY <2>2 DEF IInv, Session
      <3>2. worker.draining => worker.at # "idle"
        BY DEF IInv, Session
      <3>3. Has(events, "drain") => events # <<>>
        BY HasNone
      <3> QED BY <3>1, <3>2, <3>3, GuiAssumption
    <2> QED BY <2>1, <2>2
  <1> QED BY <1>1, Invariance, PTL

(* Used as main.cpp uses it, the controller's pending batches are always   *)
(* those queued, being written or reported, and those whose task threw,    *)
(* and its counters agree (the handlers of AppController).                 *)
THEOREM BatchesAlwaysAccounted ==
  ASSUME AsMainUsesIt
  PROVE  Spec => []BatchesAccounted
  <1>1. Init => Account
    BY AccountInit
  <1>2. IInv /\ IInv' /\ Account /\ [Next]_vars => Account'
    BY AccountStep
  <1>3. IInv /\ Account => BatchesAccounted
    BY AccountImplies
  <1> QED BY <1>1, <1>2, <1>3, Invariance, PTL DEF Spec
=============================================================================
