-------------------------- MODULE EventLoop_proofs --------------------------
(***************************************************************************)
(* Proofs about EventLoop, for any number of threads, jobs and inline      *)
(* calls.                                                                  *)
(***************************************************************************)
EXTENDS EventLoop, TLAPS

(* What the position of the loop thread says about its batch and its task: *)
(* the part of the invariant that makes JobOrder inductive (Swap must not  *)
(* overwrite a batch; poll must not be reached with one left).             *)
LoopInv ==
    /\ loop \in {"start", "poll", "swap"} => swapped = <<>>
    /\ loop = "body" /\ ~IsJob(current) => swapped = <<>>
    /\ loop \in {"start", "poll", "swap", "drain", "exited"} => ~IsJob(current)

-----------------------------------------------------------------------------

LEMMA JobIsTask == Job \subseteq Task
  BY DEF Job, Task

LEMMA ConstTypes == NoTask \in Task /\ IoTask \in Task /\ Loop \in Callers
                    /\ ~IsJob(NoTask) /\ ~IsJob(IoTask)
  BY DEF NoTask, IoTask, Task, Callers, IsJob

LEMMA TypeInit == Init => TypeOK
<1> SUFFICES ASSUME Init PROVE TypeOK
  OBVIOUS
<1>1. job_queue \in Seq(Job) /\ swapped \in Seq(Job)
  BY DEF Init
<1>2. current \in Task
  BY ConstTypes DEF Init
<1>3. caller[Loop] = "idle"
  BY ConstTypes DEF Init
<1> QED
  BY <1>1, <1>2, <1>3 DEF Init, TypeOK

LEMMA TypeStep == TypeOK /\ [Next]_vars => TypeOK'
<1> SUFFICES ASSUME TypeOK, [Next]_vars PROVE TypeOK'
  OBVIOUS
<1> USE JobIsTask, ConstTypes, BoundsAreNat
<1>1. ASSUME NEW x \in Callers, NEW kind \in {"soon", "get"}, Emplace(x, kind),
             x = Loop => kind = "soon",
             prom' \in [Callers -> {"unset", "value", "exception"}],
             mine' \in [Callers -> Nat]
      PROVE  TypeOK'
  <2>1. [id |-> ticket + 1, kind |-> kind, from |-> x] \in Job
    BY DEF TypeOK, Job
  <2>2. caller' \in [Callers -> {"idle", "soon", "get", "wait", "join", "gone"}]
        /\ caller'[Loop] \in {"idle", "soon"}
    BY <1>1 DEF TypeOK, Emplace
  <2> QED
    BY <1>1, <2>1, <2>2 DEF TypeOK, Emplace, loopVars
<1>2. ASSUME NEW x \in Callers, call(x) \/ call_soon(x) \/ call_get(x)
      PROVE  TypeOK'
  <2>1. CASE RunInline
    BY <2>1 DEF TypeOK, RunInline, queueVars, callerVars
  <2>2. CASE Emplace(x, "soon") /\ UNCHANGED <<prom, mine>>
    BY <2>2, <1>1 DEF TypeOK
  <2>3. CASE EmplaceGet(x) /\ x # Loop
    BY <2>3, <1>1 DEF TypeOK, EmplaceGet
  <2> QED
    BY <1>2, <2>1, <2>2, <2>3 DEF call, call_soon, call_get, in_event_loop
<1>3. ASSUME NEW x \in Callers, event_active(x) PROVE TypeOK'
  BY <1>3 DEF TypeOK, event_active, queueVars, loopVars
<1>4. ASSUME NEW x \in Callers, future_get(x) PROVE TypeOK'
  BY <1>4 DEF TypeOK, future_get, queueVars, loopVars
<1>5. ASSUME NEW x \in Callers, Release(x) PROVE TypeOK'
  <2>1. x # Loop
    BY <1>5, LoopIsNoThread DEF Release
  <2> QED
    BY <1>5, <2>1 DEF TypeOK, Release, queueVars, loopVars
<1>6. ASSUME NEW x \in Callers, Join(x) PROVE TypeOK'
  BY <1>6 DEF TypeOK, Join, queueVars, loopVars
<1>7. CASE EnterLoop \/ DispatchWaker \/ DispatchIo \/ BatchDone \/ LoopExit
  BY <1>7 DEF TypeOK, EnterLoop, DispatchWaker, DispatchIo, BatchDone, LoopExit,
              queueVars, callerVars
<1>8. CASE Swap
  BY <1>8 DEF TypeOK, Swap, callerVars
<1>9. CASE RunFront
  BY <1>9 DEF TypeOK, RunFront, queueVars, callerVars
<1>10. ASSUME Return \/ Throw PROVE TypeOK'
  <2>1. current.from \in Callers
    BY DEF TypeOK, Task
  <2>2. current' \in Task
    BY <1>10 DEF TypeOK, Return, Throw
  <2>3. prom' \in [Callers -> {"unset", "value", "exception"}]
    BY <1>10, <2>1 DEF TypeOK, Return, Throw, SetPromise
  <2> QED
    BY <1>10, <2>2, <2>3 DEF TypeOK, Return, Throw, queueVars
<1>11. CASE UNCHANGED vars
  BY <1>11 DEF TypeOK, vars
<1> QED
  BY <1>2, <1>3, <1>4, <1>5, <1>6, <1>7, <1>8, <1>9, <1>10, <1>11
     DEF Next, LoopStep, CallerStep

(* Every variable keeps its type: in particular the promise that SetPromise *)
(* writes belongs to a caller, whatever job is running.                     *)
THEOREM TypeCorrect == Spec => []TypeOK
  BY TypeInit, TypeStep, PTL DEF Spec

-----------------------------------------------------------------------------
(* The waker.                                                              *)

LEMMA WakerStep == TypeOK /\ NoLostWakeup /\ [Next]_vars => NoLostWakeup'
<1> SUFFICES ASSUME TypeOK, NoLostWakeup, [Next]_vars PROVE NoLostWakeup'
  OBVIOUS
<1> USE DEF TypeOK
<1>1. ASSUME NEW x \in Callers, call(x) \/ call_soon(x) \/ call_get(x)
      PROVE  NoLostWakeup'
  <2>1. CASE RunInline
    BY <2>1 DEF NoLostWakeup, RunInline, queueVars, callerVars
  <2>2. ASSUME NEW kind \in {"soon", "get"}, Emplace(x, kind)
        PROVE  NoLostWakeup'
    <3>1. caller'[x] \in {"soon", "get"}
      BY <2>2 DEF Emplace
    <3> QED
      BY <3>1 DEF NoLostWakeup
  <2> QED
    BY <1>1, <2>1, <2>2 DEF call, call_soon, call_get, EmplaceGet
<1>2. ASSUME NEW x \in Callers, event_active(x) PROVE NoLostWakeup'
  BY <1>2 DEF NoLostWakeup, event_active
<1>3. ASSUME NEW x \in Callers, future_get(x) \/ Release(x) \/ Join(x)
      PROVE  NoLostWakeup'
  <2>1. \A y \in Callers : caller[y] \in {"soon", "get"} => caller'[y] = caller[y]
    BY <1>3 DEF future_get, Release, Join
  <2>2. UNCHANGED <<job_queue, waker, loop>>
    BY <1>3 DEF future_get, Release, Join, queueVars, loopVars
  <2> QED
    BY <2>1, <2>2 DEF NoLostWakeup
<1>4. CASE DispatchWaker
  BY <1>4 DEF NoLostWakeup, DispatchWaker
<1>5. CASE Swap
  BY <1>5 DEF NoLostWakeup, Swap
<1>6. CASE EnterLoop \/ DispatchIo \/ RunFront \/ BatchDone \/ Return \/ Throw \/ LoopExit
  BY <1>6 DEF NoLostWakeup, EnterLoop, DispatchIo, RunFront, BatchDone, Return, Throw,
              LoopExit, queueVars, callerVars
<1>7. CASE UNCHANGED vars
  BY <1>7 DEF NoLostWakeup, vars
<1> QED
  BY <1>1, <1>2, <1>3, <1>4, <1>5, <1>6, <1>7 DEF Next, LoopStep, CallerStep

(* No wake-up is lost between the mutex of call_soon and event_active,     *)
(* however many threads are between the two.                               *)
THEOREM WakeupKept == Spec => []NoLostWakeup
<1>1. Init => NoLostWakeup
  BY DEF Init, NoLostWakeup
<1> QED
  BY <1>1, TypeCorrect, WakerStep, PTL DEF Spec

-----------------------------------------------------------------------------
(* The two queues.                                                         *)

LEMMA LoopStepInv == TypeOK /\ LoopInv /\ [Next]_vars => LoopInv'
<1> SUFFICES ASSUME TypeOK, LoopInv, [Next]_vars PROVE LoopInv'
  OBVIOUS
<1> USE ConstTypes DEF TypeOK, LoopInv
<1>1. ASSUME NEW x \in Callers, CallerStep(x) PROVE UNCHANGED <<swapped, loop, current>>
  BY <1>1 DEF CallerStep, call, call_soon, call_get, EmplaceGet, Emplace,
              RunInline, event_active, future_get, Release, Join, loopVars
<1>2. CASE EnterLoop \/ DispatchWaker
  BY <1>2 DEF EnterLoop, DispatchWaker
<1>3. CASE DispatchIo
  BY <1>3 DEF DispatchIo
<1>4. CASE Swap
  BY <1>4 DEF Swap
<1>5. CASE RunFront
  <2>1. Head(swapped) \in Job
    BY <1>5 DEF RunFront
  <2>2. IsJob(current')
    BY <1>5, <2>1 DEF RunFront, Job, IsJob
  <2> QED
    BY <1>5, <2>2 DEF RunFront
<1>6. CASE BatchDone
  BY <1>6 DEF BatchDone
<1>7. CASE Return
  BY <1>7 DEF Return
<1>8. CASE Throw
  BY <1>8 DEF Throw
<1>9. CASE LoopExit
  BY <1>9 DEF LoopExit
<1>10. CASE UNCHANGED <<swapped, loop, current>>
  BY <1>10 DEF IsJob
<1> QED
  BY <1>1, <1>2, <1>3, <1>4, <1>5, <1>6, <1>7, <1>8, <1>9, <1>10
     DEF Next, LoopStep, vars

LEMMA OrderStep == TypeOK /\ LoopInv /\ JobOrder /\ [Next]_vars => JobOrder'
<1> SUFFICES ASSUME TypeOK, LoopInv, JobOrder, [Next]_vars PROVE JobOrder'
  OBVIOUS
<1> USE ConstTypes DEF TypeOK
<1>1. ASSUME NEW x \in Callers, NEW kind \in {"soon", "get"}, Emplace(x, kind)
      PROVE  JobOrder'
  <2> DEFINE j == [id |-> ticket + 1, kind |-> kind, from |-> x]
  <2>1. j \in Job
    BY DEF Job
  <2>2. job_queue' = Append(job_queue, j) /\ ticket' = ticket + 1
        /\ UNCHANGED <<swapped, current, started>>
    BY <1>1 DEF Emplace, loopVars
  <2>3. Len(job_queue') = Len(job_queue) + 1
    BY <2>1, <2>2
  <2>4. ASSUME NEW i \in 1..Len(job_queue')
        PROVE  job_queue'[i].id = started + Len(swapped) + i
    <3>1. CASE i = Len(job_queue')
      BY <3>1, <2>1, <2>2, <2>3 DEF JobOrder
    <3>2. CASE i # Len(job_queue')
      <4>1. i \in 1..Len(job_queue) /\ job_queue'[i] = job_queue[i]
        BY <3>2, <2>1, <2>2, <2>3
      <4> QED
        BY <4>1 DEF JobOrder
    <3> QED
      BY <3>1, <3>2
  <2>5. ticket' = started + Len(swapped) + Len(job_queue')
    BY <2>2, <2>3 DEF JobOrder
  <2> QED
    BY <2>2, <2>4, <2>5 DEF JobOrder, IsJob
<1>2. ASSUME NEW x \in Callers, CallerStep(x) PROVE JobOrder'
  <2>1. CASE UNCHANGED <<job_queue, ticket, swapped, current, started>>
    BY <2>1 DEF JobOrder, IsJob
  <2>2. CASE Emplace(x, "soon") \/ Emplace(x, "get")
    BY <2>2, <1>1
  <2> QED
    BY <1>2, <2>1, <2>2
       DEF CallerStep, call, call_soon, call_get, EmplaceGet, RunInline,
           event_active, future_get, Release, Join, queueVars, loopVars
<1>3. CASE Swap
  <2>1. swapped = <<>> /\ ~IsJob(current)
    BY <1>3 DEF Swap, LoopInv
  <2>2. swapped' = job_queue /\ job_queue' = <<>>
        /\ UNCHANGED <<ticket, current, started>>
    BY <1>3 DEF Swap
  <2> QED
    BY <2>1, <2>2 DEF JobOrder, IsJob
<1>4. CASE RunFront
  <2>1. swapped # <<>> /\ current' = Head(swapped) /\ swapped' = Tail(swapped)
        /\ started' = started + 1 /\ UNCHANGED <<job_queue, ticket>>
    BY <1>4 DEF RunFront, queueVars
  <2>2. Len(swapped') = Len(swapped) - 1 /\ Len(swapped) \in Nat \ {0}
    BY <2>1
  <2>3. \A i \in 1..Len(swapped') : swapped'[i] = swapped[i + 1]
    BY <2>1
  <2>4. \A i \in 1..Len(swapped') : swapped'[i].id = started' + i
    BY <2>1, <2>2, <2>3 DEF JobOrder
  <2>5. \A i \in 1..Len(job_queue') :
            job_queue'[i].id = started' + Len(swapped') + i
    BY <2>1, <2>2 DEF JobOrder
  <2>6. current'.id = started'
    BY <2>1, <2>2 DEF JobOrder
  <2>7. ticket' = started' + Len(swapped') + Len(job_queue')
    BY <2>1, <2>2 DEF JobOrder
  <2> QED
    BY <2>4, <2>5, <2>6, <2>7 DEF JobOrder
<1>5. CASE EnterLoop \/ DispatchWaker \/ DispatchIo \/ BatchDone
           \/ Return \/ Throw \/ LoopExit
  <2>1. UNCHANGED <<job_queue, ticket, swapped, started>>
    BY <1>5 DEF EnterLoop, DispatchWaker, DispatchIo, BatchDone, Return, Throw,
                LoopExit, queueVars
  <2>2. current' = current \/ ~IsJob(current')
    BY <1>5 DEF EnterLoop, DispatchWaker, DispatchIo, BatchDone, Return, Throw, LoopExit
  <2> QED
    BY <2>1, <2>2 DEF JobOrder
<1>6. CASE UNCHANGED vars
  BY <1>6 DEF JobOrder, IsJob, vars
<1> QED
  BY <1>2, <1>3, <1>4, <1>5, <1>6 DEF Next, LoopStep

(* Jobs are started in the order in which they were emplaced, none lost    *)
(* and none twice, through any number of swaps.                            *)
THEOREM JobsInOrder == Spec => [](LoopInv /\ JobOrder)
<1>1. Init => LoopInv /\ JobOrder
  BY ConstTypes DEF Init, LoopInv, JobOrder
<1> QED
  BY <1>1, TypeCorrect, LoopStepInv, OrderStep, PTL DEF Spec

-----------------------------------------------------------------------------
(* The promise in the frame of call_get.                                   *)

(* How the steps change the set of tasks.                                  *)
LEMMA TasksAreTasks == TypeOK => Tasks \subseteq Task
  BY JobIsTask DEF TypeOK, Tasks, Range

LEMMA TasksEmplace ==
    ASSUME TypeOK, NEW x \in Callers, NEW kind \in {"soon", "get"}, Emplace(x, kind)
    PROVE  Tasks' = Tasks \cup {[id |-> ticket + 1, kind |-> kind, from |-> x]}
<1> DEFINE j == [id |-> ticket + 1, kind |-> kind, from |-> x]
<1>1. j \in Job
  BY DEF Job, TypeOK
<1>2. job_queue' = Append(job_queue, j) /\ UNCHANGED <<swapped, current>>
  BY DEF Emplace, loopVars
<1>3. Range(job_queue') = Range(job_queue) \cup {j}
  <2> HIDE DEF j
  <2>1. Len(job_queue') = Len(job_queue) + 1 /\ job_queue'[Len(job_queue) + 1] = j
        /\ \A i \in 1..Len(job_queue) : job_queue'[i] = job_queue[i]
    BY <1>1, <1>2 DEF TypeOK
  <2>2. DOMAIN job_queue = 1..Len(job_queue) /\ DOMAIN job_queue' = 1..Len(job_queue')
        /\ Len(job_queue) \in Nat
    BY <1>1, <1>2 DEF TypeOK
  <2>3. Range(job_queue') \subseteq Range(job_queue) \cup {j}
    BY <2>1, <2>2 DEF Range
  <2>4. Range(job_queue) \cup {j} \subseteq Range(job_queue')
    BY <2>1, <2>2 DEF Range
  <2> QED
    BY <2>3, <2>4
<1> QED
  BY <1>2, <1>3 DEF Tasks

LEMMA TasksSwap ==
    ASSUME TypeOK, LoopInv, Swap
    PROVE  Tasks' = Tasks
<1>1. swapped = <<>> /\ swapped' = job_queue /\ job_queue' = <<>> /\ current' = current
  BY DEF LoopInv, Swap
<1>2. Range(swapped) = {} /\ Range(job_queue') = {} /\ Range(swapped') = Range(job_queue)
  BY <1>1 DEF Range
<1> QED
  BY <1>1, <1>2 DEF Tasks

LEMMA TasksRunFront ==
    ASSUME TypeOK, RunFront
    PROVE  Tasks' \subseteq Tasks /\ Tasks \subseteq Tasks' \cup {current}
<1>1. swapped # <<>> /\ current' = Head(swapped) /\ swapped' = Tail(swapped)
      /\ job_queue' = job_queue
  BY DEF RunFront, queueVars
<1>2. /\ Len(swapped') = Len(swapped) - 1 /\ Len(swapped) \in Nat \ {0}
      /\ \A i \in 1..Len(swapped') : swapped'[i] = swapped[i + 1]
      /\ current' = swapped[1]
  BY <1>1 DEF TypeOK
<1>3. Range(swapped') \cup {current'} = Range(swapped)
  <2>1. \A i \in 1..Len(swapped) : i = 1 \/ (i - 1 \in 1..Len(swapped') /\ swapped[i] = swapped'[i-1])
    BY <1>2
  <2>2. DOMAIN swapped = 1..Len(swapped) /\ DOMAIN swapped' = 1..Len(swapped')
    BY <1>1 DEF TypeOK
  <2>3. Range(swapped') \cup {current'} \subseteq Range(swapped)
    BY <1>2, <2>2 DEF Range
  <2>4. ASSUME NEW task \in Range(swapped)
        PROVE  task \in Range(swapped') \cup {current'}
    <3>1. PICK i \in 1..Len(swapped) : task = swapped[i]
      BY <2>2 DEF Range
    <3>2. CASE i = 1
      BY <3>1, <3>2, <1>2
    <3>3. CASE i # 1
      <4>1. i - 1 \in DOMAIN swapped' /\ task = swapped'[i - 1]
        BY <3>1, <3>3, <2>1, <2>2
      <4> QED
        BY <4>1 DEF Range
    <3> QED
      BY <3>2, <3>3
  <2> QED
    BY <2>3, <2>4
<1> QED
  BY <1>1, <1>3 DEF Tasks

(* The running job is the only one that refers to its caller's promise.    *)
LEMMA OneJobPerFrame ==
    ASSUME TypeOK, JobOrder, CapturedFrameAlive,
           current.kind = "get",
           NEW task \in Range(job_queue) \cup Range(swapped), task.kind = "get"
    PROVE  task.from # current.from
<1>1. current.id = started
  BY DEF JobOrder, IsJob
<1>2. task.id > started
  <2>1. started \in Nat /\ Len(swapped) \in Nat
    BY DEF TypeOK
  <2>2. CASE task \in Range(swapped)
    <3>1. PICK i \in 1..Len(swapped) : task = swapped[i]
      BY <2>2 DEF Range, TypeOK
    <3> QED
      BY <3>1, <2>1 DEF JobOrder
  <2>3. CASE task \in Range(job_queue)
    <3>1. PICK i \in 1..Len(job_queue) : task = job_queue[i]
      BY <2>3 DEF Range, TypeOK
    <3> QED
      BY <3>1, <2>1 DEF JobOrder
  <2> QED
    BY <2>2, <2>3
<1>3. FrameAlive(task) /\ FrameAlive(current)
  BY DEF CapturedFrameAlive, Tasks
<1> QED
  BY <1>1, <1>2, <1>3 DEF FrameAlive, TypeOK

LEMMA FrameStep ==
    TypeOK /\ LoopInv /\ JobOrder /\ CapturedFrameAlive /\ [Next]_vars
        => CapturedFrameAlive'
<1> SUFFICES ASSUME TypeOK, LoopInv, JobOrder, CapturedFrameAlive, [Next]_vars
             PROVE  CapturedFrameAlive'
  OBVIOUS
<1> USE ConstTypes, TasksAreTasks
<1>a. \A task \in Tasks : task.from \in Callers
  BY DEF Task
<1>1. ASSUME NEW x \in Callers, NEW kind \in {"soon", "get"},
             MayCall(x), Emplace(x, kind),
             kind = "get" => /\ prom' = [prom EXCEPT ![x] = "unset"]
                             /\ mine' = [mine EXCEPT ![x] = ticket + 1],
             kind = "soon" => UNCHANGED <<prom, mine>>
      PROVE  CapturedFrameAlive'
  <2> DEFINE j == [id |-> ticket + 1, kind |-> kind, from |-> x]
  <2>1. Tasks' = Tasks \cup {j}
    BY <1>1, TasksEmplace
  <2>2. caller' = [caller EXCEPT ![x] = kind]
    BY <1>1 DEF Emplace
  <2>3. ASSUME NEW task \in Tasks, task.kind = "get"
        PROVE  /\ caller'[task.from] \in {"get", "wait"}
               /\ prom'[task.from] = "unset"
               /\ mine'[task.from] = task.id
    <3>1. caller[task.from] \in {"get", "wait"} /\ prom[task.from] = "unset"
          /\ mine[task.from] = task.id
      BY <2>3 DEF CapturedFrameAlive, FrameAlive
    <3>2. task.from # x
      BY <3>1, <1>1 DEF MayCall
    <3> QED
      BY <1>1, <1>a, <2>2, <3>1, <3>2 DEF TypeOK
  <2>4. kind = "get" => /\ caller'[x] \in {"get", "wait"}
                        /\ prom'[x] = "unset"
                        /\ mine'[x] = ticket + 1
    BY <1>1, <2>2 DEF TypeOK
  <2> QED
    BY <2>1, <2>3, <2>4 DEF CapturedFrameAlive, FrameAlive
<1>2. ASSUME NEW x \in Callers, call(x) \/ call_soon(x) \/ call_get(x)
      PROVE  CapturedFrameAlive'
  <2>1. CASE RunInline
    BY <2>1 DEF RunInline, CapturedFrameAlive, FrameAlive, Tasks, queueVars, callerVars
  <2> QED
    BY <1>1, <1>2, <2>1 DEF call, call_soon, call_get, EmplaceGet
<1>3. ASSUME NEW x \in Callers,
             event_active(x) \/ future_get(x) \/ Release(x) \/ Join(x)
      PROVE  CapturedFrameAlive'
  <2>1. Tasks' = Tasks /\ UNCHANGED <<prom, mine>>
    BY <1>3 DEF event_active, future_get, Release, Join, Tasks, queueVars, loopVars
  <2>2. \A y \in Callers : caller[y] \in {"get", "wait"} /\ prom[y] = "unset"
                           => caller'[y] \in {"get", "wait"}
    BY <1>3 DEF event_active, future_get, Release, Join, TypeOK
  <2> QED
    BY <1>a, <2>1, <2>2 DEF CapturedFrameAlive, FrameAlive
<1>4. CASE Swap
  <2>1. Tasks' = Tasks /\ UNCHANGED <<caller, prom, mine>>
    BY <1>4, TasksSwap DEF Swap, callerVars
  <2> QED
    BY <2>1 DEF CapturedFrameAlive, FrameAlive
<1>5. CASE RunFront
  <2>1. Tasks' \subseteq Tasks /\ UNCHANGED <<caller, prom, mine>>
    BY <1>5, TasksRunFront DEF RunFront, callerVars
  <2> QED
    BY <2>1 DEF CapturedFrameAlive, FrameAlive
<1>6. CASE Return \/ Throw
  <2>1. UNCHANGED <<job_queue, swapped, caller, mine>>
    BY <1>6 DEF Return, Throw, queueVars
  <2>2. CASE current.kind = "get"
    <3>1. current' = NoTask
      BY <1>6, <2>2 DEF Return, Throw
    <3>2. \A y \in Callers : y # current.from => prom'[y] = prom[y]
      BY <1>6, <2>2 DEF Return, Throw, SetPromise, TypeOK
    <3>3. ASSUME NEW task \in Range(job_queue) \cup Range(swapped), task.kind = "get"
          PROVE  prom'[task.from] = prom[task.from]
      BY <2>2, <3>2, <3>3, <1>a, OneJobPerFrame DEF Tasks
    <3>4. Tasks' = Range(job_queue) \cup Range(swapped) \cup {NoTask}
      BY <2>1, <3>1 DEF Tasks
    <3> QED
      BY <2>1, <3>3, <3>4 DEF CapturedFrameAlive, FrameAlive, Tasks, NoTask
  <2>3. CASE current.kind # "get"
    <3>1. prom' = prom /\ (current' = current \/ current' = NoTask)
      BY <1>6, <2>3 DEF Return, Throw, SetPromise
    <3>2. Tasks' \subseteq Tasks \cup {NoTask}
      BY <2>1, <3>1 DEF Tasks
    <3> QED
      BY <2>1, <3>1, <3>2 DEF CapturedFrameAlive, FrameAlive, NoTask
  <2> QED
    BY <2>2, <2>3
<1>7. CASE EnterLoop \/ DispatchWaker \/ DispatchIo \/ BatchDone \/ LoopExit
  <2>1. UNCHANGED <<job_queue, swapped, caller, prom, mine>>
        /\ (current' = current \/ current' = IoTask)
    BY <1>7 DEF EnterLoop, DispatchWaker, DispatchIo, BatchDone, LoopExit, queueVars, callerVars
  <2>2. Tasks' \subseteq Tasks \cup {IoTask}
    BY <2>1 DEF Tasks
  <2> QED
    BY <2>1, <2>2 DEF CapturedFrameAlive, FrameAlive, IoTask
<1>8. CASE UNCHANGED vars
  BY <1>8 DEF vars, CapturedFrameAlive, FrameAlive, Tasks
<1> QED
  BY <1>2, <1>3, <1>4, <1>5, <1>6, <1>7, <1>8 DEF Next, LoopStep, CallerStep

(* The closure that call_get hands to the loop thread never outlives the   *)
(* stack frame it refers to, and sets its promise at most once.            *)
THEOREM FramesOutliveJobs == Spec => []CapturedFrameAlive
<1>1. Init => CapturedFrameAlive
  BY DEF Init, CapturedFrameAlive, FrameAlive, Tasks, Range, NoTask
<1> QED
  BY <1>1, TypeCorrect, JobsInOrder, FrameStep, PTL DEF Spec

-----------------------------------------------------------------------------
(* The waiting caller.                                                     *)

LEMMA WaiterStep ==
    TypeOK /\ LoopInv /\ WaiterHasJob /\ [Next]_vars => WaiterHasJob'
<1> SUFFICES ASSUME TypeOK, LoopInv, WaiterHasJob, [Next]_vars,
                    NEW y \in Callers,
                    caller'[y] \in {"get", "wait"}, prom'[y] = "unset"
             PROVE  GetJob(y)' \in Tasks'
  BY DEF WaiterHasJob
<1> DEFINE Waiting == caller[y] \in {"get", "wait"} /\ prom[y] = "unset"
<1>a. Waiting => GetJob(y) \in Tasks
  BY DEF WaiterHasJob
<1>1. ASSUME NEW x \in Callers, NEW kind \in {"soon", "get"},
             Emplace(x, kind),
             kind = "get" => /\ prom' = [prom EXCEPT ![x] = "unset"]
                             /\ mine' = [mine EXCEPT ![x] = ticket + 1],
             kind = "soon" => UNCHANGED <<prom, mine>>
      PROVE  GetJob(y)' \in Tasks'
  <2>1. Tasks' = Tasks \cup {[id |-> ticket + 1, kind |-> kind, from |-> x]}
    BY <1>1, TasksEmplace
  <2>2. caller' = [caller EXCEPT ![x] = kind]
    BY <1>1 DEF Emplace
  <2>3. CASE y = x
    BY <1>1, <2>1, <2>2, <2>3 DEF GetJob, TypeOK
  <2>4. CASE y # x
    BY <1>1, <1>a, <2>1, <2>2, <2>4 DEF GetJob, TypeOK
  <2> QED
    BY <2>3, <2>4
<1>2. ASSUME NEW x \in Callers, call(x) \/ call_soon(x) \/ call_get(x)
      PROVE  GetJob(y)' \in Tasks'
  <2>1. CASE RunInline
    BY <1>a, <2>1 DEF RunInline, GetJob, Tasks, queueVars, callerVars
  <2> QED
    BY <1>1, <1>2, <2>1 DEF call, call_soon, call_get, EmplaceGet
<1>3. ASSUME NEW x \in Callers,
             event_active(x) \/ future_get(x) \/ Release(x) \/ Join(x)
      PROVE  GetJob(y)' \in Tasks'
  <2>1. Tasks' = Tasks /\ UNCHANGED <<prom, mine>>
    BY <1>3 DEF event_active, future_get, Release, Join, Tasks, queueVars, loopVars
  <2>2. Waiting
    BY <1>3, <2>1 DEF event_active, future_get, Release, Join, TypeOK
  <2> QED
    BY <1>a, <2>1, <2>2 DEF GetJob
<1>4. CASE Swap
  BY <1>4, <1>a, TasksSwap DEF Swap, callerVars, GetJob
<1>5. CASE RunFront
  <2>1. ~IsJob(current)
    BY <1>5 DEF RunFront, LoopInv
  <2>2. GetJob(y) # current
    BY <2>1 DEF IsJob, GetJob
  <2> QED
    BY <1>5, <1>a, <2>2, TasksRunFront DEF RunFront, callerVars, GetJob
<1>6. CASE Return \/ Throw
  <2>1. UNCHANGED <<job_queue, swapped, caller, mine>>
    BY <1>6 DEF Return, Throw, queueVars
  <2>2. Waiting /\ GetJob(y) # current
    <3>1. current.kind = "get" => current.from \in Callers /\ current.from # y
                                  /\ prom'[y] = prom[y]
      BY <1>6 DEF Return, Throw, SetPromise, TypeOK, Task
    <3>2. current.kind # "get" => prom' = prom
      BY <1>6 DEF Return, Throw, SetPromise
    <3> QED
      BY <2>1, <3>1, <3>2 DEF GetJob
  <2> QED
    BY <1>a, <2>1, <2>2 DEF Tasks, GetJob
<1>7. CASE EnterLoop \/ DispatchWaker \/ DispatchIo \/ BatchDone \/ LoopExit
  <2>1. UNCHANGED <<job_queue, swapped, caller, prom, mine>>
    BY <1>7 DEF EnterLoop, DispatchWaker, DispatchIo, BatchDone, LoopExit, queueVars, callerVars
  <2>2. GetJob(y) = current => current' = current
    BY <1>7 DEF EnterLoop, DispatchWaker, DispatchIo, BatchDone, LoopExit, LoopInv, IsJob, GetJob
  <2> QED
    BY <1>a, <2>1, <2>2 DEF Tasks, GetJob
<1>8. CASE UNCHANGED vars
  BY <1>8, <1>a DEF vars, Tasks, GetJob
<1> QED
  BY <1>2, <1>3, <1>4, <1>5, <1>6, <1>7, <1>8 DEF Next, LoopStep, CallerStep

(* A thread that waits in call_get waits for a job that is still there.    *)
THEOREM WaitersAreServed == Spec => []WaiterHasJob
<1>1. Init => WaiterHasJob
  BY DEF Init, WaiterHasJob
<1> QED
  BY <1>1, TypeCorrect, JobsInOrder, WaiterStep, PTL DEF Spec

=============================================================================
