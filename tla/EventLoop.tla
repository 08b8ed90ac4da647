----------------------------- MODULE EventLoop -----------------------------
(***************************************************************************)
(* The event loop of wshttp: include/wshttp/loop.hpp and src/loop.cpp.     *)
(*                                                                         *)
(* Application threads hand closures to one loop thread through a queue    *)
(* guarded by a mutex (call, call_soon, call_get); the loop thread is      *)
(* woken by the libevent event job_waker, swaps the queue out and runs the *)
(* batch.  A closure, like any libevent callback, runs on the loop thread  *)
(* and may itself call back into the loop.                                 *)
(*                                                                         *)
(* The critical sections of job_queue_mutex hold one queue operation each, *)
(* so each is one step; event_active is a separate, later step because the *)
(* code calls it after the mutex is released.                              *)
(***************************************************************************)
EXTENDS Naturals, Sequences, Functions

CONSTANTS
    Threads,    \* application threads that share the event_loop
    Loop,       \* the thread whose id is loop_thread_id
    MaxJobs,    \* bound: jobs ever emplaced
    MaxInline   \* bound: calls a callback runs inline before it returns

ASSUME LoopIsNoThread == Loop \notin Threads
ASSUME BoundsAreNat == MaxJobs \in Nat /\ MaxInline \in Nat

Callers == Threads \cup {Loop}

(* What the loop thread may be executing: nothing, a libevent callback of  *)
(* a socket or a timer, or a job.  A job of call_get captures references   *)
(* to the promise in its caller's frame: from and id name that promise.    *)
Job  == [id : Nat, kind : {"soon", "get"}, from : Callers]
Task == [id : Nat, kind : {"none", "io", "soon", "get"}, from : Callers]
NoTask == [id |-> 0, kind |-> "none", from |-> Loop]
IoTask == [id |-> 0, kind |-> "io", from |-> Loop]
IsJob(task) == task.kind \in {"soon", "get"}

VARIABLES
    job_queue,  \* jobs emplaced and not yet swapped out
    swapped,    \* swapped_queue, local to process_job_queue
    waker,      \* job_waker is active: libevent will call it
    loop,       \* where the loop thread is
    current,    \* the task the loop thread is executing
    inlined,    \* calls the current task has run inline
    caller,     \* per thread: where it is inside a call, if anywhere
    prom,       \* per thread: state of the promise in its call_get frame
    mine,       \* per thread: the job that refers to that promise
    ticket,     \* jobs emplaced so far
    started,    \* jobs popped from a batch so far
    loopbreak   \* event_base_loopbreak was called

vars == <<job_queue, swapped, waker, loop, current, inlined, caller, prom,
          mine, ticket, started, loopbreak>>

queueVars  == <<job_queue, ticket>>
loopVars   == <<swapped, loop, current, inlined, started>>
callerVars == <<caller, prom, mine>>

(* The loop thread may be inside call_soon but never blocked: it neither    *)
(* waits for a job in call_get nor joins itself.                           *)
TypeOK ==
    /\ job_queue \in Seq(Job)
    /\ swapped \in Seq(Job)
    /\ waker \in BOOLEAN
    /\ loop \in {"start", "poll", "swap", "drain", "body", "exited", "terminated"}
    /\ current \in Task
    /\ inlined \in Nat
    /\ caller \in [Callers -> {"idle", "soon", "get", "wait", "join", "gone"}]
    /\ caller[Loop] \in {"idle", "soon"}
    /\ prom \in [Callers -> {"unset", "value", "exception"}]
    /\ mine \in [Callers -> Nat]
    /\ ticket \in Nat
    /\ started \in Nat
    /\ loopbreak \in BOOLEAN

(* The state the constructor leaves behind: the loop thread has set the    *)
(* promise the constructor waits for, and is not yet in event_base_loop.   *)
Init ==
    /\ job_queue = <<>>
    /\ swapped = <<>>
    /\ waker = FALSE
    /\ loop = "start"
    /\ current = NoTask
    /\ inlined = 0
    /\ caller = [x \in Callers |-> "idle"]
    /\ prom = [x \in Callers |-> "value"]
    /\ mine = [x \in Callers |-> 0]
    /\ ticket = 0
    /\ started = 0
    /\ loopbreak = FALSE

-----------------------------------------------------------------------------
(* Calls into the loop.                                                    *)

in_event_loop(x) == x = Loop

(* x can start a call: a thread between two calls, or the loop thread from *)
(* inside a callback.                                                      *)
MayCall(x) == caller[x] = "idle" /\ (x = Loop => loop = "body")

(* A call made on the loop thread runs the closure on the spot.            *)
RunInline ==
    /\ inlined < MaxInline
    /\ inlined' = inlined + 1
    /\ UNCHANGED <<queueVars, callerVars, waker, swapped, loop, current,
                   started, loopbreak>>

(* The critical section of call_soon.                                      *)
Emplace(x, kind) ==
    /\ ticket < MaxJobs
    /\ job_queue' = Append(job_queue,
                           [id |-> ticket + 1, kind |-> kind, from |-> x])
    /\ ticket' = ticket + 1
    /\ caller' = [caller EXCEPT ![x] = kind]
    /\ UNCHANGED <<loopVars, waker, loopbreak>>

call_soon(x) ==
    /\ MayCall(x)
    /\ Emplace(x, "soon")
    /\ UNCHANGED <<prom, mine>>

call(x) ==
    /\ MayCall(x)
    /\ IF in_event_loop(x)
         THEN RunInline
         ELSE Emplace(x, "soon") /\ UNCHANGED <<prom, mine>>

(* Off the loop thread: a promise in the frame, and a job that refers to it *)
EmplaceGet(x) ==
    /\ MayCall(x)
    /\ Emplace(x, "get")
    /\ prom' = [prom EXCEPT ![x] = "unset"]
    /\ mine' = [mine EXCEPT ![x] = ticket + 1]

(* Variant: call_get without the check for the loop thread.                *)
call_get_NoLoopCheck(x) == EmplaceGet(x)

call_get(x) ==
    IF in_event_loop(x) THEN MayCall(x) /\ RunInline ELSE EmplaceGet(x)

(* Variant: an activation that arrives while a callback runs is dropped.   *)
event_active_OnlyIdle(x) ==
    /\ caller[x] \in {"soon", "get"}
    /\ waker' = (waker \/ loop = "poll")
    /\ caller' = [caller EXCEPT ![x] = IF @ = "get" THEN "wait" ELSE "idle"]
    /\ UNCHANGED <<queueVars, loopVars, prom, mine, loopbreak>>

(* The last line of call_soon, after the mutex is released; call_get then  *)
(* blocks in fut.get().                                                    *)
event_active(x) ==
    /\ caller[x] \in {"soon", "get"}
    /\ waker' = TRUE
    /\ caller' = [caller EXCEPT ![x] = IF @ = "get" THEN "wait" ELSE "idle"]
    /\ UNCHANGED <<queueVars, loopVars, prom, mine, loopbreak>>

(* Variant: the caller gives up waiting before the promise is set.         *)
future_get_GivesUp(x) ==
    /\ caller[x] = "wait"
    /\ caller' = [caller EXCEPT ![x] = "idle"]
    /\ UNCHANGED <<queueVars, loopVars, prom, mine, waker, loopbreak>>

(* fut.get() returns, or rethrows what the job threw.                      *)
future_get(x) ==
    /\ caller[x] = "wait"
    /\ prom[x] # "unset"
    /\ caller' = [caller EXCEPT ![x] = "idle"]
    /\ UNCHANGED <<queueVars, loopVars, prom, mine, waker, loopbreak>>

-----------------------------------------------------------------------------
(* The loop thread.                                                        *)

(* event_base_loop begins by clearing the break flag: a break that comes   *)
(* before it is lost, an activation is not.                                *)
EnterLoop ==
    /\ loop = "start"
    /\ loop' = "poll"
    /\ loopbreak' = FALSE
    /\ UNCHANGED <<queueVars, callerVars, waker, swapped, current, inlined,
                   started>>

(* libevent calls job_waker; the event is inactive before the callback is  *)
(* entered, so that it can be activated again during it.                   *)
DispatchWaker ==
    /\ loop = "poll" /\ waker /\ ~loopbreak
    /\ waker' = FALSE
    /\ loop' = "swap"
    /\ UNCHANGED <<queueVars, callerVars, swapped, current, inlined, started,
                   loopbreak>>

(* libevent calls any other callback: a bufferevent, a listener, a timer.  *)
DispatchIo ==
    /\ loop = "poll" /\ ~loopbreak
    /\ loop' = "body"
    /\ current' = IoTask
    /\ UNCHANGED <<queueVars, callerVars, waker, swapped, inlined, started,
                   loopbreak>>

(* Variant: the queue is copied instead of swapped.                        *)
Swap_Copies ==
    /\ loop = "swap"
    /\ swapped' = job_queue
    /\ loop' = "drain"
    /\ UNCHANGED <<queueVars, callerVars, waker, current, inlined, started,
                   loopbreak>>

(* process_job_queue, its critical section.                                *)
Swap ==
    /\ loop = "swap"
    /\ swapped' = job_queue
    /\ job_queue' = <<>>
    /\ loop' = "drain"
    /\ UNCHANGED <<callerVars, ticket, waker, current, inlined, started,
                   loopbreak>>

(* Variant: a stack instead of a queue.                                    *)
RunFront_Back ==
    /\ loop = "drain" /\ swapped # <<>>
    /\ current' = swapped[Len(swapped)]
    /\ swapped' = SubSeq(swapped, 1, Len(swapped) - 1)
    /\ started' = started + 1
    /\ loop' = "body"
    /\ UNCHANGED <<queueVars, callerVars, waker, inlined, loopbreak>>

(* process_job_queue, its loop: front, pop, run.                           *)
RunFront ==
    /\ loop = "drain" /\ swapped # <<>>
    /\ current' = Head(swapped)
    /\ swapped' = Tail(swapped)
    /\ started' = started + 1
    /\ loop' = "body"
    /\ UNCHANGED <<queueVars, callerVars, waker, inlined, loopbreak>>

BatchDone ==
    /\ loop = "drain" /\ swapped = <<>>
    /\ loop' = "poll"
    /\ UNCHANGED <<queueVars, callerVars, waker, swapped, current, inlined,
                   started, loopbreak>>

(* The closure that call_get enqueues sets the promise in its caller's     *)
(* frame to the outcome of f.                                              *)
SetPromise(outcome) ==
    prom' = IF current.kind = "get"
              THEN [prom EXCEPT ![current.from] = outcome]
              ELSE prom

(* Variant: one job per wake-up (an if where the code has a while).        *)
Return_OneJob ==
    /\ loop = "body" /\ caller[Loop] = "idle"
    /\ SetPromise("value")
    /\ current' = NoTask
    /\ inlined' = 0
    /\ loop' = "poll"
    /\ UNCHANGED <<queueVars, caller, mine, waker, swapped, started, loopbreak>>

(* The current task returns.                                               *)
Return ==
    /\ loop = "body" /\ caller[Loop] = "idle"
    /\ SetPromise("value")
    /\ current' = NoTask
    /\ inlined' = 0
    /\ loop' = IF IsJob(current) THEN "drain" ELSE "poll"
    /\ UNCHANGED <<queueVars, caller, mine, waker, swapped, started, loopbreak>>

(* Variant: the closure of call_get swallows the exception.                *)
Throw_Swallowed ==
    /\ loop = "body" /\ caller[Loop] = "idle"
    /\ current' = IF current.kind = "get" THEN NoTask ELSE current
    /\ inlined' = 0
    /\ loop' = IF current.kind = "get" THEN "drain" ELSE "terminated"
    /\ UNCHANGED <<queueVars, callerVars, waker, swapped, started, loopbreak>>

(* The current task throws.  Only the closure of call_get catches; out of  *)
(* any other job or callback the exception reaches libevent's C frames and *)
(* the process terminates.                                                 *)
Throw ==
    /\ loop = "body" /\ caller[Loop] = "idle"
    /\ SetPromise("exception")
    /\ current' = IF current.kind = "get" THEN NoTask ELSE current
    /\ inlined' = 0
    /\ loop' = IF current.kind = "get" THEN "drain" ELSE "terminated"
    /\ UNCHANGED <<queueVars, caller, mine, waker, swapped, started, loopbreak>>

(* Variant: the loop waits for job_waker to be inactive before it exits.   *)
LoopExit_WhenQuiet ==
    /\ loop = "poll" /\ loopbreak /\ ~waker
    /\ loop' = "exited"
    /\ UNCHANGED <<queueVars, callerVars, waker, swapped, current, inlined,
                   started, loopbreak>>

(* event_base_loop notices the break once the running callback is over.    *)
LoopExit ==
    /\ loop = "poll" /\ loopbreak
    /\ loop' = "exited"
    /\ UNCHANGED <<queueVars, callerVars, waker, swapped, current, inlined,
                   started, loopbreak>>

-----------------------------------------------------------------------------
(* Shutdown: threads drop their shared_ptr<event_loop>; the last one runs  *)
(* ~event_loop, which breaks the loop and joins its thread.                *)

Release(x) ==
    /\ x \in Threads /\ caller[x] = "idle"
    /\ IF \A y \in Threads \ {x} : caller[y] = "gone"
         THEN /\ loopbreak' = TRUE
              /\ caller' = [caller EXCEPT ![x] = "join"]
         ELSE /\ caller' = [caller EXCEPT ![x] = "gone"]
              /\ UNCHANGED loopbreak
    /\ UNCHANGED <<queueVars, loopVars, prom, mine, waker>>

Join(x) ==
    /\ caller[x] = "join" /\ loop = "exited"
    /\ caller' = [caller EXCEPT ![x] = "gone"]
    /\ UNCHANGED <<queueVars, loopVars, prom, mine, waker, loopbreak>>

(* The program is over: it terminated, or the last owner has joined.       *)
Over == loop = "terminated" \/ \A x \in Threads : caller[x] = "gone"

CallerStep(x) ==
    \/ call(x) \/ call_soon(x) \/ call_get(x)
    \/ event_active(x) \/ future_get(x)
    \/ Release(x) \/ Join(x)

LoopStep ==
    \/ EnterLoop
    \/ DispatchWaker \/ DispatchIo
    \/ Swap \/ RunFront \/ BatchDone
    \/ Return \/ Throw
    \/ LoopExit

Next ==
    \/ /\ ~Over
       /\ LoopStep \/ \E x \in Callers : CallerStep(x)
    \/ Over /\ UNCHANGED vars

Spec == Init /\ [][Next]_vars

(* Threads inside a call keep running; callbacks terminate; libevent       *)
(* serves its active queue in order, so an active job_waker is not passed  *)
(* over for ever however many other callbacks there are.  Nobody has to    *)
(* call anything or to drop the loop.                                      *)
Fairness ==
    /\ \A x \in Callers : WF_vars(event_active(x)) /\ WF_vars(future_get(x))
    /\ \A x \in Threads : WF_vars(Join(x))
    /\ WF_vars(EnterLoop) /\ SF_vars(DispatchWaker)
    /\ WF_vars(Swap) /\ WF_vars(RunFront) /\ WF_vars(BatchDone)
    /\ WF_vars(Return \/ Throw)
    /\ WF_vars(LoopExit)

FairSpec == Spec /\ Fairness

-----------------------------------------------------------------------------
(* Properties.                                                             *)

(* A job in the queue is never forgotten: the waker is active, or its      *)
(* callback is about to swap the queue, or some thread between the mutex   *)
(* and event_active is about to activate it (call_soon, loop.hpp 180-185;  *)
(* process_job_queue, loop.cpp 341-346).                                   *)
NoLostWakeup ==
    job_queue # <<>> =>
        \/ waker
        \/ loop = "swap"
        \/ \E x \in Callers : caller[x] \in {"soon", "get"}

(* Queue and batch together hold exactly the jobs emplaced and not yet     *)
(* started, in the order of emplacement: nothing is lost, doubled or       *)
(* overtaken between the two queues of process_job_queue.                  *)
JobOrder ==
    /\ \A i \in 1..Len(swapped) : swapped[i].id = started + i
    /\ \A i \in 1..Len(job_queue) :
            job_queue[i].id = started + Len(swapped) + i
    /\ ticket = started + Len(swapped) + Len(job_queue)
    /\ IsJob(current) => current.id = started

(* The closure of call_get refers to f and prom in its caller's frame      *)
(* (loop.hpp 118): wherever that closure is, its caller is still inside    *)
(* call_get, and the promise is its own and not yet set.                   *)
FrameAlive(task) ==
    task.kind = "get" =>
        /\ caller[task.from] \in {"get", "wait"}
        /\ prom[task.from] = "unset"
        /\ mine[task.from] = task.id

(* Every task that will still run or is running.                           *)
Tasks == Range(job_queue) \cup Range(swapped) \cup {current}

CapturedFrameAlive == \A task \in Tasks : FrameAlive(task)

(* A thread blocked in fut.get() with its promise unset always has its own *)
(* job in one of the queues or running: also a job that throws sets the    *)
(* promise, and no job is dropped on the way (loop.hpp 118-133).           *)
GetJob(x) == [id |-> mine[x], kind |-> "get", from |-> x]

WaiterHasJob ==
    \A x \in Callers :
        caller[x] \in {"get", "wait"} /\ prom[x] = "unset" => GetJob(x) \in Tasks

(* call_get returns, from any thread and from inside any callback, unless  *)
(* the process terminates.                                                 *)
CallGetReturns ==
    \A x \in Callers :
        caller[x] = "wait" ~> caller[x] # "wait" \/ loop = "terminated"

(* Every job emplaced is run, unless the loop is told to break or the      *)
(* process terminates.                                                     *)
JobsRun ==
    \A n \in 1..MaxJobs :
        ticket >= n ~> started >= n \/ loopbreak \/ loop = "terminated"

(* ~event_loop comes back from the join (stop_thread, loop.cpp 275-283),   *)
(* whatever the loop is doing when the break comes; but not when it comes  *)
(* between p.set_value() and the entry of event_base_loop (loop.cpp 240,   *)
(* 241), which drops it: the join then never returns.                      *)
StopReturns == loopbreak /\ loop # "start" ~> Over

(* The event loop implements the job service: its two queues are one FIFO. *)
Answer(x) == IF caller[x] \in {"get", "wait"}
               THEN (IF prom[x] = "unset" THEN "pending" ELSE prom[x])
               ELSE "none"

Service == INSTANCE JobService WITH
    Clients   <- Callers,
    NoJob     <- NoTask,
    submitted <- ticket,
    queue     <- swapped \o job_queue,
    running   <- IF IsJob(current) THEN current ELSE NoTask,
    answer    <- [x \in Callers |-> Answer(x)],
    halted    <- loop \in {"exited", "terminated"}

ImplementsJobService == Service!Spec

=============================================================================
