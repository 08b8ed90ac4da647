------------------------ MODULE EventLoop_refinement ------------------------
(***************************************************************************)
(* The event loop implements JobService, for any number of threads, jobs   *)
(* and inline calls: every step of EventLoop is a step of the service, or  *)
(* leaves the service as it is.                                            *)
(***************************************************************************)
EXTENDS EventLoop_proofs, SequenceTheorems

(* The service's view of the state.                                        *)
queueView   == swapped \o job_queue
runningView == IF IsJob(current) THEN current ELSE NoTask
answerView  == [x \in Callers |-> Answer(x)]
haltedView  == loop \in {"exited", "terminated"}

-----------------------------------------------------------------------------
(* The two queues as one.                                                  *)

LEMMA ConcatAppend ==
    ASSUME NEW S, NEW s \in Seq(S), NEW t \in Seq(S), NEW e \in S
    PROVE  s \o Append(t, e) = Append(s \o t, e)
<1>1. s \o t \in Seq(S) /\ <<e>> \in Seq(S)
  OBVIOUS
<1>2. Append(t, e) = t \o <<e>> /\ Append(s \o t, e) = (s \o t) \o <<e>>
  BY <1>1, AppendIsConcat
<1> QED
  BY <1>1, <1>2, ConcatAssociative

LEMMA ConcatHeadTail ==
    ASSUME NEW S, NEW s \in Seq(S), NEW t \in Seq(S), s # <<>>
    PROVE  /\ s \o t # <<>>
           /\ Head(s \o t) = Head(s)
           /\ Tail(s \o t) = Tail(s) \o t
<1>1. /\ s \o t \in Seq(S) /\ Len(s \o t) = Len(s) + Len(t)
      /\ \A i \in 1 .. Len(s) + Len(t) :
            (s \o t)[i] = IF i <= Len(s) THEN s[i] ELSE t[i - Len(s)]
  BY ConcatProperties
<1>2. Len(s) \in Nat \ {0} /\ Len(t) \in Nat
  OBVIOUS
<1>3. s \o t # <<>>
  BY <1>1, <1>2
<1>4. Head(s \o t) = Head(s)
  BY <1>1, <1>2, <1>3
<1>5. /\ Tail(s) \in Seq(S) /\ Len(Tail(s)) = Len(s) - 1
      /\ \A i \in 1 .. Len(Tail(s)) : Tail(s)[i] = s[i + 1]
  BY HeadTailProperties
<1>6. /\ Tail(s \o t) \in Seq(S) /\ Len(Tail(s \o t)) = Len(s) + Len(t) - 1
      /\ \A i \in 1 .. Len(Tail(s \o t)) : Tail(s \o t)[i] = (s \o t)[i + 1]
  BY <1>1, <1>3, HeadTailProperties
<1>7. /\ Tail(s) \o t \in Seq(S) /\ Len(Tail(s) \o t) = Len(s) - 1 + Len(t)
      /\ \A i \in 1 .. Len(s) - 1 + Len(t) :
            (Tail(s) \o t)[i] = IF i <= Len(s) - 1 THEN Tail(s)[i] ELSE t[i - (Len(s) - 1)]
  BY <1>5, ConcatProperties
<1>8. ASSUME NEW i \in 1 .. Len(s) + Len(t) - 1
      PROVE  Tail(s \o t)[i] = (Tail(s) \o t)[i]
  <2>1. Tail(s \o t)[i] = (s \o t)[i + 1] /\ i + 1 \in 1 .. Len(s) + Len(t)
    BY <1>2, <1>6
  <2>2. CASE i <= Len(s) - 1
    BY <2>1, <2>2, <1>1, <1>2, <1>5, <1>7
  <2>3. CASE i > Len(s) - 1
    BY <2>1, <2>3, <1>1, <1>2, <1>7
  <2> QED
    BY <2>2, <2>3, <1>2
<1>9. Tail(s \o t) = Tail(s) \o t
  <2> DEFINE a == Tail(s \o t)  b == Tail(s) \o t
  <2>1. a \in Seq(S) /\ b \in Seq(S) /\ Len(a) = Len(b)
        /\ \A i \in 1 .. Len(a) : a[i] = b[i]
    BY <1>2, <1>6, <1>7, <1>8
  <2> HIDE DEF a, b
  <2>2. a = b
    BY <2>1
  <2> QED
    BY <2>2 DEF a, b
<1> QED
  BY <1>3, <1>4, <1>9

-----------------------------------------------------------------------------

(* The steps of the service, on the views.                                 *)

LEMMA AnswersKept ==
    ASSUME \A y \in Callers : Answer(y)' = Answer(y)
    PROVE  answerView' = answerView
  BY DEF answerView

LEMMA AnswerSet ==
    ASSUME NEW x \in Callers, NEW v, Answer(x)' = v,
           \A y \in Callers \ {x} : Answer(y)' = Answer(y)
    PROVE  answerView' = [answerView EXCEPT ![x] = v]
  BY DEF answerView

LEMMA Stutter ==
    ASSUME UNCHANGED <<ticket, queueView, runningView, answerView, haltedView>>
    PROVE  UNCHANGED Service!vars
  BY DEF Service!vars, queueView, runningView, answerView, haltedView

LEMMA EmplaceSubmits ==
    ASSUME TypeOK, NEW x \in Callers, NEW kind \in {"soon", "get"},
           MayCall(x), Emplace(x, kind),
           kind = "get" => prom' = [prom EXCEPT ![x] = "unset"],
           kind = "soon" => prom' = prom
    PROVE  Service!Submit(x, kind)
<1> DEFINE j == [id |-> ticket + 1, kind |-> kind, from |-> x]
<1>1. /\ ticket' = ticket + 1 /\ job_queue' = Append(job_queue, j)
      /\ caller' = [caller EXCEPT ![x] = kind]
      /\ UNCHANGED <<swapped, loop, current>>
  BY DEF Emplace, loopVars
<1>2. Append(queueView, j) = queueView'
  <2>1. j \in Job
    BY DEF Job, TypeOK
  <2> HIDE DEF j
  <2>2. job_queue \in Seq(Job) /\ swapped \in Seq(Job)
    BY DEF TypeOK
  <2>3. swapped \o Append(job_queue, j) = Append(swapped \o job_queue, j)
    BY <2>1, <2>2, ConcatAppend
  <2> QED
    BY <1>1, <2>3 DEF queueView
<1>3. Answer(x) = "none" /\ (kind = "get" => Answer(x)' = "pending")
                        /\ (kind = "soon" => Answer(x)' = "none")
  BY <1>1 DEF Answer, MayCall, TypeOK
<1>4. \A y \in Callers \ {x} : Answer(y)' = Answer(y)
  BY <1>1 DEF Answer, TypeOK
<1>5. answerView' = IF kind = "get" THEN [answerView EXCEPT ![x] = "pending"]
                                   ELSE answerView
  BY <1>3, <1>4, AnswerSet, AnswersKept
<1>6. UNCHANGED <<runningView, haltedView>>
  BY <1>1 DEF runningView, haltedView, IsJob
<1>7. answerView[x] = "none"
  BY <1>3 DEF answerView
<1> QED
  BY <1>1, <1>2, <1>5, <1>6, <1>7
     DEF Service!Submit, queueView, runningView, answerView, haltedView

LEMMA RunFrontStarts ==
    ASSUME TypeOK, LoopInv, RunFront
    PROVE  Service!Start
<1>1. /\ loop = "drain" /\ loop' = "body" /\ swapped # <<>>
      /\ current' = Head(swapped) /\ swapped' = Tail(swapped)
      /\ UNCHANGED <<job_queue, ticket, caller, prom>>
  BY DEF RunFront, queueVars, callerVars
<1>2. queueView # <<>> /\ Head(queueView) = Head(swapped)
      /\ queueView' = Tail(queueView)
  BY <1>1, ConcatHeadTail DEF queueView, TypeOK
<1>3. runningView = NoTask /\ runningView' = Head(swapped)
  <2>1. Head(swapped) \in Job
    BY <1>1 DEF TypeOK
  <2>2. IsJob(current') /\ ~IsJob(current)
    BY <1>1, <2>1 DEF LoopInv, IsJob, Job
  <2> QED
    BY <1>1, <2>2 DEF runningView, IsJob
<1>4. answerView' = answerView
  BY <1>1, AnswersKept DEF Answer
<1>5. haltedView = FALSE /\ haltedView' = FALSE
  BY <1>1 DEF haltedView
<1> QED
  BY <1>1, <1>2, <1>3, <1>4, <1>5
     DEF Service!Start, queueView, runningView, answerView, haltedView

(* A job that returns, or a job of call_get that throws.                   *)
LEMMA JobFinishes ==
    ASSUME TypeOK, CapturedFrameAlive, IsJob(current), Return \/ Throw,
           current' = NoTask
    PROVE  Service!Finish
<1>1. /\ loop = "body" /\ loop' = "drain"
      /\ UNCHANGED <<job_queue, swapped, ticket, caller>>
  BY ConstTypes DEF Return, Throw, queueVars, IsJob
<1>2. runningView = current /\ current # NoTask /\ runningView' = NoTask
  BY ConstTypes DEF runningView
<1>3. queueView' = queueView
  BY <1>1 DEF queueView
<1>4. haltedView = FALSE /\ haltedView' = FALSE
  BY <1>1 DEF haltedView
<1>5. CASE current.kind = "soon"
  <2>1. prom' = prom
    BY <1>5 DEF Return, Throw, SetPromise
  <2>2. answerView' = answerView
    BY <1>1, <2>1, AnswersKept DEF Answer
  <2> QED
    BY <1>1, <1>2, <1>3, <1>4, <1>5, <2>2
       DEF Service!Finish, queueView, runningView, answerView, haltedView
<1>6. CASE current.kind = "get"
  <2>1. PICK c \in Callers : c = current.from
    BY DEF TypeOK, Task
  <2>2. caller[c] \in {"get", "wait"} /\ prom[c] = "unset"
    BY <1>6, <2>1 DEF CapturedFrameAlive, FrameAlive, Tasks
  <2>3. PICK outcome \in {"value", "exception"} : prom' = [prom EXCEPT ![c] = outcome]
    BY <1>6, <2>1 DEF Return, Throw, SetPromise
  <2>4. Answer(c) = "pending" /\ Answer(c)' = outcome
    BY <1>1, <2>2, <2>3 DEF Answer, TypeOK
  <2>5. \A y \in Callers \ {c} : Answer(y)' = Answer(y)
    BY <1>1, <2>3 DEF Answer, TypeOK
  <2>6. answerView' = [answerView EXCEPT ![c] = outcome] /\ answerView[c] = "pending"
    <3>1. answerView' = [answerView EXCEPT ![c] = outcome]
      BY <2>4, <2>5, AnswerSet
    <3> QED
      BY <3>1, <2>4 DEF answerView
  <2> QED
    BY <1>1, <1>2, <1>3, <1>4, <1>6, <2>1, <2>6
       DEF Service!Finish, queueView, runningView, answerView, haltedView
<1> QED
  BY <1>5, <1>6 DEF IsJob

LEMMA GetCollects ==
    ASSUME TypeOK, NEW x \in Callers, future_get(x)
    PROVE  Service!Collect(x)
<1>1. /\ caller[x] = "wait" /\ prom[x] # "unset" /\ prom' = prom
      /\ caller' = [caller EXCEPT ![x] = "idle"]
      /\ UNCHANGED <<ticket, job_queue, swapped, current, loop>>
  BY DEF future_get, queueVars, loopVars
<1>2. Answer(x) \in {"value", "exception"} /\ Answer(x)' = "none"
  BY <1>1 DEF Answer, TypeOK
<1>3. \A y \in Callers \ {x} : Answer(y)' = Answer(y)
  BY <1>1 DEF Answer, TypeOK
<1>4. answerView' = [answerView EXCEPT ![x] = "none"]
  BY <1>2, <1>3, AnswerSet
<1>5. answerView[x] \in {"value", "exception"}
  BY <1>2 DEF answerView
<1>6. UNCHANGED <<queueView, runningView, haltedView>>
  BY <1>1 DEF queueView, runningView, haltedView, IsJob
<1> QED
  BY <1>1, <1>4, <1>5, <1>6
     DEF Service!Collect, queueView, runningView, answerView, haltedView

LEMMA LoopHalts ==
    ASSUME LoopExit \/ (Throw /\ current.kind # "get")
    PROVE  Service!Halt
<1>1. /\ loop' \in {"exited", "terminated"}
      /\ UNCHANGED <<ticket, job_queue, swapped, current, caller, prom>>
  BY DEF LoopExit, Throw, SetPromise, queueVars, callerVars
<1>2. haltedView' = TRUE
  BY <1>1 DEF haltedView
<1>3. UNCHANGED <<ticket, queueView, runningView, answerView>>
  BY <1>1, AnswersKept DEF queueView, runningView, IsJob, Answer
<1> QED
  BY <1>2, <1>3 DEF Service!Halt, queueView, runningView, answerView, haltedView

-----------------------------------------------------------------------------

LEMMA InitRefines == Init => Service!Init
<1> SUFFICES ASSUME Init PROVE Service!Init
  OBVIOUS
<1>1. swapped \o job_queue = <<>>
  BY DEF Init
<1>2. ~IsJob(current) /\ loop \notin {"exited", "terminated"} /\ ticket = 0
  BY ConstTypes DEF Init
<1>3. [x \in Callers |-> Answer(x)] = [x \in Callers |-> "none"]
  BY DEF Init, Answer
<1> QED
  BY <1>1, <1>2, <1>3 DEF Service!Init

LEMMA StepRefines ==
    TypeOK /\ LoopInv /\ CapturedFrameAlive /\ [Next]_vars
        => [Service!Next]_(Service!vars)
<1> SUFFICES ASSUME TypeOK, LoopInv, CapturedFrameAlive, [Next]_vars
             PROVE  Service!Next \/ UNCHANGED Service!vars
  OBVIOUS
<1>1. ASSUME NEW x \in Callers, call(x) \/ call_soon(x) \/ call_get(x)
      PROVE  Service!Next \/ UNCHANGED Service!vars
  <2>1. CASE RunInline
    <3>1. UNCHANGED <<ticket, job_queue, swapped, current, caller, prom, loop>>
      BY <2>1 DEF RunInline, queueVars, callerVars
    <3> QED
      BY <3>1, AnswersKept, Stutter
         DEF queueView, runningView, haltedView, Answer, IsJob
  <2>2. CASE MayCall(x) /\ Emplace(x, "soon") /\ UNCHANGED <<prom, mine>>
    BY <2>2, EmplaceSubmits DEF Service!Next
  <2>3. CASE EmplaceGet(x)
    BY <2>3, EmplaceSubmits DEF Service!Next, EmplaceGet
  <2> QED
    BY <1>1, <2>1, <2>2, <2>3 DEF call, call_soon, call_get
<1>2. ASSUME NEW x \in Callers, future_get(x) PROVE Service!Next
  BY <1>2, GetCollects DEF Service!Next
<1>3. ASSUME NEW x \in Callers, event_active(x) \/ Release(x) \/ Join(x)
      PROVE  UNCHANGED Service!vars
  <2>1. UNCHANGED <<ticket, job_queue, swapped, current, prom, loop>>
    BY <1>3 DEF event_active, Release, Join, queueVars, loopVars
  <2>2. \A y \in Callers : Answer(y)' = Answer(y)
    BY <1>3, <2>1 DEF event_active, Release, Join, Answer, TypeOK
  <2> QED
    BY <2>1, <2>2, AnswersKept, Stutter
       DEF queueView, runningView, haltedView, IsJob
<1>4. CASE Swap
  <2>1. /\ swapped = <<>> /\ swapped' = job_queue /\ job_queue' = <<>>
        /\ loop = "swap" /\ loop' = "drain"
        /\ UNCHANGED <<ticket, current, caller, prom>>
    BY <1>4 DEF Swap, LoopInv, callerVars
  <2>2. queueView' = queueView
    BY <2>1, ConcatEmptySeq DEF queueView, TypeOK
  <2> QED
    BY <2>1, <2>2, AnswersKept, Stutter DEF runningView, haltedView, Answer, IsJob
<1>5. CASE RunFront
  BY <1>5, RunFrontStarts DEF Service!Next
<1>6. CASE Return \/ Throw
  <2>1. CASE IsJob(current) /\ current' = NoTask
    BY <1>6, <2>1, JobFinishes DEF Service!Next
  <2>2. CASE Throw /\ current.kind # "get"
    BY <2>2, LoopHalts DEF Service!Next
  <2>3. CASE Return /\ ~IsJob(current)
    <3>1. /\ current' = NoTask /\ loop = "body" /\ loop' = "poll" /\ prom' = prom
          /\ UNCHANGED <<ticket, job_queue, swapped, caller>>
      BY <2>3 DEF Return, SetPromise, queueVars, IsJob
    <3>2. runningView' = runningView
      BY <2>3, <3>1 DEF runningView, IsJob
    <3> QED
      BY <3>1, <3>2, AnswersKept, Stutter DEF queueView, haltedView, Answer
  <2> QED
    BY <1>6, <2>1, <2>2, <2>3 DEF Return, Throw, IsJob
<1>7. CASE LoopExit
  BY <1>7, LoopHalts DEF Service!Next
<1>8. CASE EnterLoop \/ DispatchWaker \/ DispatchIo \/ BatchDone
  <2>1. /\ loop \in {"start", "poll", "drain"} /\ loop' \in {"swap", "body", "poll"}
        /\ current' = current \/ current' = IoTask
        /\ UNCHANGED <<ticket, job_queue, swapped, caller, prom>>
    BY <1>8 DEF EnterLoop, DispatchWaker, DispatchIo, BatchDone, queueVars, callerVars
  <2>2. ~IsJob(current) /\ ~IsJob(current')
    BY <2>1, ConstTypes DEF LoopInv, IsJob
  <2>3. runningView' = runningView
    BY <2>2 DEF runningView, IsJob
  <2> QED
    BY <2>1, <2>3, AnswersKept, Stutter DEF queueView, haltedView, Answer
<1>9. CASE UNCHANGED vars
  BY <1>9, AnswersKept, Stutter
     DEF vars, queueView, runningView, haltedView, Answer, IsJob
<1> QED
  BY <1>1, <1>2, <1>3, <1>4, <1>5, <1>6, <1>7, <1>8, <1>9
     DEF Next, LoopStep, CallerStep

(* Callers of the event loop can rely on the job service: the mutex, the   *)
(* two queues, the waker and the promises implement one FIFO queue whose   *)
(* jobs run one at a time and answer their own caller.                     *)
THEOREM LoopImplementsService == Spec => ImplementsJobService
  BY InitRefines, StepRefines, TypeCorrect, JobsInOrder, FramesOutliveJobs, PTL
     DEF Spec, Service!Spec, ImplementsJobService

=============================================================================
