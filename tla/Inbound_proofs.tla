--------------------------- MODULE Inbound_proofs ---------------------------
(***************************************************************************)
(* Proofs about Inbound, for any number of remotes and sessions, whatever  *)
(* the surroundings are allowed to do.                                     *)
(***************************************************************************)
EXTENDS Inbound, TLAPS

CloseJob(s) == [kind |-> "close", sid |-> s]
ListenerJob == [kind |-> "listener", sid |-> None]
ShutdownJob == [kind |-> "shutdown", sid |-> None]

(* A job is in a queue, and at most once.                                  *)
In(q, j) == \E i \in 1..Len(q) : q[i] = j
Once(q, j) == \A i, k \in 1..Len(q) : q[i] = j /\ q[k] = j => i = k

(* The same for both queues of the loop thread together.                   *)
Posted(j) == In(jobs, j) \/ In(batch, j)
PostedOnce(j) == Once(jobs, j) /\ Once(batch, j) /\ ~(In(jobs, j) /\ In(batch, j))

(* What makes OwnedByListener inductive: a session in the map is live and  *)
(* knows its key; an object that was made knows its remote.                *)
Mapped ==
    /\ \A r \in Remotes : sessions[r] # None =>
          peer[sessions[r]] = r /\ Live(sessions[r])
    /\ \A s \in Sids : obj[s] # "unborn" <=> peer[s] # None

(* No session outlives its listener.                                       *)
NoOrphans == lst = "freed" => \A s \in Sids : ~Live(s)

(* What makes CallbacksReachLive inductive: jobs, which delete sessions,   *)
(* run only between two runs.                                              *)
Alternate ==
    /\ at \in {"poll", "run"} => batch = <<>>
    /\ at = "run" => cur # None

(* What makes DanglingExplained inductive, for close jobs: the object of a *)
(* job was made, a job was posted by a callback that closed the session,   *)
(* and of a session closed once there is one job, until it is erased.      *)
CloseJobs ==
    \A s \in Sids :
        /\ Posted(CloseJob(s)) => obj[s] # "unborn" /\ closers[s] # 0
        /\ closers[s] = 1 => PostedOnce(CloseJob(s))
        /\ closers[s] = 1 /\ cause[s] = "close" => ~Posted(CloseJob(s))
        /\ obj[s] = "freed" <=> cause[s] # "none"

(* The same for the listener's job: there is at most one, and if it comes  *)
(* too late, then because the application dropped the endpoint.            *)
ListenerJobs ==
    /\ PostedOnce(ListenerJob)
    /\ Posted(ShutdownJob) => dropped
    /\ lst = "freed" /\ Posted(ListenerJob) => dropped

IInv ==
    /\ TypeOK /\ Mapped /\ OwnedByListener /\ NoOrphans
    /\ Alternate /\ CallbacksReachLive
    /\ CloseJobs /\ ListenerJobs

-----------------------------------------------------------------------------
(* The active queue.                                                       *)

LEMMA ActivateMembers ==
    ASSUME active \in SUBSET (Events \X Events), NEW e \in Events
    PROVE  /\ Activate(e) \in SUBSET (Events \X Events)
           /\ \A f \in Events : <<f, f>> \in Activate(e) <=> Active(f) \/ f = e
<1>1. CASE Active(e)
  BY <1>1 DEF Activate, Active
<1>2. CASE ~Active(e)
  <2>1. Activate(e) = active \cup {<<f, e>> : f \in {e} \cup {g \in Events : Active(g)}}
    BY <1>2 DEF Activate
  <2>2. {<<f, e>> : f \in {e} \cup {g \in Events : Active(g)}} \in SUBSET (Events \X Events)
    OBVIOUS
  <2>3. \A f \in Events : <<f, f>> \in {<<g, e>> : g \in {e} \cup {h \in Events : Active(h)}}
                          <=> f = e
    OBVIOUS
  <2> QED
    BY <2>1, <2>2, <2>3 DEF Active
<1> QED
  BY <1>1, <1>2

LEMMA WithoutMembers ==
    ASSUME active \in SUBSET (Events \X Events), NEW E
    PROVE  /\ Without(E) \in SUBSET (Events \X Events)
           /\ \A f \in Events : <<f, f>> \in Without(E) <=> Active(f) /\ f \notin E
BY DEF Without, Active

-----------------------------------------------------------------------------
(* The queues of jobs.                                                     *)

LEMMA InEmpty == \A j : ~In(<<>>, j) /\ Once(<<>>, j)
BY DEF In, Once

LEMMA InAppend ==
    ASSUME NEW S, NEW q \in Seq(S), NEW x \in S, NEW j
    PROVE  /\ Append(q, x) \in Seq(S)
           /\ In(Append(q, x), j) <=> In(q, j) \/ x = j
           /\ Once(q, j) /\ (x # j \/ ~In(q, j)) => Once(Append(q, x), j)
<1>1. /\ Append(q, x) \in Seq(S) /\ Len(q) \in Nat
      /\ Len(Append(q, x)) = Len(q) + 1
      /\ \A i \in 1..Len(q) : Append(q, x)[i] = q[i]
      /\ Append(q, x)[Len(q) + 1] = x
  OBVIOUS
<1>2. \A i \in 1..(Len(q) + 1) : i \in 1..Len(q) \/ i = Len(q) + 1
  BY <1>1
<1>3. In(Append(q, x), j) <=> In(q, j) \/ x = j
  BY <1>1, <1>2 DEF In
<1>4. Once(q, j) /\ (x # j \/ ~In(q, j)) => Once(Append(q, x), j)
  BY <1>1, <1>2 DEF In, Once
<1> QED
  BY <1>1, <1>3, <1>4

LEMMA InTail ==
    ASSUME NEW S, NEW q \in Seq(S), q # <<>>, NEW j
    PROVE  /\ Tail(q) \in Seq(S) /\ Head(q) \in S /\ In(q, Head(q))
           /\ In(Tail(q), j) => In(q, j)
           /\ Once(q, j) => Once(Tail(q), j)
           /\ Once(q, j) /\ Head(q) = j => ~In(Tail(q), j)
<1>1. /\ Tail(q) \in Seq(S) /\ Head(q) \in S /\ Head(q) = q[1]
      /\ Len(q) \in Nat /\ Len(q) >= 1 /\ Len(Tail(q)) = Len(q) - 1
      /\ \A i \in 1..Len(Tail(q)) : Tail(q)[i] = q[i + 1]
  OBVIOUS
<1>2. \A i \in 1..Len(Tail(q)) : i + 1 \in 1..Len(q) /\ i + 1 # 1
  BY <1>1
<1>3. 1 \in 1..Len(q)
  BY <1>1
<1>4. In(q, Head(q))
  BY <1>1, <1>3 DEF In
<1>5. In(Tail(q), j) => In(q, j)
  BY <1>1, <1>2 DEF In
<1>6. Once(q, j) => Once(Tail(q), j)
  BY <1>1, <1>2 DEF Once
<1>7. Once(q, j) /\ Head(q) = j => ~In(Tail(q), j)
  BY <1>1, <1>2, <1>3 DEF In, Once
<1> QED
  BY <1>1, <1>4, <1>5, <1>6, <1>7

-----------------------------------------------------------------------------
(* Types.                                                                  *)

Causes == {"none", "close", "stranger"} \cup Hardships
Objs == {"unborn", "shaking", "open", "freed"}

LEMMA JobTypes ==
    /\ \A s \in Sids : CloseJob(s) \in Job /\ CloseJob(s).kind = "close" /\ CloseJob(s).sid = s
    /\ ListenerJob \in Job /\ ListenerJob.kind = "listener"
    /\ ShutdownJob \in Job /\ ShutdownJob.kind = "shutdown"
    /\ \A j \in Job : \/ j.sid \in Sids /\ j = CloseJob(j.sid) /\ j.kind = "close"
                      \/ j = ListenerJob \/ j = ShutdownJob
BY DEF Job, CloseJob, ListenerJob, ShutdownJob

LEMMA TypeSoon ==
    ASSUME TypeOK, NEW k, NEW s, [kind |-> k, sid |-> s] \in Job, call_soon(k, s)
    PROVE  jobs' \in Seq(Job) /\ active' \in SUBSET (Events \X Events)
<1>1. Waker \in Events
  BY DEF Events
<1> QED
  BY <1>1, ActivateMembers DEF TypeOK, call_soon

LEMMA TypeDelete ==
    ASSUME TypeOK, NEW S, NEW why \in Causes, Delete(S, why)
    PROVE  /\ obj' \in [Sids -> Objs] /\ cause' \in [Sids -> Causes]
           /\ pend' \in [Sids -> SUBSET Callbacks]
           /\ active' \in SUBSET (Events \X Events)
BY WithoutMembers DEF TypeOK, Delete, Objs, Causes

LEMMA TypeStep == TypeOK /\ Alternate /\ [Next]_vars => TypeOK'
<1> SUFFICES ASSUME TypeOK, Alternate, [Next]_vars PROVE TypeOK'
  OBVIOUS
<1>1. ASSUME NEW r \in Remotes, create_inbound_session(r) PROVE TypeOK'
  <2>1. CASE sessions[r] # None
    <3>1. Delete({sessions[r]} \ {None}, "reconnect") /\ "reconnect" \in Causes
      BY <1>1, <2>1 DEF create_inbound_session, Erase, Causes, Hardships
    <3> QED
      BY <1>1, <2>1, <3>1, TypeDelete DEF TypeOK, create_inbound_session, Erase, Objs, Causes
  <2>2. CASE sessions[r] = None
    <3>1. PICK s \in Unborn : NewSession(r, s)
      BY <1>1, <2>2 DEF create_inbound_session
    <3>2. s \in Sids
      BY DEF Unborn
    <3> QED
      BY <1>1, <2>2, <3>1, <3>2 DEF TypeOK, create_inbound_session, NewSession
  <2> QED
    BY <2>1, <2>2
<1>2. ASSUME NEW r \in Remotes, AcceptThrows(r) PROVE TypeOK'
  BY <1>2 DEF TypeOK, AcceptThrows, history
<1>3. CASE error_cb
  BY <1>3, TypeSoon, JobTypes DEF TypeOK, error_cb, history, ListenerJob
<1>4. ASSUME NEW s \in Sids, NEW cb \in Callbacks, SocketEvent(s, cb) PROVE TypeOK'
  <2>1. active' \in SUBSET (Events \X Events)
    BY <1>4, ActivateMembers DEF TypeOK, SocketEvent, Events
  <2>2. pend' \in [Sids -> SUBSET Callbacks]
    BY <1>4 DEF TypeOK, SocketEvent
  <2> QED
    BY <1>4, <2>1, <2>2 DEF TypeOK, SocketEvent, history
<1>5. CASE DropEndpoint
  BY <1>5, TypeSoon, JobTypes DEF TypeOK, DropEndpoint, history, ShutdownJob
<1>6. CASE StartRun
  BY <1>6, WithoutMembers DEF TypeOK, StartRun, history
<1>7. ASSUME NEW cb, NEW before, session_cb(cb, before) PROVE TypeOK'
  <2>1. cur \in Sids
    BY <1>7 DEF TypeOK, Alternate, session_cb
  <2>2. pend' \in [Sids -> SUBSET Callbacks]
    BY <1>7, <2>1 DEF TypeOK, session_cb
  <2>3. /\ jobs' \in Seq(Job) /\ active' \in SUBSET (Events \X Events)
        /\ closers' \in [Sids -> 0..2]
    <3>1. CASE call_soon("close", cur) /\ ClosedOnceMore(cur)
      <4>1. [kind |-> "close", sid |-> cur] \in Job
        BY <2>1, JobTypes DEF CloseJob
      <4>2. closers' \in [Sids -> 0..2]
        BY <2>1, <3>1 DEF TypeOK, ClosedOnceMore
      <4> QED
        BY <3>1, <4>1, <4>2, TypeSoon
    <3>2. CASE UNCHANGED <<jobs, active, closers>>
      BY <3>2 DEF TypeOK
    <3> QED
      BY <1>7, <3>1, <3>2 DEF session_cb
  <2> QED
    BY <1>7, <2>2, <2>3 DEF TypeOK, session_cb
<1>8. CASE EndRun
  BY <1>8 DEF TypeOK, EndRun, history
<1>9. CASE process_job_queue
  BY <1>9, WithoutMembers DEF TypeOK, process_job_queue, history
<1>10. CASE RunJob
  <2>1. UNCHANGED <<jobs, cur, dropped, closers>> /\ Tail(batch) \in Seq(Job)
    BY <1>10 DEF RunJob, TypeOK
  <2>2. CASE close_session(Head(batch).sid)
    <3> DEFINE s == Head(batch).sid
               why == IF sessions[peer[s]] = s THEN "close" ELSE "stranger"
    <3>1. Delete({sessions[peer[s]]} \ {None}, why) /\ why \in Causes
      BY <2>2 DEF close_session, Erase, Causes
    <3> QED
      BY <2>1, <2>2, <3>1, TypeDelete DEF TypeOK, close_session, Erase, Objs, Causes
  <2>3. ASSUME NEW why \in Hardships, ListenerGone(why) PROVE TypeOK'
    BY <2>1, <2>3, TypeDelete DEF TypeOK, ListenerGone, Objs, Causes
  <2>4. CASE NotFound
    BY <2>1, <2>4 DEF TypeOK, NotFound
  <2>5. CASE Crash
    BY <2>1, <2>5 DEF TypeOK, Crash
  <2> QED
    BY <1>10, <2>2, <2>3, <2>4, <2>5 DEF RunJob, Hardships
<1>11. CASE BatchDone
  BY <1>11 DEF TypeOK, BatchDone, history
<1>12. CASE UNCHANGED vars
  BY <1>12 DEF TypeOK, vars, history
<1> QED
  BY <1>1, <1>2, <1>3, <1>4, <1>5, <1>6, <1>7, <1>8, <1>9, <1>10, <1>11, <1>12
     DEF Next, Environment, LoopThread, connected_cb, read_cb, write_cb, event_cb

-----------------------------------------------------------------------------
(* The map of the listener and the session objects.                        *)

OwnInv == Mapped /\ OwnedByListener /\ NoOrphans

(* What erasing an entry does: the session it held is freed, no other.     *)
LEMMA EraseParts ==
    ASSUME TypeOK, OwnInv, NEW r \in Remotes, NEW why, Erase(r, why)
    PROVE  /\ sessions' = [sessions EXCEPT ![r] = None]
           /\ \A s \in Sids : IF sessions[r] = s
                                THEN /\ Live(s) /\ obj'[s] = "freed"
                                     /\ cause'[s] = why /\ pend'[s] = {}
                                ELSE /\ obj'[s] = obj[s] /\ cause'[s] = cause[s]
                                     /\ pend'[s] = pend[s]
           /\ \A s \in Sids : <<s, s>> \in active' => Active(s) /\ s # sessions[r]
<1>1. Delete({sessions[r]} \ {None}, why) /\ sessions' = [sessions EXCEPT ![r] = None]
  BY DEF Erase
<1>2. \A s \in Sids : sessions[r] = s => Live(s)
  BY Distinct DEF OwnInv, Mapped
<1>3. \A s \in Sids : s \in {sessions[r]} \ {None} <=> sessions[r] = s
  BY Distinct
<1>4. \A s \in Sids : <<s, s>> \in active' => Active(s) /\ s # sessions[r]
  BY <1>1, <1>3, WithoutMembers DEF Delete, TypeOK, Events
<1> QED
  BY <1>1, <1>2, <1>3, <1>4 DEF Delete, TypeOK

LEMMA OwnErase ==
    ASSUME TypeOK, OwnInv, NEW r \in Remotes, NEW why, Erase(r, why),
           UNCHANGED <<peer, lst>>
    PROVE  OwnInv'
<1> USE EraseParts, Distinct DEF TypeOK, OwnInv, Live
<1>1. Mapped'
  BY DEF Mapped, OwnedByListener
<1>2. OwnedByListener'
  BY DEF Mapped, OwnedByListener
<1>3. NoOrphans'
  BY DEF NoOrphans
<1> QED
  BY <1>1, <1>2, <1>3

LEMMA OwnStep == TypeOK /\ OwnInv /\ Alternate /\ CloseJobs /\ [Next]_vars => OwnInv'
<1> SUFFICES ASSUME TypeOK, OwnInv, Alternate, CloseJobs, [Next]_vars PROVE OwnInv'
  OBVIOUS
<1>1. ASSUME NEW r \in Remotes, create_inbound_session(r) PROVE OwnInv'
  <2>1. CASE sessions[r] # None
    BY <1>1, <2>1, OwnErase DEF create_inbound_session
  <2>2. CASE sessions[r] = None
    <3>1. PICK s \in Unborn : NewSession(r, s)
      BY <1>1, <2>2 DEF create_inbound_session
    <3>2. s \in Sids /\ obj[s] = "unborn" /\ peer[s] = None
      BY DEF Unborn, OwnInv, Mapped
    <3>3. lst' = lst /\ lst = "open"
      BY <1>1 DEF create_inbound_session
    <3>4. \A q \in Remotes : sessions[q] # s
      BY <3>2, Distinct DEF OwnInv, Mapped
    <3> QED
      BY <2>2, <3>1, <3>2, <3>3, <3>4, Distinct
         DEF OwnInv, Mapped, OwnedByListener, NoOrphans, NewSession, Live, TypeOK
  <2> QED
    BY <2>1, <2>2
<1>2. ASSUME NEW s \in Sids, NEW cb \in Callbacks, SocketEvent(s, cb) PROVE OwnInv'
  <2>1. /\ UNCHANGED <<lst, sessions, peer>> /\ obj' \in [Sids -> Objs]
        /\ \A t \in Sids : (Live(t) <=> Live(t)') /\ (obj[t] = "unborn" <=> obj'[t] = "unborn")
    BY <1>2 DEF SocketEvent, Live, TypeOK, Objs
  <2> QED
    BY <2>1, Distinct DEF OwnInv, Mapped, OwnedByListener, NoOrphans, TypeOK
<1>3. CASE RunJob
  <2>1. Head(batch) \in Job /\ Posted(Head(batch))
    BY <1>3, InTail DEF RunJob, TypeOK, Posted
  <2>2. CASE Head(batch).kind = "close" /\ close_session(Head(batch).sid)
    <3>1. PICK s \in Sids : Head(batch) = CloseJob(s) /\ Head(batch).sid = s
      BY <2>1, <2>2, JobTypes
    <3>2. peer[s] \in Remotes
      BY <2>1, <3>1 DEF CloseJobs, OwnInv, Mapped, TypeOK
    <3> QED
      BY <2>2, <3>1, <3>2, OwnErase DEF close_session
  <2>3. ASSUME NEW why, ListenerGone(why) PROVE OwnInv'
    BY <2>3, Distinct
       DEF OwnInv, Mapped, OwnedByListener, NoOrphans, ListenerGone, Delete, Live, TypeOK
  <2>4. CASE NotFound \/ Crash
    BY <2>4 DEF OwnInv, Mapped, OwnedByListener, NoOrphans, NotFound, Crash, Live
  <2> QED
    BY <1>3, <2>2, <2>3, <2>4 DEF RunJob
<1>4. CASE UNCHANGED <<lst, sessions, peer, obj>>
  BY <1>4 DEF OwnInv, Mapped, OwnedByListener, NoOrphans, Live
<1> QED
  BY <1>1, <1>2, <1>3, <1>4
     DEF Next, Environment, LoopThread, connected_cb, read_cb, write_cb, event_cb,
         AcceptThrows, error_cb, DropEndpoint, StartRun, session_cb, EndRun,
         process_job_queue, BatchDone, vars

-----------------------------------------------------------------------------
(* Runs and jobs take turns.                                               *)

RunInv == Alternate /\ CallbacksReachLive

(* Waking the loop adds no session to the active queue.                    *)
LEMMA SoonMembers ==
    ASSUME TypeOK, NEW k, NEW s, call_soon(k, s)
    PROVE  \A t \in Sids : <<t, t>> \in active' <=> Active(t)
<1>1. Waker \in Events /\ \A t \in Sids : t \in Events /\ t # Waker
  BY Distinct DEF Events
<1> QED
  BY <1>1, ActivateMembers DEF call_soon, TypeOK

LEMMA RunEnvironment ==
    ASSUME TypeOK, OwnInv, RunInv, Environment
    PROVE  RunInv'
<1> USE DEF RunInv, Alternate, CallbacksReachLive
<1>1. ASSUME NEW r \in Remotes, create_inbound_session(r) PROVE RunInv'
  <2>1. at = "poll" /\ at' = at /\ batch' = batch
    BY <1>1 DEF create_inbound_session
  <2>2. CASE sessions[r] # None
    <3>1. Erase(r, "reconnect")
      BY <1>1, <2>2 DEF create_inbound_session
    <3> QED
      BY <2>1, <3>1, EraseParts DEF Live, Active
  <2>3. CASE sessions[r] = None
    <3>1. PICK s \in Unborn : NewSession(r, s)
      BY <1>1, <2>3 DEF create_inbound_session
    <3> QED
      BY <2>1, <3>1 DEF NewSession, Unborn, Live, Active, TypeOK
  <2> QED
    BY <2>2, <2>3
<1>2. ASSUME NEW r \in Remotes, AcceptThrows(r) PROVE RunInv'
  BY <1>2 DEF AcceptThrows, Live, Active
<1>3. CASE error_cb
  BY <1>3, SoonMembers DEF error_cb, Live, Active
<1>4. ASSUME NEW s \in Sids, NEW cb \in Callbacks, SocketEvent(s, cb) PROVE RunInv'
  <2>1. at = "poll" /\ at' = at /\ batch' = batch /\ Live(s)
    BY <1>4 DEF SocketEvent
  <2>2. \A t \in Sids : <<t, t>> \in active' <=> Active(t) \/ t = s
    BY <1>4, ActivateMembers DEF SocketEvent, TypeOK, Events
  <2>3. \A t \in Sids : /\ Live(t) => Live(t)'
                        /\ t # s => pend'[t] = pend[t]
    BY <1>4 DEF SocketEvent, Live, TypeOK
  <2> QED
    BY <2>1, <2>2, <2>3 DEF Active
<1>5. CASE DropEndpoint
  BY <1>5, SoonMembers DEF DropEndpoint, Live, Active
<1> QED
  BY <1>1, <1>2, <1>3, <1>4, <1>5 DEF Environment

LEMMA RunLoop ==
    ASSUME TypeOK, OwnInv, RunInv, CloseJobs, LoopThread
    PROVE  RunInv'
<1> USE DEF RunInv, Alternate, CallbacksReachLive
<1>1. CASE StartRun
  <2>1. PICK s \in Sids : First(s) /\ cur' = s /\ active' = Without({s})
    BY <1>1 DEF StartRun
  <2>2. Live(s)
    BY <2>1 DEF First
  <2>3. \A t \in Sids : <<t, t>> \in active' => Active(t)
    BY <2>1, WithoutMembers DEF TypeOK, Events
  <2> QED
    BY <1>1, <2>1, <2>2, <2>3, Distinct DEF StartRun, Live, Active
<1>2. ASSUME NEW cb, NEW before, session_cb(cb, before) PROVE RunInv'
  <2>1. at' = at /\ cur' = cur /\ batch' = batch /\ UNCHANGED <<obj, at>>
    BY <1>2 DEF session_cb
  <2>2. \A t \in Sids : <<t, t>> \in active' <=> Active(t)
    BY <1>2, SoonMembers DEF session_cb, Active
  <2>3. \A t \in Sids : pend'[t] # {} => pend[t] # {}
    BY <1>2 DEF session_cb, TypeOK
  <2> QED
    BY <2>1, <2>2, <2>3 DEF Live, Active
<1>3. CASE EndRun
  BY <1>3 DEF EndRun, Live, Active
<1>4. CASE process_job_queue
  <2>1. \A t \in Sids : <<t, t>> \in active' => Active(t)
    BY <1>4, WithoutMembers DEF process_job_queue, TypeOK, Events
  <2> QED
    BY <1>4, <2>1 DEF process_job_queue, Live, Active
<1>5. CASE RunJob
  <2>1. Head(batch) \in Job /\ Posted(Head(batch)) /\ at = "batch"
    BY <1>5, InTail DEF RunJob, TypeOK, Posted
  <2>2. CASE Head(batch).kind = "close" /\ close_session(Head(batch).sid)
    <3>1. PICK s \in Sids : Head(batch) = CloseJob(s) /\ Head(batch).sid = s
      BY <2>1, <2>2, JobTypes
    <3>2. peer[s] \in Remotes
      BY <2>1, <3>1 DEF CloseJobs, OwnInv, Mapped, TypeOK
    <3>3. PICK why : Erase(peer[s], why)
      BY <2>2, <3>1 DEF close_session
    <3>4. at' = "batch"
      BY <2>1, <2>2 DEF close_session
    <3> QED
      BY <3>2, <3>3, <3>4, EraseParts DEF Live, Active
  <2>3. ASSUME NEW why, ListenerGone(why) PROVE RunInv'
    <3>1. \A s \in Sids : pend'[s] = IF Live(s) THEN {} ELSE pend[s]
      BY <2>3 DEF ListenerGone, Delete
    <3>2. \A s \in Sids : <<s, s>> \in active' => Active(s) /\ ~Live(s)
      BY <2>3, WithoutMembers DEF ListenerGone, Delete, TypeOK, Events
    <3> QED
      BY <2>1, <2>3, <3>1, <3>2 DEF ListenerGone, Active
  <2>4. CASE NotFound \/ Crash
    BY <2>1, <2>4 DEF NotFound, Crash, Live, Active
  <2> QED
    BY <1>5, <2>2, <2>3, <2>4 DEF RunJob
<1>6. CASE BatchDone
  BY <1>6 DEF BatchDone, Live, Active
<1> QED
  BY <1>1, <1>2, <1>3, <1>4, <1>5, <1>6
     DEF LoopThread, connected_cb, read_cb, write_cb, event_cb

-----------------------------------------------------------------------------
(* The jobs and the objects they refer to.                                 *)

JobInv == CloseJobs /\ ListenerJobs

LEMMA JobsDiffer ==
    /\ ListenerJob # ShutdownJob
    /\ \A s \in Sids : CloseJob(s) # ListenerJob /\ CloseJob(s) # ShutdownJob
    /\ \A s, t \in Sids : CloseJob(s) = CloseJob(t) => s = t
BY DEF CloseJob, ListenerJob, ShutdownJob

(* A job is posted.                                                        *)
LEMMA SoonPosts ==
    ASSUME TypeOK, NEW k, NEW s, [kind |-> k, sid |-> s] \in Job, call_soon(k, s),
           batch' = batch, NEW j
    PROVE  LET x == [kind |-> k, sid |-> s] IN
           /\ Posted(j)' <=> Posted(j) \/ x = j
           /\ PostedOnce(j) /\ (x # j \/ ~Posted(j)) => PostedOnce(j)'
<1> DEFINE x == [kind |-> k, sid |-> s]
<1>1. jobs' = Append(jobs, x) /\ jobs \in Seq(Job) /\ x \in Job
  BY DEF call_soon, TypeOK
<1> HIDE DEF x
<1>2. /\ In(jobs', j) <=> In(jobs, j) \/ x = j
      /\ Once(jobs, j) /\ (x # j \/ ~In(jobs, j)) => Once(jobs', j)
  BY <1>1, InAppend
<1>3. /\ Posted(j)' <=> Posted(j) \/ x = j
      /\ PostedOnce(j) /\ (x # j \/ ~Posted(j)) => PostedOnce(j)'
  BY <1>2 DEF Posted, PostedOnce
<1> QED
  BY <1>3 DEF x

(* A job is taken from the batch.                                          *)
LEMMA TailTakes ==
    ASSUME TypeOK, batch # <<>>, batch' = Tail(batch), jobs' = jobs, NEW j
    PROVE  /\ Posted(j)' => Posted(j)
           /\ PostedOnce(j) => PostedOnce(j)'
           /\ PostedOnce(j) /\ Head(batch) = j => ~Posted(j)'
<1>1. /\ In(Tail(batch), j) => In(batch, j)
      /\ Once(batch, j) => Once(Tail(batch), j)
      /\ Once(batch, j) /\ Head(batch) = j => ~In(Tail(batch), j)
      /\ In(batch, Head(batch))
  BY InTail DEF TypeOK
<1> QED
  BY <1>1 DEF Posted, PostedOnce

LEMMA JobEnvironment ==
    ASSUME TypeOK, OwnInv, RunInv, JobInv, Environment
    PROVE  JobInv'
<1>1. ASSUME NEW r \in Remotes, create_inbound_session(r) PROVE JobInv'
  <2>1. UNCHANGED <<jobs, batch, closers, lst, dropped>>
    BY <1>1 DEF create_inbound_session
  <2>2. \A j : (Posted(j)' <=> Posted(j)) /\ (PostedOnce(j)' <=> PostedOnce(j))
    BY <2>1 DEF Posted, PostedOnce
  <2>3. \A s \in Sids : /\ cause'[s] # cause[s] => cause'[s] = "reconnect"
                        /\ obj[s] # "unborn" => obj'[s] # "unborn"
                        /\ obj'[s] = "freed" <=> cause'[s] # "none"
    <3>1. CASE sessions[r] # None
      <4>1. Erase(r, "reconnect")
        BY <1>1, <3>1 DEF create_inbound_session
      <4> QED
        BY <4>1, EraseParts DEF JobInv, CloseJobs
    <3>2. CASE sessions[r] = None
      <4>1. PICK s \in Unborn : NewSession(r, s)
        BY <1>1, <3>2 DEF create_inbound_session
      <4>2. cause' = cause
        BY <1>1, <3>2 DEF create_inbound_session
      <4> QED
        BY <4>1, <4>2 DEF NewSession, Unborn, TypeOK, JobInv, CloseJobs
    <3> QED
      BY <3>1, <3>2
  <2> QED
    BY <2>1, <2>2, <2>3 DEF JobInv, CloseJobs, ListenerJobs
<1>2. ASSUME NEW r \in Remotes, AcceptThrows(r) PROVE JobInv'
  BY <1>2 DEF AcceptThrows, history, JobInv, CloseJobs, ListenerJobs, Posted, PostedOnce
<1>3. CASE error_cb
  <2>1. /\ call_soon("listener", None) /\ batch' = batch /\ batch = <<>>
        /\ UNCHANGED <<obj, closers, cause, lst, dropped>> /\ lst = "open"
    BY <1>3 DEF error_cb, history, RunInv, Alternate
  <2>2. ~Posted(ListenerJob)
    BY <1>3, <2>1, InEmpty, JobTypes DEF error_cb, Posted, In
  <2>3. \A j : /\ Posted(j)' <=> Posted(j) \/ ListenerJob = j
               /\ PostedOnce(j) /\ (ListenerJob # j \/ ~Posted(j)) => PostedOnce(j)'
    BY <2>1, SoonPosts, JobTypes DEF ListenerJob
  <2> QED
    BY <2>1, <2>2, <2>3, JobsDiffer DEF JobInv, CloseJobs, ListenerJobs
<1>4. ASSUME NEW s \in Sids, NEW cb \in Callbacks, SocketEvent(s, cb) PROVE JobInv'
  <2>1. UNCHANGED <<jobs, batch, closers, cause, lst, dropped>>
    BY <1>4 DEF SocketEvent, history
  <2>2. \A t \in Sids : /\ obj[t] # "unborn" => obj'[t] # "unborn"
                        /\ obj[t] = "freed" <=> obj'[t] = "freed"
    BY <1>4 DEF SocketEvent, Live, TypeOK
  <2> QED
    BY <2>1, <2>2 DEF JobInv, CloseJobs, ListenerJobs, Posted, PostedOnce
<1>5. CASE DropEndpoint
  <2>1. /\ call_soon("shutdown", None) /\ batch' = batch
        /\ UNCHANGED <<obj, closers, cause, lst>> /\ dropped'
    BY <1>5 DEF DropEndpoint, history
  <2>2. \A j : /\ Posted(j)' <=> Posted(j) \/ ShutdownJob = j
               /\ PostedOnce(j) /\ ShutdownJob # j => PostedOnce(j)'
    BY <2>1, SoonPosts, JobTypes DEF ShutdownJob
  <2> QED
    BY <2>1, <2>2, JobsDiffer DEF JobInv, CloseJobs, ListenerJobs
<1> QED
  BY <1>1, <1>2, <1>3, <1>4, <1>5 DEF Environment

LEMMA JobCallback ==
    ASSUME TypeOK, OwnInv, RunInv, JobInv, NEW cb, NEW before, session_cb(cb, before)
    PROVE  JobInv'
<1>1. /\ UNCHANGED <<obj, batch, cause, lst, dropped>> /\ batch = <<>>
      /\ cur \in Sids /\ Live(cur)
  BY DEF session_cb, RunInv, Alternate, CallbacksReachLive, TypeOK
<1>2. CASE UNCHANGED <<jobs, closers>>
  BY <1>1, <1>2 DEF JobInv, CloseJobs, ListenerJobs, Posted, PostedOnce
<1>3. CASE call_soon("close", cur) /\ ClosedOnceMore(cur)
  <2>1. \A j : /\ Posted(j)' <=> Posted(j) \/ CloseJob(cur) = j
               /\ PostedOnce(j) /\ (CloseJob(cur) # j \/ ~Posted(j)) => PostedOnce(j)'
    BY <1>1, <1>3, SoonPosts, JobTypes DEF CloseJob
  <2>2. /\ closers'[cur] # 0 /\ (closers'[cur] = 1 => closers[cur] = 0)
        /\ \A t \in Sids : t # cur => closers'[t] = closers[t]
    BY <1>1, <1>3 DEF ClosedOnceMore, TypeOK
  <2>3. closers[cur] = 0 => ~Posted(CloseJob(cur)) /\ PostedOnce(CloseJob(cur))
    BY <1>1 DEF JobInv, CloseJobs, Posted, PostedOnce, In, Once
  <2>4. cause[cur] = "none" /\ obj[cur] # "unborn"
    BY <1>1 DEF JobInv, CloseJobs, Live
  <2>5. CloseJobs'
    BY <1>1, <2>1, <2>2, <2>3, <2>4, JobsDiffer DEF JobInv, CloseJobs
  <2>6. ListenerJobs'
    BY <1>1, <2>1, JobsDiffer DEF JobInv, ListenerJobs
  <2> QED
    BY <2>5, <2>6 DEF JobInv
<1> QED
  BY <1>2, <1>3 DEF session_cb

(* close_session erases the entry of its own session, or a stranger's if   *)
(* its own is gone.                                                        *)
LEMMA JobClose ==
    ASSUME TypeOK, OwnInv, JobInv, batch # <<>>, NEW s \in Sids,
           Head(batch) = CloseJob(s), close_session(s),
           UNCHANGED <<jobs, closers, dropped>>
    PROVE  JobInv'
<1>1. peer[s] \in Remotes
  BY InTail DEF TypeOK, JobInv, CloseJobs, Posted, OwnInv, Mapped
<1>2. \A j : /\ Posted(j)' => Posted(j)
             /\ PostedOnce(j) => PostedOnce(j)'
             /\ PostedOnce(j) /\ Head(batch) = j => ~Posted(j)'
  BY TailTakes DEF close_session
<1>3. lst' = lst /\ Erase(peer[s], IF sessions[peer[s]] = s THEN "close" ELSE "stranger")
  BY DEF close_session
<1>4. \A t \in Sids :
         /\ obj[t] # "unborn" => obj'[t] # "unborn"
         /\ obj'[t] = "freed" <=> cause'[t] # "none"
         /\ cause'[t] = "close" => cause[t] = "close" \/ t = s
  <2> SUFFICES ASSUME NEW t \in Sids
               PROVE  /\ obj[t] # "unborn" => obj'[t] # "unborn"
                      /\ obj'[t] = "freed" <=> cause'[t] # "none"
                      /\ cause'[t] = "close" => cause[t] = "close" \/ t = s
    OBVIOUS
  <2>1. CASE sessions[peer[s]] = t
    BY <1>1, <1>3, <2>1, EraseParts
  <2>2. CASE sessions[peer[s]] # t
    <3>1. obj'[t] = obj[t] /\ cause'[t] = cause[t]
      BY <1>1, <1>3, <2>2, EraseParts
    <3> QED
      BY <3>1 DEF JobInv, CloseJobs
  <2> QED
    BY <2>1, <2>2
<1>5. CloseJobs'
  BY <1>2, <1>4 DEF JobInv, CloseJobs
<1>6. ListenerJobs'
  BY <1>2, <1>3 DEF JobInv, ListenerJobs
<1> QED
  BY <1>5, <1>6 DEF JobInv

LEMMA JobGone ==
    ASSUME TypeOK, JobInv, batch # <<>>, UNCHANGED <<jobs, closers, dropped>>,
           \/ Head(batch) = ListenerJob /\ ListenerGone("listener")
           \/ Head(batch) = ShutdownJob /\ ListenerGone("shutdown")
    PROVE  JobInv'
<1>1. PICK why \in {"listener", "shutdown"} : ListenerGone(why)
  OBVIOUS
<1>2. \A j : /\ Posted(j)' => Posted(j)
             /\ PostedOnce(j) => PostedOnce(j)'
             /\ PostedOnce(j) /\ Head(batch) = j => ~Posted(j)'
  BY <1>1, TailTakes DEF ListenerGone
<1>3. \A t \in Sids : IF Live(t) THEN obj'[t] = "freed" /\ cause'[t] = why
                                 ELSE obj'[t] = obj[t] /\ cause'[t] = cause[t]
  BY <1>1 DEF ListenerGone, Delete
<1>4. CloseJobs'
  BY <1>1, <1>2, <1>3 DEF JobInv, CloseJobs
<1>5. Head(batch) = ShutdownJob => dropped
  BY InTail DEF TypeOK, JobInv, ListenerJobs, Posted
<1>6. ListenerJobs'
  BY <1>2, <1>5 DEF JobInv, ListenerJobs
<1> QED
  BY <1>4, <1>6 DEF JobInv

LEMMA JobLoop ==
    ASSUME TypeOK, OwnInv, RunInv, JobInv, LoopThread
    PROVE  JobInv'
<1>1. CASE StartRun \/ EndRun \/ BatchDone
  BY <1>1 DEF StartRun, EndRun, BatchDone, history, JobInv, CloseJobs, ListenerJobs,
              Posted, PostedOnce
<1>2. ASSUME NEW cb, NEW before, session_cb(cb, before) PROVE JobInv'
  BY <1>2, JobCallback
<1>3. CASE process_job_queue
  <2>1. /\ batch = <<>> /\ batch' = jobs /\ jobs' = <<>>
        /\ UNCHANGED <<obj, closers, cause, lst, dropped>>
    BY <1>3 DEF process_job_queue, history, RunInv, Alternate
  <2>2. \A j : (Posted(j)' <=> Posted(j)) /\ (PostedOnce(j)' <=> PostedOnce(j))
    BY <2>1, InEmpty DEF Posted, PostedOnce
  <2> QED
    BY <2>1, <2>2 DEF JobInv, CloseJobs, ListenerJobs
<1>4. CASE RunJob
  <2>1. /\ batch # <<>> /\ Head(batch) \in Job
        /\ UNCHANGED <<jobs, closers, dropped>>
    BY <1>4, InTail DEF RunJob, TypeOK
  <2>2. CASE Head(batch).kind = "close" /\ close_session(Head(batch).sid)
    BY <2>1, <2>2, JobTypes, JobClose
  <2>3. CASE Head(batch).kind = "listener" /\ ListenerGone("listener")
    BY <2>1, <2>3, JobTypes, JobGone
  <2>4. CASE Head(batch).kind = "shutdown" /\ ListenerGone("shutdown")
    BY <2>1, <2>4, JobTypes, JobGone
  <2>5. CASE NotFound
    <3>1. /\ \A j : (Posted(j)' => Posted(j)) /\ (PostedOnce(j) => PostedOnce(j)')
          /\ UNCHANGED <<obj, cause, lst>>
      BY <2>1, <2>5, TailTakes DEF NotFound
    <3> QED
      BY <2>1, <3>1 DEF JobInv, CloseJobs, ListenerJobs
  <2>6. CASE Crash
    BY <2>1, <2>6 DEF Crash, JobInv, CloseJobs, ListenerJobs, Posted, PostedOnce
  <2> QED
    BY <1>4, <2>2, <2>3, <2>4, <2>5, <2>6 DEF RunJob
<1> QED
  BY <1>1, <1>2, <1>3, <1>4 DEF LoopThread, connected_cb, read_cb, write_cb, event_cb

-----------------------------------------------------------------------------

LEMMA Initial == Init => IInv
<1> SUFFICES ASSUME Init PROVE IInv
  OBVIOUS
<1>1. TypeOK
  <2>1. pend \in [Sids -> SUBSET Callbacks] /\ active \in SUBSET (Events \X Events)
    BY DEF Init
  <2>2. cause \in [Sids -> {"none", "close", "stranger"} \cup Hardships]
    BY DEF Init
  <2>3. closers \in [Sids -> 0..2] /\ jobs \in Seq(Job) /\ batch \in Seq(Job)
    BY DEF Init
  <2> QED
    BY <2>1, <2>2, <2>3 DEF Init, TypeOK
<1>2. \A j : ~Posted(j) /\ PostedOnce(j)
  BY InEmpty DEF Init, Posted, PostedOnce
<1>3. Mapped /\ OwnedByListener /\ NoOrphans
  BY Distinct DEF Init, Mapped, OwnedByListener, NoOrphans, Live
<1>4. Alternate /\ CallbacksReachLive
  BY DEF Init, Alternate, CallbacksReachLive, Active
<1>5. CloseJobs /\ ListenerJobs
  BY <1>2 DEF Init, CloseJobs, ListenerJobs
<1> QED
  BY <1>1, <1>3, <1>4, <1>5 DEF IInv

LEMMA InvStep == IInv /\ [Next]_vars => IInv'
<1> SUFFICES ASSUME IInv, [Next]_vars PROVE IInv'
  OBVIOUS
<1>1. TypeOK /\ OwnInv /\ RunInv /\ JobInv
  BY DEF IInv, OwnInv, RunInv, JobInv
<1>2. TypeOK' /\ OwnInv'
  BY <1>1, TypeStep, OwnStep DEF RunInv, JobInv
<1>3. CASE Environment
  BY <1>1, <1>2, <1>3, RunEnvironment, JobEnvironment DEF IInv, OwnInv, RunInv, JobInv
<1>4. CASE LoopThread
  <2>1. RunInv' /\ JobInv'
    BY <1>1, <1>4, RunLoop, JobLoop DEF JobInv
  <2> QED
    BY <1>2, <2>1 DEF IInv, OwnInv, RunInv, JobInv
<1>5. CASE UNCHANGED vars
  <2>1. RunInv'
    BY <1>1, <1>5 DEF vars, RunInv, Alternate, CallbacksReachLive, Active, Live
  <2>2. JobInv'
    BY <1>1, <1>5 DEF vars, history, JobInv, CloseJobs, ListenerJobs, Posted, PostedOnce
  <2> QED
    BY <1>2, <2>1, <2>2 DEF IInv, OwnInv, RunInv, JobInv
<1> QED
  BY <1>3, <1>4, <1>5 DEF Next

(* The inductive invariant: types, the map, the alternation of runs and    *)
(* jobs, and what the jobs in the queues say about the objects they point  *)
(* to.                                                                     *)
THEOREM Invariance == Spec => []IInv
BY Initial, InvStep, PTL DEF Spec

(* The type invariant, for any number of remotes and sessions.             *)
THEOREM TypeCorrect == Spec => []TypeOK
<1>1. IInv => TypeOK
  BY DEF IInv
<1> QED
  BY <1>1, Invariance, PTL

(* The live sessions are exactly the ones in the listener's map, each      *)
(* under its own remote: no session is lost without being freed, and none  *)
(* is freed while the map still names it.                                  *)
THEOREM ListenerOwns == Spec => []OwnedByListener
<1>1. IInv => OwnedByListener
  BY DEF IInv
<1> QED
  BY <1>1, Invariance, PTL

(* No callback is delivered to a freed session, and the session whose      *)
(* callbacks are running is not freed under them: close_session only posts *)
(* a job, and jobs run between two runs.                                   *)
THEOREM NoCallbackToFreed == Spec => []CallbacksReachLive
<1>1. IInv => CallbacksReachLive
  BY DEF IInv
<1> QED
  BY <1>1, Invariance, PTL

(* No session outlives its listener, whichever way the listener goes.      *)
THEOREM ListenerTakesSessions == Spec => []NoOrphans
<1>1. IInv => NoOrphans
  BY DEF IInv
<1> QED
  BY <1>1, Invariance, PTL

(* The list of ways in which a job may find its object deleted is          *)
(* complete: a session closed by one callback only, whose remote does not  *)
(* come back, whose listener does not fail and whose endpoint is not       *)
(* dropped is alive when its close job runs.                               *)
THEOREM DanglingHasCause == Spec => []DanglingExplained
<1>1. IInv => DanglingExplained
  <2> SUFFICES ASSUME IInv, batch # <<>>, Dangling(Head(batch))
               PROVE  IF Head(batch).kind = "close"
                        THEN \/ closers[Head(batch).sid] = 2
                             \/ cause[Head(batch).sid] \in Hardships \cup {"stranger"}
                        ELSE dropped
    BY DEF DanglingExplained
  <2>1. TypeOK /\ CloseJobs /\ ListenerJobs
    BY DEF IInv
  <2>2. Head(batch) \in Job /\ Posted(Head(batch))
    BY <2>1, InTail DEF TypeOK, Posted
  <2>3. CASE Head(batch).kind = "close"
    <3>1. PICK s \in Sids : Head(batch) = CloseJob(s) /\ Head(batch).sid = s
      BY <2>2, <2>3, JobTypes
    <3>2. obj[s] = "freed" /\ cause[s] # "none" /\ closers[s] # 0
      BY <2>1, <2>2, <2>3, <3>1 DEF Dangling, CloseJobs
    <3>3. closers[s] = 1 => cause[s] # "close"
      BY <2>1, <2>2, <3>1 DEF CloseJobs
    <3>4. closers[s] \in 0..2 /\ cause[s] \in {"none", "close", "stranger"} \cup Hardships
      BY <2>1 DEF TypeOK
    <3> QED
      BY <2>3, <3>1, <3>2, <3>3, <3>4
  <2>4. CASE Head(batch).kind # "close"
    <3>1. Head(batch) = ListenerJob /\ lst = "freed"
      BY <2>2, <2>4, JobTypes DEF Dangling
    <3> QED
      BY <2>1, <2>2, <2>4, <3>1 DEF ListenerJobs
  <2> QED
    BY <2>3, <2>4
<1> QED
  BY <1>1, Invariance, PTL

-----------------------------------------------------------------------------
(* The life of a session object, step by step.                             *)

(* An object is made once and freed once, and it is freed in the step that *)
(* takes it out of the map.                                                *)
LifeStep ==
    \A s \in Sids : obj'[s] # obj[s] =>
        /\ <<obj[s], obj'[s]>> \in {<<"unborn", "shaking">>, <<"shaking", "open">>,
                                    <<"shaking", "freed">>, <<"open", "freed">>}
        /\ obj'[s] = "freed" => sessions[peer[s]] = s /\ sessions'[peer[s]] = None

(* An entry is never overwritten: it is made for an object that is made in *)
(* the same step, and taken out when its object is freed.                  *)
MapStep ==
    \A r \in Remotes : sessions'[r] # sessions[r] =>
        \/ /\ sessions[r] = None
           /\ obj[sessions'[r]] = "unborn" /\ obj'[sessions'[r]] = "shaking"
        \/ sessions'[r] = None /\ obj'[sessions[r]] = "freed"

LEMMA EraseSteps ==
    ASSUME TypeOK, OwnInv, NEW r \in Remotes, NEW why, Erase(r, why)
    PROVE  LifeStep /\ MapStep
<1>1. \A s \in Sids : IF sessions[r] = s THEN Live(s) /\ obj'[s] = "freed"
                                         ELSE obj'[s] = obj[s]
  BY EraseParts
<1>2. sessions' = [sessions EXCEPT ![r] = None]
  BY DEF Erase
<1>3. LifeStep
  <2> SUFFICES ASSUME NEW s \in Sids, obj'[s] # obj[s]
               PROVE  /\ obj[s] \in {"shaking", "open"} /\ obj'[s] = "freed"
                      /\ sessions[peer[s]] = s /\ sessions'[peer[s]] = None
    BY DEF LifeStep
  <2>1. sessions[r] = s /\ Live(s)
    BY <1>1
  <2>2. peer[s] = r
    BY <2>1, Distinct DEF OwnInv, Mapped
  <2> QED
    BY <1>1, <1>2, <2>1, <2>2 DEF Live, TypeOK
<1>4. MapStep
  BY <1>1, <1>2, Distinct DEF MapStep, TypeOK
<1> QED
  BY <1>3, <1>4

(* Session objects are made and freed in one order, once each, and always  *)
(* together with their entry in the listener's map, whichever operation    *)
(* does it (create_inbound_session, close_session, close_all, ~listener).  *)
THEOREM FreedWithEntry == Spec => [][LifeStep /\ MapStep]_vars
<1>1. IInv /\ [Next]_vars => [LifeStep /\ MapStep]_vars
  <2> SUFFICES ASSUME IInv, Next PROVE (LifeStep /\ MapStep) \/ UNCHANGED vars
    OBVIOUS
  <2>1. TypeOK /\ OwnInv /\ CloseJobs
    BY DEF IInv, OwnInv
  <2>2. ASSUME NEW r \in Remotes, create_inbound_session(r) PROVE LifeStep /\ MapStep
    <3>1. CASE sessions[r] # None
      BY <2>1, <2>2, <3>1, EraseSteps DEF create_inbound_session
    <3>2. CASE sessions[r] = None
      <4>1. PICK s \in Unborn : NewSession(r, s)
        BY <2>2, <3>2 DEF create_inbound_session
      <4> QED
        BY <2>1, <3>2, <4>1 DEF NewSession, Unborn, TypeOK, LifeStep, MapStep
    <3> QED
      BY <3>1, <3>2
  <2>3. ASSUME NEW s \in Sids, NEW cb \in Callbacks, SocketEvent(s, cb)
        PROVE  LifeStep /\ MapStep
    <3>1. UNCHANGED sessions
      BY <2>3 DEF SocketEvent
    <3>2. \A t \in Sids : obj'[t] # obj[t] => obj[t] = "shaking" /\ obj'[t] = "open"
      BY <2>1, <2>3 DEF SocketEvent, TypeOK
    <3> QED
      BY <3>1, <3>2 DEF LifeStep, MapStep
  <2>4. CASE RunJob
    <3>1. Head(batch) \in Job /\ Posted(Head(batch))
      BY <2>1, <2>4, InTail DEF RunJob, TypeOK, Posted
    <3>2. CASE Head(batch).kind = "close" /\ close_session(Head(batch).sid)
      <4>1. PICK s \in Sids : Head(batch) = CloseJob(s) /\ Head(batch).sid = s
        BY <3>1, <3>2, JobTypes
      <4>2. peer[s] \in Remotes
        BY <2>1, <3>1, <4>1 DEF CloseJobs, OwnInv, Mapped, TypeOK
      <4> QED
        BY <2>1, <3>2, <4>1, <4>2, EraseSteps DEF close_session
    <3>3. ASSUME NEW why, ListenerGone(why) PROVE LifeStep /\ MapStep
      <4>1. /\ sessions' = [r \in Remotes |-> None]
            /\ \A s \in Sids : obj'[s] = IF Live(s) THEN "freed" ELSE obj[s]
        BY <3>3 DEF ListenerGone, Delete
      <4>2. \A s \in Sids : Live(s) => peer[s] \in Remotes /\ sessions[peer[s]] = s
        BY <2>1 DEF OwnInv, OwnedByListener, TypeOK
      <4>3. \A r \in Remotes : sessions[r] # None => sessions[r] \in Sids /\ Live(sessions[r])
        BY <2>1 DEF OwnInv, Mapped, TypeOK
      <4>4. LifeStep
        BY <4>1, <4>2 DEF LifeStep, Live
      <4>5. MapStep
        BY <4>1, <4>3 DEF MapStep
      <4> QED
        BY <4>4, <4>5
    <3>4. CASE NotFound \/ Crash
      BY <3>4 DEF NotFound, Crash, LifeStep, MapStep
    <3> QED
      BY <2>4, <3>2, <3>3, <3>4 DEF RunJob
  <2>5. CASE UNCHANGED <<sessions, obj>>
    BY <2>5 DEF LifeStep, MapStep
  <2> QED
    BY <2>2, <2>3, <2>4, <2>5
       DEF Next, Environment, LoopThread, connected_cb, read_cb, write_cb, event_cb,
           AcceptThrows, error_cb, DropEndpoint, StartRun, session_cb, EndRun,
           process_job_queue, BatchDone
<1> QED
  BY <1>1, Invariance, PTL DEF Spec

-----------------------------------------------------------------------------
(* Quiet surroundings: one callback at a time, no remote that comes back   *)
(* while the map still has its entry, no failing listener, and an endpoint *)
(* that is kept.                                                           *)

(* The active queue is ordered, and a session is not in it while its run   *)
(* is in progress.                                                         *)
Ordered ==
    /\ \A e, f \in Events : <<e, f>> \in active => Active(e) /\ Active(f)
    /\ \A e, f \in Events : <<e, f>> \in active /\ <<f, e>> \in active => e = f
    /\ at = "run" => ~Active(cur)

(* A close job that is not yet in a batch has job_waker active, before any *)
(* further run of its session.                                             *)
WakerFirst ==
    \A s \in Sids : In(jobs, CloseJob(s)) =>
        Active(Waker) /\ (Active(s) => <<Waker, s>> \in active)

(* One callback is pending at a time, so that none is left of a run that   *)
(* has closed its session.                                                 *)
OneCallback ==
    /\ \A s \in Sids : \A a, b \in pend[s] : a = b
    /\ at = "run" /\ Posted(CloseJob(cur)) => pend[cur] = {}

(* The jobs in the queues are close jobs, one for each session, and their  *)
(* sessions are alive.                                                     *)
JobsAlive ==
    /\ ~Posted(ListenerJob) /\ ~Posted(ShutdownJob)
    /\ \A s \in Sids : PostedOnce(CloseJob(s)) /\ (Posted(CloseJob(s)) => Live(s))

QuietInv == IInv /\ Ordered /\ WakerFirst /\ OneCallback /\ JobsAlive

(* The pairs of the order when an event enters or events leave.            *)
LEMMA ActivatePairs ==
    ASSUME NEW e \in Events, NEW f \in Events, NEW g \in Events
    PROVE  <<f, g>> \in Activate(e) <=>
             \/ <<f, g>> \in active
             \/ ~Active(e) /\ g = e /\ (f = e \/ Active(f))
<1>1. CASE Active(e)
  BY <1>1 DEF Activate
<1>2. CASE ~Active(e)
  <2>1. Activate(e) = active \cup {<<h, e>> : h \in {e} \cup {h \in Events : Active(h)}}
    BY <1>2 DEF Activate
  <2>2. <<f, g>> \in {<<h, e>> : h \in {e} \cup {h \in Events : Active(h)}} <=>
          g = e /\ (f = e \/ Active(f))
    OBVIOUS
  <2> QED
    BY <1>2, <2>1, <2>2
<1> QED
  BY <1>1, <1>2

LEMMA WithoutPairs ==
    ASSUME NEW E, NEW f \in Events, NEW g \in Events
    PROVE  <<f, g>> \in Without(E) <=> <<f, g>> \in active /\ f \notin E /\ g \notin E
BY DEF Without

LEMMA OrderStays ==
    ASSUME Ordered, at' = "run" => at = "run" /\ cur' = cur,
           \/ active' = active
           \/ \E e \in Events : active' = Activate(e) /\ (at' = "run" => e # cur)
           \/ \E E : active' = Without(E),
           cur \in Events \/ at # "run"
    PROVE  Ordered'
<1>1. CASE active' = active
  BY <1>1 DEF Ordered, Active
<1>2. ASSUME NEW e \in Events, active' = Activate(e), at' = "run" => e # cur
      PROVE  Ordered'
  <2>1. \A f, g \in Events : <<f, g>> \in active' <=>
             \/ <<f, g>> \in active
             \/ ~Active(e) /\ g = e /\ (f = e \/ Active(f))
    BY <1>2, ActivatePairs
  <2>2. \A f, g \in Events : <<f, g>> \in active' => <<f, f>> \in active' /\ <<g, g>> \in active'
    BY <2>1 DEF Ordered, Active
  <2>3. \A f, g \in Events : <<f, g>> \in active' /\ <<g, f>> \in active' => f = g
    BY <2>1 DEF Ordered, Active
  <2>4. at' = "run" => <<cur', cur'>> \notin active'
    BY <1>2, <2>1 DEF Ordered, Active
  <2> QED
    BY <2>2, <2>3, <2>4 DEF Ordered, Active
<1>3. ASSUME NEW E, active' = Without(E) PROVE Ordered'
  <2>1. \A f, g \in Events : <<f, g>> \in active' <=>
             <<f, g>> \in active /\ f \notin E /\ g \notin E
    BY <1>3, WithoutPairs
  <2> QED
    BY <2>1 DEF Ordered, Active
<1> QED
  BY <1>1, <1>2, <1>3

(* A session enters the map: nothing is said about an unborn object.       *)
LEMMA QuietAccept ==
    ASSUME Allowed = {}, QuietInv, NEW r \in Remotes, create_inbound_session(r)
    PROVE  Ordered' /\ WakerFirst' /\ OneCallback' /\ JobsAlive'
<1>1. PICK s \in Unborn : NewSession(r, s)
  BY DEF create_inbound_session
<1>2. at = "poll" /\ UNCHANGED <<at, cur, jobs, batch, pend, active>>
  BY <1>1 DEF create_inbound_session, NewSession
<1>3. \A t \in Sids : Live(t) => Live(t)'
  BY <1>1 DEF NewSession, Unborn, Live, QuietInv, IInv, TypeOK
<1> QED
  BY <1>2, <1>3 DEF QuietInv, Ordered, WakerFirst, OneCallback, JobsAlive, Active,
                    Posted, PostedOnce

(* The run of a session becomes active behind a job that closes it.        *)
LEMMA QuietSocket ==
    ASSUME Allowed = {}, QuietInv, NEW s \in Sids, NEW cb \in Callbacks,
           SocketEvent(s, cb)
    PROVE  Ordered' /\ WakerFirst' /\ OneCallback' /\ JobsAlive'
<1>1. /\ at = "poll" /\ UNCHANGED <<at, cur, jobs, batch>> /\ active' = Activate(s)
      /\ pend[s] = {} /\ TypeOK
  BY DEF SocketEvent, QuietInv, IInv
<1>2. /\ s \in Events /\ Waker \in Events /\ s # Waker
      /\ \A t \in Sids : t \in Events
  BY Distinct DEF Events
<1>3. Ordered'
  BY <1>1, <1>2, OrderStays DEF QuietInv
<1>4. WakerFirst'
  <2>1. \A f, g \in Events : <<f, g>> \in active' <=>
             \/ <<f, g>> \in active
             \/ ~Active(s) /\ g = s /\ (f = s \/ Active(f))
    BY <1>1, <1>2, ActivatePairs
  <2> QED
    BY <1>1, <1>2, <2>1 DEF QuietInv, WakerFirst, Active
<1>5. OneCallback'
  <2>1. pend'[s] = {cb} /\ \A t \in Sids : t # s => pend'[t] = pend[t]
    BY <1>1 DEF SocketEvent, TypeOK
  <2> QED
    BY <1>1, <2>1 DEF QuietInv, OneCallback
<1>6. JobsAlive'
  <2>1. \A t \in Sids : Live(t) => Live(t)'
    BY <1>1 DEF SocketEvent, Live, TypeOK
  <2> QED
    BY <1>1, <2>1 DEF QuietInv, JobsAlive, Posted, PostedOnce
<1> QED
  BY <1>3, <1>4, <1>5, <1>6

(* A run starts when it is first in the queue, hence not behind job_waker: *)
(* its session is not closed.                                              *)
LEMMA QuietStart ==
    ASSUME QuietInv, StartRun
    PROVE  Ordered' /\ WakerFirst' /\ OneCallback' /\ JobsAlive'
<1>1. PICK s \in Sids : First(s) /\ cur' = s /\ active' = Without({s})
  BY DEF StartRun
<1>2. /\ at = "poll" /\ at' = "run" /\ UNCHANGED <<obj, jobs, batch, pend>>
      /\ batch = <<>>
  BY DEF StartRun, QuietInv, IInv, Alternate
<1>3. /\ s \in Events /\ Waker \in Events /\ s # Waker
      /\ \A t \in Sids : t \in Events /\ t # Waker
  BY Distinct DEF Events
<1>4. ~Posted(CloseJob(s))
  <2>1. Active(Waker) => <<Waker, s>> \notin active
    BY <1>1, <1>3 DEF First, QuietInv, Ordered
  <2> QED
    BY <1>1, <1>2, <2>1, InEmpty DEF Posted, QuietInv, WakerFirst, First
<1>5. \A f, g \in Events : <<f, g>> \in active' <=> <<f, g>> \in active /\ f # s /\ g # s
  BY <1>1, WithoutPairs
<1>6. Ordered'
  BY <1>1, <1>3, <1>5 DEF QuietInv, Ordered, Active
<1>7. WakerFirst'
  BY <1>2, <1>3, <1>4, <1>5 DEF QuietInv, WakerFirst, Posted, Active
<1>8. OneCallback' /\ JobsAlive'
  BY <1>1, <1>2, <1>4 DEF QuietInv, OneCallback, JobsAlive, Posted, PostedOnce, Live
<1> QED
  BY <1>6, <1>7, <1>8

(* The only callback of the run posts at most one job, and none is left.   *)
LEMMA QuietCallback ==
    ASSUME QuietInv, NEW cb, NEW before, session_cb(cb, before)
    PROVE  Ordered' /\ WakerFirst' /\ OneCallback' /\ JobsAlive'
<1>1. /\ at = "run" /\ UNCHANGED <<obj, batch, at, cur>> /\ cb \in pend[cur]
      /\ TypeOK /\ cur \in Sids /\ Live(cur)
  BY DEF session_cb, QuietInv, IInv, Alternate, CallbacksReachLive, TypeOK
<1>2. ~Posted(CloseJob(cur))
  BY <1>1 DEF QuietInv, OneCallback
<1>3. pend'[cur] = {} /\ \A t \in Sids : t # cur => pend'[t] = pend[t]
  <2>1. pend'[cur] = pend[cur] \ {cb} /\ \A t \in Sids : t # cur => pend'[t] = pend[t]
    BY <1>1 DEF session_cb, TypeOK
  <2> QED
    BY <1>1, <2>1 DEF QuietInv, OneCallback
<1>4. OneCallback'
  BY <1>1, <1>3 DEF QuietInv, OneCallback
<1>5. CASE UNCHANGED <<jobs, active>>
  BY <1>1, <1>4, <1>5 DEF QuietInv, Ordered, WakerFirst, JobsAlive, Posted, PostedOnce,
                          Active, Live
<1>6. CASE call_soon("close", cur)
  <2>1. /\ Waker \in Events /\ active' = Activate(Waker) /\ cur \in Events
        /\ jobs' = Append(jobs, CloseJob(cur)) /\ cur # Waker
        /\ \A t \in Sids : t \in Events /\ t # Waker
    BY <1>1, <1>6, Distinct DEF call_soon, CloseJob, Events
  <2>2. Ordered'
    BY <1>1, <2>1, OrderStays DEF QuietInv
  <2>3. \A f, g \in Events : <<f, g>> \in active' <=>
             \/ <<f, g>> \in active
             \/ ~Active(Waker) /\ g = Waker /\ (f = Waker \/ Active(f))
    BY <2>1, ActivatePairs
  <2>4. \A j : /\ Posted(j)' <=> Posted(j) \/ CloseJob(cur) = j
               /\ PostedOnce(j) /\ (CloseJob(cur) # j \/ ~Posted(j)) => PostedOnce(j)'
    BY <1>1, <1>6, SoonPosts, JobTypes DEF CloseJob
  <2>5. \A j : In(jobs', j) => In(jobs, j) \/ CloseJob(cur) = j
    BY <1>1, <2>1, InAppend, JobTypes DEF TypeOK
  <2>6. WakerFirst'
    <3>1. <<Waker, Waker>> \in active' /\ <<cur, cur>> \notin active'
      BY <1>1, <2>1, <2>3 DEF Active, QuietInv, Ordered
    <3>2. \A t \in Sids : In(jobs, CloseJob(t)) /\ <<t, t>> \in active' =>
                            <<Waker, t>> \in active'
      BY <2>1, <2>3 DEF Active, QuietInv, WakerFirst
    <3> QED
      BY <2>5, <3>1, <3>2, <1>1, JobsDiffer DEF WakerFirst, Active
  <2>7. JobsAlive'
    BY <1>1, <1>2, <2>4, JobsDiffer DEF QuietInv, JobsAlive, Live
  <2> QED
    BY <1>4, <2>2, <2>6, <2>7
<1> QED
  BY <1>5, <1>6 DEF session_cb

(* The batch is run: each job erases its own session, whose job it was.    *)
LEMMA QuietJob ==
    ASSUME QuietInv, RunJob
    PROVE  Ordered' /\ WakerFirst' /\ OneCallback' /\ JobsAlive'
<1>1. /\ at = "batch" /\ batch # <<>> /\ TypeOK /\ OwnInv /\ jobs' = jobs
      /\ Head(batch) \in Job /\ Posted(Head(batch))
  BY InTail DEF RunJob, QuietInv, IInv, OwnInv, TypeOK, Posted
<1>2. PICK s \in Sids : Head(batch) = CloseJob(s) /\ Head(batch).sid = s
  BY <1>1, JobTypes DEF QuietInv, JobsAlive
<1>3. Live(s) /\ peer[s] \in Remotes /\ sessions[peer[s]] = s
  BY <1>1, <1>2 DEF QuietInv, JobsAlive, OwnInv, OwnedByListener, TypeOK
<1>4. close_session(s)
  <2>1. Head(batch).kind = "close"
    BY <1>2, JobTypes
  <2>2. ~Dangling(Head(batch))
    BY <1>2, <1>3, <2>1 DEF Dangling, Live
  <2> QED
    BY <1>2, <2>1, <2>2 DEF RunJob
<1>5. at' = at /\ batch' = Tail(batch) /\ Erase(peer[s], "close")
  BY <1>3, <1>4 DEF close_session
<1>6. active' = Without({s})
  BY <1>3, <1>5, Distinct DEF Erase, Delete
<1>7. /\ Waker \in Events /\ s # Waker
      /\ \A t \in Sids : t \in Events /\ t # Waker
  BY Distinct DEF Events
<1>8. \A f, g \in Events : <<f, g>> \in active' <=> <<f, g>> \in active /\ f # s /\ g # s
  BY <1>6, WithoutPairs
<1>9. \A j : /\ Posted(j)' => Posted(j)
             /\ PostedOnce(j) => PostedOnce(j)'
             /\ PostedOnce(j) /\ Head(batch) = j => ~Posted(j)'
  BY <1>1, <1>5, TailTakes
<1>10. \A t \in Sids : t # s => obj'[t] = obj[t] /\ pend'[t] = pend[t]
  BY <1>1, <1>3, <1>5, EraseParts
<1>11. Ordered'
  BY <1>1, <1>5, <1>8 DEF QuietInv, Ordered, Active
<1>12. JobsAlive'
  BY <1>2, <1>9, <1>10 DEF QuietInv, JobsAlive, Live
<1>13. WakerFirst'
  <2>1. \A t \in Sids : In(jobs', CloseJob(t)) => In(jobs, CloseJob(t)) /\ t # s
    BY <1>1, <1>2, <1>9 DEF QuietInv, JobsAlive, Posted
  <2> QED
    BY <1>7, <1>8, <2>1 DEF QuietInv, WakerFirst, Active
<1>14. OneCallback'
  <2>1. pend'[s] = {}
    BY <1>1, <1>3, <1>5, EraseParts
  <2> QED
    BY <1>1, <1>5, <1>10, <2>1 DEF QuietInv, OneCallback
<1> QED
  BY <1>11, <1>12, <1>13, <1>14

LEMMA QuietStep ==
    ASSUME Allowed = {}, QuietInv, [Next]_vars
    PROVE  QuietInv'
<1>1. IInv'
  BY InvStep DEF QuietInv
<1> SUFFICES Ordered' /\ WakerFirst' /\ OneCallback' /\ JobsAlive'
  BY <1>1 DEF QuietInv
<1>2. ASSUME NEW r \in Remotes, create_inbound_session(r)
      PROVE  Ordered' /\ WakerFirst' /\ OneCallback' /\ JobsAlive'
  BY <1>2, QuietAccept
<1>3. ASSUME NEW s \in Sids, NEW cb \in Callbacks, SocketEvent(s, cb)
      PROVE  Ordered' /\ WakerFirst' /\ OneCallback' /\ JobsAlive'
  BY <1>3, QuietSocket
<1>4. CASE StartRun
  BY <1>4, QuietStart
<1>5. ASSUME NEW cb, NEW before, session_cb(cb, before)
      PROVE  Ordered' /\ WakerFirst' /\ OneCallback' /\ JobsAlive'
  BY <1>5, QuietCallback
<1>6. CASE process_job_queue
  <2>1. /\ at = "poll" /\ at' = "batch" /\ batch = <<>> /\ batch' = jobs /\ jobs' = <<>>
        /\ UNCHANGED <<obj, pend>> /\ active' = Without({Waker})
    BY <1>6 DEF process_job_queue, QuietInv, IInv, Alternate
  <2>2. \A j : (Posted(j)' <=> Posted(j)) /\ (PostedOnce(j)' <=> PostedOnce(j))
    BY <2>1, InEmpty DEF Posted, PostedOnce
  <2>3. Ordered'
    BY <2>1, OrderStays DEF QuietInv
  <2>4. WakerFirst'
    BY <2>1, InEmpty DEF WakerFirst
  <2>5. OneCallback' /\ JobsAlive'
    BY <2>1, <2>2 DEF QuietInv, OneCallback, JobsAlive, Live
  <2> QED
    BY <2>3, <2>4, <2>5
<1>7. CASE RunJob
  BY <1>7, QuietJob
<1>8. CASE /\ UNCHANGED <<obj, pend, active, jobs, batch>>
           /\ at' = "run" => at = "run" /\ cur' = cur
  BY <1>8 DEF QuietInv, Ordered, WakerFirst, OneCallback, JobsAlive, Active, Live,
              Posted, PostedOnce
<1>9. ~error_cb /\ ~DropEndpoint
  BY DEF error_cb, DropEndpoint
<1> QED
  BY <1>2, <1>3, <1>4, <1>5, <1>6, <1>7, <1>8, <1>9
     DEF Next, Environment, LoopThread, connected_cb, read_cb, write_cb, event_cb,
         AcceptThrows, EndRun, BatchDone, vars

(* In quiet surroundings the bare pointers are safe, for any number of     *)
(* remotes and sessions: no job ever finds its object deleted.  The        *)
(* session that posts a close job is still in the map when the job runs,   *)
(* because the job is served before any further callback of the session    *)
(* (close_session, process_job_queue, listener::close_session).            *)
THEOREM QuietIsSafe ==
    ASSUME Allowed = {}
    PROVE  Spec => []NoDanglingJob
<1>1. Init => QuietInv
  <2> SUFFICES ASSUME Init PROVE QuietInv
    OBVIOUS
  <2>1. \A j : ~Posted(j) /\ PostedOnce(j) /\ ~In(jobs, j)
    BY InEmpty DEF Init, Posted, PostedOnce
  <2> QED
    BY <2>1, Initial DEF Init, QuietInv, Ordered, WakerFirst, OneCallback, JobsAlive, Active
<1>2. QuietInv /\ [Next]_vars => QuietInv'
  BY QuietStep
<1>3. QuietInv => NoDanglingJob
  <2> SUFFICES ASSUME QuietInv, batch # <<>> PROVE ~Dangling(Head(batch))
    BY DEF NoDanglingJob
  <2>1. Head(batch) \in Job /\ Posted(Head(batch))
    BY InTail DEF QuietInv, IInv, TypeOK, Posted
  <2>2. PICK s \in Sids : Head(batch) = CloseJob(s) /\ Live(s)
    BY <2>1, JobTypes DEF QuietInv, JobsAlive
  <2> QED
    BY <2>2, JobTypes DEF Dangling, Live
<1> QED
  BY <1>1, <1>2, <1>3, PTL DEF Spec

=============================================================================
