------------------------------ MODULE Inbound ------------------------------
(***************************************************************************)
(* A listener and its inbound sessions: include/wshttp/listener.hpp,       *)
(* src/listener.cpp, and the life cycle part of src/session.cpp.           *)
(*                                                                         *)
(* The listener owns its sessions through a map keyed by remote address.   *)
(* A session that wants to end posts a job to the event loop; the job      *)
(* refers to the session by a bare pointer and asks the listener to erase  *)
(* the entry of its remote.  Meanwhile the listener accepts, errors and    *)
(* shuts down.  What the callbacks of a session do besides closing it is   *)
(* the subject of SessionIO.                                               *)
(*                                                                         *)
(* libevent runs active callbacks in the order in which they became        *)
(* active: the deferred run of a session's bufferevent, or job_waker.      *)
(***************************************************************************)
EXTENDS Naturals, Sequences

CONSTANTS
    Remotes,        \* remote addresses
    Sids,           \* identities of session objects (bound: sessions made)
    None, Waker,    \* no session; the job_waker event
    Allowed         \* what the surroundings may do, of Hardships

(* Several callbacks of a session are pending in one run; a remote         *)
(* connects while the map still has its entry; accepting fails; the        *)
(* application drops the endpoint.                                         *)
Hardships == {"several", "reconnect", "listener", "shutdown"}

ASSUME Distinct == None \notin Sids \cup Remotes /\ Waker \notin Sids
ASSUME Settings == Allowed \subseteq Hardships

(* What libevent runs: the deferred run of a bufferevent, and job_waker.   *)
Events == Sids \cup {Waker}

Callbacks == {"connected", "read", "write", "event"}

Job == [kind : {"close"}, sid : Sids] \cup [kind : {"listener", "shutdown"}, sid : {None}]

VARIABLES
    lst,        \* the listener: "open", or "freed"
    sessions,   \* listener::_sessions
    peer,       \* per session object: _path.remote()
    obj,        \* per session object: "unborn", then "shaking" during the
                \* TLS handshake, "open", and "freed"
    pend,       \* per session object: callbacks pending in its bufferevent
    active,     \* libevent's active queue, as the order of its members:
                \* <<x, y>> if x is y or became active before y
    jobs,       \* job_queue of the event loop
    batch,      \* the jobs swapped out by process_job_queue
    at,         \* where the loop thread is
    cur,        \* the session whose deferred run is in progress
    dropped,    \* the application has dropped the endpoint
    \* History, read by the properties only:
    closers,    \* per session object: callbacks that closed it (2 for more)
    cause       \* per session object: what deleted it

history == <<closers, cause>>
vars == <<lst, sessions, peer, obj, pend, active, jobs, batch, at, cur, dropped,
          history>>

TypeOK ==
    /\ lst \in {"open", "freed"}
    /\ sessions \in [Remotes -> Sids \cup {None}]
    /\ peer \in [Sids -> Remotes \cup {None}]
    /\ obj \in [Sids -> {"unborn", "shaking", "open", "freed"}]
    /\ pend \in [Sids -> SUBSET Callbacks]
    /\ active \in SUBSET (Events \X Events)
    /\ jobs \in Seq(Job)
    /\ batch \in Seq(Job)
    /\ at \in {"poll", "run", "batch", "crashed", "terminated"}
    /\ cur \in Sids \cup {None}
    /\ dropped \in BOOLEAN
    /\ closers \in [Sids -> 0..2]
    /\ cause \in [Sids -> {"none", "close", "stranger"} \cup Hardships]

Init ==
    /\ lst = "open"
    /\ sessions = [r \in Remotes |-> None]
    /\ peer = [s \in Sids |-> None]
    /\ obj = [s \in Sids |-> "unborn"]
    /\ pend = [s \in Sids |-> {}]
    /\ active = {}
    /\ jobs = <<>>
    /\ batch = <<>>
    /\ at = "poll"
    /\ cur = None
    /\ dropped = FALSE
    /\ closers = [s \in Sids |-> 0]
    /\ cause = [s \in Sids |-> "none"]

-----------------------------------------------------------------------------
(* Helpers.                                                                *)

Live(s) == obj[s] \in {"shaking", "open"}
Unborn == {s \in Sids : obj[s] = "unborn"}

(* The queue of active events: its members, the one whose turn it is, an   *)
(* event entering at the end unless it is there, and events leaving.       *)
Active(e) == <<e, e>> \in active
First(e) == Active(e) /\ \A f \in Events : Active(f) => <<e, f>> \in active
Activate(e) ==
    IF Active(e) THEN active
    ELSE active \cup {<<f, e>> : f \in {e} \cup {g \in Events : Active(g)}}
Without(E) == {p \in active : p[1] \notin E /\ p[2] \notin E}

(* call_soon: the job is queued and job_waker becomes active.              *)
call_soon(kind, s) ==
    /\ jobs' = Append(jobs, [kind |-> kind, sid |-> s])
    /\ active' = Activate(Waker)

(* Variant: the bufferevents survive their sessions.                       *)
Delete_KeepsBev(S, why) ==
    /\ obj' = [s \in Sids |-> IF s \in S THEN "freed" ELSE obj[s]]
    /\ cause' = [s \in Sids |-> IF s \in S THEN why ELSE cause[s]]
    /\ UNCHANGED <<pend, active>>

(* Session objects are deleted: their bufferevents go, and with them what  *)
(* was pending or active.                                                  *)
Delete(S, why) ==
    /\ obj' = [s \in Sids |-> IF s \in S THEN "freed" ELSE obj[s]]
    /\ cause' = [s \in Sids |-> IF s \in S THEN why ELSE cause[s]]
    /\ pend' = [s \in Sids |-> IF s \in S THEN {} ELSE pend[s]]
    /\ active' = Without(S)

(* Variant: the session is reset in place and its entry stays.             *)
Erase_KeepsEntry(r, why) ==
    /\ Delete({sessions[r]} \ {None}, why)
    /\ UNCHANGED sessions

(* _sessions.erase(remote): drops the only reference to the session.       *)
Erase(r, why) ==
    /\ sessions' = [sessions EXCEPT ![r] = None]
    /\ Delete({sessions[r]} \ {None}, why)

-----------------------------------------------------------------------------
(* The listener.                                                           *)

(* Variant: the path is built from the wrong address.                      *)
NewSession_WrongPath(r, s) ==
    /\ obj' = [obj EXCEPT ![s] = "shaking"]
    /\ peer' = [peer EXCEPT ![s] = s]
    /\ sessions' = [sessions EXCEPT ![r] = s]
    /\ UNCHANGED <<pend, active>>

(* The session object is made and enters the map under its remote.         *)
NewSession(r, s) ==
    /\ obj' = [obj EXCEPT ![s] = "shaking"]
    /\ peer' = [peer EXCEPT ![s] = r]
    /\ sessions' = [sessions EXCEPT ![r] = s]
    /\ UNCHANGED <<pend, active>>

(* accept_cb, create_inbound_session.  On a remote already in the map the  *)
(* code erases the entry it found, and the new socket is forgotten.        *)
create_inbound_session(r) ==
    /\ at = "poll" /\ lst = "open"
    /\ IF sessions[r] # None
         THEN "reconnect" \in Allowed /\ Erase(r, "reconnect") /\ UNCHANGED peer
         ELSE /\ Unborn # {}
              /\ NewSession(r, CHOOSE s \in Unborn : TRUE)
              /\ UNCHANGED cause
    /\ UNCHANGED <<lst, jobs, batch, at, cur, dropped, closers>>

(* The constructor of inbound_session throws out of accept_cb.             *)
AcceptThrows(r) ==
    /\ at = "poll" /\ lst = "open" /\ sessions[r] = None
    /\ at' = "terminated"
    /\ UNCHANGED <<lst, sessions, peer, obj, pend, active, jobs, batch, cur,
                   dropped, history>>

(* error_cb, listener::close_listener.  The listening socket is polled     *)
(* again only after the job it posted.                                     *)
error_cb ==
    /\ "listener" \in Allowed /\ at = "poll" /\ lst = "open"
    /\ \A i \in 1..Len(jobs) : jobs[i].kind # "listener"
    /\ call_soon("listener", None)
    /\ UNCHANGED <<lst, sessions, peer, obj, pend, batch, at, cur, dropped, history>>

-----------------------------------------------------------------------------
(* The bufferevents.                                                       *)

(* The socket of s makes a callback pending, and the deferred run active:  *)
(* "connected" ends the handshake, after which the others come; nothing    *)
(* follows the end of the connection.  (In libevent the sockets are polled *)
(* only when the active queue is empty; here at any time between two       *)
(* callbacks.)                                                             *)
SocketEvent(s, cb) ==
    /\ at = "poll" /\ Live(s)
    /\ cb \notin pend[s] /\ pend[s] \cap {"connected", "event"} = {}
    /\ cb = "connected" => obj[s] = "shaking"
    /\ cb \in {"read", "write"} => obj[s] = "open"
    /\ "several" \in Allowed \/ pend[s] = {}
    /\ obj' = [obj EXCEPT ![s] = IF cb = "connected" THEN "open" ELSE @]
    /\ pend' = [pend EXCEPT ![s] = @ \cup {cb}]
    /\ active' = Activate(s)
    /\ UNCHANGED <<lst, sessions, peer, jobs, batch, at, cur, dropped, history>>

StartRun ==
    /\ at = "poll"
    /\ at' = "run"
    /\ \E s \in Sids : First(s) /\ cur' = s /\ active' = Without({s})
    /\ UNCHANGED <<lst, sessions, peer, obj, pend, jobs, batch, dropped, history>>

(* Variant: the end of the connection is only logged.                      *)
session_cb_KeepsOpen(cb, before) ==
    /\ at = "run" /\ cb \in pend[cur] /\ pend[cur] \cap before = {}
    /\ pend' = [pend EXCEPT ![cur] = @ \ {cb}]
    /\ UNCHANGED <<lst, sessions, peer, obj, jobs, active, batch, at, cur, dropped,
                   history>>

ClosedOnceMore(s) == closers' = [closers EXCEPT ![s] = IF @ = 2 THEN 2 ELSE @ + 1]

(* Variant: the error path closes, and the end of the callback once more.  *)
session_cb_ClosesTwice(cb, before) ==
    /\ at = "run" /\ cb \in pend[cur] /\ pend[cur] \cap before = {}
    /\ pend' = [pend EXCEPT ![cur] = @ \ {cb}]
    /\ jobs' = jobs \o [i \in 1..2 |-> [kind |-> "close", sid |-> cur]]
    /\ active' = Activate(Waker)
    /\ ClosedOnceMore(cur)
    /\ UNCHANGED <<lst, sessions, peer, obj, batch, at, cur, dropped, cause>>

(* One callback of the run.  event_cb always calls close_session at its    *)
(* end unless the connection was just set up; read_cb and write_cb may.    *)
session_cb(cb, before) ==
    /\ at = "run" /\ cb \in pend[cur] /\ pend[cur] \cap before = {}
    /\ pend' = [pend EXCEPT ![cur] = @ \ {cb}]
    /\ \/ call_soon("close", cur) /\ ClosedOnceMore(cur)
       \/ cb # "event" /\ UNCHANGED <<jobs, active, closers>>
    /\ UNCHANGED <<lst, sessions, peer, obj, batch, at, cur, dropped, cause>>

connected_cb == session_cb("connected", {})
read_cb == session_cb("read", {"connected"})
write_cb == session_cb("write", {"connected", "read"})
event_cb == session_cb("event", {"connected", "read", "write"})

EndRun ==
    /\ at = "run" /\ pend[cur] = {}
    /\ at' = "poll"
    /\ cur' = None
    /\ UNCHANGED <<lst, sessions, peer, obj, pend, active, jobs, batch, dropped,
                   history>>

-----------------------------------------------------------------------------
(* The jobs.                                                               *)

(* Variant: one job per wake-up, the rest stays in the queue.              *)
process_job_queue_One ==
    /\ at = "poll" /\ First(Waker)
    /\ active' = Without({Waker})
    /\ batch' = SubSeq(jobs, 1, 1)
    /\ jobs' = Tail(jobs)
    /\ at' = "batch"
    /\ UNCHANGED <<lst, sessions, peer, obj, pend, cur, dropped, history>>

process_job_queue ==
    /\ at = "poll" /\ First(Waker)
    /\ active' = Without({Waker})
    /\ batch' = jobs
    /\ jobs' = <<>>
    /\ at' = "batch"
    /\ UNCHANGED <<lst, sessions, peer, obj, pend, cur, dropped, history>>

Dangling(job) ==
    \/ job.kind = "close" /\ obj[job.sid] = "freed"
    \/ job.kind = "listener" /\ lst = "freed"

(* Use after free: the process crashes, or goes on with the old contents   *)
(* of the freed session.                                                   *)
Crash ==
    /\ at' = "crashed"
    /\ UNCHANGED <<lst, sessions, peer, obj, pend, active, batch, cause>>

(* listener::close_session(_path.remote()).                                *)
close_session(s) ==
    /\ Erase(peer[s], IF sessions[peer[s]] = s THEN "close" ELSE "stranger")
    /\ batch' = Tail(batch)
    /\ UNCHANGED <<lst, peer, at>>

(* The listener is destroyed and its map with it.                          *)
ListenerGone(why) ==
    /\ lst' = "freed"
    /\ sessions' = [r \in Remotes |-> None]
    /\ Delete({s \in Sids : Live(s)}, why)
    /\ batch' = Tail(batch)
    /\ UNCHANGED <<peer, at>>

(* _local.port() is not the listener's key: getsockname was called with an *)
(* uninitialised length and may have cut the port off.                     *)
NotFound ==
    /\ batch' = Tail(batch)
    /\ UNCHANGED <<lst, sessions, peer, obj, pend, active, at, cause>>

(* endpoint::close_listener erases by port; ~endpoint closes all sessions  *)
(* and clears _listeners.                                                  *)
RunJob ==
    /\ at = "batch" /\ batch # <<>>
    /\ LET job == Head(batch) IN
         \/ job.kind = "close" /\ (Dangling(job) => lst = "open") /\ close_session(job.sid)
         \/ /\ job.kind = "listener" /\ ~Dangling(job)
            /\ ListenerGone("listener") \/ NotFound
         \/ job.kind = "shutdown" /\ ListenerGone("shutdown")
         \/ Dangling(job) /\ Crash
    /\ UNCHANGED <<jobs, cur, dropped, closers>>

BatchDone ==
    /\ at = "batch" /\ batch = <<>>
    /\ at' = "poll"
    /\ UNCHANGED <<lst, sessions, peer, obj, pend, active, jobs, batch, cur, dropped,
                   history>>

(* Another thread drops the endpoint: the deleter runs ~endpoint as a job. *)
DropEndpoint ==
    /\ "shutdown" \in Allowed /\ ~dropped /\ at \notin {"crashed", "terminated"}
    /\ dropped' = TRUE
    /\ call_soon("shutdown", None)
    /\ UNCHANGED <<lst, sessions, peer, obj, pend, batch, at, cur, history>>

Over == at \in {"crashed", "terminated"}

Environment ==
    \/ \E r \in Remotes : create_inbound_session(r) \/ AcceptThrows(r)
    \/ error_cb
    \/ \E s \in Sids, cb \in Callbacks : SocketEvent(s, cb)
    \/ DropEndpoint

LoopThread ==
    \/ StartRun \/ connected_cb \/ read_cb \/ write_cb \/ event_cb \/ EndRun
    \/ process_job_queue \/ RunJob \/ BatchDone

Idle == Over \/ (at = "poll" /\ active = {})

Next ==
    \/ Environment \/ LoopThread
    \/ Idle /\ UNCHANGED vars

Spec == Init /\ [][Next]_vars

(* The loop thread keeps running; nothing is asked of the surroundings.    *)
FairSpec == Spec /\ WF_vars(LoopThread)

-----------------------------------------------------------------------------
(* Properties.                                                             *)

(* The map and the session objects agree: the live sessions are exactly    *)
(* the ones in the map, each under its own remote (create_inbound_session, *)
(* close_session, close_all).                                              *)
OwnedByListener ==
    \A s \in Sids :
        Live(s) <=> peer[s] # None /\ sessions[peer[s]] = s

(* Only live sessions have callbacks to come: none is delivered to a freed *)
(* session, and the run in progress is that of a live one.                 *)
CallbacksReachLive ==
    /\ \A s \in Sids : (pend[s] # {} \/ Active(s)) => Live(s)
    /\ at = "run" => Live(cur)

(* A session whose peer is gone is freed (event_cb, close_session), if the *)
(* process survives.                                                       *)
GoneIsFreed ==
    \A s \in Sids : "event" \in pend[s] ~> obj[s] = "freed" \/ Over

(* A dropped endpoint takes its listener and every session with it,        *)
(* whatever jobs and callbacks are in the queues at that time              *)
(* (loop_deleter, ~endpoint), if the process survives.                     *)
DropFrees ==
    dropped ~> Over \/ (lst = "freed" /\ \A s \in Sids : ~Live(s))

(* session.cpp 319-328, listener.cpp 60-64: a close job captures its       *)
(* session, and a listener job its listener, by bare pointer.  This is the *)
(* whole list of ways in which the object may be gone when the job runs:   *)
(* two callbacks closed the session, its remote connected again, the       *)
(* listener failed or the endpoint was dropped in between, or a job that   *)
(* was itself dangling erased a newer session of the same remote.          *)
DanglingExplained ==
    at = "batch" /\ batch # <<>> /\ Dangling(Head(batch)) =>
        LET job == Head(batch) IN
          IF job.kind = "close"
            THEN closers[job.sid] = 2 \/ cause[job.sid] \in Hardships \cup {"stranger"}
            ELSE dropped

(* listener.cpp 69-70 and session.cpp 324-327 take for granted that the    *)
(* object a job captured has not been deleted when the job runs.           *)
NoDanglingJob ==
    at = "batch" /\ batch # <<>> => ~Dangling(Head(batch))

=============================================================================
