------------------------------ MODULE Watcher ------------------------------
(***************************************************************************)
(* Timers: ev_watcher and the ticker functions of event_loop               *)
(* (include/wshttp/loop.hpp, src/loop.cpp).                                *)
(*                                                                         *)
(* call_every hands the application an ev_watcher it can start and stop;   *)
(* call_later makes a one-shot watcher that owns itself through its own    *)
(* callback and is deleted when that callback has run.  Both are libevent  *)
(* timer events without EV_PERSIST: once added, an event fires once.       *)
(*                                                                         *)
(* Time is a steady clock of Micro ticks per microsecond; libevent counts  *)
(* whole microseconds.                                                     *)
(***************************************************************************)
EXTENDS Naturals

CONSTANTS
    Watchers,   \* identities of watchers (bound: watchers made)
    Micro,      \* clock ticks per microsecond
    Delays,     \* delays and intervals, in microseconds
    MaxFires    \* bound: firings counted per watcher

ASSUME TimeUnits == /\ Micro \in Nat \ {0} /\ Delays \subseteq Nat
                    /\ MaxFires \in Nat \ {0, 1}

(* The event of a watcher is not in libevent's timer heap.                 *)
NotAdded == [added |-> FALSE, left |-> 0]
Added(d) == [added |-> TRUE, left |-> d]

VARIABLES
    sub,        \* the clock's position within the current microsecond
    kind,       \* per watcher: "none", "every" (call_every), "later"
    state,      \* per watcher: "unborn", "queued" (a job of call_later not
                \* yet run), "live", "deleting" (a delete job not yet run),
                \* "deleted", "leaked"
    ev,         \* per watcher: its event, with the microseconds left
    interval,   \* per watcher
    running,    \* per watcher: _is_running
    hasf,       \* per watcher: f is not empty
    togo,       \* per watcher: clock ticks until target_time, 0 once reached
    early,      \* per watcher: togo at its first firing
    fires,      \* per watcher: number of firings
    loop        \* the event loop: "up", "gone", or "crashed"

vars == <<sub, kind, state, ev, interval, running, hasf, togo, early,
          fires, loop>>

TypeOK ==
    /\ sub \in 0..(Micro - 1)
    /\ kind \in [Watchers -> {"none", "every", "later"}]
    /\ state \in [Watchers -> {"unborn", "queued", "live", "deleting",
                               "deleted", "leaked"}]
    /\ ev \in [Watchers -> [added : BOOLEAN, left : Nat]]
    /\ interval \in [Watchers -> Nat]
    /\ running \in [Watchers -> BOOLEAN]
    /\ hasf \in [Watchers -> BOOLEAN]
    /\ togo \in [Watchers -> Nat]
    /\ early \in [Watchers -> Nat]
    /\ fires \in [Watchers -> 0..MaxFires]
    /\ loop \in {"up", "gone", "crashed"}

Init ==
    /\ sub = 0
    /\ kind = [w \in Watchers |-> "none"]
    /\ state = [w \in Watchers |-> "unborn"]
    /\ ev = [w \in Watchers |-> NotAdded]
    /\ interval = [w \in Watchers |-> 0]
    /\ running = [w \in Watchers |-> FALSE]
    /\ hasf = [w \in Watchers |-> FALSE]
    /\ togo = [w \in Watchers |-> 0]
    /\ early = [w \in Watchers |-> 0]
    /\ fires = [w \in Watchers |-> 0]
    /\ loop = "up"

-----------------------------------------------------------------------------
(* ev_watcher.                                                             *)

(* Variant: the flag is left to the caller.                                *)
start_NoFlag(w, d) ==
    /\ ev' = [ev EXCEPT ![w] = Added(d)]
    /\ UNCHANGED running

(* Variant: the time it takes to get here is taken off.                    *)
start_OneLess(w, d) ==
    /\ ev' = [ev EXCEPT ![w] = Added(d - 1)]
    /\ running' = [running EXCEPT ![w] = TRUE]

(* start, when the watcher is not running: event_add.                      *)
start(w, d) ==
    /\ ev' = [ev EXCEPT ![w] = Added(d)]
    /\ running' = [running EXCEPT ![w] = TRUE]

(* stop, when the watcher is running: event_del.                           *)
stop(w) ==
    /\ ev' = [ev EXCEPT ![w] = NotAdded]
    /\ running' = [running EXCEPT ![w] = FALSE]

(* The flags decide only whether the event is added at once; the variant   *)
(* of f that adds it again is for fixed_interval, which no caller passes.  *)
init_event(w, d, one_off, start_immediately) ==
    /\ interval' = [interval EXCEPT ![w] = d]
    /\ hasf' = [hasf EXCEPT ![w] = TRUE]
    /\ IF one_off \/ start_immediately THEN start(w, d) ELSE UNCHANGED <<ev, running>>

-----------------------------------------------------------------------------
(* The application.                                                        *)

(* call_every: _call_every passes its two flags one place further left     *)
(* than init_event expects them.                                           *)
call_every(w, d, start_immediately, wait) ==
    /\ loop = "up" /\ state[w] = "unborn"
    /\ kind' = [kind EXCEPT ![w] = "every"]
    /\ state' = [state EXCEPT ![w] = "live"]
    /\ init_event(w, d, start_immediately, wait)
    /\ UNCHANGED <<sub, togo, early, fires, loop>>

CallStart(w) ==
    /\ loop = "up" /\ kind[w] = "every" /\ state[w] = "live"
    /\ ~running[w]
    /\ start(w, interval[w])
    /\ UNCHANGED <<sub, kind, state, interval, hasf, togo, early, fires, loop>>

CallStop(w) ==
    /\ loop = "up" /\ kind[w] = "every" /\ state[w] = "live"
    /\ running[w]
    /\ stop(w)
    /\ UNCHANGED <<sub, kind, state, interval, hasf, togo, early, fires, loop>>

(* ~ev_watcher: the event is freed with the watcher.                       *)
Destroy(w) ==
    /\ state' = [state EXCEPT ![w] = "deleted"]
    /\ ev' = [ev EXCEPT ![w] = NotAdded]
    /\ hasf' = [hasf EXCEPT ![w] = FALSE]

(* The application drops a watcher of call_every: loop_deleter deletes it  *)
(* on the loop thread, at once or by a job.  With the loop gone the        *)
(* deleter runs on freed memory.                                           *)
Drop(w) ==
    /\ kind[w] = "every" /\ state[w] = "live"
    /\ \/ /\ loop = "up"
          /\ Destroy(w)
          /\ UNCHANGED loop
       \/ /\ loop = "up"
          /\ state' = [state EXCEPT ![w] = "deleting"]
          /\ UNCHANGED <<ev, hasf, loop>>
       \/ /\ loop = "gone"
          /\ loop' = "crashed"
          /\ UNCHANGED <<state, ev, hasf>>
    /\ UNCHANGED <<sub, kind, interval, running, togo, early, fires>>

DeleteJob(w) ==
    /\ loop = "up" /\ state[w] = "deleting"
    /\ Destroy(w)
    /\ UNCHANGED <<sub, kind, interval, running, togo, early, fires, loop>>

add_oneshot_event(w, d) ==
    /\ state' = [state EXCEPT ![w] = "live"]
    /\ init_event(w, d, TRUE, TRUE)

(* call_later on the loop thread, and from any other thread.               *)
call_later(w, d, in_event_loop) ==
    /\ loop = "up" /\ state[w] = "unborn"
    /\ kind' = [kind EXCEPT ![w] = "later"]
    /\ togo' = [togo EXCEPT ![w] = d * Micro]
    /\ IF in_event_loop
         THEN add_oneshot_event(w, d)
         ELSE /\ state' = [state EXCEPT ![w] = "queued"]
              /\ UNCHANGED <<ev, interval, running, hasf>>
    /\ UNCHANGED <<sub, early, fires, loop>>

(* The user's function is called.                                          *)
Called(w) ==
    /\ fires' = [fires EXCEPT ![w] = IF @ < MaxFires THEN @ + 1 ELSE @]
    /\ early' = [early EXCEPT ![w] = IF fires[w] = 0 THEN togo[w] ELSE @]

(* Variant: what remains is rounded to the next microsecond and back, one  *)
(* too few.                                                                *)
LaterJob_OneLess(w) ==
    /\ loop = "up" /\ state[w] = "queued"
    /\ IF togo[w] <= Micro
         THEN /\ Called(w)
              /\ state' = [state EXCEPT ![w] = "deleted"]
              /\ UNCHANGED <<ev, interval, running, hasf>>
         ELSE /\ add_oneshot_event(w, (togo[w] \div Micro) - 1)
              /\ UNCHANGED <<early, fires>>
    /\ UNCHANGED <<sub, kind, togo, loop>>

(* The job of call_later: too late to wait, or wait for what remains,      *)
(* truncated to microseconds.                                              *)
LaterJob(w) ==
    /\ loop = "up" /\ state[w] = "queued"
    /\ IF togo[w] = 0
         THEN /\ Called(w)
              /\ state' = [state EXCEPT ![w] = "deleted"]
              /\ UNCHANGED <<ev, interval, running, hasf>>
         ELSE /\ add_oneshot_event(w, togo[w] \div Micro)
              /\ UNCHANGED <<early, fires>>
    /\ UNCHANGED <<sub, kind, togo, loop>>

-----------------------------------------------------------------------------
(* libevent.                                                               *)

(* Variant: the event stays in the timer heap.                             *)
Fire_Persists(w) ==
    /\ loop = "up" /\ ev[w].added /\ ev[w].left = 0
    /\ IF hasf[w] THEN Called(w) ELSE UNCHANGED <<fires, early>>
    /\ ev' = [ev EXCEPT ![w] = Added(interval[w])]
    /\ UNCHANGED <<sub, kind, state, interval, running, hasf, togo, loop>>

(* Variant: the one-shot watcher keeps its reference to itself.            *)
Fire_KeepsSelf(w) ==
    /\ loop = "up" /\ ev[w].added /\ ev[w].left = 0
    /\ IF hasf[w] THEN Called(w) ELSE UNCHANGED <<fires, early>>
    /\ ev' = [ev EXCEPT ![w] = NotAdded]
    /\ UNCHANGED <<sub, kind, state, interval, running, hasf, togo, loop>>

(* A due event fires: it leaves the timer heap, then f is called.  The f   *)
(* of a one-shot drops the watcher's last reference when it is done, also  *)
(* when the user's function throws.                                        *)
Fire(w) ==
    /\ loop = "up" /\ ev[w].added /\ ev[w].left = 0
    /\ IF hasf[w] THEN Called(w) ELSE UNCHANGED <<fires, early>>
    /\ IF kind[w] = "later"
         THEN Destroy(w)
         ELSE /\ ev' = [ev EXCEPT ![w] = NotAdded]
              /\ UNCHANGED <<state, hasf>>
    /\ UNCHANGED <<sub, kind, interval, running, togo, loop>>

Tick ==
    /\ loop = "up"
    /\ sub' = (sub + 1) % Micro
    /\ togo' = [w \in Watchers |-> IF togo[w] > 0 THEN togo[w] - 1 ELSE 0]
    /\ ev' = [w \in Watchers |->
                IF sub' = 0 /\ ev[w].left > 0
                  THEN [ev[w] EXCEPT !.left = @ - 1]
                  ELSE ev[w]]
    /\ UNCHANGED <<kind, state, interval, running, hasf, early, fires, loop>>

-----------------------------------------------------------------------------
(* ~event_loop: after the join, the functions of all watchers are emptied  *)
(* and the watchers stopped.  A one-shot loses its last reference with its *)
(* function; the delete job it posts is never run.                         *)
Reached(w) == state[w] = "live"

destroy_loop ==
    /\ loop = "up"
    /\ loop' = "gone"
    /\ hasf' = [w \in Watchers |-> IF Reached(w) THEN FALSE ELSE hasf[w]]
    /\ running' = [w \in Watchers |-> IF Reached(w) THEN FALSE ELSE running[w]]
    /\ ev' = [w \in Watchers |->
                IF Reached(w) /\ running[w] THEN NotAdded ELSE ev[w]]
    /\ state' = [w \in Watchers |->
                  IF state[w] \in {"queued", "deleting"}
                     \/ (Reached(w) /\ kind[w] = "later")
                    THEN "leaked" ELSE state[w]]
    /\ UNCHANGED <<sub, kind, interval, togo, early, fires>>

LoopJobs(w) == DeleteJob(w) \/ LaterJob(w)

App(w) ==
    \/ \E d \in Delays :
          \/ \E start_immediately, wait \in BOOLEAN :
                call_every(w, d, start_immediately, wait)
          \/ \E in_event_loop \in BOOLEAN : call_later(w, d, in_event_loop)
    \/ CallStart(w) \/ CallStop(w) \/ Drop(w)

Next ==
    \/ \E w \in Watchers : App(w) \/ LoopJobs(w) \/ Fire(w)
    \/ Tick
    \/ destroy_loop
    \/ loop # "up" /\ UNCHANGED vars

Spec == Init /\ [][Next]_vars

(* Time passes, posted jobs run (EventLoop), and due events fire.          *)
Fairness ==
    /\ WF_vars(Tick)
    /\ \A w \in Watchers : WF_vars(LoopJobs(w)) /\ WF_vars(Fire(w))

FairSpec == Spec /\ Fairness

-----------------------------------------------------------------------------
(* Properties.                                                             *)

(* An event in libevent's timer heap belongs to a watcher that exists and  *)
(* says that it is running, so that stop() does take it out again and no   *)
(* freed watcher is called back (start, stop, ~ev_watcher).                *)
ArmedIsRunning ==
    \A w \in Watchers :
        ev[w].added =>
            \/ running[w] /\ hasf[w] /\ state[w] \in {"live", "deleting"}
            \/ state[w] = "leaked"

(* A one-shot runs at most once, and it is gone when it has run.           *)
OneShotOnce ==
    \A w \in Watchers :
        kind[w] = "later" /\ fires[w] > 0 => fires[w] = 1 /\ state[w] = "deleted"

(* call_later does not run its function two microseconds or more before    *)
(* its time: both truncations together lose less (call_later, event_add).  *)
NotEarly == \A w \in Watchers : kind[w] = "later" => early[w] < 2 * Micro

(* What call_later was given runs, and the watcher does not outlive it,    *)
(* unless the loop is destroyed before.                                    *)
OneShotRuns ==
    \A w \in Watchers :
        kind[w] = "later" ~> (fires[w] = 1 /\ state[w] = "deleted") \/ loop # "up"

(* loop.hpp 138-148: call_every returns a handler of "the repeated event": *)
(* as long as it is neither stopped nor dropped, it fires again.           *)
TickerRepeats ==
    \A w \in Watchers :
        kind[w] = "every" /\ fires[w] = 1 /\ running[w] ~>
            fires[w] > 1 \/ ~running[w] \/ state[w] # "live" \/ loop # "up"

=============================================================================
