--------------------------- MODULE Watcher_proofs ---------------------------
(***************************************************************************)
(* Proofs about Watcher, for any number of watchers, every set of delays   *)
(* and every resolution of the clock.                                      *)
(***************************************************************************)
EXTENDS Watcher, TLAPS

(* What makes ArmedIsRunning inductive: a ticker the application still     *)
(* holds has its function as long as the loop is up (init_event, and       *)
(* ~event_loop, which empties it), and watchers leak only with the loop.   *)
Callable ==
    /\ \A w \in Watchers :
          kind[w] = "every" /\ state[w] = "live" /\ loop = "up" => hasf[w]
    /\ \A w \in Watchers : state[w] = "leaked" => loop # "up"

(* What makes OneShotOnce inductive: a watcher starts without a past.      *)
Fresh == \A w \in Watchers : state[w] = "unborn" => fires[w] = 0 /\ early[w] = 0

(* What makes NotEarly inductive.  The event of a one-shot that has left   *)
(* microseconds to wait was given at most one microsecond less than the    *)
(* time that remained then, and libevent's first microsecond is shorter by *)
(* the part of it that had already passed.                                 *)
OnTime ==
    \A w \in Watchers :
        kind[w] = "later" /\ ev[w].added =>
            togo[w] + sub < (ev[w].left + 2) * Micro

IInv ==
    /\ TypeOK /\ Callable /\ ArmedIsRunning
    /\ Fresh /\ OneShotOnce /\ OnTime /\ NotEarly

-----------------------------------------------------------------------------
(* Arithmetic of the clock.                                                *)

(* The truncation of chrono::duration_cast loses less than one unit.       *)
LEMMA Truncation ==
    ASSUME NEW t \in Nat
    PROVE  /\ t \div Micro \in Nat
           /\ t < (t \div Micro + 1) * Micro
BY TimeUnits

LEMMA ClockStep ==
    ASSUME NEW s \in 0..(Micro - 1)
    PROVE  /\ (s + 1) % Micro \in 0..(Micro - 1)
           /\ s + 1 < Micro => (s + 1) % Micro = s + 1
           /\ s + 1 = Micro => (s + 1) % Micro = 0
BY TimeUnits

-----------------------------------------------------------------------------
(* Types.                                                                  *)

LEMMA EventTypes ==
    /\ NotAdded \in [added : BOOLEAN, left : Nat] /\ ~NotAdded.added
    /\ \A d \in Nat : /\ Added(d) \in [added : BOOLEAN, left : Nat]
                       /\ Added(d).added /\ Added(d).left = d
BY DEF NotAdded, Added

LEMMA TypeInitEvent ==
    ASSUME TypeOK, NEW w \in Watchers, NEW d \in Nat,
           NEW one_off \in BOOLEAN, NEW start_immediately \in BOOLEAN,
           init_event(w, d, one_off, start_immediately)
    PROVE  /\ ev' \in [Watchers -> [added : BOOLEAN, left : Nat]]
           /\ interval' \in [Watchers -> Nat]
           /\ running' \in [Watchers -> BOOLEAN]
           /\ hasf' \in [Watchers -> BOOLEAN]
BY EventTypes DEF TypeOK, init_event, start

LEMMA CalledOnce ==
    ASSUME TypeOK, NEW w \in Watchers, Called(w)
    PROVE  /\ fires[w] = 0 => fires'[w] = 1 /\ early'[w] = togo[w]
           /\ fires[w] # 0 => fires'[w] # 0 /\ early'[w] = early[w]
           /\ \A v \in Watchers \ {w} : fires'[v] = fires[v] /\ early'[v] = early[v]
BY TimeUnits DEF TypeOK, Called

LEMMA TypeCalled ==
    ASSUME TypeOK, NEW w \in Watchers, Called(w)
    PROVE  fires' \in [Watchers -> 0..MaxFires] /\ early' \in [Watchers -> Nat]
<1>1. fires[w] \in 0..MaxFires /\ MaxFires \in Nat
  BY TimeUnits DEF TypeOK
<1>2. (IF fires[w] < MaxFires THEN fires[w] + 1 ELSE fires[w]) \in 0..MaxFires
  BY <1>1
<1>3. fires' \in [Watchers -> 0..MaxFires]
  BY <1>2 DEF TypeOK, Called
<1>4. early' \in [Watchers -> Nat]
  BY DEF TypeOK, Called
<1> QED
  BY <1>3, <1>4

LEMMA TypeStep == TypeOK /\ [Next]_vars => TypeOK'
<1> SUFFICES ASSUME TypeOK, [Next]_vars PROVE TypeOK'
  OBVIOUS
<1>1. ASSUME NEW w \in Watchers, NEW d \in Delays,
             NEW a \in BOOLEAN, NEW b \in BOOLEAN, call_every(w, d, a, b)
      PROVE  TypeOK'
  BY <1>1, TypeInitEvent, TimeUnits DEF TypeOK, call_every
<1>2. ASSUME NEW w \in Watchers, NEW d \in Delays, NEW a \in BOOLEAN,
             call_later(w, d, a)
      PROVE  TypeOK'
  <2>1. d \in Nat /\ d * Micro \in Nat
    BY TimeUnits
  <2>2. CASE a
    BY <1>2, <2>1, <2>2, TypeInitEvent DEF TypeOK, call_later, add_oneshot_event
  <2>3. CASE ~a
    BY <1>2, <2>1, <2>3 DEF TypeOK, call_later
  <2> QED
    BY <2>2, <2>3
<1>3. ASSUME NEW w \in Watchers, CallStart(w) PROVE TypeOK'
  BY <1>3, EventTypes DEF TypeOK, CallStart, start
<1>4. ASSUME NEW w \in Watchers, CallStop(w) PROVE TypeOK'
  BY <1>4, EventTypes DEF TypeOK, CallStop, stop
<1>5. ASSUME NEW w \in Watchers, Drop(w) PROVE TypeOK'
  <2>1. CASE Destroy(w) /\ UNCHANGED loop
    BY <1>5, <2>1, EventTypes DEF TypeOK, Drop, Destroy
  <2>2. CASE ~(Destroy(w) /\ UNCHANGED loop)
    BY <1>5, <2>2 DEF TypeOK, Drop
  <2> QED
    BY <2>1, <2>2
<1>6. ASSUME NEW w \in Watchers, DeleteJob(w) PROVE TypeOK'
  BY <1>6, EventTypes DEF TypeOK, DeleteJob, Destroy
<1>7. ASSUME NEW w \in Watchers, LaterJob(w) PROVE TypeOK'
  <2>1. CASE togo[w] = 0
    BY <1>7, <2>1, TypeCalled DEF TypeOK, LaterJob
  <2>2. CASE togo[w] # 0
    BY <1>7, <2>2, TypeInitEvent, Truncation DEF TypeOK, LaterJob, add_oneshot_event
  <2> QED
    BY <2>1, <2>2
<1>8. ASSUME NEW w \in Watchers, Fire(w) PROVE TypeOK'
  <2>1. /\ fires' \in [Watchers -> 0..MaxFires]
        /\ early' \in [Watchers -> Nat]
    BY <1>8, TypeCalled DEF TypeOK, Fire
  <2>2. /\ ev' \in [Watchers -> [added : BOOLEAN, left : Nat]]
        /\ hasf' \in [Watchers -> BOOLEAN]
        /\ state' \in [Watchers -> {"unborn", "queued", "live", "deleting",
                                    "deleted", "leaked"}]
    <3>1. CASE kind[w] = "later"
      <4>1. Destroy(w)
        BY <1>8, <3>1 DEF Fire
      <4> QED
        BY <4>1, EventTypes DEF TypeOK, Destroy
    <3>2. CASE kind[w] # "later"
      <4>1. ev' = [ev EXCEPT ![w] = NotAdded] /\ UNCHANGED <<state, hasf>>
        BY <1>8, <3>2 DEF Fire
      <4> QED
        BY <4>1, EventTypes DEF TypeOK
    <3> QED
      BY <3>1, <3>2
  <2> QED
    BY <1>8, <2>1, <2>2 DEF TypeOK, Fire
<1>9. CASE Tick
  <2>1. sub' \in 0..(Micro - 1)
    BY <1>9, ClockStep DEF TypeOK, Tick
  <2>2. togo' \in [Watchers -> Nat]
    BY <1>9 DEF TypeOK, Tick
  <2>3. ev' \in [Watchers -> [added : BOOLEAN, left : Nat]]
    BY <1>9 DEF TypeOK, Tick
  <2> QED
    BY <1>9, <2>1, <2>2, <2>3 DEF TypeOK, Tick
<1>10. CASE destroy_loop
  BY <1>10, EventTypes DEF TypeOK, destroy_loop, Reached
<1>11. CASE UNCHANGED vars
  BY <1>11 DEF TypeOK, vars
<1> QED
  BY <1>1, <1>2, <1>3, <1>4, <1>5, <1>6, <1>7, <1>8, <1>9, <1>10, <1>11
     DEF Next, App, LoopJobs

-----------------------------------------------------------------------------
(* Watchers and their events.                                              *)

LifeInv == Callable /\ ArmedIsRunning /\ Fresh /\ OneShotOnce

LEMMA LifeInit == Init => LifeInv
BY EventTypes DEF Init, LifeInv, Callable, ArmedIsRunning, Fresh, OneShotOnce

(* What the application does: it makes watchers, starts, stops and drops   *)
(* them.                                                                   *)
LEMMA LifeApp ==
    ASSUME TypeOK, LifeInv, NEW w \in Watchers, App(w)
    PROVE  LifeInv'
<1> USE EventTypes, TimeUnits DEF TypeOK, LifeInv, Callable, ArmedIsRunning, Fresh, OneShotOnce
<1>1. ASSUME NEW d \in Delays, NEW a \in BOOLEAN, NEW b \in BOOLEAN,
             call_every(w, d, a, b)
      PROVE  LifeInv'
  BY <1>1 DEF call_every, init_event, start
<1>2. ASSUME NEW d \in Delays, NEW a \in BOOLEAN, call_later(w, d, a)
      PROVE  LifeInv'
  <2>1. CASE a
    BY <1>2, <2>1 DEF call_later, add_oneshot_event, init_event, start
  <2>2. CASE ~a
    <3>1. Callable'
      BY <1>2, <2>2 DEF call_later
    <3>2. ArmedIsRunning'
      BY <1>2, <2>2 DEF call_later
    <3>3. Fresh'
      BY <1>2, <2>2 DEF call_later
    <3>4. OneShotOnce'
      BY <1>2, <2>2 DEF call_later
    <3> QED
      BY <3>1, <3>2, <3>3, <3>4
  <2> QED
    BY <2>1, <2>2
<1>3. CASE CallStart(w)
  BY <1>3 DEF CallStart, start
<1>4. CASE CallStop(w)
  BY <1>4 DEF CallStop, stop
<1>5. CASE Drop(w)
  <2>1. CASE Destroy(w) /\ UNCHANGED loop
    BY <1>5, <2>1 DEF Drop, Destroy
  <2>2. CASE ~(Destroy(w) /\ UNCHANGED loop)
    BY <1>5, <2>2 DEF Drop
  <2> QED
    BY <2>1, <2>2
<1> QED
  BY <1>1, <1>2, <1>3, <1>4, <1>5 DEF App

(* What the loop does: its jobs, libevent, and its own end.                *)
LEMMA LifeLoop ==
    ASSUME TypeOK, LifeInv,
           \/ \E w \in Watchers : LoopJobs(w) \/ Fire(w)
           \/ Tick \/ destroy_loop \/ UNCHANGED vars
    PROVE  LifeInv'
<1> USE EventTypes, TimeUnits DEF TypeOK, LifeInv, Callable, ArmedIsRunning, Fresh, OneShotOnce
<1>1. ASSUME NEW w \in Watchers, DeleteJob(w) PROVE LifeInv'
  BY <1>1 DEF DeleteJob, Destroy
<1>2. ASSUME NEW w \in Watchers, LaterJob(w) PROVE LifeInv'
  <2>1. CASE togo[w] = 0
    <3>1. /\ Called(w) /\ state[w] = "queued"
          /\ state' = [state EXCEPT ![w] = "deleted"]
          /\ UNCHANGED <<ev, running, hasf, kind, loop>>
      BY <1>2, <2>1 DEF LaterJob
    <3>2. ~ev[w].added
      BY <3>1
    <3>3. kind[w] = "later" => fires[w] = 0
      BY <3>1
    <3> QED
      BY <3>1, <3>2, <3>3, CalledOnce, TypeCalled
  <2>2. CASE togo[w] # 0
    <3>1. PICK d \in Nat : add_oneshot_event(w, d)
      BY <1>2, <2>2, Truncation DEF LaterJob
    <3>2. UNCHANGED <<kind, fires, early, loop>> /\ state[w] = "queued" /\ loop = "up"
      BY <1>2, <2>2 DEF LaterJob
    <3> QED
      BY <3>1, <3>2 DEF add_oneshot_event, init_event, start
  <2> QED
    BY <2>1, <2>2
<1>3. ASSUME NEW w \in Watchers, Fire(w) PROVE LifeInv'
  <2>1. hasf[w] /\ running[w] /\ state[w] \in {"live", "deleting"}
    BY <1>3 DEF Fire
  <2>2. Called(w)
    BY <1>3, <2>1 DEF Fire
  <2>3. CASE kind[w] = "later"
    <3>1. Destroy(w) /\ UNCHANGED <<kind, running, loop>>
      BY <1>3, <2>3 DEF Fire
    <3> QED
      BY <2>1, <2>2, <2>3, <3>1, CalledOnce, TypeCalled DEF Destroy
  <2>4. CASE kind[w] # "later"
    <3>1. /\ ev' = [ev EXCEPT ![w] = NotAdded]
          /\ UNCHANGED <<state, hasf, kind, running, loop>>
      BY <1>3, <2>4 DEF Fire
    <3>2. Callable'
      BY <2>1, <2>2, <2>4, <3>1, CalledOnce, TypeCalled
    <3>3. ArmedIsRunning'
      BY <2>1, <2>2, <2>4, <3>1, CalledOnce, TypeCalled
    <3>4. Fresh'
      BY <2>1, <2>2, <2>4, <3>1, CalledOnce, TypeCalled
    <3>5. OneShotOnce'
      BY <2>1, <2>2, <2>4, <3>1, CalledOnce, TypeCalled
    <3> QED
      BY <3>2, <3>3, <3>4, <3>5
  <2> QED
    BY <2>3, <2>4
<1>4. CASE Tick
  BY <1>4 DEF Tick
<1>5. CASE destroy_loop
  BY <1>5 DEF destroy_loop, Reached
<1>6. CASE UNCHANGED vars
  BY <1>6 DEF vars
<1> QED
  BY <1>1, <1>2, <1>3, <1>4, <1>5, <1>6 DEF LoopJobs

-----------------------------------------------------------------------------
(* Firing on time.                                                         *)

TimeInv == OnTime /\ NotEarly

LEMMA TimeInit == Init => TimeInv
BY TimeUnits, EventTypes DEF Init, TimeInv, OnTime, NotEarly

(* Adding the event of a one-shot for d microseconds, when less than one   *)
(* more remains, keeps OnTime at any phase of the clock.                   *)
LEMMA AddedOnTime ==
    ASSUME TypeOK, NEW t \in Nat, NEW d \in Nat, t < (d + 1) * Micro
    PROVE  t + sub < (d + 2) * Micro
<1>1. (d + 2) * Micro = (d + 1) * Micro + Micro /\ (d + 1) * Micro \in Nat
  BY TimeUnits
<1> QED
  BY <1>1, TimeUnits DEF TypeOK

LEMMA OnTimeAdded ==
    ASSUME TypeOK, TimeInv, NEW w \in Watchers, NEW d \in Nat,
           init_event(w, d, TRUE, TRUE), sub' = sub,
           togo'[w] \in Nat, togo'[w] < (d + 1) * Micro,
           \A v \in Watchers \ {w} : togo'[v] = togo[v] /\ kind'[v] = kind[v]
    PROVE  OnTime'
<1>1. ev' = [ev EXCEPT ![w] = Added(d)]
  BY DEF init_event, start
<1>2. ev'[w].left = d
  BY <1>1, EventTypes DEF TypeOK
<1>3. togo'[w] + sub' < (ev'[w].left + 2) * Micro
  BY <1>2, AddedOnTime
<1>4. \A v \in Watchers \ {w} : ev'[v] = ev[v]
  BY <1>1 DEF TypeOK
<1> QED
  BY <1>3, <1>4 DEF TimeInv, OnTime

LEMMA TimeApp ==
    ASSUME TypeOK, LifeInv, TimeInv, NEW w \in Watchers, App(w)
    PROVE  TimeInv'
<1>1. ASSUME NEW d \in Delays, NEW a \in BOOLEAN, NEW b \in BOOLEAN,
             call_every(w, d, a, b)
      PROVE  TimeInv'
  <2>1. kind'[w] # "later" /\ \A v \in Watchers \ {w} : kind'[v] = kind[v] /\ ev'[v] = ev[v]
    BY <1>1 DEF call_every, init_event, start, TypeOK
  <2> QED
    BY <1>1, <2>1 DEF call_every, TimeInv, OnTime, NotEarly
<1>2. ASSUME NEW d \in Delays, NEW a \in BOOLEAN, call_later(w, d, a)
      PROVE  TimeInv'
  <2>1. /\ d \in Nat /\ d * Micro \in Nat
        /\ (d + 1) * Micro = d * Micro + Micro
    BY TimeUnits
  <2>2. /\ togo'[w] = d * Micro /\ sub' = sub /\ early' = early
        /\ \A v \in Watchers \ {w} : togo'[v] = togo[v] /\ kind'[v] = kind[v]
    BY <1>2, <2>1 DEF call_later, TypeOK
  <2>3. early[w] = 0 /\ ~ev[w].added
    BY <1>2 DEF call_later, LifeInv, Fresh, ArmedIsRunning
  <2>4. NotEarly'
    BY <2>2, <2>3, TimeUnits DEF TimeInv, NotEarly
  <2>5. CASE a
    <3>1. init_event(w, d, TRUE, TRUE)
      BY <1>2, <2>5 DEF call_later, add_oneshot_event
    <3>2. togo'[w] < (d + 1) * Micro
      BY <2>1, <2>2, TimeUnits
    <3> QED
      BY <2>1, <2>2, <2>4, <3>1, <3>2, OnTimeAdded DEF TimeInv
  <2>6. CASE ~a
    <3>1. ev' = ev
      BY <1>2, <2>6 DEF call_later
    <3> QED
      BY <2>2, <2>3, <2>4, <3>1 DEF TimeInv, OnTime
  <2> QED
    BY <2>5, <2>6
<1>3. CASE CallStart(w) \/ CallStop(w)
  <2>1. /\ kind[w] # "later" /\ UNCHANGED <<sub, kind, togo, early>>
        /\ \A v \in Watchers \ {w} : ev'[v] = ev[v]
    BY <1>3 DEF CallStart, CallStop, start, stop, TypeOK
  <2> QED
    BY <2>1 DEF TimeInv, OnTime, NotEarly
<1>4. CASE Drop(w)
  <2>1. /\ kind[w] # "later" /\ UNCHANGED <<sub, kind, togo, early>>
        /\ \A v \in Watchers \ {w} : ev'[v] = ev[v]
    BY <1>4 DEF Drop, Destroy, TypeOK
  <2> QED
    BY <2>1 DEF TimeInv, OnTime, NotEarly
<1> QED
  BY <1>1, <1>2, <1>3, <1>4 DEF App

LEMMA TimeFire ==
    ASSUME TypeOK, LifeInv, TimeInv, NEW w \in Watchers, Fire(w)
    PROVE  TimeInv'
<1>1. /\ ev[w].added /\ ev[w].left = 0 /\ hasf[w]
      /\ kind[w] = "later" => fires[w] = 0
  BY TimeUnits DEF Fire, TypeOK, LifeInv, ArmedIsRunning, Callable, OneShotOnce
<1>2. Called(w) /\ UNCHANGED <<sub, kind, togo>>
  BY <1>1 DEF Fire
<1>3. ev' = [ev EXCEPT ![w] = NotAdded]
  BY DEF Fire, Destroy
<1>4. ~ev'[w].added /\ \A v \in Watchers \ {w} : ev'[v] = ev[v]
  BY <1>3, EventTypes DEF TypeOK
<1>5. OnTime'
  BY <1>2, <1>4 DEF TimeInv, OnTime
<1>6. kind[w] = "later" => togo[w] < 2 * Micro
  <2>1. kind[w] = "later" => togo[w] + sub < (0 + 2) * Micro
    BY <1>1 DEF TimeInv, OnTime
  <2> QED
    BY <2>1, TimeUnits DEF TypeOK
<1>7. NotEarly'
  BY <1>1, <1>2, <1>6, CalledOnce DEF TimeInv, NotEarly
<1> QED
  BY <1>5, <1>7 DEF TimeInv

(* One tick of the clock, on the arithmetic alone: s is the phase, t what  *)
(* is left to the target and l the microseconds libevent still waits.      *)
LEMMA TickOnTime ==
    ASSUME NEW s \in 0..(Micro - 1), NEW t \in Nat, NEW l \in Nat,
           t + s < (l + 2) * Micro
    PROVE  LET s1 == (s + 1) % Micro
               t1 == IF t > 0 THEN t - 1 ELSE 0
               l1 == IF s1 = 0 /\ l > 0 THEN l - 1 ELSE l
           IN  t1 + s1 < (l1 + 2) * Micro
<1> DEFINE s1 == (s + 1) % Micro
           t1 == IF t > 0 THEN t - 1 ELSE 0
           l1 == IF s1 = 0 /\ l > 0 THEN l - 1 ELSE l
<1>1. CASE s + 1 < Micro
  <2>1. s1 = s + 1 /\ s1 # 0 /\ l1 = l
    BY <1>1, ClockStep
  <2>2. (l + 2) * Micro = l * Micro + 2 * Micro /\ l * Micro \in Nat
    BY TimeUnits
  <2>3. t1 + (s + 1) < (l + 2) * Micro
    BY <1>1, <2>2, TimeUnits
  <2> QED
    BY <2>1, <2>3
<1>2. CASE s + 1 = Micro
  <2>1. s1 = 0 /\ l1 = IF l > 0 THEN l - 1 ELSE l
    BY <1>2, ClockStep
  <2>2. (l + 2) * Micro = (l + 1) * Micro + Micro /\ (l + 1) * Micro \in Nat
    BY TimeUnits
  <2>3. t1 + 0 < (l + 1) * Micro
    BY <1>2, <2>2, TimeUnits
  <2>4. (l1 + 2) * Micro >= (l + 1) * Micro
    <3>1. CASE l > 0
      <4>1. l1 + 2 = l + 1
        BY <2>1, <3>1
      <4> QED
        BY <4>1, <2>2
    <3>2. CASE l = 0
      <4>1. l1 = l
        BY <2>1, <3>2
      <4> QED
        BY <4>1, <2>2, TimeUnits
    <3> QED
      BY <3>1, <3>2
  <2>5. (l1 + 2) * Micro \in Nat /\ t1 \in Nat
    BY <2>1, TimeUnits
  <2> QED
    BY <2>1, <2>2, <2>3, <2>4, <2>5
<1> QED
  BY <1>1, <1>2, TimeUnits

LEMMA TimeLoop ==
    ASSUME TypeOK, LifeInv, TimeInv,
           \/ \E w \in Watchers : LoopJobs(w) \/ Fire(w)
           \/ Tick \/ destroy_loop \/ UNCHANGED vars
    PROVE  TimeInv'
<1>1. ASSUME NEW w \in Watchers, DeleteJob(w) PROVE TimeInv'
  <2>1. /\ UNCHANGED <<sub, kind, togo, early>> /\ ~ev'[w].added
        /\ \A v \in Watchers \ {w} : ev'[v] = ev[v]
    BY <1>1, EventTypes DEF DeleteJob, Destroy, TypeOK
  <2> QED
    BY <2>1 DEF TimeInv, OnTime, NotEarly
<1>2. ASSUME NEW w \in Watchers, LaterJob(w) PROVE TimeInv'
  <2>1. UNCHANGED <<sub, kind, togo>>
    BY <1>2 DEF LaterJob
  <2>2. CASE togo[w] = 0
    <3>1. Called(w) /\ ev' = ev
      BY <1>2, <2>2 DEF LaterJob
    <3>2. OnTime'
      BY <2>1, <3>1 DEF TimeInv, OnTime
    <3>3. NotEarly'
      BY <2>1, <2>2, <3>1, CalledOnce, TimeUnits DEF TimeInv, NotEarly
    <3> QED
      BY <3>2, <3>3 DEF TimeInv
  <2>3. CASE togo[w] # 0
    <3>1. early' = early /\ init_event(w, togo[w] \div Micro, TRUE, TRUE)
      BY <1>2, <2>3 DEF LaterJob, add_oneshot_event
    <3>2. /\ togo[w] \in Nat /\ togo[w] \div Micro \in Nat
          /\ togo[w] < (togo[w] \div Micro + 1) * Micro
      BY Truncation DEF TypeOK
    <3>3. OnTime'
      BY <2>1, <3>1, <3>2, OnTimeAdded
    <3> QED
      BY <2>1, <3>1, <3>3 DEF TimeInv, NotEarly
  <2> QED
    BY <2>2, <2>3
<1>3. ASSUME NEW w \in Watchers, Fire(w) PROVE TimeInv'
  BY <1>3, TimeFire
<1>4. CASE Tick
  <2>1. UNCHANGED <<kind, early>>
    BY <1>4 DEF Tick
  <2> SUFFICES ASSUME NEW w \in Watchers, kind[w] = "later", ev'[w].added
               PROVE  togo'[w] + sub' < (ev'[w].left + 2) * Micro
    BY <2>1 DEF TimeInv, OnTime, NotEarly
  <2>2. /\ sub' = (sub + 1) % Micro
        /\ togo'[w] = IF togo[w] > 0 THEN togo[w] - 1 ELSE 0
    BY <1>4 DEF Tick
  <2>3. /\ ev'[w].added = ev[w].added
        /\ ev'[w].left = IF sub' = 0 /\ ev[w].left > 0 THEN ev[w].left - 1 ELSE ev[w].left
    BY <1>4 DEF Tick, TypeOK
  <2>4. /\ sub \in 0..(Micro - 1) /\ togo[w] \in Nat /\ ev[w].left \in Nat
        /\ togo[w] + sub < (ev[w].left + 2) * Micro
    BY <2>3 DEF TypeOK, TimeInv, OnTime
  <2> QED
    BY <2>2, <2>3, <2>4, TickOnTime
<1>5. CASE destroy_loop
  <2>1. /\ UNCHANGED <<sub, kind, togo, early>>
        /\ \A w \in Watchers : ev'[w] = ev[w] \/ ~ev'[w].added
    BY <1>5, EventTypes DEF destroy_loop
  <2> QED
    BY <2>1 DEF TimeInv, OnTime, NotEarly
<1>6. CASE UNCHANGED vars
  BY <1>6 DEF vars, TimeInv, OnTime, NotEarly
<1> QED
  BY <1>1, <1>2, <1>3, <1>4, <1>5, <1>6 DEF LoopJobs

-----------------------------------------------------------------------------

(* The inductive invariant: types, the life of a watcher and its event,    *)
(* and the distance between a one-shot's event and its target.             *)
THEOREM Invariance == Spec => []IInv
<1>1. IInv <=> TypeOK /\ LifeInv /\ TimeInv
  BY DEF IInv, LifeInv, TimeInv
<1>2. Init => IInv
  <2>1. Init => TypeOK
    BY EventTypes, TimeUnits DEF Init, TypeOK
  <2> QED
    BY <1>1, <2>1, LifeInit, TimeInit
<1>3. IInv /\ [Next]_vars => IInv'
  <2>1. TypeOK /\ LifeInv /\ TimeInv /\ [Next]_vars => TypeOK' /\ LifeInv' /\ TimeInv'
    BY TypeStep, LifeApp, LifeLoop, TimeApp, TimeLoop DEF Next
  <2> QED
    BY <2>1 DEF IInv, LifeInv, TimeInv
<1> QED
  BY <1>2, <1>3, PTL DEF Spec

(* The type invariant, for every clock resolution and set of delays.       *)
THEOREM TypeCorrect == Spec => []TypeOK
<1>1. IInv => TypeOK
  BY DEF IInv
<1> QED
  BY <1>1, Invariance, PTL

(* An event in libevent's timer heap belongs to a watcher that exists, has *)
(* a function to call and says that it is running: start(), stop() and     *)
(* ~ev_watcher never leave an event behind that would call a freed one.    *)
THEOREM ArmedWatchersRun == Spec => []ArmedIsRunning
<1>1. IInv => ArmedIsRunning
  BY DEF IInv
<1> QED
  BY <1>1, Invariance, PTL

(* call_later: the function runs at most once, and the watcher that owns   *)
(* itself is gone when it has run.                                         *)
THEOREM LaterRunsOnce == Spec => []OneShotOnce
<1>1. IInv => OneShotOnce
  BY DEF IInv
<1> QED
  BY <1>1, Invariance, PTL

(* call_later: two truncations to whole microseconds, one of the time that *)
(* remains and one of libevent's clock, together run the function less     *)
(* than two microseconds early, whatever the delay and however long its    *)
(* job was queued.                                                         *)
THEOREM LaterIsNotEarly == Spec => []NotEarly
<1>1. IInv => NotEarly
  BY DEF IInv
<1> QED
  BY <1>1, Invariance, PTL

-----------------------------------------------------------------------------
(* Step by step.                                                           *)

(* A watcher is made for call_every or for call_later, and only the latter *)
(* waits in a job.                                                         *)
Kinds ==
    \A w \in Watchers : /\ state[w] = "unborn" => kind[w] = "none"
                        /\ state[w] = "queued" => kind[w] = "later"

LEMMA KindStep == TypeOK /\ Kinds /\ [Next]_vars => Kinds'
<1> SUFFICES ASSUME TypeOK, Kinds, [Next]_vars PROVE Kinds'
  OBVIOUS
<1> USE DEF TypeOK, Kinds
<1>1. ASSUME NEW w \in Watchers, NEW d, NEW a, NEW b, call_every(w, d, a, b) PROVE Kinds'
  BY <1>1 DEF call_every
<1>2. ASSUME NEW w \in Watchers, NEW d, NEW a, call_later(w, d, a) PROVE Kinds'
  <2>1. \/ state' = [state EXCEPT ![w] = "live"]
        \/ state' = [state EXCEPT ![w] = "queued"]
    BY <1>2 DEF call_later, add_oneshot_event
  <2> QED
    BY <1>2, <2>1 DEF call_later
<1>3. ASSUME NEW w \in Watchers, kind' = kind, NEW v \in {"live", "deleting", "deleted"},
             state' = [state EXCEPT ![w] = v]
      PROVE  Kinds'
  BY <1>3
<1>4. ASSUME NEW w \in Watchers, Drop(w) \/ DeleteJob(w) \/ LaterJob(w) \/ Fire(w)
      PROVE  Kinds'
  <2>1. kind' = kind
    BY <1>4 DEF Drop, DeleteJob, LaterJob, Fire
  <2>2. \/ state' = state
        \/ \E v \in {"live", "deleting", "deleted"} : state' = [state EXCEPT ![w] = v]
    BY <1>4 DEF Drop, DeleteJob, LaterJob, Fire, Destroy, add_oneshot_event
  <2> QED
    BY <1>3, <2>1, <2>2
<1>5. CASE destroy_loop
  BY <1>5 DEF destroy_loop
<1>6. CASE UNCHANGED <<kind, state>>
  BY <1>6
<1> QED
  BY <1>1, <1>2, <1>4, <1>5, <1>6
     DEF Next, App, LoopJobs, CallStart, CallStop, Tick, vars

(* What a deleted watcher and a ticker that has fired do: nothing.         *)
Silent(w) == ~ev'[w].added /\ fires'[w] = fires[w]

SilentStep ==
    \A w \in Watchers :
        /\ state[w] = "deleted" => state'[w] = "deleted" /\ Silent(w)
        /\ kind[w] = "every" /\ running[w] /\ ~ev[w].added => ~running'[w] \/ Silent(w)

(* A watcher that is deleted is not called again.  A ticker that has fired *)
(* is no longer in libevent's timer heap but still says that it is         *)
(* running, so that start() does nothing: until it is stopped it never     *)
(* fires again, however often it is started (ev_watcher::start, stop, and  *)
(* the event, which init_event makes with no flags, hence not persistent). *)
THEOREM FiredTickerIsSilent == Spec => [][SilentStep]_vars
<1>1. Init => Kinds
  BY DEF Init, Kinds
<1>2. IInv /\ Kinds /\ [Next]_vars => [SilentStep]_vars
  <2> SUFFICES ASSUME IInv, Kinds, Next PROVE SilentStep \/ UNCHANGED vars
    OBVIOUS
  <2>1. TypeOK /\ \A w \in Watchers : state[w] = "deleted" => ~ev[w].added
    BY DEF IInv, ArmedIsRunning
  <2>2. ASSUME NEW w \in Watchers,
               state[w] # "deleted",
               kind[w] # "every" \/ ~running[w] \/ ev[w].added
                 \/ ~running'[w] \/ Silent(w),
               \A v \in Watchers : v # w => /\ state'[v] = state[v] /\ fires'[v] = fires[v]
                                            /\ ev'[v].added = ev[v].added
        PROVE  SilentStep
    BY <2>1, <2>2 DEF SilentStep, Silent
  <2>3. ASSUME NEW w \in Watchers, NEW d, NEW a, NEW b, call_every(w, d, a, b)
        PROVE  SilentStep
    <3>1. state[w] = "unborn" /\ kind[w] = "none" /\ UNCHANGED fires
      BY <2>3 DEF call_every, Kinds
    <3>2. \A v \in Watchers : v # w => state'[v] = state[v] /\ ev'[v] = ev[v]
      BY <2>1, <2>3 DEF call_every, init_event, start, TypeOK
    <3> QED
      BY <2>2, <3>1, <3>2
  <2>4. ASSUME NEW w \in Watchers, NEW d, NEW a, call_later(w, d, a) PROVE SilentStep
    <3>1. state[w] = "unborn" /\ kind[w] = "none" /\ UNCHANGED fires
      BY <2>4 DEF call_later, Kinds
    <3>2. \A v \in Watchers : v # w => state'[v] = state[v] /\ ev'[v] = ev[v]
      BY <2>1, <2>4 DEF call_later, add_oneshot_event, init_event, start, TypeOK
    <3> QED
      BY <2>2, <3>1, <3>2
  <2>5. ASSUME NEW w \in Watchers, CallStart(w) \/ CallStop(w) PROVE SilentStep
    <3>1. state[w] = "live" /\ UNCHANGED <<state, fires>> /\ (~running[w] \/ ~running'[w])
      BY <2>1, <2>5 DEF CallStart, CallStop, stop, TypeOK
    <3>2. \A v \in Watchers : v # w => ev'[v] = ev[v]
      BY <2>1, <2>5 DEF CallStart, CallStop, start, stop, TypeOK
    <3> QED
      BY <2>2, <3>1, <3>2
  <2>6. ASSUME NEW w \in Watchers, Drop(w) \/ DeleteJob(w) PROVE SilentStep
    <3>1. state[w] # "deleted" /\ UNCHANGED fires
      BY <2>6 DEF Drop, DeleteJob
    <3>2. \A v \in Watchers : v # w => state'[v] = state[v] /\ ev'[v] = ev[v]
      BY <2>1, <2>6 DEF Drop, DeleteJob, Destroy, TypeOK
    <3>3. ev[w].added \/ ~ev'[w].added
      BY <2>1, <2>6, EventTypes DEF Drop, DeleteJob, Destroy, TypeOK
    <3> QED
      BY <2>2, <3>1, <3>2, <3>3 DEF Silent
  <2>7. ASSUME NEW w \in Watchers, LaterJob(w) PROVE SilentStep
    <3>1. state[w] = "queued" /\ kind[w] = "later"
      BY <2>7 DEF LaterJob, Kinds
    <3>2. \A v \in Watchers : v # w => state'[v] = state[v] /\ ev'[v] = ev[v]
      BY <2>1, <2>7 DEF LaterJob, add_oneshot_event, init_event, start, TypeOK
    <3>3. \A v \in Watchers : v # w => fires'[v] = fires[v]
      BY <2>1, <2>7 DEF LaterJob, Called, TypeOK
    <3> QED
      BY <2>2, <3>1, <3>2, <3>3
  <2>8. ASSUME NEW w \in Watchers, Fire(w) PROVE SilentStep
    <3>1. ev[w].added /\ state[w] # "deleted"
      BY <2>1, <2>8 DEF Fire
    <3>2. \A v \in Watchers : v # w => state'[v] = state[v] /\ ev'[v] = ev[v]
      BY <2>1, <2>8 DEF Fire, Destroy, TypeOK
    <3>3. \A v \in Watchers : v # w => fires'[v] = fires[v]
      BY <2>1, <2>8 DEF Fire, Called, TypeOK
    <3> QED
      BY <2>2, <3>1, <3>2, <3>3
  <2>9. CASE Tick
    <3>1. \A v \in Watchers : ev'[v].added = ev[v].added
      BY <2>1, <2>9 DEF Tick, TypeOK
    <3>2. UNCHANGED <<state, fires>>
      BY <2>9 DEF Tick
    <3> QED
      BY <2>1, <3>1, <3>2 DEF SilentStep, Silent
  <2>10. CASE destroy_loop
    <3>1. \A v \in Watchers : ev'[v].added => ev[v].added
      BY <2>1, <2>10, EventTypes DEF destroy_loop, TypeOK
    <3>2. UNCHANGED fires /\ \A v \in Watchers : state[v] = "deleted" => state'[v] = "deleted"
      BY <2>10 DEF destroy_loop, Reached
    <3> QED
      BY <2>1, <3>1, <3>2 DEF SilentStep, Silent
  <2> QED
    BY <2>3, <2>4, <2>5, <2>6, <2>7, <2>8, <2>9, <2>10 DEF Next, App, LoopJobs
<1>3. IInv => TypeOK
  BY DEF IInv
<1> QED
  BY <1>1, <1>2, <1>3, KindStep, Invariance, PTL DEF Spec

=============================================================================
