------------------------------ MODULE Endpoint ------------------------------
(***************************************************************************)
(* Endpoints and the ownership of the event loop they share:               *)
(* include/wshttp/endpoint.hpp, src/endpoint.cpp, src/node.cpp, and the    *)
(* stopping of the loop in src/loop.cpp.                                   *)
(*                                                                         *)
(* The application holds the loop by a shared_ptr, and so does every       *)
(* endpoint.  listen and connect run on the loop thread (call_get), one at *)
(* a time; an endpoint that is dropped is deleted there too (loop_deleter) *)
(* while the application may at any moment drop its own reference to the   *)
(* loop.  What happens inside a listener is the subject of Inbound.        *)
(***************************************************************************)
EXTENDS Naturals

CONSTANTS
    Endpoints,  \* endpoint objects made on the loop (bound)
    App,        \* the application, as a holder of the loop
    Ports, Hosts,
    NoHost,     \* the empty host name of a uri that could not be parsed
    Busy,       \* ports held by other programs
    SetupFails  \* constructors of listeners and nodes may throw: getsockname
                \* with an uninitialised length, socket options, memory

ASSUME Distinct == /\ App \notin Endpoints /\ NoHost \notin Hosts
                   /\ (Hosts \cup {NoHost}) \cap Ports = {}
ASSUME Settings == Busy \subseteq Ports /\ SetupFails \in BOOLEAN

Names == Hosts \cup {NoHost}
Holders == Endpoints \cup {App}

VARIABLES
    refs,       \* who holds a shared_ptr to the loop
    ep,         \* per endpoint: "none", "live", "queued" (its delete job is
                \* posted), "closing" and "dying" (in ~endpoint, before and
                \* after the test of use_count), "deleted"
    listeners,  \* per endpoint: _listeners, "null" for an entry without object
    nodes,      \* per endpoint: _nodes; "done" when its session is closed
    immediate,  \* per endpoint: _close_immediately
    loop,       \* the loop thread: "up", "stopping" (~event_loop), "joined"
    proc        \* the process: "up", "terminated", "crashed"

vars == <<refs, ep, listeners, nodes, immediate, loop, proc>>

(* Only the application and the endpoints there are hold the loop.          *)
TypeOK ==
    /\ refs \subseteq {App} \cup {e \in Endpoints : ep[e] \notin {"none", "deleted"}}
    /\ ep \in [Endpoints -> {"none", "live", "queued", "closing", "dying", "deleted"}]
    /\ listeners \in [Endpoints -> [Ports -> {"absent", "null", "open"}]]
    /\ nodes \in [Endpoints -> [Names -> {"absent", "null", "open", "done"}]]
    /\ immediate \in [Endpoints -> BOOLEAN]
    /\ loop \in {"up", "stopping", "joined"}
    /\ proc \in {"up", "terminated", "crashed"}

Init ==
    /\ refs = {App}
    /\ ep = [e \in Endpoints |-> "none"]
    /\ listeners = [e \in Endpoints |-> [p \in Ports |-> "absent"]]
    /\ nodes = [e \in Endpoints |-> [h \in Names |-> "absent"]]
    /\ immediate = [e \in Endpoints |-> FALSE]
    /\ loop = "up"
    /\ proc = "up"

(* The loop thread is free to run a job: it is not inside ~endpoint.       *)
LoopFree ==
    /\ proc = "up" /\ loop = "up"
    /\ \A e \in Endpoints : ep[e] \notin {"closing", "dying"}

-----------------------------------------------------------------------------
(* The application's calls.                                                *)

(* make(loop, ...).  make(...) without a loop is this, followed by         *)
(* ReleaseLoop: it moves its only reference into the endpoint.             *)
make(e) ==
    /\ proc = "up" /\ App \in refs /\ ep[e] = "none"
    /\ ep' = [ep EXCEPT ![e] = "live"]
    /\ refs' = refs \cup {e}
    /\ UNCHANGED <<listeners, nodes, immediate, loop, proc>>

set_shutdown_immediate(e, b) ==
    /\ proc = "up" /\ ep[e] = "live"
    /\ immediate' = [immediate EXCEPT ![e] = b]
    /\ UNCHANGED <<refs, ep, listeners, nodes, loop, proc>>

(* A port is taken if bind fails on it.                                    *)
Taken(p) == p \in Busy \/ \E e \in Endpoints : listeners[e][p] = "open"

(* What a constructor leaves in the entry that try_emplace made: when it   *)
(* throws, the entry stays null.                                           *)
Made == IF SetupFails THEN {"open", "null"} ELSE {"open"}

(* try_emplace, then the constructor of the listener.  When bind fails,    *)
(* evconnlistener_new_bind answers null; the constructor throws, and the   *)
(* shared_ptr made from the null pointer passes it to evconnlistener_free. *)
listen(e, p) ==
    /\ LoopFree /\ ep[e] = "live"
    /\ \/ /\ listeners[e][p] # "absent"
          /\ UNCHANGED <<listeners, proc>>
       \/ /\ listeners[e][p] = "absent" /\ Taken(p)
          /\ proc' = "crashed"
          /\ UNCHANGED listeners
       \/ /\ listeners[e][p] = "absent" /\ ~Taken(p)
          /\ \E l \in Made : listeners' = [listeners EXCEPT ![e][p] = l]
          /\ UNCHANGED proc
    /\ UNCHANGED <<refs, ep, nodes, immediate, loop>>

(* uri::empty asks whether an array of URI_FIELDS strings is empty.        *)
URI_FIELDS == 8
uri_empty == URI_FIELDS = 0

host(url) == IF url \in Hosts THEN url ELSE NoHost

(* The constructor of a node may bind a socket to a local address, and     *)
(* makes the outbound session.                                             *)
OpenNode(e, h) == \E n \in Made : nodes' = [nodes EXCEPT ![e][h] = n]

(* connect throws for a url that is false and for a host that has an       *)
(* entry.                                                                  *)
connect(e, url) ==
    /\ LoopFree /\ ep[e] = "live"
    /\ IF (host(url) = NoHost /\ uri_empty) \/ nodes[e][host(url)] # "absent"
         THEN UNCHANGED nodes
         ELSE OpenNode(e, host(url))
    /\ UNCHANGED <<refs, ep, listeners, immediate, loop, proc>>

(* The last shared_ptr to the endpoint goes: loop_deleter posts the        *)
(* deletion, or on the loop thread runs it at once.                        *)
Drop(e) ==
    /\ proc = "up" /\ ep[e] = "live"
    /\ ep' = [ep EXCEPT ![e] = "queued"]
    /\ UNCHANGED <<refs, listeners, nodes, immediate, loop, proc>>

(* Variant: the loop is stopped although others still hold it.             *)
ReleaseLoop_Stops ==
    /\ proc = "up" /\ App \in refs
    /\ refs' = refs \ {App}
    /\ loop' = "stopping"
    /\ UNCHANGED <<ep, listeners, nodes, immediate, proc>>

(* The application drops its shared_ptr to the loop; if it is the last     *)
(* one, ~event_loop stops the thread and joins it.                         *)
ReleaseLoop ==
    /\ proc = "up" /\ App \in refs
    /\ refs' = refs \ {App}
    /\ loop' = IF refs' = {} THEN "stopping" ELSE loop
    /\ UNCHANGED <<ep, listeners, nodes, immediate, proc>>

Join ==
    /\ proc = "up" /\ loop = "stopping"
    /\ loop' = "joined"
    /\ UNCHANGED <<refs, ep, listeners, nodes, immediate, proc>>

-----------------------------------------------------------------------------
(* On the loop thread.                                                     *)

(* A listener fails and asks its endpoint to erase it by port.             *)
close_listener(e, p) ==
    /\ LoopFree /\ ep[e] \in {"live", "queued"} /\ listeners[e][p] = "open"
    /\ listeners' = [listeners EXCEPT ![e][p] = "absent"]
    /\ UNCHANGED <<refs, ep, nodes, immediate, loop, proc>>

(* The session of a node ends; the node stays.                             *)
close_session(e, h) ==
    /\ LoopFree /\ ep[e] \in {"live", "queued"} /\ nodes[e][h] = "open"
    /\ nodes' = [nodes EXCEPT ![e][h] = "done"]
    /\ UNCHANGED <<refs, ep, listeners, immediate, loop, proc>>

(* Variant: an endpoint with a listener waits for it to be closed first.   *)
shutdown_endpoint_Waits(e) ==
    /\ LoopFree /\ ep[e] = "queued"
    /\ \A p \in Ports : listeners[e][p] = "absent"
    /\ ep' = [ep EXCEPT ![e] = "closing"]
    /\ UNCHANGED <<refs, listeners, nodes, immediate, loop, proc>>

(* ~endpoint, shutdown_endpoint: close_all is called on every entry.       *)
shutdown_endpoint(e) ==
    /\ LoopFree /\ ep[e] = "queued"
    /\ IF ~immediate[e] /\ \E p \in Ports : listeners[e][p] = "null"
         THEN proc' = "crashed" /\ UNCHANGED ep
         ELSE ep' = [ep EXCEPT ![e] = "closing"] /\ UNCHANGED proc
    /\ UNCHANGED <<refs, listeners, nodes, immediate, loop>>

(* A thread that joins itself gets an exception, here in a destructor.     *)
JoinsItself == proc' = "terminated"

(* Variant: the own reference is not counted.                              *)
clear_mappings_OneMore(e) ==
    /\ proc = "up" /\ ep[e] = "closing"
    /\ listeners' = [listeners EXCEPT ![e] = [p \in Ports |-> "absent"]]
    /\ IF \E x \in Holders : refs \ {e} = {x}
         THEN JoinsItself /\ UNCHANGED ep
         ELSE ep' = [ep EXCEPT ![e] = "dying"] /\ UNCHANGED proc
    /\ UNCHANGED <<refs, nodes, immediate, loop>>

(* ~endpoint: _listeners.clear, and stop_thread if use_count is 1.         *)
clear_mappings(e) ==
    /\ proc = "up" /\ ep[e] = "closing"
    /\ listeners' = [listeners EXCEPT ![e] = [p \in Ports |-> "absent"]]
    /\ IF refs = {e}
         THEN JoinsItself /\ UNCHANGED ep
         ELSE ep' = [ep EXCEPT ![e] = "dying"] /\ UNCHANGED proc
    /\ UNCHANGED <<refs, nodes, immediate, loop>>

(* Variant: the reference survives, in a job that captured the shared_ptr. *)
destroy_members_Captured(e) ==
    /\ proc = "up" /\ ep[e] = "dying"
    /\ nodes' = [nodes EXCEPT ![e] = [h \in Names |-> "absent"]]
    /\ ep' = [ep EXCEPT ![e] = "deleted"]
    /\ UNCHANGED <<refs, listeners, immediate, loop, proc>>

(* The members of the endpoint go, _loop last: if it is the last reference *)
(* by now, ~event_loop runs here.                                          *)
destroy_members(e) ==
    /\ proc = "up" /\ ep[e] = "dying"
    /\ nodes' = [nodes EXCEPT ![e] = [h \in Names |-> "absent"]]
    /\ refs' = refs \ {e}
    /\ IF refs' = {}
         THEN JoinsItself /\ UNCHANGED ep
         ELSE ep' = [ep EXCEPT ![e] = "deleted"] /\ UNCHANGED proc
    /\ UNCHANGED <<listeners, immediate, loop>>

AppStep ==
    \/ \E e \in Endpoints :
          \/ make(e) \/ Drop(e)
          \/ \E b \in BOOLEAN : set_shutdown_immediate(e, b)
          \/ \E p \in Ports : listen(e, p)
          \/ \E url \in Names : connect(e, url)
    \/ ReleaseLoop

Delete(e) == shutdown_endpoint(e) \/ clear_mappings(e) \/ destroy_members(e)

LoopStep ==
    \E e \in Endpoints :
        \/ Delete(e)
        \/ \E p \in Ports : close_listener(e, p)
        \/ \E h \in Names : close_session(e, h)

Over == proc # "up" \/ loop = "joined"

Next ==
    \/ AppStep \/ LoopStep \/ Join
    \/ Over /\ UNCHANGED vars

Spec == Init /\ [][Next]_vars

(* Posted jobs run, a destructor goes on, and the join returns once the    *)
(* loop thread has left the loop (EventLoop: JobsRun, StopReturns).  The   *)
(* loop thread serves jobs in order, so that a delete job is not for ever  *)
(* behind others.                                                          *)
Fairness ==
    /\ \A e \in Endpoints : SF_vars(Delete(e))
    /\ WF_vars(Join)

FairSpec == Spec /\ Fairness

-----------------------------------------------------------------------------
(* Properties.                                                             *)

(* The loop outlives the endpoints: its thread is told to stop only when   *)
(* every endpoint is deleted, whoever drops what first (the shared_ptr     *)
(* _loop, and loop_deleter, which needs the loop).                         *)
LoopOutlivesEndpoints ==
    loop # "up" => \A e \in Endpoints : ep[e] \in {"none", "deleted"}

(* An application that keeps its reference to the loop is safe: deleting   *)
(* endpoints on the loop thread never stops the loop from inside, although *)
(* use_count is read once and may be out of date at once (endpoint.cpp     *)
(* 23-26).                                                                 *)
HolderIsSafe == App \in refs => proc # "terminated"

(* A dropped endpoint is deleted, unless the process crashed or the        *)
(* application gave up the loop.                                           *)
DropDeletes ==
    \A e \in Endpoints :
        ep[e] = "queued" ~> ep[e] = "deleted" \/ proc = "crashed" \/ App \notin refs

(* loop.hpp 252: stop_thread is "invoked in Network destructor by final    *)
(* Network": the last endpoint on a loop stops it and the program goes on. *)
FinalStops == proc # "terminated"

=============================================================================
