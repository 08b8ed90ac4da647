-------------------------- MODULE Endpoint_proofs --------------------------
(***************************************************************************)
(* Proofs about Endpoint, for any number of endpoints, ports and hosts.    *)
(***************************************************************************)
EXTENDS Endpoint, TLAPS

(* An endpoint holds the loop from its making to the end of its deletion,  *)
(* unless giving it up ended the process.                                  *)
HoldsLoop ==
    \A e \in Endpoints :
        ep[e] \in {"live", "queued", "closing", "dying"} =>
            e \in refs \/ (proc = "terminated" /\ loop = "up")

(* The loop is stopped from outside only by its last holder, and no        *)
(* endpoint can be made on it any more.                                    *)
StoppedByLast == loop # "up" => refs = {}

IInv == TypeOK /\ HoldsLoop /\ StoppedByLast /\ HolderIsSafe

-----------------------------------------------------------------------------

LEMMA HostTyped == \A url : host(url) \in Names
BY DEF host, Names

LEMMA TypeStep == TypeOK /\ [Next]_vars => TypeOK'
<1> SUFFICES ASSUME TypeOK, [Next]_vars PROVE TypeOK'
  OBVIOUS
<1> USE DEF TypeOK
<1>1. ASSUME NEW e \in Endpoints, make(e) \/ Drop(e) PROVE TypeOK'
  BY <1>1 DEF make, Drop, Holders
<1>2. ASSUME NEW e \in Endpoints, NEW b \in BOOLEAN, set_shutdown_immediate(e, b)
      PROVE  TypeOK'
  BY <1>2 DEF set_shutdown_immediate
<1>3. ASSUME NEW e \in Endpoints, NEW p \in Ports, listen(e, p) PROVE TypeOK'
  <2>1. listeners' \in [Endpoints -> [Ports -> {"absent", "null", "open"}]]
    <3>1. listeners' = listeners \/ \E v \in {"null", "open"} :
             listeners' = [listeners EXCEPT ![e][p] = v]
      BY <1>3 DEF listen, Made
    <3>2. ASSUME NEW v \in {"null", "open"}, listeners' = [listeners EXCEPT ![e][p] = v]
          PROVE  listeners' \in [Endpoints -> [Ports -> {"absent", "null", "open"}]]
      BY <3>2
    <3> QED
      BY <3>1, <3>2
  <2>2. proc' \in {proc, "crashed"} /\ UNCHANGED <<refs, ep, nodes, immediate, loop>>
    BY <1>3 DEF listen
  <2> QED
    BY <2>1, <2>2
<1>4. ASSUME NEW e \in Endpoints, NEW url \in Names, connect(e, url) PROVE TypeOK'
  <2>1. nodes' \in [Endpoints -> [Names -> {"absent", "null", "open", "done"}]]
    <3>1. nodes' = nodes \/ \E h \in Names : \E v \in {"null", "open"} :
             nodes' = [nodes EXCEPT ![e][h] = v]
      BY <1>4, HostTyped DEF connect, OpenNode, Made
    <3>2. ASSUME NEW h \in Names, NEW v \in {"null", "open"},
                 nodes' = [nodes EXCEPT ![e][h] = v]
          PROVE  nodes' \in [Endpoints -> [Names -> {"absent", "null", "open", "done"}]]
      BY <3>2
    <3> QED
      BY <3>1, <3>2
  <2>2. UNCHANGED <<refs, ep, listeners, immediate, loop, proc>>
    BY <1>4 DEF connect
  <2> QED
    BY <2>1, <2>2
<1>5. CASE ReleaseLoop \/ Join
  BY <1>5 DEF ReleaseLoop, Join
<1>6. ASSUME NEW e \in Endpoints, Delete(e) PROVE TypeOK'
  <2>1. CASE shutdown_endpoint(e)
    BY <2>1 DEF shutdown_endpoint
  <2>2. CASE clear_mappings(e)
    BY <2>2 DEF clear_mappings, JoinsItself
  <2>3. CASE destroy_members(e)
    BY <2>3 DEF destroy_members, JoinsItself
  <2> QED
    BY <1>6, <2>1, <2>2, <2>3 DEF Delete
<1>7. ASSUME NEW e \in Endpoints, NEW p \in Ports, close_listener(e, p) PROVE TypeOK'
  BY <1>7 DEF close_listener
<1>8. ASSUME NEW e \in Endpoints, NEW h \in Names, close_session(e, h) PROVE TypeOK'
  BY <1>8 DEF close_session
<1>9. CASE UNCHANGED vars
  BY <1>9 DEF vars
<1> QED
  BY <1>1, <1>2, <1>3, <1>4, <1>5, <1>6, <1>7, <1>8, <1>9 DEF Next, AppStep, LoopStep

(* Ownership: what a step does to the references, the endpoints and the    *)
(* two threads.                                                            *)
LEMMA OwnershipStep ==
  IInv /\ [Next]_vars => HoldsLoop' /\ StoppedByLast' /\ HolderIsSafe'
<1> SUFFICES ASSUME IInv, [Next]_vars PROVE HoldsLoop' /\ StoppedByLast' /\ HolderIsSafe'
  OBVIOUS
<1> USE DEF IInv, TypeOK, HoldsLoop, StoppedByLast, HolderIsSafe
<1>1. ASSUME NEW e \in Endpoints, make(e) PROVE HoldsLoop' /\ StoppedByLast' /\ HolderIsSafe'
  BY <1>1 DEF make
<1>2. ASSUME NEW e \in Endpoints, Drop(e) PROVE HoldsLoop' /\ StoppedByLast' /\ HolderIsSafe'
  BY <1>2 DEF Drop
<1>3. ASSUME NEW e \in Endpoints,
             \/ \E b \in BOOLEAN : set_shutdown_immediate(e, b)
             \/ \E p \in Ports : listen(e, p) \/ close_listener(e, p)
             \/ \E h \in Names : connect(e, h) \/ close_session(e, h)
      PROVE  HoldsLoop' /\ StoppedByLast' /\ HolderIsSafe'
  <2>1. UNCHANGED <<refs, ep, loop>> /\ proc = "up" /\ proc' \in {proc, "crashed"}
    BY <1>3 DEF LoopFree, set_shutdown_immediate, listen, close_listener, connect, close_session
  <2> QED
    BY <2>1
<1>4. CASE ReleaseLoop
  BY <1>4, Distinct DEF ReleaseLoop
<1>5. CASE Join
  BY <1>5 DEF Join
<1>6. ASSUME NEW e \in Endpoints, shutdown_endpoint(e)
      PROVE  HoldsLoop' /\ StoppedByLast' /\ HolderIsSafe'
  BY <1>6 DEF shutdown_endpoint, LoopFree
<1>7. ASSUME NEW e \in Endpoints, clear_mappings(e)
      PROVE  HoldsLoop' /\ StoppedByLast' /\ HolderIsSafe'
  BY <1>7, Distinct DEF clear_mappings, JoinsItself
<1>8. ASSUME NEW e \in Endpoints, destroy_members(e)
      PROVE  HoldsLoop' /\ StoppedByLast' /\ HolderIsSafe'
  BY <1>8, Distinct DEF destroy_members, JoinsItself
<1>9. CASE UNCHANGED vars
  BY <1>9 DEF vars
<1> QED
  BY <1>1, <1>2, <1>3, <1>4, <1>5, <1>6, <1>7, <1>8, <1>9
     DEF Next, AppStep, LoopStep, Delete

(* The inductive invariant: every endpoint that is not yet deleted holds   *)
(* the loop, and only the last holder stops it.                            *)
THEOREM Invariance == Spec => []IInv
<1>1. Init => IInv
  BY DEF Init, IInv, TypeOK, HoldsLoop, StoppedByLast, HolderIsSafe, Holders
<1>2. IInv /\ [Next]_vars => IInv'
  BY TypeStep, OwnershipStep DEF IInv
<1> QED
  BY <1>1, <1>2, PTL DEF Spec

-----------------------------------------------------------------------------

(* The loop outlives the endpoints on it, in whatever order the            *)
(* application drops the loop and the endpoints.                           *)
THEOREM LoopLives == Spec => []LoopOutlivesEndpoints
<1>1. IInv => LoopOutlivesEndpoints
  BY DEF IInv, TypeOK, HoldsLoop, StoppedByLast, LoopOutlivesEndpoints
<1> QED
  BY <1>1, Invariance, PTL

(* An application that keeps a reference to the loop never sees an         *)
(* endpoint join the loop thread from itself, although use_count is read   *)
(* before the endpoint's own reference is given up.                        *)
THEOREM KeepersAreSafe == Spec => []HolderIsSafe
<1>1. IInv => HolderIsSafe
  BY DEF IInv
<1> QED
  BY <1>1, Invariance, PTL

(* The type invariant: the references to the loop, the maps of every       *)
(* endpoint and its progress through its destructor.                       *)
THEOREM TypeCorrect == Spec => []TypeOK
<1>1. IInv => TypeOK
  BY DEF IInv
<1> QED
  BY <1>1, Invariance, PTL

-----------------------------------------------------------------------------
(* What an endpoint leaves behind, and what endpoints share.               *)

(* An endpoint that is deleted has no listener, no node and no reference   *)
(* to the loop.                                                            *)
Cleared ==
    \A e \in Endpoints :
        /\ ep[e] \in {"none", "dying", "deleted"} =>
              \A p \in Ports : listeners[e][p] = "absent"
        /\ ep[e] \in {"none", "deleted"} =>
              e \notin refs /\ \A h \in Names : nodes[e][h] = "absent"

(* A port has one listener, whichever endpoint it belongs to.              *)
OnePerPort ==
    \A e, f \in Endpoints, p \in Ports :
        listeners[e][p] = "open" /\ listeners[f][p] = "open" => e = f

(* The loop thread is in one ~endpoint at a time.                          *)
OneAtATime ==
    \A e, f \in Endpoints :
        ep[e] \in {"closing", "dying"} /\ ep[f] \in {"closing", "dying"} => e = f

EndInv == Cleared /\ OnePerPort /\ OneAtATime

LEMMA EndStep == TypeOK /\ EndInv /\ [Next]_vars => EndInv'
<1> SUFFICES ASSUME TypeOK, EndInv, [Next]_vars PROVE EndInv'
  OBVIOUS
<1>0. /\ ep \in [Endpoints -> {"none", "live", "queued", "closing", "dying", "deleted"}]
      /\ listeners \in [Endpoints -> [Ports -> {"absent", "null", "open"}]]
      /\ nodes \in [Endpoints -> [Names -> {"absent", "null", "open", "done"}]]
  BY DEF TypeOK
<1> USE <1>0 DEF EndInv, Cleared, OnePerPort, OneAtATime
<1>1. ASSUME NEW e \in Endpoints, make(e) \/ Drop(e) PROVE EndInv'
  <2>1. /\ UNCHANGED <<listeners, nodes>> /\ ep'[e] \in {"live", "queued"}
        /\ \A f \in Endpoints : f # e => ep'[f] = ep[f] /\ (f \in refs' => f \in refs)
    BY <1>1 DEF make, Drop
  <2>2. Cleared'
    BY <2>1
  <2>3. OnePerPort' /\ OneAtATime'
    BY <2>1
  <2> QED
    BY <2>2, <2>3
<1>2. ASSUME NEW e \in Endpoints, NEW p \in Ports, listen(e, p) PROVE EndInv'
  <2>1. ep[e] = "live" /\ UNCHANGED <<refs, ep, nodes>>
    BY <1>2 DEF listen
  <2>2. CASE UNCHANGED listeners
    BY <2>1, <2>2
  <2>3. CASE ~Taken(p) /\ \E l \in Made : listeners' = [listeners EXCEPT ![e][p] = l]
    <3>1. \A f \in Endpoints, q \in Ports :
             (f # e \/ q # p) => listeners'[f][q] = listeners[f][q]
      BY <2>3
    <3>2. \A f \in Endpoints : listeners[f][p] # "open"
      BY <2>3 DEF Taken
    <3>3. Cleared'
      BY <2>1, <3>1
    <3>4. OnePerPort'
      BY <3>1, <3>2
    <3> QED
      BY <2>1, <3>3, <3>4
  <2> QED
    BY <1>2, <2>2, <2>3 DEF listen
<1>3. ASSUME NEW e \in Endpoints, NEW p \in Ports, close_listener(e, p) PROVE EndInv'
  BY <1>3 DEF close_listener
<1>4. ASSUME NEW e \in Endpoints, NEW url, connect(e, url) PROVE EndInv'
  <2>1. ep[e] = "live" /\ UNCHANGED <<refs, ep, listeners>>
    BY <1>4 DEF connect
  <2>2. \A f \in Endpoints : f # e => nodes'[f] = nodes[f]
    BY <1>4, HostTyped DEF connect, OpenNode
  <2> QED
    BY <2>1, <2>2
<1>5. ASSUME NEW e \in Endpoints, NEW h \in Names, close_session(e, h) PROVE EndInv'
  <2>1. ep[e] \in {"live", "queued"} /\ UNCHANGED <<refs, ep, listeners>>
    BY <1>5 DEF close_session
  <2>2. \A f \in Endpoints : f # e => nodes'[f] = nodes[f]
    BY <1>5 DEF close_session
  <2>3. Cleared'
    BY <2>1, <2>2
  <2>4. OnePerPort' /\ OneAtATime'
    BY <2>1
  <2> QED
    BY <2>3, <2>4
<1>6. ASSUME NEW e \in Endpoints, shutdown_endpoint(e) PROVE EndInv'
  BY <1>6 DEF shutdown_endpoint, LoopFree
<1>7. ASSUME NEW e \in Endpoints, clear_mappings(e) PROVE EndInv'
  BY <1>7 DEF clear_mappings
<1>8. ASSUME NEW e \in Endpoints, destroy_members(e) PROVE EndInv'
  BY <1>8 DEF destroy_members
<1>9. CASE UNCHANGED <<ep, listeners, nodes>> /\ refs' \subseteq refs
  BY <1>9
<1> QED
  BY <1>1, <1>2, <1>3, <1>4, <1>5, <1>6, <1>7, <1>8, <1>9
     DEF Next, AppStep, LoopStep, Delete, set_shutdown_immediate, ReleaseLoop, Join, vars

(* A deleted endpoint leaves nothing behind, whatever it was doing when it *)
(* was dropped; no port is listened on twice, also by two endpoints; and   *)
(* ~endpoint is never entered while another is in it (shutdown_endpoint,   *)
(* clear_mappings, and listen, which lets bind decide).                    *)
THEOREM DeletedLeavesNothing == Spec => []EndInv
<1>1. Init => EndInv
  BY Distinct DEF Init, EndInv, Cleared, OnePerPort, OneAtATime
<1>2. Spec => []TypeOK
  BY TypeCorrect
<1> QED
  BY <1>1, <1>2, EndStep, PTL DEF Spec

=============================================================================
