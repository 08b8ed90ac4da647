-------------------------- MODULE Outbound_proofs --------------------------
(***************************************************************************)
(* Proofs about Address and Outbound, for every address, both byte orders, *)
(* and any number of endpoints and connects.                               *)
(***************************************************************************)
EXTENDS Outbound, FiniteSetTheorems, TLAPS

(* Swapping the bytes of an integer twice gives it back (encoding.hpp).    *)
LEMMA SwapTwice ==
    ASSUME NEW n \in Nat, NEW x \in Bytes(n)
    PROVE  /\ byteswap(x) \in Bytes(n)
           /\ byteswap(byteswap(x)) = x
<1>1. x \in Seq(Octet) /\ Len(x) = n
  BY DEF Bytes
<1>2. byteswap(x) = [i \in 1..n |-> x[n + 1 - i]]
  BY <1>1 DEF byteswap
<1>3. \A i \in 1..n : n + 1 - i \in 1..n
  OBVIOUS
<1>4. byteswap(x) \in Bytes(n)
  BY <1>2, <1>3 DEF Bytes
<1>5. byteswap(x) \in Seq(Octet) /\ Len(byteswap(x)) = n
  BY <1>4 DEF Bytes
<1>6. byteswap(byteswap(x)) = [i \in 1..n |-> byteswap(x)[n + 1 - i]]
  BY <1>5 DEF byteswap
<1>7. \A i \in 1..n : byteswap(x)[n + 1 - i] = x[i]
  BY <1>2, <1>3
<1> QED
  BY <1>4, <1>6, <1>7 DEF Bytes

(* Both directions of the conversion, on either machine.                   *)
LEMMA OrderRoundTrip ==
    ASSUME NEW n \in Nat, NEW x \in Bytes(n)
    PROVE  /\ host_to_big(HostInt(x)) = x
           /\ host_to_big(big_to_host(x)) = x
           /\ big_to_host(host_to_big(x)) = x
           /\ big_to_host(x) = HostInt(x)
BY SwapTwice, Machine DEF host_to_big, big_to_host, HostInt

(* ipv4: what is read from an in_addr or a string is written back as it    *)
(* was, and ipv4{a, b, c, d} is the address a.b.c.d on the wire            *)
(* (address.cpp 43-60, address.hpp 76).                                    *)
THEOREM Ipv4RoundTrip ==
    ASSUME NEW a \in Bytes(4)
    PROVE  to_in4(ipv4_of_in4(a)) = a /\ to_in4(ipv4_of_digits(a)) = a
BY OrderRoundTrip DEF to_in4, ipv4_of_in4, ipv4_of_digits

(* An IPv4 address with its port survives its way through a sockaddr, from *)
(* node::_init_internals to ip_address{sockaddr*}.                         *)
THEOREM SockaddrRoundTrip ==
    ASSUME NEW a \in Bytes(4), NEW p \in Bytes(2)
    PROVE  LET ip == ip_address(ipv4_of_digits(a), p, 4)
           IN  /\ sockaddr(ip).addr = a
               /\ sockaddr(ip).port = p
               /\ of_sockaddr(sockaddr(ip)) = ip
<1> DEFINE ip == ip_address(ipv4_of_digits(a), p, 4)
<1>1. to_in4(HostInt(a)) = a /\ ipv4_of_in4(a) = HostInt(a)
  BY OrderRoundTrip DEF to_in4, ipv4_of_in4
<1>2. host_to_big(HostInt(p)) = p /\ big_to_host(p) = HostInt(p)
  BY OrderRoundTrip
<1>3. sockaddr(ip) = [family |-> 4, addr |-> a, port |-> p]
  BY <1>1, <1>2 DEF sockaddr, ip_address, ipv4_of_digits
<1>4. ip = [ip |-> HostInt(a), port |-> HostInt(p), holds |-> 4, is_v4 |-> TRUE]
  BY Zenon DEF ip_address, ipv4_of_digits
<1>5. of_sockaddr([family |-> 4, addr |-> a, port |-> p]) =
        [ip |-> HostInt(a), port |-> HostInt(p), holds |-> 4, is_v4 |-> TRUE]
  BY <1>1, <1>2 DEF of_sockaddr
<1>6. sockaddr(ip).addr = a /\ sockaddr(ip).port = p
  BY <1>3
<1>7. of_sockaddr(sockaddr(ip)) = ip
  BY <1>3, <1>4, <1>5, Zenon
<1> QED
  BY <1>6, <1>7

-----------------------------------------------------------------------------
(* IPv6 addresses.                                                         *)

LEMMA SwapSmall ==
    ASSUME NEW x, NEW y
    PROVE  byteswap(<<x>>)[1] = x /\ byteswap(<<x, y>>) = <<y, x>>
<1>1. byteswap(<<x>>)[1] = x
  BY DEF byteswap
<1>2. byteswap(<<x, y>>) = [i \in 1..2 |-> <<x, y>>[3 - i]]
  BY DEF byteswap
<1>3. <<y, x>> = [i \in 1..2 |-> <<y, x>>[i]]
  OBVIOUS
<1>4. \A i \in 1..2 : <<x, y>>[3 - i] = <<y, x>>[i]
  OBVIOUS
<1> QED
  BY <1>1, <1>2, <1>3, <1>4

(* The other byte of the group of two that the i-th byte is in.            *)
Partner(i) == IF i % 2 = 1 THEN i + 1 ELSE i - 1

(* What to_in6 writes for an address that was read from an in6_addr.       *)
LEMMA WrittenBytes ==
    ASSUME NEW a \in Bytes(16)
    PROVE  to_in6(ipv6_of_in6(a)) =
             [i \in 1..16 |-> IF big_endian THEN a[i] ELSE a[Partner(i)]]
<1> DEFINE g == ipv6_of_in6(a)
           copied == FromGroups(g)
<1>1. \A i \in 1..8 : g[i] = IF big_endian THEN <<a[2 * i - 1], a[2 * i]>>
                                          ELSE <<a[2 * i], a[2 * i - 1]>>
  BY SwapSmall DEF ipv6_of_in6, big_to_host, Group
<1>2. ASSUME NEW i \in 1..16
      PROVE  copied[i] = IF big_endian THEN a[i] ELSE a[Partner(i)]
  <2> DEFINE k == (i + 1) \div 2
  <2>1. k \in 1..8
    OBVIOUS
  <2>2. copied[i] = g[k][IF i % 2 = 1 THEN 1 ELSE 2]
    BY DEF FromGroups
  <2>3. CASE i % 2 = 1
    <3>1. 2 * k - 1 = i /\ 2 * k = i + 1
      BY <2>3
    <3> QED
      BY <1>1, <2>1, <2>2, <2>3, <3>1 DEF Partner
  <2>4. CASE i % 2 # 1
    <3>1. 2 * k = i /\ 2 * k - 1 = i - 1
      BY <2>4
    <3> QED
      BY <1>1, <2>1, <2>2, <2>4, <3>1 DEF Partner
  <2> QED
    BY <2>3, <2>4
<1>3. \A i \in 1..16 : big_to_host(<<copied[i]>>)[1] = copied[i]
  BY SwapSmall DEF big_to_host
<1>4. to_in6(g) = [i \in 1..16 |-> copied[i]]
  BY <1>3 DEF to_in6
<1> QED
  BY <1>2, <1>4

(* to_in6 gives back the address that the ipv6 was made from only on a     *)
(* big-endian machine, or if both bytes of every group are the same: it    *)
(* swaps single bytes, where the constructor swapped integers of two       *)
(* (address.cpp 76-103).                                                   *)
THEOREM Ipv6WrittenBack ==
    ASSUME NEW a \in Bytes(16)
    PROVE  to_in6(ipv6_of_in6(a)) = a
             <=> big_endian \/ \A i \in 1..8 : a[2 * i - 1] = a[2 * i]
<1> DEFINE w == to_in6(ipv6_of_in6(a))
<1>1. w = [i \in 1..16 |-> IF big_endian THEN a[i] ELSE a[Partner(i)]]
  BY WrittenBytes
<1>2. a = [i \in 1..16 |-> a[i]]
  BY DEF Bytes
<1>3. w = a <=> \A i \in 1..16 : w[i] = a[i]
  BY <1>1, <1>2
<1>4. big_endian => w = a
  BY <1>1, <1>2
<1>5. ASSUME ~big_endian, w = a, NEW i \in 1..8 PROVE a[2 * i - 1] = a[2 * i]
  <2>1. 2 * i \in 1..16 /\ Partner(2 * i) = 2 * i - 1
    BY DEF Partner
  <2> QED
    BY <1>1, <1>5, <2>1
<1>6. ASSUME ~big_endian, \A i \in 1..8 : a[2 * i - 1] = a[2 * i], NEW i \in 1..16
      PROVE  w[i] = a[i]
  <2> DEFINE k == (i + 1) \div 2
  <2>1. k \in 1..8
    OBVIOUS
  <2>2. a[2 * k - 1] = a[2 * k]
    BY <1>6, <2>1
  <2>3. \/ i = 2 * k /\ Partner(i) = 2 * k - 1
        \/ i = 2 * k - 1 /\ Partner(i) = 2 * k
    BY DEF Partner
  <2> QED
    BY <1>1, <1>6, <2>2, <2>3
<1> QED
  BY <1>3, <1>4, <1>5, <1>6

-----------------------------------------------------------------------------
(* The types.                                                              *)

LEMMA UrlsTyped ==
    /\ \A c \in Calls : UrlsOf[c] \subseteq Results /\ LocalsOf[c] \subseteq Locals
    /\ \A u \in Results \ {None} : get_host(u) \in Hosts
    /\ NoUri \in [host : Hosts, href : Results]
BY DEF Results, Locals, AllUrls, Hosts, NoUri

LEMMA UriUpdate ==
    ASSUME NEW f \in [Calls -> [host : Hosts, href : Results]], NEW c \in Calls,
           NEW h \in Hosts, NEW res \in Results
    PROVE  /\ [f EXCEPT ![c].host = h] \in [Calls -> [host : Hosts, href : Results]]
           /\ [f EXCEPT ![c].href = res] \in [Calls -> [host : Hosts, href : Results]]
<1>1. f[c] \in [host : Hosts, href : Results]
  OBVIOUS
<1>2. /\ [f[c] EXCEPT !.host = h] \in [host : Hosts, href : Results]
      /\ [f[c] EXCEPT !.href = res] \in [host : Hosts, href : Results]
  BY <1>1
<1> QED
  BY <1>2

LEMMA TypeConnect ==
    ASSUME TypeOK, NEW c \in Calls, EpOf[c] \in Endpoints, ConnectStep(c) PROVE TypeOK'
<1> USE UrlsTyped DEF TypeOK, Goto, At, callVars, parserVars, nodeVars, sessionVars
<1>1. CASE connect(c)
  BY <1>1 DEF connect, Running, InParser
<1>2. CASE read(c)
  BY <1>2 DEF read, Running, InParser
<1>3. CASE _parse(c)
  BY <1>3 DEF _parse, Running, InParser
<1>4. CASE set_protocol(c)
  BY <1>4 DEF set_protocol, Running, InParser, Results
<1>5. CASE extract_host(c)
  <2>1. _uri' \in [Calls -> [host : Hosts, href : Results]]
    BY <1>5, UriUpdate DEF extract_host
  <2> QED
    BY <1>5, <2>1 DEF extract_host, Running, InParser
<1>6. CASE extract_href(c)
  <2>1. _uri' \in [Calls -> [host : Hosts, href : Results]]
    BY <1>6, UriUpdate DEF extract_href
  <2> QED
    BY <1>6, <2>1 DEF extract_href, Running, InParser
<1>7. CASE ParserCrash(c)
  BY <1>7 DEF ParserCrash
<1>8. CASE create_outbound_session(c)
  <2>1. _uri[c].host \in Hosts
    OBVIOUS
  <2>2. _nodes[EpOf[c]][_uri[c].host] \in {"absent", "null", "node"}
    BY <2>1
  <2>3. ASSUME NEW entry \in {"absent", "null", "node"}, ConnectThrows(c, entry)
        PROVE  TypeOK'
    BY <1>8, <2>1, <2>3 DEF create_outbound_session, ConnectThrows
  <2>4. ASSUME NEW dials \in BOOLEAN, NewSession(c, dials) PROVE TypeOK'
    BY <1>8, <2>1, <2>4 DEF create_outbound_session, NewSession
  <2> QED
    BY <1>8, <2>2, <2>3, <2>4 DEF create_outbound_session
<1> QED
  BY <1>1, <1>2, <1>3, <1>4, <1>5, <1>6, <1>7, <1>8 DEF ConnectStep

(* The jobs that n calls of close_session post.                            *)
LEMMA PostsTyped ==
    ASSUME TypeOK, NEW c \in Calls, EpOf[c] \in Endpoints, NEW n \in Nat, PostsClose(c, n)
    PROVE  /\ jobs' \in [Endpoints -> Seq(Calls \cup {Delete})]
           /\ \A e \in Endpoints : jobs'[e] \in Seq(Calling(e) \cup {Delete})
<1> DEFINE e0 == EpOf[c]
           posted == [i \in 1..n |-> c]
<1>1. posted \in Seq(Calling(e0)) /\ c \in Calling(e0)
  BY DEF Calling
<1>2. jobs[e0] \o posted \in Seq(Calling(e0) \cup {Delete})
  BY <1>1 DEF TypeOK
<1>3. jobs[e0] \o posted \in Seq(Calls \cup {Delete})
  BY <1>1 DEF TypeOK
<1> QED
  BY <1>2, <1>3 DEF TypeOK, PostsClose

LEMMA ThreeAreFinite == IsFiniteSet({"connected", "fatal", "event"})
<1>1. IsFiniteSet({"connected"})
  BY FS_Singleton
<1>2. IsFiniteSet({"connected"} \cup {"fatal"})
  BY <1>1, FS_AddElement
<1>3. IsFiniteSet(({"connected"} \cup {"fatal"}) \cup {"event"})
  BY <1>2, FS_AddElement
<1>4. {"connected", "fatal", "event"} = ({"connected"} \cup {"fatal"}) \cup {"event"}
  OBVIOUS
<1> QED
  BY <1>3, <1>4

LEMMA FunUpdate ==
    ASSUME NEW S, NEW f \in [Calls -> S], NEW c \in Calls, NEW v \in S
    PROVE  [f EXCEPT ![c] = v] \in [Calls -> S]
OBVIOUS

LEMMA TypeSession ==
    ASSUME TypeOK, NEW c \in Calls, EpOf[c] \in Endpoints, SessionStep(c) PROVE TypeOK'
<1> USE DEF TypeOK, callVars, parserVars, nodeVars
<1>1. CASE DnsAnswer(c)
  <2>1. \E b \in {"live", "final"} : bev' = [bev EXCEPT ![c] = b]
    BY <1>1 DEF DnsAnswer
  <2>2. bev' \in [Calls -> {"none", "resolving", "live", "held", "final", "gone"}]
    BY <2>1
  <2>3. pend' = pend \/ pend' = [pend EXCEPT ![c] = pend[c] \cup {"event"}]
    BY <1>1 DEF DnsAnswer
  <2>4. pend[c] \cup {"event"} \in SUBSET {"connected", "fatal", "event"}
    OBVIOUS
  <2>5. pend' \in [Calls -> SUBSET {"connected", "fatal", "event"}]
    <3>1. [pend EXCEPT ![c] = pend[c] \cup {"event"}]
            \in [Calls -> SUBSET {"connected", "fatal", "event"}]
      BY <2>4, FunUpdate
    <3> QED
      BY <2>3, <3>1
  <2> QED
    BY <1>1, <2>2, <2>5 DEF DnsAnswer
<1>2. ASSUME NEW cb \in {"connected", "fatal", "event"}, SocketEvent(c, cb) PROVE TypeOK'
  BY <1>2 DEF SocketEvent
<1>3. CASE RunCallbacks(c)
  <2>1. IsFiniteSet(pend[c]) /\ Cardinality(pend[c]) \in Nat
    <3>1. IsFiniteSet({"connected", "fatal", "event"})
      BY ThreeAreFinite
    <3> QED
      BY <3>1, FS_Subset, FS_CardinalityType
  <2>2. CASE initialize_session(c) /\ UNCHANGED jobs
    BY <1>3, <2>2 DEF RunCallbacks, initialize_session
  <2>3. CASE PostsClose(c, Cardinality(pend[c])) /\ UNCHANGED <<session, proc>>
    BY <1>3, <2>1, <2>3, PostsTyped DEF RunCallbacks
  <2> QED
    BY <1>3, <2>2, <2>3 DEF RunCallbacks
<1>4. CASE FreeBev(c)
  BY <1>4 DEF FreeBev
<1>5. CASE ShutSsl(c)
  BY <1>5 DEF ShutSsl
<1>6. CASE Finalize(c)
  BY <1>6 DEF Finalize
<1> QED
  BY <1>1, <1>2, <1>3, <1>4, <1>5, <1>6 DEF SessionStep

LEMMA TypeEndpoint ==
    ASSUME TypeOK, NEW e \in Endpoints, EndpointStep(e) PROVE TypeOK'
<1> USE DEF TypeOK, callVars, parserVars, nodeVars, sessionVars
<1>1. CASE Drop(e)
  <2>1. Append(jobs[e], Delete) \in Seq(Calls \cup {Delete})
    OBVIOUS
  <2>2. Append(jobs[e], Delete) \in Seq(Calling(e) \cup {Delete})
    OBVIOUS
  <2>3. /\ jobs' \in [Endpoints -> Seq(Calls \cup {Delete})]
        /\ \A x \in Endpoints : jobs'[x] \in Seq(Calling(x) \cup {Delete})
    BY <1>1, <2>1, <2>2 DEF Drop
  <2> QED
    BY <1>1, <2>3 DEF Drop
<1>2. CASE RunJob(e)
  <2>0. jobs[e] # <<>> /\ jobs' = [jobs EXCEPT ![e] = Tail(jobs[e])]
    BY <1>2 DEF RunJob
  <2>a. Tail(jobs[e]) \in Seq(Calls \cup {Delete})
    BY <2>0
  <2>b. Tail(jobs[e]) \in Seq(Calling(e) \cup {Delete})
    BY <2>0
  <2>1. /\ jobs' \in [Endpoints -> Seq(Calls \cup {Delete})]
        /\ \A x \in Endpoints : jobs'[x] \in Seq(Calling(x) \cup {Delete})
    BY <2>0, <2>a, <2>b
  <2>2. CASE Head(jobs[e]) = Delete
    <3>1. DeleteJob(e)
      BY <1>2, <2>2 DEF RunJob
    <3>2. session' \in [Calls -> {"none", "up", "open", "erased", "freeing", "gone"}]
      BY <3>1 DEF DeleteJob
    <3>3. ep' \in [Endpoints -> {"live", "dropped", "deleting", "deleted"}]
      BY <3>1 DEF DeleteJob
    <3> QED
      BY <1>2, <2>1, <3>1, <3>2, <3>3 DEF RunJob, DeleteJob
  <2>3. CASE Head(jobs[e]) # Delete
    BY <1>2, <2>1, <2>3 DEF RunJob, CloseJob
  <2> QED
    BY <2>2, <2>3
<1>3. CASE EndpointGone(e)
  BY <1>3 DEF EndpointGone
<1> QED
  BY <1>1, <1>2, <1>3 DEF EndpointStep

LEMMA TypeInit == Init => TypeOK
<1> SUFFICES ASSUME Init PROVE TypeOK
  OBVIOUS
<1>1. /\ _uri \in [Calls -> [host : Hosts, href : Results]]
      /\ _nodes \in [Endpoints -> [Hosts -> {"absent", "null", "node"}]]
  BY UrlsTyped DEF Init
<1>0. None \in Results /\ None \in Locals
  BY DEF Results, Locals
<1>2. /\ url \in [Calls -> Results] /\ _local \in [Calls -> Locals]
      /\ \A c \in Calls : url[c] = None /\ _local[c] = None
      /\ _data \in Results /\ _res \in Results
  BY <1>0 DEF Init
<1>3. /\ jobs \in [Endpoints -> Seq(Calls \cup {Delete})]
      /\ \A e \in Endpoints : jobs[e] \in Seq(Calling(e) \cup {Delete})
  BY DEF Init
<1> QED
  BY <1>1, <1>2, <1>3 DEF Init, TypeOK

LEMMA TypeStep == TypeOK /\ [Next]_vars => TypeOK'
<1> SUFFICES ASSUME TypeOK, [Next]_vars PROVE TypeOK'
  OBVIOUS
<1>1. \A c \in Calls : EpOf[c] \in Endpoints
  BY Shapes
<1>2. CASE UNCHANGED vars
  BY <1>2 DEF vars, callVars, parserVars, nodeVars, sessionVars, TypeOK
<1> QED
  BY <1>1, <1>2, TypeConnect, TypeSession, TypeEndpoint DEF Next

(* Every variable keeps its type; among them, the jobs that close a        *)
(* session are only ever in the queue of its own endpoint's loop.          *)
THEOREM TypeCorrect == Spec => []TypeOK
  BY TypeInit, TypeStep, PTL DEF Spec

-----------------------------------------------------------------------------
(* The end of a session.                                                   *)

(* Per call, how far its session and its bufferevent have come together.   *)
Ownership(c) ==
    /\ pc[c] \in Running \cup {"idle"} => session[c] = "none"
    /\ session[c] = "none" => bev[c] = "none" /\ ssl[c] = "none"
    /\ session[c] \in {"up", "open", "erased"} <=> bev[c] \in {"resolving", "live"}
    /\ session[c] \in {"up", "open", "erased", "freeing"} => ssl[c] = "made"
    /\ session[c] = "freeing" => bev[c] \in {"held", "final"}
    /\ session[c] = "gone" =>
          \/ bev[c] \in {"held", "final"} /\ ssl[c] = "shut"
          \/ bev[c] = "gone" /\ ssl[c] = "freed"
    /\ pend[c] # {} => session[c] \in {"up", "open", "erased"}

OwnInv == TypeOK /\ \A c \in Calls : Ownership(c)

LEMMA OwnConnect ==
    ASSUME OwnInv, NEW c \in Calls, ConnectStep(c)
    PROVE  \A d \in Calls : Ownership(d)'
<1> USE DEF OwnInv, TypeOK, Ownership, Running, InParser, sessionVars
<1>1. CASE connect(c)
  BY <1>1 DEF connect, Goto
<1>2. CASE read(c) \/ _parse(c) \/ set_protocol(c)
  BY <1>2 DEF read, _parse, set_protocol, Goto, At
<1>3. CASE extract_host(c) \/ extract_href(c)
  BY <1>3 DEF extract_host, extract_href, Goto, At
<1>4. CASE ParserCrash(c)
  BY <1>4 DEF ParserCrash, callVars
<1>5. CASE create_outbound_session(c)
  <2>1. pc[c] = "emplace" /\ session[c] = "none"
    BY <1>5 DEF create_outbound_session, At
  <2>2. ASSUME NEW entry, ConnectThrows(c, entry)
        PROVE  \A d \in Calls : Ownership(d)'
    BY <2>1, <2>2 DEF ConnectThrows, Goto
  <2>3. ASSUME NEW dials \in BOOLEAN, NewSession(c, dials)
        PROVE  \A d \in Calls : Ownership(d)'
    BY <2>1, <2>3 DEF NewSession, Goto
  <2> QED
    BY <1>5, <2>2, <2>3 DEF create_outbound_session
<1> QED
  BY <1>1, <1>2, <1>3, <1>4, <1>5 DEF ConnectStep

LEMMA OwnSession ==
    ASSUME OwnInv, NEW c \in Calls, SessionStep(c)
    PROVE  \A d \in Calls : Ownership(d)'
<1> USE DEF OwnInv, TypeOK, Ownership, callVars
<1>0. ASSUME LoopFree(EpOf[c]) PROVE session[c] \notin {"erased", "freeing"}
  BY <1>0 DEF LoopFree, Destroying, Calling
<1>1. CASE DnsAnswer(c)
  <2>1. UNCHANGED <<pc, session, ssl>> /\ (UNCHANGED pend \/ bev[c] = "resolving")
    BY <1>1 DEF DnsAnswer
  <2>2. \A d \in Calls : d # c => pend'[d] = pend[d] /\ bev'[d] = bev[d]
    BY <1>1 DEF DnsAnswer
  <2>3. \/ bev[c] = "resolving" /\ bev'[c] = "live"
        \/ bev[c] = "held" /\ bev'[c] = "final" /\ UNCHANGED pend
    BY <1>1 DEF DnsAnswer
  <2>4. Ownership(c)'
    BY <2>1, <2>3
  <2>5. \A d \in Calls : d # c => Ownership(d)'
    BY <2>1, <2>2
  <2> QED
    BY <2>4, <2>5
<1>2. ASSUME NEW cb, SocketEvent(c, cb) PROVE \A d \in Calls : Ownership(d)'
  <2>1. session[c] \in {"up", "open"} /\ UNCHANGED <<pc, session, bev, ssl>>
    BY <1>2 DEF SocketEvent
  <2>2. \A d \in Calls : d # c => pend'[d] = pend[d]
    BY <1>2 DEF SocketEvent
  <2>3. Ownership(c)'
    BY <2>1
  <2>4. \A d \in Calls : d # c => Ownership(d)'
    BY <2>1, <2>2
  <2> QED
    BY <2>3, <2>4
<1>3. CASE RunCallbacks(c)
  <2>1. session[c] \in {"up", "open"}
    BY <1>0, <1>3 DEF RunCallbacks
  <2>2. pc[c] \notin Running \cup {"idle"}
    BY <2>1
  <2>3. pend' = [pend EXCEPT ![c] = {}] /\ UNCHANGED <<pc, bev, ssl>>
    BY <1>3 DEF RunCallbacks
  <2>4. UNCHANGED session \/ session' = [session EXCEPT ![c] = "open"]
    BY <1>3 DEF RunCallbacks, initialize_session
  <2> QED
    BY <2>1, <2>2, <2>3, <2>4
<1>4. CASE FreeBev(c)
  BY <1>4 DEF FreeBev
<1>5. CASE ShutSsl(c)
  BY <1>5 DEF ShutSsl
<1>6. CASE Finalize(c)
  <2>1. bev[c] = "final" /\ session[c] = "gone" /\ bev'[c] = "gone" /\ ssl'[c] = "freed"
    BY <1>0, <1>6 DEF Finalize
  <2>2. \A d \in Calls : d # c => bev'[d] = bev[d] /\ ssl'[d] = ssl[d]
    BY <1>6 DEF Finalize
  <2>3. UNCHANGED <<pc, session, pend>>
    BY <1>6 DEF Finalize
  <2>4. Ownership(c)'
    BY <2>1, <2>3
  <2>5. \A d \in Calls : d # c => Ownership(d)'
    BY <2>2, <2>3
  <2> QED
    BY <2>4, <2>5
<1> QED
  BY <1>1, <1>2, <1>3, <1>4, <1>5, <1>6 DEF SessionStep

LEMMA OwnEndpoint ==
    ASSUME OwnInv, NEW e \in Endpoints, EndpointStep(e)
    PROVE  \A d \in Calls : Ownership(d)'
<1> USE DEF OwnInv, TypeOK, Ownership, callVars, sessionVars
<1>1. CASE Drop(e)
  BY <1>1 DEF Drop
<1>2. CASE RunJob(e) /\ Head(jobs[e]) = Delete
  BY <1>2 DEF RunJob, DeleteJob
<1>3. CASE RunJob(e) /\ Head(jobs[e]) # Delete
  <2>1. Head(jobs[e]) \in Calls
    BY <1>3 DEF RunJob
  <2> QED
    BY <1>3, <2>1 DEF RunJob, CloseJob
<1>4. CASE EndpointGone(e)
  BY <1>4 DEF EndpointGone
<1> QED
  BY <1>1, <1>2, <1>3, <1>4 DEF EndpointStep

LEMMA OwnInit == Init => OwnInv
BY TypeInit DEF Init, OwnInv, Ownership

LEMMA OwnStep == OwnInv /\ [Next]_vars => OwnInv'
<1> SUFFICES ASSUME OwnInv, [Next]_vars PROVE OwnInv'
  OBVIOUS
<1>1. TypeOK'
  BY TypeStep DEF OwnInv
<1>2. CASE UNCHANGED vars
  BY <1>1, <1>2 DEF OwnInv, Ownership, vars, callVars, sessionVars
<1> QED
  BY <1>1, <1>2, OwnConnect, OwnSession, OwnEndpoint DEF Next, OwnInv

(* SSL_shutdown, which ~session_base calls after bufferevent_free, still   *)
(* finds the SSL of every session: the finalizer that frees it cannot run  *)
(* while the loop thread destroys the session.                             *)
THEOREM ShutdownIsSafe == Spec => []SslAliveAtShutdown
<1>1. OwnInv => SslAliveAtShutdown
  BY DEF OwnInv, Ownership, SslAliveAtShutdown
<1> QED
  BY <1>1, OwnInit, OwnStep, PTL DEF Spec

(* An SSL is made, shut down and freed, once each and in this order, and   *)
(* it is freed together with its bufferevent.                              *)
SslStep ==
    \A c \in Calls : ssl'[c] # ssl[c] =>
        /\ <<ssl[c], ssl'[c]>> \in {<<"none", "made">>, <<"made", "shut">>, <<"shut", "freed">>}
        /\ ssl'[c] = "freed" => bev[c] = "final" /\ bev'[c] = "gone"

(* However a session ends, by its own close job or with its endpoint, with *)
(* a DNS request under way or not, SSL_shutdown comes once and before the  *)
(* one SSL_free of the bufferevent's finalizer (~session_base, ~endpoint). *)
THEOREM SslEndsOnce == Spec => [][SslStep]_vars
<1>1. OwnInv /\ [Next]_vars => [SslStep]_vars
  <2> SUFFICES ASSUME OwnInv, Next PROVE SslStep \/ UNCHANGED vars
    OBVIOUS
  <2>1. CASE UNCHANGED ssl
    BY <2>1 DEF SslStep
  <2>2. ASSUME NEW c \in Calls, create_outbound_session(c) PROVE SslStep
    <3>1. pc[c] = "emplace" /\ ssl[c] = "none"
      BY <2>2 DEF create_outbound_session, At, OwnInv, Ownership, Running, InParser
    <3>2. UNCHANGED ssl \/ ssl' = [ssl EXCEPT ![c] = "made"]
      BY <2>2 DEF create_outbound_session, ConnectThrows, NewSession, sessionVars
    <3> QED
      BY <3>1, <3>2 DEF SslStep, OwnInv, TypeOK
  <2>3. ASSUME NEW c \in Calls, ShutSsl(c) PROVE SslStep
    BY <2>3 DEF ShutSsl, SslStep, OwnInv, TypeOK, Ownership
  <2>4. ASSUME NEW c \in Calls, Finalize(c) PROVE SslStep
    <3>1. session[c] \notin {"erased", "freeing"}
      BY <2>4 DEF Finalize, LoopFree, Destroying, Calling
    <3>2. ssl[c] = "shut" /\ bev[c] = "final"
      BY <2>4, <3>1 DEF Finalize, OwnInv, TypeOK, Ownership
    <3> QED
      BY <2>4, <3>2 DEF Finalize, SslStep, OwnInv, TypeOK
  <2>5. ASSUME NEW c \in Calls, ConnectStep(c), ~create_outbound_session(c)
        PROVE  UNCHANGED ssl
    BY <2>5 DEF ConnectStep, connect, read, _parse, set_protocol, extract_host,
                extract_href, ParserCrash, sessionVars
  <2>6. ASSUME NEW c \in Calls, SessionStep(c), ~ShutSsl(c), ~Finalize(c)
        PROVE  UNCHANGED ssl
    BY <2>6 DEF SessionStep, DnsAnswer, SocketEvent, RunCallbacks, FreeBev
  <2>7. ASSUME NEW e \in Endpoints, EndpointStep(e) PROVE UNCHANGED ssl
    BY <2>7 DEF EndpointStep, Drop, RunJob, EndpointGone, sessionVars
  <2> QED
    BY <2>1, <2>2, <2>3, <2>4, <2>5, <2>6, <2>7 DEF Next
<1> QED
  BY <1>1, OwnInit, OwnStep, PTL DEF Spec

-----------------------------------------------------------------------------
(* The map of nodes.                                                       *)

Host(c) == _uri[c].host

(* A session has an entry for its host, and no other session of its        *)
(* endpoint has the same.                                                  *)
OneSessionPerHost ==
    /\ \A c \in Calls : session[c] # "none" => _nodes[EpOf[c]][Host(c)] # "absent"
    /\ \A c, d \in Calls :
          c # d /\ EpOf[c] = EpOf[d] /\ session[c] # "none" /\ session[d] # "none" =>
              Host(c) # Host(d)

(* An entry, of a node or of a connect that threw, stays as it is.         *)
EntriesStay ==
    \A e \in Endpoints, h \in Hosts :
        _nodes[e][h] # "absent" => _nodes'[e][h] = _nodes[e][h]

NodeInv == OwnInv /\ OneSessionPerHost

LEMMA NodeStep ==
    ASSUME NodeInv, [Next]_vars
    PROVE  NodeInv' /\ EntriesStay
<1>1. OwnInv /\ OwnInv' /\ TypeOK
  BY OwnStep DEF NodeInv, OwnInv
<1>2. ASSUME UNCHANGED _nodes,
             \A c \in Calls : session'[c] # "none" => session[c] # "none" /\ Host(c)' = Host(c)
      PROVE  NodeInv' /\ EntriesStay
  BY <1>1, <1>2 DEF NodeInv, OneSessionPerHost, EntriesStay
<1>3. ASSUME NEW c \in Calls, create_outbound_session(c) PROVE NodeInv' /\ EntriesStay
  <2>1. /\ session[c] = "none" /\ UNCHANGED _uri
        /\ EpOf[c] \in Endpoints /\ Host(c) \in Hosts
    BY <1>1, <1>3, Shapes
       DEF create_outbound_session, At, OwnInv, Ownership, Running, InParser, TypeOK, Host
  <2> DEFINE entry == _nodes[EpOf[c]][Host(c)]
  <2>2. CASE entry # "absent" /\ ConnectThrows(c, entry)
    <3>1. UNCHANGED <<_nodes, session>>
      BY <1>1, <2>1, <2>2 DEF ConnectThrows, sessionVars, TypeOK, Host
    <3> QED
      BY <1>2, <2>1, <3>1 DEF Host
  <2>3. ASSUME entry = "absent", NEW v \in {"null", "node"},
               _nodes' = [_nodes EXCEPT ![EpOf[c]][Host(c)] = v],
               \A d \in Calls : d # c => session'[d] = session[d]
        PROVE  NodeInv' /\ EntriesStay
    <3>1. \A e \in Endpoints, h \in Hosts :
             _nodes'[e][h] = IF e = EpOf[c] /\ h = Host(c) THEN v ELSE _nodes[e][h]
      BY <1>1, <2>1, <2>3 DEF TypeOK
    <3>2. EntriesStay
      BY <2>3, <3>1 DEF EntriesStay
    <3>3. \A d \in Calls : Host(d)' = Host(d) /\ Host(d) \in Hosts /\ EpOf[d] \in Endpoints
      BY <1>1, <2>1, Shapes DEF Host, TypeOK
    <3>4. \A d \in Calls : d # c /\ EpOf[d] = EpOf[c] /\ session[d] # "none" =>
                             Host(d) # Host(c)
      BY <2>3 DEF NodeInv, OneSessionPerHost
    <3>5. \A d \in Calls : session'[d] # "none" => _nodes'[EpOf[d]][Host(d)] # "absent"
      BY <2>3, <3>1, <3>3 DEF NodeInv, OneSessionPerHost
    <3>6. ASSUME NEW a \in Calls, NEW b \in Calls, a # b, EpOf[a] = EpOf[b],
                 session'[a] # "none", session'[b] # "none"
          PROVE  Host(a) # Host(b)
      BY <2>3, <3>4, <3>6 DEF NodeInv, OneSessionPerHost
    <3> QED
      BY <1>1, <3>2, <3>3, <3>5, <3>6 DEF NodeInv, OneSessionPerHost
  <2>4. CASE entry = "absent" /\ ConnectThrows(c, "null")
    BY <2>3, <2>4 DEF ConnectThrows, sessionVars, Host
  <2>5. ASSUME entry = "absent", NEW dials \in BOOLEAN, NewSession(c, dials)
        PROVE  NodeInv' /\ EntriesStay
    <3>1. \A d \in Calls : d # c => session'[d] = session[d]
      BY <1>1, <2>5 DEF NewSession, TypeOK
    <3>2. \E v \in {"null", "node"} : _nodes' = [_nodes EXCEPT ![EpOf[c]][Host(c)] = v]
      BY <2>5 DEF NewSession, Host
    <3> QED
      BY <2>3, <2>5, <3>1, <3>2
  <2> QED
    BY <1>3, <2>2, <2>4, <2>5 DEF create_outbound_session, Host
<1>4. ASSUME NEW c \in Calls, ConnectStep(c), ~create_outbound_session(c)
      PROVE  NodeInv' /\ EntriesStay
  <2>1. UNCHANGED <<_nodes, session>>
    BY <1>4 DEF ConnectStep, connect, read, _parse, set_protocol, extract_host,
                extract_href, ParserCrash, sessionVars, nodeVars
  <2>2. UNCHANGED _uri \/ (pc[c] \in InParser /\ \A d \in Calls : d # c => _uri'[d] = _uri[d])
    BY <1>1, <1>4 DEF ConnectStep, connect, read, _parse, set_protocol, extract_host,
                      extract_href, ParserCrash, nodeVars, At, InParser, TypeOK
  <2>3. pc[c] \in InParser => session[c] = "none"
    BY <1>1 DEF OwnInv, Ownership, Running
  <2> QED
    BY <1>2, <2>1, <2>2, <2>3 DEF Host
<1>5. ASSUME NEW c \in Calls, SessionStep(c) PROVE NodeInv' /\ EntriesStay
  <2>1. UNCHANGED <<_nodes, _uri>>
    BY <1>5 DEF SessionStep, DnsAnswer, SocketEvent, RunCallbacks, FreeBev, ShutSsl,
                Finalize, nodeVars
  <2>2. \A d \in Calls : session'[d] # "none" => session[d] # "none"
    <3>1. CASE UNCHANGED session
      BY <3>1
    <3>2. CASE RunCallbacks(c)
      <4>1. session[c] # "none"
        BY <1>1, <3>2 DEF RunCallbacks, OwnInv, Ownership
      <4> QED
        BY <1>1, <3>2, <4>1 DEF RunCallbacks, initialize_session, TypeOK
    <3>3. CASE FreeBev(c) \/ ShutSsl(c)
      BY <1>1, <3>3 DEF FreeBev, ShutSsl, TypeOK
    <3> QED
      BY <1>5, <3>1, <3>2, <3>3 DEF SessionStep, DnsAnswer, SocketEvent, Finalize
  <2> QED
    BY <1>2, <2>1, <2>2 DEF Host
<1>6. ASSUME NEW e \in Endpoints, EndpointStep(e) PROVE NodeInv' /\ EntriesStay
  <2>1. UNCHANGED <<_nodes, _uri>>
    BY <1>6 DEF EndpointStep, Drop, RunJob, EndpointGone, nodeVars
  <2>2. \A d \in Calls : session'[d] # "none" => session[d] # "none"
    <3>1. CASE UNCHANGED session
      BY <3>1
    <3>2. CASE RunJob(e) /\ Head(jobs[e]) = Delete
      BY <3>2 DEF RunJob, DeleteJob
    <3>3. CASE RunJob(e) /\ Head(jobs[e]) # Delete
      <4>1. Head(jobs[e]) \in Calls
        BY <1>1, <3>3 DEF RunJob, TypeOK
      <4> QED
        BY <1>1, <3>3, <4>1 DEF RunJob, CloseJob, TypeOK
    <3> QED
      BY <1>6, <3>1, <3>2, <3>3 DEF EndpointStep, Drop, EndpointGone, sessionVars
  <2> QED
    BY <1>2, <2>1, <2>2 DEF Host
<1>7. CASE UNCHANGED vars
  BY <1>2, <1>7 DEF vars, nodeVars, sessionVars, Host
<1> QED
  BY <1>3, <1>4, <1>5, <1>6, <1>7 DEF Next

(* An endpoint makes one session for each host in all its life: the entry  *)
(* of a node, or of a connect that threw, is never taken out, so that a    *)
(* second connect to the host throws, also when the first session is long  *)
(* gone (create_outbound_session, node::close_session).                    *)
THEOREM HostConnectsOnce == Spec => []OneSessionPerHost /\ [][EntriesStay]_vars
<1>1. Init => NodeInv
  BY OwnInit DEF Init, NodeInv, OneSessionPerHost
<1>2. NodeInv /\ [Next]_vars => NodeInv' /\ [EntriesStay]_vars
  BY NodeStep
<1>3. NodeInv => OneSessionPerHost
  BY DEF NodeInv
<1> QED
  BY <1>1, <1>2, <1>3, PTL DEF Spec

-----------------------------------------------------------------------------
(* The local address.                                                      *)

(* Per call: nothing is bound before the node is made, and then the        *)
(* argument no longer changes.                                             *)
Binding(c) ==
    /\ pc[c] \in Running \cup {"idle"} => bound[c] = None
    /\ bound[c] # None =>
         /\ _local[c] # None /\ _local[c].family = 4
         /\ bound[c] = BindAddress(_local[c])

BindInv ==
    /\ OwnInv
    /\ bound = [c \in Calls |-> bound[c]]
    /\ \A c \in Calls : Binding(c)

LEMMA BindConnect ==
    ASSUME BindInv, OwnInv', NEW c \in Calls, ConnectStep(c) PROVE BindInv'
<1>0. /\ pc \in [Calls -> Running \cup {"idle", "returned", "threw"}]
      /\ _local \in [Calls -> Locals]
  BY DEF BindInv, OwnInv, TypeOK
<1> USE <1>0 DEF BindInv, Binding, Running, InParser, sessionVars, nodeVars
<1>1. CASE connect(c)
  BY <1>1 DEF connect, Goto
<1>2. CASE read(c) \/ _parse(c) \/ set_protocol(c)
  BY <1>2 DEF read, _parse, set_protocol, Goto, At
<1>3. CASE extract_host(c) \/ extract_href(c)
  BY <1>3 DEF extract_host, extract_href, Goto, At
<1>4. CASE ParserCrash(c)
  BY <1>4 DEF ParserCrash, callVars
<1>5. CASE create_outbound_session(c)
  <2>1. pc[c] = "emplace" /\ bound[c] = None /\ UNCHANGED _local
    BY <1>5 DEF create_outbound_session, At
  <2>2. ASSUME NEW entry, ConnectThrows(c, entry) PROVE BindInv'
    BY <2>1, <2>2 DEF ConnectThrows, Goto
  <2>3. ASSUME NEW dials \in BOOLEAN, NewSession(c, dials), MayBind(_local[c])
        PROVE  BindInv'
    <3>1. /\ bound' = [bound EXCEPT ![c] =
                         IF _local[c] = None THEN None ELSE BindAddress(_local[c])]
          /\ pc'[c] \in {"returned", "threw"}
          /\ \A d \in Calls \ {c} : pc'[d] = pc[d]
      BY <2>3 DEF NewSession, Goto
    <3>2. _local[c] # None => _local[c].family = 4
      BY <2>3 DEF MayBind
    <3>3. ASSUME NEW d \in Calls PROVE Binding(d)'
      BY <2>1, <3>1, <3>2
    <3> QED
      BY <3>1, <3>3
  <2> QED
    BY <1>5, <2>2, <2>3 DEF create_outbound_session
<1> QED
  BY <1>1, <1>2, <1>3, <1>4, <1>5 DEF ConnectStep

LEMMA BindOther ==
    ASSUME BindInv, OwnInv', UNCHANGED <<pc, _local, bound>> PROVE BindInv'
BY DEF BindInv, Binding

LEMMA BindSession ==
    ASSUME BindInv, OwnInv', NEW c \in Calls, SessionStep(c) PROVE BindInv'
<1>1. UNCHANGED <<pc, _local, bound>>
  BY DEF SessionStep, DnsAnswer, SocketEvent, RunCallbacks, FreeBev, ShutSsl, Finalize,
         callVars, nodeVars
<1> QED
  BY <1>1, BindOther

LEMMA BindEndpoint ==
    ASSUME BindInv, OwnInv', NEW e \in Endpoints, EndpointStep(e) PROVE BindInv'
BY BindOther DEF EndpointStep, Drop, RunJob, EndpointGone, callVars, nodeVars

(* A socket is bound to the address and the port the caller asked for, in  *)
(* network order, for every address and either byte order of the machine   *)
(* (node.cpp 42-50).                                                       *)
THEOREM BoundToArgument == Spec => []BoundAsAsked
<1>1. Init => BindInv
  <2> SUFFICES ASSUME Init PROVE BindInv
    OBVIOUS
  <2>1. OwnInv
    BY TypeInit DEF Init, OwnInv, Ownership
  <2> QED
    BY <2>1 DEF Init, BindInv, Binding
<1>2. BindInv /\ [Next]_vars => BindInv'
  <2> SUFFICES ASSUME BindInv, [Next]_vars PROVE BindInv'
    OBVIOUS
  <2>1. OwnInv'
    BY OwnStep DEF BindInv
  <2>2. CASE UNCHANGED vars
    BY <2>1, <2>2, BindOther DEF vars, callVars, nodeVars, sessionVars
  <2> QED
    BY <2>1, <2>2, BindConnect, BindSession, BindEndpoint DEF Next
<1>3. BindInv => BoundAsAsked
  <2> SUFFICES ASSUME BindInv, NEW c \in Calls, bound[c] # None
               PROVE  /\ bound[c].addr = _local[c].addr
                      /\ bound[c].port = _local[c].port
    BY DEF BoundAsAsked
  <2>1. bound[c] = BindAddress(_local[c])
    BY DEF BindInv, Binding
  <2>2. _local[c].addr \in Bytes(4) /\ _local[c].port \in Bytes(2)
    BY Shapes DEF BindInv, Binding, OwnInv, TypeOK
  <2> QED
    BY <2>1, <2>2, SockaddrRoundTrip DEF BindAddress
<1> QED
  BY <1>1, <1>2, <1>3, PTL DEF Spec

-----------------------------------------------------------------------------
(* The one url_parser of the process.                                      *)

OwnHost(c) == _uri[c].host \in {s.host : s \in Sources(c)}
OwnHref(c) == _uri[c].href \in {s.href : s \in Sources(c)}

(* call_get serves one connect at a time on each loop.                     *)
Serial ==
    \A c, d \in Calls : EpOf[c] = EpOf[d] /\ pc[c] \in Running /\ pc[d] \in Running => c = d

(* Per call: once c has read, _data is c's url or one that another loop    *)
(* has read since; once c has parsed, so is _res.  If no other loop has    *)
(* the same url and _data is still c's, then _res cannot be another's:     *)
(* without this, _res could become c's url again after the checks were     *)
(* made on another one.                                                    *)
Parsing(c) ==
    /\ pc[c] # "idle" => url[c] # None
    /\ pc[c] \in {"parse", "protocol", "host", "href"} =>
         _data \in {None, url[c]} \cup Others(c)
    /\ pc[c] \in {"protocol", "host", "href"} =>
         /\ _res \in {None, url[c]} \cup Others(c)
         /\ _data = url[c] => _res = url[c] \/ url[c] \in Others(c)
    /\ pc[c] \in {"host", "href"} /\ _res = url[c] =>
         (url[c].valid /\ url[c].special) \/ url[c] \in Others(c)

(* Per call: what has been extracted so far.                               *)
Extracted(c) ==
    /\ pc[c] \in {"idle", "read", "parse", "protocol", "host"} => _uri[c] = NoUri
    /\ pc[c] = "href" => OwnHost(c)
    /\ pc[c] \in {"emplace", "returned", "threw"} => OwnHost(c) /\ OwnHref(c)

ParserInv == TypeOK /\ Serial /\ \A c \in Calls : Parsing(c) /\ Extracted(c)

(* What may be in a uri of c: the fields of any url of another loop, those *)
(* of its own url if it passed the checks, and nothing if some url failed. *)
LEMMA SourceFields ==
    ASSUME NEW c \in Calls
    PROVE  /\ \A u \in Others(c) :
                 get_host(u) \in {s.host : s \in Sources(c)} /\ u \in {s.href : s \in Sources(c)}
           /\ url[c].valid /\ url[c].special =>
                 /\ get_host(url[c]) \in {s.host : s \in Sources(c)}
                 /\ url[c] \in {s.href : s \in Sources(c)}
           /\ \A u \in Others(c) \cup {url[c]} : ~(u.valid /\ u.special) =>
                 /\ NoUri.host \in {s.host : s \in Sources(c)}
                 /\ NoUri.href \in {s.href : s \in Sources(c)}
<1>1. ASSUME NEW u \in Others(c)
      PROVE  get_host(u) \in {s.host : s \in Sources(c)} /\ u \in {s.href : s \in Sources(c)}
  <2>1. Unchecked(u) \in Sources(c)
    BY <1>1 DEF Sources
  <2>2. Unchecked(u).host = get_host(u) /\ Unchecked(u).href = u
    BY DEF Unchecked
  <2> QED
    BY <2>1, <2>2
<1>2. ASSUME url[c].valid /\ url[c].special
      PROVE  /\ get_host(url[c]) \in {s.host : s \in Sources(c)}
             /\ url[c] \in {s.href : s \in Sources(c)}
  <2>1. UriOf(url[c]) \in Sources(c)
    BY DEF Sources
  <2>2. UriOf(url[c]).host = get_host(url[c]) /\ UriOf(url[c]).href = url[c]
    BY <1>2 DEF UriOf
  <2> QED
    BY <2>1, <2>2
<1>3. ASSUME NEW u \in Others(c) \cup {url[c]}, ~(u.valid /\ u.special)
      PROVE  /\ NoUri.host \in {s.host : s \in Sources(c)}
             /\ NoUri.href \in {s.href : s \in Sources(c)}
  <2>1. UriOf(u) \in Sources(c) /\ UriOf(u) = NoUri
    BY <1>3 DEF Sources, UriOf
  <2> QED
    BY <2>1
<1> QED
  BY <1>1, <1>2, <1>3

(* The sources of c only grow: a connect never becomes idle again, and its *)
(* url stays.                                                              *)
LEMMA SourcesGrow ==
    ASSUME NEW c \in Calls, url'[c] = url[c], _uri'[c] = _uri[c],
           \A d \in Calls \ {c} : pc[d] # "idle" => pc'[d] # "idle" /\ url'[d] = url[d]
    PROVE  /\ Others(c) \subseteq Others(c)'
           /\ OwnHost(c) => OwnHost(c)'
           /\ OwnHref(c) => OwnHref(c)'
<1>1. Others(c) \subseteq Others(c)'
  BY DEF Others
<1>2. Sources(c) \subseteq Sources(c)'
  BY <1>1 DEF Sources
<1> QED
  BY <1>1, <1>2 DEF OwnHost, OwnHref

(* What a step of c in the parser does to another call d.                  *)
LEMMA ParserOther ==
    ASSUME ParserInv, NEW c \in Calls, NEW d \in Calls \ {c},
           pc'[d] = pc[d], url'[d] = url[d], _uri'[d] = _uri[d],
           \A b \in Calls \ {d} : pc[b] # "idle" => pc'[b] # "idle" /\ url'[b] = url[b],
           \/ UNCHANGED parserVars
           \/ pc[c] = "read" /\ _data' = url[c] /\ _res' = _res
           \/ _data' = _data /\ _res' = _data
           \/ _data' = None /\ _res' = None
    PROVE  Parsing(d)' /\ Extracted(d)'
<1>1. Parsing(d) /\ Extracted(d)
  BY DEF ParserInv
<1>2. /\ Others(d) \subseteq Others(d)'
      /\ OwnHost(d) => OwnHost(d)'
      /\ OwnHref(d) => OwnHref(d)'
  BY SourcesGrow
<1>3. Extracted(d)'
  BY <1>1, <1>2 DEF Extracted
<1>4. CASE UNCHANGED parserVars
  BY <1>1, <1>2, <1>3, <1>4 DEF Parsing, parserVars
<1>5. CASE pc[c] = "read" /\ _data' = url[c] /\ _res' = _res
  <2>1. CASE EpOf[c] = EpOf[d]
    <3>1. pc[d] \notin {"parse", "protocol", "host", "href"}
      BY <1>5, <2>1 DEF ParserInv, Serial, Running, InParser
    <3> QED
      BY <1>1, <1>3, <3>1 DEF Parsing
  <2>2. CASE EpOf[c] # EpOf[d]
    <3>1. url[c] \in Others(d)'
      BY <1>5, <2>2 DEF Others
    <3> QED
      BY <1>1, <1>2, <1>3, <1>5, <3>1 DEF Parsing
  <2> QED
    BY <2>1, <2>2
<1>6. CASE _data' = _data /\ _res' = _data
  BY <1>1, <1>2, <1>3, <1>6 DEF Parsing
<1>7. CASE _data' = None /\ _res' = None
  BY <1>1, <1>2, <1>3, <1>7 DEF Parsing
<1> QED
  BY <1>3, <1>4, <1>5, <1>6, <1>7

(* What it does to c itself.                                               *)
LEMMA ParserOwn ==
    ASSUME ParserInv, NEW c \in Calls,
           \/ read(c) \/ _parse(c) \/ set_protocol(c) \/ extract_host(c) \/ extract_href(c)
    PROVE  Parsing(c)' /\ Extracted(c)'
<1>1. Parsing(c) /\ Extracted(c) /\ TypeOK
  BY DEF ParserInv
<1>2. /\ url' = url /\ \A d \in Calls \ {c} : pc'[d] = pc[d] /\ _uri'[d] = _uri[d]
      /\ pc[c] # "idle" /\ pc'[c] # "idle"
  BY <1>1 DEF TypeOK, read, _parse, set_protocol, extract_host, extract_href, Goto, At,
              nodeVars
<1>3. Others(c)' = Others(c) /\ Sources(c)' = Sources(c)
  <2>1. Others(c)' = Others(c)
    BY <1>2 DEF Others
  <2> QED
    BY <1>2, <2>1 DEF Sources
<1>4. CASE read(c)
  <2>1. pc'[c] = "parse" /\ _data' = url[c] /\ _uri'[c] = _uri[c]
    BY <1>1, <1>4 DEF TypeOK, read, Goto, nodeVars
  <2>2. pc[c] = "read"
    BY <1>4 DEF read, At
  <2> QED
    BY <1>1, <1>2, <2>1, <2>2 DEF Parsing, Extracted
<1>5. CASE _parse(c)
  <2>1. /\ pc[c] = "parse" /\ pc'[c] = "protocol" /\ _uri'[c] = _uri[c]
        /\ _data' = _data /\ _res' = _data
    BY <1>1, <1>5 DEF TypeOK, _parse, Goto, At, nodeVars
  <2> QED
    BY <1>1, <1>2, <1>3, <2>1 DEF Parsing, Extracted
<1>6. CASE set_protocol(c)
  <2>1. pc[c] = "protocol" /\ _res # None /\ _uri'[c] = _uri[c] /\ _uri[c] = NoUri
    BY <1>1, <1>6 DEF TypeOK, set_protocol, Goto, At, nodeVars, Extracted
  <2>2. _res \in Others(c) \cup {url[c]}
    BY <1>1, <2>1 DEF Parsing
  <2>3. CASE _res.valid /\ _res.special
    <3>1. pc'[c] = "host" /\ _data' = _data /\ _res' = _res
      BY <1>1, <1>6, <2>3 DEF TypeOK, set_protocol, Goto, parserVars
    <3> QED
      BY <1>1, <1>2, <1>3, <2>1, <2>3, <3>1 DEF Parsing, Extracted
  <2>4. CASE ~(_res.valid /\ _res.special)
    <3>1. pc'[c] = "emplace"
      BY <1>1, <1>6, <2>4 DEF TypeOK, set_protocol, Goto
    <3>2. OwnHost(c)' /\ OwnHref(c)'
      BY <1>3, <2>1, <2>2, <2>4, SourceFields DEF OwnHost, OwnHref
    <3> QED
      BY <1>1, <1>2, <3>1, <3>2 DEF Parsing, Extracted
  <2> QED
    BY <2>3, <2>4
<1>7. CASE extract_host(c) \/ extract_href(c)
  <2>1. /\ pc[c] \in {"host", "href"} /\ _res # None
        /\ UNCHANGED parserVars
    BY <1>7 DEF extract_host, extract_href, At
  <2>2. get_host(_res) \in {s.host : s \in Sources(c)} /\ _res \in {s.href : s \in Sources(c)}
    <3>1. CASE _res \in Others(c)
      BY <3>1, SourceFields
    <3>2. CASE _res \notin Others(c)
      <4>1. _res = url[c] /\ url[c].valid /\ url[c].special
        BY <1>1, <2>1, <3>2 DEF Parsing
      <4> QED
        BY <4>1, SourceFields
    <3> QED
      BY <3>1, <3>2
  <2>3. CASE extract_host(c)
    <3>1. pc[c] = "host" /\ pc'[c] = "href" /\ _uri'[c].host = get_host(_res)
      BY <1>1, <2>3 DEF TypeOK, extract_host, Goto, At
    <3> QED
      BY <1>1, <1>2, <1>3, <2>1, <2>2, <3>1 DEF Parsing, Extracted, OwnHost, parserVars
  <2>4. CASE extract_href(c)
    <3>1. /\ pc[c] = "href" /\ pc'[c] = "emplace" /\ _uri'[c].href = _res
          /\ _uri'[c].host = _uri[c].host
      BY <1>1, <2>4 DEF TypeOK, extract_href, Goto, At
    <3> QED
      BY <1>1, <1>2, <1>3, <2>1, <2>2, <3>1
         DEF Parsing, Extracted, OwnHost, OwnHref, parserVars
  <2> QED
    BY <1>7, <2>3, <2>4
<1> QED
  BY <1>4, <1>5, <1>6, <1>7

(* The steps that leave the parser, the calls and their uris alone.        *)
LEMMA ParserIdle ==
    ASSUME ParserInv, TypeOK', UNCHANGED <<pc, url, parserVars, _uri>> PROVE ParserInv'
BY DEF ParserInv, Serial, Parsing, Extracted, OwnHost, OwnHref, Sources, Others, parserVars

LEMMA ParserConnect ==
    ASSUME ParserInv, TypeOK', NEW c \in Calls, EpOf[c] \in Endpoints, ConnectStep(c)
    PROVE  ParserInv'
<1>1. /\ TypeOK /\ pc' \in [Calls -> Running \cup {"idle", "returned", "threw"}]
      /\ pc \in [Calls -> Running \cup {"idle", "returned", "threw"}]
      /\ _uri \in [Calls -> [host : Hosts, href : Results]]
  BY DEF ParserInv, TypeOK
<1>2. CASE connect(c)
  <2>1. /\ pc[c] = "idle" /\ pc'[c] = "read" /\ url'[c] # None
        /\ \A d \in Calls \ {c} : pc'[d] = pc[d] /\ url'[d] = url[d]
        /\ UNCHANGED <<parserVars, nodeVars>>
    BY <1>1, <1>2, Shapes DEF connect, Goto, TypeOK
  <2>2. \A d \in Calls : EpOf[d] = EpOf[c] => pc[d] \notin Running
    BY <1>2 DEF connect, LoopFree, Calling
  <2>3. Serial'
    BY <2>1, <2>2 DEF ParserInv, Serial
  <2>4. Parsing(c)' /\ Extracted(c)'
    <3>1. Extracted(c)
      BY DEF ParserInv
    <3> QED
      BY <2>1, <3>1 DEF Parsing, Extracted, nodeVars
  <2>5. ASSUME NEW d \in Calls \ {c} PROVE Parsing(d)' /\ Extracted(d)'
    <3>1. \A b \in Calls \ {d} : pc[b] # "idle" => pc'[b] # "idle" /\ url'[b] = url[b]
      BY <2>1
    <3> QED
      BY <2>1, <2>5, <3>1, ParserOther DEF nodeVars
  <2> QED
    BY <2>3, <2>4, <2>5 DEF ParserInv
<1>3. CASE read(c) \/ _parse(c) \/ set_protocol(c) \/ extract_host(c) \/ extract_href(c)
  <2>1. /\ pc[c] \in Running /\ url' = url
        /\ \A d \in Calls \ {c} : pc'[d] = pc[d] /\ _uri'[d] = _uri[d]
        /\ pc'[c] # "idle"
    BY <1>1, <1>3 DEF read, _parse, set_protocol, extract_host, extract_href, Goto, At,
                      nodeVars, Running, InParser
  <2>2. \/ UNCHANGED parserVars
        \/ pc[c] = "read" /\ _data' = url[c] /\ _res' = _res
        \/ _data' = _data /\ _res' = _data
        \/ _data' = None /\ _res' = None
    BY <1>3 DEF read, _parse, set_protocol, extract_host, extract_href, At
  <2>3. ASSUME NEW d \in Calls \ {c} PROVE Parsing(d)' /\ Extracted(d)'
    BY <2>1, <2>2, <2>3, ParserOther
  <2>4. Serial'
    BY <2>1 DEF ParserInv, Serial
  <2> QED
    BY <1>3, <2>3, <2>4, ParserOwn DEF ParserInv
<1>4. CASE create_outbound_session(c)
  <2>1. /\ pc[c] = "emplace" /\ pc'[c] \in {"returned", "threw"}
        /\ \A d \in Calls \ {c} : pc'[d] = pc[d]
        /\ UNCHANGED <<url, _uri, parserVars>>
    BY <1>1, <1>4 DEF create_outbound_session, ConnectThrows, NewSession, Goto, At
  <2>2. Serial'
    BY <2>1 DEF ParserInv, Serial, Running, InParser
  <2>3. Parsing(c)' /\ Extracted(c)'
    <3>1. Parsing(c) /\ OwnHost(c) /\ OwnHref(c)
      BY <2>1 DEF ParserInv, Extracted
    <3>2. OwnHost(c)' /\ OwnHref(c)'
      BY <2>1, <3>1, SourcesGrow
    <3> QED
      BY <2>1, <3>1, <3>2 DEF Parsing, Extracted
  <2>4. ASSUME NEW d \in Calls \ {c} PROVE Parsing(d)' /\ Extracted(d)'
    BY <2>1, <2>4, ParserOther
  <2> QED
    BY <2>2, <2>3, <2>4 DEF ParserInv
<1>5. CASE ParserCrash(c)
  BY <1>5, ParserIdle DEF ParserCrash, callVars, nodeVars
<1> QED
  BY <1>2, <1>3, <1>4, <1>5 DEF ConnectStep

LEMMA ParserElse ==
    ASSUME ParserInv, TypeOK',
           \/ \E c \in Calls : SessionStep(c)
           \/ \E e \in Endpoints : EndpointStep(e)
           \/ UNCHANGED vars
    PROVE  ParserInv'
<1>1. UNCHANGED <<pc, url, parserVars, _uri>>
  BY DEF SessionStep, DnsAnswer, SocketEvent, RunCallbacks, FreeBev, ShutSsl, Finalize,
         EndpointStep, Drop, RunJob, EndpointGone, callVars, nodeVars, vars
<1> QED
  BY <1>1, ParserIdle

(* A uri has no field that comes from anything but the url of its connect, *)
(* or a connect that runs on another loop: what call_get is worth without  *)
(* a lock in the parser, for any number of loops and calls.                *)
THEOREM UriFromOwnUrl == Spec => []UriIsOwn
<1>1. Init => ParserInv
  <2> SUFFICES ASSUME Init PROVE ParserInv
    OBVIOUS
  <2>1. TypeOK
    BY TypeInit
  <2> QED
    BY <2>1 DEF Init, ParserInv, Serial, Parsing, Extracted, Running, InParser
<1>2. ParserInv /\ [Next]_vars => ParserInv'
  <2> SUFFICES ASSUME ParserInv, [Next]_vars PROVE ParserInv'
    OBVIOUS
  <2>1. TypeOK' /\ \A c \in Calls : EpOf[c] \in Endpoints
    BY TypeStep, Shapes DEF ParserInv
  <2> QED
    BY <2>1, ParserConnect, ParserElse DEF Next
<1>3. ParserInv => UriIsOwn
  BY DEF ParserInv, Extracted, OwnHost, OwnHref, UriIsOwn
<1> QED
  BY <1>1, <1>2, <1>3, PTL DEF Spec

=============================================================================
