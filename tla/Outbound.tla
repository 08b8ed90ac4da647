------------------------------ MODULE Outbound ------------------------------
(***************************************************************************)
(* Outbound connections, from endpoint::connect to the end of their        *)
(* session: src/parser.cpp, src/address.cpp, src/node.cpp, and the         *)
(* outbound half of src/session.cpp.                                       *)
(*                                                                         *)
(* connect runs on the loop thread of its endpoint (call_get).  It parses  *)
(* the url with the one url_parser of the process, makes a node, and the   *)
(* node makes an outbound_session, whose bufferevent resolves the host and *)
(* connects.  Here every endpoint has a loop of its own, which the         *)
(* application holds, so that there are as many loop threads; what         *)
(* endpoints on one loop do to each other, and the end of the loop, are    *)
(* the subject of Endpoint.  A session ends by a job that holds it by a    *)
(* bare pointer, or with its endpoint; its bufferevent is finalised later. *)
(***************************************************************************)
EXTENDS Address, FiniteSets, Functions

CONSTANTS
    Endpoints,
    Droppable,  \* the endpoints the application may drop
    Calls,      \* calls of connect; also the node and the session each makes
    EpOf,       \* the endpoint of each call
    UrlsOf,     \* the urls each call may be made with
    LocalsOf,   \* the local addresses each call may ask for: None, or
                \* family, address and port as digits
    None, Delete

(* What the parser makes of a url: whether it can be parsed, whether its   *)
(* scheme can become https, its host name and its port ("default" is 443). *)
Url == [valid : BOOLEAN, special : BOOLEAN, name : STRING, port : {"default", "other"}]

ASSUME Shapes ==
    /\ Droppable \subseteq Endpoints
    /\ EpOf \in [Calls -> Endpoints]
    /\ \A c \in Calls : UrlsOf[c] \subseteq Url \ {None}
    /\ \A c \in Calls : \A l \in LocalsOf[c] \ {None} :
            /\ DOMAIN l = {"family", "addr", "port"}
            /\ l.family = 4 => l.addr \in Bytes(4)
            /\ l.port \in Bytes(2)
    /\ Delete \notin Calls

AllUrls == UNION {UrlsOf[c] : c \in Calls}

(* get_host: the host name, and the port unless it is that of the scheme.  *)
get_host(u) == <<u.name, u.port>>

(* uri{}, what uri::parse returns if the parser fails.  It is not empty.   *)
NoUri == [host |-> <<"", "default">>, href |-> None]

VARIABLES
    pc,         \* per call: where it is
    url,        \* per call: its argument
    _data,      \* of the url_parser
    _res,
    _uri,       \* per call: the uri extracted so far
    _nodes,     \* per endpoint: _nodes by host
    _local,     \* per call: the local address asked for
    bound,      \* per call: the sockaddr its socket is bound to, if it is
    session,    \* per call: "none", "up", "open" (nghttp2 exists), "erased"
                \* (out of the map), "freeing" (between bufferevent_free and
                \* SSL_shutdown), "gone"
    bev,        \* per call: its bufferevent; "held" by a DNS request after it
                \* was freed, "final" when its finalizer is to run
    ssl,        \* per call: its SSL, which belongs to the bufferevent
    pend,       \* per call: callbacks pending in its bufferevent
    jobs,       \* per endpoint: jobs of its loop that close or delete
    ep,         \* per endpoint: "live", "dropped", "deleting", "deleted"
    proc

callVars    == <<pc, url, _local>>
parserVars  == <<_data, _res>>
nodeVars    == <<_uri, _nodes, bound>>
sessionVars == <<session, bev, ssl, pend>>
vars == <<callVars, parserVars, nodeVars, sessionVars, jobs, ep, proc>>

InParser == {"read", "parse", "protocol", "host", "href"}
Running  == InParser \cup {"emplace"}
Results  == AllUrls \cup {None}
Locals   == {None} \cup (UNION {LocalsOf[c] : c \in Calls})
Hosts    == {get_host(u) : u \in AllUrls} \cup {NoUri.host}
Calling(e) == {c \in Calls : EpOf[c] = e}

TypeOK ==
    /\ pc \in [Calls -> Running \cup {"idle", "returned", "threw"}]
    /\ url \in [Calls -> Results] /\ \A c \in Calls : url[c] \in UrlsOf[c] \cup {None}
    /\ _data \in Results /\ _res \in Results
    /\ _uri \in [Calls -> [host : Hosts, href : Results]]
    /\ _nodes \in [Endpoints -> [Hosts -> {"absent", "null", "node"}]]
    /\ _local \in [Calls -> Locals]
    /\ \A c \in Calls : _local[c] \in LocalsOf[c] \cup {None}
    /\ session \in [Calls -> {"none", "up", "open", "erased", "freeing", "gone"}]
    /\ bev \in [Calls -> {"none", "resolving", "live", "held", "final", "gone"}]
    /\ ssl \in [Calls -> {"none", "made", "shut", "freed"}]
    /\ pend \in [Calls -> SUBSET {"connected", "fatal", "event"}]
    /\ jobs \in [Endpoints -> Seq(Calls \cup {Delete})]
    /\ \A e \in Endpoints : jobs[e] \in Seq(Calling(e) \cup {Delete})
    /\ ep \in [Endpoints -> {"live", "dropped", "deleting", "deleted"}]
    /\ proc \in {"up", "terminated", "crashed"}

Init ==
    /\ pc = [c \in Calls |-> "idle"]
    /\ url = [c \in Calls |-> None]
    /\ _data = None /\ _res = None
    /\ _uri = [c \in Calls |-> NoUri]
    /\ _nodes = [e \in Endpoints |-> [h \in Hosts |-> "absent"]]
    /\ _local = [c \in Calls |-> None]
    /\ bound = [c \in Calls |-> None]
    /\ session = [c \in Calls |-> "none"]
    /\ bev = [c \in Calls |-> "none"]
    /\ ssl = [c \in Calls |-> "none"]
    /\ pend = [c \in Calls |-> {}]
    /\ jobs = [e \in Endpoints |-> <<>>]
    /\ ep = [e \in Endpoints |-> "live"]
    /\ proc = "up"

-----------------------------------------------------------------------------
(* The loop thread of an endpoint.                                         *)

Destroying(e) == \E c \in Calling(e) : session[c] \in {"erased", "freeing"}

(* Variant: sessions are deleted by whoever drops them, on any thread.     *)
LoopFree_DeletesElsewhere(e) ==
    /\ proc = "up"
    /\ \A c \in Calling(e) : pc[c] \notin Running
    /\ ep[e] # "deleting"

(* It is between two callbacks.                                            *)
LoopFree(e) ==
    /\ proc = "up"
    /\ \A c \in Calling(e) : pc[c] \notin Running
    /\ ~Destroying(e) /\ ep[e] # "deleting"

Goto(c, place) == pc' = [pc EXCEPT ![c] = place]

-----------------------------------------------------------------------------
(* endpoint::connect, uri::parse, and the url_parser.                      *)

(* Variant: the url is parsed on the thread that calls connect.            *)
connect_OnCaller(c) ==
    /\ proc = "up" /\ ep[EpOf[c]] = "live" /\ pc[c] = "idle"
    /\ Goto(c, "read")
    /\ \E u \in UrlsOf[c] : url' = [url EXCEPT ![c] = u]
    /\ \E l \in LocalsOf[c] : _local' = [_local EXCEPT ![c] = l]
    /\ UNCHANGED <<parserVars, nodeVars, sessionVars, jobs, ep, proc>>

connect(c) ==
    /\ LoopFree(EpOf[c]) /\ ep[EpOf[c]] = "live" /\ pc[c] = "idle"
    /\ Goto(c, "read")
    /\ \E u \in UrlsOf[c] : url' = [url EXCEPT ![c] = u]
    /\ \E l \in LocalsOf[c] : _local' = [_local EXCEPT ![c] = l]
    /\ UNCHANGED <<parserVars, nodeVars, sessionVars, jobs, ep, proc>>

At(c, place) == proc = "up" /\ pc[c] = place

read(c) ==
    /\ At(c, "read")
    /\ _data' = url[c]
    /\ Goto(c, "parse")
    /\ UNCHANGED <<_res, url, _local, nodeVars, sessionVars, jobs, ep, proc>>

(* ada::parse; a url that is not valid gives a result without a value.     *)
_parse(c) ==
    /\ At(c, "parse") /\ _data # None
    /\ _res' = _data
    /\ Goto(c, "protocol")
    /\ UNCHANGED <<_data, url, _local, nodeVars, sessionVars, jobs, ep, proc>>

(* set_protocol and validate; on failure _reset, and uri{}.                *)
set_protocol(c) ==
    /\ At(c, "protocol") /\ _res # None
    /\ IF _res.valid /\ _res.special
         THEN Goto(c, "host") /\ UNCHANGED parserVars
         ELSE Goto(c, "emplace") /\ _data' = None /\ _res' = None
    /\ UNCHANGED <<url, _local, nodeVars, sessionVars, jobs, ep, proc>>

(* extract asks the result for one field after the other.                  *)
extract_host(c) ==
    /\ At(c, "host") /\ _res # None /\ _res.valid
    /\ _uri' = [_uri EXCEPT ![c].host = get_host(_res)]
    /\ Goto(c, "href")
    /\ UNCHANGED <<parserVars, url, _local, _nodes, bound, sessionVars, jobs, ep, proc>>

extract_href(c) ==
    /\ At(c, "href") /\ _res # None /\ _res.valid
    /\ _uri' = [_uri EXCEPT ![c].href = _res]
    /\ Goto(c, "emplace")
    /\ UNCHANGED <<parserVars, url, _local, _nodes, bound, sessionVars, jobs, ep, proc>>

(* Two loops in the parser at once: a null _data or _res is dereferenced,  *)
(* or the two unique_ptrs are torn.                                        *)
ParserCrash(c) ==
    /\ proc = "up" /\ pc[c] \in InParser
    /\ \/ \E d \in Calls \ {c} : pc[d] \in InParser
       \/ pc[c] = "parse" /\ _data = None
       \/ pc[c] \in {"protocol", "host", "href"} /\ _res = None
       \/ pc[c] \in {"host", "href"} /\ _res # None /\ ~_res.valid
    /\ proc' = "crashed"
    /\ UNCHANGED <<callVars, parserVars, nodeVars, sessionVars, jobs, ep>>

-----------------------------------------------------------------------------
(* The node and its session.                                               *)

(* node::_init_internals: the sockaddr passed to bind.  An IPv6 address    *)
(* never comes so far: bind is told the size of a sockaddr, which is too   *)
(* short for it, and fails.                                                *)
BindAddress(l) == sockaddr(ip_address(ipv4_of_digits(l.addr), l.port, 4))

(* try_emplace found the host, or the node's constructor threw (bind) and  *)
(* left a null entry.                                                      *)
ConnectThrows(c, entry) ==
    /\ _nodes' = [_nodes EXCEPT ![EpOf[c]][_uri[c].host] = entry]
    /\ Goto(c, "threw")
    /\ UNCHANGED <<bound, sessionVars>>

(* The constructor of outbound_session: SSL, bufferevent, the request for  *)
(* the host.  When the last one fails, it throws, and the members made so  *)
(* far are destroyed.                                                      *)
NewSession(c, dials) ==
    /\ bound' = [bound EXCEPT ![c] = IF _local[c] = None THEN None ELSE BindAddress(_local[c])]
    /\ ssl' = [ssl EXCEPT ![c] = "made"]
    /\ bev' = [bev EXCEPT ![c] = IF dials THEN "resolving" ELSE "live"]
    /\ session' = [session EXCEPT ![c] = IF dials THEN "up" ELSE "erased"]
    /\ _nodes' = [_nodes EXCEPT ![EpOf[c]][_uri[c].host] =
                        IF dials THEN "node" ELSE "null"]
    /\ Goto(c, IF dials THEN "returned" ELSE "threw")
    /\ UNCHANGED pend

MayBind(l) == l # None => l.family = 4

create_outbound_session(c) ==
    /\ At(c, "emplace")
    /\ LET entry == _nodes[EpOf[c]][_uri[c].host] IN
         \/ entry # "absent" /\ ConnectThrows(c, entry)
         \/ entry = "absent" /\ _local[c] # None /\ ConnectThrows(c, "null")
         \/ entry = "absent" /\ MayBind(_local[c]) /\ \E dials \in BOOLEAN : NewSession(c, dials)
    /\ UNCHANGED <<url, _local, parserVars, _uri, jobs, ep, proc>>

-----------------------------------------------------------------------------
(* The bufferevent.                                                        *)

(* The name passed to the resolver includes a port: such a name, like an   *)
(* empty one, has no address.                                              *)
Resolvable(h) == h[1] # "" /\ h[2] = "default"

DnsAnswer(c) ==
    /\ LoopFree(EpOf[c])
    /\ \/ /\ bev[c] = "resolving"
          /\ bev' = [bev EXCEPT ![c] = "live"]
          /\ \/ Resolvable(_uri[c].host) /\ UNCHANGED pend
             \/ pend' = [pend EXCEPT ![c] = @ \cup {"event"}]
       \/ /\ bev[c] = "held"
          /\ bev' = [bev EXCEPT ![c] = "final"]
          /\ UNCHANGED pend
    /\ UNCHANGED <<callVars, parserVars, nodeVars, session, ssl, jobs, ep, proc>>

(* Callbacks become pending: connected, event (the end), and fatal, a read *)
(* or write callback that closes the session.  Those that do not close it  *)
(* change nothing here.                                                    *)
SocketEvent(c, cb) ==
    /\ proc = "up" /\ bev[c] = "live" /\ session[c] \in {"up", "open"}
    /\ cb \notin pend[c] /\ pend[c] \cap {"connected", "event"} = {}
    /\ cb = "connected" => session[c] = "up"
    /\ cb = "fatal" => session[c] = "open"
    /\ pend' = [pend EXCEPT ![c] = @ \cup {cb}]
    /\ UNCHANGED <<callVars, parserVars, nodeVars, session, bev, ssl, jobs, ep, proc>>

(* Variant: a session that was never connected is not closed.              *)
PostsClose_OnlyOpen(c, n) ==
    jobs' = [jobs EXCEPT ![EpOf[c]] =
                IF session[c] = "open" THEN @ \o [i \in 1..n |-> c] ELSE @]

(* Variant: the job goes to every loop.                                    *)
PostsClose_Everywhere(c, n) ==
    jobs' = [e \in Endpoints |-> jobs[e] \o [i \in 1..n |-> c]]

(* outbound_session::close_session, n times.                               *)
PostsClose(c, n) == jobs' = [jobs EXCEPT ![EpOf[c]] = @ \o [i \in 1..n |-> c]]

(* initialize_session sets an option on _fd, which is -1 unless the node   *)
(* bound a socket, and throws through libevent; so it does if getsockname, *)
(* given an uninitialised length, fails or leaves no family behind.  What  *)
(* it makes of _path, which is only printed, is left out.                  *)
initialize_session(c) ==
    \/ proc' = "terminated" /\ UNCHANGED session
    \/ /\ bound[c] # None
       /\ session' = [session EXCEPT ![c] = "open"]
       /\ UNCHANGED proc

(* The deferred run: connected ends the handshake, or closes if ALPN went  *)
(* wrong; the others close.  Active events are served in order, so that a  *)
(* close job of c, which made job_waker active in an earlier run of c,     *)
(* comes before this run.                                                  *)
RunCallbacks(c) ==
    /\ LoopFree(EpOf[c]) /\ pend[c] # {} /\ c \notin Range(jobs[EpOf[c]])
    /\ pend' = [pend EXCEPT ![c] = {}]
    /\ \/ "connected" \in pend[c] /\ initialize_session(c) /\ UNCHANGED jobs
       \/ /\ PostsClose(c, Cardinality(pend[c]))
          /\ UNCHANGED <<session, proc>>
    /\ UNCHANGED <<callVars, parserVars, nodeVars, bev, ssl, ep>>

-----------------------------------------------------------------------------
(* The jobs, and the end of a session.                                     *)

(* The last shared_ptr to the endpoint goes: nobody is in a call of it.    *)
Drop(e) ==
    /\ proc = "up" /\ e \in Droppable /\ ep[e] = "live"
    /\ \A c \in Calling(e) : pc[c] \notin Running
    /\ ep' = [ep EXCEPT ![e] = "dropped"]
    /\ jobs' = [jobs EXCEPT ![e] = Append(@, Delete)]
    /\ UNCHANGED <<callVars, parserVars, nodeVars, sessionVars, proc>>

(* node::close_session.  The job of a session that is gone reads freed     *)
(* memory; if it survives that, it finds no entry.                         *)
CloseJob(c) ==
    /\ UNCHANGED ep
    /\ \/ /\ session[c] \in {"up", "open"}
          /\ session' = [session EXCEPT ![c] = "erased"]
          /\ UNCHANGED proc
       \/ session[c] = "gone" /\ proc' \in {proc, "crashed"} /\ UNCHANGED session

(* ~endpoint, its member _nodes: every session is destroyed.               *)
DeleteJob(e) ==
    /\ ep' = [ep EXCEPT ![e] = "deleting"]
    /\ session' = [c \in Calls |->
            IF EpOf[c] = e /\ session[c] \in {"up", "open"} THEN "erased" ELSE session[c]]
    /\ UNCHANGED proc

RunJob(e) ==
    /\ LoopFree(e) /\ jobs[e] # <<>>
    /\ jobs' = [jobs EXCEPT ![e] = Tail(@)]
    /\ IF Head(jobs[e]) = Delete THEN DeleteJob(e) ELSE CloseJob(Head(jobs[e]))
    /\ UNCHANGED <<callVars, parserVars, nodeVars, bev, ssl, pend>>

(* ~session_base, the member _bev.  bufferevent_free leaves the rest to a  *)
(* finalizer on the loop, and that waits for a DNS request.                *)
FreeBev(c) ==
    /\ proc = "up" /\ session[c] = "erased"
    /\ session' = [session EXCEPT ![c] = "freeing"]
    /\ bev' = [bev EXCEPT ![c] = IF @ = "resolving" THEN "held" ELSE "final"]
    /\ pend' = [pend EXCEPT ![c] = {}]
    /\ UNCHANGED <<callVars, parserVars, nodeVars, ssl, jobs, ep, proc>>

(* ~session_base, the member _ssl.                                         *)
ShutSsl(c) ==
    /\ proc = "up" /\ session[c] = "freeing"
    /\ session' = [session EXCEPT ![c] = "gone"]
    /\ ssl' = [ssl EXCEPT ![c] = IF @ = "made" THEN "shut" ELSE @]
    /\ UNCHANGED <<callVars, parserVars, nodeVars, bev, pend, jobs, ep, proc>>

(* The finalizer of the bufferevent frees the SSL (BEV_OPT_CLOSE_ON_FREE). *)
Finalize(c) ==
    /\ LoopFree(EpOf[c]) /\ bev[c] = "final"
    /\ bev' = [bev EXCEPT ![c] = "gone"]
    /\ ssl' = [ssl EXCEPT ![c] = "freed"]
    /\ UNCHANGED <<callVars, parserVars, nodeVars, session, pend, jobs, ep, proc>>

(* ~endpoint, the member _dns: evdns_base_free ends the requests.          *)
EndpointGone(e) ==
    /\ proc = "up" /\ ep[e] = "deleting" /\ ~Destroying(e)
    /\ ep' = [ep EXCEPT ![e] = "deleted"]
    /\ bev' = [c \in Calls |-> IF EpOf[c] = e /\ bev[c] = "held" THEN "final" ELSE bev[c]]
    /\ UNCHANGED <<callVars, parserVars, nodeVars, session, ssl, pend, jobs, proc>>

ConnectStep(c) ==
    \/ connect(c) \/ read(c) \/ _parse(c) \/ set_protocol(c)
    \/ extract_host(c) \/ extract_href(c) \/ ParserCrash(c)
    \/ create_outbound_session(c)

SessionStep(c) ==
    \/ DnsAnswer(c) \/ \E cb \in {"connected", "fatal", "event"} : SocketEvent(c, cb)
    \/ RunCallbacks(c) \/ FreeBev(c) \/ ShutSsl(c) \/ Finalize(c)

EndpointStep(e) == Drop(e) \/ RunJob(e) \/ EndpointGone(e)

(* The process is over, or every loop waits for something from outside.    *)
Quiet ==
    \/ proc # "up"
    \/ \A e \in Endpoints : LoopFree(e) /\ jobs[e] = <<>>

Next ==
    \/ \E c \in Calls : ConnectStep(c) \/ SessionStep(c)
    \/ \E e \in Endpoints : EndpointStep(e)
    \/ Quiet /\ UNCHANGED vars

Spec == Init /\ [][Next]_vars

(* The loop threads go on while they have something to do.  Nothing is     *)
(* asked of the network, of the resolver or of the application.            *)
LoopThreads ==
    \/ \E c \in Calls :
          \/ pc[c] # "idle" /\ ConnectStep(c)
          \/ RunCallbacks(c) \/ FreeBev(c) \/ ShutSsl(c) \/ Finalize(c)
    \/ \E e \in Endpoints : RunJob(e) \/ EndpointGone(e)

FairSpec == Spec /\ WF_vars(LoopThreads)

-----------------------------------------------------------------------------
(* Properties.                                                             *)

(* What connect makes of a url alone, and what it is before the checks.    *)
UriOf(u) == IF u.valid /\ u.special THEN [host |-> get_host(u), href |-> u] ELSE NoUri
Unchecked(u) == [host |-> get_host(u), href |-> u]

(* The urls of connects on other loops, and what c may make of its own url *)
(* and of theirs.                                                          *)
Others(c) == {url[d] : d \in {d \in Calls : EpOf[d] # EpOf[c] /\ pc[d] # "idle"}}
Sources(c) ==
    {UriOf(u) : u \in Others(c) \cup {url[c]}} \cup {Unchecked(u) : u \in Others(c)}

(* The url_parser is one for the process and has no lock (parser.cpp 8):   *)
(* what keeps a connect from reading the result of another is call_get,    *)
(* which serves one at a time on each loop.  A uri is that of the url it   *)
(* was made from, in every field, except for fields that come from a       *)
(* connect on another loop.                                                *)
UriIsOwn ==
    \A c \in Calls : pc[c] \in {"emplace", "returned", "threw"} =>
        /\ _uri[c].host \in {s.host : s \in Sources(c)}
        /\ _uri[c].href \in {s.href : s \in Sources(c)}

(* A socket is bound to the address and the port that were asked for, in   *)
(* network order, whatever the machine's order (node.cpp 42-50).           *)
BoundAsAsked ==
    \A c \in Calls : bound[c] # None =>
        /\ bound[c].addr = _local[c].addr
        /\ bound[c].port = _local[c].port

(* SSL_shutdown (types.hpp 142) comes after bufferevent_free, and the      *)
(* bufferevent owns the SSL: it is sound because both are called on the    *)
(* loop thread, before that thread can run the finalizer.                  *)
SslAliveAtShutdown ==
    \A c \in Calls : session[c] \in {"erased", "freeing"} => ssl[c] = "made"

(* A session whose connection failed or ended, or whose endpoint was       *)
(* dropped, leaves nothing behind, whatever it was waiting for (event_cb,  *)
(* node::close_session, ~endpoint), if the process survives.               *)
NothingLeft ==
    \A c \in Calls :
        "event" \in pend[c] \/ (session[c] # "none" /\ ep[EpOf[c]] = "dropped")
            ~> ssl[c] = "freed" \/ proc # "up"

=============================================================================
