------------------------------ MODULE Streams ------------------------------
(***************************************************************************)
(* The streams of an inbound session: the hooks of inbound_session that    *)
(* nghttp2 calls (src/session.cpp), and the stream that answers a request  *)
(* from a file descriptor (src/stream.cpp, include/wshttp/stream.hpp).     *)
(*                                                                         *)
(* The session keeps its own map of stream objects beside the streams that *)
(* nghttp2 keeps; nghttp2 announces begin, headers, end of request and     *)
(* close of a stream, and pulls the body of the answer through             *)
(* file_read_callback.  Descriptors are small numbers that the system      *)
(* gives out again as soon as they are closed.                             *)
(***************************************************************************)
EXTENDS Naturals, FiniteSets

CONSTANTS
    Ids,        \* stream ids the peer uses (bound)
    Fds,        \* descriptors the process may have open
    NoFd,       \* -1
    Faults      \* library and system calls may fail

ASSUME Descriptors == IsFiniteSet(Fds) /\ NoFd \notin Fds /\ Faults \in BOOLEAN

VARIABLES
    session,    \* "open", "failed" once a hook returned an error, "closed"
    h2,         \* per id, in nghttp2: "idle", "open", "half" (the request is
                \* complete), "closed"
    streams,    \* _streams: the ids that have an entry
    obj,        \* per id: the stream object, "none", "made" or "leaked"
    req,        \* per id: _req is "empty" or "path"
    fd,         \* per id: _fd
    unread,     \* per id: the descriptor still has data before its end
    answer,     \* per id: "none", "200", "404"; "rst": RST_STREAM is queued
    open        \* open descriptors

vars == <<session, h2, streams, obj, req, fd, unread, answer, open>>

(* A response is given a descriptor, never the -1 of an open that failed.  *)
TypeOK ==
    /\ session \in {"open", "failed", "closed"}
    /\ h2 \in [Ids -> {"idle", "open", "half", "closed"}]
    /\ streams \subseteq Ids
    /\ obj \in [Ids -> {"none", "made", "leaked"}]
    /\ req \in [Ids -> {"empty", "path"}]
    /\ fd \in [Ids -> Fds \cup {NoFd}]
    /\ unread \in [Ids -> BOOLEAN]
    /\ answer \in [Ids -> {"none", "200", "404", "rst"}]
    /\ open \subseteq Fds
    /\ \A i \in Ids : answer[i] \in {"200", "404"} => fd[i] # NoFd

Init ==
    /\ session = "open"
    /\ h2 = [i \in Ids |-> "idle"]
    /\ streams = {}
    /\ obj = [i \in Ids |-> "none"]
    /\ req = [i \in Ids |-> "empty"]
    /\ fd = [i \in Ids |-> NoFd]
    /\ unread = [i \in Ids |-> FALSE]
    /\ answer = [i \in Ids |-> "none"]
    /\ open = {}

-----------------------------------------------------------------------------
(* Requests come in.                                                       *)

(* begin_headers_hook: HEADERS that open a stream.                         *)
begin_headers_hook(i) ==
    /\ session = "open" /\ h2[i] = "idle"
    /\ h2' = [h2 EXCEPT ![i] = "open"]
    /\ streams' = streams \cup {i}
    /\ obj' = [obj EXCEPT ![i] = IF i \in streams THEN @ ELSE "made"]
    /\ UNCHANGED <<session, req, fd, unread, answer, open>>

(* The literal ":path"_usp keeps its NUL.                                  *)
usp_len(chars) == chars + 1
path_matches(name) == name = ":path" /\ usp_len(5) = 5

(* A hook returns an error: nghttp2 fails, and read_session_data closes    *)
(* the session.                                                            *)
Fails == session' = "failed"

(* The path is parsed; a uri is never false, whether it could be parsed or *)
(* not.                                                                    *)
recv_path_header(i) ==
    /\ req' = [req EXCEPT ![i] = "path"]
    /\ UNCHANGED session

recv_header_hook(i, name) ==
    /\ session = "open" /\ h2[i] = "open"
    /\ \/ path_matches(name) /\ i \in streams /\ recv_path_header(i)
       \/ path_matches(name) /\ i \notin streams /\ Fails /\ UNCHANGED req
       \/ ~path_matches(name) /\ UNCHANGED <<session, req>>
    /\ UNCHANGED <<h2, streams, obj, fd, unread, answer, open>>

(* send_response, with f just opened: nghttp2 accepts the response, or f   *)
(* is closed again and its number stays in _fd.                            *)
send_response(i, f, code) ==
    /\ fd' = [fd EXCEPT ![i] = f]
    /\ \/ /\ answer' = [answer EXCEPT ![i] = code]
          /\ unread' = [unread EXCEPT ![i] = TRUE]
          /\ open' = open \cup {f}
          /\ UNCHANGED session
       \/ /\ Faults /\ Fails
          /\ UNCHANGED <<answer, unread, open>>

(* Variant: both ends of the pipe are closed once it is filled.            *)
send_error_ClosesBoth(i) ==
    /\ \E f \in Fds \ open : fd' = [fd EXCEPT ![i] = f]
    /\ answer' = [answer EXCEPT ![i] = "404"]
    /\ unread' = [unread EXCEPT ![i] = TRUE]
    /\ UNCHANGED <<session, open>>

(* Variant: without a pipe nothing is sent.                                *)
send_error_NoReset(i) ==
    IF Cardinality(Fds \ open) >= 2
      THEN \E f \in Fds \ open : send_response(i, f, "404")
      ELSE UNCHANGED <<session, fd, unread, answer, open>>

(* send_error: the error page goes through a pipe, whose writing end is    *)
(* closed at once; without a pipe the stream is reset.                     *)
send_error(i) ==
    \/ /\ Cardinality(Fds \ open) >= 2
       /\ \E f \in Fds \ open : send_response(i, f, "404")
    \/ /\ Cardinality(Fds \ open) < 2
       /\ answer' = [answer EXCEPT ![i] = "rst"]
       /\ UNCHANGED <<session, fd, unread, open>>
    \/ /\ Faults /\ Fails
       /\ UNCHANGED <<fd, unread, answer, open>>

(* open(path) may succeed: the empty path names no file.                   *)
CanOpen(i) == req[i] = "path" /\ open # Fds

(* Variant: the result of open is not compared with -1.                    *)
recv_frame_NoCheck(i) ==
    IF CanOpen(i)
      THEN send_error(i) \/ \E f \in Fds \ open : send_response(i, f, "200")
      ELSE /\ fd' = [fd EXCEPT ![i] = NoFd]
           /\ answer' = [answer EXCEPT ![i] = "200"]
           /\ UNCHANGED <<session, unread, open>>

(* recv_frame: the file that the path names, or the error page.            *)
recv_frame(i) ==
    IF CanOpen(i)
      THEN send_error(i) \/ \E f \in Fds \ open : send_response(i, f, "200")
      ELSE send_error(i)

(* frame_recv_hook: the request is complete.                               *)
frame_recv_hook(i) ==
    /\ session = "open" /\ h2[i] = "open"
    /\ h2' = [h2 EXCEPT ![i] = "half"]
    /\ IF i \in streams
         THEN recv_frame(i)
         ELSE Fails /\ UNCHANGED <<fd, unread, answer, open>>
    /\ UNCHANGED <<streams, obj, req>>

-----------------------------------------------------------------------------
(* Answers go out and streams end.                                         *)

(* The deleter of the shared_ptr, for the streams in S: it closes _fd only *)
(* when there is none, and does not delete the object.                     *)
stream_d(S) ==
    /\ obj' = [i \in Ids |-> IF i \in S THEN "leaked" ELSE obj[i]]
    /\ open' = open \ {fd[i] : i \in {j \in S : fd[j] = NoFd}}

(* Variant: the map keeps the stream.                                      *)
stream_close_hook_Keeps(i) ==
    /\ h2' = [h2 EXCEPT ![i] = "closed"]
    /\ UNCHANGED <<session, streams, obj, req, fd, unread, answer, open>>

stream_close_hook(i) ==
    /\ h2' = [h2 EXCEPT ![i] = "closed"]
    /\ streams' = streams \ {i}
    /\ stream_d({i} \cap streams)
    /\ UNCHANGED <<session, req, fd, unread, answer>>

(* nghttp2 asks for the body: file_read_callback reads only if errno is    *)
(* EINTR when it is called, and otherwise asks for a reset.  The end of    *)
(* the file ends the stream.                                               *)
Sending(i) == session = "open" /\ h2[i] = "half" /\ answer[i] \in {"200", "404"}

ReadNothing(i) ==
    /\ Sending(i)
    /\ answer' = [answer EXCEPT ![i] = "rst"]
    /\ UNCHANGED <<session, h2, streams, obj, req, fd, unread, open>>

ReadSome(i) ==
    /\ Sending(i) /\ unread[i]
    /\ unread' = [unread EXCEPT ![i] = FALSE]
    /\ UNCHANGED <<session, h2, streams, obj, req, fd, answer, open>>

ReadEnd(i) == Sending(i) /\ ~unread[i] /\ stream_close_hook(i)

file_read_callback(i) == ReadNothing(i) \/ ReadSome(i) \/ ReadEnd(i)

(* RST_STREAM has been sent.                                               *)
RstSent(i) ==
    /\ session = "open" /\ h2[i] = "half" /\ answer[i] = "rst"
    /\ stream_close_hook(i)

(* The peer resets the stream.                                             *)
PeerReset(i) ==
    /\ session = "open" /\ h2[i] \in {"open", "half"}
    /\ stream_close_hook(i)

(* The session is destroyed, after a failure or for any other reason.      *)
CloseSession ==
    /\ session # "closed"
    /\ session' = "closed"
    /\ streams' = {}
    /\ stream_d(streams)
    /\ UNCHANGED <<h2, req, fd, unread, answer>>

Peer(i) ==
    \/ begin_headers_hook(i) \/ frame_recv_hook(i) \/ PeerReset(i)
    \/ \E name \in {":path", ":method"} : recv_header_hook(i, name)

Send(i) == file_read_callback(i) \/ RstSent(i)

Next ==
    \/ \E i \in Ids : Peer(i) \/ Send(i)
    \/ CloseSession
    \/ session = "closed" /\ UNCHANGED vars

Spec == Init /\ [][Next]_vars

(* nghttp2 is given the chance to send as long as it has something to send *)
(* and the peer takes it (SessionIO: QueueMoves).                          *)
FairSpec == Spec /\ \A i \in Ids : WF_vars(Send(i))

-----------------------------------------------------------------------------
(* Properties.                                                             *)

(* The two books agree: _streams has an entry for exactly the streams that *)
(* nghttp2 will still call a hook for, so that no hook fails to find its   *)
(* stream (session.cpp 573, 623) and none is kept beyond its end.          *)
StreamsAgree ==
    session = "open" => streams = {i \in Ids : h2[i] \in {"open", "half"}}

(* Every complete request has been answered or reset, also when the        *)
(* process is out of descriptors (recv_frame, send_error).                 *)
Answered ==
    \A i \in Ids : session = "open" /\ h2[i] = "half" => answer[i] # "none"

(* The descriptor nghttp2 reads a body from is open, and no other stream   *)
(* that is still answering has the same one.                               *)
ReadsOwnFd ==
    \A i \in Ids : Sending(i) =>
        /\ fd[i] \in open
        /\ \A j \in Ids \ {i} : Sending(j) => fd[j] # fd[i]

(* A request does not stay open for ever: its stream ends, or the session. *)
RequestsEnd ==
    \A i \in Ids : h2[i] = "half" ~> h2[i] = "closed" \/ session # "open"

=============================================================================
