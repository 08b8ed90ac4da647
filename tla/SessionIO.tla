----------------------------- MODULE SessionIO -----------------------------
(***************************************************************************)
(* The I/O of one session: session_base and its two subclasses             *)
(* (include/wshttp/session.hpp, src/session.cpp), between the TLS          *)
(* bufferevent of libevent and the session object of nghttp2.              *)
(*                                                                         *)
(* Everything here happens on the loop thread.  libevent moves bytes       *)
(* between the socket and the bufferevent's buffers and marks callbacks    *)
(* as pending (BEV_OPT_DEFER_CALLBACKS); one deferred run later delivers   *)
(* what is pending, in the order connected, read, write, other event.      *)
(* nghttp2 turns the bytes it is given into frames to send, and hands one  *)
(* frame at a time to send_hook, which refuses it while the output buffer  *)
(* is at OUTPUT_BLOCK_THRESHOLD.                                           *)
(***************************************************************************)
EXTENDS Naturals, Sequences

CONSTANTS
    OUTPUT_BLOCK_THRESHOLD,
    MaxFrame,   \* the largest piece nghttp2 hands to the send callback
    MaxQueue,   \* bound: frames queued in nghttp2
    FdKnown,    \* _fd of an outbound session is its socket: only when the node
                \* was given a local address, else it stays -1
    Faults      \* library calls may fail (memory; getsockname, whose length
                \* argument is uninitialised)

ASSUME Sizes == /\ OUTPUT_BLOCK_THRESHOLD \in Nat \ {0}
                /\ MaxFrame \in Nat \ {0}
                /\ MaxQueue \in Nat \ {0}
ASSUME Flags == FdKnown \in BOOLEAN /\ Faults \in BOOLEAN

FrameSize == 1..MaxFrame

VARIABLES
    outbound,   \* _is_outbound, fixed at construction
    ssl,        \* "handshake", "open", or "eof" once the peer is gone
    alpn,       \* what SSL_get0_alpn_selected answers
    session,    \* _session: "null", "open", or "terminating" once nghttp2
                \* has decided to end the session with a GOAWAY
    goaway,     \* nghttp2 has received a GOAWAY of the peer
    active,     \* nghttp2 has active streams
    frames,     \* sizes of the frames nghttp2 has queued
    out,        \* bytes in the output buffer of _bev
    pending,    \* callbacks of _bev that libevent has to deliver
    at,         \* where the loop thread is
    heard,      \* a read callback has given nghttp2 its first bytes
    closes      \* close jobs posted by close_session

h2 == <<session, goaway, active, frames>>

vars == <<outbound, ssl, alpn, h2, out, pending, at, heard, closes>>

(* What TLS can have agreed on; "" when no protocol was negotiated.  The   *)
(* server accepts h2 or nothing; the client context offers no protocol.    *)
server_select_alpn_proto_cb(client) == IF client THEN {""} ELSE {"", "h2"}

TypeOK ==
    /\ outbound \in BOOLEAN
    /\ ssl \in {"handshake", "open", "eof"}
    /\ alpn \in server_select_alpn_proto_cb(outbound)
    /\ session \in {"null", "open", "terminating"}
    /\ goaway \in BOOLEAN
    /\ active \in BOOLEAN
    /\ frames \in Seq(FrameSize)
    /\ out \in Nat
    /\ pending \subseteq {"connected", "read", "write", "event"}
    /\ at \in {"poll", "run", "send", "closed", "terminated"}
    /\ heard \in BOOLEAN
    /\ closes \in Nat

(* What _init_internals leaves behind: callbacks set, bufferevent enabled. *)
Init ==
    /\ outbound \in BOOLEAN
    /\ ssl = "handshake"
    /\ alpn \in server_select_alpn_proto_cb(outbound)
    /\ session = "null"
    /\ goaway = FALSE
    /\ active = FALSE
    /\ frames = <<>>
    /\ out = 0
    /\ pending = {}
    /\ at = "poll"
    /\ heard = FALSE
    /\ closes = 0

-----------------------------------------------------------------------------
(* libevent and the peer, between two deferred runs.                       *)

(* The TLS handshake completes; the descriptor is polled for data only     *)
(* after the run that delivers this.                                       *)
Handshake ==
    /\ at = "poll" /\ ssl = "handshake"
    /\ ssl' = "open"
    /\ pending' = pending \cup {"connected"}
    /\ UNCHANGED <<outbound, alpn, h2, out, at, heard, closes>>

(* Bytes arrive.                                                           *)
Arrive ==
    /\ at = "poll" /\ ssl = "open" /\ "connected" \notin pending
    /\ pending' = pending \cup {"read"}
    /\ UNCHANGED <<outbound, ssl, alpn, h2, out, at, heard, closes>>

(* The socket takes n bytes; an empty output buffer makes write_cb pending. *)
Drain(n) ==
    /\ at = "poll" /\ ssl = "open" /\ n \in 1..out
    /\ out' = out - n
    /\ pending' = IF out = n THEN pending \cup {"write"} ELSE pending
    /\ UNCHANGED <<outbound, ssl, alpn, h2, at, heard, closes>>

(* End of file or an error, also during the handshake; libevent stops      *)
(* reading and writing.                                                    *)
PeerGone ==
    /\ at = "poll" /\ ssl # "eof" /\ "connected" \notin pending
    /\ ssl' = "eof"
    /\ pending' = pending \cup {"event"}
    /\ UNCHANGED <<outbound, alpn, h2, out, at, heard, closes>>

(* The deferred run starts.  A close job posted by an earlier run is ahead *)
(* of it in libevent's active queue.                                       *)
StartRun ==
    /\ at = "poll" /\ pending # {} /\ closes = 0
    /\ at' = "run"
    /\ UNCHANGED <<outbound, ssl, alpn, h2, out, pending, heard, closes>>

EndRun ==
    /\ at = "run" /\ pending = {}
    /\ at' = "poll"
    /\ UNCHANGED <<outbound, ssl, alpn, h2, out, pending, heard, closes>>

(* The turn of a callback in the run.                                      *)
Deliver(cb, before) ==
    /\ at = "run" /\ cb \in pending /\ pending \cap before = {}
    /\ pending' = pending \ {cb}

-----------------------------------------------------------------------------
(* The callbacks of session_callbacks.                                     *)

(* The closure of close_session is posted to the loop; the session lives   *)
(* on until it runs.                                                       *)
close_session ==
    /\ closes' = closes + 1
    /\ at' = "run"

(* initialize_session sets up nghttp2; the outbound one first sets options *)
(* on the descriptor.                                                      *)
CanInitialize == outbound => FdKnown
CanThrow == Faults \/ ~CanInitialize

(* send_initial: SETTINGS is queued; only the inbound session sends it.    *)
send_initial(size) ==
    /\ frames' = Append(frames, size)
    /\ at' = IF outbound THEN "run" ELSE "send"

(* Variant: the exception is caught and only logged.                       *)
Throws_Logged ==
    /\ at' = "run"
    /\ UNCHANGED <<h2, closes>>

(* An exception leaves the callback and terminates the process.            *)
Throws ==
    /\ at' = "terminated"
    /\ UNCHANGED <<h2, closes>>

config_send_initial ==
    \/ /\ CanInitialize
       /\ session' = "open"
       /\ \E size \in FrameSize : send_initial(size)
       /\ UNCHANGED <<goaway, active, closes>>
    \/ /\ CanThrow
       /\ Throws

(* The literal "h2"_usp keeps the NUL at its end, so that it is one longer *)
(* than its characters; spans are equal only if they are equally long.     *)
usp_len(chars) == chars + 1
AlpnMatches == alpn = "h2" /\ usp_len(2) = 2

(* event_cb, connected.                                                    *)
connected_cb ==
    /\ Deliver("connected", {})
    /\ IF alpn = "" \/ AlpnMatches
         THEN config_send_initial
         ELSE close_session /\ UNCHANGED h2
    /\ UNCHANGED <<outbound, ssl, alpn, out, heard>>

(* Variant: the end of the connection is only logged.                      *)
event_cb_LogsOnly ==
    /\ Deliver("event", {"connected", "read", "write"})
    /\ UNCHANGED <<outbound, ssl, alpn, h2, out, at, heard, closes>>

(* event_cb, end of file or error.                                         *)
event_cb ==
    /\ Deliver("event", {"connected", "read", "write"})
    /\ close_session
    /\ UNCHANGED <<outbound, ssl, alpn, h2, out, heard>>

(* nghttp2 digests the input.  It may queue frames, hear a GOAWAY of the   *)
(* peer (which in itself queues nothing), see streams of the peer begin    *)
(* and end (an outbound session has none: it never submits a request), or  *)
(* queue a GOAWAY of its own, after which it ignores all input.  The input *)
(* buffer is never drained, so that each call passes everything received   *)
(* so far; what nghttp2 makes of that is left open.                        *)
mem_recv(queued) ==
    IF session = "terminating"
      THEN queued = <<>> /\ UNCHANGED h2
      ELSE /\ Len(frames) + Len(queued) <= MaxQueue
           /\ frames' = frames \o queued
           /\ session' \in IF queued = <<>> THEN {session} ELSE {session, "terminating"}
           /\ goaway' \in {goaway, TRUE}
           /\ active' \in IF outbound THEN {FALSE} ELSE BOOLEAN

Replies == {<<>>} \cup {<<a>> : a \in FrameSize} \cup {<<a, b>> : a, b \in FrameSize}

(* read_session_data: a fatal error closes; otherwise nghttp2 is given the *)
(* chance to send.                                                         *)
read_cb ==
    /\ Deliver("read", {"connected"})
    /\ heard' = TRUE
    /\ \/ close_session /\ UNCHANGED h2
       \/ /\ \E queued \in Replies : mem_recv(queued)
          /\ at' = "send"
          /\ UNCHANGED closes
    /\ UNCHANGED <<outbound, ssl, alpn, out>>

(* Its own GOAWAY is the last frame nghttp2 sends; with it everything ends. *)
(* A received one ends the reading once no stream is active.               *)
TermSent == session = "terminating" /\ frames = <<>>
want_write == frames # <<>>
want_read == ~TermSent /\ (active \/ ~goaway)

(* Variant: write_cb sends only when the run finds no more input.          *)
write_cb_NeverSends ==
    /\ Deliver("write", {"connected", "read"})
    /\ IF out = 0 /\ ~want_read /\ ~want_write
         THEN close_session
         ELSE at' = "run" /\ UNCHANGED closes
    /\ UNCHANGED <<outbound, ssl, alpn, h2, out, heard>>

(* Variant: the session is not closed when there is no more I/O to do.     *)
write_cb_NeverCloses ==
    /\ Deliver("write", {"connected", "read"})
    /\ at' = IF out > 0 THEN "run" ELSE "send"
    /\ UNCHANGED <<outbound, ssl, alpn, h2, out, heard, closes>>

(* write_session_data: nothing while the output buffer is not empty (a     *)
(* read_cb of the same run may have filled it again); close when nghttp2   *)
(* is done; else send.                                                     *)
write_cb ==
    /\ Deliver("write", {"connected", "read"})
    /\ IF out > 0
         THEN at' = "run" /\ UNCHANGED closes
         ELSE IF ~want_read /\ ~want_write
                THEN close_session
                ELSE at' = "send" /\ UNCHANGED closes
    /\ UNCHANGED <<outbound, ssl, alpn, h2, out, heard>>

-----------------------------------------------------------------------------
(* send_session_data: nghttp2_session_send calls send_hook frame by frame. *)

(* Variant: the size is checked after the write, against the new length.   *)
send_hook_LateCheck ==
    /\ at = "send" /\ frames # <<>>
    /\ out' = out + Head(frames)
    /\ frames' = Tail(frames)
    /\ at' = IF out' > OUTPUT_BLOCK_THRESHOLD + MaxFrame THEN "run" ELSE "send"
    /\ UNCHANGED <<outbound, ssl, alpn, session, goaway, active, pending, heard,
                   closes>>

(* Variant: the part of the frame that fits below the threshold is taken.  *)
send_hook_Splits ==
    /\ at = "send" /\ frames # <<>>
    /\ out' = OUTPUT_BLOCK_THRESHOLD
    /\ frames' = <<Head(frames) - (OUTPUT_BLOCK_THRESHOLD - out)>> \o Tail(frames)
    /\ at' = "run"
    /\ UNCHANGED <<outbound, ssl, alpn, session, goaway, active, pending, heard,
                   closes>>

(* send_hook: NGHTTP2_ERR_WOULDBLOCK ends the loop and keeps the frame;    *)
(* else the frame goes to the output buffer, and with it the last stream   *)
(* may end.                                                                *)
send_hook ==
    /\ at = "send" /\ frames # <<>>
    /\ IF out >= OUTPUT_BLOCK_THRESHOLD
         THEN at' = "run" /\ UNCHANGED <<frames, active, out>>
         ELSE /\ out' = out + Head(frames)
              /\ frames' = Tail(frames)
              /\ active' \in {active, FALSE}
              /\ UNCHANGED at
    /\ UNCHANGED <<outbound, ssl, alpn, session, goaway, pending, heard, closes>>

SendDone ==
    /\ at = "send" /\ frames = <<>>
    /\ at' = "run"
    /\ UNCHANGED <<outbound, ssl, alpn, h2, out, pending, heard, closes>>

(* nghttp2_session_send fails (out of memory): send_session_data throws.   *)
SendThrows ==
    /\ at = "send" /\ Faults
    /\ at' = "terminated"
    /\ UNCHANGED <<outbound, ssl, alpn, h2, out, pending, heard, closes>>

(* The first close job erases the session from its listener or node, which *)
(* frees it and cancels what was pending.                                  *)
CloseJob ==
    /\ at = "poll" /\ closes > 0
    /\ at' = "closed"
    /\ pending' = {}
    /\ UNCHANGED <<outbound, ssl, alpn, h2, out, heard, closes>>

Over == at \in {"closed", "terminated"}

Socket == Handshake \/ Arrive \/ PeerGone \/ \E n \in 1..out : Drain(n)
Callback == connected_cb \/ read_cb \/ write_cb \/ event_cb
Send == send_hook \/ SendDone \/ SendThrows

Next ==
    \/ Socket \/ StartRun \/ Callback \/ Send \/ EndRun \/ CloseJob
    \/ Over /\ UNCHANGED vars

Spec == Init /\ [][Next]_vars

(* The loop thread never stops inside a run, and libevent serves pending   *)
(* callbacks and active jobs.  The peer owes nothing.                      *)
Fairness ==
    /\ WF_vars(StartRun) /\ WF_vars(EndRun) /\ WF_vars(CloseJob)
    /\ WF_vars(Callback) /\ WF_vars(Send)

FairSpec == Spec /\ Fairness

-----------------------------------------------------------------------------
(* Properties.                                                             *)

(* Back-pressure: however much nghttp2 has to send, the output buffer      *)
(* never holds more than one frame beyond the threshold (send_hook).       *)
OutputBounded == out < OUTPUT_BLOCK_THRESHOLD + MaxFrame

(* Nothing is forgotten in nghttp2's queue: while frames wait there, the   *)
(* output buffer is not empty or write_cb is pending, so that draining     *)
(* leads back to send_session_data (session.cpp 161-207).  The exception:  *)
(* the outbound send_initial only submits its SETTINGS (454-468), which    *)
(* wait until the peer speaks first.                                       *)
NoStall ==
    (at = "poll" /\ frames # <<>> /\ ssl = "open" /\ closes = 0) =>
        out > 0 \/ "write" \in pending \/ (outbound /\ ~heard)

(* nghttp2 is never called without a session object: read_cb and write_cb  *)
(* do not reach a session whose protocol was refused (session.cpp 37-57,   *)
(* 150, 172).                                                              *)
SessionBeforeIo ==
    at = "run" /\ pending \cap {"read", "write"} # {} /\ "connected" \notin pending
        => session # "null"

(* Frames held back by the threshold go out: if the peer empties the       *)
(* output buffer again and again, nghttp2's queue keeps moving for as long *)
(* as there is something in it.                                            *)
Ended == Over \/ ssl = "eof"

QueueMoves ==
    []<>(out = 0) =>
        \/ []<>(frames = <<>> \/ Ended \/ (outbound /\ ~heard))
        \/ []<><<frames # <<>> /\ frames' = Tail(frames)>>_frames

(* A session that is finished is closed once the peer has taken what was   *)
(* to be sent (write_session_data, 172-176), whoever finished it: nghttp2  *)
(* with a GOAWAY of its own, or the peer with one, when the last stream is *)
(* over, unless nghttp2 finds something to do again.  The exception is the *)
(* session that the peer finishes when there is nothing left to send: no   *)
(* write_cb comes to see it, and it stays until the peer speaks or leaves. *)
Finished == session # "null" /\ ~want_read /\ ~want_write
WriteComing == out > 0 \/ "write" \in pending

FinishedCloses ==
    []<>(out = 0) =>
        /\ session = "terminating" ~> Ended
        /\ Finished /\ WriteComing ~> Ended \/ ~Finished

(* A peer that goes away always leads to the end of the session.           *)
GoneCloses == ssl = "eof" ~> Over

(* A session that negotiated h2 is initialised before anything closes it   *)
(* (event_cb: "failed to negotiate 'h2' alpn!" is for other protocols).    *)
H2Initialised == alpn = "h2" /\ ssl = "open" /\ closes > 0 => session # "null"

(* An established outbound connection does not end the process.            *)
OutboundSurvives == outbound => at # "terminated"

=============================================================================
