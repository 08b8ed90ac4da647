-------------------------- MODULE SessionIO_proofs --------------------------
(***************************************************************************)
(* Proofs about SessionIO, for every threshold, frame size and queue       *)
(* length and both directions.                                             *)
(***************************************************************************)
EXTENDS SessionIO, TLAPS

(* Until nghttp2 is set up, nothing has been sent or received, and no run  *)
(* can start that would deliver a read or a write.                         *)
Fresh ==
    IF session = "null"
      THEN /\ frames = <<>> /\ out = 0 /\ ~heard /\ at # "send"
           /\ ssl = "handshake" => pending = {}
           /\ "connected" \in pending => pending = {"connected"}
           /\ ssl = "open" /\ "connected" \notin pending => closes > 0 \/ at = "terminated"
           /\ closes = 0 \/ at = "run" => pending \subseteq {"connected", "event"}
           /\ "write" \notin pending
      ELSE "connected" \notin pending /\ ssl # "handshake"

(* NoStall, strengthened to hold inside a run as well.                     *)
Flow ==
    (at \in {"poll", "run"} /\ frames # <<>> /\ closes = 0) =>
        out > 0 \/ "write" \in pending \/ (outbound /\ ~heard)

-----------------------------------------------------------------------------

LEMMA RepliesTyped == Replies \subseteq Seq(FrameSize)
<1> SUFFICES ASSUME NEW r \in Replies PROVE r \in Seq(FrameSize)
  OBVIOUS
<1>1. CASE r = <<>>
  BY <1>1
<1>2. CASE \E a \in FrameSize : r = <<a>>
  BY <1>2
<1>3. CASE \E a, b \in FrameSize : r = <<a, b>>
  BY <1>3
<1> QED
  BY <1>1, <1>2, <1>3 DEF Replies

(* send_hook either refuses the frame or takes it whole.                   *)
LEMMA SendCases ==
  ASSUME TypeOK, send_hook
  PROVE  /\ at = "send" /\ frames # <<>>
         /\ Head(frames) \in FrameSize /\ Tail(frames) \in Seq(FrameSize)
         /\ UNCHANGED <<outbound, ssl, alpn, session, goaway, pending, heard, closes>>
         /\ \/ /\ out >= OUTPUT_BLOCK_THRESHOLD
               /\ at' = "run" /\ UNCHANGED <<frames, active, out>>
            \/ /\ out < OUTPUT_BLOCK_THRESHOLD
               /\ out' = out + Head(frames) /\ frames' = Tail(frames)
               /\ active' \in BOOLEAN /\ at' = at
<1>1. frames \in Seq(FrameSize) /\ frames # <<>>
  BY DEF TypeOK, send_hook
<1>2. Head(frames) \in FrameSize /\ Tail(frames) \in Seq(FrameSize)
  BY <1>1
<1>3. out \in Nat /\ active \in BOOLEAN
  BY DEF TypeOK
<1>4. CASE out >= OUTPUT_BLOCK_THRESHOLD
  BY <1>1, <1>2, <1>4 DEF send_hook
<1>5. CASE ~(out >= OUTPUT_BLOCK_THRESHOLD)
  <2>1. out < OUTPUT_BLOCK_THRESHOLD
    BY <1>3, <1>5, Sizes
  <2>2. active' \in BOOLEAN
    BY <1>3, <1>5 DEF send_hook
  <2> QED
    BY <1>1, <1>2, <1>5, <2>1, <2>2 DEF send_hook
<1> QED
  BY <1>4, <1>5

(* Input adds to the queue; it takes nothing away.                         *)
LEMMA RecvCases ==
  ASSUME TypeOK, NEW queued \in Replies, mem_recv(queued)
  PROVE  /\ frames' \in Seq(FrameSize)
         /\ goaway' \in BOOLEAN /\ active' \in BOOLEAN
         /\ frames' = <<>> => frames = <<>> /\ session' = session
         /\ session' \in {session, "terminating"}
<1>1. frames \in Seq(FrameSize) /\ queued \in Seq(FrameSize)
  BY RepliesTyped DEF TypeOK
<1>2. frames \o queued \in Seq(FrameSize)
  BY <1>1
<1>3. frames \o queued = <<>> => frames = <<>> /\ queued = <<>>
  BY <1>1
<1>4. CASE session = "terminating"
  BY <1>1, <1>4 DEF mem_recv, h2, TypeOK
<1>5. CASE session # "terminating"
  <2>1. frames' = frames \o queued
    BY <1>5 DEF mem_recv
  <2>2. goaway' \in BOOLEAN /\ active' \in BOOLEAN
    BY <1>5 DEF mem_recv, TypeOK
  <2>3. session' \in {session, "terminating"} /\ (queued = <<>> => session' = session)
    BY <1>5 DEF mem_recv
  <2> QED
    BY <1>2, <1>3, <2>1, <2>2, <2>3
<1> QED
  BY <1>4, <1>5

LEMMA TypeStep == TypeOK /\ [Next]_vars => TypeOK'
<1> SUFFICES ASSUME TypeOK, [Next]_vars PROVE TypeOK'
  OBVIOUS
<1> USE DEF TypeOK, h2
<1>1. CASE Handshake \/ Arrive \/ PeerGone \/ StartRun \/ EndRun \/ CloseJob
  BY <1>1 DEF Handshake, Arrive, PeerGone, StartRun, EndRun, CloseJob
<1>2. ASSUME NEW n \in 1..out, Drain(n) PROVE TypeOK'
  BY <1>2 DEF Drain
<1>3. CASE connected_cb
  <2>1. frames' \in Seq(FrameSize)
    <3>1. frames' = frames \/ \E size \in FrameSize : frames' = Append(frames, size)
      BY <1>3 DEF connected_cb, config_send_initial, send_initial, Throws
    <3> QED
      BY <3>1
  <2>2. /\ session' \in {session, "open"} /\ closes' \in {closes, closes + 1}
        /\ at' \in {"run", "send", "terminated"} /\ pending' \subseteq pending
        /\ UNCHANGED <<outbound, ssl, alpn, goaway, active, out, heard>>
    BY <1>3 DEF connected_cb, Deliver, config_send_initial, send_initial,
                Throws, close_session
  <2> QED
    BY <2>1, <2>2
<1>4. CASE event_cb
  BY <1>4 DEF event_cb, Deliver, close_session
<1>5. CASE read_cb
  <2>1. CASE close_session /\ UNCHANGED h2
    BY <1>5, <2>1 DEF read_cb, Deliver, close_session
  <2>2. ASSUME NEW queued \in Replies, mem_recv(queued), at' = "send", closes' = closes
        PROVE  TypeOK'
    BY <1>5, <2>2, RecvCases DEF read_cb, Deliver
  <2> QED
    BY <1>5, <2>1, <2>2 DEF read_cb
<1>6. CASE write_cb
  BY <1>6 DEF write_cb, Deliver, close_session
<1>7. CASE send_hook
  <2>1. out + Head(frames) \in Nat
    BY <1>7, SendCases, Sizes DEF FrameSize
  <2> QED
    BY <1>7, <2>1, SendCases
<1>8. CASE SendDone \/ SendThrows
  BY <1>8 DEF SendDone, SendThrows
<1>9. CASE UNCHANGED vars
  BY <1>9 DEF vars
<1> QED
  BY <1>1, <1>2, <1>3, <1>4, <1>5, <1>6, <1>7, <1>8, <1>9
     DEF Next, Socket, Callback, Send

(* Every variable keeps its type; in particular the output length never    *)
(* becomes negative and only whole frames leave nghttp2's queue.           *)
THEOREM TypeCorrect == Spec => []TypeOK
<1>1. Init => TypeOK
  <2> SUFFICES ASSUME Init PROVE TypeOK
    OBVIOUS
  <2>1. frames \in Seq(FrameSize)
    BY DEF Init
  <2> QED
    BY <2>1 DEF Init, TypeOK
<1> QED
  BY <1>1, TypeStep, PTL DEF Spec

-----------------------------------------------------------------------------

LEMMA BoundStep == TypeOK /\ OutputBounded /\ [Next]_vars => OutputBounded'
<1> SUFFICES ASSUME TypeOK, OutputBounded, [Next]_vars PROVE OutputBounded'
  OBVIOUS
<1> USE Sizes DEF TypeOK, OutputBounded, h2
<1>1. ASSUME NEW n \in 1..out, Drain(n) PROVE OutputBounded'
  BY <1>1 DEF Drain
<1>2. CASE send_hook
  <2>1. Head(frames) \in Nat /\ Head(frames) <= MaxFrame
    BY <1>2, SendCases DEF FrameSize
  <2>2. out' = out \/ (out < OUTPUT_BLOCK_THRESHOLD /\ out' = out + Head(frames))
    BY <1>2, SendCases
  <2> QED
    BY <2>1, <2>2
<1>3. CASE out' = out
  BY <1>3
<1> QED
  BY <1>1, <1>2, <1>3
     DEF Next, Socket, Callback, Send, Handshake, Arrive, PeerGone, StartRun,
         EndRun, CloseJob, connected_cb, event_cb, read_cb, write_cb,
         SendDone, SendThrows, vars

(* Back-pressure holds for every threshold and frame size: the output      *)
(* buffer stays below OUTPUT_BLOCK_THRESHOLD plus one frame.               *)
THEOREM BackPressure == Spec => []OutputBounded
<1>1. Init => OutputBounded
  BY Sizes DEF Init, OutputBounded
<1> QED
  BY <1>1, TypeCorrect, BoundStep, PTL DEF Spec

-----------------------------------------------------------------------------

LEMMA FreshStep == TypeOK /\ Fresh /\ [Next]_vars => Fresh'
<1> SUFFICES ASSUME TypeOK, Fresh, [Next]_vars PROVE Fresh'
  OBVIOUS
<1> USE DEF TypeOK, Fresh, h2
<1>1. CASE Handshake
  BY <1>1 DEF Handshake
<1>2. CASE Arrive
  BY <1>2 DEF Arrive
<1>3. CASE PeerGone
  BY <1>3 DEF PeerGone
<1>4. CASE StartRun
  BY <1>4 DEF StartRun
<1>4a. CASE EndRun
  BY <1>4a DEF EndRun
<1>4b. CASE CloseJob
  BY <1>4b DEF CloseJob
<1>5. ASSUME NEW n \in 1..out, Drain(n) PROVE Fresh'
  BY <1>5 DEF Drain
<1>6. CASE connected_cb
  <2>1. /\ session = "null" /\ pending = {"connected"} /\ pending' = {} /\ ssl # "handshake"
        /\ UNCHANGED <<outbound, ssl, out, heard>>
    BY <1>6 DEF connected_cb, Deliver
  <2>2. \/ session' = "open"
        \/ /\ session' = "null" /\ frames' = frames
           /\ at' = "terminated" \/ (at' = "run" /\ closes' = closes + 1)
    BY <1>6, <2>1 DEF connected_cb, config_send_initial, Throws, close_session
  <2> QED
    BY <2>1, <2>2
<1>7. CASE event_cb
  BY <1>7 DEF event_cb, Deliver, close_session
<1>8. CASE read_cb
  BY <1>8 DEF read_cb, Deliver, close_session, mem_recv
<1>9. CASE write_cb
  BY <1>9 DEF write_cb, Deliver, close_session
<1>10. CASE send_hook \/ SendDone \/ SendThrows
  BY <1>10 DEF send_hook, SendDone, SendThrows
<1>11. CASE UNCHANGED vars
  BY <1>11 DEF vars
<1> QED
  BY <1>1, <1>2, <1>3, <1>4, <1>4a, <1>4b, <1>5, <1>6, <1>7, <1>8, <1>9,
     <1>10, <1>11
     DEF Next, Socket, Callback, Send

LEMMA FlowStep == TypeOK /\ Fresh /\ Flow /\ [Next]_vars => Flow'
<1> SUFFICES ASSUME TypeOK, Fresh, Flow, [Next]_vars PROVE Flow'
  OBVIOUS
<1> USE Flags DEF TypeOK, Flow, h2
<1>1. CASE Handshake \/ Arrive \/ PeerGone \/ StartRun \/ EndRun \/ CloseJob
  BY <1>1 DEF Handshake, Arrive, PeerGone, StartRun, EndRun, CloseJob
<1>2. ASSUME NEW n \in 1..out, Drain(n) PROVE Flow'
  BY <1>2 DEF Drain
<1>3. CASE connected_cb
  BY <1>3 DEF connected_cb, Deliver, config_send_initial, send_initial, Throws,
              close_session, Fresh
<1>4. CASE event_cb
  BY <1>4 DEF event_cb, Deliver, close_session
<1>5. CASE read_cb
  BY <1>5 DEF read_cb, Deliver, close_session
<1>6. CASE write_cb
  BY <1>6 DEF write_cb, Deliver, close_session
<1>7. CASE send_hook
  BY <1>7, SendCases, Sizes
<1>7a. CASE SendDone \/ SendThrows
  BY <1>7a DEF SendDone, SendThrows
<1>8. CASE UNCHANGED vars
  BY <1>8 DEF vars
<1> QED
  BY <1>1, <1>2, <1>3, <1>4, <1>5, <1>6, <1>7, <1>7a, <1>8
     DEF Next, Socket, Callback, Send

LEMMA FlowHolds == Spec => [](TypeOK /\ Fresh /\ Flow)
<1>1. Init => Fresh /\ Flow
  BY DEF Init, Fresh, Flow
<1> QED
  BY <1>1, TypeCorrect, FreshStep, FlowStep, PTL DEF Spec

(* No frame is stranded in nghttp2's queue: whatever the order of reads,   *)
(* writes and drains, something will bring write_cb back.                  *)
THEOREM FramesNotStranded == Spec => []NoStall
<1>1. Flow => NoStall
  BY DEF Flow, NoStall
<1> QED
  BY <1>1, FlowHolds, PTL

(* The end of a session that nghttp2 itself decides is always noticed: once *)
(* its GOAWAY is sent, and until a close job is posted, write_cb is yet to  *)
(* come, in whatever order the callbacks of a run are.  (Of a session that  *)
(* the peer finishes this is not true: see FinishedCloses.)                 *)
OwnGoawaySeen ==
    TermSent /\ closes = 0 /\ at # "terminated" => WriteComing

LEMMA SeenStep == TypeOK /\ OwnGoawaySeen /\ [Next]_vars => OwnGoawaySeen'
<1> SUFFICES ASSUME TypeOK, OwnGoawaySeen, [Next]_vars PROVE OwnGoawaySeen'
  OBVIOUS
<1> USE DEF TypeOK, OwnGoawaySeen, TermSent, WriteComing, h2
<1>1. CASE Handshake \/ Arrive \/ PeerGone \/ StartRun \/ EndRun \/ CloseJob
  BY <1>1 DEF Handshake, Arrive, PeerGone, StartRun, EndRun, CloseJob
<1>2. ASSUME NEW n \in 1..out, Drain(n) PROVE OwnGoawaySeen'
  BY <1>2 DEF Drain
<1>3. CASE connected_cb
  <2>1. session' = "open" \/ at' = "terminated" \/ closes' = closes + 1
    BY <1>3 DEF connected_cb, config_send_initial, Throws, close_session
  <2> QED
    BY <2>1
<1>4. CASE event_cb
  BY <1>4 DEF event_cb, Deliver, close_session
<1>5. CASE read_cb
  <2>1. CASE close_session
    BY <2>1 DEF close_session
  <2>2. ASSUME NEW queued \in Replies, mem_recv(queued), closes' = closes
        PROVE  OwnGoawaySeen'
    <3>1. pending' = pending \ {"read"} /\ out' = out /\ at # "terminated"
      BY <1>5 DEF read_cb, Deliver
    <3> QED
      BY <2>2, <3>1, RecvCases
  <2> QED
    BY <1>5, <2>1, <2>2 DEF read_cb
<1>6. CASE write_cb
  BY <1>6 DEF write_cb, Deliver, close_session, want_read, want_write
<1>7. CASE send_hook
  <2>1. frames' # <<>> \/ out' > 0
    BY <1>7, SendCases DEF FrameSize
  <2> QED
    BY <2>1
<1>8. CASE SendDone \/ SendThrows
  BY <1>8 DEF SendDone, SendThrows
<1>9. CASE UNCHANGED vars
  BY <1>9 DEF vars
<1> QED
  BY <1>1, <1>2, <1>3, <1>4, <1>5, <1>6, <1>7, <1>8, <1>9
     DEF Next, Socket, Callback, Send

(* Whatever the threshold, the frame sizes and the order of reads, writes  *)
(* and drains, a session terminated by nghttp2 is not left without the     *)
(* write_cb that closes it (write_session_data, 172-176).                  *)
THEOREM TerminationNoticed == Spec => []OwnGoawaySeen
<1>1. Init => OwnGoawaySeen
  BY DEF Init, OwnGoawaySeen, TermSent
<1> QED
  BY <1>1, TypeCorrect, SeenStep, PTL DEF Spec

(* nghttp2 is never handed a null session by read_cb or write_cb.          *)
THEOREM NoNullSession == Spec => []SessionBeforeIo
<1>1. TypeOK /\ Fresh => SessionBeforeIo
  BY DEF TypeOK, Fresh, SessionBeforeIo
<1> QED
  BY <1>1, FlowHolds, PTL

=============================================================================
