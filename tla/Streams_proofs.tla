--------------------------- MODULE Streams_proofs ---------------------------
(***************************************************************************)
(* Proofs about Streams, for any number of streams and descriptors, with   *)
(* and without failing calls.                                              *)
(***************************************************************************)
EXTENDS Streams, TLAPS

Codes == {"200", "404"}

(* Nothing is answered before the request is complete.                     *)
NotEarly == \A i \in Ids : h2[i] \in {"idle", "open"} => answer[i] = "none"

(* ReadsOwnFd, strengthened to streams that ended: their descriptors are   *)
(* never closed, so a new one differs from all of them.                    *)
OwnFd ==
    /\ \A i \in Ids : answer[i] \in Codes => fd[i] \in open
    /\ \A i, j \in Ids :
          i # j /\ answer[i] \in Codes /\ answer[j] \in Codes => fd[i] # fd[j]

IInv == TypeOK /\ StreamsAgree /\ Answered /\ NotEarly /\ OwnFd

-----------------------------------------------------------------------------

(* The deleter closes nothing: it only closes descriptors that are none.   *)
LEMMA DeleterClosesNothing ==
  ASSUME NEW S \in SUBSET Ids, TypeOK, stream_d(S)
  PROVE  open' = open /\ obj' \in [Ids -> {"none", "made", "leaked"}]
BY Descriptors DEF stream_d, TypeOK

(* What the end of a request may do to the stream i.                       *)
LEMMA AnswerCases ==
  ASSUME NEW i \in Ids, TypeOK, recv_frame(i)
  PROVE  \/ /\ session' = session
            /\ \E f \in Fds \ open : \E code \in Codes :
                  /\ fd' = [fd EXCEPT ![i] = f]
                  /\ open' = open \cup {f}
                  /\ answer' = [answer EXCEPT ![i] = code]
                  /\ unread' = [unread EXCEPT ![i] = TRUE]
         \/ /\ session' = session
            /\ answer' = [answer EXCEPT ![i] = "rst"]
            /\ UNCHANGED <<fd, unread, open>>
         \/ /\ session' = "failed"
            /\ \E f \in Fds \cup {NoFd} : fd' = [fd EXCEPT ![i] = f]
            /\ UNCHANGED <<answer, unread, open>>
<1> DEFINE Ok(f, code) ==
      /\ session' = session
      /\ fd' = [fd EXCEPT ![i] = f]
      /\ open' = open \cup {f}
      /\ answer' = [answer EXCEPT ![i] = code]
      /\ unread' = [unread EXCEPT ![i] = TRUE]
<1> DEFINE Failed ==
      /\ session' = "failed"
      /\ \E f \in Fds \cup {NoFd} : fd' = [fd EXCEPT ![i] = f]
      /\ UNCHANGED <<answer, unread, open>>
<1>1. ASSUME NEW f \in Fds \ open, NEW code \in Codes, send_response(i, f, code)
      PROVE  Ok(f, code) \/ Failed
  BY <1>1 DEF send_response, Fails
<1>2. CASE \E f \in Fds \ open : \E code \in Codes : send_response(i, f, code)
  BY <1>1, <1>2
<1>3. CASE UNCHANGED <<session, fd, unread, open>> /\ answer' = [answer EXCEPT ![i] = "rst"]
  BY <1>3
<1>4. CASE Fails /\ UNCHANGED <<fd, unread, answer, open>>
  <2>1. fd[i] \in Fds \cup {NoFd} /\ fd' = [fd EXCEPT ![i] = fd[i]]
    BY <1>4 DEF TypeOK
  <2> QED
    BY <1>4, <2>1 DEF Fails
<1> QED
  BY <1>2, <1>3, <1>4 DEF recv_frame, send_error, Codes

(* The end of a stream, whoever ends it.                                   *)
LEMMA CloseStep ==
  ASSUME NEW i \in Ids, IInv, stream_close_hook(i)
  PROVE  IInv'
<1>1. UNCHANGED <<session, req, fd, unread, answer, open>>
  BY DeleterClosesNothing DEF stream_close_hook, IInv
<1>2. TypeOK'
  BY <1>1, DeleterClosesNothing DEF stream_close_hook, IInv, TypeOK
<1>3. StreamsAgree' /\ Answered' /\ NotEarly' /\ OwnFd'
  BY <1>1 DEF stream_close_hook, IInv, TypeOK, StreamsAgree, Answered, NotEarly, OwnFd
<1> QED
  BY <1>2, <1>3 DEF IInv

(* The end of a request: it is answered from a new descriptor, reset, or   *)
(* the session fails.                                                      *)
LEMMA RequestStep ==
  ASSUME NEW i \in Ids, IInv, frame_recv_hook(i)
  PROVE  IInv'
<1> USE DEF IInv
<1>1. i \in streams /\ recv_frame(i)
  BY DEF frame_recv_hook, StreamsAgree
<1>2. answer[i] = "none"
  BY DEF frame_recv_hook, NotEarly
<1>3. ASSUME NEW f \in Fds \ open, NEW code \in Codes,
             session' = session, fd' = [fd EXCEPT ![i] = f], open' = open \cup {f},
             answer' = [answer EXCEPT ![i] = code], unread' = [unread EXCEPT ![i] = TRUE]
      PROVE  IInv'
  <2>1. TypeOK'
    <3>1. f \in Fds /\ f # NoFd
      BY Descriptors
    <3>2. \A j \in Ids : answer'[j] \in {"200", "404"} => fd'[j] # NoFd
      BY <1>3, <3>1 DEF TypeOK
    <3>3. /\ h2' \in [Ids -> {"idle", "open", "half", "closed"}]
          /\ UNCHANGED <<streams, obj, req>>
      BY DEF frame_recv_hook, TypeOK
    <3> QED
      BY <1>3, <3>1, <3>2, <3>3 DEF TypeOK, Codes
  <2>2. StreamsAgree' /\ Answered' /\ NotEarly'
    BY <1>3 DEF frame_recv_hook, TypeOK, Codes, StreamsAgree, Answered, NotEarly
  <2>3. OwnFd'
    BY <1>3 DEF frame_recv_hook, TypeOK, OwnFd
  <2> QED
    BY <2>1, <2>2, <2>3
<1>4. CASE /\ session' = session /\ answer' = [answer EXCEPT ![i] = "rst"]
           /\ UNCHANGED <<fd, unread, open>>
  BY <1>4 DEF frame_recv_hook, TypeOK, Codes, StreamsAgree, Answered, NotEarly, OwnFd
<1>5. CASE /\ session' = "failed"
           /\ \E f \in Fds \cup {NoFd} : fd' = [fd EXCEPT ![i] = f]
           /\ UNCHANGED <<answer, unread, open>>
  BY <1>2, <1>5 DEF frame_recv_hook, TypeOK, Codes, StreamsAgree, Answered, NotEarly, OwnFd
<1> QED
  BY <1>1, <1>3, <1>4, <1>5, AnswerCases

LEMMA InvStep == IInv /\ [Next]_vars => IInv'
<1> SUFFICES ASSUME IInv, [Next]_vars PROVE IInv'
  OBVIOUS
<1> USE DEF IInv, TypeOK, StreamsAgree, Answered, NotEarly, OwnFd, Codes
<1>1. ASSUME NEW i \in Ids, begin_headers_hook(i) PROVE IInv'
  BY <1>1 DEF begin_headers_hook
<1>2. ASSUME NEW i \in Ids, NEW name \in {":path", ":method"}, recv_header_hook(i, name)
      PROVE  IInv'
  BY <1>2 DEF recv_header_hook, recv_path_header, Fails
<1>3. ASSUME NEW i \in Ids, frame_recv_hook(i) PROVE IInv'
  BY <1>3, RequestStep
<1>4. ASSUME NEW i \in Ids, ReadNothing(i) PROVE IInv'
  BY <1>4 DEF ReadNothing, Sending
<1>5. ASSUME NEW i \in Ids, ReadSome(i) PROVE IInv'
  BY <1>5 DEF ReadSome
<1>6. ASSUME NEW i \in Ids, ReadEnd(i) \/ RstSent(i) \/ PeerReset(i) PROVE IInv'
  BY <1>6, CloseStep DEF ReadEnd, RstSent, PeerReset
<1>7. CASE CloseSession
  <2>1. open' = open /\ obj' \in [Ids -> {"none", "made", "leaked"}]
    BY <1>7, DeleterClosesNothing DEF CloseSession
  <2> QED
    BY <1>7, <2>1 DEF CloseSession
<1>8. CASE UNCHANGED vars
  BY <1>8 DEF vars
<1> QED
  BY <1>1, <1>2, <1>3, <1>4, <1>5, <1>6, <1>7, <1>8
     DEF Next, Peer, Send, file_read_callback

(* The inductive invariant, which holds the type invariant, the agreement  *)
(* of the two maps and the ownership of descriptors together.              *)
THEOREM Invariance == Spec => []IInv
<1>1. Init => IInv
  BY Descriptors DEF Init, IInv, TypeOK, StreamsAgree, Answered, NotEarly, OwnFd, Codes
<1> QED
  BY <1>1, InvStep, PTL DEF Spec

-----------------------------------------------------------------------------

(* The map of the session and the streams of nghttp2 agree as long as the  *)
(* session is open: stream_close_hook erases what begin_headers_hook put   *)
(* there, and the two "could not find" branches are never taken.           *)
THEOREM BooksAgree == Spec => []StreamsAgree
<1>1. IInv => StreamsAgree
  BY DEF IInv
<1> QED
  BY <1>1, Invariance, PTL

(* recv_frame and send_error leave no request without an answer or a       *)
(* reset, however many descriptors there are.                              *)
THEOREM EveryRequestAnswered == Spec => []Answered
<1>1. IInv => Answered
  BY DEF IInv
<1> QED
  BY <1>1, Invariance, PTL

(* A body is read from an open descriptor that no other answer reads from. *)
(* It holds only because stream_d never closes one: see OwnFd.             *)
THEOREM BodiesAreOwn == Spec => []ReadsOwnFd
<1>1. IInv => ReadsOwnFd
  BY DEF IInv, OwnFd, ReadsOwnFd, Sending, Codes
<1> QED
  BY <1>1, Invariance, PTL

(* The type invariant, for every number of streams and of descriptors.     *)
THEOREM TypeCorrect == Spec => []TypeOK
<1>1. IInv => TypeOK
  BY DEF IInv
<1> QED
  BY <1>1, Invariance, PTL

-----------------------------------------------------------------------------
(* Step by step: what a stream was answered with stays, unless it is reset *)
(* instead, and so does the descriptor the answer is read from; no         *)
(* descriptor is ever closed.                                              *)
AnswerStep ==
    /\ open \subseteq open'
    /\ \A i \in Ids : answer[i] # "none" =>
          /\ answer'[i] \in {answer[i], "rst"}
          /\ fd'[i] = fd[i]

(* A request is answered at most once, from one descriptor, and that one   *)
(* is never given back, neither at the end of its stream nor with the      *)
(* session: the process loses one with every answer (send_response,        *)
(* stream_close_hook, stream_d).                                           *)
THEOREM AnswersKeepDescriptors == Spec => [][AnswerStep]_vars
<1>1. IInv /\ [Next]_vars => [AnswerStep]_vars
  <2> SUFFICES ASSUME IInv, Next PROVE AnswerStep \/ UNCHANGED vars
    OBVIOUS
  <2>1. CASE UNCHANGED <<open, answer, fd>>
    BY <2>1 DEF AnswerStep
  <2>2. ASSUME NEW i \in Ids, frame_recv_hook(i) PROVE AnswerStep
    <3>1. answer[i] = "none" /\ i \in streams /\ recv_frame(i)
      BY <2>2 DEF frame_recv_hook, IInv, NotEarly, StreamsAgree
    <3>2. open \subseteq open'
      BY <3>1, AnswerCases DEF IInv
    <3>3. \A j \in Ids : j # i => answer'[j] = answer[j] /\ fd'[j] = fd[j]
      BY <3>1, AnswerCases DEF IInv, TypeOK
    <3> QED
      BY <3>1, <3>2, <3>3 DEF AnswerStep
  <2>3. ASSUME NEW i \in Ids, ReadNothing(i) PROVE AnswerStep
    BY <2>3 DEF ReadNothing, AnswerStep, IInv, TypeOK
  <2>4. ASSUME NEW i \in Ids, stream_close_hook(i) PROVE AnswerStep
    BY <2>4, DeleterClosesNothing DEF stream_close_hook, AnswerStep, IInv
  <2>5. CASE CloseSession
    BY <2>5, DeleterClosesNothing DEF CloseSession, AnswerStep, IInv, TypeOK
  <2> QED
    BY <2>1, <2>2, <2>3, <2>4, <2>5
       DEF Next, Peer, Send, file_read_callback, begin_headers_hook, recv_header_hook,
           ReadSome, ReadEnd, RstSent, PeerReset
<1> QED
  BY <1>1, Invariance, PTL DEF Spec

=============================================================================
