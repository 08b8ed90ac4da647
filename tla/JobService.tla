----------------------------- MODULE JobService -----------------------------
(***************************************************************************)
(* What the event loop promises its callers: jobs run one at a time, each  *)
(* once, in the order in which they were submitted, and a caller that asks *)
(* for an answer gets it from its own job and does nothing else meanwhile. *)
(* The service may halt between two steps; it then runs nothing more.      *)
(***************************************************************************)
EXTENDS Naturals, Sequences

CONSTANTS Clients, NoJob

VARIABLES
    submitted,  \* number of jobs submitted so far
    queue,      \* jobs submitted and not yet started, oldest first
    running,    \* the job being run, or NoJob
    answer,     \* per client: "none", or the state of the answer it awaits
    halted

vars == <<submitted, queue, running, answer, halted>>

Init ==
    /\ submitted = 0
    /\ queue = <<>>
    /\ running = NoJob
    /\ answer = [c \in Clients |-> "none"]
    /\ halted = FALSE

Submit(c, kind) ==
    /\ answer[c] = "none"
    /\ submitted' = submitted + 1
    /\ queue' = Append(queue, [id |-> submitted + 1, kind |-> kind, from |-> c])
    /\ answer' = IF kind = "get" THEN [answer EXCEPT ![c] = "pending"] ELSE answer
    /\ UNCHANGED <<running, halted>>

Start ==
    /\ ~halted /\ running = NoJob /\ queue # <<>>
    /\ running' = Head(queue)
    /\ queue' = Tail(queue)
    /\ UNCHANGED <<submitted, answer, halted>>

Finish ==
    /\ ~halted /\ running # NoJob
    /\ running' = NoJob
    /\ \/ running.kind = "soon" /\ UNCHANGED answer
       \/ /\ running.kind = "get" /\ answer[running.from] = "pending"
          /\ \E outcome \in {"value", "exception"} :
                answer' = [answer EXCEPT ![running.from] = outcome]
    /\ UNCHANGED <<submitted, queue, halted>>

Collect(c) ==
    /\ answer[c] \in {"value", "exception"}
    /\ answer' = [answer EXCEPT ![c] = "none"]
    /\ UNCHANGED <<submitted, queue, running, halted>>

Halt ==
    /\ halted' = TRUE
    /\ UNCHANGED <<submitted, queue, running, answer>>

Next ==
    \/ \E c \in Clients : Collect(c) \/ \E kind \in {"soon", "get"} : Submit(c, kind)
    \/ Start \/ Finish \/ Halt

Spec == Init /\ [][Next]_vars

=============================================================================
