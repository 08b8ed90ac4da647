----------------------------- MODULE MCOutbound -----------------------------
(* TLC instance of Outbound: two endpoints, the first with two calls, the  *)
(* second of which may ask for the host that the first has connected to.   *)
EXTENDS Outbound

MCCalls == {"a1", "a2", "b1"}
MCEpOf == [c \in MCCalls |-> IF c = "b1" THEN "B" ELSE "A"]

WithName(n) == [valid |-> TRUE, special |-> TRUE, name |-> n, port |-> "default"]
MCUrlsOf ==
    [c \in MCCalls |->
        CASE c = "a1" -> {WithName("x"), [WithName("x") EXCEPT !.port = "other"]}
          [] c = "a2" -> {WithName("x")}
          [] c = "b1" -> {[WithName("z") EXCEPT !.special = FALSE],
                          [WithName("z") EXCEPT !.valid = FALSE]}]

V4 == [family |-> 4, addr |-> <<1, 0, 2, 2>>, port |-> <<0, 1>>]
V6 == [family |-> 6, addr |-> [i \in 1..16 |-> 1], port |-> <<0, 1>>]
MCLocalsOf ==
    [c \in MCCalls |->
        CASE c = "a1" -> {V4} [] c = "a2" -> {V6} [] c = "b1" -> {None}]
=============================================================================
