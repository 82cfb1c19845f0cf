---------------------------- MODULE MCTransport -----------------------------
(* Transport for TLC: what the program asks of which node, who gives up. *)
EXTENDS Transport
CONSTANTS n1, n2, c1, c2

Request(to, op, arg) == [to |-> to, op |-> op, arg |-> arg]

(* One client lets n1 add n2. The other lets n2 add n1, or lets n1 take an *)
(* item, add itself or remove n2.                                          *)
Program ==
  [c \in Clients |->
     IF c = c1 THEN {Request(n1, "add", n2)}
     ELSE {Request(n2, "add", n1), Request(n1, "put", None),
           Request(n1, "add", n1), Request(n1, "remove", n2)}]

(* The second client may give up, or the context of n1 is cancelled.       *)
Quitters == {c2, Loop(n1)}
=============================================================================
