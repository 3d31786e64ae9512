------------------------------ MODULE Admission ------------------------------
(* What the accept loops promise to a client: each connection is decided once, *)
(* and one that was let in is served until it closes, its handler dies or the  *)
(* server stops.                                                               *)
CONSTANT Conns

VARIABLE outcome

Init == outcome = [c \in Conns |-> "waiting"]

Decide(c) ==
  /\ outcome[c] = "waiting"
  /\ \E o \in {"dropped", "refused", "denied", "open"} :
       outcome' = [outcome EXCEPT ![c] = o]

Leave(c) ==
  /\ outcome[c] = "open"
  /\ \E o \in {"closed", "died"} : outcome' = [outcome EXCEPT ![c] = o]

\* The end of the process ends every connection at once.
Halt ==
  outcome' = [c \in Conns |-> IF outcome[c] = "open" THEN "died" ELSE outcome[c]]

Next == Halt \/ \E c \in Conns : Decide(c) \/ Leave(c)

Spec == Init /\ [][Next]_outcome
=============================================================================
