------------------------------ MODULE Interning ------------------------------
(***************************************************************************)
(* What clients of an IPR unit rely on: whoever asks again for what was     *)
(* asked for before gets the node that was given then, and nothing else is  *)
(* ever given that node.                                                    *)
(***************************************************************************)
VARIABLE answers  \* what was given: records of a request and its node

Init == answers = {}

Consistent(x, y) == x.asked = y.asked <=> x.node = y.node

\* An answer agrees with all that were given before.
Give ==
  \E x \in answers' :
    /\ answers' = answers \cup {x}
    /\ \A y \in answers : Consistent(x, y)

Spec == Init /\ [][Give]_answers
=============================================================================
