------------------------------- MODULE KeySet -------------------------------
(***************************************************************************)
(* What find and insert of a red-black tree promise to their callers: the  *)
(* tree is a set of keys.  A lookup answers with the key if it is there    *)
(* and with nothing otherwise; an insertion adds the key unless it is      *)
(* there and answers with it in both cases.                                *)
(***************************************************************************)
CONSTANTS Key, NULL

VARIABLES
  keys,       \* the keys in the set
  wanted,     \* the key of the current or last call
  inserting,  \* whether that call is an insertion
  phase,      \* "idle", "asked" or "decided"
  answer      \* a key, or NULL when the lookup found nothing

vars == <<keys, wanted, inserting, phase, answer>>

Init ==
  /\ keys = {}
  /\ wanted = NULL
  /\ inserting = FALSE
  /\ phase = "idle"
  /\ answer = NULL

Ask(k, ins) ==
  /\ phase = "idle"
  /\ phase' = "asked"
  /\ wanted' = k
  /\ inserting' = ins
  /\ answer' = NULL
  /\ UNCHANGED keys

Decide ==
  /\ phase = "asked"
  /\ phase' = "decided"
  /\ keys' = IF inserting THEN keys \cup {wanted} ELSE keys
  /\ answer' = IF inserting \/ wanted \in keys THEN wanted ELSE NULL
  /\ UNCHANGED <<wanted, inserting>>

Answer ==
  /\ phase = "decided"
  /\ phase' = "idle"
  /\ UNCHANGED <<keys, wanted, inserting, answer>>

Next ==
  \/ \E k \in Key, ins \in BOOLEAN : Ask(k, ins)
  \/ Decide
  \/ Answer

Spec == Init /\ [][Next]_vars
=============================================================================
