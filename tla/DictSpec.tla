------------------------------ MODULE DictSpec ------------------------------
(***************************************************************************)
(* What a program expects of a dictionary (tests/features/dict-basic.au):  *)
(* reading gives the value set last for an equal key, and an error when    *)
(* there is none.                                                          *)
(***************************************************************************)
CONSTANTS Content, Value, NoValue

VARIABLES
  map, \* the value of each content of a key, NoValue when it has none
  got  \* what the last completed reading gave, and for which content

Init ==
  /\ map = [c \in Content |-> NoValue]
  /\ got = NoValue

Set(c, v) == map' = [map EXCEPT ![c] = v] /\ UNCHANGED got

Get(c) == got' = <<c, map[c]>> /\ UNCHANGED map

(* The dictionary is dropped and another one made. *)
New == map' = [c \in Content |-> NoValue] /\ UNCHANGED got

Next == New \/ \E c \in Content : Get(c) \/ \E v \in Value : Set(c, v)

Spec == Init /\ [][Next]_<<map, got>>
=============================================================================
