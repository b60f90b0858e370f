----------------------------- MODULE TableSpec -----------------------------
(***************************************************************************)
(* What au_hm_vars promises its callers in src/core/hm_vars.h: a map whose *)
(* entries stay what they were when they were first added.                 *)
(***************************************************************************)
CONSTANTS Key, Value, NoValue

VARIABLES
  map,  \* the value of each key, NoValue when it was never added
  ret   \* what the last completed call returned, and for which key

Init ==
  /\ map = [k \in Key |-> NoValue]
  /\ ret = NoValue

(* au_hm_vars_add: "the old value (if it exists), otherwise NULL". *)
Add(k, v) ==
  /\ map' = [map EXCEPT ![k] = IF @ = NoValue THEN v ELSE @]
  /\ ret' = <<k, map[k]>>

Get(k) ==
  /\ ret' = <<k, map[k]>>
  /\ UNCHANGED map

Next == \E k \in Key : Get(k) \/ \E v \in Value : Add(k, v)

Spec == Init /\ [][Next]_<<map, ret>>
=============================================================================
