----------------------------- MODULE Collector -----------------------------
(***************************************************************************)
(* au_obj_malloc_collect of src/core/rt/malloc/gc.c.  Marking is a single  *)
(* step, nothing runs between its loops; the sweep goes object by object   *)
(* because freeing one lowers the counts that the rest of the same sweep   *)
(* reads.  The mark is shallow: it covers what frames hold directly, an    *)
(* element of a marked object survives only by its own count.              *)
(***************************************************************************)
EXTENDS VmState

Collecting == cur # 0

(* mark(): strings and structures only, a function value is passed over.   *)
Markable(o) == kind[o] \in {"str", "array", "tuple", "class"}

(* Mutants of Roots: the innermost frame only; every frame but not its self. *)
RootsOfTop ==
  {o \in Obj : \E d \in {depth} \ {0} :
      \/ frames[d][Self] = o
      \/ Markable(o) /\ \E s \in Reg \cup Local : frames[d][s] = o}
RootsNoSelf ==
  {o \in Obj : \E d \in 1 .. depth, s \in Reg \cup Local :
      Markable(o) /\ frames[d][s] = o}

(* frame->self is marked without looking at a type. *)
Roots ==
  {o \in Obj : \E d \in 1 .. depth :
      \/ frames[d][Self] = o
      \/ Markable(o) /\ \E s \in Reg \cup Local : frames[d][s] = o}

StartCollect ==
  /\ ~Collecting
  /\ obj_list # <<>>
  /\ marked' = Roots
  /\ cur' = 1
  /\ UNCHANGED <<heapvars, frames, depth, const_cache, errvars>>

should_free(o) == o \notin marked /\ rc[o] = 0

(* How often the cells of o name x: what del_fn dereferences. *)
CellsOf(o, x) == {y \in Cell : y[1] = o /\ data[y] = x}

(* Mutants of SweepFree: the object stays linked; the counts of its cells  *)
(* are not given back.                                                     *)
SweepFreeLinked ==
  /\ Collecting /\ cur <= Len(obj_list)
  /\ LET o == obj_list[cur] IN
       /\ should_free(o)
       /\ rc' = Deref(rc, [x \in Obj |-> Cardinality(CellsOf(o, x))])
       /\ kind' = [kind EXCEPT ![o] = "free"]
       /\ data' = [y \in Cell |-> IF y[1] = o THEN None ELSE data[y]]
       /\ len' = [len EXCEPT ![o] = 0]
  /\ UNCHANGED <<obj_list, gcvars, frames, depth, const_cache, errvars>>
SweepFreeOnly ==
  /\ Collecting /\ cur <= Len(obj_list)
  /\ LET o == obj_list[cur] IN
       /\ should_free(o)
       /\ obj_list' = RemoveAt(obj_list, cur)
       /\ kind' = [kind EXCEPT ![o] = "free"]
       /\ data' = [y \in Cell |-> IF y[1] = o THEN None ELSE data[y]]
       /\ len' = [len EXCEPT ![o] = 0]
  /\ UNCHANGED <<rc, gcvars, frames, depth, const_cache, errvars>>

SweepFree ==
  /\ Collecting /\ cur <= Len(obj_list)
  /\ LET o == obj_list[cur] IN
       /\ should_free(o)
       /\ \A i \in Idx : Live(data[<<o, i>>])
       /\ obj_list' = RemoveAt(obj_list, cur)
       /\ rc' = Deref(rc, [x \in Obj |-> Cardinality(CellsOf(o, x))])
       /\ kind' = [kind EXCEPT ![o] = "free"]
       /\ data' = [y \in Cell |-> IF y[1] = o THEN None ELSE data[y]]
       /\ len' = [len EXCEPT ![o] = 0]
  /\ UNCHANGED <<gcvars, frames, depth, const_cache, errvars>>

(* Mutant of SweepKeep: the cursor stays on a kept object. *)
SweepKeepStuck ==
  /\ Collecting /\ cur <= Len(obj_list)
  /\ ~should_free(obj_list[cur])
  /\ UNCHANGED vars

SweepKeep ==
  /\ Collecting /\ cur <= Len(obj_list)
  /\ ~should_free(obj_list[cur])
  /\ cur' = cur + 1
  /\ UNCHANGED <<heapvars, marked, frames, depth, const_cache, errvars>>

SweepEnd ==
  /\ Collecting /\ cur > Len(obj_list)
  /\ cur' = 0
  /\ marked' = {}
  /\ UNCHANGED <<heapvars, frames, depth, const_cache, errvars>>

Sweep == SweepFree \/ SweepKeep \/ SweepEnd
Collect == StartCollect \/ Sweep
=============================================================================
