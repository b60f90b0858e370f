------------------------------ MODULE VmState ------------------------------
(***************************************************************************)
(* The memory of one Aument interpreter thread in its default build        *)
(* (delayed reference counting): the reference-counted objects of          *)
(* src/core/rt/malloc/gc.c, the frames of au_vm_exec_unverified, and the   *)
(* thread-local constant cache and error record of src/core/vm/tl.h.       *)
(*                                                                         *)
(* A value is an object or None.  None stands for every value that owns no *)
(* memory: nil, integers, doubles, booleans and errors.                    *)
(***************************************************************************)
EXTENDS Naturals, Sequences, FiniteSets, SequencesExt

CONSTANTS
  Obj,       \* addresses au_obj_malloc can return
  None,      \* a value without memory of its own
  Const,     \* slots of tl->const_cache
  Reg,       \* registers of a frame
  Local,     \* locals of a frame
  Arg0,      \* the local that receives the first argument
  Self,      \* the slot of a frame that holds frame.self
  MaxLen,    \* bound on the elements of one object
  MaxDepth,  \* bound on the stack, tl->stack_max in the code
  MaxRc      \* MAX_RC, UINT32_MAX in the code

ASSUME ConstAssumption ==
  /\ None \notin Obj
  /\ Self \notin Reg \cup Local
  /\ Reg \cap Local = {}
  /\ Arg0 \in Local
  /\ IsFiniteSet(Obj) /\ IsFiniteSet(Const) /\ IsFiniteSet(Local)
  /\ MaxLen \in Nat \ {0}
  /\ MaxDepth \in Nat \ {0}
  /\ MaxRc \in Nat \ {0}

Idx == 1 .. MaxLen
Cell == Obj \X Idx
Val == Obj \cup {None}
Slot == Reg \cup Local \cup {Self}
Kind == {"str", "array", "tuple", "class", "fn"}
ErrField == {"left", "right"}

VARIABLES
  kind,         \* what each address holds, "free" when it is not allocated
  rc,           \* header->rc
  data,         \* the values an object owns: elements, fields, bound arguments
  len,          \* how many of them are in use
  obj_list,     \* malloc_data.obj_list, the newest object first
  cur,          \* the sweep's cursor into obj_list, 0 while no sweep runs
  marked,       \* objects whose header->marked is set
  frames,       \* registers, locals and self of each frame
  depth,        \* how many frames are linked from tl->current_frame
  const_cache,  \* tl->const_cache
  err_type,     \* tl->error.result.type
  err           \* the values tl->error.result holds

heapvars == <<kind, rc, data, len, obj_list>>
gcvars == <<cur, marked>>
errvars == <<err_type, err>>
vars == <<heapvars, gcvars, frames, depth, const_cache, errvars>>

TypeOK ==
  /\ kind \in [Obj -> Kind \cup {"free"}]
  /\ rc \in [Obj -> Nat]
  /\ data \in [Cell -> Val]
  /\ len \in [Obj -> 0 .. MaxLen]
  /\ obj_list \in Seq(Obj)
  /\ cur \in Nat
  /\ marked \in SUBSET Obj
  /\ frames \in [1 .. MaxDepth -> [Slot -> Val]]
  /\ depth \in 0 .. MaxDepth
  /\ const_cache \in [Const -> Val]
  /\ err_type \in {"ok", "raised", "fault"}
  /\ err \in [ErrField -> Val]

EmptyFrame == [s \in Slot |-> None]

Init ==
  /\ kind = [o \in Obj |-> "free"]
  /\ rc = [o \in Obj |-> 0]
  /\ data = [x \in Cell |-> None]
  /\ len = [o \in Obj |-> 0]
  /\ obj_list = <<>>
  /\ cur = 0
  /\ marked = {}
  /\ frames = [d \in 1 .. MaxDepth |-> EmptyFrame]
  /\ depth = 1
  /\ const_cache = [c \in Const |-> None]
  /\ err_type = "ok"
  /\ err = [e \in ErrField |-> None]

-----------------------------------------------------------------------------
(* Who holds a value.  The frames of the stack hold without counting; the  *)
(* cells of objects, the constant cache and the error record are the       *)
(* holders a reference count is supposed to count.                         *)

Live(v) == v # None => kind[v] # "free"

FrameHolds(o) == \E d \in 1 .. depth, s \in Slot : frames[d][s] = o

CellsHolding(o) == {x \in Cell : data[x] = o}
ConstsHolding(o) == {c \in Const : const_cache[c] = o}
ErrHolding(o) == {e \in ErrField : err[e] = o}

Holders(o) ==
  Cardinality(CellsHolding(o)) + Cardinality(ConstsHolding(o))
    + Cardinality(ErrHolding(o))

-----------------------------------------------------------------------------
(* Reference counts.  many[o] is how often o is referenced at once, or     *)
(* dereferenced: a count that reached 0 stays there.                       *)

Ref(counts, many) == [o \in Obj |-> counts[o] + many[o]]

Deref(counts, many) ==
  [o \in Obj |-> IF counts[o] > many[o] THEN counts[o] - many[o] ELSE 0]

Once(v) == [o \in Obj |-> IF o = v THEN 1 ELSE 0]

(* au_obj_ref aborts the process at MAX_RC: no step goes past it. *)
NoAbort(counts) == \A o \in Obj : counts[o] <= MaxRc

(***************************************************************************)
(* au_obj_malloc with the caller's initialisation of a fresh object that   *)
(* has n value cells.  The caller sets the reference count.                *)
(***************************************************************************)
Malloc(o, k, n) ==
  /\ kind[o] = "free"
  /\ kind' = [kind EXCEPT ![o] = k]
  /\ len' = [len EXCEPT ![o] = n]
  /\ obj_list' = <<o>> \o obj_list
=============================================================================
