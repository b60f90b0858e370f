------------------------------- MODULE Interp -------------------------------
(***************************************************************************)
(* The instructions of au_vm_exec_unverified that move, make, store or     *)
(* drop values, in the delayed reference counting build.  The program is   *)
(* arbitrary bytecode over the instruction set Ops: the next instruction   *)
(* and its operands are any.  Which function values, natives and opcodes a *)
(* program uses is what separates the runs.                                *)
(*                                                                         *)
(* A collection starts inside the allocation functions, before they touch  *)
(* the heap; because any program point may precede an allocation, it is a  *)
(* step of its own that may come between any two instructions.             *)
(*                                                                         *)
(* A step that would read an object already freed has no defined outcome:  *)
(* the guards on Live end the behaviour there.                             *)
(***************************************************************************)
EXTENDS Collector

CONSTANT Ops

AllOps == {"MOV", "LOAD_SELF", "LOAD_CONST", "SET_CONST", "BIN_OP",
           "ARRAY_NEW", "ARRAY_PUSH", "TUPLE_NEW", "IDX_GET", "IDX_SET",
           "CLASS_NEW", "CLASS_NEW_INITIALIZED", "CLASS_GET_INNER",
           "CLASS_SET_INNER", "LOAD_FUNC", "BIND_ARG_TO_FUNC", "CALL",
           "CALL_NATIVE", "RET", "RAISE"}

ASSUME OpsAssumption == Ops \subseteq AllOps

Running == ~Collecting /\ depth > 0 /\ err_type = "ok"

Executes(op) == op \in Ops /\ Running

top(s) == frames[depth][s]

SetSlot(s, v) == frames' = [frames EXCEPT ![depth][s] = v]

(* end: of au_vm_exec_unverified, the frame leaves the stack. *)
Pop == /\ frames' = [frames EXCEPT ![depth] = EmptyFrame]
       /\ depth' = depth - 1

-----------------------------------------------------------------------------
(* Moves and constants *)

(* MOV_REG_LOCAL and MOV_LOCAL_REG: COPY_VALUE is a plain assignment. *)
Move(src, dst) ==
  /\ Executes("MOV")
  /\ \/ src \in Reg /\ dst \in Local
     \/ src \in Local /\ dst \in Reg
  /\ SetSlot(dst, top(src))
  /\ UNCHANGED <<heapvars, gcvars, depth, const_cache, errvars>>

(* MOV_U16, MOV_BOOL, LOAD_NIL and operators whose result is no object. *)
MovImmediate(dst) ==
  /\ Executes("MOV")
  /\ SetSlot(dst, None)
  /\ UNCHANGED <<heapvars, gcvars, depth, const_cache, errvars>>

LoadSelf ==
  /\ Executes("LOAD_SELF")
  /\ top(Arg0) # None /\ kind[top(Arg0)] = "class"
  /\ SetSlot(Self, top(Arg0))
  /\ UNCHANGED <<heapvars, gcvars, depth, const_cache, errvars>>

LoadConst(c, dst, o) ==
  /\ Executes("LOAD_CONST")
  /\ \/ /\ const_cache[c] # None
        /\ SetSlot(dst, const_cache[c])
        /\ UNCHANGED <<heapvars, const_cache>>
     \/ /\ const_cache[c] = None
        /\ Malloc(o, "str", 0)
        /\ rc' = [rc EXCEPT ![o] = 1]
        /\ const_cache' = [const_cache EXCEPT ![c] = o]
        /\ SetSlot(dst, o)
        /\ UNCHANGED data
  /\ UNCHANGED <<gcvars, depth, errvars>>

(* The value of a const statement goes into the cache uncounted. *)
SetConst(src, c) ==
  /\ Executes("SET_CONST")
  /\ const_cache[c] = None
  /\ const_cache' = [const_cache EXCEPT ![c] = top(src)]
  /\ UNCHANGED <<heapvars, gcvars, frames, depth, errvars>>

-----------------------------------------------------------------------------
(* Instructions that make an object: malloc counts it once, the           *)
(* instruction puts it into a register and takes that count back.         *)

New(op, o, k, n, dst) ==
  /\ Executes(op)
  /\ Malloc(o, k, n)
  /\ rc' = [rc EXCEPT ![o] = 0]
  /\ SetSlot(dst, o)
  /\ UNCHANGED <<data, gcvars, depth, const_cache, errvars>>

(* A binary operator on two strings. *)
StringOp(l, r, dst, o) ==
  /\ Executes("BIN_OP")
  /\ \A s \in {l, r} : top(s) # None /\ kind[top(s)] = "str"
  /\ New("BIN_OP", o, "str", 0, dst)

ArrayNew(dst, o) == New("ARRAY_NEW", o, "array", 0, dst)
TupleNew(dst, n, o) == New("TUPLE_NEW", o, "tuple", n, dst)
ClassNew(dst, o) == New("CLASS_NEW", o, "class", MaxLen, dst)
LoadFunc(dst, o) == New("LOAD_FUNC", o, "fn", 0, dst)

(***************************************************************************)
(* CLASS_NEW_INITIALIZED: the loop that consumes the initialisers that     *)
(* follow starts at the instruction itself, whose operands read as "store  *)
(* the new object into field class_id"; an initialiser of that field then  *)
(* replaces it.  inits gives the register of each initialised field.       *)
(* Only a class_id below the number of fields is executed: the store is    *)
(* outside the object otherwise.                                           *)
(***************************************************************************)
ClassNewInitialized(dst, class_id, inits, o) ==
  LET value(r) == IF r = dst THEN o ELSE top(r)
      fields == [i \in {class_id} \cup DOMAIN inits |->
                   IF i \in DOMAIN inits THEN value(inits[i]) ELSE o]
      refs(v) == Cardinality({i \in DOMAIN inits : value(inits[i]) = v})
                   + (IF v = o THEN 1 ELSE 0)
      new == [rc EXCEPT ![o] = 0]
  IN /\ Executes("CLASS_NEW_INITIALIZED")
     /\ \A i \in DOMAIN inits : value(inits[i]) # o => Live(value(inits[i]))
     /\ Malloc(o, "class", MaxLen)
     /\ rc' = Ref(new, [x \in Obj |-> refs(x)])
     /\ NoAbort(rc')
     /\ data' = [x \in Cell |-> IF x[1] = o /\ x[2] \in DOMAIN fields
                                  THEN fields[x[2]] ELSE data[x]]
     /\ SetSlot(dst, o)
     /\ UNCHANGED <<gcvars, depth, const_cache, errvars>>

-----------------------------------------------------------------------------
(* Element and field access *)

(* Mutants of Append1: the element is not counted; the array does not grow *)
(* when it is full.                                                        *)
AppendUncounted(op, k, dst, src) ==
  LET a == top(dst) IN
  /\ Executes(op)
  /\ a # None /\ kind[a] = k /\ len[a] < MaxLen
  /\ data' = [data EXCEPT ![<<a, len[a] + 1>>] = top(src)]
  /\ len' = [len EXCEPT ![a] = @ + 1]
  /\ UNCHANGED <<kind, rc, obj_list, gcvars, frames, depth, const_cache, errvars>>
AppendPastEnd(op, k, dst, src) ==
  LET a == top(dst) IN
  /\ Executes(op)
  /\ a # None /\ kind[a] = k /\ len[a] <= MaxLen
  /\ len' = [len EXCEPT ![a] = @ + 1]
  /\ UNCHANGED <<kind, rc, data, obj_list, gcvars, frames, depth, const_cache, errvars>>

(* au_value_array_add after one au_value_ref: an array's push, and the     *)
(* binding of an argument to a function value.                             *)
Append1(op, k, dst, src) ==
  LET a == top(dst)
      v == top(src)
  IN /\ Executes(op)
     /\ a # None /\ kind[a] = k
     /\ len[a] < MaxLen
     /\ Live(v)
     /\ rc' = Ref(rc, Once(v)) /\ NoAbort(rc')
     /\ data' = [data EXCEPT ![<<a, len[a] + 1>>] = v]
     /\ len' = [len EXCEPT ![a] = @ + 1]
     /\ UNCHANGED <<kind, obj_list, gcvars, frames, depth, const_cache, errvars>>

ArrayPush(dst, src) == Append1("ARRAY_PUSH", "array", dst, src)
BindArg(dst, src) == Append1("BIND_ARG_TO_FUNC", "fn", dst, src)

(* idx_get_fn counts the value it returns; the register does not give the  *)
(* count back.                                                             *)
IdxGet(col, i, dst) ==
  LET a == top(col) IN
  /\ Executes("IDX_GET")
  /\ a # None /\ kind[a] \in {"array", "tuple"} /\ i <= len[a]
  /\ Live(data[<<a, i>>])
  /\ rc' = Ref(rc, Once(data[<<a, i>>])) /\ NoAbort(rc')
  /\ SetSlot(dst, data[<<a, i>>])
  /\ UNCHANGED <<kind, data, len, obj_list, gcvars, depth, const_cache, errvars>>

(* IDX_SET and IDX_SET_STATIC: the set function references the new value,  *)
(* stores it, and dereferences the cell it has just overwritten.           *)
IdxSet(col, i, src) ==
  LET a == top(col)
      v == top(src)
      stored == [data EXCEPT ![<<a, i>>] = v]
  IN /\ Executes("IDX_SET")
     /\ a # None /\ kind[a] \in {"array", "tuple"} /\ i <= len[a]
     /\ Live(v)
     /\ NoAbort(Ref(rc, Once(v)))
     /\ data' = stored
     /\ rc' = Deref(Ref(rc, Once(v)), Once(stored[<<a, i>>]))
     /\ UNCHANGED <<kind, len, obj_list, gcvars, frames, depth, const_cache, errvars>>

ClassGetInner(i, dst) ==
  /\ Executes("CLASS_GET_INNER")
  /\ top(Self) # None /\ kind[top(Self)] = "class"
  /\ SetSlot(dst, data[<<top(Self), i>>])
  /\ UNCHANGED <<heapvars, gcvars, depth, const_cache, errvars>>

(* COPY_VALUE into a field is the same plain assignment as into a register. *)
ClassSetInner(i, src) ==
  /\ Executes("CLASS_SET_INNER")
  /\ top(Self) # None /\ kind[top(Self)] = "class"
  /\ data' = [data EXCEPT ![<<top(Self), i>>] = top(src)]
  /\ UNCHANGED <<kind, rc, len, obj_list, gcvars, frames, depth, const_cache, errvars>>

-----------------------------------------------------------------------------
(* Calls.  args gives the register passed for each parameter. *)

Passed(args) ==
  [x \in Obj |-> Cardinality({p \in DOMAIN args : top(args[p]) = x})]

RefArgs(args) ==
  /\ \A p \in DOMAIN args : Live(top(args[p]))
  /\ NoAbort(Ref(rc, Passed(args)))

(* A bytecode callee: its locals hold the arguments, and nothing ever      *)
(* dereferences them again.                                                *)
Call(args) ==
  /\ Executes("CALL")
  /\ depth < MaxDepth
  /\ RefArgs(args)
  /\ rc' = Ref(rc, Passed(args))
  /\ frames' = [frames EXCEPT ![depth + 1] =
       [s \in Slot |-> IF s \in DOMAIN args THEN top(args[s]) ELSE None]]
  /\ depth' = depth + 1
  /\ UNCHANGED <<kind, data, len, obj_list, gcvars, const_cache, errvars>>

(* RET and RET_LOCAL, and where the caller's CALL puts the value; the main *)
(* frame's value goes nowhere.                                             *)
Return(src, dst) ==
  /\ Executes("RET")
  /\ frames' = [d \in 1 .. MaxDepth |->
       CASE d = depth -> EmptyFrame
         [] d = depth - 1 -> [frames[d] EXCEPT ![dst] = top(src)]
         [] OTHER -> frames[d]]
  /\ depth' = depth - 1
  /\ UNCHANGED <<heapvars, gcvars, const_cache, errvars>>

ReturnNull(dst) ==
  /\ Executes("RET")
  /\ frames' = [d \in 1 .. MaxDepth |->
       CASE d = depth -> EmptyFrame
         [] d = depth - 1 -> [frames[d] EXCEPT ![dst] = None]
         [] OTHER -> frames[d]]
  /\ depth' = depth - 1
  /\ UNCHANGED <<heapvars, gcvars, const_cache, errvars>>

(***************************************************************************)
(* Native callees of src/stdlib own their arguments and dereference them;  *)
(* the calling instruction then dereferences the arguments again.          *)
(***************************************************************************)
NativeRead(args, dst) ==
  /\ Executes("CALL_NATIVE")
  /\ RefArgs(args)
  /\ rc' = Deref(Deref(Ref(rc, Passed(args)), Passed(args)), Passed(args))
  /\ SetSlot(dst, None)
  /\ UNCHANGED <<kind, data, len, obj_list, gcvars, depth, const_cache, errvars>>

(* array::push returns the array it got, still counted. *)
NativeArrayPush(arr, src, dst) ==
  LET a == top(arr)
      v == top(src)
      counted == Ref(Ref(Ref(rc, Once(a)), Once(v)), Once(v))
      native == Deref(counted, Once(v))
      retval == Deref(native, Once(a))
  IN /\ Executes("CALL_NATIVE")
     /\ a # None /\ kind[a] = "array" /\ len[a] < MaxLen
     /\ Live(v)
     /\ NoAbort(counted)
     /\ data' = [data EXCEPT ![<<a, len[a] + 1>>] = v]
     /\ len' = [len EXCEPT ![a] = @ + 1]
     /\ rc' = Deref(Deref(retval, Once(a)), Once(v))
     /\ SetSlot(dst, a)
     /\ UNCHANGED <<kind, obj_list, gcvars, depth, const_cache, errvars>>

(* array::pop hands the element's own count to the caller. *)
NativeArrayPop(arr, dst) ==
  LET a == top(arr)
      x == <<a, len[a]>>
      native == Deref(Ref(rc, Once(a)), Once(a))
      retval == Deref(native, Once(data[x]))
  IN /\ Executes("CALL_NATIVE")
     /\ a # None /\ kind[a] = "array" /\ len[a] > 0
     /\ Live(data[x])
     /\ NoAbort(Ref(rc, Once(a)))
     /\ data' = [data EXCEPT ![x] = None]
     /\ len' = [len EXCEPT ![a] = @ - 1]
     /\ rc' = Deref(retval, Once(a))
     /\ SetSlot(dst, data[x])
     /\ UNCHANGED <<kind, obj_list, gcvars, depth, const_cache, errvars>>

-----------------------------------------------------------------------------
(* Errors *)

(* The raise statement: the record holds a counted reference. *)
Raise(src) ==
  /\ Executes("RAISE")
  /\ Live(top(src))
  /\ rc' = Ref(rc, Once(top(src))) /\ NoAbort(rc')
  /\ err_type' = "raised"
  /\ err' = [err EXCEPT !["left"] = top(src)]
  /\ Pop
  /\ UNCHANGED <<kind, data, len, obj_list, gcvars, const_cache>>

(* An operator or an index that does not fit its operands. *)
Fault(l, r) ==
  /\ Running /\ Ops \cap {"BIN_OP", "IDX_GET", "IDX_SET"} # {}
  /\ Live(top(l)) /\ Live(top(r))
  /\ rc' = Ref(Ref(rc, Once(top(l))), Once(top(r))) /\ NoAbort(rc')
  /\ err_type' = "fault"
  /\ err' = [err EXCEPT !["left"] = top(l), !["right"] = top(r)]
  /\ Pop
  /\ UNCHANGED <<kind, data, len, obj_list, gcvars, const_cache>>

(* RAISE_BT: the caller of a failed call fails in turn. *)
Propagate ==
  /\ ~Collecting /\ depth > 0 /\ err_type # "ok"
  /\ Pop
  /\ UNCHANGED <<heapvars, gcvars, const_cache, errvars>>

(* CALL_CATCH: extract_error_value moves the value out of the record. *)
Catch(dst) ==
  /\ ~Collecting /\ depth > 0 /\ err_type = "raised"
  /\ SetSlot(dst, err["left"])
  /\ err_type' = "ok"
  /\ err' = [e \in ErrField |-> None]
  /\ UNCHANGED <<heapvars, gcvars, depth, const_cache>>

(***************************************************************************)
(* After the main frame: au_vm_thread_local_del_const_cache, which main()  *)
(* follows with a last collection.                                         *)
(***************************************************************************)
DelConstCache ==
  /\ ~Collecting /\ depth = 0
  /\ \E c \in Const : const_cache[c] # None
  /\ \A c \in Const : Live(const_cache[c])
  /\ rc' = Deref(rc, [x \in Obj |-> Cardinality(ConstsHolding(x))])
  /\ const_cache' = [c \in Const |-> None]
  /\ UNCHANGED <<kind, data, len, obj_list, gcvars, frames, depth, errvars>>

-----------------------------------------------------------------------------
Fields == UNION {[S -> Reg] : S \in SUBSET Idx}
Arguments == UNION {[S -> Reg] : S \in SUBSET Local}

Instruction ==
  \/ \E src, dst \in Reg \cup Local : Move(src, dst)
  \/ \E dst \in Reg : MovImmediate(dst)
  \/ LoadSelf
  \/ \E c \in Const, dst \in Reg, o \in Obj : LoadConst(c, dst, o)
  \/ \E src \in Reg, c \in Const : SetConst(src, c)
  \/ \E l, r, dst \in Reg, o \in Obj : StringOp(l, r, dst, o)
  \/ \E dst \in Reg, o \in Obj : ArrayNew(dst, o)
  \/ \E dst \in Reg, n \in Idx, o \in Obj : TupleNew(dst, n, o)
  \/ \E dst \in Reg, o \in Obj : ClassNew(dst, o)
  \/ \E dst \in Reg, o \in Obj : LoadFunc(dst, o)
  \/ \E dst \in Reg, i \in Idx, inits \in Fields, o \in Obj :
       ClassNewInitialized(dst, i, inits, o)
  \/ \E dst, src \in Reg : ArrayPush(dst, src) \/ BindArg(dst, src)
  \/ \E col, r \in Reg, i \in Idx : IdxGet(col, i, r) \/ IdxSet(col, i, r)
  \/ \E i \in Idx, r \in Reg : ClassGetInner(i, r) \/ ClassSetInner(i, r)
  \/ \E args \in Arguments : Call(args)
  \/ \E src \in Reg \cup Local, dst \in Reg : Return(src, dst)
  \/ \E dst \in Reg : ReturnNull(dst)
  \/ \E args \in Arguments, dst \in Reg : NativeRead(args, dst)
  \/ \E arr, src, dst \in Reg : NativeArrayPush(arr, src, dst)
  \/ \E arr, dst \in Reg : NativeArrayPop(arr, dst)
  \/ \E src \in Reg : Raise(src)
  \/ \E l, r \in Reg : Fault(l, r)

Next ==
  \/ Collect
  \/ Instruction
  \/ Propagate
  \/ \E dst \in Reg : Catch(dst)
  \/ DelConstCache

Spec == Init /\ [][Next]_vars

(* A collection is one call of au_obj_malloc_collect: it runs to its end.  *)
FairSpec == Spec /\ WF_vars(Sweep)
-----------------------------------------------------------------------------
(* Properties *)

(* The instructions that put a value somewhere without counting it where   *)
(* the collector relies on a count, or take a count that is not theirs.    *)
UncountedOps ==
  {"SET_CONST", "IDX_SET", "CLASS_SET_INNER", "LOAD_FUNC", "CALL_NATIVE"}

(* The instructions that leave every count exact, those that fail too.     *)
ExactOps ==
  {"MOV", "LOAD_SELF", "LOAD_CONST", "BIN_OP", "ARRAY_NEW", "ARRAY_PUSH",
   "CLASS_NEW", "CLASS_GET_INNER", "RET"}

(***************************************************************************)
(* No frame, object cell, constant or error record names memory that the   *)
(* collector has freed: the delayed counts and the shallow mark of gc.c    *)
(* together keep everything the interpreter can still read.                *)
(***************************************************************************)
FrameValuesLive == \A d \in 1 .. depth, s \in Slot : Live(frames[d][s])
CellsLive == \A x \in Cell : Live(data[x])
ConstantsSurvive == \A c \in Const : Live(const_cache[c])
ErrorsLive == \A e \in ErrField : Live(err[e])

NoDangling == FrameValuesLive /\ CellsLive /\ ConstantsSurvive /\ ErrorsLive

(***************************************************************************)
(* A reference count is never below the number of cells, constants and     *)
(* error fields that hold the object: the collector can take 0 for "held   *)
(* by frames at most".                                                     *)
(***************************************************************************)
RcCovers == \A o \in Obj : Holders(o) <= rc[o]

(***************************************************************************)
(* The invariant docs/architecture.md calls GC: registers and locals never *)
(* count, so outside the instruction that handles it an object's count is  *)
(* exactly the number of its holders.                                      *)
(***************************************************************************)
RcExact == \A o \in Obj : Live(o) => rc[o] = Holders(o)

(***************************************************************************)
(* The collector's list has every allocated object exactly once, in the    *)
(* middle of a sweep too: nothing is freed twice or lost from the list.    *)
(***************************************************************************)
ListIntegrity ==
  /\ IsInjective(obj_list)
  /\ ToSet(obj_list) = {o \in Obj : Live(o)}
  /\ cur <= Len(obj_list) + 1

(***************************************************************************)
(* Whatever the program does to the counts, no step frees a string or a    *)
(* structure that a frame of the stack holds, nor the self of a method.    *)
(***************************************************************************)
KeepsFrameValues ==
  [][\A o \in Obj : Live(o) /\ kind'[o] = "free" =>
       \A d \in 1 .. depth, s \in Slot :
          frames[d][s] = o => kind[o] = "fn" /\ s # Self]_vars

(* A collection that starts comes to its end. *)
CollectionEnds == Collecting ~> ~Collecting
=============================================================================
