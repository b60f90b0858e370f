------------------------------- MODULE CCode -------------------------------
(* What the C that `aument build` writes does with reference counts.       *)
(* Each instruction of a function becomes a few C statements               *)
(* (compiler/c_comp.c); they run on the runtime library of compiled        *)
(* programs, where a block is born with one reference and is freed by the  *)
(* dereference that takes the last one (rt/malloc/static.c).               *)
(*                                                                         *)
(* A function here has the registers Regs and one local, its argument.  A  *)
(* value is None, which stands for every value without a block, or a       *)
(* block.  A block holds at most one value: an element of an array or a    *)
(* tuple ("seq"; an empty one also stands for a string), a field of a      *)
(* class instance ("class"), or a bound argument ("fn").  The program is   *)
(* any sequence of instructions and calls.                                 *)
EXTENDS Naturals, Sequences, FiniteSets

CONSTANTS Blocks, Regs, None,
          MaxFrames,        \* bound on the depth of calls
          MaxRc             \* bound on the references of a block, and on stolen

ASSUME CCodeAssumption ==
  /\ None \notin Blocks
  /\ IsFiniteSet(Blocks) /\ IsFiniteSet(Regs)
  /\ MaxFrames \in Nat /\ MaxRc \in Nat

VARIABLES heap,    \* reference count, kind and content of every block
          frames,  \* the C functions that are running, the last on top
          const,   \* the static variable of a constant
          due,     \* dereferences of each block that the running statements
                   \* have still to do
          lost,    \* ghost: references no variable will ever give back
          stolen   \* ghost: references given back that nobody had taken

vars == <<heap, frames, const, due, lost, stolen>>

Kinds  == {"seq", "class", "fn"}
Values == Blocks \cup {None}

\* `after` is the argument that au_fn_value_call_rt dereferences when the
\* function it calls has returned; `into` is the caller's register.
Frame(arg, self, into, after) ==
  [regs |-> [r \in Regs |-> None], local |-> arg, self |-> self,
   into |-> into, after |-> after]

Frames == [regs : [Regs -> Values], local : Values, self : Values,
           into : Regs \cup {None}, after : Values]

TypeOK ==
  /\ heap \in [rc : [Blocks -> 0 .. MaxRc + 1], kind : [Blocks -> Kinds],
               cell : [Blocks -> Values], fault : BOOLEAN]
  /\ frames \in Seq(Frames)
  /\ const \in Values
  /\ due \in [Blocks -> Nat]
  /\ lost \in [Blocks -> Nat] /\ stolen \in [Blocks -> Nat]

Nothing == [b \in Blocks |-> 0]

Init == /\ heap = [rc |-> Nothing, kind |-> [b \in Blocks |-> "seq"],
                   cell |-> [b \in Blocks |-> None], fault |-> FALSE]
        /\ frames = <<Frame(None, None, None, None)>>
        /\ const = None
        /\ due = Nothing /\ lost = Nothing /\ stolen = Nothing

-----------------------------------------------------------------------------
(* The runtime's counts.                                                    *)

\* A block is used after it was freed: the dereference aborts, or the memory
\* is somebody else's.
Fault(h) == [h EXCEPT !.fault = TRUE]

Ref(h, v) == IF v = None THEN h
             ELSE IF h.rc[v] = 0 THEN Fault(h)
             ELSE [h EXCEPT !.rc[v] = @ + 1]

\* One reference to v, as seen by b.
One(v, b) == IF v = b THEN 1 ELSE 0

\* Mutant of Deref: the count is not compared with zero.
DerefUnchecked(b) ==
  /\ due[b] > 0 /\ ~heap.fault
  /\ heap' = [heap EXCEPT !.rc[b] = @ - 1]
  /\ due' = [due EXCEPT ![b] = @ - 1]
  /\ UNCHANGED <<frames, const, lost, stolen>>

\* The last dereference runs the block's destructor, which dereferences its
\* content, and gives the memory back.  Nothing comes between the dereferences
\* of a statement, and since they only lower counts their order is left open.
Deref(b) ==
  /\ due[b] > 0 /\ ~heap.fault
  /\ \/ /\ heap.rc[b] = 0
        /\ heap' = Fault(heap) /\ UNCHANGED due
     \/ /\ heap.rc[b] > 1
        /\ heap' = [heap EXCEPT !.rc[b] = @ - 1]
        /\ due' = [due EXCEPT ![b] = @ - 1]
     \/ /\ heap.rc[b] = 1
        /\ heap' = [heap EXCEPT !.rc[b] = 0, !.cell[b] = None]
        /\ due' = [c \in Blocks |-> due[c] + One(heap.cell[b], c) - One(b, c)]
  /\ UNCHANGED <<frames, const, lost, stolen>>

\* Mutant of CopyValue: the copy is not referenced.
CopyUncounted(old, new) ==
  heap' = heap /\ due' = [b \in Blocks |-> One(old, b)]

\* The macros of the generated code: a copy references the new value, a move
\* takes over the reference it comes with (h is the heap with that reference);
\* both dereference the old one, after the new one is in place.
CopyValue(old, new) ==
  heap' = Ref(heap, new) /\ due' = [b \in Blocks |-> One(old, b)]
MoveValue(h, old) ==
  heap' = h /\ due' = [b \in Blocks |-> One(old, b)]

-----------------------------------------------------------------------------
(* Instructions of the running function.                                    *)

Top    == frames[Len(frames)]
Reg(r) == Top.regs[r]
WithReg(r, v) == [frames EXCEPT ![Len(frames)].regs[r] = v]

Running  == Len(frames) > 0 /\ ~heap.fault /\ due = Nothing
Live(v)  == v # None /\ heap.rc[v] > 0
IsA(v, k) == Live(v) /\ heap.kind[v] = k
Room     == \A b \in Blocks : heap.rc[b] < MaxRc /\ stolen[b] < MaxRc

Free == {b \in Blocks : heap.rc[b] = 0}

Count(ghost, v, n) == IF v = None THEN ghost ELSE [ghost EXCEPT ![v] = @ + n]

\* Integers, booleans, nil, comparisons and arithmetic: a value with no block.
LoadPlain(r) ==
  /\ CopyValue(Reg(r), None)
  /\ frames' = WithReg(r, None)
  /\ UNCHANGED <<const, lost, stolen>>

\* A string literal or the sum of two strings, a new array, tuple, instance or
\* function value.
LoadNew(r, k) ==
  \E b \in Free :
    /\ MoveValue([heap EXCEPT !.rc[b] = 1, !.kind[b] = k], Reg(r))
    /\ frames' = WithReg(r, b)
    /\ UNCHANGED <<const, lost, stolen>>

MovRegLocal(r) ==
  /\ CopyValue(Top.local, Reg(r))
  /\ frames' = [frames EXCEPT ![Len(frames)].local = Reg(r)]
  /\ UNCHANGED <<const, lost, stolen>>

MovLocalReg(r) ==
  /\ CopyValue(Reg(r), Top.local)
  /\ frames' = WithReg(r, Top.local)
  /\ UNCHANGED <<const, lost, stolen>>

\* The static variable takes the register's value over without a reference of
\* its own, and the register keeps it.
SetConst(r) ==
  /\ const = None
  /\ MoveValue(heap, const)
  /\ const' = Reg(r)
  /\ stolen' = Count(stolen, Reg(r), 1)
  /\ UNCHANGED <<frames, lost>>

LoadConst(r) ==
  /\ MoveValue(Ref(heap, const), Reg(r))
  /\ frames' = WithReg(r, const)
  /\ UNCHANGED <<const, lost, stolen>>

\* The element is written where there is none yet (bound: one element).
ArrayPush(r, s) ==
  /\ IsA(Reg(r), "seq") /\ heap.cell[Reg(r)] = None
  /\ heap' = [Ref(heap, Reg(s)) EXCEPT !.cell[Reg(r)] = Reg(s)]
  /\ UNCHANGED <<frames, const, due, lost, stolen>>

\* The getter references the element it returns, and the copy once more.
IdxGet(r, s) ==
  LET v == heap.cell[Reg(r)] IN
  /\ IsA(Reg(r), "seq")
  /\ MoveValue(Ref(Ref(heap, v), v), Reg(s))
  /\ frames' = WithReg(s, v)
  /\ lost' = Count(lost, v, 1)
  /\ UNCHANGED <<const, stolen>>

\* The generated code references the value, the setter does so again and
\* dereferences what it has just stored: the old element's reference is lost.
IdxSet(r, s) ==
  LET o == Reg(r)
      stored == [Ref(Ref(heap, Reg(s)), Reg(s)) EXCEPT !.cell[o] = Reg(s)]
  IN  /\ IsA(o, "seq")
      /\ MoveValue(stored, stored.cell[o])
      /\ lost' = Count(lost, heap.cell[o], 1)
      /\ UNCHANGED <<frames, const, stolen>>

\* `new C { field: s }`: the fields are copied, then the instance is moved.
ClassNewInitialized(r, s) ==
  \E b \in Free :
    LET made == [heap EXCEPT !.rc[b] = 1, !.kind[b] = "class"]
    IN  /\ MoveValue([Ref(made, Reg(s)) EXCEPT !.cell[b] = Reg(s)], Reg(r))
        /\ frames' = WithReg(r, b)
        /\ UNCHANGED <<const, lost, stolen>>

GetInner(r) ==
  LET v == heap.cell[Top.self] IN
  /\ IsA(Top.self, "class")
  /\ CopyValue(Reg(r), v)
  /\ frames' = WithReg(r, v)
  /\ UNCHANGED <<const, lost, stolen>>

\* The field is written before the old value is dereferenced.
SetInner(r) ==
  LET self == Top.self IN
  /\ IsA(self, "class")
  /\ MoveValue([Ref(heap, Reg(r)) EXCEPT !.cell[self] = Reg(r)],
               heap.cell[self])
  /\ UNCHANGED <<frames, const, lost, stolen>>

BindArg(r, s) ==
  /\ IsA(Reg(r), "fn") /\ heap.cell[Reg(r)] = None
  /\ heap' = [Ref(heap, Reg(s)) EXCEPT !.cell[Reg(r)] = Reg(s)]
  /\ UNCHANGED <<frames, const, due, lost, stolen>>

\* An instruction on elements, fields or bound arguments meets a freed block.
UseFreed ==
  /\ \E v \in {Reg(r) : r \in Regs} \cup {Top.self} : v # None /\ ~Live(v)
  /\ heap' = Fault(heap)
  /\ UNCHANGED <<frames, const, due, lost, stolen>>

-----------------------------------------------------------------------------
(* Calls and returns.                                                       *)

\* The argument array holds the registers' values and no reference of its own;
\* the function makes them its locals.  A method first references its object.
Enter(h, arg, into, after) ==
  /\ Len(frames) < MaxFrames
  /\ \/ /\ heap' = h
        /\ frames' = Append(frames, Frame(arg, None, into, after))
     \/ /\ IsA(arg, "class")
        /\ heap' = Ref(h, arg)
        /\ frames' = Append(frames, Frame(arg, arg, into, after))
  /\ UNCHANGED <<const, due, lost>>

Call(r, s) == /\ Enter(heap, Reg(s), r, None)
              /\ stolen' = Count(stolen, Reg(s), 1)

\* A native function dereferences its argument, and answers with a plain value
\* or with the argument itself.
CallNative(r, s) ==
  LET v == Reg(s) IN
  /\ stolen' = Count(stolen, v, 1)
  /\ \/ /\ due' = [b \in Blocks |-> One(v, b) + One(Reg(r), b)]
        /\ frames' = WithReg(r, None)
        /\ UNCHANGED heap
     \/ /\ MoveValue(heap, Reg(r))
        /\ frames' = WithReg(r, v)
  /\ UNCHANGED <<const, lost>>

\* A function value of one argument: either it is bound, and referenced for the
\* call, or it comes with the call.  au_fn_value_call_rt dereferences it again
\* when the function, which does so itself, has returned.
CallFuncValue(r, s, t) ==
  LET f == Reg(r) IN
  /\ IsA(f, "fn")
  /\ LET bound == heap.cell[f] IN
       \/ /\ bound # None
          /\ Enter(Ref(heap, bound), bound, t, bound)
          /\ stolen' = Count(stolen, bound, 1)
       \/ /\ bound = None
          /\ Enter(heap, Reg(s), t, Reg(s))
          /\ stolen' = Count(stolen, Reg(s), 2)

\* The same of a native function, which answers like those of CallNative: the
\* argument it may answer with is dereferenced before it is in the register.
\* Which function values are native is left open.
CallNativeValue(r, s, t) ==
  LET f     == Reg(r)
      bound == heap.cell[f]
      v     == IF bound = None THEN Reg(s) ELSE bound
  IN /\ IsA(f, "fn")
     /\ heap' = Ref(heap, bound)
     /\ stolen' = Count(stolen, v, IF bound = None THEN 2 ELSE 1)
     /\ \/ /\ due' = [b \in Blocks |-> 2 * One(v, b) + One(Reg(t), b)]
           /\ frames' = WithReg(t, None)
        \/ /\ due' = [b \in Blocks |-> One(v, b) + One(Reg(t), b)]
           /\ frames' = WithReg(t, v)
     /\ UNCHANGED <<const, lost>>

\* Mutant of Cleanup: a method does not give back its object.
CleanupKeepsSelf(f, kept, localKept, b) ==
  Cardinality({r \in Regs \ kept : f.regs[r] = b})
    + (IF localKept THEN 0 ELSE One(f.local, b))

\* comp_cleanup: every variable but the one that is returned is dereferenced.
Cleanup(f, kept, localKept, b) ==
  Cardinality({r \in Regs \ kept : f.regs[r] = b})
    + (IF localKept THEN 0 ELSE One(f.local, b)) + One(f.self, b)

\* The cleanup, the caller's dereference of `after`, and the move of the result
\* v into the caller's register.
Leave(kept, localKept, v) ==
  LET n   == Len(frames)
      old == IF n = 1 THEN None ELSE frames[n - 1].regs[Top.into]
  IN  /\ due' = [b \in Blocks |-> Cleanup(Top, kept, localKept, b)
                                   + One(Top.after, b) + One(old, b)]
      /\ frames' = IF n = 1 THEN <<>>
                   ELSE [SubSeq(frames, 1, n - 1)
                           EXCEPT ![n - 1].regs[Top.into] = v]
      /\ UNCHANGED <<heap, const, lost, stolen>>

\* The top level of the program returns nothing.
Ret(r)   == Len(frames) > 1 /\ Leave({r}, FALSE, Reg(r))
RetLocal == Len(frames) > 1 /\ Leave({}, TRUE, Top.local)
RetNull  == Leave({}, FALSE, None)

-----------------------------------------------------------------------------
Instruction ==
  /\ Running /\ Room
  /\ \/ \E r \in Regs :
          \/ LoadPlain(r) \/ MovRegLocal(r) \/ MovLocalReg(r)
          \/ SetConst(r) \/ LoadConst(r) \/ GetInner(r) \/ SetInner(r)
          \/ \E k \in Kinds : LoadNew(r, k)
          \/ \E s \in Regs :
               \/ ArrayPush(r, s) \/ IdxGet(r, s) \/ IdxSet(r, s)
               \/ ClassNewInitialized(r, s) \/ BindArg(r, s)
               \/ Call(r, s) \/ CallNative(r, s)
               \/ \E t \in Regs : CallFuncValue(r, s, t) \/ CallNativeValue(r, s, t)
          \/ Ret(r)
     \/ UseFreed \/ RetLocal \/ RetNull

Next == Instruction \/ \E b \in Blocks : Deref(b)

Spec == Init /\ [][Next]_vars

-----------------------------------------------------------------------------
(* Properties.                                                              *)

\* What will give back a reference to b: the variables of the running
\* functions, contents of blocks, the constant, and the statements under way.
RegsHolding(b)   == {p \in (DOMAIN frames) \X Regs : frames[p[1]].regs[p[2]] = b}
LocalsHolding(b) == {i \in DOMAIN frames : frames[i].local = b}
SelvesHolding(b) == {i \in DOMAIN frames : frames[i].self = b}
AftersHolding(b) == {i \in DOMAIN frames : frames[i].after = b}
CellsHolding(b)  == {c \in Blocks : heap.cell[c] = b}

Holders(b) ==
  Cardinality(RegsHolding(b)) + Cardinality(LocalsHolding(b))
    + Cardinality(SelvesHolding(b)) + Cardinality(AftersHolding(b))
    + Cardinality(CellsHolding(b)) + One(const, b) + due[b]

\* The count of a block is the number of its holders, apart from two exactly
\* known errors: reading and overwriting an element lose one reference each;
\* an argument of a call and a constant take one too few, the argument of a
\* function value two.  Every move, copy, container, method and return of the
\* generated code is otherwise balanced (compiler/c_comp.c, rt/malloc/static.c).
Balance ==
  ~heap.fault =>
    \A b \in Blocks : heap.rc[b] + stolen[b] = Holders(b) + lost[b]

\* A block is used after it was freed only in a program that has passed a block
\* to a function or kept one as a constant (rt/malloc/static.c:62).
FaultNeedsArgument == heap.fault => \E b \in Blocks : stolen[b] > 0

=============================================================================
