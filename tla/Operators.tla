----------------------------- MODULE Operators -----------------------------
(***************************************************************************)
(* Values and operators: the au_value_* functions of                       *)
(* src/core/rt/value/main.h, which compiled programs call, and the         *)
(* interpreter's instructions of src/core/vm/vm.c, which rewrite           *)
(* themselves to a form for integers, doubles or booleans and back.  One   *)
(* instruction is executed again and again with any operands; the code of  *)
(* a function is shared by its activations, so what it was rewritten to    *)
(* says nothing of the operands it meets next.                             *)
(***************************************************************************)
EXTENDS Integers, Sequences, Bitwise

CONSTANTS
  Width,   \* bits of an integer, 32 in the code
  Ints, Fractions, Strings, \* the operands of each type; fractions are pairs
  Other    \* function values and structures

MaxInt == 2 ^ (Width - 1) - 1
MinInt == -(2 ^ (Width - 1))

ASSUME OperatorsAssumption ==
  /\ Width \in Nat \ {0}
  /\ Ints \subseteq MinInt .. MaxInt
  /\ Fractions \subseteq Int \X Nat

int(n) == [type |-> "int", of |-> n]
bool(b) == [type |-> "bool", of |-> b]
double(q) == [type |-> "double", of |-> q]
string(s) == [type |-> "string", of |-> s]
None == [type |-> "none"]
Error == [type |-> "error"]

(* A double n/d; the infinities and NaN have d = 0 and n = 1, -1 and 0.    *)
NaN == <<0, 0>>
NotFinite == {<<1, 0>>, <<-1, 0>>, NaN}
Operand ==
  {int(n) : n \in Ints} \cup {double(q) : q \in Fractions \cup NotFinite}
    \cup {bool(TRUE), bool(FALSE), None} \cup {string(s) : s \in Strings}
    \cup {[type |-> "other", of |-> o] : o \in Other}

Arithmetic == {"MUL", "DIV", "ADD", "SUB"}
Comparison == {"EQ", "NEQ", "LT", "GT", "LEQ", "GEQ"}
Bits == {"BOR", "BXOR", "BAND", "BSHL", "BSHR"}
Unary == {"NOT", "BNOT", "NEG"}
Branch == {"JIF", "JNIF"}
Op == Arithmetic \cup {"MOD"} \cup Comparison \cup Bits \cup Unary \cup Branch

VARIABLES
  op,   \* what the instruction does
  form, \* what bc[0] was rewritten to: "generic", "int", "double" or "bool"
  at,   \* the form whose code runs; "fetch" before and "done" after it
  last  \* the execution under way or just done: its operands and its result

vars == <<op, form, at, last>>

Pending == [type |-> "pending"]
Aborted == [type |-> "aborted"]   \* abort() of an au_value_get_*
Never == [lhs |-> None, rhs |-> None, result |-> Pending]

Init == op \in Op /\ form = "generic" /\ at = "fetch" /\ last = Never

-----------------------------------------------------------------------------
(* au_platform_iadd_wrap and the others, and the cast of a word's bits. *)
Wrap(n) == ((n - MinInt) % 2 ^ Width) + MinInt

(* NaN tagging.  A word is a double, or has all bits of the exponent set,  *)
(* four bits of tag and the rest, where the other types are kept.          *)

Special(sign, tag, low) == [special |-> TRUE, sign |-> sign, tag |-> tag, low |-> low]
Boxed(tag, low) == Special(0, tag, low)   \* AU_REPR_BOXED
Finite(q) == [special |-> FALSE, of |-> q]

TagOf == [none |-> 1, int |-> 2, bool |-> 3, other |-> 4, string |-> 5]
LowBits == Width + 1   \* 48 in the code
ErrorWord == Boxed(0, 2 ^ LowBits - 1)
CanonicalNaN == Boxed(0, 1)

(* What the processor may give for a double; a NaN has any bits it likes. *)
Computed(q) ==
  CASE q[2] # 0 -> {Finite(q)}
    [] q[2] = 0 /\ q[1] # 0 -> {Special(IF q[1] < 0 THEN 1 ELSE 0, 0, 0)}
    [] OTHER -> {Special(sign, tag, low) : sign \in {0, 1}, tag \in 0 .. 15,
                                           low \in 0 .. 2 ^ LowBits - 1}
                  \ {Special(0, 0, 0), Special(1, 0, 0)}

(* Mutant of au_value_double: a NaN is kept as it was computed. *)
double_as_computed(w) == w

au_value_double(w) ==
  IF w.special /\ ~(w.tag = 0 /\ w.low = 0) THEN CanonicalNaN ELSE w

Words(v) ==
  CASE v.type = "double" -> {au_value_double(w) : w \in Computed(v.of)}
    [] v.type = "int" -> {Boxed(TagOf.int, v.of % 2 ^ LowBits)}
    [] v.type = "bool" -> {Boxed(TagOf.bool, IF v.of THEN 1 ELSE 0)}
    [] v.type = "none" -> {Boxed(TagOf.none, 0)}
    [] v.type = "error" -> {ErrorWord}
    [] OTHER -> {Boxed(TagOf[v.type], v.of)}

(* The au_value_get_* functions, as far as a result needs them. *)
Read(w) ==
  CASE ~w.special -> double(w.of)
    [] w.special /\ w.tag = TagOf.int -> int(Wrap(w.low))
    [] w.special /\ w.tag = TagOf.bool -> bool(w.low % 2 = 1)
    [] w.special /\ w.tag = TagOf.string -> string(w.low)
    [] w.special /\ w.tag = TagOf.none -> None
    [] w = ErrorWord -> Error
    [] OTHER -> double(IF w.low = 0 THEN <<1 - 2 * w.sign, 0>> ELSE NaN)

-----------------------------------------------------------------------------
(* The au_value_* functions *)

Is(v, type) == v.type = type
Both(l, r, type) == Is(l, type) /\ Is(r, type)
Numbers(l, r) == {l.type, r.type} \subseteq {"int", "double"}

Fraction(v) == IF Is(v, "int") THEN <<v.of, 1>> ELSE v.of

Sign(n) == IF n > 0 THEN 1 ELSE IF n < 0 THEN -1 ELSE 0
Quotient(n, d) ==
  IF d = 0 THEN <<Sign(n), 0>> ELSE IF d < 0 THEN <<-n, -d>> ELSE <<n, d>>

Sum(p, q) ==
  IF p[2] = 0 /\ q[2] = 0 THEN (IF p = q THEN p ELSE NaN)
  ELSE Quotient(p[1] * q[2] + q[1] * p[2], p[2] * q[2])

Negative(q) == <<-q[1], q[2]>>
Magnitude(n) == IF n < 0 THEN -n ELSE n

OnDoubles(o, l, r) ==
  LET p == Fraction(l)
      q == Fraction(r)
  IN double(CASE o = "ADD" -> Sum(p, q)
              [] o = "SUB" -> Sum(p, Negative(q))
              [] o = "MUL" -> Quotient(p[1] * q[1], p[2] * q[2])
              [] o = "DIV" -> Quotient((IF q[1] < 0 THEN -p[1] ELSE p[1]) * q[2],
                                       p[2] * Magnitude(q[1])))

(* C's remainder has the sign of the dividend. *)
Remainder(n, d) == Sign(n) * (Magnitude(n) % Magnitude(d))

Unsigned(n) == n % 2 ^ Width
Shifted(n, k) == n * 2 ^ k

OnInts(o, m, n) ==
  CASE o = "ADD" -> int(Wrap(m + n))
    [] o = "SUB" -> int(Wrap(m - n))
    [] o = "MUL" -> int(Wrap(m * n))
    [] o = "DIV" -> double(Quotient(m, n))
    [] o = "MOD" -> int(Remainder(m, n))
    [] o = "BAND" -> int(Wrap(Unsigned(m) & Unsigned(n)))
    [] o = "BOR" -> int(Wrap(Unsigned(m) | Unsigned(n)))
    [] o = "BXOR" -> int(Wrap(Unsigned(m) ^^ Unsigned(n)))
    [] o = "BSHL" -> int(Shifted(m, n))
    [] o = "BSHR" -> int(m \div 2 ^ n)

(* What C leaves without an outcome. *)
Defined(o, l, r) ==
  /\ o = "MOD" /\ Both(l, r, "int") => r.of # 0 /\ ~(l.of = MinInt /\ r.of = -1)
  /\ o \in {"BSHL", "BSHR"} /\ Both(l, r, "int") => r.of \in 0 .. Width - 1
  /\ o = "BSHL" /\ Both(l, r, "int") => l.of >= 0 /\ Shifted(l.of, r.of) <= MaxInt
  /\ o = "NEG" /\ Is(l, "int") => l.of # MinInt

au_value_arith(o, l, r) ==
  IF Both(l, r, "int") THEN OnInts(o, l.of, r.of)
  ELSE IF Numbers(l, r) THEN OnDoubles(o, l, r)
  ELSE IF o = "ADD" /\ Both(l, r, "string") THEN string(l.of \o r.of)
  ELSE Error

au_value_ints(o, l, r) ==
  IF Both(l, r, "int") THEN OnInts(o, l.of, r.of) ELSE Error

(* Mutant of Holds: <= is <. *)
HoldsStrict(o, d) ==
  CASE o \in {"LT", "LEQ"} -> d < 0 [] o = "GT" -> d > 0 [] o = "GEQ" -> d >= 0
    [] o = "EQ" -> d = 0 [] o = "NEQ" -> d # 0

(* d is the difference of the two that are compared. *)
Holds(o, d) ==
  CASE o = "LT" -> d < 0 [] o = "GT" -> d > 0
    [] o = "LEQ" -> d <= 0 [] o = "GEQ" -> d >= 0
    [] o = "EQ" -> d = 0 [] o = "NEQ" -> d # 0

(* NaN is not less, not greater and not equal. *)
CompareFractions(o, l, r) ==
  LET p == Fraction(l)
      q == Fraction(r)
  IN IF NaN \in {p, q} THEN o = "NEQ"
     ELSE Holds(o, IF p[2] = 0 /\ q[2] = 0 THEN p[1] - q[1]
                   ELSE p[1] * q[2] - q[1] * p[2])

(* au_string_cmp: the shorter string is less; memcmp when as long. *)
Different(s, t) == {k \in DOMAIN s : s[k] # t[k]}
au_string_cmp(s, t) ==
  IF Len(s) # Len(t) THEN Len(s) - Len(t)
  ELSE IF s = t THEN 0
  ELSE LET k == CHOOSE j \in Different(s, t) : \A i \in Different(s, t) : j <= i
       IN s[k] - t[k]

au_value_order(o, l, r) ==
  bool(\/ Numbers(l, r) /\ CompareFractions(o, l, r)
       \/ Both(l, r, "string") /\ Holds(o, au_string_cmp(l.of, r.of)))

au_value_eq(l, r) ==
  bool(\/ Both(l, r, "none")
       \/ /\ l.type = r.type /\ l.type \in {"int", "bool", "string"}
          /\ l.of = r.of)

(* It has no case for nil, which differs from itself. *)
au_value_neq(l, r) ==
  bool(~(l.type = r.type /\ l.type \in {"int", "bool", "string"} /\ l.of = r.of))

au_value_is_truthy(v) ==
  CASE Is(v, "int") -> v.of > 0
    [] Is(v, "double") -> v.of[1] > 0
    [] Is(v, "bool") -> v.of
    [] Is(v, "string") -> v.of # <<>>
    [] OTHER -> FALSE

au_value_unary(o, v) ==
  CASE o = "NOT" -> bool(~au_value_is_truthy(v))
    [] o = "BNOT" -> IF Is(v, "int") THEN int(-v.of - 1) ELSE Error
    [] o = "NEG" -> IF Is(v, "int") THEN int(-v.of) ELSE Error

(* What a compiled program computes: c_comp.c emits calls of these, except *)
(* of the shifts, for which it has no case; the result of a branch says    *)
(* whether it is taken.                                                    *)
Compiled(o, l, r) ==
  CASE o \in Arithmetic -> au_value_arith(o, l, r)
    [] o \in Bits \cup {"MOD"} -> au_value_ints(o, l, r)
    [] o \in {"LT", "GT", "LEQ", "GEQ"} -> au_value_order(o, l, r)
    [] o = "EQ" -> au_value_eq(l, r)
    [] o = "NEQ" -> au_value_neq(l, r)
    [] o \in Unary -> au_value_unary(o, l)
    [] o = "JIF" -> bool(au_value_is_truthy(l))
    [] o = "JNIF" -> bool(~au_value_is_truthy(l))

-----------------------------------------------------------------------------
(* The interpreter's instructions.  An execution reads its operands, goes  *)
(* to the code of the form that bc[0] names, and may be sent from one form *)
(* to another, any number of times, before one of them gives the result.   *)

Binary == Op \ (Unary \cup Branch)

(* The dispatch on bc[0], with any operands in the registers. *)
Fetch(l, r) ==
  /\ at = "fetch"
  /\ Defined(op, l, r)
  /\ at' = form
  /\ last' = [lhs |-> l, rhs |-> r, result |-> Pending]
  /\ UNCHANGED <<op, form>>

(* bc[0] is written and the code of that form entered. *)
Rewrite(f) ==
  /\ form' = f
  /\ at' = f
  /\ UNCHANGED <<op, last>>

(* The instruction gives its result and leaves form f in bc[0]. *)
Result(f, result) ==
  /\ form' = f
  /\ at' = "done"
  /\ \E v \in IF result = Aborted THEN {Aborted} ELSE {Read(w) : w \in Words(result)} :
       last' = [last EXCEPT !.result = v]
  /\ UNCHANGED op

(* The next time that this instruction is reached. *)
DISPATCH ==
  /\ at = "done"
  /\ at' = "fetch"
  /\ last' = Never
  /\ UNCHANGED <<op, form>>

(* Mutant of Specialises: one integer is enough. *)
SpecialisesOnOne(l, r, f) ==
  \/ f = "int" /\ (Is(l, "int") \/ Is(r, "int")) /\ op \in Arithmetic \cup {"MOD"} \cup Comparison
  \/ f = "double" /\ Both(l, r, "double") /\ op \in Arithmetic \cup Comparison

(* SPECIALIZED_INT_ONLY, SPECIALIZED_INT_AND_DOUBLE, NO_SPECIALIZER: the   *)
(* generic form looks for one that takes these operands.                   *)
Specialises(l, r, f) ==
  \/ f = "int" /\ Both(l, r, "int") /\ op \in Arithmetic \cup {"MOD"} \cup Comparison
  \/ f = "double" /\ Both(l, r, "double") /\ op \in Arithmetic \cup Comparison

(* Mutant of Takes: the right operand is not looked at. *)
TakesLeft(l, r, f) == Is(l, f)

(* _INT and _DOUBLE look at the types of the operands again. *)
Takes(l, r, f) == Both(l, r, f)

(* What BIN_OP of _INT and _DOUBLE compute; au_value_get_int and           *)
(* au_value_get_double abort the process on a value of another type.       *)
IntForm(l, r) ==
  IF ~Both(l, r, "int") THEN Aborted
  ELSE IF op \in Comparison THEN bool(Holds(op, l.of - r.of)) ELSE OnInts(op, l.of, r.of)

DoubleForm(l, r) ==
  IF ~Both(l, r, "double") THEN Aborted
  ELSE IF op \in Comparison THEN bool(CompareFractions(op, l, r)) ELSE OnDoubles(op, l, r)

BinaryInt ==
  /\ at = "int"
  /\ IF Takes(last.lhs, last.rhs, "int")
     THEN Result("int", IntForm(last.lhs, last.rhs))
     ELSE Rewrite("generic")

BinaryDouble ==
  /\ at = "double"
  /\ IF Takes(last.lhs, last.rhs, "double")
     THEN Result("double", DoubleForm(last.lhs, last.rhs))
     ELSE Rewrite("generic")

(* An error is raised: bin_op_error. *)
BinaryGeneric ==
  /\ op \in Binary /\ at = "generic"
  /\ IF \E f \in {"int", "double"} : Specialises(last.lhs, last.rhs, f)
     THEN \E f \in {"int", "double"} : Specialises(last.lhs, last.rhs, f) /\ Rewrite(f)
     ELSE Result("generic", Compiled(op, last.lhs, last.rhs))

UnaryOp ==
  /\ op \in Unary /\ at = "generic"
  /\ Result("generic", au_value_unary(op, last.lhs))

(* Mutant of Taken: JNIF_BOOL jumps like JIF_BOOL. *)
TakenTrue(v) == v.of

Taken(v) == IF op = "JIF" THEN v.of ELSE ~v.of

(* JIF_BOOL, JNIF_BOOL *)
BranchBool ==
  /\ at = "bool"
  /\ IF Is(last.lhs, "bool") THEN Result("bool", bool(Taken(last.lhs)))
     ELSE Rewrite("generic")

(* JIF, JNIF: bc[0] is written for the next time, this one goes on. *)
BranchGeneric ==
  /\ op \in Branch /\ at = "generic"
  /\ Result(IF Is(last.lhs, "bool") THEN "bool" ELSE "generic",
            bool(au_value_is_truthy(last.lhs) <=> op = "JIF"))

Execute == BinaryInt \/ BinaryDouble \/ BinaryGeneric \/ UnaryOp \/ BranchBool \/ BranchGeneric

Next ==
  \/ op \in Binary /\ \E l, r \in Operand : Fetch(l, r)
  \/ op \notin Binary /\ \E v \in Operand : Fetch(v, None)
  \/ Execute
  \/ DISPATCH

(* An execution is one run of straight code and gotos, which nothing       *)
(* suspends; whether the program reaches the instruction again is its own. *)
Spec == Init /\ [][Next]_vars /\ WF_vars(Execute)
-----------------------------------------------------------------------------
(* Properties *)

Ran == at = "done"

(***************************************************************************)
(* Whatever form an instruction was left in by the operands it met before, *)
(* and whichever forms these operands are sent through, its result is what *)
(* a compiled program computes, errors and branches included: a form reads *)
(* no operand as of another type, which would abort the process.  The word *)
(* that holds the result is read as that result, whichever bits the        *)
(* processor gave to a NaN.  Equality of doubles is left out: only the     *)
(* interpreter has a case for it.                                          *)
(***************************************************************************)
BackEndsAgree ==
  Ran /\ ~(op \in {"EQ", "NEQ"} /\ Both(last.lhs, last.rhs, "double"))
    => last.result = Compiled(op, last.lhs, last.rhs)

(***************************************************************************)
(* The forms of an instruction do not send the same operands to and fro    *)
(* for ever: the generic one only chooses a form that takes them, and a    *)
(* begun execution ends.                                                   *)
(***************************************************************************)
ExecutionEnds == (at \notin {"fetch", "done"}) ~> Ran

(***************************************************************************)
(* The comparison operators of the interpreter agree with each other on    *)
(* the operands of the last instruction ("work as you'd expect",           *)
(* docs/tour.md): of two ordered operands one is less or neither, <= and   *)
(* >= both hold exactly when neither is, equal ones are neither, and two   *)
(* that are not ordered are none of it.  A double that equals an integer   *)
(* is not == to it, and nil is both == and != to itself.                   *)
(***************************************************************************)
Run(o, l, r) ==
  IF Both(l, r, "double") THEN CompareFractions(o, l, r) ELSE Compiled(o, l, r).of

Ordered(l, r) ==
  (Numbers(l, r) /\ NaN \notin {Fraction(l), Fraction(r)}) \/ Both(l, r, "string")

ComparisonsAgree ==
  LET l == last.lhs
      r == last.rhs
      other == CASE op = "LT" -> Run("GT", r, l) [] op = "GT" -> Run("LT", r, l)
                 [] op = "LEQ" -> Ordered(l, r) /\ ~Run("GT", l, r)
                 [] op = "GEQ" -> Ordered(l, r) /\ ~Run("LT", l, r)
                 [] op = "EQ" -> IF Ordered(l, r) /\ l.type = r.type
                                 THEN Run("LEQ", l, r) /\ Run("GEQ", l, r)
                                 ELSE Both(l, r, "none") \/ (Both(l, r, "bool") /\ l.of = r.of)
                 [] op = "NEQ" -> Both(l, r, "none") \/ ~Run("EQ", l, r)
  IN Ran /\ op \in Comparison => last.result = bool(other)
=============================================================================
