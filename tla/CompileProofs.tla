--------------------------- MODULE CompileProofs ---------------------------
(***************************************************************************)
(* For a function of any length, any number of registers, locals and       *)
(* names: the constructs under way nest, each finds its operands on the    *)
(* register stack, and the locals have places of their own.                *)
(***************************************************************************)
EXTENDS Compile, FiniteSetTheorems, SequenceTheorems, WellFoundedInduction, TLAPS

-----------------------------------------------------------------------------
(* The shape of todo.                                                      *)

ScopeKinds == {"then", "else", "loop"}
BlockKinds == {"func", "then", "else", "loop", "elif"}
StatementKinds == {"effect", "print", "return", "let", "if", "while"}
LogicalKinds == {"and", "or"}
ListKinds == {"call", "method", "fncall", "new", "array"}
OperandKinds ==
  ListKinds \cup {"paren", "not", "index", "idxset", "assign", "compound", "fieldset", "fieldop"}
ExprReaders == StatementKinds \cup LogicalKinds \cup OperandKinds
Kinds == BlockKinds \cup ExprReaders \cup {"expr"}

(* What a construct may be part of. *)
Nests(a, b) ==
  \/ b = "expr" /\ a \in ExprReaders
  \/ b \in OperandKinds /\ a = "expr"
  \/ b \in LogicalKinds /\ a \in ExprReaders
  \/ b \in StatementKinds /\ a \in Blocks
  \/ b = "if" /\ a = "elif"
  \/ b \in BlockKinds \ {"func"} /\ a \in BlockKinds

Nested(t) ==
  /\ t # <<>> /\ t[1].k = "func"
  /\ \A i \in DOMAIN t : i > 1 => Nests(t[i - 1].k, t[i].k)
  /\ \A i, j \in DOMAIN t :
       i < j /\ t[j].k \in StatementKinds \cup BlockKinds => t[i].k \in BlockKinds

Needs == {"value", "more", "closed", "done", "comma", "stmt", "end"}

(* What the parser is about to read belongs to the innermost construct. *)
Fits(n, k) ==
  /\ n \in {"value", "more", "closed"} => k = "expr"
  /\ n = "done" => k \in ExprReaders
  /\ n = "comma" => k \in ListKinds
  /\ n \in {"stmt", "end"} => k \in BlockKinds

(* The operands of a construct that wait while what it has begun is read. *)
Held(o) ==
  CASE o.k = "expr" -> o.op
    [] o.k = "idxset" -> 2
    [] o.k \in {"index", "fncall", "array"} \cup LogicalKinds -> 1
    [] OTHER -> 0
Weights(t) == [i \in DOMAIN t |-> Held(t[i])]
Units(w, n) == UNION {{i} \X (1 .. w[i]) : i \in 1 .. n}
Total(w, n) == Cardinality(Units(w, n))
Upto(t, i) == Total(Weights(t), i)
Ready(n) == IF n \in {"more", "closed", "done"} THEN 1 ELSE 0

(* The names of the innermost scopes have the last places. *)
Opened(t) == [i \in DOMAIN t |-> IF t[i].k \in ScopeKinds THEN 1 ELSE 0]
Sizes(v) == [i \in DOMAIN v |-> Cardinality(DOMAIN v[i])]
Placed(v, n) ==
  /\ n = Total(Sizes(v), Len(v))
  /\ \A i \in DOMAIN v :
       /\ IsFiniteSet(DOMAIN v[i])
       /\ \A x \in DOMAIN v[i] :
            /\ Total(Sizes(v), i - 1) <= v[i][x]
            /\ v[i][x] < Total(Sizes(v), i)
       /\ \A x, y \in DOMAIN v[i] : v[i][x] = v[i][y] => x = y

-----------------------------------------------------------------------------
(* Types.                                                                  *)

SVal == Val \cup {Unknown}
ParamSet == [reg : Reg, owned : BOOLEAN, val : SVal]
ItemSet == [k : Kinds, op : 0 .. 1, reg : Reg, x : Names \cup Reg, params : Seq(ParamSet)]
Label == [pos : Nat, to : {"run", "stop", "else", "end"}]
Machine == [regs : [Reg -> Val], locals : [0 .. MaxLocals - 1 -> Val], field : Val,
            at : Label, ret : Val]
Scope(S) == UNION {[D -> S] : D \in SUBSET Names}
Source == [vals : Seq(SVal), env : Seq(Scope(SVal)), field : SVal, at : Label, ret : SVal]
LastSet == [op : {"other", "load", "ret"}, reg : Reg, local : Nat, depth : Nat]

(* The source's scopes have the names that the parser's have. *)
Reading(f, v) ==
  f \in Source /\ Len(f.env) = Len(v) /\ \A i \in DOMAIN v : DOMAIN f.env[i] = DOMAIN v[i]

TypeInv ==
  /\ p \in RegState /\ m \in Machine
  /\ vars \in Seq(Scope(0 .. MaxLocals - 1)) /\ Reading(s, vars)
  /\ placed \in 0 .. MaxLocals /\ max_locals \in 0 .. MaxLocals
  /\ tokens \in 0 .. MaxTokens
  /\ last \in LastSet /\ (last.op = "load" => last.local \in 0 .. MaxLocals - 1)
  /\ Len(todo) <= MaxDepth
  /\ need = "done" => Len(todo) < MaxDepth
  /\ need \in Needs

(* A construct notes what its end needs. *)
Notes(o, v, n) ==
  /\ o.k = "let" => o.x \in Names /\ n < MaxLocals
  /\ o.k \in {"assign", "compound"} => \E i \in DOMAIN v : o.x \in DOMAIN v[i]
  /\ o.k \notin ListKinds => o.params = <<>>
  /\ o.k = "idxset" => o.x \in Reg

Shape(t, v, n) ==
  t \in Seq(ItemSet) /\ Nested(t) /\ \A i \in DOMAIN t : Notes(t[i], v, n)

ShapeInv ==
  /\ Shape(todo, vars, placed) /\ Fits(need, Top.k)
  /\ Len(s.vals) = Upto(todo, Len(todo)) + Ready(need)
  /\ ~p.full => Len(s.vals) <= Len(p.rstack)

PlaceInv ==
  /\ Len(vars) = Total(Opened(todo), Len(todo)) + 1
  /\ Placed(vars, placed)

-----------------------------------------------------------------------------
(* Registers.                                                              *)

Cached(q) == {q.cache[l] : l \in DOMAIN q.cache} \ {NoReg}

-----------------------------------------------------------------------------
(* Sums of weights.                                                        *)

LEMMA IntervalSize ==
  \A k \in Nat : IsFiniteSet(1 .. k) /\ Cardinality(1 .. k) = k
<1>1. ASSUME NEW k \in Nat PROVE IsFiniteSet(1 .. k) /\ Cardinality(1 .. k) = k
  <2>1. 1 \in Int /\ k \in Int /\ (1 > k => k = 0) /\ k - 1 + 1 = k
    OBVIOUS
  <2> QED BY <2>1, FS_Interval
<1> QED BY <1>1

LEMMA UnitsFinite ==
  ASSUME NEW w, NEW n \in Nat, \A i \in 1 .. n : w[i] \in Nat
  PROVE  IsFiniteSet(Units(w, n))
<1> DEFINE Parts == {{i} \X (1 .. w[i]) : i \in 1 .. n}
<1>1. PICK f : f = [i \in 1 .. n |-> {i} \X (1 .. w[i])]
  OBVIOUS
<1>2. f \in Surjection(1 .. n, Parts)
  BY <1>1 DEF Surjection
<1>3. IsFiniteSet(1 .. n)
  BY FS_Interval
<1>4. IsFiniteSet(Parts)
  <2> HIDE DEF Parts
  <2> QED BY <1>2, <1>3, FS_Surjection
<1>5. ASSUME NEW T \in Parts PROVE IsFiniteSet(T)
  <2>1. PICK i \in 1 .. n : T = {i} \X (1 .. w[i])
    OBVIOUS
  <2>2. IsFiniteSet({i}) /\ IsFiniteSet(1 .. w[i])
    BY w[i] \in Nat, FS_Singleton, IntervalSize
  <2> HIDE DEF Parts
  <2> QED BY <2>1, <2>2, FS_Product
<1> QED
  <2>1. Units(w, n) = UNION Parts
    BY DEF Units
  <2> HIDE DEF Parts
  <2> QED BY <1>4, <1>5, <2>1, FS_UNION

LEMMA TotalType ==
  ASSUME NEW w, NEW n \in Nat, \A i \in 1 .. n : w[i] \in Nat
  PROVE  Total(w, n) \in Nat
BY UnitsFinite, FS_CardinalityType DEF Total

LEMMA TotalEmpty == \A w : Total(w, 0) = 0
<1>1. ASSUME NEW w PROVE Units(w, 0) = {}
  BY DEF Units
<1> QED BY <1>1, FS_EmptySet DEF Total

LEMMA TotalStep ==
  ASSUME NEW w, NEW n \in Nat \ {0}, \A i \in 1 .. n : w[i] \in Nat
  PROVE  Total(w, n) = Total(w, n - 1) + w[n]
<1>1. Units(w, n) = Units(w, n - 1) \cup ({n} \X (1 .. w[n]))
  <2>1. 1 .. n = (1 .. n - 1) \cup {n}
    OBVIOUS
  <2> QED BY <2>1 DEF Units
<1>2. Units(w, n - 1) \cap ({n} \X (1 .. w[n])) = {}
  <2>1. ASSUME NEW u \in Units(w, n - 1), u \in {n} \X (1 .. w[n]) PROVE FALSE
    <3>1. PICK i \in 1 .. n - 1 : u \in {i} \X (1 .. w[i])
      BY DEF Units
    <3> QED BY <3>1, <2>1
  <2> QED BY <2>1
<1>3. IsFiniteSet(Units(w, n - 1))
  BY UnitsFinite, n - 1 \in Nat
<1>4. IsFiniteSet({n} \X (1 .. w[n])) /\ Cardinality({n} \X (1 .. w[n])) = w[n]
  <2>1. IsFiniteSet({n}) /\ Cardinality({n}) = 1
    BY FS_Singleton
  <2>2. IsFiniteSet(1 .. w[n]) /\ Cardinality(1 .. w[n]) = w[n]
    BY w[n] \in Nat, IntervalSize
  <2>3. w[n] \in Nat /\ 1 * w[n] = w[n]
    OBVIOUS
  <2> QED BY <2>1, <2>2, <2>3, FS_Product
<1>5. Cardinality(Units(w, n - 1)) \in Nat /\ w[n] \in Nat
  BY <1>3, FS_CardinalityType
<1>6. Cardinality(Units(w, n)) = Cardinality(Units(w, n - 1)) + w[n] - 0
  BY <1>1, <1>2, <1>3, <1>4, FS_Union, FS_EmptySet
<1> QED BY <1>5, <1>6 DEF Total

LEMMA TotalSame ==
  ASSUME NEW w, NEW v, NEW n \in Nat, \A i \in 1 .. n : w[i] = v[i]
  PROVE  Total(w, n) = Total(v, n)
<1>1. Units(w, n) = Units(v, n)
  BY DEF Units
<1> QED BY <1>1 DEF Total

LEMMA TotalMonotonic ==
  ASSUME NEW w, NEW n \in Nat, NEW k \in 0 .. n, \A i \in 1 .. n : w[i] \in Nat
  PROVE  Total(w, k) <= Total(w, n)
<1>1. Units(w, k) \subseteq Units(w, n)
  BY DEF Units
<1> QED BY <1>1, UnitsFinite, FS_Subset DEF Total

LEMMA TotalZero ==
  ASSUME NEW w, NEW n \in Nat, \A i \in 1 .. n : w[i] = 0
  PROVE  Total(w, n) = 0
<1>1. Units(w, n) = {}
  BY DEF Units
<1> QED BY <1>1, FS_EmptySet DEF Total

-----------------------------------------------------------------------------
(* The operations on todo.                                                 *)

LEMMA AppendFacts ==
  ASSUME NEW S, NEW t \in Seq(S), NEW o \in S
  PROVE  /\ Append(t, o) \in Seq(S) /\ Len(Append(t, o)) = Len(t) + 1
         /\ DOMAIN Append(t, o) = 1 .. Len(t) + 1 /\ DOMAIN t = 1 .. Len(t) /\ Len(t) \in Nat
         /\ \A i \in 1 .. Len(t) : Append(t, o)[i] = t[i]
         /\ Append(t, o)[Len(t) + 1] = o
BY LenProperties

LEMMA FrontFacts ==
  ASSUME NEW S, NEW t \in Seq(S), t # <<>>
  PROVE  /\ Front(t) \in Seq(S) /\ Len(Front(t)) = Len(t) - 1
         /\ DOMAIN Front(t) = 1 .. Len(t) - 1 /\ DOMAIN t = 1 .. Len(t) /\ Len(t) \in Nat \ {0}
         /\ \A i \in 1 .. Len(t) - 1 : Front(t)[i] = t[i]
<1>1. Len(t) \in Nat \ {0} /\ t \in [1 .. Len(t) -> S] /\ DOMAIN t = 1 .. Len(t)
  BY LenProperties, EmptySeq
<1>2. \A i \in 1 .. Len(t) - 1 : t[i] \in S
  BY <1>1
<1>3. /\ SubSeq(t, 1, Len(t) - 1) \in Seq(S)
      /\ Len(SubSeq(t, 1, Len(t) - 1)) = Len(t) - 1
      /\ \A i \in 1 .. Len(t) - 1 - 1 + 1 : SubSeq(t, 1, Len(t) - 1)[i] = t[1 + i - 1]
  <2>1. 1 \in Int /\ Len(t) - 1 \in Int /\ (~(1 <= Len(t) - 1) => Len(t) - 1 = 0)
    BY <1>1
  <2> QED BY <1>1, <1>2, <2>1, SubSeqProperties
<1>4. DOMAIN SubSeq(t, 1, Len(t) - 1) = 1 .. Len(t) - 1
  BY <1>3, LenProperties
<1> QED BY <1>1, <1>3, <1>4 DEF Front

LEMMA HeldType == \A o \in ItemSet : Held(o) \in 0 .. 2
BY DEF ItemSet, Held

LEMMA KindsApart ==
  /\ \A k \in ExprReaders : k \notin BlockKinds /\ k # "expr"
  /\ \A k \in StatementKinds : k \notin OperandKinds /\ k \notin LogicalKinds
  /\ \A k \in LogicalKinds : k \notin OperandKinds
  /\ "expr" \notin BlockKinds
  /\ Blocks \subseteq BlockKinds /\ ScopeKinds \subseteq Blocks /\ ListKinds \subseteq OperandKinds
BY DEF ExprReaders, StatementKinds, LogicalKinds, OperandKinds, ListKinds, BlockKinds, Blocks,
       ScopeKinds

LEMMA WeightType ==
  ASSUME NEW t \in Seq(ItemSet)
  PROVE  /\ \A i \in 1 .. Len(t) : Weights(t)[i] = Held(t[i]) /\ Weights(t)[i] \in Nat
         /\ \A i \in 1 .. Len(t) : /\ Opened(t)[i] = IF t[i].k \in ScopeKinds THEN 1 ELSE 0
                                   /\ Opened(t)[i] \in Nat
         /\ \A i \in 0 .. Len(t) : Upto(t, i) \in Nat /\ Total(Opened(t), i) \in Nat
<1>1. Len(t) \in Nat /\ DOMAIN t = 1 .. Len(t) /\ \A i \in 1 .. Len(t) : t[i] \in ItemSet
  BY LenProperties
<1>2. \A i \in 1 .. Len(t) : Weights(t)[i] = Held(t[i]) /\ Weights(t)[i] \in Nat
  BY <1>1, HeldType DEF Weights
<1>3. \A i \in 1 .. Len(t) : /\ Opened(t)[i] = IF t[i].k \in ScopeKinds THEN 1 ELSE 0
                             /\ Opened(t)[i] \in Nat
  BY <1>1 DEF Opened
<1>4. ASSUME NEW i \in 0 .. Len(t) PROVE Upto(t, i) \in Nat /\ Total(Opened(t), i) \in Nat
  <2>1. i \in Nat /\ \A j \in 1 .. i : j \in 1 .. Len(t)
    BY <1>1
  <2>2. \A j \in 1 .. i : Weights(t)[j] \in Nat /\ Opened(t)[j] \in Nat
    BY <1>2, <1>3, <2>1
  <2> QED BY <2>1, <2>2, TotalType DEF Upto
<1> QED BY <1>2, <1>3, <1>4

(* Constructs that hold the same operands and scopes are counted the same. *)
LEMMA UptoSame ==
  ASSUME NEW t \in Seq(ItemSet), NEW u \in Seq(ItemSet),
         NEW n \in 0 .. Len(t), n <= Len(u),
         \A i \in 1 .. n : Held(u[i]) = Held(t[i]) /\ u[i].k = t[i].k
  PROVE  \A i \in 0 .. n : /\ Upto(u, i) = Upto(t, i)
                           /\ Total(Opened(u), i) = Total(Opened(t), i)
<1>1. Len(t) \in Nat /\ Len(u) \in Nat
  BY LenProperties
<1>2. ASSUME NEW i \in 0 .. n
      PROVE  Upto(u, i) = Upto(t, i) /\ Total(Opened(u), i) = Total(Opened(t), i)
  <2>1. i \in Nat /\ \A j \in 1 .. i : j \in 1 .. n /\ j \in 1 .. Len(t) /\ j \in 1 .. Len(u)
    BY <1>1
  <2>2. ASSUME NEW j \in 1 .. i
        PROVE  Weights(u)[j] = Weights(t)[j] /\ Opened(u)[j] = Opened(t)[j]
    <3>1. j \in 1 .. n /\ j \in 1 .. Len(t) /\ j \in 1 .. Len(u)
      BY <2>1
    <3>2. Weights(u)[j] = Held(u[j]) /\ Opened(u)[j] = IF u[j].k \in ScopeKinds THEN 1 ELSE 0
      BY <3>1, WeightType
    <3>3. Weights(t)[j] = Held(t[j]) /\ Opened(t)[j] = IF t[j].k \in ScopeKinds THEN 1 ELSE 0
      BY <3>1, WeightType
    <3>4. Held(u[j]) = Held(t[j]) /\ u[j].k = t[j].k
      BY <3>1
    <3> QED BY <3>2, <3>3, <3>4
  <2> QED BY <2>1, <2>2, TotalSame DEF Upto
<1> QED BY <1>2

LEMMA UptoStep ==
  ASSUME NEW t \in Seq(ItemSet), NEW i \in 1 .. Len(t)
  PROVE  /\ Upto(t, i) = Upto(t, i - 1) + Held(t[i])
         /\ Total(Opened(t), i)
              = Total(Opened(t), i - 1) + IF t[i].k \in ScopeKinds THEN 1 ELSE 0
         /\ Upto(t, i) <= Upto(t, Len(t)) /\ Total(Opened(t), i) <= Total(Opened(t), Len(t))
<1>1. Len(t) \in Nat /\ i \in Nat \ {0} /\ i \in 0 .. Len(t)
      /\ \A j \in 1 .. i : j \in 1 .. Len(t)
  BY LenProperties
<1>2. \A j \in 1 .. Len(t) : Weights(t)[j] \in Nat /\ Opened(t)[j] \in Nat
  BY WeightType
<1>3. Total(Weights(t), i) = Total(Weights(t), i - 1) + Weights(t)[i]
  BY <1>1, <1>2, TotalStep
<1>4. Total(Opened(t), i) = Total(Opened(t), i - 1) + Opened(t)[i]
  BY <1>1, <1>2, TotalStep
<1>5. Total(Weights(t), i) <= Total(Weights(t), Len(t))
  BY <1>1, <1>2, TotalMonotonic
<1>6. Total(Opened(t), i) <= Total(Opened(t), Len(t))
  BY <1>1, <1>2, TotalMonotonic
<1> QED BY <1>3, <1>4, <1>5, <1>6, WeightType DEF Upto

Pushed(t, o, u) ==
  /\ t \in Seq(ItemSet) /\ Nested(t) /\ o \in ItemSet /\ Nests(t[Len(t)].k, o.k)
  /\ u = Append(t, o)
Swapped(t, o, u) ==
  /\ t \in Seq(ItemSet) /\ Nested(t) /\ o \in ItemSet /\ o.k = t[Len(t)].k
  /\ u = Append(Front(t), o)

LEMMA PushTodo ==
  ASSUME NEW t, NEW o, NEW u, Pushed(t, o, u)
  PROVE  /\ u \in Seq(ItemSet) /\ Len(u) = Len(t) + 1 /\ Len(t) \in Nat \ {0}
         /\ DOMAIN u = 1 .. Len(u) /\ DOMAIN t = 1 .. Len(t)
         /\ u[Len(u)] = o /\ \A i \in 1 .. Len(t) : u[i] = t[i]
         /\ Nested(u)
         /\ \A i \in 0 .. Len(t) : /\ Upto(u, i) = Upto(t, i)
                                   /\ Total(Opened(u), i) = Total(Opened(t), i)
         /\ Upto(u, Len(u)) = Upto(t, Len(t)) + Held(o)
         /\ Total(Opened(u), Len(u))
              = Total(Opened(t), Len(t)) + IF o.k \in ScopeKinds THEN 1 ELSE 0
<1>0. /\ t \in Seq(ItemSet) /\ Nested(t) /\ o \in ItemSet /\ Nests(t[Len(t)].k, o.k)
      /\ u = Append(t, o)
  BY DEF Pushed
<1>1. /\ u \in Seq(ItemSet) /\ Len(u) = Len(t) + 1 /\ Len(t) \in Nat
      /\ DOMAIN u = 1 .. Len(u) /\ DOMAIN t = 1 .. Len(t)
      /\ u[Len(u)] = o /\ \A i \in 1 .. Len(t) : u[i] = t[i]
  BY <1>0, AppendFacts
<1>2. Len(t) # 0
  BY <1>0, <1>1, EmptySeq DEF Nested
<1>3. Nested(u)
  <2>1. u # <<>> /\ u[1].k = "func"
    <3>1. u # <<>>
      BY <1>1, EmptySeq
    <3>2. 1 \in 1 .. Len(t)
      BY <1>1, <1>2
    <3> QED BY <3>1, <3>2, <1>0, <1>1 DEF Nested
  <2>2. ASSUME NEW i \in DOMAIN u, i > 1 PROVE Nests(u[i - 1].k, u[i].k)
    <3>1. CASE i = Len(u)
      <4>1. i - 1 = Len(t) /\ Len(t) \in 1 .. Len(t)
        BY <1>1, <1>2, <3>1
      <4>2. u[i - 1] = t[Len(t)] /\ u[i] = o
        BY <1>1, <3>1, <4>1
      <4> QED BY <1>0, <4>2
    <3>2. CASE i # Len(u)
      <4>1. i \in DOMAIN t /\ i - 1 \in 1 .. Len(t)
        BY <1>1, <2>2, <3>2
      <4> QED BY <4>1, <1>0, <1>1, <2>2 DEF Nested
    <3> QED BY <3>1, <3>2
  <2>3. ASSUME NEW i \in DOMAIN u, NEW j \in DOMAIN u, i < j,
               u[j].k \in StatementKinds \cup BlockKinds
        PROVE  u[i].k \in BlockKinds
    <3>1. i \in DOMAIN t /\ u[i] = t[i]
      BY <1>1, <2>3
    <3>2. CASE j # Len(u)
      <4>1. j \in DOMAIN t /\ u[j] = t[j]
        BY <1>1, <3>2
      <4> QED BY <3>1, <4>1, <1>0, <2>3 DEF Nested
    <3>3. CASE j = Len(u)
      <4>1. o.k \in StatementKinds \cup BlockKinds
        BY <1>1, <2>3, <3>3
      <4>2. t[Len(t)].k \in BlockKinds
        <5>1. o.k \notin OperandKinds /\ o.k \notin LogicalKinds /\ o.k # "expr"
          BY <4>1, KindsApart DEF BlockKinds, OperandKinds, ListKinds, LogicalKinds, StatementKinds
        <5> QED BY <1>0, <4>1, <5>1, KindsApart DEF Nests, BlockKinds
      <4>3. Len(t) \in DOMAIN t /\ i <= Len(t)
        BY <1>1, <1>2, <3>1
      <4> QED BY <3>1, <4>2, <4>3, <1>0, <1>1 DEF Nested
    <3> QED BY <3>2, <3>3
  <2> QED BY <2>1, <2>2, <1>0, <2>3 DEF Nested
<1>4. \A i \in 0 .. Len(t) : /\ Upto(u, i) = Upto(t, i)
                             /\ Total(Opened(u), i) = Total(Opened(t), i)
  <2>1. Len(t) \in 0 .. Len(t) /\ Len(t) <= Len(u)
        /\ \A i \in 1 .. Len(t) : Held(u[i]) = Held(t[i]) /\ u[i].k = t[i].k
    BY <1>1
  <2> QED BY <2>1, <1>0, <1>1, UptoSame
<1>5. /\ Upto(u, Len(u)) = Upto(u, Len(u) - 1) + Held(u[Len(u)])
      /\ Total(Opened(u), Len(u))
           = Total(Opened(u), Len(u) - 1) + IF u[Len(u)].k \in ScopeKinds THEN 1 ELSE 0
  <2>1. Len(u) \in 1 .. Len(u)
    BY <1>1
  <2> QED BY <1>0, <1>1, <2>1, UptoStep
<1>6. Len(u) - 1 = Len(t) /\ Len(t) \in 0 .. Len(t)
  BY <1>1
<1> QED BY <1>1, <1>2, <1>3, <1>4, <1>5, <1>6

LEMMA PopTodo ==
  ASSUME NEW t, NEW u, t \in Seq(ItemSet), Nested(t), t[Len(t)].k # "func", u = Front(t)
  PROVE  /\ u \in Seq(ItemSet) /\ Len(u) = Len(t) - 1 /\ Len(u) \in Nat \ {0}
         /\ DOMAIN u = 1 .. Len(u) /\ DOMAIN t = 1 .. Len(t) /\ t[Len(t)] \in ItemSet
         /\ \A i \in 1 .. Len(u) : u[i] = t[i]
         /\ Nested(u) /\ Nests(u[Len(u)].k, t[Len(t)].k) /\ u[Len(u)] \in ItemSet
         /\ \A i \in 0 .. Len(u) : /\ Upto(u, i) = Upto(t, i)
                                   /\ Total(Opened(u), i) = Total(Opened(t), i)
         /\ Upto(t, Len(t)) = Upto(u, Len(u)) + Held(t[Len(t)])
         /\ Total(Opened(t), Len(t))
              = Total(Opened(u), Len(u)) + IF t[Len(t)].k \in ScopeKinds THEN 1 ELSE 0
<1>1. /\ u \in Seq(ItemSet) /\ Len(u) = Len(t) - 1 /\ Len(t) \in Nat \ {0}
      /\ DOMAIN u = 1 .. Len(u) /\ DOMAIN t = 1 .. Len(t)
      /\ \A i \in 1 .. Len(u) : u[i] = t[i]
  BY FrontFacts DEF Nested
<1>2. Len(t) # 1
  BY DEF Nested
<1>3. Len(u) \in Nat \ {0} /\ Len(u) \in DOMAIN t /\ Len(t) \in DOMAIN t /\ 1 \in 1 .. Len(u)
  BY <1>1, <1>2
<1>4. Nested(u)
  <2>1. u # <<>> /\ u[1].k = "func"
    <3>1. u # <<>>
      BY <1>1, <1>3, EmptySeq
    <3> QED BY <3>1, <1>1, <1>3 DEF Nested
  <2>2. ASSUME NEW i \in DOMAIN u, i > 1 PROVE Nests(u[i - 1].k, u[i].k)
    <3>1. i \in DOMAIN t /\ i - 1 \in 1 .. Len(u) /\ i \in 1 .. Len(u)
      BY <1>1, <2>2
    <3> QED BY <3>1, <1>1, <2>2 DEF Nested
  <2>3. ASSUME NEW i \in DOMAIN u, NEW j \in DOMAIN u, i < j,
               u[j].k \in StatementKinds \cup BlockKinds
        PROVE  u[i].k \in BlockKinds
    <3>1. i \in DOMAIN t /\ j \in DOMAIN t /\ u[i] = t[i] /\ u[j] = t[j]
      BY <1>1
    <3> QED BY <3>1, <2>3 DEF Nested
  <2> QED BY <2>1, <2>2, <2>3 DEF Nested
<1>5. Nests(u[Len(u)].k, t[Len(t)].k)
  <2>1. Len(t) > 1 /\ Len(t) - 1 = Len(u) /\ u[Len(u)] = t[Len(u)]
    BY <1>1, <1>3
  <2> QED BY <2>1, <1>3 DEF Nested
<1>6. \A i \in 0 .. Len(u) : /\ Upto(u, i) = Upto(t, i)
                             /\ Total(Opened(u), i) = Total(Opened(t), i)
  <2>1. Len(u) \in 0 .. Len(t) /\ Len(u) <= Len(u)
        /\ \A i \in 1 .. Len(u) : Held(u[i]) = Held(t[i]) /\ u[i].k = t[i].k
    BY <1>1
  <2> QED BY <2>1, <1>1, UptoSame
<1>7. /\ Upto(t, Len(t)) = Upto(t, Len(t) - 1) + Held(t[Len(t)])
      /\ Total(Opened(t), Len(t))
           = Total(Opened(t), Len(t) - 1) + IF t[Len(t)].k \in ScopeKinds THEN 1 ELSE 0
  <2>1. Len(t) \in 1 .. Len(t)
    BY <1>1
  <2> QED BY <2>1, UptoStep
<1>8. Len(t) - 1 = Len(u) /\ Len(u) \in 0 .. Len(u)
  BY <1>1, <1>3
<1>9. t[Len(t)] \in ItemSet /\ u[Len(u)] \in ItemSet
  BY <1>1, <1>3, LenProperties
<1> QED BY <1>1, <1>3, <1>4, <1>5, <1>6, <1>7, <1>8, <1>9

(* The innermost construct changes but stays of its kind. *)
LEMMA SwapTodo ==
  ASSUME NEW t, NEW o, NEW u, Swapped(t, o, u)
  PROVE  /\ u \in Seq(ItemSet) /\ Len(u) = Len(t) /\ Len(t) \in Nat \ {0}
         /\ DOMAIN u = 1 .. Len(t) /\ DOMAIN t = 1 .. Len(t)
         /\ u[Len(t)] = o /\ \A i \in 1 .. Len(t) - 1 : u[i] = t[i]
         /\ Nested(u)
         /\ \A i \in 0 .. Len(t) - 1 : /\ Upto(u, i) = Upto(t, i)
                                       /\ Total(Opened(u), i) = Total(Opened(t), i)
         /\ Upto(u, Len(t)) + Held(t[Len(t)]) = Upto(t, Len(t)) + Held(o)
         /\ Total(Opened(u), Len(t)) = Total(Opened(t), Len(t))
<1>0. /\ t \in Seq(ItemSet) /\ Nested(t) /\ o \in ItemSet /\ o.k = t[Len(t)].k
      /\ u = Append(Front(t), o)
  BY DEF Swapped
<1>1. /\ u \in Seq(ItemSet) /\ Len(u) = Len(t) /\ Len(t) \in Nat \ {0}
      /\ DOMAIN u = 1 .. Len(t) /\ DOMAIN t = 1 .. Len(t)
      /\ u[Len(t)] = o /\ \A i \in 1 .. Len(t) - 1 : u[i] = t[i]
  <2>1. /\ Front(t) \in Seq(ItemSet) /\ Len(Front(t)) = Len(t) - 1 /\ Len(t) \in Nat \ {0}
        /\ DOMAIN t = 1 .. Len(t) /\ \A i \in 1 .. Len(t) - 1 : Front(t)[i] = t[i]
    BY <1>0, FrontFacts DEF Nested
  <2>2. /\ u \in Seq(ItemSet) /\ Len(u) = Len(Front(t)) + 1 /\ DOMAIN u = 1 .. Len(Front(t)) + 1
        /\ \A i \in 1 .. Len(Front(t)) : u[i] = Front(t)[i]
        /\ u[Len(Front(t)) + 1] = o
    BY <1>0, <2>1, AppendFacts
  <2>3. Len(t) - 1 + 1 = Len(t)
    BY <2>1
  <2> QED BY <2>1, <2>2, <2>3
<1>2. \A i \in 1 .. Len(t) : u[i].k = t[i].k
  BY <1>0, <1>1
<1>3. Nested(u)
  <2>1. u # <<>> /\ u[1].k = "func"
    <3>1. u # <<>>
      BY <1>1, EmptySeq
    <3> QED BY <3>1, <1>1, <1>0, <1>2 DEF Nested
  <2>2. ASSUME NEW i \in DOMAIN u, i > 1 PROVE Nests(u[i - 1].k, u[i].k)
    <3>1. i \in DOMAIN t /\ i - 1 \in 1 .. Len(t) /\ i \in 1 .. Len(t)
      BY <1>1, <2>2
    <3> QED BY <3>1, <1>2, <1>0, <2>2 DEF Nested
  <2>3. ASSUME NEW i \in DOMAIN u, NEW j \in DOMAIN u, i < j,
               u[j].k \in StatementKinds \cup BlockKinds
        PROVE  u[i].k \in BlockKinds
    <3>1. i \in DOMAIN t /\ j \in DOMAIN t /\ u[i].k = t[i].k /\ u[j].k = t[j].k
      BY <1>1, <1>2
    <3> QED BY <3>1, <1>0, <2>3 DEF Nested
  <2> QED BY <2>1, <2>2, <1>0, <2>3 DEF Nested
<1>4. \A i \in 0 .. Len(t) - 1 : /\ Upto(u, i) = Upto(t, i)
                                 /\ Total(Opened(u), i) = Total(Opened(t), i)
  <2>1. Len(t) - 1 \in 0 .. Len(t) /\ Len(t) - 1 <= Len(u)
        /\ \A i \in 1 .. Len(t) - 1 : Held(u[i]) = Held(t[i]) /\ u[i].k = t[i].k
    BY <1>1
  <2> QED BY <2>1, <1>0, <1>1, UptoSame
<1>5. /\ Upto(t, Len(t)) = Upto(t, Len(t) - 1) + Held(t[Len(t)])
      /\ Upto(u, Len(t)) = Upto(u, Len(t) - 1) + Held(u[Len(t)])
      /\ Total(Opened(t), Len(t))
           = Total(Opened(t), Len(t) - 1) + IF t[Len(t)].k \in ScopeKinds THEN 1 ELSE 0
      /\ Total(Opened(u), Len(t))
           = Total(Opened(u), Len(t) - 1) + IF u[Len(t)].k \in ScopeKinds THEN 1 ELSE 0
  <2>1. Len(t) \in 1 .. Len(t) /\ Len(t) \in 1 .. Len(u)
    BY <1>1
  <2> QED BY <2>1, <1>0, <1>1, UptoStep
<1>6. Len(t) - 1 \in 0 .. Len(t) - 1
  BY <1>1
<1>7. Held(o) \in Int /\ Held(t[Len(t)]) \in Int /\ Upto(t, Len(t) - 1) \in Int
  <2>1. t[Len(t)] \in ItemSet
    BY <1>0, <1>1, LenProperties
  <2>2. Len(t) - 1 \in 0 .. Len(t)
    BY <1>1
  <2> QED BY <1>0, <2>1, <2>2, HeldType, WeightType
<1>8. Upto(u, Len(t)) + Held(t[Len(t)]) = Upto(t, Len(t)) + Held(o)
  BY <1>1, <1>4, <1>5, <1>6, <1>7
<1> QED BY <1>0, <1>1, <1>3, <1>4, <1>5, <1>8

-----------------------------------------------------------------------------
(* The register allocator's operations.                                    *)

LEMMA LowestIn ==
  ASSUME NEW R \in SUBSET Reg, R # {}
  PROVE  Lowest(R) \in R
<1>1. R \in SUBSET Nat
  BY NumRegsAssumption DEF Reg
<1>2. \E k \in R : \A l \in R : <<l, k>> \notin OpToRel(<, Nat)
  BY <1>1, NatLessThanWellFounded, WFMin, Zenon
<1>3. PICK k \in R : \A l \in R : <<l, k>> \notin OpToRel(<, Nat)
  BY <1>2
<1>4. \A a, b \in Nat : <<a, b>> \in OpToRel(<, Nat) <=> a < b
  BY DEF OpToRel
<1>5. \A l \in R : k <= l
  <2>1. SUFFICES ASSUME NEW l \in R PROVE k <= l
    OBVIOUS
  <2>2. k \in Nat /\ l \in Nat
    BY <1>1
  <2>3. ~(l < k)
    BY <1>3, <1>4, <2>2
  <2> QED BY <2>2, <2>3
<1> QED BY <1>5 DEF Lowest

(* A state of the allocator is the record of its parts. *)
LEMMA RegStateFacts ==
  ASSUME NEW q \in RegState
  PROVE  /\ q.rstack \in Seq(Reg) /\ q.used \in SUBSET Reg /\ q.pinned \in SUBSET Reg
         /\ q.cache \in Seq(Reg) /\ q.full \in BOOLEAN /\ q.sound \in BOOLEAN
         /\ Len(q.rstack) \in Nat /\ DOMAIN q.rstack = 1 .. Len(q.rstack)
         /\ \A i \in 1 .. Len(q.rstack) : q.rstack[i] \in Reg
         /\ Len(q.cache) \in Nat /\ DOMAIN q.cache = 1 .. Len(q.cache)
         /\ \A l \in DOMAIN q.cache : q.cache[l] \in Reg
<1>1. /\ q.rstack \in Seq(Reg) /\ q.used \in SUBSET Reg /\ q.pinned \in SUBSET Reg
      /\ q.cache \in Seq(Reg) /\ q.full \in BOOLEAN /\ q.sound \in BOOLEAN
  BY DEF RegState
<1> QED BY <1>1, LenProperties

LEMMA RegZero == 0 \in Reg /\ NoReg \in Reg
BY NumRegsAssumption DEF Reg, NoReg

LEMMA PushRegFacts ==
  ASSUME NEW q, NEW d, NEW r, q \in RegState, d \in Reg, r = PushReg(q, d)
  PROVE  /\ r \in RegState
         /\ r.rstack = Append(q.rstack, d) /\ r.used = q.used \cup {d} /\ r.pinned = q.pinned
         /\ r.cache = q.cache /\ r.full = q.full /\ r.sound = q.sound
         /\ Len(r.rstack) = Len(q.rstack) + 1 /\ LastReg(r) = d
         /\ \A i \in 1 .. Len(q.rstack) : r.rstack[i] = q.rstack[i]
<1>1. /\ r.rstack = Append(q.rstack, d) /\ r.used = q.used \cup {d} /\ r.pinned = q.pinned
      /\ r.cache = q.cache /\ r.full = q.full /\ r.sound = q.sound
  BY DEF PushReg, RegState
<1>2. Append(q.rstack, d) \in Seq(Reg)
  BY RegStateFacts, AppendFacts
<1>3. r \in RegState
  BY <1>2 DEF PushReg, RegState
<1> QED BY <1>1, <1>3, RegStateFacts, AppendFacts DEF LastReg

(* A new register was free, or there is none. *)
LEMMA NewRegFacts ==
  ASSUME NEW q \in RegState, NEW r, r = NewReg(q)
  PROVE  /\ r \in RegState
         /\ ~q.full /\ ~r.full =>
              /\ LastReg(r) \in Reg \ q.used /\ r = PushReg(q, LastReg(r)) /\ Dest(r) = LastReg(r)
         /\ r.full /\ ~q.full => r = [q EXCEPT !.full = TRUE]
         /\ q.full => r.full
         /\ Dest(r) \in Reg
<1>1. CASE Len(q.rstack) < NumRegs /\ q.used # Reg
  <2>1. Lowest(Reg \ q.used) \in Reg \ q.used
    <3>1. Reg \ q.used # {} /\ Reg \ q.used \in SUBSET Reg
      BY <1>1, RegStateFacts
    <3> QED BY <3>1, LowestIn
  <2>2. r = PushReg(q, Lowest(Reg \ q.used))
    BY <1>1 DEF NewReg
  <2>3. r \in RegState /\ LastReg(r) = Lowest(Reg \ q.used) /\ r.full = q.full
    BY <2>1, <2>2, PushRegFacts
  <2>4. Dest(r) \in Reg
    BY <2>1, <2>3, RegZero DEF Dest
  <2>5. ~q.full /\ ~r.full =>
          LastReg(r) \in Reg \ q.used /\ r = PushReg(q, LastReg(r)) /\ Dest(r) = LastReg(r)
    BY <2>1, <2>2, <2>3 DEF Dest
  <2> QED BY <2>1, <2>2, <2>3, <2>4, <2>5
<1>2. CASE ~(Len(q.rstack) < NumRegs /\ q.used # Reg)
  <2>1. r = [q EXCEPT !.full = TRUE]
    BY <1>2 DEF NewReg
  <2>2. r \in RegState /\ r.full
    BY <2>1 DEF RegState
  <2> QED BY <2>1, <2>2, RegZero DEF Dest
<1> QED BY <1>1, <1>2

LEMMA LastRegIn ==
  ASSUME NEW q \in RegState, Len(q.rstack) > 0
  PROVE  LastReg(q) \in Reg /\ q.rstack # <<>>
<1>1. Len(q.rstack) \in 1 .. Len(q.rstack)
  BY RegStateFacts
<1> QED BY <1>1, RegStateFacts, EmptySeq DEF LastReg

LEMMA SetUnusedFacts ==
  ASSUME NEW q, NEW d, NEW r, q \in RegState, d \in Reg, r = SetUnused(q, d)
  PROVE  /\ r \in RegState
         /\ r.rstack = q.rstack /\ r.pinned = q.pinned /\ r.cache = q.cache /\ r.full = q.full
         /\ d \in q.pinned => r.used = q.used /\ r.sound = q.sound
         /\ d \notin q.pinned => r.used = q.used \ {d} /\ (q.sound /\ d \in q.used => r.sound)
BY DEF SetUnused, RegState

LEMMA PopRegFacts ==
  ASSUME NEW q \in RegState, Len(q.rstack) > 0, NEW r, r = PopReg(q)
  PROVE  /\ r \in RegState
         /\ r.rstack = Front(q.rstack) /\ Len(r.rstack) = Len(q.rstack) - 1
         /\ \A i \in 1 .. Len(q.rstack) - 1 : r.rstack[i] = q.rstack[i]
         /\ r.pinned = q.pinned /\ r.cache = q.cache /\ r.full = q.full
         /\ LastReg(q) \in q.pinned => r.used = q.used /\ r.sound = q.sound
         /\ LastReg(q) \notin q.pinned =>
              r.used = q.used \ {LastReg(q)} /\ (q.sound /\ LastReg(q) \in q.used => r.sound)
<1>1. PICK f : f = [q EXCEPT !.rstack = Front(@)]
  OBVIOUS
<1>2. LastReg(q) \in Reg /\ q.rstack # <<>>
  BY LastRegIn
<1>3. /\ Front(q.rstack) \in Seq(Reg) /\ Len(Front(q.rstack)) = Len(q.rstack) - 1
      /\ \A i \in 1 .. Len(q.rstack) - 1 : Front(q.rstack)[i] = q.rstack[i]
  BY <1>2, RegStateFacts, FrontFacts
<1>4. /\ f \in RegState /\ f.rstack = Front(q.rstack) /\ f.used = q.used /\ f.pinned = q.pinned
      /\ f.cache = q.cache /\ f.full = q.full /\ f.sound = q.sound
  BY <1>1, <1>3 DEF RegState
<1>5. r = SetUnused(f, LastReg(q))
  BY <1>1 DEF PopReg
<1> QED BY <1>2, <1>3, <1>4, <1>5, SetUnusedFacts

LEMMA SwapTopFacts ==
  ASSUME NEW q \in RegState, Len(q.rstack) > 1, NEW r, r = SwapTop(q)
  PROVE  /\ r \in RegState /\ Len(r.rstack) = Len(q.rstack)
         /\ r.used = q.used /\ r.pinned = q.pinned /\ r.cache = q.cache /\ r.full = q.full
         /\ r.sound = q.sound
         /\ \A i \in 1 .. Len(q.rstack) :
              r.rstack[i] = IF i = Len(q.rstack) THEN q.rstack[Len(q.rstack) - 1]
                            ELSE IF i = Len(q.rstack) - 1 THEN q.rstack[Len(q.rstack)]
                            ELSE q.rstack[i]
<1>1. PICK n : n = Len(q.rstack)
  OBVIOUS
<1>2. n \in 1 .. Len(q.rstack) /\ n - 1 \in 1 .. Len(q.rstack) /\ n \in Nat
  BY <1>1, RegStateFacts
<1>3. PICK a : a = [q.rstack EXCEPT ![n] = q.rstack[n - 1]]
  OBVIOUS
<1>4. PICK b : b = [a EXCEPT ![n - 1] = q.rstack[n]]
  OBVIOUS
<1>5. q.rstack[n] \in Reg /\ q.rstack[n - 1] \in Reg /\ q.rstack \in Seq(Reg)
  BY <1>2, RegStateFacts
<1>6. /\ a \in Seq(Reg) /\ Len(a) = Len(q.rstack)
      /\ \A i \in 1 .. Len(q.rstack) : a[i] = IF i = n THEN q.rstack[n - 1] ELSE q.rstack[i]
  BY <1>2, <1>3, <1>5, ExceptSeq
<1>7. /\ b \in Seq(Reg) /\ Len(b) = Len(q.rstack)
      /\ \A i \in 1 .. Len(q.rstack) : b[i] = IF i = n - 1 THEN q.rstack[n] ELSE a[i]
  <2>1. n - 1 \in 1 .. Len(a)
    BY <1>2, <1>6
  <2> QED BY <2>1, <1>4, <1>5, <1>6, ExceptSeq
<1>8. r = [q EXCEPT !.rstack = b]
  BY <1>1, <1>3, <1>4 DEF SwapTop, RegState
<1> QED BY <1>1, <1>2, <1>6, <1>7, <1>8 DEF RegState

LEMMA TakeTopFacts ==
  ASSUME NEW q \in RegState, Len(q.rstack) > 0, NEW r, r = TakeTop(q)
  PROVE  /\ r \in RegState /\ Len(r.rstack) = Len(q.rstack) - 1 /\ LastReg(q) \in Reg
         /\ \A i \in 1 .. Len(q.rstack) - 1 : r.rstack[i] = q.rstack[i]
         /\ r.used = q.used /\ r.pinned = q.pinned \cup {LastReg(q)} /\ r.cache = q.cache
         /\ r.full = q.full /\ r.sound = q.sound
         /\ TopOwned(q) = [reg |-> LastReg(q), owned |-> LastReg(q) \notin q.pinned]
<1>1. LastReg(q) \in Reg /\ q.rstack # <<>>
  BY LastRegIn
<1>2. /\ Front(q.rstack) \in Seq(Reg) /\ Len(Front(q.rstack)) = Len(q.rstack) - 1
      /\ \A i \in 1 .. Len(q.rstack) - 1 : Front(q.rstack)[i] = q.rstack[i]
  BY <1>1, RegStateFacts, FrontFacts
<1> QED BY <1>1, <1>2 DEF TakeTop, TopOwned, RegState

LEMMA FlushFacts ==
  ASSUME NEW q \in RegState, NEW r, r = FlushCached(q)
  PROVE  /\ r \in RegState /\ r.rstack = q.rstack /\ r.used = q.used /\ r.full = q.full
         /\ r.sound = q.sound /\ r.pinned = {} /\ Len(r.cache) = Len(q.cache)
         /\ \A l \in DOMAIN r.cache : r.cache[l] = NoReg
<1>1. PICK c : c = [l \in DOMAIN q.cache |-> NoReg]
  OBVIOUS
<1>2. Len(q.cache) \in Nat /\ DOMAIN q.cache = 1 .. Len(q.cache)
  BY RegStateFacts
<1>3. c \in [1 .. Len(q.cache) -> Reg]
  BY <1>1, <1>2, RegZero
<1>4. c \in Seq(Reg) /\ Len(c) = Len(q.cache)
  BY <1>2, <1>3
<1>5. r = [q EXCEPT !.cache = c, !.pinned = {}]
  BY <1>1 DEF FlushCached
<1>6. /\ r \in RegState /\ r.rstack = q.rstack /\ r.used = q.used /\ r.full = q.full
      /\ r.sound = q.sound /\ r.pinned = {} /\ r.cache = c
  BY <1>4, <1>5 DEF RegState
<1> QED BY <1>1, <1>4, <1>6

LEMMA FlushFreeFacts ==
  ASSUME NEW q \in RegState, NEW r, r = FlushFree(q)
  PROVE  /\ r \in RegState /\ r.rstack = <<>> /\ Len(r.rstack) = 0 /\ r.used = q.pinned
         /\ r.pinned = q.pinned /\ r.cache = q.cache /\ r.full = q.full /\ r.sound = q.sound
BY EmptySeq DEF FlushFree, RegState

LEMMA ReleaseFacts ==
  ASSUME NEW q \in RegState, NEW os, NEW r, r = ReleaseAll(q, os)
  PROVE  /\ r \in RegState /\ r.rstack = q.rstack /\ r.cache = q.cache /\ r.full = q.full
         /\ r.sound = q.sound
         /\ r.used = q.used \ OwnedRegs(os) /\ r.pinned = q.pinned \ OwnedRegs(os)
BY DEF ReleaseAll, Release, RegState

LEMMA SetAllUnusedFacts ==
  ASSUME NEW q \in RegState, NEW os, NEW r, r = SetAllUnused(q, os)
  PROVE  /\ r \in RegState /\ r.rstack = q.rstack /\ r.cache = q.cache /\ r.full = q.full
         /\ r.pinned = q.pinned
         /\ r.used = q.used \ ({o.reg : o \in Range(os)} \ q.pinned)
         /\ /\ q.sound
            /\ {o.reg : o \in Range(os)} \ q.pinned \subseteq q.used
            /\ \A i, j \in DOMAIN os : os[i].reg = os[j].reg /\ os[i].reg \notin q.pinned => i = j
            => r.sound
<1>1. PICK R : R = {o.reg : o \in Range(os)} \ q.pinned
  OBVIOUS
<1>2. PICK once \in BOOLEAN :
        once = \A i, j \in DOMAIN os : os[i].reg = os[j].reg /\ os[i].reg \in R => i = j
  OBVIOUS
<1>3. r = [q EXCEPT !.sound = @ /\ R \subseteq q.used /\ once, !.used = @ \ R]
  BY <1>1, <1>2 DEF SetAllUnused
<1>4. (q.sound /\ R \subseteq q.used /\ once) \in BOOLEAN
  OBVIOUS
<1>5. /\ r \in RegState /\ r.rstack = q.rstack /\ r.cache = q.cache /\ r.full = q.full
      /\ r.pinned = q.pinned /\ r.used = q.used \ R
      /\ r.sound = (q.sound /\ R \subseteq q.used /\ once)
  BY <1>3, <1>4 DEF RegState
<1> QED BY <1>1, <1>2, <1>5

(* What the cache says of a local that it has no place for yet is that of a   *)
(* place without a register. *)
LEMMA GrownFacts ==
  ASSUME NEW q, NEW l, NEW r, q \in RegState, l \in Nat, r = Grown(q, l)
  PROVE  /\ r \in RegState /\ r.rstack = q.rstack /\ r.used = q.used /\ r.pinned = q.pinned
         /\ r.full = q.full /\ r.sound = q.sound
         /\ l < Len(r.cache) /\ Len(q.cache) <= Len(r.cache) /\ DOMAIN r.cache = 1 .. Len(r.cache)
         /\ \A k \in DOMAIN r.cache :
              r.cache[k] = IF k <= Len(q.cache) THEN q.cache[k] ELSE NoReg
         /\ Cached(r) = Cached(q) /\ CachedReg(r, l) = CachedReg(q, l)
<1>0. Len(q.cache) \in Nat /\ DOMAIN q.cache = 1 .. Len(q.cache)
  BY RegStateFacts
<1>1. CASE l < Len(q.cache)
  BY <1>0, <1>1 DEF Grown
<1>2. CASE ~(l < Len(q.cache))
  <2>1. PICK c : c = [i \in 1 .. l + 1 |-> IF i <= Len(q.cache) THEN q.cache[i] ELSE NoReg]
    OBVIOUS
  <2>2. c \in [1 .. l + 1 -> Reg]
    BY <2>1, <1>0, RegZero, RegStateFacts
  <2>3. c \in Seq(Reg) /\ Len(c) = l + 1 /\ DOMAIN c = 1 .. l + 1
    <3>1. l + 1 \in Nat
      OBVIOUS
    <3> QED BY <2>2, <3>1
  <2>4. r = [q EXCEPT !.cache = c]
    BY <1>2, <2>1 DEF Grown
  <2>5. /\ r \in RegState /\ r.rstack = q.rstack /\ r.used = q.used /\ r.pinned = q.pinned
        /\ r.full = q.full /\ r.sound = q.sound /\ r.cache = c
    BY <2>3, <2>4 DEF RegState
  <2>6. Cached(r) = Cached(q)
    <3>1. ASSUME NEW d PROVE d \in Cached(r) <=> d \in Cached(q)
      <4>1. ASSUME d \in Cached(r) PROVE d \in Cached(q)
        <5>1. PICK k \in 1 .. l + 1 : d = c[k] /\ d # NoReg
          BY <4>1, <2>3, <2>5 DEF Cached
        <5>2. k \in DOMAIN q.cache /\ d = q.cache[k]
          BY <5>1, <2>1, <1>0
        <5> QED BY <5>1, <5>2 DEF Cached
      <4>2. ASSUME d \in Cached(q) PROVE d \in Cached(r)
        <5>1. PICK k \in DOMAIN q.cache : d = q.cache[k] /\ d # NoReg
          BY <4>2 DEF Cached
        <5>2. k \in 1 .. l + 1 /\ c[k] = d
          BY <5>1, <2>1, <1>0, <1>2
        <5> QED BY <5>1, <5>2, <2>3, <2>5 DEF Cached
      <4> QED BY <4>1, <4>2
    <3> QED BY <3>1
  <2>7. CachedReg(r, l) = CachedReg(q, l)
    BY <1>0, <1>2, <2>1, <2>3, <2>5 DEF CachedReg
  <2> QED BY <1>0, <1>2, <2>1, <2>3, <2>5, <2>6, <2>7
<1> QED BY <1>1, <1>2

Stores(q, l, d, r) == q \in RegState /\ l \in Nat /\ d \in Reg /\ r = CacheStored(q, l, d)

LEMMA CacheStoredFacts ==
  ASSUME NEW q, NEW l, NEW d, NEW r, Stores(q, l, d, r)
  PROVE  /\ r \in RegState /\ r.rstack = q.rstack /\ r.used = q.used /\ r.full = q.full
         /\ r.sound = q.sound
         /\ ~(l < Len(q.cache)) => r = q
         /\ l < Len(q.cache) =>
              /\ l + 1 \in DOMAIN q.cache
              /\ \A k \in DOMAIN q.cache : r.cache[k] = IF k = l + 1 THEN d ELSE q.cache[k]
              /\ r.pinned = (q.pinned \ {q.cache[l + 1]}) \cup {d}
              /\ Len(r.cache) = Len(q.cache)
<1>s. q \in RegState /\ l \in Nat /\ d \in Reg /\ r = CacheStored(q, l, d)
  BY DEF Stores
<1>0. Len(q.cache) \in Nat /\ DOMAIN q.cache = 1 .. Len(q.cache) /\ q.cache \in Seq(Reg)
  BY <1>s, RegStateFacts
<1>1. CASE l < Len(q.cache)
  <2>1. l + 1 \in 1 .. Len(q.cache)
    BY <1>s, <1>0, <1>1
  <2>2. PICK c : c = [q.cache EXCEPT ![l + 1] = d]
    OBVIOUS
  <2>3. PICK P : P = (q.pinned \ {q.cache[l + 1]}) \cup {d}
    OBVIOUS
  <2>4. /\ c \in Seq(Reg) /\ Len(c) = Len(q.cache) /\ P \in SUBSET Reg
        /\ \A k \in DOMAIN q.cache : c[k] = IF k = l + 1 THEN d ELSE q.cache[k]
    BY <1>s, <1>0, <2>1, <2>2, <2>3, ExceptSeq, RegStateFacts
  <2>5. r = [q EXCEPT !.cache = c, !.pinned = P]
    BY <1>s, <1>1, <2>2, <2>3 DEF CacheStored, RegState
  <2>6. /\ r \in RegState /\ r.rstack = q.rstack /\ r.used = q.used /\ r.full = q.full
        /\ r.sound = q.sound /\ r.cache = c /\ r.pinned = P
    BY <1>s, <2>4, <2>5 DEF RegState
  <2> QED BY <1>s, <1>0, <1>1, <2>1, <2>2, <2>3, <2>4, <2>6
<1>2. CASE ~(l < Len(q.cache))
  BY <1>s, <1>2 DEF CacheStored, RegState
<1> QED BY <1>1, <1>2

Collapses(q, n, f, r) ==
  /\ q \in RegState /\ ~q.full /\ Len(q.rstack) > 2 /\ n = Len(q.rstack) /\ r = Collapse(q)
  /\ f = SetUnused(SetUnused(q, q.rstack[n - 2]), q.rstack[n - 1])

LEMMA CollapseFacts ==
  ASSUME NEW q, NEW n, NEW r, NEW f, Collapses(q, n, f, r)
  PROVE  /\ r \in RegState /\ Len(r.rstack) = n - 2
         /\ r.used = f.used /\ r.pinned = q.pinned /\ r.cache = q.cache /\ ~r.full
         /\ r.sound = f.sound /\ f \in RegState
         /\ r.rstack[n - 2] = q.rstack[n]
         /\ \A i \in 1 .. n - 3 : r.rstack[i] = q.rstack[i]
<1>0. /\ q \in RegState /\ ~q.full /\ Len(q.rstack) > 2 /\ n = Len(q.rstack) /\ r = Collapse(q)
      /\ f = SetUnused(SetUnused(q, q.rstack[n - 2]), q.rstack[n - 1])
  BY DEF Collapses
<1>1. n \in Nat /\ n \in 1 .. n /\ n - 1 \in 1 .. n /\ n - 2 \in 1 .. n /\ q.rstack \in Seq(Reg)
      /\ q.rstack[n] \in Reg /\ q.rstack[n - 1] \in Reg /\ q.rstack[n - 2] \in Reg
  <2>1. /\ q.rstack \in Seq(Reg) /\ Len(q.rstack) \in Nat
        /\ \A i \in 1 .. Len(q.rstack) : q.rstack[i] \in Reg
    BY <1>0, RegStateFacts
  <2>2. n \in Nat /\ n \in 1 .. n /\ n - 1 \in 1 .. n /\ n - 2 \in 1 .. n
    BY ONLY <1>0, <2>1
  <2>3. \A i \in 1 .. n : q.rstack[i] \in Reg
    BY ONLY <1>0, <2>1
  <2> QED BY ONLY <2>1, <2>2, <2>3
<1>2. /\ f \in RegState /\ f.rstack = q.rstack /\ f.pinned = q.pinned /\ f.cache = q.cache
      /\ f.full = q.full
  <2>1. PICK d \in Reg : d = q.rstack[n - 2]
    BY <1>1
  <2>2. PICK e \in Reg : e = q.rstack[n - 1]
    BY <1>1
  <2>3. PICK g : g = SetUnused(q, d)
    OBVIOUS
  <2>4. g \in RegState /\ g.rstack = q.rstack /\ g.pinned = q.pinned /\ g.cache = q.cache
        /\ g.full = q.full
    BY <1>0, <2>3, SetUnusedFacts
  <2>5. f = SetUnused(g, e)
    BY <1>0, <2>1, <2>2, <2>3
  <2> QED BY <2>4, <2>5, SetUnusedFacts
<1>3. PICK b : b = SubSeq(q.rstack, 1, n - 3)
  OBVIOUS
<1>4. b \in Seq(Reg) /\ Len(b) = n - 3 /\ \A i \in 1 .. n - 3 : b[i] = q.rstack[i]
  <2>1. \A i \in 1 .. n - 3 : q.rstack[i] \in Reg
    BY <1>0, <1>1, RegStateFacts
  <2>2. n \in Nat /\ n - 3 \in Nat
    BY <1>0, <1>1
  <2>3. /\ b \in Seq(Reg) /\ Len(b) = IF 1 <= n - 3 THEN n - 3 - 1 + 1 ELSE 0
        /\ \A i \in 1 .. n - 3 - 1 + 1 : b[i] = q.rstack[1 + i - 1]
    <3>1. /\ SubSeq(q.rstack, 1, n - 3) \in Seq(Reg)
          /\ Len(SubSeq(q.rstack, 1, n - 3)) = IF 1 <= n - 3 THEN n - 3 - 1 + 1 ELSE 0
          /\ \A i \in 1 .. n - 3 - 1 + 1 : SubSeq(q.rstack, 1, n - 3)[i] = q.rstack[1 + i - 1]
      BY <2>1, <2>2, SubSeqProperties
    <3> QED BY <1>3, <3>1
  <2> QED BY <2>2, <2>3, <1>1
<1>5. PICK c : c = Append(b, q.rstack[n])
  OBVIOUS
<1>6. c \in Seq(Reg) /\ Len(c) = n - 2 /\ c[n - 2] = q.rstack[n]
      /\ \A i \in 1 .. n - 3 : c[i] = q.rstack[i]
  <2>1. /\ c \in Seq(Reg) /\ Len(c) = Len(b) + 1 /\ c[Len(b) + 1] = q.rstack[n]
        /\ \A i \in 1 .. Len(b) : c[i] = b[i]
    BY <1>1, <1>4, <1>5, AppendFacts
  <2>2. n - 3 + 1 = n - 2
    BY <1>1
  <2> QED BY <2>1, <2>2, <1>4
<1>7. r = [f EXCEPT !.rstack = c]
  BY <1>0, <1>2, <1>3, <1>5 DEF Collapse, LastReg
<1>8. /\ r \in RegState /\ r.rstack = c /\ r.used = f.used /\ r.pinned = f.pinned
      /\ r.cache = f.cache /\ r.full = f.full /\ r.sound = f.sound
  <2>1. f \in RegState /\ c \in Seq(Reg)
    BY <1>2, <1>6
  <2> QED BY ONLY <1>7, <2>1 DEF RegState
<1> QED BY ONLY <1>0, <1>2, <1>6, <1>8

-----------------------------------------------------------------------------
(* Values, and the operations on an execution.                             *)

LEMMA ValueFacts ==
  /\ 0 \in Val /\ 1 \in Val /\ Val \subseteq SVal /\ Unknown \in SVal /\ Unknown \notin Val
  /\ \A a, b \in Val : Mix(a, b) \in Val /\ FieldOp(a, b) \in Val
  /\ \A a, b \in SVal : Mix(a, b) \in SVal /\ FieldOp(a, b) \in SVal
  /\ \A a \in Val : Not(a) \in Val /\ Truth(a) \in Val
  /\ \A a \in SVal : Not(a) \in SVal /\ Truth(a) \in SVal
BY DEF Val, SVal, Unknown, Mix, FieldOp, Commuting, Not, Truth

LEMMA LabelFacts ==
  /\ Run \in Label /\ Stop \in Label /\ Run # Stop
  /\ \A n \in Nat : /\ ElseOf(n) \in Label /\ EndOf(n) \in Label /\ ElseOf(n) # EndOf(n)
                    /\ ElseOf(n) \notin {Run, Stop} /\ EndOf(n) \notin {Run, Stop}
  /\ \A n, k \in Nat : (ElseOf(n) = ElseOf(k) => n = k) /\ (EndOf(n) = EndOf(k) => n = k)
                       /\ ElseOf(n) # EndOf(k)
  /\ \A n \in Nat : /\ ElseOf(n).pos = n /\ EndOf(n).pos = n
                    /\ ElseOf(n).to = "else" /\ EndOf(n).to = "end"
BY DEF Run, Stop, ElseOf, EndOf, Label

LEMMA PutFacts ==
  ASSUME NEW e, NEW d, NEW v, NEW f, e \in Machine, d \in Reg, v \in Val, f = Put(e, d, v)
  PROVE  /\ f \in Machine /\ f.at = e.at /\ f.ret = e.ret /\ f.field = e.field
         /\ f.locals = e.locals
         /\ ~Running(e) => f = e
         /\ Running(e) => f.regs[d] = v /\ \A r \in Reg \ {d} : f.regs[r] = e.regs[r]
BY DEF Put, Machine

LEMMA PutLocalFacts ==
  ASSUME NEW e, NEW l, NEW v, NEW f, e \in Machine, l \in 0 .. MaxLocals - 1, v \in Val,
         f = PutLocal(e, l, v)
  PROVE  /\ f \in Machine /\ f.at = e.at /\ f.ret = e.ret /\ f.field = e.field
         /\ f.regs = e.regs
         /\ ~Running(e) => f = e
         /\ Running(e) => /\ f.locals[l] = v
                          /\ \A k \in 0 .. MaxLocals - 1 : k # l => f.locals[k] = e.locals[k]
BY DEF PutLocal, Machine

LEMMA MachineFacts ==
  ASSUME NEW e \in Machine
  PROVE  /\ \A d \in Reg : e.regs[d] \in Val
         /\ \A l \in 0 .. MaxLocals - 1 : e.locals[l] \in Val
         /\ e.field \in Val /\ e.ret \in Val /\ e.at \in Label
         /\ \A v \in Val : /\ SetField(e, v) \in Machine /\ SetField(e, v).at = e.at
                           /\ SetField(e, v).regs = e.regs /\ SetField(e, v).locals = e.locals
                           /\ SetField(e, v).ret = e.ret
                           /\ SetField(e, v).field = IF Running(e) THEN v ELSE e.field
BY DEF Machine, SetField

(* A jump or a label changes where the execution is and nothing else. *)
LEMMA JumpFacts ==
  ASSUME NEW e \in Machine, NEW b \in Label
  PROVE  /\ Jump(e, b) \in Machine /\ Jump(e, b).at = IF Running(e) THEN b ELSE e.at
         /\ Jump(e, b).regs = e.regs /\ Jump(e, b).locals = e.locals
         /\ Jump(e, b).field = e.field /\ Jump(e, b).ret = e.ret
         /\ Land(e, b) \in Machine /\ Land(e, b).at = IF e.at = b THEN Run ELSE e.at
         /\ Land(e, b).regs = e.regs /\ Land(e, b).locals = e.locals
         /\ Land(e, b).field = e.field /\ Land(e, b).ret = e.ret
BY LabelFacts DEF Machine, Jump, Land

LEMMA SourceJumpFacts ==
  ASSUME NEW v, NEW e, Reading(e, v), NEW b \in Label
  PROVE  /\ Reading(Jump(e, b), v) /\ Jump(e, b).at = IF Running(e) THEN b ELSE e.at
         /\ Jump(e, b).vals = e.vals /\ Jump(e, b).env = e.env
         /\ Jump(e, b).field = e.field /\ Jump(e, b).ret = e.ret
         /\ Reading(Land(e, b), v) /\ Land(e, b).at = IF e.at = b THEN Run ELSE e.at
         /\ Land(e, b).vals = e.vals /\ Land(e, b).env = e.env
         /\ Land(e, b).field = e.field /\ Land(e, b).ret = e.ret
BY LabelFacts DEF Source, Jump, Land, Reading

LEMMA SourceFacts ==
  ASSUME NEW v, NEW e, Reading(e, v)
  PROVE  /\ e.vals \in Seq(SVal) /\ Len(e.vals) \in Nat /\ DOMAIN e.vals = 1 .. Len(e.vals)
         /\ \A i \in 1 .. Len(e.vals) : e.vals[i] \in SVal
         /\ e.field \in SVal /\ e.ret \in SVal /\ e.at \in Label
         /\ e.env \in Seq(Scope(SVal)) /\ \A i \in DOMAIN e.env : e.env[i] \in Scope(SVal)
         /\ \A n \in Nat : n < Len(e.vals) =>
              Operand(e, n) = e.vals[Len(e.vals) - n] /\ Operand(e, n) \in SVal
         /\ \A a \in SVal : /\ Reading(SetField(e, a), v) /\ SetField(e, a).at = e.at
                            /\ SetField(e, a).vals = e.vals /\ SetField(e, a).env = e.env
                            /\ SetField(e, a).ret = e.ret
                            /\ SetField(e, a).field = IF Running(e) THEN a ELSE e.field
<1>1. /\ e \in Source /\ e.vals \in Seq(SVal) /\ e.field \in SVal /\ e.ret \in SVal
      /\ e.at \in Label /\ e.env \in Seq(Scope(SVal))
  BY DEF Source, Reading
<1>2. /\ Len(e.vals) \in Nat /\ DOMAIN e.vals = 1 .. Len(e.vals)
      /\ \A i \in 1 .. Len(e.vals) : e.vals[i] \in SVal
      /\ \A i \in DOMAIN e.env : e.env[i] \in Scope(SVal)
  BY <1>1, LenProperties
<1>3. ASSUME NEW n \in Nat, n < Len(e.vals)
      PROVE  Operand(e, n) = e.vals[Len(e.vals) - n] /\ Operand(e, n) \in SVal
  <2>1. Len(e.vals) - n \in 1 .. Len(e.vals)
    BY <1>2, <1>3
  <2> QED BY <2>1, <1>2 DEF Operand
<1>4. ASSUME NEW a \in SVal
      PROVE  /\ Reading(SetField(e, a), v) /\ SetField(e, a).at = e.at
             /\ SetField(e, a).vals = e.vals /\ SetField(e, a).env = e.env
             /\ SetField(e, a).ret = e.ret
             /\ SetField(e, a).field = IF Running(e) THEN a ELSE e.field
  BY <1>1 DEF Source, Reading, SetField
<1> QED BY <1>1, <1>2, <1>3, <1>4

Drops(v, e, h, n, f) ==
  Reading(e, v) /\ h \in Nat /\ h = Len(e.vals) /\ n \in Nat /\ n <= h /\ f = Drop(e, n)
Yields(v, e, h, n, a, f) ==
  /\ Reading(e, v) /\ h \in Nat /\ h = Len(e.vals) /\ n \in Nat /\ n <= h
  /\ a \in SVal /\ f = Yield(e, n, a)

LEMMA DropFacts ==
  ASSUME NEW v, NEW e, NEW h, NEW n, NEW f, Drops(v, e, h, n, f)
  PROVE  /\ Reading(f, v) /\ Len(f.vals) = h - n
         /\ \A i \in 1 .. h - n : f.vals[i] = e.vals[i]
         /\ f.at = e.at /\ f.env = e.env /\ f.field = e.field /\ f.ret = e.ret
<1>0. /\ Reading(e, v) /\ h \in Nat /\ h = Len(e.vals) /\ n \in Nat /\ n <= h
      /\ f = Drop(e, n)
  BY DEF Drops
<1>1. e \in Source /\ e.vals \in Seq(SVal) /\ Len(e.vals) \in Nat
      /\ \A i \in 1 .. Len(e.vals) : e.vals[i] \in SVal
  BY <1>0, SourceFacts DEF Reading
<1>2. PICK k \in Nat : k = h - n
  <2>1. h - n \in Nat
    BY <1>0
  <2> QED BY <2>1
<1>3. PICK b : b = SubSeq(e.vals, 1, k)
  OBVIOUS
<1>4. b \in Seq(SVal) /\ Len(b) = k /\ \A i \in 1 .. k : b[i] = e.vals[i]
  <2>1. 1 \in Int /\ k \in Int /\ \A i \in 1 .. k : e.vals[i] \in SVal
    BY <1>0, <1>1, <1>2
  <2>2. /\ SubSeq(e.vals, 1, k) \in Seq(SVal)
        /\ Len(SubSeq(e.vals, 1, k)) = IF 1 <= k THEN k - 1 + 1 ELSE 0
        /\ \A i \in 1 .. k - 1 + 1 : SubSeq(e.vals, 1, k)[i] = e.vals[1 + i - 1]
    BY <2>1, SubSeqProperties
  <2>3. /\ b \in Seq(SVal)
        /\ Len(b) = IF 1 <= k THEN k - 1 + 1 ELSE 0
        /\ \A i \in 1 .. k - 1 + 1 : b[i] = e.vals[1 + i - 1]
    BY <2>2, <1>3
  <2>4. (IF 1 <= k THEN k - 1 + 1 ELSE 0) = k
    OBVIOUS
  <2> QED BY <2>3, <2>4
<1>5. f = [e EXCEPT !.vals = b]
  BY <1>0, <1>1, <1>2, <1>3 DEF Drop, Source
<1>6. /\ f \in Source /\ f.vals = b
      /\ f.at = e.at /\ f.env = e.env /\ f.field = e.field /\ f.ret = e.ret
  BY <1>1, <1>4, <1>5 DEF Source
<1> QED BY <1>0, <1>2, <1>4, <1>6 DEF Reading

LEMMA YieldFacts ==
  ASSUME NEW v, NEW e, NEW h, NEW n, NEW a, NEW f, Yields(v, e, h, n, a, f)
  PROVE  /\ Reading(f, v) /\ Len(f.vals) = h - n + 1
         /\ \A i \in 1 .. h - n : f.vals[i] = e.vals[i]
         /\ f.vals[h - n + 1] = IF Running(e) THEN a ELSE Unknown
         /\ f.at = e.at /\ f.env = e.env /\ f.field = e.field /\ f.ret = e.ret
<1>0. /\ Reading(e, v) /\ h \in Nat /\ h = Len(e.vals) /\ n \in Nat /\ n <= h
      /\ a \in SVal /\ f = Yield(e, n, a)
  BY DEF Yields
<1>1. PICK g : g = Drop(e, n)
  OBVIOUS
<1>2. /\ Reading(g, v) /\ Len(g.vals) = h - n
      /\ \A i \in 1 .. h - n : g.vals[i] = e.vals[i]
      /\ g.at = e.at /\ g.env = e.env /\ g.field = e.field /\ g.ret = e.ret
  <2>1. Drops(v, e, h, n, g)
    BY <1>0, <1>1 DEF Drops
  <2> QED BY <2>1, DropFacts
<1>3. PICK b \in SVal : b = IF Running(e) THEN a ELSE Unknown
  BY <1>0, ValueFacts
<1>4. f = [g EXCEPT !.vals = Append(@, b)]
  BY <1>0, <1>1, <1>3 DEF Yield
<1>5. PICK c : c = Append(g.vals, b)
  OBVIOUS
<1>6. /\ c \in Seq(SVal) /\ Len(c) = h - n + 1
      /\ \A i \in 1 .. h - n : c[i] = g.vals[i]
      /\ c[h - n + 1] = b
  <2>1. g.vals \in Seq(SVal)
    BY <1>2, SourceFacts
  <2>2. /\ c \in Seq(SVal) /\ Len(c) = Len(g.vals) + 1
        /\ \A i \in 1 .. Len(g.vals) : c[i] = g.vals[i]
        /\ c[Len(g.vals) + 1] = b
    BY <2>1, <1>5, AppendFacts
  <2> QED BY <2>2, <1>0, <1>2
<1>7. f = [g EXCEPT !.vals = c]
  BY <1>4, <1>5
<1>8. /\ Reading(f, v) /\ f.vals = c
      /\ f.at = g.at /\ f.env = g.env /\ f.field = g.field /\ f.ret = g.ret
  BY <1>2, <1>7, <1>6 DEF Source, Reading
<1> QED BY <1>2, <1>3, <1>6, <1>8

-----------------------------------------------------------------------------
(* The shape of todo after a construct begins or ends.                     *)

LEMMA ItemFacts ==
  \A k \in Kinds :
    /\ Item(k) \in ItemSet /\ Item(k).k = k /\ Item(k).op = 0 /\ Item(k).reg = 0
    /\ Item(k).x = 0 /\ Item(k).params = <<>>
    /\ \A v, n : k \notin {"let", "assign", "compound"} => Notes(Item(k), v, n)
    /\ \A d \in Reg : LET o == [Item(k) EXCEPT !.reg = d]
                      IN  /\ o \in ItemSet /\ o.k = k /\ o.reg = d /\ o.params = <<>> /\ o.op = 0
                          /\ \A v, n : k \notin {"let", "assign", "compound"} => Notes(o, v, n)
<1>1. <<>> \in Seq(ParamSet) /\ 0 \in Reg
  BY EmptySeq, RegZero
<1>2. ASSUME NEW k \in Kinds
      PROVE  /\ Item(k) \in ItemSet /\ Item(k).k = k /\ Item(k).op = 0 /\ Item(k).reg = 0
             /\ Item(k).x = 0 /\ Item(k).params = <<>>
  BY <1>1 DEF Item, ItemSet
<1>3. ASSUME NEW k \in Kinds, NEW d \in Reg, NEW o, o = [Item(k) EXCEPT !.reg = d]
      PROVE  o \in ItemSet /\ o.k = k /\ o.reg = d /\ o.params = <<>> /\ o.op = 0 /\ o.x = 0
  <2>1. o = [k |-> k, op |-> 0, reg |-> d, x |-> 0, params |-> <<>>]
    BY <1>3 DEF Item
  <2> QED BY <2>1, <1>1 DEF ItemSet
<1>4. ASSUME NEW k \in Kinds, k \notin {"let", "assign", "compound"}, NEW v, NEW n,
             NEW o, o.k = k, o.params = <<>>, o.x = 0
      PROVE  Notes(o, v, n)
  BY <1>1, <1>4 DEF Notes
<1> QED BY <1>2, <1>3, <1>4

LEMMA HeldFacts ==
  \A o : /\ o.k = "expr" => Held(o) = o.op
         /\ o.k = "idxset" => Held(o) = 2
         /\ o.k \in {"index", "fncall", "array"} \cup LogicalKinds => Held(o) = 1
         /\ o.k \in BlockKinds \cup StatementKinds
                    \cup {"call", "method", "new", "paren", "not", "assign", "compound", "fieldset", "fieldop"}
              => Held(o) = 0
BY DEF Held, LogicalKinds, BlockKinds, StatementKinds

(* What a construct may begin as, end, change to or begin with. *)
Grows(v, n, t, h, o, u) ==
  /\ Shape(t, v, n) /\ h \in Nat /\ h = Len(t) /\ o \in ItemSet /\ Notes(o, v, n) /\ Nests(t[h].k, o.k)
  /\ u = Append(t, o)
Ends(v, n, t, h, u) ==
  Shape(t, v, n) /\ h \in Nat /\ h = Len(t) /\ t[h].k # "func" /\ u = Front(t)
Changes(v, n, t, h, o, u) ==
  /\ Shape(t, v, n) /\ h \in Nat /\ h = Len(t) /\ o \in ItemSet /\ Notes(o, v, n) /\ o.k = t[h].k
  /\ u = Append(Front(t), o)
Opens(v, n, t, h, o, u) ==
  /\ Shape(t, v, n) /\ h \in Nat /\ h = Len(t) /\ o \in ItemSet /\ Notes(o, v, n) /\ Nests(t[h].k, o.k)
  /\ o.k \in ExprReaders /\ u = t \o <<o, Item("expr")>>

LEMMA PushShape ==
  ASSUME NEW v, NEW n, NEW t, NEW h, NEW o, NEW u, Grows(v, n, t, h, o, u)
  PROVE  /\ Shape(u, v, n) /\ Len(u) = h + 1 /\ u[h + 1] = o
         /\ \A i \in 1 .. h : u[i] = t[i]
         /\ \A i \in 0 .. h : /\ Upto(u, i) = Upto(t, i)
                              /\ Total(Opened(u), i) = Total(Opened(t), i)
         /\ Upto(u, h + 1) = Upto(t, h) + Held(o)
         /\ Total(Opened(u), h + 1)
              = Total(Opened(t), h) + IF o.k \in ScopeKinds THEN 1 ELSE 0
<1>1. /\ t \in Seq(ItemSet) /\ Nested(t) /\ \A i \in DOMAIN t : Notes(t[i], v, n)
      /\ h \in Nat /\ h = Len(t) /\ o \in ItemSet /\ Notes(o, v, n) /\ Nests(t[Len(t)].k, o.k)
      /\ u = Append(t, o)
  BY DEF Shape, Grows
<1>2. /\ u \in Seq(ItemSet) /\ Len(u) = h + 1 /\ h \in Nat \ {0}
      /\ DOMAIN u = 1 .. h + 1 /\ DOMAIN t = 1 .. h
      /\ u[h + 1] = o /\ \A i \in 1 .. h : u[i] = t[i]
      /\ Nested(u)
      /\ \A i \in 0 .. h : /\ Upto(u, i) = Upto(t, i)
                           /\ Total(Opened(u), i) = Total(Opened(t), i)
      /\ Upto(u, h + 1) = Upto(t, h) + Held(o)
      /\ Total(Opened(u), h + 1)
           = Total(Opened(t), h) + IF o.k \in ScopeKinds THEN 1 ELSE 0
  <2>1. /\ u \in Seq(ItemSet) /\ Len(u) = Len(t) + 1 /\ Len(t) \in Nat \ {0}
        /\ DOMAIN u = 1 .. Len(u) /\ DOMAIN t = 1 .. Len(t)
        /\ u[Len(u)] = o /\ \A i \in 1 .. Len(t) : u[i] = t[i]
        /\ Nested(u)
        /\ \A i \in 0 .. Len(t) : /\ Upto(u, i) = Upto(t, i)
                                  /\ Total(Opened(u), i) = Total(Opened(t), i)
        /\ Upto(u, Len(u)) = Upto(t, Len(t)) + Held(o)
        /\ Total(Opened(u), Len(u))
             = Total(Opened(t), Len(t)) + IF o.k \in ScopeKinds THEN 1 ELSE 0
    <3>1. Pushed(t, o, u)
      BY <1>1 DEF Pushed
    <3> QED BY <3>1, PushTodo
  <2> QED BY <1>1, <2>1
<1>3. Shape(u, v, n)
  <2>1. ASSUME NEW i \in DOMAIN u PROVE Notes(u[i], v, n)
    <3>1. CASE i = h + 1
      BY <1>1, <1>2, <3>1
    <3>2. CASE i # h + 1
      BY <1>1, <1>2, <3>2
    <3> QED BY <3>1, <3>2
  <2> QED BY <1>2, <2>1 DEF Shape
<1> QED BY <1>2, <1>3

LEMMA PopShape ==
  ASSUME NEW v, NEW n, NEW t, NEW h, NEW u, Ends(v, n, t, h, u)
  PROVE  /\ Shape(u, v, n) /\ Len(u) = h - 1 /\ h - 1 \in Nat \ {0}
         /\ \A i \in 1 .. h - 1 : u[i] = t[i]
         /\ t[h] \in ItemSet /\ u[h - 1] \in ItemSet /\ Nests(u[h - 1].k, t[h].k)
         /\ Notes(t[h], v, n)
         /\ \A i \in 0 .. h - 1 : /\ Upto(u, i) = Upto(t, i)
                                  /\ Total(Opened(u), i) = Total(Opened(t), i)
         /\ Upto(t, h) = Upto(u, h - 1) + Held(t[h])
         /\ Total(Opened(t), h)
              = Total(Opened(u), h - 1) + IF t[h].k \in ScopeKinds THEN 1 ELSE 0
<1>1. /\ t \in Seq(ItemSet) /\ Nested(t) /\ \A i \in DOMAIN t : Notes(t[i], v, n)
      /\ h \in Nat /\ h = Len(t) /\ t[Len(t)].k # "func" /\ u = Front(t)
  BY DEF Shape, Ends
<1>2. Len(u) = Len(t) - 1 /\ Len(u) \in Nat \ {0}
  BY <1>1, PopTodo
<1>3. /\ u \in Seq(ItemSet) /\ Len(u) = h - 1 /\ h - 1 \in Nat \ {0}
      /\ DOMAIN u = 1 .. h - 1 /\ DOMAIN t = 1 .. h /\ t[h] \in ItemSet
      /\ \A i \in 1 .. h - 1 : u[i] = t[i]
      /\ Nested(u) /\ Nests(u[h - 1].k, t[h].k) /\ u[h - 1] \in ItemSet
      /\ \A i \in 0 .. h - 1 : /\ Upto(u, i) = Upto(t, i)
                               /\ Total(Opened(u), i) = Total(Opened(t), i)
      /\ Upto(t, h) = Upto(u, h - 1) + Held(t[h])
      /\ Total(Opened(t), h)
           = Total(Opened(u), h - 1) + IF t[h].k \in ScopeKinds THEN 1 ELSE 0
  BY <1>1, <1>2, PopTodo
<1>4. Shape(u, v, n)
  <2>1. ASSUME NEW i \in DOMAIN u PROVE Notes(u[i], v, n)
    BY <1>1, <1>3
  <2> QED BY <1>3, <2>1 DEF Shape
<1> QED BY <1>1, <1>3, <1>4

LEMMA SwapShape ==
  ASSUME NEW v, NEW n, NEW t, NEW h, NEW o, NEW u, Changes(v, n, t, h, o, u)
  PROVE  /\ Shape(u, v, n) /\ Len(u) = h /\ u[h] = o /\ h \in Nat \ {0} /\ t[h] \in ItemSet
         /\ \A i \in 1 .. h - 1 : u[i] = t[i]
         /\ \A i \in 0 .. h - 1 : /\ Upto(u, i) = Upto(t, i)
                                  /\ Total(Opened(u), i) = Total(Opened(t), i)
         /\ Upto(u, h) + Held(t[h]) = Upto(t, h) + Held(o)
         /\ Total(Opened(u), h) = Total(Opened(t), h)
<1>1. /\ t \in Seq(ItemSet) /\ Nested(t) /\ \A i \in DOMAIN t : Notes(t[i], v, n)
      /\ h \in Nat /\ h = Len(t) /\ o \in ItemSet /\ Notes(o, v, n) /\ o.k = t[Len(t)].k
      /\ u = Append(Front(t), o)
  BY DEF Shape, Changes
<1>2. /\ u \in Seq(ItemSet) /\ Len(u) = h /\ h \in Nat \ {0}
      /\ DOMAIN u = 1 .. h /\ DOMAIN t = 1 .. h
      /\ u[h] = o /\ \A i \in 1 .. h - 1 : u[i] = t[i]
      /\ Nested(u)
      /\ \A i \in 0 .. h - 1 : /\ Upto(u, i) = Upto(t, i)
                               /\ Total(Opened(u), i) = Total(Opened(t), i)
      /\ Upto(u, h) + Held(t[h]) = Upto(t, h) + Held(o)
      /\ Total(Opened(u), h) = Total(Opened(t), h)
  <2>1. /\ u \in Seq(ItemSet) /\ Len(u) = Len(t) /\ Len(t) \in Nat \ {0}
        /\ DOMAIN u = 1 .. Len(t) /\ DOMAIN t = 1 .. Len(t)
        /\ u[Len(t)] = o /\ \A i \in 1 .. Len(t) - 1 : u[i] = t[i]
        /\ Nested(u)
        /\ \A i \in 0 .. Len(t) - 1 : /\ Upto(u, i) = Upto(t, i)
                                      /\ Total(Opened(u), i) = Total(Opened(t), i)
        /\ Upto(u, Len(t)) + Held(t[Len(t)]) = Upto(t, Len(t)) + Held(o)
        /\ Total(Opened(u), Len(t)) = Total(Opened(t), Len(t))
    <3>1. Swapped(t, o, u)
      BY <1>1 DEF Swapped
    <3> QED BY <3>1, SwapTodo
  <2> QED BY <1>1, <2>1
<1>3. Shape(u, v, n)
  <2>1. ASSUME NEW i \in DOMAIN u PROVE Notes(u[i], v, n)
    <3>1. CASE i = h
      BY <1>1, <1>2, <3>1
    <3>2. CASE i # h
      BY <1>1, <1>2, <3>2
    <3> QED BY <3>1, <3>2
  <2> QED BY <1>2, <2>1 DEF Shape
<1>4. t[h] \in ItemSet
  BY <1>1, <1>2, LenProperties
<1> QED BY <1>2, <1>3, <1>4

(* A construct begins with an expression. *)
LEMMA OpenShape ==
  ASSUME NEW v, NEW n, NEW t, NEW h, NEW o, NEW u, Opens(v, n, t, h, o, u)
  PROVE  /\ Shape(u, v, n) /\ Len(u) = h + 2 /\ u[h + 1] = o /\ u[h + 2] = Item("expr")
         /\ \A i \in 1 .. h : u[i] = t[i]
         /\ \A i \in 0 .. h : /\ Upto(u, i) = Upto(t, i)
                              /\ Total(Opened(u), i) = Total(Opened(t), i)
         /\ Upto(u, h + 1) = Upto(t, h) + Held(o) /\ Upto(u, h + 2) = Upto(t, h) + Held(o)
         /\ Total(Opened(u), h + 2) = Total(Opened(t), h)
<1>0. /\ Shape(t, v, n) /\ h \in Nat /\ h = Len(t) /\ o \in ItemSet /\ Notes(o, v, n)
      /\ Nests(t[h].k, o.k) /\ o.k \in ExprReaders /\ u = t \o <<o, Item("expr")>>
  BY DEF Opens
<1>1. PICK w : w = Append(t, o)
  OBVIOUS
<1>2. /\ Shape(w, v, n) /\ Len(w) = h + 1 /\ w[h + 1] = o
      /\ \A i \in 1 .. h : w[i] = t[i]
      /\ \A i \in 0 .. h : /\ Upto(w, i) = Upto(t, i)
                           /\ Total(Opened(w), i) = Total(Opened(t), i)
      /\ Upto(w, h + 1) = Upto(t, h) + Held(o)
      /\ Total(Opened(w), h + 1)
           = Total(Opened(t), h) + IF o.k \in ScopeKinds THEN 1 ELSE 0
  <2>1. Grows(v, n, t, h, o, w)
    BY <1>0, <1>1 DEF Grows
  <2> QED BY <2>1, PushShape
<1>3. u = Append(w, Item("expr"))
  <2>1. t \in Seq(ItemSet) /\ o \in ItemSet /\ Item("expr") \in ItemSet
    BY <1>0, ItemFacts DEF Shape, Kinds
  <2> QED BY <2>1, <1>0, <1>1
<1>4. PICK k \in Nat : k = h + 1
  <2>1. h + 1 \in Nat
    BY <1>0
  <2> QED BY <2>1
<1>5. Item("expr") \in ItemSet /\ Notes(Item("expr"), v, n) /\ Item("expr").k = "expr"
      /\ Held(Item("expr")) = 0
  <2>1. "expr" \in Kinds
    BY DEF Kinds
  <2> QED BY <2>1, ItemFacts, HeldFacts
<1>6. Nests(w[k].k, Item("expr").k)
  BY <1>0, <1>2, <1>4, <1>5 DEF Nests
<1>7. /\ Shape(u, v, n) /\ Len(u) = k + 1 /\ u[k + 1] = Item("expr")
      /\ \A i \in 1 .. k : u[i] = w[i]
      /\ \A i \in 0 .. k : /\ Upto(u, i) = Upto(w, i)
                           /\ Total(Opened(u), i) = Total(Opened(w), i)
      /\ Upto(u, k + 1) = Upto(w, k) + Held(Item("expr"))
      /\ Total(Opened(u), k + 1)
           = Total(Opened(w), k) + IF Item("expr").k \in ScopeKinds THEN 1 ELSE 0
  <2>1. Grows(v, n, w, k, Item("expr"), u)
    BY <1>2, <1>3, <1>4, <1>5, <1>6 DEF Grows
  <2> QED BY <2>1, PushShape
<1>8. o.k \notin ScopeKinds /\ "expr" \notin ScopeKinds
  BY <1>0, KindsApart
<1>9. Upto(t, h) \in Nat /\ Total(Opened(t), h) \in Nat /\ Held(o) \in Nat
  <2>1. t \in Seq(ItemSet) /\ h \in 0 .. Len(t)
    BY <1>0 DEF Shape
  <2> QED BY <2>1, <1>0, WeightType, HeldType
<1>10. k + 1 = h + 2 /\ \A i \in 0 .. h : i \in 0 .. k
  BY <1>0, <1>4
<1>11. Upto(u, h + 1) = Upto(t, h) + Held(o)
  BY <1>2, <1>4, <1>7
<1>12. Upto(u, h + 2) = Upto(t, h) + Held(o)
  BY <1>2, <1>4, <1>5, <1>7, <1>9, <1>10
<1>13. Total(Opened(u), h + 2) = Total(Opened(t), h)
  BY <1>2, <1>4, <1>5, <1>7, <1>8, <1>9, <1>10
<1>14. \A i \in 0 .. h : /\ Upto(u, i) = Upto(t, i)
                         /\ Total(Opened(u), i) = Total(Opened(t), i)
  BY <1>2, <1>7, <1>10
<1>15. \A i \in 1 .. h : u[i] = t[i]
  BY <1>0, <1>2, <1>4, <1>7
<1>16. u[h + 1] = o
  BY <1>0, <1>2, <1>4, <1>7
<1> QED BY <1>7, <1>10, <1>11, <1>12, <1>13, <1>14, <1>15, <1>16

(* Blocks hold no operands, and what they are part of are blocks. *)
LEMMA BlockShape ==
  ASSUME NEW v, NEW n, NEW t, NEW h, Shape(t, v, n), h \in Nat, h = Len(t),
         t[h].k \in BlockKinds
  PROVE  /\ \A i \in 1 .. h : t[i].k \in BlockKinds /\ t[i].params = <<>>
         /\ \A i \in 0 .. h : Upto(t, i) = 0
         /\ \A w, k : Shape(t, w, k)
<1>1. t \in Seq(ItemSet) /\ Nested(t) /\ DOMAIN t = 1 .. h /\ \A i \in DOMAIN t : Notes(t[i], v, n)
  BY LenProperties DEF Shape
<1>2. \A i \in 1 .. h : t[i].k \in BlockKinds
  <2>1. ASSUME NEW i \in 1 .. h PROVE t[i].k \in BlockKinds
    <3>1. CASE i = h
      BY <3>1
    <3>2. CASE i < h
      BY <1>1, <3>2 DEF Nested
    <3> QED BY <3>1, <3>2
  <2> QED BY <2>1
<1>3. \A i \in 1 .. h : t[i].params = <<>> /\ Held(t[i]) = 0
  BY <1>1, <1>2, HeldFacts DEF Notes, BlockKinds, ListKinds
<1>4. ASSUME NEW i \in 0 .. h PROVE Upto(t, i) = 0
  <2>1. \A j \in 1 .. Len(t) : Weights(t)[j] = Held(t[j])
    BY <1>1, WeightType
  <2>2. i \in Nat /\ \A j \in 1 .. i : j \in 1 .. Len(t) /\ j \in 1 .. h
    OBVIOUS
  <2>3. \A j \in 1 .. i : Weights(t)[j] = 0
    BY <1>3, <2>1, <2>2
  <2> QED BY <2>2, <2>3, TotalZero DEF Upto
<1>5. ASSUME NEW w, NEW k PROVE Shape(t, w, k)
  <2>1. \A i \in DOMAIN t : Notes(t[i], w, k)
    BY <1>1, <1>2, <1>3 DEF Notes, BlockKinds
  <2> QED BY <1>1, <2>1 DEF Shape
<1> QED BY <1>2, <1>3, <1>4, <1>5

-----------------------------------------------------------------------------
(* The places of locals.                                                   *)

LEMMA ScopeEmpty == \A S : <<>> \in Scope(S) /\ DOMAIN <<>> = {}
<1>1. ASSUME NEW S PROVE <<>> \in [{} -> S]
  OBVIOUS
<1> QED BY <1>1 DEF Scope

LEMMA SizesType ==
  ASSUME NEW v, NEW n, Placed(v, n), v \in Seq(Scope(0 .. MaxLocals - 1))
  PROVE  /\ Len(v) \in Nat /\ DOMAIN v = 1 .. Len(v)
         /\ \A i \in 1 .. Len(v) : /\ Sizes(v)[i] = Cardinality(DOMAIN v[i])
                                   /\ Sizes(v)[i] \in Nat
         /\ \A i \in 0 .. Len(v) : Total(Sizes(v), i) \in Nat
         /\ n = Total(Sizes(v), Len(v)) /\ n \in Nat
<1>1. Len(v) \in Nat /\ DOMAIN v = 1 .. Len(v)
  BY LenProperties
<1>2. \A i \in 1 .. Len(v) : Sizes(v)[i] = Cardinality(DOMAIN v[i]) /\ Sizes(v)[i] \in Nat
  BY <1>1, FS_CardinalityType DEF Placed, Sizes
<1>3. ASSUME NEW i \in 0 .. Len(v) PROVE Total(Sizes(v), i) \in Nat
  <2>1. i \in Nat /\ \A j \in 1 .. i : Sizes(v)[j] \in Nat
    BY <1>1, <1>2
  <2> QED BY <2>1, TotalType
<1>4. n = Total(Sizes(v), Len(v)) /\ Len(v) \in 0 .. Len(v)
  BY <1>1 DEF Placed
<1> QED BY <1>1, <1>2, <1>3, <1>4

(* Of scopes that agree up to one, the places up to that one are the same. *)
LEMMA SizesSame ==
  ASSUME NEW v, NEW w, NEW k, k \in Nat, k <= Len(v), k <= Len(w),
         v \in Seq(Scope(0 .. MaxLocals - 1)), w \in Seq(Scope(0 .. MaxLocals - 1)),
         \A i \in 1 .. k : DOMAIN w[i] = DOMAIN v[i]
  PROVE  \A i \in 0 .. k : Total(Sizes(w), i) = Total(Sizes(v), i)
<1>1. Len(v) \in Nat /\ DOMAIN v = 1 .. Len(v) /\ Len(w) \in Nat /\ DOMAIN w = 1 .. Len(w)
  BY LenProperties
<1>2. ASSUME NEW i \in 0 .. k PROVE Total(Sizes(w), i) = Total(Sizes(v), i)
  <2>1. i \in Nat /\ \A j \in 1 .. i : j \in 1 .. Len(v) /\ j \in 1 .. Len(w) /\ j \in 1 .. k
    BY <1>1
  <2>2. \A j \in 1 .. i : Sizes(w)[j] = Sizes(v)[j]
    BY <1>1, <2>1 DEF Sizes
  <2> QED BY <2>1, <2>2, TotalSame
<1> QED BY <1>2

LEMMA OpenPlaced ==
  ASSUME NEW v, NEW n, NEW w, Placed(v, n), v \in Seq(Scope(0 .. MaxLocals - 1)),
         w = Append(v, <<>>)
  PROVE  /\ Placed(w, n) /\ w \in Seq(Scope(0 .. MaxLocals - 1)) /\ Len(w) = Len(v) + 1
         /\ \A i \in 1 .. Len(v) : w[i] = v[i]
         /\ w[Len(v) + 1] = <<>>
<1>1. /\ w \in Seq(Scope(0 .. MaxLocals - 1)) /\ Len(w) = Len(v) + 1 /\ Len(v) \in Nat
      /\ DOMAIN w = 1 .. Len(v) + 1 /\ DOMAIN v = 1 .. Len(v)
      /\ \A i \in 1 .. Len(v) : w[i] = v[i]
      /\ w[Len(v) + 1] = <<>>
  BY ScopeEmpty, AppendFacts
<1>2. \A i \in 0 .. Len(v) : Total(Sizes(w), i) = Total(Sizes(v), i)
  <2>1. Len(v) \in Nat /\ Len(v) <= Len(v) /\ Len(v) <= Len(w)
        /\ \A i \in 1 .. Len(v) : DOMAIN w[i] = DOMAIN v[i]
    BY <1>1
  <2> QED BY <1>1, <2>1, SizesSame
<1>3. DOMAIN w[Len(v) + 1] = {} /\ Sizes(w)[Len(v) + 1] = 0
  <2>1. Len(v) + 1 \in DOMAIN w
    BY <1>1
  <2> QED BY <1>1, <2>1, ScopeEmpty, FS_EmptySet DEF Sizes
<1>4. Total(Sizes(w), Len(v) + 1) = n
  <2>1. \A i \in 1 .. Len(v) + 1 : Sizes(w)[i] \in Nat
    <3>1. \A i \in 1 .. Len(v) : Sizes(w)[i] = Cardinality(DOMAIN v[i])
      BY <1>1 DEF Sizes
    <3>2. \A i \in 1 .. Len(v) : Sizes(w)[i] \in Nat
      BY <3>1, <1>1, FS_CardinalityType DEF Placed
    <3> QED BY <3>2, <1>1, <1>3
  <2>2. Len(v) + 1 \in Nat \ {0} /\ Len(v) + 1 - 1 = Len(v)
    BY <1>1
  <2>3. Total(Sizes(w), Len(v) + 1) = Total(Sizes(w), Len(v)) + 0
    BY <2>1, <2>2, <1>3, TotalStep
  <2>4. Total(Sizes(w), Len(v)) = n /\ n \in Nat
    BY <1>1, <1>2, SizesType
  <2> QED BY <2>3, <2>4
<1>5. ASSUME NEW i \in DOMAIN w
      PROVE  /\ IsFiniteSet(DOMAIN w[i])
             /\ \A x \in DOMAIN w[i] : /\ Total(Sizes(w), i - 1) <= w[i][x]
                                       /\ w[i][x] < Total(Sizes(w), i)
             /\ \A x, y \in DOMAIN w[i] : w[i][x] = w[i][y] => x = y
  <2>1. CASE i = Len(v) + 1
    BY <2>1, <1>3, FS_EmptySet
  <2>2. CASE i # Len(v) + 1
    <3>1. i \in DOMAIN v /\ i - 1 \in 0 .. Len(v) /\ i \in 0 .. Len(v) /\ w[i] = v[i]
      BY <1>1, <2>2
    <3>2. Total(Sizes(w), i - 1) = Total(Sizes(v), i - 1) /\ Total(Sizes(w), i) = Total(Sizes(v), i)
      BY <3>1, <1>2
    <3> QED BY <3>1, <3>2 DEF Placed
  <2> QED BY <2>1, <2>2
<1>6. Placed(w, n)
  BY <1>1, <1>4, <1>5 DEF Placed
<1> QED BY <1>1, <1>6

LEMMA ClosePlaced ==
  ASSUME NEW v, NEW n, NEW w, NEW k, Placed(v, n), v \in Seq(Scope(0 .. MaxLocals - 1)),
         v # <<>>, w = Front(v), k = n - Cardinality(DOMAIN v[Len(v)])
  PROVE  /\ Placed(w, k) /\ w \in Seq(Scope(0 .. MaxLocals - 1)) /\ Len(w) = Len(v) - 1
         /\ \A i \in 1 .. Len(v) - 1 : w[i] = v[i]
         /\ k \in Nat /\ k <= n
<1>1. /\ w \in Seq(Scope(0 .. MaxLocals - 1)) /\ Len(w) = Len(v) - 1 /\ Len(v) \in Nat \ {0}
      /\ DOMAIN w = 1 .. Len(v) - 1 /\ DOMAIN v = 1 .. Len(v)
      /\ \A i \in 1 .. Len(v) - 1 : w[i] = v[i]
  BY FrontFacts
<1>2. \A i \in 0 .. Len(v) - 1 : Total(Sizes(w), i) = Total(Sizes(v), i)
  <2>1. Len(v) - 1 \in Nat /\ Len(v) - 1 <= Len(v) /\ Len(v) - 1 <= Len(w)
    BY <1>1
  <2> QED BY <1>1, <2>1, SizesSame
<1>3. /\ \A i \in 1 .. Len(v) : /\ Sizes(v)[i] = Cardinality(DOMAIN v[i])
                                /\ Sizes(v)[i] \in Nat
      /\ \A i \in 0 .. Len(v) : Total(Sizes(v), i) \in Nat
      /\ n = Total(Sizes(v), Len(v)) /\ n \in Nat
  BY SizesType
<1>4. n = Total(Sizes(v), Len(v) - 1) + Cardinality(DOMAIN v[Len(v)])
      /\ Cardinality(DOMAIN v[Len(v)]) \in Nat /\ Total(Sizes(v), Len(v) - 1) \in Nat
  <2>1. Len(v) \in 1 .. Len(v) /\ Len(v) - 1 \in 0 .. Len(v)
    BY <1>1
  <2> QED BY <1>1, <1>3, <2>1, TotalStep
<1>5. k = Total(Sizes(w), Len(w)) /\ k \in Nat /\ k <= n
  <2>1. Len(v) - 1 \in 0 .. Len(v) - 1
    BY <1>1
  <2>2. k = Total(Sizes(v), Len(v) - 1)
    BY <1>3, <1>4
  <2> QED BY <1>1, <1>2, <1>3, <1>4, <2>1, <2>2
<1>6. ASSUME NEW i \in DOMAIN w
      PROVE  /\ IsFiniteSet(DOMAIN w[i])
             /\ \A x \in DOMAIN w[i] : /\ Total(Sizes(w), i - 1) <= w[i][x]
                                       /\ w[i][x] < Total(Sizes(w), i)
             /\ \A x, y \in DOMAIN w[i] : w[i][x] = w[i][y] => x = y
  <2>1. i \in DOMAIN v /\ i - 1 \in 0 .. Len(v) - 1 /\ i \in 0 .. Len(v) - 1 /\ w[i] = v[i]
    BY <1>1
  <2>2. Total(Sizes(w), i - 1) = Total(Sizes(v), i - 1) /\ Total(Sizes(w), i) = Total(Sizes(v), i)
    BY <2>1, <1>2
  <2> QED BY <2>1, <2>2 DEF Placed
<1>7. Placed(w, k)
  BY <1>5, <1>6 DEF Placed
<1> QED BY <1>1, <1>5, <1>7

-----------------------------------------------------------------------------
(* What holds in every state, for any source: types, shape and places.     *)

CoreInv == TypeInv /\ ShapeInv /\ PlaceInv

LoadedLocal(l) == l \in LastSet /\ (l.op = "load" => l.local \in 0 .. MaxLocals - 1)

(* The parts of a state that registers, machine and source are. *)
Parts(q, e, f, l, v) ==
  /\ q \in RegState /\ e \in Machine /\ Reading(f, v) /\ LoadedLocal(l)
  /\ ~q.full => Len(f.vals) <= Len(q.rstack)

LEMMA CoreFacts ==
  ASSUME CoreInv
  PROVE  /\ p \in RegState /\ m \in Machine /\ Reading(s, vars) /\ LoadedLocal(last)
         /\ Shape(todo, vars, placed) /\ todo \in Seq(ItemSet) /\ Nested(todo)
         /\ Len(todo) \in Nat \ {0} /\ Len(todo) <= MaxDepth
         /\ Top \in ItemSet /\ Top = todo[Len(todo)] /\ Here = Len(todo)
         /\ Top.reg \in Reg /\ Top.op \in 0 .. 1 /\ Top.k \in Kinds /\ Top.params \in Seq(ParamSet)
         /\ Notes(Top, vars, placed)
         /\ Fits(need, Top.k) /\ need \in Needs /\ (need = "done" => Len(todo) < MaxDepth)
         /\ Len(s.vals) \in Nat /\ Len(p.rstack) \in Nat
         /\ Len(s.vals) = Upto(todo, Len(todo)) + Ready(need)
         /\ Upto(todo, Len(todo)) \in Nat /\ Held(Top) <= Upto(todo, Len(todo)) /\ Held(Top) \in 0 .. 2
         /\ ~p.full => Len(s.vals) <= Len(p.rstack)
         /\ vars \in Seq(Scope(0 .. MaxLocals - 1)) /\ Placed(vars, placed)
         /\ Len(vars) = Total(Opened(todo), Len(todo)) + 1
         /\ placed \in 0 .. MaxLocals /\ max_locals \in 0 .. MaxLocals /\ tokens \in 0 .. MaxTokens
<1>1. /\ p \in RegState /\ m \in Machine /\ Reading(s, vars) /\ LoadedLocal(last)
      /\ vars \in Seq(Scope(0 .. MaxLocals - 1))
      /\ placed \in 0 .. MaxLocals /\ max_locals \in 0 .. MaxLocals /\ tokens \in 0 .. MaxTokens
      /\ Len(todo) <= MaxDepth /\ need \in Needs /\ (need = "done" => Len(todo) < MaxDepth)
  BY DEF CoreInv, TypeInv, LoadedLocal
<1>2. /\ Shape(todo, vars, placed) /\ Fits(need, Top.k) /\ Top = todo[Len(todo)] /\ Here = Len(todo)
      /\ Len(s.vals) = Upto(todo, Len(todo)) + Ready(need)
      /\ ~p.full => Len(s.vals) <= Len(p.rstack)
  BY DEF CoreInv, ShapeInv, Top, Here
<1>3. todo \in Seq(ItemSet) /\ Nested(todo) /\ \A i \in DOMAIN todo : Notes(todo[i], vars, placed)
  BY <1>2 DEF Shape
<1>4. Len(todo) \in Nat \ {0} /\ DOMAIN todo = 1 .. Len(todo) /\ \A i \in 1 .. Len(todo) : todo[i] \in ItemSet
  <2>1. Len(todo) \in Nat /\ DOMAIN todo = 1 .. Len(todo) /\ \A i \in 1 .. Len(todo) : todo[i] \in ItemSet
    BY <1>3, LenProperties
  <2> QED BY <2>1, <1>3, EmptySeq DEF Nested
<1>5. Len(todo) \in 1 .. Len(todo) /\ Len(todo) - 1 \in 0 .. Len(todo)
  BY <1>4
<1>6. Top \in ItemSet /\ Notes(Top, vars, placed)
  BY <1>2, <1>3, <1>4, <1>5
<1>7. /\ Top.reg \in Reg /\ Top.op \in 0 .. 1 /\ Top.k \in Kinds /\ Top.params \in Seq(ParamSet)
      /\ Held(Top) \in 0 .. 2
  BY <1>6, HeldType DEF ItemSet
<1>8. Upto(todo, Len(todo)) \in Nat /\ Held(Top) <= Upto(todo, Len(todo))
  <2>1. Upto(todo, Len(todo) - 1) \in Nat
    BY <1>3, <1>5, WeightType
  <2>2. Upto(todo, Len(todo)) = Upto(todo, Len(todo) - 1) + Held(todo[Len(todo)])
    BY <1>3, <1>5, UptoStep
  <2> QED BY <2>1, <2>2, <1>2, <1>7
<1>9. Len(s.vals) \in Nat /\ Len(p.rstack) \in Nat
  BY <1>1, SourceFacts, RegStateFacts
<1>10. Placed(vars, placed) /\ Len(vars) = Total(Opened(todo), Len(todo)) + 1
  BY DEF CoreInv, PlaceInv
<1> QED BY <1>1, <1>2, <1>3, <1>4, <1>6, <1>7, <1>8, <1>9, <1>10

(* What a step that leaves the scopes alone has to keep. *)
Kept(t, n, c) ==
  /\ Parts(p', m', s', last', vars) /\ c \in 0 .. MaxTokens
  /\ Shape(t, vars, placed) /\ Len(t) <= MaxDepth
  /\ n \in Needs /\ Fits(n, t[Len(t)].k) /\ (n = "done" => Len(t) < MaxDepth)
  /\ Len(s'.vals) = Upto(t, Len(t)) + Ready(n)
  /\ Total(Opened(t), Len(t)) = Total(Opened(todo), Len(todo))

LEMMA KeepCore ==
  ASSUME CoreInv, SameScope, Kept(todo', need', tokens')
  PROVE  CoreInv'
<1>1. vars' = vars /\ placed' = placed /\ max_locals' = max_locals
  BY DEF SameScope
<1>2. TypeInv'
  BY <1>1, CoreFacts DEF TypeInv, Kept, Parts, LoadedLocal
<1>3. ShapeInv'
  BY <1>1 DEF ShapeInv, Kept, Parts, Top
<1>4. PlaceInv'
  BY <1>1, CoreFacts DEF PlaceInv, Kept
<1> QED BY <1>2, <1>3, <1>4 DEF CoreInv

(* The parser goes on with the same constructs. *)
LEMMA SameStep ==
  ASSUME CoreInv, SameScope, UNCHANGED todo, tokens' \in 0 .. MaxTokens,
         Parts(p', m', s', last', vars), need' \in Needs, Fits(need', Top.k),
         need' = "done" => need = "done",
         Len(s'.vals) + Ready(need) = Len(s.vals) + Ready(need')
  PROVE  CoreInv'
<1>1. /\ Shape(todo, vars, placed) /\ Top = todo[Len(todo)]
      /\ Len(todo) <= MaxDepth /\ (need = "done" => Len(todo) < MaxDepth)
      /\ Len(s.vals) = Upto(todo, Len(todo)) + Ready(need) /\ Upto(todo, Len(todo)) \in Nat
  BY CoreFacts
<1>2. Len(s'.vals) \in Nat /\ Ready(need) \in Nat /\ Ready(need') \in Nat
  BY SourceFacts DEF Ready, Parts
<1>3. Len(s'.vals) = Upto(todo, Len(todo)) + Ready(need')
  <2>1. PICK a \in Nat, b \in Nat, c \in Nat, d \in Nat :
          a = Len(s'.vals) /\ b = Ready(need) /\ c = Ready(need') /\ d = Upto(todo, Len(todo))
    BY <1>1, <1>2
  <2>2. a + b = (d + b) + c
    BY <1>1, <2>1
  <2>3. a = d + c
    BY <2>2
  <2> QED BY <2>1, <2>3
<1>4. Kept(todo', need', tokens')
  BY <1>1, <1>3 DEF Kept
<1> QED BY <1>4, KeepCore

(* What follows the end of a construct. *)
FitsBelow(k, n) ==
  \/ k \in {"expr"} \cup LogicalKinds /\ n = "done"
  \/ k \in OperandKinds /\ n \in {"more", "closed"}
  \/ k \in StatementKinds \cup (BlockKinds \ {"func"}) /\ n = "stmt"

LEMMA BelowFits ==
  \A a, b, n : Nests(a, b) /\ FitsBelow(b, n) => Fits(n, a) /\ n \in Needs /\ b # "func"
BY DEF Nests, FitsBelow, Fits, Needs, ExprReaders, LogicalKinds, OperandKinds, ListKinds,
       StatementKinds, BlockKinds, Blocks

LEMMA PopStep ==
  ASSUME CoreInv, SameScope, todo' = Below, tokens' \in 0 .. MaxTokens,
         Parts(p', m', s', last', vars), FitsBelow(Top.k, need'), Top.k \notin ScopeKinds,
         Len(s'.vals) + Ready(need) + Held(Top) = Len(s.vals) + Ready(need')
  PROVE  CoreInv'
<1>1. /\ Shape(todo, vars, placed) /\ Top = todo[Len(todo)] /\ Len(todo) \in Nat \ {0}
      /\ Len(todo) <= MaxDepth /\ Held(Top) \in 0 .. 2
      /\ Len(s.vals) = Upto(todo, Len(todo)) + Ready(need) /\ Upto(todo, Len(todo)) \in Nat
  BY CoreFacts
<1>2. Top.k # "func"
  BY DEF FitsBelow, LogicalKinds, OperandKinds, ListKinds, StatementKinds
<1>3. PICK h \in Nat : h = Len(todo)
  BY <1>1
<1>4. PICK u : u = Front(todo)
  OBVIOUS
<1>5. Ends(vars, placed, todo, h, u)
  BY <1>1, <1>2, <1>3, <1>4 DEF Ends
<1>6. /\ Shape(u, vars, placed) /\ Len(u) = h - 1 /\ h - 1 \in Nat \ {0}
      /\ Nests(u[h - 1].k, todo[h].k)
      /\ Upto(todo, h) = Upto(u, h - 1) + Held(todo[h])
      /\ Total(Opened(todo), h)
           = Total(Opened(u), h - 1) + IF todo[h].k \in ScopeKinds THEN 1 ELSE 0
  BY <1>5, PopShape
<1>7. todo' = u
  BY <1>4 DEF Below
<1>8. need' \in Needs /\ Fits(need', u[Len(u)].k)
  BY <1>1, <1>3, <1>6, BelowFits
<1>9. Upto(u, h - 1) \in Nat /\ Total(Opened(u), h - 1) \in Nat
  <2>1. u \in Seq(ItemSet) /\ h - 1 \in 0 .. Len(u)
    BY <1>6 DEF Shape
  <2> QED BY <2>1, WeightType
<1>10. Len(s'.vals) \in Nat /\ Ready(need) \in Nat /\ Ready(need') \in Nat
  BY SourceFacts DEF Ready, Parts
<1>11. Len(s'.vals) = Upto(u, h - 1) + Ready(need')
  <2>1. PICK a \in Nat, b \in Nat, c \in Nat, d \in Nat, e \in Nat :
          /\ a = Len(s'.vals) /\ b = Ready(need) /\ c = Ready(need') /\ d = Upto(u, h - 1)
          /\ e = Held(Top)
    <3>1. Held(Top) \in Nat /\ Upto(u, h - 1) \in Nat
      BY <1>1, <1>9
    <3> QED BY <3>1, <1>10
  <2>2. a + b + e = (d + e + b) + c
    BY <1>1, <1>3, <1>6, <2>1
  <2>3. a = d + c
    BY <2>2
  <2> QED BY <2>1, <2>3
<1>12. Total(Opened(u), h - 1) = Total(Opened(todo), Len(todo))
  BY <1>1, <1>3, <1>6, <1>9
<1>13. Kept(todo', need', tokens')
  <2>1. Len(u) <= MaxDepth /\ Len(u) < MaxDepth
    BY <1>1, <1>3, <1>6, CompileAssumption
  <2> QED BY <2>1, <1>6, <1>7, <1>8, <1>11, <1>12 DEF Kept
<1> QED BY <1>13, KeepCore

LEMMA SwapStep ==
  ASSUME CoreInv, SameScope, NEW o, o \in ItemSet, Notes(o, vars, placed), o.k = Top.k,
         todo' = Append(Below, o), tokens' \in 0 .. MaxTokens, Parts(p', m', s', last', vars),
         need' \in Needs \ {"done"}, Fits(need', Top.k),
         Len(s'.vals) + Ready(need) + Held(Top) = Len(s.vals) + Ready(need') + Held(o)
  PROVE  CoreInv'
<1>1. /\ Shape(todo, vars, placed) /\ Top = todo[Len(todo)] /\ Len(todo) \in Nat \ {0}
      /\ Len(todo) <= MaxDepth /\ Held(Top) \in 0 .. 2
      /\ Len(s.vals) = Upto(todo, Len(todo)) + Ready(need) /\ Upto(todo, Len(todo)) \in Nat
  BY CoreFacts
<1>2. PICK h \in Nat : h = Len(todo)
  BY <1>1
<1>3. PICK u : u = Append(Front(todo), o)
  OBVIOUS
<1>4. Changes(vars, placed, todo, h, o, u)
  BY <1>1, <1>2, <1>3 DEF Changes
<1>5. /\ Shape(u, vars, placed) /\ Len(u) = h /\ u[h] = o
      /\ Upto(u, h) + Held(todo[h]) = Upto(todo, h) + Held(o)
      /\ Total(Opened(u), h) = Total(Opened(todo), h)
  BY <1>4, SwapShape
<1>6. todo' = u
  BY <1>3 DEF Below
<1>7. Upto(u, h) \in Nat /\ Held(o) \in Nat
  <2>1. u \in Seq(ItemSet) /\ h \in 0 .. Len(u)
    BY <1>5 DEF Shape
  <2> QED BY <2>1, WeightType, HeldType
<1>8. Len(s'.vals) \in Nat /\ Ready(need) \in Nat /\ Ready(need') \in Nat
  BY SourceFacts DEF Ready, Parts
<1>9. Len(s'.vals) = Upto(u, h) + Ready(need')
  <2>1. PICK a \in Nat, b \in Nat, c \in Nat, d \in Nat, e \in Nat, f \in Nat, g \in Nat :
          /\ a = Len(s'.vals) /\ b = Ready(need) /\ c = Ready(need') /\ d = Upto(u, h)
          /\ e = Held(Top) /\ f = Held(o) /\ g = Upto(todo, h)
    <3>1. Held(Top) \in Nat /\ Upto(todo, h) \in Nat
      BY <1>1, <1>2
    <3> QED BY <3>1, <1>7, <1>8
  <2>2. d + e = g + f
    BY <1>1, <1>2, <1>5, <2>1
  <2>3. a + b + e = (g + b) + c + f
    BY <1>1, <1>2, <2>1
  <2>4. a = d + c
    BY <2>2, <2>3
  <2> QED BY <2>1, <2>4
<1>10. Kept(todo', need', tokens')
  BY <1>1, <1>2, <1>5, <1>6, <1>9 DEF Kept
<1> QED BY <1>10, KeepCore

LEMMA PushStep ==
  ASSUME CoreInv, SameScope, Top.k \in ExprReaders, Len(todo) < MaxDepth,
         todo' = Append(todo, Item("expr")), tokens' \in 0 .. MaxTokens,
         Parts(p', m', s', last', vars), need' = "value",
         Len(s'.vals) + Ready(need) = Len(s.vals)
  PROVE  CoreInv'
<1>1. /\ Shape(todo, vars, placed) /\ Top = todo[Len(todo)] /\ Len(todo) \in Nat \ {0}
      /\ Len(s.vals) = Upto(todo, Len(todo)) + Ready(need) /\ Upto(todo, Len(todo)) \in Nat
  BY CoreFacts
<1>2. PICK h \in Nat : h = Len(todo)
  BY <1>1
<1>3. PICK o : o = Item("expr")
  OBVIOUS
<1>4. /\ o \in ItemSet /\ Notes(o, vars, placed) /\ o.k = "expr" /\ Held(o) = 0
      /\ o.k \notin ScopeKinds
  <2>1. "expr" \in Kinds /\ "expr" \notin ScopeKinds
    BY DEF Kinds, ScopeKinds
  <2> QED BY <1>3, <2>1, ItemFacts, HeldFacts
<1>5. PICK u : u = Append(todo, o)
  OBVIOUS
<1>6. Grows(vars, placed, todo, h, o, u)
  BY <1>1, <1>2, <1>4, <1>5 DEF Grows, Nests
<1>7. /\ Shape(u, vars, placed) /\ Len(u) = h + 1 /\ u[h + 1] = o
      /\ Upto(u, h + 1) = Upto(todo, h) + Held(o)
      /\ Total(Opened(u), h + 1)
           = Total(Opened(todo), h) + IF o.k \in ScopeKinds THEN 1 ELSE 0
  BY <1>6, PushShape
<1>8. Total(Opened(u), h + 1) = Total(Opened(todo), h)
  <2>1. todo \in Seq(ItemSet) /\ h \in 0 .. Len(todo)
    BY <1>1, <1>2 DEF Shape
  <2>2. Total(Opened(todo), h) \in Nat
    BY <2>1, WeightType
  <2> QED BY <2>2, <1>4, <1>7
<1>9. Len(s'.vals) \in Nat /\ Ready(need) \in Nat /\ Ready("value") = 0
  BY SourceFacts DEF Ready, Parts
<1>10. Len(s'.vals) = Upto(u, h + 1) + Ready("value")
  BY <1>1, <1>2, <1>4, <1>7, <1>9
<1>11. Len(u) <= MaxDepth
  BY <1>2, <1>7, CompileAssumption
<1>12. "value" \in Needs /\ Fits("value", o.k)
  BY <1>4 DEF Needs, Fits
<1>13. todo' = u
  BY <1>3, <1>5
<1>14. Kept(todo', need', tokens')
  BY <1>2, <1>7, <1>8, <1>10, <1>11, <1>12, <1>13 DEF Kept
<1> QED BY <1>14, KeepCore

LEMMA OpenStep ==
  ASSUME CoreInv, SameScope, NEW o, o \in ItemSet, Notes(o, vars, placed), Nests(Top.k, o.k),
         o.k \in ExprReaders, Open(o), Room, tokens' \in 0 .. MaxTokens,
         Parts(p', m', s', last', vars),
         Len(s'.vals) + Ready(need) = Len(s.vals) + Held(o)
  PROVE  CoreInv'
<1>1. /\ Shape(todo, vars, placed) /\ Top = todo[Len(todo)] /\ Len(todo) \in Nat \ {0}
      /\ Len(s.vals) = Upto(todo, Len(todo)) + Ready(need) /\ Upto(todo, Len(todo)) \in Nat
  BY CoreFacts
<1>2. PICK h \in Nat : h = Len(todo)
  BY <1>1
<1>3. PICK u : u = todo \o <<o, Item("expr")>>
  OBVIOUS
<1>4. Opens(vars, placed, todo, h, o, u)
  BY <1>1, <1>2, <1>3 DEF Opens
<1>5. /\ Shape(u, vars, placed) /\ Len(u) = h + 2 /\ u[h + 2] = Item("expr")
      /\ Upto(u, h + 2) = Upto(todo, h) + Held(o)
      /\ Total(Opened(u), h + 2) = Total(Opened(todo), h)
  BY <1>4, OpenShape
<1>6. todo' = u /\ need' = "value"
  BY <1>3 DEF Open
<1>7. Len(s'.vals) \in Nat /\ Ready(need) \in Nat /\ Ready("value") = 0 /\ Held(o) \in Nat
  BY SourceFacts, HeldType DEF Ready, Parts
<1>8. Len(s'.vals) = Upto(u, h + 2) + Ready("value")
  BY <1>1, <1>2, <1>5, <1>7
<1>9. Len(u) <= MaxDepth
  BY <1>2, <1>5 DEF Room
<1>10. "value" \in Needs /\ Fits("value", Item("expr").k)
  BY DEF Needs, Fits, Item
<1>11. Kept(todo', need', tokens')
  BY <1>2, <1>5, <1>6, <1>8, <1>9, <1>10 DEF Kept
<1> QED BY <1>11, KeepCore

(* A construct takes the place of another and begins with an expression. *)
LEMMA ReopenStep ==
  ASSUME CoreInv, SameScope, NEW o, o \in ItemSet, Notes(o, vars, placed),
         \A a : Nests(a, Top.k) => Nests(a, o.k),
         o.k \in ExprReaders, Top.k \notin ScopeKinds \cup {"func"}, Len(todo) < MaxDepth,
         todo' = Below \o <<o, Item("expr")>>, need' = "value", tokens' \in 0 .. MaxTokens,
         Parts(p', m', s', last', vars),
         Len(s'.vals) + Ready(need) + Held(Top) = Len(s.vals) + Held(o)
  PROVE  CoreInv'
<1>1. /\ Shape(todo, vars, placed) /\ Top = todo[Len(todo)] /\ Len(todo) \in Nat \ {0}
      /\ Len(s.vals) = Upto(todo, Len(todo)) + Ready(need) /\ Upto(todo, Len(todo)) \in Nat
      /\ Held(Top) \in 0 .. 2
  BY CoreFacts
<1>2. PICK h \in Nat : h = Len(todo)
  BY <1>1
<1>3. PICK low : low = Front(todo)
  OBVIOUS
<1>4. Ends(vars, placed, todo, h, low)
  BY <1>1, <1>2, <1>3 DEF Ends
<1>5. /\ Shape(low, vars, placed) /\ Len(low) = h - 1 /\ h - 1 \in Nat \ {0}
      /\ Nests(low[h - 1].k, todo[h].k)
      /\ Upto(todo, h) = Upto(low, h - 1) + Held(todo[h])
      /\ Total(Opened(todo), h)
           = Total(Opened(low), h - 1) + IF todo[h].k \in ScopeKinds THEN 1 ELSE 0
  BY <1>4, PopShape
<1>6. PICK k \in Nat : k = h - 1
  BY <1>5
<1>7. PICK u : u = low \o <<o, Item("expr")>>
  OBVIOUS
<1>8. Opens(vars, placed, low, k, o, u)
  BY <1>1, <1>2, <1>5, <1>6, <1>7 DEF Opens
<1>9. /\ Shape(u, vars, placed) /\ Len(u) = k + 2 /\ u[k + 2] = Item("expr")
      /\ Upto(u, k + 2) = Upto(low, k) + Held(o)
      /\ Total(Opened(u), k + 2) = Total(Opened(low), k)
  BY <1>8, OpenShape
<1>10. todo' = u
  BY <1>3, <1>7 DEF Below
<1>11. Len(s'.vals) \in Nat /\ Ready(need) \in Nat /\ Ready("value") = 0 /\ Held(o) \in Nat
  <2>1. Ready(need) \in Nat /\ Ready("value") = 0
    BY DEF Ready
  <2>2. Held(o) \in Nat
    BY HeldType DEF Parts
  <2>3. Len(s'.vals) \in Nat
    BY SourceFacts DEF Parts
  <2> QED BY <2>1, <2>2, <2>3
<1>12. Upto(low, k) \in Nat /\ Total(Opened(low), k) \in Nat
  <2>1. low \in Seq(ItemSet) /\ k \in 0 .. Len(low)
    BY <1>5, <1>6 DEF Shape
  <2> QED BY <2>1, WeightType
<1>13. Len(s'.vals) = Upto(u, k + 2) + Ready("value")
  <2>1. PICK a \in Nat, b \in Nat, d \in Nat, e \in Nat, f \in Nat :
          /\ a = Len(s'.vals) /\ b = Ready(need) /\ d = Upto(low, k)
          /\ e = Held(Top) /\ f = Held(o)
    <3>1. Held(Top) \in Nat
      BY <1>1
    <3> QED BY <3>1, <1>11, <1>12
  <2>2. a + b + e = (d + e) + b + f
    BY <1>1, <1>2, <1>5, <1>6, <2>1
  <2>3. a = d + f
    BY <2>2
  <2> QED BY <2>1, <2>3, <1>9, <1>11
<1>14. Len(u) <= MaxDepth
  BY <1>2, <1>6, <1>9, CompileAssumption
<1>15. "value" \in Needs /\ Fits("value", Item("expr").k)
  BY DEF Needs, Fits, Item
<1>16. Total(Opened(u), k + 2) = Total(Opened(todo), Len(todo))
  BY <1>1, <1>2, <1>5, <1>6, <1>9, <1>12
<1>17. Kept(todo', need', tokens')
  BY <1>9, <1>10, <1>13, <1>14, <1>15, <1>16 DEF Kept
<1> QED BY <1>17, KeepCore

LEMMA NewRegLength ==
  ASSUME NEW q, NEW r, q \in RegState, r = NewReg(q)
  PROVE  /\ r \in RegState /\ Dest(r) \in Reg
         /\ ~r.full => ~q.full /\ Len(r.rstack) = Len(q.rstack) + 1 /\ r.cache = q.cache
<1>1. /\ r \in RegState /\ Dest(r) \in Reg /\ (q.full => r.full)
      /\ ~q.full /\ ~r.full => LastReg(r) \in Reg /\ r = PushReg(q, LastReg(r))
  BY NewRegFacts
<1>2. ASSUME ~r.full PROVE Len(r.rstack) = Len(q.rstack) + 1 /\ r.cache = q.cache
  <2>1. PICK d \in Reg : r = PushReg(q, d)
    BY <1>1, <1>2, RegStateFacts
  <2> QED BY <2>1, PushRegFacts
<1>3. ~r.full => ~q.full
  BY <1>1, RegStateFacts
<1> QED BY <1>1, <1>2, <1>3

(* The registers at the top of the stack, which an instruction reads. *)
LEMMA TopRegIn ==
  ASSUME NEW q, NEW n, q \in RegState, n \in Nat, n < Len(q.rstack)
  PROVE  TopReg(q, n) \in Reg
<1>1. Len(q.rstack) \in Nat /\ \A i \in 1 .. Len(q.rstack) : q.rstack[i] \in Reg
  BY RegStateFacts
<1>2. Len(q.rstack) - n \in 1 .. Len(q.rstack)
  BY <1>1
<1> QED BY <1>1, <1>2 DEF TopReg

LEMMA Apply1Facts ==
  ASSUME NEW q, NEW r, q \in RegState, Len(q.rstack) > 0, r = Apply1(q)
  PROVE  /\ r \in RegState /\ Dest(r) \in Reg
         /\ ~r.full => ~q.full /\ Len(r.rstack) = Len(q.rstack)
<1>1. PICK a : a = PopReg(q)
  OBVIOUS
<1>2. a \in RegState /\ Len(a.rstack) = Len(q.rstack) - 1 /\ a.full = q.full
  BY <1>1, PopRegFacts
<1>3. r = NewReg(a)
  BY <1>1 DEF Apply1
<1>4. /\ r \in RegState /\ Dest(r) \in Reg
      /\ ~r.full => ~a.full /\ Len(r.rstack) = Len(a.rstack) + 1
  BY <1>2, <1>3, NewRegLength
<1>5. Len(q.rstack) \in Nat
  BY RegStateFacts
<1> QED BY <1>2, <1>4, <1>5

LEMMA Apply2Facts ==
  ASSUME NEW q, NEW r, q \in RegState, Len(q.rstack) > 1, r = Apply2(q)
  PROVE  /\ r \in RegState /\ Dest(r) \in Reg
         /\ ~r.full => ~q.full /\ Len(r.rstack) = Len(q.rstack) - 1
         /\ TopReg(q, 0) \in Reg /\ TopReg(q, 1) \in Reg
<1>0. Len(q.rstack) \in Nat
  BY RegStateFacts
<1>1. PICK a : a = PopReg(q)
  OBVIOUS
<1>2. a \in RegState /\ Len(a.rstack) = Len(q.rstack) - 1 /\ a.full = q.full
  BY <1>0, <1>1, PopRegFacts
<1>3. PICK b : b = PopReg(a)
  OBVIOUS
<1>4. Len(a.rstack) > 0
  BY <1>0, <1>2
<1>5. b \in RegState /\ Len(b.rstack) = Len(a.rstack) - 1 /\ b.full = a.full
  BY <1>2, <1>3, <1>4, PopRegFacts
<1>6. r = NewReg(b)
  BY <1>1, <1>3 DEF Apply2
<1>7. /\ r \in RegState /\ Dest(r) \in Reg
      /\ ~r.full => ~b.full /\ Len(r.rstack) = Len(b.rstack) + 1
  BY <1>5, <1>6, NewRegLength
<1>8. TopReg(q, 0) \in Reg /\ TopReg(q, 1) \in Reg
  BY <1>0, TopRegIn
<1> QED BY <1>0, <1>2, <1>5, <1>7, <1>8

LEMMA CollapseLength ==
  ASSUME NEW q, NEW r, q \in RegState, Len(q.rstack) > 2, r = Collapse(q)
  PROVE  /\ r \in RegState
         /\ ~r.full => ~q.full /\ Len(r.rstack) = Len(q.rstack) - 2
<1>1. CASE q.full
  BY <1>1 DEF Collapse
<1>2. CASE ~q.full
  <2>1. PICK n : n = Len(q.rstack)
    OBVIOUS
  <2>2. PICK f : f = SetUnused(SetUnused(q, q.rstack[n - 2]), q.rstack[n - 1])
    OBVIOUS
  <2>3. /\ r \in RegState /\ Len(r.rstack) = n - 2 /\ ~r.full
    <3>1. Collapses(q, n, f, r)
      BY <1>2, <2>1, <2>2 DEF Collapses
    <3> QED BY <3>1, CollapseFacts
  <2> QED BY <1>2, <2>1, <2>3
<1> QED BY <1>1, <1>2

LEMMA OtherFacts == LoadedLocal(Other)
BY RegZero DEF LoadedLocal, LastSet, Other

LEMMA TokensSpent ==
  ASSUME NEW n, n \in Nat, tokens \in 0 .. MaxTokens, Spend(n) \/ SpendBefore(n)
  PROVE  tokens' \in 0 .. MaxTokens
BY CompileAssumption DEF Spend, SpendBefore

LEMMA ReadsFacts ==
  ASSUME NEW n, Reads(n)
  PROVE  need = n /\ ~p.full /\ m.at # Stop
BY DEF Reads

LEMMA ReadyFacts ==
  /\ Ready("value") = 0 /\ Ready("more") = 1 /\ Ready("closed") = 1 /\ Ready("done") = 1
  /\ Ready("comma") = 0 /\ Ready("stmt") = 0 /\ Ready("end") = 0 /\ \A n : Ready(n) \in 0 .. 1
BY DEF Ready

(* The operands that a construct holds and the one just complete are there. *)
LEMMA HeldThere ==
  ASSUME CoreInv
  PROVE  /\ Len(s.vals) \in Nat /\ Held(Top) \in Nat /\ Ready(need) \in Nat
         /\ Held(Top) + Ready(need) <= Len(s.vals)
BY CoreFacts, ReadyFacts

(* A step whose source part ends in a new operand. *)
Results(f, n, a) ==
  /\ p' \in RegState /\ m' \in Machine /\ LoadedLocal(last')
  /\ Reading(f, vars) /\ Len(f.vals) = Len(s.vals) /\ n \in Nat /\ n <= Len(s.vals)
  /\ a \in SVal /\ s' = Yield(f, n, a)
  /\ ~p'.full => Len(p'.rstack) + n >= Len(p.rstack) + 1

LEMMA ResultParts ==
  ASSUME CoreInv, ~p.full, NEW f, NEW n, NEW a, Results(f, n, a)
  PROVE  /\ Parts(p', m', s', last', vars)
         /\ Len(s'.vals) + n = Len(s.vals) + 1
<1>0. /\ p' \in RegState /\ m' \in Machine /\ LoadedLocal(last')
      /\ Reading(f, vars) /\ Len(f.vals) = Len(s.vals) /\ n \in Nat /\ n <= Len(s.vals)
      /\ a \in SVal /\ s' = Yield(f, n, a)
      /\ ~p'.full => Len(p'.rstack) + n >= Len(p.rstack) + 1
  BY DEF Results
<1>1. Len(s.vals) \in Nat /\ Len(p.rstack) \in Nat /\ Len(s.vals) <= Len(p.rstack)
  BY CoreFacts
<1>2. PICK h \in Nat : h = Len(s.vals)
  BY <1>1
<1>3. PICK g : g = s'
  OBVIOUS
<1>4. Yields(vars, f, h, n, a, g)
  BY <1>0, <1>2, <1>3 DEF Yields
<1>5. Reading(g, vars) /\ Len(g.vals) = h - n + 1
  BY <1>4, YieldFacts
<1>6. Len(p'.rstack) \in Nat
  BY <1>0, RegStateFacts
<1>7. ~p'.full => Len(g.vals) <= Len(p'.rstack)
  BY <1>0, <1>1, <1>2, <1>5, <1>6
<1>8. Len(g.vals) + n = Len(s.vals) + 1
  BY <1>0, <1>2, <1>5
<1> QED BY <1>0, <1>3, <1>5, <1>7, <1>8 DEF Parts

-----------------------------------------------------------------------------
(* Expressions keep the types and the shape.                               *)

LEMMA LiteralCore ==
  ASSUME CoreInv, NEW v \in Literals, Literal(v)
  PROVE  CoreInv'
<1>1. /\ p \in RegState /\ m \in Machine /\ Reading(s, vars) /\ tokens \in 0 .. MaxTokens
      /\ Fits(need, Top.k) /\ Len(s.vals) \in Nat /\ Len(p.rstack) \in Nat
  BY CoreFacts
<1>2. /\ need = "value" /\ ~p.full /\ need' = "more" /\ last' = Other /\ SameScope
      /\ UNCHANGED todo /\ tokens' \in 0 .. MaxTokens
  BY <1>1, ReadsFacts, TokensSpent DEF Literal
<1>3. PICK q : q = NewReg(p)
  OBVIOUS
<1>4. p' = q /\ m' = Put(m, Dest(q), v) /\ s' = Yield(s, 0, v)
  BY <1>3 DEF Literal, Go
<1>5. v \in Val /\ v \in SVal
  BY CompileAssumption, ValueFacts
<1>6. q \in RegState /\ Dest(q) \in Reg /\ (~q.full => Len(q.rstack) = Len(p.rstack) + 1)
  BY <1>1, <1>3, NewRegLength
<1>7. m' \in Machine
  BY <1>1, <1>4, <1>5, <1>6, PutFacts
<1>8. Results(s, 0, v)
  BY <1>1, <1>2, <1>4, <1>5, <1>6, <1>7, OtherFacts DEF Results
<1>9. Parts(p', m', s', last', vars) /\ Len(s'.vals) + 0 = Len(s.vals) + 1
  BY <1>2, <1>8, ResultParts
<1>10. Len(s'.vals) + Ready(need) = Len(s.vals) + Ready(need')
  BY <1>2, <1>9, ReadyFacts
<1>11. need' \in Needs /\ Fits(need', Top.k)
  BY <1>1, <1>2 DEF Fits, Needs
<1> QED BY <1>2, <1>9, <1>10, <1>11, SameStep

-----------------------------------------------------------------------------
(* The innermost scope that has a name.                                    *)

(* A nonempty set of numbers up to a bound has a greatest one. *)
LEMMA GreatestIn ==
  ASSUME NEW n \in Nat, NEW R, R \subseteq 1 .. n, R # {}
  PROVE  \E i \in R : \A j \in R : j <= i
<1>1. PICK B : B = {n - i : i \in R}
  OBVIOUS
<1>2. B \in SUBSET Nat /\ B # {}
  <2>1. ASSUME NEW b \in B PROVE b \in Nat
    <3>1. PICK i \in R : b = n - i
      BY <1>1
    <3> QED BY <3>1
  <2> QED BY <2>1, <1>1
<1>3. \E k \in B : \A l \in B : <<l, k>> \notin OpToRel(<, Nat)
  BY <1>2, NatLessThanWellFounded, WFMin, Zenon
<1>4. PICK k \in B : \A l \in B : <<l, k>> \notin OpToRel(<, Nat)
  BY <1>3
<1>5. PICK i \in R : k = n - i
  BY <1>1
<1>6. \A a, b \in Nat : <<a, b>> \in OpToRel(<, Nat) <=> a < b
  BY DEF OpToRel
<1>7. ASSUME NEW j \in R PROVE j <= i
  <2>1. n - j \in B /\ n - j \in Nat /\ k \in Nat
    BY <1>1, <1>2
  <2>2. ~(n - j < k)
    BY <2>1, <1>4, <1>6
  <2>3. i \in Int /\ j \in Int
    OBVIOUS
  <2> QED BY <2>1, <2>2, <2>3, <1>5
<1> QED BY <1>7

LEMMA ScopeOfFacts ==
  ASSUME NEW x, Declared(x), vars \in Seq(Scope(0 .. MaxLocals - 1))
  PROVE  /\ ScopeOf(x) \in DOMAIN vars /\ x \in DOMAIN vars[ScopeOf(x)]
         /\ \A j \in DOMAIN vars : x \in DOMAIN vars[j] => j <= ScopeOf(x)
<1>1. PICK R : R = {i \in DOMAIN vars : x \in DOMAIN vars[i]}
  OBVIOUS
<1>2. Len(vars) \in Nat /\ DOMAIN vars = 1 .. Len(vars)
  BY LenProperties
<1>3. PICK n \in Nat : n = Len(vars)
  BY <1>2
<1>4. R \subseteq 1 .. n /\ R # {}
  BY <1>1, <1>2, <1>3 DEF Declared
<1>5. PICK i \in R : \A j \in R : j <= i
  BY <1>4, GreatestIn
<1>6. /\ i \in DOMAIN vars /\ x \in DOMAIN vars[i]
      /\ \A j \in DOMAIN vars : x \in DOMAIN vars[j] => j <= i
  BY <1>1, <1>5
<1> QED BY <1>6 DEF ScopeOf

LEMMA LocalFacts ==
  ASSUME NEW x, Declared(x), CoreInv
  PROVE  /\ ScopeOf(x) \in DOMAIN vars /\ x \in DOMAIN vars[ScopeOf(x)]
         /\ LocalOf(x) = vars[ScopeOf(x)][x]
         /\ LocalOf(x) \in 0 .. MaxLocals - 1 /\ LocalOf(x) \in Nat
         /\ ScopeOf(x) \in DOMAIN s.env /\ x \in DOMAIN s.env[ScopeOf(x)]
         /\ s.env[ScopeOf(x)][x] \in SVal
<1>1. vars \in Seq(Scope(0 .. MaxLocals - 1)) /\ Reading(s, vars)
  BY CoreFacts
<1>2. PICK i : i = ScopeOf(x)
  OBVIOUS
<1>3. i \in DOMAIN vars /\ x \in DOMAIN vars[i]
  BY <1>1, <1>2, ScopeOfFacts
<1>4. vars[i] \in Scope(0 .. MaxLocals - 1) /\ DOMAIN vars = 1 .. Len(vars)
  BY <1>1, <1>3, LenProperties
<1>5. vars[i][x] \in 0 .. MaxLocals - 1
  BY <1>3, <1>4 DEF Scope
<1>6. /\ s.env \in Seq(Scope(SVal)) /\ Len(s.env) = Len(vars)
      /\ DOMAIN s.env[i] = DOMAIN vars[i]
  BY <1>1, <1>3 DEF Reading, Source
<1>7. i \in DOMAIN s.env /\ s.env[i] \in Scope(SVal)
  BY <1>3, <1>4, <1>6, LenProperties
<1>8. s.env[i][x] \in SVal
  BY <1>3, <1>6, <1>7 DEF Scope
<1>9. vars[i][x] \in Nat
  BY <1>5, CompileAssumption
<1> QED BY <1>2, <1>3, <1>5, <1>6, <1>7, <1>8, <1>9 DEF LocalOf

LEMMA CachedRegIn ==
  ASSUME NEW q, NEW l, q \in RegState, l \in Nat
  PROVE  CachedReg(q, l) \in Reg
<1>1. /\ Len(q.cache) \in Nat /\ DOMAIN q.cache = 1 .. Len(q.cache)
      /\ \A k \in DOMAIN q.cache : q.cache[k] \in Reg
  BY RegStateFacts
<1>2. l < Len(q.cache) => l + 1 \in DOMAIN q.cache
  BY <1>1
<1> QED BY <1>1, <1>2, RegZero DEF CachedReg

LEMMA IdentifierCore ==
  ASSUME CoreInv, NEW x \in Names, Identifier(x)
  PROVE  CoreInv'
<1>1. /\ p \in RegState /\ m \in Machine /\ Reading(s, vars) /\ tokens \in 0 .. MaxTokens
      /\ Fits(need, Top.k) /\ Len(s.vals) \in Nat /\ Len(p.rstack) \in Nat /\ LoadedLocal(last)
  BY CoreFacts
<1>2. /\ need = "value" /\ ~p.full /\ need' = "more" /\ SameScope /\ Declared(x)
      /\ UNCHANGED todo /\ tokens' \in 0 .. MaxTokens
  BY <1>1, ReadsFacts, TokensSpent DEF Identifier
<1>3. PICK l : l = LocalOf(x)
  OBVIOUS
<1>4. l \in Nat /\ l \in 0 .. MaxLocals - 1 /\ s.env[ScopeOf(x)][x] \in SVal
  BY <1>2, <1>3, LocalFacts
<1>5. PICK g : g = Grown(p, l)
  OBVIOUS
<1>6. /\ g \in RegState /\ g.rstack = p.rstack /\ l < Len(g.cache) /\ g.full = p.full
      /\ DOMAIN g.cache = 1 .. Len(g.cache)
  BY <1>1, <1>4, <1>5, GrownFacts
<1>7. PICK r : r = CachedReg(g, l)
  OBVIOUS
<1>8. PICK q : q = NewReg(g)
  OBVIOUS
<1>9. /\ q \in RegState /\ Dest(q) \in Reg
      /\ ~q.full => Len(q.rstack) = Len(p.rstack) + 1 /\ q.cache = g.cache
  BY <1>6, <1>8, NewRegLength
<1>10. p' \in RegState /\ (~p'.full => Len(p'.rstack) = Len(p.rstack) + 1)
       /\ m' \in Machine /\ LoadedLocal(last')
  <2>1. CASE r = NoReg
    <3>1. /\ p' = [q EXCEPT !.cache[l + 1] = IF q.full THEN @ ELSE LastReg(q),
                            !.pinned = IF q.full THEN @ ELSE @ \union {LastReg(q)}]
          /\ m' = Put(m, Dest(q), m.locals[l])
          /\ last' = [op |-> "load", reg |-> Dest(q), local |-> l, depth |-> 0]
      BY <1>3, <1>5, <1>7, <1>8, <2>1 DEF Identifier, Go
    <3>2. LoadedLocal(last')
      BY <3>1, <1>4, <1>9 DEF LoadedLocal, LastSet
    <3>3. m' \in Machine
      <4>1. m.locals[l] \in Val
        BY <1>1, <1>4, MachineFacts
      <4> QED BY <3>1, <4>1, <1>1, <1>9, PutFacts
    <3>4. CASE q.full
      <4>1. p' = [q EXCEPT !.cache[l + 1] = @, !.pinned = @]
        BY <3>1, <3>4
      <4>2. p' = q
        <5>1. q.cache \in Seq(Reg)
          BY <1>9, RegStateFacts
        <5>2. [q.cache EXCEPT ![l + 1] = q.cache[l + 1]] = q.cache
          BY <5>1
        <5> QED BY <4>1, <5>2, <1>9 DEF RegState
      <4> QED BY <4>2, <3>2, <3>3, <3>4, <1>9
    <3>5. CASE ~q.full
      <4>1. p' = [q EXCEPT !.cache[l + 1] = LastReg(q), !.pinned = @ \union {LastReg(q)}]
        BY <3>1, <3>5
      <4>2. Dest(q) = LastReg(q)
        BY <3>5 DEF Dest
      <4>3. PICK c : c = [q.cache EXCEPT ![l + 1] = LastReg(q)]
        OBVIOUS
      <4>4. c \in Seq(Reg)
        <5>1. q.cache \in Seq(Reg)
          BY <1>9, RegStateFacts
        <5>2. l + 1 \in 1 .. Len(q.cache)
          BY <3>5, <1>4, <1>6, <1>9
        <5> QED BY <5>1, <5>2, <4>2, <4>3, <1>9, ExceptSeq
      <4>5. p' = [q EXCEPT !.cache = c, !.pinned = q.pinned \union {LastReg(q)}]
        BY <4>1, <4>3, <1>9 DEF RegState
      <4>6. p' \in RegState /\ p'.rstack = q.rstack /\ p'.full = q.full
        BY <4>2, <4>4, <4>5, <1>9 DEF RegState
      <4> QED BY <4>6, <3>2, <3>3, <3>5, <1>9
    <3> QED BY <3>4, <3>5, <1>9, RegStateFacts
  <2>2. CASE r # NoReg
    <3>1. /\ p' = [PushReg(g, r) EXCEPT !.pinned = @ \union {r}] /\ m' = m /\ last' = last
      BY <1>3, <1>5, <1>7, <1>8, <2>2 DEF Identifier, Go
    <3>2. PICK h : h = PushReg(g, r)
      OBVIOUS
    <3>3. r \in Reg
      BY <1>4, <1>6, <1>7, CachedRegIn
    <3>4. h \in RegState /\ Len(h.rstack) = Len(g.rstack) + 1
      BY <1>6, <3>2, <3>3, PushRegFacts
    <3>5. p' \in RegState /\ p'.rstack = h.rstack
      BY <3>1, <3>2, <3>3, <3>4 DEF RegState
    <3> QED BY <3>1, <3>4, <3>5, <1>1, <1>6
  <2> QED BY <2>1, <2>2
<1>11. PICK a \in SVal : a = s.env[ScopeOf(x)][x]
  BY <1>4
<1>12. s' = Yield(s, 0, a)
  BY <1>11 DEF Identifier, Go
<1>13. Results(s, 0, a)
  BY <1>1, <1>2, <1>10, <1>12 DEF Results
<1>14. Parts(p', m', s', last', vars) /\ Len(s'.vals) + 0 = Len(s.vals) + 1
  BY <1>2, <1>13, ResultParts
<1>15. Len(s'.vals) + Ready(need) = Len(s.vals) + Ready(need')
  BY <1>2, <1>14, ReadyFacts
<1>16. need' \in Needs /\ Fits(need', Top.k)
  BY <1>1, <1>2 DEF Fits, Needs
<1> QED BY <1>2, <1>14, <1>15, <1>16, SameStep

LEMMA GeneratedFacts ==
  ASSUME CoreInv, need \in {"more", "closed"}, ~p.full, NEW g, g = Generated
  PROVE  /\ Parts(g.p, g.m, g.s, g.last, vars)
         /\ Len(g.s.vals) + Top.op = Len(s.vals) /\ Len(g.s.vals) > 0
         /\ ~g.p.full => Len(g.p.rstack) + Top.op = Len(p.rstack)
         /\ Top.k = "expr" /\ Held(Top) = Top.op /\ Top.op \in 0 .. 1
<1>1. /\ p \in RegState /\ m \in Machine /\ Reading(s, vars) /\ LoadedLocal(last)
      /\ Fits(need, Top.k) /\ Len(s.vals) \in Nat /\ Len(p.rstack) \in Nat
      /\ Len(s.vals) <= Len(p.rstack) /\ Top.op \in 0 .. 1
  BY CoreFacts
<1>2. Top.k = "expr" /\ Held(Top) = Top.op
  BY <1>1, HeldFacts DEF Fits
<1>3. Top.op + 1 <= Len(s.vals)
  BY <1>2, HeldThere, ReadyFacts
<1>4. CASE Top.op = 0
  <2>1. g.p = p /\ g.m = m /\ g.s = s /\ g.last = last
    BY <1>4 DEF Generated
  <2> QED BY <2>1, <1>1, <1>2, <1>3, <1>4 DEF Parts
<1>5. CASE Top.op = 1
  <2>1. PICK q : q = Apply2(p)
    OBVIOUS
  <2>2. /\ q \in RegState /\ Dest(q) \in Reg
        /\ ~q.full => Len(q.rstack) = Len(p.rstack) - 1
        /\ TopReg(p, 0) \in Reg /\ TopReg(p, 1) \in Reg
    <3>1. Len(p.rstack) > 1
      BY <1>1, <1>3, <1>5
    <3> QED BY <3>1, <2>1, <1>1, Apply2Facts
  <2>3. PICK b \in Val : b = Mix(m.regs[TopReg(p, 1)], m.regs[TopReg(p, 0)])
    <3>1. m.regs[TopReg(p, 1)] \in Val /\ m.regs[TopReg(p, 0)] \in Val
      BY <2>2, <1>1, MachineFacts
    <3> QED BY <3>1, ValueFacts
  <2>4. PICK a \in SVal : a = Mix(Operand(s, 1), Operand(s, 0))
    <3>1. Operand(s, 1) \in SVal /\ Operand(s, 0) \in SVal
      BY <1>1, <1>3, <1>5, SourceFacts
    <3> QED BY <3>1, ValueFacts
  <2>5. g.p = q /\ g.m = Put(m, Dest(q), b) /\ g.s = Yield(s, 2, a) /\ g.last = Other
    BY <1>5, <2>1, <2>3, <2>4 DEF Generated
  <2>6. g.m \in Machine
    BY <2>5, <2>2, <1>1, PutFacts
  <2>7. PICK f : f = g.s
    OBVIOUS
  <2>8. PICK h \in Nat : h = Len(s.vals)
    BY <1>1
  <2>9. Yields(vars, s, h, 2, a, f)
    BY <1>1, <1>3, <1>5, <2>5, <2>7, <2>8 DEF Yields
  <2>10. Reading(f, vars) /\ Len(f.vals) = h - 2 + 1
    BY <2>9, YieldFacts
  <2>11. Len(f.vals) + 1 = Len(s.vals) /\ Len(f.vals) > 0
    BY <2>8, <2>10, <1>3, <1>5
  <2>12. ~q.full => Len(f.vals) <= Len(q.rstack) /\ Len(q.rstack) + 1 = Len(p.rstack)
    BY <2>2, <2>11, <1>1
  <2> QED BY <2>2, <2>5, <2>6, <2>7, <2>10, <2>11, <2>12, <1>2, <1>5, OtherFacts DEF Parts
<1> QED BY <1>1, <1>4, <1>5

LEMMA OperatorCore ==
  ASSUME CoreInv, Operator
  PROVE  CoreInv'
<1>1. /\ need = "more" /\ ~p.full /\ need' = "value" /\ SameScope
      /\ tokens' \in 0 .. MaxTokens /\ todo' = Append(Below, [Top EXCEPT !.op = 1])
  BY CoreFacts, ReadsFacts, TokensSpent DEF Operator
<1>2. PICK g : g = Generated
  OBVIOUS
<1>3. p' = g.p /\ m' = g.m /\ s' = g.s /\ last' = g.last
  BY <1>2 DEF Operator, Go
<1>4. /\ Parts(g.p, g.m, g.s, g.last, vars) /\ Len(g.s.vals) + Top.op = Len(s.vals)
      /\ Top.k = "expr" /\ Held(Top) = Top.op /\ Top.op \in 0 .. 1
  BY <1>1, <1>2, GeneratedFacts
<1>5. PICK o : o = [Top EXCEPT !.op = 1]
  OBVIOUS
<1>6. o \in ItemSet /\ Notes(o, vars, placed) /\ o.k = Top.k /\ Held(o) = 1
  <2>1. Top \in ItemSet /\ Notes(Top, vars, placed)
    BY CoreFacts
  <2>2. /\ o.k = "expr" /\ o.op = 1 /\ o.params = Top.params
        /\ o = [k |-> "expr", op |-> 1, reg |-> Top.reg, x |-> Top.x, params |-> Top.params]
    BY <2>1, <1>4, <1>5 DEF ItemSet
  <2>3. o \in ItemSet
    BY <2>1, <2>2, <1>4 DEF ItemSet
  <2>4. Notes(o, vars, placed)
    BY <2>1, <2>2, <1>4 DEF Notes
  <2> QED BY <2>2, <2>3, <2>4, <1>4, HeldFacts
<1>7. Len(s'.vals) + Ready(need) + Held(Top) = Len(s.vals) + Ready(need') + Held(o)
  <2>1. Len(s'.vals) \in Nat
    BY <1>3, <1>4, SourceFacts DEF Parts
  <2> QED BY <2>1, <1>1, <1>3, <1>4, <1>6, ReadyFacts
<1>8. need' \in Needs \ {"done"} /\ Fits(need', Top.k)
  BY <1>1, <1>4 DEF Fits, Needs
<1>9. Parts(p', m', s', last', vars)
  BY <1>3, <1>4
<1>10. todo' = Append(Below, o)
  BY <1>1, <1>5
<1> QED BY <1>1, <1>6, <1>7, <1>8, <1>9, <1>10, SwapStep

LEMMA EndBinaryCore ==
  ASSUME CoreInv, EndBinary
  PROVE  CoreInv'
<1>1. /\ need \in {"more", "closed"} /\ ~p.full /\ need' = "done" /\ SameScope
      /\ tokens' \in 0 .. MaxTokens /\ todo' = Below
  BY CoreFacts, ReadsFacts DEF EndBinary
<1>2. PICK g : g = Generated
  OBVIOUS
<1>3. p' = g.p /\ m' = g.m /\ s' = g.s /\ last' = g.last
  BY <1>2 DEF EndBinary, Go
<1>4. /\ Parts(g.p, g.m, g.s, g.last, vars) /\ Len(g.s.vals) + Top.op = Len(s.vals)
      /\ Top.k = "expr" /\ Held(Top) = Top.op /\ Top.op \in 0 .. 1
  BY <1>1, <1>2, GeneratedFacts
<1>5. Len(s'.vals) + Ready(need) + Held(Top) = Len(s.vals) + Ready(need')
  <2>1. Len(s'.vals) \in Nat
    BY <1>3, <1>4, SourceFacts DEF Parts
  <2> QED BY <2>1, <1>1, <1>3, <1>4, ReadyFacts
<1>6. FitsBelow(Top.k, need') /\ Top.k \notin ScopeKinds
  BY <1>1, <1>4 DEF FitsBelow, ScopeKinds
<1>7. Parts(p', m', s', last', vars)
  BY <1>3, <1>4
<1> QED BY <1>1, <1>5, <1>6, <1>7, PopStep

LEMMA SwapPop ==
  ASSUME NEW q, NEW r, q \in RegState, Len(q.rstack) > 1, r = PopReg(SwapTop(q))
  PROVE  r \in RegState /\ Len(r.rstack) = Len(q.rstack) - 1 /\ r.full = q.full
<1>1. PICK a : a = SwapTop(q)
  OBVIOUS
<1>2. a \in RegState /\ Len(a.rstack) = Len(q.rstack) /\ a.full = q.full
  BY <1>1, SwapTopFacts
<1>3. Len(a.rstack) > 0
  BY <1>2, RegStateFacts
<1> QED BY <1>1, <1>2, <1>3, PopRegFacts

LEMMA LogicalCore ==
  ASSUME CoreInv, NEW kind \in {"and", "or"}, Logical(kind)
  PROVE  CoreInv'
<1>1. /\ need = "more" /\ ~p.full /\ need' = "value" /\ SameScope /\ last' = Other
      /\ tokens' \in 0 .. MaxTokens /\ Len(todo) < MaxDepth
  BY CoreFacts, ReadsFacts, TokensSpent DEF Logical
<1>2. PICK g : g = Generated
  OBVIOUS
<1>3. /\ Parts(g.p, g.m, g.s, g.last, vars)
      /\ Len(g.s.vals) + Top.op = Len(s.vals) /\ Len(g.s.vals) > 0
      /\ ~g.p.full => Len(g.p.rstack) + Top.op = Len(p.rstack)
      /\ Top.k = "expr" /\ Held(Top) = Top.op /\ Top.op \in 0 .. 1
  BY <1>1, <1>2, GeneratedFacts
<1>4. ~g.p.full
  BY <1>2 DEF Logical
<1>5. PICK b : b = FlushCached(g.p)
  OBVIOUS
<1>6. b \in RegState /\ b.rstack = g.p.rstack
  BY <1>3, <1>5, FlushFacts DEF Parts
<1>7. PICK q : q = NewReg(b)
  OBVIOUS
<1>8. q \in RegState /\ Dest(q) \in Reg /\ (~q.full => Len(q.rstack) = Len(b.rstack) + 1)
  BY <1>6, <1>7, NewRegLength
<1>9. PICK e : e = IF kind = "and" THEN Put(g.m, Dest(q), 0) ELSE g.m
  OBVIOUS
<1>10. e \in Machine
  BY <1>3, <1>8, <1>9, ValueFacts, PutFacts DEF Parts
<1>11. PICK v, w : v = e.regs[LastReg(g.p)] /\ w = Operand(g.s, 0)
  OBVIOUS
<1>12. PICK label : label = EndOf(Len(todo))
  OBVIOUS
<1>13. label \in Label
  <2>1. Len(todo) \in Nat
    BY CoreFacts
  <2> QED BY <2>1, <1>12, LabelFacts
<1>14. Len(g.s.vals) \in Nat /\ Len(b.rstack) \in Nat
  BY <1>3, <1>6, SourceFacts, RegStateFacts DEF Parts
<1>15. Parts(p', m', s', last', vars) /\ Len(s'.vals) = Len(g.s.vals)
  <2>1. CASE q.full
    <3>1. p' = q /\ m' = g.m /\ s' = g.s
      BY <2>1, <1>2, <1>5, <1>7 DEF Logical, Go
    <3> QED BY <3>1, <2>1, <1>1, <1>3, <1>8, OtherFacts DEF Parts
  <2>2. CASE ~q.full
    <3>1. PICK c, d \in BOOLEAN :
            /\ p' = PopReg(SwapTop(q)) /\ m' = JumpIf(c, e, label)
            /\ s' = JumpIf(d, Yield(g.s, 1, Unknown), label)
      <4>1. /\ p' = PopReg(SwapTop(q))
            /\ m' = JumpIf(IF kind = "and" THEN v = 0 ELSE v # 0, e, label)
            /\ s' = JumpIf(IF kind = "and" THEN w = 0 ELSE w # 0, Yield(g.s, 1, Unknown), label)
        BY <2>2, <1>2, <1>5, <1>7, <1>9, <1>11, <1>12 DEF Logical, Go
      <4> QED BY <4>1
    <3>2. PICK y : y = Yield(g.s, 1, Unknown)
      OBVIOUS
    <3>3. PICK h \in Nat : h = Len(g.s.vals)
      BY <1>14
    <3>4. Yields(vars, g.s, h, 1, Unknown, y)
      BY <3>2, <3>3, <1>3, ValueFacts DEF Yields, Parts
    <3>5. Reading(y, vars) /\ Len(y.vals) = h - 1 + 1
      BY <3>4, YieldFacts
    <3>6. Reading(s', vars) /\ s'.vals = y.vals
      BY <3>1, <3>2, <3>5, <1>13, SourceJumpFacts DEF JumpIf
    <3>7. m' \in Machine
      BY <3>1, <1>10, <1>13, JumpFacts DEF JumpIf
    <3>8. p' \in RegState /\ Len(p'.rstack) = Len(b.rstack)
      <4>1. Len(q.rstack) > 1
        BY <2>2, <1>3, <1>4, <1>6, <1>8, <1>14 DEF Parts
      <4>2. p' \in RegState /\ Len(p'.rstack) = Len(q.rstack) - 1
        BY <4>1, <3>1, <1>8, SwapPop
      <4> QED BY <4>2, <2>2, <1>8, <1>14
    <3>9. Len(s'.vals) = Len(g.s.vals)
      BY <3>3, <3>5, <3>6
    <3>10. Len(s'.vals) <= Len(p'.rstack)
      BY <3>8, <3>9, <1>3, <1>4, <1>6 DEF Parts
    <3> QED BY <3>6, <3>7, <3>8, <3>9, <3>10, <1>1, OtherFacts DEF Parts
  <2> QED BY <2>1, <2>2, <1>8, RegStateFacts
<1>16. PICK o : o = [Item(kind) EXCEPT !.reg = Dest(q)]
  OBVIOUS
<1>17. o \in ItemSet /\ Notes(o, vars, placed) /\ o.k = kind /\ Held(o) = 1
  <2>1. kind \in Kinds /\ kind \notin {"let", "assign", "compound"} /\ kind \in LogicalKinds
    BY DEF Kinds, ExprReaders, LogicalKinds
  <2>2. o \in ItemSet /\ Notes(o, vars, placed) /\ o.k = kind
    BY <2>1, <1>8, <1>16, ItemFacts
  <2> QED BY <2>1, <2>2, HeldFacts
<1>18. todo' = Below \o <<o, Item("expr")>>
  BY <1>2, <1>5, <1>7, <1>16 DEF Logical
<1>19. Len(s'.vals) + Ready(need) + Held(Top) = Len(s.vals) + Held(o)
  <2>1. Ready(need) = 1 /\ Held(o) = 1
    BY <1>1, <1>17, ReadyFacts
  <2>2. Len(s'.vals) + Top.op = Len(s.vals)
    BY <1>3, <1>15
  <2>3. Len(s'.vals) \in Nat /\ Top.op \in Nat /\ Held(Top) = Top.op
    BY <1>3, <1>14, <1>15
  <2> QED BY <2>1, <2>2, <2>3
<1>20. /\ \A a : Nests(a, Top.k) => Nests(a, o.k)
       /\ o.k \in ExprReaders /\ Top.k \notin ScopeKinds \cup {"func"}
  BY <1>3, <1>17 DEF Nests, ExprReaders, OperandKinds, ListKinds, LogicalKinds, StatementKinds,
                     BlockKinds, ScopeKinds
<1> QED BY <1>1, <1>15, <1>17, <1>18, <1>19, <1>20, ReopenStep

(* An instruction takes a construct's operands and gives one. *)
LEMMA EndStep ==
  ASSUME CoreInv, ~p.full, SameScope, todo' = Below, tokens' \in 0 .. MaxTokens,
         FitsBelow(Top.k, need'), Ready(need') = 1, Top.k \notin ScopeKinds,
         NEW f, NEW n, NEW a, Results(f, n, a), n = Held(Top) + Ready(need)
  PROVE  CoreInv'
<1>1. Parts(p', m', s', last', vars) /\ Len(s'.vals) + n = Len(s.vals) + 1
  BY ResultParts
<1>2. Len(s'.vals) + Ready(need) + Held(Top) = Len(s.vals) + Ready(need')
  <2>1. PICK b \in Nat, c \in Nat, d \in Nat : b = Len(s'.vals) /\ c = Ready(need) /\ d = Held(Top)
    <3>1. Len(s'.vals) \in Nat
      BY <1>1, SourceFacts DEF Parts
    <3> QED BY <3>1, HeldThere
  <2>2. b + (d + c) = Len(s.vals) + 1
    BY <1>1, <2>1
  <2>3. b + c + d = b + (d + c)
    OBVIOUS
  <2> QED BY <2>1, <2>2, <2>3
<1> QED BY <1>1, <1>2, PopStep

(* What the two last operands and the registers at the top of the stack are. *)
LEMMA LastOperands ==
  ASSUME CoreInv, ~p.full, NEW n, n \in Nat, n < Held(Top) + Ready(need)
  PROVE  Operand(s, n) \in SVal /\ TopReg(p, n) \in Reg /\ m.regs[TopReg(p, n)] \in Val
<1>1. n < Len(s.vals) /\ n < Len(p.rstack) /\ p \in RegState /\ m \in Machine /\ Reading(s, vars)
  <2>1. /\ Len(s.vals) \in Nat /\ Held(Top) \in Nat /\ Ready(need) \in Nat
        /\ Held(Top) + Ready(need) <= Len(s.vals)
    BY HeldThere
  <2>2. /\ Len(p.rstack) \in Nat /\ Len(s.vals) <= Len(p.rstack)
        /\ p \in RegState /\ m \in Machine /\ Reading(s, vars)
    BY CoreFacts
  <2> QED BY <2>1, <2>2
<1>2. Operand(s, n) \in SVal
  BY <1>1, SourceFacts
<1>3. TopReg(p, n) \in Reg
  BY <1>1, TopRegIn
<1> QED BY <1>1, <1>2, <1>3, MachineFacts

LEMMA LastRegTop ==
  ASSUME NEW q, q \in RegState PROVE LastReg(q) = TopReg(q, 0)
<1>1. Len(q.rstack) \in Nat
  BY RegStateFacts
<1>2. Len(q.rstack) - 0 = Len(q.rstack)
  BY <1>1
<1> QED BY <1>2 DEF LastReg, TopReg

LEMMA LastValue ==
  ASSUME CoreInv, ~p.full, 0 < Held(Top) + Ready(need)
  PROVE  Operand(s, 0) \in SVal /\ LastReg(p) \in Reg /\ m.regs[LastReg(p)] \in Val
<1>1. LastReg(p) = TopReg(p, 0)
  BY CoreFacts, LastRegTop
<1>2. Operand(s, 0) \in SVal /\ TopReg(p, 0) \in Reg /\ m.regs[TopReg(p, 0)] \in Val
  BY LastOperands
<1> QED BY <1>1, <1>2

LEMMA EndLogicalCore ==
  ASSUME CoreInv, EndLogical
  PROVE  CoreInv'
<1>1. /\ need = "done" /\ ~p.full /\ need' = "done" /\ SameScope /\ last' = Other
      /\ tokens' \in 0 .. MaxTokens /\ todo' = Below /\ Top.k \in {"and", "or"}
  BY CoreFacts, ReadsFacts DEF EndLogical
<1>2. /\ p \in RegState /\ m \in Machine /\ Reading(s, vars) /\ Len(todo) \in Nat
      /\ Len(s.vals) \in Nat /\ Len(p.rstack) \in Nat /\ Len(s.vals) <= Len(p.rstack)
      /\ Top.reg \in Reg
  BY <1>1, CoreFacts
<1>3. Top.k \in LogicalKinds /\ Held(Top) = 1 /\ Ready(need) = 1 /\ 2 <= Len(s.vals)
  BY <1>1, <1>2, HeldFacts, HeldThere, ReadyFacts DEF LogicalKinds
<1>4. PICK b : b = FlushCached(p)
  OBVIOUS
<1>5. b \in RegState /\ b.rstack = p.rstack
  BY <1>2, <1>4, FlushFacts
<1>6. PICK q : q = PopReg(b)
  OBVIOUS
<1>7. q \in RegState /\ Len(q.rstack) = Len(p.rstack) - 1
  BY <1>2, <1>3, <1>5, <1>6, PopRegFacts
<1>8. PICK label : label = EndOf(Len(todo))
  OBVIOUS
<1>9. label \in Label
  BY <1>2, <1>8, LabelFacts
<1>10. PICK e, f : e = Land(m, label) /\ f = Land(s, label)
  OBVIOUS
<1>11. e \in Machine /\ Reading(f, vars) /\ f.vals = s.vals
  BY <1>2, <1>9, <1>10, JumpFacts, SourceJumpFacts
<1>12. PICK short : short = IF Top.k = "and" THEN 0 ELSE 1
  OBVIOUS
<1>13. PICK b1 \in Val : b1 = IF m.at = label THEN short ELSE Truth(m.regs[LastReg(p)])
  <2>1. m.regs[LastReg(p)] \in Val
    BY <1>1, <1>2, <1>3, LastValue
  <2> QED BY <2>1, <1>12, ValueFacts
<1>14. PICK a \in SVal : a = IF s.at = label THEN short ELSE Truth(Operand(s, 0))
  <2>1. Operand(s, 0) \in SVal
    BY <1>1, <1>3, LastOperands
  <2> QED BY <2>1, <1>12, ValueFacts
<1>15. p' = q /\ m' = Put(e, Top.reg, b1) /\ s' = Yield(f, 2, a)
  BY <1>4, <1>6, <1>8, <1>10, <1>12, <1>13, <1>14 DEF EndLogical, Go
<1>16. m' \in Machine
  BY <1>2, <1>11, <1>15, PutFacts
<1>17. Results(f, 2, a)
  BY <1>1, <1>2, <1>3, <1>7, <1>11, <1>15, <1>16, OtherFacts DEF Results
<1>18. FitsBelow(Top.k, need') /\ Top.k \notin ScopeKinds /\ Ready(need') = 1
  BY <1>1, ReadyFacts DEF FitsBelow, ScopeKinds, LogicalKinds
<1>19. 2 = Held(Top) + Ready(need)
  BY <1>3
<1> QED BY <1>1, <1>17, <1>18, <1>19, EndStep

(* A step that only reads: registers, machine and source stay. *)
LEMMA PartsSame ==
  ASSUME CoreInv, ~p.full, UNCHANGED <<p, m, s, last>>
  PROVE  Parts(p', m', s', last', vars)
BY CoreFacts DEF Parts

LEMMA PrefixCore ==
  ASSUME CoreInv, NEW kind \in {"paren", "not"}, Prefix(kind)
  PROVE  CoreInv'
<1>1. /\ need = "value" /\ ~p.full /\ SameScope /\ Room /\ UNCHANGED <<p, m, s, last>>
      /\ tokens' \in 0 .. MaxTokens /\ Open(Item(kind)) /\ Fits(need, Top.k)
      /\ Len(s.vals) \in Nat
  BY CoreFacts, ReadsFacts, TokensSpent DEF Prefix
<1>2. PICK o : o = Item(kind)
  OBVIOUS
<1>3. o \in ItemSet /\ Notes(o, vars, placed) /\ o.k = kind /\ Held(o) = 0
  <2>1. kind \in Kinds /\ kind \notin {"let", "assign", "compound"}
    BY DEF Kinds, ExprReaders, OperandKinds
  <2> QED BY <2>1, <1>2, ItemFacts, HeldFacts
<1>4. Nests(Top.k, o.k) /\ o.k \in ExprReaders
  BY <1>1, <1>3 DEF Fits, Nests, ExprReaders, OperandKinds
<1>5. Len(s'.vals) + Ready(need) = Len(s.vals) + Held(o)
  BY <1>1, <1>3, ReadyFacts
<1> QED BY <1>1, <1>2, <1>3, <1>4, <1>5, PartsSame, OpenStep

LEMMA EndPrefixCore ==
  ASSUME CoreInv, EndPrefix
  PROVE  CoreInv'
<1>1. /\ need = "done" /\ ~p.full /\ SameScope /\ tokens' \in 0 .. MaxTokens /\ todo' = Below
      /\ Top.k \in {"paren", "not"} /\ need' = IF Top.k = "paren" THEN "more" ELSE "closed"
  BY CoreFacts, ReadsFacts DEF EndPrefix
<1>2. /\ p \in RegState /\ m \in Machine /\ Reading(s, vars)
      /\ Len(s.vals) \in Nat /\ Len(p.rstack) \in Nat /\ Len(s.vals) <= Len(p.rstack)
  BY <1>1, CoreFacts
<1>3. Held(Top) = 0 /\ Ready(need) = 1 /\ 1 <= Len(s.vals) /\ Ready(need') = 1
  BY <1>1, <1>2, HeldFacts, HeldThere, ReadyFacts
<1>4. FitsBelow(Top.k, need') /\ Top.k \notin ScopeKinds
  BY <1>1 DEF FitsBelow, ScopeKinds, OperandKinds
<1>5. CASE Top.k = "paren"
  <2>1. UNCHANGED <<p, m, s, last>>
    BY <1>5 DEF EndPrefix
  <2>2. Len(s'.vals) + Ready(need) + Held(Top) = Len(s.vals) + Ready(need')
    BY <2>1, <1>2, <1>3
  <2> QED BY <2>1, <2>2, <1>1, <1>4, PartsSame, PopStep
<1>6. CASE Top.k # "paren"
  <2>1. PICK q : q = Apply1(p)
    OBVIOUS
  <2>2. q \in RegState /\ Dest(q) \in Reg /\ (~q.full => Len(q.rstack) = Len(p.rstack))
    BY <2>1, <1>2, <1>3, Apply1Facts
  <2>3. PICK b \in Val : b = Not(m.regs[LastReg(p)])
    <3>1. m.regs[LastReg(p)] \in Val
      BY <1>1, <1>2, <1>3, LastValue
    <3> QED BY <3>1, ValueFacts
  <2>4. PICK a \in SVal : a = Not(Operand(s, 0))
    <3>1. Operand(s, 0) \in SVal
      BY <1>1, <1>3, LastOperands
    <3> QED BY <3>1, ValueFacts
  <2>5. p' = q /\ m' = Put(m, Dest(q), b) /\ s' = Yield(s, 1, a) /\ last' = Other
    BY <2>1, <2>3, <2>4, <1>6 DEF EndPrefix, Go
  <2>6. m' \in Machine
    BY <1>2, <2>2, <2>5, PutFacts
  <2>7. Results(s, 1, a)
    BY <1>2, <1>3, <2>2, <2>5, <2>6, OtherFacts DEF Results
  <2>8. 1 = Held(Top) + Ready(need)
    BY <1>3
  <2> QED BY <1>1, <1>3, <1>4, <2>7, <2>8, EndStep
<1> QED BY <1>5, <1>6

LEMMA IndexCore ==
  ASSUME CoreInv, Index
  PROVE  CoreInv'
<1>1. /\ need = "more" /\ ~p.full /\ SameScope /\ Room /\ UNCHANGED <<p, m, s, last>>
      /\ tokens' \in 0 .. MaxTokens /\ Open([Item("index") EXCEPT !.reg = LastReg(p)])
      /\ Fits(need, Top.k) /\ Len(s.vals) \in Nat /\ p \in RegState
  BY CoreFacts, ReadsFacts, TokensSpent DEF Index
<1>2. LastReg(p) \in Reg
  BY <1>1, HeldThere, LastValue, ReadyFacts
<1>3. PICK o : o = [Item("index") EXCEPT !.reg = LastReg(p)]
  OBVIOUS
<1>4. o \in ItemSet /\ Notes(o, vars, placed) /\ o.k = "index" /\ Held(o) = 1
  <2>1. "index" \in Kinds
    BY DEF Kinds, ExprReaders, OperandKinds
  <2> QED BY <2>1, <1>2, <1>3, ItemFacts, HeldFacts
<1>5. Nests(Top.k, o.k) /\ o.k \in ExprReaders
  BY <1>1, <1>4 DEF Fits, Nests, ExprReaders, OperandKinds
<1>6. Len(s'.vals) + Ready(need) = Len(s.vals) + Held(o)
  BY <1>1, <1>4, ReadyFacts
<1> QED BY <1>1, <1>3, <1>4, <1>5, <1>6, PartsSame, OpenStep

LEMMA IdxGetCore ==
  ASSUME CoreInv, IdxGet
  PROVE  CoreInv'
<1>1. /\ need = "done" /\ ~p.full /\ SameScope /\ tokens' \in 0 .. MaxTokens /\ todo' = Below
      /\ Top.k = "index" /\ need' = "more" /\ last' = Other
  BY CoreFacts, ReadsFacts DEF IdxGet
<1>2. /\ p \in RegState /\ m \in Machine /\ Reading(s, vars) /\ Top.reg \in Reg
      /\ Len(s.vals) \in Nat /\ Len(p.rstack) \in Nat /\ Len(s.vals) <= Len(p.rstack)
  BY <1>1, CoreFacts
<1>3. Held(Top) = 1 /\ Ready(need) = 1 /\ 2 <= Len(s.vals) /\ Ready(need') = 1
  BY <1>1, <1>2, HeldFacts, HeldThere, ReadyFacts
<1>4. FitsBelow(Top.k, need') /\ Top.k \notin ScopeKinds
  BY <1>1 DEF FitsBelow, ScopeKinds, OperandKinds
<1>5. PICK q : q = NewReg(p)
  OBVIOUS
<1>6. q \in RegState /\ Dest(q) \in Reg /\ (~q.full => Len(q.rstack) = Len(p.rstack) + 1)
  BY <1>2, <1>5, NewRegLength
<1>7. PICK b \in Val : b = Mix(m.regs[Top.reg], m.regs[LastReg(p)])
  <2>1. m.regs[LastReg(p)] \in Val /\ m.regs[Top.reg] \in Val
    BY <1>1, <1>2, <1>3, LastValue, MachineFacts
  <2> QED BY <2>1, ValueFacts
<1>8. PICK a \in SVal : a = Mix(Operand(s, 1), Operand(s, 0))
  <2>1. Operand(s, 0) \in SVal /\ Operand(s, 1) \in SVal
    BY <1>1, <1>3, LastOperands
  <2> QED BY <2>1, ValueFacts
<1>9. p' = Collapse(q) /\ m' = Put(m, Dest(q), b) /\ s' = Yield(s, 2, a)
  BY <1>5, <1>7, <1>8 DEF IdxGet, Go
<1>10. p' \in RegState /\ (~p'.full => Len(p'.rstack) + 1 = Len(p.rstack))
  <2>1. CASE q.full
    BY <2>1, <1>6, <1>9 DEF Collapse
  <2>2. CASE ~q.full
    <3>1. Len(q.rstack) > 2
      BY <2>2, <1>2, <1>3, <1>6
    <3>2. p' \in RegState /\ (~p'.full => Len(p'.rstack) = Len(q.rstack) - 2)
      BY <3>1, <1>6, <1>9, CollapseLength
    <3> QED BY <3>2, <2>2, <1>2, <1>6
  <2> QED BY <2>1, <2>2
<1>11. m' \in Machine
  BY <1>2, <1>6, <1>7, <1>9, PutFacts
<1>12. Results(s, 2, a)
  BY <1>1, <1>2, <1>3, <1>9, <1>10, <1>11, OtherFacts DEF Results
<1>13. 2 = Held(Top) + Ready(need)
  BY <1>3
<1> QED BY <1>1, <1>3, <1>4, <1>12, <1>13, EndStep

LEMMA IdxSetCore ==
  ASSUME CoreInv, NEW op \in 0 .. 1, IdxSet(op)
  PROVE  CoreInv'
<1>1. /\ need = "done" /\ ~p.full /\ need' = "value" /\ SameScope /\ UNCHANGED <<p, m, s, last>>
      /\ tokens' \in 0 .. MaxTokens /\ Top.k = "index" /\ Len(todo) < MaxDepth
      /\ Len(s.vals) \in Nat /\ p \in RegState /\ Top.reg \in Reg
  BY CoreFacts, ReadsFacts, TokensSpent DEF IdxSet
<1>2. Held(Top) = 1 /\ Ready(need) = 1
  BY <1>1, HeldFacts, ReadyFacts
<1>3. LastReg(p) \in Reg
  BY <1>1, <1>2, LastValue
<1>4. PICK o : o = [Item("idxset") EXCEPT !.op = op, !.reg = Top.reg, !.x = LastReg(p)]
  OBVIOUS
<1>5. o \in ItemSet /\ Notes(o, vars, placed) /\ o.k = "idxset" /\ Held(o) = 2
  <2>1. o = [k |-> "idxset", op |-> op, reg |-> Top.reg, x |-> LastReg(p), params |-> <<>>]
    BY <1>4 DEF Item
  <2>2. "idxset" \in Kinds /\ <<>> \in Seq(ParamSet) /\ "idxset" \notin ListKinds
    BY EmptySeq DEF Kinds, ExprReaders, OperandKinds, ListKinds
  <2>3. o \in ItemSet
    BY <2>1, <2>2, <1>1, <1>3 DEF ItemSet
  <2>4. Notes(o, vars, placed)
    BY <2>1, <2>2, <1>3 DEF Notes
  <2> QED BY <2>1, <2>3, <2>4, HeldFacts
<1>6. todo' = Below \o <<o, Item("expr")>>
  BY <1>4 DEF IdxSet
<1>7. /\ \A a : Nests(a, Top.k) => Nests(a, o.k)
      /\ o.k \in ExprReaders /\ Top.k \notin ScopeKinds \cup {"func"}
  BY <1>1, <1>5 DEF Nests, ExprReaders, OperandKinds, ListKinds, LogicalKinds, StatementKinds,
                    BlockKinds, ScopeKinds
<1>8. Len(s'.vals) + Ready(need) + Held(Top) = Len(s.vals) + Held(o)
  BY <1>1, <1>2, <1>5
<1> QED BY <1>1, <1>5, <1>6, <1>7, <1>8, PartsSame, ReopenStep

LEMMA EndIdxSetCore ==
  ASSUME CoreInv, EndIdxSet
  PROVE  CoreInv'
<1>1. /\ need = "done" /\ ~p.full /\ SameScope /\ tokens' \in 0 .. MaxTokens /\ todo' = Below
      /\ Top.k = "idxset" /\ need' = "closed" /\ last' = Other
  BY CoreFacts, ReadsFacts DEF EndIdxSet
<1>2. /\ p \in RegState /\ m \in Machine /\ Reading(s, vars) /\ Top.reg \in Reg
      /\ Len(s.vals) \in Nat /\ Len(p.rstack) \in Nat /\ Len(s.vals) <= Len(p.rstack)
  BY <1>1, CoreFacts
<1>3. Held(Top) = 2 /\ Ready(need) = 1 /\ 3 <= Len(s.vals) /\ Ready(need') = 1
  BY <1>1, <1>2, HeldFacts, HeldThere, ReadyFacts
<1>4. FitsBelow(Top.k, need') /\ Top.k \notin ScopeKinds
  BY <1>1 DEF FitsBelow, ScopeKinds, OperandKinds
<1>5. /\ Operand(s, 0) \in SVal /\ Operand(s, 1) \in SVal /\ Operand(s, 2) \in SVal
      /\ LastReg(p) \in Reg /\ Top.x \in Reg
  <2>1. Top.x \in Reg
    BY <1>1, CoreFacts DEF Notes
  <2>2. 0 < Held(Top) + Ready(need) /\ 1 < Held(Top) + Ready(need) /\ 2 < Held(Top) + Ready(need)
    BY <1>3
  <2>3. Operand(s, 0) \in SVal /\ LastReg(p) \in Reg
    BY <2>2, <1>1, LastValue
  <2>4. Operand(s, 1) \in SVal /\ Operand(s, 2) \in SVal
    BY <2>2, <1>1, LastOperands
  <2> QED BY <2>1, <2>3, <2>4
<1>6. CASE Top.op = 0
  <2>1. PICK a \in SVal : a = Operand(s, 0)
    BY <1>5
  <2>2. p' = Collapse(p) /\ m' = m /\ s' = Yield(s, 3, a)
    BY <2>1, <1>6 DEF EndIdxSet, Go
  <2>3. p' \in RegState /\ (~p'.full => Len(p'.rstack) + 2 = Len(p.rstack))
    <3>1. Len(p.rstack) > 2
      BY <1>2, <1>3
    <3>2. p' \in RegState /\ (~p'.full => Len(p'.rstack) = Len(p.rstack) - 2)
      BY <3>1, <1>2, <2>2, CollapseLength
    <3> QED BY <3>2, <1>2
  <2>4. Results(s, 3, a)
    BY <1>1, <1>2, <1>3, <2>2, <2>3, OtherFacts DEF Results
  <2>5. 3 = Held(Top) + Ready(need)
    BY <1>3
  <2> QED BY <1>1, <1>3, <1>4, <2>4, <2>5, EndStep
<1>7. CASE Top.op # 0
  <2>1. PICK q : q = NewReg(p)
    OBVIOUS
  <2>2. q \in RegState /\ Dest(q) \in Reg /\ (~q.full => Len(q.rstack) = Len(p.rstack) + 1)
    BY <2>1, <1>2, NewRegLength
  <2>3. PICK b \in Val : b = Mix(m.regs[Top.reg], m.regs[Top.x])
    <3>1. m.regs[Top.reg] \in Val /\ m.regs[Top.x] \in Val
      BY <1>2, <1>5, MachineFacts
    <3> QED BY <3>1, ValueFacts
  <2>4. PICK e : e = Put(m, Dest(q), b)
    OBVIOUS
  <2>5. e \in Machine
    BY <2>2, <2>4, <1>2, PutFacts
  <2>6. PICK c \in Val : c = Mix(e.regs[Dest(q)], e.regs[LastReg(p)])
    <3>1. e.regs[Dest(q)] \in Val /\ e.regs[LastReg(p)] \in Val
      BY <2>2, <2>5, <1>5, MachineFacts
    <3> QED BY <3>1, ValueFacts
  <2>7. PICK a \in SVal : a = Mix(Mix(Operand(s, 2), Operand(s, 1)), Operand(s, 0))
    BY <1>5, ValueFacts
  <2>8. /\ p' = (IF q.full THEN q ELSE Collapse(PopReg(SwapTop(q))))
        /\ m' = Put(e, Dest(q), c) /\ s' = Yield(s, 3, a)
    BY <2>1, <2>3, <2>4, <2>6, <2>7, <1>7 DEF EndIdxSet, Go
  <2>9. p' \in RegState /\ (~p'.full => Len(p'.rstack) + 2 = Len(p.rstack))
    <3>1. CASE q.full
      BY <3>1, <2>2, <2>8
    <3>2. CASE ~q.full
      <4>1. PICK r : r = PopReg(SwapTop(q))
        OBVIOUS
      <4>2. r \in RegState /\ Len(r.rstack) = Len(p.rstack)
        <5>1. Len(q.rstack) > 1
          BY <2>2, <3>2, <1>2, <1>3
        <5>2. r \in RegState /\ Len(r.rstack) = Len(q.rstack) - 1
          BY <5>1, <4>1, <2>2, SwapPop
        <5> QED BY <5>2, <2>2, <3>2, <1>2
      <4>3. Len(r.rstack) > 2
        BY <4>2, <1>2, <1>3
      <4>4. p' = Collapse(r)
        BY <3>2, <4>1, <2>8
      <4>5. p' \in RegState /\ (~p'.full => Len(p'.rstack) = Len(r.rstack) - 2)
        BY <4>2, <4>3, <4>4, CollapseLength
      <4> QED BY <4>2, <4>5, <1>2
    <3> QED BY <3>1, <3>2
  <2>10. m' \in Machine
    BY <2>2, <2>5, <2>8, PutFacts
  <2>11. Results(s, 3, a)
    BY <1>1, <1>2, <1>3, <2>8, <2>9, <2>10, OtherFacts DEF Results
  <2>12. 3 = Held(Top) + Ready(need)
    BY <1>3
  <2> QED BY <1>1, <1>3, <1>4, <2>11, <2>12, EndStep
<1> QED BY <1>6, <1>7

LEMMA BindCore ==
  ASSUME CoreInv, Bind
  PROVE  CoreInv'
<1>1. /\ need = "more" /\ ~p.full /\ SameScope /\ tokens' \in 0 .. MaxTokens
      /\ UNCHANGED <<todo, need>> /\ last' = Other
  BY CoreFacts, ReadsFacts, TokensSpent DEF Bind
<1>2. /\ p \in RegState /\ m \in Machine /\ Reading(s, vars)
      /\ Len(s.vals) \in Nat /\ Len(p.rstack) \in Nat /\ Len(s.vals) <= Len(p.rstack)
      /\ need \in Needs /\ Fits(need, Top.k)
  BY <1>1, CoreFacts
<1>3. Ready(need) = 1 /\ 1 <= Len(s.vals) /\ 0 < Held(Top) + Ready(need)
  BY <1>1, <1>2, HeldThere, ReadyFacts
<1>4. PICK q : q = NewReg(p)
  OBVIOUS
<1>5. q \in RegState /\ Dest(q) \in Reg /\ (~q.full => Len(q.rstack) = Len(p.rstack) + 1)
  BY <1>2, <1>4, NewRegLength
<1>6. PICK b \in Val : b = Mix(0, m.regs[LastReg(p)])
  <2>1. m.regs[LastReg(p)] \in Val
    BY <1>1, <1>2, <1>3, LastValue
  <2> QED BY <2>1, ValueFacts
<1>7. PICK a \in SVal : a = Mix(0, Operand(s, 0))
  <2>1. Operand(s, 0) \in SVal
    BY <1>1, <1>3, LastOperands
  <2> QED BY <2>1, ValueFacts
<1>8. p' = q /\ m' = Put(m, Dest(q), b) /\ s' = Yield(s, 1, a)
  BY <1>4, <1>6, <1>7 DEF Bind, Go
<1>9. m' \in Machine
  BY <1>2, <1>5, <1>8, PutFacts
<1>10. Results(s, 1, a)
  BY <1>1, <1>2, <1>3, <1>5, <1>8, <1>9, OtherFacts DEF Results
<1>11. Parts(p', m', s', last', vars) /\ Len(s'.vals) + 1 = Len(s.vals) + 1
  BY <1>1, <1>10, ResultParts
<1>12. Len(s'.vals) + Ready(need) = Len(s.vals) + Ready(need')
  <2>1. Len(s'.vals) \in Nat
    BY <1>11, SourceFacts DEF Parts
  <2> QED BY <2>1, <1>1, <1>2, <1>3, <1>11
<1> QED BY <1>1, <1>2, <1>11, <1>12, SameStep

-----------------------------------------------------------------------------
(* Lists keep the types and the shape.                                     *)

LEMMA MixAllType ==
  ASSUME NEW n \in Nat, NEW f, DOMAIN f = 1 .. n, \A i \in 1 .. n : f[i] \in SVal,
         NEW c, c \in SVal
  PROVE  /\ MixAll(c, f) \in SVal
         /\ c \in Val /\ (\A i \in 1 .. n : f[i] \in Val) => MixAll(c, f) \in Val
<1>1. CASE Unknown \in {c} \cup Range(f)
  <2>1. MixAll(c, f) = Unknown
    BY <1>1 DEF MixAll
  <2>2. ASSUME c \in Val, \A i \in 1 .. n : f[i] \in Val PROVE FALSE
    BY <1>1, <2>2, ValueFacts DEF Range
  <2> QED BY <2>1, <2>2, ValueFacts
<1>2. CASE Unknown \notin {c} \cup Range(f)
  <2>1. c \in Val /\ \A i \in 1 .. n : f[i] \in Val
    BY <1>2 DEF SVal, Range
  <2>2. PICK w : w = [i \in 1 .. n |-> f[i] * (1 + (i % 2))]
    OBVIOUS
  <2>3. ASSUME NEW i \in 1 .. n PROVE w[i] \in Nat
    <3>1. f[i] \in {0, 1, 2} /\ i % 2 \in {0, 1}
      BY <2>1 DEF Val
    <3>2. PICK a \in {0, 1, 2}, b \in {0, 1} : a = f[i] /\ b = i % 2
      BY <3>1
    <3>3. a * (1 + b) \in Nat
      OBVIOUS
    <3> QED BY <2>2, <3>2, <3>3
  <2>4. Weighed(f) = Units(w, n)
    BY <2>2 DEF Weighed, Units
  <2>5. Cardinality(Weighed(f)) \in Nat
    BY <2>3, <2>4, UnitsFinite, FS_CardinalityType
  <2>6. MixAll(c, f) = (c + Cardinality(Weighed(f))) % 3
    BY <1>2 DEF MixAll
  <2>7. MixAll(c, f) \in Val
    BY <2>1, <2>5, <2>6 DEF Val
  <2> QED BY <2>7, ValueFacts
<1> QED BY <1>1, <1>2

LEMMA ArgumentsFacts ==
  ASSUME CoreInv
  PROVE  /\ \A c \in Val : MixAll(c, Passed) \in Val
         /\ \A c \in SVal : MixAll(c, Meant) \in SVal
<1>1. m \in Machine /\ Top.params \in Seq(ParamSet)
  BY CoreFacts
<1>2. PICK n \in Nat : n = Len(Top.params)
  <2>1. Len(Top.params) \in Nat
    BY <1>1, LenProperties
  <2> QED BY <2>1
<1>3. DOMAIN Top.params = 1 .. n /\ \A i \in 1 .. n : Top.params[i] \in ParamSet
  BY <1>1, <1>2, LenProperties
<1>4. \A i \in 1 .. n : Top.params[i].reg \in Reg /\ Top.params[i].val \in SVal
  BY <1>3 DEF ParamSet
<1>5. PICK f, g : f = Passed /\ g = Meant
  OBVIOUS
<1>6. /\ DOMAIN f = 1 .. n /\ \A i \in 1 .. n : f[i] = m.regs[Top.params[i].reg]
      /\ DOMAIN g = 1 .. n /\ \A i \in 1 .. n : g[i] = Top.params[i].val
  BY <1>3, <1>5 DEF Passed, Meant
<1>7. /\ \A i \in 1 .. n : f[i] \in Val /\ f[i] \in SVal
      /\ \A i \in 1 .. n : g[i] \in SVal
  BY <1>1, <1>4, <1>6, MachineFacts, ValueFacts
<1>8. \A c \in Val : MixAll(c, f) \in Val
  BY <1>6, <1>7, MixAllType, ValueFacts
<1>9. \A c \in SVal : MixAll(c, g) \in SVal
  BY <1>6, <1>7, MixAllType
<1> QED BY <1>5, <1>8, <1>9

LEMMA ParamFacts ==
  ASSUME CoreInv, ~p.full, Ready(need) = 1
  PROVE  /\ Param \in ParamSet /\ Param.reg = LastReg(p) /\ Param.val = Operand(s, 0)
         /\ Param.owned = (LastReg(p) \notin p.pinned)
         /\ LastReg(p) \in Reg /\ 1 <= Len(s.vals) /\ 1 <= Len(p.rstack)
<1>1. /\ p \in RegState /\ 1 <= Len(s.vals) /\ 1 <= Len(p.rstack) /\ Len(p.rstack) > 0
      /\ 0 < Held(Top) + Ready(need)
  BY CoreFacts, HeldThere
<1>2. Operand(s, 0) \in SVal /\ LastReg(p) \in Reg
  BY <1>1, LastValue
<1>3. TopOwned(p) = [reg |-> LastReg(p), owned |-> LastReg(p) \notin p.pinned]
  BY <1>1, TakeTopFacts
<1>4. PICK b \in BOOLEAN : b = (LastReg(p) \notin p.pinned)
  OBVIOUS
<1>5. Param = [reg |-> LastReg(p), owned |-> b, val |-> Operand(s, 0)]
  BY <1>3, <1>4 DEF Param
<1>6. Param.owned = b
  BY <1>5, Zenon
<1>7. Param \in ParamSet /\ Param.reg = LastReg(p) /\ Param.val = Operand(s, 0)
  BY <1>2, <1>5 DEF ParamSet
<1> QED BY <1>1, <1>2, <1>4, <1>6, <1>7

(* The last operand leaves the stack to be an argument. *)
LEMMA TakeParts ==
  ASSUME CoreInv, ~p.full, Ready(need) = 1, p' = TakeTop(p), s' = Drop(s, 1),
         UNCHANGED <<m, last>>
  PROVE  Parts(p', m', s', last', vars) /\ Len(s'.vals) + 1 = Len(s.vals)
<1>1. /\ p \in RegState /\ m \in Machine /\ Reading(s, vars) /\ LoadedLocal(last)
      /\ Len(s.vals) \in Nat /\ Len(p.rstack) \in Nat /\ Len(s.vals) <= Len(p.rstack)
      /\ 1 <= Len(s.vals)
  BY CoreFacts, ParamFacts
<1>2. p' \in RegState /\ Len(p'.rstack) = Len(p.rstack) - 1
  BY <1>1, TakeTopFacts
<1>3. PICK h \in Nat : h = Len(s.vals)
  BY <1>1
<1>4. PICK f : f = s'
  OBVIOUS
<1>5. Drops(vars, s, h, 1, f)
  BY <1>1, <1>3, <1>4 DEF Drops
<1>6. Reading(f, vars) /\ Len(f.vals) = h - 1
  BY <1>5, DropFacts
<1> QED BY <1>1, <1>2, <1>3, <1>4, <1>6 DEF Parts

LEMMA CallCore ==
  ASSUME CoreInv, NEW kind \in {"call", "method", "fncall", "new"}, Call(kind)
  PROVE  CoreInv'
<1>1. /\ need \in {"value", "more"} /\ ~p.full /\ SameScope /\ Room /\ UNCHANGED <<m, last>>
      /\ tokens' \in 0 .. MaxTokens /\ Fits(need, Top.k) /\ Len(s.vals) \in Nat
  BY CoreFacts, ReadsFacts, TokensSpent DEF Call
<1>2. Top.k = "expr"
  BY <1>1 DEF Fits
<1>3. /\ kind \in Kinds /\ kind \in ListKinds /\ kind \in OperandKinds /\ kind \in ExprReaders
      /\ kind \notin {"let", "assign", "compound", "idxset"}
  BY DEF Kinds, ExprReaders, OperandKinds, ListKinds
<1>4. Nests(Top.k, kind)
  BY <1>2, <1>3 DEF Nests
<1>5. CASE kind \in {"call", "new", "fncall"}
  <2>1. /\ Open(Item(kind)) /\ UNCHANGED <<p, s>>
        /\ Ready(need) = IF kind = "fncall" THEN 1 ELSE 0
    BY <1>5, ReadsFacts, ReadyFacts DEF Call
  <2>2. PICK o : o = Item(kind)
    OBVIOUS
  <2>3. o \in ItemSet /\ Notes(o, vars, placed) /\ o.k = kind /\ Held(o) = Ready(need)
    BY <1>3, <1>5, <2>1, <2>2, ItemFacts, HeldFacts
  <2>4. Len(s'.vals) + Ready(need) = Len(s.vals) + Held(o)
    BY <2>1, <2>3
  <2>5. Parts(p', m', s', last', vars)
    BY <2>1, <1>1, PartsSame
  <2> QED BY <1>1, <1>3, <1>4, <2>1, <2>2, <2>3, <2>4, <2>5, OpenStep
<1>6. CASE kind = "method"
  <2>1. /\ need = "more" /\ p' = TakeTop(p) /\ s' = Drop(s, 1)
        /\ Open([Item(kind) EXCEPT !.params = <<Param>>])
    BY <1>6, ReadsFacts DEF Call
  <2>2. Ready(need) = 1
    BY <2>1, ReadyFacts
  <2>3. PICK o : o = [Item(kind) EXCEPT !.params = <<Param>>]
    OBVIOUS
  <2>4. PICK a \in ParamSet : a = Param
    BY <2>2, <1>1, ParamFacts
  <2>5. o \in ItemSet /\ Notes(o, vars, placed) /\ o.k = kind /\ Held(o) = 0
    <3>1. o = [k |-> kind, op |-> 0, reg |-> 0, x |-> 0, params |-> <<a>>]
      BY <2>3, <2>4 DEF Item
    <3>2. <<a>> \in Seq(ParamSet)
      BY <2>4
    <3>3. o \in ItemSet
      BY <3>1, <3>2, <1>3, RegZero DEF ItemSet
    <3>4. Notes(o, vars, placed)
      BY <3>1, <1>3 DEF Notes
    <3> QED BY <3>1, <3>3, <3>4, <1>6, HeldFacts
  <2>6. Parts(p', m', s', last', vars) /\ Len(s'.vals) + 1 = Len(s.vals)
    BY <1>1, <2>1, <2>2, TakeParts
  <2>7. Len(s'.vals) + Ready(need) = Len(s.vals) + Held(o)
    BY <1>1, <2>2, <2>5, <2>6
  <2>8. Open(o)
    BY <2>1, <2>3
  <2> QED BY <1>1, <1>3, <1>4, <2>5, <2>6, <2>7, <2>8, OpenStep
<1> QED BY <1>5, <1>6

LEMMA ArgumentCore ==
  ASSUME CoreInv, Argument
  PROVE  CoreInv'
<1>1. /\ need = "done" /\ ~p.full /\ need' = "comma" /\ SameScope /\ UNCHANGED <<m, last>>
      /\ tokens' \in 0 .. MaxTokens /\ Top.k \in {"call", "method", "fncall", "new"}
      /\ p' = TakeTop(p) /\ s' = Drop(s, 1)
      /\ todo' = Append(Below, [Top EXCEPT !.params = Append(@, Param)])
      /\ Top \in ItemSet /\ Notes(Top, vars, placed) /\ Top.params \in Seq(ParamSet)
      /\ Len(s.vals) \in Nat
  BY CoreFacts, ReadsFacts DEF Argument
<1>2. Ready(need) = 1 /\ Ready(need') = 0
  BY <1>1, ReadyFacts
<1>3. PICK a \in ParamSet : a = Param
  BY <1>1, <1>2, ParamFacts
<1>4. PICK o : o = [Top EXCEPT !.params = Append(@, Param)]
  OBVIOUS
<1>5. o \in ItemSet /\ Notes(o, vars, placed) /\ o.k = Top.k /\ Held(o) = Held(Top)
  <2>1. PICK b : b = Append(Top.params, a)
    OBVIOUS
  <2>2. b \in Seq(ParamSet)
    BY <1>1, <1>3, <2>1
  <2>3. o = [k |-> Top.k, op |-> Top.op, reg |-> Top.reg, x |-> Top.x, params |-> b]
    BY <1>1, <1>3, <1>4, <2>1 DEF ItemSet
  <2>4. o \in ItemSet
    BY <1>1, <2>2, <2>3 DEF ItemSet
  <2>5. Notes(o, vars, placed)
    BY <1>1, <2>3 DEF Notes, ListKinds
  <2>6. Held(o) = Held(Top)
    BY <2>3 DEF Held
  <2> QED BY <2>3, <2>4, <2>5, <2>6
<1>6. Parts(p', m', s', last', vars) /\ Len(s'.vals) + 1 = Len(s.vals)
  BY <1>1, <1>2, TakeParts
<1>7. Len(s'.vals) + Ready(need) + Held(Top) = Len(s.vals) + Ready(need') + Held(o)
  BY <1>1, <1>2, <1>5, <1>6, HeldThere
<1>8. need' \in Needs \ {"done"} /\ Fits(need', Top.k)
  BY <1>1 DEF Fits, Needs, ListKinds
<1>9. todo' = Append(Below, o)
  BY <1>1, <1>4
<1> QED BY <1>1, <1>5, <1>6, <1>7, <1>8, <1>9, SwapStep

LEMMA CommaCore ==
  ASSUME CoreInv, Comma
  PROVE  CoreInv'
<1>1. /\ need = "comma" /\ ~p.full /\ need' = "value" /\ SameScope /\ UNCHANGED <<p, m, s, last>>
      /\ tokens' \in 0 .. MaxTokens /\ Len(todo) < MaxDepth
      /\ todo' = Append(todo, Item("expr")) /\ Fits(need, Top.k) /\ Len(s.vals) \in Nat
  BY CoreFacts, ReadsFacts DEF Comma
<1>2. Top.k \in ExprReaders
  BY <1>1 DEF Fits, ExprReaders, OperandKinds
<1>3. Len(s'.vals) + Ready(need) = Len(s.vals)
  BY <1>1, ReadyFacts
<1> QED BY <1>1, <1>2, <1>3, PartsSame, PushStep

LEMMA EndCallCore ==
  ASSUME CoreInv, EndCall
  PROVE  CoreInv'
<1>1. /\ need = "comma" /\ ~p.full /\ SameScope /\ tokens' \in 0 .. MaxTokens /\ todo' = Below
      /\ Top.k \in {"call", "method", "fncall"} /\ need' = "more" /\ last' = Other
  BY CoreFacts, ReadsFacts DEF EndCall
<1>2. /\ p \in RegState /\ m \in Machine /\ Reading(s, vars)
      /\ Len(s.vals) \in Nat /\ Len(p.rstack) \in Nat /\ Len(s.vals) <= Len(p.rstack)
  BY <1>1, CoreFacts
<1>3. PICK n \in {0, 1} : n = IF Top.k = "fncall" THEN 1 ELSE 0
  OBVIOUS
<1>4. /\ Held(Top) = n /\ Ready(need) = 0 /\ n <= Len(s.vals) /\ Ready(need') = 1
      /\ n = Held(Top) + Ready(need)
  <2>1. Held(Top) = n
    BY <1>1, <1>3, HeldFacts
  <2> QED BY <2>1, <1>1, <1>2, HeldThere, ReadyFacts
<1>5. FitsBelow(Top.k, need') /\ Top.k \notin ScopeKinds
  BY <1>1 DEF FitsBelow, ScopeKinds, OperandKinds, ListKinds
<1>6. PICK b : b = IF n = 1 THEN PopReg(p) ELSE p
  OBVIOUS
<1>7. b \in RegState /\ Len(b.rstack) + n = Len(p.rstack)
  <2>1. CASE n = 1
    <3>1. Len(p.rstack) > 0
      BY <2>1, <1>2, <1>4
    <3> QED BY <3>1, <2>1, <1>2, <1>6, PopRegFacts
  <2>2. CASE n = 0
    BY <2>2, <1>2, <1>6
  <2> QED BY <2>1, <2>2
<1>8. PICK q : q = NewReg(b)
  OBVIOUS
<1>9. q \in RegState /\ Dest(q) \in Reg /\ (~q.full => Len(q.rstack) = Len(b.rstack) + 1)
  BY <1>7, <1>8, NewRegLength
<1>10. PICK c \in Val : c = IF n = 1 THEN m.regs[LastReg(p)] ELSE 0
  <2>1. CASE n = 1
    <3>1. m.regs[LastReg(p)] \in Val
      BY <2>1, <1>1, <1>2, <1>4, LastValue
    <3> QED BY <2>1, <3>1
  <2>2. CASE n = 0
    BY <2>2, ValueFacts
  <2> QED BY <2>1, <2>2
<1>11. PICK d \in SVal : d = IF n = 1 THEN Operand(s, 0) ELSE 0
  <2>1. CASE n = 1
    <3>1. Operand(s, 0) \in SVal
      BY <2>1, <1>1, <1>4, LastOperands
    <3> QED BY <2>1, <3>1
  <2>2. CASE n = 0
    BY <2>2, ValueFacts
  <2> QED BY <2>1, <2>2
<1>12. PICK a \in SVal : a = MixAll(d, Meant)
  BY ArgumentsFacts
<1>13. PICK a1 \in Val : a1 = MixAll(c, Passed)
  BY ArgumentsFacts
<1>14. /\ p' = (IF q.full THEN q ELSE ReleaseAll(q, Top.params))
       /\ m' = Put(m, Dest(q), a1) /\ s' = Yield(s, n, a)
  <2>1. (n = 1) <=> (Top.k = "fncall")
    BY <1>3
  <2>2. n = IF Top.k = "fncall" THEN 1 ELSE 0
    BY <1>3
  <2>3. /\ b = IF Top.k = "fncall" THEN PopReg(p) ELSE p
        /\ c = IF Top.k = "fncall" THEN m.regs[LastReg(p)] ELSE 0
        /\ d = IF Top.k = "fncall" THEN Operand(s, 0) ELSE 0
    BY <2>1, <1>6, <1>10, <1>11
  <2> QED BY <2>2, <2>3, <1>8, <1>12, <1>13 DEF EndCall, Go
<1>15. p' \in RegState /\ (~p'.full => Len(p'.rstack) + n = Len(p.rstack) + 1)
  <2>1. CASE q.full
    BY <2>1, <1>9, <1>14
  <2>2. CASE ~q.full
    <3>1. p' \in RegState /\ p'.rstack = q.rstack
      BY <2>2, <1>9, <1>14, ReleaseFacts
    <3> QED BY <3>1, <2>2, <1>2, <1>7, <1>9, RegStateFacts
  <2> QED BY <2>1, <2>2
<1>16. m' \in Machine
  BY <1>2, <1>9, <1>14, PutFacts
<1>17. Results(s, n, a)
  <2>1. n \in Nat
    BY <1>3
  <2>2. ~p'.full => Len(p'.rstack) + n >= Len(p.rstack) + 1
    BY <1>2, <1>15
  <2> QED BY <2>1, <2>2, <1>1, <1>2, <1>4, <1>14, <1>15, <1>16, OtherFacts DEF Results
<1> QED BY <1>1, <1>4, <1>5, <1>17, EndStep

LEMMA EndNewCore ==
  ASSUME CoreInv, EndNew
  PROVE  CoreInv'
<1>1. /\ need = "comma" /\ ~p.full /\ SameScope /\ tokens' \in 0 .. MaxTokens /\ todo' = Below
      /\ Top.k = "new" /\ need' = "more" /\ last' = Other
  BY CoreFacts, ReadsFacts DEF EndNew
<1>2. /\ p \in RegState /\ m \in Machine /\ Reading(s, vars)
      /\ Len(s.vals) \in Nat /\ Len(p.rstack) \in Nat /\ Len(s.vals) <= Len(p.rstack)
  BY <1>1, CoreFacts
<1>3. /\ Held(Top) = 0 /\ Ready(need) = 0 /\ Ready(need') = 1 /\ 0 = Held(Top) + Ready(need)
  BY <1>1, HeldFacts, ReadyFacts
<1>4. FitsBelow(Top.k, need') /\ Top.k \notin ScopeKinds
  BY <1>1 DEF FitsBelow, ScopeKinds, OperandKinds, ListKinds
<1>5. PICK q : q = NewReg(p)
  OBVIOUS
<1>6. q \in RegState /\ Dest(q) \in Reg /\ (~q.full => Len(q.rstack) = Len(p.rstack) + 1)
  BY <1>2, <1>5, NewRegLength
<1>7. PICK a \in SVal : a = MixAll(0, Meant)
  BY ArgumentsFacts, ValueFacts
<1>8. PICK a1 \in Val : a1 = MixAll(0, Passed)
  BY ArgumentsFacts, ValueFacts
<1>9. /\ p' = (IF q.full THEN q ELSE ReleaseAll(SetAllUnused(q, Top.params), Top.params))
      /\ m' = Put(m, Dest(q), a1) /\ s' = Yield(s, 0, a)
  BY <1>5, <1>7, <1>8 DEF EndNew, Go
<1>10. p' \in RegState /\ (~p'.full => Len(p'.rstack) = Len(p.rstack) + 1)
  <2>1. CASE q.full
    BY <2>1, <1>6, <1>9
  <2>2. CASE ~q.full
    <3>1. PICK r : r = SetAllUnused(q, Top.params)
      OBVIOUS
    <3>2. r \in RegState /\ r.rstack = q.rstack
      BY <3>1, <1>6, SetAllUnusedFacts
    <3>3. p' \in RegState /\ p'.rstack = r.rstack
      BY <2>2, <3>1, <3>2, <1>9, ReleaseFacts
    <3> QED BY <3>2, <3>3, <2>2, <1>6
  <2> QED BY <2>1, <2>2
<1>11. m' \in Machine
  BY <1>2, <1>6, <1>9, PutFacts
<1>12. Results(s, 0, a)
  BY <1>1, <1>2, <1>9, <1>10, <1>11, OtherFacts DEF Results
<1> QED BY <1>1, <1>3, <1>4, <1>12, EndStep

LEMMA ArrayCore ==
  ASSUME CoreInv, Array
  PROVE  CoreInv'
<1>1. /\ need = "value" /\ ~p.full /\ SameScope /\ Room /\ last' = Other
      /\ tokens' \in 0 .. MaxTokens /\ Fits(need, Top.k)
  BY CoreFacts, ReadsFacts, TokensSpent DEF Array
<1>2. /\ p \in RegState /\ m \in Machine /\ Reading(s, vars)
      /\ Len(s.vals) \in Nat /\ Len(p.rstack) \in Nat
  BY CoreFacts
<1>3. PICK q : q = NewReg(p)
  OBVIOUS
<1>4. q \in RegState /\ Dest(q) \in Reg /\ (~q.full => Len(q.rstack) = Len(p.rstack) + 1)
  BY <1>2, <1>3, NewRegLength
<1>5. p' = q /\ m' = Put(m, Dest(q), 0) /\ s' = Yield(s, 0, 0)
  BY <1>3 DEF Array, Go
<1>6. m' \in Machine
  BY <1>2, <1>4, <1>5, PutFacts, ValueFacts
<1>7. Results(s, 0, 0)
  BY <1>1, <1>2, <1>4, <1>5, <1>6, OtherFacts, ValueFacts DEF Results
<1>8. Parts(p', m', s', last', vars) /\ Len(s'.vals) + 0 = Len(s.vals) + 1
  BY <1>1, <1>7, ResultParts
<1>9. PICK o : o = [Item("array") EXCEPT !.reg = Dest(q)]
  OBVIOUS
<1>10. o \in ItemSet /\ Notes(o, vars, placed) /\ o.k = "array" /\ Held(o) = 1
  <2>1. "array" \in Kinds
    BY DEF Kinds, ExprReaders, OperandKinds, ListKinds
  <2> QED BY <2>1, <1>4, <1>9, ItemFacts, HeldFacts
<1>11. Nests(Top.k, o.k) /\ o.k \in ExprReaders
  BY <1>1, <1>10 DEF Fits, Nests, ExprReaders, OperandKinds, ListKinds
<1>12. Len(s'.vals) + Ready(need) = Len(s.vals) + Held(o)
  <2>1. Len(s'.vals) \in Nat
    BY <1>8, SourceFacts DEF Parts
  <2> QED BY <2>1, <1>1, <1>2, <1>8, <1>10, ReadyFacts
<1>13. Open(o)
  BY <1>3, <1>9 DEF Array
<1> QED BY <1>1, <1>8, <1>10, <1>11, <1>12, <1>13, OpenStep

LEMMA ElementCore ==
  ASSUME CoreInv, Element
  PROVE  CoreInv'
<1>1. /\ need = "done" /\ ~p.full /\ SameScope /\ tokens' \in 0 .. MaxTokens
      /\ UNCHANGED todo /\ Top.k = "array" /\ need' = "comma" /\ last' = Other
  BY CoreFacts, ReadsFacts DEF Element
<1>2. /\ p \in RegState /\ m \in Machine /\ Reading(s, vars) /\ Top.reg \in Reg
      /\ Len(s.vals) \in Nat /\ Len(p.rstack) \in Nat /\ Len(s.vals) <= Len(p.rstack)
  BY <1>1, CoreFacts
<1>3. Held(Top) = 1 /\ Ready(need) = 1 /\ 2 <= Len(s.vals) /\ Ready(need') = 0
  BY <1>1, <1>2, HeldFacts, HeldThere, ReadyFacts
<1>4. PICK b \in Val : b = Mix(m.regs[Top.reg], m.regs[LastReg(p)])
  <2>1. m.regs[LastReg(p)] \in Val /\ m.regs[Top.reg] \in Val
    BY <1>1, <1>2, <1>3, LastValue, MachineFacts
  <2> QED BY <2>1, ValueFacts
<1>5. PICK a \in SVal : a = Mix(Operand(s, 1), Operand(s, 0))
  <2>1. Operand(s, 0) \in SVal /\ Operand(s, 1) \in SVal
    BY <1>1, <1>3, LastOperands
  <2> QED BY <2>1, ValueFacts
<1>6. p' = PopReg(p) /\ m' = Put(m, Top.reg, b) /\ s' = Yield(s, 2, a)
  BY <1>4, <1>5 DEF Element, Go
<1>7. p' \in RegState /\ Len(p'.rstack) = Len(p.rstack) - 1
  BY <1>2, <1>3, <1>6, PopRegFacts
<1>8. m' \in Machine
  BY <1>2, <1>6, PutFacts
<1>9. Results(s, 2, a)
  BY <1>1, <1>2, <1>3, <1>6, <1>7, <1>8, OtherFacts DEF Results
<1>10. Parts(p', m', s', last', vars) /\ Len(s'.vals) + 2 = Len(s.vals) + 1
  BY <1>1, <1>9, ResultParts
<1>11. Len(s'.vals) + Ready(need) = Len(s.vals) + Ready(need')
  <2>1. Len(s'.vals) \in Nat
    BY <1>10, SourceFacts DEF Parts
  <2> QED BY <2>1, <1>2, <1>3, <1>10
<1>12. need' \in Needs /\ Fits(need', Top.k)
  BY <1>1 DEF Fits, Needs, ListKinds
<1> QED BY <1>1, <1>10, <1>11, <1>12, SameStep

LEMMA EndArrayCore ==
  ASSUME CoreInv, EndArray
  PROVE  CoreInv'
<1>1. /\ need = "comma" /\ ~p.full /\ SameScope /\ tokens' \in 0 .. MaxTokens /\ todo' = Below
      /\ Top.k = "array" /\ need' = "more" /\ UNCHANGED <<p, m, s, last>> /\ Len(s.vals) \in Nat
  BY CoreFacts, ReadsFacts DEF EndArray
<1>2. Len(s'.vals) + Ready(need) + Held(Top) = Len(s.vals) + Ready(need')
  BY <1>1, HeldFacts, ReadyFacts
<1>3. FitsBelow(Top.k, need') /\ Top.k \notin ScopeKinds
  BY <1>1 DEF FitsBelow, ScopeKinds, OperandKinds, ListKinds
<1> QED BY <1>1, <1>2, <1>3, PartsSame, PopStep

-----------------------------------------------------------------------------
(* Assignments and fields keep the types and the shape.                    *)

(* The source's variable of a scope and a name changes and nothing else. *)
Assigned(v, e, i, x, a, f) ==
  /\ Reading(e, v) /\ v \in Seq(Scope(0 .. MaxLocals - 1)) /\ i \in DOMAIN v /\ x \in DOMAIN v[i]
  /\ a \in SVal /\ f = [e EXCEPT !.env[i][x] = a]

LEMMA AssignedFacts ==
  ASSUME NEW v, NEW e, NEW i, NEW x, NEW a, NEW f, Assigned(v, e, i, x, a, f)
  PROVE  /\ Reading(f, v) /\ f.vals = e.vals /\ f.at = e.at /\ f.field = e.field /\ f.ret = e.ret
         /\ f.env[i][x] = a
         /\ \A j \in DOMAIN v : \A y \in DOMAIN v[j] :
              ~(i = j /\ x = y) => f.env[j][y] = e.env[j][y]
<1>0. /\ Reading(e, v) /\ v \in Seq(Scope(0 .. MaxLocals - 1)) /\ i \in DOMAIN v
      /\ x \in DOMAIN v[i] /\ a \in SVal /\ f = [e EXCEPT !.env[i][x] = a]
  BY DEF Assigned
<1>1. /\ e \in Source /\ Len(e.env) = Len(v) /\ e.env \in Seq(Scope(SVal))
      /\ \A j \in DOMAIN v : DOMAIN e.env[j] = DOMAIN v[j]
  BY <1>0 DEF Reading, Source
<1>2. /\ Len(v) \in Nat /\ DOMAIN v = 1 .. Len(v) /\ DOMAIN e.env = 1 .. Len(v)
      /\ \A j \in 1 .. Len(v) : e.env[j] \in Scope(SVal)
  BY <1>0, <1>1, LenProperties
<1>3. PICK c : c = [e.env[i] EXCEPT ![x] = a]
  OBVIOUS
<1>4. c \in Scope(SVal) /\ DOMAIN c = DOMAIN v[i] /\ c[x] = a
      /\ \A y \in DOMAIN v[i] : y # x => c[y] = e.env[i][y]
  <2>1. e.env[i] \in Scope(SVal) /\ DOMAIN e.env[i] = DOMAIN v[i]
    BY <1>0, <1>1, <1>2
  <2>2. PICK D \in SUBSET Names : e.env[i] \in [D -> SVal]
    BY <2>1 DEF Scope
  <2>3. c \in [D -> SVal] /\ D = DOMAIN v[i]
    BY <1>0, <1>3, <2>1, <2>2
  <2> QED BY <1>0, <1>3, <2>1, <2>3 DEF Scope
<1>5. PICK b : b = [e.env EXCEPT ![i] = c]
  OBVIOUS
<1>6. b \in Seq(Scope(SVal)) /\ Len(b) = Len(v)
      /\ \A j \in 1 .. Len(v) : b[j] = IF j = i THEN c ELSE e.env[j]
  <2>1. i \in 1 .. Len(e.env)
    BY <1>0, <1>1, <1>2
  <2> QED BY <2>1, <1>1, <1>4, <1>5, ExceptSeq
<1>7. f = [e EXCEPT !.env = b]
  BY <1>0, <1>1, <1>3, <1>5 DEF Source
<1>8. /\ f \in Source /\ f.env = b
      /\ f.vals = e.vals /\ f.at = e.at /\ f.field = e.field /\ f.ret = e.ret
  BY <1>1, <1>6, <1>7 DEF Source
<1>9. Reading(f, v)
  <2>1. \A j \in DOMAIN v : DOMAIN b[j] = DOMAIN v[j]
    BY <1>1, <1>2, <1>4, <1>6
  <2> QED BY <2>1, <1>6, <1>8 DEF Reading
<1>10. f.env[i][x] = a
  BY <1>0, <1>2, <1>4, <1>6, <1>8
<1>11. \A j \in DOMAIN v : \A y \in DOMAIN v[j] :
         ~(i = j /\ x = y) => f.env[j][y] = e.env[j][y]
  BY <1>2, <1>4, <1>6, <1>8
<1> QED BY <1>8, <1>9, <1>10, <1>11

LEMMA SetVarFacts ==
  ASSUME CoreInv, NEW x, Declared(x), NEW e, NEW a, NEW f, Reading(e, vars), a \in SVal,
         f = SetVar(e, x, a)
  PROVE  /\ Reading(f, vars) /\ f.vals = e.vals /\ f.at = e.at /\ f.field = e.field
         /\ f.ret = e.ret
         /\ ~Running(e) => f = e
         /\ Running(e) => /\ f.env[ScopeOf(x)][x] = a
                          /\ \A j \in DOMAIN vars : \A y \in DOMAIN vars[j] :
                               ~(ScopeOf(x) = j /\ x = y) => f.env[j][y] = e.env[j][y]
<1>1. CASE ~Running(e)
  BY <1>1 DEF SetVar
<1>2. CASE Running(e)
  <2>1. PICK i : i = ScopeOf(x)
    OBVIOUS
  <2>2. Assigned(vars, e, i, x, a, f)
    <3>1. vars \in Seq(Scope(0 .. MaxLocals - 1)) /\ i \in DOMAIN vars /\ x \in DOMAIN vars[i]
      BY <2>1, CoreFacts, LocalFacts
    <3>2. f = [e EXCEPT !.env[i][x] = a]
      BY <1>2, <2>1 DEF SetVar
    <3> QED BY <3>1, <3>2 DEF Assigned
  <2>3. /\ Reading(f, vars) /\ f.vals = e.vals /\ f.at = e.at /\ f.field = e.field
        /\ f.ret = e.ret /\ f.env[i][x] = a
        /\ \A j \in DOMAIN vars : \A y \in DOMAIN vars[j] :
             ~(i = j /\ x = y) => f.env[j][y] = e.env[j][y]
    BY <2>2, AssignedFacts
  <2> QED BY <1>2, <2>1, <2>3
<1> QED BY <1>1, <1>2

LEMMA AssignCore ==
  ASSUME CoreInv, NEW k \in {"assign", "compound"}, NEW x \in Names, Assign(k, x)
  PROVE  CoreInv'
<1>1. /\ need = "value" /\ ~p.full /\ SameScope /\ Room /\ UNCHANGED <<p, m, s, last>>
      /\ tokens' \in 0 .. MaxTokens /\ Open([Item(k) EXCEPT !.x = x]) /\ Fits(need, Top.k)
      /\ Len(s.vals) \in Nat /\ Declared(x)
  BY CoreFacts, ReadsFacts, TokensSpent DEF Assign
<1>2. PICK o : o = [Item(k) EXCEPT !.x = x]
  OBVIOUS
<1>3. /\ k \in Kinds /\ k \in OperandKinds /\ k \in ExprReaders /\ k \notin {"let", "idxset"}
  BY DEF Kinds, ExprReaders, OperandKinds
<1>4. o \in ItemSet /\ Notes(o, vars, placed) /\ o.k = k /\ Held(o) = 0
  <2>1. o = [k |-> k, op |-> 0, reg |-> 0, x |-> x, params |-> <<>>]
    BY <1>2 DEF Item
  <2>2. o \in ItemSet
    BY <2>1, <1>3, RegZero, EmptySeq DEF ItemSet
  <2>3. Notes(o, vars, placed)
    BY <2>1, <1>1, <1>3 DEF Notes, Declared
  <2> QED BY <2>1, <2>2, <2>3, HeldFacts
<1>5. Nests(Top.k, o.k)
  BY <1>1, <1>3, <1>4 DEF Fits, Nests
<1>6. Len(s'.vals) + Ready(need) = Len(s.vals) + Held(o)
  BY <1>1, <1>4, ReadyFacts
<1> QED BY <1>1, <1>2, <1>3, <1>4, <1>5, <1>6, PartsSame, OpenStep

(* The variable of an assignment under way is declared. *)
LEMMA NotedName ==
  ASSUME CoreInv, Top.k \in {"assign", "compound"}
  PROVE  Declared(Top.x)
BY CoreFacts DEF Notes, Declared

LEMMA EndAssignCore ==
  ASSUME CoreInv, EndAssign
  PROVE  CoreInv'
<1>1. /\ need = "done" /\ ~p.full /\ SameScope /\ tokens' \in 0 .. MaxTokens /\ todo' = Below
      /\ Top.k = "assign" /\ need' = "closed" /\ last' = Other
  BY CoreFacts, ReadsFacts DEF EndAssign
<1>2. /\ p \in RegState /\ m \in Machine /\ Reading(s, vars)
      /\ Len(s.vals) \in Nat /\ Len(p.rstack) \in Nat /\ Len(s.vals) <= Len(p.rstack)
  BY <1>1, CoreFacts
<1>3. /\ Held(Top) = 0 /\ Ready(need) = 1 /\ Ready(need') = 1 /\ 0 < Held(Top) + Ready(need)
  BY <1>1, HeldFacts, ReadyFacts
<1>4. FitsBelow(Top.k, need') /\ Top.k \notin ScopeKinds
  BY <1>1 DEF FitsBelow, ScopeKinds, OperandKinds
<1>5. Declared(Top.x)
  BY <1>1, NotedName
<1>6. PICK l : l = LocalOf(Top.x)
  OBVIOUS
<1>7. l \in 0 .. MaxLocals - 1 /\ l \in Nat
  BY <1>5, <1>6, LocalFacts
<1>8. PICK d \in Reg : d = LastReg(p)
  BY <1>1, <1>3, LastValue
<1>9. PICK b \in Val : b = m.regs[d]
  BY <1>1, <1>3, <1>8, LastValue
<1>10. PICK a \in SVal : a = Operand(s, 0)
  BY <1>1, <1>3, LastValue
<1>11. p' = CacheStored(p, l, d) /\ m' = PutLocal(m, l, b) /\ s' = SetVar(s, Top.x, a)
  BY <1>6, <1>8, <1>9, <1>10 DEF EndAssign, Go
<1>12. p' \in RegState /\ p'.rstack = p.rstack
  <2>1. PICK q : q = CacheStored(p, l, d)
    OBVIOUS
  <2>2. Stores(p, l, d, q)
    BY <2>1, <1>2, <1>7, <1>8 DEF Stores
  <2>3. q \in RegState /\ q.rstack = p.rstack
    BY <2>2, CacheStoredFacts
  <2> QED BY <2>1, <2>3, <1>11
<1>13. m' \in Machine
  BY <1>2, <1>7, <1>11, PutLocalFacts
<1>14. Reading(s', vars) /\ s'.vals = s.vals
  BY <1>2, <1>5, <1>11, SetVarFacts
<1>15. Parts(p', m', s', last', vars)
  BY <1>1, <1>2, <1>12, <1>13, <1>14, OtherFacts DEF Parts
<1>16. Len(s'.vals) + Ready(need) + Held(Top) = Len(s.vals) + Ready(need')
  BY <1>2, <1>3, <1>14
<1> QED BY <1>1, <1>4, <1>15, <1>16, PopStep

LEMMA EndCompoundCore ==
  ASSUME CoreInv, EndCompound
  PROVE  CoreInv'
<1>1. /\ need = "done" /\ ~p.full /\ SameScope /\ tokens' \in 0 .. MaxTokens /\ todo' = Below
      /\ Top.k = "compound" /\ need' = "closed" /\ last' = Other
  BY CoreFacts, ReadsFacts DEF EndCompound
<1>2. /\ p \in RegState /\ m \in Machine /\ Reading(s, vars)
      /\ Len(s.vals) \in Nat /\ Len(p.rstack) \in Nat /\ Len(s.vals) <= Len(p.rstack)
  BY <1>1, CoreFacts
<1>3. /\ Held(Top) = 0 /\ Ready(need) = 1 /\ Ready(need') = 1 /\ 0 < Held(Top) + Ready(need)
      /\ 1 <= Len(s.vals) /\ 1 = Held(Top) + Ready(need)
  BY <1>1, <1>2, HeldFacts, HeldThere, ReadyFacts
<1>4. FitsBelow(Top.k, need') /\ Top.k \notin ScopeKinds
  BY <1>1 DEF FitsBelow, ScopeKinds, OperandKinds
<1>5. Declared(Top.x)
  BY <1>1, NotedName
<1>6. PICK l : l = LocalOf(Top.x)
  OBVIOUS
<1>7. l \in 0 .. MaxLocals - 1 /\ l \in Nat /\ s.env[ScopeOf(Top.x)][Top.x] \in SVal
  BY <1>5, <1>6, LocalFacts
<1>8. PICK r : r = CachedReg(p, l)
  OBVIOUS
<1>9. PICK g : g = Grown(p, l)
  OBVIOUS
<1>10. /\ r \in Reg /\ g \in RegState /\ g.rstack = p.rstack /\ l < Len(g.cache)
       /\ DOMAIN g.cache = 1 .. Len(g.cache)
  BY <1>2, <1>7, <1>8, <1>9, CachedRegIn, GrownFacts
<1>11. PICK q : q = NewReg(g)
  OBVIOUS
<1>12. /\ q \in RegState /\ Dest(q) \in Reg
       /\ ~q.full => Len(q.rstack) = Len(p.rstack) + 1 /\ q.cache = g.cache
  BY <1>10, <1>11, NewRegLength
<1>13. PICK dest \in Reg : dest = IF r # NoReg THEN r ELSE Dest(q)
  BY <1>10, <1>12
<1>14. PICK e : e = Put(m, dest, m.locals[l])
  OBVIOUS
<1>15. e \in Machine
  <2>1. m.locals[l] \in Val
    BY <1>2, <1>7, MachineFacts
  <2> QED BY <2>1, <1>2, <1>14, PutFacts
<1>16. PICK b \in Val : b = Mix(e.regs[dest], e.regs[LastReg(p)])
  <2>1. LastReg(p) \in Reg
    BY <1>1, <1>3, LastValue
  <2>2. e.regs[dest] \in Val /\ e.regs[LastReg(p)] \in Val
    BY <2>1, <1>15, MachineFacts
  <2> QED BY <2>2, ValueFacts
<1>17. PICK f : f = Put(e, dest, b)
  OBVIOUS
<1>18. f \in Machine /\ f.regs[dest] \in Val
  <2>1. f \in Machine
    BY <1>15, <1>17, PutFacts
  <2> QED BY <2>1, MachineFacts
<1>19. PICK v \in SVal : v = Mix(s.env[ScopeOf(Top.x)][Top.x], Operand(s, 0))
  <2>1. Operand(s, 0) \in SVal
    BY <1>1, <1>3, LastValue
  <2> QED BY <2>1, <1>7, ValueFacts
<1>20. PICK a \in SVal : a = IF IsStatement THEN Unknown ELSE v
  BY ValueFacts
<1>21. PICK y : y = SetVar(s, Top.x, v)
  OBVIOUS
<1>22. /\ p' = (IF r # NoReg THEN p
                ELSE [q EXCEPT !.cache[l + 1] = IF q.full THEN @ ELSE dest])
       /\ m' = PutLocal(f, l, f.regs[dest]) /\ s' = Yield(y, 1, a)
  BY <1>6, <1>8, <1>9, <1>11, <1>13, <1>14, <1>16, <1>17, <1>19, <1>20, <1>21 DEF EndCompound, Go
<1>23. p' \in RegState /\ (~p'.full => Len(p'.rstack) >= Len(p.rstack))
  <2>1. CASE r # NoReg
    BY <2>1, <1>2, <1>22
  <2>2. CASE r = NoReg /\ q.full
    <3>1. q.cache \in Seq(Reg)
      BY <1>12, RegStateFacts
    <3>2. [q.cache EXCEPT ![l + 1] = q.cache[l + 1]] = q.cache
      BY <3>1
    <3>3. p' = q
      BY <2>2, <3>2, <1>12, <1>22 DEF RegState
    <3> QED BY <3>3, <2>2, <1>12
  <2>3. CASE r = NoReg /\ ~q.full
    <3>1. PICK c : c = [q.cache EXCEPT ![l + 1] = dest]
      OBVIOUS
    <3>2. c \in Seq(Reg)
      <4>1. q.cache \in Seq(Reg)
        BY <1>12, RegStateFacts
      <4>2. l + 1 \in 1 .. Len(q.cache)
        BY <2>3, <1>7, <1>10, <1>12
      <4> QED BY <4>1, <4>2, <3>1, ExceptSeq
    <3>3. p' = [q EXCEPT !.cache = c]
      BY <2>3, <3>1, <1>12, <1>22 DEF RegState
    <3>4. p' \in RegState /\ p'.rstack = q.rstack
      BY <3>2, <3>3, <1>12 DEF RegState
    <3> QED BY <3>4, <2>3, <1>2, <1>12
  <2> QED BY <2>1, <2>2, <2>3, <1>12, RegStateFacts
<1>24. m' \in Machine
  BY <1>7, <1>18, <1>22, PutLocalFacts
<1>25. Reading(y, vars) /\ y.vals = s.vals
  BY <1>2, <1>5, <1>21, SetVarFacts
<1>26. Results(y, 1, a)
  <2>1. ~p'.full => Len(p'.rstack) + 1 >= Len(p.rstack) + 1
    BY <1>2, <1>23, RegStateFacts
  <2> QED BY <2>1, <1>1, <1>2, <1>3, <1>22, <1>23, <1>24, <1>25, OtherFacts DEF Results
<1> QED BY <1>1, <1>3, <1>4, <1>26, EndStep

LEMMA FieldCore ==
  ASSUME CoreInv, Field
  PROVE  CoreInv'
<1>1. /\ p \in RegState /\ m \in Machine /\ Reading(s, vars) /\ tokens \in 0 .. MaxTokens
      /\ Fits(need, Top.k) /\ Len(s.vals) \in Nat /\ Len(p.rstack) \in Nat
  BY CoreFacts
<1>2. /\ need = "value" /\ ~p.full /\ need' = "more" /\ last' = Other /\ SameScope
      /\ UNCHANGED todo /\ tokens' \in 0 .. MaxTokens
  BY <1>1, ReadsFacts, TokensSpent DEF Field
<1>3. PICK q : q = NewReg(p)
  OBVIOUS
<1>4. p' = q /\ m' = Put(m, Dest(q), m.field) /\ s' = Yield(s, 0, s.field)
  BY <1>3 DEF Field, Go
<1>5. m.field \in Val /\ s.field \in SVal
  BY <1>1, MachineFacts, SourceFacts
<1>6. q \in RegState /\ Dest(q) \in Reg /\ (~q.full => Len(q.rstack) = Len(p.rstack) + 1)
  BY <1>1, <1>3, NewRegLength
<1>7. m' \in Machine
  BY <1>1, <1>4, <1>5, <1>6, PutFacts
<1>8. Results(s, 0, s.field)
  BY <1>1, <1>2, <1>4, <1>5, <1>6, <1>7, OtherFacts DEF Results
<1>9. Parts(p', m', s', last', vars) /\ Len(s'.vals) + 0 = Len(s.vals) + 1
  BY <1>2, <1>8, ResultParts
<1>10. Len(s'.vals) + Ready(need) = Len(s.vals) + Ready(need')
  BY <1>2, <1>9, ReadyFacts
<1>11. need' \in Needs /\ Fits(need', Top.k)
  BY <1>1, <1>2 DEF Fits, Needs
<1> QED BY <1>2, <1>9, <1>10, <1>11, SameStep

LEMMA AssignFieldCore ==
  ASSUME CoreInv, NEW k \in {"fieldset", "fieldop"}, AssignField(k)
  PROVE  CoreInv'
<1>1. /\ need = "value" /\ ~p.full /\ SameScope /\ Room /\ UNCHANGED <<p, m, s, last>>
      /\ tokens' \in 0 .. MaxTokens /\ Open(Item(k)) /\ Fits(need, Top.k)
      /\ Len(s.vals) \in Nat
  BY CoreFacts, ReadsFacts, TokensSpent DEF AssignField
<1>2. PICK o : o = Item(k)
  OBVIOUS
<1>3. o \in ItemSet /\ Notes(o, vars, placed) /\ o.k = k /\ Held(o) = 0
  <2>1. k \in Kinds /\ k \notin {"let", "assign", "compound"}
    BY DEF Kinds, ExprReaders, OperandKinds
  <2> QED BY <2>1, <1>2, ItemFacts, HeldFacts
<1>4. Nests(Top.k, o.k) /\ o.k \in ExprReaders
  BY <1>1, <1>3 DEF Fits, Nests, ExprReaders, OperandKinds
<1>5. Len(s'.vals) + Ready(need) = Len(s.vals) + Held(o)
  BY <1>1, <1>3, ReadyFacts
<1> QED BY <1>1, <1>2, <1>3, <1>4, <1>5, PartsSame, OpenStep

LEMMA EndAssignFieldCore ==
  ASSUME CoreInv, EndAssignField
  PROVE  CoreInv'
<1>1. /\ need = "done" /\ ~p.full /\ SameScope /\ tokens' \in 0 .. MaxTokens /\ todo' = Below
      /\ Top.k = "fieldset" /\ need' = "closed" /\ last' = Other
  BY CoreFacts, ReadsFacts DEF EndAssignField
<1>2. /\ p \in RegState /\ m \in Machine /\ Reading(s, vars)
      /\ Len(s.vals) \in Nat /\ Len(p.rstack) \in Nat /\ Len(s.vals) <= Len(p.rstack)
  BY <1>1, CoreFacts
<1>3. /\ Held(Top) = 0 /\ Ready(need) = 1 /\ Ready(need') = 1 /\ 0 < Held(Top) + Ready(need)
  BY <1>1, HeldFacts, ReadyFacts
<1>4. FitsBelow(Top.k, need') /\ Top.k \notin ScopeKinds
  BY <1>1 DEF FitsBelow, ScopeKinds, OperandKinds
<1>5. PICK b \in Val : b = m.regs[LastReg(p)]
  BY <1>1, <1>3, LastValue
<1>6. PICK a \in SVal : a = Operand(s, 0)
  BY <1>1, <1>3, LastValue
<1>7. p' = p /\ m' = SetField(m, b) /\ s' = SetField(s, a)
  BY <1>5, <1>6 DEF EndAssignField, Go
<1>8. m' \in Machine
  BY <1>2, <1>7, MachineFacts
<1>9. Reading(s', vars) /\ s'.vals = s.vals
  BY <1>2, <1>7, SourceFacts
<1>10. Parts(p', m', s', last', vars)
  BY <1>1, <1>2, <1>7, <1>8, <1>9, OtherFacts DEF Parts
<1>11. Len(s'.vals) + Ready(need) + Held(Top) = Len(s.vals) + Ready(need')
  BY <1>2, <1>3, <1>9
<1> QED BY <1>1, <1>4, <1>10, <1>11, PopStep

LEMMA EndCompoundFieldCore ==
  ASSUME CoreInv, EndCompoundField
  PROVE  CoreInv'
<1>1. /\ need = "done" /\ ~p.full /\ SameScope /\ tokens' \in 0 .. MaxTokens /\ todo' = Below
      /\ Top.k = "fieldop" /\ need' = "closed" /\ last' = Other
  BY CoreFacts, ReadsFacts DEF EndCompoundField
<1>2. /\ p \in RegState /\ m \in Machine /\ Reading(s, vars)
      /\ Len(s.vals) \in Nat /\ Len(p.rstack) \in Nat /\ Len(s.vals) <= Len(p.rstack)
  BY <1>1, CoreFacts
<1>3. /\ Held(Top) = 0 /\ Ready(need) = 1 /\ Ready(need') = 1 /\ 0 < Held(Top) + Ready(need)
      /\ 1 <= Len(s.vals) /\ 1 = Held(Top) + Ready(need)
  BY <1>1, <1>2, HeldFacts, HeldThere, ReadyFacts
<1>4. FitsBelow(Top.k, need') /\ Top.k \notin ScopeKinds
  BY <1>1 DEF FitsBelow, ScopeKinds, OperandKinds
<1>5. PICK q : q = NewReg(p)
  OBVIOUS
<1>6. q \in RegState /\ Dest(q) \in Reg /\ (~q.full => Len(q.rstack) = Len(p.rstack) + 1)
  BY <1>2, <1>5, NewRegLength
<1>7. CASE q.full
  <2>1. p' = q /\ m' = m /\ s' = s
    BY <1>5, <1>7 DEF EndCompoundField, Go
  <2>2. Parts(p', m', s', last', vars)
    BY <2>1, <1>1, <1>2, <1>6, <1>7, OtherFacts DEF Parts
  <2>3. Len(s'.vals) + Ready(need) + Held(Top) = Len(s.vals) + Ready(need')
    BY <2>1, <1>2, <1>3
  <2> QED BY <2>2, <2>3, <1>1, <1>4, PopStep
<1>8. CASE ~q.full
  <2>1. PICK r : r = Apply2(q)
    OBVIOUS
  <2>2. /\ r \in RegState /\ Dest(r) \in Reg
        /\ ~r.full => Len(r.rstack) = Len(q.rstack) - 1
        /\ TopReg(q, 0) \in Reg /\ TopReg(q, 1) \in Reg
    <3>1. Len(q.rstack) > 1
      BY <1>2, <1>3, <1>6, <1>8
    <3> QED BY <2>1, <3>1, <1>6, Apply2Facts
  <2>3. PICK e : e = Put(m, Dest(q), m.field)
    OBVIOUS
  <2>4. e \in Machine
    <3>1. m.field \in Val
      BY <1>2, MachineFacts
    <3> QED BY <3>1, <2>3, <1>2, <1>6, PutFacts
  <2>5. PICK b \in Val : b = FieldOp(e.regs[TopReg(q, 1)], e.regs[TopReg(q, 0)])
    <3>1. e.regs[TopReg(q, 1)] \in Val /\ e.regs[TopReg(q, 0)] \in Val
      BY <2>2, <2>4, MachineFacts
    <3> QED BY <3>1, ValueFacts
  <2>6. PICK f : f = Put(e, Dest(r), b)
    OBVIOUS
  <2>7. f \in Machine
    BY <2>2, <2>4, <2>6, PutFacts
  <2>8. PICK c \in Val : c = f.regs[Dest(r)]
    BY <2>2, <2>7, MachineFacts
  <2>9. PICK a \in SVal : a = FieldOp(s.field, Operand(s, 0))
    <3>1. s.field \in SVal /\ Operand(s, 0) \in SVal
      BY <1>1, <1>2, <1>3, SourceFacts, LastValue
    <3> QED BY <3>1, ValueFacts
  <2>10. PICK y : y = SetField(s, a)
    OBVIOUS
  <2>11. Reading(y, vars) /\ y.vals = s.vals
    BY <2>10, <1>2, SourceFacts
  <2>12. p' = r /\ m' = SetField(f, c) /\ s' = Yield(y, 1, a)
    BY <2>1, <2>3, <2>5, <2>6, <2>8, <2>9, <2>10, <1>5, <1>8 DEF EndCompoundField, Go
  <2>13. m' \in Machine
    BY <2>7, <2>12, MachineFacts
  <2>14. ~p'.full => Len(p'.rstack) + 1 >= Len(p.rstack) + 1
    BY <2>2, <2>12, <1>2, <1>6, <1>8
  <2>15. Results(y, 1, a)
    BY <2>2, <2>11, <2>12, <2>13, <2>14, <1>1, <1>2, <1>3, OtherFacts DEF Results
  <2> QED BY <2>15, <1>1, <1>3, <1>4, EndStep
<1> QED BY <1>7, <1>8

-----------------------------------------------------------------------------
(* Statements keep the types and the shape.                                *)

(* A statement, and a block that is not the function, is part of blocks only. *)
LEMMA BlockBelow ==
  ASSUME CoreInv, Top.k \in StatementKinds \cup (BlockKinds \ {"func"}),
         NEW h, NEW u, h = Len(todo), u = Below
  PROVE  /\ h \in Nat /\ h - 1 \in Nat \ {0} /\ Len(u) = h - 1 /\ u[h - 1].k \in BlockKinds
         /\ Nests(u[h - 1].k, Top.k)
         /\ \A i \in 1 .. h - 1 : u[i] = todo[i]
         /\ \A w, k : Shape(u, w, k)
         /\ Upto(u, h - 1) = 0 /\ Upto(todo, h) = 0 /\ Len(s.vals) = Ready(need)
         /\ Total(Opened(u), h - 1) \in Nat
         /\ Len(vars) = Total(Opened(u), h - 1) + 1 + IF Top.k \in ScopeKinds THEN 1 ELSE 0
<1>1. /\ Shape(todo, vars, placed) /\ Top = todo[h] /\ h \in Nat \ {0} /\ Held(Top) \in 0 .. 2
      /\ Len(s.vals) = Upto(todo, h) + Ready(need)
      /\ Len(vars) = Total(Opened(todo), h) + 1
  BY CoreFacts
<1>2. Top.k # "func"
  BY DEF StatementKinds
<1>3. Ends(vars, placed, todo, h, u)
  BY <1>1, <1>2 DEF Ends, Below
<1>4. /\ Shape(u, vars, placed) /\ Len(u) = h - 1 /\ h - 1 \in Nat \ {0}
      /\ \A i \in 1 .. h - 1 : u[i] = todo[i]
      /\ Nests(u[h - 1].k, todo[h].k)
      /\ Upto(todo, h) = Upto(u, h - 1) + Held(todo[h])
      /\ Total(Opened(todo), h)
           = Total(Opened(u), h - 1) + IF todo[h].k \in ScopeKinds THEN 1 ELSE 0
  BY <1>3, PopShape
<1>5. u[h - 1].k \in BlockKinds
  <2>1. DOMAIN todo = 1 .. h /\ Nested(todo)
    BY <1>1, LenProperties DEF Shape
  <2>2. h - 1 \in DOMAIN todo /\ h \in DOMAIN todo /\ h - 1 < h
    BY <2>1, <1>1, <1>4
  <2>3. todo[h].k \in StatementKinds \cup BlockKinds
    BY <1>1
  <2>4. todo[h - 1].k \in BlockKinds
    BY <2>1, <2>2, <2>3 DEF Nested
  <2>5. u[h - 1] = todo[h - 1]
    BY <1>4
  <2> QED BY <2>4, <2>5
<1>6. PICK k \in Nat : k = h - 1
  BY <1>4
<1>7. Upto(u, k) = 0 /\ \A w, n : Shape(u, w, n)
  <2>1. k \in 0 .. k /\ Len(u) = k /\ u[k].k \in BlockKinds
    BY <1>4, <1>5, <1>6
  <2> QED BY <2>1, <1>4, BlockShape
<1>8. Held(Top) = 0
  BY HeldFacts
<1>9. Total(Opened(u), k) \in Nat
  <2>1. u \in Seq(ItemSet) /\ k \in 0 .. Len(u)
    BY <1>4, <1>6 DEF Shape
  <2> QED BY <2>1, WeightType
<1>10. Upto(todo, h) = 0
  BY <1>1, <1>4, <1>6, <1>7, <1>8
<1>11. Len(s.vals) = Ready(need)
  BY <1>1, <1>10, ReadyFacts
<1>12. Len(vars) = Total(Opened(u), h - 1) + 1 + IF Top.k \in ScopeKinds THEN 1 ELSE 0
  BY <1>1, <1>4, <1>6, <1>9
<1> QED BY <1>1, <1>4, <1>5, <1>6, <1>7, <1>9, <1>10, <1>11, <1>12

(* The end of a statement. *)
Finishes(q, f, t, v) == q \in RegState /\ Reading(f, v) /\ Over(q, f, t)

LEMMA OverFacts ==
  ASSUME NEW q, NEW f, NEW t, NEW v, Finishes(q, f, t, v)
  PROVE  /\ p' \in RegState /\ p'.full = q.full
         /\ Reading(s', v) /\ s'.vals = <<>> /\ Len(s'.vals) = 0
         /\ s'.env = f.env /\ s'.at = f.at /\ s'.field = f.field /\ s'.ret = f.ret
         /\ todo' = t /\ need' = "stmt"
         /\ Len(p'.rstack) \in Nat
<1>0. q \in RegState /\ Reading(f, v) /\ Over(q, f, t)
  BY DEF Finishes
<1>1. p' \in RegState /\ p'.full = q.full
  <2>1. PICK r : r = FlushFree(q)
    OBVIOUS
  <2>2. r \in RegState /\ r.full = q.full
    BY <2>1, <1>0, FlushFreeFacts
  <2>3. p' = q \/ p' = r
    BY <2>1, <1>0 DEF Over
  <2> QED BY <2>2, <2>3, <1>0
<1>2. <<>> \in Seq(SVal) /\ Len(<<>>) = 0
  BY EmptySeq
<1>3. s' = [f EXCEPT !.vals = <<>>] /\ todo' = t /\ need' = "stmt"
  BY <1>0 DEF Over
<1>4. /\ Reading(s', v) /\ s'.vals = <<>>
      /\ s'.env = f.env /\ s'.at = f.at /\ s'.field = f.field /\ s'.ret = f.ret
  BY <1>0, <1>2, <1>3 DEF Reading, Source
<1>5. Len(p'.rstack) \in Nat
  BY <1>1, RegStateFacts
<1> QED BY <1>1, <1>2, <1>3, <1>4, <1>5

LEMMA StatementFits ==
  \A k \in StatementKinds : k \in ExprReaders /\ k \in Kinds /\ k \notin ScopeKinds
                            /\ FitsBelow(k, "stmt")
BY DEF StatementKinds, ExprReaders, Kinds, ScopeKinds, FitsBelow

(* A statement that leaves the scopes alone is over. *)
LEMMA StatementStep ==
  ASSUME CoreInv, need = "done", SameScope, tokens' \in 0 .. MaxTokens, Top.k \in StatementKinds,
         m' \in Machine, LoadedLocal(last'), NEW q, NEW f, Finishes(q, f, Below, vars)
  PROVE  CoreInv'
<1>1. /\ p' \in RegState /\ Reading(s', vars) /\ Len(s'.vals) = 0 /\ todo' = Below
      /\ need' = "stmt" /\ Len(p'.rstack) \in Nat
  BY OverFacts
<1>2. Parts(p', m', s', last', vars)
  BY <1>1 DEF Parts
<1>3. Len(s.vals) = Ready(need)
  BY BlockBelow
<1>4. Held(Top) = 0 /\ Top.k \notin ScopeKinds /\ FitsBelow(Top.k, need')
  BY <1>1, HeldFacts, StatementFits
<1>5. Len(s'.vals) + Ready(need) + Held(Top) = Len(s.vals) + Ready(need')
  BY <1>1, <1>3, <1>4, ReadyFacts
<1> QED BY <1>1, <1>2, <1>4, <1>5, PopStep

LEMMA BeginFacts ==
  ASSUME CoreInv, NEW k \in StatementKinds, Begin(k)
  PROVE  /\ need = "stmt" /\ ~p.full /\ SameScope /\ Room /\ UNCHANGED <<m, s, last>>
         /\ tokens' \in 0 .. MaxTokens /\ Nests(Top.k, k)
         /\ p \in RegState /\ m \in Machine /\ Reading(s, vars) /\ LoadedLocal(last)
         /\ Len(s.vals) = 0
<1>1. /\ need = "stmt" /\ ~p.full /\ SameScope /\ Room /\ UNCHANGED <<m, s, last>>
      /\ tokens' \in 0 .. MaxTokens /\ Top.k \in Blocks
  BY CoreFacts, ReadsFacts, TokensSpent DEF Begin
<1>2. Nests(Top.k, k)
  BY <1>1 DEF Nests
<1>3. Len(s.vals) = 0
  <2>1. PICK h \in Nat : h = Len(todo)
    BY CoreFacts
  <2>2. todo[h].k \in BlockKinds /\ Shape(todo, vars, placed) /\ h \in 0 .. h
    BY <2>1, <1>1, CoreFacts, KindsApart
  <2>3. Upto(todo, h) = 0
    BY <2>1, <2>2, BlockShape
  <2> QED BY <2>1, <2>3, <1>1, CoreFacts, ReadyFacts
<1> QED BY <1>1, <1>2, <1>3, CoreFacts

LEMMA StatementCore ==
  ASSUME CoreInv, NEW k \in {"effect", "print", "return"}, Statement(k)
  PROVE  CoreInv'
<1>1. k \in StatementKinds
  BY DEF StatementKinds
<1>2. /\ need = "stmt" /\ ~p.full /\ SameScope /\ Room /\ UNCHANGED <<p, m, s, last>>
      /\ tokens' \in 0 .. MaxTokens /\ Nests(Top.k, k) /\ Len(s.vals) = 0 /\ Open(Item(k))
  BY <1>1, BeginFacts DEF Statement
<1>3. PICK o : o = Item(k)
  OBVIOUS
<1>4. o \in ItemSet /\ Notes(o, vars, placed) /\ o.k = k /\ Held(o) = 0 /\ o.k \in ExprReaders
  <2>1. k \in Kinds /\ k \in ExprReaders /\ k \notin {"let", "assign", "compound"}
    BY <1>1, StatementFits
  <2> QED BY <2>1, <1>1, <1>3, ItemFacts, HeldFacts
<1>5. Len(s'.vals) + Ready(need) = Len(s.vals) + Held(o)
  BY <1>2, <1>4, ReadyFacts
<1> QED BY <1>2, <1>3, <1>4, <1>5, PartsSame, OpenStep

LEMMA LetCore ==
  ASSUME CoreInv, NEW x \in Names, Let(x)
  PROVE  CoreInv'
<1>1. "let" \in StatementKinds
  BY DEF StatementKinds
<1>2. /\ need = "stmt" /\ ~p.full /\ SameScope /\ Room /\ UNCHANGED <<p, m, s, last>>
      /\ tokens' \in 0 .. MaxTokens /\ Nests(Top.k, "let") /\ Len(s.vals) = 0
      /\ placed < MaxLocals /\ Open([Item("let") EXCEPT !.x = x])
  BY <1>1, BeginFacts DEF Let
<1>3. PICK o : o = [Item("let") EXCEPT !.x = x]
  OBVIOUS
<1>4. o = [k |-> "let", op |-> 0, reg |-> 0, x |-> x, params |-> <<>>]
  BY <1>3 DEF Item
<1>5. o \in ItemSet /\ Notes(o, vars, placed) /\ o.k = "let" /\ Held(o) = 0 /\ o.k \in ExprReaders
  <2>1. o \in ItemSet
    BY <1>4, <1>1, StatementFits, RegZero, EmptySeq DEF ItemSet
  <2>2. Notes(o, vars, placed)
    BY <1>2, <1>4 DEF Notes
  <2> QED BY <2>1, <2>2, <1>1, <1>4, StatementFits, HeldFacts
<1>6. Len(s'.vals) + Ready(need) = Len(s.vals) + Held(o)
  BY <1>2, <1>5, ReadyFacts
<1> QED BY <1>2, <1>3, <1>5, <1>6, PartsSame, OpenStep

LEMMA EndEffectCore ==
  ASSUME CoreInv, EndEffect
  PROVE  CoreInv'
<1>1. /\ need = "done" /\ SameScope /\ tokens' \in 0 .. MaxTokens /\ Top.k = "effect"
      /\ UNCHANGED <<m, last>> /\ Over(p, s, Below)
  BY CoreFacts, ReadsFacts DEF EndEffect
<1>2. Finishes(p, s, Below, vars)
  BY <1>1, CoreFacts DEF Finishes
<1>3. Top.k \in StatementKinds /\ m' \in Machine /\ LoadedLocal(last')
  BY <1>1, CoreFacts DEF StatementKinds
<1> QED BY <1>1, <1>2, <1>3, StatementStep

LEMMA PrintValueCore ==
  ASSUME CoreInv, PrintValue
  PROVE  CoreInv'
<1>1. /\ need = "done" /\ ~p.full /\ SameScope /\ tokens' \in 0 .. MaxTokens /\ Top.k = "print"
      /\ UNCHANGED m /\ last' = Other
  BY CoreFacts, ReadsFacts DEF PrintValue
<1>2. /\ p \in RegState /\ m \in Machine /\ Reading(s, vars)
      /\ Len(s.vals) \in Nat /\ Len(p.rstack) \in Nat /\ Len(s.vals) <= Len(p.rstack)
  BY <1>1, CoreFacts
<1>3. Top.k \in StatementKinds /\ Held(Top) = 0 /\ Ready(need) = 1 /\ 1 <= Len(s.vals)
      /\ Ready("value") = 0
  BY <1>1, <1>2, HeldFacts, HeldThere, ReadyFacts DEF StatementKinds
<1>4. PICK q : q = PopReg(p)
  OBVIOUS
<1>5. q \in RegState /\ Len(q.rstack) = Len(p.rstack) - 1
  BY <1>2, <1>3, <1>4, PopRegFacts
<1>6. CASE Over(PopReg(p), s, Below)
  <2>1. Finishes(q, s, Below, vars)
    BY <1>2, <1>4, <1>5, <1>6 DEF Finishes
  <2>2. m' \in Machine /\ LoadedLocal(last')
    BY <1>1, <1>2, OtherFacts
  <2> QED BY <1>1, <1>3, <2>1, <2>2, StatementStep
<1>7. CASE p' = PopReg(p) /\ s' = Drop(s, 1) /\ todo' = Append(todo, Item("expr"))
           /\ need' = "value"
  <2>1. PICK f : f = Drop(s, 1)
    OBVIOUS
  <2>2. Reading(f, vars) /\ Len(f.vals) = Len(s.vals) - 1
    <3>1. PICK h \in Nat : h = Len(s.vals)
      BY <1>2
    <3>2. Drops(vars, s, h, 1, f)
      BY <3>1, <2>1, <1>2, <1>3 DEF Drops
    <3> QED BY <3>1, <3>2, DropFacts
  <2>3. Parts(p', m', s', last', vars)
    BY <2>1, <2>2, <1>1, <1>2, <1>4, <1>5, <1>7, OtherFacts DEF Parts
  <2>4. Len(s'.vals) + Ready(need) = Len(s.vals)
    BY <2>1, <2>2, <1>2, <1>3, <1>7
  <2>5. Top.k \in ExprReaders /\ Len(todo) < MaxDepth
    BY <1>1, <1>3, StatementFits, CoreFacts
  <2> QED BY <1>1, <1>7, <2>3, <2>4, <2>5, PushStep
<1> QED BY <1>6, <1>7 DEF PrintValue

LEMMA ReturnCore ==
  ASSUME CoreInv, Return
  PROVE  CoreInv'
<1>1. /\ need = "done" /\ ~p.full /\ SameScope /\ tokens' \in 0 .. MaxTokens /\ Top.k = "return"
  BY CoreFacts, ReadsFacts DEF Return
<1>2. /\ p \in RegState /\ m \in Machine /\ Reading(s, vars) /\ LoadedLocal(last)
      /\ Len(s.vals) \in Nat /\ Len(p.rstack) \in Nat /\ Len(s.vals) <= Len(p.rstack)
  BY <1>1, CoreFacts
<1>3. Top.k \in StatementKinds /\ Held(Top) = 0 /\ Ready(need) = 1 /\ 1 <= Len(s.vals)
      /\ 0 < Held(Top) + Ready(need)
  BY <1>1, <1>2, HeldFacts, HeldThere, ReadyFacts DEF StatementKinds
<1>4. PICK q : q = PopReg(p)
  OBVIOUS
<1>5. q \in RegState
  BY <1>2, <1>3, <1>4, PopRegFacts
<1>6. PICK b \in Val : b = IF last.op = "load" /\ last.reg = LastReg(p)
                           THEN m.locals[last.local] ELSE m.regs[LastReg(p)]
  <2>1. m.regs[LastReg(p)] \in Val
    BY <1>1, <1>3, LastValue
  <2>2. last.op = "load" => m.locals[last.local] \in Val
    BY <1>2, MachineFacts DEF LoadedLocal
  <2> QED BY <2>1, <2>2
<1>7. PICK c \in Val : c = IF Running(m) THEN b ELSE m.ret
  BY <1>2, MachineFacts
<1>8. PICK e : e = [m EXCEPT !.ret = c]
  OBVIOUS
<1>9. e \in Machine
  BY <1>2, <1>8 DEF Machine
<1>10. PICK a \in SVal : a = IF Running(s) THEN Operand(s, 0) ELSE s.ret
  <2>1. Operand(s, 0) \in SVal /\ s.ret \in SVal
    BY <1>1, <1>2, <1>3, LastValue, SourceFacts
  <2> QED BY <2>1
<1>11. PICK f : f = [s EXCEPT !.ret = a]
  OBVIOUS
<1>12. Reading(f, vars)
  BY <1>2, <1>11 DEF Reading, Source
<1>13. m' = Jump(e, Stop)
  BY <1>6, <1>7, <1>8 DEF Return
<1>14. PICK g : g = Jump(f, Stop)
  OBVIOUS
<1>15. Over(q, g, Below) /\ last' = [Other EXCEPT !.op = "ret", !.depth = Len(Below)]
  BY <1>4, <1>10, <1>11, <1>14 DEF Return
<1>16. m' \in Machine /\ Reading(g, vars)
  BY <1>9, <1>12, <1>13, <1>14, LabelFacts, JumpFacts, SourceJumpFacts
<1>17. LoadedLocal(last')
  <2>1. PICK h \in Nat : h = Len(Below)
    <3>1. Len(Below) \in Nat
      BY <1>3, BlockBelow
    <3> QED BY <3>1
  <2>2. last' = [op |-> "ret", reg |-> 0, local |-> 0, depth |-> h]
    BY <2>1, <1>15 DEF Other
  <2> QED BY <2>2, RegZero DEF LoadedLocal, LastSet
<1>18. Finishes(q, g, Below, vars)
  BY <1>5, <1>15, <1>16 DEF Finishes
<1> QED BY <1>1, <1>3, <1>16, <1>17, <1>18, StatementStep

LEMMA BranchCore ==
  ASSUME CoreInv, NEW k \in {"if", "while"}, Branch(k)
  PROVE  CoreInv'
<1>1. k \in StatementKinds
  BY DEF StatementKinds
<1>2. /\ need = "stmt" /\ ~p.full /\ SameScope /\ Room /\ UNCHANGED <<m, s, last>>
      /\ tokens' \in 0 .. MaxTokens /\ Nests(Top.k, k) /\ Len(s.vals) = 0 /\ Open(Item(k))
      /\ p \in RegState /\ m \in Machine /\ Reading(s, vars) /\ LoadedLocal(last)
  BY <1>1, BeginFacts DEF Branch
<1>3. PICK o : o = Item(k)
  OBVIOUS
<1>4. o \in ItemSet /\ Notes(o, vars, placed) /\ o.k = k /\ Held(o) = 0 /\ o.k \in ExprReaders
  <2>1. k \in Kinds /\ k \in ExprReaders /\ k \notin {"let", "assign", "compound"}
    BY <1>1, StatementFits
  <2> QED BY <2>1, <1>1, <1>3, ItemFacts, HeldFacts
<1>5. Len(s'.vals) + Ready(need) = Len(s.vals) + Held(o)
  BY <1>2, <1>4, ReadyFacts
<1>6. p' \in RegState
  <2>1. PICK q : q = FlushCached(p)
    OBVIOUS
  <2>2. q \in RegState
    BY <2>1, <1>2, FlushFacts
  <2> QED BY <2>1, <2>2 DEF Branch
<1>7. Parts(p', m', s', last', vars)
  <2>1. Len(p'.rstack) \in Nat
    BY <1>6, RegStateFacts
  <2> QED BY <2>1, <1>2, <1>6 DEF Parts
<1> QED BY <1>2, <1>3, <1>4, <1>5, <1>7, OpenStep

LEMMA EndFunctionCore ==
  ASSUME CoreInv, EndFunction
  PROVE  CoreInv'
<1>1. /\ need = "stmt" /\ ~p.full /\ SameScope /\ tokens' \in 0 .. MaxTokens /\ Top.k = "func"
      /\ UNCHANGED <<p, todo, last>> /\ need' = "end" /\ m' = Jump(m, Stop) /\ s' = Jump(s, Stop)
  BY CoreFacts, ReadsFacts DEF EndFunction
<1>2. /\ p \in RegState /\ m \in Machine /\ Reading(s, vars) /\ LoadedLocal(last)
      /\ Len(s.vals) <= Len(p.rstack) /\ Len(s.vals) \in Nat
  BY <1>1, CoreFacts
<1>3. m' \in Machine /\ Reading(s', vars) /\ s'.vals = s.vals
  <2>1. Stop \in Label
    BY LabelFacts
  <2>2. m' \in Machine
    BY <2>1, <1>1, <1>2, JumpFacts
  <2>3. Reading(Jump(s, Stop), vars) /\ Jump(s, Stop).vals = s.vals
    BY <2>1, <1>2, SourceJumpFacts
  <2> QED BY <2>2, <2>3, <1>1
<1>4. Parts(p', m', s', last', vars)
  BY <1>1, <1>2, <1>3 DEF Parts
<1>5. need' \in Needs /\ Fits(need', Top.k) /\ need' # "done"
  BY <1>1 DEF Needs, Fits, BlockKinds
<1>6. Len(s'.vals) + Ready(need) = Len(s.vals) + Ready(need')
  BY <1>1, <1>2, <1>3, ReadyFacts
<1> QED BY <1>1, <1>4, <1>5, <1>6, SameStep

-----------------------------------------------------------------------------
(* Steps that change the scopes.                                           *)

Rescoped(t, h) ==
  /\ Parts(p', m', s', last', vars') /\ vars' \in Seq(Scope(0 .. MaxLocals - 1))
  /\ Placed(vars', placed') /\ placed' \in 0 .. MaxLocals /\ max_locals' \in 0 .. MaxLocals
  /\ tokens' \in 0 .. MaxTokens
  /\ todo' = t /\ h = Len(t) /\ h <= MaxDepth /\ Shape(t, vars', placed')
  /\ need' \in Needs \ {"done"} /\ Fits(need', t[h].k)
  /\ Len(s'.vals) = Upto(t, h) + Ready(need')
  /\ Len(vars') = Total(Opened(t), h) + 1

LEMMA ScopeStep ==
  ASSUME NEW t, NEW h, Rescoped(t, h)
  PROVE  CoreInv'
<1>1. TypeInv'
  BY DEF TypeInv, Rescoped, Parts, LoadedLocal
<1>2. ShapeInv'
  BY DEF ShapeInv, Rescoped, Parts, Top
<1>3. PlaceInv'
  BY DEF PlaceInv, Rescoped
<1> QED BY <1>1, <1>2, <1>3 DEF CoreInv

(* The innermost scope is closed, or a new one opened, in both readings. *)
Leaves(v, e, w, f) ==
  /\ Reading(e, v) /\ v \in Seq(Scope(0 .. MaxLocals - 1)) /\ v # <<>>
  /\ w = Front(v) /\ f = OutOfScope(e)

LEMMA LeaveFacts ==
  ASSUME NEW v, NEW e, NEW w, NEW f, Leaves(v, e, w, f)
  PROVE  /\ Reading(f, w)
         /\ \A i \in 1 .. Len(v) - 1 : f.env[i] = e.env[i]
         /\ f.vals = e.vals /\ f.at = e.at /\ f.field = e.field /\ f.ret = e.ret
<1>0. /\ Reading(e, v) /\ v \in Seq(Scope(0 .. MaxLocals - 1)) /\ v # <<>>
      /\ w = Front(v) /\ f = OutOfScope(e)
  BY DEF Leaves
<1>1. /\ e \in Source /\ Len(e.env) = Len(v) /\ e.env \in Seq(Scope(SVal))
      /\ \A i \in DOMAIN v : DOMAIN e.env[i] = DOMAIN v[i]
  BY <1>0 DEF Reading, Source
<1>2. /\ Len(w) = Len(v) - 1 /\ DOMAIN w = 1 .. Len(v) - 1 /\ DOMAIN v = 1 .. Len(v)
      /\ Len(v) \in Nat \ {0} /\ \A i \in 1 .. Len(v) - 1 : w[i] = v[i]
  BY <1>0, FrontFacts
<1>3. PICK b : b = Front(e.env)
  OBVIOUS
<1>4. /\ b \in Seq(Scope(SVal)) /\ Len(b) = Len(v) - 1
      /\ \A i \in 1 .. Len(v) - 1 : b[i] = e.env[i]
  <2>1. e.env # <<>>
    BY <1>1, <1>2, EmptySeq
  <2>2. /\ b \in Seq(Scope(SVal)) /\ Len(b) = Len(e.env) - 1
        /\ \A i \in 1 .. Len(e.env) - 1 : b[i] = e.env[i]
    BY <2>1, <1>1, <1>3, FrontFacts
  <2> QED BY <2>2, <1>1
<1>5. f = [e EXCEPT !.env = b]
  BY <1>0, <1>3 DEF OutOfScope
<1>6. /\ f \in Source /\ f.env = b
      /\ f.vals = e.vals /\ f.at = e.at /\ f.field = e.field /\ f.ret = e.ret
  BY <1>1, <1>4, <1>5 DEF Source
<1>7. \A i \in DOMAIN w : DOMAIN b[i] = DOMAIN w[i]
  BY <1>1, <1>2, <1>4
<1> QED BY <1>2, <1>4, <1>6, <1>7 DEF Reading

Enters(v, e, w, f) ==
  /\ Reading(e, v) /\ v \in Seq(Scope(0 .. MaxLocals - 1))
  /\ w = Append(v, <<>>) /\ f = InScope(e)

LEMMA EnterFacts ==
  ASSUME NEW v, NEW e, NEW w, NEW f, Enters(v, e, w, f)
  PROVE  /\ Reading(f, w)
         /\ \A i \in 1 .. Len(v) : f.env[i] = e.env[i]
         /\ f.vals = e.vals /\ f.at = e.at /\ f.field = e.field /\ f.ret = e.ret
<1>0. /\ Reading(e, v) /\ v \in Seq(Scope(0 .. MaxLocals - 1))
      /\ w = Append(v, <<>>) /\ f = InScope(e)
  BY DEF Enters
<1>1. /\ e \in Source /\ Len(e.env) = Len(v) /\ e.env \in Seq(Scope(SVal))
      /\ \A i \in DOMAIN v : DOMAIN e.env[i] = DOMAIN v[i]
  BY <1>0 DEF Reading, Source
<1>2. /\ Len(w) = Len(v) + 1 /\ DOMAIN w = 1 .. Len(v) + 1 /\ DOMAIN v = 1 .. Len(v)
      /\ Len(v) \in Nat /\ \A i \in 1 .. Len(v) : w[i] = v[i]
      /\ w[Len(v) + 1] = <<>>
  BY <1>0, ScopeEmpty, AppendFacts
<1>3. PICK b : b = Append(e.env, <<>>)
  OBVIOUS
<1>4. /\ b \in Seq(Scope(SVal)) /\ Len(b) = Len(v) + 1
      /\ \A i \in 1 .. Len(v) : b[i] = e.env[i]
      /\ b[Len(v) + 1] = <<>>
  <2>1. /\ b \in Seq(Scope(SVal)) /\ Len(b) = Len(e.env) + 1
        /\ \A i \in 1 .. Len(e.env) : b[i] = e.env[i]
        /\ b[Len(e.env) + 1] = <<>>
    BY <1>1, <1>3, ScopeEmpty, AppendFacts
  <2> QED BY <2>1, <1>1
<1>5. f = [e EXCEPT !.env = b]
  BY <1>0, <1>3 DEF InScope
<1>6. /\ f \in Source /\ f.env = b
      /\ f.vals = e.vals /\ f.at = e.at /\ f.field = e.field /\ f.ret = e.ret
  BY <1>1, <1>4, <1>5 DEF Source
<1>7. ASSUME NEW i \in DOMAIN w PROVE DOMAIN b[i] = DOMAIN w[i]
  <2>1. CASE i = Len(v) + 1
    BY <2>1, <1>2, <1>4
  <2>2. CASE i # Len(v) + 1
    <3>1. i \in 1 .. Len(v)
      BY <2>2, <1>2
    <3> QED BY <3>1, <1>1, <1>2, <1>4
  <2> QED BY <2>1, <2>2
<1> QED BY <1>2, <1>4, <1>6, <1>7 DEF Reading

(* The places of the names that go out of scope are given back. *)
LEMMA CloseFacts ==
  ASSUME CoreInv, Len(vars) > 1, NEW w, NEW k,
         w = Front(vars), k = placed - Cardinality(DOMAIN vars[Len(vars)])
  PROVE  /\ w \in Seq(Scope(0 .. MaxLocals - 1)) /\ Placed(w, k) /\ k \in 0 .. MaxLocals
         /\ Len(w) = Len(vars) - 1 /\ \A i \in 1 .. Len(vars) - 1 : w[i] = vars[i]
         /\ k <= placed /\ vars # <<>>
<1>1. /\ vars \in Seq(Scope(0 .. MaxLocals - 1)) /\ Placed(vars, placed) /\ placed \in 0 .. MaxLocals
      /\ vars # <<>>
  BY CoreFacts, EmptySeq
<1>2. /\ Placed(w, k) /\ w \in Seq(Scope(0 .. MaxLocals - 1)) /\ Len(w) = Len(vars) - 1
      /\ \A i \in 1 .. Len(vars) - 1 : w[i] = vars[i]
      /\ k \in Nat /\ k <= placed
  BY <1>1, ClosePlaced
<1>3. k \in 0 .. MaxLocals
  BY <1>1, <1>2, CompileAssumption
<1> QED BY <1>1, <1>2, <1>3

(* A block with a scope of its own ends. *)
LEMMA EndBlock ==
  ASSUME CoreInv, Top.k \in ScopeKinds, CloseScope, m' \in Machine, LoadedLocal(last'),
         tokens' \in 0 .. MaxTokens, NEW q, NEW f, q \in RegState, Reading(f, vars),
         Over(q, OutOfScope(f), Below)
  PROVE  CoreInv'
<1>1. PICK h, u : h = Len(todo) /\ u = Below
  OBVIOUS
<1>2. /\ h \in Nat /\ h - 1 \in Nat \ {0} /\ Len(u) = h - 1 /\ u[h - 1].k \in BlockKinds
      /\ \A w, k : Shape(u, w, k)
      /\ Upto(u, h - 1) = 0 /\ Total(Opened(u), h - 1) \in Nat
      /\ Len(vars) = Total(Opened(u), h - 1) + 1 + 1
  <2>1. Top.k \in BlockKinds \ {"func"}
    BY DEF ScopeKinds, BlockKinds
  <2> QED BY <2>1, <1>1, BlockBelow
<1>3. /\ vars' = Front(vars) /\ placed' = placed - Cardinality(DOMAIN vars[Len(vars)])
      /\ max_locals' = max_locals
  BY DEF CloseScope
<1>4. /\ vars' \in Seq(Scope(0 .. MaxLocals - 1)) /\ Placed(vars', placed')
      /\ placed' \in 0 .. MaxLocals /\ Len(vars') = Len(vars) - 1 /\ vars # <<>>
  BY <1>2, <1>3, CloseFacts
<1>5. PICK g : g = OutOfScope(f)
  OBVIOUS
<1>6. Reading(g, vars')
  <2>1. Leaves(vars, f, vars', g)
    BY <1>3, <1>4, <1>5, CoreFacts DEF Leaves
  <2> QED BY <2>1, LeaveFacts
<1>7. /\ p' \in RegState /\ Reading(s', vars') /\ Len(s'.vals) = 0 /\ todo' = u
      /\ need' = "stmt" /\ Len(p'.rstack) \in Nat
  <2>1. Finishes(q, g, u, vars')
    BY <1>1, <1>5, <1>6 DEF Finishes
  <2> QED BY <2>1, OverFacts
<1>8. Parts(p', m', s', last', vars')
  BY <1>7 DEF Parts
<1>9. "stmt" \in Needs \ {"done"} /\ Fits("stmt", u[h - 1].k) /\ Ready("stmt") = 0
  BY <1>2, ReadyFacts DEF Needs, Fits
<1>10. h - 1 <= MaxDepth /\ max_locals' \in 0 .. MaxLocals
  BY <1>1, <1>2, <1>3, CoreFacts, CompileAssumption
<1>11. Rescoped(u, h - 1)
  BY <1>2, <1>4, <1>7, <1>8, <1>9, <1>10 DEF Rescoped
<1> QED BY <1>11, ScopeStep

LEMMA AfterSkipFacts ==
  ASSUME CoreInv, AfterSkip
  PROVE  LoadedLocal(last')
BY CoreFacts, OtherFacts DEF AfterSkip

(* Jumps and labels at the end of a block. *)
LEMMA LandFacts ==
  ASSUME CoreInv, NEW e, NEW f, e \in Machine, Reading(f, vars)
  PROVE  /\ Land(e, ElseOf(Here)) \in Machine /\ Land(e, EndOf(Here)) \in Machine
         /\ Jump(e, EndOf(Here)) \in Machine /\ Jump(e, Stop) \in Machine
         /\ SkipElse(e) \in Machine
         /\ Reading(Land(f, ElseOf(Here)), vars) /\ Reading(Land(f, EndOf(Here)), vars)
         /\ Reading(Jump(f, EndOf(Here)), vars) /\ Reading(Jump(f, Stop), vars)
         /\ Land(f, ElseOf(Here)).vals = f.vals /\ Land(f, EndOf(Here)).vals = f.vals
         /\ Jump(f, EndOf(Here)).vals = f.vals /\ Jump(f, Stop).vals = f.vals
<1>1. PICK h \in Nat : h = Here
  BY CoreFacts
<1>2. ElseOf(h) \in Label /\ EndOf(h) \in Label /\ Stop \in Label
  BY LabelFacts
<1>3. /\ Land(e, ElseOf(h)) \in Machine /\ Land(e, EndOf(h)) \in Machine
      /\ Jump(e, EndOf(h)) \in Machine /\ Jump(e, Stop) \in Machine
  BY <1>2, JumpFacts
<1>4. /\ Reading(Land(f, ElseOf(h)), vars) /\ Reading(Land(f, EndOf(h)), vars)
      /\ Reading(Jump(f, EndOf(h)), vars) /\ Reading(Jump(f, Stop), vars)
      /\ Land(f, ElseOf(h)).vals = f.vals /\ Land(f, EndOf(h)).vals = f.vals
      /\ Jump(f, EndOf(h)).vals = f.vals /\ Jump(f, Stop).vals = f.vals
  BY <1>2, SourceJumpFacts
<1>5. SkipElse(e) \in Machine
  BY <1>1, <1>3 DEF SkipElse
<1> QED BY <1>1, <1>3, <1>4, <1>5

LEMMA EndIfCore ==
  ASSUME CoreInv, EndIf
  PROVE  CoreInv'
<1>1. /\ need = "stmt" /\ ~p.full /\ tokens' \in 0 .. MaxTokens /\ Top.k = "then" /\ CloseScope
      /\ AfterSkip /\ p \in RegState /\ m \in Machine /\ Reading(s, vars)
  BY CoreFacts, ReadsFacts DEF EndIf
<1>2. PICK q : q = FlushCached(p)
  OBVIOUS
<1>3. q \in RegState
  BY <1>1, <1>2, FlushFacts
<1>4. PICK e : e = SkipElse(m)
  OBVIOUS
<1>5. e \in Machine
  BY <1>1, <1>4, LandFacts
<1>6. PICK f : f = Land(e, ElseOf(Here))
  OBVIOUS
<1>7. f \in Machine
  BY <1>1, <1>5, <1>6, LandFacts
<1>8. m' = Land(f, EndOf(Here))
  BY <1>4, <1>6 DEF EndIf
<1>9. m' \in Machine
  BY <1>1, <1>7, <1>8, LandFacts
<1>10. PICK a : a = Land(s, ElseOf(Here))
  OBVIOUS
<1>11. Reading(a, vars)
  BY <1>1, <1>10, LandFacts
<1>12. PICK b : b = Land(a, EndOf(Here))
  OBVIOUS
<1>13. Reading(b, vars)
  BY <1>1, <1>11, <1>12, LandFacts
<1>14. Over(q, OutOfScope(b), Below)
  BY <1>2, <1>10, <1>12 DEF EndIf
<1>15. Top.k \in ScopeKinds
  BY <1>1 DEF ScopeKinds
<1> QED BY <1>1, <1>3, <1>9, <1>13, <1>14, <1>15, AfterSkipFacts, EndBlock

LEMMA EndElseCore ==
  ASSUME CoreInv, EndElse
  PROVE  CoreInv'
<1>1. /\ need = "stmt" /\ ~p.full /\ tokens' \in 0 .. MaxTokens /\ Top.k \in {"else", "elif"}
      /\ AfterSkip /\ p \in RegState /\ m \in Machine /\ Reading(s, vars)
      /\ m' = Land(m, EndOf(Here))
  BY CoreFacts, ReadsFacts DEF EndElse
<1>2. PICK q : q = FlushCached(p)
  OBVIOUS
<1>3. q \in RegState
  BY <1>1, <1>2, FlushFacts
<1>4. m' \in Machine
  BY <1>1, LandFacts
<1>5. PICK f : f = Land(s, EndOf(Here))
  OBVIOUS
<1>6. Reading(f, vars) /\ f.vals = s.vals
  BY <1>1, <1>5, LandFacts
<1>7. LoadedLocal(last')
  BY <1>1, AfterSkipFacts
<1>8. CASE Top.k = "else"
  <2>1. Over(q, OutOfScope(f), Below) /\ CloseScope
    BY <1>2, <1>5, <1>8 DEF EndElse
  <2>2. Top.k \in ScopeKinds
    BY <1>8 DEF ScopeKinds
  <2> QED BY <2>1, <2>2, <1>1, <1>3, <1>4, <1>6, <1>7, EndBlock
<1>9. CASE Top.k = "elif"
  <2>1. Over(q, f, Below) /\ SameScope
    BY <1>2, <1>5, <1>9 DEF EndElse
  <2>2. Finishes(q, f, Below, vars)
    BY <2>1, <1>3, <1>6 DEF Finishes
  <2>3. /\ p' \in RegState /\ Reading(s', vars) /\ Len(s'.vals) = 0 /\ todo' = Below
        /\ need' = "stmt" /\ Len(p'.rstack) \in Nat
    BY <2>2, OverFacts
  <2>4. Parts(p', m', s', last', vars)
    BY <2>3, <1>4, <1>7 DEF Parts
  <2>5. Top.k \in BlockKinds \ {"func"} /\ Top.k \notin ScopeKinds /\ Held(Top) = 0
        /\ FitsBelow(Top.k, need')
    BY <2>3, <1>9, HeldFacts DEF BlockKinds, ScopeKinds, FitsBelow
  <2>6. Len(s.vals) = Ready(need)
    BY <2>5, BlockBelow
  <2>7. Len(s'.vals) + Ready(need) + Held(Top) = Len(s.vals) + Ready(need')
    BY <2>3, <2>5, <2>6, <1>1, ReadyFacts
  <2> QED BY <2>1, <2>3, <2>4, <2>5, <2>7, <1>1, PopStep
<1> QED BY <1>1, <1>8, <1>9

LEMMA EndLoopCore ==
  ASSUME CoreInv, EndLoop
  PROVE  CoreInv'
<1>1. /\ need = "stmt" /\ ~p.full /\ tokens' \in 0 .. MaxTokens /\ Top.k = "loop" /\ CloseScope
      /\ last' = Other /\ p \in RegState /\ m \in Machine /\ Reading(s, vars)
  BY CoreFacts, ReadsFacts DEF EndLoop
<1>2. PICK q : q = FlushCached(p)
  OBVIOUS
<1>3. q \in RegState
  BY <1>1, <1>2, FlushFacts
<1>4. PICK e : e = Jump(m, Stop)
  OBVIOUS
<1>5. e \in Machine
  BY <1>1, <1>4, LandFacts
<1>6. m' = Land(e, EndOf(Here))
  BY <1>4 DEF EndLoop
<1>7. m' \in Machine
  BY <1>1, <1>5, <1>6, LandFacts
<1>8. PICK a : a = Jump(s, Stop)
  OBVIOUS
<1>9. Reading(a, vars)
  BY <1>1, <1>8, LandFacts
<1>10. PICK b : b = Land(a, EndOf(Here))
  OBVIOUS
<1>11. Reading(b, vars)
  BY <1>1, <1>9, <1>10, LandFacts
<1>12. Over(q, OutOfScope(b), Below)
  BY <1>2, <1>8, <1>10 DEF EndLoop
<1>13. Top.k \in ScopeKinds
  BY <1>1 DEF ScopeKinds
<1> QED BY <1>1, <1>3, <1>7, <1>11, <1>12, <1>13, OtherFacts, EndBlock

LEMMA BodyCore ==
  ASSUME CoreInv, Body
  PROVE  CoreInv'
<1>1. /\ need = "done" /\ ~p.full /\ tokens' \in 0 .. MaxTokens /\ Top.k \in {"if", "while"}
      /\ OpenScope /\ last' = Other /\ need' = "stmt"
      /\ p \in RegState /\ m \in Machine /\ Reading(s, vars)
      /\ Len(s.vals) \in Nat /\ Len(p.rstack) \in Nat /\ Len(s.vals) <= Len(p.rstack)
  BY CoreFacts, ReadsFacts DEF Body
<1>2. PICK h, u : h = Len(todo) /\ u = Below
  OBVIOUS
<1>3. /\ h \in Nat /\ h - 1 \in Nat \ {0} /\ Len(u) = h - 1 /\ u[h - 1].k \in BlockKinds
      /\ \A w, k : Shape(u, w, k)
      /\ Upto(u, h - 1) = 0 /\ Total(Opened(u), h - 1) \in Nat
      /\ Len(vars) = Total(Opened(u), h - 1) + 1
      /\ Len(s.vals) = 1
  <2>1. Top.k \in StatementKinds /\ Top.k \notin ScopeKinds /\ Ready(need) = 1
    BY <1>1, ReadyFacts DEF ScopeKinds, StatementKinds
  <2> QED BY <2>1, <1>2, BlockBelow
<1>4. /\ vars' = Append(vars, <<>>) /\ placed' = placed /\ max_locals' = max_locals
  BY <1>1 DEF OpenScope
<1>5. /\ vars' \in Seq(Scope(0 .. MaxLocals - 1)) /\ Placed(vars', placed')
      /\ Len(vars') = Len(vars) + 1
  BY <1>4, CoreFacts, OpenPlaced
<1>6. PICK label : label = IF Top.k = "if" THEN ElseOf(Here) ELSE EndOf(Here)
  OBVIOUS
<1>7. label \in Label
  BY <1>6, CoreFacts, LabelFacts
<1>8. PICK a : a = JumpIf(Operand(s, 0) = 0, s, label)
  OBVIOUS
<1>9. Reading(a, vars) /\ a.vals = s.vals
  BY <1>1, <1>7, <1>8, SourceJumpFacts DEF JumpIf
<1>10. PICK b : b = Drop(a, 1)
  OBVIOUS
<1>11. Reading(b, vars) /\ Len(b.vals) = 0
  <2>1. Drops(vars, a, 1, 1, b)
    BY <1>3, <1>9, <1>10 DEF Drops
  <2>2. Reading(b, vars) /\ Len(b.vals) = 1 - 1
    BY <2>1, DropFacts
  <2> QED BY <2>2
<1>12. PICK c : c = InScope(b)
  OBVIOUS
<1>13. Reading(c, vars') /\ c.vals = b.vals
  <2>1. Enters(vars, b, vars', c)
    BY <1>4, <1>11, <1>12, CoreFacts DEF Enters
  <2> QED BY <2>1, EnterFacts
<1>14. PICK q : q = FlushCached(p)
  OBVIOUS
<1>15. q \in RegState /\ Len(q.rstack) > 0
  BY <1>1, <1>3, <1>14, FlushFacts
<1>16. PICK r : r = PopReg(q)
  OBVIOUS
<1>17. r \in RegState /\ Len(r.rstack) \in Nat
  BY <1>15, <1>16, PopRegFacts, RegStateFacts
<1>18. p' = r /\ m' = JumpIf(m.regs[LastReg(p)] = 0, m, label) /\ s' = c
  BY <1>6, <1>8, <1>10, <1>12, <1>14, <1>16 DEF Body, Go
<1>19. m' \in Machine
  BY <1>1, <1>7, <1>18, JumpFacts DEF JumpIf
<1>20. Parts(p', m', s', last', vars')
  BY <1>1, <1>11, <1>13, <1>17, <1>18, <1>19, OtherFacts DEF Parts
<1>21. PICK k : k = IF Top.k = "if" THEN "then" ELSE "loop"
  OBVIOUS
<1>22. PICK o : o = Item(k)
  OBVIOUS
<1>23. /\ o \in ItemSet /\ Notes(o, vars', placed') /\ o.k = k /\ Held(o) = 0 /\ k \in ScopeKinds
       /\ Nests(u[h - 1].k, k) /\ k \in BlockKinds
  <2>1. k \in ScopeKinds /\ k \in Kinds /\ k \in BlockKinds \ {"func"}
        /\ k \notin {"let", "assign", "compound"}
    BY <1>21 DEF ScopeKinds, Kinds, BlockKinds
  <2> QED BY <2>1, <1>3, <1>22, ItemFacts, HeldFacts DEF Nests
<1>24. PICK t : t = Append(u, o)
  OBVIOUS
<1>25. PICK n \in Nat : n = h - 1
  BY <1>3
<1>26. /\ Shape(t, vars', placed') /\ Len(t) = n + 1 /\ t[n + 1] = o
       /\ Upto(t, n + 1) = Upto(u, n) + Held(o)
       /\ Total(Opened(t), n + 1) = Total(Opened(u), n) + IF o.k \in ScopeKinds THEN 1 ELSE 0
  <2>1. Grows(vars', placed', u, n, o, t)
    BY <1>3, <1>23, <1>24, <1>25 DEF Grows
  <2> QED BY <2>1, PushShape
<1>27. /\ Len(t) = h /\ t[h] = o /\ Upto(t, h) = 0
       /\ Len(vars') = Total(Opened(t), h) + 1
  BY <1>3, <1>5, <1>23, <1>25, <1>26
<1>28. todo' = t
  BY <1>2, <1>21, <1>22, <1>24 DEF Body
<1>29. "stmt" \in Needs \ {"done"} /\ Fits("stmt", o.k) /\ Ready("stmt") = 0
  BY <1>23, ReadyFacts DEF Needs, Fits
<1>30. h <= MaxDepth /\ max_locals' \in 0 .. MaxLocals /\ placed' \in 0 .. MaxLocals
  BY <1>2, <1>4, CoreFacts
<1>31. Len(s'.vals) = Upto(t, h) + Ready(need')
  BY <1>1, <1>11, <1>13, <1>18, <1>27, <1>29
<1>32. Rescoped(t, h)
  BY <1>1, <1>5, <1>20, <1>26, <1>27, <1>28, <1>29, <1>30, <1>31 DEF Rescoped
<1> QED BY <1>32, ScopeStep

(* A block takes the place of the last construct, whose scope is closed. *)
LEMMA ElseCore ==
  ASSUME CoreInv, Else
  PROVE  CoreInv'
<1>1. /\ need = "stmt" /\ need' = "stmt" /\ ~p.full /\ tokens' \in 0 .. MaxTokens /\ Top.k = "then"
      /\ AfterSkip /\ p \in RegState /\ m \in Machine /\ Reading(s, vars)
  BY CoreFacts, ReadsFacts DEF Else
<1>2. PICK h, u : h = Len(todo) /\ u = Below
  OBVIOUS
<1>3. /\ h \in Nat /\ h - 1 \in Nat \ {0} /\ Len(u) = h - 1 /\ u[h - 1].k \in BlockKinds
      /\ \A w, k : Shape(u, w, k)
      /\ Upto(u, h - 1) = 0 /\ Total(Opened(u), h - 1) \in Nat
      /\ Len(vars) = Total(Opened(u), h - 1) + 1 + 1
      /\ Len(s.vals) = 0
  <2>1. Top.k \in BlockKinds \ {"func"} /\ Top.k \in ScopeKinds /\ Ready(need) = 0
    BY <1>1, ReadyFacts DEF ScopeKinds, BlockKinds
  <2> QED BY <2>1, <1>2, BlockBelow
<1>4. /\ vars' = Append(Front(vars), <<>>)
      /\ placed' = placed - Cardinality(DOMAIN vars[Len(vars)]) /\ max_locals' = max_locals
  BY DEF Else
<1>5. PICK w : w = Front(vars)
  OBVIOUS
<1>6. /\ w \in Seq(Scope(0 .. MaxLocals - 1)) /\ Placed(w, placed')
      /\ placed' \in 0 .. MaxLocals /\ Len(w) = Len(vars) - 1 /\ vars # <<>>
  BY <1>3, <1>4, <1>5, CloseFacts
<1>7. /\ vars' \in Seq(Scope(0 .. MaxLocals - 1)) /\ Placed(vars', placed') /\ Len(vars') = Len(w) + 1
  <2>1. vars' = Append(w, <<>>)
    BY <1>4, <1>5
  <2> QED BY <2>1, <1>6, OpenPlaced
<1>8. PICK a : a = Jump(s, EndOf(Here))
  OBVIOUS
<1>9. Reading(a, vars) /\ a.vals = s.vals
  BY <1>1, <1>8, LandFacts
<1>10. PICK b : b = Land(a, ElseOf(Here))
  OBVIOUS
<1>11. Reading(b, vars) /\ b.vals = s.vals
  BY <1>1, <1>9, <1>10, LandFacts
<1>12. PICK c : c = OutOfScope(b)
  OBVIOUS
<1>13. Reading(c, w) /\ c.vals = s.vals
  <2>1. Leaves(vars, b, w, c)
    BY <1>5, <1>6, <1>11, <1>12, CoreFacts DEF Leaves
  <2> QED BY <2>1, <1>11, LeaveFacts
<1>14. PICK d : d = InScope(c)
  OBVIOUS
<1>15. Reading(d, vars') /\ d.vals = s.vals
  <2>1. Enters(w, c, vars', d)
    BY <1>4, <1>5, <1>6, <1>13, <1>14 DEF Enters
  <2> QED BY <2>1, <1>13, EnterFacts
<1>16. PICK q : q = FlushCached(p)
  OBVIOUS
<1>17. q \in RegState /\ Len(q.rstack) \in Nat
  BY <1>1, <1>16, FlushFacts, RegStateFacts
<1>18. PICK e : e = SkipElse(m)
  OBVIOUS
<1>19. e \in Machine
  BY <1>1, <1>18, LandFacts
<1>20. p' = q /\ m' = Land(e, ElseOf(Here)) /\ s' = d
  BY <1>8, <1>10, <1>12, <1>14, <1>16, <1>18 DEF Else, Go
<1>21. m' \in Machine
  BY <1>1, <1>19, <1>20, LandFacts
<1>22. LoadedLocal(last')
  BY <1>1, AfterSkipFacts
<1>23. Parts(p', m', s', last', vars')
  BY <1>3, <1>15, <1>17, <1>20, <1>21, <1>22 DEF Parts
<1>24. PICK o : o = Item("else")
  OBVIOUS
<1>25. /\ o \in ItemSet /\ Notes(o, vars', placed') /\ o.k = "else" /\ Held(o) = 0
       /\ o.k \in ScopeKinds /\ Nests(u[h - 1].k, o.k) /\ o.k \in BlockKinds
  <2>1. "else" \in ScopeKinds /\ "else" \in Kinds /\ "else" \in BlockKinds \ {"func"}
    BY DEF ScopeKinds, Kinds, BlockKinds
  <2> QED BY <2>1, <1>3, <1>24, ItemFacts, HeldFacts DEF Nests
<1>26. PICK t : t = Append(u, o)
  OBVIOUS
<1>27. PICK n \in Nat : n = h - 1
  BY <1>3
<1>28. /\ Shape(t, vars', placed') /\ Len(t) = n + 1 /\ t[n + 1] = o
       /\ Upto(t, n + 1) = Upto(u, n) + Held(o)
       /\ Total(Opened(t), n + 1) = Total(Opened(u), n) + IF o.k \in ScopeKinds THEN 1 ELSE 0
  <2>1. Grows(vars', placed', u, n, o, t)
    BY <1>3, <1>25, <1>26, <1>27 DEF Grows
  <2> QED BY <2>1, PushShape
<1>29. /\ Len(t) = h /\ t[h] = o /\ Upto(t, h) = 0
       /\ Len(vars') = Total(Opened(t), h) + 1
  BY <1>3, <1>6, <1>7, <1>25, <1>27, <1>28
<1>30. todo' = t
  BY <1>2, <1>24, <1>26 DEF Else
<1>31. "stmt" \in Needs \ {"done"} /\ Fits("stmt", o.k) /\ Ready("stmt") = 0
  BY <1>25, ReadyFacts DEF Needs, Fits
<1>32. h <= MaxDepth /\ max_locals' \in 0 .. MaxLocals
  BY <1>2, <1>4, CoreFacts
<1>33. Len(s'.vals) = Upto(t, h) + Ready(need')
  BY <1>1, <1>3, <1>15, <1>20, <1>29, <1>31
<1>34. Rescoped(t, h)
  BY <1>1, <1>6, <1>7, <1>23, <1>28, <1>29, <1>30, <1>31, <1>32, <1>33 DEF Rescoped
<1> QED BY <1>34, ScopeStep

LEMMA ElseIfCore ==
  ASSUME CoreInv, ElseIf
  PROVE  CoreInv'
<1>1. /\ need = "stmt" /\ need' = "value" /\ ~p.full /\ tokens' \in 0 .. MaxTokens
      /\ Top.k = "then" /\ Room /\ CloseScope
      /\ AfterSkip /\ p \in RegState /\ m \in Machine /\ Reading(s, vars)
  BY CoreFacts, ReadsFacts, TokensSpent DEF ElseIf
<1>2. PICK h, u : h = Len(todo) /\ u = Below
  OBVIOUS
<1>3. /\ h \in Nat /\ h - 1 \in Nat \ {0} /\ Len(u) = h - 1 /\ u[h - 1].k \in BlockKinds
      /\ \A w, k : Shape(u, w, k)
      /\ Upto(u, h - 1) = 0 /\ Total(Opened(u), h - 1) \in Nat
      /\ Len(vars) = Total(Opened(u), h - 1) + 1 + 1
      /\ Len(s.vals) = 0
  <2>1. Top.k \in BlockKinds \ {"func"} /\ Top.k \in ScopeKinds /\ Ready(need) = 0
    BY <1>1, ReadyFacts DEF ScopeKinds, BlockKinds
  <2> QED BY <2>1, <1>2, BlockBelow
<1>4. /\ vars' = Front(vars) /\ placed' = placed - Cardinality(DOMAIN vars[Len(vars)])
      /\ max_locals' = max_locals
  BY <1>1 DEF CloseScope
<1>5. /\ vars' \in Seq(Scope(0 .. MaxLocals - 1)) /\ Placed(vars', placed')
      /\ placed' \in 0 .. MaxLocals /\ Len(vars') = Len(vars) - 1 /\ vars # <<>>
  BY <1>3, <1>4, CloseFacts
<1>6. PICK a : a = Jump(s, EndOf(Here))
  OBVIOUS
<1>7. Reading(a, vars) /\ a.vals = s.vals
  BY <1>1, <1>6, LandFacts
<1>8. PICK b : b = Land(a, ElseOf(Here))
  OBVIOUS
<1>9. Reading(b, vars) /\ b.vals = s.vals
  BY <1>1, <1>7, <1>8, LandFacts
<1>10. PICK c : c = OutOfScope(b)
  OBVIOUS
<1>11. Reading(c, vars') /\ c.vals = s.vals
  <2>1. Leaves(vars, b, vars', c)
    BY <1>4, <1>5, <1>9, <1>10, CoreFacts DEF Leaves
  <2> QED BY <2>1, <1>9, LeaveFacts
<1>12. PICK q : q = FlushCached(p)
  OBVIOUS
<1>13. q \in RegState /\ Len(q.rstack) \in Nat
  BY <1>1, <1>12, FlushFacts, RegStateFacts
<1>14. PICK e : e = SkipElse(m)
  OBVIOUS
<1>15. e \in Machine
  BY <1>1, <1>14, LandFacts
<1>16. p' = q /\ m' = Land(e, ElseOf(Here)) /\ s' = c
  BY <1>6, <1>8, <1>10, <1>12, <1>14 DEF ElseIf, Go
<1>17. m' \in Machine
  BY <1>1, <1>15, <1>16, LandFacts
<1>18. LoadedLocal(last')
  BY <1>1, AfterSkipFacts
<1>19. Parts(p', m', s', last', vars')
  BY <1>3, <1>11, <1>13, <1>16, <1>17, <1>18 DEF Parts
<1>20. PICK o : o = Item("elif")
  OBVIOUS
<1>21. /\ o \in ItemSet /\ Notes(o, vars', placed') /\ o.k = "elif" /\ Held(o) = 0
       /\ o.k \notin ScopeKinds /\ Nests(u[h - 1].k, o.k)
  <2>1. "elif" \notin ScopeKinds /\ "elif" \in Kinds /\ "elif" \in BlockKinds \ {"func"}
    BY DEF ScopeKinds, Kinds, BlockKinds
  <2> QED BY <2>1, <1>3, <1>20, ItemFacts, HeldFacts DEF Nests
<1>22. PICK v : v = Append(u, o)
  OBVIOUS
<1>23. PICK n \in Nat : n = h - 1
  BY <1>3
<1>24. /\ Shape(v, vars', placed') /\ Len(v) = n + 1 /\ v[n + 1] = o
       /\ Upto(v, n + 1) = Upto(u, n) + Held(o)
       /\ Total(Opened(v), n + 1) = Total(Opened(u), n) + IF o.k \in ScopeKinds THEN 1 ELSE 0
  <2>1. Grows(vars', placed', u, n, o, v)
    BY <1>3, <1>21, <1>22, <1>23 DEF Grows
  <2> QED BY <2>1, PushShape
<1>25. /\ Len(v) = h /\ v[h] = o /\ Upto(v, h) = 0 /\ Total(Opened(v), h) = Total(Opened(u), h - 1)
  BY <1>3, <1>21, <1>23, <1>24
<1>26. PICK i : i = Item("if")
  OBVIOUS
<1>27. /\ i \in ItemSet /\ Notes(i, vars', placed') /\ i.k = "if" /\ Held(i) = 0
       /\ Nests(v[h].k, i.k) /\ i.k \in ExprReaders
  <2>1. "if" \in Kinds /\ "if" \in StatementKinds /\ "if" \in ExprReaders
    BY DEF Kinds, StatementKinds, ExprReaders
  <2> QED BY <2>1, <1>21, <1>25, <1>26, ItemFacts, HeldFacts DEF Nests
<1>28. PICK t : t = v \o <<i, Item("expr")>>
  OBVIOUS
<1>29. /\ Shape(t, vars', placed') /\ Len(t) = h + 2 /\ t[h + 2] = Item("expr")
       /\ Upto(t, h + 2) = Upto(v, h) + Held(i)
       /\ Total(Opened(t), h + 2) = Total(Opened(v), h)
  <2>1. Opens(vars', placed', v, h, i, t)
    BY <1>3, <1>24, <1>25, <1>27, <1>28 DEF Opens
  <2> QED BY <2>1, OpenShape
<1>30. todo' = t
  <2>1. todo' = u \o <<o, i, Item("expr")>>
    BY <1>2, <1>20, <1>26 DEF ElseIf
  <2>2. u \in Seq(ItemSet) /\ o \in ItemSet /\ i \in ItemSet /\ Item("expr") \in ItemSet
    BY <1>3, <1>21, <1>27, ItemFacts DEF Shape, Kinds
  <2> QED BY <2>1, <2>2, <1>22, <1>28
<1>31. "value" \in Needs \ {"done"} /\ Fits("value", Item("expr").k) /\ Ready("value") = 0
  BY ReadyFacts DEF Needs, Fits, Item
<1>32. h + 2 <= MaxDepth /\ max_locals' \in 0 .. MaxLocals
  BY <1>1, <1>2, <1>4, CoreFacts DEF Room
<1>33. Len(s'.vals) = Upto(t, h + 2) + Ready(need')
  BY <1>1, <1>3, <1>11, <1>16, <1>25, <1>27, <1>29, <1>31
<1>34. Len(vars') = Total(Opened(t), h + 2) + 1
  BY <1>3, <1>5, <1>25, <1>29
<1>35. Rescoped(t, h + 2)
  BY <1>1, <1>5, <1>19, <1>29, <1>30, <1>31, <1>32, <1>33, <1>34 DEF Rescoped
<1> QED BY <1>35, ScopeStep

-----------------------------------------------------------------------------
(* A new name takes the next place.                                        *)

Adds(S, f, x, a, g) == f \in Scope(S) /\ x \in Names /\ a \in S /\ g = With(f, x, a)
Added(S, f, x, a, g) ==
  /\ g \in Scope(S) /\ DOMAIN g = DOMAIN f \cup {x} /\ g[x] = a
  /\ \A y \in DOMAIN f : y # x => g[y] = f[y]

LEMMA WithFacts ==
  ASSUME NEW S, NEW f, NEW x, NEW a, NEW g, Adds(S, f, x, a, g)
  PROVE  Added(S, f, x, a, g)
<1>0. f \in Scope(S) /\ x \in Names /\ a \in S /\ g = With(f, x, a)
  BY DEF Adds
<1>1. PICK D \in SUBSET Names : f \in [D -> S]
  BY <1>0 DEF Scope
<1>2. D = DOMAIN f
  BY <1>1
<1>3. DOMAIN g = D \cup {x} /\ \A y \in D \cup {x} : g[y] = IF y = x THEN a ELSE f[y]
  BY <1>0, <1>2 DEF With
<1>4. g \in [D \cup {x} -> S]
  BY <1>0, <1>1, <1>2, <1>3 DEF With
<1>5. D \cup {x} \in SUBSET Names
  BY <1>0
<1>6. g \in Scope(S)
  BY <1>4, <1>5 DEF Scope
<1> QED BY <1>2, <1>3, <1>6 DEF Added

Lets(v, n, x, w) ==
  /\ Placed(v, n) /\ v \in Seq(Scope(0 .. MaxLocals - 1)) /\ v # <<>> /\ n < MaxLocals
  /\ x \in Names /\ x \notin DOMAIN v[Len(v)] /\ w = [v EXCEPT ![Len(v)] = With(v[Len(v)], x, n)]

LEMMA LetPlaced ==
  ASSUME NEW v, NEW n, NEW x, NEW w, Lets(v, n, x, w)
  PROVE  /\ Placed(w, n + 1) /\ w \in Seq(Scope(0 .. MaxLocals - 1)) /\ Len(w) = Len(v)
         /\ Len(v) \in Nat \ {0}
         /\ \A i \in 1 .. Len(v) - 1 : w[i] = v[i]
         /\ DOMAIN w[Len(v)] = DOMAIN v[Len(v)] \cup {x} /\ w[Len(v)][x] = n
         /\ \A y \in DOMAIN v[Len(v)] : w[Len(v)][y] = v[Len(v)][y]
<1>0. /\ Placed(v, n) /\ v \in Seq(Scope(0 .. MaxLocals - 1)) /\ v # <<>> /\ n < MaxLocals
      /\ x \in Names /\ x \notin DOMAIN v[Len(v)] /\ w = [v EXCEPT ![Len(v)] = With(v[Len(v)], x, n)]
  BY DEF Lets
<1>1. PICK h : h = Len(v)
  OBVIOUS
<1>2. /\ h \in Nat \ {0} /\ DOMAIN v = 1 .. h /\ h \in 1 .. h /\ n \in Nat /\ n = Total(Sizes(v), h)
      /\ \A i \in 1 .. h : Sizes(v)[i] = Cardinality(DOMAIN v[i]) /\ Sizes(v)[i] \in Nat
      /\ \A i \in 0 .. h : Total(Sizes(v), i) \in Nat
      /\ v[h] \in Scope(0 .. MaxLocals - 1)
  <2>1. Len(v) \in Nat \ {0}
    BY <1>0, EmptySeq
  <2>2. Len(v) \in 1 .. Len(v) /\ \A i \in 1 .. Len(v) : v[i] \in Scope(0 .. MaxLocals - 1)
    BY <2>1, <1>0, LenProperties
  <2> QED BY <2>1, <2>2, <1>0, <1>1, SizesType
<1>3. PICK g : g = With(v[h], x, n)
  OBVIOUS
<1>4. /\ g \in Scope(0 .. MaxLocals - 1) /\ DOMAIN g = DOMAIN v[h] \cup {x} /\ g[x] = n
      /\ \A y \in DOMAIN v[h] : g[y] = v[h][y]
  <2>1. n \in 0 .. MaxLocals - 1
    BY <1>0, <1>2, CompileAssumption
  <2>2. /\ g \in Scope(0 .. MaxLocals - 1) /\ DOMAIN g = DOMAIN v[h] \cup {x} /\ g[x] = n
        /\ \A y \in DOMAIN v[h] : y # x => g[y] = v[h][y]
    <3>1. PICK S : S = 0 .. MaxLocals - 1
      OBVIOUS
    <3>2. PICK f : f = v[h]
      OBVIOUS
    <3>3. Adds(S, f, x, n, g)
      BY <3>1, <3>2, <2>1, <1>0, <1>2, <1>3 DEF Adds
    <3>4. Added(S, f, x, n, g)
      BY <3>3, WithFacts
    <3> QED BY <3>1, <3>2, <3>4 DEF Added
  <2> QED BY <2>2, <1>0, <1>1
<1>5. /\ w \in Seq(Scope(0 .. MaxLocals - 1)) /\ Len(w) = h
      /\ \A i \in 1 .. h : w[i] = IF i = h THEN g ELSE v[i]
  BY <1>0, <1>1, <1>2, <1>3, <1>4, ExceptSeq
<1>6. DOMAIN w = 1 .. h
  BY <1>5, LenProperties
<1>7. \A i \in 0 .. h - 1 : Total(Sizes(w), i) = Total(Sizes(v), i)
  <2>1. h - 1 \in Nat /\ h - 1 <= Len(v) /\ h - 1 <= Len(w)
    BY <1>1, <1>2, <1>5
  <2>2. \A i \in 1 .. h - 1 : DOMAIN w[i] = DOMAIN v[i]
    <3> SUFFICES ASSUME NEW i \in 1 .. h - 1 PROVE DOMAIN w[i] = DOMAIN v[i]
      OBVIOUS
    <3>1. i \in 1 .. h /\ i # h
      BY <1>2
    <3>2. w[i] = v[i]
      BY <3>1, <1>5
    <3> QED BY <3>2
  <2>3. PICK k : k = h - 1
    OBVIOUS
  <2>4. /\ k \in Nat /\ k <= Len(v) /\ k <= Len(w)
        /\ \A i \in 1 .. k : DOMAIN w[i] = DOMAIN v[i]
        /\ v \in Seq(Scope(0 .. MaxLocals - 1)) /\ w \in Seq(Scope(0 .. MaxLocals - 1))
    <3>1. v \in Seq(Scope(0 .. MaxLocals - 1)) /\ w \in Seq(Scope(0 .. MaxLocals - 1))
      BY <1>0, <1>5
    <3> QED BY <2>1, <2>2, <2>3, <3>1
  <2>5. \A i \in 0 .. k : Total(Sizes(w), i) = Total(Sizes(v), i)
    BY <2>4, SizesSame
  <2> QED BY <2>3, <2>5
<1>8. IsFiniteSet(DOMAIN g) /\ Cardinality(DOMAIN g) = Cardinality(DOMAIN v[h]) + 1
  <2>1. IsFiniteSet(DOMAIN v[h]) /\ x \notin DOMAIN v[h]
    BY <1>0, <1>1, <1>2 DEF Placed
  <2> QED BY <2>1, <1>4, FS_AddElement
<1>9. \A i \in 1 .. h : Sizes(w)[i] = (IF i = h THEN Cardinality(DOMAIN v[h]) + 1 ELSE Sizes(v)[i])
                        /\ Sizes(w)[i] \in Nat
  <2>1. \A i \in 1 .. h : Sizes(w)[i] = Cardinality(DOMAIN w[i])
    BY <1>6 DEF Sizes
  <2> QED BY <2>1, <1>2, <1>5, <1>8
<1>10. Total(Sizes(w), h) = n + 1
  <2>1. Total(Sizes(w), h) = Total(Sizes(w), h - 1) + Sizes(w)[h]
    BY <1>2, <1>9, TotalStep
  <2>2. Total(Sizes(v), h) = Total(Sizes(v), h - 1) + Sizes(v)[h]
    BY <1>2, TotalStep
  <2>3. PICK a \in Nat, b \in Nat : a = Total(Sizes(v), h - 1) /\ b = Cardinality(DOMAIN v[h])
    <3>1. h - 1 \in 0 .. h
      BY <1>2
    <3>2. Cardinality(DOMAIN v[h]) \in Nat
      BY <1>2
    <3> QED BY <3>1, <3>2, <1>2
  <2>4. Total(Sizes(w), h - 1) = a
    <3>1. h - 1 \in 0 .. h - 1
      BY <1>2
    <3> QED BY <3>1, <2>3, <1>7
  <2>5. Total(Sizes(w), h) = a + (b + 1)
    BY <2>1, <2>3, <2>4, <1>2, <1>9
  <2>6. n = a + b
    BY <2>2, <2>3, <1>2
  <2> QED BY <2>5, <2>6
<1>11. Total(Sizes(v), h - 1) <= n
  <2>1. h - 1 \in 0 .. h /\ h \in Nat
    BY <1>2
  <2> QED BY <2>1, <1>2, TotalMonotonic
<1>12. ASSUME NEW i \in DOMAIN w
       PROVE  /\ IsFiniteSet(DOMAIN w[i])
              /\ \A y \in DOMAIN w[i] : /\ Total(Sizes(w), i - 1) <= w[i][y]
                                        /\ w[i][y] < Total(Sizes(w), i)
              /\ \A y, z \in DOMAIN w[i] : w[i][y] = w[i][z] => y = z
  <2>1. CASE i # h
    <3>1. i \in DOMAIN v /\ i - 1 \in 0 .. h - 1 /\ i \in 0 .. h - 1 /\ w[i] = v[i]
      BY <2>1, <1>2, <1>5, <1>6
    <3>2. Total(Sizes(w), i - 1) = Total(Sizes(v), i - 1) /\ Total(Sizes(w), i) = Total(Sizes(v), i)
      BY <3>1, <1>7
    <3> QED BY <3>1, <3>2, <1>0 DEF Placed
  <2>2. CASE i = h
    <3>1. w[i] = g /\ Total(Sizes(w), i) = n + 1 /\ Total(Sizes(w), i - 1) = Total(Sizes(v), h - 1)
      <4>1. h - 1 \in 0 .. h - 1
        BY <1>2
      <4> QED BY <4>1, <2>2, <1>5, <1>6, <1>7, <1>10
    <3>2. /\ \A y \in DOMAIN v[h] : Total(Sizes(v), h - 1) <= v[h][y] /\ v[h][y] < n
          /\ \A y, z \in DOMAIN v[h] : v[h][y] = v[h][z] => y = z
      BY <1>0, <1>2 DEF Placed
    <3>3. \A y \in DOMAIN v[h] : v[h][y] \in Int
      BY <1>2 DEF Scope
    <3>4. ASSUME NEW y \in DOMAIN g
          PROVE  Total(Sizes(v), h - 1) <= g[y] /\ g[y] < n + 1
      <4>1. CASE y = x
        BY <4>1, <1>2, <1>4, <1>11
      <4>2. CASE y # x
        BY <4>2, <3>2, <3>3, <1>2, <1>4
      <4> QED BY <4>1, <4>2
    <3>5. ASSUME NEW y \in DOMAIN g, NEW z \in DOMAIN g, g[y] = g[z] PROVE y = z
      <4>1. CASE y = x /\ z # x
        BY <4>1, <3>2, <3>3, <3>5, <1>2, <1>4
      <4>2. CASE y # x /\ z = x
        BY <4>2, <3>2, <3>3, <3>5, <1>2, <1>4
      <4>3. CASE y # x /\ z # x
        BY <4>3, <3>2, <3>5, <1>4
      <4> QED BY <4>1, <4>2, <4>3
    <3> QED BY <3>1, <3>4, <3>5, <1>8
  <2> QED BY <2>1, <2>2
<1>13. Placed(w, n + 1)
  BY <1>5, <1>10, <1>12 DEF Placed
<1>14. h \in Nat \ {0} /\ w \in Seq(Scope(0 .. MaxLocals - 1)) /\ Len(w) = h
  BY <1>2, <1>5
<1>15. \A i \in 1 .. h - 1 : w[i] = v[i]
  <2> SUFFICES ASSUME NEW i \in 1 .. h - 1 PROVE w[i] = v[i]
    OBVIOUS
  <2>1. i \in 1 .. h /\ i # h
    BY <1>2
  <2> QED BY <2>1, <1>5
<1>16. w[h] = g
  BY <1>2, <1>5
<1>17. /\ DOMAIN w[h] = DOMAIN v[h] \cup {x} /\ w[h][x] = n
       /\ \A y \in DOMAIN v[h] : w[h][y] = v[h][y]
  BY <1>4, <1>16
<1> QED BY <1>1, <1>13, <1>14, <1>15, <1>17

(* The source has the same new name, whose value is not known yet. *)
Declares(v, n, x, w, e, f) ==
  /\ Lets(v, n, x, w) /\ Reading(e, v)
  /\ f = [e EXCEPT !.env[Len(v)] = With(@, x, Unknown)]

LEMMA DeclareFacts ==
  ASSUME NEW v, NEW n, NEW x, NEW w, NEW e, NEW f, Declares(v, n, x, w, e, f)
  PROVE  /\ Reading(f, w) /\ f.vals = e.vals /\ f.at = e.at /\ f.field = e.field /\ f.ret = e.ret
         /\ f.env[Len(v)][x] = Unknown
         /\ \A j \in DOMAIN v : \A y \in DOMAIN v[j] : f.env[j][y] = e.env[j][y]
<1>0. /\ Lets(v, n, x, w) /\ Reading(e, v)
      /\ f = [e EXCEPT !.env[Len(v)] = With(e.env[Len(v)], x, Unknown)]
  BY DEF Declares
<1>1. PICK h : h = Len(v)
  OBVIOUS
<1>2. /\ v \in Seq(Scope(0 .. MaxLocals - 1)) /\ x \in Names /\ x \notin DOMAIN v[h]
  BY <1>0, <1>1 DEF Lets
<1>3. /\ w \in Seq(Scope(0 .. MaxLocals - 1)) /\ Len(w) = h /\ h \in Nat \ {0}
      /\ \A i \in 1 .. h - 1 : w[i] = v[i]
      /\ DOMAIN w[h] = DOMAIN v[h] \cup {x}
  BY <1>0, <1>1, LetPlaced
<1>4. /\ DOMAIN v = 1 .. h /\ DOMAIN w = 1 .. h /\ h \in 1 .. h
  BY <1>1, <1>2, <1>3, LenProperties
<1>5. /\ e \in Source /\ Len(e.env) = h /\ e.env \in Seq(Scope(SVal))
      /\ \A j \in 1 .. h : DOMAIN e.env[j] = DOMAIN v[j]
  BY <1>0, <1>1, <1>4 DEF Reading, Source
<1>6. \A j \in 1 .. h : e.env[j] \in Scope(SVal)
  BY <1>5, LenProperties
<1>7. PICK d : d = e.env[h]
  OBVIOUS
<1>8. PICK c : c = With(d, x, Unknown)
  OBVIOUS
<1>9. Added(SVal, d, x, Unknown, c)
  <2>1. Adds(SVal, d, x, Unknown, c)
    BY <1>2, <1>4, <1>6, <1>7, <1>8 DEF Adds, SVal
  <2> QED BY <2>1, WithFacts
<1>10. /\ c \in Scope(SVal) /\ DOMAIN c = DOMAIN d \cup {x} /\ c[x] = Unknown
       /\ \A y \in DOMAIN d : y # x => c[y] = d[y]
  BY <1>9 DEF Added
<1>11. DOMAIN d = DOMAIN v[h] /\ DOMAIN c = DOMAIN w[h]
  BY <1>3, <1>4, <1>5, <1>7, <1>10
<1>12. PICK b : b = [e.env EXCEPT ![h] = c]
  OBVIOUS
<1>13. b \in Seq(Scope(SVal)) /\ Len(b) = h
       /\ \A j \in 1 .. h : b[j] = IF j = h THEN c ELSE e.env[j]
  BY <1>4, <1>5, <1>10, <1>12, ExceptSeq
<1>14. f = [e EXCEPT !.env = b]
  BY <1>0, <1>1, <1>5, <1>7, <1>8, <1>12 DEF Source
<1>15. /\ f \in Source /\ f.env = b
       /\ f.vals = e.vals /\ f.at = e.at /\ f.field = e.field /\ f.ret = e.ret
  BY <1>5, <1>13, <1>14 DEF Source
<1>16. \A i \in 1 .. h : DOMAIN b[i] = DOMAIN w[i]
  <2> SUFFICES ASSUME NEW i \in 1 .. h PROVE DOMAIN b[i] = DOMAIN w[i]
    OBVIOUS
  <2>1. CASE i = h
    BY <2>1, <1>11, <1>13
  <2>2. CASE i # h
    <3>1. i \in 1 .. h - 1
      BY <2>2, <1>3
    <3> QED BY <3>1, <2>2, <1>3, <1>5, <1>13
  <2> QED BY <2>1, <2>2
<1>17. Reading(f, w)
  BY <1>3, <1>4, <1>13, <1>15, <1>16 DEF Reading
<1>18. f.env[h][x] = Unknown
  BY <1>4, <1>10, <1>13, <1>15
<1>19. ASSUME NEW j \in 1 .. h, NEW y \in DOMAIN v[j] PROVE f.env[j][y] = e.env[j][y]
  <2>1. CASE j = h
    <3>1. y \in DOMAIN d /\ y # x
      BY <2>1, <1>2, <1>11, <1>19
    <3>2. c[y] = d[y]
      BY <3>1, <1>10
    <3>3. b[j] = c
      BY <2>1, <1>13
    <3> QED BY <2>1, <3>2, <3>3, <1>7, <1>15
  <2>2. CASE j # h
    BY <2>2, <1>13, <1>15
  <2> QED BY <2>1, <2>2
<1> QED BY <1>1, <1>4, <1>15, <1>17, <1>18, <1>19

LEMMA EndLetCore ==
  ASSUME CoreInv, EndLet
  PROVE  CoreInv'
<1>1. /\ need = "done" /\ ~p.full /\ Top.k = "let" /\ tokens' = tokens /\ last' = Other
  BY ReadsFacts DEF EndLet
<1>2. PICK h, u : h = Len(todo) /\ u = Below
  OBVIOUS
<1>3. /\ h \in Nat /\ h - 1 \in Nat \ {0} /\ Len(u) = h - 1 /\ u[h - 1].k \in BlockKinds
      /\ \A w, k : Shape(u, w, k)
      /\ Upto(u, h - 1) = 0 /\ Total(Opened(u), h - 1) \in Nat
      /\ Len(vars) = Total(Opened(u), h - 1) + 1
  <2>1. Top.k \in StatementKinds /\ Top.k \notin ScopeKinds
    BY <1>1 DEF StatementKinds, ScopeKinds
  <2> QED BY <2>1, <1>2, BlockBelow
<1>4. /\ p \in RegState /\ m \in Machine /\ Reading(s, vars) /\ h <= MaxDepth
      /\ vars \in Seq(Scope(0 .. MaxLocals - 1)) /\ Placed(vars, placed)
      /\ tokens \in 0 .. MaxTokens
  BY <1>2, CoreFacts DEF CoreInv, TypeInv
<1>5. PICK x \in Names : x = Top.x /\ placed < MaxLocals
  BY <1>1, CoreFacts DEF Notes
<1>6. PICK n : n = Len(vars)
  OBVIOUS
<1>7. n \in Nat \ {0} /\ n \in DOMAIN vars /\ vars # <<>>
  <2>1. n \in Nat \ {0}
    BY <1>3, <1>6
  <2> QED BY <2>1, <1>4, <1>6, LenProperties
<1>a. 0 < Held(Top) + Ready(need)
  BY <1>1, HeldFacts, ReadyFacts DEF StatementKinds
<1>8. PICK d \in Reg : d = LastReg(p)
  BY <1>1, <1>a, LastValue
<1>9. PICK b \in Val : b = m.regs[d]
  BY <1>1, <1>8, <1>a, LastValue
<1>10. PICK a \in SVal : a = Operand(s, 0)
  BY <1>1, <1>a, LastValue
<1>b. PICK l : l = IF x \in DOMAIN vars[n] THEN vars[n][x] ELSE placed
  OBVIOUS
<1>c. PICK q : q = IF x \in DOMAIN vars[n] THEN CacheStored(p, l, d) ELSE p
  OBVIOUS
<1>d. PICK g : g = IF x \in DOMAIN vars[n] THEN s
                   ELSE [s EXCEPT !.env[n] = With(@, x, Unknown)]
  OBVIOUS
<1>e. PICK f : f = IF Running(g) THEN [g EXCEPT !.env[n][x] = a] ELSE g
  OBVIOUS
<1>11. /\ l = IF x \in DOMAIN vars[n] THEN vars[n][x] ELSE placed
       /\ m' = PutLocal(m, l, b)
       /\ q = IF x \in DOMAIN vars[n] THEN CacheStored(p, l, d) ELSE p
       /\ g = IF x \in DOMAIN vars[n] THEN s ELSE [s EXCEPT !.env[n] = With(@, x, Unknown)]
       /\ f = IF Running(g) THEN [g EXCEPT !.env[n][x] = a] ELSE g
       /\ Over(q, f, u)
       /\ vars' = IF x \in DOMAIN vars[n] THEN vars ELSE [vars EXCEPT ![n] = With(@, x, placed)]
       /\ placed' = IF x \in DOMAIN vars[n] THEN placed ELSE placed + 1
       /\ max_locals' = IF placed' > max_locals THEN placed' ELSE max_locals
  <2>1. m' = PutLocal(m, l, b)
    BY <1>5, <1>6, <1>8, <1>9, <1>b DEF EndLet
  <2>2. /\ vars' = IF x \in DOMAIN vars[n] THEN vars ELSE [vars EXCEPT ![n] = With(@, x, placed)]
        /\ placed' = IF x \in DOMAIN vars[n] THEN placed ELSE placed + 1
        /\ max_locals' = IF placed' > max_locals THEN placed' ELSE max_locals
    BY <1>5, <1>6 DEF EndLet
  <2>3. Over(q, f, u)
    <3>1. CASE x \in DOMAIN vars[n]
      <4>1. q = CacheStored(p, l, d) /\ g = s /\ f = IF Running(s) THEN [s EXCEPT !.env[n][x] = a] ELSE s
        BY <3>1, <1>c, <1>d, <1>e
      <4> QED BY <4>1, <3>1, <1>2, <1>5, <1>6, <1>8, <1>10, <1>b DEF EndLet
    <3>2. CASE x \notin DOMAIN vars[n]
      <4>1. q = p /\ g = [s EXCEPT !.env[n] = With(@, x, Unknown)]
        BY <3>2, <1>c, <1>d
      <4> QED BY <4>1, <3>2, <1>2, <1>5, <1>6, <1>10, <1>e DEF EndLet
    <3> QED BY <3>1, <3>2
  <2> QED BY <2>1, <2>2, <2>3, <1>b, <1>c, <1>d, <1>e
<1>12. placed \in 0 .. MaxLocals /\ max_locals \in 0 .. MaxLocals
  BY DEF CoreInv, TypeInv
<1>13. /\ l \in 0 .. MaxLocals - 1 /\ q \in RegState /\ Reading(g, vars')
       /\ vars' \in Seq(Scope(0 .. MaxLocals - 1)) /\ Placed(vars', placed')
       /\ Len(vars') = n /\ x \in DOMAIN vars'[n] /\ n \in DOMAIN vars'
       /\ placed' \in 0 .. MaxLocals
  <2>1. CASE x \in DOMAIN vars[n]
    <3>1. l = vars[n][x] /\ q = CacheStored(p, l, d) /\ g = s /\ vars' = vars /\ placed' = placed
      BY <2>1, <1>11
    <3>2. l \in 0 .. MaxLocals - 1
      <4>1. vars[n] \in Scope(0 .. MaxLocals - 1)
        BY <1>4, <1>6, <1>7, LenProperties
      <4> QED BY <2>1, <3>1, <4>1 DEF Scope
    <3>3. q \in RegState
      <4>1. l \in Nat
        BY <3>2, CompileAssumption
      <4>2. Stores(p, l, d, q)
        BY <3>1, <4>1, <1>4 DEF Stores
      <4> QED BY <4>2, CacheStoredFacts
    <3> QED BY <2>1, <3>1, <3>2, <3>3, <1>4, <1>6, <1>7, <1>12
  <2>2. CASE x \notin DOMAIN vars[n]
    <3>1. /\ l = placed /\ q = p /\ g = [s EXCEPT !.env[n] = With(@, x, Unknown)]
          /\ vars' = [vars EXCEPT ![n] = With(@, x, placed)] /\ placed' = placed + 1
      BY <2>2, <1>11
    <3>2. PICK w : w = vars'
      OBVIOUS
    <3>3. Lets(vars, placed, x, w)
      BY <2>2, <3>1, <3>2, <1>4, <1>5, <1>6, <1>7 DEF Lets
    <3>4. /\ Placed(w, placed + 1) /\ w \in Seq(Scope(0 .. MaxLocals - 1)) /\ Len(w) = n
          /\ DOMAIN w[n] = DOMAIN vars[n] \cup {x}
      BY <3>3, <1>6, LetPlaced
    <3>5. Declares(vars, placed, x, w, s, g)
      BY <3>1, <3>3, <1>4, <1>6 DEF Declares
    <3>6. Reading(g, w)
      BY <3>5, DeclareFacts
    <3>7. x \in DOMAIN w[n] /\ n \in DOMAIN w
      BY <3>4, <1>7, LenProperties
    <3>8. placed + 1 \in 0 .. MaxLocals /\ placed \in 0 .. MaxLocals - 1
      BY <1>5, <1>12, CompileAssumption
    <3> QED BY <3>1, <3>2, <3>4, <3>6, <3>7, <3>8, <1>4
  <2> QED BY <2>1, <2>2
<1>14. Reading(f, vars')
  <2>1. CASE Running(g)
    <3>1. PICK w : w = vars'
      OBVIOUS
    <3>2. Assigned(w, g, n, x, a, f)
      BY <2>1, <3>1, <1>11, <1>13 DEF Assigned
    <3>3. Reading(f, w)
      BY <3>2, AssignedFacts
    <3> QED BY <3>1, <3>3
  <2>2. CASE ~Running(g)
    BY <2>2, <1>11, <1>13
  <2> QED BY <2>1, <2>2
<1>15. m' \in Machine
  BY <1>4, <1>11, <1>13, PutLocalFacts
<1>16. /\ p' \in RegState /\ Reading(s', vars') /\ Len(s'.vals) = 0 /\ todo' = u
       /\ need' = "stmt" /\ Len(p'.rstack) \in Nat
  <2>1. Finishes(q, f, u, vars')
    BY <1>11, <1>13, <1>14 DEF Finishes
  <2> QED BY <2>1, OverFacts
<1>17. Parts(p', m', s', last', vars')
  BY <1>1, <1>15, <1>16, OtherFacts DEF Parts
<1>18. "stmt" \in Needs \ {"done"} /\ Fits("stmt", u[h - 1].k) /\ Ready("stmt") = 0
  BY <1>3, ReadyFacts DEF Needs, Fits
<1>19. h - 1 <= MaxDepth /\ max_locals' \in 0 .. MaxLocals
  BY <1>3, <1>4, <1>11, <1>12, <1>13, CompileAssumption
<1>20. Len(vars') = Total(Opened(u), h - 1) + 1
  BY <1>3, <1>6, <1>13
<1>21. Rescoped(u, h - 1)
  BY <1>1, <1>3, <1>4, <1>13, <1>16, <1>17, <1>18, <1>19, <1>20 DEF Rescoped
<1> QED BY <1>21, ScopeStep

-----------------------------------------------------------------------------
(* The beginning, and every step.                                          *)

LEMMA InitPlaces ==
  ASSUME NEW a, NEW place, NEW v, NEW n, a = Range(Params), n = Len(Params),
         place = [x \in a |-> (CHOOSE i \in DOMAIN Params : Params[i] = x) - 1],
         v = <<place>>
  PROVE  /\ n \in Nat /\ n <= MaxLocals /\ a \subseteq Names /\ place \in [a -> 0 .. n - 1]
         /\ v \in Seq(Scope(0 .. MaxLocals - 1)) /\ Placed(v, n) /\ Len(v) = 1 /\ v[1] = place
<1>1. /\ n \in Nat /\ n <= MaxLocals /\ DOMAIN Params = 1 .. n
      /\ \A i \in 1 .. n : Params[i] \in Names
      /\ \A i, j \in 1 .. n : Params[i] = Params[j] => i = j
      /\ MaxLocals \in Nat
  BY CompileAssumption, LenProperties
<1>2. a = {Params[i] : i \in 1 .. n}
  BY <1>1 DEF Range
<1>3. \A x \in a : /\ place[x] + 1 \in 1 .. n /\ Params[place[x] + 1] = x
                   /\ place[x] \in 0 .. n - 1
  <2> SUFFICES ASSUME NEW x \in a
               PROVE  /\ place[x] + 1 \in 1 .. n /\ Params[place[x] + 1] = x
                      /\ place[x] \in 0 .. n - 1
    OBVIOUS
  <2>1. PICK i : i = CHOOSE j \in DOMAIN Params : Params[j] = x
    OBVIOUS
  <2>2. \E j \in DOMAIN Params : Params[j] = x
    BY <1>1, <1>2
  <2>3. i \in 1 .. n /\ Params[i] = x
    BY <1>1, <2>1, <2>2
  <2>4. place[x] = i - 1
    BY <2>1
  <2>5. i - 1 + 1 = i /\ i - 1 \in 0 .. n - 1
    BY <1>1, <2>3
  <2> QED BY <2>3, <2>4, <2>5
<1>4. a \subseteq Names /\ place \in [a -> 0 .. n - 1]
  BY <1>1, <1>2, <1>3
<1>5. place \in Scope(0 .. MaxLocals - 1)
  <2>1. \A x \in a : place[x] \in 0 .. MaxLocals - 1
    BY <1>1, <1>3
  <2>2. place \in [a -> 0 .. MaxLocals - 1]
    BY <2>1
  <2> QED BY <1>4, <2>2 DEF Scope
<1>6. v \in Seq(Scope(0 .. MaxLocals - 1)) /\ Len(v) = 1 /\ v[1] = place /\ DOMAIN v = {1}
  BY <1>5
<1>7. IsFiniteSet(1 .. n) /\ Cardinality(1 .. n) = n
  BY <1>1, IntervalSize
<1>8. IsFiniteSet(a) /\ Cardinality(a) = n
  <2>1. PICK f : f = [i \in 1 .. n |-> Params[i]]
    OBVIOUS
  <2>2. f \in [1 .. n -> a] /\ (\A i, j \in 1 .. n : f[i] = f[j] => i = j)
        /\ \A x \in a : \E i \in 1 .. n : f[i] = x
    BY <1>1, <1>2, <2>1
  <2>3. f \in Injection(1 .. n, a)
    BY <2>2 DEF Injection, IsInjective
  <2>4. f \in Surjection(1 .. n, a)
    BY <2>2 DEF Surjection
  <2>5. ExistsBijection(1 .. n, a)
    BY <2>3, <2>4 DEF ExistsBijection, Bijection
  <2> QED BY <2>5, <1>7, FS_Bijection
<1>9. DOMAIN place = a
  OBVIOUS
<1>10. DOMAIN Sizes(v) = {1} /\ Sizes(v)[1] = n
  BY <1>6, <1>8, <1>9 DEF Sizes
<1>11. Total(Sizes(v), 0) = 0 /\ Total(Sizes(v), 1) = n
  <2>1. Total(Sizes(v), 0) = 0
    BY TotalEmpty
  <2>2. Total(Sizes(v), 1) = Total(Sizes(v), 1 - 1) + Sizes(v)[1]
    BY <1>1, <1>10, TotalStep
  <2> QED BY <2>1, <2>2, <1>1, <1>10
<1>12. \A x, y \in a : place[x] = place[y] => x = y
  BY <1>3
<1>13. Placed(v, n)
  <2>1. n = Total(Sizes(v), Len(v))
    BY <1>6, <1>11
  <2>2. ASSUME NEW i \in DOMAIN v
        PROVE  /\ IsFiniteSet(DOMAIN v[i])
               /\ \A x \in DOMAIN v[i] : /\ Total(Sizes(v), i - 1) <= v[i][x]
                                         /\ v[i][x] < Total(Sizes(v), i)
               /\ \A x, y \in DOMAIN v[i] : v[i][x] = v[i][y] => x = y
    <3>1. i = 1 /\ v[i] = place /\ DOMAIN v[i] = a
      BY <1>6, <1>9
    <3>2. Total(Sizes(v), i - 1) = 0 /\ Total(Sizes(v), i) = n
      BY <3>1, <1>11
    <3>3. \A x \in a : 0 <= place[x] /\ place[x] < n
      BY <1>1, <1>3
    <3>4. IsFiniteSet(DOMAIN v[i])
      BY <3>1, <1>8
    <3>5. \A x, y \in DOMAIN v[i] : v[i][x] = v[i][y] => x = y
      BY <3>1, <1>12
    <3>6. ASSUME NEW x \in DOMAIN v[i]
          PROVE  Total(Sizes(v), i - 1) <= v[i][x] /\ v[i][x] < Total(Sizes(v), i)
      <4>1. x \in a /\ v[i][x] = place[x]
        BY <3>1, <3>6
      <4> QED BY <4>1, <3>2, <3>3
    <3> QED BY <3>4, <3>5, <3>6
  <2> QED BY <2>1, <2>2 DEF Placed
<1> QED BY <1>1, <1>4, <1>6, <1>13

LEMMA InitShape ==
  ASSUME NEW v, NEW n, NEW t, t = <<Item("func")>>
  PROVE  /\ Shape(t, v, n) /\ Len(t) = 1 /\ t[1] = Item("func")
         /\ Upto(t, 1) = 0 /\ Total(Opened(t), 1) = 0
<1>1. "func" \in Kinds /\ "func" \in BlockKinds /\ "func" \notin ScopeKinds
  BY DEF Kinds, BlockKinds, ScopeKinds
<1>2. Item("func") \in ItemSet /\ Item("func").k = "func" /\ Held(Item("func")) = 0
      /\ Notes(Item("func"), v, n)
  BY <1>1, ItemFacts, HeldFacts
<1>3. t \in Seq(ItemSet) /\ Len(t) = 1 /\ DOMAIN t = {1} /\ t[1] = Item("func") /\ t # <<>>
  BY <1>2
<1>4. Nested(t)
  BY <1>2, <1>3 DEF Nested
<1>5. \A i \in 1 .. 1 : Weights(t)[i] = 0 /\ Opened(t)[i] = 0
  BY <1>1, <1>2, <1>3 DEF Weights, Opened
<1>6. Upto(t, 1) = 0 /\ Total(Opened(t), 1) = 0
  BY <1>5, TotalZero DEF Upto
<1> QED BY <1>2, <1>3, <1>4, <1>6 DEF Shape

LEMMA InitCore ==
  ASSUME Init
  PROVE  CoreInv
<1>1. PICK a : a = Range(Params)
  OBVIOUS
<1>2. PICK place : place = [x \in a |-> (CHOOSE i \in DOMAIN Params : Params[i] = x) - 1]
  OBVIOUS
<1>3. PICK given : given = [l \in 0 .. MaxLocals - 1 |-> IF l < Len(Params) THEN (l + 1) % 3 ELSE 0]
  OBVIOUS
<1>4. PICK e : e = [x \in a |-> given[place[x]]]
  OBVIOUS
<1>5. /\ p = NoRegsUsed
      /\ m = [regs |-> [r \in Reg |-> 0], locals |-> given, field |-> 0, at |-> Run, ret |-> 0]
      /\ s = [vals |-> <<>>, env |-> <<e>>, field |-> 0, at |-> Run, ret |-> 0]
      /\ vars = <<place>> /\ placed = Len(Params) /\ max_locals = IF HasSelf THEN 1 ELSE 0
      /\ todo = <<Item("func")>> /\ need = "stmt" /\ last = Other /\ tokens = 0
  BY <1>1, <1>2, <1>3, <1>4 DEF Init
<1>6. PICK n : n = Len(Params)
  OBVIOUS
<1>7. /\ n \in Nat /\ n <= MaxLocals /\ a \subseteq Names /\ place \in [a -> 0 .. n - 1]
      /\ vars \in Seq(Scope(0 .. MaxLocals - 1)) /\ Placed(vars, n)
      /\ Len(vars) = 1 /\ vars[1] = place
  BY <1>1, <1>2, <1>5, <1>6, InitPlaces
<1>8. given \in [0 .. MaxLocals - 1 -> Val]
  <2> SUFFICES ASSUME NEW l \in 0 .. MaxLocals - 1
               PROVE  (IF l < Len(Params) THEN (l + 1) % 3 ELSE 0) \in Val
    BY <1>3
  <2>1. l \in Nat
    BY CompileAssumption
  <2>2. (l + 1) % 3 \in 0 .. 2
    BY <2>1
  <2> QED BY <2>2 DEF Val
<1>9. e \in [a -> SVal]
  <2> SUFFICES ASSUME NEW x \in a PROVE given[place[x]] \in SVal
    BY <1>4
  <2>1. place[x] \in 0 .. MaxLocals - 1
    BY <1>7, CompileAssumption
  <2> QED BY <2>1, <1>8 DEF SVal
<1>10. p \in RegState /\ p.rstack = <<>> /\ ~p.full
  <2>1. <<>> \in Seq(Reg)
    BY EmptySeq
  <2> QED BY <2>1, <1>5 DEF NoRegsUsed, RegState
<1>11. m \in Machine
  <2>1. 0 \in Val
    BY DEF Val
  <2> QED BY <2>1, <1>5, <1>8, LabelFacts DEF Machine
<1>12. Reading(s, vars) /\ s.vals = <<>>
  <2>1. e \in Scope(SVal)
    BY <1>7, <1>9 DEF Scope
  <2>2. PICK b : b = <<e>>
    OBVIOUS
  <2>3. b \in Seq(Scope(SVal)) /\ Len(b) = 1 /\ b[1] = e
    BY <2>1, <2>2
  <2>4. <<>> \in Seq(SVal) /\ 0 \in SVal
    BY EmptySeq DEF SVal, Val
  <2>5. s \in Source /\ s.env = b /\ s.vals = <<>>
    BY <2>2, <2>3, <2>4, <1>5, LabelFacts DEF Source
  <2>6. DOMAIN vars = {1} /\ DOMAIN e = DOMAIN place
    BY <1>5, <1>7, <1>9
  <2> QED BY <2>3, <2>5, <2>6, <1>7 DEF Reading
<1>13. TypeInv
  <2>1. LoadedLocal(last)
    BY <1>5, OtherFacts
  <2>2. placed \in 0 .. MaxLocals /\ tokens \in 0 .. MaxTokens
    BY <1>5, <1>6, <1>7, CompileAssumption
  <2>3. max_locals \in 0 .. MaxLocals
    <3>1. HasSelf => Len(Params) \in Nat /\ Len(Params) # 0
      BY CompileAssumption, EmptySeq, LenProperties
    <3> QED BY <3>1, <1>5, CompileAssumption
  <2>4. need \in Needs
    BY <1>5 DEF Needs
  <2>5. Len(todo) <= MaxDepth /\ need # "done"
    <3>1. Len(todo) = 1
      BY <1>5
    <3> QED BY <3>1, <1>5, CompileAssumption
  <2> QED BY <2>1, <2>2, <2>3, <2>4, <2>5, <1>7, <1>10, <1>11, <1>12 DEF TypeInv, LoadedLocal
<1>14. /\ Shape(todo, vars, placed) /\ Len(todo) = 1 /\ todo[1] = Item("func")
       /\ Upto(todo, 1) = 0 /\ Total(Opened(todo), 1) = 0
  BY <1>5, InitShape
<1>15. ShapeInv
  <2>1. Fits(need, Top.k)
    <3>1. Top.k = "func"
      BY <1>14 DEF Top, Item
    <3> QED BY <3>1, <1>5 DEF Fits, BlockKinds
  <2>2. Len(s.vals) = 0 /\ Len(p.rstack) = 0 /\ Ready(need) = 0
    BY <1>5, <1>10, <1>12, EmptySeq, ReadyFacts
  <2> QED BY <2>1, <2>2, <1>14 DEF ShapeInv
<1>16. PlaceInv
  BY <1>5, <1>6, <1>7, <1>14 DEF PlaceInv
<1> QED BY <1>13, <1>15, <1>16 DEF CoreInv

LEMMA StutterCore ==
  ASSUME CoreInv, UNCHANGED vars_
  PROVE  CoreInv'
<1>1. /\ p' = p /\ m' = m /\ s' = s /\ vars' = vars /\ placed' = placed /\ max_locals' = max_locals
      /\ todo' = todo /\ need' = need /\ last' = last /\ tokens' = tokens
  BY DEF vars_
<1>2. TypeInv'
  BY <1>1 DEF CoreInv, TypeInv
<1>3. ShapeInv'
  BY <1>1 DEF CoreInv, ShapeInv, Top
<1>4. PlaceInv'
  BY <1>1 DEF CoreInv, PlaceInv
<1> QED BY <1>2, <1>3, <1>4 DEF CoreInv

LEMMA CoreStep ==
  ASSUME CoreInv, [Next]_vars_
  PROVE  CoreInv'
<1>1. CASE Value
  <2>1. ASSUME NEW v \in Literals, Literal(v) PROVE CoreInv'
    BY <2>1, LiteralCore
  <2>2. ASSUME NEW x \in Names, Identifier(x) PROVE CoreInv'
    BY <2>2, IdentifierCore
  <2>3. ASSUME NEW k \in {"paren", "not"}, Prefix(k) PROVE CoreInv'
    BY <2>3, PrefixCore
  <2>4. ASSUME NEW k \in {"assign", "compound"}, NEW x \in Names, Assign(k, x) PROVE CoreInv'
    BY <2>4, AssignCore
  <2>5. ASSUME NEW k \in {"fieldset", "fieldop"}, AssignField(k) PROVE CoreInv'
    BY <2>5, AssignFieldCore
  <2> QED BY <1>1, <2>1, <2>2, <2>3, <2>4, <2>5, FieldCore, ArrayCore DEF Value
<1>2. CASE Operators
  <2>1. ASSUME NEW k \in {"and", "or"}, Logical(k) PROVE CoreInv'
    BY <2>1, LogicalCore
  <2>2. ASSUME NEW op \in 0 .. 1, IdxSet(op) PROVE CoreInv'
    BY <2>2, IdxSetCore
  <2> QED BY <1>2, <2>1, <2>2, OperatorCore, EndBinaryCore, EndLogicalCore, EndPrefixCore,
             IndexCore, IdxGetCore, EndIdxSetCore, BindCore DEF Operators
<1>3. CASE Lists
  <2>1. ASSUME NEW k \in {"call", "method", "fncall", "new"}, Call(k) PROVE CoreInv'
    BY <2>1, CallCore
  <2> QED BY <1>3, <2>1, ArgumentCore, CommaCore, EndCallCore, EndNewCore, ElementCore,
             EndArrayCore DEF Lists
<1>4. CASE Statements
  <2>1. ASSUME NEW k \in {"effect", "print", "return"}, Statement(k) PROVE CoreInv'
    BY <2>1, StatementCore
  <2>2. ASSUME NEW x \in Names, Let(x) PROVE CoreInv'
    BY <2>2, LetCore
  <2> QED BY <1>4, <2>1, <2>2, EndEffectCore, PrintValueCore, ReturnCore, EndLetCore,
             EndAssignCore, EndCompoundCore, EndAssignFieldCore, EndCompoundFieldCore
          DEF Statements
<1>5. CASE BlocksOf
  <2>1. ASSUME NEW k \in {"if", "while"}, Branch(k) PROVE CoreInv'
    BY <2>1, BranchCore
  <2> QED BY <1>5, <2>1, BodyCore, EndIfCore, ElseCore, ElseIfCore, EndElseCore, EndLoopCore,
             EndFunctionCore DEF BlocksOf
<1>6. CASE UNCHANGED vars_
  BY <1>6, StutterCore
<1> QED BY <1>1, <1>2, <1>3, <1>4, <1>5, <1>6 DEF Next

(* In every state the constructs under way nest, what is on the register   *)
(* stack for them is there, and the locals of the scopes are in order.     *)
THEOREM Core == Spec => []CoreInv
<1>1. Init => CoreInv
  BY InitCore
<1>2. CoreInv /\ [Next]_vars_ => CoreInv'
  BY CoreStep
<1> QED BY <1>1, <1>2, PTL DEF Spec

LEMMA CoreTypes == CoreInv => TypeOK
<1> SUFFICES ASSUME CoreInv PROVE TypeOK
  OBVIOUS
<1>1. /\ p \in RegState /\ m \in Machine /\ Reading(s, vars)
      /\ vars \in Seq(Scope(0 .. MaxLocals - 1))
      /\ placed \in 0 .. MaxLocals /\ max_locals \in 0 .. MaxLocals /\ tokens \in 0 .. MaxTokens
      /\ Len(todo) \in Nat \ {0} /\ Len(todo) <= MaxDepth
  BY CoreFacts DEF CoreInv, TypeInv
<1>2. m.regs \in [Reg -> Val] /\ m.locals \in [0 .. MaxLocals - 1 -> Val]
      /\ m.field \in Val /\ m.ret \in Val
  BY <1>1 DEF Machine
<1>3. s.ret \in Val \union {Unknown} /\ s.vals \in Seq(Val \union {Unknown})
  BY <1>1 DEF Reading, Source, SVal
<1>4. ASSUME NEW i \in DOMAIN vars
      PROVE  /\ DOMAIN vars[i] \subseteq Names /\ DOMAIN vars[i] = DOMAIN s.env[i]
             /\ \A x \in DOMAIN vars[i] : vars[i][x] \in 0 .. MaxLocals - 1
  <2>1. vars[i] \in Scope(0 .. MaxLocals - 1)
    BY <1>1, LenProperties
  <2>2. DOMAIN vars[i] = DOMAIN s.env[i]
    BY <1>1 DEF Reading
  <2> QED BY <2>1, <2>2 DEF Scope
<1>5. Len(todo) \in 1 .. MaxDepth
  BY <1>1, CompileAssumption
<1> QED BY <1>1, <1>2, <1>3, <1>4, <1>5 DEF TypeOK

(* Whatever the source is, registers are registers, no local has a number  *)
(* that the function has no slot for, and the parser and the source agree  *)
(* on the names in scope (Compile's TypeOK).                               *)
THEOREM TypeCorrect == Spec => []TypeOK
<1>1. CoreInv => TypeOK
  BY CoreTypes
<1> QED BY <1>1, Core, PTL

LEMMA CoreDistinct == CoreInv => LocalsDistinct
<1> SUFFICES ASSUME CoreInv, NEW i \in DOMAIN vars, NEW j \in DOMAIN vars,
                    NEW x \in DOMAIN vars[i], NEW y \in DOMAIN vars[j], vars[i][x] = vars[j][y]
             PROVE  i = j /\ x = y
  BY DEF LocalsDistinct
<1>1. Placed(vars, placed) /\ vars \in Seq(Scope(0 .. MaxLocals - 1))
  BY CoreFacts
<1>2. /\ Len(vars) \in Nat /\ DOMAIN vars = 1 .. Len(vars)
      /\ \A k \in 1 .. Len(vars) : Sizes(vars)[k] \in Nat
      /\ \A k \in 0 .. Len(vars) : Total(Sizes(vars), k) \in Nat
  BY <1>1, SizesType
<1>3. ASSUME NEW a \in DOMAIN vars, NEW b \in DOMAIN vars, a < b,
             NEW c \in DOMAIN vars[a], NEW d \in DOMAIN vars[b], vars[a][c] = vars[b][d]
      PROVE  FALSE
  <2>1. Total(Sizes(vars), b - 1) <= vars[b][d] /\ vars[a][c] < Total(Sizes(vars), a)
    BY <1>1 DEF Placed
  <2>2. PICK k \in Nat : k = b - 1 /\ a \in 0 .. k /\ k <= Len(vars)
    BY <1>2, <1>3
  <2>3. Total(Sizes(vars), a) <= Total(Sizes(vars), k)
    BY <1>2, <2>2, TotalMonotonic
  <2>4. vars[a] \in Scope(0 .. MaxLocals - 1)
    BY <1>1, LenProperties
  <2>5. vars[a][c] \in Int
    BY <2>4 DEF Scope
  <2>6. Total(Sizes(vars), a) \in Nat /\ Total(Sizes(vars), k) \in Nat
    BY <1>2, <2>2
  <2> QED BY <2>1, <2>2, <2>3, <2>5, <2>6, <1>3
<1>4. i = j
  <2>1. i \in Nat /\ j \in Nat
    BY <1>2
  <2>2. ~(i < j) /\ ~(j < i)
    BY <1>3
  <2> QED BY <2>1, <2>2
<1>5. x = y
  BY <1>1, <1>4 DEF Placed
<1> QED BY <1>4, <1>5

(* No two variables in scope have the same local, a variable and the one   *)
(* of an outer scope that it hides included, however the scopes open and   *)
(* close (Compile's LocalsDistinct).                                       *)
THEOREM DistinctLocals == Spec => []LocalsDistinct
<1>1. CoreInv => LocalsDistinct
  BY CoreDistinct
<1> QED BY <1>1, Core, PTL

=============================================================================
