------------------------- MODULE CompileValueProofs -------------------------
(***************************************************************************)
(* For a function of any length, any number of registers, locals and       *)
(* names: the instructions that the parser emits do what the source says.  *)
(***************************************************************************)
EXTENDS CompileRegsProofs

-----------------------------------------------------------------------------
(* The inductive invariant.                                                *)

(* An execution that skips instructions is on its way to the end of a        *)
(* construct that is under way, or to its else part.                         *)
Labelled(a, t) ==
  \/ a \in {Run, Stop}
  \/ \E i \in DOMAIN t : \/ a = ElseOf(i) /\ t[i].k = "then"
                         \/ a = EndOf(i) /\ t[i].k \in LogicalKinds \cup {"then", "else", "elif", "loop"}

(* Nobody relies on the left operand of && and || once it has been tested, nor   *)
(* on the value of a compound assignment that is a statement.                    *)
Tested(t, v) == \E i \in DOMAIN t : t[i].k \in LogicalKinds /\ v = Upto(t, i)
Dropped(t, n) ==
  \/ n = "closed" /\ Len(t) > 1 /\ t[Len(t)].op = 0 /\ t[Len(t) - 1].k = "effect"
  \/ n = "done" /\ t[Len(t)].k = "effect"

(* What was there before an execution began to skip is known to the source, and *)
(* everything is while it runs.                                                 *)
KnownOperands(f, t, n) ==
  \A v \in DOMAIN f.vals :
    /\ f.at = Run \/ v <= Upto(t, f.at.pos - 1)
    /\ f.vals[v] = Unknown
    => Tested(t, v) \/ (v = Len(f.vals) /\ Dropped(t, n))
KnownArgs(f, t) ==
  \A i \in DOMAIN t : f.at = Run \/ i < f.at.pos =>
    \A k \in DOMAIN t[i].params : t[i].params[k].val # Unknown
KnownNames(f, t) ==
  \A i \in DOMAIN f.env : f.at = Run \/ i <= Total(Opened(t), f.at.pos - 1) + 1 =>
    \A x \in DOMAIN f.env[i] : f.env[i][x] # Unknown

(* What the source knows the machine has. *)
OperandsAgree(q, e, f) ==
  \A v \in DOMAIN f.vals :
    f.vals[v] = Unknown \/ e.regs[OpReg(q, Len(f.vals), v)] = f.vals[v]
ArgsAgree(e, t) ==
  \A i \in DOMAIN t : \A k \in DOMAIN t[i].params :
    t[i].params[k].val = Unknown \/ e.regs[t[i].params[k].reg] = t[i].params[k].val
NamesAgree(e, f, w) ==
  \A i \in DOMAIN w : \A x \in DOMAIN w[i] :
    f.env[i][x] = Unknown \/ e.locals[w[i][x]] = f.env[i][x]

(* Only locals that are in scope are cached, and a cached register is the local's *)
(* equal unless the instruction that loads it is skipped.                         *)
Faithful(q, e, n) ==
  \A l \in DOMAIN q.cache : q.cache[l] # NoReg =>
    l <= n /\ (e.at = Run => e.regs[q.cache[l]] = e.locals[l - 1])
LoadKept(e, o) == e.at = Run /\ o.op = "load" => e.regs[o.reg] = e.locals[o.local]

(* After a return nothing runs until the end of its block. *)
Silent(e, t, o) ==
  o.op = "ret" /\ o.depth \in DOMAIN t /\ t[o.depth].k = "then" =>
    e.at # Run /\ e.at.pos <= o.depth

Sourced(f, t, n) ==
  /\ Labelled(f.at, t)
  /\ f.at # Stop => KnownOperands(f, t, n) /\ KnownArgs(f, t) /\ KnownNames(f, t)
Followed(q, e, f, t, w) ==
  /\ e.at = f.at /\ e.ret = f.ret /\ e.field = f.field
  /\ OperandsAgree(q, e, f) /\ ArgsAgree(e, t) /\ NamesAgree(e, f, w)
Backed(q, e, t, o, n) == Faithful(q, e, n) /\ LoadKept(e, o) /\ Silent(e, t, o)

ValueInv ==
  ~p.full => Sourced(s, todo, need) /\ Followed(p, m, s, todo, vars) /\ Backed(p, m, todo, last, placed)

-----------------------------------------------------------------------------
(* What the source knows, from step to step.                               *)

LabelKinds == LogicalKinds \cup {"then", "else", "elif", "loop"}

(* The constructs up to c stay, with their operands, and so does what was known. *)
Carried(f, t, n, g, u, k, c) ==
  /\ Shares(t, u, c)
  /\ Len(f.vals) \in Nat /\ DOMAIN f.vals = 1 .. Len(f.vals)
  /\ Len(f.vals) = Upto(t, Len(t)) + Ready(n)
  /\ Len(g.vals) \in Nat /\ DOMAIN g.vals = 1 .. Len(g.vals)
  /\ g.at = f.at /\ g.env = f.env
  /\ \A i \in c + 1 .. Len(t) : f.at # Run => t[i].k \notin LabelKinds \/ f.at.pos # i
  /\ \A v \in DOMAIN g.vals : v <= Upto(t, c) => v \in DOMAIN f.vals /\ g.vals[v] = f.vals[v]
  /\ f.at = Run =>
       /\ \A v \in DOMAIN g.vals :
            v > Upto(t, c) /\ g.vals[v] = Unknown =>
              Tested(u, v) \/ (v = Len(g.vals) /\ Dropped(u, k))
       /\ \A i \in c + 1 .. Len(u) : \A j \in DOMAIN u[i].params : u[i].params[j].val # Unknown

(* The operand that a construct holds is above those of the ones it is part of. *)
LEMMA UptoOrder ==
  ASSUME NEW t \in Seq(ItemSet), NEW i \in 0 .. Len(t), NEW j \in 0 .. Len(t), i <= j
  PROVE  /\ Upto(t, i) \in Nat /\ Upto(t, j) \in Nat /\ Upto(t, i) <= Upto(t, j)
         /\ i < j /\ t[j].k \in LogicalKinds => Upto(t, i) < Upto(t, j)
<1>1. i \in Nat /\ j \in Nat /\ Len(t) \in Nat /\ j \in 0 .. Len(t) /\ i \in 0 .. j
  OBVIOUS
<1>2. \A x \in 1 .. j : Weights(t)[x] \in Nat
  BY <1>1, WeightType
<1>3. Upto(t, i) \in Nat /\ Upto(t, j) \in Nat
  BY WeightType
<1>4. Upto(t, i) <= Upto(t, j)
  BY <1>1, <1>2, TotalMonotonic DEF Upto
<1>5. ASSUME i < j, t[j].k \in LogicalKinds PROVE Upto(t, i) < Upto(t, j)
  <2>1. PICK k \in Nat : k = j - 1 /\ i \in 0 .. k /\ \A x \in 1 .. k : x \in 1 .. j
    BY <1>1, <1>5
  <2>2. Upto(t, i) <= Upto(t, k)
    BY <1>2, <2>1, TotalMonotonic DEF Upto
  <2>3. j \in 1 .. Len(t) /\ k \in 0 .. Len(t)
    BY <1>1, <1>5, <2>1
  <2>4. Upto(t, j) = Upto(t, k) + 1 /\ Upto(t, k) \in Nat
    BY <1>5, <2>1, <2>3, UptoStep, HeldFacts, WeightType
  <2> QED BY <2>2, <2>4, <1>3
<1> QED BY <1>3, <1>4, <1>5

LEMMA SourcedKept ==
  ASSUME NEW f, NEW t, NEW n, NEW g, NEW u, NEW k, NEW c,
         Sourced(f, t, n), Carried(f, t, n, g, u, k, c)
  PROVE  Sourced(g, u, k)
<1>1. /\ t \in Seq(ItemSet) /\ u \in Seq(ItemSet) /\ c \in Nat /\ c <= Len(t) /\ c <= Len(u)
      /\ \A i \in 1 .. c : u[i] = t[i]
      /\ DOMAIN t = 1 .. Len(t) /\ DOMAIN u = 1 .. Len(u) /\ Len(t) \in Nat /\ Len(u) \in Nat
  BY LenProperties DEF Carried, Shares
<1>2. /\ g.at = f.at /\ g.env = f.env
      /\ \A i \in c + 1 .. Len(t) : f.at # Run => t[i].k \notin LabelKinds \/ f.at.pos # i
      /\ \A v \in DOMAIN g.vals : v <= Upto(t, c) => v \in DOMAIN f.vals /\ g.vals[v] = f.vals[v]
      /\ DOMAIN g.vals = 1 .. Len(g.vals) /\ Len(g.vals) \in Nat
      /\ Len(f.vals) = Upto(t, Len(t)) + Ready(n)
  BY DEF Carried
<1>3. f.at = Run =>
       /\ \A v \in DOMAIN g.vals :
            v > Upto(t, c) /\ g.vals[v] = Unknown =>
              Tested(u, v) \/ (v = Len(g.vals) /\ Dropped(u, k))
       /\ \A i \in c + 1 .. Len(u) : \A j \in DOMAIN u[i].params : u[i].params[j].val # Unknown
  BY DEF Carried
<1>4. \A i \in 0 .. c : Upto(u, i) = Upto(t, i) /\ Upto(t, i) <= Upto(t, c) /\ Upto(t, i) \in Nat
  <2>1. Shares(t, u, c)
    BY DEF Carried
  <2> QED BY <2>1, PrefixSums
<1>5. \A i \in 0 .. c : Total(Opened(u), i) = Total(Opened(t), i)
  <2>1. c \in 0 .. Len(t) /\ \A i \in 1 .. c : Held(u[i]) = Held(t[i]) /\ u[i].k = t[i].k
    BY <1>1
  <2> QED BY <1>1, <2>1, UptoSame
<1>6. f.at \in {Run, Stop} \/ \E i \in 1 .. c :
         /\ f.at.pos = i
         /\ (f.at = ElseOf(i) /\ t[i].k = "then") \/ (f.at = EndOf(i) /\ t[i].k \in LabelKinds)
  <2>1. Labelled(f.at, t)
    BY DEF Sourced
  <2>2. SUFFICES ASSUME f.at \notin {Run, Stop}
                 PROVE  \E i \in 1 .. c :
         /\ f.at.pos = i
         /\ (f.at = ElseOf(i) /\ t[i].k = "then") \/ (f.at = EndOf(i) /\ t[i].k \in LabelKinds)
    OBVIOUS
  <2>3. PICK i \in DOMAIN t : (f.at = ElseOf(i) /\ t[i].k = "then") \/ (f.at = EndOf(i) /\ t[i].k \in LabelKinds)
    BY <2>1, <2>2 DEF Labelled, LabelKinds
  <2>4. i \in Nat /\ f.at.pos = i /\ t[i].k \in LabelKinds
    <3>1. i \in Nat
      BY <1>1
    <3> QED BY <3>1, <2>3, LabelFacts DEF LabelKinds
  <2>5. i \in 1 .. c
    BY <2>2, <2>4, <1>1, <1>2
  <2> QED BY <2>3, <2>4, <2>5
<1>7. Labelled(g.at, u)
  <2>1. CASE f.at \in {Run, Stop}
    BY <2>1, <1>2 DEF Labelled
  <2>2. CASE f.at \notin {Run, Stop}
    <3>1. PICK i \in 1 .. c : (f.at = ElseOf(i) /\ t[i].k = "then") \/ (f.at = EndOf(i) /\ t[i].k \in LabelKinds)
      BY <2>2, <1>6
    <3>2. i \in DOMAIN u /\ u[i] = t[i]
      BY <3>1, <1>1
    <3> QED BY <3>1, <3>2, <1>2 DEF Labelled, LabelKinds
  <2> QED BY <2>1, <2>2
<1>8. SUFFICES ASSUME g.at # Stop PROVE KnownOperands(g, u, k) /\ KnownArgs(g, u) /\ KnownNames(g, u)
  BY <1>7 DEF Sourced
<1>9. f.at # Stop /\ KnownOperands(f, t, n) /\ KnownArgs(f, t) /\ KnownNames(f, t)
  BY <1>2, <1>8 DEF Sourced
<1>10. f.at = Run \/ f.at.pos \in 1 .. c
  BY <1>6, <1>9
<1>11. f.at # Run => f.at.pos - 1 \in 0 .. c /\ f.at.pos <= c
  BY <1>1, <1>10
<1>12. KnownOperands(g, u, k)
  <2>1. SUFFICES ASSUME NEW v \in DOMAIN g.vals, g.at = Run \/ v <= Upto(u, g.at.pos - 1),
                        g.vals[v] = Unknown
                 PROVE  Tested(u, v) \/ (v = Len(g.vals) /\ Dropped(u, k))
    BY DEF KnownOperands
  <2>2. c \in 0 .. c /\ v \in Nat /\ Upto(t, c) \in Nat
    BY <1>1, <1>2, <1>4
  <2>3. CASE v > Upto(t, c)
    <3>1. f.at = Run
      <4>1. SUFFICES ASSUME f.at # Run PROVE FALSE
        OBVIOUS
      <4>2. v <= Upto(u, f.at.pos - 1)
        BY <4>1, <2>1, <1>2
      <4>3. Upto(u, f.at.pos - 1) <= Upto(t, c) /\ Upto(u, f.at.pos - 1) \in Nat
        BY <4>1, <1>4, <1>11
      <4> QED BY <4>2, <4>3, <2>2, <2>3
    <3> QED BY <3>1, <2>1, <2>3, <1>3
  <2>4. CASE v <= Upto(t, c)
    <3>1. v \in DOMAIN f.vals /\ f.vals[v] = Unknown
      BY <2>1, <2>4, <1>2
    <3>2. f.at = Run \/ v <= Upto(t, f.at.pos - 1)
      BY <2>1, <1>2, <1>4, <1>11
    <3>3. Tested(t, v) \/ (v = Len(f.vals) /\ Dropped(t, n))
      BY <3>1, <3>2, <1>9 DEF KnownOperands
    <3>4. c \in 0 .. Len(t) /\ Len(t) \in 0 .. Len(t) /\ c <= Len(t)
      BY <1>1
    <3>5. ~(v = Len(f.vals) /\ Dropped(t, n))
      <4>1. SUFFICES ASSUME v = Len(f.vals), Dropped(t, n) PROVE FALSE
        OBVIOUS
      <4>2. Ready(n) = 1
        BY <4>1, ReadyFacts DEF Dropped
      <4>3. Upto(t, c) <= Upto(t, Len(t)) /\ Upto(t, Len(t)) \in Nat
        BY <3>4, <1>1, UptoOrder
      <4> QED BY <4>1, <4>2, <4>3, <2>2, <2>4, <1>2
    <3>6. PICK i \in DOMAIN t : t[i].k \in LogicalKinds /\ v = Upto(t, i)
      BY <3>3, <3>5 DEF Tested
    <3>7. i \in 1 .. c
      <4>1. SUFFICES ASSUME i > c PROVE FALSE
        BY <3>6, <1>1
      <4>2. i \in 0 .. Len(t) /\ c <= i /\ c < i
        BY <4>1, <3>6, <1>1
      <4>3. Upto(t, c) < Upto(t, i) /\ Upto(t, i) \in Nat
        BY <4>2, <3>4, <3>6, <1>1, UptoOrder
      <4> QED BY <4>3, <3>6, <2>2, <2>4
    <3>8. i \in DOMAIN u /\ u[i] = t[i] /\ Upto(u, i) = Upto(t, i)
      BY <3>7, <1>1, <1>4
    <3> QED BY <3>6, <3>8 DEF Tested
  <2> QED BY <2>2, <2>3, <2>4
<1>13. KnownArgs(g, u)
  <2>1. SUFFICES ASSUME NEW i \in DOMAIN u, g.at = Run \/ i < g.at.pos, NEW j \in DOMAIN u[i].params
                 PROVE  u[i].params[j].val # Unknown
    BY DEF KnownArgs
  <2>2. CASE i <= c
    <3>1. i \in DOMAIN t /\ u[i] = t[i]
      BY <2>1, <2>2, <1>1
    <3> QED BY <2>1, <3>1, <1>2, <1>9 DEF KnownArgs
  <2>3. CASE ~(i <= c)
    <3>1. i \in c + 1 .. Len(u)
      BY <2>1, <2>3, <1>1
    <3>2. f.at = Run
      BY <2>1, <2>3, <3>1, <1>1, <1>2, <1>10
    <3> QED BY <2>1, <3>1, <3>2, <1>3
  <2> QED BY <2>2, <2>3
<1>14. KnownNames(g, u)
  <2>1. SUFFICES ASSUME NEW i \in DOMAIN g.env,
                        g.at = Run \/ i <= Total(Opened(u), g.at.pos - 1) + 1,
                        NEW x \in DOMAIN g.env[i]
                 PROVE  g.env[i][x] # Unknown
    BY DEF KnownNames
  <2>2. f.at = Run \/ i <= Total(Opened(t), f.at.pos - 1) + 1
    BY <2>1, <1>2, <1>5, <1>11
  <2> QED BY <2>1, <2>2, <1>2, <1>9 DEF KnownNames
<1> QED BY <1>12, <1>13, <1>14

-----------------------------------------------------------------------------
(* What holds before and after a step that finds its registers.            *)

Steps ==
  /\ CoreInv /\ CoreInv' /\ RegInv /\ RegInv' /\ ValueInv
  /\ ~p.full /\ ~p'.full /\ m.at # Stop

LEMMA StepsFacts ==
  ASSUME Steps
  PROVE  /\ CoreInv /\ CoreInv' /\ RegInv /\ RegInv' /\ ~p.full /\ ~p'.full
         /\ Sourced(s, todo, need) /\ Followed(p, m, s, todo, vars)
         /\ Backed(p, m, todo, last, placed)
         /\ m.at = s.at /\ m.ret = s.ret /\ m.field = s.field /\ s.at # Stop
         /\ OperandsAgree(p, m, s) /\ ArgsAgree(m, todo) /\ NamesAgree(m, s, vars)
         /\ KnownOperands(s, todo, need) /\ KnownArgs(s, todo) /\ KnownNames(s, todo)
         /\ Labelled(s.at, todo)
         /\ Faithful(p, m, placed) /\ LoadKept(m, last) /\ Silent(m, todo, last)
         /\ (Running(m) <=> Running(s)) /\ (Running(s) <=> s.at = Run)
BY DEF Steps, ValueInv, Sourced, Followed, Backed, Running

LEMMA KindFacts ==
  /\ \A k \in OperandKinds \cup StatementKinds \cup {"expr", "func"} : k \notin LabelKinds
  /\ \A k \in OperandKinds \cup StatementKinds \cup BlockKinds \cup {"expr"} : k \notin LogicalKinds
  /\ LogicalKinds \subseteq LabelKinds
BY DEF LabelKinds, LogicalKinds, OperandKinds, ListKinds, StatementKinds, BlockKinds

(* An operand of the innermost construct. *)
LEMMA AboveKnown ==
  ASSUME Steps, Running(s), NEW v \in 1 .. Len(s.vals), v > Upto(todo, Len(todo) - 1),
         Top.k \notin LogicalKinds \/ v > Upto(todo, Len(todo)), ~Dropped(todo, need)
  PROVE  /\ s.vals[v] # Unknown /\ s.vals[v] \in Val
         /\ m.regs[OpReg(p, Len(s.vals), v)] = s.vals[v]
<1>1. /\ todo \in Seq(ItemSet) /\ Len(todo) \in Nat \ {0} /\ Top = todo[Len(todo)]
      /\ DOMAIN todo = 1 .. Len(todo) /\ Reading(s, vars)
  BY StepsFacts, CoreFacts
<1>2. DOMAIN s.vals = 1 .. Len(s.vals) /\ s.vals[v] \in SVal
  BY <1>1, SourceFacts
<1>3. ~Tested(todo, v)
  <2>1. ASSUME NEW i \in DOMAIN todo, todo[i].k \in LogicalKinds, v = Upto(todo, i) PROVE FALSE
    <3>1. CASE i = Len(todo)
      BY <3>1, <2>1, <1>1
    <3>2. CASE i # Len(todo)
      <4>1. i \in 0 .. Len(todo) /\ Len(todo) - 1 \in 0 .. Len(todo) /\ i <= Len(todo) - 1
        BY <3>2, <1>1
      <4>2. /\ Upto(todo, i) <= Upto(todo, Len(todo) - 1)
            /\ Upto(todo, i) \in Nat /\ Upto(todo, Len(todo) - 1) \in Nat
        BY <4>1, <1>1, UptoOrder
      <4> QED BY <4>2, <2>1
    <3> QED BY <3>1, <3>2
  <2> QED BY <2>1 DEF Tested
<1>4. s.vals[v] # Unknown
  BY <1>2, <1>3, StepsFacts DEF KnownOperands
<1>5. m.regs[OpReg(p, Len(s.vals), v)] = s.vals[v]
  BY <1>2, <1>4, StepsFacts DEF OperandsAgree
<1> QED BY <1>2, <1>4, <1>5 DEF SVal

(* The last operands, as the actions name them. *)
LEMMA LastKnown ==
  ASSUME Steps, Running(s), NEW i \in Nat, i < Len(s.vals),
         Len(s.vals) - i > Upto(todo, Len(todo) - 1),
         Top.k \notin LogicalKinds \/ Len(s.vals) - i > Upto(todo, Len(todo)), ~Dropped(todo, need)
  PROVE  /\ Operand(s, i) \in Val /\ m.regs[TopReg(p, i)] = Operand(s, i) /\ Operand(s, i) # Unknown
<1>1. PICK n \in Nat : n = Len(s.vals)
  BY StepsFacts, CoreFacts
<1>2. PICK h \in Nat : h = Len(p.rstack)
  BY StepsFacts, CoreFacts
<1>3. n - i \in 1 .. n /\ h - n + (n - i) = h - i
  BY <1>1, <1>2
<1>4. OpReg(p, n, n - i) = TopReg(p, i) /\ Operand(s, i) = s.vals[n - i]
  BY <1>1, <1>2, <1>3 DEF OpReg, TopReg, Operand
<1> QED BY <1>1, <1>3, <1>4, AboveKnown

(* What todo keeps when it changes. *)
LEMMA TodoShares ==
  ASSUME CoreInv, CoreInv', NEW h, h = Len(todo)
  PROVE  /\ todo' = todo => Shares(todo, todo', h) /\ Shares(todo, todo', h - 1)
         /\ todo' = Below /\ Top.k # "func" =>
              Shares(todo, todo', h - 1) /\ Len(todo') = h - 1 /\ SameArgs(todo, todo')
         /\ \A o : todo' = Append(Below, o) =>
              Shares(todo, todo', h - 1) /\ Len(todo') = h /\ todo'[h] = o
         /\ \A o : todo' = Append(todo, o) =>
              Shares(todo, todo', h) /\ Len(todo') = h + 1 /\ todo'[h + 1] = o
         /\ \A o, e : todo' = todo \o <<o, e>> =>
              /\ Shares(todo, todo', h) /\ Len(todo') = h + 2
              /\ todo'[h + 1] = o /\ todo'[h + 2] = e
         /\ \A o, e : todo' = Below \o <<o, e>> =>
              /\ Shares(todo, todo', h - 1) /\ Len(todo') = h + 1
              /\ todo'[h] = o /\ todo'[h + 1] = e
<1>1. todo \in Seq(ItemSet) /\ todo' \in Seq(ItemSet) /\ h \in Nat \ {0} /\ DOMAIN todo = 1 .. h
  <2>1. todo' \in Seq(ItemSet)
    BY DEF CoreInv, ShapeInv, Shape
  <2> QED BY <2>1, CoreFacts
<1>2. /\ Below \in Seq(ItemSet) /\ Len(Below) = h - 1 /\ \A i \in 1 .. h - 1 : Below[i] = todo[i]
  <2>1. todo # <<>>
    BY CoreFacts DEF Nested
  <2> QED BY <2>1, <1>1, FrontFacts DEF Below
<1>3. PICK b : b = Below
  OBVIOUS
<1>4. b \in Seq(ItemSet) /\ Len(b) = h - 1 /\ \A i \in 1 .. h - 1 : b[i] = todo[i]
  BY <1>2, <1>3
<1>5. PICK u : u = todo'
  OBVIOUS
<1>6. u \in Seq(ItemSet)
  BY <1>1, <1>5
<1>7. u = todo => Shares(todo, u, h) /\ Shares(todo, u, h - 1)
  BY <1>1 DEF Shares
<1>8. ASSUME u = b, Top.k # "func" PROVE Shares(todo, u, h - 1) /\ Len(u) = h - 1 /\ SameArgs(todo, u)
  BY <1>3, <1>8, BelowFacts
<1>9. ASSUME NEW o, u = Append(b, o) PROVE Shares(todo, u, h - 1) /\ Len(u) = h /\ u[h] = o
  <2>1. PICK k \in Nat : k = h - 1 /\ k + 1 = h /\ k <= h
    BY <1>1
  <2>2. Len(u) = k + 1 /\ u[k + 1] = o /\ \A i \in 1 .. k : u[i] = b[i]
    BY <1>9, <2>1, <1>4
  <2>3. \A i \in 1 .. k : u[i] = todo[i]
    BY <2>1, <2>2, <1>4
  <2>4. Shares(todo, u, k)
    BY ONLY <2>1, <2>2, <2>3, <1>1, <1>6 DEF Shares
  <2> QED BY <2>1, <2>2, <2>4
<1>10. ASSUME NEW o, u = Append(todo, o) PROVE Shares(todo, u, h) /\ Len(u) = h + 1 /\ u[h + 1] = o
  <2>1. Len(u) = h + 1 /\ u[h + 1] = o /\ \A i \in 1 .. h : u[i] = todo[i]
    BY <1>10, <1>1
  <2> QED BY <2>1, <1>1, <1>6 DEF Shares
<1>11. ASSUME NEW o, NEW e, u = todo \o <<o, e>>
       PROVE  /\ Shares(todo, u, h) /\ Len(u) = h + 2 /\ u[h + 1] = o /\ u[h + 2] = e
  <2>1. Len(u) = h + 2 /\ u[h + 1] = o /\ u[h + 2] = e /\ \A i \in 1 .. h : u[i] = todo[i]
    BY <1>11, <1>1
  <2> QED BY <2>1, <1>1, <1>6 DEF Shares
<1>12. ASSUME NEW o, NEW e, u = b \o <<o, e>>
       PROVE  /\ Shares(todo, u, h - 1) /\ Len(u) = h + 1 /\ u[h] = o /\ u[h + 1] = e
  <2>1. PICK k \in Nat : k = h - 1
    BY <1>1
  <2>2. Len(u) = k + 2 /\ u[k + 1] = o /\ u[k + 2] = e /\ \A i \in 1 .. k : u[i] = b[i]
    BY <1>12, <2>1, <1>4
  <2> QED BY <2>1, <2>2, <1>1, <1>4, <1>6 DEF Shares
<1> QED BY <1>3, <1>5, <1>7, <1>8, <1>9, <1>10, <1>11, <1>12

LEMMA OpenShares ==
  ASSUME CoreInv, CoreInv', NEW h, h = Len(todo), NEW o, NEW e, todo' = todo \o <<o, e>>
  PROVE  /\ Shares(todo, todo', h) /\ Len(todo') = h + 2
         /\ todo'[h + 1] = o /\ todo'[h + 2] = e
BY TodoShares

LEMMA ReopenShares ==
  ASSUME CoreInv, CoreInv', NEW h, h = Len(todo), NEW o, NEW e, todo' = Below \o <<o, e>>
  PROVE  /\ Shares(todo, todo', h - 1) /\ Len(todo') = h + 1
         /\ todo'[h] = o /\ todo'[h + 1] = e
BY TodoShares

(* An execution that goes on as it did, after a step or in the midst of one. *)
LEMMA SourceMove ==
  ASSUME Steps, NEW g, NEW w, Reading(g, w), NEW u, NEW k,
         NEW c, c \in {Len(todo), Len(todo) - 1}, Shares(todo, u, c),
         c = Len(todo) \/ Top.k \notin LabelKinds \/ Running(s) \/ s.at.pos # Len(todo),
         g.at = s.at, g.env = s.env,
         \A v \in DOMAIN g.vals : v <= Upto(todo, c) => g.vals[v] = s.vals[v],
         Running(s) => \A v \in DOMAIN g.vals :
            v > Upto(todo, c) /\ g.vals[v] = Unknown =>
              Tested(u, v) \/ (v = Len(g.vals) /\ Dropped(u, k)),
         Running(s) => \A i \in c + 1 .. Len(u) : \A j \in DOMAIN u[i].params :
            u[i].params[j].val # Unknown
  PROVE  Sourced(g, u, k)
<1>1. /\ c \in Nat /\ Len(s.vals) \in Nat /\ DOMAIN s.vals = 1 .. Len(s.vals)
      /\ Len(g.vals) \in Nat /\ DOMAIN g.vals = 1 .. Len(g.vals)
      /\ Len(s.vals) = Upto(todo, Len(todo)) + Ready(need) /\ Upto(todo, c) <= Len(s.vals)
      /\ Upto(todo, c) \in Nat /\ Len(todo) \in Nat \ {0} /\ Top = todo[Len(todo)]
  <2>1. c \in Nat /\ Len(todo) \in Nat \ {0} /\ Top = todo[Len(todo)] /\ Reading(s, vars)
    BY StepsFacts, CoreFacts
  <2>2. Upto(todo, c) <= Len(s.vals) /\ Upto(todo, c) \in Nat
    BY StepsFacts, Waiting
  <2>3. Len(s.vals) = Upto(todo, Len(todo)) + Ready(need)
    BY StepsFacts, CoreFacts
  <2>4. Len(s.vals) \in Nat /\ DOMAIN s.vals = 1 .. Len(s.vals)
    BY <2>1, SourceFacts
  <2>5. Len(g.vals) \in Nat /\ DOMAIN g.vals = 1 .. Len(g.vals)
    BY SourceFacts
  <2> QED BY <2>1, <2>2, <2>3, <2>4, <2>5
<1>2. \A i \in c + 1 .. Len(todo) : s.at # Run => todo[i].k \notin LabelKinds \/ s.at.pos # i
  <2>1. SUFFICES ASSUME NEW i \in c + 1 .. Len(todo), s.at # Run
                 PROVE  todo[i].k \notin LabelKinds \/ s.at.pos # i
    OBVIOUS
  <2>2. i = Len(todo) /\ c # Len(todo)
    BY <1>1
  <2> QED BY <2>1, <2>2, <1>1 DEF Running
<1>3. \A v \in DOMAIN g.vals : v <= Upto(todo, c) => v \in DOMAIN s.vals /\ g.vals[v] = s.vals[v]
  BY <1>1
<1>4. Carried(s, todo, need, g, u, k, c)
  BY <1>1, <1>2, <1>3 DEF Carried, Running
<1> QED BY <1>4, StepsFacts, SourcedKept

LEMMA SourceStep ==
  ASSUME Steps, NEW c, c \in {Len(todo), Len(todo) - 1}, Shares(todo, todo', c),
         c = Len(todo) \/ Top.k \notin LabelKinds \/ Running(s) \/ s.at.pos # Len(todo),
         s'.at = s.at, s'.env = s.env,
         \A v \in DOMAIN s'.vals : v <= Upto(todo, c) => s'.vals[v] = s.vals[v],
         Running(s) => \A v \in DOMAIN s'.vals :
            v > Upto(todo, c) /\ s'.vals[v] = Unknown =>
              Tested(todo', v) \/ (v = Len(s'.vals) /\ Dropped(todo', need')),
         Running(s) => \A i \in c + 1 .. Len(todo') : \A j \in DOMAIN todo'[i].params :
            todo'[i].params[j].val # Unknown
  PROVE  Sourced(s', todo', need')
<1>1. PICK g, w, u, k : g = s' /\ w = vars' /\ u = todo' /\ k = need'
  OBVIOUS
<1>2. Reading(g, w)
  BY <1>1, StepsFacts DEF CoreInv, TypeInv
<1>3. /\ Shares(todo, u, c) /\ g.at = s.at /\ g.env = s.env
      /\ \A v \in DOMAIN g.vals : v <= Upto(todo, c) => g.vals[v] = s.vals[v]
  BY <1>1
<1>4. /\ Running(s) => \A v \in DOMAIN g.vals :
            v > Upto(todo, c) /\ g.vals[v] = Unknown =>
              Tested(u, v) \/ (v = Len(g.vals) /\ Dropped(u, k))
      /\ Running(s) => \A i \in c + 1 .. Len(u) : \A j \in DOMAIN u[i].params :
            u[i].params[j].val # Unknown
  BY <1>1
<1>5. Sourced(g, u, k)
  BY <1>2, <1>3, <1>4, SourceMove
<1> QED BY <1>1, <1>5

-----------------------------------------------------------------------------
(* A step whose result takes a register of its own.                        *)

(* The first b operands stay, the last one is what register d is given. *)
Result(b, d, w, a) ==
  /\ b \in Nat /\ b <= Len(s.vals) /\ d \in Reg /\ w \in Val /\ a \in SVal
  /\ m' = Put(m, d, w) /\ s' = Yield(s, Len(s.vals) - b, a)
  /\ Running(s) => a = w
  /\ OpReg(p', b + 1, b + 1) = d
  /\ \A v \in 1 .. b : OpReg(p', b + 1, v) = OpReg(p, Len(s.vals), v)
  /\ SameArgs(todo, todo') /\ SameScope

(* No operand and no argument that stays is in register d. *)
Alone(b, d) ==
  /\ \A v \in 1 .. b : OpReg(p', b + 1, v) # d
  /\ \A i \in DOMAIN todo' : \A k \in DOMAIN todo'[i].params : todo'[i].params[k].reg # d

LEMMA ResultSource ==
  ASSUME Steps, NEW b, NEW d, NEW w, NEW a, Result(b, d, w, a)
  PROVE  /\ Len(s'.vals) = b + 1 /\ DOMAIN s'.vals = 1 .. b + 1
         /\ \A v \in 1 .. b : s'.vals[v] = s.vals[v] /\ v \in DOMAIN s.vals
         /\ s'.vals[b + 1] = IF Running(s) THEN w ELSE Unknown
         /\ s'.at = s.at /\ s'.env = s.env /\ s'.field = s.field /\ s'.ret = s.ret
         /\ w # Unknown
<1>1. PICK n \in Nat : n = Len(s.vals)
  BY StepsFacts, CoreFacts
<1>2. Reading(s, vars) /\ DOMAIN s.vals = 1 .. n
  BY <1>1, StepsFacts, CoreFacts, SourceFacts
<1>3. PICK g : g = s'
  OBVIOUS
<1>4. b \in Nat /\ b <= n /\ a \in SVal /\ g = Yield(s, n - b, a) /\ w \in Val /\ (Running(s) => a = w)
  BY <1>1, <1>3 DEF Result
<1>5. PICK j \in Nat : j = n - b
  BY <1>1, <1>4
<1>6. Yields(vars, s, n, j, a, g)
  BY <1>1, <1>2, <1>4, <1>5 DEF Yields
<1>7. /\ Reading(g, vars) /\ Len(g.vals) = n - j + 1
      /\ \A i \in 1 .. n - j : g.vals[i] = s.vals[i]
      /\ g.vals[n - j + 1] = IF Running(s) THEN a ELSE Unknown
      /\ g.at = s.at /\ g.env = s.env /\ g.field = s.field /\ g.ret = s.ret
  BY <1>6, YieldFacts
<1>8. n - j + 1 = b + 1 /\ n - j = b /\ \A v \in 1 .. b : v \in 1 .. n
  BY <1>1, <1>4, <1>5
<1>9. DOMAIN g.vals = 1 .. Len(g.vals)
  BY <1>7, SourceFacts
<1> QED BY <1>2, <1>3, <1>4, <1>7, <1>8, <1>9, ValueFacts

LEMMA ResultFollowed ==
  ASSUME Steps, NEW b, NEW d, NEW w, NEW a, Result(b, d, w, a), Alone(b, d) \/ m.regs[d] = w
  PROVE  Followed(p', m', s', todo', vars')
<1>1. PICK n \in Nat : n = Len(s.vals)
  BY StepsFacts, CoreFacts
<1>2. PICK q, e, g, u, y : q = p' /\ e = m' /\ g = s' /\ u = todo' /\ y = vars'
  OBVIOUS
<1>3. /\ Len(g.vals) = b + 1 /\ DOMAIN g.vals = 1 .. b + 1
      /\ \A v \in 1 .. b : g.vals[v] = s.vals[v] /\ v \in DOMAIN s.vals
      /\ g.vals[b + 1] = IF Running(s) THEN w ELSE Unknown
      /\ g.at = s.at /\ g.env = s.env /\ g.field = s.field /\ g.ret = s.ret
  BY <1>2, ResultSource
<1>4. /\ b \in Nat /\ b <= n /\ d \in Reg /\ w \in Val /\ e = Put(m, d, w)
      /\ OpReg(q, b + 1, b + 1) = d
      /\ \A v \in 1 .. b : OpReg(q, b + 1, v) = OpReg(p, n, v)
      /\ SameArgs(todo, u) /\ y = vars
  BY <1>1, <1>2 DEF Result, SameScope
<1>5. /\ e.at = m.at /\ e.ret = m.ret /\ e.field = m.field /\ e.locals = m.locals
      /\ ~Running(m) => e = m
      /\ Running(m) => e.regs[d] = w /\ \A r \in Reg \ {d} : e.regs[r] = m.regs[r]
  BY <1>4, StepsFacts, CoreFacts, PutFacts
<1>6. m.regs[d] = w => \A r \in Reg : e.regs[r] = m.regs[r]
  BY <1>5
<1>7. p \in RegState /\ n <= Len(p.rstack) /\ Alloc(p, n, todo) /\ p.used \subseteq Reg
  BY <1>1, StepsFacts, LiveFacts DEF RegState
<1>8. \A v \in 1 .. b : e.regs[OpReg(p, n, v)] = m.regs[OpReg(p, n, v)]
  <2>1. SUFFICES ASSUME NEW v \in 1 .. b PROVE e.regs[OpReg(p, n, v)] = m.regs[OpReg(p, n, v)]
    OBVIOUS
  <2>2. v \in 1 .. n
    BY <1>4
  <2>3. OpReg(p, n, v) \in Reg
    BY <2>2, <1>7 DEF Alloc
  <2>4. CASE m.regs[d] = w
    BY <2>3, <2>4, <1>6
  <2>5. CASE Alone(b, d)
    <3>1. OpReg(p, n, v) # d
      BY <2>5, <1>2, <1>4 DEF Alone
    <3> QED BY <3>1, <2>3, <1>5
  <2> QED BY <2>4, <2>5
<1>9. \A i \in DOMAIN u : \A k \in DOMAIN u[i].params :
         e.regs[u[i].params[k].reg] = m.regs[u[i].params[k].reg]
  <2>1. SUFFICES ASSUME NEW i \in DOMAIN u, NEW k \in DOMAIN u[i].params
                 PROVE  e.regs[u[i].params[k].reg] = m.regs[u[i].params[k].reg]
    OBVIOUS
  <2>2. i \in DOMAIN todo /\ u[i].params = todo[i].params
    BY <2>1, <1>4, NoArgs DEF SameArgs
  <2>3. u[i].params[k].reg \in Reg
    BY <2>1, <2>2, <1>7 DEF Alloc
  <2>4. CASE m.regs[d] = w
    BY <2>3, <2>4, <1>6
  <2>5. CASE Alone(b, d)
    <3>1. u[i].params[k].reg # d
      BY <2>1, <2>5, <1>2 DEF Alone
    <3> QED BY <3>1, <2>3, <1>5
  <2> QED BY <2>4, <2>5
<1>10. OperandsAgree(q, e, g)
  <2>1. SUFFICES ASSUME NEW v \in DOMAIN g.vals
                 PROVE  g.vals[v] = Unknown \/ e.regs[OpReg(q, b + 1, v)] = g.vals[v]
    BY <1>3 DEF OperandsAgree
  <2>2. CASE v = b + 1
    BY <2>2, <1>3, <1>4, <1>5, StepsFacts
  <2>3. CASE v # b + 1
    <3>1. v \in 1 .. b
      BY <2>1, <2>3, <1>3, <1>4
    <3>2. s.vals[v] = Unknown \/ m.regs[OpReg(p, n, v)] = s.vals[v]
      BY <3>1, <1>1, <1>3, StepsFacts DEF OperandsAgree
    <3> QED BY <3>1, <3>2, <1>3, <1>4, <1>8
  <2> QED BY <2>2, <2>3
<1>11. ArgsAgree(e, u)
  <2>1. SUFFICES ASSUME NEW i \in DOMAIN u, NEW k \in DOMAIN u[i].params
                 PROVE  \/ u[i].params[k].val = Unknown
                        \/ e.regs[u[i].params[k].reg] = u[i].params[k].val
    BY DEF ArgsAgree
  <2>2. i \in DOMAIN todo /\ u[i].params = todo[i].params
    BY <2>1, <1>4, NoArgs DEF SameArgs
  <2>3. u[i].params[k].val = Unknown \/ m.regs[u[i].params[k].reg] = u[i].params[k].val
    BY <2>1, <2>2, StepsFacts DEF ArgsAgree
  <2> QED BY <2>3, <1>9
<1>12. NamesAgree(e, g, y)
  BY <1>3, <1>4, <1>5, StepsFacts DEF NamesAgree
<1>13. Followed(q, e, g, u, y)
  BY <1>3, <1>5, <1>10, <1>11, <1>12, StepsFacts DEF Followed
<1> QED BY <1>2, <1>13

(* A register that caches no local serves one operand. *)
LEMMA ResultAlone ==
  ASSUME Steps, NEW b, NEW d, NEW w, NEW a, Result(b, d, w, a), d \notin Cached(p')
  PROVE  Alone(b, d)
<1>1. PICK k : k = b + 1
  OBVIOUS
<1>2. PICK q, u : q = p' /\ u = todo'
  OBVIOUS
<1>3. b \in Nat /\ Len(s'.vals) = k /\ OpReg(q, k, k) = d
  BY <1>1, <1>2, ResultSource DEF Result
<1>4. Alloc(q, k, u)
  <2>1. Alloc(p', Len(s'.vals), todo')
    BY StepsFacts DEF RegInv, Regs
  <2> QED BY <2>1, <1>2, <1>3
<1>5. k \in 1 .. k /\ d \notin Cached(q) /\ \A v \in 1 .. b : v \in 1 .. k /\ v # k
  BY <1>1, <1>2, <1>3
<1>6. \A v \in 1 .. b : OpReg(q, k, v) # d
  BY <1>3, <1>4, <1>5 DEF Alloc
<1>7. \A i \in DOMAIN u : \A j \in DOMAIN u[i].params : u[i].params[j].reg # d
  BY <1>3, <1>4, <1>5 DEF Alloc
<1> QED BY <1>1, <1>2, <1>6, <1>7 DEF Alone

(* The same locals are cached, or the one whose value register d is given. *)
Recaches(d, w) ==
  \A l \in DOMAIN p'.cache : p'.cache[l] # NoReg =>
    \/ l \in DOMAIN p.cache /\ p'.cache[l] = p.cache[l] /\ (p.cache[l] # d \/ m.regs[d] = w)
    \/ l - 1 \in 0 .. placed - 1 /\ l \in Nat /\ p'.cache[l] = d /\ w = m.locals[l - 1]

LEMMA ResultFaithful ==
  ASSUME Steps, NEW b, NEW d, NEW w, NEW a, Result(b, d, w, a), Recaches(d, w)
  PROVE  Faithful(p', m', placed')
<1>1. PICK q, e : q = p' /\ e = m'
  OBVIOUS
<1>2. e = Put(m, d, w) /\ d \in Reg /\ w \in Val /\ placed' = placed
  BY <1>1 DEF Result, SameScope
<1>3. /\ e.at = m.at /\ e.locals = m.locals
      /\ ~Running(m) => e = m
      /\ Running(m) => e.regs[d] = w /\ \A r \in Reg \ {d} : e.regs[r] = m.regs[r]
  BY <1>2, StepsFacts, CoreFacts, PutFacts
<1>4. SUFFICES ASSUME NEW l \in DOMAIN q.cache, q.cache[l] # NoReg
               PROVE  l <= placed /\ (e.at = Run => e.regs[q.cache[l]] = e.locals[l - 1])
  BY <1>1, <1>2 DEF Faithful
<1>5. \/ l \in DOMAIN p.cache /\ q.cache[l] = p.cache[l] /\ (p.cache[l] # d \/ m.regs[d] = w)
      \/ l - 1 \in 0 .. placed - 1 /\ l \in Nat /\ q.cache[l] = d /\ w = m.locals[l - 1]
  BY <1>1, <1>4 DEF Recaches
<1>6. CASE l \in DOMAIN p.cache /\ q.cache[l] = p.cache[l] /\ (p.cache[l] # d \/ m.regs[d] = w)
  <2>1. l <= placed /\ (m.at = Run => m.regs[p.cache[l]] = m.locals[l - 1])
    BY <1>4, <1>6, StepsFacts DEF Faithful
  <2>2. p.cache[l] \in Reg
    BY <1>6, StepsFacts, CoreFacts, RegStateFacts
  <2> QED BY <2>1, <2>2, <1>3, <1>6 DEF Running
<1>7. CASE l - 1 \in 0 .. placed - 1 /\ l \in Nat /\ q.cache[l] = d /\ w = m.locals[l - 1]
  <2>1. l <= placed
    BY <1>7, StepsFacts, CoreFacts
  <2> QED BY <2>1, <1>3, <1>7 DEF Running
<1> QED BY <1>5, <1>6, <1>7

LEMMA OtherKept == \A e, t : LoadKept(e, Other) /\ Silent(e, t, Other)
BY DEF LoadKept, Silent, Other

LEMMA ValuesKept ==
  ASSUME Steps, Sourced(s', todo', need'), Followed(p', m', s', todo', vars'),
         Faithful(p', m', placed'), last' = Other
  PROVE  ValueInv'
BY OtherKept DEF ValueInv, Backed

LEMMA ResultSourced ==
  ASSUME Steps, NEW b, NEW d, NEW w, NEW a, Result(b, d, w, a),
         NEW c, c \in {Len(todo), Len(todo) - 1}, Shares(todo, todo', c), b = Upto(todo, c),
         c = Len(todo) \/ Top.k \notin LabelKinds
  PROVE  Sourced(s', todo', need')
<1>0. b \in Nat
  BY DEF Result
<1>1. /\ DOMAIN s'.vals = 1 .. b + 1 /\ b \in Nat
      /\ \A v \in 1 .. b : s'.vals[v] = s.vals[v]
      /\ s'.vals[b + 1] = IF Running(s) THEN w ELSE Unknown
      /\ s'.at = s.at /\ s'.env = s.env /\ w # Unknown
  BY <1>0, ResultSource
<1>2. \A v \in DOMAIN s'.vals : v <= Upto(todo, c) => s'.vals[v] = s.vals[v]
  BY <1>1
<1>3. Running(s) => \A v \in DOMAIN s'.vals : v > Upto(todo, c) => s'.vals[v] # Unknown
  <2>1. \A v \in DOMAIN s'.vals : v > Upto(todo, c) => v = b + 1
    BY <1>1
  <2> QED BY <2>1, <1>1
<1>4. Running(s) => \A i \in c + 1 .. Len(todo') : \A j \in DOMAIN todo'[i].params :
            todo'[i].params[j].val # Unknown
  <2>1. PICK u : u = todo'
    OBVIOUS
  <2>2. SUFFICES ASSUME Running(s), NEW i \in c + 1 .. Len(u), NEW j \in DOMAIN u[i].params
                 PROVE  u[i].params[j].val # Unknown
    BY <2>1
  <2>3. DOMAIN u = 1 .. Len(u) /\ c \in Nat
    BY <2>1, LenProperties DEF Shares
  <2>4. i \in DOMAIN todo /\ u[i].params = todo[i].params
    <3>1. i \in DOMAIN u
      BY <2>2, <2>3
    <3> QED BY <3>1, <2>1, <2>2, NoArgs DEF Result, SameArgs
  <2> QED BY <2>2, <2>4, StepsFacts DEF KnownArgs
<1> QED BY <1>1, <1>2, <1>3, <1>4, SourceStep

LEMMA ResultValues ==
  ASSUME Steps, NEW b, NEW d, NEW w, NEW a, Result(b, d, w, a),
         d \notin Cached(p') \/ m.regs[d] = w, p'.cache = p.cache, last' = Other,
         NEW c, c \in {Len(todo), Len(todo) - 1}, Shares(todo, todo', c), b = Upto(todo, c),
         c = Len(todo) \/ Top.k \notin LabelKinds
  PROVE  ValueInv'
<1>1. Sourced(s', todo', need')
  BY ResultSourced
<1>2. Followed(p', m', s', todo', vars')
  BY ResultAlone, ResultFollowed
<1>3. Recaches(d, w)
  <2>1. SUFFICES ASSUME NEW l \in DOMAIN p'.cache, p'.cache[l] # NoReg
                 PROVE  l \in DOMAIN p.cache /\ p'.cache[l] = p.cache[l] /\ (p.cache[l] # d \/ m.regs[d] = w)
    BY DEF Recaches
  <2>2. p'.cache[l] \in Cached(p')
    BY <2>1 DEF Cached
  <2> QED BY <2>1, <2>2
<1>4. Faithful(p', m', placed')
  BY <1>3, ResultFaithful
<1> QED BY <1>1, <1>2, <1>4, ValuesKept

-----------------------------------------------------------------------------
(* What the operations do to the cache.                                    *)

LEMMA CacheSame ==
  ASSUME NEW q, "cache" \in DOMAIN q
  PROVE  /\ \A d : SetUnused(q, d).cache = q.cache /\ "cache" \in DOMAIN SetUnused(q, d)
         /\ NewReg(q).cache = q.cache /\ "cache" \in DOMAIN NewReg(q)
         /\ PopReg(q).cache = q.cache /\ "cache" \in DOMAIN PopReg(q)
         /\ SwapTop(q).cache = q.cache /\ "cache" \in DOMAIN SwapTop(q)
         /\ TakeTop(q).cache = q.cache
         /\ \A R : Release(q, R).cache = q.cache
         /\ \A os : SetAllUnused(q, os).cache = q.cache /\ "cache" \in DOMAIN SetAllUnused(q, os)
BY DEF SetUnused, NewReg, PushReg, PopReg, SwapTop, TakeTop, Release, SetAllUnused

LEMMA CacheThere == \A q \in RegState : "cache" \in DOMAIN q
BY DEF RegState

(* Constructs as they begin. *)
LEMMA Plain ==
  \A k : /\ Item(k).params = <<>> /\ Item(k).k = k /\ Item(k).op = 0
         /\ \A d : [Item(k) EXCEPT !.reg = d].params = <<>> /\ [Item(k) EXCEPT !.reg = d].k = k
         /\ \A d : [Item(k) EXCEPT !.x = d].params = <<>> /\ [Item(k) EXCEPT !.x = d].k = k
         /\ \A a, d, e : LET o == [Item(k) EXCEPT !.op = a, !.reg = d, !.x = e]
                         IN  o.params = <<>> /\ o.k = k
BY DEF Item

(* A register just taken caches nothing. *)
LEMMA FreshNew ==
  ASSUME NEW q, NEW n, NEW t, NEW r, q \in RegState, n \in Nat, Alloc(q, n, t), ~q.full,
         r = NewReg(q), ~r.full
  PROVE  /\ Stepped(q, n, t, r, n + 1, n) /\ r.cache = q.cache
         /\ OpReg(r, n + 1, n + 1) = Dest(r) /\ Dest(r) \in Reg /\ Dest(r) \notin Cached(r)
<1>1. /\ Stepped(q, n, t, r, n + 1, n)
      /\ OpReg(r, n + 1, n + 1) = Dest(r) /\ Dest(r) \in Reg \ q.used /\ Dest(r) \notin Cached(q)
  BY AllocNew
<1>2. r.cache = q.cache
  BY CacheSame, CacheThere
<1> QED BY <1>1, <1>2 DEF Stepped

LEMMA FreshApply1 ==
  ASSUME NEW q, NEW n, NEW t, NEW r, q \in RegState, n \in Nat \ {0}, Alloc(q, n, t), ~q.full,
         r = Apply1(q), ~r.full
  PROVE  /\ Stepped(q, n, t, r, n, n - 1) /\ r.cache = q.cache
         /\ OpReg(r, n, n) = Dest(r) /\ Dest(r) \in Reg /\ Dest(r) \notin Cached(r)
<1>1. PICK y : y = PopReg(q)
  OBVIOUS
<1>2. Stepped(q, n, t, y, n - 1, n - 1) /\ n - 1 \in Nat /\ y.full = q.full
  BY <1>1, AllocPopped
<1>3. y \in RegState /\ Alloc(y, n - 1, t) /\ Cached(y) = Cached(q)
  BY <1>2 DEF Stepped
<1>4. r = NewReg(y)
  BY <1>1 DEF Apply1
<1>5. PICK k \in Nat : k = n - 1 /\ k + 1 = n
  BY <1>2
<1>6. /\ r.cache = y.cache /\ OpReg(r, k + 1, k + 1) = Dest(r) /\ Dest(r) \in Reg
      /\ Dest(r) \notin Cached(r)
  BY <1>2, <1>3, <1>4, <1>5, FreshNew
<1>7. y.cache = q.cache
  BY <1>1, CacheSame, CacheThere
<1> QED BY <1>5, <1>6, <1>7, AllocApply1

LEMMA FreshApply2 ==
  ASSUME NEW q, NEW n, NEW t, NEW r, q \in RegState, n \in Nat, n > 1, Alloc(q, n, t), ~q.full,
         r = Apply2(q), ~r.full
  PROVE  /\ Stepped(q, n, t, r, n - 1, n - 2) /\ r.cache = q.cache
         /\ OpReg(r, n - 1, n - 1) = Dest(r) /\ Dest(r) \in Reg /\ Dest(r) \notin Cached(r)
<1>1. PICK y : y = PopReg(q)
  OBVIOUS
<1>2. PICK k \in Nat \ {0} : k = n - 1 /\ k - 1 = n - 2
  BY DEF Stepped
<1>3. Stepped(q, n, t, y, k, k) /\ y.full = q.full
  BY <1>1, <1>2, AllocPopped
<1>4. y \in RegState /\ Alloc(y, k, t)
  BY <1>3 DEF Stepped
<1>5. r = Apply1(y)
  BY <1>1 DEF Apply1, Apply2
<1>6. /\ r.cache = y.cache /\ OpReg(r, k, k) = Dest(r) /\ Dest(r) \in Reg
      /\ Dest(r) \notin Cached(r)
  BY <1>3, <1>4, <1>5, FreshApply1
<1>7. y.cache = q.cache
  BY <1>1, CacheSame, CacheThere
<1> QED BY <1>2, <1>6, <1>7, AllocApply2

-----------------------------------------------------------------------------
(* The values, action by action: what a register is given.                 *)

LEMMA SameArgsFacts ==
  ASSUME NEW t, NEW u
  PROVE  /\ t = u => SameArgs(t, u)
         /\ \A c : Shares(t, u, c) /\ (\A i \in c + 1 .. Len(u) :
                     u[i].params = <<>> \/ (i \in DOMAIN t /\ u[i].params = t[i].params))
                   => SameArgs(t, u)
<1>1. t = u => SameArgs(t, u)
  BY NoArgs DEF SameArgs
<1>2. ASSUME NEW c, Shares(t, u, c), \A i \in c + 1 .. Len(u) :
                     u[i].params = <<>> \/ (i \in DOMAIN t /\ u[i].params = t[i].params)
      PROVE  SameArgs(t, u)
  <2>1. SUFFICES ASSUME NEW i \in DOMAIN u, u[i].params # <<>>
                 PROVE  i \in DOMAIN t /\ u[i].params = t[i].params
    BY DEF SameArgs
  <2>2. /\ DOMAIN t = 1 .. Len(t) /\ DOMAIN u = 1 .. Len(u) /\ c \in Nat /\ Len(u) \in Nat
        /\ Len(t) \in Nat /\ c <= Len(t) /\ \A j \in 1 .. c : u[j] = t[j]
    BY <1>2, LenProperties DEF Shares
  <2>3. CASE i <= c
    BY <2>1, <2>2, <2>3
  <2>4. CASE ~(i <= c)
    <3>1. i \in c + 1 .. Len(u)
      BY <2>1, <2>2, <2>4
    <3> QED BY <3>1, <2>1, <1>2
  <2> QED BY <2>3, <2>4
<1> QED BY <1>1, <1>2

(* A value that takes a new register. *)
LEMMA NewValueValues ==
  ASSUME Steps, need = "value", p' = NewReg(p), NEW w \in Val, NEW a \in SVal, Running(s) => a = w,
         m' = Put(m, Dest(p'), w), s' = Yield(s, 0, a), SameScope, last' = Other,
         Shares(todo, todo', Len(todo)), SameArgs(todo, todo')
  PROVE  ValueInv'
<1>1. PICK n \in Nat : n = Len(s.vals)
  BY StepsFacts, CoreFacts
<1>2. PICK d : d = Dest(p')
  OBVIOUS
<1>3. PICK q : q = p'
  OBVIOUS
<1>4. p \in RegState /\ Alloc(p, n, todo) /\ ~p.full /\ q = NewReg(p) /\ ~q.full
  BY <1>1, <1>3, StepsFacts, LiveFacts
<1>5. /\ \A v \in 1 .. n : OpReg(q, n + 1, v) = OpReg(p, n, v)
      /\ q.cache = p.cache /\ OpReg(q, n + 1, n + 1) = d /\ d \in Reg /\ d \notin Cached(q)
  <2>1. d = Dest(q)
    BY <1>2, <1>3
  <2>2. /\ Stepped(p, n, todo, q, n + 1, n) /\ q.cache = p.cache
        /\ OpReg(q, n + 1, n + 1) = Dest(q) /\ Dest(q) \in Reg /\ Dest(q) \notin Cached(q)
    BY <1>4, FreshNew
  <2> QED BY <2>1, <2>2 DEF Stepped
<1>6. s' = Yield(s, n - n, a)
  <2>1. n - n = 0
    OBVIOUS
  <2> QED BY <2>1
<1>7. Result(n, d, w, a)
  BY <1>1, <1>2, <1>3, <1>5, <1>6 DEF Result
<1>8. n = Upto(todo, Len(todo))
  <2>1. n = Upto(todo, Len(todo)) + 0 /\ Upto(todo, Len(todo)) \in Nat
    BY <1>1, StepsFacts, CoreFacts, ReadyFacts
  <2> QED BY <2>1
<1> QED BY <1>3, <1>5, <1>7, <1>8, ResultValues

LEMMA LiteralValues ==
  ASSUME Steps, NEW v \in Literals, Literal(v)
  PROVE  ValueInv'
<1>1. /\ need = "value" /\ p' = NewReg(p) /\ m' = Put(m, Dest(p'), v) /\ s' = Yield(s, 0, v)
      /\ SameScope /\ last' = Other /\ todo' = todo
  BY ReadsFacts DEF Literal, Go
<1>2. v \in Val /\ v \in SVal
  BY CompileAssumption, ValueFacts
<1>3. Shares(todo, todo', Len(todo)) /\ SameArgs(todo, todo')
  BY <1>1, StepsFacts, TodoShares, SameArgsFacts
<1> QED BY <1>1, <1>2, <1>3, NewValueValues

LEMMA FieldValues ==
  ASSUME Steps, Field
  PROVE  ValueInv'
<1>1. /\ need = "value" /\ p' = NewReg(p) /\ m' = Put(m, Dest(p'), m.field)
      /\ s' = Yield(s, 0, s.field) /\ SameScope /\ last' = Other /\ todo' = todo
  BY ReadsFacts DEF Field, Go
<1>2. m.field \in Val /\ s.field \in SVal /\ m.field = s.field
  BY StepsFacts, CoreFacts, MachineFacts, SourceFacts
<1>3. Shares(todo, todo', Len(todo)) /\ SameArgs(todo, todo')
  BY <1>1, StepsFacts, TodoShares, SameArgsFacts
<1> QED BY <1>1, <1>2, <1>3, NewValueValues

LEMMA ArrayValues ==
  ASSUME Steps, Array
  PROVE  ValueInv'
<1>1. PICK o : o = [Item("array") EXCEPT !.reg = Dest(p')]
  OBVIOUS
<1>2. /\ need = "value" /\ p' = NewReg(p) /\ m' = Put(m, Dest(p'), 0) /\ s' = Yield(s, 0, 0)
      /\ SameScope /\ last' = Other /\ todo' = todo \o <<o, Item("expr")>>
  BY <1>1, ReadsFacts DEF Array, Go, Open
<1>3. 0 \in Val /\ 0 \in SVal
  BY ValueFacts
<1>4. PICK h \in Nat : h = Len(todo)
  BY StepsFacts, CoreFacts
<1>5. /\ Shares(todo, todo', h) /\ Len(todo') = h + 2
      /\ todo'[h + 1] = o /\ todo'[h + 2] = Item("expr")
  BY <1>2, <1>4, StepsFacts, OpenShares
<1>6. o.params = <<>> /\ Item("expr").params = <<>>
  BY <1>1, Plain
<1>7. SameArgs(todo, todo')
  <2>1. \A i \in h + 1 .. Len(todo') : i = h + 1 \/ i = h + 2
    BY <1>5
  <2>2. \A i \in h + 1 .. Len(todo') : todo'[i].params = <<>>
    BY <2>1, <1>5, <1>6
  <2> QED BY <2>2, <1>5, SameArgsFacts
<1> QED BY <1>2, <1>3, <1>4, <1>5, <1>7, NewValueValues

-----------------------------------------------------------------------------
(* The values, action by action: what computes nothing.                    *)

(* The first k operands stay, with what is cached; an operand that goes may become *)
(* an argument of the construct that is innermost then.                            *)
Rests(k, c) ==
  /\ c \in {Len(todo), Len(todo) - 1} /\ Shares(todo, todo', c)
  /\ c = Len(todo) \/ Top.k \notin LabelKinds
  /\ m' = m /\ SameScope
  /\ s'.at = s.at /\ s'.env = s.env /\ s'.field = s.field /\ s'.ret = s.ret
  /\ k \in Nat /\ k <= Len(s.vals) /\ Len(s'.vals) = k
  /\ \A v \in 1 .. k : s'.vals[v] = s.vals[v] /\ OpReg(p', k, v) = OpReg(p, Len(s.vals), v)
  /\ \A l \in DOMAIN p'.cache : p'.cache[l] # NoReg => l \in DOMAIN p.cache /\ p'.cache[l] = p.cache[l]
  /\ last' \in {last, Other}
  /\ \A i \in c + 1 .. Len(todo') : todo'[i].k # "then"
  /\ Dropped(todo, need) /\ k = Len(s.vals) => k = 0 \/ Dropped(todo', need')
  /\ \A i \in c + 1 .. Len(todo') : \A j \in DOMAIN todo'[i].params :
       \/ /\ i \in DOMAIN todo /\ j \in DOMAIN todo[i].params
          /\ todo'[i].params[j] = todo[i].params[j]
       \/ /\ Ready(need) = 1 /\ ~Dropped(todo, need)
          /\ todo'[i].params[j].reg = OpReg(p, Len(s.vals), Len(s.vals))
          /\ todo'[i].params[j].val = s.vals[Len(s.vals)]

(* The operand that is complete. *)
LEMMA ReadyKnown ==
  ASSUME Steps, Ready(need) = 1, ~Dropped(todo, need), NEW n, n = Len(s.vals)
  PROVE  /\ n \in 1 .. n /\ s.vals[n] \in SVal
         /\ s.vals[n] = Unknown \/ m.regs[OpReg(p, n, n)] = s.vals[n]
         /\ Running(s) => s.vals[n] # Unknown
<1>1. /\ n \in Nat /\ n = Upto(todo, Len(todo)) + 1 /\ Upto(todo, Len(todo)) \in Nat
      /\ Reading(s, vars) /\ todo \in Seq(ItemSet) /\ Len(todo) \in Nat \ {0}
      /\ DOMAIN todo = 1 .. Len(todo)
  BY StepsFacts, CoreFacts
<1>2. n \in 1 .. n /\ DOMAIN s.vals = 1 .. n /\ s.vals[n] \in SVal
  <2>1. n \in 1 .. n
    BY <1>1
  <2>2. DOMAIN s.vals = 1 .. n /\ \A i \in 1 .. n : s.vals[i] \in SVal
    BY <1>1, SourceFacts
  <2> QED BY <2>1, <2>2
<1>3. s.vals[n] = Unknown \/ m.regs[OpReg(p, n, n)] = s.vals[n]
  BY <1>2, StepsFacts DEF OperandsAgree
<1>4. ~Tested(todo, n)
  <2>1. SUFFICES ASSUME NEW i \in DOMAIN todo, n = Upto(todo, i) PROVE FALSE
    BY DEF Tested
  <2>2. i \in 0 .. Len(todo) /\ Len(todo) \in 0 .. Len(todo) /\ i <= Len(todo)
    BY <2>1, <1>1
  <2>3. Upto(todo, i) <= Upto(todo, Len(todo))
    BY <2>2, <1>1, UptoOrder
  <2> QED BY <2>1, <2>3, <1>1
<1>5. Running(s) => s.vals[n] # Unknown
  BY <1>2, <1>4, StepsFacts DEF KnownOperands
<1> QED BY <1>2, <1>3, <1>5

LEMMA RestsSourced ==
  ASSUME Steps, NEW k, NEW c, Rests(k, c)
  PROVE  Sourced(s', todo', need')
<1>1. PICK u, g, y : u = todo' /\ g = s' /\ y = need'
  OBVIOUS
<1>2. /\ Reading(s, vars) /\ Len(s.vals) \in Nat /\ DOMAIN s.vals = 1 .. Len(s.vals)
      /\ DOMAIN g.vals = 1 .. Len(g.vals) /\ DOMAIN todo = 1 .. Len(todo) /\ Len(todo) \in Nat \ {0}
  <2>1. Reading(g, vars')
    BY <1>1, StepsFacts DEF CoreInv, TypeInv
  <2> QED BY <2>1, StepsFacts, CoreFacts, SourceFacts
<1>3. /\ c \in {Len(todo), Len(todo) - 1} /\ Shares(todo, u, c)
      /\ c = Len(todo) \/ Top.k \notin LabelKinds
      /\ g.at = s.at /\ g.env = s.env /\ k \in Nat /\ k <= Len(s.vals) /\ Len(g.vals) = k
      /\ \A v \in 1 .. k : g.vals[v] = s.vals[v]
      /\ Dropped(todo, need) /\ k = Len(s.vals) => k = 0 \/ Dropped(u, y)
  BY <1>1 DEF Rests
<1>4. DOMAIN g.vals = 1 .. k
  BY <1>2, <1>3
<1>5. c \in Nat /\ Upto(todo, c) \in Nat /\ Upto(todo, c) <= Len(s.vals)
      /\ Len(s.vals) = Upto(todo, Len(todo)) + Ready(need)
      /\ todo \in Seq(ItemSet)
  BY <1>3, StepsFacts, CoreFacts, Waiting
<1>6. Running(s) => \A v \in DOMAIN g.vals :
            v > Upto(todo, c) /\ g.vals[v] = Unknown =>
              Tested(u, v) \/ (v = Len(g.vals) /\ Dropped(u, y))
  <2>1. SUFFICES ASSUME Running(s), NEW v \in 1 .. k, v > Upto(todo, c), g.vals[v] = Unknown
                 PROVE  v = Len(g.vals) /\ Dropped(u, y)
    BY <1>4
  <2>2. v \in DOMAIN s.vals /\ s.vals[v] = Unknown
    BY <2>1, <1>2, <1>3
  <2>3. Tested(todo, v) \/ (v = Len(s.vals) /\ Dropped(todo, need))
    BY <2>1, <2>2, StepsFacts DEF KnownOperands
  <2>4. ~Tested(todo, v)
    <3>1. SUFFICES ASSUME NEW i \in DOMAIN todo, todo[i].k \in LogicalKinds, v = Upto(todo, i) PROVE FALSE
      BY DEF Tested
    <3>2. i \in 1 .. Len(todo) /\ i \in 0 .. Len(todo) /\ c \in 0 .. Len(todo)
      BY <3>1, <1>2, <1>3
    <3>3. i > c
      <4>1. i <= c => Upto(todo, i) <= Upto(todo, c) /\ Upto(todo, i) \in Nat
        BY <3>2, <1>5, UptoOrder
      <4> QED BY <4>1, <3>1, <3>2, <2>1, <1>5
    <3>4. i = Len(todo) /\ c # Len(todo)
      <4>1. PICK x \in Nat : x = Len(todo)
        BY <1>2
      <4>2. i \in 1 .. x /\ i > c /\ (c = x \/ c = x - 1)
        BY <4>1, <3>2, <3>3, <1>3
      <4> QED BY <4>1, <4>2
    <3>5. Top = todo[i]
      BY <3>4 DEF Top
    <3> QED BY <3>1, <3>4, <3>5, <1>3, KindFacts
  <2> QED BY <2>1, <2>3, <2>4, <1>3
<1>7. Running(s) => \A i \in c + 1 .. Len(u) : \A j \in DOMAIN u[i].params : u[i].params[j].val # Unknown
  <2>1. SUFFICES ASSUME Running(s), NEW i \in c + 1 .. Len(u), NEW j \in DOMAIN u[i].params
                 PROVE  u[i].params[j].val # Unknown
    OBVIOUS
  <2>2. CASE /\ i \in DOMAIN todo /\ j \in DOMAIN todo[i].params
             /\ u[i].params[j] = todo[i].params[j]
    BY <2>1, <2>2, StepsFacts DEF KnownArgs
  <2>3. CASE Ready(need) = 1 /\ ~Dropped(todo, need) /\ u[i].params[j].val = s.vals[Len(s.vals)]
    BY <2>1, <2>3, ReadyKnown
  <2> QED BY <2>1, <2>2, <2>3, <1>1 DEF Rests
<1>8. \A v \in DOMAIN g.vals : v <= Upto(todo, c) => g.vals[v] = s.vals[v]
  BY <1>3, <1>4
<1> QED BY <1>1, <1>3, <1>6, <1>7, <1>8, SourceStep

LEMMA RestsFollowed ==
  ASSUME Steps, NEW k, NEW c, Rests(k, c)
  PROVE  Followed(p', m', s', todo', vars')
<1>1. PICK q, e, g, u, y : q = p' /\ e = m' /\ g = s' /\ u = todo' /\ y = vars'
  OBVIOUS
<1>2. /\ Shares(todo, u, c) /\ e = m /\ y = vars
      /\ g.at = s.at /\ g.env = s.env /\ g.field = s.field /\ g.ret = s.ret
      /\ k \in Nat /\ k <= Len(s.vals) /\ Len(g.vals) = k
      /\ \A v \in 1 .. k : g.vals[v] = s.vals[v] /\ OpReg(q, k, v) = OpReg(p, Len(s.vals), v)
  BY <1>1 DEF Rests, SameScope
<1>3. Len(s.vals) \in Nat /\ DOMAIN s.vals = 1 .. Len(s.vals) /\ DOMAIN g.vals = 1 .. k
  <2>1. Reading(g, vars') /\ Reading(s, vars)
    BY <1>1, StepsFacts, CoreFacts DEF CoreInv, TypeInv
  <2> QED BY <2>1, <1>2, SourceFacts
<1>4. OperandsAgree(q, e, g)
  <2>1. SUFFICES ASSUME NEW v \in 1 .. k
                 PROVE  g.vals[v] = Unknown \/ e.regs[OpReg(q, k, v)] = g.vals[v]
    BY <1>2, <1>3 DEF OperandsAgree
  <2>2. v \in DOMAIN s.vals
    BY <1>2, <1>3
  <2>3. s.vals[v] = Unknown \/ m.regs[OpReg(p, Len(s.vals), v)] = s.vals[v]
    BY <2>2, StepsFacts DEF OperandsAgree
  <2> QED BY <2>3, <1>2
<1>5. ArgsAgree(e, u)
  <2>1. SUFFICES ASSUME NEW i \in DOMAIN u, NEW j \in DOMAIN u[i].params
                 PROVE  \/ u[i].params[j].val = Unknown
                        \/ m.regs[u[i].params[j].reg] = u[i].params[j].val
    BY <1>2 DEF ArgsAgree
  <2>2. /\ DOMAIN u = 1 .. Len(u) /\ c \in Nat /\ Len(u) \in Nat /\ DOMAIN todo = 1 .. Len(todo)
        /\ Len(todo) \in Nat /\ c <= Len(todo) /\ \A x \in 1 .. c : u[x] = todo[x]
    BY <1>2, LenProperties DEF Shares
  <2>3. CASE /\ i \in DOMAIN todo /\ j \in DOMAIN todo[i].params
             /\ u[i].params[j] = todo[i].params[j]
    BY <2>1, <2>3, StepsFacts DEF ArgsAgree
  <2>4. CASE i <= c
    <3>1. i \in DOMAIN todo /\ u[i] = todo[i]
      BY <2>1, <2>2, <2>4
    <3> QED BY <3>1, <2>1, <2>3
  <2>5. CASE ~(i <= c)
    <3>1. i \in c + 1 .. Len(u)
      BY <2>1, <2>2, <2>5
    <3>2. CASE /\ Ready(need) = 1 /\ ~Dropped(todo, need)
               /\ u[i].params[j].reg = OpReg(p, Len(s.vals), Len(s.vals))
               /\ u[i].params[j].val = s.vals[Len(s.vals)]
      BY <3>2, ReadyKnown
    <3> QED BY <3>1, <3>2, <2>1, <2>3, <1>1 DEF Rests
  <2> QED BY <2>4, <2>5
<1>6. NamesAgree(e, g, y)
  BY <1>2, StepsFacts DEF NamesAgree
<1>7. Followed(q, e, g, u, y)
  BY <1>2, <1>4, <1>5, <1>6, StepsFacts DEF Followed
<1> QED BY <1>1, <1>7

LEMMA RestsValues ==
  ASSUME Steps, NEW k, NEW c, Rests(k, c)
  PROVE  ValueInv'
<1>1. Sourced(s', todo', need') /\ Followed(p', m', s', todo', vars')
  BY RestsSourced, RestsFollowed
<1>2. /\ m' = m /\ placed' = placed /\ last' \in {last, Other} /\ Shares(todo, todo', c)
      /\ \A l \in DOMAIN p'.cache : p'.cache[l] # NoReg => l \in DOMAIN p.cache /\ p'.cache[l] = p.cache[l]
      /\ \A i \in c + 1 .. Len(todo') : todo'[i].k # "then"
  BY DEF Rests, SameScope
<1>3. Faithful(p', m', placed')
  BY <1>2, StepsFacts DEF Faithful
<1>4. LoadKept(m', last') /\ Silent(m', todo', last')
  <2>1. CASE last' = Other
    BY <2>1, OtherKept
  <2>2. CASE last' = last
    <3>1. LoadKept(m', last')
      BY <2>2, <1>2, StepsFacts
    <3>2. Silent(m', todo', last')
      <4>1. PICK u : u = todo'
        OBVIOUS
      <4>2. SUFFICES ASSUME last.op = "ret", last.depth \in DOMAIN u, u[last.depth].k = "then"
                     PROVE  m.at # Run /\ m.at.pos <= last.depth
        BY <4>1, <2>2, <1>2 DEF Silent
      <4>3. /\ DOMAIN u = 1 .. Len(u) /\ c \in Nat /\ Len(u) \in Nat /\ DOMAIN todo = 1 .. Len(todo)
            /\ Len(todo) \in Nat /\ c <= Len(todo) /\ \A x \in 1 .. c : u[x] = todo[x]
        BY <4>1, <1>2, LenProperties DEF Shares
      <4>4. last.depth \in 1 .. c
        BY <4>1, <4>2, <4>3, <1>2
      <4>5. last.depth \in DOMAIN todo /\ todo[last.depth].k = "then"
        BY <4>2, <4>3, <4>4
      <4> QED BY <4>2, <4>5, StepsFacts DEF Silent
    <3> QED BY <3>1, <3>2
  <2> QED BY <2>1, <2>2, <1>2
<1> QED BY <1>1, <1>3, <1>4 DEF ValueInv, Backed

LEMMA NotDropped ==
  ASSUME CoreInv, need \notin {"closed", "done"} \/ (need = "done" /\ Top.k # "effect")
                    \/ (need = "closed" /\ Top.op = 1)
  PROVE  ~Dropped(todo, need)
BY CoreFacts DEF Dropped

(* Constructs come and go. *)
LEMMA SameValues ==
  ASSUME Steps, NEW c, c \in {Len(todo), Len(todo) - 1}, Shares(todo, todo', c),
         c = Len(todo) \/ Top.k \notin LabelKinds,
         UNCHANGED <<m, s>>, SameScope, p' = p \/ p' = FlushCached(p), last' \in {last, Other},
         \A i \in c + 1 .. Len(todo') : todo'[i].k # "then" /\ todo'[i].params = <<>>,
         ~Dropped(todo, need) \/ Dropped(todo', need')
  PROVE  ValueInv'
<1>1. PICK n \in Nat : n = Len(s.vals)
  BY StepsFacts, CoreFacts
<1>2. PICK q : q = p'
  OBVIOUS
<1>3. p \in RegState /\ (q = p \/ q = FlushCached(p))
  BY <1>2, StepsFacts, CoreFacts
<1>4. /\ \A v \in 1 .. n : OpReg(q, n, v) = OpReg(p, n, v)
      /\ \A l \in DOMAIN q.cache : q.cache[l] # NoReg => l \in DOMAIN p.cache /\ q.cache[l] = p.cache[l]
  <2>1. CASE q = p
    BY <2>1
  <2>2. CASE q = FlushCached(p)
    <3>1. q.rstack = p.rstack /\ \A l \in DOMAIN q.cache : q.cache[l] = NoReg
      BY <2>2, <1>3, FlushFacts
    <3> QED BY <3>1 DEF OpReg
  <2> QED BY <2>1, <2>2, <1>3
<1>5. \A i \in c + 1 .. Len(todo') : todo'[i].k # "then" /\ DOMAIN todo'[i].params = {}
  BY NoArgs
<1>6. m' = m /\ s' = s
  OBVIOUS
<1>7. Rests(n, c)
  BY <1>1, <1>2, <1>4, <1>5, <1>6 DEF Rests
<1> QED BY <1>7, RestsValues

LEMMA OpenedValues ==
  ASSUME Steps, NEW o, NEW e, todo' = todo \o <<o, e>>, ~Dropped(todo, need),
         o.params = <<>>, e.params = <<>>, o.k # "then", e.k # "then",
         UNCHANGED <<m, s, last>>, SameScope, p' = p \/ p' = FlushCached(p)
  PROVE  ValueInv'
<1>1. PICK h \in Nat : h = Len(todo)
  BY StepsFacts, CoreFacts
<1>2. Shares(todo, todo', h) /\ Len(todo') = h + 2 /\ todo'[h + 1] = o /\ todo'[h + 2] = e
  BY <1>1, StepsFacts, OpenShares
<1>3. \A i \in h + 1 .. Len(todo') : todo'[i].k # "then" /\ todo'[i].params = <<>>
  <2>1. \A i \in h + 1 .. Len(todo') : i = h + 1 \/ i = h + 2
    BY <1>2
  <2> QED BY <2>1, <1>2
<1>4. m' = m /\ s' = s /\ last' = last
  OBVIOUS
<1>5. PICK c : c = h
  OBVIOUS
<1> QED BY <1>1, <1>2, <1>3, <1>4, <1>5, SameValues

LEMMA AppendedValues ==
  ASSUME Steps, NEW o, todo' = Append(todo, o), ~Dropped(todo, need), o.params = <<>>, o.k # "then",
         UNCHANGED <<p, m, s, last>>, SameScope
  PROVE  ValueInv'
<1>1. PICK h \in Nat : h = Len(todo)
  BY StepsFacts, CoreFacts
<1>2. Shares(todo, todo', h) /\ Len(todo') = h + 1 /\ todo'[h + 1] = o
  BY <1>1, StepsFacts, TodoShares
<1>3. \A i \in h + 1 .. Len(todo') : todo'[i].k # "then" /\ todo'[i].params = <<>>
  <2>1. \A i \in h + 1 .. Len(todo') : i = h + 1
    BY <1>2
  <2> QED BY <2>1, <1>2
<1>4. p' = p /\ m' = m /\ s' = s /\ last' = last
  OBVIOUS
<1> QED BY <1>1, <1>2, <1>3, <1>4, SameValues

LEMMA ClosedValues ==
  ASSUME Steps, todo' = Below, Top.k \notin LabelKinds, Top.k # "func",
         ~Dropped(todo, need) \/ Dropped(todo', need'),
         UNCHANGED <<p, m, s, last>>, SameScope
  PROVE  ValueInv'
<1>1. PICK h \in Nat : h = Len(todo)
  BY StepsFacts, CoreFacts
<1>2. Shares(todo, todo', h - 1) /\ Len(todo') = h - 1
  BY <1>1, StepsFacts, TodoShares
<1>3. PICK c \in Int : c = h - 1
  BY <1>1
<1>4. \A i \in c + 1 .. Len(todo') : FALSE
  BY <1>2, <1>3
<1>5. p' = p /\ m' = m /\ s' = s /\ last' = last
  OBVIOUS
<1> QED BY <1>1, <1>2, <1>3, <1>4, <1>5, SameValues

LEMMA SwappedValues ==
  ASSUME Steps, NEW o, todo' = Append(Below, o), Top.k \notin LabelKinds, ~Dropped(todo, need),
         o.params = <<>>, o.k # "then", UNCHANGED <<p, m, s, last>>, SameScope
  PROVE  ValueInv'
<1>1. PICK h \in Nat : h = Len(todo)
  BY StepsFacts, CoreFacts
<1>2. Shares(todo, todo', h - 1) /\ Len(todo') = h /\ todo'[h] = o
  BY <1>1, StepsFacts, TodoShares
<1>3. PICK c \in Int : c = h - 1
  BY <1>1
<1>4. \A i \in c + 1 .. Len(todo') : todo'[i].k # "then" /\ todo'[i].params = <<>>
  <2>1. \A i \in c + 1 .. Len(todo') : i = h
    BY <1>2, <1>3
  <2> QED BY <2>1, <1>2
<1>5. p' = p /\ m' = m /\ s' = s /\ last' = last
  OBVIOUS
<1> QED BY <1>1, <1>2, <1>3, <1>4, <1>5, SameValues

LEMMA ReopenedValues ==
  ASSUME Steps, NEW o, NEW e, todo' = Below \o <<o, e>>, Top.k \notin LabelKinds, ~Dropped(todo, need),
         o.params = <<>>, e.params = <<>>, o.k # "then", e.k # "then",
         UNCHANGED <<p, m, s, last>>, SameScope
  PROVE  ValueInv'
<1>1. PICK h \in Nat : h = Len(todo)
  BY StepsFacts, CoreFacts
<1>2. Shares(todo, todo', h - 1) /\ Len(todo') = h + 1 /\ todo'[h] = o /\ todo'[h + 1] = e
  <2>1. CoreInv /\ CoreInv'
    BY DEF Steps
  <2> QED BY <2>1, <1>1, ReopenShares
<1>3. PICK c \in Int : c = h - 1
  BY <1>1
<1>4. \A i \in c + 1 .. Len(todo') : todo'[i].k # "then" /\ todo'[i].params = <<>>
  <2>1. \A i \in c + 1 .. Len(todo') : i = h \/ i = h + 1
    BY <1>2, <1>3
  <2> QED BY <2>1, <1>2
<1>5. p' = p /\ m' = m /\ s' = s /\ last' = last
  OBVIOUS
<1> QED BY <1>1, <1>2, <1>3, <1>4, <1>5, SameValues

LEMMA PrefixValues ==
  ASSUME Steps, NEW kind \in {"paren", "not"}, Prefix(kind)
  PROVE  ValueInv'
<1>1. /\ need = "value" /\ todo' = todo \o <<Item(kind), Item("expr")>>
      /\ UNCHANGED <<m, s, last>> /\ p' = p /\ SameScope
  BY ReadsFacts DEF Prefix, Open
<1>2. kind # "then" /\ Item(kind).k = kind /\ Item("expr").k = "expr"
      /\ Item(kind).params = <<>> /\ Item("expr").params = <<>>
  BY Plain
<1>3. ~Dropped(todo, need)
  BY <1>1, StepsFacts, NotDropped
<1> QED BY <1>1, <1>2, <1>3, OpenedValues

LEMMA IndexValues ==
  ASSUME Steps, Index
  PROVE  ValueInv'
<1>1. PICK o : o = [Item("index") EXCEPT !.reg = LastReg(p)]
  OBVIOUS
<1>2. /\ need = "more" /\ todo' = todo \o <<o, Item("expr")>>
      /\ UNCHANGED <<m, s, last>> /\ p' = p /\ SameScope
  BY <1>1, ReadsFacts DEF Index, Open
<1>3. o.k # "then" /\ Item("expr").k = "expr" /\ o.params = <<>> /\ Item("expr").params = <<>>
  BY <1>1, Plain
<1>4. ~Dropped(todo, need)
  BY <1>2, StepsFacts, NotDropped
<1> QED BY <1>2, <1>3, <1>4, OpenedValues

LEMMA IdxSetValues ==
  ASSUME Steps, NEW op \in 0 .. 1, IdxSet(op)
  PROVE  ValueInv'
<1>1. PICK o : o = [Item("idxset") EXCEPT !.op = op, !.reg = Top.reg, !.x = LastReg(p)]
  OBVIOUS
<1>2. /\ need = "done" /\ Top.k = "index" /\ todo' = Below \o <<o, Item("expr")>>
      /\ UNCHANGED <<p, m, s, last>> /\ SameScope
  BY <1>1, ReadsFacts DEF IdxSet
<1>3. o.k # "then" /\ Item("expr").k = "expr" /\ o.params = <<>> /\ Item("expr").params = <<>>
  BY <1>1, Plain
<1>4. ~Dropped(todo, need)
  BY <1>2, StepsFacts, NotDropped
<1>5. Top.k \notin LabelKinds
  BY <1>2 DEF LabelKinds, LogicalKinds
<1> QED BY <1>2, <1>3, <1>4, <1>5, ReopenedValues

LEMMA AssignFieldValues ==
  ASSUME Steps, NEW k \in {"fieldset", "fieldop"}, AssignField(k)
  PROVE  ValueInv'
<1>1. /\ need = "value" /\ todo' = todo \o <<Item(k), Item("expr")>>
      /\ UNCHANGED <<m, s, last>> /\ p' = p /\ SameScope
  BY ReadsFacts DEF AssignField, Open
<1>2. k # "then" /\ Item(k).k = k /\ Item("expr").k = "expr"
      /\ Item(k).params = <<>> /\ Item("expr").params = <<>>
  BY Plain
<1>3. ~Dropped(todo, need)
  BY <1>1, StepsFacts, NotDropped
<1> QED BY <1>1, <1>2, <1>3, OpenedValues

LEMMA AssignValues ==
  ASSUME Steps, NEW k \in {"assign", "compound"}, NEW x \in Names, Assign(k, x)
  PROVE  ValueInv'
<1>1. PICK o : o = [Item(k) EXCEPT !.x = x]
  OBVIOUS
<1>2. /\ need = "value" /\ todo' = todo \o <<o, Item("expr")>>
      /\ UNCHANGED <<m, s, last>> /\ p' = p /\ SameScope
  BY <1>1, ReadsFacts DEF Assign, Open
<1>3. k # "then" /\ o.k = k /\ Item("expr").k = "expr" /\ o.params = <<>> /\ Item("expr").params = <<>>
  BY <1>1, Plain
<1>4. ~Dropped(todo, need)
  BY <1>2, StepsFacts, NotDropped
<1> QED BY <1>2, <1>3, <1>4, OpenedValues

LEMMA CommaValues ==
  ASSUME Steps, Comma
  PROVE  ValueInv'
<1>1. /\ need = "comma" /\ todo' = Append(todo, Item("expr"))
      /\ UNCHANGED <<p, m, s, last>> /\ SameScope
  BY ReadsFacts DEF Comma
<1>2. Item("expr").k # "then" /\ Item("expr").params = <<>>
  BY Plain
<1>3. ~Dropped(todo, need)
  BY <1>1, StepsFacts, NotDropped
<1> QED BY <1>1, <1>2, <1>3, AppendedValues

LEMMA EndArrayValues ==
  ASSUME Steps, EndArray
  PROVE  ValueInv'
<1>1. /\ need = "comma" /\ Top.k = "array" /\ todo' = Below /\ UNCHANGED <<p, m, s, last>> /\ SameScope
  BY ReadsFacts DEF EndArray
<1>2. Top.k \notin LabelKinds /\ Top.k # "func"
  BY <1>1 DEF LabelKinds, LogicalKinds
<1>3. ~Dropped(todo, need)
  BY <1>1, StepsFacts, NotDropped
<1> QED BY <1>1, <1>2, <1>3, ClosedValues

LEMMA StatementValues ==
  ASSUME Steps, NEW k \in {"effect", "print", "return"}, Statement(k)
  PROVE  ValueInv'
<1>1. /\ need = "stmt" /\ todo' = todo \o <<Item(k), Item("expr")>>
      /\ UNCHANGED <<m, s, last>> /\ p' = p /\ SameScope
  BY ReadsFacts DEF Statement, Begin, Open
<1>2. k # "then" /\ Item(k).k = k /\ Item("expr").k = "expr"
      /\ Item(k).params = <<>> /\ Item("expr").params = <<>>
  BY Plain
<1>3. ~Dropped(todo, need)
  BY <1>1, StepsFacts, NotDropped
<1> QED BY <1>1, <1>2, <1>3, OpenedValues

LEMMA LetValues ==
  ASSUME Steps, NEW x \in Names, Let(x)
  PROVE  ValueInv'
<1>1. PICK o : o = [Item("let") EXCEPT !.x = x]
  OBVIOUS
<1>2. /\ need = "stmt" /\ todo' = todo \o <<o, Item("expr")>>
      /\ UNCHANGED <<m, s, last>> /\ p' = p /\ SameScope
  BY <1>1, ReadsFacts DEF Let, Begin, Open
<1>3. o.k # "then" /\ Item("expr").k = "expr" /\ o.params = <<>> /\ Item("expr").params = <<>>
  BY <1>1, Plain
<1>4. ~Dropped(todo, need)
  BY <1>2, StepsFacts, NotDropped
<1> QED BY <1>2, <1>3, <1>4, OpenedValues

LEMMA BranchValues ==
  ASSUME Steps, NEW k \in {"if", "while"}, Branch(k)
  PROVE  ValueInv'
<1>1. /\ need = "stmt" /\ todo' = todo \o <<Item(k), Item("expr")>>
      /\ UNCHANGED <<m, s, last>> /\ p' = FlushCached(p) /\ SameScope
  BY ReadsFacts DEF Branch, Begin, Open
<1>2. k # "then" /\ Item(k).k = k /\ Item("expr").k = "expr"
      /\ Item(k).params = <<>> /\ Item("expr").params = <<>>
  BY Plain
<1>3. ~Dropped(todo, need)
  BY <1>1, StepsFacts, NotDropped
<1> QED BY <1>1, <1>2, <1>3, OpenedValues

-----------------------------------------------------------------------------
(* The values, action by action: operators.                                *)

(* The operands of the innermost construct, as the actions name them. *)
LEMMA TopOperand ==
  ASSUME Steps, NEW i \in Nat, i < Held(Top) + Ready(need), Top.k \notin LogicalKinds \/ i < Ready(need),
         ~Dropped(todo, need)
  PROVE  /\ Operand(s, i) \in SVal /\ m.regs[TopReg(p, i)] \in Val /\ TopReg(p, i) \in Reg
         /\ Running(s) => Operand(s, i) = m.regs[TopReg(p, i)]
<1>1. PICK n \in Nat : n = Len(s.vals)
  BY StepsFacts, CoreFacts
<1>2. PICK a \in Nat : a = Held(Top)
  BY StepsFacts, HeldThere
<1>3. PICK r \in Nat : r = Ready(need)
  BY StepsFacts, HeldThere
<1>4. a + r <= n
  BY <1>1, <1>2, <1>3, StepsFacts, HeldThere
<1>5. Upto(todo, Len(todo)) = n - r /\ Upto(todo, Len(todo) - 1) = n - r - a
  BY <1>1, <1>2, <1>3, StepsFacts, Waiting
<1>6. i < n /\ n - i > n - r - a /\ (i < r => n - i > n - r)
  BY <1>2, <1>3, <1>4
<1>7. Operand(s, i) \in SVal /\ TopReg(p, i) \in Reg /\ m.regs[TopReg(p, i)] \in Val
  BY StepsFacts, LastOperands
<1>8. CASE Running(s)
  <2>1. Top.k \notin LogicalKinds \/ n - i > n - r
    BY <1>3, <1>6
  <2> QED BY <1>1, <1>5, <1>6, <1>7, <1>8, <2>1, LastKnown
<1> QED BY <1>7, <1>8

(* An instruction that takes the operands of the innermost construct. *)
LEMMA AppliedValues ==
  ASSUME Steps, NEW n, n = Len(s.vals), NEW b \in Nat, b = n - Ready(need) - Held(Top),
         Shares(todo, todo', Len(todo) - 1), SameArgs(todo, todo'), Top.k \notin LabelKinds,
         NEW d \in Reg, NEW w \in Val, NEW a \in SVal, Running(s) => a = w,
         Stepped(p, n, todo, p', b + 1, b), OpReg(p', b + 1, b + 1) = d,
         d \notin Cached(p') \/ m.regs[d] = w, p'.cache = p.cache,
         m' = Put(m, d, w), s' = Yield(s, n - b, a), SameScope, last' = Other
  PROVE  ValueInv'
<1>1. /\ n \in Nat /\ Upto(todo, Len(todo) - 1) = b
  BY StepsFacts, Waiting, CoreFacts
<1>2. b <= n
  BY StepsFacts, Waiting
<1>3. \A v \in 1 .. b : OpReg(p', b + 1, v) = OpReg(p, n, v)
  BY DEF Stepped
<1>4. Result(b, d, w, a)
  BY <1>2, <1>3 DEF Result
<1> QED BY <1>1, <1>4, ResultValues

(* What an operator that waits for its right operand does. *)
LEMMA GeneratedValues ==
  ASSUME Steps, need \in {"more", "closed"}, Top.op = 1,
         p' = Generated.p, m' = Generated.m, s' = Generated.s, last' = Generated.last, SameScope,
         Shares(todo, todo', Len(todo) - 1), SameArgs(todo, todo')
  PROVE  ValueInv'
<1>1. PICK n \in Nat : n = Len(s.vals)
  BY StepsFacts, CoreFacts
<1>2. PICK q : q = p'
  OBVIOUS
<1>3. /\ q = Apply2(p) /\ last' = Other
      /\ m' = Put(m, Dest(q), Mix(m.regs[TopReg(p, 1)], m.regs[TopReg(p, 0)]))
      /\ s' = Yield(s, 2, Mix(Operand(s, 1), Operand(s, 0)))
  BY <1>2 DEF Generated
<1>4. /\ p \in RegState /\ Alloc(p, n, todo) /\ ~p.full /\ ~q.full
      /\ n - Ready(need) - Held(Top) \in Nat
  BY <1>1, <1>2, StepsFacts, LiveFacts
<1>5. Ready(need) = 1 /\ Held(Top) = 1 /\ Top.k = "expr"
  BY StepsFacts, GeneratedFacts, ReadyFacts
<1>6. PICK b \in Nat : b = n - 2
  BY <1>4, <1>5
<1>7. n > 1 /\ n - 1 = b + 1 /\ n - 2 = b /\ b = n - Ready(need) - Held(Top) /\ n - b = 2
  BY <1>5, <1>6
<1>8. /\ Stepped(p, n, todo, q, b + 1, b) /\ q.cache = p.cache
      /\ OpReg(q, b + 1, b + 1) = Dest(q) /\ Dest(q) \in Reg /\ Dest(q) \notin Cached(q)
  <2>1. /\ Stepped(p, n, todo, q, n - 1, n - 2) /\ q.cache = p.cache
        /\ OpReg(q, n - 1, n - 1) = Dest(q) /\ Dest(q) \in Reg /\ Dest(q) \notin Cached(q)
    BY <1>3, <1>4, <1>7, FreshApply2
  <2> QED BY <2>1, <1>7
<1>9. ~Dropped(todo, need) /\ Top.k \notin LogicalKinds /\ Top.k \notin LabelKinds
  BY <1>5, StepsFacts, NotDropped, KindFacts
<1>10. 0 < Held(Top) + Ready(need) /\ 1 < Held(Top) + Ready(need)
  BY <1>5
<1>11. /\ Operand(s, 0) \in SVal /\ m.regs[TopReg(p, 0)] \in Val
       /\ Running(s) => Operand(s, 0) = m.regs[TopReg(p, 0)]
  BY <1>9, <1>10, TopOperand
<1>12. /\ Operand(s, 1) \in SVal /\ m.regs[TopReg(p, 1)] \in Val
       /\ Running(s) => Operand(s, 1) = m.regs[TopReg(p, 1)]
  BY <1>9, <1>10, TopOperand
<1>13. PICK w : w = Mix(m.regs[TopReg(p, 1)], m.regs[TopReg(p, 0)])
  OBVIOUS
<1>14. PICK a : a = Mix(Operand(s, 1), Operand(s, 0))
  OBVIOUS
<1>15. w \in Val /\ a \in SVal /\ (Running(s) => a = w)
  BY <1>11, <1>12, <1>13, <1>14, ValueFacts
<1>16. m' = Put(m, Dest(q), w) /\ s' = Yield(s, n - b, a)
  BY <1>3, <1>7, <1>13, <1>14
<1> QED BY <1>1, <1>2, <1>3, <1>7, <1>8, <1>9, <1>15, <1>16, AppliedValues

LEMMA OperatorValues ==
  ASSUME Steps, Operator
  PROVE  ValueInv'
<1>1. PICK g : g = Generated
  OBVIOUS
<1>2. PICK o : o = [Top EXCEPT !.op = 1]
  OBVIOUS
<1>3. /\ need = "more" /\ todo' = Append(Below, o) /\ SameScope
      /\ p' = g.p /\ m' = g.m /\ s' = g.s /\ last' = g.last
  BY <1>1, <1>2, ReadsFacts DEF Operator, Go
<1>4. /\ Top.k = "expr" /\ Top.op \in 0 .. 1 /\ Top.params = <<>> /\ Top \in ItemSet
  <2>1. Top.k = "expr" /\ Top.op \in 0 .. 1
    BY <1>3, StepsFacts, GeneratedFacts
  <2> QED BY <2>1, StepsFacts, CoreFacts DEF Notes, ListKinds
<1>5. o.params = <<>> /\ o.k # "then"
  BY <1>2, <1>4 DEF ItemSet
<1>6. ~Dropped(todo, need) /\ Top.k \notin LabelKinds
  BY <1>3, <1>4, StepsFacts, NotDropped, KindFacts
<1>7. CASE Top.op = 0
  <2>1. UNCHANGED <<p, m, s, last>>
    BY <1>1, <1>3, <1>7 DEF Generated
  <2> QED BY <1>3, <1>5, <1>6, <2>1, SwappedValues
<1>8. CASE Top.op = 1
  <2>1. PICK h \in Nat : h = Len(todo)
    BY StepsFacts, CoreFacts
  <2>2. Shares(todo, todo', h - 1) /\ Len(todo') = h /\ todo'[h] = o
    BY <1>3, <2>1, StepsFacts, TodoShares
  <2>3. \A i \in (h - 1) + 1 .. Len(todo') : todo'[i].params = <<>>
    BY <1>5, <2>1, <2>2
  <2>4. SameArgs(todo, todo')
    BY <2>2, <2>3, SameArgsFacts
  <2> QED BY <1>1, <1>3, <1>8, <2>1, <2>2, <2>4, GeneratedValues
<1> QED BY <1>4, <1>7, <1>8

LEMMA EndBinaryValues ==
  ASSUME Steps, EndBinary
  PROVE  ValueInv'
<1>1. PICK g : g = Generated
  OBVIOUS
<1>2. /\ need \in {"more", "closed"} /\ need' = "done" /\ todo' = Below /\ SameScope
      /\ p' = g.p /\ m' = g.m /\ s' = g.s /\ last' = g.last
  BY <1>1, ReadsFacts DEF EndBinary, Go
<1>3. /\ Top.k = "expr" /\ Top.op \in 0 .. 1
  BY <1>2, StepsFacts, GeneratedFacts
<1>4. Top.k \notin LabelKinds /\ Top.k # "func"
  BY <1>3, KindFacts
<1>5. PICK h \in Nat : h = Len(todo)
  BY StepsFacts, CoreFacts
<1>6. Shares(todo, todo', h - 1) /\ Len(todo') = h - 1 /\ SameArgs(todo, todo')
  BY <1>2, <1>4, <1>5, StepsFacts, TodoShares
<1>7. CASE Top.op = 0
  <2>1. UNCHANGED <<p, m, s, last>>
    BY <1>1, <1>2, <1>7 DEF Generated
  <2>2. Dropped(todo, need) => Dropped(todo', need')
    <3>1. ASSUME Dropped(todo, need) PROVE h > 1 /\ todo[h - 1].k = "effect"
      BY <3>1, <1>2, <1>3, <1>5, StepsFacts, CoreFacts DEF Dropped
    <3>2. ASSUME Dropped(todo, need) PROVE todo'[h - 1] = todo[h - 1]
      BY <3>1, <3>2, <1>5, <1>6 DEF Shares
    <3> QED BY <3>1, <3>2, <1>2, <1>6 DEF Dropped
  <2> QED BY <1>2, <1>4, <2>1, <2>2, ClosedValues
<1>8. CASE Top.op = 1
  BY <1>1, <1>2, <1>5, <1>6, <1>8, GeneratedValues
<1> QED BY <1>3, <1>7, <1>8

LEMMA EndPrefixValues ==
  ASSUME Steps, EndPrefix
  PROVE  ValueInv'
<1>1. /\ need = "done" /\ Top.k \in {"paren", "not"} /\ todo' = Below /\ SameScope
      /\ Top.k = "paren" => UNCHANGED <<p, m, s, last>>
      /\ Top.k # "paren" => /\ p' = Apply1(p) /\ m' = Put(m, Dest(p'), Not(m.regs[LastReg(p)]))
                            /\ s' = Yield(s, 1, Not(Operand(s, 0))) /\ last' = Other
  BY ReadsFacts DEF EndPrefix, Go
<1>2. Top.k \notin LabelKinds /\ Top.k \notin LogicalKinds /\ Top.k # "func" /\ Top.k # "effect"
  BY <1>1, KindFacts DEF OperandKinds
<1>3. ~Dropped(todo, need)
  BY <1>1, <1>2, StepsFacts, NotDropped
<1>4. CASE Top.k = "paren"
  BY <1>1, <1>2, <1>3, <1>4, ClosedValues
<1>5. CASE Top.k = "not"
  <2>1. PICK n \in Nat : n = Len(s.vals)
    BY StepsFacts, CoreFacts
  <2>2. PICK q : q = p'
    OBVIOUS
  <2>3. /\ q = Apply1(p) /\ m' = Put(m, Dest(q), Not(m.regs[LastReg(p)]))
        /\ s' = Yield(s, 1, Not(Operand(s, 0))) /\ last' = Other
    BY <1>1, <1>5, <2>2
  <2>4. /\ p \in RegState /\ Alloc(p, n, todo) /\ ~p.full /\ ~q.full
        /\ n - Ready(need) - Held(Top) \in Nat
    BY <2>1, <2>2, StepsFacts, LiveFacts
  <2>5. Ready(need) = 1 /\ Held(Top) = 0
    BY <1>1, HeldFacts, ReadyFacts
  <2>6. PICK b \in Nat : b = n - 1
    BY <2>4, <2>5
  <2>7. n \in Nat \ {0} /\ n = b + 1 /\ n - 1 = b /\ b = n - Ready(need) - Held(Top) /\ n - b = 1
    BY <2>5, <2>6
  <2>8. /\ Stepped(p, n, todo, q, b + 1, b) /\ q.cache = p.cache
        /\ OpReg(q, b + 1, b + 1) = Dest(q) /\ Dest(q) \in Reg /\ Dest(q) \notin Cached(q)
    <3>1. /\ Stepped(p, n, todo, q, n, n - 1) /\ q.cache = p.cache
          /\ OpReg(q, n, n) = Dest(q) /\ Dest(q) \in Reg /\ Dest(q) \notin Cached(q)
      BY <2>3, <2>4, <2>7, FreshApply1
    <3> QED BY <3>1, <2>7
  <2>9. 0 < Held(Top) + Ready(need)
    BY <2>5
  <2>10. /\ Operand(s, 0) \in SVal /\ m.regs[LastReg(p)] \in Val
         /\ Running(s) => Operand(s, 0) = m.regs[LastReg(p)]
    BY <1>2, <1>3, <2>4, <2>9, TopOperand, LastRegTop
  <2>11. PICK w : w = Not(m.regs[LastReg(p)])
    OBVIOUS
  <2>12. PICK a : a = Not(Operand(s, 0))
    OBVIOUS
  <2>13. w \in Val /\ a \in SVal /\ (Running(s) => a = w)
    BY <2>10, <2>11, <2>12, ValueFacts
  <2>14. m' = Put(m, Dest(q), w) /\ s' = Yield(s, n - b, a)
    BY <2>3, <2>7, <2>11, <2>12
  <2>15. Shares(todo, todo', Len(todo) - 1) /\ SameArgs(todo, todo')
    BY <1>1, <1>2, StepsFacts, TodoShares
  <2> QED BY <1>1, <1>2, <2>1, <2>2, <2>3, <2>7, <2>8, <2>13, <2>14, <2>15, AppliedValues
<1> QED BY <1>1, <1>4, <1>5

-----------------------------------------------------------------------------
(* The values, action by action: indexing and bound methods.               *)

LEMMA CollapseTop ==
  ASSUME NEW q \in RegState, Len(q.rstack) > 2, ~q.full, NEW r, r = Collapse(q)
  PROVE  LastReg(r) = LastReg(q) /\ r.cache = q.cache
<1>1. PICK n \in Nat : n = Len(q.rstack)
  BY RegStateFacts
<1>2. PICK f : f = SetUnused(SetUnused(q, q.rstack[n - 2]), q.rstack[n - 1])
  OBVIOUS
<1>3. Collapses(q, n, f, r)
  BY <1>1, <1>2 DEF Collapses
<1>4. Len(r.rstack) = n - 2 /\ r.cache = q.cache /\ r.rstack[n - 2] = q.rstack[n]
  BY <1>3, CollapseFacts
<1> QED BY <1>1, <1>4 DEF LastReg

(* The register taken last stays on top. *)
LEMMA ModifyTop ==
  ASSUME NEW q \in RegState, Len(q.rstack) > 3, ~q.full, NEW r, r = Collapse(PopReg(SwapTop(q)))
  PROVE  LastReg(r) = LastReg(q) /\ r.cache = q.cache
<1>1. PICK n \in Nat : n = Len(q.rstack)
  BY RegStateFacts
<1>2. PICK a : a = SwapTop(q)
  OBVIOUS
<1>3. PICK c : c = PopReg(a)
  OBVIOUS
<1>4. n > 1 /\ n - 1 > 0 /\ n - 1 > 2 /\ n - 1 # n
  BY <1>1
<1>5. /\ a \in RegState /\ Len(a.rstack) = n /\ a.cache = q.cache /\ a.full = q.full
      /\ a.rstack[n - 1] = q.rstack[n]
  BY <1>1, <1>2, <1>4, SwapTopFacts
<1>6. /\ c \in RegState /\ Len(c.rstack) = n - 1 /\ c.cache = q.cache /\ c.full = q.full
      /\ c.rstack[n - 1] = a.rstack[n - 1]
  BY <1>3, <1>4, <1>5, PopRegFacts
<1>7. LastReg(r) = LastReg(c) /\ r.cache = c.cache
  <2>1. Len(c.rstack) > 2 /\ ~c.full /\ r = Collapse(c)
    BY <1>2, <1>3, <1>4, <1>6
  <2> QED BY <2>1, <1>6, CollapseTop
<1> QED BY <1>1, <1>5, <1>6, <1>7 DEF LastReg

LEMMA OpRegLast ==
  ASSUME NEW q, NEW n, q \in RegState, n \in Nat \ {0}, n <= Len(q.rstack)
  PROVE  OpReg(q, n, n) = LastReg(q) /\ LastReg(q) \in Reg
<1>1. n \in 1 .. n
  OBVIOUS
<1> QED BY <1>1, OpRegIn

LEMMA PutAgain ==
  ASSUME NEW e, e \in Machine, NEW d \in Reg
  PROVE  /\ Put(e, d, e.regs[d]) = e
         /\ \A v \in Val, w \in Val : Put(Put(e, d, v), d, w) = Put(e, d, w)
<1>1. Put(e, d, e.regs[d]) = e
  <2>1. [e.regs EXCEPT ![d] = e.regs[d]] = e.regs
    BY DEF Machine
  <2>2. [e EXCEPT !.regs = e.regs] = e
    BY DEF Machine
  <2> QED BY <2>1, <2>2 DEF Put, Machine
<1>2. ASSUME NEW v \in Val, NEW w \in Val PROVE Put(Put(e, d, v), d, w) = Put(e, d, w)
  BY DEF Put, Machine, Running
<1> QED BY <1>1, <1>2

(* The innermost construct's operands are in the registers that it has noted. *)
LEMMA NotedTop ==
  ASSUME Steps, Ready(need) = 1, NEW n, n = Len(s.vals)
  PROVE  /\ Top.k \in Holders \ {"idxset"} => Top.reg = TopReg(p, 1)
         /\ Top.k = "idxset" => Top.reg = TopReg(p, 2) /\ Top.x = TopReg(p, 1)
<1>1. PICK h : h = Len(todo)
  OBVIOUS
<1>2. todo[h] = Top /\ Upto(todo, h) = n - 1 /\ Noted(p, n, todo, h)
  BY <1>1, StepsFacts, TopNoted
<1>3. n \in Nat /\ Len(p.rstack) \in Nat
  BY StepsFacts, CoreFacts
<1>4. PICK k \in Nat : k = Len(p.rstack)
  BY <1>3
<1>5. k - n + (n - 1) = k - 1 /\ k - n + (n - 1 - 1) = k - 2
  BY <1>3, <1>4
<1>6. OpReg(p, n, n - 1) = TopReg(p, 1) /\ OpReg(p, n, n - 1 - 1) = TopReg(p, 2)
  BY <1>4, <1>5 DEF OpReg, TopReg
<1> QED BY <1>2, <1>6 DEF Noted

LEMMA IdxGetValues ==
  ASSUME Steps, IdxGet
  PROVE  ValueInv'
<1>1. PICK q : q = NewReg(p)
  OBVIOUS
<1>2. /\ need = "done" /\ Top.k = "index" /\ todo' = Below /\ SameScope /\ last' = Other
      /\ p' = Collapse(q) /\ m' = Put(m, Dest(q), Mix(m.regs[Top.reg], m.regs[LastReg(p)]))
      /\ s' = Yield(s, 2, Mix(Operand(s, 1), Operand(s, 0)))
  BY <1>1, ReadsFacts DEF IdxGet, Go
<1>3. PICK z : z = p'
  OBVIOUS
<1>4. PICK n \in Nat : n = Len(s.vals)
  BY StepsFacts, CoreFacts
<1>5. /\ p \in RegState /\ Alloc(p, n, todo) /\ ~p.full /\ n <= Len(p.rstack)
      /\ n - Ready(need) - Held(Top) \in Nat
  BY <1>4, StepsFacts, LiveFacts
<1>6. Ready(need) = 1 /\ Held(Top) = 1
  BY <1>2, HeldFacts, ReadyFacts
<1>7. PICK b \in Nat : b = n - 2
  BY <1>5, <1>6
<1>8. /\ n > 1 /\ b = n - Ready(need) - Held(Top) /\ n - b = 2 /\ n + 1 - 2 = b + 1 /\ n + 1 - 3 = b
      /\ n + 1 > 2 /\ b <= n
  BY <1>6, <1>7
<1>9. ~q.full
  BY <1>2, StepsFacts DEF Collapse
<1>10. /\ Stepped(p, n, todo, q, n + 1, n) /\ q.cache = p.cache
       /\ OpReg(q, n + 1, n + 1) = Dest(q) /\ Dest(q) \in Reg /\ Dest(q) \notin Cached(q)
  BY <1>1, <1>5, <1>9, FreshNew
<1>11. q \in RegState /\ Alloc(q, n + 1, todo) /\ Len(q.rstack) \in Nat /\ n + 1 <= Len(q.rstack)
  BY <1>10, RegStateFacts DEF Stepped, Alloc
<1>12. LastReg(z) = LastReg(q) /\ z.cache = q.cache
  <2>1. Len(q.rstack) > 2
    BY <1>8, <1>11
  <2> QED BY <1>2, <1>3, <1>9, <1>11, <2>1, CollapseTop
<1>13. Stepped(q, n + 1, todo, z, b + 1, b)
  <2>1. Stepped(q, n + 1, todo, z, n + 1 - 2, n + 1 - 3)
    BY <1>2, <1>3, <1>8, <1>9, <1>11, AllocCollapse
  <2> QED BY <2>1, <1>8
<1>14. Stepped(p, n, todo, z, b + 1, b)
  BY <1>8, <1>10, <1>13, SteppedTwice
<1>15. OpReg(z, b + 1, b + 1) = Dest(q) /\ Dest(q) \notin Cached(z)
  <2>1. z \in RegState /\ b + 1 <= Len(z.rstack)
    BY <1>14 DEF Stepped, Alloc
  <2>2. OpReg(z, b + 1, b + 1) = LastReg(z)
    BY <2>1, OpRegLast
  <2>3. OpReg(q, n + 1, n + 1) = LastReg(q)
    BY <1>11, OpRegLast
  <2> QED BY <2>2, <2>3, <1>10, <1>12 DEF Cached
<1>16. ~Dropped(todo, need) /\ Top.k \notin LogicalKinds /\ Top.k \notin LabelKinds /\ Top.k # "func"
  <2>1. need = "done" /\ Top.k # "effect"
    BY <1>2
  <2> QED BY <1>2, <2>1, StepsFacts, NotDropped, KindFacts DEF OperandKinds
<1>17. 0 < Held(Top) + Ready(need) /\ 1 < Held(Top) + Ready(need)
  BY <1>6
<1>18. /\ Operand(s, 0) \in SVal /\ m.regs[LastReg(p)] \in Val
       /\ Running(s) => Operand(s, 0) = m.regs[LastReg(p)]
  BY <1>5, <1>16, <1>17, TopOperand, LastRegTop
<1>19. /\ Operand(s, 1) \in SVal /\ m.regs[Top.reg] \in Val
       /\ Running(s) => Operand(s, 1) = m.regs[Top.reg]
  <2>1. Top.reg = TopReg(p, 1)
    BY <1>2, <1>4, <1>6, NotedTop DEF Holders
  <2> QED BY <2>1, <1>16, <1>17, TopOperand
<1>20. PICK w : w = Mix(m.regs[Top.reg], m.regs[LastReg(p)])
  OBVIOUS
<1>21. PICK a : a = Mix(Operand(s, 1), Operand(s, 0))
  OBVIOUS
<1>22. w \in Val /\ a \in SVal /\ (Running(s) => a = w)
  BY <1>18, <1>19, <1>20, <1>21, ValueFacts
<1>23. m' = Put(m, Dest(q), w) /\ s' = Yield(s, n - b, a)
  BY <1>2, <1>8, <1>20, <1>21
<1>24. Shares(todo, todo', Len(todo) - 1) /\ SameArgs(todo, todo')
  BY <1>2, <1>16, StepsFacts, TodoShares
<1>25. z.cache = p.cache
  BY <1>10, <1>12
<1> QED BY <1>2, <1>3, <1>4, <1>8, <1>10, <1>14, <1>15, <1>16, <1>22, <1>23, <1>24, <1>25, AppliedValues

LEMMA EndIdxSetValues ==
  ASSUME Steps, EndIdxSet
  PROVE  ValueInv'
<1>1. PICK n \in Nat : n = Len(s.vals)
  BY StepsFacts, CoreFacts
<1>2. /\ need = "done" /\ Top.k = "idxset" /\ todo' = Below /\ SameScope /\ last' = Other
  BY ReadsFacts DEF EndIdxSet
<1>3. PICK z : z = p'
  OBVIOUS
<1>4. /\ p \in RegState /\ Alloc(p, n, todo) /\ ~p.full /\ n <= Len(p.rstack) /\ Len(p.rstack) \in Nat
      /\ n - Ready(need) - Held(Top) \in Nat
  BY <1>1, StepsFacts, LiveFacts, CoreFacts
<1>5. Ready(need) = 1 /\ Held(Top) = 2
  BY <1>2, HeldFacts, ReadyFacts
<1>6. PICK b \in Nat : b = n - 3
  BY <1>4, <1>5
<1>7. /\ n > 2 /\ b = n - Ready(need) - Held(Top) /\ n - b = 3 /\ n - 2 = b + 1 /\ n - 3 = b
      /\ b <= n /\ Len(p.rstack) > 2 /\ n \in Nat \ {0} /\ b + 1 \in Nat \ {0}
  BY <1>4, <1>5, <1>6
<1>8. ~Dropped(todo, need) /\ Top.k \notin LogicalKinds /\ Top.k \notin LabelKinds /\ Top.k # "func"
  <2>1. need = "done" /\ Top.k # "effect"
    BY <1>2
  <2> QED BY <1>2, <2>1, StepsFacts, NotDropped, KindFacts DEF OperandKinds
<1>9. 0 < Held(Top) + Ready(need) /\ 1 < Held(Top) + Ready(need) /\ 2 < Held(Top) + Ready(need)
  BY <1>5
<1>10. /\ Operand(s, 0) \in SVal /\ m.regs[LastReg(p)] \in Val /\ LastReg(p) \in Reg
       /\ Running(s) => Operand(s, 0) = m.regs[LastReg(p)]
  BY <1>4, <1>8, <1>9, TopOperand, LastRegTop
<1>11. Shares(todo, todo', Len(todo) - 1) /\ SameArgs(todo, todo')
  BY <1>2, <1>8, StepsFacts, TodoShares
<1>12. CASE Top.op = 0
  <2>1. z = Collapse(p) /\ m' = m /\ s' = Yield(s, 3, Operand(s, 0))
    BY <1>3, <1>12 DEF EndIdxSet, Go
  <2>2. PICK d : d = LastReg(p)
    OBVIOUS
  <2>3. LastReg(z) = d /\ z.cache = p.cache
    BY <1>4, <1>7, <2>1, <2>2, CollapseTop
  <2>4. Stepped(p, n, todo, z, b + 1, b)
    <3>1. Stepped(p, n, todo, z, n - 2, n - 3)
      BY <1>4, <1>7, <2>1, AllocCollapse
    <3> QED BY <3>1, <1>7
  <2>5. OpReg(z, b + 1, b + 1) = d
    <3>1. z \in RegState /\ b + 1 <= Len(z.rstack)
      BY <2>4 DEF Stepped, Alloc
    <3> QED BY <3>1, <2>3, <1>7, OpRegLast
  <2>6. m' = Put(m, d, m.regs[d])
    BY <2>1, <2>2, <1>10, StepsFacts, CoreFacts, PutAgain
  <2>7. PICK w : w = m.regs[d]
    OBVIOUS
  <2>8. PICK a : a = Operand(s, 0)
    OBVIOUS
  <2>9. d \in Reg /\ w \in Val /\ a \in SVal /\ (Running(s) => a = w) /\ m.regs[d] = w
    BY <1>10, <2>2, <2>7, <2>8
  <2>10. m' = Put(m, d, w) /\ s' = Yield(s, n - b, a)
    BY <2>1, <2>6, <2>7, <2>8, <1>7
  <2> QED BY <1>1, <1>2, <1>3, <1>7, <1>8, <1>11, <2>3, <2>4, <2>5, <2>9, <2>10, AppliedValues
<1>13. CASE Top.op # 0
  <2>1. PICK q : q = NewReg(p)
    OBVIOUS
  <2>2. PICK d : d = Dest(q)
    OBVIOUS
  <2>3. PICK e : e = Put(m, d, Mix(m.regs[Top.reg], m.regs[Top.x]))
    OBVIOUS
  <2>4. /\ z = IF q.full THEN q ELSE Collapse(PopReg(SwapTop(q)))
        /\ m' = Put(e, d, Mix(e.regs[d], e.regs[LastReg(p)]))
        /\ s' = Yield(s, 3, Mix(Mix(Operand(s, 2), Operand(s, 1)), Operand(s, 0)))
    BY <1>3, <1>13, <2>1, <2>2, <2>3 DEF EndIdxSet, Go
  <2>5. ~q.full /\ z = Collapse(PopReg(SwapTop(q)))
    BY <2>4, <1>3, StepsFacts
  <2>6. /\ Stepped(p, n, todo, q, n + 1, n) /\ q.cache = p.cache
        /\ OpReg(q, n + 1, n + 1) = d /\ d \in Reg /\ d \notin Cached(q)
    BY <1>4, <2>1, <2>2, <2>5, FreshNew
  <2>7. q \in RegState /\ Len(q.rstack) \in Nat /\ n + 1 <= Len(q.rstack)
    BY <2>6, RegStateFacts DEF Stepped, Alloc
  <2>8. LastReg(z) = LastReg(q) /\ z.cache = q.cache
    <3>1. Len(q.rstack) > 3
      BY <1>7, <2>7
    <3> QED BY <2>5, <2>7, <3>1, ModifyTop
  <2>9. Stepped(p, n, todo, z, b + 1, b)
    <3>1. Stepped(p, n, todo, z, n - 2, n - 3)
      BY <1>4, <1>7, <2>5, <2>6, AllocModify
    <3> QED BY <3>1, <1>7
  <2>10. OpReg(z, b + 1, b + 1) = d /\ d \notin Cached(z) /\ z.cache = p.cache
    <3>1. z \in RegState /\ b + 1 <= Len(z.rstack)
      BY <2>9 DEF Stepped, Alloc
    <3>2. OpReg(z, b + 1, b + 1) = LastReg(z)
      BY <3>1, <1>7, OpRegLast
    <3>3. OpReg(q, n + 1, n + 1) = LastReg(q)
      BY <2>7, OpRegLast
    <3> QED BY <3>2, <3>3, <2>6, <2>8 DEF Cached
  <2>11. /\ Operand(s, 1) \in SVal /\ m.regs[Top.x] \in Val
         /\ Running(s) => Operand(s, 1) = m.regs[Top.x]
    <3>1. Top.x = TopReg(p, 1)
      BY <1>1, <1>2, <1>5, NotedTop
    <3> QED BY <3>1, <1>8, <1>9, TopOperand
  <2>12. /\ Operand(s, 2) \in SVal /\ m.regs[Top.reg] \in Val
         /\ Running(s) => Operand(s, 2) = m.regs[Top.reg]
    <3>1. Top.reg = TopReg(p, 2)
      BY <1>1, <1>2, <1>5, NotedTop
    <3> QED BY <3>1, <1>8, <1>9, TopOperand
  <2>13. PICK v : v = Mix(m.regs[Top.reg], m.regs[Top.x])
    OBVIOUS
  <2>14. PICK w : w = Mix(v, m.regs[LastReg(p)])
    OBVIOUS
  <2>15. PICK a : a = Mix(Mix(Operand(s, 2), Operand(s, 1)), Operand(s, 0))
    OBVIOUS
  <2>16. v \in Val /\ w \in Val
    BY <1>10, <2>11, <2>12, <2>13, <2>14, ValueFacts
  <2>17. a \in SVal /\ (Running(s) => a = w)
    <3>1. Mix(Operand(s, 2), Operand(s, 1)) \in SVal
      BY <2>11, <2>12, ValueFacts
    <3> QED BY <3>1, <1>10, <2>11, <2>12, <2>13, <2>14, <2>15, ValueFacts
  <2>18. LastReg(p) # d
    <3>1. OpReg(p, n, n) \in p.used /\ OpReg(p, n, n) = LastReg(p)
      <4>1. n \in 1 .. n
        BY <1>7
      <4> QED BY <4>1, <1>4, OpRegIn DEF Alloc
    <3>2. d \notin p.used
      BY <1>4, <2>1, <2>2, <2>5, AllocNew
    <3> QED BY <3>1, <3>2
  <2>19. m \in Machine
    BY StepsFacts, CoreFacts
  <2>20. m' = Put(m, d, w)
    <3>1. e = Put(m, d, v)
      BY <2>3, <2>13
    <3>2. CASE Running(m)
      <4>1. e.regs[d] = v /\ e.regs[LastReg(p)] = m.regs[LastReg(p)]
        BY <3>1, <3>2, <2>6, <2>16, <2>18, <2>19, <1>10, PutFacts
      <4>2. m' = Put(e, d, w)
        BY <4>1, <2>4, <2>14
      <4> QED BY <4>2, <3>1, <2>6, <2>16, <2>19, PutAgain
    <3>3. CASE ~Running(m)
      BY <3>1, <3>3, <2>4 DEF Put
    <3> QED BY <3>2, <3>3
  <2>21. s' = Yield(s, n - b, a)
    BY <2>4, <2>15, <1>7
  <2> QED BY <1>1, <1>2, <1>3, <1>7, <1>8, <1>11, <2>6, <2>9, <2>10, <2>16, <2>17, <2>20, <2>21, AppliedValues
<1> QED BY <1>12, <1>13

LEMMA BindValues ==
  ASSUME Careful, Steps, Bind
  PROVE  ValueInv'
<1>1. PICK q : q = NewReg(p)
  OBVIOUS
<1>2. /\ need = "more" /\ todo' = todo /\ SameScope /\ last' = Other /\ Len(s.vals) = 1
      /\ p' = q /\ m' = Put(m, Dest(q), Mix(0, m.regs[LastReg(p)]))
      /\ s' = Yield(s, 1, Mix(0, Operand(s, 0)))
  BY <1>1, ReadsFacts DEF Bind, Go
<1>3. PICK n : n = 1
  OBVIOUS
<1>4. PICK b : b = 0
  OBVIOUS
<1>5. p \in RegState /\ Alloc(p, n, todo) /\ ~p.full /\ ~q.full /\ n \in Nat
  BY <1>1, <1>2, <1>3, StepsFacts, LiveFacts
<1>6. /\ Stepped(p, n, todo, q, n + 1, n) /\ q.cache = p.cache
      /\ OpReg(q, n + 1, n + 1) = Dest(q) /\ Dest(q) \in Reg /\ Dest(q) \notin Cached(q)
  BY <1>1, <1>5, FreshNew
<1>7. OpReg(q, b + 1, b + 1) = Dest(q)
  <2>1. q \in RegState /\ Len(q.rstack) \in Nat /\ n + 1 <= Len(q.rstack)
    BY <1>6, RegStateFacts DEF Stepped, Alloc
  <2>2. OpReg(q, n + 1, n + 1) = LastReg(q)
    BY <2>1, <1>5, OpRegLast
  <2>3. b + 1 \in Nat \ {0} /\ b + 1 <= Len(q.rstack)
    BY <2>1, <1>3, <1>4
  <2>4. OpReg(q, b + 1, b + 1) = LastReg(q)
    BY <2>1, <2>3, OpRegLast
  <2> QED BY <2>2, <2>4, <1>6
<1>8. ~Dropped(todo, need) /\ Top.k \notin LogicalKinds
  BY <1>2, StepsFacts, NotDropped, GeneratedFacts, KindFacts
<1>9. Ready(need) = 1 /\ Held(Top) \in Nat
  BY <1>2, ReadyFacts, StepsFacts, HeldThere
<1>10. 0 < Held(Top) + Ready(need)
  BY <1>9
<1>11. /\ Operand(s, 0) \in SVal /\ m.regs[LastReg(p)] \in Val
       /\ Running(s) => Operand(s, 0) = m.regs[LastReg(p)]
  BY <1>5, <1>8, <1>10, TopOperand, LastRegTop
<1>12. PICK w : w = Mix(0, m.regs[LastReg(p)])
  OBVIOUS
<1>13. PICK a : a = Mix(0, Operand(s, 0))
  OBVIOUS
<1>14. w \in Val /\ a \in SVal /\ (Running(s) => a = w)
  BY <1>11, <1>12, <1>13, ValueFacts
<1>15. m' = Put(m, Dest(q), w) /\ s' = Yield(s, Len(s.vals) - b, a)
  BY <1>2, <1>4, <1>12, <1>13
<1>16. Result(b, Dest(q), w, a)
  <2>1. b \in Nat /\ b <= Len(s.vals) /\ \A v \in 1 .. b : FALSE
    BY <1>2, <1>4
  <2>2. SameArgs(todo, todo')
    BY <1>2, SameArgsFacts
  <2> QED BY <2>1, <2>2, <1>2, <1>6, <1>7, <1>14, <1>15 DEF Result
<1>17. b = Upto(todo, Len(todo))
  BY <1>2, <1>4, <1>9, StepsFacts, Waiting
<1>18. Shares(todo, todo', Len(todo))
  BY <1>2, StepsFacts, TodoShares
<1> QED BY <1>2, <1>6, <1>16, <1>17, <1>18, ResultValues

-----------------------------------------------------------------------------
(* The values, action by action: lists.                                    *)

LEMMA ElementValues ==
  ASSUME Steps, Element
  PROVE  ValueInv'
<1>1. PICK n \in Nat : n = Len(s.vals)
  BY StepsFacts, CoreFacts
<1>2. /\ need = "done" /\ Top.k = "array" /\ todo' = todo /\ SameScope /\ last' = Other
      /\ p' = PopReg(p) /\ m' = Put(m, Top.reg, Mix(m.regs[Top.reg], m.regs[LastReg(p)]))
      /\ s' = Yield(s, 2, Mix(Operand(s, 1), Operand(s, 0)))
  BY ReadsFacts DEF Element, Go
<1>3. PICK z : z = p'
  OBVIOUS
<1>4. /\ p \in RegState /\ Alloc(p, n, todo) /\ ~p.full /\ n <= Len(p.rstack) /\ Len(p.rstack) \in Nat
      /\ n - Ready(need) - Held(Top) \in Nat
  BY <1>1, StepsFacts, LiveFacts, CoreFacts
<1>5. Ready(need) = 1 /\ Held(Top) = 1
  BY <1>2, HeldFacts, ReadyFacts
<1>6. PICK b \in Nat : b = n - 2
  BY <1>4, <1>5
<1>7. /\ b = n - Ready(need) - Held(Top) /\ n - b = 2 /\ n - 1 = b + 1
      /\ b <= b + 1 /\ n \in Nat \ {0} /\ b + 1 \in 1 .. b + 1
  BY <1>4, <1>5, <1>6
<1>8. ~Dropped(todo, need) /\ Top.k \notin LogicalKinds /\ Top.k \notin LabelKinds
  <2>1. need = "done" /\ Top.k # "effect"
    BY <1>2
  <2> QED BY <1>2, <2>1, StepsFacts, NotDropped, KindFacts DEF OperandKinds, ListKinds
<1>9. 0 < Held(Top) + Ready(need) /\ 1 < Held(Top) + Ready(need)
  BY <1>5
<1>10. /\ Operand(s, 0) \in SVal /\ m.regs[LastReg(p)] \in Val
       /\ Running(s) => Operand(s, 0) = m.regs[LastReg(p)]
  BY <1>4, <1>8, <1>9, TopOperand, LastRegTop
<1>11. Top.reg = TopReg(p, 1)
  BY <1>1, <1>2, <1>5, NotedTop DEF Holders
<1>12. /\ Operand(s, 1) \in SVal /\ m.regs[Top.reg] \in Val /\ Top.reg \in Reg
       /\ Running(s) => Operand(s, 1) = m.regs[Top.reg]
  BY <1>8, <1>9, <1>11, TopOperand
<1>13. Stepped(p, n, todo, z, b + 1, b + 1)
  <2>1. Stepped(p, n, todo, z, n - 1, n - 1)
    BY <1>2, <1>3, <1>4, <1>7, AllocPopped
  <2> QED BY <2>1, <1>7
<1>14. Stepped(p, n, todo, z, b + 1, b) /\ OpReg(z, b + 1, b + 1) = OpReg(p, n, b + 1)
  <2>1. Stepped(p, n, todo, z, b + 1, b)
    BY <1>7, <1>13, SteppedLess
  <2> QED BY <2>1, <1>7, <1>13 DEF Stepped
<1>15. OpReg(p, n, b + 1) = Top.reg /\ Top.reg \notin Cached(p)
  <2>1. PICK h : h = Len(todo)
    OBVIOUS
  <2>2. todo[h] = Top /\ Upto(todo, h) = n - 1 /\ Apart(p, n, todo, h) /\ Noted(p, n, todo, h)
    BY <1>1, <1>5, <2>1, StepsFacts, TopNoted
  <2>3. Upto(todo, h) = b + 1
    BY <2>2, <1>7
  <2> QED BY <2>2, <2>3, <1>2 DEF Apart, Noted, Holders
<1>16. z.cache = p.cache
  BY <1>2, <1>3, <1>4, CacheThere, CacheSame
<1>17. Top.reg \notin Cached(z)
  BY <1>15, <1>16 DEF Cached
<1>18. PICK w : w = Mix(m.regs[Top.reg], m.regs[LastReg(p)])
  OBVIOUS
<1>19. PICK a : a = Mix(Operand(s, 1), Operand(s, 0))
  OBVIOUS
<1>20. w \in Val /\ a \in SVal /\ (Running(s) => a = w)
  BY <1>10, <1>12, <1>18, <1>19, ValueFacts
<1>21. m' = Put(m, Top.reg, w) /\ s' = Yield(s, n - b, a)
  BY <1>2, <1>7, <1>18, <1>19
<1>22. Shares(todo, todo', Len(todo) - 1) /\ SameArgs(todo, todo')
  BY <1>2, StepsFacts, TodoShares, SameArgsFacts
<1> QED BY <1>1, <1>2, <1>3, <1>7, <1>8, <1>12, <1>14, <1>15, <1>16, <1>17, <1>20, <1>21, <1>22, AppliedValues

(* Running, a callee finds in the arguments' registers what the source passes. *)
LEMMA PassedMeant ==
  ASSUME Steps, Running(s)
  PROVE  Passed = Meant
<1>1. Len(todo) \in DOMAIN todo /\ Top = todo[Len(todo)] /\ s.at = Run
  BY StepsFacts, CoreFacts
<1>2. ASSUME NEW i \in DOMAIN Top.params PROVE m.regs[Top.params[i].reg] = Top.params[i].val
  <2>1. Top.params[i].val # Unknown
    BY <1>1, <1>2, StepsFacts DEF KnownArgs
  <2> QED BY <2>1, <1>1, <1>2, StepsFacts DEF ArgsAgree
<1> QED BY <1>2 DEF Passed, Meant

(* The value of a call takes a register, and those of the arguments are freed. *)
LEMMA EndedValues ==
  ASSUME Steps, NEW n, n = Len(s.vals), NEW b \in Nat, b = n - Ready(need) - Held(Top),
         need = "comma", Top.k \in ListKinds, todo' = Below, Ready(need') = 1, NEW q,
         q \in RegState, Stepped(p, n, todo, q, b + 1, b), q.cache = p.cache,
         OpReg(q, b + 1, b + 1) = Dest(q), Dest(q) \in Reg, Dest(q) \notin Cached(q),
         p' = ReleaseAll(q, Top.params) \/ p' = ReleaseAll(SetAllUnused(q, Top.params), Top.params),
         NEW c \in Val, NEW e \in SVal, Running(s) => e = c,
         m' = Put(m, Dest(q), MixAll(c, Passed)), s' = Yield(s, n - b, MixAll(e, Meant)),
         SameScope, last' = Other
  PROVE  ValueInv'
<1>1. PICK r : r = p'
  OBVIOUS
<1>2. Top.k \notin LabelKinds /\ Top.k # "func"
  BY KindFacts, KindsApart DEF OperandKinds, ListKinds
<1>3. Closes(n, b)
  BY <1>2, StepsFacts DEF Closes
<1>4. Ended(n, b, q, r)
  <2>1. Top.params = todo[Len(todo)].params
    BY StepsFacts, CoreFacts
  <2> QED BY <1>1, <1>3, <2>1 DEF Ended
<1>5. \A v \in 1 .. b : OpReg(r, b + 1, v) = OpReg(p, n, v)
  BY <1>4, EndedRegs DEF Moved
<1>6. r.rstack = q.rstack /\ r.cache = q.cache
  <2>1. SetAllUnused(q, Top.params) \in RegState
    BY SetAllUnusedFacts
  <2> QED BY <1>1, <2>1, ReleaseFacts, SetAllUnusedFacts
<1>7. OpReg(r, b + 1, b + 1) = Dest(q) /\ Dest(q) \notin Cached(r)
  BY <1>6 DEF OpReg, Cached
<1>8. PICK w : w = MixAll(c, Passed)
  OBVIOUS
<1>9. PICK a : a = MixAll(e, Meant)
  OBVIOUS
<1>10. w \in Val /\ a \in SVal /\ (Running(s) => a = w)
  BY <1>8, <1>9, StepsFacts, ArgumentsFacts, PassedMeant
<1>11. Shares(todo, todo', Len(todo) - 1) /\ SameArgs(todo, todo')
  BY <1>2, StepsFacts, TodoShares
<1>12. b <= n /\ Upto(todo, Len(todo) - 1) = b
  BY StepsFacts, Waiting
<1>13. Result(b, Dest(q), w, a)
  BY <1>1, <1>5, <1>7, <1>8, <1>9, <1>10, <1>11, <1>12 DEF Result
<1> QED BY <1>1, <1>2, <1>6, <1>7, <1>11, <1>12, <1>13, ResultValues

LEMMA EndCallValues ==
  ASSUME Steps, EndCall
  PROVE  ValueInv'
<1>1. PICK n \in Nat : n = Len(s.vals)
  BY StepsFacts, CoreFacts
<1>2. PICK byValue \in BOOLEAN : byValue = (Top.k = "fncall")
  OBVIOUS
<1>3. PICK q : q = NewReg(IF byValue THEN PopReg(p) ELSE p)
  OBVIOUS
<1>4. PICK c : c = IF byValue THEN m.regs[LastReg(p)] ELSE 0
  OBVIOUS
<1>5. PICK e : e = IF byValue THEN Operand(s, 0) ELSE 0
  OBVIOUS
<1>6. /\ need = "comma" /\ Top.k \in {"call", "method", "fncall"} /\ todo' = Below /\ need' = "more"
      /\ SameScope /\ last' = Other
      /\ p' = (IF q.full THEN q ELSE ReleaseAll(q, Top.params))
      /\ m' = Put(m, Dest(q), MixAll(c, Passed))
      /\ s' = Yield(s, IF byValue THEN 1 ELSE 0, MixAll(e, Meant))
  BY <1>2, <1>3, <1>4, <1>5, ReadsFacts DEF EndCall, Go
<1>7. ~q.full /\ p' = ReleaseAll(q, Top.params)
  BY <1>6, StepsFacts
<1>8. Top.k \in ListKinds /\ Ready(need') = 1 /\ Ready(need) = 0
  BY <1>6, ReadyFacts DEF ListKinds
<1>9. /\ p \in RegState /\ Alloc(p, n, todo) /\ ~p.full
      /\ n - Ready(need) - Held(Top) \in Nat
  BY <1>1, StepsFacts, LiveFacts
<1>10. CASE byValue
  <2>1. Held(Top) = 1 /\ Top.k = "fncall"
    BY <1>2, <1>10, HeldFacts
  <2>2. PICK b \in Nat : b = n - 1
    BY <1>8, <1>9, <2>1
  <2>3. /\ n \in Nat \ {0} /\ n = b + 1 /\ n - 1 = b /\ n - b = 1 /\ b = n - Ready(need) - Held(Top)
        /\ 0 < Held(Top) + Ready(need)
    BY <1>8, <2>1, <2>2
  <2>4. /\ Stepped(p, n, todo, q, b + 1, b) /\ q.cache = p.cache
        /\ OpReg(q, b + 1, b + 1) = Dest(q) /\ Dest(q) \in Reg /\ Dest(q) \notin Cached(q)
    <3>1. q = Apply1(p)
      BY <1>3, <1>10 DEF Apply1
    <3>2. /\ Stepped(p, n, todo, q, n, n - 1) /\ q.cache = p.cache
          /\ OpReg(q, n, n) = Dest(q) /\ Dest(q) \in Reg /\ Dest(q) \notin Cached(q)
      BY <3>1, <1>7, <1>9, <2>3, FreshApply1
    <3> QED BY <3>2, <2>3
  <2>5. q \in RegState
    BY <2>4 DEF Stepped
  <2>6. Top.k \notin LogicalKinds /\ ~Dropped(todo, need)
    BY <1>6, <2>1, StepsFacts, NotDropped, KindFacts DEF OperandKinds, ListKinds
  <2>7. c \in Val /\ e \in SVal /\ (Running(s) => e = c)
    <3>1. c = m.regs[LastReg(p)] /\ e = Operand(s, 0)
      BY <1>4, <1>5, <1>10
    <3> QED BY <3>1, <2>3, <2>6, <1>9, TopOperand, LastRegTop
  <2>8. s' = Yield(s, n - b, MixAll(e, Meant))
    BY <1>6, <1>10, <2>3
  <2> QED BY <1>1, <1>6, <1>7, <1>8, <2>3, <2>4, <2>5, <2>7, <2>8, EndedValues
<1>11. CASE ~byValue
  <2>1. Held(Top) = 0
    BY <1>2, <1>6, <1>11, HeldFacts
  <2>2. /\ n - n = 0 /\ n = n - Ready(need) - Held(Top)
    BY <1>8, <2>1
  <2>3. q = NewReg(p) /\ c = 0 /\ e = 0
    BY <1>3, <1>4, <1>5, <1>11
  <2>4. /\ Stepped(p, n, todo, q, n + 1, n) /\ q.cache = p.cache
        /\ OpReg(q, n + 1, n + 1) = Dest(q) /\ Dest(q) \in Reg /\ Dest(q) \notin Cached(q)
    BY <1>7, <1>9, <2>3, FreshNew
  <2>5. q \in RegState
    BY <2>4 DEF Stepped
  <2>6. c \in Val /\ e \in SVal /\ e = c
    BY <2>3, ValueFacts
  <2>7. s' = Yield(s, n - n, MixAll(e, Meant))
    BY <1>6, <1>11, <2>2
  <2> QED BY <1>1, <1>6, <1>7, <1>8, <2>2, <2>4, <2>5, <2>6, <2>7, EndedValues
<1> QED BY <1>10, <1>11

LEMMA EndNewValues ==
  ASSUME Steps, EndNew
  PROVE  ValueInv'
<1>1. PICK n \in Nat : n = Len(s.vals)
  BY StepsFacts, CoreFacts
<1>2. PICK q : q = NewReg(p)
  OBVIOUS
<1>3. /\ need = "comma" /\ Top.k = "new" /\ todo' = Below /\ need' = "more"
      /\ SameScope /\ last' = Other
      /\ p' = (IF q.full THEN q ELSE ReleaseAll(SetAllUnused(q, Top.params), Top.params))
      /\ m' = Put(m, Dest(q), MixAll(0, Passed)) /\ s' = Yield(s, 0, MixAll(0, Meant))
  BY <1>2, ReadsFacts DEF EndNew, Go
<1>4. ~q.full /\ p' = ReleaseAll(SetAllUnused(q, Top.params), Top.params)
  BY <1>3, StepsFacts
<1>5. Top.k \in ListKinds /\ Ready(need') = 1 /\ Ready(need) = 0 /\ Held(Top) = 0
  BY <1>3, ReadyFacts, HeldFacts DEF ListKinds
<1>6. p \in RegState /\ Alloc(p, n, todo) /\ ~p.full
  BY <1>1, StepsFacts, LiveFacts
<1>7. n - n = 0 /\ n = n - Ready(need) - Held(Top)
  BY <1>5
<1>8. /\ Stepped(p, n, todo, q, n + 1, n) /\ q.cache = p.cache
      /\ OpReg(q, n + 1, n + 1) = Dest(q) /\ Dest(q) \in Reg /\ Dest(q) \notin Cached(q)
  BY <1>2, <1>4, <1>6, FreshNew
<1>9. q \in RegState
  BY <1>8 DEF Stepped
<1>10. PICK c : c = 0
  OBVIOUS
<1>11. c \in Val /\ c \in SVal
  BY <1>10, ValueFacts
<1>12. m' = Put(m, Dest(q), MixAll(c, Passed)) /\ s' = Yield(s, n - n, MixAll(c, Meant))
  BY <1>3, <1>7, <1>10
<1> QED BY <1>1, <1>3, <1>4, <1>5, <1>7, <1>8, <1>9, <1>11, <1>12, EndedValues

(* The last operand becomes the last argument of a construct. *)
LEMMA TakenValues ==
  ASSUME Steps, Ready(need) = 1, ~Dropped(todo, need), NEW n, n = Len(s.vals),
         NEW c, c \in {Len(todo), Len(todo) - 1}, Shares(todo, todo', c),
         c = Len(todo) \/ Top.k \notin LabelKinds,
         p' = TakeTop(p), s' = Drop(s, 1), m' = m, SameScope, last' = last,
         Moved(p, n, p', n - 1, n - 1), \A i \in c + 1 .. Len(todo') : todo'[i].k # "then",
         \A i \in c + 1 .. Len(todo') : \A j \in DOMAIN todo'[i].params :
           \/ /\ i \in DOMAIN todo /\ j \in DOMAIN todo[i].params
              /\ todo'[i].params[j] = todo[i].params[j]
           \/ todo'[i].params[j] = Param
  PROVE  ValueInv'
<1>1. n \in Nat /\ p \in RegState /\ Reading(s, vars) /\ n <= Len(p.rstack)
  BY StepsFacts, CoreFacts
<1>2. n \in 1 .. n /\ s.vals[n] \in SVal
  BY ReadyKnown
<1>3. PICK k \in Nat : k = n - 1
  BY ONLY <1>1, <1>2
<1>4. 1 \in Nat /\ 1 <= n /\ k <= n /\ k # n /\ n \in Nat \ {0}
  BY <1>1, <1>2, <1>3
<1>5. /\ Len(s'.vals) = k /\ \A v \in 1 .. k : s'.vals[v] = s.vals[v]
      /\ s'.at = s.at /\ s'.env = s.env /\ s'.field = s.field /\ s'.ret = s.ret
  <2>1. PICK g : g = s'
    OBVIOUS
  <2>2. Drops(vars, s, n, 1, g)
    BY <1>1, <1>4, <2>1 DEF Drops
  <2> QED BY ONLY <2>1, <2>2, <1>3, DropFacts
<1>6. \A v \in 1 .. k : OpReg(p', k, v) = OpReg(p, n, v)
  BY <1>3 DEF Moved
<1>7. p'.cache = p.cache
  BY <1>1, CacheThere, CacheSame
<1>8. Param.reg = OpReg(p, n, n) /\ Param.val = s.vals[n]
  <2>1. Param.reg = LastReg(p) /\ Param.val = Operand(s, 0)
    BY StepsFacts, ParamFacts
  <2>2. OpReg(p, n, n) = LastReg(p)
    BY <1>1, <1>4, OpRegLast
  <2>3. Operand(s, 0) = s.vals[n]
    BY <1>1 DEF Operand
  <2> QED BY <2>1, <2>2, <2>3
<1>9. Rests(k, c)
  BY <1>4, <1>5, <1>6, <1>7, <1>8 DEF Rests
<1> QED BY <1>9, RestsValues

LEMMA CallValues ==
  ASSUME Steps, NEW kind \in {"call", "method", "fncall", "new"}, Call(kind)
  PROVE  ValueInv'
<1>1. PICK o : o = Item(kind)
  OBVIOUS
<1>2. PICK h \in Nat : h = Len(todo)
  BY StepsFacts, CoreFacts
<1>3. m' = m /\ last' = last /\ SameScope
  BY DEF Call
<1>4. CASE kind # "method"
  <2>1. /\ need \in {"value", "more"} /\ todo' = todo \o <<o, Item("expr")>> /\ p' = p /\ s' = s
    BY <1>1, <1>4, ReadsFacts DEF Call, Open
  <2>2. o.k # "then" /\ Item("expr").k # "then" /\ o.params = <<>> /\ Item("expr").params = <<>>
    BY <1>1, Plain
  <2>3. ~Dropped(todo, need)
    BY <2>1, StepsFacts, NotDropped
  <2> QED BY <1>3, <2>1, <2>2, <2>3, OpenedValues
<1>5. CASE kind = "method"
  <2>1. PICK a : a = [Item(kind) EXCEPT !.params = <<Param>>]
    OBVIOUS
  <2>2. PICK n : n = Len(s.vals)
    OBVIOUS
  <2>3. /\ need = "more" /\ todo' = todo \o <<a, Item("expr")>> /\ p' = TakeTop(p) /\ s' = Drop(s, 1)
    BY <1>5, <2>1, ReadsFacts DEF Call, Open
  <2>4. a.params = <<Param>> /\ a.k = "method"
    BY <1>5, <2>1 DEF Item
  <2>5. Ready(need) = 1 /\ ~Dropped(todo, need)
    BY <2>3, StepsFacts, NotDropped, ReadyFacts
  <2>6. /\ Shares(todo, todo', h) /\ Len(todo') = h + 2 /\ todo'[h + 1] = a /\ todo'[h + 2] = Item("expr")
    BY <1>2, <2>3, StepsFacts, OpenShares
  <2>7. \A i \in h + 1 .. Len(todo') : i = h + 1 \/ i = h + 2
    BY <2>6
  <2>8. Moved(p, n, p', n - 1, n - 1)
    BY <2>2, <2>3, <2>4, <2>5, StepsFacts, MethodTakes
  <2>9. Item("expr").params = <<>> /\ Item("expr").k = "expr"
    BY Plain
  <2>10. \A i \in h + 1 .. Len(todo') : todo'[i].k # "then"
    BY <2>4, <2>6, <2>7, <2>9
  <2>11. \A i \in h + 1 .. Len(todo') : \A j \in DOMAIN todo'[i].params : todo'[i].params[j] = Param
    <3>1. DOMAIN a.params = {1} /\ a.params[1] = Param
      BY <2>4
    <3> QED BY <3>1, <2>6, <2>7, <2>9, NoArgs
  <2> QED BY <1>2, <1>3, <2>2, <2>3, <2>5, <2>6, <2>8, <2>10, <2>11, TakenValues
<1> QED BY <1>4, <1>5

LEMMA ArgumentValues ==
  ASSUME Steps, Argument
  PROVE  ValueInv'
<1>1. PICK o : o = [Top EXCEPT !.params = Append(@, Param)]
  OBVIOUS
<1>2. PICK h \in Nat : h = Len(todo)
  BY StepsFacts, CoreFacts
<1>3. PICK n : n = Len(s.vals)
  OBVIOUS
<1>4. /\ need = "done" /\ Top.k \in {"call", "method", "fncall", "new"} /\ SameScope
      /\ todo' = Append(Below, o) /\ p' = TakeTop(p) /\ s' = Drop(s, 1) /\ m' = m /\ last' = last
  BY <1>1, ReadsFacts DEF Argument
<1>5. /\ Top.k \notin LabelKinds /\ Top.k # "func" /\ Top.k # "effect" /\ Top.k # "then"
  BY <1>4, KindFacts DEF OperandKinds, ListKinds
<1>6. Ready(need) = 1 /\ ~Dropped(todo, need)
  BY <1>4, <1>5, StepsFacts, NotDropped, ReadyFacts
<1>7. Top \in ItemSet /\ Top.params \in Seq(ParamSet) /\ Top = todo[h] /\ DOMAIN todo = 1 .. h /\ h \in Nat \ {0}
  BY <1>2, StepsFacts, CoreFacts
<1>8. o.params = Append(Top.params, Param) /\ o.k = Top.k
  BY <1>1, <1>7 DEF ItemSet
<1>9. Shares(todo, todo', h - 1) /\ Len(todo') = h /\ todo'[h] = o
  BY <1>2, <1>4, StepsFacts, TodoShares
<1>10. Moved(p, n, p', n - 1, n - 1)
  BY <1>3, <1>4, <1>5, <1>6, <1>8, StepsFacts, ArgumentTakes
<1>11. \A i \in (h - 1) + 1 .. Len(todo') : i = h
  BY <1>9, <1>7
<1>12. \A i \in (h - 1) + 1 .. Len(todo') : todo'[i].k # "then"
  BY <1>5, <1>8, <1>9, <1>11
<1>13. \A j \in DOMAIN o.params : (j \in DOMAIN Top.params /\ o.params[j] = Top.params[j]) \/ o.params[j] = Param
  <2>1. Param \in ParamSet
    BY <1>6, StepsFacts, ParamFacts
  <2> QED BY <1>7, <1>8, <2>1, AppendFacts
<1>14. \A i \in (h - 1) + 1 .. Len(todo') : \A j \in DOMAIN todo'[i].params :
         \/ /\ i \in DOMAIN todo /\ j \in DOMAIN todo[i].params
            /\ todo'[i].params[j] = todo[i].params[j]
         \/ todo'[i].params[j] = Param
  BY <1>7, <1>9, <1>11, <1>13
<1> QED BY <1>2, <1>3, <1>4, <1>5, <1>6, <1>9, <1>10, <1>12, <1>14, TakenValues

-----------------------------------------------------------------------------
(* The values, action by action: statements.                               *)

(* A statement that only reads is over. *)
LEMMA OverValues ==
  ASSUME Steps, need = "done", Top.k \in StatementKinds, NEW q, q \in RegState, q.cache = p.cache,
         Over(q, s, Below), m' = m, SameScope, last' \in {last, Other}
  PROVE  ValueInv'
<1>1. PICK h \in Nat : h = Len(todo)
  BY StepsFacts, CoreFacts
<1>2. Top.k \notin LabelKinds /\ Top.k # "func"
  BY KindFacts, KindsApart DEF StatementKinds
<1>3. Finishes(q, s, Below, vars)
  BY StepsFacts, CoreFacts DEF Finishes
<1>4. /\ s'.vals = <<>> /\ Len(s'.vals) = 0
      /\ s'.env = s.env /\ s'.at = s.at /\ s'.field = s.field /\ s'.ret = s.ret /\ todo' = Below
  BY <1>3, OverFacts
<1>5. Shares(todo, todo', h - 1) /\ Len(todo') = h - 1
  BY <1>1, <1>2, <1>4, StepsFacts, TodoShares
<1>6. p'.cache = p.cache
  <2>1. p' = q \/ p' = FlushFree(q)
    BY DEF Over
  <2> QED BY <2>1, FlushFreeFacts
<1>7. \A i \in (h - 1) + 1 .. Len(todo') : FALSE
  BY <1>5
<1>8. PICK k \in Nat : k = 0
  OBVIOUS
<1>9. (\A v \in 1 .. k : FALSE) /\ k <= Len(s.vals) /\ k = 0 /\ Len(s'.vals) = k
  BY <1>4, <1>8, StepsFacts, CoreFacts
<1>10. Rests(k, h - 1)
  BY <1>1, <1>2, <1>4, <1>5, <1>6, <1>7, <1>8, <1>9 DEF Rests
<1> QED BY <1>10, RestsValues

LEMMA EndEffectValues ==
  ASSUME Steps, EndEffect
  PROVE  ValueInv'
<1>1. /\ need = "done" /\ Top.k = "effect" /\ Over(p, s, Below) /\ SameScope /\ m' = m /\ last' = last
  BY ReadsFacts DEF EndEffect
<1>2. Top.k \in StatementKinds /\ p \in RegState
  BY <1>1, StepsFacts, CoreFacts DEF StatementKinds
<1> QED BY <1>1, <1>2, OverValues

LEMMA PrintValueValues ==
  ASSUME Steps, PrintValue
  PROVE  ValueInv'
<1>1. /\ need = "done" /\ Top.k = "print" /\ SameScope /\ m' = m /\ last' = Other
      /\ \/ Over(PopReg(p), s, Below)
         \/ /\ p' = PopReg(p) /\ s' = Drop(s, 1)
            /\ todo' = Append(todo, Item("expr")) /\ need' = "value"
  BY ReadsFacts DEF PrintValue
<1>2. Top.k \in StatementKinds /\ p \in RegState /\ Reading(s, vars) /\ Len(s.vals) <= Len(p.rstack)
  BY <1>1, StepsFacts, CoreFacts DEF StatementKinds
<1>3. PICK n \in Nat : n = Len(s.vals)
  BY StepsFacts, CoreFacts
<1>4. Ready(need) = 1 /\ ~Dropped(todo, need)
  BY <1>1, StepsFacts, NotDropped, ReadyFacts
<1>5. n \in 1 .. n
  BY <1>3, <1>4, ReadyKnown
<1>6. PICK k \in Nat : k = n - 1
  BY <1>5
<1>7. 1 \in Nat /\ 1 <= n /\ k <= n /\ k # n /\ n \in Nat \ {0}
  BY <1>5, <1>6
<1>8. Alloc(p, n, todo)
  BY <1>3, StepsFacts, LiveFacts
<1>9. PICK q : q = PopReg(p)
  OBVIOUS
<1>10. q \in RegState /\ q.cache = p.cache
  <2>1. Len(p.rstack) > 0
    BY <1>2, <1>3, <1>7, StepsFacts, CoreFacts
  <2> QED BY <2>1, <1>2, <1>9, PopRegFacts
<1>11. CASE Over(PopReg(p), s, Below)
  BY <1>1, <1>2, <1>9, <1>10, <1>11, OverValues
<1>12. CASE p' = PopReg(p) /\ s' = Drop(s, 1) /\ todo' = Append(todo, Item("expr"))
  <2>1. PICK h \in Nat : h = Len(todo)
    BY StepsFacts, CoreFacts
  <2>2. PICK g : g = s'
    OBVIOUS
  <2>3. /\ Len(g.vals) = k /\ \A v \in 1 .. k : g.vals[v] = s.vals[v]
        /\ g.at = s.at /\ g.env = s.env /\ g.field = s.field /\ g.ret = s.ret
    <3>1. Drops(vars, s, n, 1, g)
      BY <1>2, <1>3, <1>7, <1>12, <2>2 DEF Drops
    <3> QED BY <3>1, <1>6, DropFacts
  <2>4. \A v \in 1 .. k : OpReg(q, k, v) = OpReg(p, n, v)
    <3>1. Stepped(p, n, todo, q, n - 1, n - 1)
      BY <1>2, <1>7, <1>8, <1>9, AllocPopped
    <3> QED BY <3>1, <1>6 DEF Stepped
  <2>5. Shares(todo, todo', h) /\ Len(todo') = h + 1 /\ todo'[h + 1] = Item("expr")
    BY <1>12, <2>1, StepsFacts, TodoShares
  <2>6. Item("expr").params = <<>> /\ Item("expr").k = "expr"
    BY Plain
  <2>7. \A i \in h + 1 .. Len(todo') : todo'[i].k # "then" /\ todo'[i].params = <<>>
    <3>1. \A i \in h + 1 .. Len(todo') : i = h + 1
      BY <2>5
    <3> QED BY <3>1, <2>5, <2>6
  <2>8. \A i \in h + 1 .. Len(todo') : DOMAIN todo'[i].params = {}
    BY <2>7, NoArgs
  <2>9. p' = q
    BY <1>9, <1>12
  <2>10. Rests(k, h)
    BY <1>1, <1>3, <1>7, <1>10, <2>1, <2>2, <2>3, <2>4, <2>5, <2>7, <2>8, <2>9 DEF Rests
  <2> QED BY <2>10, RestsValues
<1> QED BY <1>1, <1>11, <1>12

-----------------------------------------------------------------------------
(* The values, action by action: variables.                                *)

(* A name in scope has one of the places taken. *)
LEMMA LocalPlaced ==
  ASSUME CoreInv, NEW i \in DOMAIN vars, NEW x \in DOMAIN vars[i]
  PROVE  vars[i][x] \in 0 .. placed - 1 /\ vars[i][x] \in 0 .. MaxLocals - 1
<1>1. /\ vars \in Seq(Scope(0 .. MaxLocals - 1)) /\ Placed(vars, placed)
  BY CoreFacts
<1>2. PICK k \in Nat : k = Len(vars)
  BY <1>1, SizesType
<1>3. /\ DOMAIN vars = 1 .. k /\ \A j \in 1 .. k : Sizes(vars)[j] \in Nat
      /\ \A j \in 0 .. k : Total(Sizes(vars), j) \in Nat
      /\ placed = Total(Sizes(vars), k)
  BY <1>1, <1>2, SizesType
<1>4. i \in 1 .. k /\ i \in 0 .. k /\ i - 1 \in 0 .. k
  BY <1>2, <1>3
<1>5. Total(Sizes(vars), i) <= Total(Sizes(vars), k)
  BY <1>2, <1>3, <1>4, TotalMonotonic
<1>6. Total(Sizes(vars), i - 1) <= vars[i][x] /\ vars[i][x] < Total(Sizes(vars), i)
  BY <1>1 DEF Placed
<1>7. vars[i][x] \in 0 .. MaxLocals - 1
  <2>1. vars[i] \in Scope(0 .. MaxLocals - 1)
    BY <1>1
  <2>2. PICK D \in SUBSET Names : vars[i] \in [D -> 0 .. MaxLocals - 1]
    BY <2>1 DEF Scope
  <2> QED BY <2>2
<1>8. PICK a \in Nat : a = Total(Sizes(vars), i)
  BY <1>3, <1>4
<1>9. PICK c \in Nat : c = Total(Sizes(vars), k)
  BY <1>2, <1>3
<1>10. PICK v : v = vars[i][x]
  OBVIOUS
<1>11. v \in 0 .. MaxLocals - 1 /\ v < a /\ a <= c /\ c = placed
  BY <1>3, <1>5, <1>6, <1>7, <1>8, <1>9, <1>10
<1>12. v \in 0 .. placed - 1
  BY ONLY <1>8, <1>9, <1>11, CompileAssumption
<1> QED BY <1>7, <1>10, <1>12

(* Running, the source knows its variables, and the machine has their values. *)
LEMMA NameKnown ==
  ASSUME Steps, NEW i \in DOMAIN vars, NEW x \in DOMAIN vars[i]
  PROVE  /\ m.locals[vars[i][x]] \in Val /\ s.env[i][x] \in SVal
         /\ Running(s) => s.env[i][x] = m.locals[vars[i][x]]
<1>1. m \in Machine /\ Reading(s, vars) /\ vars[i][x] \in 0 .. MaxLocals - 1
  BY StepsFacts, CoreFacts, LocalPlaced
<1>2. m.locals[vars[i][x]] \in Val
  BY <1>1, MachineFacts
<1>3. /\ i \in DOMAIN s.env /\ x \in DOMAIN s.env[i] /\ s.env[i] \in Scope(SVal)
  <2>1. vars \in Seq(Scope(0 .. MaxLocals - 1)) /\ s.env \in Seq(Scope(SVal)) /\ Len(s.env) = Len(vars)
        /\ DOMAIN s.env[i] = DOMAIN vars[i]
    BY <1>1, StepsFacts, CoreFacts, SourceFacts DEF Reading
  <2>2. i \in DOMAIN s.env
    BY <2>1
  <2> QED BY <2>1, <2>2
<1>4. s.env[i][x] \in SVal
  <2>1. PICK D \in SUBSET Names : s.env[i] \in [D -> SVal]
    BY <1>3 DEF Scope
  <2> QED BY <2>1, <1>3
<1>5. ASSUME Running(s) PROVE s.env[i][x] = m.locals[vars[i][x]]
  <2>1. s.env[i][x] # Unknown
    BY <1>3, <1>5, StepsFacts DEF KnownNames
  <2> QED BY <2>1, StepsFacts DEF NamesAgree
<1> QED BY <1>2, <1>4, <1>5

(* A register that was free was no operand's and no argument's. *)
LEMMA FreeAlone ==
  ASSUME Steps, NEW n, n = Len(s.vals), NEW d, d \notin p.used
  PROVE  /\ \A v \in 1 .. n : OpReg(p, n, v) # d
         /\ \A i \in DOMAIN todo : \A k \in DOMAIN todo[i].params : todo[i].params[k].reg # d
         /\ d \notin Cached(p)
<1>1. Alloc(p, n, todo)
  BY StepsFacts, LiveFacts
<1> QED BY <1>1 DEF Alloc

LEMMA FreeResult ==
  ASSUME Steps, NEW b, NEW d, NEW w, NEW a, Result(b, d, w, a), d \notin p.used
  PROVE  Alone(b, d)
<1>1. PICK n \in Nat : n = Len(s.vals)
  BY StepsFacts, CoreFacts
<1>2. /\ b \in Nat /\ b <= n /\ SameArgs(todo, todo')
      /\ \A v \in 1 .. b : OpReg(p', b + 1, v) = OpReg(p, n, v)
  BY <1>1 DEF Result
<1>3. /\ \A v \in 1 .. n : OpReg(p, n, v) # d
      /\ \A i \in DOMAIN todo : \A k \in DOMAIN todo[i].params : todo[i].params[k].reg # d
  BY <1>1, FreeAlone
<1>4. \A v \in 1 .. b : v \in 1 .. n
  BY <1>1, <1>2
<1>5. \A i \in DOMAIN todo' : \A k \in DOMAIN todo'[i].params : todo'[i].params[k].reg # d
  BY <1>2, <1>3, NoArgs DEF SameArgs
<1> QED BY <1>2, <1>3, <1>4, <1>5 DEF Alone

(* What a load leaves of the cache. *)
LEMMA LoadFacts ==
  ASSUME NEW q, NEW n, NEW t, NEW l, NEW a, NEW r, Loads(q, n, t, l, a, r), NEW d, d = LastReg(a)
  PROVE  /\ d \in Reg \ q.used /\ OpReg(r, n + 1, n + 1) = d
         /\ DOMAIN r.cache = DOMAIN q.cache /\ l + 1 \in DOMAIN q.cache
         /\ \A k \in DOMAIN q.cache : r.cache[k] = IF k = l + 1 THEN d ELSE q.cache[k]
         /\ \A v \in 1 .. n : OpReg(r, n + 1, v) = OpReg(q, n, v)
<1>0. /\ q \in RegState /\ n \in Nat /\ Alloc(q, n, t) /\ ~q.full /\ l \in Nat
      /\ l < Len(q.cache) /\ a = NewReg(q) /\ ~a.full
      /\ r = [a EXCEPT !.cache[l + 1] = d, !.pinned = @ \union {d}]
  BY DEF Loads
<1>1. d \in Reg \ q.used /\ a = PushReg(q, d) /\ a \in RegState
  BY <1>0, NewRegFacts
<1>2. a.cache = q.cache /\ LastReg(a) = d
  BY <1>0, <1>1, PushRegFacts
<1>3. /\ r.rstack = a.rstack /\ DOMAIN r.cache = DOMAIN q.cache /\ l + 1 \in DOMAIN q.cache
      /\ \A k \in DOMAIN q.cache : r.cache[k] = IF k = l + 1 THEN d ELSE q.cache[k]
  <2>1. a.cache \in Seq(Reg) /\ Len(a.cache) \in Nat /\ DOMAIN a.cache = 1 .. Len(a.cache)
    BY <1>1, RegStateFacts
  <2>2. l + 1 \in 1 .. Len(a.cache)
    BY <2>1, <1>0, <1>2
  <2>3. r = [a EXCEPT !.cache = [a.cache EXCEPT ![l + 1] = d], !.pinned = a.pinned \cup {d}]
    BY <1>0, <1>1 DEF RegState
  <2>4. r.rstack = a.rstack /\ r.cache = [a.cache EXCEPT ![l + 1] = d]
    BY <2>3, <1>1 DEF RegState
  <2> QED BY <2>1, <2>2, <2>4, <1>2
<1>4. /\ r \in RegState /\ Alloc(r, n + 1, t)
      /\ \A v \in 1 .. n : OpReg(r, n + 1, v) = OpReg(q, n, v)
  BY AllocLoad
<1>5. OpReg(r, n + 1, n + 1) = LastReg(r)
  <2>1. Len(r.rstack) \in Nat /\ n + 1 <= Len(r.rstack) /\ n + 1 \in Nat \ {0}
    BY <1>0, <1>4, RegStateFacts DEF Alloc
  <2> QED BY <2>1, <1>4, OpRegLast
<1>6. LastReg(r) = d
  BY <1>2, <1>3 DEF LastReg
<1> QED BY <1>1, <1>3, <1>4, <1>5, <1>6

(* Where the innermost construct stays and its value is complete. *)
LEMMA SourcedHere ==
  ASSUME Steps, NEW n, n = Len(s.vals), NEW d, NEW w, NEW a, Result(n, d, w, a),
         need = "value", todo' = todo
  PROVE  Sourced(s', todo', need')
<1>1. Upto(todo, Len(todo)) = n - Ready(need) /\ n \in Nat /\ Ready(need) = 0
  BY StepsFacts, Waiting, ReadyFacts
<1>2. n = Upto(todo, Len(todo))
  BY <1>1
<1>3. Shares(todo, todo', Len(todo))
  BY StepsFacts, TodoShares
<1> QED BY <1>2, <1>3, ResultSourced

(* The value of a variable, loaded. *)
LEMMA LoadedValues ==
  ASSUME Steps, NEW x, Declared(x), NEW l, l = LocalOf(x), need = "value",
         NEW g, g = Grown(p, l), CachedReg(g, l) = NoReg, NEW y, y = NewReg(g), ~y.full,
         NEW q, p' = q, q = [y EXCEPT !.cache[l + 1] = LastReg(y), !.pinned = @ \union {LastReg(y)}],
         m' = Put(m, LastReg(y), m.locals[l]), s' = Yield(s, 0, s.env[ScopeOf(x)][x]),
         last' = [op |-> "load", reg |-> LastReg(y), local |-> l, depth |-> 0],
         SameScope, todo' = todo
  PROVE  ValueInv'
<1>1. PICK n \in Nat : n = Len(s.vals)
  BY StepsFacts, CoreFacts
<1>2. PICK d : d = LastReg(y)
  OBVIOUS
<1>3. PICK i : i = ScopeOf(x)
  OBVIOUS
<1>4. i \in DOMAIN vars /\ x \in DOMAIN vars[i] /\ l = vars[i][x] /\ l \in Nat
  BY <1>3, StepsFacts, LocalFacts
<1>5. l \in 0 .. placed - 1 /\ l \in 0 .. MaxLocals - 1
  BY <1>4, StepsFacts, LocalPlaced
<1>6. PICK w : w = m.locals[l]
  OBVIOUS
<1>7. PICK a : a = s.env[i][x]
  OBVIOUS
<1>8. w \in Val /\ a \in SVal /\ (Running(s) => a = w)
  BY <1>4, <1>6, <1>7, NameKnown
<1>9. p \in RegState /\ Alloc(p, n, todo) /\ ~p.full
  BY <1>1, StepsFacts, LiveFacts
<1>10. Stepped(p, n, todo, g, n, n) /\ ~g.full /\ g.used = p.used
  BY <1>4, <1>9, AllocGrown
<1>11. /\ g \in RegState /\ l < Len(g.cache) /\ DOMAIN g.cache = 1 .. Len(g.cache) /\ Len(p.cache) \in Nat
       /\ \A k \in DOMAIN g.cache : g.cache[k] = IF k <= Len(p.cache) THEN p.cache[k] ELSE NoReg
       /\ DOMAIN p.cache = 1 .. Len(p.cache)
  BY <1>4, <1>9, GrownFacts, RegStateFacts
<1>12. Loads(g, n, todo, l, y, q)
  BY <1>4, <1>10, <1>11 DEF Loads, Stepped
<1>13. /\ d \in Reg \ g.used /\ OpReg(q, n + 1, n + 1) = d
       /\ DOMAIN q.cache = DOMAIN g.cache /\ l + 1 \in DOMAIN g.cache
       /\ \A k \in DOMAIN g.cache : q.cache[k] = IF k = l + 1 THEN d ELSE g.cache[k]
       /\ \A v \in 1 .. n : OpReg(q, n + 1, v) = OpReg(g, n, v)
  BY ONLY <1>2, <1>12, LoadFacts
<1>14. \A v \in 1 .. n : OpReg(q, n + 1, v) = OpReg(p, n, v)
  BY <1>10, <1>13 DEF Stepped
<1>15. d \in Reg /\ d \notin p.used
  BY <1>10, <1>13
<1>16. Result(n, d, w, a)
  <2>1. m' = Put(m, d, w) /\ s' = Yield(s, 0, a) /\ n - n = 0
    BY <1>2, <1>3, <1>6, <1>7
  <2>2. s' = Yield(s, n - n, a)
    BY <2>1
  <2>3. SameArgs(todo, todo')
    BY SameArgsFacts
  <2> QED BY <1>1, <1>8, <1>13, <1>14, <1>15, <2>1, <2>2, <2>3 DEF Result
<1>17. Alone(n, d)
  BY <1>15, <1>16, FreeResult
<1>18. Followed(p', m', s', todo', vars')
  BY <1>16, <1>17, ResultFollowed
<1>19. Sourced(s', todo', need')
  BY <1>1, <1>16, SourcedHere
<1>20. Recaches(d, w)
  <2>1. SUFFICES ASSUME NEW k \in DOMAIN q.cache, q.cache[k] # NoReg
        PROVE  \/ k \in DOMAIN p.cache /\ q.cache[k] = p.cache[k] /\ (p.cache[k] # d \/ m.regs[d] = w)
               \/ k - 1 \in 0 .. placed - 1 /\ k \in Nat /\ q.cache[k] = d /\ w = m.locals[k - 1]
    BY DEF Recaches
  <2>2. CASE k = l + 1
    <3>1. k - 1 = l /\ k \in Nat
      BY <1>4, <2>2
    <3>2. q.cache[k] = d
      BY <1>13, <2>1, <2>2
    <3> QED BY <3>1, <3>2, <1>5, <1>6
  <2>3. CASE k # l + 1
    <3>1. q.cache[k] = g.cache[k] /\ k \in DOMAIN g.cache
      BY <1>13, <2>1, <2>3
    <3>2. k <= Len(p.cache) /\ q.cache[k] = p.cache[k]
      BY <3>1, <1>11, <2>1
    <3>3. k \in DOMAIN p.cache
      BY <3>1, <3>2, <1>11
    <3>4. p.cache[k] \in p.used
      BY <3>2, <3>3, <2>1, <1>9 DEF Alloc, Cached
    <3> QED BY <3>2, <3>3, <3>4, <1>15
  <2> QED BY <2>2, <2>3
<1>21. Faithful(p', m', placed')
  BY <1>16, <1>20, ResultFaithful
<1>22. LoadKept(m', last') /\ Silent(m', todo', last')
  <2>1. PICK e : e = m'
    OBVIOUS
  <2>2. e = Put(m, d, w) /\ m \in Machine
    BY <2>1, <1>2, <1>6, StepsFacts, CoreFacts
  <2>3. e.at = m.at /\ e.locals = m.locals /\ (Running(m) => e.regs[d] = w)
    BY <2>2, <1>8, <1>15, PutFacts
  <2>4. last'.op = "load" /\ last'.reg = d /\ last'.local = l
    BY <1>2
  <2>5. LoadKept(e, last')
    BY <2>3, <2>4, <1>6 DEF LoadKept, Running
  <2> QED BY <2>1, <2>4, <2>5 DEF Silent
<1> QED BY <1>18, <1>19, <1>21, <1>22 DEF ValueInv, Backed

(* The value of a variable whose register is cached. *)
LEMMA CachedValues ==
  ASSUME Steps, NEW x, Declared(x), NEW l, l = LocalOf(x), need = "value",
         NEW r, r = CachedReg(p, l), r # NoReg,
         NEW q, p' = q, q = [PushReg(p, r) EXCEPT !.pinned = @ \union {r}], m' = m,
         s' = Yield(s, 0, s.env[ScopeOf(x)][x]), last' = last, SameScope, todo' = todo
  PROVE  ValueInv'
<1>1. PICK n \in Nat : n = Len(s.vals)
  BY StepsFacts, CoreFacts
<1>2. PICK i : i = ScopeOf(x)
  OBVIOUS
<1>3. i \in DOMAIN vars /\ x \in DOMAIN vars[i] /\ l = vars[i][x] /\ l \in Nat
  BY <1>2, StepsFacts, LocalFacts
<1>4. PICK w : w = m.regs[r]
  OBVIOUS
<1>5. PICK a : a = s.env[i][x]
  OBVIOUS
<1>6. p \in RegState /\ Alloc(p, n, todo) /\ ~p.full
  BY <1>1, StepsFacts, LiveFacts
<1>7. l + 1 \in DOMAIN p.cache /\ r = p.cache[l + 1] /\ r \in Reg
  <2>1. l < Len(p.cache) /\ r = p.cache[l + 1]
    BY DEF CachedReg
  <2>2. l + 1 \in DOMAIN p.cache
    BY <2>1, <1>3, <1>6, RegStateFacts
  <2> QED BY <2>1, <2>2, <1>6, RegStateFacts
<1>8. r \in Cached(p)
  BY <1>7 DEF Cached
<1>9. w \in Val /\ a \in SVal /\ (Running(s) => a = w)
  <2>1. w \in Val
    BY <1>4, <1>7, StepsFacts, CoreFacts, MachineFacts
  <2>2. a \in SVal /\ (Running(s) => a = m.locals[l])
    BY <1>3, <1>5, NameKnown
  <2>3. l + 1 - 1 = l
    BY <1>3
  <2>4. Running(s) => w = m.locals[l]
    <3>1. Faithful(p, m, placed) /\ (Running(s) => m.at = Run) /\ p.cache[l + 1] # NoReg
      BY <1>7, StepsFacts DEF Running
    <3>2. PICK k : k = l + 1
      OBVIOUS
    <3>3. Running(s) => m.regs[p.cache[k]] = m.locals[k - 1]
      BY ONLY <3>1, <3>2, <1>7 DEF Faithful
    <3>4. p.cache[k] = r /\ k - 1 = l
      BY <3>2, <1>3, <1>7
    <3> QED BY ONLY <3>3, <3>4, <1>4
  <2> QED BY <2>1, <2>2, <2>3, <2>4
<1>10. Stepped(p, n, todo, q, n + 1, n)
  BY <1>6, <1>8, AllocPin
<1>11. q.cache = p.cache /\ OpReg(q, n + 1, n + 1) = r
  <2>1. PICK z : z = PushReg(p, r)
    OBVIOUS
  <2>2. z \in RegState /\ z.cache = p.cache /\ LastReg(z) = r
    BY <2>1, <1>6, <1>7, PushRegFacts
  <2>3. q.cache = z.cache /\ q.rstack = z.rstack
    BY <2>1, <2>2 DEF RegState
  <2>4. q \in RegState /\ Len(q.rstack) \in Nat /\ n + 1 <= Len(q.rstack) /\ n + 1 \in Nat \ {0}
    BY <1>10, RegStateFacts DEF Stepped, Alloc
  <2>5. OpReg(q, n + 1, n + 1) = LastReg(q)
    BY <2>4, OpRegLast
  <2> QED BY <2>2, <2>3, <2>5 DEF LastReg
<1>12. m' = Put(m, r, w)
  BY <1>4, <1>7, StepsFacts, CoreFacts, PutAgain
<1>13. Result(n, r, w, a)
  <2>1. s' = Yield(s, 0, a) /\ n - n = 0
    BY <1>2, <1>5
  <2>2. s' = Yield(s, n - n, a)
    BY <2>1
  <2>3. SameArgs(todo, todo')
    BY SameArgsFacts
  <2>4. \A v \in 1 .. n : OpReg(p', n + 1, v) = OpReg(p, Len(s.vals), v)
    BY <1>1, <1>10 DEF Stepped
  <2>5. OpReg(p', n + 1, n + 1) = r /\ n \in Nat /\ n <= Len(s.vals) /\ r \in Reg
    BY <1>1, <1>7, <1>11
  <2>6. s' = Yield(s, Len(s.vals) - n, a)
    BY <1>1, <2>2
  <2> QED BY ONLY <1>9, <1>12, <2>3, <2>4, <2>5, <2>6, SameScope DEF Result
<1>14. Followed(p', m', s', todo', vars')
  BY <1>4, <1>13, ResultFollowed
<1>15. Sourced(s', todo', need')
  BY <1>1, <1>13, SourcedHere
<1>16. Recaches(r, w)
  BY <1>4, <1>11 DEF Recaches
<1>17. Faithful(p', m', placed')
  BY <1>13, <1>16, ResultFaithful
<1>18. LoadKept(m', last') /\ Silent(m', todo', last')
  BY StepsFacts
<1> QED BY <1>14, <1>15, <1>17, <1>18 DEF ValueInv, Backed

LEMMA IdentifierValues ==
  ASSUME Steps, NEW x \in Names, Identifier(x)
  PROVE  ValueInv'
<1>1. PICK l : l = LocalOf(x)
  OBVIOUS
<1>2. PICK g : g = Grown(p, l)
  OBVIOUS
<1>3. PICK r : r = CachedReg(g, l)
  OBVIOUS
<1>4. PICK y : y = NewReg(g)
  OBVIOUS
<1>5. PICK q : q = p'
  OBVIOUS
<1>6. /\ need = "value" /\ Declared(x) /\ SameScope /\ todo' = todo
      /\ s' = Yield(s, 0, s.env[ScopeOf(x)][x])
  BY <1>1, <1>2, <1>3, <1>4, ReadsFacts DEF Identifier, Go
<1>7. l \in Nat /\ p \in RegState
  BY <1>1, <1>6, StepsFacts, LocalFacts, CoreFacts
<1>8. g \in RegState /\ r = CachedReg(p, l) /\ l < Len(g.cache)
  BY <1>2, <1>3, <1>7, GrownFacts
<1>9. CASE r = NoReg
  <2>1. /\ q = [y EXCEPT !.cache[l + 1] = IF y.full THEN @ ELSE LastReg(y),
                         !.pinned = IF y.full THEN @ ELSE @ \union {LastReg(y)}]
        /\ m' = Put(m, Dest(y), m.locals[l])
        /\ last' = [op |-> "load", reg |-> Dest(y), local |-> l, depth |-> 0]
    BY <1>1, <1>2, <1>3, <1>4, <1>5, <1>9 DEF Identifier, Go
  <2>2. y \in RegState /\ ~y.full
    <3>1. y \in RegState
      BY <1>4, <1>8, NewRegFacts
    <3> QED BY <3>1, <2>1, <1>5, StepsFacts DEF RegState
  <2>3. q = [y EXCEPT !.cache[l + 1] = LastReg(y), !.pinned = @ \union {LastReg(y)}]
    BY <2>1, <2>2
  <2>4. Dest(y) = LastReg(y)
    BY <2>2 DEF Dest
  <2>5. m' = Put(m, LastReg(y), m.locals[l])
        /\ last' = [op |-> "load", reg |-> LastReg(y), local |-> l, depth |-> 0]
    BY <2>1, <2>4
  <2> QED BY <1>1, <1>2, <1>3, <1>4, <1>5, <1>6, <1>9, <2>2, <2>3, <2>5, LoadedValues
<1>10. CASE r # NoReg
  <2>1. q = [PushReg(g, r) EXCEPT !.pinned = @ \union {r}] /\ m' = m /\ last' = last
    BY <1>1, <1>2, <1>3, <1>4, <1>5, <1>10 DEF Identifier, Go
  <2>2. g = p
    <3>1. l < Len(p.cache)
      BY <1>8, <1>10 DEF CachedReg
    <3> QED BY <3>1, <1>2 DEF Grown
  <2>3. q = [PushReg(p, r) EXCEPT !.pinned = @ \union {r}]
    BY <2>1, <2>2
  <2> QED BY <1>1, <1>5, <1>6, <1>8, <1>10, <2>1, <2>3, CachedValues
<1> QED BY <1>9, <1>10

-----------------------------------------------------------------------------
(* The values, action by action: assignments.                              *)

(* Nothing but a variable that is known changes for the source. *)
LEMMA SourcedNames ==
  ASSUME NEW f, NEW t, NEW n, NEW g, Sourced(f, t, n), g.at = f.at, g.vals = f.vals,
         f.at # Stop => KnownNames(g, t)
  PROVE  Sourced(g, t, n)
BY DEF Sourced, KnownOperands, KnownArgs

(* Registers that keep their values: those of the arguments, and of the first b operands. *)
ArgsSame(e) ==
  \A i \in DOMAIN todo : \A j \in DOMAIN todo[i].params :
    e.regs[todo[i].params[j].reg] = m.regs[todo[i].params[j].reg]
Keeping(n, q, e, g, b) ==
  /\ b \in Nat /\ b <= n
  /\ \A v \in DOMAIN g.vals :
       \/ v \in 1 .. b /\ g.vals[v] = s.vals[v] /\ OpReg(q, Len(g.vals), v) = OpReg(p, n, v)
       \/ g.vals[v] = Unknown
       \/ e.regs[OpReg(q, Len(g.vals), v)] = g.vals[v]
  /\ \A v \in 1 .. b : e.regs[OpReg(p, n, v)] = m.regs[OpReg(p, n, v)]

(* The first b operands stay, and the arguments, in registers that keep their values. *)
LEMMA KeptAgree ==
  ASSUME Steps, NEW n, n = Len(s.vals), NEW q, NEW e, NEW g, NEW u, SameArgs(todo, u),
         NEW b, Keeping(n, q, e, g, b), ArgsSame(e)
  PROVE  OperandsAgree(q, e, g) /\ ArgsAgree(e, u)
<1>1. DOMAIN s.vals = 1 .. n /\ n \in Nat
  BY StepsFacts, CoreFacts, SourceFacts
<1>2. OperandsAgree(q, e, g)
  <2>1. SUFFICES ASSUME NEW v \in DOMAIN g.vals, v \in 1 .. b, g.vals[v] = s.vals[v],
                        OpReg(q, Len(g.vals), v) = OpReg(p, n, v)
                 PROVE  g.vals[v] = Unknown \/ e.regs[OpReg(q, Len(g.vals), v)] = g.vals[v]
    BY DEF OperandsAgree, Keeping
  <2>2. v \in DOMAIN s.vals
    BY <2>1, <1>1 DEF Keeping
  <2>3. s.vals[v] = Unknown \/ m.regs[OpReg(p, n, v)] = s.vals[v]
    BY <2>2, StepsFacts DEF OperandsAgree
  <2> QED BY <2>1, <2>3 DEF Keeping
<1>3. ArgsAgree(e, u)
  <2>1. SUFFICES ASSUME NEW i \in DOMAIN u, NEW k \in DOMAIN u[i].params
                 PROVE  \/ u[i].params[k].val = Unknown
                        \/ e.regs[u[i].params[k].reg] = u[i].params[k].val
    BY DEF ArgsAgree
  <2>2. i \in DOMAIN todo /\ u[i].params = todo[i].params
    BY <2>1, NoArgs DEF SameArgs
  <2>3. u[i].params[k].val = Unknown \/ m.regs[u[i].params[k].reg] = u[i].params[k].val
    BY <2>1, <2>2, StepsFacts DEF ArgsAgree
  <2> QED BY <2>1, <2>2, <2>3 DEF ArgsSame
<1> QED BY <1>2, <1>3

(* A variable that gets a value, in the machine and in the source. *)
StoresName(i, x, l, w, a, e, g) ==
  /\ i \in DOMAIN vars /\ x \in DOMAIN vars[i] /\ l = vars[i][x]
  /\ w \in Val /\ a \in SVal /\ (Running(s) => a = w)
  /\ e = PutLocal(m, l, w) /\ g = IF Running(s) THEN [s EXCEPT !.env[i][x] = a] ELSE s

LEMMA NamesStored ==
  ASSUME Steps, NEW i, NEW x, NEW l, NEW w, NEW a, NEW e, NEW g, StoresName(i, x, l, w, a, e, g)
  PROVE  /\ Reading(g, vars) /\ g.vals = s.vals /\ g.at = s.at /\ g.field = s.field /\ g.ret = s.ret
         /\ e \in Machine /\ e.regs = m.regs /\ e.at = m.at /\ e.field = m.field /\ e.ret = m.ret
         /\ NamesAgree(e, g, vars) /\ KnownNames(g, todo)
<1>1. /\ Reading(s, vars) /\ m \in Machine /\ CoreInv /\ m.at = s.at /\ (Running(m) <=> Running(s))
      /\ NamesAgree(m, s, vars) /\ KnownNames(s, todo)
  BY StepsFacts, CoreFacts
<1>2. /\ i \in DOMAIN vars /\ x \in DOMAIN vars[i] /\ l = vars[i][x]
      /\ w \in Val /\ a \in SVal /\ (Running(s) => a = w)
      /\ e = PutLocal(m, l, w) /\ g = IF Running(s) THEN [s EXCEPT !.env[i][x] = a] ELSE s
  BY DEF StoresName
<1>3. l \in 0 .. MaxLocals - 1
  BY <1>1, <1>2, LocalPlaced
<1>4. /\ e \in Machine /\ e.at = m.at /\ e.ret = m.ret /\ e.field = m.field /\ e.regs = m.regs
      /\ ~Running(m) => e = m
      /\ Running(m) => /\ e.locals[l] = w
                       /\ \A k \in 0 .. MaxLocals - 1 : k # l => e.locals[k] = m.locals[k]
  BY <1>1, <1>2, <1>3, PutLocalFacts
<1>5. CASE ~Running(s)
  BY <1>1, <1>2, <1>4, <1>5
<1>6. CASE Running(s)
  <2>1. Assigned(vars, s, i, x, a, g)
    BY <1>1, <1>2, <1>6, StepsFacts, CoreFacts DEF Assigned
  <2>2. /\ Reading(g, vars) /\ g.vals = s.vals /\ g.at = s.at /\ g.field = s.field /\ g.ret = s.ret
        /\ g.env[i][x] = a
        /\ \A j \in DOMAIN vars : \A y \in DOMAIN vars[j] :
             ~(i = j /\ x = y) => g.env[j][y] = s.env[j][y]
    BY <2>1, AssignedFacts
  <2>3. /\ DOMAIN g.env = DOMAIN vars /\ \A j \in DOMAIN vars : DOMAIN g.env[j] = DOMAIN vars[j]
        /\ DOMAIN s.env = DOMAIN vars /\ \A j \in DOMAIN vars : DOMAIN s.env[j] = DOMAIN vars[j]
    BY <2>2, <1>1, SourceFacts, StepsFacts, CoreFacts DEF Reading
  <2>4. NamesAgree(e, g, vars)
    <3>1. SUFFICES ASSUME NEW j \in DOMAIN vars, NEW y \in DOMAIN vars[j]
                   PROVE  g.env[j][y] = Unknown \/ e.locals[vars[j][y]] = g.env[j][y]
      BY DEF NamesAgree
    <3>2. CASE i = j /\ x = y
      BY <3>2, <2>2, <1>1, <1>2, <1>4, <1>6
    <3>3. CASE ~(i = j /\ x = y)
      <4>1. vars[j][y] # l
        BY <3>3, <1>1, <1>2, CoreDistinct DEF LocalsDistinct
      <4>2. vars[j][y] \in 0 .. MaxLocals - 1
        BY <1>1, LocalPlaced
      <4>3. e.locals[vars[j][y]] = m.locals[vars[j][y]] /\ g.env[j][y] = s.env[j][y]
        BY <4>1, <4>2, <3>3, <2>2, <1>1, <1>4, <1>6
      <4> QED BY <4>3, <1>1 DEF NamesAgree
    <3> QED BY <3>2, <3>3
  <2>5. KnownNames(g, todo)
    <3>1. SUFFICES ASSUME NEW j \in DOMAIN vars, NEW y \in DOMAIN vars[j] PROVE g.env[j][y] # Unknown
      BY <2>3 DEF KnownNames
    <3>2. CASE i = j /\ x = y
      BY <3>2, <2>2, <1>2, <1>6, ValueFacts
    <3>3. CASE ~(i = j /\ x = y)
      <4>1. g.env[j][y] = s.env[j][y]
        BY <3>3, <2>2
      <4>2. s.env[j][y] # Unknown
        BY <1>1, <1>6, <2>3 DEF KnownNames, Running
      <4> QED BY <4>1, <4>2
    <3> QED BY <3>2, <3>3
  <2> QED BY <2>2, <2>4, <2>5, <1>4
<1> QED BY <1>5, <1>6

(* The register of a store caches the local that it is stored in. *)
LEMMA StoreFaithful ==
  ASSUME Steps, NEW l, NEW d, l \in 0 .. placed - 1, d \in Reg,
         NEW e, e = PutLocal(m, l, m.regs[d]), NEW q, q = CacheStored(p, l, d)
  PROVE  Faithful(q, e, placed)
<1>1. /\ p \in RegState /\ m \in Machine /\ Faithful(p, m, placed) /\ placed \in 0 .. MaxLocals
      /\ MaxLocals \in Nat
  BY StepsFacts, CoreFacts, CompileAssumption
<1>2. l \in Nat /\ l \in 0 .. MaxLocals - 1 /\ l + 1 <= placed
  BY <1>1
<1>3. m.regs[d] \in Val
  BY <1>1, MachineFacts
<1>4. /\ e.at = m.at /\ e.regs = m.regs
      /\ Running(m) => /\ e.locals[l] = m.regs[d]
                       /\ \A k \in 0 .. MaxLocals - 1 : k # l => e.locals[k] = m.locals[k]
  BY <1>1, <1>2, <1>3, PutLocalFacts
<1>5. /\ q \in RegState
      /\ ~(l < Len(p.cache)) => q = p
      /\ l < Len(p.cache) =>
           /\ \A k \in DOMAIN p.cache : q.cache[k] = IF k = l + 1 THEN d ELSE p.cache[k]
           /\ Len(q.cache) = Len(p.cache)
  BY <1>1, <1>2, CacheStoredFacts DEF Stores
<1>6. /\ Len(p.cache) \in Nat /\ DOMAIN p.cache = 1 .. Len(p.cache)
      /\ DOMAIN q.cache = 1 .. Len(q.cache)
  BY <1>1, <1>5, RegStateFacts
<1>7. DOMAIN q.cache = DOMAIN p.cache
  BY <1>5, <1>6
<1>8. SUFFICES ASSUME NEW k \in DOMAIN p.cache, q.cache[k] # NoReg
               PROVE  k <= placed /\ (e.at = Run => e.regs[q.cache[k]] = e.locals[k - 1])
  BY <1>7 DEF Faithful
<1>9. k \in Nat /\ k >= 1 /\ k <= Len(p.cache)
  BY <1>6
<1>10. CASE k = l + 1
  <2>1. l < Len(p.cache)
    BY <1>2, <1>6, <1>9, <1>10
  <2>4. q.cache[k] = d
    BY <2>1, <1>5, <1>10
  <2>2. k - 1 = l
    BY <1>2, <1>10
  <2> QED BY <2>4, <2>2, <1>2, <1>4, <1>10 DEF Running
<1>11. CASE k # l + 1
  <2>1. q.cache[k] = p.cache[k]
    BY <1>5, <1>11
  <2>2. k <= placed /\ (m.at = Run => m.regs[p.cache[k]] = m.locals[k - 1])
    BY <2>1, <1>1, <1>8 DEF Faithful
  <2>3. k - 1 \in 0 .. MaxLocals - 1 /\ k - 1 # l
    BY <2>2, <1>1, <1>2, <1>9, <1>11
  <2> QED BY <2>1, <2>2, <2>3, <1>4 DEF Running
<1> QED BY <1>10, <1>11

(* What the source has when a construct with one value is over and the value stays. *)
LEMMA ClosedSource ==
  ASSUME Steps, todo' = Below, Ready(need) = 1, Ready(need') = 1, Held(Top) = 0,
         Top.k \notin LabelKinds, Top.k # "func", ~Dropped(todo, need)
  PROVE  Sourced(s, todo', need')
<1>1. PICK n \in Nat : n = Len(s.vals)
  BY StepsFacts, CoreFacts
<1>2. PICK h \in Nat \ {0} : h = Len(todo)
  BY StepsFacts, CoreFacts
<1>3. Shares(todo, todo', h - 1) /\ Len(todo') = h - 1
  BY <1>2, StepsFacts, TodoShares
<1>4. Upto(todo, h - 1) = n - 1
  <2>1. Upto(todo, Len(todo) - 1) = Len(s.vals) - Ready(need) - Held(Top)
    BY StepsFacts, Waiting
  <2> QED BY <2>1, <1>1, <1>2
<1>5. DOMAIN s.vals = 1 .. n /\ Reading(s, vars)
  BY <1>1, StepsFacts, CoreFacts, SourceFacts
<1>6. Running(s) => s.vals[n] # Unknown
  BY <1>1, ReadyKnown
<1>7. Running(s) => \A v \in DOMAIN s.vals :
            v > Upto(todo, h - 1) /\ s.vals[v] = Unknown =>
              Tested(todo', v) \/ (v = Len(s.vals) /\ Dropped(todo', need'))
  <2>1. SUFFICES ASSUME Running(s), NEW v \in 1 .. n, v > n - 1, s.vals[v] = Unknown PROVE FALSE
    BY <1>4, <1>5
  <2>2. v = n
    BY <2>1
  <2> QED BY <2>1, <2>2, <1>6
<1>8. Running(s) => \A i \in h - 1 + 1 .. Len(todo') : \A j \in DOMAIN todo'[i].params :
            todo'[i].params[j].val # Unknown
  BY <1>3
<1>9. PICK c : c = h - 1
  OBVIOUS
<1> QED BY <1>2, <1>3, <1>5, <1>7, <1>8, <1>9, SourceMove

LEMMA LabelledPos ==
  ASSUME NEW t \in Seq(ItemSet), NEW a, Labelled(a, t)
  PROVE  a \in {Run, Stop} \/ a.pos \in 1 .. Len(t)
<1>1. SUFFICES ASSUME NEW i \in DOMAIN t, a = ElseOf(i) \/ a = EndOf(i) PROVE a.pos \in 1 .. Len(t)
  BY DEF Labelled
<1>2. DOMAIN t = 1 .. Len(t) /\ Len(t) \in Nat
  OBVIOUS
<1>3. i \in Nat
  BY <1>2
<1>4. ElseOf(i).pos = i /\ EndOf(i).pos = i
  BY <1>3, LabelFacts
<1> QED BY <1>1, <1>2, <1>4

(* A variable that was known when an execution began to skip. *)
LEMMA NamesCarried ==
  ASSUME NEW t, NEW u, NEW c, Shares(t, u, c), NEW g, KnownNames(g, t),
         g.at = Run \/ g.at.pos \in 1 .. c
  PROVE  KnownNames(g, u)
<1>1. /\ t \in Seq(ItemSet) /\ u \in Seq(ItemSet) /\ c \in 0 .. Len(t) /\ c <= Len(u) /\ c \in Nat
      /\ \A i \in 1 .. c : Held(u[i]) = Held(t[i]) /\ u[i].k = t[i].k
  BY DEF Shares
<1>2. \A i \in 0 .. c : Total(Opened(u), i) = Total(Opened(t), i)
  BY <1>1, UptoSame
<1>3. CASE g.at = Run
  BY <1>3 DEF KnownNames
<1>4. CASE g.at.pos \in 1 .. c
  <2>1. g.at.pos - 1 \in 0 .. c
    BY <1>1, <1>4
  <2>2. Total(Opened(u), g.at.pos - 1) = Total(Opened(t), g.at.pos - 1)
    BY <2>1, <1>2
  <2> QED BY <2>2 DEF KnownNames
<1> QED BY <1>3, <1>4

(* Where an execution is when the innermost construct begins or ends. *)
LEMMA WhereAt ==
  ASSUME Steps, NEW h, h = Len(todo)
  PROVE  /\ h \in Nat \ {0}
         /\ \/ s.at = Run
            \/ s.at = ElseOf(h) /\ s.at.pos = h /\ Top.k = "then"
            \/ s.at = EndOf(h) /\ s.at.pos = h /\ Top.k \in LabelKinds
            \/ /\ s.at.pos \in 1 .. h - 1 /\ s.at \notin {Run, Stop, ElseOf(h), EndOf(h)}
               /\ \A u : Shares(todo, u, h - 1) => Labelled(s.at, u)
<1>1. /\ h \in Nat \ {0} /\ DOMAIN todo = 1 .. h /\ Top = todo[h]
      /\ Labelled(s.at, todo) /\ s.at # Stop
  BY StepsFacts, CoreFacts
<1>2. SUFFICES ASSUME s.at # Run
      PROVE  \/ s.at = ElseOf(h) /\ s.at.pos = h /\ Top.k = "then"
             \/ s.at = EndOf(h) /\ s.at.pos = h /\ Top.k \in LabelKinds
             \/ /\ s.at.pos \in 1 .. h - 1 /\ s.at \notin {Run, Stop, ElseOf(h), EndOf(h)}
                /\ \A u : Shares(todo, u, h - 1) => Labelled(s.at, u)
  BY <1>1
<1>3. PICK i \in 1 .. h : \/ s.at = ElseOf(i) /\ todo[i].k = "then"
                          \/ s.at = EndOf(i) /\ todo[i].k \in LabelKinds
  BY <1>1, <1>2 DEF Labelled, LabelKinds
<1>4. i \in Nat /\ s.at.pos = i /\ ElseOf(h).pos = h /\ EndOf(h).pos = h
  BY <1>1, <1>3, LabelFacts
<1>5. CASE i = h
  BY <1>1, <1>3, <1>4, <1>5
<1>6. CASE i # h
  <2>1. i \in 1 .. h - 1 /\ s.at \notin {ElseOf(h), EndOf(h)}
    BY <1>1, <1>4, <1>6
  <2>2. ASSUME NEW u, Shares(todo, u, h - 1) PROVE Labelled(s.at, u)
    <3>1. i \in DOMAIN u /\ u[i] = todo[i]
      BY <2>1, <2>2, <1>1 DEF Shares
    <3> QED BY <3>1, <1>3 DEF Labelled, LabelKinds
  <2> QED BY <2>1, <2>2, <1>1, <1>2, <1>4
<1> QED BY <1>5, <1>6

LEMMA EndAssignValues ==
  ASSUME Careful, Steps, EndAssign
  PROVE  ValueInv'
<1>1. PICK n \in Nat : n = Len(s.vals)
  BY StepsFacts, CoreFacts
<1>2. PICK h \in Nat \ {0} : h = Len(todo)
  BY StepsFacts, CoreFacts
<1>3. PICK i, x, l, d, w, a : /\ x = Top.x /\ i = ScopeOf(x) /\ l = LocalOf(x) /\ d = LastReg(p)
                              /\ w = m.regs[d] /\ a = Operand(s, 0)
  OBVIOUS
<1>4. /\ need = "done" /\ Top.k = "assign" /\ SafeStore(l) /\ SameScope
      /\ todo' = Below /\ need' = "closed" /\ last' = Other /\ vars' = vars /\ placed' = placed
  BY <1>3, ReadsFacts DEF EndAssign, SameScope
<1>5. p' = CacheStored(p, l, d) /\ m' = PutLocal(m, l, w) /\ s' = SetVar(s, x, a)
  BY <1>3 DEF EndAssign, Go
<1>6. Ready(need) = 1 /\ Ready(need') = 1 /\ Held(Top) = 0
  BY <1>4, ReadyFacts, HeldFacts
<1>7. Top.k \notin LabelKinds /\ Top.k \notin LogicalKinds /\ Top.k # "func"
  BY <1>4, KindFacts DEF OperandKinds, ListKinds
<1>8. ~Dropped(todo, need)
  <2>1. need = "done" /\ Top.k # "effect"
    BY <1>4
  <2> QED BY <2>1, StepsFacts, NotDropped
<1>9. /\ i \in DOMAIN vars /\ x \in DOMAIN vars[i] /\ l = vars[i][x] /\ l \in Nat
      /\ l \in 0 .. placed - 1
  <2>1. Declared(x)
    BY <1>3, <1>4, StepsFacts, NotedName
  <2>2. i \in DOMAIN vars /\ x \in DOMAIN vars[i] /\ l = vars[i][x] /\ l \in Nat
    BY <2>1, <1>3, StepsFacts, LocalFacts
  <2> QED BY <2>2, StepsFacts, LocalPlaced
<1>10. w \in Val /\ a \in SVal /\ (Running(s) => a = w) /\ d \in Reg
  <2>1. 0 \in Nat /\ 0 < Held(Top) + Ready(need)
    BY <1>6
  <2>2. TopReg(p, 0) = d
    BY <1>3, StepsFacts, CoreFacts, LastRegTop
  <2> QED BY <2>1, <2>2, <1>3, <1>7, <1>8, TopOperand
<1>11. StoresName(i, x, l, w, a, m', s')
  BY <1>3, <1>5, <1>9, <1>10 DEF StoresName, SetVar
<1>12. /\ Reading(s', vars) /\ s'.vals = s.vals /\ s'.at = s.at /\ s'.field = s.field /\ s'.ret = s.ret
       /\ m'.regs = m.regs /\ m'.at = m.at /\ m'.field = m.field /\ m'.ret = m.ret
       /\ NamesAgree(m', s', vars) /\ KnownNames(s', todo)
  BY <1>11, NamesStored
<1>13. Faithful(p', m', placed')
  <2>1. Faithful(p', m', placed)
    BY ONLY Steps, <1>3, <1>5, <1>9, <1>10, StoreFaithful
  <2> QED BY <2>1, <1>4
<1>14. Shares(todo, todo', h - 1) /\ SameArgs(todo, todo')
  BY <1>2, <1>4, <1>7, StepsFacts, TodoShares
<1>15. Sourced(s', todo', need')
  <2>1. Sourced(s, todo', need')
    BY <1>4, <1>6, <1>7, <1>8, ClosedSource
  <2>2. s.at = Run \/ s.at.pos \in 1 .. h - 1
    BY <1>2, <1>7, WhereAt DEF LabelKinds
  <2>3. KnownNames(s', todo')
    BY ONLY <2>2, <1>12, <1>14, NamesCarried
  <2> QED BY <2>1, <2>3, <1>12, SourcedNames
<1>16. OperandsAgree(p', m', s') /\ ArgsAgree(m', todo')
  <2>1. \A v \in 1 .. n : OpReg(p', n, v) = OpReg(p, n, v)
    BY <1>1, <1>3, <1>4, <1>5, <1>6, <1>9, StepsFacts, SafeStored
  <2>2. Len(s'.vals) = n /\ DOMAIN s'.vals = 1 .. n
    BY <1>1, <1>12, SourceFacts
  <2>3. Keeping(n, p', m', s', n)
    BY <2>1, <2>2, <1>12 DEF Keeping
  <2>4. ArgsSame(m')
    BY <1>12 DEF ArgsSame
  <2> QED BY <2>3, <2>4, <1>1, <1>14, KeptAgree
<1>17. Followed(p', m', s', todo', vars')
  BY <1>4, <1>12, <1>16, StepsFacts DEF Followed
<1> QED BY <1>4, <1>13, <1>15, <1>17, ValuesKept

LEMMA EndAssignFieldValues ==
  ASSUME Steps, EndAssignField
  PROVE  ValueInv'
<1>1. PICK n \in Nat : n = Len(s.vals)
  BY StepsFacts, CoreFacts
<1>2. PICK d, w, a : d = LastReg(p) /\ w = m.regs[d] /\ a = Operand(s, 0)
  OBVIOUS
<1>3. /\ need = "done" /\ Top.k = "fieldset" /\ SameScope
      /\ todo' = Below /\ need' = "closed" /\ last' = Other /\ vars' = vars /\ placed' = placed
  BY ReadsFacts DEF EndAssignField, SameScope
<1>4. p' = p /\ m' = SetField(m, w) /\ s' = SetField(s, a)
  BY <1>2 DEF EndAssignField, Go
<1>5. Ready(need) = 1 /\ Ready(need') = 1 /\ Held(Top) = 0
  BY <1>3, ReadyFacts, HeldFacts
<1>6. Top.k \notin LabelKinds /\ Top.k \notin LogicalKinds /\ Top.k # "func"
  BY <1>3, KindFacts DEF OperandKinds, ListKinds
<1>7. ~Dropped(todo, need)
  <2>1. need = "done" /\ Top.k # "effect"
    BY <1>3
  <2> QED BY <2>1, StepsFacts, NotDropped
<1>8. w \in Val /\ a \in SVal /\ (Running(s) => a = w)
  <2>1. 0 \in Nat /\ 0 < Held(Top) + Ready(need)
    BY <1>5
  <2>2. TopReg(p, 0) = d
    BY <1>2, StepsFacts, CoreFacts, LastRegTop
  <2> QED BY <2>1, <2>2, <1>2, <1>6, <1>7, TopOperand
<1>9. /\ m'.at = m.at /\ m'.regs = m.regs /\ m'.locals = m.locals /\ m'.ret = m.ret
      /\ m'.field = IF Running(m) THEN w ELSE m.field
  BY <1>4, <1>8, StepsFacts, CoreFacts, MachineFacts
<1>10. /\ Reading(s', vars) /\ s'.at = s.at /\ s'.vals = s.vals /\ s'.env = s.env /\ s'.ret = s.ret
       /\ s'.field = IF Running(s) THEN a ELSE s.field
  <2>1. Reading(s, vars)
    BY StepsFacts, CoreFacts
  <2>2. PICK g : g = SetField(s, a)
    OBVIOUS
  <2>3. /\ Reading(g, vars) /\ g.at = s.at /\ g.vals = s.vals /\ g.env = s.env /\ g.ret = s.ret
        /\ g.field = IF Running(s) THEN a ELSE s.field
    BY <2>1, <2>2, <1>8, SourceFacts
  <2> QED BY <2>2, <2>3, <1>4
<1>11. SameArgs(todo, todo')
  BY <1>3, <1>6, StepsFacts, TodoShares
<1>12. Sourced(s', todo', need')
  <2>1. Sourced(s, todo', need')
    BY <1>3, <1>5, <1>6, <1>7, ClosedSource
  <2>2. s.at # Stop => KnownNames(s', todo')
    BY <2>1, <1>10 DEF Sourced, KnownNames
  <2> QED BY <2>1, <2>2, <1>10, SourcedNames
<1>13. OperandsAgree(p', m', s') /\ ArgsAgree(m', todo')
  <2>1. Len(s'.vals) = n /\ DOMAIN s'.vals = 1 .. n
    BY <1>1, <1>10, SourceFacts
  <2>2. Keeping(n, p', m', s', n)
    BY <2>1, <1>4, <1>9, <1>10 DEF Keeping
  <2>3. ArgsSame(m')
    BY <1>9 DEF ArgsSame
  <2> QED BY <2>2, <2>3, <1>1, <1>11, KeptAgree
<1>14. NamesAgree(m', s', vars')
  BY <1>3, <1>9, <1>10, StepsFacts DEF NamesAgree
<1>15. Followed(p', m', s', todo', vars')
  BY <1>8, <1>9, <1>10, <1>13, <1>14, StepsFacts DEF Followed
<1>16. Faithful(p', m', placed')
  BY <1>3, <1>4, <1>9, StepsFacts DEF Faithful
<1> QED BY <1>3, <1>12, <1>15, <1>16, ValuesKept

(* An operand or an argument is in no register that is free, and in none that is *)
(* only the result's.                                                            *)
LEMMA KeptApart ==
  ASSUME Steps, NEW n, n = Len(s.vals), NEW d, d \notin p.used
  PROVE  /\ \A v \in 1 .. n : OpReg(p, n, v) \in Reg \ {d}
         /\ \A i \in DOMAIN todo : \A k \in DOMAIN todo[i].params : todo[i].params[k].reg \in Reg \ {d}
<1>1. p \in RegState /\ n \in Nat /\ n <= Len(p.rstack) /\ Alloc(p, n, todo)
  BY StepsFacts, LiveFacts
<1>2. \A v \in 1 .. n : OpReg(p, n, v) \in Reg
  BY <1>1, OpRegIn
<1>3. \A i \in DOMAIN todo : \A k \in DOMAIN todo[i].params : todo[i].params[k].reg \in Reg
  BY <1>1, RegStateFacts DEF Alloc
<1> QED BY <1>2, <1>3, FreeAlone

(* "@f op= e" of an operator that commutes: "e op @f" is "@f op e". *)
LEMMA FieldOpSame ==
  ASSUME Careful, NEW a \in Val, NEW b \in Val
  PROVE  FieldOp(a, b) = FieldOp(b, a)
BY DEF FieldOp, Commuting, Val, Unknown

LEMMA EndCompoundFieldValues ==
  ASSUME Careful, Steps, EndCompoundField
  PROVE  ValueInv'
<1>1. PICK n \in Nat : n = Len(s.vals)
  BY StepsFacts, CoreFacts
<1>2. PICK h \in Nat \ {0} : h = Len(todo)
  BY StepsFacts, CoreFacts
<1>3. PICK q, r, d, y, t : q = NewReg(p) /\ r = Apply2(q) /\ d = Dest(q) /\ y = Dest(r) /\ t = LastReg(p)
  OBVIOUS
<1>4. PICK e : e = Put(m, d, m.field)
  OBVIOUS
<1>5. PICK z, w : z = FieldOp(e.regs[TopReg(q, 1)], e.regs[TopReg(q, 0)]) /\ w = Operand(s, 0)
  OBVIOUS
<1>6. PICK f, a : f = Put(e, y, z) /\ a = FieldOp(s.field, w)
  OBVIOUS
<1>7. /\ need = "done" /\ Top.k = "fieldop" /\ vars' = vars /\ placed' = placed
      /\ todo' = Below /\ need' = "closed" /\ last' = Other
  BY ReadsFacts DEF EndCompoundField, SameScope
<1>8. ~q.full /\ p' = r /\ m' = SetField(f, f.regs[y]) /\ s' = Yield(SetField(s, a), 1, a)
  BY <1>3, <1>4, <1>5, <1>6, StepsFacts DEF EndCompoundField, Go
<1>9. Ready(need) = 1 /\ Ready(need') = 1 /\ Held(Top) = 0
  BY <1>7, ReadyFacts, HeldFacts
<1>10. Top.k \notin LabelKinds /\ Top.k \notin LogicalKinds /\ Top.k # "func"
  BY <1>7, KindFacts DEF OperandKinds, ListKinds
<1>11. ~Dropped(todo, need)
  <2>1. need = "done" /\ Top.k # "effect"
    BY <1>7
  <2> QED BY <2>1, StepsFacts, NotDropped
<1>12. w \in SVal /\ m.regs[t] \in Val /\ t \in Reg /\ (Running(s) => w = m.regs[t])
  <2>1. 0 \in Nat /\ 0 < Held(Top) + Ready(need)
    BY <1>9
  <2>2. TopReg(p, 0) = t
    BY <1>3, StepsFacts, CoreFacts, LastRegTop
  <2> QED BY <2>1, <2>2, <1>5, <1>10, <1>11, TopOperand
<1>13. p \in RegState /\ Alloc(p, n, todo) /\ n <= Len(p.rstack) /\ ~p.full /\ n \in Nat \ {0}
  <2>1. n - Ready(need) \in Nat
    BY <1>1, StepsFacts, LiveFacts
  <2> QED BY <2>1, <1>1, <1>9, StepsFacts, LiveFacts
<1>14. /\ Stepped(p, n, todo, q, n + 1, n) /\ d \in Reg \ p.used /\ OpReg(q, n + 1, n + 1) = d
       /\ d = LastReg(q)
  BY <1>3, <1>8, <1>13, AllocNew
<1>15. /\ q \in RegState /\ Alloc(q, n + 1, todo) /\ n + 1 \in Nat /\ n + 1 > 1 /\ n + 1 - 1 = n
       /\ n + 1 - 2 = n - 1
  BY <1>13, <1>14 DEF Stepped
<1>16. /\ Stepped(q, n + 1, todo, r, n, n - 1) /\ r.cache = q.cache
       /\ OpReg(r, n, n) = y /\ y \in Reg /\ y \notin Cached(r)
  BY <1>3, <1>8, <1>15, StepsFacts, FreshApply2
<1>17. r \in RegState /\ Alloc(r, n, todo) /\ \A v \in 1 .. n - 1 : OpReg(r, n, v) = OpReg(p, n, v)
  BY <1>14, <1>16, <1>13 DEF Stepped
<1>18. q = PushReg(p, d)
  BY <1>3, <1>8, <1>13, NewRegFacts
<1>19. TopReg(q, 1) = t /\ TopReg(q, 0) = d
  <2>1. PICK k \in Nat : k = Len(p.rstack)
    BY <1>13, RegStateFacts
  <2>2. Len(q.rstack) = k + 1 /\ \A i \in 1 .. k : q.rstack[i] = p.rstack[i]
    BY <2>1, <1>13, <1>14, <1>18, PushRegFacts
  <2>3. k \in 1 .. k /\ k + 1 - 1 = k /\ k + 1 - 0 = k + 1
    BY <2>1, <1>13
  <2> QED BY <2>1, <2>2, <2>3, <1>3, <1>14 DEF TopReg, LastReg
<1>20. r.cache = p.cache
  BY <1>13, <1>14, <1>16, <1>18, PushRegFacts
<1>21. m \in Machine /\ m.field \in Val /\ (Running(m) <=> Running(s)) /\ m.field = s.field
  BY StepsFacts, CoreFacts, MachineFacts
<1>22. d # t
  <2>1. n \in 1 .. n
    BY <1>13
  <2>2. OpReg(p, n, n) = t
    BY <2>1, <1>3, <1>13, OpRegIn
  <2> QED BY <2>1, <2>2, <1>14, <1>13 DEF Alloc
<1>23. /\ e \in Machine /\ e.at = m.at /\ e.ret = m.ret /\ e.field = m.field /\ e.locals = m.locals
       /\ ~Running(m) => e = m
       /\ Running(m) => e.regs[d] = m.field /\ \A c \in Reg \ {d} : e.regs[c] = m.regs[c]
  BY <1>4, <1>14, <1>21, PutFacts
<1>24. z \in Val /\ (Running(m) => z = FieldOp(m.regs[t], m.field))
  <2>1. e.regs[t] \in Val /\ e.regs[d] \in Val
    BY <1>12, <1>14, <1>23, MachineFacts
  <2>2. z \in Val
    BY <2>1, <1>5, <1>19, ValueFacts
  <2> QED BY <2>2, <1>5, <1>12, <1>19, <1>22, <1>23
<1>25. a \in SVal /\ (Running(s) => a = z)
  <2>1. s.field \in SVal
    BY StepsFacts, CoreFacts, SourceFacts
  <2>2. a \in SVal
    BY <2>1, <1>6, <1>12, ValueFacts
  <2>3. Running(s) => a = FieldOp(m.field, m.regs[t])
    BY <1>6, <1>12, <1>21
  <2> QED BY <2>2, <2>3, <1>12, <1>21, <1>24, FieldOpSame
<1>26. /\ f \in Machine /\ f.at = m.at /\ f.ret = m.ret /\ f.field = m.field /\ f.locals = m.locals
       /\ ~Running(m) => f = m
       /\ Running(m) => f.regs[y] = z /\ \A c \in Reg \ {d, y} : f.regs[c] = m.regs[c]
  <2>1. /\ f \in Machine /\ f.at = e.at /\ f.ret = e.ret /\ f.field = e.field /\ f.locals = e.locals
        /\ ~Running(e) => f = e
        /\ Running(e) => f.regs[y] = z /\ \A c \in Reg \ {y} : f.regs[c] = e.regs[c]
    BY <1>6, <1>16, <1>23, <1>24, PutFacts
  <2> QED BY <2>1, <1>23 DEF Running
<1>27. f.regs[y] \in Val
  BY <1>16, <1>26, MachineFacts
<1>28. /\ m'.at = m.at /\ m'.ret = m.ret /\ m'.locals = m.locals /\ m'.regs = f.regs
       /\ m'.field = IF Running(m) THEN z ELSE m.field
  <2>1. PICK g : g = SetField(f, f.regs[y])
    OBVIOUS
  <2>2. /\ g.at = f.at /\ g.ret = f.ret /\ g.locals = f.locals /\ g.regs = f.regs
        /\ g.field = IF Running(f) THEN f.regs[y] ELSE f.field
    BY <2>1, <1>26, <1>27, MachineFacts
  <2>3. g.field = IF Running(m) THEN z ELSE m.field
    BY <2>2, <1>26 DEF Running
  <2> QED BY <2>1, <2>2, <2>3, <1>8, <1>26
<1>29. /\ Len(s'.vals) = n /\ \A v \in 1 .. n - 1 : s'.vals[v] = s.vals[v]
       /\ s'.vals[n] = IF Running(s) THEN a ELSE Unknown
       /\ s'.at = s.at /\ s'.env = s.env /\ s'.ret = s.ret
       /\ s'.field = IF Running(s) THEN a ELSE s.field
       /\ Reading(s', vars)
  <2>1. Reading(s, vars)
    BY StepsFacts, CoreFacts
  <2>2. PICK g, c : g = SetField(s, a) /\ c = 1
    OBVIOUS
  <2>3. /\ Reading(g, vars) /\ g.at = s.at /\ g.vals = s.vals /\ g.env = s.env /\ g.ret = s.ret
        /\ g.field = IF Running(s) THEN a ELSE s.field
    BY <2>1, <2>2, <1>25, SourceFacts
  <2>4. PICK x : x = s'
    OBVIOUS
  <2>5. Yields(vars, g, n, c, a, x)
    BY <2>2, <2>3, <2>4, <1>1, <1>8, <1>13, <1>25 DEF Yields
  <2>6. /\ Reading(x, vars) /\ Len(x.vals) = n - c + 1
        /\ \A v \in 1 .. n - c : x.vals[v] = g.vals[v]
        /\ x.vals[n - c + 1] = IF Running(g) THEN a ELSE Unknown
        /\ x.at = g.at /\ x.env = g.env /\ x.field = g.field /\ x.ret = g.ret
    BY <2>5, YieldFacts
  <2>7. n - c = n - 1 /\ n - c + 1 = n
    BY <2>2
  <2> QED BY <2>3, <2>4, <2>6, <2>7 DEF Running
<1>30. DOMAIN s'.vals = 1 .. n
  BY <1>29, SourceFacts
<1>31. SameArgs(todo, todo') /\ Shares(todo, todo', h - 1) /\ Len(todo') = h - 1
  BY <1>2, <1>7, <1>10, StepsFacts, TodoShares
<1>32. OperandsAgree(p', m', s') /\ ArgsAgree(m', todo')
  <2>1. ASSUME NEW c \in Reg, c # d, c # y PROVE m'.regs[c] = m.regs[c]
    BY <2>1, <1>26, <1>28
  <2>2. ASSUME NEW v \in 1 .. n - 1 PROVE m'.regs[OpReg(p, n, v)] = m.regs[OpReg(p, n, v)]
    <3>1. v \in 1 .. n /\ n \in 1 .. n /\ v # n
      BY <1>13
    <3>2. OpReg(p, n, v) \in Reg \ {d}
      BY <3>1, <1>1, <1>14, KeptApart
    <3>3. OpReg(p, n, v) # y
      BY <3>1, <1>16, <1>17 DEF Alloc
    <3> QED BY <3>2, <3>3, <2>1
  <2>3. ArgsSame(m')
    <3>1. SUFFICES ASSUME NEW i \in DOMAIN todo, NEW j \in DOMAIN todo[i].params
                   PROVE  m'.regs[todo[i].params[j].reg] = m.regs[todo[i].params[j].reg]
      BY DEF ArgsSame
    <3>2. todo[i].params[j].reg \in Reg \ {d}
      BY <1>1, <1>14, KeptApart
    <3>3. n \in 1 .. n
      BY <1>13
    <3>4. todo[i].params[j].reg # y
      BY <3>3, <1>16, <1>17 DEF Alloc
    <3> QED BY <3>2, <3>4, <2>1
  <2>4. PICK b \in Nat : b = n - 1
    BY <1>13
  <2>5. \A v \in DOMAIN s'.vals :
       \/ v \in 1 .. b /\ s'.vals[v] = s.vals[v] /\ OpReg(p', Len(s'.vals), v) = OpReg(p, n, v)
       \/ s'.vals[v] = Unknown
       \/ m'.regs[OpReg(p', Len(s'.vals), v)] = s'.vals[v]
    <3>1. SUFFICES ASSUME NEW v \in 1 .. n, v \notin 1 .. b, s'.vals[v] # Unknown
                   PROVE  m'.regs[OpReg(p', n, v)] = s'.vals[v]
      BY <2>4, <1>8, <1>17, <1>29, <1>30
    <3>2. v = n
      BY <3>1, <2>4
    <3> QED BY <3>1, <3>2, <1>8, <1>16, <1>21, <1>25, <1>26, <1>28, <1>29
  <2>6. Keeping(n, p', m', s', b)
    BY <2>2, <2>4, <2>5 DEF Keeping
  <2> QED BY <2>3, <2>6, <1>1, <1>31, KeptAgree
<1>33. Sourced(s', todo', need')
  <2>1. Upto(todo, h - 1) = n - 1
    <3>1. Upto(todo, Len(todo) - 1) = Len(s.vals) - Ready(need) - Held(Top)
      BY StepsFacts, Waiting
    <3> QED BY <3>1, <1>1, <1>2, <1>9
  <2>2. PICK c : c = h - 1
    OBVIOUS
  <2>3. \A v \in DOMAIN s'.vals : v <= Upto(todo, c) => s'.vals[v] = s.vals[v]
    BY <2>1, <2>2, <1>29, <1>30
  <2>4. Running(s) => \A v \in DOMAIN s'.vals :
            v > Upto(todo, c) /\ s'.vals[v] = Unknown =>
              Tested(todo', v) \/ (v = Len(s'.vals) /\ Dropped(todo', need'))
    <3>1. SUFFICES ASSUME Running(s), NEW v \in 1 .. n, v > n - 1, s'.vals[v] = Unknown PROVE FALSE
      BY <2>1, <2>2, <1>30
    <3>2. v = n
      BY <3>1
    <3> QED BY <3>1, <3>2, <1>24, <1>25, <1>29, ValueFacts
  <2>5. Running(s) => \A i \in c + 1 .. Len(todo') : \A j \in DOMAIN todo'[i].params :
            todo'[i].params[j].val # Unknown
    BY <2>2, <1>2, <1>31
  <2> QED BY <2>2, <2>3, <2>4, <2>5, <1>2, <1>10, <1>29, <1>31, SourceStep
<1>34. NamesAgree(m', s', vars')
  BY <1>7, <1>28, <1>29, StepsFacts DEF NamesAgree
<1>35. Followed(p', m', s', todo', vars')
  BY <1>21, <1>25, <1>28, <1>29, <1>32, <1>34, StepsFacts DEF Followed
<1>36. Faithful(p', m', placed')
  <2>1. SUFFICES ASSUME NEW l \in DOMAIN p.cache, p.cache[l] # NoReg
        PROVE  l <= placed /\ (m'.at = Run => m'.regs[p.cache[l]] = m'.locals[l - 1])
    BY <1>7, <1>8, <1>20 DEF Faithful
  <2>2. l <= placed /\ (m.at = Run => m.regs[p.cache[l]] = m.locals[l - 1])
    BY <2>1, StepsFacts DEF Faithful
  <2>3. p.cache[l] \in Cached(p) /\ p.cache[l] \in Cached(r)
    BY <2>1, <1>20 DEF Cached
  <2>4. p.cache[l] # d /\ p.cache[l] # y /\ p.cache[l] \in Reg
    BY <2>3, <1>13, <1>14, <1>16, RegStateFacts DEF Alloc
  <2>5. m'.regs[p.cache[l]] = m.regs[p.cache[l]]
    BY <2>4, <1>26, <1>28
  <2> QED BY <2>2, <2>5, <1>28
<1> QED BY <1>7, <1>33, <1>35, <1>36, ValuesKept

(* A statement is part of blocks, and its expression of nothing else: no operand and *)
(* no argument waits.                                                                *)
LEMMA AloneIn ==
  ASSUME CoreInv, IsStatement, Top.k \in OperandKinds, NEW h, h = Len(todo)
  PROVE  /\ h \in Nat /\ h > 2 /\ \A i \in 1 .. h - 1 : todo[i].params = <<>>
         /\ Upto(todo, h - 1) = 0
<1>1. /\ h \in Nat /\ h > 2 /\ todo[h - 2].k = "effect" /\ todo[h - 1].op = 0
      /\ todo \in Seq(ItemSet) /\ Nested(todo) /\ Top = todo[h] /\ DOMAIN todo = 1 .. h
      /\ Shape(todo, vars, placed)
  BY CoreFacts DEF IsStatement
<1>2. todo[h - 1].k = "expr"
  <2>1. h \in DOMAIN todo /\ h > 1
    BY <1>1
  <2>2. Nests(todo[h - 1].k, Top.k)
    BY <2>1, <1>1 DEF Nested
  <2> QED BY <2>2 DEF Nests, OperandKinds, ListKinds, LogicalKinds, StatementKinds, BlockKinds
<1>3. ASSUME NEW i \in 1 .. h - 1 PROVE Held(todo[i]) = 0 /\ todo[i].k \notin ListKinds
  <2>1. CASE i = h - 1
    BY <2>1, <1>1, <1>2, HeldFacts DEF ListKinds
  <2>2. CASE i = h - 2
    BY <2>2, <1>1, HeldFacts DEF ListKinds, StatementKinds
  <2>3. CASE i # h - 1 /\ i # h - 2
    <3>1. PICK j : j = h - 2
      OBVIOUS
    <3>2. i < j /\ i \in DOMAIN todo /\ j \in DOMAIN todo /\ todo[j].k \in StatementKinds
      BY <3>1, <2>3, <1>1 DEF StatementKinds
    <3>3. todo[i].k \in BlockKinds
      BY <3>2, <1>1 DEF Nested
    <3> QED BY <3>3, HeldFacts DEF ListKinds, BlockKinds
  <2> QED BY <2>1, <2>2, <2>3
<1>4. \A i \in 1 .. h - 1 : todo[i].params = <<>>
  BY <1>1, <1>3 DEF Shape, Notes
<1>5. Upto(todo, h - 1) = 0
  <2>1. \A i \in 1 .. h - 1 : Weights(todo)[i] = 0
    <3>1. \A i \in 1 .. h : Weights(todo)[i] = Held(todo[i])
      BY <1>1, WeightType
    <3>2. \A i \in 1 .. h - 1 : i \in 1 .. h
      BY <1>1
    <3> QED BY <3>1, <3>2, <1>3
  <2>2. h - 1 \in Nat
    BY <1>1
  <2> QED BY <2>1, <2>2, TotalZero DEF Upto
<1> QED BY <1>1, <1>4, <1>5

(* A register that caches one local, which is given the same value. *)
LEMMA SharedFaithful ==
  ASSUME Steps, NEW l, NEW r, l \in 0 .. placed - 1, r = CachedReg(p, l), r # NoReg,
         Sharers(p, r) = {l + 1}, NEW w \in Val, NEW f, f = Put(m, r, w),
         NEW e, e = PutLocal(f, l, f.regs[r])
  PROVE  /\ Faithful(p, e, placed) /\ e.locals = PutLocal(m, l, w).locals
         /\ e.at = m.at /\ e.ret = m.ret /\ e.field = m.field
<1>1. /\ p \in RegState /\ m \in Machine /\ Faithful(p, m, placed) /\ placed \in 0 .. MaxLocals
      /\ MaxLocals \in Nat
  BY StepsFacts, CoreFacts, CompileAssumption
<1>2. l \in Nat /\ l \in 0 .. MaxLocals - 1
  BY <1>1
<1>3. r \in Reg
  BY <1>1, <1>2, CachedRegIn
<1>4. /\ f \in Machine /\ f.at = m.at /\ f.ret = m.ret /\ f.field = m.field /\ f.locals = m.locals
      /\ ~Running(m) => f = m
      /\ Running(m) => f.regs[r] = w /\ \A c \in Reg \ {r} : f.regs[c] = m.regs[c]
  BY <1>1, <1>3, PutFacts
<1>5. f.regs[r] \in Val /\ (Running(f) <=> Running(m))
  BY <1>3, <1>4, MachineFacts DEF Running
<1>6. /\ e.at = f.at /\ e.ret = f.ret /\ e.field = f.field /\ e.regs = f.regs
      /\ ~Running(f) => e = f
      /\ Running(f) => /\ e.locals[l] = f.regs[r]
                       /\ \A k \in 0 .. MaxLocals - 1 : k # l => e.locals[k] = f.locals[k]
  BY <1>2, <1>4, <1>5, PutLocalFacts
<1>7. e.locals = PutLocal(m, l, w).locals
  <2>1. CASE Running(m)
    <3>1. e.locals = [f.locals EXCEPT ![l] = f.regs[r]]
      BY <2>1, <1>4, <1>5 DEF PutLocal, Machine
    <3>2. PutLocal(m, l, w).locals = [m.locals EXCEPT ![l] = w]
      BY <2>1, <1>1 DEF PutLocal, Machine
    <3> QED BY <3>1, <3>2, <2>1, <1>4
  <2>2. CASE ~Running(m)
    BY <2>2, <1>4, <1>5, <1>6 DEF PutLocal
  <2> QED BY <2>1, <2>2
<1>8. Faithful(p, e, placed)
  <2>1. SUFFICES ASSUME NEW k \in DOMAIN p.cache, p.cache[k] # NoReg
                 PROVE  k <= placed /\ (e.at = Run => e.regs[p.cache[k]] = e.locals[k - 1])
    BY DEF Faithful
  <2>2. k <= placed /\ (m.at = Run => m.regs[p.cache[k]] = m.locals[k - 1])
    BY <2>1, <1>1 DEF Faithful
  <2>3. k \in Nat /\ k >= 1 /\ p.cache[k] \in Reg
    BY <1>1, RegStateFacts
  <2>4. CASE k = l + 1
    <3>1. k \in Sharers(p, r)
      BY <2>4
    <3>2. p.cache[k] = r /\ k - 1 = l
      BY <3>1, <2>4, <1>2 DEF Sharers
    <3> QED BY <3>2, <2>2, <1>4, <1>5, <1>6 DEF Running
  <2>5. CASE k # l + 1
    <3>1. k \notin Sharers(p, r)
      BY <2>5
    <3>2. p.cache[k] # r
      BY <3>1, <2>1 DEF Sharers
    <3>3. k - 1 \in 0 .. MaxLocals - 1 /\ k - 1 # l
      BY <2>2, <2>3, <2>5, <1>1, <1>2
    <3> QED BY <3>2, <3>3, <2>2, <2>3, <1>4, <1>5, <1>6 DEF Running
  <2> QED BY <2>4, <2>5
<1> QED BY <1>4, <1>6, <1>7, <1>8

LEMMA EndCompoundValues ==
  ASSUME Careful, Steps, EndCompound
  PROVE  ValueInv'
<1>1. PICK n \in Nat : n = Len(s.vals)
  BY StepsFacts, CoreFacts
<1>2. PICK h : h = Len(todo)
  OBVIOUS
<1>3. PICK i, x, l, d, r, b : /\ x = Top.x /\ i = ScopeOf(x) /\ l = LocalOf(x) /\ d = LastReg(p)
                              /\ r = CachedReg(p, l) /\ b = Operand(s, 0)
  OBVIOUS
<1>4. PICK e : e = Put(m, r, m.locals[l])
  OBVIOUS
<1>5. PICK w : w = Mix(e.regs[r], e.regs[d])
  OBVIOUS
<1>6. PICK f, a : f = Put(e, r, w) /\ a = Mix(s.env[i][x], b)
  OBVIOUS
<1>7. /\ need = "done" /\ Top.k = "compound" /\ SafeCompound(l) /\ vars' = vars /\ placed' = placed
      /\ todo' = Below /\ need' = "closed" /\ last' = Other
  BY <1>3, ReadsFacts DEF EndCompound, SameScope
<1>8. IsStatement /\ r # NoReg /\ Sharers(p, r) = {l + 1}
  BY <1>3, <1>7 DEF SafeCompound
<1>9. p' = p /\ m' = PutLocal(f, l, f.regs[r]) /\ s' = Yield(SetVar(s, x, a), 1, Unknown)
  BY <1>3, <1>4, <1>5, <1>6, <1>8 DEF EndCompound, Go
<1>10. Ready(need) = 1 /\ Ready(need') = 1 /\ Held(Top) = 0
  BY <1>7, ReadyFacts, HeldFacts
<1>11. /\ Top.k \notin LabelKinds /\ Top.k \notin LogicalKinds /\ Top.k # "func"
       /\ Top.k \in OperandKinds
  BY <1>7, KindFacts DEF OperandKinds, ListKinds
<1>12. ~Dropped(todo, need)
  <2>1. need = "done" /\ Top.k # "effect"
    BY <1>7
  <2> QED BY <2>1, StepsFacts, NotDropped
<1>13. /\ i \in DOMAIN vars /\ x \in DOMAIN vars[i] /\ l = vars[i][x] /\ l \in Nat
       /\ l \in 0 .. placed - 1 /\ Declared(x)
  <2>1. Declared(x)
    BY <1>3, <1>7, StepsFacts, NotedName
  <2>2. i \in DOMAIN vars /\ x \in DOMAIN vars[i] /\ l = vars[i][x] /\ l \in Nat
    BY <2>1, <1>3, StepsFacts, LocalFacts
  <2> QED BY <2>1, <2>2, StepsFacts, LocalPlaced
<1>14. m.regs[d] \in Val /\ b \in SVal /\ (Running(s) => b = m.regs[d]) /\ d \in Reg
  <2>1. 0 \in Nat /\ 0 < Held(Top) + Ready(need)
    BY <1>10
  <2>2. TopReg(p, 0) = d
    BY <1>3, StepsFacts, CoreFacts, LastRegTop
  <2> QED BY <2>1, <2>2, <1>3, <1>11, <1>12, TopOperand
<1>15. p \in RegState /\ m \in Machine /\ (Running(m) <=> Running(s)) /\ Reading(s, vars) /\ r \in Reg
  BY <1>3, <1>13, StepsFacts, CoreFacts, CachedRegIn
<1>16. m.locals[l] \in Val /\ s.env[i][x] \in SVal /\ (Running(s) => s.env[i][x] = m.locals[l])
  BY <1>13, NameKnown
<1>17. Running(m) => m.regs[r] = m.locals[l]
  <2>1. PICK k : k = l + 1
    OBVIOUS
  <2>2. k \in Sharers(p, r) /\ k - 1 = l
    BY <2>1, <1>8, <1>13
  <2>3. k \in DOMAIN p.cache /\ p.cache[k] = r
    BY <2>2 DEF Sharers
  <2>4. Faithful(p, m, placed)
    BY StepsFacts
  <2> QED BY ONLY <2>2, <2>3, <2>4, <1>8 DEF Faithful, Running
<1>18. e = m
  <2>1. CASE Running(m)
    BY <2>1, <1>4, <1>15, <1>17, PutAgain
  <2>2. CASE ~Running(m)
    BY <2>2, <1>4 DEF Put
  <2> QED BY <2>1, <2>2
<1>19. w \in Val /\ a \in SVal /\ (Running(s) => a = w)
  <2>1. m.regs[r] \in Val
    BY <1>15, MachineFacts
  <2>2. w = Mix(m.regs[r], m.regs[d])
    BY <1>5, <1>18
  <2>3. w \in Val
    BY <2>1, <2>2, <1>14, ValueFacts
  <2>4. a \in SVal
    BY <1>6, <1>14, <1>16, ValueFacts
  <2> QED BY <2>2, <2>3, <2>4, <1>6, <1>14, <1>15, <1>16, <1>17
<1>20. PICK c, g : c = PutLocal(m, l, w) /\ g = SetVar(s, x, a)
  OBVIOUS
<1>21. StoresName(i, x, l, w, a, c, g)
  BY <1>3, <1>13, <1>19, <1>20 DEF StoresName, SetVar
<1>22. /\ Reading(g, vars) /\ g.vals = s.vals /\ g.at = s.at /\ g.field = s.field /\ g.ret = s.ret
       /\ NamesAgree(c, g, vars) /\ KnownNames(g, todo)
  BY <1>21, NamesStored
<1>23. /\ Faithful(p, m', placed) /\ m'.locals = c.locals
       /\ m'.at = m.at /\ m'.ret = m.ret /\ m'.field = m.field
  <2>1. PICK z : z = m'
    OBVIOUS
  <2>2. f = Put(m, r, w) /\ z = PutLocal(f, l, f.regs[r])
    BY <2>1, <1>6, <1>9, <1>18
  <2>3. /\ Faithful(p, z, placed) /\ z.locals = PutLocal(m, l, w).locals
        /\ z.at = m.at /\ z.ret = m.ret /\ z.field = m.field
    BY ONLY Steps, <2>2, <1>3, <1>8, <1>13, <1>19, SharedFaithful
  <2> QED BY <2>1, <2>3, <1>20
<1>24. /\ h \in Nat /\ h > 2 /\ (\A j \in 1 .. h - 1 : todo[j].params = <<>>)
       /\ Upto(todo, h - 1) = 0
  BY <1>2, <1>8, <1>11, StepsFacts, AloneIn
<1>25. n = 1
  <2>1. Upto(todo, Len(todo) - 1) = Len(s.vals) - Ready(need) - Held(Top)
    BY StepsFacts, Waiting
  <2>2. Upto(todo, h - 1) = n - 1 - 0
    BY ONLY <2>1, <1>1, <1>2, <1>10
  <2>3. n - 1 - 0 = n - 1
    OBVIOUS
  <2> QED BY <2>2, <2>3, <1>24
<1>26. /\ Reading(s', vars) /\ Len(s'.vals) = 1 /\ s'.vals[1] = Unknown
       /\ s'.at = s.at /\ s'.env = g.env /\ s'.field = s.field /\ s'.ret = s.ret
  <2>1. PICK y, z : y = s' /\ z = 1
    OBVIOUS
  <2>2. Yields(vars, g, n, z, Unknown, y)
    BY <2>1, <1>1, <1>9, <1>20, <1>22, <1>25, ValueFacts DEF Yields
  <2>3. /\ Reading(y, vars) /\ Len(y.vals) = n - z + 1
        /\ y.vals[n - z + 1] = IF Running(g) THEN Unknown ELSE Unknown
        /\ y.at = g.at /\ y.env = g.env /\ y.field = g.field /\ y.ret = g.ret
    BY <2>2, YieldFacts
  <2>4. n - z + 1 = 1
    BY <2>1, <1>25
  <2> QED BY <2>1, <2>3, <2>4, <1>22
<1>27. DOMAIN s'.vals = 1 .. 1
  BY <1>26, SourceFacts
<1>28. Shares(todo, todo', h - 1) /\ Len(todo') = h - 1
  BY <1>2, <1>7, <1>11, StepsFacts, TodoShares
<1>29. DOMAIN todo' = 1 .. h - 1 /\ \A j \in 1 .. h - 1 : todo'[j] = todo[j] /\ todo'[j].params = <<>>
  BY <1>24, <1>28 DEF Shares
<1>30. OperandsAgree(p', m', s')
  <2>1. \A v \in DOMAIN s'.vals : s'.vals[v] = Unknown
    BY <1>26, <1>27
  <2> QED BY <2>1 DEF OperandsAgree
<1>31. ArgsAgree(m', todo')
  BY <1>29, NoArgs DEF ArgsAgree
<1>32. NamesAgree(m', s', vars')
  BY <1>7, <1>22, <1>23, <1>26 DEF NamesAgree
<1>33. Followed(p', m', s', todo', vars')
  BY <1>23, <1>26, <1>30, <1>31, <1>32, StepsFacts DEF Followed
<1>34. Sourced(s', todo', need')
  <2>1. /\ s.at = Run \/ s.at.pos \in 1 .. h - 1
        /\ Labelled(s.at, todo')
    <3>1. Labelled(Run, todo')
      BY DEF Labelled
    <3> QED BY ONLY <3>1, Steps, <1>2, <1>11, <1>28, WhereAt DEF LabelKinds
  <2>2. Dropped(todo', need')
    <3>1. /\ Len(todo') > 1 /\ Len(todo') \in 1 .. h - 1 /\ Len(todo') - 1 \in 1 .. h - 1
          /\ Len(todo') = h - 1 /\ Len(todo') - 1 = h - 2
      BY <1>24, <1>28
    <3>2. todo[h - 2].k = "effect" /\ todo[h - 1].op = 0
      BY <1>2, <1>8 DEF IsStatement
    <3>3. todo'[Len(todo')].op = 0 /\ todo'[Len(todo') - 1].k = "effect"
      BY <3>1, <3>2, <1>29
    <3> QED BY <3>1, <3>3, <1>7 DEF Dropped
  <2>3. KnownOperands(s', todo', need')
    <3>1. \A v \in DOMAIN s'.vals : v = Len(s'.vals)
      BY <1>26, <1>27
    <3> QED BY <3>1, <2>2 DEF KnownOperands
  <2>4. KnownArgs(s', todo')
    BY <1>29, NoArgs DEF KnownArgs
  <2>5. KnownNames(g, todo')
    BY ONLY <2>1, <1>22, <1>28, NamesCarried
  <2>6. KnownNames(s', todo')
    BY <2>5, <1>22, <1>26 DEF KnownNames
  <2> QED BY <2>1, <2>3, <2>4, <2>6, <1>26 DEF Sourced
<1>35. Faithful(p', m', placed')
  BY <1>7, <1>9, <1>23
<1> QED BY <1>7, <1>33, <1>34, <1>35, ValuesKept

-----------------------------------------------------------------------------
(* The values, action by action: blocks.                                   *)

(* At the beginning, the end and the turn of a block nothing waits, nothing is cached *)
(* and the first b scopes stay.                                                       *)
Turns(q, e, g, u, w, o, h, b) ==
  /\ h = Len(todo) /\ Shares(todo, u, h - 1) /\ b = Total(Opened(todo), h - 1) + 1
  /\ g.vals = <<>> /\ Reading(g, w) /\ \A i \in DOMAIN u : u[i].params = <<>>
  /\ e.at = g.at /\ e.ret = g.ret /\ e.field = g.field /\ e.locals = m.locals
  /\ \A i \in DOMAIN w : \/ i <= b /\ i \in DOMAIN vars /\ w[i] = vars[i] /\ g.env[i] = s.env[i]
                         \/ DOMAIN w[i] = {}
  /\ Labelled(g.at, u)
  /\ g.at # Stop => \/ s.at = Run \/ s.at.pos = h
                    \/ g.at = s.at /\ s.at.pos \in 1 .. h - 1
  /\ \A l \in DOMAIN q.cache : q.cache[l] = NoReg
  /\ LoadKept(e, o) /\ Silent(e, u, o)

LEMMA TurnNames ==
  ASSUME Steps, NEW q, NEW e, NEW g, NEW u, NEW w, NEW o, NEW h, NEW b,
         Turns(q, e, g, u, w, o, h, b), g.at # Stop
  PROVE  KnownNames(g, u)
<1>1. /\ h = Len(todo) /\ Shares(todo, u, h - 1) /\ b = Total(Opened(todo), h - 1) + 1 /\ Reading(g, w)
      /\ \A i \in DOMAIN w : \/ i <= b /\ i \in DOMAIN vars /\ w[i] = vars[i] /\ g.env[i] = s.env[i]
                             \/ DOMAIN w[i] = {}
      /\ s.at = Run \/ s.at.pos = h \/ (g.at = s.at /\ s.at.pos \in 1 .. h - 1)
  BY DEF Turns
<1>2. KnownNames(s, todo) /\ Reading(s, vars) /\ vars \in Seq(Scope(0 .. MaxLocals - 1))
  BY StepsFacts, CoreFacts
<1>3. \A i \in 0 .. h - 1 : Total(Opened(u), i) = Total(Opened(todo), i)
  <2>1. /\ todo \in Seq(ItemSet) /\ u \in Seq(ItemSet) /\ h - 1 \in 0 .. Len(todo) /\ h - 1 <= Len(u)
        /\ \A i \in 1 .. h - 1 : Held(u[i]) = Held(todo[i]) /\ u[i].k = todo[i].k
    BY <1>1 DEF Shares
  <2> QED BY <2>1, UptoSame
<1>4. SUFFICES ASSUME NEW i \in DOMAIN g.env, NEW x \in DOMAIN g.env[i],
                      g.at = Run \/ i <= Total(Opened(u), g.at.pos - 1) + 1
               PROVE  g.env[i][x] # Unknown
  BY DEF KnownNames
<1>5. Len(g.env) = Len(w) /\ g.env \in Seq(Scope(SVal)) /\ \A j \in DOMAIN w : DOMAIN g.env[j] = DOMAIN w[j]
  BY <1>1, SourceFacts DEF Reading
<1>6. DOMAIN s.env = DOMAIN vars
  BY <1>2, SourceFacts DEF Reading
<1>7. CASE i \in DOMAIN w
  <2>1. i <= b /\ i \in DOMAIN s.env /\ g.env[i] = s.env[i]
    BY <1>1, <1>4, <1>5, <1>6, <1>7
  <2>2. s.at = Run \/ i <= Total(Opened(todo), s.at.pos - 1) + 1
    <3>1. CASE s.at = Run
      BY <3>1
    <3>2. CASE s.at.pos = h
      BY <3>2, <2>1, <1>1
    <3>3. CASE g.at = s.at /\ s.at.pos \in 1 .. h - 1 /\ s.at # Run
      <4>1. PICK k \in Nat : k = h
        BY <1>1, StepsFacts, CoreFacts
      <4>2. s.at.pos - 1 \in 0 .. k - 1
        BY <3>3, <4>1
      <4> QED BY <3>3, <4>1, <4>2, <1>3, <1>4
    <3> QED BY <3>1, <3>2, <3>3, <1>1
  <2> QED BY <2>1, <2>2, <1>2, <1>4 DEF KnownNames
<1>8. CASE i \notin DOMAIN w
  <2>1. DOMAIN g.env = 1 .. Len(w)
    BY <1>5
  <2>2. i \in Nat /\ i >= 1 /\ i <= Len(w)
    BY <2>1, <1>4, <1>5
  <2> QED BY <2>1, <2>2, <1>4, <1>8
<1> QED BY <1>7, <1>8

LEMMA TurnValues ==
  ASSUME Steps, NEW h, NEW b, Turns(p', m', s', todo', vars', last', h, b)
  PROVE  ValueInv'
<1>1. /\ h = Len(todo) /\ Shares(todo, todo', h - 1)
      /\ s'.vals = <<>> /\ Reading(s', vars') /\ \A i \in DOMAIN todo' : todo'[i].params = <<>>
      /\ m'.at = s'.at /\ m'.ret = s'.ret /\ m'.field = s'.field /\ m'.locals = m.locals
      /\ \A i \in DOMAIN vars' :
            \/ i <= b /\ i \in DOMAIN vars /\ vars'[i] = vars[i] /\ s'.env[i] = s.env[i]
            \/ DOMAIN vars'[i] = {}
      /\ Labelled(s'.at, todo')
      /\ \A l \in DOMAIN p'.cache : p'.cache[l] = NoReg
      /\ LoadKept(m', last') /\ Silent(m', todo', last')
  BY DEF Turns
<1>2. Sourced(s', todo', need')
  <2>1. KnownOperands(s', todo', need')
    BY <1>1, NoArgs DEF KnownOperands
  <2>2. KnownArgs(s', todo')
    BY <1>1, NoArgs DEF KnownArgs
  <2>3. s'.at # Stop => KnownNames(s', todo')
    BY TurnNames
  <2> QED BY <2>1, <2>2, <2>3, <1>1 DEF Sourced
<1>3. OperandsAgree(p', m', s') /\ ArgsAgree(m', todo')
  BY <1>1, NoArgs DEF OperandsAgree, ArgsAgree
<1>4. NamesAgree(m', s', vars')
  BY <1>1, StepsFacts DEF NamesAgree
<1>5. Faithful(p', m', placed')
  BY <1>1 DEF Faithful
<1> QED BY <1>1, <1>2, <1>3, <1>4, <1>5 DEF ValueInv, Followed, Backed

(* The scopes of a block that begins or ends. *)
LEMMA TurnScopes ==
  ASSUME Steps, NEW h, h = Len(todo), NEW b, b = Total(Opened(todo), h - 1) + 1
  PROVE  /\ b \in Nat /\ Len(vars) \in Nat /\ DOMAIN vars = 1 .. Len(vars)
         /\ Len(vars) = b + IF Top.k \in ScopeKinds THEN 1 ELSE 0
<1>1. /\ todo \in Seq(ItemSet) /\ h \in Nat \ {0} /\ Top = todo[h]
      /\ vars \in Seq(Scope(0 .. MaxLocals - 1)) /\ Len(vars) = Total(Opened(todo), h) + 1
  BY StepsFacts, CoreFacts
<1>2. h \in 1 .. Len(todo) /\ h - 1 \in 0 .. Len(todo)
  BY <1>1
<1>3. Total(Opened(todo), h - 1) \in Nat
  BY <1>1, <1>2, WeightType
<1>4. Total(Opened(todo), h) = Total(Opened(todo), h - 1) + IF todo[h].k \in ScopeKinds THEN 1 ELSE 0
  BY <1>1, <1>2, UptoStep
<1> QED BY <1>1, <1>3, <1>4

(* What a block leaves behind when it ends with a return. *)
LEMMA SkipSilent ==
  ASSUME Steps, AfterSkip, NEW h, h = Len(todo), NEW u, Shares(todo, u, h - 1),
         \A i \in DOMAIN u : i > h - 1 => u[i].k # "then",
         NEW e, s.at # Run /\ s.at.pos \in 1 .. h - 1 => e.at = s.at
  PROVE  LoadKept(e, last') /\ Silent(e, u, last')
<1>1. CASE ~Returned
  BY <1>1, OtherKept DEF AfterSkip
<1>2. CASE Returned
  <2>1. last' = last /\ last.op = "ret"
    BY <1>2 DEF AfterSkip, Returned
  <2>2. LoadKept(e, last')
    BY <2>1 DEF LoadKept
  <2>3. SUFFICES ASSUME last.depth \in DOMAIN u, u[last.depth].k = "then"
                 PROVE  e.at # Run /\ e.at.pos <= last.depth
    BY <2>1, <2>2 DEF Silent
  <2>4. PICK c : c = last.depth
    OBVIOUS
  <2>5. /\ h \in Nat \ {0} /\ u \in Seq(ItemSet) /\ todo \in Seq(ItemSet)
        /\ \A i \in 1 .. h - 1 : u[i] = todo[i]
    BY StepsFacts, CoreFacts DEF Shares
  <2>6. c \in Nat /\ c >= 1 /\ c <= h - 1
    BY <2>3, <2>4, <2>5
  <2>7. c \in DOMAIN todo /\ todo[c].k = "then"
    BY <2>3, <2>4, <2>5, <2>6
  <2>8. Silent(m, todo, last) /\ m.at = s.at /\ s.at # Stop /\ Labelled(s.at, todo)
    BY StepsFacts
  <2>9. s.at # Run /\ s.at.pos <= c
    BY <2>1, <2>4, <2>7, <2>8 DEF Silent
  <2>10. s.at.pos \in 1 .. Len(todo)
    BY <2>5, <2>8, <2>9, LabelledPos
  <2>11. s.at.pos \in 1 .. h - 1
    BY <2>5, <2>6, <2>9, <2>10
  <2> QED BY <2>4, <2>9, <2>11
<1> QED BY <1>1, <1>2

(* A block begins, ends or turns, and whoever was on his way out of it goes on. *)
LEMMA BlockTurn ==
  ASSUME Steps, NEW h, h = Len(todo), NEW b, b = Total(Opened(todo), h - 1) + 1,
         Shares(todo, todo', h - 1), \A i \in DOMAIN todo' : todo'[i].params = <<>>,
         s'.vals = <<>>, Reading(s', vars'), m'.at = s'.at,
         m'.ret = m.ret, m'.field = m.field, m'.locals = m.locals,
         s'.ret = s.ret, s'.field = s.field,
         s.at = Run \/ s.at.pos = h \/ s'.at = s.at,
         Labelled(s'.at, todo') \/ s'.at = s.at,
         \A i \in DOMAIN vars' :
            \/ i <= b /\ i \in DOMAIN vars /\ vars'[i] = vars[i] /\ s'.env[i] = s.env[i]
            \/ DOMAIN vars'[i] = {},
         \A l \in DOMAIN p'.cache : p'.cache[l] = NoReg,
         last' = Other \/ (AfterSkip /\ \A i \in DOMAIN todo' : i > h - 1 => todo'[i].k # "then"),
         s'.at = s.at => s.at = Run \/ s.at.pos # h \/ Labelled(s'.at, todo')
  PROVE  ValueInv'
<1>1. /\ m.at = s.at /\ m.ret = s.ret /\ m.field = s.field /\ h \in Nat \ {0}
  BY StepsFacts, CoreFacts
<1>2. \/ s.at = Run
      \/ s.at.pos = h
      \/ /\ s.at.pos \in 1 .. h - 1 /\ s.at # Run
         /\ \A u : Shares(todo, u, h - 1) => Labelled(s.at, u)
  BY ONLY Steps, h = Len(todo), WhereAt
<1>3. s'.at = s.at \/ s.at = Run \/ s.at.pos = h
  OBVIOUS
<1>4. Labelled(s'.at, todo')
  <2>1. CASE s.at = Run
    <3>1. Labelled(Run, todo')
      BY DEF Labelled
    <3> QED BY ONLY <2>1, <3>1, Labelled(s'.at, todo') \/ s'.at = s.at
  <2>2. CASE s.at.pos = h /\ s.at # Run
    BY ONLY <2>2, Labelled(s'.at, todo') \/ s'.at = s.at,
            s'.at = s.at => s.at = Run \/ s.at.pos # h \/ Labelled(s'.at, todo')
  <2>3. CASE Labelled(s.at, todo')
    BY ONLY <2>3, Labelled(s'.at, todo') \/ s'.at = s.at
  <2> QED BY ONLY <2>1, <2>2, <2>3, <1>2, Shares(todo, todo', h - 1)
<1>5. \/ s.at = Run \/ s.at.pos = h
      \/ s'.at = s.at /\ s.at.pos \in 1 .. h - 1
  BY ONLY <1>2, <1>3
<1>6. LoadKept(m', last') /\ Silent(m', todo', last')
  <2>1. CASE last' = Other
    BY <2>1, OtherKept
  <2>2. CASE AfterSkip /\ \A i \in DOMAIN todo' : i > h - 1 => todo'[i].k # "then"
    <3>1. s.at # Run /\ s.at.pos \in 1 .. h - 1 => m'.at = s.at
      <4>1. s.at.pos \in 1 .. h - 1 => s.at.pos # h
        BY <1>1
      <4> QED BY ONLY <4>1, <1>3, m'.at = s'.at
    <3> QED BY ONLY Steps, <2>2, <3>1, h = Len(todo), Shares(todo, todo', h - 1), SkipSilent
  <2> QED BY ONLY <2>1, <2>2,
       last' = Other \/ (AfterSkip /\ \A i \in DOMAIN todo' : i > h - 1 => todo'[i].k # "then")
<1>7. Turns(p', m', s', todo', vars', last', h, b)
  BY <1>1, <1>4, <1>5, <1>6 DEF Turns
<1> QED BY ONLY Steps, <1>7, TurnValues

(* A jump over the else part. *)
LEMMA SkipFacts ==
  ASSUME NEW e \in Machine, NEW h \in Nat, h = Len(todo)
  PROVE  /\ SkipElse(e) \in Machine
         /\ SkipElse(e).at = IF ~Returned /\ e.at = Run THEN EndOf(h) ELSE e.at
         /\ SkipElse(e).regs = e.regs /\ SkipElse(e).locals = e.locals
         /\ SkipElse(e).field = e.field /\ SkipElse(e).ret = e.ret
<1>1. EndOf(h) \in Label
  BY LabelFacts
<1>2. CASE Returned
  BY <1>2 DEF SkipElse
<1>3. CASE ~Returned
  BY <1>1, <1>3, JumpFacts DEF SkipElse, Here, Running
<1> QED BY <1>2, <1>3

(* A block, and the statement that it is, are over. *)
LEMMA EndTurn ==
  ASSUME Steps, NEW h, h = Len(todo), Top.k \in BlockKinds \ {"func"},
         NEW f, NEW w, w = vars', Finishes(FlushCached(p), f, Below, w), m' \in Machine, m'.at = f.at,
         m'.ret = m.ret, m'.field = m.field, m'.locals = m.locals,
         f.ret = s.ret, f.field = s.field, last' = Other \/ AfterSkip,
         s.at = Run \/ s.at.pos = h => f.at \in {Run, Stop},
         s.at = Run \/ s.at.pos = h \/ f.at = s.at,
         NEW b, b = Total(Opened(todo), h - 1) + 1,
         \A i \in DOMAIN w : i <= b /\ i \in DOMAIN vars /\ w[i] = vars[i] /\ f.env[i] = s.env[i]
  PROVE  ValueInv'
<1>1. /\ p \in RegState /\ h \in Nat \ {0} /\ Shape(todo, vars, placed) /\ Top = todo[h]
  BY StepsFacts, CoreFacts
<1>2. /\ Reading(s', w) /\ s'.vals = <<>> /\ s'.env = f.env /\ s'.at = f.at
      /\ s'.field = f.field /\ s'.ret = f.ret /\ todo' = Below
  BY OverFacts
<1>3. Top.k # "func"
  OBVIOUS
<1>4. Shares(todo, todo', h - 1) /\ Len(todo') = h - 1
  BY <1>2, <1>3, StepsFacts, TodoShares
<1>5. DOMAIN todo' = 1 .. h - 1 /\ \A i \in 1 .. h - 1 : todo'[i] = todo[i]
  BY <1>4 DEF Shares
<1>6. \A i \in DOMAIN todo' : todo'[i].params = <<>>
  <2>1. \A i \in 1 .. h : todo[i].params = <<>>
    BY <1>1, BlockShape
  <2>2. \A i \in 1 .. h - 1 : i \in 1 .. h
    BY <1>1
  <2> QED BY <2>1, <2>2, <1>5
<1>7. \A l \in DOMAIN p'.cache : p'.cache[l] = NoReg
  <2>1. PICK q : q = FlushCached(p)
    OBVIOUS
  <2>2. q \in RegState /\ \A l \in DOMAIN q.cache : q.cache[l] = NoReg
    BY <2>1, <1>1, FlushFacts
  <2>3. FlushFree(q).cache = q.cache
    BY <2>2, FlushFreeFacts
  <2>4. p' = q \/ p' = FlushFree(q)
    BY <2>1 DEF Finishes, Over
  <2> QED BY <2>2, <2>3, <2>4
<1>8. Labelled(s'.at, todo') \/ s'.at = s.at
  <2>1. CASE f.at \in {Run, Stop}
    BY <2>1, <1>2 DEF Labelled
  <2>2. CASE f.at = s.at
    BY <2>2, <1>2
  <2> QED BY <2>1, <2>2
<1>9. s'.at = s.at => s.at = Run \/ s.at.pos # h \/ Labelled(s'.at, todo')
  <2>1. CASE s.at.pos = h
    <3>1. f.at \in {Run, Stop}
      BY <2>1
    <3> QED BY <3>1, <1>2 DEF Labelled
  <2> QED BY <2>1
<1>10. \A i \in DOMAIN todo' : i > h - 1 => todo'[i].k # "then"
  BY <1>1, <1>5
<1>11. \A i \in DOMAIN vars' :
            \/ i <= b /\ i \in DOMAIN vars /\ vars'[i] = vars[i] /\ s'.env[i] = s.env[i]
            \/ DOMAIN vars'[i] = {}
  BY <1>2
<1>12. /\ Reading(s', vars') /\ m'.at = s'.at /\ s'.ret = s.ret /\ s'.field = s.field
       /\ s.at = Run \/ s.at.pos = h \/ s'.at = s.at
  BY <1>2
<1>13. last' = Other \/ (AfterSkip /\ \A i \in DOMAIN todo' : i > h - 1 => todo'[i].k # "then")
  BY <1>10
<1> QED BY ONLY Steps, h = Len(todo), b = Total(Opened(todo), h - 1) + 1,
         <1>2, <1>4, <1>6, <1>7, <1>8, <1>9, <1>11, <1>12, <1>13,
         m'.ret = m.ret, m'.field = m.field, m'.locals = m.locals, BlockTurn

(* The innermost scope goes with the block, and the others stay. *)
Leaving(h, b, c, g, w) ==
  /\ Top.k \in ScopeKinds /\ h = Len(todo) /\ b = Total(Opened(todo), h - 1) + 1
  /\ Reading(c, vars) /\ c.env = s.env /\ g = OutOfScope(c) /\ w = Front(vars)

LEMMA LeaveTurn ==
  ASSUME Steps, NEW h, NEW b, NEW c, NEW g, NEW w, Leaving(h, b, c, g, w)
  PROVE  /\ Reading(g, w) /\ g.at = c.at /\ g.field = c.field /\ g.ret = c.ret /\ g.vals = c.vals
         /\ Len(w) = b /\ w \in Seq(Scope(0 .. MaxLocals - 1))
         /\ \A i \in DOMAIN w : i <= b /\ i \in DOMAIN vars /\ w[i] = vars[i] /\ g.env[i] = s.env[i]
<1>1. Top.k \in ScopeKinds /\ Reading(c, vars) /\ c.env = s.env /\ g = OutOfScope(c) /\ w = Front(vars)
  BY DEF Leaving
<1>2. b \in Nat /\ Len(vars) = b + 1 /\ vars \in Seq(Scope(0 .. MaxLocals - 1)) /\ DOMAIN vars = 1 .. b + 1
  <2>1. h = Len(todo) /\ b = Total(Opened(todo), h - 1) + 1
    BY DEF Leaving
  <2> QED BY <2>1, <1>1, TurnScopes, StepsFacts, CoreFacts
<1>3. vars # <<>>
  BY <1>2
<1>4. Leaves(vars, c, w, g)
  BY <1>1, <1>2, <1>3 DEF Leaves
<1>5. /\ Reading(g, w) /\ \A i \in 1 .. Len(vars) - 1 : g.env[i] = c.env[i]
      /\ g.vals = c.vals /\ g.at = c.at /\ g.field = c.field /\ g.ret = c.ret
  BY <1>4, LeaveFacts
<1>6. /\ w \in Seq(Scope(0 .. MaxLocals - 1)) /\ Len(w) = Len(vars) - 1
      /\ DOMAIN w = 1 .. Len(vars) - 1 /\ \A i \in 1 .. Len(vars) - 1 : w[i] = vars[i]
  BY <1>1, <1>2, <1>3, FrontFacts
<1>7. Len(vars) - 1 = b
  BY <1>2
<1>8. \A i \in DOMAIN w : i <= b /\ i \in DOMAIN vars /\ w[i] = vars[i] /\ g.env[i] = s.env[i]
  <2>1. SUFFICES ASSUME NEW i \in 1 .. b
                 PROVE  i <= b /\ i \in DOMAIN vars /\ w[i] = vars[i] /\ g.env[i] = s.env[i]
    BY <1>6, <1>7
  <2>2. i <= b /\ i \in 1 .. b + 1
    BY <1>2
  <2> QED BY <2>2, <1>1, <1>2, <1>5, <1>6, <1>7
<1> QED BY <1>5, <1>6, <1>7, <1>8

LEMMA EndIfValues ==
  ASSUME Steps, EndIf
  PROVE  ValueInv'
<1>0. PICK h, b, w : h = Len(todo) /\ b = Total(Opened(todo), h - 1) + 1 /\ w = vars'
  OBVIOUS
<1>1. PICK e1, e2, c1, c2, f : /\ e1 = SkipElse(m) /\ e2 = Land(e1, ElseOf(h))
                               /\ c1 = Land(s, ElseOf(h)) /\ c2 = Land(c1, EndOf(h))
                               /\ f = OutOfScope(c2)
  OBVIOUS
<1>2. /\ Top.k = "then" /\ m' = Land(e2, EndOf(h)) /\ Over(FlushCached(p), f, Below) /\ AfterSkip
      /\ w = Front(vars)
  BY <1>0, <1>1 DEF EndIf, CloseScope, Here
<1>3. /\ h \in Nat /\ ElseOf(h) \in Label /\ EndOf(h) \in Label /\ m \in Machine /\ p \in RegState
      /\ Reading(s, vars) /\ ElseOf(h) # EndOf(h) /\ ElseOf(h) # Run /\ EndOf(h) # Run
  BY <1>0, StepsFacts, CoreFacts, LabelFacts
<1>4. /\ e1 \in Machine /\ e1.at = IF ~Returned /\ m.at = Run THEN EndOf(h) ELSE m.at
      /\ e1.locals = m.locals /\ e1.field = m.field /\ e1.ret = m.ret
  BY <1>0, <1>1, <1>3, SkipFacts
<1>5. /\ e2 \in Machine /\ e2.at = IF e1.at = ElseOf(h) THEN Run ELSE e1.at
      /\ e2.locals = m.locals /\ e2.field = m.field /\ e2.ret = m.ret
  BY <1>1, <1>3, <1>4, JumpFacts
<1>6. /\ m' \in Machine /\ m'.at = IF e2.at = EndOf(h) THEN Run ELSE e2.at
      /\ m'.locals = m.locals /\ m'.field = m.field /\ m'.ret = m.ret
  BY <1>2, <1>3, <1>5, JumpFacts
<1>7. /\ Reading(c1, vars) /\ c1.at = IF s.at = ElseOf(h) THEN Run ELSE s.at
      /\ c1.env = s.env /\ c1.field = s.field /\ c1.ret = s.ret
  <2>1. PICK t : t = ElseOf(h)
    OBVIOUS
  <2>2. Reading(s, vars) /\ t \in Label /\ c1 = Land(s, t)
    BY <2>1, <1>1, <1>3
  <2>3. /\ Reading(c1, vars) /\ c1.at = IF s.at = t THEN Run ELSE s.at
        /\ c1.env = s.env /\ c1.field = s.field /\ c1.ret = s.ret
    BY ONLY <2>2, SourceJumpFacts
  <2> QED BY ONLY <2>1, <2>3
<1>8. /\ Reading(c2, vars) /\ c2.at = IF c1.at = EndOf(h) THEN Run ELSE c1.at
      /\ c2.env = s.env /\ c2.field = s.field /\ c2.ret = s.ret
  <2>1. PICK t : t = EndOf(h)
    OBVIOUS
  <2>2. Reading(c1, vars) /\ t \in Label /\ c2 = Land(c1, t)
    BY <2>1, <1>1, <1>3, <1>7
  <2>3. /\ Reading(c2, vars) /\ c2.at = IF c1.at = t THEN Run ELSE c1.at
        /\ c2.env = c1.env /\ c2.field = c1.field /\ c2.ret = c1.ret
    BY ONLY <2>2, SourceJumpFacts
  <2> QED BY ONLY <2>1, <2>3, <1>7
<1>9. /\ Reading(f, w) /\ f.at = c2.at /\ f.field = s.field /\ f.ret = s.ret
      /\ \A i \in DOMAIN w : i <= b /\ i \in DOMAIN vars /\ w[i] = vars[i] /\ f.env[i] = s.env[i]
  <2>1. Top.k \in ScopeKinds
    BY <1>2 DEF ScopeKinds
  <2>2. Leaving(h, b, c2, f, w)
    BY <2>1, <1>0, <1>1, <1>2, <1>8 DEF Leaving
  <2> QED BY <2>2, <1>8, LeaveTurn
<1>10. m.at = s.at
  BY StepsFacts
<1>11. /\ m'.at = f.at /\ (s.at = Run \/ s.at.pos = h => f.at \in {Run, Stop})
       /\ (s.at = Run \/ s.at.pos = h \/ f.at = s.at)
  <2>1. CASE s.at = Run
    BY <2>1, <1>3, <1>4, <1>5, <1>6, <1>7, <1>8, <1>9, <1>10
  <2>2. CASE s.at = ElseOf(h)
    <3>1. s.at.pos = h
      BY <2>2, <1>3, LabelFacts
    <3> QED BY <3>1, <2>2, <1>3, <1>4, <1>5, <1>6, <1>7, <1>8, <1>9, <1>10
  <2>3. CASE s.at = EndOf(h)
    <3>1. s.at.pos = h
      BY <2>3, <1>3, LabelFacts
    <3> QED BY <3>1, <2>3, <1>3, <1>4, <1>5, <1>6, <1>7, <1>8, <1>9, <1>10
  <2>4. CASE s.at \notin {Run, ElseOf(h), EndOf(h)}
    <3>1. s.at.pos # h
      <4>1. s.at.pos \in 1 .. h - 1
        BY <2>4, <1>0, WhereAt
      <4> QED BY <4>1, <1>3
    <3> QED BY <3>1, <2>4, <1>4, <1>5, <1>6, <1>7, <1>8, <1>9, <1>10
  <2> QED BY <2>1, <2>2, <2>3, <2>4
<1>12. Top.k \in BlockKinds \ {"func"}
  BY <1>2 DEF BlockKinds
<1>13. Finishes(FlushCached(p), f, Below, w)
  BY <1>2, <1>3, <1>9, FlushFacts DEF Finishes
<1> QED BY ONLY Steps, <1>0, <1>2, <1>6, <1>9, <1>11, <1>12, <1>13, EndTurn

LEMMA EndElseValues ==
  ASSUME Steps, EndElse
  PROVE  ValueInv'
<1>0. PICK h, b, w : h = Len(todo) /\ b = Total(Opened(todo), h - 1) + 1 /\ w = vars'
  OBVIOUS
<1>1. PICK c, f : c = Land(s, EndOf(h)) /\ f = IF Top.k = "elif" THEN c ELSE OutOfScope(c)
  OBVIOUS
<1>2. /\ Top.k \in {"else", "elif"} /\ m' = Land(m, EndOf(h)) /\ Over(FlushCached(p), f, Below)
      /\ AfterSkip
      /\ Top.k = "elif" => w = vars
      /\ Top.k = "else" => w = Front(vars)
  BY <1>0, <1>1 DEF EndElse, CloseScope, SameScope, Here
<1>3. /\ h \in Nat /\ EndOf(h) \in Label /\ m \in Machine /\ p \in RegState
      /\ Reading(s, vars) /\ EndOf(h) # Run
  BY <1>0, StepsFacts, CoreFacts, LabelFacts
<1>6. /\ m' \in Machine /\ m'.at = IF m.at = EndOf(h) THEN Run ELSE m.at
      /\ m'.locals = m.locals /\ m'.field = m.field /\ m'.ret = m.ret
  BY <1>2, <1>3, JumpFacts
<1>8. /\ Reading(c, vars) /\ c.at = IF s.at = EndOf(h) THEN Run ELSE s.at
      /\ c.env = s.env /\ c.field = s.field /\ c.ret = s.ret
  BY <1>1, <1>3, SourceJumpFacts
<1>9. /\ Reading(f, w) /\ f.at = c.at /\ f.field = s.field /\ f.ret = s.ret
      /\ \A i \in DOMAIN w : i <= b /\ i \in DOMAIN vars /\ w[i] = vars[i] /\ f.env[i] = s.env[i]
  <2>1. CASE Top.k = "else"
    <3>1. Top.k \in ScopeKinds /\ f = OutOfScope(c)
      BY <2>1, <1>1 DEF ScopeKinds
    <3>2. Leaving(h, b, c, f, w)
      BY <3>1, <2>1, <1>0, <1>2, <1>8 DEF Leaving
    <3> QED BY <3>2, <1>8, LeaveTurn
  <2>2. CASE Top.k = "elif"
    <3>1. Top.k \notin ScopeKinds /\ f = c /\ w = vars
      BY <2>2, <1>1, <1>2 DEF ScopeKinds
    <3>2. b \in Nat /\ DOMAIN vars = 1 .. b
      <4>1. b \in Nat /\ DOMAIN vars = 1 .. Len(vars) /\ Len(vars) = b + 0
        BY <3>1, <1>0, TurnScopes
      <4> QED BY <4>1
    <3> QED BY <3>1, <3>2, <1>8
  <2> QED BY <2>1, <2>2, <1>2
<1>10. m.at = s.at
  BY StepsFacts
<1>11. /\ m'.at = f.at /\ (s.at = Run \/ s.at.pos = h => f.at \in {Run, Stop})
       /\ (s.at = Run \/ s.at.pos = h \/ f.at = s.at)
  <2>1. CASE s.at = Run
    BY <2>1, <1>3, <1>6, <1>8, <1>9, <1>10
  <2>2. CASE s.at = EndOf(h)
    <3>1. s.at.pos = h
      BY <2>2, <1>3, LabelFacts
    <3> QED BY <3>1, <2>2, <1>3, <1>6, <1>8, <1>9, <1>10
  <2>3. CASE s.at \notin {Run, EndOf(h)}
    <3>1. s.at.pos # h
      <4>1. s.at.pos \in 1 .. h - 1
        BY <2>3, <1>0, <1>2, WhereAt
      <4> QED BY <4>1, <1>3
    <3> QED BY <3>1, <2>3, <1>6, <1>8, <1>9, <1>10
  <2> QED BY <2>1, <2>2, <2>3
<1>12. Top.k \in BlockKinds \ {"func"}
  BY <1>2 DEF BlockKinds
<1>13. Finishes(FlushCached(p), f, Below, w)
  BY <1>2, <1>3, <1>9, FlushFacts DEF Finishes
<1> QED BY ONLY Steps, <1>0, <1>2, <1>6, <1>9, <1>11, <1>12, <1>13, EndTurn

LEMMA EndLoopValues ==
  ASSUME Steps, EndLoop
  PROVE  ValueInv'
<1>0. PICK h, b, w : h = Len(todo) /\ b = Total(Opened(todo), h - 1) + 1 /\ w = vars'
  OBVIOUS
<1>1. PICK e1, c1, c2, f : /\ e1 = Jump(m, Stop) /\ c1 = Jump(s, Stop) /\ c2 = Land(c1, EndOf(h))
                           /\ f = OutOfScope(c2)
  OBVIOUS
<1>2. /\ Top.k = "loop" /\ m' = Land(e1, EndOf(h)) /\ Over(FlushCached(p), f, Below)
      /\ last' = Other /\ w = Front(vars)
  BY <1>0, <1>1 DEF EndLoop, CloseScope, Here
<1>3. /\ h \in Nat /\ EndOf(h) \in Label /\ Stop \in Label /\ m \in Machine /\ p \in RegState
      /\ Reading(s, vars) /\ EndOf(h) # Run /\ EndOf(h) # Stop
  BY <1>0, StepsFacts, CoreFacts, LabelFacts
<1>5. /\ e1 \in Machine /\ e1.at = IF m.at = Run THEN Stop ELSE m.at
      /\ e1.locals = m.locals /\ e1.field = m.field /\ e1.ret = m.ret
  BY <1>1, <1>3, JumpFacts DEF Running
<1>6. /\ m' \in Machine /\ m'.at = IF e1.at = EndOf(h) THEN Run ELSE e1.at
      /\ m'.locals = m.locals /\ m'.field = m.field /\ m'.ret = m.ret
  BY <1>2, <1>3, <1>5, JumpFacts
<1>7. /\ Reading(c1, vars) /\ c1.at = IF s.at = Run THEN Stop ELSE s.at
      /\ c1.env = s.env /\ c1.field = s.field /\ c1.ret = s.ret
  <2>1. Reading(s, vars) /\ Stop \in Label /\ c1 = Jump(s, Stop)
    BY <1>1, <1>3
  <2>2. /\ Reading(c1, vars) /\ c1.at = IF Running(s) THEN Stop ELSE s.at
        /\ c1.env = s.env /\ c1.field = s.field /\ c1.ret = s.ret
    BY ONLY <2>1, SourceJumpFacts
  <2> QED BY ONLY <2>2 DEF Running
<1>8. /\ Reading(c2, vars) /\ c2.at = IF c1.at = EndOf(h) THEN Run ELSE c1.at
      /\ c2.env = s.env /\ c2.field = s.field /\ c2.ret = s.ret
  <2>1. PICK t : t = EndOf(h)
    OBVIOUS
  <2>2. Reading(c1, vars) /\ t \in Label /\ c2 = Land(c1, t)
    BY <2>1, <1>1, <1>3, <1>7
  <2>3. /\ Reading(c2, vars) /\ c2.at = IF c1.at = t THEN Run ELSE c1.at
        /\ c2.env = c1.env /\ c2.field = c1.field /\ c2.ret = c1.ret
    BY ONLY <2>2, SourceJumpFacts
  <2> QED BY ONLY <2>1, <2>3, <1>7
<1>9. /\ Reading(f, w) /\ f.at = c2.at /\ f.field = s.field /\ f.ret = s.ret
      /\ \A i \in DOMAIN w : i <= b /\ i \in DOMAIN vars /\ w[i] = vars[i] /\ f.env[i] = s.env[i]
  <2>1. Top.k \in ScopeKinds
    BY <1>2 DEF ScopeKinds
  <2>2. Leaving(h, b, c2, f, w)
    BY <2>1, <1>0, <1>1, <1>2, <1>8 DEF Leaving
  <2> QED BY <2>2, <1>8, LeaveTurn
<1>10. m.at = s.at
  BY StepsFacts
<1>11. /\ m'.at = f.at /\ (s.at = Run \/ s.at.pos = h => f.at \in {Run, Stop})
       /\ (s.at = Run \/ s.at.pos = h \/ f.at = s.at)
  <2>1. CASE s.at = Run
    BY <2>1, <1>3, <1>5, <1>6, <1>7, <1>8, <1>9, <1>10
  <2>2. CASE s.at = EndOf(h)
    <3>1. s.at.pos = h
      BY <2>2, <1>3, LabelFacts
    <3> QED BY <3>1, <2>2, <1>3, <1>5, <1>6, <1>7, <1>8, <1>9, <1>10
  <2>3. CASE s.at \notin {Run, EndOf(h)}
    <3>1. s.at.pos # h
      <4>1. s.at.pos \in 1 .. h - 1
        BY <2>3, <1>0, <1>2, WhereAt
      <4> QED BY <4>1, <1>3
    <3> QED BY <3>1, <2>3, <1>5, <1>6, <1>7, <1>8, <1>9, <1>10
  <2> QED BY <2>1, <2>2, <2>3
<1>12. Top.k \in BlockKinds \ {"func"}
  BY <1>2 DEF BlockKinds
<1>13. Finishes(FlushCached(p), f, Below, w)
  BY <1>2, <1>3, <1>9, FlushFacts DEF Finishes
<1> QED BY ONLY Steps, <1>0, <1>2, <1>6, <1>9, <1>11, <1>12, <1>13, EndTurn

(* Between the then part and the else part: who ran is on his way to the end, who *)
(* skipped the then part runs.                                                    *)
Diverges(h, e, a, u) ==
  /\ h = Len(todo) /\ e = Land(SkipElse(m), ElseOf(h)) /\ a = Land(Jump(s, EndOf(h)), ElseOf(h))
  /\ h \in DOMAIN u /\ u[h].k \in {"else", "elif"}

LEMMA ElseAt ==
  ASSUME Careful, Steps, SafeElse, Top.k = "then", NEW h, NEW e, NEW a, NEW u, Diverges(h, e, a, u)
  PROVE  /\ Reading(a, vars) /\ a.env = s.env /\ a.field = s.field /\ a.ret = s.ret
         /\ a.vals = s.vals
         /\ e.at = a.at /\ e.locals = m.locals /\ e.field = m.field /\ e.ret = m.ret
         /\ s.at = Run \/ s.at.pos = h \/ a.at = s.at
         /\ Labelled(a.at, u) \/ a.at = s.at
         /\ a.at = s.at => s.at = Run \/ s.at.pos # h \/ Labelled(a.at, u)
<1>0. /\ h = Len(todo) /\ e = Land(SkipElse(m), ElseOf(h)) /\ a = Land(Jump(s, EndOf(h)), ElseOf(h))
      /\ h \in DOMAIN u /\ u[h].k \in {"else", "elif"}
  BY DEF Diverges
<1>1. PICK e1, a1 : e1 = SkipElse(m) /\ a1 = Jump(s, EndOf(h))
  OBVIOUS
<1>2. /\ h \in Nat /\ ElseOf(h) \in Label /\ EndOf(h) \in Label /\ m \in Machine
      /\ Reading(s, vars) /\ ElseOf(h) # EndOf(h) /\ ElseOf(h) # Run /\ EndOf(h) # Run
      /\ h \in DOMAIN todo /\ Top = todo[h] /\ m.at = s.at
  BY <1>0, StepsFacts, CoreFacts, LabelFacts
<1>3. /\ e1 \in Machine /\ e1.at = IF ~Returned /\ m.at = Run THEN EndOf(h) ELSE m.at
      /\ e1.locals = m.locals /\ e1.field = m.field /\ e1.ret = m.ret
  BY <1>0, <1>1, <1>2, SkipFacts
<1>4. /\ e.at = IF e1.at = ElseOf(h) THEN Run ELSE e1.at
      /\ e.locals = m.locals /\ e.field = m.field /\ e.ret = m.ret
  <2>1. PICK t : t = ElseOf(h)
    OBVIOUS
  <2>2. e1 \in Machine /\ t \in Label /\ e = Land(e1, t)
    BY <2>1, <1>0, <1>1, <1>2, <1>3
  <2>3. /\ e.at = IF e1.at = t THEN Run ELSE e1.at
        /\ e.locals = e1.locals /\ e.field = e1.field /\ e.ret = e1.ret
    BY ONLY <2>2, JumpFacts
  <2> QED BY ONLY <2>1, <2>3, <1>3
<1>5. /\ Reading(a1, vars) /\ a1.at = IF s.at = Run THEN EndOf(h) ELSE s.at
      /\ a1.vals = s.vals /\ a1.env = s.env /\ a1.field = s.field /\ a1.ret = s.ret
  <2>1. PICK t : t = EndOf(h)
    OBVIOUS
  <2>2. Reading(s, vars) /\ t \in Label /\ a1 = Jump(s, t)
    BY <2>1, <1>1, <1>2
  <2>3. /\ Reading(a1, vars) /\ a1.at = IF Running(s) THEN t ELSE s.at
        /\ a1.vals = s.vals /\ a1.env = s.env /\ a1.field = s.field /\ a1.ret = s.ret
    BY ONLY <2>2, SourceJumpFacts
  <2> QED BY ONLY <2>1, <2>3 DEF Running
<1>6. /\ Reading(a, vars) /\ a.at = IF a1.at = ElseOf(h) THEN Run ELSE a1.at
      /\ a.vals = s.vals /\ a.env = s.env /\ a.field = s.field /\ a.ret = s.ret
  <2>1. PICK t : t = ElseOf(h)
    OBVIOUS
  <2>2. Reading(a1, vars) /\ t \in Label /\ a = Land(a1, t)
    BY <2>1, <1>0, <1>1, <1>2, <1>5
  <2>3. /\ Reading(a, vars) /\ a.at = IF a1.at = t THEN Run ELSE a1.at
        /\ a.vals = a1.vals /\ a.env = a1.env /\ a.field = a1.field /\ a.ret = a1.ret
    BY ONLY <2>2, SourceJumpFacts
  <2> QED BY ONLY <2>1, <2>3, <1>5
<1>7. ~(Returned /\ m.at = Run)
  <2>1. SUFFICES ASSUME Returned PROVE m.at # Run
    OBVIOUS
  <2>2. last.op = "ret" /\ last.depth = h
    BY <2>1, <1>0 DEF SafeElse, Returned, Here
  <2> QED BY <2>2, <1>0, <1>2, StepsFacts DEF Silent
<1>8. e.at = a.at
  BY <1>2, <1>3, <1>4, <1>5, <1>6, <1>7
<1>9. s.at = Run \/ s.at.pos = h \/ a.at = s.at
  <2>1. ElseOf(h).pos = h
    BY <1>2, LabelFacts
  <2> QED BY <2>1, <1>5, <1>6
<1>10. Labelled(Run, u) /\ Labelled(EndOf(h), u)
  BY <1>0 DEF Labelled
<1>11. Labelled(a.at, u) \/ a.at = s.at
  BY <1>5, <1>6, <1>10
<1>12. a.at = s.at => s.at = Run \/ s.at.pos # h \/ Labelled(a.at, u)
  <2>1. SUFFICES ASSUME a.at = s.at, s.at # Run, s.at.pos = h PROVE Labelled(a.at, u)
    OBVIOUS
  <2>2. s.at = ElseOf(h) \/ s.at = EndOf(h)
    <3>1. ~(s.at.pos \in 1 .. h - 1)
      BY <2>1, <1>2
    <3> QED BY <3>1, <2>1, <1>0, WhereAt
  <2> QED BY <2>1, <2>2, <1>2, <1>5, <1>6, <1>10
<1> QED BY <1>4, <1>6, <1>8, <1>9, <1>11, <1>12

(* A scope that opens is empty. *)
Entering(v, b, c, g, w) ==
  /\ v \in Seq(Scope(0 .. MaxLocals - 1)) /\ b \in Nat /\ Len(v) = b
  /\ Reading(c, v) /\ g = InScope(c) /\ w = Append(v, <<>>)
  /\ \A i \in DOMAIN v : v[i] = vars[i] /\ i \in DOMAIN vars /\ c.env[i] = s.env[i]

LEMMA EnterTurn ==
  ASSUME NEW v, NEW b, NEW c, NEW g, NEW w, Entering(v, b, c, g, w)
  PROVE  /\ Reading(g, w) /\ g.at = c.at /\ g.field = c.field /\ g.ret = c.ret /\ g.vals = c.vals
         /\ \A i \in DOMAIN w :
              \/ i <= b /\ i \in DOMAIN vars /\ w[i] = vars[i] /\ g.env[i] = s.env[i]
              \/ DOMAIN w[i] = {}
<1>1. /\ v \in Seq(Scope(0 .. MaxLocals - 1)) /\ b \in Nat /\ Len(v) = b
      /\ Reading(c, v) /\ g = InScope(c) /\ w = Append(v, <<>>) /\ DOMAIN v = 1 .. b
      /\ \A i \in DOMAIN v : v[i] = vars[i] /\ i \in DOMAIN vars /\ c.env[i] = s.env[i]
  BY DEF Entering
<1>2. Enters(v, c, w, g)
  BY <1>1 DEF Enters
<1>3. /\ Reading(g, w) /\ \A i \in 1 .. Len(v) : g.env[i] = c.env[i]
      /\ g.vals = c.vals /\ g.at = c.at /\ g.field = c.field /\ g.ret = c.ret
  BY <1>2, EnterFacts
<1>4. /\ DOMAIN w = 1 .. b + 1 /\ \A i \in 1 .. b : w[i] = v[i]
      /\ w[b + 1] = <<>>
  BY <1>1, ScopeEmpty, AppendFacts
<1>5. ASSUME NEW i \in DOMAIN w
      PROVE  \/ i <= b /\ i \in DOMAIN vars /\ w[i] = vars[i] /\ g.env[i] = s.env[i]
             \/ DOMAIN w[i] = {}
  <2>1. CASE i = b + 1
    BY <2>1, <1>4, ScopeEmpty
  <2>2. CASE i # b + 1
    <3>1. i \in 1 .. b /\ i <= b
      BY <2>2, <1>1, <1>4
    <3> QED BY <3>1, <1>1, <1>3, <1>4
  <2> QED BY <2>1, <2>2
<1> QED BY <1>3, <1>5

LEMMA ElseValues ==
  ASSUME Careful, Steps, Else
  PROVE  ValueInv'
<1>0. PICK h, b, w, u : /\ h = Len(todo) /\ b = Total(Opened(todo), h - 1) + 1 /\ w = vars'
                        /\ u = todo'
  OBVIOUS
<1>1. PICK e, a, v, c : /\ e = Land(SkipElse(m), ElseOf(h)) /\ a = Land(Jump(s, EndOf(h)), ElseOf(h))
                        /\ v = Front(vars) /\ c = OutOfScope(a)
  OBVIOUS
<1>2. PICK g : g = s'
  OBVIOUS
<1>3. /\ need = "stmt" /\ Top.k = "then" /\ SafeElse /\ p' = FlushCached(p) /\ m' = e /\ g = InScope(c)
      /\ todo' = Append(Below, Item("else")) /\ w = Append(v, <<>>) /\ AfterSkip
  BY <1>0, <1>1, <1>2, ReadsFacts DEF Else, Go, Here
<1>4. /\ Shares(todo, u, h - 1) /\ Len(u) = h /\ u[h] = Item("else")
      /\ h \in Nat \ {0} /\ DOMAIN u = 1 .. h
  <2>1. Shares(todo, u, h - 1) /\ Len(u) = h /\ u[h] = Item("else")
    BY <1>0, <1>3, StepsFacts, TodoShares
  <2>2. h \in Nat \ {0} /\ u \in Seq(ItemSet)
    BY <2>1, <1>0, StepsFacts, CoreFacts DEF Shares
  <2> QED BY <2>1, <2>2, LenProperties
<1>5. \A i \in DOMAIN u : u[i].params = <<>>
  <2>1. \A i \in 1 .. h : todo[i].params = <<>>
    <3>1. Shape(todo, vars, placed) /\ todo[h].k \in BlockKinds
      BY <1>0, <1>3, StepsFacts, CoreFacts DEF BlockKinds
    <3> QED BY <3>1, <1>0, <1>4, BlockShape
  <2>2. ASSUME NEW i \in 1 .. h PROVE u[i].params = <<>>
    <3>1. CASE i = h
      BY <3>1, <1>4, Plain
    <3>2. CASE i # h
      <4>1. i \in 1 .. h - 1
        BY <3>2, <1>4
      <4> QED BY <4>1, <2>1, <1>4 DEF Shares
    <3> QED BY <3>1, <3>2
  <2> QED BY <2>2, <1>4
<1>6. /\ h \in DOMAIN u /\ u[h].k \in {"else", "elif"}
      /\ \A i \in DOMAIN u : i > h - 1 => u[i].k # "then"
  <2>1. u[h].k = "else" /\ h \in 1 .. h
    BY <1>4, Plain
  <2>2. \A i \in 1 .. h : i > h - 1 => i = h
    BY <1>4
  <2> QED BY <2>1, <2>2, <1>4
<1>7. /\ Reading(a, vars) /\ a.env = s.env /\ a.field = s.field /\ a.ret = s.ret /\ a.vals = s.vals
      /\ e.at = a.at /\ e.locals = m.locals /\ e.field = m.field /\ e.ret = m.ret
      /\ s.at = Run \/ s.at.pos = h \/ a.at = s.at
      /\ Labelled(a.at, u) \/ a.at = s.at
      /\ a.at = s.at => s.at = Run \/ s.at.pos # h \/ Labelled(a.at, u)
  <2>1. Diverges(h, e, a, u)
    BY ONLY <1>0, <1>1, <1>4, <1>6 DEF Diverges
  <2> QED BY ONLY Careful, Steps, <1>3, <2>1, ElseAt
<1>8. /\ Reading(c, v) /\ c.at = a.at /\ c.field = a.field /\ c.ret = a.ret /\ c.vals = a.vals
      /\ Len(v) = b /\ v \in Seq(Scope(0 .. MaxLocals - 1))
      /\ \A i \in DOMAIN v : i <= b /\ i \in DOMAIN vars /\ v[i] = vars[i] /\ c.env[i] = s.env[i]
  <2>1. Leaving(h, b, a, c, v)
    BY <1>0, <1>1, <1>3, <1>7 DEF Leaving, ScopeKinds
  <2> QED BY <2>1, LeaveTurn
<1>9. /\ Reading(g, w) /\ g.at = c.at /\ g.field = c.field /\ g.ret = c.ret /\ g.vals = c.vals
      /\ \A i \in DOMAIN w :
              \/ i <= b /\ i \in DOMAIN vars /\ w[i] = vars[i] /\ g.env[i] = s.env[i]
              \/ DOMAIN w[i] = {}
  <2>1. b \in Nat
    BY <1>8, LenProperties
  <2>2. Entering(v, b, c, g, w)
    BY <2>1, <1>3, <1>8 DEF Entering
  <2> QED BY <2>2, EnterTurn
<1>10. s.vals = <<>>
  <2>1. Top.k \in BlockKinds \ {"func"} /\ Ready(need) = 0
    BY <1>3, ReadyFacts DEF BlockKinds
  <2>2. Len(s.vals) = 0
    BY <2>1, StepsFacts, BlockBelow
  <2> QED BY <2>2, StepsFacts, CoreFacts, SourceFacts, EmptySeq
<1>11. \A l \in DOMAIN p'.cache : p'.cache[l] = NoReg
  BY <1>3, StepsFacts, CoreFacts, FlushFacts
<1>12. Reading(s', vars') /\ s'.vals = <<>>
  BY <1>0, <1>2, <1>7, <1>8, <1>9, <1>10
<1>13. /\ s'.at = a.at /\ m'.at = s'.at /\ m'.ret = m.ret /\ m'.field = m.field /\ m'.locals = m.locals
       /\ s'.ret = s.ret /\ s'.field = s.field
  BY <1>2, <1>3, <1>7, <1>8, <1>9
<1>14. /\ s.at = Run \/ s.at.pos = h \/ s'.at = s.at
       /\ Labelled(s'.at, todo') \/ s'.at = s.at
       /\ s'.at = s.at => s.at = Run \/ s.at.pos # h \/ Labelled(s'.at, todo')
  BY ONLY <1>0, <1>7, <1>13
<1>15. \A i \in DOMAIN vars' :
            \/ i <= b /\ i \in DOMAIN vars /\ vars'[i] = vars[i] /\ s'.env[i] = s.env[i]
            \/ DOMAIN vars'[i] = {}
  BY ONLY <1>0, <1>2, <1>9
<1>16. /\ Shares(todo, todo', h - 1) /\ \A i \in DOMAIN todo' : todo'[i].params = <<>>
       /\ last' = Other \/ (AfterSkip /\ \A i \in DOMAIN todo' : i > h - 1 => todo'[i].k # "then")
  BY ONLY <1>0, <1>3, <1>4, <1>5, <1>6
<1> QED BY ONLY Steps, <1>0, <1>11, <1>12, <1>13, <1>14, <1>15, <1>16, BlockTurn

(* After "else if": the else part, the inner statement and its condition. *)
LEMMA ElseIfShares ==
  ASSUME Steps, Top.k = "then", NEW h, h = Len(todo), NEW u,
         u = Below \o <<Item("elif"), Item("if"), Item("expr")>>
  PROVE  /\ Shares(todo, u, h - 1) /\ h \in DOMAIN u /\ u[h].k = "elif"
         /\ \A i \in DOMAIN u : u[i].params = <<>>
         /\ \A i \in DOMAIN u : i > h - 1 => u[i].k # "then"
<1>1. h \in Nat \ {0} /\ Shape(todo, vars, placed) /\ todo[h].k \in BlockKinds /\ Top.k # "func"
  BY StepsFacts, CoreFacts DEF BlockKinds
<1>2. \A i \in 1 .. h : todo[i].params = <<>>
  BY <1>1, BlockShape
<1>3. /\ Below \in Seq(ItemSet) /\ Len(Below) = h - 1 /\ todo \in Seq(ItemSet)
      /\ \A i \in 1 .. h - 1 : Below[i] = todo[i]
  BY <1>1, StepsFacts, BelowFacts DEF Shares
<1>4. PICK x : x = <<Item("elif"), Item("if"), Item("expr")>>
  OBVIOUS
<1>5. /\ Item("elif") \in ItemSet /\ Item("if") \in ItemSet /\ Item("expr") \in ItemSet
  <2>1. "elif" \in Kinds /\ "if" \in Kinds /\ "expr" \in Kinds
    BY DEF Kinds, BlockKinds, ExprReaders, StatementKinds
  <2> QED BY <2>1, ItemFacts
<1>6. /\ x \in Seq(ItemSet) /\ Len(x) = 3
      /\ x[1] = Item("elif") /\ x[2] = Item("if") /\ x[3] = Item("expr")
  BY <1>4, <1>5
<1>7. PICK t : t = Below
  OBVIOUS
<1>8. /\ u \in Seq(ItemSet) /\ Len(u) = h + 2 /\ \A i \in 1 .. h - 1 : u[i] = todo[i]
      /\ u[h] = x[1] /\ u[h + 1] = x[2] /\ u[h + 2] = x[3] /\ DOMAIN u = 1 .. h + 2
  <2>1. t \in Seq(ItemSet) /\ Len(t) = h - 1 /\ \A i \in 1 .. h - 1 : t[i] = todo[i]
    BY <1>3, <1>7
  <2>2. u = t \o x
    BY <1>4, <1>7
  <2>3. Len(x) \in Nat /\ 1 \in 1 .. 3 /\ 2 \in 1 .. 3 /\ 3 \in 1 .. 3
    BY <1>6
  <2>4. /\ u \in Seq(ItemSet) /\ Len(u) = Len(t) + Len(x)
        /\ \A i \in 1 .. Len(t) + Len(x) : u[i] = IF i <= Len(t) THEN t[i] ELSE x[i - Len(t)]
    <3>1. t \in Seq(ItemSet) /\ x \in Seq(ItemSet)
      BY <2>1, <1>6
    <3> QED BY ONLY <2>2, <3>1, ConcatProperties
  <2>5. PICK k \in Nat : k = h - 1
    BY <1>1
  <2>9. Len(t) = k /\ Len(x) = 3 /\ Len(u) = k + 3 /\ h = k + 1
    BY <2>1, <2>4, <2>5, <1>1, <1>6
  <2>10. \A i \in 1 .. k : u[i] = t[i]
    <3>1. \A i \in 1 .. k : i \in 1 .. k + 3 /\ i <= k
      BY <2>5
    <3> QED BY ONLY <2>4, <2>9, <3>1
  <2>7. u[h] = x[1] /\ u[h + 1] = x[2] /\ u[h + 2] = x[3]
    <3>1. /\ h \in 1 .. k + 3 /\ h + 1 \in 1 .. k + 3 /\ h + 2 \in 1 .. k + 3
          /\ ~(h <= k) /\ ~(h + 1 <= k) /\ ~(h + 2 <= k)
          /\ h - k = 1 /\ (h + 1) - k = 2 /\ (h + 2) - k = 3
      BY <2>5, <2>9
    <3> QED BY ONLY <2>4, <2>9, <3>1
  <2>8. Len(u) = h + 2 /\ DOMAIN u = 1 .. h + 2
    BY <2>4, <2>5, <2>9, LenProperties
  <2> QED BY <2>1, <2>4, <2>5, <2>7, <2>8, <2>10
<1>9. \A i \in 1 .. h + 2 : i \in 1 .. h - 1 \/ i = h \/ i = h + 1 \/ i = h + 2
  <2>1. h \in Nat
    BY <1>1
  <2>2. \A i \in 1 .. h + 2 : i \in Int /\ 1 <= i /\ i <= h + 2
    BY ONLY <2>1
  <2>3. \A i \in Int : 1 <= i /\ i <= h - 1 => i \in 1 .. h - 1
    BY ONLY <2>1
  <2>4. \A i \in Int : 1 <= i /\ i <= h + 2 => i <= h - 1 \/ i = h \/ i = h + 1 \/ i = h + 2
    BY ONLY <2>1
  <2> QED BY ONLY <2>2, <2>3, <2>4
<1>10. \A i \in DOMAIN u : u[i].params = <<>>
  <2>1. \A i \in 1 .. h - 1 : i \in 1 .. h
    BY <1>1
  <2>2. x[1].params = <<>> /\ x[2].params = <<>> /\ x[3].params = <<>>
    BY <1>6, Plain
  <2>3. \A i \in 1 .. h - 1 : u[i].params = <<>>
    BY <2>1, <1>2, <1>8
  <2>4. ASSUME NEW i \in 1 .. h + 2 PROVE u[i].params = <<>>
    <3>1. CASE i \in 1 .. h - 1
      BY <2>3, <3>1
    <3>2. CASE i = h
      BY ONLY <3>2, <2>2, <1>8
    <3>3. CASE i = h + 1
      BY ONLY <3>3, <2>2, <1>8
    <3>4. CASE i = h + 2
      BY ONLY <3>4, <2>2, <1>8
    <3> QED BY ONLY <1>9, <3>1, <3>2, <3>3, <3>4
  <2> QED BY <2>4, <1>8
<1>11. u[h].k = "elif" /\ u[h + 1].k = "if" /\ u[h + 2].k = "expr"
  BY <1>6, <1>8, Plain
<1>12. \A i \in DOMAIN u : i > h - 1 => u[i].k # "then"
  <2>1. \A i \in 1 .. h - 1 : ~(i > h - 1)
    BY <1>1
  <2> QED BY <2>1, <1>8, <1>9, <1>11
<1>13. Shares(todo, u, h - 1)
  <2>1. h - 1 \in Nat /\ h - 1 <= Len(todo) /\ h - 1 <= Len(u)
    BY <1>1, <1>8
  <2> QED BY <2>1, <1>3, <1>8 DEF Shares
<1>14. h \in DOMAIN u
  BY <1>1, <1>8
<1> QED BY <1>10, <1>11, <1>12, <1>13, <1>14

LEMMA ElseIfValues ==
  ASSUME Careful, Steps, ElseIf
  PROVE  ValueInv'
<1>0. PICK h, b, w, u : /\ h = Len(todo) /\ b = Total(Opened(todo), h - 1) + 1 /\ w = vars'
                        /\ u = todo'
  OBVIOUS
<1>1. PICK e, a : /\ e = Land(SkipElse(m), ElseOf(h)) /\ a = Land(Jump(s, EndOf(h)), ElseOf(h))
  OBVIOUS
<1>2. PICK g : g = s'
  OBVIOUS
<1>3. /\ need = "stmt" /\ Top.k = "then" /\ SafeElse /\ p' = FlushCached(p) /\ m' = e
      /\ g = OutOfScope(a)
      /\ u = Below \o <<Item("elif"), Item("if"), Item("expr")>> /\ w = Front(vars) /\ AfterSkip
  BY <1>0, <1>1, <1>2, ReadsFacts DEF ElseIf, Go, Here, CloseScope
<1>4. /\ Shares(todo, u, h - 1) /\ h \in DOMAIN u /\ u[h].k = "elif"
      /\ \A i \in DOMAIN u : u[i].params = <<>>
      /\ \A i \in DOMAIN u : i > h - 1 => u[i].k # "then"
  BY ONLY Steps, <1>0, <1>3, ElseIfShares
<1>6. u[h].k \in {"else", "elif"}
  BY <1>4
<1>7. /\ Reading(a, vars) /\ a.env = s.env /\ a.field = s.field /\ a.ret = s.ret /\ a.vals = s.vals
      /\ e.at = a.at /\ e.locals = m.locals /\ e.field = m.field /\ e.ret = m.ret
      /\ s.at = Run \/ s.at.pos = h \/ a.at = s.at
      /\ Labelled(a.at, u) \/ a.at = s.at
      /\ a.at = s.at => s.at = Run \/ s.at.pos # h \/ Labelled(a.at, u)
  <2>1. Diverges(h, e, a, u)
    BY ONLY <1>0, <1>1, <1>4, <1>6 DEF Diverges
  <2> QED BY ONLY Careful, Steps, <1>3, <2>1, ElseAt
<1>8. /\ Reading(g, w) /\ g.at = a.at /\ g.field = a.field /\ g.ret = a.ret /\ g.vals = a.vals
      /\ \A i \in DOMAIN w : i <= b /\ i \in DOMAIN vars /\ w[i] = vars[i] /\ g.env[i] = s.env[i]
  <2>1. Leaving(h, b, a, g, w)
    BY <1>0, <1>1, <1>3, <1>7 DEF Leaving, ScopeKinds
  <2> QED BY <2>1, LeaveTurn
<1>10. s.vals = <<>>
  <2>1. Top.k \in BlockKinds \ {"func"} /\ Ready(need) = 0
    BY <1>3, ReadyFacts DEF BlockKinds
  <2>2. Len(s.vals) = 0
    BY <2>1, StepsFacts, BlockBelow
  <2> QED BY <2>2, StepsFacts, CoreFacts, SourceFacts, EmptySeq
<1>11. \A l \in DOMAIN p'.cache : p'.cache[l] = NoReg
  BY <1>3, StepsFacts, CoreFacts, FlushFacts
<1>12. Reading(s', vars') /\ s'.vals = <<>>
  BY <1>0, <1>2, <1>7, <1>8, <1>10
<1>13. /\ s'.at = a.at /\ m'.at = s'.at /\ m'.ret = m.ret /\ m'.field = m.field /\ m'.locals = m.locals
       /\ s'.ret = s.ret /\ s'.field = s.field
  BY <1>2, <1>3, <1>7, <1>8
<1>14. /\ s.at = Run \/ s.at.pos = h \/ s'.at = s.at
       /\ Labelled(s'.at, todo') \/ s'.at = s.at
       /\ s'.at = s.at => s.at = Run \/ s.at.pos # h \/ Labelled(s'.at, todo')
  BY ONLY <1>0, <1>7, <1>13
<1>15. \A i \in DOMAIN vars' :
            \/ i <= b /\ i \in DOMAIN vars /\ vars'[i] = vars[i] /\ s'.env[i] = s.env[i]
            \/ DOMAIN vars'[i] = {}
  BY ONLY <1>0, <1>2, <1>8
<1>16. /\ Shares(todo, todo', h - 1) /\ \A i \in DOMAIN todo' : todo'[i].params = <<>>
       /\ last' = Other \/ (AfterSkip /\ \A i \in DOMAIN todo' : i > h - 1 => todo'[i].k # "then")
  BY ONLY <1>0, <1>3, <1>4
<1> QED BY ONLY Steps, <1>0, <1>11, <1>12, <1>13, <1>14, <1>15, <1>16, BlockTurn

LEMMA BodyValues ==
  ASSUME Steps, Body
  PROVE  ValueInv'
<1>0. PICK h, b, w, u, x : /\ h = Len(todo) /\ b = Total(Opened(todo), h - 1) + 1 /\ w = vars'
                           /\ u = todo' /\ x = Below
  OBVIOUS
<1>1. PICK label, e, a, d : /\ label = IF Top.k = "if" THEN ElseOf(h) ELSE EndOf(h)
                            /\ e = JumpIf(m.regs[LastReg(p)] = 0, m, label)
                            /\ a = JumpIf(Operand(s, 0) = 0, s, label) /\ d = Drop(a, 1)
  OBVIOUS
<1>2. PICK g, k, o : g = s' /\ k = (IF Top.k = "if" THEN "then" ELSE "loop") /\ o = Item(k)
  OBVIOUS
<1>3. /\ need = "done" /\ Top.k \in {"if", "while"} /\ p' = PopReg(FlushCached(p)) /\ m' = e
      /\ g = InScope(d) /\ u = Append(Below, o) /\ w = Append(vars, <<>>) /\ last' = Other
  BY <1>0, <1>1, <1>2, ReadsFacts DEF Body, Go, Here, OpenScope
<1>4. /\ h \in Nat \ {0} /\ m \in Machine /\ Reading(s, vars) /\ p \in RegState
      /\ (Running(m) <=> Running(s)) /\ m.at = s.at /\ m.ret = s.ret /\ m.field = s.field
  BY <1>0, StepsFacts, CoreFacts
<1>5. /\ Top.k \in StatementKinds /\ Top.k \notin ScopeKinds /\ Top.k \notin LabelKinds
      /\ Top.k \notin LogicalKinds /\ Top.k # "effect" /\ Top.k # "then" /\ Ready(need) = 1
  BY <1>3, ReadyFacts, KindFacts DEF ScopeKinds, StatementKinds
<1>6. /\ Shares(todo, u, h - 1) /\ Len(u) = h /\ u[h] = o /\ DOMAIN u = 1 .. h
  <2>1. Shares(todo, u, h - 1) /\ Len(u) = h /\ u[h] = o
    BY <1>0, <1>3, StepsFacts, TodoShares
  <2>2. u \in Seq(ItemSet)
    BY <2>1 DEF Shares
  <2> QED BY <2>1, <2>2, LenProperties
<1>7. Len(s.vals) = 1 /\ \A i \in 1 .. h - 1 : todo[i].params = <<>>
  <2>1. /\ h - 1 \in Nat \ {0} /\ Len(x) = h - 1 /\ x[h - 1].k \in BlockKinds
        /\ \A i \in 1 .. h - 1 : x[i] = todo[i]
        /\ Shape(x, vars, placed) /\ Len(s.vals) = Ready(need)
    BY <1>0, <1>5, StepsFacts, BlockBelow
  <2>2. PICK n : n = h - 1
    OBVIOUS
  <2>3. \A i \in 1 .. n : x[i].params = <<>>
    <3>1. Shape(x, vars, placed) /\ n \in Nat /\ n = Len(x) /\ x[n].k \in BlockKinds
      BY <2>1, <2>2
    <3> QED BY ONLY <3>1, BlockShape
  <2> QED BY <2>1, <2>2, <2>3, <1>5
<1>8. \A i \in DOMAIN u : u[i].params = <<>>
  <2>1. ASSUME NEW i \in 1 .. h PROVE u[i].params = <<>>
    <3>1. CASE i = h
      BY <3>1, <1>2, <1>6, Plain
    <3>2. CASE i # h
      <4>1. i \in 1 .. h - 1
        BY <3>2, <1>4
      <4> QED BY <4>1, <1>6, <1>7 DEF Shares
    <3> QED BY <3>1, <3>2
  <2> QED BY <2>1, <1>6
<1>9. label \in Label /\ label # Run /\ Labelled(label, u)
  <2>1. ElseOf(h) \in Label \ {Run} /\ EndOf(h) \in Label \ {Run}
    BY <1>4, LabelFacts
  <2>2. h \in DOMAIN u /\ u[h].k = k
    BY <1>2, <1>4, <1>6, Plain
  <2>3. CASE Top.k = "if"
    BY <2>1, <2>2, <2>3, <1>1, <1>2 DEF Labelled
  <2>4. CASE Top.k = "while"
    BY <2>1, <2>2, <2>4, <1>1, <1>2 DEF Labelled
  <2> QED BY <2>3, <2>4, <1>3
<1>10. /\ Reading(a, vars) /\ a.vals = s.vals /\ a.env = s.env /\ a.field = s.field /\ a.ret = s.ret
       /\ a.at = IF Running(s) /\ Operand(s, 0) = 0 THEN label ELSE s.at
  BY <1>1, <1>4, <1>9, SourceJumpFacts DEF JumpIf
<1>11. /\ e \in Machine /\ e.locals = m.locals /\ e.field = m.field /\ e.ret = m.ret
       /\ e.at = IF Running(m) /\ m.regs[LastReg(p)] = 0 THEN label ELSE m.at
  BY <1>1, <1>4, <1>9, JumpFacts DEF JumpIf
<1>12. Running(s) => Operand(s, 0) = m.regs[LastReg(p)]
  <2>1. ~Dropped(todo, need) /\ 0 \in Nat /\ 0 < Held(Top) + Ready(need)
    <3>1. Held(Top) \in Nat
      BY StepsFacts, HeldThere
    <3> QED BY <3>1, <1>3, <1>5, StepsFacts, NotDropped
  <2>2. Running(s) => Operand(s, 0) = m.regs[TopReg(p, 0)]
    BY <2>1, <1>5, TopOperand
  <2>3. LastReg(p) = TopReg(p, 0)
    BY <1>4, LastRegTop
  <2> QED BY <2>2, <2>3
<1>13. e.at = a.at
  BY <1>4, <1>10, <1>11, <1>12
<1>14. /\ Reading(d, vars) /\ Len(d.vals) = 0
       /\ d.at = a.at /\ d.env = a.env /\ d.field = a.field /\ d.ret = a.ret
  <2>1. Drops(vars, a, 1, 1, d)
    BY <1>1, <1>7, <1>10 DEF Drops
  <2>2. /\ Reading(d, vars) /\ Len(d.vals) = 1 - 1
        /\ d.at = a.at /\ d.env = a.env /\ d.field = a.field /\ d.ret = a.ret
    BY <2>1, DropFacts
  <2> QED BY <2>2
<1>15. b \in Nat /\ Len(vars) = b /\ vars \in Seq(Scope(0 .. MaxLocals - 1))
  <2>1. b \in Nat /\ Len(vars) = b + 0
    BY <1>0, <1>5, TurnScopes
  <2> QED BY <2>1, StepsFacts, CoreFacts
<1>16. /\ Reading(g, w) /\ g.at = d.at /\ g.field = d.field /\ g.ret = d.ret /\ g.vals = d.vals
       /\ \A i \in DOMAIN w :
              \/ i <= b /\ i \in DOMAIN vars /\ w[i] = vars[i] /\ g.env[i] = s.env[i]
              \/ DOMAIN w[i] = {}
  <2>1. Entering(vars, b, d, g, w)
    BY <1>3, <1>10, <1>14, <1>15 DEF Entering
  <2> QED BY <2>1, EnterTurn
<1>17. g.vals = <<>>
  BY <1>14, <1>16, SourceFacts, EmptySeq
<1>18. \A l \in DOMAIN p'.cache : p'.cache[l] = NoReg
  <2>1. PICK q : q = FlushCached(p)
    OBVIOUS
  <2>2. q \in RegState /\ \A l \in DOMAIN q.cache : q.cache[l] = NoReg
    BY <2>1, <1>4, FlushFacts
  <2>3. p'.cache = q.cache
    BY <2>1, <2>2, <1>3, CacheThere, CacheSame
  <2> QED BY <2>2, <2>3
<1>19. s.at = Run \/ (s.at.pos \in 1 .. h - 1 /\ s.at.pos # h)
  <2>1. s.at = Run \/ s.at.pos \in 1 .. h - 1
    BY <1>0, <1>5, WhereAt
  <2>2. \A i \in 1 .. h - 1 : i # h
    BY <1>4
  <2> QED BY <2>1, <2>2
<1>20. /\ s'.at = a.at /\ m'.at = s'.at /\ m'.ret = m.ret /\ m'.field = m.field /\ m'.locals = m.locals
       /\ s'.ret = s.ret /\ s'.field = s.field
  BY <1>2, <1>3, <1>10, <1>11, <1>13, <1>14, <1>16
<1>21. /\ s.at = Run \/ s.at.pos = h \/ s'.at = s.at
       /\ Labelled(s'.at, todo') \/ s'.at = s.at
       /\ s'.at = s.at => s.at = Run \/ s.at.pos # h \/ Labelled(s'.at, todo')
  BY <1>0, <1>9, <1>10, <1>19, <1>20 DEF Running
<1>22. \A i \in DOMAIN vars' :
            \/ i <= b /\ i \in DOMAIN vars /\ vars'[i] = vars[i] /\ s'.env[i] = s.env[i]
            \/ DOMAIN vars'[i] = {}
  BY ONLY <1>0, <1>2, <1>16
<1>23. /\ Shares(todo, todo', h - 1) /\ \A i \in DOMAIN todo' : todo'[i].params = <<>>
       /\ Reading(s', vars') /\ s'.vals = <<>>
  BY ONLY <1>0, <1>2, <1>6, <1>8, <1>16, <1>17
<1> QED BY ONLY Steps, <1>0, <1>3, <1>18, <1>20, <1>21, <1>22, <1>23, BlockTurn

LEMMA EndFunctionValues ==
  ASSUME Steps, EndFunction
  PROVE  ValueInv'
<1>1. /\ need = "stmt" /\ Top.k = "func" /\ SameScope /\ UNCHANGED <<p, todo, last>> /\ need' = "end"
      /\ m' = Jump(m, Stop) /\ s' = Jump(s, Stop)
  BY ReadsFacts DEF EndFunction
<1>2. /\ vars' = vars /\ placed' = placed
  BY <1>1 DEF SameScope
<1>3. PICK e, g : e = m' /\ g = s'
  OBVIOUS
<1>4. /\ m \in Machine /\ Reading(s, vars) /\ (Running(m) <=> Running(s)) /\ m.at = s.at
      /\ (Running(s) <=> s.at = Run)
  BY StepsFacts, CoreFacts
<1>5. Stop \in Label /\ Stop # Run /\ Stop.pos = 0
  BY LabelFacts DEF Stop
<1>6. /\ e.at = IF s.at = Run THEN Stop ELSE s.at
      /\ e.regs = m.regs /\ e.locals = m.locals /\ e.field = m.field /\ e.ret = m.ret
  BY <1>1, <1>3, <1>4, <1>5, JumpFacts
<1>7. /\ g.at = (IF s.at = Run THEN Stop ELSE s.at) /\ g.vals = s.vals /\ g.env = s.env
      /\ g.field = s.field /\ g.ret = s.ret
  BY <1>1, <1>3, <1>4, <1>5, SourceJumpFacts
<1>8. Sourced(g, todo, "end")
  <2>1. CASE s.at = Run
    BY <2>1, <1>7 DEF Sourced, Labelled
  <2>2. CASE s.at # Run
    <3>1. ~Dropped(todo, need)
      BY <1>1, StepsFacts, NotDropped
    <3>2. KnownOperands(g, todo, "end")
      BY <2>2, <3>1, <1>7, StepsFacts DEF KnownOperands
    <3>3. KnownArgs(g, todo) /\ KnownNames(g, todo) /\ Labelled(g.at, todo)
      BY <2>2, <1>7, StepsFacts DEF KnownArgs, KnownNames
    <3> QED BY <3>2, <3>3 DEF Sourced
  <2> QED BY <2>1, <2>2
<1>9. Followed(p, e, g, todo, vars)
  <2>1. OperandsAgree(p, e, g) /\ ArgsAgree(e, todo) /\ NamesAgree(e, g, vars)
    BY <1>6, <1>7, StepsFacts DEF OperandsAgree, ArgsAgree, NamesAgree
  <2> QED BY <2>1, <1>6, <1>7, StepsFacts DEF Followed
<1>10. e.at # Run
  BY <1>5, <1>6
<1>11. Backed(p, e, todo, last, placed)
  <2>1. Faithful(p, e, placed) /\ LoadKept(e, last)
    BY <1>10, StepsFacts DEF Faithful, LoadKept
  <2>2. Silent(e, todo, last)
    <3>1. CASE s.at = Run
      <4>1. ~(last.op = "ret" /\ last.depth \in DOMAIN todo /\ todo[last.depth].k = "then")
        BY <3>1, <1>4, StepsFacts DEF Silent
      <4> QED BY <4>1 DEF Silent
    <3>2. CASE s.at # Run
      BY <3>2, <1>4, <1>6, StepsFacts DEF Silent
    <3> QED BY <3>1, <3>2
  <2> QED BY <2>1, <2>2 DEF Backed
<1> QED BY <1>1, <1>2, <1>3, <1>8, <1>9, <1>11 DEF ValueInv

LEMMA ReturnValues ==
  ASSUME Steps, Return
  PROVE  ValueInv'
<1>1. /\ need = "done" /\ SameScope /\ Top.k = "return"
  BY ReadsFacts DEF Return
<1>2. /\ p \in RegState /\ m \in Machine /\ Reading(s, vars) /\ LoadedLocal(last)
      /\ (Running(m) <=> Running(s)) /\ m.at = s.at /\ (Running(s) <=> s.at = Run) /\ m.ret = s.ret
      /\ LoadKept(m, last) /\ vars' = vars /\ placed' = placed
      /\ Len(s.vals) \in Nat /\ Len(p.rstack) \in Nat /\ Len(s.vals) <= Len(p.rstack)
  BY <1>1, StepsFacts, CoreFacts DEF SameScope
<1>3. /\ Top.k \in StatementKinds /\ Held(Top) = 0 /\ Ready(need) = 1 /\ 0 < Held(Top) + Ready(need)
      /\ Top.k \notin LabelKinds /\ Top.k \notin LogicalKinds /\ Top.k # "effect" /\ Top.k # "func"
      /\ Top.k # "then" /\ 0 < Len(p.rstack)
  BY <1>1, <1>2, HeldFacts, HeldThere, ReadyFacts, KindFacts, StepsFacts DEF StatementKinds
<1>4. PICK q, r, h, t : q = PopReg(p) /\ r = LastReg(p) /\ h = Len(todo) /\ t = Below
  OBVIOUS
<1>5. q \in RegState /\ q.cache = p.cache
  BY <1>2, <1>3, <1>4, PopRegFacts
<1>6. PICK b : b = IF last.op = "load" /\ last.reg = r THEN m.locals[last.local] ELSE m.regs[r]
  OBVIOUS
<1>7. /\ b \in Val /\ Operand(s, 0) \in SVal /\ (Running(s) => Operand(s, 0) = b)
  <2>1. ~Dropped(todo, need) /\ 0 \in Nat
    BY <1>3, <1>1, StepsFacts, NotDropped
  <2>2. /\ Operand(s, 0) \in SVal /\ m.regs[TopReg(p, 0)] \in Val
        /\ Running(s) => Operand(s, 0) = m.regs[TopReg(p, 0)]
    BY <2>1, <1>3, TopOperand
  <2>3. r = TopReg(p, 0)
    BY <1>2, <1>4, LastRegTop
  <2>4. last.op = "load" => m.locals[last.local] \in Val
    BY <1>2, MachineFacts DEF LoadedLocal
  <2>5. Running(s) => b = m.regs[r]
    BY <1>2, <1>6 DEF LoadKept
  <2>6. b \in Val
    BY <1>6, <2>2, <2>3, <2>4
  <2> QED BY <2>2, <2>3, <2>5, <2>6
<1>8. PICK c, e : c = (IF Running(m) THEN b ELSE m.ret) /\ e = [m EXCEPT !.ret = c]
  OBVIOUS
<1>9. /\ e \in Machine /\ e.ret = c /\ e.at = m.at /\ e.regs = m.regs /\ e.locals = m.locals
      /\ e.field = m.field
  <2>1. c \in Val
    BY <1>2, <1>7, <1>8, MachineFacts
  <2> QED BY <2>1, <1>2, <1>8 DEF Machine
<1>10. PICK a, f : a = (IF Running(s) THEN Operand(s, 0) ELSE s.ret) /\ f = [s EXCEPT !.ret = a]
  OBVIOUS
<1>11. /\ Reading(f, vars) /\ f.ret = a /\ f.at = s.at /\ f.vals = s.vals /\ f.env = s.env
       /\ f.field = s.field /\ a = c
  <2>1. a \in SVal
    BY <1>2, <1>7, <1>10, SourceFacts
  <2>2. Reading(f, vars) /\ f.ret = a /\ f.at = s.at /\ f.vals = s.vals /\ f.env = s.env
        /\ f.field = s.field
    BY <2>1, <1>2, <1>10 DEF Reading, Source
  <2>3. a = c
    BY <1>2, <1>7, <1>8, <1>10
  <2> QED BY <2>2, <2>3
<1>12. PICK x, g : x = Jump(e, Stop) /\ g = Jump(f, Stop)
  OBVIOUS
<1>13. /\ m' = x /\ Over(q, g, t) /\ last' = [Other EXCEPT !.op = "ret", !.depth = Len(t)]
  BY <1>4, <1>6, <1>8, <1>10, <1>12 DEF Return
<1>14. Stop \in Label /\ Stop # Run /\ Stop.pos = 0
  BY LabelFacts DEF Stop
<1>15. /\ x.at = IF s.at = Run THEN Stop ELSE s.at
       /\ x.regs = m.regs /\ x.locals = m.locals /\ x.field = m.field /\ x.ret = c
  BY <1>2, <1>9, <1>12, <1>14, JumpFacts DEF Running
<1>16. /\ Reading(g, vars) /\ g.at = (IF s.at = Run THEN Stop ELSE s.at) /\ g.env = s.env
       /\ g.field = s.field /\ g.ret = c
  BY <1>2, <1>11, <1>12, <1>14, SourceJumpFacts DEF Running
<1>17. PICK y, z : y = p' /\ z = s'
  OBVIOUS
<1>18. /\ Reading(z, vars) /\ z.vals = <<>> /\ z.env = s.env /\ z.at = g.at /\ z.field = s.field
       /\ z.ret = c /\ todo' = t /\ need' = "stmt"
  <2>1. Finishes(q, g, t, vars)
    BY <1>5, <1>13, <1>16 DEF Finishes
  <2>2. /\ Reading(s', vars) /\ s'.vals = <<>>
        /\ s'.env = g.env /\ s'.at = g.at /\ s'.field = g.field /\ s'.ret = g.ret
        /\ todo' = t /\ need' = "stmt"
    BY ONLY <2>1, OverFacts
  <2> QED BY <2>2, <1>16, <1>17
<1>19. y.cache = p.cache
  <2>1. y = q \/ y = FlushFree(q)
    BY <1>13, <1>17 DEF Over
  <2> QED BY <2>1, <1>5, FlushFreeFacts
<1>20. Shares(todo, t, h - 1) /\ Len(t) = h - 1 /\ SameArgs(todo, t)
  BY <1>3, <1>4, <1>18, StepsFacts, TodoShares
<1>21. /\ h \in Nat \ {0}
       /\ s.at # Run => s.at.pos \in 1 .. h - 1 /\ Labelled(s.at, t)
  BY <1>3, <1>4, <1>20, WhereAt
<1>22. DOMAIN z.vals = {}
  BY <1>18, NoArgs
<1>23. Sourced(z, t, "stmt")
  <2>1. CASE s.at = Run
    BY <2>1, <1>16, <1>18 DEF Sourced, Labelled
  <2>2. CASE s.at # Run
    <3>1. KnownOperands(z, t, "stmt")
      BY <1>22 DEF KnownOperands
    <3>2. KnownArgs(z, t)
      <4>1. z.at = s.at
        BY <2>2, <1>16, <1>18
      <4>2. SUFFICES ASSUME NEW i \in DOMAIN t, i < s.at.pos, NEW k \in DOMAIN t[i].params
                     PROVE  t[i].params[k].val # Unknown
        BY <2>2, <4>1 DEF KnownArgs
      <4>3. i \in DOMAIN todo /\ t[i].params = todo[i].params
        BY <4>2, <1>20, NoArgs DEF SameArgs
      <4> QED BY <4>2, <4>3, StepsFacts DEF KnownArgs
    <3>3. KnownNames(z, t)
      <4>1. KnownNames(s, t)
        BY <2>2, <1>20, <1>21, StepsFacts, NamesCarried
      <4> QED BY <4>1, <2>2, <1>16, <1>18 DEF KnownNames
    <3>4. Labelled(z.at, t)
      BY <2>2, <1>16, <1>18, <1>21
    <3> QED BY <3>1, <3>2, <3>3, <3>4 DEF Sourced
  <2> QED BY <2>1, <2>2
<1>24. Followed(y, x, z, t, vars)
  <2>1. OperandsAgree(y, x, z)
    BY <1>22 DEF OperandsAgree
  <2>2. ArgsAgree(x, t)
    <3>1. SUFFICES ASSUME NEW i \in DOMAIN t, NEW k \in DOMAIN t[i].params
                   PROVE  t[i].params[k].val = Unknown \/ x.regs[t[i].params[k].reg] = t[i].params[k].val
      BY DEF ArgsAgree
    <3>2. i \in DOMAIN todo /\ t[i].params = todo[i].params
      BY <3>1, <1>20, NoArgs DEF SameArgs
    <3> QED BY <3>1, <3>2, <1>15, StepsFacts DEF ArgsAgree
  <2>3. NamesAgree(x, z, vars)
    BY <1>15, <1>18, StepsFacts DEF NamesAgree
  <2> QED BY <2>1, <2>2, <2>3, <1>15, <1>16, <1>18, StepsFacts DEF Followed
<1>25. x.at # Run
  BY <1>14, <1>15
<1>26. Backed(y, x, t, last', placed)
  <2>1. Faithful(y, x, placed) /\ LoadKept(x, last')
    BY <1>19, <1>25, StepsFacts DEF Faithful, LoadKept
  <2>2. last'.op = "ret" /\ last'.depth = h - 1
    BY <1>13, <1>20 DEF Other
  <2>3. x.at.pos <= h - 1
    <3>1. CASE s.at = Run
      BY <3>1, <1>14, <1>15, <1>21
    <3>2. CASE s.at # Run
      BY <3>2, <1>15, <1>21
    <3> QED BY <3>1, <3>2
  <2>4. Silent(x, t, last')
    BY <2>2, <2>3, <1>25 DEF Silent
  <2> QED BY <2>1, <2>4 DEF Backed
<1> QED BY <1>2, <1>13, <1>17, <1>18, <1>23, <1>24, <1>26 DEF ValueInv

-----------------------------------------------------------------------------
(* The values, action by action: declarations.                             *)

(* A statement is in a block whose scope whoever skips it does not know. *)
LEMMA SkippedScope ==
  ASSUME Steps, Top.k \in StatementKinds \ {"if"}, s.at # Run, NEW h, h = Len(todo)
  PROVE  /\ s.at.pos \in 1 .. h - 1 /\ Len(vars) \in Nat
         /\ Total(Opened(todo), s.at.pos - 1) \in Nat
         /\ Total(Opened(todo), s.at.pos - 1) + 1 < Len(vars)
<1>1. /\ h \in Nat \ {0} /\ todo \in Seq(ItemSet) /\ Len(todo) = h /\ DOMAIN todo = 1 .. h
      /\ Top = todo[h] /\ Labelled(s.at, todo) /\ s.at # Stop
  BY StepsFacts, CoreFacts
<1>2. /\ Top.k \in StatementKinds /\ Top.k # "if" /\ Top.k \notin LabelKinds /\ Top.k # "then"
      /\ Top.k \notin ScopeKinds
  BY KindFacts, KindsApart DEF StatementKinds, ScopeKinds
<1>3. s.at.pos \in 1 .. h - 1
  BY <1>2, WhereAt
<1>4. PICK i \in 1 .. h : s.at.pos = i /\ todo[i].k \in LabelKinds
  <2>1. PICK i \in 1 .. h : \/ s.at = ElseOf(i) /\ todo[i].k = "then"
                            \/ s.at = EndOf(i) /\ todo[i].k \in LabelKinds
    BY <1>1 DEF Labelled, LabelKinds
  <2>2. ElseOf(i).pos = i /\ EndOf(i).pos = i
    BY <1>1, LabelFacts
  <2>3. "then" \in LabelKinds
    BY DEF LabelKinds
  <2> QED BY <2>1, <2>2, <2>3
<1>5. PICK j : j = h - 1
  OBVIOUS
<1>6. j \in 1 .. h /\ i <= j /\ j = h - 1 /\ h = j + 1 /\ i \in Nat /\ j \in Nat /\ 1 <= i
  BY <1>1, <1>3, <1>4, <1>5
<1>7. todo[j].k \in Blocks
  <2>1. h > 1 /\ h \in DOMAIN todo
    BY <1>1, <1>6
  <2>2. Nests(todo[j].k, todo[h].k)
    BY <2>1, <1>5, StepsFacts, CoreFacts DEF Nested
  <2> QED BY <2>2, <1>1, <1>2, KindsApart DEF Nests, StatementKinds, BlockKinds
<1>8. todo[j].k \in ScopeKinds
  <2>1. CASE i = j
    BY <2>1, <1>4, <1>7 DEF Blocks, ScopeKinds, LabelKinds, LogicalKinds
  <2>2. CASE i # j
    <3>1. j > 1 /\ j \in DOMAIN todo
      BY <2>2, <1>1, <1>6
    <3>2. Nests(todo[j - 1].k, todo[j].k)
      BY <3>1, StepsFacts, CoreFacts DEF Nested
    <3>3. todo[j].k # "func"
      BY <3>2 DEF Nests, OperandKinds, ListKinds, LogicalKinds, StatementKinds, BlockKinds
    <3> QED BY <3>3, <1>7 DEF Blocks, ScopeKinds
  <2> QED BY <2>1, <2>2
<1>9. PICK a, b, c, d : /\ a = Total(Opened(todo), i - 1) /\ b = Total(Opened(todo), j - 1)
                        /\ c = Total(Opened(todo), j) /\ d = Total(Opened(todo), h)
  OBVIOUS
<1>10. a \in Nat /\ b \in Nat /\ c \in Nat /\ d \in Nat
  <2>1. i - 1 \in 0 .. h /\ j - 1 \in 0 .. h /\ j \in 0 .. h /\ h \in 0 .. h
    BY <1>1, <1>6
  <2> QED BY <2>1, <1>1, <1>9, WeightType
<1>11. a <= b
  <2>1. i - 1 \in 0 .. j - 1 /\ j - 1 \in Nat /\ \A k \in 1 .. j - 1 : k \in 1 .. h
    BY <1>1, <1>6
  <2>2. \A k \in 1 .. j - 1 : Opened(todo)[k] \in Nat
    BY <2>1, <1>1, WeightType
  <2> QED BY <2>1, <2>2, <1>9, TotalMonotonic
<1>12. c = b + 1
  BY <1>1, <1>6, <1>8, <1>9, UptoStep
<1>13. d = c + 0
  <2>1. h \in 1 .. h /\ h - 1 = j
    BY <1>1, <1>6
  <2>2. d = Total(Opened(todo), h - 1) + IF todo[h].k \in ScopeKinds THEN 1 ELSE 0
    BY <2>1, <1>1, <1>9, UptoStep
  <2> QED BY <2>1, <2>2, <1>1, <1>2, <1>9
<1>14. Len(vars) = d + 1
  BY <1>1, <1>9, StepsFacts, CoreFacts
<1> QED BY <1>3, <1>4, <1>9, <1>10, <1>11, <1>12, <1>13, <1>14

(* A statement that stores in a variable, or declares one, is over. *)
LEMMA LetOver ==
  ASSUME Steps, need = "done", Top.k = "let", last' = Other, NEW q, NEW f, NEW w, w = vars',
         Finishes(q, f, Below, w), f.at = s.at, f.field = s.field, f.ret = s.ret,
         m'.at = m.at, m'.field = m.field, m'.ret = m.ret,
         NamesAgree(m', f, w), KnownNames(f, todo), Faithful(q, m', placed')
  PROVE  ValueInv'
<1>1. PICK h, t, g, y, e : h = Len(todo) /\ t = Below /\ g = s' /\ y = p' /\ e = m'
  OBVIOUS
<1>2. /\ q \in RegState /\ Reading(f, w) /\ Over(q, f, t)
  BY <1>1 DEF Finishes
<1>3. /\ Reading(g, w) /\ g.vals = <<>>
      /\ g.env = f.env /\ g.at = s.at /\ g.field = s.field /\ g.ret = s.ret
      /\ todo' = t /\ need' = "stmt"
  <2>1. /\ Reading(s', w) /\ s'.vals = <<>>
        /\ s'.env = f.env /\ s'.at = f.at /\ s'.field = f.field /\ s'.ret = f.ret
        /\ todo' = Below /\ need' = "stmt"
    BY ONLY Finishes(q, f, Below, w), OverFacts
  <2> QED BY <2>1, <1>1
<1>4. y.cache = q.cache
  <2>1. y = q \/ y = FlushFree(q)
    BY <1>1, <1>2 DEF Over
  <2> QED BY <2>1, <1>2, FlushFreeFacts
<1>5. /\ Top.k \in StatementKinds /\ Top.k \notin LabelKinds /\ Top.k # "then" /\ Top.k # "func"
  BY KindFacts DEF StatementKinds
<1>6. Shares(todo, t, h - 1) /\ Len(t) = h - 1 /\ DOMAIN t = 1 .. h - 1
  <2>1. Shares(todo, t, h - 1) /\ Len(t) = h - 1
    BY <1>1, <1>3, <1>5, StepsFacts, TodoShares
  <2>2. t \in Seq(ItemSet)
    BY <2>1 DEF Shares
  <2> QED BY <2>1, <2>2, LenProperties
<1>7. \A i \in DOMAIN t : t[i].params = <<>>
  <2>1. /\ h - 1 \in Nat \ {0} /\ t[h - 1].k \in BlockKinds /\ Shape(t, vars, placed)
    BY <1>1, <1>5, StepsFacts, BlockBelow
  <2>2. PICK n : n = h - 1
    OBVIOUS
  <2>3. Shape(t, vars, placed) /\ n \in Nat /\ n = Len(t) /\ t[n].k \in BlockKinds
    BY <2>1, <2>2, <1>6
  <2>4. \A i \in 1 .. n : t[i].params = <<>>
    BY ONLY <2>3, BlockShape
  <2> QED BY <2>2, <2>4, <1>6
<1>8. s.at = Run \/ (s.at.pos \in 1 .. h - 1 /\ Labelled(s.at, t))
  BY <1>1, <1>5, <1>6, WhereAt
<1>9. Sourced(g, t, "stmt")
  <2>1. KnownOperands(g, t, "stmt")
    BY <1>3, NoArgs DEF KnownOperands
  <2>2. KnownArgs(g, t)
    BY <1>7, NoArgs DEF KnownArgs
  <2>3. KnownNames(g, t)
    <3>1. f.at = Run \/ f.at.pos \in 1 .. h - 1
      BY <1>8
    <3>2. KnownNames(f, t)
      BY ONLY <3>1, <1>6, KnownNames(f, todo), NamesCarried
    <3> QED BY <3>2, <1>3 DEF KnownNames
  <2>4. Labelled(g.at, t)
    BY <1>3, <1>8 DEF Labelled
  <2> QED BY <2>1, <2>2, <2>3, <2>4 DEF Sourced
<1>10. Followed(y, e, g, t, w)
  <2>1. OperandsAgree(y, e, g)
    BY <1>3, NoArgs DEF OperandsAgree
  <2>2. ArgsAgree(e, t)
    BY <1>7, NoArgs DEF ArgsAgree
  <2>3. NamesAgree(e, g, w)
    BY <1>1, <1>3 DEF NamesAgree
  <2>4. e.at = g.at /\ e.ret = g.ret /\ e.field = g.field
    BY <1>1, <1>3, StepsFacts
  <2> QED BY <2>1, <2>2, <2>3, <2>4 DEF Followed
<1>11. Faithful(y, e, placed')
  BY <1>1, <1>4 DEF Faithful
<1> QED BY <1>1, <1>3, <1>9, <1>10, <1>11, ValuesKept

(* A new variable, in the machine and in the source. *)
DeclaresName(n, x, w, b, a, g, e, f) ==
  /\ n = Len(vars) /\ Declares(vars, placed, x, w, s, g)
  /\ b \in Val /\ a \in SVal /\ (Running(s) => a = b)
  /\ e = PutLocal(m, placed, b) /\ f = IF Running(g) THEN [g EXCEPT !.env[n][x] = a] ELSE g

LEMMA NamesDeclared ==
  ASSUME Steps, Top.k = "let", NEW n, NEW x, NEW w, NEW b, NEW a, NEW g, NEW e, NEW f,
         DeclaresName(n, x, w, b, a, g, e, f)
  PROVE  /\ Reading(f, w) /\ f.at = s.at /\ f.field = s.field /\ f.ret = s.ret
         /\ e.at = m.at /\ e.field = m.field /\ e.ret = m.ret
         /\ NamesAgree(e, f, w) /\ KnownNames(f, todo) /\ Faithful(p, e, placed + 1)
<1>1. /\ n = Len(vars) /\ Declares(vars, placed, x, w, s, g) /\ Lets(vars, placed, x, w)
      /\ b \in Val /\ a \in SVal /\ (Running(s) => a = b)
      /\ e = PutLocal(m, placed, b) /\ f = IF Running(g) THEN [g EXCEPT !.env[n][x] = a] ELSE g
  BY DEF DeclaresName, Declares
<1>2. /\ Reading(s, vars) /\ m \in Machine /\ m.at = s.at /\ (Running(m) <=> Running(s))
      /\ NamesAgree(m, s, vars) /\ KnownNames(s, todo) /\ Faithful(p, m, placed) /\ p \in RegState
      /\ placed \in 0 .. MaxLocals /\ MaxLocals \in Nat /\ CoreInv
  BY StepsFacts, CoreFacts, CompileAssumption
<1>3. /\ w \in Seq(Scope(0 .. MaxLocals - 1)) /\ Len(w) = n /\ n \in Nat \ {0}
      /\ \A i \in 1 .. n - 1 : w[i] = vars[i]
      /\ DOMAIN w[n] = DOMAIN vars[n] \cup {x} /\ w[n][x] = placed
      /\ \A y \in DOMAIN vars[n] : w[n][y] = vars[n][y]
  BY <1>1, LetPlaced
<1>4. /\ DOMAIN w = 1 .. n /\ DOMAIN vars = 1 .. n /\ n \in 1 .. n /\ placed < MaxLocals
      /\ x \notin DOMAIN vars[n]
  BY <1>1, <1>3, LenProperties DEF Lets
<1>5. /\ Reading(g, w) /\ g.vals = s.vals /\ g.at = s.at /\ g.field = s.field /\ g.ret = s.ret
      /\ g.env[n][x] = Unknown
      /\ \A j \in 1 .. n : \A y \in DOMAIN vars[j] : g.env[j][y] = s.env[j][y]
  BY <1>1, <1>4, DeclareFacts
<1>6. placed \in 0 .. MaxLocals - 1
  BY <1>2, <1>4
<1>7. /\ e \in Machine /\ e.at = m.at /\ e.ret = m.ret /\ e.field = m.field /\ e.regs = m.regs
      /\ ~Running(m) => e = m
      /\ Running(m) => /\ e.locals[placed] = b
                       /\ \A k \in 0 .. MaxLocals - 1 : k # placed => e.locals[k] = m.locals[k]
  BY <1>1, <1>2, <1>6, PutLocalFacts
<1>8. \A j \in 1 .. n : \A y \in DOMAIN w[j] :
        \/ j = n /\ y = x
        \/ ~(n = j /\ x = y) /\ y \in DOMAIN vars[j] /\ w[j][y] = vars[j][y]
  <2>1. ASSUME NEW j \in 1 .. n, NEW y \in DOMAIN w[j], ~(j = n /\ y = x)
        PROVE  y \in DOMAIN vars[j] /\ w[j][y] = vars[j][y]
    <3>1. CASE j = n
      BY <3>1, <2>1, <1>3
    <3>2. CASE j # n
      <4>1. j \in 1 .. n - 1
        BY <3>2, <1>3
      <4> QED BY <4>1, <1>3
    <3> QED BY <3>1, <3>2
  <2> QED BY <2>1
<1>9. \A j \in 1 .. n : \A y \in DOMAIN vars[j] :
        vars[j][y] \in 0 .. MaxLocals - 1 /\ vars[j][y] # placed
  <2>1. ASSUME NEW j \in 1 .. n, NEW y \in DOMAIN vars[j]
        PROVE  vars[j][y] \in 0 .. MaxLocals - 1 /\ vars[j][y] # placed
    <3>1. vars[j][y] \in 0 .. placed - 1 /\ vars[j][y] \in 0 .. MaxLocals - 1
      BY <1>2, <1>4, LocalPlaced
    <3>2. placed \notin 0 .. placed - 1
      BY <1>2
    <3> QED BY <3>1, <3>2
  <2> QED BY <2>1
<1>10. /\ Reading(f, w) /\ f.at = s.at /\ f.field = s.field /\ f.ret = s.ret
       /\ Running(s) => f.env[n][x] = a
       /\ ~Running(s) => f.env[n][x] = Unknown
       /\ \A j \in 1 .. n : \A y \in DOMAIN vars[j] : f.env[j][y] = s.env[j][y]
  <2>0. Running(g) <=> Running(s)
    BY <1>5 DEF Running
  <2>1. CASE Running(s)
    <3>1. x \in DOMAIN w[n]
      BY <1>3
    <3>2. Assigned(w, g, n, x, a, f)
      BY <2>0, <2>1, <3>1, <1>1, <1>3, <1>4, <1>5 DEF Assigned
    <3>3. /\ Reading(f, w) /\ f.at = g.at /\ f.field = g.field /\ f.ret = g.ret
          /\ f.env[n][x] = a
          /\ \A j \in DOMAIN w : \A y \in DOMAIN w[j] :
               ~(n = j /\ x = y) => f.env[j][y] = g.env[j][y]
      BY <3>2, AssignedFacts
    <3>4. ASSUME NEW j \in 1 .. n, NEW y \in DOMAIN vars[j] PROVE f.env[j][y] = s.env[j][y]
      <4>1. ~(n = j /\ x = y) /\ y \in DOMAIN w[j]
        <5>1. CASE j = n
          BY <5>1, <3>4, <1>3, <1>4
        <5>2. CASE j # n
          <6>1. j \in 1 .. n - 1
            BY <5>2, <1>3
          <6> QED BY <6>1, <5>2, <3>4, <1>3
        <5> QED BY <5>1, <5>2
      <4> QED BY <4>1, <3>3, <3>4, <1>4, <1>5
    <3> QED BY <2>1, <3>3, <3>4, <1>5
  <2>2. CASE ~Running(s)
    BY <2>0, <2>2, <1>1, <1>5
  <2> QED BY <2>1, <2>2
<1>11. NamesAgree(e, f, w)
  <2>1. SUFFICES ASSUME NEW j \in 1 .. n, NEW y \in DOMAIN w[j]
                 PROVE  f.env[j][y] = Unknown \/ e.locals[w[j][y]] = f.env[j][y]
    BY <1>4 DEF NamesAgree
  <2>2. CASE j = n /\ y = x
    BY <2>2, <1>1, <1>2, <1>3, <1>7, <1>10
  <2>3. CASE ~(n = j /\ x = y) /\ y \in DOMAIN vars[j] /\ w[j][y] = vars[j][y]
    <3>1. e.locals[vars[j][y]] = m.locals[vars[j][y]]
      BY <2>3, <1>7, <1>9
    <3>2. s.env[j][y] = Unknown \/ m.locals[vars[j][y]] = s.env[j][y]
      BY <2>3, <1>2, <1>4 DEF NamesAgree
    <3> QED BY <2>3, <3>1, <3>2, <1>10
  <2> QED BY <2>1, <2>2, <2>3, <1>8
<1>12. /\ DOMAIN f.env = 1 .. n /\ \A j \in 1 .. n : DOMAIN f.env[j] = DOMAIN w[j]
       /\ DOMAIN s.env = 1 .. n /\ \A j \in 1 .. n : DOMAIN s.env[j] = DOMAIN vars[j]
  <2>1. f.env \in Seq(Scope(SVal)) /\ s.env \in Seq(Scope(SVal))
    BY <1>2, <1>10, SourceFacts
  <2>2. Len(f.env) = n /\ Len(s.env) = n
    BY <1>1, <1>2, <1>3, <1>10 DEF Reading
  <2>3. DOMAIN f.env = 1 .. n /\ DOMAIN s.env = 1 .. n
    BY <2>1, <2>2, LenProperties
  <2> QED BY <2>3, <1>2, <1>4, <1>10 DEF Reading
<1>13. KnownNames(f, todo)
  <2>1. CASE s.at = Run
    <3>1. SUFFICES ASSUME NEW j \in 1 .. n, NEW y \in DOMAIN w[j] PROVE f.env[j][y] # Unknown
      BY <1>12 DEF KnownNames
    <3>2. CASE j = n /\ y = x
      <4>1. Running(s)
        BY <2>1 DEF Running
      <4> QED BY <4>1, <3>2, <1>1, <1>10, ValueFacts
    <3>3. CASE ~(n = j /\ x = y) /\ y \in DOMAIN vars[j] /\ w[j][y] = vars[j][y]
      <4>1. s.env[j][y] # Unknown
        BY <2>1, <3>3, <1>2, <1>12 DEF KnownNames
      <4> QED BY <4>1, <3>3, <1>10
    <3> QED BY <3>1, <3>2, <3>3, <1>8
  <2>2. CASE s.at # Run
    <3>1. /\ Total(Opened(todo), s.at.pos - 1) \in Nat
          /\ Total(Opened(todo), s.at.pos - 1) + 1 < n
      <4>1. Top.k \in StatementKinds \ {"if"}
        BY DEF StatementKinds
      <4> QED BY <2>2, <4>1, <1>1, SkippedScope
    <3>2. PICK c \in Nat : c = Total(Opened(todo), s.at.pos - 1) + 1
      BY <3>1
    <3>3. SUFFICES ASSUME NEW j \in 1 .. n, j <= c, NEW y \in DOMAIN w[j] PROVE f.env[j][y] # Unknown
      BY <2>2, <3>2, <1>10, <1>12 DEF KnownNames
    <3>4. j # n
      BY <3>1, <3>2, <3>3, <1>3
    <3>5. y \in DOMAIN vars[j]
      BY <3>3, <3>4, <1>8
    <3>6. s.env[j][y] # Unknown
      BY <3>2, <3>3, <3>5, <1>2, <1>12 DEF KnownNames
    <3> QED BY <3>5, <3>6, <1>10
  <2> QED BY <2>1, <2>2
<1>14. Faithful(p, e, placed + 1)
  <2>1. SUFFICES ASSUME NEW l \in DOMAIN p.cache, p.cache[l] # NoReg
                 PROVE  l <= placed + 1 /\ (e.at = Run => e.regs[p.cache[l]] = e.locals[l - 1])
    BY DEF Faithful
  <2>2. l <= placed /\ (m.at = Run => m.regs[p.cache[l]] = m.locals[l - 1])
    BY <2>1, <1>2 DEF Faithful
  <2>3. l \in Nat \ {0}
    BY <2>1, <1>2, RegStateFacts
  <2>4. l - 1 \in 0 .. MaxLocals - 1 /\ l - 1 # placed /\ l <= placed + 1
    BY <2>2, <2>3, <1>2
  <2> QED BY <2>2, <2>4, <1>7 DEF Running
<1> QED BY <1>7, <1>10, <1>11, <1>13, <1>14

LEMMA EndLetValues ==
  ASSUME Steps, EndLet
  PROVE  ValueInv'
<1>1. /\ need = "done" /\ ~p.full /\ Top.k = "let" /\ last' = Other
  BY ReadsFacts DEF EndLet
<1>2. PICK x, n, d, u : x = Top.x /\ n = Len(vars) /\ d = LastReg(p) /\ u = Below
  OBVIOUS
<1>3. PICK b, a : b = m.regs[d] /\ a = Operand(s, 0)
  OBVIOUS
<1>4. /\ p \in RegState /\ m \in Machine /\ Reading(s, vars) /\ x \in Names /\ placed < MaxLocals
      /\ vars \in Seq(Scope(0 .. MaxLocals - 1)) /\ Placed(vars, placed)
  BY <1>1, <1>2, StepsFacts, CoreFacts DEF Notes
<1>5. n \in Nat \ {0} /\ n \in DOMAIN vars /\ vars # <<>>
  <2>1. n \in Nat \ {0}
    <3>1. Total(Opened(todo), Len(todo)) \in Nat /\ Len(vars) = Total(Opened(todo), Len(todo)) + 1
      BY StepsFacts, CoreFacts, WeightType
    <3> QED BY <3>1, <1>2
  <2> QED BY <2>1, <1>2, <1>4, LenProperties
<1>6. b \in Val /\ a \in SVal /\ (Running(s) => a = b) /\ d \in Reg
  <2>1. ~Dropped(todo, need)
    BY <1>1, StepsFacts, NotDropped
  <2>2. Top.k \notin LogicalKinds /\ Ready(need) = 1 /\ Held(Top) = 0
    BY <1>1, KindFacts, ReadyFacts, HeldFacts DEF StatementKinds
  <2>3. 0 \in Nat /\ 0 < Held(Top) + Ready(need)
    BY <2>2
  <2>4. TopReg(p, 0) = d
    BY <1>2, <1>4, LastRegTop
  <2> QED BY <2>1, <2>2, <2>3, <2>4, <1>3, TopOperand
<1>7. CASE x \in DOMAIN vars[n]
  <2>1. PICK l, q, f : /\ l = vars[n][x] /\ q = CacheStored(p, l, d)
                       /\ f = IF Running(s) THEN [s EXCEPT !.env[n][x] = a] ELSE s
    OBVIOUS
  <2>2. /\ m' = PutLocal(m, l, b) /\ vars' = vars /\ placed' = placed /\ Over(q, f, u)
    BY <2>1, <1>2, <1>3, <1>7 DEF EndLet
  <2>3. l \in 0 .. placed - 1 /\ l \in Nat
    BY <2>1, <1>5, <1>7, StepsFacts, LocalPlaced
  <2>4. StoresName(n, x, l, b, a, m', f)
    BY <2>1, <2>2, <1>5, <1>6, <1>7 DEF StoresName
  <2>5. /\ Reading(f, vars) /\ f.at = s.at /\ f.field = s.field /\ f.ret = s.ret
        /\ m'.at = m.at /\ m'.field = m.field /\ m'.ret = m.ret
        /\ NamesAgree(m', f, vars) /\ KnownNames(f, todo)
    BY <2>4, NamesStored
  <2>6. Faithful(q, m', placed)
    BY ONLY Steps, <2>1, <2>2, <2>3, <1>3, <1>6, StoreFaithful
  <2>7. q \in RegState
    <3>1. Stores(p, l, d, q)
      BY <2>1, <2>3, <1>4, <1>6 DEF Stores
    <3> QED BY <3>1, CacheStoredFacts
  <2>8. PICK w : w = vars'
    OBVIOUS
  <2>9. Finishes(q, f, Below, w)
    BY <2>2, <2>5, <2>7, <2>8, <1>2 DEF Finishes
  <2>10. NamesAgree(m', f, w) /\ Faithful(q, m', placed')
    BY <2>2, <2>5, <2>6, <2>8
  <2> QED BY ONLY Steps, <2>5, <2>8, <2>9, <2>10, <1>1, LetOver
<1>8. CASE x \notin DOMAIN vars[n]
  <2>1. PICK g : g = [s EXCEPT !.env[n] = With(@, x, Unknown)]
    OBVIOUS
  <2>2. PICK y : y = [g EXCEPT !.env[n][x] = a]
    OBVIOUS
  <2>3. PICK f : f = IF Running(g) THEN y ELSE g
    OBVIOUS
  <2>4. PICK w : w = vars'
    OBVIOUS
  <2>5. /\ g = [s EXCEPT !.env[n] = With(@, x, Unknown)]
        /\ f = (IF Running(g) THEN [g EXCEPT !.env[n][x] = a] ELSE g) /\ w = vars'
    BY ONLY <2>1, <2>2, <2>3, <2>4
  <2>6. /\ m' = PutLocal(m, placed, b) /\ w = [vars EXCEPT ![n] = With(@, x, placed)]
        /\ placed' = placed + 1 /\ Over(p, f, u)
    BY <2>5, <1>2, <1>3, <1>8 DEF EndLet
  <2>7. Lets(vars, placed, x, w)
    BY <2>6, <1>2, <1>4, <1>5, <1>8 DEF Lets
  <2>8. Declares(vars, placed, x, w, s, g)
    BY <2>5, <2>7, <1>2, <1>4 DEF Declares
  <2>9. DeclaresName(n, x, w, b, a, g, m', f)
    BY <2>5, <2>6, <2>8, <1>2, <1>6 DEF DeclaresName
  <2>10. /\ Reading(f, w) /\ f.at = s.at /\ f.field = s.field /\ f.ret = s.ret
        /\ m'.at = m.at /\ m'.field = m.field /\ m'.ret = m.ret
        /\ NamesAgree(m', f, w) /\ KnownNames(f, todo) /\ Faithful(p, m', placed + 1)
    BY <2>9, <1>1, NamesDeclared
  <2>11. Finishes(p, f, Below, w)
    BY <2>6, <2>10, <1>2, <1>4 DEF Finishes
  <2>12. Faithful(p, m', placed')
    BY <2>6, <2>10
  <2> QED BY ONLY Steps, <2>5, <2>10, <2>11, <2>12, <1>1, LetOver
<1> QED BY <1>7, <1>8

-----------------------------------------------------------------------------
(* The values, action by action: && and ||.                                *)

(* Between the two operands: what the operator before has left. *)
Between(q, e, g, n, k) ==
  /\ q \in RegState /\ Alloc(q, k, todo) /\ k \in Nat \ {0} /\ n \in Nat /\ k - 1 <= n
  /\ Top.k = "expr" /\ Upto(todo, Len(todo) - 1) = k - 1
  /\ \A v \in 1 .. k - 1 : OpReg(q, k, v) = OpReg(p, n, v)
  /\ e \in Machine /\ e.at = m.at /\ e.ret = m.ret /\ e.field = m.field /\ e.locals = m.locals
  /\ Reading(g, vars) /\ g.at = s.at /\ g.env = s.env /\ g.field = s.field /\ g.ret = s.ret
  /\ Len(g.vals) = k /\ \A v \in 1 .. k - 1 : g.vals[v] = s.vals[v]
  /\ Running(s) => g.vals[k] = e.regs[LastReg(q)]
  /\ \A v \in 1 .. k - 1 : e.regs[OpReg(p, n, v)] = m.regs[OpReg(p, n, v)]
  /\ \A i \in DOMAIN todo : \A j \in DOMAIN todo[i].params :
       e.regs[todo[i].params[j].reg] = m.regs[todo[i].params[j].reg]

LEMMA GeneratedState ==
  ASSUME Steps, need = "more", NEW q, NEW e, NEW g, q = Generated.p, e = Generated.m, g = Generated.s,
         ~q.full, NEW n, n = Len(s.vals), NEW k, k = n - Top.op
  PROVE  Between(q, e, g, n, k)
<1>1. /\ Stepped(p, n, todo, q, k, k - 1) /\ k - 1 \in Nat /\ Held(Top) = Top.op /\ Ready(need) = 1
      /\ n \in Nat /\ Top.op \in 0 .. 1 /\ Top.k = "expr"
  <2>1. /\ Stepped(p, n, todo, q, n - Top.op, n - 1 - Top.op)
        /\ n - 1 - Top.op \in Nat /\ Held(Top) = Top.op /\ Ready(need) = 1 /\ n \in Nat
        /\ Top.op \in 0 .. 1 /\ Top.k = "expr"
    BY StepsFacts, GeneratedRegs
  <2>2. n - 1 - Top.op = k - 1
    BY <2>1
  <2> QED BY <2>1, <2>2
<1>2. /\ p \in RegState /\ m \in Machine /\ Reading(s, vars) /\ Alloc(p, n, todo) /\ n <= Len(p.rstack)
      /\ (Running(m) <=> Running(s)) /\ DOMAIN s.vals = 1 .. n /\ ~p.full
  BY StepsFacts, LiveFacts, CoreFacts, SourceFacts
<1>3. /\ ~Dropped(todo, need) /\ Top.k \notin LabelKinds /\ Top.k \notin LogicalKinds
  BY <1>1, StepsFacts, NotDropped, KindFacts
<1>4. Upto(todo, Len(todo) - 1) = k - 1 /\ k \in Nat \ {0} /\ k - 1 <= n
  <2>1. Upto(todo, Len(todo) - 1) = n - Ready(need) - Held(Top)
    BY StepsFacts, Waiting
  <2> QED BY <2>1, <1>1
<1>5. q \in RegState /\ Alloc(q, k, todo) /\ \A v \in 1 .. k - 1 : OpReg(q, k, v) = OpReg(p, n, v)
  BY <1>1 DEF Stepped
<1>6. CASE Top.op = 0
  <2>1. q = p /\ e = m /\ g = s /\ k = n
    BY <1>1, <1>6 DEF Generated
  <2>2. Running(s) => g.vals[k] = e.regs[LastReg(q)]
    <3>1. Operand(s, 0) = s.vals[n] /\ TopReg(p, 0) = LastReg(p)
      BY <1>1, <1>2, LastRegTop DEF Operand
    <3>2. 0 \in Nat /\ 0 < Held(Top) + Ready(need)
      BY <1>1
    <3>3. Running(s) => Operand(s, 0) = m.regs[TopReg(p, 0)]
      BY <3>2, <1>3, TopOperand
    <3> QED BY <2>1, <3>1, <3>3
  <2> QED BY <2>1, <2>2, <1>1, <1>2, <1>4, <1>5 DEF Between
<1>7. CASE Top.op = 1
  <2>1. PICK w, a, d : /\ w = Mix(m.regs[TopReg(p, 1)], m.regs[TopReg(p, 0)])
                       /\ a = Mix(Operand(s, 1), Operand(s, 0)) /\ d = Dest(q)
    OBVIOUS
  <2>2. q = Apply2(p) /\ e = Put(m, d, w) /\ g = Yield(s, 2, a)
    BY <2>1, <1>7 DEF Generated
  <2>3. k = n - 1 /\ n > 1 /\ k - 1 = n - 2 /\ k \in Nat
    BY <1>1, <1>7
  <2>4. /\ OpReg(q, k, k) = d /\ d \in Reg /\ d \notin Cached(q)
    BY <2>1, <2>2, <2>3, <1>1, <1>2, FreshApply2
  <2>5. /\ Operand(s, 0) \in SVal /\ m.regs[TopReg(p, 0)] \in Val
        /\ Running(s) => Operand(s, 0) = m.regs[TopReg(p, 0)]
        /\ Operand(s, 1) \in SVal /\ m.regs[TopReg(p, 1)] \in Val
        /\ Running(s) => Operand(s, 1) = m.regs[TopReg(p, 1)]
    <3>1. 0 \in Nat /\ 0 < Held(Top) + Ready(need) /\ 1 \in Nat /\ 1 < Held(Top) + Ready(need)
      BY <1>1, <1>7
    <3> QED BY <3>1, <1>3, TopOperand
  <2>6. w \in Val /\ a \in SVal /\ (Running(s) => a = w)
    BY <2>1, <2>5, ValueFacts
  <2>7. /\ e \in Machine /\ e.at = m.at /\ e.ret = m.ret /\ e.field = m.field /\ e.locals = m.locals
        /\ ~Running(m) => e = m
        /\ Running(m) => e.regs[d] = w /\ \A t \in Reg \ {d} : e.regs[t] = m.regs[t]
    BY <2>2, <2>4, <2>6, <1>2, PutFacts
  <2>8. /\ Reading(g, vars) /\ Len(g.vals) = k
        /\ \A v \in 1 .. k - 1 : g.vals[v] = s.vals[v]
        /\ g.vals[k] = IF Running(s) THEN a ELSE Unknown
        /\ g.at = s.at /\ g.env = s.env /\ g.field = s.field /\ g.ret = s.ret
    <3>1. PICK c : c = 2
      OBVIOUS
    <3>2. Yields(vars, s, n, c, a, g)
      BY <3>1, <2>2, <2>3, <2>6, <1>1, <1>2 DEF Yields
    <3>3. /\ Reading(g, vars) /\ Len(g.vals) = n - c + 1
          /\ \A v \in 1 .. n - c : g.vals[v] = s.vals[v]
          /\ g.vals[n - c + 1] = IF Running(s) THEN a ELSE Unknown
          /\ g.at = s.at /\ g.env = s.env /\ g.field = s.field /\ g.ret = s.ret
      BY <3>2, YieldFacts
    <3>4. n - c + 1 = k /\ n - c = k - 1
      BY <3>1, <2>3, <1>1
    <3> QED BY <3>3, <3>4
  <2>9. LastReg(q) = d
    BY <2>3, <2>4, <1>4, <1>5, OpRegLast DEF Alloc
  <2>10. Running(s) => g.vals[k] = e.regs[LastReg(q)]
    BY <2>6, <2>7, <2>8, <2>9, <1>2
  <2>11. ASSUME NEW v \in 1 .. k - 1 PROVE e.regs[OpReg(p, n, v)] = m.regs[OpReg(p, n, v)]
    <3>1. v \in 1 .. k /\ k \in 1 .. k /\ v # k /\ v \in 1 .. n
      BY <2>3, <1>1
    <3>2. OpReg(q, k, v) # d
      BY <3>1, <2>4, <1>5 DEF Alloc
    <3>3. OpReg(p, n, v) \in Reg /\ OpReg(p, n, v) # d
      BY <3>1, <3>2, <1>1, <1>2, <1>5, OpRegIn
    <3> QED BY <3>3, <2>7
  <2>12. ASSUME NEW i \in DOMAIN todo, NEW j \in DOMAIN todo[i].params
         PROVE  e.regs[todo[i].params[j].reg] = m.regs[todo[i].params[j].reg]
    <3>1. k \in 1 .. k
      BY <2>3, <1>4
    <3>2. todo[i].params[j].reg # d /\ todo[i].params[j].reg \in q.used
      BY <3>1, <2>4, <1>5 DEF Alloc
    <3>3. todo[i].params[j].reg \in Reg
      BY <3>2, <1>5 DEF RegState
    <3> QED BY <3>2, <3>3, <2>7
  <2> QED BY <2>7, <2>8, <2>10, <2>11, <2>12, <1>1, <1>4, <1>5 DEF Between
<1> QED BY <1>1, <1>6, <1>7

(* An execution that leaves for a construct's end knows what it knew. *)
LEMMA JumpSourced ==
  ASSUME NEW f, NEW t, NEW n, Sourced(f, t, n), f.at = Run, NEW g, NEW a, a # Run, Labelled(a, t),
         g.at = a, g.vals = f.vals, g.env = f.env
  PROVE  Sourced(g, t, n)
<1>1. Run # Stop
  BY LabelFacts
<1>2. KnownOperands(f, t, n) /\ KnownArgs(f, t) /\ KnownNames(f, t)
  BY <1>1 DEF Sourced
<1>3. KnownOperands(g, t, n)
  BY <1>2 DEF KnownOperands
<1>4. KnownArgs(g, t)
  BY <1>2 DEF KnownArgs
<1>5. KnownNames(g, t)
  BY <1>2 DEF KnownNames
<1> QED BY <1>3, <1>4, <1>5 DEF Sourced

LEMMA LogicalValues ==
  ASSUME Careful, Steps, NEW kind \in {"and", "or"}, Logical(kind)
  PROVE  ValueInv'
<1>0. PICK n : n = Len(s.vals)
  OBVIOUS
<1>1. PICK h, q, e, g : h = Len(todo) /\ q = Generated.p /\ e = Generated.m /\ g = Generated.s
  OBVIOUS
<1>2. PICK f : f = FlushCached(q)
  OBVIOUS
<1>3. PICK a : a = NewReg(f)
  OBVIOUS
<1>4. PICK c : c = SwapTop(a)
  OBVIOUS
<1>5. PICK d : d = Dest(a)
  OBVIOUS
<1>6. PICK o, t : o = [Item(kind) EXCEPT !.reg = d] /\ t = EndOf(h)
  OBVIOUS
<1>7. PICK e2, y : /\ e2 = IF kind = "and" THEN Put(e, d, 0) ELSE e
                   /\ y = Yield(g, 1, Unknown)
  OBVIOUS
<1>8. PICK i1, i2 \in BOOLEAN :
        /\ i1 = (IF kind = "and" THEN e2.regs[LastReg(q)] = 0 ELSE e2.regs[LastReg(q)] # 0)
        /\ i2 = (IF kind = "and" THEN Operand(g, 0) = 0 ELSE Operand(g, 0) # 0)
  OBVIOUS
<1>9. PICK r, b, z, u : r = p' /\ b = m' /\ z = s' /\ u = todo'
  OBVIOUS
<1>10. /\ need = "more" /\ need' = "value" /\ ~q.full /\ SafeFlush /\ SameScope /\ last' = Other
       /\ u = Below \o <<o, Item("expr")>>
       /\ IF a.full THEN r = a ELSE r = PopReg(c) /\ b = JumpIf(i1, e2, t) /\ z = JumpIf(i2, y, t)
  BY <1>1, <1>2, <1>3, <1>4, <1>5, <1>6, <1>7, <1>8, <1>9, ReadsFacts DEF Logical, Go
<1>11. ~a.full /\ ~r.full /\ r = PopReg(c) /\ b = JumpIf(i1, e2, t) /\ z = JumpIf(i2, y, t)
  BY <1>9, <1>10, StepsFacts
<1>12. PICK k : k = n - Top.op
  OBVIOUS
<1>13. /\ q \in RegState /\ Alloc(q, k, todo) /\ k \in Nat \ {0} /\ n \in Nat /\ k - 1 <= n
       /\ Top.k = "expr" /\ Upto(todo, h - 1) = k - 1
       /\ \A v \in 1 .. k - 1 : OpReg(q, k, v) = OpReg(p, n, v)
       /\ e \in Machine /\ e.at = m.at /\ e.ret = m.ret /\ e.field = m.field /\ e.locals = m.locals
       /\ Reading(g, vars) /\ g.at = s.at /\ g.env = s.env /\ g.field = s.field /\ g.ret = s.ret
       /\ Len(g.vals) = k /\ \A v \in 1 .. k - 1 : g.vals[v] = s.vals[v]
       /\ Running(s) => g.vals[k] = e.regs[LastReg(q)]
       /\ \A v \in 1 .. k - 1 : e.regs[OpReg(p, n, v)] = m.regs[OpReg(p, n, v)]
       /\ \A i \in DOMAIN todo : \A j \in DOMAIN todo[i].params :
            e.regs[todo[i].params[j].reg] = m.regs[todo[i].params[j].reg]
  <2>1. need = "more" /\ ~q.full /\ q = Generated.p /\ e = Generated.m /\ g = Generated.s
    BY <1>1, <1>10
  <2>2. Between(q, e, g, n, k)
    BY ONLY <2>1, <1>0, <1>12, Steps, GeneratedState
  <2> QED BY <2>2, <1>1 DEF Between
<1>14. k - 1 \in Nat /\ k \in 1 .. k /\ k <= Len(q.rstack) /\ \A v \in 1 .. k - 1 : v \in 1 .. k
  BY <1>13 DEF Alloc
<1>15. Forgets(q, k, todo)
  <2>1. Pending(q) \intersect CachedRegs = {}
    BY <1>1, <1>10 DEF SafeFlush
  <2>2. Cached(q) = Cached(p) /\ Cached(p) = CachedRegs
    <3>1. Stepped(p, n, todo, q, n - Top.op, n - 1 - Top.op)
      <4>1. q = Generated.p /\ ~q.full /\ need \in {"more", "closed"}
        BY <1>1, <1>10
      <4> QED BY <4>1, <1>0, StepsFacts, GeneratedRegs
    <3> QED BY <3>1 DEF Stepped, Cached, CachedRegs
  <2>3. q \in RegState /\ k \in Nat /\ k <= Len(q.rstack)
    BY <1>13, <1>14
  <2> QED BY <2>1, <2>2, <2>3, StepsFacts, FlushForgets
<1>16. /\ f \in RegState /\ f.used = q.used /\ ~f.full /\ Alloc(f, k, todo)
  <2>1. f \in RegState /\ f.full = q.full /\ Alloc(f, k, todo)
    BY <1>2, <1>13, <1>15, AllocFlush
  <2>2. f.used = q.used
    BY <1>2, <1>13, FlushFacts
  <2> QED BY <2>1, <2>2, <1>10
<1>17. d \in Reg /\ d \notin q.used
  <2>1. Dest(a) \in Reg \ f.used
    BY <1>3, <1>11, <1>13, <1>16, AllocNew
  <2> QED BY <2>1, <1>5, <1>16
<1>18. /\ Cached(r) = {} /\ OpReg(r, k, k) = d
       /\ \A v \in 1 .. k - 1 : OpReg(r, k, v) = OpReg(p, n, v)
  <2>1. Tests(q, k, todo, f, a, c, r)
    BY <1>2, <1>3, <1>4, <1>10, <1>11, <1>13, <1>15 DEF Tests
  <2>2. /\ Cached(r) = {} /\ OpReg(r, k, k) = Dest(a)
        /\ \A v \in 1 .. k - 1 : OpReg(r, k, v) = OpReg(q, k, v)
    BY <2>1, AllocTest
  <2> QED BY <2>2, <1>5, <1>13
<1>19. LastReg(q) \in Reg /\ LastReg(q) # d
  <2>1. OpReg(q, k, k) = LastReg(q) /\ LastReg(q) \in Reg
    BY <1>13, <1>14, OpRegLast
  <2>2. OpReg(q, k, k) \in q.used
    BY <1>13, <1>14 DEF Alloc
  <2> QED BY <2>1, <2>2, <1>17
<1>20. /\ e2 \in Machine /\ e2.at = m.at /\ e2.ret = m.ret /\ e2.field = m.field
       /\ e2.locals = m.locals /\ \A x \in Reg \ {d} : e2.regs[x] = e.regs[x]
  <2>1. CASE kind = "and"
    <3>1. 0 \in Val
      BY ValueFacts
    <3>2. /\ e2 \in Machine /\ e2.at = e.at /\ e2.ret = e.ret /\ e2.field = e.field
          /\ e2.locals = e.locals
          /\ ~Running(e) => e2 = e
          /\ Running(e) => \A x \in Reg \ {d} : e2.regs[x] = e.regs[x]
      BY <2>1, <3>1, <1>7, <1>13, <1>17, PutFacts
    <3> QED BY <3>2, <1>13
  <2>2. CASE kind # "and"
    BY <2>2, <1>7, <1>13
  <2> QED BY <2>1, <2>2
<1>21. Running(s) => i1 = i2
  <2>1. Operand(g, 0) = g.vals[k]
    BY <1>13 DEF Operand
  <2>2. e2.regs[LastReg(q)] = e.regs[LastReg(q)]
    BY <1>19, <1>20
  <2> QED BY <2>1, <2>2, <1>8, <1>13
<1>22. t \in Label /\ t # Run
  BY <1>1, <1>6, StepsFacts, CoreFacts, LabelFacts
<1>23. /\ b.at = IF i1 /\ m.at = Run THEN t ELSE m.at
       /\ b.ret = m.ret /\ b.field = m.field /\ b.locals = m.locals /\ b.regs = e2.regs
  BY <1>11, <1>20, <1>22, JumpFacts DEF JumpIf, Running
<1>24. /\ Reading(y, vars) /\ Len(y.vals) = k /\ DOMAIN y.vals = 1 .. k
       /\ \A v \in 1 .. k - 1 : y.vals[v] = s.vals[v]
       /\ y.vals[k] = Unknown
       /\ y.at = s.at /\ y.env = s.env /\ y.field = s.field /\ y.ret = s.ret
  <2>1. PICK j : j = 1
    OBVIOUS
  <2>2. Yields(vars, g, k, j, Unknown, y)
    BY <2>1, <1>7, <1>13, ValueFacts DEF Yields
  <2>3. /\ Reading(y, vars) /\ Len(y.vals) = k - j + 1
        /\ \A v \in 1 .. k - j : y.vals[v] = g.vals[v]
        /\ y.vals[k - j + 1] = IF Running(g) THEN Unknown ELSE Unknown
        /\ y.at = g.at /\ y.env = g.env /\ y.field = g.field /\ y.ret = g.ret
    BY <2>2, YieldFacts
  <2>4. k - j + 1 = k /\ k - j = k - 1
    BY <2>1, <1>13
  <2>5. DOMAIN y.vals = 1 .. Len(y.vals)
    BY <2>3, SourceFacts
  <2> QED BY <2>3, <2>4, <2>5, <1>13
<1>25. /\ z.vals = y.vals /\ z.env = s.env /\ z.field = s.field /\ z.ret = s.ret
       /\ z.at = IF i2 /\ s.at = Run THEN t ELSE s.at
  <2>1. PICK j : j = Jump(y, t)
    OBVIOUS
  <2>2. Reading(y, vars) /\ t \in Label
    BY <1>22, <1>24
  <2>3. /\ j.at = IF Running(y) THEN t ELSE y.at
        /\ j.vals = y.vals /\ j.env = y.env /\ j.field = y.field /\ j.ret = y.ret
    BY <2>1, <2>2, SourceJumpFacts
  <2>4. z = IF i2 THEN j ELSE y
    BY <2>1, <1>11 DEF JumpIf
  <2> QED BY <2>3, <2>4, <1>24 DEF Running
<1>26. /\ o.k = kind /\ o.params = <<>> /\ Held(o) = 1 /\ kind \in LogicalKinds
       /\ Item("expr").params = <<>>
  <2>1. kind \in Kinds /\ kind \in LogicalKinds
    BY DEF Kinds, ExprReaders, LogicalKinds
  <2>2. o \in ItemSet /\ o.k = kind /\ o.params = <<>>
    BY <2>1, <1>6, <1>17, ItemFacts
  <2> QED BY <2>1, <2>2, HeldFacts, Plain
<1>27. /\ Shares(todo, u, h - 1) /\ Len(u) = h + 1 /\ u[h] = o /\ u[h + 1] = Item("expr")
       /\ h \in Nat \ {0} /\ DOMAIN u = 1 .. h + 1
  <2>1. todo' = Below \o <<o, Item("expr")>>
    BY <1>9, <1>10
  <2>2. Shares(todo, u, h - 1) /\ Len(u) = h + 1 /\ u[h] = o /\ u[h + 1] = Item("expr")
    BY <2>1, <1>1, <1>9, StepsFacts, ReopenShares
  <2>3. h \in Nat \ {0} /\ u \in Seq(ItemSet)
    BY <2>2, <1>1, StepsFacts, CoreFacts DEF Shares
  <2> QED BY <2>2, <2>3, LenProperties
<1>28. \A i \in h .. Len(u) : u[i].params = <<>>
  <2>1. \A i \in h .. Len(u) : i = h \/ i = h + 1
    BY <1>27
  <2> QED BY <2>1, <1>26, <1>27
<1>29. SameArgs(todo, u)
  <2>1. PICK j : j = h - 1
    OBVIOUS
  <2>2. Shares(todo, u, j) /\ \A i \in j + 1 .. Len(u) : u[i].params = <<>>
    BY <2>1, <1>27, <1>28
  <2> QED BY <2>2, SameArgsFacts
<1>30. Upto(u, h) = k
  <2>1. h \in 1 .. Len(u) /\ u \in Seq(ItemSet)
    BY <1>27 DEF Shares
  <2>2. Upto(u, h) = Upto(u, h - 1) + Held(u[h])
    BY <2>1, UptoStep
  <2>3. Upto(u, h - 1) = Upto(todo, h - 1)
    <3>1. h - 1 \in 0 .. h - 1
      BY <1>27
    <3> QED BY <3>1, <1>27, PrefixSums
  <2> QED BY <2>2, <2>3, <1>13, <1>26, <1>27
<1>31. PICK w : w = need'
  OBVIOUS
<1>32. Sourced(y, u, w)
  <2>1. PICK j : j = h - 1
    OBVIOUS
  <2>2. j \in {Len(todo), Len(todo) - 1} /\ Shares(todo, u, j) /\ Upto(todo, j) = k - 1
        /\ \A i \in j + 1 .. Len(u) : DOMAIN u[i].params = {}
    BY <2>1, <1>1, <1>13, <1>27, <1>28, NoArgs
  <2>3. \A v \in DOMAIN y.vals : v <= k - 1 => v \in 1 .. k - 1 /\ y.vals[v] = s.vals[v]
    BY <1>13, <1>24
  <2>4. \A v \in DOMAIN y.vals : v > k - 1 => Tested(u, v)
    <3>1. Tested(u, k)
      <4>1. h \in DOMAIN u /\ u[h].k \in LogicalKinds
        BY <1>26, <1>27
      <4> QED BY <4>1, <1>30 DEF Tested
    <3>2. \A v \in DOMAIN y.vals : v > k - 1 => v = k
      BY <1>13, <1>24
    <3> QED BY <3>1, <3>2
  <2>5. Top.k \notin LabelKinds
    BY <1>13, KindFacts
  <2> QED BY <2>2, <2>3, <2>4, <2>5, <1>24, SourceMove
<1>33. Sourced(z, u, w)
  <2>1. CASE i2 /\ s.at = Run
    <3>1. y.at = Run /\ z.at = t /\ z.vals = y.vals /\ z.env = y.env
      BY <2>1, <1>24, <1>25
    <3>2. Labelled(t, u)
      <4>1. h \in DOMAIN u /\ u[h].k \in LogicalKinds
        BY <1>26, <1>27
      <4> QED BY <4>1, <1>6 DEF Labelled
    <3> QED BY <3>1, <3>2, <1>22, <1>32, JumpSourced
  <2>2. CASE ~(i2 /\ s.at = Run)
    <3>1. z.at = y.at /\ z.vals = y.vals /\ z.env = y.env
      BY <2>2, <1>24, <1>25
    <3> QED BY <3>1, <1>32 DEF Sourced, KnownOperands, KnownArgs, KnownNames
  <2> QED BY <2>1, <2>2
<1>34. b.regs = e2.regs /\ \A v \in 1 .. k - 1 : OpReg(p, n, v) \in Reg /\ OpReg(p, n, v) # d
  <2>1. ASSUME NEW v \in 1 .. k - 1 PROVE OpReg(p, n, v) \in Reg /\ OpReg(p, n, v) # d
    <3>1. OpReg(q, k, v) \in q.used
      BY <1>13, <1>14 DEF Alloc
    <3>2. q.used \subseteq Reg
      BY <1>13 DEF RegState
    <3> QED BY <3>1, <3>2, <1>13, <1>17
  <2> QED BY <2>1, <1>23
<1>35. \A i \in DOMAIN todo : \A j \in DOMAIN todo[i].params :
         todo[i].params[j].reg \in Reg /\ todo[i].params[j].reg # d
  <2>1. ASSUME NEW i \in DOMAIN todo, NEW j \in DOMAIN todo[i].params
        PROVE  todo[i].params[j].reg \in Reg /\ todo[i].params[j].reg # d
    <3>1. todo[i].params[j].reg \in q.used
      BY <1>13 DEF Alloc
    <3>2. q.used \subseteq Reg
      BY <1>13 DEF RegState
    <3> QED BY <3>1, <3>2, <1>17
  <2> QED BY <2>1
<1>36. OperandsAgree(r, b, z) /\ ArgsAgree(b, u)
  <2>1. ASSUME NEW v \in DOMAIN z.vals
        PROVE  \/ v \in 1 .. k - 1 /\ z.vals[v] = s.vals[v] /\ OpReg(r, Len(z.vals), v) = OpReg(p, n, v)
               \/ z.vals[v] = Unknown
               \/ b.regs[OpReg(r, Len(z.vals), v)] = z.vals[v]
    <3>1. v \in 1 .. k /\ Len(z.vals) = k
      BY <2>1, <1>24, <1>25
    <3>2. CASE v = k
      BY <3>2, <1>24, <1>25
    <3>3. CASE v # k
      <4>1. v \in 1 .. k - 1
        BY <3>1, <3>3, <1>13
      <4> QED BY <4>1, <3>1, <1>18, <1>24, <1>25
    <3> QED BY <3>2, <3>3
  <2>2. \A v \in 1 .. k - 1 : b.regs[OpReg(p, n, v)] = m.regs[OpReg(p, n, v)]
    BY <1>13, <1>20, <1>34
  <2>3. \A i \in DOMAIN todo : \A j \in DOMAIN todo[i].params :
          b.regs[todo[i].params[j].reg] = m.regs[todo[i].params[j].reg]
    BY <1>13, <1>20, <1>34, <1>35
  <2>4. PICK j : j = k - 1
    OBVIOUS
  <2>5. j \in Nat /\ j <= n
    BY <2>4, <1>13, <1>14
  <2>6. \A v \in DOMAIN z.vals :
          \/ v \in 1 .. j /\ z.vals[v] = s.vals[v] /\ OpReg(r, Len(z.vals), v) = OpReg(p, n, v)
          \/ z.vals[v] = Unknown
          \/ b.regs[OpReg(r, Len(z.vals), v)] = z.vals[v]
    BY <2>1, <2>4
  <2>7. \A v \in 1 .. j : b.regs[OpReg(p, n, v)] = m.regs[OpReg(p, n, v)]
    BY <2>2, <2>4
  <2>8. Keeping(n, r, b, z, j)
    BY <2>5, <2>6, <2>7 DEF Keeping
  <2>9. ArgsSame(b)
    BY <2>3 DEF ArgsSame
  <2> QED BY ONLY <2>8, <2>9, <1>0, <1>29, Steps, KeptAgree
<1>37. Followed(r, b, z, u, vars)
  <2>1. NamesAgree(b, z, vars)
    BY <1>23, <1>25, StepsFacts DEF NamesAgree
  <2>2. b.at = z.at
    BY <1>21, <1>23, <1>25, StepsFacts DEF Running
  <2> QED BY <2>1, <2>2, <1>23, <1>25, <1>36, StepsFacts DEF Followed
<1>38. vars' = vars /\ placed' = placed
  BY <1>10 DEF SameScope
<1>39. Faithful(p', m', placed')
  <2>1. \A l \in DOMAIN r.cache : r.cache[l] = NoReg
    BY <1>18 DEF Cached
  <2> QED BY <2>1, <1>9 DEF Faithful
<1>40. Sourced(s', todo', need') /\ Followed(p', m', s', todo', vars')
  BY <1>9, <1>31, <1>33, <1>37, <1>38
<1> QED BY <1>10, <1>39, <1>40, ValuesKept

(* Who comes from the short circuit finds what was known when it was taken. *)
Lands(g, u, b) ==
  /\ g.at = Run /\ g.env = s.env /\ b = Upto(todo, Len(todo) - 1)
  /\ DOMAIN g.vals = 1 .. b + 1 /\ g.vals[b + 1] # Unknown
  /\ \A v \in 1 .. b : v \in DOMAIN s.vals /\ g.vals[v] = s.vals[v]
  /\ Shares(todo, u, Len(todo) - 1) /\ Len(u) = Len(todo) - 1

LEMMA LandedSourced ==
  ASSUME Steps, Top.k \in LogicalKinds, need = "done", s.at = EndOf(Len(todo)),
         NEW g, NEW u, NEW b, Lands(g, u, b), NEW k
  PROVE  Sourced(g, u, k)
<1>1. PICK h : h = Len(todo)
  OBVIOUS
<1>2. /\ h \in Nat \ {0} /\ todo \in Seq(ItemSet) /\ DOMAIN todo = 1 .. h /\ Top = todo[h]
      /\ Reading(s, vars) /\ s.at # Run /\ s.at.pos = h
  BY <1>1, StepsFacts, CoreFacts, LabelFacts
<1>3. /\ g.at = Run /\ g.env = s.env /\ b = Upto(todo, h - 1) /\ DOMAIN g.vals = 1 .. b + 1
      /\ g.vals[b + 1] # Unknown /\ \A v \in 1 .. b : v \in DOMAIN s.vals /\ g.vals[v] = s.vals[v]
      /\ Shares(todo, u, h - 1) /\ Len(u) = h - 1
  BY <1>1 DEF Lands
<1>4. DOMAIN u = 1 .. h - 1 /\ \A i \in 1 .. h - 1 : u[i] = todo[i] /\ i \in DOMAIN todo
  <2>1. u \in Seq(ItemSet) /\ \A i \in 1 .. h - 1 : u[i] = todo[i]
    BY <1>3 DEF Shares
  <2>2. \A i \in 1 .. h - 1 : i \in 1 .. h
    BY <1>2
  <2>3. DOMAIN u = 1 .. Len(u)
    BY <2>1, LenProperties
  <2> QED BY <2>1, <2>2, <2>3, <1>2, <1>3
<1>5. /\ Upto(todo, h - 1) < Upto(todo, h) /\ b \in Nat
      /\ \A i \in 0 .. h - 1 : Upto(u, i) = Upto(todo, i)
  <2>1. h - 1 \in 0 .. Len(todo) /\ h \in 0 .. Len(todo) /\ h - 1 < h /\ h - 1 <= h
    BY <1>1, <1>2
  <2>2. Upto(todo, h - 1) < Upto(todo, h) /\ Upto(todo, h - 1) \in Nat
    BY <2>1, <1>2, UptoOrder
  <2> QED BY <2>2, <1>3, PrefixSums
<1>6. KnownOperands(g, u, k)
  <2>1. SUFFICES ASSUME NEW v \in DOMAIN g.vals, g.vals[v] = Unknown PROVE Tested(u, v)
    BY DEF KnownOperands
  <2>2. v \in 1 .. b
    BY <2>1, <1>3, <1>5
  <2>3. v \in DOMAIN s.vals /\ s.vals[v] = Unknown /\ v <= Upto(todo, s.at.pos - 1)
    BY <2>1, <2>2, <1>2, <1>3, <1>5
  <2>4. ~Dropped(todo, need)
    <3>1. Top.k # "effect"
      BY DEF LogicalKinds
    <3> QED BY <3>1, StepsFacts, NotDropped
  <2>5. PICK i \in DOMAIN todo : todo[i].k \in LogicalKinds /\ v = Upto(todo, i)
    BY <2>3, <2>4, StepsFacts DEF KnownOperands, Tested
  <2>6. i # h
    BY <2>2, <2>5, <1>3, <1>5
  <2>7. i \in 1 .. h - 1 /\ i \in 0 .. h - 1
    BY <2>5, <2>6, <1>2
  <2> QED BY <2>5, <2>7, <1>4, <1>5 DEF Tested
<1>7. KnownArgs(g, u)
  <2>1. ASSUME NEW i \in DOMAIN u, NEW j \in DOMAIN u[i].params PROVE u[i].params[j].val # Unknown
    <3>1. i \in DOMAIN todo /\ i < s.at.pos /\ u[i] = todo[i]
      BY <2>1, <1>2, <1>4
    <3> QED BY <2>1, <3>1, StepsFacts DEF KnownArgs
  <2> QED BY <2>1 DEF KnownArgs
<1>8. KnownNames(g, u)
  <2>1. PICK c : c = Total(Opened(todo), h - 1) + 1
    OBVIOUS
  <2>2. Top.k \notin ScopeKinds
    BY DEF LogicalKinds, ScopeKinds
  <2>3. c \in Nat /\ DOMAIN vars = 1 .. Len(vars) /\ Len(vars) = c
    <3>1. c \in Nat /\ DOMAIN vars = 1 .. Len(vars) /\ Len(vars) = c + 0
      BY <1>1, <2>1, <2>2, TurnScopes
    <3> QED BY <3>1
  <2>4. DOMAIN s.env = DOMAIN vars
    BY <1>2 DEF Reading
  <2>5. ASSUME NEW i \in DOMAIN s.env, NEW x \in DOMAIN s.env[i] PROVE s.env[i][x] # Unknown
    <3>1. i <= Total(Opened(todo), s.at.pos - 1) + 1
      BY <2>1, <2>3, <2>4, <1>2
    <3> QED BY <2>5, <3>1, StepsFacts DEF KnownNames
  <2> QED BY <2>5, <1>3 DEF KnownNames
<1> QED BY <1>3, <1>6, <1>7, <1>8 DEF Sourced, Labelled

LEMMA EndLogicalValues ==
  ASSUME Steps, EndLogical
  PROVE  ValueInv'
<1>0. PICK n : n = Len(s.vals)
  OBVIOUS
<1>1. PICK h : h = Len(todo)
  OBVIOUS
<1>2. PICK f : f = FlushCached(p)
  OBVIOUS
<1>3. PICK r, e, g, u : r = p' /\ e = m' /\ g = s' /\ u = todo'
  OBVIOUS
<1>4. PICK t : t = EndOf(h)
  OBVIOUS
<1>5. PICK d : d = Top.reg
  OBVIOUS
<1>6. PICK short : short = IF Top.k = "and" THEN 0 ELSE 1
  OBVIOUS
<1>7. PICK e1, g1 : e1 = Land(m, t) /\ g1 = Land(s, t)
  OBVIOUS
<1>8. PICK w, a : /\ w = IF m.at = t THEN short ELSE Truth(m.regs[LastReg(p)])
                  /\ a = IF s.at = t THEN short ELSE Truth(Operand(s, 0))
  OBVIOUS
<1>9. /\ ~p.full /\ need = "done" /\ need' = "done" /\ todo' = Below /\ Top.k \in LogicalKinds
      /\ Top.k # "func" /\ r = PopReg(f) /\ e = Put(e1, d, w) /\ g = Yield(g1, 2, a)
      /\ SameScope /\ last' = Other
  BY <1>1, <1>2, <1>3, <1>4, <1>5, <1>6, <1>7, <1>8, ReadsFacts DEF EndLogical, Go, LogicalKinds
<1>10. /\ n \in Nat /\ p \in RegState /\ Alloc(p, n, todo) /\ Held(Top) = 1 /\ Ready(need) = 1
       /\ n - 2 \in Nat
  BY <1>0, <1>9, StepsFacts, LiveFacts, HeldFacts, ReadyFacts
<1>11. PICK b, k : b = n - 2 /\ k = n - 1
  OBVIOUS
<1>12. /\ b \in Nat /\ k \in Nat \ {0} /\ k = b + 1 /\ b <= n /\ n = k + 1
       /\ Upto(todo, h - 1) = b
  <2>1. Upto(todo, Len(todo) - 1) = n - Ready(need) - Held(Top)
    BY <1>0, StepsFacts, Waiting
  <2> QED BY <2>1, <1>1, <1>10, <1>11
<1>13. Forgets(p, n, todo)
  <2>1. h \in DOMAIN todo /\ todo[h] = Top /\ Upto(todo, h) = n - 1 /\ Apart(p, n, todo, h)
    BY <1>0, <1>1, <1>9, <1>10, StepsFacts, TopNoted
  <2>2. \A i \in DOMAIN todo : i \in 1 .. h
    BY <1>1, StepsFacts, CoreFacts
  <2> QED BY <2>1, <2>2, <1>9 DEF Apart, Forgets
<1>14. /\ f \in RegState /\ Alloc(f, n, todo) /\ Cached(f) = {}
       /\ \A v \in 1 .. n : OpReg(f, n, v) = OpReg(p, n, v)
  BY <1>2, <1>10, <1>13, AllocFlush
<1>15. n \in Nat \ {0}
  BY <1>10
<1>16. /\ Alloc(r, k, todo) /\ Cached(r) = {} /\ r \in RegState
       /\ \A v \in 1 .. k : OpReg(r, k, v) = OpReg(p, n, v)
  <2>1. Stepped(f, n, todo, r, n - 1, n - 1)
    BY <1>9, <1>14, <1>15, AllocPopped
  <2>2. \A v \in 1 .. k : v \in 1 .. n
    BY <1>12
  <2> QED BY <2>1, <2>2, <1>11, <1>14 DEF Stepped
<1>17. d = OpReg(p, n, k) /\ d = OpReg(r, k, k) /\ d \in Reg /\ k \in 1 .. k
  <2>1. d = OpReg(p, n, n - 1)
    <3>1. todo[h] = Top /\ Upto(todo, h) = n - 1 /\ Noted(p, n, todo, h)
      BY <1>0, <1>1, <1>9, <1>10, StepsFacts, TopNoted
    <3>2. Top.k \in Holders \ {"idxset"}
      BY <1>9 DEF LogicalKinds, Holders
    <3> QED BY <3>1, <3>2, <1>5 DEF Noted
  <2>2. d \in Reg
    BY <1>5, StepsFacts, CoreFacts
  <2> QED BY <2>1, <2>2, <1>11, <1>12, <1>16
<1>18. m.regs[LastReg(p)] \in Val /\ Operand(s, 0) \in SVal
       /\ (Running(s) => Operand(s, 0) = m.regs[LastReg(p)])
  <2>1. 0 \in Nat /\ 0 < Held(Top) + Ready(need) /\ 0 < Ready(need)
    BY <1>10
  <2>2. ~Dropped(todo, need)
    <3>1. Top.k # "effect"
      BY <1>9 DEF LogicalKinds
    <3> QED BY <3>1, <1>9, StepsFacts, NotDropped
  <2>3. LastReg(p) = TopReg(p, 0)
    BY <1>0, <1>10, <1>15, StepsFacts, CoreFacts, LastRegTop
  <2>4. /\ Operand(s, 0) \in SVal /\ m.regs[TopReg(p, 0)] \in Val
        /\ Running(s) => Operand(s, 0) = m.regs[TopReg(p, 0)]
    BY <2>1, <2>2, TopOperand
  <2> QED BY <2>3, <2>4
<1>19. t \in Label /\ t # Run /\ t.pos = h
  BY <1>1, <1>4, StepsFacts, CoreFacts, LabelFacts
<1>20. /\ w \in Val /\ a \in SVal /\ (s.at \in {Run, t} => a = w)
  <2>1. short \in Val
    BY <1>6, ValueFacts
  <2>2. Truth(m.regs[LastReg(p)]) \in Val /\ Truth(Operand(s, 0)) \in SVal
    BY <1>18, ValueFacts
  <2>3. CASE s.at = t
    BY <2>1, <2>3, <1>8, StepsFacts, ValueFacts
  <2>4. CASE s.at # t
    BY <2>2, <2>4, <1>8, <1>18, StepsFacts
  <2> QED BY <2>3, <2>4
<1>21. /\ e1 \in Machine /\ e1.at = IF m.at = t THEN Run ELSE m.at
       /\ e1.regs = m.regs /\ e1.locals = m.locals /\ e1.field = m.field /\ e1.ret = m.ret
  BY <1>7, <1>19, StepsFacts, CoreFacts, JumpFacts
<1>22. /\ Reading(g1, vars) /\ g1.at = IF s.at = t THEN Run ELSE s.at
       /\ g1.vals = s.vals /\ g1.env = s.env /\ g1.field = s.field /\ g1.ret = s.ret
  <2>1. Reading(s, vars) /\ t \in Label
    BY <1>19, StepsFacts, CoreFacts
  <2> QED BY <2>1, <1>7, SourceJumpFacts
<1>23. /\ e.at = e1.at /\ e.locals = m.locals /\ e.field = m.field /\ e.ret = m.ret
       /\ \A x \in Reg \ {d} : e.regs[x] = m.regs[x]
       /\ e1.at = Run => e.regs[d] = w
  <2>1. /\ e.at = e1.at /\ e.ret = e1.ret /\ e.field = e1.field /\ e.locals = e1.locals
        /\ ~Running(e1) => e = e1
        /\ Running(e1) => e.regs[d] = w /\ \A x \in Reg \ {d} : e.regs[x] = e1.regs[x]
    BY <1>9, <1>17, <1>20, <1>21, PutFacts
  <2> QED BY <2>1, <1>21 DEF Running
<1>24. /\ Reading(g, vars) /\ Len(g.vals) = k /\ DOMAIN g.vals = 1 .. k
       /\ \A v \in 1 .. b : g.vals[v] = s.vals[v]
       /\ g.vals[k] = IF g1.at = Run THEN a ELSE Unknown
       /\ g.at = g1.at /\ g.env = s.env /\ g.field = s.field /\ g.ret = s.ret
  <2>1. PICK j : j = 2
    OBVIOUS
  <2>2. Yields(vars, g1, n, j, a, g)
    BY <2>1, <1>0, <1>9, <1>10, <1>20, <1>22 DEF Yields
  <2>3. /\ Reading(g, vars) /\ Len(g.vals) = n - j + 1
        /\ \A v \in 1 .. n - j : g.vals[v] = g1.vals[v]
        /\ g.vals[n - j + 1] = IF Running(g1) THEN a ELSE Unknown
        /\ g.at = g1.at /\ g.env = g1.env /\ g.field = g1.field /\ g.ret = g1.ret
    BY <2>2, YieldFacts
  <2>4. n - j + 1 = k /\ n - j = b
    BY <2>1, <1>10, <1>11
  <2>5. DOMAIN g.vals = 1 .. Len(g.vals)
    BY <2>3, SourceFacts
  <2> QED BY <2>3, <2>4, <2>5, <1>22 DEF Running
<1>25. Shares(todo, u, h - 1) /\ Len(u) = h - 1 /\ SameArgs(todo, u)
  BY <1>1, <1>3, <1>9, StepsFacts, TodoShares
<1>26. DOMAIN s.vals = 1 .. n /\ \A v \in 1 .. b : v \in 1 .. n /\ v \in 1 .. k /\ v # k
  <2>1. DOMAIN s.vals = 1 .. n
    BY <1>0, StepsFacts, CoreFacts, SourceFacts
  <2> QED BY <2>1, <1>12
<1>27. g1.at = Run => a # Unknown
  BY <1>20, <1>22, ValueFacts
<1>28. PICK c : c = need'
  OBVIOUS
<1>29. Sourced(g, u, c)
  <2>1. CASE s.at = t
    <3>1. s.at = EndOf(Len(todo)) /\ Top.k \in LogicalKinds /\ need = "done"
      BY <2>1, <1>1, <1>4, <1>9
    <3>2. Lands(g, u, b)
      BY <2>1, <1>1, <1>12, <1>22, <1>24, <1>25, <1>26, <1>27 DEF Lands
    <3> QED BY <3>1, <3>2, LandedSourced
  <2>2. CASE s.at # t
    <3>1. PICK j : j = h - 1
      OBVIOUS
    <3>2. j \in {Len(todo), Len(todo) - 1} /\ Shares(todo, u, j) /\ Upto(todo, j) = b
      BY <3>1, <1>1, <1>12, <1>25
    <3>3. g.at = s.at /\ g.env = s.env /\ Reading(g, vars)
      BY <2>2, <1>22, <1>24
    <3>4. Running(s) \/ s.at.pos # Len(todo)
      <4>1. Top.k # "then"
        BY <1>9 DEF LogicalKinds
      <4>2. h \in Nat \ {0} /\ (s.at = Run \/ s.at.pos \in 1 .. h - 1)
        BY <4>1, <2>2, <1>1, <1>4, WhereAt
      <4> QED BY <4>2, <1>1 DEF Running
    <3>5. \A v \in DOMAIN g.vals : v <= Upto(todo, j) => g.vals[v] = s.vals[v]
      BY <3>2, <1>12, <1>24
    <3>6. Running(s) => \A v \in DOMAIN g.vals : v > Upto(todo, j) => g.vals[v] # Unknown
      <4>1. \A v \in DOMAIN g.vals : v > Upto(todo, j) => v = k
        BY <3>2, <1>12, <1>24
      <4> QED BY <4>1, <3>3, <1>24, <1>27 DEF Running
    <3>7. \A i \in j + 1 .. Len(u) : FALSE
      BY <3>1, <1>25, StepsFacts, CoreFacts, <1>1
    <3> QED BY ONLY <3>2, <3>3, <3>4, <3>5, <3>6, <3>7, Steps, SourceMove
  <2> QED BY <2>1, <2>2
<1>30. \A v \in 1 .. b : OpReg(p, n, v) \in Reg /\ OpReg(p, n, v) # d
  <2>1. ASSUME NEW v \in 1 .. b PROVE OpReg(p, n, v) \in Reg /\ OpReg(p, n, v) # d
    <3>1. v \in 1 .. k /\ k \in 1 .. k /\ v # k /\ OpReg(r, k, v) = OpReg(p, n, v)
      BY <2>1, <1>16, <1>17, <1>26
    <3>2. OpReg(r, k, v) \in r.used /\ OpReg(r, k, v) # d
      BY <3>1, <1>16, <1>17 DEF Alloc
    <3>3. r.used \subseteq Reg
      BY <1>16 DEF RegState
    <3> QED BY <3>1, <3>2, <3>3
  <2> QED BY <2>1
<1>31. \A i \in DOMAIN todo : \A j \in DOMAIN todo[i].params :
         todo[i].params[j].reg \in Reg /\ todo[i].params[j].reg # d
  <2>1. ASSUME NEW i \in DOMAIN todo, NEW j \in DOMAIN todo[i].params
        PROVE  todo[i].params[j].reg \in Reg /\ todo[i].params[j].reg # d
    <3>1. todo[i].params[j].reg \in r.used /\ todo[i].params[j].reg # d
      BY <1>16, <1>17 DEF Alloc
    <3>2. r.used \subseteq Reg
      BY <1>16 DEF RegState
    <3> QED BY <3>1, <3>2
  <2> QED BY <2>1
<1>32. Keeping(n, r, e, g, b) /\ ArgsSame(e)
  <2>1. ASSUME NEW v \in DOMAIN g.vals
        PROVE  \/ v \in 1 .. b /\ g.vals[v] = s.vals[v] /\ OpReg(r, Len(g.vals), v) = OpReg(p, n, v)
               \/ g.vals[v] = Unknown
               \/ e.regs[OpReg(r, Len(g.vals), v)] = g.vals[v]
    <3>1. v \in 1 .. k /\ Len(g.vals) = k
      BY <2>1, <1>24
    <3>2. CASE v = k
      <4>1. g1.at = Run => a = w /\ e1.at = Run
        BY <1>20, <1>21, <1>22, StepsFacts
      <4> QED BY <4>1, <3>1, <3>2, <1>17, <1>23, <1>24
    <3>3. CASE v # k
      <4>1. v \in 1 .. b
        BY <3>1, <3>3, <1>12
      <4> QED BY <4>1, <3>1, <1>16, <1>24
    <3> QED BY <3>2, <3>3
  <2>2. \A v \in 1 .. b : e.regs[OpReg(p, n, v)] = m.regs[OpReg(p, n, v)]
    BY <1>23, <1>30
  <2>3. \A i \in DOMAIN todo : \A j \in DOMAIN todo[i].params :
          e.regs[todo[i].params[j].reg] = m.regs[todo[i].params[j].reg]
    BY <1>23, <1>31
  <2> QED BY <2>1, <2>2, <2>3, <1>12 DEF Keeping, ArgsSame
<1>33. OperandsAgree(r, e, g) /\ ArgsAgree(e, u)
  BY ONLY <1>0, <1>25, <1>32, Steps, KeptAgree
<1>34. Followed(r, e, g, u, vars)
  <2>1. NamesAgree(e, g, vars)
    BY <1>23, <1>24, StepsFacts DEF NamesAgree
  <2>2. e.at = g.at
    BY <1>21, <1>22, <1>23, <1>24, StepsFacts
  <2> QED BY <2>1, <2>2, <1>23, <1>24, <1>33, StepsFacts DEF Followed
<1>35. vars' = vars
  BY <1>9 DEF SameScope
<1>36. Faithful(p', m', placed')
  <2>1. \A l \in DOMAIN r.cache : r.cache[l] = NoReg
    BY <1>16 DEF Cached
  <2> QED BY <2>1, <1>3 DEF Faithful
<1>37. Sourced(s', todo', need') /\ Followed(p', m', s', todo', vars')
  BY <1>3, <1>28, <1>29, <1>34, <1>35
<1> QED BY <1>9, <1>36, <1>37, ValuesKept

-----------------------------------------------------------------------------
(* The beginning, and every step.                                          *)

LEMMA InitValues ==
  ASSUME Init
  PROVE  ValueInv
<1>0. PICK a : a = Range(Params)
  OBVIOUS
<1>1. PICK place : place = [x \in a |-> (CHOOSE i \in DOMAIN Params : Params[i] = x) - 1]
  OBVIOUS
<1>2. PICK given : given = [l \in 0 .. MaxLocals - 1 |-> IF l < Len(Params) THEN (l + 1) % 3 ELSE 0]
  OBVIOUS
<1>3. PICK e : e = [x \in a |-> given[place[x]]]
  OBVIOUS
<1>4. /\ p = NoRegsUsed
      /\ m = [regs |-> [r \in Reg |-> 0], locals |-> given, field |-> 0, at |-> Run, ret |-> 0]
      /\ s = [vals |-> <<>>, env |-> <<e>>, field |-> 0, at |-> Run, ret |-> 0]
      /\ vars = <<place>> /\ todo = <<Item("func")>> /\ last = Other
  BY <1>0, <1>1, <1>2, <1>3 DEF Init
<1>5. /\ m.at = Run /\ m.ret = 0 /\ m.field = 0 /\ m.locals = given
      /\ s.at = Run /\ s.ret = 0 /\ s.field = 0 /\ s.env = <<e>>
  BY <1>4
<1>6. DOMAIN s.vals = {} /\ DOMAIN p.cache = {}
  <2>1. s.vals = <<>> /\ p.cache = <<>>
    BY <1>4 DEF NoRegsUsed
  <2> QED BY <2>1
<1>7. \A i \in DOMAIN todo : todo[i].params = <<>>
  <2>1. Item("func").params = <<>>
    BY Plain
  <2>2. DOMAIN todo = {1} /\ todo[1] = Item("func")
    BY <1>4
  <2> QED BY <2>1, <2>2
<1>8. DOMAIN s.env = {1} /\ DOMAIN vars = {1} /\ s.env[1] = e /\ vars[1] = place
      /\ DOMAIN e = a /\ DOMAIN place = a
  BY <1>1, <1>3, <1>4, <1>5
<1>9. \A x \in a : e[x] = m.locals[vars[1][x]]
  BY <1>3, <1>5, <1>8
<1>10. \A x \in a : e[x] # Unknown
  <2> SUFFICES ASSUME NEW x \in a PROVE e[x] # Unknown
    OBVIOUS
  <2>1. CoreInv
    BY InitCore
  <2>2. m \in Machine /\ vars[1][x] \in 0 .. MaxLocals - 1
    BY <2>1, <1>8, CoreFacts, LocalPlaced
  <2>3. m.locals[vars[1][x]] \in Val
    BY <2>2, MachineFacts
  <2> QED BY <2>3, <1>9, ValueFacts
<1>11. Sourced(s, todo, need)
  <2>1. KnownOperands(s, todo, need)
    BY <1>6 DEF KnownOperands
  <2>2. KnownArgs(s, todo)
    <3>1. DOMAIN <<>> = {}
      OBVIOUS
    <3> QED BY <3>1, <1>7 DEF KnownArgs
  <2>3. KnownNames(s, todo)
    BY <1>8, <1>10 DEF KnownNames
  <2> QED BY <2>1, <2>2, <2>3, <1>5 DEF Sourced, Labelled
<1>12. Followed(p, m, s, todo, vars)
  <2>1. OperandsAgree(p, m, s)
    BY <1>6 DEF OperandsAgree
  <2>2. ArgsAgree(m, todo)
    <3>1. DOMAIN <<>> = {}
      OBVIOUS
    <3> QED BY <3>1, <1>7 DEF ArgsAgree
  <2>3. NamesAgree(m, s, vars)
    BY <1>8, <1>9 DEF NamesAgree
  <2> QED BY <2>1, <2>2, <2>3, <1>5 DEF Followed
<1>13. Backed(p, m, todo, last, placed)
  <2>1. Faithful(p, m, placed)
    BY <1>6 DEF Faithful
  <2> QED BY <2>1, <1>4, OtherKept DEF Backed
<1> QED BY <1>11, <1>12, <1>13 DEF ValueInv

(* Nothing is read once the function is over or a register was not to be had. *)
LEMMA NextReads ==
  ASSUME Next
  PROVE  ~p.full /\ m.at # Stop
<1>1. ASSUME NEW n, Reads(n) PROVE ~p.full /\ m.at # Stop
  BY <1>1, ReadsFacts
<1>2. CASE Value
  BY <1>2, <1>1 DEF Value, Literal, Identifier, Prefix, Assign, Field, Array, AssignField
<1>3. CASE Operators
  BY <1>3, <1>1 DEF Operators, Operator, EndBinary, Logical, EndLogical, EndPrefix, Index, IdxGet,
                    EndIdxSet, Bind, IdxSet
<1>4. CASE Lists
  BY <1>4, <1>1 DEF Lists, Call, Argument, Comma, EndCall, EndNew, Element, EndArray
<1>5. CASE Statements
  BY <1>5, <1>1 DEF Statements, Statement, Let, Begin, EndEffect, PrintValue, Return, EndLet,
                    EndAssign, EndCompound, EndAssignField, EndCompoundField
<1>6. CASE BlocksOf
  BY <1>6, <1>1 DEF BlocksOf, Branch, Begin, Body, EndIf, Else, ElseIf, EndElse, EndLoop, EndFunction
<1> QED BY <1>2, <1>3, <1>4, <1>5, <1>6 DEF Next

LEMMA NextValues ==
  ASSUME Careful, Steps, Next
  PROVE  ValueInv'
<1>1. CASE Value
  <2>1. ASSUME NEW v \in Literals, Literal(v) PROVE ValueInv'
    BY <2>1, LiteralValues
  <2>2. ASSUME NEW x \in Names, Identifier(x) PROVE ValueInv'
    BY <2>2, IdentifierValues
  <2>3. ASSUME NEW k \in {"paren", "not"}, Prefix(k) PROVE ValueInv'
    BY <2>3, PrefixValues
  <2>4. ASSUME NEW k \in {"assign", "compound"}, NEW x \in Names, Assign(k, x) PROVE ValueInv'
    BY <2>4, AssignValues
  <2>5. ASSUME NEW k \in {"fieldset", "fieldop"}, AssignField(k) PROVE ValueInv'
    BY <2>5, AssignFieldValues
  <2> QED BY <1>1, <2>1, <2>2, <2>3, <2>4, <2>5, FieldValues, ArrayValues DEF Value
<1>2. CASE Operators
  <2>1. ASSUME NEW k \in {"and", "or"}, Logical(k) PROVE ValueInv'
    BY <2>1, LogicalValues
  <2>2. ASSUME NEW op \in 0 .. 1, IdxSet(op) PROVE ValueInv'
    BY <2>2, IdxSetValues
  <2> QED BY <1>2, <2>1, <2>2, OperatorValues, EndBinaryValues, EndLogicalValues, EndPrefixValues,
             IndexValues, IdxGetValues, EndIdxSetValues, BindValues DEF Operators
<1>3. CASE Lists
  <2>1. ASSUME NEW k \in {"call", "method", "fncall", "new"}, Call(k) PROVE ValueInv'
    BY <2>1, CallValues
  <2> QED BY <1>3, <2>1, ArgumentValues, CommaValues, EndCallValues, EndNewValues, ElementValues,
             EndArrayValues DEF Lists
<1>4. CASE Statements
  <2>1. ASSUME NEW k \in {"effect", "print", "return"}, Statement(k) PROVE ValueInv'
    BY <2>1, StatementValues
  <2>2. ASSUME NEW x \in Names, Let(x) PROVE ValueInv'
    BY <2>2, LetValues
  <2> QED BY <1>4, <2>1, <2>2, EndEffectValues, PrintValueValues, ReturnValues, EndLetValues,
             EndAssignValues, EndCompoundValues, EndAssignFieldValues, EndCompoundFieldValues
          DEF Statements
<1>5. CASE BlocksOf
  <2>1. ASSUME NEW k \in {"if", "while"}, Branch(k) PROVE ValueInv'
    BY <2>1, BranchValues
  <2> QED BY <1>5, <2>1, BodyValues, EndIfValues, ElseValues, ElseIfValues, EndElseValues,
             EndLoopValues, EndFunctionValues DEF BlocksOf
<1> QED BY <1>1, <1>2, <1>3, <1>4, <1>5 DEF Next

LEMMA ValueStep ==
  ASSUME Careful, CoreInv, CoreInv', RegInv, RegInv', ValueInv, [Next]_vars_
  PROVE  ValueInv'
<1>1. CASE UNCHANGED vars_
  BY <1>1 DEF vars_, ValueInv, Sourced, Followed, Backed, KnownOperands, KnownArgs, KnownNames,
              OperandsAgree, ArgsAgree, NamesAgree, Faithful, LoadKept, Silent, Labelled, Tested, Dropped
<1>2. CASE p'.full
  BY <1>2 DEF ValueInv
<1>3. CASE Next /\ ~p'.full
  <2>1. Steps
    BY <1>3, NextReads DEF Steps
  <2> QED BY <2>1, <1>3, NextValues
<1> QED BY <1>1, <1>2, <1>3

-----------------------------------------------------------------------------
(* What a reader of the code asks for.                                     *)

LEMMA ValueOperands ==
  ASSUME CoreInv, ValueInv
  PROVE  OperandsKept
<1> SUFFICES ASSUME Following
             PROVE  /\ Len(p.rstack) >= Len(s.vals)
                    /\ \A n \in 0 .. Len(s.vals) - 1 : Agrees(TopReg(p, n), Operand(s, n))
                    /\ \A i \in DOMAIN todo : \A o \in Range(todo[i].params) : Agrees(o.reg, o.val)
  BY DEF OperandsKept
<1>1. ~p.full /\ OperandsAgree(p, m, s) /\ ArgsAgree(m, todo)
  BY DEF Following, ValueInv, Followed
<1>2. PICK n \in Nat : n = Len(s.vals)
  BY CoreFacts
<1>3. PICK h \in Nat : h = Len(p.rstack)
  BY CoreFacts
<1>4. n <= h /\ DOMAIN s.vals = 1 .. n
  BY <1>1, <1>2, <1>3, CoreFacts, SourceFacts
<1>5. ASSUME NEW i \in 0 .. n - 1 PROVE Agrees(TopReg(p, i), Operand(s, i))
  <2>1. n - i \in 1 .. n /\ h - n + (n - i) = h - i
    BY <1>2, <1>3, <1>5
  <2>2. OpReg(p, n, n - i) = TopReg(p, i) /\ Operand(s, i) = s.vals[n - i]
    BY <1>2, <1>3, <2>1 DEF OpReg, TopReg, Operand
  <2>3. s.vals[n - i] = Unknown \/ m.regs[OpReg(p, n, n - i)] = s.vals[n - i]
    BY <1>1, <1>2, <1>4, <2>1 DEF OperandsAgree
  <2> QED BY <2>2, <2>3 DEF Agrees
<1>6. ASSUME NEW i \in DOMAIN todo, NEW o \in Range(todo[i].params) PROVE Agrees(o.reg, o.val)
  <2>1. PICK k \in DOMAIN todo[i].params : o = todo[i].params[k]
    BY <1>6 DEF Range
  <2> QED BY <2>1, <1>1 DEF ArgsAgree, Agrees
<1>7. h >= n
  BY ONLY <1>2, <1>3, <1>4
<1> QED BY <1>2, <1>3, <1>5, <1>6, <1>7

LEMMA ValueCache ==
  ASSUME CoreInv, ValueInv
  PROVE  CacheFaithful
<1> SUFFICES ASSUME Following, NEW i \in DOMAIN vars, NEW x \in DOMAIN vars[i],
                    CachedReg(p, vars[i][x]) # NoReg
             PROVE  m.regs[CachedReg(p, vars[i][x])] = m.locals[vars[i][x]]
  BY DEF CacheFaithful
<1>1. Faithful(p, m, placed) /\ m.at = Run
  BY DEF Following, ValueInv, Backed, Running
<1>2. PICK l : l = vars[i][x]
  OBVIOUS
<1>3. l \in 0 .. MaxLocals - 1
  BY <1>2, LocalPlaced
<1>4. l \in Nat
  BY <1>3, CompileAssumption
<1>5. l < Len(p.cache) /\ CachedReg(p, l) = p.cache[l + 1]
  BY <1>2 DEF CachedReg
<1>6. l + 1 \in DOMAIN p.cache /\ (l + 1) - 1 = l
  BY <1>4, <1>5, CoreFacts, RegStateFacts
<1> QED BY <1>1, <1>2, <1>5, <1>6 DEF Faithful

LEMMA ValueSource ==
  ASSUME CoreInv, ValueInv
  PROVE  SourceAgrees
<1>1. ~p.full => m.at = s.at /\ m.ret = s.ret /\ m.field = s.field
  BY DEF ValueInv, Followed
<1>2. ASSUME Following, NEW i \in DOMAIN vars, NEW x \in DOMAIN vars[i]
      PROVE  m.locals[vars[i][x]] = s.env[i][x]
  <2>1. ~p.full /\ s.at = Run /\ s.at # Stop
    BY <1>2 DEF Following, Running, Run, Stop
  <2>2. NamesAgree(m, s, vars) /\ KnownNames(s, todo)
    BY <2>1 DEF ValueInv, Sourced, Followed
  <2>3. i \in DOMAIN s.env /\ x \in DOMAIN s.env[i]
    <3>1. Reading(s, vars) /\ vars \in Seq(Scope(0 .. MaxLocals - 1))
      BY CoreFacts
    <3>2. s.env \in Seq(Scope(SVal)) /\ Len(s.env) = Len(vars)
      BY <3>1, SourceFacts DEF Reading
    <3> QED BY <1>2, <3>1, <3>2 DEF Reading
  <2>4. s.env[i][x] # Unknown
    BY <2>1, <2>2, <2>3 DEF KnownNames
  <2> QED BY <1>2, <2>2, <2>4 DEF NamesAgree
<1> QED BY <1>1, <1>2 DEF SourceAgrees, Following

(* In the programs Careful leaves, whatever the machine computes is what the *)
(* source says, on the path that runs and on the ones that are skipped.      *)
THEOREM ValuesFollow ==
  ASSUME Careful
  PROVE  Spec => [](CoreInv /\ RegInv /\ ValueInv)
<1>1. Init => CoreInv /\ RegInv /\ ValueInv
  BY InitCore, InitRegs, InitValues
<1>2. CoreInv /\ RegInv /\ ValueInv /\ [Next]_vars_ => (CoreInv /\ RegInv /\ ValueInv)'
  <2> SUFFICES ASSUME CoreInv, RegInv, ValueInv, [Next]_vars_
               PROVE  CoreInv' /\ RegInv' /\ ValueInv'
    OBVIOUS
  <2>1. CoreInv'
    BY CoreStep
  <2>2. RegInv'
    BY <2>1, RegStep
  <2> QED BY <2>1, <2>2, ValueStep
<1> QED BY <1>1, <1>2, PTL DEF Spec

(* An operand or an argument that waits keeps its value until it is used: no *)
(* register is reused, and no store or call changes it, while it is there    *)
(* (regs.c, expr.c).                                                         *)
THEOREM OperandsStay ==
  ASSUME Careful
  PROVE  Spec => []OperandsKept
<1>1. CoreInv /\ RegInv /\ ValueInv => OperandsKept
  BY ValueOperands
<1> QED BY <1>1, ValuesFollow, PTL

(* A variable read from its cached register has the value of its local, after *)
(* any branch, loop, assignment and declaration (expr.c, regs.c).             *)
THEOREM CacheStaysFaithful ==
  ASSUME Careful
  PROVE  Spec => []CacheFaithful
<1>1. CoreInv /\ RegInv /\ ValueInv => CacheFaithful
  BY ValueCache
<1> QED BY <1>1, ValuesFollow, PTL

(* Variables, the field, the value returned and the path taken are those that *)
(* the source prescribes (stmt.c, expr.c).                                    *)
THEOREM FollowsSource ==
  ASSUME Careful
  PROVE  Spec => []SourceAgrees
<1>1. CoreInv /\ RegInv /\ ValueInv => SourceAgrees
  BY ValueSource
<1> QED BY <1>1, ValuesFollow, PTL

=============================================================================
