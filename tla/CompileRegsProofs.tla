------------------------- MODULE CompileRegsProofs -------------------------
(***************************************************************************)
(* For a function of any length, any number of registers, locals and       *)
(* names: whatever waits to be used keeps its register, and no register is *)
(* given back that is not in use.                                          *)
(***************************************************************************)
EXTENDS CompileProofs

-----------------------------------------------------------------------------
(* The inductive invariant.                                                *)

(* The register of an operand, the first of n. *)
OpReg(q, n, v) == q.rstack[Len(q.rstack) - n + v]

(* Registers with an operand or an argument are in use, and only one whose *)
(* value is a local's serves two of them. *)
Alloc(q, n, t) ==
  /\ q.sound
  /\ n <= Len(q.rstack)
  /\ q.pinned \subseteq q.used
  /\ Cached(q) \subseteq q.pinned
  /\ \A v \in 1 .. n : OpReg(q, n, v) \in q.used
  /\ \A i \in DOMAIN t : \A k \in DOMAIN t[i].params : t[i].params[k].reg \in q.used
  /\ \A v, w \in 1 .. n : OpReg(q, n, v) = OpReg(q, n, w) /\ v # w => OpReg(q, n, v) \in Cached(q)
  /\ \A v \in 1 .. n : \A i \in DOMAIN t : \A k \in DOMAIN t[i].params :
       t[i].params[k].reg = OpReg(q, n, v) => OpReg(q, n, v) \in Cached(q)
  /\ \A i, j \in DOMAIN t : \A k \in DOMAIN t[i].params, l \in DOMAIN t[j].params :
       t[i].params[k].reg = t[j].params[l].reg /\ (i # j \/ k # l) =>
         t[i].params[k].reg \in Cached(q)
  /\ \A i \in DOMAIN t : \A k \in DOMAIN t[i].params :
       t[i].params[k].owned => t[i].params[k].reg \notin Cached(q)

(* Constructs that count on the register they have noted. *)
Holders == LogicalKinds \cup {"array", "index", "idxset"}

(* What && and || will forget at their end is no operand's that waits outside, *)
(* and the array that is filled is no local's. *)
Apart(q, n, t, i) ==
  /\ t[i].k \in LogicalKinds =>
       /\ \A v \in 1 .. Upto(t, i) : OpReg(q, n, v) \notin Cached(q)
       /\ \A j \in 1 .. i : \A k \in DOMAIN t[j].params : t[j].params[k].reg \notin Cached(q)
  /\ t[i].k = "array" => OpReg(q, n, Upto(t, i)) \notin Cached(q)

(* The registers that constructs have noted. *)
Noted(q, n, t, i) ==
  /\ t[i].k \in Holders \ {"idxset"} => t[i].reg = OpReg(q, n, Upto(t, i))
  /\ t[i].k = "idxset" => t[i].reg = OpReg(q, n, Upto(t, i) - 1) /\ t[i].x = OpReg(q, n, Upto(t, i))

Regs(q, n, t) == Alloc(q, n, t) /\ \A i \in DOMAIN t : Apart(q, n, t, i) /\ Noted(q, n, t, i)

RegInv == ~p.full => Regs(p, Len(s.vals), todo)

-----------------------------------------------------------------------------
(* What the operations do to registers with operands and arguments.        *)

LEMMA OpRegIn ==
  ASSUME NEW q, NEW n, NEW v, q \in RegState, n \in Nat, n <= Len(q.rstack), v \in 1 .. n
  PROVE  OpReg(q, n, v) \in Reg /\ OpReg(q, n, n) = LastReg(q)
<1>1. Len(q.rstack) - n + v \in 1 .. Len(q.rstack) /\ Len(q.rstack) - n + n = Len(q.rstack)
  BY RegStateFacts
<1> QED BY <1>1, RegStateFacts DEF OpReg, LastReg

(* A register that was free is the operand's alone. *)
LEMMA AllocPush ==
  ASSUME NEW q, NEW n, NEW t, NEW d, NEW r, q \in RegState, n \in Nat, Alloc(q, n, t),
         d \in Reg, d \notin q.used \/ d \in Cached(q), r = PushReg(q, d)
  PROVE  /\ Alloc(r, n + 1, t) /\ Cached(r) = Cached(q)
         /\ \A v \in 1 .. n : OpReg(r, n + 1, v) = OpReg(q, n, v)
         /\ OpReg(r, n + 1, n + 1) = d
<1>1. /\ r \in RegState /\ r.used = q.used \cup {d} /\ r.pinned = q.pinned /\ r.sound = q.sound
      /\ r.cache = q.cache /\ Len(r.rstack) = Len(q.rstack) + 1 /\ LastReg(r) = d
      /\ \A i \in 1 .. Len(q.rstack) : r.rstack[i] = q.rstack[i]
  BY PushRegFacts
<1>2. Cached(r) = Cached(q) /\ Cached(q) \subseteq q.used /\ Len(q.rstack) \in Nat
      /\ n <= Len(q.rstack)
  BY <1>1, RegStateFacts DEF Cached, Alloc
<1>3. ASSUME NEW v \in 1 .. n PROVE OpReg(r, n + 1, v) = OpReg(q, n, v)
  <2>1. /\ Len(r.rstack) - (n + 1) + v = Len(q.rstack) - n + v
        /\ Len(q.rstack) - n + v \in 1 .. Len(q.rstack)
    BY <1>1, <1>2
  <2> QED BY <2>1, <1>1 DEF OpReg
<1>4. OpReg(r, n + 1, n + 1) = d
  <2>1. n + 1 <= Len(r.rstack) /\ n + 1 \in 1 .. n + 1 /\ n + 1 \in Nat
    BY <1>1, <1>2
  <2> QED BY <2>1, <1>1, OpRegIn
<1>5. ASSUME NEW v \in 1 .. n + 1 PROVE v \in 1 .. n \/ v = n + 1
  OBVIOUS
<1>6. \A v \in 1 .. n + 1 : OpReg(r, n + 1, v) = IF v = n + 1 THEN d ELSE OpReg(q, n, v)
  BY <1>3, <1>4, <1>5
<1>7. /\ \A v \in 1 .. n : OpReg(q, n, v) \in q.used
      /\ \A i \in DOMAIN t : \A k \in DOMAIN t[i].params : t[i].params[k].reg \in q.used
      /\ q.sound
  BY DEF Alloc
<1>8. \A v, w \in 1 .. n + 1 :
        OpReg(r, n + 1, v) = OpReg(r, n + 1, w) /\ v # w => OpReg(r, n + 1, v) \in Cached(r)
  <2>1. SUFFICES ASSUME NEW v \in 1 .. n + 1, NEW w \in 1 .. n + 1,
                        OpReg(r, n + 1, v) = OpReg(r, n + 1, w), v # w
                 PROVE  OpReg(r, n + 1, v) \in Cached(r)
    OBVIOUS
  <2>2. CASE v \in 1 .. n /\ w \in 1 .. n
    BY <2>1, <2>2, <1>2, <1>3 DEF Alloc
  <2>3. CASE v = n + 1 \/ w = n + 1
    BY <2>1, <2>3, <1>2, <1>3, <1>4, <1>5, <1>7
  <2> QED BY <2>2, <2>3, <1>5
<1>9. \A v \in 1 .. n + 1 : \A i \in DOMAIN t : \A k \in DOMAIN t[i].params :
        t[i].params[k].reg = OpReg(r, n + 1, v) => OpReg(r, n + 1, v) \in Cached(r)
  <2>1. SUFFICES ASSUME NEW v \in 1 .. n + 1, NEW i \in DOMAIN t, NEW k \in DOMAIN t[i].params,
                        t[i].params[k].reg = OpReg(r, n + 1, v)
                 PROVE  OpReg(r, n + 1, v) \in Cached(r)
    OBVIOUS
  <2>2. CASE v \in 1 .. n
    BY <2>1, <2>2, <1>2, <1>3 DEF Alloc
  <2>3. CASE v = n + 1
    BY <2>1, <2>3, <1>2, <1>4, <1>7
  <2> QED BY <2>2, <2>3, <1>5
<1>10. \A v \in 1 .. n + 1 : OpReg(r, n + 1, v) \in r.used
  BY <1>1, <1>6, <1>7
<1>11. Alloc(r, n + 1, t)
  BY <1>1, <1>2, <1>7, <1>8, <1>9, <1>10 DEF Alloc
<1> QED BY <1>2, <1>3, <1>4, <1>11

LEMMA AllocPop ==
  ASSUME NEW q, NEW n, NEW t, NEW r, q \in RegState, n \in Nat \ {0}, Alloc(q, n, t),
         r = PopReg(q)
  PROVE  /\ Alloc(r, n - 1, t) /\ Cached(r) = Cached(q) /\ n - 1 \in Nat
         /\ \A v \in 1 .. n - 1 : OpReg(r, n - 1, v) = OpReg(q, n, v)
<1>1. Len(q.rstack) \in Nat /\ n <= Len(q.rstack) /\ Len(q.rstack) > 0
  BY RegStateFacts DEF Alloc
<1>2. /\ r \in RegState /\ Len(r.rstack) = Len(q.rstack) - 1
      /\ \A i \in 1 .. Len(q.rstack) - 1 : r.rstack[i] = q.rstack[i]
      /\ r.pinned = q.pinned /\ r.cache = q.cache /\ r.full = q.full
      /\ LastReg(q) \in q.pinned => r.used = q.used /\ r.sound = q.sound
      /\ LastReg(q) \notin q.pinned =>
           r.used = q.used \ {LastReg(q)} /\ (q.sound /\ LastReg(q) \in q.used => r.sound)
  BY <1>1, PopRegFacts
<1>3. Cached(r) = Cached(q)
  BY <1>2 DEF Cached
<1>4. n \in 1 .. n /\ OpReg(q, n, n) = LastReg(q)
  BY <1>1, OpRegIn
<1>5. ASSUME NEW v \in 1 .. n - 1
      PROVE  OpReg(r, n - 1, v) = OpReg(q, n, v) /\ v \in 1 .. n /\ v # n
  <2>1. /\ Len(r.rstack) - (n - 1) + v = Len(q.rstack) - n + v
        /\ Len(q.rstack) - n + v \in 1 .. Len(q.rstack) - 1
        /\ v \in 1 .. n /\ v # n
    <3>1. PICK k : k = Len(q.rstack)
      OBVIOUS
    <3>2. k \in Nat /\ n \in Nat \ {0} /\ n <= k /\ Len(r.rstack) = k - 1 /\ v \in 1 .. n - 1
      BY <3>1, <1>1, <1>2, <1>5
    <3>3. k - 1 - (n - 1) + v = k - n + v /\ k - n + v \in 1 .. k - 1 /\ v \in 1 .. n /\ v # n
      BY ONLY <3>2
    <3> QED BY ONLY <3>1, <3>2, <3>3
  <2> QED BY <2>1, <1>2 DEF OpReg
<1>6. q.sound /\ LastReg(q) \in q.used /\ (LastReg(q) \in Cached(q) => LastReg(q) \in q.pinned)
      /\ q.pinned \subseteq q.used /\ Cached(q) \subseteq q.pinned
  BY <1>4 DEF Alloc
<1>7. r.sound /\ r.pinned \subseteq r.used /\ n - 1 <= Len(r.rstack)
  <2>1. n - 1 <= Len(r.rstack)
    BY <1>1, <1>2
  <2>2. CASE LastReg(q) \in q.pinned
    BY <1>2, <1>6, <2>1, <2>2
  <2>3. CASE LastReg(q) \notin q.pinned
    BY <1>2, <1>6, <2>1, <2>3
  <2> QED BY <2>2, <2>3
<1>8. ASSUME NEW d \in q.used, d # LastReg(q) \/ LastReg(q) \in Cached(q) PROVE d \in r.used
  BY <1>2, <1>6, <1>8
<1>9. \A v \in 1 .. n - 1 : OpReg(r, n - 1, v) \in r.used
  <2>1. SUFFICES ASSUME NEW v \in 1 .. n - 1 PROVE OpReg(q, n, v) \in r.used
    BY <1>5
  <2>2. v \in 1 .. n /\ v # n
    BY <1>5
  <2>3. OpReg(q, n, v) \in q.used /\ (OpReg(q, n, v) = OpReg(q, n, n) => OpReg(q, n, v) \in Cached(q))
    BY <1>4, <2>2 DEF Alloc
  <2> QED BY <2>3, <1>4, <1>8
<1>10. \A i \in DOMAIN t : \A k \in DOMAIN t[i].params : t[i].params[k].reg \in r.used
  <2>1. SUFFICES ASSUME NEW i \in DOMAIN t, NEW k \in DOMAIN t[i].params
                 PROVE  t[i].params[k].reg \in r.used
    OBVIOUS
  <2>2. /\ t[i].params[k].reg \in q.used
        /\ t[i].params[k].reg = OpReg(q, n, n) => OpReg(q, n, n) \in Cached(q)
    BY <1>4 DEF Alloc
  <2> QED BY <2>2, <1>4, <1>8
<1>11. \A v, w \in 1 .. n - 1 : OpReg(r, n - 1, v) = OpReg(r, n - 1, w) /\ v # w =>
         OpReg(r, n - 1, v) \in Cached(r)
  BY <1>3, <1>5 DEF Alloc
<1>12. \A v \in 1 .. n - 1 : \A i \in DOMAIN t : \A k \in DOMAIN t[i].params :
         t[i].params[k].reg = OpReg(r, n - 1, v) => OpReg(r, n - 1, v) \in Cached(r)
  BY <1>3, <1>5 DEF Alloc
<1>13. Alloc(r, n - 1, t)
  BY <1>2, <1>3, <1>6, <1>7, <1>9, <1>10, <1>11, <1>12 DEF Alloc
<1> QED BY <1>3, <1>5, <1>13

LEMMA AllocSwap ==
  ASSUME NEW q, NEW n, NEW t, NEW r, q \in RegState, n \in Nat, n > 1, Alloc(q, n, t),
         r = SwapTop(q)
  PROVE  /\ Alloc(r, n, t) /\ Cached(r) = Cached(q)
         /\ \A v \in 1 .. n - 2 : OpReg(r, n, v) = OpReg(q, n, v)
         /\ OpReg(r, n, n - 1) = OpReg(q, n, n) /\ OpReg(r, n, n) = OpReg(q, n, n - 1)
<1>1. Len(q.rstack) \in Nat /\ n <= Len(q.rstack) /\ Len(q.rstack) > 1
  BY RegStateFacts DEF Alloc
<1>2. /\ r \in RegState /\ Len(r.rstack) = Len(q.rstack)
      /\ r.used = q.used /\ r.pinned = q.pinned /\ r.cache = q.cache /\ r.full = q.full
      /\ r.sound = q.sound
      /\ \A i \in 1 .. Len(q.rstack) :
           r.rstack[i] = IF i = Len(q.rstack) THEN q.rstack[Len(q.rstack) - 1]
                         ELSE IF i = Len(q.rstack) - 1 THEN q.rstack[Len(q.rstack)]
                         ELSE q.rstack[i]
  BY <1>1, SwapTopFacts
<1>3. Cached(r) = Cached(q)
  BY <1>2 DEF Cached
<1>4. PICK f \in [1 .. n -> 1 .. n] :
        /\ \A v \in 1 .. n : f[v] = IF v = n THEN n - 1 ELSE IF v = n - 1 THEN n ELSE v
  <2>1. [v \in 1 .. n |-> IF v = n THEN n - 1 ELSE IF v = n - 1 THEN n ELSE v]
          \in [1 .. n -> 1 .. n]
    OBVIOUS
  <2> QED BY <2>1
<1>5. ASSUME NEW v \in 1 .. n PROVE OpReg(r, n, v) = OpReg(q, n, f[v])
  <2>0. PICK h \in Nat : h = Len(q.rstack)
    BY <1>1
  <2>1. PICK i : i = Len(q.rstack) - n + v
    OBVIOUS
  <2>2. /\ i \in 1 .. Len(q.rstack) /\ (v = n <=> i = Len(q.rstack))
        /\ (v = n - 1 <=> i = Len(q.rstack) - 1)
    <3>1. i = h - n + v /\ n <= h
      BY <1>1, <2>0, <2>1
    <3>2. i \in 1 .. h /\ (v = n <=> i = h) /\ (v = n - 1 <=> i = h - 1)
      BY <3>1
    <3> QED BY <3>2, <2>0
  <2>3. OpReg(r, n, v) = r.rstack[i]
    BY <1>2, <2>1 DEF OpReg
  <2>4. CASE v = n
    <3>1. Len(q.rstack) - n + (n - 1) = Len(q.rstack) - 1
      BY <1>1
    <3>2. r.rstack[i] = q.rstack[Len(q.rstack) - 1]
      BY ONLY <1>2, <2>2, <2>4
    <3>3. f[v] = n - 1
      BY ONLY <1>4, <1>5, <2>4
    <3> QED BY ONLY <2>3, <3>1, <3>2, <3>3 DEF OpReg
  <2>5. CASE v # n /\ v = n - 1
    <3>1. Len(q.rstack) - n + n = Len(q.rstack)
      BY <1>1
    <3>2. r.rstack[i] = q.rstack[Len(q.rstack)]
      BY ONLY <1>2, <2>2, <2>5
    <3>3. f[v] = n
      BY ONLY <1>4, <1>5, <2>5
    <3> QED BY ONLY <2>3, <3>1, <3>2, <3>3 DEF OpReg
  <2>6. CASE v # n /\ v # n - 1
    BY <1>2, <1>4, <2>1, <2>2, <2>3, <2>6 DEF OpReg
  <2> QED BY <2>4, <2>5, <2>6
<1>6. \A v, w \in 1 .. n : v # w => f[v] # f[w]
  BY <1>4
<1>7. \A v \in 1 .. n : OpReg(r, n, v) \in r.used
  BY <1>2, <1>5 DEF Alloc
<1>8. \A v, w \in 1 .. n :
        OpReg(r, n, v) = OpReg(r, n, w) /\ v # w => OpReg(r, n, v) \in Cached(r)
  BY <1>3, <1>5, <1>6 DEF Alloc
<1>9. \A v \in 1 .. n : \A i \in DOMAIN t : \A k \in DOMAIN t[i].params :
        t[i].params[k].reg = OpReg(r, n, v) => OpReg(r, n, v) \in Cached(r)
  BY <1>3, <1>5 DEF Alloc
<1>10. Alloc(r, n, t)
  BY <1>1, <1>2, <1>3, <1>7, <1>8, <1>9 DEF Alloc
<1>11. \A v \in 1 .. n - 2 : v \in 1 .. n /\ f[v] = v
  BY <1>4
<1>12. n - 1 \in 1 .. n /\ n \in 1 .. n /\ f[n - 1] = n /\ f[n] = n - 1
  BY <1>4
<1> QED BY <1>3, <1>5, <1>10, <1>11, <1>12

(* The first operand is left on the stack for the rest of the statement. *)
LEMMA AllocLeave ==
  ASSUME NEW q, NEW n, NEW t, q \in RegState, n \in Nat \ {0}, Alloc(q, n, t)
  PROVE  /\ Alloc(q, n - 1, t) /\ \A v \in 1 .. n - 1 : OpReg(q, n - 1, v) = OpReg(q, n, v + 1)
<1>1. Len(q.rstack) \in Nat /\ n <= Len(q.rstack) /\ n - 1 <= Len(q.rstack)
  BY RegStateFacts DEF Alloc
<1>2. ASSUME NEW v \in 1 .. n - 1
      PROVE  OpReg(q, n - 1, v) = OpReg(q, n, v + 1) /\ v + 1 \in 1 .. n
  <2>1. PICK h \in Nat : h = Len(q.rstack)
    BY <1>1
  <2>2. h - (n - 1) + v = h - n + (v + 1) /\ v + 1 \in 1 .. n
    OBVIOUS
  <2> QED BY <2>1, <2>2 DEF OpReg
<1>3. \A v, w \in 1 .. n - 1 : v # w => v + 1 # w + 1
  OBVIOUS
<1>4. \A v \in 1 .. n - 1 : OpReg(q, n - 1, v) \in q.used
  BY <1>2 DEF Alloc
<1>5. \A v, w \in 1 .. n - 1 :
        OpReg(q, n - 1, v) = OpReg(q, n - 1, w) /\ v # w => OpReg(q, n - 1, v) \in Cached(q)
  BY <1>2, <1>3 DEF Alloc
<1>6. \A v \in 1 .. n - 1 : \A i \in DOMAIN t : \A k \in DOMAIN t[i].params :
        t[i].params[k].reg = OpReg(q, n - 1, v) => OpReg(q, n - 1, v) \in Cached(q)
  BY <1>2 DEF Alloc
<1> QED BY <1>1, <1>2, <1>4, <1>5, <1>6 DEF Alloc

(* Arguments that are not new. *)
SameArgs(t, u) ==
  \A i \in DOMAIN u : u[i].params # <<>> => i \in DOMAIN t /\ u[i].params = t[i].params

LEMMA NoArgs == DOMAIN <<>> = {}
OBVIOUS

LEMMA AllocTodo ==
  ASSUME NEW q, NEW n, NEW t, Alloc(q, n, t), NEW u, SameArgs(t, u)
  PROVE  Alloc(q, n, u)
<1>1. ASSUME NEW i \in DOMAIN u, NEW k \in DOMAIN u[i].params
      PROVE  i \in DOMAIN t /\ k \in DOMAIN t[i].params /\ u[i].params[k] = t[i].params[k]
  BY NoArgs DEF SameArgs
<1>2. /\ \A i \in DOMAIN u : \A k \in DOMAIN u[i].params : u[i].params[k].reg \in q.used
      /\ \A v \in 1 .. n : \A i \in DOMAIN u : \A k \in DOMAIN u[i].params :
           u[i].params[k].reg = OpReg(q, n, v) => OpReg(q, n, v) \in Cached(q)
      /\ \A i \in DOMAIN u : \A k \in DOMAIN u[i].params :
           u[i].params[k].owned => u[i].params[k].reg \notin Cached(q)
  BY <1>1 DEF Alloc
<1>3. \A i, j \in DOMAIN u : \A k \in DOMAIN u[i].params, l \in DOMAIN u[j].params :
        u[i].params[k].reg = u[j].params[l].reg /\ (i # j \/ k # l) =>
          u[i].params[k].reg \in Cached(q)
  BY <1>1 DEF Alloc
<1> QED BY <1>2, <1>3 DEF Alloc

(* The last operand becomes an argument of a construct. *)
Takes(q, n, t, r, u, i0, h) ==
  /\ q \in RegState /\ n \in Nat \ {0} /\ Alloc(q, n, t) /\ r = TakeTop(q)
  /\ i0 \in DOMAIN u /\ h \in Nat /\ DOMAIN u[i0].params = 1 .. h + 1
  /\ u[i0].params[h + 1].reg = LastReg(q)
  /\ u[i0].params[h + 1].owned => LastReg(q) \notin q.pinned
  /\ \A k \in 1 .. h : /\ i0 \in DOMAIN t /\ k \in DOMAIN t[i0].params
                       /\ u[i0].params[k] = t[i0].params[k]
  /\ \A i \in DOMAIN u \ {i0} : u[i].params # <<>> =>
                                 i \in DOMAIN t /\ u[i].params = t[i].params

LEMMA AllocTake ==
  ASSUME NEW q, NEW n, NEW t, NEW r, NEW u, NEW i0, NEW h, Takes(q, n, t, r, u, i0, h)
  PROVE  /\ Alloc(r, n - 1, u) /\ Cached(r) = Cached(q)
         /\ \A v \in 1 .. n - 1 : OpReg(r, n - 1, v) = OpReg(q, n, v)
<1> USE DEF Takes
<1>1. Len(q.rstack) \in Nat /\ n <= Len(q.rstack) /\ Len(q.rstack) > 0
  BY RegStateFacts DEF Alloc
<1>2. /\ r \in RegState /\ Len(r.rstack) = Len(q.rstack) - 1
      /\ \A i \in 1 .. Len(q.rstack) - 1 : r.rstack[i] = q.rstack[i]
      /\ r.used = q.used /\ r.pinned = q.pinned \cup {LastReg(q)} /\ r.cache = q.cache
      /\ r.full = q.full /\ r.sound = q.sound
  BY <1>1, TakeTopFacts
<1>3. Cached(r) = Cached(q)
  BY <1>2 DEF Cached
<1>4. n \in 1 .. n /\ OpReg(q, n, n) = LastReg(q)
  BY <1>1, OpRegIn
<1>5. ASSUME NEW v \in 1 .. n - 1
      PROVE  OpReg(r, n - 1, v) = OpReg(q, n, v) /\ v \in 1 .. n /\ v # n
  <2>1. PICK g \in Nat : g = Len(q.rstack)
    BY <1>1
  <2>2. g - 1 - (n - 1) + v = g - n + v /\ g - n + v \in 1 .. g - 1 /\ v \in 1 .. n /\ v # n
    BY <1>1, <2>1
  <2>3. Len(r.rstack) = g - 1 /\ r.rstack[g - n + v] = q.rstack[g - n + v]
    BY <1>2, <2>1, <2>2
  <2>4. OpReg(r, n - 1, v) = r.rstack[g - n + v]
    BY <2>2, <2>3 DEF OpReg
  <2> QED BY <2>1, <2>2, <2>3, <2>4 DEF OpReg
<1>6. OpReg(q, n, n) \in q.used
  BY <1>4 DEF Alloc
(* Every argument is one that was there or the operand. *)
<1>7. ASSUME NEW i \in DOMAIN u, NEW k \in DOMAIN u[i].params, ~(i = i0 /\ k = h + 1)
      PROVE  i \in DOMAIN t /\ k \in DOMAIN t[i].params /\ u[i].params[k] = t[i].params[k]
  <2>1. CASE i = i0
    <3>1. k \in 1 .. h
      BY <1>7, <2>1
    <3> QED BY <2>1, <3>1
  <2>2. CASE i # i0
    BY <2>2, NoArgs
  <2> QED BY <2>1, <2>2
<1>8. \A i \in DOMAIN u : \A k \in DOMAIN u[i].params : u[i].params[k].reg \in r.used
  <2>1. SUFFICES ASSUME NEW i \in DOMAIN u, NEW k \in DOMAIN u[i].params
                 PROVE  u[i].params[k].reg \in q.used
    BY <1>2
  <2>2. CASE i = i0 /\ k = h + 1
    BY <1>4, <1>6, <2>2
  <2>3. CASE ~(i = i0 /\ k = h + 1)
    BY <1>7, <2>3 DEF Alloc
  <2> QED BY <2>2, <2>3
<1>9. \A v \in 1 .. n - 1 : \A i \in DOMAIN u : \A k \in DOMAIN u[i].params :
        u[i].params[k].reg = OpReg(r, n - 1, v) => OpReg(r, n - 1, v) \in Cached(r)
  <2>1. SUFFICES ASSUME NEW v \in 1 .. n - 1, NEW i \in DOMAIN u, NEW k \in DOMAIN u[i].params,
                        u[i].params[k].reg = OpReg(q, n, v)
                 PROVE  OpReg(q, n, v) \in Cached(q)
    BY <1>3, <1>5
  <2>2. v \in 1 .. n /\ v # n
    BY <1>5
  <2>3. CASE i = i0 /\ k = h + 1
    BY <1>4, <2>1, <2>2, <2>3 DEF Alloc
  <2>4. CASE ~(i = i0 /\ k = h + 1)
    BY <1>7, <2>1, <2>2, <2>4 DEF Alloc
  <2> QED BY <2>3, <2>4
<1>10. \A i, j \in DOMAIN u : \A k \in DOMAIN u[i].params, l \in DOMAIN u[j].params :
         u[i].params[k].reg = u[j].params[l].reg /\ (i # j \/ k # l) =>
           u[i].params[k].reg \in Cached(r)
  <2>1. SUFFICES ASSUME NEW i \in DOMAIN u, NEW j \in DOMAIN u,
                        NEW k \in DOMAIN u[i].params, NEW l \in DOMAIN u[j].params,
                        u[i].params[k].reg = u[j].params[l].reg, i # j \/ k # l
                 PROVE  u[i].params[k].reg \in Cached(q)
    BY <1>3
  <2>2. CASE i = i0 /\ k = h + 1
    BY <1>4, <1>7, <2>1, <2>2 DEF Alloc
  <2>3. CASE j = i0 /\ l = h + 1
    BY <1>4, <1>7, <2>1, <2>3 DEF Alloc
  <2>4. CASE ~(i = i0 /\ k = h + 1) /\ ~(j = i0 /\ l = h + 1)
    BY <1>7, <2>1, <2>4 DEF Alloc
  <2> QED BY <2>2, <2>3, <2>4
<1>11. \A i \in DOMAIN u : \A k \in DOMAIN u[i].params :
         u[i].params[k].owned => u[i].params[k].reg \notin Cached(r)
  <2>1. SUFFICES ASSUME NEW i \in DOMAIN u, NEW k \in DOMAIN u[i].params, u[i].params[k].owned
                 PROVE  u[i].params[k].reg \notin Cached(q)
    BY <1>3
  <2>2. CASE i = i0 /\ k = h + 1
    <3>1. LastReg(q) \notin q.pinned /\ u[i].params[k].reg = LastReg(q)
      BY <2>1, <2>2, Zenon
    <3> QED BY <3>1 DEF Alloc
  <2>3. CASE ~(i = i0 /\ k = h + 1)
    BY <1>7, <2>1, <2>3 DEF Alloc
  <2> QED BY <2>2, <2>3
<1>12. /\ \A v \in 1 .. n - 1 : OpReg(r, n - 1, v) \in r.used
       /\ \A v, w \in 1 .. n - 1 : OpReg(r, n - 1, v) = OpReg(r, n - 1, w) /\ v # w =>
            OpReg(r, n - 1, v) \in Cached(r)
  BY <1>2, <1>3, <1>5 DEF Alloc
<1>13. r.sound /\ n - 1 <= Len(r.rstack) /\ r.pinned \subseteq r.used /\ Cached(r) \subseteq r.pinned
  BY <1>1, <1>2, <1>3, <1>4, <1>6 DEF Alloc
<1> QED BY <1>3, <1>5, <1>8, <1>9, <1>10, <1>11, <1>12, <1>13 DEF Alloc

(* Registers of arguments that are no longer needed are freed. *)
Shrunk(q, r, ps) ==
  /\ r \in RegState /\ r.rstack = q.rstack /\ r.cache = q.cache /\ r.sound
  /\ r.pinned \subseteq r.used /\ Cached(q) \subseteq r.pinned
  /\ \A d \in q.used : d \in r.used \/ \E k \in DOMAIN ps : ps[k].reg = d

Frees(q, n, t, u, r) ==
  /\ q \in RegState /\ n \in Nat /\ t \in Seq(ItemSet) /\ Alloc(q, n, t) /\ t # <<>>
  /\ SameArgs(t, u) /\ Len(t) \notin DOMAIN u /\ Shrunk(q, r, t[Len(t)].params)

LEMMA AllocShrink ==
  ASSUME NEW q, NEW n, NEW t, NEW u, NEW r, Frees(q, n, t, u, r)
  PROVE  /\ Alloc(r, n, u) /\ Cached(r) = Cached(q)
         /\ \A v \in 1 .. n : OpReg(r, n, v) = OpReg(q, n, v)
<1>0. /\ q \in RegState /\ n \in Nat /\ t \in Seq(ItemSet) /\ Alloc(q, n, t) /\ t # <<>>
      /\ SameArgs(t, u) /\ Len(t) \notin DOMAIN u /\ Shrunk(q, r, t[Len(t)].params)
  BY DEF Frees
<1>1. Cached(r) = Cached(q) /\ \A v \in 1 .. n : OpReg(r, n, v) = OpReg(q, n, v)
  BY <1>0 DEF Cached, OpReg, Shrunk
<1>2. Len(t) \in DOMAIN t
  BY <1>0, LenProperties, EmptySeq
<1>3. ASSUME NEW d \in q.used, d \notin r.used
      PROVE  /\ d \notin Cached(q)
             /\ \E k \in DOMAIN t[Len(t)].params : t[Len(t)].params[k].reg = d
  BY <1>0, <1>3 DEF Shrunk
<1>4. Alloc(q, n, u)
  BY <1>0, AllocTodo
<1>5. ASSUME NEW i \in DOMAIN u, NEW k \in DOMAIN u[i].params
      PROVE  /\ i \in DOMAIN t /\ k \in DOMAIN t[i].params /\ u[i].params[k] = t[i].params[k]
             /\ i # Len(t)
  BY <1>0, NoArgs DEF SameArgs
<1>6. \A v \in 1 .. n : OpReg(r, n, v) \in r.used
  <2>1. SUFFICES ASSUME NEW v \in 1 .. n, OpReg(q, n, v) \notin r.used PROVE FALSE
    BY <1>1
  <2>2. OpReg(q, n, v) \in q.used
    BY <1>4 DEF Alloc
  <2>3. PICK k \in DOMAIN t[Len(t)].params : t[Len(t)].params[k].reg = OpReg(q, n, v)
    BY <1>3, <2>1, <2>2
  <2>4. OpReg(q, n, v) \notin Cached(q)
    BY <1>3, <2>1, <2>2
  <2> QED BY <1>0, <1>2, <2>3, <2>4 DEF Alloc
<1>7. \A i \in DOMAIN u : \A k \in DOMAIN u[i].params : u[i].params[k].reg \in r.used
  <2>1. SUFFICES ASSUME NEW i \in DOMAIN u, NEW k \in DOMAIN u[i].params,
                        u[i].params[k].reg \notin r.used
                 PROVE  FALSE
    OBVIOUS
  <2>2. u[i].params[k].reg \in q.used
    BY <1>4 DEF Alloc
  <2>3. PICK l \in DOMAIN t[Len(t)].params : t[Len(t)].params[l].reg = u[i].params[k].reg
    BY <1>3, <2>1, <2>2
  <2>4. u[i].params[k].reg \notin Cached(q)
    BY <1>3, <2>1, <2>2
  <2> QED BY <1>0, <1>2, <1>5, <2>3, <2>4 DEF Alloc
<1>8. r.rstack = q.rstack /\ r.sound /\ r.pinned \subseteq r.used /\ Cached(r) \subseteq r.pinned
  BY <1>0, <1>1 DEF Shrunk
<1> QED BY <1>0, <1>1, <1>4, <1>6, <1>7, <1>8 DEF Alloc

LEMMA AllocRelease ==
  ASSUME NEW q, NEW n, NEW t, NEW u, NEW r, q \in RegState, n \in Nat, t \in Seq(ItemSet),
         Alloc(q, n, t), t # <<>>, SameArgs(t, u), Len(t) \notin DOMAIN u,
         r = ReleaseAll(q, t[Len(t)].params)
  PROVE  /\ r \in RegState /\ Alloc(r, n, u) /\ Cached(r) = Cached(q)
         /\ \A v \in 1 .. n : OpReg(r, n, v) = OpReg(q, n, v)
<1>1. PICK F : F = OwnedRegs(t[Len(t)].params)
  OBVIOUS
<1>2. /\ r \in RegState /\ r.rstack = q.rstack /\ r.cache = q.cache /\ r.sound = q.sound
      /\ r.used = q.used \ F /\ r.pinned = q.pinned \ F
  BY <1>1, ReleaseFacts
<1>3. ASSUME NEW d \in F
      PROVE  \E k \in DOMAIN t[Len(t)].params : t[Len(t)].params[k].reg = d
  BY <1>1 DEF OwnedRegs, Range
<1>4. F \cap Cached(q) = {}
  <2>1. SUFFICES ASSUME NEW d \in F PROVE d \notin Cached(q)
    OBVIOUS
  <2>2. PICK o \in Range(t[Len(t)].params) : d = o.reg /\ o.owned
    BY <1>1 DEF OwnedRegs
  <2>3. Len(t) \in DOMAIN t
    BY LenProperties, EmptySeq
  <2>4. PICK k \in DOMAIN t[Len(t)].params : t[Len(t)].params[k] = o
    BY DEF Range
  <2> QED BY <2>2, <2>3, <2>4 DEF Alloc
<1>5. Cached(q) \subseteq r.pinned /\ r.sound /\ r.pinned \subseteq r.used
  BY <1>2, <1>4 DEF Alloc
<1>6. Shrunk(q, r, t[Len(t)].params)
  BY <1>2, <1>3, <1>5 DEF Shrunk
<1>9. Frees(q, n, t, u, r)
  BY <1>6 DEF Frees
<1>7. r \in RegState
  BY <1>2
<1>8. /\ Alloc(r, n, u) /\ Cached(r) = Cached(q)
      /\ \A v \in 1 .. n : OpReg(r, n, v) = OpReg(q, n, v)
  BY <1>9, AllocShrink
<1> QED BY <1>7, <1>8

LEMMA AllocReleaseTwice ==
  ASSUME NEW q, NEW n, NEW t, NEW u, NEW r, q \in RegState, n \in Nat, t \in Seq(ItemSet),
         Alloc(q, n, t), t # <<>>, SameArgs(t, u), Len(t) \notin DOMAIN u,
         r = ReleaseAll(SetAllUnused(q, t[Len(t)].params), t[Len(t)].params)
  PROVE  /\ r \in RegState /\ Alloc(r, n, u) /\ Cached(r) = Cached(q)
         /\ \A v \in 1 .. n : OpReg(r, n, v) = OpReg(q, n, v)
<1>1. PICK ps : ps = t[Len(t)].params
  OBVIOUS
<1>2. PICK f : f = SetAllUnused(q, ps)
  OBVIOUS
<1>3. PICK R : R = {o.reg : o \in Range(ps)}
  OBVIOUS
<1>4. PICK O : O = OwnedRegs(ps)
  OBVIOUS
<1>5. Len(t) \in DOMAIN t /\ \A o \in Range(ps) : \E k \in DOMAIN ps : ps[k] = o
  BY LenProperties, EmptySeq DEF Range
<1>6. \A i, j \in DOMAIN ps : ps[i].reg = ps[j].reg /\ ps[i].reg \notin q.pinned => i = j
  BY <1>1, <1>5 DEF Alloc
<1>7. q.sound /\ R \ q.pinned \subseteq q.used
  BY <1>1, <1>3, <1>5 DEF Alloc
<1>8. /\ f \in RegState /\ f.rstack = q.rstack /\ f.cache = q.cache
      /\ f.pinned = q.pinned /\ f.used = q.used \ (R \ q.pinned) /\ f.sound
  <2>1. /\ f \in RegState /\ f.rstack = q.rstack /\ f.cache = q.cache
        /\ f.pinned = q.pinned /\ f.used = q.used \ ({o.reg : o \in Range(ps)} \ q.pinned)
        /\ /\ q.sound
           /\ {o.reg : o \in Range(ps)} \ q.pinned \subseteq q.used
           /\ \A i, j \in DOMAIN ps : ps[i].reg = ps[j].reg /\ ps[i].reg \notin q.pinned => i = j
           => f.sound
    BY <1>2, SetAllUnusedFacts
  <2> QED BY <2>1, <1>3, <1>6, <1>7
<1>9. r = ReleaseAll(f, ps)
  BY <1>1, <1>2
<1>10. /\ r \in RegState /\ r.rstack = f.rstack /\ r.cache = f.cache /\ r.sound = f.sound
       /\ r.used = f.used \ O /\ r.pinned = f.pinned \ O
  <2>1. f \in RegState
    BY <1>8
  <2>2. /\ r \in RegState /\ r.rstack = f.rstack /\ r.cache = f.cache /\ r.sound = f.sound
        /\ r.used = f.used \ OwnedRegs(ps) /\ r.pinned = f.pinned \ OwnedRegs(ps)
    BY <2>1, <1>9, ReleaseFacts
  <2> QED BY <2>2, <1>4
<1>11. PICK F : F = (R \ q.pinned) \cup O
  OBVIOUS
<1>12. O \subseteq R
  BY <1>3, <1>4 DEF OwnedRegs
<1>13. F \cap Cached(q) = {}
  <2>1. O \cap Cached(q) = {}
    <3>1. SUFFICES ASSUME NEW d \in O PROVE d \notin Cached(q)
      OBVIOUS
    <3>2. PICK o \in Range(ps) : d = o.reg /\ o.owned
      BY <1>4 DEF OwnedRegs
    <3> QED BY <3>2, <1>1, <1>5 DEF Alloc
  <2> QED BY <2>1, <1>11 DEF Alloc
<1>14. /\ r.rstack = q.rstack /\ r.cache = q.cache /\ r.sound /\ r.used = q.used \ F
       /\ r.pinned \subseteq q.pinned \ F
  BY <1>8, <1>10, <1>11
<1>15. Cached(q) \subseteq r.pinned /\ r.pinned \subseteq r.used
  <2>1. Cached(q) \subseteq q.pinned /\ q.pinned \subseteq q.used
    BY DEF Alloc
  <2>2. r.pinned = q.pinned \ O /\ r.used = (q.used \ (R \ q.pinned)) \ O
    BY <1>8, <1>10
  <2>3. O \cap Cached(q) = {}
    BY <1>11, <1>13
  <2> QED BY <2>1, <2>2, <2>3
<1>16. ASSUME NEW d \in R PROVE \E k \in DOMAIN ps : ps[k].reg = d
  BY <1>3, <1>5
<1>17. Shrunk(q, r, ps)
  <2>1. \A d \in q.used : d \in r.used \/ \E k \in DOMAIN ps : ps[k].reg = d
    BY <1>11, <1>12, <1>14, <1>16
  <2> QED BY <2>1, <1>1, <1>10, <1>14, <1>15 DEF Shrunk
<1>18. Frees(q, n, t, u, r)
  BY <1>1, <1>17 DEF Frees
<1> QED BY <1>10, <1>18, AllocShrink

-----------------------------------------------------------------------------
(* Other registers become cached, or no longer are.                        *)

Recached(q, n, t, r) ==
  /\ q \in RegState /\ r \in RegState /\ n \in Nat /\ Alloc(q, n, t)
  /\ r.rstack = q.rstack /\ r.used = q.used /\ r.sound = q.sound
  /\ r.pinned \subseteq r.used /\ Cached(r) \subseteq r.pinned
  /\ \A d \in Cached(q) \ Cached(r) :
       /\ \A v \in 1 .. n - 1 : OpReg(q, n, v) # d
       /\ \A i \in DOMAIN t : \A k \in DOMAIN t[i].params : t[i].params[k].reg # d
  /\ \A d \in Cached(r) \ Cached(q) :
       \A i \in DOMAIN t : \A k \in DOMAIN t[i].params : t[i].params[k].owned => t[i].params[k].reg # d

LEMMA AllocCache ==
  ASSUME NEW q, NEW n, NEW t, NEW r, Recached(q, n, t, r)
  PROVE  Alloc(r, n, t) /\ \A v \in 1 .. n : OpReg(r, n, v) = OpReg(q, n, v)
<1>0. /\ q \in RegState /\ r \in RegState /\ n \in Nat /\ Alloc(q, n, t)
      /\ r.rstack = q.rstack /\ r.used = q.used /\ r.sound = q.sound
      /\ r.pinned \subseteq r.used /\ Cached(r) \subseteq r.pinned
  BY DEF Recached
<1>1. \A d \in Cached(q) \ Cached(r) :
        /\ \A v \in 1 .. n - 1 : OpReg(q, n, v) # d
        /\ \A i \in DOMAIN t : \A k \in DOMAIN t[i].params : t[i].params[k].reg # d
  BY DEF Recached
<1>2. \A d \in Cached(r) \ Cached(q) :
        \A i \in DOMAIN t : \A k \in DOMAIN t[i].params :
          t[i].params[k].owned => t[i].params[k].reg # d
  BY DEF Recached
<1>3. \A v : OpReg(r, n, v) = OpReg(q, n, v)
  BY <1>0 DEF OpReg
<1>4. ASSUME NEW v \in 1 .. n, NEW w \in 1 .. n, OpReg(q, n, v) = OpReg(q, n, w), v # w
      PROVE  OpReg(q, n, v) \in Cached(r)
  <2>1. OpReg(q, n, v) \in Cached(q)
    BY <1>0, <1>4 DEF Alloc
  <2>2. v \in 1 .. n - 1 \/ w \in 1 .. n - 1
    BY <1>0, <1>4
  <2> QED BY <2>1, <2>2, <1>1, <1>4
<1>5. ASSUME NEW v \in 1 .. n, NEW i \in DOMAIN t, NEW k \in DOMAIN t[i].params,
             t[i].params[k].reg = OpReg(q, n, v)
      PROVE  OpReg(q, n, v) \in Cached(r)
  <2>1. OpReg(q, n, v) \in Cached(q)
    BY <1>0, <1>5 DEF Alloc
  <2> QED BY <2>1, <1>1, <1>5
<1>6. ASSUME NEW i \in DOMAIN t, NEW j \in DOMAIN t, NEW k \in DOMAIN t[i].params,
             NEW l \in DOMAIN t[j].params,
             t[i].params[k].reg = t[j].params[l].reg, i # j \/ k # l
      PROVE  t[i].params[k].reg \in Cached(r)
  <2>1. t[i].params[k].reg \in Cached(q)
    BY <1>0, <1>6 DEF Alloc
  <2> QED BY <2>1, <1>1
<1>7. ASSUME NEW i \in DOMAIN t, NEW k \in DOMAIN t[i].params, t[i].params[k].owned
      PROVE  t[i].params[k].reg \notin Cached(r)
  <2>1. t[i].params[k].reg \notin Cached(q)
    BY <1>0, <1>7 DEF Alloc
  <2> QED BY <2>1, <1>2, <1>7
<1>8. /\ q.sound /\ n <= Len(q.rstack)
      /\ \A v \in 1 .. n : OpReg(q, n, v) \in q.used
      /\ \A i \in DOMAIN t : \A k \in DOMAIN t[i].params : t[i].params[k].reg \in q.used
  BY <1>0 DEF Alloc
<1> QED BY <1>0, <1>3, <1>4, <1>5, <1>6, <1>7, <1>8 DEF Alloc

(* && and || may forget what no operand and no argument that waits is. *)
Forgets(q, n, t) ==
  /\ \A v \in 1 .. n - 1 : OpReg(q, n, v) \notin Cached(q)
  /\ \A i \in DOMAIN t : \A k \in DOMAIN t[i].params : t[i].params[k].reg \notin Cached(q)

LEMMA AllocFlush ==
  ASSUME NEW q, NEW n, NEW t, NEW r, q \in RegState, n \in Nat, Alloc(q, n, t),
         r = FlushCached(q), Forgets(q, n, t)
  PROVE  /\ r \in RegState /\ r.full = q.full /\ Alloc(r, n, t) /\ Cached(r) = {}
         /\ \A v \in 1 .. n : OpReg(r, n, v) = OpReg(q, n, v)
<1>1. /\ r \in RegState /\ r.rstack = q.rstack /\ r.used = q.used /\ r.full = q.full
      /\ r.pinned = {} /\ r.sound = q.sound /\ Cached(r) = {}
  BY FlushFacts DEF Cached
<1>2. Recached(q, n, t, r)
  BY <1>1 DEF Recached, Forgets
<1> QED BY <1>1, <1>2, AllocCache

(* A store that the guard of Careful allows. *)
Stored(q, n, t, l, r) ==
  /\ n \in Nat \ {0} /\ Alloc(q, n, t) /\ Stores(q, l, LastReg(q), r)
  /\ l < Len(q.cache) =>
       /\ Sharers(q, CachedReg(q, l)) \subseteq {l + 1}
       /\ \/ CachedReg(q, l) = LastReg(q)
          \/ /\ \A v \in 1 .. n - 1 : OpReg(q, n, v) # CachedReg(q, l)
             /\ \A i \in DOMAIN t : \A k \in DOMAIN t[i].params :
                  t[i].params[k].reg # CachedReg(q, l)

LEMMA AllocStore ==
  ASSUME NEW q, NEW n, NEW t, NEW l, NEW r, Stored(q, n, t, l, r)
  PROVE  /\ Alloc(r, n, t) /\ \A v \in 1 .. n : OpReg(r, n, v) = OpReg(q, n, v)
         /\ Cached(r) \subseteq Cached(q) \cup {OpReg(q, n, n)}
<1>0. /\ n \in Nat \ {0} /\ Alloc(q, n, t) /\ Stores(q, l, LastReg(q), r)
      /\ q \in RegState /\ l \in Nat /\ LastReg(q) \in Reg
  BY DEF Stored, Stores
<1>1. PICK d : d = LastReg(q)
  OBVIOUS
<1>2. Stores(q, l, d, r)
  BY <1>0, <1>1
<1>3. /\ r \in RegState /\ r.rstack = q.rstack /\ r.used = q.used /\ r.full = q.full
      /\ r.sound = q.sound
      /\ ~(l < Len(q.cache)) => r = q
      /\ l < Len(q.cache) =>
           /\ l + 1 \in DOMAIN q.cache
           /\ \A k \in DOMAIN q.cache : r.cache[k] = IF k = l + 1 THEN d ELSE q.cache[k]
           /\ r.pinned = (q.pinned \ {q.cache[l + 1]}) \cup {d}
           /\ Len(r.cache) = Len(q.cache)
  BY <1>2, CacheStoredFacts
<1>4. d = OpReg(q, n, n) /\ d \in q.used
  <2>1. n \in Nat /\ n \in 1 .. n /\ n <= Len(q.rstack)
    BY <1>0 DEF Alloc
  <2>2. d = OpReg(q, n, n)
    BY <2>1, <1>0, <1>1, OpRegIn
  <2> QED BY <2>1, <2>2, <1>0 DEF Alloc
<1>5. CASE ~(l < Len(q.cache))
  BY <1>0, <1>3, <1>5
<1>6. CASE l < Len(q.cache)
  <2>1. PICK old : old = q.cache[l + 1]
    OBVIOUS
  <2>2. old = CachedReg(q, l)
    BY <2>1, <1>6 DEF CachedReg
  <2>3. /\ Sharers(q, old) \subseteq {l + 1}
        /\ \/ old = d
           \/ /\ \A v \in 1 .. n - 1 : OpReg(q, n, v) # old
              /\ \A i \in DOMAIN t : \A k \in DOMAIN t[i].params : t[i].params[k].reg # old
    BY <2>2, <1>1, <1>6 DEF Stored
  <2>4. DOMAIN r.cache = DOMAIN q.cache
    BY <1>0, <1>3, <1>6, RegStateFacts
  <2>5. Cached(r) \subseteq Cached(q) \cup {d}
    BY <2>4, <1>3, <1>6 DEF Cached
  <2>6. Cached(q) \ Cached(r) \subseteq {old} /\ (d # NoReg => d \in Cached(r))
    BY <2>1, <2>4, <1>3, <1>6 DEF Cached
  <2>7. Cached(r) \subseteq r.pinned
    <3>1. SUFFICES ASSUME NEW k \in DOMAIN r.cache, r.cache[k] # NoReg PROVE r.cache[k] \in r.pinned
      BY DEF Cached
    <3>2. CASE k = l + 1
      BY <3>2, <2>4, <1>3, <1>6
    <3>3. CASE k # l + 1
      <4>1. r.cache[k] = q.cache[k] /\ q.cache[k] # NoReg
        BY <3>1, <3>3, <2>4, <1>3, <1>6
      <4>2. q.cache[k] \in q.pinned
        BY <4>1, <2>4, <1>0 DEF Alloc, Cached
      <4>3. q.cache[k] # old
        BY <4>1, <3>3, <2>3, <2>4 DEF Sharers
      <4> QED BY <4>1, <4>2, <4>3, <2>1, <1>3, <1>6
    <3> QED BY <3>2, <3>3
  <2>8. r.pinned \subseteq r.used
    BY <1>0, <1>3, <1>4, <1>6 DEF Alloc
  <2>9. ASSUME NEW c \in Cached(q) \ Cached(r)
        PROVE  /\ \A v \in 1 .. n - 1 : OpReg(q, n, v) # c
               /\ \A i \in DOMAIN t : \A k \in DOMAIN t[i].params : t[i].params[k].reg # c
    <3>1. c = old /\ c # NoReg
      BY <2>6 DEF Cached
    <3>2. old # d
      BY <3>1, <2>6, <2>9
    <3> QED BY <3>1, <3>2, <2>3
  <2>10. ASSUME NEW c \in Cached(r) \ Cached(q), NEW i \in DOMAIN t, NEW k \in DOMAIN t[i].params,
                t[i].params[k].owned
         PROVE  t[i].params[k].reg # c
    <3>1. c = d
      BY <2>5, <2>10
    <3>2. n \in 1 .. n
      BY <1>0
    <3>3. t[i].params[k].reg = OpReg(q, n, n) => OpReg(q, n, n) \in Cached(q)
      BY <3>2, <1>0 DEF Alloc
    <3> QED BY <3>1, <3>3, <2>10, <1>4
  <2>11. Recached(q, n, t, r)
    BY <2>7, <2>8, <2>9, <2>10, <1>0, <1>3 DEF Recached
  <2> QED BY <2>5, <2>11, <1>4, AllocCache
<1> QED BY <1>5, <1>6

-----------------------------------------------------------------------------
(* What a step leaves of the registers of the constructs that wait.        *)

Shares(t, u, c) ==
  /\ t \in Seq(ItemSet) /\ u \in Seq(ItemSet) /\ c \in Nat /\ c <= Len(t) /\ c <= Len(u)
  /\ \A i \in 1 .. c : u[i] = t[i]

(* The first b operands stay where they are, and what becomes cached is none of them. *)
Moved(q, n, r, k, b) ==
  /\ \A v \in 1 .. b : OpReg(r, k, v) = OpReg(q, n, v)
  /\ \A d \in Cached(r) : d \in Cached(q) \/ d \notin q.used \/ (b < n /\ d = OpReg(q, n, n))

Holding(r, k, u, i) == u[i].k \notin Holders \/ (Apart(r, k, u, i) /\ Noted(r, k, u, i))

Follows(q, n, t, r, k, u, c, b) ==
  /\ Regs(q, n, t) /\ Shares(t, u, c) /\ n \in Nat /\ b = Upto(t, c) /\ b <= n
  /\ Alloc(r, k, u) /\ Moved(q, n, r, k, b)
  /\ \A i \in c + 1 .. Len(u) : Holding(r, k, u, i)

LEMMA PrefixSums ==
  ASSUME NEW t, NEW u, NEW c, Shares(t, u, c)
  PROVE  \A i \in 0 .. c : /\ Upto(u, i) = Upto(t, i) /\ Upto(t, i) <= Upto(t, c)
                           /\ Upto(t, i) \in Nat
<1>0. /\ t \in Seq(ItemSet) /\ u \in Seq(ItemSet) /\ c \in 0 .. Len(t) /\ c <= Len(u) /\ c \in Nat
      /\ \A i \in 1 .. c : Held(u[i]) = Held(t[i]) /\ u[i].k = t[i].k
      /\ Len(t) \in Nat
  BY DEF Shares
<1>1. \A i \in 0 .. c : Upto(u, i) = Upto(t, i)
  BY <1>0, UptoSame
<1>2. \A i \in 1 .. c : Weights(t)[i] \in Nat
  BY <1>0, WeightType
<1>3. \A i \in 0 .. c : Upto(t, i) <= Upto(t, c)
  BY <1>0, <1>2, TotalMonotonic DEF Upto
<1>4. \A i \in 0 .. c : Upto(t, i) \in Nat
  BY <1>0, WeightType
<1> QED BY <1>1, <1>3, <1>4

LEMMA RegsFollow ==
  ASSUME NEW q, NEW n, NEW t, NEW r, NEW k, NEW u, NEW c, NEW b, Follows(q, n, t, r, k, u, c, b)
  PROVE  Regs(r, k, u)
<1>0. /\ Regs(q, n, t) /\ Shares(t, u, c) /\ n \in Nat /\ b = Upto(t, c) /\ b <= n
      /\ Alloc(r, k, u) /\ Moved(q, n, r, k, b) /\ Alloc(q, n, t)
      /\ \A i \in c + 1 .. Len(u) : Holding(r, k, u, i)
  BY DEF Follows, Regs
<1>1. /\ t \in Seq(ItemSet) /\ u \in Seq(ItemSet) /\ c \in Nat /\ c <= Len(t) /\ c <= Len(u)
      /\ \A i \in 1 .. c : u[i] = t[i] /\ i \in DOMAIN t
      /\ DOMAIN u = 1 .. Len(u) /\ Len(u) \in Nat
  BY <1>0 DEF Shares
<1>2. \A i \in 0 .. c : Upto(u, i) = Upto(t, i) /\ Upto(t, i) <= b /\ Upto(t, i) \in Nat
  BY <1>0, PrefixSums
<1>3. ASSUME NEW v \in 1 .. b PROVE OpReg(r, k, v) = OpReg(q, n, v)
  BY <1>0 DEF Moved
<1>b. b \in Nat
  BY <1>2, <1>1, <1>0
<1>4. ASSUME NEW v \in 1 .. b, OpReg(q, n, v) \notin Cached(q) PROVE OpReg(q, n, v) \notin Cached(r)
  <2>1. v \in 1 .. n /\ (b < n => n \in 1 .. n /\ v # n)
    BY <1>0, <1>b
  <2>2. OpReg(q, n, v) \in q.used
    BY <2>1, <1>0 DEF Alloc
  <2>3. b < n => OpReg(q, n, v) # OpReg(q, n, n)
    BY <2>1, <1>0, <1>4 DEF Alloc
  <2> QED BY <2>2, <2>3, <1>0, <1>4 DEF Moved
<1>5. ASSUME NEW j \in 1 .. c, NEW l \in DOMAIN t[j].params, t[j].params[l].reg \notin Cached(q)
      PROVE  t[j].params[l].reg \notin Cached(r)
  <2>1. j \in DOMAIN t
    BY <1>1
  <2>2. t[j].params[l].reg \in q.used
    BY <2>1, <1>0 DEF Alloc
  <2>3. b < n => t[j].params[l].reg # OpReg(q, n, n)
    <3>1. b < n => n \in 1 .. n
      BY <1>0, <1>b
    <3> QED BY <3>1, <2>1, <1>0, <1>5 DEF Alloc
  <2> QED BY <2>2, <2>3, <1>0, <1>5 DEF Moved
<1>6. ASSUME NEW i \in 1 .. c PROVE Apart(r, k, u, i) /\ Noted(r, k, u, i)
  <2>1. Apart(q, n, t, i) /\ Noted(q, n, t, i) /\ u[i] = t[i]
    BY <1>0, <1>1 DEF Regs
  <2>2. Upto(u, i) = Upto(t, i) /\ Upto(t, i) <= b /\ Upto(t, i) \in Nat
    BY <1>2
  <2>3. \A v \in 1 .. Upto(t, i) : v \in 1 .. b
    BY <2>2, <1>b
  <2>4. Upto(t, i) = Upto(t, i - 1) + Held(t[i]) /\ i - 1 \in 0 .. c /\ Held(t[i]) \in 0 .. 2
    <3>1. i \in 1 .. Len(t) /\ t[i] \in ItemSet
      BY <1>1
    <3> QED BY <3>1, <1>1, UptoStep, HeldType
  <2>5. Upto(t, i - 1) \in Nat
    BY <2>4, <1>2
  <2>6. t[i].k \in Holders \ {"idxset"} => Upto(t, i) \in 1 .. b
    BY <2>2, <2>4, <2>5, <1>b, HeldFacts DEF Holders
  <2>7. t[i].k = "idxset" => Upto(t, i) \in 1 .. b /\ Upto(t, i) - 1 \in 1 .. b
    BY <2>2, <2>4, <2>5, <1>b, HeldFacts
  <2>8. Noted(r, k, u, i)
    BY <2>1, <2>2, <2>6, <2>7, <1>3 DEF Noted
  <2>9. t[i].k = "array" => t[i].k \in Holders \ {"idxset"}
    BY DEF Holders
  <2>10. u[i].k \in LogicalKinds =>
           \A v \in 1 .. Upto(u, i) : OpReg(r, k, v) \notin Cached(r)
    BY <2>1, <2>2, <2>3, <1>3, <1>4 DEF Apart
  <2>11. u[i].k \in LogicalKinds =>
           \A j \in 1 .. i : \A l \in DOMAIN u[j].params : u[j].params[l].reg \notin Cached(r)
    <3>1. ASSUME t[i].k \in LogicalKinds, NEW j \in 1 .. i, NEW l \in DOMAIN u[j].params
          PROVE  u[j].params[l].reg \notin Cached(r)
      <4>1. j \in 1 .. c /\ u[j] = t[j]
        BY <1>1
      <4> QED BY <4>1, <3>1, <2>1, <1>5 DEF Apart
    <3> QED BY <3>1, <2>1
  <2>12. u[i].k = "array" => OpReg(r, k, Upto(u, i)) \notin Cached(r)
    BY <2>1, <2>2, <2>6, <2>9, <1>3, <1>4 DEF Apart
  <2> QED BY <2>8, <2>10, <2>11, <2>12 DEF Apart
<1>7. ASSUME NEW i \in c + 1 .. Len(u) PROVE Apart(r, k, u, i) /\ Noted(r, k, u, i)
  <2>1. CASE u[i].k \notin Holders
    BY <2>1 DEF Apart, Noted, Holders
  <2> QED BY <2>1, <1>0 DEF Holding
<1>8. \A i \in DOMAIN u : i \in 1 .. c \/ i \in c + 1 .. Len(u)
  BY <1>1
<1> QED BY <1>0, <1>6, <1>7, <1>8 DEF Regs

LEMMA ArgsOnly ==
  ASSUME NEW t, NEW u, NEW c, Shares(t, u, c), \A i \in c + 1 .. Len(u) : u[i].params = <<>>
  PROVE  SameArgs(t, u)
<1>1. /\ DOMAIN u = 1 .. Len(u) /\ Len(u) \in Nat /\ c \in Nat
      /\ \A i \in 1 .. c : u[i] = t[i] /\ i \in DOMAIN t
  BY DEF Shares
<1>2. \A i \in DOMAIN u : i \in 1 .. c \/ i \in c + 1 .. Len(u)
  BY <1>1
<1> QED BY <1>1, <1>2 DEF SameArgs

(* The operands of the constructs that wait: of all, and of all but the innermost. *)
LEMMA Waiting ==
  ASSUME CoreInv
  PROVE  /\ Upto(todo, Len(todo)) = Len(s.vals) - Ready(need)
         /\ Upto(todo, Len(todo) - 1) = Len(s.vals) - Ready(need) - Held(Top)
         /\ Upto(todo, Len(todo)) \in Nat /\ Upto(todo, Len(todo) - 1) \in Nat
         /\ Upto(todo, Len(todo)) <= Len(s.vals) /\ Upto(todo, Len(todo) - 1) <= Len(s.vals)
         /\ Len(s.vals) \in Nat
<1>1. /\ todo \in Seq(ItemSet) /\ Len(todo) \in Nat \ {0} /\ Top = todo[Len(todo)]
      /\ Len(s.vals) \in Nat /\ Held(Top) \in 0 .. 2
      /\ Len(s.vals) = Upto(todo, Len(todo)) + Ready(need)
  BY CoreFacts
<1>2. Upto(todo, Len(todo)) \in Nat /\ Upto(todo, Len(todo) - 1) \in Nat
  BY <1>1, WeightType
<1>3. Upto(todo, Len(todo)) = Upto(todo, Len(todo) - 1) + Held(Top)
  BY <1>1, UptoStep
<1> QED BY <1>1, <1>2, <1>3, ReadyFacts

(* After a step: what has happened to the b operands of the first c constructs. *)
Draws(c, b, k) ==
  /\ CoreInv /\ CoreInv' /\ RegInv /\ ~p.full
  /\ Shares(todo, todo', c) /\ b = Upto(todo, c) /\ b <= Len(s.vals)
  /\ k = Len(s'.vals)
  /\ ~p'.full => Alloc(p', k, todo') /\ Moved(p, Len(s.vals), p', k, b)

LEMMA DrawStep ==
  ASSUME NEW c, NEW b, NEW k, Draws(c, b, k),
         ~p'.full => \A i \in c + 1 .. Len(todo') : Holding(p', k, todo', i)
  PROVE  RegInv'
<1>1. /\ CoreInv /\ RegInv /\ ~p.full /\ Shares(todo, todo', c) /\ b = Upto(todo, c)
      /\ b <= Len(s.vals) /\ k = Len(s'.vals)
      /\ ~p'.full => Alloc(p', k, todo') /\ Moved(p, Len(s.vals), p', k, b)
  BY DEF Draws
<1>2. Len(s.vals) \in Nat
  BY <1>1, CoreFacts
<1>3. PICK n : n = Len(s.vals)
  OBVIOUS
<1>4. PICK q : q = p
  OBVIOUS
<1>5. PICK r : r = p'
  OBVIOUS
<1>6. PICK t : t = todo
  OBVIOUS
<1>7. PICK u : u = todo'
  OBVIOUS
<1>8. ASSUME ~p'.full PROVE Follows(q, n, t, r, k, u, c, b)
  BY <1>1, <1>2, <1>3, <1>4, <1>5, <1>6, <1>7, <1>8 DEF Follows, RegInv
<1>9. ASSUME ~p'.full PROVE Regs(r, k, u)
  BY <1>8, <1>9, RegsFollow
<1> QED BY <1>9, <1>1, <1>5, <1>7 DEF RegInv

(* A step that leaves todo alone. *)
SameDraw(n, k) ==
  ~p'.full => Alloc(p', k, todo) /\ Moved(p, n, p', k, n - Ready(need))

LEMMA SameRegs ==
  ASSUME CoreInv, CoreInv', RegInv, ~p.full, UNCHANGED todo, NEW n, n = Len(s.vals),
         NEW k, k = n - Ready(need) + Ready(need'), SameDraw(n, k)
  PROVE  RegInv'
<1>1. PICK h : h = Len(todo)
  OBVIOUS
<1>2. Shares(todo, todo', h)
  BY <1>1, CoreFacts DEF Shares
<1>3. PICK b : b = Upto(todo, h)
  OBVIOUS
<1>4. b = n - Ready(need) /\ b <= Len(s.vals) /\ b \in Nat
  BY <1>1, <1>3, Waiting
<1>5. Len(s'.vals) = b + Ready(need')
  <2>1. Len(s'.vals) = Upto(todo', Len(todo')) + Ready(need')
    BY DEF CoreInv, ShapeInv
  <2> QED BY <2>1, <1>1, <1>3
<1>6. Draws(h, b, k)
  BY <1>2, <1>3, <1>4, <1>5 DEF Draws, SameDraw
<1>7. h + 1 .. Len(todo') = {}
  BY <1>1, CoreFacts
<1> QED BY <1>6, <1>7, DrawStep

(* A step that ends the innermost construct. *)
LEMMA BelowFacts ==
  ASSUME CoreInv, Top.k # "func"
  PROVE  /\ Shares(todo, Below, Len(todo) - 1) /\ Len(Below) = Len(todo) - 1
         /\ SameArgs(todo, Below) /\ Len(todo) \notin DOMAIN Below
         /\ Len(todo) - 1 \in Nat \ {0}
<1>1. PICK h : h = Len(todo)
  OBVIOUS
<1>2. Ends(vars, placed, todo, h, Below)
  BY <1>1, CoreFacts DEF Ends, Below
<1>3. PICK u : u = Below
  OBVIOUS
<1>4. Ends(vars, placed, todo, h, u)
  BY <1>2, <1>3
<1>5. /\ Shape(u, vars, placed) /\ Len(u) = h - 1 /\ h - 1 \in Nat \ {0}
      /\ \A i \in 1 .. h - 1 : u[i] = todo[i]
  BY <1>4, PopShape
<1>6. u \in Seq(ItemSet) /\ DOMAIN u = 1 .. h - 1
  BY <1>5 DEF Shape
<1>7. Shares(todo, u, h - 1)
  BY <1>1, <1>5, <1>6, CoreFacts DEF Shares
<1>8. (h - 1) + 1 .. Len(u) = {}
  BY <1>5
<1>9. SameArgs(todo, u)
  BY <1>7, <1>8, ArgsOnly
<1> QED BY <1>1, <1>3, <1>5, <1>6, <1>7, <1>9

PopDraw(n, k) ==
  ~p'.full => /\ Alloc(p', k, todo) \/ Alloc(p', k, todo')
              /\ Moved(p, n, p', k, n - Ready(need) - Held(Top))

LEMMA PopRegs ==
  ASSUME CoreInv, CoreInv', RegInv, ~p.full, todo' = Below, Top.k # "func",
         NEW n, n = Len(s.vals), NEW k, k = n - Ready(need) - Held(Top) + Ready(need'),
         PopDraw(n, k)
  PROVE  RegInv'
<1>1. PICK h : h = Len(todo) - 1
  OBVIOUS
<1>2. Shares(todo, todo', h) /\ Len(todo') = h /\ SameArgs(todo, todo') /\ h \in Nat
  BY <1>1, BelowFacts
<1>3. PICK b : b = Upto(todo, h)
  OBVIOUS
<1>4. b = n - Ready(need) - Held(Top) /\ b <= Len(s.vals) /\ b \in Nat
  BY <1>1, <1>3, Waiting
<1>5. Len(s'.vals) = b + Ready(need')
  <2>1. Len(s'.vals) = Upto(todo', Len(todo')) + Ready(need')
    BY DEF CoreInv, ShapeInv
  <2>2. Upto(todo', h) = Upto(todo, h)
    BY <1>2, PrefixSums
  <2> QED BY <2>1, <2>2, <1>2, <1>3
<1>6. ~p'.full => Alloc(p', k, todo')
  BY <1>2, AllocTodo DEF PopDraw
<1>7. Draws(h, b, k)
  BY <1>2, <1>3, <1>4, <1>5, <1>6 DEF Draws, PopDraw
<1>8. h + 1 .. Len(todo') = {}
  BY <1>2
<1> QED BY <1>7, <1>8, DrawStep

(* A construct that begins with the registers that it counts on. *)
Settled(o, r, k) ==
  /\ o.k \in Holders \ {"idxset"} => o.reg = OpReg(r, k, k)
  /\ o.k = "idxset" => o.reg = OpReg(r, k, k - 1) /\ o.x = OpReg(r, k, k)
  /\ o.k = "array" => OpReg(r, k, k) \notin Cached(r)
  /\ o.k \in LogicalKinds => Cached(r) = {}

LEMMA SettledHolds ==
  ASSUME NEW o, NEW r, NEW k, NEW u, NEW i, Settled(o, r, k), u[i] = o, Upto(u, i) = k
  PROVE  Holding(r, k, u, i)
BY DEF Settled, Holding, Apart, Noted

LEMMA PlainHolds ==
  /\ \A r, k, u, i : u[i].k \notin Holders => Holding(r, k, u, i)
  /\ \A r, k, o : o.k \notin Holders => Settled(o, r, k)
  /\ "expr" \notin Holders /\ Item("expr").k = "expr" /\ Item("expr").params = <<>>
  /\ Item("expr") \in ItemSet
<1>1. "expr" \notin Holders /\ "expr" \in Kinds
  BY DEF Holders, LogicalKinds, Kinds
<1>2. \A r, k, o : o.k \notin Holders => Settled(o, r, k)
  BY DEF Settled, Holders
<1>3. \A r, k, u, i : u[i].k \notin Holders => Holding(r, k, u, i)
  BY DEF Holding
<1> QED BY <1>1, <1>2, <1>3, ItemFacts

(* A step that changes the innermost construct. *)
SwapDraw(n, k, o) ==
  ~p'.full => /\ (Alloc(p', k, todo) /\ o.params = Top.params) \/ Alloc(p', k, todo')
              /\ Moved(p, n, p', k, n - Ready(need) - Held(Top))

LEMMA SwapRegs ==
  ASSUME CoreInv, CoreInv', RegInv, ~p.full, NEW o, o \in ItemSet, o.k = Top.k,
         Notes(o, vars, placed), todo' = Append(Below, o), Top.k \notin Holders,
         NEW n, n = Len(s.vals),
         NEW k, k = n - Ready(need) - Held(Top) + Held(o) + Ready(need'), SwapDraw(n, k, o)
  PROVE  RegInv'
<1>1. PICK h : h = Len(todo)
  OBVIOUS
<1>2. Changes(vars, placed, todo, h, o, todo')
  BY <1>1, CoreFacts DEF Changes, Below
<1>3. PICK u : u = todo'
  OBVIOUS
<1>4. Changes(vars, placed, todo, h, o, u)
  BY <1>2, <1>3
<1>5. /\ Shape(u, vars, placed) /\ Len(u) = h /\ u[h] = o /\ h \in Nat \ {0}
      /\ \A i \in 1 .. h - 1 : u[i] = todo[i]
      /\ Upto(u, h) + Held(todo[h]) = Upto(todo, h) + Held(o)
  BY <1>4, SwapShape
<1>6. u \in Seq(ItemSet) /\ DOMAIN u = 1 .. h
  BY <1>5 DEF Shape
<1>0. todo \in Seq(ItemSet) /\ Len(todo) = h /\ DOMAIN todo = 1 .. h
  <2>1. todo \in Seq(ItemSet)
    BY CoreFacts
  <2> QED BY <1>1, <2>1
<1>7. Shares(todo, todo', h - 1)
  <2>1. Shares(todo, u, h - 1)
    BY <1>0, <1>5, <1>6 DEF Shares
  <2> QED BY <2>1, <1>3
<1>8. PICK b : b = Upto(todo, h - 1)
  OBVIOUS
<1>9. b = n - Ready(need) - Held(Top) /\ b <= Len(s.vals) /\ b \in Nat
  BY <1>1, <1>8, Waiting
<1>10. Upto(todo, h) = n - Ready(need) /\ Upto(todo, h) \in Nat /\ todo[h] = Top
  BY <1>1, Waiting, CoreFacts
<1>11. Len(s'.vals) = Upto(u, h) + Ready(need')
  BY <1>3, <1>5 DEF CoreInv, ShapeInv
<1>12. Upto(u, h) \in Nat /\ Held(o) \in 0 .. 2 /\ Held(Top) \in 0 .. 2 /\ n \in Nat
  <2>1. Held(Top) \in 0 .. 2 /\ n \in Nat
    BY CoreFacts
  <2>2. o \in ItemSet /\ h \in 0 .. Len(u)
    BY <1>5, <1>6
  <2>3. Upto(u, h) \in Nat
    BY <2>2, <1>6, WeightType
  <2> QED BY <2>1, <2>2, <2>3, HeldType
<1>13. k = Len(s'.vals)
  <2>1. Ready(need) \in 0 .. 1 /\ Ready(need') \in 0 .. 1
    BY ReadyFacts
  <2>2. PICK x : x = Upto(u, h)
    OBVIOUS
  <2>3. PICK a : a = Held(Top)
    OBVIOUS
  <2>4. PICK c : c = Held(o)
    OBVIOUS
  <2>5. PICK r : r = Ready(need)
    OBVIOUS
  <2>6. PICK q : q = Ready(need')
    OBVIOUS
  <2>7. Upto(u, h) + Held(Top) = Upto(todo, h) + Held(o)
    BY <1>5, <1>10
  <2>8. x + a = (n - r) + c
    BY <2>2, <2>3, <2>4, <2>5, <2>7, <1>10
  <2>9. Len(s'.vals) = x + q
    BY <2>2, <2>6, <1>11
  <2>10. k = n - r - a + c + q
    BY <2>3, <2>4, <2>5, <2>6
  <2>11. x \in Nat /\ a \in Nat /\ c \in Nat /\ r \in Nat /\ q \in Nat /\ n \in Nat
    BY <2>1, <2>2, <2>3, <2>4, <2>5, <2>6, <1>12
  <2>12. k = x + q
    BY <2>8, <2>10, <2>11
  <2> QED BY <2>9, <2>12
<1>14. ASSUME o.params = Top.params PROVE SameArgs(todo, todo')
  <2>1. ASSUME NEW i \in DOMAIN u
        PROVE  i \in DOMAIN todo /\ u[i].params = todo[i].params
    <3>1. i \in 1 .. h
      BY <2>1, <1>6
    <3>2. i \in DOMAIN todo
      BY <3>1, <1>0
    <3>3. CASE i = h
      BY <3>2, <3>3, <1>5, <1>10, <1>14
    <3>4. CASE i \in 1 .. h - 1
      BY <3>2, <3>4, <1>5
    <3> QED BY <3>1, <3>3, <3>4, <1>5
  <2> QED BY <2>1, <1>3 DEF SameArgs
<1>15. ~p'.full => Alloc(p', k, todo')
  BY <1>14, AllocTodo DEF SwapDraw
<1>16. Draws(h - 1, b, k)
  BY <1>7, <1>8, <1>9, <1>13, <1>15 DEF Draws, SwapDraw
<1>17. \A i \in (h - 1) + 1 .. Len(todo') : todo'[i].k \notin Holders
  <2>1. \A i \in (h - 1) + 1 .. Len(todo') : i = h
    BY <1>3, <1>5
  <2> QED BY <2>1, <1>3, <1>5
<1>18. \A i \in (h - 1) + 1 .. Len(todo') : Holding(p', k, todo', i)
  BY <1>17, PlainHolds
<1> QED BY <1>16, <1>18, DrawStep

(* A step that begins the next expression of the innermost construct. *)
PushDraw(n, k) ==
  ~p'.full => Alloc(p', k, todo) /\ Moved(p, n, p', k, n - Ready(need))

LEMMA PushRegs ==
  ASSUME CoreInv, CoreInv', RegInv, ~p.full, todo' = Append(todo, Item("expr")),
         Top.k \in ExprReaders,
         NEW n, n = Len(s.vals), NEW k, k = n - Ready(need) + Ready(need'), PushDraw(n, k)
  PROVE  RegInv'
<1>1. PICK h : h = Len(todo)
  OBVIOUS
<1>2. PICK o : o = Item("expr")
  OBVIOUS
<1>3. PICK u : u = todo'
  OBVIOUS
<1>4. o \in ItemSet /\ o.k = "expr" /\ o.params = <<>> /\ Held(o) = 0 /\ Notes(o, vars, placed)
  <2>1. "expr" \in Kinds /\ "expr" \notin {"let", "assign", "compound"}
    BY DEF Kinds
  <2>2. /\ Item("expr") \in ItemSet /\ Item("expr").k = "expr" /\ Item("expr").params = <<>>
        /\ Item("expr").op = 0 /\ Notes(Item("expr"), vars, placed)
    BY <2>1, ItemFacts
  <2> QED BY <2>2, <1>2, HeldFacts
<1>5. Grows(vars, placed, todo, h, o, u)
  <2>1. Nests(Top.k, "expr")
    BY DEF Nests
  <2> QED BY <2>1, <1>1, <1>2, <1>3, <1>4, CoreFacts DEF Grows
<1>6. /\ Shape(u, vars, placed) /\ Len(u) = h + 1 /\ u[h + 1] = o
      /\ \A i \in 1 .. h : u[i] = todo[i]
      /\ Upto(u, h + 1) = Upto(todo, h) + Held(o)
  BY <1>5, PushShape
<1>7. Shares(todo, todo', h)
  BY <1>1, <1>3, <1>6, CoreFacts DEF Shares, Shape
<1>8. PICK b : b = Upto(todo, h)
  OBVIOUS
<1>9. b = n - Ready(need) /\ b <= Len(s.vals) /\ b \in Nat
  BY <1>1, <1>8, Waiting
<1>10. k = Len(s'.vals)
  <2>1. Len(s'.vals) = Upto(u, h + 1) + Ready(need')
    BY <1>3, <1>6 DEF CoreInv, ShapeInv
  <2> QED BY <2>1, <1>4, <1>6, <1>8, <1>9
<1>11. \A i \in h + 1 .. Len(todo') : todo'[i] = o
  BY <1>1, <1>3, <1>6, CoreFacts
<1>12. SameArgs(todo, todo')
  BY <1>4, <1>7, <1>11, ArgsOnly
<1>13. Draws(h, b, k)
  BY <1>7, <1>8, <1>9, <1>10, <1>12, AllocTodo DEF Draws, PushDraw
<1>14. \A i \in h + 1 .. Len(todo') : Holding(p', k, todo', i)
  BY <1>4, <1>11, PlainHolds
<1> QED BY <1>13, <1>14, DrawStep

(* A step that begins a construct, or replaces the innermost one by another. *)
OpenDraw(n, k, b, o) ==
  ~p'.full => /\ (Alloc(p', k, todo) /\ o.params = <<>>) \/ Alloc(p', k, todo')
              /\ Moved(p, n, p', k, b) /\ Settled(o, p', k)

(* What both have in common: the first c constructs and then two more. *)
Begun(c, b, k, o) ==
  /\ CoreInv /\ CoreInv' /\ RegInv /\ ~p.full /\ Shares(todo, todo', c)
  /\ b = Upto(todo, c) /\ b <= Len(s.vals)
  /\ Len(todo') = c + 2 /\ todo'[c + 1] = o /\ todo'[c + 2] = Item("expr")
  /\ k = Len(s'.vals) /\ Upto(todo', c + 1) = k

LEMMA BegunRegs ==
  ASSUME NEW c, NEW b, NEW k, NEW o, Begun(c, b, k, o), OpenDraw(Len(s.vals), k, b, o)
  PROVE  RegInv'
<1>1. /\ CoreInv /\ CoreInv' /\ RegInv /\ ~p.full /\ Shares(todo, todo', c)
      /\ b = Upto(todo, c) /\ b <= Len(s.vals)
      /\ Len(todo') = c + 2 /\ todo'[c + 1] = o /\ todo'[c + 2] = Item("expr")
      /\ k = Len(s'.vals) /\ Upto(todo', c + 1) = k
  BY DEF Begun
<1>2. \A i \in c + 1 .. Len(todo') : i = c + 1 \/ i = c + 2
  BY <1>1 DEF Shares
<1>3. ASSUME o.params = <<>> PROVE SameArgs(todo, todo')
  <2>1. \A i \in c + 1 .. Len(todo') : todo'[i].params = <<>>
    BY <1>1, <1>2, <1>3, PlainHolds
  <2> QED BY <2>1, <1>1, ArgsOnly
<1>4. ~p'.full => Alloc(p', k, todo')
  BY <1>3, AllocTodo DEF OpenDraw
<1>5. Draws(c, b, k)
  BY <1>1, <1>4 DEF Draws, OpenDraw
<1>6. ASSUME ~p'.full PROVE Holding(p', k, todo', c + 1)
  <2>1. Settled(o, p', k)
    BY <1>6 DEF OpenDraw
  <2> QED BY <2>1, <1>1, SettledHolds
<1>7. ~p'.full => Holding(p', k, todo', c + 2)
  BY <1>1, PlainHolds
<1>8. ~p'.full => \A i \in c + 1 .. Len(todo') : Holding(p', k, todo', i)
  BY <1>2, <1>6, <1>7
<1> QED BY <1>5, <1>8, DrawStep

LEMMA OpenRegs ==
  ASSUME CoreInv, CoreInv', RegInv, ~p.full, NEW o, o \in ItemSet, Notes(o, vars, placed),
         Nests(Top.k, o.k), o.k \in ExprReaders, Open(o),
         NEW n, n = Len(s.vals), NEW k, k = n - Ready(need) + Held(o),
         OpenDraw(n, k, n - Ready(need), o)
  PROVE  RegInv'
<1>1. PICK h : h = Len(todo)
  OBVIOUS
<1>2. PICK u : u = todo'
  OBVIOUS
<1>3. Opens(vars, placed, todo, h, o, u)
  BY <1>1, <1>2, CoreFacts DEF Opens, Open
<1>4. /\ Shape(u, vars, placed) /\ Len(u) = h + 2 /\ u[h + 1] = o /\ u[h + 2] = Item("expr")
      /\ \A i \in 1 .. h : u[i] = todo[i]
      /\ Upto(u, h + 1) = Upto(todo, h) + Held(o) /\ Upto(u, h + 2) = Upto(todo, h) + Held(o)
  BY <1>3, OpenShape
<1>5. Shares(todo, u, h)
  <2>1. todo \in Seq(ItemSet) /\ Len(todo) = h /\ h \in Nat
    BY <1>1, CoreFacts
  <2>2. u \in Seq(ItemSet)
    BY <1>4 DEF Shape
  <2> QED BY <2>1, <2>2, <1>4 DEF Shares
<1>6. PICK b : b = Upto(todo, h)
  OBVIOUS
<1>7. b = n - Ready(need) /\ b <= Len(s.vals) /\ b \in Nat
  BY <1>1, <1>6, Waiting
<1>8. Len(s'.vals) = Upto(u, h + 2) + 0
  <2>1. Len(s'.vals) = Upto(u, h + 2) + Ready(need')
    BY <1>2, <1>4 DEF CoreInv, ShapeInv
  <2> QED BY <2>1, ReadyFacts DEF Open
<1>9. Held(o) \in 0 .. 2
  BY HeldType
<1>10. Begun(h, b, k, o)
  BY <1>2, <1>4, <1>5, <1>6, <1>7, <1>8, <1>9 DEF Begun
<1> QED BY <1>7, <1>10, BegunRegs

LEMMA ReopenRegs ==
  ASSUME CoreInv, CoreInv', RegInv, ~p.full, NEW o, o \in ItemSet, Top.k # "func",
         todo' = Below \o <<o, Item("expr")>>, need' = "value",
         NEW n, n = Len(s.vals), NEW k, k = n - Ready(need) - Held(Top) + Held(o),
         OpenDraw(n, k, n - Ready(need) - Held(Top), o)
  PROVE  RegInv'
<1>1. PICK h : h = Len(todo) - 1
  OBVIOUS
<1>2. PICK u : u = todo'
  OBVIOUS
<1>3. PICK w : w = Below
  OBVIOUS
<1>4. Shares(todo, w, h) /\ Len(w) = h /\ h \in Nat \ {0}
  BY <1>1, <1>3, BelowFacts
<1>5. PICK e : e = Item("expr")
  OBVIOUS
<1>6. e \in ItemSet /\ Held(e) = 0
  BY <1>5, PlainHolds, ItemFacts, HeldFacts DEF Kinds
<1>7. u = w \o <<o, e>>
  BY <1>2, <1>3, <1>5
<1>8. /\ u \in Seq(ItemSet) /\ Len(u) = h + 2 /\ u[h + 1] = o /\ u[h + 2] = e
      /\ \A i \in 1 .. h : u[i] = w[i]
  BY <1>4, <1>6, <1>7 DEF Shares
<1>9. Shares(todo, u, h) /\ Shares(w, u, h)
  BY <1>4, <1>8 DEF Shares
<1>10. PICK b : b = Upto(todo, h)
  OBVIOUS
<1>11. b = n - Ready(need) - Held(Top) /\ b <= Len(s.vals) /\ b \in Nat
  BY <1>1, <1>10, Waiting
<1>12. Upto(u, h) = b
  BY <1>4, <1>9, <1>10, PrefixSums
<1>13. Upto(u, h + 1) = Upto(u, h) + Held(o) /\ Upto(u, h + 2) = Upto(u, h + 1)
  <2>2. Upto(u, h + 1) = Upto(u, h) + Held(u[h + 1])
    <3>1. PICK j : j = h + 1
      OBVIOUS
    <3>2. u \in Seq(ItemSet) /\ j \in 1 .. Len(u) /\ j - 1 = h
      BY <3>1, <1>4, <1>8
    <3>3. Upto(u, j) = Upto(u, j - 1) + Held(u[j])
      BY <3>2, UptoStep
    <3> QED BY <3>1, <3>2, <3>3
  <2>3. Upto(u, h + 2) = Upto(u, h + 1) + Held(u[h + 2])
    <3>1. PICK j : j = h + 2
      OBVIOUS
    <3>2. u \in Seq(ItemSet) /\ j \in 1 .. Len(u) /\ j - 1 = h + 1
      BY <3>1, <1>4, <1>8
    <3>3. Upto(u, j) = Upto(u, j - 1) + Held(u[j])
      BY <3>2, UptoStep
    <3> QED BY <3>1, <3>2, <3>3
  <2>4. Upto(u, h + 1) \in Nat
    BY <1>4, <1>8, WeightType
  <2> QED BY <2>2, <2>3, <2>4, <1>6, <1>8
<1>14. Held(o) \in 0 .. 2
  BY HeldType
<1>15. Len(s'.vals) = Upto(u, h + 2) + Ready(need')
  BY <1>2, <1>8 DEF CoreInv, ShapeInv
<1>16. k = Len(s'.vals) /\ Upto(u, h + 1) = k
  BY <1>11, <1>12, <1>13, <1>14, <1>15, ReadyFacts
<1>17. Begun(h, b, k, o)
  BY <1>2, <1>5, <1>8, <1>9, <1>10, <1>11, <1>16 DEF Begun
<1> QED BY <1>11, <1>17, BegunRegs

(* Between statements there are neither operands nor arguments. *)
Sane(q) == q.sound /\ q.pinned \subseteq q.used /\ Cached(q) \subseteq q.pinned
Bare(o) == o.k \notin Holders /\ o.params = <<>> /\ Held(o) = 0
Idle(t) == \A i \in DOMAIN t : Bare(t[i])

LEMMA IdleRegs ==
  ASSUME NEW q, NEW t, q \in RegState, Sane(q), Idle(t)
  PROVE  Regs(q, 0, t)
<1>1. 0 <= Len(q.rstack)
  BY RegStateFacts
<1>2. \A i \in DOMAIN t : DOMAIN t[i].params = {}
  BY NoArgs DEF Idle, Bare
<1>3. Alloc(q, 0, t)
  BY <1>1, <1>2 DEF Alloc, Sane
<1>4. \A i \in DOMAIN t : Apart(q, 0, t, i) /\ Noted(q, 0, t, i)
  BY DEF Idle, Bare, Apart, Noted, Holders
<1> QED BY <1>3, <1>4 DEF Regs

LEMMA IdleStep ==
  ASSUME CoreInv', Ready(need') = 0, ~p'.full => Sane(p'), Idle(todo')
  PROVE  RegInv'
<1>1. PICK q : q = p'
  OBVIOUS
<1>2. PICK t : t = todo'
  OBVIOUS
<1>3. q \in RegState /\ t \in Seq(ItemSet) /\ Len(s'.vals) = Upto(t, Len(t)) + 0
  BY <1>1, <1>2 DEF CoreInv, TypeInv, ShapeInv, Shape
<1>4. ~q.full => Regs(q, 0, t)
  BY <1>1, <1>2, <1>3, IdleRegs
<1>5. Upto(t, Len(t)) = 0
  <2>1. Len(t) \in Nat /\ DOMAIN t = 1 .. Len(t)
    BY <1>3
  <2>2. \A i \in 1 .. Len(t) : Weights(t)[i] = 0
    BY <2>1, <1>2 DEF Weights, Idle, Bare
  <2> QED BY <2>1, <2>2, TotalZero DEF Upto
<1> QED BY <1>1, <1>2, <1>3, <1>4, <1>5 DEF RegInv

LEMMA BareItems ==
  \A k \in StatementKinds \cup BlockKinds \cup {"expr"} :
    /\ k \in Kinds /\ k \notin Holders /\ k \notin ListKinds /\ Bare(Item(k))
    /\ \A o : o.k = k /\ k # "expr" /\ o.params = <<>> => Bare(o)
<1>1. ASSUME NEW k \in StatementKinds \cup BlockKinds \cup {"expr"}
      PROVE  k \in Kinds /\ k \notin Holders /\ k \notin ListKinds
  BY DEF StatementKinds, BlockKinds, Holders, LogicalKinds, ListKinds, Kinds, ExprReaders
<1>2. ASSUME NEW k \in StatementKinds \cup BlockKinds \cup {"expr"} PROVE Bare(Item(k))
  BY <1>1, ItemFacts, HeldFacts DEF Bare
<1>3. ASSUME NEW k \in StatementKinds \cup BlockKinds \cup {"expr"}, NEW o, o.k = k, k # "expr",
             o.params = <<>>
      PROVE  Bare(o)
  BY <1>1, <1>3, HeldFacts DEF Bare
<1> QED BY <1>1, <1>2, <1>3

LEMMA BareTodo ==
  ASSUME CoreInv, Top.k \in StatementKinds \cup BlockKinds
  PROVE  /\ Idle(todo) /\ Idle(Below)
         /\ \A o, u : Bare(o) /\ u = Append(Below, o) => Idle(u)
         /\ \A o, u : /\ Bare(o)
                      /\ u = todo \o <<o, Item("expr")>> \/ u = Append(todo, o)
                      => Idle(u)
<1>1. /\ todo \in Seq(ItemSet) /\ Len(todo) \in Nat \ {0} /\ DOMAIN todo = 1 .. Len(todo)
      /\ Nested(todo) /\ Top = todo[Len(todo)] /\ Shape(todo, vars, placed)
  BY CoreFacts
<1>2. ASSUME NEW i \in DOMAIN todo PROVE todo[i].k \in StatementKinds \cup BlockKinds
  <2>1. i < Len(todo) \/ i = Len(todo)
    BY <1>1
  <2>2. i < Len(todo) => todo[i].k \in BlockKinds
    BY <1>1 DEF Nested
  <2> QED BY <2>1, <2>2, <1>1
<1>3. \A k \in StatementKinds \cup BlockKinds : k \notin Holders /\ k \notin ListKinds
  BY DEF StatementKinds, BlockKinds, Holders, LogicalKinds, ListKinds
<1>4. \A i \in DOMAIN todo : Bare(todo[i])
  BY <1>1, <1>2, <1>3, HeldFacts DEF Shape, Notes, Bare
<1>5. Idle(todo)
  BY <1>4 DEF Idle
<1>6. PICK w : w = Below
  OBVIOUS
<1>7. /\ w \in Seq(ItemSet) /\ DOMAIN w = 1 .. Len(todo) - 1 /\ Len(w) = Len(todo) - 1
      /\ \A i \in 1 .. Len(todo) - 1 : w[i] = todo[i]
  <2>1. todo # <<>> /\ w = Front(todo)
    BY <1>1, <1>6 DEF Below
  <2> QED BY <2>1, <1>1, FrontFacts
<1>8. Idle(w)
  BY <1>1, <1>4, <1>7 DEF Idle
<1>9. ASSUME NEW o, NEW u, Bare(o), u = Append(w, o)
      PROVE  Idle(u)
  <2>1. DOMAIN u = 1 .. Len(w) + 1 /\ \A i \in 1 .. Len(w) : u[i] = w[i]
    BY <1>7, <1>9
  <2>2. u[Len(w) + 1] = o
    BY <1>7, <1>9
  <2>3. \A i \in DOMAIN u : i \in DOMAIN w \/ i = Len(w) + 1
    BY <2>1, <1>1, <1>7
  <2> QED BY <2>1, <2>2, <2>3, <1>7, <1>8, <1>9 DEF Idle
<1>10. ASSUME NEW o, NEW u, Bare(o), u = Append(todo, o)
       PROVE  Idle(u)
  <2>1. DOMAIN u = 1 .. Len(todo) + 1 /\ \A i \in 1 .. Len(todo) : u[i] = todo[i]
    BY <1>1, <1>10
  <2>2. u[Len(todo) + 1] = o
    BY <1>1, <1>10
  <2>3. \A i \in DOMAIN u : i \in DOMAIN todo \/ i = Len(todo) + 1
    BY <2>1, <1>1
  <2> QED BY <2>1, <2>2, <2>3, <1>5, <1>10 DEF Idle
<1>11. ASSUME NEW o, NEW u, Bare(o), u = todo \o <<o, Item("expr")>>
       PROVE  Idle(u)
  <2>0. PICK e : e = Item("expr")
    OBVIOUS
  <2>1. u = todo \o <<o, e>> /\ Bare(e)
    BY <2>0, <1>11, PlainHolds, BareItems
  <2>2. DOMAIN u = 1 .. Len(todo) + 2 /\ \A i \in 1 .. Len(todo) : u[i] = todo[i]
    BY <1>1, <2>1
  <2>3. u[Len(todo) + 1] = o /\ u[Len(todo) + 2] = e
    BY <1>1, <2>1
  <2>4. \A i \in DOMAIN u : i \in DOMAIN todo \/ i = Len(todo) + 1 \/ i = Len(todo) + 2
    BY <2>2, <1>1
  <2> QED BY <2>1, <2>2, <2>3, <2>4, <1>5, <1>11 DEF Idle
<1>12. Idle(Below) /\ \A o, u : Bare(o) /\ u = Append(Below, o) => Idle(u)
  BY <1>6, <1>8, <1>9
<1>13. \A o, u : /\ Bare(o)
                 /\ u = todo \o <<o, Item("expr")>> \/ u = Append(todo, o)
                 => Idle(u)
  <2>1. ASSUME NEW o, NEW u, Bare(o),
               u = todo \o <<o, Item("expr")>> \/ u = Append(todo, o)
        PROVE  Idle(u)
    <3>1. CASE u = todo \o <<o, Item("expr")>>
      BY <2>1, <3>1, <1>11
    <3>2. CASE u = Append(todo, o)
      BY <2>1, <3>2, <1>10
    <3> QED BY <2>1, <3>1, <3>2
  <2> QED BY <2>1
<1> QED BY <1>5, <1>12, <1>13

LEMMA SaneFacts ==
  ASSUME CoreInv, RegInv, ~p.full
  PROVE  /\ Sane(p)
         /\ 0 < Len(s.vals) => LastReg(p) \in p.used /\ Len(p.rstack) > 0
<1>1. Alloc(p, Len(s.vals), todo) /\ p \in RegState /\ Len(s.vals) \in Nat
  BY CoreFacts DEF RegInv, Regs
<1>2. Sane(p) /\ Len(s.vals) <= Len(p.rstack)
  BY <1>1 DEF Alloc, Sane
<1>3. ASSUME 0 < Len(s.vals) PROVE LastReg(p) \in p.used
  <2>1. Len(s.vals) \in 1 .. Len(s.vals)
    BY <1>1, <1>3
  <2>2. OpReg(p, Len(s.vals), Len(s.vals)) \in p.used
    BY <2>1, <1>1 DEF Alloc
  <2> QED BY <2>1, <2>2, <1>1, <1>2, OpRegIn
<1> QED BY <1>1, <1>2, <1>3, RegStateFacts

LEMMA SaneKept ==
  ASSUME NEW q, q \in RegState, Sane(q)
  PROVE  /\ Sane(FlushCached(q)) /\ Sane(FlushFree(q))
         /\ LastReg(q) \in q.used /\ Len(q.rstack) > 0 => Sane(PopReg(q))
<1>1. Sane(FlushCached(q))
  <2>1. PICK r : r = FlushCached(q)
    OBVIOUS
  <2> QED BY <2>1, FlushFacts DEF Sane, Cached
<1>2. Sane(FlushFree(q))
  <2>1. PICK r : r = FlushFree(q)
    OBVIOUS
  <2> QED BY <2>1, FlushFreeFacts DEF Sane, Cached
<1>3. ASSUME LastReg(q) \in q.used, Len(q.rstack) > 0 PROVE Sane(PopReg(q))
  <2>1. PICK r : r = PopReg(q)
    OBVIOUS
  <2> QED BY <2>1, <1>3, PopRegFacts DEF Sane, Cached
<1> QED BY <1>1, <1>2, <1>3

-----------------------------------------------------------------------------
(* The registers, action by action: statements and blocks.                 *)

LEMMA OverRegs ==
  ASSUME CoreInv', NEW q, NEW f, NEW t, q \in RegState, ~q.full => Sane(q), Idle(t), Over(q, f, t)
  PROVE  RegInv'
<1>1. p' = q \/ p' = FlushFree(q)
  BY DEF Over
<1>2. ~p'.full => Sane(p')
  BY <1>1, SaneKept, FlushFreeFacts
<1>3. Ready(need') = 0 /\ todo' = t
  BY ReadyFacts DEF Over
<1> QED BY <1>2, <1>3, IdleStep

LEMMA StatementRegs ==
  ASSUME CoreInv, CoreInv', RegInv, NEW k \in {"effect", "print", "return"}, Statement(k)
  PROVE  RegInv'
<1>1. /\ ~p.full /\ Top.k \in BlockKinds /\ p' = p /\ need' = "value"
      /\ todo' = todo \o <<Item(k), Item("expr")>>
  BY ReadsFacts, KindsApart DEF Statement, Begin, Open
<1>2. k \in StatementKinds
  BY DEF StatementKinds
<1>3. Idle(todo')
  BY <1>1, <1>2, BareTodo, BareItems
<1> QED BY <1>1, <1>3, SaneFacts, ReadyFacts, IdleStep

LEMMA LetRegs ==
  ASSUME CoreInv, CoreInv', RegInv, NEW x \in Names, Let(x)
  PROVE  RegInv'
<1>1. PICK o : o = [Item("let") EXCEPT !.x = x]
  OBVIOUS
<1>2. /\ ~p.full /\ Top.k \in BlockKinds /\ p' = p /\ need' = "value"
      /\ todo' = todo \o <<o, Item("expr")>>
  BY <1>1, ReadsFacts, KindsApart DEF Let, Begin, Open
<1>3. "let" \in StatementKinds
  BY DEF StatementKinds
<1>4. o.k = "let" /\ o.params = <<>>
  BY <1>1 DEF Item
<1>5. Bare(o)
  BY <1>3, <1>4, BareItems
<1>6. Idle(todo')
  BY <1>2, <1>5, BareTodo
<1> QED BY <1>2, <1>6, SaneFacts, ReadyFacts, IdleStep

LEMMA EndEffectRegs ==
  ASSUME CoreInv, CoreInv', RegInv, EndEffect
  PROVE  RegInv'
<1>1. ~p.full /\ Top.k \in StatementKinds /\ Over(p, s, Below)
  BY ReadsFacts DEF EndEffect, StatementKinds
<1>2. p \in RegState /\ Sane(p) /\ Idle(Below)
  BY <1>1, CoreFacts, SaneFacts, BareTodo
<1> QED BY <1>1, <1>2, OverRegs

(* The last operand is popped from a sane stack. *)
LEMMA PopSane ==
  ASSUME CoreInv, RegInv, ~p.full, Ready(need) = 1, NEW q, q = PopReg(p) \/ q = PopReg(FlushCached(p))
  PROVE  q \in RegState /\ Sane(q)
<1>1. /\ p \in RegState /\ Sane(p) /\ LastReg(p) \in p.used /\ Len(p.rstack) > 0
  <2>1. 0 < Len(s.vals)
    BY Waiting
  <2> QED BY <2>1, CoreFacts, SaneFacts
<1>2. PICK r : r = FlushCached(p)
  OBVIOUS
<1>3. r \in RegState /\ Sane(r) /\ LastReg(r) \in r.used /\ Len(r.rstack) > 0
  BY <1>1, <1>2, FlushFacts, SaneKept DEF LastReg
<1> QED BY <1>1, <1>2, <1>3, PopRegFacts, SaneKept

LEMMA PrintValueRegs ==
  ASSUME CoreInv, CoreInv', RegInv, PrintValue
  PROVE  RegInv'
<1>1. /\ ~p.full /\ Top.k \in StatementKinds /\ need = "done"
      /\ \/ Over(PopReg(p), s, Below)
         \/ p' = PopReg(p) /\ todo' = Append(todo, Item("expr")) /\ need' = "value"
  BY ReadsFacts DEF PrintValue, StatementKinds
<1>2. PICK q : q = PopReg(p)
  OBVIOUS
<1>3. q \in RegState /\ Sane(q)
  BY <1>1, <1>2, ReadyFacts, PopSane
<1>4. Idle(Below)
  BY <1>1, BareTodo
<1>5. CASE Over(q, s, Below)
  BY <1>3, <1>4, <1>5, OverRegs
<1>6. CASE p' = q /\ todo' = Append(todo, Item("expr")) /\ need' = "value"
  <2>1. Idle(todo')
    BY <1>1, <1>6, BareTodo, BareItems
  <2> QED BY <2>1, <1>3, <1>6, ReadyFacts, IdleStep
<1> QED BY <1>1, <1>2, <1>5, <1>6

LEMMA ReturnRegs ==
  ASSUME CoreInv, CoreInv', RegInv, Return
  PROVE  RegInv'
<1>1. ~p.full /\ Top.k \in StatementKinds /\ need = "done" /\ \E f : Over(PopReg(p), f, Below)
  BY ReadsFacts DEF Return, StatementKinds
<1>2. PICK q : q = PopReg(p)
  OBVIOUS
<1>3. q \in RegState /\ Sane(q)
  BY <1>1, <1>2, ReadyFacts, PopSane
<1>4. Idle(Below)
  BY <1>1, BareTodo
<1>5. PICK f : Over(q, f, Below)
  BY <1>1, <1>2
<1> QED BY <1>3, <1>4, <1>5, OverRegs

LEMMA BranchRegs ==
  ASSUME CoreInv, CoreInv', RegInv, NEW k \in {"if", "while"}, Branch(k)
  PROVE  RegInv'
<1>1. /\ ~p.full /\ Top.k \in BlockKinds /\ p' = FlushCached(p) /\ need' = "value"
      /\ todo' = todo \o <<Item(k), Item("expr")>>
  BY ReadsFacts, KindsApart DEF Branch, Begin, Open
<1>2. k \in StatementKinds
  BY DEF StatementKinds
<1>3. Idle(todo')
  BY <1>1, <1>2, BareTodo, BareItems
<1>4. Sane(p')
  BY <1>1, CoreFacts, SaneFacts, SaneKept
<1> QED BY <1>1, <1>3, <1>4, ReadyFacts, IdleStep

LEMMA BodyRegs ==
  ASSUME CoreInv, CoreInv', RegInv, Body
  PROVE  RegInv'
<1>1. PICK k : k = IF Top.k = "if" THEN "then" ELSE "loop"
  OBVIOUS
<1>2. /\ ~p.full /\ Top.k \in StatementKinds /\ need = "done" /\ need' = "stmt"
      /\ p' = PopReg(FlushCached(p)) /\ todo' = Append(Below, Item(k)) /\ k \in BlockKinds
  BY <1>1, ReadsFacts DEF Body, Go, StatementKinds, BlockKinds
<1>3. Sane(p')
  BY <1>2, ReadyFacts, PopSane
<1>4. Idle(todo')
  BY <1>2, BareTodo, BareItems
<1> QED BY <1>2, <1>3, <1>4, ReadyFacts, IdleStep

LEMMA EndBlockRegs ==
  ASSUME CoreInv, CoreInv', RegInv, EndIf \/ EndElse \/ EndLoop
  PROVE  RegInv'
<1>1. ~p.full /\ Top.k \in BlockKinds /\ \E f : Over(FlushCached(p), f, Below)
  BY ReadsFacts DEF EndIf, EndElse, EndLoop, BlockKinds
<1>2. PICK q : q = FlushCached(p)
  OBVIOUS
<1>3. q \in RegState /\ Sane(q)
  BY <1>1, <1>2, CoreFacts, SaneFacts, SaneKept, FlushFacts
<1>4. Idle(Below)
  BY <1>1, BareTodo
<1>5. PICK f : Over(q, f, Below)
  BY <1>1, <1>2
<1> QED BY <1>3, <1>4, <1>5, OverRegs

LEMMA ElseRegs ==
  ASSUME CoreInv, CoreInv', RegInv, Else
  PROVE  RegInv'
<1>1. /\ ~p.full /\ Top.k \in BlockKinds /\ p' = FlushCached(p) /\ need' = "stmt"
      /\ todo' = Append(Below, Item("else")) /\ "else" \in BlockKinds
  BY ReadsFacts DEF Else, Go, BlockKinds
<1>2. Sane(p')
  BY <1>1, CoreFacts, SaneFacts, SaneKept
<1>3. Idle(todo')
  BY <1>1, BareTodo, BareItems
<1> QED BY <1>1, <1>2, <1>3, ReadyFacts, IdleStep

LEMMA ElseIfRegs ==
  ASSUME CoreInv, CoreInv', RegInv, ElseIf
  PROVE  RegInv'
<1>1. /\ ~p.full /\ Top.k \in BlockKinds /\ p' = FlushCached(p) /\ need' = "value"
      /\ todo' = Below \o <<Item("elif"), Item("if"), Item("expr")>>
  BY ReadsFacts DEF ElseIf, Go, BlockKinds
<1>2. Sane(p')
  BY <1>1, CoreFacts, SaneFacts, SaneKept
<1>3. Top.k # "func"
  BY DEF ElseIf
<1>4. PICK w : w = Below
  OBVIOUS
<1>5. Idle(w) /\ w \in Seq(ItemSet)
  BY <1>1, <1>3, <1>4, BareTodo, BelowFacts DEF Shares
<1>6. PICK a : a = Item("elif")
  OBVIOUS
<1>7. PICK b : b = Item("if")
  OBVIOUS
<1>8. PICK c : c = Item("expr")
  OBVIOUS
<1>9. Bare(a) /\ Bare(b) /\ Bare(c)
  BY <1>6, <1>7, <1>8, BareItems DEF BlockKinds, StatementKinds
<1>10. PICK u : u = todo'
  OBVIOUS
<1>11. u = w \o <<a, b, c>>
  BY <1>1, <1>4, <1>6, <1>7, <1>8, <1>10
<1>12. /\ DOMAIN u = 1 .. Len(w) + 3 /\ \A i \in 1 .. Len(w) : u[i] = w[i]
       /\ u[Len(w) + 1] = a /\ u[Len(w) + 2] = b /\ u[Len(w) + 3] = c
       /\ Len(w) \in Nat /\ DOMAIN w = 1 .. Len(w)
  BY <1>5, <1>11
<1>13. \A i \in DOMAIN u : i \in 1 .. Len(w) \/ i = Len(w) + 1 \/ i = Len(w) + 2 \/ i = Len(w) + 3
  BY <1>12
<1>14. Idle(u)
  BY <1>5, <1>9, <1>12, <1>13 DEF Idle
<1> QED BY <1>1, <1>2, <1>10, <1>14, ReadyFacts, IdleStep

LEMMA EndFunctionRegs ==
  ASSUME CoreInv, CoreInv', RegInv, EndFunction
  PROVE  RegInv'
<1>1. /\ ~p.full /\ Top.k \in BlockKinds /\ p' = p /\ need' = "end" /\ todo' = todo
  BY ReadsFacts DEF EndFunction, BlockKinds
<1>2. Idle(todo')
  BY <1>1, BareTodo
<1> QED BY <1>1, <1>2, SaneFacts, ReadyFacts, IdleStep

-----------------------------------------------------------------------------
(* What instructions do to the stack.                                      *)

(* Of the operands, the first b stay; the cached registers are the same. *)
Stepped(q, n, t, r, k, b) ==
  /\ r \in RegState /\ Alloc(r, k, t) /\ Cached(r) = Cached(q)
  /\ \A v \in 1 .. b : OpReg(r, k, v) = OpReg(q, n, v)

LEMMA SteppedMoves ==
  ASSUME NEW q, NEW n, NEW t, NEW r, NEW k, NEW b, NEW c, Stepped(q, n, t, r, k, b),
         b \in Nat, c \in Nat, c <= b
  PROVE  Alloc(r, k, t) /\ Moved(q, n, r, k, c)
BY DEF Stepped, Moved

LEMMA AllocNew ==
  ASSUME NEW q, NEW n, NEW t, NEW r, q \in RegState, n \in Nat, Alloc(q, n, t), ~q.full,
         r = NewReg(q), ~r.full
  PROVE  /\ Stepped(q, n, t, r, n + 1, n)
         /\ OpReg(r, n + 1, n + 1) = Dest(r) /\ Dest(r) \in Reg \ q.used /\ Dest(r) = LastReg(r)
         /\ Dest(r) \notin Cached(q)
<1>1. PICK d : d = LastReg(r)
  OBVIOUS
<1>2. d \in Reg \ q.used /\ r = PushReg(q, d) /\ Dest(r) = d /\ r \in RegState
  BY <1>1, NewRegFacts
<1>3. /\ Alloc(r, n + 1, t) /\ Cached(r) = Cached(q)
      /\ \A v \in 1 .. n : OpReg(r, n + 1, v) = OpReg(q, n, v)
      /\ OpReg(r, n + 1, n + 1) = d
  <2>1. d \in Reg /\ (d \notin q.used \/ d \in Cached(q))
    BY <1>2
  <2>2. ASSUME NEW x, x = PushReg(q, d)
        PROVE  /\ Alloc(x, n + 1, t) /\ Cached(x) = Cached(q)
               /\ \A v \in 1 .. n : OpReg(x, n + 1, v) = OpReg(q, n, v)
               /\ OpReg(x, n + 1, n + 1) = d
    BY <2>1, <2>2, AllocPush
  <2> QED BY <2>2, <1>2
<1>4. Cached(q) \subseteq q.used
  BY DEF Alloc
<1> QED BY <1>1, <1>2, <1>3, <1>4 DEF Stepped

LEMMA AllocPopped ==
  ASSUME NEW q, NEW n, NEW t, NEW r, q \in RegState, n \in Nat \ {0}, Alloc(q, n, t), r = PopReg(q)
  PROVE  Stepped(q, n, t, r, n - 1, n - 1) /\ n - 1 \in Nat /\ r.full = q.full
<1>1. Len(q.rstack) > 0
  BY RegStateFacts DEF Alloc
<1>2. /\ Alloc(r, n - 1, t) /\ Cached(r) = Cached(q) /\ n - 1 \in Nat
      /\ \A v \in 1 .. n - 1 : OpReg(r, n - 1, v) = OpReg(q, n, v)
  BY AllocPop
<1>3. r \in RegState /\ r.full = q.full
  BY <1>1, PopRegFacts
<1> QED BY <1>2, <1>3 DEF Stepped

LEMMA AllocApply1 ==
  ASSUME NEW q, NEW n, NEW t, NEW r, q \in RegState, n \in Nat \ {0}, Alloc(q, n, t), ~q.full,
         r = Apply1(q), ~r.full
  PROVE  Stepped(q, n, t, r, n, n - 1)
<1>1. PICK a : a = PopReg(q)
  OBVIOUS
<1>2. Stepped(q, n, t, a, n - 1, n - 1) /\ n - 1 \in Nat /\ ~a.full
  BY <1>1, AllocPopped
<1>3. PICK k : k = n - 1
  OBVIOUS
<1>4. a \in RegState /\ Alloc(a, k, t) /\ k \in Nat /\ r = NewReg(a)
  BY <1>1, <1>2, <1>3 DEF Stepped, Apply1
<1>5. Stepped(a, k, t, r, k + 1, k)
  BY <1>2, <1>4, AllocNew
<1>6. k + 1 = n
  BY <1>3
<1> QED BY <1>2, <1>3, <1>5, <1>6 DEF Stepped

LEMMA AllocApply2 ==
  ASSUME NEW q, NEW n, NEW t, NEW r, q \in RegState, n \in Nat, n > 1, Alloc(q, n, t), ~q.full,
         r = Apply2(q), ~r.full
  PROVE  Stepped(q, n, t, r, n - 1, n - 2)
<1>1. PICK a : a = PopReg(q)
  OBVIOUS
<1>2. Stepped(q, n, t, a, n - 1, n - 1) /\ n - 1 \in Nat /\ ~a.full
  BY <1>1, AllocPopped
<1>3. PICK k : k = n - 1
  OBVIOUS
<1>4. a \in RegState /\ Alloc(a, k, t) /\ k \in Nat \ {0} /\ r = Apply1(a)
  BY <1>1, <1>2, <1>3 DEF Stepped, Apply1, Apply2
<1>5. Stepped(a, k, t, r, k, k - 1)
  BY <1>2, <1>4, AllocApply1
<1>6. k - 1 = n - 2 /\ \A v \in 1 .. n - 2 : v \in 1 .. n - 1
  BY <1>3
<1> QED BY <1>2, <1>3, <1>5, <1>6 DEF Stepped

(* The cached register of a local serves as an operand. *)
LEMMA AllocPin ==
  ASSUME NEW q, NEW n, NEW t, NEW d, NEW r, q \in RegState, n \in Nat, Alloc(q, n, t),
         d \in Cached(q), r = [PushReg(q, d) EXCEPT !.pinned = @ \union {d}]
  PROVE  Stepped(q, n, t, r, n + 1, n)
<1>1. PICK a : a = PushReg(q, d)
  OBVIOUS
<1>2. d \in Reg /\ d \in q.pinned
  BY RegStateFacts DEF Cached, Alloc
<1>3. a \in RegState /\ a.pinned = q.pinned
  BY <1>1, <1>2, PushRegFacts
<1>4. r = a
  BY <1>1, <1>2, <1>3 DEF RegState
<1>5. /\ Alloc(a, n + 1, t) /\ Cached(a) = Cached(q)
      /\ \A v \in 1 .. n : OpReg(a, n + 1, v) = OpReg(q, n, v)
  BY <1>1, <1>2, AllocPush
<1> QED BY <1>3, <1>4, <1>5 DEF Stepped

(* A local is loaded and its register becomes the cached one. *)
Loads(q, n, t, l, a, r) ==
  /\ q \in RegState /\ n \in Nat /\ Alloc(q, n, t) /\ ~q.full /\ l \in Nat /\ l < Len(q.cache)
  /\ CachedReg(q, l) = NoReg /\ a = NewReg(q) /\ ~a.full
  /\ r = [a EXCEPT !.cache[l + 1] = LastReg(a), !.pinned = @ \union {LastReg(a)}]

LEMMA AllocLoad ==
  ASSUME NEW q, NEW n, NEW t, NEW l, NEW a, NEW r, Loads(q, n, t, l, a, r)
  PROVE  /\ r \in RegState /\ Alloc(r, n + 1, t) /\ ~r.full
         /\ \A v \in 1 .. n : OpReg(r, n + 1, v) = OpReg(q, n, v)
         /\ \A d \in Cached(r) : d \in Cached(q) \/ d \notin q.used
<1>0. /\ q \in RegState /\ n \in Nat /\ Alloc(q, n, t) /\ ~q.full /\ l \in Nat
      /\ l < Len(q.cache) /\ q.cache[l + 1] = NoReg /\ a = NewReg(q) /\ ~a.full
      /\ r = [a EXCEPT !.cache[l + 1] = LastReg(a), !.pinned = @ \union {LastReg(a)}]
  BY DEF Loads, CachedReg
<1>1. PICK d : d = LastReg(a)
  OBVIOUS
<1>2. /\ d \in Reg \ q.used /\ a = PushReg(q, d) /\ a \in RegState /\ Alloc(a, n + 1, t)
      /\ Cached(a) = Cached(q) /\ \A v \in 1 .. n : OpReg(a, n + 1, v) = OpReg(q, n, v)
      /\ OpReg(a, n + 1, n + 1) = d
  <2>1. d \in Reg \ q.used /\ a = PushReg(q, d) /\ a \in RegState
    BY <1>0, <1>1, NewRegFacts
  <2>2. Stepped(q, n, t, a, n + 1, n) /\ OpReg(a, n + 1, n + 1) = Dest(a) /\ Dest(a) = LastReg(a)
    BY <1>0, AllocNew
  <2> QED BY <2>1, <2>2, <1>1 DEF Stepped
<1>3. a.cache = q.cache /\ a.used = q.used \cup {d} /\ a.pinned = q.pinned /\ ~a.full
  BY <1>0, <1>2, PushRegFacts
<1>4. /\ r \in RegState /\ r.rstack = a.rstack /\ r.used = a.used /\ r.sound = a.sound /\ ~r.full
      /\ r.pinned = a.pinned \cup {d} /\ DOMAIN r.cache = DOMAIN q.cache
      /\ \A k \in DOMAIN q.cache : r.cache[k] = IF k = l + 1 THEN d ELSE q.cache[k]
      /\ l + 1 \in DOMAIN q.cache
  <2>1. a.cache \in Seq(Reg) /\ Len(a.cache) \in Nat /\ DOMAIN a.cache = 1 .. Len(a.cache)
    BY <1>2, RegStateFacts
  <2>2. l + 1 \in 1 .. Len(a.cache)
    BY <2>1, <1>0, <1>3
  <2>3. [a.cache EXCEPT ![l + 1] = d] \in Seq(Reg)
    BY <2>1, <2>2, <1>2, ExceptSeq
  <2>4. r = [a EXCEPT !.cache = [a.cache EXCEPT ![l + 1] = d], !.pinned = a.pinned \cup {d}]
    BY <1>0, <1>1, <1>2 DEF RegState
  <2>5. r \in RegState
    BY <2>3, <2>4, <1>2 DEF RegState
  <2>6. /\ r.rstack = a.rstack /\ r.used = a.used /\ r.sound = a.sound /\ ~r.full
        /\ r.pinned = a.pinned \cup {d} /\ r.cache = [a.cache EXCEPT ![l + 1] = d]
    BY <2>4, <1>2, <1>3 DEF RegState
  <2> QED BY <2>1, <2>2, <2>5, <2>6, <1>3
<1>5. Cached(r) = (Cached(q) \cup {d}) \ {NoReg}
  <2>1. \A k \in DOMAIN q.cache : q.cache[k] # NoReg => k # l + 1
    BY <1>0
  <2> QED BY <2>1, <1>4 DEF Cached
<1>6. Cached(q) \subseteq q.pinned /\ q.pinned \subseteq q.used
  BY <1>0 DEF Alloc
<1>7. \A i \in DOMAIN t : \A k \in DOMAIN t[i].params : t[i].params[k].reg # d
  BY <1>0, <1>2 DEF Alloc
<1>8. Recached(a, n + 1, t, r)
  <2>1. n + 1 \in Nat
    BY <1>0
  <2>2. Cached(a) \ Cached(r) = {}
    BY <1>2, <1>5 DEF Cached
  <2>3. Cached(r) \ Cached(a) \subseteq {d}
    BY <1>2, <1>5
  <2>4. r.pinned \subseteq r.used /\ Cached(r) \subseteq r.pinned
    BY <1>3, <1>4, <1>5, <1>6
  <2> QED BY <2>1, <2>2, <2>3, <2>4, <1>2, <1>4, <1>7 DEF Recached
<1>9. Alloc(r, n + 1, t) /\ \A v \in 1 .. n + 1 : OpReg(r, n + 1, v) = OpReg(a, n + 1, v)
  BY <1>8, AllocCache
<1>10. \A v \in 1 .. n : v \in 1 .. n + 1
  BY <1>0
<1> QED BY <1>2, <1>4, <1>5, <1>9, <1>10

(* The two operands below the last one are given up. *)
LEMMA AllocCollapse ==
  ASSUME NEW q, NEW n, NEW t, NEW r, q \in RegState, n \in Nat, n > 2, Alloc(q, n, t), ~q.full,
         r = Collapse(q)
  PROVE  Stepped(q, n, t, r, n - 2, n - 3) /\ ~r.full
<1>0. /\ Len(q.rstack) \in Nat /\ n <= Len(q.rstack) /\ Len(q.rstack) > 2
      /\ q.sound /\ q.pinned \subseteq q.used /\ Cached(q) \subseteq q.pinned
      /\ \A v \in 1 .. n : OpReg(q, n, v) \in q.used
  BY RegStateFacts DEF Alloc
<1>1. PICK h : h = Len(q.rstack)
  OBVIOUS
<1>2. PICK a : a = q.rstack[h - 2]
  OBVIOUS
<1>3. PICK c : c = q.rstack[h - 1]
  OBVIOUS
<1>4. PICK x : x = SetUnused(q, a)
  OBVIOUS
<1>5. PICK f : f = SetUnused(x, c)
  OBVIOUS
<1>6. Collapses(q, h, f, r)
  BY <1>0, <1>1, <1>2, <1>3, <1>4, <1>5 DEF Collapses
<1>7. /\ r \in RegState /\ Len(r.rstack) = h - 2
      /\ r.used = f.used /\ r.pinned = q.pinned /\ r.cache = q.cache /\ ~r.full
      /\ r.sound = f.sound
      /\ r.rstack[h - 2] = q.rstack[h]
      /\ \A i \in 1 .. h - 3 : r.rstack[i] = q.rstack[i]
  BY <1>6, CollapseFacts
<1>8. a = OpReg(q, n, n - 2) /\ c = OpReg(q, n, n - 1) /\ a \in Reg /\ c \in Reg
  <2>1. h - n + (n - 2) = h - 2 /\ h - n + (n - 1) = h - 1 /\ n - 2 \in 1 .. n /\ n - 1 \in 1 .. n
    BY <1>0, <1>1
  <2>2. a = OpReg(q, n, n - 2) /\ c = OpReg(q, n, n - 1)
    BY <2>1, <1>1, <1>2, <1>3 DEF OpReg
  <2> QED BY <2>1, <2>2, <1>0, OpRegIn
<1>9. a = c => a \in Cached(q)
  <2>1. n - 2 \in 1 .. n /\ n - 1 \in 1 .. n /\ n - 2 # n - 1
    OBVIOUS
  <2> QED BY <2>1, <1>8 DEF Alloc
<1>10. a \in q.used /\ c \in q.used
  <2>1. n - 2 \in 1 .. n /\ n - 1 \in 1 .. n
    OBVIOUS
  <2> QED BY <2>1, <1>0, <1>8
<1>11. /\ x \in RegState /\ x.pinned = q.pinned /\ x.sound
       /\ x.used = IF a \in q.pinned THEN q.used ELSE q.used \ {a}
  <2>1. a \in Reg
    BY <1>8
  <2>2. /\ x \in RegState /\ x.pinned = q.pinned
        /\ a \in q.pinned => x.used = q.used /\ x.sound = q.sound
        /\ a \notin q.pinned => x.used = q.used \ {a} /\ (q.sound /\ a \in q.used => x.sound)
    BY <2>1, <1>4, SetUnusedFacts
  <2> QED BY <2>2, <1>0, <1>10
<1>12. /\ f.sound /\ f.used = IF c \in q.pinned THEN x.used ELSE x.used \ {c}
  <2>1. c \notin q.pinned => c \in x.used
    BY <1>0, <1>9, <1>10, <1>11
  <2>2. /\ c \in x.pinned => f.used = x.used /\ f.sound = x.sound
        /\ c \notin x.pinned => f.used = x.used \ {c} /\ (x.sound /\ c \in x.used => f.sound)
    <3>1. c \in Reg /\ x \in RegState
      BY <1>8, <1>11
    <3> QED BY <3>1, <1>5, SetUnusedFacts
  <2> QED BY <2>1, <2>2, <1>11
<1>13. \A d \in q.used : d \in q.pinned \/ (d # a /\ d # c) => d \in r.used
  BY <1>7, <1>11, <1>12
<1>14. Cached(r) = Cached(q) /\ r.sound /\ r.pinned \subseteq r.used /\ Cached(r) \subseteq r.pinned
  BY <1>0, <1>7, <1>11, <1>12 DEF Cached
<1>15. PICK g : g = [v \in 1 .. n - 2 |-> IF v = n - 2 THEN n ELSE v]
  OBVIOUS
<1>16. /\ \A v \in 1 .. n - 2 : g[v] \in 1 .. n /\ g[v] # n - 2 /\ g[v] # n - 1
       /\ \A v, w \in 1 .. n - 2 : v # w => g[v] # g[w]
       /\ \A v \in 1 .. n - 3 : g[v] = v /\ v \in 1 .. n - 2
  BY <1>15
<1>17. ASSUME NEW v \in 1 .. n - 2 PROVE OpReg(r, n - 2, v) = OpReg(q, n, g[v])
  <2>1. CASE v = n - 2
    <3>1. h - 2 - (n - 2) + v = h - 2 /\ h - n + n = h /\ g[v] = n
      BY <2>1, <1>0, <1>1, <1>15
    <3> QED BY <3>1, <1>1, <1>7 DEF OpReg
  <2>2. CASE v # n - 2
    <3>1. h - 2 - (n - 2) + v = h - n + v /\ h - n + v \in 1 .. h - 3 /\ g[v] = v
      BY <2>2, <1>0, <1>1, <1>15
    <3> QED BY <3>1, <1>1, <1>7 DEF OpReg
  <2> QED BY <2>1, <2>2
<1>18. ASSUME NEW v \in 1 .. n - 2 PROVE OpReg(q, n, g[v]) \in r.used
  <2>1. g[v] \in 1 .. n /\ g[v] # n - 2 /\ g[v] # n - 1 /\ n - 2 \in 1 .. n /\ n - 1 \in 1 .. n
    BY <1>16
  <2>2. OpReg(q, n, g[v]) \in q.used
    BY <2>1, <1>0
  <2>3. OpReg(q, n, g[v]) = a \/ OpReg(q, n, g[v]) = c => OpReg(q, n, g[v]) \in Cached(q)
    BY <2>1, <1>8 DEF Alloc
  <2> QED BY <2>2, <2>3, <1>0, <1>13
<1>19. ASSUME NEW i \in DOMAIN t, NEW k \in DOMAIN t[i].params PROVE t[i].params[k].reg \in r.used
  <2>1. t[i].params[k].reg \in q.used
    BY DEF Alloc
  <2>2. n - 2 \in 1 .. n /\ n - 1 \in 1 .. n
    OBVIOUS
  <2>3. t[i].params[k].reg = a \/ t[i].params[k].reg = c => t[i].params[k].reg \in Cached(q)
    BY <2>2, <1>8 DEF Alloc
  <2> QED BY <2>1, <2>3, <1>0, <1>13
<1>20. ASSUME NEW v \in 1 .. n - 2, NEW w \in 1 .. n - 2,
              OpReg(r, n - 2, v) = OpReg(r, n - 2, w), v # w
       PROVE  OpReg(r, n - 2, v) \in Cached(r)
  <2>1. g[v] \in 1 .. n /\ g[w] \in 1 .. n /\ g[v] # g[w]
    BY <1>16, <1>20
  <2>2. OpReg(q, n, g[v]) = OpReg(q, n, g[w])
    BY <1>17, <1>20
  <2>3. OpReg(q, n, g[v]) \in Cached(q)
    BY <2>1, <2>2 DEF Alloc
  <2> QED BY <2>3, <1>14, <1>17
<1>21. ASSUME NEW v \in 1 .. n - 2, NEW i \in DOMAIN t, NEW k \in DOMAIN t[i].params,
              t[i].params[k].reg = OpReg(r, n - 2, v)
       PROVE  OpReg(r, n - 2, v) \in Cached(r)
  <2>1. t[i].params[k].reg = OpReg(q, n, g[v]) /\ g[v] \in 1 .. n
    BY <1>16, <1>17, <1>21
  <2>2. OpReg(q, n, g[v]) \in Cached(q)
    BY <2>1 DEF Alloc
  <2> QED BY <2>2, <1>14, <1>17
<1>22. Alloc(r, n - 2, t)
  <2>1. /\ r.sound /\ n - 2 <= Len(r.rstack) /\ r.pinned \subseteq r.used
        /\ Cached(r) \subseteq r.pinned
    BY <1>0, <1>1, <1>7, <1>14
  <2>2. \A v \in 1 .. n - 2 : OpReg(r, n - 2, v) \in r.used
    BY <1>17, <1>18
  <2>3. /\ \A i, j \in DOMAIN t : \A k \in DOMAIN t[i].params, l \in DOMAIN t[j].params :
             t[i].params[k].reg = t[j].params[l].reg /\ (i # j \/ k # l) =>
               t[i].params[k].reg \in Cached(r)
        /\ \A i \in DOMAIN t : \A k \in DOMAIN t[i].params :
             t[i].params[k].owned => t[i].params[k].reg \notin Cached(r)
    BY <1>14 DEF Alloc
  <2> QED BY <2>1, <2>2, <2>3, <1>19, <1>20, <1>21 DEF Alloc
<1>23. \A v \in 1 .. n - 3 : OpReg(r, n - 2, v) = OpReg(q, n, v)
  BY <1>16, <1>17
<1> QED BY <1>7, <1>14, <1>22, <1>23 DEF Stepped

LEMMA SteppedTwice ==
  ASSUME NEW q, NEW n, NEW t, NEW a, NEW k, NEW b, NEW r, NEW j, NEW c,
         Stepped(q, n, t, a, k, b), Stepped(a, k, t, r, j, c), b \in Int, c \in Int, c <= b
  PROVE  Stepped(q, n, t, r, j, c)
<1>1. \A v \in 1 .. c : v \in 1 .. b
  OBVIOUS
<1> QED BY <1>1 DEF Stepped

LEMMA SteppedLess ==
  ASSUME NEW q, NEW n, NEW t, NEW r, NEW k, NEW b, NEW c,
         Stepped(q, n, t, r, k, b), b \in Int, c \in Int, c <= b
  PROVE  Stepped(q, n, t, r, k, c)
<1>1. \A v \in 1 .. c : v \in 1 .. b
  OBVIOUS
<1> QED BY <1>1 DEF Stepped

LEMMA AllocSwapped ==
  ASSUME NEW q, NEW n, NEW t, NEW r, q \in RegState, n \in Nat, n > 1, Alloc(q, n, t), r = SwapTop(q)
  PROVE  /\ Stepped(q, n, t, r, n, n - 2) /\ r.full = q.full
         /\ OpReg(r, n, n - 1) = OpReg(q, n, n)
<1>1. Len(q.rstack) > 1
  BY RegStateFacts DEF Alloc
<1>2. r \in RegState /\ r.full = q.full
  BY <1>1, SwapTopFacts
<1>3. /\ Alloc(r, n, t) /\ Cached(r) = Cached(q)
      /\ \A v \in 1 .. n - 2 : OpReg(r, n, v) = OpReg(q, n, v)
      /\ OpReg(r, n, n - 1) = OpReg(q, n, n)
  BY AllocSwap
<1> QED BY <1>2, <1>3 DEF Stepped

LEMMA AllocGrown ==
  ASSUME NEW q, NEW n, NEW t, NEW l, NEW r, q \in RegState, n \in Nat, Alloc(q, n, t), l \in Nat,
         r = Grown(q, l)
  PROVE  Stepped(q, n, t, r, n, n) /\ r.full = q.full /\ r.used = q.used
<1>1. /\ r \in RegState /\ r.rstack = q.rstack /\ r.used = q.used /\ r.pinned = q.pinned
      /\ r.full = q.full /\ r.sound = q.sound /\ Cached(r) = Cached(q)
  BY GrownFacts
<1>2. \A v : OpReg(r, n, v) = OpReg(q, n, v)
  BY <1>1 DEF OpReg
<1>3. Alloc(r, n, t)
  BY <1>1, <1>2 DEF Alloc
<1> QED BY <1>1, <1>2, <1>3 DEF Stepped

-----------------------------------------------------------------------------
(* The registers, action by action: values and operators.                  *)

LEMMA LiveFacts ==
  ASSUME CoreInv, RegInv, ~p.full, NEW n, n = Len(s.vals)
  PROVE  /\ n \in Nat /\ p \in RegState /\ Alloc(p, n, todo) /\ n <= Len(p.rstack)
         /\ Stepped(p, n, todo, p, n, n)
         /\ n - Ready(need) \in Nat /\ n - Ready(need) - Held(Top) \in Nat
         /\ \A i \in DOMAIN todo : Apart(p, n, todo, i) /\ Noted(p, n, todo, i)
<1>1. n \in Nat /\ p \in RegState
  BY CoreFacts
<1>2. Alloc(p, n, todo) /\ \A i \in DOMAIN todo : Apart(p, n, todo, i) /\ Noted(p, n, todo, i)
  BY DEF RegInv, Regs
<1>3. n - Ready(need) \in Nat /\ n - Ready(need) - Held(Top) \in Nat
  BY Waiting
<1> QED BY <1>1, <1>2, <1>3 DEF Stepped, Alloc

LEMMA NewRegStep ==
  ASSUME CoreInv, RegInv, ~p.full, NEW n, n = Len(s.vals), NEW q, q = NewReg(p), ~q.full
  PROVE  /\ Stepped(p, n, todo, q, n + 1, n)
         /\ OpReg(q, n + 1, n + 1) = Dest(q) /\ Dest(q) \notin Cached(p)
BY LiveFacts, AllocNew

(* A value goes to a new register. *)
LEMMA NewValueRegs ==
  ASSUME CoreInv, CoreInv', RegInv, ~p.full, UNCHANGED todo, need = "value", need' = "more",
         p' = NewReg(p)
  PROVE  RegInv'
<1>1. PICK n : n = Len(s.vals)
  OBVIOUS
<1>2. PICK q : q = p'
  OBVIOUS
<1>3. n \in Nat
  BY <1>1, CoreFacts
<1>4. ~q.full => Stepped(p, n, todo, q, n + 1, n)
  BY <1>1, <1>2, NewRegStep
<1>5. ~q.full => Alloc(q, n + 1, todo) /\ Moved(p, n, q, n + 1, n)
  BY <1>3, <1>4, SteppedMoves
<1>6. n - Ready(need) = n /\ n - Ready(need) + Ready(need') = n + 1
  BY <1>3, ReadyFacts
<1>7. SameDraw(n, n + 1)
  BY <1>2, <1>5, <1>6 DEF SameDraw
<1> QED BY <1>1, <1>6, <1>7, SameRegs

LEMMA LiteralRegs ==
  ASSUME CoreInv, CoreInv', RegInv, NEW v \in Literals, Literal(v)
  PROVE  RegInv'
<1>1. ~p.full /\ UNCHANGED todo /\ need = "value" /\ need' = "more" /\ p' = NewReg(p)
  BY ReadsFacts DEF Literal, Go
<1> QED BY <1>1, NewValueRegs

LEMMA FieldRegs ==
  ASSUME CoreInv, CoreInv', RegInv, Field
  PROVE  RegInv'
<1>1. ~p.full /\ UNCHANGED todo /\ need = "value" /\ need' = "more" /\ p' = NewReg(p)
  BY ReadsFacts DEF Field, Go
<1> QED BY <1>1, NewValueRegs

LEMMA IdentifierRegs ==
  ASSUME CoreInv, CoreInv', RegInv, NEW x \in Names, Identifier(x)
  PROVE  RegInv'
<1>1. /\ ~p.full /\ UNCHANGED todo /\ need = "value" /\ need' = "more" /\ Declared(x)
  BY ReadsFacts DEF Identifier
<1>2. PICK n : n = Len(s.vals)
  OBVIOUS
<1>3. PICK l : l = LocalOf(x)
  OBVIOUS
<1>4. PICK g : g = Grown(p, l)
  OBVIOUS
<1>5. PICK d : d = CachedReg(g, l)
  OBVIOUS
<1>6. PICK a : a = NewReg(g)
  OBVIOUS
<1>7. PICK r : r = p'
  OBVIOUS
<1>8. \/ /\ d = NoReg
         /\ r = [a EXCEPT !.cache[l + 1] = IF a.full THEN @ ELSE LastReg(a),
                          !.pinned = IF a.full THEN @ ELSE @ \union {LastReg(a)}]
      \/ d # NoReg /\ r = [PushReg(g, d) EXCEPT !.pinned = @ \union {d}]
  BY <1>3, <1>4, <1>5, <1>6, <1>7 DEF Identifier, Go
<1>9. n \in Nat /\ p \in RegState /\ Alloc(p, n, todo) /\ l \in Nat
  BY <1>1, <1>2, <1>3, LiveFacts, LocalFacts
<1>10. /\ Stepped(p, n, todo, g, n, n) /\ ~g.full /\ g.used = p.used /\ l < Len(g.cache)
       /\ g \in RegState /\ Alloc(g, n, todo) /\ Cached(g) = Cached(p)
       /\ \A v \in 1 .. n : OpReg(g, n, v) = OpReg(p, n, v)
  <2>1. Stepped(p, n, todo, g, n, n) /\ ~g.full /\ g.used = p.used
    BY <1>1, <1>4, <1>9, AllocGrown
  <2>2. l < Len(g.cache)
    BY <1>4, <1>9, GrownFacts
  <2> QED BY <2>1, <2>2 DEF Stepped
<1>11. n - Ready(need) = n /\ n - Ready(need) + Ready(need') = n + 1
  BY <1>1, <1>9, ReadyFacts
<1>12. ~r.full => Alloc(r, n + 1, todo) /\ Moved(p, n, r, n + 1, n)
  <2>1. d = NoReg \/ d # NoReg
    OBVIOUS
  <2>2. CASE d = NoReg /\ ~r.full
    <3>1. a \in RegState
      BY <1>6, <1>10, NewRegFacts
    <3>2. ~a.full
      BY <1>8, <2>2, <3>1 DEF RegState
    <3>3. r = [a EXCEPT !.cache[l + 1] = LastReg(a), !.pinned = @ \union {LastReg(a)}]
      BY <1>8, <2>2, <3>2
    <3>4. Loads(g, n, todo, l, a, r)
      BY <3>2, <3>3, <1>5, <1>6, <1>9, <1>10, <2>2 DEF Loads
    <3>5. /\ Alloc(r, n + 1, todo)
          /\ \A v \in 1 .. n : OpReg(r, n + 1, v) = OpReg(g, n, v)
          /\ \A c \in Cached(r) : c \in Cached(g) \/ c \notin g.used
      BY <3>4, AllocLoad
    <3> QED BY <3>5, <1>10 DEF Moved
  <2>3. CASE d # NoReg
    <3>1. l + 1 \in DOMAIN g.cache /\ d = g.cache[l + 1]
      BY <1>5, <1>9, <1>10, RegStateFacts DEF CachedReg
    <3>2. d \in Cached(g)
      BY <3>1, <2>3 DEF Cached
    <3>3. r = [PushReg(g, d) EXCEPT !.pinned = @ \union {d}]
      BY <1>8, <2>3
    <3>4. Stepped(g, n, todo, r, n + 1, n)
      BY <3>2, <3>3, <1>9, <1>10, AllocPin
    <3> QED BY <3>4, <1>10 DEF Moved, Stepped
  <2> QED BY <2>1, <2>2, <2>3
<1>13. SameDraw(n, n + 1)
  BY <1>7, <1>11, <1>12 DEF SameDraw
<1> QED BY <1>1, <1>2, <1>11, <1>13, SameRegs

(* The operator that waits for its right operand is applied. *)
LEMMA GeneratedRegs ==
  ASSUME CoreInv, RegInv, ~p.full, need \in {"more", "closed"}, NEW n, n = Len(s.vals),
         NEW q, q = Generated.p, ~q.full
  PROVE  /\ Stepped(p, n, todo, q, n - Top.op, n - 1 - Top.op)
         /\ n - 1 - Top.op \in Nat /\ Held(Top) = Top.op /\ Ready(need) = 1 /\ n \in Nat
         /\ Top.op \in 0 .. 1 /\ Top.k = "expr" /\ Top.k # "func"
<1>1. /\ Top.k = "expr" /\ Held(Top) = Top.op /\ Top.op \in 0 .. 1 /\ Ready(need) = 1
  BY CoreFacts, HeldFacts, ReadyFacts DEF Fits
<1>2. /\ n \in Nat /\ p \in RegState /\ Alloc(p, n, todo) /\ Stepped(p, n, todo, p, n, n)
      /\ n - 1 - Top.op \in Nat
  BY <1>1, LiveFacts
<1>3. CASE Top.op = 0
  <2>1. q = p
    BY <1>3 DEF Generated
  <2>2. n - Top.op = n /\ n - 1 - Top.op <= n /\ n - 1 - Top.op \in Int /\ n \in Int
    BY <1>2, <1>3
  <2>3. Stepped(p, n, todo, p, n, n - 1 - Top.op)
    BY <2>2, <1>2, SteppedLess
  <2> QED BY <2>1, <2>2, <2>3, <1>1, <1>2
<1>4. CASE Top.op = 1
  <2>1. q = Apply2(p)
    BY <1>4 DEF Generated
  <2>2. n > 1 /\ n - Top.op = n - 1 /\ n - 1 - Top.op = n - 2
    BY <1>2, <1>4
  <2>3. Stepped(p, n, todo, q, n - 1, n - 2)
    BY <2>1, <2>2, <1>2, AllocApply2
  <2> QED BY <2>2, <2>3, <1>1, <1>2
<1> QED BY <1>1, <1>3, <1>4

LEMMA OperatorRegs ==
  ASSUME CoreInv, CoreInv', RegInv, Operator
  PROVE  RegInv'
<1>1. PICK n : n = Len(s.vals)
  OBVIOUS
<1>2. PICK q : q = p'
  OBVIOUS
<1>3. PICK o : o = [Top EXCEPT !.op = 1]
  OBVIOUS
<1>4. /\ ~p.full /\ need = "more" /\ need' = "value" /\ q = Generated.p
      /\ todo' = Append(Below, o)
  BY <1>2, <1>3, ReadsFacts DEF Operator, Go
<1>5. Top \in ItemSet /\ Notes(Top, vars, placed) /\ Top.k = "expr"
  BY <1>4, CoreFacts DEF Fits
<1>6. /\ o \in ItemSet /\ o.k = "expr" /\ o.op = 1 /\ o.params = Top.params /\ o.x = Top.x
      /\ o.reg = Top.reg
  BY <1>3, <1>5 DEF ItemSet
<1>7. Notes(o, vars, placed) /\ Held(o) = 1 /\ Top.k \notin Holders
  BY <1>5, <1>6, HeldFacts, PlainHolds DEF Notes
<1>8. n \in Nat /\ Top.op \in 0 .. 1 /\ Held(Top) = Top.op /\ n - 1 - Top.op \in Nat
  BY <1>1, <1>4, <1>5, CoreFacts, HeldFacts, ReadyFacts, LiveFacts
<1>9. PICK k : k = n - Top.op
  OBVIOUS
<1>10. /\ k = n - Ready(need) - Held(Top) + Held(o) + Ready(need')
       /\ n - Ready(need) - Held(Top) = n - 1 - Top.op
  BY <1>4, <1>7, <1>8, <1>9, ReadyFacts
<1>11. ~q.full => Stepped(p, n, todo, q, k, n - 1 - Top.op)
  BY <1>1, <1>4, <1>9, GeneratedRegs
<1>12. ~q.full => Alloc(q, k, todo) /\ Moved(p, n, q, k, n - 1 - Top.op)
  BY <1>8, <1>11, SteppedMoves
<1>13. SwapDraw(n, k, o)
  BY <1>2, <1>6, <1>10, <1>12 DEF SwapDraw
<1> QED BY <1>1, <1>4, <1>5, <1>6, <1>7, <1>10, <1>13, SwapRegs

LEMMA EndBinaryRegs ==
  ASSUME CoreInv, CoreInv', RegInv, EndBinary
  PROVE  RegInv'
<1>1. PICK n : n = Len(s.vals)
  OBVIOUS
<1>2. PICK q : q = p'
  OBVIOUS
<1>3. /\ ~p.full /\ need \in {"more", "closed"} /\ need' = "done" /\ q = Generated.p
      /\ todo' = Below
  BY <1>2, ReadsFacts DEF EndBinary, Go
<1>4. Top.k = "expr" /\ Top.k # "func"
  BY <1>3, CoreFacts DEF Fits
<1>5. n \in Nat /\ Top.op \in 0 .. 1 /\ Held(Top) = Top.op /\ n - 1 - Top.op \in Nat
  BY <1>1, <1>3, <1>4, CoreFacts, HeldFacts, ReadyFacts, LiveFacts
<1>6. PICK k : k = n - Top.op
  OBVIOUS
<1>7. /\ k = n - Ready(need) - Held(Top) + Ready(need')
      /\ n - Ready(need) - Held(Top) = n - 1 - Top.op
  BY <1>3, <1>5, <1>6, ReadyFacts
<1>8. ~q.full => Stepped(p, n, todo, q, k, n - 1 - Top.op)
  BY <1>1, <1>3, <1>6, GeneratedRegs
<1>9. ~q.full => Alloc(q, k, todo) /\ Moved(p, n, q, k, n - 1 - Top.op)
  BY <1>5, <1>8, SteppedMoves
<1>10. PopDraw(n, k)
  BY <1>2, <1>7, <1>9 DEF PopDraw
<1> QED BY <1>1, <1>3, <1>4, <1>7, <1>10, PopRegs

(* A construct that ends with its value on the stack, below which b operands wait. *)
Closes(n, b) ==
  /\ CoreInv /\ CoreInv' /\ RegInv /\ ~p.full /\ todo' = Below /\ Top.k # "func"
  /\ n = Len(s.vals) /\ b \in Nat /\ b = n - Ready(need) - Held(Top) /\ Ready(need') = 1

LEMMA ClosesRegs ==
  ASSUME NEW n, NEW b, Closes(n, b), ~p'.full => Stepped(p, n, todo, p', b + 1, b)
  PROVE  RegInv'
<1>1. PICK q : q = p'
  OBVIOUS
<1>2. PICK k : k = b + 1
  OBVIOUS
<1>3. ~q.full => Stepped(p, n, todo, q, k, b)
  BY <1>1, <1>2
<1>4. b \in Nat /\ b = n - Ready(need) - Held(Top) /\ Ready(need') = 1
  BY DEF Closes
<1>5. ~q.full => Alloc(q, k, todo) /\ Moved(p, n, q, k, b)
  BY <1>3, <1>4, SteppedMoves
<1>6. PopDraw(n, k) /\ k = n - Ready(need) - Held(Top) + Ready(need')
  BY <1>1, <1>2, <1>4, <1>5 DEF PopDraw
<1> QED BY <1>6, PopRegs DEF Closes

LEMMA EndPrefixRegs ==
  ASSUME CoreInv, CoreInv', RegInv, EndPrefix
  PROVE  RegInv'
<1>1. PICK n : n = Len(s.vals)
  OBVIOUS
<1>2. PICK q : q = p'
  OBVIOUS
<1>3. /\ ~p.full /\ need = "done" /\ need' \in {"more", "closed"} /\ todo' = Below
      /\ Top.k \in {"paren", "not"} /\ (q = p \/ q = Apply1(p))
  BY <1>2, ReadsFacts DEF EndPrefix, Go
<1>4. /\ n \in Nat /\ p \in RegState /\ Alloc(p, n, todo) /\ Stepped(p, n, todo, p, n, n)
      /\ Held(Top) = 0 /\ n - 1 \in Nat
  BY <1>1, <1>3, LiveFacts, HeldFacts, ReadyFacts
<1>5. Closes(n, n - 1)
  BY <1>1, <1>3, <1>4, ReadyFacts DEF Closes
<1>6. ~q.full => Stepped(p, n, todo, q, n, n - 1)
  <2>1. n \in Nat \ {0} /\ n \in Int /\ n - 1 \in Int /\ n - 1 <= n
    BY <1>4
  <2>2. Stepped(p, n, todo, p, n, n - 1)
    BY <2>1, <1>4, SteppedLess
  <2>3. q = Apply1(p) /\ ~q.full => Stepped(p, n, todo, q, n, n - 1)
    BY <2>1, <1>3, <1>4, AllocApply1
  <2> QED BY <2>2, <2>3, <1>3
<1>7. n - 1 + 1 = n
  BY <1>4
<1> QED BY <1>2, <1>5, <1>6, <1>7, ClosesRegs

(* Where the innermost construct's registers are among the operands. *)
LEMMA TopNoted ==
  ASSUME CoreInv, RegInv, ~p.full, NEW n, n = Len(s.vals), NEW h, h = Len(todo)
  PROVE  /\ h \in DOMAIN todo /\ todo[h] = Top /\ Upto(todo, h) = n - Ready(need)
         /\ Apart(p, n, todo, h) /\ Noted(p, n, todo, h)
         /\ 0 < n => OpReg(p, n, n) = LastReg(p)
<1>1. h \in DOMAIN todo /\ todo[h] = Top /\ DOMAIN todo = 1 .. h
  BY CoreFacts
<1>2. Upto(todo, h) = n - Ready(need)
  BY Waiting
<1>3. /\ n \in Nat /\ p \in RegState /\ n <= Len(p.rstack)
      /\ \A i \in DOMAIN todo : Apart(p, n, todo, i) /\ Noted(p, n, todo, i)
  BY LiveFacts
<1>4. 0 < n => OpReg(p, n, n) = LastReg(p)
  <2>1. 0 < n => n \in 1 .. n
    BY <1>3
  <2> QED BY <2>1, <1>3, OpRegIn
<1> QED BY <1>1, <1>2, <1>3, <1>4

(* What waits is pending, as the guards of Careful say. *)
LEMMA PendingFacts ==
  ASSUME CoreInv, NEW q, NEW k, q \in RegState, k \in Nat, k <= Len(q.rstack)
  PROVE  /\ \A v \in 1 .. k - 1 : OpReg(q, k, v) \in Pending(q)
         /\ \A i \in DOMAIN todo : \A l \in DOMAIN todo[i].params :
              todo[i].params[l].reg \in Pending(q)
<1>1. ASSUME NEW v \in 1 .. k - 1 PROVE OpReg(q, k, v) \in Range(Front(q.rstack))
  <2>1. PICK i : i = Len(q.rstack) - k + v
    OBVIOUS
  <2>2. q.rstack \in Seq(Reg) /\ Len(q.rstack) \in Nat
    BY RegStateFacts
  <2>3. i \in 1 .. Len(q.rstack) - 1 /\ q.rstack # <<>>
    BY <2>1, <2>2
  <2>4. i \in DOMAIN Front(q.rstack) /\ Front(q.rstack)[i] = q.rstack[i]
    BY <2>2, <2>3, FrontFacts
  <2>5. OpReg(q, k, v) = q.rstack[i]
    BY <2>1 DEF OpReg
  <2> QED BY <2>4, <2>5 DEF Range
<1>2. ASSUME NEW i \in DOMAIN todo, NEW l \in DOMAIN todo[i].params
      PROVE  todo[i].params[l].reg \in ParamRegs
  <2>1. todo[i].params[l] \in Range(todo[i].params)
    BY DEF Range
  <2> QED BY <2>1 DEF ParamRegs
<1> QED BY <1>1, <1>2 DEF Pending

LEMMA FlushForgets ==
  ASSUME NEW q, NEW k, q \in RegState, k \in Nat, k <= Len(q.rstack),
         Cached(q) = CachedRegs, Pending(q) \intersect CachedRegs = {}, CoreInv
  PROVE  Forgets(q, k, todo)
<1>1. /\ \A v \in 1 .. k - 1 : OpReg(q, k, v) \in Pending(q)
      /\ \A i \in DOMAIN todo : \A l \in DOMAIN todo[i].params :
           todo[i].params[l].reg \in Pending(q)
  BY PendingFacts
<1> QED BY <1>1 DEF Forgets

(* The value so far is under the register that && or || has taken. *)
Tests(q, n, t, f, a, c, r) ==
  /\ q \in RegState /\ n \in Nat \ {0} /\ Alloc(q, n, t) /\ ~q.full /\ Forgets(q, n, t)
  /\ f = FlushCached(q) /\ a = NewReg(f) /\ ~a.full /\ c = SwapTop(a) /\ r = PopReg(c)

LEMMA AllocTest ==
  ASSUME NEW q, NEW n, NEW t, NEW f, NEW a, NEW c, NEW r, Tests(q, n, t, f, a, c, r)
  PROVE  /\ Alloc(r, n, t) /\ Cached(r) = {} /\ OpReg(r, n, n) = Dest(a) /\ ~r.full
         /\ \A v \in 1 .. n - 1 : OpReg(r, n, v) = OpReg(q, n, v)
<1>0. /\ q \in RegState /\ n \in Nat \ {0} /\ Alloc(q, n, t) /\ ~q.full /\ Forgets(q, n, t)
      /\ f = FlushCached(q) /\ a = NewReg(f) /\ ~a.full /\ c = SwapTop(a) /\ r = PopReg(c)
  BY DEF Tests
<1>1. /\ f \in RegState /\ ~f.full /\ Alloc(f, n, t) /\ Cached(f) = {}
      /\ \A v \in 1 .. n : OpReg(f, n, v) = OpReg(q, n, v)
  <2>1. q \in RegState /\ n \in Nat /\ Alloc(q, n, t) /\ f = FlushCached(q) /\ Forgets(q, n, t)
    BY <1>0
  <2>2. /\ f \in RegState /\ f.full = q.full /\ Alloc(f, n, t) /\ Cached(f) = {}
        /\ \A v \in 1 .. n : OpReg(f, n, v) = OpReg(q, n, v)
    BY <2>1, AllocFlush
  <2> QED BY <2>2, <1>0
<1>2. Stepped(f, n, t, a, n + 1, n) /\ OpReg(a, n + 1, n + 1) = Dest(a)
  BY <1>0, <1>1, AllocNew
<1>3. PICK k : k = n + 1
  OBVIOUS
<1>4. /\ a \in RegState /\ k \in Nat \ {0} /\ k > 1 /\ Alloc(a, k, t) /\ Cached(a) = {}
      /\ \A v \in 1 .. n : OpReg(a, k, v) = OpReg(f, n, v)
      /\ OpReg(a, k, k) = Dest(a)
  BY <1>0, <1>1, <1>2, <1>3 DEF Stepped
<1>5. Stepped(a, k, t, c, k, k - 2) /\ ~c.full /\ OpReg(c, k, k - 1) = OpReg(a, k, k)
  BY <1>0, <1>4, AllocSwapped
<1>6. /\ c \in RegState /\ Alloc(c, k, t) /\ Cached(c) = {}
      /\ \A v \in 1 .. k - 2 : OpReg(c, k, v) = OpReg(a, k, v)
  BY <1>4, <1>5 DEF Stepped
<1>7. Stepped(c, k, t, r, k - 1, k - 1) /\ r.full = c.full
  BY <1>0, <1>4, <1>6, AllocPopped
<1>8. /\ Alloc(r, n, t) /\ Cached(r) = {} /\ ~r.full
      /\ \A v \in 1 .. n : OpReg(r, n, v) = OpReg(c, k, v)
  <2>1. k - 1 = n
    BY <1>0, <1>3
  <2> QED BY <2>1, <1>5, <1>6, <1>7 DEF Stepped
<1>9. OpReg(r, n, n) = Dest(a)
  <2>1. n \in 1 .. n /\ k - 1 = n
    BY <1>0, <1>3
  <2> QED BY <2>1, <1>4, <1>5, <1>8
<1>10. ASSUME NEW v \in 1 .. n - 1 PROVE OpReg(r, n, v) = OpReg(q, n, v)
  <2>1. v \in 1 .. n /\ v \in 1 .. k - 2
    BY <1>0, <1>3
  <2> QED BY <2>1, <1>1, <1>4, <1>6, <1>8
<1> QED BY <1>8, <1>9, <1>10

LEMMA LogicalRegs ==
  ASSUME Careful, CoreInv, CoreInv', RegInv, NEW kind \in {"and", "or"}, Logical(kind)
  PROVE  RegInv'
<1>1. PICK n : n = Len(s.vals)
  OBVIOUS
<1>2. PICK q : q = Generated.p
  OBVIOUS
<1>3. PICK f : f = FlushCached(q)
  OBVIOUS
<1>4. PICK a : a = NewReg(f)
  OBVIOUS
<1>5. PICK c : c = SwapTop(a)
  OBVIOUS
<1>6. PICK r : r = p'
  OBVIOUS
<1>7. PICK o : o = [Item(kind) EXCEPT !.reg = Dest(a)]
  OBVIOUS
<1>8. /\ ~p.full /\ need = "more" /\ need' = "value" /\ ~q.full
      /\ todo' = Below \o <<o, Item("expr")>>
      /\ Pending(q) \intersect CachedRegs = {}
      /\ IF a.full THEN r = a ELSE r = PopReg(c)
  BY <1>2, <1>3, <1>4, <1>5, <1>6, <1>7, ReadsFacts DEF Logical, Go, SafeFlush
<1>9. /\ Stepped(p, n, todo, q, n - Top.op, n - 1 - Top.op)
      /\ n - 1 - Top.op \in Nat /\ Held(Top) = Top.op /\ Ready(need) = 1 /\ n \in Nat
      /\ Top.op \in 0 .. 1 /\ Top.k # "func"
  BY <1>1, <1>2, <1>8, GeneratedRegs
<1>10. PICK k : k = n - Top.op
  OBVIOUS
<1>11. k \in Nat \ {0} /\ k - 1 = n - 1 - Top.op /\ n - Ready(need) - Held(Top) = k - 1
  BY <1>9, <1>10
<1>12. /\ q \in RegState /\ Alloc(q, k, todo) /\ Cached(q) = Cached(p)
       /\ \A v \in 1 .. k - 1 : OpReg(q, k, v) = OpReg(p, n, v)
  BY <1>9, <1>10, <1>11 DEF Stepped
<1>13. f \in RegState /\ a \in RegState /\ Dest(a) \in Reg
  BY <1>3, <1>4, <1>12, FlushFacts, NewRegFacts
<1>14. /\ o \in ItemSet /\ o.k = kind /\ o.reg = Dest(a) /\ o.params = <<>> /\ Held(o) = 1
       /\ o.k \in LogicalKinds /\ o.k # "array" /\ o.k # "idxset" /\ o.k \in Holders \ {"idxset"}
  <2>1. kind \in Kinds /\ kind \in LogicalKinds /\ kind # "array" /\ kind # "idxset"
    BY DEF Kinds, ExprReaders, LogicalKinds
  <2>2. o \in ItemSet /\ o.k = kind /\ o.reg = Dest(a) /\ o.params = <<>>
    BY <2>1, <1>7, <1>13, ItemFacts
  <2> QED BY <2>1, <2>2, HeldFacts DEF Holders
<1>15. Forgets(q, k, todo)
  <2>1. Cached(q) = CachedRegs /\ k <= Len(q.rstack) /\ k \in Nat
    BY <1>11, <1>12 DEF Cached, CachedRegs, Alloc
  <2> QED BY <2>1, <1>8, <1>12, FlushForgets
<1>16. ASSUME ~r.full
       PROVE  /\ Alloc(r, k, todo) /\ Cached(r) = {} /\ OpReg(r, k, k) = Dest(a)
              /\ \A v \in 1 .. k - 1 : OpReg(r, k, v) = OpReg(q, k, v)
  <2>1. ~a.full /\ r = PopReg(c)
    BY <1>8, <1>16
  <2>2. Tests(q, k, todo, f, a, c, r)
    BY <2>1, <1>3, <1>4, <1>5, <1>8, <1>11, <1>12, <1>15 DEF Tests
  <2> QED BY <2>2, AllocTest
<1>17. ~r.full => Moved(p, n, r, k, k - 1)
  BY <1>12, <1>16 DEF Moved
<1>18. ~r.full => Settled(o, r, k)
  BY <1>14, <1>16 DEF Settled
<1>19. OpenDraw(n, k, n - Ready(need) - Held(Top), o)
  BY <1>6, <1>11, <1>14, <1>16, <1>17, <1>18 DEF OpenDraw
<1>20. k = n - Ready(need) - Held(Top) + Held(o)
  BY <1>11, <1>14
<1> QED BY <1>1, <1>8, <1>9, <1>14, <1>19, <1>20, ReopenRegs

LEMMA EndLogicalRegs ==
  ASSUME CoreInv, CoreInv', RegInv, EndLogical
  PROVE  RegInv'
<1>1. PICK n : n = Len(s.vals)
  OBVIOUS
<1>2. PICK h : h = Len(todo)
  OBVIOUS
<1>3. PICK f : f = FlushCached(p)
  OBVIOUS
<1>4. PICK r : r = p'
  OBVIOUS
<1>5. /\ ~p.full /\ need = "done" /\ need' = "done" /\ todo' = Below /\ Top.k \in LogicalKinds
      /\ r = PopReg(f) /\ Top.k # "func"
  BY <1>3, <1>4, ReadsFacts DEF EndLogical, Go, LogicalKinds
<1>6. /\ n \in Nat /\ p \in RegState /\ Alloc(p, n, todo) /\ Held(Top) = 1 /\ Ready(need) = 1
      /\ n - 2 \in Nat
  BY <1>1, <1>5, LiveFacts, HeldFacts, ReadyFacts
<1>7. Forgets(p, n, todo)
  <2>1. h \in DOMAIN todo /\ todo[h] = Top /\ Upto(todo, h) = n - 1 /\ Apart(p, n, todo, h)
    BY <1>1, <1>2, <1>5, <1>6, TopNoted
  <2>2. \A i \in DOMAIN todo : i \in 1 .. h
    BY <1>2, CoreFacts
  <2> QED BY <2>1, <2>2, <1>5 DEF Apart, Forgets
<1>8. /\ f \in RegState /\ Alloc(f, n, todo) /\ Cached(f) = {}
      /\ \A v \in 1 .. n : OpReg(f, n, v) = OpReg(p, n, v)
  BY <1>3, <1>6, <1>7, AllocFlush
<1>9. n \in Nat \ {0}
  BY <1>6
<1>10. Stepped(f, n, todo, r, n - 1, n - 1)
  BY <1>5, <1>8, <1>9, AllocPopped
<1>11. PICK k : k = n - 1
  OBVIOUS
<1>12. Alloc(r, k, todo) /\ Cached(r) = {} /\ \A v \in 1 .. k : OpReg(r, k, v) = OpReg(f, n, v)
  BY <1>8, <1>10, <1>11 DEF Stepped
<1>13. \A v \in 1 .. n - 2 : v \in 1 .. n /\ v \in 1 .. k
  BY <1>6, <1>11
<1>14. Moved(p, n, r, k, n - 2)
  BY <1>8, <1>12, <1>13 DEF Moved
<1>15. n - Ready(need) - Held(Top) = n - 2 /\ k = n - Ready(need) - Held(Top) + Ready(need')
  BY <1>5, <1>6, <1>11, ReadyFacts
<1>16. PopDraw(n, k)
  BY <1>4, <1>12, <1>14, <1>15 DEF PopDraw
<1> QED BY <1>1, <1>5, <1>15, <1>16, PopRegs

(* Constructs that begin and leave the registers alone. *)
Quiet(o, n) ==
  /\ CoreInv /\ CoreInv' /\ RegInv /\ ~p.full /\ n = Len(s.vals) /\ p' = p
  /\ o \in ItemSet /\ o.params = <<>> /\ Notes(o, vars, placed) /\ Nests(Top.k, o.k)
  /\ o.k \in ExprReaders /\ Open(o) /\ Held(o) = Ready(need) /\ Settled(o, p, n)

LEMMA QuietRegs ==
  ASSUME NEW o, NEW n, Quiet(o, n)
  PROVE  RegInv'
<1>1. /\ CoreInv /\ CoreInv' /\ RegInv /\ ~p.full /\ n = Len(s.vals) /\ p' = p
      /\ o \in ItemSet /\ o.params = <<>> /\ Notes(o, vars, placed) /\ Nests(Top.k, o.k)
      /\ o.k \in ExprReaders /\ Open(o) /\ Held(o) = Ready(need) /\ Settled(o, p, n)
  BY DEF Quiet
<1>2. /\ n \in Nat /\ Alloc(p, n, todo) /\ Stepped(p, n, todo, p, n, n) /\ n - Ready(need) \in Nat
  BY <1>1, LiveFacts
<1>3. n - Ready(need) <= n /\ n = n - Ready(need) + Held(o)
  BY <1>1, <1>2, ReadyFacts
<1>4. Moved(p, n, p, n, n - Ready(need))
  BY <1>2, <1>3, SteppedMoves
<1>5. OpenDraw(n, n, n - Ready(need), o)
  BY <1>1, <1>2, <1>4 DEF OpenDraw
<1> QED BY <1>1, <1>3, <1>5, OpenRegs

(* Constructs without a register, at the place of a value. *)
LEMMA PlainRegs ==
  ASSUME CoreInv, CoreInv', RegInv, ~p.full, p' = p, need = "value", NEW o, o \in ItemSet,
         o.params = <<>>, Notes(o, vars, placed), Open(o),
         o.k \in {"paren", "not", "call", "new", "assign", "compound", "fieldset", "fieldop"}
  PROVE  RegInv'
<1>1. /\ o.k \in OperandKinds /\ o.k \in ExprReaders /\ o.k \notin Holders /\ Held(o) = 0
  BY HeldFacts DEF OperandKinds, ExprReaders, Holders, LogicalKinds, ListKinds
<1>2. Top.k = "expr" /\ Ready(need) = 0
  BY CoreFacts, ReadyFacts DEF Fits
<1>3. Nests(Top.k, o.k)
  BY <1>1, <1>2 DEF Nests
<1>4. PICK n : n = Len(s.vals)
  OBVIOUS
<1>5. Settled(o, p, n)
  BY <1>1, PlainHolds
<1>6. Quiet(o, n)
  BY <1>1, <1>2, <1>3, <1>4, <1>5 DEF Quiet
<1> QED BY <1>6, QuietRegs

LEMMA PrefixRegs ==
  ASSUME CoreInv, CoreInv', RegInv, NEW kind \in {"paren", "not"}, Prefix(kind)
  PROVE  RegInv'
<1>1. PICK o : o = Item(kind)
  OBVIOUS
<1>2. ~p.full /\ p' = p /\ need = "value" /\ Open(o)
  BY <1>1, ReadsFacts DEF Prefix
<1>3. o \in ItemSet /\ o.params = <<>> /\ Notes(o, vars, placed) /\ o.k = kind
  BY <1>1, ItemFacts DEF Kinds, ExprReaders, OperandKinds
<1> QED BY <1>2, <1>3, PlainRegs

LEMMA AssignFieldRegs ==
  ASSUME CoreInv, CoreInv', RegInv, NEW k \in {"fieldset", "fieldop"}, AssignField(k)
  PROVE  RegInv'
<1>1. PICK o : o = Item(k)
  OBVIOUS
<1>2. ~p.full /\ p' = p /\ need = "value" /\ Open(o)
  BY <1>1, ReadsFacts DEF AssignField
<1>3. o \in ItemSet /\ o.params = <<>> /\ Notes(o, vars, placed) /\ o.k = k
  BY <1>1, ItemFacts DEF Kinds, ExprReaders, OperandKinds
<1> QED BY <1>2, <1>3, PlainRegs

LEMMA AssignRegs ==
  ASSUME CoreInv, CoreInv', RegInv, NEW k \in {"assign", "compound"}, NEW x \in Names, Assign(k, x)
  PROVE  RegInv'
<1>1. PICK o : o = [Item(k) EXCEPT !.x = x]
  OBVIOUS
<1>2. ~p.full /\ p' = p /\ need = "value" /\ Open(o) /\ Declared(x)
  BY <1>1, ReadsFacts DEF Assign
<1>3. /\ o.k = k /\ o.x = x /\ o.params = <<>> /\ o.reg = 0 /\ o.op = 0
      /\ o = [k |-> k, op |-> 0, reg |-> 0, x |-> x, params |-> <<>>]
  BY <1>1 DEF Item
<1>4. k \in Kinds /\ k \notin ListKinds
  BY DEF Kinds, ExprReaders, OperandKinds, ListKinds
<1>5. o \in ItemSet
  BY <1>3, <1>4, RegZero DEF ItemSet
<1>6. Notes(o, vars, placed)
  BY <1>2, <1>3, <1>4 DEF Notes, Declared
<1> QED BY <1>2, <1>3, <1>5, <1>6, PlainRegs

LEMMA IndexRegs ==
  ASSUME CoreInv, CoreInv', RegInv, Index
  PROVE  RegInv'
<1>1. PICK o : o = [Item("index") EXCEPT !.reg = LastReg(p)]
  OBVIOUS
<1>2. PICK n : n = Len(s.vals)
  OBVIOUS
<1>3. ~p.full /\ p' = p /\ need = "more" /\ Open(o) /\ Ready(need) = 1
  BY <1>1, ReadsFacts, ReadyFacts DEF Index
<1>4. /\ n \in Nat /\ p \in RegState /\ 0 < n /\ LastReg(p) \in Reg /\ Fits(need, Top.k)
      /\ OpReg(p, n, n) = LastReg(p)
  <2>1. n \in Nat /\ p \in RegState /\ 0 < n /\ n <= Len(p.rstack) /\ Fits(need, Top.k)
    BY <1>2, <1>3, CoreFacts, LiveFacts
  <2>2. n \in 1 .. n
    BY <2>1
  <2> QED BY <2>1, <2>2, OpRegIn
<1>5. "index" \in Kinds /\ "index" \in Holders \ {"idxset"} /\ "index" \notin LogicalKinds
  BY DEF Kinds, ExprReaders, OperandKinds, Holders, LogicalKinds
<1>6. /\ o \in ItemSet /\ o.k = "index" /\ o.reg = LastReg(p) /\ o.params = <<>>
      /\ Notes(o, vars, placed) /\ Held(o) = 1
  <2>1. /\ o \in ItemSet /\ o.k = "index" /\ o.reg = LastReg(p) /\ o.params = <<>>
        /\ Notes(o, vars, placed)
    BY <1>1, <1>4, <1>5, ItemFacts
  <2> QED BY <2>1, HeldFacts
<1>7. Nests(Top.k, o.k) /\ o.k \in ExprReaders
  BY <1>3, <1>4, <1>6 DEF Fits, Nests, ExprReaders, OperandKinds
<1>8. Settled(o, p, n)
  BY <1>4, <1>5, <1>6 DEF Settled
<1>9. Quiet(o, n)
  BY <1>2, <1>3, <1>6, <1>7, <1>8 DEF Quiet
<1> QED BY <1>9, QuietRegs

LEMMA IdxGetRegs ==
  ASSUME CoreInv, CoreInv', RegInv, IdxGet
  PROVE  RegInv'
<1>1. PICK n : n = Len(s.vals)
  OBVIOUS
<1>2. PICK q : q = NewReg(p)
  OBVIOUS
<1>3. PICK r : r = p'
  OBVIOUS
<1>4. /\ ~p.full /\ need = "done" /\ need' = "more" /\ todo' = Below /\ Top.k = "index"
      /\ r = Collapse(q)
  BY <1>2, <1>3, ReadsFacts DEF IdxGet, Go
<1>5. n \in Nat /\ p \in RegState /\ Held(Top) = 1 /\ Ready(need) = 1 /\ n - 2 \in Nat
  BY <1>1, <1>4, LiveFacts, HeldFacts, ReadyFacts
<1>6. q.full => r.full
  BY <1>4 DEF Collapse
<1>7. ASSUME ~r.full PROVE Stepped(p, n, todo, r, n - 1, n - 2)
  <2>1. ~q.full
    BY <1>6, <1>7
  <2>2. Stepped(p, n, todo, q, n + 1, n)
    BY <2>1, <1>1, <1>2, <1>4, NewRegStep
  <2>3. PICK k : k = n + 1
    OBVIOUS
  <2>4. q \in RegState /\ k \in Nat /\ k > 2 /\ Alloc(q, k, todo)
    BY <2>2, <2>3, <1>5 DEF Stepped
  <2>5. Stepped(q, k, todo, r, k - 2, k - 3)
    BY <2>1, <2>4, <1>4, AllocCollapse
  <2>6. Stepped(q, k, todo, r, n - 1, n - 2)
    <3>1. k - 2 = n - 1 /\ k - 3 = n - 2
      BY <2>3, <1>5
    <3> QED BY <2>5, <3>1
  <2>7. Stepped(p, n, todo, q, k, n) /\ n \in Int /\ n - 2 \in Int /\ n - 2 <= n
    BY <2>2, <2>3, <1>5
  <2> QED BY <2>6, <2>7, SteppedTwice
<1>8. PICK b : b = n - 2
  OBVIOUS
<1>9. Closes(n, b)
  BY <1>1, <1>4, <1>5, <1>8, ReadyFacts DEF Closes
<1>10. b + 1 = n - 1
  BY <1>5, <1>8
<1>11. ~p'.full => Stepped(p, n, todo, p', b + 1, b)
  BY <1>3, <1>7, <1>8, <1>10
<1> QED BY <1>9, <1>11, ClosesRegs

LEMMA IdxSetRegs ==
  ASSUME CoreInv, CoreInv', RegInv, NEW op \in 0 .. 1, IdxSet(op)
  PROVE  RegInv'
<1>1. PICK o : o = [Item("idxset") EXCEPT !.op = op, !.reg = Top.reg, !.x = LastReg(p)]
  OBVIOUS
<1>2. PICK n : n = Len(s.vals)
  OBVIOUS
<1>3. PICK h : h = Len(todo)
  OBVIOUS
<1>4. /\ ~p.full /\ p' = p /\ need = "done" /\ need' = "value" /\ Top.k = "index"
      /\ todo' = Below \o <<o, Item("expr")>>
  BY <1>1, ReadsFacts DEF IdxSet
<1>5. /\ n \in Nat /\ p \in RegState /\ Held(Top) = 1 /\ Ready(need) = 1 /\ n - 2 \in Nat
      /\ n <= Len(p.rstack) /\ Alloc(p, n, todo) /\ Stepped(p, n, todo, p, n, n)
      /\ Top.reg \in Reg /\ Top.k # "func"
  <2>1. Held(Top) = 1 /\ Ready(need) = 1
    BY <1>4, HeldFacts, ReadyFacts
  <2>2. Top \in ItemSet
    BY CoreFacts
  <2>3. Top.reg \in Reg
    BY <2>2 DEF ItemSet
  <2>4. /\ n \in Nat /\ p \in RegState /\ Alloc(p, n, todo) /\ n <= Len(p.rstack)
        /\ Stepped(p, n, todo, p, n, n) /\ n - Ready(need) - Held(Top) \in Nat
    BY <1>2, <1>4, LiveFacts
  <2> QED BY <2>1, <2>3, <2>4, <1>4
<1>6. OpReg(p, n, n) = LastReg(p) /\ LastReg(p) \in Reg
  <2>1. n \in 1 .. n
    BY <1>5
  <2> QED BY <2>1, <1>5, OpRegIn
<1>7. Top.reg = OpReg(p, n, n - 1)
  <2>1. todo[h] = Top /\ Upto(todo, h) = n - 1 /\ Noted(p, n, todo, h)
    BY <1>2, <1>3, <1>4, <1>5, TopNoted
  <2>2. "index" \in Holders \ {"idxset"}
    BY DEF Holders
  <2> QED BY <2>1, <2>2, <1>4 DEF Noted
<1>8. /\ o.k = "idxset" /\ o.op = op /\ o.reg = Top.reg /\ o.x = LastReg(p) /\ o.params = <<>>
      /\ o = [k |-> "idxset", op |-> op, reg |-> Top.reg, x |-> LastReg(p), params |-> <<>>]
  BY <1>1 DEF Item
<1>9. o \in ItemSet /\ Held(o) = 2
  <2>1. "idxset" \in Kinds
    BY DEF Kinds, ExprReaders, OperandKinds
  <2> QED BY <2>1, <1>5, <1>6, <1>8, EmptySeq, HeldFacts DEF ItemSet
<1>10. Settled(o, p, n)
  BY <1>6, <1>7, <1>8 DEF Settled, LogicalKinds
<1>11. n - Ready(need) - Held(Top) = n - 2 /\ n = n - Ready(need) - Held(Top) + Held(o)
  BY <1>5, <1>9
<1>12. Moved(p, n, p, n, n - 2)
  <2>1. n - 2 <= n
    BY <1>5
  <2> QED BY <2>1, <1>5, SteppedMoves
<1>13. OpenDraw(n, n, n - Ready(need) - Held(Top), o)
  BY <1>4, <1>5, <1>8, <1>10, <1>11, <1>12 DEF OpenDraw
<1> QED BY <1>2, <1>4, <1>5, <1>9, <1>11, <1>13, ReopenRegs

(* "a[i] op= e": the value so far is below e, and both go with the place. *)
LEMMA AllocModify ==
  ASSUME NEW q, NEW n, NEW t, NEW r, q \in RegState, n \in Nat, n > 2, Stepped(q, n, t, r, n + 1, n),
         ~r.full, NEW z, z = Collapse(PopReg(SwapTop(r)))
  PROVE  Stepped(q, n, t, z, n - 2, n - 3)
<1>1. PICK a : a = SwapTop(r)
  OBVIOUS
<1>2. PICK c : c = PopReg(a)
  OBVIOUS
<1>3. PICK k : k = n + 1
  OBVIOUS
<1>4. r \in RegState /\ k \in Nat /\ k > 1 /\ Alloc(r, k, t) /\ Stepped(q, n, t, r, k, n)
  BY <1>3 DEF Stepped
<1>5. Stepped(r, k, t, a, k, k - 2) /\ ~a.full
  BY <1>1, <1>4, AllocSwapped
<1>6. a \in RegState /\ k \in Nat \ {0} /\ Alloc(a, k, t)
  BY <1>4, <1>5 DEF Stepped
<1>7. Stepped(a, k, t, c, k - 1, k - 1) /\ ~c.full
  BY <1>2, <1>5, <1>6, AllocPopped
<1>8. k - 1 = n /\ k - 2 = n - 1
  BY <1>3
<1>9. Stepped(a, k, t, c, n, n)
  BY <1>7, <1>8
<1>10. c \in RegState /\ Alloc(c, n, t)
  BY <1>9 DEF Stepped
<1>11. Stepped(c, n, t, z, n - 2, n - 3)
  BY <1>1, <1>2, <1>7, <1>10, AllocCollapse
<1>12. /\ n \in Int /\ n - 3 \in Int /\ n - 3 <= n /\ k - 2 \in Int /\ n - 3 <= k - 2
  BY <1>8
<1>13. Stepped(a, k, t, z, n - 2, n - 3)
  BY <1>9, <1>11, <1>12, SteppedTwice
<1>14. Stepped(r, k, t, z, n - 2, n - 3)
  BY <1>5, <1>12, <1>13, SteppedTwice
<1> QED BY <1>4, <1>12, <1>14, SteppedTwice

LEMMA EndIdxSetRegs ==
  ASSUME CoreInv, CoreInv', RegInv, EndIdxSet
  PROVE  RegInv'
<1>1. PICK n : n = Len(s.vals)
  OBVIOUS
<1>2. PICK q : q = NewReg(p)
  OBVIOUS
<1>3. PICK r : r = p'
  OBVIOUS
<1>4. /\ ~p.full /\ need = "done" /\ need' = "closed" /\ todo' = Below /\ Top.k = "idxset"
      /\ \/ r = Collapse(p)
         \/ r = IF q.full THEN q ELSE Collapse(PopReg(SwapTop(q)))
  BY <1>2, <1>3, ReadsFacts DEF EndIdxSet, Go
<1>5. /\ n \in Nat /\ p \in RegState /\ Alloc(p, n, todo) /\ Held(Top) = 2 /\ Ready(need) = 1
      /\ n - 3 \in Nat /\ n > 2
  BY <1>1, <1>4, LiveFacts, HeldFacts, ReadyFacts
<1>6. ASSUME ~r.full PROVE Stepped(p, n, todo, r, n - 2, n - 3)
  <2>1. CASE r = Collapse(p)
    BY <2>1, <1>4, <1>5, AllocCollapse
  <2>2. CASE ~q.full /\ r = Collapse(PopReg(SwapTop(q)))
    <3>1. Stepped(p, n, todo, q, n + 1, n)
      BY <2>2, <1>1, <1>2, <1>4, NewRegStep
    <3> QED BY <3>1, <2>2, <1>5, AllocModify
  <2> QED BY <2>1, <2>2, <1>4, <1>6
<1>7. PICK b : b = n - 3
  OBVIOUS
<1>8. Closes(n, b)
  BY <1>1, <1>4, <1>5, <1>7, ReadyFacts DEF Closes
<1>9. b + 1 = n - 2
  BY <1>5, <1>7
<1>10. ~p'.full => Stepped(p, n, todo, p', b + 1, b)
  BY <1>3, <1>6, <1>7, <1>9
<1> QED BY <1>8, <1>10, ClosesRegs

LEMMA BindRegs ==
  ASSUME Careful, CoreInv, CoreInv', RegInv, Bind
  PROVE  RegInv'
<1>1. PICK n : n = Len(s.vals)
  OBVIOUS
<1>2. PICK q : q = p'
  OBVIOUS
<1>3. /\ ~p.full /\ need = "more" /\ need' = need /\ UNCHANGED todo /\ n = 1 /\ q = NewReg(p)
  BY <1>1, <1>2, ReadsFacts DEF Bind, Go
<1>4. Ready(need) = 1 /\ Ready(need') = 1 /\ n - Ready(need) = 0
      /\ 1 = n - Ready(need) + Ready(need')
  BY <1>3, ReadyFacts
<1>5. ASSUME ~q.full PROVE Alloc(q, 1, todo) /\ Moved(p, n, q, 1, 0)
  <2>1. Stepped(p, n, todo, q, n + 1, n)
    BY <1>1, <1>3, <1>5, NewRegStep
  <2>2. PICK k : k = n + 1
    OBVIOUS
  <2>3. q \in RegState /\ k \in Nat \ {0} /\ Alloc(q, k, todo) /\ Cached(q) = Cached(p)
    BY <2>1, <2>2, <1>3 DEF Stepped
  <2>4. Alloc(q, k - 1, todo)
    BY <2>3, AllocLeave
  <2>5. k - 1 = 1
    BY <2>2, <1>3
  <2> QED BY <2>3, <2>4, <2>5 DEF Moved
<1>6. SameDraw(n, 1)
  BY <1>2, <1>4, <1>5 DEF SameDraw
<1> QED BY <1>1, <1>3, <1>4, <1>6, SameRegs

LEMMA CommaRegs ==
  ASSUME CoreInv, CoreInv', RegInv, Comma
  PROVE  RegInv'
<1>1. PICK n : n = Len(s.vals)
  OBVIOUS
<1>2. /\ ~p.full /\ need = "comma" /\ need' = "value" /\ p' = p
      /\ todo' = Append(todo, Item("expr"))
  BY ReadsFacts DEF Comma
<1>3. Top.k \in ExprReaders
  BY <1>2, CoreFacts DEF Fits, ExprReaders, OperandKinds
<1>4. n \in Nat /\ Alloc(p, n, todo) /\ Stepped(p, n, todo, p, n, n)
  BY <1>1, <1>2, LiveFacts
<1>5. n - Ready(need) = n /\ n = n - Ready(need) + Ready(need')
  BY <1>2, <1>4, ReadyFacts
<1>6. Moved(p, n, p, n, n)
  BY <1>4, SteppedMoves
<1>7. PushDraw(n, n)
  BY <1>2, <1>4, <1>5, <1>6 DEF PushDraw
<1> QED BY <1>1, <1>2, <1>3, <1>5, <1>7, PushRegs

(* The last operand becomes the first argument of a method's call. *)
LEMMA MethodTakes ==
  ASSUME CoreInv, RegInv, ~p.full, Ready(need) = 1, NEW n, n = Len(s.vals), NEW o,
         o.params = <<Param>>, NEW u, u = todo \o <<o, Item("expr")>>, NEW r, r = TakeTop(p)
  PROVE  Alloc(r, n - 1, u) /\ Moved(p, n, r, n - 1, n - 1)
<1>1. PICK h : h = Len(todo)
  OBVIOUS
<1>2. PICK e : e = Item("expr")
  OBVIOUS
<1>3. PICK a : a = Param
  OBVIOUS
<1>4. /\ p \in RegState /\ n \in Nat \ {0} /\ Alloc(p, n, todo)
      /\ a.reg = LastReg(p) /\ a.owned = (LastReg(p) \notin p.pinned)
  BY <1>3, LiveFacts, ParamFacts
<1>0. p \in RegState /\ n \in Nat \ {0} /\ Alloc(p, n, todo)
  BY <1>4
<1>5. todo \in Seq(ItemSet) /\ h \in Nat /\ DOMAIN todo = 1 .. h
  BY <1>1, CoreFacts
<1>6. u = todo \o <<o, e>> /\ o.params = <<a>> /\ e.params = <<>>
  BY <1>2, <1>3, PlainHolds
<1>7. /\ DOMAIN u = 1 .. h + 2 /\ u[h + 1] = o /\ u[h + 2] = e
      /\ \A i \in 1 .. h : u[i] = todo[i]
  BY <1>1, <1>5, <1>6
<1>8. PICK i0 : i0 = h + 1
  OBVIOUS
<1>9. i0 \in DOMAIN u /\ u[i0].params = <<a>>
  <2>1. i0 \in 1 .. h + 2
    BY <1>5, <1>8
  <2> QED BY <2>1, <1>6, <1>7, <1>8
<1>10. PICK z : z = 0
  OBVIOUS
<1>11. /\ z \in Nat /\ DOMAIN u[i0].params = 1 .. z + 1 /\ u[i0].params[z + 1] = a
       /\ 1 .. z = {}
  BY <1>9, <1>10
<1>12. \A i \in DOMAIN u \ {i0} : u[i].params # <<>> => i \in DOMAIN todo /\ u[i].params = todo[i].params
  <2>1. \A i \in DOMAIN u \ {i0} : i \in 1 .. h \/ i = h + 2
    BY <1>5, <1>7, <1>8
  <2> QED BY <2>1, <1>5, <1>6, <1>7
<1>13. /\ Alloc(r, n - 1, u) /\ Cached(r) = Cached(p)
       /\ \A v \in 1 .. n - 1 : OpReg(r, n - 1, v) = OpReg(p, n, v)
  <2>1. u[i0].params[z + 1].reg = LastReg(p)
    BY <1>4, <1>11
  <2>2. u[i0].params[z + 1].owned => LastReg(p) \notin p.pinned
    BY <1>4, <1>11, Zenon
  <2>3. \A k \in 1 .. z : i0 \in DOMAIN todo /\ k \in DOMAIN todo[i0].params
                         /\ u[i0].params[k] = todo[i0].params[k]
    BY <1>11
  <2>4. Takes(p, n, todo, r, u, i0, z)
    BY <1>0, <1>9, <1>11, <1>12, <2>1, <2>2, <2>3 DEF Takes
  <2> QED BY <2>4, AllocTake
<1> QED BY <1>13 DEF Moved

LEMMA CallRegs ==
  ASSUME CoreInv, CoreInv', RegInv, NEW kind \in {"call", "method", "fncall", "new"}, Call(kind)
  PROVE  RegInv'
<1>1. PICK n : n = Len(s.vals)
  OBVIOUS
<1>2. ~p.full /\ Fits(need, Top.k)
  BY CoreFacts, ReadsFacts DEF Call
<1>3. /\ kind \in Kinds /\ kind \in ListKinds /\ kind \in OperandKinds /\ kind \in ExprReaders
      /\ kind \notin {"let", "assign", "compound", "idxset"} /\ kind \notin Holders
  BY DEF Kinds, ExprReaders, OperandKinds, ListKinds, Holders, LogicalKinds
<1>4. CASE kind \in {"call", "new"}
  <2>1. PICK o : o = Item(kind)
    OBVIOUS
  <2>2. p' = p /\ need = "value" /\ Open(o)
    BY <1>4, <2>1, ReadsFacts DEF Call
  <2>3. o \in ItemSet /\ o.params = <<>> /\ Notes(o, vars, placed) /\ o.k = kind
    BY <1>3, <2>1, ItemFacts
  <2> QED BY <1>2, <1>4, <2>2, <2>3, PlainRegs
<1>5. CASE kind = "fncall"
  <2>1. PICK o : o = Item(kind)
    OBVIOUS
  <2>2. p' = p /\ need = "more" /\ Open(o) /\ Ready(need) = 1
    BY <1>5, <2>1, ReadsFacts, ReadyFacts DEF Call
  <2>3. o \in ItemSet /\ o.params = <<>> /\ Notes(o, vars, placed) /\ o.k = kind /\ Held(o) = 1
    BY <1>3, <1>5, <2>1, ItemFacts, HeldFacts
  <2>4. Nests(Top.k, o.k)
    BY <1>2, <1>3, <2>2, <2>3 DEF Fits, Nests
  <2>5. Settled(o, p, n)
    BY <1>3, <2>3, PlainHolds
  <2>6. Quiet(o, n)
    BY <1>1, <1>2, <1>3, <2>2, <2>3, <2>4, <2>5 DEF Quiet
  <2> QED BY <2>6, QuietRegs
<1>6. CASE kind = "method"
  <2>1. PICK o : o = [Item(kind) EXCEPT !.params = <<Param>>]
    OBVIOUS
  <2>2. /\ need = "more" /\ p' = TakeTop(p) /\ Open(o) /\ Ready(need) = 1
    BY <1>6, <2>1, ReadsFacts, ReadyFacts DEF Call
  <2>3. PICK a \in ParamSet : a = Param
    BY <2>2, <1>2, ParamFacts
  <2>4. o = [k |-> kind, op |-> 0, reg |-> 0, x |-> 0, params |-> <<a>>]
    BY <2>1, <2>3 DEF Item
  <2>5. o \in ItemSet /\ Notes(o, vars, placed) /\ o.k = kind /\ Held(o) = 0 /\ o.params = <<Param>>
    <3>1. <<a>> \in Seq(ParamSet)
      BY <2>3
    <3>2. o \in ItemSet
      BY <2>4, <3>1, <1>3, RegZero DEF ItemSet
    <3>3. Notes(o, vars, placed)
      BY <2>4, <1>3 DEF Notes
    <3> QED BY <2>3, <2>4, <3>2, <3>3, <1>6, HeldFacts
  <2>6. Nests(Top.k, o.k) /\ o.k \in ExprReaders
    BY <1>2, <1>3, <2>2, <2>5 DEF Fits, Nests
  <2>7. Alloc(p', n - 1, todo') /\ Moved(p, n, p', n - 1, n - 1)
    <3>1. PICK u : u = todo'
      OBVIOUS
    <3>2. u = todo \o <<o, Item("expr")>>
      BY <2>2, <3>1 DEF Open
    <3>3. PICK r : r = p'
      OBVIOUS
    <3>4. r = TakeTop(p)
      BY <2>2, <3>3
    <3>5. Alloc(r, n - 1, u) /\ Moved(p, n, r, n - 1, n - 1)
      BY <1>1, <1>2, <2>2, <2>5, <3>2, <3>4, MethodTakes
    <3> QED BY <3>1, <3>3, <3>5
  <2>8. PICK k : k = n - 1
    OBVIOUS
  <2>9. n - Ready(need) = k /\ k = n - Ready(need) + Held(o)
    <3>1. n \in Nat
      BY <1>1, CoreFacts
    <3> QED BY <3>1, <2>2, <2>5, <2>8
  <2>10. Settled(o, p', k)
    BY <1>3, <2>5, PlainHolds
  <2>11. OpenDraw(n, k, n - Ready(need), o)
    BY <2>7, <2>8, <2>9, <2>10 DEF OpenDraw
  <2> QED BY <1>1, <1>2, <2>2, <2>5, <2>6, <2>9, <2>11, OpenRegs
<1> QED BY <1>4, <1>5, <1>6

(* The last operand becomes an argument of the innermost construct. *)
LEMMA ArgumentTakes ==
  ASSUME CoreInv, RegInv, ~p.full, Ready(need) = 1, NEW n, n = Len(s.vals), NEW o,
         o.params = Append(Top.params, Param), Top.k # "func", NEW u, u = Append(Below, o),
         NEW r, r = TakeTop(p)
  PROVE  Alloc(r, n - 1, u) /\ Moved(p, n, r, n - 1, n - 1)
<1>1. PICK i0 : i0 = Len(todo)
  OBVIOUS
<1>2. PICK w : w = Below
  OBVIOUS
<1>3. PICK a : a = Param
  OBVIOUS
<1>4. PICK ps : ps = Top.params
  OBVIOUS
<1>5. /\ p \in RegState /\ n \in Nat \ {0} /\ Alloc(p, n, todo)
      /\ a.reg = LastReg(p) /\ a.owned = (LastReg(p) \notin p.pinned)
  BY <1>3, LiveFacts, ParamFacts
<1>0. p \in RegState /\ n \in Nat \ {0} /\ Alloc(p, n, todo)
  BY <1>5
<1>6. /\ todo \in Seq(ItemSet) /\ i0 \in Nat \ {0} /\ DOMAIN todo = 1 .. i0
      /\ todo[i0].params = ps /\ ps \in Seq(ParamSet) /\ i0 \in DOMAIN todo
  BY <1>1, <1>4, CoreFacts
<1>7. w \in Seq(ItemSet) /\ Len(w) = i0 - 1 /\ \A i \in 1 .. i0 - 1 : w[i] = todo[i]
  BY <1>1, <1>2, BelowFacts DEF Shares
<1>8. /\ DOMAIN u = 1 .. i0 /\ u[i0] = o /\ \A i \in 1 .. i0 - 1 : u[i] = todo[i]
  <2>1. u = Append(w, o)
    BY <1>2
  <2>2. DOMAIN u = 1 .. Len(w) + 1 /\ u[Len(w) + 1] = o /\ \A i \in 1 .. Len(w) : u[i] = w[i]
    BY <2>1, <1>7
  <2> QED BY <2>2, <1>6, <1>7
<1>9. PICK h : h = Len(ps)
  OBVIOUS
<1>10. /\ h \in Nat /\ DOMAIN u[i0].params = 1 .. h + 1 /\ u[i0].params[h + 1] = a
       /\ \A k \in 1 .. h : u[i0].params[k] = ps[k] /\ k \in DOMAIN ps
  <2>1. u[i0].params = Append(ps, a)
    BY <1>3, <1>4, <1>8
  <2>2. ps \in Seq(ParamSet) /\ h = Len(ps)
    BY <1>6, <1>9
  <2>3. h \in Nat /\ DOMAIN ps = 1 .. h
    BY <2>2
  <2>4. Len(Append(ps, a)) = h + 1 /\ DOMAIN Append(ps, a) = 1 .. h + 1
    BY <2>2, <2>3
  <2>5. \A k \in 1 .. h : Append(ps, a)[k] = ps[k]
    BY <2>2, <2>3
  <2>6. Append(ps, a)[h + 1] = a
    BY <2>2, <2>3
  <2> QED BY <2>1, <2>3, <2>4, <2>5, <2>6
<1>11. \A k \in 1 .. h : i0 \in DOMAIN todo /\ k \in DOMAIN todo[i0].params
                         /\ u[i0].params[k] = todo[i0].params[k]
  BY <1>6, <1>10
<1>12. \A i \in DOMAIN u \ {i0} : u[i].params # <<>> => i \in DOMAIN todo /\ u[i].params = todo[i].params
  <2>1. \A i \in DOMAIN u \ {i0} : i \in 1 .. i0 - 1 /\ i \in DOMAIN todo
    BY <1>6, <1>8
  <2> QED BY <2>1, <1>8
<1>13. i0 \in DOMAIN u
  BY <1>6, <1>8
<1>14. /\ Alloc(r, n - 1, u) /\ Cached(r) = Cached(p)
       /\ \A v \in 1 .. n - 1 : OpReg(r, n - 1, v) = OpReg(p, n, v)
  <2>1. u[i0].params[h + 1].reg = LastReg(p)
    BY <1>5, <1>10
  <2>2. u[i0].params[h + 1].owned => LastReg(p) \notin p.pinned
    BY <1>5, <1>10, Zenon
  <2>3. Takes(p, n, todo, r, u, i0, h)
    BY <1>0, <1>10, <1>11, <1>12, <1>13, <2>1, <2>2 DEF Takes
  <2> QED BY <2>3, AllocTake
<1> QED BY <1>14 DEF Moved

LEMMA ArgumentRegs ==
  ASSUME CoreInv, CoreInv', RegInv, Argument
  PROVE  RegInv'
<1>1. PICK n : n = Len(s.vals)
  OBVIOUS
<1>2. PICK o : o = [Top EXCEPT !.params = Append(@, Param)]
  OBVIOUS
<1>3. /\ ~p.full /\ need = "done" /\ need' = "comma" /\ Top.k \in {"call", "method", "fncall", "new"}
      /\ p' = TakeTop(p) /\ todo' = Append(Below, o)
      /\ Top \in ItemSet /\ Notes(Top, vars, placed) /\ Top.params \in Seq(ParamSet)
      /\ n \in Nat /\ Held(Top) \in 0 .. 2
  BY <1>1, <1>2, CoreFacts, ReadsFacts DEF Argument
<1>4. Ready(need) = 1 /\ Ready(need') = 0
  BY <1>3, ReadyFacts
<1>5. PICK a \in ParamSet : a = Param
  BY <1>3, <1>4, ParamFacts
<1>6. PICK b : b = Append(Top.params, a)
  OBVIOUS
<1>7. /\ b \in Seq(ParamSet)
      /\ o = [k |-> Top.k, op |-> Top.op, reg |-> Top.reg, x |-> Top.x, params |-> b]
  <2>1. b \in Seq(ParamSet)
    BY <1>3, <1>5, <1>6
  <2>2. o = [Top EXCEPT !.params = b]
    BY <1>2, <1>5, <1>6
  <2> QED BY <2>1, <2>2, <1>3 DEF ItemSet
<1>8. /\ o \in ItemSet /\ Notes(o, vars, placed) /\ o.k = Top.k /\ Held(o) = Held(Top)
      /\ o.params = Append(Top.params, Param) /\ Top.k \notin Holders /\ Top.k # "func"
  <2>1. o \in ItemSet
    BY <1>3, <1>7 DEF ItemSet
  <2>2. Notes(o, vars, placed)
    BY <1>3, <1>7 DEF Notes, ListKinds
  <2>3. Held(o) = Held(Top)
    BY <1>7 DEF Held
  <2>4. Top.k \notin Holders /\ Top.k # "func"
    BY <1>3 DEF Holders, LogicalKinds
  <2> QED BY <2>1, <2>2, <2>3, <2>4, <1>5, <1>6, <1>7
<1>9. Alloc(p', n - 1, todo') /\ Moved(p, n, p', n - 1, n - 1)
  <2>1. PICK u : u = todo'
    OBVIOUS
  <2>2. PICK r : r = p'
    OBVIOUS
  <2>3. u = Append(Below, o) /\ r = TakeTop(p)
    BY <1>3, <2>1, <2>2
  <2>4. Alloc(r, n - 1, u) /\ Moved(p, n, r, n - 1, n - 1)
    BY <1>1, <1>3, <1>4, <1>8, <2>3, ArgumentTakes
  <2> QED BY <2>1, <2>2, <2>4
<1>10. PICK k : k = n - 1
  OBVIOUS
<1>11. k = n - Ready(need) - Held(Top) + Held(o) + Ready(need')
  BY <1>3, <1>4, <1>8, <1>10
<1>12. Moved(p, n, p', k, n - Ready(need) - Held(Top))
  <2>1. \A v \in 1 .. n - Ready(need) - Held(Top) : v \in 1 .. n - 1
    BY <1>3, <1>4
  <2>2. n - Ready(need) - Held(Top) < n
    BY <1>3, <1>4
  <2> QED BY <2>1, <2>2, <1>9, <1>10 DEF Moved
<1>13. SwapDraw(n, k, o)
  BY <1>9, <1>10, <1>12 DEF SwapDraw
<1> QED BY <1>1, <1>3, <1>8, <1>11, <1>13, SwapRegs

(* A list that ends: its arguments are released. *)
Ended(n, b, q, r) ==
  /\ Closes(n, b) /\ Top.params = todo[Len(todo)].params /\ Stepped(p, n, todo, q, b + 1, b)
  /\ \/ r = ReleaseAll(q, Top.params)
     \/ r = ReleaseAll(SetAllUnused(q, Top.params), Top.params)

LEMMA EndedRegs ==
  ASSUME NEW n, NEW b, NEW q, NEW r, Ended(n, b, q, r)
  PROVE  Alloc(r, b + 1, Below) /\ Moved(p, n, r, b + 1, b)
<1>1. /\ CoreInv /\ Top.k # "func" /\ b \in Nat /\ Stepped(p, n, todo, q, b + 1, b)
      /\ Top.params = todo[Len(todo)].params
      /\ \/ r = ReleaseAll(q, Top.params)
         \/ r = ReleaseAll(SetAllUnused(q, Top.params), Top.params)
  BY DEF Ended, Closes
<1>2. PICK k : k = b + 1
  OBVIOUS
<1>3. PICK u : u = Below
  OBVIOUS
<1>4. SameArgs(todo, u) /\ Len(todo) \notin DOMAIN u
  BY <1>1, <1>3, BelowFacts
<1>5. todo \in Seq(ItemSet) /\ todo # <<>> /\ k \in Nat
  BY <1>1, <1>2, CoreFacts, EmptySeq
<1>6. /\ q \in RegState /\ Alloc(q, k, todo) /\ Cached(q) = Cached(p)
      /\ \A v \in 1 .. b : OpReg(q, k, v) = OpReg(p, n, v)
  BY <1>1, <1>2 DEF Stepped
<1>7. /\ Alloc(r, k, u) /\ Cached(r) = Cached(q)
      /\ \A v \in 1 .. k : OpReg(r, k, v) = OpReg(q, k, v)
  <2>1. CASE r = ReleaseAll(q, Top.params)
    <3>1. r = ReleaseAll(q, todo[Len(todo)].params)
      BY <2>1, <1>1
    <3> QED BY <3>1, <1>4, <1>5, <1>6, AllocRelease
  <2>2. CASE r = ReleaseAll(SetAllUnused(q, Top.params), Top.params)
    <3>1. r = ReleaseAll(SetAllUnused(q, todo[Len(todo)].params), todo[Len(todo)].params)
      BY <2>2, <1>1
    <3> QED BY <3>1, <1>4, <1>5, <1>6, AllocReleaseTwice
  <2> QED BY <2>1, <2>2, <1>1
<1>8. \A v \in 1 .. b : v \in 1 .. k
  BY <1>1, <1>2
<1> QED BY <1>2, <1>3, <1>6, <1>7, <1>8 DEF Moved

LEMMA ReleasedRegs ==
  ASSUME NEW n, NEW b, NEW q, Closes(n, b),
         (p' = q /\ q.full) \/ Ended(n, b, q, p')
  PROVE  RegInv'
<1>1. PICK k : k = b + 1
  OBVIOUS
<1>2. b \in Nat /\ b = n - Ready(need) - Held(Top) /\ Ready(need') = 1 /\ todo' = Below
  BY DEF Closes
<1>3. ASSUME ~p'.full PROVE Alloc(p', k, todo') /\ Moved(p, n, p', k, b)
  <2>1. PICK r : r = p'
    OBVIOUS
  <2>2. Ended(n, b, q, r)
    BY <2>1, <1>3
  <2>3. Alloc(r, b + 1, Below) /\ Moved(p, n, r, b + 1, b)
    BY <2>2, EndedRegs
  <2> QED BY <2>1, <2>3, <1>1, <1>2
<1>4. PopDraw(n, k) /\ k = n - Ready(need) - Held(Top) + Ready(need')
  BY <1>1, <1>2, <1>3 DEF PopDraw
<1> QED BY <1>4, PopRegs DEF Closes

LEMMA EndCallRegs ==
  ASSUME CoreInv, CoreInv', RegInv, EndCall
  PROVE  RegInv'
<1>1. PICK n : n = Len(s.vals)
  OBVIOUS
<1>2. PICK a : a = IF Top.k = "fncall" THEN PopReg(p) ELSE p
  OBVIOUS
<1>3. PICK q : q = NewReg(a)
  OBVIOUS
<1>4. /\ ~p.full /\ need = "comma" /\ need' = "more" /\ todo' = Below
      /\ Top.k \in {"call", "method", "fncall"}
      /\ p' = IF q.full THEN q ELSE ReleaseAll(q, Top.params)
  BY <1>2, <1>3, ReadsFacts DEF EndCall, Go
<1>5. PICK b : b = IF Top.k = "fncall" THEN n - 1 ELSE n
  OBVIOUS
<1>6. /\ n \in Nat /\ p \in RegState /\ Alloc(p, n, todo) /\ Stepped(p, n, todo, p, n, n)
      /\ b \in Nat /\ b = n - Ready(need) - Held(Top)
      /\ Top.k = "fncall" => n \in Nat \ {0}
  <2>1. Held(Top) = IF Top.k = "fncall" THEN 1 ELSE 0
    BY <1>4, HeldFacts
  <2>2. n \in Nat /\ Ready(need) = 0 /\ n - Ready(need) - Held(Top) \in Nat
    BY <1>1, <1>4, LiveFacts, ReadyFacts
  <2>3. p \in RegState /\ Alloc(p, n, todo) /\ Stepped(p, n, todo, p, n, n)
    BY <1>1, <1>4, LiveFacts
  <2> QED BY <2>1, <2>2, <2>3, <1>5
<1>7. Stepped(p, n, todo, a, b, b) /\ ~a.full
  <2>1. CASE Top.k = "fncall"
    BY <2>1, <1>2, <1>4, <1>5, <1>6, AllocPopped
  <2>2. CASE Top.k # "fncall"
    BY <2>2, <1>2, <1>4, <1>5, <1>6
  <2> QED BY <2>1, <2>2
<1>8. ASSUME ~q.full PROVE Stepped(p, n, todo, q, b + 1, b)
  <2>1. a \in RegState /\ Alloc(a, b, todo)
    BY <1>7 DEF Stepped
  <2>2. Stepped(a, b, todo, q, b + 1, b)
    BY <2>1, <1>3, <1>6, <1>7, <1>8, AllocNew
  <2>3. b \in Int /\ b <= b
    BY <1>6
  <2> QED BY <2>2, <2>3, <1>7, SteppedTwice
<1>9. Closes(n, b)
  BY <1>1, <1>4, <1>6, ReadyFacts DEF Closes
<1>10. Top.params = todo[Len(todo)].params
  BY CoreFacts
<1>11. (p' = q /\ q.full) \/ Ended(n, b, q, p')
  BY <1>4, <1>8, <1>9, <1>10 DEF Ended
<1> QED BY <1>9, <1>11, ReleasedRegs

LEMMA EndNewRegs ==
  ASSUME CoreInv, CoreInv', RegInv, EndNew
  PROVE  RegInv'
<1>1. PICK n : n = Len(s.vals)
  OBVIOUS
<1>2. PICK q : q = NewReg(p)
  OBVIOUS
<1>3. /\ ~p.full /\ need = "comma" /\ need' = "more" /\ todo' = Below /\ Top.k = "new"
      /\ p' = IF q.full THEN q ELSE ReleaseAll(SetAllUnused(q, Top.params), Top.params)
  BY <1>2, ReadsFacts DEF EndNew, Go
<1>4. n \in Nat /\ n = n - Ready(need) - Held(Top)
  <2>1. Held(Top) = 0 /\ Ready(need) = 0
    BY <1>3, HeldFacts, ReadyFacts
  <2> QED BY <2>1, <1>1, <1>3, LiveFacts
<1>5. ~q.full => Stepped(p, n, todo, q, n + 1, n)
  BY <1>1, <1>2, <1>3, NewRegStep
<1>6. Closes(n, n)
  BY <1>1, <1>3, <1>4, ReadyFacts DEF Closes
<1>7. Top.params = todo[Len(todo)].params
  BY CoreFacts
<1>8. (p' = q /\ q.full) \/ Ended(n, n, q, p')
  BY <1>3, <1>5, <1>6, <1>7 DEF Ended
<1> QED BY <1>6, <1>8, ReleasedRegs

LEMMA ArrayRegs ==
  ASSUME CoreInv, CoreInv', RegInv, Array
  PROVE  RegInv'
<1>1. PICK n : n = Len(s.vals)
  OBVIOUS
<1>2. PICK q : q = p'
  OBVIOUS
<1>3. PICK o : o = [Item("array") EXCEPT !.reg = Dest(q)]
  OBVIOUS
<1>4. /\ ~p.full /\ need = "value" /\ q = NewReg(p) /\ Open(o) /\ Fits(need, Top.k)
  BY <1>2, <1>3, CoreFacts, ReadsFacts DEF Array, Go
<1>5. n \in Nat /\ Ready(need) = 0 /\ p \in RegState
  BY <1>1, <1>4, LiveFacts, ReadyFacts
<1>6. Dest(q) \in Reg
  BY <1>4, <1>5, NewRegLength
<1>7. /\ "array" \in Kinds /\ "array" \in Holders \ {"idxset"} /\ "array" \notin LogicalKinds
      /\ "array" \in ExprReaders /\ "array" \in OperandKinds
  BY DEF Kinds, ExprReaders, OperandKinds, ListKinds, Holders, LogicalKinds
<1>8. /\ o \in ItemSet /\ Notes(o, vars, placed) /\ o.k = "array" /\ Held(o) = 1
      /\ o.reg = Dest(q) /\ o.params = <<>>
  <2>1. /\ o \in ItemSet /\ Notes(o, vars, placed) /\ o.k = "array"
        /\ o.reg = Dest(q) /\ o.params = <<>>
    BY <1>3, <1>6, <1>7, ItemFacts
  <2> QED BY <2>1, HeldFacts
<1>9. Nests(Top.k, o.k)
  BY <1>4, <1>7, <1>8 DEF Fits, Nests
<1>10. PICK k : k = n + 1
  OBVIOUS
<1>11. ASSUME ~q.full PROVE Alloc(q, k, todo) /\ Moved(p, n, q, k, n) /\ Settled(o, q, k)
  <2>1. /\ Stepped(p, n, todo, q, k, n) /\ OpReg(q, k, k) = Dest(q) /\ Dest(q) \notin Cached(p)
    BY <1>1, <1>4, <1>10, <1>11, NewRegStep
  <2>2. Cached(q) = Cached(p)
    BY <2>1 DEF Stepped
  <2>3. Settled(o, q, k)
    BY <2>1, <2>2, <1>7, <1>8 DEF Settled
  <2>4. n <= n
    BY <1>5
  <2> QED BY <2>1, <2>3, <2>4, <1>5, SteppedMoves
<1>12. n - Ready(need) = n /\ k = n - Ready(need) + Held(o)
  BY <1>5, <1>8, <1>10
<1>13. OpenDraw(n, k, n - Ready(need), o)
  BY <1>2, <1>8, <1>11, <1>12 DEF OpenDraw
<1> QED BY <1>1, <1>4, <1>7, <1>8, <1>9, <1>12, <1>13, OpenRegs

LEMMA ElementRegs ==
  ASSUME CoreInv, CoreInv', RegInv, Element
  PROVE  RegInv'
<1>1. PICK n : n = Len(s.vals)
  OBVIOUS
<1>2. PICK q : q = p'
  OBVIOUS
<1>3. /\ ~p.full /\ need = "done" /\ need' = "comma" /\ UNCHANGED todo /\ q = PopReg(p)
  BY <1>2, ReadsFacts DEF Element, Go
<1>4. n \in Nat \ {0} /\ p \in RegState /\ Alloc(p, n, todo) /\ Ready(need) = 1 /\ Ready(need') = 0
  BY <1>1, <1>3, LiveFacts, ReadyFacts
<1>5. PICK k : k = n - 1
  OBVIOUS
<1>6. Stepped(p, n, todo, q, k, k) /\ k \in Nat /\ k <= k
  BY <1>3, <1>4, <1>5, AllocPopped
<1>7. Alloc(q, k, todo) /\ Moved(p, n, q, k, k)
  BY <1>6, SteppedMoves
<1>8. n - Ready(need) = k /\ k = n - Ready(need) + Ready(need')
  BY <1>4, <1>5
<1>9. SameDraw(n, k)
  BY <1>2, <1>7, <1>8 DEF SameDraw
<1> QED BY <1>1, <1>3, <1>8, <1>9, SameRegs

LEMMA EndArrayRegs ==
  ASSUME CoreInv, CoreInv', RegInv, EndArray
  PROVE  RegInv'
<1>1. PICK n : n = Len(s.vals)
  OBVIOUS
<1>2. PICK q : q = p'
  OBVIOUS
<1>3. /\ ~p.full /\ need = "comma" /\ need' = "more" /\ todo' = Below /\ q = p /\ Top.k = "array"
  BY <1>2, ReadsFacts DEF EndArray
<1>4. /\ n \in Nat /\ Held(Top) = 1 /\ Ready(need) = 0 /\ n - 1 \in Nat
      /\ Stepped(p, n, todo, p, n, n)
  BY <1>1, <1>3, LiveFacts, HeldFacts, ReadyFacts
<1>5. PICK b : b = n - 1
  OBVIOUS
<1>6. Closes(n, b)
  BY <1>1, <1>3, <1>4, <1>5, ReadyFacts DEF Closes
<1>7. b + 1 = n /\ b \in Int /\ n \in Int /\ b <= n
  BY <1>4, <1>5
<1>8. Stepped(p, n, todo, q, b + 1, b)
  BY <1>3, <1>4, <1>7, SteppedLess
<1> QED BY <1>2, <1>6, <1>8, ClosesRegs

(* A store that Careful allows leaves the operands and the arguments as they were. *)
LEMMA SafeStored ==
  ASSUME CoreInv, RegInv, ~p.full, Ready(need) = 1, NEW n, n = Len(s.vals), NEW l, l \in Nat,
         SafeStore(l), NEW r, r = CacheStored(p, l, LastReg(p))
  PROVE  /\ r \in RegState /\ Alloc(r, n, todo)
         /\ \A v \in 1 .. n : OpReg(r, n, v) = OpReg(p, n, v)
         /\ Moved(p, n, r, n, n - 1)
<1>1. /\ n \in Nat \ {0} /\ p \in RegState /\ Alloc(p, n, todo) /\ n <= Len(p.rstack)
      /\ LastReg(p) \in Reg
  BY LiveFacts, ParamFacts
<1>2. Stores(p, l, LastReg(p), r)
  BY <1>1 DEF Stores
<1>3. ASSUME l < Len(p.cache)
      PROVE  /\ Sharers(p, CachedReg(p, l)) \subseteq {l + 1}
             /\ \/ CachedReg(p, l) = LastReg(p)
                \/ /\ \A v \in 1 .. n - 1 : OpReg(p, n, v) # CachedReg(p, l)
                   /\ \A i \in DOMAIN todo : \A k \in DOMAIN todo[i].params :
                        todo[i].params[k].reg # CachedReg(p, l)
  <2>1. PICK old : old = CachedReg(p, l)
    OBVIOUS
  <2>2. Sharers(p, old) \subseteq {l + 1} /\ (old = LastReg(p) \/ old \notin Pending(p))
    BY <1>3, <2>1 DEF SafeStore
  <2>3. /\ \A v \in 1 .. n - 1 : OpReg(p, n, v) \in Pending(p)
        /\ \A i \in DOMAIN todo : \A k \in DOMAIN todo[i].params : todo[i].params[k].reg \in Pending(p)
    BY <1>1, PendingFacts
  <2>4. \/ old = LastReg(p)
        \/ /\ \A v \in 1 .. n - 1 : OpReg(p, n, v) # old
           /\ \A i \in DOMAIN todo : \A k \in DOMAIN todo[i].params : todo[i].params[k].reg # old
    BY <2>2, <2>3
  <2> QED BY <2>1, <2>2, <2>4
<1>4. Stored(p, n, todo, l, r)
  BY <1>1, <1>2, <1>3 DEF Stored
<1>5. /\ Alloc(r, n, todo) /\ \A v \in 1 .. n : OpReg(r, n, v) = OpReg(p, n, v)
      /\ Cached(r) \subseteq Cached(p) \cup {OpReg(p, n, n)}
  BY <1>4, AllocStore
<1>6. r \in RegState
  BY <1>2, CacheStoredFacts
<1>7. n - 1 < n /\ \A v \in 1 .. n - 1 : v \in 1 .. n
  BY <1>1
<1>8. Moved(p, n, r, n, n - 1)
  BY <1>5, <1>7 DEF Moved
<1> QED BY <1>5, <1>6, <1>8

LEMMA EndAssignRegs ==
  ASSUME Careful, CoreInv, CoreInv', RegInv, EndAssign
  PROVE  RegInv'
<1>1. PICK n : n = Len(s.vals)
  OBVIOUS
<1>2. PICK l : l = LocalOf(Top.x)
  OBVIOUS
<1>3. PICK r : r = p'
  OBVIOUS
<1>4. /\ ~p.full /\ need = "done" /\ need' = "closed" /\ todo' = Below /\ Top.k = "assign"
      /\ SafeStore(l) /\ r = CacheStored(p, l, LastReg(p))
  BY <1>2, <1>3, ReadsFacts DEF EndAssign, Go
<1>5. n \in Nat /\ Held(Top) = 0 /\ Ready(need) = 1 /\ Ready(need') = 1 /\ Top.k # "func"
  BY <1>1, <1>4, CoreFacts, HeldFacts, ReadyFacts
<1>6. l \in Nat
  BY <1>2, <1>4, NotedName, LocalFacts
<1>7. Alloc(r, n, todo) /\ Moved(p, n, r, n, n - 1)
  BY <1>1, <1>4, <1>5, <1>6, SafeStored
<1>8. n - Ready(need) - Held(Top) = n - 1 /\ n = n - Ready(need) - Held(Top) + Ready(need')
  BY <1>5
<1>9. PopDraw(n, n)
  BY <1>3, <1>7, <1>8 DEF PopDraw
<1> QED BY <1>1, <1>4, <1>5, <1>8, <1>9, PopRegs

(* Where the value of an assignment is that of the operand before it. *)
LEMMA EqualRegs ==
  ASSUME CoreInv, CoreInv', RegInv, ~p.full, need = "done", need' = "closed", todo' = Below,
         Held(Top) = 0, Top.k # "func", p' = p
  PROVE  RegInv'
<1>1. PICK n : n = Len(s.vals)
  OBVIOUS
<1>2. PICK q : q = p'
  OBVIOUS
<1>3. n \in Nat /\ Ready(need) = 1 /\ n - 1 \in Nat /\ Stepped(p, n, todo, p, n, n)
  BY <1>1, LiveFacts, ReadyFacts
<1>4. PICK b : b = n - 1
  OBVIOUS
<1>5. Closes(n, b)
  BY <1>1, <1>3, <1>4, ReadyFacts DEF Closes
<1>6. b + 1 = n /\ b \in Int /\ n \in Int /\ b <= n
  BY <1>3, <1>4
<1>7. Stepped(p, n, todo, q, b + 1, b)
  BY <1>2, <1>3, <1>6, SteppedLess
<1> QED BY <1>2, <1>5, <1>7, ClosesRegs

LEMMA EndCompoundRegs ==
  ASSUME Careful, CoreInv, CoreInv', RegInv, EndCompound
  PROVE  RegInv'
<1>1. PICK l : l = LocalOf(Top.x)
  OBVIOUS
<1>2. PICK q : q = NewReg(Grown(p, l))
  OBVIOUS
<1>3. /\ ~p.full /\ need = "done" /\ need' = "closed" /\ todo' = Below /\ Top.k = "compound"
      /\ CachedReg(p, l) # NoReg
  BY <1>1, ReadsFacts DEF EndCompound, SafeCompound
<1>4. p' = p
  BY <1>1, <1>3 DEF EndCompound, Go
<1> QED BY <1>3, <1>4, HeldFacts, EqualRegs

LEMMA EndAssignFieldRegs ==
  ASSUME CoreInv, CoreInv', RegInv, EndAssignField
  PROVE  RegInv'
<1>1. /\ ~p.full /\ need = "done" /\ need' = "closed" /\ todo' = Below /\ Top.k = "fieldset"
      /\ p' = p
  BY ReadsFacts DEF EndAssignField, Go
<1> QED BY <1>1, HeldFacts, EqualRegs

LEMMA EndCompoundFieldRegs ==
  ASSUME CoreInv, CoreInv', RegInv, EndCompoundField
  PROVE  RegInv'
<1>1. PICK n : n = Len(s.vals)
  OBVIOUS
<1>2. PICK q : q = NewReg(p)
  OBVIOUS
<1>3. PICK r : r = p'
  OBVIOUS
<1>4. /\ ~p.full /\ need = "done" /\ need' = "closed" /\ todo' = Below /\ Top.k = "fieldop"
      /\ r = IF q.full THEN q ELSE Apply2(q)
  BY <1>2, <1>3, ReadsFacts DEF EndCompoundField, Go
<1>5. n \in Nat /\ Ready(need) = 1 /\ Held(Top) = 0 /\ n - 1 \in Nat
  BY <1>1, <1>4, LiveFacts, HeldFacts, ReadyFacts
<1>6. ASSUME ~r.full PROVE Stepped(p, n, todo, r, n, n - 1)
  <2>1. ~q.full /\ r = Apply2(q)
    BY <1>4, <1>6
  <2>2. PICK k : k = n + 1
    OBVIOUS
  <2>3. Stepped(p, n, todo, q, k, n)
    BY <2>1, <2>2, <1>1, <1>2, <1>4, NewRegStep
  <2>4. q \in RegState /\ k \in Nat /\ k > 1 /\ Alloc(q, k, todo)
    BY <2>2, <2>3, <1>5 DEF Stepped
  <2>5. Stepped(q, k, todo, r, k - 1, k - 2)
    BY <2>1, <2>4, <1>6, AllocApply2
  <2>6. k - 1 = n /\ k - 2 = n - 1 /\ n \in Int /\ n - 1 \in Int /\ n - 1 <= n
    BY <2>2, <1>5
  <2>7. Stepped(q, k, todo, r, n, n - 1)
    BY <2>5, <2>6
  <2> QED BY <2>3, <2>6, <2>7, SteppedTwice
<1>7. PICK b : b = n - 1
  OBVIOUS
<1>8. Closes(n, b)
  BY <1>1, <1>4, <1>5, <1>7, ReadyFacts DEF Closes
<1>9. b + 1 = n
  BY <1>5, <1>7
<1>10. ~p'.full => Stepped(p, n, todo, p', b + 1, b)
  BY <1>3, <1>6, <1>7, <1>9
<1> QED BY <1>8, <1>10, ClosesRegs

LEMMA EndLetRegs ==
  ASSUME Careful, CoreInv, CoreInv', RegInv, EndLet
  PROVE  RegInv'
<1>1. PICK x : x = Top.x
  OBVIOUS
<1>2. PICK n : n = Len(vars)
  OBVIOUS
<1>4. ~p.full /\ need = "done" /\ Top.k = "let"
  BY ReadsFacts DEF EndLet
<1>5. /\ Ready(need) = 1 /\ Top.k \in StatementKinds /\ p \in RegState /\ Sane(p)
      /\ Idle(Below) /\ n \in Nat \ {0} /\ vars \in Seq(Scope(0 .. MaxLocals - 1))
  <2>1. Top.k \in StatementKinds
    BY <1>4 DEF StatementKinds
  <2>2. Len(vars) = Total(Opened(todo), Len(todo)) + 1 /\ Total(Opened(todo), Len(todo)) \in Nat
    BY CoreFacts, WeightType
  <2> QED BY <2>1, <2>2, <1>2, <1>4, ReadyFacts, CoreFacts, SaneFacts, BareTodo
<1>6. PICK h : h = Len(s.vals)
  OBVIOUS
<1>7. CASE x \notin DOMAIN vars[n]
  <2>1. PICK f : Over(p, f, Below)
    BY <1>1, <1>2, <1>7 DEF EndLet
  <2> QED BY <2>1, <1>5, OverRegs
<1>8. CASE x \in DOMAIN vars[n]
  <2>1. PICK l : l = vars[n][x]
    OBVIOUS
  <2>2. PICK q : q = CacheStored(p, l, LastReg(p))
    OBVIOUS
  <2>3. SafeStore(l)
    BY <1>1, <1>2, <1>8, <2>1 DEF EndLet
  <2>4. PICK f : Over(q, f, Below)
    BY <1>1, <1>2, <1>8, <2>1, <2>2 DEF EndLet
  <2>5. l \in Nat
    <3>1. n \in DOMAIN vars /\ vars[n] \in Scope(0 .. MaxLocals - 1)
      BY <1>2, <1>5, LenProperties
    <3>2. l \in 0 .. MaxLocals - 1
      BY <1>8, <2>1, <3>1 DEF Scope
    <3> QED BY <3>2, CompileAssumption
  <2>6. q \in RegState /\ Alloc(q, h, todo)
    BY <1>4, <1>5, <1>6, <2>2, <2>3, <2>5, SafeStored
  <2>7. Sane(q)
    BY <2>6 DEF Alloc, Sane
  <2> QED BY <2>4, <2>6, <2>7, <1>5, OverRegs
<1> QED BY <1>7, <1>8

LEMMA InitRegs ==
  ASSUME Init
  PROVE  RegInv
<1>1. p = NoRegsUsed /\ todo = <<Item("func")>> /\ s.vals = <<>>
  BY DEF Init
<1>2. p \in RegState /\ p.cache = <<>> /\ Cached(p) = {} /\ p.sound /\ p.pinned = {}
  <2>1. <<>> \in Seq(Reg)
    BY EmptySeq
  <2>2. p \in RegState /\ p.cache = <<>> /\ p.sound /\ p.pinned = {}
    BY <2>1, <1>1 DEF NoRegsUsed, RegState
  <2>3. DOMAIN p.cache = {}
    BY <2>2, EmptySeq
  <2> QED BY <2>2, <2>3 DEF Cached
<1>3. Idle(todo)
  <2>1. Bare(Item("func"))
    BY BareItems DEF BlockKinds
  <2>2. DOMAIN todo = {1} /\ todo[1] = Item("func")
    BY <1>1
  <2> QED BY <2>1, <2>2 DEF Idle
<1>4. Regs(p, 0, todo)
  BY <1>2, <1>3, IdleRegs DEF Sane
<1>5. Len(s.vals) = 0
  BY <1>1, EmptySeq
<1> QED BY <1>4, <1>5 DEF RegInv

LEMMA StutterRegs ==
  ASSUME RegInv, UNCHANGED vars_
  PROVE  RegInv'
<1>1. p' = p /\ s' = s /\ todo' = todo
  BY DEF vars_
<1> QED BY <1>1 DEF RegInv

LEMMA RegStep ==
  ASSUME Careful, CoreInv, CoreInv', RegInv, [Next]_vars_
  PROVE  RegInv'
<1>1. CASE Value
  <2>1. ASSUME NEW v \in Literals, Literal(v) PROVE RegInv'
    BY <2>1, LiteralRegs
  <2>2. ASSUME NEW x \in Names, Identifier(x) PROVE RegInv'
    BY <2>2, IdentifierRegs
  <2>3. ASSUME NEW k \in {"paren", "not"}, Prefix(k) PROVE RegInv'
    BY <2>3, PrefixRegs
  <2>4. ASSUME NEW k \in {"assign", "compound"}, NEW x \in Names, Assign(k, x) PROVE RegInv'
    BY <2>4, AssignRegs
  <2>5. ASSUME NEW k \in {"fieldset", "fieldop"}, AssignField(k) PROVE RegInv'
    BY <2>5, AssignFieldRegs
  <2> QED BY <1>1, <2>1, <2>2, <2>3, <2>4, <2>5, FieldRegs, ArrayRegs DEF Value
<1>2. CASE Operators
  <2>1. ASSUME NEW k \in {"and", "or"}, Logical(k) PROVE RegInv'
    BY <2>1, LogicalRegs
  <2>2. ASSUME NEW op \in 0 .. 1, IdxSet(op) PROVE RegInv'
    BY <2>2, IdxSetRegs
  <2> QED BY <1>2, <2>1, <2>2, OperatorRegs, EndBinaryRegs, EndLogicalRegs, EndPrefixRegs,
             IndexRegs, IdxGetRegs, EndIdxSetRegs, BindRegs DEF Operators
<1>3. CASE Lists
  <2>1. ASSUME NEW k \in {"call", "method", "fncall", "new"}, Call(k) PROVE RegInv'
    BY <2>1, CallRegs
  <2> QED BY <1>3, <2>1, ArgumentRegs, CommaRegs, EndCallRegs, EndNewRegs, ElementRegs,
             EndArrayRegs DEF Lists
<1>4. CASE Statements
  <2>1. ASSUME NEW k \in {"effect", "print", "return"}, Statement(k) PROVE RegInv'
    BY <2>1, StatementRegs
  <2>2. ASSUME NEW x \in Names, Let(x) PROVE RegInv'
    BY <2>2, LetRegs
  <2> QED BY <1>4, <2>1, <2>2, EndEffectRegs, PrintValueRegs, ReturnRegs, EndLetRegs,
             EndAssignRegs, EndCompoundRegs, EndAssignFieldRegs, EndCompoundFieldRegs
          DEF Statements
<1>5. CASE BlocksOf
  <2>1. ASSUME NEW k \in {"if", "while"}, Branch(k) PROVE RegInv'
    BY <2>1, BranchRegs
  <2> QED BY <1>5, <2>1, BodyRegs, EndBlockRegs, ElseRegs, ElseIfRegs, EndFunctionRegs
          DEF BlocksOf
<1>6. CASE UNCHANGED vars_
  BY <1>6, StutterRegs
<1> QED BY <1>1, <1>2, <1>3, <1>4, <1>5, <1>6 DEF Next

-----------------------------------------------------------------------------
(* A register given back was in use, in the step that finds none as well:  *)
(* what it gives back before that was an operand's.                        *)

LEMMA FullKept ==
  ASSUME NEW q \in RegState, NEW l, NEW d
  PROVE  /\ PopReg(q).full = q.full /\ TakeTop(q).full = q.full /\ FlushCached(q).full = q.full
         /\ PopReg(FlushCached(q)).full = q.full /\ CacheStored(q, l, d).full = q.full
<1>1. \A a \in RegState : PopReg(a).full = a.full
  <2> SUFFICES ASSUME NEW a \in RegState PROVE PopReg(a).full = a.full
    OBVIOUS
  <2>1. PICK f : f = [a EXCEPT !.rstack = Front(@)]
    OBVIOUS
  <2>2. f.full = a.full /\ DOMAIN f = DOMAIN a
    BY <2>1 DEF RegState
  <2>3. SetUnused(f, LastReg(a)).full = f.full
    BY <2>2 DEF SetUnused, RegState
  <2> QED BY <2>1, <2>2, <2>3 DEF PopReg
<1>2. TakeTop(q).full = q.full
  BY DEF TakeTop, RegState
<1>3. FlushCached(q) \in RegState /\ FlushCached(q).full = q.full
  BY FlushFacts
<1>4. CacheStored(q, l, d).full = q.full
  BY DEF CacheStored, RegState
<1> QED BY <1>1, <1>2, <1>3, <1>4

LEMMA OverKept ==
  ASSUME NEW q, NEW f, NEW b, CoreInv', Over(q, f, b), ~q.full
  PROVE  ~p'.full
<1>1. p' \in RegState /\ (p' = q \/ p' = FlushFree(q))
  BY DEF CoreInv, TypeInv, Over
<1>2. CASE p' = FlushFree(q)
  <2>1. PICK u : u = q.pinned
    OBVIOUS
  <2>2. p' = [q EXCEPT !.rstack = <<>>, !.used = u] /\ DOMAIN p' = DOMAIN q /\ "full" \in DOMAIN p'
    BY <1>1, <1>2, <2>1 DEF FlushFree, RegState
  <2> QED BY <2>2
<1> QED BY <1>1, <1>2

LEMMA SoundNew ==
  ASSUME NEW q \in RegState, q.sound
  PROVE  NewReg(q) \in RegState /\ NewReg(q).sound
<1>1. PICK r : r = NewReg(q)
  OBVIOUS
<1>2. r \in RegState
  BY <1>1, NewRegFacts
<1>3. r.sound
  BY <1>1 DEF NewReg, PushReg, RegState
<1> QED BY <1>1, <1>2, <1>3

LEMMA SoundApply1 ==
  ASSUME NEW q, NEW n, NEW t, q \in RegState, n \in Nat \ {0}, Alloc(q, n, t)
  PROVE  Apply1(q) \in RegState /\ Apply1(q).sound
<1>1. PICK a : a = PopReg(q)
  OBVIOUS
<1>2. a \in RegState /\ a.sound
  <2>1. Stepped(q, n, t, a, n - 1, n - 1)
    BY <1>1, AllocPopped
  <2>2. a \in RegState /\ Alloc(a, n - 1, t)
    BY ONLY <2>1 DEF Stepped
  <2> QED BY ONLY <2>2 DEF Alloc
<1> QED BY <1>1, <1>2, SoundNew DEF Apply1

LEMMA SoundApply2 ==
  ASSUME NEW q, NEW n, NEW t, q \in RegState, n \in Nat, n > 1, Alloc(q, n, t)
  PROVE  Apply2(q) \in RegState /\ Apply2(q).sound
<1>1. PICK a : a = PopReg(q)
  OBVIOUS
<1>2. a \in RegState /\ Alloc(a, n - 1, t)
  BY <1>1, AllocPopped DEF Stepped
<1>3. PICK k : k = n - 1
  OBVIOUS
<1>4. Apply1(a).sound /\ Apply1(a) \in RegState
  BY <1>2, <1>3, SoundApply1
<1> QED BY <1>1, <1>4 DEF Apply1, Apply2

Firm == p'.full => p'.sound

LEMMA FirmNew ==
  ASSUME CoreInv, RegInv, ~p.full, NEW l \in Nat
  PROVE  /\ p \in RegState /\ p.sound /\ NewReg(p) \in RegState /\ NewReg(p).sound
         /\ Grown(p, l) \in RegState /\ Grown(p, l).sound
         /\ NewReg(Grown(p, l)) \in RegState /\ NewReg(Grown(p, l)).sound
<1>1. p \in RegState /\ p.sound
  BY LiveFacts DEF Alloc
<1>2. Grown(p, l) \in RegState /\ Grown(p, l).sound
  BY <1>1, GrownFacts
<1> QED BY <1>1, <1>2, SoundNew

LEMMA FirmValue ==
  ASSUME CoreInv, RegInv, Value
  PROVE  Firm
<1>1. ASSUME p' = NewReg(p), ~p.full PROVE Firm
  <2>1. 0 \in Nat
    OBVIOUS
  <2> QED BY <1>1, <2>1, FirmNew DEF Firm
<1>2. ASSUME p' = p, ~p.full PROVE Firm
  BY <1>2 DEF Firm
<1>3. ASSUME NEW v \in Literals, Literal(v) PROVE Firm
  BY <1>1, <1>3, ReadsFacts DEF Literal, Go
<1>4. ASSUME NEW x \in Names, Identifier(x) PROVE Firm
  <2>1. PICK l : l = LocalOf(x)
    OBVIOUS
  <2>2. PICK g : g = Grown(p, l)
    OBVIOUS
  <2>3. PICK q : q = NewReg(g)
    OBVIOUS
  <2>4. PICK r : r = CachedReg(g, l)
    OBVIOUS
  <2>5. ~p.full /\ Declared(x)
    BY <1>4, ReadsFacts DEF Identifier
  <2>6. l \in Nat
    BY <2>1, <2>5, LocalFacts
  <2>7. g \in RegState /\ g.full = p.full /\ q \in RegState /\ q.sound
    <3>1. g \in RegState /\ g.full = p.full
      BY <2>2, <2>5, <2>6, GrownFacts, LiveFacts
    <3> QED BY <3>1, <2>2, <2>3, <2>5, <2>6, FirmNew
  <2>8. \/ p' = [q EXCEPT !.cache[l + 1] = IF q.full THEN @ ELSE LastReg(q),
                          !.pinned = IF q.full THEN @ ELSE @ \union {LastReg(q)}]
        \/ p' = [PushReg(g, r) EXCEPT !.pinned = @ \union {r}]
    BY <1>4, <2>1, <2>2, <2>3, <2>4 DEF Identifier, Go
  <2>9. CASE p' = [q EXCEPT !.cache[l + 1] = IF q.full THEN @ ELSE LastReg(q),
                            !.pinned = IF q.full THEN @ ELSE @ \union {LastReg(q)}]
    BY <2>7, <2>9 DEF Firm, RegState
  <2>10. CASE p' = [PushReg(g, r) EXCEPT !.pinned = @ \union {r}]
    <3>1. p'.full = g.full
      BY <2>7, <2>10 DEF PushReg, RegState
    <3> QED BY <3>1, <2>5, <2>7 DEF Firm
  <2> QED BY <2>8, <2>9, <2>10
<1>5. ASSUME Field PROVE Firm
  BY <1>1, <1>5, ReadsFacts DEF Field, Go
<1>6. ASSUME Array PROVE Firm
  BY <1>1, <1>6, ReadsFacts DEF Array, Go
<1>7. ASSUME NEW k \in {"paren", "not"}, Prefix(k) PROVE Firm
  BY <1>2, <1>7, ReadsFacts DEF Prefix
<1>8. ASSUME NEW k \in {"assign", "compound"}, NEW x \in Names, Assign(k, x) PROVE Firm
  BY <1>2, <1>8, ReadsFacts DEF Assign
<1>9. ASSUME NEW k \in {"fieldset", "fieldop"}, AssignField(k) PROVE Firm
  BY <1>2, <1>9, ReadsFacts DEF AssignField
<1> QED BY <1>3, <1>4, <1>5, <1>6, <1>7, <1>8, <1>9 DEF Value

LEMMA FirmGenerated ==
  ASSUME CoreInv, RegInv, ~p.full, need \in {"more", "closed"}
  PROVE  Generated.p \in RegState /\ Generated.p.sound
<1>1. PICK n : n = Len(s.vals)
  OBVIOUS
<1>2. /\ Top.k = "expr" /\ Held(Top) = Top.op /\ Top.op \in 0 .. 1 /\ Ready(need) = 1
  BY CoreFacts, HeldFacts, ReadyFacts DEF Fits
<1>3. /\ n \in Nat /\ p \in RegState /\ Alloc(p, n, todo) /\ n - 1 - Top.op \in Nat
  BY <1>1, <1>2, LiveFacts
<1>4. CASE Top.op = 0
  <2>1. Generated.p = p
    BY <1>4 DEF Generated
  <2> QED BY <2>1, <1>3 DEF Alloc
<1>5. CASE Top.op = 1
  <2>1. Generated.p = Apply2(p)
    BY <1>5 DEF Generated
  <2>2. n > 1
    BY <1>3, <1>5
  <2> QED BY <2>1, <2>2, <1>3, SoundApply2
<1> QED BY <1>2, <1>4, <1>5

LEMMA SwapKept ==
  ASSUME NEW q \in RegState, ~q.full
  PROVE  ~Collapse(q).full /\ ~PopReg(SwapTop(q)).full /\ ~Collapse(PopReg(SwapTop(q))).full
<1> DEFINE Has(a) == "full" \in DOMAIN a /\ ~a.full
<1>1. ASSUME NEW a, Has(a), NEW d PROVE Has(SetUnused(a, d))
  BY <1>1 DEF SetUnused
<1>2. ASSUME NEW a, Has(a), NEW b PROVE Has([a EXCEPT !.rstack = b])
  BY <1>2
<1>3. ASSUME NEW a, Has(a) PROVE Has(PopReg(a))
  <2>1. PICK b : b = Front(a.rstack)
    OBVIOUS
  <2>2. PICK c : c = [a EXCEPT !.rstack = b]
    OBVIOUS
  <2>3. c = [a EXCEPT !.rstack = Front(@)]
    BY <2>1, <2>2
  <2>4. Has(c)
    BY <1>2, <1>3, <2>2
  <2>5. Has(SetUnused(c, LastReg(a)))
    BY <1>1, <2>4
  <2> QED BY <2>3, <2>5 DEF PopReg
<1>4. ASSUME NEW a, Has(a) PROVE Has(Collapse(a))
  <2>1. PICK n : n = Len(a.rstack)
    OBVIOUS
  <2>2. PICK f : f = SetUnused(SetUnused(a, a.rstack[n - 2]), a.rstack[n - 1])
    OBVIOUS
  <2>3. Has(f)
    <3>1. Has(SetUnused(a, a.rstack[n - 2]))
      BY <1>1, <1>4
    <3> QED BY <3>1, <2>2, <1>1
  <2>4. PICK b : b = Append(SubSeq(f.rstack, 1, n - 3), LastReg(a))
    OBVIOUS
  <2>5. Collapse(a) = [f EXCEPT !.rstack = b]
    BY <1>4, <2>1, <2>2, <2>4 DEF Collapse
  <2> QED BY <2>3, <2>5, <1>2
<1>5. Has(q) /\ Has(SwapTop(q))
  BY DEF SwapTop, RegState
<1>6. Has(Collapse(q)) /\ Has(PopReg(SwapTop(q)))
  BY <1>3, <1>4, <1>5
<1>7. Has(Collapse(PopReg(SwapTop(q))))
  BY <1>4, <1>6
<1> QED BY <1>6, <1>7

LEMMA FirmOperators ==
  ASSUME CoreInv, RegInv, Operators
  PROVE  Firm
<1>1. PICK q : q = NewReg(p)
  OBVIOUS
<1>2. ASSUME ~p.full
      PROVE  p \in RegState /\ q \in RegState /\ q.sound /\ ~Collapse(p).full
             /\ ~PopReg(FlushCached(p)).full
  <2>1. 0 \in Nat
    OBVIOUS
  <2>2. p \in RegState /\ q \in RegState /\ q.sound
    BY <1>1, <1>2, <2>1, FirmNew
  <2> QED BY <2>2, <1>2, SwapKept, FullKept
<1>3. ASSUME Operator \/ EndBinary PROVE Firm
  <2>1. ~p.full /\ need \in {"more", "closed"} /\ p' = Generated.p
    BY <1>3, ReadsFacts DEF Operator, EndBinary, Go
  <2> QED BY <2>1, FirmGenerated DEF Firm
<1>4. ASSUME NEW k \in {"and", "or"}, Logical(k) PROVE Firm
  <2>1. PICK g : g = Generated.p
    OBVIOUS
  <2>2. PICK f : f = FlushCached(g)
    OBVIOUS
  <2>3. PICK a : a = NewReg(f)
    OBVIOUS
  <2>4. ~p.full /\ need = "more" /\ IF a.full THEN p' = a ELSE p' = PopReg(SwapTop(a))
    BY <1>4, <2>1, <2>2, <2>3, ReadsFacts DEF Logical, Go
  <2>5. g \in RegState /\ g.sound
    BY <2>1, <2>4, FirmGenerated
  <2>6. f \in RegState /\ f.sound
    BY <2>2, <2>5, FlushFacts
  <2>7. a \in RegState /\ a.sound
    BY <2>3, <2>6, SoundNew
  <2> QED BY <2>4, <2>7, SwapKept DEF Firm
<1>5. ASSUME EndLogical PROVE Firm
  BY <1>2, <1>5, ReadsFacts DEF EndLogical, Go, Firm
<1>6. ASSUME EndPrefix PROVE Firm
  <2>1. /\ ~p.full /\ need = "done" /\ Top.k \in {"paren", "not"} /\ (p' = p \/ p' = Apply1(p))
    BY <1>6, ReadsFacts DEF EndPrefix, Go
  <2>2. PICK n : n = Len(s.vals)
    OBVIOUS
  <2>3. n \in Nat \ {0} /\ Alloc(p, n, todo) /\ p \in RegState
    <3>1. n \in Nat /\ Alloc(p, n, todo) /\ p \in RegState /\ n - Ready(need) \in Nat
      BY <2>1, <2>2, LiveFacts
    <3> QED BY <3>1, <2>1, ReadyFacts
  <2> QED BY <2>1, <2>3, SoundApply1 DEF Firm
<1>7. ASSUME Index \/ \E op \in 0 .. 1 : IdxSet(op) PROVE Firm
  BY <1>7, ReadsFacts DEF Index, IdxSet, Firm
<1>8. ASSUME IdxGet PROVE Firm
  <2>1. ~p.full /\ p' = Collapse(q)
    BY <1>1, <1>8, ReadsFacts DEF IdxGet, Go
  <2>2. CASE q.full
    BY <2>1, <2>2, <1>2 DEF Collapse, Firm
  <2>3. CASE ~q.full
    BY <2>1, <2>3, <1>2, SwapKept DEF Firm
  <2> QED BY <2>2, <2>3
<1>9. ASSUME EndIdxSet PROVE Firm
  <2>1. ~p.full /\ (p' = Collapse(p) \/ p' = IF q.full THEN q ELSE Collapse(PopReg(SwapTop(q))))
    BY <1>1, <1>9, ReadsFacts DEF EndIdxSet, Go
  <2>2. CASE p' = Collapse(p)
    BY <2>1, <2>2, <1>2 DEF Firm
  <2>3. CASE p' = IF q.full THEN q ELSE Collapse(PopReg(SwapTop(q)))
    BY <2>1, <2>3, <1>2, SwapKept DEF Firm
  <2> QED BY <2>1, <2>2, <2>3
<1>10. ASSUME Bind PROVE Firm
  BY <1>1, <1>2, <1>10, ReadsFacts DEF Bind, Go, Firm
<1> QED BY <1>3, <1>4, <1>5, <1>6, <1>7, <1>8, <1>9, <1>10 DEF Operators

Returns(q, os) ==
  IF q.full THEN p' = q
  ELSE p' = ReleaseAll(q, os) \/ p' = ReleaseAll(SetAllUnused(q, os), os)

LEMMA FirmLists ==
  ASSUME CoreInv, RegInv, Lists
  PROVE  Firm
<1>1. PICK a : a = IF Top.k = "fncall" THEN PopReg(p) ELSE p
  OBVIOUS
<1>2. ASSUME ~p.full
      PROVE  p \in RegState /\ p.sound /\ ~PopReg(p).full /\ ~TakeTop(p).full
  <2>1. p \in RegState /\ p.sound
    BY <1>2, LiveFacts DEF Alloc
  <2> QED BY <2>1, <1>2, FullKept
<1>3. ASSUME NEW k \in {"call", "method", "fncall", "new"}, Call(k) PROVE Firm
  BY <1>2, <1>3, ReadsFacts DEF Call, Firm
<1>4. ASSUME Argument \/ Element PROVE Firm
  BY <1>2, <1>4, ReadsFacts DEF Argument, Element, Go, Firm
<1>5. ASSUME Comma \/ EndArray PROVE Firm
  BY <1>5, ReadsFacts DEF Comma, EndArray, Firm
<1>6. ASSUME NEW q, q \in RegState, q.sound, NEW os, Returns(q, os)
      PROVE  Firm
  <2>1. CASE p' = q /\ q.full
    BY <2>1, <1>6 DEF Firm
  <2>2. CASE ~q.full /\ p' = ReleaseAll(q, os)
    BY <2>2, <1>6, ReleaseFacts DEF Firm
  <2>3. CASE ~q.full /\ p' = ReleaseAll(SetAllUnused(q, os), os)
    <3>1. PICK c : c = SetAllUnused(q, os)
      OBVIOUS
    <3>2. c \in RegState /\ c.full = q.full
      BY <3>1, <1>6, SetAllUnusedFacts
    <3> QED BY <3>1, <3>2, <2>3, ReleaseFacts DEF Firm
  <2> QED BY <1>6, <2>1, <2>2, <2>3 DEF Returns
<1>7. ASSUME EndCall PROVE Firm
  <2>1. PICK q : q = NewReg(a)
    OBVIOUS
  <2>2. /\ ~p.full /\ need = "comma" /\ Top.k \in {"call", "method", "fncall"}
        /\ p' = IF q.full THEN q ELSE ReleaseAll(q, Top.params)
    BY <1>1, <1>7, <2>1, ReadsFacts DEF EndCall, Go
  <2>3. a \in RegState /\ a.sound
    <3>1. PICK n : n = Len(s.vals)
      OBVIOUS
    <3>2. CASE Top.k = "fncall"
      <4>1. Held(Top) = 1 /\ Ready(need) = 0
        BY <3>2, <2>2, HeldFacts, ReadyFacts
      <4>2. n \in Nat /\ Alloc(p, n, todo) /\ p \in RegState /\ n - Ready(need) - Held(Top) \in Nat
        BY <3>1, <2>2, LiveFacts
      <4>3. n \in Nat \ {0}
        BY <4>1, <4>2
      <4>4. a = PopReg(p)
        BY <3>2, <1>1
      <4>5. Stepped(p, n, todo, a, n - 1, n - 1)
        BY <4>2, <4>3, <4>4, AllocPopped
      <4> QED BY <4>5 DEF Stepped, Alloc
    <3>3. CASE Top.k # "fncall"
      BY <3>3, <1>1, <1>2, <2>2
    <3> QED BY <3>2, <3>3
  <2>4. q \in RegState /\ q.sound
    BY <2>1, <2>3, SoundNew
  <2>5. Returns(q, Top.params)
    BY <2>2 DEF Returns
  <2> QED BY <2>4, <2>5, <1>6
<1>8. ASSUME EndNew PROVE Firm
  <2>1. PICK q : q = NewReg(p)
    OBVIOUS
  <2>2. /\ ~p.full
        /\ p' = IF q.full THEN q ELSE ReleaseAll(SetAllUnused(q, Top.params), Top.params)
    BY <1>8, <2>1, ReadsFacts DEF EndNew, Go
  <2>3. q \in RegState /\ q.sound
    BY <2>1, <2>2, <1>2, SoundNew
  <2>4. Returns(q, Top.params)
    BY <2>2 DEF Returns
  <2> QED BY <2>3, <2>4, <1>6
<1> QED BY <1>3, <1>4, <1>5, <1>7, <1>8 DEF Lists

LEMMA FirmStatements ==
  ASSUME Careful, CoreInv, CoreInv', RegInv, Statements
  PROVE  Firm
<1>1. ASSUME ~p.full
      PROVE  /\ p \in RegState /\ p.sound /\ ~PopReg(p).full
             /\ \A l, d : ~CacheStored(p, l, d).full
  <2>1. p \in RegState /\ p.sound
    BY <1>1, LiveFacts DEF Alloc
  <2> QED BY <2>1, <1>1, FullKept
<1>2. ASSUME NEW q, NEW f, ~p.full, Over(q, f, Below),
             q = p \/ q = PopReg(p) \/ \E l : q = CacheStored(p, l, LastReg(p))
      PROVE  Firm
  <2>1. ~q.full
    BY <1>1, <1>2
  <2> QED BY <2>1, <1>2, OverKept DEF Firm
<1>3. ASSUME NEW k \in {"effect", "print", "return"}, Statement(k) PROVE Firm
  BY <1>3, ReadsFacts DEF Statement, Begin, Firm
<1>4. ASSUME NEW x \in Names, Let(x) PROVE Firm
  BY <1>4, ReadsFacts DEF Let, Begin, Firm
<1>5. ASSUME EndEffect PROVE Firm
  BY <1>2, <1>5, ReadsFacts DEF EndEffect
<1>6. ASSUME PrintValue PROVE Firm
  <2>1. ~p.full /\ (Over(PopReg(p), s, Below) \/ p' = PopReg(p))
    BY <1>6, ReadsFacts DEF PrintValue
  <2>2. CASE Over(PopReg(p), s, Below)
    BY <2>1, <2>2, <1>2
  <2> QED BY <2>1, <2>2, <1>1 DEF Firm
<1>7. ASSUME Return PROVE Firm
  <2>1. ~p.full /\ \E f : Over(PopReg(p), f, Below)
    BY <1>7, ReadsFacts DEF Return
  <2>2. PICK f : Over(PopReg(p), f, Below)
    BY <2>1
  <2> QED BY <2>1, <2>2, <1>2
<1>8. ASSUME EndLet PROVE Firm
  <2>1. ~p.full
    BY <1>8, ReadsFacts DEF EndLet
  <2>2. \E b, l, f : Over(IF b THEN CacheStored(p, l, LastReg(p)) ELSE p, f, Below)
    BY <1>8 DEF EndLet
  <2>3. PICK q : /\ q = p \/ \E l : q = CacheStored(p, l, LastReg(p))
                 /\ \E f : Over(q, f, Below)
    BY <2>2
  <2>4. PICK f : Over(q, f, Below)
    BY <2>3
  <2> QED BY <2>1, <2>3, <2>4, <1>2
<1>9. ASSUME EndAssign PROVE Firm
  BY <1>1, <1>9, ReadsFacts DEF EndAssign, Go, Firm
<1>10. ASSUME EndCompound PROVE Firm
  <2>1. ~p.full /\ CachedReg(p, LocalOf(Top.x)) # NoReg
    BY <1>10, ReadsFacts DEF EndCompound, SafeCompound
  <2>2. p' = p
    BY <2>1, <1>10 DEF EndCompound, Go
  <2> QED BY <2>1, <2>2 DEF Firm
<1>11. ASSUME EndAssignField PROVE Firm
  BY <1>11, ReadsFacts DEF EndAssignField, Go, Firm
<1>12. ASSUME EndCompoundField PROVE Firm
  <2>1. PICK n : n = Len(s.vals)
    OBVIOUS
  <2>2. PICK q : q = NewReg(p)
    OBVIOUS
  <2>3. ~p.full /\ need = "done" /\ p' = IF q.full THEN q ELSE Apply2(q)
    BY <1>12, <2>2, ReadsFacts DEF EndCompoundField, Go
  <2>4. q \in RegState /\ q.sound
    BY <2>2, <2>3, <1>1, SoundNew
  <2>5. ASSUME ~q.full PROVE Apply2(q).sound
    <3>1. PICK k : k = n + 1
      OBVIOUS
    <3>2. n \in Nat \ {0}
      <4>1. n \in Nat /\ n - Ready(need) \in Nat
        BY <2>1, <2>3, LiveFacts
      <4> QED BY <4>1, <2>3, ReadyFacts
    <3>3. Stepped(p, n, todo, q, k, n)
      BY <3>1, <2>1, <2>2, <2>3, <2>5, NewRegStep
    <3>4. q \in RegState /\ k \in Nat /\ k > 1 /\ Alloc(q, k, todo)
      BY <3>1, <3>2, <3>3 DEF Stepped
    <3> QED BY <3>4, SoundApply2
  <2> QED BY <2>3, <2>4, <2>5 DEF Firm
<1> QED BY <1>3, <1>4, <1>5, <1>6, <1>7, <1>8, <1>9, <1>10, <1>11, <1>12 DEF Statements

LEMMA FirmBlocks ==
  ASSUME CoreInv, CoreInv', RegInv, BlocksOf
  PROVE  Firm
<1>1. ASSUME ~p.full PROVE ~FlushCached(p).full /\ ~PopReg(FlushCached(p)).full
  <2>1. p \in RegState
    BY <1>1, LiveFacts
  <2> QED BY <2>1, <1>1, FullKept
<1>2. ASSUME NEW k \in {"if", "while"}, Branch(k) PROVE Firm
  BY <1>1, <1>2, ReadsFacts DEF Branch, Begin, Firm
<1>3. ASSUME Body PROVE Firm
  BY <1>1, <1>3, ReadsFacts DEF Body, Go, Firm
<1>4. ASSUME EndIf \/ EndElse \/ EndLoop PROVE Firm
  <2>1. ~p.full /\ \E f : Over(FlushCached(p), f, Below)
    BY <1>4, ReadsFacts DEF EndIf, EndElse, EndLoop
  <2>2. PICK f : Over(FlushCached(p), f, Below)
    BY <2>1
  <2> QED BY <2>1, <2>2, <1>1, OverKept DEF Firm
<1>5. ASSUME Else \/ ElseIf PROVE Firm
  BY <1>1, <1>5, ReadsFacts DEF Else, ElseIf, Go, Firm
<1>6. ASSUME EndFunction PROVE Firm
  BY <1>6, ReadsFacts DEF EndFunction, Firm
<1> QED BY <1>2, <1>3, <1>4, <1>5, <1>6 DEF BlocksOf

LEMMA SoundStep ==
  ASSUME Careful, CoreInv, CoreInv', RegInv, RegInv', AssertionHolds, [Next]_vars_
  PROVE  AssertionHolds'
<1>1. ~p'.full => p'.sound
  <2>1. PICK n : n = Len(s'.vals)
    OBVIOUS
  <2>2. ~p'.full => Alloc(p', n, todo')
    BY <2>1 DEF RegInv, Regs
  <2> QED BY <2>2 DEF Alloc
<1>2. CASE UNCHANGED vars_
  BY <1>2 DEF AssertionHolds, vars_
<1>3. CASE Next
  <2>1. Firm
    BY <1>3, FirmValue, FirmOperators, FirmLists, FirmStatements, FirmBlocks DEF Next
  <2> QED BY <2>1, <1>1 DEF Firm, AssertionHolds
<1> QED BY <1>2, <1>3

LEMMA RegsReserved ==
  ASSUME CoreInv, RegInv
  PROVE  RegistersReserved
<1> SUFFICES ASSUME ~p.full
             PROVE  /\ Operands \union ParamRegs \union p.pinned \subseteq p.used
                    /\ CachedRegs \subseteq p.pinned
  BY DEF RegistersReserved
<1>1. PICK n : n = Len(s.vals)
  OBVIOUS
<1>2. n \in Nat /\ p \in RegState /\ Alloc(p, n, todo) /\ n <= Len(p.rstack)
  BY <1>1, LiveFacts
<1>3. Len(p.rstack) \in Nat /\ DOMAIN p.rstack = 1 .. Len(p.rstack)
  BY <1>2, RegStateFacts
<1>4. ASSUME NEW d \in Operands PROVE d \in p.used
  <2>1. PICK j \in DOMAIN p.rstack : j > Len(p.rstack) - n /\ d = p.rstack[j]
    BY <1>1, <1>4 DEF Operands
  <2>2. PICK v : v = j - Len(p.rstack) + n
    OBVIOUS
  <2>3. v \in 1 .. n /\ Len(p.rstack) - n + v = j
    BY <2>1, <2>2, <1>2, <1>3
  <2>4. OpReg(p, n, v) = d
    BY <2>1, <2>3 DEF OpReg
  <2> QED BY <2>3, <2>4, <1>2 DEF Alloc
<1>5. ASSUME NEW d \in ParamRegs PROVE d \in p.used
  <2>1. PICK i \in DOMAIN todo : d \in {o.reg : o \in Range(todo[i].params)}
    BY <1>5 DEF ParamRegs
  <2>2. PICK k \in DOMAIN todo[i].params : d = todo[i].params[k].reg
    BY <2>1 DEF Range
  <2> QED BY <2>2, <1>2 DEF Alloc
<1>6. p.pinned \subseteq p.used /\ CachedRegs \subseteq p.pinned
  <2>1. CachedRegs = Cached(p)
    BY DEF CachedRegs, Cached
  <2> QED BY <2>1, <1>2 DEF Alloc
<1> QED BY <1>4, <1>5, <1>6

(* In the programs Careful leaves, the registers are given out and back in *)
(* order: whatever waits keeps its register, shared only with a local it   *)
(* is the value of, and an assertion of the allocator never fails.         *)
THEOREM RegistersKept ==
  ASSUME Careful
  PROVE  Spec => [](CoreInv /\ RegInv /\ AssertionHolds)
<1>1. Init => CoreInv /\ RegInv /\ AssertionHolds
  <2> SUFFICES ASSUME Init PROVE CoreInv /\ RegInv /\ AssertionHolds
    OBVIOUS
  <2>1. p.sound
    BY DEF Init, NoRegsUsed
  <2> QED BY <2>1, InitCore, InitRegs DEF AssertionHolds
<1>2. CoreInv /\ RegInv /\ AssertionHolds /\ [Next]_vars_ => (CoreInv /\ RegInv /\ AssertionHolds)'
  <2> SUFFICES ASSUME CoreInv, RegInv, AssertionHolds, [Next]_vars_
               PROVE  CoreInv' /\ RegInv' /\ AssertionHolds'
    OBVIOUS
  <2>1. CoreInv'
    BY CoreStep
  <2>2. RegInv'
    BY <2>1, RegStep
  <2> QED BY <2>1, <2>2, SoundStep
<1> QED BY <1>1, <1>2, PTL DEF Spec

(* A register that holds an operand or an argument that waits, or the      *)
(* value of a local, is not given out again, whatever the order in which   *)
(* expressions, calls and assignments take and free registers (regs.c).    *)
THEOREM ReservedRegisters ==
  ASSUME Careful
  PROVE  Spec => []RegistersReserved
<1>1. CoreInv /\ RegInv => RegistersReserved
  BY RegsReserved
<1> QED BY <1>1, RegistersKept, PTL

(* No register is given back that is not in use: what regs.c:63 asserts.   *)
THEOREM AssertionKept ==
  ASSUME Careful
  PROVE  Spec => []AssertionHolds
<1> QED BY RegistersKept, PTL

=============================================================================
