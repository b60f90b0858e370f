--------------------------- MODULE FnTableProofs ---------------------------
(***************************************************************************)
(* For a source of any length: a call enters a function with as many       *)
(* arguments as it takes, and one without ? or ! no function that may      *)
(* fail.                                                                   *)
(***************************************************************************)
EXTENDS FnTable, FiniteSetTheorems, SequenceTheorems, WellFoundedInduction, TLAPS

-----------------------------------------------------------------------------
(* The inductive invariant.  The slot of the function under way is blank   *)
(* until its end, so what a slot promises to callers is read from cur for  *)
(* that one.                                                               *)

(* The number of arguments that a caller of the slot may count on. *)
Args(i) == IF i = cur.value THEN cur.num_args ELSE fns[i].num_args

(* A caller of the slot may count on it not to fail. *)
Trusted(i) == IF i = cur.value THEN cur.no_fail ELSE "may_fail" \notin fns[i].flags

(* What a dispatch function may hand a call on to. *)
Targets(i) ==
  {fns[i].inst[k].fn : k \in DOMAIN fns[i].inst} \cup ({fns[i].fallback} \ {0})

(* Every definition adds two slots at the most, every use one. *)
Bounded ==
  /\ Len(fns) <= 2 * Len(defs) + Len(uses)
  /\ Len(defs) + Len(uses) <= MaxSize
  /\ defs # <<>> => Len(defs) < MaxSize

UnderWay ==
  cur # MainProgram =>
    /\ cur.name \in Name
    /\ cur.value \in 1 .. Len(fns) /\ fns[cur.value].type = "none"
    /\ cur.body = Len(defs) /\ cur.body > 0 /\ defs[cur.body].num_args = cur.num_args
    /\ \A n \in Name : fn_map[n] = cur.value => n = cur.name

SlotOK(i) ==
  LET f == fns[i] IN
  /\ f.type = "bc" =>
       /\ f.body \in 1 .. Len(defs) /\ f.body # cur.body
       /\ defs[f.body].num_args = f.num_args
       /\ defs[f.body].may_fail = ("may_fail" \in f.flags)
  /\ f.type = "importer" => f.body = External
  /\ f.type = "dispatch" =>
       /\ f.body = 0
       /\ \A j \in Targets(i) :
            /\ j \in 1 .. Len(fns) /\ fns[j].type # "importer"
            /\ Args(j) = f.num_args
            /\ Trusted(i) => Trusted(j)

Slots == \A i \in 1 .. Len(fns) : SlotOK(i)

Maps ==
  /\ \A n, q \in Name : fn_map[n] # 0 /\ fn_map[n] = fn_map[q] => n = q
  /\ \A n \in Name : fn_map[n] # 0 => fns[fn_map[n]].type # "importer"
  /\ \A n \in Name : module_map[n] # 0 => fns[module_map[n]].type = "importer"

(* A function's calls of itself have no index until it ends. *)
UseOK(u) ==
  /\ u.of_module => ~u.self /\ module_map[u.name] # 0 /\ u.fn = module_map[u.name]
  /\ ~u.self =>
       /\ u.fn \in 1 .. Len(fns)
       /\ ~u.of_module => fns[u.fn].type # "importer"
       /\ u.kind # "value" => Args(u.fn) = u.num_args
       /\ u.kind = "normal" => Trusted(u.fn)
  /\ u.self =>
       /\ u.by \in 1 .. Len(defs)
       /\ u.kind # "value" =>
            IF u.by = cur.body THEN u.num_args = cur.num_args
            ELSE /\ u.fn \in 1 .. Len(fns) /\ fns[u.fn].type # "importer"
                 /\ Args(u.fn) = u.num_args

Uses == \A k \in 1 .. Len(uses) : UseOK(uses[k])

Complete ==
  res \in {"parsed", "linked"} =>
    cur = MainProgram /\ \A i \in 1 .. Len(fns) : fns[i].type # "none"

Going == res \in {"parsing", "parsed", "linked"}

FnInv ==
  /\ TypeOK /\ Bounded
  /\ Going => UnderWay /\ Slots /\ Maps /\ Uses /\ Complete
  /\ Runs => Linked(exports)


-----------------------------------------------------------------------------
(* Numbers and sequences *)

LEMMA LeastOf ==
  ASSUME NEW S \in SUBSET Nat, S # {}
  PROVE  \E m \in S : \A k \in S : m <= k
  <1>1. \E m \in S : \A k \in S : <<k, m>> \notin OpToRel(<, Nat)
    BY NatLessThanWellFounded, WFMin, Zenon
  <1>2. \A k, m \in Nat : <<k, m>> \in OpToRel(<, Nat) <=> k < m
    BY DEF OpToRel
  <1>3. PICK m \in S : \A k \in S : <<k, m>> \notin OpToRel(<, Nat)
    BY <1>1
  <1>4. \A k \in S : m <= k
    <2>1. SUFFICES ASSUME NEW k \in S PROVE m <= k
      OBVIOUS
    <2>2. k \in Nat /\ m \in Nat
      OBVIOUS
    <2>3. ~(k < m)
      BY <1>2, <1>3, <2>2
    <2> QED BY <2>2, <2>3
  <1> QED BY <1>4

(* A name counts, so that a source with a definition has one number more   *)
(* than it has definitions: that of the body of what a module exports.     *)
LEMMA FitsBounds ==
  ASSUME NEW ds \in Seq(Definition), NEW us \in Seq(Use), Fits(ds, us)
  PROVE  Len(ds) + Len(us) <= MaxSize /\ (Len(ds) > 0 => Len(ds) < MaxSize)
  <1> DEFINE all == ToSet(ds) \cup ToSet(us)
             name == [x \in all |-> x.name]
             names == {x.name : x \in all}
  <1>1. Len(ds) \in Nat /\ Len(us) \in Nat
    BY LenProperties
  <1>2. IsFiniteSet(ToSet(ds)) /\ IsFiniteSet(ToSet(us))
    <2>1. \A S : \A q \in Seq(S) : IsFiniteSet(ToSet(q))
      <3>1. SUFFICES ASSUME NEW S, NEW q \in Seq(S) PROVE IsFiniteSet(ToSet(q))
        OBVIOUS
      <3>2. q \in [1 .. Len(q) -> S] /\ Len(q) \in Nat
        BY LenProperties
      <3>3. IsFiniteSet(1 .. Len(q))
        BY <3>2, FS_Interval
      <3>4. q \in Surjection(1 .. Len(q), ToSet(q))
        BY <3>2 DEF ToSet, Surjection
      <3> QED BY <3>3, <3>4, FS_Surjection
    <2> QED BY <2>1
  <1>3. IsFiniteSet(all)
    BY <1>2, FS_Union
  <1>4. name \in Surjection(all, names)
    BY DEF Surjection
  <1>5. IsFiniteSet(names)
    <2> HIDE DEF all, name, names
    <2> QED BY <1>3, <1>4, FS_Surjection
  <1>6. Cardinality(names) \in Nat /\ (names # {} => Cardinality(names) > 0)
    <2> HIDE DEF names
    <2> QED BY <1>5, FS_CardinalityType, FS_EmptySet
  <1>7. Len(ds) > 0 => names # {}
    <2>1. SUFFICES ASSUME Len(ds) > 0 PROVE names # {}
      OBVIOUS
    <2>2. 1 \in DOMAIN ds
      BY <1>1, <2>1, LenProperties
    <2>3. ds[1].name \in names
      BY <2>2 DEF ToSet
    <2> QED BY <2>3
  <1>8. Len(ds) + Len(us) + Cardinality(names) <= MaxSize
    BY DEF Fits
  <1> HIDE DEF names
  <1> QED BY <1>1, <1>6, <1>7, <1>8, FnTableAssumption

-----------------------------------------------------------------------------
(* What the invariant says of calls *)

LEMMA Types ==
  ASSUME TypeOK
  PROVE  /\ Len(fns) \in Nat /\ DOMAIN fns = 1 .. Len(fns)
         /\ \A i \in 1 .. Len(fns) : fns[i] \in Function
         /\ Len(defs) \in Nat /\ DOMAIN defs = 1 .. Len(defs)
         /\ \A i \in 1 .. Len(defs) : defs[i] \in Definition
         /\ Len(uses) \in Nat /\ DOMAIN uses = 1 .. Len(uses)
         /\ \A k \in 1 .. Len(uses) : uses[k] \in Use
         /\ MaxSize \in Nat
  BY LenProperties, ElementOfSeq, FnTableAssumption DEF TypeOK

(* A call of an index ends in the slot itself or, when that dispatches, in *)
(* one of its targets.                                                     *)
LEMMA ReachedIs ==
  ASSUME TypeOK, NEW i \in 1 .. Len(fns), NEW c \in Object, Reached(i, c) # Error
  PROVE  \E j \in 1 .. Len(fns) \cup Targets(i) :
           /\ Reached(i, c) = fns[j].body
           /\ j = i \/ (fns[i].type = "dispatch" /\ j \in Targets(i))
  <1>1. \A j : OfMethod(j, c) # Error => OfMethod(j, c) = fns[j].body
    BY DEF OfMethod
  <1> DEFINE f == fns[i]
             fits == {k \in DOMAIN f.inst : f.inst[k].class = c}
             first == CHOOSE k \in fits : \A j \in fits : k <= j
  <1>2. CASE f.type # "dispatch"
    <2>1. Reached(i, c) = OfMethod(i, c)
      BY <1>2 DEF Reached
    <2> QED BY <1>1, <2>1
  <1>3. CASE f.type = "dispatch" /\ c # NoClass /\ fits # {}
    <2>1. Reached(i, c) = OfMethod(f.inst[first].fn, c)
      BY <1>3 DEF Reached
    <2>2. fits \subseteq Nat
      <3>1. f.inst \in Seq(Instance)
        BY Types DEF Function
      <3> QED BY <3>1, LenProperties
    <2>3. \E m \in fits : \A k \in fits : m <= k
      BY <1>3, <2>2, LeastOf
    <2>4. first \in fits
      BY <2>3
    <2>5. f.inst[first].fn \in Targets(i)
      BY <2>4 DEF Targets
    <2> HIDE DEF first, fits
    <2> QED BY <1>1, <1>3, <2>1, <2>5
  <1>4. CASE f.type = "dispatch" /\ ~(c # NoClass /\ fits # {})
    <2>1. Reached(i, c) = IF c = NoClass \/ f.fallback = 0 THEN Error
                          ELSE OfMethod(f.fallback, c)
      BY <1>4 DEF Reached
    <2>2. f.fallback # 0 /\ Reached(i, c) = OfMethod(f.fallback, c)
      BY <2>1
    <2>3. f.fallback \in Targets(i)
      BY <2>2 DEF Targets
    <2> QED BY <1>1, <1>4, <2>2, <2>3
  <1> QED BY <1>2, <1>3, <1>4

(* What a call reaches when all is linked: a body of this file, that of    *)
(* the slot it stands in, or what the module exports under that name.      *)
LEMMA CallEndsIn ==
  ASSUME FnInv, Runs, NEW k \in DOMAIN uses, NEW c \in Object,
         uses[k].kind # "value", Reached(uses[k].fn, c) # Error
  PROVE  LET u == uses[k]
             b == Reached(u.fn, c)
         IN \/ /\ b \in 1 .. Len(defs) /\ b # External
               /\ defs[b].num_args = u.num_args
               /\ u.kind = "normal" /\ ~u.self => ~defs[b].may_fail
            \/ /\ b = External
               /\ exports[u.name].num_args = u.num_args
               /\ u.kind = "normal" /\ ~u.self => ~exports[u.name].may_fail
  <1> DEFINE u == uses[k]
             i == u.fn
             b == Reached(i, c)
  <1>1. /\ TypeOK /\ Bounded /\ Slots /\ Maps /\ Uses
        /\ cur = MainProgram /\ (\A j \in 1 .. Len(fns) : fns[j].type # "none")
        /\ Linked(exports)
    BY DEF FnInv, Going, Runs, Complete
  <1>2. /\ u \in Use /\ UseOK(u)
        /\ u.of_module \in BOOLEAN /\ u.self \in BOOLEAN /\ u.name \in Name
    <2>1. k \in 1 .. Len(uses)
      BY <1>1, Types
    <2>2. u \in Use /\ UseOK(u)
      BY <1>1, <2>1, Types DEF Uses
    <2> QED BY <2>2 DEF Use
  <1>3. cur.value = 0 /\ cur.body = 0
    BY <1>1 DEF MainProgram
  <1>4. ~u.self \/ u.by # cur.body
    BY <1>2, <1>3 DEF UseOK
  <1> HIDE DEF u
  <1>5. /\ i \in 1 .. Len(fns) /\ Args(i) = u.num_args
        /\ u.kind = "normal" /\ ~u.self => Trusted(i)
        /\ fns[i].type = "importer" => u.of_module /\ i = module_map[u.name]
    BY <1>2, <1>4 DEF UseOK, u
  <1>6. PICK j \in 1 .. Len(fns) \cup Targets(i) :
           /\ b = fns[j].body
           /\ j = i \/ (fns[i].type = "dispatch" /\ j \in Targets(i))
    BY <1>1, <1>5, ReachedIs DEF u
  <1>7. \A n \in 1 .. Len(fns) : Args(n) = fns[n].num_args
                                 /\ (Trusted(n) <=> "may_fail" \notin fns[n].flags)
    BY <1>3 DEF Args, Trusted
  <1>8. /\ j \in 1 .. Len(fns) /\ fns[j].num_args = u.num_args
        /\ u.kind = "normal" /\ ~u.self => "may_fail" \notin fns[j].flags
        /\ fns[j].type = "importer" => j = i
    <2>1. CASE j = i
      BY <1>5, <1>7, <2>1
    <2>2. CASE fns[i].type = "dispatch" /\ j \in Targets(i)
      <3>1. /\ j \in 1 .. Len(fns) /\ fns[j].type # "importer"
            /\ Args(j) = fns[i].num_args /\ (Trusted(i) => Trusted(j))
        BY <1>1, <1>5, <2>2 DEF Slots, SlotOK
      <3> QED BY <1>5, <1>7, <3>1
    <2> QED BY <1>6, <2>1, <2>2
  <1>9. fns[j].type \in {"bc", "importer", "dispatch"} /\ SlotOK(j)
    BY <1>1, <1>8, Types DEF Function, Slots
  <1>10. CASE fns[j].type = "bc"
    <2>1. b \in 1 .. Len(defs) /\ b # External
      <3>1. b \in 1 .. Len(defs) /\ Len(defs) \in Nat /\ defs # <<>> => Len(defs) < MaxSize
        BY <1>1, <1>6, <1>9, <1>10, Types DEF SlotOK, Bounded
      <3>2. b \in 1 .. Len(defs)
        BY <1>6, <1>9, <1>10 DEF SlotOK
      <3>3. Len(defs) \in Nat /\ (defs # <<>> => Len(defs) < MaxSize) /\ MaxSize \in Nat
        BY <1>1, Types DEF Bounded
      <3>4. defs # <<>>
        BY <3>2
      <3> HIDE DEF b
      <3> QED BY <3>2, <3>3, <3>4 DEF External
    <2>2. defs[b].num_args = fns[j].num_args /\ defs[b].may_fail = ("may_fail" \in fns[j].flags)
      BY <1>6, <1>9, <1>10 DEF SlotOK
    <2> QED BY <1>8, <2>1, <2>2 DEF u
  <1>11. CASE fns[j].type = "importer"
    <2>1. b = External /\ j = module_map[u.name]
      BY <1>5, <1>6, <1>8, <1>9, <1>11 DEF SlotOK
    <2>2. module_map[u.name] # 0
      BY <1>8, <2>1
    <2>3. /\ fns[j].num_args = exports[u.name].num_args
          /\ ("may_fail" \in fns[j].flags) = exports[u.name].may_fail
      BY <1>1, <1>2, <2>1, <2>2 DEF Linked, u
    <2> QED BY <1>8, <2>1, <2>3 DEF u
  <1>12. CASE fns[j].type = "dispatch"
    BY <1>6, <1>9, <1>12 DEF SlotOK, Error, u
  <1> QED BY <1>9, <1>10, <1>11, <1>12

LEMMA InvAgrees ==
  ASSUME FnInv
  PROVE  ArityAgrees /\ MayFailSound
  <1>1. ArityAgrees
    BY CallEndsIn DEF ArityAgrees, TakesArgs
  <1>2. MayFailSound
    <2>1. SUFFICES ASSUME Runs, NEW k \in DOMAIN uses, NEW c \in Object,
                          uses[k].kind = "normal", ~uses[k].self
                   PROVE  ~Fails(uses[k].name, Reached(uses[k].fn, c))
      BY DEF MayFailSound
    <2> DEFINE b == Reached(uses[k].fn, c)
    <2>2. CASE b = Error
      <3>1. MaxSize # 0
        <4>1. Len(uses) \in Nat \ {0} /\ Len(defs) \in Nat /\ MaxSize \in Nat
          BY Types DEF FnInv
        <4> QED BY <4>1 DEF FnInv, Bounded
      <3> QED BY <2>2, <3>1 DEF Fails, External, Error
    <2>3. CASE b # Error
      <3>1. uses[k].kind # "value"
        BY <2>1
      <3> HIDE DEF b
      <3>2. \/ b # External /\ ~defs[b].may_fail
            \/ b = External /\ ~exports[uses[k].name].may_fail
        BY <2>1, <2>3, <3>1, CallEndsIn DEF b
      <3> QED BY <3>2 DEF Fails, b
    <2> QED BY <2>2, <2>3
  <1> QED BY <1>1, <1>2

-----------------------------------------------------------------------------
(* What a step keeps for the callers of the slots there were *)

Keeps ==
  /\ Len(fns) <= Len(fns')
  /\ Len(defs) <= Len(defs')
  /\ \A i \in 1 .. Len(fns) :
       /\ Args(i)' = Args(i)
       /\ Trusted(i) => Trusted(i)'
       /\ (fns[i].type = "importer") = (fns'[i].type = "importer")
  /\ \A n \in Name : module_map[n] # 0 => module_map'[n] = module_map[n]

SameFunction ==
  /\ cur'.name = cur.name /\ cur'.value = cur.value /\ cur'.body = cur.body
  /\ cur'.num_args = cur.num_args /\ cur'.no_fail = cur.no_fail
  /\ (cur = MainProgram) = (cur' = MainProgram)

LEMMA MainProgramIs ==
  ASSUME cur = MainProgram
  PROVE  cur.name = NoClass /\ cur.value = 0 /\ cur.body = 0
  BY DEF MainProgram

LEMMA UnderWayIs ==
  ASSUME TypeOK, UnderWay
  PROVE  /\ cur.value \in 0 .. Len(fns) /\ cur.body \in 0 .. Len(defs)
         /\ cur.value # 0 => fns[cur.value].type = "none"
         /\ cur.value = 0 <=> cur = MainProgram
         /\ cur.body = 0 <=> cur = MainProgram
         /\ cur.name \in Name <=> cur # MainProgram
  <1>1. Len(fns) \in Nat /\ Len(defs) \in Nat
    BY Types
  <1>2. CASE cur = MainProgram
    BY <1>1, <1>2, MainProgramIs, FnTableAssumption
  <1>3. CASE cur # MainProgram
    BY <1>1, <1>3 DEF UnderWay
  <1> QED BY <1>2, <1>3

(* A use that has been read stays as good as it was. *)
LEMMA UseKept ==
  ASSUME TypeOK, Keeps, TypeOK', NEW u \in Use, UseOK(u),
         u.self /\ u.kind # "value" =>
           \/ cur'.body = cur.body /\ cur'.num_args = cur.num_args
           \/ u.by # cur.body /\ u.by # cur'.body
  PROVE  UseOK(u)'
  <1>1. /\ Len(fns) \in Nat /\ Len(defs) \in Nat /\ Len(fns') \in Nat /\ Len(defs') \in Nat
        /\ u.name \in Name /\ u.self \in BOOLEAN
    BY Types, LenProperties DEF Use, TypeOK
  <1>2. u.of_module => ~u.self /\ module_map'[u.name] # 0 /\ u.fn = module_map'[u.name]
    BY <1>1 DEF UseOK, Keeps
  <1>3. \A i \in 1 .. Len(fns) : i \in 1 .. Len(fns')
    BY <1>1 DEF Keeps
  <1>4. ~u.self =>
          /\ u.fn \in 1 .. Len(fns')
          /\ ~u.of_module => fns'[u.fn].type # "importer"
          /\ u.kind # "value" => Args(u.fn)' = u.num_args
          /\ u.kind = "normal" => Trusted(u.fn)'
    BY <1>3 DEF UseOK, Keeps
  <1>5. u.self => u.by \in 1 .. Len(defs')
    BY <1>1 DEF UseOK, Keeps
  <1>6. u.self /\ u.kind # "value" =>
          IF u.by = cur'.body THEN u.num_args = cur'.num_args
          ELSE /\ u.fn \in 1 .. Len(fns') /\ fns'[u.fn].type # "importer"
               /\ Args(u.fn)' = u.num_args
    BY <1>3 DEF UseOK, Keeps
  <1> QED BY <1>2, <1>4, <1>5, <1>6 DEF UseOK

(* A slot that is not written stays as good as it was. *)
LEMMA SlotKept ==
  ASSUME TypeOK, TypeOK', UnderWay, UnderWay', Keeps,
         NEW i \in 1 .. Len(fns), SlotOK(i), fns'[i] = fns[i],
         \A b \in 1 .. Len(defs) : b # cur.body => b # cur'.body /\ defs'[b] = defs[b]
  PROVE  SlotOK(i)'
  <1> DEFINE f == fns[i]
  <1>1. /\ Len(fns) \in Nat /\ Len(defs) \in Nat /\ Len(fns') \in Nat /\ Len(defs') \in Nat
        /\ Len(fns) <= Len(fns') /\ Len(defs) <= Len(defs')
    BY Types, LenProperties DEF TypeOK, Keeps
  <1>2. f.type = "bc" =>
          /\ f.body \in 1 .. Len(defs') /\ f.body # cur'.body
          /\ defs'[f.body].num_args = f.num_args
          /\ defs'[f.body].may_fail = ("may_fail" \in f.flags)
    <2>1. SUFFICES ASSUME f.type = "bc"
                   PROVE  /\ f.body \in 1 .. Len(defs') /\ f.body # cur'.body
                          /\ defs'[f.body].num_args = f.num_args
                          /\ defs'[f.body].may_fail = ("may_fail" \in f.flags)
      OBVIOUS
    <2>2. /\ f.body \in 1 .. Len(defs) /\ f.body # cur.body
          /\ defs[f.body].num_args = f.num_args
          /\ defs[f.body].may_fail = ("may_fail" \in f.flags)
      BY <2>1 DEF SlotOK
    <2>3. f.body # cur'.body /\ defs'[f.body] = defs[f.body]
      BY <2>2
    <2> QED BY <1>1, <2>2, <2>3
  <1>3. f.type = "importer" => f.body = External
    BY DEF SlotOK
  <1>4. Targets(i)' = Targets(i)
    BY DEF Targets
  <1>5. f.type = "dispatch" /\ Trusted(i)' => Trusted(i)
    <2>1. f.type = "dispatch" => i # cur.value /\ i # cur'.value
      BY MainProgramIs DEF UnderWay, MainProgram
    <2> QED BY <2>1 DEF Trusted
  <1>6. f.type = "dispatch" =>
          /\ f.body = 0
          /\ \A j \in Targets(i)' :
               /\ j \in 1 .. Len(fns') /\ fns'[j].type # "importer"
               /\ Args(j)' = f.num_args
               /\ Trusted(i)' => Trusted(j)'
    <2>1. f.type = "dispatch" => f.body = 0
      BY DEF SlotOK
    <2>2. SUFFICES ASSUME f.type = "dispatch", NEW j \in Targets(i)
                   PROVE  /\ j \in 1 .. Len(fns') /\ fns'[j].type # "importer"
                          /\ Args(j)' = f.num_args
                          /\ Trusted(i)' => Trusted(j)'
      BY <1>4, <2>1
    <2>3. /\ j \in 1 .. Len(fns) /\ fns[j].type # "importer"
          /\ Args(j) = f.num_args
          /\ Trusted(i) => Trusted(j)
      BY <2>2 DEF SlotOK
    <2> QED BY <1>1, <1>5, <2>2, <2>3 DEF Keeps
  <1> QED BY <1>2, <1>3, <1>6 DEF SlotOK

-----------------------------------------------------------------------------
(* The table when the head of a definition has been read *)

LEMMA AppendIs ==
  ASSUME NEW S, NEW q \in Seq(S), NEW e \in S
  PROVE  /\ Append(q, e) \in Seq(S) /\ Len(Append(q, e)) = Len(q) + 1
         /\ \A i \in 1 .. Len(q) : Append(q, e)[i] = q[i]
         /\ Append(q, e)[Len(q) + 1] = e
  BY AppendProperties

LEMMA ForwardIs ==
  ASSUME NEW n \in Nat
  PROVE  /\ Forward(n) \in Function
         /\ Forward(n).type = "none" /\ Forward(n).num_args = n /\ Forward(n).flags = {}
  BY FnTableAssumption, EmptySeq DEF Forward, Function, Object, Index, Body

(* A method joins a dispatch function. *)
Joins(p, at, d) ==
  /\ p.fns \in Seq(Function) /\ Len(p.fns) = Len(fns) + 1 /\ p.value = Len(fns) + 1
  /\ p.fns[p.value] = Forward(0)
  /\ \A i \in 1 .. Len(fns) : i # at => p.fns[i] = fns[i]
  /\ p.fns[at].type = "dispatch" /\ p.fns[at].flags = fns[at].flags
  /\ p.fns[at].num_args = fns[at].num_args /\ p.fns[at].body = fns[at].body
  /\ p.fns[at].fallback = fns[at].fallback
  /\ {p.fns[at].inst[k].fn : k \in DOMAIN p.fns[at].inst}
       = {fns[at].inst[k].fn : k \in DOMAIN fns[at].inst} \cup {p.value}

(* A function becomes a dispatch function, and moves. *)
Turns(p, at, d) ==
  /\ p.fns \in Seq(Function) /\ Len(p.fns) = Len(fns) + 2 /\ p.value = Len(fns) + 2
  /\ p.fns[p.value] = Forward(0)
  /\ p.fns[Len(fns) + 1] = fns[at]
  /\ \A i \in 1 .. Len(fns) : i # at => p.fns[i] = fns[i]
  /\ p.fns[at].type = "dispatch" /\ p.fns[at].flags = fns[at].flags \cup {"has_class"}
  /\ p.fns[at].num_args = fns[at].num_args /\ p.fns[at].body = 0
  /\ {p.fns[at].inst[k].fn : k \in DOMAIN p.fns[at].inst}
       \cup ({p.fns[at].fallback} \ {0}) = {Len(fns) + 1, p.value}

LEMMA FirstInstances ==
  ASSUME NEW a \in Instance, NEW b \in Instance, NEW method \in BOOLEAN
  PROVE  LET q == Append(IF method THEN <<a>> ELSE <<>>, b)
         IN /\ q \in Seq(Instance)
            /\ {q[k].fn : k \in DOMAIN q} = {b.fn} \cup IF method THEN {a.fn} ELSE {}
  <1>1. CASE method
    <2> DEFINE q == Append(<<a>>, b)
    <2>1. q \in Seq(Instance) /\ DOMAIN q = {1, 2} /\ q[1] = a /\ q[2] = b
      OBVIOUS
    <2> HIDE DEF q
    <2>2. {q[k].fn : k \in DOMAIN q} = {b.fn, a.fn}
      BY <2>1
    <2>3. q \in Seq(Instance) /\ {q[k].fn : k \in DOMAIN q} = {b.fn} \cup {a.fn}
      BY <2>1, <2>2
    <2> QED BY <1>1, <2>3 DEF q
  <1>2. CASE ~method
    <2> DEFINE q == Append(<<>>, b)
    <2>1. q \in Seq(Instance) /\ DOMAIN q = {1} /\ q[1] = b
      OBVIOUS
    <2> HIDE DEF q
    <2>2. q \in Seq(Instance) /\ {q[k].fn : k \in DOMAIN q} = {b.fn} \cup {}
      BY <2>1
    <2> QED BY <1>2, <2>2 DEF q
  <1> QED BY <1>1, <1>2

LEMMA AddInstanceIs ==
  ASSUME TypeOK, NEW d \in Definition, NEW at \in 1 .. Len(fns),
         Len(fns) + 2 <= 2 * MaxSize, fns[at].type = "dispatch"
  PROVE  Joins(AddInstance(at, d), at, d)
  <1> DEFINE new == [fn |-> Len(fns) + 1, class |-> d.class]
             f == [fns[at] EXCEPT !.inst = Append(@, new)]
             grown == [fns EXCEPT ![at] = f]
  <1>1. /\ Len(fns) \in Nat /\ MaxSize \in Nat /\ fns[at] \in Function /\ fns \in Seq(Function)
        /\ fns[at].inst \in Seq(Instance)
    BY Types DEF TypeOK, Function
  <1>2. new \in Instance
    BY <1>1 DEF Instance, Index, Definition
  <1>3. /\ Append(fns[at].inst, new) \in Seq(Instance)
        /\ Len(Append(fns[at].inst, new)) = Len(fns[at].inst) + 1
        /\ \A i \in 1 .. Len(fns[at].inst) : Append(fns[at].inst, new)[i] = fns[at].inst[i]
        /\ Append(fns[at].inst, new)[Len(fns[at].inst) + 1] = new
    <2> HIDE DEF new
    <2> QED BY <1>1, <1>2, AppendIs
  <1>4. /\ f \in Function /\ f.inst = Append(fns[at].inst, new)
        /\ f.type = "dispatch" /\ f.flags = fns[at].flags /\ f.num_args = fns[at].num_args
        /\ f.body = fns[at].body /\ f.fallback = fns[at].fallback
    BY <1>1, <1>3 DEF Function
  <1>5. {f.inst[k].fn : k \in DOMAIN f.inst}
          = {fns[at].inst[k].fn : k \in DOMAIN fns[at].inst} \cup {Len(fns) + 1}
    <2> DEFINE old == fns[at].inst
               q == Append(old, new)
    <2>1. /\ Len(old) \in Nat /\ DOMAIN old = 1 .. Len(old)
          /\ DOMAIN q = 1 .. Len(old) + 1
      BY <1>1, <1>3, LenProperties
    <2>2. \A k \in 1 .. Len(old) : q[k].fn = old[k].fn
      BY <1>3
    <2>3. q[Len(old) + 1].fn = Len(fns) + 1
      BY <1>3
    <2>4. {q[k].fn : k \in DOMAIN q} = {old[k].fn : k \in DOMAIN old} \cup {Len(fns) + 1}
      <3> HIDE DEF old, q
      <3> QED BY <2>1, <2>2, <2>3
    <2> QED BY <1>4, <2>4
  <1> HIDE DEF f
  <1>6. /\ grown \in Seq(Function) /\ Len(grown) = Len(fns)
        /\ \A j \in 1 .. Len(fns) : grown[j] = IF j = at THEN f ELSE fns[j]
    BY <1>1, <1>4, ExceptSeq
  <1> DEFINE p == AddInstance(at, d)
  <1>7. p.fns = Append(grown, Forward(0)) /\ p.value = Len(fns) + 1
    BY <1>1, <1>6 DEF AddInstance, AppendSlot, f
  <1> HIDE DEF grown, p
  <1>8. /\ p.fns \in Seq(Function) /\ Len(p.fns) = Len(fns) + 1
        /\ \A i \in 1 .. Len(fns) : p.fns[i] = grown[i]
        /\ p.fns[Len(fns) + 1] = Forward(0)
    BY <1>6, <1>7, AppendIs, ForwardIs
  <1>9. p.fns[at] = f
    BY <1>6, <1>8
  <1>10. /\ p.fns[p.value] = Forward(0)
         /\ \A i \in 1 .. Len(fns) : i # at => p.fns[i] = fns[i]
    BY ONLY <1>6, <1>7, <1>8
  <1>11. Joins(p, at, d)
    BY ONLY <1>4, <1>5, <1>7, <1>8, <1>9, <1>10 DEF Joins
  <1> QED BY <1>11 DEF p

LEMMA ToDispatchIs ==
  ASSUME TypeOK, NEW d \in Definition, NEW at \in 1 .. Len(fns),
         Len(fns) + 2 <= 2 * MaxSize
  PROVE  Turns(ToDispatch(at, d), at, d)
  <1>1. /\ Len(fns) \in Nat /\ MaxSize \in Nat /\ fns[at] \in Function /\ fns \in Seq(Function)
        /\ fns[at].class \in Object /\ fns[at].flags \in SUBSET Flag
        /\ fns[at].num_args \in Nat
    BY Types DEF TypeOK, Function
  <1> DEFINE moved == Len(fns) + 1
             method == "has_class" \in fns[at].flags /\ fns[at].type = "bc"
             before == [fn |-> moved, class |-> fns[at].class]
             new == [fn |-> moved + 1, class |-> d.class]
             inst == Append(IF method THEN <<before>> ELSE <<>>, new)
             f == [type |-> "dispatch", flags |-> fns[at].flags \cup {"has_class"},
                   num_args |-> fns[at].num_args, class |-> NoClass, body |-> 0,
                   inst |-> inst, fallback |-> IF method THEN 0 ELSE moved]
             q == Append([fns EXCEPT ![at] = f], fns[at])
             p == ToDispatch(at, d)
  <1>2. /\ before \in Instance /\ new \in Instance /\ method \in BOOLEAN
        /\ moved \in Index /\ moved # 0 /\ new.fn = moved + 1 /\ before.fn = moved
    BY <1>1 DEF Instance, Index, Definition
  <1>3. p = AppendSlot(q)
    BY DEF ToDispatch
  <1>4. 0 \in Index /\ NoClass \in Object /\ 0 \in Body
        /\ fns[at].flags \cup {"has_class"} \in SUBSET Flag
    BY <1>1 DEF Index, Object, Body, Flag
  <1> HIDE DEF before, new, moved, method, p
  <1>5. /\ inst \in Seq(Instance)
        /\ {inst[k].fn : k \in DOMAIN inst} = {moved + 1} \cup IF method THEN {moved} ELSE {}
    BY <1>2, FirstInstances
  <1> HIDE DEF inst
  <1>6. /\ f \in Function
        /\ f.inst = inst /\ f.fallback = IF method THEN 0 ELSE moved
        /\ f.type = "dispatch" /\ f.flags = fns[at].flags \cup {"has_class"}
        /\ f.num_args = fns[at].num_args /\ f.body = 0
    BY <1>1, <1>2, <1>4, <1>5 DEF Function
  <1>7. {f.inst[k].fn : k \in DOMAIN f.inst} \cup ({f.fallback} \ {0}) = {moved, moved + 1}
    <2> HIDE DEF f
    <2>1. {f.inst[k].fn : k \in DOMAIN f.inst} = {inst[k].fn : k \in DOMAIN inst}
      BY <1>6, Zenon
    <2> DEFINE fns_of == {inst[k].fn : k \in DOMAIN inst}
    <2> HIDE DEF fns_of
    <2>2. fns_of = {moved + 1} \cup IF method THEN {moved} ELSE {}
      BY <1>5 DEF fns_of
    <2>3. fns_of \cup ({f.fallback} \ {0}) = {moved, moved + 1}
      BY <1>2, <1>6, <2>2
    <2> QED BY <2>1, <2>3 DEF fns_of
  <1> HIDE DEF f
  <1> DEFINE turned == [fns EXCEPT ![at] = f]
  <1>8. /\ turned \in Seq(Function) /\ Len(turned) = Len(fns)
        /\ \A j \in 1 .. Len(fns) : turned[j] = IF j = at THEN f ELSE fns[j]
    BY <1>1, <1>6, ExceptSeq
  <1> HIDE DEF turned
  <1>9. /\ q \in Seq(Function) /\ Len(q) = Len(fns) + 1
        /\ \A i \in 1 .. Len(fns) : q[i] = turned[i]
        /\ q[Len(fns) + 1] = fns[at]
    <2>1. q = Append(turned, fns[at])
      BY DEF turned
    <2> HIDE DEF q
    <2>2. /\ Append(turned, fns[at]) \in Seq(Function)
          /\ Len(Append(turned, fns[at])) = Len(turned) + 1
          /\ \A i \in 1 .. Len(turned) : Append(turned, fns[at])[i] = turned[i]
          /\ Append(turned, fns[at])[Len(turned) + 1] = fns[at]
      BY <1>1, <1>8, AppendIs
    <2> QED BY <1>8, <2>1, <2>2
  <1> HIDE DEF q
  <1>10. p.fns = Append(q, Forward(0)) /\ p.value = Len(q) + 1
    BY <1>3 DEF AppendSlot
  <1>11. /\ p.fns \in Seq(Function) /\ Len(p.fns) = Len(q) + 1
         /\ \A i \in 1 .. Len(q) : p.fns[i] = q[i]
         /\ p.fns[Len(q) + 1] = Forward(0)
    <2>1. Forward(0) \in Function
      BY ForwardIs
    <2>2. /\ Append(q, Forward(0)) \in Seq(Function)
          /\ Len(Append(q, Forward(0))) = Len(q) + 1
          /\ \A i \in 1 .. Len(q) : Append(q, Forward(0))[i] = q[i]
          /\ Append(q, Forward(0))[Len(q) + 1] = Forward(0)
      BY <1>9, <2>1, AppendIs
    <2> QED BY <1>10, <2>2
  <1>12. Len(q) = Len(fns) + 1 /\ Len(p.fns) = Len(fns) + 2 /\ p.value = Len(fns) + 2
    BY <1>1, <1>9, <1>10, <1>11
  <1>13. p.fns[at] = f /\ p.fns[Len(fns) + 1] = fns[at] /\ p.fns[Len(fns) + 2] = Forward(0)
         /\ \A i \in 1 .. Len(fns) : i # at => p.fns[i] = fns[i]
    BY <1>1, <1>8, <1>9, <1>11, <1>12
  <1>14. {p.fns[at].inst[k].fn : k \in DOMAIN p.fns[at].inst}
           \cup ({p.fns[at].fallback} \ {0}) = {Len(fns) + 1, p.value}
    <2>1. p.fns[at] = f /\ p.value = moved + 1 /\ moved = Len(fns) + 1
      BY <1>1, <1>12, <1>13 DEF moved
    <2> QED BY <1>7, <2>1, Zenon
  <1> QED BY <1>6, <1>11, <1>12, <1>13, <1>14 DEF Turns, p

(* A name that is new in the table gets a slot. *)
Adds(p) ==
  /\ p.fns \in Seq(Function) /\ Len(p.fns) = Len(fns) + 1 /\ p.value = Len(fns) + 1
  /\ p.fns[p.value] = Forward(0)
  /\ \A i \in 1 .. Len(fns) : p.fns[i] = fns[i]

(* The definition takes the slot that a use has made, or a redefined       *)
(* function's, which is blank until the definition ends.                   *)
Takes(p, at) ==
  /\ p.fns \in Seq(Function) /\ Len(p.fns) = Len(fns) /\ p.value = at
  /\ p.fns[at].type = "none"
  /\ \A i \in 1 .. Len(fns) : i # at => p.fns[i] = fns[i]

LEMMA PlaceIs ==
  ASSUME TypeOK, NEW d \in Definition, Len(fns) + 2 <= 2 * MaxSize
  PROVE  LET at == fn_map[d.name]
             p == Place(d)
         IN \/ at = 0 /\ Adds(p)
            \/ /\ at \in 1 .. Len(fns)
               /\ \/ Takes(p, at)
                  \/ fns[at].type = "dispatch" /\ Joins(p, at, d)
                  \/ fns[at].type \notin {"none", "dispatch"} /\ Turns(p, at, d)
  <1> DEFINE at == fn_map[d.name]
             p == Place(d)
  <1>1. /\ Len(fns) \in Nat /\ fns \in Seq(Function) /\ at \in 0 .. Len(fns)
        /\ Forward(0) \in Function /\ Forward(0).type = "none"
    BY Types, ForwardIs DEF TypeOK, Definition
  <1>2. CASE at = 0
    <2>1. p = AppendSlot(fns)
      BY <1>2 DEF Place
    <2>2. p.fns = Append(fns, Forward(0)) /\ p.value = Len(fns) + 1
      BY <2>1 DEF AppendSlot
    <2> HIDE DEF p
    <2>3. Adds(p)
      BY <1>1, <2>2, AppendIs DEF Adds
    <2> QED BY <1>2, <2>3 DEF p
  <1>3. CASE at # 0 /\ fns[at].type = "none"
    <2>1. p = [fns |-> fns, value |-> at]
      BY <1>3 DEF Place
    <2>2. Takes(p, at)
      BY <1>1, <1>3, <2>1 DEF Takes
    <2> QED BY <1>1, <1>3, <2>2
  <1>4. CASE at # 0 /\ fns[at].type # "none"
    <2> DEFINE joined == SameVisibility(fns[at], FnFlags(d))
                         /\ "has_class" \in fns[at].flags \cup FnFlags(d)
    <2>1. p = IF joined
              THEN IF fns[at].type = "dispatch" THEN AddInstance(at, d) ELSE ToDispatch(at, d)
              ELSE [fns |-> [fns EXCEPT ![at] = Forward(0)], value |-> at]
      BY <1>4 DEF Place
    <2> HIDE DEF joined
    <2>2. at \in 1 .. Len(fns)
      BY <1>1, <1>4
    <2>3. CASE ~joined
      <3>1. p = [fns |-> [fns EXCEPT ![at] = Forward(0)], value |-> at]
        BY <2>1, <2>3
      <3> DEFINE q == [fns EXCEPT ![at] = Forward(0)]
      <3>2. /\ q \in Seq(Function) /\ Len(q) = Len(fns)
            /\ \A j \in 1 .. Len(fns) : q[j] = IF j = at THEN Forward(0) ELSE fns[j]
        <4> HIDE DEF at
        <4> QED BY <1>1, <2>2, ExceptSeq
      <3>3. p.fns = q /\ p.value = at
        BY <3>1
      <3> HIDE DEF q, p
      <3>4. Takes(p, at)
        BY <1>1, <2>2, <3>2, <3>3 DEF Takes
      <3> QED BY <2>2, <3>4 DEF p
    <2>4. CASE joined /\ fns[at].type = "dispatch"
      <3>1. p = AddInstance(at, d)
        BY <2>1, <2>4
      <3> HIDE DEF p, at
      <3>2. Joins(p, at, d)
        BY <2>2, <2>4, <3>1, AddInstanceIs
      <3> QED BY <2>2, <2>4, <3>2 DEF p, at
    <2>5. CASE joined /\ fns[at].type # "dispatch"
      <3>1. p = ToDispatch(at, d)
        BY <2>1, <2>5
      <3> HIDE DEF p, at
      <3>2. Turns(p, at, d)
        BY <2>2, <3>1, ToDispatchIs
      <3>3. fns[at].type \notin {"none", "dispatch"}
        BY <1>4, <2>5 DEF at
      <3> QED BY <2>2, <3>2, <3>3 DEF p, at
    <2> QED BY <2>3, <2>4, <2>5
  <1> QED BY <1>2, <1>3, <1>4

-----------------------------------------------------------------------------
(* The head of a definition *)

LEMMA NewDefinitionIs ==
  ASSUME NEW d \in NewDefinition
  PROVE  d \in Definition /\ d.name \in Name /\ d.num_args \in Nat /\ FnFlags(d) \in SUBSET Flag
  BY FnTableAssumption DEF NewDefinition, Definition, FnFlags, Flag

LEMMA DefsGrow ==
  ASSUME FnInv, NEW d \in Definition, Fits(Append(defs, d), uses)
  PROVE  LET ds == Append(defs, d) IN
         /\ ds \in Seq(Definition) /\ Len(ds) = Len(defs) + 1
         /\ \A i \in 1 .. Len(defs) : ds[i] = defs[i]
         /\ ds[Len(defs) + 1] = d
         /\ Len(ds) + Len(uses) <= MaxSize /\ Len(ds) < MaxSize
         /\ Len(fns) + 2 <= 2 * Len(ds) + Len(uses)
         /\ Len(fns) + 2 <= 2 * MaxSize
  <1> DEFINE ds == Append(defs, d)
  <1>1. /\ defs \in Seq(Definition) /\ uses \in Seq(Use) /\ Len(defs) \in Nat /\ Len(uses) \in Nat
        /\ Len(fns) \in Nat /\ MaxSize \in Nat /\ Len(fns) <= 2 * Len(defs) + Len(uses)
    BY Types DEF FnInv, TypeOK, Bounded
  <1>2. /\ ds \in Seq(Definition) /\ Len(ds) = Len(defs) + 1
        /\ \A i \in 1 .. Len(defs) : ds[i] = defs[i]
        /\ ds[Len(defs) + 1] = d
    BY <1>1, AppendIs
  <1> HIDE DEF ds
  <1>3. Len(ds) + Len(uses) <= MaxSize /\ (Len(ds) > 0 => Len(ds) < MaxSize)
    BY <1>1, <1>2, FitsBounds DEF ds
  <1> QED BY <1>1, <1>2, <1>3 DEF ds

(* A rejected source is left as it is. *)
LEMMA RejectedIs ==
  ASSUME FnInv, UNCHANGED <<tables, cur, exports>>,
         defs' \in Seq(Definition), uses' \in Seq(Use),
         Len(defs) <= Len(defs'), Len(uses) <= Len(uses'),
         Len(defs') + Len(uses') <= MaxSize, Len(defs') > 0 => Len(defs') < MaxSize,
         res' \in {"wrong_args", "unknown_function", "unknown_class", "fatal",
                   "unknown_module", "duplicate_class", "duplicate_module"}
  PROVE  FnInv'
  <1>1. TypeOK'
    BY DEF FnInv, TypeOK, tables
  <1>2. Bounded'
    <2>1. /\ Len(fns) \in Nat /\ Len(defs) \in Nat /\ Len(uses) \in Nat /\ MaxSize \in Nat
          /\ Len(defs') \in Nat /\ Len(uses') \in Nat /\ fns' = fns
      BY Types, LenProperties DEF FnInv, tables
    <2>2. Len(fns) <= 2 * Len(defs) + Len(uses)
      BY DEF FnInv, Bounded
    <2>3. Len(fns') <= 2 * Len(defs') + Len(uses')
      BY <2>1, <2>2
    <2>4. defs' # <<>> => Len(defs') > 0
      BY <2>1, EmptySeq
    <2> QED BY <2>1, <2>3, <2>4 DEF Bounded
  <1>3. ~Going' /\ ~Runs'
    BY DEF Going, Runs
  <1> QED BY <1>1, <1>2, <1>3 DEF FnInv

LEMMA FuncHeadKeeps ==
  ASSUME FnInv, NEW d \in NewDefinition, Global,
         NEW n, n = Len(fns), NEW at, at = fn_map[d.name], NEW p, p = Place(d),
         defs' = Append(defs, d), Fits(Append(defs, d), uses),
         d.num_args = ExpectedArgs(d),
         fns' = p.fns,
         fn_map' = IF at # 0 THEN fn_map ELSE [fn_map EXCEPT ![d.name] = p.value],
         cur' = [name |-> d.name, value |-> p.value, flags |-> FnFlags(d),
                 num_args |-> d.num_args, class |-> d.class, body |-> Len(defs) + 1,
                 no_fail |-> ExpectedNoFail(d)],
         UNCHANGED <<module_map, class_map, imported, exports, res, uses>>
  PROVE  FnInv'
  <1>1. /\ TypeOK /\ Bounded /\ Going /\ Slots /\ Maps /\ Uses /\ UnderWay
        /\ res = "parsing" /\ cur = MainProgram
    BY DEF FnInv, Going, Global
  <1>2. /\ d \in Definition /\ d.name \in Name /\ d.num_args \in Nat
        /\ FnFlags(d) \in SUBSET Flag /\ d.class \in Object
    BY NewDefinitionIs DEF Definition
  <1>3. /\ defs' \in Seq(Definition) /\ Len(defs') = Len(defs) + 1
        /\ \A i \in 1 .. Len(defs) : defs'[i] = defs[i]
        /\ defs'[Len(defs) + 1] = d
        /\ Len(defs') + Len(uses) <= MaxSize /\ Len(defs') < MaxSize
        /\ n + 2 <= 2 * Len(defs') + Len(uses)
        /\ n + 2 <= 2 * MaxSize
    BY <1>2, DefsGrow
  <1>4. /\ n \in Nat /\ Len(defs) \in Nat /\ Len(uses) \in Nat /\ MaxSize \in Nat
        /\ cur.value = 0 /\ cur.body = 0
        /\ at \in 0 .. n /\ fn_map \in [Name -> 0 .. n] /\ module_map \in [Name -> 0 .. n]
    BY <1>1, <1>2, Types, MainProgramIs DEF TypeOK
  <1>5. \/ at = 0 /\ Adds(p)
        \/ /\ at \in 1 .. n
           /\ \/ Takes(p, at)
              \/ fns[at].type = "dispatch" /\ Joins(p, at, d)
              \/ fns[at].type \notin {"none", "dispatch"} /\ Turns(p, at, d)
    BY <1>1, <1>2, <1>3, PlaceIs
  <1>6. /\ at # 0 => d.num_args = fns[at].num_args
        /\ cur'.no_fail = (at # 0 /\ "may_fail" \notin fns[at].flags)
        /\ fn_map' = IF at # 0 THEN fn_map ELSE [fn_map EXCEPT ![d.name] = p.value]
        /\ cur'.name = d.name /\ cur'.value = p.value /\ cur'.num_args = d.num_args
        /\ cur'.body = Len(defs) + 1
    BY DEF ExpectedArgs, ExpectedNoFail
  <1>7. at # 0 => fns[at].type # "importer"
    BY <1>1, <1>2 DEF Maps
  <1>8. /\ p.fns \in Seq(Function) /\ n <= Len(p.fns) /\ Len(p.fns) <= n + 2 /\ Len(p.fns) \in Nat
        /\ p.value \in 1 .. Len(p.fns) /\ p.fns[p.value].type = "none"
        /\ \A i \in 1 .. n : i # at => p.fns[i] = fns[i]
        /\ at # 0 => p.fns[at].type # "importer"
    <2>1. Forward(0).type = "none"
      BY ForwardIs
    <2>2. CASE at = 0 /\ Adds(p)
      BY ONLY <1>4, <2>1, <2>2, n = Len(fns) DEF Adds
    <2>3. CASE at \in 1 .. n /\ Takes(p, at)
      BY ONLY <1>4, <2>1, <2>3, n = Len(fns) DEF Takes
    <2>4. CASE at \in 1 .. n /\ Joins(p, at, d)
      BY ONLY <1>4, <2>1, <2>4, n = Len(fns) DEF Joins
    <2>5. CASE at \in 1 .. n /\ Turns(p, at, d)
      BY ONLY <1>4, <2>1, <2>5, n = Len(fns) DEF Turns
    <2> QED BY <1>5, <2>2, <2>3, <2>4, <2>5
  <1>9. fns' = p.fns /\ Len(fns') = Len(p.fns)
    OBVIOUS
  <1>10. TypeOK'
    <2>1. fns' \in Seq(Function)
      BY <1>8, <1>9
    <2>2. fn_map' \in [Name -> 0 .. Len(fns')] /\ module_map' \in [Name -> 0 .. Len(fns')]
      <3>1. fn_map \in [Name -> 0 .. Len(fns')] /\ module_map \in [Name -> 0 .. Len(fns')]
        BY <1>4, <1>8, <1>9
      <3> QED BY <1>2, <1>6, <1>8, <1>9, <3>1
    <2>3. cur' \in Parsing
      <3>1. p.value \in Index /\ Len(defs) + 1 \in Body /\ ExpectedNoFail(d) \in BOOLEAN
        <4>1. ExpectedNoFail(d) \in BOOLEAN
          BY DEF ExpectedNoFail
        <4>2. p.value \in 1 .. Len(p.fns) /\ Len(p.fns) <= n + 2 /\ Len(p.fns) \in Nat
          BY <1>8
        <4>3. p.value \in Index
          BY ONLY <1>3, <1>4, <4>2 DEF Index
        <4>4. Len(defs) + 1 \in Body
          BY ONLY <1>3, <1>4 DEF Body
        <4> QED BY <4>1, <4>3, <4>4
      <3> QED BY <1>2, <3>1 DEF Parsing
    <2> QED BY <1>1, <1>3, <2>1, <2>2, <2>3 DEF TypeOK
  <1>11. Bounded'
    <2>1. Len(fns') <= 2 * Len(defs') + Len(uses')
      BY <1>3, <1>4, <1>8, <1>9
    <2> QED BY <1>3, <2>1 DEF Bounded
  <1>12. \A m \in Name : fn_map'[m] = IF at = 0 /\ m = d.name THEN p.value ELSE fn_map[m]
    BY <1>2, <1>4, <1>6
  <1>13. at = 0 => p.value = n + 1
    BY <1>4, <1>5 DEF Adds
  <1>14. \A m \in Name : fn_map'[m] = p.value => m = d.name
    <2>1. SUFFICES ASSUME NEW m \in Name, fn_map'[m] = p.value, m # d.name PROVE FALSE
      OBVIOUS
    <2>2. fn_map[m] = p.value /\ fn_map[m] \in 0 .. n
      BY <1>4, <1>12, <2>1
    <2>3. at # 0 /\ p.value <= n
      BY <1>4, <1>13, <2>2
    <2>4. p.value = at
      <3>1. CASE Joins(p, at, d)
        BY ONLY <1>4, <2>3, <3>1, n = Len(fns) DEF Joins
      <3>2. CASE Turns(p, at, d)
        BY ONLY <1>4, <2>3, <3>2, n = Len(fns) DEF Turns
      <3>3. CASE Takes(p, at)
        BY <3>3 DEF Takes
      <3> QED BY <1>5, <2>3, <3>1, <3>2, <3>3
    <2>5. fn_map[d.name] = fn_map[m] /\ fn_map[m] # 0
      BY <2>2, <2>3, <2>4
    <2> QED BY <1>1, <1>2, <2>1, <2>5 DEF Maps
  <1>15. UnderWay'
    <2>1. cur'.value \in 1 .. Len(fns') /\ fns'[cur'.value].type = "none"
      BY <1>6, <1>8, <1>9
    <2>2. cur'.body = Len(defs') /\ cur'.body > 0 /\ defs'[cur'.body].num_args = cur'.num_args
      BY <1>3, <1>4, <1>6
    <2> QED BY <1>2, <1>6, <1>14, <2>1, <2>2 DEF UnderWay
  <1>16. \A i \in 1 .. n : Args(i) = fns[i].num_args
                           /\ (Trusted(i) = ("may_fail" \notin fns[i].flags))
    BY <1>4 DEF Args, Trusted
  <1>17. \A i \in 1 .. Len(fns') :
           /\ Args(i)' = IF i = p.value THEN d.num_args ELSE p.fns[i].num_args
           /\ Trusted(i)' = IF i = p.value THEN at # 0 /\ "may_fail" \notin fns[at].flags
                            ELSE "may_fail" \notin p.fns[i].flags
    BY <1>6, <1>9 DEF Args, Trusted
  <1>18. at # 0 => \/ p.value = at
                   \/ /\ p.value > n /\ p.fns[at].num_args = fns[at].num_args
                      /\ ("may_fail" \in p.fns[at].flags) = ("may_fail" \in fns[at].flags)
    <2>1. CASE Joins(p, at, d)
      BY ONLY <1>4, <2>1, n = Len(fns) DEF Joins
    <2>2. CASE Turns(p, at, d)
      <3>1. p.value > n /\ p.fns[at].num_args = fns[at].num_args
        BY ONLY <1>4, <2>2, n = Len(fns) DEF Turns
      <3>2. p.fns[at].flags = fns[at].flags \cup {"has_class"}
        BY ONLY <2>2 DEF Turns
      <3> QED BY ONLY <3>1, <3>2
    <2>3. CASE Takes(p, at)
      BY <2>3 DEF Takes
    <2> QED BY <1>5, <2>1, <2>2, <2>3
  <1>19. Keeps
    <2>1. \A i \in 1 .. n : i \in 1 .. Len(fns')
      BY <1>4, <1>8, <1>9
    <2>2. ASSUME NEW i \in 1 .. n
          PROVE  /\ Args(i)' = Args(i)
                 /\ Trusted(i) => Trusted(i)'
                 /\ (fns[i].type = "importer") = (fns'[i].type = "importer")
      <3>1. CASE i = at
        <4>1. at # 0 /\ i \in 1 .. Len(fns')
          BY <1>4, <2>1, <3>1
        <4>2. /\ Args(i) = fns[at].num_args /\ (Trusted(i) = ("may_fail" \notin fns[at].flags))
              /\ d.num_args = fns[at].num_args
          BY <1>6, <1>16, <3>1, <4>1
        <4>3. CASE p.value = at
          BY ONLY <1>17, <3>1, <4>1, <4>2, <4>3, <1>7, <1>8, <1>9
        <4>4. CASE /\ p.value > n /\ p.fns[at].num_args = fns[at].num_args
                   /\ ("may_fail" \in p.fns[at].flags) = ("may_fail" \in fns[at].flags)
          <5>1. i # p.value
            BY <1>4, <4>4
          <5> QED BY ONLY <1>17, <3>1, <4>1, <4>2, <4>4, <5>1, <1>7, <1>8, <1>9
        <4> QED BY <1>18, <4>1, <4>3, <4>4
      <3>2. CASE i # at
        <4>1. i # p.value
          <5>1. at = 0 => p.value > n
            BY <1>4, <1>13
          <5> QED BY <1>4, <1>18, <2>2, <3>2, <5>1
        <4> QED BY <1>8, <1>9, <1>16, <1>17, <2>1, <2>2, <3>2, <4>1
      <3> QED BY <3>1, <3>2
    <2>3. n <= Len(fns') /\ Len(defs) <= Len(defs')
      BY <1>3, <1>4, <1>8, <1>9
    <2> QED BY <2>2, <2>3 DEF Keeps
  <1>20. \A b \in 1 .. Len(defs) : b # cur.body => b # cur'.body /\ defs'[b] = defs[b]
    BY <1>3, <1>4, <1>6
  <1>21. Slots'
    <2>1. SUFFICES ASSUME NEW i \in 1 .. Len(fns') PROVE SlotOK(i)'
      BY DEF Slots
    <2>2. CASE i \in 1 .. n /\ i # at
      <3>1. SlotOK(i) /\ fns'[i] = fns[i]
        BY <1>1, <1>8, <1>9, <2>2 DEF Slots
      <3>2. i \in 1 .. Len(fns)
        BY <2>2
      <3> QED BY <1>1, <1>10, <1>15, <1>19, <1>20, <3>1, <3>2, SlotKept
    <2>3. CASE i = p.value
      BY <1>8, <1>9, <2>3 DEF SlotOK
    <2>4. ASSUME at \in 1 .. n, i = at, Joins(p, at, d), fns[at].type = "dispatch"
          PROVE  SlotOK(i)'
      <3>1. SlotOK(at)
        BY <1>1, <2>4 DEF Slots
      <3>2. Targets(i)' = Targets(at) \cup {p.value}
        <4>1. Targets(i)' = {p.fns[at].inst[k].fn : k \in DOMAIN p.fns[at].inst}
                               \cup ({p.fns[at].fallback} \ {0})
          BY ONLY <1>9, <2>4 DEF Targets
        <4>2. Targets(at) = {fns[at].inst[k].fn : k \in DOMAIN fns[at].inst}
                               \cup ({fns[at].fallback} \ {0})
          BY DEF Targets
        <4>3. /\ {p.fns[at].inst[k].fn : k \in DOMAIN p.fns[at].inst}
                   = {fns[at].inst[k].fn : k \in DOMAIN fns[at].inst} \cup {p.value}
              /\ p.fns[at].fallback = fns[at].fallback
          BY <2>4 DEF Joins
        <4> QED BY <4>1, <4>2, <4>3
      <3>3. ASSUME NEW j \in Targets(at)
            PROVE  /\ j \in 1 .. Len(fns') /\ fns'[j].type # "importer"
                   /\ Args(j)' = fns[at].num_args
                   /\ "may_fail" \notin fns[at].flags => Trusted(j)'
        <4>1. /\ j \in 1 .. n /\ fns[j].type # "importer"
              /\ Args(j) = fns[at].num_args /\ (Trusted(at) => Trusted(j))
          BY <2>4, <3>1, <3>3 DEF SlotOK
        <4>2. Trusted(at) = ("may_fail" \notin fns[at].flags)
          BY ONLY <1>16, <2>4
        <4>3. Args(j)' = Args(j) /\ (Trusted(j) => Trusted(j)') /\ fns'[j].type # "importer"
          BY ONLY <1>19, <4>1, n = Len(fns) DEF Keeps
        <4>4. j \in 1 .. Len(fns')
          BY ONLY <1>4, <1>8, <1>9, <4>1
        <4> QED BY ONLY <4>1, <4>2, <4>3, <4>4
      <3>4. /\ p.value \in 1 .. Len(fns') /\ fns'[p.value].type # "importer"
            /\ Args(p.value)' = fns[at].num_args
            /\ "may_fail" \notin fns[at].flags => Trusted(p.value)'
        <4>1. at # 0 /\ p.value \in 1 .. Len(fns') /\ fns'[p.value].type # "importer"
          BY ONLY <1>4, <1>8, <1>9, <2>4
        <4>2. d.num_args = fns[at].num_args
          BY <1>6, <4>1
        <4> QED BY ONLY <1>17, <4>1, <4>2
      <3>5. fns'[at].num_args = fns[at].num_args /\ fns'[at].type = "dispatch" /\ fns'[at].body = 0
        BY <1>9, <2>4, <3>1 DEF Joins, SlotOK
      <3>6. Trusted(i)' => "may_fail" \notin fns[at].flags
        <4>1. p.fns[at].flags = fns[at].flags /\ at # p.value
          BY ONLY <1>4, <2>4, n = Len(fns) DEF Joins
        <4>2. Trusted(i)' = ("may_fail" \notin p.fns[at].flags)
          BY ONLY <1>17, <2>1, <2>4, <4>1
        <4> QED BY ONLY <4>1, <4>2
      <3> QED BY <2>4, <3>2, <3>3, <3>4, <3>5, <3>6 DEF SlotOK
    <2>5. ASSUME at \in 1 .. n, Turns(p, at, d), fns[at].type \notin {"none", "dispatch"}
          PROVE  i \in {at, n + 1} => SlotOK(i)'
      <3>1. SlotOK(at) /\ fns[at].type = "bc" /\ fns[at] \in Function
        BY <1>1, <1>7, <2>5, Types DEF Slots, Function
      <3>2. p.value = n + 2 /\ Len(fns') = n + 2 /\ n + 1 \in 1 .. Len(fns')
            /\ p.fns[n + 1] = fns[at] /\ at # n + 2 /\ n + 1 # n + 2
        BY ONLY <1>4, <1>9, <2>5, n = Len(fns) DEF Turns
      <3>3. CASE i = n + 1
        <4>1. /\ fns[at].body \in 1 .. Len(defs)
              /\ defs[fns[at].body].num_args = fns[at].num_args
              /\ defs[fns[at].body].may_fail = ("may_fail" \in fns[at].flags)
          BY <3>1 DEF SlotOK
        <4>2. fns[at].body \in 1 .. Len(defs') /\ fns[at].body # cur'.body
              /\ defs'[fns[at].body] = defs[fns[at].body]
          BY ONLY <1>3, <1>4, <1>6, <4>1
        <4>3. fns'[i] = fns[at]
          BY <1>9, <3>2, <3>3
        <4> QED BY <3>1, <4>1, <4>2, <4>3 DEF SlotOK
      <3>4. CASE i = at
        <4>1. Targets(i)' = {n + 1, n + 2}
          <5>1. {p.fns[at].inst[k].fn : k \in DOMAIN p.fns[at].inst}
                  \cup ({p.fns[at].fallback} \ {0}) = {n + 1, n + 2}
            BY ONLY <2>5, <3>2, n = Len(fns) DEF Turns
          <5>2. Targets(i)' = {p.fns[at].inst[k].fn : k \in DOMAIN p.fns[at].inst}
                               \cup ({p.fns[at].fallback} \ {0})
            BY ONLY <1>9, <3>4 DEF Targets
          <5> QED BY <5>1, <5>2
        <4>2. /\ fns'[i].type = "dispatch" /\ fns'[i].num_args = fns[at].num_args
              /\ fns'[i].body = 0
              /\ Trusted(i)' => "may_fail" \notin fns[at].flags
          BY <1>9, <1>17, <2>1, <2>5, <3>2, <3>4 DEF Turns
        <4>3. /\ Args(n + 1)' = fns[at].num_args /\ Args(n + 2)' = fns[at].num_args
              /\ "may_fail" \notin fns[at].flags => Trusted(n + 1)' /\ Trusted(n + 2)'
              /\ fns'[n + 1].type # "importer" /\ fns'[n + 2].type # "importer"
              /\ n + 2 \in 1 .. Len(fns')
          <5>1. /\ at # 0 /\ n + 1 \in 1 .. Len(fns') /\ n + 2 \in 1 .. Len(fns')
                /\ n + 1 # p.value /\ n + 2 = p.value
            BY ONLY <1>4, <2>5, <3>2
          <5>2. d.num_args = fns[at].num_args
            BY <1>6, <5>1
          <5> QED BY ONLY <1>8, <1>9, <1>17, <3>1, <3>2, <5>1, <5>2
        <4> QED BY <3>2, <4>1, <4>2, <4>3 DEF SlotOK
      <3> QED BY <3>3, <3>4
    <2>6. i \in 1 .. n \/ i = p.value \/ (Turns(p, at, d) /\ i = n + 1)
      <3>1. i \in 1 .. Len(p.fns) /\ n \in Nat
        BY ONLY <1>4, <1>9, <2>1
      <3>2. CASE Adds(p)
        BY ONLY <3>1, <3>2, n = Len(fns) DEF Adds
      <3>3. CASE Takes(p, at)
        BY ONLY <3>1, <3>3, n = Len(fns) DEF Takes
      <3>4. CASE Joins(p, at, d)
        BY ONLY <3>1, <3>4, n = Len(fns) DEF Joins
      <3>5. CASE Turns(p, at, d)
        <4>1. Len(p.fns) = n + 2 /\ p.value = n + 2
          BY ONLY <3>5, n = Len(fns) DEF Turns
        <4> QED BY ONLY <3>1, <3>5, <4>1
      <3> QED BY <1>5, <3>2, <3>3, <3>4, <3>5
    <2>7. at \in 1 .. n /\ Takes(p, at) => p.value = at
      BY DEF Takes
    <2>9. Turns(p, at, d) /\ i = n + 1 => at \in 1 .. n
      BY ONLY <1>5, <1>4, <1>13, <1>9, <2>1, n = Len(fns) DEF Turns, Adds
    <2>10. CASE i = p.value
      BY <2>3, <2>10
    <2>11. CASE i \in 1 .. n /\ i # at
      BY <2>2, <2>11
    <2>12. CASE i \in 1 .. n /\ i = at /\ i # p.value
      <3>1. at \in 1 .. n /\ ~Takes(p, at)
        BY <2>7, <2>12
      <3>2. CASE Joins(p, at, d) /\ fns[at].type = "dispatch"
        BY <2>4, <2>12, <3>1, <3>2
      <3>3. CASE Turns(p, at, d) /\ fns[at].type \notin {"none", "dispatch"}
        BY <2>5, <2>12, <3>1, <3>3
      <3> QED BY ONLY <1>4, <1>5, <3>1, <3>2, <3>3
    <2>13. CASE Turns(p, at, d) /\ i = n + 1
      <3>1. at \in 1 .. n
        BY <2>9, <2>13
      <3>2. fns[at].type \notin {"none", "dispatch"}
        <4>1. Len(p.fns) = n + 2 /\ n \in Nat
          BY ONLY <2>13, <1>4, n = Len(fns) DEF Turns
        <4>2. ~Takes(p, at) /\ ~Joins(p, at, d)
          BY ONLY <4>1, n = Len(fns) DEF Takes, Joins
        <4> QED BY ONLY <1>4, <1>5, <3>1, <4>2
      <3> QED BY <2>5, <2>13, <3>1, <3>2
    <2> QED BY <2>6, <2>10, <2>11, <2>12, <2>13
  <1>22. Maps'
    <2>1. \A m, q \in Name : fn_map'[m] # 0 /\ fn_map'[m] = fn_map'[q] => m = q
      <3>1. SUFFICES ASSUME NEW m \in Name, NEW q \in Name,
                            fn_map'[m] # 0, fn_map'[m] = fn_map'[q]
                     PROVE  m = q
        OBVIOUS
      <3>2. CASE fn_map'[m] = p.value
        BY <1>14, <3>1, <3>2
      <3>3. CASE fn_map'[m] # p.value
        <4>1. fn_map[m] = fn_map'[m] /\ fn_map[q] = fn_map'[q]
          BY <1>12, <3>1, <3>3
        <4> QED BY <1>1, <3>1, <4>1 DEF Maps
      <3> QED BY <3>2, <3>3
    <2>2. \A m \in Name : fn_map'[m] # 0 => fns'[fn_map'[m]].type # "importer"
      <3>1. SUFFICES ASSUME NEW m \in Name, fn_map'[m] # 0
                     PROVE  fns'[fn_map'[m]].type # "importer"
        OBVIOUS
      <3>2. CASE fn_map'[m] = p.value
        BY <1>8, <1>9, <3>2
      <3>3. CASE fn_map'[m] # p.value
        <4>1. fn_map[m] = fn_map'[m]
          BY <1>12, <3>1, <3>3
        <4>2. fn_map[m] \in 1 .. Len(fns) /\ fns[fn_map[m]].type # "importer"
          BY <1>1, <1>4, <3>1, <4>1 DEF Maps
        <4> QED BY <1>19, <4>1, <4>2 DEF Keeps
      <3> QED BY <3>2, <3>3
    <2>3. \A m \in Name : module_map'[m] # 0 => fns'[module_map'[m]].type = "importer"
      <3>1. SUFFICES ASSUME NEW m \in Name, module_map[m] # 0
                     PROVE  fns'[module_map[m]].type = "importer"
        OBVIOUS
      <3>2. module_map[m] \in 1 .. Len(fns) /\ fns[module_map[m]].type = "importer"
        BY <1>1, <1>4, <3>1 DEF Maps
      <3> QED BY <1>19, <3>2 DEF Keeps
    <2> QED BY <2>1, <2>2, <2>3 DEF Maps
  <1>23. Uses'
    <2>1. SUFFICES ASSUME NEW k \in 1 .. Len(uses) PROVE UseOK(uses[k])'
      BY DEF Uses
    <2>2. uses[k] \in Use /\ UseOK(uses[k])
      BY <1>1, Types DEF Uses
    <2>3. uses[k].self => uses[k].by # cur.body /\ uses[k].by # cur'.body
      BY <1>4, <1>6, <2>2 DEF UseOK
    <2> DEFINE u == uses[k]
    <2> HIDE DEF u
    <2>4. UseOK(u)'
      BY <1>1, <1>10, <1>19, <2>2, <2>3, UseKept DEF u
    <2> QED BY <2>4 DEF u
  <1>24. Complete' /\ ~Runs'
    BY <1>1 DEF Complete, Runs
  <1> QED BY <1>10, <1>11, <1>15, <1>21, <1>22, <1>23, <1>24 DEF FnInv

LEMMA FuncHeadStep ==
  ASSUME FnInv, NEW d \in NewDefinition, FuncHead(d)
  PROVE  FnInv'
  <1>1. /\ Global /\ defs' = Append(defs, d) /\ Fits(Append(defs, d), uses) /\ uses' = uses
        /\ d \in Definition
    BY NewDefinitionIs DEF FuncHead
  <1>2. /\ defs' \in Seq(Definition) /\ Len(defs') = Len(defs) + 1
        /\ Len(defs') + Len(uses) <= MaxSize /\ Len(defs') < MaxSize
        /\ Len(defs) \in Nat /\ Len(uses) \in Nat /\ uses \in Seq(Use)
    BY <1>1, DefsGrow, Types DEF FnInv, TypeOK
  <1>3. ASSUME NEW why \in {"wrong_args", "unknown_class", "unknown_module"}, Reject(why)
        PROVE  FnInv'
    BY <1>1, <1>2, <1>3, RejectedIs DEF Reject
  <1>4. CASE Unknown(d) # "none"
    <2>1. Unknown(d) \in {"none", "unknown_class", "unknown_module"}
      BY DEF Unknown
    <2>2. Reject(Unknown(d))
      BY <1>4 DEF FuncHead
    <2> QED BY <1>3, <1>4, <2>1, <2>2
  <1>5. CASE Unknown(d) = "none" /\ d.num_args # ExpectedArgs(d)
    <2>1. Reject("wrong_args")
      BY <1>5 DEF FuncHead
    <2> QED BY <1>3, <2>1
  <1>6. CASE Unknown(d) = "none" /\ d.num_args = ExpectedArgs(d)
    <2> DEFINE at == fn_map[d.name]
               p == Place(d)
    <2>1. /\ fns' = p.fns
          /\ fn_map' = IF at # 0 THEN fn_map ELSE [fn_map EXCEPT ![d.name] = p.value]
          /\ cur' = [name |-> d.name, value |-> p.value, flags |-> FnFlags(d),
                     num_args |-> d.num_args, class |-> d.class, body |-> Len(defs) + 1,
                     no_fail |-> ExpectedNoFail(d)]
          /\ UNCHANGED <<module_map, class_map, imported, exports, res, uses>>
      BY <1>1, <1>6 DEF FuncHead
    <2>2. \A n : \A a : \A q : n = Len(fns) /\ a = at /\ q = p => FnInv'
      <3>1. SUFFICES ASSUME NEW n, NEW a, NEW q, n = Len(fns), a = at, q = p PROVE FnInv'
        OBVIOUS
      <3>2. /\ fns' = q.fns
            /\ fn_map' = IF a # 0 THEN fn_map ELSE [fn_map EXCEPT ![d.name] = q.value]
            /\ cur' = [name |-> d.name, value |-> q.value, flags |-> FnFlags(d),
                       num_args |-> d.num_args, class |-> d.class, body |-> Len(defs) + 1,
                       no_fail |-> ExpectedNoFail(d)]
        BY <2>1, <3>1
      <3> QED BY <1>1, <1>6, <2>1, <3>1, <3>2, FuncHeadKeeps
    <2> QED BY <2>2
  <1> QED BY <1>4, <1>5, <1>6

-----------------------------------------------------------------------------
(* What leaves the functions as they are *)

(* A step that keeps the table, the function under way but for its flags,  *)
(* and what has been read.                                                 *)
LEMMA TableStays ==
  ASSUME FnInv, Going, TypeOK', SameFunction,
         UNCHANGED <<fns, fn_map, module_map, defs, uses>>,
         Complete', Runs' => Linked(exports')
  PROVE  FnInv'
  <1>1. TypeOK /\ Bounded /\ UnderWay /\ Slots /\ Maps /\ Uses
    BY DEF FnInv
  <1>2. Bounded'
    BY <1>1 DEF Bounded
  <1>3. UnderWay'
    BY <1>1 DEF UnderWay, SameFunction
  <1>4. Maps'
    BY <1>1 DEF Maps
  <1>5. Keeps
    BY <1>1, Types DEF Keeps, Args, Trusted, SameFunction
  <1>6. Slots'
    <2>1. SUFFICES ASSUME NEW i \in 1 .. Len(fns) PROVE SlotOK(i)'
      BY DEF Slots
    <2>2. SlotOK(i) /\ fns'[i] = fns[i]
      BY <1>1 DEF Slots
    <2>3. \A b \in 1 .. Len(defs) : b # cur.body => b # cur'.body /\ defs'[b] = defs[b]
      BY DEF SameFunction
    <2> QED BY <1>1, <1>3, <1>5, <2>2, <2>3, SlotKept
  <1>7. Uses'
    <2>1. SUFFICES ASSUME NEW k \in 1 .. Len(uses) PROVE UseOK(uses[k])'
      BY DEF Uses
    <2>2. PICK u : u = uses[k]
      OBVIOUS
    <2>3. u \in Use /\ UseOK(u)
      BY <1>1, <2>2, Types DEF Uses
    <2>4. UseOK(u)'
      BY <1>1, <1>5, <2>3, UseKept DEF SameFunction
    <2> QED BY <2>2, <2>4
  <1>8. Linked(exports)' = Linked(exports')
    BY DEF Linked
  <1> QED BY <1>2, <1>3, <1>4, <1>6, <1>7, <1>8 DEF FnInv

LEMMA SameCur ==
  ASSUME cur' = cur
  PROVE  SameFunction
  BY DEF SameFunction

LEMMA PreambleStep ==
  ASSUME FnInv, (\E c \in OwnClass : Struct(c)) \/ Import
  PROVE  FnInv'
  <1>1. /\ TypeOK /\ Bounded /\ res = "parsing" /\ Going /\ UNCHANGED <<defs, uses>>
        /\ defs \in Seq(Definition) /\ uses \in Seq(Use)
        /\ Len(defs) \in Nat /\ Len(uses) \in Nat
    BY Types DEF FnInv, Struct, Import, Preamble, Global, Going, TypeOK
  <1>2. ASSUME NEW why \in {"duplicate_class", "duplicate_module"}, Reject(why)
        PROVE  FnInv'
    <2>1. Len(defs) > 0 => Len(defs) < MaxSize
      BY <1>1, EmptySeq DEF Bounded
    <2> QED BY <1>1, <1>2, <2>1, RejectedIs DEF Reject, Bounded
  <1>3. ASSUME UNCHANGED <<fns, fn_map, module_map, cur, exports, res>>,
               class_map' \subseteq OwnClass, imported' \in BOOLEAN
        PROVE  FnInv'
    <2>1. TypeOK'
      BY <1>1, <1>3 DEF TypeOK
    <2>2. Complete' /\ ~Runs'
      BY <1>1, <1>3 DEF Complete, Runs
    <2> QED BY <1>1, <1>3, <2>1, <2>2, SameCur, TableStays
  <1>4. CASE \E c \in OwnClass : Struct(c)
    <2>1. PICK c \in OwnClass : Struct(c)
      BY <1>4
    <2>2. CASE c \in class_map
      BY <1>2, <2>1, <2>2 DEF Struct
    <2>3. CASE c \notin class_map
      BY <1>1, <1>3, <2>1, <2>3 DEF Struct, TypeOK
    <2> QED BY <2>2, <2>3
  <1>5. CASE Import
    <2>1. CASE imported
      BY <1>2, <1>5, <2>1 DEF Import
    <2>2. CASE ~imported
      BY <1>1, <1>3, <1>5, <2>2 DEF Import, TypeOK
    <2> QED BY <2>1, <2>2
  <1> QED BY <1>4, <1>5

LEMMA RaiseStep ==
  ASSUME FnInv, RaiseStatement
  PROVE  FnInv'
  <1>1. /\ TypeOK /\ UnderWay /\ res = "parsing" /\ Going /\ cur # MainProgram
        /\ cur' = [cur EXCEPT !.flags = @ \cup {"may_fail"}]
        /\ UNCHANGED <<tables, defs, uses, exports, res>>
    BY DEF FnInv, RaiseStatement, Going
  <1>2. cur \in Parsing
    BY <1>1 DEF TypeOK
  <1>3. /\ cur' \in Parsing
        /\ cur'.name = cur.name /\ cur'.value = cur.value /\ cur'.body = cur.body
        /\ cur'.num_args = cur.num_args /\ cur'.no_fail = cur.no_fail
    BY <1>1, <1>2 DEF Parsing, Flag
  <1>4. SameFunction
    <2>1. cur' # MainProgram
      BY <1>1, <1>3, Types DEF UnderWay, MainProgram
    <2> QED BY <1>1, <1>3, <2>1 DEF SameFunction
  <1>5. TypeOK'
    BY <1>1, <1>3 DEF TypeOK, tables
  <1>6. Complete' /\ ~Runs'
    BY <1>1 DEF Complete, Runs
  <1> QED BY <1>1, <1>4, <1>5, <1>6, TableStays DEF tables

LEMMA EndOfFileStep ==
  ASSUME FnInv, EndOfFile
  PROVE  FnInv'
  <1>1. /\ TypeOK /\ Bounded /\ res = "parsing" /\ Going /\ cur = MainProgram
        /\ UNCHANGED <<tables, cur, defs, uses, exports>>
        /\ DOMAIN fns = 1 .. Len(fns)
    BY Types DEF FnInv, EndOfFile, Global, Going
  <1>2. CASE \E i \in DOMAIN fns : fns[i].type = "none"
    <2>1. res' = "unknown_function"
      BY <1>2 DEF EndOfFile
    <2>2. /\ defs' \in Seq(Definition) /\ uses' \in Seq(Use) /\ Len(defs) \in Nat
          /\ Len(uses) \in Nat
      BY <1>1, Types DEF TypeOK
    <2>3. Len(defs) > 0 => Len(defs) < MaxSize
      BY <1>1, <2>2, EmptySeq DEF Bounded
    <2> QED BY <1>1, <2>1, <2>2, <2>3, RejectedIs DEF Bounded
  <1>3. CASE \A i \in DOMAIN fns : fns[i].type # "none"
    <2>1. res' \in {"parsed", "linked"} /\ (res' = "linked" => ~AsksModule)
      BY <1>3 DEF EndOfFile
    <2>2. TypeOK'
      BY <1>1, <2>1 DEF TypeOK, tables
    <2>3. Complete'
      BY <1>1, <1>3 DEF Complete, tables
    <2>4. Runs' => Linked(exports')
      BY <2>1 DEF Runs, AsksModule, Linked
    <2> QED BY <1>1, <2>2, <2>3, <2>4, SameCur, TableStays DEF tables
  <1> QED BY <1>2, <1>3

LEMMA LinkStep ==
  ASSUME FnInv, NEW e \in [Name -> Export], Link(e)
  PROVE  FnInv'
  <1>1. /\ TypeOK /\ Bounded /\ res = "parsed" /\ Going /\ Complete /\ exports' = e
        /\ UNCHANGED <<tables, cur, defs, uses>>
    BY DEF FnInv, Link, Going
  <1>2. CASE Linked(e)
    <2>1. res' = "linked"
      BY <1>2 DEF Link
    <2>2. TypeOK'
      BY <1>1, <2>1 DEF TypeOK, tables
    <2>3. Complete'
      BY <1>1 DEF Complete, tables
    <2> QED BY <1>1, <1>2, <2>2, <2>3, SameCur, TableStays DEF tables
  <1>3. CASE ~Linked(e)
    <2>1. res' = "fatal"
      BY <1>3 DEF Link
    <2>2. TypeOK'
      BY <1>1, <2>1 DEF TypeOK, tables
    <2>3. Bounded'
      BY <1>1 DEF Bounded, tables
    <2>4. ~Going' /\ ~Runs'
      BY <2>1 DEF Going, Runs
    <2> QED BY <2>2, <2>3, <2>4 DEF FnInv
  <1> QED BY <1>2, <1>3

-----------------------------------------------------------------------------
(* The end of a function *)

LEMMA FuncEndKeeps ==
  ASSUME FnInv, FuncEnd, ~(cur.no_fail /\ "may_fail" \in cur.flags)
  PROVE  FnInv'
  <1>a. \E v, b, f : /\ v = cur.value /\ b = cur.body
                     /\ f = [type |-> "bc", flags |-> cur.flags, num_args |-> cur.num_args,
                             class |-> cur.class, body |-> cur.body, inst |-> <<>>,
                             fallback |-> 0]
    OBVIOUS
  <1>b. PICK v, b, f : /\ v = cur.value /\ b = cur.body
                       /\ f = [type |-> "bc", flags |-> cur.flags,
                               num_args |-> cur.num_args, class |-> cur.class,
                               body |-> cur.body, inst |-> <<>>, fallback |-> 0]
    BY <1>a
  <1>c. /\ res = "parsing" /\ cur # MainProgram
        /\ fns' = [fns EXCEPT ![v] = f]
        /\ uses' = [k \in DOMAIN uses |->
                      IF uses[k].self /\ uses[k].kind # "value" /\ uses[k].by = b
                      THEN [uses[k] EXCEPT !.fn = v] ELSE uses[k]]
        /\ defs' = [defs EXCEPT ![b].may_fail = ("may_fail" \in cur.flags)]
        /\ cur' = MainProgram
        /\ UNCHANGED <<fn_map, module_map, class_map, imported, exports, res>>
    BY <1>b DEF FuncEnd
  <1>d. /\ ~(cur.no_fail /\ "may_fail" \in f.flags)
        /\ defs' = [defs EXCEPT ![b].may_fail = ("may_fail" \in f.flags)]
    BY <1>b, <1>c
  <1> USE <1>b, <1>c, <1>d
  <1>1. TypeOK /\ Bounded /\ UnderWay /\ Slots /\ Maps /\ Uses /\ Going
    BY DEF FnInv, Going
  <1>2. /\ cur.name \in Name /\ v \in 1 .. Len(fns) /\ fns[v].type = "none"
        /\ b = Len(defs) /\ b \in 1 .. Len(defs) /\ defs[b].num_args = cur.num_args
    BY <1>1, Types DEF UnderWay
  <1>3. /\ Len(fns) \in Nat /\ Len(defs) \in Nat /\ Len(uses) \in Nat
        /\ fns \in Seq(Function) /\ defs \in Seq(Definition) /\ uses \in Seq(Use)
        /\ cur \in Parsing /\ defs[b] \in Definition
        /\ DOMAIN uses = 1 .. Len(uses)
        /\ \A k \in 1 .. Len(uses) : uses[k] \in Use
    BY <1>1, <1>2, Types DEF TypeOK
  <1>4. /\ f \in Function /\ f.type = "bc" /\ f.num_args = cur.num_args /\ f.body = b
    <2>1. /\ cur.flags \in SUBSET Flag /\ cur.num_args \in Nat /\ cur.class \in Object
          /\ cur.body \in Body /\ 0 \in Index
      BY <1>3, FnTableAssumption DEF Parsing, Index
    <2>2. <<>> \in Seq(Instance)
      BY EmptySeq
    <2>3. f \in Function
      BY <2>1, <2>2 DEF Function
    <2> QED BY <2>3
  <1>5. cur'.value = 0 /\ cur'.body = 0 /\ cur'.name = NoClass
    BY DEF MainProgram
  <1>6. /\ fns' \in Seq(Function) /\ Len(fns') = Len(fns)
        /\ \A i \in 1 .. Len(fns) : fns'[i] = IF i = v THEN f ELSE fns[i]
    BY ONLY <1>2, <1>3, <1>4, ExceptSeq, fns' = [fns EXCEPT ![v] = f]
  <1> DEFINE fails == "may_fail" \in f.flags
             done == [defs[b] EXCEPT !.may_fail = fails]
  <1>7. /\ defs' \in Seq(Definition) /\ Len(defs') = Len(defs)
        /\ \A i \in 1 .. Len(defs) : i # b => defs'[i] = defs[i]
        /\ defs'[b].num_args = cur.num_args /\ defs'[b].may_fail = fails
    <2>1. /\ done \in Definition /\ done.num_args = cur.num_args /\ done.may_fail = fails
      <3>1. fails \in BOOLEAN
        OBVIOUS
      <3> HIDE DEF fails
      <3> QED BY ONLY <1>2, <1>3, <3>1 DEF Definition, done
    <2>2. defs' = [defs EXCEPT ![b] = done]
      OBVIOUS
    <2> HIDE DEF done
    <2> QED BY ONLY <1>2, <1>3, <2>1, <2>2, ExceptSeq
  <1>8. /\ uses' \in Seq(Use) /\ Len(uses') = Len(uses)
        /\ \A k \in 1 .. Len(uses) :
             uses'[k] = IF uses[k].self /\ uses[k].kind # "value" /\ uses[k].by = b
                        THEN [uses[k] EXCEPT !.fn = v] ELSE uses[k]
    <2>1. v \in Index
      BY <1>3 DEF Parsing
    <2>2. \A u \in Use : [u EXCEPT !.fn = v] \in Use
      BY <2>1 DEF Use
    <2>3. uses' \in [1 .. Len(uses) -> Use]
      BY <1>3, <2>2
    <2>4. uses' \in Seq(Use)
      BY ONLY <1>3, <2>3, SeqDef
    <2>5. Len(uses') = Len(uses)
      BY <1>3, <2>3, <2>4, LenProperties
    <2> QED BY <1>3, <2>4, <2>5
  <1>9. TypeOK'
    <2>1. MainProgram \in Parsing
      BY FnTableAssumption DEF MainProgram, Parsing, Index, Body, Object
    <2>2. fn_map' \in [Name -> 0 .. Len(fns')] /\ module_map' \in [Name -> 0 .. Len(fns')]
      BY <1>1, <1>6 DEF TypeOK
    <2> QED BY <1>1, <1>6, <1>7, <1>8, <2>1, <2>2 DEF TypeOK
  <1>10. Bounded'
    <2>1. defs' # <<>> => defs # <<>>
      BY <1>2, <1>3
    <2> QED BY <1>1, <1>6, <1>7, <1>8, <2>1 DEF Bounded
  <1>11. UnderWay'
    BY DEF UnderWay
  <1>12. Keeps
    <2>1. ASSUME NEW i \in 1 .. Len(fns)
          PROVE  /\ Args(i)' = Args(i)
                 /\ Trusted(i) => Trusted(i)'
                 /\ (fns[i].type = "importer") = (fns'[i].type = "importer")
      <3>1. Args(i)' = fns'[i].num_args /\ Trusted(i)' = ("may_fail" \notin fns'[i].flags)
        BY ONLY <1>2, <1>5, <2>1 DEF Args, Trusted
      <3>2. CASE i = v
        <4>1. Args(i) = cur.num_args /\ Trusted(i) = cur.no_fail
          BY <3>2 DEF Args, Trusted
        <4>2. fns'[i] = f
          BY ONLY <1>6, <2>1, <3>2
        <4>3. fns[i].type = "none"
          BY ONLY <1>2, <3>2
        <4>4. cur.no_fail => "may_fail" \notin f.flags
          BY ONLY <1>d
        <4> QED BY ONLY <1>4, <3>1, <4>1, <4>2, <4>3, <4>4
      <3>3. CASE i # v
        <4>1. Args(i) = fns[i].num_args /\ Trusted(i) = ("may_fail" \notin fns[i].flags)
          BY <3>3 DEF Args, Trusted
        <4>2. fns'[i] = fns[i]
          BY ONLY <1>6, <2>1, <3>3
        <4> QED BY ONLY <3>1, <4>1, <4>2
      <3> QED BY <3>2, <3>3
    <2> QED BY <1>3, <1>6, <1>7, <2>1 DEF Keeps
  <1>13. Slots'
    <2>1. SUFFICES ASSUME NEW i \in 1 .. Len(fns) PROVE SlotOK(i)'
      BY <1>6 DEF Slots
    <2>2. CASE i # v
      <3>1. SlotOK(i) /\ fns'[i] = fns[i]
        BY <1>1, <1>6, <2>2 DEF Slots
      <3>2. \A x \in 1 .. Len(defs) : x # cur.body => x # cur'.body /\ defs'[x] = defs[x]
        BY <1>3, <1>5, <1>7
      <3> QED BY ONLY <1>1, <1>9, <1>11, <1>12, <3>1, <3>2, <2>1, SlotKept
    <2>3. CASE i = v
      <3>1. fns'[i] = f /\ b # cur'.body /\ b \in 1 .. Len(defs')
        BY <1>2, <1>5, <1>6, <1>7, <2>3
      <3> QED BY ONLY <1>4, <1>7, <3>1 DEF SlotOK
    <2> QED BY <2>2, <2>3
  <1>14. Maps'
    <2>1. \A i \in 0 .. Len(fns) : i # 0 => i \in 1 .. Len(fns)
      BY <1>3
    <2>2. \A n \in Name : fn_map[n] \in 0 .. Len(fns) /\ module_map[n] \in 0 .. Len(fns)
      BY <1>1 DEF TypeOK
    <2>3. fn_map' = fn_map /\ module_map' = module_map
      OBVIOUS
    <2> QED BY ONLY <1>1, <1>12, <2>1, <2>2, <2>3 DEF Maps, Keeps
  <1>15. Uses'
    <2>1. SUFFICES ASSUME NEW k \in 1 .. Len(uses) PROVE UseOK(uses[k])'
      BY <1>8 DEF Uses
    <2>2. PICK u : u = uses[k]
      OBVIOUS
    <2>3. u \in Use /\ UseOK(u)
      BY <1>1, <1>3, <2>2 DEF Uses
    <2>4. CASE u.self /\ u.kind # "value" /\ u.by = b
      <3>1. PICK w : w = [u EXCEPT !.fn = v]
        OBVIOUS
      <3>2. /\ w.self = u.self /\ w.of_module = u.of_module /\ w.by = u.by /\ w.fn = v
            /\ w.num_args = u.num_args
        BY <2>3, <3>1 DEF Use
      <3>3. uses'[k] = w
        BY <1>8, <2>2, <2>4, <3>1
      <3>4. ~u.of_module /\ u.num_args = cur.num_args
        BY <2>3, <2>4 DEF UseOK
      <3>5. /\ v \in 1 .. Len(fns') /\ fns'[v].type # "importer"
            /\ Args(v)' = cur.num_args
        BY <1>2, <1>4, <1>5, <1>6 DEF Args
      <3>6. b \in 1 .. Len(defs') /\ b # cur'.body
        BY <1>2, <1>5, <1>7
      <3>7. UseOK(w)'
        BY ONLY <2>4, <3>2, <3>4, <3>5, <3>6 DEF UseOK
      <3> QED BY <3>3, <3>7
    <2>5. CASE ~(u.self /\ u.kind # "value" /\ u.by = b)
      <3>1. uses'[k] = u
        BY <1>8, <2>2, <2>5
      <3>2. u.self /\ u.kind # "value" => u.by # cur.body /\ u.by # cur'.body
        BY <1>3, <1>5, <2>3, <2>5 DEF UseOK
      <3>3. UseOK(u)'
        BY ONLY <1>1, <1>9, <1>12, <2>3, <3>2, UseKept
      <3> QED BY <3>1, <3>3
    <2> QED BY <2>4, <2>5
  <1>16. Complete' /\ ~Runs'
    BY DEF Complete, Runs
  <1> QED BY <1>9, <1>10, <1>11, <1>13, <1>14, <1>15, <1>16 DEF FnInv

LEMMA FuncEndStep ==
  ASSUME FnInv, FuncEnd
  PROVE  FnInv'
  <1>1. /\ TypeOK /\ Bounded /\ UnderWay /\ res = "parsing" /\ cur # MainProgram
        /\ defs' = [defs EXCEPT ![cur.body].may_fail = ("may_fail" \in cur.flags)]
    BY DEF FnInv, FuncEnd, Going
  <1>2. CASE cur.no_fail /\ "may_fail" \in cur.flags
    <2>1. Reject("fatal") /\ UNCHANGED uses
      BY <1>2 DEF FuncEnd
    <2>2. /\ Len(defs) \in Nat /\ Len(uses) \in Nat /\ uses \in Seq(Use)
          /\ defs \in Seq(Definition) /\ cur.body \in 1 .. Len(defs)
          /\ defs[cur.body] \in Definition
      BY <1>1, Types DEF UnderWay, TypeOK
    <2> DEFINE done == [defs[cur.body] EXCEPT !.may_fail = ("may_fail" \in cur.flags)]
    <2>3. done \in Definition /\ defs' = [defs EXCEPT ![cur.body] = done]
      <3>1. ("may_fail" \in cur.flags) \in BOOLEAN
        OBVIOUS
      <3>2. done \in Definition
        BY <2>2, <3>1 DEF Definition
      <3> QED BY <1>1, <3>2
    <2> HIDE DEF done
    <2>4. defs' \in Seq(Definition) /\ Len(defs') = Len(defs)
      BY <2>2, <2>3, ExceptSeq
    <2>5. Len(defs) > 0 => Len(defs) < MaxSize
      BY <1>1, <2>2, EmptySeq DEF Bounded
    <2> QED BY <1>1, <2>1, <2>2, <2>4, <2>5, RejectedIs DEF Reject, Bounded
  <1>3. CASE ~(cur.no_fail /\ "may_fail" \in cur.flags)
    BY <1>3, FuncEndKeeps
  <1> QED BY <1>2, <1>3

-----------------------------------------------------------------------------
(* Calls and function values *)

LEMMA NewUseIs ==
  ASSUME TypeOK, NEW u \in NewUse
  PROVE  /\ u \in Use /\ u.name \in Name /\ u.of_module \in BOOLEAN /\ u.num_args \in Nat
         /\ u.kind \in CallingType \cup {"value"} /\ u.by = cur.body /\ u.self = FALSE
  <1>1. cur.body \in Body /\ 0 \in Index /\ Arity \subseteq Nat
    BY FnTableAssumption DEF TypeOK, Parsing, Index
  <1> QED BY <1>1 DEF NewUse, Use

LEMMA UsesGrow ==
  ASSUME FnInv, NEW u \in Use, NEW w \in Use, Fits(defs, Append(uses, u))
  PROVE  LET us == Append(uses, w) IN
         /\ us \in Seq(Use) /\ Len(us) = Len(uses) + 1
         /\ \A i \in 1 .. Len(uses) : us[i] = uses[i]
         /\ us[Len(uses) + 1] = w
         /\ Len(defs) + Len(us) <= MaxSize /\ (Len(defs) > 0 => Len(defs) < MaxSize)
         /\ Len(fns) + 1 <= 2 * Len(defs) + Len(us)
         /\ Len(fns) + 1 <= 2 * MaxSize /\ 1 <= MaxSize
  <1>1. /\ defs \in Seq(Definition) /\ uses \in Seq(Use) /\ Len(defs) \in Nat /\ Len(uses) \in Nat
        /\ Len(fns) \in Nat /\ MaxSize \in Nat /\ Len(fns) <= 2 * Len(defs) + Len(uses)
    BY Types DEF FnInv, TypeOK, Bounded
  <1>2. \A z \in Use : /\ Append(uses, z) \in Seq(Use) /\ Len(Append(uses, z)) = Len(uses) + 1
                       /\ \A i \in 1 .. Len(uses) : Append(uses, z)[i] = uses[i]
                       /\ Append(uses, z)[Len(uses) + 1] = z
    BY <1>1, AppendIs
  <1>3. Len(defs) + (Len(uses) + 1) <= MaxSize /\ (Len(defs) > 0 => Len(defs) < MaxSize)
    <2>1. Append(uses, u) \in Seq(Use) /\ Len(Append(uses, u)) = Len(uses) + 1
      BY <1>2
    <2> QED BY <1>1, <2>1, FitsBounds
  <1> QED BY <1>1, <1>2, <1>3

(* What the table does with a name that is used. *)
Resolved(u, flags, added) ==
  /\ fns' \in Seq(Function) /\ Len(fns') = Len(fns) + (IF added THEN 1 ELSE 0)
  /\ \A i \in 1 .. Len(fns) : fns'[i] = fns[i]
  /\ \A m \in Name :
       /\ fn_map'[m] = IF added /\ ~u.of_module /\ m = u.name THEN Len(fns) + 1
                       ELSE fn_map[m]
       /\ module_map'[m] = IF added /\ u.of_module /\ m = u.name THEN Len(fns) + 1
                           ELSE module_map[m]
  /\ fn_map' \in [Name -> 0 .. Len(fns')] /\ module_map' \in [Name -> 0 .. Len(fns')]
  /\ added => LET x == fns'[Len(fns) + 1] IN
              /\ x.num_args = u.num_args /\ x.flags = flags
              /\ x.type = IF u.of_module THEN "importer" ELSE "none"
              /\ u.of_module => x.body = External

LEMMA ResolveIs ==
  ASSUME TypeOK, NEW u \in NewUse, NEW flags \in SUBSET Flag, Resolve(u, flags),
         NEW added \in BOOLEAN, added = ~(Found(u) # 0 \/ IsSelf(u))
  PROVE  Resolved(u, flags, added)
  <1>1. /\ Len(fns) \in Nat /\ fns \in Seq(Function) /\ u.name \in Name /\ u.num_args \in Nat
        /\ u.of_module \in BOOLEAN
        /\ fn_map \in [Name -> 0 .. Len(fns)] /\ module_map \in [Name -> 0 .. Len(fns)]
    BY Types, NewUseIs DEF TypeOK
  <1>2. CASE ~added
    <2>1. UNCHANGED <<fns, fn_map, module_map>>
      BY <1>2 DEF Resolve
    <2> QED BY <1>1, <1>2, <2>1 DEF Resolved
  <1>3. CASE added
    <2> DEFINE x == [Added(u) EXCEPT !.flags = flags]
    <2>1. /\ x \in Function /\ x.num_args = u.num_args /\ x.flags = flags
          /\ x.type = IF u.of_module THEN "importer" ELSE "none"
          /\ u.of_module => x.body = External
      <3>1. Forward(u.num_args) \in Function /\ Forward(u.num_args).type = "none"
            /\ Forward(u.num_args).num_args = u.num_args
        BY <1>1, ForwardIs
      <3>2. External \in Body
        BY FnTableAssumption DEF External, Body
      <3>3. CASE u.of_module
        BY <3>1, <3>2, <3>3 DEF Added, Function
      <3>4. CASE ~u.of_module
        BY <3>1, <3>4 DEF Added, Function
      <3> QED BY <1>1, <3>3, <3>4
    <2>2. /\ fns' = Append(fns, x)
          /\ module_map' = IF u.of_module THEN Enter(u, module_map) ELSE module_map
          /\ fn_map' = IF u.of_module THEN fn_map ELSE Enter(u, fn_map)
      BY <1>3 DEF Resolve
    <2> HIDE DEF x
    <2>3. /\ fns' \in Seq(Function) /\ Len(fns') = Len(fns) + 1
          /\ \A i \in 1 .. Len(fns) : fns'[i] = fns[i]
          /\ fns'[Len(fns) + 1] = x
      BY <1>1, <2>1, <2>2, AppendIs
    <2>4. \A map \in [Name -> 0 .. Len(fns)] :
            /\ map \in [Name -> 0 .. Len(fns')]
            /\ Enter(u, map) \in [Name -> 0 .. Len(fns')]
            /\ \A m \in Name : Enter(u, map)[m] = IF m = u.name THEN Len(fns) + 1 ELSE map[m]
      BY <1>1, <2>3 DEF Enter
    <2>5. /\ fn_map' \in [Name -> 0 .. Len(fns')]
          /\ \A m \in Name : fn_map'[m] = IF ~u.of_module /\ m = u.name THEN Len(fns) + 1
                                         ELSE fn_map[m]
      BY ONLY <1>1, <2>2, <2>4
    <2>6. /\ module_map' \in [Name -> 0 .. Len(fns')]
          /\ \A m \in Name : module_map'[m] = IF u.of_module /\ m = u.name THEN Len(fns) + 1
                                             ELSE module_map[m]
      BY ONLY <1>1, <2>2, <2>4
    <2> QED BY ONLY <1>3, <2>1, <2>3, <2>5, <2>6 DEF Resolved
  <1> QED BY <1>2, <1>3

(* A use is read: what its bytecode counts on holds of the slot it names.  *)
LEMMA UseKeeps ==
  ASSUME FnInv, NEW u \in NewUse, res = "parsing", Fits(defs, Append(uses, u)),
         NEW flags \in SUBSET Flag, Resolve(u, flags), SameFunction, cur' \in Parsing,
         NEW fn \in Index, Record([u EXCEPT !.self = IsSelf(u)], fn),
         IsSelf(u) /\ u.kind # "value" => u.num_args = cur.num_args,
         ~IsSelf(u) => fn = ResolvedAt(u),
         ~IsSelf(u) /\ Found(u) # 0 =>
           /\ u.kind # "value" => u.num_args = fns[Found(u)].num_args
           /\ u.kind = "normal" => "may_fail" \notin fns[Found(u)].flags,
         ~IsSelf(u) /\ Found(u) = 0 /\ u.kind = "normal" => "may_fail" \notin flags,
         UNCHANGED <<class_map, imported, exports, res, defs>>
  PROVE  FnInv'
  <1>a. PICK self \in BOOLEAN : self = IsSelf(u)
    BY DEF IsSelf
  <1>b. PICK found : found = Found(u)
    OBVIOUS
  <1>c. PICK w : w = [[u EXCEPT !.self = self] EXCEPT !.fn = fn]
    OBVIOUS
  <1>d. /\ uses' = Append(uses, w)
        /\ ~self => fn = IF found # 0 THEN found ELSE Len(fns) + 1
        /\ self /\ u.kind # "value" => u.num_args = cur.num_args
        /\ ~self /\ found # 0 =>
             /\ u.kind # "value" => u.num_args = fns[found].num_args
             /\ u.kind = "normal" => "may_fail" \notin fns[found].flags
        /\ ~self /\ found = 0 /\ u.kind = "normal" => "may_fail" \notin flags
    BY <1>a, <1>b, <1>c DEF Record, ResolvedAt
  <1> USE <1>a, <1>b, <1>c, <1>d
  <1>1. TypeOK /\ Bounded /\ UnderWay /\ Slots /\ Maps /\ Uses /\ Going
    BY DEF FnInv, Going
  <1>2. /\ u \in Use /\ u.name \in Name /\ u.of_module \in BOOLEAN /\ u.num_args \in Nat
        /\ u.by = cur.body
    BY <1>1, NewUseIs
  <1>3. /\ w \in Use /\ w.name = u.name /\ w.of_module = u.of_module /\ w.by = cur.body
        /\ w.self = self /\ w.kind = u.kind /\ w.num_args = u.num_args /\ w.fn = fn
    BY <1>2 DEF Use
  <1>4. /\ uses' \in Seq(Use) /\ Len(uses') = Len(uses) + 1
        /\ \A i \in 1 .. Len(uses) : uses'[i] = uses[i]
        /\ uses'[Len(uses) + 1] = w
        /\ Len(defs) + Len(uses') <= MaxSize /\ (Len(defs) > 0 => Len(defs) < MaxSize)
        /\ Len(fns) + 1 <= 2 * Len(defs) + Len(uses')
    BY ONLY FnInv, <1>2, <1>3, UsesGrow, Fits(defs, Append(uses, u)), uses' = Append(uses, w)
  <1>5. PICK added \in BOOLEAN : added = ~(Found(u) # 0 \/ IsSelf(u))
    OBVIOUS
  <1>6. added = (found = 0 /\ ~self)
    BY <1>5
  <1>7. /\ fns' \in Seq(Function) /\ Len(fns') = Len(fns) + (IF added THEN 1 ELSE 0)
        /\ \A i \in 1 .. Len(fns) : fns'[i] = fns[i]
        /\ \A m \in Name :
             /\ fn_map'[m] = IF added /\ ~u.of_module /\ m = u.name THEN Len(fns) + 1
                             ELSE fn_map[m]
             /\ module_map'[m] = IF added /\ u.of_module /\ m = u.name THEN Len(fns) + 1
                                 ELSE module_map[m]
        /\ fn_map' \in [Name -> 0 .. Len(fns')] /\ module_map' \in [Name -> 0 .. Len(fns')]
        /\ added => LET x == fns'[Len(fns) + 1] IN
                    /\ x.num_args = u.num_args /\ x.flags = flags
                    /\ x.type = IF u.of_module THEN "importer" ELSE "none"
                    /\ u.of_module => x.body = External
    <2>1. Resolved(u, flags, added)
      BY ONLY <1>1, <1>5, u \in NewUse, flags \in SUBSET Flag, Resolve(u, flags), ResolveIs
    <2> QED BY ONLY <2>1 DEF Resolved
  <1>8. /\ Len(fns) \in Nat /\ Len(defs) \in Nat /\ Len(uses) \in Nat
        /\ Len(fns') \in Nat /\ Len(fns) <= Len(fns') /\ Len(fns') <= Len(fns) + 1
        /\ added => Len(fns') = Len(fns) + 1
    <2>1. Len(fns) \in Nat /\ Len(defs) \in Nat /\ Len(uses) \in Nat
      BY <1>1, Types
    <2> QED BY ONLY <1>7, <2>1, <1>5
  <1>9. TypeOK'
    BY <1>1, <1>4, <1>7 DEF TypeOK
  <1>10. Bounded'
    <2>1. defs' = defs /\ (defs # <<>> => Len(defs) < MaxSize)
      BY <1>1 DEF Bounded
    <2>2. Len(fns') <= 2 * Len(defs) + Len(uses')
      BY ONLY <1>4, <1>8, <1>9, Types
    <2> QED BY ONLY <1>4, <2>1, <2>2 DEF Bounded
  <1>11. /\ cur'.name = cur.name /\ cur'.value = cur.value /\ cur'.body = cur.body
         /\ cur'.num_args = cur.num_args /\ cur'.no_fail = cur.no_fail
         /\ (cur = MainProgram) = (cur' = MainProgram)
    BY DEF SameFunction
  <1>12. /\ cur.value \in 0 .. Len(fns)
         /\ cur.value # 0 => fns[cur.value].type = "none"
         /\ self => u.name = cur.name /\ ~u.of_module /\ cur # MainProgram
         /\ found \in 0 .. Len(fns)
    <2>1. cur = MainProgram => cur.name = NoClass /\ cur.value = 0
      BY MainProgramIs
    <2>2. self => u.name = cur.name /\ ~u.of_module
      BY DEF IsSelf
    <2>3. found \in 0 .. Len(fns)
      BY <1>1, <1>2 DEF Found, TypeOK
    <2> QED BY ONLY <1>1, <1>2, <1>8, <2>1, <2>2, <2>3, FnTableAssumption DEF UnderWay
  <1>13. UnderWay'
    <2>1. SUFFICES ASSUME cur' # MainProgram
                   PROVE  /\ cur'.name \in Name
                          /\ cur'.value \in 1 .. Len(fns') /\ fns'[cur'.value].type = "none"
                          /\ cur'.body = Len(defs') /\ cur'.body > 0
                          /\ defs'[cur'.body].num_args = cur'.num_args
                          /\ \A n \in Name : fn_map'[n] = cur'.value => n = cur'.name
      BY DEF UnderWay
    <2>2. /\ cur.name \in Name
          /\ cur.value \in 1 .. Len(fns) /\ fns[cur.value].type = "none"
          /\ cur.body = Len(defs) /\ cur.body > 0 /\ defs[cur.body].num_args = cur.num_args
          /\ \A n \in Name : fn_map[n] = cur.value => n = cur.name
      BY <1>1, <1>11, <2>1 DEF UnderWay
    <2>3. \A n \in Name : fn_map'[n] = cur.value => n = cur.name
      BY ONLY <1>7, <1>8, <2>2
    <2>4. cur.value \in 1 .. Len(fns') /\ fns'[cur.value].type = "none"
      BY ONLY <1>7, <1>8, <2>2
    <2>5. defs' = defs
      OBVIOUS
    <2> QED BY ONLY <1>11, <2>2, <2>3, <2>4, <2>5
  <1>14. \A i \in 1 .. Len(fns') :
           /\ Args(i)' = IF i = cur.value THEN cur.num_args ELSE fns'[i].num_args
           /\ Trusted(i)' = IF i = cur.value THEN cur.no_fail
                            ELSE "may_fail" \notin fns'[i].flags
    BY ONLY <1>11 DEF Args, Trusted
  <1>15. \A n \in Name : module_map[n] # 0 => module_map'[n] = module_map[n]
    <2>1. SUFFICES ASSUME NEW n \in Name, module_map[n] # 0
                   PROVE  module_map'[n] = module_map[n]
      OBVIOUS
    <2>2. ~(added /\ u.of_module /\ n = u.name)
      BY <1>6, <2>1 DEF Found
    <2> QED BY ONLY <1>7, <2>1, <2>2
  <1>16. Keeps
    <2>1. \A i \in 1 .. Len(fns) : Args(i)' = Args(i) /\ Trusted(i)' = Trusted(i)
      BY ONLY <1>7, <1>8, <1>14 DEF Args, Trusted
    <2>2. Len(defs) <= Len(defs')
      BY <1>8
    <2> QED BY ONLY <1>7, <1>8, <1>15, <2>1, <2>2 DEF Keeps
  <1>17. Slots'
    <2>1. SUFFICES ASSUME NEW i \in 1 .. Len(fns') PROVE SlotOK(i)'
      BY DEF Slots
    <2>2. CASE i \in 1 .. Len(fns)
      <3>1. SlotOK(i) /\ fns'[i] = fns[i]
        BY ONLY <1>1, <1>7, <2>2 DEF Slots
      <3>2. \A b \in 1 .. Len(defs) : b # cur.body => b # cur'.body /\ defs'[b] = defs[b]
        BY <1>11
      <3> QED BY ONLY <1>1, <1>9, <1>13, <1>16, <2>2, <3>1, <3>2, SlotKept
    <2>3. CASE i \notin 1 .. Len(fns)
      <3>1. added /\ i = Len(fns) + 1
        BY ONLY <1>7, <1>8, <2>1, <2>3, <1>5
      <3> QED BY ONLY <1>7, <3>1, <1>2 DEF SlotOK
    <2> QED BY <2>2, <2>3
  <1>18. Maps'
    <2>1. \A n \in Name : fn_map[n] \in 0 .. Len(fns) /\ module_map[n] \in 0 .. Len(fns)
      BY <1>1 DEF TypeOK
    <2>2. /\ \A n, q \in Name : fn_map[n] # 0 /\ fn_map[n] = fn_map[q] => n = q
          /\ \A n \in Name : fn_map[n] # 0 => fns[fn_map[n]].type # "importer"
          /\ \A n \in Name : module_map[n] # 0 => fns[module_map[n]].type = "importer"
      BY <1>1 DEF Maps
    <2>3. \A n, q \in Name : fn_map'[n] # 0 /\ fn_map'[n] = fn_map'[q] => n = q
      BY ONLY <1>7, <1>8, <2>1, <2>2
    <2>4. \A n \in Name : fn_map'[n] # 0 => fns'[fn_map'[n]].type # "importer"
      BY ONLY <1>7, <1>8, <2>1, <2>2
    <2>5. \A n \in Name : module_map'[n] # 0 => fns'[module_map'[n]].type = "importer"
      BY ONLY <1>7, <1>8, <2>1, <2>2
    <2> QED BY ONLY <2>3, <2>4, <2>5 DEF Maps
  <1>19. UseOK(w)'
    <2>1. CASE self
      <3>1. cur.body \in 1 .. Len(defs) /\ u.of_module = FALSE /\ defs' = defs
        BY <1>1, <1>2, <1>8, <1>12, <2>1 DEF UnderWay
      <3>2. u.kind # "value" => u.num_args = cur.num_args
        BY <2>1
      <3> QED BY ONLY <1>3, <1>11, <2>1, <3>1, <3>2 DEF UseOK
    <2>2. CASE ~self /\ found # 0
      <3>1. fn = found /\ found \in 1 .. Len(fns) /\ w.fn = found
        BY <1>3, <1>8, <1>12, <2>2
      <3>2. /\ u.kind # "value" => u.num_args = fns[found].num_args
            /\ u.kind = "normal" => "may_fail" \notin fns[found].flags
        BY <2>2
      <3>3. /\ u.of_module => module_map[u.name] = found /\ fns[found].type = "importer"
            /\ ~u.of_module => fn_map[u.name] = found /\ fns[found].type # "importer"
        BY <1>1, <1>2, <2>2 DEF Found, Maps
      <3>4. found # cur.value
        <4>1. CASE u.of_module
          BY ONLY <1>12, <2>2, <3>3, <4>1
        <4>2. CASE ~u.of_module
          <5>1. u.name # cur.name
            BY <2>2, <4>2 DEF IsSelf
          <5> QED BY <1>1, <1>2, <2>2, <3>3, <4>2, <5>1, MainProgramIs DEF UnderWay
        <4> QED BY <4>1, <4>2
      <3>5. fns'[found] = fns[found] /\ found \in 1 .. Len(fns')
        BY ONLY <1>7, <1>8, <3>1
      <3>6. /\ u.kind # "value" => Args(found)' = u.num_args
            /\ u.kind = "normal" => Trusted(found)'
        BY ONLY <1>14, <3>2, <3>4, <3>5
      <3>7. u.of_module => module_map'[u.name] = found
        BY ONLY <1>2, <1>15, <2>2, <3>3
      <3> QED BY ONLY <1>3, <2>2, <3>1, <3>3, <3>5, <3>6, <3>7 DEF UseOK
    <2>3. CASE ~self /\ found = 0
      <3>1. added /\ fn = Len(fns) + 1 /\ w.fn = Len(fns) + 1
        BY <1>3, <1>6, <2>3
      <3>2. PICK r : r = Len(fns) + 1
        OBVIOUS
      <3>3. /\ r \in 1 .. Len(fns') /\ r # cur.value /\ r # 0 /\ w.fn = r
            /\ fns'[r].num_args = u.num_args /\ fns'[r].flags = flags
            /\ fns'[r].type = IF u.of_module THEN "importer" ELSE "none"
            /\ u.of_module => module_map'[u.name] = r
        BY ONLY <1>2, <1>7, <1>8, <1>12, <3>1, <3>2
      <3>4. Args(r)' = u.num_args /\ (u.kind = "normal" => Trusted(r)')
        BY <1>14, <2>3, <3>3
      <3> QED BY ONLY <1>2, <1>3, <2>3, <3>3, <3>4 DEF UseOK
    <2> QED BY <2>1, <2>2, <2>3
  <1>20. Uses'
    <2>1. SUFFICES ASSUME NEW k \in 1 .. Len(uses') PROVE UseOK(uses[k])'
      BY DEF Uses
    <2>2. CASE k = Len(uses) + 1
      BY <1>4, <1>19, <2>2
    <2>3. CASE k \in 1 .. Len(uses)
      <3>1. PICK x : x = uses[k]
        OBVIOUS
      <3>2. x \in Use /\ UseOK(x) /\ uses'[k] = x
        BY <1>1, <1>4, <2>3, <3>1, Types DEF Uses
      <3>3. UseOK(x)'
        BY ONLY <1>1, <1>9, <1>11, <1>16, <3>2, UseKept
      <3> QED BY <3>2, <3>3
    <2> QED BY ONLY <1>4, <1>8, <2>1, <2>2, <2>3
  <1>21. Complete' /\ ~Runs'
    BY DEF Complete, Runs
  <1> QED BY <1>9, <1>10, <1>13, <1>17, <1>18, <1>20, <1>21 DEF FnInv

(* A use that is rejected is recorded without an index. *)
LEMMA UseRejected ==
  ASSUME FnInv, NEW u \in NewUse, Fits(defs, Append(uses, u)),
         NEW why \in {"unknown_module", "wrong_args", "fatal"}, Reject(why), Record(u, 0),
         UNCHANGED defs
  PROVE  FnInv'
  <1>1. /\ TypeOK /\ defs \in Seq(Definition) /\ Len(defs) \in Nat /\ Len(uses) \in Nat
        /\ 0 \in Index
    BY Types DEF FnInv, TypeOK, Index
  <1>2. PICK w : w = [u EXCEPT !.fn = 0]
    OBVIOUS
  <1>3. u \in Use /\ w \in Use /\ uses' = Append(uses, w)
    BY <1>1, <1>2, NewUseIs DEF Use, Record
  <1>4. /\ uses' \in Seq(Use) /\ Len(uses') = Len(uses) + 1
        /\ Len(defs) + Len(uses') <= MaxSize /\ (Len(defs) > 0 => Len(defs) < MaxSize)
    BY <1>3, UsesGrow
  <1> QED BY <1>1, <1>4, RejectedIs DEF Reject

LEMMA ResolvedAtIs ==
  ASSUME FnInv, NEW u \in NewUse, Fits(defs, Append(uses, u))
  PROVE  /\ ResolvedAt(u) \in Index /\ 0 \in Index /\ 1 \in Index
         /\ Found(u) # 0 => Found(u) \in 1 .. Len(fns) /\ fns[Found(u)] \in Function
  <1>1. TypeOK /\ u \in Use /\ u.name \in Name
    BY NewUseIs DEF FnInv
  <1>2. Len(fns) + 1 <= 2 * MaxSize /\ 1 <= MaxSize
    BY <1>1, UsesGrow
  <1>3. /\ Found(u) \in 0 .. Len(fns) /\ Len(fns) \in Nat /\ MaxSize \in Nat
        /\ \A i \in 1 .. Len(fns) : fns[i] \in Function
    BY <1>1, Types DEF Found, TypeOK
  <1> QED BY <1>2, <1>3 DEF ResolvedAt, Index

LEMMA CallStep ==
  ASSUME FnInv, NEW u \in NewUse, Call(u)
  PROVE  FnInv'
  <1>1. /\ TypeOK /\ res = "parsing" /\ Fits(defs, Append(uses, u)) /\ UNCHANGED defs
        /\ u.kind \in CallingType
    BY DEF FnInv, Call
  <1>2. CASE u.of_module /\ ~imported
    <2>1. Reject("unknown_module") /\ Record(u, 0)
      BY <1>2 DEF Call
    <2> QED BY <1>1, <2>1, UseRejected
  <1>3. CASE ~(u.of_module /\ ~imported) /\ u.num_args # CalledArgs(u)
    <2>1. Reject("wrong_args") /\ Record(u, 0)
      BY <1>3 DEF Call
    <2> QED BY <1>1, <2>1, UseRejected
  <1>4. CASE /\ ~(u.of_module /\ ~imported) /\ u.num_args = CalledArgs(u)
             /\ u.kind = "normal" /\ "may_fail" \in CalledFlags(u)
    <2>1. Reject("fatal") /\ Record(u, 0)
      BY <1>4 DEF Call
    <2> QED BY <1>1, <2>1, UseRejected
  <1>5. CASE /\ ~(u.of_module /\ ~imported) /\ u.num_args = CalledArgs(u)
             /\ ~(u.kind = "normal" /\ "may_fail" \in CalledFlags(u))
    <2>1. /\ Resolve(u, CalledFlags(u))
          /\ Record([u EXCEPT !.self = IsSelf(u)], IF IsSelf(u) THEN 0 ELSE ResolvedAt(u))
          /\ cur' = IF u.kind = "normal" \/ cur = MainProgram THEN cur
                    ELSE [cur EXCEPT !.flags = @ \cup {"may_fail"}]
          /\ UNCHANGED <<class_map, imported, exports, res>>
      BY <1>5 DEF Call
    <2>2. /\ ResolvedAt(u) \in Index /\ 0 \in Index
          /\ Found(u) # 0 => Found(u) \in 1 .. Len(fns) /\ fns[Found(u)] \in Function
      BY <1>1, ResolvedAtIs
    <2>3. cur \in Parsing /\ UnderWay
      BY <1>1 DEF FnInv, TypeOK, Going
    <2>4. CalledFlags(u) \in SUBSET Flag
      <3>1. cur.flags \in SUBSET Flag /\ (Found(u) # 0 => fns[Found(u)].flags \in SUBSET Flag)
        BY <2>2, <2>3 DEF Parsing, Function
      <3> QED BY <3>1 DEF CalledFlags, Flag
    <2>5. cur' \in Parsing /\ SameFunction
      <3>1. CASE cur' = cur
        BY <2>3, <3>1, SameCur
      <3>2. CASE cur # MainProgram /\ cur' = [cur EXCEPT !.flags = @ \cup {"may_fail"}]
        <4>1. /\ cur' \in Parsing
              /\ cur'.name = cur.name /\ cur'.value = cur.value /\ cur'.body = cur.body
              /\ cur'.num_args = cur.num_args /\ cur'.no_fail = cur.no_fail
          BY <2>3, <3>2 DEF Parsing, Flag
        <4>2. cur' # MainProgram
          BY <1>1, <2>3, <3>2, <4>1, Types DEF UnderWay, MainProgram
        <4> QED BY <3>2, <4>1, <4>2 DEF SameFunction
      <3> QED BY <2>1, <3>1, <3>2
    <2>6. PICK fn \in Index : fn = IF IsSelf(u) THEN 0 ELSE ResolvedAt(u)
      BY <2>2
    <2>7. Record([u EXCEPT !.self = IsSelf(u)], fn) /\ (~IsSelf(u) => fn = ResolvedAt(u))
      BY <2>1, <2>6
    <2>8. /\ IsSelf(u) => u.num_args = cur.num_args
          /\ ~IsSelf(u) /\ Found(u) # 0 => u.num_args = fns[Found(u)].num_args
      BY <1>5 DEF CalledArgs
    <2>9. /\ ~IsSelf(u) /\ Found(u) # 0 => CalledFlags(u) = fns[Found(u)].flags
          /\ u.kind = "normal" => "may_fail" \notin CalledFlags(u)
      BY <1>5 DEF CalledFlags
    <2> QED BY <1>1, <2>1, <2>4, <2>5, <2>7, <2>8, <2>9, UseKeeps
  <1> QED BY <1>2, <1>3, <1>4, <1>5

LEMMA LoadStep ==
  ASSUME FnInv, NEW u \in NewUse, Load(u)
  PROVE  FnInv'
  <1>1. /\ TypeOK /\ res = "parsing" /\ Fits(defs, Append(uses, u)) /\ UNCHANGED defs
        /\ u.kind = "value"
    BY DEF FnInv, Load
  <1>2. CASE u.of_module /\ ~imported
    <2>1. Reject("unknown_module") /\ Record(u, 0)
      BY <1>2 DEF Load
    <2> QED BY <1>1, <2>1, UseRejected
  <1>3. CASE ~(u.of_module /\ ~imported)
    <2>1. /\ Resolve(u, {})
          /\ Record([u EXCEPT !.self = IsSelf(u)], IF IsSelf(u) THEN 1 ELSE ResolvedAt(u))
          /\ UNCHANGED <<class_map, imported, cur, exports, res>>
      BY <1>3 DEF Load
    <2>2. ResolvedAt(u) \in Index /\ 1 \in Index
      BY <1>1, ResolvedAtIs
    <2>3. cur' \in Parsing /\ SameFunction
      BY <1>1, <2>1, SameCur DEF TypeOK
    <2>4. PICK fn \in Index : fn = IF IsSelf(u) THEN 1 ELSE ResolvedAt(u)
      BY <2>2
    <2>5. Record([u EXCEPT !.self = IsSelf(u)], fn) /\ (~IsSelf(u) => fn = ResolvedAt(u))
      BY <2>1, <2>4
    <2> QED BY <1>1, <2>1, <2>3, <2>5, UseKeeps
  <1> QED BY <1>2, <1>3

-----------------------------------------------------------------------------
(* The invariant *)

LEMMA InitInv ==
  ASSUME Init
  PROVE  FnInv
  <1>1. /\ fns = <<>> /\ defs = <<>> /\ uses = <<>> /\ Len(fns) = 0 /\ Len(defs) = 0
        /\ Len(uses) = 0 /\ res = "parsing" /\ cur = MainProgram
        /\ fn_map = [n \in Name |-> 0] /\ module_map = [n \in Name |-> 0]
    BY EmptySeq DEF Init
  <1>2. TypeOK
    <2>1. MainProgram \in Parsing
      BY FnTableAssumption DEF MainProgram, Parsing, Index, Body, Object
    <2>2. exports \in [Name -> Export]
      BY DEF Init, Export
    <2>3. fns \in Seq(Function) /\ defs \in Seq(Definition) /\ uses \in Seq(Use)
      BY <1>1, EmptySeq
    <2>4. class_map \subseteq OwnClass /\ imported \in BOOLEAN
      BY DEF Init
    <2>5. 0 \in 0 .. Len(fns)
      BY <1>1
    <2>6. fn_map \in [Name -> 0 .. Len(fns)] /\ module_map \in [Name -> 0 .. Len(fns)]
      BY <1>1, <2>5
    <2> QED BY ONLY <1>1, <2>1, <2>2, <2>3, <2>4, <2>6 DEF TypeOK
  <1>3. Bounded
    BY <1>1, FnTableAssumption DEF Bounded
  <1>4. UnderWay /\ Slots /\ Maps /\ Uses /\ Complete /\ ~Runs
    BY <1>1 DEF UnderWay, Slots, Maps, Uses, Complete, Runs
  <1> QED BY <1>2, <1>3, <1>4 DEF FnInv

LEMMA NextInv ==
  ASSUME FnInv, [Next]_vars
  PROVE  FnInv'
  <1>1. CASE \E c \in OwnClass : Struct(c)
    BY <1>1, PreambleStep
  <1>2. CASE Import
    BY <1>2, PreambleStep
  <1>3. CASE \E d \in NewDefinition : FuncHead(d)
    BY <1>3, FuncHeadStep
  <1>4. CASE FuncEnd
    BY <1>4, FuncEndStep
  <1>5. CASE RaiseStatement
    BY <1>5, RaiseStep
  <1>6. CASE \E u \in NewUse : Call(u) \/ Load(u)
    BY <1>6, CallStep, LoadStep
  <1>7. CASE EndOfFile
    BY <1>7, EndOfFileStep
  <1>8. CASE \E e \in [Name -> Export] : Link(e)
    BY <1>8, LinkStep
  <1>9. CASE UNCHANGED vars
    <2>1. UNCHANGED <<fns, fn_map, module_map, class_map, imported, cur, defs, uses,
                      exports, res>>
      BY <1>9 DEF vars, tables
    <2>2. TypeOK' = TypeOK /\ Bounded' = Bounded /\ Going' = Going /\ Runs' = Runs
      BY <2>1 DEF TypeOK, Bounded, Going, Runs
    <2>3. CASE Going
      <3>1. Complete' /\ (Runs' => Linked(exports'))
        BY <2>1, <2>3 DEF FnInv, Complete, Runs
      <3> QED BY <2>1, <2>2, <2>3, <3>1, SameCur, TableStays DEF FnInv
    <2>4. CASE ~Going
      BY <2>2, <2>4 DEF FnInv, Going, Runs
    <2> QED BY <2>3, <2>4
  <1> QED BY <1>1, <1>2, <1>3, <1>4, <1>5, <1>6, <1>7, <1>8, <1>9 DEF Next

THEOREM Invariant == Spec => []FnInv
  BY InitInv, NextInv, PTL DEF Spec

(* The table of functions is always of the shape the parser expects:       *)
(* fn_map, the functions' indices and every recorded use stay inside it.   *)
THEOREM TypeCorrect == Spec => []TypeOK
  <1>1. FnInv => TypeOK
    BY DEF FnInv
  <1> QED BY <1>1, Invariant, PTL

(* However a function came into the table, a call of its index enters it   *)
(* with as many arguments as it takes (au_parser_resolve_fn,               *)
(* au_parser_exec_func_statement and au_fn_call_internal agree).           *)
THEOREM ArityIsRight == Spec => []ArityAgrees
  <1>1. FnInv => ArityAgrees
    BY InvAgrees
  <1> QED BY <1>1, Invariant, PTL

(* A call without ? or ! never reaches a function that may fail, though it *)
(* may have been parsed long before the function's raise.                  *)
THEOREM FailuresAreMarked == Spec => []MayFailSound
  <1>1. FnInv => MayFailSound
    BY InvAgrees
  <1> QED BY <1>1, Invariant, PTL

=============================================================================
