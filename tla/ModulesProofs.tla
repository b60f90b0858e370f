---------------------------- MODULE ModulesProofs ----------------------------
(***************************************************************************)
(* A file is loaded once, its functions stay reachable and its constants   *)
(* keep their cells, for any number of files and import statements.        *)
(***************************************************************************)
EXTENDS Modules, FiniteSetTheorems, SequenceTheorems, TLAPS

-----------------------------------------------------------------------------
(* The inductive invariant *)

(* A path's slot is its own and holds its module or nothing. *)
Slots ==
  /\ \A p \in Path : loaded_modules_map[p] # Null =>
       /\ loaded_modules_map[p] < Len(loaded_modules)
       /\ get_module(p) \in {Null, Heap(p)}
       /\ \A q \in Path \ {p} : loaded_modules_map[q] # loaded_modules_map[p]
  /\ \A k \in DOMAIN loaded_modules, p \in Path :
       loaded_modules[k] = Heap(p) => loaded_modules_map[p] = k - 1

(* A path whose slot is reserved and empty: its top level is running, or it *)
(* has failed.                                                              *)
Reserved(p) == loaded_modules_map[p] # Null /\ get_module(p) = Null

(* The program owns cells of the constant cache. *)
Owns(p) == p = Main \/ tl_constant_start[p] > 0

(* The activation waits for the module that its statement names: the top    *)
(* level of the module is the next activation, until an error ends it.      *)
Importing(k) ==
  LET a == activations[k]
      p == text[<<a.prog, a.import>>]
  IN /\ a.body /\ p \in Path
     /\ Reserved(p) /\ a.slot = loaded_modules_map[p] + 1
     /\ IF k < Len(activations)
        THEN activations[k + 1].body /\ activations[k + 1].prog = p
        ELSE error.type # "ok"

(* The top levels that run: the main program first, each module but once,   *)
(* each for the import below it.                                            *)
Frames ==
  \A k \in 1 .. Len(activations) :
    LET a == activations[k]
    IN /\ k = 1 => a.body /\ a.prog = Main
       /\ a.body /\ k > 1 => /\ a.prog \in Path /\ Reserved(a.prog)
                             /\ activations[k - 1].import # 0
       /\ a.body => Owns(a.prog)
       /\ a.body => \A l \in 1 .. Len(activations) :
                      activations[l].body /\ activations[l].prog = a.prog => l = k
       /\ a.import # 0 => Importing(k)

Links ==
  \A x \in Site :
    /\ p_data_cached[x] # Null =>
         /\ text[x] \in Path /\ p_data_cached[x] = Heap(text[x])
         /\ loaded_modules_map[text[x]] # Null
         /\ get_module(text[x]) = Heap(text[x])
    /\ classes[x] # Null => classes[x] = text[x]

(* The cells of the programs are in the cache and apart from each other. *)
Ranges ==
  /\ tl_constant_start[Main] = 0
  /\ \A p \in Prog : tl_constant_start[p] + DataLen <= Len(const_cache)
  /\ \A p, q \in Prog : p # q /\ Owns(p) /\ Owns(q) =>
       \/ tl_constant_start[p] + DataLen <= tl_constant_start[q]
       \/ tl_constant_start[q] + DataLen <= tl_constant_start[p]

(* The cell of an import statement is empty until its import is complete. *)
Awaited(q, s) ==
  \/ text[<<q, s>>] = Null
  \/ \E k \in 1 .. Len(activations) :
       activations[k].body /\ activations[k].prog = q /\ activations[k].import = s

FreeCells ==
  \A q \in Prog, s \in Statement : Owns(q) /\ Awaited(q, s) =>
    const_cache[tl_constant_start[q] + Imported(s)] = Unset

ModulesInv == TypeOK /\ Slots /\ Frames /\ Links /\ Ranges /\ FreeCells


-----------------------------------------------------------------------------
(* Sequences and names *)

LEMMA FrontOf ==
  ASSUME NEW S, NEW s \in Seq(S), s # <<>>
  PROVE  /\ Front(s) \in Seq(S) /\ Len(s) \in Nat \ {0} /\ Len(Front(s)) = Len(s) - 1
         /\ \A k \in 1 .. Len(s) - 1 : Front(s)[k] = s[k]
         /\ Last(s) \in S
  <1>1. Len(s) \in Nat \ {0}
    BY EmptySeq
  <1>2. \A k \in 1 .. Len(s) : s[k] \in S
    BY ElementOfSeq
  <1>3. PICK m \in Nat : m = Len(s) - 1
    BY <1>1
  <1>4. \A k \in 1 .. m : s[k] \in S
    BY <1>1, <1>2, <1>3
  <1>5. /\ SubSeq(s, 1, m) \in Seq(S)
        /\ Len(SubSeq(s, 1, m)) = IF 1 <= m THEN m - 1 + 1 ELSE 0
        /\ \A k \in 1 .. m - 1 + 1 : SubSeq(s, 1, m)[k] = s[1 + k - 1]
    BY <1>4, SubSeqProperties
  <1>6. Front(s) = SubSeq(s, 1, m)
    BY <1>3 DEF Front
  <1>7. \A k \in 1 .. m : 1 + k - 1 = k
    OBVIOUS
  <1> QED BY <1>1, <1>2, <1>3, <1>5, <1>6, <1>7 DEF Last

LEMMA Names ==
  /\ Null \notin Prog /\ Null \notin Path /\ Null \notin Nat /\ Null \notin Address
  /\ Main \notin Path
  /\ \A p \in Path : Heap(p) \in Address /\ Heap(p) # Null
  /\ \A p, q \in Path : Heap(p) = Heap(q) => p = q
  /\ MainData \in Address /\ \A p \in Path : Heap(p) # MainData
  BY NullAssumption, ModulesAssumption DEF Address, Heap, MainData, Prog

LEMMA Statements ==
  /\ Statement = 1 .. DataLen - 1 /\ DataLen \in Nat /\ DataLen >= 1
  /\ \A s \in Statement : s \in Nat /\ s # 0 /\ Imported(s) \in 2 .. DataLen
  <1>1. Cardinality(Statement) \in Nat
    BY ModulesAssumption, FS_CardinalityType
  <1>2. PICK c \in Nat : c = Cardinality(Statement)
    BY <1>1
  <1>3. Statement = 1 .. c /\ DataLen = c + 1
    BY <1>2, ModulesAssumption DEF DataLen
  <1> QED BY <1>3 DEF Imported

LEMMA CellInRange ==
  ASSUME NEW a \in Nat, NEW l \in Nat, NEW d \in 1 .. l, NEW n \in Nat, a + l <= n
  PROVE  a + d \in 1 .. n
  OBVIOUS

(* The types of what the steps read. *)
LEMMA Shape ==
  ASSUME TypeOK
  PROVE  /\ Len(loaded_modules) \in Nat /\ DOMAIN loaded_modules = 1 .. Len(loaded_modules)
         /\ Len(activations) \in Nat
         /\ \A k \in 1 .. Len(activations) :
              /\ activations[k] \in Activation
              /\ activations[k].prog \in Prog /\ activations[k].p_data \in Address
              /\ activations[k].body \in BOOLEAN
              /\ activations[k].import \in Statement \cup {0} /\ activations[k].slot \in Nat
         /\ Len(const_cache) \in Nat /\ DOMAIN const_cache = 1 .. Len(const_cache)
         /\ \A p \in Prog : tl_constant_start[p] \in Nat
         /\ \A p \in Path : loaded_modules_map[p] # Null => loaded_modules_map[p] \in Nat
         /\ Main \in Prog /\ Path \subseteq Prog
  <1>1. /\ Len(loaded_modules) \in Nat /\ DOMAIN loaded_modules = 1 .. Len(loaded_modules)
        /\ Len(const_cache) \in Nat /\ DOMAIN const_cache = 1 .. Len(const_cache)
        /\ Len(activations) \in Nat
    BY LenProperties DEF TypeOK
  <1>2. \A k \in 1 .. Len(activations) : activations[k] \in Activation
    BY ElementOfSeq DEF TypeOK
  <1> QED BY <1>1, <1>2 DEF TypeOK, Prog, Activation

-----------------------------------------------------------------------------
(* Every step keeps the invariant *)

LEMMA InitInv == Init => ModulesInv
  <1> SUFFICES ASSUME Init PROVE ModulesInv
    OBVIOUS
  <1> DEFINE main == [prog |-> Main, p_data |-> MainData, body |-> TRUE,
                      import |-> 0, slot |-> 0]
  <1>1. /\ DataLen \in Nat /\ DataLen >= 1
        /\ \A s \in Statement : Imported(s) \in 2 .. DataLen
    BY Statements
  <1>2. main \in Activation /\ NoError \in [type : ErrorType, path : Path \cup {Null}]
    BY Names DEF Activation, Prog, NoError, ErrorType
  <1>3. activations = <<main>> /\ Len(activations) = 1 /\ activations[1] = main
    BY DEF Init
  <1>4. const_cache \in Seq({Unset, Plain} \cup FnValue) /\ Len(const_cache) = DataLen
        /\ \A k \in 1 .. DataLen : const_cache[k] = Unset
    <2>1. const_cache \in [1 .. DataLen -> {Unset, Plain} \cup FnValue]
      BY DEF Init
    <2> QED BY <1>1, <2>1, SeqDef DEF Init
  <1>5. TypeOK
    <2>1. activations \in Seq(Activation) /\ Len(activations) <= MaxCalls
      BY <1>2, <1>3, ModulesAssumption
    <2>2. loaded_modules \in Seq({Heap(p) : p \in Path} \cup {Null})
      BY EmptySeq DEF Init
    <2> QED BY <1>2, <1>4, <2>1, <2>2 DEF Init, TypeOK
  <1>6. Slots /\ Links
    BY DEF Init, Slots, Links
  <1>7. Frames
    BY <1>3 DEF Frames, Owns
  <1>8. Ranges /\ FreeCells
    BY <1>1, <1>4, Names DEF Init, Ranges, FreeCells, Owns, Prog
  <1> QED BY <1>5, <1>6, <1>7, <1>8 DEF ModulesInv


(* A slot more: the other paths keep theirs. *)
LEMMA ReserveSlot ==
  ASSUME TypeOK, Slots, NEW p \in Path, NEW slot \in {Null, Heap(p)}, Reserve(p, slot)
  PROVE  /\ Slots'
         /\ loaded_modules_map' \in [Path -> Nat \cup {Null}]
         /\ loaded_modules' \in Seq({Heap(q) : q \in Path} \cup {Null})
         /\ loaded_modules_map[p] = Null
         /\ loaded_modules_map'[p] = Len(loaded_modules) /\ get_module(p)' = slot
         /\ loaded_modules_map'[p] # Null
         /\ \A q \in Path \ {p} : /\ loaded_modules_map'[q] = loaded_modules_map[q]
                                  /\ get_module(q)' = get_module(q)
  <1> DEFINE lm == loaded_modules
             len == Len(loaded_modules)
             map == loaded_modules_map
  <1>1. /\ len \in Nat /\ DOMAIN lm = 1 .. len /\ map \in [Path -> Nat \cup {Null}]
        /\ lm \in Seq({Heap(q) : q \in Path} \cup {Null})
        /\ \A q \in Path : map[q] # Null => map[q] \in Nat /\ map[q] < len
    BY Shape DEF TypeOK, Slots
  <1>2. /\ map[p] = Null /\ map' = [map EXCEPT ![p] = len] /\ lm' = Append(lm, slot)
    BY DEF Reserve
  <1>3. /\ lm' \in Seq({Heap(q) : q \in Path} \cup {Null})
        /\ Len(lm') = len + 1 /\ DOMAIN lm' = 1 .. len + 1
        /\ \A k \in 1 .. len : lm'[k] = lm[k]
        /\ lm'[len + 1] = slot
    <2>1. slot \in {Heap(q) : q \in Path} \cup {Null}
      OBVIOUS
    <2> QED BY <1>1, <1>2, <2>1, AppendProperties, LenProperties
  <1>4. /\ map'[p] = len /\ \A q \in Path \ {p} : map'[q] = map[q]
        /\ map' \in [Path -> Nat \cup {Null}] /\ len # Null
    BY <1>1, <1>2, Names
  <1>5. get_module(p)' = slot
    BY <1>3, <1>4 DEF get_module
  <1>6. ASSUME NEW q \in Path \ {p} PROVE get_module(q)' = get_module(q)
    <2>1. CASE map[q] = Null
      BY <1>4, <2>1 DEF get_module
    <2>2. CASE map[q] # Null
      <3>1. map[q] + 1 \in 1 .. len
        BY <1>1, <2>2
      <3> QED BY <1>3, <1>4, <2>2, <3>1 DEF get_module
    <2> QED BY <2>1, <2>2
  <1>7. Slots'
    <2>1. ASSUME NEW q \in Path, map'[q] # Null
          PROVE  /\ map'[q] < Len(lm') /\ get_module(q)' \in {Null, Heap(q)}
                 /\ \A r \in Path \ {q} : map'[r] # map'[q]
      <3>1. CASE q = p
        <4>1. \A r \in Path \ {p} : map[r] # len
          BY <1>1, Names
        <4> QED BY <1>1, <1>3, <1>4, <1>5, <3>1, <4>1
      <3>2. CASE q # p
        <4>1. map[q] # Null /\ map'[q] = map[q] /\ map[q] < len
          BY <1>1, <1>4, <2>1, <3>2
        <4>2. get_module(q) \in {Null, Heap(q)} /\ \A r \in Path \ {q} : map[r] # map[q]
          BY <4>1 DEF Slots
        <4>3. \A r \in Path \ {q} : map'[r] # map'[q]
          BY <1>1, <1>4, <4>1, <4>2
        <4> QED BY <1>1, <1>3, <1>6, <3>2, <4>1, <4>2, <4>3
      <3> QED BY <3>1, <3>2
    <2>2. ASSUME NEW k \in DOMAIN lm', NEW q \in Path, lm'[k] = Heap(q)
          PROVE  map'[q] = k - 1
      <3>1. CASE k = len + 1
        BY <1>1, <1>3, <1>4, <2>2, <3>1, Names
      <3>2. CASE k # len + 1
        <4>1. k \in 1 .. len
          BY <1>1, <1>3, <3>2
        <4>2. map[q] = k - 1
          BY <1>1, <1>3, <2>2, <4>1 DEF Slots
        <4>3. k - 1 \in Nat
          BY <4>1
        <4>4. q # p
          BY <1>2, <4>2, <4>3, Names
        <4> QED BY <1>4, <4>2, <4>4
      <3> QED BY <3>1, <3>2
    <2> QED BY <2>1, <2>2 DEF Slots
  <1> QED BY <1>2, <1>3, <1>4, <1>5, <1>6, <1>7

(* A reserved slot is filled: the other paths keep what they have. *)
LEMMA FillSlot ==
  ASSUME TypeOK, Slots, NEW p \in Path, Reserved(p),
         AddModule(loaded_modules_map[p] + 1, p),
         loaded_modules_map' = loaded_modules_map
  PROVE  /\ Slots'
         /\ loaded_modules' \in Seq({Heap(q) : q \in Path} \cup {Null})
         /\ get_module(p)' = Heap(p)
         /\ \A q \in Path \ {p} : get_module(q)' = get_module(q)
  <1> DEFINE lm == loaded_modules
             len == Len(loaded_modules)
             map == loaded_modules_map
             k == loaded_modules_map[p] + 1
  <1>1. /\ len \in Nat /\ DOMAIN lm = 1 .. len /\ map \in [Path -> Nat \cup {Null}]
        /\ lm \in Seq({Heap(q) : q \in Path} \cup {Null})
        /\ map[p] # Null /\ map[p] \in Nat /\ map[p] < len
        /\ \A q \in Path : map[q] # Null => map[q] \in Nat /\ map[q] < len
    BY Shape DEF TypeOK, Slots, Reserved
  <1>2. k \in 1 .. len /\ Heap(p) \in {Heap(q) : q \in Path} \cup {Null}
    BY <1>1
  <1>3. /\ lm' \in Seq({Heap(q) : q \in Path} \cup {Null})
        /\ Len(lm') = len /\ DOMAIN lm' = 1 .. len
        /\ lm'[k] = Heap(p)
        /\ \A j \in 1 .. len : j # k => lm'[j] = lm[j]
    <2>1. lm' = [lm EXCEPT ![k] = Heap(p)]
      BY DEF AddModule
    <2> HIDE DEF k
    <2> QED BY <1>1, <1>2, <2>1, ExceptSeq, LenProperties
  <1>4. get_module(p)' = Heap(p)
    BY <1>1, <1>3 DEF get_module
  <1>5. ASSUME NEW q \in Path \ {p} PROVE get_module(q)' = get_module(q)
    <2>1. CASE map[q] = Null
      BY <2>1 DEF get_module
    <2>2. CASE map[q] # Null
      <3>1. map[q] # map[p] /\ map[q] \in Nat /\ map[q] + 1 \in 1 .. len
        BY <1>1, <2>2 DEF Slots
      <3>2. map[q] + 1 # k
        BY <1>1, <3>1
      <3> QED BY <1>3, <2>2, <3>1, <3>2 DEF get_module
    <2> QED BY <2>1, <2>2
  <1>6. Slots'
    <2>1. ASSUME NEW q \in Path, map[q] # Null
          PROVE  /\ map[q] < Len(lm') /\ get_module(q)' \in {Null, Heap(q)}
                 /\ \A r \in Path \ {q} : map[r] # map[q]
      BY <1>1, <1>3, <1>4, <1>5, <2>1 DEF Slots
    <2>2. ASSUME NEW j \in DOMAIN lm', NEW q \in Path, lm'[j] = Heap(q)
          PROVE  map[q] = j - 1
      <3>1. CASE j = k
        <4>1. q = p
          BY <1>3, <2>2, <3>1, Names
        <4> QED BY <1>1, <3>1, <4>1
      <3>2. CASE j # k
        BY <1>1, <1>3, <2>2, <3>2 DEF Slots
      <3> QED BY <3>1, <3>2
    <2> QED BY <2>1, <2>2 DEF Slots
  <1> QED BY <1>3, <1>4, <1>5, <1>6


(* The activations below keep their places when the upper ones are gone. *)
LEMMA FramesBelow ==
  ASSUME TypeOK, Frames,
         NEW m \in 0 .. Len(activations), Len(activations') = m,
         NEW gone \in Path \cup {Null},
         \A k \in 1 .. m :
           /\ activations'[k].prog = activations[k].prog
           /\ activations'[k].body = activations[k].body
           /\ activations'[k].import # 0 => activations'[k] = activations[k]
           /\ k < m => activations'[k] = activations[k]
           /\ activations[k].body => activations[k].prog # gone,
         m > 0 /\ activations'[m].import # 0 =>
           /\ error'.type # "ok"
           /\ text[<<activations[m].prog, activations[m].import>>] # gone,
         \A x \in Site : text[x] # Null => text'[x] = text[x],
         \A p \in Prog : Owns(p) => Owns(p)',
         \A p \in Path \ {gone} : Reserved(p) =>
           Reserved(p)' /\ loaded_modules_map'[p] = loaded_modules_map[p]
  PROVE  Frames'
  <1>1. Len(activations) \in Nat /\ m \in Nat /\ m <= Len(activations)
    BY Shape
  <1>2. ASSUME NEW k \in 1 .. m
        PROVE  LET a == activations'[k]
               IN /\ k = 1 => a.body /\ a.prog = Main
                  /\ a.body /\ k > 1 =>
                       /\ a.prog \in Path /\ \A q \in Path : q = a.prog => Reserved(q)'
                       /\ activations'[k - 1].import # 0
                  /\ a.body =>
                       a.prog \in Prog /\ \A q \in Prog : q = a.prog => Owns(q)'
                  /\ a.body => \A l \in 1 .. m :
                       activations'[l].body /\ activations'[l].prog = a.prog => l = k
                  /\ a.import # 0 => Importing(k)'
    <2> DEFINE a == activations[k]
    <2>1. k \in 1 .. Len(activations)
      BY <1>1
    <2>2. /\ k = 1 => a.body /\ a.prog = Main
          /\ a.body /\ k > 1 => /\ a.prog \in Path /\ Reserved(a.prog)
                                /\ activations[k - 1].import # 0
          /\ a.body => Owns(a.prog)
          /\ a.body => \A l \in 1 .. Len(activations) :
                         activations[l].body /\ activations[l].prog = a.prog => l = k
          /\ a.import # 0 => Importing(k)
      BY <2>1 DEF Frames
    <2>3. activations'[k].prog = a.prog /\ activations'[k].body = a.body
      OBVIOUS
    <2>4. PICK q \in Prog : q = a.prog
      BY <2>1, Shape
    <2>5. a.body /\ k > 1 => /\ q \in Path /\ Reserved(q)'
                             /\ activations'[k - 1].import # 0
      <3>1. a.body /\ k > 1 => q \in Path /\ Reserved(q)'
        BY <2>2, <2>4
      <3>2. k > 1 => k - 1 \in 1 .. m /\ k - 1 < m
        BY <1>1
      <3> QED BY <2>2, <3>1, <3>2
    <2>6. a.body => Owns(q)'
      BY <2>2, <2>4
    <2>7. a.body => \A l \in 1 .. m :
            activations'[l].body /\ activations'[l].prog = a.prog => l = k
      BY <1>1, <2>2
    <2>8. ASSUME activations'[k].import # 0 PROVE Importing(k)'
      <3>1. activations'[k] = a /\ Importing(k)
        BY <2>2, <2>8
      <3>2. PICK p \in Path : p = text[<<a.prog, a.import>>]
        BY <3>1 DEF Importing
      <3>3. a.body /\ Reserved(p) /\ a.slot = loaded_modules_map[p] + 1
        BY <3>1, <3>2 DEF Importing
      <3>4. text'[<<a.prog, a.import>>] = p
        <4>1. <<a.prog, a.import>> \in Site
          BY <2>1, <2>8, <3>1, Shape DEF Site
        <4> QED BY <3>2, <4>1, Names
      <3>5. p # gone /\ (k < m => activations'[k + 1].body /\ activations'[k + 1].prog = p)
            /\ (k = m => error'.type # "ok")
        <4>1. CASE k < m
          <5>1. k + 1 \in 1 .. m /\ k < Len(activations)
            BY <1>1, <4>1
          <5>2. activations[k + 1].body /\ activations[k + 1].prog = p
            BY <3>1, <3>2, <5>1 DEF Importing
          <5>3. /\ activations'[k + 1].body = activations[k + 1].body
                /\ activations'[k + 1].prog = activations[k + 1].prog
                /\ activations[k + 1].body => activations[k + 1].prog # gone
            BY <5>1
          <5> QED BY <4>1, <5>2, <5>3
        <4>2. CASE k = m
          BY <2>8, <3>1, <3>2, <4>2
        <4> QED BY <1>1, <4>1, <4>2
      <3>6. Reserved(p)' /\ loaded_modules_map'[p] = loaded_modules_map[p]
        BY <3>3, <3>5
      <3>7. k < m \/ k = m
        BY <1>1
      <3>8. activations'[k].body /\ activations'[k].slot = loaded_modules_map'[p] + 1
        BY <3>1, <3>3, <3>6
      <3>9. text'[<<activations'[k].prog, activations'[k].import>>] = p
        BY <3>1, <3>4
      <3>10. IF k < m THEN activations'[k + 1].body /\ activations'[k + 1].prog = p
                      ELSE error'.type # "ok"
        BY <3>5, <3>7
      <3> QED BY <3>6, <3>8, <3>9, <3>10 DEF Importing, Reserved, get_module
    <2> HIDE DEF a
    <2> QED BY <2>2, <2>3, <2>4, <2>5, <2>6, <2>7, <2>8
  <1> QED BY <1>2 DEF Frames, Reserved, Owns, get_module

(* The cells of import statements stay empty while their imports run. *)
LEMMA CellsKept ==
  ASSUME TypeOK, FreeCells, Ranges, tl_constant_start' = tl_constant_start,
         NEW Done \in SUBSET Site,
         \A x \in Site : Awaited(x[1], x[2])' => Awaited(x[1], x[2]) /\ x \notin Done,
         NEW r \in Prog, Owns(r), NEW d \in 1 .. DataLen,
         \A k \in DOMAIN const_cache :
           k # tl_constant_start[r] + d => const_cache'[k] = const_cache[k],
         d = Own \/ \E s \in Statement : d = Imported(s) /\ <<r, s>> \in Done
  PROVE  FreeCells'
  <1> SUFFICES ASSUME NEW q \in Prog, NEW s \in Statement, Owns(q), Awaited(q, s)'
               PROVE  const_cache'[tl_constant_start[q] + Imported(s)] = Unset
    BY DEF FreeCells, Owns
  <1>1. Imported(s) \in 2 .. DataLen /\ DataLen \in Nat
    BY Statements
  <1>2. Awaited(q, s) /\ <<q, s>> \notin Done
    <2>1. PICK x \in Site : x = <<q, s>>
      BY DEF Site
    <2>2. x[1] = q /\ x[2] = s
      BY <2>1
    <2> QED BY <2>1, <2>2
  <1>3. const_cache[tl_constant_start[q] + Imported(s)] = Unset
    BY <1>2 DEF FreeCells
  <1>4. /\ tl_constant_start[q] \in Nat /\ tl_constant_start[r] \in Nat
        /\ tl_constant_start[q] + DataLen <= Len(const_cache)
        /\ DOMAIN const_cache = 1 .. Len(const_cache) /\ Len(const_cache) \in Nat
    BY Shape DEF Ranges
  <1>5. tl_constant_start[q] + Imported(s) \in DOMAIN const_cache
    BY <1>1, <1>4
  <1>6. tl_constant_start[q] + Imported(s) # tl_constant_start[r] + d
    <2>1. CASE q = r
      <3>1. Imported(s) # d
        <4>1. d = Own => Imported(s) # d
          BY <1>1 DEF Own
        <4>2. ASSUME NEW t \in Statement, d = Imported(t), <<r, t>> \in Done
              PROVE  Imported(s) # d
          <5>1. s \in Nat /\ t \in Nat /\ s # t
            BY <1>2, <2>1, <4>2, Statements
          <5> QED BY <4>2, <5>1 DEF Imported
        <4> QED BY <4>1, <4>2
      <3> QED BY <1>1, <1>4, <2>1, <3>1
    <2>2. CASE q # r
      <3>1. \/ tl_constant_start[q] + DataLen <= tl_constant_start[r]
            \/ tl_constant_start[r] + DataLen <= tl_constant_start[q]
        BY <2>2 DEF Ranges
      <3> QED BY <1>1, <1>4, <3>1
    <2> QED BY <2>1, <2>2
  <1> QED BY <1>3, <1>5, <1>6


-----------------------------------------------------------------------------
(* Linking *)

(* What the action properties say of one step. *)
KeepsConstants ==
  \A k \in DOMAIN const_cache :
    const_cache[k] # Unset => const_cache'[k] = const_cache[k]

BindsWhole ==
  \A x \in Site : Binds(x) /\ error'.type = "ok" =>
    /\ "class" \in Wants[x[2]] => classes'[x] = text'[x]
    /\ "const" \in Wants[x[2]] =>
         const_cache'[tl_constant_start'[x[1]] + Imported(x[2])]
           = const_cache'[tl_constant_start'[text'[x]] + Own]

LEMMA LinkEffect ==
  ASSUME NEW stack, NEW s, NEW has, NEW p, NEW q, Last(stack).prog = q,
         Link(stack, s, has, p)
  PROVE  /\ p_data_cached' = p_data_cached \/ SetFunctions(<<q, s>>, p)
         /\ classes' = classes \/ classes' = [classes EXCEPT ![<<q, s>>] = p]
         /\ \/ /\ Continue(stack) /\ error' = error
               /\ const_cache' = const_cache \/ CopyConstant(q, s, p)
               /\ "class" \in Wants[s] => classes' = [classes EXCEPT ![<<q, s>>] = p]
               /\ "const" \in Wants[s] => CopyConstant(q, s, p)
            \/ Fail(stack, "import", p) /\ const_cache' = const_cache
  <1>1. CASE /\ "fn" \in Wants[s] \ has
             /\ SetFunctions(<<q, s>>, p) \/ UNCHANGED p_data_cached
             /\ Fail(stack, "import", p)
             /\ UNCHANGED <<classes, const_cache>>
    BY <1>1
  <1>2. CASE /\ "fn" \notin Wants[s] \ has
             /\ IF "fn" \in Wants[s] THEN SetFunctions(<<q, s>>, p)
                ELSE UNCHANGED p_data_cached
             /\ IF "class" \in Wants[s] \cap has
                THEN classes' = [classes EXCEPT ![<<q, s>>] = p]
                ELSE UNCHANGED classes
             /\ IF Wants[s] \ has = {} /\ "const" \in Wants[s] THEN CopyConstant(q, s, p)
                ELSE UNCHANGED const_cache
             /\ IF Wants[s] \ has = {} THEN Continue(stack) /\ UNCHANGED error
                ELSE Fail(stack, "import", p)
    <2>1. p_data_cached' = p_data_cached \/ SetFunctions(<<q, s>>, p)
      BY <1>2
    <2>2. CASE Wants[s] \ has = {}
      <3>1. "class" \in Wants[s] => "class" \in Wants[s] \cap has
        BY <2>2
      <3> QED BY <1>2, <2>1, <2>2, <3>1
    <2>3. CASE Wants[s] \ has # {}
      BY <1>2, <2>1, <2>3
    <2> QED BY <2>2, <2>3
  <1> QED BY <1>1, <1>2 DEF Link

(* A statement's links are set to a module that has been loaded. *)
LEMMA LinksSet ==
  ASSUME TypeOK, Links, NEW x \in Site, NEW p \in Path,
         text' = text \/ text' = [text EXCEPT ![x] = p], text'[x] = p,
         text[x] \in {Null, p},
         loaded_modules_map'[p] # Null, get_module(p)' = Heap(p),
         \A q \in Path \ {p} : loaded_modules_map[q] # Null =>
           loaded_modules_map'[q] = loaded_modules_map[q] /\ get_module(q)' = get_module(q),
         p_data_cached' = p_data_cached \/ SetFunctions(x, p),
         classes' = classes \/ classes' = [classes EXCEPT ![x] = p]
  PROVE  /\ Links'
         /\ text' \in [Site -> Path \cup {Null}]
         /\ p_data_cached' \in [Site -> Address \cup {Null}]
         /\ classes' \in [Site -> Path \cup {Null}]
  <1>1. /\ text \in [Site -> Path \cup {Null}]
        /\ p_data_cached \in [Site -> Address \cup {Null}]
        /\ classes \in [Site -> Path \cup {Null}]
    BY DEF TypeOK
  <1>2. /\ text' \in [Site -> Path \cup {Null}]
        /\ p_data_cached' \in [Site -> Address \cup {Null}]
        /\ classes' \in [Site -> Path \cup {Null}]
    BY <1>1, Names DEF SetFunctions
  <1>3. ASSUME NEW y \in Site
        PROVE  /\ p_data_cached'[y] # Null =>
                    /\ text'[y] \in Path /\ p_data_cached'[y] = Heap(text'[y])
                    /\ \A q \in Path : q = text'[y] =>
                         loaded_modules_map'[q] # Null /\ get_module(q)' = Heap(q)
               /\ classes'[y] # Null => classes'[y] = text'[y]
    <2>1. CASE y = x
      <3>1. p_data_cached'[y] \in {p_data_cached[y], Heap(p)} /\ classes'[y] \in {classes[y], p}
        BY <1>1, <2>1 DEF SetFunctions
      <3>2. p_data_cached[y] # Null => p_data_cached[y] = Heap(p)
        BY <2>1, Names DEF Links
      <3>3. classes[y] # Null => classes[y] = p
        BY <1>1, <2>1, Names DEF Links
      <3> QED BY <2>1, <3>1, <3>2, <3>3
    <2>2. CASE y # x
      <3>1. /\ text'[y] = text[y] /\ p_data_cached'[y] = p_data_cached[y]
            /\ classes'[y] = classes[y]
        BY <1>1, <2>2 DEF SetFunctions
      <3>2. ASSUME p_data_cached[y] # Null, NEW q \in Path, q = text[y]
            PROVE  loaded_modules_map'[q] # Null /\ get_module(q)' = Heap(q)
        <4>1. loaded_modules_map[q] # Null /\ get_module(q) = Heap(q)
          BY <3>2 DEF Links
        <4> QED BY <4>1
      <3> QED BY <3>1, <3>2 DEF Links
    <2> QED BY <2>1, <2>2
  <1>4. Links'
    BY <1>3 DEF Links, get_module, Heap
  <1> QED BY <1>2, <1>4


(* The statement s of the activation m, the importer, is about to be linked to p. *)
Linking(m, stack, s, p, q) ==
  /\ error.type = "ok" /\ Len(stack) = m /\ \A k \in 1 .. m : stack[k] = activations[k]
  /\ activations[m].body /\ activations[m].prog = q
  /\ activations[m].import # 0 => activations[m].import = s
  /\ \A k \in 1 .. m : activations[k].body => activations[k].prog # p
  /\ text' = text \/ text' = [text EXCEPT ![<<q, s>>] = p]
  /\ text'[<<q, s>>] = p /\ text[<<q, s>>] \in {Null, p} /\ Awaited(q, s)
  /\ exports' \in [Path -> SUBSET Name]
  /\ loaded_modules_map' \in [Path -> Nat \cup {Null}]
  /\ loaded_modules' \in Seq({Heap(r) : r \in Path} \cup {Null})
  /\ Slots' /\ loaded_modules_map'[p] # Null /\ get_module(p)' = Heap(p)
  /\ \A r \in Path \ {p} :
       loaded_modules_map'[r] = loaded_modules_map[r] /\ get_module(r)' = get_module(r)
  /\ tl_constant_start' = tl_constant_start

LEMMA LinkInv ==
  ASSUME ModulesInv, NEW m \in 1 .. Len(activations), NEW stack \in Seq(Activation),
         NEW s \in Statement, NEW p \in Path, NEW q \in Prog, NEW has,
         Linking(m, stack, s, p, q), Link(stack, s, has, p)
  PROVE  ModulesInv' /\ KeepsConstants /\ BindsWhole
  <1> USE DEF Linking
  <1> DEFINE x == <<q, s>>
             cell == tl_constant_start[q] + Imported(s)
  <1>1. /\ TypeOK /\ Slots /\ Frames /\ Links /\ Ranges /\ FreeCells
        /\ x \in Site /\ Len(activations) \in Nat
    BY Shape DEF ModulesInv, Site
  <1>2. /\ Last(stack).prog = q /\ stack # <<>> /\ stack[m] = activations[m]
    <2>1. m \in 1 .. m /\ Len(<<>>) = 0
      BY EmptySeq
    <2> QED BY <2>1 DEF Last
  <1>3. /\ p_data_cached' = p_data_cached \/ SetFunctions(x, p)
        /\ classes' = classes \/ classes' = [classes EXCEPT ![x] = p]
        /\ \/ /\ Continue(stack) /\ error' = error
              /\ const_cache' = const_cache \/ CopyConstant(q, s, p)
              /\ "class" \in Wants[s] => classes' = [classes EXCEPT ![x] = p]
              /\ "const" \in Wants[s] => CopyConstant(q, s, p)
           \/ Fail(stack, "import", p) /\ const_cache' = const_cache
    BY <1>2, LinkEffect
  <1>4. /\ Links' /\ text' \in [Site -> Path \cup {Null}]
        /\ p_data_cached' \in [Site -> Address \cup {Null}]
        /\ classes' \in [Site -> Path \cup {Null}]
    <2>1. /\ text' = text \/ text' = [text EXCEPT ![x] = p]
          /\ text'[x] = p /\ text[x] \in {Null, p}
          /\ p_data_cached' = p_data_cached \/ SetFunctions(x, p)
          /\ classes' = classes \/ classes' = [classes EXCEPT ![x] = p]
      BY <1>3
    <2>2. \A r \in Path \ {p} : loaded_modules_map[r] # Null =>
            loaded_modules_map'[r] = loaded_modules_map[r] /\ get_module(r)' = get_module(r)
      OBVIOUS
    <2> HIDE DEF x
    <2> QED BY <1>1, <2>1, <2>2, LinksSet
  <1>5. Owns(q)
    BY <1>1 DEF Frames
  <1>6. /\ tl_constant_start[q] \in Nat /\ tl_constant_start[p] \in Nat
        /\ tl_constant_start[q] + DataLen <= Len(const_cache)
        /\ tl_constant_start[p] + DataLen <= Len(const_cache)
        /\ Len(const_cache) \in Nat /\ DOMAIN const_cache = 1 .. Len(const_cache)
        /\ const_cache \in Seq({Unset, Plain} \cup FnValue)
    <2>1. p \in Prog
      BY DEF Prog
    <2>2. const_cache \in Seq({Unset, Plain} \cup FnValue)
      BY <1>1 DEF TypeOK
    <2>3. /\ Len(const_cache) \in Nat /\ DOMAIN const_cache = 1 .. Len(const_cache)
          /\ \A r \in Prog : tl_constant_start[r] \in Nat
      BY <1>1, Shape
    <2>4. \A r \in Prog : tl_constant_start[r] + DataLen <= Len(const_cache)
      BY <1>1 DEF Ranges
    <2> QED BY <2>1, <2>2, <2>3, <2>4
  <1>7. cell \in DOMAIN const_cache /\ tl_constant_start[p] + Own \in DOMAIN const_cache
    <2>1. /\ DataLen \in Nat /\ Imported(s) \in 1 .. DataLen /\ Own \in 1 .. DataLen
      BY Statements DEF Own
    <2> QED BY <1>6, <2>1, CellInRange
  <1>8. /\ const_cache' \in Seq({Unset, Plain} \cup FnValue)
        /\ Len(const_cache') = Len(const_cache)
        /\ \A k \in DOMAIN const_cache : k # cell => const_cache'[k] = const_cache[k]
        /\ CopyConstant(q, s, p) => const_cache'[cell] = const_cache[tl_constant_start[p] + Own]
    <2>1. const_cache' = const_cache \/ CopyConstant(q, s, p)
      BY <1>3
    <2>2. const_cache[tl_constant_start[p] + Own] \in {Unset, Plain} \cup FnValue
      BY <1>6, <1>7, ElementOfSeq
    <2>3. CASE CopyConstant(q, s, p)
      <3>1. const_cache' =
              [const_cache EXCEPT ![cell] = const_cache[tl_constant_start[p] + Own]]
        BY <2>3 DEF CopyConstant, ConstantOf
      <3> HIDE DEF cell
      <3> QED BY <1>6, <1>7, <2>2, <3>1, ExceptSeq
    <2> QED BY <1>6, <2>1, <2>3
  <1>9. KeepsConstants
    <2>1. const_cache[cell] = Unset
      BY <1>1, <1>5 DEF FreeCells
    <2> QED BY <1>8, <2>1 DEF KeepsConstants
  <1>10. ASSUME error'.type = "ok"
         PROVE  Continue(stack) /\ error' = error
    BY <1>3, <1>10 DEF Fail
  <1>11. BindsWhole
    <2> SUFFICES ASSUME NEW y \in Site, Binds(y), error'.type = "ok"
                 PROVE  /\ "class" \in Wants[y[2]] => classes'[y] = text'[y]
                        /\ "const" \in Wants[y[2]] =>
                             const_cache'[tl_constant_start'[y[1]] + Imported(y[2])]
                               = const_cache'[tl_constant_start'[text'[y]] + Own]
      BY DEF BindsWhole
    <2>1. y = x
      BY <1>1, <1>3 DEF Binds, SetFunctions, TypeOK
    <2>2. /\ "class" \in Wants[s] => classes' = [classes EXCEPT ![x] = p]
          /\ "const" \in Wants[s] => CopyConstant(q, s, p)
      BY <1>3 DEF Fail
    <2>3. y[1] = q /\ y[2] = s
      BY <2>1
    <2>4. "class" \in Wants[s] => classes'[x] = p
      BY <1>1, <2>2 DEF TypeOK
    <2>5. "const" \in Wants[s] =>
            const_cache'[cell] = const_cache'[tl_constant_start[p] + Own]
      <3>1. CASE tl_constant_start[p] + Own = cell
        BY <3>1
      <3>2. CASE tl_constant_start[p] + Own # cell
        BY <1>7, <1>8, <2>2, <3>2
      <3> QED BY <3>1, <3>2
    <2> QED BY <2>1, <2>3, <2>4, <2>5
  <1>12. /\ activations' \in Seq(Activation)
         /\ error' \in [type : ErrorType, path : Path \cup {Null}]
         /\ Len(activations') \in {m - 1, m}
         /\ \A k \in 1 .. Len(activations') :
              /\ activations'[k].prog = activations[k].prog
              /\ activations'[k].body = activations[k].body
              /\ activations'[k].import # 0 => activations'[k] = activations[k]
              /\ k < Len(activations') => activations'[k] = activations[k]
         /\ Len(activations') = m => activations'[m].import = 0
         /\ Len(activations') = m - 1 => error'.type # "ok"
    <2>1. CASE Continue(stack) /\ error' = error
      <3> DEFINE a == activations[m]
                 b == [a EXCEPT !.import = 0, !.slot = 0]
      <3>1. a \in Activation /\ b \in Activation
            /\ b.prog = a.prog /\ b.body = a.body /\ b.import = 0
        <4>1. a \in Activation
          BY <1>1, Shape
        <4>2. b \in Activation
          BY <4>1 DEF Activation
        <4> QED BY <4>1, <4>2 DEF Activation
      <3>2. activations' = [stack EXCEPT ![m] = b]
        <4>1. activations' = [stack EXCEPT ![m].import = 0, ![m].slot = 0]
          BY <2>1 DEF Continue
        <4>2. stack \in [1 .. m -> Activation] /\ stack[m] = a
          BY <1>2, LenProperties
        <4> QED BY <4>1, <4>2
      <3> HIDE DEF a, b
      <3>3. /\ activations' \in Seq(Activation) /\ Len(activations') = m
            /\ \A k \in 1 .. m : activations'[k] = IF k = m THEN b ELSE stack[k]
        BY <3>1, <3>2, ExceptSeq
      <3>4. /\ activations'[m] = b
            /\ \A k \in 1 .. m : k # m => activations'[k] = activations[k]
        BY <3>3
      <3>5. error' \in [type : ErrorType, path : Path \cup {Null}]
        BY <1>1, <2>1 DEF TypeOK
      <3>6. a = activations[m]
        BY DEF a
      <3>7. \A k \in 1 .. m :
              /\ activations'[k].prog = activations[k].prog
              /\ activations'[k].body = activations[k].body
              /\ activations'[k].import # 0 => activations'[k] = activations[k]
              /\ k < m => activations'[k] = activations[k]
        BY <3>1, <3>4, <3>6
      <3>8. m \in Nat /\ m # m - 1
        BY <1>1
      <3> QED BY ONLY <3>1, <3>3, <3>4, <3>5, <3>7, <3>8
    <2>2. CASE Fail(stack, "import", p)
      <3>1. activations' = Front(stack) /\ error' = [type |-> "import", path |-> p]
        BY <2>2 DEF Fail
      <3>2. /\ Front(stack) \in Seq(Activation) /\ Len(Front(stack)) = m - 1
            /\ \A k \in 1 .. m - 1 : Front(stack)[k] = stack[k]
        <4>1. stack \in Seq(Activation)
          OBVIOUS
        <4>2. stack # <<>>
          BY <1>2
        <4>3. Front(stack) \in Seq(Activation)
          BY ONLY <4>1, <4>2, FrontOf
        <4>4. Len(Front(stack)) = Len(stack) - 1
          BY ONLY <4>1, <4>2, FrontOf
        <4>5. \A k \in 1 .. Len(stack) - 1 : Front(stack)[k] = stack[k]
          BY ONLY <4>1, <4>2, FrontOf
        <4> QED BY <4>3, <4>4, <4>5
      <3>3. error' \in [type : ErrorType, path : Path \cup {Null}] /\ error'.type # "ok"
        BY <3>1 DEF ErrorType
      <3>4. \A k \in 1 .. m - 1 : activations'[k] = activations[k]
        BY <3>1, <3>2
      <3> QED BY <3>1, <3>2, <3>3, <3>4
    <2> QED BY <1>3, <2>1, <2>2
  <1>13. TypeOK'
    <2>1. Len(activations') <= MaxCalls
      <3>1. Len(activations) <= MaxCalls /\ MaxCalls \in Nat
        BY <1>1, ModulesAssumption DEF TypeOK
      <3> QED BY <1>1, <1>12, <3>1
    <2>2. tl_constant_start' \in [Prog -> Nat]
      BY <1>1 DEF TypeOK
    <2> QED BY <1>4, <1>8, <1>12, <2>1, <2>2 DEF TypeOK
  <1>14. Frames'
    <2>1. PICK j \in 0 .. Len(activations) : j = Len(activations') /\ j \in {m - 1, m}
      BY <1>1, <1>12
    <2>2. \A k \in 1 .. j :
            /\ activations'[k].prog = activations[k].prog
            /\ activations'[k].body = activations[k].body
            /\ activations'[k].import # 0 => activations'[k] = activations[k]
            /\ k < j => activations'[k] = activations[k]
            /\ activations[k].body => activations[k].prog # p
      BY <1>12, <2>1
    <2>3. ASSUME j > 0, activations'[j].import # 0
          PROVE  /\ error'.type # "ok"
                 /\ text[<<activations[j].prog, activations[j].import>>] # p
      <3>1. j = m - 1 /\ j \in 1 .. Len(activations) /\ j < Len(activations)
        BY <1>1, <1>12, <2>1, <2>3
      <3>2. activations[j].import # 0
        BY <2>2, <2>3, <3>1
      <3>3. Importing(j)
        BY <1>1, <3>1, <3>2 DEF Frames
      <3>4. text[<<activations[j].prog, activations[j].import>>] = activations[m].prog
        BY <3>1, <3>3 DEF Importing
      <3> QED BY <1>12, <2>1, <3>1, <3>4
    <2>4. \A y \in Site : text[y] # Null => text'[y] = text[y]
      BY <1>1 DEF TypeOK
    <2>5. \A r \in Prog : Owns(r) => Owns(r)'
      BY DEF Owns
    <2>6. \A r \in Path \ {p} : Reserved(r) =>
            Reserved(r)' /\ loaded_modules_map'[r] = loaded_modules_map[r]
      BY DEF Reserved
    <2>7. Len(activations') = j /\ TypeOK /\ Frames /\ p \in Path \cup {Null}
      BY <1>1, <2>1
    <2> QED BY ONLY <2>2, <2>3, <2>4, <2>5, <2>6, <2>7, FramesBelow
  <1>15. Ranges'
    BY <1>1, <1>8 DEF Ranges, Owns
  <1>16. FreeCells'
    <2>1. ASSUME NEW y \in Site, Awaited(y[1], y[2])'
          PROVE  Awaited(y[1], y[2]) /\ y \notin {x}
      <3>1. y = <<y[1], y[2]>> /\ y[2] # 0
        BY Statements DEF Site
      <3>2. CASE text'[y] = Null
        <4>1. text[y] = Null /\ y # x
          BY <1>1, <3>2, Names DEF TypeOK
        <4> QED BY <3>1, <4>1 DEF Awaited
      <3>3. ASSUME NEW k \in 1 .. Len(activations'), activations'[k].body,
                   activations'[k].prog = y[1], activations'[k].import = y[2]
            PROVE  Awaited(y[1], y[2]) /\ y # x
        <4>1. k \in 1 .. Len(activations) /\ activations[k] = activations'[k]
          BY <1>1, <1>12, <3>1, <3>3
        <4>2. ASSUME y = x PROVE FALSE
          <5>1. k = m
            <6>1. activations[k].body /\ activations[k].prog = activations[m].prog
              BY <3>3, <4>1, <4>2
            <6> QED BY <1>1, <4>1, <6>1 DEF Frames
          <5> QED BY <1>12, <3>1, <3>3, <5>1
        <4> QED BY <3>3, <4>1, <4>2 DEF Awaited
      <3> QED BY <2>1, <3>1, <3>2, <3>3 DEF Awaited
    <2>2. Imported(s) \in 1 .. DataLen /\ <<q, s>> \in {x} /\ {x} \in SUBSET Site
      BY <1>1, Statements
    <2>3. TypeOK /\ FreeCells /\ Ranges /\ Owns(q) /\ s \in Statement /\ q \in Prog
          /\ tl_constant_start' = tl_constant_start
      BY <1>1, <1>5
    <2>4. \A k \in DOMAIN const_cache : k # tl_constant_start[q] + Imported(s) =>
            const_cache'[k] = const_cache[k]
      BY <1>8
    <2> QED BY ONLY <2>1, <2>2, <2>3, <2>4, CellsKept
  <1> QED BY <1>4, <1>9, <1>11, <1>13, <1>14, <1>15, <1>16 DEF ModulesInv


-----------------------------------------------------------------------------
(* The steps *)

LEMMA RunningTop ==
  ASSUME ModulesInv, Running
  PROVE  /\ error.type = "ok"
         /\ Len(activations) \in Nat \ {0} /\ Len(activations) \in 1 .. Len(activations)
         /\ top = activations[Len(activations)] /\ top \in Activation
         /\ top.prog \in Prog /\ top.p_data \in Address /\ top.import = 0
         /\ top.body => Owns(top.prog)
  <1>1. activations # <<>> /\ error.type = "ok" /\ activations \in Seq(Activation) /\ TypeOK
    BY DEF Running, ModulesInv, TypeOK
  <1>2. Len(activations) \in Nat \ {0} /\ top \in Activation
    BY ONLY <1>1, FrontOf DEF top
  <1>3. Len(activations) \in 1 .. Len(activations) /\ top = activations[Len(activations)]
    BY <1>2 DEF top, Last
  <1>4. top.import # 0 => Importing(Len(activations))
    BY <1>3 DEF ModulesInv, Frames
  <1>5. top.import = 0
    BY <1>1, <1>2, <1>4 DEF Importing
  <1>6. top.body => Owns(top.prog)
    BY <1>3 DEF ModulesInv, Frames
  <1> QED BY <1>1, <1>2, <1>3, <1>5, <1>6 DEF Activation

(* Nothing happens to the tables. *)
LEMMA TablesKept ==
  ASSUME ModulesInv, UNCHANGED tables
  PROVE  /\ Slots'
         /\ loaded_modules_map' \in [Path -> Nat \cup {Null}]
         /\ loaded_modules' \in Seq({Heap(r) : r \in Path} \cup {Null})
         /\ \A r \in Path : /\ loaded_modules_map'[r] = loaded_modules_map[r]
                            /\ get_module(r)' = get_module(r) /\ Reserved(r)' = Reserved(r)
  <1>1. loaded_modules_map' = loaded_modules_map /\ loaded_modules' = loaded_modules
    BY DEF tables
  <1>2. \A r : get_module(r)' = get_module(r)
    BY <1>1 DEF get_module
  <1>3. Slots'
    BY <1>1, <1>2 DEF ModulesInv, Slots
  <1> QED BY <1>1, <1>2, <1>3 DEF ModulesInv, TypeOK, Reserved

LEMMA ImportLoadedInv ==
  ASSUME ModulesInv, NEW s \in Statement, NEW p \in Path, ImportLoaded(s, p)
  PROVE  ModulesInv' /\ KeepsConstants /\ BindsWhole
  <1> DEFINE m == Len(activations)
  <1>1. /\ Running /\ top.body /\ text[<<top.prog, s>>] = Null
        /\ text' = [text EXCEPT ![<<top.prog, s>>] = p]
        /\ get_module(p) # Null /\ UNCHANGED tables
        /\ Link(activations, s, exports[p], p)
        /\ exports' = exports /\ tl_constant_start' = tl_constant_start
    BY DEF ImportLoaded, Reads
  <1>2. /\ error.type = "ok" /\ m \in 1 .. m /\ top = activations[m]
        /\ top.prog \in Prog /\ top.import = 0
    BY <1>1, RunningTop
  <1>3. PICK q \in Prog : q = top.prog
    BY <1>2
  <1>4. loaded_modules_map[p] # Null /\ get_module(p) = Heap(p)
    BY <1>1 DEF get_module, ModulesInv, Slots
  <1>5. \A k \in 1 .. m : activations[k].body => activations[k].prog # p
    <2>1. ASSUME NEW k \in 1 .. m, activations[k].body, activations[k].prog = p
          PROVE  FALSE
      <3>1. k # 1
        BY <2>1, Names DEF ModulesInv, Frames
      <3>2. Reserved(p)
        BY <2>1, <3>1 DEF ModulesInv, Frames
      <3> QED BY <1>1, <3>2 DEF Reserved
    <2> QED BY <2>1
  <1>6. /\ Slots'
        /\ loaded_modules_map' \in [Path -> Nat \cup {Null}]
        /\ loaded_modules' \in Seq({Heap(r) : r \in Path} \cup {Null})
        /\ \A r \in Path : /\ loaded_modules_map'[r] = loaded_modules_map[r]
                           /\ get_module(r)' = get_module(r)
    BY <1>1, TablesKept
  <1>7. loaded_modules_map'[p] # Null /\ get_module(p)' = Heap(p)
    BY <1>4, <1>6
  <1>8. /\ activations \in Seq(Activation) /\ exports' \in [Path -> SUBSET Name]
        /\ text \in [Site -> Path \cup {Null}]
    BY <1>1 DEF ModulesInv, TypeOK
  <1>9. /\ text' = [text EXCEPT ![<<q, s>>] = p] /\ text'[<<q, s>>] = p
        /\ text[<<q, s>>] \in {Null, p} /\ Awaited(q, s)
    BY <1>1, <1>3, <1>8 DEF Awaited, Site
  <1>10. /\ activations[m].body /\ activations[m].prog = q
         /\ activations[m].import # 0 => activations[m].import = s
    BY <1>1, <1>2, <1>3
  <1>11. Linking(m, activations, s, p, q)
    BY ONLY <1>1, <1>2, <1>5, <1>6, <1>7, <1>8, <1>9, <1>10, m = Len(activations) DEF Linking
  <1> QED BY ONLY ModulesInv, <1>1, <1>2, <1>3, <1>8, <1>11, m = Len(activations),
                  s \in Statement, p \in Path, LinkInv


(* A path without a slot is not one whose top level runs. *)
LEMMA UnreservedIdle ==
  ASSUME ModulesInv, NEW p \in Path, ~Reserved(p)
  PROVE  \A k \in 1 .. Len(activations) :
           activations[k].body => activations[k].prog # p
  <1> SUFFICES ASSUME NEW k \in 1 .. Len(activations),
                      activations[k].body, activations[k].prog = p
               PROVE  FALSE
    OBVIOUS
  <1>1. k # 1
    BY Names DEF ModulesInv, Frames
  <1>2. k > 1
    BY <1>1, Shape DEF ModulesInv
  <1> QED BY <1>2 DEF ModulesInv, Frames

LEMMA ImportLibraryInv ==
  ASSUME ModulesInv, NEW s \in Statement, NEW p \in Path, NEW has \in Exports,
         ImportLibrary(s, p, has)
  PROVE  ModulesInv' /\ KeepsConstants /\ BindsWhole
  <1> DEFINE m == Len(activations)
  <1>1. /\ Running /\ top.body /\ text[<<top.prog, s>>] = Null
        /\ text' = [text EXCEPT ![<<top.prog, s>>] = p]
        /\ Reserve(p, Heap(p)) /\ exports' = [exports EXCEPT ![p] = has]
        /\ Link(activations, s, has, p)
        /\ tl_constant_start' = tl_constant_start
    BY DEF ImportLibrary, Reads
  <1>2. /\ error.type = "ok" /\ m \in 1 .. m /\ top = activations[m]
        /\ top.prog \in Prog /\ top.import = 0
    BY <1>1, RunningTop
  <1>3. PICK q \in Prog : q = top.prog
    BY <1>2
  <1>4. /\ Slots' /\ loaded_modules_map[p] = Null
        /\ loaded_modules_map' \in [Path -> Nat \cup {Null}]
        /\ loaded_modules' \in Seq({Heap(r) : r \in Path} \cup {Null})
        /\ loaded_modules_map'[p] # Null /\ get_module(p)' = Heap(p)
        /\ \A r \in Path \ {p} : /\ loaded_modules_map'[r] = loaded_modules_map[r]
                                 /\ get_module(r)' = get_module(r)
    <2>1. TypeOK /\ Slots /\ Heap(p) \in {Null, Heap(p)}
      BY DEF ModulesInv
    <2> QED BY <1>1, <2>1, ReserveSlot
  <1>5. \A k \in 1 .. m : activations[k].body => activations[k].prog # p
    BY <1>4, UnreservedIdle DEF Reserved
  <1>6. /\ activations \in Seq(Activation) /\ exports' \in [Path -> SUBSET Name]
        /\ text \in [Site -> Path \cup {Null}]
    BY <1>1, ModulesAssumption DEF ModulesInv, TypeOK
  <1>7. /\ text' = [text EXCEPT ![<<q, s>>] = p] /\ text'[<<q, s>>] = p
        /\ text[<<q, s>>] \in {Null, p} /\ Awaited(q, s)
    BY <1>1, <1>3, <1>6 DEF Awaited, Site
  <1>8. /\ activations[m].body /\ activations[m].prog = q
        /\ activations[m].import # 0 => activations[m].import = s
    BY <1>1, <1>2, <1>3
  <1>9. Linking(m, activations, s, p, q)
    BY ONLY <1>1, <1>2, <1>4, <1>5, <1>6, <1>7, <1>8, m = Len(activations) DEF Linking
  <1> QED BY ONLY ModulesInv, <1>1, <1>2, <1>3, <1>6, <1>9, m = Len(activations),
                  s \in Statement, p \in Path, LinkInv

(* The top level that ends is the module its importer waits for. *)
LEMMA BodyEndsInv ==
  ASSUME ModulesInv, BodyEnds
  PROVE  ModulesInv' /\ KeepsConstants /\ BindsWhole
  <1> DEFINE n == Len(activations)
             rest == Front(activations)
             importer == Last(rest)
  <1>1. /\ Running /\ top.body /\ rest # <<>>
        /\ AddModule(importer.slot, top.prog)
        /\ Link(rest, importer.import, exports[top.prog], top.prog)
        /\ UNCHANGED <<text, exports, loaded_modules_map, tl_constant_start>>
    BY DEF BodyEnds
  <1>2. /\ error.type = "ok" /\ n \in Nat \ {0} /\ n \in 1 .. n /\ top = activations[n]
        /\ top.prog \in Prog
    BY <1>1, RunningTop
  <1>3. /\ rest \in Seq(Activation) /\ Len(rest) = n - 1 /\ n > 1
        /\ \A k \in 1 .. n - 1 : rest[k] = activations[k]
    <2>1. activations \in Seq(Activation) /\ activations # <<>>
      BY <1>1 DEF Running, ModulesInv, TypeOK
    <2>2. /\ rest \in Seq(Activation) /\ Len(rest) = n - 1
          /\ \A k \in 1 .. n - 1 : rest[k] = activations[k]
      BY ONLY <2>1, FrontOf
    <2>3. Len(rest) \in Nat \ {0}
      BY ONLY <1>1, <2>2, FrontOf
    <2> QED BY <1>2, <2>2, <2>3
  <1>4. PICK m \in 1 .. n : m = n - 1 /\ m < n
    BY <1>2, <1>3
  <1>5. importer = activations[m]
    BY <1>3, <1>4 DEF Last
  <1>6. PICK p \in Path : p = top.prog /\ Reserved(p) /\ importer.import # 0
    BY <1>1, <1>2, <1>3, <1>4, <1>5 DEF ModulesInv, Frames
  <1>7. Importing(m)
    BY <1>4, <1>5, <1>6 DEF ModulesInv, Frames
  <1>8. /\ importer \in Activation /\ importer.prog \in Prog /\ importer.import \in Statement
        /\ importer.body
        /\ text[<<importer.prog, importer.import>>] = p
        /\ importer.slot = loaded_modules_map[p] + 1
    <2>1. importer \in Activation /\ importer.import \in Statement \cup {0}
            /\ importer.prog \in Prog
      BY <1>4, <1>5, Shape DEF ModulesInv
    <2>2. /\ importer.body /\ activations[m + 1].prog = text[<<importer.prog, importer.import>>]
          /\ importer.slot = loaded_modules_map[text[<<importer.prog, importer.import>>]] + 1
      BY <1>4, <1>5, <1>7 DEF Importing
    <2>3. m + 1 = n
      BY <1>2, <1>4
    <2> QED BY <1>2, <1>6, <2>1, <2>2, <2>3
  <1>9. PICK q \in Prog, s \in Statement : q = importer.prog /\ s = importer.import
    BY <1>8
  <1>10. /\ Slots' /\ get_module(p)' = Heap(p)
         /\ loaded_modules' \in Seq({Heap(r) : r \in Path} \cup {Null})
         /\ loaded_modules_map' = loaded_modules_map /\ loaded_modules_map'[p] # Null
         /\ loaded_modules_map' \in [Path -> Nat \cup {Null}]
         /\ \A r \in Path \ {p} : /\ loaded_modules_map'[r] = loaded_modules_map[r]
                                  /\ get_module(r)' = get_module(r)
    <2>1. TypeOK /\ Slots /\ AddModule(loaded_modules_map[p] + 1, p)
      BY <1>1, <1>6, <1>8 DEF ModulesInv
    <2>2. loaded_modules_map' = loaded_modules_map
      BY <1>1
    <2>3. /\ Slots' /\ get_module(p)' = Heap(p)
          /\ loaded_modules' \in Seq({Heap(r) : r \in Path} \cup {Null})
          /\ \A r \in Path \ {p} : get_module(r)' = get_module(r)
      BY ONLY <1>6, <2>1, <2>2, FillSlot
    <2> QED BY <1>6, <2>1, <2>2, <2>3 DEF Reserved, TypeOK
  <1>11. \A k \in 1 .. m : activations[k].body => activations[k].prog # p
    BY <1>1, <1>2, <1>4, <1>6 DEF ModulesInv, Frames
  <1>12. /\ text' = text /\ exports' \in [Path -> SUBSET Name]
         /\ tl_constant_start' = tl_constant_start
    BY <1>1 DEF ModulesInv, TypeOK
  <1>13. text'[<<q, s>>] = p /\ text[<<q, s>>] \in {Null, p}
    BY <1>8, <1>9, <1>12
  <1>14. Awaited(q, s)
    BY <1>4, <1>5, <1>8, <1>9 DEF Awaited
  <1>15. Link(rest, s, exports[p], p)
    BY <1>1, <1>6, <1>9
  <1>16. /\ activations[m].body /\ activations[m].prog = q
         /\ activations[m].import # 0 => activations[m].import = s
         /\ Len(rest) = m /\ \A k \in 1 .. m : rest[k] = activations[k]
    BY <1>3, <1>4, <1>5, <1>8, <1>9
  <1> HIDE DEF rest, importer
  <1>17. Linking(m, rest, s, p, q)
    BY ONLY <1>2, <1>3, <1>10, <1>11, <1>12, <1>13, <1>14, <1>16 DEF Linking
  <1> QED BY ONLY ModulesInv, <1>2, <1>3, <1>4, <1>5, <1>15, <1>16, <1>17, LinkInv


(* Nothing is linked: what has been linked stays where it is. *)
LEMMA LinksKept ==
  ASSUME Links, UNCHANGED links,
         \A x \in Site : text[x] # Null => text'[x] = text[x],
         \A r \in Path : loaded_modules_map[r] # Null =>
           loaded_modules_map'[r] = loaded_modules_map[r] /\ get_module(r)' = get_module(r)
  PROVE  Links' /\ BindsWhole
  <1>1. p_data_cached' = p_data_cached /\ classes' = classes
    BY DEF links
  <1>2. ASSUME NEW y \in Site
        PROVE  /\ p_data_cached[y] # Null =>
                    /\ text'[y] \in Path /\ p_data_cached[y] = Heap(text'[y])
                    /\ \A r \in Path : r = text'[y] =>
                         loaded_modules_map'[r] # Null /\ get_module(r)' = Heap(r)
               /\ classes[y] # Null => classes[y] = text'[y]
    <2>1. ASSUME p_data_cached[y] # Null
          PROVE  /\ text'[y] \in Path /\ p_data_cached[y] = Heap(text'[y])
                 /\ \A r \in Path : r = text'[y] =>
                      loaded_modules_map'[r] # Null /\ get_module(r)' = Heap(r)
      <3>1. PICK r \in Path : r = text[y]
        BY <2>1 DEF Links
      <3>2. /\ loaded_modules_map[r] # Null /\ get_module(r) = Heap(r)
            /\ p_data_cached[y] = Heap(r)
        BY <2>1, <3>1 DEF Links
      <3>3. text'[y] = r
        BY <3>1, Names
      <3> QED BY <3>2, <3>3
    <2>2. ASSUME classes[y] # Null PROVE classes[y] = text'[y]
      BY <2>2 DEF Links
    <2> QED BY <2>1, <2>2
  <1>3. Links'
    BY <1>1, <1>2 DEF Links, get_module, Heap
  <1>4. BindsWhole
    BY <1>1 DEF BindsWhole, Binds
  <1> QED BY <1>3, <1>4


(* The running activation goes on or returns, at most a slot is reserved. *)
LEMMA StackKept ==
  ASSUME ModulesInv, activations # <<>>, UNCHANGED <<exports, links, consts>>,
         activations' = activations \/ activations' = Front(activations),
         error' \in [type : ErrorType, path : Path \cup {Null}],
         Len(activations') > 0 /\ activations'[Len(activations')].import # 0 =>
           error'.type # "ok",
         text' \in [Site -> Path \cup {Null}],
         \A x \in Site : text[x] # Null => text'[x] = text[x],
         NEW gone \in Path \cup {Null}, gone # Null => loaded_modules_map[gone] = Null,
         Slots',
         loaded_modules_map' \in [Path -> Nat \cup {Null}],
         loaded_modules' \in Seq({Heap(r) : r \in Path} \cup {Null}),
         \A r \in Path \ {gone} :
           loaded_modules_map'[r] = loaded_modules_map[r] /\ get_module(r)' = get_module(r)
  PROVE  ModulesInv' /\ KeepsConstants /\ BindsWhole
  <1> DEFINE n == Len(activations)
  <1>1. /\ TypeOK /\ Slots /\ Frames /\ Links /\ Ranges /\ FreeCells
        /\ activations \in Seq(Activation) /\ n <= MaxCalls /\ MaxCalls \in Nat
    BY ModulesAssumption DEF ModulesInv, TypeOK
  <1>2. /\ n \in Nat \ {0}
        /\ Front(activations) \in Seq(Activation) /\ Len(Front(activations)) = n - 1
        /\ \A k \in 1 .. n - 1 : Front(activations)[k] = activations[k]
    BY ONLY <1>1, activations # <<>>, FrontOf
  <1>3. PICK m \in 0 .. n :
          /\ m = Len(activations')
          /\ \A k \in 1 .. m : activations'[k] = activations[k]
    <2>1. CASE activations' = activations
      BY <1>2, <2>1
    <2>2. CASE activations' = Front(activations)
      <3>1. n - 1 \in 0 .. n
        BY <1>2
      <3> QED BY <1>2, <2>2, <3>1
    <2> QED BY <2>1, <2>2
  <1>4. /\ exports' = exports /\ p_data_cached' = p_data_cached /\ classes' = classes
        /\ tl_constant_start' = tl_constant_start /\ const_cache' = const_cache
    BY DEF links, consts
  <1>5. TypeOK'
    <2>1. activations' \in Seq(Activation) /\ Len(activations') <= MaxCalls
      BY <1>1, <1>2
    <2> QED BY <1>1, <1>4, <2>1 DEF TypeOK
  <1>6. \A r \in Path : loaded_modules_map[r] # Null =>
          loaded_modules_map'[r] = loaded_modules_map[r] /\ get_module(r)' = get_module(r)
    BY Names
  <1>7. Links' /\ BindsWhole
    BY <1>1, <1>6, LinksKept
  <1>8. Frames'
    <2>1. \A k \in 1 .. n : activations[k].body => activations[k].prog # gone
      <3>1. CASE gone = Null
        BY <1>1, <3>1, Names, Shape
      <3>2. CASE gone # Null
        <4>1. gone \in Path /\ ~Reserved(gone)
          BY <3>2 DEF Reserved
        <4> QED BY <4>1, UnreservedIdle
      <3> QED BY <3>1, <3>2
    <2>2. ASSUME m > 0, activations'[m].import # 0
          PROVE  /\ error'.type # "ok"
                 /\ text[<<activations[m].prog, activations[m].import>>] # gone
      <3>1. m \in 1 .. n /\ m \in 1 .. m
        BY <1>2, <1>3, <2>2
      <3>2. activations[m].import # 0
        BY <1>3, <2>2, <3>1
      <3>3. Importing(m)
        BY <1>1, <3>1, <3>2 DEF Frames
      <3>4. text[<<activations[m].prog, activations[m].import>>] # gone
        BY <3>3, Names DEF Importing, Reserved
      <3> QED BY <1>3, <2>2, <3>4
    <2>3. \A k \in 1 .. m :
            /\ activations'[k].prog = activations[k].prog
            /\ activations'[k].body = activations[k].body
            /\ activations'[k].import # 0 => activations'[k] = activations[k]
            /\ k < m => activations'[k] = activations[k]
            /\ activations[k].body => activations[k].prog # gone
      BY <1>2, <1>3, <2>1
    <2>4. \A r \in Prog : Owns(r) => Owns(r)'
      BY <1>4 DEF Owns
    <2>5. \A r \in Path \ {gone} : Reserved(r) =>
            Reserved(r)' /\ loaded_modules_map'[r] = loaded_modules_map[r]
      BY DEF Reserved
    <2>6. /\ TypeOK /\ Frames /\ Len(activations') = m
          /\ \A x \in Site : text[x] # Null => text'[x] = text[x]
      BY <1>1, <1>3
    <2> QED BY ONLY <1>3, <2>2, <2>3, <2>4, <2>5, <2>6, gone \in Path \cup {Null}, FramesBelow
  <1>9. Ranges'
    BY <1>1, <1>4 DEF Ranges, Owns
  <1>10. FreeCells'
    <2>1. ASSUME NEW r \in Prog, NEW s \in Statement, Awaited(r, s)'
          PROVE  Awaited(r, s)
      <3>1. text'[<<r, s>>] = Null => text[<<r, s>>] = Null
        BY <1>1 DEF TypeOK, Site
      <3>2. \A k \in 1 .. m : k \in 1 .. n /\ activations'[k] = activations[k]
        BY <1>2, <1>3
      <3> QED BY <1>3, <2>1, <3>1, <3>2 DEF Awaited
    <2> QED BY <1>1, <1>4, <2>1 DEF FreeCells, Owns
  <1>11. KeepsConstants
    BY <1>4 DEF KeepsConstants
  <1> QED BY <1>5, <1>7, <1>8, <1>9, <1>10, <1>11 DEF ModulesInv


LEMMA Unwinds ==
  ASSUME ModulesInv, activations # <<>>, UNCHANGED <<text, exports, tables, links, consts>>,
         activations' = activations \/ activations' = Front(activations),
         error' \in [type : ErrorType, path : Path \cup {Null}],
         Len(activations') > 0 /\ activations'[Len(activations')].import # 0 =>
           error'.type # "ok"
  PROVE  ModulesInv' /\ KeepsConstants /\ BindsWhole
  <1>1. /\ Slots'
        /\ loaded_modules_map' \in [Path -> Nat \cup {Null}]
        /\ loaded_modules' \in Seq({Heap(r) : r \in Path} \cup {Null})
        /\ \A r \in Path : loaded_modules_map'[r] = loaded_modules_map[r]
                           /\ get_module(r)' = get_module(r)
    BY TablesKept
  <1>2. /\ text' = text /\ text \in [Site -> Path \cup {Null}]
        /\ UNCHANGED <<exports, links, consts>>
    BY DEF ModulesInv, TypeOK
  <1>3. Null \in Path \cup {Null} /\ (Null # Null => loaded_modules_map[Null] = Null)
    OBVIOUS
  <1> QED BY <1>1, <1>2, <1>3, StackKept

LEMMA UnwindingInv ==
  ASSUME ModulesInv,
         ImportUnresolved \/ RaiseStatement \/ Propagate \/ Return \/ MainEnds \/ Catch
  PROVE  ModulesInv' /\ KeepsConstants /\ BindsWhole
  <1> DEFINE n == Len(activations)
             NoImport == Len(activations') > 0
                           => activations'[Len(activations')].import = 0
  <1>1. /\ UNCHANGED <<text, exports, tables, links, consts>> /\ activations # <<>>
        /\ activations' = activations \/ activations' = Front(activations)
        /\ error' \in [type : ErrorType, path : Path \cup {Null}]
        /\ error'.type # "ok" \/ NoImport
    <2>1. error \in [type : ErrorType, path : Path \cup {Null}]
          /\ activations \in Seq(Activation)
      BY DEF ModulesInv, TypeOK
    <2>2. ASSUME NEW type \in {"import", "raised"}, Fail(activations, type, Null)
          PROVE  /\ activations' = Front(activations) /\ error'.type # "ok"
                 /\ error' \in [type : ErrorType, path : Path \cup {Null}]
      BY <2>2 DEF Fail, ErrorType
    <2>3. ASSUME activations # <<>>
          PROVE  /\ n \in Nat \ {0} /\ Len(Front(activations)) = n - 1
                 /\ \A k \in 1 .. n - 1 : Front(activations)[k] = activations[k]
                 /\ top = activations[n]
      <3>1. /\ n \in Nat \ {0} /\ Len(Front(activations)) = n - 1
            /\ \A k \in 1 .. n - 1 : Front(activations)[k] = activations[k]
        BY ONLY <2>1, <2>3, FrontOf
      <3> QED BY <3>1 DEF top, Last
    <2>4. CASE ImportUnresolved
      BY <2>2, <2>4 DEF ImportUnresolved, Running
    <2>5. CASE RaiseStatement
      BY <2>2, <2>5 DEF RaiseStatement, Running
    <2>6. CASE Propagate
      BY <2>1, <2>6 DEF Propagate
    <2>7. CASE Return
      <3>1. /\ activations # <<>> /\ ~top.body /\ activations' = Front(activations)
            /\ error' = error /\ error.type = "ok"
            /\ UNCHANGED <<text, exports, tables, links, consts>>
        BY <2>7 DEF Return, Running
      <3>2. ASSUME n - 1 > 0, activations[n - 1].import # 0 PROVE FALSE
        <4>1. n - 1 \in 1 .. n /\ n - 1 < n /\ n - 1 + 1 = n
          BY <2>3, <3>1, <3>2
        <4>2. Importing(n - 1)
          BY <3>2, <4>1 DEF ModulesInv, Frames
        <4>3. activations[n].body
          BY <4>1, <4>2 DEF Importing
        <4> QED BY <2>3, <3>1, <4>3
      <3>3. NoImport
        <4>1. Len(activations') = n - 1 /\ n \in Nat
          BY <2>3, <3>1
        <4>2. n - 1 > 0 => activations'[n - 1] = activations[n - 1]
          BY <2>3, <3>1
        <4> QED BY <3>2, <4>1, <4>2
      <3> QED BY <2>1, <3>1, <3>3
    <2>8. CASE MainEnds
      <3>1. /\ activations # <<>> /\ activations' = <<>> /\ n = 1 /\ error' = error
            /\ UNCHANGED <<text, exports, tables, links, consts>>
        BY <2>8 DEF MainEnds, Running
      <3>2. Front(activations) = <<>>
        <4>1. Front(activations) \in Seq(Activation) /\ Len(Front(activations)) = 0
          BY <2>1, <2>3, <3>1, FrontOf
        <4> QED BY <4>1, EmptySeq
      <3>3. Len(activations') = 0
        BY <3>1, EmptySeq
      <3> QED BY <2>1, <3>1, <3>2, <3>3
    <2>9. CASE Catch
      <3>1. /\ activations # <<>> /\ top.import = 0 /\ activations' = activations
            /\ error' = NoError
            /\ UNCHANGED <<text, exports, tables, links, consts>>
        BY <2>9 DEF Catch
      <3>2. error' \in [type : ErrorType, path : Path \cup {Null}]
        BY <3>1 DEF NoError, ErrorType
      <3> QED BY <2>3, <3>1, <3>2
    <2> QED BY <2>4, <2>5, <2>6, <2>7, <2>8, <2>9
  <1>2. Len(activations') > 0 /\ activations'[Len(activations')].import # 0 =>
          error'.type # "ok"
    BY <1>1
  <1> HIDE DEF NoImport
  <1> QED BY <1>1, <1>2, Unwinds

(* An import whose slot stays empty, with an error or without. *)
LEMMA ImportEmptyInv ==
  ASSUME ModulesInv, NEW s \in Statement, NEW p \in Path,
         ImportCircular(s, p) \/ ImportFails(s, p) \/ ImportNoModule(s, p)
  PROVE  ModulesInv' /\ KeepsConstants /\ BindsWhole
  <1>1. /\ Running /\ text' = [text EXCEPT ![<<top.prog, s>>] = p]
        /\ text[<<top.prog, s>>] = Null /\ UNCHANGED <<exports, links, consts>>
    BY DEF ImportCircular, ImportFails, ImportNoModule, Reads, consts
  <1>2. /\ error.type = "ok" /\ Len(activations) \in Nat \ {0}
        /\ top = activations[Len(activations)] /\ top.prog \in Prog /\ top.import = 0
    BY <1>1, RunningTop
  <1>3. /\ text \in [Site -> Path \cup {Null}] /\ <<top.prog, s>> \in Site
        /\ error \in [type : ErrorType, path : Path \cup {Null}] /\ TypeOK /\ Slots
    BY <1>2 DEF ModulesInv, TypeOK, Site
  <1>4. /\ text' \in [Site -> Path \cup {Null}]
        /\ \A x \in Site : text[x] # Null => text'[x] = text[x]
    BY <1>1, <1>3
  <1>5. ASSUME NEW type \in {"import", "circular"}, Fail(activations, type, p)
        PROVE  /\ activations' = Front(activations) /\ error'.type # "ok"
               /\ error' \in [type : ErrorType, path : Path \cup {Null}]
    BY <1>5 DEF Fail, ErrorType
  <1>6. /\ activations # <<>>
        /\ activations' = activations \/ activations' = Front(activations)
        /\ error' \in [type : ErrorType, path : Path \cup {Null}]
        /\ Len(activations') > 0 /\ activations'[Len(activations')].import # 0 =>
             error'.type # "ok"
    <2>1. CASE ImportCircular(s, p) \/ ImportFails(s, p)
      BY <1>1, <1>5, <2>1 DEF ImportCircular, ImportFails, Running
    <2>2. CASE ImportNoModule(s, p)
      BY <1>1, <1>2, <1>3, <2>2 DEF ImportNoModule, Running
    <2> QED BY <2>1, <2>2
  <1>7. PICK gone \in Path \cup {Null} :
          /\ gone # Null => loaded_modules_map[gone] = Null
          /\ Slots'
          /\ loaded_modules_map' \in [Path -> Nat \cup {Null}]
          /\ loaded_modules' \in Seq({Heap(r) : r \in Path} \cup {Null})
          /\ \A r \in Path \ {gone} :
               loaded_modules_map'[r] = loaded_modules_map[r] /\ get_module(r)' = get_module(r)
    <2>1. CASE ImportCircular(s, p)
      <3>1. UNCHANGED tables
        BY <2>1 DEF ImportCircular
      <3> QED BY <3>1, TablesKept
    <2>2. CASE ImportFails(s, p) \/ ImportNoModule(s, p)
      <3>1. Reserve(p, Null) /\ Null \in {Null, Heap(p)}
        BY <2>2 DEF ImportFails, ImportNoModule
      <3> QED BY <1>3, <3>1, ReserveSlot
    <2> QED BY <2>1, <2>2
  <1> QED BY <1>1, <1>4, <1>6, <1>7, StackKept


(* One activation more: a call, or the top level of the path "gone" for the *)
(* import that the running activation has begun.                            *)
LEMMA FramesAbove ==
  ASSUME TypeOK, Frames, NEW n \in Nat \ {0}, Len(activations) = n,
         Len(activations') = n + 1,
         NEW gone \in Path \cup {Null},
         \A k \in 1 .. n :
           /\ activations'[k].prog = activations[k].prog
           /\ activations'[k].body = activations[k].body
           /\ k < n => activations'[k] = activations[k]
           /\ activations[k].body => activations[k].prog # gone,
         activations'[n + 1].import = 0,
         \/ ~activations'[n + 1].body /\ activations'[n].import = 0
         \/ /\ gone \in Path /\ activations'[n + 1].prog = gone /\ activations'[n + 1].body
            /\ Reserved(gone)' /\ Owns(gone)'
            /\ activations'[n].import # 0 /\ activations'[n].body
            /\ text'[<<activations'[n].prog, activations'[n].import>>] = gone
            /\ activations'[n].slot = loaded_modules_map'[gone] + 1,
         \A x \in Site : text[x] # Null => text'[x] = text[x],
         \A p \in Prog : Owns(p) => Owns(p)',
         \A p \in Path \ {gone} : Reserved(p) =>
           Reserved(p)' /\ loaded_modules_map'[p] = loaded_modules_map[p]
  PROVE  Frames'
  <1>1. ASSUME NEW k \in 1 .. n + 1
        PROVE  LET a == activations'[k]
               IN /\ k = 1 => a.body /\ a.prog = Main
                  /\ a.body /\ k > 1 =>
                       /\ a.prog \in Path /\ \A q \in Path : q = a.prog => Reserved(q)'
                       /\ activations'[k - 1].import # 0
                  /\ a.body =>
                       a.prog \in Prog /\ \A q \in Prog : q = a.prog => Owns(q)'
                  /\ a.body => \A l \in 1 .. n + 1 :
                       activations'[l].body /\ activations'[l].prog = a.prog => l = k
                  /\ a.import # 0 => Importing(k)'
    <2>1. CASE k = n + 1
      <3>1. ASSUME activations'[n + 1].body
            PROVE  /\ gone \in Path /\ activations'[n + 1].prog = gone
                   /\ Reserved(gone)' /\ Owns(gone)' /\ activations'[n].import # 0
        BY <3>1
      <3>2. k # 1 /\ k - 1 = n
        BY <2>1
      <3>3. \A l \in 1 .. n + 1 : activations'[l].body /\ activations'[l].prog = gone => l = n + 1
        OBVIOUS
      <3>4. gone \in Path => gone \in Prog
        BY DEF Prog
      <3> QED BY <2>1, <3>1, <3>2, <3>3, <3>4
    <2>2. CASE k \in 1 .. n
      <3> DEFINE a == activations[k]
      <3>1. /\ k = 1 => a.body /\ a.prog = Main
            /\ a.body /\ k > 1 => /\ a.prog \in Path /\ Reserved(a.prog)
                                  /\ activations[k - 1].import # 0
            /\ a.body => Owns(a.prog)
            /\ a.body => \A l \in 1 .. n :
                           activations[l].body /\ activations[l].prog = a.prog => l = k
            /\ a.import # 0 => Importing(k)
        BY <2>2 DEF Frames
      <3>2. activations'[k].prog = a.prog /\ activations'[k].body = a.body
            /\ (a.body => a.prog # gone)
        BY <2>2
      <3>3. PICK q \in Prog : q = a.prog
        BY <2>2, Shape
      <3>4. a.body /\ k > 1 => /\ q \in Path /\ Reserved(q)'
                               /\ activations'[k - 1].import # 0
        <4>1. a.body /\ k > 1 => q \in Path /\ Reserved(q)'
          BY <3>1, <3>2, <3>3
        <4>2. k > 1 => k - 1 \in 1 .. n /\ k - 1 < n
          BY <2>2
        <4> QED BY <3>1, <4>1, <4>2
      <3>5. a.body => Owns(q)'
        BY <3>1, <3>3
      <3>6. a.body => \A l \in 1 .. n + 1 :
              activations'[l].body /\ activations'[l].prog = a.prog => l = k
        <4>1. \A l \in 1 .. n + 1 : l \in 1 .. n \/ l = n + 1
          OBVIOUS
        <4>2. a.body => ~(activations'[n + 1].body /\ activations'[n + 1].prog = a.prog)
          BY <3>2
        <4> QED BY <3>1, <4>1, <4>2
      <3>7. ASSUME activations'[k].import # 0 PROVE Importing(k)'
        <4>1. CASE k = n
          <5>1. /\ gone \in Path /\ activations'[n + 1].prog = gone
                /\ activations'[n + 1].body /\ Reserved(gone)'
                /\ activations'[n].body
                /\ text'[<<activations'[n].prog, activations'[n].import>>] = gone
                /\ activations'[n].slot = loaded_modules_map'[gone] + 1
            BY <3>7, <4>1
          <5>2. n < n + 1
            OBVIOUS
          <5> QED BY <4>1, <5>1, <5>2 DEF Importing, Reserved, get_module
        <4>2. CASE k # n
          <5>1. k < n /\ k + 1 \in 1 .. n /\ k < n + 1
            BY <2>2, <4>2
          <5>2. activations'[k] = a /\ Importing(k)
            BY <2>2, <3>1, <3>7, <5>1
          <5>3. PICK p \in Path : p = text[<<a.prog, a.import>>]
            BY <5>2 DEF Importing
          <5>4. /\ a.body /\ Reserved(p) /\ a.slot = loaded_modules_map[p] + 1
                /\ activations[k + 1].body /\ activations[k + 1].prog = p
            BY <5>1, <5>2, <5>3 DEF Importing
          <5>5. text'[<<a.prog, a.import>>] = p
            <6>1. <<a.prog, a.import>> \in Site
              BY <2>2, <3>7, <5>2, Shape DEF Site
            <6> QED BY <5>3, <6>1, Names
          <5>6. activations'[k + 1].body /\ activations'[k + 1].prog = p /\ p # gone
            BY <5>1, <5>4
          <5>7. Reserved(p)' /\ loaded_modules_map'[p] = loaded_modules_map[p]
            BY <5>4, <5>6
          <5>8. activations'[k].body /\ activations'[k].slot = loaded_modules_map'[p] + 1
            BY <5>2, <5>4, <5>7
          <5>9. text'[<<activations'[k].prog, activations'[k].import>>] = p
            BY <5>2, <5>5
          <5> QED BY <5>1, <5>6, <5>7, <5>8, <5>9 DEF Importing, Reserved, get_module
        <4> QED BY <4>1, <4>2
      <3> HIDE DEF a
      <3> QED BY <2>2, <3>1, <3>2, <3>3, <3>4, <3>5, <3>6, <3>7
    <2> QED BY <2>1, <2>2
  <1> QED BY <1>1 DEF Frames, Reserved, Owns, get_module


LEMMA EnterInv ==
  ASSUME ModulesInv, NEW p \in Prog, NEW a \in Address, Enter(p, a)
  PROVE  ModulesInv' /\ KeepsConstants /\ BindsWhole
  <1> DEFINE call == [prog |-> p, p_data |-> a, body |-> FALSE, import |-> 0, slot |-> 0]
  <1>1. /\ Running /\ Len(activations) < MaxCalls /\ activations' = Append(activations, call)
        /\ UNCHANGED <<text, exports, tables, links, consts, error>>
    BY DEF Enter
  <1>2. PICK n \in Nat \ {0} : /\ n = Len(activations) /\ activations[n].import = 0
                               /\ error.type = "ok"
    BY <1>1, RunningTop
  <1>3. /\ TypeOK /\ Frames /\ Links /\ Ranges /\ FreeCells
        /\ activations \in Seq(Activation)
    BY DEF ModulesInv, TypeOK
  <1>4. call \in Activation /\ call.import = 0 /\ ~call.body
    BY DEF Activation
  <1> HIDE DEF call
  <1>5. /\ activations' \in Seq(Activation) /\ Len(activations') = n + 1
        /\ \A k \in 1 .. n : activations'[k] = activations[k]
        /\ activations'[n + 1] = call
    BY <1>1, <1>2, <1>3, <1>4, AppendProperties
  <1>6. /\ Slots'
        /\ loaded_modules_map' \in [Path -> Nat \cup {Null}]
        /\ loaded_modules' \in Seq({Heap(r) : r \in Path} \cup {Null})
        /\ \A r \in Path : /\ loaded_modules_map'[r] = loaded_modules_map[r]
                           /\ get_module(r)' = get_module(r) /\ Reserved(r)' = Reserved(r)
    BY <1>1, TablesKept
  <1>7. /\ text' = text /\ exports' = exports /\ p_data_cached' = p_data_cached
        /\ classes' = classes /\ tl_constant_start' = tl_constant_start
        /\ const_cache' = const_cache /\ error' = error /\ UNCHANGED links
    BY <1>1 DEF links, consts
  <1>8. TypeOK'
    <2>1. Len(activations') <= MaxCalls
      BY <1>1, <1>2, <1>5, ModulesAssumption
    <2> QED BY <1>3, <1>5, <1>6, <1>7, <2>1 DEF TypeOK
  <1>9. Links' /\ BindsWhole
    BY <1>3, <1>6, <1>7, LinksKept
  <1>10. Frames'
    <2>1. n \in 1 .. n /\ Null \in Path \cup {Null}
      OBVIOUS
    <2>2. \A k \in 1 .. n :
            /\ activations'[k].prog = activations[k].prog
            /\ activations'[k].body = activations[k].body
            /\ k < n => activations'[k] = activations[k]
            /\ activations[k].body => activations[k].prog # Null
      BY <1>2, <1>3, <1>5, Names, Shape
    <2>3. /\ activations'[n + 1].import = 0
          /\ \/ ~activations'[n + 1].body /\ activations'[n].import = 0
             \/ /\ Null \in Path /\ activations'[n + 1].prog = Null /\ activations'[n + 1].body
                /\ Reserved(Null)' /\ Owns(Null)'
                /\ activations'[n].import # 0 /\ activations'[n].body
                /\ text'[<<activations'[n].prog, activations'[n].import>>] = Null
                /\ activations'[n].slot = loaded_modules_map'[Null] + 1
      BY <1>2, <1>4, <1>5, <2>1
    <2>4. \A r \in Prog : Owns(r) => Owns(r)'
      BY <1>7 DEF Owns
    <2>5. /\ \A x \in Site : text[x] # Null => text'[x] = text[x]
          /\ \A r \in Path \ {Null} : Reserved(r) =>
               Reserved(r)' /\ loaded_modules_map'[r] = loaded_modules_map[r]
      BY <1>6, <1>7
    <2>6. TypeOK /\ Frames /\ Len(activations) = n /\ Len(activations') = n + 1
      BY <1>2, <1>3, <1>5
    <2>7. n \in Nat \ {0}
      BY <1>2
    <2> QED BY ONLY <2>1, <2>2, <2>3, <2>4, <2>5, <2>6, <2>7, FramesAbove
  <1>11. Ranges'
    BY <1>3, <1>7 DEF Ranges, Owns
  <1>12. FreeCells'
    <2>1. ASSUME NEW r \in Prog, NEW s \in Statement, Awaited(r, s)'
          PROVE  Awaited(r, s)
      <3>1. s # 0
        BY Statements
      <3>2. \A k \in 1 .. n + 1 : k \in 1 .. n \/ k = n + 1
        OBVIOUS
      <3> QED BY <1>2, <1>4, <1>5, <1>7, <2>1, <3>1, <3>2 DEF Awaited
    <2> QED BY <1>3, <1>7, <2>1 DEF FreeCells, Owns
  <1>13. KeepsConstants
    BY <1>7 DEF KeepsConstants
  <1> QED BY <1>6, <1>8, <1>9, <1>10, <1>11, <1>12, <1>13 DEF ModulesInv

LEMMA CallInv ==
  ASSUME ModulesInv, CallOwn \/ \E s \in Statement : CallImported(s)
  PROVE  ModulesInv' /\ KeepsConstants /\ BindsWhole
  <1>1. CASE CallOwn
    <2>1. Enter(top.prog, top.p_data) /\ Running
      BY <1>1 DEF CallOwn, Enter
    <2>2. top.prog \in Prog /\ top.p_data \in Address
      BY <2>1, RunningTop
    <2> QED BY <2>1, <2>2, EnterInv
  <1>2. ASSUME NEW s \in Statement, CallImported(s)
        PROVE  ModulesInv' /\ KeepsConstants /\ BindsWhole
    <2> DEFINE a == p_data_cached[<<top.prog, s>>]
    <2>1. Running /\ a # Null /\ PData(a) \in Path /\ Enter(PData(a), a)
      BY <1>2 DEF CallImported
    <2>2. top.prog \in Prog
      BY <2>1, RunningTop
    <2>3. a \in Address /\ PData(a) \in Prog
      BY <2>1, <2>2 DEF ModulesInv, TypeOK, Site, Prog
    <2> HIDE DEF a
    <2> QED BY <2>1, <2>3, EnterInv
  <1> QED BY <1>1, <1>2

LEMMA SetConstInv ==
  ASSUME ModulesInv, Running, NEW v \in Value, SetConst(v)
  PROVE  ModulesInv' /\ KeepsConstants /\ BindsWhole
  <1>1. PICK q \in Prog : q = top.prog /\ Owns(q)
    BY RunningTop DEF SetConst
  <1> DEFINE cell == tl_constant_start[q] + Own
  <1>2. /\ const_cache[cell] = Unset /\ const_cache' = [const_cache EXCEPT ![cell] = v]
        /\ UNCHANGED <<text, exports, tables, activations, links, tl_constant_start, error>>
    BY <1>1 DEF SetConst
  <1>3. TypeOK /\ Frames /\ Links /\ Ranges /\ FreeCells
    BY DEF ModulesInv
  <1>4. v \in {Unset, Plain} \cup FnValue
    BY RunningTop DEF Value, FnValue
  <1>5. /\ tl_constant_start[q] \in Nat /\ tl_constant_start[q] + DataLen <= Len(const_cache)
        /\ Len(const_cache) \in Nat /\ DOMAIN const_cache = 1 .. Len(const_cache)
        /\ const_cache \in Seq({Unset, Plain} \cup FnValue)
    BY <1>3, Shape DEF Ranges, TypeOK
  <1>6. DataLen \in Nat /\ Own \in 1 .. DataLen
    BY Statements DEF Own
  <1>7. cell \in 1 .. Len(const_cache)
    BY <1>5, <1>6, CellInRange
  <1>8. /\ const_cache' \in Seq({Unset, Plain} \cup FnValue)
        /\ Len(const_cache') = Len(const_cache)
        /\ \A k \in DOMAIN const_cache : k # cell => const_cache'[k] = const_cache[k]
    <2> HIDE DEF cell
    <2> QED BY <1>2, <1>4, <1>5, <1>7, ExceptSeq
  <1>9. /\ Slots'
        /\ loaded_modules_map' \in [Path -> Nat \cup {Null}]
        /\ loaded_modules' \in Seq({Heap(r) : r \in Path} \cup {Null})
        /\ \A r \in Path : /\ loaded_modules_map'[r] = loaded_modules_map[r]
                           /\ get_module(r)' = get_module(r) /\ Reserved(r)' = Reserved(r)
    BY <1>2, TablesKept
  <1>10. /\ text' = text /\ exports' = exports /\ p_data_cached' = p_data_cached
         /\ classes' = classes /\ tl_constant_start' = tl_constant_start
         /\ activations' = activations /\ error' = error /\ UNCHANGED links
         /\ loaded_modules' = loaded_modules /\ loaded_modules_map' = loaded_modules_map
    BY <1>2 DEF links, tables
  <1>11. TypeOK'
    BY <1>3, <1>8, <1>9, <1>10 DEF TypeOK
  <1>12. Links' /\ BindsWhole
    BY <1>3, <1>9, <1>10, LinksKept
  <1>13. Frames'
    BY <1>3, <1>10 DEF Frames, Importing, Reserved, Owns, get_module
  <1>14. Ranges'
    BY <1>3, <1>8, <1>10 DEF Ranges, Owns
  <1>15. FreeCells'
    <2>1. \A x \in Site : Awaited(x[1], x[2])' => Awaited(x[1], x[2]) /\ x \notin {}
      BY <1>10 DEF Awaited
    <2>2. {} \in SUBSET Site /\ Own \in 1 .. DataLen
      BY <1>6
    <2>3. \A k \in DOMAIN const_cache : k # tl_constant_start[q] + Own =>
            const_cache'[k] = const_cache[k]
      BY <1>8
    <2> QED BY ONLY <1>1, <1>3, <1>10, <2>1, <2>2, <2>3, CellsKept
  <1>16. KeepsConstants
    BY <1>2, <1>8 DEF KeepsConstants
  <1> QED BY <1>9, <1>11, <1>12, <1>13, <1>14, <1>15, <1>16 DEF ModulesInv


LEMMA ImportSourceInv ==
  ASSUME ModulesInv, NEW s \in Statement, NEW p \in Path, NEW has \in Exports,
         ImportSource(s, p, has)
  PROVE  ModulesInv' /\ KeepsConstants /\ BindsWhole
  <1> DEFINE body(n) == [prog |-> p, p_data |-> Stack(n), body |-> TRUE,
                         import |-> 0, slot |-> 0]
             new == [k \in 1 .. DataLen |-> Unset]
             len == Len(const_cache)
             Cell == {Unset, Plain} \cup FnValue
  <1>1. PICK n \in Nat \ {0} :
          /\ n = Len(activations) /\ n < MaxCalls /\ Running /\ top = activations[n]
          /\ top \in Activation /\ top.prog \in Prog /\ top.body /\ error.type = "ok"
    BY RunningTop DEF ImportSource, Reads
  <1>2. PICK q \in Prog : q = top.prog
    BY <1>1
  <1>3. /\ text[<<q, s>>] = Null /\ text' = [text EXCEPT ![<<q, s>>] = p]
        /\ Reserve(p, Null) /\ exports' = [exports EXCEPT ![p] = has]
        /\ tl_constant_start' = [tl_constant_start EXCEPT ![p] = len]
        /\ const_cache' = const_cache \o new
        /\ UNCHANGED links /\ error' = error
    BY <1>2 DEF ImportSource, Reads, ConstStart
  <1>4. /\ TypeOK /\ Slots /\ Frames /\ Links /\ Ranges /\ FreeCells
        /\ activations \in Seq(Activation)
        /\ text \in [Site -> Path \cup {Null}] /\ <<q, s>> \in Site
        /\ tl_constant_start \in [Prog -> Nat] /\ p \in Prog /\ p # Main
    BY ModulesAssumption DEF ModulesInv, TypeOK, Site, Prog
  <1>5. /\ Slots'
        /\ loaded_modules_map' \in [Path -> Nat \cup {Null}]
        /\ loaded_modules' \in Seq({Heap(r) : r \in Path} \cup {Null})
        /\ loaded_modules_map[p] = Null /\ get_module(p)' = Null
        /\ loaded_modules_map'[p] = Len(loaded_modules) /\ loaded_modules_map'[p] # Null
        /\ \A r \in Path \ {p} : /\ loaded_modules_map'[r] = loaded_modules_map[r]
                                 /\ get_module(r)' = get_module(r)
    <2>1. Null \in {Null, Heap(p)}
      OBVIOUS
    <2> QED BY <1>3, <1>4, <2>1, ReserveSlot
  <1>6. \A k \in 1 .. n : activations[k].body => activations[k].prog # p
    BY <1>1, <1>5, UnreservedIdle DEF Reserved
  <1>7. PICK importer \in Activation :
          /\ importer.import = s /\ importer.slot = Len(loaded_modules) + 1
          /\ importer.prog = q /\ importer.body
          /\ activations' = Append([activations EXCEPT ![n] = importer], body(n))
    <2> DEFINE a == [top EXCEPT !.import = s, !.slot = Len(loaded_modules) + 1]
    <2>1. Len(loaded_modules) + 1 \in Nat
      BY <1>4, Shape
    <2>2. /\ a \in Activation /\ a.import = s /\ a.slot = Len(loaded_modules) + 1
          /\ a.prog = q /\ a.body
      BY <1>1, <1>2, <2>1 DEF Activation
    <2>3. activations' =
            Append([activations EXCEPT ![n].import = s, ![n].slot = Len(loaded_modules) + 1],
                   body(n))
      BY <1>1 DEF ImportSource
    <2>4. [activations EXCEPT ![n].import = s, ![n].slot = Len(loaded_modules) + 1]
            = [activations EXCEPT ![n] = a]
      <3>1. activations \in [1 .. n -> Activation] /\ n \in 1 .. n
        BY <1>1, <1>4, LenProperties
      <3> QED BY <1>1, <3>1
    <2> QED BY <2>2, <2>3, <2>4
  <1>8. /\ body(n) \in Activation /\ body(n).prog = p /\ body(n).body /\ body(n).import = 0
    <2>1. Stack(n) \in Address
      BY <1>1, ModulesAssumption DEF Address
    <2> QED BY <1>4, <2>1 DEF Activation
  <1>9. /\ activations' \in Seq(Activation) /\ Len(activations') = n + 1
        /\ \A k \in 1 .. n : k < n => activations'[k] = activations[k]
        /\ activations'[n] = importer
        /\ activations'[n + 1] = body(n)
    <2> HIDE DEF body
    <2>1. n \in 1 .. Len(activations)
      BY <1>1
    <2>2. /\ [activations EXCEPT ![n] = importer] \in Seq(Activation)
          /\ Len([activations EXCEPT ![n] = importer]) = n
          /\ \A k \in 1 .. n : [activations EXCEPT ![n] = importer][k] =
                                 IF k = n THEN importer ELSE activations[k]
      BY <1>1, <1>4, <1>7, <2>1, ExceptSeq
    <2> QED BY <1>7, <1>8, <2>2, AppendProperties
  <1>10. /\ text' \in [Site -> Path \cup {Null}] /\ text'[<<q, s>>] = p
         /\ \A x \in Site : text[x] # Null => text'[x] = text[x]
    BY <1>3, <1>4
  <1>11. /\ len \in Nat /\ DOMAIN const_cache = 1 .. len /\ const_cache \in Seq(Cell)
         /\ DataLen \in Nat /\ DataLen >= 1 /\ len >= DataLen
         /\ \A r \in Prog : /\ tl_constant_start[r] \in Nat
                            /\ tl_constant_start[r] + DataLen <= len
         /\ tl_constant_start[Main] = 0
    BY <1>4, Statements, Shape DEF TypeOK, Ranges
  <1>12. /\ const_cache' \in Seq(Cell) /\ Len(const_cache') = len + DataLen
         /\ \A k \in 1 .. len : const_cache'[k] = const_cache[k]
         /\ \A d \in 1 .. DataLen : const_cache'[len + d] = Unset
    <2>1. /\ new \in Seq(Cell) /\ Len(new) = DataLen
          /\ \A d \in 1 .. DataLen : new[d] = Unset
      <3>1. new \in [1 .. DataLen -> Cell]
        OBVIOUS
      <3> QED BY <1>11, <3>1, SeqDef
    <2> HIDE DEF new, Cell
    <2>2. /\ const_cache' \in Seq(Cell) /\ Len(const_cache') = len + DataLen
          /\ \A k \in 1 .. len + DataLen :
               const_cache'[k] = IF k <= len THEN const_cache[k] ELSE new[k - len]
      BY <1>3, <1>11, <2>1, ConcatProperties
    <2>3. ASSUME NEW k \in 1 .. len PROVE const_cache'[k] = const_cache[k]
      BY <1>11, <2>2
    <2>4. ASSUME NEW d \in 1 .. DataLen PROVE const_cache'[len + d] = Unset
      <3>1. len + d \in 1 .. len + DataLen /\ ~(len + d <= len) /\ len + d - len = d
        BY <1>11
      <3> QED BY <2>1, <2>2, <3>1
    <2> QED BY <2>2, <2>3, <2>4
  <1>13. /\ tl_constant_start' \in [Prog -> Nat] /\ tl_constant_start'[p] = len
         /\ \A r \in Prog \ {p} : tl_constant_start'[r] = tl_constant_start[r]
    BY <1>3, <1>4, <1>11
  <1>14. Owns(p)' /\ \A r \in Prog \ {p} : Owns(r)' <=> Owns(r)
    BY <1>11, <1>13 DEF Owns
  <1>15. TypeOK'
    <2>1. Len(activations') <= MaxCalls
      BY <1>1, <1>9, ModulesAssumption
    <2>2. exports' \in [Path -> SUBSET Name]
      BY <1>3, <1>4, ModulesAssumption DEF TypeOK
    <2>3. p_data_cached' = p_data_cached /\ classes' = classes
      BY <1>3 DEF links
    <2> QED BY <1>3, <1>4, <1>5, <1>9, <1>10, <1>12, <1>13, <2>1, <2>2, <2>3 DEF TypeOK
  <1>16. Links' /\ BindsWhole
    BY <1>3, <1>4, <1>5, <1>10, LinksKept
  <1>17. Frames'
    <2>1. n \in 1 .. n /\ n \in Nat \ {0} /\ p \in Path \cup {Null}
      BY <1>1
    <2>2. \A k \in 1 .. n :
            /\ activations'[k].prog = activations[k].prog
            /\ activations'[k].body = activations[k].body
            /\ k < n => activations'[k] = activations[k]
            /\ activations[k].body => activations[k].prog # p
      <3>1. /\ importer.prog = activations[n].prog /\ importer.body = activations[n].body
        BY <1>1, <1>2, <1>4, <1>7, Shape
      <3>2. \A k \in 1 .. n : k < n \/ k = n
        OBVIOUS
      <3> QED BY <1>6, <1>9, <3>1, <3>2
    <2>3. Reserved(p)'
      BY <1>5 DEF Reserved
    <2>4. /\ activations'[n + 1].import = 0
          /\ p \in Path /\ activations'[n + 1].prog = p /\ activations'[n + 1].body
          /\ Reserved(p)' /\ Owns(p)'
          /\ activations'[n].import # 0 /\ activations'[n].body
          /\ text'[<<activations'[n].prog, activations'[n].import>>] = p
          /\ activations'[n].slot = loaded_modules_map'[p] + 1
      <3> HIDE DEF body
      <3> QED BY <1>5, <1>7, <1>8, <1>9, <1>10, <1>14, <2>3, Statements
    <2>5. \A r \in Prog : Owns(r) => Owns(r)'
      BY <1>14
    <2>6. \A r \in Path \ {p} : Reserved(r) =>
            Reserved(r)' /\ loaded_modules_map'[r] = loaded_modules_map[r]
      BY <1>5 DEF Reserved
    <2>7. TypeOK /\ Frames /\ Len(activations) = n /\ Len(activations') = n + 1
          /\ \A x \in Site : text[x] # Null => text'[x] = text[x]
      BY <1>1, <1>4, <1>9, <1>10
    <2> QED BY ONLY <2>1, <2>2, <2>4, <2>5, <2>6, <2>7, FramesAbove
  <1>18. Ranges'
    <2>1. tl_constant_start'[Main] = 0
      BY <1>4, <1>11, <1>13 DEF Prog
    <2>2. \A r \in Prog : tl_constant_start'[r] + DataLen <= len + DataLen
      <3>1. ASSUME NEW r \in Prog PROVE tl_constant_start'[r] <= len
        <4>1. CASE r = p
          BY ONLY <1>11, <1>13, <4>1
        <4>2. CASE r # p
          <5>1. tl_constant_start'[r] = tl_constant_start[r]
            BY ONLY <1>13, <3>1, <4>2
          <5> QED BY ONLY <1>11, <3>1, <5>1
        <4> QED BY <4>1, <4>2
      <3>2. tl_constant_start' \in [Prog -> Nat] /\ len \in Nat /\ DataLen \in Nat
        BY <1>11, <1>13
      <3> QED BY ONLY <3>1, <3>2
    <2>3. ASSUME NEW r \in Prog, NEW t \in Prog, r # t, Owns(r)', Owns(t)'
          PROVE  \/ tl_constant_start'[r] + DataLen <= tl_constant_start'[t]
                 \/ tl_constant_start'[t] + DataLen <= tl_constant_start'[r]
      <3>1. CASE r = p
        BY <1>11, <1>13, <2>3, <3>1
      <3>2. CASE t = p
        BY <1>11, <1>13, <2>3, <3>2
      <3>3. CASE r # p /\ t # p
        BY <1>4, <1>13, <1>14, <2>3, <3>3 DEF Ranges
      <3> QED BY <3>1, <3>2, <3>3
    <2> QED BY <1>12, <2>1, <2>2, <2>3 DEF Ranges, Owns
  <1>19. FreeCells'
    <2>1. ASSUME NEW r \in Prog, NEW t \in Statement, Awaited(r, t)'
          PROVE  Awaited(r, t)
      <3>1. t # 0
        BY Statements
      <3>2. text'[<<r, t>>] = Null => text[<<r, t>>] = Null
        BY <1>10 DEF Site
      <3>3. ASSUME NEW k \in 1 .. n + 1, activations'[k].body, activations'[k].prog = r,
                   activations'[k].import = t
            PROVE  Awaited(r, t)
        <4>1. CASE k < n
          BY <1>1, <1>9, <3>3, <4>1 DEF Awaited
        <4>2. CASE k = n
          BY <1>3, <1>7, <1>9, <3>3, <4>2 DEF Awaited
        <4>3. CASE k = n + 1
          BY <1>8, <1>9, <3>1, <3>3, <4>3
        <4> QED BY <4>1, <4>2, <4>3
      <3> QED BY <1>9, <2>1, <3>2, <3>3 DEF Awaited
    <2>2. ASSUME NEW r \in Prog, NEW t \in Statement, Owns(r)', Awaited(r, t)'
          PROVE  const_cache'[tl_constant_start'[r] + Imported(t)] = Unset
      <3>1. Imported(t) \in 1 .. DataLen
        BY Statements
      <3>2. CASE r = p
        BY <1>12, <1>13, <3>1, <3>2
      <3>3. CASE r # p
        <4>1. const_cache[tl_constant_start[r] + Imported(t)] = Unset
          BY <1>4, <1>14, <2>1, <2>2, <3>3 DEF FreeCells
        <4>2. tl_constant_start[r] + Imported(t) \in 1 .. len
          BY <1>11, <3>1, CellInRange
        <4> QED BY <1>12, <1>13, <3>3, <4>1, <4>2
      <3> QED BY <3>2, <3>3
    <2> QED BY <2>2 DEF FreeCells, Owns, Awaited
  <1>20. KeepsConstants
    BY <1>11, <1>12 DEF KeepsConstants
  <1> QED BY <1>5, <1>15, <1>16, <1>17, <1>18, <1>19, <1>20 DEF ModulesInv


LEMMA StutterInv ==
  ASSUME ModulesInv, UNCHANGED vars
  PROVE  ModulesInv' /\ KeepsConstants /\ BindsWhole
  <1>1. /\ text' = text /\ exports' = exports /\ loaded_modules_map' = loaded_modules_map
        /\ loaded_modules' = loaded_modules /\ activations' = activations
        /\ p_data_cached' = p_data_cached /\ classes' = classes
        /\ tl_constant_start' = tl_constant_start /\ const_cache' = const_cache
        /\ error' = error
    BY DEF vars, tables, links, consts
  <1>2. TypeOK' /\ Slots'
    BY <1>1 DEF ModulesInv, TypeOK, Slots, get_module
  <1>3. Frames' /\ Links'
    BY <1>1 DEF ModulesInv, Frames, Importing, Reserved, Owns, get_module, Links
  <1>4. Ranges' /\ FreeCells'
    BY <1>1 DEF ModulesInv, Ranges, FreeCells, Awaited, Owns
  <1>5. KeepsConstants /\ BindsWhole
    BY <1>1 DEF KeepsConstants, BindsWhole, Binds
  <1> QED BY <1>2, <1>3, <1>4, <1>5 DEF ModulesInv

(* One step, whichever it is. *)
LEMMA NextInv ==
  ASSUME ModulesInv, [Next]_vars
  PROVE  ModulesInv' /\ KeepsConstants /\ BindsWhole
  <1>1. CASE ImportSome
    <2> SUFFICES ASSUME NEW s \in Statement, NEW p \in Path,
                        \/ ImportLoaded(s, p) \/ ImportCircular(s, p)
                        \/ ImportFails(s, p) \/ ImportNoModule(s, p)
                        \/ \E has \in Exports :
                             ImportLibrary(s, p, has) \/ ImportSource(s, p, has)
                 PROVE  ModulesInv' /\ KeepsConstants /\ BindsWhole
      BY <1>1 DEF ImportSome
    <2>1. CASE ImportLoaded(s, p)
      BY <2>1, ImportLoadedInv
    <2>2. CASE ImportCircular(s, p) \/ ImportFails(s, p) \/ ImportNoModule(s, p)
      BY <2>2, ImportEmptyInv
    <2>3. ASSUME NEW has \in Exports, ImportLibrary(s, p, has)
          PROVE  ModulesInv' /\ KeepsConstants /\ BindsWhole
      BY <2>3, ImportLibraryInv
    <2>4. ASSUME NEW has \in Exports, ImportSource(s, p, has)
          PROVE  ModulesInv' /\ KeepsConstants /\ BindsWhole
      BY <2>4, ImportSourceInv
    <2> QED BY <2>1, <2>2, <2>3, <2>4
  <1>2. CASE ImportUnresolved \/ RaiseStatement \/ Propagate \/ Return \/ MainEnds \/ Catch
    BY <1>2, UnwindingInv
  <1>3. CASE BodyEnds
    BY <1>3, BodyEndsInv
  <1>4. CASE CallOwn \/ \E s \in Statement : CallImported(s)
    BY <1>4, CallInv
  <1>5. CASE Running /\ \E v \in Value : SetConst(v)
    BY <1>5, SetConstInv
  <1>6. CASE UNCHANGED vars
    BY <1>6, StutterInv
  <1> QED BY <1>1, <1>2, <1>3, <1>4, <1>5, <1>6 DEF Next

(***************************************************************************)
(* The inductive invariant holds in every state that imports and calls of  *)
(* any nesting reach, of any number of files with any number of imports.   *)
(***************************************************************************)
THEOREM Invariant == Spec => []ModulesInv
  <1>1. Init => ModulesInv
    BY InitInv
  <1>2. ModulesInv /\ [Next]_vars => ModulesInv'
    BY NextInv
  <1> QED BY <1>1, <1>2, PTL DEF Spec

(* The tables of tl.c, the activations and the cache keep their types. *)
THEOREM TypeCorrect == Spec => []TypeOK
  <1>1. ModulesInv => TypeOK
    BY DEF ModulesInv
  <1> QED BY <1>1, Invariant, PTL

(***************************************************************************)
(* The map and the array of tl.c agree, and the slot that an unfinished    *)
(* import is going to fill is empty: the au_fatal of add_module is never   *)
(* reached, whatever fails or is caught on the way.                        *)
(***************************************************************************)
THEOREM MapAndSlotsAgree == Spec => []SlotsAgree
  <1>1. ModulesInv => SlotsAgree
    <2> SUFFICES ASSUME ModulesInv PROVE SlotsAgree
      OBVIOUS
    <2>1. ASSUME NEW i \in 1 .. Len(activations), activations[i].import # 0
          PROVE  loaded_modules[activations[i].slot] = Null
      <3>1. Importing(i)
        BY <2>1 DEF ModulesInv, Frames
      <3> QED BY <3>1 DEF Importing, Reserved, get_module
    <2> QED BY <2>1 DEF SlotsAgree, ModulesInv, Slots
  <1> QED BY <1>1, Invariant, PTL

(***************************************************************************)
(* What an import statement has cached is the module that it names, at an  *)
(* address that still holds it: the pointer that au_fn_call_internal       *)
(* follows never dangles.                                                  *)
(***************************************************************************)
THEOREM LinksStayLive == Spec => []LinksLive
  <1>1. ModulesInv => LinksLive
    <2> SUFFICES ASSUME ModulesInv, NEW x \in Site
                 PROVE  /\ p_data_cached[x] # Null =>
                             text[x] # Null /\ PData(p_data_cached[x]) = text[x]
                        /\ classes[x] # Null => text[x] # Null /\ classes[x] = text[x]
      BY DEF LinksLive
    <2>1. ASSUME p_data_cached[x] # Null
          PROVE  text[x] # Null /\ PData(p_data_cached[x]) = text[x]
      <3>1. PICK p \in Path :
              /\ p = text[x] /\ p_data_cached[x] = Heap(p)
              /\ loaded_modules_map[p] # Null /\ get_module(p) = Heap(p)
        BY <2>1 DEF ModulesInv, Links
      <3>2. IsLoaded(p)
        <4>1. loaded_modules_map[p] + 1 \in DOMAIN loaded_modules
          <5>1. loaded_modules_map[p] \in Nat /\ loaded_modules_map[p] < Len(loaded_modules)
            BY <3>1, Shape DEF ModulesInv, Slots
          <5>2. Len(loaded_modules) \in Nat /\ DOMAIN loaded_modules = 1 .. Len(loaded_modules)
            BY Shape DEF ModulesInv
          <5> QED BY <5>1, <5>2
        <4>2. loaded_modules[loaded_modules_map[p] + 1] = Heap(p)
          BY <3>1 DEF get_module
        <4> QED BY <4>1, <4>2 DEF IsLoaded, ToSet
      <3>3. Heap(p) # MainData /\ Heap(p)[1] = "heap" /\ Heap(p)[2] = p
        BY Names DEF Heap
      <3>4. PData(Heap(p)) = p
        BY <3>2, <3>3 DEF PData
      <3> QED BY <3>1, <3>4, Names
    <2>2. ASSUME classes[x] # Null PROVE text[x] # Null /\ classes[x] = text[x]
      BY <2>2 DEF ModulesInv, Links
    <2> QED BY <2>1, <2>2
  <1> QED BY <1>1, Invariant, PTL

(***************************************************************************)
(* No two programs of a thread share a cell of the constant cache, and no  *)
(* cell of a program lies outside it.                                      *)
(***************************************************************************)
THEOREM ConstantsApart == Spec => []ConstRanges
  <1>1. ModulesInv => ConstRanges
    <2> SUFFICES ASSUME ModulesInv, NEW p \in Started
                 PROVE  /\ Cells(p) \subseteq DOMAIN const_cache
                        /\ \A q \in Started \ {p} : Cells(p) \cap Cells(q) = {}
      BY DEF ConstRanges
    <2>1. \A q \in Started : q \in Prog /\ Owns(q) /\ tl_constant_start[q] \in Nat
      BY Shape DEF Started, Owns, Prog, ModulesInv
    <2>2. /\ tl_constant_start[p] + DataLen <= Len(const_cache)
          /\ Len(const_cache) \in Nat /\ DOMAIN const_cache = 1 .. Len(const_cache)
          /\ DataLen \in Nat
      BY <2>1, Shape, Statements DEF ModulesInv, Ranges
    <2>3. Cells(p) \subseteq DOMAIN const_cache
      BY <2>1, <2>2 DEF Cells
    <2>4. ASSUME NEW q \in Started \ {p} PROVE Cells(p) \cap Cells(q) = {}
      <3>1. \/ tl_constant_start[p] + DataLen <= tl_constant_start[q]
            \/ tl_constant_start[q] + DataLen <= tl_constant_start[p]
        BY <2>1, <2>4 DEF ModulesInv, Ranges
      <3> QED BY <2>1, <2>2, <3>1 DEF Cells
    <2> QED BY <2>3, <2>4
  <1> QED BY <1>1, Invariant, PTL

(***************************************************************************)
(* A constant keeps its first value, whatever is imported after it.        *)
(***************************************************************************)
THEOREM ConstantsStay == Spec => ConstFixed
  <1>1. ModulesInv /\ [Next]_vars => [KeepsConstants]_vars
    BY NextInv
  <1>2. Spec => [][KeepsConstants]_vars
    BY <1>1, Invariant, PTL DEF Spec
  <1> QED BY <1>2 DEF ConstFixed, KeepsConstants

(***************************************************************************)
(* An import that binds functions and goes on has bound all that its       *)
(* statement uses of the module.                                           *)
(***************************************************************************)
THEOREM ImportsAreWhole == Spec => WholeOrError
  <1>1. ModulesInv /\ [Next]_vars => [BindsWhole]_vars
    BY NextInv
  <1>2. Spec => [][BindsWhole]_vars
    BY <1>1, Invariant, PTL DEF Spec
  <1> QED BY <1>2 DEF WholeOrError, BindsWhole


(* A set with one member at the most. *)
LEMMA AtMostOne ==
  ASSUME NEW S, \A i, j \in S : i = j
  PROVE  Cardinality(S) = 0 \/ (Cardinality(S) = 1 /\ S # {})
  <1>1. CASE S = {}
    BY <1>1, FS_EmptySet
  <1>2. ASSUME NEW i \in S PROVE Cardinality(S) = 1
    <2>1. S = {i}
      OBVIOUS
    <2> QED BY <2>1, FS_Singleton
  <1> QED BY <1>1, <1>2

(***************************************************************************)
(* The top level of a file is run by one import at the most, at a time or  *)
(* after the other, and its module is in one slot at the most, however     *)
(* many statements name it and however deep imports nest.                  *)
(***************************************************************************)
THEOREM FilesLoadOnce == Spec => []LoadedOnce
  <1>1. ModulesInv => LoadedOnce
    <2> SUFFICES ASSUME ModulesInv, NEW p \in Path
                 PROVE  /\ Cardinality(Loading(p))
                             + Cardinality({k \in DOMAIN loaded_modules :
                                              loaded_modules[k] = Heap(p)}) <= 1
                        /\ Loading(p) # {} => loaded_modules_map[p] # Null
      BY DEF LoadedOnce
    <2> DEFINE held == {k \in DOMAIN loaded_modules : loaded_modules[k] = Heap(p)}
    <2>1. /\ DOMAIN loaded_modules = 1 .. Len(loaded_modules)
          /\ Len(loaded_modules) \in Nat
      BY Shape DEF ModulesInv
    <2>2. \A k \in held : loaded_modules_map[p] = k - 1 /\ k \in Nat \ {0}
      BY <2>1 DEF ModulesInv, Slots
    <2>3. \A k, l \in held : k = l
      BY <2>2
    <2>4. \A i, j \in Loading(p) : i = j
      BY DEF Loading, ModulesInv, Frames
    <2>5. Loading(p) # {} => Reserved(p)
      BY UnreservedIdle DEF Loading
    <2>6. held # {} => get_module(p) = Heap(p)
      <3>1. ASSUME NEW k \in held PROVE get_module(p) = Heap(p)
        <4>1. loaded_modules_map[p] # Null /\ loaded_modules_map[p] + 1 = k
          BY <2>2, Names
        <4> QED BY <4>1 DEF get_module
      <3> QED BY <3>1
    <2>7. Loading(p) = {} \/ held = {}
      BY <2>5, <2>6, Names DEF Reserved
    <2> HIDE DEF held
    <2>8. /\ Cardinality(Loading(p)) = 0 \/ (Cardinality(Loading(p)) = 1 /\ Loading(p) # {})
          /\ Cardinality(held) = 0 \/ (Cardinality(held) = 1 /\ held # {})
      BY <2>3, <2>4, AtMostOne
    <2>9. Cardinality(Loading(p)) + Cardinality(held) <= 1
      BY <2>7, <2>8
    <2> QED BY <2>5, <2>9 DEF held, Reserved
  <1> QED BY <1>1, Invariant, PTL

=============================================================================
