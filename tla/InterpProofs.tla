---------------------------- MODULE InterpProofs ----------------------------
(***************************************************************************)
(* What every step of Interp keeps, whatever instructions the program uses *)
(* and however wrong its counts: the state well typed, the collector's     *)
(* list of objects, the values that frames hold.  Then: for programs that  *)
(* keep to the instructions outside UncountedOps, the collector never      *)
(* frees what the interpreter can still reach, whatever the number of      *)
(* objects, the shape of the heap and the depth of the stack.              *)
(***************************************************************************)
EXTENDS Interp, FiniteSetTheorems, SequenceTheorems, TLAPS

-----------------------------------------------------------------------------
(* Finite sets of holders *)

LEMMA CellFinite == IsFiniteSet(Cell) /\ IsFiniteSet(ErrField)
  <1>1. IsFiniteSet(Idx)
    BY ConstAssumption, FS_Interval DEF Idx
  <1>2. IsFiniteSet(Cell)
    BY <1>1, ConstAssumption, FS_Product DEF Cell
  <1>3. IsFiniteSet({"left"} \cup {"right"})
    BY FS_Singleton, FS_AddElement
  <1>4. ErrField = {"left"} \cup {"right"}
    BY DEF ErrField
  <1> QED BY <1>2, <1>3, <1>4

LEMMA SubsetCount ==
  ASSUME NEW S, NEW T, IsFiniteSet(S), T \subseteq S
  PROVE  /\ IsFiniteSet(T)
         /\ Cardinality(T) \in Nat
         /\ Cardinality(S) \in Nat
         /\ Cardinality(T) <= Cardinality(S)
  BY FS_Subset, FS_CardinalityType

(* One more holder adds one at most. *)
LEMMA OneMore ==
  ASSUME NEW S, NEW T, NEW x, IsFiniteSet(S), T \subseteq S \cup {x}
  PROVE  Cardinality(T) <= Cardinality(S) + 1
  <1>1. IsFiniteSet(S \cup {x})
    BY FS_AddElement
  <1>2. Cardinality(S \cup {x}) = IF x \in S THEN Cardinality(S)
                                  ELSE Cardinality(S) + 1
    BY FS_AddElement
  <1>3. Cardinality(S) \in Nat
    BY FS_CardinalityType
  <1>4. /\ Cardinality(T) \in Nat
        /\ Cardinality(T) <= Cardinality(S \cup {x})
    BY <1>1, SubsetCount
  <1> QED BY <1>2, <1>3, <1>4

(* The holders of an object are finite, each kind of them. *)
LEMMA HoldersFinite ==
  ASSUME NEW o
  PROVE  /\ IsFiniteSet(CellsHolding(o)) /\ Cardinality(CellsHolding(o)) \in Nat
         /\ IsFiniteSet(ConstsHolding(o)) /\ Cardinality(ConstsHolding(o)) \in Nat
         /\ IsFiniteSet(ErrHolding(o)) /\ Cardinality(ErrHolding(o)) \in Nat
         /\ Holders(o) \in Nat
  <1>1. CellsHolding(o) \subseteq Cell /\ ConstsHolding(o) \subseteq Const
          /\ ErrHolding(o) \subseteq ErrField
    BY DEF CellsHolding, ConstsHolding, ErrHolding
  <1>2. IsFiniteSet(Const)
    BY ConstAssumption
  <1>3. /\ IsFiniteSet(CellsHolding(o)) /\ Cardinality(CellsHolding(o)) \in Nat
        /\ IsFiniteSet(ConstsHolding(o)) /\ Cardinality(ConstsHolding(o)) \in Nat
        /\ IsFiniteSet(ErrHolding(o)) /\ Cardinality(ErrHolding(o)) \in Nat
    BY <1>1, <1>2, CellFinite, SubsetCount
  <1> QED BY <1>3 DEF Holders

(* The same after a step. *)
LEMMA HoldersFinitePrime ==
  ASSUME NEW o
  PROVE  /\ IsFiniteSet(CellsHolding(o)') /\ Cardinality(CellsHolding(o)') \in Nat
         /\ IsFiniteSet(ConstsHolding(o)') /\ Cardinality(ConstsHolding(o)') \in Nat
         /\ IsFiniteSet(ErrHolding(o)') /\ Cardinality(ErrHolding(o)') \in Nat
         /\ Holders(o)' \in Nat
         /\ Holders(o)' = Cardinality(CellsHolding(o)')
              + Cardinality(ConstsHolding(o)') + Cardinality(ErrHolding(o)')
  <1>1. CellsHolding(o)' \subseteq Cell /\ ConstsHolding(o)' \subseteq Const
          /\ ErrHolding(o)' \subseteq ErrField
    BY DEF CellsHolding, ConstsHolding, ErrHolding
  <1>2. IsFiniteSet(Const)
    BY ConstAssumption
  <1>3. /\ IsFiniteSet(CellsHolding(o)') /\ Cardinality(CellsHolding(o)') \in Nat
        /\ IsFiniteSet(ConstsHolding(o)') /\ Cardinality(ConstsHolding(o)') \in Nat
        /\ IsFiniteSet(ErrHolding(o)') /\ Cardinality(ErrHolding(o)') \in Nat
    BY <1>1, <1>2, CellFinite, SubsetCount
  <1> QED BY <1>3 DEF Holders

(* An object nobody holds has no holders to count, and conversely. *)
LEMMA NoHolders ==
  ASSUME NEW o
  PROVE  Holders(o) = 0 <=> /\ \A x \in Cell : data[x] # o
                            /\ \A c \in Const : const_cache[c] # o
                            /\ \A e \in ErrField : err[e] # o
  <1>1. /\ CellsHolding(o) = {} <=> \A x \in Cell : data[x] # o
        /\ ConstsHolding(o) = {} <=> \A c \in Const : const_cache[c] # o
        /\ ErrHolding(o) = {} <=> \A e \in ErrField : err[e] # o
    BY DEF CellsHolding, ConstsHolding, ErrHolding
  <1>2. /\ CellsHolding(o) = {} <=> Cardinality(CellsHolding(o)) = 0
        /\ ConstsHolding(o) = {} <=> Cardinality(ConstsHolding(o)) = 0
        /\ ErrHolding(o) = {} <=> Cardinality(ErrHolding(o)) = 0
    BY HoldersFinite, FS_EmptySet
  <1> QED BY <1>1, <1>2, HoldersFinite DEF Holders

-----------------------------------------------------------------------------
(* Typing *)

LEMMA CountsTyped ==
  ASSUME NEW counts \in [Obj -> Nat], NEW many \in [Obj -> Nat]
  PROVE  Ref(counts, many) \in [Obj -> Nat] /\ Deref(counts, many) \in [Obj -> Nat]
  BY DEF Ref, Deref

LEMMA OnceTyped == \A v : Once(v) \in [Obj -> Nat]
  BY DEF Once

LEMMA PassedTyped ==
  ASSUME NEW args \in Arguments
  PROVE  Passed(args) \in [Obj -> Nat]
  <1>1. PICK S \in SUBSET Local : args \in [S -> Reg]
    BY DEF Arguments
  <1>2. IsFiniteSet(S)
    BY FS_Subset, ConstAssumption
  <1>3. \A x : Cardinality({p \in DOMAIN args : top(args[p]) = x}) \in Nat
    BY <1>1, <1>2, SubsetCount
  <1> QED BY <1>3 DEF Passed

LEMMA TopTyped ==
  ASSUME TypeOK, depth > 0
  PROVE  /\ depth \in 1 .. MaxDepth
         /\ \A s \in Slot : top(s) \in Val
  BY ConstAssumption DEF TypeOK, top

(* A step that stores a value into a slot of the top frame. *)
LEMMA SetSlotTyped ==
  ASSUME TypeOK, depth > 0, NEW s \in Slot, NEW v \in Val, SetSlot(s, v)
  PROVE  frames' \in [1 .. MaxDepth -> [Slot -> Val]]
  BY TopTyped DEF TypeOK, SetSlot

LEMMA PopTyped ==
  ASSUME TypeOK, depth > 0, Pop
  PROVE  /\ frames' \in [1 .. MaxDepth -> [Slot -> Val]]
         /\ depth' \in 0 .. MaxDepth
  <1>1. EmptyFrame \in [Slot -> Val]
    BY DEF EmptyFrame, Val
  <1>2. MaxDepth \in Nat
    BY ConstAssumption
  <1> QED BY <1>1, <1>2 DEF TypeOK, Pop

LEMMA MallocTyped ==
  ASSUME TypeOK, NEW o \in Obj, NEW k \in Kind, NEW n \in 0 .. MaxLen,
         Malloc(o, k, n)
  PROVE  /\ kind' \in [Obj -> Kind \cup {"free"}]
         /\ len' \in [Obj -> 0 .. MaxLen]
         /\ obj_list' \in Seq(Obj)
  BY DEF TypeOK, Malloc

LEMMA RemoveAtTyped ==
  ASSUME NEW s \in Seq(Obj), NEW i \in 1 .. Len(s)
  PROVE  RemoveAt(s, i) \in Seq(Obj)
  <1>1. SubSeq(s, 1, i - 1) \in Seq(Obj) /\ SubSeq(s, i + 1, Len(s)) \in Seq(Obj)
    OBVIOUS
  <1> QED BY <1>1 DEF RemoveAt

LEMMA InitTyped == Init => TypeOK
  <1>1. MaxDepth \in Nat \ {0} /\ MaxLen \in Nat
    BY ConstAssumption
  <1>2. EmptyFrame \in [Slot -> Val]
    BY DEF EmptyFrame, Val
  <1> QED BY <1>1, <1>2 DEF Init, TypeOK, Val

LEMMA CollectTyped ==
  ASSUME TypeOK, Collect
  PROVE  TypeOK'
  <1>1. CASE StartCollect
    BY <1>1 DEF TypeOK, StartCollect, Roots, heapvars, errvars
  <1>2. CASE SweepFree
    <2> DEFINE o == obj_list[cur]
    <2>1. cur \in 1 .. Len(obj_list) /\ o \in Obj
      BY <1>2 DEF SweepFree, Collecting, TypeOK
    <2>2. [x \in Obj |-> Cardinality(CellsOf(o, x))] \in [Obj -> Nat]
      <3>1. \A x : CellsOf(o, x) \subseteq Cell
        BY DEF CellsOf
      <3> QED BY <3>1, CellFinite, SubsetCount
    <2>3. rc' \in [Obj -> Nat]
      BY <1>2, <2>2, CountsTyped DEF SweepFree, TypeOK
    <2>4. obj_list' \in Seq(Obj)
      BY <1>2, <2>1, RemoveAtTyped DEF SweepFree, TypeOK
    <2>5. kind' \in [Obj -> Kind \cup {"free"}]
      <3>1. kind' = [kind EXCEPT ![o] = "free"]
        BY <1>2 DEF SweepFree
      <3> QED BY <3>1, <2>1 DEF TypeOK
    <2>7. len' \in [Obj -> 0 .. MaxLen]
      <3>1. len' = [len EXCEPT ![o] = 0]
        BY <1>2 DEF SweepFree
      <3> HIDE DEF o
      <3> QED BY <3>1, <2>1, ConstAssumption DEF TypeOK
    <2>6. data' \in [Cell -> Val]
      BY <1>2 DEF SweepFree, TypeOK, Val
    <2> QED BY <1>2, <2>3, <2>4, <2>5, <2>6, <2>7 DEF SweepFree, TypeOK, gcvars, errvars
  <1>3. CASE SweepKeep
    BY <1>3 DEF TypeOK, SweepKeep, heapvars, errvars
  <1>4. CASE SweepEnd
    BY <1>4 DEF TypeOK, SweepEnd, heapvars, errvars
  <1> QED BY <1>1, <1>2, <1>3, <1>4 DEF Collect, Sweep

(* Slots and running frames, as the instructions use them. *)
LEMMA RunningFrame ==
  ASSUME TypeOK, Running
  PROVE  depth > 0 /\ depth \in 1 .. MaxDepth
  BY TopTyped DEF Running

LEMMA SlotNames == Reg \subseteq Slot /\ Local \subseteq Slot /\ Self \in Slot
  BY DEF Slot

(* Instructions that only write a slot of the top frame. *)
LEMMA MoveTyped ==
  ASSUME TypeOK,
         \/ \E src, dst \in Reg \cup Local : Move(src, dst)
         \/ \E dst \in Reg : MovImmediate(dst)
         \/ LoadSelf
         \/ \E i \in Idx, r \in Reg : ClassGetInner(i, r)
  PROVE  TypeOK'
  <1>1. Running /\ depth > 0 /\ \A s \in Slot : top(s) \in Val
    BY TopTyped, RunningFrame
    DEF Move, MovImmediate, LoadSelf, ClassGetInner, Executes
  <1>2. /\ UNCHANGED <<heapvars, gcvars, depth, const_cache, errvars>>
        /\ \E s \in Slot, v \in Val : SetSlot(s, v)
    <2>1. CASE \E src, dst \in Reg \cup Local : Move(src, dst)
      BY <2>1, <1>1, SlotNames DEF Move
    <2>2. CASE \E dst \in Reg : MovImmediate(dst)
      BY <2>2, SlotNames DEF MovImmediate, Val
    <2>3. CASE LoadSelf
      BY <2>3, <1>1, SlotNames, ConstAssumption DEF LoadSelf
    <2>4. CASE \E i \in Idx, r \in Reg : ClassGetInner(i, r)
      <3>1. PICK i \in Idx, r \in Reg : ClassGetInner(i, r)
        BY <2>4
      <3>2. <<top(Self), i>> \in Cell
        BY <3>1, <1>1, SlotNames DEF ClassGetInner, Val, Cell
      <3> QED BY <3>1, <3>2, SlotNames DEF ClassGetInner, TypeOK
    <2> QED BY <2>1, <2>2, <2>3, <2>4
  <1>3. frames' \in [1 .. MaxDepth -> [Slot -> Val]]
    BY <1>1, <1>2, SetSlotTyped
  <1> QED BY <1>2, <1>3 DEF TypeOK, heapvars, gcvars, errvars

LEMMA ConstTyped ==
  ASSUME TypeOK,
         \/ \E c \in Const, dst \in Reg, o \in Obj : LoadConst(c, dst, o)
         \/ \E src \in Reg, c \in Const : SetConst(src, c)
  PROVE  TypeOK'
  <1>1. CASE \E c \in Const, dst \in Reg, o \in Obj : LoadConst(c, dst, o)
    <2>1. PICK c \in Const, dst \in Reg, o \in Obj : LoadConst(c, dst, o)
      BY <1>1
    <2>2. depth > 0
      BY <2>1, RunningFrame DEF LoadConst, Executes
    <2>3. frames' \in [1 .. MaxDepth -> [Slot -> Val]]
      BY <2>1, <2>2, SetSlotTyped, SlotNames DEF LoadConst, TypeOK, Val
    <2>4. CASE const_cache[c] # None /\ UNCHANGED <<heapvars, const_cache>>
      BY <2>1, <2>3, <2>4 DEF LoadConst, TypeOK, heapvars, gcvars, errvars
    <2>5. CASE /\ Malloc(o, "str", 0)
               /\ rc' = [rc EXCEPT ![o] = 1]
               /\ const_cache' = [const_cache EXCEPT ![c] = o]
               /\ UNCHANGED data
      <3>1. "str" \in Kind /\ 0 \in 0 .. MaxLen
        BY ConstAssumption DEF Kind
      <3>2. /\ kind' \in [Obj -> Kind \cup {"free"}]
            /\ len' \in [Obj -> 0 .. MaxLen]
            /\ obj_list' \in Seq(Obj)
        BY <2>5, <3>1, MallocTyped
      <3>3. rc' \in [Obj -> Nat] /\ const_cache' \in [Const -> Val]
        BY <2>5 DEF TypeOK, Val
      <3> QED BY <2>1, <2>3, <2>5, <3>2, <3>3
              DEF LoadConst, TypeOK, gcvars, errvars
    <2> QED BY <2>1, <2>4, <2>5 DEF LoadConst
  <1>2. CASE \E src \in Reg, c \in Const : SetConst(src, c)
    <2>1. PICK src \in Reg, c \in Const : SetConst(src, c)
      BY <1>2
    <2>2. top(src) \in Val
      BY <2>1, TopTyped, RunningFrame, SlotNames DEF SetConst, Executes
    <2> QED BY <2>1, <2>2 DEF SetConst, TypeOK, heapvars, gcvars, errvars
  <1> QED BY <1>1, <1>2

LEMMA NewTyped ==
  ASSUME TypeOK, NEW op, NEW o \in Obj, NEW k \in Kind, NEW n \in 0 .. MaxLen,
         NEW dst \in Reg, New(op, o, k, n, dst)
  PROVE  TypeOK'
  <1>1. depth > 0
    BY RunningFrame DEF New, Executes
  <1>2. frames' \in [1 .. MaxDepth -> [Slot -> Val]]
    BY <1>1, SetSlotTyped, SlotNames DEF New, Val
  <1>3. /\ kind' \in [Obj -> Kind \cup {"free"}]
        /\ len' \in [Obj -> 0 .. MaxLen]
        /\ obj_list' \in Seq(Obj)
    BY MallocTyped DEF New
  <1>4. rc' \in [Obj -> Nat]
    BY DEF New, TypeOK
  <1> QED BY <1>2, <1>3, <1>4 DEF New, TypeOK, gcvars, errvars

(* What the initialisers of a structure count. *)
InitValue(inits, dst, o, i) == IF inits[i] = dst THEN o ELSE top(inits[i])
InitCount(inits, dst, o, v) ==
  Cardinality({i \in DOMAIN inits : InitValue(inits, dst, o, i) = v})

LEMMA InitializersTyped ==
  ASSUME NEW inits \in Fields, NEW dst \in Reg, NEW o \in Obj
  PROVE  /\ IsFiniteSet(DOMAIN inits) /\ DOMAIN inits \subseteq Idx
         /\ \A i \in DOMAIN inits : inits[i] \in Reg
         /\ \A v : InitCount(inits, dst, o, v) \in Nat
  <1>1. PICK S \in SUBSET Idx : inits \in [S -> Reg]
    BY DEF Fields
  <1>2. IsFiniteSet(Idx)
    BY FS_Interval, ConstAssumption DEF Idx
  <1>3. IsFiniteSet(S)
    BY <1>2, FS_Subset
  <1>4. \A v : InitCount(inits, dst, o, v) \in Nat
    BY <1>1, <1>3, SubsetCount DEF InitCount
  <1> QED BY <1>1, <1>3, <1>4

LEMMA ClassNewInitializedTyped ==
  ASSUME TypeOK, NEW dst \in Reg, NEW class_id \in Idx, NEW inits \in Fields,
         NEW o \in Obj, ClassNewInitialized(dst, class_id, inits, o)
  PROVE  TypeOK'
  <1>1. depth > 0
    BY RunningFrame DEF ClassNewInitialized, Executes
  <1>2. frames' \in [1 .. MaxDepth -> [Slot -> Val]]
    BY <1>1, SetSlotTyped, SlotNames DEF ClassNewInitialized, Val
  <1>3. "class" \in Kind /\ MaxLen \in 0 .. MaxLen
    BY ConstAssumption DEF Kind
  <1>4. /\ kind' \in [Obj -> Kind \cup {"free"}]
        /\ len' \in [Obj -> 0 .. MaxLen]
        /\ obj_list' \in Seq(Obj)
    BY <1>3, MallocTyped DEF ClassNewInitialized
  <1>5. \A i \in DOMAIN inits : InitValue(inits, dst, o, i) \in Val
    BY <1>1, TopTyped, InitializersTyped, SlotNames DEF InitValue, Val
  <1>6. data' \in [Cell -> Val]
    <2>1. data' = [x \in Cell |->
             IF x[1] = o /\ x[2] \in {class_id} \cup DOMAIN inits
               THEN IF x[2] \in DOMAIN inits THEN InitValue(inits, dst, o, x[2]) ELSE o
               ELSE data[x]]
      BY DEF ClassNewInitialized, InitValue
    <2> QED BY <2>1, <1>5 DEF TypeOK, Val
  <1>7. rc' \in [Obj -> Nat]
    <2>1. rc' = [x \in Obj |-> [rc EXCEPT ![o] = 0][x]
                   + (InitCount(inits, dst, o, x) + (IF x = o THEN 1 ELSE 0))]
      BY DEF ClassNewInitialized, Ref, InitCount, InitValue
    <2> QED BY <2>1, InitializersTyped DEF TypeOK
  <1> QED BY <1>2, <1>4, <1>6, <1>7
          DEF ClassNewInitialized, TypeOK, gcvars, errvars

(* Instructions on the cells of one object. *)
LEMMA AppendTyped ==
  ASSUME TypeOK, NEW op, NEW k, NEW dst \in Reg, NEW src \in Reg,
         Append1(op, k, dst, src)
  PROVE  TypeOK'
  <1> DEFINE a == top(dst)
             v == top(src)
  <1>1. depth > 0
    BY RunningFrame DEF Append1, Executes
  <1>2. a \in Obj /\ v \in Val
    BY <1>1, TopTyped, SlotNames DEF Append1, Val
  <1>3. /\ rc' = Ref(rc, Once(v))
        /\ data' = [data EXCEPT ![<<a, len[a] + 1>>] = v]
        /\ len' = [len EXCEPT ![a] = @ + 1]
        /\ len[a] < MaxLen
        /\ UNCHANGED <<kind, obj_list, gcvars, frames, depth, const_cache, errvars>>
    BY DEF Append1
  <1> HIDE DEF a, v
  <1>4. rc' \in [Obj -> Nat]
    BY <1>3, OnceTyped, CountsTyped DEF TypeOK
  <1>5. data' \in [Cell -> Val]
    BY <1>2, <1>3 DEF TypeOK
  <1>6. len' \in [Obj -> 0 .. MaxLen]
    BY <1>2, <1>3, ConstAssumption DEF TypeOK
  <1> QED BY <1>3, <1>4, <1>5, <1>6 DEF TypeOK, gcvars, errvars

LEMMA IndexTyped ==
  ASSUME TypeOK, NEW col \in Reg, NEW r \in Reg, NEW i \in Idx,
         IdxGet(col, i, r) \/ IdxSet(col, i, r)
  PROVE  TypeOK'
  <1>1. depth > 0
    BY RunningFrame DEF IdxGet, IdxSet, Executes
  <1>2. top(col) \in Obj /\ top(r) \in Val
    BY <1>1, TopTyped, SlotNames DEF IdxGet, IdxSet, Val
  <1>3. <<top(col), i>> \in Cell
    BY <1>2 DEF Cell
  <1>4. CASE IdxGet(col, i, r)
    <2>1. data[<<top(col), i>>] \in Val
      BY <1>3 DEF TypeOK
    <2>2. frames' \in [1 .. MaxDepth -> [Slot -> Val]]
      BY <1>1, <1>4, <2>1, SetSlotTyped, SlotNames DEF IdxGet
    <2>3. rc' \in [Obj -> Nat]
      BY <1>4, OnceTyped, CountsTyped DEF IdxGet, TypeOK
    <2> QED BY <1>4, <2>2, <2>3 DEF IdxGet, TypeOK, gcvars, errvars
  <1>5. CASE IdxSet(col, i, r)
    <2>1. data' \in [Cell -> Val]
      BY <1>2, <1>3, <1>5 DEF IdxSet, TypeOK
    <2>2. rc' \in [Obj -> Nat]
      <3>1. Ref(rc, Once(top(r))) \in [Obj -> Nat]
        BY OnceTyped, CountsTyped DEF TypeOK
      <3> QED BY <1>5, <3>1, OnceTyped, CountsTyped DEF IdxSet
    <2> QED BY <1>5, <2>1, <2>2 DEF IdxSet, TypeOK, gcvars, errvars
  <1> QED BY <1>4, <1>5

LEMMA ClassSetInnerTyped ==
  ASSUME TypeOK, NEW i \in Idx, NEW src \in Reg, ClassSetInner(i, src)
  PROVE  TypeOK'
  <1>1. depth > 0
    BY RunningFrame DEF ClassSetInner, Executes
  <1>2. top(src) \in Val
    BY <1>1, TopTyped, SlotNames
  <1>3. data' \in [Cell -> Val]
    BY <1>2 DEF ClassSetInner, TypeOK
  <1> QED BY <1>3 DEF ClassSetInner, TypeOK, gcvars, errvars

LEMMA CallTyped ==
  ASSUME TypeOK, NEW args \in Arguments, Call(args)
  PROVE  TypeOK'
  <1>1. depth > 0 /\ depth \in 1 .. MaxDepth
    BY RunningFrame DEF Call, Executes
  <1>2. \A s \in DOMAIN args : args[s] \in Slot
    BY SlotNames DEF Arguments
  <1>3. \A s \in DOMAIN args : top(args[s]) \in Val
    BY <1>1, <1>2, TopTyped
  <1>4. frames' \in [1 .. MaxDepth -> [Slot -> Val]]
    <2>1. [s \in Slot |-> IF s \in DOMAIN args THEN top(args[s]) ELSE None]
             \in [Slot -> Val]
      BY <1>3 DEF Val
    <2> QED BY <2>1 DEF Call, TypeOK
  <1>5. depth' \in 0 .. MaxDepth
    BY <1>1, ConstAssumption DEF Call
  <1>6. rc' \in [Obj -> Nat]
    BY PassedTyped, CountsTyped DEF Call, TypeOK
  <1> QED BY <1>4, <1>5, <1>6 DEF Call, TypeOK, gcvars, errvars

LEMMA ReturnTyped ==
  ASSUME TypeOK,
         \/ \E src \in Reg \cup Local, dst \in Reg : Return(src, dst)
         \/ \E dst \in Reg : ReturnNull(dst)
  PROVE  TypeOK'
  <1>1. Running /\ depth > 0 /\ depth \in 1 .. MaxDepth
    BY RunningFrame DEF Return, ReturnNull, Executes
  <1>2. PICK dst \in Reg, v \in Val :
          /\ frames' = [d \in 1 .. MaxDepth |->
                CASE d = depth -> EmptyFrame
                  [] d = depth - 1 -> [frames[d] EXCEPT ![dst] = v]
                  [] OTHER -> frames[d]]
          /\ depth' = depth - 1
          /\ UNCHANGED <<heapvars, gcvars, const_cache, errvars>>
    <2>1. CASE \E src \in Reg \cup Local, dst \in Reg : Return(src, dst)
      <3>1. PICK src \in Reg \cup Local, dst \in Reg : Return(src, dst)
        BY <2>1
      <3>2. top(src) \in Val
        BY <1>1, TopTyped, SlotNames
      <3> QED BY <3>1, <3>2 DEF Return
    <2>2. CASE \E dst \in Reg : ReturnNull(dst)
      BY <2>2 DEF ReturnNull, Val
    <2> QED BY <2>1, <2>2
  <1>3. frames' \in [1 .. MaxDepth -> [Slot -> Val]]
    <2>1. EmptyFrame \in [Slot -> Val]
      BY DEF EmptyFrame, Val
    <2>2. \A d \in 1 .. MaxDepth : [frames[d] EXCEPT ![dst] = v] \in [Slot -> Val]
      BY DEF TypeOK
    <2> QED BY <1>2, <2>1, <2>2 DEF TypeOK
  <1>4. depth' \in 0 .. MaxDepth
    BY <1>1, <1>2, ConstAssumption
  <1> QED BY <1>2, <1>3, <1>4 DEF TypeOK, heapvars, gcvars, errvars

LEMMA NativeTyped ==
  ASSUME TypeOK,
         \/ \E args \in Arguments, dst \in Reg : NativeRead(args, dst)
         \/ \E arr, src, dst \in Reg : NativeArrayPush(arr, src, dst)
         \/ \E arr, dst \in Reg : NativeArrayPop(arr, dst)
  PROVE  TypeOK'
  <1>1. \A c \in [Obj -> Nat] : \A v :
           Ref(c, Once(v)) \in [Obj -> Nat] /\ Deref(c, Once(v)) \in [Obj -> Nat]
    BY OnceTyped, CountsTyped
  <1>2. CASE \E args \in Arguments, dst \in Reg : NativeRead(args, dst)
    <2>1. PICK args \in Arguments, dst \in Reg : NativeRead(args, dst)
      BY <1>2
    <2>2. frames' \in [1 .. MaxDepth -> [Slot -> Val]]
      BY <2>1, RunningFrame, SetSlotTyped, SlotNames DEF NativeRead, Executes, Val
    <2>3. /\ Ref(rc, Passed(args)) \in [Obj -> Nat]
          /\ Deref(Ref(rc, Passed(args)), Passed(args)) \in [Obj -> Nat]
      BY PassedTyped, CountsTyped DEF TypeOK
    <2>4. rc' \in [Obj -> Nat]
      BY <2>1, <2>3, PassedTyped, CountsTyped DEF NativeRead
    <2> QED BY <2>1, <2>2, <2>4 DEF NativeRead, TypeOK, gcvars, errvars
  <1>3. CASE \E arr, src, dst \in Reg : NativeArrayPush(arr, src, dst)
    <2>1. PICK arr \in Reg, src \in Reg, dst \in Reg : NativeArrayPush(arr, src, dst)
      BY <1>3
    <2>2. depth > 0
      BY <2>1, RunningFrame DEF NativeArrayPush, Executes
    <2>3. top(arr) \in Obj /\ top(src) \in Val
      BY <2>1, <2>2, TopTyped, SlotNames DEF NativeArrayPush, Val
    <2>4. frames' \in [1 .. MaxDepth -> [Slot -> Val]]
      BY <2>1, <2>2, <2>3, SetSlotTyped, SlotNames DEF NativeArrayPush, Val
    <2>5. rc' \in [Obj -> Nat]
      BY <2>1, <1>1 DEF NativeArrayPush, TypeOK
    <2>6. data' \in [Cell -> Val]
      BY <2>1, <2>3 DEF NativeArrayPush, TypeOK
    <2>7. len' \in [Obj -> 0 .. MaxLen]
      BY <2>1, <2>3, ConstAssumption DEF NativeArrayPush, TypeOK
    <2> QED BY <2>1, <2>4, <2>5, <2>6, <2>7
            DEF NativeArrayPush, TypeOK, gcvars, errvars
  <1>4. CASE \E arr, dst \in Reg : NativeArrayPop(arr, dst)
    <2>1. PICK arr \in Reg, dst \in Reg : NativeArrayPop(arr, dst)
      BY <1>4
    <2> DEFINE x == <<top(arr), len[top(arr)]>>
    <2>2. depth > 0
      BY <2>1, RunningFrame DEF NativeArrayPop, Executes
    <2>3. top(arr) \in Obj /\ len[top(arr)] \in Idx
      BY <2>1, <2>2, TopTyped, SlotNames, ConstAssumption
      DEF NativeArrayPop, Val, TypeOK, Idx
    <2>4. data[x] \in Val
      BY <2>3 DEF TypeOK, Cell
    <2>5. frames' \in [1 .. MaxDepth -> [Slot -> Val]]
      BY <2>1, <2>2, <2>4, SetSlotTyped, SlotNames DEF NativeArrayPop
    <2>6. rc' \in [Obj -> Nat]
      BY <2>1, <1>1 DEF NativeArrayPop, TypeOK
    <2>7. data' \in [Cell -> Val]
      BY <2>1 DEF NativeArrayPop, TypeOK, Val
    <2>8. len' \in [Obj -> 0 .. MaxLen]
      BY <2>1, <2>3, ConstAssumption DEF NativeArrayPop, TypeOK
    <2> QED BY <2>1, <2>5, <2>6, <2>7, <2>8
            DEF NativeArrayPop, TypeOK, gcvars, errvars
  <1> QED BY <1>2, <1>3, <1>4

LEMMA ErrorTyped ==
  ASSUME TypeOK,
         \/ \E src \in Reg : Raise(src)
         \/ \E l, r \in Reg : Fault(l, r)
         \/ Propagate
         \/ \E dst \in Reg : Catch(dst)
  PROVE  TypeOK'
  <1>1. \A c \in [Obj -> Nat] : \A v : Ref(c, Once(v)) \in [Obj -> Nat]
    BY OnceTyped, CountsTyped
  <1>2. CASE \E src \in Reg : Raise(src)
    <2>1. PICK src \in Reg : Raise(src)
      BY <1>2
    <2>2. depth > 0 /\ top(src) \in Val
      BY <2>1, RunningFrame, TopTyped, SlotNames DEF Raise, Executes
    <2>3. rc' \in [Obj -> Nat] /\ err' \in [ErrField -> Val]
      BY <2>1, <2>2, <1>1 DEF Raise, TypeOK
    <2>4. /\ frames' \in [1 .. MaxDepth -> [Slot -> Val]]
          /\ depth' \in 0 .. MaxDepth
      BY <2>1, <2>2, PopTyped DEF Raise
    <2> QED BY <2>1, <2>3, <2>4 DEF Raise, TypeOK, gcvars
  <1>3. CASE \E l, r \in Reg : Fault(l, r)
    <2>1. PICK l \in Reg, r \in Reg : Fault(l, r)
      BY <1>3
    <2>2. depth > 0 /\ top(l) \in Val /\ top(r) \in Val
      BY <2>1, RunningFrame, TopTyped, SlotNames DEF Fault
    <2>3. rc' \in [Obj -> Nat] /\ err' \in [ErrField -> Val]
      BY <2>1, <2>2, <1>1 DEF Fault, TypeOK
    <2>4. /\ frames' \in [1 .. MaxDepth -> [Slot -> Val]]
          /\ depth' \in 0 .. MaxDepth
      BY <2>1, <2>2, PopTyped DEF Fault
    <2> QED BY <2>1, <2>3, <2>4 DEF Fault, TypeOK, gcvars
  <1>4. CASE Propagate
    <2>1. /\ frames' \in [1 .. MaxDepth -> [Slot -> Val]]
          /\ depth' \in 0 .. MaxDepth
      BY <1>4, PopTyped DEF Propagate
    <2> QED BY <1>4, <2>1 DEF Propagate, TypeOK, heapvars, gcvars, errvars
  <1>5. CASE \E dst \in Reg : Catch(dst)
    <2>1. PICK dst \in Reg : Catch(dst)
      BY <1>5
    <2>2. frames' \in [1 .. MaxDepth -> [Slot -> Val]]
      <3>1. err["left"] \in Val
        BY DEF TypeOK, ErrField
      <3> QED BY <2>1, <3>1, SetSlotTyped, SlotNames DEF Catch
    <2> QED BY <2>1, <2>2 DEF Catch, TypeOK, Val, heapvars, gcvars
  <1> QED BY <1>2, <1>3, <1>4, <1>5

LEMMA DelConstCacheTyped ==
  ASSUME TypeOK, DelConstCache
  PROVE  TypeOK'
  <1>1. [x \in Obj |-> Cardinality(ConstsHolding(x))] \in [Obj -> Nat]
    BY HoldersFinite
  <1>2. rc' \in [Obj -> Nat]
    BY <1>1, CountsTyped DEF DelConstCache, TypeOK
  <1> QED BY <1>2 DEF DelConstCache, TypeOK, Val, gcvars, errvars

LEMMA InstructionTyped ==
  ASSUME TypeOK, Instruction
  PROVE  TypeOK'
  <1>1. CASE \/ \E src, dst \in Reg \cup Local : Move(src, dst)
             \/ \E dst \in Reg : MovImmediate(dst)
             \/ LoadSelf
             \/ \E i \in Idx, r \in Reg : ClassGetInner(i, r)
    BY <1>1, MoveTyped
  <1>2. CASE \/ \E c \in Const, dst \in Reg, o \in Obj : LoadConst(c, dst, o)
             \/ \E src \in Reg, c \in Const : SetConst(src, c)
    BY <1>2, ConstTyped
  <1>3. CASE \/ \E l, r, dst \in Reg, o \in Obj : StringOp(l, r, dst, o)
             \/ \E dst \in Reg, o \in Obj : ArrayNew(dst, o)
             \/ \E dst \in Reg, n \in Idx, o \in Obj : TupleNew(dst, n, o)
             \/ \E dst \in Reg, o \in Obj : ClassNew(dst, o)
             \/ \E dst \in Reg, o \in Obj : LoadFunc(dst, o)
    <2>1. /\ {"str", "array", "tuple", "class", "fn"} \subseteq Kind
          /\ 0 \in 0 .. MaxLen /\ MaxLen \in 0 .. MaxLen
          /\ \A n \in Idx : n \in 0 .. MaxLen
      BY ConstAssumption DEF Kind, Idx
    <2> QED BY <1>3, <2>1, NewTyped
            DEF StringOp, ArrayNew, TupleNew, ClassNew, LoadFunc
  <1>4. CASE \E dst \in Reg, i \in Idx, inits \in Fields, o \in Obj :
               ClassNewInitialized(dst, i, inits, o)
    BY <1>4, ClassNewInitializedTyped
  <1>5. CASE \E dst, src \in Reg : ArrayPush(dst, src) \/ BindArg(dst, src)
    BY <1>5, AppendTyped DEF ArrayPush, BindArg
  <1>6. CASE \E col, r \in Reg, i \in Idx : IdxGet(col, i, r) \/ IdxSet(col, i, r)
    BY <1>6, IndexTyped
  <1>7. CASE \E i \in Idx, r \in Reg : ClassSetInner(i, r)
    BY <1>7, ClassSetInnerTyped
  <1>8. CASE \E args \in Arguments : Call(args)
    BY <1>8, CallTyped
  <1>9. CASE \/ \E src \in Reg \cup Local, dst \in Reg : Return(src, dst)
             \/ \E dst \in Reg : ReturnNull(dst)
    BY <1>9, ReturnTyped
  <1>10. CASE \/ \E args \in Arguments, dst \in Reg : NativeRead(args, dst)
              \/ \E arr, src, dst \in Reg : NativeArrayPush(arr, src, dst)
              \/ \E arr, dst \in Reg : NativeArrayPop(arr, dst)
    BY <1>10, NativeTyped
  <1>11. CASE \/ \E src \in Reg : Raise(src)
              \/ \E l, r \in Reg : Fault(l, r)
    BY <1>11, ErrorTyped
  <1> QED BY <1>1, <1>2, <1>3, <1>4, <1>5, <1>6, <1>7, <1>8, <1>9, <1>10, <1>11
          DEF Instruction

LEMMA NextTyped ==
  ASSUME TypeOK, [Next]_vars
  PROVE  TypeOK'
  <1>1. CASE Collect
    BY <1>1, CollectTyped
  <1>2. CASE Instruction
    BY <1>2, InstructionTyped
  <1>3. CASE Propagate \/ \E dst \in Reg : Catch(dst)
    BY <1>3, ErrorTyped
  <1>4. CASE DelConstCache
    BY <1>4, DelConstCacheTyped
  <1>5. CASE UNCHANGED vars
    BY <1>5 DEF vars, heapvars, gcvars, errvars, TypeOK
  <1> QED BY <1>1, <1>2, <1>3, <1>4, <1>5 DEF Next

(***************************************************************************)
(* Any bytecode program over any subset of the instructions keeps counts   *)
(* natural numbers, cells and slots values, and the stack within its       *)
(* bound.                                                                  *)
(***************************************************************************)
THEOREM Typing == Spec => []TypeOK
  <1>1. Init => TypeOK
    BY InitTyped
  <1>2. TypeOK /\ [Next]_vars => TypeOK'
    BY NextTyped
  <1> QED BY <1>1, <1>2, PTL DEF Spec

-----------------------------------------------------------------------------
(* What the collector keeps whatever the program does to the counts: its   *)
(* list of objects, and the values that the frames hold directly.          *)

(* The inductive invariant: while a sweep runs, the marks it goes by cover *)
(* what should_free must not take from the frames.                         *)
MarksHold ==
  Collecting => \A o \in Obj, d \in 1 .. depth, s \in Slot :
    frames[d][s] = o /\ (s = Self \/ Markable(o)) => o \in marked

HeapInv == TypeOK /\ ListIntegrity /\ MarksHold

(* What KeepsFrameValues says of one step. *)
SparesFrames ==
  \A o \in Obj : Live(o) /\ kind'[o] = "free" =>
    \A d \in 1 .. depth, s \in Slot : frames[d][s] = o => kind[o] = "fn" /\ s # Self

-----------------------------------------------------------------------------
(* Sequences that name each object once *)

LEMMA RemoveAtElements ==
  ASSUME NEW s \in Seq(Obj), NEW i \in 1 .. Len(s)
  PROVE  /\ Len(s) \in Nat \ {0} /\ Len(RemoveAt(s, i)) = Len(s) - 1
         /\ \A k \in 1 .. Len(s) - 1 : RemoveAt(s, i)[k] = IF k < i THEN s[k] ELSE s[k + 1]
  <1> DEFINE n == Len(s)
             low == SubSeq(s, 1, i - 1)
             high == SubSeq(s, i + 1, n)
  <1>1. n \in Nat \ {0} /\ i \in 1 .. n
    BY LenProperties
  <1>2. \A k \in 1 .. n : s[k] \in Obj
    BY ElementOfSeq
  <1>3. low \in Seq(Obj) /\ Len(low) = i - 1 /\ \A k \in 1 .. i - 1 : low[k] = s[k]
    <2>1. 1 \in Int /\ i - 1 \in Int /\ \A k \in 1 .. i - 1 : s[k] \in Obj
      BY <1>1, <1>2
    <2>2. /\ low \in Seq(Obj)
          /\ Len(low) = IF 1 <= i - 1 THEN (i - 1) - 1 + 1 ELSE 0
          /\ \A k \in 1 .. (i - 1) - 1 + 1 : low[k] = s[1 + k - 1]
      BY <2>1, SubSeqProperties
    <2> HIDE DEF low
    <2>3. (i - 1) - 1 + 1 = i - 1 /\ \A k \in 1 .. i - 1 : 1 + k - 1 = k
      BY <1>1
    <2> QED BY <1>1, <2>2, <2>3
  <1>4. high \in Seq(Obj) /\ Len(high) = n - i /\ \A k \in 1 .. n - i : high[k] = s[i + k]
    <2>1. i + 1 \in Int /\ n \in Int /\ \A k \in i + 1 .. n : s[k] \in Obj
      BY <1>1, <1>2
    <2>2. /\ high \in Seq(Obj)
          /\ Len(high) = IF i + 1 <= n THEN n - (i + 1) + 1 ELSE 0
          /\ \A k \in 1 .. n - (i + 1) + 1 : high[k] = s[(i + 1) + k - 1]
      BY <2>1, SubSeqProperties
    <2> HIDE DEF high, n
    <2>3. n - (i + 1) + 1 = n - i /\ \A k \in 1 .. n - i : (i + 1) + k - 1 = i + k
      BY <1>1
    <2> QED BY <1>1, <2>2, <2>3
  <1> HIDE DEF low, high, n
  <1>5. /\ Len(low \o high) = Len(low) + Len(high)
        /\ \A k \in 1 .. Len(low) + Len(high) :
             (low \o high)[k] = IF k <= Len(low) THEN low[k] ELSE high[k - Len(low)]
    BY <1>3, <1>4, ConcatProperties
  <1>6. RemoveAt(s, i) = low \o high
    BY DEF RemoveAt, low, high, n
  <1>7. Len(low) + Len(high) = n - 1
    BY <1>1, <1>3, <1>4
  <1>8. ASSUME NEW k \in 1 .. n - 1
        PROVE  (low \o high)[k] = IF k < i THEN s[k] ELSE s[k + 1]
    <2>1. CASE k < i
      <3>1. k <= i - 1 /\ k \in 1 .. i - 1
        BY <1>1, <2>1
      <3> QED BY <1>3, <1>5, <1>7, <2>1, <3>1
    <2>2. CASE ~(k < i)
      <3>1. ~(k <= i - 1) /\ k - (i - 1) \in 1 .. n - i /\ i + (k - (i - 1)) = k + 1
        BY <1>1, <2>2
      <3> QED BY <1>3, <1>4, <1>5, <1>7, <2>2, <3>1
    <2> QED BY <2>1, <2>2
  <1> QED BY <1>1, <1>5, <1>6, <1>7, <1>8 DEF n

(* The list names its objects once each and all that are allocated. *)
LEMMA ListIs ==
  ASSUME TypeOK
  PROVE  ListIntegrity <=>
           /\ \A j, k \in 1 .. Len(obj_list) : obj_list[j] = obj_list[k] => j = k
           /\ \A o \in Obj : kind[o] # "free" <=> \E k \in 1 .. Len(obj_list) : obj_list[k] = o
           /\ cur <= Len(obj_list) + 1
  <1>1. /\ DOMAIN obj_list = 1 .. Len(obj_list)
        /\ \A k \in 1 .. Len(obj_list) : obj_list[k] \in Obj
    BY LenProperties, ElementOfSeq DEF TypeOK
  <1>2. \A o \in Obj : Live(o) <=> kind[o] # "free"
    BY ConstAssumption DEF Live
  <1>3. ToSet(obj_list) = {o \in Obj : Live(o)} <=>
          \A o \in Obj : kind[o] # "free" <=> \E k \in 1 .. Len(obj_list) : obj_list[k] = o
    BY <1>1, <1>2 DEF ToSet
  <1> QED BY <1>1, <1>3 DEF ListIntegrity, IsInjective

LEMMA ListIsPrime ==
  ASSUME TypeOK'
  PROVE  ListIntegrity' <=>
           /\ \A j, k \in 1 .. Len(obj_list') : obj_list'[j] = obj_list'[k] => j = k
           /\ \A o \in Obj : kind'[o] # "free"
                 <=> \E k \in 1 .. Len(obj_list') : obj_list'[k] = o
           /\ cur' <= Len(obj_list') + 1
  <1>1. /\ DOMAIN obj_list' = 1 .. Len(obj_list')
        /\ \A k \in 1 .. Len(obj_list') : obj_list'[k] \in Obj
    BY LenProperties, ElementOfSeq DEF TypeOK
  <1>2. \A o \in Obj : Live(o)' <=> kind'[o] # "free"
    BY ConstAssumption DEF Live
  <1>3. ToSet(obj_list') = {o \in Obj : Live(o)'} <=>
          \A o \in Obj : kind'[o] # "free" <=> \E k \in 1 .. Len(obj_list') : obj_list'[k] = o
    BY <1>1, <1>2 DEF ToSet
  <1> QED BY <1>1, <1>3 DEF ListIntegrity, IsInjective

-----------------------------------------------------------------------------
(* What the steps of the program do to the heap *)

Allocates == \E o \in Obj, k \in Kind, n \in 0 .. MaxLen : Malloc(o, k, n)

(* Outside a collection nothing is freed and the list only grows. *)
Mutates ==
  /\ ~Collecting
  /\ UNCHANGED gcvars
  /\ UNCHANGED <<kind, obj_list>> \/ Allocates

LEMMA KindNames ==
  /\ "str" \in Kind /\ "array" \in Kind /\ "tuple" \in Kind /\ "class" \in Kind /\ "fn" \in Kind
  /\ "free" \notin Kind
  /\ 0 \in 0 .. MaxLen /\ MaxLen \in 0 .. MaxLen /\ Idx \subseteq 0 .. MaxLen
  BY ConstAssumption DEF Kind, Idx

LEMMA InstructionMutates ==
  ASSUME Instruction
  PROVE  Mutates
  <1> USE KindNames
  <1> USE DEF Mutates, Executes, Running, gcvars, heapvars
  <1>1. ASSUME NEW src \in Reg \cup Local, NEW dst \in Reg \cup Local, Move(src, dst)
        PROVE  Mutates
    BY <1>1 DEF Move
  <1>2. ASSUME NEW dst \in Reg, MovImmediate(dst)
        PROVE  Mutates
    BY <1>2 DEF MovImmediate
  <1>3. CASE LoadSelf
    BY <1>3 DEF LoadSelf
  <1>4. ASSUME NEW c \in Const, NEW dst \in Reg, NEW o \in Obj, LoadConst(c, dst, o)
        PROVE  Mutates
    BY <1>4 DEF LoadConst, Allocates
  <1>5. ASSUME NEW src \in Reg, NEW c \in Const, SetConst(src, c)
        PROVE  Mutates
    BY <1>5 DEF SetConst
  <1>6. ASSUME NEW op, NEW o \in Obj, NEW k \in Kind, NEW n \in 0 .. MaxLen, NEW dst \in Reg,
               New(op, o, k, n, dst)
        PROVE  Mutates
    BY <1>6 DEF New, Allocates
  <1>7. ASSUME NEW l \in Reg, NEW r \in Reg, NEW dst \in Reg, NEW o \in Obj,
               StringOp(l, r, dst, o)
        PROVE  Mutates
    BY <1>6, <1>7 DEF StringOp
  <1>8. ASSUME NEW dst \in Reg, NEW o \in Obj, NEW n \in Idx,
               ArrayNew(dst, o) \/ TupleNew(dst, n, o) \/ ClassNew(dst, o) \/ LoadFunc(dst, o)
        PROVE  Mutates
    BY <1>6, <1>8 DEF ArrayNew, TupleNew, ClassNew, LoadFunc
  <1>9. ASSUME NEW dst \in Reg, NEW i \in Idx, NEW inits \in Fields, NEW o \in Obj,
               ClassNewInitialized(dst, i, inits, o)
        PROVE  Mutates
    BY <1>9 DEF ClassNewInitialized, Allocates
  <1>10. ASSUME NEW dst \in Reg, NEW src \in Reg, ArrayPush(dst, src) \/ BindArg(dst, src)
         PROVE  Mutates
    BY <1>10 DEF ArrayPush, BindArg, Append1
  <1>11. ASSUME NEW col \in Reg, NEW r \in Reg, NEW i \in Idx, IdxGet(col, i, r) \/ IdxSet(col, i, r)
         PROVE  Mutates
    BY <1>11 DEF IdxGet, IdxSet
  <1>12. ASSUME NEW i \in Idx, NEW r \in Reg, ClassGetInner(i, r) \/ ClassSetInner(i, r)
         PROVE  Mutates
    BY <1>12 DEF ClassGetInner, ClassSetInner
  <1>13. ASSUME NEW args \in Arguments, Call(args)
         PROVE  Mutates
    BY <1>13 DEF Call
  <1>14. ASSUME NEW src \in Reg \cup Local, NEW dst \in Reg, Return(src, dst) \/ ReturnNull(dst)
         PROVE  Mutates
    BY <1>14 DEF Return, ReturnNull
  <1>15. ASSUME NEW args \in Arguments, NEW dst \in Reg, NativeRead(args, dst)
         PROVE  Mutates
    BY <1>15 DEF NativeRead
  <1>16. ASSUME NEW arr \in Reg, NEW src \in Reg, NEW dst \in Reg,
                NativeArrayPush(arr, src, dst) \/ NativeArrayPop(arr, dst)
         PROVE  Mutates
    BY <1>16 DEF NativeArrayPush, NativeArrayPop
  <1>17. ASSUME NEW l \in Reg, NEW r \in Reg, Raise(l) \/ Fault(l, r)
         PROVE  Mutates
    BY <1>17 DEF Raise, Fault
  <1> QED BY ONLY Instruction, <1>1, <1>2, <1>3, <1>4, <1>5, <1>7, <1>8, <1>9, <1>10, <1>11,
             <1>12, <1>13, <1>14, <1>15, <1>16, <1>17, ConstAssumption DEF Instruction, Idx

LEMMA OthersMutate ==
  ASSUME Propagate \/ (\E dst \in Reg : Catch(dst)) \/ DelConstCache
  PROVE  Mutates
  BY DEF Propagate, Catch, DelConstCache, Mutates, gcvars, heapvars

-----------------------------------------------------------------------------
(* The list of objects *)

LEMMA MutatesKeeps ==
  ASSUME TypeOK, TypeOK', ListIntegrity, Mutates
  PROVE  ListIntegrity' /\ MarksHold' /\ SparesFrames
  <1>1. ~Collecting' /\ cur = 0 /\ cur' = 0
    BY DEF Mutates, Collecting, gcvars
  <1>2. MarksHold'
    BY <1>1 DEF MarksHold
  <1>3. CASE UNCHANGED <<kind, obj_list>>
    <2>1. ListIntegrity' <=> ListIntegrity
      BY <1>1, <1>3 DEF ListIntegrity, Live
    <2>2. SparesFrames
      BY <1>3, ConstAssumption DEF SparesFrames, Live
    <2> QED BY <1>2, <2>1, <2>2
  <1>4. CASE Allocates
    <2>1. PICK o \in Obj, k \in Kind, n \in 0 .. MaxLen : Malloc(o, k, n)
      BY <1>4 DEF Allocates
    <2>2. /\ \A x \in Obj : kind'[x] = IF x = o THEN k ELSE kind[x]
          /\ k # "free" /\ kind[o] = "free"
      BY <2>1, KindNames DEF Malloc, TypeOK
    <2>3. SparesFrames
      BY <2>2, ConstAssumption DEF SparesFrames, Live
    <2>4. /\ Len(obj_list) \in Nat /\ Len(obj_list') = Len(obj_list) + 1
          /\ obj_list'[1] = o
          /\ \A j \in 2 .. Len(obj_list) + 1 : obj_list'[j] = obj_list[j - 1]
      <3>1. obj_list \in Seq(Obj) /\ <<o>> \in Seq(Obj) /\ Len(<<o>>) = 1 /\ <<o>>[1] = o
        BY DEF TypeOK
      <3>2. Len(obj_list) \in Nat
        BY <3>1, LenProperties
      <3>3. /\ Len(obj_list') = 1 + Len(obj_list)
            /\ \A j \in 1 .. 1 + Len(obj_list) :
                 obj_list'[j] = IF j <= 1 THEN <<o>>[j] ELSE obj_list[j - 1]
        BY <2>1, <3>1, ConcatProperties DEF Malloc
      <3> QED BY ONLY <3>1, <3>2, <3>3
    <2>5. /\ \A i, j \in 1 .. Len(obj_list) : obj_list[i] = obj_list[j] => i = j
          /\ \A x \in Obj : kind[x] # "free" <=> \E i \in 1 .. Len(obj_list) : obj_list[i] = x
          /\ \A i \in 1 .. Len(obj_list) : obj_list[i] \in Obj
      BY ListIs, ElementOfSeq DEF TypeOK
    <2>6. \A i, j \in 1 .. Len(obj_list') : obj_list'[i] = obj_list'[j] => i = j
      <3>1. SUFFICES ASSUME NEW i \in 1 .. Len(obj_list) + 1, NEW j \in 1 .. Len(obj_list) + 1,
                            obj_list'[i] = obj_list'[j], i < j
                     PROVE  FALSE
        BY <2>4
      <3>2. j \in 2 .. Len(obj_list) + 1 /\ j - 1 \in 1 .. Len(obj_list)
            /\ obj_list'[j] = obj_list[j - 1]
        BY <2>4, <3>1
      <3>3. CASE i = 1
        BY <2>2, <2>4, <2>5, <3>1, <3>2, <3>3
      <3>4. CASE i # 1
        <4>1. i \in 2 .. Len(obj_list) + 1 /\ i - 1 \in 1 .. Len(obj_list) /\ i - 1 # j - 1
              /\ obj_list'[i] = obj_list[i - 1]
          BY <2>4, <3>1, <3>4
        <4> QED BY <2>5, <3>1, <3>2, <4>1
      <3> QED BY <3>3, <3>4
    <2>7. ASSUME NEW x \in Obj
          PROVE  kind'[x] # "free" <=> \E i \in 1 .. Len(obj_list') : obj_list'[i] = x
      <3>1. CASE x = o
        BY <2>2, <2>4, <3>1
      <3>2. CASE x # o
        <4>1. (\E i \in 1 .. Len(obj_list) : obj_list[i] = x)
                <=> \E i \in 1 .. Len(obj_list') : obj_list'[i] = x
          <5>1. ASSUME NEW i \in 1 .. Len(obj_list), obj_list[i] = x
                PROVE  \E j \in 1 .. Len(obj_list') : obj_list'[j] = x
            <6>1. i + 1 \in 2 .. Len(obj_list) + 1 /\ i + 1 - 1 = i /\ i + 1 \in 1 .. Len(obj_list')
              BY <2>4
            <6>2. obj_list'[i + 1] = obj_list[i + 1 - 1]
              BY <2>4, <6>1
            <6>3. obj_list'[i + 1] = x
              BY <5>1, <6>1, <6>2
            <6> QED BY <6>1, <6>3
          <5>2. ASSUME NEW i \in 1 .. Len(obj_list'), obj_list'[i] = x
                PROVE  \E j \in 1 .. Len(obj_list) : obj_list[j] = x
            <6>1. i # 1
              BY <2>4, <3>2, <5>2
            <6>2. i \in 2 .. Len(obj_list) + 1 /\ i - 1 \in 1 .. Len(obj_list)
              BY <2>4, <6>1
            <6> QED BY <2>4, <5>2, <6>2
          <5> QED BY <5>1, <5>2
        <4> QED BY <2>2, <2>5, <3>2, <4>1
      <3> QED BY <3>1, <3>2
    <2>8. ListIntegrity'
      <3>1. cur' <= Len(obj_list') + 1
        BY <1>1, <2>4
      <3> QED BY <2>6, <2>7, <3>1, ListIsPrime
    <2> QED BY <1>2, <2>3, <2>8
  <1> QED BY <1>3, <1>4 DEF Mutates

(* The mark is taken, the cursor moves on, the sweep ends. *)
LEMMA QuietSweep ==
  ASSUME TypeOK, TypeOK', ListIntegrity, MarksHold, StartCollect \/ SweepKeep \/ SweepEnd
  PROVE  ListIntegrity' /\ MarksHold' /\ SparesFrames
  <1>1. kind' = kind /\ obj_list' = obj_list /\ frames' = frames /\ depth' = depth
    BY DEF StartCollect, SweepKeep, SweepEnd, heapvars
  <1>2. SparesFrames
    BY <1>1, ConstAssumption DEF SparesFrames, Live
  <1>3. Len(obj_list) \in Nat /\ cur \in Nat
    BY LenProperties DEF TypeOK
  <1>4. cur' <= Len(obj_list) + 1
    <2>1. CASE StartCollect
      BY <1>3, <2>1 DEF StartCollect
    <2>2. CASE SweepKeep
      BY <1>3, <2>2 DEF SweepKeep
    <2>3. CASE SweepEnd
      BY <1>3, <2>3 DEF SweepEnd
    <2> QED BY <2>1, <2>2, <2>3
  <1>5. ListIntegrity'
    BY <1>1, <1>4 DEF ListIntegrity, Live
  <1>6. MarksHold'
    <2>1. CASE StartCollect
      BY <1>1, <2>1 DEF StartCollect, MarksHold, Roots, Slot, Markable
    <2>2. CASE SweepKeep
      BY <1>1, <2>2 DEF SweepKeep, MarksHold, Collecting, Markable
    <2>3. CASE SweepEnd
      BY <2>3 DEF SweepEnd, MarksHold, Collecting
    <2> QED BY <2>1, <2>2, <2>3
  <1> QED BY <1>2, <1>5, <1>6

(* The object at the cursor is freed: the list closes over its place, and  *)
(* the mark says that no frame relies on it.                               *)
LEMMA FreeingSweep ==
  ASSUME TypeOK, TypeOK', ListIntegrity, MarksHold, SweepFree
  PROVE  ListIntegrity' /\ MarksHold' /\ SparesFrames
  <1> DEFINE n == Len(obj_list)
             o == obj_list[cur]
  <1>1. /\ Collecting /\ frames' = frames /\ depth' = depth /\ marked' = marked /\ cur' = cur
        /\ obj_list' = RemoveAt(obj_list, cur)
        /\ kind' = [kind EXCEPT ![o] = "free"]
        /\ o \notin marked
    BY DEF SweepFree, gcvars, should_free
  <1>2. n \in Nat /\ cur \in 1 .. n /\ o \in Obj
    <2>1. n \in Nat /\ cur \in Nat /\ cur # 0 /\ cur <= n
      BY LenProperties DEF SweepFree, Collecting, TypeOK
    <2>2. cur \in 1 .. n
      BY <2>1
    <2> QED BY <2>1, <2>2, ElementOfSeq DEF TypeOK
  <1>3. /\ \A i, j \in 1 .. n : obj_list[i] = obj_list[j] => i = j
        /\ \A x \in Obj : kind[x] # "free" <=> \E i \in 1 .. n : obj_list[i] = x
    BY ListIs
  <1>4. /\ n \in Nat \ {0} /\ Len(obj_list') = n - 1
        /\ \A k \in 1 .. n - 1 :
             obj_list'[k] = IF k < cur THEN obj_list[k] ELSE obj_list[k + 1]
    <2>1. obj_list \in Seq(Obj) /\ cur \in 1 .. Len(obj_list)
      BY <1>2 DEF TypeOK
    <2>2. /\ Len(obj_list) \in Nat \ {0}
          /\ Len(RemoveAt(obj_list, cur)) = Len(obj_list) - 1
          /\ \A k \in 1 .. Len(obj_list) - 1 :
               RemoveAt(obj_list, cur)[k] = IF k < cur THEN obj_list[k] ELSE obj_list[k + 1]
      BY ONLY <2>1, RemoveAtElements
    <2> QED BY ONLY <1>1, <2>2 DEF n
  <1>5. \A x \in Obj : kind'[x] = IF x = o THEN "free" ELSE kind[x]
    <2> HIDE DEF o
    <2> QED BY <1>1, <1>2 DEF TypeOK
  <1> HIDE DEF n, o
  (* Where an element of the shorter list was. *)
  <1> DEFINE was(k) == IF k < cur THEN k ELSE k + 1
  <1>6. \A k \in 1 .. n - 1 : /\ was(k) \in 1 .. n /\ was(k) # cur
                              /\ obj_list'[k] = obj_list[was(k)]
    BY <1>2, <1>4
  <1>7. \A i, j \in 1 .. n - 1 : was(i) = was(j) => i = j
    BY <1>2
  <1>8. \A i \in 1 .. n : i # cur => \E k \in 1 .. n - 1 : was(k) = i
    <2>1. ASSUME NEW i \in 1 .. n, i # cur
          PROVE  \E k \in 1 .. n - 1 : was(k) = i
      <3>1. CASE i < cur
        <4>1. i \in 1 .. n - 1 /\ was(i) = i
          BY <1>2, <3>1
        <4> QED BY <4>1
      <3>2. CASE ~(i < cur)
        <4>1. i - 1 \in 1 .. n - 1 /\ was(i - 1) = i
          BY <1>2, <2>1, <3>2
        <4> QED BY <4>1
      <3> QED BY <3>1, <3>2
    <2> QED BY <2>1
  <1> HIDE DEF was
  <1>9. \A i, j \in 1 .. Len(obj_list') : obj_list'[i] = obj_list'[j] => i = j
    <2>1. ASSUME NEW i \in 1 .. n - 1, NEW j \in 1 .. n - 1, obj_list'[i] = obj_list'[j]
          PROVE  i = j
      <3>1. obj_list[was(i)] = obj_list[was(j)] /\ was(i) \in 1 .. n /\ was(j) \in 1 .. n
        BY <1>6, <2>1
      <3>2. was(i) = was(j)
        BY <1>3, <3>1
      <3> QED BY <1>7, <3>2
    <2> QED BY <1>4, <2>1
  <1>10. ASSUME NEW x \in Obj
         PROVE  kind'[x] # "free" <=> \E k \in 1 .. Len(obj_list') : obj_list'[k] = x
    <2>1. CASE x = o
      <3>1. \A k \in 1 .. n - 1 : obj_list'[k] # o
        BY <1>2, <1>3, <1>6 DEF o
      <3> QED BY <1>4, <1>5, <2>1, <3>1
    <2>2. CASE x # o
      <3>1. (\E i \in 1 .. n : obj_list[i] = x) <=> \E k \in 1 .. n - 1 : obj_list'[k] = x
        <4>1. ASSUME NEW i \in 1 .. n, obj_list[i] = x
              PROVE  \E k \in 1 .. n - 1 : obj_list'[k] = x
          <5>1. i # cur
            BY <2>2, <4>1 DEF o
          <5>2. PICK k \in 1 .. n - 1 : was(k) = i
            BY <1>8, <5>1
          <5> QED BY <1>6, <4>1, <5>2
        <4>2. ASSUME NEW k \in 1 .. n - 1, obj_list'[k] = x
              PROVE  \E i \in 1 .. n : obj_list[i] = x
          BY <1>6, <4>2
        <4> QED BY <4>1, <4>2
      <3> QED BY <1>3, <1>4, <1>5, <2>2, <3>1
    <2> QED BY <2>1, <2>2
  <1>11. ListIntegrity'
    <2>1. cur' <= Len(obj_list') + 1
      BY <1>1, <1>2, <1>4
    <2> QED BY <1>9, <1>10, <2>1, ListIsPrime
  <1>12. MarksHold'
    <2>1. \A x \in Obj : Markable(x)' => Markable(x)
      BY <1>5 DEF Markable
    <2> QED BY <1>1, <2>1 DEF MarksHold
  <1>13. SparesFrames
    <2>1. SUFFICES ASSUME NEW x \in Obj, Live(x), kind'[x] = "free",
                          NEW d \in 1 .. depth, NEW s \in Slot, frames[d][s] = x
                   PROVE  kind[x] = "fn" /\ s # Self
      BY DEF SparesFrames
    <2>2. kind[x] # "free" /\ x = o
      BY <1>5, <2>1, ConstAssumption DEF Live
    <2>3. ~(s = Self \/ Markable(x))
      BY <1>1, <2>1, <2>2 DEF MarksHold
    <2>4. kind[x] \in Kind
      BY <2>1, <2>2 DEF TypeOK
    <2> QED BY <2>3, <2>4 DEF Markable, Kind
  <1> QED BY <1>11, <1>12, <1>13

-----------------------------------------------------------------------------
(* The invariant and what follows from it *)

LEMMA HeapStep ==
  ASSUME HeapInv, [Next]_vars
  PROVE  HeapInv' /\ SparesFrames
  <1> USE DEF HeapInv
  <1>1. TypeOK'
    BY NextTyped
  <1>2. CASE Instruction \/ Propagate \/ (\E dst \in Reg : Catch(dst)) \/ DelConstCache
    <2>1. Mutates
      BY <1>2, InstructionMutates, OthersMutate
    <2> QED BY <1>1, <2>1, MutatesKeeps
  <1>3. CASE Collect
    BY <1>1, <1>3, QuietSweep, FreeingSweep DEF Collect, Sweep
  <1>4. CASE UNCHANGED vars
    <2>1. UNCHANGED <<kind, obj_list, cur, marked, frames, depth>>
      BY <1>4 DEF vars, heapvars, gcvars
    <2>2. ListIntegrity' /\ MarksHold'
      BY <2>1 DEF ListIntegrity, MarksHold, Live, Collecting, Markable
    <2>3. SparesFrames
      BY <2>1, ConstAssumption DEF SparesFrames, Live
    <2> QED BY <1>1, <2>2, <2>3
  <1> QED BY <1>2, <1>3, <1>4 DEF Next

LEMMA HeapInit == Init => HeapInv
  <1>1. ASSUME Init
        PROVE  ListIntegrity /\ MarksHold
    <2>1. obj_list = <<>> /\ cur = 0 /\ \A o \in Obj : kind[o] = "free"
      BY <1>1 DEF Init
    <2>2. TypeOK
      BY <1>1, InitTyped
    <2>3. Len(obj_list) = 0 /\ 1 .. 0 = {}
      BY <2>1
    <2> QED BY <2>1, <2>2, <2>3, ListIs DEF MarksHold, Collecting
  <1> QED BY <1>1, InitTyped DEF HeapInv

THEOREM HeapInvariant == Spec => []HeapInv
  <1>1. HeapInv /\ [Next]_vars => HeapInv'
    BY HeapStep
  <1> QED BY <1>1, HeapInit, PTL DEF Spec

(***************************************************************************)
(* Whatever instructions a program uses, and in the middle of a sweep too, *)
(* obj_list of gc.c names every allocated object exactly once: no object   *)
(* is freed twice, and none is lost to the collector.                      *)
(***************************************************************************)
THEOREM ListStaysWhole == Spec => []ListIntegrity
  <1>1. HeapInv => ListIntegrity
    BY DEF HeapInv
  <1> QED BY <1>1, HeapInvariant, PTL

(***************************************************************************)
(* Whatever instructions a program uses, and however wrong its counts, no  *)
(* step frees a string or a structure that a frame of the stack holds, nor *)
(* the self of a method: the mark of au_obj_malloc_collect is taken over   *)
(* all frames and outlasts the sweep it starts.                            *)
(***************************************************************************)
THEOREM FramesKeepTheirValues == Spec => KeepsFrameValues
  <1>1. HeapInv /\ [Next]_vars => SparesFrames
    BY HeapStep
  <1>2. HeapInv /\ [Next]_vars => [SparesFrames]_vars
    BY <1>1
  <1>3. Spec => [][SparesFrames]_vars
    BY <1>2, HeapInvariant, PTL DEF Spec
  <1> QED BY <1>3 DEF KeepsFrameValues, SparesFrames

-----------------------------------------------------------------------------
(* Programs that count: no instruction of UncountedOps. *)

(* The inductive invariant.  The count of an object covers its counted     *)
(* holders, and while a sweep runs the marks cover the frames: an object   *)
(* that should_free() picks is then held by nobody.                        *)
NoFunctions == \A o \in Obj : kind[o] # "fn"
MarksCover == Collecting => \A o \in Obj : FrameHolds(o) => o \in marked

IInv == TypeOK /\ NoDangling /\ RcCovers /\ NoFunctions /\ MarksCover

Counted == Ops \cap UncountedOps = {}

-----------------------------------------------------------------------------
(* What the steps have in common *)

LEMMA HoldersSame ==
  ASSUME UNCHANGED <<data, const_cache, err>>
  PROVE  \A o : Holders(o)' = Holders(o)
  BY DEF Holders, CellsHolding, ConstsHolding, ErrHolding

(* Nobody holds a free object. *)
LEMMA FreeUnheld ==
  ASSUME IInv, NEW o \in Obj, kind[o] = "free"
  PROVE  Holders(o) = 0
  <1>1. o # None
    BY ConstAssumption
  <1>2. /\ \A x \in Cell : data[x] # o
        /\ \A c \in Const : const_cache[c] # o
        /\ \A e \in ErrField : err[e] # o
    BY <1>1 DEF IInv, NoDangling, CellsLive, ConstantsSurvive, ErrorsLive, Live
  <1> QED BY <1>2, NoHolders

(* Growing counts cover holders that stay the same. *)
LEMMA CountsGrow ==
  ASSUME IInv, TypeOK', UNCHANGED <<data, const_cache, err>>,
         \A o \in Obj : rc'[o] >= rc[o]
  PROVE  RcCovers'
  <1> SUFFICES ASSUME NEW o \in Obj PROVE Holders(o)' <= rc'[o]
    BY DEF RcCovers
  <1>1. Holders(o) <= rc[o] /\ Holders(o)' = Holders(o) /\ Holders(o) \in Nat
    BY HoldersSame, HoldersFinite DEF IInv, RcCovers
  <1>2. rc[o] \in Nat /\ rc'[o] \in Nat
    BY DEF IInv, TypeOK
  <1> QED BY <1>1, <1>2

(* The values of a frame are live after a slot is written with a live one, *)
(* when no object has been freed.                                          *)
LEMMA SlotLive ==
  ASSUME TypeOK, FrameValuesLive, depth > 0, depth' = depth,
         NEW s \in Slot, NEW v \in Val, SetSlot(s, v), Live(v)',
         \A o \in Obj : kind[o] # "free" => kind'[o] # "free"
  PROVE  FrameValuesLive'
  <1> SUFFICES ASSUME NEW d \in 1 .. depth, NEW t \in Slot
               PROVE  Live(frames[d][t])'
    BY DEF FrameValuesLive
  <1>1. d \in 1 .. MaxDepth /\ depth \in 1 .. MaxDepth
    BY ConstAssumption DEF TypeOK
  <1>2. frames[d][t] \in Val /\ Live(frames[d][t])
    BY <1>1 DEF TypeOK, FrameValuesLive
  <1>3. frames'[d][t] = v \/ frames'[d][t] = frames[d][t]
    BY <1>1 DEF SetSlot, TypeOK
  <1> QED BY <1>2, <1>3 DEF Live, Val

(* Cells, constants and the record stay live when they do not change and   *)
(* no object has been freed.                                               *)
LEMMA HeldLive ==
  ASSUME TypeOK, \A o \in Obj : kind[o] # "free" => kind'[o] # "free"
  PROVE  /\ CellsLive /\ UNCHANGED data => CellsLive'
         /\ ConstantsSurvive /\ UNCHANGED const_cache => ConstantsSurvive'
         /\ ErrorsLive /\ UNCHANGED err => ErrorsLive'
  BY DEF TypeOK, CellsLive, ConstantsSurvive, ErrorsLive, Live, Val

(* A step that changes nothing but frames. *)
LEMMA FrameStep ==
  ASSUME IInv, TypeOK', ~Collecting', FrameValuesLive',
         UNCHANGED <<kind, rc, data, const_cache, err>>
  PROVE  IInv'
  <1>1. NoDangling'
    BY HeldLive DEF IInv, NoDangling
  <1>2. RcCovers'
    BY HoldersSame DEF IInv, RcCovers
  <1>3. NoFunctions' /\ MarksCover'
    BY DEF IInv, NoFunctions, MarksCover
  <1> QED BY <1>1, <1>2, <1>3 DEF IInv

(* The frames of a shorter stack. *)
LEMMA PopLive ==
  ASSUME TypeOK, FrameValuesLive, depth > 0, Pop, UNCHANGED kind
  PROVE  FrameValuesLive'
  <1> SUFFICES ASSUME NEW d \in 1 .. depth', NEW s \in Slot
               PROVE  Live(frames[d][s])'
    BY DEF FrameValuesLive
  <1>1. d \in 1 .. MaxDepth /\ d \in 1 .. depth /\ d # depth
    BY ConstAssumption DEF TypeOK, Pop
  <1>2. frames'[d][s] = frames[d][s]
    BY <1>1 DEF Pop, TypeOK
  <1> QED BY <1>1, <1>2 DEF FrameValuesLive, Live

-----------------------------------------------------------------------------
(* The collector *)

LEMMA StartCollectSafe ==
  ASSUME IInv, StartCollect
  PROVE  IInv'
  <1>1. UNCHANGED <<kind, rc, data, len, obj_list, frames, depth, const_cache,
                    err_type, err>>
    BY DEF StartCollect, heapvars, errvars
  <1>2. TypeOK'
    BY CollectTyped DEF IInv, Collect
  <1>3. NoDangling' /\ NoFunctions'
    BY <1>1 DEF IInv, NoDangling, FrameValuesLive, CellsLive, ConstantsSurvive,
                ErrorsLive, Live, NoFunctions
  <1>4. RcCovers'
    BY <1>1, HoldersSame DEF IInv, RcCovers
  <1>5. MarksCover'
    <2> SUFFICES ASSUME NEW o \in Obj, FrameHolds(o) PROVE o \in marked'
      BY <1>1 DEF MarksCover, FrameHolds
    <2>1. PICK d \in 1 .. depth, s \in Slot : frames[d][s] = o
      BY DEF FrameHolds
    <2>2. Markable(o)
      BY <2>1, ConstAssumption
      DEF IInv, NoDangling, FrameValuesLive, Live, NoFunctions, TypeOK, Kind, Markable
    <2> QED BY <2>1, <2>2 DEF StartCollect, Roots, Slot
  <1> QED BY <1>2, <1>3, <1>4, <1>5 DEF IInv

(* The object that the sweep frees is held by nobody, and the counts it    *)
(* gives back are those of its own cells.                                  *)
LEMMA SweepFreeSafe ==
  ASSUME IInv, SweepFree
  PROVE  IInv'
  <1> DEFINE o == obj_list[cur]
  <1>1. /\ o \in Obj
        /\ o \notin marked /\ rc[o] = 0
        /\ rc' = Deref(rc, [x \in Obj |-> Cardinality(CellsOf(o, x))])
        /\ kind' = [kind EXCEPT ![o] = "free"]
        /\ data' = [y \in Cell |-> IF y[1] = o THEN None ELSE data[y]]
        /\ UNCHANGED <<cur, marked, frames, depth, const_cache, err>>
    BY DEF SweepFree, should_free, Collecting, IInv, TypeOK, gcvars, errvars
  <1>2. TypeOK'
    BY CollectTyped DEF IInv, Collect, Sweep
  <1>3. ~FrameHolds(o)
    BY <1>1 DEF IInv, MarksCover, SweepFree
  <1>4. Holders(o) = 0
    <2>1. Holders(o) <= 0
      BY <1>1 DEF IInv, RcCovers
    <2> HIDE DEF o
    <2> QED BY <2>1, HoldersFinite
  <1>5. /\ \A x \in Cell : data[x] # o
        /\ \A c \in Const : const_cache[c] # o
        /\ \A e \in ErrField : err[e] # o
    BY <1>4, NoHolders
  <1> HIDE DEF o
  <1>6. \A v \in Val : v # o /\ Live(v) => Live(v)'
    BY <1>1 DEF Live, IInv, TypeOK, Val
  <1>7. NoDangling'
    <2>1. FrameValuesLive'
      <3> SUFFICES ASSUME NEW d \in 1 .. depth, NEW s \in Slot
                   PROVE  Live(frames[d][s])'
        BY <1>1 DEF FrameValuesLive
      <3>1. frames[d][s] \in Val /\ Live(frames[d][s])
        BY ConstAssumption DEF IInv, TypeOK, NoDangling, FrameValuesLive
      <3>2. frames[d][s] # o
        BY <1>3 DEF FrameHolds
      <3> QED BY <1>1, <1>6, <3>1, <3>2 DEF Live
    <2>2. CellsLive'
      <3> SUFFICES ASSUME NEW x \in Cell PROVE Live(data[x])'
        BY DEF CellsLive
      <3>1. CASE x[1] = o
        BY <1>1, <3>1 DEF Live
      <3>2. CASE x[1] # o
        <4>1. data'[x] = data[x] /\ data[x] \in Val /\ Live(data[x])
          BY <1>1, <3>2 DEF IInv, TypeOK, NoDangling, CellsLive
        <4> QED BY <4>1, <1>5, <1>6
      <3> QED BY <3>1, <3>2
    <2>3. ConstantsSurvive' /\ ErrorsLive'
      BY <1>1, <1>5, <1>6
      DEF IInv, TypeOK, NoDangling, ConstantsSurvive, ErrorsLive
    <2> QED BY <2>1, <2>2, <2>3 DEF NoDangling
  <1>8. RcCovers'
    <2> SUFFICES ASSUME NEW p \in Obj PROVE Holders(p)' <= rc'[p]
      BY DEF RcCovers
    <2> DEFINE kept == CellsHolding(p)'
               gone == CellsOf(o, p)
    <2>1. CellsHolding(p) = kept \cup gone /\ kept \cap gone = {}
      BY <1>1, ConstAssumption DEF CellsHolding, CellsOf
    <2>2. /\ IsFiniteSet(kept) /\ Cardinality(kept) \in Nat
          /\ IsFiniteSet(gone) /\ Cardinality(gone) \in Nat
      BY <2>1, HoldersFinite, SubsetCount
    <2>3. ConstsHolding(p)' = ConstsHolding(p) /\ ErrHolding(p)' = ErrHolding(p)
      BY <1>1 DEF ConstsHolding, ErrHolding
    <2>4. rc[p] \in Nat /\ Holders(p) <= rc[p]
      BY DEF IInv, TypeOK, RcCovers
    <2>5. rc'[p] = IF rc[p] > Cardinality(gone) THEN rc[p] - Cardinality(gone) ELSE 0
      BY <1>1 DEF Deref
    <2> HIDE DEF kept, gone
    <2>6. Cardinality(CellsHolding(p)) = Cardinality(kept) + Cardinality(gone)
      <3>1. Cardinality(kept \cap gone) = 0
        BY <2>1, FS_EmptySet
      <3>2. Cardinality(kept \cup gone)
              = Cardinality(kept) + Cardinality(gone) - Cardinality(kept \cap gone)
        BY <2>2, FS_Union
      <3> QED BY <2>1, <2>2, <3>1, <3>2
    <2>7. /\ Holders(p) = Cardinality(kept) + Cardinality(gone)
               + Cardinality(ConstsHolding(p)) + Cardinality(ErrHolding(p))
          /\ Holders(p)' = Cardinality(kept)
               + Cardinality(ConstsHolding(p)) + Cardinality(ErrHolding(p))
      BY <2>3, <2>6 DEF Holders, kept
    <2> QED BY <2>2, <2>4, <2>5, <2>7, HoldersFinite
  <1>9. NoFunctions' /\ MarksCover'
    BY <1>1 DEF IInv, NoFunctions, MarksCover, FrameHolds, Collecting, TypeOK
  <1> QED BY <1>2, <1>7, <1>8, <1>9 DEF IInv

LEMMA CollectSafe ==
  ASSUME IInv, Collect
  PROVE  IInv'
  <1>1. CASE SweepKeep \/ SweepEnd
    <2>1. UNCHANGED <<kind, rc, data, frames, depth, const_cache, err>>
      BY <1>1 DEF SweepKeep, SweepEnd, heapvars, errvars
    <2>2. TypeOK'
      BY <1>1, CollectTyped DEF IInv, Collect, Sweep
    <2>3. NoDangling' /\ NoFunctions'
      BY <2>1 DEF IInv, NoDangling, FrameValuesLive, CellsLive,
                  ConstantsSurvive, ErrorsLive, Live, NoFunctions
    <2>4. RcCovers'
      BY <2>1, HoldersSame DEF IInv, RcCovers
    <2>5. MarksCover'
      BY <1>1 DEF IInv, MarksCover, FrameHolds, SweepKeep, SweepEnd, Collecting
    <2> QED BY <2>2, <2>3, <2>4, <2>5 DEF IInv
  <1> QED BY <1>1, StartCollectSafe, SweepFreeSafe DEF Collect, Sweep

-----------------------------------------------------------------------------
(* Instructions.  None of them runs while a sweep is under way. *)

LEMMA QuietAfter ==
  ASSUME IInv, ~Collecting, UNCHANGED gcvars
  PROVE  ~Collecting' /\ MarksCover'
  BY DEF Collecting, MarksCover, gcvars

(* Moves, field reads: the value was in the frame or in a live object. *)
LEMMA MoveSafe ==
  ASSUME IInv,
         \/ \E src, dst \in Reg \cup Local : Move(src, dst)
         \/ \E dst \in Reg : MovImmediate(dst)
         \/ LoadSelf
         \/ \E i \in Idx, r \in Reg : ClassGetInner(i, r)
  PROVE  IInv'
  <1>1. TypeOK'
    BY MoveTyped DEF IInv
  <1>2. Running /\ depth > 0 /\ depth \in 1 .. MaxDepth
          /\ \A s \in Slot : top(s) \in Val
    BY TopTyped, RunningFrame
    DEF IInv, Move, MovImmediate, LoadSelf, ClassGetInner, Executes
  <1>3. \A s \in Slot : Live(top(s))
    BY <1>2 DEF IInv, NoDangling, FrameValuesLive, top
  <1>4. /\ UNCHANGED <<heapvars, gcvars, depth, const_cache, errvars>>
        /\ \E s \in Slot, v \in Val : Live(v) /\ SetSlot(s, v)
    <2>1. CASE \E src, dst \in Reg \cup Local : Move(src, dst)
      BY <2>1, <1>2, <1>3, SlotNames DEF Move
    <2>2. CASE \E dst \in Reg : MovImmediate(dst)
      BY <2>2, SlotNames DEF MovImmediate, Val, Live
    <2>3. CASE LoadSelf
      BY <2>3, <1>2, <1>3, SlotNames, ConstAssumption DEF LoadSelf
    <2>4. CASE \E i \in Idx, r \in Reg : ClassGetInner(i, r)
      <3>1. PICK i \in Idx, r \in Reg : ClassGetInner(i, r)
        BY <2>4
      <3>2. <<top(Self), i>> \in Cell
        BY <3>1, <1>2, SlotNames DEF ClassGetInner, Val, Cell
      <3>3. data[<<top(Self), i>>] \in Val /\ Live(data[<<top(Self), i>>])
        BY <3>2 DEF IInv, TypeOK, NoDangling, CellsLive
      <3> QED BY <3>1, <3>3, SlotNames DEF ClassGetInner
    <2> QED BY <2>1, <2>2, <2>3, <2>4
  <1>5. UNCHANGED <<kind, rc, data, depth, const_cache, err>>
    BY <1>4 DEF heapvars, errvars
  <1>6. FrameValuesLive'
    BY <1>2, <1>4, <1>5, SlotLive DEF IInv, NoDangling, Live
  <1>7. ~Collecting'
    BY <1>2, <1>4, QuietAfter DEF Running
  <1> QED BY <1>1, <1>5, <1>6, <1>7, FrameStep

(* A constant loaded for the first time: its count is the cache's. *)
LEMMA LoadConstSafe ==
  ASSUME IInv, NEW c \in Const, NEW dst \in Reg, NEW o \in Obj, LoadConst(c, dst, o)
  PROVE  IInv'
  <1>1. TypeOK'
    BY ConstTyped DEF IInv
  <1>2. ~Collecting /\ depth > 0
    BY RunningFrame DEF IInv, LoadConst, Executes, Running
  <1>3. ~Collecting' /\ MarksCover'
    BY <1>2, QuietAfter DEF LoadConst
  <1>4. CASE const_cache[c] # None /\ UNCHANGED <<heapvars, const_cache>>
    <2>1. UNCHANGED <<kind, rc, data, depth, const_cache, err>>
            /\ SetSlot(dst, const_cache[c])
      BY <1>4 DEF LoadConst, heapvars, errvars, Malloc
    <2>2. const_cache[c] \in Val /\ Live(const_cache[c])
      BY DEF IInv, TypeOK, NoDangling, ConstantsSurvive
    <2>3. FrameValuesLive'
      BY <1>2, <2>1, <2>2, SlotLive, SlotNames DEF IInv, NoDangling, Live
    <2> QED BY <1>1, <1>3, <2>1, <2>3, FrameStep
  <1>5. CASE /\ Malloc(o, "str", 0)
             /\ rc' = [rc EXCEPT ![o] = 1]
             /\ const_cache' = [const_cache EXCEPT ![c] = o]
             /\ SetSlot(dst, o)
             /\ UNCHANGED data
    <2>1. UNCHANGED <<data, depth, err>>
      BY <1>5 DEF LoadConst, errvars
    <2>2. kind[o] = "free" /\ kind' = [kind EXCEPT ![o] = "str"]
      BY <1>5 DEF Malloc
    <2>3. /\ \A p \in Obj : kind[p] # "free" => kind'[p] # "free"
          /\ o \in Val /\ Live(o)'
      BY <2>2 DEF IInv, TypeOK, Val, Live
    <2>4. FrameValuesLive'
      BY <1>2, <1>5, <2>1, <2>3, SlotLive, SlotNames DEF IInv, NoDangling
    <2>5. CellsLive' /\ ErrorsLive'
      BY <2>1, <2>3, HeldLive DEF IInv, NoDangling
    <2>6. ConstantsSurvive'
      BY <1>5, <2>3 DEF IInv, TypeOK, NoDangling, ConstantsSurvive, Live, Val
    <2>7. RcCovers'
      <3> SUFFICES ASSUME NEW p \in Obj PROVE Holders(p)' <= rc'[p]
        BY DEF RcCovers
      <3>1. CellsHolding(p)' = CellsHolding(p) /\ ErrHolding(p)' = ErrHolding(p)
        BY <2>1 DEF CellsHolding, ErrHolding
      <3>2. rc[p] \in Nat /\ Holders(p) <= rc[p] /\ Holders(p) \in Nat
        BY HoldersFinite DEF IInv, TypeOK, RcCovers
      <3>3. CASE p = o
        <4>1. Holders(p) = 0
          BY <2>2, <3>3, FreeUnheld
        <4>2. ConstsHolding(p)' \subseteq ConstsHolding(p) \cup {c}
          BY <1>5 DEF ConstsHolding, IInv, TypeOK
        <4>3. Cardinality(ConstsHolding(p)') <= Cardinality(ConstsHolding(p)) + 1
          BY <4>2, OneMore, HoldersFinite
        <4>4. rc'[p] = 1
          BY <1>5, <3>3 DEF IInv, TypeOK
        <4> QED BY <3>1, <4>1, <4>3, <4>4, HoldersFinite, HoldersFinitePrime DEF Holders
      <3>4. CASE p # o
        <4>1. ConstsHolding(p)' \subseteq ConstsHolding(p)
          BY <1>5, <3>4 DEF ConstsHolding, IInv, TypeOK
        <4>2. Cardinality(ConstsHolding(p)') <= Cardinality(ConstsHolding(p))
          BY <4>1, SubsetCount, HoldersFinite
        <4>3. rc'[p] = rc[p]
          BY <1>5, <3>4 DEF IInv, TypeOK
        <4> QED BY <3>1, <3>2, <4>2, <4>3, HoldersFinite, HoldersFinitePrime DEF Holders
      <3> QED BY <3>3, <3>4
    <2>8. NoFunctions'
      BY <2>2 DEF IInv, NoFunctions, TypeOK
    <2> QED BY <1>1, <1>3, <2>4, <2>5, <2>6, <2>7, <2>8 DEF IInv, NoDangling
  <1> QED BY <1>4, <1>5 DEF LoadConst

(* A new object that only the register holds. *)
LEMMA NewSafe ==
  ASSUME IInv, TypeOK', NEW op, NEW o \in Obj, NEW k \in Kind \ {"fn"}, NEW n,
         NEW dst \in Reg, New(op, o, k, n, dst)
  PROVE  IInv'
  <1>1. ~Collecting /\ depth > 0
    BY RunningFrame DEF IInv, New, Executes, Running
  <1>2. ~Collecting' /\ MarksCover'
    BY <1>1, QuietAfter DEF New
  <1>3. /\ kind[o] = "free" /\ kind' = [kind EXCEPT ![o] = k]
        /\ rc' = [rc EXCEPT ![o] = 0]
        /\ SetSlot(dst, o)
        /\ UNCHANGED <<data, depth, const_cache, err>>
    BY DEF New, Malloc, errvars
  <1>4. /\ \A p \in Obj : kind[p] # "free" => kind'[p] # "free"
        /\ o \in Val /\ Live(o)'
    BY <1>3 DEF IInv, TypeOK, Val, Live, Kind
  <1>5. NoDangling'
    BY <1>1, <1>3, <1>4, SlotLive, HeldLive, SlotNames DEF IInv, NoDangling
  <1>6. RcCovers'
    <2> SUFFICES ASSUME NEW p \in Obj PROVE Holders(p)' <= rc'[p]
      BY DEF RcCovers
    <2>1. Holders(p)' = Holders(p) /\ Holders(p) <= rc[p]
      BY <1>3, HoldersSame DEF IInv, RcCovers
    <2>2. CASE p = o
      BY <1>3, <2>1, <2>2, FreeUnheld DEF IInv, TypeOK
    <2>3. CASE p # o
      BY <1>3, <2>1, <2>3 DEF IInv, TypeOK
    <2> QED BY <2>2, <2>3
  <1>7. NoFunctions'
    BY <1>3 DEF IInv, NoFunctions, TypeOK, Kind
  <1> QED BY <1>2, <1>5, <1>6, <1>7 DEF IInv

(***************************************************************************)
(* A structure with initialisers: the cells that come to hold p are those  *)
(* of the initialisers naming p, each counted once, and for the structure  *)
(* itself one more.                                                        *)
(***************************************************************************)
NewCells(inits, dst, o, p) ==
  {x \in Cell : x[1] = o /\ x[2] \in DOMAIN inits
                  /\ InitValue(inits, dst, o, x[2]) = p}

LEMMA NewCellsCounted ==
  ASSUME NEW inits \in Fields, NEW dst \in Reg, NEW o \in Obj, NEW p
  PROVE  /\ IsFiniteSet(NewCells(inits, dst, o, p))
         /\ Cardinality(NewCells(inits, dst, o, p)) \in Nat
         /\ Cardinality(NewCells(inits, dst, o, p)) <= InitCount(inits, dst, o, p)
  <1> DEFINE S == NewCells(inits, dst, o, p)
             T == {i \in DOMAIN inits : InitValue(inits, dst, o, i) = p}
             f == [x \in S |-> x[2]]
  <1>1. IsFiniteSet(S) /\ Cardinality(S) \in Nat
    BY CellFinite, SubsetCount DEF NewCells
  <1>2. IsFiniteSet(T)
    BY InitializersTyped, SubsetCount
  <1>3. f \in Injection(S, T)
    <2>1. f \in [S -> T]
      BY DEF NewCells
    <2>2. \A x, y \in S : f[x] = f[y] => x = y
      BY DEF NewCells, Cell
    <2> QED BY <2>1, <2>2 DEF Injection, IsInjective
  <1>4. Cardinality(S) <= Cardinality(T)
    BY <1>2, <1>3, FS_Injection
  <1> QED BY <1>1, <1>4 DEF InitCount

LEMMA ClassNewInitializedSafe ==
  ASSUME IInv, NEW dst \in Reg, NEW class_id \in Idx, NEW inits \in Fields,
         NEW o \in Obj, ClassNewInitialized(dst, class_id, inits, o)
  PROVE  IInv'
  <1>1. TypeOK'
    BY ClassNewInitializedTyped DEF IInv
  <1>2. ~Collecting /\ depth > 0
    BY RunningFrame DEF IInv, ClassNewInitialized, Executes, Running
  <1>3. ~Collecting' /\ MarksCover'
    BY <1>2, QuietAfter DEF ClassNewInitialized
  <1>4. /\ kind[o] = "free" /\ kind' = [kind EXCEPT ![o] = "class"]
        /\ SetSlot(dst, o)
        /\ UNCHANGED <<depth, const_cache, err>>
    BY DEF ClassNewInitialized, Malloc, errvars
  <1>5. data' = [x \in Cell |->
             IF x[1] = o /\ x[2] \in {class_id} \cup DOMAIN inits
               THEN IF x[2] \in DOMAIN inits THEN InitValue(inits, dst, o, x[2]) ELSE o
               ELSE data[x]]
    BY DEF ClassNewInitialized, InitValue
  <1>6. rc' = [x \in Obj |-> [rc EXCEPT ![o] = 0][x]
                 + (InitCount(inits, dst, o, x) + (IF x = o THEN 1 ELSE 0))]
    BY DEF ClassNewInitialized, Ref, InitCount, InitValue
  <1>7. \A i \in DOMAIN inits :
          /\ InitValue(inits, dst, o, i) \in Val
          /\ InitValue(inits, dst, o, i) # None =>
               kind'[InitValue(inits, dst, o, i)] # "free"
    <2> SUFFICES ASSUME NEW i \in DOMAIN inits
                 PROVE  /\ InitValue(inits, dst, o, i) \in Val
                        /\ InitValue(inits, dst, o, i) # None =>
                             kind'[InitValue(inits, dst, o, i)] # "free"
      OBVIOUS
    <2>1. top(inits[i]) \in Val
      BY <1>2, TopTyped, InitializersTyped, SlotNames DEF IInv
    <2>2. InitValue(inits, dst, o, i) = o \/ Live(InitValue(inits, dst, o, i))
      BY DEF ClassNewInitialized, InitValue
    <2>3. InitValue(inits, dst, o, i) \in Val
      BY <2>1 DEF InitValue, Val
    <2> QED BY <1>4, <2>2, <2>3 DEF Live, Val, IInv, TypeOK
  <1>8. NoDangling'
    <2>1. /\ \A p \in Obj : kind[p] # "free" => kind'[p] # "free"
          /\ o \in Val /\ Live(o)'
      BY <1>4 DEF IInv, TypeOK, Val, Live
    <2>2. FrameValuesLive' /\ ConstantsSurvive' /\ ErrorsLive'
      BY <1>2, <1>4, <2>1, SlotLive, HeldLive, SlotNames DEF IInv, NoDangling
    <2>3. CellsLive'
      <3> SUFFICES ASSUME NEW x \in Cell
                   PROVE  data'[x] # None => kind'[data'[x]] # "free"
        BY DEF CellsLive, Live
      <3>1. \/ data'[x] = o
            \/ x[2] \in DOMAIN inits /\ data'[x] = InitValue(inits, dst, o, x[2])
            \/ data'[x] = data[x]
        BY <1>5
      <3>2. data[x] \in Val /\ Live(data[x])
        BY DEF IInv, TypeOK, NoDangling, CellsLive
      <3> QED BY <1>7, <2>1, <3>1, <3>2 DEF Live, Val
    <2> QED BY <2>2, <2>3 DEF NoDangling
  <1>9. RcCovers'
    <2> SUFFICES ASSUME NEW p \in Obj PROVE Holders(p)' <= rc'[p]
      BY DEF RcCovers
    <2> DEFINE new == NewCells(inits, dst, o, p)
               init == InitCount(inits, dst, o, p)
    <2>1. ConstsHolding(p)' = ConstsHolding(p) /\ ErrHolding(p)' = ErrHolding(p)
      BY <1>4 DEF ConstsHolding, ErrHolding
    <2>2. /\ IsFiniteSet(new) /\ Cardinality(new) \in Nat
          /\ init \in Nat /\ Cardinality(new) <= init
      BY NewCellsCounted, InitializersTyped
    <2>3. rc[p] \in Nat /\ Holders(p) <= rc[p]
      BY DEF IInv, TypeOK, RcCovers
    <2>4. /\ IsFiniteSet(CellsHolding(p) \cup new)
          /\ Cardinality(CellsHolding(p) \cup new) \in Nat
          /\ Cardinality(CellsHolding(p) \cup new) <= Cardinality(CellsHolding(p)) + init
      <3>1. /\ IsFiniteSet(CellsHolding(p) \cup new)
            /\ Cardinality(CellsHolding(p) \cup new) = Cardinality(CellsHolding(p))
                  + Cardinality(new) - Cardinality(CellsHolding(p) \cap new)
        BY <2>2, HoldersFinite, FS_Union
      <3>2. Cardinality(CellsHolding(p) \cap new) \in Nat
        BY <2>2, FS_Intersection, FS_CardinalityType
      <3>3. Cardinality(CellsHolding(p) \cup new) \in Nat
        BY <3>1, FS_CardinalityType
      <3> HIDE DEF new, init
      <3> QED BY <2>2, <3>1, <3>2, <3>3, HoldersFinite
    <2>5. CASE p = o
      <3>1. Holders(p) = 0
        BY <1>4, <2>5, FreeUnheld
      <3>2. CellsHolding(p)' \subseteq (CellsHolding(p) \cup new) \cup {<<o, class_id>>}
        BY <1>5, <2>5, ConstAssumption DEF CellsHolding, NewCells, Cell
      <3>3. rc'[p] = init + 1
        BY <1>6, <2>2, <2>5 DEF IInv, TypeOK
      <3>4. Cardinality(CellsHolding(p)') <= Cardinality(CellsHolding(p) \cup new) + 1
        BY <2>4, <3>2, OneMore
      <3> HIDE DEF new, init
      <3> QED BY <2>1, <2>2, <2>4, <3>1, <3>3, <3>4, HoldersFinite, HoldersFinitePrime
              DEF Holders
    <2>6. CASE p # o
      <3>1. CellsHolding(p)' \subseteq CellsHolding(p) \cup new
        BY <1>5, <2>6 DEF CellsHolding, NewCells
      <3>2. Cardinality(CellsHolding(p)') <= Cardinality(CellsHolding(p) \cup new)
        BY <2>4, <3>1, SubsetCount
      <3>3. rc'[p] = rc[p] + init
        BY <1>6, <2>2, <2>3, <2>6 DEF IInv, TypeOK
      <3> HIDE DEF new, init
      <3> QED BY <2>1, <2>2, <2>3, <2>4, <3>2, <3>3, HoldersFinite, HoldersFinitePrime
              DEF Holders
    <2> QED BY <2>5, <2>6
  <1>10. NoFunctions'
    BY <1>4 DEF IInv, NoFunctions, TypeOK
  <1> QED BY <1>1, <1>3, <1>8, <1>9, <1>10 DEF IInv

(* A push counts the element it stores. *)
LEMMA AppendSafe ==
  ASSUME IInv, NEW op, NEW k, NEW dst \in Reg, NEW src \in Reg,
         Append1(op, k, dst, src)
  PROVE  IInv'
  <1> DEFINE a == top(dst)
             v == top(src)
             x == <<a, len[a] + 1>>
  <1>1. TypeOK'
    BY AppendTyped DEF IInv
  <1>2. ~Collecting /\ depth > 0
    BY RunningFrame DEF IInv, Append1, Executes, Running
  <1>3. ~Collecting' /\ MarksCover'
    BY <1>2, QuietAfter DEF Append1
  <1>4. v \in Val /\ Live(v)
    BY <1>2, TopTyped, SlotNames DEF IInv, Append1
  <1>5. /\ rc' = Ref(rc, Once(v))
        /\ data' = [data EXCEPT ![x] = v]
        /\ UNCHANGED <<kind, frames, depth, const_cache, err>>
    BY DEF Append1, errvars
  <1> HIDE DEF a, v, x
  <1>6. NoDangling'
    BY <1>4, <1>5
    DEF IInv, TypeOK, NoDangling, FrameValuesLive, CellsLive, ConstantsSurvive,
        ErrorsLive, Live
  <1>7. RcCovers'
    <2> SUFFICES ASSUME NEW p \in Obj PROVE Holders(p)' <= rc'[p]
      BY DEF RcCovers
    <2>1. ConstsHolding(p)' = ConstsHolding(p) /\ ErrHolding(p)' = ErrHolding(p)
      BY <1>5 DEF ConstsHolding, ErrHolding
    <2>2. rc[p] \in Nat /\ Holders(p) <= rc[p]
            /\ rc'[p] = rc[p] + (IF p = v THEN 1 ELSE 0)
      BY <1>5 DEF IInv, TypeOK, RcCovers, Ref, Once
    <2>3. CASE p = v
      <3>1. CellsHolding(p)' \subseteq CellsHolding(p) \cup {x}
        BY <1>5, <2>3 DEF CellsHolding, IInv, TypeOK
      <3>2. Cardinality(CellsHolding(p)') <= Cardinality(CellsHolding(p)) + 1
        BY <3>1, OneMore, HoldersFinite
      <3> QED BY <2>1, <2>2, <2>3, <3>2, HoldersFinite, HoldersFinitePrime DEF Holders
    <2>4. CASE p # v
      <3>1. CellsHolding(p)' \subseteq CellsHolding(p)
        BY <1>5, <2>4 DEF CellsHolding, IInv, TypeOK
      <3>2. Cardinality(CellsHolding(p)') <= Cardinality(CellsHolding(p))
        BY <3>1, SubsetCount, HoldersFinite
      <3> QED BY <2>1, <2>2, <2>4, <3>2, HoldersFinite, HoldersFinitePrime DEF Holders
    <2> QED BY <2>3, <2>4
  <1>8. NoFunctions'
    BY <1>5 DEF IInv, NoFunctions
  <1> QED BY <1>1, <1>3, <1>6, <1>7, <1>8 DEF IInv

LEMMA IdxGetSafe ==
  ASSUME IInv, NEW col \in Reg, NEW r \in Reg, NEW i \in Idx, IdxGet(col, i, r)
  PROVE  IInv'
  <1> DEFINE v == data[<<top(col), i>>]
  <1>1. TypeOK'
    BY IndexTyped DEF IInv
  <1>2. ~Collecting /\ depth > 0
    BY RunningFrame DEF IInv, IdxGet, Executes, Running
  <1>3. ~Collecting' /\ MarksCover'
    BY <1>2, QuietAfter DEF IdxGet
  <1>4. v \in Val /\ Live(v)
    <2>1. top(col) \in Obj
      BY <1>2, TopTyped, SlotNames DEF IInv, IdxGet, Val
    <2> QED BY <2>1 DEF IInv, TypeOK, IdxGet, Cell
  <1>5. /\ rc' = Ref(rc, Once(v))
        /\ SetSlot(r, v)
        /\ UNCHANGED <<kind, data, depth, const_cache, err>>
    BY DEF IdxGet, errvars
  <1> HIDE DEF v
  <1>6. FrameValuesLive'
    BY <1>2, <1>4, <1>5, SlotLive, SlotNames DEF IInv, NoDangling, Live
  <1>7. CellsLive' /\ ConstantsSurvive' /\ ErrorsLive'
    BY <1>5, HeldLive DEF IInv, NoDangling
  <1>8. RcCovers'
    <2>1. \A o \in Obj : rc'[o] >= rc[o]
      BY <1>5 DEF IInv, TypeOK, Ref, Once
    <2> QED BY <1>1, <1>5, <2>1, CountsGrow
  <1>9. NoFunctions'
    BY <1>5 DEF IInv, NoFunctions
  <1> QED BY <1>1, <1>3, <1>6, <1>7, <1>8, <1>9 DEF IInv, NoDangling

(* The callee's frame holds values of its caller's. *)
LEMMA CallSafe ==
  ASSUME IInv, NEW args \in Arguments, Call(args)
  PROVE  IInv'
  <1>1. TypeOK'
    BY CallTyped DEF IInv
  <1>2. ~Collecting /\ depth > 0
    BY RunningFrame DEF IInv, Call, Executes, Running
  <1>3. ~Collecting' /\ MarksCover'
    BY <1>2, QuietAfter DEF Call
  <1>4. UNCHANGED <<kind, data, const_cache, err>>
    BY DEF Call, errvars
  <1>5. FrameValuesLive'
    <2> SUFFICES ASSUME NEW d \in 1 .. depth', NEW s \in Slot
                 PROVE  Live(frames[d][s])'
      BY DEF FrameValuesLive
    <2>1. d \in 1 .. MaxDepth /\ depth' = depth + 1 /\ depth \in Nat
      BY ConstAssumption DEF IInv, TypeOK, Call
    <2>2. CASE d = depth + 1
      <3>1. frames'[d][s] = IF s \in DOMAIN args THEN top(args[s]) ELSE None
        BY <2>1, <2>2 DEF Call, IInv, TypeOK
      <3> QED BY <1>4, <3>1 DEF Call, RefArgs, Live
    <2>3. CASE d # depth + 1
      <3>1. d \in 1 .. depth /\ frames'[d][s] = frames[d][s]
        BY <2>1, <2>3 DEF Call, IInv, TypeOK
      <3> QED BY <1>4, <3>1 DEF IInv, NoDangling, FrameValuesLive, Live
    <2> QED BY <2>2, <2>3
  <1>6. CellsLive' /\ ConstantsSurvive' /\ ErrorsLive'
    BY <1>4, HeldLive DEF IInv, NoDangling
  <1>7. RcCovers'
    <2>1. \A o \in Obj : rc'[o] >= rc[o]
      BY PassedTyped DEF Call, Ref, IInv, TypeOK
    <2> QED BY <1>1, <1>4, <2>1, CountsGrow
  <1>8. NoFunctions'
    BY <1>4 DEF IInv, NoFunctions
  <1> QED BY <1>1, <1>3, <1>5, <1>6, <1>7, <1>8 DEF IInv, NoDangling

LEMMA ReturnSafe ==
  ASSUME IInv,
         \/ \E src \in Reg \cup Local, dst \in Reg : Return(src, dst)
         \/ \E dst \in Reg : ReturnNull(dst)
  PROVE  IInv'
  <1>1. TypeOK'
    BY ReturnTyped DEF IInv
  <1>2. Running /\ depth > 0 /\ depth \in 1 .. MaxDepth
    BY RunningFrame DEF IInv, Return, ReturnNull, Executes
  <1>3. PICK dst \in Reg, v \in Val :
          /\ Live(v)
          /\ frames' = [d \in 1 .. MaxDepth |->
                CASE d = depth -> EmptyFrame
                  [] d = depth - 1 -> [frames[d] EXCEPT ![dst] = v]
                  [] OTHER -> frames[d]]
          /\ depth' = depth - 1
          /\ UNCHANGED <<heapvars, gcvars, const_cache, errvars>>
    <2>1. CASE \E src \in Reg \cup Local, dst \in Reg : Return(src, dst)
      <3>1. PICK src \in Reg \cup Local, dst \in Reg : Return(src, dst)
        BY <2>1
      <3>2. top(src) \in Val
        BY <1>2, TopTyped, SlotNames DEF IInv
      <3>3. Live(top(src))
        BY <1>2, SlotNames DEF IInv, NoDangling, FrameValuesLive, top
      <3> QED BY <3>1, <3>2, <3>3 DEF Return
    <2>2. CASE \E dst \in Reg : ReturnNull(dst)
      BY <2>2 DEF ReturnNull, Val, Live
    <2> QED BY <2>1, <2>2
  <1>4. UNCHANGED <<kind, rc, data, const_cache, err>>
    BY <1>3 DEF heapvars, errvars
  <1>5. FrameValuesLive'
    <2> SUFFICES ASSUME NEW d \in 1 .. depth', NEW s \in Slot
                 PROVE  Live(frames[d][s])'
      BY DEF FrameValuesLive
    <2>1. d \in 1 .. MaxDepth /\ d \in 1 .. depth /\ d # depth
      BY <1>2, <1>3, ConstAssumption
    <2>2. Live(frames[d][s])
      BY <2>1 DEF IInv, NoDangling, FrameValuesLive
    <2>3. frames'[d][s] = frames[d][s] \/ frames'[d][s] = v
      BY <1>3, <2>1 DEF IInv, TypeOK
    <2> QED BY <1>3, <1>4, <2>2, <2>3 DEF Live
  <1>6. ~Collecting'
    BY <1>2, <1>3, QuietAfter DEF Running
  <1> QED BY <1>1, <1>4, <1>5, <1>6, FrameStep

-----------------------------------------------------------------------------
(* Errors and the end of the program *)

(* An error record that takes values: at most the counted ones are new. *)
LEMMA RecordSafe ==
  ASSUME IInv, TypeOK', NEW l \in Reg, NEW r \in Reg, Raise(l) \/ Fault(l, r)
  PROVE  IInv'
  <1>1. ~Collecting /\ depth > 0
    BY RunningFrame DEF IInv, Raise, Fault, Executes, Running
  <1>2. ~Collecting' /\ MarksCover'
    BY <1>1, QuietAfter DEF Raise, Fault
  <1>3. Pop /\ UNCHANGED <<kind, data, const_cache>>
    BY DEF Raise, Fault
  <1>4. FrameValuesLive' /\ CellsLive' /\ ConstantsSurvive'
    BY <1>1, <1>3, PopLive, HeldLive DEF IInv, NoDangling
  <1> DEFINE v == top(l)
             w == top(r)
  <1>5. Live(v) /\ (Fault(l, r) => Live(w))
    BY DEF Raise, Fault
  <1>6. ErrorsLive'
    BY <1>3, <1>5
    DEF Raise, Fault, IInv, TypeOK, NoDangling, ErrorsLive, ErrField, Live
  <1>7. RcCovers'
    <2> SUFFICES ASSUME NEW p \in Obj PROVE Holders(p)' <= rc'[p]
      BY DEF RcCovers
    <2>1. CellsHolding(p)' = CellsHolding(p) /\ ConstsHolding(p)' = ConstsHolding(p)
      BY <1>3 DEF CellsHolding, ConstsHolding
    <2>2. rc[p] \in Nat /\ Holders(p) <= rc[p]
      BY DEF IInv, TypeOK, RcCovers
    <2>3. /\ IsFiniteSet(ErrHolding(p) \cup {"left"})
          /\ Cardinality(ErrHolding(p) \cup {"left"}) <= Cardinality(ErrHolding(p)) + 1
          /\ Cardinality(ErrHolding(p) \cup {"left"}) \in Nat
      <3>1. IsFiniteSet(ErrHolding(p) \cup {"left"})
        BY HoldersFinite, FS_AddElement
      <3> QED BY <3>1, HoldersFinite, OneMore, FS_CardinalityType
    <2>4. CASE Raise(l)
      <3>1. rc'[p] = rc[p] + (IF p = v THEN 1 ELSE 0)
        BY <2>4 DEF Raise, Ref, Once
      <3>2. CASE p = v
        <4>1. ErrHolding(p)' \subseteq ErrHolding(p) \cup {"left"}
          BY <2>4 DEF Raise, ErrHolding, IInv, TypeOK
        <4>2. Cardinality(ErrHolding(p)') <= Cardinality(ErrHolding(p)) + 1
          BY <4>1, OneMore, HoldersFinite
        <4> QED BY <2>1, <2>2, <3>1, <3>2, <4>2, HoldersFinite, HoldersFinitePrime
                DEF Holders
      <3>3. CASE p # v
        <4>1. ErrHolding(p)' \subseteq ErrHolding(p)
          BY <2>4, <3>3 DEF Raise, ErrHolding, IInv, TypeOK
        <4>2. Cardinality(ErrHolding(p)') <= Cardinality(ErrHolding(p))
          BY <4>1, SubsetCount, HoldersFinite
        <4> QED BY <2>1, <2>2, <3>1, <3>3, <4>2, HoldersFinite, HoldersFinitePrime
                DEF Holders
      <3> QED BY <3>2, <3>3
    <2>5. CASE Fault(l, r)
      <3>1. rc'[p] = rc[p] + (IF p = v THEN 1 ELSE 0) + (IF p = w THEN 1 ELSE 0)
        BY <2>5 DEF Fault, Ref, Once
      <3>2. CASE p = v /\ p = w
        <4>1. ErrHolding(p)' \subseteq (ErrHolding(p) \cup {"left"}) \cup {"right"}
          BY DEF ErrHolding, ErrField
        <4>2. Cardinality(ErrHolding(p)')
                <= Cardinality(ErrHolding(p) \cup {"left"}) + 1
          BY <2>3, <4>1, OneMore
        <4> QED BY <2>1, <2>2, <2>3, <3>1, <3>2, <4>2, HoldersFinite,
                   HoldersFinitePrime DEF Holders
      <3>3. CASE p = v /\ p # w
        <4>1. ErrHolding(p)' \subseteq ErrHolding(p) \cup {"left"}
          BY <2>5, <3>3 DEF Fault, ErrHolding, ErrField, IInv, TypeOK
        <4>2. Cardinality(ErrHolding(p)') <= Cardinality(ErrHolding(p)) + 1
          BY <4>1, OneMore, HoldersFinite
        <4> QED BY <2>1, <2>2, <3>1, <3>3, <4>2, HoldersFinite, HoldersFinitePrime
                DEF Holders
      <3>4. CASE p # v /\ p = w
        <4>1. ErrHolding(p)' \subseteq ErrHolding(p) \cup {"right"}
          BY <2>5, <3>4 DEF Fault, ErrHolding, ErrField, IInv, TypeOK
        <4>2. Cardinality(ErrHolding(p)') <= Cardinality(ErrHolding(p)) + 1
          BY <4>1, OneMore, HoldersFinite
        <4> QED BY <2>1, <2>2, <3>1, <3>4, <4>2, HoldersFinite, HoldersFinitePrime
                DEF Holders
      <3>5. CASE p # v /\ p # w
        <4>1. ErrHolding(p)' \subseteq ErrHolding(p)
          BY <2>5, <3>5 DEF Fault, ErrHolding, ErrField, IInv, TypeOK
        <4>2. Cardinality(ErrHolding(p)') <= Cardinality(ErrHolding(p))
          BY <4>1, SubsetCount, HoldersFinite
        <4> QED BY <2>1, <2>2, <3>1, <3>5, <4>2, HoldersFinite, HoldersFinitePrime
                DEF Holders
      <3> QED BY <3>2, <3>3, <3>4, <3>5
    <2> QED BY <2>4, <2>5
  <1>8. NoFunctions'
    BY <1>3 DEF IInv, NoFunctions
  <1> QED BY <1>2, <1>4, <1>6, <1>7, <1>8 DEF IInv, NoDangling

LEMMA PropagateSafe ==
  ASSUME IInv, Propagate
  PROVE  IInv'
  <1>1. TypeOK'
    BY ErrorTyped DEF IInv
  <1>2. UNCHANGED <<kind, rc, data, const_cache, err>> /\ ~Collecting'
    BY QuietAfter DEF Propagate, heapvars, errvars
  <1>3. FrameValuesLive'
    BY <1>2, PopLive DEF IInv, NoDangling, Propagate
  <1> QED BY <1>1, <1>2, <1>3, FrameStep

(* The record gives its value to a register and forgets it. *)
LEMMA CatchSafe ==
  ASSUME IInv, NEW dst \in Reg, Catch(dst)
  PROVE  IInv'
  <1>1. TypeOK'
    BY ErrorTyped DEF IInv
  <1>2. /\ UNCHANGED <<kind, rc, data, depth, const_cache>>
        /\ err' = [e \in ErrField |-> None]
        /\ ~Collecting' /\ MarksCover'
    BY QuietAfter DEF Catch, heapvars
  <1>3. FrameValuesLive'
    <2>1. err["left"] \in Val /\ Live(err["left"])
      BY DEF IInv, TypeOK, NoDangling, ErrorsLive, ErrField
    <2> QED BY <1>2, <2>1, SlotLive, SlotNames DEF IInv, NoDangling, Catch, Live
  <1>4. CellsLive' /\ ConstantsSurvive' /\ ErrorsLive'
    BY <1>2, HeldLive DEF IInv, NoDangling, ErrorsLive, Live
  <1>5. RcCovers'
    <2> SUFFICES ASSUME NEW p \in Obj PROVE Holders(p)' <= rc'[p]
      BY DEF RcCovers
    <2>1. CellsHolding(p)' = CellsHolding(p) /\ ConstsHolding(p)' = ConstsHolding(p)
      BY <1>2 DEF CellsHolding, ConstsHolding
    <2>2. ErrHolding(p)' \subseteq ErrHolding(p)
      BY <1>2, ConstAssumption DEF ErrHolding
    <2>3. Cardinality(ErrHolding(p)') <= Cardinality(ErrHolding(p))
      BY <2>2, SubsetCount, HoldersFinite
    <2>4. rc[p] \in Nat /\ Holders(p) <= rc[p]
      BY DEF IInv, TypeOK, RcCovers
    <2> QED BY <1>2, <2>1, <2>3, <2>4, HoldersFinite, HoldersFinitePrime DEF Holders
  <1>6. NoFunctions'
    BY <1>2 DEF IInv, NoFunctions
  <1> QED BY <1>1, <1>2, <1>3, <1>4, <1>5, <1>6 DEF IInv, NoDangling

LEMMA DelConstCacheSafe ==
  ASSUME IInv, DelConstCache
  PROVE  IInv'
  <1>1. TypeOK'
    BY DelConstCacheTyped DEF IInv
  <1>2. /\ UNCHANGED <<kind, data, frames, depth, err>>
        /\ const_cache' = [c \in Const |-> None]
        /\ rc' = Deref(rc, [x \in Obj |-> Cardinality(ConstsHolding(x))])
        /\ ~Collecting' /\ MarksCover'
    BY QuietAfter DEF DelConstCache, errvars
  <1>3. NoDangling'
    BY <1>2
    DEF IInv, NoDangling, FrameValuesLive, CellsLive, ConstantsSurvive,
        ErrorsLive, Live
  <1>4. RcCovers'
    <2> SUFFICES ASSUME NEW p \in Obj PROVE Holders(p)' <= rc'[p]
      BY DEF RcCovers
    <2>1. CellsHolding(p)' = CellsHolding(p) /\ ErrHolding(p)' = ErrHolding(p)
      BY <1>2 DEF CellsHolding, ErrHolding
    <2>2. Cardinality(ConstsHolding(p)') = 0
      <3>1. ConstsHolding(p)' = {}
        BY <1>2, ConstAssumption DEF ConstsHolding
      <3> QED BY <3>1, FS_EmptySet
    <2>3. rc[p] \in Nat /\ Holders(p) <= rc[p]
      BY DEF IInv, TypeOK, RcCovers
    <2>4. rc'[p] = IF rc[p] > Cardinality(ConstsHolding(p))
                     THEN rc[p] - Cardinality(ConstsHolding(p)) ELSE 0
      BY <1>2 DEF Deref
    <2> QED BY <2>1, <2>2, <2>3, <2>4, HoldersFinite, HoldersFinitePrime DEF Holders
  <1>5. NoFunctions'
    BY <1>2 DEF IInv, NoFunctions
  <1> QED BY <1>1, <1>2, <1>3, <1>4, <1>5 DEF IInv

-----------------------------------------------------------------------------
(* The theorems *)

LEMMA InstructionSafe ==
  ASSUME Counted, IInv, Instruction
  PROVE  IInv'
  <1>1. TypeOK'
    BY InstructionTyped DEF IInv
  <1>2. CASE \/ \E src, dst \in Reg \cup Local : Move(src, dst)
             \/ \E dst \in Reg : MovImmediate(dst)
             \/ LoadSelf
             \/ \E i \in Idx, r \in Reg : ClassGetInner(i, r)
    BY <1>2, MoveSafe
  <1>3. CASE \E c \in Const, dst \in Reg, o \in Obj : LoadConst(c, dst, o)
    BY <1>3, LoadConstSafe
  <1>4. CASE \/ \E l, r, dst \in Reg, o \in Obj : StringOp(l, r, dst, o)
             \/ \E dst \in Reg, o \in Obj : ArrayNew(dst, o)
             \/ \E dst \in Reg, n \in Idx, o \in Obj : TupleNew(dst, n, o)
             \/ \E dst \in Reg, o \in Obj : ClassNew(dst, o)
    <2>1. {"str", "array", "tuple", "class"} \subseteq Kind \ {"fn"}
      BY DEF Kind
    <2> QED BY <1>1, <1>4, <2>1, NewSafe DEF StringOp, ArrayNew, TupleNew, ClassNew
  <1>5. CASE \E dst \in Reg, i \in Idx, inits \in Fields, o \in Obj :
               ClassNewInitialized(dst, i, inits, o)
    BY <1>5, ClassNewInitializedSafe
  <1>6. CASE \E dst, src \in Reg : ArrayPush(dst, src) \/ BindArg(dst, src)
    BY <1>6, AppendSafe DEF ArrayPush, BindArg
  <1>7. CASE \E col, r \in Reg, i \in Idx : IdxGet(col, i, r)
    BY <1>7, IdxGetSafe
  <1>8. CASE \E args \in Arguments : Call(args)
    BY <1>8, CallSafe
  <1>9. CASE \/ \E src \in Reg \cup Local, dst \in Reg : Return(src, dst)
             \/ \E dst \in Reg : ReturnNull(dst)
    BY <1>9, ReturnSafe
  <1>10. CASE \/ \E src \in Reg : Raise(src)
              \/ \E l, r \in Reg : Fault(l, r)
    BY <1>1, <1>10, RecordSafe
  <1>11. ~ \/ \E src \in Reg, c \in Const : SetConst(src, c)
           \/ \E dst \in Reg, o \in Obj : LoadFunc(dst, o)
           \/ \E col, r \in Reg, i \in Idx : IdxSet(col, i, r)
           \/ \E i \in Idx, r \in Reg : ClassSetInner(i, r)
           \/ \E args \in Arguments, dst \in Reg : NativeRead(args, dst)
           \/ \E arr, src, dst \in Reg : NativeArrayPush(arr, src, dst)
           \/ \E arr, dst \in Reg : NativeArrayPop(arr, dst)
    BY DEF Counted, UncountedOps, SetConst, LoadFunc, New, IdxSet, ClassSetInner,
           NativeRead, NativeArrayPush, NativeArrayPop, Executes
  <1> QED BY <1>2, <1>3, <1>4, <1>5, <1>6, <1>7, <1>8, <1>9, <1>10, <1>11
          DEF Instruction

LEMMA InitSafe == Init => IInv
  <1> SUFFICES ASSUME Init PROVE IInv
    OBVIOUS
  <1>1. /\ data = [x \in Cell |-> None] /\ cur = 0
        /\ kind = [o \in Obj |-> "free"]
        /\ rc = [o \in Obj |-> 0] /\ depth = 1
        /\ const_cache = [c \in Const |-> None]
        /\ err = [e \in ErrField |-> None]
        /\ frames = [d \in 1 .. MaxDepth |-> EmptyFrame]
    BY DEF Init
  <1>2. TypeOK
    BY InitTyped
  <1>3. NoDangling
    BY <1>1, ConstAssumption
    DEF NoDangling, FrameValuesLive, CellsLive, ConstantsSurvive, ErrorsLive,
        Live, EmptyFrame
  <1>4. RcCovers
    <2> SUFFICES ASSUME NEW o \in Obj PROVE Holders(o) = 0 /\ rc[o] = 0
      BY DEF RcCovers
    <2> QED BY <1>1, ConstAssumption, NoHolders
  <1>5. NoFunctions /\ MarksCover
    BY <1>1 DEF NoFunctions, MarksCover, Collecting
  <1> QED BY <1>2, <1>3, <1>4, <1>5 DEF IInv

LEMMA NextSafe ==
  ASSUME Counted, IInv, [Next]_vars
  PROVE  IInv'
  <1>1. CASE Collect
    BY <1>1, CollectSafe
  <1>2. CASE Instruction
    BY <1>2, InstructionSafe
  <1>3. CASE Propagate
    BY <1>3, PropagateSafe
  <1>4. CASE \E dst \in Reg : Catch(dst)
    BY <1>4, CatchSafe
  <1>5. CASE DelConstCache
    BY <1>5, DelConstCacheSafe
  <1>6. CASE UNCHANGED vars
    <2>1. UNCHANGED <<kind, rc, data, len, obj_list, cur, marked, frames, depth,
                      const_cache, err_type, err>>
      BY <1>6 DEF vars, heapvars, gcvars, errvars
    <2>2. TypeOK'
      BY <1>6, NextTyped DEF IInv
    <2>3. NoDangling' /\ NoFunctions' /\ MarksCover'
      BY <2>1
      DEF IInv, NoDangling, FrameValuesLive, CellsLive, ConstantsSurvive,
          ErrorsLive, Live, NoFunctions, MarksCover, FrameHolds, Collecting
    <2>4. RcCovers'
      BY <2>1, HoldersSame DEF IInv, RcCovers
    <2> QED BY <2>2, <2>3, <2>4 DEF IInv
  <1> QED BY <1>1, <1>2, <1>3, <1>4, <1>5, <1>6 DEF Next

LEMMA Inductive == Counted => (Spec => []IInv)
  <1> SUFFICES ASSUME Counted PROVE Spec => []IInv
    OBVIOUS
  <1>1. Init => IInv
    BY InitSafe
  <1>2. IInv /\ [Next]_vars => IInv'
    BY NextSafe
  <1> QED BY <1>1, <1>2, PTL DEF Spec

(***************************************************************************)
(* A program without the instructions of UncountedOps never has a frame, a *)
(* cell, a constant or an error record that names freed memory, although   *)
(* registers and locals are not counted and the mark is shallow.           *)
(***************************************************************************)
THEOREM NothingDangles == Counted => (Spec => []NoDangling)
  <1>1. IInv => NoDangling
    BY DEF IInv
  <1> QED BY <1>1, Inductive, PTL

(***************************************************************************)
(* In such a program the count that should_free() reads covers every cell, *)
(* constant and error field that holds the object.                         *)
(***************************************************************************)
THEOREM CountsCover == Counted => (Spec => []RcCovers)
  <1>1. IInv => RcCovers
    BY DEF IInv
  <1> QED BY <1>1, Inductive, PTL

-----------------------------------------------------------------------------
(* Exact counts                                                            *)
(*                                                                         *)
(* For programs that keep to ExactOps a reference count is the number of   *)
(* holders: nothing leaks, and nothing that is held is up for the sweep.   *)

(* The inductive invariant.  A push must find its cell empty for the       *)
(* element to be one holder more, and so must a failing operator find the  *)
(* error record; a freed object leaves no cells behind.                    *)
CellsPastEndEmpty ==
  \A x \in Cell : x[2] > len[x[1]] => data[x] = None

FreeIsEmpty == \A o \in Obj : kind[o] = "free" => len[o] = 0

RecordEmpty ==
  /\ err_type # "raised"
  /\ err_type = "ok" => \A e \in ErrField : err[e] = None

ExactInv == IInv /\ RcExact /\ CellsPastEndEmpty /\ FreeIsEmpty /\ RecordEmpty

OnlyExact == Ops \subseteq ExactOps

LEMMA ExactIsCounted ==
  ASSUME OnlyExact
  PROVE  Counted
  BY DEF OnlyExact, ExactOps, Counted, UncountedOps

-----------------------------------------------------------------------------
(* Counting holders exactly *)

(* One holder more, of a set that did not have it. *)
LEMMA JustOneMore ==
  ASSUME NEW S, NEW x, IsFiniteSet(S), x \notin S
  PROVE  Cardinality(S \cup {x}) = Cardinality(S) + 1
  BY FS_AddElement

(* A step that moves no holder and no count of a live object. *)
LEMMA SameCounts ==
  ASSUME RcExact, UNCHANGED <<rc, data, const_cache, err>>,
         \A o \in Obj : kind'[o] # "free" => kind[o] # "free"
  PROVE  RcExact'
  <1> SUFFICES ASSUME NEW o \in Obj, Live(o)' PROVE rc'[o] = Holders(o)'
    BY DEF RcExact
  <1>1. Live(o)
    BY ConstAssumption DEF Live
  <1> QED BY <1>1, HoldersSame DEF RcExact

(* A step that only writes frames. *)
LEMMA FrameExact ==
  ASSUME ExactInv, IInv', UNCHANGED <<heapvars, const_cache, errvars>>
  PROVE  ExactInv'
  <1>1. UNCHANGED <<kind, rc, data, len, const_cache, err_type, err>>
    BY DEF heapvars, errvars
  <1>2. RcExact'
    BY <1>1, SameCounts DEF ExactInv
  <1>3. CellsPastEndEmpty' /\ FreeIsEmpty' /\ RecordEmpty'
    BY <1>1 DEF ExactInv, CellsPastEndEmpty, FreeIsEmpty, RecordEmpty
  <1> QED BY <1>2, <1>3 DEF ExactInv

(* A new object that no cell, constant or record holds. *)
LEMMA NewExact ==
  ASSUME ExactInv, IInv', NEW op, NEW o \in Obj, NEW k \in Kind, NEW n \in 0 .. MaxLen,
         NEW dst \in Reg, New(op, o, k, n, dst)
  PROVE  ExactInv'
  <1>1. /\ kind[o] = "free" /\ kind' = [kind EXCEPT ![o] = k]
        /\ len' = [len EXCEPT ![o] = n]
        /\ rc' = [rc EXCEPT ![o] = 0]
        /\ UNCHANGED <<data, const_cache, err_type, err>>
    BY DEF New, Malloc, errvars
  <1>2. RcExact'
    <2> SUFFICES ASSUME NEW p \in Obj, Live(p)' PROVE rc'[p] = Holders(p)'
      BY DEF RcExact
    <2>1. Holders(p)' = Holders(p)
      BY <1>1, HoldersSame
    <2>2. CASE p = o
      BY <1>1, <2>1, <2>2, FreeUnheld DEF ExactInv, IInv, TypeOK
    <2>3. CASE p # o
      <3>1. rc'[p] = rc[p] /\ Live(p)
        BY <1>1, <2>3 DEF ExactInv, IInv, TypeOK, Live
      <3> QED BY <2>1, <3>1 DEF ExactInv, RcExact
    <2> QED BY <2>2, <2>3
  <1>3. CellsPastEndEmpty'
    <2> SUFFICES ASSUME NEW x \in Cell, x[2] > len'[x[1]] PROVE data'[x] = None
      BY DEF CellsPastEndEmpty
    <2>1. x[1] \in Obj /\ x[2] \in Nat /\ x[2] > 0 /\ len[o] = 0
      BY <1>1, ConstAssumption DEF Cell, Idx, ExactInv, FreeIsEmpty
    <2>2. x[2] > len[x[1]]
      BY <1>1, <2>1 DEF ExactInv, IInv, TypeOK
    <2> QED BY <1>1, <2>2 DEF ExactInv, CellsPastEndEmpty
  <1>4. FreeIsEmpty' /\ RecordEmpty'
    <2>1. k # "free"
      BY DEF Kind
    <2> QED BY <1>1, <2>1 DEF ExactInv, IInv, TypeOK, FreeIsEmpty, RecordEmpty
  <1> QED BY <1>2, <1>3, <1>4 DEF ExactInv

(* A constant loaded for the first time is held by the cache, once. *)
LEMMA LoadConstExact ==
  ASSUME ExactInv, IInv', NEW c \in Const, NEW dst \in Reg, NEW o \in Obj,
         LoadConst(c, dst, o)
  PROVE  ExactInv'
  <1>1. CASE UNCHANGED <<heapvars, const_cache>>
    BY <1>1, FrameExact DEF LoadConst
  <1>2. CASE /\ const_cache[c] = None
             /\ Malloc(o, "str", 0)
             /\ rc' = [rc EXCEPT ![o] = 1]
             /\ const_cache' = [const_cache EXCEPT ![c] = o]
             /\ UNCHANGED data
    <2>1. /\ kind[o] = "free" /\ kind' = [kind EXCEPT ![o] = "str"]
          /\ len' = [len EXCEPT ![o] = 0]
          /\ UNCHANGED <<data, err_type, err>>
      BY <1>2 DEF Malloc, LoadConst, errvars
    <2>2. RcExact'
      <3> SUFFICES ASSUME NEW p \in Obj, Live(p)' PROVE rc'[p] = Holders(p)'
        BY DEF RcExact
      <3>1. CellsHolding(p)' = CellsHolding(p) /\ ErrHolding(p)' = ErrHolding(p)
        BY <2>1 DEF CellsHolding, ErrHolding
      <3>2. CASE p = o
        <4>1. Holders(p) = 0
          BY <2>1, <3>2, FreeUnheld DEF ExactInv
        <4>2. ConstsHolding(p)' = ConstsHolding(p) \cup {c} /\ c \notin ConstsHolding(p)
          BY <1>2, <3>2, ConstAssumption DEF ConstsHolding, ExactInv, IInv, TypeOK
        <4>3. Cardinality(ConstsHolding(p)') = Cardinality(ConstsHolding(p)) + 1
          BY <4>2, JustOneMore, HoldersFinite
        <4>4. rc'[p] = 1
          BY <1>2, <3>2 DEF ExactInv, IInv, TypeOK
        <4> QED BY <3>1, <4>1, <4>3, <4>4, HoldersFinite, HoldersFinitePrime DEF Holders
      <3>3. CASE p # o
        <4>1. ConstsHolding(p)' = ConstsHolding(p)
          BY <1>2, <3>3, ConstAssumption DEF ConstsHolding, ExactInv, IInv, TypeOK
        <4>2. rc'[p] = rc[p] /\ Live(p)
          BY <1>2, <2>1, <3>3 DEF ExactInv, IInv, TypeOK, Live
        <4>3. Holders(p)' = Holders(p)
          BY <3>1, <4>1 DEF Holders
        <4> QED BY <4>2, <4>3 DEF ExactInv, RcExact
      <3> QED BY <3>2, <3>3
    <2>3. CellsPastEndEmpty' /\ FreeIsEmpty' /\ RecordEmpty'
      <3>1. len' = len
        BY <2>1 DEF ExactInv, IInv, TypeOK, FreeIsEmpty
      <3> QED BY <2>1, <3>1
              DEF ExactInv, IInv, TypeOK, CellsPastEndEmpty, FreeIsEmpty, RecordEmpty
    <2> QED BY <2>2, <2>3 DEF ExactInv
  <1> QED BY <1>1, <1>2 DEF LoadConst

(* The cell a push writes was empty: the element has one holder more. *)
LEMMA AppendExact ==
  ASSUME ExactInv, IInv', NEW op, NEW k, NEW dst \in Reg, NEW src \in Reg,
         Append1(op, k, dst, src)
  PROVE  ExactInv'
  <1> DEFINE a == top(dst)
             v == top(src)
             x == <<a, len[a] + 1>>
  <1>1. depth > 0
    BY RunningFrame DEF ExactInv, IInv, Append1, Executes
  <1>2. a \in Obj /\ len[a] \in 0 .. MaxLen /\ len[a] < MaxLen
    BY <1>1, TopTyped, SlotNames DEF ExactInv, IInv, Append1, Val, TypeOK
  <1>3. x \in Cell /\ data[x] = None
    <2>1. len[a] + 1 \in Idx /\ len[a] + 1 > len[a]
      BY <1>2, ConstAssumption DEF Idx
    <2>2. x \in Cell /\ x[1] = a /\ x[2] = len[a] + 1
      BY <1>2, <2>1 DEF Cell
    <2> QED BY <2>1, <2>2 DEF ExactInv, CellsPastEndEmpty
  <1>4. /\ rc' = Ref(rc, Once(v))
        /\ data' = [data EXCEPT ![x] = v]
        /\ len' = [len EXCEPT ![a] = len[a] + 1]
        /\ kind[a] = k
        /\ UNCHANGED <<kind, const_cache, err_type, err>>
    BY DEF Append1, errvars
  <1>5. kind[a] # "free"
    <2>1. Live(a)
      <3>1. dst \in Slot /\ depth \in 1 .. depth
        BY <1>1, TopTyped, SlotNames DEF ExactInv, IInv
      <3> QED BY <3>1 DEF ExactInv, IInv, NoDangling, FrameValuesLive, top
    <2> QED BY <1>2, <2>1, ConstAssumption DEF Live
  <1>6. RcExact'
    <2> SUFFICES ASSUME NEW p \in Obj, Live(p)' PROVE rc'[p] = Holders(p)'
      BY DEF RcExact
    <2>1. ConstsHolding(p)' = ConstsHolding(p) /\ ErrHolding(p)' = ErrHolding(p)
      BY <1>4 DEF ConstsHolding, ErrHolding
    <2>2. rc[p] = Holders(p) /\ rc[p] \in Nat
      BY <1>4 DEF ExactInv, RcExact, IInv, TypeOK, Live
    <2>3. rc'[p] = rc[p] + (IF p = v THEN 1 ELSE 0)
      BY <1>4 DEF Ref, Once
    <2> HIDE DEF x, v
    <2>4. CASE p = v
      <3>1. CellsHolding(p)' = CellsHolding(p) \cup {x} /\ x \notin CellsHolding(p)
        BY <1>3, <1>4, <2>4, ConstAssumption DEF CellsHolding, ExactInv, IInv, TypeOK
      <3>2. Cardinality(CellsHolding(p)') = Cardinality(CellsHolding(p)) + 1
        BY <3>1, JustOneMore, HoldersFinite
      <3> QED BY <2>1, <2>2, <2>3, <2>4, <3>2, HoldersFinite, HoldersFinitePrime DEF Holders
    <2>5. CASE p # v
      <3>1. CellsHolding(p)' = CellsHolding(p)
        BY <1>3, <1>4, <2>5, ConstAssumption DEF CellsHolding, ExactInv, IInv, TypeOK
      <3>2. Holders(p)' = Holders(p)
        BY <2>1, <3>1 DEF Holders
      <3> QED BY <2>2, <2>3, <2>5, <3>2
    <2> QED BY <2>4, <2>5
  <1>7. CellsPastEndEmpty'
    <2> SUFFICES ASSUME NEW y \in Cell, y[2] > len'[y[1]] PROVE data'[y] = None
      BY DEF CellsPastEndEmpty
    <2>1. y[1] \in Obj /\ y[2] \in Nat
      BY ConstAssumption DEF Cell, Idx
    <2>2. y # x /\ y[2] > len[y[1]]
      <3>1. x[1] = a /\ x[2] = len[a] + 1
        OBVIOUS
      <3> HIDE DEF a, x
      <3>2. len'[y[1]] = IF y[1] = a THEN len[a] + 1 ELSE len[y[1]]
        BY <1>4, <2>1 DEF ExactInv, IInv, TypeOK
      <3>3. len[y[1]] \in Nat
        BY <2>1 DEF ExactInv, IInv, TypeOK
      <3> QED BY <1>2, <2>1, <3>1, <3>2, <3>3
    <2> HIDE DEF x
    <2>3. data'[y] = data[y]
      BY <1>4, <2>2 DEF ExactInv, IInv, TypeOK
    <2> QED BY <2>2, <2>3 DEF ExactInv, CellsPastEndEmpty
  <1> HIDE DEF a
  <1>8. FreeIsEmpty' /\ RecordEmpty'
    BY <1>4, <1>5 DEF ExactInv, IInv, TypeOK, FreeIsEmpty, RecordEmpty
  <1> QED BY <1>6, <1>7, <1>8 DEF ExactInv


(* An operator that fails records its operands in an empty record. *)
LEMMA FaultExact ==
  ASSUME ExactInv, IInv', NEW l \in Reg, NEW r \in Reg, Fault(l, r)
  PROVE  ExactInv'
  <1> DEFINE v == top(l)
             w == top(r)
  <1>1. /\ rc' = Ref(Ref(rc, Once(v)), Once(w))
        /\ err' = [err EXCEPT !["left"] = v, !["right"] = w]
        /\ err_type = "ok" /\ err_type' = "fault"
        /\ UNCHANGED <<kind, data, len, const_cache>>
    BY DEF Fault, Running
  <1> HIDE DEF v, w
  <1>2. err'["left"] = v /\ err'["right"] = w
    BY <1>1 DEF ExactInv, IInv, TypeOK, ErrField
  <1>3. RcExact'
    <2> SUFFICES ASSUME NEW p \in Obj, Live(p)' PROVE rc'[p] = Holders(p)'
      BY DEF RcExact
    <2>1. CellsHolding(p)' = CellsHolding(p) /\ ConstsHolding(p)' = ConstsHolding(p)
      BY <1>1 DEF CellsHolding, ConstsHolding
    <2>2. rc[p] = Holders(p) /\ rc[p] \in Nat
      BY <1>1 DEF ExactInv, RcExact, IInv, TypeOK, Live
    <2>3. rc'[p] = rc[p] + (IF p = v THEN 1 ELSE 0) + (IF p = w THEN 1 ELSE 0)
      BY <1>1 DEF Ref, Once
    <2>4. Cardinality(ErrHolding(p)) = 0
      <3>1. ErrHolding(p) = {}
        BY <1>1, ConstAssumption DEF ErrHolding, ExactInv, RecordEmpty
      <3> QED BY <3>1, FS_EmptySet
    <2>5. Cardinality(ErrHolding(p)')
            = (IF p = v THEN 1 ELSE 0) + (IF p = w THEN 1 ELSE 0)
      <3>1. ErrHolding(p)' = (IF p = v THEN {"left"} ELSE {}) \cup (IF p = w THEN {"right"} ELSE {})
        BY <1>2 DEF ErrHolding, ErrField
      <3>2. /\ Cardinality({}) = 0
            /\ Cardinality({"left"}) = 1 /\ Cardinality({"right"}) = 1
            /\ IsFiniteSet({"left"}) /\ "right" \notin {"left"}
        BY FS_EmptySet, FS_Singleton
      <3>3. Cardinality({"left"} \cup {"right"}) = 2
        BY <3>2, JustOneMore
      <3>4. CASE p = v /\ p = w
        BY <3>1, <3>3, <3>4
      <3>5. CASE p = v /\ p # w
        <4>1. ErrHolding(p)' = {"left"}
          BY <3>1, <3>5
        <4> QED BY <3>2, <3>5, <4>1
      <3>6. CASE p # v /\ p = w
        <4>1. ErrHolding(p)' = {"right"}
          BY <3>1, <3>6
        <4> QED BY <3>2, <3>6, <4>1
      <3>7. CASE p # v /\ p # w
        <4>1. ErrHolding(p)' = {}
          BY <3>1, <3>7
        <4> QED BY <3>2, <3>7, <4>1
      <3> QED BY <3>4, <3>5, <3>6, <3>7
    <2> QED BY <2>1, <2>2, <2>3, <2>4, <2>5, HoldersFinite, HoldersFinitePrime DEF Holders
  <1>4. CellsPastEndEmpty' /\ FreeIsEmpty' /\ RecordEmpty'
    BY <1>1 DEF ExactInv, CellsPastEndEmpty, FreeIsEmpty, RecordEmpty
  <1> QED BY <1>3, <1>4 DEF ExactInv

(* The constant cache gives back exactly the counts it took. *)
LEMMA DelConstCacheExact ==
  ASSUME ExactInv, IInv', DelConstCache
  PROVE  ExactInv'
  <1>1. /\ const_cache' = [c \in Const |-> None]
        /\ rc' = Deref(rc, [x \in Obj |-> Cardinality(ConstsHolding(x))])
        /\ UNCHANGED <<kind, data, len, err_type, err>>
    BY DEF DelConstCache, errvars
  <1>2. RcExact'
    <2> SUFFICES ASSUME NEW p \in Obj, Live(p)' PROVE rc'[p] = Holders(p)'
      BY DEF RcExact
    <2>1. CellsHolding(p)' = CellsHolding(p) /\ ErrHolding(p)' = ErrHolding(p)
      BY <1>1 DEF CellsHolding, ErrHolding
    <2>2. Cardinality(ConstsHolding(p)') = 0
      <3>1. ConstsHolding(p)' = {}
        BY <1>1, ConstAssumption DEF ConstsHolding
      <3> QED BY <3>1, FS_EmptySet
    <2>3. rc[p] = Holders(p)
      BY <1>1 DEF ExactInv, RcExact, Live
    <2>4. rc'[p] = IF rc[p] > Cardinality(ConstsHolding(p))
                     THEN rc[p] - Cardinality(ConstsHolding(p)) ELSE 0
      BY <1>1 DEF Deref
    <2> QED BY <2>1, <2>2, <2>3, <2>4, HoldersFinite, HoldersFinitePrime DEF Holders
  <1>3. CellsPastEndEmpty' /\ FreeIsEmpty' /\ RecordEmpty'
    BY <1>1 DEF ExactInv, CellsPastEndEmpty, FreeIsEmpty, RecordEmpty
  <1> QED BY <1>2, <1>3 DEF ExactInv

(* Freeing an object takes back one count for each cell it owned. *)
LEMMA SweepFreeExact ==
  ASSUME ExactInv, IInv', SweepFree
  PROVE  ExactInv'
  <1> DEFINE o == obj_list[cur]
  <1>1. /\ o \in Obj
        /\ rc' = Deref(rc, [x \in Obj |-> Cardinality(CellsOf(o, x))])
        /\ kind' = [kind EXCEPT ![o] = "free"]
        /\ len' = [len EXCEPT ![o] = 0]
        /\ data' = [y \in Cell |-> IF y[1] = o THEN None ELSE data[y]]
        /\ UNCHANGED <<const_cache, err_type, err>>
    BY DEF SweepFree, Collecting, ExactInv, IInv, TypeOK, errvars
  <1> HIDE DEF o
  <1>2. RcExact'
    <2> SUFFICES ASSUME NEW p \in Obj, Live(p)' PROVE rc'[p] = Holders(p)'
      BY DEF RcExact
    <2> DEFINE kept == CellsHolding(p)'
               gone == CellsOf(o, p)
    <2>1. CellsHolding(p) = kept \cup gone /\ kept \cap gone = {}
      BY <1>1, ConstAssumption DEF CellsHolding, CellsOf
    <2>2. /\ IsFiniteSet(kept) /\ Cardinality(kept) \in Nat
          /\ IsFiniteSet(gone) /\ Cardinality(gone) \in Nat
      BY <2>1, HoldersFinite, SubsetCount
    <2>3. ConstsHolding(p)' = ConstsHolding(p) /\ ErrHolding(p)' = ErrHolding(p)
      BY <1>1 DEF ConstsHolding, ErrHolding
    <2>4. rc[p] = Holders(p)
      <3>1. p # None /\ kind'[p] # "free"
        BY ConstAssumption DEF Live
      <3>2. kind[p] # "free"
        BY <1>1, <3>1 DEF ExactInv, IInv, TypeOK
      <3> QED BY <3>2 DEF ExactInv, RcExact, Live
    <2>5. rc'[p] = IF rc[p] > Cardinality(gone) THEN rc[p] - Cardinality(gone) ELSE 0
      BY <1>1 DEF Deref
    <2> HIDE DEF kept, gone
    <2>6. Cardinality(CellsHolding(p)) = Cardinality(kept) + Cardinality(gone)
      <3>1. Cardinality(kept \cap gone) = 0
        BY <2>1, FS_EmptySet
      <3>2. Cardinality(kept \cup gone)
              = Cardinality(kept) + Cardinality(gone) - Cardinality(kept \cap gone)
        BY <2>2, FS_Union
      <3> QED BY <2>1, <2>2, <3>1, <3>2
    <2>7. /\ Holders(p) = Cardinality(kept) + Cardinality(gone)
               + Cardinality(ConstsHolding(p)) + Cardinality(ErrHolding(p))
          /\ Holders(p)' = Cardinality(kept)
               + Cardinality(ConstsHolding(p)) + Cardinality(ErrHolding(p))
      BY <2>3, <2>6 DEF Holders, kept
    <2> QED BY <2>2, <2>4, <2>5, <2>7, HoldersFinite
  <1>3. CellsPastEndEmpty'
    <2> SUFFICES ASSUME NEW y \in Cell, y[2] > len'[y[1]], y[1] # o
                 PROVE  data'[y] = None
      BY <1>1 DEF CellsPastEndEmpty
    <2>1. len'[y[1]] = len[y[1]]
      BY <1>1 DEF Cell, ExactInv, IInv, TypeOK
    <2> QED BY <1>1, <2>1 DEF ExactInv, CellsPastEndEmpty
  <1>4. FreeIsEmpty' /\ RecordEmpty'
    <2>1. ASSUME NEW p \in Obj, kind'[p] = "free" PROVE len'[p] = 0
      <3>1. CASE p = o
        BY <1>1, <3>1 DEF ExactInv, IInv, TypeOK
      <3>2. CASE p # o
        BY <1>1, <2>1, <3>2 DEF ExactInv, IInv, TypeOK, FreeIsEmpty
      <3> QED BY <3>1, <3>2
    <2> QED BY <1>1, <2>1 DEF ExactInv, FreeIsEmpty, RecordEmpty
  <1> QED BY <1>2, <1>3, <1>4 DEF ExactInv

-----------------------------------------------------------------------------
(* The theorem *)

LEMMA InstructionExact ==
  ASSUME OnlyExact, ExactInv, IInv', Instruction
  PROVE  ExactInv'
  <1>1. CASE \/ \E src, dst \in Reg \cup Local : Move(src, dst)
             \/ \E dst \in Reg : MovImmediate(dst)
             \/ LoadSelf
             \/ \E i \in Idx, r \in Reg : ClassGetInner(i, r)
             \/ \E src \in Reg \cup Local, dst \in Reg : Return(src, dst)
             \/ \E dst \in Reg : ReturnNull(dst)
    BY <1>1, FrameExact
       DEF Move, MovImmediate, LoadSelf, ClassGetInner, Return, ReturnNull
  <1>2. CASE \E c \in Const, dst \in Reg, o \in Obj : LoadConst(c, dst, o)
    BY <1>2, LoadConstExact
  <1>3. CASE \/ \E l, r, dst \in Reg, o \in Obj : StringOp(l, r, dst, o)
             \/ \E dst \in Reg, o \in Obj : ArrayNew(dst, o)
             \/ \E dst \in Reg, o \in Obj : ClassNew(dst, o)
    <2>1. /\ {"str", "array", "class"} \subseteq Kind
          /\ 0 \in 0 .. MaxLen /\ MaxLen \in 0 .. MaxLen
      BY ConstAssumption DEF Kind
    <2> QED BY <1>3, <2>1, NewExact DEF StringOp, ArrayNew, ClassNew
  <1>4. CASE \E dst, src \in Reg : ArrayPush(dst, src)
    BY <1>4, AppendExact DEF ArrayPush
  <1>5. CASE \E l, r \in Reg : Fault(l, r)
    BY <1>5, FaultExact
  <1>6. ~ \/ \E src \in Reg, c \in Const : SetConst(src, c)
          \/ \E dst \in Reg, n \in Idx, o \in Obj : TupleNew(dst, n, o)
          \/ \E dst \in Reg, o \in Obj : LoadFunc(dst, o)
          \/ \E dst \in Reg, i \in Idx, inits \in Fields, o \in Obj :
               ClassNewInitialized(dst, i, inits, o)
          \/ \E dst, src \in Reg : BindArg(dst, src)
          \/ \E col, r \in Reg, i \in Idx : IdxGet(col, i, r) \/ IdxSet(col, i, r)
          \/ \E i \in Idx, r \in Reg : ClassSetInner(i, r)
          \/ \E args \in Arguments : Call(args)
          \/ \E args \in Arguments, dst \in Reg : NativeRead(args, dst)
          \/ \E arr, src, dst \in Reg : NativeArrayPush(arr, src, dst)
          \/ \E arr, dst \in Reg : NativeArrayPop(arr, dst)
          \/ \E src \in Reg : Raise(src)
    <2>1. \A op : op \notin ExactOps => ~Executes(op)
      BY DEF OnlyExact, Executes
    <2>2. /\ ~Executes("SET_CONST") /\ ~Executes("TUPLE_NEW") /\ ~Executes("LOAD_FUNC")
          /\ ~Executes("CLASS_NEW_INITIALIZED") /\ ~Executes("BIND_ARG_TO_FUNC")
          /\ ~Executes("IDX_GET") /\ ~Executes("IDX_SET") /\ ~Executes("CLASS_SET_INNER")
          /\ ~Executes("CALL") /\ ~Executes("CALL_NATIVE") /\ ~Executes("RAISE")
      BY <2>1 DEF ExactOps
    <2>3. ~ \/ \E src \in Reg, c \in Const : SetConst(src, c)
            \/ \E dst \in Reg, n \in Idx, o \in Obj : TupleNew(dst, n, o)
            \/ \E dst \in Reg, o \in Obj : LoadFunc(dst, o)
            \/ \E dst \in Reg, i \in Idx, inits \in Fields, o \in Obj :
                 ClassNewInitialized(dst, i, inits, o)
            \/ \E dst, src \in Reg : BindArg(dst, src)
      <3>1. ASSUME NEW dst \in Reg, NEW i \in Idx, NEW inits \in Fields, NEW o \in Obj
            PROVE  ~ClassNewInitialized(dst, i, inits, o)
        BY ONLY <2>2 DEF ClassNewInitialized
      <3>2. ASSUME NEW dst \in Reg, NEW src \in Reg PROVE ~BindArg(dst, src)
        BY ONLY <2>2 DEF BindArg, Append1
      <3>3. ~ \/ \E src \in Reg, c \in Const : SetConst(src, c)
              \/ \E dst \in Reg, n \in Idx, o \in Obj : TupleNew(dst, n, o)
              \/ \E dst \in Reg, o \in Obj : LoadFunc(dst, o)
        BY ONLY <2>2 DEF SetConst, TupleNew, LoadFunc, New
      <3> QED BY ONLY <3>1, <3>2, <3>3
    <2>4. ~ \/ \E col, r \in Reg, i \in Idx : IdxGet(col, i, r) \/ IdxSet(col, i, r)
            \/ \E i \in Idx, r \in Reg : ClassSetInner(i, r)
            \/ \E args \in Arguments : Call(args)
            \/ \E args \in Arguments, dst \in Reg : NativeRead(args, dst)
      BY ONLY <2>2 DEF IdxGet, IdxSet, ClassSetInner, Call, NativeRead
    <2>5. ~ \/ \E arr, src, dst \in Reg : NativeArrayPush(arr, src, dst)
            \/ \E arr, dst \in Reg : NativeArrayPop(arr, dst)
            \/ \E src \in Reg : Raise(src)
      BY ONLY <2>2 DEF NativeArrayPush, NativeArrayPop, Raise
    <2> QED BY ONLY <2>3, <2>4, <2>5
  <1> QED BY <1>1, <1>2, <1>3, <1>4, <1>5, <1>6 DEF Instruction

LEMMA NextExact ==
  ASSUME OnlyExact, ExactInv, [Next]_vars
  PROVE  ExactInv'
  <1>1. IInv'
    BY ExactIsCounted, NextSafe DEF ExactInv
  <1>2. CASE Instruction
    BY <1>1, <1>2, InstructionExact
  <1>3. CASE SweepFree
    BY <1>1, <1>3, SweepFreeExact
  <1>4. CASE DelConstCache
    BY <1>1, <1>4, DelConstCacheExact
  <1>5. CASE StartCollect \/ SweepKeep \/ SweepEnd \/ Propagate \/ UNCHANGED vars
    BY <1>1, <1>5, FrameExact DEF StartCollect, SweepKeep, SweepEnd, Propagate, vars
  <1>6. ~ \E dst \in Reg : Catch(dst)
    BY DEF ExactInv, RecordEmpty, Catch
  <1> QED BY <1>2, <1>3, <1>4, <1>5, <1>6 DEF Next, Collect, Sweep

LEMMA InitExact == Init => ExactInv
  <1> SUFFICES ASSUME Init PROVE ExactInv
    OBVIOUS
  <1>1. /\ data = [x \in Cell |-> None]
        /\ kind = [o \in Obj |-> "free"] /\ len = [o \in Obj |-> 0]
        /\ err_type = "ok" /\ err = [e \in ErrField |-> None]
    BY DEF Init
  <1>2. IInv
    BY InitSafe
  <1>3. RcExact
    BY <1>1, ConstAssumption DEF RcExact, Live
  <1>4. CellsPastEndEmpty /\ FreeIsEmpty /\ RecordEmpty
    BY <1>1 DEF CellsPastEndEmpty, FreeIsEmpty, RecordEmpty
  <1> QED BY <1>2, <1>3, <1>4 DEF ExactInv

(***************************************************************************)
(* What docs/architecture.md says of the count holds for every program     *)
(* that keeps to ExactOps, at every point between two instructions and     *)
(* between two objects of a sweep: it is the number of cells, constants    *)
(* and error fields that hold the object, neither more nor less.           *)
(***************************************************************************)
THEOREM CountsAreExact == OnlyExact => (Spec => []RcExact)
  <1> SUFFICES ASSUME OnlyExact PROVE Spec => []RcExact
    OBVIOUS
  <1>1. ExactInv /\ [Next]_vars => ExactInv'
    BY NextExact
  <1>2. ExactInv => RcExact
    BY DEF ExactInv
  <1> QED BY <1>1, <1>2, InitExact, PTL DEF Spec

=============================================================================
