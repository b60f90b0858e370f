-------------------------------- MODULE Dict --------------------------------
(***************************************************************************)
(* Dictionaries: src/core/rt/au_dict.c as the instructions DICT_NEW,       *)
(* IDX_GET and IDX_SET of src/core/vm/vm.c use it, with the counts of the  *)
(* keys and values and the collector that frees what has none.  No call    *)
(* of the table is interrupted, so a call is one step; a collection may    *)
(* come before any of them (au_data_calloc and au_obj_malloc collect       *)
(* before they allocate).                                                  *)
(*                                                                         *)
(* Strings are counted objects, and two of one content are equal.  Numbers *)
(* are not counted; a double has no case in au_value_eq and is, as a key,  *)
(* equal to nothing, itself included.                                      *)
(***************************************************************************)
EXTENDS Naturals, Sequences, SequencesExt, FiniteSetsExt

CONSTANTS
  KeyString, \* string objects used as keys
  IntKey,    \* integers used as keys
  DoubleKey, \* doubles used as keys
  Content,   \* contents of strings, and integers
  ContentOf, \* the content of each key that is not a double
  Val,       \* strings used as values
  Plain,     \* values without a count
  NoValue,   \* the empty value, AU_VALUE_ERROR
  HashValue, \* the hashes au_hash_value gives
  MaxItems,  \* bound on the entries
  MaxRc      \* bound on a value's count before it is set or read

Comparable == KeyString \cup IntKey
Key == Comparable \cup DoubleKey
Obj == KeyString \cup Val
Uncounted == IntKey \cup DoubleKey \cup Plain

ASSUME DictAssumption ==
  /\ ContentOf \in [Comparable -> Content]
  /\ NoValue \notin Obj \cup Uncounted \cup Content
  /\ Obj \cap Uncounted = {} /\ Comparable \cap (DoubleKey \cup Val) = {}
  /\ HashValue \subseteq Nat
  /\ {MaxItems, MaxRc} \subseteq Nat \ {0}

Empty == [used |-> FALSE]
Bucket == [used : {TRUE}, key : Key, val : Val \cup Plain, hash : HashValue, psl : Nat]

VARIABLES
  hash,    \* au_hash_value, the same throughout a behaviour
  alive,   \* the dictionary has not been freed
  buckets, \* hashmap.buckets, hashmap.size is its length
  nitems,  \* hashmap.nitems
  rc,      \* the count of each string
  live,    \* the strings that have not been freed
  regs,    \* the strings in registers, which do not count
  held,    \* the dictionary is in a register
  got      \* the last value read, with the content it was read for

vars == <<hash, alive, buckets, nitems, rc, live, regs, held, got>>

TypeOK ==
  /\ hash \in [Content \cup DoubleKey -> HashValue]
  /\ alive \in BOOLEAN
  /\ buckets \in Seq(Bucket \cup {Empty}) /\ Len(buckets) > 0
  /\ nitems \in 0 .. Len(buckets)
  /\ rc \in [Obj -> Nat]
  /\ live \subseteq Obj
  /\ regs \subseteq live
  /\ held \in BOOLEAN
  /\ got \in {NoValue} \cup (Content \X (Val \cup Plain \cup {NoValue}))

(* hm_init: one bucket. *)
Init ==
  /\ hash \in [Content \cup DoubleKey -> HashValue]
  /\ alive = TRUE /\ held = TRUE
  /\ buckets = <<Empty>> /\ nitems = 0
  /\ rc = [o \in Obj |-> 0]
  /\ live = {} /\ regs = {}
  /\ got = NoValue

-----------------------------------------------------------------------------
HashOf(k) == IF k \in Comparable THEN hash[ContentOf[k]] ELSE hash[k]

value_eq(k, l) ==
  k \in Comparable /\ l \in Comparable /\ ContentOf[k] = ContentOf[l]

Matches(b, k) == b.used /\ b.hash = HashOf(k) /\ value_eq(b.key, k)

(* The bucket at a distance from the base. *)
At(bs, base, n) == ((base + n) % Len(bs)) + 1

(* Mutant of Stops: a bucket of the same probe length ends the search. *)
StopsEarly(b, n) == ~b.used \/ n >= b.psl

Stops(b, n) == ~b.used \/ n > b.psl

hm_get(k) ==
  LET b(n) == buckets[At(buckets, HashOf(k), n)]
      last == Min({n \in 0 .. Len(buckets) :
                     Matches(b(n), k) \/ Stops(b(n), n)})
  IN IF Matches(b(last), k) THEN b(last).val ELSE NoValue

-----------------------------------------------------------------------------
(* A table being filled: t.buckets, t.nitems, t.rc. *)

Ref(t, o) == IF o \in Obj THEN [t EXCEPT !.rc[o] = @ + 1] ELSE t
Deref(t, o) ==
  IF o \in Obj /\ t.rc[o] > 0 THEN [t EXCEPT !.rc[o] = @ - 1] ELSE t

(* Mutant of Replace: the reference to the second key stays. *)
ReplaceKeepsRef(t, j, e) ==
  [Deref(t, t.buckets[j].val) EXCEPT !.buckets[j].val = e.val]

Replace(t, j, e) ==
  [Deref(Deref(t, e.key), t.buckets[j].val) EXCEPT !.buckets[j].val = e.val]

Richer(b, e) == e.psl > b.psl

(* The loop of hm_insert from the bucket at distance n: e is the entry     *)
(* without a place, k and v what hm_insert was called with.                *)
RECURSIVE Probe(_, _, _, _)
Probe(t, n, e, new) ==
  LET j == At(t.buckets, HashOf(new.key), n)
      b == t.buckets[j]
  IN IF ~b.used THEN [t EXCEPT !.buckets[j] = e, !.nitems = @ + 1]
     ELSE IF Matches(b, new.key)
       THEN Replace(t, j, [e EXCEPT !.val = new.val])
     ELSE IF Richer(b, e)
       THEN Probe([t EXCEPT !.buckets[j] = e], n + 1,
                  [b EXCEPT !.psl = @ + 1], new)
     ELSE Probe(t, n + 1, [e EXCEPT !.psl = @ + 1], new)

(* Mutant of hm_insert: the value is not referenced. *)
insert_uncounted(t, k, v) ==
  LET new == [used |-> TRUE, key |-> k, val |-> v, hash |-> HashOf(k), psl |-> 0]
  IN Probe(Ref(t, k), 0, new, new)

hm_insert(t, k, v) ==
  LET new == [used |-> TRUE, key |-> k, val |-> v, hash |-> HashOf(k), psl |-> 0]
  IN Probe(Ref(Ref(t, k), v), 0, new, new)

(* hm_insert references the value once more, and nothing takes it back. *)
Reinsert(t, b) ==
  IF b.used THEN Deref(hm_insert(t, b.key, b.val), b.key) ELSE t

hm_resize(t, newsize) ==
  FoldLeft(Reinsert,
           [t EXCEPT !.buckets = [j \in 1 .. newsize |-> Empty], !.nitems = 0],
           t.buckets)

(* APPROX_85_PERCENT *)
Loaded == nitems > (Len(buckets) * 870) \div 1024

table == [buckets |-> buckets, nitems |-> nitems, rc |-> rc]

hm_put(k, v) ==
  hm_insert(IF Loaded THEN hm_resize(table, 2 * Len(buckets)) ELSE table, k, v)

-----------------------------------------------------------------------------
(* The instructions *)

InRegister == regs \cup Uncounted

(* Other instructions make a string or take it out of all registers. *)
Make(o) ==
  /\ o \notin live
  /\ live' = live \cup {o} /\ regs' = regs \cup {o}
  /\ UNCHANGED <<hash, alive, buckets, nitems, rc, held, got>>

Drop(o) ==
  /\ regs' = regs \ {o}
  /\ UNCHANGED <<hash, alive, buckets, nitems, rc, live, held, got>>

(* IDX_SET: au_obj_dict_set *)
IdxSet(k, v) ==
  LET t == hm_put(k, v) IN
  /\ held /\ {k, v} \subseteq InRegister
  /\ nitems < MaxItems /\ \A o \in Val : rc[o] < MaxRc
  /\ buckets' = t.buckets /\ nitems' = t.nitems /\ rc' = t.rc
  /\ UNCHANGED <<hash, alive, live, regs, held, got>>

(* IDX_GET: hm_get references the value for its caller, whose register     *)
(* does not count; invalid_index_error when there is none.                 *)
IdxGet(k) ==
  LET v == hm_get(k) IN
  /\ held /\ k \in InRegister
  /\ v \in Obj => rc[v] < MaxRc
  /\ rc' = Ref(table, v).rc
  /\ regs' = regs \cup ({v} \cap Obj)
  /\ got' = IF k \in Comparable THEN <<ContentOf[k], v>> ELSE got
  /\ UNCHANGED <<hash, alive, buckets, nitems, live, held>>

DropDict ==
  /\ held' = FALSE
  /\ UNCHANGED <<hash, alive, buckets, nitems, rc, live, regs, got>>

(* DICT_NEW, once the last dictionary is gone. *)
DictNew ==
  /\ ~alive
  /\ alive' = TRUE /\ held' = TRUE
  /\ buckets' = <<Empty>> /\ nitems' = 0
  /\ UNCHANGED <<hash, rc, live, regs, got>>

-----------------------------------------------------------------------------
(* The collector frees what no count and no register keeps. *)

(* Mutant of should_free: registers are not looked at. *)
should_free_unmarked(o) == rc[o] = 0

should_free(o) == rc[o] = 0 /\ o \notin regs

Free(o) ==
  /\ o \in live /\ should_free(o)
  /\ live' = live \ {o}
  /\ UNCHANGED <<hash, alive, buckets, nitems, rc, regs, held, got>>

(* hm_destroy gives back the keys, not the values. *)
hm_destroy == FoldLeft(LAMBDA t, b : IF b.used THEN Deref(t, b.key) ELSE t,
                       table, buckets)

FreeDict ==
  /\ alive /\ ~held
  /\ alive' = FALSE
  /\ buckets' = <<Empty>> /\ nitems' = 0
  /\ rc' = hm_destroy.rc
  /\ UNCHANGED <<hash, live, regs, held, got>>

Next ==
  \/ \E o \in Obj : Make(o) \/ Free(o)
  \/ (\E o \in regs : Drop(o)) \/ (held /\ DropDict)
  \/ (\E k \in Key : IdxGet(k) \/ \E v \in Val \cup Plain : IdxSet(k, v))
  \/ DictNew \/ FreeDict

Spec == Init /\ [][Next]_vars
-----------------------------------------------------------------------------
(* Properties *)

Holding(o) ==
  {j \in DOMAIN buckets : buckets[j].used /\ o \in {buckets[j].key, buckets[j].val}}

(***************************************************************************)
(* Nothing a bucket holds has been freed, although registers are not       *)
(* counted and keys and values move through duplicates, swaps and resizes: *)
(* each bucket is covered by a reference of its own.                       *)
(***************************************************************************)
BucketsCovered ==
  \A o \in Obj : /\ rc[o] >= Cardinality(Holding(o))
                 /\ Holding(o) # {} => o \in live

(***************************************************************************)
(* A key is referenced by the buckets that hold it and by nothing else, so *)
(* that it can be freed after its dictionary: the references hm_insert     *)
(* takes for a second equal key and in a resize are given back.            *)
(***************************************************************************)
KeysExact == \A k \in KeyString : rc[k] = Cardinality(Holding(k))

(***************************************************************************)
(* Reading a dictionary gives what was set last for an equal string: the   *)
(* table implements DictSpec.                                              *)
(***************************************************************************)
Map ==
  [c \in Content |->
     LET holding == {j \in DOMAIN buckets :
                       buckets[j].used /\ buckets[j].key \in Comparable
                         /\ ContentOf[buckets[j].key] = c}
     IN IF holding = {} THEN NoValue ELSE buckets[CHOOSE j \in holding : TRUE].val]

Abstract == INSTANCE DictSpec WITH map <- Map, Value <- Val \cup Plain
ReadsLastSet == Abstract!Spec
=============================================================================
