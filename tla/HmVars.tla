------------------------------- MODULE HmVars -------------------------------
(***************************************************************************)
(* The string-keyed hash table of src/core/hm_vars.c that holds variables, *)
(* functions, constants, classes and modules: Robin Hood hashing with      *)
(* linear probing, doubling when it is loaded.  One step of the model is   *)
(* one turn of a probe loop, so the invariants speak of the table in the   *)
(* middle of an insertion and of a resize as well.                         *)
(***************************************************************************)
EXTENDS Naturals, FiniteSets

CONSTANTS
  Key,           \* the strings used as keys, none of them empty
  Value,
  NoValue,       \* NULL
  HashValue,     \* the hashes au_hash gives to Key
  MaxGrowthStep, \* MAX_GROWTH_STEP
  Load,          \* 870 in APPROX_85_PERCENT, of 1024
  MaxSize        \* bound on the number of buckets

ASSUME TableAssumption ==
  /\ NoValue \notin Value
  /\ HashValue \subseteq Nat
  /\ MaxGrowthStep \in Nat \ {0}
  /\ Load \in 0 .. 1023
  /\ MaxSize \in Nat \ {0}

Empty == [used |-> FALSE]
Entry == [used : {TRUE}, key : Key, val : Value, psl : Nat]
Buckets(n) == [0 .. n - 1 -> Entry \cup {Empty}]

VARIABLES
  hash,     \* au_hash, the same throughout a behaviour
  buckets,  \* hmap->buckets
  size,     \* hmap->size
  nitems,   \* hmap->nitems
  pc,       \* which loop runs: "idle", "get", "insert" or "resize"
  i,        \* its bucket
  n,        \* hm_get: the distance from the base
  key,      \* the key the loop looks for
  entry,    \* hm_insert: the entry without a place
  placed,   \* hm_insert: entry_initialized, false until a new key has one
  old,      \* hm_resize: oldbuckets
  oi,       \* hm_resize: the next of them
  request,  \* the pair au_hm_vars_add was called with
  ret       \* what the last call returned

tablevars == <<buckets, size, nitems>>
oldvars == <<old, oi>>
vars == <<hash, tablevars, pc, i, n, key, entry, placed, oldvars, request, ret>>

TypeOK ==
  /\ hash \in [Key -> HashValue]
  /\ size \in 1 .. MaxSize
  /\ buckets \in Buckets(size)
  /\ nitems \in 0 .. size
  /\ pc \in {"idle", "get", "insert", "resize"}
  /\ i \in 0 .. size - 1
  /\ n \in Nat
  /\ key \in Key
  /\ entry \in Entry \cup {Empty}
  /\ placed \in BOOLEAN
  /\ \E m \in 0 .. MaxSize : old \in Buckets(m)
  /\ oi \in Nat
  /\ request \in (Key \X Value) \cup {NoValue}

NoOld == [x \in {} |-> Empty]

(* au_hm_vars_init: minsize is one bucket. *)
Init ==
  /\ hash \in [Key -> HashValue]
  /\ size = 1
  /\ buckets = [b \in {0} |-> Empty]
  /\ nitems = 0
  /\ pc = "idle" /\ i = 0 /\ n = 0 /\ key \in Key
  /\ entry = Empty /\ placed = FALSE
  /\ old = NoOld /\ oi = 0
  /\ request = NoValue
  /\ ret = NoValue

Base(k) == hash[k] % size

(* Mutant of Next1: no wrap-around. *)
NextPastEnd(b) == b + 1

Next1(b) == (b + 1) % size

-----------------------------------------------------------------------------
(* hm_get *)

Get(k) ==
  /\ pc = "idle"
  /\ pc' = "get" /\ key' = k /\ n' = 0 /\ i' = Base(k)
  /\ UNCHANGED <<hash, tablevars, entry, placed, oldvars, request, ret>>

Holds(b, k) == b.used /\ b.key = k

GetHit ==
  /\ pc = "get"
  /\ Holds(buckets[i], key)
  /\ ret' = <<key, buckets[i].val>>
  /\ pc' = "idle" /\ i' = 0 /\ n' = 0
  /\ UNCHANGED <<hash, tablevars, key, entry, placed, oldvars, request>>

(* Mutant of Stops: an entry as near as the key would be stops the search. *)
StopsEarly(b) == b.used => n >= b.psl

(* An empty bucket, or one whose entry is nearer to its base than the key  *)
(* would be.                                                               *)
Stops(b) == b.used => n > b.psl

GetMiss ==
  /\ pc = "get"
  /\ ~Holds(buckets[i], key) /\ Stops(buckets[i])
  /\ ret' = <<key, NoValue>>
  /\ pc' = "idle" /\ i' = 0 /\ n' = 0
  /\ UNCHANGED <<hash, tablevars, key, entry, placed, oldvars, request>>

GetNext ==
  /\ pc = "get"
  /\ ~Holds(buckets[i], key) /\ ~Stops(buckets[i])
  /\ n' = n + 1 /\ i' = Next1(i)
  /\ UNCHANGED <<hash, tablevars, pc, key, entry, placed, oldvars, request, ret>>

-----------------------------------------------------------------------------
(* hm_insert, for the caller's pair or for an entry of the old table *)

Resizing == oi \in DOMAIN old

StartInsert(k, v, known) ==
  /\ pc' = "insert" /\ key' = k
  /\ entry' = [used |-> TRUE, key |-> k, val |-> v, psl |-> 0]
  /\ placed' = known

(* Mutant of EndInsert: the loop of the resize does not go on. *)
EndInsertStuck ==
  /\ i' = 0 /\ entry' = Empty /\ placed' = FALSE
  /\ IF Resizing THEN /\ pc' = "resize"
                      /\ UNCHANGED <<oldvars, request, ret>>
     ELSE /\ pc' = "idle" /\ request' = NoValue
          /\ UNCHANGED oldvars

(* Back to the loop of the resize, or to the caller. *)
EndInsert ==
  /\ i' = 0 /\ entry' = Empty /\ placed' = FALSE
  /\ IF Resizing THEN /\ pc' = "resize" /\ oi' = oi + 1
                      /\ UNCHANGED <<old, request, ret>>
     ELSE /\ pc' = "idle" /\ request' = NoValue
          /\ UNCHANGED oldvars

InsertDuplicate ==
  /\ pc = "insert"
  /\ Holds(buckets[i], key)
  /\ EndInsert
  /\ ~Resizing => ret' = <<key, buckets[i].val>>
  /\ UNCHANGED <<hash, tablevars, n, key>>

(* Mutant of Richer: the entry nearer to its base wins the place. *)
Nearer(b) == entry.psl < b.psl

Richer(b) == entry.psl > b.psl

(* Mutants of InsertSwap: the displaced entry's probe length does not grow; *)
(* the displaced entry is forgotten.                                        *)
SwapKeepsPsl ==
  /\ pc = "insert"
  /\ buckets[i].used /\ ~Holds(buckets[i], key)
  /\ Richer(buckets[i])
  /\ buckets' = [buckets EXCEPT ![i] = entry]
  /\ entry' = buckets[i]
  /\ placed' = TRUE
  /\ i' = Next1(i)
  /\ UNCHANGED <<hash, size, nitems, pc, n, key, oldvars, request, ret>>
SwapForgets ==
  /\ pc = "insert"
  /\ buckets[i].used /\ ~Holds(buckets[i], key)
  /\ Richer(buckets[i])
  /\ buckets' = [buckets EXCEPT ![i] = entry]
  /\ entry' = [entry EXCEPT !.psl = @ + 1]
  /\ placed' = TRUE
  /\ i' = Next1(i)
  /\ UNCHANGED <<hash, size, nitems, pc, n, key, oldvars, request, ret>>

(* The entry takes the place of one nearer to its base. *)
InsertSwap ==
  /\ pc = "insert"
  /\ buckets[i].used /\ ~Holds(buckets[i], key)
  /\ Richer(buckets[i])
  /\ buckets' = [buckets EXCEPT ![i] = entry]
  /\ entry' = [buckets[i] EXCEPT !.psl = @ + 1]
  /\ placed' = TRUE
  /\ i' = Next1(i)
  /\ UNCHANGED <<hash, size, nitems, pc, n, key, oldvars, request, ret>>

InsertNext ==
  /\ pc = "insert"
  /\ buckets[i].used /\ ~Holds(buckets[i], key)
  /\ ~Richer(buckets[i])
  /\ entry' = [entry EXCEPT !.psl = @ + 1]
  /\ i' = Next1(i)
  /\ UNCHANGED <<hash, tablevars, pc, n, key, placed, oldvars, request, ret>>

InsertFree ==
  /\ pc = "insert"
  /\ ~buckets[i].used
  /\ buckets' = [buckets EXCEPT ![i] = entry]
  /\ nitems' = nitems + 1
  /\ EndInsert
  /\ ~Resizing => ret' = <<key, NoValue>>
  /\ UNCHANGED <<hash, size, n, key>>

-----------------------------------------------------------------------------
(* au_hm_vars_add and hm_resize *)

Threshold == (size * Load) \div 1024

Smaller(a, b) == IF a < b THEN a ELSE b
NewSize == Smaller(size * 2, size + MaxGrowthStep)

Add(k, v) ==
  /\ pc = "idle"
  /\ request' = <<k, v>>
  /\ \/ /\ nitems <= Threshold
        /\ StartInsert(k, v, FALSE)
        /\ i' = Base(k)
        /\ UNCHANGED <<tablevars, oldvars>>
     \/ /\ nitems > Threshold
        /\ NewSize <= MaxSize
        /\ old' = buckets /\ oi' = 0
        /\ size' = NewSize
        /\ buckets' = [b \in 0 .. NewSize - 1 |-> Empty]
        /\ nitems' = 0
        /\ pc' = "resize" /\ i' = 0
        /\ UNCHANGED <<key, entry, placed>>
  /\ UNCHANGED <<hash, n, ret>>

ResizeSkip ==
  /\ pc = "resize" /\ Resizing
  /\ ~old[oi].used
  /\ oi' = oi + 1
  /\ UNCHANGED <<hash, tablevars, pc, i, n, key, entry, placed, old, request, ret>>

ResizeMove ==
  /\ pc = "resize" /\ Resizing
  /\ old[oi].used
  /\ StartInsert(old[oi].key, old[oi].val, TRUE)
  /\ i' = Base(old[oi].key)
  /\ UNCHANGED <<hash, tablevars, n, oldvars, request, ret>>

ResizeEnd ==
  /\ pc = "resize" /\ ~Resizing
  /\ old' = NoOld /\ oi' = 0
  /\ StartInsert(request[1], request[2], FALSE)
  /\ i' = Base(request[1])
  /\ UNCHANGED <<hash, tablevars, n, request, ret>>

-----------------------------------------------------------------------------
Call == \E k \in Key : Get(k) \/ \E v \in Value : Add(k, v)

Step == \/ GetHit \/ GetMiss \/ GetNext
        \/ InsertDuplicate \/ InsertSwap \/ InsertNext \/ InsertFree
        \/ ResizeSkip \/ ResizeMove \/ ResizeEnd

Next == Call \/ Step

(* A call that has begun keeps running. *)
Spec == Init /\ [][Next]_vars /\ WF_vars(Step)

-----------------------------------------------------------------------------
(* Properties *)

Used == {b \in DOMAIN buckets : buckets[b].used}

(***************************************************************************)
(* validate_psl_p, the check that the source has commented out of every    *)
(* loop: an entry's probe length is its distance from its base, with the   *)
(* wrap-around, and so is that of the entry in flight.                     *)
(***************************************************************************)
Distance(k, b) == (b + size - Base(k)) % size

PslValid ==
  /\ \A b \in Used : buckets[b].psl = Distance(buckets[b].key, b)
  /\ pc = "insert" => entry.psl = Distance(entry.key, i)

(***************************************************************************)
(* The Robin Hood order that lets hm_get stop early: on the way from its   *)
(* base to an entry every bucket is used, by an entry at least as far from *)
(* its own base.                                                           *)
(***************************************************************************)
RobinHood ==
  PslValid /\ \A b \in Used : buckets[b].psl > 0 =>
     LET before == buckets[(b + size - 1) % size]
     IN before.used /\ before.psl + 1 >= buckets[b].psl

(***************************************************************************)
(* No key is stored twice, in the table, in the part of the old table that *)
(* is still to be moved, or in flight: although hm_insert goes on          *)
(* comparing with the key it started from after it has swapped entries.    *)
(***************************************************************************)
StillOld == {b \in DOMAIN old : old[b].used /\ b >= oi /\ (b = oi => pc = "resize")}
InFlight == pc = "insert" /\ placed

Copies(k) ==
  Cardinality({b \in Used : buckets[b].key = k})
    + Cardinality({b \in StillOld : old[b].key = k})
    + (IF InFlight /\ entry.key = k THEN 1 ELSE 0)

OneCopy ==
  /\ \A k \in Key : Copies(k) <= 1
  /\ nitems = Cardinality(Used)

(* The value of each key, the key of an unfinished au_hm_vars_add without.  *)
Entries ==
  {buckets[b] : b \in Used} \cup {old[b] : b \in StillOld}
    \cup (IF InFlight THEN {entry} ELSE {})

Present(k) == {e.val : e \in {x \in Entries : x.key = k}}

Adding(k) == InFlight /\ ~Resizing /\ key = k

Map == [k \in Key |-> IF Adding(k) \/ Present(k) = {} THEN NoValue
                      ELSE CHOOSE v \in Present(k) : TRUE]

Abstract == INSTANCE TableSpec WITH map <- Map

(***************************************************************************)
(* The probing, swapping and growing table behaves as the map of TableSpec *)
(* whatever the hashes: nothing is lost or changed by a resize, no present *)
(* key is missed, an existing key keeps its value.                         *)
(***************************************************************************)
ImplementsMap == Abstract!Spec

(* Every call returns, on a table without an empty bucket too. *)
CallsReturn == pc # "idle" ~> pc = "idle"
=============================================================================
