---------------------------- MODULE HmVarsProofs ----------------------------
(***************************************************************************)
(* The hash table of src/core/hm_vars.c is a map: for any keys, hashes and *)
(* sizes, in the middle of every loop.                                     *)
(***************************************************************************)
EXTENDS HmVars, FiniteSetTheorems, TLAPS

-----------------------------------------------------------------------------
(* Arithmetic of the buckets *)

LEMMA ModOfNat ==
  ASSUME NEW a \in Nat, NEW s \in Nat \ {0}
  PROVE  a % s \in 0 .. s - 1
  OBVIOUS

(* The remainder of a number below twice the divisor. *)
LEMMA ModOnce ==
  ASSUME NEW s \in Nat \ {0}, NEW a \in 0 .. 2 * s - 1
  PROVE  /\ a < s => a % s = a
         /\ a >= s => a % s = a - s
  <1>1. a = s * (a \div s) + (a % s) /\ a % s \in 0 .. s - 1
    OBVIOUS
  <1>2. a >= s => a \div s = 1
    OBVIOUS
  <1> QED BY <1>1, <1>2

LEMMA ThresholdBelowSize ==
  ASSUME NEW s \in Nat \ {0}, NEW m \in Nat, m <= (s * Load) \div 1024
  PROVE  m < s
  <1>1. s * Load <= s * 1023
    BY TableAssumption
  <1>2. 1024 * ((s * Load) \div 1024) <= s * Load
    BY TableAssumption
  <1> QED BY <1>1, <1>2, TableAssumption

LEMMA BelowNext ==
  ASSUME NEW a \in Nat \ {0}, NEW z \in Nat, a < z
  PROVE  a \in 1 .. z - 1
  OBVIOUS

(* The buckets of a table, and how far each is from the base of a key. *)
Sized == hash \in [Key -> Nat] /\ size \in Nat \ {0}
Place == 0 .. size - 1

LEMMA CyclicDistance ==
  ASSUME NEW s \in Nat \ {0}, NEW o \in 0 .. s - 1, NEW b \in 0 .. s - 1
  PROVE  /\ b >= o => (b + s - o) % s = b - o
         /\ b < o => (b + s - o) % s = b + s - o
         /\ b < s - 1 => (b + 1) % s = b + 1
         /\ b = s - 1 => (b + 1) % s = 0
  <1>1. PICK a \in 0 .. 2 * s - 1 : a = b + s - o
    OBVIOUS
  <1>2. /\ a < s => a % s = a
        /\ a >= s => a % s = a - s
    BY ModOnce
  <1>3. PICK d \in 0 .. 2 * s - 1 : d = b + 1
    OBVIOUS
  <1>4. /\ d < s => d % s = d
        /\ d >= s => d % s = d - s
    BY ModOnce
  <1>5. /\ b >= o => a % s = b - o
        /\ b < o => a % s = b + s - o
    BY <1>1, <1>2
  <1>6. /\ b < s - 1 => d % s = b + 1
        /\ b = s - 1 => d % s = 0
    BY <1>3, <1>4
  <1> QED BY <1>1, <1>3, <1>5, <1>6

LEMMA DistanceBase ==
  ASSUME Sized, NEW k \in Key
  PROVE  Base(k) \in Place /\ Distance(k, Base(k)) = 0
  <1>1. Base(k) \in Place
    BY ModOfNat DEF Sized, Base, Place
  <1>2. (Base(k) + size - Base(k)) % size = Base(k) - Base(k)
    BY <1>1, CyclicDistance DEF Sized, Place
  <1> QED BY <1>1, <1>2 DEF Distance, Place

LEMMA DistanceRange ==
  ASSUME Sized, NEW k \in Key, NEW b \in Place
  PROVE  /\ Distance(k, b) \in Place
         /\ Distance(k, b) \in 0 .. size - 1
  <1>1. PICK o \in Place : o = Base(k)
    BY DistanceBase
  <1>2. b + size - o \in Nat
    BY DEF Sized, Place
  <1>3. (b + size - o) % size \in 0 .. size - 1
    BY <1>2, ModOfNat DEF Sized
  <1> QED BY <1>1, <1>3 DEF Distance, Place

LEMMA DistanceInjective ==
  ASSUME Sized, NEW k \in Key, NEW b \in Place, NEW c \in Place,
         Distance(k, b) = Distance(k, c)
  PROVE  b = c
  <1>1. PICK o \in Place : o = Base(k)
    BY DistanceBase
  <1>2. (b + size - o) % size = (c + size - o) % size
    BY <1>1 DEF Distance
  <1>3. /\ b >= o => (b + size - o) % size = b - o
        /\ b < o => (b + size - o) % size = b + size - o
        /\ c >= o => (c + size - o) % size = c - o
        /\ c < o => (c + size - o) % size = c + size - o
    BY CyclicDistance DEF Sized, Place
  <1> QED BY <1>2, <1>3 DEF Place, Sized

(* One bucket further on; from the farthest one back to the base. *)
LEMMA DistanceNext ==
  ASSUME Sized, NEW k \in Key, NEW b \in Place
  PROVE  /\ Next1(b) \in Place
         /\ Distance(k, b) = size - 1 => Distance(k, Next1(b)) = 0
         /\ Distance(k, b) # size - 1 => Distance(k, Next1(b)) = Distance(k, b) + 1
  <1>1. PICK o \in Place : o = Base(k)
    BY DistanceBase
  <1>2. PICK c \in Place : c = Next1(b)
    <2>1. b + 1 \in Nat
      BY DEF Place, Sized
    <2> QED BY <2>1, ModOfNat DEF Next1, Place, Sized
  <1>3. /\ Distance(k, b) = (b + size - o) % size
        /\ Distance(k, Next1(b)) = (c + size - o) % size
    BY <1>1, <1>2 DEF Distance
  <1>4. /\ b >= o => (b + size - o) % size = b - o
        /\ b < o => (b + size - o) % size = b + size - o
        /\ c >= o => (c + size - o) % size = c - o
        /\ c < o => (c + size - o) % size = c + size - o
        /\ b < size - 1 => (b + 1) % size = b + 1
        /\ b = size - 1 => (b + 1) % size = 0
    BY CyclicDistance DEF Sized, Place
  <1>5. /\ b < size - 1 => c = b + 1
        /\ b = size - 1 => c = 0
    BY <1>2, <1>4 DEF Next1
  <1> QED BY <1>2, <1>3, <1>4, <1>5 DEF Place, Sized

(* Entries of the table *)

LEMMA MadeEntry ==
  ASSUME NEW k \in Key, NEW v \in Value
  PROVE  [used |-> TRUE, key |-> k, val |-> v, psl |-> 0] \in Entry
  BY DEF Entry

LEMMA MovedEntry ==
  ASSUME NEW e \in Entry, NEW d \in Nat
  PROVE  /\ [e EXCEPT !.psl = d] \in Entry
         /\ [e EXCEPT !.psl = d].key = e.key
         /\ [e EXCEPT !.psl = d].val = e.val
         /\ [e EXCEPT !.psl = d].psl = d
  <1>1. [e EXCEPT !.psl = d] \in Entry
    BY Zenon DEF Entry
  <1> QED BY <1>1 DEF Entry

-----------------------------------------------------------------------------
(* The inductive invariant *)

(* The table and its count; what belongs to each of the loops. *)
Table ==
  /\ hash \in [Key -> HashValue]
  /\ size \in 1 .. MaxSize
  /\ buckets \in Buckets(size)
  /\ IsFiniteSet(Used) /\ nitems = Cardinality(Used)
  /\ i \in Place /\ n \in 0 .. size /\ key \in Key /\ oi \in Nat
  /\ placed \in BOOLEAN

(* An old table is smaller; as many entries have left it at most as buckets *)
(* have been passed.                                                        *)
OldTable ==
  \/ old = NoOld /\ oi = 0
  \/ \E m \in 1 .. size - 1 : old \in Buckets(m) /\ oi <= m /\ nitems <= oi

Phases ==
  /\ pc \in {"idle", "get", "insert", "resize"}
  /\ pc \in {"idle", "get"} => old = NoOld /\ request = NoValue
  /\ pc = "resize" => old # NoOld
  /\ pc # "insert" => entry = Empty /\ placed = FALSE
  /\ pc \in {"insert", "resize"} => request \in Key \X Value
  /\ pc = "insert" =>
       /\ entry \in Entry
       /\ nitems < size
       /\ IF Resizing THEN placed ELSE old = NoOld /\ key = request[1]
       /\ ~placed => entry.key = key /\ entry.val = request[2]

(* The way from the base of a key to its m-th bucket is used, by entries at *)
(* least as far from their own bases.                                       *)
Way(k, m) ==
  \A c \in Place : Distance(k, c) < m =>
    buckets[c].used /\ buckets[c].psl >= Distance(k, c)

Ways ==
  /\ \A b \in Used : Way(buckets[b].key, buckets[b].psl)
  /\ pc = "insert" => Way(entry.key, entry.psl)

(* What a search has passed is used and does not hold the key; an insertion *)
(* has passed used buckets, and the key itself once it is stored.           *)
Passed(m) ==
  \A c \in Place : Distance(key, c) < m => buckets[c].used

Missed(m) ==
  \A c \in Place : Distance(key, c) < m => ~Holds(buckets[c], key)

Stored ==
  \E b \in Used : /\ buckets[b].key = key
                  /\ Distance(key, b) < Distance(key, i)
                  /\ ~Resizing => buckets[b].val = request[2]

Searches ==
  /\ pc = "get" => Missed(n) /\ (n < size => Distance(key, i) = n)
  /\ pc = "insert" => Passed(Distance(key, i))
  /\ pc = "insert" /\ ~placed => Missed(Distance(key, i))
  /\ InFlight => Stored \/ (Resizing /\ entry.key = key)

(* No two places hold the same key. *)
Distinct ==
  /\ \A b, c \in Used : buckets[b].key = buckets[c].key => b = c
  /\ \A b, c \in StillOld : old[b].key = old[c].key => b = c
  /\ \A b \in Used, c \in StillOld : buckets[b].key # old[c].key
  /\ InFlight => /\ \A b \in Used : buckets[b].key # entry.key
                 /\ \A c \in StillOld : old[c].key # entry.key

TableInv == Table /\ OldTable /\ Phases /\ PslValid /\ Ways /\ Searches /\ Distinct

-----------------------------------------------------------------------------
(* Consequences of the invariant *)

LEMMA TableShape ==
  ASSUME Table
  PROVE  /\ Sized
         /\ DOMAIN buckets = Place
         /\ Used \subseteq Place
         /\ \A b \in Place : buckets[b] \in Entry \cup {Empty}
         /\ \A b \in Place : b \in Used <=> buckets[b].used
         /\ \A b \in Used : /\ buckets[b] \in Entry
                            /\ buckets[b].key \in Key /\ buckets[b].val \in Value
                            /\ buckets[b].psl \in Nat
  <1>1. Sized
    <2>1. hash \in [Key -> HashValue] /\ HashValue \subseteq Nat
      BY TableAssumption DEF Table
    <2>2. hash \in [Key -> Nat]
      BY <2>1
    <2>3. size \in Nat \ {0}
      BY TableAssumption DEF Table
    <2> QED BY <2>2, <2>3 DEF Sized
  <1>2. /\ DOMAIN buckets = Place
        /\ \A b \in Place : buckets[b] \in Entry \cup {Empty}
    BY DEF Table, Buckets, Place
  <1>3. \A b \in Used : b \in Place /\ buckets[b] \in Entry
    BY <1>2 DEF Used, Empty
  <1>4. \A b \in Place : b \in Used <=> buckets[b].used
    BY <1>2 DEF Used
  <1> QED BY <1>1, <1>2, <1>3, <1>4 DEF Entry

(* Between resizes there is no old table to move from. *)
LEMMA NoOldTable ==
  ASSUME TableInv, old = NoOld
  PROVE  oi = 0 /\ StillOld = {} /\ ~Resizing
  <1>1. \A m \in 1 .. size - 1 : NoOld \notin Buckets(m)
    <2> SUFFICES ASSUME NEW m \in 1 .. size - 1, NoOld \in Buckets(m)
                 PROVE  FALSE
      OBVIOUS
    <2>1. DOMAIN NoOld = {} /\ DOMAIN NoOld = 0 .. m - 1
      BY DEF Buckets, NoOld
    <2>2. 0 \in 0 .. m - 1
      BY TableShape DEF TableInv, Sized
    <2> QED BY <2>1, <2>2
  <1>2. oi = 0
    BY <1>1 DEF TableInv, OldTable
  <1> QED BY <1>2 DEF StillOld, Resizing, NoOld

(* During one it is smaller than the new table. *)
LEMMA OldTableShape ==
  ASSUME TableInv, old # NoOld
  PROVE  /\ \E m \in 1 .. size - 1 :
               old \in Buckets(m) /\ DOMAIN old = 0 .. m - 1 /\ oi \in 0 .. m /\ nitems <= oi
         /\ nitems \in Nat /\ nitems < size /\ size \in Nat /\ oi \in Nat
         /\ StillOld \subseteq DOMAIN old /\ \A b \in DOMAIN old : b \in Nat
         /\ ~Resizing => StillOld = {}
         /\ \A b \in DOMAIN old : old[b].used =>
              old[b] \in Entry /\ old[b].key \in Key /\ old[b].val \in Value
  <1>1. PICK m \in 1 .. size - 1 : old \in Buckets(m) /\ oi <= m /\ nitems <= oi
    BY DEF TableInv, OldTable
  <1>2. size \in Nat /\ oi \in Nat /\ nitems \in Nat
    BY TableShape, FS_CardinalityType DEF TableInv, Table, Sized
  <1>3. DOMAIN old = 0 .. m - 1 /\ \A b \in DOMAIN old : old[b] \in Entry \cup {Empty}
    BY <1>1 DEF Buckets
  <1>4. \A b \in DOMAIN old : old[b].used => old[b] \in Entry
    BY <1>3 DEF Empty
  <1>5. nitems < size /\ oi \in 0 .. m
    BY <1>1, <1>2
  <1>6. StillOld \subseteq DOMAIN old /\ \A b \in DOMAIN old : b \in Nat
    BY <1>3 DEF StillOld
  <1>7. \A b \in DOMAIN old : old[b].used =>
          old[b] \in Entry /\ old[b].key \in Key /\ old[b].val \in Value
    BY <1>4 DEF Entry
  <1>8. ~Resizing => StillOld = {}
    <2> SUFFICES ASSUME ~Resizing, NEW b \in StillOld PROVE FALSE
      OBVIOUS
    <2>1. b \in 0 .. m - 1 /\ b >= oi /\ oi \notin 0 .. m - 1 /\ oi <= m /\ m \in Nat
      BY <1>1, <1>3 DEF StillOld, Resizing
    <2> QED BY <1>2, <2>1
  <1> QED BY <1>1, <1>2, <1>3, <1>5, <1>6, <1>7, <1>8

(* A table with room has an empty bucket. *)
LEMMA RoomIsEmptyBucket ==
  ASSUME Table, nitems < size
  PROVE  \E c \in Place : ~buckets[c].used
  <1> SUFFICES ASSUME \A c \in Place : buckets[c].used
               PROVE  FALSE
    OBVIOUS
  <1>1. Used = 0 .. size - 1
    BY TableShape DEF Place
  <1>2. Cardinality(0 .. size - 1) = size
    BY TableShape, FS_Interval DEF Sized
  <1> QED BY <1>1, <1>2 DEF Table, Sized

(* Neither an insertion nor the entry it carries ever comes back to the     *)
(* bucket it began with.                                                    *)
LEMMA NeverRound ==
  ASSUME TableInv, pc = "insert", buckets[i].used
  PROVE  /\ Distance(key, i) # size - 1
         /\ entry.psl # size - 1
  <1>1. Sized /\ i \in Place /\ key \in Key /\ entry \in Entry /\ entry.key \in Key
    BY TableShape DEF TableInv, Table, Phases, Entry
  <1>2. PICK c \in Place : ~buckets[c].used
    BY RoomIsEmptyBucket DEF TableInv, Phases
  <1>3. /\ Distance(key, c) \in 0 .. size - 1
        /\ Distance(entry.key, c) \in 0 .. size - 1
    BY <1>1, <1>2, DistanceRange
  <1>4. Distance(key, i) # Distance(key, c) /\ Distance(entry.key, i) # Distance(entry.key, c)
    BY <1>1, <1>2, DistanceInjective
  <1>5. ~(Distance(key, c) < Distance(key, i)) /\ ~(Distance(entry.key, c) < entry.psl)
    BY <1>2 DEF TableInv, Searches, Passed, Ways, Way
  <1>6. entry.psl = Distance(entry.key, i)
    BY DEF TableInv, PslValid
  <1> QED BY <1>1, <1>3, <1>4, <1>5, <1>6 DEF Sized

(* Where an insertion of a new key stops, the key is nowhere in the table. *)
LEMMA KeyAbsent ==
  ASSUME TableInv, pc = "insert", ~placed, ~Holds(buckets[i], key),
         buckets[i].used => Richer(buckets[i])
  PROVE  \A b \in Used : buckets[b].key # key
  <1> SUFFICES ASSUME NEW b \in Used, buckets[b].key = key
               PROVE  FALSE
    OBVIOUS
  <1>1. /\ Sized /\ i \in Place /\ key \in Key /\ b \in Place /\ buckets[b].used
        /\ entry \in Entry /\ entry.key = key /\ entry.psl \in Nat
    BY TableShape DEF TableInv, Table, Phases, Entry
  <1>2. entry.psl = Distance(key, i) /\ buckets[b].psl = Distance(key, b)
    BY <1>1 DEF TableInv, PslValid
  <1>3. Distance(key, i) \in 0 .. size - 1 /\ Distance(key, b) \in 0 .. size - 1
    BY <1>1, DistanceRange
  <1>4. CASE Distance(key, b) < Distance(key, i)
    BY <1>1, <1>4 DEF TableInv, Searches, Missed, Holds
  <1>5. CASE Distance(key, b) = Distance(key, i)
    <2>1. b = i
      BY <1>1, <1>5, DistanceInjective
    <2> QED BY <1>1, <2>1 DEF Holds
  <1>6. CASE Distance(key, i) < Distance(key, b)
    <2>1. Way(buckets[b].key, buckets[b].psl)
      BY DEF TableInv, Ways
    <2>2. buckets[i].used /\ buckets[i].psl >= Distance(key, i)
      BY <1>1, <1>2, <1>6, <2>1 DEF Way
    <2>3. i \in Used /\ buckets[i].psl \in Nat
      BY <1>1, <2>2, TableShape DEF TableInv
    <2> QED BY <1>2, <1>3, <2>2, <2>3 DEF Richer
  <1> QED BY <1>3, <1>4, <1>5, <1>6

(* Once its own entry has a place, an insertion does not meet the key it    *)
(* compares with.                                                           *)
LEMMA NoSecondMeeting ==
  ASSUME TableInv, pc = "insert", Holds(buckets[i], key)
  PROVE  ~placed /\ ~Resizing
  <1>1. i \in Used /\ key \in Key /\ Sized /\ i \in Place
    BY TableShape DEF TableInv, Table, Holds
  <1>2. ~placed
    <2> SUFFICES ASSUME placed PROVE FALSE
      OBVIOUS
    <2>1. CASE Stored
      <3>1. PICK b \in Used : /\ buckets[b].key = key
                              /\ Distance(key, b) < Distance(key, i)
        BY <2>1 DEF Stored
      <3>2. b = i
        BY <1>1, <3>1 DEF TableInv, Distinct, Holds
      <3>3. Distance(key, i) \in 0 .. size - 1
        BY <1>1, DistanceRange
      <3> QED BY <3>1, <3>2, <3>3 DEF Sized
    <2>2. CASE entry.key = key
      BY <1>1, <2>2 DEF TableInv, Distinct, InFlight, Holds
    <2> QED BY <2>1, <2>2 DEF TableInv, Searches, InFlight
  <1> QED BY <1>2 DEF TableInv, Phases

-----------------------------------------------------------------------------
(* Every step keeps the invariant *)

LEMMA InitInv == Init => TableInv
  <1> SUFFICES ASSUME Init PROVE TableInv
    OBVIOUS
  <1> USE DEF Init
  <1>1. Used = {} /\ StillOld = {}
    BY DEF Used, StillOld, NoOld, Empty
  <1>2. Table
    <2>1. buckets \in Buckets(size) /\ i \in Place
      BY DEF Buckets, Place
    <2>2. IsFiniteSet(Used) /\ nitems = Cardinality(Used)
      BY <1>1, FS_EmptySet
    <2>3. size \in 1 .. MaxSize
      BY TableAssumption
    <2>4. placed \in BOOLEAN /\ hash \in [Key -> HashValue]
      OBVIOUS
    <2>5. n \in 0 .. size /\ key \in Key /\ oi \in Nat
      OBVIOUS
    <2> HIDE DEF Init
    <2> QED BY <2>1, <2>2, <2>3, <2>4, <2>5 DEF Table
  <1>3. OldTable /\ Phases /\ PslValid /\ Ways /\ Searches /\ Distinct
    BY <1>1 DEF OldTable, Phases, PslValid, Ways, Searches, Distinct, InFlight
  <1> QED BY <1>2, <1>3 DEF TableInv

(* A lookup changes nothing but its own variables. *)
Looking ==
  /\ UNCHANGED <<hash, tablevars, entry, placed, oldvars, request>>
  /\ pc \in {"idle", "get"} /\ pc' \in {"idle", "get"}
  /\ i' \in Place /\ n' \in 0 .. size /\ key' \in Key
  /\ pc' = "get" => Missed(n)' /\ (n < size => Distance(key, i) = n)'

LEMMA LookingInv ==
  ASSUME TableInv, Looking
  PROVE  TableInv'
  <1> USE DEF Looking, tablevars, oldvars
  <1>1. Table'
    BY DEF TableInv, Table, Place, Buckets, Used
  <1>2. OldTable'
    BY DEF TableInv, OldTable, Buckets
  <1>3. Phases'
    BY DEF TableInv, Phases
  <1>4. PslValid' /\ Ways'
    BY DEF TableInv, PslValid, Ways, Way, Used, Place, Distance, Base
  <1>5. Searches'
    BY DEF Searches, InFlight
  <1>6. StillOld' = {} /\ StillOld = {}
    BY DEF TableInv, Phases, StillOld, NoOld
  <1>7. Distinct'
    BY <1>6 DEF TableInv, Distinct, InFlight, Used
  <1> QED BY <1>1, <1>2, <1>3, <1>4, <1>5, <1>7 DEF TableInv

LEMMA LookupInv ==
  ASSUME TableInv, (\E k \in Key : Get(k)) \/ GetHit \/ GetMiss \/ GetNext
  PROVE  TableInv'
  <1>1. Sized /\ i \in Place /\ key \in Key /\ n \in 0 .. size
    BY TableShape DEF TableInv, Table
  <1>2. ASSUME NEW k \in Key, Get(k)
        PROVE  Looking
    <2>1. Base(k) \in Place /\ Distance(k, Base(k)) = 0
      BY <1>1, DistanceBase
    <2>2. \A c \in Place : ~(Distance(k, c) < 0)
      BY <1>1, DistanceRange DEF Sized
    <2>3. Missed(n)' /\ (n < size => Distance(key, i) = n)'
      BY <1>2, <2>1, <2>2 DEF Get, Missed, Place, Distance, Base, tablevars
    <2> QED BY <1>1, <1>2, <2>1, <2>3 DEF Get, Looking, Sized
  <1>3. ASSUME GetHit \/ GetMiss
        PROVE  Looking
    <2>1. 0 \in Place
      BY <1>1 DEF Place, Sized
    <2> QED BY <1>1, <1>3, <2>1 DEF GetHit, GetMiss, Looking, Sized
  <1>4. ASSUME GetNext
        PROVE  Looking
    <2>1. i \in Used /\ n <= buckets[i].psl /\ buckets[i].psl = Distance(buckets[i].key, i)
      BY <1>1, <1>4, TableShape DEF TableInv, GetNext, Stops, PslValid, Table
    <2>2. /\ Distance(buckets[i].key, i) \in 0 .. size - 1
          /\ Distance(key, i) \in 0 .. size - 1
      BY <1>1, <2>1, TableShape, DistanceRange DEF TableInv
    <2>3. n < size /\ n + 1 \in 0 .. size /\ Distance(key, i) = n
      BY <1>1, <1>4, <2>1, <2>2 DEF TableInv, Searches, GetNext, Sized
    <2>4. Next1(i) \in Place /\ (n + 1 < size => Distance(key, Next1(i)) = n + 1)
      BY <1>1, <2>3, DistanceNext DEF Sized
    <2>5. ASSUME NEW c \in Place, Distance(key, c) < n + 1
          PROVE  ~Holds(buckets[c], key)
      <3>1. Distance(key, c) \in 0 .. size - 1
        BY <1>1, DistanceRange
      <3>2. CASE Distance(key, c) < n
        BY <1>4, <3>2 DEF TableInv, Searches, Missed, GetNext
      <3>3. CASE Distance(key, c) = n
        <4>1. c = i
          BY <1>1, <2>3, <3>3, DistanceInjective
        <4> QED BY <1>4, <4>1 DEF GetNext
      <3> QED BY <1>1, <2>5, <3>1, <3>2, <3>3
    <2>6. Missed(n)' /\ (n < size => Distance(key, i) = n)'
      BY <1>4, <2>4, <2>5 DEF GetNext, Missed, Place, Distance, Base, tablevars
    <2> QED BY <1>1, <1>4, <2>3, <2>4, <2>6 DEF GetNext, Looking
  <1> QED BY <1>2, <1>3, <1>4, LookingInv

(* The entry on its way is in no other place when it takes one. *)
LEMMA FlightIsNew ==
  ASSUME TableInv, pc = "insert", ~Holds(buckets[i], key),
         buckets[i].used => Richer(buckets[i])
  PROVE  /\ \A b \in Used : buckets[b].key # entry.key
         /\ \A c \in StillOld : old[c].key # entry.key
  <1>1. CASE placed
    BY <1>1 DEF TableInv, Distinct, InFlight
  <1>2. CASE ~placed
    <2>1. entry.key = key /\ ~Resizing /\ old = NoOld
      BY <1>2 DEF TableInv, Phases
    <2>2. StillOld = {}
      BY <2>1 DEF StillOld, NoOld
    <2> QED BY <1>2, <2>1, <2>2, KeyAbsent
  <1> QED BY <1>1, <1>2

LEMMA Walking ==
  ASSUME TableInv, pc = "insert", buckets[i].used
  PROVE  /\ Sized /\ i \in Place /\ i \in Used /\ Next1(i) \in Place
         /\ entry \in Entry /\ entry.key \in Key /\ entry.psl \in Nat
         /\ buckets[i] \in Entry /\ buckets[i].key \in Key /\ buckets[i].psl \in Nat
         /\ key \in Key /\ size \in Nat
         /\ entry.psl = Distance(entry.key, i) /\ entry.psl < size - 1
         /\ buckets[i].psl = Distance(buckets[i].key, i) /\ buckets[i].psl < size
         /\ Distance(key, i) \in 0 .. size - 2
         /\ Distance(entry.key, Next1(i)) = entry.psl + 1
         /\ Distance(key, Next1(i)) = Distance(key, i) + 1
  <1>1. /\ Sized /\ i \in Place /\ i \in Used
        /\ entry \in Entry /\ entry.key \in Key /\ entry.psl \in Nat
        /\ buckets[i] \in Entry /\ buckets[i].key \in Key /\ buckets[i].psl \in Nat
        /\ key \in Key /\ size \in Nat
    BY TableShape DEF TableInv, Table, Phases, Entry, Sized
  <1>2. /\ entry.psl = Distance(entry.key, i)
        /\ buckets[i].psl = Distance(buckets[i].key, i)
    BY <1>1 DEF TableInv, PslValid
  <1>3. /\ Distance(entry.key, i) \in 0 .. size - 1
        /\ Distance(buckets[i].key, i) \in 0 .. size - 1
        /\ Distance(key, i) \in 0 .. size - 1
    BY <1>1, DistanceRange
  <1>4. Distance(key, i) # size - 1 /\ entry.psl # size - 1
    BY NeverRound
  <1>5. /\ Next1(i) \in Place
        /\ Distance(entry.key, Next1(i)) = entry.psl + 1
        /\ Distance(key, Next1(i)) = Distance(key, i) + 1
    BY <1>1, <1>2, <1>4, DistanceNext
  <1> QED BY <1>1, <1>2, <1>3, <1>4, <1>5

(* One bucket more has been passed. *)
LEMMA PassOne ==
  ASSUME TableInv, pc = "insert", buckets[i].used, ~Holds(buckets[i], key),
         NEW c \in Place, Distance(key, c) < Distance(key, Next1(i))
  PROVE  /\ buckets[c].used
         /\ ~placed => ~Holds(buckets[c], key)
  <1>1. Distance(key, c) \in 0 .. size - 1
    BY Walking, DistanceRange
  <1>2. CASE Distance(key, c) = Distance(key, i)
    <2>1. c = i
      BY <1>2, Walking, DistanceInjective
    <2> QED BY <2>1
  <1>3. CASE Distance(key, c) < Distance(key, i)
    BY <1>3 DEF TableInv, Searches, Passed, Missed
  <1> QED BY <1>1, <1>2, <1>3, Walking

LEMMA InsertNextInv ==
  ASSUME TableInv, InsertNext
  PROVE  TableInv'
  <1> USE DEF InsertNext, tablevars, oldvars
  <1>1. Used' = Used /\ StillOld' = StillOld /\ Place' = Place
    BY DEF Used, StillOld, Place
  <1>2. /\ \A k \in Key, b \in Place : Distance(k, b)' = Distance(k, b)
        /\ \A m : Passed(m)' = Passed(m) /\ Missed(m)' = Missed(m)
        /\ \A k, m : Way(k, m)' = Way(k, m)
    BY DEF Distance, Base, Passed, Missed, Way, Place
  <1>3. /\ entry' \in Entry /\ entry'.key = entry.key /\ entry'.val = entry.val
        /\ entry'.psl = entry.psl + 1
    <2>1. entry \in Entry /\ entry.psl + 1 \in Nat
      BY Walking
    <2> QED BY <2>1, MovedEntry
  <1>4. Table'
    BY <1>1, Walking DEF TableInv, Table
  <1>5. OldTable' /\ Phases'
    BY <1>3 DEF TableInv, OldTable, Phases, Resizing, Buckets
  <1>6. PslValid'
    <2>1. \A b \in Used : buckets[b].psl = Distance(buckets[b].key, b)'
      BY DEF TableInv, PslValid, Distance, Base
    <2>2. entry'.psl = Distance(entry.key, i)'
      BY <1>3, Walking DEF Distance, Base
    <2> QED BY <1>1, <2>1, <2>2 DEF PslValid
  <1>7. Ways'
    <2>1. ASSUME NEW c \in Place, Distance(entry.key, c) < entry.psl + 1
          PROVE  buckets[c].used /\ buckets[c].psl >= Distance(entry.key, c)
      <3>1. Distance(entry.key, c) \in 0 .. size - 1
        BY Walking, DistanceRange
      <3>2. CASE Distance(entry.key, c) = entry.psl
        <4>1. c = i
          BY <3>2, Walking, DistanceInjective
        <4>2. ~(entry.psl > buckets[i].psl)
          BY DEF Richer
        <4> QED BY <3>2, <4>1, <4>2, Walking
      <3>3. CASE Distance(entry.key, c) < entry.psl
        BY <3>3 DEF TableInv, Ways, Way
      <3> QED BY <2>1, <3>1, <3>2, <3>3, Walking
    <2>2. Way(entry'.key, entry'.psl)
      BY <1>3, <2>1 DEF Way
    <2> QED BY <1>1, <1>2, <2>2 DEF TableInv, Ways
  <1>8. Searches'
    <2>1. Passed(Distance(key, Next1(i))) /\ (~placed => Missed(Distance(key, Next1(i))))
      BY PassOne DEF Passed, Missed
    <2>2. Distance(key, i)' = Distance(key, Next1(i))
      BY Walking DEF Distance, Base
    <2>3. ASSUME InFlight
          PROVE  Stored' \/ (Resizing' /\ entry'.key = key')
      <3>1. CASE Stored
        <4>1. PICK b \in Used : /\ buckets[b].key = key
                                /\ Distance(key, b) < Distance(key, i)
                                /\ ~Resizing => buckets[b].val = request[2]
          BY <3>1 DEF Stored
        <4>2. Distance(key, b)' = Distance(key, b) /\ Distance(key, b) \in 0 .. size - 1
          BY <4>1, Walking, TableShape, DistanceRange DEF TableInv, Distance, Base
        <4>3. Distance(key, b) < Distance(key, Next1(i))
          BY <4>1, <4>2, Walking
        <4>4. Distance(key, b)' < Distance(key, i)'
          BY <2>2, <4>2, <4>3
        <4> QED BY <1>1, <4>1, <4>4 DEF Stored, Resizing
      <3> QED BY <1>3, <2>3, <3>1 DEF TableInv, Searches, Resizing
    <2> QED BY <1>2, <2>1, <2>2, <2>3 DEF Searches, InFlight
  <1>9. Distinct'
    BY <1>1, <1>3 DEF TableInv, Distinct, InFlight
  <1> QED BY <1>4, <1>5, <1>6, <1>7, <1>8, <1>9 DEF TableInv

(* A bucket that takes the entry on its way; the ways of all others remain. *)
Placing ==
  /\ pc = "insert"
  /\ ~Holds(buckets[i], key) /\ (buckets[i].used => Richer(buckets[i]))
  /\ buckets' = [buckets EXCEPT ![i] = entry]
  /\ UNCHANGED <<hash, size, key>>

LEMMA PlacingTable ==
  ASSUME TableInv, Placing
  PROVE  /\ Place' = Place /\ i \in Place /\ Sized
         /\ entry \in Entry /\ entry.used /\ entry.key \in Key /\ entry.psl \in Nat
         /\ entry.psl = Distance(entry.key, i)
         /\ Used' = Used \cup {i}
         /\ buckets'[i] = entry
         /\ \A b \in Used \ {i} : buckets'[b] = buckets[b] /\ b \in Place
         /\ buckets' \in Buckets(size)
         /\ \A k \in Key, b \in Place : Distance(k, b)' = Distance(k, b)
  <1>1. /\ Sized /\ i \in Place /\ DOMAIN buckets = Place /\ Place' = Place
        /\ buckets \in Buckets(size)
    BY TableShape DEF TableInv, Table, Place, Placing
  <1>2. /\ entry \in Entry /\ entry.used /\ entry.key \in Key /\ entry.psl \in Nat
        /\ entry.psl = Distance(entry.key, i)
    BY DEF TableInv, Phases, PslValid, Placing, Entry
  <1>3. /\ buckets' \in Buckets(size)
        /\ buckets'[i] = entry /\ DOMAIN buckets' = Place
        /\ \A b \in Place \ {i} : buckets'[b] = buckets[b]
    BY <1>1, <1>2 DEF Buckets, Placing, Place
  <1>4. Used' = Used \cup {i}
    BY <1>1, <1>2, <1>3 DEF Used
  <1>5. \A k \in Key, b \in Place : Distance(k, b)' = Distance(k, b)
    BY DEF Distance, Base, Placing
  <1>6. Used \subseteq Place
    BY TableShape DEF TableInv
  <1> QED BY <1>1, <1>2, <1>3, <1>4, <1>5, <1>6

LEMMA PlacingWays ==
  ASSUME TableInv, Placing
  PROVE  /\ \A k \in Key, m \in Nat : Way(k, m) => Way(k, m)'
         /\ (\A b \in Used : Way(buckets[b].key, buckets[b].psl))'
         /\ (\A b \in Used : buckets[b].psl = Distance(buckets[b].key, b))'
         /\ \A b, c \in Used' : buckets'[b].key = buckets'[c].key => b = c
         /\ \A c \in StillOld : \A b \in Used' : buckets'[b].key # old[c].key
  <1>1. /\ Place' = Place /\ i \in Place /\ Sized
        /\ entry \in Entry /\ entry.used /\ entry.key \in Key /\ entry.psl \in Nat
        /\ entry.psl = Distance(entry.key, i)
        /\ Used' = Used \cup {i}
        /\ buckets'[i] = entry
        /\ \A b \in Used \ {i} : buckets'[b] = buckets[b] /\ b \in Place
        /\ \A k \in Key, b \in Place : Distance(k, b)' = Distance(k, b)
    BY PlacingTable
  <1>2. /\ \A b \in Used : /\ b \in Place /\ buckets[b] \in Entry
                           /\ buckets[b].key \in Key /\ buckets[b].psl \in Nat
        /\ \A b \in Place : b \in Used <=> buckets[b].used
    BY TableShape DEF TableInv
  <1>3. ASSUME NEW k \in Key, NEW m \in Nat, Way(k, m)
        PROVE  Way(k, m)'
    <2> SUFFICES ASSUME NEW c \in Place, Distance(k, c) < m
                 PROVE  buckets'[c].used /\ buckets'[c].psl >= Distance(k, c)
      BY <1>1 DEF Way
    <2>1. c \in Used /\ buckets[c].psl >= Distance(k, c) /\ Distance(k, c) \in 0 .. size - 1
      BY <1>1, <1>2, <1>3, DistanceRange DEF Way
    <2>2. CASE c = i
      <3>1. entry.psl > buckets[i].psl
        BY <1>2, <2>1, <2>2 DEF Placing, Richer
      <3> QED BY <1>1, <1>2, <2>1, <2>2, <3>1
    <2>3. CASE c # i
      BY <1>1, <1>2, <2>1, <2>3
    <2> QED BY <2>2, <2>3
  <1>4. ASSUME NEW b \in Used'
        PROVE  /\ Way(buckets[b].key, buckets[b].psl)'
               /\ (buckets[b].psl = Distance(buckets[b].key, b))'
    <2>1. CASE b = i
      <3>1. Way(entry.key, entry.psl)
        BY DEF TableInv, Ways, Placing
      <3>2. PICK k \in Key, m \in Nat : k = entry.key /\ m = entry.psl
        BY <1>1
      <3>3. Way(k, m)' /\ m = Distance(k, b)'
        BY <1>1, <1>3, <2>1, <3>1, <3>2
      <3>4. k = buckets'[b].key /\ m = buckets'[b].psl
        BY <1>1, <2>1, <3>2
      <3> QED BY <2>1, <3>3, <3>4
    <2>2. CASE b # i
      <3>1. /\ b \in Used /\ buckets'[b] = buckets[b] /\ b \in Place
            /\ Way(buckets[b].key, buckets[b].psl)
            /\ buckets[b].psl = Distance(buckets[b].key, b)
        BY <1>1, <2>2 DEF TableInv, Ways, PslValid
      <3>2. PICK k \in Key, m \in Nat : k = buckets[b].key /\ m = buckets[b].psl
        BY <1>2, <3>1
      <3>3. Way(k, m)' /\ m = Distance(k, b)'
        BY <1>1, <1>3, <3>1, <3>2
      <3> QED BY <3>1, <3>2, <3>3
    <2> QED BY <2>1, <2>2
  <1>5. /\ \A b \in Used : buckets[b].key # entry.key
        /\ \A c \in StillOld : old[c].key # entry.key
    BY FlightIsNew DEF Placing
  <1>6. /\ \A b, c \in Used' : buckets'[b].key = buckets'[c].key => b = c
        /\ \A c \in StillOld : \A b \in Used' : buckets'[b].key # old[c].key
    BY <1>1, <1>5 DEF TableInv, Distinct
  <1> QED BY <1>3, <1>4, <1>6

LEMMA InsertSwapInv ==
  ASSUME TableInv, InsertSwap
  PROVE  TableInv'
  <1> DEFINE b0 == buckets[i]
  <1>1. Placing /\ pc = "insert" /\ b0.used /\ ~Holds(b0, key)
    BY DEF InsertSwap, Placing
  <1>2. /\ Sized /\ i \in Place /\ i \in Used /\ Next1(i) \in Place
        /\ entry \in Entry /\ entry.key \in Key /\ entry.psl \in Nat
        /\ b0 \in Entry /\ b0.key \in Key /\ b0.psl \in Nat
        /\ key \in Key /\ size \in Nat
        /\ entry.psl > b0.psl /\ entry.psl < size - 1
        /\ b0.psl = Distance(b0.key, i)
        /\ Distance(key, i) \in 0 .. size - 2
        /\ Distance(key, Next1(i)) = Distance(key, i) + 1
    BY <1>1, Walking DEF InsertSwap, Richer
  <1>3. /\ Place' = Place /\ Used' = Used /\ buckets'[i] = entry
        /\ \A b \in Used \ {i} : buckets'[b] = buckets[b] /\ b \in Place
        /\ buckets' \in Buckets(size)
        /\ \A k \in Key, b \in Place : Distance(k, b)' = Distance(k, b)
    BY <1>1, <1>2, PlacingTable
  <1>4. entry' \in Entry /\ entry'.key = b0.key /\ entry'.psl = b0.psl + 1
    <2>1. entry' = [b0 EXCEPT !.psl = b0.psl + 1] /\ b0.psl + 1 \in Nat
      BY <1>2 DEF InsertSwap
    <2> HIDE DEF b0
    <2> QED BY <1>2, <2>1, MovedEntry
  <1>5. StillOld' = StillOld /\ Resizing' = Resizing
    BY DEF InsertSwap, StillOld, Resizing, oldvars
  <1>6. Table'
    <2>1. placed' \in BOOLEAN
      BY DEF InsertSwap
    <2>2. buckets' \in Buckets(size)' /\ i' \in Place'
      BY <1>2, <1>3 DEF InsertSwap, Buckets
    <2>3. IsFiniteSet(Used') /\ nitems' = Cardinality(Used')
      BY <1>3 DEF InsertSwap, TableInv, Table
    <2> QED BY <2>1, <2>2, <2>3 DEF InsertSwap, TableInv, Table, oldvars
  <1>7. OldTable'
    BY DEF InsertSwap, TableInv, OldTable, oldvars
  <1>8. Phases'
    BY <1>4, <1>5 DEF InsertSwap, TableInv, Phases, oldvars
  <1>9. PslValid'
    <2>1. (entry.psl = Distance(entry.key, i))'
      <3>1. b0.psl # size - 1
        BY <1>2
      <3>2. Distance(b0.key, Next1(i)) = b0.psl + 1
        BY <1>2, <3>1, DistanceNext
      <3>3. PICK k \in Key, b \in Place : k = b0.key /\ b = Next1(i)
        BY <1>2
      <3>4. Distance(k, b)' = b0.psl + 1
        BY <1>3, <3>2, <3>3
      <3>5. i' = b /\ entry'.key = k
        BY <1>4, <3>3 DEF InsertSwap
      <3> QED BY <1>4, <3>4, <3>5
    <2> QED BY <1>1, <2>1, PlacingWays DEF PslValid
  <1>10. Ways'
    <2>1. ASSUME NEW c \in Place, Distance(b0.key, c) < b0.psl + 1
          PROVE  buckets'[c].used /\ buckets'[c].psl >= Distance(b0.key, c)
      <3>1. Distance(b0.key, c) \in 0 .. size - 1
        BY <1>2, DistanceRange
      <3>2. CASE Distance(b0.key, c) = b0.psl
        <4>1. c = i
          BY <1>2, <3>2, DistanceInjective
        <4> QED BY <1>1, <1>2, <1>3, <3>2, <4>1, PlacingTable
      <3>3. CASE Distance(b0.key, c) < b0.psl
        <4>1. c \in Used /\ buckets[c].psl >= Distance(b0.key, c) /\ buckets[c].psl \in Nat
          BY <1>2, <3>3, TableShape DEF TableInv, Ways, Way
        <4>2. CASE c = i
          BY <1>1, <1>2, <1>3, <3>1, <4>1, <4>2, PlacingTable
        <4>3. CASE c # i
          BY <1>3, <4>1, <4>3 DEF Used
        <4> QED BY <4>2, <4>3
      <3> QED BY <1>2, <2>1, <3>1, <3>2, <3>3
    <2>2. PICK k \in Key, m \in Nat : k = b0.key /\ m = b0.psl + 1
      BY <1>2
    <2>3. Way(k, m)'
      BY <1>3, <2>1, <2>2 DEF Way
    <2>4. Way(entry.key, entry.psl)'
      BY <1>4, <2>2, <2>3
    <2> QED BY <1>1, <2>4, PlacingWays DEF Ways
  <1>11. Searches'
    <2>1. PICK k \in Key, b \in Place : k = key /\ b = Next1(i)
      BY <1>2
    <2>2. Distance(k, b)' = Distance(key, i) + 1 /\ key' = k /\ i' = b
      BY <1>2, <1>3, <2>1 DEF InsertSwap
    <2>3. Passed(Distance(key, i))'
      <3> SUFFICES ASSUME NEW c \in Place, Distance(k, c)' < Distance(k, b)'
                   PROVE  buckets'[c].used
        BY <1>3, <2>2 DEF Passed
      <3>1. buckets[c].used
        BY <1>1, <1>2, <1>3, <2>1, <2>2, PassOne
      <3>2. c \in Used'
        BY <1>2, <1>3, <3>1, TableShape DEF TableInv
      <3> QED BY <3>2 DEF Used
    <2>4. Stored'
      <3>1. CASE Stored
        <4>1. PICK c \in Used : /\ buckets[c].key = key
                                /\ Distance(key, c) < Distance(key, i)
                                /\ ~Resizing => buckets[c].val = request[2]
          BY <3>1 DEF Stored
        <4>2. c # i /\ c \in Place /\ buckets'[c] = buckets[c]
          BY <1>1, <1>2, <1>3, <4>1 DEF Holds
        <4>3. Distance(key, c) \in 0 .. size - 1
          BY <1>2, <4>2, DistanceRange
        <4>4. Distance(k, c)' < Distance(k, b)'
          BY <1>2, <1>3, <2>1, <2>2, <4>1, <4>2, <4>3
        <4> QED BY <1>3, <1>5, <2>1, <2>2, <4>1, <4>2, <4>4 DEF Stored, InsertSwap
      <3>2. CASE ~Stored
        <4>1. entry.key = key /\ (~Resizing => entry.val = request[2])
          BY <1>1, <3>2 DEF TableInv, Searches, InFlight, Phases
        <4>2. PICK c \in Place : c = i
          BY <1>2
        <4>3. Distance(k, c)' < Distance(k, b)'
          BY <1>2, <1>3, <2>1, <2>2, <4>2
        <4>4. c \in Used' /\ buckets'[c].key = k /\ (~Resizing => buckets'[c].val = request[2])
          BY <1>2, <1>3, <2>1, <4>1, <4>2
        <4> QED BY <1>5, <2>2, <4>3, <4>4 DEF Stored, InsertSwap
      <3> QED BY <3>1, <3>2
    <2> QED BY <2>3, <2>4 DEF Searches, InsertSwap
  <1>12. Distinct'
    <2>1. \A b \in Used' : buckets'[b].key # b0.key
      <3>1. \A b \in Used \ {i} : buckets[b].key # b0.key
        BY <1>2 DEF TableInv, Distinct
      <3>2. entry.key # b0.key
        BY <1>1, <1>2, FlightIsNew DEF Placing
      <3> QED BY <1>3, <3>1, <3>2
    <2>2. \A c \in StillOld : old[c].key # b0.key
      BY <1>2 DEF TableInv, Distinct
    <2>3. \A b, c \in StillOld : old[b].key = old[c].key => b = c
      BY DEF TableInv, Distinct
    <2>4. old' = old
      BY DEF InsertSwap, oldvars
    <2> QED BY <1>1, <1>4, <1>5, <2>1, <2>2, <2>3, <2>4, PlacingWays DEF Distinct
  <1> QED BY <1>6, <1>7, <1>8, <1>9, <1>10, <1>11, <1>12 DEF TableInv

(* Back in the loop of the resize or with the caller, nothing is searched. *)
LEMMA InsertDuplicateInv ==
  ASSUME TableInv, InsertDuplicate
  PROVE  TableInv'
  <1> USE DEF InsertDuplicate, EndInsert, tablevars, oldvars
  <1>1. ~placed /\ ~Resizing
    BY NoSecondMeeting
  <1>2. old = NoOld /\ Sized /\ i \in Place
    BY <1>1, TableShape DEF TableInv, Phases, Table
  <1>3. Used' = Used /\ Place' = Place /\ 0 \in Place /\ StillOld' = {}
    BY <1>1, <1>2 DEF Used, Place, Sized, StillOld, NoOld
  <1>4. Table'
    <2>1. placed' \in BOOLEAN /\ i' \in Place'
      BY <1>3
    <2>2. buckets' \in Buckets(size)'
      BY DEF TableInv, Table, Buckets
    <2>3. IsFiniteSet(Used') /\ nitems' = Cardinality(Used')
      BY <1>3 DEF TableInv, Table
    <2> QED BY <1>1, <2>1, <2>2, <2>3 DEF TableInv, Table
  <1>5. OldTable' /\ Phases'
    BY <1>1, <1>2 DEF TableInv, OldTable, Phases
  <1>6. PslValid' /\ Ways' /\ Searches'
    BY <1>1, <1>3
       DEF TableInv, PslValid, Ways, Way, Searches, Distance, Base, InFlight, Place
  <1>7. Distinct'
    BY <1>1, <1>3 DEF TableInv, Distinct, InFlight
  <1> QED BY <1>4, <1>5, <1>6, <1>7 DEF TableInv

(* The next entry of the old table, once one of them is in the new table. *)
LEMMA StillOldPassed ==
  ASSUME TableInv, pc = "insert", Resizing, old' = old, oi' = oi + 1, pc' = "resize"
  PROVE  /\ StillOld' = StillOld /\ old # NoOld
         /\ \E m \in 1 .. size - 1 : old \in Buckets(m) /\ oi + 1 <= m /\ nitems <= oi
  <1>1. old # NoOld
    BY NoOldTable
  <1>2. PICK m \in 1 .. size - 1 :
          old \in Buckets(m) /\ DOMAIN old = 0 .. m - 1 /\ oi \in 0 .. m /\ nitems <= oi
    BY <1>1, OldTableShape
  <1>3. oi \in 0 .. m - 1 /\ size \in Nat
    BY <1>1, <1>2, OldTableShape DEF Resizing
  <1>4. StillOld' = StillOld
    BY <1>2, <1>3 DEF StillOld
  <1>5. oi + 1 <= m
    BY <1>3
  <1> QED BY <1>1, <1>2, <1>4, <1>5

(* The entry in flight ends its way in an empty bucket. *)
LEMMA InsertFreeInv ==
  ASSUME TableInv, InsertFree
  PROVE  TableInv'
  <1>1. Placing
    BY DEF InsertFree, Placing, Holds
  <1>2. /\ Place' = Place /\ i \in Place /\ Sized
        /\ Used' = Used \cup {i} /\ buckets' \in Buckets(size)
        /\ \A b \in Used \ {i} : buckets'[b] = buckets[b] /\ b \in Place
    BY <1>1, PlacingTable
  <1>3. i \notin Used /\ 0 \in Place
    BY <1>2 DEF InsertFree, Used, Sized, Place
  <1>4. i' = 0 /\ entry' = Empty /\ placed' = FALSE
    BY DEF InsertFree, EndInsert
  <1>5. UNCHANGED <<hash, size, n, key, old>> /\ nitems' = nitems + 1 /\ pc = "insert"
    BY DEF InsertFree, EndInsert, oldvars
  <1>6. /\ StillOld' = StillOld
        /\ \/ /\ Resizing /\ pc' = "resize" /\ oi' = oi + 1 /\ request' = request
              /\ old # NoOld
              /\ \E m \in 1 .. size - 1 : old \in Buckets(m) /\ oi + 1 <= m /\ nitems <= oi
           \/ ~Resizing /\ pc' = "idle" /\ oi' = oi /\ request' = NoValue /\ old = NoOld
    <2>1. CASE Resizing
      <3>1. pc' = "resize" /\ oi' = oi + 1 /\ request' = request
        BY <2>1 DEF InsertFree, EndInsert
      <3> QED BY <1>5, <2>1, <3>1, StillOldPassed
    <2>2. CASE ~Resizing
      <3>1. pc' = "idle" /\ oi' = oi /\ request' = NoValue
        BY <2>2 DEF InsertFree, EndInsert, oldvars
      <3>2. old = NoOld
        BY <1>5, <2>2 DEF TableInv, Phases
      <3>3. StillOld' = StillOld
        BY <1>5, <3>2 DEF StillOld, NoOld
      <3> QED BY <2>2, <3>1, <3>2, <3>3
    <2> QED BY <2>1, <2>2
  <1>7. Table'
    <2>1. IsFiniteSet(Used') /\ Cardinality(Used') = Cardinality(Used) + 1
      BY <1>2, <1>3, FS_AddElement DEF TableInv, Table
    <2>2. i' \in Place' /\ oi' \in Nat /\ placed' \in BOOLEAN
      <3>1. oi \in Nat
        BY DEF TableInv, Table
      <3>2. oi' \in Nat
        BY <1>6, <3>1
      <3>3. placed' \in BOOLEAN
        BY <1>4
      <3> QED BY <1>2, <1>3, <1>4, <3>2, <3>3
    <2>3. buckets' \in Buckets(size)'
      BY <1>2, <1>5 DEF Buckets
    <2>4. nitems' = Cardinality(Used')
      BY <1>5, <2>1 DEF TableInv, Table
    <2> QED BY <1>5, <2>1, <2>2, <2>3, <2>4 DEF TableInv, Table
  <1>8. OldTable'
    <2>1. CASE old = NoOld
      <3>1. ~Resizing /\ oi' = oi
        BY <1>6, <2>1 DEF Resizing, NoOld
      <3>2. oi = 0
        BY <2>1, NoOldTable
      <3> QED BY <1>5, <2>1, <3>1, <3>2 DEF OldTable
    <2>2. CASE Resizing
      <3>1. PICK m \in 1 .. size - 1 : old \in Buckets(m) /\ oi + 1 <= m /\ nitems <= oi
        BY <1>6, <2>2
      <3>2. nitems' <= oi' /\ oi' <= m
        <4>1. nitems \in Nat /\ oi \in Nat
          BY FS_CardinalityType DEF TableInv, Table
        <4> QED BY <1>5, <1>6, <2>2, <3>1, <4>1
      <3> QED BY <1>5, <3>1, <3>2 DEF OldTable, Buckets
    <2> QED BY <1>6, <2>1, <2>2
  <1>9. Phases'
    BY <1>4, <1>5, <1>6 DEF TableInv, Phases
  <1>10. pc' # "insert" /\ pc' # "get"
    BY <1>6
  <1>11. PslValid' /\ Ways' /\ Searches'
    BY <1>1, <1>10, PlacingWays DEF PslValid, Ways, Searches, InFlight
  <1>12. Distinct'
    <2>1. \A b, c \in StillOld : old[b].key = old[c].key => b = c
      BY DEF TableInv, Distinct
    <2> QED BY <1>1, <1>5, <1>6, <1>10, <2>1, PlacingWays DEF Distinct, InFlight
  <1> QED BY <1>7, <1>8, <1>9, <1>11, <1>12 DEF TableInv


(* What hm_insert is called with has no place yet, and its way is empty. *)
LEMMA Starting ==
  ASSUME TableInv, pc # "insert", NEW k \in Key, NEW v \in Value, NEW known \in BOOLEAN,
         StartInsert(k, v, known), i' = Base(k), UNCHANGED <<hash, tablevars, n>>,
         oi' \in Nat
  PROVE  /\ Table' /\ PslValid' /\ Ways'
         /\ Passed(Distance(key, i))' /\ Missed(Distance(key, i))'
         /\ entry' \in Entry /\ entry'.key = k /\ entry'.val = v
         /\ pc' = "insert" /\ key' = k /\ placed' = known
         /\ Used' = Used /\ Place' = Place
  <1> USE DEF StartInsert, tablevars
  <1>1. /\ Sized /\ Base(k) \in Place /\ Distance(k, Base(k)) = 0
        /\ Used' = Used /\ Place' = Place
    BY TableShape, DistanceBase DEF TableInv, Used, Place
  <1>2. /\ entry' \in Entry /\ entry'.key = k /\ entry'.val = v /\ entry'.psl = 0
        /\ placed' = known
    BY MadeEntry
  <1>3. \A m \in Key, b \in Place : Distance(m, b)' = Distance(m, b)
    BY DEF Distance, Base
  <1>4. Distance(k, i)' = 0 /\ Distance(key, i)' = 0 /\ Distance(entry.key, i)' = 0
    BY <1>1, <1>2 DEF Distance, Base
  <1>5. \A m \in Key, c \in Place : ~(Distance(m, c)' < 0)
    BY <1>1, <1>3, DistanceRange DEF Sized
  <1>6. Table'
    <2>1. placed' \in BOOLEAN
      BY <1>2
    <2>2. buckets' \in Buckets(size)' /\ i' \in Place' /\ key' \in Key
      BY <1>1 DEF TableInv, Table, Buckets
    <2>3. IsFiniteSet(Used') /\ nitems' = Cardinality(Used')
      BY <1>1 DEF TableInv, Table
    <2> QED BY <2>1, <2>2, <2>3 DEF TableInv, Table
  <1>7. PslValid'
    <2>1. \A b \in Used : buckets[b].psl = Distance(buckets[b].key, b)'
      BY DEF TableInv, PslValid, Distance, Base
    <2> QED BY <1>1, <1>2, <1>4, <2>1 DEF PslValid
  <1>8. Ways'
    <2>1. \A b \in Used : Way(buckets[b].key, buckets[b].psl)'
      BY <1>1 DEF TableInv, Ways, Way, Distance, Base
    <2>2. Way(entry.key, entry.psl)'
      BY <1>1, <1>2, <1>5 DEF Way
    <2> QED BY <1>1, <2>1, <2>2 DEF Ways
  <1>9. Passed(Distance(key, i))' /\ Missed(Distance(key, i))'
    BY <1>1, <1>4, <1>5 DEF Passed, Missed
  <1> QED BY <1>1, <1>2, <1>6, <1>7, <1>8, <1>9


LEMMA ResizeMoveInv ==
  ASSUME TableInv, ResizeMove
  PROVE  TableInv'
  <1> DEFINE e == old[oi]
  <1>1. pc = "resize" /\ UNCHANGED <<hash, tablevars, n, old, oi, request>>
    BY DEF ResizeMove, oldvars
  <1>2. old # NoOld /\ oi \in DOMAIN old /\ e.used
    BY <1>1 DEF ResizeMove, TableInv, Phases, Resizing
  <1>3. e \in Entry /\ e.key \in Key /\ e.val \in Value /\ nitems < size /\ oi \in Nat
    BY <1>2, OldTableShape
  <1>4. /\ Table' /\ PslValid' /\ Ways'
        /\ Passed(Distance(key, i))'
        /\ entry' \in Entry /\ entry'.key = e.key
        /\ pc' = "insert" /\ key' = e.key /\ placed'
        /\ Used' = Used
    <2>1. StartInsert(e.key, e.val, TRUE) /\ i' = Base(e.key)
      BY DEF ResizeMove
    <2> HIDE DEF e
    <2>2. /\ Table' /\ PslValid' /\ Ways' /\ Passed(Distance(key, i))'
          /\ entry' \in Entry /\ entry'.key = e.key
          /\ pc' = "insert" /\ key' = e.key /\ placed' = TRUE /\ Used' = Used
      BY <1>1, <1>3, <2>1, Starting
    <2> QED BY <2>2
  <1>5. oi \in StillOld /\ StillOld' = StillOld \ {oi}
    <2>1. \A b \in DOMAIN old : b \in Nat
      BY <1>2, OldTableShape
    <2> QED BY <1>1, <1>2, <1>3, <1>4, <2>1 DEF StillOld
  <1>6. OldTable'
    BY <1>1 DEF TableInv, OldTable, tablevars, Buckets
  <1>7. Phases'
    BY <1>1, <1>2, <1>3, <1>4 DEF TableInv, Phases, Resizing, tablevars
  <1>8. Searches'
    BY <1>1, <1>2, <1>4 DEF Searches, Resizing
  <1>9. Distinct'
    <2>1. \A b \in Used : buckets[b].key # e.key
      BY <1>5 DEF TableInv, Distinct
    <2>2. \A c \in StillOld \ {oi} : old[c].key # e.key
      BY <1>5 DEF TableInv, Distinct
    <2>3. buckets' = buckets /\ old' = old
      BY <1>1 DEF tablevars
    <2> QED BY <1>4, <1>5, <2>1, <2>2, <2>3 DEF TableInv, Distinct
  <1> QED BY <1>4, <1>6, <1>7, <1>8, <1>9 DEF TableInv

LEMMA ResizeSkipInv ==
  ASSUME TableInv, ResizeSkip
  PROVE  TableInv'
  <1> USE DEF ResizeSkip, tablevars
  <1>1. old # NoOld /\ oi \in DOMAIN old
    BY DEF TableInv, Phases, Resizing
  <1>2. PICK m \in 1 .. size - 1 :
          old \in Buckets(m) /\ DOMAIN old = 0 .. m - 1 /\ oi \in 0 .. m /\ nitems <= oi
    BY <1>1, OldTableShape
  <1>3. nitems \in Nat /\ oi + 1 <= m /\ oi + 1 \in Nat /\ nitems <= oi + 1
    BY <1>1, <1>2, OldTableShape
  <1>4. StillOld' = StillOld
    BY <1>1, <1>2 DEF StillOld
  <1>5. Used' = Used /\ Place' = Place
    BY DEF Used, Place
  <1>6. Table'
    BY <1>3, <1>5 DEF TableInv, Table
  <1>7. OldTable'
    BY <1>2, <1>3 DEF OldTable, Buckets
  <1>8. Phases'
    BY DEF TableInv, Phases
  <1>9. PslValid' /\ Ways'
    BY <1>5 DEF TableInv, PslValid, Ways, Way, Distance, Base
  <1>10. Searches' /\ Distinct'
    BY <1>4, <1>5 DEF TableInv, Searches, Distinct, InFlight
  <1> QED BY <1>6, <1>7, <1>8, <1>9, <1>10 DEF TableInv

(* The old table is empty: the pair that was to be added is inserted. *)
LEMMA ResizeEndInv ==
  ASSUME TableInv, ResizeEnd
  PROVE  TableInv'
  <1>1. pc = "resize" /\ old # NoOld /\ request \in Key \X Value
    BY DEF ResizeEnd, TableInv, Phases
  <1>2. UNCHANGED <<hash, tablevars, n, request>> /\ old' = NoOld /\ oi' = 0
    BY DEF ResizeEnd
  <1>3. PICK k \in Key, v \in Value : k = request[1] /\ v = request[2]
    BY <1>1
  <1>4. /\ Table' /\ PslValid' /\ Ways'
        /\ Passed(Distance(key, i))' /\ Missed(Distance(key, i))'
        /\ entry' \in Entry /\ entry'.key = k /\ entry'.val = v
        /\ pc' = "insert" /\ key' = k /\ ~placed'
        /\ Used' = Used
    <2>1. StartInsert(k, v, FALSE) /\ i' = Base(k)
      BY <1>3 DEF ResizeEnd
    <2>2. /\ Table' /\ PslValid' /\ Ways'
          /\ Passed(Distance(key, i))' /\ Missed(Distance(key, i))'
          /\ entry' \in Entry /\ entry'.key = k /\ entry'.val = v
          /\ pc' = "insert" /\ key' = k /\ placed' = FALSE
          /\ Used' = Used
      BY <1>1, <1>2, <2>1, Starting
    <2> QED BY <2>2
  <1>5. StillOld' = {} /\ ~Resizing'
    BY <1>2 DEF StillOld, Resizing, NoOld
  <1>6. OldTable'
    BY <1>2 DEF OldTable
  <1>7. Phases'
    <2>1. nitems' < size'
      BY <1>1, <1>2, OldTableShape DEF tablevars
    <2> QED BY <1>1, <1>2, <1>3, <1>4, <1>5, <2>1 DEF Phases
  <1>8. Searches'
    BY <1>4 DEF Searches, InFlight
  <1>9. Distinct'
    BY <1>2, <1>4, <1>5 DEF TableInv, Distinct, InFlight, tablevars
  <1> QED BY <1>4, <1>6, <1>7, <1>8, <1>9 DEF TableInv


LEMMA AddInv ==
  ASSUME TableInv, NEW k \in Key, NEW v \in Value, Add(k, v)
  PROVE  TableInv'
  <1>1. /\ pc = "idle" /\ request' = <<k, v>> /\ UNCHANGED <<hash, n>>
        /\ old = NoOld /\ entry = Empty /\ placed = FALSE
    BY DEF Add, TableInv, Phases
  <1>2. oi = 0 /\ StillOld = {} /\ ~Resizing
    BY <1>1, NoOldTable
  <1>3. CASE /\ nitems <= Threshold
             /\ StartInsert(k, v, FALSE)
             /\ i' = Base(k)
             /\ UNCHANGED <<tablevars, oldvars>>
    <2>1. nitems < size
      <3>1. size \in Nat \ {0} /\ nitems \in Nat
        BY TableShape, FS_CardinalityType DEF TableInv, Sized, Table
      <3> QED BY <1>3, <3>1, ThresholdBelowSize DEF Threshold
    <2>2. /\ Table' /\ PslValid' /\ Ways'
          /\ Passed(Distance(key, i))' /\ Missed(Distance(key, i))'
          /\ entry' \in Entry /\ entry'.key = k /\ entry'.val = v
          /\ pc' = "insert" /\ key' = k /\ placed' = FALSE
          /\ Used' = Used
      BY <1>1, <1>2, <1>3, Starting DEF oldvars
    <2>3. StillOld' = {} /\ old' = NoOld /\ oi' = 0 /\ ~Resizing'
      BY <1>1, <1>2, <1>3 DEF StillOld, Resizing, NoOld, oldvars
    <2>4. OldTable'
      BY <2>3 DEF OldTable
    <2>5. Phases'
      BY <1>1, <1>3, <2>1, <2>2, <2>3 DEF Phases, tablevars
    <2>6. Searches'
      BY <2>2 DEF Searches, InFlight
    <2>7. Distinct'
      BY <1>3, <2>2, <2>3 DEF TableInv, Distinct, InFlight, tablevars
    <2> QED BY <2>2, <2>4, <2>5, <2>6, <2>7 DEF TableInv
  <1>4. CASE /\ NewSize <= MaxSize
             /\ old' = buckets /\ oi' = 0
             /\ size' = NewSize
             /\ buckets' = [b \in 0 .. NewSize - 1 |-> Empty]
             /\ nitems' = 0
             /\ pc' = "resize" /\ i' = 0
             /\ UNCHANGED <<key, entry, placed>>
    <2>1. /\ Sized /\ size < size' /\ size' \in 1 .. MaxSize
          /\ DOMAIN buckets = Place /\ 0 \in Place'
      BY <1>4, TableShape, TableAssumption DEF TableInv, Sized, NewSize, Smaller, Place
    <2>2. Used' = {} /\ buckets' \in Buckets(size')
      BY <1>4 DEF Used, Buckets, Empty
    <2>3. StillOld' = Used
      BY <1>4, <2>1 DEF StillOld, Used, Place
    <2>4. buckets # NoOld
      <3>1. DOMAIN NoOld = {} /\ 0 \in Place
        BY <2>1 DEF NoOld, Sized, Place
      <3> QED BY <2>1, <3>1
    <2>5. Table'
      <3>1. IsFiniteSet(Used') /\ nitems' = Cardinality(Used')
        BY <1>4, <2>2, FS_EmptySet
      <3>2. n \in 0 .. size' /\ size \in Nat
        BY <2>1, TableAssumption DEF TableInv, Table, Sized
      <3>3. placed' \in BOOLEAN
        BY <1>1, <1>4
      <3> QED BY <1>1, <1>4, <2>1, <2>2, <3>1, <3>2, <3>3 DEF TableInv, Table
    <2>6. OldTable'
      <3>1. size \in 1 .. size' - 1 /\ buckets \in Buckets(size)
        <4>1. size \in Nat \ {0} /\ size' \in Nat /\ size < size'
          BY <2>1, TableAssumption DEF Sized
        <4>2. size \in 1 .. size' - 1
          BY <4>1, BelowNext
        <4> QED BY <4>2 DEF TableInv, Table
      <3> QED BY <1>4, <3>1 DEF OldTable, Buckets
    <2>7. Phases'
      BY <1>1, <1>4, <2>4 DEF Phases
    <2>8. PslValid' /\ Ways' /\ Searches'
      BY <1>4, <2>2 DEF PslValid, Ways, Searches, InFlight
    <2>9. Distinct'
      BY <1>4, <2>2, <2>3 DEF TableInv, Distinct, InFlight
    <2> QED BY <2>5, <2>6, <2>7, <2>8, <2>9 DEF TableInv
  <1> QED BY <1>3, <1>4 DEF Add

LEMMA NextInv == TableInv /\ [Next]_vars => TableInv'
  <1> SUFFICES ASSUME TableInv, [Next]_vars PROVE TableInv'
    OBVIOUS
  <1>1. ASSUME NEW k \in Key, Get(k) PROVE TableInv'
    BY <1>1, LookupInv
  <1>2. ASSUME NEW k \in Key, NEW v \in Value, Add(k, v) PROVE TableInv'
    BY <1>2, AddInv
  <1>3. CASE GetHit \/ GetMiss \/ GetNext
    BY <1>3, LookupInv
  <1>4. CASE InsertDuplicate
    BY <1>4, InsertDuplicateInv
  <1>5. CASE InsertSwap
    BY <1>5, InsertSwapInv
  <1>6. CASE InsertNext
    BY <1>6, InsertNextInv
  <1>7. CASE InsertFree
    BY <1>7, InsertFreeInv
  <1>8. CASE ResizeSkip
    BY <1>8, ResizeSkipInv
  <1>9. CASE ResizeMove
    BY <1>9, ResizeMoveInv
  <1>10. CASE ResizeEnd
    BY <1>10, ResizeEndInv
  <1>11. CASE UNCHANGED vars
    <2> USE <1>11 DEF vars, tablevars, oldvars
    <2>1. Used' = Used /\ StillOld' = StillOld /\ Place' = Place /\ Stored' = Stored
      BY DEF Used, StillOld, Place, Stored, Distance, Base, Resizing
    <2>2. Table' /\ OldTable' /\ Phases'
      BY <2>1 DEF TableInv, Table, OldTable, Phases, Buckets, Resizing
    <2>3. PslValid' /\ Ways' /\ Searches' /\ Distinct'
      BY <2>1 DEF TableInv, PslValid, Ways, Way, Searches, Distinct, Passed, Missed,
                  Distance, Base, InFlight, Resizing
    <2> QED BY <2>2, <2>3 DEF TableInv
  <1> QED BY <1>1, <1>2, <1>3, <1>4, <1>5, <1>6, <1>7, <1>8, <1>9, <1>10, <1>11
         DEF Next, Call, Step

(***************************************************************************)
(* The invariant holds in every reachable state of the loops of hm_get,    *)
(* hm_insert and hm_resize, whatever the keys, the hashes and the sizes.   *)
(***************************************************************************)
THEOREM Invariant == Spec => []TableInv
  <1>1. Init => TableInv
    BY InitInv
  <1>2. TableInv /\ [Next]_vars => TableInv'
    BY NextInv
  <1> QED BY <1>1, <1>2, PTL DEF Spec

-----------------------------------------------------------------------------
(* What a caller relies on *)

(***************************************************************************)
(* Every variable of the table keeps its type, an index stays within the   *)
(* buckets and the count within their number, in the middle of every loop. *)
(***************************************************************************)
THEOREM TypeCorrect == Spec => []TypeOK
  <1>1. TableInv => TypeOK
    <2> SUFFICES ASSUME TableInv PROVE TypeOK
      OBVIOUS
    <2>1. /\ hash \in [Key -> HashValue] /\ size \in 1 .. MaxSize
          /\ buckets \in Buckets(size) /\ key \in Key /\ oi \in Nat
          /\ placed \in BOOLEAN
      BY DEF TableInv, Table
    <2>2. i \in 0 .. size - 1 /\ n \in Nat /\ size \in Nat
      BY <2>1, TableAssumption DEF TableInv, Table, Place
    <2>3. nitems \in 0 .. size
      <3>1. Used \subseteq 0 .. size - 1 /\ IsFiniteSet(0 .. size - 1)
            /\ Cardinality(0 .. size - 1) = size
        BY <2>2, TableShape, FS_Interval DEF TableInv, Place
      <3>2. Cardinality(Used) <= size /\ Cardinality(Used) \in Nat
        BY <3>1, FS_Subset, FS_CardinalityType
      <3> QED BY <2>2, <3>2 DEF TableInv, Table
    <2>4. pc \in {"idle", "get", "insert", "resize"} /\ entry \in Entry \cup {Empty}
      BY DEF TableInv, Phases
    <2>5. request \in (Key \X Value) \cup {NoValue}
      BY DEF TableInv, Phases
    <2>6. \E m \in 0 .. MaxSize : old \in Buckets(m)
      <3>1. CASE old = NoOld
        <4>1. 0 .. 0 - 1 = {} /\ 0 \in 0 .. MaxSize
          BY TableAssumption
        <4>2. NoOld \in Buckets(0)
          BY <4>1 DEF Buckets, NoOld
        <4> QED BY <3>1, <4>1, <4>2
      <3>2. CASE old # NoOld
        <4>1. PICK m \in 1 .. size - 1 : old \in Buckets(m)
          BY <3>2, OldTableShape
        <4>2. m \in 0 .. MaxSize
          BY <2>1, <2>2, TableAssumption
        <4> QED BY <4>1, <4>2
      <3> QED BY <3>1, <3>2
    <2> QED BY <2>1, <2>2, <2>3, <2>4, <2>5, <2>6 DEF TypeOK
  <1> QED BY <1>1, Invariant, PTL


(***************************************************************************)
(* The Robin Hood order at every moment of every loop: the reason that     *)
(* hm_get may stop at the first entry nearer to its base than the key.     *)
(***************************************************************************)
THEOREM RobinHoodOrder == Spec => []RobinHood
  <1>1. TableInv => RobinHood
    <2> SUFFICES ASSUME TableInv, NEW b \in Used, buckets[b].psl > 0
                 PROVE  LET before == buckets[(b + size - 1) % size]
                        IN before.used /\ before.psl + 1 >= buckets[b].psl
      BY DEF TableInv, RobinHood
    <2>1. /\ Sized /\ b \in Place /\ buckets[b].key \in Key /\ buckets[b].psl \in Nat
          /\ size \in Nat
      BY TableShape DEF TableInv, Sized
    <2>2. PICK k \in Key : k = buckets[b].key
      BY <2>1
    <2>3. buckets[b].psl = Distance(k, b) /\ Way(k, buckets[b].psl)
      BY <2>2 DEF TableInv, PslValid, Ways
    <2>4. PICK c \in Place : c = (b + size - 1) % size
      <3>1. b + size - 1 \in Nat
        BY <2>1 DEF Sized, Place
      <3> QED BY <2>1, <3>1, ModOfNat DEF Sized, Place
    <2>5. Next1(c) = b
      <3>1. /\ b >= 1 => (b + size - 1) % size = b - 1
            /\ b < 1 => (b + size - 1) % size = b + size - 1
        <4>1. CASE size = 1
          <5>1. b = 0 /\ (0 + 1 - 1) % 1 = 0
            BY <2>1, <4>1 DEF Place
          <5> QED BY <4>1, <5>1
        <4>2. CASE size # 1
          <5>1. 1 \in 0 .. size - 1 /\ b \in 0 .. size - 1 /\ size \in Nat \ {0}
            BY <2>1, <4>2 DEF Place, Sized
          <5> QED BY <5>1, CyclicDistance
        <4> QED BY <4>1, <4>2
      <3>2. /\ c < size - 1 => (c + 1) % size = c + 1
            /\ c = size - 1 => (c + 1) % size = 0
        BY <2>1, CyclicDistance DEF Place, Sized
      <3> QED BY <2>1, <2>4, <3>1, <3>2 DEF Next1, Place
    <2>6. Distance(k, c) \in 0 .. size - 1
      BY <2>1, DistanceRange
    <2>7. Distance(k, c) # size - 1 /\ Distance(k, c) + 1 = buckets[b].psl
      <3>1. /\ Distance(k, c) = size - 1 => Distance(k, b) = 0
            /\ Distance(k, c) # size - 1 => Distance(k, b) = Distance(k, c) + 1
        BY <2>1, <2>5, DistanceNext
      <3> QED BY <2>1, <2>3, <3>1
    <2>8. buckets[c].used /\ buckets[c].psl >= Distance(k, c)
      BY <2>1, <2>3, <2>6, <2>7 DEF Way
    <2>9. buckets[c].psl \in Nat
      BY <2>8, TableShape DEF TableInv
    <2> QED BY <2>1, <2>4, <2>6, <2>7, <2>8, <2>9
  <1> QED BY <1>1, Invariant, PTL

(* A set without two different members has at most one. *)
LEMMA AtMostOne ==
  ASSUME NEW S, \A x, y \in S : x = y
  PROVE  S = {} \/ \E x : S = {x}
  OBVIOUS

LEMMA CardinalityOfOne ==
  ASSUME NEW S, \A x, y \in S : x = y
  PROVE  Cardinality(S) \in {0, 1} /\ (Cardinality(S) = 1 => S # {})
  <1>1. CASE S = {}
    BY <1>1, FS_EmptySet
  <1>2. CASE \E x : S = {x}
    BY <1>2, FS_Singleton
  <1> QED BY <1>1, <1>2, AtMostOne

(***************************************************************************)
(* No key has two copies among the table, the unmoved part of the old one  *)
(* and the entry in flight, and the count is that of the used buckets,     *)
(* although hm_insert goes on comparing with the key it began with.        *)
(***************************************************************************)
THEOREM OneCopyOfAKey == Spec => []OneCopy
  <1>1. TableInv => OneCopy
    <2> SUFFICES ASSUME TableInv, NEW k \in Key
                 PROVE  Copies(k) <= 1
      BY DEF TableInv, Table, OneCopy
    <2> DEFINE new == {b \in Used : buckets[b].key = k}
               left == {b \in StillOld : old[b].key = k}
    <2>1. /\ Cardinality(new) \in {0, 1}
          /\ Cardinality(new) = 1 => new # {}
      <3>1. \A x, y \in new : x = y
        BY DEF TableInv, Distinct
      <3> QED BY <3>1, CardinalityOfOne
    <2>2. /\ Cardinality(left) \in {0, 1}
          /\ Cardinality(left) = 1 => left # {}
      <3>1. \A x, y \in left : x = y
        BY DEF TableInv, Distinct
      <3> QED BY <3>1, CardinalityOfOne
    <2>3. /\ new = {} \/ left = {}
          /\ InFlight /\ entry.key = k => new = {} /\ left = {}
      BY DEF TableInv, Distinct
    <2>4. Cardinality({}) = 0
      BY FS_EmptySet
    <2>5. Copies(k) = Cardinality(new) + Cardinality(left)
                        + (IF InFlight /\ entry.key = k THEN 1 ELSE 0)
      BY DEF Copies
    <2> HIDE DEF new, left
    <2> QED BY <2>1, <2>2, <2>3, <2>4, <2>5
  <1> QED BY <1>1, Invariant, PTL


-----------------------------------------------------------------------------
(* The table is a map *)

(* The key is in the table, in the old one or in flight with that value, and *)
(* is not the one whose insertion is still running.                          *)
Has(k, v) ==
  \/ \E b \in Used : buckets[b].key = k /\ buckets[b].val = v
  \/ \E b \in StillOld : old[b].key = k /\ old[b].val = v
  \/ InFlight /\ entry.key = k /\ entry.val = v

Shows(k, v) == Has(k, v) /\ ~Adding(k)

LEMMA PresentValues ==
  ASSUME TableInv, NEW k \in Key
  PROVE  /\ \A v : v \in Present(k) <=> Has(k, v)
         /\ \A v : Has(k, v) => v \in Value
         /\ \A v, w : Has(k, v) /\ Has(k, w) => v = w
  <1>1. \A v : v \in Present(k) <=> \E e \in Entries : e.key = k /\ e.val = v
    BY DEF Present
  <1>2. \A v : (\E e \in Entries : e.key = k /\ e.val = v) <=> Has(k, v)
    BY DEF Entries, Has
  <1>3. \A b \in Used : buckets[b].val \in Value
    BY TableShape DEF TableInv
  <1>4. \A b \in StillOld : old[b].val \in Value
    <2>1. CASE old = NoOld
      BY <2>1, NoOldTable
    <2>2. CASE old # NoOld
      BY <2>2, OldTableShape DEF StillOld
    <2> QED BY <2>1, <2>2
  <1>5. InFlight => entry.val \in Value
    BY DEF TableInv, Phases, InFlight, Entry
  <1>6. \A v : Has(k, v) => v \in Value
    BY <1>3, <1>4, <1>5 DEF Has
  <1>7. \A v, w : Has(k, v) /\ Has(k, w) => v = w
    BY DEF Has, TableInv, Distinct
  <1> QED BY <1>1, <1>2, <1>6, <1>7

LEMMA MapIs ==
  TableInv => /\ Map \in [Key -> Value \cup {NoValue}]
              /\ \A k \in Key, v \in Value : Map[k] = v <=> Shows(k, v)
  <1> SUFFICES ASSUME TableInv
               PROVE  /\ Map \in [Key -> Value \cup {NoValue}]
                      /\ \A k \in Key, v \in Value : Map[k] = v <=> Shows(k, v)
    OBVIOUS
  <1>1. ASSUME NEW k \in Key
        PROVE  /\ Map[k] \in Value \cup {NoValue}
               /\ \A v \in Value : Map[k] = v <=> Shows(k, v)
    <2>1. /\ \A v : v \in Present(k) <=> Has(k, v)
          /\ \A v : Has(k, v) => v \in Value
          /\ \A v, w : Has(k, v) /\ Has(k, w) => v = w
      BY PresentValues
    <2>2. CASE Adding(k) \/ Present(k) = {}
      <3>1. Map[k] = NoValue
        BY <2>2 DEF Map
      <3>2. \A v \in Value : ~Shows(k, v) /\ v # NoValue
        BY <2>1, <2>2, TableAssumption DEF Shows
      <3> QED BY <3>1, <3>2
    <2>3. CASE ~(Adding(k) \/ Present(k) = {})
      <3>1. Map[k] = CHOOSE v \in Present(k) : TRUE
        BY <2>3 DEF Map
      <3>2. Map[k] \in Present(k)
        BY <2>3, <3>1
      <3> QED BY <2>1, <2>3, <3>2 DEF Shows
    <2> QED BY <2>2, <2>3
  <1>2. Map = [k \in Key |-> Map[k]]
    BY DEF Map
  <1> QED BY <1>1, <1>2

(* A step that shows the same values leaves the map alone. *)
LEMMA SameMap ==
  ASSUME TableInv, TableInv', \A k \in Key, v \in Value : Shows(k, v)' <=> Shows(k, v)
  PROVE  Map' = Map
  <1>1. /\ Map' \in [Key -> Value \cup {NoValue}]
        /\ \A k \in Key, v \in Value : Map'[k] = v <=> Shows(k, v)'
    <2>1. (TableInv => /\ Map \in [Key -> Value \cup {NoValue}]
                       /\ \A k \in Key, v \in Value : Map[k] = v <=> Shows(k, v))'
      BY MapIs, PTL
    <2> QED BY <2>1
  <1>2. /\ Map \in [Key -> Value \cup {NoValue}]
        /\ \A k \in Key, v \in Value : Map[k] = v <=> Shows(k, v)
    BY MapIs
  <1>3. ASSUME NEW k \in Key PROVE Map'[k] = Map[k]
    <2>1. \A v \in Value : Map'[k] = v <=> Map[k] = v
      BY <1>1, <1>2
    <2>2. Map'[k] \in Value \cup {NoValue} /\ Map[k] \in Value \cup {NoValue}
      BY <1>1, <1>2
    <2> QED BY <2>1, <2>2
  <1> QED BY <1>1, <1>2, <1>3


(* No step of a lookup changes an entry. *)
LEMMA LookingSame ==
  ASSUME TableInv, TableInv', Looking
  PROVE  Map' = Map
  <1>1. Used' = Used /\ ~InFlight /\ ~InFlight'
    BY DEF Looking, Used, InFlight, tablevars
  <1>2. StillOld' = StillOld
    BY DEF Looking, StillOld, oldvars, TableInv, Phases, NoOld
  <1>3. \A k \in Key, v \in Value : Shows(k, v)' <=> Shows(k, v)
    BY <1>1, <1>2 DEF Shows, Has, Adding, Looking, tablevars, oldvars
  <1> QED BY <1>3, SameMap

LEMMA GetHitImplements ==
  ASSUME TableInv, GetHit, Map' = Map
  PROVE  Abstract!Get(key)
  <1>1. i \in Used /\ buckets[i].key = key /\ buckets[i].val \in Value /\ key \in Key
    BY TableShape DEF TableInv, Table, GetHit, Holds
  <1>2. Shows(key, buckets[i].val)
    BY <1>1 DEF Shows, Has, Adding, InFlight, GetHit
  <1>3. Map[key] = buckets[i].val
    BY <1>1, <1>2, MapIs
  <1> QED BY <1>3 DEF GetHit, Abstract!Get

(* Where a lookup gives up, the key is nowhere in the table. *)
LEMMA GetMissAbsent ==
  ASSUME TableInv, GetMiss, NEW b \in Used, buckets[b].key = key
  PROVE  FALSE
  <1>1. /\ Sized /\ i \in Place /\ key \in Key /\ b \in Place /\ buckets[b].used
        /\ n \in 0 .. size /\ size \in Nat /\ n \in Nat
    BY TableShape DEF TableInv, Table, Sized
  <1>2. /\ buckets[b].psl = Distance(key, b) /\ Way(key, Distance(key, b))
        /\ Distance(key, b) \in 0 .. size - 1
    BY <1>1, DistanceRange DEF TableInv, PslValid, Ways
  <1>3. /\ \A c \in Place : Distance(key, c) < n => ~Holds(buckets[c], key)
        /\ n < size => Distance(key, i) = n
        /\ ~Holds(buckets[i], key) /\ (buckets[i].used => n > buckets[i].psl)
    BY DEF TableInv, Searches, Missed, GetMiss, Stops
  <1>4. ~(Distance(key, b) < n)
    BY <1>1, <1>3 DEF Holds
  <1>5. Distance(key, i) = n
    BY <1>1, <1>2, <1>3, <1>4
  <1>6. Distance(key, b) # n
    BY <1>1, <1>3, <1>5, DistanceInjective DEF Holds
  <1>7. buckets[i].used /\ buckets[i].psl >= n
    BY <1>1, <1>2, <1>4, <1>5, <1>6 DEF Way
  <1>8. buckets[i].psl \in Nat
    BY <1>1, <1>7, TableShape DEF TableInv
  <1> QED BY <1>1, <1>3, <1>7, <1>8

LEMMA GetMissImplements ==
  ASSUME TableInv, GetMiss, Map' = Map
  PROVE  Abstract!Get(key)
  <1>1. ~InFlight /\ StillOld = {} /\ key \in Key
    BY NoOldTable DEF InFlight, GetMiss, TableInv, Phases, Table
  <1>2. \A v \in Value : ~Shows(key, v)
    BY <1>1, GetMissAbsent DEF Shows, Has
  <1>3. Map[key] = NoValue
    BY <1>1, <1>2, MapIs
  <1> QED BY <1>3 DEF GetMiss, Abstract!Get

LEMMA LookupImplements ==
  ASSUME TableInv, TableInv',
         (\E k \in Key : Get(k)) \/ GetHit \/ GetMiss \/ GetNext
  PROVE  Map' = Map /\ (ret' = ret \/ \E k \in Key : Abstract!Get(k))
  <1>1. key' \in Key /\ i' \in Place /\ n' \in 0 .. size
    BY DEF TableInv, Table, Get, GetHit, GetMiss, GetNext, Place, tablevars
  <1>2. Looking
    <2>1. pc' = "get" => Missed(n)' /\ (n < size => Distance(key, i) = n)'
      BY DEF TableInv, Searches
    <2> QED BY <1>1, <2>1 DEF Get, GetHit, GetMiss, GetNext, Looking
  <1>3. Map' = Map
    BY <1>2, LookingSame
  <1>4. key \in Key
    BY DEF TableInv, Table
  <1>5. CASE GetHit \/ GetMiss
    BY <1>3, <1>4, <1>5, GetHitImplements, GetMissImplements
  <1>6. CASE (\E k \in Key : Get(k)) \/ GetNext
    BY <1>3, <1>6 DEF Get, GetNext
  <1> QED BY <1>3, <1>5, <1>6

(* A resize shows the same values while it moves them. *)
LEMMA ResizeSkipSame ==
  ASSUME TableInv, TableInv', ResizeSkip
  PROVE  Map' = Map
  <1>1. Used' = Used /\ InFlight' = InFlight /\ ~InFlight
    BY DEF ResizeSkip, Used, InFlight, tablevars
  <1>2. StillOld' = StillOld
    <2>1. \A b \in DOMAIN old : b \in Nat
      BY OldTableShape DEF ResizeSkip, TableInv, Phases
    <2>2. oi \in Nat
      BY DEF TableInv, Table
    <2> QED BY <2>1, <2>2 DEF ResizeSkip, StillOld
  <1>3. \A k \in Key, v \in Value : Shows(k, v)' <=> Shows(k, v)
    BY <1>1, <1>2 DEF Shows, Has, Adding, ResizeSkip, tablevars
  <1> QED BY <1>3, SameMap

LEMMA ResizeMoveSame ==
  ASSUME TableInv, TableInv', ResizeMove
  PROVE  Map' = Map
  <1>1. /\ Used' = Used /\ buckets' = buckets /\ old' = old
        /\ ~InFlight /\ InFlight' /\ Resizing'
        /\ entry'.key = old[oi].key /\ entry'.val = old[oi].val
    BY DEF ResizeMove, Used, InFlight, StartInsert, Resizing, tablevars, oldvars
  <1>2. oi \in StillOld /\ StillOld' = StillOld \ {oi}
    <2>1. \A b \in DOMAIN old : b \in Nat
      BY OldTableShape DEF ResizeMove, TableInv, Phases
    <2>2. oi \in Nat
      BY DEF TableInv, Table
    <2> QED BY <2>1, <2>2 DEF ResizeMove, StillOld, Resizing, StartInsert, oldvars
  <1>3. \A k \in Key, v \in Value : Shows(k, v)' <=> Shows(k, v)
    BY <1>1, <1>2 DEF Shows, Has, Adding
  <1> QED BY <1>3, SameMap

LEMMA ResizeEndSame ==
  ASSUME TableInv, TableInv', ResizeEnd
  PROVE  Map' = Map
  <1>1. /\ Used' = Used /\ buckets' = buckets /\ ~InFlight /\ ~InFlight'
        /\ StillOld' = {}
    BY DEF ResizeEnd, Used, InFlight, StartInsert, tablevars, StillOld, NoOld
  <1>2. StillOld = {}
    BY OldTableShape DEF ResizeEnd, StillOld, Resizing, TableInv, Phases
  <1>3. \A k \in Key, v \in Value : Shows(k, v)' <=> Shows(k, v)
    BY <1>1, <1>2 DEF Shows, Has, Adding
  <1> QED BY <1>3, SameMap

LEMMA AddSame ==
  ASSUME TableInv, TableInv', NEW l \in Key, NEW w \in Value, Add(l, w)
  PROVE  Map' = Map
  <1>1. ~InFlight /\ ~InFlight' /\ StillOld = {} /\ old = NoOld
    BY NoOldTable DEF Add, InFlight, StartInsert, TableInv, Phases
  <1>2. \/ Used' = Used /\ buckets' = buckets /\ StillOld' = {}
        \/ Used' = {} /\ old' = buckets /\ StillOld' = Used
    <2>1. CASE UNCHANGED <<tablevars, oldvars>>
      BY <1>1, <2>1 DEF Used, StillOld, NoOld, tablevars, oldvars
    <2>2. CASE /\ old' = buckets /\ oi' = 0 /\ pc' = "resize"
               /\ buckets' = [b \in 0 .. NewSize - 1 |-> Empty]
      <3>1. Used' = {}
        BY <2>2 DEF Used, Empty
      <3>2. \A b \in DOMAIN buckets : b \in Nat
        BY TableShape DEF TableInv, Place
      <3>3. StillOld' = Used
        BY <2>2, <3>2 DEF StillOld, Used
      <3> QED BY <2>2, <3>1, <3>3
    <2> QED BY <2>1, <2>2 DEF Add
  <1>3. \A k \in Key, v \in Value : Shows(k, v)' <=> Shows(k, v)
    BY <1>1, <1>2 DEF Shows, Has, Adding
  <1> QED BY <1>3, SameMap


(* An insertion shows the same values until it ends. *)
LEMMA InsertNextSame ==
  ASSUME TableInv, TableInv', InsertNext
  PROVE  Map' = Map
  <1>1. /\ Used' = Used /\ buckets' = buckets /\ StillOld' = StillOld /\ old' = old
        /\ InFlight' = InFlight /\ key' = key /\ Resizing' = Resizing
    BY DEF InsertNext, Used, StillOld, InFlight, Resizing, tablevars, oldvars
  <1>2. entry'.key = entry.key /\ entry'.val = entry.val
    <2>1. entry \in Entry /\ entry.psl + 1 \in Nat
      BY DEF InsertNext, TableInv, Phases, Entry
    <2> QED BY <2>1, MovedEntry DEF InsertNext
  <1>3. \A k \in Key, v \in Value : Shows(k, v)' <=> Shows(k, v)
    BY <1>1, <1>2 DEF Shows, Has, Adding
  <1> QED BY <1>3, SameMap

LEMMA InsertSwapSame ==
  ASSUME TableInv, TableInv', InsertSwap
  PROVE  Map' = Map
  <1> DEFINE b0 == buckets[i]
  <1>1. Placing /\ pc = "insert" /\ b0.used /\ i \in Used
        /\ ~Holds(b0, key) /\ Richer(b0) /\ b0 \in Entry /\ b0.psl \in Nat
    BY Walking DEF InsertSwap, Placing
  <1>2. /\ Used' = Used /\ buckets'[i] = entry
        /\ \A b \in Used \ {i} : buckets'[b] = buckets[b]
    BY <1>1, PlacingTable
  <1>3. /\ StillOld' = StillOld /\ old' = old /\ InFlight' /\ key' = key
        /\ Resizing' = Resizing
    BY DEF InsertSwap, StillOld, InFlight, Resizing, oldvars
  <1>4. entry'.key = b0.key /\ entry'.val = b0.val
    <2>1. entry' = [b0 EXCEPT !.psl = b0.psl + 1] /\ b0.psl + 1 \in Nat
      BY <1>1 DEF InsertSwap
    <2> HIDE DEF b0
    <2> QED BY <1>1, <2>1, MovedEntry
  <1>5. \A k \in Key, v \in Value :
          Has(k, v)' <=> Has(k, v) \/ (entry.key = k /\ entry.val = v)
    BY <1>1, <1>2, <1>3, <1>4 DEF Has, InFlight
  <1>6. ASSUME ~placed, NEW v \in Value
        PROVE  ~Has(key, v) /\ entry.key = key /\ ~Resizing
    <2>1. entry.key = key /\ ~Resizing /\ StillOld = {}
      BY <1>1, <1>6, NoOldTable DEF TableInv, Phases
    <2>2. \A b \in Used : buckets[b].key # key
      BY <1>1, <1>6, KeyAbsent
    <2> QED BY <1>6, <2>1, <2>2 DEF Has, InFlight
  <1>7. \A k \in Key, v \in Value : Shows(k, v)' <=> Shows(k, v)
    <2>1. CASE placed
      BY <1>1, <1>3, <1>5, <2>1 DEF Shows, Adding, Has, InFlight
    <2>2. CASE ~placed
      BY <1>1, <1>3, <1>5, <1>6, <2>2 DEF Shows, Adding, InFlight
    <2> QED BY <2>1, <2>2 DEF TableInv, Table
  <1> QED BY <1>7, SameMap

LEMMA InsertDuplicateImplements ==
  ASSUME TableInv, TableInv', InsertDuplicate
  PROVE  Abstract!Add(key, request[2]) /\ key \in Key /\ request[2] \in Value
  <1>1. /\ pc = "insert" /\ ~placed /\ ~Resizing /\ old = NoOld
        /\ request \in Key \X Value /\ key \in Key
    BY NoSecondMeeting DEF InsertDuplicate, TableInv, Phases, Table
  <1>2. /\ Used' = Used /\ buckets' = buckets /\ old' = old /\ pc' = "idle"
        /\ ret' = <<key, buckets[i].val>>
    BY <1>1 DEF InsertDuplicate, EndInsert, Used, tablevars, oldvars
  <1>3. StillOld' = {} /\ StillOld = {} /\ ~InFlight' /\ ~InFlight
    BY <1>1, <1>2, NoOldTable DEF StillOld, NoOld, InFlight
  <1>4. \A k \in Key, v \in Value : Shows(k, v)' <=> Shows(k, v)
    BY <1>2, <1>3 DEF Shows, Has, Adding
  <1>5. Map' = Map
    BY <1>4, SameMap
  <1>6. i \in Used /\ buckets[i].key = key /\ buckets[i].val \in Value
    BY TableShape DEF TableInv, Table, InsertDuplicate, Holds
  <1>7. Map[key] = buckets[i].val /\ Map[key] # NoValue
    <2>1. Shows(key, buckets[i].val)
      BY <1>3, <1>6 DEF Shows, Has, Adding
    <2>2. Map[key] = buckets[i].val
      BY <1>1, <1>6, <2>1, MapIs
    <2> QED BY <1>6, <2>2, TableAssumption
  <1>8. Map' = [Map EXCEPT ![key] = IF @ = NoValue THEN request[2] ELSE @]
    BY <1>1, <1>5, <1>7, MapIs
  <1> QED BY <1>1, <1>2, <1>7, <1>8 DEF Abstract!Add

LEMMA InsertFreeSame ==
  ASSUME TableInv, TableInv', InsertFree, Resizing
  PROVE  Map' = Map
  <1>1. Placing /\ pc = "insert" /\ placed
    BY DEF InsertFree, Placing, Holds, TableInv, Phases
  <1>2. /\ Used' = Used \cup {i} /\ buckets'[i] = entry /\ i \notin Used
        /\ \A b \in Used : buckets'[b] = buckets[b]
    <2>1. i \notin Used
      BY DEF Used, InsertFree
    <2> QED BY <1>1, <2>1, PlacingTable
  <1>3. old' = old /\ oi' = oi + 1 /\ pc' = "resize"
    BY DEF InsertFree, EndInsert
  <1>4. StillOld' = StillOld
    BY <1>1, <1>3, StillOldPassed
  <1>5. InFlight /\ ~InFlight'
    BY <1>1, <1>3 DEF InFlight
  <1>6. \A k \in Key, v \in Value : Shows(k, v)' <=> Shows(k, v)
    BY <1>2, <1>3, <1>4, <1>5 DEF Shows, Has, Adding
  <1> QED BY <1>6, SameMap

(* The end of an insertion adds its pair to the map. *)
LEMMA InsertFreeImplements ==
  ASSUME TableInv, TableInv', InsertFree, ~Resizing
  PROVE  Abstract!Add(key, request[2]) /\ key \in Key /\ request[2] \in Value
  <1>1. /\ Placing /\ pc = "insert" /\ old = NoOld /\ request \in Key \X Value
        /\ key \in Key /\ StillOld = {} /\ key = request[1]
    BY NoOldTable DEF InsertFree, Placing, Holds, TableInv, Phases, Table
  <1>2. /\ Used' = Used \cup {i} /\ buckets'[i] = entry /\ i \notin Used
        /\ \A b \in Used : buckets'[b] = buckets[b]
    <2>1. i \notin Used
      BY DEF Used, InsertFree
    <2> QED BY <1>1, <2>1, PlacingTable
  <1>3. old' = old /\ pc' = "idle" /\ ret' = <<key, NoValue>>
    BY DEF InsertFree, EndInsert, oldvars
  <1>4. StillOld' = {} /\ ~InFlight'
    BY <1>1, <1>3 DEF StillOld, NoOld, InFlight
  <1>5. PICK c \in Key, w \in Value : c = key /\ w = request[2]
    BY <1>1
  <1> DEFINE InTable(k, v) == \E b \in Used : buckets[b].key = k /\ buckets[b].val = v
             Taken(k, v) == entry.key = k /\ entry.val = v
  <1>6. \A k \in Key, v \in Value :
           /\ Shows(k, v)' <=> InTable(k, v) \/ Taken(k, v)
           /\ Shows(k, v) <=> (InTable(k, v) \/ (placed /\ Taken(k, v))) /\ ~(placed /\ key = k)
    <2>1. \A k \in Key, v \in Value : Has(k, v)' <=> InTable(k, v) \/ Taken(k, v)
      BY <1>2, <1>4 DEF Has
    <2>2. \A k \in Key, v \in Value : Has(k, v) <=> InTable(k, v) \/ (placed /\ Taken(k, v))
      BY <1>1 DEF Has, InFlight
    <2> HIDE DEF InTable, Taken
    <2> QED BY <1>1, <1>4, <2>1, <2>2 DEF Shows, Adding, InFlight
  <1>7. /\ \A v \in Value : InTable(c, v) \/ Taken(c, v) <=> v = w
        /\ ~placed => \A v \in Value : ~InTable(c, v)
        /\ ~placed => entry.key = c
    <2>1. CASE placed
      <3>1. PICK b \in Used : buckets[b].key = key /\ buckets[b].val = w
        BY <1>1, <1>5, <2>1 DEF TableInv, Searches, Stored, InFlight
      <3>2. entry.key # key
        BY <1>1, <2>1, <3>1 DEF TableInv, Distinct, InFlight
      <3>3. \A d \in Used : buckets[d].key = key => d = b
        BY <3>1 DEF TableInv, Distinct
      <3> QED BY <1>5, <2>1, <3>1, <3>2, <3>3
    <2>2. CASE ~placed
      <3>1. entry.key = key /\ entry.val = w
        BY <1>1, <1>5, <2>2 DEF TableInv, Phases
      <3>2. \A b \in Used : buckets[b].key # key
        BY <1>1, <2>2, KeyAbsent DEF Placing
      <3> QED BY <1>5, <2>2, <3>1, <3>2
    <2> QED BY <2>1, <2>2
  <1>8. /\ \A v \in Value : ~Shows(c, v)
        /\ \A v \in Value : Shows(c, v)' <=> v = w
        /\ \A k \in Key \ {c}, v \in Value : Shows(k, v)' <=> Shows(k, v)
    <2>1. ~placed => \A k \in Key \ {c}, v \in Value : ~Taken(k, v)
      BY <1>7
    <2> HIDE DEF InTable, Taken
    <2>2. CASE placed
      BY <1>5, <1>6, <1>7, <2>2
    <2>3. CASE ~placed
      BY <1>5, <1>6, <1>7, <2>1, <2>3
    <2> QED BY <2>2, <2>3
  <1>9. /\ Map \in [Key -> Value \cup {NoValue}]
        /\ \A k \in Key, v \in Value : Map[k] = v <=> Shows(k, v)
    BY MapIs
  <1>10. /\ Map' \in [Key -> Value \cup {NoValue}]
        /\ \A k \in Key, v \in Value : Map'[k] = v <=> Shows(k, v)'
    <2>1. (TableInv => /\ Map \in [Key -> Value \cup {NoValue}]
                       /\ \A k \in Key, v \in Value : Map[k] = v <=> Shows(k, v))'
      BY MapIs, PTL
    <2> QED BY <2>1
  <1>11. Map[c] = NoValue
    BY <1>8, <1>9
  <1>12. Map'[c] = w
    BY <1>8, <1>10
  <1>13. ASSUME NEW k \in Key \ {c} PROVE Map'[k] = Map[k]
    <2>1. \A v \in Value : Map'[k] = v <=> Map[k] = v
      BY <1>8, <1>9, <1>10
    <2>2. Map'[k] \in Value \cup {NoValue} /\ Map[k] \in Value \cup {NoValue}
      BY <1>9, <1>10
    <2> QED BY <2>1, <2>2
  <1>14. Map' = [Map EXCEPT ![key] = IF @ = NoValue THEN request[2] ELSE @]
    BY <1>5, <1>9, <1>10, <1>11, <1>12, <1>13
  <1> QED BY <1>1, <1>3, <1>5, <1>11, <1>14 DEF Abstract!Add

LEMMA StepImplements ==
  TableInv /\ TableInv' /\ [Next]_vars => [Abstract!Next]_<<Map, ret>>
  <1> SUFFICES ASSUME TableInv, TableInv', [Next]_vars
               PROVE  Abstract!Next \/ UNCHANGED <<Map, ret>>
    OBVIOUS
  <1>1. CASE (\E k \in Key : Get(k)) \/ GetHit \/ GetMiss \/ GetNext
    BY <1>1, LookupImplements DEF Abstract!Next
  <1>2. ASSUME NEW k \in Key, NEW v \in Value, Add(k, v)
        PROVE  UNCHANGED <<Map, ret>>
    BY <1>2, AddSame DEF Add
  <1>3. CASE InsertDuplicate
    BY <1>3, InsertDuplicateImplements DEF Abstract!Next
  <1>4. CASE InsertSwap
    BY <1>4, InsertSwapSame DEF InsertSwap
  <1>5. CASE InsertNext
    BY <1>5, InsertNextSame DEF InsertNext
  <1>6. CASE InsertFree
    <2>1. CASE Resizing
      BY <1>6, <2>1, InsertFreeSame DEF InsertFree, EndInsert
    <2>2. CASE ~Resizing
      BY <1>6, <2>2, InsertFreeImplements DEF Abstract!Next
    <2> QED BY <2>1, <2>2
  <1>7. CASE ResizeSkip
    BY <1>7, ResizeSkipSame DEF ResizeSkip
  <1>8. CASE ResizeMove
    BY <1>8, ResizeMoveSame DEF ResizeMove
  <1>9. CASE ResizeEnd
    BY <1>9, ResizeEndSame DEF ResizeEnd
  <1>10. CASE UNCHANGED vars
    <2>1. Used' = Used /\ StillOld' = StillOld /\ InFlight' = InFlight /\ Resizing' = Resizing
      BY <1>10 DEF vars, tablevars, oldvars, Used, StillOld, InFlight, Resizing
    <2>2. \A k \in Key, v \in Value : Shows(k, v)' <=> Shows(k, v)
      BY <1>10, <2>1 DEF vars, tablevars, oldvars, Shows, Has, Adding
    <2>3. ret' = ret
      BY <1>10 DEF vars
    <2> QED BY <2>2, <2>3, SameMap
  <1> QED BY <1>1, <1>2, <1>3, <1>4, <1>5, <1>6, <1>7, <1>8, <1>9, <1>10
         DEF Next, Call, Step

LEMMA InitImplements == Init => Abstract!Init
  <1> SUFFICES ASSUME Init PROVE Abstract!Init
    OBVIOUS
  <1>1. Used = {} /\ StillOld = {} /\ ~InFlight
    BY DEF Init, Used, StillOld, NoOld, Empty, InFlight
  <1>2. \A k \in Key : Present(k) = {}
    BY <1>1 DEF Present, Entries
  <1>3. Map = [k \in Key |-> NoValue]
    BY <1>2 DEF Map
  <1> QED BY <1>3 DEF Init, Abstract!Init

(***************************************************************************)
(* au_hm_vars_get and au_hm_vars_add answer as a map would, whose entries  *)
(* stay what they were when they were added, for all keys and hashes: the  *)
(* probing, swapping and growing of the table is never seen.               *)
(***************************************************************************)
THEOREM Refinement == Spec => ImplementsMap
  <1>1. Init => Abstract!Init
    BY InitImplements
  <1>2. TableInv /\ TableInv' /\ [Next]_vars => [Abstract!Next]_<<Map, ret>>
    BY StepImplements
  <1> QED BY <1>1, <1>2, Invariant, PTL DEF Spec, ImplementsMap, Abstract!Spec

=============================================================================
