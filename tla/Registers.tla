------------------------------ MODULE Registers ------------------------------
(***************************************************************************)
(* The register allocator of the parser (regs.c).  A state of the          *)
(* allocator is a record: the stack of registers that hold operands, the   *)
(* registers in use, the pinned ones, the register that caches each local, *)
(* whether an allocation failed and whether its assertion has held.        *)
(***************************************************************************)
EXTENDS Integers, Sequences, SequencesExt

CONSTANT NumRegs        \* AU_REGS, 256 in the code

ASSUME NumRegsAssumption == NumRegs \in Nat \ {0}

Reg == 0 .. NumRegs - 1

(* Mutant of NoReg: the number of registers, which is no byte. *)
NoRegPast == NumRegs

\* CACHED_REG_NONE is (uint8_t)-1, which is also the number of the last register.
NoReg == NumRegs - 1

RegState == [rstack : Seq(Reg), used : SUBSET Reg, pinned : SUBSET Reg,
             cache : Seq(Reg), full : BOOLEAN, sound : BOOLEAN]

NoRegsUsed == [rstack |-> <<>>, used |-> {}, pinned |-> {}, cache |-> <<>>,
               full |-> FALSE, sound |-> TRUE]

LastReg(p) == p.rstack[Len(p.rstack)]

(* Mutant of PushReg: the register is not marked as used. *)
PushUnused(p, r) == [p EXCEPT !.rstack = Append(@, r)]

PushReg(p, r) == [p EXCEPT !.rstack = Append(@, r), !.used = @ \union {r}]

Lowest(R) == CHOOSE r \in R : \A q \in R : r <= q

NewReg(p) ==
    IF Len(p.rstack) < NumRegs /\ p.used # Reg
    THEN PushReg(p, Lowest(Reg \ p.used))
    ELSE [p EXCEPT !.full = TRUE]

SwapTop(p) ==
    LET n == Len(p.rstack)
    IN  [p EXCEPT !.rstack[n] = p.rstack[n - 1], !.rstack[n - 1] = p.rstack[n]]

\* The assertion of set_reg_unused is about registers that are not pinned.
SetUnused(p, r) ==
    IF r \in p.pinned THEN p
    ELSE [p EXCEPT !.sound = @ /\ r \in p.used, !.used = @ \ {r}]

PopReg(p) == SetUnused([p EXCEPT !.rstack = Front(@)], LastReg(p))

(* Mutants of FlushCached: nothing is forgotten; the registers are freed as well. *)
FlushNothing(p) == p
FlushAndFree(p) ==
    [p EXCEPT !.cache = [l \in DOMAIN @ |-> NoReg], !.pinned = {}, !.used = @ \ p.pinned]

FlushCached(p) == [p EXCEPT !.cache = [l \in DOMAIN @ |-> NoReg], !.pinned = {}]

FlushFree(p) == [p EXCEPT !.rstack = <<>>, !.used = p.pinned]

\* pop_reg_take_ownership: the register popped, and whether the taker owns it.
TopOwned(p) == [reg |-> LastReg(p), owned |-> LastReg(p) \notin p.pinned]
TakeTop(p) == [p EXCEPT !.rstack = Front(@), !.pinned = @ \union {LastReg(p)}]

OwnedRegs(os) == {o.reg : o \in {q \in Range(os) : q.owned}}

\* One after the other or all at once: a register is in the list once, or not owned.
Release(p, R) == [p EXCEPT !.pinned = @ \ R, !.used = @ \ R]
ReleaseAll(p, os) == Release(p, OwnedRegs(os))

\* set_reg_unused for each: a register that is there twice must be pinned.
SetAllUnused(p, os) ==
    LET R == {o.reg : o \in Range(os)} \ p.pinned
        once == \A i, j \in DOMAIN os : os[i].reg = os[j].reg /\ os[i].reg \in R => i = j
    IN  [p EXCEPT !.sound = @ /\ R \subseteq p.used /\ once, !.used = @ \ R]

-----------------------------------------------------------------------------
(* local_to_reg, as the expressions use it. *)

CachedReg(p, l) == IF l < Len(p.cache) THEN p.cache[l + 1] ELSE NoReg

\* The array is grown up to a local when the local is first read.
Grown(p, l) ==
    IF l < Len(p.cache) THEN p
    ELSE [p EXCEPT !.cache =
             [i \in 1 .. l + 1 |-> IF i <= Len(p.cache) THEN p.cache[i] ELSE NoReg]]

(* Mutant of CacheStored: the new cached register is not pinned. *)
CacheUnpinned(p, l, r) ==
    IF l < Len(p.cache)
    THEN [p EXCEPT !.cache[l + 1] = r, !.pinned = @ \ {p.cache[l + 1]}]
    ELSE p

\* A store from register r makes it the cached one, if the array has the local.
CacheStored(p, l, r) ==
    IF l < Len(p.cache)
    THEN [p EXCEPT !.cache[l + 1] = r, !.pinned = (@ \ {p.cache[l + 1]}) \union {r}]
    ELSE p

Sharers(p, r) == {l \in DOMAIN p.cache : p.cache[l] = r /\ r # NoReg}
=============================================================================
