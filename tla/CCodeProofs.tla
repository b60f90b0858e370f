---------------------------- MODULE CCodeProofs ----------------------------
(* The counts of compiled programs: for any number of blocks, registers and *)
(* nested calls.                                                            *)
EXTENDS CCode, FiniteSetTheorems, SequenceTheorems, TLAPS

-----------------------------------------------------------------------------
(* Counting the places that hold a block.                                   *)

LEMMA OneOrNone == \A v, b : One(v, b) \in {0, 1}
  BY DEF One

\* How many of the places D hold b, when f is their content.
Tally(D, f, b) == Cardinality({y \in D : f[y] = b})

\* One place x apart from the others.
LEMMA TallySplit ==
  ASSUME NEW D, IsFiniteSet(D), NEW f, NEW x \in D, NEW b
  PROVE  /\ Tally(D \ {x}, f, b) \in Nat
         /\ Tally(D, f, b) = Tally(D \ {x}, f, b) + One(f[x], b)
  <1>1. PICK S : S = {y \in D \ {x} : f[y] = b}
    OBVIOUS
  <1>2. PICK T : T = {y \in D : f[y] = b}
    OBVIOUS
  <1>3. IsFiniteSet(S) /\ x \notin S
    BY <1>1, FS_Subset
  <1>4. Cardinality(S) \in Nat /\ Cardinality(S \cup {x}) = Cardinality(S) + 1
    BY <1>3, FS_AddElement, FS_CardinalityType
  <1>5. T = IF f[x] = b THEN S \cup {x} ELSE S
    BY <1>1, <1>2
  <1>6. Cardinality(T) = Cardinality(S) + One(f[x], b)
    BY <1>4, <1>5 DEF One
  <1> QED BY <1>1, <1>2, <1>4, <1>6 DEF Tally

LEMMA TallySame ==
  ASSUME NEW D, NEW f, NEW g, NEW b, \A y \in D : g[y] = f[y]
  PROVE  Tally(D, g, b) = Tally(D, f, b)
  <1>1. PICK S : S = {y \in D : f[y] = b}
    OBVIOUS
  <1>2. PICK T : T = {y \in D : g[y] = b}
    OBVIOUS
  <1>3. \A y \in D : g[y] = b <=> f[y] = b
    OBVIOUS
  <1>4. \A y : y \in S <=> y \in T
    BY ONLY <1>1, <1>2, <1>3
  <1>5. S = T
    BY ONLY <1>4
  <1> QED BY <1>1, <1>2, <1>5 DEF Tally

LEMMA TallyNat ==
  ASSUME NEW D, IsFiniteSet(D), NEW f, NEW b
  PROVE  Tally(D, f, b) \in Nat
  BY FS_Subset, FS_CardinalityType DEF Tally

LEMMA TallyPositive ==
  ASSUME NEW D, IsFiniteSet(D), NEW f, NEW x \in D, NEW b, f[x] = b
  PROVE  Tally(D, f, b) > 0
  <1>1. Tally(D \ {x}, f, b) \in Nat
        /\ Tally(D, f, b) = Tally(D \ {x}, f, b) + One(f[x], b)
    BY TallySplit
  <1>2. One(f[x], b) = 1
    BY DEF One
  <1> QED BY ONLY <1>1, <1>2

\* Of the places D, the only one whose content differs between f and g is x.
LEMMA TallyChange ==
  ASSUME NEW D, IsFiniteSet(D), NEW f, NEW g, NEW x \in D, NEW b,
         \A y \in D : y # x => g[y] = f[y]
  PROVE  Tally(D, g, b) + One(f[x], b) = Tally(D, f, b) + One(g[x], b)
  <1>1. Tally(D \ {x}, g, b) = Tally(D \ {x}, f, b)
    BY TallySame
  <1>2. /\ Tally(D \ {x}, f, b) \in Nat
        /\ Tally(D, f, b) = Tally(D \ {x}, f, b) + One(f[x], b)
        /\ Tally(D, g, b) = Tally(D \ {x}, g, b) + One(g[x], b)
    BY TallySplit
  <1> QED BY <1>1, <1>2, OneOrNone

\* One more place x.
LEMMA TallyMore ==
  ASSUME NEW D, IsFiniteSet(D), NEW x, x \notin D, NEW E, E = D \cup {x},
         NEW f, NEW g, NEW b, \A y \in D : g[y] = f[y]
  PROVE  Tally(E, g, b) = Tally(D, f, b) + One(g[x], b)
  <1>1. x \in E /\ E \ {x} = D
    OBVIOUS
  <1>2. IsFiniteSet(E)
    BY FS_AddElement
  <1>3. Tally(E, g, b) = Tally(E \ {x}, g, b) + One(g[x], b)
    BY <1>1, <1>2, TallySplit
  <1>4. Tally(D, g, b) = Tally(D, f, b)
    BY TallySame
  <1> QED BY <1>1, <1>3, <1>4

\* Pairing the members of a set with one value.
LEMMA TallyRow ==
  ASSUME NEW S, IsFiniteSet(S), NEW n
  PROVE  /\ IsFiniteSet({n} \X S)
         /\ Cardinality({n} \X S) = Cardinality(S)
  <1>1. IsFiniteSet({n}) /\ Cardinality({n}) = 1
    BY FS_Singleton
  <1>2. Cardinality({n} \X S) = 1 * Cardinality(S) /\ Cardinality(S) \in Nat
    BY <1>1, FS_Product, FS_CardinalityType
  <1> QED BY <1>1, <1>2, FS_Product

-----------------------------------------------------------------------------
(* What the frames hold.                                                    *)

Regs_(fs)   == [p \in (DOMAIN fs) \X Regs |-> fs[p[1]].regs[p[2]]]
Locals_(fs) == [i \in DOMAIN fs |-> fs[i].local]
Selves_(fs) == [i \in DOMAIN fs |-> fs[i].self]
Afters_(fs) == [i \in DOMAIN fs |-> fs[i].after]

InFrames(fs, b) ==
  Tally((DOMAIN fs) \X Regs, Regs_(fs), b) + Tally(DOMAIN fs, Locals_(fs), b)
    + Tally(DOMAIN fs, Selves_(fs), b) + Tally(DOMAIN fs, Afters_(fs), b)

InFrame(f, b) ==
  Tally(Regs, f.regs, b) + One(f.local, b) + One(f.self, b) + One(f.after, b)

LEMMA FramesFinite ==
  ASSUME NEW fs \in Seq(Frames)
  PROVE  /\ IsFiniteSet(DOMAIN fs) /\ IsFiniteSet((DOMAIN fs) \X Regs)
         /\ IsFiniteSet(Regs) /\ IsFiniteSet(Blocks)
  <1>1. DOMAIN fs = 1 .. Len(fs) /\ Len(fs) \in Nat
    OBVIOUS
  <1>2. IsFiniteSet(DOMAIN fs)
    BY <1>1, FS_Interval
  <1> QED BY <1>2, FS_Product, CCodeAssumption

LEMMA InFramesNat ==
  ASSUME NEW fs \in Seq(Frames), NEW b
  PROVE  /\ Tally((DOMAIN fs) \X Regs, Regs_(fs), b) \in Nat
         /\ Tally(DOMAIN fs, Locals_(fs), b) \in Nat
         /\ Tally(DOMAIN fs, Selves_(fs), b) \in Nat
         /\ Tally(DOMAIN fs, Afters_(fs), b) \in Nat
         /\ InFrames(fs, b) \in Nat
  <1>1. IsFiniteSet(DOMAIN fs) /\ IsFiniteSet((DOMAIN fs) \X Regs)
    BY FramesFinite
  <1>2. /\ Tally((DOMAIN fs) \X Regs, Regs_(fs), b) \in Nat
        /\ Tally(DOMAIN fs, Locals_(fs), b) \in Nat
        /\ Tally(DOMAIN fs, Selves_(fs), b) \in Nat
        /\ Tally(DOMAIN fs, Afters_(fs), b) \in Nat
    BY ONLY <1>1, TallyNat
  <1> QED BY <1>2 DEF InFrames

LEMMA InFramesIsNat ==
  ASSUME NEW fs \in Seq(Frames), NEW b
  PROVE  InFrames(fs, b) \in Nat
  BY InFramesNat

LEMMA InFrameNat ==
  ASSUME NEW f \in Frames, NEW b
  PROVE  Tally(Regs, f.regs, b) \in Nat /\ InFrame(f, b) \in Nat
  BY TallyNat, OneOrNone, CCodeAssumption DEF InFrame

\* A register of one frame is written.
SetReg(fs, i, r, v) == [fs EXCEPT ![i].regs[r] = v]

LEMMA RegWritten ==
  ASSUME NEW fs \in Seq(Frames), NEW i \in DOMAIN fs, NEW r \in Regs,
         NEW v \in Values, NEW gs, gs = SetReg(fs, i, r, v), NEW b
  PROVE  /\ gs \in Seq(Frames) /\ Len(gs) = Len(fs) /\ DOMAIN gs = DOMAIN fs
         /\ \A j \in DOMAIN fs : gs[j].into = fs[j].into
         /\ InFrames(gs, b) + One(fs[i].regs[r], b)
              = InFrames(fs, b) + One(v, b)
  <1>1. fs[i] \in Frames
    OBVIOUS
  <1>2. [fs[i] EXCEPT !.regs[r] = v] \in Frames
    BY <1>1 DEF Frames
  <1>3. /\ gs \in Seq(Frames) /\ Len(gs) = Len(fs) /\ DOMAIN gs = DOMAIN fs
        /\ \A j \in DOMAIN fs :
             gs[j] = IF j = i THEN [fs[i] EXCEPT !.regs[r] = v] ELSE fs[j]
    BY <1>2, ExceptSeq DEF SetReg
  <1>4. \A j \in DOMAIN fs :
          /\ gs[j].local = fs[j].local /\ gs[j].self = fs[j].self
          /\ gs[j].after = fs[j].after /\ gs[j].into = fs[j].into
    BY <1>1, <1>3 DEF Frames
  <1>5. /\ Locals_(gs) = Locals_(fs) /\ Selves_(gs) = Selves_(fs)
        /\ Afters_(gs) = Afters_(fs)
    BY <1>3, <1>4 DEF Locals_, Selves_, Afters_
  <1> DEFINE D == (DOMAIN fs) \X Regs
  <1>6. \A p \in D : p # <<i, r>> => Regs_(gs)[p] = Regs_(fs)[p]
    BY <1>1, <1>3 DEF Regs_, Frames
  <1>7. Regs_(gs)[<<i, r>>] = v /\ Regs_(fs)[<<i, r>>] = fs[i].regs[r]
    BY <1>1, <1>3 DEF Regs_, Frames
  <1>8. Tally(D, Regs_(gs), b) + One(fs[i].regs[r], b)
          = Tally(D, Regs_(fs), b) + One(v, b)
    <2>1. PICK f : f = Regs_(fs)
      OBVIOUS
    <2>2. PICK g : g = Regs_(gs)
      OBVIOUS
    <2>3. IsFiniteSet(D) /\ <<i, r>> \in D
      BY FramesFinite
    <2>4. \A y \in D : y # <<i, r>> => g[y] = f[y]
      BY <1>6, <2>1, <2>2
    <2> HIDE DEF D
    <2>5. Tally(D, g, b) + One(f[<<i, r>>], b) = Tally(D, f, b) + One(g[<<i, r>>], b)
      BY ONLY <2>3, <2>4, TallyChange
    <2> QED BY ONLY <1>7, <2>1, <2>2, <2>5
  <1>9. InFrames(gs, b) + One(fs[i].regs[r], b) = InFrames(fs, b) + One(v, b)
    <2>1. PICK k : k = Tally((DOMAIN fs) \X Regs, Regs_(gs), b)
                         + Tally(DOMAIN fs, Locals_(gs), b)
                         + Tally(DOMAIN fs, Selves_(gs), b)
                         + Tally(DOMAIN fs, Afters_(gs), b)
      OBVIOUS
    <2>2. InFrames(gs, b) = k
      BY ONLY <1>3, <2>1 DEF InFrames
    <2>3. gs \in Seq(Frames) /\ DOMAIN gs = DOMAIN fs
      BY <1>3
    <2>4. /\ Tally((DOMAIN fs) \X Regs, Regs_(gs), b) \in Nat
          /\ Tally(DOMAIN fs, Locals_(gs), b) \in Nat
      BY ONLY <2>3, InFramesNat
    <2>5. /\ Tally((DOMAIN fs) \X Regs, Regs_(fs), b) \in Nat
          /\ Tally(DOMAIN fs, Locals_(fs), b) \in Nat
          /\ Tally(DOMAIN fs, Selves_(fs), b) \in Nat
          /\ Tally(DOMAIN fs, Afters_(fs), b) \in Nat
      BY InFramesNat
    <2>6. One(fs[i].regs[r], b) \in Nat /\ One(v, b) \in Nat
      BY OneOrNone
    <2>7. k = Tally((DOMAIN fs) \X Regs, Regs_(gs), b)
                + Tally(DOMAIN fs, Locals_(fs), b)
                + Tally(DOMAIN fs, Selves_(fs), b)
                + Tally(DOMAIN fs, Afters_(fs), b)
      BY ONLY <1>5, <2>1
    <2>8. PICK a, e, l, m, n \in Nat :
            /\ a = Tally((DOMAIN fs) \X Regs, Regs_(fs), b)
            /\ e = Tally((DOMAIN fs) \X Regs, Regs_(gs), b)
            /\ l = Tally(DOMAIN fs, Locals_(fs), b)
            /\ m = Tally(DOMAIN fs, Selves_(fs), b)
            /\ n = Tally(DOMAIN fs, Afters_(fs), b)
      BY ONLY <2>4, <2>5
    <2>9. k = e + l + m + n /\ InFrames(fs, b) = a + l + m + n
      BY ONLY <2>7, <2>8 DEF InFrames
    <2>10. PICK o, w \in Nat : o = One(fs[i].regs[r], b) /\ w = One(v, b)
      BY ONLY <2>6
    <2>11. e + o = a + w
      BY ONLY <1>8, <2>8, <2>10
    <2>12. e + l + m + n + o = a + l + m + n + w
      BY ONLY <2>11, a \in Nat, e \in Nat, l \in Nat, m \in Nat, n \in Nat,
              o \in Nat, w \in Nat
    <2> QED BY ONLY <2>2, <2>9, <2>10, <2>12
  <1> QED BY <1>3, <1>4, <1>9

\* The local of one frame is written.
SetLocal(fs, i, v) == [fs EXCEPT ![i].local = v]

LEMMA LocalWritten ==
  ASSUME NEW fs \in Seq(Frames), NEW i \in DOMAIN fs, NEW v \in Values,
         NEW gs, gs = SetLocal(fs, i, v), NEW b
  PROVE  /\ gs \in Seq(Frames) /\ Len(gs) = Len(fs) /\ DOMAIN gs = DOMAIN fs
         /\ \A j \in DOMAIN fs : gs[j].into = fs[j].into
         /\ InFrames(gs, b) + One(fs[i].local, b)
              = InFrames(fs, b) + One(v, b)
  <1>1. fs[i] \in Frames
    OBVIOUS
  <1>2. [fs[i] EXCEPT !.local = v] \in Frames
    BY <1>1 DEF Frames
  <1>3. /\ gs \in Seq(Frames) /\ Len(gs) = Len(fs) /\ DOMAIN gs = DOMAIN fs
        /\ \A j \in DOMAIN fs :
             gs[j] = IF j = i THEN [fs[i] EXCEPT !.local = v] ELSE fs[j]
    BY <1>2, ExceptSeq DEF SetLocal
  <1>4. \A j \in DOMAIN fs :
          /\ gs[j].regs = fs[j].regs /\ gs[j].self = fs[j].self
          /\ gs[j].after = fs[j].after /\ gs[j].into = fs[j].into
    BY <1>1, <1>3 DEF Frames
  <1>5. /\ Regs_(gs) = Regs_(fs) /\ Selves_(gs) = Selves_(fs)
        /\ Afters_(gs) = Afters_(fs)
    BY <1>3, <1>4 DEF Regs_, Selves_, Afters_
  <1> DEFINE D == DOMAIN fs
  <1>6. \A j \in D : j # i => Locals_(gs)[j] = Locals_(fs)[j]
    BY <1>3 DEF Locals_
  <1>7. Locals_(gs)[i] = v /\ Locals_(fs)[i] = fs[i].local
    BY <1>1, <1>3 DEF Locals_, Frames
  <1>8. Tally(D, Locals_(gs), b) + One(fs[i].local, b)
          = Tally(D, Locals_(fs), b) + One(v, b)
    <2>1. PICK f : f = Locals_(fs)
      OBVIOUS
    <2>2. PICK g : g = Locals_(gs)
      OBVIOUS
    <2>3. IsFiniteSet(D) /\ i \in D
      BY FramesFinite
    <2>4. \A y \in D : y # i => g[y] = f[y]
      BY <1>6, <2>1, <2>2
    <2> HIDE DEF D
    <2>5. Tally(D, g, b) + One(f[i], b) = Tally(D, f, b) + One(g[i], b)
      BY ONLY <2>3, <2>4, TallyChange
    <2> QED BY ONLY <1>7, <2>1, <2>2, <2>5
  <1>9. InFrames(gs, b) + One(fs[i].local, b) = InFrames(fs, b) + One(v, b)
    <2>1. PICK k : k = Tally((DOMAIN fs) \X Regs, Regs_(gs), b)
                         + Tally(DOMAIN fs, Locals_(gs), b)
                         + Tally(DOMAIN fs, Selves_(gs), b)
                         + Tally(DOMAIN fs, Afters_(gs), b)
      OBVIOUS
    <2>2. InFrames(gs, b) = k
      BY ONLY <1>3, <2>1 DEF InFrames
    <2>3. gs \in Seq(Frames) /\ DOMAIN gs = DOMAIN fs
      BY <1>3
    <2>4. /\ Tally((DOMAIN fs) \X Regs, Regs_(gs), b) \in Nat
          /\ Tally(DOMAIN fs, Locals_(gs), b) \in Nat
      BY ONLY <2>3, InFramesNat
    <2>5. /\ Tally((DOMAIN fs) \X Regs, Regs_(fs), b) \in Nat
          /\ Tally(DOMAIN fs, Locals_(fs), b) \in Nat
          /\ Tally(DOMAIN fs, Selves_(fs), b) \in Nat
          /\ Tally(DOMAIN fs, Afters_(fs), b) \in Nat
      BY InFramesNat
    <2>6. One(fs[i].local, b) \in Nat /\ One(v, b) \in Nat
      BY OneOrNone
    <2>7. k = Tally((DOMAIN fs) \X Regs, Regs_(fs), b)
                + Tally(DOMAIN fs, Locals_(gs), b)
                + Tally(DOMAIN fs, Selves_(fs), b)
                + Tally(DOMAIN fs, Afters_(fs), b)
      BY ONLY <1>5, <2>1
    <2>8. PICK a, e, l, m, n \in Nat :
            /\ a = Tally(DOMAIN fs, Locals_(fs), b)
            /\ e = Tally(DOMAIN fs, Locals_(gs), b)
            /\ l = Tally((DOMAIN fs) \X Regs, Regs_(fs), b)
            /\ m = Tally(DOMAIN fs, Selves_(fs), b)
            /\ n = Tally(DOMAIN fs, Afters_(fs), b)
      BY ONLY <2>4, <2>5
    <2>9. k = l + e + m + n /\ InFrames(fs, b) = l + a + m + n
      BY ONLY <2>7, <2>8 DEF InFrames
    <2>10. PICK o, w \in Nat : o = One(fs[i].local, b) /\ w = One(v, b)
      BY ONLY <2>6
    <2>11. e + o = a + w
      BY ONLY <1>8, <2>8, <2>10
    <2>12. l + e + m + n + o = l + a + m + n + w
      BY ONLY <2>11, a \in Nat, e \in Nat, l \in Nat, m \in Nat, n \in Nat,
              o \in Nat, w \in Nat
    <2> QED BY ONLY <2>2, <2>9, <2>10, <2>12
  <1> QED BY <1>3, <1>4, <1>9

\* A function is called.
Push(fs, arg, self, into, after) == Append(fs, Frame(arg, self, into, after))

LEMMA FramePushed ==
  ASSUME NEW fs \in Seq(Frames), NEW arg \in Values, NEW self \in Values,
         NEW into \in Regs \cup {None}, NEW after \in Values,
         NEW gs, gs = Push(fs, arg, self, into, after), NEW b \in Blocks
  PROVE  /\ gs \in Seq(Frames) /\ Len(gs) = Len(fs) + 1
         /\ \A i \in DOMAIN fs : gs[i] = fs[i]
         /\ gs[Len(gs)].into = into
         /\ InFrames(gs, b)
              = InFrames(fs, b) + One(arg, b) + One(self, b) + One(after, b)
  <1> DEFINE f == Frame(arg, self, into, after)
  <1>1. PICK n \in Nat : n = Len(fs) /\ DOMAIN fs = 1 .. n
    OBVIOUS
  <1>2. f \in Frames /\ \A r \in Regs : f.regs[r] = None
    BY DEF Frame, Frames, Values
  <1>3. f.local = arg /\ f.self = self /\ f.after = after /\ f.into = into
    BY DEF Frame
  <1>4. /\ gs \in Seq(Frames) /\ Len(gs) = n + 1 /\ DOMAIN gs = (DOMAIN fs) \cup {n + 1}
        /\ \A i \in DOMAIN fs : gs[i] = fs[i]
        /\ gs[n + 1] = f
    BY <1>1, <1>2, AppendProperties DEF Push
  <1>5. n + 1 \notin DOMAIN fs
    BY <1>1
  <1> HIDE DEF f
  <1>6. Tally((DOMAIN gs) \X Regs, Regs_(gs), b) = Tally((DOMAIN fs) \X Regs, Regs_(fs), b)
    <2>1. \A p \in (DOMAIN gs) \X Regs :
            Regs_(gs)[p] = b <=> (p[1] \in DOMAIN fs /\ Regs_(fs)[p] = b)
      <3> SUFFICES ASSUME NEW i \in DOMAIN gs, NEW r \in Regs
                   PROVE  Regs_(gs)[<<i, r>>] = b
                            <=> (i \in DOMAIN fs /\ Regs_(fs)[<<i, r>>] = b)
        OBVIOUS
      <3>1. CASE i \in DOMAIN fs
        BY <1>4, <3>1 DEF Regs_
      <3>2. CASE i = n + 1
        <4>1. Regs_(gs)[<<i, r>>] = None
          BY <1>2, <1>4, <3>2 DEF Regs_
        <4> QED BY <1>5, <3>2, <4>1, CCodeAssumption
      <3> QED BY <1>4, <3>1, <3>2
    <2>2. {p \in (DOMAIN gs) \X Regs : Regs_(gs)[p] = b}
            = {p \in (DOMAIN fs) \X Regs : Regs_(fs)[p] = b}
      BY <1>4, <2>1
    <2> QED BY <2>2 DEF Tally
  <1>7. Tally(DOMAIN gs, Locals_(gs), b) = Tally(DOMAIN fs, Locals_(fs), b) + One(arg, b)
    <2>1. /\ \A i \in DOMAIN fs : Locals_(gs)[i] = Locals_(fs)[i]
          /\ Locals_(gs)[n + 1] = arg
      BY <1>3, <1>4 DEF Locals_
    <2>2. IsFiniteSet(DOMAIN fs)
      BY FramesFinite
    <2> QED BY ONLY <1>4, <1>5, <2>1, <2>2, TallyMore
  <1>8. Tally(DOMAIN gs, Selves_(gs), b) = Tally(DOMAIN fs, Selves_(fs), b) + One(self, b)
    <2>1. /\ \A i \in DOMAIN fs : Selves_(gs)[i] = Selves_(fs)[i]
          /\ Selves_(gs)[n + 1] = self
      BY <1>3, <1>4 DEF Selves_
    <2>2. IsFiniteSet(DOMAIN fs)
      BY FramesFinite
    <2> QED BY ONLY <1>4, <1>5, <2>1, <2>2, TallyMore
  <1>9. Tally(DOMAIN gs, Afters_(gs), b) = Tally(DOMAIN fs, Afters_(fs), b) + One(after, b)
    <2>1. /\ \A i \in DOMAIN fs : Afters_(gs)[i] = Afters_(fs)[i]
          /\ Afters_(gs)[n + 1] = after
      BY <1>3, <1>4 DEF Afters_
    <2>2. IsFiniteSet(DOMAIN fs)
      BY FramesFinite
    <2> QED BY ONLY <1>4, <1>5, <2>1, <2>2, TallyMore
  <1>10. InFrames(gs, b) = InFrames(fs, b) + One(arg, b) + One(self, b) + One(after, b)
    <2>1. One(arg, b) \in Nat /\ One(self, b) \in Nat /\ One(after, b) \in Nat
      BY OneOrNone
    <2>2. /\ Tally((DOMAIN fs) \X Regs, Regs_(fs), b) \in Nat
          /\ Tally(DOMAIN fs, Locals_(fs), b) \in Nat
          /\ Tally(DOMAIN fs, Selves_(fs), b) \in Nat
          /\ Tally(DOMAIN fs, Afters_(fs), b) \in Nat
      BY InFramesNat
    <2> QED BY ONLY <1>6, <1>7, <1>8, <1>9, <2>1, <2>2 DEF InFrames
  <1> QED BY <1>1, <1>3, <1>4, <1>10

\* A function has returned.
Pop(fs) == SubSeq(fs, 1, Len(fs) - 1)

LEMMA FramePopped ==
  ASSUME NEW fs \in Seq(Frames), NEW n \in Nat, n = Len(fs), n > 0,
         NEW gs, gs = Pop(fs), NEW b
  PROVE  /\ gs \in Seq(Frames) /\ Len(gs) = n - 1
         /\ \A i \in 1 .. n - 1 : gs[i] = fs[i]
         /\ fs[n] \in Frames
         /\ InFrames(fs, b) = InFrames(gs, b) + InFrame(fs[n], b)
  <1>1. DOMAIN fs = 1 .. n
    OBVIOUS
  <1>3. PICK f \in Frames : f = fs[n]
    BY <1>1
  <1>4. /\ gs \in Seq(Frames) /\ Len(gs) = n - 1
        /\ \A i \in 1 .. n - 1 : gs[i] = fs[i]
    BY <1>1, SubSeqProperties DEF Pop
  <1>5. /\ DOMAIN fs = (DOMAIN gs) \cup {n} /\ n \notin DOMAIN gs
    BY <1>1, <1>4
  <1>6. Tally((DOMAIN fs) \X Regs, Regs_(fs), b)
          = Tally((DOMAIN gs) \X Regs, Regs_(gs), b) + Tally(Regs, f.regs, b)
    <2>1. PICK S : S = {p \in (DOMAIN gs) \X Regs : Regs_(gs)[p] = b}
      OBVIOUS
    <2>2. PICK T : T = {r \in Regs : f.regs[r] = b}
      OBVIOUS
    <2>3. PICK U : U = {p \in (DOMAIN fs) \X Regs : Regs_(fs)[p] = b}
      OBVIOUS
    <2>4. U = S \cup ({n} \X T)
      <3> SUFFICES ASSUME NEW i, NEW r
                   PROVE  <<i, r>> \in U <=> <<i, r>> \in S \cup ({n} \X T)
        BY <2>1, <2>2, <2>3
      <3>1. <<i, r>> \in U <=> i \in DOMAIN fs /\ r \in Regs /\ fs[i].regs[r] = b
        BY <2>3 DEF Regs_
      <3>2. <<i, r>> \in S <=> i \in DOMAIN gs /\ r \in Regs /\ gs[i].regs[r] = b
        BY <2>1 DEF Regs_
      <3>3. <<i, r>> \in {n} \X T <=> i = n /\ r \in Regs /\ f.regs[r] = b
        BY <2>2
      <3> QED BY <1>3, <1>4, <1>5, <3>1, <3>2, <3>3
    <2>5. IsFiniteSet(S) /\ IsFiniteSet(T) /\ S \cap ({n} \X T) = {}
      BY <1>4, <1>5, <2>1, <2>2, FramesFinite, FS_Subset
    <2>6. PICK R : R = {n} \X T
      OBVIOUS
    <2>7. IsFiniteSet(R) /\ Cardinality(R) = Cardinality(T)
      BY <2>5, <2>6, TallyRow
    <2>8. Cardinality(S) \in Nat /\ Cardinality(T) \in Nat /\ Cardinality(S \cap R) = 0
      BY <2>5, <2>6, FS_CardinalityType, FS_EmptySet
    <2>9. U = S \cup R
      BY <2>4, <2>6
    <2>10. Cardinality(S \cup R) = Cardinality(S) + Cardinality(R) - Cardinality(S \cap R)
      BY ONLY <2>5, <2>7, FS_Union
    <2>11. Cardinality(U) = Cardinality(S) + Cardinality(T)
      BY ONLY <2>7, <2>8, <2>9, <2>10
    <2> QED BY <2>1, <2>2, <2>3, <2>11 DEF Tally
  <1>7. Tally(DOMAIN fs, Locals_(fs), b) = Tally(DOMAIN gs, Locals_(gs), b) + One(f.local, b)
    <2>1. /\ \A i \in DOMAIN gs : Locals_(fs)[i] = Locals_(gs)[i]
          /\ Locals_(fs)[n] = f.local
      BY <1>1, <1>3, <1>4, <1>5 DEF Locals_
    <2>2. IsFiniteSet(DOMAIN gs)
      BY <1>4, FramesFinite
    <2> QED BY ONLY <1>5, <2>1, <2>2, TallyMore
  <1>8. Tally(DOMAIN fs, Selves_(fs), b) = Tally(DOMAIN gs, Selves_(gs), b) + One(f.self, b)
    <2>1. /\ \A i \in DOMAIN gs : Selves_(fs)[i] = Selves_(gs)[i]
          /\ Selves_(fs)[n] = f.self
      BY <1>1, <1>3, <1>4, <1>5 DEF Selves_
    <2>2. IsFiniteSet(DOMAIN gs)
      BY <1>4, FramesFinite
    <2> QED BY ONLY <1>5, <2>1, <2>2, TallyMore
  <1>9. Tally(DOMAIN fs, Afters_(fs), b) = Tally(DOMAIN gs, Afters_(gs), b) + One(f.after, b)
    <2>1. /\ \A i \in DOMAIN gs : Afters_(fs)[i] = Afters_(gs)[i]
          /\ Afters_(fs)[n] = f.after
      BY <1>1, <1>3, <1>4, <1>5 DEF Afters_
    <2>2. IsFiniteSet(DOMAIN gs)
      BY <1>4, FramesFinite
    <2> QED BY ONLY <1>5, <2>1, <2>2, TallyMore
  <1>10. InFrames(fs, b) = InFrames(gs, b) + InFrame(f, b)
    <2>1. One(f.local, b) \in Nat /\ One(f.self, b) \in Nat /\ One(f.after, b) \in Nat
      BY OneOrNone
    <2>2. /\ Tally((DOMAIN gs) \X Regs, Regs_(gs), b) \in Nat
          /\ Tally(DOMAIN gs, Locals_(gs), b) \in Nat
          /\ Tally(DOMAIN gs, Selves_(gs), b) \in Nat
          /\ Tally(DOMAIN gs, Afters_(gs), b) \in Nat
      BY <1>4, InFramesNat
    <2>3. Tally(Regs, f.regs, b) \in Nat
      BY InFrameNat
    <2> QED BY ONLY <1>6, <1>7, <1>8, <1>9, <2>1, <2>2, <2>3 DEF InFrames, InFrame
  <1> QED BY <1>1, <1>3, <1>4, <1>10

-----------------------------------------------------------------------------
(* The invariant.                                                           *)

Heaps(n) == [rc : [Blocks -> 0 .. n], kind : [Blocks -> Kinds],
             cell : [Blocks -> Values], fault : BOOLEAN]

\* Every function but the top level was called into a register.
Callers == \A i \in DOMAIN frames : i > 1 => frames[i].into \in Regs

\* A block that was given back holds nothing, so that it can be born again.
FreedEmpty == \A b \in Blocks : heap.rc[b] = 0 => heap.cell[b] = None

CountInv == /\ TypeOK /\ Callers
            /\ ~heap.fault => FreedEmpty
            /\ Balance /\ FaultNeedsArgument

\* What holds a block, apart from the statements under way.
Stored(fs, h, c, b) == InFrames(fs, b) + Tally(Blocks, h.cell, b) + One(c, b)

LEMMA StoredNat ==
  ASSUME NEW fs \in Seq(Frames), NEW h, NEW c, NEW b
  PROVE  Stored(fs, h, c, b) \in Nat /\ Tally(Blocks, h.cell, b) \in Nat
  <1>1. InFrames(fs, b) \in Nat
    BY InFramesNat
  <1>2. Tally(Blocks, h.cell, b) \in Nat
    BY TallyNat, CCodeAssumption
  <1> QED BY <1>1, <1>2, OneOrNone DEF Stored

\* The holders of a block in these terms, before and after a step.
LEMMA HoldersAre ==
  ASSUME NEW b, frames \in Seq(Frames)
  PROVE  Holders(b) = Stored(frames, heap, const, b) + due[b]
  <1>1. RegsHolding(b) = {p \in (DOMAIN frames) \X Regs : Regs_(frames)[p] = b}
    BY DEF RegsHolding, Regs_
  <1>2. /\ LocalsHolding(b) = {i \in DOMAIN frames : Locals_(frames)[i] = b}
        /\ SelvesHolding(b) = {i \in DOMAIN frames : Selves_(frames)[i] = b}
        /\ AftersHolding(b) = {i \in DOMAIN frames : Afters_(frames)[i] = b}
    BY DEF LocalsHolding, SelvesHolding, AftersHolding, Locals_, Selves_, Afters_
  <1>3. CellsHolding(b) = {c \in Blocks : heap.cell[c] = b}
    BY DEF CellsHolding
  <1> QED BY <1>1, <1>2, <1>3 DEF Holders, Stored, InFrames, Tally

LEMMA HoldersWillBe ==
  ASSUME NEW b, frames' \in Seq(Frames)
  PROVE  Holders(b)' = Stored(frames', heap', const', b) + due'[b]
  <1>1. RegsHolding(b)' = {p \in (DOMAIN frames') \X Regs : Regs_(frames')[p] = b}
    BY DEF RegsHolding, Regs_
  <1>2. /\ LocalsHolding(b)' = {i \in DOMAIN frames' : Locals_(frames')[i] = b}
        /\ SelvesHolding(b)' = {i \in DOMAIN frames' : Selves_(frames')[i] = b}
        /\ AftersHolding(b)' = {i \in DOMAIN frames' : Afters_(frames')[i] = b}
    BY DEF LocalsHolding, SelvesHolding, AftersHolding, Locals_, Selves_, Afters_
  <1>3. CellsHolding(b)' = {c \in Blocks : (heap').cell[c] = b}
    BY DEF CellsHolding
  <1> QED BY <1>1, <1>2, <1>3 DEF Holders, Stored, InFrames, Tally

\* A step keeps the balance if it adds as many references as holders.
LEMMA Settled ==
  ASSUME CountInv, ~heap.fault, TypeOK', Callers',
         heap'.fault => \E b \in Blocks : stolen'[b] > 0,
         ~heap'.fault => FreedEmpty',
         ~heap'.fault => \A b \in Blocks :
            heap'.rc[b] + stolen'[b] + Stored(frames, heap, const, b) + due[b] + lost[b]
              = heap.rc[b] + stolen[b] + Stored(frames', heap', const', b) + due'[b]
                  + lost'[b]
  PROVE  CountInv'
  <1>1. SUFFICES ASSUME ~heap'.fault, NEW b \in Blocks
                 PROVE  heap'.rc[b] + stolen'[b] = Holders(b)' + lost'[b]
    BY DEF CountInv, Balance, FaultNeedsArgument
  <1>2. heap.rc[b] + stolen[b] = Holders(b) + lost[b]
    BY DEF CountInv, Balance
  <1>3. frames \in Seq(Frames) /\ frames' \in Seq(Frames)
    BY DEF CountInv, TypeOK
  <1>4. /\ Holders(b) = Stored(frames, heap, const, b) + due[b]
        /\ Holders(b)' = Stored(frames', heap', const', b) + due'[b]
    BY <1>3, HoldersAre, HoldersWillBe
  <1>5. /\ Stored(frames, heap, const, b) \in Nat
        /\ Stored(frames', heap', const', b) \in Nat
    BY <1>3, StoredNat
  <1>6. /\ heap.rc[b] \in Nat /\ stolen[b] \in Nat /\ due[b] \in Nat /\ lost[b] \in Nat
        /\ heap'.rc[b] \in Nat /\ stolen'[b] \in Nat /\ due'[b] \in Nat
        /\ lost'[b] \in Nat
    BY DEF CountInv, TypeOK
  <1>7. heap'.rc[b] + stolen'[b] + Stored(frames, heap, const, b) + due[b] + lost[b]
          = heap.rc[b] + stolen[b] + Stored(frames', heap', const', b) + due'[b]
              + lost'[b]
    BY <1>1
  <1> QED BY ONLY <1>2, <1>4, <1>5, <1>6, <1>7

\* A reference is taken: if the block was freed before, the program has failed.
LEMMA Referenced ==
  ASSUME NEW n \in Nat, NEW h \in Heaps(n), NEW v \in Values
  PROVE  /\ Ref(h, v) \in Heaps(n + 1)
         /\ Ref(h, v).kind = h.kind /\ Ref(h, v).cell = h.cell
         /\ v \in Blocks /\ h.rc[v] = 0 => Ref(h, v).fault
         /\ ~(v \in Blocks /\ h.rc[v] = 0) => Ref(h, v).fault = h.fault
         /\ ~(v \in Blocks /\ h.rc[v] = 0) =>
              \A b \in Blocks : Ref(h, v).rc[b] = h.rc[b] + One(v, b)
  <1>0. h \in Heaps(n + 1)
    BY DEF Heaps
  <1>1. CASE v = None
    <2>1. Ref(h, v) = h
      BY <1>1 DEF Ref
    <2>2. v \notin Blocks /\ \A b \in Blocks : One(v, b) = 0 /\ h.rc[b] \in Nat
      BY <1>1, CCodeAssumption DEF One, Heaps
    <2> QED BY <1>0, <2>1, <2>2
  <1>2. CASE v # None /\ h.rc[v] = 0
    BY <1>0, <1>2 DEF Ref, Fault, Heaps, Values
  <1>3. CASE v # None /\ h.rc[v] # 0
    <2>1. v \in Blocks /\ Ref(h, v) = [h EXCEPT !.rc[v] = @ + 1]
      BY <1>3 DEF Ref, Values
    <2>2. h.rc \in [Blocks -> 0 .. n] /\ [h.rc EXCEPT ![v] = @ + 1] \in [Blocks -> 0 .. n + 1]
      BY <2>1 DEF Heaps
    <2> QED BY <1>3, <2>1, <2>2 DEF Heaps, One
  <1> QED BY <1>1, <1>2, <1>3

\* A freed block that something still names has had a reference given back that
\* nobody had taken.
LEMMA Dangling ==
  ASSUME CountInv, ~heap.fault, NEW v \in Blocks, heap.rc[v] = 0,
         \/ \E i \in DOMAIN frames, r \in Regs : frames[i].regs[r] = v
         \/ \E i \in DOMAIN frames : v \in {frames[i].local, frames[i].self}
         \/ \E c \in Blocks : heap.cell[c] = v
         \/ v = const
         \/ due[v] > 0
  PROVE  stolen[v] > 0
  <1>1. /\ frames \in Seq(Frames) /\ due[v] \in Nat /\ stolen[v] \in Nat
        /\ lost[v] \in Nat
    BY DEF CountInv, TypeOK
  <1>2. stolen[v] = Stored(frames, heap, const, v) + due[v] + lost[v]
    BY <1>1, HoldersAre, StoredNat DEF CountInv, Balance
  <1>3. Stored(frames, heap, const, v) \in Nat
    BY <1>1, StoredNat
  <1>4. SUFFICES ASSUME due[v] = 0 PROVE Stored(frames, heap, const, v) > 0
    BY <1>1, <1>2, <1>3
  <1>5. /\ Tally((DOMAIN frames) \X Regs, Regs_(frames), v) \in Nat
        /\ Tally(DOMAIN frames, Locals_(frames), v) \in Nat
        /\ Tally(DOMAIN frames, Selves_(frames), v) \in Nat
        /\ Tally(DOMAIN frames, Afters_(frames), v) \in Nat
        /\ Tally(Blocks, heap.cell, v) \in Nat /\ One(const, v) \in Nat
    <2>1. Tally(Blocks, heap.cell, v) \in Nat /\ One(const, v) \in Nat
      BY TallyNat, CCodeAssumption, OneOrNone
    <2>2. PICK fs \in Seq(Frames) : fs = frames
      BY <1>1
    <2>3. /\ Tally((DOMAIN fs) \X Regs, Regs_(fs), v) \in Nat
          /\ Tally(DOMAIN fs, Locals_(fs), v) \in Nat
          /\ Tally(DOMAIN fs, Selves_(fs), v) \in Nat
          /\ Tally(DOMAIN fs, Afters_(fs), v) \in Nat
      BY ONLY fs \in Seq(Frames), InFramesNat
    <2> QED BY ONLY <2>1, <2>2, <2>3
  <1>6. \/ Tally((DOMAIN frames) \X Regs, Regs_(frames), v) > 0
        \/ Tally(DOMAIN frames, Locals_(frames), v) > 0
        \/ Tally(DOMAIN frames, Selves_(frames), v) > 0
        \/ Tally(Blocks, heap.cell, v) > 0
        \/ One(const, v) > 0
    <2>1. CASE \E i \in DOMAIN frames, r \in Regs : frames[i].regs[r] = v
      <3>1. PICK i \in DOMAIN frames, r \in Regs : frames[i].regs[r] = v
        BY <2>1
      <3>2. /\ <<i, r>> \in (DOMAIN frames) \X Regs
            /\ Regs_(frames)[<<i, r>>] = v
        BY <3>1 DEF Regs_
      <3> QED BY <1>1, <3>2, FramesFinite, TallyPositive
    <2>2. CASE \E i \in DOMAIN frames : v \in {frames[i].local, frames[i].self}
      <3>1. PICK i \in DOMAIN frames : Locals_(frames)[i] = v \/ Selves_(frames)[i] = v
        BY <2>2 DEF Locals_, Selves_
      <3> QED BY <1>1, <3>1, FramesFinite, TallyPositive
    <2>3. CASE \E c \in Blocks : heap.cell[c] = v
      BY <2>3, TallyPositive, CCodeAssumption
    <2>4. CASE v = const
      BY <2>4 DEF One
    <2> QED BY <1>4, <2>1, <2>2, <2>3, <2>4
  <1>7. InFrames(frames, v) > 0 \/ Tally(Blocks, heap.cell, v) > 0 \/ One(const, v) > 0
    BY <1>5, <1>6 DEF InFrames
  <1>8. InFrames(frames, v) \in Nat
    BY <1>1, InFramesNat
  <1> QED BY <1>5, <1>7, <1>8 DEF Stored

-----------------------------------------------------------------------------
(* What an instruction may take for granted.                                *)

LEMMA OneOfNone ==
  ASSUME NEW b \in Blocks
  PROVE  One(None, b) = 0
  BY CCodeAssumption DEF One

LEMMA Runs ==
  ASSUME CountInv, Running
  PROVE  /\ Len(frames) \in DOMAIN frames /\ frames \in Seq(Frames)
         /\ Top \in Frames /\ Top = frames[Len(frames)]
         /\ \A r \in Regs : Reg(r) \in Values /\ Reg(r) = frames[Len(frames)].regs[r]
         /\ Top.local \in Values /\ Top.self \in Values /\ Top.after \in Values
         /\ const \in Values
         /\ heap.cell \in [Blocks -> Values]
         /\ \A b \in Blocks : due[b] = 0
         /\ ~heap.fault
  <1>1. /\ frames \in Seq(Frames) /\ Len(frames) > 0 /\ ~heap.fault /\ due = Nothing
        /\ const \in Values /\ heap.cell \in [Blocks -> Values]
    BY DEF CountInv, TypeOK, Running
  <1>2. Len(frames) \in DOMAIN frames /\ Top \in Frames /\ Top = frames[Len(frames)]
    BY <1>1 DEF Top
  <1>3. \A r \in Regs : Reg(r) \in Values /\ Reg(r) = frames[Len(frames)].regs[r]
    BY <1>2 DEF Reg, Frames
  <1>4. Top.local \in Values /\ Top.self \in Values /\ Top.after \in Values
    BY <1>2 DEF Frames
  <1> QED BY <1>1, <1>2, <1>3, <1>4 DEF Nothing

\* There is room for two more references to any block.
LEMMA HasRoom ==
  ASSUME CountInv, Room
  PROVE  \E m \in Nat : heap \in Heaps(m) /\ Heaps(m + 2) \subseteq Heaps(MaxRc + 1)
                          /\ Heaps(m + 1) \subseteq Heaps(MaxRc + 1)
                          /\ Heaps(m) \subseteq Heaps(MaxRc + 1)
                          /\ (Blocks # {} => m + 2 <= MaxRc + 1)
  <1>1. heap \in Heaps(MaxRc + 1)
    BY DEF CountInv, TypeOK, Heaps
  <1>2. CASE Blocks = {}
    <2>1. \A m, n \in Nat : Heaps(m) \subseteq Heaps(n)
      BY <1>2 DEF Heaps
    <2>2. heap \in Heaps(0)
      BY <1>1, <2>1, CCodeAssumption
    <2> QED BY <1>2, <2>1, <2>2, CCodeAssumption
  <1>3. CASE Blocks # {}
    <2>1. MaxRc - 1 \in Nat
      BY <1>1, <1>3, CCodeAssumption DEF Room, Heaps
    <2>2. heap \in Heaps(MaxRc - 1)
      BY <1>1, <2>1, CCodeAssumption DEF Room, Heaps
    <2>3. \A m, n \in Nat : m <= n => Heaps(m) \subseteq Heaps(n)
      BY DEF Heaps
    <2>4. (MaxRc - 1) + 2 = MaxRc + 1 /\ MaxRc + 1 \in Nat
      BY CCodeAssumption
    <2>5. Heaps(MaxRc - 1) \subseteq Heaps(MaxRc + 1)
            /\ Heaps((MaxRc - 1) + 1) \subseteq Heaps(MaxRc + 1)
      BY <2>1, <2>3, <2>4, CCodeAssumption
    <2> QED BY <2>1, <2>2, <2>4, <2>5
  <1> QED BY <1>2, <1>3

\* A value that a variable, a content, the constant or a statement names.
Named(v) ==
  \/ \E i \in DOMAIN frames, r \in Regs : frames[i].regs[r] = v
  \/ \E i \in DOMAIN frames : v \in {frames[i].local, frames[i].self}
  \/ \E c \in Blocks : heap.cell[c] = v
  \/ v = const

LEMMA NamedOnes ==
  ASSUME CountInv, Running
  PROVE  /\ \A r \in Regs : Named(Reg(r))
         /\ Named(Top.local) /\ Named(Top.self) /\ Named(const)
         /\ \A c \in Blocks : Named(heap.cell[c])
  BY Runs DEF Named

\* A reference to what is named, and two.
LEMMA RefOnce ==
  ASSUME CountInv, ~heap.fault, NEW v \in Values, Named(v),
         NEW m \in Nat, heap \in Heaps(m), NEW h, h = Ref(heap, v)
  PROVE  /\ h \in Heaps(m + 1) /\ h.cell = heap.cell /\ h.kind = heap.kind
         /\ h.fault => \E b \in Blocks : stolen[b] > 0
         /\ ~h.fault => \A b \in Blocks : h.rc[b] = heap.rc[b] + One(v, b)
  <1>1. /\ h \in Heaps(m + 1) /\ h.cell = heap.cell /\ h.kind = heap.kind
    BY Referenced
  <1>2. CASE v \in Blocks /\ heap.rc[v] = 0
    <2>1. h.fault
      BY <1>2, Referenced
    <2>2. stolen[v] > 0
      BY <1>2, Dangling DEF Named
    <2> QED BY <1>1, <1>2, <2>1, <2>2
  <1>3. CASE ~(v \in Blocks /\ heap.rc[v] = 0)
    <2>1. ~h.fault /\ \A b \in Blocks : h.rc[b] = heap.rc[b] + One(v, b)
      BY <1>3, Referenced
    <2> QED BY <1>1, <2>1
  <1> QED BY <1>2, <1>3

LEMMA RefTwice ==
  ASSUME CountInv, ~heap.fault, NEW v \in Values, Named(v),
         NEW m \in Nat, heap \in Heaps(m), NEW h, h = Ref(Ref(heap, v), v)
  PROVE  /\ h \in Heaps(m + 2) /\ h.cell = heap.cell /\ h.kind = heap.kind
         /\ h.fault => \E b \in Blocks : stolen[b] > 0
         /\ ~h.fault =>
              \A b \in Blocks : h.rc[b] = heap.rc[b] + One(v, b) + One(v, b)
  <1>1. PICK g : g = Ref(heap, v)
    OBVIOUS
  <1>2. /\ g \in Heaps(m + 1) /\ g.cell = heap.cell /\ g.kind = heap.kind
        /\ g.fault => \E b \in Blocks : stolen[b] > 0
        /\ ~g.fault => \A b \in Blocks : g.rc[b] = heap.rc[b] + One(v, b)
    BY <1>1, RefOnce
  <1>3. PICK k \in Nat : k = m + 1 /\ k + 1 = m + 2
    OBVIOUS
  <1>4. /\ h \in Heaps(k + 1) /\ h.cell = g.cell /\ h.kind = g.kind
    BY <1>1, <1>2, <1>3, Referenced
  <1>5. CASE g.fault
    <2>1. h = Ref(g, v)
      BY <1>1
    <2>2. h.fault
      BY <1>2, <1>5, <2>1, Referenced
    <2> QED BY <1>2, <1>3, <1>4, <1>5, <2>2
  <1>6. CASE ~g.fault
    <2>1. ~(v \in Blocks /\ g.rc[v] = 0)
      <3>1. SUFFICES ASSUME v \in Blocks PROVE g.rc[v] # 0
        OBVIOUS
      <3>2. g.rc[v] = heap.rc[v] + 1 /\ heap.rc[v] \in Nat
        BY <1>2, <1>6, <3>1 DEF One, Heaps
      <3> QED BY <3>2
    <2>2. h.fault = g.fault /\ \A b \in Blocks : h.rc[b] = g.rc[b] + One(v, b)
      BY <1>1, <1>2, <1>3, <2>1, Referenced
    <2> QED BY <1>2, <1>3, <1>4, <1>6, <2>2
  <1> QED BY <1>5, <1>6

\* The counters of what was stolen and lost.
LEMMA Counted ==
  ASSUME NEW g \in [Blocks -> Nat], NEW v \in Values, NEW k \in Nat
  PROVE  /\ Count(g, v, k) \in [Blocks -> Nat]
         /\ \A b \in Blocks :
              /\ Count(g, v, k)[b] >= g[b]
              /\ k = 1 => Count(g, v, k)[b] = g[b] + One(v, b)
              /\ k = 2 => Count(g, v, k)[b] = g[b] + One(v, b) + One(v, b)
  <1>1. CASE v = None
    BY <1>1, OneOfNone DEF Count
  <1>2. CASE v # None
    BY <1>2 DEF Count, One, Values
  <1> QED BY <1>1, <1>2

\* A content is written.
LEMMA CellWritten ==
  ASSUME NEW f \in [Blocks -> Values], NEW o \in Blocks, NEW v \in Values,
         NEW g, g = [f EXCEPT ![o] = v], NEW b
  PROVE  /\ g \in [Blocks -> Values]
         /\ Tally(Blocks, g, b) + One(f[o], b) = Tally(Blocks, f, b) + One(v, b)
  <1>1. /\ g \in [Blocks -> Values] /\ g[o] = v
        /\ \A y \in Blocks : y # o => g[y] = f[y]
    OBVIOUS
  <1>2. IsFiniteSet(Blocks)
    BY CCodeAssumption
  <1>3. Tally(Blocks, g, b) + One(f[o], b) = Tally(Blocks, f, b) + One(g[o], b)
    BY ONLY <1>1, <1>2, o \in Blocks, TallyChange
  <1> QED BY <1>1, <1>3

-----------------------------------------------------------------------------
(* Instructions that write a register, or none.                             *)

\* The steps of an instruction that leaves the balance of each block as it was:
\* r is given v, and h is the heap with the references that are taken.
Writes(r, v, h) ==
  /\ r \in Regs /\ v \in Values /\ frames' = WithReg(r, v)
  /\ heap' = h /\ h \in Heaps(MaxRc + 1)
  /\ const' = const /\ due' \in [Blocks -> Nat]
  /\ lost' \in [Blocks -> Nat] /\ stolen' \in [Blocks -> Nat]

LEMMA RegisterStep ==
  ASSUME CountInv, Running, NEW r, NEW v, NEW h, Writes(r, v, h),
         h.fault => \E b \in Blocks : stolen'[b] > 0,
         ~h.fault => \A b \in Blocks :
            /\ h.rc[b] = 0 => h.cell[b] = None
            /\ h.rc[b] + stolen'[b] + lost[b] + Tally(Blocks, heap.cell, b)
                 + One(Reg(r), b)
               = heap.rc[b] + stolen[b] + One(v, b) + due'[b] + lost'[b]
                   + Tally(Blocks, h.cell, b)
  PROVE  CountInv'
  <1>1. PICK n : n = Len(frames)
    OBVIOUS
  <1>2. /\ frames \in Seq(Frames) /\ n \in DOMAIN frames /\ r \in Regs /\ v \in Values
        /\ frames' = SetReg(frames, n, r, v) /\ Reg(r) = frames[n].regs[r]
        /\ \A b \in Blocks : due[b] = 0
    BY <1>1, Runs DEF Writes, WithReg, SetReg
  <1>3. /\ frames' \in Seq(Frames) /\ DOMAIN frames' = DOMAIN frames
        /\ \A i \in DOMAIN frames : frames'[i].into = frames[i].into
    BY ONLY <1>2, RegWritten
  <1>4. \A b : InFrames(frames', b) + One(Reg(r), b) = InFrames(frames, b) + One(v, b)
    <2> TAKE b
    <2> QED BY ONLY <1>2, RegWritten
  <1>5. TypeOK'
    BY <1>3 DEF Writes, CountInv, TypeOK, Heaps
  <1>6. Callers'
    BY <1>3 DEF CountInv, Callers
  <1>7. heap' = h
    BY DEF Writes
  <1>8. ~heap'.fault => FreedEmpty'
    BY <1>7 DEF FreedEmpty
  <1>9. ASSUME ~heap'.fault, NEW b \in Blocks
        PROVE  heap'.rc[b] + stolen'[b] + Stored(frames, heap, const, b) + due[b] + lost[b]
                 = heap.rc[b] + stolen[b] + Stored(frames', heap', const', b) + due'[b]
                     + lost'[b]
    <2>1. /\ InFrames(frames, b) \in Nat /\ InFrames(frames', b) \in Nat
          /\ One(v, b) \in Nat /\ One(Reg(r), b) \in Nat /\ One(const, b) \in Nat
      <3>1. \A fs \in Seq(Frames) : InFrames(fs, b) \in Nat
        BY InFramesIsNat
      <3> QED BY <1>2, <1>3, <3>1, OneOrNone
    <2>2. Tally(Blocks, heap.cell, b) \in Nat /\ Tally(Blocks, h.cell, b) \in Nat
      BY TallyNat, CCodeAssumption
    <2>3. /\ h.rc[b] \in Nat /\ stolen'[b] \in Nat /\ lost[b] \in Nat
          /\ heap.rc[b] \in Nat /\ stolen[b] \in Nat /\ due'[b] \in Nat /\ lost'[b] \in Nat
      BY <1>5, <1>7 DEF CountInv, TypeOK
    <2>4. h.rc[b] + stolen'[b] + lost[b] + Tally(Blocks, heap.cell, b) + One(Reg(r), b)
            = heap.rc[b] + stolen[b] + One(v, b) + due'[b] + lost'[b]
                + Tally(Blocks, h.cell, b)
      BY <1>7, <1>9
    <2>5. InFrames(frames', b) + One(Reg(r), b) = InFrames(frames, b) + One(v, b)
      BY <1>4
    <2>6. due[b] = 0 /\ const' = const
      BY <1>2 DEF Writes
    <2> QED BY ONLY <1>7, <2>1, <2>2, <2>3, <2>4, <2>5, <2>6 DEF Stored
  <1> QED BY <1>5, <1>6, <1>7, <1>8, <1>9, Runs, Settled

\* The same for an instruction that writes no variable of a function.
LEMMA HeapStep ==
  ASSUME CountInv, Running, frames' = frames, heap' \in Heaps(MaxRc + 1),
         const' \in Values, due' \in [Blocks -> Nat],
         lost' \in [Blocks -> Nat], stolen' \in [Blocks -> Nat],
         heap'.fault => \E b \in Blocks : stolen'[b] > 0,
         ~heap'.fault => \A b \in Blocks :
            /\ heap'.rc[b] = 0 => heap'.cell[b] = None
            /\ heap'.rc[b] + stolen'[b] + lost[b] + Tally(Blocks, heap.cell, b)
                 + One(const, b)
               = heap.rc[b] + stolen[b] + due'[b] + lost'[b]
                   + Tally(Blocks, heap'.cell, b) + One(const', b)
  PROVE  CountInv'
  <1>1. TypeOK' /\ Callers'
    BY DEF CountInv, TypeOK, Heaps, Callers
  <1>2. ~heap'.fault => FreedEmpty'
    BY DEF FreedEmpty
  <1>3. ASSUME ~heap'.fault, NEW b \in Blocks
        PROVE  heap'.rc[b] + stolen'[b] + Stored(frames, heap, const, b) + due[b] + lost[b]
                 = heap.rc[b] + stolen[b] + Stored(frames', heap', const', b) + due'[b]
                     + lost'[b]
    <2>1. /\ InFrames(frames, b) \in Nat
          /\ One(const, b) \in Nat /\ One(const', b) \in Nat
      <3>1. \A fs \in Seq(Frames) : InFrames(fs, b) \in Nat
        BY InFramesIsNat
      <3>2. InFrames(frames, b) \in Nat
        BY <3>1, Runs
      <3>3. One(const, b) \in {0, 1} /\ One(const', b) \in {0, 1}
        BY OneOrNone
      <3> QED BY ONLY <3>2, <3>3
    <2>2. Tally(Blocks, heap.cell, b) \in Nat /\ Tally(Blocks, heap'.cell, b) \in Nat
      BY TallyNat, CCodeAssumption
    <2>3. /\ heap'.rc[b] \in Nat /\ stolen'[b] \in Nat /\ lost[b] \in Nat
          /\ heap.rc[b] \in Nat /\ stolen[b] \in Nat /\ due'[b] \in Nat /\ lost'[b] \in Nat
      BY <1>1 DEF CountInv, TypeOK
    <2>4. heap'.rc[b] + stolen'[b] + lost[b] + Tally(Blocks, heap.cell, b) + One(const, b)
            = heap.rc[b] + stolen[b] + due'[b] + lost'[b]
                + Tally(Blocks, heap'.cell, b) + One(const', b)
      BY <1>3
    <2>5. due[b] = 0 /\ frames' = frames
      BY Runs
    <2> QED BY ONLY <2>1, <2>2, <2>3, <2>4, <2>5 DEF Stored
  <1> QED BY <1>1, <1>2, <1>3, Runs, Settled

\* The same for an instruction that changes the frames otherwise: they gain and
\* lose holders of each block.
LEMMA FrameStep ==
  ASSUME CountInv, Running, frames' \in Seq(Frames), Callers',
         NEW gain \in [Blocks -> Nat], NEW loss \in [Blocks -> Nat],
         \A b \in Blocks : InFrames(frames', b) + loss[b] = InFrames(frames, b) + gain[b],
         heap' \in Heaps(MaxRc + 1), const' = const, due' \in [Blocks -> Nat],
         lost' = lost, stolen' \in [Blocks -> Nat], heap'.cell = heap.cell,
         heap'.fault => \E b \in Blocks : stolen'[b] > 0,
         ~heap'.fault => \A b \in Blocks :
            /\ heap'.rc[b] = 0 => heap.rc[b] = 0
            /\ heap'.rc[b] + stolen'[b] + loss[b]
                 = heap.rc[b] + stolen[b] + gain[b] + due'[b]
  PROVE  CountInv'
  <1>1. TypeOK'
    BY DEF CountInv, TypeOK, Heaps
  <1>2. ~heap'.fault => FreedEmpty'
    BY Runs DEF CountInv, FreedEmpty
  <1>3. ASSUME ~heap'.fault, NEW b \in Blocks
        PROVE  heap'.rc[b] + stolen'[b] + Stored(frames, heap, const, b) + due[b] + lost[b]
                 = heap.rc[b] + stolen[b] + Stored(frames', heap', const', b) + due'[b]
                     + lost'[b]
    <2>1. PICK i \in Nat, j \in Nat : i = InFrames(frames, b) /\ j = InFrames(frames', b)
      <3>1. \A fs \in Seq(Frames) : InFrames(fs, b) \in Nat
        BY InFramesIsNat
      <3> QED BY <3>1, Runs
    <2>2. PICK t \in Nat : t = Tally(Blocks, heap.cell, b) + One(const, b)
      <3>1. Tally(Blocks, heap.cell, b) \in Nat
        BY TallyNat, CCodeAssumption
      <3>2. One(const, b) \in {0, 1}
        BY OneOrNone
      <3> QED BY ONLY <3>1, <3>2
    <2>3. /\ heap'.rc[b] \in Nat /\ stolen'[b] \in Nat /\ lost[b] \in Nat
          /\ heap.rc[b] \in Nat /\ stolen[b] \in Nat /\ due'[b] \in Nat
          /\ gain[b] \in Nat /\ loss[b] \in Nat
      BY <1>1 DEF CountInv, TypeOK
    <2>4. /\ heap'.rc[b] + stolen'[b] + loss[b]
               = heap.rc[b] + stolen[b] + gain[b] + due'[b]
          /\ j + loss[b] = i + gain[b]
      BY <1>3, <2>1
    <2>5. due[b] = 0 /\ lost' = lost
      BY Runs
    <2>6. Stored(frames, heap, const, b) = i + t /\ Stored(frames', heap', const', b) = j + t
      <3>1. Tally(Blocks, heap.cell, b) \in Nat /\ One(const, b) \in Nat
        <4>1. Tally(Blocks, heap.cell, b) \in Nat
          BY TallyNat, CCodeAssumption
        <4>2. One(const, b) \in {0, 1}
          BY OneOrNone
        <4> QED BY ONLY <4>1, <4>2
      <3>2. const' = const /\ heap'.cell = heap.cell
        OBVIOUS
      <3> QED BY ONLY <2>1, <2>2, <3>1, <3>2 DEF Stored
    <2> QED BY ONLY <2>3, <2>4, <2>5, <2>6, i \in Nat, j \in Nat, t \in Nat
  <1> QED BY <1>1, <1>2, <1>3, Runs, Settled

-----------------------------------------------------------------------------
(* The instructions.                                                        *)

\* A copy of a named value into a register.
LEMMA CopyStep ==
  ASSUME CountInv, Running, Room, NEW r \in Regs, NEW v \in Values, Named(v),
         heap' = Ref(heap, v), due' = [b \in Blocks |-> One(Reg(r), b)],
         frames' = WithReg(r, v), UNCHANGED <<const, lost, stolen>>
  PROVE  CountInv'
  <1>1. PICK m \in Nat : heap \in Heaps(m) /\ Heaps(m + 1) \subseteq Heaps(MaxRc + 1)
    BY HasRoom
  <1>2. PICK h : h = Ref(heap, v)
    OBVIOUS
  <1>3. /\ h \in Heaps(m + 1) /\ h.cell = heap.cell
        /\ h.fault => \E b \in Blocks : stolen[b] > 0
        /\ ~h.fault => \A b \in Blocks : h.rc[b] = heap.rc[b] + One(v, b)
    BY <1>1, <1>2, Runs, RefOnce
  <1>4. Writes(r, v, h)
    <2>1. due' \in [Blocks -> Nat]
      BY OneOrNone
    <2> QED BY <1>1, <1>2, <1>3, <2>1 DEF Writes, CountInv, TypeOK
  <1>5. ASSUME ~h.fault, NEW b \in Blocks
        PROVE  /\ h.rc[b] = 0 => h.cell[b] = None
               /\ h.rc[b] + stolen'[b] + lost[b] + Tally(Blocks, heap.cell, b)
                    + One(Reg(r), b)
                  = heap.rc[b] + stolen[b] + One(v, b) + due'[b] + lost'[b]
                      + Tally(Blocks, h.cell, b)
    <2>1. /\ heap.rc[b] \in Nat /\ stolen[b] \in Nat /\ lost[b] \in Nat
          /\ heap.rc[b] = 0 => heap.cell[b] = None
      BY Runs DEF CountInv, TypeOK, FreedEmpty
    <2>2. /\ Tally(Blocks, heap.cell, b) \in Nat
          /\ One(v, b) \in Nat /\ One(Reg(r), b) \in Nat
      BY TallyNat, CCodeAssumption, OneOrNone
    <2>3. /\ h.rc[b] = heap.rc[b] + One(v, b) /\ h.cell = heap.cell
          /\ due'[b] = One(Reg(r), b) /\ stolen' = stolen /\ lost' = lost
      BY <1>3, <1>5
    <2> QED BY ONLY <2>1, <2>2, <2>3
  <1> QED BY <1>3, <1>4, <1>5, RegisterStep

LEMMA LoadPlainStep ==
  ASSUME CountInv, Running, Room, NEW r \in Regs, LoadPlain(r)
  PROVE  CountInv'
  <1>1. PICK m \in Nat : heap \in Heaps(m) /\ Heaps(m) \subseteq Heaps(MaxRc + 1)
    BY HasRoom
  <1>2. heap' = heap /\ None \in Values
    BY DEF LoadPlain, CopyValue, Ref, Values
  <1>3. Writes(r, None, heap)
    BY <1>1, <1>2, OneOrNone DEF Writes, LoadPlain, CopyValue, CountInv, TypeOK
  <1>4. ASSUME NEW b \in Blocks
        PROVE  /\ heap.rc[b] = 0 => heap.cell[b] = None
               /\ heap.rc[b] + stolen'[b] + lost[b] + Tally(Blocks, heap.cell, b)
                    + One(Reg(r), b)
                  = heap.rc[b] + stolen[b] + One(None, b) + due'[b] + lost'[b]
                      + Tally(Blocks, heap.cell, b)
    <2>1. /\ heap.rc[b] \in Nat /\ stolen[b] \in Nat /\ lost[b] \in Nat
          /\ heap.rc[b] = 0 => heap.cell[b] = None
      BY Runs DEF CountInv, TypeOK, FreedEmpty
    <2>2. /\ Tally(Blocks, heap.cell, b) \in Nat
          /\ One(None, b) = 0 /\ One(Reg(r), b) \in Nat
      BY TallyNat, CCodeAssumption, OneOrNone, OneOfNone
    <2>3. due'[b] = One(Reg(r), b) /\ stolen' = stolen /\ lost' = lost
      BY DEF LoadPlain, CopyValue
    <2> QED BY ONLY <2>1, <2>2, <2>3
  <1> QED BY <1>3, <1>4, Runs, RegisterStep

LEMMA MovLocalRegStep ==
  ASSUME CountInv, Running, Room, NEW r \in Regs, MovLocalReg(r)
  PROVE  CountInv'
  BY Runs, NamedOnes, CopyStep DEF MovLocalReg, CopyValue

LEMMA LoadConstStep ==
  ASSUME CountInv, Running, Room, NEW r \in Regs, LoadConst(r)
  PROVE  CountInv'
  BY Runs, NamedOnes, CopyStep DEF LoadConst, MoveValue

LEMMA GetInnerStep ==
  ASSUME CountInv, Running, Room, NEW r \in Regs, GetInner(r)
  PROVE  CountInv'
  <1>1. Top.self \in Blocks
    BY Runs DEF GetInner, IsA, Live, Values
  <1>2. heap.cell[Top.self] \in Values /\ Named(heap.cell[Top.self])
    BY <1>1, Runs, NamedOnes
  <1> QED BY <1>2, CopyStep DEF GetInner, CopyValue

\* A block is born: nothing holds a content of it.
LEMMA LoadNewStep ==
  ASSUME CountInv, Running, Room, NEW r \in Regs, NEW k \in Kinds, LoadNew(r, k)
  PROVE  CountInv'
  <1>1. PICK m \in Nat : /\ heap \in Heaps(m) /\ Heaps(m) \subseteq Heaps(MaxRc + 1)
                         /\ Blocks # {} => m + 2 <= MaxRc + 1
    BY HasRoom
  <1>2. PICK c \in Free :
          /\ MoveValue([heap EXCEPT !.rc[c] = 1, !.kind[c] = k], Reg(r))
          /\ frames' = WithReg(r, c)
          /\ UNCHANGED <<const, lost, stolen>>
    BY DEF LoadNew
  <1>3. c \in Blocks /\ heap.rc[c] = 0 /\ c \in Values
    BY <1>2 DEF Free, Values
  <1>4. PICK h : h = [heap EXCEPT !.rc[c] = 1, !.kind[c] = k]
    OBVIOUS
  <1>5. /\ h \in Heaps(MaxRc + 1) /\ h.cell = heap.cell /\ h.fault = heap.fault
        /\ \A b \in Blocks : h.rc[b] = IF b = c THEN 1 ELSE heap.rc[b]
    <2>1. 1 \in 0 .. MaxRc + 1
      BY <1>1, <1>3, CCodeAssumption
    <2> QED BY <1>1, <1>3, <1>4, <2>1 DEF Heaps
  <1>6. heap' = h /\ due' = [b \in Blocks |-> One(Reg(r), b)]
    BY <1>2, <1>4 DEF MoveValue
  <1>7. Writes(r, c, h)
    BY <1>2, <1>3, <1>5, <1>6, OneOrNone DEF Writes, CountInv, TypeOK
  <1>8. ASSUME NEW b \in Blocks
        PROVE  /\ h.rc[b] = 0 => h.cell[b] = None
               /\ h.rc[b] + stolen'[b] + lost[b] + Tally(Blocks, heap.cell, b)
                    + One(Reg(r), b)
                  = heap.rc[b] + stolen[b] + One(c, b) + due'[b] + lost'[b]
                      + Tally(Blocks, h.cell, b)
    <2>1. /\ heap.rc[b] \in Nat /\ stolen[b] \in Nat /\ lost[b] \in Nat
          /\ heap.rc[b] = 0 => heap.cell[b] = None
      BY Runs DEF CountInv, TypeOK, FreedEmpty
    <2>2. Tally(Blocks, heap.cell, b) \in Nat /\ One(Reg(r), b) \in Nat
      BY TallyNat, CCodeAssumption, OneOrNone
    <2>3. h.rc[b] = heap.rc[b] + One(c, b) /\ One(c, b) \in Nat
      BY <1>3, <1>5, <2>1 DEF One
    <2>4. due'[b] = One(Reg(r), b) /\ stolen' = stolen /\ lost' = lost
      BY <1>2, <1>6
    <2> QED BY ONLY <1>5, <2>1, <2>2, <2>3, <2>4
  <1> QED BY <1>5, <1>7, <1>8, Runs, RegisterStep

\* The getter takes two references to the element, of which one is lost.
LEMMA IdxGetStep ==
  ASSUME CountInv, Running, Room, NEW r \in Regs, NEW s \in Regs, IdxGet(r, s)
  PROVE  CountInv'
  <1>1. PICK m \in Nat : heap \in Heaps(m) /\ Heaps(m + 2) \subseteq Heaps(MaxRc + 1)
    BY HasRoom
  <1>2. Reg(r) \in Blocks
    BY Runs DEF IdxGet, IsA, Live, Values
  <1>3. PICK v \in Values : v = heap.cell[Reg(r)] /\ Named(v)
    BY <1>2, Runs, NamedOnes
  <1>4. PICK h : h = Ref(Ref(heap, v), v)
    OBVIOUS
  <1>5. /\ h \in Heaps(m + 2) /\ h.cell = heap.cell
        /\ h.fault => \E b \in Blocks : stolen[b] > 0
        /\ ~h.fault =>
             \A b \in Blocks : h.rc[b] = heap.rc[b] + One(v, b) + One(v, b)
    BY <1>1, <1>3, <1>4, Runs, RefTwice
  <1>6. /\ heap' = h /\ due' = [b \in Blocks |-> One(Reg(s), b)]
        /\ frames' = WithReg(s, v) /\ lost' = Count(lost, v, 1)
        /\ const' = const /\ stolen' = stolen
    BY <1>3, <1>4 DEF IdxGet, MoveValue
  <1>7. lost \in [Blocks -> Nat]
    BY DEF CountInv, TypeOK
  <1>8. /\ lost' \in [Blocks -> Nat]
        /\ \A b \in Blocks : lost'[b] = lost[b] + One(v, b)
    BY <1>6, <1>7, Counted
  <1>9. Writes(s, v, h)
    BY <1>1, <1>5, <1>6, <1>8, OneOrNone DEF Writes, CountInv, TypeOK
  <1>10. ASSUME ~h.fault, NEW b \in Blocks
         PROVE  /\ h.rc[b] = 0 => h.cell[b] = None
                /\ h.rc[b] + stolen'[b] + lost[b] + Tally(Blocks, heap.cell, b)
                     + One(Reg(s), b)
                   = heap.rc[b] + stolen[b] + One(v, b) + due'[b] + lost'[b]
                       + Tally(Blocks, h.cell, b)
    <2>1. /\ heap.rc[b] \in Nat /\ stolen[b] \in Nat /\ lost[b] \in Nat
          /\ heap.rc[b] = 0 => heap.cell[b] = None
      BY Runs DEF CountInv, TypeOK, FreedEmpty
    <2>2. /\ Tally(Blocks, heap.cell, b) \in Nat
          /\ One(v, b) \in Nat /\ One(Reg(s), b) \in Nat
      BY TallyNat, CCodeAssumption, OneOrNone
    <2>3. /\ h.rc[b] = heap.rc[b] + One(v, b) + One(v, b) /\ h.cell = heap.cell
          /\ due'[b] = One(Reg(s), b) /\ stolen' = stolen
          /\ lost'[b] = lost[b] + One(v, b)
      BY <1>5, <1>6, <1>8, <1>10
    <2> QED BY ONLY <2>1, <2>2, <2>3
  <1> QED BY <1>5, <1>6, <1>9, <1>10, RegisterStep

\* A plain step: the local is written.
LEMMA MovRegLocalStep ==
  ASSUME CountInv, Running, Room, NEW r \in Regs, MovRegLocal(r)
  PROVE  CountInv'
  <1>1. PICK m \in Nat : heap \in Heaps(m) /\ Heaps(m + 1) \subseteq Heaps(MaxRc + 1)
    BY HasRoom
  <1>2. PICK v \in Values : v = Reg(r) /\ Named(v)
    BY Runs, NamedOnes
  <1>3. PICK n : n = Len(frames)
    OBVIOUS
  <1>4. /\ frames \in Seq(Frames) /\ n \in DOMAIN frames
        /\ frames' = SetLocal(frames, n, v) /\ Top.local = frames[n].local
        /\ \A b \in Blocks : due[b] = 0
    BY <1>2, <1>3, Runs DEF MovRegLocal, SetLocal
  <1>5. PICK h : h = Ref(heap, v)
    OBVIOUS
  <1>6. /\ h \in Heaps(m + 1) /\ h.cell = heap.cell
        /\ h.fault => \E b \in Blocks : stolen[b] > 0
        /\ ~h.fault => \A b \in Blocks : h.rc[b] = heap.rc[b] + One(v, b)
    BY <1>1, <1>2, <1>5, Runs, RefOnce
  <1>7. /\ heap' = h /\ due' = [b \in Blocks |-> One(Top.local, b)]
        /\ const' = const /\ lost' = lost /\ stolen' = stolen
    BY <1>2, <1>5 DEF MovRegLocal, CopyValue
  <1>8. /\ frames' \in Seq(Frames) /\ DOMAIN frames' = DOMAIN frames
        /\ \A i \in DOMAIN frames : frames'[i].into = frames[i].into
    BY ONLY <1>2, <1>4, LocalWritten
  <1>9. PICK gain \in [Blocks -> Nat] : gain = [b \in Blocks |-> One(v, b)]
    <2>1. \A b \in Blocks : One(v, b) \in Nat
      BY OneOrNone
    <2> QED BY <2>1
  <1>10. due' \in [Blocks -> Nat]
    BY <1>7, OneOrNone
  <1>11. \A b \in Blocks : InFrames(frames', b) + due'[b] = InFrames(frames, b) + gain[b]
    <2> TAKE b \in Blocks
    <2>1. InFrames(frames', b) + One(Top.local, b) = InFrames(frames, b) + One(v, b)
      BY ONLY <1>2, <1>4, LocalWritten
    <2> QED BY <1>7, <1>9, <2>1
  <1>12. ASSUME ~heap'.fault, NEW b \in Blocks
         PROVE  /\ heap'.rc[b] = 0 => heap.rc[b] = 0
                /\ heap'.rc[b] + stolen'[b] + due'[b]
                     = heap.rc[b] + stolen[b] + gain[b] + due'[b]
    <2>1. heap'.rc[b] = heap.rc[b] + gain[b] /\ stolen'[b] = stolen[b]
      BY <1>6, <1>7, <1>9, <1>12
    <2>2. /\ heap.rc[b] \in Nat /\ stolen[b] \in Nat /\ gain[b] \in Nat
          /\ due'[b] \in Nat
      BY <1>10 DEF CountInv, TypeOK
    <2> QED BY ONLY <2>1, <2>2
  <1>13. Callers'
    BY <1>8 DEF CountInv, Callers
  <1>14. /\ heap' \in Heaps(MaxRc + 1) /\ heap'.cell = heap.cell
         /\ heap'.fault => \E b \in Blocks : stolen'[b] > 0
         /\ stolen' \in [Blocks -> Nat] /\ const' = const /\ lost' = lost
    BY <1>1, <1>6, <1>7 DEF CountInv, TypeOK
  <1> QED BY <1>8, <1>10, <1>11, <1>12, <1>13, <1>14, FrameStep

\* The constant takes a reference that nobody took for it.
LEMMA SetConstStep ==
  ASSUME CountInv, Running, Room, NEW r \in Regs, SetConst(r)
  PROVE  CountInv'
  <1>1. PICK v \in Values : v = Reg(r)
    BY Runs
  <1>2. PICK m \in Nat : heap \in Heaps(m) /\ Heaps(m) \subseteq Heaps(MaxRc + 1)
    BY HasRoom
  <1>3. stolen \in [Blocks -> Nat] /\ lost \in [Blocks -> Nat]
    BY DEF CountInv, TypeOK
  <1>4. /\ const = None /\ const' = v /\ stolen' = Count(stolen, v, 1)
        /\ frames' = frames /\ lost' = lost /\ heap' = heap
        /\ due' = [b \in Blocks |-> One(None, b)]
    BY <1>1 DEF SetConst, MoveValue
  <1>5. /\ stolen' \in [Blocks -> Nat]
        /\ \A b \in Blocks : stolen'[b] = stolen[b] + One(v, b)
    BY <1>3, <1>4, Counted
  <1>6. due' \in [Blocks -> Nat] /\ \A b \in Blocks : due'[b] = 0
    BY <1>4, OneOfNone
  <1>7. ASSUME NEW b \in Blocks
        PROVE  /\ heap'.rc[b] = 0 => heap'.cell[b] = None
               /\ heap'.rc[b] + stolen'[b] + lost[b] + Tally(Blocks, heap.cell, b)
                    + One(const, b)
                  = heap.rc[b] + stolen[b] + due'[b] + lost'[b]
                      + Tally(Blocks, heap'.cell, b) + One(const', b)
    <2>1. /\ heap.rc[b] \in Nat /\ stolen[b] \in Nat /\ lost[b] \in Nat
          /\ heap.rc[b] = 0 => heap.cell[b] = None
      BY Runs DEF CountInv, TypeOK, FreedEmpty
    <2>2. /\ Tally(Blocks, heap.cell, b) \in Nat
          /\ One(v, b) \in Nat /\ One(const, b) = 0
      BY <1>4, TallyNat, CCodeAssumption, OneOrNone, OneOfNone
    <2>3. stolen'[b] = stolen[b] + One(v, b) /\ due'[b] = 0
      BY <1>5, <1>6
    <2> QED BY ONLY <1>4, <2>1, <2>2, <2>3
  <1> QED BY <1>2, <1>3, <1>4, <1>5, <1>6, <1>7, Runs, HeapStep

\* A content that was empty is written: an element or a bound argument.
LEMMA FillStep ==
  ASSUME CountInv, Running, Room, NEW o \in Blocks, heap.rc[o] > 0,
         heap.cell[o] = None, NEW s \in Regs,
         heap' = [Ref(heap, Reg(s)) EXCEPT !.cell[o] = Reg(s)],
         UNCHANGED <<frames, const, due, lost, stolen>>
  PROVE  CountInv'
  <1>1. PICK m \in Nat : heap \in Heaps(m) /\ Heaps(m + 1) \subseteq Heaps(MaxRc + 1)
    BY HasRoom
  <1>2. PICK v \in Values : v = Reg(s) /\ Named(v)
    BY Runs, NamedOnes
  <1>3. PICK h : h = Ref(heap, v)
    OBVIOUS
  <1>4. /\ h \in Heaps(m + 1) /\ h.cell = heap.cell
        /\ h.fault => \E b \in Blocks : stolen[b] > 0
        /\ ~h.fault => \A b \in Blocks : h.rc[b] = heap.rc[b] + One(v, b)
    BY <1>1, <1>2, <1>3, Runs, RefOnce
  <1>5. PICK g : g = [heap.cell EXCEPT ![o] = v]
    OBVIOUS
  <1>6. /\ heap' \in Heaps(MaxRc + 1) /\ heap'.rc = h.rc /\ heap'.cell = g
        /\ heap'.fault = h.fault
    <2>1. heap' = [h EXCEPT !.cell = g]
      BY <1>2, <1>3, <1>4, <1>5
    <2>2. g \in [Blocks -> Values]
      BY <1>5, Runs
    <2> QED BY <1>1, <1>4, <2>1, <2>2 DEF Heaps
  <1>7. ASSUME ~heap'.fault, NEW b \in Blocks
        PROVE  /\ heap'.rc[b] = 0 => heap'.cell[b] = None
               /\ heap'.rc[b] + stolen'[b] + lost[b] + Tally(Blocks, heap.cell, b)
                    + One(const, b)
                  = heap.rc[b] + stolen[b] + due'[b] + lost'[b]
                      + Tally(Blocks, heap'.cell, b) + One(const', b)
    <2>1. /\ heap.rc[b] \in Nat /\ stolen[b] \in Nat /\ lost[b] \in Nat
          /\ heap.rc[b] = 0 => heap.cell[b] = None
      BY Runs DEF CountInv, TypeOK, FreedEmpty
    <2>2. /\ Tally(Blocks, heap.cell, b) \in Nat /\ Tally(Blocks, g, b) \in Nat
          /\ One(v, b) \in Nat /\ One(const, b) \in Nat /\ One(None, b) = 0
      BY TallyNat, CCodeAssumption, OneOrNone, OneOfNone
    <2>3. Tally(Blocks, g, b) + One(heap.cell[o], b) = Tally(Blocks, heap.cell, b) + One(v, b)
      BY <1>5, Runs, CellWritten
    <2>4. heap'.rc[b] = heap.rc[b] + One(v, b)
      BY <1>4, <1>6, <1>7
    <2>5. heap'.rc[b] = 0 => heap'.cell[b] = None
      <3>1. heap'.rc[b] = 0 => b # o /\ heap.rc[b] = 0
        BY <2>1, <2>2, <2>4
      <3>2. b # o => heap'.cell[b] = heap.cell[b]
        BY <1>5, <1>6, Runs
      <3> QED BY <2>1, <3>1, <3>2
    <2>6. due'[b] = 0 /\ const' = const /\ lost' = lost /\ stolen' = stolen
      BY Runs
    <2> QED BY ONLY <1>6, <2>1, <2>2, <2>3, <2>4, <2>5, <2>6, heap.cell[o] = None
  <1> QED BY <1>4, <1>6, <1>7, Runs, HeapStep DEF CountInv, TypeOK

LEMMA ArrayPushStep ==
  ASSUME CountInv, Running, Room, NEW r \in Regs, NEW s \in Regs, ArrayPush(r, s)
  PROVE  CountInv'
  <1>1. Reg(r) \in Blocks /\ heap.rc[Reg(r)] > 0 /\ heap.cell[Reg(r)] = None
    BY Runs DEF ArrayPush, IsA, Live, Values
  <1> QED BY <1>1, FillStep DEF ArrayPush

LEMMA BindArgStep ==
  ASSUME CountInv, Running, Room, NEW r \in Regs, NEW s \in Regs, BindArg(r, s)
  PROVE  CountInv'
  <1>1. Reg(r) \in Blocks /\ heap.rc[Reg(r)] > 0 /\ heap.cell[Reg(r)] = None
    BY Runs DEF BindArg, IsA, Live, Values
  <1> QED BY <1>1, FillStep DEF BindArg

\* A content is overwritten: two references are taken to the new one and one is
\* given back, while the old one's is lost.
LEMMA IdxSetStep ==
  ASSUME CountInv, Running, Room, NEW r \in Regs, NEW s \in Regs, IdxSet(r, s)
  PROVE  CountInv'
  <1>1. PICK m \in Nat : heap \in Heaps(m) /\ Heaps(m + 2) \subseteq Heaps(MaxRc + 1)
    BY HasRoom
  <1>2. PICK v \in Values : v = Reg(s) /\ Named(v)
    BY Runs, NamedOnes
  <1>3. PICK o \in Blocks : o = Reg(r) /\ heap.rc[o] > 0
    BY Runs DEF IdxSet, IsA, Live, Values
  <1>4. PICK h : h = Ref(Ref(heap, v), v)
    OBVIOUS
  <1>5. /\ h \in Heaps(m + 2) /\ h.cell = heap.cell
        /\ h.fault => \E b \in Blocks : stolen[b] > 0
        /\ ~h.fault => \A b \in Blocks : h.rc[b] = heap.rc[b] + One(v, b) + One(v, b)
    BY <1>1, <1>2, <1>4, Runs, RefTwice
  <1>6. PICK g : g = [heap.cell EXCEPT ![o] = v]
    OBVIOUS
  <1>7. g \in [Blocks -> Values] /\ g[o] = v
    BY <1>6, Runs
  <1>8. /\ heap' = [h EXCEPT !.cell = g] /\ lost' = Count(lost, heap.cell[o], 1)
        /\ due' = [b \in Blocks |-> One(v, b)]
        /\ frames' = frames /\ const' = const /\ stolen' = stolen
    <2>1. PICK t : t = [h EXCEPT !.cell[o] = v]
      OBVIOUS
    <2>2. t = [h EXCEPT !.cell = g] /\ t.cell = g
      BY <1>5, <1>6, <2>1 DEF Heaps
    <2>3. heap' = t /\ due' = [b \in Blocks |-> One(t.cell[o], b)]
      BY <1>2, <1>3, <1>4, <2>1 DEF IdxSet, MoveValue
    <2> QED BY <1>3, <1>7, <2>2, <2>3 DEF IdxSet
  <1>9. /\ heap' \in Heaps(MaxRc + 1) /\ heap'.rc = h.rc /\ heap'.cell = g
        /\ heap'.fault = h.fault
    BY <1>1, <1>5, <1>7, <1>8 DEF Heaps
  <1>10. lost \in [Blocks -> Nat] /\ heap.cell[o] \in Values
    BY Runs DEF CountInv, TypeOK
  <1>11. /\ lost' \in [Blocks -> Nat]
         /\ \A b \in Blocks : lost'[b] = lost[b] + One(heap.cell[o], b)
    <2>1. PICK w \in Values : w = heap.cell[o]
      BY <1>10
    <2>2. lost' = Count(lost, w, 1)
      BY <1>8, <2>1
    <2>3. /\ lost' \in [Blocks -> Nat]
          /\ \A b \in Blocks : lost'[b] = lost[b] + One(w, b)
      <3>1. lost \in [Blocks -> Nat]
        BY <1>10
      <3> QED BY ONLY <2>2, <3>1, w \in Values, Counted
    <2> QED BY <2>1, <2>3
  <1>12. due' \in [Blocks -> Nat] /\ stolen' \in [Blocks -> Nat]
    <2>1. due' \in [Blocks -> Nat]
      BY <1>8, OneOrNone
    <2> QED BY <1>8, <2>1 DEF CountInv, TypeOK
  <1>13. ASSUME ~heap'.fault, NEW b \in Blocks
         PROVE  /\ heap'.rc[b] = 0 => heap'.cell[b] = None
                /\ heap'.rc[b] + stolen'[b] + lost[b] + Tally(Blocks, heap.cell, b)
                     + One(const, b)
                   = heap.rc[b] + stolen[b] + due'[b] + lost'[b]
                       + Tally(Blocks, heap'.cell, b) + One(const', b)
    <2>1. /\ heap.rc[b] \in Nat /\ stolen[b] \in Nat /\ lost[b] \in Nat
          /\ heap.rc[b] = 0 => heap.cell[b] = None
      BY Runs DEF CountInv, TypeOK, FreedEmpty
    <2>2. /\ Tally(Blocks, heap.cell, b) \in Nat /\ Tally(Blocks, g, b) \in Nat
          /\ One(v, b) \in Nat /\ One(const, b) \in Nat /\ One(heap.cell[o], b) \in Nat
      BY TallyNat, CCodeAssumption, OneOrNone
    <2>3. Tally(Blocks, g, b) + One(heap.cell[o], b) = Tally(Blocks, heap.cell, b) + One(v, b)
      BY <1>6, Runs, CellWritten
    <2>4. heap'.rc[b] = heap.rc[b] + One(v, b) + One(v, b)
      BY <1>5, <1>9, <1>13
    <2>5. heap'.rc[b] = 0 => heap'.cell[b] = None
      <3>1. heap'.rc[b] = 0 => b # o /\ heap.rc[b] = 0
        BY <1>3, <2>1, <2>2, <2>4
      <3>2. b # o => heap'.cell[b] = heap.cell[b]
        BY <1>6, <1>9, Runs
      <3> QED BY <2>1, <3>1, <3>2
    <2>6. /\ due'[b] = One(v, b) /\ const' = const /\ stolen' = stolen
          /\ lost'[b] = lost[b] + One(heap.cell[o], b)
      BY <1>8, <1>11
    <2> QED BY ONLY <1>9, <2>1, <2>2, <2>3, <2>4, <2>5, <2>6
  <1> QED BY <1>5, <1>8, <1>9, <1>11, <1>12, <1>13, Runs, HeapStep

\* A field is overwritten, and the reference of the old one given back.
LEMMA SetInnerStep ==
  ASSUME CountInv, Running, Room, NEW r \in Regs, SetInner(r)
  PROVE  CountInv'
  <1>1. PICK m \in Nat : heap \in Heaps(m) /\ Heaps(m + 1) \subseteq Heaps(MaxRc + 1)
    BY HasRoom
  <1>2. PICK v \in Values : v = Reg(r) /\ Named(v)
    BY Runs, NamedOnes
  <1>3. PICK o \in Blocks : o = Top.self /\ heap.rc[o] > 0
    BY Runs DEF SetInner, IsA, Live, Values
  <1>4. PICK h : h = Ref(heap, v)
    OBVIOUS
  <1>5. /\ h \in Heaps(m + 1) /\ h.cell = heap.cell
        /\ h.fault => \E b \in Blocks : stolen[b] > 0
        /\ ~h.fault => \A b \in Blocks : h.rc[b] = heap.rc[b] + One(v, b)
    BY <1>1, <1>2, <1>4, Runs, RefOnce
  <1>6. PICK g : g = [heap.cell EXCEPT ![o] = v]
    OBVIOUS
  <1>7. g \in [Blocks -> Values]
    BY <1>6, Runs
  <1>8. /\ heap' = [h EXCEPT !.cell = g]
        /\ due' = [b \in Blocks |-> One(heap.cell[o], b)]
        /\ frames' = frames /\ const' = const /\ stolen' = stolen /\ lost' = lost
    <2>1. PICK t : t = [h EXCEPT !.cell[o] = v]
      OBVIOUS
    <2>2. t = [h EXCEPT !.cell = g]
      BY <1>5, <1>6, <2>1 DEF Heaps
    <2>3. heap' = t /\ due' = [b \in Blocks |-> One(heap.cell[o], b)]
      BY <1>2, <1>3, <1>4, <2>1 DEF SetInner, MoveValue
    <2> QED BY <2>2, <2>3 DEF SetInner
  <1>9. /\ heap' \in Heaps(MaxRc + 1) /\ heap'.rc = h.rc /\ heap'.cell = g
        /\ heap'.fault = h.fault
    BY <1>1, <1>5, <1>7, <1>8 DEF Heaps
  <1>10. /\ due' \in [Blocks -> Nat] /\ stolen' \in [Blocks -> Nat]
         /\ lost' \in [Blocks -> Nat]
    BY <1>8, OneOrNone DEF CountInv, TypeOK
  <1>11. ASSUME ~heap'.fault, NEW b \in Blocks
         PROVE  /\ heap'.rc[b] = 0 => heap'.cell[b] = None
                /\ heap'.rc[b] + stolen'[b] + lost[b] + Tally(Blocks, heap.cell, b)
                     + One(const, b)
                   = heap.rc[b] + stolen[b] + due'[b] + lost'[b]
                       + Tally(Blocks, heap'.cell, b) + One(const', b)
    <2>1. /\ heap.rc[b] \in Nat /\ stolen[b] \in Nat /\ lost[b] \in Nat
          /\ heap.rc[b] = 0 => heap.cell[b] = None
      BY Runs DEF CountInv, TypeOK, FreedEmpty
    <2>2. /\ Tally(Blocks, heap.cell, b) \in Nat /\ Tally(Blocks, g, b) \in Nat
          /\ One(v, b) \in Nat /\ One(const, b) \in Nat /\ One(heap.cell[o], b) \in Nat
      BY TallyNat, CCodeAssumption, OneOrNone
    <2>3. Tally(Blocks, g, b) + One(heap.cell[o], b) = Tally(Blocks, heap.cell, b) + One(v, b)
      BY <1>6, Runs, CellWritten
    <2>4. heap'.rc[b] = heap.rc[b] + One(v, b)
      BY <1>5, <1>9, <1>11
    <2>5. heap'.rc[b] = 0 => heap'.cell[b] = None
      <3>1. heap'.rc[b] = 0 => b # o /\ heap.rc[b] = 0
        BY <1>3, <2>1, <2>2, <2>4
      <3>2. b # o => heap'.cell[b] = heap.cell[b]
        BY <1>6, <1>9, Runs
      <3> QED BY <2>1, <3>1, <3>2
    <2>6. /\ due'[b] = One(heap.cell[o], b) /\ const' = const
          /\ stolen' = stolen /\ lost' = lost
      BY <1>8
    <2> QED BY ONLY <1>9, <2>1, <2>2, <2>3, <2>4, <2>5, <2>6
  <1> QED BY <1>5, <1>8, <1>9, <1>10, <1>11, Runs, HeapStep

\* An instance is born with a copy in its field.
LEMMA ClassNewInitializedStep ==
  ASSUME CountInv, Running, Room, NEW r \in Regs, NEW s \in Regs,
         ClassNewInitialized(r, s)
  PROVE  CountInv'
  <1>1. PICK m \in Nat : /\ heap \in Heaps(m)
                         /\ Heaps(m + 1) \subseteq Heaps(MaxRc + 1)
                         /\ Heaps(m + 2) \subseteq Heaps(MaxRc + 1)
    BY HasRoom
  <1>2. PICK v \in Values : v = Reg(s) /\ Named(v)
    BY Runs, NamedOnes
  <1>3. PICK c \in Free :
          /\ MoveValue([Ref([heap EXCEPT !.rc[c] = 1, !.kind[c] = "class"], Reg(s))
                          EXCEPT !.cell[c] = Reg(s)], Reg(r))
          /\ frames' = WithReg(r, c)
          /\ UNCHANGED <<const, lost, stolen>>
    BY DEF ClassNewInitialized
  <1>4. c \in Blocks /\ heap.rc[c] = 0 /\ c \in Values /\ heap.cell[c] = None
    BY <1>3, Runs DEF Free, Values, CountInv, FreedEmpty
  <1>5. PICK k : k = [heap EXCEPT !.rc[c] = 1, !.kind[c] = "class"]
    OBVIOUS
  <1>6. /\ k \in Heaps(m + 1) /\ k.cell = heap.cell /\ k.fault = heap.fault
        /\ \A b \in Blocks : k.rc[b] = heap.rc[b] + One(c, b)
    <2>1. 1 \in 0 .. m + 1 /\ "class" \in Kinds /\ 0 .. m \subseteq 0 .. m + 1
      BY DEF Kinds
    <2>2. k \in Heaps(m + 1) /\ k.cell = heap.cell /\ k.fault = heap.fault
      BY <1>1, <1>4, <1>5, <2>1 DEF Heaps
    <2>3. \A b \in Blocks : k.rc[b] = IF b = c THEN 1 ELSE heap.rc[b]
      BY <1>1, <1>4, <1>5 DEF Heaps
    <2>4. \A b \in Blocks : heap.rc[b] \in Nat
      BY <1>1 DEF Heaps
    <2> QED BY <1>4, <2>2, <2>3, <2>4 DEF One
  <1>7. PICK n \in Nat : n = m + 1 /\ n + 1 = m + 2
    OBVIOUS
  <1>8. PICK h : h = Ref(k, v)
    OBVIOUS
  <1>9. /\ h \in Heaps(n + 1) /\ h.cell = k.cell
        /\ v \in Blocks /\ k.rc[v] = 0 => h.fault
        /\ ~(v \in Blocks /\ k.rc[v] = 0) =>
             h.fault = k.fault /\ \A b \in Blocks : h.rc[b] = k.rc[b] + One(v, b)
    BY <1>6, <1>7, <1>8, Referenced
  <1>10. h.fault => \E b \in Blocks : stolen[b] > 0
    <2> SUFFICES ASSUME v \in Blocks, k.rc[v] = 0
                 PROVE  stolen[v] > 0
      BY <1>6, <1>9, Runs
    <2>1. heap.rc[v] = 0
      BY <1>1, <1>6, OneOrNone DEF Heaps
    <2> QED BY <1>2, <2>1, Runs, Dangling DEF Named
  <1>11. ~h.fault => \A b \in Blocks : h.rc[b] = heap.rc[b] + One(c, b) + One(v, b)
    BY <1>6, <1>9
  <1>12. PICK g : g = [heap.cell EXCEPT ![c] = v]
    OBVIOUS
  <1>13. g \in [Blocks -> Values]
    BY <1>12, Runs
  <1>14. PICK t : t = [h EXCEPT !.cell = g]
    OBVIOUS
  <1>15. heap' = t /\ due' = [b \in Blocks |-> One(Reg(r), b)]
    <2>1. t = [h EXCEPT !.cell[c] = v]
      BY <1>6, <1>9, <1>12, <1>14 DEF Heaps
    <2> QED BY <1>2, <1>3, <1>5, <1>8, <2>1 DEF MoveValue
  <1>16. /\ t \in Heaps(MaxRc + 1) /\ t.rc = h.rc /\ t.cell = g /\ t.fault = h.fault
    BY <1>1, <1>7, <1>9, <1>13, <1>14 DEF Heaps
  <1>17. Writes(r, c, t)
    <2>1. due' \in [Blocks -> Nat]
      BY <1>15, OneOrNone
    <2> QED BY <1>3, <1>4, <1>15, <1>16, <2>1 DEF Writes, CountInv, TypeOK
  <1>18. ASSUME ~t.fault, NEW b \in Blocks
         PROVE  /\ t.rc[b] = 0 => t.cell[b] = None
                /\ t.rc[b] + stolen'[b] + lost[b] + Tally(Blocks, heap.cell, b)
                     + One(Reg(r), b)
                   = heap.rc[b] + stolen[b] + One(c, b) + due'[b] + lost'[b]
                       + Tally(Blocks, t.cell, b)
    <2>1. /\ heap.rc[b] \in Nat /\ stolen[b] \in Nat /\ lost[b] \in Nat
          /\ heap.rc[b] = 0 => heap.cell[b] = None
      BY Runs DEF CountInv, TypeOK, FreedEmpty
    <2>2. /\ Tally(Blocks, heap.cell, b) \in Nat /\ Tally(Blocks, g, b) \in Nat
          /\ One(v, b) \in Nat /\ One(Reg(r), b) \in Nat /\ One(c, b) \in Nat
          /\ One(None, b) = 0
      BY TallyNat, CCodeAssumption, OneOrNone, OneOfNone
    <2>3. Tally(Blocks, g, b) + One(heap.cell[c], b) = Tally(Blocks, heap.cell, b) + One(v, b)
      BY <1>4, <1>12, Runs, CellWritten
    <2>4. t.rc[b] = heap.rc[b] + One(c, b) + One(v, b)
      BY <1>11, <1>16, <1>18
    <2>5. t.rc[b] = 0 => t.cell[b] = None
      <3>1. t.rc[b] = 0 => One(c, b) = 0 /\ heap.rc[b] = 0
        <4>1. PICK x, y, z \in Nat : x = heap.rc[b] /\ y = One(c, b) /\ z = One(v, b)
          BY <2>1, <2>2
        <4>2. x + y + z = 0 => x = 0 /\ y = 0
          OBVIOUS
        <4> QED BY ONLY <2>4, <4>1, <4>2
      <3>2. One(c, b) = 0 => t.cell[b] = heap.cell[b]
        BY <1>4, <1>12, <1>16, Runs DEF One
      <3> QED BY <2>1, <3>1, <3>2
    <2>6. /\ due'[b] = One(Reg(r), b) /\ stolen' = stolen /\ lost' = lost
      BY <1>3, <1>15
    <2> QED BY ONLY <1>4, <1>16, <2>1, <2>2, <2>3, <2>4, <2>5, <2>6
  <1> QED BY <1>3, <1>10, <1>16, <1>17, <1>18, RegisterStep

\* A freed block is used: a register or the object names it.
LEMMA UseFreedStep ==
  ASSUME CountInv, Running, Room, UseFreed
  PROVE  CountInv'
  <1>1. PICK v : v \in {Reg(r) : r \in Regs} \cup {Top.self} /\ v # None /\ ~Live(v)
    BY DEF UseFreed
  <1>2. v \in Blocks /\ Named(v)
    BY <1>1, Runs, NamedOnes DEF Values
  <1>3. heap.rc[v] = 0
    BY <1>1, <1>2 DEF Live, CountInv, TypeOK
  <1>4. stolen[v] > 0
    BY <1>2, <1>3, Runs, Dangling DEF Named
  <1>5. /\ heap' = [heap EXCEPT !.fault = TRUE] /\ frames' = frames /\ const' = const
        /\ due' = due /\ lost' = lost /\ stolen' = stolen
    BY DEF UseFreed, Fault
  <1>6. heap' \in Heaps(MaxRc + 1) /\ heap'.fault
    BY <1>5 DEF CountInv, TypeOK, Heaps
  <1> QED BY <1>2, <1>4, <1>5, <1>6, Runs, HeapStep DEF CountInv, TypeOK

-----------------------------------------------------------------------------
(* Calls.                                                                   *)

\* A function is entered with the references h, which miss as many references
\* to the argument and to `after` as are counted as stolen.
LEMMA EnterStep ==
  ASSUME CountInv, Running, NEW arg \in Values, NEW into \in Regs, NEW after \in Values,
         NEW m \in Nat, NEW h \in Heaps(m), Heaps(m) \subseteq Heaps(MaxRc + 1),
         Heaps(m + 1) \subseteq Heaps(MaxRc + 1), h.cell = heap.cell,
         Enter(h, arg, into, after), stolen' \in [Blocks -> Nat],
         h.fault => \E b \in Blocks : stolen'[b] > 0,
         ~h.fault => \A b \in Blocks :
            /\ h.rc[b] >= heap.rc[b]
            /\ h.rc[b] + stolen'[b]
                 = heap.rc[b] + stolen[b] + One(arg, b) + One(after, b)
  PROVE  CountInv'
  <1>1. PICK self \in Values :
          /\ frames' = Append(frames, Frame(arg, self, into, after))
          /\ \/ self = None /\ heap' = h
             \/ self = arg /\ IsA(arg, "class") /\ heap' = Ref(h, arg)
    <2>1. CASE /\ heap' = h
               /\ frames' = Append(frames, Frame(arg, None, into, after))
      BY <2>1 DEF Values
    <2>2. CASE /\ IsA(arg, "class") /\ heap' = Ref(h, arg)
               /\ frames' = Append(frames, Frame(arg, arg, into, after))
      BY <2>2
    <2> QED BY <2>1, <2>2 DEF Enter
  <1>2. const' = const /\ due' = due /\ lost' = lost
    BY DEF Enter
  <1>3. PICK fs \in Seq(Frames) : fs = frames
    BY Runs
  <1>4. PICK gs : gs = frames'
    OBVIOUS
  <1>5. /\ fs = frames /\ gs = frames'
        /\ gs = Append(fs, Frame(arg, self, into, after))
    BY <1>1, <1>3, <1>4
  <1>6. into \in Regs \cup {None}
    OBVIOUS
  <1>7. \A b \in Blocks :
          InFrames(gs, b) = InFrames(fs, b) + One(arg, b) + One(self, b) + One(after, b)
    <2> TAKE b \in Blocks
    <2>1. gs = Push(fs, arg, self, into, after)
      BY <1>5 DEF Push
    <2> QED BY ONLY <1>6, <2>1, fs \in Seq(Frames), arg \in Values, self \in Values,
                   after \in Values, b \in Blocks, FramePushed
  <1>8. /\ gs \in Seq(Frames) /\ Len(gs) = Len(fs) + 1
        /\ \A i \in DOMAIN fs : gs[i] = fs[i]
        /\ gs[Len(gs)].into = into
    <2>1. gs = Append(fs, Frame(arg, self, into, after))
            /\ Frame(arg, self, into, after) \in Frames
            /\ Frame(arg, self, into, after).into = into
      BY <1>5 DEF Frame, Frames, Values
    <2> QED BY <2>1, AppendProperties
  <1>9. frames' \in Seq(Frames) /\ Callers'
    <2>1. \A i \in DOMAIN gs : i > 1 => gs[i].into \in Regs
      <3> SUFFICES ASSUME NEW i \in DOMAIN gs, i > 1 PROVE gs[i].into \in Regs
        OBVIOUS
      <3>1. i \in DOMAIN fs \/ i = Len(gs)
        BY <1>8
      <3>2. i \in DOMAIN fs => fs[i].into \in Regs
        BY <1>5 DEF CountInv, Callers
      <3> QED BY <1>8, <3>1, <3>2
    <2> QED BY <1>5, <1>8, <2>1 DEF Callers
  <1>10. PICK gain \in [Blocks -> Nat] :
          \A b \in Blocks : gain[b] = One(arg, b) + One(self, b) + One(after, b)
    <2>1. \A b \in Blocks : One(arg, b) + One(self, b) + One(after, b) \in Nat
      <3> TAKE b \in Blocks
      <3>1. One(arg, b) \in Nat /\ One(self, b) \in Nat /\ One(after, b) \in Nat
        BY OneOrNone
      <3> QED BY ONLY <3>1
    <2>2. PICK g : g = [b \in Blocks |-> One(arg, b) + One(self, b) + One(after, b)]
      OBVIOUS
    <2> QED BY <2>1, <2>2
  <1>11. PICK loss \in [Blocks -> Nat] : \A b \in Blocks : loss[b] = 0
    <2>1. Nothing \in [Blocks -> Nat] /\ \A b \in Blocks : Nothing[b] = 0
      BY DEF Nothing
    <2> QED BY <2>1
  <1>12. \A b \in Blocks : InFrames(frames', b) + loss[b] = InFrames(frames, b) + gain[b]
    <2> TAKE b \in Blocks
    <2>1. InFrames(fs, b) \in Nat /\ InFrames(gs, b) \in Nat
      BY ONLY <1>8, fs \in Seq(Frames), InFramesIsNat
    <2>2. One(arg, b) \in Nat /\ One(self, b) \in Nat /\ One(after, b) \in Nat
      BY ONLY OneOrNone
    <2>3. /\ gain[b] = One(arg, b) + One(self, b) + One(after, b) /\ loss[b] = 0
          /\ InFrames(gs, b)
               = InFrames(fs, b) + One(arg, b) + One(self, b) + One(after, b)
      BY <1>7, <1>10, <1>11
    <2>4. InFrames(gs, b) + loss[b] = InFrames(fs, b) + gain[b]
      BY ONLY <2>1, <2>2, <2>3
    <2> QED BY <1>5, <2>4
  <1>13. /\ heap' \in Heaps(MaxRc + 1) /\ heap'.cell = heap.cell
         /\ heap'.fault => \E b \in Blocks : stolen'[b] > 0
         /\ ~heap'.fault => ~h.fault
         /\ ~heap'.fault => \A b \in Blocks : heap'.rc[b] = h.rc[b] + One(self, b)
    <2>1. CASE self = None /\ heap' = h
      <3>1. \A b \in Blocks : One(self, b) = 0 /\ h.rc[b] \in Nat
        BY <2>1, OneOfNone DEF Heaps
      <3> QED BY <2>1, <3>1
    <2>2. CASE self = arg /\ IsA(arg, "class") /\ heap' = Ref(h, arg)
      <3>1. /\ heap' \in Heaps(m + 1) /\ heap'.cell = h.cell
            /\ arg \in Blocks /\ h.rc[arg] = 0 => heap'.fault
            /\ ~(arg \in Blocks /\ h.rc[arg] = 0) =>
                 /\ heap'.fault = h.fault
                 /\ \A b \in Blocks : heap'.rc[b] = h.rc[b] + One(arg, b)
        BY <2>2, Referenced
      <3>2. arg \in Blocks /\ heap.rc[arg] > 0
        BY <2>2 DEF IsA, Live, Values
      <3>3. ~h.fault => h.rc[arg] # 0
        <4>1. heap.rc[arg] \in Nat /\ h.rc[arg] \in Nat
          BY <3>2 DEF CountInv, TypeOK, Heaps
        <4>2. ~h.fault => h.rc[arg] >= heap.rc[arg]
          BY <3>2
        <4> QED BY ONLY <3>2, <4>1, <4>2
      <3>4. ~h.fault => ~heap'.fault
        BY <3>1, <3>3
      <3>5. h.fault => heap'.fault
        BY <3>1
      <3> QED BY <2>2, <3>1, <3>3, <3>4, <3>5
    <2> QED BY <1>1, <2>1, <2>2
  <1>14. ASSUME ~heap'.fault, NEW b \in Blocks
         PROVE  /\ heap'.rc[b] = 0 => heap.rc[b] = 0
                /\ heap'.rc[b] + stolen'[b] + loss[b]
                     = heap.rc[b] + stolen[b] + gain[b] + due'[b]
    <2>1. PICK x, y, z \in Nat : x = One(arg, b) /\ y = One(self, b) /\ z = One(after, b)
      BY OneOrNone
    <2>2. PICK c, d, e \in Nat : c = heap.rc[b] /\ d = h.rc[b] /\ e = heap'.rc[b]
      BY <1>13 DEF CountInv, TypeOK, Heaps
    <2>3. PICK p, q \in Nat : p = stolen[b] /\ q = stolen'[b]
      BY DEF CountInv, TypeOK
    <2>4. d >= c /\ d + q = c + p + x + z /\ e = d + y
      BY <1>13, <1>14, <2>1, <2>2, <2>3
    <2>5. gain[b] = x + y + z /\ loss[b] = 0 /\ due'[b] = 0
      BY <1>2, <1>10, <1>11, <2>1, Runs
    <2>6. (e = 0 => c = 0) /\ e + q + 0 = c + p + (x + y + z) + 0
      BY ONLY <2>4, c \in Nat, d \in Nat, e \in Nat, p \in Nat, q \in Nat,
              x \in Nat, y \in Nat, z \in Nat
    <2> QED BY ONLY <2>2, <2>3, <2>5, <2>6
  <1>15. due' \in [Blocks -> Nat]
    BY <1>2 DEF CountInv, TypeOK
  <1> QED BY <1>2, <1>9, <1>12, <1>13, <1>14, <1>15, FrameStep

LEMMA CallStep ==
  ASSUME CountInv, Running, Room, NEW r \in Regs, NEW s \in Regs, Call(r, s)
  PROVE  CountInv'
  <1>1. PICK m \in Nat : /\ heap \in Heaps(m) /\ Heaps(m) \subseteq Heaps(MaxRc + 1)
                         /\ Heaps(m + 1) \subseteq Heaps(MaxRc + 1)
    BY HasRoom
  <1>2. PICK v \in Values : v = Reg(s)
    BY Runs
  <1>3. stolen \in [Blocks -> Nat] /\ stolen' = Count(stolen, v, 1)
    BY <1>2 DEF Call, CountInv, TypeOK
  <1>4. /\ stolen' \in [Blocks -> Nat]
        /\ \A b \in Blocks : stolen'[b] = stolen[b] + One(v, b)
    BY <1>3, Counted
  <1>5. ASSUME NEW b \in Blocks
        PROVE  /\ heap.rc[b] >= heap.rc[b]
               /\ heap.rc[b] + stolen'[b]
                    = heap.rc[b] + stolen[b] + One(v, b) + One(None, b)
    <2>1. heap.rc[b] \in Nat /\ stolen[b] \in Nat
      BY DEF CountInv, TypeOK
    <2>2. One(v, b) \in Nat
      BY OneOrNone
    <2>3. One(None, b) = 0
      BY OneOfNone
    <2>4. stolen'[b] = stolen[b] + One(v, b)
      BY <1>4
    <2> QED BY ONLY <2>1, <2>2, <2>3, <2>4
  <1>6. Enter(heap, v, r, None) /\ None \in Values
    BY <1>2 DEF Call, Values
  <1> QED BY <1>1, <1>4, <1>5, <1>6, Runs, EnterStep

LEMMA CallFuncValueStep ==
  ASSUME CountInv, Running, Room, NEW r \in Regs, NEW s \in Regs, NEW t \in Regs,
         CallFuncValue(r, s, t)
  PROVE  CountInv'
  <1>1. PICK m \in Nat : /\ heap \in Heaps(m)
                         /\ Heaps(m) \subseteq Heaps(MaxRc + 1)
                         /\ Heaps(m + 1) \subseteq Heaps(MaxRc + 1)
                         /\ Heaps(m + 2) \subseteq Heaps(MaxRc + 1)
    BY HasRoom
  <1>2. PICK f \in Blocks : f = Reg(r)
    BY Runs DEF CallFuncValue, IsA, Live, Values
  <1>3. stolen \in [Blocks -> Nat]
    BY DEF CountInv, TypeOK
  <1>4. CASE /\ heap.cell[f] # None
             /\ Enter(Ref(heap, heap.cell[f]), heap.cell[f], t, heap.cell[f])
             /\ stolen' = Count(stolen, heap.cell[f], 1)
    <2>1. PICK v \in Values : v = heap.cell[f] /\ Named(v)
      BY Runs, NamedOnes
    <2>2. PICK h : h = Ref(heap, v)
      OBVIOUS
    <2>3. /\ h \in Heaps(m + 1) /\ h.cell = heap.cell
          /\ h.fault => \E b \in Blocks : stolen[b] > 0
          /\ ~h.fault => \A b \in Blocks : h.rc[b] = heap.rc[b] + One(v, b)
      BY <1>1, <2>1, <2>2, Runs, RefOnce
    <2>4. /\ stolen' \in [Blocks -> Nat]
          /\ \A b \in Blocks : /\ stolen'[b] = stolen[b] + One(v, b)
                               /\ stolen'[b] >= stolen[b]
      <3>1. stolen' = Count(stolen, v, 1)
        BY <1>4, <2>1
      <3> QED BY <1>3, <3>1, Counted
    <2>5. h.fault => \E b \in Blocks : stolen'[b] > 0
      <3> SUFFICES ASSUME h.fault PROVE \E b \in Blocks : stolen'[b] > 0
        OBVIOUS
      <3>1. PICK b \in Blocks : stolen[b] > 0
        BY <2>3
      <3>2. stolen'[b] >= stolen[b] /\ stolen[b] \in Nat /\ stolen'[b] \in Nat
        BY <1>3, <2>4
      <3>3. stolen'[b] > 0
        BY ONLY <3>1, <3>2
      <3> QED BY <3>3
    <2>6. ASSUME ~h.fault, NEW b \in Blocks
          PROVE  /\ h.rc[b] >= heap.rc[b]
                 /\ h.rc[b] + stolen'[b]
                      = heap.rc[b] + stolen[b] + One(v, b) + One(v, b)
      <3>1. PICK c, d, x \in Nat : c = heap.rc[b] /\ d = stolen[b] /\ x = One(v, b)
        BY OneOrNone DEF CountInv, TypeOK
      <3>2. h.rc[b] = c + x /\ stolen'[b] = d + x
        BY <2>3, <2>4, <2>6, <3>1
      <3>3. c + x >= c /\ c + x + (d + x) = c + d + x + x
        BY ONLY c \in Nat, d \in Nat, x \in Nat
      <3> QED BY ONLY <3>1, <3>2, <3>3
    <2>7. Enter(h, v, t, v)
      BY <1>4, <2>1, <2>2
    <2>8. PICK n \in Nat : n = m + 1 /\ n + 1 = m + 2
      OBVIOUS
    <2>9. /\ h \in Heaps(n) /\ Heaps(n) \subseteq Heaps(MaxRc + 1)
          /\ Heaps(n + 1) \subseteq Heaps(MaxRc + 1)
      BY <1>1, <2>3, <2>8
    <2> QED BY <2>3, <2>4, <2>5, <2>6, <2>7, <2>9, EnterStep
  <1>5. CASE /\ heap.cell[f] = None
             /\ Enter(heap, Reg(s), t, Reg(s))
             /\ stolen' = Count(stolen, Reg(s), 2)
    <2>1. PICK v \in Values : v = Reg(s)
      BY Runs
    <2>2. /\ stolen' \in [Blocks -> Nat]
          /\ \A b \in Blocks : stolen'[b] = stolen[b] + One(v, b) + One(v, b)
      <3>1. stolen' = Count(stolen, v, 2)
        BY <1>5, <2>1
      <3> QED BY <1>3, <3>1, Counted
    <2>3. ASSUME NEW b \in Blocks
          PROVE  /\ heap.rc[b] >= heap.rc[b]
                 /\ heap.rc[b] + stolen'[b]
                      = heap.rc[b] + stolen[b] + One(v, b) + One(v, b)
      <3>1. PICK c, d, x \in Nat : c = heap.rc[b] /\ d = stolen[b] /\ x = One(v, b)
        BY OneOrNone DEF CountInv, TypeOK
      <3>2. stolen'[b] = d + x + x
        BY <2>2, <3>1
      <3>3. c >= c /\ c + (d + x + x) = c + d + x + x
        BY ONLY c \in Nat, d \in Nat, x \in Nat
      <3> QED BY ONLY <3>1, <3>2, <3>3
    <2>4. Enter(heap, v, t, v)
      BY <1>5, <2>1
    <2> QED BY <1>1, <2>2, <2>3, <2>4, Runs, EnterStep
  <1> QED BY <1>2, <1>4, <1>5 DEF CallFuncValue

LEMMA CallNativeStep ==
  ASSUME CountInv, Running, Room, NEW r \in Regs, NEW s \in Regs, CallNative(r, s)
  PROVE  CountInv'
  <1>1. PICK v \in Values : v = Reg(s)
    BY Runs
  <1>2. stolen \in [Blocks -> Nat] /\ stolen' = Count(stolen, v, 1)
          /\ const' = const /\ lost' = lost
    BY <1>1 DEF CallNative, CountInv, TypeOK
  <1>3. /\ stolen' \in [Blocks -> Nat]
        /\ \A b \in Blocks : stolen'[b] = stolen[b] + One(v, b)
    BY <1>2, Counted
  <1>4. PICK w \in Values :
          /\ heap' = heap /\ frames' = WithReg(r, w) /\ due' \in [Blocks -> Nat]
          /\ \A b \in Blocks : due'[b] + One(w, b) = One(v, b) + One(Reg(r), b)
    <2>1. CASE /\ due' = [b \in Blocks |-> One(v, b) + One(Reg(r), b)]
               /\ frames' = WithReg(r, None) /\ heap' = heap
      <3>1. \A b \in Blocks : One(v, b) + One(Reg(r), b) \in Nat
        <4> TAKE b \in Blocks
        <4>1. One(v, b) \in Nat /\ One(Reg(r), b) \in Nat
          BY OneOrNone
        <4> QED BY ONLY <4>1
      <3>2. due' \in [Blocks -> Nat]
        BY <2>1, <3>1
      <3>3. \A b \in Blocks : due'[b] + One(None, b) = One(v, b) + One(Reg(r), b)
        BY <2>1, <3>1, OneOfNone
      <3> QED BY <2>1, <3>2, <3>3 DEF Values
    <2>2. CASE MoveValue(heap, Reg(r)) /\ frames' = WithReg(r, v)
      <3>1. heap' = heap /\ due' = [b \in Blocks |-> One(Reg(r), b)]
        BY <2>2 DEF MoveValue
      <3>2. due' \in [Blocks -> Nat]
        BY <3>1, OneOrNone
      <3>3. \A b \in Blocks : due'[b] + One(v, b) = One(v, b) + One(Reg(r), b)
        <4> TAKE b \in Blocks
        <4>1. One(v, b) \in Nat /\ One(Reg(r), b) \in Nat
          BY OneOrNone
        <4>2. due'[b] = One(Reg(r), b)
          BY <3>1
        <4> QED BY ONLY <4>1, <4>2
      <3> QED BY <2>2, <3>1, <3>2, <3>3
    <2> QED BY <1>1, <2>1, <2>2 DEF CallNative
  <1>5. heap \in Heaps(MaxRc + 1)
    BY DEF CountInv, TypeOK, Heaps
  <1>6. Writes(r, w, heap)
    BY <1>2, <1>3, <1>4, <1>5 DEF Writes, CountInv, TypeOK
  <1>7. ASSUME NEW b \in Blocks
        PROVE  /\ heap.rc[b] = 0 => heap.cell[b] = None
               /\ heap.rc[b] + stolen'[b] + lost[b] + Tally(Blocks, heap.cell, b)
                    + One(Reg(r), b)
                  = heap.rc[b] + stolen[b] + One(w, b) + due'[b] + lost'[b]
                      + Tally(Blocks, heap.cell, b)
    <2>1. /\ heap.rc[b] \in Nat /\ stolen[b] \in Nat /\ lost[b] \in Nat
          /\ heap.rc[b] = 0 => heap.cell[b] = None
      BY Runs DEF CountInv, TypeOK, FreedEmpty
    <2>2. Tally(Blocks, heap.cell, b) \in Nat
      BY TallyNat, CCodeAssumption
    <2>3. One(v, b) \in Nat /\ One(w, b) \in Nat /\ One(Reg(r), b) \in Nat
      BY OneOrNone
    <2>4. /\ stolen'[b] = stolen[b] + One(v, b) /\ lost' = lost
          /\ due'[b] + One(w, b) = One(v, b) + One(Reg(r), b) /\ due'[b] \in Nat
      BY <1>2, <1>3, <1>4
    <2> QED BY ONLY <2>1, <2>2, <2>3, <2>4
  <1> QED BY <1>5, <1>6, <1>7, Runs, RegisterStep

\* A native function value: it may answer with the argument it was given.
LEMMA CallNativeValueStep ==
  ASSUME CountInv, Running, Room, NEW r \in Regs, NEW s \in Regs, NEW t \in Regs,
         CallNativeValue(r, s, t)
  PROVE  CountInv'
  <1>1. PICK m \in Nat : /\ heap \in Heaps(m)
                         /\ Heaps(m) \subseteq Heaps(MaxRc + 1)
                         /\ Heaps(m + 1) \subseteq Heaps(MaxRc + 1)
    BY HasRoom
  <1>2. Reg(r) \in Blocks
    BY Runs DEF CallNativeValue, IsA, Live, Values
  <1>3. PICK g \in Values : g = heap.cell[Reg(r)] /\ Named(g)
    BY <1>2, Runs, NamedOnes
  <1>4. PICK v \in Values : v = IF g = None THEN Reg(s) ELSE g
    BY Runs
  <1>5. PICK h : h = Ref(heap, g)
    OBVIOUS
  <1>6. /\ h \in Heaps(MaxRc + 1) /\ h.cell = heap.cell
        /\ h.fault => \E b \in Blocks : stolen[b] > 0
        /\ ~h.fault => \A b \in Blocks : h.rc[b] = heap.rc[b] + One(g, b)
    BY <1>1, <1>3, <1>5, Runs, RefOnce
  <1>7. /\ heap' = h /\ const' = const /\ lost' = lost
        /\ stolen' = Count(stolen, v, IF g = None THEN 2 ELSE 1)
        /\ \/ /\ due' = [b \in Blocks |-> 2 * One(v, b) + One(Reg(t), b)]
              /\ frames' = WithReg(t, None)
           \/ /\ due' = [b \in Blocks |-> One(v, b) + One(Reg(t), b)]
              /\ frames' = WithReg(t, v)
    BY <1>3, <1>4, <1>5 DEF CallNativeValue
  <1>8. stolen \in [Blocks -> Nat]
    BY DEF CountInv, TypeOK
  <1>9. /\ stolen' \in [Blocks -> Nat]
        /\ \A b \in Blocks :
             /\ stolen'[b] >= stolen[b]
             /\ One(g, b) + stolen'[b] = stolen[b] + One(v, b) + One(v, b)
    <2>1. CASE g = None
      <3>1. stolen' = Count(stolen, v, 2)
        BY <1>7, <2>1
      <3>2. /\ stolen' \in [Blocks -> Nat]
            /\ \A b \in Blocks : /\ stolen'[b] >= stolen[b]
                                 /\ stolen'[b] = stolen[b] + One(v, b) + One(v, b)
        BY <1>8, <3>1, Counted
      <3>3. ASSUME NEW b \in Blocks
            PROVE  One(g, b) + stolen'[b] = stolen[b] + One(v, b) + One(v, b)
        <4>1. One(g, b) = 0
          BY <2>1, OneOfNone
        <4>2. stolen'[b] \in Nat /\ stolen'[b] = stolen[b] + One(v, b) + One(v, b)
          BY <3>2
        <4> QED BY ONLY <4>1, <4>2
      <3> QED BY <3>2, <3>3
    <2>2. CASE g # None
      <3>1. stolen' = Count(stolen, v, 1) /\ v = g
        BY <1>4, <1>7, <2>2
      <3>2. /\ stolen' \in [Blocks -> Nat]
            /\ \A b \in Blocks : /\ stolen'[b] >= stolen[b]
                                 /\ stolen'[b] = stolen[b] + One(v, b)
        BY <1>8, <3>1, Counted
      <3>3. ASSUME NEW b \in Blocks
            PROVE  One(g, b) + stolen'[b] = stolen[b] + One(v, b) + One(v, b)
        <4>1. One(g, b) = One(v, b) /\ One(v, b) \in Nat /\ stolen[b] \in Nat
          BY <1>8, <3>1, OneOrNone
        <4>2. stolen'[b] = stolen[b] + One(v, b)
          BY <3>2
        <4> QED BY ONLY <4>1, <4>2
      <3> QED BY <3>2, <3>3
    <2> QED BY <2>1, <2>2
  <1>10. PICK w \in Values :
           /\ frames' = WithReg(t, w) /\ due' \in [Blocks -> Nat]
           /\ \A b \in Blocks :
                due'[b] + One(w, b) = One(v, b) + One(v, b) + One(Reg(t), b)
    <2>1. \A b \in Blocks : One(v, b) \in Nat /\ One(Reg(t), b) \in Nat
      BY OneOrNone
    <2>2. CASE /\ due' = [b \in Blocks |-> 2 * One(v, b) + One(Reg(t), b)]
               /\ frames' = WithReg(t, None)
      <3>1. \A b \in Blocks :
              /\ 2 * One(v, b) + One(Reg(t), b) \in Nat
              /\ 2 * One(v, b) + One(Reg(t), b) = One(v, b) + One(v, b) + One(Reg(t), b)
        BY ONLY <2>1
      <3>2. due' \in [Blocks -> Nat]
        BY <2>2, <3>1
      <3>3. \A b \in Blocks :
              due'[b] + One(None, b) = One(v, b) + One(v, b) + One(Reg(t), b)
        <4> TAKE b \in Blocks
        <4>1. /\ due'[b] = One(v, b) + One(v, b) + One(Reg(t), b) /\ due'[b] \in Nat
              /\ One(None, b) = 0
          BY <2>2, <3>1, OneOfNone
        <4> QED BY ONLY <4>1
      <3> QED BY <2>2, <3>2, <3>3 DEF Values
    <2>3. CASE /\ due' = [b \in Blocks |-> One(v, b) + One(Reg(t), b)]
               /\ frames' = WithReg(t, v)
      <3>1. \A b \in Blocks : One(v, b) + One(Reg(t), b) \in Nat
        BY ONLY <2>1
      <3>2. due' \in [Blocks -> Nat]
        BY <2>3, <3>1
      <3>3. \A b \in Blocks :
              due'[b] + One(v, b) = One(v, b) + One(v, b) + One(Reg(t), b)
        <4> TAKE b \in Blocks
        <4>1. due'[b] = One(v, b) + One(Reg(t), b)
          BY <2>3
        <4>2. One(v, b) \in Nat /\ One(Reg(t), b) \in Nat
          BY <2>1
        <4> QED BY ONLY <4>1, <4>2
      <3> QED BY <2>3, <3>2, <3>3
    <2> QED BY <1>7, <2>2, <2>3
  <1>11. h.fault => \E b \in Blocks : stolen'[b] > 0
    <2> SUFFICES ASSUME h.fault PROVE \E b \in Blocks : stolen'[b] > 0
      OBVIOUS
    <2>1. PICK b \in Blocks : stolen[b] > 0
      BY <1>6
    <2>2. stolen'[b] >= stolen[b] /\ stolen[b] \in Nat /\ stolen'[b] \in Nat
      BY <1>8, <1>9
    <2>3. stolen'[b] > 0
      BY ONLY <2>1, <2>2
    <2> QED BY <2>3
  <1>12. Writes(t, w, h)
    BY <1>6, <1>7, <1>9, <1>10 DEF Writes, CountInv, TypeOK
  <1>13. ASSUME ~h.fault, NEW b \in Blocks
         PROVE  /\ h.rc[b] = 0 => h.cell[b] = None
                /\ h.rc[b] + stolen'[b] + lost[b] + Tally(Blocks, heap.cell, b)
                     + One(Reg(t), b)
                   = heap.rc[b] + stolen[b] + One(w, b) + due'[b] + lost'[b]
                       + Tally(Blocks, h.cell, b)
    <2>1. /\ heap.rc[b] \in Nat /\ stolen[b] \in Nat /\ lost[b] \in Nat
          /\ heap.rc[b] = 0 => heap.cell[b] = None
      BY Runs DEF CountInv, TypeOK, FreedEmpty
    <2>2. /\ Tally(Blocks, heap.cell, b) \in Nat
          /\ One(g, b) \in Nat /\ One(v, b) \in Nat /\ One(w, b) \in Nat
          /\ One(Reg(t), b) \in Nat /\ due'[b] \in Nat /\ stolen'[b] \in Nat
      BY <1>9, <1>10, TallyNat, CCodeAssumption, OneOrNone
    <2>3. /\ h.rc[b] = heap.rc[b] + One(g, b) /\ h.cell = heap.cell
          /\ One(g, b) + stolen'[b] = stolen[b] + One(v, b) + One(v, b)
          /\ due'[b] + One(w, b) = One(v, b) + One(v, b) + One(Reg(t), b)
          /\ lost' = lost
      BY <1>6, <1>7, <1>9, <1>10, <1>13
    <2> QED BY ONLY <2>1, <2>2, <2>3
  <1> QED BY <1>6, <1>11, <1>12, <1>13, RegisterStep

-----------------------------------------------------------------------------
(* Returns.                                                                 *)

\* What the cleanup gives back of a frame, besides `after` and what it keeps.
LEMMA CleanedUp ==
  ASSUME NEW f \in Frames, NEW b
  PROVE  /\ Cleanup(f, {}, FALSE, b) + One(f.after, b) = InFrame(f, b)
         /\ Cleanup(f, {}, TRUE, b) + One(f.after, b) + One(f.local, b) = InFrame(f, b)
         /\ \A r \in Regs :
              /\ Cleanup(f, {r}, FALSE, b) \in Nat
              /\ Cleanup(f, {r}, FALSE, b) + One(f.after, b) + One(f.regs[r], b)
                   = InFrame(f, b)
         /\ Cleanup(f, {}, FALSE, b) \in Nat /\ Cleanup(f, {}, TRUE, b) \in Nat
  <1>1. PICK x, y, z \in Nat : x = One(f.local, b) /\ y = One(f.self, b) /\ z = One(f.after, b)
    BY OneOrNone
  <1>2. PICK t \in Nat : t = Tally(Regs, f.regs, b)
    BY InFrameNat
  <1>3. InFrame(f, b) = t + x + y + z
    BY ONLY <1>1, <1>2 DEF InFrame
  <1>4. Cleanup(f, {}, FALSE, b) = t + x + y /\ Cleanup(f, {}, TRUE, b) = t + 0 + y
    <2>1. {r \in Regs \ {} : f.regs[r] = b} = {r \in Regs : f.regs[r] = b}
      OBVIOUS
    <2> QED BY ONLY <1>1, <1>2, <2>1 DEF Cleanup, Tally
  <1>5. ASSUME NEW r \in Regs
        PROVE  /\ Cleanup(f, {r}, FALSE, b) \in Nat
               /\ Cleanup(f, {r}, FALSE, b) + z + One(f.regs[r], b) = t + x + y + z
    <2>1. IsFiniteSet(Regs)
      BY CCodeAssumption
    <2>2. PICK d \in Nat : d = Tally(Regs \ {r}, f.regs, b) /\ t = d + One(f.regs[r], b)
      BY ONLY <1>2, <2>1, r \in Regs, TallySplit
    <2>3. Cleanup(f, {r}, FALSE, b) = d + x + y
      BY ONLY <1>1, <2>2 DEF Cleanup, Tally
    <2>4. PICK e \in Nat : e = One(f.regs[r], b)
      BY OneOrNone
    <2>5. t = d + e
      BY ONLY <2>2, <2>4
    <2>6. d + x + y \in Nat /\ d + x + y + z + e = t + x + y + z
      BY ONLY <2>5, d \in Nat, e \in Nat, x \in Nat, y \in Nat, z \in Nat
    <2> QED BY ONLY <2>3, <2>4, <2>6
  <1>6. /\ t + x + y + z = t + x + y + z
        /\ t + 0 + y + z + x = t + x + y + z
        /\ t + x + y \in Nat /\ t + 0 + y \in Nat
    OBVIOUS
  <1> QED BY ONLY <1>1, <1>3, <1>4, <1>5, <1>6

\* A return with the value v, which the cleanup left alone.
LEMMA LeaveStep ==
  ASSUME CountInv, Running, NEW kept, NEW localKept, NEW v \in Values,
         Leave(kept, localKept, v), Len(frames) = 1 => v = None,
         \A b \in Blocks :
           /\ Cleanup(Top, kept, localKept, b) \in Nat
           /\ Cleanup(Top, kept, localKept, b) + One(Top.after, b) + One(v, b)
                = InFrame(Top, b)
  PROVE  CountInv'
  <1>1. PICK n \in Nat : n = Len(frames) /\ n > 0
    BY Runs DEF Running
  <1>2. PICK fs \in Seq(Frames) : fs = frames
    BY Runs
  <1>3. PICK gs : gs = Pop(fs)
    OBVIOUS
  <1>4. /\ gs \in Seq(Frames) /\ Len(gs) = n - 1
        /\ \A i \in 1 .. n - 1 : gs[i] = fs[i]
    BY ONLY <1>1, <1>2, <1>3, FramePopped
  <1>5. \A b : InFrames(fs, b) = InFrames(gs, b) + InFrame(fs[n], b)
    <2> TAKE b
    <2> QED BY ONLY <1>1, <1>2, <1>3, FramePopped
  <1>6. Top \in Frames /\ fs[n] = Top
    BY <1>1, <1>2, Runs
  <1>7. PICK old \in Values :
          /\ due' = [b \in Blocks |-> Cleanup(Top, kept, localKept, b)
                                        + One(Top.after, b) + One(old, b)]
          /\ frames' \in Seq(Frames) /\ DOMAIN frames' = DOMAIN gs
          /\ \A i \in DOMAIN gs : frames'[i].into = gs[i].into
          /\ \A b \in Blocks :
               InFrames(frames', b) + One(old, b) = InFrames(gs, b) + One(v, b)
    <2>1. CASE n = 1
      <3>1. v = None /\ gs = <<>> /\ frames' = gs
        BY <1>1, <1>4, <2>1 DEF Leave
      <3>2. due' = [b \in Blocks |-> Cleanup(Top, kept, localKept, b)
                                       + One(Top.after, b) + One(None, b)]
        BY <1>1, <2>1 DEF Leave
      <3> QED BY <1>4, <3>1, <3>2 DEF Values
    <2>2. CASE n > 1
      <3>1. PICK i \in Nat : i = n - 1 /\ i \in DOMAIN gs /\ i = Len(frames) - 1
        BY <1>1, <1>4, <2>2
      <3>2. n \in DOMAIN frames
        BY <1>1, <1>2
      <3>3. PICK r \in Regs : r = Top.into
        BY <1>1, <1>2, <1>6, <2>2, <3>2 DEF CountInv, Callers
      <3>4. frames' = SetReg(gs, i, r, v)
        BY <1>1, <1>2, <1>3, <2>2, <3>1, <3>3 DEF Leave, Pop, SetReg
      <3>5. PICK old \in Values : old = gs[i].regs[r]
        <4>1. gs[i] \in Frames
          BY <1>4, <3>1
        <4> QED BY <4>1 DEF Frames
      <3>6. gs[i] = fs[i]
        BY <1>1, <1>4, <2>2, <3>1
      <3>7. due' = [b \in Blocks |-> Cleanup(Top, kept, localKept, b)
                                       + One(Top.after, b) + One(old, b)]
        BY <1>1, <1>2, <2>2, <3>1, <3>3, <3>5, <3>6 DEF Leave
      <3>8. /\ frames' \in Seq(Frames) /\ DOMAIN frames' = DOMAIN gs
            /\ \A j \in DOMAIN gs : frames'[j].into = gs[j].into
        BY ONLY <1>4, <3>1, <3>4, r \in Regs, v \in Values, RegWritten
      <3>9. \A b \in Blocks :
              InFrames(frames', b) + One(old, b) = InFrames(gs, b) + One(v, b)
        <4> TAKE b \in Blocks
        <4>1. InFrames(frames', b) + One(gs[i].regs[r], b) = InFrames(gs, b) + One(v, b)
          BY ONLY <1>4, <3>1, <3>4, r \in Regs, v \in Values, RegWritten
        <4> QED BY <3>5, <4>1
      <3> QED BY <3>7, <3>8, <3>9
    <2> QED BY <1>1, <2>1, <2>2
  <1>8. \A b \in Blocks : due'[b] \in Nat
                          /\ due'[b] + One(v, b) = InFrame(Top, b) + One(old, b)
    <2> TAKE b \in Blocks
    <2>1. PICK x, y, z \in Nat : x = One(Top.after, b) /\ y = One(v, b) /\ z = One(old, b)
      BY ONLY OneOrNone
    <2>2. PICK c \in Nat : c = Cleanup(Top, kept, localKept, b) /\ c + x + y = InFrame(Top, b)
      BY <2>1
    <2>3. due'[b] = c + x + z
      BY <1>7, <2>1, <2>2
    <2>4. c + x + z \in Nat /\ c + x + z + y = c + x + y + z
      BY ONLY c \in Nat, x \in Nat, y \in Nat, z \in Nat
    <2> QED BY ONLY <2>1, <2>2, <2>3, <2>4
  <1>9. due' \in [Blocks -> Nat]
    BY <1>7, <1>8
  <1>10. frames' \in Seq(Frames) /\ Callers'
    <2>1. \A i \in DOMAIN gs : i > 1 => gs[i].into \in Regs
      <3> SUFFICES ASSUME NEW i \in DOMAIN gs, i > 1 PROVE gs[i].into \in Regs
        OBVIOUS
      <3>1. i \in DOMAIN frames /\ gs[i] = frames[i]
        BY <1>1, <1>2, <1>4
      <3> QED BY <3>1 DEF CountInv, Callers
    <2> QED BY <1>7, <2>1 DEF Callers
  <1>11. PICK gain \in [Blocks -> Nat] : \A b \in Blocks : gain[b] = 0
    <2>1. Nothing \in [Blocks -> Nat] /\ \A b \in Blocks : Nothing[b] = 0
      BY DEF Nothing
    <2> QED BY <2>1
  <1>12. PICK loss \in [Blocks -> Nat] : loss = due'
    BY <1>9
  <1>13. \A b \in Blocks : InFrames(frames', b) + loss[b] = InFrames(frames, b) + gain[b]
    <2> TAKE b \in Blocks
    <2>1. PICK y, z \in Nat : y = One(v, b) /\ z = One(old, b)
      BY ONLY OneOrNone
    <2>2. PICK i, j, k, l \in Nat :
            /\ i = InFrames(fs, b) /\ j = InFrames(frames', b) /\ k = InFrames(gs, b)
            /\ l = InFrame(Top, b)
      <3>1. \A q \in Seq(Frames) : InFrames(q, b) \in Nat
        BY ONLY InFramesIsNat
      <3>2. InFrame(Top, b) \in Nat
        BY ONLY <1>6, InFrameNat
      <3> QED BY <1>4, <1>10, <3>1, <3>2
    <2>3. PICK e \in Nat : e = due'[b]
      BY <1>8
    <2>4. j + z = k + y /\ i = k + l /\ e + y = l + z
      BY <1>5, <1>6, <1>7, <1>8, <2>1, <2>2, <2>3
    <2>5. j + e = i + 0
      BY ONLY <2>4, e \in Nat, i \in Nat, j \in Nat, k \in Nat, l \in Nat, y \in Nat,
              z \in Nat
    <2> QED BY <1>2, <1>11, <1>12, <2>2, <2>3, <2>5
  <1>14. /\ heap' = heap /\ const' = const /\ lost' = lost /\ stolen' = stolen
         /\ heap \in Heaps(MaxRc + 1) /\ ~heap.fault /\ stolen \in [Blocks -> Nat]
    BY Runs DEF Leave, CountInv, TypeOK, Heaps
  <1>15. ASSUME NEW b \in Blocks
         PROVE  heap'.rc[b] + stolen'[b] + loss[b]
                  = heap.rc[b] + stolen[b] + gain[b] + due'[b]
    <2>1. heap.rc[b] \in Nat /\ stolen[b] \in Nat /\ due'[b] \in Nat
      BY <1>9 DEF CountInv, TypeOK
    <2>2. gain[b] = 0 /\ loss[b] = due'[b] /\ heap' = heap /\ stolen' = stolen
      BY <1>11, <1>12, <1>14
    <2> QED BY ONLY <2>1, <2>2
  <1> QED BY <1>9, <1>10, <1>13, <1>14, <1>15, FrameStep

LEMMA RetStep ==
  ASSUME CountInv, Running, NEW r \in Regs, Ret(r)
  PROVE  CountInv'
  <1>1. Top \in Frames /\ Reg(r) = Top.regs[r] /\ Reg(r) \in Values
    BY Runs DEF Reg
  <1>2. \A b \in Blocks :
          /\ Cleanup(Top, {r}, FALSE, b) \in Nat
          /\ Cleanup(Top, {r}, FALSE, b) + One(Top.after, b) + One(Reg(r), b)
               = InFrame(Top, b)
    BY <1>1, CleanedUp
  <1>3. Leave({r}, FALSE, Reg(r)) /\ Len(frames) # 1
    <2>1. PICK n \in Nat : n = Len(frames)
      BY Runs
    <2>2. Leave({r}, FALSE, Reg(r)) /\ n > 1
      BY <2>1 DEF Ret
    <2>3. n # 1
      BY ONLY <2>2
    <2> QED BY <2>1, <2>2, <2>3
  <1> QED BY <1>1, <1>2, <1>3, LeaveStep

LEMMA RetLocalStep ==
  ASSUME CountInv, Running, RetLocal
  PROVE  CountInv'
  <1>1. Top \in Frames /\ Top.local \in Values
    BY Runs
  <1>2. \A b \in Blocks :
          /\ Cleanup(Top, {}, TRUE, b) \in Nat
          /\ Cleanup(Top, {}, TRUE, b) + One(Top.after, b) + One(Top.local, b)
               = InFrame(Top, b)
    BY <1>1, CleanedUp
  <1>3. Leave({}, TRUE, Top.local) /\ Len(frames) # 1
    <2>1. PICK n \in Nat : n = Len(frames)
      BY Runs
    <2>2. Leave({}, TRUE, Top.local) /\ n > 1
      BY <2>1 DEF RetLocal
    <2>3. n # 1
      BY ONLY <2>2
    <2> QED BY <2>1, <2>2, <2>3
  <1> QED BY <1>1, <1>2, <1>3, LeaveStep

LEMMA RetNullStep ==
  ASSUME CountInv, Running, RetNull
  PROVE  CountInv'
  <1>1. Top \in Frames /\ None \in Values
    BY Runs DEF Values
  <1>2. ASSUME NEW b \in Blocks
        PROVE  /\ Cleanup(Top, {}, FALSE, b) \in Nat
               /\ Cleanup(Top, {}, FALSE, b) + One(Top.after, b) + One(None, b)
                    = InFrame(Top, b)
    <2>1. /\ Cleanup(Top, {}, FALSE, b) \in Nat
          /\ Cleanup(Top, {}, FALSE, b) + One(Top.after, b) = InFrame(Top, b)
      BY <1>1, CleanedUp
    <2>2. One(None, b) = 0
      BY OneOfNone
    <2>3. PICK c, x \in Nat : c = Cleanup(Top, {}, FALSE, b) /\ x = One(Top.after, b)
      BY <2>1, OneOrNone
    <2>4. c + x + 0 = c + x
      OBVIOUS
    <2> QED BY ONLY <2>1, <2>2, <2>3, <2>4, c \in Nat
  <1>3. Leave({}, FALSE, None)
    BY DEF RetNull
  <1> QED BY <1>1, <1>2, <1>3, LeaveStep

-----------------------------------------------------------------------------
(* The dereferences.                                                        *)

LEMMA DerefStep ==
  ASSUME CountInv, NEW b \in Blocks, Deref(b)
  PROVE  CountInv'
  <1>1. /\ due[b] > 0 /\ ~heap.fault
        /\ frames' = frames /\ const' = const /\ lost' = lost /\ stolen' = stolen
    BY DEF Deref
  <1>2. /\ frames \in Seq(Frames) /\ heap \in Heaps(MaxRc + 1)
        /\ heap.cell \in [Blocks -> Values] /\ due \in [Blocks -> Nat]
        /\ stolen \in [Blocks -> Nat] /\ lost \in [Blocks -> Nat] /\ const \in Values
    BY DEF CountInv, TypeOK, Heaps
  <1>3. FreedEmpty
    BY <1>1 DEF CountInv
  <1>4. Callers'
    BY <1>1 DEF CountInv, Callers
  <1>5. CASE heap.rc[b] = 0 /\ heap' = Fault(heap) /\ due' = due
    <2>1. heap' \in Heaps(MaxRc + 1) /\ heap'.fault
      BY <1>2, <1>5 DEF Fault, Heaps
    <2>2. stolen'[b] > 0
      BY <1>1, <1>5, Dangling
    <2>3. TypeOK'
      BY <1>1, <1>2, <1>5, <2>1 DEF TypeOK, Heaps
    <2> QED BY <1>1, <1>4, <2>1, <2>2, <2>3, Settled
  <1>6. CASE /\ heap.rc[b] > 1
             /\ heap' = [heap EXCEPT !.rc[b] = @ - 1]
             /\ due' = [due EXCEPT ![b] = @ - 1]
    <2>1. heap.rc[b] \in Nat /\ due[b] \in Nat /\ heap.rc[b] <= MaxRc + 1
            /\ MaxRc \in Nat
      BY <1>2, CCodeAssumption DEF Heaps
    <2>2. heap.rc[b] - 1 \in 0 .. MaxRc + 1 /\ due[b] - 1 \in Nat
            /\ heap.rc[b] - 1 # 0
      BY ONLY <1>1, <1>6, <2>1
    <2>3. /\ heap' \in Heaps(MaxRc + 1) /\ heap'.cell = heap.cell
          /\ heap'.fault = heap.fault
          /\ \A c \in Blocks : heap'.rc[c] = IF c = b THEN heap.rc[b] - 1 ELSE heap.rc[c]
      BY <1>2, <1>6, <2>2 DEF Heaps
    <2>4. /\ due' \in [Blocks -> Nat]
          /\ \A c \in Blocks : due'[c] = IF c = b THEN due[b] - 1 ELSE due[c]
      BY <1>2, <1>6, <2>2
    <2>5. TypeOK'
      BY <1>1, <1>2, <2>3, <2>4 DEF TypeOK, Heaps
    <2>6. FreedEmpty'
      BY <1>3, <2>2, <2>3 DEF FreedEmpty
    <2>7. ASSUME NEW c \in Blocks
          PROVE  heap'.rc[c] + stolen'[c] + Stored(frames, heap, const, c) + due[c] + lost[c]
                   = heap.rc[c] + stolen[c] + Stored(frames', heap', const', c) + due'[c]
                       + lost'[c]
      <3>1. Stored(frames', heap', const', c) = Stored(frames, heap, const, c)
        BY <1>1, <2>3 DEF Stored
      <3>2. PICK x \in Nat : x = Stored(frames, heap, const, c)
        BY <1>2, StoredNat
      <3>3. PICK p, q, s, l \in Nat :
              p = heap.rc[c] /\ q = due[c] /\ s = stolen[c] /\ l = lost[c]
        BY <1>2 DEF Heaps
      <3>4. PICK k \in {0, 1} : heap'.rc[c] = p - k /\ due'[c] = q - k
        BY <2>3, <2>4, <3>3
      <3>5. (p - k) + s + x + q + l = p + s + x + (q - k) + l
        BY ONLY p \in Nat, q \in Nat, s \in Nat, l \in Nat, k \in {0, 1}, x \in Nat
      <3> QED BY ONLY <1>1, <3>1, <3>2, <3>3, <3>4, <3>5
    <2> QED BY <1>1, <1>4, <2>3, <2>5, <2>6, <2>7, Settled
  <1>7. CASE /\ heap.rc[b] = 1
             /\ heap' = [heap EXCEPT !.rc[b] = 0, !.cell[b] = None]
             /\ due' = [c \in Blocks |-> due[c] + One(heap.cell[b], c) - One(b, c)]
    <2>1. PICK w \in Values : w = heap.cell[b]
      BY <1>2
    <2>2. PICK g : g = [heap.cell EXCEPT ![b] = None]
      OBVIOUS
    <2>3. g \in [Blocks -> Values] /\ 0 \in 0 .. MaxRc + 1
      BY <1>2, <2>2, CCodeAssumption DEF Values
    <2>4. /\ heap' \in Heaps(MaxRc + 1) /\ heap'.cell = g /\ heap'.fault = heap.fault
          /\ \A c \in Blocks : heap'.rc[c] = IF c = b THEN 0 ELSE heap.rc[c]
      BY <1>2, <1>7, <2>2, <2>3 DEF Heaps
    <2>5. ASSUME NEW c \in Blocks
          PROVE  due'[c] \in Nat /\ due'[c] + One(b, c) = due[c] + One(w, c)
      <3>1. PICK x, y, d \in Nat : x = One(w, c) /\ y = One(b, c) /\ d = due[c]
        BY <1>2, OneOrNone
      <3>2. d >= y
        <4>1. c = b => y = 1
          BY ONLY <3>1 DEF One
        <4>2. c # b => y = 0
          BY ONLY <3>1 DEF One
        <4>3. c = b => d > 0
          BY <1>1, <3>1
        <4> QED BY ONLY <4>1, <4>2, <4>3, d \in Nat, y \in Nat
      <3>3. due'[c] = d + x - y
        BY <1>7, <2>1, <3>1
      <3>4. d + x - y \in Nat /\ (d + x - y) + y = d + x
        BY ONLY <3>2, d \in Nat, x \in Nat, y \in Nat
      <3> QED BY ONLY <3>1, <3>3, <3>4
    <2>6. due' \in [Blocks -> Nat]
      BY <1>7, <2>5
    <2>7. TypeOK'
      BY <1>1, <1>2, <2>4, <2>6 DEF TypeOK, Heaps
    <2>8. FreedEmpty'
      BY <1>2, <1>3, <2>2, <2>4 DEF FreedEmpty
    <2>9. ASSUME NEW c \in Blocks
          PROVE  heap'.rc[c] + stolen'[c] + Stored(frames, heap, const, c) + due[c] + lost[c]
                   = heap.rc[c] + stolen[c] + Stored(frames', heap', const', c) + due'[c]
                       + lost'[c]
      <3>1. PICK x, y \in Nat : x = One(w, c) /\ y = One(b, c)
        BY OneOrNone
      <3>2. PICK t, u, k \in Nat :
              /\ t = Tally(Blocks, heap.cell, c) /\ u = Tally(Blocks, g, c)
              /\ k = One(const, c)
        BY TallyNat, CCodeAssumption, OneOrNone
      <3>3. PICK i \in Nat : i = InFrames(frames, c)
        BY <1>2, InFramesIsNat
      <3>4. u + x = t
        <4>1. Tally(Blocks, g, c) + One(heap.cell[b], c)
                = Tally(Blocks, heap.cell, c) + One(None, c)
          <5>1. PICK f : f = heap.cell
            OBVIOUS
          <5>2. g[b] = None /\ \A d \in Blocks : d # b => g[d] = f[d]
            BY <1>2, <2>2, <5>1
          <5>3. IsFiniteSet(Blocks)
            BY CCodeAssumption
          <5>4. Tally(Blocks, g, c) + One(f[b], c) = Tally(Blocks, f, c) + One(g[b], c)
            BY ONLY <5>2, <5>3, b \in Blocks, TallyChange
          <5> QED BY <5>1, <5>2, <5>4
        <4>2. One(None, c) = 0
          BY OneOfNone
        <4> QED BY ONLY <2>1, <3>1, <3>2, <4>1, <4>2, t \in Nat
      <3>5. /\ Stored(frames, heap, const, c) = i + t + k
            /\ Stored(frames', heap', const', c) = i + u + k
        BY ONLY <1>1, <2>4, <3>2, <3>3 DEF Stored
      <3>6. PICK p, q, s, l, e \in Nat :
              /\ p = heap.rc[c] /\ q = due[c] /\ s = stolen[c] /\ l = lost[c]
              /\ e = due'[c]
        BY <1>2, <2>6 DEF Heaps
      <3>7. PICK o \in Nat : o = heap'.rc[c] /\ o + y = p
        <4>1. c = b => One(b, c) = 1 /\ heap.rc[c] = 1 /\ heap'.rc[c] = 0
          BY <1>7, <2>4 DEF One
        <4>2. c # b => One(b, c) = 0 /\ heap'.rc[c] = heap.rc[c]
          BY <2>4 DEF One
        <4> QED BY ONLY <3>1, <3>6, <4>1, <4>2
      <3>8. e + y = q + x
        BY <2>5, <3>1, <3>6
      <3>9. o + s + (i + t + k) + q + l = p + s + (i + u + k) + e + l
        BY ONLY <3>4, <3>7, <3>8, e \in Nat, i \in Nat, k \in Nat, l \in Nat, o \in Nat,
                p \in Nat, q \in Nat, s \in Nat, t \in Nat, u \in Nat, x \in Nat, y \in Nat
      <3> QED BY ONLY <1>1, <3>5, <3>6, <3>7, <3>9
    <2> QED BY <1>1, <1>4, <2>4, <2>7, <2>8, <2>9, Settled
  <1> QED BY <1>5, <1>6, <1>7 DEF Deref

-----------------------------------------------------------------------------
(* The invariant holds.                                                     *)

LEMMA CountInit ==
  ASSUME Init
  PROVE  CountInv
  <1>1. PICK fs \in Seq(Frames) : fs = <<>>
    <2>1. <<>> \in Seq(Frames)
      OBVIOUS
    <2> QED BY <2>1
  <1>2. PICK gs : gs = frames
    OBVIOUS
  <1>3. gs = Push(fs, None, None, None, None) /\ gs = <<Frame(None, None, None, None)>>
    BY <1>1, <1>2 DEF Init, Push
  <1>4. gs \in Seq(Frames) /\ DOMAIN gs = {1}
    <2>1. Frame(None, None, None, None) \in Frames
      BY DEF Frame, Frames, Values
    <2> QED BY <1>3, <2>1
  <1>5. Nothing \in [Blocks -> Nat] /\ Nothing \in [Blocks -> 0 .. MaxRc + 1]
          /\ \A b \in Blocks : Nothing[b] = 0
    BY CCodeAssumption DEF Nothing
  <1>6. TypeOK /\ Callers
    <2>1. frames \in Seq(Frames) /\ DOMAIN frames = {1}
      BY <1>2, <1>4
    <2> QED BY <1>5, <2>1 DEF Init, TypeOK, Callers, Values, Kinds
  <1>7. FreedEmpty /\ ~heap.fault
    BY DEF Init, FreedEmpty
  <1>8. ASSUME NEW b \in Blocks
        PROVE  heap.rc[b] + stolen[b] = Holders(b) + lost[b]
    <2>1. InFrames(fs, b) = 0
      <3>1. DOMAIN fs = {}
        BY <1>1
      <3>2. Tally({}, Locals_(fs), b) = 0 /\ Tally({}, Selves_(fs), b) = 0
              /\ Tally({}, Afters_(fs), b) = 0 /\ Tally({} \X Regs, Regs_(fs), b) = 0
        <4>1. \A f : {y \in {} : f[y] = b} = {} /\ {y \in {} \X Regs : f[y] = b} = {}
          OBVIOUS
        <4> QED BY ONLY <4>1, FS_EmptySet DEF Tally
      <3> QED BY ONLY <3>1, <3>2 DEF InFrames
    <2>2. One(None, b) = 0
      BY OneOfNone
    <2>3. InFrames(gs, b)
            = InFrames(fs, b) + One(None, b) + One(None, b) + One(None, b)
      <3>1. None \in Values
        BY DEF Values
      <3>2. gs = Push(fs, None, None, None, None)
        BY <1>3
      <3> QED BY ONLY <3>1, <3>2, fs \in Seq(Frames), b \in Blocks, FramePushed
    <2>4. Tally(Blocks, heap.cell, b) = 0
      <3>1. {c \in Blocks : heap.cell[c] = b} = {}
        BY CCodeAssumption DEF Init
      <3> QED BY ONLY <3>1, FS_EmptySet DEF Tally
    <2>5. One(const, b) = 0
      BY <2>2 DEF Init
    <2>6. InFrames(frames, b) = 0
      BY <1>2, <2>1, <2>2, <2>3
    <2>7. Stored(frames, heap, const, b) = 0
      BY ONLY <2>4, <2>5, <2>6 DEF Stored
    <2>8. Holders(b) = Stored(frames, heap, const, b) + due[b]
      BY <1>2, <1>4, HoldersAre
    <2>9. heap.rc[b] = 0 /\ stolen[b] = 0 /\ lost[b] = 0 /\ due[b] = 0
      BY <1>5 DEF Init
    <2> QED BY <2>7, <2>8, <2>9
  <1> QED BY <1>6, <1>7, <1>8 DEF CountInv, Balance, FaultNeedsArgument

LEMMA InstructionStep ==
  ASSUME CountInv, Instruction
  PROVE  CountInv'
  <1>1. Running /\ Room
    BY DEF Instruction
  <1>2. ASSUME NEW r \in Regs,
               \/ LoadPlain(r) \/ MovRegLocal(r) \/ MovLocalReg(r)
               \/ SetConst(r) \/ LoadConst(r) \/ GetInner(r) \/ SetInner(r)
               \/ Ret(r) \/ \E k \in Kinds : LoadNew(r, k)
        PROVE  CountInv'
    BY <1>1, <1>2, LoadPlainStep, MovRegLocalStep, MovLocalRegStep, SetConstStep,
       LoadConstStep, GetInnerStep, SetInnerStep, RetStep, LoadNewStep
  <1>3. ASSUME NEW r \in Regs, NEW s \in Regs,
               \/ ArrayPush(r, s) \/ IdxGet(r, s) \/ IdxSet(r, s)
               \/ ClassNewInitialized(r, s) \/ BindArg(r, s)
               \/ Call(r, s) \/ CallNative(r, s)
               \/ \E t \in Regs : CallFuncValue(r, s, t) \/ CallNativeValue(r, s, t)
        PROVE  CountInv'
    BY <1>1, <1>3, ArrayPushStep, IdxGetStep, IdxSetStep, ClassNewInitializedStep,
       BindArgStep, CallStep, CallNativeStep, CallFuncValueStep,
       CallNativeValueStep
  <1>4. UseFreed \/ RetLocal \/ RetNull => CountInv'
    BY <1>1, UseFreedStep, RetLocalStep, RetNullStep
  <1> QED BY <1>2, <1>3, <1>4 DEF Instruction

\* Every step keeps the invariant.
LEMMA CountNext ==
  ASSUME CountInv, [Next]_vars
  PROVE  CountInv'
  <1>1. CASE Instruction
    BY <1>1, InstructionStep
  <1>2. CASE \E b \in Blocks : Deref(b)
    BY <1>2, DerefStep
  <1>3. CASE UNCHANGED vars
    <2>1. /\ heap' = heap /\ frames' = frames /\ const' = const /\ due' = due
          /\ lost' = lost /\ stolen' = stolen
      BY <1>3 DEF vars
    <2>2. TypeOK' /\ Callers' /\ (~heap'.fault => FreedEmpty') /\ FaultNeedsArgument'
      BY <2>1 DEF CountInv, TypeOK, Callers, FreedEmpty, FaultNeedsArgument
    <2>3. Balance'
      BY <2>1 DEF CountInv, Balance, Holders, RegsHolding, LocalsHolding, SelvesHolding,
                  AftersHolding, CellsHolding
    <2> QED BY <2>2, <2>3 DEF CountInv
  <1> QED BY <1>1, <1>2, <1>3 DEF Next

LEMMA Counts == Spec => []CountInv
  <1>1. Init => CountInv
    BY CountInit
  <1>2. CountInv /\ [Next]_vars => CountInv'
    BY CountNext
  <1> QED BY <1>1, <1>2, PTL DEF Spec

\* Compiled programs keep reference counts, variables and contents of their
\* types, whatever is called and freed (c_comp.c, rt/malloc/static.c).
THEOREM TypesKept == Spec => []TypeOK
  <1>1. CountInv => TypeOK
    BY DEF CountInv
  <1> QED BY <1>1, Counts, PTL

\* In a compiled program a block has as many references as variables, contents,
\* constants and statements under way will give back, apart from the references
\* that overwriting and reading an element lose and those that arguments and
\* constants never take (c_comp.c).
THEOREM CountsBalance == Spec => []Balance
  <1>1. CountInv => Balance
    BY DEF CountInv
  <1> QED BY <1>1, Counts, PTL

\* A compiled program that uses a freed block has passed a block to a function
\* or kept one as a constant (rt/malloc/static.c:62).
THEOREM FaultsNeedArguments == Spec => []FaultNeedsArgument
  <1>1. CountInv => FaultNeedsArgument
    BY DEF CountInv
  <1> QED BY <1>1, Counts, PTL

=============================================================================
