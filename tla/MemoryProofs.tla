---------------------------- MODULE MemoryProofs -----------------------------
(***************************************************************************)
(* PanicsKnown, FramesExclusive, LostExact and BlocksExact hold of         *)
(* every behaviour of Memory in which programs neither free blocks from    *)
(* before a fork nor keep a heap across exec, for pools of every size and  *)
(* any number of processes.                                                *)
(*                                                                         *)
(* The invariant has two halves.  MachineInv is about the bitmaps, page    *)
(* tables and what processes own; HeapInv is about one heap, and knows of  *)
(* the machine only the pages the heap may lie on, Area.                   *)
(***************************************************************************)
EXTENDS Memory, FiniteSetTheorems, SequenceTheorems, TLAPS

-----------------------------------------------------------------------------
\* The inductive invariant

Pages == 0 .. KernelPages
UPages == 0 .. UserVPages - 1
KFrames == 0 .. KernelPages - 1
UFrames == KernelPages .. FreePages - 1
Frames == 0 .. FreePages - 1

MemRecords == [bits : SUBSET Int, kmap : [Pages -> KFrames \cup {None}],
               halt : {"no", "full"}]

Tables == UNION {[D -> KFrames] : D \in SUBSET Int}

ProcRecords ==
    [state : {"none", "created", "live", "zombie"},
     pcb : Pages \cup {None}, vbm : Pages \cup {None}, pgdir : Pages \cup {None},
     vbits : SUBSET UPages, map : [UPages -> UFrames \cup {None}], tables : Tables]

\* A page table and its frames.
Mapped(f) == {v \in DOMAIN f : f[v] # None}
FramesOf(f) == {f[v] : v \in Mapped(f)}
Once(f) == \A v, w \in DOMAIN f : f[v] = f[w] /\ v # w => f[v] = None

\* A frame has one user, and the bitmaps have exactly what is in use.
FramesInv(m, ps) ==
    /\ Once(m.kmap)
    /\ \A p \in Procs : Once(ps[p].map) /\ ps[p].vbits = Mapped(ps[p].map)
    /\ \A p, q \in Procs : p # q =>
         /\ FramesOf(ps[p].map) \cap FramesOf(ps[q].map) = {}
         /\ Range(ps[p].tables) \cap Range(ps[q].tables) = {}
    /\ \A p \in Procs : Range(ps[p].tables) \cap FramesOf(m.kmap) = {}
    /\ \A f \in Frames : f \in m.bits <=>
         \/ f \in FramesOf(m.kmap)
         \/ \E p \in Procs : f \in FramesOf(ps[p].map) \cup Range(ps[p].tables)
    /\ \A v \in Pages : FreePages + v \in m.bits <=> m.kmap[v] # None

\* What process p has in each state of its life.
LifeOf(p, q) ==
    /\ q.state = "none" => q = NoProcess
    /\ q.state # "live" => Mapped(q.map) = {} /\ Range(q.tables) = {}
    /\ q.state = "live" => StackPage \in Mapped(q.map) /\ (p # First => q.vbm # None)
    /\ q.state # "none" => q.pcb # None /\ q.pgdir # None
    /\ q.state = "zombie" => p # First /\ q.vbm = None
    /\ q.state = "created" => p = First

LifeInv(ps) ==
    /\ \A p \in Procs : LifeOf(p, ps[p])
    /\ ps[First].state = "none" => \A p \in Procs : ps[p].state = "none"

\* The kernel pages of a process.
What == {"pcb", "pgdir", "vbm"}
Piece(q, w) ==
    IF w = "pcb" THEN {q.pcb} \ {None}
    ELSE IF w = "pgdir" THEN {q.pgdir} \ {None}
    ELSE IF q.vbm = None THEN {} ELSE q.vbm .. q.vbm + CeilPages - 1
ProcPages(ps) == {v \in Pages : \E p \in Procs, w \in What : v \in Piece(ps[p], w)}

PagesInv(M, ps) ==
    /\ \A p \in Procs, w \in What : Piece(ps[p], w) \subseteq M
    /\ \A p, q \in Procs, w, u \in What :
         p # q \/ w # u => Piece(ps[p], w) \cap Piece(ps[q], u) = {}

MachineInv(m, ps) ==
    /\ m \in MemRecords /\ m.halt = "no"
    /\ ps \in [Procs -> ProcRecords]
    /\ FramesInv(m, ps)
    /\ LifeInv(ps)
    /\ PagesInv(Mapped(m.kmap), ps)

\* The pages that heap x may lie on.
Area(x, m, ps) == IF x = Kernel THEN Mapped(m.kmap) \ ProcPages(ps)
                  ELSE Mapped(ps[x].map) \ {StackPage}

Blocks == Nat \X Nat
ArenaRecords == [large : BOOLEAN, desc : 0 .. DescCnt, owner : Owners, cnt : Nat,
                 old : BOOLEAN]
Arenas == UNION {[D -> ArenaRecords] : D \in SUBSET Nat}
HeapRecords == [arena : Arenas, free : [1 .. DescCnt -> Seq(Blocks)],
                held : SUBSET Blocks]

ArenaPages(ar, v) == v .. v + (IF ar[v].large THEN ar[v].cnt ELSE 1) - 1
HeapPages(ar) == UNION {ArenaPages(ar, v) : v \in DOMAIN ar}

\* The arenas lie apart from each other.
ArenaInv(h, M) ==
    /\ \A v \in DOMAIN h.arena : /\ ArenaPages(h.arena, v) \subseteq M
                                 /\ h.arena[v].large => h.arena[v].cnt >= 1
    /\ \A v, w \in DOMAIN h.arena :
         v # w => ArenaPages(h.arena, v) \cap ArenaPages(h.arena, w) = {}
    /\ \A b \in h.held : /\ b[1] \in DOMAIN h.arena
                         /\ h.arena[b[1]].large => b[2] = 0

Own(h, d) == {v \in DOMAIN h.arena : /\ ~h.arena[v].old /\ ~h.arena[v].large
                                     /\ h.arena[v].desc = d}
On(list, v) == {b \in Range(list) : b[1] = v}

\* A free list has the blocks of its arenas own, of n blocks each, that are not
\* held; only arena z may be all free.
ListOk(list, held, ar, own, n, z) ==
    /\ IsInjective(list)
    /\ \A v \in own : /\ Cardinality(On(list, v)) = ar[v].cnt
                      /\ ar[v].cnt <= n /\ (v # z => ar[v].cnt < n)
    /\ Range(list) \cup {b \in held : b[1] \in own} = own \X (1 .. n)
    /\ Range(list) \cap held = {}

ListsInv(h, z) ==
    \A d \in 1 .. DescCnt : ListOk(h.free[d], h.held, h.arena, Own(h, d), BlocksPerArena(d), z)

OwnerInv(x, h) ==
    \A v \in DOMAIN h.arena : ~h.arena[v].old /\ ~h.arena[v].large =>
         h.arena[v].owner = x /\ h.arena[v].desc # 0

HeapBut(x, h, M, z) ==
    h \in HeapRecords /\ ArenaInv(h, M) /\ OwnerInv(x, h) /\ ListsInv(h, z)

HeapInv(x, h, M) == HeapBut(x, h, M, None)

Losses(c) == c.exits * (CeilPages - FloorPages) + 2 * c.failed

\* Every heap lies on its pages; lost are so many of the kernel's that no arena has.
HeapsInv(hs, m, ps, lost) ==
    /\ hs \in [Owners -> HeapRecords]
    /\ \A x \in Owners : HeapInv(x, hs[x], Area(x, m, ps))
    /\ Cardinality(Area(Kernel, m, ps) \ HeapPages(hs[Kernel].arena)) = lost

\* Why the machine may stop.
Oversized == \E x \in Owners, size \in Sizes : Admissible(x, size) /\ PagesFor(size) >= PageLimit
Stops == {"full", "null"} \cup {s \in {"page count"} : Oversized}

MemoryInv ==
    /\ scan = None /\ boot = None
    /\ count \in [mallocs : Nat, forks : Nat, failed : Nat, exits : Nat]
    /\ mem.halt \in {"no"} \cup Stops
    /\ mem.halt = "no" => MachineInv(mem, proc) /\ HeapsInv(heap, mem, proc, Losses(count))

-----------------------------------------------------------------------------
\* Numbers

\* A set of natural numbers has a least member, which Least finds.
LEMMA LeastFacts ==
    ASSUME NEW S \in SUBSET Nat, S # {}
    PROVE  Least(S) \in S /\ \A y \in S : Least(S) <= y
<1> DEFINE R == {pair \in Nat \X Nat : pair[1] < pair[2]}
<1>1. OpToRel(<, Nat) = R
  BY Zenon DEF OpToRel
<1> HIDE DEF R
<1>2. IsWellFoundedOn(R, Nat)
  BY <1>1, NatLessThanWellFounded, Zenon
<1>3. PICK x \in S : \A y \in S : ~(<<y, x>> \in R)
  BY <1>2, WFMin, Zenon
<1>4. ASSUME NEW y \in Nat, NEW z \in Nat, y < z PROVE <<y, z>> \in R
  <2>1. <<y, z>> \in Nat \X Nat /\ <<y, z>>[1] < <<y, z>>[2]
    BY <1>4
  <2> QED BY <2>1, Zenon DEF R
<1>5. ASSUME NEW y \in S PROVE x <= y
  <2>1. x \in Nat /\ y \in Nat
    OBVIOUS
  <2>2. <<y, x>> \notin R
    BY <1>3
  <2>3. ~(y < x)
    BY <2>1, <2>2, <1>4, Zenon
  <2> QED BY <2>1, <2>3
<1> QED BY <1>5 DEF Least

\* Induction over the natural numbers, for a set S.
LEMMA NatSetInduction ==
    ASSUME NEW S, 0 \in S, \A n \in Nat : n \in S => n + 1 \in S
    PROVE  Nat \subseteq S
<1> SUFFICES ASSUME Nat \ S # {} PROVE FALSE
  OBVIOUS
<1>1. Nat \ S \in SUBSET Nat
  OBVIOUS
<1> DEFINE m == Least(Nat \ S)
<1>2. m \in Nat \ S /\ \A y \in Nat \ S : m <= y
  BY <1>1, LeastFacts
<1> HIDE DEF m
<1>3. m # 0 /\ m - 1 \in Nat
  BY <1>2
<1>4. m - 1 \in S
  BY <1>2, <1>3
<1> QED BY <1>2, <1>3, <1>4


\* A finite set has a member of every rank.
LEMMA RankExists ==
    ASSUME NEW S \in SUBSET Nat, IsFiniteSet(S)
    PROVE  \A k \in Nat : k < Cardinality(S) =>
             \E x \in S : Cardinality({y \in S : y < x}) = k
<1> DEFINE Below(x) == {y \in S : y < x}
           Good == {k \in Nat : k < Cardinality(S) => \E x \in S : Cardinality(Below(x)) = k}
<1>0. \A T \in SUBSET S : IsFiniteSet(T) /\ Cardinality(T) \in Nat
  BY FS_Subset, FS_CardinalityType
<1>9. \A y \in S : y \in Nat
  OBVIOUS
<1>1. 0 \in Good
  <2> SUFFICES ASSUME 0 < Cardinality(S) PROVE \E x \in S : Cardinality(Below(x)) = 0
    OBVIOUS
  <2>1. S # {}
    BY <1>0, FS_EmptySet
  <2>2. PICK x \in S : \A y \in S : x <= y
    BY <2>1, LeastFacts
  <2>3. Below(x) = {}
    <3>1. ASSUME NEW y \in S PROVE ~(y < x)
      <4>1. y \in Nat /\ x \in Nat /\ x <= y
        BY <2>2, <1>9
      <4> QED BY <4>1
    <3> QED BY <3>1
  <2>4. Cardinality(Below(x)) = 0
    BY <2>3, FS_EmptySet
  <2> QED BY <2>4
<1>2. ASSUME NEW k \in Nat, k \in Good PROVE k + 1 \in Good
  <2> SUFFICES ASSUME k + 1 < Cardinality(S)
               PROVE  \E x \in S : Cardinality(Below(x)) = k + 1
    OBVIOUS
  <2>1. Cardinality(S) \in Nat
    BY <1>0
  <2>2. PICK x \in S : Cardinality(Below(x)) = k
    BY <1>2, <2>1
  <2> DEFINE T == {y \in S : y > x}
             B == Below(x) \cup {x}
  <2>3. IsFiniteSet(B) /\ Cardinality(B) = k + 1
    <3>1. IsFiniteSet(Below(x)) /\ x \notin Below(x)
      BY <1>0
    <3> HIDE DEF Below
    <3> QED BY <3>1, <2>2, FS_AddElement
  <2>4. T # {}
    <3> SUFFICES ASSUME T = {} PROVE FALSE
      OBVIOUS
    <3>1. \A y \in S : ~(y > x)
      OBVIOUS
    <3>2. ASSUME NEW y \in S PROVE y < x \/ y = x
      <4>1. y \in Nat /\ x \in Nat /\ ~(y > x)
        BY <3>1, <1>9
      <4> QED BY <4>1
    <3>3. S = B
      BY <3>2
    <3> HIDE DEF B
    <3> QED BY <3>3, <2>3, <2>1
  <2>5. PICK z \in T : \A y \in T : z <= y
    <3>1. T \in SUBSET Nat
      OBVIOUS
    <3> HIDE DEF T
    <3> QED BY <2>4, <3>1, LeastFacts
  <2>6. Below(z) = B
    <3>1. z \in S /\ z > x /\ \A y \in S : y > x => z <= y
      BY <2>5
    <3>2. \A y \in S : y < z <=> y < x \/ y = x
      BY <3>1, <1>9
    <3> QED BY <3>2
  <2> HIDE DEF B, Below
  <2>7. Cardinality(Below(z)) = k + 1
    BY <2>3, <2>6
  <2> QED BY <2>5, <2>7
<1> HIDE DEF Good
<1>3. Nat \subseteq Good
  BY <1>1, <1>2, NatSetInduction
<1> QED BY <1>3 DEF Good

\* n calls of palloc return n different free pages.
LEMMA LowestFacts ==
    ASSUME NEW S \in SUBSET Nat, IsFiniteSet(S), NEW n \in Nat, n <= Cardinality(S)
    PROVE  /\ Lowest(S, n) \in [1 .. n -> S]
           /\ \A i, j \in 1 .. n : Lowest(S, n)[i] = Lowest(S, n)[j] => i = j
<1> DEFINE Below(x) == {y \in S : y < x}
           low == [k \in 1 .. n |-> CHOOSE x \in S : Cardinality(Below(x)) = k - 1]
<1>1. low = Lowest(S, n)
  BY DEF Lowest
<1>2. Cardinality(S) \in Nat
  BY FS_CardinalityType
<1>3. \A k \in Nat : k < Cardinality(S) => \E x \in S : Cardinality(Below(x)) = k
  BY RankExists
<1> HIDE DEF Below
<1>4. ASSUME NEW k \in 1 .. n PROVE low[k] \in S /\ Cardinality(Below(low[k])) = k - 1
  <2>1. k - 1 \in Nat /\ k - 1 < Cardinality(S)
    BY <1>2
  <2>2. \E x \in S : Cardinality(Below(x)) = k - 1
    BY <2>1, <1>3
  <2> QED BY <2>2
<1>5. low \in [1 .. n -> S]
  BY <1>4
<1> HIDE DEF low
<1>6. \A i, j \in 1 .. n : low[i] = low[j] => i = j
  <2> SUFFICES ASSUME NEW i \in 1 .. n, NEW j \in 1 .. n, low[i] = low[j] PROVE i = j
    OBVIOUS
  <2>1. Cardinality(Below(low[i])) = i - 1 /\ Cardinality(Below(low[j])) = j - 1
    BY <1>4
  <2> QED BY <2>1
<1> QED BY <1>1, <1>5, <1>6

\* The rank of a member, as MapUser counts it.
LEMMA RankFacts ==
    ASSUME NEW S \in SUBSET Int, IsFiniteSet(S)
    PROVE  /\ \A v \in S : Cardinality({u \in S : u <= v}) \in 1 .. Cardinality(S)
           /\ \A v, w \in S :
                Cardinality({u \in S : u <= v}) = Cardinality({u \in S : u <= w}) => v = w
<1> DEFINE To(v) == {u \in S : u <= v}
<1>0. \A T \in SUBSET S : /\ IsFiniteSet(T) /\ Cardinality(T) \in Nat
                          /\ Cardinality(T) <= Cardinality(S)
  BY FS_Subset, FS_CardinalityType
<1>1. Cardinality(S) \in Nat
  BY <1>0
<1>2. ASSUME NEW v \in S PROVE Cardinality(To(v)) \in 1 .. Cardinality(S)
  <2>1. To(v) \in SUBSET S /\ v \in To(v)
    OBVIOUS
  <2> HIDE DEF To
  <2>2. Cardinality(To(v)) # 0
    BY <2>1, <1>0, FS_EmptySet
  <2> QED BY <2>1, <2>2, <1>0, <1>1
<1>3. ASSUME NEW v \in S, NEW w \in S, v < w PROVE Cardinality(To(v)) < Cardinality(To(w))
  <2>0. ASSUME NEW u \in S PROVE (u <= v => u <= w) /\ ~(w <= v) /\ w <= w
    <3>1. u \in Int /\ v \in Int /\ w \in Int
      OBVIOUS
    <3> QED BY <3>1, <1>3
  <2>1. To(v) \cup {w} \subseteq To(w) /\ w \notin To(v) /\ To(w) \in SUBSET S
    BY <2>0
  <2>2. IsFiniteSet(To(w)) /\ IsFiniteSet(To(v)) /\ Cardinality(To(v)) \in Nat
    BY <1>0
  <2> HIDE DEF To
  <2>3. To(v) \subseteq To(w) /\ To(v) # To(w)
    BY <2>1
  <2>4. /\ Cardinality(To(v)) <= Cardinality(To(w))
        /\ Cardinality(To(w)) # Cardinality(To(v))
    BY <2>2, <2>3, FS_Subset
  <2>5. Cardinality(To(w)) \in Nat
    BY <2>2, FS_CardinalityType
  <2> QED BY <2>2, <2>4, <2>5
<1>4. ASSUME NEW v \in S, NEW w \in S, Cardinality(To(v)) = Cardinality(To(w)) PROVE v = w
  <2>1. Cardinality(To(v)) \in Nat
    BY <1>0
  <2> HIDE DEF To
  <2>2. ~(v < w) /\ ~(w < v)
    BY <1>3, <1>4, <2>1
  <2>3. v \in Int /\ w \in Int
    OBVIOUS
  <2> QED BY <2>2, <2>3
<1> QED BY <1>2, <1>4

-----------------------------------------------------------------------------
\* Sizes

LEMMA ConstFacts ==
    /\ FreePages \in Nat /\ KernelPages \in Nat /\ UserPages \in Nat
    /\ FreePages = KernelPages + UserPages
    /\ UserBase = KernelPages /\ VaddrBase = FreePages
    /\ UserVPages \in Nat \ {0} /\ TablePages \in Nat \ {0}
    /\ CeilPages \in Nat /\ FloorPages \in Nat /\ FloorPages >= 1 /\ CeilPages >= FloorPages
<1>1. FreePages \in Nat /\ ByteBits \in Nat \ {0}
  BY PoolsAssumption
<1>2. KernelPages \in Nat /\ UserPages \in Nat /\ FreePages = KernelPages + UserPages
  BY <1>1 DEF KernelPages, UserPages
<1>3. ASSUME NEW a \in Nat, NEW b \in Nat \ {0}, a % b = 0 PROVE (a \div b) * b = a
  BY <1>3
<1>4. UserBase = KernelPages /\ VaddrBase = FreePages
  <2> HIDE DEF KernelPages, UserPages
  <2>1. (KernelPages \div ByteBits) * ByteBits = KernelPages
    BY <1>1, <1>2, <1>3, PoolsAssumption
  <2>2. (UserPages \div ByteBits) * ByteBits = UserPages
    BY <1>1, <1>2, <1>3, PoolsAssumption
  <2> QED BY <2>1, <2>2, <1>2 DEF UserBase, VaddrBase
<1>5. ASSUME NEW a \in Nat, NEW c \in Nat, NEW b \in Nat \ {0}, a >= c
      PROVE  a \div b >= c \div b /\ a \div b \in Nat
  BY <1>5
<1>6. ASSUME NEW a \in Nat, NEW b \in Nat \ {0}, a >= b PROVE a \div b >= 1
  BY <1>6
<1>7. BitmapBytes \in Nat /\ PgSize \in Nat \ {0} /\ BitmapBytes >= PgSize
  BY ArenaAssumption
<1>8. FloorPages \in Nat /\ FloorPages >= 1
  BY <1>5, <1>6, <1>7 DEF FloorPages
<1>9. CeilPages \in Nat /\ CeilPages >= FloorPages
  <2>1. BitmapBytes + PgSize - 1 \in Nat /\ BitmapBytes + PgSize - 1 >= BitmapBytes
    BY <1>7
  <2> QED BY <2>1, <1>5, <1>7 DEF CeilPages, FloorPages
<1> QED BY <1>1, <1>2, <1>4, <1>8, <1>9, ProcsAssumption

\* The bits of frames do not overlap: both ways of finding one agree.
LEMMA BitFacts ==
    /\ \A f \in Frames : FrameBit(f) = f
    /\ \A f \in Frames : PfreeBit(f) = f
<1>1. ASSUME NEW f \in Frames PROVE FrameBit(f) = f
  BY ConstFacts DEF FrameBit, Frames
<1>2. ASSUME NEW f \in Frames PROVE PfreeBit(f) = f
  BY ConstFacts DEF PfreeBit, Frames
<1> QED BY <1>1, <1>2

LEMMA FrameKinds ==
    /\ KFrames \cup UFrames = Frames /\ KFrames \cap UFrames = {}
    /\ None \notin Frames /\ None \notin Pages /\ None \notin UPages
    /\ StackPage \in UPages
  BY ConstFacts DEF KFrames, UFrames, Frames, None, Pages, UPages, StackPage

\* What bitmap_scan returns is a run of clear bits, which may reach the bit
\* behind the end.
LEMMA ScanFacts ==
    ASSUME NEW bits \in SUBSET Int, NEW base \in Nat, NEW len \in Nat,
           NEW n \in Nat \ {0}, Clear(bits, base, len) # {},
           NEW at, at = BitmapScan(bits, base, len, n), at # None
    PROVE  /\ at \in Nat /\ at < len /\ at + n - 1 <= len
           /\ n = 1 => at + n - 1 < len
           /\ \A v \in at .. at + n - 1 : base + v \notin bits
<1> DEFINE C == Clear(bits, base, len)
           first == Least(C)
           ends == {e \in first + 1 .. len :
                       /\ e - n + 1 >= first
                       /\ \A i \in e - n + 1 .. e : base + i \notin bits}
<1>1. first \in C
  <2>1. C \in SUBSET Nat /\ C # {}
    BY DEF Clear
  <2> HIDE DEF C
  <2> QED BY <2>1, LeastFacts
<1>2. first \in 0 .. len - 1 /\ base + first \notin bits
  BY <1>1 DEF Clear
<1>3. at = IF n = 1 THEN first ELSE IF ends = {} THEN None ELSE Least(ends) - n + 1
  BY DEF BitmapScan
<1>4. ends \in SUBSET Nat
  BY <1>2
<1> HIDE DEF first
<1>5. CASE n = 1
  <2>1. at = first /\ \A v \in at .. at + n - 1 : v = first
    BY <1>5, <1>3, <1>2
  <2> QED BY <2>1, <1>5, <1>2
<1>6. CASE n # 1
  <2>1. PICK e \in ends : at = e - n + 1
    <3> HIDE DEF ends
    <3>1. ends # {} /\ at = Least(ends) - n + 1
      BY <1>6, <1>3
    <3>2. Least(ends) \in ends
      BY <3>1, <1>4, LeastFacts
    <3> QED BY <3>1, <3>2
  <2>2. /\ e \in first + 1 .. len /\ e - n + 1 >= first
        /\ \A i \in e - n + 1 .. e : base + i \notin bits
    BY <2>1
  <2>3. at + n - 1 = e /\ e \in Int
    BY <2>1, <2>2, <1>2
  <2> QED BY <2>1, <2>2, <2>3, <1>6, <1>2
<1> QED BY <1>5, <1>6

LEMMA ScanOne ==
    ASSUME NEW bits \in SUBSET Int, NEW base \in Nat, NEW len \in Nat,
           Clear(bits, base, len) # {}
    PROVE  BitmapScan(bits, base, len, 1) # None
<1> DEFINE C == Clear(bits, base, len)
<1>1. C \in SUBSET Nat
  BY DEF Clear
<1> HIDE DEF C
<1>2. Least(C) \in C
  BY <1>1, LeastFacts DEF C
<1>3. Least(C) \in Nat
  BY <1>1, <1>2
<1> QED BY <1>3 DEF BitmapScan, C, None

-----------------------------------------------------------------------------
\* Pages of the kernel

LEMMA FramesOfMember ==
    ASSUME NEW f, NEW v \in DOMAIN f
    PROVE  f[v] # None => f[v] \in FramesOf(f)
  BY DEF FramesOf, Mapped

\* Free frames are nobody's.
LEMMA FreeFrameFacts ==
    ASSUME NEW m \in MemRecords, NEW ps \in [Procs -> ProcRecords], FramesInv(m, ps)
    PROVE  /\ FreeFrames(m) \subseteq KFrames \ m.bits
           /\ FreeUserFrames(m) \subseteq UFrames \ m.bits
           /\ IsFiniteSet(FreeFrames(m)) /\ IsFiniteSet(FreeUserFrames(m))
           /\ \A f \in FreeFrames(m) \cup FreeUserFrames(m) :
                /\ f \notin FramesOf(m.kmap)
                /\ \A p \in Procs : f \notin FramesOf(ps[p].map) \cup Range(ps[p].tables)
<1>1. FreeFrames(m) \subseteq KFrames \ m.bits
  BY DEF FreeFrames, Clear, KFrames
<1>2. FreeUserFrames(m) \subseteq UFrames \ m.bits
  BY ConstFacts DEF FreeUserFrames, Clear, UFrames
<1>3. IsFiniteSet(KFrames) /\ IsFiniteSet(UFrames)
  BY ConstFacts, FS_Interval DEF KFrames, UFrames
<1>4. IsFiniteSet(FreeFrames(m)) /\ IsFiniteSet(FreeUserFrames(m))
  BY <1>1, <1>2, <1>3, FS_Subset
<1>5. ASSUME NEW f \in FreeFrames(m) \cup FreeUserFrames(m)
      PROVE  /\ f \notin FramesOf(m.kmap)
             /\ \A p \in Procs : f \notin FramesOf(ps[p].map) \cup Range(ps[p].tables)
  <2>1. f \in Frames /\ f \notin m.bits
    BY <1>1, <1>2, FrameKinds
  <2> QED BY <2>1 DEF FramesInv
<1> QED BY <1>1, <1>2, <1>4, <1>5

\* Pages that get frames nobody has.
LEMMA KernelMapped ==
    ASSUME NEW m \in MemRecords, NEW ps \in [Procs -> ProcRecords], FramesInv(m, ps),
           NEW P \in SUBSET Pages, P \cap Mapped(m.kmap) = {},
           NEW m2 \in MemRecords,
           \A v \in P : m2.kmap[v] \in FreeFrames(m),
           \A v, w \in P : m2.kmap[v] = m2.kmap[w] => v = w,
           \A v \in Pages \ P : m2.kmap[v] = m.kmap[v],
           \A b \in Int : b \in m2.bits <=>
             b \in m.bits \/ \E v \in P : b = FreePages + v \/ b = m2.kmap[v]
    PROVE  FramesInv(m2, ps) /\ Mapped(m2.kmap) = Mapped(m.kmap) \cup P
<1> DEFINE g == [v \in P |-> m2.kmap[v]]
<1>10. g \in [P -> FreeFrames(m)] /\ \A v, w \in P : g[v] = g[w] => v = w
  OBVIOUS
<1>11. /\ \A b \in Int : b \in m2.bits <=>
            b \in m.bits \/ \E v \in P : b = FreePages + v \/ b = g[v]
       /\ m2.kmap = [v \in Pages |-> IF v \in P THEN g[v] ELSE m.kmap[v]]
  <2>1. m2.kmap = [v \in Pages |-> m2.kmap[v]]
    BY DEF MemRecords
  <2> QED BY <2>1
<1> HIDE DEF g
<1> USE <1>10, <1>11
<1>1. m.kmap \in [Pages -> KFrames \cup {None}]
  BY DEF MemRecords
<1>2. /\ FreeFrames(m) \subseteq KFrames \ m.bits
      /\ \A f \in FreeFrames(m) :
                /\ f \notin FramesOf(m.kmap)
                /\ \A p \in Procs : f \notin FramesOf(ps[p].map) \cup Range(ps[p].tables)
  BY FreeFrameFacts
<1>3. \A v \in P : g[v] \in KFrames /\ g[v] \in Frames /\ g[v] # None /\ g[v] \notin m.bits
  BY <1>2, FrameKinds
<1>4. Mapped(m2.kmap) = Mapped(m.kmap) \cup P
  BY <1>1, <1>3 DEF Mapped
<1>5. ASSUME NEW f PROVE f \in FramesOf(m2.kmap) <=> f \in FramesOf(m.kmap) \/ \E v \in P : f = g[v]
  <2>1. ASSUME f \in FramesOf(m2.kmap)
        PROVE  f \in FramesOf(m.kmap) \/ \E v \in P : f = g[v]
    <3>1. PICK v \in Pages : f = m2.kmap[v] /\ f # None
      BY <2>1 DEF FramesOf, Mapped
    <3>2. CASE v \in P
      BY <3>1, <3>2
    <3>3. CASE v \notin P
      BY <3>1, <3>3, <1>1, FramesOfMember
    <3> QED BY <3>2, <3>3
  <2>2. ASSUME NEW v \in P, f = g[v] PROVE f \in FramesOf(m2.kmap)
    <3>1. m2.kmap[v] = f /\ f # None /\ v \in DOMAIN m2.kmap
      BY <2>2, <1>3
    <3> QED BY <3>1, FramesOfMember
  <2>3. ASSUME f \in FramesOf(m.kmap) PROVE f \in FramesOf(m2.kmap)
    <3>1. PICK v \in Pages : f = m.kmap[v] /\ f # None
      BY <2>3, <1>1 DEF FramesOf, Mapped
    <3>2. m2.kmap[v] = f /\ v \in DOMAIN m2.kmap
      BY <3>1, <1>1 DEF Mapped
    <3> QED BY <3>1, <3>2, FramesOfMember
  <2> QED BY <2>1, <2>2, <2>3
<1>6. Once(m2.kmap)
  <2> SUFFICES ASSUME NEW v \in Pages, NEW w \in Pages, v # w, m2.kmap[v] = m2.kmap[w],
                      m2.kmap[v] # None
               PROVE  FALSE
    BY DEF Once
  <2>1. CASE v \in P /\ w \in P
    BY <2>1
  <2>2. CASE v \notin P /\ w \notin P
    BY <2>2, <1>1 DEF FramesInv, Once
  <2>3. ASSUME NEW a \in P, NEW b \in Pages \ P, g[a] = m.kmap[b] PROVE FALSE
    <3>1. g[a] \in FramesOf(m.kmap)
      BY <2>3, <1>1, <1>3, FramesOfMember
    <3> QED BY <3>1, <1>2
  <2> QED BY <2>1, <2>2, <2>3
<1>7. ASSUME NEW p \in Procs PROVE Range(ps[p].tables) \cap FramesOf(m2.kmap) = {}
  BY <1>2, <1>5 DEF FramesInv
<1>8. ASSUME NEW f \in Frames
      PROVE  f \in m2.bits <=>
               \/ f \in FramesOf(m2.kmap)
               \/ \E p \in Procs : f \in FramesOf(ps[p].map) \cup Range(ps[p].tables)
  <2>1. \A v \in P : f # FreePages + v
    BY ConstFacts DEF Frames, Pages
  <2>2. f \in m2.bits <=> f \in m.bits \/ \E v \in P : f = g[v]
    BY <2>1 DEF Frames
  <2>3. f \in m.bits <=>
               \/ f \in FramesOf(m.kmap)
               \/ \E p \in Procs : f \in FramesOf(ps[p].map) \cup Range(ps[p].tables)
    BY DEF FramesInv
  <2> QED BY <2>2, <2>3, <1>5
<1>9. ASSUME NEW v \in Pages PROVE FreePages + v \in m2.bits <=> m2.kmap[v] # None
  <2>1. \A w \in P : FreePages + v # g[w]
    BY <1>3, ConstFacts DEF Frames, Pages
  <2>2. \A w \in P : FreePages + v = FreePages + w => v = w
    BY ConstFacts DEF Pages
  <2>3. FreePages + v \in m2.bits <=> FreePages + v \in m.bits \/ v \in P
    <3>1. FreePages + v \in Int
      BY ConstFacts DEF Pages
    <3> QED BY <2>1, <2>2, <3>1
  <2>4. FreePages + v \in m.bits <=> m.kmap[v] # None
    BY DEF FramesInv
  <2> QED BY <2>3, <2>4, <1>3
<1> QED BY <1>4, <1>6, <1>7, <1>8, <1>9 DEF FramesInv

\* Pages that are given back with their frames.
LEMMA KernelUnmapped ==
    ASSUME NEW m \in MemRecords, NEW ps \in [Procs -> ProcRecords], FramesInv(m, ps),
           NEW P \in SUBSET Mapped(m.kmap),
           NEW m2 \in MemRecords,
           m2.bits = m.bits \ ({m.kmap[v] : v \in P} \cup {FreePages + v : v \in P}),
           m2.kmap = [v \in Pages |-> IF v \in P THEN None ELSE m.kmap[v]]
    PROVE  FramesInv(m2, ps) /\ Mapped(m2.kmap) = Mapped(m.kmap) \ P
<1>1. m.kmap \in [Pages -> KFrames \cup {None}] /\ P \subseteq Pages
  BY DEF MemRecords, Mapped
<1>2. /\ \A v \in P : m.kmap[v] # None /\ m.kmap[v] \in KFrames /\ m.kmap[v] \in Frames
      /\ \A v \in P : m.kmap[v] \in FramesOf(m.kmap)
      /\ \A v \in P, w \in Pages : m.kmap[w] = m.kmap[v] => w = v
  <2>1. \A v \in P : m.kmap[v] # None /\ m.kmap[v] \in KFrames /\ m.kmap[v] \in Frames
    BY <1>1, FrameKinds DEF Mapped
  <2>2. \A v \in P : m.kmap[v] \in FramesOf(m.kmap)
    BY <1>1, <2>1, FramesOfMember
  <2>3. \A v \in P, w \in Pages : m.kmap[w] = m.kmap[v] => w = v
    BY <1>1, <2>1 DEF FramesInv, Once
  <2> QED BY <2>1, <2>2, <2>3
<1>4. Mapped(m2.kmap) = Mapped(m.kmap) \ P
  BY <1>1 DEF Mapped
<1>5. ASSUME NEW f PROVE f \in FramesOf(m2.kmap) <=>
                           f \in FramesOf(m.kmap) /\ \A v \in P : f # m.kmap[v]
  <2>1. ASSUME f \in FramesOf(m2.kmap)
        PROVE  f \in FramesOf(m.kmap) /\ \A v \in P : f # m.kmap[v]
    <3>1. PICK v \in Pages : f = m2.kmap[v] /\ f # None
      BY <2>1 DEF FramesOf, Mapped
    <3>2. v \notin P /\ f = m.kmap[v]
      BY <3>1
    <3> QED BY <3>1, <3>2, <1>1, <1>2, FramesOfMember
  <2>2. ASSUME f \in FramesOf(m.kmap), \A v \in P : f # m.kmap[v]
        PROVE  f \in FramesOf(m2.kmap)
    <3>1. PICK v \in Pages : f = m.kmap[v] /\ f # None
      BY <2>2, <1>1 DEF FramesOf, Mapped
    <3>2. m2.kmap[v] = f /\ v \in DOMAIN m2.kmap
      BY <3>1, <2>2
    <3> QED BY <3>1, <3>2, FramesOfMember
  <2> QED BY <2>1, <2>2
<1>6. Once(m2.kmap)
  <2> SUFFICES ASSUME NEW v \in Pages, NEW w \in Pages, v # w, m2.kmap[v] = m2.kmap[w],
                      m2.kmap[v] # None
               PROVE  FALSE
    BY DEF Once
  <2>1. m.kmap[v] = m.kmap[w] /\ m.kmap[v] # None
    OBVIOUS
  <2> QED BY <2>1, <1>1 DEF FramesInv, Once
<1>7. ASSUME NEW p \in Procs PROVE Range(ps[p].tables) \cap FramesOf(m2.kmap) = {}
  BY <1>5 DEF FramesInv
<1>8. ASSUME NEW f \in Frames
      PROVE  f \in m2.bits <=>
               \/ f \in FramesOf(m2.kmap)
               \/ \E p \in Procs : f \in FramesOf(ps[p].map) \cup Range(ps[p].tables)
  <2>1. \A v \in P : f # FreePages + v
    BY <1>1, ConstFacts DEF Frames, Pages
  <2>2. f \in m2.bits <=> f \in m.bits /\ \A v \in P : f # m.kmap[v]
    BY <2>1
  <2>3. f \in m.bits <=>
               \/ f \in FramesOf(m.kmap)
               \/ \E p \in Procs : f \in FramesOf(ps[p].map) \cup Range(ps[p].tables)
    BY DEF FramesInv
  <2>4. ASSUME NEW v \in P, NEW p \in Procs
        PROVE  m.kmap[v] \notin FramesOf(ps[p].map) \cup Range(ps[p].tables)
    <3>1. m.kmap[v] \notin Range(ps[p].tables)
      BY <1>2 DEF FramesInv
    <3>2. FramesOf(ps[p].map) \subseteq UFrames
      BY DEF ProcRecords, FramesOf, Mapped
    <3> QED BY <3>1, <3>2, <1>2, FrameKinds
  <2> QED BY <2>2, <2>3, <2>4, <1>5
<1>9. ASSUME NEW v \in Pages PROVE FreePages + v \in m2.bits <=> m2.kmap[v] # None
  <2>1. \A w \in P : FreePages + v # m.kmap[w]
    BY <1>2, ConstFacts DEF Frames, Pages
  <2>2. \A w \in P : FreePages + v = FreePages + w => v = w
    BY <1>1, ConstFacts DEF Pages
  <2>3. FreePages + v \in m2.bits <=> FreePages + v \in m.bits /\ v \notin P
    BY <2>1, <2>2
  <2>4. FreePages + v \in m.bits <=> m.kmap[v] # None
    BY DEF FramesInv
  <2> QED BY <2>3, <2>4
<1> QED BY <1>4, <1>6, <1>7, <1>8, <1>9 DEF FramesInv

LEMMA HaltFacts ==
    ASSUME NEW m \in MemRecords
    PROVE  /\ Halt(m, "full") \in MemRecords /\ Halt(m, "full").halt = "full"
  BY DEF Halt, MemRecords

\* malloc_page(PF_KERNEL, n) stops the machine when memory is short, returns NULL
\* when no n pages are adjacent, or maps n pages that were not mapped.
LEMMA MallocKernelFacts ==
    ASSUME NEW m \in MemRecords, m.halt = "no", NEW ps \in [Procs -> ProcRecords],
           FramesInv(m, ps), NEW n \in Nat \ {0}, NEW r, r = MallocKernel(m, n)
    PROVE  \/ r.m \in MemRecords /\ r.m.halt = "full"
           \/ r.m = m /\ r.at = None /\ n # 1
           \/ /\ r.m \in MemRecords /\ r.m.halt = "no" /\ FramesInv(r.m, ps)
              /\ r.at \in Pages
              /\ r.at .. r.at + n - 1 \subseteq Pages \ Mapped(m.kmap)
              /\ Mapped(r.m.kmap) = Mapped(m.kmap) \cup (r.at .. r.at + n - 1)
<1> DEFINE full == [m |-> Halt(m, "full"), at |-> None]
           at == BitmapScan(m.bits, VaddrBase, KernelPages, n)
           P == at .. at + n - 1
           frames == Lowest(FreeFrames(m), n)
           bits2 == m.bits \cup {VaddrBase + v : v \in P} \cup {frames[k] : k \in 1 .. n}
           kmap2 == [v \in DOMAIN m.kmap |-> IF v \in P THEN frames[v - at + 1] ELSE m.kmap[v]]
           m2 == MapKernel(m, at, n)
<1>0. m.bits \in SUBSET Int /\ m.kmap \in [Pages -> KFrames \cup {None}]
  BY DEF MemRecords
<1>10. m2 = [m EXCEPT !.bits = bits2, !.kmap = kmap2]
  BY DEF MapKernel
<1> DEFINE same == [m |-> m, at |-> None]
           clear == Clear(m.bits, VaddrBase, KernelPages)
           few == Cardinality(FreeFrames(m)) < n
           twice == \E v \in P : m.kmap[v] # None
<1>1. r = IF m.halt # "no" THEN same
          ELSE IF clear = {} THEN full
          ELSE IF at = None THEN same
          ELSE IF few THEN full
          ELSE IF twice THEN [m |-> Halt(m, "pte repeat"), at |-> None]
          ELSE [m |-> m2, at |-> at]
  BY ZenonT(60) DEF MallocKernel
<1>6. /\ clear = {} => r = full
      /\ clear # {} /\ at = None => r = same
      /\ clear # {} /\ at # None /\ few => r = full
      /\ clear # {} /\ at # None /\ ~few /\ ~twice => r = [m |-> m2, at |-> at]
  <2> HIDE DEF same, full, clear, few, twice, m2, at
  <2> QED BY <1>1, Zenon
<1>2. full.m \in MemRecords /\ full.m.halt = "full"
  BY HaltFacts
<1> HIDE DEF full, m2
<1>3. CASE r = full
  BY <1>2, <1>3
<1>4. CASE Clear(m.bits, VaddrBase, KernelPages) # {} /\ at = None
  <2>1. n # 1
    BY <1>4, <1>0, ConstFacts, ScanOne
  <2>2. r = [m |-> m, at |-> None]
    BY <1>4, <1>6
  <2> QED BY <2>1, <2>2
<1>5. CASE /\ Clear(m.bits, VaddrBase, KernelPages) # {} /\ at # None
           /\ ~(Cardinality(FreeFrames(m)) < n)
  <2>1. /\ at \in Nat /\ at < KernelPages /\ at + n - 1 <= KernelPages
        /\ \A v \in P : VaddrBase + v \notin m.bits
    <3>1. VaddrBase \in Nat /\ KernelPages \in Nat
      BY ConstFacts
    <3> QED BY <3>1, <1>5, <1>0, ScanFacts
  <2> HIDE DEF at, frames
  <2>2. P \subseteq Pages /\ at \in Pages
    BY <2>1, ConstFacts DEF Pages
  <2>3. ASSUME NEW v \in P PROVE m.kmap[v] = None
    BY <2>1, <2>2, ConstFacts DEF FramesInv
  <2>4. r = [m |-> m2, at |-> at]
    BY <1>5, <1>6, <2>3, Zenon
  <2>5. /\ frames \in [1 .. n -> FreeFrames(m)]
        /\ \A i, j \in 1 .. n : frames[i] = frames[j] => i = j
    <3>1. IsFiniteSet(FreeFrames(m)) /\ FreeFrames(m) \subseteq KFrames
      BY FreeFrameFacts
    <3>2. FreeFrames(m) \in SUBSET Nat
      BY <3>1 DEF KFrames
    <3>3. n \in Nat /\ n <= Cardinality(FreeFrames(m))
      BY <1>5, <3>1, FS_CardinalityType
    <3> QED BY <3>1, <3>2, <3>3, LowestFacts DEF frames
  <2> DEFINE g == [v \in P |-> frames[v - at + 1]]
  <2>6. \A v \in P : v - at + 1 \in 1 .. n
    BY <2>1
  <2>7. g \in [P -> FreeFrames(m)] /\ \A v, w \in P : g[v] = g[w] => v = w
    <3>1. g \in [P -> FreeFrames(m)]
      BY <2>5, <2>6
    <3>2. ASSUME NEW v \in P, NEW w \in P, g[v] = g[w] PROVE v = w
      <4>1. v - at + 1 = w - at + 1
        BY <2>5, <2>6, <3>2
      <4> QED BY <4>1, <2>1
    <3> QED BY <3>1, <3>2
  <2>8. {frames[k] : k \in 1 .. n} = {g[v] : v \in P}
    <3>1. ASSUME NEW k \in 1 .. n PROVE \E v \in P : frames[k] = g[v]
      <4>1. at + k - 1 \in P /\ (at + k - 1) - at + 1 = k
        BY <2>1
      <4>2. g[at + k - 1] = frames[k]
        BY <4>1
      <4> QED BY <4>1, <4>2
    <3>2. ASSUME NEW v \in P PROVE \E k \in 1 .. n : frames[k] = g[v]
      BY <2>6
    <3> QED BY <3>1, <3>2
  <2>9. /\ bits2 = m.bits \cup {FreePages + v : v \in P} \cup {g[v] : v \in P}
        /\ kmap2 = [v \in Pages |-> IF v \in P THEN g[v] ELSE m.kmap[v]]
    <3>1. kmap2 = [v \in Pages |-> IF v \in P THEN g[v] ELSE m.kmap[v]]
      BY <1>0
    <3>2. {VaddrBase + v : v \in P} = {FreePages + v : v \in P}
      BY ConstFacts
    <3> QED BY <3>1, <3>2, <2>8
  <2>10. bits2 \in SUBSET Int /\ kmap2 \in [Pages -> KFrames \cup {None}]
    <3>1. FreeFrames(m) \subseteq KFrames
      BY FreeFrameFacts
    <3>2. kmap2 \in [Pages -> KFrames \cup {None}]
      BY <3>1, <2>7, <2>9, <1>0
    <3>3. {FreePages + v : v \in P} \subseteq Int /\ {g[v] : v \in P} \subseteq Int
      BY <3>1, <2>2, <2>7, ConstFacts DEF Pages, KFrames
    <3> QED BY <3>2, <3>3, <2>9, <1>0
  <2>11. m2 \in MemRecords /\ m2.halt = "no" /\ m2.bits = bits2 /\ m2.kmap = kmap2
    <3> HIDE DEF bits2, kmap2
    <3> QED BY <2>10, <1>10 DEF MemRecords
  <2>12. P \cap Mapped(m.kmap) = {}
    BY <2>3 DEF Mapped
  <2>13. FramesInv(m2, ps) /\ Mapped(m2.kmap) = Mapped(m.kmap) \cup P
    <3> HIDE DEF P
    <3>1. /\ \A v \in P : m2.kmap[v] \in FreeFrames(m)
          /\ \A v, w \in P : m2.kmap[v] = m2.kmap[w] => v = w
          /\ \A v \in Pages \ P : m2.kmap[v] = m.kmap[v]
      <4>1. \A v \in P : m2.kmap[v] = g[v]
        BY <2>2, <2>9, <2>11
      <4> QED BY <4>1, <2>7, <2>9, <2>11
    <3>2. \A b \in Int : b \in m2.bits <=>
             b \in m.bits \/ \E v \in P : b = FreePages + v \/ b = m2.kmap[v]
      <4>1. \A v \in P : m2.kmap[v] = g[v]
        BY <2>2, <2>9, <2>11
      <4>2. \A b : b \in bits2 <=> b \in m.bits \/ \E v \in P : b = FreePages + v \/ b = g[v]
        <5> HIDE DEF g, bits2
        <5> QED BY <2>9
      <4> HIDE DEF g, bits2, m2
      <4>3. \A b : (\E v \in P : b = FreePages + v \/ b = g[v]) <=>
                  (\E v \in P : b = FreePages + v \/ b = m2.kmap[v])
        BY <4>1, Zenon
      <4>4. m2.bits = bits2
        BY <2>11
      <4>5. ASSUME NEW b
            PROVE  b \in m2.bits <=>
                     b \in m.bits \/ \E v \in P : b = FreePages + v \/ b = m2.kmap[v]
        <5>1. b \in bits2 <=> b \in m.bits \/ \E v \in P : b = FreePages + v \/ b = g[v]
          BY <4>2, Zenon
        <5>2. (\E v \in P : b = FreePages + v \/ b = g[v]) <=>
              (\E v \in P : b = FreePages + v \/ b = m2.kmap[v])
          BY <4>3, Zenon
        <5> QED BY <5>1, <5>2, <4>4, Zenon
      <4> QED BY <4>5, Zenon
    <3>3. P \in SUBSET Pages
      BY <2>2
    <3>4. m2 \in MemRecords
      BY <2>11
    <3> QED BY <2>12, <3>1, <3>2, <3>3, <3>4, KernelMapped
  <2> QED BY <2>2, <2>4, <2>11, <2>12, <2>13
<1> QED BY <1>3, <1>4, <1>5, <1>6

\* mfree_page(PF_KERNEL, at, n) of pages that are mapped.
LEMMA MfreeKernelFacts ==
    ASSUME NEW m \in MemRecords, m.halt = "no", NEW ps \in [Procs -> ProcRecords],
           FramesInv(m, ps), NEW n \in Nat \ {0}, NEW at \in Int,
           at .. at + n - 1 \subseteq Mapped(m.kmap)
    PROVE  /\ MfreeKernel(m, at, n) \in MemRecords /\ MfreeKernel(m, at, n).halt = "no"
           /\ FramesInv(MfreeKernel(m, at, n), ps)
           /\ Mapped(MfreeKernel(m, at, n).kmap) = Mapped(m.kmap) \ (at .. at + n - 1)
<1> DEFINE P == at .. at + n - 1
           bits2 == m.bits \ ({PfreeBit(m.kmap[v]) : v \in P} \cup {VaddrBase + v : v \in P})
           kmap2 == [v \in DOMAIN m.kmap |-> IF v \in P THEN None ELSE m.kmap[v]]
           m2 == [m EXCEPT !.bits = bits2, !.kmap = kmap2]
<1>0. m.bits \in SUBSET Int /\ m.kmap \in [Pages -> KFrames \cup {None}]
  BY DEF MemRecords
<1>1. \A v \in P : v \in Pages /\ m.kmap[v] \in KFrames /\ m.kmap[v] \in Frames
  BY <1>0, FrameKinds DEF Mapped
<1>2. MfreeKernel(m, at, n) = m2
  <2>1. ~(n < 1 \/ \E v \in P : m.kmap[v] \notin 0 .. KernelPages - 1)
    BY <1>1 DEF KFrames
  <2> QED BY <2>1 DEF MfreeKernel
<1>3. /\ bits2 = m.bits \ ({m.kmap[v] : v \in P} \cup {FreePages + v : v \in P})
      /\ kmap2 = [v \in Pages |-> IF v \in P THEN None ELSE m.kmap[v]]
  <2>1. {VaddrBase + v : v \in P} = {FreePages + v : v \in P}
    BY ConstFacts
  <2>2. {PfreeBit(m.kmap[v]) : v \in P} = {m.kmap[v] : v \in P}
    BY <1>1, BitFacts
  <2>3. kmap2 = [v \in Pages |-> IF v \in P THEN None ELSE m.kmap[v]]
    BY <1>0
  <2> QED BY <2>1, <2>2, <2>3
<1>4. m2 \in MemRecords /\ m2.halt = "no" /\ m2.bits = bits2 /\ m2.kmap = kmap2
  <2>1. bits2 \in SUBSET Int /\ kmap2 \in [Pages -> KFrames \cup {None}]
    BY <1>0, <1>3
  <2> HIDE DEF bits2, kmap2
  <2> QED BY <2>1 DEF MemRecords
<1> HIDE DEF m2, bits2, kmap2, P
<1>5. FramesInv(m2, ps) /\ Mapped(m2.kmap) = Mapped(m.kmap) \ P
  <2>1. P \in SUBSET Mapped(m.kmap)
    BY DEF P
  <2>2. /\ m2.bits = m.bits \ ({m.kmap[v] : v \in P} \cup {FreePages + v : v \in P})
        /\ m2.kmap = [v \in Pages |-> IF v \in P THEN None ELSE m.kmap[v]]
    BY <1>3, <1>4
  <2> QED BY <2>1, <2>2, <1>4, KernelUnmapped
<1> QED BY <1>2, <1>4, <1>5 DEF P

-----------------------------------------------------------------------------
\* Pages of a process

\* Pages S and tables of a process get frames nobody has.
Gains(m, ps, p, S, N, q, m2) ==
    /\ m \in MemRecords /\ ps \in [Procs -> ProcRecords] /\ FramesInv(m, ps)
    /\ p \in Procs /\ S \in SUBSET UPages
    /\ q \in ProcRecords /\ m2 \in MemRecords
    /\ S \cap Mapped(ps[p].map) = {} /\ q.vbits = ps[p].vbits \cup S
    /\ \A v \in S : q.map[v] \in FreeUserFrames(m)
    /\ \A v, w \in S : q.map[v] = q.map[w] => v = w
    /\ \A v \in UPages \ S : q.map[v] = ps[p].map[v]
    /\ \A f : f \in Range(q.tables) <=> f \in Range(ps[p].tables) \/ f \in N
    /\ N \subseteq FreeFrames(m)
    /\ m2.kmap = m.kmap
    /\ \A b \in Int : b \in m2.bits <=>
         b \in m.bits \/ b \in N \/ \E v \in S : b = q.map[v]

LEMMA UserMapped ==
    ASSUME NEW m, NEW ps, NEW p, NEW S, NEW N, NEW q, NEW m2, Gains(m, ps, p, S, N, q, m2)
    PROVE  FramesInv(m2, [ps EXCEPT ![p] = q]) /\ Mapped(q.map) = Mapped(ps[p].map) \cup S
<1> USE DEF Gains
<1> DEFINE ps2 == [ps EXCEPT ![p] = q]
<1>1. /\ q.map \in [UPages -> UFrames \cup {None}]
      /\ m.kmap \in [Pages -> KFrames \cup {None}]
      /\ \A x \in Procs : ps[x].map \in [UPages -> UFrames \cup {None}]
  BY DEF ProcRecords, MemRecords
<1>2. /\ FreeFrames(m) \subseteq KFrames \ m.bits /\ FreeUserFrames(m) \subseteq UFrames \ m.bits
      /\ \A f \in FreeFrames(m) \cup FreeUserFrames(m) :
                /\ f \notin FramesOf(m.kmap)
                /\ \A x \in Procs : f \notin FramesOf(ps[x].map) \cup Range(ps[x].tables)
  BY FreeFrameFacts
<1>3. \A v \in S : q.map[v] \in UFrames /\ q.map[v] \in Frames /\ q.map[v] # None
                   /\ q.map[v] \notin m.bits
  BY <1>2, FrameKinds
<1>4. Mapped(q.map) = Mapped(ps[p].map) \cup S
  BY <1>1, <1>3 DEF Mapped
<1>5. ASSUME NEW f PROVE f \in FramesOf(q.map) <=>
                           f \in FramesOf(ps[p].map) \/ \E v \in S : f = q.map[v]
  <2>1. ASSUME f \in FramesOf(q.map)
        PROVE  f \in FramesOf(ps[p].map) \/ \E v \in S : f = q.map[v]
    <3>1. PICK v \in UPages : f = q.map[v] /\ f # None
      BY <2>1, <1>1 DEF FramesOf, Mapped
    <3>2. CASE v \in S
      BY <3>1, <3>2
    <3>3. CASE v \notin S
      BY <3>1, <3>3, <1>1, FramesOfMember
    <3> QED BY <3>2, <3>3
  <2>2. ASSUME NEW v \in S, f = q.map[v] PROVE f \in FramesOf(q.map)
    BY <2>2, <1>1, <1>3, FramesOfMember
  <2>3. ASSUME f \in FramesOf(ps[p].map) PROVE f \in FramesOf(q.map)
    <3>1. PICK v \in UPages : f = ps[p].map[v] /\ f # None
      BY <2>3, <1>1 DEF FramesOf, Mapped
    <3>2. q.map[v] = f /\ v \in DOMAIN q.map
      BY <3>1, <1>1 DEF Mapped
    <3> QED BY <3>1, <3>2, FramesOfMember
  <2> QED BY <2>1, <2>2, <2>3
<1>6. Once(q.map)
  <2> SUFFICES ASSUME NEW v \in UPages, NEW w \in UPages, v # w, q.map[v] = q.map[w],
                      q.map[v] # None
               PROVE  FALSE
    BY <1>1 DEF Once
  <2>1. CASE v \in S /\ w \in S
    BY <2>1
  <2>2. CASE v \notin S /\ w \notin S
    <3>1. Once(ps[p].map)
      BY DEF FramesInv
    <3> QED BY <2>2, <3>1, <1>1 DEF Once
  <2>3. ASSUME NEW a \in S, NEW b \in UPages \ S, q.map[a] = ps[p].map[b] PROVE FALSE
    <3>1. q.map[a] \in FramesOf(ps[p].map)
      BY <2>3, <1>1, <1>3, FramesOfMember
    <3> QED BY <3>1, <1>2
  <2> QED BY <2>1, <2>2, <2>3
<1>7. /\ ps2[p] = q /\ \A x \in Procs : x # p => ps2[x] = ps[x]
      /\ \A x \in Procs : ps2[x] = IF x = p THEN q ELSE ps[x]
  OBVIOUS
<1> HIDE DEF ps2
<1>8. ASSUME NEW x \in Procs PROVE Once(ps2[x].map) /\ ps2[x].vbits = Mapped(ps2[x].map)
  <2>1. \A y \in Procs : Once(ps[y].map) /\ ps[y].vbits = Mapped(ps[y].map)
    BY DEF FramesInv
  <2>2. CASE x = p
    BY <2>1, <2>2, <1>4, <1>6, <1>7
  <2>3. CASE x # p
    BY <2>1, <2>3, <1>7
  <2> QED BY <2>2, <2>3
<1>9. ASSUME NEW x \in Procs, x # p
      PROVE  /\ FramesOf(q.map) \cap FramesOf(ps[x].map) = {}
             /\ Range(q.tables) \cap Range(ps[x].tables) = {}
  <2>1. /\ FramesOf(ps[p].map) \cap FramesOf(ps[x].map) = {}
        /\ Range(ps[p].tables) \cap Range(ps[x].tables) = {}
    BY <1>9 DEF FramesInv
  <2> QED BY <2>1, <1>2, <1>5
<1>10. ASSUME NEW x \in Procs, NEW y \in Procs, x # y
       PROVE  /\ FramesOf(ps2[x].map) \cap FramesOf(ps2[y].map) = {}
              /\ Range(ps2[x].tables) \cap Range(ps2[y].tables) = {}
  <2>1. CASE x = p
    BY <1>7, <1>9, <1>10, <2>1
  <2>2. CASE y = p
    BY <1>7, <1>9, <1>10, <2>2
  <2>3. CASE x # p /\ y # p
    BY <1>7, <1>10, <2>3 DEF FramesInv
  <2> QED BY <2>1, <2>2, <2>3
<1>11. ASSUME NEW x \in Procs PROVE Range(ps2[x].tables) \cap FramesOf(m2.kmap) = {}
  <2>1. \A y \in Procs : Range(ps[y].tables) \cap FramesOf(m.kmap) = {}
    BY DEF FramesInv
  <2> QED BY <2>1, <1>2, <1>7
<1>12. ASSUME NEW f \in Frames
       PROVE  f \in m2.bits <=>
                \/ f \in FramesOf(m2.kmap)
                \/ \E x \in Procs : f \in FramesOf(ps2[x].map) \cup Range(ps2[x].tables)
  <2>1. f \in m2.bits <=> f \in m.bits \/ f \in N \/ \E v \in S : f = q.map[v]
    BY DEF Frames
  <2>2. f \in m.bits <=>
                \/ f \in FramesOf(m.kmap)
                \/ \E x \in Procs : f \in FramesOf(ps[x].map) \cup Range(ps[x].tables)
    BY DEF FramesInv
  <2>3. f \in FramesOf(q.map) \cup Range(q.tables) <=>
                \/ f \in FramesOf(ps[p].map) \cup Range(ps[p].tables)
                \/ f \in N \/ \E v \in S : f = q.map[v]
    BY <1>5
  <2> QED BY <2>1, <2>2, <2>3, <1>7
<1>13. ASSUME NEW v \in Pages PROVE FreePages + v \in m2.bits <=> m2.kmap[v] # None
  <2>1. FreePages + v \in Int /\ FreePages + v \notin Frames
    BY ConstFacts DEF Pages, Frames
  <2>2. FreePages + v \notin N /\ \A w \in S : FreePages + v # q.map[w]
    BY <2>1, <1>2, <1>3, FrameKinds
  <2> QED BY <2>1, <2>2 DEF FramesInv
<1>14. Once(m2.kmap)
  BY DEF FramesInv
<1> QED BY <1>4, <1>8, <1>10, <1>11, <1>12, <1>13, <1>14 DEF FramesInv, ps2

LEMMA RecordFrames ==
    ASSUME NEW q \in ProcRecords
    PROVE  /\ Range(q.tables) \subseteq KFrames
           /\ FramesOf(q.map) \subseteq UFrames
           /\ Mapped(q.map) \subseteq UPages
<1>1. q.tables \in Tables /\ q.map \in [UPages -> UFrames \cup {None}]
  BY DEF ProcRecords
<1>2. PICK D \in SUBSET Int : q.tables \in [D -> KFrames]
  BY <1>1 DEF Tables
<1> QED BY <1>1, <1>2 DEF Range, FramesOf, Mapped

\* Pages S and tables of a process are given back with their frames.
Loses(m, ps, p, S, N, q, m2) ==
    /\ m \in MemRecords /\ ps \in [Procs -> ProcRecords] /\ FramesInv(m, ps)
    /\ p \in Procs /\ S \in SUBSET Mapped(ps[p].map) /\ N \in SUBSET Range(ps[p].tables)
    /\ q \in ProcRecords /\ m2 \in MemRecords
    /\ q.vbits = ps[p].vbits \ S
    /\ \A v \in S : q.map[v] = None
    /\ \A v \in UPages \ S : q.map[v] = ps[p].map[v]
    /\ \A f : f \in Range(q.tables) <=> f \in Range(ps[p].tables) /\ f \notin N
    /\ m2.kmap = m.kmap
    /\ \A b \in Int : b \in m2.bits <=>
         b \in m.bits /\ b \notin N /\ \A v \in S : b # ps[p].map[v]

Lost(ps, p, S, q, m2) ==
    FramesInv(m2, [ps EXCEPT ![p] = q]) /\ Mapped(q.map) = Mapped(ps[p].map) \ S

LEMMA UserUnmapped ==
    ASSUME NEW m, NEW ps, NEW p, NEW S, NEW N, NEW q, NEW m2, Loses(m, ps, p, S, N, q, m2)
    PROVE  Lost(ps, p, S, q, m2)
<1> SUFFICES FramesInv(m2, [ps EXCEPT ![p] = q]) /\ Mapped(q.map) = Mapped(ps[p].map) \ S
  BY DEF Lost
<1> USE DEF Loses
<1> DEFINE ps2 == [ps EXCEPT ![p] = q]
<1>1. /\ q.map \in [UPages -> UFrames \cup {None}]
      /\ m.kmap \in [Pages -> KFrames \cup {None}]
      /\ \A x \in Procs : ps[x].map \in [UPages -> UFrames \cup {None}]
      /\ S \subseteq UPages
  BY DEF ProcRecords, MemRecords, Mapped
<1>2. /\ \A v \in S : ps[p].map[v] # None /\ ps[p].map[v] \in UFrames
      /\ \A v \in S : ps[p].map[v] \in FramesOf(ps[p].map)
      /\ \A v \in S, w \in UPages : ps[p].map[w] = ps[p].map[v] => w = v
  <2>1. \A v \in S : ps[p].map[v] # None /\ ps[p].map[v] \in UFrames
    BY <1>1, FrameKinds DEF Mapped
  <2>2. \A v \in S : ps[p].map[v] \in FramesOf(ps[p].map)
    BY <1>1, <2>1, FramesOfMember
  <2>3. Once(ps[p].map)
    BY DEF FramesInv
  <2>4. \A v \in S, w \in UPages : ps[p].map[w] = ps[p].map[v] => w = v
    BY <1>1, <2>1, <2>3 DEF Once
  <2> QED BY <2>1, <2>2, <2>4
<1>3. /\ \A x \in Procs : Range(ps[x].tables) \subseteq KFrames /\ FramesOf(ps[x].map) \subseteq UFrames
      /\ FramesOf(m.kmap) \subseteq KFrames
  <2>1. ASSUME NEW x \in Procs PROVE ps[x] \in ProcRecords
    OBVIOUS
  <2>2. FramesOf(m.kmap) \subseteq KFrames
    BY <1>1 DEF FramesOf, Mapped
  <2> QED BY <2>1, <2>2, RecordFrames
<1>4. Mapped(q.map) = Mapped(ps[p].map) \ S
  BY <1>1 DEF Mapped
<1>5. ASSUME NEW f PROVE f \in FramesOf(q.map) <=>
                           f \in FramesOf(ps[p].map) /\ \A v \in S : f # ps[p].map[v]
  <2>1. ASSUME f \in FramesOf(q.map)
        PROVE  f \in FramesOf(ps[p].map) /\ \A v \in S : f # ps[p].map[v]
    <3>1. PICK v \in UPages : f = q.map[v] /\ f # None
      BY <2>1, <1>1 DEF FramesOf, Mapped
    <3>2. v \notin S /\ f = ps[p].map[v]
      BY <3>1
    <3> QED BY <3>1, <3>2, <1>1, <1>2, FramesOfMember
  <2>2. ASSUME f \in FramesOf(ps[p].map), \A v \in S : f # ps[p].map[v]
        PROVE  f \in FramesOf(q.map)
    <3>1. PICK v \in UPages : f = ps[p].map[v] /\ f # None
      BY <2>2, <1>1 DEF FramesOf, Mapped
    <3>2. q.map[v] = f /\ v \in DOMAIN q.map
      BY <3>1, <2>2, <1>1
    <3> QED BY <3>1, <3>2, FramesOfMember
  <2> QED BY <2>1, <2>2
<1>6. Once(q.map)
  <2>1. Once(ps[p].map)
    BY DEF FramesInv
  <2>2. \A v \in UPages : q.map[v] # None => q.map[v] = ps[p].map[v]
    BY <1>1
  <2> QED BY <2>1, <2>2, <1>1 DEF Once
<1>7. /\ ps2[p] = q /\ \A x \in Procs : x # p => ps2[x] = ps[x]
      /\ \A x \in Procs : ps2[x] = IF x = p THEN q ELSE ps[x]
  OBVIOUS
<1> HIDE DEF ps2
<1>8. ASSUME NEW x \in Procs PROVE Once(ps2[x].map) /\ ps2[x].vbits = Mapped(ps2[x].map)
  <2>1. \A y \in Procs : Once(ps[y].map) /\ ps[y].vbits = Mapped(ps[y].map)
    BY DEF FramesInv
  <2>2. CASE x = p
    BY <2>1, <2>2, <1>4, <1>6, <1>7
  <2>3. CASE x # p
    BY <2>1, <2>3, <1>7
  <2> QED BY <2>2, <2>3
<1>9. ASSUME NEW x \in Procs, x # p
      PROVE  /\ FramesOf(q.map) \cap FramesOf(ps[x].map) = {}
             /\ Range(q.tables) \cap Range(ps[x].tables) = {}
  <2>1. /\ FramesOf(ps[p].map) \cap FramesOf(ps[x].map) = {}
        /\ Range(ps[p].tables) \cap Range(ps[x].tables) = {}
    BY <1>9 DEF FramesInv
  <2> QED BY <2>1, <1>5
<1>10. ASSUME NEW x \in Procs, NEW y \in Procs, x # y
       PROVE  /\ FramesOf(ps2[x].map) \cap FramesOf(ps2[y].map) = {}
              /\ Range(ps2[x].tables) \cap Range(ps2[y].tables) = {}
  <2>1. CASE x = p
    BY <1>7, <1>9, <1>10, <2>1
  <2>2. CASE y = p
    BY <1>7, <1>9, <1>10, <2>2
  <2>3. CASE x # p /\ y # p
    BY <1>7, <1>10, <2>3 DEF FramesInv
  <2> QED BY <2>1, <2>2, <2>3
<1>11. ASSUME NEW x \in Procs PROVE Range(ps2[x].tables) \cap FramesOf(m2.kmap) = {}
  <2>1. \A y \in Procs : Range(ps[y].tables) \cap FramesOf(m.kmap) = {}
    BY DEF FramesInv
  <2> QED BY <2>1, <1>7
<1>12. ASSUME NEW f \in Frames
       PROVE  f \in m2.bits <=>
                \/ f \in FramesOf(m2.kmap)
                \/ \E x \in Procs : f \in FramesOf(ps2[x].map) \cup Range(ps2[x].tables)
  <2>1. f \in m2.bits <=> f \in m.bits /\ f \notin N /\ \A v \in S : f # ps[p].map[v]
    BY DEF Frames
  <2>2. f \in m.bits <=>
                \/ f \in FramesOf(m.kmap)
                \/ \E x \in Procs : f \in FramesOf(ps[x].map) \cup Range(ps[x].tables)
    BY DEF FramesInv
  <2>3. \A v \in S : ps[p].map[v] \notin KFrames
    BY <1>2, FrameKinds
  <2>4. ASSUME NEW v \in S, f = ps[p].map[v], NEW x \in Procs, x # p
        PROVE  f \notin FramesOf(ps[x].map) \cup Range(ps[x].tables)
    <3>1. f \notin FramesOf(ps[x].map)
      BY <2>4, <1>2 DEF FramesInv
    <3> QED BY <3>1, <2>3, <2>4, <1>3
  <2>5. ASSUME f \in N, NEW x \in Procs, x # p
        PROVE  f \notin FramesOf(ps[x].map) \cup Range(ps[x].tables)
    <3>1. f \in Range(ps[p].tables)
      BY <2>5
    <3>2. f \notin Range(ps[x].tables)
      BY <2>5, <3>1 DEF FramesInv
    <3> QED BY <3>1, <3>2, <1>3, FrameKinds
  <2>6. f \in N \/ (\E v \in S : f = ps[p].map[v]) => f \notin FramesOf(m.kmap)
    <3>1. f \in N => f \notin FramesOf(m.kmap)
      BY DEF FramesInv
    <3> QED BY <3>1, <2>3, <1>3
  <2>7. f \in FramesOf(q.map) \cup Range(q.tables) <=>
                /\ f \in FramesOf(ps[p].map) \cup Range(ps[p].tables)
                /\ f \notin N /\ \A v \in S : f # ps[p].map[v]
    <3>1. f \in N => f \notin FramesOf(ps[p].map)
      BY <1>3, FrameKinds
    <3>2. (\E v \in S : f = ps[p].map[v]) => f \notin Range(ps[p].tables)
      BY <1>3, <2>3
    <3> QED BY <3>1, <3>2, <1>5
  <2>8. ASSUME NEW x \in Procs
        PROVE  f \in FramesOf(ps2[x].map) \cup Range(ps2[x].tables) <=>
                 /\ f \in FramesOf(ps[x].map) \cup Range(ps[x].tables)
                 /\ f \notin N /\ \A v \in S : f # ps[p].map[v]
    <3>1. CASE x = p
      BY <3>1, <2>7, <1>7
    <3>2. CASE x # p
      BY <3>2, <2>4, <2>5, <1>7
    <3> QED BY <3>1, <3>2
  <2> QED BY <2>1, <2>2, <2>6, <2>8
<1>13. ASSUME NEW v \in Pages PROVE FreePages + v \in m2.bits <=> m2.kmap[v] # None
  <2>1. FreePages + v \in Int /\ FreePages + v \notin Frames
    BY ConstFacts DEF Pages, Frames
  <2>2. FreePages + v \notin N /\ \A w \in S : FreePages + v # ps[p].map[w]
    BY <2>1, <1>2, <1>3, FrameKinds
  <2> QED BY <2>1, <2>2 DEF FramesInv
<1>14. Once(m2.kmap)
  BY DEF FramesInv
<1> QED BY <1>4, <1>8, <1>10, <1>11, <1>12, <1>13, <1>14 DEF FramesInv, ps2

\* The members of S get different members of F, in the order of both.
LEMMA SpreadFacts ==
    ASSUME NEW S \in SUBSET Nat, IsFiniteSet(S), NEW F \in SUBSET Nat, IsFiniteSet(F),
           ~(Cardinality(F) < Cardinality(S)), NEW g, g = Lowest(F, Cardinality(S))
    PROVE  /\ \A v \in S : g[Rank(S, v)] \in F
           /\ \A v, w \in S : g[Rank(S, v)] = g[Rank(S, w)] => v = w
           /\ \A f : (\E k \in DOMAIN g : f = g[k]) <=> \E v \in S : f = g[Rank(S, v)]
<1> DEFINE n == Cardinality(S)
<1>1. n \in Nat /\ Cardinality(F) \in Nat /\ n <= Cardinality(F)
  BY FS_CardinalityType
<1>2. g \in [1 .. n -> F] /\ \A i, j \in 1 .. n : g[i] = g[j] => i = j
  BY <1>1, LowestFacts
<1>3. /\ \A v \in S : Rank(S, v) \in 1 .. n
      /\ \A v, w \in S : Rank(S, v) = Rank(S, w) => v = w
  <2>1. S \in SUBSET Int
    OBVIOUS
  <2> QED BY <2>1, RankFacts DEF Rank
<1>4. ASSUME NEW k \in 1 .. n PROVE \E v \in S : Rank(S, v) = k
  <2>1. k - 1 \in Nat /\ k - 1 < n
    BY <1>1
  <2> HIDE DEF n
  <2>2. PICK v \in S : Cardinality({y \in S : y < v}) = k - 1
    BY <2>1, RankExists DEF n
  <2> DEFINE B == {y \in S : y < v}
  <2>3. {y \in S : y <= v} = B \cup {v} /\ v \notin B
    <3>1. \A y \in S : y \in Nat
      OBVIOUS
    <3>2. (\A y \in S : y <= v <=> y < v \/ y = v) /\ ~(v < v)
      BY <3>1
    <3> QED BY <3>2
  <2>4. IsFiniteSet(B)
    BY FS_Subset
  <2> HIDE DEF B
  <2>5. Cardinality(B \cup {v}) = k
    <3>1. Cardinality(B) = k - 1
      BY <2>2 DEF B
    <3>2. Cardinality(B \cup {v}) = Cardinality(B) + 1
      BY <2>3, <2>4, FS_AddElement
    <3> QED BY <3>1, <3>2, <2>1
  <2> QED BY <2>3, <2>5 DEF Rank
<1> HIDE DEF n
<1> QED BY <1>2, <1>3, <1>4

\* The new page tables of S.
LEMMA TableNumbers ==
    ASSUME NEW q \in ProcRecords, NEW S \in SUBSET UPages
    PROVE  /\ NewTables(q, S) \in SUBSET Nat /\ IsFiniteSet(NewTables(q, S))
           /\ NewTables(q, S) \cap DOMAIN q.tables = {}
           /\ S \in SUBSET Nat /\ IsFiniteSet(S)
<1>1. S \in SUBSET Nat /\ IsFiniteSet(S)
  <2>1. IsFiniteSet(UPages)
    BY ConstFacts, FS_Interval DEF UPages
  <2>2. IsFiniteSet(S)
    BY <2>1, FS_Subset
  <2> QED BY <2>2 DEF UPages
<1> DEFINE all == {v \div TablePages : v \in S}
<1>2. all \in SUBSET Nat
  BY <1>1, ConstFacts
<1>3. IsFiniteSet(all)
  <2>1. ASSUME NEW a \in Nat, NEW b \in Nat \ {0} PROVE a \div b <= a /\ a \div b \in Nat
    OBVIOUS
  <2>2. \A v \in S : v \in Nat /\ v <= UserVPages
    BY ConstFacts DEF UPages
  <2>3. ASSUME NEW t \in all PROVE t <= UserVPages
    <3>1. PICK v \in S : t = v \div TablePages
      OBVIOUS
    <3>2. t <= v /\ t \in Nat
      BY <3>1, <2>1, <2>2, ConstFacts
    <3> QED BY <3>2, <2>2, ConstFacts
  <2>4. UserVPages \in Nat
    BY ConstFacts
  <2> HIDE DEF all
  <2> QED BY <1>2, <2>3, <2>4, FS_BoundedSetOfNaturals
<1> HIDE DEF all
<1>4. NewTables(q, S) = all \ DOMAIN q.tables
  BY DEF NewTables, all
<1> QED BY <1>1, <1>2, <1>3, <1>4, FS_Subset

\* What a process keeps when its page tables change.
SameLife(q, r) == r.state = q.state /\ r.pcb = q.pcb /\ r.vbm = q.vbm /\ r.pgdir = q.pgdir

\* Pages S are to be mapped, and are marked already.
Wants(m, ps, p, S, q) ==
    /\ m \in MemRecords /\ m.halt = "no"
    /\ ps \in [Procs -> ProcRecords] /\ FramesInv(m, ps)
    /\ p \in Procs /\ S \in SUBSET UPages /\ S \cap Mapped(ps[p].map) = {}
    /\ q \in ProcRecords /\ q.map = ps[p].map /\ q.tables = ps[p].tables
    /\ q.vbits = ps[p].vbits \cup S

\* They are mapped.
Gets(m, ps, p, S, q, r) ==
    /\ r.m \in MemRecords /\ r.m.halt = "no" /\ r.m.kmap = m.kmap
    /\ r.q \in ProcRecords /\ SameLife(q, r.q)
    /\ FramesInv(r.m, [ps EXCEPT ![p] = r.q])
    /\ Mapped(r.q.map) = Mapped(ps[p].map) \cup S

LEMMA FillTablesFacts ==
    ASSUME NEW m, NEW ps, NEW p, NEW S, NEW q, Wants(m, ps, p, S, q),
           ~(Cardinality(FreeUserFrames(m)) < Cardinality(S)),
           ~(Cardinality(FreeFrames(m)) < Cardinality(NewTables(q, S)))
    PROVE  Gets(m, ps, p, S, q, FillTables(m, q, S))
<1> USE DEF Wants
<1> DEFINE r == FillTables(m, q, S)
<1> DEFINE new == NewTables(q, S)
           F == FreeUserFrames(m)
           K == FreeFrames(m)
           frames == Lowest(F, Cardinality(S))
           tframes == Lowest(K, Cardinality(new))
           bits2 == m.bits \cup {FrameBit(frames[k]) : k \in DOMAIN frames}
                           \cup {tframes[k] : k \in DOMAIN tframes}
           map2 == [v \in DOMAIN q.map |-> IF v \in S THEN frames[Rank(S, v)] ELSE q.map[v]]
           tables2 == [t \in DOMAIN q.tables \cup new |->
                          IF t \in new THEN tframes[Rank(new, t)] ELSE q.tables[t]]
<1>1. r.m = [m EXCEPT !.bits = bits2] /\ r.q = [q EXCEPT !.map = map2, !.tables = tables2]
  BY DEF FillTables
<1>2. /\ K \subseteq KFrames \ m.bits /\ F \subseteq UFrames \ m.bits
      /\ IsFiniteSet(K) /\ IsFiniteSet(F)
  BY FreeFrameFacts
<1>3. /\ new \in SUBSET Nat /\ IsFiniteSet(new) /\ new \cap DOMAIN q.tables = {}
      /\ S \in SUBSET Nat /\ IsFiniteSet(S)
  BY TableNumbers
<1>4. K \in SUBSET Nat /\ F \in SUBSET Nat /\ F \subseteq Frames
  BY <1>2, ConstFacts, FrameKinds DEF KFrames, UFrames
<1>16. (\A f \in F : f \in Int) /\ (\A f \in K : f \in Int)
  BY <1>4
<1>5. /\ \A v \in S : frames[Rank(S, v)] \in F
      /\ \A v, w \in S : frames[Rank(S, v)] = frames[Rank(S, w)] => v = w
      /\ \A f : (\E k \in DOMAIN frames : f = frames[k]) <=> \E v \in S : f = frames[Rank(S, v)]
  <2> HIDE DEF new, F, K
  <2> QED BY <1>2, <1>3, <1>4, SpreadFacts DEF F
<1>6. /\ \A v \in new : tframes[Rank(new, v)] \in K
      /\ \A f : (\E k \in DOMAIN tframes : f = tframes[k]) <=> \E v \in new : f = tframes[Rank(new, v)]
  <2>1. ~(Cardinality(K) < Cardinality(new))
    OBVIOUS
  <2> HIDE DEF new, F, K
  <2> QED BY <2>1, <1>2, <1>3, <1>4, SpreadFacts
<1> HIDE DEF frames, tframes, new, F, K
<1>7. q.map \in [UPages -> UFrames \cup {None}] /\ q.tables \in Tables
  BY DEF ProcRecords
<1>8. /\ \A v \in S : map2[v] = frames[Rank(S, v)]
      /\ \A v \in UPages \ S : map2[v] = q.map[v]
      /\ map2 \in [UPages -> UFrames \cup {None}]
  <2>1. map2 = [v \in UPages |-> IF v \in S THEN frames[Rank(S, v)] ELSE q.map[v]]
    BY <1>7
  <2>2. \A v \in S : frames[Rank(S, v)] \in UFrames
    BY <1>2, <1>5
  <2> HIDE DEF map2
  <2> QED BY <2>1, <2>2, <1>7
<1> DEFINE N == {tframes[Rank(new, t)] : t \in new}
<1>9. tables2 \in Tables /\ \A f : f \in Range(tables2) <=> f \in Range(q.tables) \/ f \in N
  <2>1. PICK D \in SUBSET Int : q.tables \in [D -> KFrames]
    BY <1>7 DEF Tables
  <2>2. \A t \in new : tframes[Rank(new, t)] \in KFrames
    BY <1>2, <1>6
  <2>3. tables2 = [t \in D \cup new |->
                     IF t \in new THEN tframes[Rank(new, t)] ELSE q.tables[t]]
    BY <2>1
  <2> HIDE DEF tables2
  <2>4. tables2 \in [D \cup new -> KFrames] /\ D \cup new \in SUBSET Int
    <3>1. ASSUME NEW t \in D \cup new PROVE tables2[t] \in KFrames
      BY <2>1, <2>2, <2>3
    <3>2. tables2 \in [D \cup new -> KFrames]
      BY <2>3, <3>1
    <3>3. \A t \in new : t \in Int
      BY <1>3
    <3> QED BY <3>2, <3>3
  <2>5. tables2 \in Tables
    BY <2>4 DEF Tables
  <2>6. \A t \in new : tables2[t] = tframes[Rank(new, t)]
    BY <2>3
  <2>7. \A t \in D : tables2[t] = q.tables[t]
    BY <2>1, <2>3, <1>3
  <2>8. DOMAIN tables2 = D \cup new /\ DOMAIN q.tables = D
    BY <2>1, <2>3
  <2>9. ASSUME NEW f PROVE f \in Range(tables2) <=> f \in Range(q.tables) \/ f \in N
    <3> HIDE DEF Wants
    <3>1. f \in Range(tables2) <=> \E t \in D \cup new : f = tables2[t]
      BY <2>8 DEF Range
    <3>2. f \in Range(q.tables) <=> \E t \in D : f = q.tables[t]
      BY <2>8 DEF Range
    <3>3. f \in N <=> \E t \in new : f = tframes[Rank(new, t)]
      OBVIOUS
    <3> HIDE DEF N
    <3> QED BY <3>1, <3>2, <3>3, <2>6, <2>7
  <2> QED BY <2>5, <2>9
<1>10. \A b \in Int : b \in bits2 <=> b \in m.bits \/ b \in N \/ \E v \in S : b = map2[v]
  <2>1. {FrameBit(frames[k]) : k \in DOMAIN frames} = {frames[Rank(S, v)] : v \in S}
    <3>1. ASSUME NEW k \in DOMAIN frames PROVE FrameBit(frames[k]) = frames[k]
      <4>1. frames[k] \in F
        BY <1>5
      <4> QED BY <4>1, <1>4, BitFacts
    <3> QED BY <3>1, <1>5
  <2>2. {tframes[k] : k \in DOMAIN tframes} = N
    BY <1>6
  <2>3. bits2 = m.bits \cup {frames[Rank(S, v)] : v \in S} \cup N
    BY <2>1, <2>2
  <2> HIDE DEF bits2, map2, N
  <2> QED BY <2>3, <1>8
<1>11. bits2 \in SUBSET Int
  <2>1. m.bits \in SUBSET Int
    BY DEF MemRecords
  <2>2. \A k \in DOMAIN frames : FrameBit(frames[k]) \in Int
    <3>1. ASSUME NEW k \in DOMAIN frames PROVE FrameBit(frames[k]) \in Int
      <4>1. frames[k] \in F
        BY <1>5
      <4>2. FrameBit(frames[k]) = frames[k]
        BY <4>1, <1>4, BitFacts
      <4> QED BY <4>1, <4>2, <1>16
    <3> QED BY <3>1
  <2>3. \A k \in DOMAIN tframes : tframes[k] \in Int
    BY <1>6, <1>16
  <2> QED BY <2>1, <2>2, <2>3
<1>12. N \subseteq FreeFrames(m)
  BY <1>6 DEF K
<1> HIDE DEF bits2, map2, tables2, N, r
<1>13. /\ r.m \in MemRecords /\ r.m.halt = m.halt /\ r.m.kmap = m.kmap /\ r.m.bits = bits2
  BY <1>1, <1>11 DEF MemRecords
<1>14. /\ r.q \in ProcRecords /\ SameLife(q, r.q) /\ r.q.map = map2 /\ r.q.tables = tables2
       /\ r.q.vbits = q.vbits
  BY <1>1, <1>8, <1>9 DEF ProcRecords, SameLife
<1>15. FramesInv(r.m, [ps EXCEPT ![p] = r.q]) /\ Mapped(r.q.map) = Mapped(ps[p].map) \cup S
  <2>0. PICK m2, q2 : m2 = r.m /\ q2 = r.q
    OBVIOUS
  <2>1. \A v \in S : q2.map[v] \in FreeUserFrames(m)
    BY <2>0, <1>5, <1>8, <1>14 DEF F
  <2>2. \A v, w \in S : q2.map[v] = q2.map[w] => v = w
    BY <2>0, <1>5, <1>8, <1>14
  <2>3. \A v \in UPages \ S : q2.map[v] = ps[p].map[v]
    BY <2>0, <1>8, <1>14
  <2>4. \A f : f \in Range(q2.tables) <=> f \in Range(ps[p].tables) \/ f \in N
    BY <2>0, <1>9, <1>14
  <2>5. \A b \in Int : b \in m2.bits <=> b \in m.bits \/ b \in N \/ \E v \in S : b = q2.map[v]
    BY <2>0, <1>10, <1>13, <1>14
  <2>6. q2.vbits = ps[p].vbits \cup S /\ q2 \in ProcRecords /\ m2 \in MemRecords /\ m2.kmap = m.kmap
    BY <2>0, <1>13, <1>14
  <2>7. Gains(m, ps, p, S, N, q2, m2)
    BY <2>1, <2>2, <2>3, <2>4, <2>5, <2>6, <1>12 DEF Gains
  <2>8. FramesInv(m2, [ps EXCEPT ![p] = q2]) /\ Mapped(q2.map) = Mapped(ps[p].map) \cup S
    <3> HIDE DEF Wants
    <3> QED BY <2>7, UserMapped
  <2> QED BY <2>0, <2>8
<1> QED BY <1>13, <1>14, <1>15 DEF Gets, r

\* page_table_add of pages that are not there: the machine stops for want of
\* frames, or each page gets one.
LEMMA MapUserFacts ==
    ASSUME NEW m, NEW ps, NEW p, NEW S, NEW q, Wants(m, ps, p, S, q)
    PROVE  \/ MapUser(m, q, S).m \in MemRecords /\ MapUser(m, q, S).m.halt = "full"
           \/ Gets(m, ps, p, S, q, MapUser(m, q, S))
<1> USE DEF Wants
<1> DEFINE r == MapUser(m, q, S)
<1> DEFINE few == \/ Cardinality(FreeUserFrames(m)) < Cardinality(S)
                  \/ Cardinality(FreeFrames(m)) < Cardinality(NewTables(q, S))
           twice == \E v \in S : q.map[v] # None
           full == [m |-> Halt(m, "full"), q |-> q]
<1>1. r = IF m.halt # "no" THEN [m |-> m, q |-> q] ELSE IF few THEN full
          ELSE IF twice THEN [m |-> Halt(m, "pte repeat"), q |-> q]
          ELSE FillTables(m, q, S)
  BY Zenon DEF MapUser
<1>2. ~twice
  <2>1. DOMAIN q.map = UPages
    BY DEF ProcRecords
  <2> QED BY <2>1 DEF Mapped
<1>3. CASE few
  <2>1. r = full
    <3> HIDE DEF few, twice, full
    <3> QED BY <1>1, <1>3, Zenon
  <2> QED BY <2>1, HaltFacts
<1>4. CASE ~few
  <2>1. r = FillTables(m, q, S)
    <3> HIDE DEF few, twice, full
    <3> QED BY <1>1, <1>2, <1>4, Zenon
  <2>2. Gets(m, ps, p, S, q, FillTables(m, q, S))
    BY <1>4, FillTablesFacts
  <2> QED BY <2>1, <2>2
<1> QED BY <1>3, <1>4

\* Pages P of a process, none of them mapped before, are mapped.
Takes(m, ps, p, n, r) ==
    /\ r.at \in UPages
    /\ r.at .. r.at + n - 1 \subseteq UPages \ Mapped(ps[p].map)
    /\ Gets(m, ps, p, r.at .. r.at + n - 1, ps[p], r)

\* malloc_page(PF_USER, n): the stack's page is marked, so that no heap gets
\* there, nor to the bit behind it.
LEMMA MallocUserFacts ==
    ASSUME NEW m \in MemRecords, m.halt = "no", NEW ps \in [Procs -> ProcRecords],
           FramesInv(m, ps), NEW p \in Procs, StackPage \in Mapped(ps[p].map),
           NEW n \in Nat \ {0}, NEW r, r = MallocUser(m, ps[p], n)
    PROVE  \/ r.m \in MemRecords /\ r.m.halt = "full"
           \/ r.m = m /\ r.q = ps[p] /\ r.at = None /\ n # 1
           \/ Takes(m, ps, p, n, r)
<1> DEFINE q == ps[p]
           clear == Clear(q.vbits, 0, UserVPages)
           at == BitmapScan(q.vbits, 0, UserVPages, n)
           P == at .. at + n - 1
           q1 == [q EXCEPT !.vbits = q.vbits \cup P]
           z == MapUser(m, q1, P)
           full == [m |-> Halt(m, "full"), q |-> q, at |-> None]
           above == at >= StackPage \/ at + n > UserVPages
<1>1. r = IF clear = {} THEN full
          ELSE IF at = None THEN [m |-> m, q |-> q, at |-> None]
          ELSE IF above THEN [m |-> Halt(m, "above the stack"), q |-> q, at |-> None]
          ELSE [m |-> z.m, q |-> z.q, at |-> at]
  BY Zenon DEF MallocUser
<1>2. /\ q \in ProcRecords /\ q.vbits \in SUBSET UPages /\ q.vbits = Mapped(q.map)
      /\ q.vbits \in SUBSET Int
  <2>1. q \in ProcRecords
    OBVIOUS
  <2>2. q.vbits \in SUBSET UPages
    BY <2>1 DEF ProcRecords
  <2>3. q.vbits = Mapped(q.map)
    BY DEF FramesInv
  <2> QED BY <2>1, <2>2, <2>3 DEF UPages
<1>3. 0 \in Nat /\ UserVPages \in Nat /\ UserVPages # 0
  BY ConstFacts
<1> HIDE DEF q
<1>4. CASE clear = {}
  <2>1. r = full
    <3> HIDE DEF clear, full, at, above, z
    <3> QED BY <1>1, <1>4, Zenon
  <2> QED BY <2>1, HaltFacts
<1>5. CASE clear # {} /\ at = None
  <2>1. r = [m |-> m, q |-> q, at |-> None]
    <3> HIDE DEF clear, full, at, above, z
    <3> QED BY <1>1, <1>5, Zenon
  <2>2. n # 1
    BY <1>5, <1>2, <1>3, ScanOne
  <2> QED BY <2>1, <2>2 DEF q
<1>6. CASE clear # {} /\ at # None
  <2>1. /\ at \in Nat /\ at < UserVPages /\ at + n - 1 <= UserVPages
        /\ \A v \in P : 0 + v \notin q.vbits
    BY <1>6, <1>2, <1>3, ScanFacts
  <2> HIDE DEF at
  <2>2. \A v \in P : v \notin q.vbits
    BY <2>1
  <2>3. StackPage \in q.vbits /\ StackPage = UserVPages - 1
    BY <1>2 DEF StackPage, q
  <2>4. at < StackPage /\ at + n - 1 < StackPage
    <3>1. StackPage \notin P
      BY <2>2, <2>3
    <3> QED BY <3>1, <2>1, <2>3, <1>3
  <2>5. ~above
    BY <2>1, <2>3, <2>4, <1>3
  <2>6. r = [m |-> z.m, q |-> z.q, at |-> at]
    <3> HIDE DEF clear, full, above, z
    <3> QED BY <1>1, <1>6, <2>5, Zenon
  <2>7. at \in UPages /\ P \subseteq UPages \ Mapped(q.map)
    <3>1. P \subseteq UPages
      BY <2>1, <2>3, <2>4, <1>3 DEF UPages
    <3>2. at \in UPages
      BY <2>1, <1>3 DEF UPages
    <3> QED BY <3>1, <3>2, <2>2, <1>2
  <2>8. Wants(m, ps, p, P, q1)
    <3>1. P \in SUBSET UPages /\ P \cap Mapped(ps[p].map) = {}
      BY <2>7 DEF q
    <3> HIDE DEF P
    <3>2. /\ q1 \in ProcRecords /\ q1.map = q.map /\ q1.tables = q.tables
          /\ q1.vbits = q.vbits \cup P
      BY <1>2, <3>1 DEF ProcRecords
    <3> HIDE DEF q1
    <3> QED BY <3>1, <3>2 DEF Wants, q
  <2>9. SameLife(q, q1)
    BY <1>2 DEF SameLife, ProcRecords
  <2> HIDE DEF q1, P
  <2>10. (z.m \in MemRecords /\ z.m.halt = "full") \/ Gets(m, ps, p, P, q1, z)
    BY <2>8, MapUserFacts
  <2> HIDE DEF z
  <2>11. CASE Gets(m, ps, p, P, q1, z)
    <3>1. r.m = z.m /\ r.q = z.q /\ r.at = at
      BY <2>6
    <3>2. Gets(m, ps, p, P, q, r)
      BY <2>9, <2>11, <3>1 DEF Gets, SameLife
    <3> QED BY <3>1, <3>2, <2>7 DEF Takes, q, P
  <2>12. CASE z.m \in MemRecords /\ z.m.halt = "full"
    BY <2>6, <2>12
  <2> QED BY <2>10, <2>11, <2>12
<1> QED BY <1>4, <1>5, <1>6

\* Pages P of a process are given back.
Gives(m, ps, p, P, r) ==
    /\ r.m \in MemRecords /\ r.m.halt = "no" /\ r.m.kmap = m.kmap
    /\ r.q \in ProcRecords /\ SameLife(ps[p], r.q)
    /\ FramesInv(r.m, [ps EXCEPT ![p] = r.q])
    /\ Mapped(r.q.map) = Mapped(ps[p].map) \ P

\* mfree_page(PF_USER, at, n) of pages that are mapped.
LEMMA MfreeUserFacts ==
    ASSUME NEW m \in MemRecords, m.halt = "no", NEW ps \in [Procs -> ProcRecords],
           FramesInv(m, ps), NEW p \in Procs, NEW n \in Nat \ {0}, NEW at \in Int,
           at .. at + n - 1 \subseteq Mapped(ps[p].map),
           NEW r, r = MfreeUser(m, ps[p], at, n)
    PROVE  Gives(m, ps, p, at .. at + n - 1, r)
<1> DEFINE q == ps[p]
           P == at .. at + n - 1
           bits2 == m.bits \ {PfreeBit(q.map[v]) : v \in P}
           map2 == [v \in DOMAIN q.map |-> IF v \in P THEN None ELSE q.map[v]]
           bad == n < 1 \/ \E v \in P : q.map[v] < KernelPages
<1>1. r = IF bad THEN [m |-> Halt(m, "not a user page"), q |-> q]
          ELSE [m |-> [m EXCEPT !.bits = bits2],
                q |-> [q EXCEPT !.map = map2, !.vbits = q.vbits \ P]]
  BY Zenon DEF MfreeUser
<1>2. q \in ProcRecords /\ q.map \in [UPages -> UFrames \cup {None}] /\ m.bits \in SUBSET Int
  BY DEF ProcRecords, MemRecords
<1>3. \A v \in P : v \in UPages /\ q.map[v] \in UFrames /\ q.map[v] \in Frames
  BY <1>2, FrameKinds DEF Mapped
<1> HIDE DEF q
<1>4. ~bad
  BY <1>3, ConstFacts DEF UFrames
<1>5. r.m = [m EXCEPT !.bits = bits2] /\ r.q = [q EXCEPT !.map = map2, !.vbits = q.vbits \ P]
  <2> HIDE DEF bad, bits2, map2, P
  <2> QED BY <1>1, <1>4
<1>6. bits2 = m.bits \ {q.map[v] : v \in P}
  BY <1>3, BitFacts
<1>7. map2 = [v \in UPages |-> IF v \in P THEN None ELSE q.map[v]]
  BY <1>2
<1> HIDE DEF bits2, map2, P
<1>8. bits2 \in SUBSET Int /\ map2 \in [UPages -> UFrames \cup {None}]
  BY <1>2, <1>6, <1>7
<1>9. r.m \in MemRecords /\ r.m.halt = "no" /\ r.m.kmap = m.kmap /\ r.m.bits = bits2
  BY <1>5, <1>8 DEF MemRecords
<1>10. /\ r.q \in ProcRecords /\ SameLife(q, r.q) /\ r.q.map = map2
       /\ r.q.vbits = q.vbits \ P /\ r.q.tables = q.tables
  <2>1. PICK vb : vb = q.vbits \ P
    OBVIOUS
  <2>2. vb \in SUBSET UPages
    BY <2>1, <1>2 DEF ProcRecords
  <2>3. r.q = [q EXCEPT !.map = map2, !.vbits = vb]
    BY <1>5, <2>1
  <2> QED BY <2>1, <2>2, <2>3, <1>2, <1>8 DEF ProcRecords, SameLife
<1>11. PICK q2, m2, N : q2 = r.q /\ m2 = r.m /\ N = {}
  OBVIOUS
<1>12. Loses(m, ps, p, P, N, q2, m2)
  <2>1. P \in SUBSET Mapped(ps[p].map) /\ P \subseteq UPages
    BY <1>3 DEF P
  <2>2. \A v \in P : q2.map[v] = None
    BY <2>1, <1>7, <1>10, <1>11
  <2>3. \A v \in UPages \ P : q2.map[v] = ps[p].map[v]
    BY <1>7, <1>10, <1>11 DEF q
  <2>4. \A b \in Int : b \in m2.bits <=>
         b \in m.bits /\ b \notin N /\ \A v \in P : b # ps[p].map[v]
    BY <1>6, <1>9, <1>11 DEF q
  <2>5. q2.vbits = ps[p].vbits \ P /\ q2.tables = ps[p].tables /\ q2 \in ProcRecords
        /\ m2 \in MemRecords /\ m2.kmap = m.kmap
    BY <1>9, <1>10, <1>11 DEF q
  <2>6. N \in SUBSET Range(ps[p].tables)
        /\ \A f : f \in Range(q2.tables) <=> f \in Range(ps[p].tables) /\ f \notin N
    BY <2>5, <1>11
  <2> QED BY <2>1, <2>2, <2>3, <2>4, <2>5, <2>6 DEF Loses
<1>13. FramesInv(m2, [ps EXCEPT ![p] = q2]) /\ Mapped(q2.map) = Mapped(ps[p].map) \ P
  <2>1. Lost(ps, p, P, q2, m2)
    BY <1>12, UserUnmapped
  <2> QED BY <2>1 DEF Lost
<1> QED BY <1>9, <1>10, <1>11, <1>13 DEF P, q, Gives

-----------------------------------------------------------------------------
\* Pages of the owner of a heap

\* The kernel pages of a process are those its PCB names.
LEMMA SamePieces ==
    ASSUME NEW q, NEW r, SameLife(q, r), NEW w
    PROVE  Piece(r, w) = Piece(q, w)
  BY DEF SameLife, Piece

\* A live process whose page tables change.
LEMMA LifeKept ==
    ASSUME NEW ps \in [Procs -> ProcRecords], NEW p \in Procs, NEW q \in ProcRecords,
           SameLife(ps[p], q), ps[p].state = "live", StackPage \in Mapped(q.map),
           LifeInv(ps), NEW M, PagesInv(M, ps)
    PROVE  /\ [ps EXCEPT ![p] = q] \in [Procs -> ProcRecords]
           /\ LifeInv([ps EXCEPT ![p] = q]) /\ PagesInv(M, [ps EXCEPT ![p] = q])
           /\ ProcPages([ps EXCEPT ![p] = q]) = ProcPages(ps)
<1> DEFINE ps2 == [ps EXCEPT ![p] = q]
<1>1. ps2 \in [Procs -> ProcRecords]
  OBVIOUS
<1>2. /\ \A x \in Procs : ps2[x] = IF x = p THEN q ELSE ps[x]
      /\ ps2[p] = q
  OBVIOUS
<1> HIDE DEF ps2
<1>3. \A x \in Procs : \A w : Piece(ps2[x], w) = Piece(ps[x], w)
  BY <1>2, SamePieces
<1>4. ProcPages(ps2) = ProcPages(ps)
  BY <1>3 DEF ProcPages
<1>5. PagesInv(M, ps2)
  BY <1>3 DEF PagesInv
<1>6. \A x \in Procs : SameLife(ps[x], ps2[x])
  BY <1>2 DEF SameLife
<1>7. LifeInv(ps2)
  <2>1. ASSUME NEW x \in Procs PROVE LifeOf(x, ps2[x])
    <3>1. LifeOf(x, ps[x])
      BY DEF LifeInv
    <3>2. CASE x = p
      <4>1. ps2[x] = q /\ ps[x].state = "live"
        BY <1>2, <3>2
      <4> QED BY <3>1, <4>1, <3>2 DEF SameLife, LifeOf
    <3>3. CASE x # p
      <4>1. ps2[x] = ps[x]
        BY <1>2, <3>3
      <4> QED BY <3>1, <4>1
    <3> QED BY <3>2, <3>3
  <2>2. ps2[First].state = "none" => \A x \in Procs : ps2[x].state = "none"
    BY <1>6, ProcsAssumption DEF SameLife, LifeInv
  <2> QED BY <2>1, <2>2 DEF LifeInv
<1> QED BY <1>1, <1>4, <1>5, <1>7 DEF ps2

\* The pages of a machine's heaps change by pages of x only.
OthersKeep(x, m, ps, m2, ps2) ==
    \A y \in Owners : y # x => Area(y, m2, ps2) = Area(y, m, ps)

LEMMA MallocPageFacts ==
    ASSUME MachineInv(mem, proc), NEW x \in Owners, Live(x), NEW n \in Nat \ {0},
           NEW r, r = MallocPage(x, n)
    PROVE  \/ r.m.halt = "full"
           \/ r.m.halt = "page count" /\ n >= PageLimit
           \/ r.m = mem /\ r.ps = proc /\ r.at = None /\ n # 1
           \/ /\ MachineInv(r.m, r.ps) /\ r.at \in Nat
              /\ (r.at .. r.at + n - 1) \cap Area(x, mem, proc) = {}
              /\ Area(x, r.m, r.ps) = Area(x, mem, proc) \cup (r.at .. r.at + n - 1)
              /\ OthersKeep(x, mem, proc, r.m, r.ps)
<1>1. /\ mem \in MemRecords /\ mem.halt = "no" /\ proc \in [Procs -> ProcRecords]
      /\ FramesInv(mem, proc) /\ LifeInv(proc) /\ PagesInv(Mapped(mem.kmap), proc)
  BY DEF MachineInv
<1>2. CASE n >= PageLimit
  <2>1. PICK m2 : m2 = Halt(mem, "page count")
    OBVIOUS
  <2>2. m2.halt = "page count"
    BY <1>1, <2>1 DEF Halt, MemRecords
  <2>3. r = [m |-> m2, ps |-> proc, at |-> None]
    BY <1>2, <2>1 DEF MallocPage
  <2>4. r.m = m2
    BY <2>3
  <2> QED BY <2>2, <2>4, <1>2
<1>3. CASE ~(n >= PageLimit) /\ x = Kernel
  <2>1. PICK k : k = MallocKernel(mem, n)
    OBVIOUS
  <2>2. r.m = k.m /\ r.ps = proc /\ r.at = k.at
    BY <2>1, <1>3 DEF MallocPage
  <2>3. \/ k.m \in MemRecords /\ k.m.halt = "full"
        \/ k.m = mem /\ k.at = None /\ n # 1
        \/ /\ k.m \in MemRecords /\ k.m.halt = "no" /\ FramesInv(k.m, proc)
           /\ k.at \in Pages
           /\ k.at .. k.at + n - 1 \subseteq Pages \ Mapped(mem.kmap)
           /\ Mapped(k.m.kmap) = Mapped(mem.kmap) \cup (k.at .. k.at + n - 1)
    BY <1>1, <2>1, MallocKernelFacts
  <2>4. CASE /\ k.m \in MemRecords /\ k.m.halt = "no" /\ FramesInv(k.m, proc)
             /\ k.at \in Pages
             /\ k.at .. k.at + n - 1 \subseteq Pages \ Mapped(mem.kmap)
             /\ Mapped(k.m.kmap) = Mapped(mem.kmap) \cup (k.at .. k.at + n - 1)
    <3>1. PICK P : P = k.at .. k.at + n - 1
      OBVIOUS
    <3>2. PagesInv(Mapped(k.m.kmap), proc)
      BY <1>1, <2>4 DEF PagesInv
    <3>3. MachineInv(r.m, r.ps) /\ r.at \in Nat
      BY <1>1, <2>2, <2>4, <3>2 DEF MachineInv, Pages
    <3>4. ProcPages(proc) \subseteq Mapped(mem.kmap)
      BY <1>1 DEF ProcPages, PagesInv
    <3>5. /\ Area(x, mem, proc) = Mapped(mem.kmap) \ ProcPages(proc)
          /\ Area(x, r.m, r.ps) = (Mapped(mem.kmap) \cup P) \ ProcPages(proc)
      BY <1>3, <2>2, <2>4, <3>1 DEF Area
    <3>6. /\ P \cap Area(x, mem, proc) = {}
          /\ Area(x, r.m, r.ps) = Area(x, mem, proc) \cup P
      BY <2>4, <3>1, <3>4, <3>5
    <3>7. OthersKeep(x, mem, proc, r.m, r.ps)
      BY <1>3, <2>2 DEF OthersKeep, Area
    <3> QED BY <2>2, <3>1, <3>3, <3>6, <3>7
  <2> QED BY <2>2, <2>3, <2>4
<1>4. CASE ~(n >= PageLimit) /\ x # Kernel
  <2>1. x \in Procs /\ proc[x].state = "live"
    BY <1>4 DEF Live, LiveProcs, Owners
  <2>2. StackPage \in Mapped(proc[x].map)
    BY <2>1, <1>1 DEF LifeInv, LifeOf
  <2>3. PICK k : k = MallocUser(mem, proc[x], n)
    OBVIOUS
  <2>4. r.m = k.m /\ r.ps = [proc EXCEPT ![x] = k.q] /\ r.at = k.at
    BY <2>3, <1>4 DEF MallocPage
  <2>5. \/ k.m \in MemRecords /\ k.m.halt = "full"
        \/ k.m = mem /\ k.q = proc[x] /\ k.at = None /\ n # 1
        \/ Takes(mem, proc, x, n, k)
    BY <1>1, <2>1, <2>2, <2>3, MallocUserFacts
  <2>6. CASE k.m = mem /\ k.q = proc[x] /\ k.at = None /\ n # 1
    BY <2>4, <2>6, <1>1
  <2>7. CASE Takes(mem, proc, x, n, k)
    <3>1. PICK P : P = k.at .. k.at + n - 1
      OBVIOUS
    <3>2. /\ k.at \in UPages /\ P \subseteq UPages \ Mapped(proc[x].map)
          /\ k.m \in MemRecords /\ k.m.halt = "no" /\ k.m.kmap = mem.kmap
          /\ k.q \in ProcRecords /\ SameLife(proc[x], k.q)
          /\ FramesInv(k.m, [proc EXCEPT ![x] = k.q])
          /\ Mapped(k.q.map) = Mapped(proc[x].map) \cup P
      BY <2>7, <3>1 DEF Takes, Gets
    <3>3. PICK q : q = k.q
      OBVIOUS
    <3>4. PICK M : M = Mapped(mem.kmap)
      OBVIOUS
    <3>5. StackPage \in Mapped(q.map)
      BY <2>2, <3>2, <3>3
    <3>6. /\ [proc EXCEPT ![x] = q] \in [Procs -> ProcRecords]
          /\ LifeInv([proc EXCEPT ![x] = q]) /\ PagesInv(M, [proc EXCEPT ![x] = q])
          /\ ProcPages([proc EXCEPT ![x] = q]) = ProcPages(proc)
      BY <1>1, <2>1, <3>2, <3>3, <3>4, <3>5, LifeKept
    <3>7. MachineInv(r.m, r.ps) /\ r.at \in Nat
      BY <2>4, <3>2, <3>3, <3>4, <3>6 DEF MachineInv, UPages
    <3>8. /\ Area(x, mem, proc) = Mapped(proc[x].map) \ {StackPage}
          /\ Area(x, r.m, r.ps) = (Mapped(proc[x].map) \cup P) \ {StackPage}
      BY <1>1, <1>4, <2>1, <2>4, <3>2 DEF Area
    <3>9. /\ P \cap Area(x, mem, proc) = {}
          /\ Area(x, r.m, r.ps) = Area(x, mem, proc) \cup P
      BY <2>2, <3>2, <3>8
    <3>10. OthersKeep(x, mem, proc, r.m, r.ps)
      BY <1>1, <2>1, <2>4, <3>2, <3>3, <3>6 DEF OthersKeep, Area, Owners
    <3> QED BY <2>4, <3>1, <3>7, <3>9, <3>10
  <2> QED BY <2>4, <2>5, <2>6, <2>7
<1> QED BY <1>2, <1>3, <1>4

LEMMA MfreePageFacts ==
    ASSUME MachineInv(mem, proc), NEW x \in Owners, Live(x), NEW n \in Nat \ {0},
           NEW at \in Int, at .. at + n - 1 \subseteq Area(x, mem, proc),
           NEW r, r = MfreePage(x, at, n)
    PROVE  /\ MachineInv(r.m, r.ps)
           /\ Area(x, r.m, r.ps) = Area(x, mem, proc) \ (at .. at + n - 1)
           /\ OthersKeep(x, mem, proc, r.m, r.ps)
<1>1. /\ mem \in MemRecords /\ mem.halt = "no" /\ proc \in [Procs -> ProcRecords]
      /\ FramesInv(mem, proc) /\ LifeInv(proc) /\ PagesInv(Mapped(mem.kmap), proc)
  BY DEF MachineInv
<1>2. CASE x = Kernel
  <2>1. PICK m2 : m2 = MfreeKernel(mem, at, n)
    OBVIOUS
  <2>2. r.m = m2 /\ r.ps = proc
    BY <2>1, <1>2 DEF MfreePage
  <2>3. PICK P : P = at .. at + n - 1
    OBVIOUS
  <2>4. P \subseteq Mapped(mem.kmap) \ ProcPages(proc)
    BY <1>2, <2>3 DEF Area
  <2>5. at .. at + n - 1 \subseteq Mapped(mem.kmap)
    BY <2>3, <2>4
  <2>6. /\ m2 \in MemRecords /\ m2.halt = "no"
        /\ FramesInv(m2, proc)
        /\ Mapped(m2.kmap) = Mapped(mem.kmap) \ P
    BY <1>1, <2>1, <2>3, <2>5, MfreeKernelFacts
  <2>7. PagesInv(Mapped(m2.kmap), proc)
    <3>1. ASSUME NEW p \in Procs, NEW w \in What PROVE Piece(proc[p], w) \cap P = {}
      <4>1. Piece(proc[p], w) \subseteq Mapped(mem.kmap)
        BY <1>1 DEF PagesInv
      <4>2. Mapped(mem.kmap) \subseteq Pages
        BY <1>1 DEF Mapped, MemRecords
      <4>3. Piece(proc[p], w) \subseteq ProcPages(proc)
        BY <4>1, <4>2 DEF ProcPages
      <4> QED BY <4>3, <2>4
    <3> QED BY <1>1, <2>6, <3>1 DEF PagesInv
  <2>8. MachineInv(r.m, r.ps)
    BY <1>1, <2>2, <2>6, <2>7 DEF MachineInv
  <2>9. Area(x, r.m, r.ps) = Area(x, mem, proc) \ P
    BY <1>2, <2>2, <2>6 DEF Area
  <2>10. OthersKeep(x, mem, proc, r.m, r.ps)
    BY <1>2, <2>2 DEF OthersKeep, Area
  <2> QED BY <2>3, <2>8, <2>9, <2>10
<1>3. CASE x # Kernel
  <2>1. x \in Procs /\ proc[x].state = "live"
    BY <1>3 DEF Live, LiveProcs, Owners
  <2>2. PICK k : k = MfreeUser(mem, proc[x], at, n)
    OBVIOUS
  <2>3. r.m = k.m /\ r.ps = [proc EXCEPT ![x] = k.q]
    BY <2>2, <1>3 DEF MfreePage
  <2>4. PICK P : P = at .. at + n - 1
    OBVIOUS
  <2>5. P \subseteq Mapped(proc[x].map) /\ StackPage \notin P
    BY <1>3, <2>4 DEF Area
  <2>6. at .. at + n - 1 \subseteq Mapped(proc[x].map)
    BY <2>4, <2>5
  <2>7. /\ k.m \in MemRecords /\ k.m.halt = "no" /\ k.m.kmap = mem.kmap
        /\ k.q \in ProcRecords /\ SameLife(proc[x], k.q)
        /\ FramesInv(k.m, [proc EXCEPT ![x] = k.q])
        /\ Mapped(k.q.map) = Mapped(proc[x].map) \ P
    <3>1. Gives(mem, proc, x, at .. at + n - 1, k)
      BY <1>1, <2>1, <2>2, <2>6, MfreeUserFacts
    <3> QED BY <3>1, <2>4 DEF Gives
  <2>8. PICK q : q = k.q
    OBVIOUS
  <2>9. PICK M : M = Mapped(mem.kmap)
    OBVIOUS
  <2>10. StackPage \in Mapped(q.map)
    <3>1. StackPage \in Mapped(proc[x].map)
      BY <2>1, <1>1 DEF LifeInv, LifeOf
    <3> QED BY <3>1, <2>5, <2>7, <2>8
  <2>11. /\ [proc EXCEPT ![x] = q] \in [Procs -> ProcRecords]
         /\ LifeInv([proc EXCEPT ![x] = q]) /\ PagesInv(M, [proc EXCEPT ![x] = q])
         /\ ProcPages([proc EXCEPT ![x] = q]) = ProcPages(proc)
    BY <1>1, <2>1, <2>7, <2>8, <2>9, <2>10, LifeKept
  <2>12. MachineInv(r.m, r.ps)
    BY <2>3, <2>7, <2>8, <2>9, <2>11 DEF MachineInv
  <2>13. Area(x, r.m, r.ps) = Area(x, mem, proc) \ P
    BY <1>1, <1>3, <2>1, <2>3, <2>7 DEF Area
  <2>14. OthersKeep(x, mem, proc, r.m, r.ps)
    BY <1>1, <2>1, <2>3, <2>7, <2>8, <2>11 DEF OthersKeep, Area, Owners
  <2> QED BY <2>4, <2>12, <2>13, <2>14
<1> QED BY <1>2, <1>3

-----------------------------------------------------------------------------
\* Lists

\* list_remove takes one element out and leaves the others.
LEMMA RemoveFacts ==
    ASSUME NEW S, NEW list \in Seq(S), NEW e \in Range(list), IsInjective(list)
    PROVE  /\ RemoveFirst(list, e) \in Seq(S)
           /\ IsInjective(RemoveFirst(list, e))
           /\ Range(RemoveFirst(list, e)) = Range(list) \ {e}
<1> DEFINE new == RemoveFirst(list, e)
           n == Len(list)
           I == {k \in 1 .. n : list[k] = e}
           m == Min(I)
<1>1. n \in Nat /\ DOMAIN list = 1 .. n /\ list \in [1 .. n -> S]
  BY LenProperties
<1>2. PICK k \in 1 .. n : list[k] = e
  BY <1>1 DEF Range
<1>3. I = {k}
  BY <1>1, <1>2 DEF IsInjective
<1>4. m = k
  <2>1. Min({k}) = k
    BY <1>1 DEF Min
  <2> HIDE DEF I
  <2> QED BY <2>1, <1>3
<1>5. new = SubSeq(list, 1, k - 1) \o SubSeq(list, k + 1, n)
  <2>1. new = RemoveAt(list, SelectInSeq(list, LAMBDA v : v = e))
    BY <1>2 DEF RemoveFirst
  <2>2. SelectInSeq(list, LAMBDA v : v = e) = m
    BY <1>2 DEF SelectInSeq
  <2> HIDE DEF m, n, new
  <2> QED BY <2>1, <2>2, <1>4 DEF RemoveAt, n
<1> HIDE DEF new, n, I, m
<1> DEFINE a == SubSeq(list, 1, k - 1)
           b == SubSeq(list, k + 1, n)
<1>6. a \in Seq(S) /\ Len(a) = k - 1 /\ \A i \in 1 .. k - 1 : a[i] = list[i]
  <2>1. k - 1 \in Int /\ \A i \in 1 .. k - 1 : list[i] \in S
    BY <1>1
  <2> QED BY <1>1, <2>1, SubSeqProperties
<1>7. b \in Seq(S) /\ Len(b) = n - k /\ \A i \in 1 .. n - k : b[i] = list[k + i]
  <2>1. k + 1 \in Int /\ n \in Int /\ \A i \in k + 1 .. n : list[i] \in S
    BY <1>1
  <2>2. /\ b \in Seq(S)
        /\ Len(b) = IF k + 1 <= n THEN n - (k + 1) + 1 ELSE 0
        /\ \A i \in 1 .. n - (k + 1) + 1 : b[i] = list[(k + 1) + i - 1]
    BY <2>1, SubSeqProperties
  <2> HIDE DEF b
  <2>3. Len(b) = n - k
    BY <1>1, <2>2
  <2>4. ASSUME NEW i \in 1 .. n - k PROVE b[i] = list[k + i]
    <3>1. i \in 1 .. n - (k + 1) + 1 /\ (k + 1) + i - 1 = k + i
      BY <1>1
    <3>2. b[i] = list[(k + 1) + i - 1]
      BY <2>2, <3>1
    <3> QED BY <3>1, <3>2
  <2> QED BY <2>2, <2>3, <2>4
<1> HIDE DEF a, b
<1>8. /\ new \in Seq(S)
      /\ Len(new) = Len(a) + Len(b)
      /\ \A i \in 1 .. Len(a) + Len(b) :
           new[i] = IF i <= Len(a) THEN a[i] ELSE b[i - Len(a)]
  BY <1>5, <1>6, <1>7, ConcatProperties DEF a, b
<1>9. /\ DOMAIN new = 1 .. n - 1
      /\ \A i \in 1 .. n - 1 : new[i] = IF i < k THEN list[i] ELSE list[i + 1]
  <2>1. DOMAIN new = 1 .. n - 1
    BY <1>1, <1>6, <1>7, <1>8, LenProperties
  <2> QED BY <2>1, <1>1, <1>6, <1>7, <1>8
<1>10. IsInjective(new)
  BY <1>1, <1>9 DEF IsInjective
<1>11. ASSUME NEW t PROVE t \in Range(new) <=> t \in Range(list) /\ t # e
  <2>1. ASSUME NEW i \in 1 .. n - 1, new[i] = t PROVE t \in Range(list) /\ t # e
    <3>1. CASE i < k
      BY <3>1, <2>1, <1>1, <1>2, <1>9 DEF Range, IsInjective
    <3>2. CASE ~(i < k)
      <4>1. i + 1 \in 1 .. n /\ list[i + 1] = t /\ i + 1 # k
        BY <3>2, <2>1, <1>1, <1>9
      <4> QED BY <4>1, <1>1, <1>2 DEF Range, IsInjective
    <3> QED BY <3>1, <3>2
  <2>2. ASSUME NEW i \in 1 .. n, list[i] = t, t # e PROVE t \in Range(new)
    <3>1. CASE i < k
      BY <3>1, <2>2, <1>1, <1>9 DEF Range
    <3>2. CASE ~(i < k)
      <4>1. i # k
        BY <2>2, <1>2
      <4>2. i - 1 \in 1 .. n - 1 /\ new[i - 1] = t
        BY <3>2, <4>1, <2>2, <1>1, <1>9
      <4> QED BY <4>2, <1>9 DEF Range
    <3> QED BY <3>1, <3>2
  <2> QED BY <2>1, <2>2, <1>1, <1>9 DEF Range
<1> QED BY <1>8, <1>10, <1>11 DEF new

LEMMA TailFacts ==
    ASSUME NEW S, NEW list \in Seq(S), list # << >>, IsInjective(list)
    PROVE  /\ Tail(list) \in Seq(S) /\ IsInjective(Tail(list))
           /\ Head(list) \in Range(list)
           /\ Range(Tail(list)) = Range(list) \ {Head(list)}
<1> DEFINE n == Len(list)
           t == Tail(list)
<1>1. n \in Nat /\ DOMAIN list = 1 .. n /\ n # 0
  BY LenProperties, EmptySeq
<1>2. t \in Seq(S) /\ Len(t) = n - 1 /\ \A i \in 1 .. n - 1 : t[i] = list[i + 1]
  BY HeadTailProperties
<1>3. DOMAIN t = 1 .. n - 1
  BY <1>2, LenProperties
<1>4. Head(list) = list[1]
  OBVIOUS
<1> HIDE DEF n, t
<1>5. IsInjective(t)
  <2> SUFFICES ASSUME NEW i \in 1 .. n - 1, NEW j \in 1 .. n - 1, t[i] = t[j] PROVE i = j
    BY <1>3 DEF IsInjective
  <2>1. i + 1 \in 1 .. n /\ j + 1 \in 1 .. n /\ list[i + 1] = list[j + 1]
    BY <1>1, <1>2
  <2>2. i + 1 = j + 1
    BY <2>1, <1>1 DEF IsInjective
  <2> QED BY <2>2
<1>6. ASSUME NEW e PROVE e \in Range(t) <=> e \in Range(list) /\ e # list[1]
  <2>1. ASSUME NEW i \in 1 .. n - 1, e = t[i] PROVE e \in Range(list) /\ e # list[1]
    <3>1. i + 1 \in 1 .. n /\ i + 1 # 1 /\ 1 \in 1 .. n /\ e = list[i + 1]
      BY <2>1, <1>1, <1>2
    <3> QED BY <3>1, <1>1 DEF Range, IsInjective
  <2>2. ASSUME NEW i \in 1 .. n, e = list[i], e # list[1] PROVE e \in Range(t)
    <3>1. i - 1 \in 1 .. n - 1 /\ (i - 1) + 1 = i
      BY <2>2, <1>1
    <3>2. t[i - 1] = e
      BY <2>2, <3>1, <1>2
    <3> QED BY <3>1, <3>2, <1>3 DEF Range
  <2> QED BY <2>1, <2>2, <1>1, <1>3 DEF Range
<1>7. list[1] \in Range(list)
  BY <1>1 DEF Range
<1> QED BY <1>2, <1>4, <1>5, <1>6, <1>7 DEF t

LEMMA AppendFacts ==
    ASSUME NEW S, NEW list \in Seq(S), IsInjective(list), NEW e \in S, e \notin Range(list)
    PROVE  /\ Append(list, e) \in Seq(S) /\ IsInjective(Append(list, e))
           /\ Range(Append(list, e)) = Range(list) \cup {e}
<1> DEFINE n == Len(list)
           t == Append(list, e)
<1>1. n \in Nat /\ DOMAIN list = 1 .. n
  BY LenProperties
<1>2. /\ t \in Seq(S) /\ Len(t) = n + 1 /\ \A i \in 1 .. n : t[i] = list[i]
      /\ t[n + 1] = e
  BY AppendProperties
<1>3. DOMAIN t = 1 .. n + 1
  BY <1>2, LenProperties
<1> HIDE DEF n, t
<1>4. \A i \in 1 .. n : list[i] # e
  BY <1>1 DEF Range
<1>5. IsInjective(t)
  BY <1>1, <1>2, <1>3, <1>4 DEF IsInjective
<1>6. Range(t) = Range(list) \cup {e}
  <2>1. ASSUME NEW i \in 1 .. n + 1 PROVE t[i] \in Range(list) \cup {e}
    BY <1>1, <1>2 DEF Range
  <2>2. ASSUME NEW i \in 1 .. n PROVE list[i] \in Range(t)
    <3>1. i \in 1 .. n + 1 /\ t[i] = list[i]
      BY <1>1, <1>2
    <3> QED BY <3>1, <1>3 DEF Range
  <2>3. e \in Range(t)
    <3>1. n + 1 \in 1 .. n + 1
      BY <1>1
    <3> QED BY <3>1, <1>2, <1>3 DEF Range
  <2> QED BY <2>1, <2>2, <2>3, <1>1, <1>3 DEF Range
<1> QED BY <1>2, <1>5, <1>6 DEF t

\* The loop of Collect, block by block.
LEMMA CollectSteps ==
    ASSUME NEW list, NEW v, NEW n \in Nat
    PROVE  \E g : /\ Collect(list, v, n) = g[n]
                  /\ g[0] = list
                  /\ \A k \in 1 .. n : g[k] = RemoveFirst(g[k - 1], <<v, k>>)
<1> DEFINE F(x, k) == RemoveFirst(x, <<v, k>>)
           Is(g, i) == g = [k \in 0 .. i |-> IF k = 0 THEN list ELSE RemoveFirst(g[k - 1], <<v, k>>)]
           S == {i \in Nat : \E g : Is(g, i)}
<1>1. 0 \in S
  <2>1. Is([k \in 0 .. 0 |-> list], 0)
    OBVIOUS
  <2> QED BY <2>1
<1>2. ASSUME NEW i \in Nat, i \in S PROVE i + 1 \in S
  <2>1. PICK g : Is(g, i)
    BY <1>2
  <2> DEFINE h == [k \in 0 .. i + 1 |-> IF k = i + 1 THEN F(g[i], i + 1) ELSE g[k]]
  <2>2. ASSUME NEW k \in 0 .. i + 1
        PROVE  h[k] = IF k = 0 THEN list ELSE F(h[k - 1], k)
    <3>1. CASE k = i + 1
      <4>1. h[k] = F(g[i], i + 1) /\ h[k - 1] = g[i] /\ k # 0
        BY <3>1
      <4> HIDE DEF F, h
      <4> QED BY <3>1, <4>1
    <3>2. CASE k # i + 1
      <4>1. k \in 0 .. i /\ h[k] = g[k]
        BY <3>2
      <4>2. g[k] = IF k = 0 THEN list ELSE F(g[k - 1], k)
        BY <2>1, <4>1
      <4>3. k # 0 => h[k - 1] = g[k - 1]
        BY <4>1
      <4> HIDE DEF h
      <4> QED BY <4>1, <4>2, <4>3
    <3> QED BY <3>1, <3>2
  <2>3. h = [k \in 0 .. i + 1 |-> h[k]]
    OBVIOUS
  <2> HIDE DEF h
  <2>4. Is(h, i + 1)
    BY <2>2, <2>3
  <2> QED BY <2>4
<1>3. n \in S
  <2> HIDE DEF S
  <2> QED BY <1>1, <1>2, NatSetInduction
<1> DEFINE a == CHOOSE g : Is(g, n)
<1>4. Is(a, n)
  BY <1>3
<1>5. Collect(list, v, n) = a[n]
  BY DEF Collect
<1> HIDE DEF a
<1>6. a[0] = list /\ \A k \in 1 .. n : a[k] = F(a[k - 1], k)
  BY <1>4
<1> QED BY <1>5, <1>6

\* All n blocks of the arena leave the list, and only they.
LEMMA CollectFacts ==
    ASSUME NEW list \in Seq(Blocks), IsInjective(list), NEW v, NEW n \in Nat,
           \A k \in 1 .. n : <<v, k>> \in Range(list)
    PROVE  /\ Collect(list, v, n) \in Seq(Blocks) /\ IsInjective(Collect(list, v, n))
           /\ \A b : b \in Range(Collect(list, v, n)) <=>
                b \in Range(list) /\ \A k \in 1 .. n : b # <<v, k>>
<1>1. PICK g : /\ Collect(list, v, n) = g[n] /\ g[0] = list
               /\ \A k \in 1 .. n : g[k] = RemoveFirst(g[k - 1], <<v, k>>)
  BY CollectSteps
<1> DEFINE Ok(i) == /\ g[i] \in Seq(Blocks) /\ IsInjective(g[i])
                    /\ \A b : b \in Range(g[i]) <=>
                         b \in Range(list) /\ \A k \in 1 .. i : b # <<v, k>>
           S == {i \in Nat : i <= n => Ok(i)}
<1>2. 0 \in S
  BY <1>1
<1>3. ASSUME NEW i \in Nat, i \in S PROVE i + 1 \in S
  <2> SUFFICES ASSUME i + 1 <= n PROVE Ok(i + 1)
    OBVIOUS
  <2>1. Ok(i) /\ i + 1 \in 1 .. n /\ (i + 1) - 1 = i
    BY <1>3
  <2>2. PICK e : e = <<v, i + 1>>
    OBVIOUS
  <2>3. g[i + 1] = RemoveFirst(g[i], e)
    BY <1>1, <2>1, <2>2
  <2>4. \A k \in 1 .. i : e # <<v, k>>
    BY <2>2
  <2>5. e \in Range(g[i])
    BY <2>1, <2>2, <2>4
  <2>6. /\ RemoveFirst(g[i], e) \in Seq(Blocks)
        /\ IsInjective(RemoveFirst(g[i], e))
        /\ Range(RemoveFirst(g[i], e)) = Range(g[i]) \ {e}
    BY <2>1, <2>5, RemoveFacts
  <2>7. ASSUME NEW b PROVE b \in Range(g[i + 1]) <=>
                         b \in Range(list) /\ \A k \in 1 .. i + 1 : b # <<v, k>>
    <3>1. b \in Range(g[i + 1]) <=> b \in Range(g[i]) /\ b # e
      BY <2>3, <2>6
    <3>2. 1 .. i + 1 = (1 .. i) \cup {i + 1}
      OBVIOUS
    <3>3. (\A k \in 1 .. i + 1 : b # <<v, k>>) <=> (\A k \in 1 .. i : b # <<v, k>>) /\ b # e
      BY <3>2, <2>2
    <3> QED BY <3>1, <3>3, <2>1
  <2> QED BY <2>3, <2>6, <2>7
<1> HIDE DEF S
<1>4. n \in S
  BY <1>2, <1>3, NatSetInduction
<1>5. Ok(n)
  BY <1>4 DEF S
<1> QED BY <1>1, <1>5

-----------------------------------------------------------------------------
\* Free lists

\* The blocks of one arena.
LEMMA BlocksOf ==
    ASSUME NEW v, NEW n \in Nat
    PROVE  IsFiniteSet({v} \X (1 .. n)) /\ Cardinality({v} \X (1 .. n)) = n
<1>1. IsFiniteSet({v}) /\ Cardinality({v}) = 1
  BY FS_Singleton
<1>2. IsFiniteSet(1 .. n) /\ Cardinality(1 .. n) = n
  BY FS_Interval
<1> DEFINE T == {v} \X (1 .. n)
<1>3. IsFiniteSet(T) /\ Cardinality(T) = Cardinality({v}) * Cardinality(1 .. n)
  BY <1>1, <1>2, FS_Product
<1> QED BY <1>1, <1>2, <1>3

\* What every free list gives.
LEMMA ListFacts ==
    ASSUME NEW list, NEW held, NEW ar, NEW own, NEW n \in Nat, NEW z,
           ListOk(list, held, ar, own, n, z)
    PROVE  /\ \A b \in Range(list) : b[1] \in own /\ b[2] \in 1 .. n /\ b = <<b[1], b[2]>>
           /\ \A b \in held : b[1] \in own => b \in own \X (1 .. n)
           /\ \A v \in own : /\ On(list, v) \subseteq {v} \X (1 .. n)
                             /\ IsFiniteSet(On(list, v)) /\ Cardinality(On(list, v)) \in Nat
<1>1. Range(list) \subseteq own \X (1 .. n)
  BY DEF ListOk
<1>2. \A b \in held : b[1] \in own => b \in own \X (1 .. n)
  BY DEF ListOk
<1>3. \A b \in Range(list) : b[1] \in own /\ b[2] \in 1 .. n /\ b = <<b[1], b[2]>>
  BY <1>1
<1>4. ASSUME NEW v \in own
      PROVE  /\ On(list, v) \subseteq {v} \X (1 .. n)
             /\ IsFiniteSet(On(list, v)) /\ Cardinality(On(list, v)) \in Nat
  <2>1. On(list, v) \subseteq {v} \X (1 .. n)
    BY <1>3 DEF On
  <2>2. PICK T : T = {v} \X (1 .. n)
    OBVIOUS
  <2>3. IsFiniteSet(T) /\ On(list, v) \in SUBSET T
    BY <2>1, <2>2, BlocksOf
  <2> QED BY <2>1, <2>3, FS_Subset, FS_CardinalityType
<1> QED BY <1>2, <1>3, <1>4

\* list_pop.
LEMMA ListPop ==
    ASSUME NEW list \in Seq(Blocks), NEW held, NEW ar, NEW own, NEW n \in Nat, NEW z,
           ListOk(list, held, ar, own, n, z), list # << >>, None \notin own,
           NEW b, b = Head(list), z \in {None, b[1]}, NEW ar2,
           \A v \in own : ar2[v].cnt = IF v = b[1] THEN ar[v].cnt - 1 ELSE ar[v].cnt
    PROVE  /\ b \in Range(list) /\ b[1] \in own /\ b \in Blocks
           /\ Tail(list) \in Seq(Blocks)
           /\ ListOk(Tail(list), held \cup {b}, ar2, own, n, None)
<1>1. PICK t : t = Tail(list)
  OBVIOUS
<1>2. /\ t \in Seq(Blocks) /\ IsInjective(t) /\ b \in Range(list)
      /\ Range(t) = Range(list) \ {b}
  <2>1. IsInjective(list)
    BY DEF ListOk
  <2> QED BY <1>1, <2>1, TailFacts
<1>3. b[1] \in own /\ b \in Blocks
  <2>1. b[1] \in own
    BY <1>2, ListFacts
  <2> QED BY <2>1, HeadTailProperties
<1>4. ASSUME NEW v \in own
      PROVE  /\ Cardinality(On(t, v)) = ar2[v].cnt /\ ar2[v].cnt <= n /\ ar2[v].cnt < n
  <2>1. /\ Cardinality(On(list, v)) = ar[v].cnt
        /\ ar[v].cnt <= n /\ (v # z => ar[v].cnt < n)
    BY DEF ListOk
  <2>2. IsFiniteSet(On(list, v)) /\ Cardinality(On(list, v)) \in Nat
    BY ListFacts
  <2>3. On(t, v) = On(list, v) \ {b}
    BY <1>2 DEF On
  <2>4. CASE v = b[1]
    <3>1. b \in On(list, v)
      BY <1>2, <2>4 DEF On
    <3>2. Cardinality(On(t, v)) = Cardinality(On(list, v)) - 1
      BY <2>2, <2>3, <3>1, FS_RemoveElement
    <3>3. ar2[v].cnt = ar[v].cnt - 1
      BY <2>4
    <3> QED BY <3>2, <3>3, <2>1, <2>2
  <2>5. CASE v # b[1]
    <3>1. On(t, v) = On(list, v)
      BY <2>3, <2>5 DEF On
    <3>2. v # z /\ ar2[v].cnt = ar[v].cnt
      BY <2>5
    <3> QED BY <3>1, <3>2, <2>1, <2>2
  <2> QED BY <2>4, <2>5
<1>5. Range(t) \cup {c \in held \cup {b} : c[1] \in own} = own \X (1 .. n)
  <2>1. Range(list) \cup {c \in held : c[1] \in own} = own \X (1 .. n)
    BY DEF ListOk
  <2> QED BY <2>1, <1>2, <1>3
<1>6. Range(t) \cap (held \cup {b}) = {}
  <2>1. Range(list) \cap held = {}
    BY DEF ListOk
  <2> QED BY <2>1, <1>2
<1>7. ListOk(t, held \cup {b}, ar2, own, n, None)
  BY <1>2, <1>4, <1>5, <1>6 DEF ListOk
<1> QED BY <1>1, <1>2, <1>3, <1>7

\* list_append of a block that was held.
LEMMA ListPush ==
    ASSUME NEW list \in Seq(Blocks), NEW held \in SUBSET Blocks, NEW ar, NEW own, NEW n \in Nat,
           ListOk(list, held, ar, own, n, None), None \notin own,
           NEW b \in held, b[1] \in own, NEW ar2,
           \A v \in own : ar2[v].cnt = IF v = b[1] THEN ar[v].cnt + 1 ELSE ar[v].cnt
    PROVE  /\ Append(list, b) \in Seq(Blocks)
           /\ ListOk(Append(list, b), held \ {b}, ar2, own, n, b[1])
           /\ ar2[b[1]].cnt # n => ListOk(Append(list, b), held \ {b}, ar2, own, n, None)
<1>1. PICK t : t = Append(list, b)
  OBVIOUS
<1>2. b \notin Range(list) /\ Range(list) \cap held = {} /\ IsInjective(list)
  BY DEF ListOk
<1>3. /\ t \in Seq(Blocks) /\ IsInjective(t) /\ Range(t) = Range(list) \cup {b}
  BY <1>1, <1>2, AppendFacts
<1>4. ASSUME NEW v \in own
      PROVE  /\ Cardinality(On(t, v)) = ar2[v].cnt /\ ar2[v].cnt <= n
             /\ v # b[1] => ar2[v].cnt < n
             /\ ar2[v].cnt # n => ar2[v].cnt < n
  <2>1. /\ Cardinality(On(list, v)) = ar[v].cnt /\ ar[v].cnt < n
    BY DEF ListOk
  <2>2. IsFiniteSet(On(list, v)) /\ Cardinality(On(list, v)) \in Nat
    BY ListFacts
  <2>3. CASE v = b[1]
    <3>1. On(t, v) = On(list, v) \cup {b} /\ b \notin On(list, v)
      BY <1>2, <1>3, <2>3 DEF On
    <3>2. Cardinality(On(t, v)) = Cardinality(On(list, v)) + 1
      BY <2>2, <3>1, FS_AddElement
    <3>3. ar2[v].cnt = ar[v].cnt + 1
      BY <2>3
    <3> QED BY <3>2, <3>3, <2>1, <2>2, <2>3
  <2>4. CASE v # b[1]
    <3>1. On(t, v) = On(list, v)
      BY <1>3, <2>4 DEF On
    <3>2. ar2[v].cnt = ar[v].cnt
      BY <2>4
    <3> QED BY <3>1, <3>2, <2>1, <2>2
  <2> QED BY <2>3, <2>4
<1>5. Range(t) \cup {c \in held \ {b} : c[1] \in own} = own \X (1 .. n)
  <2>1. Range(list) \cup {c \in held : c[1] \in own} = own \X (1 .. n)
    BY DEF ListOk
  <2> QED BY <2>1, <1>3
<1>6. Range(t) \cap (held \ {b}) = {}
  BY <1>2, <1>3
<1>7. ListOk(t, held \ {b}, ar2, own, n, b[1])
  BY <1>3, <1>4, <1>5, <1>6 DEF ListOk
<1>8. ASSUME ar2[b[1]].cnt # n PROVE ListOk(t, held \ {b}, ar2, own, n, None)
  BY <1>3, <1>4, <1>5, <1>6, <1>8 DEF ListOk
<1> QED BY <1>1, <1>3, <1>7, <1>8

\* The arena whose blocks are all on the list goes, and takes them with it.
LEMMA ListDrop ==
    ASSUME NEW list \in Seq(Blocks), NEW held, NEW ar, NEW own \in SUBSET Nat, NEW n \in Nat,
           NEW v \in own, ListOk(list, held, ar, own, n, v), ar[v].cnt = n, NEW ar2,
           \A w \in own : w # v => ar2[w].cnt = ar[w].cnt
    PROVE  /\ \A k \in 1 .. n : <<v, k>> \in Range(list)
           /\ \A b \in held : b[1] # v
           /\ Collect(list, v, n) \in Seq(Blocks)
           /\ ListOk(Collect(list, v, n), held, ar2, own \ {v}, n, None)
<1>1. On(list, v) \subseteq {v} \X (1 .. n) /\ Cardinality(On(list, v)) = n
  <2>1. On(list, v) \subseteq {v} \X (1 .. n)
    BY ListFacts
  <2> QED BY <2>1 DEF ListOk
<1>2. On(list, v) = {v} \X (1 .. n)
  <2>1. PICK T : T = {v} \X (1 .. n)
    OBVIOUS
  <2>2. IsFiniteSet(T) /\ Cardinality(T) = n
    BY <2>1, BlocksOf
  <2>3. On(list, v) \in SUBSET T
    BY <1>1, <2>1
  <2>4. T = On(list, v)
    BY <2>2, <2>3, <1>1, FS_Subset
  <2> QED BY <2>1, <2>4
<1>3. \A k \in 1 .. n : <<v, k>> \in Range(list)
  BY <1>2 DEF On
<1>4. ASSUME NEW b \in held PROVE b[1] # v
  <2> SUFFICES ASSUME b[1] = v PROVE FALSE
    OBVIOUS
  <2>1. b \in own \X (1 .. n)
    BY ListFacts
  <2>2. b \in {v} \X (1 .. n)
    BY <2>1
  <2>3. b \in Range(list)
    BY <2>2, <1>2 DEF On
  <2> QED BY <2>3 DEF ListOk
<1>5. PICK t : t = Collect(list, v, n)
  OBVIOUS
<1>6. IsInjective(list)
  BY DEF ListOk
<1>7. /\ t \in Seq(Blocks) /\ IsInjective(t)
      /\ \A b : b \in Range(t) <=> b \in Range(list) /\ \A k \in 1 .. n : b # <<v, k>>
  BY <1>3, <1>5, <1>6, CollectFacts
<1>8. \A b : b \in Range(t) <=> b \in Range(list) /\ b[1] # v
  <2>1. \A b \in Range(list) : b[1] \in own /\ b[2] \in 1 .. n /\ b = <<b[1], b[2]>>
    BY ListFacts
  <2>2. ASSUME NEW b \in Range(list) PROVE (\A k \in 1 .. n : b # <<v, k>>) <=> b[1] # v
    BY <2>1
  <2> QED BY <2>2, <1>7
<1>9. ASSUME NEW w \in own \ {v}
      PROVE  Cardinality(On(t, w)) = ar2[w].cnt /\ ar2[w].cnt <= n /\ ar2[w].cnt < n
  <2>1. On(t, w) = On(list, w)
    BY <1>8 DEF On
  <2>2. Cardinality(On(list, w)) = ar[w].cnt /\ ar[w].cnt <= n /\ ar[w].cnt < n
    BY DEF ListOk
  <2> QED BY <2>1, <2>2
<1>10. Range(t) \cup {b \in held : b[1] \in own \ {v}} = (own \ {v}) \X (1 .. n)
  <2>1. Range(list) \cup {b \in held : b[1] \in own} = own \X (1 .. n)
    BY DEF ListOk
  <2>2. ASSUME NEW b PROVE b \in Range(t) \cup {c \in held : c[1] \in own \ {v}} <=>
                             b \in own \X (1 .. n) /\ b[1] # v
    BY <2>1, <1>4, <1>8
  <2>3. ASSUME NEW b PROVE b \in own \X (1 .. n) /\ b[1] # v <=> b \in (own \ {v}) \X (1 .. n)
    OBVIOUS
  <2> QED BY <2>2, <2>3
<1>11. Range(t) \cap held = {}
  <2>1. Range(list) \cap held = {}
    BY DEF ListOk
  <2> QED BY <2>1, <1>8
<1>12. ListOk(t, held, ar2, own \ {v}, n, None)
  BY <1>7, <1>9, <1>10, <1>11 DEF ListOk
<1> QED BY <1>3, <1>4, <1>5, <1>7, <1>12

\* A new arena, all its blocks on a list that was empty.
NewList(held, ar, own, n, at, ar2, list) ==
    /\ own \in SUBSET Nat /\ n \in Nat /\ ListOk(<< >>, held, ar, own, n, None)
    /\ at \in Nat /\ at \notin own /\ \A b \in held : b[1] # at
    /\ ar2[at].cnt = n /\ \A v \in own : ar2[v].cnt = ar[v].cnt
    /\ list = [k \in 1 .. n |-> <<at, k>>]

LEMMA ListNew ==
    ASSUME NEW held, NEW ar, NEW own, NEW n, NEW at, NEW ar2, NEW list,
           NewList(held, ar, own, n, at, ar2, list)
    PROVE  list \in Seq(Blocks) /\ ListOk(list, held, ar2, own \cup {at}, n, at)
<1> USE DEF NewList
<1>1. list \in Seq(Blocks)
  <2>1. list \in [1 .. n -> Blocks]
    BY DEF Blocks
  <2> QED BY <2>1, IsASeq
<1>2. Range(list) = {at} \X (1 .. n) /\ IsInjective(list)
  BY DEF Range, IsInjective
<1>3. Range(<< >>) = {}
  BY DEF Range
<1>4. ASSUME NEW v \in own
      PROVE  Cardinality(On(list, v)) = ar2[v].cnt /\ ar2[v].cnt <= n /\ ar2[v].cnt < n
  <2>1. On(list, v) = {} /\ On(<< >>, v) = {}
    BY <1>2, <1>3 DEF On
  <2>2. Cardinality(On(<< >>, v)) = ar[v].cnt /\ ar[v].cnt <= n /\ (v # None => ar[v].cnt < n)
    BY DEF ListOk
  <2>3. v # None
    BY DEF None
  <2> QED BY <2>1, <2>2, <2>3
<1>5. Cardinality(On(list, at)) = n
  <2>1. On(list, at) = {at} \X (1 .. n)
    BY <1>2 DEF On
  <2> QED BY <2>1, BlocksOf
<1>6. ASSUME NEW v \in own \cup {at}
      PROVE  /\ Cardinality(On(list, v)) = ar2[v].cnt
             /\ ar2[v].cnt <= n /\ (v # at => ar2[v].cnt < n)
  <2>1. CASE v \in own
    BY <2>1, <1>4
  <2>2. CASE v = at
    BY <2>2, <1>5
  <2> QED BY <2>1, <2>2
<1>7. Range(list) \cup {b \in held : b[1] \in own \cup {at}} = (own \cup {at}) \X (1 .. n)
  <2>1. {b \in held : b[1] \in own} = own \X (1 .. n)
    BY <1>3 DEF ListOk
  <2>2. {b \in held : b[1] \in own \cup {at}} = {b \in held : b[1] \in own}
    OBVIOUS
  <2> QED BY <2>1, <2>2, <1>2
<1>8. Range(list) \cap held = {}
  BY <1>2
<1>9. ListOk(list, held, ar2, own \cup {at}, n, at)
  BY <1>2, <1>6, <1>7, <1>8 DEF ListOk
<1> QED BY <1>1, <1>9

\* Blocks of other arenas do not matter.
LEMMA ListFrame ==
    ASSUME NEW list, NEW held, NEW ar, NEW own, NEW n, NEW z,
           ListOk(list, held, ar, own, n, z), NEW z2,
           \A v \in own : v # z2 => v # z, NEW held2, NEW ar2,
           \A b : b[1] \in own => (b \in held2 <=> b \in held),
           \A v \in own : ar2[v].cnt = ar[v].cnt
    PROVE  ListOk(list, held2, ar2, own, n, z2)
<1>1. Range(list) \cup {b \in held2 : b[1] \in own} = own \X (1 .. n)
  <2>1. Range(list) \cup {b \in held : b[1] \in own} = own \X (1 .. n)
    BY DEF ListOk
  <2>2. {b \in held : b[1] \in own} = {b \in held2 : b[1] \in own}
    OBVIOUS
  <2> QED BY <2>1, <2>2
<1>2. Range(list) \cap held2 = {}
  <2>1. \A b \in Range(list) : b[1] \in own /\ b \notin held
    BY DEF ListOk
  <2> QED BY <2>1
<1>3. ASSUME NEW v \in own
      PROVE  /\ Cardinality(On(list, v)) = ar2[v].cnt
             /\ ar2[v].cnt <= n /\ (v # z2 => ar2[v].cnt < n)
  BY DEF ListOk
<1>4. IsInjective(list)
  BY DEF ListOk
<1> QED BY <1>1, <1>2, <1>3, <1>4 DEF ListOk

-----------------------------------------------------------------------------
\* Heaps

LEMMA ArenasFacts ==
    ASSUME NEW ar \in Arenas
    PROVE  /\ DOMAIN ar \in SUBSET Nat /\ \A v \in DOMAIN ar : ar[v] \in ArenaRecords
           /\ ar = [v \in DOMAIN ar |-> ar[v]]
           /\ \A v \in DOMAIN ar : v \in Nat /\ ar[v].cnt \in Nat
<1>1. PICK D \in SUBSET Nat : ar \in [D -> ArenaRecords]
  BY DEF Arenas
<1>2. \A v \in D : ar[v] \in ArenaRecords
  BY <1>1
<1> QED BY <1>1, <1>2 DEF ArenaRecords

LEMMA ArenasType ==
    ASSUME NEW ar, DOMAIN ar \in SUBSET Nat, ar = [v \in DOMAIN ar |-> ar[v]],
           \A v \in DOMAIN ar : ar[v] \in ArenaRecords
    PROVE  ar \in Arenas
<1>1. ar \in [DOMAIN ar -> ArenaRecords]
  OBVIOUS
<1> QED BY <1>1 DEF Arenas

Added(ar, at, a, ar2) ==
    /\ ar2 \in Arenas /\ DOMAIN ar2 = DOMAIN ar \cup {at}
    /\ ar2[at] = a /\ \A v \in DOMAIN ar : ar2[v] = ar[v]
    /\ ArenaPages(ar2, at) = at .. at + (IF a.large THEN a.cnt ELSE 1) - 1
    /\ \A v \in DOMAIN ar : ArenaPages(ar2, v) = ArenaPages(ar, v)
    /\ HeapPages(ar2) = HeapPages(ar) \cup ArenaPages(ar2, at)

LEMMA AddArenaFacts ==
    ASSUME NEW ar \in Arenas, NEW at \in Nat, at \notin DOMAIN ar, NEW a \in ArenaRecords
    PROVE  Added(ar, at, a, AddArena(ar, at, a))
<1> DEFINE ar2 == AddArena(ar, at, a)
<1> DEFINE D == DOMAIN ar
<1>0. D \in SUBSET Nat /\ \A v \in D : ar[v] \in ArenaRecords
  BY ArenasFacts
<1>1. ar2 = [v \in D \cup {at} |-> IF v = at THEN a ELSE ar[v]]
  BY DEF AddArena
<1> HIDE DEF D, ar2
<1>2. DOMAIN ar2 = D \cup {at} /\ ar2[at] = a /\ \A v \in D : ar2[v] = ar[v]
  BY <1>1 DEF D
<1>3. ar2 \in Arenas
  <2>1. ar2 \in [D \cup {at} -> ArenaRecords] /\ D \cup {at} \in SUBSET Nat
    BY <1>0, <1>1
  <2> QED BY <2>1 DEF Arenas
<1>4. ArenaPages(ar2, at) = at .. at + (IF a.large THEN a.cnt ELSE 1) - 1
  BY <1>2 DEF ArenaPages
<1>5. \A v \in D : ArenaPages(ar2, v) = ArenaPages(ar, v)
  BY <1>2 DEF ArenaPages
<1>6. HeapPages(ar2) = HeapPages(ar) \cup ArenaPages(ar2, at)
  BY <1>2, <1>5 DEF HeapPages, D
<1> QED BY <1>2, <1>3, <1>4, <1>5, <1>6 DEF D, Added, ar2

Removed(ar, v, ar2) ==
    /\ ar \in Arenas /\ v \in DOMAIN ar
    /\ \A w \in DOMAIN ar : w # v => ArenaPages(ar, w) \cap ArenaPages(ar, v) = {}
    /\ ar2 = Without(ar, {v})

Left(ar, v, ar2) ==
    /\ ar2 \in Arenas /\ DOMAIN ar2 = DOMAIN ar \ {v}
    /\ \A w \in DOMAIN ar2 : ar2[w] = ar[w]
    /\ \A w \in DOMAIN ar2 : ArenaPages(ar2, w) = ArenaPages(ar, w)
    /\ HeapPages(ar2) = HeapPages(ar) \ ArenaPages(ar, v)

LEMMA WithoutFacts ==
    ASSUME NEW ar, NEW v, NEW ar2, Removed(ar, v, ar2)
    PROVE  Left(ar, v, ar2)
<1> USE DEF Removed
<1> DEFINE D == DOMAIN ar
<1>0. D \in SUBSET Nat /\ \A w \in D : ar[w] \in ArenaRecords
  BY ArenasFacts
<1>1. ar2 = [w \in D \ {v} |-> ar[w]]
  BY DEF Without, Restrict
<1> HIDE DEF D
<1>2. DOMAIN ar2 = D \ {v} /\ \A w \in D \ {v} : ar2[w] = ar[w]
  BY <1>1
<1>3. ar2 \in Arenas
  <2>1. ar2 \in [D \ {v} -> ArenaRecords] /\ D \ {v} \in SUBSET Nat
    BY <1>0, <1>1
  <2> QED BY <2>1 DEF Arenas
<1>5. \A w \in D \ {v} : ArenaPages(ar2, w) = ArenaPages(ar, w)
  BY <1>2 DEF ArenaPages
<1>6. HeapPages(ar2) = HeapPages(ar) \ ArenaPages(ar, v)
  <2>1. ASSUME NEW e PROVE e \in HeapPages(ar2) <=> e \in HeapPages(ar) /\ e \notin ArenaPages(ar, v)
    <3>1. e \in HeapPages(ar2) <=> \E w \in D \ {v} : e \in ArenaPages(ar, w)
      BY <1>2, <1>5 DEF HeapPages
    <3>2. e \in HeapPages(ar) <=> \E w \in D : e \in ArenaPages(ar, w)
      BY DEF HeapPages, D
    <3> QED BY <3>1, <3>2 DEF D
  <2> QED BY <2>1
<1> QED BY <1>2, <1>3, <1>5, <1>6 DEF D, Left

\* An arena begins on a page of its own.
LEMMA HeapFacts ==
    ASSUME NEW x, NEW h, NEW M, NEW z, HeapBut(x, h, M, z)
    PROVE  /\ h.arena \in Arenas /\ h.free \in [1 .. DescCnt -> Seq(Blocks)]
           /\ h.held \in SUBSET Blocks
           /\ \A v \in DOMAIN h.arena : v \in ArenaPages(h.arena, v) /\ v \in M /\ v \in Nat
           /\ \A v, w \in DOMAIN h.arena :
                v # w => ArenaPages(h.arena, v) \cap ArenaPages(h.arena, w) = {}
           /\ HeapPages(h.arena) \subseteq M
           /\ \A d : Own(h, d) \in SUBSET Nat /\ None \notin Own(h, d)
                     /\ Own(h, d) \subseteq DOMAIN h.arena
<1>1. h \in HeapRecords /\ ArenaInv(h, M)
  BY DEF HeapBut
<1>2. /\ h.arena \in Arenas /\ h.free \in [1 .. DescCnt -> Seq(Blocks)]
      /\ h.held \in SUBSET Blocks
  BY <1>1 DEF HeapRecords
<1>3. ASSUME NEW v \in DOMAIN h.arena
      PROVE  v \in ArenaPages(h.arena, v) /\ v \in M /\ v \in Nat
  <2>1. v \in Nat /\ h.arena[v].cnt \in Nat
    BY <1>2, ArenasFacts
  <2>2. /\ ArenaPages(h.arena, v) \subseteq M
        /\ h.arena[v].large => h.arena[v].cnt >= 1
    BY <1>1 DEF ArenaInv
  <2>3. v \in ArenaPages(h.arena, v)
    BY <2>1, <2>2 DEF ArenaPages
  <2> QED BY <2>1, <2>2, <2>3
<1>4. \A v, w \in DOMAIN h.arena :
        v # w => ArenaPages(h.arena, v) \cap ArenaPages(h.arena, w) = {}
  BY <1>1 DEF ArenaInv
<1>5. HeapPages(h.arena) \subseteq M
  BY <1>1 DEF ArenaInv, HeapPages
<1>6. \A d : Own(h, d) \subseteq DOMAIN h.arena
  BY DEF Own
<1>7. \A d : Own(h, d) \in SUBSET Nat /\ None \notin Own(h, d)
  <2>1. None \notin Nat
    BY DEF None
  <2> QED BY <2>1, <1>3, <1>6
<1> QED BY <1>2, <1>3, <1>4, <1>5, <1>6, <1>7

LEMMA HeapGrow ==
    ASSUME NEW x, NEW h, NEW M, NEW z, HeapBut(x, h, M, z), NEW M2, M \subseteq M2
    PROVE  HeapBut(x, h, M2, z)
  BY DEF HeapBut, ArenaInv

LEMMA HeapEmpty ==
    ASSUME NEW x, NEW M
    PROVE  /\ HeapInv(x, EmptyHeap, M) /\ EmptyHeap \in HeapRecords
           /\ HeapPages(EmptyHeap.arena) = {}
<1> DEFINE h == EmptyHeap
<1>1. DOMAIN h.arena = {} /\ h.held = {} /\ \A d \in 1 .. DescCnt : h.free[d] = << >>
  BY DEF EmptyHeap
<1>2. h \in HeapRecords
  <2>1. << >> \in [{} -> ArenaRecords]
    OBVIOUS
  <2>2. << >> \in Arenas
    BY <2>1 DEF Arenas
  <2>3. << >> \in Seq(Blocks)
    OBVIOUS
  <2>4. [d \in 1 .. DescCnt |-> << >>] \in [1 .. DescCnt -> Seq(Blocks)]
    BY <2>3
  <2> QED BY <2>2, <2>4 DEF EmptyHeap, HeapRecords
<1> HIDE DEF h
<1>3. ArenaInv(h, M) /\ OwnerInv(x, h) /\ HeapPages(h.arena) = {}
  BY <1>1 DEF ArenaInv, OwnerInv, HeapPages
<1>4. \A d : Own(h, d) = {}
  BY <1>1 DEF Own
<1>5. ListsInv(h, None)
  BY <1>1, <1>4 DEF ListsInv, ListOk, IsInjective, Range
<1> QED BY <1>2, <1>3, <1>5 DEF HeapInv, HeapBut, h

\* A large arena on pages that were not the heap's.
LargeCall(x, h, M, at, n, P, g) ==
    /\ x \in Owners /\ HeapInv(x, h, M) /\ at \in Nat /\ n \in Nat \ {0}
    /\ P = at .. at + n - 1 /\ P \cap M = {} /\ g = AddLarge(h, x, at, n)

LEMMA AddLargeFacts ==
    ASSUME NEW x, NEW h, NEW M, NEW at, NEW n, NEW P, NEW g, LargeCall(x, h, M, at, n, P, g)
    PROVE  /\ HeapInv(x, g, M \cup P)
           /\ HeapPages(g.arena) = HeapPages(h.arena) \cup P
<1> USE DEF LargeCall
<1> DEFINE a == [large |-> TRUE, desc |-> 0, owner |-> x, cnt |-> n, old |-> FALSE]
           D == DOMAIN h.arena
<1>1. HeapBut(x, h, M, None)
  BY DEF HeapInv
<1>2. /\ h.arena \in Arenas /\ h.free \in [1 .. DescCnt -> Seq(Blocks)]
      /\ h.held \in SUBSET Blocks
      /\ \A v \in D : v \in ArenaPages(h.arena, v) /\ v \in M /\ v \in Nat
      /\ \A v, w \in D : v # w => ArenaPages(h.arena, v) \cap ArenaPages(h.arena, w) = {}
      /\ \A d : Own(h, d) \subseteq D
  BY <1>1, HeapFacts
<1>3. /\ h \in HeapRecords /\ ArenaInv(h, M) /\ OwnerInv(x, h) /\ ListsInv(h, None)
  BY <1>1 DEF HeapBut
<1>4. at \in P /\ at \notin D
  BY <1>2
<1>5. a \in ArenaRecords /\ a.large /\ a.cnt = n /\ ~a.old
  BY BlocksAssumption DEF ArenaRecords
<1> HIDE DEF a
<1>6. PICK ar : ar = AddArena(h.arena, at, a)
  OBVIOUS
<1>7. /\ ar \in Arenas /\ DOMAIN ar = D \cup {at}
      /\ ar[at] = a /\ \A v \in D : ar[v] = h.arena[v]
      /\ ArenaPages(ar, at) = P
      /\ \A v \in D : ArenaPages(ar, v) = ArenaPages(h.arena, v)
      /\ HeapPages(ar) = HeapPages(h.arena) \cup P
  <2>1. /\ ar \in Arenas /\ DOMAIN ar = D \cup {at}
        /\ ar[at] = a /\ \A v \in D : ar[v] = h.arena[v]
        /\ ArenaPages(ar, at) = at .. at + (IF a.large THEN a.cnt ELSE 1) - 1
        /\ \A v \in D : ArenaPages(ar, v) = ArenaPages(h.arena, v)
        /\ HeapPages(ar) = HeapPages(h.arena) \cup ArenaPages(ar, at)
    <3>1. Added(h.arena, at, a, AddArena(h.arena, at, a))
      BY <1>2, <1>4, <1>5, AddArenaFacts
    <3> QED BY <3>1, <1>6 DEF Added
  <2>2. ArenaPages(ar, at) = P
    BY <2>1, <1>5
  <2> QED BY <2>1, <2>2
<1>8. PICK hd : hd = h.held \cup {<<at, 0>>}
  OBVIOUS
<1>9. g = [h EXCEPT !.arena = ar, !.held = hd]
  BY <1>6, <1>8 DEF AddLarge, a
<1>10. hd \in SUBSET Blocks
  BY <1>2, <1>8 DEF Blocks
<1>11. g \in HeapRecords /\ g.arena = ar /\ g.held = hd /\ g.free = h.free
  BY <1>3, <1>7, <1>9, <1>10 DEF HeapRecords
<1>12. ArenaInv(g, M \cup P)
  <2>1. ASSUME NEW v \in D \cup {at}
        PROVE  ArenaPages(ar, v) \subseteq M \cup P /\ (ar[v].large => ar[v].cnt >= 1)
    <3>1. CASE v \in D
      BY <3>1, <1>3, <1>7 DEF ArenaInv
    <3>2. CASE v = at
      BY <3>2, <1>5, <1>7
    <3> QED BY <3>1, <3>2
  <2>2. ASSUME NEW v \in D \cup {at}, NEW w \in D \cup {at}, v # w
        PROVE  ArenaPages(ar, v) \cap ArenaPages(ar, w) = {}
    <3>1. \A u \in D : ArenaPages(ar, u) \subseteq M
      BY <1>3, <1>7 DEF ArenaInv
    <3>2. CASE v \in D /\ w \in D
      BY <3>2, <2>2, <1>2, <1>7
    <3>3. CASE v \notin D \/ w \notin D
      BY <3>1, <3>3, <2>2, <1>7
    <3> QED BY <3>2, <3>3
  <2>3. ASSUME NEW b \in hd PROVE b[1] \in D \cup {at} /\ (ar[b[1]].large => b[2] = 0)
    <3>1. CASE b \in h.held
      BY <3>1, <1>3, <1>7 DEF ArenaInv
    <3>2. CASE b = <<at, 0>>
      BY <3>2
    <3> QED BY <3>1, <3>2, <1>8
  <2> QED BY <2>1, <2>2, <2>3, <1>7, <1>11 DEF ArenaInv
<1>13. OwnerInv(x, g)
  BY <1>3, <1>5, <1>7, <1>11 DEF OwnerInv
<1>14. \A d : Own(g, d) = Own(h, d)
  BY <1>5, <1>7, <1>11 DEF Own
<1>15. ListsInv(g, None)
  <2> SUFFICES ASSUME NEW d \in 1 .. DescCnt
               PROVE  ListOk(g.free[d], g.held, g.arena, Own(g, d), BlocksPerArena(d), None)
    BY DEF ListsInv
  <2>1. ListOk(h.free[d], h.held, h.arena, Own(h, d), BlocksPerArena(d), None)
    BY <1>3 DEF ListsInv
  <2>2. \A b : b[1] \in Own(h, d) => (b \in hd <=> b \in h.held)
    BY <1>2, <1>4, <1>8
  <2>3. \A v \in Own(h, d) : ar[v].cnt = h.arena[v].cnt
    BY <1>2, <1>7
  <2>4. ListOk(h.free[d], hd, ar, Own(h, d), BlocksPerArena(d), None)
    BY <2>1, <2>2, <2>3, ListFrame
  <2> QED BY <2>4, <1>11, <1>14
<1> QED BY <1>7, <1>11, <1>12, <1>13, <1>15 DEF HeapInv, HeapBut

\* Arenas that differ in the number of free blocks of a small one.
Like(ar, ar2) ==
    /\ ar2 \in Arenas /\ DOMAIN ar2 = DOMAIN ar
    /\ \A v \in DOMAIN ar : /\ ar2[v].large = ar[v].large /\ ar2[v].desc = ar[v].desc
                            /\ ar2[v].owner = ar[v].owner /\ ar2[v].old = ar[v].old
                            /\ ar[v].large => ar2[v].cnt = ar[v].cnt

LEMMA LikeFacts ==
    ASSUME NEW ar, NEW ar2, Like(ar, ar2)
    PROVE  /\ \A v \in DOMAIN ar : ArenaPages(ar2, v) = ArenaPages(ar, v)
           /\ HeapPages(ar2) = HeapPages(ar)
<1>1. \A v \in DOMAIN ar : ArenaPages(ar2, v) = ArenaPages(ar, v)
  BY DEF Like, ArenaPages
<1> QED BY <1>1 DEF Like, HeapPages

LEMMA LikeHeaps ==
    ASSUME NEW x, NEW h, NEW M, NEW z, HeapBut(x, h, M, z), NEW g \in HeapRecords,
           Like(h.arena, g.arena),
           \A b \in g.held : b[1] \in DOMAIN h.arena /\ (h.arena[b[1]].large => b[2] = 0)
    PROVE  /\ ArenaInv(g, M) /\ OwnerInv(x, g) /\ HeapPages(g.arena) = HeapPages(h.arena)
           /\ \A d : Own(g, d) = Own(h, d)
<1>1. ArenaInv(h, M) /\ OwnerInv(x, h)
  BY DEF HeapBut
<1>2. /\ \A v \in DOMAIN h.arena : ArenaPages(g.arena, v) = ArenaPages(h.arena, v)
      /\ HeapPages(g.arena) = HeapPages(h.arena)
  BY LikeFacts
<1>3. /\ DOMAIN g.arena = DOMAIN h.arena
      /\ \A v \in DOMAIN h.arena :
           /\ g.arena[v].large = h.arena[v].large /\ g.arena[v].desc = h.arena[v].desc
           /\ g.arena[v].owner = h.arena[v].owner /\ g.arena[v].old = h.arena[v].old
           /\ h.arena[v].large => g.arena[v].cnt = h.arena[v].cnt
  BY DEF Like
<1>4. \A d : Own(g, d) = Own(h, d)
  BY <1>3 DEF Own
<1>5. ArenaInv(g, M)
  BY <1>1, <1>2, <1>3 DEF ArenaInv
<1>6. OwnerInv(x, g)
  BY <1>1, <1>3 DEF OwnerInv
<1> QED BY <1>2, <1>4, <1>5, <1>6

\* A block of arena v is taken or given.
Recount(ar, v, c, ar2) ==
    /\ ar \in Arenas /\ v \in DOMAIN ar /\ ~ar[v].large /\ c \in Nat
    /\ ar2 = [ar EXCEPT ![v].cnt = c]

LEMMA CountChanged ==
    ASSUME NEW ar, NEW v, NEW c, NEW ar2, Recount(ar, v, c, ar2)
    PROVE  /\ Like(ar, ar2)
           /\ \A w \in DOMAIN ar : ar2[w].cnt = IF w = v THEN c ELSE ar[w].cnt
<1> USE DEF Recount
<1> DEFINE D == DOMAIN ar
<1>1. D \in SUBSET Nat /\ (\A w \in D : ar[w] \in ArenaRecords) /\ ar = [w \in D |-> ar[w]]
  BY ArenasFacts
<1>2. PICK a : a = [ar[v] EXCEPT !.cnt = c]
  OBVIOUS
<1>3. ar2 = [w \in D |-> IF w = v THEN a ELSE ar[w]]
  BY <1>1, <1>2
<1> HIDE DEF D
<1>4. /\ a \in ArenaRecords /\ a.cnt = c /\ a.large = ar[v].large /\ a.desc = ar[v].desc
      /\ a.owner = ar[v].owner /\ a.old = ar[v].old
  BY <1>1, <1>2 DEF ArenaRecords, D
<1>5. DOMAIN ar2 = D /\ ar2[v] = a /\ \A w \in D : w # v => ar2[w] = ar[w]
  BY <1>3 DEF D
<1>6. ar2 \in Arenas
  <2>1. ar2 \in [D -> ArenaRecords]
    BY <1>1, <1>3, <1>4
  <2> QED BY <2>1, <1>1 DEF Arenas
<1>7. ASSUME NEW w \in D
      PROVE  /\ ar2[w].large = ar[w].large /\ ar2[w].desc = ar[w].desc
             /\ ar2[w].owner = ar[w].owner /\ ar2[w].old = ar[w].old
             /\ ar[w].large => ar2[w].cnt = ar[w].cnt
             /\ ar2[w].cnt = IF w = v THEN c ELSE ar[w].cnt
  <2>1. CASE w = v
    BY <2>1, <1>4, <1>5
  <2>2. CASE w # v
    BY <2>2, <1>5
  <2> QED BY <2>1, <2>2
<1> QED BY <1>5, <1>6, <1>7 DEF Like, D

\* list_pop of free list d: the block is held.
LEMMA PopFacts ==
    ASSUME NEW x, NEW h, NEW M, NEW z, HeapBut(x, h, M, z), NEW d \in 1 .. DescCnt,
           h.free[d] # << >>, z \in {None, Head(h.free[d])[1]}
    PROVE  HeapInv(x, Pop(h, d), M) /\ HeapPages(Pop(h, d).arena) = HeapPages(h.arena)
<1>1. PICK list, b, ar, n, g : /\ list = h.free[d] /\ b = Head(list) /\ ar = h.arena
                               /\ n = BlocksPerArena(d) /\ g = Pop(h, d)
  OBVIOUS
<1>2. /\ ar \in Arenas /\ h.free \in [1 .. DescCnt -> Seq(Blocks)]
      /\ h.held \in SUBSET Blocks
      /\ \A e : Own(h, e) \in SUBSET Nat /\ None \notin Own(h, e) /\ Own(h, e) \subseteq DOMAIN ar
  BY <1>1, HeapFacts
<1>3. /\ h \in HeapRecords /\ ArenaInv(h, M) /\ OwnerInv(x, h) /\ ListsInv(h, z)
  BY DEF HeapBut
<1>4. ListOk(list, h.held, ar, Own(h, d), n, z) /\ list \in Seq(Blocks) /\ n \in Nat
  BY <1>1, <1>2, <1>3, BlocksAssumption DEF ListsInv
<1>5. b \in Range(list) /\ b[1] \in Own(h, d)
  <2>1. IsInjective(list)
    BY <1>4 DEF ListOk
  <2>2. b \in Range(list)
    BY <2>1, <1>1, <1>4, TailFacts
  <2> QED BY <2>2, <1>4, ListFacts
<1>6. b[1] \in DOMAIN ar /\ ~ar[b[1]].large /\ ar[b[1]].desc = d
  BY <1>1, <1>5 DEF Own
<1>7. ar[b[1]].cnt - 1 \in Nat
  <2>1. IsFiniteSet(On(list, b[1])) /\ Cardinality(On(list, b[1])) \in Nat
    BY <1>4, <1>5, ListFacts
  <2>4. Cardinality(On(list, b[1])) = ar[b[1]].cnt
    BY <1>4, <1>5 DEF ListOk
  <2>2. On(list, b[1]) # {}
    BY <1>5 DEF On
  <2>3. Cardinality(On(list, b[1])) # 0
    BY <2>1, <2>2, FS_EmptySet
  <2> QED BY <2>1, <2>3, <2>4
<1>8. PICK ar2, v0, c0 : /\ ar2 = [ar EXCEPT ![b[1]].cnt = ar[b[1]].cnt - 1]
                         /\ v0 = b[1] /\ c0 = ar[b[1]].cnt - 1
  OBVIOUS
<1>9. /\ Like(ar, ar2)
      /\ \A w \in DOMAIN ar : ar2[w].cnt = IF w = b[1] THEN ar[b[1]].cnt - 1 ELSE ar[w].cnt
  <2>1. Recount(ar, v0, c0, ar2)
    BY <1>2, <1>6, <1>7, <1>8 DEF Recount
  <2>2. Like(ar, ar2) /\ \A w \in DOMAIN ar : ar2[w].cnt = IF w = v0 THEN c0 ELSE ar[w].cnt
    BY <2>1, CountChanged
  <2> QED BY <2>2, <1>8
<1>10. /\ b \in Blocks /\ Tail(list) \in Seq(Blocks)
       /\ ListOk(Tail(list), h.held \cup {b}, ar2, Own(h, d), n, None)
  <2>1. \A v \in Own(h, d) : ar2[v].cnt = IF v = b[1] THEN ar[v].cnt - 1 ELSE ar[v].cnt
    BY <1>2, <1>9
  <2>2. list # << >> /\ z \in {None, b[1]} /\ None \notin Own(h, d)
    BY <1>1, <1>2
  <2> QED BY <2>1, <2>2, <1>1, <1>4, ListPop
<1>11. PICK hd, fr : hd = h.held \cup {b} /\ fr = [h.free EXCEPT ![d] = Tail(list)]
  BY Zenon
<1>12. hd \in SUBSET Blocks /\ fr \in [1 .. DescCnt -> Seq(Blocks)] /\ ar2 \in Arenas
  BY <1>2, <1>9, <1>10, <1>11 DEF Like
<1>13. g = [h EXCEPT !.free = fr, !.arena = ar2, !.held = hd]
  BY <1>1, <1>3, <1>8, <1>11, Zenon DEF Pop, HeapRecords
<1>14. g \in HeapRecords /\ g.arena = ar2 /\ g.held = hd /\ g.free = fr
  BY <1>3, <1>12, <1>13 DEF HeapRecords
<1>15. /\ ArenaInv(g, M) /\ OwnerInv(x, g) /\ HeapPages(g.arena) = HeapPages(h.arena)
       /\ \A e : Own(g, e) = Own(h, e)
  <2>1. \A c \in g.held : c[1] \in DOMAIN h.arena /\ (h.arena[c[1]].large => c[2] = 0)
    BY <1>1, <1>3, <1>6, <1>11, <1>14 DEF ArenaInv
  <2>2. Like(h.arena, g.arena)
    BY <1>1, <1>9, <1>14
  <2> QED BY <2>1, <2>2, <1>14, LikeHeaps
<1>16. ListsInv(g, None)
  <2> SUFFICES ASSUME NEW e \in 1 .. DescCnt
               PROVE  ListOk(g.free[e], g.held, g.arena, Own(g, e), BlocksPerArena(e), None)
    BY DEF ListsInv
  <2>1. CASE e = d
    <3>1. g.free[e] = Tail(list)
      BY <2>1, <1>2, <1>11, <1>14
    <3> QED BY <3>1, <2>1, <1>1, <1>10, <1>11, <1>14, <1>15
  <2>2. CASE e # d
    <3>1. ListOk(h.free[e], h.held, h.arena, Own(h, e), BlocksPerArena(e), z)
      BY <1>3 DEF ListsInv
    <3>2. b[1] \notin Own(h, e)
      BY <1>1, <1>6, <2>2 DEF Own
    <3>3. \A c : c[1] \in Own(h, e) => (c \in hd <=> c \in h.held)
      BY <3>2, <1>11
    <3>4. \A v \in Own(h, e) : ar2[v].cnt = h.arena[v].cnt
      BY <3>2, <1>1, <1>2, <1>9
    <3>5. \A v \in Own(h, e) : v # None => v # z
      BY <3>2, <1>1
    <3>6. ListOk(h.free[e], hd, ar2, Own(h, e), BlocksPerArena(e), None)
      BY <3>1, <3>3, <3>4, <3>5, ListFrame
    <3>7. g.free[e] = h.free[e]
      BY <2>2, <1>2, <1>11, <1>14
    <3> QED BY <3>6, <3>7, <1>14, <1>15
  <2> QED BY <2>1, <2>2
<1>17. HeapInv(x, g, M)
  BY <1>14, <1>15, <1>16 DEF HeapInv, HeapBut
<1> QED BY <1>1, <1>15, <1>17

\* A new arena with all its blocks free.
BlocksCall(x, h, M, d, at, g) ==
    /\ x \in Owners /\ HeapInv(x, h, M) /\ d \in 1 .. DescCnt /\ h.free[d] = << >>
    /\ at \in Nat /\ at \notin M /\ g = AddBlocks(h, x, at, d)

BlocksAdded(x, h, M, d, at, g) ==
    /\ HeapBut(x, g, M \cup {at}, at)
    /\ HeapPages(g.arena) = HeapPages(h.arena) \cup {at}
    /\ g.free[d] # << >> /\ Head(g.free[d])[1] = at

LEMMA AddBlocksFacts ==
    ASSUME NEW x, NEW h, NEW M, NEW d, NEW at, NEW g, BlocksCall(x, h, M, d, at, g)
    PROVE  BlocksAdded(x, h, M, d, at, g)
<1> SUFFICES /\ HeapBut(x, g, M \cup {at}, at)
             /\ HeapPages(g.arena) = HeapPages(h.arena) \cup {at}
             /\ g.free[d] # << >> /\ Head(g.free[d])[1] = at
  BY DEF BlocksAdded
<1> USE DEF BlocksCall
<1> DEFINE n == BlocksPerArena(d)
           a == [large |-> FALSE, desc |-> d, owner |-> x, cnt |-> n, old |-> FALSE]
           D == DOMAIN h.arena
<1>1. HeapBut(x, h, M, None)
  BY DEF HeapInv
<1>2. /\ h.arena \in Arenas /\ h.free \in [1 .. DescCnt -> Seq(Blocks)]
      /\ h.held \in SUBSET Blocks
      /\ \A v \in D : v \in ArenaPages(h.arena, v) /\ v \in M /\ v \in Nat
      /\ \A v, w \in D : v # w => ArenaPages(h.arena, v) \cap ArenaPages(h.arena, w) = {}
      /\ \A e : Own(h, e) \subseteq D /\ Own(h, e) \in SUBSET Nat
  BY <1>1, HeapFacts
<1>3. /\ h \in HeapRecords /\ ArenaInv(h, M) /\ OwnerInv(x, h) /\ ListsInv(h, None)
  BY <1>1 DEF HeapBut
<1>4. at \notin D
  BY <1>2
<1>40. n \in Nat \ {0} /\ d # 0
  BY BlocksAssumption
<1>5. a \in ArenaRecords /\ ~a.large /\ a.cnt = n /\ ~a.old /\ a.desc = d /\ a.owner = x
  BY <1>40, BlocksAssumption DEF ArenaRecords
<1> HIDE DEF a, n
<1>6. PICK ar : ar = AddArena(h.arena, at, a)
  OBVIOUS
<1>7. /\ ar \in Arenas /\ DOMAIN ar = D \cup {at}
      /\ ar[at] = a /\ \A v \in D : ar[v] = h.arena[v]
      /\ ArenaPages(ar, at) = {at}
      /\ \A v \in D : ArenaPages(ar, v) = ArenaPages(h.arena, v)
      /\ HeapPages(ar) = HeapPages(h.arena) \cup {at}
  <2>1. Added(h.arena, at, a, AddArena(h.arena, at, a))
    BY <1>2, <1>4, <1>5, AddArenaFacts
  <2>2. ArenaPages(ar, at) = at .. at + 1 - 1
    BY <2>1, <1>5, <1>6 DEF Added
  <2>3. at .. at + 1 - 1 = {at}
    OBVIOUS
  <2> QED BY <2>1, <2>2, <2>3, <1>6 DEF Added
<1>8. PICK list, fr : list = [k \in 1 .. n |-> <<at, k>>] /\ fr = [h.free EXCEPT ![d] = list]
  OBVIOUS
<1>9. g = [h EXCEPT !.arena = ar, !.free = fr]
  BY <1>3, <1>6, <1>8 DEF AddBlocks, a, n, HeapRecords
<1>10. list \in Seq(Blocks) /\ ListOk(list, h.held, ar, Own(h, d) \cup {at}, n, at)
  <2>1. ListOk(<< >>, h.held, h.arena, Own(h, d), n, None)
    BY <1>3 DEF ListsInv, n
  <2>2. \A b \in h.held : b[1] # at
    BY <1>3, <1>4 DEF ArenaInv
  <2>3. ar[at].cnt = n /\ \A v \in Own(h, d) : ar[v].cnt = h.arena[v].cnt
    BY <1>2, <1>5, <1>7
  <2>4. Own(h, d) \in SUBSET Nat /\ at \notin Own(h, d) /\ n \in Nat
    BY <1>2, <1>4, <1>40
  <2>5. PICK own, hd, old : own = Own(h, d) /\ hd = h.held /\ old = h.arena
    OBVIOUS
  <2>6. NewList(hd, old, own, n, at, ar, list)
    BY <2>1, <2>2, <2>3, <2>4, <2>5, <1>8 DEF NewList
  <2>7. list \in Seq(Blocks) /\ ListOk(list, hd, ar, own \cup {at}, n, at)
    BY <2>6, ListNew
  <2> QED BY <2>5, <2>7
<1>11. fr \in [1 .. DescCnt -> Seq(Blocks)]
  BY <1>2, <1>8, <1>10
<1>12. g \in HeapRecords /\ g.arena = ar /\ g.held = h.held /\ g.free = fr
  BY <1>3, <1>7, <1>9, <1>11 DEF HeapRecords
<1>13. ArenaInv(g, M \cup {at})
  <2>1. ASSUME NEW v \in D \cup {at}
        PROVE  ArenaPages(ar, v) \subseteq M \cup {at} /\ (ar[v].large => ar[v].cnt >= 1)
    <3>1. CASE v \in D
      BY <3>1, <1>3, <1>7 DEF ArenaInv
    <3>2. CASE v = at
      BY <3>2, <1>5, <1>7
    <3> QED BY <3>1, <3>2
  <2>2. ASSUME NEW v \in D \cup {at}, NEW w \in D \cup {at}, v # w
        PROVE  ArenaPages(ar, v) \cap ArenaPages(ar, w) = {}
    <3>1. \A u \in D : ArenaPages(ar, u) \subseteq M
      BY <1>3, <1>7 DEF ArenaInv
    <3>2. CASE v \in D /\ w \in D
      BY <3>2, <2>2, <1>2, <1>7
    <3>3. CASE v \notin D \/ w \notin D
      BY <3>1, <3>3, <2>2, <1>7
    <3> QED BY <3>2, <3>3
  <2>3. ASSUME NEW b \in h.held PROVE b[1] \in D \cup {at} /\ (ar[b[1]].large => b[2] = 0)
    BY <1>3, <1>7 DEF ArenaInv
  <2> QED BY <2>1, <2>2, <2>3, <1>7, <1>12 DEF ArenaInv
<1>14. OwnerInv(x, g)
  BY <1>3, <1>5, <1>7, <1>12, <1>40 DEF OwnerInv
<1>15. Own(g, d) = Own(h, d) \cup {at} /\ \A e : e # d => Own(g, e) = Own(h, e)
  BY <1>5, <1>7, <1>12 DEF Own
<1>16. ListsInv(g, at)
  <2> SUFFICES ASSUME NEW e \in 1 .. DescCnt
               PROVE  ListOk(g.free[e], g.held, g.arena, Own(g, e), BlocksPerArena(e), at)
    BY DEF ListsInv
  <2>1. CASE e = d
    <3>1. g.free[e] = list
      BY <2>1, <1>2, <1>8, <1>12
    <3> QED BY <3>1, <2>1, <1>10, <1>12, <1>15 DEF n
  <2>2. CASE e # d
    <3>1. ListOk(h.free[e], h.held, h.arena, Own(h, e), BlocksPerArena(e), None)
      BY <1>3 DEF ListsInv
    <3>2. \A v \in Own(h, e) : ar[v].cnt = h.arena[v].cnt
      BY <1>2, <1>7
    <3>3. \A v \in Own(h, e) : v # at => v # None
      <4>1. None \notin Nat
        BY DEF None
      <4> QED BY <4>1, <1>2
    <3>4. \A c : c[1] \in Own(h, e) => (c \in h.held <=> c \in h.held)
      OBVIOUS
    <3>6. ListOk(h.free[e], h.held, ar, Own(h, e), BlocksPerArena(e), at)
      BY <3>1, <3>2, <3>3, <3>4, ListFrame
    <3>7. g.free[e] = h.free[e]
      BY <2>2, <1>2, <1>8, <1>12
    <3> QED BY <3>6, <3>7, <2>2, <1>12, <1>15
  <2> QED BY <2>1, <2>2
<1>17. g.free[d] # << >> /\ Head(g.free[d])[1] = at
  <2>1. g.free[d] = list
    BY <1>2, <1>8, <1>12
  <2>2. 1 \in 1 .. n
    BY <1>40
  <2>3. list[1] = <<at, 1>>
    BY <1>8, <2>2
  <2>4. list # << >>
    <3>1. 1 \in DOMAIN list
      BY <1>8, <2>2
    <3> QED BY <3>1
  <2> QED BY <2>1, <2>3, <2>4
<1> QED BY <1>7, <1>12, <1>13, <1>14, <1>16, <1>17 DEF HeapBut

\* A large arena goes with its one block.
DropLargeCall(x, h, M, b, g) ==
    /\ HeapInv(x, h, M) /\ b \in h.held /\ h.arena[b[1]].large
    /\ g = [h EXCEPT !.arena = Without(h.arena, {b[1]}), !.held = h.held \ {b}]

Dropped(x, h, M, P, g) ==
    HeapInv(x, g, M \ P) /\ HeapPages(g.arena) = HeapPages(h.arena) \ P

LEMMA DropLargeFacts ==
    ASSUME NEW x, NEW h, NEW M, NEW b, NEW g, DropLargeCall(x, h, M, b, g)
    PROVE  Dropped(x, h, M, ArenaPages(h.arena, b[1]), g)
<1> USE DEF DropLargeCall
<1> DEFINE D == DOMAIN h.arena
<1>1. HeapBut(x, h, M, None)
  BY DEF HeapInv
<1>2. /\ h.arena \in Arenas /\ h.free \in [1 .. DescCnt -> Seq(Blocks)]
      /\ h.held \in SUBSET Blocks
      /\ \A v, w \in D : v # w => ArenaPages(h.arena, v) \cap ArenaPages(h.arena, w) = {}
      /\ \A d : Own(h, d) \subseteq D
  BY <1>1, HeapFacts
<1>3. /\ h \in HeapRecords /\ ArenaInv(h, M) /\ OwnerInv(x, h) /\ ListsInv(h, None)
  BY <1>1 DEF HeapBut
<1>4. PICK v, ar, P, hd : /\ v = b[1] /\ ar = Without(h.arena, {v})
                          /\ P = ArenaPages(h.arena, v) /\ hd = h.held \ {b}
  OBVIOUS
<1>5. v \in D /\ h.arena[v].large /\ b[2] = 0
  BY <1>3, <1>4 DEF ArenaInv
<1>6. /\ ar \in Arenas /\ DOMAIN ar = D \ {v} /\ (\A w \in DOMAIN ar : ar[w] = h.arena[w])
      /\ (\A w \in DOMAIN ar : ArenaPages(ar, w) = ArenaPages(h.arena, w))
      /\ HeapPages(ar) = HeapPages(h.arena) \ P
  <2>1. Removed(h.arena, v, ar)
    BY <1>2, <1>4, <1>5 DEF Removed
  <2>2. Left(h.arena, v, ar)
    BY <2>1, WithoutFacts
  <2> QED BY <2>2, <1>4 DEF Left
<1>7. g = [h EXCEPT !.arena = ar, !.held = hd]
  BY <1>4
<1>8. hd \in SUBSET Blocks
  BY <1>2, <1>4
<1>9. g \in HeapRecords /\ g.arena = ar /\ g.held = hd /\ g.free = h.free
  BY <1>3, <1>6, <1>7, <1>8 DEF HeapRecords
<1>10. ASSUME NEW c \in hd PROVE c[1] \in D \ {v} /\ (h.arena[c[1]].large => c[2] = 0)
  <2>1. c[1] \in D /\ (h.arena[c[1]].large => c[2] = 0) /\ c # b /\ c \in Blocks /\ b \in Blocks
    BY <1>2, <1>3, <1>4, <1>10 DEF ArenaInv
  <2>2. c = <<c[1], c[2]>> /\ b = <<b[1], b[2]>>
    BY <2>1 DEF Blocks
  <2> QED BY <2>1, <2>2, <1>4, <1>5
<1>11. ArenaInv(g, M \ P)
  <2>1. ASSUME NEW w \in D \ {v}
        PROVE  ArenaPages(ar, w) \subseteq M \ P /\ (ar[w].large => ar[w].cnt >= 1)
    <3>1. ArenaPages(h.arena, w) \subseteq M /\ (h.arena[w].large => h.arena[w].cnt >= 1)
      BY <1>3 DEF ArenaInv
    <3>2. ArenaPages(h.arena, w) \cap P = {}
      BY <1>2, <1>4, <1>5
    <3> QED BY <3>1, <3>2, <1>6
  <2>2. \A w, u \in D \ {v} : w # u => ArenaPages(ar, w) \cap ArenaPages(ar, u) = {}
    BY <1>2, <1>6
  <2>3. \A c \in hd : c[1] \in D \ {v} /\ (ar[c[1]].large => c[2] = 0)
    BY <1>6, <1>10
  <2> QED BY <2>1, <2>2, <2>3, <1>6, <1>9 DEF ArenaInv
<1>12. OwnerInv(x, g)
  BY <1>3, <1>6, <1>9 DEF OwnerInv
<1>13. \A d : Own(g, d) = Own(h, d)
  BY <1>5, <1>6, <1>9 DEF Own
<1>14. ListsInv(g, None)
  <2> SUFFICES ASSUME NEW d \in 1 .. DescCnt
               PROVE  ListOk(g.free[d], g.held, g.arena, Own(g, d), BlocksPerArena(d), None)
    BY DEF ListsInv
  <2>1. ListOk(h.free[d], h.held, h.arena, Own(h, d), BlocksPerArena(d), None)
    BY <1>3 DEF ListsInv
  <2>0. v \notin Own(h, d) /\ Own(h, d) \subseteq D
    BY <1>5 DEF Own
  <2>2. \A c : c[1] \in Own(h, d) => (c \in hd <=> c \in h.held)
    BY <2>0, <1>4
  <2>3. \A w \in Own(h, d) : ar[w].cnt = h.arena[w].cnt
    BY <2>0, <1>6
  <2>4. ListOk(h.free[d], hd, ar, Own(h, d), BlocksPerArena(d), None)
    BY <2>1, <2>2, <2>3, ListFrame
  <2> QED BY <2>4, <1>9, <1>13
<1> QED BY <1>4, <1>6, <1>9, <1>11, <1>12, <1>14 DEF HeapInv, HeapBut, Dropped

\* A block goes back to the free list of its arena.
Give(h, b) ==
    LET d == h.arena[b[1]].desc
    IN  [h EXCEPT !.free = [h.free EXCEPT ![d] = Append(h.free[d], b)],
                  !.arena = [h.arena EXCEPT ![b[1]].cnt = h.arena[b[1]].cnt + 1],
                  !.held = h.held \ {b}]

GiveCall(x, h, M, b, d, g) ==
    /\ HeapInv(x, h, M) /\ b \in h.held /\ ~h.arena[b[1]].large /\ ~h.arena[b[1]].old
    /\ d = h.arena[b[1]].desc /\ g = Give(h, b)

Given(x, h, M, b, d, g) ==
    /\ HeapBut(x, g, M, b[1]) /\ HeapPages(g.arena) = HeapPages(h.arena)
    /\ h.arena[b[1]].cnt + 1 # BlocksPerArena(d) => HeapInv(x, g, M)
    /\ d \in 1 .. DescCnt /\ h.arena[b[1]].owner = x
    /\ b[1] \in Own(g, d) /\ g.arena[b[1]].cnt = h.arena[b[1]].cnt + 1
    /\ g.free = [h.free EXCEPT ![d] = Append(h.free[d], b)] /\ g.held = h.held \ {b}
    /\ g.arena = [h.arena EXCEPT ![b[1]].cnt = h.arena[b[1]].cnt + 1]
    /\ g \in HeapRecords

LEMMA GiveFacts ==
    ASSUME NEW x, NEW h, NEW M, NEW b, NEW d, NEW g, GiveCall(x, h, M, b, d, g)
    PROVE  Given(x, h, M, b, d, g)
<1> USE DEF GiveCall
<1>1. HeapBut(x, h, M, None)
  BY DEF HeapInv
<1>2. /\ h.arena \in Arenas /\ h.free \in [1 .. DescCnt -> Seq(Blocks)]
      /\ h.held \in SUBSET Blocks
      /\ \A e : Own(h, e) \in SUBSET Nat /\ None \notin Own(h, e) /\ Own(h, e) \subseteq DOMAIN h.arena
  BY <1>1, HeapFacts
<1>3. /\ h \in HeapRecords /\ ArenaInv(h, M) /\ OwnerInv(x, h) /\ ListsInv(h, None)
  BY <1>1 DEF HeapBut
<1>4. PICK list, ar, n, v, c, own : /\ list = h.free[d] /\ ar = h.arena /\ own = Own(h, d)
                               /\ n = BlocksPerArena(d) /\ v = b[1] /\ c = ar[v].cnt + 1
  OBVIOUS
<1>5. v \in DOMAIN ar /\ ar[v] \in ArenaRecords /\ ar[v].cnt \in Nat
  <2>1. v \in DOMAIN ar
    BY <1>3, <1>4 DEF ArenaInv
  <2> QED BY <2>1, <1>2, <1>4, ArenasFacts
<1>6. d \in 1 .. DescCnt /\ h.arena[b[1]].owner = x /\ v \in own /\ c \in Nat
  <2>1. d # 0 /\ h.arena[b[1]].owner = x
    BY <1>3, <1>4, <1>5 DEF OwnerInv
  <2>2. d \in 0 .. DescCnt
    BY <1>4, <1>5 DEF ArenaRecords
  <2>3. v \in own
    BY <1>4, <1>5 DEF Own
  <2>4. DescCnt \in Nat
    BY BlocksAssumption
  <2> QED BY <2>1, <2>2, <2>3, <2>4, <1>4, <1>5
<1>7. ListOk(list, h.held, ar, own, n, None) /\ list \in Seq(Blocks) /\ n \in Nat
  BY <1>2, <1>3, <1>4, <1>6, BlocksAssumption DEF ListsInv
<1>8. PICK ar2 : ar2 = [ar EXCEPT ![v].cnt = c]
  OBVIOUS
<1>9. Like(ar, ar2) /\ \A w \in DOMAIN ar : ar2[w].cnt = IF w = v THEN c ELSE ar[w].cnt
  <2>1. Recount(ar, v, c, ar2)
    BY <1>2, <1>4, <1>5, <1>6, <1>8 DEF Recount
  <2> QED BY <2>1, CountChanged
<1>10. PICK hd, fr, nl : /\ hd = h.held \ {b} /\ fr = [h.free EXCEPT ![d] = nl]
                         /\ nl = Append(list, b)
  BY Zenon
<1>11. /\ nl \in Seq(Blocks) /\ ListOk(nl, hd, ar2, own, n, v)
       /\ ar2[v].cnt # n => ListOk(nl, hd, ar2, own, n, None)
  <2>1. \A w \in own : ar2[w].cnt = IF w = b[1] THEN ar[w].cnt + 1 ELSE ar[w].cnt
    BY <1>2, <1>4, <1>9
  <2>2. None \notin own /\ b[1] \in own /\ h.held \in SUBSET Blocks
    BY <1>2, <1>4, <1>6
  <2> HIDE DEF Give
  <2>3. /\ Append(list, b) \in Seq(Blocks)
        /\ ListOk(Append(list, b), h.held \ {b}, ar2, own, n, b[1])
        /\ ar2[b[1]].cnt # n => ListOk(Append(list, b), h.held \ {b}, ar2, own, n, None)
    BY <2>1, <2>2, <1>7, ListPush
  <2> QED BY <2>3, <1>4, <1>10, Zenon
<1>12. hd \in SUBSET Blocks /\ fr \in [1 .. DescCnt -> Seq(Blocks)] /\ ar2 \in Arenas
  BY <1>2, <1>9, <1>10, <1>11, Zenon DEF Like
<1>13. g = [h EXCEPT !.free = fr, !.arena = ar2, !.held = hd]
  BY <1>4, <1>8, <1>10, Zenon DEF Give
<1>14. g \in HeapRecords /\ g.arena = ar2 /\ g.held = hd /\ g.free = fr
  BY <1>3, <1>12, <1>13 DEF HeapRecords
<1>15. /\ ArenaInv(g, M) /\ OwnerInv(x, g) /\ HeapPages(g.arena) = HeapPages(h.arena)
       /\ \A e : Own(g, e) = Own(h, e)
  <2>1. \A e \in g.held : e[1] \in DOMAIN h.arena /\ (h.arena[e[1]].large => e[2] = 0)
    BY <1>3, <1>10, <1>14 DEF ArenaInv
  <2>2. Like(h.arena, g.arena)
    BY <1>4, <1>9, <1>14
  <2> QED BY <2>1, <2>2, <1>1, <1>14, LikeHeaps
<1>16. ASSUME NEW z, z = v \/ (z = None /\ ar2[v].cnt # n)
       PROVE  ListsInv(g, z)
  <2> SUFFICES ASSUME NEW e \in 1 .. DescCnt
               PROVE  ListOk(g.free[e], g.held, g.arena, Own(g, e), BlocksPerArena(e), z)
    BY DEF ListsInv
  <2>1. CASE e = d
    <3>1. g.free[e] = nl
      BY <2>1, <1>2, <1>10, <1>14
    <3>2. ListOk(nl, hd, ar2, own, n, z)
      BY <1>11, <1>16
    <3> QED BY <3>1, <3>2, <2>1, <1>4, <1>14, <1>15
  <2>2. CASE e # d
    <3>1. ListOk(h.free[e], h.held, h.arena, Own(h, e), BlocksPerArena(e), None)
      BY <1>3 DEF ListsInv
    <3>2. b[1] \notin Own(h, e)
      BY <2>2 DEF Own
    <3>3. \A e2 : e2[1] \in Own(h, e) => (e2 \in hd <=> e2 \in h.held)
      BY <3>2, <1>10
    <3>4. \A w \in Own(h, e) : ar2[w].cnt = h.arena[w].cnt
      BY <3>2, <1>2, <1>4, <1>9
    <3>5. \A w \in Own(h, e) : w # z => w # None
      BY <1>2
    <3>6. ListOk(h.free[e], hd, ar2, Own(h, e), BlocksPerArena(e), z)
      BY <3>1, <3>3, <3>4, <3>5, ListFrame
    <3>7. g.free[e] = h.free[e]
      BY <2>2, <1>2, <1>10, <1>14
    <3> QED BY <3>6, <3>7, <1>14, <1>15
  <2> QED BY <2>1, <2>2
<1>17. HeapBut(x, g, M, v)
  BY <1>14, <1>15, <1>16 DEF HeapBut
<1>18. ar2[v].cnt = c
  BY <1>5, <1>9
<1>19. c # n => HeapInv(x, g, M)
  BY <1>14, <1>15, <1>16, <1>18 DEF HeapInv, HeapBut
<1> QED BY <1>4, <1>6, <1>8, <1>10, <1>14, <1>15, <1>17, <1>18, <1>19, Zenon DEF Given

\* An arena that is all free leaves the list and the heap.
DropCall(x, h, M, v, d, g) ==
    /\ HeapBut(x, h, M, v) /\ d \in 1 .. DescCnt
    /\ v \in Own(h, d) /\ h.arena[v].cnt = BlocksPerArena(d)
    /\ g = [h EXCEPT !.free = [h.free EXCEPT ![d] = Collect(h.free[d], v, BlocksPerArena(d))],
                     !.arena = Without(h.arena, {v})]

LEMMA DropFacts ==
    ASSUME NEW x, NEW h, NEW M, NEW v, NEW d, NEW g, DropCall(x, h, M, v, d, g)
    PROVE  /\ HeapInv(x, g, M \ {v}) /\ HeapPages(g.arena) = HeapPages(h.arena) \ {v}
           /\ \A k \in 1 .. BlocksPerArena(d) : <<v, k>> \in Range(h.free[d])
<1> USE DEF DropCall
<1> DEFINE D == DOMAIN h.arena
<1>2. /\ h.arena \in Arenas /\ h.free \in [1 .. DescCnt -> Seq(Blocks)]
      /\ h.held \in SUBSET Blocks
      /\ \A u, w \in D : u # w => ArenaPages(h.arena, u) \cap ArenaPages(h.arena, w) = {}
      /\ \A e : Own(h, e) \in SUBSET Nat /\ None \notin Own(h, e) /\ Own(h, e) \subseteq D
  BY HeapFacts
<1>3. /\ h \in HeapRecords /\ ArenaInv(h, M) /\ OwnerInv(x, h) /\ ListsInv(h, v)
  BY DEF HeapBut
<1>4. PICK ar, n, list, nl, own, fr : /\ ar = Without(h.arena, {v}) /\ n = BlocksPerArena(d)
                         /\ list = h.free[d] /\ nl = Collect(list, v, n)
                         /\ own = Own(h, d) /\ fr = [h.free EXCEPT ![d] = nl]
  OBVIOUS
<1>5. v \in D /\ ~h.arena[v].large /\ h.arena[v].desc = d /\ v \in Nat
  BY <1>2 DEF Own
<1>50. ArenaPages(h.arena, v) = {v}
  <2>1. ArenaPages(h.arena, v) = v .. v + 1 - 1
    BY <1>5 DEF ArenaPages
  <2> QED BY <2>1, <1>5
<1>6. /\ ar \in Arenas /\ DOMAIN ar = D \ {v} /\ (\A w \in DOMAIN ar : ar[w] = h.arena[w])
      /\ (\A w \in DOMAIN ar : ArenaPages(ar, w) = ArenaPages(h.arena, w))
      /\ HeapPages(ar) = HeapPages(h.arena) \ {v}
  <2>1. Removed(h.arena, v, ar)
    BY <1>2, <1>4, <1>5 DEF Removed
  <2>2. Left(h.arena, v, ar)
    BY <2>1, WithoutFacts
  <2> QED BY <2>2, <1>50, <1>4 DEF Left
<1>7. /\ \A k \in 1 .. n : <<v, k>> \in Range(list)
      /\ \A b \in h.held : b[1] # v
      /\ nl \in Seq(Blocks) /\ ListOk(nl, h.held, ar, own \ {v}, n, None)
  <2>1. ListOk(list, h.held, h.arena, own, n, v) /\ list \in Seq(Blocks) /\ n \in Nat
    BY <1>2, <1>3, <1>4, BlocksAssumption DEF ListsInv
  <2>2. own \in SUBSET Nat /\ v \in own /\ h.arena[v].cnt = n
    BY <1>2, <1>4
  <2>3. \A w \in own : w # v => ar[w].cnt = h.arena[w].cnt
    BY <1>2, <1>4, <1>6
  <2>4. PICK hd, old : hd = h.held /\ old = h.arena
    OBVIOUS
  <2>5. /\ ListOk(list, hd, old, own, n, v) /\ old[v].cnt = n
        /\ \A w \in own : w # v => ar[w].cnt = old[w].cnt
    BY <2>1, <2>2, <2>3, <2>4
  <2>6. /\ \A k \in 1 .. n : <<v, k>> \in Range(list)
        /\ \A b \in hd : b[1] # v
        /\ Collect(list, v, n) \in Seq(Blocks)
        /\ ListOk(Collect(list, v, n), hd, ar, own \ {v}, n, None)
    BY <2>1, <2>2, <2>5, ListDrop
  <2> QED BY <2>4, <2>6, <1>4
<1>8. fr \in [1 .. DescCnt -> Seq(Blocks)] /\ g = [h EXCEPT !.free = fr, !.arena = ar]
  BY <1>2, <1>4, <1>7
<1>9. g \in HeapRecords /\ g.arena = ar /\ g.held = h.held /\ g.free = fr
  BY <1>3, <1>6, <1>8 DEF HeapRecords
<1>11. ArenaInv(g, M \ {v})
  <2>1. ASSUME NEW w \in D \ {v}
        PROVE  ArenaPages(ar, w) \subseteq M \ {v} /\ (ar[w].large => ar[w].cnt >= 1)
    <3>1. ArenaPages(h.arena, w) \subseteq M /\ (h.arena[w].large => h.arena[w].cnt >= 1)
      BY <1>3 DEF ArenaInv
    <3>2. ArenaPages(h.arena, w) \cap {v} = {}
      BY <1>2, <1>5, <1>50
    <3> QED BY <3>1, <3>2, <1>6
  <2>2. \A w, u \in D \ {v} : w # u => ArenaPages(ar, w) \cap ArenaPages(ar, u) = {}
    BY <1>2, <1>6
  <2>3. ASSUME NEW c \in h.held PROVE c[1] \in D \ {v} /\ (ar[c[1]].large => c[2] = 0)
    <3>1. c[1] \in D /\ (h.arena[c[1]].large => c[2] = 0)
      BY <1>3 DEF ArenaInv
    <3> QED BY <3>1, <1>6, <1>7
  <2> QED BY <2>1, <2>2, <2>3, <1>6, <1>9 DEF ArenaInv
<1>12. OwnerInv(x, g)
  BY <1>3, <1>6, <1>9 DEF OwnerInv
<1>13. Own(g, d) = own \ {v} /\ \A e : e # d => Own(g, e) = Own(h, e)
  <2>1. ASSUME NEW e, NEW w PROVE w \in Own(g, e) <=> w \in Own(h, e) /\ w # v
    BY <1>6, <1>9 DEF Own
  <2>2. \A e : e # d => v \notin Own(h, e)
    BY <1>5 DEF Own
  <2>3. \A e : Own(g, e) = Own(h, e) \ {v}
    BY <2>1
  <2> QED BY <2>2, <2>3, <1>4
<1>14. ListsInv(g, None)
  <2> SUFFICES ASSUME NEW e \in 1 .. DescCnt
               PROVE  ListOk(g.free[e], g.held, g.arena, Own(g, e), BlocksPerArena(e), None)
    BY DEF ListsInv
  <2>1. CASE e = d
    <3>1. g.free[e] = nl
      BY <2>1, <1>2, <1>4, <1>9
    <3> QED BY <3>1, <2>1, <1>4, <1>7, <1>9, <1>13
  <2>2. CASE e # d
    <3>1. ListOk(h.free[e], h.held, h.arena, Own(h, e), BlocksPerArena(e), v)
      BY <1>3 DEF ListsInv
    <3>2. v \notin Own(h, e)
      BY <2>2, <1>5 DEF Own
    <3>3. \A w \in Own(h, e) : ar[w].cnt = h.arena[w].cnt
      BY <3>2, <1>2, <1>6
    <3>4. \A w \in Own(h, e) : w # None => w # v
      BY <3>2
    <3>5. \A c : c[1] \in Own(h, e) => (c \in h.held <=> c \in h.held)
      OBVIOUS
    <3>6. ListOk(h.free[e], h.held, ar, Own(h, e), BlocksPerArena(e), None)
      BY <3>1, <3>3, <3>4, <3>5, ListFrame
    <3>7. g.free[e] = h.free[e]
      BY <2>2, <1>2, <1>4, <1>9
    <3> QED BY <3>6, <3>7, <2>2, <1>9, <1>13
  <2> QED BY <2>1, <2>2
<1> QED BY <1>4, <1>6, <1>7, <1>9, <1>11, <1>12, <1>14 DEF HeapInv, HeapBut

\* What fork gives the child: the parent's arenas, old, and empty free lists.
LEMMA ForkedHeap ==
    ASSUME NEW x, NEW h, NEW M, HeapInv(x, h, M), NEW c, NEW g,
           g = [EmptyHeap EXCEPT
                  !.arena = [v \in DOMAIN h.arena |-> [h.arena[v] EXCEPT !.old = TRUE]],
                  !.held = h.held]
    PROVE  HeapInv(c, g, M) /\ g \in HeapRecords
<1> DEFINE D == DOMAIN h.arena
<1>1. HeapBut(x, h, M, None)
  BY DEF HeapInv
<1>2. /\ h.arena \in Arenas /\ h.held \in SUBSET Blocks
      /\ \A u, w \in D : u # w => ArenaPages(h.arena, u) \cap ArenaPages(h.arena, w) = {}
  BY <1>1, HeapFacts
<1>3. /\ h \in HeapRecords /\ ArenaInv(h, M)
  BY <1>1 DEF HeapBut
<1>4. PICK ar : ar = [v \in D |-> [h.arena[v] EXCEPT !.old = TRUE]]
  OBVIOUS
<1>5. D \in SUBSET Nat /\ \A v \in D : h.arena[v] \in ArenaRecords
  BY <1>2, ArenasFacts
<1>6. ASSUME NEW v \in D
      PROVE  /\ ar[v] \in ArenaRecords /\ ar[v].old /\ ar[v].large = h.arena[v].large
             /\ ar[v].cnt = h.arena[v].cnt
  <2>1. ar[v] = [h.arena[v] EXCEPT !.old = TRUE]
    BY <1>4
  <2> QED BY <2>1, <1>5 DEF ArenaRecords
<1>7. ar \in Arenas /\ DOMAIN ar = D
  <2>1. DOMAIN ar = D /\ ar = [v \in DOMAIN ar |-> ar[v]]
    BY <1>4
  <2> QED BY <2>1, <1>5, <1>6, ArenasType
<1>8. \A v \in D : ArenaPages(ar, v) = ArenaPages(h.arena, v)
  BY <1>6 DEF ArenaPages
<1>9. /\ EmptyHeap \in HeapRecords /\ \A d \in 1 .. DescCnt : EmptyHeap.free[d] = << >>
  BY HeapEmpty DEF EmptyHeap
<1>10. g = [EmptyHeap EXCEPT !.arena = ar, !.held = h.held]
  BY <1>4
<1>11. g \in HeapRecords /\ g.arena = ar /\ g.held = h.held /\ g.free = EmptyHeap.free
  BY <1>2, <1>7, <1>9, <1>10, Zenon DEF HeapRecords
<1>12. ArenaInv(g, M)
  BY <1>3, <1>6, <1>7, <1>8, <1>11 DEF ArenaInv
<1>13. OwnerInv(c, g)
  BY <1>6, <1>7, <1>11 DEF OwnerInv
<1>14. \A d : Own(g, d) = {}
  BY <1>6, <1>7, <1>11 DEF Own
<1>15. ListsInv(g, None)
  <2> SUFFICES ASSUME NEW d \in 1 .. DescCnt
               PROVE  ListOk(g.free[d], g.held, g.arena, Own(g, d), BlocksPerArena(d), None)
    BY Zenon DEF ListsInv
  <2>1. g.free[d] = << >> /\ Own(g, d) = {}
    BY <1>9, <1>11, <1>14, Zenon
  <2>2. IsInjective(<< >>) /\ Range(<< >>) = {}
    BY DEF IsInjective, Range
  <2> QED BY <2>1, <2>2, Zenon DEF ListOk
<1> QED BY <1>11, <1>12, <1>13, <1>15 DEF HeapInv, HeapBut

-----------------------------------------------------------------------------
\* The steps

\* Heap x becomes g, and the other heaps keep their pages.
HeapStep(hs, m, ps, lost, x, g, hs2, m2, ps2, lost2) ==
    /\ HeapsInv(hs, m, ps, lost) /\ x \in Owners
    /\ g \in HeapRecords /\ HeapInv(x, g, Area(x, m2, ps2))
    /\ \A y \in Owners : y # x => Area(y, m, ps) \subseteq Area(y, m2, ps2)
    /\ hs2 = [hs EXCEPT ![x] = g]
    /\ Cardinality(Area(Kernel, m2, ps2) \ HeapPages(hs2[Kernel].arena)) = lost2

LEMMA HeapStepFacts ==
    ASSUME NEW hs, NEW m, NEW ps, NEW lost, NEW x, NEW g, NEW hs2, NEW m2, NEW ps2, NEW lost2,
           HeapStep(hs, m, ps, lost, x, g, hs2, m2, ps2, lost2)
    PROVE  HeapsInv(hs2, m2, ps2, lost2)
<1> USE DEF HeapStep
<1>1. hs \in [Owners -> HeapRecords] /\ \A y \in Owners : HeapInv(y, hs[y], Area(y, m, ps))
  BY DEF HeapsInv
<1>2. hs2 \in [Owners -> HeapRecords] /\ hs2[x] = g /\ \A y \in Owners : y # x => hs2[y] = hs[y]
  BY <1>1
<1>3. ASSUME NEW y \in Owners PROVE HeapInv(y, hs2[y], Area(y, m2, ps2))
  <2>1. CASE y = x
    BY <2>1, <1>2
  <2>2. CASE y # x
    <3>1. HeapBut(y, hs[y], Area(y, m, ps), None) /\ Area(y, m, ps) \subseteq Area(y, m2, ps2)
      BY <2>2, <1>1 DEF HeapInv
    <3>2. HeapBut(y, hs[y], Area(y, m2, ps2), None)
      BY <3>1, HeapGrow
    <3> QED BY <3>2, <2>2, <1>2 DEF HeapInv
  <2> QED BY <2>1, <2>2
<1> QED BY <1>2, <1>3 DEF HeapsInv

\* A call of malloc or free by x: what it adds to the pages of x, or takes from
\* them, it adds to the heap or takes from it.
CallStep(x, g, m2, ps2) ==
    /\ HeapsInv(heap, mem, proc, Losses(count)) /\ x \in Owners
    /\ OthersKeep(x, mem, proc, m2, ps2)
    /\ HeapInv(x, g, Area(x, m2, ps2))
    /\ Area(x, m2, ps2) \ HeapPages(g.arena) =
         Area(x, mem, proc) \ HeapPages(heap[x].arena)

LEMMA CallStepFacts ==
    ASSUME NEW x, NEW g, NEW m2, NEW ps2, CallStep(x, g, m2, ps2)
    PROVE  HeapsInv([heap EXCEPT ![x] = g], m2, ps2, Losses(count))
<1> USE DEF CallStep
<1>1. PICK hs2, lost : hs2 = [heap EXCEPT ![x] = g] /\ lost = Losses(count)
  OBVIOUS
<1>2. /\ heap \in [Owners -> HeapRecords]
      /\ Cardinality(Area(Kernel, mem, proc) \ HeapPages(heap[Kernel].arena)) = lost
  BY <1>1 DEF HeapsInv
<1>3. Kernel \in Owners
  BY DEF Owners
<1>4. Area(Kernel, m2, ps2) \ HeapPages(hs2[Kernel].arena) =
        Area(Kernel, mem, proc) \ HeapPages(heap[Kernel].arena)
  <2>1. CASE x = Kernel
    <3>1. hs2[x] = g
      BY <1>1, <1>2
    <3> QED BY <3>1, <2>1
  <2>2. CASE x # Kernel
    <3>1. hs2[Kernel] = heap[Kernel] /\ Area(Kernel, m2, ps2) = Area(Kernel, mem, proc)
      BY <2>2, <1>1, <1>2, <1>3 DEF OthersKeep
    <3> QED BY <3>1
  <2> QED BY <2>1, <2>2
<1>5. g \in HeapRecords
  BY DEF HeapInv, HeapBut
<1>6. \A y \in Owners : y # x => Area(y, mem, proc) \subseteq Area(y, m2, ps2)
  BY DEF OthersKeep
<1>7. HeapStep(heap, mem, proc, lost, x, g, hs2, m2, ps2, lost)
  BY <1>1, <1>2, <1>4, <1>5, <1>6 DEF HeapStep
<1> QED BY <1>1, <1>7, HeapStepFacts

\* The invariant in a running machine, and in one that stopped.
LEMMA InvRunning ==
    ASSUME MemoryInv, Running
    PROVE  /\ MachineInv(mem, proc) /\ HeapsInv(heap, mem, proc, Losses(count))
           /\ \A x \in Owners : HeapInv(x, heap[x], Area(x, mem, proc))
           /\ heap \in [Owners -> HeapRecords]
           /\ count \in [mallocs : Nat, forks : Nat, failed : Nat, exits : Nat]
  BY DEF MemoryInv, Running, HeapsInv

LEMMA InvStopped ==
    ASSUME MemoryInv, mem'.halt \in Stops, UNCHANGED <<scan, boot>>,
           count' \in [mallocs : Nat, forks : Nat, failed : Nat, exits : Nat]
    PROVE  MemoryInv'
<1>1. mem'.halt # "no"
  BY DEF Stops
<1> QED BY <1>1 DEF MemoryInv

LEMMA InvFull ==
    ASSUME MemoryInv, mem'.halt = "full", UNCHANGED <<scan, boot>>,
           count' \in [mallocs : Nat, forks : Nat, failed : Nat, exits : Nat]
    PROVE  MemoryInv'
<1>1. mem'.halt \in Stops
  BY DEF Stops
<1> QED BY <1>1, InvStopped

\* The descriptor of a request.
LEMMA FittingFacts ==
    ASSUME NEW size, size <= MaxBlock, size \in Sizes
    PROVE  Fitting(size) \in 1 .. DescCnt
<1> DEFINE S == {d \in 1 .. DescCnt : size <= BlockSize(d)}
<1>1. DescCnt \in 1 .. DescCnt /\ 1 .. DescCnt \subseteq Nat
  BY BlocksAssumption
<1>2. S \in SUBSET Nat /\ S # {}
  BY <1>1 DEF MaxBlock
<1>3. Least(S) \in S
  BY <1>2, LeastFacts
<1> QED BY <1>3 DEF Fitting

LEMMA LargePages ==
    ASSUME NEW size \in Sizes, size > 0
    PROVE  PagesFor(size) \in Nat \ {0}
<1>1. size \in Nat \ {0} /\ ArenaSize \in Nat \ {0} /\ PgSize \in Nat \ {0}
  BY BlocksAssumption, ArenaAssumption
<1>2. PICK e : e = size + ArenaSize + PgSize - 1
  OBVIOUS
<1>3. e \in Nat /\ e >= PgSize
  BY <1>1, <1>2
<1>4. ASSUME NEW a \in Nat, NEW b \in Nat \ {0}, a >= b PROVE a \div b \in Nat /\ a \div b >= 1
  BY <1>4
<1> QED BY <1>1, <1>2, <1>3, <1>4 DEF PagesFor

\* malloc of more than a block: n pages and the header on the first of them.
LEMMA MallocLargeStep ==
    ASSUME MemoryInv, Running, NEW x \in Owners, Live(x), NEW size \in Sizes,
           MallocLarge(x, size), UNCHANGED <<scan, boot>>,
           count' = [count EXCEPT !.mallocs = @ + 1]
    PROVE  MemoryInv'
<1> DEFINE n == PagesFor(size)
<1>1. /\ MachineInv(mem, proc) /\ HeapsInv(heap, mem, proc, Losses(count))
      /\ HeapInv(x, heap[x], Area(x, mem, proc)) /\ heap \in [Owners -> HeapRecords]
      /\ count \in [mallocs : Nat, forks : Nat, failed : Nat, exits : Nat]
  BY InvRunning
<1>2. n \in Nat \ {0} /\ Admissible(x, size)
  BY LargePages DEF MallocLarge, Admissible
<1>3. PICK r : r = MallocPage(x, n)
  OBVIOUS
<1>4. /\ mem' = r.m /\ proc' = r.ps
      /\ heap' = IF r.m.halt # "no" \/ r.at = None THEN heap
                 ELSE [heap EXCEPT ![x] = AddLarge(heap[x], x, r.at, n)]
  BY <1>3 DEF MallocLarge
<1>9. n >= PageLimit => "page count" \in Stops
  BY <1>2 DEF Stops, Oversized
<1> HIDE DEF n
<1>5. /\ count' \in [mallocs : Nat, forks : Nat, failed : Nat, exits : Nat]
      /\ Losses(count') = Losses(count)
  BY <1>1 DEF Losses
<1>6. CASE r.m.halt = "full"
  BY <1>4, <1>5, <1>6, InvFull
<1>10. CASE r.m.halt = "page count" /\ n >= PageLimit
  BY <1>4, <1>5, <1>9, <1>10, InvStopped
<1>7. CASE r.m = mem /\ r.ps = proc /\ r.at = None
  <2>1. mem' = mem /\ proc' = proc /\ heap' = heap
    BY <1>4, <1>7
  <2> QED BY <2>1, <1>1, <1>5 DEF MemoryInv, Running
<1>8. CASE /\ MachineInv(r.m, r.ps) /\ r.at \in Nat
           /\ (r.at .. r.at + n - 1) \cap Area(x, mem, proc) = {}
           /\ Area(x, r.m, r.ps) = Area(x, mem, proc) \cup (r.at .. r.at + n - 1)
           /\ OthersKeep(x, mem, proc, r.m, r.ps)
  <2>1. PICK at, P, M, h, g : /\ at = r.at /\ P = at .. at + n - 1 /\ M = Area(x, mem, proc)
                              /\ h = heap[x] /\ g = AddLarge(h, x, at, n)
    OBVIOUS
  <2>2. at \in Nat /\ HeapInv(x, h, M) /\ P \cap M = {} /\ P = at .. at + n - 1
    BY <2>1, <1>1, <1>8
  <2>3. HeapInv(x, g, M \cup P) /\ HeapPages(g.arena) = HeapPages(h.arena) \cup P
    <3>1. LargeCall(x, h, M, at, n, P, g)
      BY <2>1, <2>2, <1>2 DEF LargeCall
    <3> QED BY <3>1, AddLargeFacts
  <2>4. Area(x, r.m, r.ps) = M \cup P
    BY <2>1, <1>8
  <2>5. HeapPages(h.arena) \subseteq M
    BY <2>2, HeapFacts DEF HeapInv
  <2>6. Area(x, r.m, r.ps) \ HeapPages(g.arena) = M \ HeapPages(h.arena)
    BY <2>2, <2>3, <2>4, <2>5
  <2>7. CallStep(x, g, r.m, r.ps)
    BY <2>1, <2>3, <2>4, <2>6, <1>1, <1>8 DEF CallStep
  <2>8. HeapsInv([heap EXCEPT ![x] = g], r.m, r.ps, Losses(count))
    BY <2>7, CallStepFacts
  <2>9. r.m.halt = "no" /\ r.at # None
    BY <1>8 DEF MachineInv, None
  <2>10. heap' = [heap EXCEPT ![x] = g]
    BY <2>1, <2>9, <1>4
  <2> QED BY <2>8, <2>9, <2>10, <1>4, <1>5, <1>8 DEF MemoryInv
<1> QED BY <1>1, <1>2, <1>3, <1>6, <1>7, <1>8, <1>10, MallocPageFacts

\* malloc of a block: from the free list, or from a new arena.
LEMMA MallocBlockStep ==
    ASSUME MemoryInv, Running, NEW x \in Owners, Live(x), NEW size \in Sizes,
           MallocBlock(x, size), UNCHANGED <<scan, boot>>,
           count' = [count EXCEPT !.mallocs = @ + 1]
    PROVE  MemoryInv'
<1>1. /\ MachineInv(mem, proc) /\ HeapsInv(heap, mem, proc, Losses(count))
      /\ HeapInv(x, heap[x], Area(x, mem, proc)) /\ heap \in [Owners -> HeapRecords]
      /\ count \in [mallocs : Nat, forks : Nat, failed : Nat, exits : Nat]
  BY InvRunning
<1>2. PICK d \in 1 .. DescCnt : d = Fitting(size)
  BY FittingFacts DEF MallocBlock
<1>3. PICK r, h, M : r = MallocPage(x, 1) /\ h = heap[x] /\ M = Area(x, mem, proc)
  OBVIOUS
<1>4. \/ /\ h.free[d] # << >>
         /\ heap' = [heap EXCEPT ![x] = Pop(h, d)]
         /\ UNCHANGED <<mem, proc>>
      \/ /\ h.free[d] = << >> /\ mem' = r.m /\ proc' = r.ps
         /\ heap' = IF r.m.halt # "no" THEN heap
                    ELSE [heap EXCEPT ![x] = Pop(AddBlocks(h, x, r.at, d), d)]
  BY <1>2, <1>3 DEF MallocBlock
<1>5. /\ count' \in [mallocs : Nat, forks : Nat, failed : Nat, exits : Nat]
      /\ Losses(count') = Losses(count)
  BY <1>1 DEF Losses
<1>6. HeapBut(x, h, M, None)
  BY <1>1, <1>3 DEF HeapInv
<1>7. CASE /\ h.free[d] # << >>
           /\ heap' = [heap EXCEPT ![x] = Pop(h, d)]
           /\ UNCHANGED <<mem, proc>>
  <2>1. PICK g : g = Pop(h, d)
    OBVIOUS
  <2>2. HeapInv(x, g, M) /\ HeapPages(g.arena) = HeapPages(h.arena)
    <3>1. None \in {None, Head(h.free[d])[1]}
      OBVIOUS
    <3> QED BY <3>1, <2>1, <1>6, <1>7, PopFacts
  <2>3. CallStep(x, g, mem, proc)
    BY <2>2, <1>1, <1>3 DEF CallStep, OthersKeep
  <2>4. HeapsInv([heap EXCEPT ![x] = g], mem, proc, Losses(count))
    BY <2>3, CallStepFacts
  <2> QED BY <2>1, <2>4, <1>1, <1>5, <1>7 DEF MemoryInv, Running
<1>8. ASSUME h.free[d] = << >>, mem' = r.m, proc' = r.ps,
             heap' = IF r.m.halt # "no" THEN heap
                     ELSE [heap EXCEPT ![x] = Pop(AddBlocks(h, x, r.at, d), d)]
      PROVE  MemoryInv'
  <2>1. CASE r.m.halt = "full"
    BY <2>1, <1>5, <1>8, InvFull
  <2>2. CASE /\ MachineInv(r.m, r.ps) /\ r.at \in Nat
             /\ (r.at .. r.at + 1 - 1) \cap Area(x, mem, proc) = {}
             /\ Area(x, r.m, r.ps) = Area(x, mem, proc) \cup (r.at .. r.at + 1 - 1)
             /\ OthersKeep(x, mem, proc, r.m, r.ps)
    <3>1. PICK at, g, k, M2 : /\ at = r.at /\ g = AddBlocks(h, x, at, d) /\ k = Pop(g, d)
                              /\ M2 = M \cup {at}
      OBVIOUS
    <3>2. at .. at + 1 - 1 = {at} /\ at \in Nat
      BY <3>1, <2>2
    <3>3. at \notin M /\ Area(x, r.m, r.ps) = M2
      BY <3>1, <3>2, <2>2, <1>3
    <3>4. /\ HeapBut(x, g, M \cup {at}, at)
          /\ HeapPages(g.arena) = HeapPages(h.arena) \cup {at}
          /\ g.free[d] # << >> /\ Head(g.free[d])[1] = at
      <4>1. HeapInv(x, h, M)
        BY <1>1, <1>3
      <4>2. BlocksCall(x, h, M, d, at, g)
        BY <4>1, <3>1, <3>2, <3>3, <1>8 DEF BlocksCall
      <4>3. BlocksAdded(x, h, M, d, at, g)
        BY <4>2, AddBlocksFacts
      <4> QED BY <4>3 DEF BlocksAdded
    <3>5. HeapInv(x, k, M2) /\ HeapPages(k.arena) = HeapPages(g.arena)
      <4>1. HeapBut(x, g, M2, at) /\ at \in {None, Head(g.free[d])[1]}
        BY <3>1, <3>4
      <4> QED BY <4>1, <3>1, <3>4, PopFacts
    <3>6. HeapPages(h.arena) \subseteq M
      BY <1>6, HeapFacts
    <3>7. Area(x, r.m, r.ps) \ HeapPages(k.arena) = M \ HeapPages(h.arena)
      BY <3>1, <3>3, <3>4, <3>5, <3>6
    <3>8. CallStep(x, k, r.m, r.ps)
      BY <3>3, <3>5, <3>7, <2>2, <1>1, <1>3 DEF CallStep
    <3>9. HeapsInv([heap EXCEPT ![x] = k], r.m, r.ps, Losses(count))
      BY <3>8, CallStepFacts
    <3>10. r.m.halt = "no"
      BY <2>2 DEF MachineInv
    <3>11. heap' = [heap EXCEPT ![x] = k]
      BY <3>1, <3>10, <1>8
    <3> QED BY <3>9, <3>10, <3>11, <2>2, <1>5, <1>8 DEF MemoryInv
  <2>3. 1 \in Nat \ {0} /\ ~(1 # 1) /\ ~(1 >= PageLimit)
    BY LimitAssumption
  <2> QED BY <2>1, <2>2, <2>3, <1>1, <1>3, MallocPageFacts
<1> QED BY <1>4, <1>7, <1>8

\* malloc of too much or of nothing changes only the number of calls.
LEMMA MallocRefusedStep ==
    ASSUME MemoryInv, UNCHANGED <<mem, proc, heap, scan, boot>>,
           count' = [count EXCEPT !.mallocs = @ + 1]
    PROVE  MemoryInv'
<1>1. /\ count' \in [mallocs : Nat, forks : Nat, failed : Nat, exits : Nat]
      /\ Losses(count') = Losses(count)
  BY DEF MemoryInv, Losses
<1> QED BY <1>1 DEF MemoryInv

LEMMA SysMallocStep ==
    ASSUME MemoryInv, NEW x \in Owners, SysMalloc(x)
    PROVE  MemoryInv'
<1>1. PICK size \in Sizes :
        MallocRefused(x, size) \/ MallocLarge(x, size) \/ MallocBlock(x, size)
  BY DEF SysMalloc
<1>2. Running /\ Live(x) /\ UNCHANGED <<scan, boot>> /\ count' = [count EXCEPT !.mallocs = @ + 1]
  BY DEF SysMalloc
<1>3. CASE MallocRefused(x, size)
  BY <1>2, <1>3, MallocRefusedStep DEF MallocRefused
<1> QED BY <1>1, <1>2, <1>3, MallocLargeStep, MallocBlockStep

\* free of a large arena: its pages go.
LEMMA FreeLargeStep ==
    ASSUME MemoryInv, Running, NEW x \in Owners, Live(x), NEW b \in heap[x].held,
           FreeLarge(x, b), UNCHANGED <<scan, boot, count>>
    PROVE  MemoryInv'
<1>1. /\ MachineInv(mem, proc) /\ HeapsInv(heap, mem, proc, Losses(count))
      /\ HeapInv(x, heap[x], Area(x, mem, proc)) /\ heap \in [Owners -> HeapRecords]
      /\ count \in [mallocs : Nat, forks : Nat, failed : Nat, exits : Nat]
  BY InvRunning
<1>2. PICK h, M, v, n, r, g, P :
        /\ h = heap[x] /\ M = Area(x, mem, proc) /\ v = b[1] /\ n = h.arena[v].cnt
        /\ r = MfreePage(x, v, n) /\ P = ArenaPages(h.arena, v)
        /\ g = [h EXCEPT !.arena = Without(h.arena, {b[1]}), !.held = h.held \ {b}]
  BY Zenon
<1>3. /\ h.arena[v].large /\ mem' = r.m /\ proc' = r.ps
      /\ heap' = [heap EXCEPT ![x].arena = Without(@, {v}), ![x].held = @ \ {b}]
  BY <1>2 DEF FreeLarge
<1>4. heap' = [heap EXCEPT ![x] = g]
  <2>1. h \in HeapRecords
    BY <1>1, <1>2
  <2> QED BY <2>1, <1>1, <1>2, <1>3 DEF HeapRecords
<1>5. HeapInv(x, h, M) /\ HeapBut(x, h, M, None)
  BY <1>1, <1>2 DEF HeapInv
<1>6. v \in Nat /\ n \in Nat \ {0} /\ P = v .. v + n - 1 /\ P \subseteq M
      /\ P \subseteq HeapPages(h.arena) /\ HeapPages(h.arena) \subseteq M
  <2>1. ArenaInv(h, M)
    BY <1>5 DEF HeapBut
  <2>2. v \in DOMAIN h.arena
    BY <2>1, <1>2 DEF ArenaInv
  <2>3. v \in Nat /\ n \in Nat /\ HeapPages(h.arena) \subseteq M
    BY <2>2, <1>2, <1>5, HeapFacts, ArenasFacts
  <2>4. n >= 1 /\ P \subseteq M
    BY <2>1, <2>2, <1>2, <1>3 DEF ArenaInv
  <2>5. P = v .. v + n - 1
    BY <1>2, <1>3 DEF ArenaPages
  <2>6. P \subseteq HeapPages(h.arena)
    BY <2>2, <1>2 DEF HeapPages
  <2> QED BY <2>3, <2>4, <2>5, <2>6
<1>7. HeapInv(x, g, M \ P) /\ HeapPages(g.arena) = HeapPages(h.arena) \ P
  <2>1. DropLargeCall(x, h, M, b, g)
    BY <1>2, <1>3, <1>5 DEF DropLargeCall
  <2>2. Dropped(x, h, M, ArenaPages(h.arena, b[1]), g)
    BY <2>1, DropLargeFacts
  <2> QED BY <2>2, <1>2 DEF Dropped
<1>8. /\ MachineInv(r.m, r.ps) /\ Area(x, r.m, r.ps) = M \ P
      /\ OthersKeep(x, mem, proc, r.m, r.ps)
  <2>1. /\ v \in Int /\ v .. v + n - 1 \subseteq Area(x, mem, proc)
        /\ MachineInv(mem, proc) /\ n \in Nat \ {0} /\ r = MfreePage(x, v, n)
    BY <1>1, <1>2, <1>6
  <2>2. /\ MachineInv(r.m, r.ps)
        /\ Area(x, r.m, r.ps) = Area(x, mem, proc) \ (v .. v + n - 1)
        /\ OthersKeep(x, mem, proc, r.m, r.ps)
    BY <2>1, MfreePageFacts
  <2> QED BY <2>2, <1>2, <1>6, Zenon
<1>9. CallStep(x, g, r.m, r.ps)
  <2>1. Area(x, r.m, r.ps) \ HeapPages(g.arena) = M \ HeapPages(h.arena)
    BY <1>6, <1>7, <1>8
  <2> QED BY <2>1, <1>1, <1>2, <1>7, <1>8, Zenon DEF CallStep
<1>10. HeapsInv([heap EXCEPT ![x] = g], r.m, r.ps, Losses(count))
  BY <1>9, CallStepFacts
<1>11. r.m.halt = "no"
  BY <1>8 DEF MachineInv
<1> QED BY <1>1, <1>3, <1>4, <1>8, <1>10, <1>11 DEF MemoryInv

\* free of a block of x's own arena: the list it goes to is x's, and an arena that
\* is all free has all its blocks there.
LEMMA FreeBlockStep ==
    ASSUME MemoryInv, Running, NEW x \in Owners, Live(x), NEW b \in heap[x].held,
           ~heap[x].arena[b[1]].old, FreeBlock(x, b), UNCHANGED <<scan, boot, count>>
    PROVE  MemoryInv'
<1>1. /\ MachineInv(mem, proc) /\ HeapsInv(heap, mem, proc, Losses(count))
      /\ HeapInv(x, heap[x], Area(x, mem, proc)) /\ heap \in [Owners -> HeapRecords]
      /\ count \in [mallocs : Nat, forks : Nat, failed : Nat, exits : Nat]
  BY InvRunning
<1>2. PICK h, M, v, d, n, list, g :
        /\ h = heap[x] /\ M = Area(x, mem, proc) /\ v = b[1] /\ d = h.arena[v].desc
        /\ n = BlocksPerArena(d) /\ list = Append(h.free[d], b) /\ g = Give(h, b)
  BY Zenon
<1>20. ~h.arena[v].large
  BY <1>2, Zenon DEF FreeBlock
<1>3. /\ HeapBut(x, g, M, v) /\ HeapPages(g.arena) = HeapPages(h.arena)
      /\ h.arena[v].cnt + 1 # n => HeapInv(x, g, M)
      /\ d \in 1 .. DescCnt /\ h.arena[v].owner = x
      /\ v \in Own(g, d) /\ g.arena[v].cnt = h.arena[v].cnt + 1
      /\ g.free = [h.free EXCEPT ![d] = list] /\ g.held = h.held \ {b}
      /\ g.arena = [h.arena EXCEPT ![v].cnt = h.arena[v].cnt + 1]
      /\ g \in HeapRecords
  <2>1. GiveCall(x, h, M, b, d, g)
    BY <1>1, <1>2, <1>20, Zenon DEF GiveCall
  <2>2. Given(x, h, M, b, d, g)
    BY <2>1, GiveFacts
  <2> QED BY <2>2, <1>2, Zenon DEF Given
<1> DEFINE missing == {k \in 1 .. n : <<v, k>> \notin Range(list)}
           r == IF missing = {} THEN MfreePage(x, v, 1)
                ELSE [m |-> Halt(mem, "block not on the list"), ps |-> proc]
           given == [heap EXCEPT ![x].free[d] = list,
                                 ![x].arena[v].cnt = @ + 1,
                                 ![x].held = @ \ {b}]
<1>4. \/ /\ h.arena[v].cnt + 1 # n /\ heap' = given /\ UNCHANGED <<mem, proc>>
      \/ /\ h.arena[v].cnt + 1 = n /\ mem' = r.m /\ proc' = r.ps
         /\ heap' = [given EXCEPT ![x].free[d] = Collect(list, v, n),
                                  ![x].arena = Without(@, {v})]
  BY <1>2, <1>3, Zenon DEF FreeBlock
<1>5. h \in HeapRecords /\ h.free \in [1 .. DescCnt -> Seq(Blocks)] /\ x \in DOMAIN heap
  BY <1>1, <1>2, Zenon DEF HeapRecords
<1>6. given = [heap EXCEPT ![x] = g]
  <2>1. g = [h EXCEPT !.free = [h.free EXCEPT ![d] = list],
                      !.arena = [h.arena EXCEPT ![v].cnt = h.arena[v].cnt + 1],
                      !.held = h.held \ {b}]
    BY <1>2, Zenon DEF Give
  <2> QED BY <2>1, <1>1, <1>2, <1>5, Zenon DEF HeapRecords
<1>7. PICK hs, R : hs = given /\ R = r
  BY Zenon
<1>8. hs = [heap EXCEPT ![x] = g] /\ hs[x] = g
  BY <1>6, <1>7, <1>1, Zenon
<1>9. \/ /\ h.arena[v].cnt + 1 # n /\ heap' = hs /\ UNCHANGED <<mem, proc>>
      \/ /\ h.arena[v].cnt + 1 = n /\ mem' = R.m /\ proc' = R.ps
         /\ heap' = [hs EXCEPT ![x].free[d] = Collect(list, v, n),
                               ![x].arena = Without(@, {v})]
  BY <1>4, <1>7, Zenon
<1>10. missing = {} => R = MfreePage(x, v, 1)
  BY <1>7
<1> HIDE DEF missing, r, given
<1>11. CASE h.arena[v].cnt + 1 # n /\ heap' = hs /\ UNCHANGED <<mem, proc>>
  <2>1. CallStep(x, g, mem, proc)
    BY <1>1, <1>2, <1>3, <1>11, Zenon DEF CallStep, OthersKeep
  <2>2. HeapsInv([heap EXCEPT ![x] = g], mem, proc, Losses(count))
    BY <2>1, CallStepFacts
  <2> QED BY <2>2, <1>1, <1>8, <1>11 DEF MemoryInv, Running
<1>12. CASE /\ h.arena[v].cnt + 1 = n /\ mem' = R.m /\ proc' = R.ps
            /\ heap' = [hs EXCEPT ![x].free[d] = Collect(list, v, n),
                                  ![x].arena = Without(@, {v})]
  <2>1. PICK k : k = [g EXCEPT !.free = [g.free EXCEPT ![d] = Collect(g.free[d], v, BlocksPerArena(d))],
                               !.arena = Without(g.arena, {v})]
    OBVIOUS
  <2>2. g.free[d] = list
    BY <1>3, <1>5, Zenon
  <2>3. /\ HeapInv(x, k, M \ {v}) /\ HeapPages(k.arena) = HeapPages(g.arena) \ {v}
        /\ \A j \in 1 .. n : <<v, j>> \in Range(list)
    <3>1. g.arena[v].cnt = BlocksPerArena(d)
      BY <1>2, <1>3, <1>12, Zenon
    <3>2. /\ HeapInv(x, k, M \ {v}) /\ HeapPages(k.arena) = HeapPages(g.arena) \ {v}
          /\ \A j \in 1 .. BlocksPerArena(d) : <<v, j>> \in Range(g.free[d])
      <4>1. DropCall(x, g, M, v, d, k)
        BY <3>1, <2>1, <1>3 DEF DropCall
      <4> QED BY <4>1, DropFacts
    <3> QED BY <3>2, <2>2, <1>2, Zenon
  <2>4. R = MfreePage(x, v, 1)
    BY <2>3, <1>10 DEF missing
  <2>5. v \in DOMAIN h.arena /\ v \in Nat /\ v \in M /\ v \in HeapPages(h.arena)
    <3>1. v \in DOMAIN h.arena
      BY <1>3 DEF Own
    <3>2. HeapBut(x, h, M, None)
      BY <1>1, <1>2, Zenon DEF HeapInv
    <3>3. v \in ArenaPages(h.arena, v) /\ v \in M /\ v \in Nat
      BY <3>1, <3>2, HeapFacts
    <3> QED BY <3>1, <3>3 DEF HeapPages
  <2>6. /\ MachineInv(R.m, R.ps) /\ Area(x, R.m, R.ps) = M \ {v}
        /\ OthersKeep(x, mem, proc, R.m, R.ps)
    <3>1. v .. v + 1 - 1 = {v} /\ v \in Int /\ 1 \in Nat \ {0}
      BY <2>5
    <3>2. v .. v + 1 - 1 \subseteq Area(x, mem, proc)
      BY <3>1, <2>5, <1>2, Zenon
    <3>3. /\ MachineInv(R.m, R.ps)
          /\ Area(x, R.m, R.ps) = Area(x, mem, proc) \ (v .. v + 1 - 1)
          /\ OthersKeep(x, mem, proc, R.m, R.ps)
      BY <3>1, <3>2, <2>4, <1>1, MfreePageFacts
    <3> QED BY <3>1, <3>3, <1>2, Zenon
  <2>7. heap' = [heap EXCEPT ![x] = k]
    <3>1. k = [g EXCEPT !.free = [g.free EXCEPT ![d] = Collect(list, v, n)],
                        !.arena = Without(g.arena, {v})]
      BY <2>1, <2>2, <1>2, Zenon
    <3> QED BY <3>1, <1>1, <1>3, <1>8, <1>12 DEF HeapRecords
  <2>8. CallStep(x, k, R.m, R.ps)
    <3>1. Area(x, R.m, R.ps) \ HeapPages(k.arena) = M \ HeapPages(h.arena)
      BY <2>3, <2>5, <2>6, <1>3
    <3> QED BY <3>1, <2>3, <2>6, <1>1, <1>2, Zenon DEF CallStep
  <2>9. HeapsInv([heap EXCEPT ![x] = k], R.m, R.ps, Losses(count))
    BY <2>8, CallStepFacts
  <2>10. R.m.halt = "no"
    BY <2>6 DEF MachineInv
  <2> QED BY <2>6, <2>7, <2>9, <2>10, <1>1, <1>12 DEF MemoryInv
<1> QED BY <1>9, <1>11, <1>12

LEMMA SysFreeStep ==
    ASSUME ~CarryHeap, MemoryInv, NEW x \in Owners, SysFree(x)
    PROVE  MemoryInv'
<1>1. PICK b \in heap[x].held :
        /\ ~CarryHeap /\ ~heap[x].arena[b[1]].large => ~heap[x].arena[b[1]].old
        /\ FreeLarge(x, b) \/ FreeBlock(x, b)
  BY DEF SysFree
<1>2. Running /\ Live(x) /\ UNCHANGED <<scan, boot, count>>
  BY DEF SysFree
<1>3. CASE FreeLarge(x, b)
  BY <1>2, <1>3, FreeLargeStep
<1>4. CASE FreeBlock(x, b)
  <2>1. ~heap[x].arena[b[1]].large
    BY <1>4, Zenon DEF FreeBlock
  <2> QED BY <2>1, <1>1, <1>2, <1>4, FreeBlockStep
<1> QED BY <1>1, <1>3, <1>4

LEMMA FreeNullStep ==
    ASSUME MemoryInv, NEW x \in Owners, FreeNull(x)
    PROVE  MemoryInv'
<1>1. mem \in MemRecords
  BY InvRunning DEF FreeNull, MachineInv
<1>2. mem'.halt = "null" /\ UNCHANGED <<scan, boot, count>>
  BY <1>1 DEF FreeNull, Halt, MemRecords
<1>3. mem'.halt \in Stops
  BY <1>2 DEF Stops
<1>4. count' \in [mallocs : Nat, forks : Nat, failed : Nat, exits : Nat]
  BY <1>2 DEF MemoryInv
<1> QED BY <1>2, <1>3, <1>4, InvStopped

-----------------------------------------------------------------------------
\* The life of a process

LEMMA HaltedStays ==
    ASSUME NEW m, m.halt # "no"
    PROVE  /\ \A n : MallocKernel(m, n).m = m
           /\ \A q, S : MapUser(m, q, S).m = m
           /\ \A at, n : MfreeKernel(m, at, n) = m
<1>1. ASSUME NEW n PROVE MallocKernel(m, n) = [m |-> m, at |-> None]
  BY Zenon DEF MallocKernel
<1>2. ASSUME NEW q, NEW S PROVE MapUser(m, q, S) = [m |-> m, q |-> q]
  BY Zenon DEF MapUser
<1>3. ASSUME NEW at, NEW n PROVE MfreeKernel(m, at, n) = m
  BY Zenon DEF MfreeKernel
<1> QED BY <1>1, <1>2, <1>3

LEMMA FramesSame ==
    ASSUME NEW m, NEW ps, FramesInv(m, ps), NEW ps2,
           \A p \in Procs : /\ ps2[p].map = ps[p].map /\ ps2[p].vbits = ps[p].vbits
                            /\ Range(ps2[p].tables) = Range(ps[p].tables)
    PROVE  FramesInv(m, ps2)
<1>1. \A f \in Frames : (\E p \in Procs : f \in FramesOf(ps2[p].map) \cup Range(ps2[p].tables)) <=>
                        (\E p \in Procs : f \in FramesOf(ps[p].map) \cup Range(ps[p].tables))
  OBVIOUS
<1> QED BY <1>1 DEF FramesInv

\* The kernel pages of one process.
PiecesOf(q) == UNION {Piece(q, w) : w \in What}

\* Process p becomes q, and the kernel's mapped pages M become M2.
Moves(M, ps, p, q, M2) ==
    /\ M \subseteq Pages /\ M2 \subseteq Pages /\ ps \in [Procs -> ProcRecords] /\ p \in Procs
    /\ PagesInv(M, ps)
    /\ \A w \in What : Piece(q, w) \subseteq M2
    /\ \A w, u \in What : w # u => Piece(q, w) \cap Piece(q, u) = {}
    /\ PiecesOf(q) \cap M \subseteq PiecesOf(ps[p])
    /\ M \ PiecesOf(ps[p]) \subseteq M2

\* The pages that nobody can give back any more.
Extra(M, ps, p, q, M2) == (M2 \ (M \ PiecesOf(ps[p]))) \ PiecesOf(q)

Moved(M, ps, p, q, M2) ==
    /\ PagesInv(M2, [ps EXCEPT ![p] = q])
    /\ M2 \ ProcPages([ps EXCEPT ![p] = q]) = (M \ ProcPages(ps)) \cup Extra(M, ps, p, q, M2)
    /\ Extra(M, ps, p, q, M2) \cap (M \ ProcPages(ps)) = {}

LEMMA MovesFacts ==
    ASSUME NEW M, NEW ps, NEW p, NEW q, NEW M2, Moves(M, ps, p, q, M2)
    PROVE  Moved(M, ps, p, q, M2)
<1> USE DEF Moves
<1>1. PICK ps2 : ps2 = [ps EXCEPT ![p] = q]
  OBVIOUS
<1>2. ps2[p] = q /\ \A y \in Procs : y # p => ps2[y] = ps[y]
  BY <1>1
<1>3. /\ \A y \in Procs, w \in What : Piece(ps[y], w) \subseteq M
      /\ \A y, z \in Procs, w, u \in What :
           y # z \/ w # u => Piece(ps[y], w) \cap Piece(ps[z], u) = {}
  BY DEF PagesInv
<1>4. \A y \in Procs, w \in What : y # p => Piece(ps[y], w) \cap PiecesOf(ps[p]) = {}
  BY <1>3 DEF PiecesOf
<1>5. \A y \in Procs, w \in What : y # p => Piece(ps[y], w) \subseteq M \ PiecesOf(ps[p])
  BY <1>3, <1>4
<1>6. \A w \in What : Piece(q, w) \subseteq PiecesOf(q)
  BY DEF PiecesOf
<1>7. \A w \in What : Piece(q, w) \cap (M \ PiecesOf(ps[p])) = {}
  BY <1>6
<1>8. PagesInv(M2, ps2)
  <2>1. ASSUME NEW y \in Procs, NEW w \in What PROVE Piece(ps2[y], w) \subseteq M2
    <3>1. CASE y = p
      BY <3>1, <1>2
    <3>2. CASE y # p
      BY <3>2, <1>2, <1>5
    <3> QED BY <3>1, <3>2
  <2>2. ASSUME NEW y \in Procs, NEW z \in Procs, NEW w \in What, NEW u \in What, y # z \/ w # u
        PROVE  Piece(ps2[y], w) \cap Piece(ps2[z], u) = {}
    <3>1. CASE y = p /\ z = p
      BY <3>1, <2>2, <1>2
    <3>2. CASE y = p /\ z # p
      BY <3>2, <1>2, <1>5, <1>7
    <3>3. CASE y # p /\ z = p
      BY <3>3, <1>2, <1>5, <1>7
    <3>4. CASE y # p /\ z # p
      BY <3>4, <2>2, <1>2, <1>3
    <3> QED BY <3>1, <3>2, <3>3, <3>4
  <2> QED BY <2>1, <2>2 DEF PagesInv
<1>9. PICK E : E = Extra(M, ps, p, q, M2)
  OBVIOUS
<1>10. \A v : v \in E <=> v \in M2 /\ ~(v \in M /\ v \notin PiecesOf(ps[p])) /\ v \notin PiecesOf(q)
  BY <1>9 DEF Extra
<1>11. \A v : v \in PiecesOf(q) <=> \E w \in What : v \in Piece(q, w)
  BY DEF PiecesOf
<1>12. \A v : v \in PiecesOf(ps[p]) <=> \E w \in What : v \in Piece(ps[p], w)
  BY DEF PiecesOf
<1>13. \A v \in Pages : v \in ProcPages(ps2) <=> \E y \in Procs, w \in What : v \in Piece(ps2[y], w)
  BY DEF ProcPages
<1>14. \A v \in Pages : v \in ProcPages(ps) <=> \E y \in Procs, w \in What : v \in Piece(ps[y], w)
  BY DEF ProcPages
<1>15. \A v \in Pages : v \in ProcPages(ps2) <=>
         v \in PiecesOf(q) \/ \E y \in Procs, w \in What : y # p /\ v \in Piece(ps[y], w)
  BY <1>2, <1>11, <1>13
<1>16. \A v \in Pages : v \in ProcPages(ps) <=>
         v \in PiecesOf(ps[p]) \/ \E y \in Procs, w \in What : y # p /\ v \in Piece(ps[y], w)
  BY <1>12, <1>14
<1>17. ASSUME NEW v PROVE v \in M2 \ ProcPages(ps2) <=> v \in (M \ ProcPages(ps)) \cup E
  <2>1. CASE v \in M2 /\ v \notin ProcPages(ps2)
    BY <2>1, <1>10, <1>15, <1>16
  <2>2. CASE v \in M /\ v \notin ProcPages(ps)
    BY <2>2, <1>15, <1>16
  <2>3. CASE v \in E
    <3>1. v \in M2 /\ v \in Pages /\ v \notin PiecesOf(q) /\ v \notin M \ PiecesOf(ps[p])
      BY <2>3, <1>10
    <3>2. \A y \in Procs, w \in What : y # p => v \notin Piece(ps[y], w)
      BY <3>1, <1>5
    <3> QED BY <2>3, <3>1, <3>2, <1>15
  <2> QED BY <2>1, <2>2, <2>3
<1>18. M2 \ ProcPages(ps2) = (M \ ProcPages(ps)) \cup E
  BY <1>17
<1>19. E \cap (M \ ProcPages(ps)) = {}
  BY <1>10, <1>16
<1> QED BY <1>1, <1>8, <1>9, <1>18, <1>19 DEF Moved

LEMMA LifeStep ==
    ASSUME NEW ps \in [Procs -> ProcRecords], LifeInv(ps), NEW p \in Procs, NEW q, LifeOf(p, q),
           q.state # "none" \/ p # First, ps[First].state # "none" \/ p = First
    PROVE  LifeInv([ps EXCEPT ![p] = q])
<1>1. PICK ps2 : ps2 = [ps EXCEPT ![p] = q]
  OBVIOUS
<1>2. ps2[p] = q /\ \A y \in Procs : y # p => ps2[y] = ps[y]
  BY <1>1
<1>3. ASSUME NEW y \in Procs PROVE LifeOf(y, ps2[y])
  <2>1. LifeOf(y, ps[y])
    BY DEF LifeInv
  <2> QED BY <2>1, <1>2
<1>4. ps2[First].state # "none"
  BY <1>2, ProcsAssumption
<1> QED BY <1>1, <1>3, <1>4 DEF LifeInv

\* Process p becomes q in a machine that becomes m2.
ProcCall(m, ps, p, q, m2) ==
    /\ MachineInv(m, ps) /\ p \in Procs /\ q \in ProcRecords
    /\ m2 \in MemRecords /\ m2.halt = "no"
    /\ FramesInv(m2, [ps EXCEPT ![p] = q])
    /\ LifeOf(p, q) /\ (q.state # "none" \/ p # First)
    /\ ps[First].state # "none" \/ p = First
    /\ Moves(Mapped(m.kmap), ps, p, q, Mapped(m2.kmap))

Lose(m, ps, p, q, m2) == Extra(Mapped(m.kmap), ps, p, q, Mapped(m2.kmap))

ProcMoved(m, ps, p, q, m2, ps2) ==
    /\ MachineInv(m2, ps2)
    /\ Area(Kernel, m2, ps2) = Area(Kernel, m, ps) \cup Lose(m, ps, p, q, m2)
    /\ Lose(m, ps, p, q, m2) \cap Area(Kernel, m, ps) = {}
    /\ \A y \in Procs : y # p => Area(y, m2, ps2) = Area(y, m, ps)
    /\ Area(p, m2, ps2) = Mapped(q.map) \ {StackPage}

LEMMA ProcCallFacts ==
    ASSUME NEW m, NEW ps, NEW p, NEW q, NEW m2, ProcCall(m, ps, p, q, m2), NEW ps2,
           ps2 = [ps EXCEPT ![p] = q]
    PROVE  ProcMoved(m, ps, p, q, m2, ps2)
<1> USE DEF ProcCall
<1>1. PICK M, M2 : M = Mapped(m.kmap) /\ M2 = Mapped(m2.kmap)
  OBVIOUS
<1>2. Moves(M, ps, p, q, M2)
  BY <1>1
<1>3. Moved(M, ps, p, q, M2)
  BY <1>2, MovesFacts
<1>4. /\ PagesInv(M2, ps2)
      /\ M2 \ ProcPages(ps2) = (M \ ProcPages(ps)) \cup Extra(M, ps, p, q, M2)
      /\ Extra(M, ps, p, q, M2) \cap (M \ ProcPages(ps)) = {}
  BY <1>3 DEF Moved
<1>5. ps \in [Procs -> ProcRecords] /\ LifeInv(ps)
  BY DEF MachineInv
<1>6. ps2 \in [Procs -> ProcRecords] /\ ps2[p] = q /\ \A y \in Procs : y # p => ps2[y] = ps[y]
  BY <1>5
<1>7. LifeInv(ps2)
  BY <1>5, LifeStep
<1>8. MachineInv(m2, ps2)
  BY <1>1, <1>4, <1>6, <1>7 DEF MachineInv
<1>9. \A y \in Procs : y # Kernel
  BY ProcsAssumption
<1>10. /\ \A y \in Procs : y # p => Area(y, m2, ps2) = Area(y, m, ps)
       /\ Area(p, m2, ps2) = Mapped(q.map) \ {StackPage}
  BY <1>6, <1>9 DEF Area
<1>11. /\ Area(Kernel, m2, ps2) = M2 \ ProcPages(ps2) /\ Area(Kernel, m, ps) = M \ ProcPages(ps)
       /\ Lose(m, ps, p, q, m2) = Extra(M, ps, p, q, M2)
  BY <1>1 DEF Area, Lose
<1> QED BY <1>4, <1>8, <1>10, <1>11 DEF ProcMoved

LEMMA AreaFinite ==
    ASSUME NEW m \in MemRecords, NEW ps
    PROVE  IsFiniteSet(Area(Kernel, m, ps)) /\ IsFiniteSet(Mapped(m.kmap)) /\ Mapped(m.kmap) \subseteq Pages
<1>1. Mapped(m.kmap) \subseteq Pages
  BY DEF Mapped, MemRecords
<1>2. IsFiniteSet(Pages)
  BY ConstFacts, FS_Interval DEF Pages
<1>3. Area(Kernel, m, ps) \subseteq Mapped(m.kmap)
  BY DEF Area
<1>4. IsFiniteSet(Mapped(m.kmap))
  BY <1>1, <1>2, FS_Subset
<1> QED BY <1>1, <1>3, <1>4, FS_Subset

\* Its heap becomes g, and e pages are lost.
LEMMA ProcHeap ==
    ASSUME MemoryInv, Running, NEW p \in Procs, NEW q, NEW m2, NEW ps2,
           ProcMoved(mem, proc, p, q, m2, ps2),
           NEW e, e = Cardinality(Lose(mem, proc, p, q, m2)),
           NEW g, HeapInv(p, g, Mapped(q.map) \ {StackPage})
    PROVE  HeapsInv([heap EXCEPT ![p] = g], m2, ps2, Losses(count) + e)
<1>1. /\ HeapsInv(heap, mem, proc, Losses(count)) /\ heap \in [Owners -> HeapRecords]
      /\ \A x \in Owners : HeapInv(x, heap[x], Area(x, mem, proc))
  BY InvRunning
<1>2. PICK A, B, L, H, hs : /\ A = Area(Kernel, mem, proc) /\ B = Area(Kernel, m2, ps2)
                            /\ L = Lose(mem, proc, p, q, m2) /\ H = HeapPages(heap[Kernel].arena)
                            /\ hs = [heap EXCEPT ![p] = g]
  OBVIOUS
<1>3. B = A \cup L /\ L \cap A = {} /\ m2 \in MemRecords
  BY <1>2 DEF ProcMoved, MachineInv
<1>4. Kernel \in Owners /\ p \in Owners /\ p # Kernel
  BY ProcsAssumption DEF Owners
<1>5. H \subseteq A
  <2>1. HeapBut(Kernel, heap[Kernel], A, None)
    BY <1>1, <1>2, <1>4 DEF HeapInv
  <2> QED BY <2>1, <1>2, HeapFacts
<1>6. B \ H = (A \ H) \cup L /\ (A \ H) \cap L = {}
  BY <1>3, <1>5
<1>7. IsFiniteSet(B)
  BY <1>2, <1>3, AreaFinite
<1>8. IsFiniteSet(A \ H) /\ IsFiniteSet(L)
  BY <1>3, <1>7, FS_Subset
<1>9. Cardinality(B \ H) = Cardinality(A \ H) + Cardinality(L)
  <2>1. Cardinality((A \ H) \cup L) = Cardinality(A \ H) + Cardinality(L) - Cardinality((A \ H) \cap L)
    BY <1>8, FS_Union
  <2>2. Cardinality((A \ H) \cap L) = 0
    BY <1>6, FS_EmptySet
  <2>3. Cardinality(A \ H) \in Nat /\ Cardinality(L) \in Nat
    BY <1>8, FS_CardinalityType
  <2>4. Cardinality(B \ H) = Cardinality((A \ H) \cup L)
    BY <1>6
  <2>5. PICK a, b : a = Cardinality(A \ H) /\ b = Cardinality(L)
    OBVIOUS
  <2>6. a \in Nat /\ b \in Nat /\ Cardinality(B \ H) = a + b - 0
    BY <2>1, <2>2, <2>3, <2>4, <2>5, Zenon
  <2>7. a + b - 0 = a + b
    BY <2>6
  <2> QED BY <2>5, <2>6, <2>7, Zenon
<1>10. Cardinality(A \ H) = Losses(count)
  BY <1>1, <1>2 DEF HeapsInv
<1>11. hs[Kernel] = heap[Kernel]
  BY <1>1, <1>2, <1>4
<1>12. Cardinality(Area(Kernel, m2, ps2) \ HeapPages(hs[Kernel].arena)) = Losses(count) + e
  BY <1>2, <1>9, <1>10, <1>11
<1>13. g \in HeapRecords /\ HeapInv(p, g, Area(p, m2, ps2))
  BY DEF HeapInv, HeapBut, ProcMoved
<1>14. ASSUME NEW y \in Owners, y # p PROVE Area(y, mem, proc) \subseteq Area(y, m2, ps2)
  <2>1. CASE y = Kernel
    BY <2>1, <1>2, <1>3
  <2>2. CASE y \in Procs
    BY <2>2, <1>14 DEF ProcMoved
  <2> QED BY <2>1, <2>2 DEF Owners
<1>15. PICK lost, lost2 : lost = Losses(count) /\ lost2 = lost + e
  OBVIOUS
<1>16. HeapStep(heap, mem, proc, lost, p, g, hs, m2, ps2, lost2)
  BY <1>1, <1>2, <1>4, <1>12, <1>13, <1>14, <1>15 DEF HeapStep
<1> QED BY <1>2, <1>15, <1>16, HeapStepFacts

LEMMA NoProcessFacts ==
    /\ NoProcess \in ProcRecords /\ Mapped(NoProcess.map) = {} /\ Range(NoProcess.tables) = {}
    /\ NoProcess.vbits = {} /\ NoProcess.map = Unmapped /\ NoProcess.state = "none"
    /\ \A w : Piece(NoProcess, w) = {}
    /\ PiecesOf(NoProcess) = {}
    /\ \A p : LifeOf(p, NoProcess)
<1>1. << >> \in Tables
  <2>1. << >> \in [{} -> KFrames]
    OBVIOUS
  <2> QED BY <2>1 DEF Tables
<1>2. Unmapped \in [UPages -> UFrames \cup {None}]
  BY DEF Unmapped, UPages
<1>3. NoProcess \in ProcRecords
  BY <1>1, <1>2 DEF NoProcess, ProcRecords
<1>4. Mapped(Unmapped) = {}
  BY DEF Mapped, Unmapped
<1>5. Range(<< >>) = {}
  BY DEF Range
<1>6. \A w : Piece(NoProcess, w) = {}
  BY DEF Piece, NoProcess
<1>7. PiecesOf(NoProcess) = {}
  BY <1>6 DEF PiecesOf
<1>8. /\ NoProcess.vbits = {} /\ NoProcess.map = Unmapped /\ NoProcess.state = "none"
      /\ NoProcess.tables = << >>
  BY DEF NoProcess
<1>9. \A p : LifeOf(p, NoProcess)
  BY <1>4, <1>5, <1>8 DEF LifeOf
<1> QED BY <1>3, <1>4, <1>5, <1>6, <1>7, <1>8, <1>9

LEMMA PiecesAre ==
    ASSUME NEW q
    PROVE  /\ PiecesOf(q) = Piece(q, "pcb") \cup Piece(q, "pgdir") \cup Piece(q, "vbm")
           /\ Piece(q, "pcb") = {q.pcb} \ {None} /\ Piece(q, "pgdir") = {q.pgdir} \ {None}
           /\ q.vbm = None => Piece(q, "vbm") = {}
           /\ q.vbm # None => Piece(q, "vbm") = q.vbm .. q.vbm + CeilPages - 1
  BY DEF PiecesOf, What, Piece

LEMMA ProcFacts ==
    ASSUME MachineInv(mem, proc), NEW p \in Procs
    PROVE  /\ mem \in MemRecords /\ mem.halt = "no" /\ proc \in [Procs -> ProcRecords]
           /\ FramesInv(mem, proc) /\ PagesInv(Mapped(mem.kmap), proc)
           /\ proc[p] \in ProcRecords /\ LifeOf(p, proc[p])
           /\ proc[p].vbits = Mapped(proc[p].map)
           /\ \A w \in What : Piece(proc[p], w) \subseteq Mapped(mem.kmap)
           /\ \A w, u \in What : w # u => Piece(proc[p], w) \cap Piece(proc[p], u) = {}
           /\ Mapped(mem.kmap) \subseteq Pages
           /\ proc[First].state = "none" => proc[p].state = "none"
<1>1. /\ mem \in MemRecords /\ mem.halt = "no" /\ proc \in [Procs -> ProcRecords]
      /\ FramesInv(mem, proc) /\ PagesInv(Mapped(mem.kmap), proc) /\ LifeInv(proc)
  BY DEF MachineInv
<1>2. /\ proc[p] \in ProcRecords /\ LifeOf(p, proc[p])
      /\ proc[First].state = "none" => proc[p].state = "none"
  BY <1>1 DEF LifeInv
<1>3. /\ \A w \in What : Piece(proc[p], w) \subseteq Mapped(mem.kmap)
      /\ \A w, u \in What : w # u => Piece(proc[p], w) \cap Piece(proc[p], u) = {}
  BY <1>1 DEF PagesInv
<1>4. Mapped(mem.kmap) \subseteq Pages
  BY <1>1, AreaFinite
<1>5. proc[p].vbits = Mapped(proc[p].map)
  BY <1>1 DEF FramesInv
<1> QED BY <1>1, <1>2, <1>3, <1>4, <1>5

\* The kernel's page calls once more, as steps of a longer call.
FreesKernel(m, ps, at, n, m2) ==
    /\ m \in MemRecords /\ m.halt = "no" /\ ps \in [Procs -> ProcRecords] /\ FramesInv(m, ps)
    /\ n \in Nat \ {0} /\ at \in Int /\ at .. at + n - 1 \subseteq Mapped(m.kmap)
    /\ m2 = MfreeKernel(m, at, n)

KernelFreed(m, ps, P, m2) ==
    /\ m2 \in MemRecords /\ m2.halt = "no" /\ FramesInv(m2, ps)
    /\ Mapped(m2.kmap) = Mapped(m.kmap) \ P

LEMMA FreesKernelFacts ==
    ASSUME NEW m, NEW ps, NEW at, NEW n, NEW m2, FreesKernel(m, ps, at, n, m2)
    PROVE  KernelFreed(m, ps, at .. at + n - 1, m2)
  BY MfreeKernelFacts DEF FreesKernel, KernelFreed

AsksKernel(m, ps, n, r) ==
    /\ m \in MemRecords /\ m.halt = "no" /\ ps \in [Procs -> ProcRecords] /\ FramesInv(m, ps)
    /\ n \in Nat \ {0} /\ r = MallocKernel(m, n)

KernelGot(m, ps, P, r) ==
    /\ r.m \in MemRecords /\ r.m.halt = "no" /\ FramesInv(r.m, ps)
    /\ r.at \in Pages /\ P \subseteq Pages /\ P \cap Mapped(m.kmap) = {}
    /\ Mapped(r.m.kmap) = Mapped(m.kmap) \cup P

LEMMA AsksKernelFacts ==
    ASSUME NEW m, NEW ps, NEW n, NEW r, AsksKernel(m, ps, n, r)
    PROVE  \/ r.m.halt = "full"
           \/ r.m = m /\ r.at = None /\ n # 1
           \/ KernelGot(m, ps, r.at .. r.at + n - 1, r)
<1> USE DEF AsksKernel
<1>1. \/ r.m \in MemRecords /\ r.m.halt = "full"
      \/ r.m = m /\ r.at = None /\ n # 1
      \/ /\ r.m \in MemRecords /\ r.m.halt = "no" /\ FramesInv(r.m, ps)
         /\ r.at \in Pages
         /\ r.at .. r.at + n - 1 \subseteq Pages \ Mapped(m.kmap)
         /\ Mapped(r.m.kmap) = Mapped(m.kmap) \cup (r.at .. r.at + n - 1)
  BY MallocKernelFacts
<1>2. PICK P : P = r.at .. r.at + n - 1
  OBVIOUS
<1>3. ASSUME P \subseteq Pages \ Mapped(m.kmap)
      PROVE  P \subseteq Pages /\ P \cap Mapped(m.kmap) = {}
  BY <1>3
<1> QED BY <1>1, <1>2, <1>3 DEF KernelGot

\* One page.
LEMMA AsksOne ==
    ASSUME NEW m, NEW ps, NEW r, AsksKernel(m, ps, 1, r)
    PROVE  \/ r.m.halt = "full"
           \/ KernelGot(m, ps, {r.at}, r)
<1>1. \/ r.m.halt = "full"
      \/ r.m = m /\ r.at = None /\ 1 # 1
      \/ KernelGot(m, ps, r.at .. r.at + 1 - 1, r)
  BY AsksKernelFacts
<1>2. ASSUME r.at \in Pages PROVE r.at .. r.at + 1 - 1 = {r.at}
  BY <1>2 DEF Pages
<1> QED BY <1>1, <1>2 DEF KernelGot

\* The parent's wait gives back page directory and PCB of a process that exited.
LEMMA ReapStep ==
    ASSUME MemoryInv, NEW p \in Procs, Reap(p)
    PROVE  MemoryInv'
<1>1. Running /\ proc[p].state = "zombie"
  BY DEF Reap
<1>2. /\ MachineInv(mem, proc) /\ heap \in [Owners -> HeapRecords]
      /\ \A x \in Owners : HeapInv(x, heap[x], Area(x, mem, proc))
      /\ count \in [mallocs : Nat, forks : Nat, failed : Nat, exits : Nat]
  BY <1>1, InvRunning
<1>3. PICK M, dir, pcb, m1, m2, ps2 :
        /\ M = Mapped(mem.kmap) /\ dir = proc[p].pgdir /\ pcb = proc[p].pcb
        /\ m1 = MfreeKernel(mem, dir, 1) /\ m2 = MfreeKernel(m1, pcb, 1)
        /\ ps2 = [proc EXCEPT ![p] = NoProcess]
  OBVIOUS
<1>4. /\ mem' = m2 /\ proc' = ps2 /\ UNCHANGED <<heap, scan, boot, count>>
  BY <1>3 DEF Reap
<1>5. /\ mem \in MemRecords /\ mem.halt = "no" /\ proc \in [Procs -> ProcRecords]
      /\ FramesInv(mem, proc) /\ PagesInv(M, proc)
      /\ proc[p] \in ProcRecords /\ LifeOf(p, proc[p])
      /\ proc[p].vbits = Mapped(proc[p].map)
      /\ \A w \in What : Piece(proc[p], w) \subseteq M
      /\ \A w, u \in What : w # u => Piece(proc[p], w) \cap Piece(proc[p], u) = {}
      /\ M \subseteq Pages
      /\ proc[First].state = "none" => proc[p].state = "none"
  BY <1>2, <1>3, ProcFacts
<1>6. /\ p # First /\ pcb # None /\ dir # None /\ proc[p].vbm = None
      /\ Mapped(proc[p].map) = {} /\ Range(proc[p].tables) = {}
  BY <1>1, <1>3, <1>5 DEF LifeOf
<1>7. /\ Piece(proc[p], "pcb") = {pcb} /\ Piece(proc[p], "pgdir") = {dir}
      /\ PiecesOf(proc[p]) = {pcb, dir}
  BY <1>3, <1>6, PiecesAre
<1>8. pcb \in M /\ dir \in M /\ pcb # dir /\ pcb \in Int /\ dir \in Int
  <2>1. pcb \in M /\ dir \in M /\ pcb # dir
    BY <1>5, <1>7 DEF What
  <2>2. \A v \in Pages : v \in Int
    BY DEF Pages
  <2> QED BY <2>1, <2>2, <1>5
<1>9. pcb .. pcb + 1 - 1 = {pcb} /\ dir .. dir + 1 - 1 = {dir} /\ 1 \in Nat \ {0}
  BY <1>8
<1>10. /\ m1 \in MemRecords /\ m1.halt = "no" /\ FramesInv(m1, proc) /\ Mapped(m1.kmap) = M \ {dir}
  <2>1. FreesKernel(mem, proc, dir, 1, m1)
    BY <1>3, <1>5, <1>8, <1>9 DEF FreesKernel
  <2>2. KernelFreed(mem, proc, dir .. dir + 1 - 1, m1)
    BY <2>1, FreesKernelFacts
  <2> QED BY <2>2, <1>3, <1>9 DEF KernelFreed
<1>11. /\ m2 \in MemRecords /\ m2.halt = "no" /\ FramesInv(m2, proc) /\ Mapped(m2.kmap) = M \ {pcb, dir}
  <2>1. FreesKernel(m1, proc, pcb, 1, m2)
    BY <1>3, <1>5, <1>8, <1>9, <1>10 DEF FreesKernel
  <2>2. KernelFreed(m1, proc, pcb .. pcb + 1 - 1, m2)
    BY <2>1, FreesKernelFacts
  <2> QED BY <2>2, <1>9, <1>10 DEF KernelFreed
<1>12. FramesInv(m2, ps2)
  <2>1. proc[p].map = NoProcess.map
    <3>1. proc[p].map \in [UPages -> UFrames \cup {None}]
      BY <1>5 DEF ProcRecords
    <3>2. \A v \in UPages : proc[p].map[v] = None
      BY <3>1, <1>6 DEF Mapped
    <3>3. proc[p].map = [v \in UPages |-> None]
      BY <3>1, <3>2
    <3> QED BY <3>3, NoProcessFacts DEF Unmapped, UPages
  <2>2. \A y \in Procs : /\ ps2[y].map = proc[y].map /\ ps2[y].vbits = proc[y].vbits
                         /\ Range(ps2[y].tables) = Range(proc[y].tables)
    BY <2>1, <1>3, <1>5, <1>6, NoProcessFacts
  <2> QED BY <2>2, <1>11, FramesSame
<1>13. Moves(M, proc, p, NoProcess, Mapped(m2.kmap))
  BY <1>5, <1>7, <1>11, NoProcessFacts DEF Moves
<1>14. ProcCall(mem, proc, p, NoProcess, m2)
  BY <1>1, <1>2, <1>3, <1>5, <1>6, <1>11, <1>12, <1>13, NoProcessFacts DEF ProcCall
<1>15. ProcMoved(mem, proc, p, NoProcess, m2, ps2)
  BY <1>3, <1>14, ProcCallFacts
<1>16. Lose(mem, proc, p, NoProcess, m2) = {}
  BY <1>3, <1>7, <1>11, NoProcessFacts DEF Lose, Extra
<1>17. HeapInv(p, heap[p], Mapped(NoProcess.map) \ {StackPage})
  <2>1. Area(p, mem, proc) = {}
    BY <1>6, ProcsAssumption DEF Area
  <2> QED BY <2>1, <1>2, NoProcessFacts DEF Owners
<1>18. HeapsInv([heap EXCEPT ![p] = heap[p]], m2, ps2, Losses(count) + 0)
  <2>1. 0 = Cardinality(Lose(mem, proc, p, NoProcess, m2))
    BY <1>16, FS_EmptySet
  <2> QED BY <2>1, <1>1, <1>15, <1>17, ProcHeap
<1>19. [heap EXCEPT ![p] = heap[p]] = heap /\ Losses(count) + 0 = Losses(count)
  <2>1. Losses(count) \in Int
    BY <1>2, ConstFacts DEF Losses
  <2> QED BY <2>1, <1>2
<1>20. MachineInv(m2, ps2)
  BY <1>15 DEF ProcMoved
<1> QED BY <1>2, <1>4, <1>11, <1>18, <1>19, <1>20 DEF MemoryInv

LEMMA LossesGrow ==
    ASSUME count \in [mallocs : Nat, forks : Nat, failed : Nat, exits : Nat], NEW c,
           c.exits = count.exits + 1, c.failed = count.failed
    PROVE  Losses(c) = Losses(count) + (CeilPages - FloorPages)
<1>1. PICK k, e, f : k = CeilPages - FloorPages /\ e = count.exits /\ f = count.failed
  OBVIOUS
<1>2. k \in Int /\ e \in Int /\ f \in Int
  BY <1>1, ConstFacts
<1>3. (e + 1) * k + 2 * f = (e * k + 2 * f) + k
  BY <1>2
<1> QED BY <1>1, <1>3 DEF Losses

\* exit gives back the process's frames and page tables, and the whole pages of
\* its address bitmap.
LEMMA ExitStep ==
    ASSUME MemoryInv, NEW p \in Procs, Exit(p)
    PROVE  MemoryInv'
<1>1. Running /\ proc[p].state = "live" /\ p # First
  BY DEF Exit
<1>2. /\ MachineInv(mem, proc) /\ heap \in [Owners -> HeapRecords]
      /\ count \in [mallocs : Nat, forks : Nat, failed : Nat, exits : Nat]
  BY <1>1, InvRunning
<1>3. PICK M, old, dir, pcb, vbm, S, N, m1, m2, q, ps2, F, V :
        /\ M = Mapped(mem.kmap) /\ old = proc[p]
        /\ dir = old.pgdir /\ pcb = old.pcb /\ vbm = old.vbm
        /\ S = Mapped(old.map) /\ N = Range(old.tables)
        /\ m1 = [mem EXCEPT !.bits = mem.bits \ {FrameBit(f) : f \in ReleasedFrames(old)}]
        /\ m2 = MfreeKernel(m1, vbm, FloorPages)
        /\ q = [NoProcess EXCEPT !.state = "zombie", !.pcb = pcb, !.pgdir = dir]
        /\ ps2 = [proc EXCEPT ![p] = q]
        /\ F = vbm .. vbm + FloorPages - 1 /\ V = Piece(old, "vbm")
  BY Zenon
<1>4. /\ mem' = m2 /\ proc' = ps2 /\ heap' = [heap EXCEPT ![p] = EmptyHeap]
      /\ count' = [count EXCEPT !.exits = @ + 1] /\ UNCHANGED <<scan, boot>>
  BY <1>3 DEF Exit
<1>5. /\ mem \in MemRecords /\ mem.halt = "no" /\ proc \in [Procs -> ProcRecords]
      /\ FramesInv(mem, proc) /\ PagesInv(M, proc)
      /\ old \in ProcRecords /\ LifeOf(p, old) /\ old.vbits = Mapped(old.map)
      /\ \A w \in What : Piece(old, w) \subseteq M
      /\ \A w, u \in What : w # u => Piece(old, w) \cap Piece(old, u) = {}
      /\ M \subseteq Pages
      /\ proc[First].state = "none" => proc[p].state = "none"
  BY <1>2, <1>3, ProcFacts
<1>6. pcb # None /\ dir # None /\ vbm # None
  BY <1>1, <1>3, <1>5 DEF LifeOf
<1>7. /\ Piece(old, "pcb") = {pcb} /\ Piece(old, "pgdir") = {dir}
      /\ V = vbm .. vbm + CeilPages - 1 /\ PiecesOf(old) = {pcb, dir} \cup V
  BY <1>3, <1>6, PiecesAre
<1>8. pcb \in M /\ dir \in M /\ pcb # dir /\ V \subseteq M /\ pcb \notin V /\ dir \notin V
  BY <1>3, <1>5, <1>7 DEF What
<1>9. vbm \in Int /\ F \subseteq V /\ FloorPages \in Nat \ {0}
      /\ V \ F = vbm + FloorPages .. vbm + CeilPages - 1
  <2>1. vbm \in Int
    BY <1>3, <1>5, <1>6 DEF ProcRecords, Pages
  <2>2. PICK c, f : c = CeilPages /\ f = FloorPages
    OBVIOUS
  <2>3. c \in Nat /\ f \in Nat /\ f >= 1 /\ c >= f
    BY <2>2, ConstFacts
  <2>4. V = vbm .. vbm + c - 1 /\ F = vbm .. vbm + f - 1
    BY <2>2, <1>3, <1>7
  <2>5. F \subseteq V
    BY <2>1, <2>3, <2>4
  <2>6. V \ F = vbm + f .. vbm + c - 1
    <3>1. ASSUME NEW v \in Int PROVE v \in V \ F <=> v \in vbm + f .. vbm + c - 1
      BY <2>1, <2>3, <2>4
    <3>2. V \ F \subseteq Int /\ vbm + f .. vbm + c - 1 \subseteq Int
      BY <2>1, <2>3, <2>4
    <3> QED BY <3>1, <3>2
  <2> QED BY <2>1, <2>2, <2>3, <2>5, <2>6
<1>10. /\ q \in ProcRecords /\ q.state = "zombie" /\ q.pcb = pcb /\ q.pgdir = dir /\ q.vbm = None
       /\ q.vbits = {} /\ q.map = Unmapped /\ Mapped(q.map) = {} /\ Range(q.tables) = {}
  <2>1. pcb \in Pages /\ dir \in Pages
    BY <1>5, <1>8
  <2>2. q \in ProcRecords /\ q.state = "zombie" /\ q.pcb = pcb /\ q.pgdir = dir
        /\ q.vbits = NoProcess.vbits /\ q.map = NoProcess.map /\ q.tables = NoProcess.tables
        /\ q.vbm = NoProcess.vbm
    BY <2>1, <1>3, NoProcessFacts DEF ProcRecords
  <2>3. NoProcess.vbm = None
    BY DEF NoProcess
  <2> QED BY <2>2, <2>3, NoProcessFacts
<1>11. /\ Piece(q, "pcb") = {pcb} /\ Piece(q, "pgdir") = {dir} /\ Piece(q, "vbm") = {}
       /\ PiecesOf(q) = {pcb, dir}
  BY <1>6, <1>10, PiecesAre
<1>12. m1 \in MemRecords /\ m1.halt = "no" /\ m1.kmap = mem.kmap
       /\ \A b \in Int : b \in m1.bits <=> b \in mem.bits /\ b \notin N /\ \A v \in S : b # old.map[v]
  <2>1. N \subseteq KFrames /\ FramesOf(old.map) \subseteq UFrames
    BY <1>3, <1>5, RecordFrames
  <2>2. ReleasedFrames(old) = FramesOf(old.map) \cup N
    BY <1>3 DEF ReleasedFrames, FramesOf, Mapped
  <2>3. \A f \in ReleasedFrames(old) : FrameBit(f) = f
    BY <2>1, <2>2, FrameKinds, BitFacts
  <2>4. {FrameBit(f) : f \in ReleasedFrames(old)} = FramesOf(old.map) \cup N
    BY <2>2, <2>3
  <2>5. m1 = [mem EXCEPT !.bits = mem.bits \ (FramesOf(old.map) \cup N)]
    BY <2>4, <1>3
  <2>6. m1 \in MemRecords /\ m1.halt = "no" /\ m1.kmap = mem.kmap
        /\ m1.bits = mem.bits \ (FramesOf(old.map) \cup N)
    BY <2>5, <1>5 DEF MemRecords
  <2>7. \A b : b \in FramesOf(old.map) <=> \E v \in S : b = old.map[v]
    BY <1>3 DEF FramesOf
  <2> QED BY <2>6, <2>7
<1>13. FramesInv(m1, ps2)
  <2>1. \A v \in UPages : q.map[v] = None
    BY <1>10 DEF Unmapped, UPages
  <2>2. \A v \in UPages \ S : old.map[v] = None
    BY <1>3, <1>5 DEF ProcRecords, Mapped
  <2>3. S \subseteq UPages
    BY <1>3, <1>5, RecordFrames
  <2>4. Loses(mem, proc, p, S, N, q, m1)
    BY <2>1, <2>2, <2>3, <1>3, <1>5, <1>10, <1>12 DEF Loses
  <2>5. Lost(proc, p, S, q, m1)
    BY <2>4, UserUnmapped
  <2> QED BY <2>5, <1>3 DEF Lost
<1>14. m2 \in MemRecords /\ m2.halt = "no" /\ FramesInv(m2, ps2) /\ Mapped(m2.kmap) = M \ F
  <2>1. ps2 \in [Procs -> ProcRecords]
    BY <1>3, <1>5, <1>10
  <2>2. FreesKernel(m1, ps2, vbm, FloorPages, m2)
    BY <2>1, <1>3, <1>8, <1>9, <1>12, <1>13 DEF FreesKernel
  <2>3. KernelFreed(m1, ps2, vbm .. vbm + FloorPages - 1, m2)
    BY <2>2, FreesKernelFacts
  <2> QED BY <2>3, <1>3, <1>12 DEF KernelFreed
<1>15. Moves(M, proc, p, q, Mapped(m2.kmap))
  <2>1. \A w \in What : Piece(q, w) \subseteq M \ F
    BY <1>8, <1>9, <1>11 DEF What
  <2>2. \A w, u \in What : w # u => Piece(q, w) \cap Piece(q, u) = {}
    BY <1>8, <1>11 DEF What
  <2>3. PiecesOf(q) \cap M \subseteq PiecesOf(proc[p]) /\ M \ PiecesOf(proc[p]) \subseteq M \ F
    BY <1>3, <1>7, <1>9, <1>11
  <2> QED BY <2>1, <2>2, <2>3, <1>5, <1>14 DEF Moves
<1>16. LifeOf(p, q)
  BY <1>1, <1>6, <1>10 DEF LifeOf
<1>17. ProcCall(mem, proc, p, q, m2)
  BY <1>1, <1>2, <1>3, <1>5, <1>10, <1>14, <1>15, <1>16 DEF ProcCall
<1>18. ProcMoved(mem, proc, p, q, m2, ps2)
  BY <1>3, <1>17, ProcCallFacts
<1>19. Cardinality(Lose(mem, proc, p, q, m2)) = CeilPages - FloorPages
  <2>1. Lose(mem, proc, p, q, m2) = V \ F
    <3>1. Lose(mem, proc, p, q, m2) = ((M \ F) \ (M \ PiecesOf(old))) \ PiecesOf(q)
      BY <1>3, <1>14 DEF Lose, Extra
    <3>2. \A v : v \in ((M \ F) \ (M \ PiecesOf(old))) \ PiecesOf(q) <=> v \in V \ F
      BY <1>7, <1>8, <1>11
    <3> QED BY <3>1, <3>2
  <2>2. PICK a, b : a = vbm + FloorPages /\ b = vbm + CeilPages - 1
    OBVIOUS
  <2>3. a \in Int /\ b \in Int /\ (IF a > b THEN 0 ELSE b - a + 1) = CeilPages - FloorPages
    BY <2>2, <1>9, ConstFacts
  <2>4. Cardinality(a .. b) = IF a > b THEN 0 ELSE b - a + 1
    BY <2>3, FS_Interval
  <2> QED BY <2>1, <2>2, <2>3, <2>4, <1>9
<1>20. HeapInv(p, EmptyHeap, Mapped(q.map) \ {StackPage})
  BY HeapEmpty
<1>21. PICK e : e = CeilPages - FloorPages
  OBVIOUS
<1>22. HeapsInv([heap EXCEPT ![p] = EmptyHeap], m2, ps2, Losses(count) + e)
  BY <1>1, <1>18, <1>19, <1>20, <1>21, ProcHeap
<1>23. /\ count' \in [mallocs : Nat, forks : Nat, failed : Nat, exits : Nat]
       /\ count'.exits = count.exits + 1 /\ count'.failed = count.failed
  BY <1>2, <1>4
<1>24. Losses(count') = Losses(count) + e
  BY <1>2, <1>21, <1>23, LossesGrow
<1>25. MachineInv(m2, ps2)
  BY <1>18 DEF ProcMoved
<1> QED BY <1>4, <1>14, <1>22, <1>23, <1>24, <1>25 DEF MemoryInv

\* The pages of a process stay where they are.
LEMMA MovesSame ==
    ASSUME MachineInv(mem, proc), NEW p \in Procs, NEW q,
           q.pcb = proc[p].pcb, q.pgdir = proc[p].pgdir, q.vbm = proc[p].vbm,
           NEW M, M = Mapped(mem.kmap)
    PROVE  Moves(M, proc, p, q, M) /\ Extra(M, proc, p, q, M) = {}
<1>1. \A w : Piece(q, w) = Piece(proc[p], w)
  BY DEF Piece
<1>2. PiecesOf(q) = PiecesOf(proc[p])
  BY <1>1 DEF PiecesOf
<1>3. /\ proc \in [Procs -> ProcRecords] /\ PagesInv(M, proc) /\ M \subseteq Pages
      /\ \A w \in What : Piece(proc[p], w) \subseteq M
      /\ \A w, u \in What : w # u => Piece(proc[p], w) \cap Piece(proc[p], u) = {}
  BY ProcFacts
<1>4. Moves(M, proc, p, q, M)
  BY <1>1, <1>2, <1>3 DEF Moves
<1> QED BY <1>2, <1>4 DEF Extra

\* get_a_page, for all of S.
GotPages(p, S, r) ==
    /\ r.m \in MemRecords /\ r.m.halt = "no" /\ r.m.kmap = mem.kmap
    /\ r.q \in ProcRecords /\ SameLife(proc[p], r.q)
    /\ FramesInv(r.m, [proc EXCEPT ![p] = r.q])
    /\ Mapped(r.q.map) = Mapped(proc[p].map) \cup S

LEMMA GetAPageFacts ==
    ASSUME MachineInv(mem, proc), NEW p \in Procs, NEW S \in SUBSET UPages,
           S \cap Mapped(proc[p].map) = {}, NEW r, r = GetAPage(mem, proc[p], S)
    PROVE  r.m.halt = "full" \/ GotPages(p, S, r)
<1>1. /\ mem \in MemRecords /\ mem.halt = "no" /\ proc \in [Procs -> ProcRecords]
      /\ FramesInv(mem, proc) /\ proc[p] \in ProcRecords
  BY ProcFacts
<1>2. PICK q : q = [proc[p] EXCEPT !.vbits = proc[p].vbits \cup S]
  OBVIOUS
<1>3. /\ q \in ProcRecords /\ q.map = proc[p].map /\ q.tables = proc[p].tables
      /\ q.vbits = proc[p].vbits \cup S /\ SameLife(proc[p], q)
  BY <1>1, <1>2 DEF ProcRecords, SameLife
<1>4. Wants(mem, proc, p, S, q)
  BY <1>1, <1>3 DEF Wants
<1>5. r = MapUser(mem, q, S)
  BY <1>2 DEF GetAPage
<1>6. r.m.halt = "full" \/ Gets(mem, proc, p, S, q, r)
  BY <1>4, <1>5, MapUserFacts
<1> QED BY <1>3, <1>6 DEF Gets, GotPages, SameLife

\* The first process takes the page of its stack.
LEMMA StartProcessStep ==
    ASSUME MemoryInv, NEW p \in Procs, StartProcess(p)
    PROVE  MemoryInv'
<1>1. Running /\ proc[p].state = "created"
  BY DEF StartProcess
<1>2. /\ MachineInv(mem, proc) /\ heap \in [Owners -> HeapRecords]
      /\ \A x \in Owners : HeapInv(x, heap[x], Area(x, mem, proc))
      /\ count \in [mallocs : Nat, forks : Nat, failed : Nat, exits : Nat]
  BY <1>1, InvRunning
<1>3. PICK M, old, r, q, m2, ps2, S :
        /\ M = Mapped(mem.kmap) /\ old = proc[p] /\ S = {StackPage}
        /\ r = GetAPage(mem, old, S) /\ q = [r.q EXCEPT !.state = "live"]
        /\ m2 = r.m /\ ps2 = [proc EXCEPT ![p] = q]
  OBVIOUS
<1>4. mem' = m2 /\ proc' = ps2 /\ UNCHANGED <<heap, scan, boot, count>>
  BY <1>3 DEF StartProcess
<1>5. /\ proc \in [Procs -> ProcRecords] /\ old \in ProcRecords /\ LifeOf(p, old)
  BY <1>2, <1>3, ProcFacts
<1>6. p = First /\ Mapped(old.map) = {} /\ old.pcb # None /\ old.pgdir # None
  BY <1>1, <1>3, <1>5 DEF LifeOf
<1>7. CASE m2.halt = "full"
  BY <1>2, <1>4, <1>7, InvFull
<1>8. CASE GotPages(p, S, r)
  <2>1. /\ m2 \in MemRecords /\ m2.halt = "no" /\ m2.kmap = mem.kmap
        /\ r.q \in ProcRecords /\ r.q.pcb = old.pcb /\ r.q.vbm = old.vbm /\ r.q.pgdir = old.pgdir
        /\ FramesInv(m2, [proc EXCEPT ![p] = r.q])
        /\ Mapped(r.q.map) = {StackPage}
    BY <1>3, <1>6, <1>8 DEF GotPages, SameLife
  <2>2. /\ q \in ProcRecords /\ q.state = "live" /\ q.pcb = old.pcb /\ q.vbm = old.vbm
        /\ q.pgdir = old.pgdir /\ q.map = r.q.map /\ q.vbits = r.q.vbits
        /\ q.tables = r.q.tables
    BY <2>1, <1>3 DEF ProcRecords
  <2>3. FramesInv(m2, ps2)
    <3>1. PICK ps1 : ps1 = [proc EXCEPT ![p] = r.q]
      OBVIOUS
    <3>2. \A y \in Procs : /\ ps2[y].map = ps1[y].map /\ ps2[y].vbits = ps1[y].vbits
                           /\ Range(ps2[y].tables) = Range(ps1[y].tables)
      BY <3>1, <2>2, <1>3, <1>5
    <3>3. FramesInv(m2, ps1)
      BY <3>1, <2>1
    <3> QED BY <3>2, <3>3, FramesSame
  <2>4. Moves(M, proc, p, q, M) /\ Extra(M, proc, p, q, M) = {}
    BY <2>2, <1>2, <1>3, MovesSame
  <2>5. LifeOf(p, q)
    BY <2>1, <2>2, <1>6 DEF LifeOf
  <2>6. ProcCall(mem, proc, p, q, m2)
    BY <2>1, <2>2, <2>3, <2>4, <2>5, <1>2, <1>3, <1>6 DEF ProcCall
  <2>7. ProcMoved(mem, proc, p, q, m2, ps2)
    BY <2>6, <1>3, ProcCallFacts
  <2>8. 0 = Cardinality(Lose(mem, proc, p, q, m2))
    BY <2>1, <2>4, <1>3, FS_EmptySet DEF Lose
  <2>9. HeapInv(p, heap[p], Mapped(q.map) \ {StackPage})
    <3>1. Area(p, mem, proc) = {}
      BY <1>3, <1>6, ProcsAssumption DEF Area
    <3>2. Mapped(q.map) \ {StackPage} = {}
      BY <2>1, <2>2
    <3> QED BY <3>1, <3>2, <1>2 DEF Owners
  <2>10. HeapsInv([heap EXCEPT ![p] = heap[p]], m2, ps2, Losses(count) + 0)
    BY <2>7, <2>8, <2>9, <1>1, ProcHeap
  <2>11. [heap EXCEPT ![p] = heap[p]] = heap /\ Losses(count) + 0 = Losses(count)
    <3>1. Losses(count) \in Int
      BY <1>2, ConstFacts DEF Losses
    <3> QED BY <3>1, <1>2
  <2>12. MachineInv(m2, ps2)
    BY <2>7 DEF ProcMoved
  <2> QED BY <2>1, <2>10, <2>11, <2>12, <1>2, <1>4 DEF MemoryInv
<1>9. StackPage \in UPages
  BY FrameKinds
<1>10. S \in SUBSET UPages /\ S \cap Mapped(proc[p].map) = {} /\ r = GetAPage(mem, proc[p], S)
  BY <1>3, <1>6, <1>9
<1>11. r.m.halt = "full" \/ GotPages(p, S, r)
  BY <1>2, <1>10, GetAPageFacts
<1> QED BY <1>3, <1>7, <1>8, <1>11

\* exec of a program that has given back its heap.
LEMMA ExecvStep ==
    ASSUME ~CarryHeap, MemoryInv, NEW p \in Procs, Execv(p)
    PROVE  MemoryInv'
<1>1. Running /\ proc[p].state = "live" /\ DOMAIN heap[p].arena = {}
  BY DEF Execv
<1>2. /\ MachineInv(mem, proc) /\ heap \in [Owners -> HeapRecords]
      /\ \A x \in Owners : HeapInv(x, heap[x], Area(x, mem, proc))
      /\ count \in [mallocs : Nat, forks : Nat, failed : Nat, exits : Nat]
  BY <1>1, InvRunning
<1>3. PICK M, old, r, q, m2, ps2, S :
        /\ M = Mapped(mem.kmap) /\ old = proc[p] /\ S = {v \in Text : old.map[v] = None}
        /\ r = GetAPage(mem, old, S) /\ q = r.q
        /\ m2 = r.m /\ ps2 = [proc EXCEPT ![p] = q]
  OBVIOUS
<1>4. /\ mem' = m2 /\ proc' = ps2 /\ UNCHANGED <<scan, boot, count>>
      /\ heap' = [heap EXCEPT ![p].arena = Without(@, Text)]
  BY <1>3 DEF Execv
<1>40. p \in Owners /\ p # Kernel
  BY ProcsAssumption DEF Owners
<1>41. heap' = heap
  <2>1. heap[p] \in HeapRecords /\ heap[p].arena \in Arenas
    BY <1>2, <1>40 DEF HeapRecords
  <2>2. PICK ar : ar = heap[p].arena
    OBVIOUS
  <2>3. ar = [v \in DOMAIN ar |-> ar[v]] /\ DOMAIN ar = {}
    BY <2>1, <2>2, <1>1, ArenasFacts
  <2>4. Without(ar, Text) = [v \in DOMAIN ar |-> ar[v]]
    BY <2>3 DEF Without, Restrict
  <2>5. Without(ar, Text) = ar
    BY <2>3, <2>4
  <2>6. heap' = [heap EXCEPT ![p].arena = ar]
    BY <2>2, <2>5, <1>4
  <2>7. [heap[p] EXCEPT !.arena = ar] = heap[p]
    BY <2>1, <2>2 DEF HeapRecords
  <2> QED BY <2>6, <2>7, <1>2, <1>40
<1>5. /\ proc \in [Procs -> ProcRecords] /\ old \in ProcRecords /\ LifeOf(p, old)
      /\ proc[First].state = "none" => proc[p].state = "none"
  BY <1>2, <1>3, ProcFacts
<1>6. /\ StackPage \in Mapped(old.map) /\ old.pcb # None /\ old.pgdir # None
      /\ p # First => old.vbm # None
  BY <1>1, <1>3, <1>5 DEF LifeOf
<1>7. CASE m2.halt = "full"
  BY <1>2, <1>4, <1>7, InvFull
<1>8. CASE GotPages(p, S, r)
  <2>1. /\ m2 \in MemRecords /\ m2.halt = "no" /\ m2.kmap = mem.kmap
        /\ q \in ProcRecords /\ q.state = "live" /\ q.pcb = old.pcb /\ q.vbm = old.vbm
        /\ q.pgdir = old.pgdir /\ FramesInv(m2, ps2)
        /\ Mapped(q.map) = Mapped(old.map) \cup S
    BY <1>1, <1>3, <1>8, Zenon DEF GotPages, SameLife
  <2>4. Moves(M, proc, p, q, M) /\ Extra(M, proc, p, q, M) = {}
    BY <2>1, <1>2, <1>3, MovesSame, Zenon
  <2>5. LifeOf(p, q)
    BY <2>1, <1>6 DEF LifeOf
  <2>6. ProcCall(mem, proc, p, q, m2)
    BY <2>1, <2>4, <2>5, <1>1, <1>2, <1>3, <1>5, Zenon DEF ProcCall
  <2>7. ProcMoved(mem, proc, p, q, m2, ps2)
    BY <2>6, <1>3, ProcCallFacts, Zenon
  <2>8. 0 = Cardinality(Lose(mem, proc, p, q, m2))
    BY <2>1, <2>4, <1>3, FS_EmptySet, Zenon DEF Lose
  <2>9. HeapInv(p, heap[p], Mapped(q.map) \ {StackPage})
    <3>1. Area(p, mem, proc) \subseteq Mapped(q.map) \ {StackPage}
      BY <2>1, <1>3, <1>40, Zenon DEF Area
    <3>2. HeapBut(p, heap[p], Area(p, mem, proc), None)
      BY <1>2, <1>40 DEF HeapInv
    <3>3. HeapBut(p, heap[p], Mapped(q.map) \ {StackPage}, None)
      BY <3>1, <3>2, HeapGrow
    <3> QED BY <3>3 DEF HeapInv
  <2>10. HeapsInv([heap EXCEPT ![p] = heap[p]], m2, ps2, Losses(count) + 0)
    BY <2>7, <2>8, <2>9, <1>1, ProcHeap
  <2>11. [heap EXCEPT ![p] = heap[p]] = heap /\ Losses(count) + 0 = Losses(count)
    <3>1. Losses(count) \in Int
      BY <1>2, ConstFacts DEF Losses
    <3> QED BY <3>1, <1>2
  <2>12. MachineInv(m2, ps2)
    BY <2>7 DEF ProcMoved
  <2> QED BY <2>1, <2>10, <2>11, <2>12, <1>2, <1>4, <1>41, Zenon DEF MemoryInv
<1>10. S \in SUBSET UPages /\ S \cap Mapped(proc[p].map) = {} /\ r = GetAPage(mem, proc[p], S)
  BY <1>3, ProcsAssumption DEF Mapped, UPages
<1>11. r.m.halt = "full" \/ GotPages(p, S, r)
  BY <1>2, <1>10, GetAPageFacts
<1> QED BY <1>3, <1>7, <1>8, <1>11

\* A process that was not there, on kernel pages that were not mapped.
Builds(M, ps, p, q, a, V, d, M2) ==
    /\ M \subseteq Pages /\ M2 \subseteq Pages /\ ps \in [Procs -> ProcRecords] /\ p \in Procs
    /\ PagesInv(M, ps) /\ ps[p] = NoProcess
    /\ Piece(q, "pcb") = {a} /\ Piece(q, "pgdir") = {d} /\ Piece(q, "vbm") = V
    /\ M2 = M \cup {a} \cup V \cup {d}
    /\ a \notin M /\ V \cap M = {} /\ a \notin V /\ d \notin M /\ d # a /\ d \notin V

LEMMA BuildsFacts ==
    ASSUME NEW M, NEW ps, NEW p, NEW q, NEW a, NEW V, NEW d, NEW M2,
           Builds(M, ps, p, q, a, V, d, M2)
    PROVE  Moves(M, ps, p, q, M2) /\ Extra(M, ps, p, q, M2) = {}
<1> USE DEF Builds
<1>1. PiecesOf(ps[p]) = {} /\ PiecesOf(q) = {a} \cup {d} \cup V
  BY NoProcessFacts, PiecesAre
<1>2. \A w \in What : Piece(q, w) \subseteq M2
  BY DEF What
<1>3. \A w, u \in What : w # u => Piece(q, w) \cap Piece(q, u) = {}
  BY DEF What
<1>4. PiecesOf(q) \cap M \subseteq PiecesOf(ps[p]) /\ M \ PiecesOf(ps[p]) \subseteq M2
  BY <1>1
<1>5. Extra(M, ps, p, q, M2) = {}
  BY <1>1 DEF Extra
<1> QED BY <1>2, <1>3, <1>4, <1>5 DEF Moves

\* process_execute.  When no pages are adjacent for the address bitmap, the
\* process has none.
LEMMA ProcessExecuteStep ==
    ASSUME MemoryInv, NEW p \in Procs, ProcessExecute(p)
    PROVE  MemoryInv'
<1>1. Running /\ p = First /\ proc[p].state = "none"
  BY DEF ProcessExecute
<1>2. /\ MachineInv(mem, proc) /\ heap \in [Owners -> HeapRecords]
      /\ count \in [mallocs : Nat, forks : Nat, failed : Nat, exits : Nat]
  BY <1>1, InvRunning
<1>3. PICK M, r1, r2, r3, m1, m2, m3, q, ps2, a, vbm, d, c :
        /\ M = Mapped(mem.kmap) /\ c = CeilPages
        /\ r1 = MallocKernel(mem, 1) /\ m1 = r1.m /\ a = r1.at
        /\ r2 = MallocKernel(m1, c) /\ m2 = r2.m /\ vbm = r2.at
        /\ r3 = MallocKernel(m2, 1) /\ m3 = r3.m /\ d = r3.at
        /\ q = [NoProcess EXCEPT !.state = "created", !.pcb = a, !.vbm = vbm, !.pgdir = d]
        /\ ps2 = [proc EXCEPT ![p] = q]
  BY Zenon
<1>4. /\ mem' = m3 /\ proc' = ps2 /\ heap' = [heap EXCEPT ![p] = EmptyHeap]
      /\ UNCHANGED <<scan, boot, count>>
  BY <1>3 DEF ProcessExecute
<1>5. /\ mem \in MemRecords /\ mem.halt = "no" /\ proc \in [Procs -> ProcRecords]
      /\ FramesInv(mem, proc) /\ PagesInv(M, proc) /\ M \subseteq Pages /\ LifeOf(p, proc[p])
  BY <1>2, <1>3, ProcFacts
<1>6. proc[p] = NoProcess
  BY <1>1, <1>5 DEF LifeOf
<1>7. c \in Nat \ {0}
  BY <1>3, ConstFacts
<1>8. CASE m1.halt = "full"
  <2>1. m3.halt = "full"
    BY <1>3, <1>8, HaltedStays
  <2> QED BY <2>1, <1>2, <1>4, InvFull
<1>9. CASE m2.halt = "full"
  <2>1. m3.halt = "full"
    BY <1>3, <1>9, HaltedStays
  <2> QED BY <2>1, <1>2, <1>4, InvFull
<1>10. CASE m3.halt = "full"
  BY <1>2, <1>4, <1>10, InvFull
<1>11. ASSUME m1.halt # "full", m2.halt # "full", m3.halt # "full" PROVE MemoryInv'
  <2>1. KernelGot(mem, proc, {a}, r1)
    <3>1. AsksKernel(mem, proc, 1, r1)
      BY <1>3, <1>5 DEF AsksKernel
    <3> QED BY <3>1, <1>3, <1>11, AsksOne
  <2>2. /\ m1 \in MemRecords /\ m1.halt = "no" /\ FramesInv(m1, proc)
        /\ a \in Pages /\ a \notin M /\ Mapped(m1.kmap) = M \cup {a}
    BY <2>1, <1>3 DEF KernelGot
  <2>3. PICK V : V = IF vbm = None THEN {} ELSE vbm .. vbm + c - 1
    OBVIOUS
  <2>4. /\ m2 \in MemRecords /\ m2.halt = "no" /\ FramesInv(m2, proc)
        /\ vbm \in Pages \cup {None} /\ V \subseteq Pages /\ V \cap (M \cup {a}) = {}
        /\ Mapped(m2.kmap) = M \cup {a} \cup V
    <3>1. AsksKernel(m1, proc, c, r2)
      BY <2>2, <1>3, <1>5, <1>7 DEF AsksKernel
    <3>2. \/ m2.halt = "full"
          \/ m2 = m1 /\ vbm = None /\ c # 1
          \/ KernelGot(m1, proc, vbm .. vbm + c - 1, r2)
      BY <3>1, <1>3, AsksKernelFacts
    <3>3. CASE m2 = m1 /\ vbm = None
      BY <3>3, <2>2, <2>3
    <3>4. CASE KernelGot(m1, proc, vbm .. vbm + c - 1, r2)
      <4>1. vbm \in Pages /\ vbm # None
        BY <3>4, <1>3, FrameKinds DEF KernelGot
      <4>2. V = vbm .. vbm + c - 1
        BY <4>1, <2>3
      <4>3. KernelGot(m1, proc, V, r2)
        BY <3>4, <4>2
      <4> QED BY <4>1, <4>3, <2>2, <1>3 DEF KernelGot
    <3> QED BY <3>2, <3>3, <3>4, <1>11
  <2>5. /\ m3 \in MemRecords /\ m3.halt = "no" /\ FramesInv(m3, proc)
        /\ d \in Pages /\ d \notin M \cup {a} \cup V /\ Mapped(m3.kmap) = M \cup {a} \cup V \cup {d}
    <3>1. AsksKernel(m2, proc, 1, r3)
      BY <2>4, <1>3, <1>5 DEF AsksKernel
    <3>2. KernelGot(m2, proc, {d}, r3)
      BY <3>1, <1>3, <1>11, AsksOne
    <3> QED BY <3>2, <2>4, <1>3 DEF KernelGot
  <2>6. /\ q \in ProcRecords /\ q.state = "created" /\ q.pcb = a /\ q.vbm = vbm /\ q.pgdir = d
        /\ q.vbits = NoProcess.vbits /\ q.map = NoProcess.map /\ q.tables = NoProcess.tables
    BY <2>2, <2>4, <2>5, <1>3, NoProcessFacts DEF ProcRecords
  <2>7. a # None /\ d # None
    BY <2>2, <2>5, FrameKinds
  <2>8. Piece(q, "pcb") = {a} /\ Piece(q, "pgdir") = {d} /\ Piece(q, "vbm") = V
    <3>1. /\ Piece(q, "pcb") = {q.pcb} \ {None} /\ Piece(q, "pgdir") = {q.pgdir} \ {None}
          /\ q.vbm = None => Piece(q, "vbm") = {}
          /\ q.vbm # None => Piece(q, "vbm") = q.vbm .. q.vbm + CeilPages - 1
      BY PiecesAre
    <3>2. Piece(q, "vbm") = V
      <4>1. CASE vbm = None
        BY <4>1, <3>1, <2>3, <2>6
      <4>2. CASE vbm # None
        <5>1. V = vbm .. vbm + CeilPages - 1
          BY <4>2, <2>3, <1>3
        <5> QED BY <5>1, <4>2, <3>1, <2>6
      <4> QED BY <4>1, <4>2
    <3>3. Piece(q, "pcb") = {a} /\ Piece(q, "pgdir") = {d}
      BY <3>1, <2>6, <2>7
    <3> QED BY <3>2, <3>3
  <2>9. PICK M2 : M2 = Mapped(m3.kmap)
    OBVIOUS
  <2>10. Builds(M, proc, p, q, a, V, d, M2)
    BY <2>2, <2>4, <2>5, <2>8, <2>9, <1>5, <1>6 DEF Builds
  <2>11. Moves(M, proc, p, q, M2) /\ Extra(M, proc, p, q, M2) = {}
    BY <2>10, BuildsFacts
  <2>12. FramesInv(m3, ps2)
    <3>1. \A y \in Procs : /\ ps2[y].map = proc[y].map /\ ps2[y].vbits = proc[y].vbits
                           /\ Range(ps2[y].tables) = Range(proc[y].tables)
      BY <2>6, <1>3, <1>5, <1>6
    <3> QED BY <3>1, <2>5, FramesSame
  <2>13. LifeOf(p, q)
    BY <2>6, <2>7, <1>1, NoProcessFacts DEF LifeOf
  <2>14. ProcCall(mem, proc, p, q, m3)
    BY <2>5, <2>6, <2>9, <2>11, <2>12, <2>13, <1>1, <1>2, <1>3 DEF ProcCall
  <2>15. ProcMoved(mem, proc, p, q, m3, ps2)
    BY <2>14, <1>3, ProcCallFacts
  <2>16. 0 = Cardinality(Lose(mem, proc, p, q, m3))
    BY <2>9, <2>11, <1>3, FS_EmptySet DEF Lose
  <2>17. HeapInv(p, EmptyHeap, Mapped(q.map) \ {StackPage})
    BY HeapEmpty
  <2>18. HeapsInv([heap EXCEPT ![p] = EmptyHeap], m3, ps2, Losses(count) + 0)
    BY <2>15, <2>16, <2>17, <1>1, ProcHeap
  <2>19. Losses(count) + 0 = Losses(count)
    <3>1. Losses(count) \in Int
      BY <1>2, ConstFacts DEF Losses
    <3> QED BY <3>1
  <2>20. MachineInv(m3, ps2)
    BY <2>15 DEF ProcMoved
  <2> QED BY <2>5, <2>18, <2>19, <2>20, <1>2, <1>4 DEF MemoryInv
<1> QED BY <1>8, <1>9, <1>10, <1>11

\* fork's first two pages, PCB and buffer.
ForkPages(M, a, buf, m2) ==
    /\ m2 \in MemRecords /\ m2.halt = "no" /\ FramesInv(m2, proc)
    /\ a \in Pages /\ a \notin M /\ buf \in Pages /\ buf \notin M \cup {a}
    /\ Mapped(m2.kmap) = M \cup {a} \cup {buf}

LEMMA ForkPagesFacts ==
    ASSUME MachineInv(mem, proc), NEW r1, r1 = MallocKernel(mem, 1),
           NEW r2, r2 = MallocKernel(r1.m, 1)
    PROVE  r2.m.halt = "full" \/ ForkPages(Mapped(mem.kmap), r1.at, r2.at, r2.m)
<1>1. PICK M, m1, m2, a, buf : /\ M = Mapped(mem.kmap) /\ m1 = r1.m /\ m2 = r2.m
                               /\ a = r1.at /\ buf = r2.at
  OBVIOUS
<1>2. /\ mem \in MemRecords /\ mem.halt = "no" /\ proc \in [Procs -> ProcRecords]
      /\ FramesInv(mem, proc)
  BY DEF MachineInv
<1>3. CASE m1.halt = "full"
  <2>1. r2.m = r1.m
    BY <1>1, <1>3, HaltedStays
  <2> QED BY <2>1, <1>1, <1>3
<1>4. CASE m1.halt # "full"
  <2>1. AsksKernel(mem, proc, 1, r1)
    BY <1>2 DEF AsksKernel
  <2>2. KernelGot(mem, proc, {a}, r1)
    BY <2>1, <1>1, <1>4, AsksOne
  <2>3. /\ m1 \in MemRecords /\ m1.halt = "no" /\ FramesInv(m1, proc)
        /\ a \in Pages /\ a \notin M /\ Mapped(m1.kmap) = M \cup {a}
    BY <2>2, <1>1 DEF KernelGot
  <2>4. AsksKernel(m1, proc, 1, r2)
    BY <2>3, <1>1, <1>2 DEF AsksKernel
  <2>5. m2.halt = "full" \/ KernelGot(m1, proc, {buf}, r2)
    BY <2>4, <1>1, AsksOne
  <2>6. ASSUME KernelGot(m1, proc, {buf}, r2) PROVE ForkPages(M, a, buf, m2)
    BY <2>3, <2>6, <1>1 DEF KernelGot, ForkPages
  <2> QED BY <2>5, <2>6, <1>1
<1> QED BY <1>3, <1>4

\* fork that finds no adjacent pages for the bitmap leaves PCB and buffer behind.
LEMMA ForkFailed ==
    ASSUME MemoryInv, Running, NEW p \in Procs, proc[p].state = "live",
           NEW r1, r1 = MallocKernel(mem, 1), NEW r2, r2 = MallocKernel(r1.m, 1),
           NEW r3, r3 = MallocKernel(r2.m, CeilPages), r3.m.halt = "no", r3.at = None,
           mem' = r3.m, UNCHANGED <<proc, heap, scan, boot>>,
           count' = [count EXCEPT !.forks = @ + 1, !.failed = @ + 1]
    PROVE  MemoryInv'
<1>1. /\ MachineInv(mem, proc) /\ heap \in [Owners -> HeapRecords]
      /\ \A x \in Owners : HeapInv(x, heap[x], Area(x, mem, proc))
      /\ count \in [mallocs : Nat, forks : Nat, failed : Nat, exits : Nat]
  BY InvRunning
<1>2. PICK M, a, buf, m2, q : /\ M = Mapped(mem.kmap) /\ a = r1.at /\ buf = r2.at
                                 /\ m2 = r2.m /\ q = proc[p]
  OBVIOUS
<1>3. p \in Owners /\ p # Kernel
  BY <1>2, ProcsAssumption DEF Owners
<1>4. /\ proc \in [Procs -> ProcRecords] /\ PagesInv(M, proc) /\ q \in ProcRecords /\ LifeOf(p, q)
      /\ \A w \in What : Piece(q, w) \subseteq M
      /\ \A w, u \in What : w # u => Piece(q, w) \cap Piece(q, u) = {}
      /\ M \subseteq Pages
      /\ proc[First].state = "none" => proc[p].state = "none"
  BY <1>1, <1>2, <1>3, ProcFacts
<1>5. ForkPages(M, a, buf, m2)
  <2>1. m2.halt # "full"
    <3> SUFFICES ASSUME m2.halt = "full" PROVE FALSE
      OBVIOUS
    <3>1. r3.m = m2
      BY <1>2, HaltedStays
    <3> QED BY <3>1
  <2> QED BY <2>1, <1>1, <1>2, ForkPagesFacts
<1>6. /\ m2 \in MemRecords /\ m2.halt = "no" /\ FramesInv(m2, proc)
      /\ a \in Pages /\ a \notin M /\ buf \in Pages /\ buf \notin M \cup {a}
      /\ Mapped(m2.kmap) = M \cup {a} \cup {buf}
  BY <1>5 DEF ForkPages
<1>7. r3.m = m2
  <2>1. CeilPages \in Nat \ {0}
    BY ConstFacts
  <2>2. AsksKernel(m2, proc, CeilPages, r3)
    BY <2>1, <1>2, <1>4, <1>6 DEF AsksKernel
  <2>3. \/ r3.m.halt = "full"
        \/ r3.m = m2 /\ r3.at = None /\ CeilPages # 1
        \/ KernelGot(m2, proc, r3.at .. r3.at + CeilPages - 1, r3)
    BY <2>2, AsksKernelFacts
  <2>4. ~KernelGot(m2, proc, r3.at .. r3.at + CeilPages - 1, r3)
    BY FrameKinds DEF KernelGot
  <2> QED BY <2>3, <2>4
<1>8. PiecesOf(q) \subseteq M
  BY <1>4 DEF PiecesOf
<1>9. PICK M2 : M2 = Mapped(m2.kmap)
  OBVIOUS
<1>10. Moves(M, proc, p, q, M2)
  <2>1. M \subseteq M2 /\ M2 \subseteq Pages /\ q = proc[p]
    BY <1>2, <1>4, <1>6, <1>9
  <2> QED BY <2>1, <1>3, <1>4 DEF Moves
<1>11. [proc EXCEPT ![p] = q] = proc
  BY <1>2, <1>4
<1>12. ProcCall(mem, proc, p, q, m2)
  BY <1>1, <1>2, <1>3, <1>4, <1>6, <1>9, <1>10, <1>11 DEF ProcCall
<1>13. ProcMoved(mem, proc, p, q, m2, proc)
  BY <1>11, <1>12, ProcCallFacts
<1>14. 2 = Cardinality(Lose(mem, proc, p, q, m2))
  <2>1. Lose(mem, proc, p, q, m2) = (M2 \ (M \ PiecesOf(q))) \ PiecesOf(q)
    BY <1>2, <1>9 DEF Lose, Extra
  <2>2. \A v : v \in (M2 \ (M \ PiecesOf(q))) \ PiecesOf(q) <=> v \in {a} \cup {buf}
    BY <1>6, <1>8, <1>9
  <2>3. Lose(mem, proc, p, q, m2) = {a} \cup {buf}
    BY <2>1, <2>2
  <2>4. IsFiniteSet({a}) /\ Cardinality({a}) = 1
    BY FS_Singleton
  <2>5. buf \notin {a}
    BY <1>6
  <2>6. Cardinality({a} \cup {buf}) = 1 + 1
    BY <2>4, <2>5, FS_AddElement
  <2> QED BY <2>3, <2>6
<1>15. HeapInv(p, heap[p], Mapped(q.map) \ {StackPage})
  <2>1. Area(p, mem, proc) = Mapped(q.map) \ {StackPage}
    BY <1>2, <1>3 DEF Area
  <2> QED BY <2>1, <1>1, <1>3
<1>16. HeapsInv([heap EXCEPT ![p] = heap[p]], m2, proc, Losses(count) + 2)
  BY <1>13, <1>14, <1>15, ProcHeap
<1>17. [heap EXCEPT ![p] = heap[p]] = heap
  BY <1>1
<1>18. /\ count' \in [mallocs : Nat, forks : Nat, failed : Nat, exits : Nat]
       /\ count'.exits = count.exits /\ count'.failed = count.failed + 1
  <2>1. PICK c : c = count
    OBVIOUS
  <2>2. /\ c \in [mallocs : Nat, forks : Nat, failed : Nat, exits : Nat]
        /\ count' = [c EXCEPT !.forks = c.forks + 1, !.failed = c.failed + 1]
    BY <1>1, <2>1
  <2>3. c.forks + 1 \in Nat /\ c.failed + 1 \in Nat
    BY <2>2
  <2> QED BY <2>1, <2>2, <2>3
<1>19. Losses(count') = Losses(count) + 2
  <2>1. PICK k, f : k = count.exits * (CeilPages - FloorPages) /\ f = count.failed
    OBVIOUS
  <2>2. k \in Int /\ f \in Int
    BY <2>1, <1>1, ConstFacts
  <2>3. k + 2 * (f + 1) = (k + 2 * f) + 2
    BY <2>2
  <2> QED BY <2>1, <2>3, <1>18 DEF Losses
<1>20. MachineInv(m2, proc)
  BY <1>13 DEF ProcMoved
<1> QED BY <1>6, <1>7, <1>16, <1>17, <1>18, <1>19, <1>20 DEF MemoryInv

\* fork that is not stopped by a lack of adjacent pages.
ForkCall(p, ch, r1, r2, r3, r4, q0, r5, m6) ==
    /\ proc[p].state = "live" /\ proc[ch].state = "none"
    /\ r1 = MallocKernel(mem, 1) /\ r2 = MallocKernel(r1.m, 1)
    /\ r3 = MallocKernel(r2.m, CeilPages) /\ ~(r3.m.halt = "no" /\ r3.at = None)
    /\ r4 = MallocKernel(r3.m, 1)
    /\ q0 = [NoProcess EXCEPT !.state = "live", !.pcb = r1.at, !.vbm = r3.at,
                              !.pgdir = r4.at, !.vbits = proc[p].vbits]
    /\ r5 = MapUser(r4.m, q0, proc[p].vbits)
    /\ m6 = MfreeKernel(r5.m, r2.at, 1)

\* The child has a PCB, a bitmap, a page directory and a frame for every page of
\* the parent.
ForkChild(p, ch, q, m6) ==
    /\ m6.halt = "no"
    /\ ProcMoved(mem, proc, ch, q, m6, [proc EXCEPT ![ch] = q])
    /\ Cardinality(Lose(mem, proc, ch, q, m6)) = 0
    /\ Mapped(q.map) = Mapped(proc[p].map)

LEMMA ForkCallFacts ==
    ASSUME MachineInv(mem, proc), NEW p \in Procs, NEW ch \in Procs,
           NEW r1, NEW r2, NEW r3, NEW r4, NEW q0, NEW r5, NEW m6,
           ForkCall(p, ch, r1, r2, r3, r4, q0, r5, m6)
    PROVE  m6.halt = "full" \/ ForkChild(p, ch, r5.q, m6)
<1>1. PICK M, a, buf, vbm, d, c : /\ M = Mapped(mem.kmap) /\ c = CeilPages
                                  /\ a = r1.at /\ buf = r2.at /\ vbm = r3.at /\ d = r4.at
  OBVIOUS
<1>2. PICK m2, m3, m4, m5, q, S, ps2 :
        /\ m2 = r2.m /\ m3 = r3.m /\ m4 = r4.m /\ m5 = r5.m
        /\ q = r5.q /\ S = proc[p].vbits /\ ps2 = [proc EXCEPT ![ch] = q]
  OBVIOUS
<1>3. /\ r1 = MallocKernel(mem, 1) /\ r2 = MallocKernel(r1.m, 1)
      /\ r3 = MallocKernel(m2, c) /\ r4 = MallocKernel(m3, 1) /\ r5 = MapUser(m4, q0, S)
      /\ m6 = MfreeKernel(m5, buf, 1)
      /\ ~(m3.halt = "no" /\ vbm = None)
      /\ proc[p].state = "live" /\ proc[ch].state = "none"
  BY <1>1, <1>2, Zenon DEF ForkCall
<1>4. q0 = [NoProcess EXCEPT !.state = "live", !.pcb = a, !.vbm = vbm,
                             !.pgdir = d, !.vbits = S]
  BY <1>1, <1>2, Zenon DEF ForkCall
<1>5. \A r, m, n : r = MallocKernel(m, n) /\ m.halt = "full" => r.m.halt = "full"
  BY HaltedStays
<1>6. CASE m2.halt = "full" \/ m3.halt = "full" \/ m4.halt = "full" \/ m5.halt = "full"
  <2>1. m2.halt = "full" => m3.halt = "full"
    BY <1>5, <1>2, <1>3, Zenon
  <2>2. m3.halt = "full" => m4.halt = "full"
    BY <1>5, <1>2, <1>3, Zenon
  <2>3. m4.halt = "full" => m5.halt = "full"
    <3>1. ASSUME m4.halt = "full" PROVE m5 = m4
      <4>1. m4.halt # "no"
        BY <3>1
      <4>2. MapUser(m4, q0, S).m = m4
        BY <4>1, HaltedStays
      <4> QED BY <4>2, <1>2, <1>3, Zenon
    <3> QED BY <3>1
  <2>4. m5.halt = "full" => m6.halt = "full"
    <3>1. ASSUME m5.halt = "full" PROVE m6 = m5
      <4>1. m5.halt # "no"
        BY <3>1
      <4> QED BY <4>1, <1>3, HaltedStays
    <3> QED BY <3>1
  <2> QED BY <1>6, <2>1, <2>2, <2>3, <2>4
<1>7. SUFFICES ASSUME m2.halt # "full", m3.halt # "full", m4.halt # "full", m5.halt # "full"
               PROVE  ForkChild(p, ch, q, m6)
  BY <1>2, <1>6
<1>8. /\ proc \in [Procs -> ProcRecords] /\ PagesInv(M, proc) /\ M \subseteq Pages
      /\ proc[p] \in ProcRecords /\ LifeOf(p, proc[p]) /\ S = Mapped(proc[p].map)
      /\ proc[First].state = "none" => proc[p].state = "none"
  BY <1>1, <1>2, ProcFacts
<1>9. LifeOf(ch, proc[ch])
  BY ProcFacts
<1>10. proc[ch] = NoProcess /\ ch # First /\ proc[First].state # "none" /\ StackPage \in S
  BY <1>3, <1>8, <1>9 DEF LifeOf
<1>11. ForkPages(M, a, buf, m2)
  BY <1>1, <1>2, <1>3, <1>7, ForkPagesFacts, Zenon
<1>12. /\ m2 \in MemRecords /\ m2.halt = "no" /\ FramesInv(m2, proc)
      /\ a \in Pages /\ a \notin M /\ buf \in Pages /\ buf \notin M \cup {a}
      /\ Mapped(m2.kmap) = M \cup {a} \cup {buf}
  BY <1>11 DEF ForkPages
<1>13. PICK V : V = vbm .. vbm + c - 1
  OBVIOUS
<1>14. KernelGot(m2, proc, V, r3)
  <2>1. c \in Nat \ {0}
    BY <1>1, <1>2, ConstFacts
  <2>2. AsksKernel(m2, proc, c, r3)
    BY <2>1, <1>8, <1>12, <1>3 DEF AsksKernel
  <2>3. \/ r3.m.halt = "full"
        \/ r3.m = m2 /\ r3.at = None /\ c # 1
        \/ KernelGot(m2, proc, r3.at .. r3.at + c - 1, r3)
    BY <2>2, AsksKernelFacts
  <2> QED BY <2>3, <1>12, <1>13, <1>1, <1>2, <1>3, <1>7, Zenon
<1>15. /\ m3 \in MemRecords /\ m3.halt = "no" /\ FramesInv(m3, proc) /\ vbm \in Pages
      /\ V \subseteq Pages /\ V \cap (M \cup {a} \cup {buf}) = {}
      /\ Mapped(m3.kmap) = M \cup {a} \cup {buf} \cup V
  BY <1>12, <1>14, <1>1, <1>2 DEF KernelGot
<1>16. /\ m4 \in MemRecords /\ m4.halt = "no" /\ FramesInv(m4, proc) /\ d \in Pages
      /\ d \notin M \cup {a} \cup {buf} \cup V
      /\ Mapped(m4.kmap) = M \cup {a} \cup {buf} \cup V \cup {d}
  <2>1. AsksKernel(m3, proc, 1, r4)
    BY <1>8, <1>15, <1>3 DEF AsksKernel
  <2>2. KernelGot(m3, proc, {d}, r4)
    BY <2>1, <1>1, <1>2, <1>7, AsksOne
  <2> QED BY <2>2, <1>15, <1>1, <1>2 DEF KernelGot
<1>17. /\ q0 \in ProcRecords /\ q0.state = "live" /\ q0.pcb = a /\ q0.vbm = vbm
       /\ q0.pgdir = d /\ q0.vbits = S /\ q0.map = NoProcess.map /\ q0.tables = NoProcess.tables
  <2>1. S \in SUBSET UPages
    BY <1>8, <1>1, <1>2 DEF ProcRecords
  <2> QED BY <2>1, <1>12, <1>15, <1>16, <1>4, NoProcessFacts DEF ProcRecords
<1>18. Wants(m4, proc, ch, S, q0)
  <2>1. S \in SUBSET UPages
    BY <1>8, <1>1, <1>2 DEF ProcRecords
  <2>2. Mapped(proc[ch].map) = {} /\ proc[ch].vbits = {}
    BY <1>10, NoProcessFacts
  <2>3. q0.map = proc[ch].map /\ q0.tables = proc[ch].tables /\ q0.vbits = proc[ch].vbits \cup S
    BY <2>2, <1>10, <1>17
  <2> QED BY <2>1, <2>2, <2>3, <1>8, <1>16, <1>17 DEF Wants
<1>19. Gets(m4, proc, ch, S, q0, r5)
  <2>1. \/ MapUser(m4, q0, S).m \in MemRecords /\ MapUser(m4, q0, S).m.halt = "full"
        \/ Gets(m4, proc, ch, S, q0, MapUser(m4, q0, S))
    BY <1>18, MapUserFacts
  <2> QED BY <2>1, <1>1, <1>2, <1>3, <1>7, Zenon
<1>20. /\ m5 \in MemRecords /\ m5.halt = "no" /\ m5.kmap = m4.kmap
       /\ q \in ProcRecords /\ SameLife(q0, q) /\ FramesInv(m5, ps2)
       /\ Mapped(q.map) = Mapped(proc[ch].map) \cup S
  BY <1>19, <1>1, <1>2 DEF Gets
<1>21. q.state = "live" /\ q.pcb = a /\ q.vbm = vbm /\ q.pgdir = d /\ Mapped(q.map) = S
  BY <1>10, <1>17, <1>20, NoProcessFacts DEF SameLife
<1>22. PICK M2 : M2 = Mapped(m6.kmap)
  OBVIOUS
<1>23. /\ m6 \in MemRecords /\ m6.halt = "no" /\ FramesInv(m6, ps2)
       /\ M2 = M \cup {a} \cup V \cup {d}
  <2>1. buf \in Int /\ buf .. buf + 1 - 1 = {buf}
    BY <1>12, ConstFacts DEF Pages
  <2>2. ps2 \in [Procs -> ProcRecords]
    BY <1>8, <1>20, <1>1, <1>2
  <2>3. buf .. buf + 1 - 1 \subseteq Mapped(m5.kmap)
    BY <2>1, <1>16, <1>20
  <2>4. FreesKernel(m5, ps2, buf, 1, m6)
    BY <2>1, <2>2, <2>3, <1>20, <1>3 DEF FreesKernel
  <2>5. KernelFreed(m5, ps2, {buf}, m6)
    BY <2>1, <2>4, FreesKernelFacts
  <2>6. m6 \in MemRecords /\ m6.halt = "no" /\ FramesInv(m6, ps2) /\ M2 = Mapped(m5.kmap) \ {buf}
    BY <2>5, <1>22 DEF KernelFreed
  <2>7. \A v : v \in Mapped(m5.kmap) \ {buf} <=> v \in M \cup {a} \cup V \cup {d}
    BY <1>12, <1>15, <1>16, <1>20
  <2> QED BY <2>6, <2>7
<1>24. a # None /\ d # None /\ vbm # None
  BY <1>12, <1>15, <1>16, FrameKinds
<1>25. Piece(q, "pcb") = {a} /\ Piece(q, "pgdir") = {d} /\ Piece(q, "vbm") = V
  <2>1. /\ Piece(q, "pcb") = {q.pcb} \ {None} /\ Piece(q, "pgdir") = {q.pgdir} \ {None}
        /\ q.vbm # None => Piece(q, "vbm") = q.vbm .. q.vbm + CeilPages - 1
    BY PiecesAre
  <2> QED BY <2>1, <1>13, <1>21, <1>24, <1>1, <1>2
<1>26. Builds(M, proc, ch, q, a, V, d, M2)
  <2>1. a \notin V /\ V \cap M = {} /\ d \notin M /\ d # a /\ d \notin V
    BY <1>12, <1>15, <1>16
  <2>2. M2 \subseteq Pages
    BY <1>8, <1>12, <1>15, <1>16, <1>23
  <2> QED BY <2>1, <2>2, <1>8, <1>10, <1>12, <1>23, <1>25 DEF Builds
<1>27. Moves(M, proc, ch, q, M2) /\ Extra(M, proc, ch, q, M2) = {}
  BY <1>26, BuildsFacts
<1>28. LifeOf(ch, q)
  BY <1>10, <1>21, <1>24 DEF LifeOf
<1>29. ProcCall(mem, proc, ch, q, m6)
  BY <1>10, <1>20, <1>21, <1>22, <1>23, <1>27, <1>28, <1>1, <1>2 DEF ProcCall
<1>30. ProcMoved(mem, proc, ch, q, m6, ps2)
  BY <1>29, <1>1, <1>2, ProcCallFacts
<1>31. 0 = Cardinality(Lose(mem, proc, ch, q, m6))
  BY <1>22, <1>27, <1>1, <1>2, FS_EmptySet DEF Lose
<1>32. m6.halt = "no" /\ Mapped(q.map) = Mapped(proc[p].map)
  BY <1>8, <1>21, <1>23
<1> QED BY <1>1, <1>2, <1>30, <1>31, <1>32 DEF ForkChild

\* The child's copy of heap h.
CopiedHeap(h, g) ==
    g = [EmptyHeap EXCEPT
           !.arena = [v \in DOMAIN h.arena |-> [h.arena[v] EXCEPT !.old = TRUE]],
           !.held = h.held]

LEMMA ForkMade ==
    ASSUME MemoryInv, Running, NEW p \in Procs, NEW ch \in Procs,
           NEW r1, NEW r2, NEW r3, NEW r4, NEW q0, NEW r5, NEW m6,
           ForkCall(p, ch, r1, r2, r3, r4, q0, r5, m6),
           NEW g, CopiedHeap(heap[p], g),
           mem' = m6, proc' = [proc EXCEPT ![ch] = r5.q],
           heap' = [heap EXCEPT ![ch] = g], UNCHANGED <<scan, boot>>,
           count' = [count EXCEPT !.forks = @ + 1]
    PROVE  MemoryInv'
<1>1. /\ MachineInv(mem, proc) /\ heap \in [Owners -> HeapRecords]
      /\ \A x \in Owners : HeapInv(x, heap[x], Area(x, mem, proc))
      /\ count \in [mallocs : Nat, forks : Nat, failed : Nat, exits : Nat]
  BY InvRunning
<1>2. /\ count' \in [mallocs : Nat, forks : Nat, failed : Nat, exits : Nat]
      /\ count'.exits = count.exits /\ count'.failed = count.failed
  <2>1. ASSUME NEW k, k \in [mallocs : Nat, forks : Nat, failed : Nat, exits : Nat],
               NEW l, l = [k EXCEPT !.forks = @ + 1]
        PROVE  /\ l \in [mallocs : Nat, forks : Nat, failed : Nat, exits : Nat]
               /\ l.exits = k.exits /\ l.failed = k.failed
    <3>1. k.forks + 1 \in Nat
      BY <2>1
    <3> QED BY <2>1, <3>1
  <2> QED BY <2>1, <1>1
<1>3. CASE m6.halt = "full"
  <2>1. mem'.halt = "full"
    BY <1>3
  <2> QED BY <2>1, <1>2, InvFull
<1>4. CASE m6.halt # "full"
  <2>1. PICK q, ps2 : q = r5.q /\ ps2 = [proc EXCEPT ![ch] = q]
    OBVIOUS
  <2>2. ForkChild(p, ch, q, m6)
    BY <1>1, <1>4, <2>1, ForkCallFacts
  <2>3. /\ m6.halt = "no" /\ ProcMoved(mem, proc, ch, q, m6, ps2)
        /\ Cardinality(Lose(mem, proc, ch, q, m6)) = 0 /\ Mapped(q.map) = Mapped(proc[p].map)
    BY <2>1, <2>2 DEF ForkChild
  <2>4. HeapInv(ch, g, Mapped(q.map) \ {StackPage})
    <3>1. p \in Owners /\ p # Kernel
      BY ProcsAssumption DEF Owners
    <3>2. PICK h, A : h = heap[p] /\ A = Area(p, mem, proc)
      OBVIOUS
    <3>3. A = Mapped(q.map) \ {StackPage}
      BY <3>1, <3>2, <2>3 DEF Area
    <3>4. HeapInv(p, h, A)
      BY <3>1, <3>2, <1>1
    <3>5. g = [EmptyHeap EXCEPT
                 !.arena = [v \in DOMAIN h.arena |-> [h.arena[v] EXCEPT !.old = TRUE]],
                 !.held = h.held]
      BY <3>2 DEF CopiedHeap
    <3>6. HeapInv(ch, g, A)
      BY <3>4, <3>5, ForkedHeap, Zenon
    <3> QED BY <3>3, <3>6
  <2>5. HeapsInv([heap EXCEPT ![ch] = g], m6, ps2, Losses(count) + 0)
    BY <2>3, <2>4, ProcHeap
  <2>6. Losses(count) + 0 = Losses(count) /\ Losses(count') = Losses(count)
    <3>1. Losses(count) \in Int
      BY <1>1, ConstFacts DEF Losses
    <3>2. Losses(count') = Losses(count)
      BY <1>2 DEF Losses
    <3> QED BY <3>1, <3>2
  <2>7. MachineInv(m6, ps2)
    BY <2>3 DEF ProcMoved
  <2>8. proc' = ps2
    BY <2>1
  <2> QED BY <2>3, <2>5, <2>6, <2>7, <2>8, <1>2 DEF MemoryInv
<1> QED BY <1>3, <1>4

LEMMA ForkStep ==
    ASSUME MemoryInv, NEW p \in Procs, NEW ch \in Procs, Fork(p, ch)
    PROVE  MemoryInv'
<1>1. PICK r1, r2, r3 :
        /\ r1 = MallocKernel(mem, 1) /\ r2 = MallocKernel(r1.m, 1)
        /\ r3 = MallocKernel(r2.m, CeilPages)
  OBVIOUS
<1>2. PICK r4, q0, r5, m6, g :
        /\ r4 = MallocKernel(r3.m, 1)
        /\ q0 = [NoProcess EXCEPT !.state = "live", !.pcb = r1.at, !.vbm = r3.at,
                                  !.pgdir = r4.at, !.vbits = proc[p].vbits]
        /\ r5 = MapUser(r4.m, q0, proc[p].vbits)
        /\ m6 = MfreeKernel(r5.m, r2.at, 1)
        /\ g = [EmptyHeap EXCEPT
                  !.arena = [v \in DOMAIN heap[p].arena |->
                                [heap[p].arena[v] EXCEPT !.old = TRUE]],
                  !.held = heap[p].held]
  BY Zenon
<1>3. /\ Running /\ proc[p].state = "live" /\ proc[ch].state = "none"
      /\ UNCHANGED <<scan, boot>>
  BY DEF Fork
<1>4. \/ /\ r3.m.halt = "no" /\ r3.at = None /\ mem' = r3.m
         /\ count' = [count EXCEPT !.forks = @ + 1, !.failed = @ + 1]
         /\ UNCHANGED <<proc, heap>>
      \/ /\ ~(r3.m.halt = "no" /\ r3.at = None)
         /\ mem' = m6 /\ proc' = [proc EXCEPT ![ch] = r5.q]
         /\ heap' = [heap EXCEPT ![ch] = g]
         /\ count' = [count EXCEPT !.forks = @ + 1]
  BY <1>1, <1>2, Zenon DEF Fork, CopyPages
<1>5. CASE r3.m.halt = "no" /\ r3.at = None
  BY <1>1, <1>3, <1>4, <1>5, ForkFailed
<1>6. CASE ~(r3.m.halt = "no" /\ r3.at = None)
  <2>1. ForkCall(p, ch, r1, r2, r3, r4, q0, r5, m6)
    BY <1>1, <1>2, <1>3, <1>6, Zenon DEF ForkCall
  <2>2. CopiedHeap(heap[p], g)
    BY <1>2 DEF CopiedHeap
  <2>3. /\ mem' = m6 /\ proc' = [proc EXCEPT ![ch] = r5.q]
        /\ heap' = [heap EXCEPT ![ch] = g] /\ UNCHANGED <<scan, boot>>
        /\ count' = [count EXCEPT !.forks = @ + 1]
    BY <1>3, <1>4, <1>6
  <2> QED BY <2>1, <2>2, <2>3, <1>3, ForkMade, Zenon
<1> QED BY <1>5, <1>6

-----------------------------------------------------------------------------
\* The invariant

LEMMA InitInv ==
    Init => MemoryInv
<1> SUFFICES ASSUME Init PROVE MemoryInv
  OBVIOUS
<1>1. /\ mem = [bits |-> {}, kmap |-> [v \in 0 .. KernelPages |-> None], halt |-> "no"]
      /\ scan = None /\ boot = None
      /\ count = [mallocs |-> 0, forks |-> 0, failed |-> 0, exits |-> 0]
  BY DEF Init
<1>2. proc \in [Procs -> ProcRecords] /\ \A p \in Procs : proc[p] = NoProcess
  BY NoProcessFacts DEF Init
<1>3. heap \in [Owners -> HeapRecords] /\ \A x \in Owners : heap[x] = EmptyHeap
  BY HeapEmpty DEF Init
<1>4. mem \in MemRecords /\ Mapped(mem.kmap) = {} /\ FramesOf(mem.kmap) = {} /\ Once(mem.kmap)
  <2>1. mem \in MemRecords
    BY <1>1 DEF MemRecords, Pages
  <2>2. Mapped(mem.kmap) = {} /\ Once(mem.kmap)
    BY <1>1 DEF Mapped, Once
  <2> QED BY <2>1, <2>2 DEF FramesOf
<1>5. \A p \in Procs : /\ Mapped(proc[p].map) = {} /\ FramesOf(proc[p].map) = {}
                       /\ Range(proc[p].tables) = {} /\ proc[p].vbits = {} /\ Once(proc[p].map)
  <2>1. Once(Unmapped)
    BY DEF Once, Unmapped
  <2> QED BY <2>1, <1>2, NoProcessFacts DEF FramesOf
<1>6. FramesInv(mem, proc)
  <2>1. \A v \in Pages : mem.kmap[v] = None
    BY <1>1 DEF Pages
  <2>2. mem.bits = {}
    BY <1>1
  <2> QED BY <2>1, <2>2, <1>4, <1>5 DEF FramesInv
<1>7. LifeInv(proc)
  BY <1>2, NoProcessFacts DEF LifeInv
<1>8. PagesInv(Mapped(mem.kmap), proc)
  BY <1>2, NoProcessFacts DEF PagesInv
<1>9. MachineInv(mem, proc)
  BY <1>1, <1>2, <1>4, <1>6, <1>7, <1>8 DEF MachineInv
<1>10. HeapsInv(heap, mem, proc, 0)
  <2>1. Area(Kernel, mem, proc) \ HeapPages(heap[Kernel].arena) = {}
    BY <1>4 DEF Area
  <2>2. Cardinality(Area(Kernel, mem, proc) \ HeapPages(heap[Kernel].arena)) = 0
    BY <2>1, FS_EmptySet
  <2>3. \A x \in Owners : HeapInv(x, heap[x], Area(x, mem, proc))
    BY <1>3, HeapEmpty
  <2> QED BY <2>2, <2>3, <1>3 DEF HeapsInv
<1>11. Losses(count) = 0
  BY <1>1, ConstFacts DEF Losses
<1> QED BY <1>1, <1>9, <1>10, <1>11 DEF MemoryInv

\* One step per call.
LEMMA NextInv ==
    ASSUME ~CarryHeap
    PROVE  MemoryInv /\ [Next]_vars => MemoryInv'
<1> SUFFICES ASSUME MemoryInv, [Next]_vars PROVE MemoryInv'
  OBVIOUS
<1>1. ASSUME NEW x \in Owners, SysMalloc(x) PROVE MemoryInv'
  BY <1>1, SysMallocStep
<1>2. ASSUME NEW x \in Owners, SysFree(x) PROVE MemoryInv'
  BY <1>2, SysFreeStep
<1>3. ASSUME NEW p \in Procs, ProcessExecute(p) PROVE MemoryInv'
  BY <1>3, ProcessExecuteStep
<1>4. ASSUME NEW p \in Procs, StartProcess(p) PROVE MemoryInv'
  BY <1>4, StartProcessStep
<1>5. ASSUME NEW p \in Procs, Execv(p) PROVE MemoryInv'
  BY <1>5, ExecvStep
<1>6. ASSUME NEW p \in Procs, Exit(p) PROVE MemoryInv'
  BY <1>6, ExitStep
<1>7. ASSUME NEW p \in Procs, Reap(p) PROVE MemoryInv'
  BY <1>7, ReapStep
<1>8. ASSUME NEW p \in Procs, NEW c \in Procs, Fork(p, c) PROVE MemoryInv'
  BY <1>8, ForkStep
<1>9. ASSUME NEW x \in Owners, FreeNull(x) PROVE MemoryInv'
  BY <1>9, FreeNullStep
<1>10. CASE Spin \/ UNCHANGED vars
  BY <1>10 DEF Spin, vars, MemoryInv
<1> QED BY <1>1, <1>2, <1>3, <1>4, <1>5, <1>6, <1>7, <1>8, <1>9, <1>10 DEF Next

-----------------------------------------------------------------------------
\* What it says

\* The frames of a page table, as the properties name them.
LEMMA TableFramesAre ==
    ASSUME NEW f
    PROVE  {f[v] : v \in DOMAIN f} \ {None} = FramesOf(f)
  BY DEF FramesOf, Mapped

LEMMA FramesAre ==
    /\ KernelFrames = FramesOf(mem.kmap)
    /\ \A p \in Procs : UserFrames(p) = FramesOf(proc[p].map)
    /\ \A p \in Procs : TableFrames(p) = Range(proc[p].tables)
<1>1. KernelFrames = FramesOf(mem.kmap)
  BY TableFramesAre DEF KernelFrames, Range
<1>2. \A p \in Procs : UserFrames(p) = FramesOf(proc[p].map)
  BY TableFramesAre DEF UserFrames
<1> QED BY <1>1, <1>2 DEF TableFrames

\* Only processes that live have frames; every frame in use is in its pool.
LEMMA FramesInUse ==
    ASSUME MachineInv(mem, proc)
    PROVE  /\ \A p \in Procs : FramesOf(proc[p].map) \subseteq Frames /\ Range(proc[p].tables) \subseteq Frames
           /\ FramesOf(mem.kmap) \subseteq Frames
           /\ \A p \in Procs : p \notin LiveProcs => FramesOf(proc[p].map) = {} /\ Range(proc[p].tables) = {}
<1>1. /\ mem \in MemRecords /\ proc \in [Procs -> ProcRecords]
      /\ \A p \in Procs : LifeOf(p, proc[p])
  BY DEF MachineInv, LifeInv
<1>2. FramesOf(mem.kmap) \subseteq Frames
  <2>1. mem.kmap \in [Pages -> KFrames \cup {None}]
    BY <1>1 DEF MemRecords
  <2>2. FramesOf(mem.kmap) \subseteq KFrames
    BY <2>1 DEF FramesOf, Mapped
  <2> QED BY <2>2, FrameKinds
<1>3. ASSUME NEW p \in Procs
      PROVE  FramesOf(proc[p].map) \subseteq Frames /\ Range(proc[p].tables) \subseteq Frames
  <2>1. proc[p].map \in [UPages -> UFrames \cup {None}] /\ proc[p].tables \in Tables
    BY <1>1 DEF ProcRecords
  <2>2. FramesOf(proc[p].map) \subseteq UFrames
    BY <2>1 DEF FramesOf, Mapped
  <2>3. Range(proc[p].tables) \subseteq KFrames
    <3>1. PICK D : proc[p].tables \in [D -> KFrames]
      BY <2>1 DEF Tables
    <3> QED BY <3>1 DEF Range
  <2> QED BY <2>2, <2>3, FrameKinds
<1>4. ASSUME NEW p \in Procs, p \notin LiveProcs
      PROVE  FramesOf(proc[p].map) = {} /\ Range(proc[p].tables) = {}
  <2>1. proc[p].state # "live"
    BY <1>4 DEF LiveProcs
  <2>2. Mapped(proc[p].map) = {} /\ Range(proc[p].tables) = {}
    BY <2>1, <1>1 DEF LifeOf
  <2> QED BY <2>2 DEF FramesOf
<1> QED BY <1>2, <1>3, <1>4

LEMMA InvExclusive ==
    MemoryInv => FramesExclusive
<1> SUFFICES ASSUME MemoryInv, Running PROVE FramesExclusive
  BY DEF FramesExclusive
<1>1. MachineInv(mem, proc)
  BY InvRunning
<1>2. FramesInv(mem, proc)
  BY <1>1 DEF MachineInv
<1>3. \A p \in LiveProcs : p \in Procs
  BY DEF LiveProcs
<1>4. \A v, w \in DOMAIN mem.kmap : mem.kmap[v] = mem.kmap[w] /\ v # w => mem.kmap[v] = None
  BY <1>2 DEF FramesInv, Once
<1>5. \A p \in LiveProcs : \A v, w \in DOMAIN proc[p].map :
        proc[p].map[v] = proc[p].map[w] /\ v # w => proc[p].map[v] = None
  BY <1>2, <1>3 DEF FramesInv, Once
<1>6. \A p, q \in LiveProcs : p # q => UserFrames(p) \cap UserFrames(q) = {}
                                       /\ TableFrames(p) \cap TableFrames(q) = {}
  BY <1>2, <1>3, FramesAre DEF FramesInv
<1>7. \A p \in LiveProcs : TableFrames(p) \cap KernelFrames = {}
  BY <1>2, <1>3, FramesAre DEF FramesInv
<1>8. ASSUME NEW f \in KernelFrames \cup UNION {UserFrames(p) \cup TableFrames(p) : p \in LiveProcs}
      PROVE  FrameBit(f) \in mem.bits
  <2>1. f \in FramesOf(mem.kmap) \/ \E p \in Procs : f \in FramesOf(proc[p].map) \cup Range(proc[p].tables)
    <3>1. CASE f \in KernelFrames
      BY <3>1, FramesAre
    <3>2. CASE \E p \in LiveProcs : f \in UserFrames(p) \cup TableFrames(p)
      BY <3>2, <1>3, FramesAre
    <3> QED BY <1>8, <3>1, <3>2
  <2>2. f \in Frames
    BY <2>1, <1>1, FramesInUse
  <2>3. f \in mem.bits
    BY <2>1, <2>2, <1>2 DEF FramesInv
  <2> QED BY <2>2, <2>3, BitFacts
<1> QED BY <1>4, <1>5, <1>6, <1>7, <1>8 DEF FramesExclusive

LEMMA InvLost ==
    MemoryInv => LostExact
<1> SUFFICES ASSUME MemoryInv, Running PROVE LostExact
  BY DEF LostExact
<1>1. /\ MachineInv(mem, proc) /\ HeapsInv(heap, mem, proc, Losses(count))
      /\ \A x \in Owners : HeapInv(x, heap[x], Area(x, mem, proc))
  BY InvRunning
<1>2. PICK M, H, used : /\ M = Mapped(mem.kmap) /\ H = HeapPages(heap[Kernel].arena)
                        /\ used = {v \in 0 .. KernelPages : VaddrBase + v \in mem.bits}
  OBVIOUS
<1>3. mem \in MemRecords /\ FramesInv(mem, proc) /\ PagesInv(M, proc)
  BY <1>1, <1>2 DEF MachineInv
<1>4. mem.kmap \in [Pages -> KFrames \cup {None}] /\ M \subseteq Pages
  BY <1>2, <1>3 DEF MemRecords, Mapped
<1>5. used = M
  <2>1. \A v : v \in used <=> v \in Pages /\ FreePages + v \in mem.bits
    BY <1>2, ConstFacts DEF Pages
  <2>2. \A v : v \in M <=> v \in Pages /\ mem.kmap[v] # None
    BY <1>2, <1>4 DEF Mapped
  <2>3. \A v \in Pages : FreePages + v \in mem.bits <=> mem.kmap[v] # None
    BY <1>3 DEF FramesInv
  <2> QED BY <2>1, <2>2, <2>3
<1>6. H \subseteq M \ ProcPages(proc)
  <2>1. Kernel \in Owners
    BY DEF Owners
  <2>2. HeapBut(Kernel, heap[Kernel], M \ ProcPages(proc), None)
    BY <2>1, <1>1, <1>2 DEF HeapInv, Area
  <2> QED BY <2>2, <1>2, HeapFacts
<1>7. ProcPages(proc) \subseteq M
  BY <1>3 DEF ProcPages, PagesInv
<1>8. OwnedPages = ProcPages(proc) \cup H
  <2>1. \A v : v \in H <=> \E u \in DOMAIN heap[Kernel].arena : v \in ArenaPages(heap[Kernel].arena, u)
    BY <1>2 DEF HeapPages
  <2>2. \A v : v \in OwnedPages <=>
          /\ v # None
          /\ \/ v = boot
             \/ \E p \in Procs : v = proc[p].pcb \/ v = proc[p].pgdir
             \/ \E p \in Procs : proc[p].vbm # None /\ v \in proc[p].vbm .. proc[p].vbm + CeilPages - 1
             \/ \E u \in DOMAIN heap[Kernel].arena : v \in ArenaPages(heap[Kernel].arena, u)
    <3> DEFINE ar == heap[Kernel].arena
               bitmap(p) == IF proc[p].vbm = None THEN {}
                            ELSE proc[p].vbm .. proc[p].vbm + CeilPages - 1
               A == {{proc[p].pcb, proc[p].pgdir} : p \in Procs}
               B == {bitmap(p) : p \in Procs}
               C == {ArenaPages(ar, u) : u \in DOMAIN ar}
    <3>1. OwnedPages = ({boot} \cup UNION (A \cup B \cup C)) \ {None}
      BY DEF OwnedPages, ArenaPages
    <3>2. \A v : v \in UNION A <=> \E p \in Procs : v = proc[p].pcb \/ v = proc[p].pgdir
      OBVIOUS
    <3>3. \A v : v \in UNION B <=> \E p \in Procs : v \in bitmap(p)
      OBVIOUS
    <3>4. \A p : \A v : v \in bitmap(p) <=>
            proc[p].vbm # None /\ v \in proc[p].vbm .. proc[p].vbm + CeilPages - 1
      OBVIOUS
    <3>5. \A v : v \in UNION C <=> \E u \in DOMAIN ar : v \in ArenaPages(ar, u)
      OBVIOUS
    <3> HIDE DEF A, B, C, bitmap
    <3>6. \A v : v \in OwnedPages <=>
            v # None /\ (v = boot \/ v \in UNION A \/ v \in UNION B \/ v \in UNION C)
      BY <3>1
    <3> QED BY <3>2, <3>3, <3>4, <3>5, <3>6
  <2>3. boot = None
    BY DEF MemoryInv
  <2>4. None \notin M
    BY <1>4, FrameKinds
  <2>5. \A v : (\E p \in Procs, w \in What : v \in Piece(proc[p], w)) <=>
          \/ v # None /\ \E p \in Procs : v = proc[p].pcb \/ v = proc[p].pgdir
          \/ \E p \in Procs : proc[p].vbm # None /\ v \in proc[p].vbm .. proc[p].vbm + CeilPages - 1
    BY DEF Piece, What
  <2>6. \A v : v \in ProcPages(proc) <=> \E p \in Procs, w \in What : v \in Piece(proc[p], w)
    <3>1. \A v : (\E p \in Procs, w \in What : v \in Piece(proc[p], w)) => v \in Pages
      BY <1>3, <1>4 DEF PagesInv
    <3> QED BY <3>1 DEF ProcPages
  <2>7. None \notin ProcPages(proc) \cup H
    BY <2>4, <1>6, <1>7
  <2>8. ASSUME NEW v PROVE v \in OwnedPages <=> v \in ProcPages(proc) \cup H
    BY <2>1, <2>2, <2>3, <2>5, <2>6, <2>7
  <2> QED BY <2>8
<1>9. OwnedPages \subseteq used
  BY <1>5, <1>6, <1>7, <1>8
<1>10. Cardinality(used \ OwnedPages) = count.exits * (CeilPages - FloorPages) + 2 * count.failed
  <2>1. Area(Kernel, mem, proc) = M \ ProcPages(proc)
    BY <1>2 DEF Area
  <2>2. used \ OwnedPages = (M \ ProcPages(proc)) \ H
    BY <1>5, <1>8
  <2>3. Cardinality(Area(Kernel, mem, proc) \ H) = Losses(count)
    BY <1>1, <1>2 DEF HeapsInv
  <2> QED BY <2>1, <2>2, <2>3 DEF Losses
<1>11. used = {v \in DOMAIN mem.kmap : mem.kmap[v] # None}
  BY <1>2, <1>5 DEF Mapped
<1>12. {f \in 0 .. FreePages - 1 : FrameBit(f) \in mem.bits} =
          KernelFrames \cup UNION {UserFrames(p) \cup TableFrames(p) : p \in LiveProcs}
  <2>1. \A f : f \in {g \in 0 .. FreePages - 1 : FrameBit(g) \in mem.bits} <=>
                 f \in Frames /\ f \in mem.bits
    BY BitFacts DEF Frames
  <2>2. \A f \in Frames : f \in mem.bits <=>
          \/ f \in FramesOf(mem.kmap)
          \/ \E p \in Procs : f \in FramesOf(proc[p].map) \cup Range(proc[p].tables)
    BY <1>3 DEF FramesInv
  <2>3. \A p \in LiveProcs : p \in Procs
    BY DEF LiveProcs
  <2>4. \A f : (\E p \in Procs : f \in FramesOf(proc[p].map) \cup Range(proc[p].tables)) <=>
               (\E p \in LiveProcs : f \in UserFrames(p) \cup TableFrames(p))
    BY <2>3, <1>1, FramesInUse, FramesAre
  <2>5. \A f : f \in FramesOf(mem.kmap)
               \/ (\E p \in Procs : f \in FramesOf(proc[p].map) \cup Range(proc[p].tables)) => f \in Frames
    BY <1>1, FramesInUse
  <2>6. ASSUME NEW f
        PROVE  f \in {g \in 0 .. FreePages - 1 : FrameBit(g) \in mem.bits} <=>
               f \in KernelFrames \/ \E p \in LiveProcs : f \in UserFrames(p) \cup TableFrames(p)
    BY <2>1, <2>2, <2>4, <2>5, FramesAre
  <2> QED BY <2>6
<1> QED BY <1>2, <1>9, <1>10, <1>11, <1>12 DEF LostExact

LEMMA InvBlocks ==
    MemoryInv => BlocksExact
<1> SUFFICES ASSUME MemoryInv, Running, NEW x \in Owners, Live(x), NEW d \in 1 .. DescCnt,
                    NEW own, own = {v \in DOMAIN heap[x].arena :
                                      ~heap[x].arena[v].old /\ ~heap[x].arena[v].large},
                    NEW arenas, arenas = {v \in own : heap[x].arena[v].desc = d}
             PROVE  /\ IsInjective(heap[x].free[d])
                    /\ \A v \in arenas :
                         /\ Cardinality({b \in Range(heap[x].free[d]) : b[1] = v}) = heap[x].arena[v].cnt
                         /\ heap[x].arena[v].cnt < BlocksPerArena(d)
                    /\ Range(heap[x].free[d]) \cup {b \in heap[x].held : b[1] \in arenas}
                         = arenas \X (1 .. BlocksPerArena(d))
                    /\ Range(heap[x].free[d]) \cap heap[x].held = {}
  BY DEF BlocksExact
<1>1. HeapBut(x, heap[x], Area(x, mem, proc), None)
  BY InvRunning DEF HeapInv
<1>2. arenas = Own(heap[x], d)
  BY DEF Own
<1>3. \A v \in arenas : v # None
  BY <1>1, <1>2, HeapFacts
<1>4. ListOk(heap[x].free[d], heap[x].held, heap[x].arena, arenas, BlocksPerArena(d), None)
  BY <1>1, <1>2 DEF HeapBut, ListsInv
<1> QED BY <1>3, <1>4 DEF ListOk, On

-----------------------------------------------------------------------------
\* Theorems

LEMMA MemoryInvariant ==
    ASSUME ~CarryHeap PROVE Spec => []MemoryInv
<1>1. MemoryInv /\ [Next]_vars => MemoryInv'
  BY NextInv
<1> QED BY <1>1, InitInv, PTL DEF Spec

\* The ASSERTs and PANICs of memory.c fail for want of memory, for free(NULL) and,
\* if some request below the size of its pool needs PageLimit pages with its header,
\* for such a request.  The others never do: malloc_page maps no page twice and
\* reaches no stack, mfree_page frees into the right pool, and sys_free finds all
\* blocks of an arena on the list before it frees the page.
THEOREM PanicsAreKnown ==
    ASSUME ~CarryHeap PROVE Spec => []PanicsKnown
<1>1. MemoryInv => PanicsKnown
  BY DEF MemoryInv, Stops, Oversized, PanicsKnown
<1> QED BY <1>1, MemoryInvariant, PTL

\* palloc, fork's copy of the pages and release_prog_resource leave each frame
\* with one page of one address space or one page table, and its bit set.
THEOREM FramesAreExclusive ==
    ASSUME ~CarryHeap PROVE Spec => []FramesExclusive
  BY InvExclusive, MemoryInvariant, PTL

\* The bitmaps have exactly what is in use, and what the kernel loses is what
\* exit's rounded division and fork's early return lose, to the page.
THEOREM LossesAreExact ==
    ASSUME ~CarryHeap PROVE Spec => []LostExact
  BY InvLost, MemoryInvariant, PTL

\* sys_malloc and sys_free keep every block of an owner's arenas either held or
\* once on the owner's free list, cnt counting the latter, and no list has a block
\* of a page that mfree_page took back.
THEOREM BlocksAreExact ==
    ASSUME ~CarryHeap PROVE Spec => []BlocksExact
  BY InvBlocks, MemoryInvariant, PTL
=============================================================================
