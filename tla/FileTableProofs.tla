--------------------------- MODULE FileTableProofs ---------------------------
(***************************************************************************)
(* NoFault, DescriptorsExact, CountsExact and OpenFileKept hold of every   *)
(* behaviour of FileTable in which calls do not overlap and programs do    *)
(* not fork with files open, for every number of processes, slots,         *)
(* descriptors and names.  (With overlap TLC refutes OpenFileKept.)        *)
(*                                                                         *)
(* FilesInv, the part of the inductive invariant about the shared tables,  *)
(* is stated of any table, inodes, list and descriptors, since SysExit     *)
(* closes one descriptor after the other within a step: CloseFacts shows   *)
(* that one close keeps it, and CloseAllFacts that the loop does, by       *)
(* induction over the descriptors.                                         *)
(***************************************************************************)
EXTENDS FileTable, FiniteSetTheorems, SequenceTheorems, TLAPS

-----------------------------------------------------------------------------
\* The inductive invariant

Descs(ds, s) == {x \in Callers \X Fds : ds[x[1]][x[2]] = s}
SlotsOf(tb, i) == {s \in Slots : tb[s].inode = i}
Orphans(tb, ds) == {s \in Slots : /\ tb[s].inode \in Ids
                                  /\ Descs(ds, s) = {}
                                  /\ ~InCreation(s)}
Releasing(i) == \E p \in Callers : call[p].op = "release" /\ call[p].inode = i
Fetching(i) == \E p \in Callers : /\ call[p].op \in {"open", "create", "created"}
                                  /\ call[p].inode = i

SlotRecords == [inode : Ids \cup {None, Page}, pipe : BOOLEAN, write : BOOLEAN,
                pos : Int]
InodeRecords == [ino : Inos \cup {None}, cnt : Int, deny : BOOLEAN]
CallRecords ==
    [op : {"none", "open", "create", "created", "unlink", "unlinked", "release"},
     name : Names \cup {None}, ino : Inos \cup {None},
     slot : Slots \cup {None}, inode : Ids \cup {None}, write : BOOLEAN]

DescTables == [Callers -> [Fds -> Slots \cup {None}]]

TypeInv ==
    /\ dir \subseteq Names \X Inos
    /\ imap \subseteq Inos
    /\ call \in [Callers -> CallRecords]
    /\ state \in [Callers -> BOOLEAN]
    /\ lost \in [slots : Nat, fds : Nat, boot : Nat]
    /\ halt = "no"

FileTypes(tb, ins, list, ds) ==
    /\ tb \in [Slots -> SlotRecords]
    /\ ins \in [Ids -> InodeRecords]
    /\ list \in Seq(Ids)
    /\ ds \in DescTables

\* One call at a time is under way.
OneCall ==
    \A p, q \in Callers : call[p].op # "none" /\ call[q].op # "none" => p = q

\* A descriptor names a slot in use, a file's slot has one at most, and the boot
\* thread makes no pipes.
DescInv(tb, ds) ==
    /\ \A s \in Slots : tb[s].inode = Page <=> tb[s].pipe /\ tb[s].inode # None
    /\ \A p \in Callers, f \in Fds : \A s \in Slots :
         ds[p][f] = s => tb[s].inode # None
    /\ \A p, q \in Callers, f, g \in Fds : \A s \in Slots :
         tb[s].inode \in Ids /\ ds[p][f] = s /\ ds[q][g] = s => p = q /\ f = g
    /\ \A f \in Fds, s \in Slots : ds[Boot][f] = s => tb[s].inode \in Ids

\* fd_pos of a pipe counts its descriptors, and those sys_pipe had no room for.
PosInv(tb, ds) ==
    \A s \in Slots : tb[s].inode = Page =>
      /\ Cardinality(Descs(ds, s)) <= tb[s].pos
      /\ lost.fds = 0 => Cardinality(Descs(ds, s)) = tb[s].pos

LostInv(tb, ds) ==
    /\ Cardinality(Orphans(tb, ds)) = lost.slots + lost.boot
    /\ state[Boot] => lost.boot = 0

\* A listed inode has slots and counts them, or is about to be released.
InodeInv(tb, ins, list) ==
    /\ IsInjective(list)
    /\ \A i \in Range(list) :
         /\ ins[i].ino # None
         /\ IF Releasing(i) THEN ins[i].cnt = 1 /\ SlotsOf(tb, i) = {}
            ELSE /\ SlotsOf(tb, i) # {}
                 /\ ins[i].cnt = Cardinality(SlotsOf(tb, i))
                 /\ \E e \in dir : e[2] = ins[i].ino
    /\ \A i, j \in Range(list) : ins[i].ino = ins[j].ino => i = j
    /\ \A i \in Ids \ Range(list) :
         (ins[i].ino = None /\ ins[i].cnt = 0) \/ Fetching(i)
    /\ \A s \in Slots : tb[s].inode \in Ids =>
         tb[s].inode \in Range(list) \/ InCreation(s)

\* What a call under way has chosen is still as it was.
CallInv(tb, ins, list, ds) ==
    \A p \in Callers :
      /\ call[p].op \in {"open", "create", "created"} =>
           /\ call[p].slot \in Slots /\ call[p].inode \in Ids \ Range(list)
           /\ call[p].ino \in imap /\ ins[call[p].inode].ino = call[p].ino
           /\ Descs(ds, call[p].slot) = {}
           /\ \A j \in Range(list) : ins[j].ino # call[p].ino
      /\ call[p].op = "open" =>
           /\ tb[call[p].slot].inode = None
           /\ \E e \in dir : e[2] = call[p].ino
      /\ call[p].op \in {"create", "created"} =>
           /\ call[p].name \in Names
           /\ SlotsOf(tb, call[p].inode) = {call[p].slot}
      /\ call[p].op = "create" => \A e \in dir : e[1] # call[p].name
      /\ call[p].op = "created" => <<call[p].name, call[p].ino>> \in dir
      /\ call[p].op \in {"unlink", "unlinked", "release"} =>
           /\ call[p].ino \in Inos
           /\ \A s \in Slots : tb[s].inode \in Ids => ins[tb[s].inode].ino # call[p].ino
      /\ call[p].op \in {"unlinked", "release"} => \A e \in dir : e[2] # call[p].ino
      /\ call[p].op = "release" => /\ call[p].inode \in Range(list)
                                   /\ ins[call[p].inode].ino = call[p].ino

\* The directory names each file once, and the bitmap has its number.
DirInv ==
    /\ \A e, d \in dir : e[1] = d[1] => e = d
    /\ \A e \in dir : e[2] \in imap
    /\ \A n \in imap : \/ \E e \in dir : e[2] = n
                       \/ \E p \in Callers : call[p].op # "none" /\ call[p].ino = n

FilesInv(tb, ins, list, ds) ==
    /\ FileTypes(tb, ins, list, ds)
    /\ DescInv(tb, ds)
    /\ PosInv(tb, ds)
    /\ LostInv(tb, ds)
    /\ InodeInv(tb, ins, list)
    /\ CallInv(tb, ins, list, ds)

\* A process that does not exist has no descriptors.
DeadInv == \A p \in Callers : ~state[p] => \A f \in Fds : fds[p][f] = None

FileTableInv ==
    /\ TypeInv
    /\ OneCall
    /\ DeadInv
    /\ DirInv
    /\ FilesInv(table, inodes, open, fds)

-----------------------------------------------------------------------------
\* Numbers

\* A set of natural numbers has a least member, which Least finds.
LEMMA LeastFacts ==
    ASSUME NEW S \in SUBSET Nat, S # {}
    PROVE  Least(S) \in S /\ \A y \in S : Least(S) <= y
<1> DEFINE R == {pair \in Nat \X Nat : pair[1] < pair[2]}
<1>1. OpToRel(<, Nat) = R
  BY Zenon DEF OpToRel
<1> HIDE DEF R
<1>2. IsWellFoundedOn(R, Nat)
  BY <1>1, NatLessThanWellFounded, Zenon
<1>3. PICK x \in S : \A y \in S : ~(<<y, x>> \in R)
  BY <1>2, WFMin, Zenon
<1>4. ASSUME NEW y \in Nat, NEW z \in Nat, y < z PROVE <<y, z>> \in R
  <2>1. <<y, z>> \in Nat \X Nat /\ <<y, z>>[1] < <<y, z>>[2]
    BY <1>4
  <2> QED BY <2>1, Zenon DEF R
<1>5. ASSUME NEW y \in S PROVE x <= y
  <2>1. x \in Nat /\ y \in Nat
    OBVIOUS
  <2>2. <<y, x>> \notin R
    BY <1>3
  <2>3. ~(y < x)
    BY <2>1, <2>2, <1>4, Zenon
  <2> QED BY <2>1, <2>3
<1> QED BY <1>5 DEF Least

\* Induction over the natural numbers, for a set S.
LEMMA NatSetInduction ==
    ASSUME NEW S, 0 \in S, \A n \in Nat : n \in S => n + 1 \in S
    PROVE  Nat \subseteq S
<1> SUFFICES ASSUME Nat \ S # {} PROVE FALSE
  OBVIOUS
<1>1. Nat \ S \in SUBSET Nat
  OBVIOUS
<1> DEFINE m == Least(Nat \ S)
<1>2. m \in Nat \ S /\ \A y \in Nat \ S : m <= y
  BY <1>1, LeastFacts
<1> HIDE DEF m
<1>3. m # 0 /\ m - 1 \in Nat
  BY <1>2
<1>4. m - 1 \in S
  BY <1>2, <1>3
<1> QED BY <1>2, <1>3, <1>4

-----------------------------------------------------------------------------
\* The list of open inodes

\* list_push puts a new element in front.
LEMMA PushFacts ==
    ASSUME NEW S, NEW list \in Seq(S), NEW e \in S,
           IsInjective(list), e \notin Range(list)
    PROVE  /\ <<e>> \o list \in Seq(S)
           /\ IsInjective(<<e>> \o list)
           /\ Range(<<e>> \o list) = Range(list) \cup {e}
<1> DEFINE new == <<e>> \o list
           n == Len(list)
<1>1. <<e>> \in Seq(S) /\ Len(<<e>>) = 1 /\ <<e>>[1] = e
  OBVIOUS
<1>2. n \in Nat /\ DOMAIN list = 1 .. n
  BY LenProperties
<1>3. /\ new \in Seq(S)
      /\ Len(new) = 1 + n
      /\ \A k \in 1 .. 1 + n : new[k] = IF k <= 1 THEN <<e>>[k] ELSE list[k - 1]
  BY <1>1, ConcatProperties
<1> HIDE DEF n, new
<1>4. DOMAIN new = 1 .. 1 + n
  BY <1>3, LenProperties
<1>5. new[1] = e /\ \A k \in 2 .. 1 + n : new[k] = list[k - 1]
  BY <1>1, <1>2, <1>3
<1>6. IsInjective(new)
  <2> SUFFICES ASSUME NEW a \in 1 .. 1 + n, NEW b \in 1 .. 1 + n, new[a] = new[b]
               PROVE  a = b
    BY <1>4 DEF IsInjective
  <2>1. ASSUME NEW k \in 2 .. 1 + n PROVE new[k] # e
    BY <1>2, <1>5, k - 1 \in 1 .. n DEF Range
  <2>2. CASE a = 1 \/ b = 1
    BY <2>1, <2>2, <1>2, <1>5
  <2>3. CASE a # 1 /\ b # 1
    <3>1. /\ a - 1 \in 1 .. n /\ b - 1 \in 1 .. n
          /\ list[a - 1] = list[b - 1]
      BY <2>3, <1>2, <1>5
    <3> QED BY <3>1, <1>2 DEF IsInjective
  <2> QED BY <2>2, <2>3
<1>7. ASSUME NEW t PROVE t \in Range(new) <=> t \in Range(list) \/ t = e
  <2>1. ASSUME NEW k \in 1 .. n, list[k] = t PROVE t \in Range(new)
    <3>1. k + 1 \in 2 .. 1 + n /\ (k + 1) - 1 = k
      BY <1>2
    <3>2. new[k + 1] = list[(k + 1) - 1]
      BY <3>1, <1>5
    <3> QED BY <2>1, <1>2, <1>4, <3>1, <3>2 DEF Range
  <2>2. e \in Range(new)
    BY <1>2, <1>4, <1>5 DEF Range
  <2>3. ASSUME NEW k \in 1 .. 1 + n, new[k] = t PROVE t \in Range(list) \/ t = e
    <3>1. CASE k = 1
      BY <3>1, <2>3, <1>5
    <3>2. CASE k # 1
      BY <3>2, <2>3, <1>2, <1>5, k - 1 \in 1 .. n DEF Range
    <3> QED BY <3>1, <3>2
  <2> QED BY <2>1, <2>2, <2>3, <1>2, <1>4 DEF Range
<1> QED BY <1>3, <1>6, <1>7 DEF new

\* list_remove takes one element out and leaves the others.
LEMMA RemoveFacts ==
    ASSUME NEW S, NEW list \in Seq(S), NEW e \in Range(list), IsInjective(list)
    PROVE  /\ RemoveFirst(list, e) \in Seq(S)
           /\ IsInjective(RemoveFirst(list, e))
           /\ Range(RemoveFirst(list, e)) = Range(list) \ {e}
<1> DEFINE new == RemoveFirst(list, e)
           n == Len(list)
           I == {k \in 1 .. n : list[k] = e}
           m == Min(I)
<1>1. n \in Nat /\ DOMAIN list = 1 .. n /\ list \in [1 .. n -> S]
  BY LenProperties
<1>2. PICK k \in 1 .. n : list[k] = e
  BY <1>1 DEF Range
<1>3. I = {k}
  BY <1>1, <1>2 DEF IsInjective
<1>4. m = k
  <2>1. Min({k}) = k
    BY <1>1 DEF Min
  <2> HIDE DEF I
  <2> QED BY <2>1, <1>3
<1>5. new = SubSeq(list, 1, k - 1) \o SubSeq(list, k + 1, n)
  <2>1. new = RemoveAt(list, SelectInSeq(list, LAMBDA v : v = e))
    BY <1>2 DEF RemoveFirst
  <2>2. SelectInSeq(list, LAMBDA v : v = e) = m
    BY <1>2 DEF SelectInSeq
  <2> HIDE DEF m, n, new
  <2> QED BY <2>1, <2>2, <1>4 DEF RemoveAt, n
<1> HIDE DEF new, n, I, m
<1> DEFINE a == SubSeq(list, 1, k - 1)
           b == SubSeq(list, k + 1, n)
<1>6. a \in Seq(S) /\ Len(a) = k - 1 /\ \A i \in 1 .. k - 1 : a[i] = list[i]
  <2>1. k - 1 \in Int /\ \A i \in 1 .. k - 1 : list[i] \in S
    BY <1>1
  <2> QED BY <1>1, <2>1, SubSeqProperties
<1>7. b \in Seq(S) /\ Len(b) = n - k /\ \A i \in 1 .. n - k : b[i] = list[k + i]
  <2>1. k + 1 \in Int /\ n \in Int /\ \A i \in k + 1 .. n : list[i] \in S
    BY <1>1
  <2>2. /\ b \in Seq(S)
        /\ Len(b) = IF k + 1 <= n THEN n - (k + 1) + 1 ELSE 0
        /\ \A i \in 1 .. n - (k + 1) + 1 : b[i] = list[(k + 1) + i - 1]
    BY <2>1, SubSeqProperties
  <2> HIDE DEF b
  <2>3. Len(b) = n - k
    BY <1>1, <2>2
  <2>4. ASSUME NEW i \in 1 .. n - k PROVE b[i] = list[k + i]
    <3>1. i \in 1 .. n - (k + 1) + 1 /\ (k + 1) + i - 1 = k + i
      BY <1>1
    <3>2. b[i] = list[(k + 1) + i - 1]
      BY <2>2, <3>1
    <3> QED BY <3>1, <3>2
  <2> QED BY <2>2, <2>3, <2>4
<1> HIDE DEF a, b
<1>8. /\ new \in Seq(S)
      /\ Len(new) = Len(a) + Len(b)
      /\ \A i \in 1 .. Len(a) + Len(b) :
           new[i] = IF i <= Len(a) THEN a[i] ELSE b[i - Len(a)]
  BY <1>5, <1>6, <1>7, ConcatProperties DEF a, b
<1>9. /\ DOMAIN new = 1 .. n - 1
      /\ \A i \in 1 .. n - 1 : new[i] = IF i < k THEN list[i] ELSE list[i + 1]
  <2>1. DOMAIN new = 1 .. n - 1
    BY <1>1, <1>6, <1>7, <1>8, LenProperties
  <2> QED BY <2>1, <1>1, <1>6, <1>7, <1>8
<1>10. IsInjective(new)
  BY <1>1, <1>9 DEF IsInjective
<1>11. ASSUME NEW t PROVE t \in Range(new) <=> t \in Range(list) /\ t # e
  <2>1. ASSUME NEW i \in 1 .. n - 1, new[i] = t PROVE t \in Range(list) /\ t # e
    <3>1. CASE i < k
      BY <3>1, <2>1, <1>1, <1>2, <1>9 DEF Range, IsInjective
    <3>2. CASE ~(i < k)
      <4>1. i + 1 \in 1 .. n /\ list[i + 1] = t /\ i + 1 # k
        BY <3>2, <2>1, <1>1, <1>9
      <4> QED BY <4>1, <1>1, <1>2 DEF Range, IsInjective
    <3> QED BY <3>1, <3>2
  <2>2. ASSUME NEW i \in 1 .. n, list[i] = t, t # e PROVE t \in Range(new)
    <3>1. CASE i < k
      BY <3>1, <2>2, <1>1, <1>9 DEF Range
    <3>2. CASE ~(i < k)
      <4>1. i # k
        BY <2>2, <1>2
      <4>2. i - 1 \in 1 .. n - 1 /\ new[i - 1] = t
        BY <3>2, <4>1, <2>2, <1>1, <1>9
      <4> QED BY <4>2, <1>9 DEF Range
    <3> QED BY <3>1, <3>2
  <2> QED BY <2>1, <2>2, <1>1, <1>9 DEF Range
<1> QED BY <1>8, <1>10, <1>11 DEF new

-----------------------------------------------------------------------------
\* Sizes of sets

LEMMA ConstFacts ==
    /\ IsFiniteSet(Slots) /\ Cardinality(Slots) = NumSlots /\ Slots \subseteq Nat
    /\ IsFiniteSet(Fds) /\ Fds \subseteq Nat /\ Fds = 1 .. NumFds
    /\ IsFiniteSet(Callers) /\ IsFiniteSet(Callers \X Fds)
    /\ Cardinality(Callers) \in Nat \ {0}
    /\ IsFiniteSet(Ids) /\ Ids \subseteq Nat
    /\ Cardinality(Ids) = NumSlots + Cardinality(Callers)
    /\ IsFiniteSet(Inos) /\ Inos \subseteq Nat
    /\ Cardinality(Inos) = Cardinality(Names) + Cardinality(Callers)
    /\ Cardinality(Names) \in Nat
    /\ NumSlots \in Nat \ {0} /\ NumFds \in Nat \ {0}
<1>1. NumSlots \in Nat \ {0} /\ NumFds \in Nat \ {0}
  BY SizesAssumption
<1>2. IsFiniteSet(Callers)
  BY NamesAssumption, FS_AddElement DEF Callers
<1>3. Cardinality(Callers) \in Nat /\ Cardinality(Names) \in Nat
  BY <1>2, NamesAssumption, FS_CardinalityType
<1>4. Cardinality(Callers) # 0
  BY <1>2, FS_EmptySet DEF Callers
<1>5. ASSUME NEW n \in Nat PROVE IsFiniteSet(1 .. n) /\ Cardinality(1 .. n) = n
  BY FS_Interval
<1>6. IsFiniteSet(Fds)
  BY <1>1, <1>5 DEF Fds
<1>7. IsFiniteSet(Callers \X Fds)
  BY <1>2, <1>6, FS_Product
<1> QED BY <1>1, <1>2, <1>3, <1>4, <1>5, <1>6, <1>7 DEF Slots, Fds, Ids, Inos

\* None and Page are no slot and no inode.
LEMMA NoneFacts ==
    /\ None \notin Slots /\ None \notin Ids /\ None \notin Inos
    /\ Page \notin Slots /\ Page \notin Ids /\ Page # None
  BY NamesAssumption

LEMMA DescsFinite ==
    ASSUME NEW ds, NEW s
    PROVE  IsFiniteSet(Descs(ds, s)) /\ Cardinality(Descs(ds, s)) \in Nat
<1>1. Descs(ds, s) \subseteq Callers \X Fds
  BY DEF Descs
<1> QED BY <1>1, ConstFacts, FS_Subset, FS_CardinalityType

LEMMA SlotSetFinite ==
    ASSUME NEW S \in SUBSET Slots
    PROVE  IsFiniteSet(S) /\ Cardinality(S) \in Nat
  BY ConstFacts, FS_Subset, FS_CardinalityType

LEMMA DescsMember ==
    ASSUME NEW ds, NEW s, NEW p \in Callers, NEW f \in Fds
    PROVE  <<p, f>> \in Descs(ds, s) <=> ds[p][f] = s
  BY DEF Descs

LEMMA DescsEmpty ==
    ASSUME NEW ds, NEW s
    PROVE  Descs(ds, s) = {} <=> \A p \in Callers, f \in Fds : ds[p][f] # s
<1>1. ASSUME Descs(ds, s) = {}, NEW p \in Callers, NEW f \in Fds PROVE ds[p][f] # s
  BY <1>1, DescsMember
<1>2. ASSUME NEW x \in Descs(ds, s) PROVE \E p \in Callers, f \in Fds : ds[p][f] = s
  BY DEF Descs
<1> QED BY <1>1, <1>2

\* A descriptor that goes.
LEMMA DescGone ==
    ASSUME NEW ds \in DescTables, NEW dn \in DescTables,
           NEW p \in Callers, NEW f \in Fds, NEW s \in Slots, ds[p][f] = s,
           \A q \in Callers, g \in Fds :
             dn[q][g] = IF q = p /\ g = f THEN None ELSE ds[q][g]
    PROVE  /\ \A t \in Slots \ {s} : Descs(dn, t) = Descs(ds, t)
           /\ Descs(dn, s) = Descs(ds, s) \ {<<p, f>>}
           /\ <<p, f>> \in Descs(ds, s)
<1>1. ASSUME NEW t \in Slots \ {s} PROVE Descs(dn, t) = Descs(ds, t)
  BY NoneFacts DEF Descs
<1>2. Descs(dn, s) = Descs(ds, s) \ {<<p, f>>}
  BY NoneFacts DEF Descs
<1>3. <<p, f>> \in Descs(ds, s)
  BY DEF Descs
<1> QED BY <1>1, <1>2, <1>3

-----------------------------------------------------------------------------
\* One close

\* A call chose its slot before it slept, and nobody has it open.
LEMMA CreationUnnamed ==
    ASSUME NEW tb, NEW ins, NEW list, NEW ds, FilesInv(tb, ins, list, ds),
           NEW s \in Slots, InCreation(s)
    PROVE  Descs(ds, s) = {}
  BY DEF FilesInv, CallInv, InCreation

\* A slot that loses its only descriptor together with its file, or a pipe's
\* last one together with the pipe, is free; no orphan appears or goes.
LEMMA SlotFreed ==
    ASSUME NEW tb, NEW ins, NEW list, NEW ds, FilesInv(tb, ins, list, ds), TypeInv,
           NEW p \in Callers, NEW f \in Fds, NEW s \in Slots, ds[p][f] = s,
           NEW r \in SlotRecords, r.inode = None,
           NEW tn \in [Slots -> SlotRecords],
           \A t \in Slots : tn[t] = IF t = s THEN r ELSE tb[t],
           NEW dn \in DescTables,
           \A q \in Callers, g \in Fds :
             dn[q][g] = IF q = p /\ g = f THEN None ELSE ds[q][g],
           \/ tb[s].inode \in Ids
           \/ tb[s].inode = Page /\ tb[s].pos = 1
    PROVE  /\ FileTypes(tn, ins, list, dn)
           /\ Descs(dn, s) = {}
           /\ \A t \in Slots \ {s} : Descs(dn, t) = Descs(ds, t)
           /\ DescInv(tn, dn) /\ PosInv(tn, dn) /\ LostInv(tn, dn)
<1>0. FileTypes(tb, ins, list, ds) /\ DescInv(tb, ds) /\ PosInv(tb, ds) /\ LostInv(tb, ds)
  BY DEF FilesInv
<1>2. /\ tn \in [Slots -> SlotRecords]
      /\ tn[s] = r
      /\ \A t \in Slots \ {s} : tn[t] = tb[t]
  BY <1>0 DEF FileTypes
<1>3. /\ \A t \in Slots \ {s} : Descs(dn, t) = Descs(ds, t)
      /\ Descs(dn, s) = Descs(ds, s) \ {<<p, f>>}
      /\ <<p, f>> \in Descs(ds, s)
  <2>1. ds \in DescTables
    BY <1>0 DEF FileTypes
  <2> QED BY <2>1, DescGone
<1>4. Descs(dn, s) = {}
  <2>2. CASE tb[s].inode \in Ids
    <3>1. ASSUME NEW q \in Callers, NEW g \in Fds PROVE dn[q][g] # s
      BY <2>2, <1>0, <1>3, NoneFacts DEF DescInv
    <3> QED BY <3>1, DescsEmpty
  <2>3. CASE tb[s].inode = Page /\ tb[s].pos = 1
    <3>1. Cardinality(Descs(ds, s)) <= 1
      BY <2>3, <1>0 DEF PosInv
    <3>2. Cardinality(Descs(dn, s)) = Cardinality(Descs(ds, s)) - 1
      <4>1. IsFiniteSet(Descs(ds, s))
        BY DescsFinite
      <4>2. Cardinality(Descs(ds, s) \ {<<p, f>>}) = Cardinality(Descs(ds, s)) - 1
        BY <1>3, <4>1, FS_RemoveElement
      <4> QED BY <4>2, <1>3
    <3>3. Cardinality(Descs(dn, s)) = 0
      BY <3>1, <3>2, DescsFinite
    <3> QED BY <3>3, DescsFinite, FS_EmptySet
  <2> QED BY <2>2, <2>3
<1>5. FileTypes(tn, ins, list, dn)
  BY <1>0, <1>2, <1>3 DEF FileTypes
<1>6. DescInv(tn, dn)
  <2>1. \A t \in Slots : tn[t].inode = Page <=> tn[t].pipe /\ tn[t].inode # None
    BY <1>0, <1>2, NoneFacts DEF DescInv
  <2>2. ASSUME NEW q \in Callers, NEW g \in Fds, NEW t \in Slots, dn[q][g] = t
        PROVE  t # s /\ ds[q][g] = t /\ tn[t] = tb[t]
    <3>1. t # s
      <4>1. <<q, g>> \in Descs(dn, t)
        BY <2>2, DescsMember
      <4> QED BY <4>1, <1>4
    <3>2. ds[q][g] = t
      BY <2>2, NoneFacts
    <3> QED BY <3>1, <3>2, <1>2
  <2>3. \A q \in Callers, g \in Fds, t \in Slots : dn[q][g] = t => tn[t].inode # None
    BY <2>2, <1>0 DEF DescInv
  <2>4. \A q, u \in Callers, g, h \in Fds : \A t \in Slots :
          tn[t].inode \in Ids /\ dn[q][g] = t /\ dn[u][h] = t => q = u /\ g = h
    BY <2>2, <1>0 DEF DescInv
  <2>5. \A g \in Fds, t \in Slots : dn[Boot][g] = t => tn[t].inode \in Ids
    BY <2>2, <1>0 DEF DescInv, Callers
  <2> QED BY <2>1, <2>3, <2>4, <2>5 DEF DescInv
<1>7. PosInv(tn, dn)
  BY <1>0, <1>2, <1>3, NoneFacts DEF PosInv
<1>8. LostInv(tn, dn)
  <2>1. Descs(ds, s) # {}
    BY <1>3
  <2>2. ASSUME NEW t \in Slots PROVE t \in Orphans(tn, dn) <=> t \in Orphans(tb, ds)
    BY <2>1, <1>2, <1>3, NoneFacts DEF Orphans
  <2>3. Orphans(tn, dn) = Orphans(tb, ds)
    BY <2>2 DEF Orphans
  <2> QED BY <2>3, <1>0 DEF LostInv
<1> QED BY <1>2, <1>3, <1>4, <1>5, <1>6, <1>7, <1>8

\* The inodes do not notice what happens to pipes.
LEMMA PipeChange ==
    ASSUME NEW tb, NEW tn, NEW ins, NEW list, NEW ds, NEW dn,
           FilesInv(tb, ins, list, ds), TypeInv,
           \A s \in Slots : tb[s].inode \in Ids \/ tn[s].inode \in Ids
                              => tn[s].inode = tb[s].inode,
           \A s \in Slots : tb[s].inode = None => tn[s].inode = None,
           \A s \in Slots : Descs(ds, s) = {} => Descs(dn, s) = {}
    PROVE  InodeInv(tn, ins, list) /\ CallInv(tn, ins, list, dn)
<1>1. FileTypes(tb, ins, list, ds) /\ InodeInv(tb, ins, list) /\ CallInv(tb, ins, list, ds)
  BY DEF FilesInv
<1>2. ASSUME NEW i \in Ids PROVE SlotsOf(tn, i) = SlotsOf(tb, i)
  BY DEF SlotsOf
<1>3. Range(list) \subseteq Ids
  BY <1>1 DEF FileTypes, Range
<1>4. InodeInv(tn, ins, list)
  <2>1. \A s \in Slots : tn[s].inode \in Ids =>
          tn[s].inode \in Range(list) \/ InCreation(s)
    BY <1>1 DEF InodeInv
  <2> QED BY <2>1, <1>1, <1>2, <1>3 DEF InodeInv
<1>5. ASSUME NEW p \in Callers, call[p].op \in {"open", "create", "created"}
      PROVE  Descs(dn, call[p].slot) = {}
  BY <1>1, <1>5 DEF CallInv
<1>6. ASSUME NEW p \in Callers, call[p].op = "open"
      PROVE  tn[call[p].slot].inode = None
  BY <1>1, <1>6 DEF CallInv
<1>7. ASSUME NEW p \in Callers, call[p].op \in {"create", "created"}
      PROVE  SlotsOf(tn, call[p].inode) = {call[p].slot}
  BY <1>1, <1>2, <1>7 DEF CallInv
<1>8. ASSUME NEW p \in Callers, call[p].op \in {"unlink", "unlinked", "release"}
      PROVE  \A s \in Slots : tn[s].inode \in Ids => ins[tn[s].inode].ino # call[p].ino
  <2>1. ASSUME NEW s \in Slots, tn[s].inode \in Ids
        PROVE  ins[tn[s].inode].ino # call[p].ino
    <3>1. tn[s].inode = tb[s].inode /\ tb[s].inode \in Ids
      BY <2>1
    <3>2. ins[tb[s].inode].ino # call[p].ino
      BY <1>1, <1>8, <3>1 DEF CallInv
    <3> QED BY <3>1, <3>2
  <2> QED BY <2>1
<1>9. CallInv(tn, ins, list, dn)
  BY <1>1, <1>5, <1>6, <1>7, <1>8 DEF CallInv
<1> QED BY <1>4, <1>9

\* file_close through slot s: the inode loses one of its slots, and goes with
\* the last one.
LEMMA FileClosed ==
    ASSUME NEW tb, NEW tn, NEW ins, NEW new, NEW list, NEW short, NEW ds, NEW dn,
           FilesInv(tb, ins, list, ds), TypeInv,
           NEW s \in Slots, NEW i \in Ids, tb[s].inode = i, Descs(ds, s) # {},
           tn[s].inode = None, \A t \in Slots \ {s} : tn[t].inode = tb[t].inode,
           \A t \in Slots : Descs(dn, t) \subseteq Descs(ds, t),
           \A j \in Ids \ {i} : new[j] = ins[j],
           new[i].cnt = ins[i].cnt - 1,
           new[i].ino = IF ins[i].cnt = 1 THEN None ELSE ins[i].ino,
           IsInjective(short),
           Range(short) = IF ins[i].cnt = 1 THEN Range(list) \ {i} ELSE Range(list)
    PROVE  InodeInv(tn, new, short) /\ CallInv(tn, new, short, dn)
<1>1. FileTypes(tb, ins, list, ds) /\ InodeInv(tb, ins, list) /\ CallInv(tb, ins, list, ds)
  BY DEF FilesInv
<1>2. /\ SlotsOf(tn, i) = SlotsOf(tb, i) \ {s}
      /\ \A j \in Ids \ {i} : SlotsOf(tn, j) = SlotsOf(tb, j)
      /\ s \in SlotsOf(tb, i)
  BY NoneFacts DEF SlotsOf
<1>3. Range(list) \subseteq Ids
  BY <1>1 DEF FileTypes, Range
<1>4. ~InCreation(s)
  BY CreationUnnamed
<1>5. i \in Range(list) /\ ~Releasing(i) /\ ins[i].cnt = Cardinality(SlotsOf(tb, i))
  BY <1>1, <1>2, <1>4 DEF InodeInv
<1>6. /\ IsFiniteSet(SlotsOf(tn, i))
      /\ Cardinality(SlotsOf(tn, i)) = Cardinality(SlotsOf(tb, i)) - 1
      /\ Cardinality(SlotsOf(tb, i)) \in Nat
  <2>1. SlotsOf(tb, i) \in SUBSET Slots
    BY DEF SlotsOf
  <2> QED BY <2>1, <1>2, SlotSetFinite, FS_RemoveElement
<1>7. SlotsOf(tn, i) = {} <=> ins[i].cnt = 1
  BY <1>5, <1>6, FS_EmptySet
<1>8. IsInjective(short) /\ Range(short) = IF ins[i].cnt = 1 THEN Range(list) \ {i} ELSE Range(list)
  BY <1>1 DEF InodeInv
<1>9. InodeInv(tn, new, short)
  <2>1. ASSUME NEW j \in Range(short)
        PROVE  /\ new[j].ino = ins[j].ino /\ new[j].ino # None
               /\ IF Releasing(j) THEN new[j].cnt = 1 /\ SlotsOf(tn, j) = {}
                  ELSE /\ SlotsOf(tn, j) # {}
                       /\ new[j].cnt = Cardinality(SlotsOf(tn, j))
                       /\ \E e \in dir : e[2] = new[j].ino
    <3>1. CASE j # i
      BY <3>1, <1>1, <1>2, <1>3, <1>8 DEF InodeInv
    <3>2. CASE j = i
      <4>1. ins[i].cnt # 1 /\ new[i].cnt = ins[i].cnt - 1 /\ new[i].ino = ins[i].ino
        BY <3>2, <1>8
      <4> QED BY <3>2, <4>1, <1>1, <1>5, <1>6, <1>7 DEF InodeInv
    <3> QED BY <3>1, <3>2
  <2>2. \A j, k \in Range(short) : new[j].ino = new[k].ino => j = k
    BY <2>1, <1>1, <1>8 DEF InodeInv
  <2>3. \A j \in Ids \ Range(short) : (new[j].ino = None /\ new[j].cnt = 0) \/ Fetching(j)
    BY <1>1, <1>5, <1>8 DEF InodeInv
  <2>4. ASSUME NEW t \in Slots, tn[t].inode \in Ids
        PROVE  tn[t].inode \in Range(short) \/ InCreation(t)
    <3>1. t # s /\ tn[t].inode = tb[t].inode
      BY <2>4, NoneFacts
    <3>2. tn[t].inode = i => ins[i].cnt # 1
      BY <3>1, <1>7 DEF SlotsOf
    <3> QED BY <2>4, <3>1, <3>2, <1>1, <1>8 DEF InodeInv
  <2> QED BY <2>1, <2>2, <2>3, <2>4, <1>8 DEF InodeInv
<1>10. \A j \in Range(short) : new[j].ino = ins[j].ino
  BY <1>3, <1>8
<1>11. CallInv(tn, new, short, dn)
  <2>1. ASSUME NEW p \in Callers, call[p].op \in {"open", "create", "created"}
        PROVE  /\ call[p].slot \in Slots /\ call[p].inode \in Ids \ Range(short)
               /\ call[p].ino \in imap /\ new[call[p].inode].ino = call[p].ino
               /\ Descs(dn, call[p].slot) = {}
               /\ \A j \in Range(short) : new[j].ino # call[p].ino
               /\ call[p].slot # s /\ call[p].inode # i
    <3>1. /\ call[p].slot \in Slots /\ call[p].inode \in Ids \ Range(list)
          /\ call[p].ino \in imap /\ ins[call[p].inode].ino = call[p].ino
          /\ Descs(ds, call[p].slot) = {}
          /\ \A j \in Range(list) : ins[j].ino # call[p].ino
      BY <2>1, <1>1 DEF CallInv
    <3> QED BY <3>1, <1>5, <1>8, <1>10
  <2>2. ASSUME NEW p \in Callers, call[p].op = "open"
        PROVE  tn[call[p].slot].inode = None /\ \E e \in dir : e[2] = call[p].ino
    <3>1. tb[call[p].slot].inode = None /\ \E e \in dir : e[2] = call[p].ino
      BY <2>2, <1>1 DEF CallInv
    <3>2. call[p].slot \in Slots /\ call[p].slot # s
      BY <2>1, <2>2
    <3> QED BY <3>1, <3>2
  <2>3. ASSUME NEW p \in Callers, call[p].op \in {"create", "created"}
        PROVE  call[p].name \in Names /\ SlotsOf(tn, call[p].inode) = {call[p].slot}
    BY <2>1, <2>3, <1>1, <1>2 DEF CallInv
  <2>4. ASSUME NEW p \in Callers, call[p].op \in {"unlink", "unlinked", "release"},
               NEW t \in Slots, tn[t].inode \in Ids
        PROVE  new[tn[t].inode].ino # call[p].ino
    <3>0. t # s /\ tn[t].inode = tb[t].inode
      BY <2>4, NoneFacts
    <3>1. t # s /\ tn[t].inode = tb[t].inode /\ ins[tb[t].inode].ino # call[p].ino
      BY <2>4, <3>0, <1>1 DEF CallInv
    <3>2. tn[t].inode = i => ins[i].cnt # 1
      BY <3>1, <1>7 DEF SlotsOf
    <3>3. new[tn[t].inode].ino = ins[tn[t].inode].ino
      BY <3>2, <2>4
    <3> QED BY <3>1, <3>3
  <2>5. ASSUME NEW p \in Callers, call[p].op = "release"
        PROVE  call[p].inode \in Range(short) /\ new[call[p].inode].ino = call[p].ino
    <3>1. call[p].inode \in Range(list) /\ ins[call[p].inode].ino = call[p].ino
      BY <2>5, <1>1 DEF CallInv
    <3>2. call[p].inode # i
      BY <2>5, <1>5 DEF Releasing
    <3> QED BY <3>1, <3>2, <1>8, <1>10
  <2> QED BY <2>1, <2>2, <2>3, <2>4, <2>5, <1>1 DEF CallInv
<1> QED BY <1>9, <1>11

FileStates == [table : [Slots -> SlotRecords], inodes : [Ids -> InodeRecords],
               open : Seq(Ids), halt : {"no", "fault"}]

LEMMA FlagFacts ==
    ASSUME NEW b \in BOOLEAN
    PROVE  /\ \A r \in SlotRecords : [r EXCEPT !.pipe = b] \in SlotRecords
           /\ \A r \in SlotRecords : [r EXCEPT !.pipe = b].inode = r.inode
           /\ \A r \in InodeRecords : [r EXCEPT !.deny = b] \in InodeRecords
           /\ \A r \in InodeRecords : /\ [r EXCEPT !.deny = b].ino = r.ino
                                      /\ [r EXCEPT !.deny = b].cnt = r.cnt
<1>1. ASSUME NEW r \in SlotRecords PROVE [r EXCEPT !.pipe = b] \in SlotRecords
  BY DEF SlotRecords
<1>2. ASSUME NEW r \in SlotRecords PROVE [r EXCEPT !.pipe = b].inode = r.inode
  BY DEF SlotRecords
<1>3. ASSUME NEW r \in InodeRecords PROVE [r EXCEPT !.deny = b] \in InodeRecords
  BY DEF InodeRecords
<1>4. ASSUME NEW r \in InodeRecords
      PROVE  [r EXCEPT !.deny = b].ino = r.ino /\ [r EXCEPT !.deny = b].cnt = r.cnt
  BY DEF InodeRecords
<1> QED BY <1>1, <1>2, <1>3, <1>4

LEMMA FreeRecords ==
    /\ FreeSlot \in SlotRecords /\ FreeSlot.inode = None /\ ~FreeSlot.pipe
    /\ NoInode \in InodeRecords /\ NoInode.ino = None /\ NoInode.cnt = 0
<1>1. FreeSlot \in SlotRecords
  BY DEF FreeSlot, SlotRecords
<1>2. FreeSlot.inode = None
  BY DEF FreeSlot
<1>3. ~FreeSlot.pipe
  BY DEF FreeSlot
<1>4. NoInode \in InodeRecords
  BY DEF NoInode, InodeRecords
<1>5. NoInode.ino = None /\ NoInode.cnt = 0
  BY DEF NoInode
<1> QED BY <1>1, <1>2, <1>3, <1>4, <1>5

\* Closing one descriptor of a pipe that has others.
LEMMA PipeStays ==
    ASSUME NEW tb, NEW ins, NEW list, NEW ds, FilesInv(tb, ins, list, ds), TypeInv,
           NEW p \in Callers, NEW f \in Fds, NEW s \in Slots, ds[p][f] = s,
           tb[s].inode = Page,
           NEW tn \in [Slots -> SlotRecords],
           \A t \in Slots \ {s} : tn[t] = tb[t],
           tn[s].inode = Page, tn[s].pipe = tb[s].pipe, tn[s].pos = tb[s].pos - 1,
           NEW dn \in DescTables,
           \A q \in Callers, g \in Fds :
             dn[q][g] = IF q = p /\ g = f THEN None ELSE ds[q][g]
    PROVE  FilesInv(tn, ins, list, dn)
<1>0. FileTypes(tb, ins, list, ds) /\ DescInv(tb, ds) /\ PosInv(tb, ds) /\ LostInv(tb, ds)
  BY DEF FilesInv
<1>1. /\ \A t \in Slots \ {s} : Descs(dn, t) = Descs(ds, t)
      /\ Descs(dn, s) = Descs(ds, s) \ {<<p, f>>}
      /\ <<p, f>> \in Descs(ds, s)
  <2>1. ds \in DescTables
    BY <1>0 DEF FileTypes
  <2> QED BY <2>1, DescGone
<1>2. FileTypes(tn, ins, list, dn)
  BY <1>0 DEF FileTypes
<1>3. \A t \in Slots : tn[t].inode = tb[t].inode /\ tn[t].pipe = tb[t].pipe
  OBVIOUS
<1>4. DescInv(tn, dn)
  <2>1. ASSUME NEW q \in Callers, NEW g \in Fds, NEW t \in Slots, dn[q][g] = t
        PROVE  ds[q][g] = t
    BY <2>1, NoneFacts
  <2>2. \A t \in Slots : tn[t].inode = Page <=> tn[t].pipe /\ tn[t].inode # None
    BY <1>0, <1>3 DEF DescInv
  <2>3. \A q \in Callers, g \in Fds, t \in Slots : dn[q][g] = t => tn[t].inode # None
    BY <2>1, <1>0, <1>3 DEF DescInv
  <2>4. \A q, u \in Callers, g, h \in Fds : \A t \in Slots :
          tn[t].inode \in Ids /\ dn[q][g] = t /\ dn[u][h] = t => q = u /\ g = h
    BY <2>1, <1>0, <1>3 DEF DescInv
  <2>5. \A g \in Fds, t \in Slots : dn[Boot][g] = t => tn[t].inode \in Ids
    BY <2>1, <1>0, <1>3 DEF DescInv, Callers
  <2> QED BY <2>2, <2>3, <2>4, <2>5 DEF DescInv
<1>5. PosInv(tn, dn)
  <2>1. IsFiniteSet(Descs(ds, s)) /\ Cardinality(Descs(ds, s)) \in Nat
    BY DescsFinite
  <2>2. Cardinality(Descs(dn, s)) = Cardinality(Descs(ds, s)) - 1
    <3>1. Cardinality(Descs(ds, s) \ {<<p, f>>}) = Cardinality(Descs(ds, s)) - 1
      BY <1>1, <2>1, FS_RemoveElement
    <3> QED BY <3>1, <1>1
  <2>3. tb[s].pos \in Int
    BY <1>0 DEF FileTypes, SlotRecords
  <2>4. /\ Cardinality(Descs(dn, s)) <= tn[s].pos
        /\ lost.fds = 0 => Cardinality(Descs(dn, s)) = tn[s].pos
    BY <2>1, <2>2, <2>3, <1>0 DEF PosInv
  <2> QED BY <2>4, <1>0, <1>1 DEF PosInv
<1>6. LostInv(tn, dn)
  <2>1. ASSUME NEW t \in Slots PROVE t \in Orphans(tn, dn) <=> t \in Orphans(tb, ds)
    BY <1>1, <1>3, NoneFacts DEF Orphans
  <2>2. Orphans(tn, dn) = Orphans(tb, ds)
    BY <2>1 DEF Orphans
  <2> QED BY <2>2, <1>0 DEF LostInv
<1>7. InodeInv(tn, ins, list) /\ CallInv(tn, ins, list, dn)
  <2>1. \A t \in Slots : Descs(ds, t) = {} => Descs(dn, t) = {}
    BY <1>1
  <2>2. \A t \in Slots : tb[t].inode = None => tn[t].inode = None
    BY <1>3
  <2>3. \A t \in Slots : tb[t].inode \in Ids \/ tn[t].inode \in Ids
                           => tn[t].inode = tb[t].inode
    BY <1>3
  <2> QED BY <2>1, <2>2, <2>3, PipeChange
<1> QED BY <1>2, <1>4, <1>5, <1>6, <1>7 DEF FilesInv

\* sys_close: the descriptor goes, and with it its share in the slot.
LEMMA CloseFacts ==
    ASSUME TypeInv, NEW st \in FileStates, st.halt = "no", NEW ds,
           FilesInv(st.table, st.inodes, st.open, ds),
           NEW p \in Callers, NEW f \in Fds, NEW s \in Slots, ds[p][f] = s,
           NEW dn \in DescTables,
           \A q \in Callers, g \in Fds :
             dn[q][g] = IF q = p /\ g = f THEN None ELSE ds[q][g],
           NEW new, new = CloseSlot(st, s)
    PROVE  /\ new \in FileStates /\ new.halt = "no"
           /\ FilesInv(new.table, new.inodes, new.open, dn)
<1> DEFINE tb == st.table
           i == tb[s].inode
<1>1. /\ FileTypes(tb, st.inodes, st.open, ds) /\ DescInv(tb, ds)
      /\ InodeInv(tb, st.inodes, st.open)
  BY DEF FilesInv
<1>2. /\ st = [table |-> st.table, inodes |-> st.inodes, open |-> st.open, halt |-> "no"]
      /\ tb \in [Slots -> SlotRecords] /\ st.inodes \in [Ids -> InodeRecords]
      /\ st.open \in Seq(Ids)
  BY DEF FileStates
<1>3. i \in Ids \cup {Page} /\ (tb[s].pipe <=> i = Page)
  BY <1>1, <1>2, NoneFacts DEF DescInv, SlotRecords
<1>4. Descs(ds, s) # {} /\ Descs(dn, s) \subseteq Descs(ds, s)
      /\ \A t \in Slots : Descs(dn, t) \subseteq Descs(ds, t)
  <2>1. ds \in DescTables
    BY <1>1 DEF FileTypes
  <2>2. /\ \A t \in Slots \ {s} : Descs(dn, t) = Descs(ds, t)
        /\ Descs(dn, s) = Descs(ds, s) \ {<<p, f>>}
        /\ <<p, f>> \in Descs(ds, s)
    BY <2>1, DescGone
  <2> QED BY <2>2
<1>5. CASE i = Page /\ tb[s].pos # 1
  <2> DEFINE r == [tb[s] EXCEPT !.pos = tb[s].pos - 1]
             tn == [tb EXCEPT ![s] = r]
  <2>1. tb[s] \in SlotRecords
    BY <1>2
  <2>2. /\ r \in SlotRecords /\ r.inode = tb[s].inode /\ r.pipe = tb[s].pipe
        /\ r.pos = tb[s].pos - 1
    BY <2>1 DEF SlotRecords
  <2>3. new = [st EXCEPT !.table = tn]
    BY <1>3, <1>5 DEF CloseSlot, PipeClose
  <2> HIDE DEF r
  <2>4. /\ tn \in [Slots -> SlotRecords] /\ tn[s] = r
        /\ \A t \in Slots \ {s} : tn[t] = tb[t]
    BY <1>2, <2>2
  <2> HIDE DEF tn
  <2>5. /\ new \in FileStates /\ new.halt = "no" /\ new.table = tn
        /\ new.inodes = st.inodes /\ new.open = st.open
    BY <2>3, <2>4, <1>2 DEF FileStates
  <2>6. FilesInv(tn, st.inodes, st.open, dn)
    BY <2>2, <2>4, <1>5, PipeStays
  <2> QED BY <2>5, <2>6
<1>6. CASE i = Page /\ tb[s].pos = 1
  <2> DEFINE r == [FreeSlot EXCEPT !.pipe = TRUE]
             tn == [tb EXCEPT ![s] = r]
  <2>1. new = [st EXCEPT !.table = tn]
    BY <1>3, <1>6 DEF CloseSlot, PipeClose
  <2>2. r \in SlotRecords /\ r.inode = None
    BY FreeRecords, FlagFacts
  <2> HIDE DEF r
  <2>3. /\ tn \in [Slots -> SlotRecords]
        /\ \A t \in Slots : tn[t] = IF t = s THEN r ELSE tb[t]
    BY <1>2, <2>2
  <2> HIDE DEF tn
  <2>4. /\ new \in FileStates /\ new.halt = "no" /\ new.table = tn
        /\ new.inodes = st.inodes /\ new.open = st.open
    BY <2>1, <2>3, <1>2 DEF FileStates
  <2>5. /\ FileTypes(tn, st.inodes, st.open, dn)
        /\ DescInv(tn, dn) /\ PosInv(tn, dn) /\ LostInv(tn, dn)
    BY <2>2, <2>3, <1>6, SlotFreed
  <2>6. InodeInv(tn, st.inodes, st.open) /\ CallInv(tn, st.inodes, st.open, dn)
    <3>1. \A t \in Slots : tb[t].inode \in Ids \/ tn[t].inode \in Ids
                             => tn[t].inode = tb[t].inode
      BY <2>2, <2>3, <1>6, NoneFacts
    <3>2. \A t \in Slots : tb[t].inode = None => tn[t].inode = None
      BY <2>2, <2>3
    <3> QED BY <3>1, <3>2, <1>4, PipeChange
  <2>7. FilesInv(tn, st.inodes, st.open, dn)
    BY <2>5, <2>6 DEF FilesInv
  <2> QED BY <2>4, <2>7
<1>7. CASE i \in Ids
  <2> DEFINE tn == [tb EXCEPT ![s] = FreeSlot]
             r == [st.inodes[i] EXCEPT !.deny = FALSE]
             ins == [st.inodes EXCEPT ![i] = r]
             mid == [st EXCEPT !.inodes = ins, !.table = tn]
  <2>1. i # None /\ ~tb[s].pipe
    BY <1>3, <1>7, NoneFacts
  <2>2. new = InodeClose(mid, i)
    <3>1. st.halt = "no" /\ ~st.table[s].pipe
      BY <2>1
    <3>2. new = FileClose(st, s)
      BY <3>1 DEF CloseSlot
    <3> QED BY <2>1, <3>2 DEF FileClose
  <2>3. /\ tn \in [Slots -> SlotRecords]
        /\ \A t \in Slots : tn[t] = IF t = s THEN FreeSlot ELSE tb[t]
    BY <1>2, FreeRecords
  <2>4. /\ ins \in [Ids -> InodeRecords]
        /\ \A j \in Ids : ins[j].ino = st.inodes[j].ino /\ ins[j].cnt = st.inodes[j].cnt
        /\ \A j \in Ids \ {i} : ins[j] = st.inodes[j]
    <3>1. r \in InodeRecords /\ r.ino = st.inodes[i].ino /\ r.cnt = st.inodes[i].cnt
      BY <1>2, <1>7, FlagFacts
    <3> HIDE DEF r
    <3> QED BY <3>1, <1>2, <1>7
  <2>5. i \in Range(st.open) /\ IsInjective(st.open)
    <3>1. ~InCreation(s)
      BY <1>4, CreationUnnamed
    <3> QED BY <3>1, <1>1, <1>7 DEF InodeInv
  <2> HIDE DEF tn, ins
  <2>10. /\ mid \in FileStates /\ mid.table = tn /\ mid.inodes = ins
         /\ mid.open = st.open /\ mid.halt = "no"
    BY <2>3, <2>4 DEF FileStates
  <2> HIDE DEF mid
  <2>6. /\ FileTypes(tn, st.inodes, st.open, dn)
        /\ DescInv(tn, dn) /\ PosInv(tn, dn) /\ LostInv(tn, dn)
    BY <2>3, <1>7, FreeRecords, SlotFreed
  <2>7. tn[s].inode = None /\ \A t \in Slots \ {s} : tn[t].inode = tb[t].inode
    BY <2>3, FreeRecords
  <2>8. CASE st.inodes[i].cnt # 1
    <3> DEFINE in2 == [ins EXCEPT ![i].cnt = ins[i].cnt - 1]
    <3>1. new = [mid EXCEPT !.inodes = in2]
      BY <2>2, <2>4, <2>8, <2>10, <1>7 DEF InodeClose
    <3>2. /\ in2 \in [Ids -> InodeRecords]
          /\ in2[i].cnt = st.inodes[i].cnt - 1 /\ in2[i].ino = st.inodes[i].ino
          /\ \A j \in Ids \ {i} : in2[j] = st.inodes[j]
      BY <2>4, <1>7 DEF InodeRecords
    <3> HIDE DEF in2
    <3>3. InodeInv(tn, in2, st.open) /\ CallInv(tn, in2, st.open, dn)
      <4>1. /\ in2[i].cnt = st.inodes[i].cnt - 1
            /\ in2[i].ino = IF st.inodes[i].cnt = 1 THEN None ELSE st.inodes[i].ino
            /\ IsInjective(st.open)
            /\ Range(st.open) = IF st.inodes[i].cnt = 1 THEN Range(st.open) \ {i}
                 ELSE Range(st.open)
        BY <2>5, <2>8, <3>2
      <4>2. \A j \in Ids \ {i} : in2[j] = st.inodes[j]
        BY <3>2
      <4>3. tb[s].inode = i /\ i \in Ids
        BY <1>7
      <4> HIDE DEF i
      <4> QED BY <4>1, <4>2, <4>3, <2>7, <1>4, FileClosed
    <3>4. FilesInv(tn, in2, st.open, dn)
      BY <2>6, <3>2, <3>3 DEF FilesInv, FileTypes
    <3>5. /\ new \in FileStates /\ new.table = tn /\ new.inodes = in2
          /\ new.open = st.open /\ new.halt = "no"
      BY <3>1, <3>2, <2>10 DEF FileStates
    <3> QED BY <3>4, <3>5
  <2>9. CASE st.inodes[i].cnt = 1
    <3> DEFINE in2 == [ins EXCEPT ![i] = NoInode]
               short == RemoveFirst(st.open, i)
    <3>1. new = [mid EXCEPT !.inodes = in2, !.open = short]
      BY <2>2, <2>4, <2>5, <2>9, <2>10, <1>7 DEF InodeClose
    <3>2. /\ in2 \in [Ids -> InodeRecords]
          /\ in2[i].cnt = 0 /\ in2[i].ino = None
          /\ \A j \in Ids \ {i} : in2[j] = st.inodes[j]
      BY <2>4, <1>7, FreeRecords
    <3>3. short \in Seq(Ids) /\ IsInjective(short) /\ Range(short) = Range(st.open) \ {i}
      BY <2>5, <1>2, RemoveFacts
    <3> HIDE DEF in2, short
    <3>4. InodeInv(tn, in2, short) /\ CallInv(tn, in2, short, dn)
      <4>1. /\ in2[i].cnt = st.inodes[i].cnt - 1
            /\ in2[i].ino = IF st.inodes[i].cnt = 1 THEN None ELSE st.inodes[i].ino
            /\ IsInjective(short)
            /\ Range(short) = IF st.inodes[i].cnt = 1 THEN Range(st.open) \ {i}
                 ELSE Range(st.open)
        BY <2>9, <3>2, <3>3
      <4>2. \A j \in Ids \ {i} : in2[j] = st.inodes[j]
        BY <3>2
      <4>3. tb[s].inode = i /\ i \in Ids
        BY <1>7
      <4> HIDE DEF i
      <4> QED BY <4>1, <4>2, <4>3, <2>7, <1>4, FileClosed
    <3>5. FilesInv(tn, in2, short, dn)
      BY <2>6, <3>2, <3>3, <3>4 DEF FilesInv, FileTypes
    <3>6. /\ new \in FileStates /\ new.table = tn /\ new.inodes = in2
          /\ new.open = short /\ new.halt = "no"
      BY <3>1, <3>2, <3>3, <2>10 DEF FileStates
    <3> QED BY <3>5, <3>6
  <2> QED BY <2>8, <2>9
<1> QED BY <1>3, <1>5, <1>6, <1>7

\* The loop of CloseAll, descriptor by descriptor.
LEMMA CloseAllSteps ==
    ASSUME NEW st, NEW row
    PROVE  \E g : /\ CloseAll(st, row) = g[NumFds]
                  /\ g[0] = st
                  /\ \A f \in 1 .. NumFds :
                       g[f] = IF row[f] = None THEN g[f - 1]
                              ELSE CloseSlot(g[f - 1], row[f])
<1> DEFINE F(x, f) == IF row[f] = None THEN x ELSE CloseSlot(x, row[f])
           Is(g, n) == g = [f \in 0 .. n |->
                              IF f = 0 THEN st
                              ELSE IF row[f] = None THEN g[f - 1]
                              ELSE CloseSlot(g[f - 1], row[f])]
           S == {n \in Nat : \E g : Is(g, n)}
<1>0. NumFds \in Nat
  BY ConstFacts
<1>1. 0 \in S
  <2>1. Is([f \in 0 .. 0 |-> st], 0)
    OBVIOUS
  <2> QED BY <2>1
<1>2. ASSUME NEW n \in Nat, n \in S PROVE n + 1 \in S
  <2>1. PICK g : Is(g, n)
    BY <1>2
  <2> DEFINE h == [f \in 0 .. n + 1 |-> IF f = n + 1 THEN F(g[n], n + 1) ELSE g[f]]
  <2>2. ASSUME NEW f \in 0 .. n + 1
        PROVE  h[f] = IF f = 0 THEN st ELSE F(h[f - 1], f)
    <3>1. CASE f = n + 1
      <4>1. h[f] = F(g[n], n + 1) /\ h[f - 1] = g[n] /\ f # 0
        BY <3>1
      <4> HIDE DEF F, h
      <4> QED BY <3>1, <4>1
    <3>2. CASE f # n + 1
      <4>1. f \in 0 .. n /\ h[f] = g[f]
        BY <3>2
      <4>2. g[f] = IF f = 0 THEN st ELSE F(g[f - 1], f)
        BY <2>1, <4>1
      <4>3. f # 0 => h[f - 1] = g[f - 1]
        BY <4>1
      <4> HIDE DEF h
      <4> QED BY <4>1, <4>2, <4>3
    <3> QED BY <3>1, <3>2
  <2>3. h = [f \in 0 .. n + 1 |-> h[f]]
    OBVIOUS
  <2> HIDE DEF h
  <2>4. Is(h, n + 1)
    BY <2>2, <2>3
  <2> QED BY <2>4
<1>3. NumFds \in S
  <2> HIDE DEF S
  <2> QED BY <1>0, <1>1, <1>2, NatSetInduction
<1> DEFINE a == CHOOSE g : Is(g, NumFds)
<1>4. Is(a, NumFds)
  BY <1>3
<1>5. CloseAll(st, row) = a[NumFds]
  BY DEF CloseAll
<1> HIDE DEF a
<1>6. a[0] = st /\ \A f \in 1 .. NumFds : a[f] = F(a[f - 1], f)
  BY <1>0, <1>4
<1> QED BY <1>5, <1>6

\* sys_exit: the process has no descriptors left, and what they shared is as if
\* it had closed them one at a time.
LEMMA CloseAllFacts ==
    ASSUME TypeInv, FilesInv(table, inodes, open, fds), NEW p \in Callers,
           NEW dn \in DescTables,
           \A q \in Callers, g \in Fds : dn[q][g] = IF q = p THEN None ELSE fds[q][g],
           NEW new, new = CloseAll(Files, fds[p])
    PROVE  /\ new \in FileStates /\ new.halt = "no"
           /\ FilesInv(new.table, new.inodes, new.open, dn)
<1>0. NumFds \in Nat /\ Fds = 1 .. NumFds /\ fds \in DescTables
  BY ConstFacts DEF FilesInv, FileTypes
<1>1. PICK g : /\ new = g[NumFds]
               /\ g[0] = Files
               /\ \A f \in 1 .. NumFds : g[f] = IF fds[p][f] = None THEN g[f - 1]
                                               ELSE CloseSlot(g[f - 1], fds[p][f])
  BY CloseAllSteps
<1> DEFINE D(n) == [q \in Callers |-> [h \in Fds |->
                      IF q = p /\ h <= n THEN None ELSE fds[q][h]]]
           Good(n) == /\ g[n] \in FileStates /\ g[n].halt = "no"
                      /\ FilesInv(g[n].table, g[n].inodes, g[n].open, D(n))
           S == {n \in Nat : n <= NumFds => Good(n)}
<1>2. \A n \in Nat : /\ D(n) \in DescTables
                     /\ \A q \in Callers, h \in Fds :
                          D(n)[q][h] = IF q = p /\ h <= n THEN None ELSE fds[q][h]
  BY <1>0 DEF DescTables
<1>3. ASSUME NEW d \in DescTables, NEW e \in DescTables,
             \A q \in Callers, h \in Fds : d[q][h] = e[q][h]
      PROVE  d = e
  BY <1>3 DEF DescTables
<1> HIDE DEF D
<1>4. Good(0)
  <2>1. D(0) = fds
    <3>1. D(0) \in DescTables /\ \A q \in Callers, h \in Fds : D(0)[q][h] = fds[q][h]
      BY <1>0, <1>2
    <3> QED BY <3>1, <1>0, <1>3
  <2>2. /\ Files \in FileStates /\ Files.halt = "no" /\ Files.table = table
        /\ Files.inodes = inodes /\ Files.open = open
    <3>1. /\ table \in [Slots -> SlotRecords] /\ inodes \in [Ids -> InodeRecords]
          /\ open \in Seq(Ids) /\ halt = "no" /\ halt \in {"no", "fault"}
      <4>1. halt = "no"
        BY DEF TypeInv
      <4>2. halt \in {"no", "fault"}
        BY <4>1
      <4> QED BY <4>1, <4>2 DEF FilesInv, FileTypes
    <3>2. /\ Files.halt = halt /\ Files.table = table
          /\ Files.inodes = inodes /\ Files.open = open
      BY DEF Files
    <3>3. Files \in FileStates
      BY <3>1, Zenon DEF Files, FileStates
    <3> QED BY <3>1, <3>2, <3>3
  <2> QED BY <2>1, <2>2, <1>1
<1>5. ASSUME NEW n \in Nat, n \in S PROVE n + 1 \in S
  <2> SUFFICES ASSUME n + 1 <= NumFds PROVE Good(n + 1)
    OBVIOUS
  <2>1. Good(n) /\ n + 1 \in Fds /\ n + 1 \in 1 .. NumFds
    BY <1>5, <1>0
  <2>2. g[n + 1] = IF fds[p][n + 1] = None THEN g[n] ELSE CloseSlot(g[n], fds[p][n + 1])
    <3>1. (n + 1) - 1 = n
      OBVIOUS
    <3>2. g[n + 1] = IF fds[p][n + 1] = None THEN g[(n + 1) - 1]
                     ELSE CloseSlot(g[(n + 1) - 1], fds[p][n + 1])
      BY <2>1, <1>1
    <3> QED BY <3>1, <3>2
  <2>3. /\ D(n) \in DescTables /\ D(n + 1) \in DescTables
        /\ \A q \in Callers, h \in Fds :
             D(n + 1)[q][h] = IF q = p /\ h = n + 1 THEN None ELSE D(n)[q][h]
        /\ D(n)[p][n + 1] = fds[p][n + 1]
    <3>1. \A h \in Fds : h <= n + 1 <=> h <= n \/ h = n + 1
      BY <1>0
    <3>2. n \in Nat /\ n + 1 \in Nat /\ ~(n + 1 <= n)
      OBVIOUS
    <3> QED BY <2>1, <3>1, <3>2, <1>2
  <2>4. CASE fds[p][n + 1] = None
    <3>1. D(n + 1) = D(n)
      BY <2>3, <2>4, <1>3
    <3> QED BY <3>1, <2>1, <2>2, <2>4
  <2>5. CASE fds[p][n + 1] # None
    <3>1. fds[p][n + 1] \in Slots
      BY <2>1, <2>5, <1>0 DEF DescTables
    <3>2. g[n + 1] = CloseSlot(g[n], fds[p][n + 1])
      BY <2>2, <2>5
    <3> HIDE DEF D
    <3>3. PICK k \in Fds : k = n + 1
      BY <2>1
    <3>4. PICK d \in DescTables : d = D(n)
      BY <2>3
    <3>5. PICK e \in DescTables : e = D(n + 1)
      BY <2>3
    <3>6. /\ g[k] \in FileStates /\ g[k].halt = "no"
          /\ FilesInv(g[k].table, g[k].inodes, g[k].open, e)
      <4>1. /\ g[n] \in FileStates /\ g[n].halt = "no"
            /\ FilesInv(g[n].table, g[n].inodes, g[n].open, d)
        BY <2>1, <3>4
      <4>2. /\ d[p][k] = fds[p][k] /\ fds[p][k] \in Slots
            /\ \A q \in Callers, h \in Fds :
                 e[q][h] = IF q = p /\ h = k THEN None ELSE d[q][h]
        BY <2>3, <3>1, <3>3, <3>4, <3>5
      <4>3. g[k] = CloseSlot(g[n], fds[p][k])
        BY <3>2, <3>3
      <4> QED BY <4>1, <4>2, <4>3, CloseFacts
    <3> QED BY <3>3, <3>5, <3>6
  <2> QED BY <2>4, <2>5
<1>6. Good(NumFds)
  <2>1. 0 \in S
    BY <1>4
  <2> HIDE DEF Good
  <2>2. \A n \in Nat : n \in S => n + 1 \in S
    BY <1>5
  <2>3. NumFds \in S
    <3> HIDE DEF S
    <3> QED BY <2>1, <2>2, <1>0, NatSetInduction
  <2> QED BY <2>3, <1>0
<1>7. D(NumFds) = dn
  <2>1. \A q \in Callers, h \in Fds : D(NumFds)[q][h] = dn[q][h]
    BY <1>0, <1>2
  <2> QED BY <2>1, <1>0, <1>2, <1>3
<1> QED BY <1>1, <1>6, <1>7

-----------------------------------------------------------------------------
\* The actions

\* FilesInv after a step that starts and ends no call.
LEMMA FilesFrame ==
    ASSUME FilesInv(table', inodes', open', fds'), UNCHANGED <<dir, imap, call, lost>>,
           state'[Boot] => state[Boot]
    PROVE  FilesInv(table, inodes, open, fds)'
<1>1. /\ FileTypes(table', inodes', open', fds') /\ DescInv(table', fds')
      /\ PosInv(table', fds') /\ LostInv(table', fds')
      /\ InodeInv(table', inodes', open') /\ CallInv(table', inodes', open', fds')
  BY DEF FilesInv
<1>2. /\ \A s : InCreation(s)' <=> InCreation(s)
      /\ \A i : Releasing(i)' <=> Releasing(i)
      /\ \A i : Fetching(i)' <=> Fetching(i)
  BY DEF InCreation, Releasing, Fetching
<1>3. FileTypes(table, inodes, open, fds)' /\ DescInv(table, fds)' /\ PosInv(table, fds)'
  BY <1>1 DEF FileTypes, DescInv, PosInv, Descs
<1>4. LostInv(table, fds)'
  <2>1. Orphans(table, fds)' = Orphans(table', fds')
    BY <1>2 DEF Orphans, Descs
  <2> QED BY <2>1, <1>1 DEF LostInv
<1>5. InodeInv(table, inodes, open)'
  BY <1>1, <1>2 DEF InodeInv, SlotsOf
<1>6. CallInv(table, inodes, open, fds)'
  BY <1>1 DEF CallInv, SlotsOf, Descs
<1> QED BY <1>3, <1>4, <1>5, <1>6 DEF FilesInv

LEMMA FilesAreStates ==
    ASSUME FileTableInv
    PROVE  /\ Files \in FileStates /\ Files.halt = "no" /\ Files.table = table
           /\ Files.inodes = inodes /\ Files.open = open
<1>1. /\ table \in [Slots -> SlotRecords] /\ inodes \in [Ids -> InodeRecords]
      /\ open \in Seq(Ids)
  BY DEF FileTableInv, FilesInv, FileTypes
<1>2. halt = "no" /\ halt \in {"no", "fault"}
  <2>1. halt = "no"
    BY DEF FileTableInv, TypeInv
  <2> QED BY <2>1
<1>3. /\ Files.halt = halt /\ Files.table = table
      /\ Files.inodes = inodes /\ Files.open = open
  BY DEF Files
<1>4. Files \in FileStates
  BY <1>1, <1>2, Zenon DEF Files, FileStates
<1> QED BY <1>2, <1>3, <1>4

\* OneCall and DirInv are about the calls, the directory and the bitmap.
LEMMA CallsFrame ==
    ASSUME OneCall, DirInv, UNCHANGED <<dir, imap, call>>
    PROVE  OneCall' /\ DirInv'
  BY DEF OneCall, DirInv

LEMMA SysCloseInv ==
    ASSUME FileTableInv, NEW p \in Callers, NEW f \in Fds, SysClose(p, f)
    PROVE  FileTableInv'
<1>1. TypeInv /\ FilesInv(table, inodes, open, fds) /\ DeadInv /\ OneCall /\ DirInv
  BY DEF FileTableInv
<1>2. fds \in DescTables
  BY <1>1 DEF FilesInv, FileTypes
<1>3. fds[p][f] \in Slots
  BY <1>2 DEF SysClose, DescTables
<1>4. /\ fds' \in DescTables
      /\ \A q \in Callers, g \in Fds :
           fds'[q][g] = IF q = p /\ g = f THEN None ELSE fds[q][g]
  BY <1>2 DEF SysClose, DescTables
<1> DEFINE new == CloseSlot(Files, fds[p][f])
<1>5. /\ table' = new.table /\ inodes' = new.inodes /\ open' = new.open
      /\ halt' = new.halt /\ UNCHANGED <<dir, imap, call, state, lost>>
  BY DEF SysClose, Becomes
<1>6. /\ new \in FileStates /\ new.halt = "no"
      /\ FilesInv(new.table, new.inodes, new.open, fds')
  <2>1. PICK x : x = new
    OBVIOUS
  <2>2. PICK y : y = Files
    OBVIOUS
  <2>3. x = CloseSlot(y, fds[p][f])
    BY <2>1, <2>2
  <2> HIDE DEF new
  <2>4. /\ y \in FileStates /\ y.halt = "no"
        /\ FilesInv(y.table, y.inodes, y.open, fds)
    BY <2>2, <1>1, FilesAreStates
  <2>5. /\ x \in FileStates /\ x.halt = "no"
        /\ FilesInv(x.table, x.inodes, x.open, fds')
    BY <2>3, <2>4, <1>1, <1>3, <1>4, CloseFacts
  <2> QED BY <2>1, <2>5
<1> HIDE DEF new
<1>7. FilesInv(table, inodes, open, fds)'
  BY <1>5, <1>6, FilesFrame
<1>8. TypeInv' /\ OneCall' /\ DirInv'
  BY <1>1, <1>5, <1>6, CallsFrame DEF TypeInv
<1>9. DeadInv'
  BY <1>1, <1>4, <1>5 DEF DeadInv
<1> QED BY <1>7, <1>8, <1>9 DEF FileTableInv

LEMMA SysExitInv ==
    ASSUME FileTableInv, NEW p \in Procs, SysExit(p)
    PROVE  FileTableInv'
<1>0. p \in Callers /\ Boot \in Callers
  BY DEF Callers
<1>1. TypeInv /\ FilesInv(table, inodes, open, fds) /\ DeadInv /\ OneCall /\ DirInv
  BY DEF FileTableInv
<1>2. fds \in DescTables /\ state \in [Callers -> BOOLEAN]
  BY <1>1 DEF FilesInv, FileTypes, TypeInv
<1>3. /\ fds' \in DescTables
      /\ \A q \in Callers, g \in Fds : fds'[q][g] = IF q = p THEN None ELSE fds[q][g]
  BY <1>0, <1>2 DEF SysExit, DescTables
<1> DEFINE new == CloseAll(Files, fds[p])
<1>4. /\ table' = new.table /\ inodes' = new.inodes /\ open' = new.open
      /\ halt' = new.halt /\ UNCHANGED <<dir, imap, call, lost>>
      /\ state' = [state EXCEPT ![p] = FALSE]
  BY DEF SysExit, Becomes
<1>5. /\ new \in FileStates /\ new.halt = "no"
      /\ FilesInv(new.table, new.inodes, new.open, fds')
  BY <1>0, <1>1, <1>3, CloseAllFacts
<1> HIDE DEF new
<1>6. /\ state' \in [Callers -> BOOLEAN]
      /\ \A q \in Callers : state'[q] => state[q]
      /\ \A q \in Callers : ~state'[q] => ~state[q] \/ q = p
  BY <1>2, <1>4
<1>7. FilesInv(table, inodes, open, fds)'
  BY <1>0, <1>4, <1>5, <1>6, FilesFrame
<1>8. TypeInv' /\ OneCall' /\ DirInv'
  BY <1>1, <1>4, <1>5, <1>6, CallsFrame DEF TypeInv
<1>9. DeadInv'
  BY <1>1, <1>3, <1>6 DEF DeadInv
<1> QED BY <1>7, <1>8, <1>9 DEF FileTableInv

\* The descriptors of one process on a slot.
LEMMA RefsFacts ==
    ASSUME NEW p \in Callers, NEW s
    PROVE  /\ IsFiniteSet(Refs(p, s)) /\ Cardinality(Refs(p, s)) \in Nat
           /\ \A c : /\ IsFiniteSet({c} \X Refs(p, s))
                     /\ Cardinality({c} \X Refs(p, s)) = Cardinality(Refs(p, s))
<1>1. Refs(p, s) \in SUBSET Fds
  BY DEF Refs
<1>2. IsFiniteSet(Refs(p, s)) /\ Cardinality(Refs(p, s)) \in Nat
  BY <1>1, ConstFacts, FS_Subset, FS_CardinalityType
<1>3. ASSUME NEW c
      PROVE  /\ IsFiniteSet({c} \X Refs(p, s))
             /\ Cardinality({c} \X Refs(p, s)) = Cardinality(Refs(p, s))
  <2>1. IsFiniteSet({c}) /\ Cardinality({c}) = 1
    BY FS_Singleton
  <2>2. /\ IsFiniteSet({c} \X Refs(p, s))
        /\ Cardinality({c} \X Refs(p, s)) = Cardinality({c}) * Cardinality(Refs(p, s))
    BY <2>1, <1>2, FS_Product
  <2> QED BY <2>1, <2>2, <1>2
<1> QED BY <1>2, <1>3

\* fork: the child's descriptors are new ones of the parent's pipes.
LEMMA SysForkInv ==
    ASSUME ~ShareFiles, FileTableInv, NEW p \in Procs, NEW c \in Procs, SysFork(p, c)
    PROVE  FileTableInv'
<1>0. p \in Callers /\ c \in Callers /\ Boot \in Callers /\ c # Boot
  BY NamesAssumption DEF Callers
<1>1. TypeInv /\ FilesInv(table, inodes, open, fds) /\ DeadInv /\ OneCall /\ DirInv
  BY DEF FileTableInv
<1>2. /\ fds \in DescTables /\ state \in [Callers -> BOOLEAN]
      /\ table \in [Slots -> SlotRecords] /\ inodes \in [Ids -> InodeRecords]
  BY <1>1 DEF FilesInv, FileTypes, TypeInv
<1>3. DescInv(table, fds) /\ PosInv(table, fds) /\ LostInv(table, fds)
  BY <1>1 DEF FilesInv
<1>4. state[p] /\ ~state[c] /\ p # c /\ \A f \in Fds : fds[c][f] = None
  BY <1>0, <1>1 DEF SysFork, Ready, DeadInv
<1> DEFINE slots == {fds[p][f] : f \in Fds} \ {None}
           files == {s \in slots : ~table[s].pipe}
<1>5. slots \subseteq Slots
  BY <1>0, <1>2 DEF DescTables
<1>6. files = {}
  BY DEF SysFork
<1>7. ASSUME NEW s \in Slots
      PROVE  /\ s \in slots <=> Refs(p, s) # {}
             /\ Refs(p, s) # {} => table[s].inode = Page
  <2>1. s \in slots <=> Refs(p, s) # {}
    BY NoneFacts DEF Refs
  <2>2. s \in slots => table[s].pipe
    BY <1>6
  <2>3. Refs(p, s) # {} => table[s].inode # None
    BY <1>0, <1>3 DEF Refs, DescInv
  <2> QED BY <2>1, <2>2, <2>3, <1>3 DEF DescInv
<1>8. inodes' = inodes /\ halt' = halt
  <2>1. \A i : {t \in files : table[t].inode = i} = {}
    BY <1>6
  <2>2. \A i : Cardinality(UNION {Refs(p, s) : s \in {t \in files : table[t].inode = i}}) = 0
    <3>1. UNION {Refs(p, s) : s \in {}} = {}
      OBVIOUS
    <3> HIDE DEF files
    <3> QED BY <2>1, <3>1, FS_EmptySet
  <2>3. inodes' = [i \in Ids |-> [inodes[i] EXCEPT !.cnt = inodes[i].cnt + 0]]
    <3>1. inodes' = [i \in Ids |-> [inodes[i] EXCEPT !.cnt = inodes[i].cnt +
                       Cardinality(UNION {Refs(p, s) : s \in {t \in files : table[t].inode = i}})]]
      BY DEF SysFork
    <3> HIDE DEF files
    <3> QED BY <2>2, <3>1
  <2>4. \A r \in InodeRecords : [r EXCEPT !.cnt = r.cnt + 0] = r
    BY DEF InodeRecords
  <2>5. halt' = halt
    BY <1>6 DEF SysFork
  <2> QED BY <2>3, <2>4, <2>5, <1>2
<1>9. /\ table' \in [Slots -> SlotRecords]
      /\ \A s \in Slots : /\ table'[s].inode = table[s].inode
                          /\ table'[s].pipe = table[s].pipe
                          /\ table'[s].pos = table[s].pos + Cardinality(Refs(p, s))
  <2>1. table' = [s \in Slots |-> IF s \in slots \ files
                    THEN [table[s] EXCEPT !.pos = table[s].pos + Cardinality(Refs(p, s))]
                    ELSE table[s]]
    BY DEF SysFork
  <2>2. ASSUME NEW r \in SlotRecords, NEW n \in Nat
        PROVE  /\ [r EXCEPT !.pos = r.pos + n] \in SlotRecords
               /\ [r EXCEPT !.pos = r.pos + n].inode = r.inode
               /\ [r EXCEPT !.pos = r.pos + n].pipe = r.pipe
               /\ [r EXCEPT !.pos = r.pos + n].pos = r.pos + n
    BY DEF SlotRecords
  <2>3. ASSUME NEW s \in Slots
        PROVE  /\ table'[s] \in SlotRecords
               /\ table'[s].inode = table[s].inode
               /\ table'[s].pipe = table[s].pipe
               /\ table'[s].pos = table[s].pos + Cardinality(Refs(p, s))
    <3>1. Cardinality(Refs(p, s)) \in Nat /\ table[s] \in SlotRecords
      BY <1>0, <1>2, RefsFacts
    <3>2. CASE s \in slots
      <4>1. table'[s] = [table[s] EXCEPT !.pos = table[s].pos + Cardinality(Refs(p, s))]
        BY <2>1, <3>2, <1>6
      <4> QED BY <4>1, <3>1, <2>2
    <3>3. CASE s \notin slots
      <4>1. table'[s] = table[s]
        BY <2>1, <3>3
      <4>2. Cardinality(Refs(p, s)) = 0
        BY <3>3, <1>7, FS_EmptySet
      <4>3. table[s].pos \in Int
        BY <3>1 DEF SlotRecords
      <4> QED BY <4>1, <4>2, <4>3, <3>1
    <3> QED BY <3>2, <3>3
  <2> QED BY <2>1, <2>3
<1>10. /\ UNCHANGED <<open, dir, imap, call, lost>>
       /\ fds' = [fds EXCEPT ![c] = fds[p]]
       /\ state' = [state EXCEPT ![c] = TRUE]
  BY DEF SysFork
<1>11. /\ fds' \in DescTables
       /\ \A q \in Callers, g \in Fds : fds'[q][g] = IF q = c THEN fds[p][g] ELSE fds[q][g]
  BY <1>0, <1>2, <1>10 DEF DescTables
<1>12. ASSUME NEW s \in Slots
       PROVE  /\ Descs(fds', s) = Descs(fds, s) \cup ({c} \X Refs(p, s))
              /\ Descs(fds, s) \cap ({c} \X Refs(p, s)) = {}
              /\ Descs(fds, s) = {} => Refs(p, s) = {}
  <2>1. Descs(fds', s) = Descs(fds, s) \cup ({c} \X Refs(p, s))
    <3>1. ASSUME NEW x \in Callers \X Fds
          PROVE  fds'[x[1]][x[2]] = s <=> fds[x[1]][x[2]] = s \/ (x[1] = c /\ x[2] \in Refs(p, s))
      BY <1>4, <1>11, NoneFacts DEF Refs
    <3>2. ASSUME NEW x \in {c} \X Refs(p, s) PROVE x \in Callers \X Fds
      BY <1>0 DEF Refs
    <3>3. ASSUME NEW x \in Callers \X Fds
          PROVE  x \in {c} \X Refs(p, s) <=> x[1] = c /\ x[2] \in Refs(p, s)
      OBVIOUS
    <3> QED BY <3>1, <3>2, <3>3 DEF Descs
  <2>2. Descs(fds, s) \cap ({c} \X Refs(p, s)) = {}
    BY <1>4, NoneFacts DEF Descs, Refs
  <2>3. Descs(fds, s) = {} => Refs(p, s) = {}
    BY <1>0, DescsEmpty DEF Refs
  <2> QED BY <2>1, <2>2, <2>3
<1>13. ASSUME NEW s \in Slots
       PROVE  /\ Cardinality(Descs(fds', s)) = Cardinality(Descs(fds, s)) + Cardinality(Refs(p, s))
              /\ Refs(p, s) = {} => Descs(fds', s) = Descs(fds, s)
  <2>1. /\ IsFiniteSet(Descs(fds, s)) /\ Cardinality(Descs(fds, s)) \in Nat
        /\ IsFiniteSet({c} \X Refs(p, s))
        /\ Cardinality({c} \X Refs(p, s)) = Cardinality(Refs(p, s))
        /\ Cardinality(Refs(p, s)) \in Nat
    BY <1>0, DescsFinite, RefsFacts
  <2>2. Cardinality(Descs(fds, s) \cup ({c} \X Refs(p, s))) =
          Cardinality(Descs(fds, s)) + Cardinality({c} \X Refs(p, s))
          - Cardinality(Descs(fds, s) \cap ({c} \X Refs(p, s)))
    BY <2>1, FS_Union
  <2>3. Cardinality(Descs(fds, s) \cap ({c} \X Refs(p, s))) = 0
    BY <1>12, FS_EmptySet
  <2>4. Cardinality(Descs(fds, s) \cup ({c} \X Refs(p, s))) =
          Cardinality(Descs(fds, s)) + Cardinality(Refs(p, s))
    BY <2>1, <2>2, <2>3
  <2>5. Descs(fds', s) = Descs(fds, s) \cup ({c} \X Refs(p, s))
    BY <1>12
  <2>6. Cardinality(Descs(fds', s)) = Cardinality(Descs(fds, s)) + Cardinality(Refs(p, s))
    BY <2>4, <2>5
  <2>7. ASSUME Refs(p, s) = {} PROVE Descs(fds', s) = Descs(fds, s)
    BY <2>5, <2>7
  <2> QED BY <2>6, <2>7
<1>14. FileTypes(table', inodes', open', fds')
  BY <1>1, <1>8, <1>9, <1>10, <1>11 DEF FilesInv, FileTypes
<1>15. DescInv(table', fds')
  <2>1. \A s \in Slots : table'[s].inode = Page <=> table'[s].pipe /\ table'[s].inode # None
    BY <1>3, <1>9 DEF DescInv
  <2>2. ASSUME NEW q \in Callers, NEW f \in Fds, NEW s \in Slots, fds'[q][f] = s
        PROVE  /\ table'[s].inode # None
               /\ table'[s].inode \in Ids => fds[q][f] = s
    <3>1. CASE q = c
      <4>1. f \in Refs(p, s)
        BY <2>2, <3>1, <1>11 DEF Refs
      <4> QED BY <4>1, <1>7, <1>9, NoneFacts
    <3>2. CASE q # c
      BY <2>2, <3>2, <1>3, <1>9, <1>11 DEF DescInv
    <3> QED BY <3>1, <3>2
  <2>3. \A q \in Callers, f \in Fds : \A s \in Slots : fds'[q][f] = s => table'[s].inode # None
    BY <2>2
  <2>4. \A q, u \in Callers, f, g \in Fds : \A s \in Slots :
          table'[s].inode \in Ids /\ fds'[q][f] = s /\ fds'[u][g] = s => q = u /\ f = g
    BY <2>2, <1>3, <1>9 DEF DescInv
  <2>5. \A f \in Fds, s \in Slots : fds'[Boot][f] = s => table'[s].inode \in Ids
    BY <1>0, <1>3, <1>9, <1>11 DEF DescInv
  <2> QED BY <2>1, <2>3, <2>4, <2>5 DEF DescInv
<1>16. PosInv(table', fds')
  <2> SUFFICES ASSUME NEW s \in Slots, table'[s].inode = Page
               PROVE  /\ Cardinality(Descs(fds', s)) <= table'[s].pos
                      /\ lost.fds = 0 => Cardinality(Descs(fds', s)) = table'[s].pos
    BY DEF PosInv
  <2>1. /\ Cardinality(Descs(fds, s)) <= table[s].pos
        /\ lost.fds = 0 => Cardinality(Descs(fds, s)) = table[s].pos
    BY <1>3, <1>9 DEF PosInv
  <2>2. /\ Cardinality(Descs(fds, s)) \in Nat /\ Cardinality(Refs(p, s)) \in Nat
        /\ table[s].pos \in Int
    BY <1>0, <1>2, DescsFinite, RefsFacts DEF SlotRecords
  <2>3. table'[s].pos = table[s].pos + Cardinality(Refs(p, s))
    BY <1>9
  <2>4. Cardinality(Descs(fds', s)) = Cardinality(Descs(fds, s)) + Cardinality(Refs(p, s))
    BY <1>13
  <2> QED BY <2>1, <2>2, <2>3, <2>4
<1>17. LostInv(table', fds')
  <2>1. ASSUME NEW s \in Slots PROVE s \in Orphans(table', fds') <=> s \in Orphans(table, fds)
    <3>1. table[s].inode \in Ids => Descs(fds', s) = Descs(fds, s)
      BY <1>7, <1>13, NoneFacts
    <3> QED BY <3>1, <1>9 DEF Orphans
  <2>2. Orphans(table', fds') = Orphans(table, fds)
    BY <2>1 DEF Orphans
  <2> QED BY <2>2, <1>3 DEF LostInv
<1>18. InodeInv(table', inodes', open') /\ CallInv(table', inodes', open', fds')
  <2>1. \A s \in Slots : Descs(fds, s) = {} => Descs(fds', s) = {}
    BY <1>12, <1>13
  <2>2. \A s \in Slots : table[s].inode = None => table'[s].inode = None
    BY <1>9
  <2>3. InodeInv(table', inodes, open) /\ CallInv(table', inodes, open, fds')
    BY <2>1, <2>2, <1>1, <1>9, PipeChange
  <2> QED BY <2>3, <1>8, <1>10
<1>19. FilesInv(table', inodes', open', fds')
  BY <1>14, <1>15, <1>16, <1>17, <1>18 DEF FilesInv
<1>20. /\ state' \in [Callers -> BOOLEAN] /\ state'[Boot] = state[Boot]
       /\ \A q \in Callers : ~state'[q] => ~state[q] /\ q # c
  BY <1>0, <1>2, <1>10
<1>21. FilesInv(table, inodes, open, fds)'
  BY <1>10, <1>19, <1>20, FilesFrame
<1>22. TypeInv' /\ OneCall' /\ DirInv'
  BY <1>1, <1>8, <1>10, <1>20, CallsFrame DEF TypeInv
<1>23. DeadInv'
  BY <1>1, <1>11, <1>20 DEF DeadInv
<1> QED BY <1>21, <1>22, <1>23 DEF FileTableInv

\* The boot thread's files stay open for ever, and are counted once.
LEMMA BootExitInv ==
    ASSUME FileTableInv, BootExit
    PROVE  FileTableInv'
<1>0. Boot \in Callers
  BY DEF Callers
<1>1. TypeInv /\ FilesInv(table, inodes, open, fds) /\ DeadInv /\ OneCall /\ DirInv
  BY DEF FileTableInv
<1>2. /\ fds \in DescTables /\ state \in [Callers -> BOOLEAN]
      /\ lost \in [slots : Nat, fds : Nat, boot : Nat]
  BY <1>1 DEF FilesInv, FileTypes, TypeInv
<1>3. DescInv(table, fds) /\ PosInv(table, fds) /\ LostInv(table, fds)
  BY <1>1 DEF FilesInv
<1> DEFINE F == {f \in Fds : fds[Boot][f] # None}
           B == {fds[Boot][f] : f \in F}
<1>4. /\ UNCHANGED <<table, inodes, open, dir, imap, call, halt>>
      /\ state' = [state EXCEPT ![Boot] = FALSE]
      /\ lost' = [lost EXCEPT !.boot = Cardinality(F)]
      /\ state[Boot]
  BY DEF BootExit, Ready
<1>5. /\ fds' \in DescTables
      /\ \A q \in Callers, g \in Fds : fds'[q][g] = IF q = Boot THEN None ELSE fds[q][g]
  BY <1>0, <1>2 DEF BootExit, DescTables
<1>6. F \subseteq Fds /\ B \subseteq Slots
  BY <1>0, <1>2 DEF DescTables
<1>7. /\ IsFiniteSet(F) /\ Cardinality(F) \in Nat
      /\ IsFiniteSet(B) /\ Cardinality(B) = Cardinality(F)
  <2>1. IsFiniteSet(F) /\ Cardinality(F) \in Nat
    BY <1>6, ConstFacts, FS_Subset, FS_CardinalityType
  <2> DEFINE m == [f \in F |-> fds[Boot][f]]
  <2>2. m \in [F -> B] /\ \A b \in B : \E f \in F : m[f] = b
    OBVIOUS
  <2>3. ASSUME NEW f \in F, NEW g \in F, m[f] = m[g] PROVE f = g
    <3>1. fds[Boot][f] \in Slots /\ fds[Boot][f] = fds[Boot][g] /\ f \in Fds /\ g \in Fds
      BY <2>3, <1>6
    <3>2. table[fds[Boot][f]].inode \in Ids
      BY <3>1, <1>3 DEF DescInv
    <3> QED BY <3>1, <3>2, <1>0, <1>3 DEF DescInv
  <2>4. m \in Bijection(F, B)
    <3>1. DOMAIN m = F
      OBVIOUS
    <3> HIDE DEF m, F, B
    <3> QED BY <2>2, <2>3, <3>1 DEF Bijection, Injection, Surjection, IsInjective
  <2>5. ExistsBijection(F, B)
    BY <2>4 DEF ExistsBijection
  <2> HIDE DEF F, B
  <2> QED BY <2>1, <2>5, FS_Bijection
<1>8. ASSUME NEW s \in B
      PROVE  /\ table[s].inode \in Ids /\ Descs(fds, s) # {} /\ Descs(fds', s) = {}
             /\ ~InCreation(s)
  <2>1. PICK f \in Fds : fds[Boot][f] = s /\ s \in Slots
    BY <1>6
  <2>2. table[s].inode \in Ids
    BY <2>1, <1>3 DEF DescInv
  <2>3. <<Boot, f>> \in Descs(fds, s)
    BY <2>1, <1>0, DescsMember
  <2>4. ASSUME NEW q \in Callers, NEW g \in Fds PROVE fds'[q][g] # s
    <3>1. CASE q = Boot
      BY <3>1, <1>5, <2>1, NoneFacts
    <3>2. CASE q # Boot
      <4>1. fds'[q][g] = fds[q][g]
        BY <3>2, <1>5
      <4> QED BY <3>2, <4>1, <1>0, <1>3, <2>1, <2>2 DEF DescInv
    <3> QED BY <3>1, <3>2
  <2>5. Descs(fds', s) = {}
    BY <2>4, DescsEmpty
  <2>6. ~InCreation(s)
    BY <2>1, <2>3, <1>1, CreationUnnamed
  <2> QED BY <2>2, <2>3, <2>5, <2>6
<1>9. ASSUME NEW s \in Slots \ B PROVE Descs(fds', s) = Descs(fds, s)
  <2>1. \A f \in Fds : fds[Boot][f] # s
    BY NoneFacts
  <2> HIDE DEF B
  <2> QED BY <2>1, <1>5, NoneFacts DEF Descs
<1>10. ASSUME NEW s \in Slots, table[s].inode = Page PROVE Descs(fds', s) = Descs(fds, s)
  BY <1>8, <1>9, <1>10, NoneFacts
<1> HIDE DEF B
<1>11. FileTypes(table, inodes, open, fds)'
  BY <1>1, <1>4, <1>5 DEF FilesInv, FileTypes
<1>12. DescInv(table, fds)'
  <2>1. \A q \in Callers, g \in Fds, s \in Slots : fds'[q][g] = s => fds[q][g] = s
    BY <1>5, NoneFacts
  <2>2. \A g \in Fds, s \in Slots : fds'[Boot][g] # s
    BY <1>0, <1>5, NoneFacts
  <2> QED BY <2>1, <2>2, <1>3, <1>4 DEF DescInv
<1>13. lost' \in [slots : Nat, fds : Nat, boot : Nat] /\ lost'.slots = lost.slots
       /\ lost'.fds = lost.fds /\ lost'.boot = Cardinality(F) /\ lost.boot = 0
  <2> HIDE DEF F
  <2> QED BY <1>2, <1>3, <1>4, <1>7 DEF LostInv
<1>14. PosInv(table, fds)'
  <2>1. \A s : Descs(fds, s)' = Descs(fds', s)
    BY DEF Descs
  <2> QED BY <2>1, <1>3, <1>4, <1>10, <1>13 DEF PosInv
<1>15. LostInv(table, fds)'
  <2>1. \A s : InCreation(s)' <=> InCreation(s)
    BY <1>4 DEF InCreation
  <2>2. ASSUME NEW s \in Slots
        PROVE  s \in Orphans(table, fds)' <=> s \in Orphans(table, fds) \/ s \in B
    <3>1. Descs(fds, s)' = Descs(fds', s)
      BY DEF Descs
    <3>2. s \in Orphans(table, fds)' <=>
            table[s].inode \in Ids /\ Descs(fds', s) = {} /\ ~InCreation(s)
      BY <3>1, <2>1, <1>4 DEF Orphans
    <3>3. s \in Orphans(table, fds) <=>
            table[s].inode \in Ids /\ Descs(fds, s) = {} /\ ~InCreation(s)
      BY DEF Orphans
    <3> QED BY <3>2, <3>3, <1>8, <1>9
  <2>3. Orphans(table, fds)' = Orphans(table, fds) \cup B
    BY <2>2, <1>6 DEF Orphans
  <2>4. Orphans(table, fds) \cap B = {}
    BY <1>8 DEF Orphans
  <2>5. /\ IsFiniteSet(Orphans(table, fds))
        /\ Cardinality(Orphans(table, fds)) \in Nat
    <3>1. Orphans(table, fds) \in SUBSET Slots
      BY DEF Orphans
    <3> QED BY <3>1, SlotSetFinite
  <2>6. Cardinality(Orphans(table, fds) \cup B) =
          Cardinality(Orphans(table, fds)) + Cardinality(B)
          - Cardinality(Orphans(table, fds) \cap B)
    BY <2>5, <1>7, FS_Union
  <2>7. Cardinality(Orphans(table, fds) \cap B) = 0
    BY <2>4, FS_EmptySet
  <2>8. Cardinality(Orphans(table, fds))' = Cardinality(Orphans(table, fds)) + Cardinality(B)
    BY <2>3, <2>5, <2>6, <2>7, <1>7
  <2>9. lost'.slots + lost'.boot = Cardinality(Orphans(table, fds)) + Cardinality(B)
    <3>1. Cardinality(Orphans(table, fds)) = lost.slots + lost.boot
      BY <1>3 DEF LostInv
    <3>2. lost.slots \in Nat
      BY <1>2
    <3> HIDE DEF F
    <3> QED BY <3>1, <3>2, <1>7, <1>13
  <2>10. ~state'[Boot]
    BY <1>0, <1>2, <1>4
  <2> QED BY <2>8, <2>9, <2>10 DEF LostInv
<1>16. InodeInv(table, inodes, open)' /\ CallInv(table, inodes, open, fds)'
  <2>1. \A s \in Slots : Descs(fds, s) = {} => Descs(fds', s) = {}
    BY <1>8, <1>9
  <2>2. InodeInv(table, inodes, open) /\ CallInv(table, inodes, open, fds')
    BY <2>1, <1>1, PipeChange
  <2>3. InodeInv(table, inodes, open)'
    <3>1. /\ \A s : InCreation(s)' <=> InCreation(s)
          /\ \A i : Releasing(i)' <=> Releasing(i)
          /\ \A i : Fetching(i)' <=> Fetching(i)
      BY <1>4 DEF InCreation, Releasing, Fetching
    <3> QED BY <2>2, <3>1, <1>4 DEF InodeInv, SlotsOf
  <2>4. CallInv(table, inodes, open, fds)'
    BY <2>2, <1>4 DEF CallInv, SlotsOf, Descs
  <2> QED BY <2>3, <2>4
<1>17. FilesInv(table, inodes, open, fds)'
  BY <1>11, <1>12, <1>14, <1>15, <1>16 DEF FilesInv
<1>18. state' \in [Callers -> BOOLEAN] /\ \A q \in Callers : ~state'[q] => ~state[q] \/ q = Boot
  BY <1>2, <1>4
<1>19. TypeInv' /\ OneCall' /\ DirInv'
  BY <1>1, <1>4, <1>13, <1>18, CallsFrame DEF TypeInv
<1>20. DeadInv'
  BY <1>1, <1>5, <1>18 DEF DeadInv
<1> QED BY <1>17, <1>19, <1>20 DEF FileTableInv

-----------------------------------------------------------------------------
\* Pipes

\* sys_pipe takes the first two free descriptors at most.
LEMMA AtMostTwo ==
    ASSUME NEW S \in SUBSET Fds,
           NEW got, \A f : f \in got <=> f \in S /\ Cardinality({g \in S : g < f}) < 2
    PROVE  IsFiniteSet(got) /\ Cardinality(got) \in 0 .. 2
<1>1. got \in SUBSET Fds /\ Fds \subseteq Nat /\ S \subseteq Nat
  BY ConstFacts
<1>2. IsFiniteSet(got) /\ Cardinality(got) \in Nat /\ IsFiniteSet(S)
  BY <1>1, ConstFacts, FS_Subset, FS_CardinalityType
<1>3. ASSUME NEW a \in got, NEW b \in got, NEW c \in got, a < c, b < c PROVE a = b
  <2> SUFFICES ASSUME a # b PROVE FALSE
    OBVIOUS
  <2> DEFINE low == {g \in S : g < c}
  <2>1. {a} \cup {b} \in SUBSET low /\ low \in SUBSET S
    BY <1>3
  <2>2. Cardinality(low) < 2
    OBVIOUS
  <2> HIDE DEF low
  <2>3. IsFiniteSet({a}) /\ Cardinality({a}) = 1
    BY FS_Singleton
  <2>4. Cardinality({a} \cup {b}) = 2
    BY <2>3, FS_AddElement
  <2>5. IsFiniteSet(low)
    BY <2>1, <1>2, FS_Subset
  <2>6. Cardinality({a} \cup {b}) <= Cardinality(low) /\ Cardinality(low) \in Nat
    BY <2>1, <2>5, FS_Subset, FS_CardinalityType
  <2> QED BY <2>2, <2>4, <2>6
<1>4. ASSUME NEW a \in got, NEW b \in got, NEW c \in got PROVE a = b \/ a = c \/ b = c
  <2>1. a \in Nat /\ b \in Nat /\ c \in Nat
    BY <1>1
  <2> QED BY <2>1, <1>3
<1>5. CASE got = {}
  BY <1>5, <1>2, FS_EmptySet
<1>6. CASE got # {}
  <2>1. PICK a \in got : TRUE
    BY <1>6
  <2>2. IsFiniteSet({a}) /\ Cardinality({a}) = 1
    BY FS_Singleton
  <2>3. CASE got = {a}
    BY <2>2, <2>3
  <2>4. CASE got # {a}
    <3>1. PICK b \in got : b # a
      BY <2>1, <2>4
    <3>2. got = {a} \cup {b}
      BY <2>1, <3>1, <1>4
    <3>3. Cardinality({a} \cup {b}) = 2 /\ IsFiniteSet({a} \cup {b})
      BY <2>2, <3>1, FS_AddElement
    <3> QED BY <3>2, <3>3
  <2> QED BY <2>3, <2>4
<1> QED BY <1>5, <1>6

\* The slot that get_free_slot_in_global finds.
LEMMA FreeSlotFacts ==
    ASSUME FileTableInv, FreeSlots # {}
    PROVE  /\ Least(FreeSlots) \in Slots
           /\ table[Least(FreeSlots)].inode = None
           /\ Descs(fds, Least(FreeSlots)) = {}
<1>1. FreeSlots \in SUBSET Nat
  BY ConstFacts DEF FreeSlots
<1>2. Least(FreeSlots) \in FreeSlots
  BY <1>1, LeastFacts
<1>3. ASSUME NEW s \in Slots, table[s].inode = None PROVE Descs(fds, s) = {}
  <2>1. DescInv(table, fds)
    BY DEF FileTableInv, FilesInv
  <2>2. \A p \in Callers, f \in Fds : fds[p][f] # s
    BY <2>1, <1>3 DEF DescInv
  <2> QED BY <2>2, DescsEmpty
<1> QED BY <1>2, <1>3 DEF FreeSlots

\* A call that sleeps starts when no other is under way.
LEMMA StartsFacts ==
    ASSUME ~Overlap, NEW p, Starts(p)
    PROVE  /\ \A q \in Callers : call[q].op = "none"
           /\ \A s : ~InCreation(s)
           /\ \A i : ~Releasing(i) /\ ~Fetching(i)
           /\ state[p] /\ halt = "no"
<1>1. \A q \in Callers : call[q].op = "none"
  BY DEF Starts
<1> QED BY <1>1 DEF Starts, Ready, InCreation, Releasing, Fetching

LEMMA SysPipeInv ==
    ASSUME ~Overlap, FileTableInv, NEW p \in Procs, SysPipe(p)
    PROVE  FileTableInv'
<1>0. p \in Callers /\ Boot \in Callers /\ p # Boot
  BY NamesAssumption DEF Callers
<1>1. TypeInv /\ FilesInv(table, inodes, open, fds) /\ DeadInv /\ OneCall /\ DirInv
  BY DEF FileTableInv
<1>2. /\ fds \in DescTables /\ table \in [Slots -> SlotRecords]
      /\ lost \in [slots : Nat, fds : Nat, boot : Nat]
  BY <1>1 DEF FilesInv, FileTypes, TypeInv
<1>3. DescInv(table, fds) /\ PosInv(table, fds) /\ LostInv(table, fds)
  BY <1>1 DEF FilesInv
<1> DEFINE s == Least(FreeSlots)
           got == {f \in FreeFds(p) : Cardinality({g \in FreeFds(p) : g < f}) < 2}
           r == [inode |-> Page, pipe |-> TRUE, write |-> FALSE, pos |-> 2]
<1>4. /\ Starts(p) /\ FreeSlots # {}
      /\ table' = [table EXCEPT ![s] = r]
      /\ fds' = [fds EXCEPT ![p] = [f \in Fds |-> IF f \in got THEN s ELSE fds[p][f]]]
      /\ lost' = [lost EXCEPT !.fds = lost.fds + 2 - Cardinality(got)]
      /\ UNCHANGED <<inodes, open, dir, imap, call, state, halt>>
  BY DEF SysPipe
<1>5. s \in Slots /\ table[s].inode = None /\ Descs(fds, s) = {}
  BY <1>4, FreeSlotFacts
<1>6. got \in SUBSET Fds /\ \A f \in got : fds[p][f] = None
  BY DEF FreeFds
<1>7. IsFiniteSet(got) /\ Cardinality(got) \in 0 .. 2
  <2>1. FreeFds(p) \in SUBSET Fds
    BY DEF FreeFds
  <2>2. \A f : f \in got <=> f \in FreeFds(p) /\ Cardinality({g \in FreeFds(p) : g < f}) < 2
    OBVIOUS
  <2> HIDE DEF got
  <2> QED BY <2>1, <2>2, AtMostTwo
<1> HIDE DEF s, got
<1>8. r \in SlotRecords /\ r.inode = Page /\ r.pipe /\ r.pos = 2
  <2>1. r \in SlotRecords
    BY DEF SlotRecords
  <2> QED BY <2>1
<1> HIDE DEF r
<1>9. /\ table' \in [Slots -> SlotRecords] /\ table'[s] = r
      /\ \A t \in Slots \ {s} : table'[t] = table[t]
  BY <1>2, <1>4, <1>5, <1>8
<1>10. /\ fds' \in DescTables
       /\ \A q \in Callers, g \in Fds :
            fds'[q][g] = IF q = p /\ g \in got THEN s ELSE fds[q][g]
  BY <1>0, <1>2, <1>4, <1>5 DEF DescTables
<1>11. /\ lost' \in [slots : Nat, fds : Nat, boot : Nat]
       /\ lost'.slots = lost.slots /\ lost'.boot = lost.boot
       /\ lost'.fds = lost.fds + (2 - Cardinality(got))
       /\ lost.fds \in Nat
  BY <1>2, <1>4, <1>7
<1>12. /\ \A t \in Slots \ {s} : Descs(fds', t) = Descs(fds, t)
       /\ Descs(fds', s) = {p} \X got
  <2>1. ASSUME NEW q \in Callers, NEW g \in Fds
        PROVE  /\ \A t \in Slots \ {s} : fds'[q][g] = t <=> fds[q][g] = t
               /\ fds'[q][g] = s <=> q = p /\ g \in got
    <3>1. fds[q][g] # s
      BY <1>5, DescsEmpty
    <3> QED BY <3>1, <1>6, <1>10, NoneFacts
  <2>2. ASSUME NEW t \in Slots \ {s} PROVE Descs(fds', t) = Descs(fds, t)
    BY <2>1 DEF Descs
  <2>3. ASSUME NEW x PROVE x \in Descs(fds', s) <=> x \in {p} \X got
    <3>1. x \in Descs(fds', s) <=> x \in Callers \X Fds /\ fds'[x[1]][x[2]] = s
      BY DEF Descs
    <3>2. x \in {p} \X got => x \in Callers \X Fds
      BY <1>0, <1>6
    <3>3. x \in Callers \X Fds => (x \in {p} \X got <=> x[1] = p /\ x[2] \in got)
      OBVIOUS
    <3> QED BY <3>1, <3>2, <3>3, <2>1
  <2> QED BY <2>2, <2>3
<1>13. Cardinality(Descs(fds', s)) = Cardinality(got)
  <2>1. IsFiniteSet({p}) /\ Cardinality({p}) = 1
    BY FS_Singleton
  <2>2. Cardinality({p} \X got) = Cardinality({p}) * Cardinality(got)
    BY <2>1, <1>7, FS_Product
  <2>3. Cardinality({p} \X got) = Cardinality(got)
    BY <2>1, <2>2, <1>7
  <2> QED BY <2>3, <1>12
<1>14. \A t : Descs(fds, t)' = Descs(fds', t)
  BY DEF Descs
<1>15. FileTypes(table, inodes, open, fds)'
  BY <1>1, <1>4, <1>9, <1>10 DEF FilesInv, FileTypes
<1>16. DescInv(table, fds)'
  <2>1. \A t \in Slots : table'[t].inode = Page <=> table'[t].pipe /\ table'[t].inode # None
    BY <1>3, <1>8, <1>9, NoneFacts DEF DescInv
  <2>2. ASSUME NEW q \in Callers, NEW g \in Fds, NEW t \in Slots, fds'[q][g] = t
        PROVE  /\ t # s => fds[q][g] = t /\ table'[t] = table[t]
               /\ t = s => q = p /\ table'[t].inode = Page
    <3>1. ASSUME t # s PROVE <<q, g>> \in Descs(fds, t)
      BY <2>2, <3>1, <1>12, DescsMember
    <3>2. t = s => <<q, g>> \in {p} \X got
      BY <2>2, <1>12, DescsMember
    <3>3. ASSUME t # s PROVE fds[q][g] = t
      <4>1. <<q, g>> \in Descs(fds, t)
        BY <3>1, <3>3
      <4> QED BY <4>1 DEF Descs
    <3>4. t = s => q = p
      BY <3>2
    <3> QED BY <3>3, <3>4, <1>8, <1>9
  <2>3. \A q \in Callers, g \in Fds : \A t \in Slots : fds'[q][g] = t => table'[t].inode # None
    BY <2>2, <1>3, NoneFacts DEF DescInv
  <2>4. \A q, u \in Callers, f, g \in Fds : \A t \in Slots :
          table'[t].inode \in Ids /\ fds'[q][f] = t /\ fds'[u][g] = t => q = u /\ f = g
    BY <2>2, <1>3, NoneFacts DEF DescInv
  <2>5. \A f \in Fds, t \in Slots : fds'[Boot][f] = t => table'[t].inode \in Ids
    BY <2>2, <1>0, <1>3 DEF DescInv
  <2> QED BY <2>1, <2>3, <2>4, <2>5 DEF DescInv
<1>17. PosInv(table, fds)'
  <2>1. ASSUME NEW t \in Slots, table'[t].inode = Page
        PROVE  /\ Cardinality(Descs(fds', t)) <= table'[t].pos
               /\ lost'.fds = 0 => Cardinality(Descs(fds', t)) = table'[t].pos
    <3>1. CASE t = s
      BY <3>1, <1>7, <1>8, <1>9, <1>11, <1>13
    <3>2. CASE t # s
      <4>1. lost'.fds = 0 => lost.fds = 0
        BY <1>7, <1>11
      <4> QED BY <2>1, <3>2, <4>1, <1>3, <1>9, <1>12 DEF PosInv
    <3> QED BY <3>1, <3>2
  <2> QED BY <2>1, <1>14 DEF PosInv
<1>18. LostInv(table, fds)'
  <2>1. \A t : InCreation(t)' <=> InCreation(t)
    BY <1>4 DEF InCreation
  <2>2. ASSUME NEW t \in Slots PROVE t \in Orphans(table, fds)' <=> t \in Orphans(table, fds)
    <3>1. t \in Orphans(table, fds)' <=>
            table'[t].inode \in Ids /\ Descs(fds', t) = {} /\ ~InCreation(t)
      BY <2>1, <1>14 DEF Orphans
    <3>2. t \in Orphans(table, fds) <=>
            table[t].inode \in Ids /\ Descs(fds, t) = {} /\ ~InCreation(t)
      BY DEF Orphans
    <3> QED BY <3>1, <3>2, <1>5, <1>8, <1>9, <1>12, NoneFacts
  <2>3. Orphans(table, fds)' = Orphans(table, fds)
    BY <2>2 DEF Orphans
  <2> QED BY <2>3, <1>3, <1>4, <1>11 DEF LostInv
<1>19. InodeInv(table, inodes, open)' /\ CallInv(table, inodes, open, fds)'
  <2>1. \A q \in Callers : call[q].op = "none"
    BY <1>4, StartsFacts
  <2>2. \A t \in Slots : table[t].inode \in Ids \/ table'[t].inode \in Ids
                           => table'[t].inode = table[t].inode
    BY <1>5, <1>8, <1>9, NoneFacts
  <2>3. InodeInv(table', inodes, open)
    <3>1. InodeInv(table, inodes, open)
      BY <1>1 DEF FilesInv
    <3>2. \A i \in Ids : SlotsOf(table', i) = SlotsOf(table, i)
      BY <2>2 DEF SlotsOf
    <3>3. Range(open) \subseteq Ids
      BY <1>1 DEF FilesInv, FileTypes, Range
    <3>4. \A t \in Slots : table'[t].inode \in Ids =>
            table'[t].inode \in Range(open) \/ InCreation(t)
      BY <2>2, <3>1 DEF InodeInv
    <3> QED BY <3>1, <3>2, <3>3, <3>4 DEF InodeInv
  <2>4. /\ \A t : InCreation(t)' <=> InCreation(t)
        /\ \A i : Releasing(i)' <=> Releasing(i)
        /\ \A i : Fetching(i)' <=> Fetching(i)
    BY <1>4 DEF InCreation, Releasing, Fetching
  <2>5. InodeInv(table, inodes, open)'
    BY <2>3, <2>4, <1>4 DEF InodeInv, SlotsOf
  <2>6. CallInv(table, inodes, open, fds)'
    BY <2>1, <1>4 DEF CallInv
  <2> QED BY <2>5, <2>6
<1>20. FilesInv(table, inodes, open, fds)'
  BY <1>15, <1>16, <1>17, <1>18, <1>19 DEF FilesInv
<1>21. TypeInv' /\ OneCall' /\ DirInv'
  BY <1>1, <1>4, <1>11, CallsFrame DEF TypeInv
<1>22. DeadInv'
  <2>1. state[p]
    BY <1>4, StartsFacts
  <2> QED BY <2>1, <1>1, <1>4, <1>10 DEF DeadInv
<1> QED BY <1>20, <1>21, <1>22 DEF FileTableInv

-----------------------------------------------------------------------------
\* open

\* pcb_fd_install: the slot gets its descriptor, or is one nobody can close.
LEMMA InstallFacts ==
    ASSUME FileTableInv, NEW p \in Callers, state[p], state' = state,
           NEW s \in Slots, NEW allowed \in BOOLEAN, Install(p, s, allowed),
           Descs(fds, s) = {}, s \notin Orphans(table, fds),
           table' \in [Slots -> SlotRecords], table'[s].inode \in Ids, ~table'[s].pipe,
           \A t \in Slots \ {s} : table'[t] = table[t],
           \A t \in Slots \ {s} : ~InCreation(t), \A t \in Slots : ~InCreation(t)'
    PROVE  /\ fds' \in DescTables /\ lost' \in [slots : Nat, fds : Nat, boot : Nat]
           /\ DeadInv' /\ DescInv(table, fds)' /\ PosInv(table, fds)'
           /\ LostInv(table, fds)'
<1>0. Boot \in Callers
  BY DEF Callers
<1>1. TypeInv /\ FilesInv(table, inodes, open, fds) /\ DeadInv
  BY DEF FileTableInv
<1>2. /\ fds \in DescTables /\ table \in [Slots -> SlotRecords]
      /\ lost \in [slots : Nat, fds : Nat, boot : Nat]
  BY <1>1 DEF FilesInv, FileTypes, TypeInv
<1>3. DescInv(table, fds) /\ PosInv(table, fds) /\ LostInv(table, fds)
  BY <1>1 DEF FilesInv
<1>4. \A t : Descs(fds, t)' = Descs(fds', t)
  BY DEF Descs
<1>5. \A q \in Callers, g \in Fds : fds[q][g] # s
  BY DescsEmpty
<1>6. \A t \in Slots : table'[t].inode = Page <=> table'[t].pipe /\ table'[t].inode # None
  BY <1>3, NoneFacts DEF DescInv
<1>7. /\ IsFiniteSet(Orphans(table, fds)) /\ Cardinality(Orphans(table, fds)) \in Nat
      /\ Cardinality(Orphans(table, fds)) = lost.slots + lost.boot
      /\ lost.slots \in Nat /\ lost.boot \in Nat
  <2>1. Orphans(table, fds) \in SUBSET Slots
    BY DEF Orphans
  <2> QED BY <2>1, <1>2, <1>3, SlotSetFinite DEF LostInv
<1>8. ASSUME NEW t \in Slots
      PROVE  /\ t \in Orphans(table, fds)' <=> table'[t].inode \in Ids /\ Descs(fds', t) = {}
             /\ t # s => (t \in Orphans(table, fds) <=>
                            table'[t].inode \in Ids /\ Descs(fds, t) = {})
  <2>1. t \in Orphans(table, fds)' <=> table'[t].inode \in Ids /\ Descs(fds', t) = {}
    BY <1>4 DEF Orphans
  <2>2. ASSUME t # s
        PROVE  t \in Orphans(table, fds) <=> table'[t].inode \in Ids /\ Descs(fds, t) = {}
    BY <2>2 DEF Orphans
  <2> QED BY <2>1, <2>2
<1>9. CASE allowed /\ FreeFds(p) # {}
  <2> DEFINE f == Least(FreeFds(p))
  <2>1. f \in Fds /\ fds[p][f] = None
    <3>1. FreeFds(p) \in SUBSET Nat
      BY ConstFacts DEF FreeFds
    <3>2. f \in FreeFds(p)
      BY <1>9, <3>1, LeastFacts
    <3> QED BY <3>2 DEF FreeFds
  <2>2. fds' = [fds EXCEPT ![p][f] = s] /\ lost' = lost
    BY <1>9 DEF Install
  <2> HIDE DEF f
  <2>3. /\ fds' \in DescTables
        /\ \A q \in Callers, g \in Fds :
             fds'[q][g] = IF q = p /\ g = f THEN s ELSE fds[q][g]
    BY <2>1, <2>2, <1>2 DEF DescTables
  <2>4. /\ \A t \in Slots \ {s} : Descs(fds', t) = Descs(fds, t)
        /\ Descs(fds', s) # {}
    <3>1. /\ \A t \in Slots \ {s} : Descs(fds', t) = Descs(fds, t)
          /\ Descs(fds', s) = Descs(fds, s) \cup {<<p, f>>}
      <4>1. ASSUME NEW t \in Slots \ {s} PROVE Descs(fds', t) = Descs(fds, t)
        BY <2>1, <2>3, NoneFacts DEF Descs
      <4>2. Descs(fds', s) = Descs(fds, s) \cup {<<p, f>>}
        BY <2>1, <2>3, <1>5 DEF Descs
      <4> QED BY <4>1, <4>2
    <3> QED BY <3>1
  <2>5. DescInv(table, fds)'
    <3>1. ASSUME NEW q \in Callers, NEW g \in Fds, NEW t \in Slots, fds'[q][g] = t
          PROVE  /\ t = s => q = p /\ g = f
                 /\ t # s => fds[q][g] = t /\ table'[t] = table[t]
      BY <3>1, <2>3, <1>5
    <3>2. \A q \in Callers, g \in Fds : \A t \in Slots :
            fds'[q][g] = t => table'[t].inode # None
      BY <3>1, <1>3, NoneFacts DEF DescInv
    <3>3. \A q, u \in Callers, g, h \in Fds : \A t \in Slots :
            table'[t].inode \in Ids /\ fds'[q][g] = t /\ fds'[u][h] = t => q = u /\ g = h
      BY <3>1, <1>3 DEF DescInv
    <3>4. \A g \in Fds, t \in Slots : fds'[Boot][g] = t => table'[t].inode \in Ids
      BY <3>1, <1>0, <1>3 DEF DescInv
    <3> QED BY <3>2, <3>3, <3>4, <1>6 DEF DescInv
  <2>6. PosInv(table, fds)'
    <3>1. ASSUME NEW t \in Slots, table'[t].inode = Page
          PROVE  /\ Cardinality(Descs(fds', t)) <= table'[t].pos
                 /\ lost'.fds = 0 => Cardinality(Descs(fds', t)) = table'[t].pos
      BY <3>1, <2>2, <2>4, <1>3, NoneFacts DEF PosInv
    <3> QED BY <3>1, <1>4 DEF PosInv
  <2>7. LostInv(table, fds)'
    <3>1. ASSUME NEW t \in Slots PROVE t \in Orphans(table, fds)' <=> t \in Orphans(table, fds)
      BY <2>4, <1>8
    <3>2. Orphans(table, fds)' = Orphans(table, fds)
      BY <3>1 DEF Orphans
    <3> QED BY <3>2, <2>2, <1>3 DEF LostInv
  <2>8. DeadInv'
    BY <2>3, <1>1 DEF DeadInv
  <2> QED BY <2>2, <2>3, <2>5, <2>6, <2>7, <2>8, <1>2
<1>10. CASE ~(allowed /\ FreeFds(p) # {})
  <2>1. fds' = fds /\ lost' = [lost EXCEPT !.slots = lost.slots + 1]
    BY <1>10 DEF Install
  <2>2. /\ lost' \in [slots : Nat, fds : Nat, boot : Nat]
        /\ lost'.slots = lost.slots + 1 /\ lost'.boot = lost.boot /\ lost'.fds = lost.fds
    BY <2>1, <1>2
  <2>3. DescInv(table, fds)'
    BY <2>1, <1>3, <1>5, <1>6 DEF DescInv
  <2>4. PosInv(table, fds)'
    <3>1. ASSUME NEW t \in Slots, table'[t].inode = Page
          PROVE  /\ Cardinality(Descs(fds', t)) <= table'[t].pos
                 /\ lost'.fds = 0 => Cardinality(Descs(fds', t)) = table'[t].pos
      BY <3>1, <2>1, <2>2, <1>3, NoneFacts DEF PosInv
    <3> QED BY <3>1, <1>4 DEF PosInv
  <2>5. LostInv(table, fds)'
    <3>1. ASSUME NEW t \in Slots
          PROVE  t \in Orphans(table, fds)' <=> t \in Orphans(table, fds) \/ t = s
      BY <2>1, <1>8
    <3>2. Orphans(table, fds)' = Orphans(table, fds) \cup {s}
      BY <3>1 DEF Orphans
    <3>3. Cardinality(Orphans(table, fds) \cup {s}) = Cardinality(Orphans(table, fds)) + 1
      BY <1>7, FS_AddElement
    <3>4. Cardinality(Orphans(table, fds))' = lost'.slots + lost'.boot
      BY <3>2, <3>3, <2>2, <1>7
    <3> QED BY <3>4, <2>2, <1>3 DEF LostInv
  <2>6. DeadInv'
    BY <2>1, <1>1 DEF DeadInv
  <2> QED BY <2>1, <2>2, <2>3, <2>4, <2>5, <2>6, <1>2
<1> QED BY <1>9, <1>10

\* When the step ends all calls, nothing is left to say about them.
LEMMA QuietNext ==
    ASSUME \A q \in Callers : call'[q].op = "none"
    PROVE  /\ \A s : ~InCreation(s)'
           /\ \A i : ~Releasing(i)' /\ ~Fetching(i)'
           /\ OneCall' /\ CallInv(table, inodes, open, fds)'
<1>1. \A s : ~InCreation(s)'
  BY DEF InCreation
<1>2. \A i : ~Releasing(i)' /\ ~Fetching(i)'
  BY DEF Releasing, Fetching
<1>3. OneCall' /\ CallInv(table, inodes, open, fds)'
  BY DEF OneCall, CallInv
<1> QED BY <1>1, <1>2, <1>3

\* inode_open's search finds an inode that is on the list, if there is one.
LEMMA ListedFacts ==
    ASSUME FileTableInv, NEW ino
    PROVE  /\ Listed(ino) # None => /\ Listed(ino) \in Range(open)
                                    /\ inodes[Listed(ino)].ino = ino
           /\ Listed(ino) = None => \A i \in Range(open) : inodes[i].ino # ino
<1>1. open \in Seq(Ids)
  BY DEF FileTableInv, FilesInv, FileTypes
<1>2. DOMAIN open \subseteq Nat /\ \A k \in DOMAIN open : open[k] \in Ids
  BY <1>1
<1> DEFINE K == {k \in DOMAIN open : inodes[open[k]].ino = ino}
<1>3. CASE K # {}
  <2>1. K \in SUBSET Nat
    BY <1>2
  <2>2. Least(K) \in K
    BY <2>1, <1>3, LeastFacts
  <2>3. Listed(ino) = open[Least(K)]
    BY <1>3 DEF Listed
  <2>4. open[Least(K)] \in Range(open) /\ inodes[open[Least(K)]].ino = ino
    BY <2>2 DEF Range
  <2>5. open[Least(K)] # None
    BY <2>2, <1>2, NoneFacts
  <2> QED BY <2>3, <2>4, <2>5
<1>4. CASE K = {}
  <2>1. Listed(ino) = None
    BY <1>4 DEF Listed
  <2>2. \A i \in Range(open) : inodes[i].ino # ino
    BY <1>4 DEF Range
  <2> QED BY <2>1, <2>2
<1> QED BY <1>3, <1>4

\* file_open fills its slot and sets write_deny.
LEMMA FillFacts ==
    ASSUME NEW ins \in [Ids -> InodeRecords], table \in [Slots -> SlotRecords],
           NEW p \in Callers, NEW s \in Slots, NEW i \in Ids, NEW w \in BOOLEAN,
           FillSlot(p, s, i, w, ins)
    PROVE  /\ inodes' \in [Ids -> InodeRecords]
           /\ inodes'[i].ino = ins[i].ino /\ inodes'[i].cnt = ins[i].cnt
           /\ \A j \in Ids \ {i} : inodes'[j] = ins[j]
           /\ table' \in [Slots -> SlotRecords]
           /\ table'[s].inode = i /\ ~table'[s].pipe
           /\ \A t \in Slots \ {s} : table'[t] = table[t]
           /\ \E allowed \in BOOLEAN : Install(p, s, allowed)
<1>1. ins[i] \in InodeRecords /\ ins[i].deny \in BOOLEAN
  BY DEF InodeRecords
<1> DEFINE b == ins[i].deny \/ w
           r == [ins[i] EXCEPT !.deny = b]
           o == Opened(i, w)
<1>2. b \in BOOLEAN
  OBVIOUS
<1>3. r \in InodeRecords /\ r.ino = ins[i].ino /\ r.cnt = ins[i].cnt
  <2> HIDE DEF b
  <2> QED BY <1>1, <1>2, FlagFacts
<1>4. inodes' = [ins EXCEPT ![i] = r] /\ table' = [table EXCEPT ![s] = o]
  BY DEF FillSlot
<1>5. o \in SlotRecords /\ o.inode = i /\ ~o.pipe
  <2>1. o \in SlotRecords
    BY DEF Opened, SlotRecords
  <2> QED BY <2>1 DEF Opened
<1> HIDE DEF r, o
<1>6. \E allowed \in BOOLEAN : Install(p, s, allowed)
  <2>1. Install(p, s, ~(w /\ ins[i].deny))
    BY DEF FillSlot
  <2>2. (~(w /\ ins[i].deny)) \in BOOLEAN
    OBVIOUS
  <2> QED BY <2>1, <2>2, Zenon
<1>7. /\ inodes' \in [Ids -> InodeRecords]
      /\ inodes'[i] = r /\ \A j \in Ids \ {i} : inodes'[j] = ins[j]
  BY <1>3, <1>4
<1>8. /\ table' \in [Slots -> SlotRecords]
      /\ table'[s] = o /\ \A t \in Slots \ {s} : table'[t] = table[t]
  BY <1>4, <1>5
<1> QED BY <1>3, <1>5, <1>6, <1>7, <1>8

LEMMA CountFacts ==
    ASSUME NEW ins \in [Ids -> InodeRecords], NEW i \in Ids, NEW n \in Int
    PROVE  /\ [ins EXCEPT ![i].cnt = n] \in [Ids -> InodeRecords]
           /\ [ins EXCEPT ![i].cnt = n][i].ino = ins[i].ino
           /\ [ins EXCEPT ![i].cnt = n][i].cnt = n
           /\ \A j \in Ids \ {i} : [ins EXCEPT ![i].cnt = n][j] = ins[j]
<1> DEFINE r == [ins[i] EXCEPT !.cnt = n]
<1>1. r \in InodeRecords /\ r.ino = ins[i].ino /\ r.cnt = n
  BY DEF InodeRecords
<1> HIDE DEF r
<1>2. /\ [ins EXCEPT ![i] = r] \in [Ids -> InodeRecords]
      /\ [ins EXCEPT ![i] = r][i] = r
      /\ \A j \in Ids \ {i} : [ins EXCEPT ![i] = r][j] = ins[j]
  BY <1>1
<1> QED BY <1>1, <1>2 DEF r

LEMMA OpenCachedInv ==
    ASSUME ~Overlap, FileTableInv, NEW p \in Callers, NEW e \in dir, NEW w \in BOOLEAN,
           OpenCached(p, e, w)
    PROVE  FileTableInv'
<1>1. TypeInv /\ FilesInv(table, inodes, open, fds) /\ DeadInv /\ OneCall /\ DirInv
  BY DEF FileTableInv
<1>2. /\ table \in [Slots -> SlotRecords] /\ inodes \in [Ids -> InodeRecords]
      /\ open \in Seq(Ids) /\ InodeInv(table, inodes, open)
  BY <1>1 DEF FilesInv, FileTypes
<1> DEFINE i == Listed(e[2])
           s == Least(FreeSlots)
           ins == [inodes EXCEPT ![i].cnt = inodes[i].cnt + 1]
<1>3. /\ Starts(p) /\ FreeSlots # {} /\ i # None
      /\ FillSlot(p, s, i, w, ins)
      /\ UNCHANGED <<open, dir, imap, call, state, halt>>
  BY DEF OpenCached
<1>4. /\ s \in Slots /\ table[s].inode = None /\ Descs(fds, s) = {}
  BY <1>3, FreeSlotFacts
<1>5. i \in Range(open) /\ i \in Ids
  <2>1. i \in Range(open)
    BY <1>3, ListedFacts
  <2>2. Range(open) \subseteq Ids
    BY <1>2 DEF Range
  <2> QED BY <2>1, <2>2
<1>6. /\ \A q \in Callers : call[q].op = "none"
      /\ \A t : ~InCreation(t)
      /\ \A j : ~Releasing(j) /\ ~Fetching(j)
      /\ state[p]
  BY <1>3, StartsFacts
<1> HIDE DEF i, s
<1>7. /\ ins \in [Ids -> InodeRecords]
      /\ ins[i].ino = inodes[i].ino /\ ins[i].cnt = inodes[i].cnt + 1
      /\ \A j \in Ids \ {i} : ins[j] = inodes[j]
  <2>1. inodes[i].cnt + 1 \in Int
    BY <1>2, <1>5 DEF InodeRecords
  <2>2. PICK n \in Int : n = inodes[i].cnt + 1
    BY <2>1
  <2>3. ins = [inodes EXCEPT ![i].cnt = n]
    BY <2>2
  <2>4. /\ [inodes EXCEPT ![i].cnt = n] \in [Ids -> InodeRecords]
        /\ [inodes EXCEPT ![i].cnt = n][i].ino = inodes[i].ino
        /\ [inodes EXCEPT ![i].cnt = n][i].cnt = n
        /\ \A j \in Ids \ {i} : [inodes EXCEPT ![i].cnt = n][j] = inodes[j]
    BY <1>2, <1>5, CountFacts, Zenon
  <2> HIDE DEF ins
  <2> QED BY <2>2, <2>3, <2>4
<1> HIDE DEF ins
<1>8. /\ inodes' \in [Ids -> InodeRecords]
      /\ inodes'[i].ino = ins[i].ino /\ inodes'[i].cnt = ins[i].cnt
      /\ \A j \in Ids \ {i} : inodes'[j] = ins[j]
      /\ table' \in [Slots -> SlotRecords]
      /\ table'[s].inode = i /\ ~table'[s].pipe
      /\ \A t \in Slots \ {s} : table'[t] = table[t]
      /\ \E allowed \in BOOLEAN : Install(p, s, allowed)
  BY <1>2, <1>3, <1>4, <1>5, <1>7, FillFacts
<1>9. /\ \A t : ~InCreation(t)'
      /\ \A j : ~Releasing(j)' /\ ~Fetching(j)'
      /\ OneCall' /\ CallInv(table, inodes, open, fds)'
  <2>1. \A q \in Callers : call'[q].op = "none"
    BY <1>3, <1>6
  <2> QED BY <2>1, QuietNext
<1>10. /\ fds' \in DescTables /\ lost' \in [slots : Nat, fds : Nat, boot : Nat]
       /\ DeadInv' /\ DescInv(table, fds)' /\ PosInv(table, fds)' /\ LostInv(table, fds)'
  <2>1. s \notin Orphans(table, fds)
    BY <1>4, NoneFacts DEF Orphans
  <2>2. PICK allowed \in BOOLEAN : Install(p, s, allowed)
    BY <1>8
  <2> QED BY <2>1, <2>2, <1>3, <1>4, <1>5, <1>6, <1>8, <1>9, InstallFacts
<1>11. InodeInv(table, inodes, open)'
  <2>1. /\ SlotsOf(table', i) = SlotsOf(table, i) \cup {s} /\ s \notin SlotsOf(table, i)
        /\ \A j \in Ids \ {i} : SlotsOf(table', j) = SlotsOf(table, j)
    BY <1>4, <1>5, <1>8, NoneFacts DEF SlotsOf
  <2>2. Cardinality(SlotsOf(table, i) \cup {s}) = Cardinality(SlotsOf(table, i)) + 1
    <3>1. SlotsOf(table, i) \in SUBSET Slots
      BY DEF SlotsOf
    <3> QED BY <2>1, <3>1, SlotSetFinite, FS_AddElement
  <2>3. \A j \in Ids : inodes'[j].ino = inodes[j].ino
    BY <1>7, <1>8
  <2>4. Range(open) \subseteq Ids
    BY <1>2 DEF Range
  <2>5. ASSUME NEW j \in Range(open)
        PROVE  /\ inodes'[j].ino # None
               /\ SlotsOf(table', j) # {}
               /\ inodes'[j].cnt = Cardinality(SlotsOf(table', j))
               /\ \E d \in dir : d[2] = inodes'[j].ino
    <3>1. /\ inodes[j].ino # None
          /\ SlotsOf(table, j) # {}
          /\ inodes[j].cnt = Cardinality(SlotsOf(table, j))
          /\ \E d \in dir : d[2] = inodes[j].ino
      BY <1>2, <1>6 DEF InodeInv
    <3>2. CASE j = i
      <4>1. inodes'[i].cnt = Cardinality(SlotsOf(table, i)) + 1
        BY <3>1, <3>2, <1>7, <1>8
      <4>2. inodes'[i].cnt = Cardinality(SlotsOf(table', i))
        BY <4>1, <2>1, <2>2
      <4> QED BY <3>1, <3>2, <4>2, <2>1, <2>3, <2>4
    <3>3. CASE j # i
      <4>1. inodes'[j] = inodes[j] /\ SlotsOf(table', j) = SlotsOf(table, j)
        BY <3>3, <2>1, <2>4, <1>7, <1>8
      <4> QED BY <3>1, <4>1
    <3> QED BY <3>2, <3>3
  <2>6. \A j, k \in Range(open) : inodes'[j].ino = inodes'[k].ino => j = k
    BY <2>3, <2>4, <1>2 DEF InodeInv
  <2>7. \A j \in Ids \ Range(open) : inodes'[j].ino = None /\ inodes'[j].cnt = 0
    BY <1>2, <1>5, <1>6, <1>7, <1>8 DEF InodeInv
  <2>8. \A t \in Slots : table'[t].inode \in Ids => table'[t].inode \in Range(open)
    BY <1>2, <1>5, <1>6, <1>8 DEF InodeInv
  <2>9. IsInjective(open)
    BY <1>2 DEF InodeInv
  <2>10. \A j : SlotsOf(table, j)' = SlotsOf(table', j)
    BY DEF SlotsOf
  <2> QED BY <2>5, <2>6, <2>7, <2>8, <2>9, <2>10, <1>3, <1>9 DEF InodeInv
<1>12. FilesInv(table, inodes, open, fds)'
  <2>1. FileTypes(table, inodes, open, fds)'
    BY <1>2, <1>3, <1>8, <1>10 DEF FileTypes
  <2> QED BY <2>1, <1>9, <1>10, <1>11 DEF FilesInv
<1>13. TypeInv' /\ DirInv'
  BY <1>1, <1>3, <1>10, CallsFrame DEF TypeInv
<1> QED BY <1>9, <1>10, <1>12, <1>13 DEF FileTableInv

\* A process in a call is alone in one.
LEMMA OnlyFacts ==
    ASSUME OneCall, NEW p \in Callers, call[p].op # "none"
    PROVE  /\ \A q \in Callers \ {p} : call[q].op = "none"
           /\ \A t : InCreation(t) <=> call[p].op \in {"create", "created"} /\ call[p].slot = t
           /\ \A i : Releasing(i) <=> call[p].op = "release" /\ call[p].inode = i
           /\ \A i : Fetching(i) <=> /\ call[p].op \in {"open", "create", "created"}
                                     /\ call[p].inode = i
<1>1. ASSUME NEW q \in Callers \ {p} PROVE call[q].op = "none"
  BY DEF OneCall
<1>2. ASSUME NEW q \in Callers, call[q].op # "none" PROVE q = p
  BY <1>1, <1>2
<1>3. ASSUME NEW t
      PROVE  InCreation(t) <=> call[p].op \in {"create", "created"} /\ call[p].slot = t
  BY <1>2 DEF InCreation
<1>4. ASSUME NEW i
      PROVE  Releasing(i) <=> call[p].op = "release" /\ call[p].inode = i
  BY <1>2 DEF Releasing
<1>5. ASSUME NEW i
      PROVE  Fetching(i) <=> call[p].op \in {"open", "create", "created"} /\ call[p].inode = i
  BY <1>2 DEF Fetching
<1> QED BY <1>1, <1>3, <1>4, <1>5

LEMMA OnlyNext ==
    ASSUME NEW p \in Callers, \A q \in Callers \ {p} : call'[q].op = "none"
    PROVE  /\ OneCall'
           /\ \A t : InCreation(t)' <=> call'[p].op \in {"create", "created"} /\ call'[p].slot = t
           /\ \A i : Releasing(i)' <=> call'[p].op = "release" /\ call'[p].inode = i
           /\ \A i : Fetching(i)' <=> /\ call'[p].op \in {"open", "create", "created"}
                                      /\ call'[p].inode = i
<1>1. ASSUME NEW q \in Callers, call'[q].op # "none" PROVE q = p
  BY <1>1
<1>2. OneCall'
  BY <1>1 DEF OneCall
<1>3. ASSUME NEW t
      PROVE  InCreation(t)' <=> call'[p].op \in {"create", "created"} /\ call'[p].slot = t
  BY <1>1 DEF InCreation
<1>4. ASSUME NEW i
      PROVE  Releasing(i)' <=> call'[p].op = "release" /\ call'[p].inode = i
  BY <1>1 DEF Releasing
<1>5. ASSUME NEW i
      PROVE  Fetching(i)' <=> call'[p].op \in {"open", "create", "created"} /\ call'[p].inode = i
  BY <1>1 DEF Fetching
<1> QED BY <1>2, <1>3, <1>4, <1>5

\* A step that touches no slot and no descriptor.
LEMMA SlotsFrame ==
    ASSUME UNCHANGED <<table, fds, lost, state>>, FilesInv(table, inodes, open, fds), DeadInv,
           \A t : InCreation(t)' <=> InCreation(t)
    PROVE  /\ DescInv(table, fds)' /\ PosInv(table, fds)' /\ LostInv(table, fds)' /\ DeadInv'
           /\ \A j : SlotsOf(table, j)' = SlotsOf(table, j)
           /\ \A t : Descs(fds, t)' = Descs(fds, t)
           /\ table' \in [Slots -> SlotRecords] /\ fds' \in DescTables
<1>1. DescInv(table, fds) /\ PosInv(table, fds) /\ LostInv(table, fds)
  BY DEF FilesInv
<1>2. \A t : Descs(fds, t)' = Descs(fds, t)
  BY DEF Descs
<1>3. Orphans(table, fds)' = Orphans(table, fds)
  BY <1>2 DEF Orphans
<1>4. DescInv(table, fds)' /\ PosInv(table, fds)'
  BY <1>1, <1>2 DEF DescInv, PosInv
<1>5. LostInv(table, fds)'
  BY <1>1, <1>3 DEF LostInv
<1>6. DeadInv' /\ \A j : SlotsOf(table, j)' = SlotsOf(table, j)
  BY DEF DeadInv, SlotsOf
<1>7. table' \in [Slots -> SlotRecords] /\ fds' \in DescTables
  BY DEF FilesInv, FileTypes
<1> QED BY <1>2, <1>4, <1>5, <1>6, <1>7

\* The struct inode that inode_open or file_create gets.
LEMMA FreeIdFacts ==
    ASSUME FileTableInv, FreeIds # {}
    PROVE  /\ Least(FreeIds) \in Ids \ Range(open)
           /\ inodes[Least(FreeIds)].ino = None
<1>1. FreeIds \in SUBSET Nat
  BY ConstFacts DEF FreeIds
<1>2. Least(FreeIds) \in FreeIds
  BY <1>1, LeastFacts
<1>3. InodeInv(table, inodes, open)
  BY DEF FileTableInv, FilesInv
<1> QED BY <1>2, <1>3 DEF FreeIds, InodeInv

\* The bounds of the call records.
LEMMA CallFacts ==
    ASSUME call \in [Callers -> CallRecords], NEW p \in Callers, NEW c \in CallRecords,
           call' = [call EXCEPT ![p] = c]
    PROVE  /\ call' \in [Callers -> CallRecords]
           /\ call'[p] = c
           /\ \A q \in Callers \ {p} : call'[q] = call[q]
  OBVIOUS

LEMMA InodeNext ==
    ASSUME IsInjective(open'),
           \A i \in Range(open') : inodes'[i].ino # None,
           \A i \in Range(open') : Releasing(i)' =>
              inodes'[i].cnt = 1 /\ SlotsOf(table', i) = {},
           \A i \in Range(open') : ~Releasing(i)' =>
              /\ SlotsOf(table', i) # {}
              /\ inodes'[i].cnt = Cardinality(SlotsOf(table', i))
              /\ \E e \in dir' : e[2] = inodes'[i].ino,
           \A i, j \in Range(open') : inodes'[i].ino = inodes'[j].ino => i = j,
           \A i \in Ids \ Range(open') :
              (inodes'[i].ino = None /\ inodes'[i].cnt = 0) \/ Fetching(i)',
           \A s \in Slots : table'[s].inode \in Ids =>
              table'[s].inode \in Range(open') \/ InCreation(s)'
    PROVE  InodeInv(table, inodes, open)'
<1>1. \A j : SlotsOf(table, j)' = SlotsOf(table', j)
  BY DEF SlotsOf
<1> QED BY <1>1 DEF InodeInv

\* What InodeInv says of the list when nothing is being released.
LEMMA InodeNow ==
    ASSUME FilesInv(table, inodes, open, fds)
    PROVE  /\ IsInjective(open) /\ Range(open) \subseteq Ids
           /\ \A i \in Range(open) : inodes[i].ino # None
           /\ \A i \in Range(open) : Releasing(i) =>
                inodes[i].cnt = 1 /\ SlotsOf(table, i) = {}
           /\ \A i \in Range(open) : ~Releasing(i) =>
                /\ SlotsOf(table, i) # {}
                /\ inodes[i].cnt = Cardinality(SlotsOf(table, i))
                /\ \E e \in dir : e[2] = inodes[i].ino
           /\ \A i, j \in Range(open) : inodes[i].ino = inodes[j].ino => i = j
           /\ \A i \in Ids \ Range(open) :
                (inodes[i].ino = None /\ inodes[i].cnt = 0) \/ Fetching(i)
           /\ \A s \in Slots : table[s].inode \in Ids =>
                table[s].inode \in Range(open) \/ InCreation(s)
<1>1. Range(open) \subseteq Ids
  BY DEF FilesInv, FileTypes, Range
<1> QED BY <1>1 DEF FilesInv, InodeInv

\* A step that leaves the listed inodes alone.
LEMMA InodeKept ==
    ASSUME FilesInv(table, inodes, open, fds), open' = open,
           \A j \in Range(open) : inodes'[j] = inodes[j],
           \A j \in Range(open) : SlotsOf(table', j) = SlotsOf(table, j),
           \A j \in Range(open) : ~Releasing(j) /\ ~Releasing(j)',
           \A j \in Range(open) : \A e \in dir :
              e[2] = inodes[j].ino => e \in dir',
           \A j \in Ids \ Range(open) :
              (inodes'[j].ino = None /\ inodes'[j].cnt = 0) \/ Fetching(j)',
           \A s \in Slots : table'[s].inode \in Ids =>
              table'[s].inode \in Range(open) \/ InCreation(s)'
    PROVE  InodeInv(table, inodes, open)'
<1>1. ASSUME NEW j \in Range(open)
      PROVE  /\ inodes'[j].ino # None /\ ~Releasing(j)'
             /\ SlotsOf(table', j) # {}
             /\ inodes'[j].cnt = Cardinality(SlotsOf(table', j))
             /\ \E e \in dir' : e[2] = inodes'[j].ino
  <2>1. /\ inodes[j].ino # None
        /\ SlotsOf(table, j) # {}
        /\ inodes[j].cnt = Cardinality(SlotsOf(table, j))
        /\ \E e \in dir : e[2] = inodes[j].ino
    BY InodeNow
  <2>2. PICK e \in dir : e[2] = inodes[j].ino
    BY <2>1
  <2>3. e \in dir' /\ inodes'[j] = inodes[j]
    BY <2>2
  <2> QED BY <2>1, <2>2, <2>3
<1>2. \A j, k \in Range(open) : inodes'[j].ino = inodes'[k].ino => j = k
  BY InodeNow
<1>3. IsInjective(open)
  BY InodeNow
<1> QED BY <1>1, <1>2, <1>3, InodeNext

LEMMA OpenReadInv ==
    ASSUME ~Overlap, FileTableInv, NEW p \in Callers, NEW e \in dir, NEW w \in BOOLEAN,
           OpenRead(p, e, w)
    PROVE  FileTableInv'
<1>1. TypeInv /\ FilesInv(table, inodes, open, fds) /\ DeadInv /\ OneCall /\ DirInv
  BY DEF FileTableInv
<1>2. /\ table \in [Slots -> SlotRecords] /\ inodes \in [Ids -> InodeRecords]
      /\ open \in Seq(Ids) /\ InodeInv(table, inodes, open)
      /\ call \in [Callers -> CallRecords]
  BY <1>1 DEF FilesInv, FileTypes, TypeInv
<1>3. PICK i, s, c : /\ i = Least(FreeIds) /\ s = Least(FreeSlots)
                     /\ c = [op |-> "open", name |-> e[1], ino |-> e[2], slot |-> s,
                             inode |-> i, write |-> w]
  OBVIOUS
<1>4. /\ Starts(p) /\ FreeSlots # {} /\ FreeIds # {} /\ Listed(e[2]) = None
      /\ inodes' = [inodes EXCEPT ![i].ino = e[2]]
      /\ call' = [call EXCEPT ![p] = c]
      /\ UNCHANGED <<table, fds, open, dir, imap, state, lost, halt>>
  BY <1>3 DEF OpenRead
<1>5. /\ s \in Slots /\ table[s].inode = None /\ Descs(fds, s) = {}
      /\ i \in Ids \ Range(open) /\ inodes[i].ino = None
  BY <1>3, <1>4, FreeSlotFacts, FreeIdFacts
<1>6. /\ \A q \in Callers : call[q].op = "none"
      /\ \A t : ~InCreation(t)
      /\ \A j : ~Releasing(j) /\ ~Fetching(j)
  BY <1>4, StartsFacts
<1>7. e[1] \in Names /\ e[2] \in Inos /\ e[2] \in imap /\ e[2] # None
  BY <1>1, NoneFacts DEF TypeInv, DirInv
<1>8. /\ c \in CallRecords /\ c.op = "open" /\ c.ino = e[2] /\ c.slot = s /\ c.inode = i
  <2>1. c \in CallRecords
    BY <1>3, <1>5, <1>7 DEF CallRecords
  <2> QED BY <2>1, <1>3
<1>9. /\ call' \in [Callers -> CallRecords] /\ call'[p] = c
      /\ \A q \in Callers \ {p} : call'[q].op = "none"
  BY <1>2, <1>4, <1>6, <1>8, CallFacts
<1>10. /\ OneCall'
       /\ \A t : InCreation(t)' <=> FALSE
       /\ \A j : Releasing(j)' <=> FALSE
       /\ \A j : Fetching(j)' <=> j = i
  <2>1. /\ OneCall'
        /\ \A t : InCreation(t)' <=> call'[p].op \in {"create", "created"} /\ call'[p].slot = t
        /\ \A j : Releasing(j)' <=> call'[p].op = "release" /\ call'[p].inode = j
        /\ \A j : Fetching(j)' <=> /\ call'[p].op \in {"open", "create", "created"}
                                   /\ call'[p].inode = j
    BY <1>9, OnlyNext
  <2> QED BY <2>1, <1>8, <1>9
<1>11. /\ DescInv(table, fds)' /\ PosInv(table, fds)' /\ LostInv(table, fds)' /\ DeadInv'
       /\ \A j : SlotsOf(table, j)' = SlotsOf(table, j)
       /\ \A t : Descs(fds, t)' = Descs(fds, t)
       /\ table' \in [Slots -> SlotRecords] /\ fds' \in DescTables
  BY <1>1, <1>4, <1>6, <1>10, SlotsFrame
<1>12. /\ inodes' \in [Ids -> InodeRecords] /\ inodes'[i].ino = e[2]
       /\ \A j \in Ids \ {i} : inodes'[j] = inodes[j]
  <2> DEFINE r == [inodes[i] EXCEPT !.ino = e[2]]
  <2>1. r \in InodeRecords /\ r.ino = e[2]
    BY <1>2, <1>5, <1>7 DEF InodeRecords
  <2>2. inodes' = [inodes EXCEPT ![i] = r]
    BY <1>4
  <2> HIDE DEF r
  <2> QED BY <2>1, <2>2, <1>2, <1>5
<1>13. Range(open) \subseteq Ids
  BY <1>2 DEF Range
<1>14. InodeInv(table, inodes, open)'
  <2>1. \A j \in Range(open) : inodes'[j] = inodes[j]
    BY <1>5, <1>12, <1>13
  <2>2. \A j \in Ids \ Range(open) : (inodes'[j].ino = None /\ inodes'[j].cnt = 0) \/ j = i
    BY <1>2, <1>6, <1>12 DEF InodeInv
  <2>3. \A t \in Slots : table'[t].inode \in Ids => table'[t].inode \in Range(open)
    BY <1>2, <1>4, <1>6 DEF InodeInv
  <2>4. \A j \in Ids \ Range(open) :
          (inodes'[j].ino = None /\ inodes'[j].cnt = 0) \/ Fetching(j)'
    BY <2>2, <1>10
  <2>5. \A j \in Range(open) : SlotsOf(table', j) = SlotsOf(table, j)
    BY <1>4
  <2> QED BY <2>1, <2>3, <2>4, <2>5, <1>1, <1>4, <1>6, <1>10, InodeKept
<1>15. CallInv(table, inodes, open, fds)'
  <2>1. \A j \in Range(open) : inodes'[j].ino # e[2]
    BY <1>4, <1>5, <1>12, <1>13, ListedFacts
  <2>2. Descs(fds, s)' = {}
    BY <1>5, <1>11
  <2>3. call'[p].op = "open" /\ call'[p].ino = e[2] /\ call'[p].slot = s /\ call'[p].inode = i
    BY <1>8, <1>9
  <2> SUFFICES ASSUME NEW q \in Callers, call'[q].op # "none"
               PROVE  /\ call'[q].op = "open"
                      /\ call'[q].slot \in Slots /\ call'[q].inode \in Ids \ Range(open')
                      /\ call'[q].ino \in imap' /\ inodes'[call'[q].inode].ino = call'[q].ino
                      /\ Descs(fds', call'[q].slot) = {}
                      /\ \A j \in Range(open') : inodes'[j].ino # call'[q].ino
                      /\ table'[call'[q].slot].inode = None
                      /\ \E d \in dir' : d[2] = call'[q].ino
    BY DEF CallInv, Descs
  <2>4. q = p
    BY <1>9
  <2>5. Descs(fds', s) = {}
    BY <2>2 DEF Descs
  <2> QED BY <2>1, <2>3, <2>4, <2>5, <1>4, <1>5, <1>7, <1>12
<1>16. FilesInv(table, inodes, open, fds)'
  BY <1>2, <1>4, <1>11, <1>12, <1>14, <1>15 DEF FilesInv, FileTypes
<1>17. TypeInv'
  BY <1>1, <1>4, <1>9 DEF TypeInv
<1>18. DirInv'
  <2>1. \A n \in imap : \E d \in dir : d[2] = n
    BY <1>1, <1>6 DEF DirInv
  <2> QED BY <2>1, <1>1, <1>4 DEF DirInv
<1> QED BY <1>10, <1>11, <1>16, <1>17, <1>18 DEF FileTableInv

\* The end of file_open or file_create: the inode is pushed, with one slot.
LEMMA InodePushed ==
    ASSUME FileTableInv, NEW p \in Callers, call[p].op \in {"open", "created"},
           open' = <<call[p].inode>> \o open, dir' = dir,
           inodes'[call[p].inode].ino = call[p].ino, inodes'[call[p].inode].cnt = 1,
           \A j \in Ids \ {call[p].inode} : inodes'[j] = inodes[j],
           table'[call[p].slot].inode = call[p].inode,
           \A t \in Slots \ {call[p].slot} : table'[t] = table[t],
           \A q \in Callers : call'[q].op = "none"
    PROVE  InodeInv(table, inodes, open)' /\ open' \in Seq(Ids)
<1>0. PICK i, s : i = call[p].inode /\ s = call[p].slot
  OBVIOUS
<1>13. /\ open' = <<i>> \o open
       /\ inodes'[i].ino = call[p].ino /\ inodes'[i].cnt = 1
       /\ \A j \in Ids \ {i} : inodes'[j] = inodes[j]
       /\ table'[s].inode = i
       /\ \A t \in Slots \ {s} : table'[t] = table[t]
  BY <1>0
<1>1. FilesInv(table, inodes, open, fds) /\ OneCall /\ TypeInv
  BY DEF FileTableInv
<1>2. /\ s \in Slots /\ i \in Ids \ Range(open)
      /\ call[p].ino \in imap
      /\ \A j \in Range(open) : inodes[j].ino # call[p].ino
      /\ \E e \in dir : e[2] = call[p].ino
      /\ call[p].op = "created" => SlotsOf(table, i) = {s}
      /\ call[p].op = "open" => table[s].inode = None
  <2>1. CallInv(table, inodes, open, fds)
    BY <1>1 DEF FilesInv
  <2>2. CASE call[p].op = "open"
    BY <2>1, <2>2, <1>0 DEF CallInv
  <2>3. CASE call[p].op = "created"
    <3>1. <<call[p].name, call[p].ino>> \in dir
      BY <2>1, <2>3 DEF CallInv
    <3>2. \E e \in dir : e[2] = call[p].ino
      BY <3>1, <1>13
    <3> QED BY <2>1, <2>3, <3>2, <1>0 DEF CallInv
  <2> QED BY <2>2, <2>3
<1>3. call[p].ino # None
  BY <1>1, <1>2, NoneFacts DEF TypeInv
<1>4. /\ \A t \in Slots : InCreation(t) => t = s
      /\ \A j \in Ids \ {i} : ~Fetching(j)
      /\ \A j : ~Releasing(j)
  BY <1>0, <1>1, OnlyFacts
<1>5. /\ \A t : ~InCreation(t)'
      /\ \A j : ~Releasing(j)' /\ ~Fetching(j)'
  BY QuietNext
<1>6. /\ SlotsOf(table', i) = {s}
      /\ \A j \in Ids \ {i} : SlotsOf(table', j) = SlotsOf(table, j)
  <2>1. CASE call[p].op = "created"
    <3>1. table[s].inode = i
      BY <2>1, <1>2 DEF SlotsOf
    <3>2. \A t \in Slots : table'[t].inode = table[t].inode
      BY <3>1, <1>13
    <3>3. \A j : SlotsOf(table', j) = SlotsOf(table, j)
      BY <3>2 DEF SlotsOf
    <3> QED BY <2>1, <3>3, <1>2
  <2>2. CASE call[p].op = "open"
    <3>1. \A t \in Slots : ~InCreation(t)
      BY <2>2, <1>1, OnlyFacts
    <3>2. \A t \in Slots : table[t].inode # i
      BY <3>1, <1>1, <1>2, InodeNow
    <3>3. SlotsOf(table', i) = {s}
      <4>1. ASSUME NEW t \in Slots PROVE table'[t].inode = i <=> t = s
        BY <3>2, <1>13
      <4>2. s \in Slots
        BY <1>2
      <4> QED BY <4>1, <4>2, Zenon DEF SlotsOf
    <3>4. ASSUME NEW j \in Ids \ {i} PROVE SlotsOf(table', j) = SlotsOf(table, j)
      BY <2>2, <1>2, <1>13, NoneFacts DEF SlotsOf
    <3> QED BY <3>3, <3>4
  <2> QED BY <2>1, <2>2
<1>7. /\ IsInjective(open) /\ open \in Seq(Ids) /\ Range(open) \subseteq Ids
  BY <1>1, InodeNow DEF FilesInv, FileTypes
<1>8. /\ open' \in Seq(Ids) /\ IsInjective(open') /\ Range(open') = Range(open) \cup {i}
  <2>1. /\ <<i>> \o open \in Seq(Ids) /\ IsInjective(<<i>> \o open)
        /\ Range(<<i>> \o open) = Range(open) \cup {i}
    <3>1. i \in Ids /\ i \notin Range(open)
      BY <1>2
    <3> QED BY <3>1, <1>7, PushFacts
  <2> QED BY <2>1, <1>13
<1>9. ASSUME NEW j \in Range(open')
      PROVE  /\ inodes'[j].ino # None /\ SlotsOf(table', j) # {}
             /\ inodes'[j].cnt = Cardinality(SlotsOf(table', j))
             /\ \E e \in dir' : e[2] = inodes'[j].ino
  <2>1. CASE j = i
    <3>1. Cardinality({s}) = 1
      BY FS_Singleton
    <3>2. inodes'[i].cnt = Cardinality(SlotsOf(table', i))
      BY <3>1, <1>6, <1>13
    <3> QED BY <2>1, <3>2, <1>2, <1>3, <1>6, <1>13
  <2>2. CASE j # i
    <3>1. j \in Range(open) /\ j \in Ids
      BY <2>2, <1>7, <1>8
    <3>2. /\ inodes[j].ino # None /\ SlotsOf(table, j) # {}
          /\ inodes[j].cnt = Cardinality(SlotsOf(table, j))
          /\ \E e \in dir : e[2] = inodes[j].ino
      BY <3>1, <1>1, <1>4, InodeNow
    <3>3. inodes'[j] = inodes[j] /\ SlotsOf(table', j) = SlotsOf(table, j)
      BY <2>2, <3>1, <1>6, <1>13
    <3> QED BY <3>2, <3>3
  <2> QED BY <2>1, <2>2
<1>10. ASSUME NEW j \in Range(open'), NEW k \in Range(open'), inodes'[j].ino = inodes'[k].ino
       PROVE  j = k
  <2>1. \A h \in Range(open) : inodes'[h] = inodes[h]
    BY <1>2, <1>7, <1>13
  <2>2. \A h \in Range(open), m \in Range(open) : inodes[h].ino = inodes[m].ino => h = m
    BY <1>1, InodeNow
  <2> QED BY <2>1, <2>2, <1>2, <1>8, <1>10, <1>13
<1>11. \A j \in Ids \ Range(open') : inodes'[j].ino = None /\ inodes'[j].cnt = 0
  BY <1>1, <1>4, <1>8, <1>13, InodeNow
<1>12. \A t \in Slots : table'[t].inode \in Ids => table'[t].inode \in Range(open')
  BY <1>1, <1>4, <1>8, <1>13, InodeNow
<1> QED BY <1>5, <1>8, <1>9, <1>10, <1>11, <1>12, InodeNext

LEMMA IdleFacts ==
    ASSUME TypeInv, NEW p \in Callers, \A q \in Callers \ {p} : call[q].op = "none",
           call' = [call EXCEPT ![p] = Idle]
    PROVE  /\ call' \in [Callers -> CallRecords]
           /\ \A q \in Callers : call'[q].op = "none"
<1>1. Idle \in CallRecords /\ Idle.op = "none"
  <2>1. Idle \in CallRecords
    BY DEF Idle, CallRecords
  <2> QED BY <2>1 DEF Idle
<1>2. call \in [Callers -> CallRecords]
  BY DEF TypeInv
<1> QED BY <1>1, <1>2

\* A call that has ended no longer accounts for a number in the bitmap.
LEMMA DirNext ==
    ASSUME DirInv, OneCall, UNCHANGED <<dir, imap>>, NEW p \in Callers,
           \E e \in dir : e[2] = call[p].ino, call[p].op # "none"
    PROVE  DirInv'
<1>1. ASSUME NEW n \in imap PROVE \E e \in dir : e[2] = n
  <2>1. \A q \in Callers : call[q].op # "none" => q = p
    BY DEF OneCall
  <2> QED BY <2>1 DEF DirInv
<1> QED BY <1>1 DEF DirInv

LEMMA OpenEndInv ==
    ASSUME FileTableInv, NEW p \in Callers, OpenEnd(p)
    PROVE  FileTableInv'
<1>1. TypeInv /\ FilesInv(table, inodes, open, fds) /\ DeadInv /\ OneCall /\ DirInv
  BY DEF FileTableInv
<1>2. /\ table \in [Slots -> SlotRecords] /\ inodes \in [Ids -> InodeRecords]
      /\ open \in Seq(Ids) /\ CallInv(table, inodes, open, fds)
      /\ call \in [Callers -> CallRecords]
  BY <1>1 DEF FilesInv, FileTypes, TypeInv
<1>3. PICK i, s, w : i = call[p].inode /\ s = call[p].slot /\ w = call[p].write
  OBVIOUS
<1> DEFINE g == [inodes EXCEPT ![i].cnt = 1]
           r == [g[i] EXCEPT !.deny = FALSE]
           ins == [g EXCEPT ![i] = r]
<1>4. /\ call[p].op = "open" /\ state[p]
      /\ open' = <<i>> \o open
      /\ FillSlot(p, s, i, w, ins)
      /\ call' = [call EXCEPT ![p] = Idle]
      /\ UNCHANGED <<dir, imap, state, halt>>
  BY <1>3 DEF OpenEnd, Ready
<1>5. /\ s \in Slots /\ i \in Ids \ Range(open) /\ w \in BOOLEAN
      /\ inodes[i].ino = call[p].ino /\ Descs(fds, s) = {}
      /\ table[s].inode = None /\ \E e \in dir : e[2] = call[p].ino
  <2>1. w \in BOOLEAN
    BY <1>2, <1>3 DEF CallRecords
  <2> QED BY <2>1, <1>2, <1>3, <1>4 DEF CallInv
<1>6. /\ ins \in [Ids -> InodeRecords] /\ ins[i].ino = inodes[i].ino /\ ins[i].cnt = 1
      /\ \A j \in Ids \ {i} : ins[j] = inodes[j]
  <2>1. /\ g \in [Ids -> InodeRecords] /\ g[i].ino = inodes[i].ino /\ g[i].cnt = 1
        /\ \A j \in Ids \ {i} : g[j] = inodes[j]
    <3>1. PICK n \in Int : n = 1
      OBVIOUS
    <3>2. i \in Ids
      BY <1>5
    <3>3. /\ [inodes EXCEPT ![i].cnt = n] \in [Ids -> InodeRecords]
          /\ [inodes EXCEPT ![i].cnt = n][i].ino = inodes[i].ino
          /\ [inodes EXCEPT ![i].cnt = n][i].cnt = n
          /\ \A j \in Ids \ {i} : [inodes EXCEPT ![i].cnt = n][j] = inodes[j]
      BY <3>2, <1>2, CountFacts, Zenon
    <3> QED BY <3>1, <3>3
  <2> HIDE DEF g
  <2>2. r \in InodeRecords /\ r.ino = g[i].ino /\ r.cnt = g[i].cnt
    <3>1. FALSE \in BOOLEAN /\ g[i] \in InodeRecords
      BY <2>1, <1>5
    <3> QED BY <3>1, FlagFacts
  <2> HIDE DEF r
  <2> QED BY <2>1, <2>2, <1>5
<1> HIDE DEF ins
<1>7. /\ inodes' \in [Ids -> InodeRecords]
      /\ inodes'[i].ino = ins[i].ino /\ inodes'[i].cnt = ins[i].cnt
      /\ \A j \in Ids \ {i} : inodes'[j] = ins[j]
      /\ table' \in [Slots -> SlotRecords]
      /\ table'[s].inode = i /\ ~table'[s].pipe
      /\ \A t \in Slots \ {s} : table'[t] = table[t]
      /\ \E allowed \in BOOLEAN : Install(p, s, allowed)
  BY <1>2, <1>4, <1>5, <1>6, FillFacts
<1>8. /\ \A q \in Callers \ {p} : call[q].op = "none"
      /\ \A t : ~InCreation(t)
  BY <1>1, <1>4, OnlyFacts
<1>9. /\ call' \in [Callers -> CallRecords] /\ \A q \in Callers : call'[q].op = "none"
  BY <1>1, <1>4, <1>8, IdleFacts
<1>10. /\ \A t : ~InCreation(t)' /\ OneCall' /\ CallInv(table, inodes, open, fds)'
  BY <1>9, QuietNext
<1>11. /\ fds' \in DescTables /\ lost' \in [slots : Nat, fds : Nat, boot : Nat]
       /\ DeadInv' /\ DescInv(table, fds)' /\ PosInv(table, fds)' /\ LostInv(table, fds)'
  <2>1. s \notin Orphans(table, fds)
    BY <1>5, NoneFacts DEF Orphans
  <2>2. PICK allowed \in BOOLEAN : Install(p, s, allowed)
    BY <1>7
  <2> QED BY <2>1, <2>2, <1>4, <1>5, <1>7, <1>8, <1>10, InstallFacts
<1>12. InodeInv(table, inodes, open)' /\ open' \in Seq(Ids)
  <2>1. inodes'[i].ino = call[p].ino /\ inodes'[i].cnt = 1
    BY <1>5, <1>6, <1>7
  <2>2. \A j \in Ids \ {i} : inodes'[j] = inodes[j]
    BY <1>6, <1>7
  <2> QED BY <2>1, <2>2, <1>3, <1>4, <1>7, <1>9, InodePushed
<1>13. FilesInv(table, inodes, open, fds)'
  BY <1>7, <1>10, <1>11, <1>12 DEF FilesInv, FileTypes
<1>14. TypeInv'
  BY <1>1, <1>4, <1>9, <1>11 DEF TypeInv
<1>15. DirInv'
  BY <1>1, <1>4, <1>5, DirNext
<1> QED BY <1>10, <1>11, <1>13, <1>14, <1>15 DEF FileTableInv

-----------------------------------------------------------------------------
\* create

LEMMA CreateEndInv ==
    ASSUME FileTableInv, NEW p \in Callers, CreateEnd(p)
    PROVE  FileTableInv'
<1>1. TypeInv /\ FilesInv(table, inodes, open, fds) /\ DeadInv /\ OneCall /\ DirInv
  BY DEF FileTableInv
<1>2. /\ table \in [Slots -> SlotRecords] /\ inodes \in [Ids -> InodeRecords]
      /\ CallInv(table, inodes, open, fds) /\ DescInv(table, fds)
  BY <1>1 DEF FilesInv, FileTypes, TypeInv
<1>3. PICK i, s : i = call[p].inode /\ s = call[p].slot
  OBVIOUS
<1>4. /\ call[p].op = "created" /\ state[p]
      /\ open' = <<i>> \o open
      /\ inodes' = [inodes EXCEPT ![i].cnt = 1]
      /\ Install(p, s, TRUE)
      /\ call' = [call EXCEPT ![p] = Idle]
      /\ UNCHANGED <<table, dir, imap, state, halt>>
  BY <1>3 DEF CreateEnd, Ready
<1>5. /\ s \in Slots /\ i \in Ids \ Range(open)
      /\ inodes[i].ino = call[p].ino /\ Descs(fds, s) = {}
      /\ SlotsOf(table, i) = {s} /\ <<call[p].name, call[p].ino>> \in dir
  BY <1>2, <1>3, <1>4 DEF CallInv
<1>6. table[s].inode = i /\ ~table[s].pipe
  <2>1. table[s].inode = i
    BY <1>5 DEF SlotsOf
  <2> QED BY <2>1, <1>2, <1>5, NoneFacts DEF DescInv
<1>7. /\ inodes' \in [Ids -> InodeRecords] /\ inodes'[i].ino = inodes[i].ino
      /\ inodes'[i].cnt = 1 /\ \A j \in Ids \ {i} : inodes'[j] = inodes[j]
  <2>1. PICK n \in Int : n = 1
    OBVIOUS
  <2>2. i \in Ids
    BY <1>5
  <2>3. /\ [inodes EXCEPT ![i].cnt = n] \in [Ids -> InodeRecords]
        /\ [inodes EXCEPT ![i].cnt = n][i].ino = inodes[i].ino
        /\ [inodes EXCEPT ![i].cnt = n][i].cnt = n
        /\ \A j \in Ids \ {i} : [inodes EXCEPT ![i].cnt = n][j] = inodes[j]
    BY <2>2, <1>2, CountFacts, Zenon
  <2> QED BY <2>1, <2>3, <1>4
<1>8. /\ \A q \in Callers \ {p} : call[q].op = "none"
      /\ \A t : InCreation(t) <=> t = s
  BY <1>1, <1>3, <1>4, OnlyFacts
<1>9. /\ call' \in [Callers -> CallRecords] /\ \A q \in Callers : call'[q].op = "none"
  BY <1>1, <1>4, <1>8, IdleFacts
<1>10. /\ \A t : ~InCreation(t)' /\ OneCall' /\ CallInv(table, inodes, open, fds)'
  BY <1>9, QuietNext
<1>11. /\ fds' \in DescTables /\ lost' \in [slots : Nat, fds : Nat, boot : Nat]
       /\ DeadInv' /\ DescInv(table, fds)' /\ PosInv(table, fds)' /\ LostInv(table, fds)'
  <2>1. s \notin Orphans(table, fds)
    BY <1>8 DEF Orphans
  <2>2. TRUE \in BOOLEAN
    OBVIOUS
  <2>3. /\ table' \in [Slots -> SlotRecords] /\ table'[s].inode \in Ids /\ ~table'[s].pipe
        /\ \A t \in Slots \ {s} : table'[t] = table[t]
    BY <1>2, <1>4, <1>5, <1>6
  <2>4. \A t \in Slots \ {s} : ~InCreation(t)
    BY <1>8
  <2>5. PICK b \in BOOLEAN : Install(p, s, b)
    BY <1>4, <2>2
  <2> QED BY <2>1, <2>3, <2>4, <2>5, <1>4, <1>5, <1>10, InstallFacts
<1>12. InodeInv(table, inodes, open)' /\ open' \in Seq(Ids)
  <2>1. inodes'[i].ino = call[p].ino
    BY <1>5, <1>7
  <2>2. table'[s].inode = i /\ \A t \in Slots \ {s} : table'[t] = table[t]
    BY <1>4, <1>6
  <2>3. /\ call[p].op \in {"open", "created"}
        /\ open' = <<call[p].inode>> \o open /\ dir' = dir
        /\ inodes'[call[p].inode].ino = call[p].ino /\ inodes'[call[p].inode].cnt = 1
        /\ table'[call[p].slot].inode = call[p].inode
    BY <2>1, <2>2, <1>3, <1>4, <1>7
  <2>4. \A j \in Ids \ {call[p].inode} : inodes'[j] = inodes[j]
    BY <1>3, <1>7
  <2>5. \A t \in Slots \ {call[p].slot} : table'[t] = table[t]
    BY <1>4
  <2> QED BY <2>3, <2>4, <2>5, <1>9, InodePushed
<1>13. FilesInv(table, inodes, open, fds)'
  BY <1>2, <1>4, <1>7, <1>10, <1>11, <1>12 DEF FilesInv, FileTypes
<1>14. TypeInv'
  BY <1>1, <1>4, <1>9, <1>11 DEF TypeInv
<1>15. DirInv'
  <2>1. \E e \in dir : e[2] = call[p].ino
    BY <1>5
  <2> QED BY <2>1, <1>1, <1>4, DirNext
<1> QED BY <1>10, <1>11, <1>13, <1>14, <1>15 DEF FileTableInv

\* The step of a call from op to op, other fields as they were.
LEMMA OpFacts ==
    ASSUME TypeInv, OneCall, NEW p \in Callers, call[p].op # "none",
           NEW o \in {"created", "unlinked"}, call' = [call EXCEPT ![p].op = o]
    PROVE  /\ call' \in [Callers -> CallRecords]
           /\ call'[p].op = o /\ call'[p].name = call[p].name
           /\ call'[p].ino = call[p].ino /\ call'[p].slot = call[p].slot
           /\ call'[p].inode = call[p].inode
           /\ \A q \in Callers \ {p} : call'[q].op = "none"
<1> DEFINE c == [call[p] EXCEPT !.op = o]
<1>1. call \in [Callers -> CallRecords]
  BY DEF TypeInv
<1>2. /\ c \in CallRecords /\ c.op = o /\ c.name = call[p].name
      /\ c.ino = call[p].ino /\ c.slot = call[p].slot /\ c.inode = call[p].inode
  BY <1>1 DEF CallRecords
<1>3. call' = [call EXCEPT ![p] = c]
  OBVIOUS
<1> HIDE DEF c
<1>4. /\ call' \in [Callers -> CallRecords] /\ call'[p] = c
      /\ \A q \in Callers \ {p} : call'[q] = call[q]
  BY <1>1, <1>2, <1>3
<1>5. \A q \in Callers \ {p} : call[q].op = "none"
  BY OnlyFacts
<1> QED BY <1>2, <1>4, <1>5

LEMMA CreateEntryInv ==
    ASSUME FileTableInv, NEW p \in Callers, CreateEntry(p)
    PROVE  FileTableInv'
<1>1. TypeInv /\ FilesInv(table, inodes, open, fds) /\ DeadInv /\ OneCall /\ DirInv
  BY DEF FileTableInv
<1>2. /\ inodes \in [Ids -> InodeRecords] /\ open \in Seq(Ids)
      /\ CallInv(table, inodes, open, fds)
  BY <1>1 DEF FilesInv, FileTypes
<1>3. /\ call[p].op = "create"
      /\ dir' = dir \cup {<<call[p].name, call[p].ino>>}
      /\ call' = [call EXCEPT ![p].op = "created"]
      /\ UNCHANGED <<table, fds, inodes, open, imap, state, lost, halt>>
  BY DEF CreateEntry, Ready
<1>4. /\ call[p].slot \in Slots /\ call[p].inode \in Ids \ Range(open)
      /\ call[p].ino \in imap /\ inodes[call[p].inode].ino = call[p].ino
      /\ Descs(fds, call[p].slot) = {}
      /\ \A j \in Range(open) : inodes[j].ino # call[p].ino
      /\ call[p].name \in Names
      /\ SlotsOf(table, call[p].inode) = {call[p].slot}
      /\ \A e \in dir : e[1] # call[p].name
  BY <1>2, <1>3 DEF CallInv
<1>5. /\ call' \in [Callers -> CallRecords]
      /\ call'[p].op = "created" /\ call'[p].name = call[p].name
      /\ call'[p].ino = call[p].ino /\ call'[p].slot = call[p].slot
      /\ call'[p].inode = call[p].inode
      /\ \A q \in Callers \ {p} : call'[q].op = "none"
  <2>1. PICK o \in {"created", "unlinked"} : o = "created"
    OBVIOUS
  <2> QED BY <2>1, <1>1, <1>3, OpFacts
<1>6. /\ \A t : InCreation(t) <=> call[p].slot = t
      /\ \A j : ~Releasing(j)
      /\ \A j : Fetching(j) <=> call[p].inode = j
  BY <1>1, <1>3, OnlyFacts
<1>7. /\ OneCall'
      /\ \A t : InCreation(t)' <=> InCreation(t)
      /\ \A j : ~Releasing(j)'
      /\ \A j : Fetching(j)' <=> Fetching(j)
  <2>1. /\ OneCall'
        /\ \A t : InCreation(t)' <=> call'[p].op \in {"create", "created"} /\ call'[p].slot = t
        /\ \A j : Releasing(j)' <=> call'[p].op = "release" /\ call'[p].inode = j
        /\ \A j : Fetching(j)' <=> /\ call'[p].op \in {"open", "create", "created"}
                                   /\ call'[p].inode = j
    BY <1>5, OnlyNext
  <2> QED BY <2>1, <1>5, <1>6
<1>8. /\ DescInv(table, fds)' /\ PosInv(table, fds)' /\ LostInv(table, fds)' /\ DeadInv'
      /\ \A j : SlotsOf(table, j)' = SlotsOf(table, j)
      /\ \A t : Descs(fds, t)' = Descs(fds, t)
      /\ table' \in [Slots -> SlotRecords] /\ fds' \in DescTables
  BY <1>1, <1>3, <1>7, SlotsFrame
<1>9. InodeInv(table, inodes, open)'
  <2>1. \A j \in Ids \ Range(open) :
          (inodes'[j].ino = None /\ inodes'[j].cnt = 0) \/ Fetching(j)'
    BY <1>1, <1>3, <1>7, InodeNow
  <2>2. \A t \in Slots : table'[t].inode \in Ids =>
          table'[t].inode \in Range(open) \/ InCreation(t)'
    BY <1>1, <1>3, <1>7, InodeNow
  <2>3. \A j \in Range(open) : SlotsOf(table', j) = SlotsOf(table, j)
    BY <1>3
  <2>4. \A j \in Range(open) : inodes'[j] = inodes[j]
    BY <1>3
  <2>5. dir \subseteq dir'
    BY <1>3
  <2> QED BY <2>1, <2>2, <2>3, <2>4, <2>5, <1>1, <1>3, <1>6, <1>7, InodeKept
<1>10. CallInv(table, inodes, open, fds)'
  <2>1. <<call'[p].name, call'[p].ino>> \in dir'
    BY <1>3, <1>5
  <2>2. \A q \in Callers : call'[q].op # "none" => q = p
    BY <1>5
  <2> SUFFICES ASSUME NEW q \in Callers, q = p
               PROVE  /\ call'[q].op = "created"
                      /\ call'[q].slot \in Slots /\ call'[q].inode \in Ids \ Range(open')
                      /\ call'[q].ino \in imap' /\ inodes'[call'[q].inode].ino = call'[q].ino
                      /\ Descs(fds', call'[q].slot) = {}
                      /\ \A j \in Range(open') : inodes'[j].ino # call'[q].ino
                      /\ call'[q].name \in Names
                      /\ SlotsOf(table', call'[q].inode) = {call'[q].slot}
                      /\ <<call'[q].name, call'[q].ino>> \in dir'
    BY <2>2 DEF CallInv, Descs, SlotsOf
  <2> QED BY <2>1, <1>3, <1>4, <1>5
<1>11. FilesInv(table, inodes, open, fds)'
  BY <1>2, <1>3, <1>8, <1>9, <1>10 DEF FilesInv, FileTypes
<1>12. TypeInv'
  <2>1. dir' \subseteq Names \X Inos
    BY <1>1, <1>3, <1>4 DEF TypeInv
  <2> QED BY <2>1, <1>1, <1>3, <1>5 DEF TypeInv
<1>13. DirInv'
  <2>1. \A e, d \in dir' : e[1] = d[1] => e = d
    BY <1>1, <1>3, <1>4 DEF DirInv
  <2>2. \A e \in dir' : e[2] \in imap'
    BY <1>1, <1>3, <1>4 DEF DirInv
  <2>3. \A n \in imap' : \/ \E e \in dir' : e[2] = n
                         \/ \E q \in Callers : call'[q].op # "none" /\ call'[q].ino = n
    <3>1. ASSUME NEW n \in imap, NEW q \in Callers, call[q].op # "none", call[q].ino = n
          PROVE  call'[p].op # "none" /\ call'[p].ino = n
      BY <3>1, <1>1, <1>3, <1>5 DEF OneCall
    <3> QED BY <3>1, <1>1, <1>3 DEF DirInv
  <2> QED BY <2>1, <2>2, <2>3 DEF DirInv
<1> QED BY <1>7, <1>8, <1>11, <1>12, <1>13 DEF FileTableInv

\* Two sets of which the members of one point at different members of the other.
LEMMA Pigeons ==
    ASSUME NEW A, NEW B, IsFiniteSet(B), NEW rel,
           \A a \in A : \E b \in B : <<a, b>> \in rel,
           \A a, c \in A, b \in B : <<a, b>> \in rel /\ <<c, b>> \in rel => a = c
    PROVE  IsFiniteSet(A) /\ Cardinality(A) <= Cardinality(B)
<1> DEFINE f == [a \in A |-> CHOOSE b \in B : <<a, b>> \in rel]
<1>1. \A a \in A : f[a] \in B /\ <<a, f[a]>> \in rel
  OBVIOUS
<1>2. f \in [A -> B] /\ DOMAIN f = A
  BY <1>1
<1> HIDE DEF f
<1>3. f \in Injection(A, B)
  BY <1>1, <1>2 DEF Injection, IsInjective
<1> QED BY <1>3, FS_Injection

\* The inode bitmap is not full when no call is under way: its numbers are those
\* of the names in the directory.
LEMMA InoLeft ==
    ASSUME FileTableInv, \A q \in Callers : call[q].op = "none"
    PROVE  Inos \ imap # {}
<1>1. DirInv /\ TypeInv
  BY DEF FileTableInv
<1> DEFINE rel == {x \in imap \X Names : <<x[2], x[1]>> \in dir}
<1>2. \A a \in imap : \E b \in Names : <<a, b>> \in rel
  <2> SUFFICES ASSUME NEW a \in imap PROVE \E b \in Names : <<a, b>> \in rel
    OBVIOUS
  <2>1. PICK e \in dir : e[2] = a
    BY <1>1 DEF DirInv
  <2>2. e \in Names \X Inos /\ e = <<e[1], e[2]>>
    BY <1>1 DEF TypeInv
  <2>3. <<a, e[1]>> \in rel
    BY <2>1, <2>2
  <2> QED BY <2>2, <2>3
<1>3. \A a, c \in imap, b \in Names : <<a, b>> \in rel /\ <<c, b>> \in rel => a = c
  <2> SUFFICES ASSUME NEW a \in imap, NEW c \in imap, NEW b \in Names,
                      <<b, a>> \in dir, <<b, c>> \in dir
               PROVE  a = c
    OBVIOUS
  <2>1. <<b, a>> = <<b, c>>
    BY <1>1 DEF DirInv
  <2> QED BY <2>1
<1> HIDE DEF rel
<1>4. IsFiniteSet(Names)
  BY NamesAssumption
<1>5. Cardinality(imap) <= Cardinality(Names) /\ IsFiniteSet(imap)
  BY <1>2, <1>3, <1>4, Pigeons
<1>6. Cardinality(imap) \in Nat
  BY <1>5, FS_CardinalityType
<1>7. imap # Inos
  BY <1>5, <1>6, ConstFacts
<1> QED BY <1>1, <1>7 DEF TypeInv

LEMMA CreateBeginInv ==
    ASSUME ~Overlap, FileTableInv, NEW p \in Callers, NEW n \in Names, CreateBegin(p, n)
    PROVE  FileTableInv'
<1>1. TypeInv /\ FilesInv(table, inodes, open, fds) /\ DeadInv /\ OneCall /\ DirInv
  BY DEF FileTableInv
<1>2. /\ table \in [Slots -> SlotRecords] /\ inodes \in [Ids -> InodeRecords]
      /\ open \in Seq(Ids) /\ fds \in DescTables /\ call \in [Callers -> CallRecords]
      /\ DescInv(table, fds) /\ PosInv(table, fds) /\ LostInv(table, fds)
  BY <1>1 DEF FilesInv, FileTypes, TypeInv
<1>3. PICK i, ino, s, r, o, c :
        /\ i = Least(FreeIds) /\ ino = Least(Inos \ imap) /\ s = Least(FreeSlots)
        /\ r = [ino |-> ino, cnt |-> 0, deny |-> FALSE]
        /\ o = Opened(i, TRUE)
        /\ c = [op |-> "create", name |-> n, ino |-> ino, slot |-> s, inode |-> i,
                write |-> TRUE]
  OBVIOUS
<1>4. /\ Starts(p) /\ FreeSlots # {} /\ FreeIds # {}
      /\ \A e \in dir : e[1] # n
      /\ imap' = imap \cup {ino}
      /\ inodes' = [inodes EXCEPT ![i] = r]
      /\ table' = [table EXCEPT ![s] = o]
      /\ call' = [call EXCEPT ![p] = c]
      /\ UNCHANGED <<fds, open, dir, state, lost, halt>>
  BY <1>3 DEF CreateBegin
<1>5. /\ s \in Slots /\ table[s].inode = None /\ Descs(fds, s) = {}
      /\ i \in Ids \ Range(open) /\ inodes[i].ino = None
  BY <1>3, <1>4, FreeSlotFacts, FreeIdFacts
<1>6. /\ \A q \in Callers : call[q].op = "none"
      /\ \A t : ~InCreation(t)
      /\ \A j : ~Releasing(j) /\ ~Fetching(j)
  BY <1>4, StartsFacts
<1>7. ino \in Inos \ imap
  <2>1. Inos \ imap \in SUBSET Nat /\ Inos \ imap # {}
    BY <1>6, ConstFacts, InoLeft
  <2> QED BY <2>1, <1>3, LeastFacts
<1>8. r \in InodeRecords /\ r.ino = ino
  <2>1. r \in InodeRecords
    BY <1>3, <1>7 DEF InodeRecords
  <2> QED BY <2>1, <1>3
<1>9. o \in SlotRecords /\ o.inode = i /\ ~o.pipe
  <2>1. o \in SlotRecords
    BY <1>3, <1>5 DEF Opened, SlotRecords
  <2> QED BY <2>1, <1>3 DEF Opened
<1>10. /\ c \in CallRecords /\ c.op = "create" /\ c.name = n /\ c.ino = ino
       /\ c.slot = s /\ c.inode = i
  <2>1. c \in CallRecords
    BY <1>3, <1>5, <1>7 DEF CallRecords
  <2> QED BY <2>1, <1>3
<1>11. /\ call' \in [Callers -> CallRecords] /\ call'[p] = c
       /\ \A q \in Callers \ {p} : call'[q].op = "none"
  BY <1>2, <1>4, <1>6, <1>10, CallFacts
<1>12. /\ inodes' \in [Ids -> InodeRecords] /\ inodes'[i].ino = ino
       /\ \A j \in Ids \ {i} : inodes'[j] = inodes[j]
  BY <1>2, <1>4, <1>5, <1>8
<1>13. /\ table' \in [Slots -> SlotRecords] /\ table'[s].inode = i /\ ~table'[s].pipe
       /\ \A t \in Slots \ {s} : table'[t] = table[t]
  BY <1>2, <1>4, <1>5, <1>9
<1>14. /\ OneCall'
       /\ \A t : InCreation(t)' <=> t = s
       /\ \A j : ~Releasing(j)'
       /\ \A j : Fetching(j)' <=> j = i
  <2>1. /\ OneCall'
        /\ \A t : InCreation(t)' <=> call'[p].op \in {"create", "created"} /\ call'[p].slot = t
        /\ \A j : Releasing(j)' <=> call'[p].op = "release" /\ call'[p].inode = j
        /\ \A j : Fetching(j)' <=> /\ call'[p].op \in {"open", "create", "created"}
                                   /\ call'[p].inode = j
    BY <1>11, OnlyNext
  <2> QED BY <2>1, <1>10, <1>11
<1>15. \A t : Descs(fds, t)' = Descs(fds, t)
  BY <1>4 DEF Descs
<1>16. DescInv(table, fds)'
  <2>1. \A t \in Slots : table'[t].inode = Page <=> table'[t].pipe /\ table'[t].inode # None
    BY <1>2, <1>5, <1>13, NoneFacts DEF DescInv
  <2>2. \A q \in Callers, f \in Fds : fds[q][f] # s
    BY <1>5, DescsEmpty
  <2>3. fds' = fds /\ \A q \in Callers, f \in Fds : \A t \in Slots :
                       fds[q][f] = t => table'[t] = table[t]
    BY <2>2, <1>4, <1>13
  <2>4. \A q \in Callers, f \in Fds : \A t \in Slots : fds'[q][f] = t => table'[t].inode # None
    BY <2>3, <1>2 DEF DescInv
  <2>5. \A q, u \in Callers, f, g \in Fds : \A t \in Slots :
          table'[t].inode \in Ids /\ fds'[q][f] = t /\ fds'[u][g] = t => q = u /\ f = g
    BY <2>3, <1>2 DEF DescInv
  <2>6. \A f \in Fds, t \in Slots : fds'[Boot][f] = t => table'[t].inode \in Ids
    BY <2>3, <1>2 DEF DescInv, Callers
  <2> QED BY <2>1, <2>4, <2>5, <2>6 DEF DescInv
<1>17. PosInv(table, fds)'
  BY <1>2, <1>4, <1>5, <1>13, <1>15, NoneFacts DEF PosInv
<1>18. LostInv(table, fds)'
  <2>1. ASSUME NEW t \in Slots PROVE t \in Orphans(table, fds)' <=> t \in Orphans(table, fds)
    BY <1>5, <1>6, <1>13, <1>14, <1>15, NoneFacts DEF Orphans
  <2>2. Orphans(table, fds)' = Orphans(table, fds)
    BY <2>1 DEF Orphans
  <2> QED BY <2>2, <1>2, <1>4 DEF LostInv
<1>19. /\ SlotsOf(table', i) = {s}
       /\ \A j \in Ids \ {i} : SlotsOf(table', j) = SlotsOf(table, j)
  <2>1. \A t \in Slots : table[t].inode # i
    BY <1>1, <1>5, <1>6, InodeNow
  <2>2. ASSUME NEW t \in Slots PROVE table'[t].inode = i <=> t = s
    BY <2>1, <1>13
  <2>3. SlotsOf(table', i) = {s}
    <3>1. s \in Slots
      BY <1>5
    <3> QED BY <2>2, <3>1, Zenon DEF SlotsOf
  <2>4. ASSUME NEW j \in Ids \ {i} PROVE SlotsOf(table', j) = SlotsOf(table, j)
    BY <1>5, <1>13, NoneFacts DEF SlotsOf
  <2> QED BY <2>3, <2>4
<1>20. InodeInv(table, inodes, open)'
  <2>1. Range(open) \subseteq Ids
    BY <1>1, InodeNow
  <2>2. \A j \in Range(open) : inodes'[j] = inodes[j] /\ SlotsOf(table', j) = SlotsOf(table, j)
    BY <2>1, <1>5, <1>12, <1>19
  <2>3. \A j \in Ids \ Range(open) :
          (inodes'[j].ino = None /\ inodes'[j].cnt = 0) \/ Fetching(j)'
    BY <1>1, <1>6, <1>12, <1>14, InodeNow
  <2>4. \A t \in Slots : table'[t].inode \in Ids =>
          table'[t].inode \in Range(open) \/ InCreation(t)'
    BY <1>1, <1>6, <1>13, <1>14, InodeNow
  <2> QED BY <2>2, <2>3, <2>4, <1>1, <1>4, <1>6, <1>14, InodeKept
<1>21. CallInv(table, inodes, open, fds)'
  <2>1. \A q \in Callers : call'[q].op # "none" => q = p
    BY <1>11
  <2>2. \A j \in Range(open) : inodes'[j].ino # ino
    <3>1. Range(open) \subseteq Ids
      BY <1>1, InodeNow
    <3>2. ASSUME NEW j \in Range(open) PROVE inodes[j].ino \in imap
      <4>1. \E e \in dir : e[2] = inodes[j].ino
        BY <1>1, <1>6, InodeNow
      <4> QED BY <4>1, <1>1 DEF DirInv
    <3> QED BY <3>1, <3>2, <1>5, <1>7, <1>12
  <2> SUFFICES ASSUME NEW q \in Callers, q = p
               PROVE  /\ call'[q].op = "create"
                      /\ call'[q].slot \in Slots /\ call'[q].inode \in Ids \ Range(open')
                      /\ call'[q].ino \in imap' /\ inodes'[call'[q].inode].ino = call'[q].ino
                      /\ Descs(fds', call'[q].slot) = {}
                      /\ \A j \in Range(open') : inodes'[j].ino # call'[q].ino
                      /\ call'[q].name \in Names
                      /\ SlotsOf(table', call'[q].inode) = {call'[q].slot}
                      /\ \A e \in dir' : e[1] # call'[q].name
    BY <2>1 DEF CallInv, Descs, SlotsOf
  <2>3. /\ call'[p].op = "create" /\ call'[p].name = n /\ call'[p].ino = ino
        /\ call'[p].slot = s /\ call'[p].inode = i
    BY <1>10, <1>11
  <2>4. /\ s \in Slots /\ i \in Ids \ Range(open') /\ ino \in imap'
        /\ \A e \in dir' : e[1] # n
        /\ \A j \in Range(open') : inodes'[j].ino # ino
        /\ Descs(fds', s) = {}
    BY <2>2, <1>4, <1>5
  <2> QED BY <2>3, <2>4, <1>12, <1>19
<1>22. FilesInv(table, inodes, open, fds)'
  BY <1>2, <1>4, <1>12, <1>13, <1>16, <1>17, <1>18, <1>20, <1>21 DEF FilesInv, FileTypes
<1>23. TypeInv'
  <2>1. imap' \subseteq Inos
    BY <1>1, <1>4, <1>7 DEF TypeInv
  <2> QED BY <2>1, <1>1, <1>4, <1>11 DEF TypeInv
<1>24. DirInv'
  <2>1. \A m \in imap : \E e \in dir : e[2] = m
    BY <1>1, <1>6 DEF DirInv
  <2>2. call'[p].op # "none" /\ call'[p].ino = ino
    BY <1>10, <1>11
  <2>3. \A m \in imap' : \/ \E e \in dir' : e[2] = m
                         \/ \E q \in Callers : call'[q].op # "none" /\ call'[q].ino = m
    BY <2>1, <2>2, <1>4
  <2> QED BY <2>3, <1>1, <1>4 DEF DirInv
<1>25. DeadInv'
  BY <1>1, <1>4 DEF DeadInv
<1> QED BY <1>14, <1>22, <1>23, <1>24, <1>25 DEF FileTableInv

-----------------------------------------------------------------------------
\* unlink

LEMMA UnlinkInv ==
    ASSUME ~Overlap, FileTableInv, NEW p \in Callers, NEW e \in dir, Unlink(p, e)
    PROVE  FileTableInv'
<1>1. TypeInv /\ FilesInv(table, inodes, open, fds) /\ DeadInv /\ OneCall /\ DirInv
  BY DEF FileTableInv
<1>2. /\ inodes \in [Ids -> InodeRecords] /\ open \in Seq(Ids)
      /\ call \in [Callers -> CallRecords]
  BY <1>1 DEF FilesInv, FileTypes, TypeInv
<1>3. PICK c : c = [Idle EXCEPT !.op = "unlink", !.ino = e[2]]
  OBVIOUS
<1>4. /\ Starts(p) /\ ~InUse(e[2])
      /\ call' = [call EXCEPT ![p] = c]
      /\ UNCHANGED <<table, fds, inodes, open, dir, imap, state, lost, halt>>
  BY <1>3 DEF Unlink
<1>5. e[2] \in Inos
  BY <1>1 DEF TypeInv
<1>6. c \in CallRecords /\ c.op = "unlink" /\ c.ino = e[2]
  <2>1. c = [op |-> "unlink", name |-> None, ino |-> e[2], slot |-> None,
             inode |-> None, write |-> FALSE]
    BY <1>3 DEF Idle
  <2>2. c \in CallRecords
    BY <2>1, <1>5 DEF CallRecords
  <2> QED BY <2>1, <2>2
<1>7. /\ \A q \in Callers : call[q].op = "none"
      /\ \A t : ~InCreation(t)
      /\ \A j : ~Releasing(j) /\ ~Fetching(j)
  BY <1>4, StartsFacts
<1>8. /\ call' \in [Callers -> CallRecords] /\ call'[p] = c
      /\ \A q \in Callers \ {p} : call'[q].op = "none"
  BY <1>2, <1>4, <1>6, <1>7, CallFacts
<1>9. /\ OneCall' /\ \A t : ~InCreation(t)' /\ \A j : ~Releasing(j)' /\ ~Fetching(j)'
  <2>1. /\ OneCall'
        /\ \A t : InCreation(t)' <=> call'[p].op \in {"create", "created"} /\ call'[p].slot = t
        /\ \A j : Releasing(j)' <=> call'[p].op = "release" /\ call'[p].inode = j
        /\ \A j : Fetching(j)' <=> /\ call'[p].op \in {"open", "create", "created"}
                                   /\ call'[p].inode = j
    BY <1>8, OnlyNext
  <2> QED BY <2>1, <1>6, <1>8
<1>10. /\ DescInv(table, fds)' /\ PosInv(table, fds)' /\ LostInv(table, fds)' /\ DeadInv'
       /\ table' \in [Slots -> SlotRecords] /\ fds' \in DescTables
  BY <1>1, <1>4, <1>7, <1>9, SlotsFrame
<1>11. InodeInv(table, inodes, open)'
  <2>1. \A j \in Ids \ Range(open) : inodes'[j].ino = None /\ inodes'[j].cnt = 0
    BY <1>1, <1>4, <1>7, InodeNow
  <2>2. \A t \in Slots : table'[t].inode \in Ids => table'[t].inode \in Range(open)
    BY <1>1, <1>4, <1>7, InodeNow
  <2>3. \A j \in Range(open) : SlotsOf(table', j) = SlotsOf(table, j) /\ inodes'[j] = inodes[j]
    BY <1>4
  <2> QED BY <2>1, <2>2, <2>3, <1>1, <1>4, <1>7, <1>9, InodeKept
<1>12. CallInv(table, inodes, open, fds)'
  <2>1. \A q \in Callers : call'[q].op # "none" => q = p
    BY <1>8
  <2> SUFFICES ASSUME NEW q \in Callers, q = p
               PROVE  /\ call'[q].op = "unlink" /\ call'[q].ino \in Inos
                      /\ \A s \in Slots : table'[s].inode \in Ids =>
                           inodes'[table'[s].inode].ino # call'[q].ino
    BY <2>1 DEF CallInv
  <2> QED BY <1>4, <1>5, <1>6, <1>8 DEF InUse
<1>13. FilesInv(table, inodes, open, fds)'
  BY <1>2, <1>4, <1>10, <1>11, <1>12 DEF FilesInv, FileTypes
<1>14. TypeInv'
  BY <1>1, <1>4, <1>8 DEF TypeInv
<1>15. DirInv'
  <2>1. \A n \in imap : \E d \in dir : d[2] = n
    BY <1>1, <1>7 DEF DirInv
  <2> QED BY <2>1, <1>1, <1>4 DEF DirInv
<1> QED BY <1>9, <1>10, <1>13, <1>14, <1>15 DEF FileTableInv

LEMMA UnlinkEntryInv ==
    ASSUME FileTableInv, NEW p \in Callers, UnlinkEntry(p)
    PROVE  FileTableInv'
<1>1. TypeInv /\ FilesInv(table, inodes, open, fds) /\ DeadInv /\ OneCall /\ DirInv
  BY DEF FileTableInv
<1>2. /\ inodes \in [Ids -> InodeRecords] /\ open \in Seq(Ids)
      /\ CallInv(table, inodes, open, fds)
  BY <1>1 DEF FilesInv, FileTypes
<1>3. /\ call[p].op = "unlink"
      /\ dir' = {e \in dir : e[2] # call[p].ino}
      /\ call' = [call EXCEPT ![p].op = "unlinked"]
      /\ UNCHANGED <<table, fds, inodes, open, imap, state, lost, halt>>
  BY DEF UnlinkEntry, Ready
<1>4. /\ call[p].ino \in Inos
      /\ \A s \in Slots : table[s].inode \in Ids => inodes[table[s].inode].ino # call[p].ino
  BY <1>2, <1>3 DEF CallInv
<1>5. /\ call' \in [Callers -> CallRecords]
      /\ call'[p].op = "unlinked" /\ call'[p].ino = call[p].ino
      /\ \A q \in Callers \ {p} : call'[q].op = "none"
  <2>1. PICK o \in {"created", "unlinked"} : o = "unlinked"
    OBVIOUS
  <2> QED BY <2>1, <1>1, <1>3, OpFacts
<1>6. \A t : ~InCreation(t) /\ ~Releasing(t) /\ ~Fetching(t)
  BY <1>1, <1>3, OnlyFacts
<1>7. OneCall' /\ \A t : ~InCreation(t)' /\ ~Releasing(t)' /\ ~Fetching(t)'
  <2>1. /\ OneCall'
        /\ \A t : InCreation(t)' <=> call'[p].op \in {"create", "created"} /\ call'[p].slot = t
        /\ \A j : Releasing(j)' <=> call'[p].op = "release" /\ call'[p].inode = j
        /\ \A j : Fetching(j)' <=> /\ call'[p].op \in {"open", "create", "created"}
                                   /\ call'[p].inode = j
    BY <1>5, OnlyNext
  <2> QED BY <2>1, <1>5
<1>8. /\ DescInv(table, fds)' /\ PosInv(table, fds)' /\ LostInv(table, fds)' /\ DeadInv'
      /\ table' \in [Slots -> SlotRecords] /\ fds' \in DescTables
  BY <1>1, <1>3, <1>6, <1>7, SlotsFrame
<1>9. \A j \in Range(open) : inodes[j].ino # call[p].ino
  <2> SUFFICES ASSUME NEW j \in Range(open) PROVE inodes[j].ino # call[p].ino
    OBVIOUS
  <2>1. SlotsOf(table, j) # {} /\ j \in Ids
    BY <1>1, <1>6, InodeNow
  <2>2. PICK s \in Slots : table[s].inode = j
    BY <2>1 DEF SlotsOf
  <2>3. inodes[table[s].inode].ino # call[p].ino
    BY <2>1, <2>2, <1>4
  <2> QED BY <2>2, <2>3
<1>10. InodeInv(table, inodes, open)'
  <2>1. \A j \in Ids \ Range(open) : inodes'[j].ino = None /\ inodes'[j].cnt = 0
    BY <1>1, <1>3, <1>6, InodeNow
  <2>2. \A t \in Slots : table'[t].inode \in Ids => table'[t].inode \in Range(open)
    BY <1>1, <1>3, <1>6, InodeNow
  <2>3. \A j \in Range(open) : SlotsOf(table', j) = SlotsOf(table, j) /\ inodes'[j] = inodes[j]
    BY <1>3
  <2>4. \A j \in Range(open) : \A e \in dir : e[2] = inodes[j].ino => e \in dir'
    BY <1>3, <1>9
  <2> QED BY <2>1, <2>2, <2>3, <2>4, <1>1, <1>3, <1>6, <1>7, InodeKept
<1>11. CallInv(table, inodes, open, fds)'
  <2>1. \A q \in Callers : call'[q].op # "none" => q = p
    BY <1>5
  <2> SUFFICES ASSUME NEW q \in Callers, q = p
               PROVE  /\ call'[q].op = "unlinked" /\ call'[q].ino \in Inos
                      /\ \A s \in Slots : table'[s].inode \in Ids =>
                           inodes'[table'[s].inode].ino # call'[q].ino
                      /\ \A e \in dir' : e[2] # call'[q].ino
    BY <2>1 DEF CallInv
  <2> QED BY <1>3, <1>4, <1>5
<1>12. FilesInv(table, inodes, open, fds)'
  BY <1>2, <1>3, <1>8, <1>10, <1>11 DEF FilesInv, FileTypes
<1>13. TypeInv'
  <2>1. dir' \subseteq Names \X Inos
    BY <1>1, <1>3 DEF TypeInv
  <2> QED BY <2>1, <1>1, <1>3, <1>5 DEF TypeInv
<1>14. DirInv'
  <2>1. ASSUME NEW n \in imap
        PROVE  \/ \E e \in dir' : e[2] = n
               \/ \E q \in Callers : call'[q].op # "none" /\ call'[q].ino = n
    <3>1. CASE n = call[p].ino
      BY <3>1, <1>5
    <3>2. CASE n # call[p].ino
      <4>1. \A q \in Callers : call[q].op # "none" => q = p
        BY <1>1, <1>3 DEF OneCall
      <4>2. PICK e \in dir : e[2] = n
        BY <3>2, <4>1, <1>1 DEF DirInv
      <4> QED BY <3>2, <4>2, <1>3
    <3> QED BY <3>1, <3>2
  <2> QED BY <2>1, <1>1, <1>3 DEF DirInv
<1> QED BY <1>7, <1>8, <1>12, <1>13, <1>14 DEF FileTableInv

\* inode_release finds room for an inode: those in use have slots.
LEMMA IdLeft ==
    ASSUME FileTableInv, \A j : ~Releasing(j) /\ ~Fetching(j)
    PROVE  FreeIds # {}
<1>1. FilesInv(table, inodes, open, fds)
  BY DEF FileTableInv
<1> DEFINE A == Range(open)
           rel == {x \in Ids \X Slots : table[x[2]].inode = x[1]}
<1>2. A \subseteq Ids
  BY <1>1, InodeNow
<1>3. \A a \in A : \E b \in Slots : <<a, b>> \in rel
  <2> SUFFICES ASSUME NEW a \in A PROVE \E b \in Slots : <<a, b>> \in rel
    OBVIOUS
  <2>3. SlotsOf(table, a) # {}
    BY <1>1, InodeNow
  <2>1. PICK s \in Slots : table[s].inode = a
    BY <2>3 DEF SlotsOf
  <2>2. a \in Ids
    BY <1>2
  <2> QED BY <2>1, <2>2
<1>4. \A a, c \in A, b \in Slots : <<a, b>> \in rel /\ <<c, b>> \in rel => a = c
  OBVIOUS
<1> HIDE DEF rel, A
<1>5. IsFiniteSet(A) /\ Cardinality(A) <= Cardinality(Slots)
  BY <1>3, <1>4, ConstFacts, Pigeons
<1>6. Cardinality(A) \in Nat
  BY <1>5, FS_CardinalityType
<1>7. A # Ids
  BY <1>5, <1>6, ConstFacts
<1>8. PICK j \in Ids : j \notin A
  BY <1>2, <1>7
<1>9. inodes[j].ino = None
  BY <1>1, <1>8, InodeNow DEF A
<1> QED BY <1>9 DEF FreeIds

LEMMA ReleaseOpenInv ==
    ASSUME FileTableInv, NEW p \in Callers, ReleaseOpen(p)
    PROVE  FileTableInv'
<1>1. TypeInv /\ FilesInv(table, inodes, open, fds) /\ DeadInv /\ OneCall /\ DirInv
  BY DEF FileTableInv
<1>2. /\ inodes \in [Ids -> InodeRecords] /\ open \in Seq(Ids)
      /\ call \in [Callers -> CallRecords] /\ CallInv(table, inodes, open, fds)
  BY <1>1 DEF FilesInv, FileTypes, TypeInv
<1>3. PICK ino, i : ino = call[p].ino /\ i = Least(FreeIds)
  OBVIOUS
<1>4. call[p].op = "unlinked"
  BY DEF ReleaseOpen, Ready
<1>5. /\ ino \in Inos /\ ino # None
      /\ \A s \in Slots : table[s].inode \in Ids => inodes[table[s].inode].ino # ino
      /\ \A e \in dir : e[2] # ino
  BY <1>2, <1>3, <1>4, NoneFacts DEF CallInv
<1>6. \A t : ~InCreation(t) /\ ~Releasing(t) /\ ~Fetching(t)
  BY <1>1, <1>4, OnlyFacts
<1>7. \A j \in Range(open) : inodes[j].ino # ino
  <2> SUFFICES ASSUME NEW j \in Range(open) PROVE inodes[j].ino # ino
    OBVIOUS
  <2>1. SlotsOf(table, j) # {} /\ j \in Ids
    BY <1>1, <1>6, InodeNow
  <2>2. PICK s \in Slots : table[s].inode = j
    BY <2>1 DEF SlotsOf
  <2>3. inodes[table[s].inode].ino # ino
    BY <2>1, <2>2, <1>5
  <2> QED BY <2>2, <2>3
<1>8. Listed(ino) = None
  BY <1>7, ListedFacts
<1> DEFINE c == [[call[p] EXCEPT !.op = "release"] EXCEPT !.inode = i]
<1>9. /\ inodes' = [inodes EXCEPT ![i].ino = ino, ![i].cnt = @ + 1]
      /\ open' = <<i>> \o open
      /\ call' = [call EXCEPT ![p].op = "release", ![p].inode = i]
      /\ UNCHANGED <<table, fds, dir, imap, state, lost, halt>>
  BY <1>3, <1>8 DEF ReleaseOpen
<1>10. i \in Ids /\ i \notin Range(open) /\ inodes[i].ino = None /\ inodes[i].cnt = 0
  <2>1. i \in Ids \ Range(open) /\ inodes[i].ino = None
    BY <1>3, <1>6, IdLeft, FreeIdFacts
  <2> QED BY <2>1, <1>1, <1>6, InodeNow
<1>11. /\ inodes' \in [Ids -> InodeRecords] /\ inodes'[i].ino = ino /\ inodes'[i].cnt = 1
       /\ \A j \in Ids \ {i} : inodes'[j] = inodes[j]
  <2> DEFINE r == [[inodes[i] EXCEPT !.ino = ino] EXCEPT !.cnt = inodes[i].cnt + 1]
  <2>1. r \in InodeRecords /\ r.ino = ino /\ r.cnt = 1
    <3>1. PICK x \in InodeRecords : x = inodes[i] /\ x.cnt = 0
      BY <1>2, <1>10
    <3>2. PICK y : y = [x EXCEPT !.ino = ino]
      OBVIOUS
    <3>3. y \in InodeRecords
      BY <3>1, <3>2, <1>5 DEF InodeRecords
    <3>4. y.ino = ino
      BY <3>1, <3>2 DEF InodeRecords
    <3>5. r = [y EXCEPT !.cnt = 1]
      BY <3>1, <3>2
    <3> HIDE DEF r
    <3> QED BY <3>3, <3>4, <3>5 DEF InodeRecords
  <2>2. inodes' = [inodes EXCEPT ![i] = r]
    BY <1>2, <1>9, <1>10 DEF InodeRecords
  <2> HIDE DEF r
  <2> QED BY <2>1, <2>2, <1>2, <1>10
<1>12. /\ call' \in [Callers -> CallRecords] /\ call'[p].op = "release"
       /\ call'[p].inode = i /\ call'[p].ino = ino
       /\ \A q \in Callers \ {p} : call'[q].op = "none"
  <2>1. /\ c \in CallRecords /\ c.op = "release" /\ c.inode = i /\ c.ino = ino
    <3>1. PICK x \in CallRecords : x = call[p] /\ x.ino = ino
      BY <1>2, <1>3
    <3>2. PICK y : y = [x EXCEPT !.op = "release"]
      OBVIOUS
    <3>3. y \in CallRecords
      BY <3>1, <3>2 DEF CallRecords
    <3>4. y.op = "release" /\ y.ino = ino
      BY <3>1, <3>2 DEF CallRecords
    <3>5. c = [y EXCEPT !.inode = i]
      BY <3>1, <3>2
    <3> HIDE DEF c
    <3> QED BY <3>3, <3>4, <3>5, <1>10 DEF CallRecords
  <2>2. call' = [call EXCEPT ![p] = c]
    BY <1>2, <1>9
  <2> HIDE DEF c
  <2>3. \A q \in Callers \ {p} : call[q].op = "none"
    BY <1>1, <1>4, OnlyFacts
  <2> QED BY <2>1, <2>2, <2>3, <1>2
<1>13. /\ OneCall' /\ \A t : ~InCreation(t)' /\ ~Fetching(t)'
       /\ \A j : Releasing(j)' <=> j = i
  <2>1. /\ OneCall'
        /\ \A t : InCreation(t)' <=> call'[p].op \in {"create", "created"} /\ call'[p].slot = t
        /\ \A j : Releasing(j)' <=> call'[p].op = "release" /\ call'[p].inode = j
        /\ \A j : Fetching(j)' <=> /\ call'[p].op \in {"open", "create", "created"}
                                   /\ call'[p].inode = j
    BY <1>12, OnlyNext
  <2> QED BY <2>1, <1>12
<1>14. /\ DescInv(table, fds)' /\ PosInv(table, fds)' /\ LostInv(table, fds)' /\ DeadInv'
       /\ table' \in [Slots -> SlotRecords] /\ fds' \in DescTables
  BY <1>1, <1>6, <1>9, <1>13, SlotsFrame
<1>15. /\ IsInjective(open) /\ Range(open) \subseteq Ids
  BY <1>1, InodeNow
<1>16. /\ open' \in Seq(Ids) /\ IsInjective(open') /\ Range(open') = Range(open) \cup {i}
  <2>1. /\ <<i>> \o open \in Seq(Ids) /\ IsInjective(<<i>> \o open)
        /\ Range(<<i>> \o open) = Range(open) \cup {i}
    BY <1>2, <1>10, <1>15, PushFacts
  <2> QED BY <2>1, <1>9
<1>17. SlotsOf(table', i) = {} /\ \A j : SlotsOf(table', j) = SlotsOf(table, j)
  <2>1. \A t \in Slots : table[t].inode # i
    BY <1>1, <1>6, <1>10, InodeNow
  <2> QED BY <2>1, <1>9 DEF SlotsOf
<1>18. InodeInv(table, inodes, open)'
  <2>1. ASSUME NEW j \in Range(open') PROVE inodes'[j].ino # None
    BY <1>1, <1>5, <1>11, <1>15, <1>16, InodeNow
  <2>2. ASSUME NEW j \in Range(open'), j # i
        PROVE  /\ SlotsOf(table', j) # {}
               /\ inodes'[j].cnt = Cardinality(SlotsOf(table', j))
               /\ \E e \in dir' : e[2] = inodes'[j].ino
    <3>1. j \in Range(open) /\ j \in Ids /\ inodes'[j] = inodes[j]
      BY <2>2, <1>11, <1>15, <1>16
    <3>2. /\ SlotsOf(table, j) # {}
          /\ inodes[j].cnt = Cardinality(SlotsOf(table, j))
          /\ \E e \in dir : e[2] = inodes[j].ino
      BY <3>1, <1>1, <1>6, InodeNow
    <3> QED BY <3>1, <3>2, <1>9, <1>17
  <2>3. ASSUME NEW j \in Range(open'), NEW k \in Range(open'), inodes'[j].ino = inodes'[k].ino
        PROVE  j = k
    <3>1. \A h \in Range(open) : inodes'[h] = inodes[h]
      BY <1>10, <1>11, <1>15
    <3>2. \A h \in Range(open), g \in Range(open) : inodes[h].ino = inodes[g].ino => h = g
      BY <1>1, InodeNow
    <3> QED BY <3>1, <3>2, <2>3, <1>7, <1>11, <1>16
  <2>4. \A j \in Ids \ Range(open') : inodes'[j].ino = None /\ inodes'[j].cnt = 0
    BY <1>1, <1>6, <1>11, <1>16, InodeNow
  <2>5. \A t \in Slots : table'[t].inode \in Ids => table'[t].inode \in Range(open')
    BY <1>1, <1>6, <1>9, <1>16, InodeNow
  <2>6. inodes'[i].cnt = 1 /\ SlotsOf(table', i) = {}
    BY <1>11, <1>17
  <2> QED BY <2>1, <2>2, <2>3, <2>4, <2>5, <2>6, <1>13, <1>16, InodeNext
<1>19. CallInv(table, inodes, open, fds)'
  <2>1. \A q \in Callers : call'[q].op # "none" => q = p
    BY <1>12
  <2> SUFFICES ASSUME NEW q \in Callers, q = p
               PROVE  /\ call'[q].op = "release" /\ call'[q].ino \in Inos
                      /\ \A s \in Slots : table'[s].inode \in Ids =>
                           inodes'[table'[s].inode].ino # call'[q].ino
                      /\ \A e \in dir' : e[2] # call'[q].ino
                      /\ call'[q].inode \in Range(open')
                      /\ inodes'[call'[q].inode].ino = call'[q].ino
    BY <2>1 DEF CallInv
  <2>2. ASSUME NEW s \in Slots, table'[s].inode \in Ids
        PROVE  inodes'[table'[s].inode].ino # ino
    <3>1. table'[s].inode = table[s].inode /\ table[s].inode # i
      BY <2>2, <1>1, <1>6, <1>9, <1>10, InodeNow
    <3>2. inodes'[table[s].inode] = inodes[table[s].inode]
      BY <2>2, <3>1, <1>11
    <3>3. inodes[table[s].inode].ino # ino
      BY <2>2, <3>1, <1>5
    <3> QED BY <3>1, <3>2, <3>3
  <2> QED BY <2>2, <1>5, <1>9, <1>11, <1>12, <1>16
<1>20. FilesInv(table, inodes, open, fds)'
  BY <1>11, <1>14, <1>16, <1>18, <1>19 DEF FilesInv, FileTypes
<1>21. TypeInv'
  BY <1>1, <1>9, <1>12 DEF TypeInv
<1>22. DirInv'
  <2>1. ASSUME NEW n \in imap
        PROVE  \/ \E e \in dir' : e[2] = n
               \/ \E q \in Callers : call'[q].op # "none" /\ call'[q].ino = n
    <3>1. \A q \in Callers : call[q].op # "none" => q = p
      BY <1>1, <1>4 DEF OneCall
    <3> QED BY <3>1, <1>1, <1>3, <1>9, <1>12 DEF DirInv
  <2> QED BY <2>1, <1>1, <1>9 DEF DirInv
<1> QED BY <1>13, <1>14, <1>20, <1>21, <1>22 DEF FileTableInv

LEMMA ReleaseEndInv ==
    ASSUME FileTableInv, NEW p \in Callers, ReleaseEnd(p)
    PROVE  FileTableInv'
<1>1. TypeInv /\ FilesInv(table, inodes, open, fds) /\ DeadInv /\ OneCall /\ DirInv
  BY DEF FileTableInv
<1>2. /\ inodes \in [Ids -> InodeRecords] /\ open \in Seq(Ids)
      /\ CallInv(table, inodes, open, fds)
  BY <1>1 DEF FilesInv, FileTypes
<1>3. PICK i, new : i = call[p].inode /\ new = InodeClose(Files, i)
  OBVIOUS
<1>4. /\ call[p].op = "release"
      /\ imap' = imap \ {call[p].ino}
      /\ table' = new.table /\ inodes' = new.inodes /\ open' = new.open /\ halt' = new.halt
      /\ call' = [call EXCEPT ![p] = Idle]
      /\ UNCHANGED <<fds, dir, state, lost>>
  BY <1>3 DEF ReleaseEnd, Ready, Becomes
<1>5. /\ i \in Range(open) /\ \A e \in dir : e[2] # call[p].ino
  BY <1>2, <1>3, <1>4 DEF CallInv
<1>6. /\ \A t : ~InCreation(t) /\ ~Fetching(t)
      /\ \A j : Releasing(j) <=> i = j
      /\ \A q \in Callers \ {p} : call[q].op = "none"
  BY <1>1, <1>3, <1>4, OnlyFacts
<1>7. /\ inodes[i].cnt = 1 /\ SlotsOf(table, i) = {} /\ i \in Ids
      /\ IsInjective(open) /\ Range(open) \subseteq Ids
  BY <1>1, <1>5, <1>6, InodeNow
<1> DEFINE in2 == [inodes EXCEPT ![i] = NoInode]
           short == RemoveFirst(open, i)
<1>8. /\ table' = table /\ inodes' = in2 /\ open' = short /\ halt' = "no"
  <2>1. /\ Files \in FileStates /\ Files.halt = "no" /\ Files.table = table
        /\ Files.inodes = inodes /\ Files.open = open
    BY FilesAreStates
  <2>2. PICK f \in FileStates : f = Files
    BY <2>1
  <2>3. new = [f EXCEPT !.inodes = in2, !.open = short]
    BY <2>1, <2>2, <1>3, <1>5, <1>7 DEF InodeClose
  <2> HIDE DEF in2, short
  <2>4. /\ new.table = f.table /\ new.inodes = in2 /\ new.open = short /\ new.halt = f.halt
    BY <2>3 DEF FileStates
  <2> QED BY <2>1, <2>2, <2>4, <1>4
<1>9. /\ inodes' \in [Ids -> InodeRecords] /\ inodes'[i].ino = None /\ inodes'[i].cnt = 0
      /\ \A j \in Ids \ {i} : inodes'[j] = inodes[j]
  BY <1>2, <1>7, <1>8, FreeRecords
<1>10. /\ open' \in Seq(Ids) /\ IsInjective(open') /\ Range(open') = Range(open) \ {i}
  <2>1. short \in Seq(Ids) /\ IsInjective(short) /\ Range(short) = Range(open) \ {i}
    BY <1>2, <1>5, <1>7, RemoveFacts
  <2> HIDE DEF short
  <2> QED BY <2>1, <1>8
<1>11. /\ call' \in [Callers -> CallRecords] /\ \A q \in Callers : call'[q].op = "none"
  BY <1>1, <1>4, <1>6, IdleFacts
<1>12. /\ OneCall' /\ CallInv(table, inodes, open, fds)'
       /\ \A t : ~InCreation(t)' /\ \A j : ~Releasing(j)' /\ ~Fetching(j)'
  BY <1>11, QuietNext
<1>13. /\ DescInv(table, fds)' /\ PosInv(table, fds)' /\ LostInv(table, fds)' /\ DeadInv'
       /\ table' \in [Slots -> SlotRecords] /\ fds' \in DescTables
  BY <1>1, <1>4, <1>6, <1>8, <1>12, SlotsFrame
<1>14. InodeInv(table, inodes, open)'
  <2>1. ASSUME NEW j \in Range(open')
        PROVE  /\ inodes'[j].ino # None /\ SlotsOf(table', j) # {}
               /\ inodes'[j].cnt = Cardinality(SlotsOf(table', j))
               /\ \E e \in dir' : e[2] = inodes'[j].ino
    <3>1. j \in Range(open) /\ j # i /\ inodes'[j] = inodes[j] /\ table' = table /\ dir' = dir
      BY <1>4, <1>7, <1>8, <1>9, <1>10
    <3>2. /\ inodes[j].ino # None /\ SlotsOf(table, j) # {}
          /\ inodes[j].cnt = Cardinality(SlotsOf(table, j))
          /\ \E e \in dir : e[2] = inodes[j].ino
      BY <3>1, <1>1, <1>6, InodeNow
    <3> QED BY <3>1, <3>2
  <2>2. ASSUME NEW j \in Range(open'), NEW k \in Range(open'), inodes'[j].ino = inodes'[k].ino
        PROVE  j = k
    <3>1. \A h \in Range(open') : inodes'[h] = inodes[h] /\ h \in Range(open)
      BY <1>7, <1>9, <1>10
    <3>2. \A h \in Range(open), g \in Range(open) : inodes[h].ino = inodes[g].ino => h = g
      BY <1>1, InodeNow
    <3> QED BY <3>1, <3>2, <2>2
  <2>3. \A j \in Ids \ Range(open') : inodes'[j].ino = None /\ inodes'[j].cnt = 0
    BY <1>1, <1>6, <1>9, <1>10, InodeNow
  <2>4. ASSUME NEW t \in Slots, table'[t].inode \in Ids PROVE table'[t].inode \in Range(open')
    <3>1. table[t].inode # i
      BY <1>7 DEF SlotsOf
    <3>2. table'[t] = table[t]
      BY <1>8
    <3> QED BY <2>4, <3>1, <3>2, <1>1, <1>6, <1>10, InodeNow
  <2> QED BY <2>1, <2>2, <2>3, <2>4, <1>10, <1>12, InodeNext
<1>15. FilesInv(table, inodes, open, fds)'
  BY <1>9, <1>10, <1>12, <1>13, <1>14 DEF FilesInv, FileTypes
<1>16. TypeInv'
  BY <1>1, <1>4, <1>8, <1>11 DEF TypeInv
<1>17. DirInv'
  <2>1. ASSUME NEW n \in imap' PROVE \E e \in dir' : e[2] = n
    <3>1. \A q \in Callers : call[q].op # "none" => q = p
      BY <1>1, <1>4 DEF OneCall
    <3>2. n \in imap /\ n # call[p].ino
      BY <1>4
    <3> QED BY <3>1, <3>2, <1>1, <1>4 DEF DirInv
  <2>2. \A e \in dir' : e[2] \in imap'
    BY <1>1, <1>4, <1>5 DEF DirInv
  <2> QED BY <2>1, <2>2, <1>1, <1>4 DEF DirInv
<1> QED BY <1>12, <1>13, <1>15, <1>16, <1>17 DEF FileTableInv

-----------------------------------------------------------------------------
\* The behaviours

LEMMA InitInv ==
    ASSUME Init PROVE FileTableInv
<1>1. /\ table = [s \in Slots |-> FreeSlot] /\ inodes = [i \in Ids |-> NoInode]
      /\ fds = [p \in Callers |-> [f \in Fds |-> None]]
      /\ open = << >> /\ dir = {} /\ imap = {} /\ call = [p \in Callers |-> Idle]
      /\ lost = [slots |-> 0, fds |-> 0, boot |-> 0] /\ halt = "no"
  BY DEF Init
<1>2. state \in [Callers -> BOOLEAN]
  BY DEF Init
<1>3. TypeInv
  <2>1. Idle \in CallRecords
    BY DEF Idle, CallRecords
  <2> QED BY <2>1, <1>1, <1>2 DEF TypeInv
<1>4. \A p \in Callers : call[p].op = "none"
  BY <1>1 DEF Idle
<1>5. /\ \A s : ~InCreation(s) /\ \A i : ~Releasing(i) /\ ~Fetching(i)
      /\ OneCall /\ CallInv(table, inodes, open, fds)
  BY <1>4 DEF InCreation, Releasing, Fetching, OneCall, CallInv
<1>6. \A s \in Slots : table[s] = FreeSlot /\ table[s].inode = None /\ ~table[s].pipe
  BY <1>1 DEF FreeSlot
<1>7. \A p \in Callers, f \in Fds : fds[p][f] = None
  BY <1>1
<1>8. FileTypes(table, inodes, open, fds)
  <2>1. FreeSlot \in SlotRecords /\ NoInode \in InodeRecords
    BY DEF FreeSlot, NoInode, SlotRecords, InodeRecords
  <2> QED BY <2>1, <1>1 DEF FileTypes, DescTables
<1>9. DescInv(table, fds) /\ PosInv(table, fds)
  BY <1>6, <1>7, NoneFacts DEF DescInv, PosInv, Callers
<1>10. LostInv(table, fds)
  <2>1. Orphans(table, fds) = {}
    BY <1>6, NoneFacts DEF Orphans
  <2> QED BY <2>1, <1>1, FS_EmptySet DEF LostInv
<1>11. InodeInv(table, inodes, open)
  <2>1. Range(open) = {} /\ IsInjective(open)
    BY <1>1 DEF Range, IsInjective
  <2>2. \A i \in Ids : inodes[i].ino = None /\ inodes[i].cnt = 0
    BY <1>1 DEF NoInode
  <2> QED BY <2>1, <2>2, <1>6, NoneFacts DEF InodeInv
<1>12. DirInv /\ DeadInv
  BY <1>1, <1>7 DEF DirInv, DeadInv
<1> QED BY <1>3, <1>5, <1>8, <1>9, <1>10, <1>11, <1>12 DEF FileTableInv, FilesInv

LEMMA StutterInv ==
    ASSUME FileTableInv, UNCHANGED vars PROVE FileTableInv'
<1>1. /\ table' = table /\ fds' = fds /\ inodes' = inodes /\ open' = open /\ dir' = dir
      /\ imap' = imap /\ call' = call /\ state' = state /\ lost' = lost /\ halt' = halt
  BY DEF vars
<1>2. TypeInv' /\ OneCall' /\ DeadInv' /\ DirInv'
  BY <1>1 DEF FileTableInv, TypeInv, OneCall, DeadInv, DirInv
<1>3. FilesInv(table, inodes, open, fds)'
  BY <1>1 DEF FileTableInv, FilesInv, FileTypes, DescInv, PosInv, LostInv, InodeInv,
              CallInv, Descs, SlotsOf, Orphans, Releasing, Fetching, InCreation
<1> QED BY <1>2, <1>3 DEF FileTableInv

LEMMA NextInv ==
    ASSUME ~Overlap, ~ShareFiles, FileTableInv, [Next]_vars
    PROVE  FileTableInv' \/ halt' = "wild"
<1>1. CASE UNCHANGED vars \/ Spin
  BY <1>1, StutterInv DEF Spin
<1>2. CASE \E p \in Callers : \/ OpenEnd(p) \/ CreateEntry(p) \/ CreateEnd(p)
                              \/ UnlinkEntry(p) \/ ReleaseOpen(p) \/ ReleaseEnd(p)
  BY <1>2, OpenEndInv, CreateEntryInv, CreateEndInv, UnlinkEntryInv, ReleaseOpenInv,
     ReleaseEndInv, Zenon
<1>3. CASE \E p \in Callers, n \in Names : CreateBegin(p, n)
  BY <1>3, CreateBeginInv, Zenon
<1>4. CASE \E p \in Callers, e \in dir : Unlink(p, e)
  BY <1>4, UnlinkInv, Zenon
<1>5. CASE \E p \in Callers, e \in dir, w \in BOOLEAN : OpenCached(p, e, w) \/ OpenRead(p, e, w)
  BY <1>5, OpenCachedInv, OpenReadInv, Zenon
<1>6. CASE \E p \in Callers, f \in Fds : SysClose(p, f)
  BY <1>6, SysCloseInv, Zenon
<1>7. CASE BootExit
  BY <1>7, BootExitInv
<1>8. CASE \E p \in Procs : SysExit(p) \/ SysPipe(p) \/ SysPipeFull(p)
  <2>1. ASSUME NEW p \in Procs, SysPipeFull(p) PROVE halt' = "wild"
    BY <2>1 DEF SysPipeFull
  <2> QED BY <1>8, <2>1, SysExitInv, SysPipeInv, Zenon
<1>9. CASE \E p, c \in Procs : SysFork(p, c)
  BY <1>9, SysForkInv, Zenon
<1> QED BY <1>1, <1>2, <1>3, <1>4, <1>5, <1>6, <1>7, <1>8, <1>9 DEF Next

\* A machine that stopped makes no further step.
LEMMA StoppedStays ==
    ASSUME halt # "no", [Next]_vars
    PROVE  halt' = halt
<1>1. CASE UNCHANGED vars
  BY <1>1 DEF vars
<1>2. CASE Next
  <2>1. \A p \in Callers : \A op : ~Ready(p, op)
    BY DEF Ready
  <2>2. \A p \in Callers : ~Starts(p)
    BY <2>1 DEF Starts
  <2>3. Boot \in Callers /\ Procs \subseteq Callers
    BY DEF Callers
  <2>4. CASE Spin
    BY <2>4 DEF Spin, vars
  <2>5. CASE \E p \in Callers : \/ OpenEnd(p) \/ CreateEntry(p) \/ CreateEnd(p)
                                \/ UnlinkEntry(p) \/ ReleaseOpen(p) \/ ReleaseEnd(p)
    BY <2>1, <2>5, Zenon DEF OpenEnd, CreateEntry, CreateEnd, UnlinkEntry, ReleaseOpen, ReleaseEnd
  <2>6. CASE \E p \in Callers, n \in Names : CreateBegin(p, n)
    BY <2>2, <2>6, Zenon DEF CreateBegin
  <2>7. CASE \E p \in Callers, e \in dir : Unlink(p, e)
    BY <2>2, <2>7, Zenon DEF Unlink
  <2>8. CASE \E p \in Callers, e \in dir, w \in BOOLEAN : OpenCached(p, e, w) \/ OpenRead(p, e, w)
    BY <2>2, <2>8, Zenon DEF OpenCached, OpenRead
  <2>9. CASE \E p \in Callers, f \in Fds : SysClose(p, f)
    BY <2>1, <2>9, Zenon DEF SysClose
  <2>10. CASE BootExit
    BY <2>1, <2>3, <2>10, Zenon DEF BootExit
  <2>11. CASE \E p \in Procs : SysExit(p) \/ SysPipe(p) \/ SysPipeFull(p)
    <3>1. PICK p \in Procs : SysExit(p) \/ SysPipe(p) \/ SysPipeFull(p)
      BY <2>11
    <3>2. ~Ready(p, "none") /\ ~Starts(p)
      BY <2>1, <2>2, <2>3
    <3> QED BY <3>1, <3>2, Zenon DEF SysExit, SysPipe, SysPipeFull
  <2>12. CASE \E p, c \in Procs : SysFork(p, c)
    <3>1. PICK p \in Procs, c \in Procs : SysFork(p, c)
      BY <2>12
    <3>2. ~Ready(p, "none")
      BY <2>1, <2>3
    <3> QED BY <3>1, <3>2, Zenon DEF SysFork
  <2> QED BY <1>2, <2>4, <2>5, <2>6, <2>7, <2>8, <2>9, <2>10, <2>11, <2>12 DEF Next
<1> QED BY <1>1, <1>2

\* The tables agree with each other and with the directory after every step of
\* open, create, close, unlink, pipe, fork and exit, up to a sys_pipe that finds
\* file_table full.
FilesOrWild == FileTableInv \/ halt = "wild"

LEMMA FileTableInvariant ==
    ASSUME ~Overlap, ~ShareFiles PROVE Spec => []FilesOrWild
<1>1. Init => FilesOrWild
  BY InitInv DEF FilesOrWild
<1>2. FilesOrWild /\ [Next]_vars => FilesOrWild'
  <2> SUFFICES ASSUME FilesOrWild, [Next]_vars PROVE FilesOrWild'
    OBVIOUS
  <2>1. CASE FileTableInv
    BY <2>1, NextInv DEF FilesOrWild
  <2>2. CASE halt = "wild"
    <3>1. halt' = halt
      BY <2>2, StoppedStays
    <3> QED BY <2>2, <3>1 DEF FilesOrWild
  <2> QED BY <2>1, <2>2 DEF FilesOrWild
<1> QED BY <1>1, <1>2, PTL DEF Spec

-----------------------------------------------------------------------------
\* What follows from the invariant

LEMMA NamedFacts ==
    ASSUME FileTableInv, NEW s \in Slots
    PROVE  Named(s) = Descs(fds, s)
<1>1. DeadInv /\ None \notin Slots
  BY NoneFacts DEF FileTableInv
<1>2. ASSUME NEW x \in Named(s) PROVE x \in Descs(fds, s)
  <2>1. PICK p \in Callers : x \in {p} \X Refs(p, s)
    BY DEF Named
  <2>2. PICK f \in Fds : x = <<p, f>> /\ fds[p][f] = s
    BY <2>1 DEF Refs
  <2> QED BY <2>2, DescsMember
<1>3. ASSUME NEW x \in Descs(fds, s) PROVE x \in Named(s)
  <2>1. PICK p \in Callers, f \in Fds : x = <<p, f>> /\ fds[p][f] = s
    BY DEF Descs
  <2>2. state[p]
    BY <1>1, <2>1 DEF DeadInv
  <2>3. x \in {p} \X Refs(p, s)
    BY <2>1 DEF Refs
  <2> QED BY <2>2, <2>3 DEF Named
<1> QED BY <1>2, <1>3

LEMMA InvDescriptors == FileTableInv => DescriptorsExact
<1> SUFFICES ASSUME FileTableInv PROVE DescriptorsExact
  OBVIOUS
<1>1. /\ DescInv(table, fds) /\ PosInv(table, fds) /\ LostInv(table, fds)
  BY DEF FileTableInv, FilesInv
<1>2. ASSUME NEW s \in Slots, table[s].inode = None PROVE Named(s) = {}
  <2>1. Descs(fds, s) = {}
    BY <1>1, <1>2, DescsEmpty DEF DescInv
  <2> QED BY <2>1, NamedFacts
<1>3. ASSUME NEW s \in Slots, IsFile(s) PROVE Cardinality(Named(s)) <= 1
  <2>1. Named(s) = Descs(fds, s)
    BY NamedFacts
  <2>2. CASE Descs(fds, s) = {}
    BY <2>1, <2>2, FS_EmptySet
  <2>3. CASE Descs(fds, s) # {}
    <3>1. PICK p \in Callers, f \in Fds : fds[p][f] = s
      BY <2>3, DescsEmpty
    <3>2. Descs(fds, s) = {<<p, f>>}
      <4>1. <<p, f>> \in Descs(fds, s)
        BY <3>1, DescsMember
      <4>2. ASSUME NEW x \in Descs(fds, s) PROVE x = <<p, f>>
        <5>1. PICK q \in Callers, g \in Fds : x = <<q, g>> /\ fds[q][g] = s
          BY DEF Descs
        <5>2. q = p /\ g = f
          BY <5>1, <3>1, <1>1, <1>3 DEF DescInv, IsFile
        <5> QED BY <5>1, <5>2
      <4> QED BY <4>1, <4>2
    <3>3. Cardinality(Descs(fds, s)) = 1
      BY <3>2, FS_Singleton
    <3> QED BY <2>1, <3>3
  <2> QED BY <2>2, <2>3
<1>4. Cardinality({s \in Slots : IsFile(s) /\ Named(s) = {} /\ ~InCreation(s)})
        = lost.slots + lost.boot
  <2>1. {s \in Slots : IsFile(s) /\ Named(s) = {} /\ ~InCreation(s)} = Orphans(table, fds)
    BY NamedFacts DEF Orphans, IsFile
  <2> QED BY <2>1, <1>1 DEF LostInv
<1>5. ASSUME NEW s \in Slots, IsPipe(s)
      PROVE  /\ Cardinality(Named(s)) <= table[s].pos
             /\ lost.fds = 0 => Cardinality(Named(s)) = table[s].pos
  BY <1>1, <1>5, NamedFacts DEF PosInv, IsPipe
<1> QED BY <1>2, <1>3, <1>4, <1>5 DEF DescriptorsExact

LEMMA InvCounts == FileTableInv => CountsExact
<1> SUFFICES ASSUME FileTableInv PROVE CountsExact
  OBVIOUS
<1>1. /\ FilesInv(table, inodes, open, fds) /\ OneCall
      /\ CallInv(table, inodes, open, fds)
  BY DEF FileTableInv, FilesInv
<1>2. ASSUME NEW s \in Slots, IsFile(s) PROVE inodes[table[s].inode].ino # None
  <2>1. CASE table[s].inode \in Range(open)
    BY <2>1, <1>1, InodeNow
  <2>2. CASE table[s].inode \notin Range(open)
    <3>1. InCreation(s)
      BY <2>2, <1>1, <1>2, InodeNow DEF IsFile
    <3>2. PICK p \in Callers : call[p].op \in {"create", "created"} /\ call[p].slot = s
      BY <3>1 DEF InCreation
    <3>3. /\ SlotsOf(table, call[p].inode) = {s} /\ call[p].ino \in imap
          /\ inodes[call[p].inode].ino = call[p].ino
      BY <3>2, <1>1 DEF CallInv
    <3>4. table[s].inode = call[p].inode /\ call[p].ino # None
      BY <3>3, NoneFacts DEF SlotsOf, FileTableInv, TypeInv
    <3> QED BY <3>3, <3>4
  <2> QED BY <2>1, <2>2
<1>3. ASSUME NEW i \in Range(open)
      PROVE  inodes[i].cnt = Cardinality({s \in Slots : table[s].inode = i})
               + Cardinality({p \in Callers : call[p].op = "release" /\ call[p].inode = i})
  <2> DEFINE A == {s \in Slots : table[s].inode = i}
             B == {p \in Callers : call[p].op = "release" /\ call[p].inode = i}
  <2>1. A = SlotsOf(table, i)
    BY DEF SlotsOf
  <2>2. CASE Releasing(i)
    <3>1. PICK p \in Callers : call[p].op = "release" /\ call[p].inode = i
      BY <2>2 DEF Releasing
    <3>2. B = {p}
      BY <3>1, <1>1 DEF OneCall
    <3>3. inodes[i].cnt = 1 /\ A = {}
      BY <2>1, <2>2, <1>1, InodeNow
    <3> HIDE DEF A, B
    <3>4. Cardinality(A) = 0 /\ Cardinality(B) = 1
      BY <3>2, <3>3, FS_EmptySet, FS_Singleton
    <3> QED BY <3>3, <3>4 DEF A, B
  <2>3. CASE ~Releasing(i)
    <3>1. B = {}
      BY <2>3 DEF Releasing
    <3>2. inodes[i].cnt = Cardinality(A)
      BY <2>1, <2>3, <1>1, InodeNow
    <3>3. Cardinality(A) \in Nat
      BY SlotSetFinite
    <3> HIDE DEF A, B
    <3>4. Cardinality(B) = 0
      BY <3>1, FS_EmptySet
    <3> QED BY <3>2, <3>3, <3>4 DEF A, B
  <2> QED BY <2>2, <2>3
<1>4. ASSUME NEW i \in Ids \ Range(open), inodes[i].ino # None
      PROVE  \E p \in Callers : call[p].op # "none" /\ call[p].inode = i
  <2>1. Fetching(i)
    BY <1>1, <1>4, InodeNow
  <2> QED BY <2>1 DEF Fetching
<1>5. /\ IsInjective(open) /\ \A i \in Range(open) : inodes[i].ino # None
      /\ \A i, j \in Range(open) : inodes[i].ino = inodes[j].ino => i = j
  BY <1>1, InodeNow
<1> QED BY <1>2, <1>3, <1>4, <1>5 DEF CountsExact

LEMMA InvKept == FileTableInv => OpenFileKept
<1> SUFFICES ASSUME FileTableInv, NEW s \in Slots, IsFile(s), ~InCreation(s)
             PROVE  /\ inodes[table[s].inode].ino \in imap
                    /\ \E e \in dir : e[2] = inodes[table[s].inode].ino
  BY DEF OpenFileKept
<1>1. FilesInv(table, inodes, open, fds) /\ DirInv
  BY DEF FileTableInv
<1>2. PICK i \in Range(open) : i = table[s].inode
  BY <1>1, InodeNow DEF IsFile
<1>3. ~Releasing(i)
  <2>1. s \in SlotsOf(table, i)
    BY <1>2 DEF SlotsOf
  <2> QED BY <2>1, <1>1, InodeNow
<1>4. PICK e \in dir : e[2] = inodes[i].ino
  BY <1>1, <1>3, InodeNow
<1> QED BY <1>1, <1>2, <1>4 DEF DirInv

\* file_close and update_inode_open_cnts never go through an empty slot, and
\* inode_close never unlinks an inode from a list it is not on.
THEOREM FilesNeverFault ==
    ASSUME ~Overlap, ~ShareFiles PROVE Spec => []NoFault
<1>1. FilesOrWild => NoFault
  BY DEF FilesOrWild, FileTableInv, TypeInv, NoFault
<1> QED BY <1>1, FileTableInvariant, PTL

\* pcb_fd_install, sys_close, fork and exit keep the descriptors and file_table
\* together: no slot is named after it is freed, and what leaks is what lost counts.
THEOREM DescriptorsAreExact ==
    ASSUME ~Overlap, ~ShareFiles PROVE Spec => []DescriptorsExact
<1>1. FilesOrWild => DescriptorsExact
  BY InvDescriptors DEF FilesOrWild, DescriptorsExact
<1> QED BY <1>1, FileTableInvariant, PTL

\* inode_open and inode_close keep one inode in memory for a file, with a count
\* of the slots that have it, and free it no earlier than the last close.
THEOREM CountsAreExact ==
    ASSUME ~Overlap, ~ShareFiles PROVE Spec => []CountsExact
<1>1. FilesOrWild => CountsExact
  BY InvCounts DEF FilesOrWild, CountsExact
<1> QED BY <1>1, FileTableInvariant, PTL

\* sys_unlink takes no name and inode_release no number from a file that is open.
THEOREM OpenFilesAreKept ==
    ASSUME ~Overlap, ~ShareFiles PROVE Spec => []OpenFileKept
<1>1. FilesOrWild => OpenFileKept
  BY InvKept DEF FilesOrWild, OpenFileKept
<1> QED BY <1>1, FileTableInvariant, PTL
=============================================================================
