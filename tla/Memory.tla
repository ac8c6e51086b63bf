------------------------------- MODULE Memory --------------------------------
(***************************************************************************)
(* Physical and virtual pages, page tables and the heaps of the kernel and *)
(* of the processes (kernel/memory.c, lib/kernel/bitmap.c), with the calls *)
(* that live on them: process_execute, fork, exec and exit.                *)
(*                                                                         *)
(* Processes allocate in system calls, with interrupts off, so a call is   *)
(* one step.  The boot thread runs with interrupts on: while it boots, it  *)
(* can be preempted between palloc's bitmap_scan and its bitmap_set, with  *)
(* the kernel pool's lock held.                                            *)
(*                                                                         *)
(* A page is its index in a pool or an address space; an address inside a  *)
(* page is kept only as the number of the block there.                     *)
(***************************************************************************)
EXTENDS Integers, Sequences, SequencesExt, FiniteSets

CONSTANTS
    Procs,        \* processes
    First,        \* the process that thread_init creates: init
    Kernel,       \* the kernel as the owner of a heap
    FreePages,    \* free_pages of mem_pool_init
    ByteBits,     \* bits of a byte, 8
    PgSize,       \* PG_SIZE
    ArenaSize,    \* sizeof(struct arena)
    MinBlock,     \* block_size of the first descriptor, 16
    DescCnt,      \* DESC_CNT
    BitmapBytes,  \* btmp_bytes_len of a process's address bitmap
    UserVPages,   \* its bits: pages of a process's address space
    TablePages,   \* pages one page table maps, 1024
    PageLimit,    \* malloc_page's bound on its page_count, 3840
    Text,         \* the pages execv loads a program into
    Sizes,        \* sizes asked of malloc
    MaxMallocs,   \* bound: calls of malloc
    MaxForks,     \* bound: calls of fork
    CarryHeap     \* programs free or keep, after fork or exec, what they held before

VARIABLES
    mem,   \* bits: set bits of the three low-memory bitmaps; kmap: page table
           \* of the kernel; halt: why the machine stopped
    proc,  \* each process's PCB, address bitmap and page tables
    heap,  \* arenas, free lists and the blocks held, of each owner
    scan,  \* frame the boot thread's bitmap_scan returned, not marked yet
    boot,  \* the kernel page it got, or None
    count  \* calls of malloc, forks, forks that failed, exits

vars == <<mem, proc, heap, scan, boot, count>>

None == -1

-----------------------------------------------------------------------------
\* mem_pool_init.  The kernel's bitmap, the user's and the one of the
\* kernel's addresses follow each other in memory.
KernelPages == FreePages \div 2
UserPages == FreePages - KernelPages
UserBase == (KernelPages \div ByteBits) * ByteBits
VaddrBase == UserBase + (UserPages \div ByteBits) * ByteBits

\* 32 MB make 3840 pages in each pool: whole bytes.
ASSUME PoolsAssumption ==
    /\ FreePages \in Nat /\ ByteBits \in Nat \ {0}
    /\ KernelPages % ByteBits = 0
    /\ UserPages % ByteBits = 0

ASSUME ArenaAssumption ==
    /\ PgSize \in Nat \ {0}
    /\ ArenaSize \in 1 .. PgSize - 1
    /\ BitmapBytes \in Nat
    /\ BitmapBytes >= PgSize

ASSUME ProcsAssumption ==
    /\ IsFiniteSet(Procs) /\ First \in Procs /\ Kernel \notin Procs
    /\ UserVPages \in Nat \ {0} /\ TablePages \in Nat \ {0}
    /\ Text \subseteq 0 .. UserVPages - 1

Owners == Procs \cup {Kernel}

\* addr_v2p of a page that is not mapped.
Unmapped == [v \in 0 .. UserVPages - 1 |-> None]

StackPage == UserVPages - 1

\* block_desc_init: descriptors 1 .. DescCnt, sizes doubling.
BlockSize(d) == MinBlock * 2^(d - 1)
BlocksPerArena(d) == (PgSize - ArenaSize) \div BlockSize(d)
MaxBlock == BlockSize(DescCnt)

\* The largest block, of 1024 bytes, fits behind the header of an arena.
ASSUME BlocksAssumption ==
    /\ DescCnt \in Nat \ {0}
    /\ \A d \in 1 .. DescCnt : BlockSize(d) \in Nat /\ BlocksPerArena(d) \in Nat \ {0}
    /\ Sizes \subseteq Nat

\* The pages of a process's address bitmap, as process_execute and fork take them
\* and as release_prog_resource gives them back.
CeilPages == (BitmapBytes + PgSize - 1) \div PgSize
FloorPages == BitmapBytes \div PgSize

\* 24 pages of 3840, so that malloc_page's ASSERT on its page_count can only fail
\* for a request of sys_malloc.
ASSUME LimitAssumption ==
    PageLimit \in Nat /\ PageLimit > 1 /\ PageLimit > CeilPages

\* arena: the pages that begin an arena, with its header; an old one is from
\* before the process was forked.
EmptyHeap == [arena |-> << >>,
              free |-> [d \in 1 .. DescCnt |-> << >>],
              held |-> {}]

NoProcess == [state |-> "none", pcb |-> None, vbm |-> None, pgdir |-> None,
              vbits |-> {}, map |-> Unmapped, tables |-> << >>]

Init ==
    /\ mem = [bits |-> {}, kmap |-> [v \in 0 .. KernelPages |-> None],
              halt |-> "no"]
    /\ proc = [p \in Procs |-> NoProcess]
    /\ heap = [x \in Owners |-> EmptyHeap]
    /\ scan = None
    /\ boot = None
    /\ count = [mallocs |-> 0, forks |-> 0, failed |-> 0, exits |-> 0]

Running == mem.halt = "no"

\* A kernel allocation waits for the boot thread to release the pool's lock.
KernelLockFree == scan = None

-----------------------------------------------------------------------------
\* lib/kernel/bitmap.c
Clear(bits, base, len) == {i \in 0 .. len - 1 : base + i \notin bits}

Least(S) == CHOOSE x \in S : \A y \in S : x <= y

\* The n least members of S, in order: what n calls of palloc return.
Lowest(S, n) ==
    [k \in 1 .. n |-> CHOOSE x \in S : Cardinality({y \in S : y < x}) = k - 1]

\* bitmap_scan on a map with a clear bit: the loop over bit_left tests the bits
\* up to the one behind the last.
BitmapScan(bits, base, len, n) ==
    LET first == Least(Clear(bits, base, len))
        ends == {e \in first + 1 .. len :
                    /\ e - n + 1 >= first
                    /\ \A i \in e - n + 1 .. e : base + i \notin bits}
    IN  IF n = 1 THEN first
        ELSE IF ends = {} THEN None ELSE Least(ends) - n + 1

FreeFrames(m) == Clear(m.bits, 0, KernelPages)
FreeUserFrames(m) ==
    {KernelPages + i : i \in Clear(m.bits, UserBase, UserPages)}

\* The bit of a frame, as palloc and free_a_phy_page find it.
FrameBit(f) == IF f >= KernelPages THEN UserBase + f - KernelPages ELSE f

\* pfree compares with > where free_a_phy_page has >=: the first user frame
\* is looked up in the kernel's bitmap, one bit behind its end.
PfreeBit(f) == IF f > KernelPages THEN UserBase + f - KernelPages ELSE f

Halt(m, why) == [m EXCEPT !.halt = why]

-----------------------------------------------------------------------------
\* The n lowest free frames, in the page table of the kernel from page at on.
MapKernel(m, at, n) ==
    LET pages == at .. at + n - 1
        frames == Lowest(FreeFrames(m), n)
    IN  [m EXCEPT !.bits = m.bits \cup {VaddrBase + v : v \in pages}
                                  \cup {frames[k] : k \in 1 .. n},
                  !.kmap = [v \in DOMAIN m.kmap |->
                      IF v \in pages THEN frames[v - at + 1] ELSE m.kmap[v]]]

\* malloc_page(PF_KERNEL, n): the machine and the first page, or None.  A full
\* bitmap ends in bitmap_scan's ASSERT.
MallocKernel(m, n) ==
    LET at == BitmapScan(m.bits, VaddrBase, KernelPages, n)
    IN  IF m.halt # "no" THEN [m |-> m, at |-> None]
        ELSE IF Clear(m.bits, VaddrBase, KernelPages) = {}
        THEN [m |-> Halt(m, "full"), at |-> None]
        ELSE IF at = None THEN [m |-> m, at |-> None]
        ELSE IF Cardinality(FreeFrames(m)) < n
        THEN [m |-> Halt(m, "full"), at |-> None]
        ELSE IF \E v \in at .. at + n - 1 : m.kmap[v] # None
        THEN [m |-> Halt(m, "pte repeat"), at |-> None]
        ELSE [m |-> MapKernel(m, at, n), at |-> at]

\* The page tables that the pages S of process record q still need.
NewTables(q, S) == {v \div TablePages : v \in S} \ DOMAIN q.tables

\* The members of T take the n-th of frames as n-th member of T.
Rank(T, v) == Cardinality({u \in T : u <= v})

\* The pages S of q and their new tables, with the lowest free frames.
FillTables(m, q, S) ==
    LET new == NewTables(q, S)
        frames == Lowest(FreeUserFrames(m), Cardinality(S))
        tframes == Lowest(FreeFrames(m), Cardinality(new))
    IN  [m |-> [m EXCEPT !.bits = m.bits \cup {FrameBit(frames[k]) : k \in DOMAIN frames}
                                         \cup {tframes[k] : k \in DOMAIN tframes}],
         q |-> [q EXCEPT
                   !.map = [v \in DOMAIN q.map |->
                       IF v \in S THEN frames[Rank(S, v)] ELSE q.map[v]],
                   !.tables = [t \in DOMAIN q.tables \cup new |->
                       IF t \in new THEN tframes[Rank(new, t)] ELSE q.tables[t]]]]

\* page_table_add for each page of S of process record q, with a new frame of
\* the user pool for each, and a frame of the kernel pool for a missing table.
MapUser(m, q, S) ==
    IF m.halt # "no" THEN [m |-> m, q |-> q]
    ELSE IF \/ Cardinality(FreeUserFrames(m)) < Cardinality(S)
            \/ Cardinality(FreeFrames(m)) < Cardinality(NewTables(q, S))
    THEN [m |-> Halt(m, "full"), q |-> q]
    ELSE IF \E v \in S : q.map[v] # None
    THEN [m |-> Halt(m, "pte repeat"), q |-> q]
    ELSE FillTables(m, q, S)

\* malloc_page(PF_USER, n) of process record q.
MallocUser(m, q, n) ==
    IF Clear(q.vbits, 0, UserVPages) = {}
    THEN [m |-> Halt(m, "full"), q |-> q, at |-> None]
    ELSE LET at == BitmapScan(q.vbits, 0, UserVPages, n)
             pages == at .. at + n - 1
             r == MapUser(m, [q EXCEPT !.vbits = @ \cup pages], pages)
         IN  IF at = None THEN [m |-> m, q |-> q, at |-> None]
             ELSE IF at >= StackPage \/ at + n > UserVPages
             THEN [m |-> Halt(m, "above the stack"), q |-> q, at |-> None]
             ELSE [m |-> r.m, q |-> r.q, at |-> at]

\* malloc_page for owner x, with its ASSERT on page_count.
MallocPage(x, n) ==
    IF n >= PageLimit THEN [m |-> Halt(mem, "page count"), ps |-> proc, at |-> None]
    ELSE IF x = Kernel
    THEN LET r == MallocKernel(mem, n) IN [m |-> r.m, ps |-> proc, at |-> r.at]
    ELSE LET r == MallocUser(mem, proc[x], n)
         IN  [m |-> r.m, ps |-> [proc EXCEPT ![x] = r.q], at |-> r.at]

\* mfree_page(PF_KERNEL, at, n), with its ASSERTs on the frames.
MfreeKernel(m, at, n) ==
    LET pages == at .. at + n - 1
    IN  IF m.halt # "no" THEN m
        ELSE IF n < 1 \/ \E v \in pages : m.kmap[v] \notin 0 .. KernelPages - 1
        THEN Halt(m, "not a kernel page")
        ELSE [m EXCEPT !.bits = @ \ ({PfreeBit(m.kmap[v]) : v \in pages}
                                        \cup {VaddrBase + v : v \in pages}),
                       !.kmap = [v \in DOMAIN @ |-> IF v \in pages THEN None ELSE @[v]]]

\* mfree_page(PF_USER, at, n) of process record q.
MfreeUser(m, q, at, n) ==
    LET pages == at .. at + n - 1
    IN  IF n < 1 \/ \E v \in pages : q.map[v] < KernelPages
        THEN [m |-> Halt(m, "not a user page"), q |-> q]
        ELSE [m |-> [m EXCEPT !.bits = @ \ {PfreeBit(q.map[v]) : v \in pages}],
              q |-> [q EXCEPT !.map = [v \in DOMAIN @ |->
                                          IF v \in pages THEN None ELSE @[v]],
                              !.vbits = @ \ pages]]

MfreePage(x, at, n) ==
    IF x = Kernel THEN [m |-> MfreeKernel(mem, at, n), ps |-> proc]
    ELSE LET r == MfreeUser(mem, proc[x], at, n)
         IN  [m |-> r.m, ps |-> [proc EXCEPT ![x] = r.q]]

-----------------------------------------------------------------------------
\* sys_malloc by owner x: a process, or the kernel (a thread without a page
\* directory, or inode_open, which hides it).  A block is the page of its
\* arena and its number there; block 0 of a large arena is all of it.
AddArena(arena, at, a) ==
    [v \in DOMAIN arena \cup {at} |-> IF v = at THEN a ELSE arena[v]]

Without(arena, S) == Restrict(arena, DOMAIN arena \ S)

AddLarge(h, x, at, n) ==
    [h EXCEPT !.arena = AddArena(h.arena, at, [large |-> TRUE, desc |-> 0, owner |-> x,
                                               cnt |-> n, old |-> FALSE]),
              !.held = h.held \cup {<<at, 0>>}]

\* The pages of a large request and its header.
PagesFor(size) == (size + ArenaSize + PgSize - 1) \div PgSize

\* pool_size of x's pool: a request of as much or more, or of nothing, gets NULL.
PoolSize(x) == PgSize * (IF x = Kernel THEN KernelPages ELSE UserPages)
Admissible(x, size) == size > 0 /\ size < PoolSize(x)

MallocRefused(x, size) == ~Admissible(x, size) /\ UNCHANGED <<mem, proc, heap>>

MallocLarge(x, size) ==
    LET n == PagesFor(size)
        r == MallocPage(x, n)
    IN  /\ Admissible(x, size) /\ size > MaxBlock
        /\ mem' = r.m
        /\ proc' = r.ps
        /\ heap' = IF r.m.halt # "no" \/ r.at = None THEN heap
                   ELSE [heap EXCEPT ![x] = AddLarge(heap[x], x, r.at, n)]

Fitting(size) == Least({d \in 1 .. DescCnt : size <= BlockSize(d)})

\* A new arena on page at, all its blocks on free list d.
AddBlocks(h, x, at, d) ==
    LET n == BlocksPerArena(d)
    IN  [h EXCEPT !.arena = AddArena(h.arena, at, [large |-> FALSE, desc |-> d, owner |-> x,
                                                   cnt |-> n, old |-> FALSE]),
                  !.free[d] = [k \in 1 .. n |-> <<at, k>>]]

\* list_pop of free list d.
Pop(h, d) ==
    LET b == Head(h.free[d])
    IN  [h EXCEPT !.free[d] = Tail(h.free[d]),
                  !.arena[b[1]].cnt = @ - 1,
                  !.held = h.held \cup {b}]

MallocBlock(x, size) ==
    LET d == Fitting(size)
    IN  /\ Admissible(x, size) /\ size <= MaxBlock
        /\ \/ /\ heap[x].free[d] # << >>
              /\ heap' = [heap EXCEPT ![x] = Pop(heap[x], d)]
              /\ UNCHANGED <<mem, proc>>
           \/ LET r == MallocPage(x, 1)
              IN  /\ heap[x].free[d] = << >>
                  /\ mem' = r.m
                  /\ proc' = r.ps
                  /\ heap' = IF r.m.halt # "no" THEN heap
                             ELSE [heap EXCEPT ![x] = Pop(AddBlocks(heap[x], x, r.at, d), d)]

LiveProcs == {p \in Procs : proc[p].state = "live"}

Live(x) == x \in {Kernel} \cup LiveProcs

\* The kernel pool's lock, or the user pool's, which only processes take.
LockFree(x) == x # Kernel \/ KernelLockFree

SysMalloc(x) ==
    /\ Running /\ Live(x) /\ LockFree(x)
    /\ count.mallocs < MaxMallocs
    /\ count' = [count EXCEPT !.mallocs = @ + 1]
    /\ \E size \in Sizes :
          MallocRefused(x, size) \/ MallocLarge(x, size) \/ MallocBlock(x, size)
    /\ UNCHANGED <<scan, boot>>

FreeLarge(x, b) ==
    LET a == heap[x].arena[b[1]]
        r == MfreePage(x, b[1], a.cnt)
    IN  /\ a.large
        /\ mem' = r.m
        /\ proc' = r.ps
        /\ heap' = [heap EXCEPT ![x].arena = Without(@, {b[1]}),
                                ![x].held = @ \ {b}]

\* Mutant of Collect: the blocks of an arena that goes stay on the free list.
CollectKeepsBlocks(list, v, n) == list

\* The loop of list_remove over the n blocks of the arena on page v.
Collect(list, v, n) ==
    LET after[k \in 0 .. n] == IF k = 0 THEN list ELSE RemoveFirst(after[k - 1], <<v, k>>)
    IN  after[n]

\* The block goes to the free list of the descriptor its arena names; the
\* arena goes when it is all free, and its blocks leave the list first.
FreeBlock(x, b) ==
    LET a == heap[x].arena[b[1]]
        n == BlocksPerArena(a.desc)
        list == Append(heap[a.owner].free[a.desc], b)
        missing == {k \in 1 .. n : <<b[1], k>> \notin Range(list)}
        r == IF missing = {} THEN MfreePage(x, b[1], 1)
             ELSE [m |-> Halt(mem, "block not on the list"), ps |-> proc]
        given == [heap EXCEPT ![a.owner].free[a.desc] = list,
                              ![x].arena[b[1]].cnt = @ + 1,
                              ![x].held = @ \ {b}]
    IN  /\ ~a.large
        /\ \/ /\ a.cnt + 1 # n
              /\ heap' = given
              /\ UNCHANGED <<mem, proc>>
           \/ /\ a.cnt + 1 = n
              /\ mem' = r.m
              /\ proc' = r.ps
              /\ heap' = [given EXCEPT ![a.owner].free[a.desc] = Collect(list, b[1], n),
                                       ![x].arena = Without(@, {b[1]})]

\* Unless CarryHeap, a program frees no block from before a fork: its arena
\* names descriptors of the parent, whose PCB may be another process's by now.
SysFree(x) ==
    /\ Running /\ Live(x) /\ LockFree(x)
    /\ \E b \in heap[x].held :
        /\ ~CarryHeap /\ ~heap[x].arena[b[1]].large => ~heap[x].arena[b[1]].old
        /\ FreeLarge(x, b) \/ FreeBlock(x, b)
    /\ UNCHANGED <<scan, boot, count>>

\* sys_free of NULL fails an ASSERT.
FreeNull(x) ==
    /\ Running /\ Live(x)
    /\ mem' = Halt(mem, "null")
    /\ UNCHANGED <<proc, heap, scan, boot, count>>

-----------------------------------------------------------------------------
\* process_execute and create_page_dir: PCB, address bitmap, page directory.
ProcessExecute(p) ==
    LET r1 == MallocKernel(mem, 1)
        r2 == MallocKernel(r1.m, CeilPages)
        r3 == MallocKernel(r2.m, 1)
    IN  /\ Running /\ KernelLockFree
        /\ p = First /\ proc[p].state = "none"
        /\ mem' = r3.m
        /\ proc' = [proc EXCEPT ![p] = [NoProcess EXCEPT !.state = "created",
                        !.pcb = r1.at, !.vbm = r2.at, !.pgdir = r3.at]]
        /\ heap' = [heap EXCEPT ![p] = EmptyHeap]
        /\ UNCHANGED <<scan, boot, count>>

\* get_a_page(PF_USER, v) in the address space of process record q.
GetAPage(m, q, S) == MapUser(m, [q EXCEPT !.vbits = @ \cup S], S)

\* Mutant of StartProcess: the stack's page is not marked in the bitmap.
StartUnmarked(p) ==
    LET r == MapUser(mem, proc[p], {StackPage})
    IN  /\ Running
        /\ proc[p].state = "created"
        /\ mem' = r.m
        /\ proc' = [proc EXCEPT ![p] = [r.q EXCEPT !.state = "live"]]
        /\ UNCHANGED <<heap, scan, boot, count>>

\* start_process takes the page of the stack, the last of the address space.
StartProcess(p) ==
    LET r == GetAPage(mem, proc[p], {StackPage})
    IN  /\ Running
        /\ proc[p].state = "created"
        /\ mem' = r.m
        /\ proc' = [proc EXCEPT ![p] = [r.q EXCEPT !.state = "live"]]
        /\ UNCHANGED <<heap, scan, boot, count>>

\* segment_load takes the pages of the program that are not there, and reads
\* the program over those that are.
Execv(p) ==
    LET r == GetAPage(mem, proc[p], {v \in Text : proc[p].map[v] = None})
    IN  /\ Running
        /\ proc[p].state = "live"
        /\ ~CarryHeap => DOMAIN heap[p].arena = {}
        /\ mem' = r.m
        /\ proc' = [proc EXCEPT ![p] = r.q]
        /\ heap' = [heap EXCEPT ![p].arena = Without(@, Text)]
        /\ UNCHANGED <<scan, boot, count>>

\* Mutant of CopyPages: the child's table gets the parent's frames.
CopyShares(m, q, p) == [m |-> m, q |-> [q EXCEPT !.map = proc[p].map]]

\* copy_block_stack3: a new frame for every page the parent's bitmap has.
CopyPages(m, q, p) == MapUser(m, q, proc[p].vbits)

\* sys_fork: PCB, buffer, address bitmap, page directory, then the pages.  Only
\* the bitmap's pages have to be adjacent, so only that request can fail; it
\* leaves PCB and buffer behind.
Fork(p, c) ==
    LET r1 == MallocKernel(mem, 1)
        r2 == MallocKernel(r1.m, 1)
        r3 == MallocKernel(r2.m, CeilPages)
        r4 == MallocKernel(r3.m, 1)
        r5 == CopyPages(r4.m, [NoProcess EXCEPT !.state = "live", !.pcb = r1.at,
                                  !.vbm = r3.at, !.pgdir = r4.at,
                                  !.vbits = proc[p].vbits], p)
        r6 == MfreeKernel(r5.m, r2.at, 1)
        failed == r3.m.halt = "no" /\ r3.at = None
    IN  /\ Running /\ KernelLockFree
        /\ proc[p].state = "live" /\ proc[c].state = "none"
        /\ count.forks < MaxForks
        /\ \/ /\ failed
              /\ mem' = r3.m
              /\ count' = [count EXCEPT !.forks = @ + 1, !.failed = @ + 1]
              /\ UNCHANGED <<proc, heap>>
           \/ /\ ~failed
              /\ mem' = r6
              /\ proc' = [proc EXCEPT ![c] = r5.q]
              /\ heap' = [heap EXCEPT ![c] = [EmptyHeap EXCEPT
                     !.arena = [v \in DOMAIN heap[p].arena |->
                                   [heap[p].arena[v] EXCEPT !.old = TRUE]],
                     !.held = heap[p].held]]
              /\ count' = [count EXCEPT !.forks = @ + 1]
        /\ UNCHANGED <<scan, boot>>

\* Mutant of ReleasedFrames: the page tables are not given back.
ReleasedPagesOnly(q) == {q.map[v] : v \in DOMAIN q.map} \ {None}

ReleasedFrames(q) == ({q.map[v] : v \in DOMAIN q.map} \ {None}) \cup Range(q.tables)

\* release_prog_resource: the frames its page tables name and the tables, then
\* the address bitmap, by a division that rounds down.
Exit(p) ==
    LET bits == mem.bits \ {FrameBit(f) : f \in ReleasedFrames(proc[p])}
    IN  /\ Running /\ KernelLockFree
        /\ proc[p].state = "live" /\ p # First
        /\ mem' = MfreeKernel([mem EXCEPT !.bits = bits], proc[p].vbm, FloorPages)
        /\ proc' = [proc EXCEPT ![p] = [NoProcess EXCEPT !.state = "zombie",
                                           !.pcb = proc[p].pcb, !.pgdir = proc[p].pgdir]]
        /\ heap' = [heap EXCEPT ![p] = EmptyHeap]
        /\ count' = [count EXCEPT !.exits = @ + 1]
        /\ UNCHANGED <<scan, boot>>

\* thread_exit, called by the parent's wait: page directory and PCB.
Reap(p) ==
    /\ Running /\ KernelLockFree
    /\ proc[p].state = "zombie"
    /\ mem' = MfreeKernel(MfreeKernel(mem, proc[p].pgdir, 1), proc[p].pcb, 1)
    /\ proc' = [proc EXCEPT ![p] = NoProcess]
    /\ UNCHANGED <<heap, scan, boot, count>>

\* The boot thread's malloc_page(PF_KERNEL, 1), preempted inside palloc.
BootScan ==
    /\ Running /\ KernelLockFree
    /\ FreeFrames(mem) # {} /\ Clear(mem.bits, VaddrBase, KernelPages) # {}
    /\ boot = None
    /\ scan' = Least(FreeFrames(mem))
    /\ UNCHANGED <<mem, proc, heap, boot, count>>

BootMark ==
    LET v == BitmapScan(mem.bits, VaddrBase, KernelPages, 1)
    IN  /\ Running /\ ~KernelLockFree
        /\ mem' = [mem EXCEPT !.bits = @ \cup {scan, VaddrBase + v},
                              !.kmap[v] = scan]
        /\ boot' = v
        /\ scan' = None
        /\ UNCHANGED <<proc, heap, count>>

\* panic_spin, where every failed ASSERT and PANIC ends.
Spin == ~Running /\ UNCHANGED vars

Next ==
    \/ \E x \in Owners : SysMalloc(x) \/ SysFree(x) \/ FreeNull(x)
    \/ \E p \in Procs : \/ ProcessExecute(p)
                        \/ StartProcess(p)
                        \/ Execv(p)
                        \/ Exit(p)
                        \/ Reap(p)
    \/ \E p, c \in Procs : Fork(p, c)
    \/ Spin

Spec == Init /\ [][Next]_vars

\* While the boot thread is in filesys_init and init already runs.
BootSpec == Init /\ [][Next \/ BootScan \/ BootMark]_vars

-----------------------------------------------------------------------------
UserFrames(p) == {proc[p].map[v] : v \in DOMAIN proc[p].map} \ {None}
TableFrames(p) == Range(proc[p].tables)
KernelFrames == Range(mem.kmap) \ {None}

\* Every kernel page somebody can still give back.
OwnedPages ==
    ({boot} \cup UNION ({ {proc[p].pcb, proc[p].pgdir} : p \in Procs }
           \cup { IF proc[p].vbm = None THEN {}
                  ELSE proc[p].vbm .. proc[p].vbm + CeilPages - 1 : p \in Procs }
           \cup { LET a == heap[Kernel].arena[v]
                  IN  v .. v + (IF a.large THEN a.cnt ELSE 1) - 1 :
                      v \in DOMAIN heap[Kernel].arena })) \ {None}

TypeOK ==
    /\ mem.bits \subseteq 0 .. VaddrBase + KernelPages
    /\ mem.kmap \in [0 .. KernelPages -> (0 .. KernelPages - 1) \cup {None}]
    /\ \A p \in Procs : proc[p].map \in [0 .. UserVPages - 1 -> (KernelPages .. FreePages - 1) \cup {None}]
    /\ boot \in (0 .. KernelPages) \cup {None}

\* The machine stops for want of memory or for what a program asks: free(NULL),
\* or a malloc that is smaller than the pool but needs PageLimit pages with its
\* header.  No page is mapped twice, nothing is freed into the wrong pool, no heap
\* page reaches the stack, and the blocks of an arena that goes are all on the free
\* list (the other ASSERTs and PANICs of memory.c).
PanicsKnown ==
    \/ mem.halt \in {"no", "full", "null"}
    \/ /\ mem.halt = "page count"
       /\ \E x \in Owners, size \in Sizes : Admissible(x, size) /\ PagesFor(size) >= PageLimit

\* A frame serves one page of one address space, or one page table, and its bit
\* is set as long as it does.
FramesExclusive ==
    Running =>
    /\ \A v, w \in DOMAIN mem.kmap :
          mem.kmap[v] = mem.kmap[w] /\ v # w => mem.kmap[v] = None
    /\ \A p \in LiveProcs : \A v, w \in DOMAIN proc[p].map :
          proc[p].map[v] = proc[p].map[w] /\ v # w => proc[p].map[v] = None
    /\ \A p, q \in LiveProcs : p # q => UserFrames(p) \cap UserFrames(q) = {}
                                        /\ TableFrames(p) \cap TableFrames(q) = {}
    /\ \A p \in LiveProcs : TableFrames(p) \cap KernelFrames = {}
    /\ \A f \in KernelFrames \cup UNION {UserFrames(p) \cup TableFrames(p) : p \in LiveProcs} :
          FrameBit(f) \in mem.bits

\* Nothing is lost but what the code is known to lose: the last page of the
\* address bitmap at every exit, and PCB and buffer of a fork that failed.
\* Frames, and pages of the kernel's addresses, are marked exactly when used.
LostExact ==
    LET used == {v \in 0 .. KernelPages : VaddrBase + v \in mem.bits}
    IN  Running =>
        /\ OwnedPages \subseteq used
        /\ Cardinality(used \ OwnedPages) =
               count.exits * (CeilPages - FloorPages) + 2 * count.failed
        /\ used = {v \in DOMAIN mem.kmap : mem.kmap[v] # None}
        /\ {f \in 0 .. FreePages - 1 : FrameBit(f) \in mem.bits} =
               KernelFrames \cup UNION {UserFrames(p) \cup TableFrames(p) : p \in LiveProcs}

\* Whose free list a block is on: the blocks of x's own small arenas, those it
\* has not got from its parent, are each either held or once on x's list, cnt
\* counts the latter, and no list has a block of a page that was given back.  An
\* arena stays only while some block of it is held.
BlocksExact ==
    Running =>
    \A x \in Owners : Live(x) =>
      LET own == {v \in DOMAIN heap[x].arena :
                     ~heap[x].arena[v].old /\ ~heap[x].arena[v].large}
      IN  \A d \in 1 .. DescCnt :
            LET list == heap[x].free[d]
                arenas == {v \in own : heap[x].arena[v].desc = d}
            IN  /\ IsInjective(list)
                /\ \A v \in arenas :
                      /\ Cardinality({b \in Range(list) : b[1] = v}) = heap[x].arena[v].cnt
                      /\ heap[x].arena[v].cnt < BlocksPerArena(d)
                /\ Range(list) \cup {b \in heap[x].held : b[1] \in arenas}
                      = arenas \X (1 .. BlocksPerArena(d))
                /\ Range(list) \cap heap[x].held = {}
=============================================================================
