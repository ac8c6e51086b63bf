------------------------------- MODULE FileSys -------------------------------
(***************************************************************************)
(* The file system on the disk: bitmaps, inodes, directories and the blocks*)
(* of files (fs/fs.c, fs/file.c, fs/dir.c, fs/inode.c).  Calls follow each *)
(* other here; FileTable lets them overlap, and says who creates files.    *)
(*                                                                         *)
(* Sectors of the data area are numbered from 1, so that 0 is "no sector"  *)
(* as in i_sectors; sector 0 is the boot sector.  Sizes count units of a   *)
(* block in a file and entries in a directory.  What a program writes into *)
(* a file is the file's own path, so that a unit tells whose it is.        *)
(***************************************************************************)
EXTENDS Integers, Sequences, FiniteSets, FiniteSetsExt

CONSTANTS
    FilePaths,   \* the paths programs use for files, sequences of names
    DirPaths,    \* the paths they use for directories
    Direct,      \* 12 direct blocks, i_sectors[Direct] is the indirect table
    Indirect,    \* 128 blocks in the table
    BlockSize,   \* units in a block
    PerSector,   \* directory entries in a sector
    DataBlocks,  \* blocks of the partition
    NumInodes,   \* MAX_FILES_PER_PART
    ByteRange,   \* 2^8: inode_sync keeps the number in a byte
    Counts,      \* lengths of reads and writes
    MaxOpen,     \* bound: files open at a time
    MaxLost,     \* bound: blocks lost by writes
    MaxEntries,  \* bound: entries programs make in a directory
    RemoveLeft,  \* programs remove a directory whose inode sys_open left behind
    None

ASSUME SizesAssumption ==
    /\ {Direct, Indirect, BlockSize, DataBlocks, NumInodes, ByteRange} \subseteq Nat \ {0}
    /\ PerSector \in Nat /\ PerSector >= 2 /\ MaxEntries \in Nat

VARIABLES
    disk,   \* bitmaps, inode table and sectors as they are on the disk
    bmap,   \* block_bitmap of cur_part, in memory
    imap,   \* inode_map
    open,   \* open_inodes: the inodes of root_dir and of open files
    left,   \* behind them: the inodes of directories that sys_open never closes
    fds,    \* the path of each open file, one descriptor each
    cwd,    \* cwd_inode_nr
    lost,   \* blocks marked in bmap that no inode names
    halt    \* the ASSERT that stopped the machine

vars == <<disk, bmap, imap, open, left, fds, cwd, lost, halt>>

Paths == FilePaths \cup DirPaths
Inos == 0 .. NumInodes - 1
Indices == 0 .. Direct + Indirect - 1
\* partition_format clears one bit more than the partition has blocks.
Blocks == 1 .. DataBlocks + 1

Entry(name, no, type) == [name |-> name, no |-> no, type |-> type]
NoEntry == Entry(None, 0, "unknown")
Inode(no, size, first) ==
    [no |-> no, size |-> size, sectors |-> [k \in 0 .. Direct |-> IF k = 0 THEN first ELSE 0]]
DirSector(first, second) ==
    [kind |-> "dir",
     at |-> [e \in 0 .. PerSector - 1 |->
                IF e = 0 THEN first ELSE IF e = 1 THEN second ELSE NoEntry]]
ZeroTable == [kind |-> "table", at |-> [k \in Direct .. Direct + Indirect - 1 |-> 0]]
DataSector(text) == [kind |-> "data", at |-> [u \in 0 .. BlockSize - 1 |-> text]]

\* partition_format of an empty partition, then partition_mount.
Format ==
    [bmap |-> {1}, imap |-> {0},
     inode |-> [i \in Inos |-> IF i = 0 THEN Inode(0, 2, 1) ELSE Inode(0, 0, 0)],
     sector |-> [b \in {0} \cup Blocks |->
        IF b = 1 THEN DirSector(Entry(".", 0, "dir"), Entry("..", 0, "dir"))
        ELSE DataSector(IF b = 0 THEN <<"boot">> ELSE << >>)]]

Init ==
    /\ disk = Format
    /\ bmap = disk.bmap /\ imap = disk.imap
    /\ open = [i \in {0} |-> disk.inode[0]]
    /\ left = << >>
    /\ fds = << >>
    /\ cwd = 0 /\ lost = {} /\ halt = "no"

-----------------------------------------------------------------------------
(* A call works on a copy st of the state, with the inode it changes in in  *)
(* and the block it took last in got, up to the first ASSERT that fails.    *)
Now(in) == [disk |-> disk, bmap |-> bmap, imap |-> imap, in |-> in, got |-> 0,
            lost |-> lost, halt |-> halt]

Check(st, condition, reason) == IF condition THEN st ELSE [st EXCEPT !.halt = reason]
Then(st, next) == IF st.halt = "no" THEN next ELSE st

\* Block k of inode in, 0 when there is none.
BlockAt(d, in, k) ==
    IF k < Direct THEN in.sectors[k]
    ELSE IF in.sectors[Direct] = 0 THEN 0
    ELSE d.sector[in.sectors[Direct]].at[k]

\* inode_open: from the list, or from the disk.  A file that is created is put at
\* the head of the list, before an inode left there with the same number.
InodeOpen(i) == IF i \in DOMAIN open THEN open[i]
                ELSE IF i \in DOMAIN left THEN left[i] ELSE disk.inode[i]

\* block_bitmap_alloc: bitmap_scan fails an ASSERT when there is no free bit.
BlockAlloc(st) ==
    LET free == Blocks \ st.bmap
    IN  IF free = {} THEN [st EXCEPT !.halt = "full"]
        ELSE [st EXCEPT !.bmap = @ \cup {Min(free)}, !.got = Min(free)]

\* bitmap_sync of the sector with the block's bit.
BitmapSync(st) == [st EXCEPT !.disk.bmap = st.bmap]

\* The inode gets a new block k, its bit is written to the disk.
AddBlock(st, k) ==
    LET a == BitmapSync(BlockAlloc(st))
    IN  Then(a, IF k < Direct THEN [a EXCEPT !.in.sectors[k] = a.got]
                ELSE [a EXCEPT !.disk.sector[a.in.sectors[Direct]].at[k] = a.got])

\* It gets a block for its indirect table.
AddTable(st) ==
    LET a == BlockAlloc(st)
    IN  Then(a, [a EXCEPT !.in.sectors[Direct] = a.got, !.disk.sector[a.got] = ZeroTable])


\* inode_sync.
InodeSync(st) == Then(st, [st EXCEPT !.disk.inode[st.in.no % ByteRange] = st.in])

\* The inode in is written where inode_open found it.
InMemory(in) == [i \in DOMAIN open |-> IF i = in.no THEN in ELSE open[i]]
InLeft(in) == [i \in DOMAIN left |->
                  IF i = in.no /\ i \notin DOMAIN open THEN in ELSE left[i]]

\* The end of a call: st is the state, in memory the inode it worked on too.
Becomes(st) ==
    /\ disk' = st.disk
    /\ bmap' = st.bmap
    /\ imap' = st.imap
    /\ lost' = st.lost
    /\ halt' = st.halt
    /\ left' = InLeft(st.in)

-----------------------------------------------------------------------------
(* Directories.                                                             *)
Places == 0 .. (Direct + Indirect) * PerSector - 1

EntryAt(d, in, q) ==
    LET b == BlockAt(d, in, q \div PerSector)
    IN  IF b = 0 THEN NoEntry ELSE d.sector[b].at[q % PerSector]

Used(d, in) == {q \in Places : EntryAt(d, in, q).type # "unknown"}

\* search_dir_entry: the entry called name in directory i.
SearchDirEntry(i, name) ==
    LET in == InodeOpen(i)
        found == {q \in Places : EntryAt(disk, in, q).name = name}
    IN  IF found = {} THEN NoEntry ELSE EntryAt(disk, in, Min(found))

\* search_file: it goes down while it finds directories, and stops at a regular
\* file or at a name that is not there.
SearchFile(path) ==
    LET walk[k \in 0 .. Len(path)] ==
            IF k = 0 THEN [type |-> "dir", no |-> 0, parent |-> 0, depth |-> 0]
            ELSE IF walk[k - 1].type # "dir" THEN walk[k - 1]
            ELSE LET e == SearchDirEntry(walk[k - 1].no, path[k])
                 IN  [type |-> e.type, no |-> e.no, parent |-> walk[k - 1].no, depth |-> k]
    IN  walk[Len(path)]

\* The directory that is searched last is there, but not the name itself.
Missing(path) == LET r == SearchFile(path) IN r.type = "unknown" /\ r.depth = Len(path)
IsFile(path) == LET r == SearchFile(path) IN r.type = "file" /\ r.depth = Len(path)
IsDir(path) == SearchFile(path).type = "dir"

\* sync_dir_entry: the first free place of the direct blocks, or a new block.
\* The table is not read, so block Direct always counts as missing, and with it
\* a new table takes the place of the old one.
SyncDirEntry(st, entry) ==
    LET in == st.in
        new == Min({k \in 0 .. Direct : k = Direct \/ in.sectors[k] = 0})
        places == {q \in 0 .. new * PerSector - 1 : EntryAt(st.disk, in, q).type = "unknown"}
        q == Min(places)
        old == {in.sectors[Direct], BlockAt(st.disk, in, Direct)} \ {0}
        grown == IF new < Direct THEN AddBlock(st, new)
                 ELSE AddBlock(AddTable([st EXCEPT !.lost = @ \cup old]), Direct)
    IN  IF places # {}
        THEN [st EXCEPT !.disk.sector[in.sectors[q \div PerSector]].at[q % PerSector] = entry,
                        !.in.size = @ + 1]
        ELSE Then(grown, [grown EXCEPT !.disk.sector[grown.got] = DirSector(entry, NoEntry),
                                       !.in.size = @ + 1])

\* Mutant of DeleteDirEntry: i_size is not changed.
DeleteKeepsSize(st, no) ==
    LET in == st.in
        q == Min({p \in Used(st.disk, in) : /\ EntryAt(st.disk, in, p).name \notin {".", ".."}
                                            /\ EntryAt(st.disk, in, p).no = no})
    IN  [st EXCEPT !.disk.sector[in.sectors[q \div PerSector]].at[q % PerSector] = NoEntry]

\* delete_dir_entry: with an indirect table it reads the disk through a wrong
\* pointer.  The first block holds ".", so that no block is ever given back.
DeleteDirEntry(st, no) ==
    LET in == st.in
        q == Min({p \in Used(st.disk, in) : /\ EntryAt(st.disk, in, p).name \notin {".", ".."}
                                            /\ EntryAt(st.disk, in, p).no = no})
    IN  IF in.sectors[Direct] # 0 THEN [st EXCEPT !.halt = "wild"]
        ELSE InodeSync(
            [st EXCEPT !.disk.sector[in.sectors[q \div PerSector]].at[q % PerSector] = NoEntry,
                       !.in.size = @ - 1])

\* inode_release: all blocks but the last index, the table, the number.  What a
\* free sector still holds is forgotten: it becomes text that nobody wrote.
InodeRelease(st, in) ==
    LET blocks == ({BlockAt(st.disk, in, k) : k \in Indices \ {Max(Indices)}}
                   \cup {in.sectors[Direct]}) \ {0}
        last == {BlockAt(st.disk, in, Max(Indices))} \ {0}
        s == Check(st, 1 \notin blocks, "assert")
    IN  Then(s, [s EXCEPT !.bmap = @ \ blocks,
                          !.disk.bmap = IF blocks = {} THEN @ ELSE s.bmap \ blocks,
                          !.disk.sector = [b \in DOMAIN @ |->
                              IF b \in blocks THEN DataSector(<< >>) ELSE @[b]],
                          !.imap = @ \ {in.no},
                          !.disk.imap = s.imap \ {in.no},
                          !.disk.inode[in.no] = Inode(0, 0, 0),
                          !.lost = @ \cup last])

\* inode_bitmap_alloc and, at the end of the call, the new inode on the disk.
InodeAlloc(st) ==
    LET free == Inos \ st.imap
    IN  IF free = {} THEN [st EXCEPT !.halt = "full"]
        ELSE [st EXCEPT !.imap = @ \cup {Min(free)}, !.got = Min(free)]

\* Mutant of NewInode: the new inode stays in memory.
NewInodeUnwritten(st, in) == LET s == InodeSync(st) IN [s EXCEPT !.disk.imap = s.imap]

NewInode(st, in) ==
    LET s == InodeSync(st)
    IN  Then(s, [s EXCEPT !.disk.inode[in.no % ByteRange] = in, !.disk.imap = s.imap])

Name(path) == path[Len(path)]

-----------------------------------------------------------------------------
\* f with i mapped to value.
With(f, i, value) == [j \in DOMAIN f \cup {i} |-> IF j = i THEN value ELSE f[j]]

\* sys_open with O_CREAT: file_create, and the file is open.
SysCreate(path) ==
    LET r == SearchFile(path)
        a == InodeAlloc(Now(InodeOpen(r.parent)))
        new == Inode(a.got, 0, 0)
        st == Then(a, NewInode(SyncDirEntry(a, Entry(Name(path), a.got, "file")), new))
    IN  /\ halt = "no" /\ Missing(path) /\ Cardinality(DOMAIN fds) < MaxOpen
        /\ InodeOpen(r.parent).size < MaxEntries
        /\ Becomes(st)
        /\ IF st.halt = "no"
           THEN /\ open' = With(InMemory(st.in), new.no, new)
                /\ fds' = With(fds, new.no, path)
           ELSE UNCHANGED <<open, fds>>
        /\ UNCHANGED cwd

\* file_open: the file's inode, which may be one that is left in memory.
FileOpen(no) == IF no \in DOMAIN left THEN open ELSE With(open, no, InodeOpen(no))

\* sys_open of a file that is there: file_open.  Unlike all other paths through
\* sys_open this one does not close the directory that search_file opened.
SysOpen(path) ==
    LET r == SearchFile(path)
    IN  /\ halt = "no" /\ IsFile(path) /\ r.no \notin DOMAIN fds
        /\ Cardinality(DOMAIN fds) < MaxOpen
        /\ open' = FileOpen(r.no)
        /\ left' = IF r.parent = 0 THEN left
                   ELSE With(left, r.parent, InodeOpen(r.parent))
        /\ fds' = With(fds, r.no, path)
        /\ UNCHANGED <<disk, bmap, imap, cwd, lost, halt>>

\* file_close; an inode that is left in memory stays there.
SysClose(i) ==
    /\ halt = "no"
    /\ open' = [j \in DOMAIN open \ {i} |-> open[j]]
    /\ fds' = [j \in DOMAIN fds \ {i} |-> fds[j]]
    /\ UNCHANGED <<disk, bmap, imap, left, cwd, lost, halt>>

\* sys_mkdir: the new directory's block first, then the entry in its parent.
SysMkdir(path) ==
    LET r == SearchFile(path)
        a == InodeAlloc(Now(InodeOpen(r.parent)))
        b == Then(a, BitmapSync(BlockAlloc(a)))
        new == Inode(a.got, 2, b.got)
        dots == DirSector(Entry(".", new.no, "dir"), Entry("..", r.parent, "dir"))
        st == Then(b, NewInode(SyncDirEntry([b EXCEPT !.disk.sector[b.got] = dots],
                                            Entry(Name(path), new.no, "dir")), new))
    IN  /\ halt = "no" /\ Missing(path)
        /\ InodeOpen(r.parent).size < MaxEntries
        /\ Becomes(st)
        /\ open' = InMemory(st.in)
        /\ UNCHANGED <<fds, cwd>>

\* The path is the root's: an ASSERT of sys_unlink and sys_rmdir.
IsRoot(r) == r.type = "dir" /\ r.no = 0

\* sys_unlink does not compare the depths: below a regular file it means that file.
SysUnlink(path) ==
    LET r == SearchFile(path)
        in == InodeOpen(r.no)
        c == Check(Now(InodeOpen(r.parent)), ~IsRoot(r), "root")
        d == Then(c, DeleteDirEntry(c, r.no))
    IN  /\ halt = "no"
        /\ IsRoot(r) \/ (r.type = "file" /\ r.no \notin DOMAIN fds)
        /\ Becomes(Then(d, InodeRelease(Check(d, in.no = r.no, "assert"), in)))
        /\ open' = InMemory(d.in)
        /\ UNCHANGED <<fds, cwd>>

\* dir_remove of the empty directory with inode in.
DirRemove(st, in) ==
    LET c == Check(st, \A k \in 1 .. Direct : in.sectors[k] = 0, "grown")
        d == Then(c, DeleteDirEntry(c, in.no))
    IN  Then(d, InodeRelease(d, in))

\* sys_rmdir: of an empty directory, whoever works in it.
SysRmdir(path) ==
    LET r == SearchFile(path)
        in == InodeOpen(r.no)
        c == Check(Now(InodeOpen(r.parent)), ~IsRoot(r), "root")
        st == Then(c, DirRemove(c, in))
    IN  /\ halt = "no" /\ IsDir(path)
        /\ IsRoot(r) \/ in.size = 2
        /\ RemoveLeft \/ r.no \notin DOMAIN left
        /\ Becomes(st)
        /\ open' = InMemory(st.in)
        /\ UNCHANGED <<fds, cwd>>

SysChdir(path) ==
    /\ halt = "no" /\ IsDir(path)
    /\ cwd' = SearchFile(path).no
    /\ UNCHANGED <<disk, bmap, imap, open, left, fds, lost, halt>>

-----------------------------------------------------------------------------
(* Files.                                                                   *)
\* The blocks a file of this size has.
UsedBlocks(size) == size \div BlockSize + 1

\* Mutant of AppendText: the block that is written first is not read before.
AppendUnread(st, cnt, text) ==
    LET from == st.in.size
        touched == {k \in Indices : k >= from \div BlockSize /\ k * BlockSize < from + cnt}
        Of(b) == {k \in touched : BlockAt(st.disk, st.in, k) = b}
        Put(k) == [kind |-> "data", at |-> [u \in 0 .. BlockSize - 1 |->
            IF k * BlockSize + u \in from .. from + cnt - 1 THEN text ELSE << >>]]
    IN  [st EXCEPT !.in.size = @ + cnt,
                   !.disk.sector = [b \in DOMAIN @ |->
                        IF Of(b) = {} THEN @[b] ELSE Put(Max(Of(b)))]]

\* The loop of file_write: cnt units of text at the end of the file.
AppendText(st, cnt, text) ==
    LET from == st.in.size
        touched == {k \in Indices : k >= from \div BlockSize /\ k * BlockSize < from + cnt}
        Of(b) == {k \in touched : BlockAt(st.disk, st.in, k) = b}
        Put(b, k) == [kind |-> "data", at |-> [u \in 0 .. BlockSize - 1 |->
            IF k * BlockSize + u \in from .. from + cnt - 1 THEN text
            ELSE IF k * BlockSize + u < from THEN st.disk.sector[b].at[u] ELSE << >>]]
    IN  [st EXCEPT !.in.size = @ + cnt,
                   !.disk.sector = [b \in DOMAIN @ |->
                        IF Of(b) = {} THEN @[b] ELSE Put(b, Max(Of(b)))]]

\* file_write, with the file's inode in st.in.  A file that has a table gets no
\* further block: the one taken for it is lost ("block_lba = -1").
FileWrite(st, cnt, text) ==
    LET first == IF st.in.sectors[0] = 0 THEN AddBlock(st, 0) ELSE st
        has == UsedBlocks(st.in.size)
        will == UsedBlocks(st.in.size + cnt)
        s0 == Then(first, Check(first, will <= Direct + Indirect, "last"))
        last == IF has <= Direct THEN has - 1 ELSE Direct
        s1 == Then(s0, Check(s0, s0.in.sectors[last] # 0, "assert"))
        s2 == IF has <= Direct /\ will > Direct THEN
                  Then(s1, AddTable(Check(s1, s1.in.sectors[Direct] = 0, "assert"))) ELSE s1
        grow[k \in has .. will] ==
            IF k = has THEN s2
            ELSE Then(grow[k - 1],
                      AddBlock(Check(grow[k - 1], BlockAt(grow[k - 1].disk, grow[k - 1].in, k - 1) = 0,
                                     "assert"), k - 1))
    IN  IF has > Direct /\ will > has
        THEN Then(s1, LET a == BlockAlloc(s1) IN [a EXCEPT !.lost = @ \cup (a.bmap \ s1.bmap)])
        ELSE Then(grow[will], InodeSync(AppendText(grow[will], cnt, text)))

SysWrite(i, cnt) ==
    LET st == FileWrite(Now(InodeOpen(i)), cnt, fds[i])
    IN  /\ halt = "no" /\ Cardinality(lost) < MaxLost
        /\ InodeOpen(i).size + cnt <= BlockSize * (Direct + Indirect)
        /\ Becomes(st)
        /\ open' = InMemory(st.in)
        /\ UNCHANGED <<fds, cwd>>

\* file_read: which entries of all_blocks it fills before it reads.  The others
\* are 0 (sys_malloc).
Loaded(start, end) ==
    IF start = end THEN (IF end < Direct THEN {end} ELSE Direct .. Max(Indices))
    ELSE IF end < Direct THEN start .. end - 1
    ELSE IF start < Direct THEN start .. Max(Indices) ELSE Direct .. Max(Indices)

\* What a read of size units at pos returns.
FileRead(i, pos, size) ==
    LET loaded == Loaded(pos \div BlockSize, (pos + size) \div BlockSize)
        Lba(k) == IF k \in loaded THEN BlockAt(disk, InodeOpen(i), k) ELSE 0
    IN  [u \in 0 .. size - 1 |->
            disk.sector[Lba((pos + u) \div BlockSize)].at[(pos + u) % BlockSize]]

ReadSize(i, pos, cnt) == Min({cnt, InodeOpen(i).size - pos})
Readable(pos, size) == (pos + size) \div BlockSize < Direct + Indirect - 1

\* sys_lseek and sys_read; fd_pos is any position sys_lseek accepts.  A read that
\* ends in the last block of a file fails an ASSERT.
SysRead(i, pos, cnt) ==
    /\ halt = "no" /\ pos < InodeOpen(i).size
    /\ ~Readable(pos, ReadSize(i, pos, cnt))
    /\ halt' = "last"
    /\ UNCHANGED <<disk, bmap, imap, open, left, fds, cwd, lost>>

-----------------------------------------------------------------------------
\* Mutant of Listing: a free entry counts as returned.
ListingByPlace(i) ==
    [k \in 1 .. InodeOpen(i).size |-> EntryAt(disk, InodeOpen(i), k - 1).name]

\* ls of directory i: sys_opendir, sys_readdir (dir_read) up to NULL, sys_closedir.
\* dir_read returns the next entry in use until it has returned i_size of them.
Listing(i) ==
    LET in == InodeOpen(i)
        used == Used(disk, in)
        Nth(k) == CHOOSE q \in used : Cardinality({p \in used : p < q}) = k - 1
    IN  [k \in 1 .. Min({in.size, Cardinality(used)}) |-> EntryAt(disk, in, Nth(k)).name]

\* get_parent_dir_i_no: entry 1 of the first block.
ParentEntry(i) ==
    LET b == InodeOpen(i).sectors[0]
    IN  IF b # 0 /\ disk.sector[b].kind = "dir" THEN disk.sector[b].at[1] ELSE NoEntry

\* get_child_dir_name: the first entry with the number, or none.
ChildName(parent, child) ==
    LET in == InodeOpen(parent)
        found == {q \in Places : EntryAt(disk, in, q).no = child}
    IN  IF found = {} THEN None ELSE EntryAt(disk, in, Min(found)).name

Depth == Max({Len(p) : p \in Paths})

\* sys_getcwd: from cwd up to the root, ok unless one of its ASSERTs fails.
Getcwd ==
    LET up[k \in 0 .. Depth] ==
            IF k = 0 THEN [no |-> cwd, path |-> << >>, ok |-> TRUE]
            ELSE LET c == up[k - 1]
                     e == ParentEntry(c.no)
                 IN  IF c.no = 0 \/ ~c.ok THEN c
                     ELSE [no |-> e.no, path |-> <<ChildName(e.no, c.no)>> \o c.path,
                           ok |-> e.type = "dir"]
    IN  up[Depth]

SysGetcwd ==
    /\ halt = "no" /\ ~Getcwd.ok
    /\ halt' = "cwd"
    /\ UNCHANGED <<disk, bmap, imap, open, left, fds, cwd, lost>>

\* The machine is switched off between two calls and on again: filesys_init finds
\* the file system, partition_mount and open_root_dir read it.
Reboot ==
    /\ halt = "no"
    /\ bmap' = disk.bmap /\ imap' = disk.imap
    /\ open' = [i \in {0} |-> disk.inode[0]]
    /\ left' = << >>
    /\ fds' = << >>
    /\ cwd' = 0
    /\ lost' = lost \cap disk.bmap
    /\ UNCHANGED <<disk, halt>>

Spin == halt # "no" /\ UNCHANGED vars

Next ==
    \/ \E p \in FilePaths : SysCreate(p) \/ SysOpen(p)
    \/ \E p \in Paths : SysUnlink(p)
    \/ \E p \in DirPaths : SysMkdir(p) \/ SysRmdir(p) \/ SysChdir(p)
    \/ \E i \in DOMAIN fds : SysClose(i) \/ \E n \in Counts : SysWrite(i, n)
    \/ \E i \in DOMAIN fds, n \in Counts : \E pos \in 0 .. InodeOpen(i).size : SysRead(i, pos, n)
    \/ SysGetcwd \/ Reboot \/ Spin

Spec == Init /\ [][Next]_vars

-----------------------------------------------------------------------------
Running == halt = "no"
BlocksOf(in) ==
    ({BlockAt(disk, in, k) : k \in Indices} \cup {in.sectors[Direct]}) \ {0}

\* The files and directories that there are, with what search_file finds.
Tree ==
    LET found == [p \in Paths |-> SearchFile(p)]
        there == {p \in Paths : found[p].type # "unknown" /\ found[p].depth = Len(p)}
    IN  [p \in there |-> found[p]]

\* A failed ASSERT has one of these causes: a full bitmap (bitmap_scan), the root
\* given to rmdir or unlink, an emptied directory that was larger once
\* (dir_remove), the last block of a file (file_write, file_read), a removed
\* working directory (sys_getcwd), and delete_dir_entry's use of a wrong pointer
\* in a directory with a table.  None of the others on the file system's state
\* fails, and none of these without its cause.
PanicsExplained ==
    LET dirs == {Tree[p].no : p \in {q \in DOMAIN Tree : Tree[q].type = "dir"}}
        Big(i) == InodeOpen(i).size + Max(Counts) >= BlockSize * (Direct + Indirect - 1)
    IN  /\ halt # "assert"
        /\ halt = "full" => Blocks \subseteq bmap \/ Inos \subseteq imap
        /\ halt = "grown" => \E i \in dirs : Cardinality(BlocksOf(InodeOpen(i))) > 1
        /\ halt = "last" => \E i \in DOMAIN fds : Big(i)
        /\ halt = "cwd" => cwd \notin dirs
        /\ halt = "wild" => \E i \in dirs : InodeOpen(i).sectors[Direct] # 0

\* Every unit of every file is what was written to that file, through any history
\* of writes, removals and blocks that are used again (file_write, inode_release,
\* sync_dir_entry).
FilesIntact ==
    Running =>
    LET tree == Tree
    IN  \A p \in {q \in DOMAIN tree : tree[q].type = "file"} :
            LET in == disk.inode[tree[p].no]
            IN  \A u \in 0 .. in.size - 1 :
                    LET b == BlockAt(disk, in, u \div BlockSize)
                    IN  /\ b # 0 /\ disk.sector[b].kind = "data"
                        /\ disk.sector[b].at[u % BlockSize] = p

\* What inode_open finds for a number in use is the inode on the disk: inode_sync
\* wrote it there, and none is left in memory from an earlier use of the number
\* (inode_sync; sys_open and the parent it should close).
InodesFresh == Running => \A i \in imap : InodeOpen(i) = disk.inode[i]

\* A block is marked while exactly one inode names it, or when it is one of the
\* known leaks; what is in memory is on the disk, so that a reboot loses nothing.
BlocksExact ==
    Running =>
    LET blocks == [i \in imap |-> BlocksOf(disk.inode[i])]
        named == UNION {blocks[i] : i \in imap}
    IN  /\ \A i, j \in imap : i # j => blocks[i] \cap blocks[j] = {}
        /\ bmap = lost \cup named /\ lost \cap named = {}
        /\ named \subseteq disk.bmap /\ disk.bmap \subseteq bmap
        /\ imap = disk.imap
        /\ InodesFresh

\* The directories are a tree: every inode in use has one name, i_size counts the
\* entries, ".." leads back.
DirectoriesExact ==
    Running =>
    LET tree == Tree
    IN  /\ imap = {tree[p].no : p \in DOMAIN tree}
        /\ \A p, q \in DOMAIN tree : tree[p].no = tree[q].no => p = q
        /\ \A p \in {q \in DOMAIN tree : tree[q].type = "dir"} :
              LET in == InodeOpen(tree[p].no)
              IN  /\ in.size = Cardinality(Used(disk, in))
                  /\ ParentEntry(tree[p].no).no = tree[p].parent

\* ls prints the names that are in the directory, each once, and pwd the path that
\* leads to the working directory (dir_read, sys_getcwd).
LookupsExact ==
    Running =>
    LET tree == Tree
        pwd == Getcwd
    IN  /\ \A p \in {q \in DOMAIN tree : tree[q].type = "dir"} :
              LET ls == Listing(tree[p].no)
                  below == {q \in DOMAIN tree : q # << >> /\ SubSeq(q, 1, Len(q) - 1) = p}
              IN  /\ \A j, k \in DOMAIN ls : ls[j] = ls[k] => j = k
                  /\ {ls[k] : k \in DOMAIN ls} = {".", ".."} \cup {Name(q) : q \in below}
        /\ pwd.ok => pwd.path \in DOMAIN tree /\ tree[pwd.path].no = cwd

\* The ASSERT of dir_remove: a directory without entries has one block.
EmptiedIsSmall == halt # "grown"

\* A read returns what the file holds (file_read).
ReadBack ==
    Running => \A i \in DOMAIN fds, cnt \in Counts : \A pos \in 0 .. InodeOpen(i).size - 1 :
        LET size == ReadSize(i, pos, cnt)
        IN  Readable(pos, size) => \A u \in 0 .. size - 1 : FileRead(i, pos, size)[u] = fds[i]
=============================================================================
