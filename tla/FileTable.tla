------------------------------ MODULE FileTable ------------------------------
(***************************************************************************)
(* Open files: the descriptors of the processes, the file_table they share,*)
(* and the inodes in memory (fs/file.c, fs/inode.c, fs/fs.c, user/pipe.c,  *)
(* the parts of user/fork.c and user/wait_exit.c about files).             *)
(*                                                                         *)
(* A process gives up the processor inside a call only when it sleeps for  *)
(* the disk, so a call is cut there: open while it reads the inode, create *)
(* and unlink while they write the directory.  Files are names of the root *)
(* directory; what is in them is FileSys's subject.                        *)
(*                                                                         *)
(* Files are created by the boot thread, as in main.c.  A process that     *)
(* created one would get its inode from its own heap (file_create does not *)
(* hide pgdir, as inode_open does), where no other process can read it.    *)
(***************************************************************************)
EXTENDS Integers, Sequences, SequencesExt, FiniteSets

CONSTANTS
    Procs,       \* processes
    Boot,        \* the boot thread
    Names,       \* file names
    NumSlots,    \* MAX_FILES_OPEN, less the 3 standard ones
    NumFds,      \* MAX_FILES_OPEN_PER_PROC, less the 3 standard ones
    MaxLost,     \* bound: opens and pipes whose slot nobody can close
    Overlap,     \* calls of different processes overlap while they sleep
    ShareFiles,  \* programs fork while they have files open
    None, Page   \* NULL, and the page of a pipe's buffer

ASSUME SizesAssumption == {NumSlots, NumFds} \subseteq Nat \ {0}

VARIABLES
    table,   \* file_table
    fds,     \* fdtable of each process
    inodes,  \* the struct inodes allocated
    open,    \* open_inodes, first element first
    dir,     \* the entries on disk: name and inode number
    imap,    \* inode bitmap
    call,    \* what each process is in the middle of
    state,   \* which processes exist
    lost,    \* slots and pipe descriptors that no process can close
    halt     \* why the machine stopped

vars == <<table, fds, inodes, open, dir, imap, call, state, lost, halt>>

Callers == Procs \cup {Boot}
Slots == 1 .. NumSlots
Fds == 1 .. NumFds
Ids == 1 .. NumSlots + Cardinality(Callers)  \* inodes in memory at a time
Inos == 1 .. Cardinality(Names) + Cardinality(Callers)  \* they do not run out

ASSUME NamesAssumption ==
    /\ IsFiniteSet(Procs) /\ IsFiniteSet(Names)
    /\ Boot \notin Procs
    /\ None # Page /\ {None, Page} \cap (Slots \cup Ids \cup Inos) = {}

FreeSlot == [inode |-> None, pipe |-> FALSE, write |-> FALSE, pos |-> 0]
Opened(i, w) == [inode |-> i, pipe |-> FALSE, write |-> w, pos |-> 0]
NoInode == [ino |-> None, cnt |-> 0, deny |-> FALSE]
Idle == [op |-> "none", name |-> None, ino |-> None, slot |-> None,
         inode |-> None, write |-> FALSE]

Init ==
    /\ table = [s \in Slots |-> FreeSlot]
    /\ fds = [p \in Callers |-> [f \in Fds |-> None]]
    /\ inodes = [i \in Ids |-> NoInode]
    /\ open = << >>
    /\ dir = {}
    /\ imap = {}
    /\ call = [p \in Callers |-> Idle]
    /\ \E p \in Procs : state = [q \in Callers |-> q \in {p, Boot}]
    /\ lost = [slots |-> 0, fds |-> 0, boot |-> 0]
    /\ halt = "no"

-----------------------------------------------------------------------------
Least(S) == CHOOSE x \in S : \A y \in S : x <= y

\* get_free_slot_in_global and pcb_fd_install look for the first free place.
FreeSlots == {s \in Slots : table[s].inode = None}
FreeFds(p) == {f \in Fds : fds[p][f] = None}
FreeIds == {i \in Ids : inodes[i].ino = None}

\* inode_open's search of the list, None when the inode is not there.
Listed(ino) ==
    IF \E k \in DOMAIN open : inodes[open[k]].ino = ino
    THEN open[Least({k \in DOMAIN open : inodes[open[k]].ino = ino})]
    ELSE None

Ready(p, op) == halt = "no" /\ state[p] /\ call[p].op = op

\* The process starts a call.  Unless Overlap, the others are in none.
Starts(p) == Ready(p, "none") /\ (Overlap \/ \A q \in Callers : call[q].op = "none")

\* pcb_fd_install(s), after the file is in its slot; a call that fails here or
\* just before leaves the slot taken.
Install(p, s, allowed) ==
    LET ok == allowed /\ FreeFds(p) # {}
    IN  /\ fds' = IF ok THEN [fds EXCEPT ![p][Least(FreeFds(p))] = s] ELSE fds
        /\ lost' = IF ok THEN lost ELSE [lost EXCEPT !.slots = @ + 1]

Bounded == lost.slots + lost.fds < MaxLost

\* The end of file_open, with the inodes as they are now in ins.
FillSlot(p, s, i, write, ins) ==
    /\ table' = [table EXCEPT ![s] = Opened(i, write)]
    /\ inodes' = [ins EXCEPT ![i].deny = @ \/ write]
    /\ Install(p, s, ~(write /\ ins[i].deny))

\* sys_open and file_open up to the inode: found on the list, or to be read.
OpenCached(p, e, write) ==
    LET i == Listed(e[2])
    IN  /\ Starts(p) /\ Bounded
        /\ i # None
        /\ FreeSlots # {}
        /\ FillSlot(p, Least(FreeSlots), i, write, [inodes EXCEPT ![i].cnt = @ + 1])
        /\ UNCHANGED <<open, dir, imap, call, state, halt>>

OpenRead(p, e, write) ==
    /\ Starts(p) /\ Bounded
    /\ Listed(e[2]) = None
    /\ FreeSlots # {} /\ FreeIds # {}
    /\ inodes' = [inodes EXCEPT ![Least(FreeIds)].ino = e[2]]
    /\ call' = [call EXCEPT ![p] = [op |-> "open", name |-> e[1], ino |-> e[2],
                    slot |-> Least(FreeSlots), inode |-> Least(FreeIds),
                    write |-> write]]
    /\ UNCHANGED <<table, fds, open, dir, imap, state, lost, halt>>

\* The inode has been read: inode_open pushes it, file_open fills the slot it
\* chose before.
OpenEnd(p) ==
    LET c == call[p]
    IN  /\ Ready(p, "open")
        /\ open' = <<c.inode>> \o open
        /\ FillSlot(p, c.slot, c.inode, c.write,
                    [inodes EXCEPT ![c.inode].cnt = 1, ![c.inode].deny = FALSE])
        /\ call' = [call EXCEPT ![p] = Idle]
        /\ UNCHANGED <<dir, imap, state, halt>>

-----------------------------------------------------------------------------
\* file_create up to sync_dir_entry; without a free slot rollback_step 2 undoes
\* it all.
CreateBegin(p, n) ==
    LET i == Least(FreeIds)
        ino == Least(Inos \ imap)
        s == Least(FreeSlots)
    IN  /\ Starts(p) /\ Bounded /\ p = Boot
        /\ \A e \in dir : e[1] # n
        /\ FreeSlots # {} /\ FreeIds # {}
        /\ imap' = imap \cup {ino}
        /\ inodes' = [inodes EXCEPT ![i] = [ino |-> ino, cnt |-> 0, deny |-> FALSE]]
        /\ table' = [table EXCEPT ![s] = Opened(i, TRUE)]
        /\ call' = [call EXCEPT ![p] = [op |-> "create", name |-> n, ino |-> ino,
                        slot |-> s, inode |-> i, write |-> TRUE]]
        /\ UNCHANGED <<fds, open, dir, state, lost, halt>>

\* sync_dir_entry: between the read of the directory's block and the write of it
\* the process does not sleep.  It never fails, for bitmap_scan's ASSERT comes
\* before "directory is full".
CreateEntry(p) ==
    LET c == call[p]
    IN  /\ Ready(p, "create")
        /\ dir' = dir \cup {<<c.name, c.ino>>}
        /\ call' = [call EXCEPT ![p].op = "created"]
        /\ UNCHANGED <<table, fds, inodes, open, imap, state, lost, halt>>

\* The directory's and the new inode and the inode bitmap have been written.
CreateEnd(p) ==
    LET c == call[p]
    IN  /\ Ready(p, "created")
        /\ open' = <<c.inode>> \o open
        /\ inodes' = [inodes EXCEPT ![c.inode].cnt = 1]
        /\ Install(p, c.slot, TRUE)
        /\ call' = [call EXCEPT ![p] = Idle]
        /\ UNCHANGED <<table, dir, imap, state, halt>>

-----------------------------------------------------------------------------
\* Mutant of InodeClose: every close is the last.
InodeCloseAtOnce(st, i) == [st EXCEPT !.inodes[i] = NoInode, !.open = Remove(@, i)]

\* inode_close of inode i, in the state st of table, inodes, list and machine.
\* The last close takes it off the list and frees it; an inode that is not on
\* the list yet has no neighbours to link.
InodeClose(st, i) ==
    IF st.inodes[i].cnt # 1
    THEN [st EXCEPT !.inodes[i].cnt = @ - 1]
    ELSE IF i \notin Range(st.open) THEN [st EXCEPT !.halt = "fault"]
    ELSE [st EXCEPT !.inodes[i] = NoInode, !.open = RemoveFirst(@, i)]

\* file_close through slot s: an empty slot is a use of NULL.
FileClose(st, s) ==
    LET i == st.table[s].inode
    IN  IF i = None THEN [st EXCEPT !.halt = "fault"]
        ELSE InodeClose([st EXCEPT !.inodes[i].deny = FALSE,
                                   !.table[s] = FreeSlot], i)

\* Mutant of PipeClose: the page goes at the first close.
PipeCloseAtOnce(st, s) == [st EXCEPT !.table[s] = [FreeSlot EXCEPT !.pipe = TRUE]]

\* sys_close of a pipe: the last descriptor frees the page.
PipeClose(st, s) ==
    IF st.table[s].pos # 1 THEN [st EXCEPT !.table[s].pos = @ - 1]
    ELSE [st EXCEPT !.table[s] = [FreeSlot EXCEPT !.pipe = TRUE]]

CloseSlot(st, s) ==
    IF st.halt # "no" THEN st
    ELSE IF st.table[s].pipe THEN PipeClose(st, s) ELSE FileClose(st, s)

Files == [table |-> table, inodes |-> inodes, open |-> open, halt |-> halt]

Becomes(st) ==
    /\ table' = st.table
    /\ inodes' = st.inodes
    /\ open' = st.open
    /\ halt' = st.halt

\* Mutant of SysClose: the descriptor stays.
SysCloseKeepsFd(p, f) ==
    /\ Ready(p, "none")
    /\ fds[p][f] # None
    /\ Becomes(CloseSlot(Files, fds[p][f]))
    /\ UNCHANGED <<fds, dir, imap, call, state, lost>>

SysClose(p, f) ==
    /\ Ready(p, "none")
    /\ fds[p][f] # None
    /\ Becomes(CloseSlot(Files, fds[p][f]))
    /\ fds' = [fds EXCEPT ![p][f] = None]
    /\ UNCHANGED <<dir, imap, call, state, lost>>

\* The loop of release_prog_resource over the descriptors in row, in their order.
CloseAll(st, row) ==
    LET after[f \in 0 .. NumFds] ==
            IF f = 0 THEN st
            ELSE IF row[f] = None THEN after[f - 1]
            ELSE CloseSlot(after[f - 1], row[f])
    IN  after[NumFds]

\* release_prog_resource closes all that is open.
SysExit(p) ==
    /\ Ready(p, "none")
    /\ \E q \in Procs : q # p /\ state[q]  \* init does not exit
    /\ Becomes(CloseAll(Files, fds[p]))
    /\ fds' = [fds EXCEPT ![p] = [f \in Fds |-> None]]
    /\ state' = [state EXCEPT ![p] = FALSE]
    /\ UNCHANGED <<dir, imap, call, lost>>

\* The boot thread ends with thread_exit, which closes nothing.
BootExit ==
    /\ Ready(Boot, "none")
    /\ state' = [state EXCEPT ![Boot] = FALSE]
    /\ fds' = [fds EXCEPT ![Boot] = [f \in Fds |-> None]]
    /\ lost' = [lost EXCEPT !.boot = Cardinality({f \in Fds : fds[Boot][f] # None})]
    /\ UNCHANGED <<table, inodes, open, dir, imap, call, halt>>

\* sys_pipe: a slot with two descriptors, counted in fd_pos whether or not
\* pcb_fd_install finds places for them.
SysPipe(p) ==
    LET s == Least(FreeSlots)
        got == {f \in FreeFds(p) : Cardinality({g \in FreeFds(p) : g < f}) < 2}
    IN  /\ Starts(p) /\ Bounded
        /\ FreeSlots # {}
        /\ table' = [table EXCEPT ![s] = [inode |-> Page, pipe |-> TRUE,
                                          write |-> FALSE, pos |-> 2]]
        /\ fds' = [fds EXCEPT ![p] = [f \in Fds |-> IF f \in got THEN s ELSE @[f]]]
        /\ lost' = [lost EXCEPT !.fds = @ + 2 - Cardinality(got)]
        /\ UNCHANGED <<inodes, open, dir, imap, call, state, halt>>

\* sys_pipe does not look at what get_free_slot_in_global returns: with a full
\* file_table it writes the pipe into file_table[-1], over whatever lies there.
\* What the machine does after that is not modelled.
SysPipeFull(p) ==
    /\ Starts(p) /\ Bounded
    /\ FreeSlots = {}
    /\ halt' = "wild"
    /\ UNCHANGED <<table, fds, inodes, open, dir, imap, call, state, lost>>

Refs(p, s) == {f \in Fds : fds[p][f] = s}

\* update_inode_open_cnts: a pipe's fd_pos, or the open count of the inode.
SysFork(p, c) ==
    LET slots == {fds[p][f] : f \in Fds} \ {None}
        files == {s \in slots : ~table[s].pipe}
        Added(i) == Cardinality(UNION {Refs(p, s) : s \in {t \in files : table[t].inode = i}})
    IN  /\ Ready(p, "none") /\ ~state[c]
        /\ ~ShareFiles => files = {}
        /\ fds' = [fds EXCEPT ![c] = fds[p]]
        /\ state' = [state EXCEPT ![c] = TRUE]
        /\ table' = [s \in Slots |->
                IF s \in slots \ files
                THEN [table[s] EXCEPT !.pos = @ + Cardinality(Refs(p, s))]
                ELSE table[s]]
        /\ inodes' = [i \in Ids |-> [inodes[i] EXCEPT !.cnt = @ + Added(i)]]
        /\ halt' = IF \E s \in files : table[s].inode = None THEN "fault" ELSE halt
        /\ UNCHANGED <<open, dir, imap, call, lost>>

-----------------------------------------------------------------------------
InUse(ino) == \E s \in Slots : /\ table[s].inode \in Ids
                               /\ inodes[table[s].inode].ino = ino

\* Mutant of Unlink: the file_table is not looked at.
UnlinkUnchecked(p, e) ==
    /\ Starts(p)
    /\ call' = [call EXCEPT ![p] = [Idle EXCEPT !.op = "unlink", !.ino = e[2]]]
    /\ UNCHANGED <<table, fds, inodes, open, dir, imap, state, lost, halt>>

\* sys_unlink: search, and refuse a file that has a slot.
Unlink(p, e) ==
    /\ Starts(p)
    /\ ~InUse(e[2])
    /\ call' = [call EXCEPT ![p] = [Idle EXCEPT !.op = "unlink", !.ino = e[2]]]
    /\ UNCHANGED <<table, fds, inodes, open, dir, imap, state, lost, halt>>

\* delete_dir_entry looks for the inode number.
UnlinkEntry(p) ==
    /\ Ready(p, "unlink")
    /\ dir' = {e \in dir : e[2] # call[p].ino}
    /\ call' = [call EXCEPT ![p].op = "unlinked"]
    /\ UNCHANGED <<table, fds, inodes, open, imap, state, lost, halt>>

\* inode_release opens the inode (its read from disk is not cut here): one
\* that is listed gains a count, another is read and pushed.
ReleaseOpen(p) ==
    LET ino == call[p].ino
        old == Listed(ino)
        i == IF old = None THEN Least(FreeIds) ELSE old
    IN  /\ Ready(p, "unlinked")
        /\ inodes' = [inodes EXCEPT ![i].ino = ino, ![i].cnt = @ + 1]
        /\ open' = IF old = None THEN <<i>> \o open ELSE open
        /\ call' = [call EXCEPT ![p].op = "release", ![p].inode = i]
        /\ UNCHANGED <<table, fds, dir, imap, state, lost, halt>>

\* It gives back the number and closes the inode.
ReleaseEnd(p) ==
    /\ Ready(p, "release")
    /\ imap' = imap \ {call[p].ino}
    /\ Becomes(InodeClose(Files, call[p].inode))
    /\ call' = [call EXCEPT ![p] = Idle]
    /\ UNCHANGED <<fds, dir, state, lost>>

Spin == halt # "no" /\ UNCHANGED vars

Next ==
    \/ \E p \in Callers : \/ OpenEnd(p)
                          \/ CreateEntry(p)
                          \/ CreateEnd(p)
                          \/ UnlinkEntry(p)
                          \/ ReleaseOpen(p)
                          \/ ReleaseEnd(p)
    \/ \E p \in Callers, n \in Names : CreateBegin(p, n)
    \/ \E p \in Callers, e \in dir : Unlink(p, e)
    \/ \E p \in Callers, e \in dir, w \in BOOLEAN : OpenCached(p, e, w) \/ OpenRead(p, e, w)
    \/ \E p \in Callers, f \in Fds : SysClose(p, f)
    \/ BootExit
    \/ \E p \in Procs : SysExit(p) \/ SysPipe(p) \/ SysPipeFull(p)
    \/ \E p, c \in Procs : SysFork(p, c)
    \/ Spin

Spec == Init /\ [][Next]_vars

-----------------------------------------------------------------------------
Named(s) == UNION {{p} \X Refs(p, s) : p \in {q \in Callers : state[q]}}
IsFile(s) == table[s].inode \in Ids
IsPipe(s) == table[s].inode = Page
InCreation(s) == \E p \in Callers : call[p].op \in {"create", "created"} /\ call[p].slot = s

\* No call uses an inode through an empty slot, or unlinks one from a list it is
\* not on (file_close, inode_close, update_inode_open_cnts).
NoFault == halt # "fault"

\* A descriptor names a slot that is in use; a file's slot has one descriptor
\* and a pipe's fd_pos counts its descriptors, over all processes that share it
\* since fork.  What falls short of that are the slots of refused opens and of the
\* boot thread, and the descriptors sys_pipe found no place for, and no others.
DescriptorsExact ==
    halt = "no" =>
    /\ \A s \in Slots : table[s].inode = None => Named(s) = {}
    /\ \A s \in Slots : IsFile(s) => Cardinality(Named(s)) <= 1
    /\ Cardinality({s \in Slots : IsFile(s) /\ Named(s) = {} /\ ~InCreation(s)})
          = lost.slots + lost.boot
    /\ \A s \in Slots : IsPipe(s) => Cardinality(Named(s)) <= table[s].pos
    /\ lost.fds = 0 => \A s \in Slots : IsPipe(s) => Cardinality(Named(s)) = table[s].pos

\* An inode is in memory once, on the list, and counts its slots (and the
\* inode_release under way); a slot's inode has not been freed.  One being
\* created or read is not on the list yet.
CountsExact ==
    halt = "no" =>
    /\ \A s \in Slots : IsFile(s) => inodes[table[s].inode].ino # None
    /\ IsInjective(open)
    /\ \A i \in Range(open) :
          /\ inodes[i].ino # None
          /\ \A j \in Range(open) : inodes[j].ino = inodes[i].ino => j = i
          /\ inodes[i].cnt = Cardinality({s \in Slots : table[s].inode = i})
                + Cardinality({p \in Callers : call[p].op = "release" /\ call[p].inode = i})
    /\ \A i \in Ids \ Range(open) :
          inodes[i].ino # None => \E p \in Callers : call[p].op # "none" /\ call[p].inode = i

\* An open file keeps its number and its name: unlink refuses it, and create
\* does not hand its number out again.
OpenFileKept ==
    halt = "no" =>
    \A s \in Slots : IsFile(s) /\ ~InCreation(s) =>
        /\ inodes[table[s].inode].ino \in imap
        /\ \E e \in dir : e[2] = inodes[table[s].inode].ino

\* A file is not written through two slots (inode.h: write_deny).  TLC refutes
\* it for MCFileTable: file_create does not set write_deny, and any close of the
\* file clears it.
OneWriter ==
    \A s, t \in Slots : /\ IsFile(s) /\ table[s].write /\ Named(s) # {}
                        /\ IsFile(t) /\ table[t].write /\ Named(t) # {}
                        /\ inodes[table[s].inode].ino = inodes[table[t].inode].ino
                        => s = t
=============================================================================
