-------------------------------- MODULE Fat --------------------------------
(***************************************************************************)
(* What FatFs (fatfs/ff.c) does to the disk, one sector access at a time,  *)
(* when the shell writes, removes, renames and makes files and             *)
(* directories, with accesses that fail and the power going at any moment. *)
(*                                                                         *)
(* A FatFs function runs as a plan, todo: the accesses it makes, in order, *)
(* each with what it leaves in the FATFS and FIL objects.  All of a        *)
(* function's decisions rest on cells that it is the only one to change,   *)
(* so the plan can be drawn up at its start.  One f_write() is a plan for  *)
(* every turn of its loop.                                                 *)
(*                                                                         *)
(* Clusters are of one sector, and a sector holds two units of data.  The  *)
(* contents of a file are told apart by a stamp, new each time that a file *)
(* is opened for writing.  A name has one directory entry, at a place of   *)
(* its own.                                                                *)
(***************************************************************************)
EXTENDS Integers, Sequences, FiniteSets, TLC

CONSTANTS
  Names,           \* of the entries of the directory
  Last,            \* the last cluster, n_fatent - 1
  Sector(_),       \* of a cell
  Chunks,          \* the lengths f_write() is called with
  MaxCommands,     \* bound on the commands
  MaxLength,       \* bound on the length of files
  MaxFaults,       \* bound on the accesses that fail
  MaxLosses        \* bound on the losses of power

ASSUME FatAssumption ==
  /\ Last \in Nat /\ Last >= 2
  /\ Chunks \subseteq Nat \ {0}

VARIABLES
  disk, view, win, dirty,  \* see Window
  fs,              \* the FATFS object, and the FIL object open for writing
  todo,            \* what the FatFs function being run has still to do
  commands,        \* so far
  faults, losses,  \* so far
  stuck,           \* the drive reports an error, and does until it is reset
  doing,           \* what the operation being run is to make of names
  kept             \* what each name must hold, whatever happens

Clusters == 2..Last
Count == Last - 1                    \* n_fatent - 2
Unknown == Count + 1                 \* free_clst when it is not valid
EOC == Last + 1

FatOf(c) == <<"fat", c>>             \* the FAT's entry of a cluster
DirOf(n) == <<"dir", n>>             \* the directory entry of a name
DataOf(c) == <<"data", c>>           \* the contents of a cluster
Info == <<"info", 0>>                \* the FSInfo sector

Cells == {FatOf(c) : c \in Clusters} \cup {DirOf(n) : n \in Names}
           \cup {DataOf(c) : c \in Clusters} \cup {Info}

NoSector == <<"none", 0>>

INSTANCE Window

volume == <<disk, view, win, dirty>>
device == <<faults, losses, stuck>>
history == <<commands, device>>
fatVars == <<volume, fs, todo, history, doing, kept>>

\* Directory entries.
Entry(kind, clust, size) == [kind |-> kind, clust |-> clust, size |-> size]
NoEntry == Entry("none", 0, 0)

\* Contents of a sector: the k-th of the file with this stamp, n units of it.
Data(stamp, k, n) == <<stamp, k, n>>
Empty == Data(0, 0, 0)
Zeros == Data(0, 0, 1)
Dots == Data(0, 0, 2)                \* a directory with its two dot entries

\* What is promised of a name: a file with contents of a stamp, a directory, nothing.
Promise(kind, stamp, size) == [kind |-> kind, stamp |-> stamp, size |-> size]
Nothing == Promise("none", 0, 0)
Anything == Promise("any", 0, 0)     \* no promise
Renamed == Promise("renamed", 0, 0)  \* no promise: a rename was begun

Sectors(size) == (size + 1) \div 2
Units(size, k) == IF 2 * k <= size THEN 2 ELSE 1

Closed == [name |-> "", stamp |-> 0, sclust |-> 0, clust |-> 0, sect |-> 0, fptr |-> 0,
           dirty |-> FALSE, err |-> FALSE]

-----------------------------------------------------------------------------
(* The accesses a plan is made of. *)

Same == [x \in {} |-> x]             \* changes nothing in fs

\* The function f but for what is changed.
Over(change, f) ==
  [x \in DOMAIN change \cup DOMAIN f |-> IF x \in DOMAIN change THEN change[x] ELSE f[x]]

Do(access, cell, val, change) ==
  [access |-> access, cell |-> cell, val |-> val, change |-> change]

Look(cell) == Do("look", cell, Empty, Same)
PutCell(cell, val, change) == Do("put", cell, val, change)
Write(cell, val, change) == Do("write", cell, val, change)
Note(change) == Do("none", Info, Empty, change)

\* Mutation of SyncFs: the window is left for a later access to write.
SyncFsLater == <<Do("info", Info, Empty, [fsi_flag |-> FALSE])>>

\* sync_fs().
SyncFs == <<Do("sync", Info, Empty, Same), Do("info", Info, Empty, [fsi_flag |-> FALSE])>>

\* One more cluster of a chain of which k are known.
Further(m, before, k) ==
  LET nxt == m[FatOf(before[Len(before)])]
  IN  IF Len(before) = k /\ nxt \in Clusters THEN Append(before, nxt) ELSE before

\* The first clusters of a chain, as get_fat() follows it.
Following(m, c) ==
  LET follow[k \in 0..Count] == IF k = 0 THEN <<c>> ELSE Further(m, follow[k - 1], k)
  IN  follow

Chain(m, c) == IF c \in Clusters THEN Following(m, c)[Count] ELSE <<>>

Taken(m, c) == m[FatOf(c)] # 0

\* The clusters that remove_chain() frees: it stops at one that is free already.
TakenChain(m, c) ==
  LET chain == Chain(m, c)
  IN  IF chain # <<>> /\ ~Taken(m, chain[Len(chain)])
      THEN SubSeq(chain, 1, Len(chain) - 1) ELSE chain

\* free_clst when i more clusters are free.
Freed(i) ==
  IF fs.free_clst > Count THEN fs.free_clst
  ELSE IF fs.free_clst + i > Count THEN Count ELSE fs.free_clst + i

\* What is noted of the i-th cluster that is freed; FSInfo is left alone if the number of
\* free clusters is not known.
Noted(i) == [free_clst |-> Freed(i), fsi_flag |-> fs.fsi_flag \/ Freed(i - 1) < Count]

\* Mutation of RemoveChain: the free clusters are counted once for the whole chain.
RemoveChainOnce(c) ==
  LET chain == TakenChain(view, c)
  IN  [i \in 1..Len(chain) |-> PutCell(FatOf(chain[i]), 0, Noted(1))]

\* remove_chain().
RemoveChain(c) ==
  LET chain == TakenChain(view, c)
  IN  [i \in 1..Len(chain) |-> PutCell(FatOf(chain[i]), 0, Noted(i))]

\* The clusters after cluster s, up to s again.
Round(s) == [i \in 1..Count |-> 2 + ((s - 2 + i) % Count)]

\* The clusters that create_chain() tries, in order, for a chain that ends in clst.
Tried(clst) ==
  LET valid == fs.last_clst \in Clusters
  IN  IF clst = 0 THEN Round(IF valid THEN fs.last_clst ELSE 1)
      ELSE <<Round(clst)[1]>> \o Round(IF valid THEN fs.last_clst ELSE clst)

\* How many of them it looks at before one is free.
Passed(clst) ==
  IF fs.free_clst = 0 THEN 0
  ELSE LET tried == Tried(clst)
           free == {i \in 1..Len(tried) : ~Taken(view, tried[i])}
       IN  IF free = {} THEN Len(tried) ELSE (CHOOSE i \in free : \A j \in free : i <= j) - 1

\* What create_chain() returns: a free cluster, or 0.
NewCluster(clst) ==
  IF fs.free_clst = 0 \/ Passed(clst) = Len(Tried(clst)) THEN 0
  ELSE Tried(clst)[Passed(clst) + 1]

\* create_chain(); the files are only ever extended at their end.
CreateChain(clst, change) ==
  LET ncl == NewCluster(clst)
      got == Over(change, [last_clst |-> ncl, fsi_flag |-> TRUE,
                           free_clst |-> IF fs.free_clst <= Count THEN fs.free_clst - 1
                                                                  ELSE fs.free_clst])
  IN  (IF clst = 0 THEN <<>> ELSE <<Look(FatOf(clst))>>)
        \o [i \in 1..Passed(clst) |-> Look(FatOf(Tried(clst)[i]))]
        \o (IF ncl = 0 THEN <<>>
            ELSE IF clst = 0 THEN <<PutCell(FatOf(ncl), EOC, got)>>
            ELSE <<PutCell(FatOf(ncl), EOC, Same), PutCell(FatOf(clst), ncl, got)>>)

-----------------------------------------------------------------------------
(* The FatFs functions, as plans. *)

AtRest == todo = <<>> /\ fs.left = 0

\* A command works on names, to make of them what result says; until it is done nothing
\* is promised of them.
Begin(plan, result, meanwhile) ==
  /\ todo' = plan
  /\ commands' = commands + 1
  /\ doing' = result
  /\ kept' = Over([n \in DOMAIN result |-> meanwhile], kept)

\* A volume on which two names share a chain is for a repair program.
Crossed(m) ==
  \E a, b \in Names : a # b /\ m[DirOf(a)].clust # 0 /\ m[DirOf(a)].clust = m[DirOf(b)].clust

\* The shell runs one command at a time, and none has two files open for writing.
Ready == AtRest /\ fs.fp = Closed /\ ~Crossed(view) /\ commands < MaxCommands

\* Mutation of OpenPlan: the chain of a file that is overwritten is forgotten.
OpenPlanForgetting(n, fp) ==
  <<Look(DirOf(n)), PutCell(DirOf(n), Entry("file", 0, 0), Same), Note([fp |-> fp])>>

\* f_open() with FA_WRITE | FA_CREATE_ALWAYS: what there is of the file is given up,
\* its entry first.
OpenPlan(n, fp) ==
  LET old == view[DirOf(n)].clust
  IN  <<Look(DirOf(n)), PutCell(DirOf(n), Entry("file", 0, 0), Same)>>
        \o RemoveChain(old)
        \o (IF old = 0 THEN <<>> ELSE <<Note([last_clst |-> old - 1]), Look(DirOf(n))>>)
        \o <<Note([fp |-> fp])>>

Open(n) ==
  /\ Ready
  /\ view[DirOf(n)].kind # "dir"
  /\ Begin(OpenPlan(n, [Closed EXCEPT !.name = n, !.stamp = commands + 1]), n :> Anything, Anything)
  /\ UNCHANGED <<volume, fs, device>>

\* f_write() of a number of units begins.
WriteFile(btw) ==
  /\ AtRest /\ fs.fp # Closed /\ ~fs.fp.err
  /\ fs.fp.fptr + btw <= MaxLength
  /\ fs' = [fs EXCEPT !.left = btw]
  /\ UNCHANGED <<volume, todo, history, doing, kept>>

\* The FIL object's buffer: the sector that the file ends in.
Buffered(fp) == Data(fp.stamp, Sectors(fp.fptr), Units(fp.fptr, Sectors(fp.fptr)))

FlushBuffer(fp, change) ==
  IF fp.dirty THEN <<Write(DataOf(fp.sect), Buffered(fp), change)>> ELSE <<>>

\* A turn of its loop, inside a sector: into the buffer.
FillBuffer ==
  /\ todo = <<>> /\ fs.left > 0 /\ fs.fp.fptr % 2 = 1
  /\ fs' = [fs EXCEPT !.fp.fptr = @ + 1, !.fp.dirty = TRUE, !.left = @ - 1]
  /\ UNCHANGED <<volume, todo, history, doing, kept>>

\* A turn of its loop, at the start of a sector, which is a new cluster: the buffer is
\* written, and then a whole sector directly, or less of one into the buffer.
NextSector ==
  LET fp == fs.fp
      ncl == NewCluster(fp.clust)
      got == [fp EXCEPT !.clust = ncl, !.sclust = IF @ = 0 THEN ncl ELSE @]
      clean == [got EXCEPT !.dirty = FALSE]
  IN  /\ todo = <<>> /\ fs.left > 0 /\ fp.fptr % 2 = 0
      /\ todo' = CreateChain(fp.clust, [fp |-> got]) \o
                 IF ncl = 0 THEN <<Note([left |-> 0])>>
                 ELSE FlushBuffer(fp, [fp |-> clean]) \o
                      IF fs.left >= 2
                      THEN <<Write(DataOf(ncl), Data(fp.stamp, Sectors(fp.fptr + 2), 2),
                                   [fp |-> [clean EXCEPT !.fptr = @ + 2], left |-> fs.left - 2])>>
                      ELSE <<Note([fp |-> [clean EXCEPT !.sect = ncl, !.fptr = @ + 1, !.dirty = TRUE],
                                   left |-> 0])>>
      /\ UNCHANGED <<volume, fs, history, doing, kept>>

FileEntry(fp) == Entry("file", fp.sclust, fp.fptr)

\* Mutation of ClosePlan: the directory entry is written before the last of the data.
ClosePlanEntryFirst(fp) ==
  <<PutCell(DirOf(fp.name), FileEntry(fp), Same)>> \o SyncFs \o FlushBuffer(fp, Same)

\* f_close(), which is f_sync(): the data before the entry that counts it.
ClosePlan(fp) ==
  FlushBuffer(fp, Same) \o <<PutCell(DirOf(fp.name), FileEntry(fp), Same)>> \o SyncFs

\* Whatever f_close() returns, its callers have no further use of the FIL object.
Close ==
  LET fp == fs.fp
  IN  /\ AtRest /\ fp # Closed
      /\ todo' = ClosePlan(fp)
      /\ doing' = fp.name :> Promise("file", fp.stamp, fp.fptr)
      /\ fs' = [fs EXCEPT !.fp = Closed]
      /\ UNCHANGED <<volume, history, kept>>

\* Mutation of UnlinkPlan: the chain goes before the entry that leads to it.
UnlinkPlanChainFirst(n) ==
  LET old == view[DirOf(n)]
  IN  <<Look(DirOf(n))>> \o RemoveChain(old.clust)
        \o <<PutCell(DirOf(n), NoEntry, Same)>> \o SyncFs

\* f_unlink(); a directory is looked at, and found to be empty.
UnlinkPlan(n) ==
  LET old == view[DirOf(n)]
  IN  <<Look(DirOf(n))>> \o (IF old.kind = "dir" THEN <<Look(DataOf(old.clust))>> ELSE <<>>)
        \o <<PutCell(DirOf(n), NoEntry, Same)>> \o RemoveChain(old.clust) \o SyncFs

Unlink(n) ==
  /\ Ready
  /\ view[DirOf(n)] # NoEntry
  /\ Begin(UnlinkPlan(n), n :> Nothing, Anything)
  /\ UNCHANGED <<volume, fs, device>>

\* f_mkdir(); the window is filled for dir_clear(), which writes it, and then changed.
MkdirPlan(n) ==
  LET dcl == NewCluster(0)
  IN  <<Look(DirOf(n))>> \o CreateChain(0, [dcl |-> dcl]) \o
      IF dcl = 0 THEN <<>>
      ELSE <<Do("clear", DataOf(dcl), Zeros, Same), Write(DataOf(dcl), Zeros, Same),
             PutCell(DataOf(dcl), Dots, Same), PutCell(DirOf(n), Entry("dir", dcl, 0), [dcl |-> 0])>>
           \o SyncFs

Mkdir(n) ==
  /\ Ready
  /\ view[DirOf(n)] = NoEntry
  /\ Begin(MkdirPlan(n), n :> IF NewCluster(0) = 0 THEN kept[n] ELSE Promise("dir", 0, 0), Anything)
  /\ UNCHANGED <<volume, fs, device>>

\* f_rename(): the new entry is made before the old one goes.
RenamePlan(a, b) ==
  <<Look(DirOf(a)), PutCell(DirOf(b), view[DirOf(a)], Same),
    PutCell(DirOf(a), NoEntry, Same)>> \o SyncFs

Rename(a, b) ==
  /\ Ready
  /\ view[DirOf(a)] # NoEntry /\ view[DirOf(b)] = NoEntry
  /\ Begin(RenamePlan(a, b), (a :> Nothing) @@ (b :> kept[a]), Renamed)
  /\ UNCHANGED <<volume, fs, device>>

\* f_getfree() counts the free clusters when it does not know them.
GetFree ==
  /\ Ready /\ fs.free_clst > Count
  /\ todo' = [i \in 1..Count |-> Look(FatOf(i + 1))] \o
             <<Note([free_clst |-> Cardinality({c \in Clusters : ~Taken(view, c)}),
                     fsi_flag |-> TRUE])>>
  /\ commands' = commands + 1
  /\ UNCHANGED <<volume, fs, device, doing, kept>>

\* Something is read: the directory, or the chain of a file (that is being copied).
Read(cell) ==
  /\ AtRest
  /\ todo' = <<Look(cell)>>
  /\ UNCHANGED <<volume, fs, history, doing, kept>>

-----------------------------------------------------------------------------
(* The accesses, done and failing; the power going. *)

\* Before anything else, the window is written.
Synchronise ==
  /\ todo # <<>>
  /\ \/ Head(todo).access \in {"look", "put"} /\ Moves(Head(todo).cell)
     \/ Head(todo).access \in {"clear", "sync"}
  /\ ~stuck
  /\ SyncWindow
  /\ UNCHANGED <<fs, todo, history, doing, kept>>

\* The last access of a plan makes its result something to be relied on.
Proceed(change) ==
  /\ todo' = Tail(todo)
  /\ fs' = Over(change, fs)
  /\ IF Tail(todo) = <<>> THEN doing' = Same /\ kept' = Over(doing, kept)
                          ELSE UNCHANGED <<doing, kept>>
  /\ UNCHANGED history

\* An access that the drive has no part in.
Cached(step) ==
  \/ step.access \in {"clear", "sync", "none"}
  \/ step.access \in {"look", "put"} /\ ~Moves(step.cell)

Access ==
  /\ todo # <<>>
  /\ LET step == Head(todo)
     IN  /\ stuck => Cached(step)
         /\ \/ step.access = "look" /\ MoveWindow(step.cell)
            \/ step.access = "put" /\ Change(step.cell, step.val)
            \/ step.access = "write" /\ DiskWrite(step.cell, step.val)
            \/ step.access = "clear" /\ FillWindow(step.cell, step.val)
            \/ step.access = "sync" /\ ~dirty /\ UNCHANGED volume
            \/ step.access = "none" /\ UNCHANGED volume
         /\ Proceed(step.change)

\* FSInfo, filled in in the window and written if it is out of date.
FsInfo == <<fs.free_clst, fs.last_clst>>

WriteInfo ==
  /\ todo # <<>> /\ Head(todo).access = "info"
  /\ IF fs.fsi_flag
     THEN /\ ~stuck
          /\ win' = Sector(Info)
          /\ view' = [disk EXCEPT ![Info] = FsInfo]
          /\ disk' = [disk EXCEPT ![Info] = FsInfo]
          /\ UNCHANGED dirty
     ELSE UNCHANGED volume
  /\ Proceed(Head(todo).change)

\* disk_data_readwrite() fails: the drive was too slow this once, or reports an error.
\* As every access begins with a wait for a status without errors, and only a command
\* makes the drive forget one, no access succeeds from then on.
DriveFails ==
  /\ stuck \/ faults < MaxFaults
  /\ stuck' \in {stuck, TRUE}
  /\ faults' = IF stuck THEN faults ELSE faults + 1
  /\ UNCHANGED <<commands, losses>>

\* Nobody looks whether that failed.
WriteInfoFails ==
  /\ todo # <<>> /\ Head(todo).access = "info" /\ fs.fsi_flag
  /\ DriveFails
  /\ FillWindow(Info, FsInfo)
  /\ todo' = Tail(todo)
  /\ fs' = Over(Head(todo).change, fs)
  /\ doing' = Same /\ kept' = Over(doing, kept)

\* The driver reports an error: f_write() will have no more to do with the file,
\* f_mkdir() gives back the cluster it got, and any other function just ends.
Fail ==
  /\ todo # <<>>
  /\ DriveFails
  /\ LET step == Head(todo)
     IN  \/ step.access \in {"look", "put"} /\ Moves(step.cell) /\ dirty /\ UNCHANGED volume
         \/ step.access \in {"look", "put"} /\ Moves(step.cell) /\ ReadFails
         \/ step.access \in {"clear", "sync"} /\ dirty /\ UNCHANGED volume
         \/ step.access = "write" /\ UNCHANGED volume
  /\ todo' = RemoveChain(fs.dcl)
  /\ fs' = [fs EXCEPT !.fp.err = @ \/ fs.left > 0, !.left = 0, !.dcl = 0]
  /\ doing' = Same
  /\ UNCHANGED kept

\* The FATFS object, after FSInfo has been read.
Mounted(info) ==
  [free_clst |-> info[1], last_clst |-> info[2], fsi_flag |-> FALSE,
   fp |-> Closed, left |-> 0, dcl |-> 0]

\* The drive is reset when the program starts.
Restart ==
  /\ losses < MaxLosses
  /\ PowerLoss
  /\ stuck' = FALSE
  /\ fs' = Mounted(disk[Info])
  /\ todo' = <<>> /\ doing' = Same
  /\ losses' = losses + 1
  /\ UNCHANGED <<commands, faults, kept>>

-----------------------------------------------------------------------------
FatInit ==
  /\ \E free \in {Count, Unknown} :
       disk = [c \in Cells |->
                 IF c[1] = "fat" THEN 0 ELSE IF c[1] = "dir" THEN NoEntry
                 ELSE IF c[1] = "data" THEN Empty ELSE <<free, 0>>]
  /\ view = disk /\ win = NoSector /\ dirty = FALSE
  /\ fs = Mounted(disk[Info])
  /\ todo = <<>> /\ doing = Same
  /\ commands = 0 /\ faults = 0 /\ losses = 0 /\ stuck = FALSE
  /\ kept = [n \in Names |-> Nothing]

FatNext ==
  \/ \E n \in Names : Open(n) \/ Unlink(n) \/ Mkdir(n)
  \/ \E a, b \in Names : Rename(a, b)
  \/ \E btw \in Chunks : WriteFile(btw)
  \/ \E n \in Names : Read(DirOf(n))
  \/ \E c \in Clusters : Read(FatOf(c))
  \/ FillBuffer \/ NextSector \/ Close \/ GetFree
  \/ Synchronise \/ Access \/ WriteInfo
  \/ WriteInfoFails \/ Fail \/ Restart

FatSpec == FatInit /\ [][FatNext]_fatVars

-----------------------------------------------------------------------------
(* Properties. *)

ChainOf(m, n) == Chain(m, m[DirOf(n)].clust)

\* On the disk, at any moment, every file has as many clusters as its size takes, with
\* the contents of one file in them, and every directory has its dot entries: a
\* directory entry never counts data that has not been written.
FilesWhole ==
  \A n \in Names :
    LET entry == disk[DirOf(n)]
        chain == ChainOf(disk, n)
    IN  /\ entry.kind = "file" =>
             /\ Len(chain) >= Sectors(entry.size)
             /\ \E stamp \in 0..MaxCommands : \A k \in 1..Sectors(entry.size) :
                  \E u \in Units(entry.size, k)..2 : disk[DataOf(chain[k])] = Data(stamp, k, u)
        /\ entry.kind = "dir" => disk[DataOf(entry.clust)] = Dots

\* On the disk, at any moment, no chain holds a free cluster and no cluster is in the
\* chains of two names, unless they are the two names of a rename cut short: the only
\* damage that a lost access or the power going can do.
ChainsApart ==
  \A a \in Names :
    LET chain == ChainOf(disk, a)
    IN  /\ \A i \in 1..Len(chain) : Taken(disk, chain[i])
        /\ \A b \in Names \ {a} :
             \/ disk[DirOf(a)] = disk[DirOf(b)] /\ Renamed \in {kept[a], kept[b]}
             \/ \A i \in 1..Len(chain) :
                  \A j \in 1..Len(ChainOf(disk, b)) : chain[i] # ChainOf(disk, b)[j]

\* A file that was closed, and a removal, renaming or directory that FatFs reported
\* done, is on the disk, through all that goes wrong with other files afterwards.
PromisesKept ==
  \A n \in Names :
    LET entry == disk[DirOf(n)]
    IN  kept[n] \notin {Anything, Renamed} =>
          /\ entry.kind = kept[n].kind
          /\ entry.kind = "file" =>
               /\ entry.size = kept[n].size
               /\ \A k \in 1..Sectors(entry.size) :
                    disk[DataOf(ChainOf(disk, n)[k])][1] = kept[n].stamp

InUse == UNION {{ChainOf(view, n)[i] : i \in 1..Len(ChainOf(view, n))} : n \in Names}
           \cup {Chain(view, fs.fp.sclust)[i] : i \in 1..Len(Chain(view, fs.fp.sclust))}

\* As long as nothing goes wrong, every cluster that is taken belongs to a name or to
\* the file being written: none is lost.
NothingLost ==
  AtRest /\ faults = 0 /\ losses = 0 => \A c \in Clusters : Taken(view, c) => c \in InUse

\* A count of free clusters that is believed is right; accesses that failed can only make
\* it too high, so that a volume is not taken for full that has room.  (After a loss of
\* power FSInfo can be older than the FAT, and the count be anything.)
FreeCounted ==
  LET free == Cardinality({c \in Clusters : ~Taken(view, c)})
  IN  AtRest /\ losses = 0 /\ fs.free_clst <= Count =>
        IF faults = 0 THEN fs.free_clst = free ELSE fs.free_clst >= free
=============================================================================
