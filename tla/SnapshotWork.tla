---------------------------- MODULE SnapshotWork ----------------------------
(***************************************************************************)
(* What the deferred work make_snapshot does (snapshot.c, lru-ng.c) and    *)
(* what blkdev-restore (restore.c) gets out of it.                         *)
(*                                                                         *)
(* Every device has an ordered workqueue, so its works run one at a time;  *)
(* the works of different devices run concurrently and share only the      *)
(* directory /snapshot.  The life of the queue and of the epoch pointers   *)
(* is the subject of DeviceEpochs: here an epoch starts with Mount, ends   *)
(* with Umount, and a write is caught by the probes.                       *)
(*                                                                         *)
(* A directory that is removed and made again is another directory: gen    *)
(* counts the removals of /snapshot, and a struct path is the value of gen *)
(* when it was taken.                                                      *)
(***************************************************************************)
EXTENDS Naturals, Sequences, SequencesExt

CONSTANTS
    Devs,         \* active devices; their base names differ
    Blocks,       \* blocks of a device
    Contents,     \* what a block may hold
    Garbage,      \* a payload put together from two records
    LruMax,       \* LRU_NG__LRU_MAX_ENTRIES
    NewMkdir,     \* Linux >= 6.15: vfs_mkdir returns an ERR_PTR
    Failures,     \* what may fail ...
    Faulty,       \* ... on these devices
    MaxEpoch,     \* bound: epochs of a device
    MaxQueue,     \* bound: works queued on a device
    MaxRecs,      \* bound: no write starts when the file has so many records
    MaxRm         \* bound: removals of /snapshot

AllFailures == {"queue", "lru_alloc", "lru_add", "mkdir", "notdir",
                "path_alloc", "create", "open", "write"}

ASSUME BoundsAssumption ==
    /\ LruMax \in Nat \ {0}
    /\ {MaxEpoch, MaxQueue, MaxRecs, MaxRm} \subseteq Nat
ASSUME FailuresAssumption == Failures \subseteq AllFailures /\ Faulty \subseteq Devs
ASSUME KernelAssumption == NewMkdir \in BOOLEAN
ASSUME GarbageAssumption == Garbage \notin Contents

VARIABLES
    disk,      \* contents of the devices
    orig,      \* contents when an epoch began
    mounted,   \* the device is mounted
    epoch,     \* number of epochs begun
    date,      \* epoch.first_mount_date, in seconds
    lru_ok,    \* epoch.cached_blocks is allocated
    lru,       \* epoch.cached_blocks, the least recently used first
    path,      \* epoch.path_snapdir; 0 is NULL
    queue,     \* works of the device
    gen,       \* which /snapshot directory this is
    top,       \* /snapshot exists
    subs,      \* its subdirectories, as <<device, date>>
    files,     \* those that have a snapblocks file
    recs,      \* the records in it
    pc,        \* where the running work is
    dsnap,     \* its d_snap
    filp       \* its snapblocks_filp

devvars == <<disk, orig, mounted>>
epvars == <<epoch, date>>
cachevars == <<lru_ok, lru>>
fsvars == <<gen, top, subs, files, recs>>
vars == <<devvars, epvars, cachevars, path, queue, fsvars, pc, dsnap, filp>>

CanFail(d, what) == d \in Faulty /\ what \in Failures

EpochNrs == 1..MaxEpoch
Dates == 0..MaxEpoch

\* The works of a device: make_snapshot with the block it holds, or
\* cleanup_epoch_work; both point to the epoch they were queued for
SnapWorks == [kind : {"snap"}, blk : Blocks, val : Contents, ep : EpochNrs]
CleanupWorks == [kind : {"cleanup"}, ep : EpochNrs]

\* A record of snapblocks: header and payload, or a header whose payload was
\* cut short when the write failed
Records == [blk : Blocks, val : Contents, cut : BOOLEAN]

Pcs == {"idle", "dir", "top", "mktop", "sub", "mksub", "file", "lookup",
        "write", "add", "fput", "fault"}

\* Every variable has its type.
TypeOK ==
    /\ disk \in [Devs -> [Blocks -> Contents]]
    /\ orig \in [Devs -> [EpochNrs -> [Blocks -> Contents]]]
    /\ mounted \in [Devs -> BOOLEAN]
    /\ epoch \in [Devs -> 0..MaxEpoch]
    /\ date \in [Devs -> [EpochNrs -> Dates]]
    /\ lru_ok \in [Devs -> [EpochNrs -> BOOLEAN]]
    /\ lru \in [Devs -> [EpochNrs -> Seq(Blocks)]]
    /\ path \in [Devs -> [EpochNrs -> Nat]]
    /\ queue \in [Devs -> Seq(SnapWorks \cup CleanupWorks)]
    /\ gen \in Nat
    /\ top \in BOOLEAN
    /\ subs \in SUBSET (Devs \X Dates)
    /\ files \in SUBSET subs
    /\ recs \in [Devs \X Dates -> Seq(Records)]
    /\ pc \in [Devs -> Pcs]
    /\ dsnap \in [Devs -> Nat]
    /\ filp \in [Devs -> [gen : Nat, recs : Seq(Records)]]

NoFile == [gen |-> 0, recs |-> <<>>]

Init ==
    /\ disk \in [Devs -> [Blocks -> Contents]]
    /\ orig = [d \in Devs |-> [k \in EpochNrs |-> disk[d]]]
    /\ mounted = [d \in Devs |-> FALSE]
    /\ epoch = [d \in Devs |-> 0]
    /\ date = [d \in Devs |-> [k \in EpochNrs |-> 0]]
    /\ lru_ok = [d \in Devs |-> [k \in EpochNrs |-> FALSE]]
    /\ lru = [d \in Devs |-> [k \in EpochNrs |-> <<>>]]
    /\ path = [d \in Devs |-> [k \in EpochNrs |-> 0]]
    /\ queue = [d \in Devs |-> <<>>]
    /\ gen = 1
    /\ top = FALSE
    /\ subs = {}
    /\ files = {}
    /\ recs = [n \in Devs \X Dates |-> <<>>]
    /\ pc = [d \in Devs |-> "idle"]
    /\ dsnap = [d \in Devs |-> 0]
    /\ filp = [d \in Devs |-> NoFile]

-----------------------------------------------------------------------------
(* The device.                                                             *)

\* The snapblocks file of an epoch
File(d, k) == recs[<<d, date[d][k]>>]

LastDate(d) == IF epoch[d] = 0 THEN 0 ELSE date[d][epoch[d]]

\* First mount: a new struct epoch, dated to the second; it may begin in the
\* second in which the one before began
Mount(d) ==
    LET k == epoch[d] + 1 IN
    /\ ~mounted[d]
    /\ epoch[d] < MaxEpoch
    /\ mounted' = [mounted EXCEPT ![d] = TRUE]
    /\ epoch' = [epoch EXCEPT ![d] = k]
    /\ \E t \in {LastDate(d), LastDate(d) + 1} :
          /\ t # 0
          /\ date' = [date EXCEPT ![d][k] = t]
    /\ orig' = [orig EXCEPT ![d][k] = disk[d]]
    /\ UNCHANGED <<disk, cachevars, path, queue, fsvars, pc, dsnap, filp>>

\* Last umount: the cleanup of the epoch is queued behind its works
Umount(d) ==
    /\ mounted[d]
    /\ mounted' = [mounted EXCEPT ![d] = FALSE]
    /\ queue' = [queue EXCEPT ![d] =
                    Append(@, [kind |-> "cleanup", ep |-> epoch[d]])]
    /\ UNCHANGED <<disk, orig, epvars, cachevars, path, fsvars, pc, dsnap, filp>>

\* Mutant: the work takes the block when it is written back
WriteQueuesNew(d, b, v) ==
    /\ mounted[d]
    /\ Len(queue[d]) < MaxQueue
    /\ Len(File(d, epoch[d])) < MaxRecs
    /\ disk' = [disk EXCEPT ![d][b] = v]
    /\ \/ queue' = [queue EXCEPT ![d] =
                       Append(@, [kind |-> "snap", blk |-> b,
                                  val |-> v, ep |-> epoch[d]])]
       \/ CanFail(d, "queue") /\ UNCHANGED queue
    /\ UNCHANGED <<orig, mounted, epvars, cachevars, path, fsvars, pc, dsnap,
                   filp>>

\* A write of SINGLEFILE-FS, under its inode lock: the block is read, changed
\* and written back; queue_snapshot_work queues what was read, unless one of
\* its two kmallocs fails
Write(d, b, v) ==
    /\ mounted[d]
    /\ Len(queue[d]) < MaxQueue
    /\ Len(File(d, epoch[d])) < MaxRecs
    /\ disk' = [disk EXCEPT ![d][b] = v]
    /\ \/ queue' = [queue EXCEPT ![d] =
                       Append(@, [kind |-> "snap", blk |-> b,
                                  val |-> disk[d][b], ep |-> epoch[d]])]
       \/ CanFail(d, "queue") /\ UNCHANGED queue
    /\ UNCHANGED <<orig, mounted, epvars, cachevars, path, fsvars, pc, dsnap,
                   filp>>

\* rm -r /snapshot, by hand
RemoveSnapshots ==
    /\ top
    /\ gen <= MaxRm
    /\ gen' = gen + 1
    /\ top' = FALSE
    /\ subs' = {}
    /\ files' = {}
    /\ recs' = [n \in Devs \X Dates |-> <<>>]
    /\ UNCHANGED <<devvars, epvars, cachevars, path, queue, pc, dsnap, filp>>

-----------------------------------------------------------------------------
(* lru-ng.c.                                                               *)

\* lru_ng_lookup of a block that is there makes it the most recently used
LruTouch(s, b) == Append(RemoveAt(s, CHOOSE i \in DOMAIN s : s[i] = b), b)

\* Mutant: the limit is compared with the length before the addition
LruAddLate(s, b) ==
    IF Len(s) <= LruMax THEN Append(s, b) ELSE Tail(Append(s, b))

\* lru_ng_add and enforce_lru_size_limit, which evicts one node
LruAdd(s, b) ==
    LET t == Append(s, b) IN IF Len(t) <= LruMax THEN t ELSE Tail(t)

-----------------------------------------------------------------------------
(* The file.  Headers are found one after the other: the search ends at    *)
(* what follows a payload that was cut, where no header begins.            *)

Visible(r) == {i \in DOMAIN r : \A j \in 1..(i - 1) : ~r[j].cut}

\* Mutant: the search looks at the first header only
FileLookupFirst(r, b) == r # <<>> /\ r[1].blk = b

\* Mutant: the cache is trusted and the file not searched
FileLookupNone(r, b) == b \notin Blocks /\ r = <<>>

\* file_lookup
FileLookup(r, b) == \E i \in Visible(r) : r[i].blk = b

\* The payload blkdev-restore reads for a header: the bytes of the next
\* record complete one that was cut
Payload(r, i) == IF r[i].cut THEN Garbage ELSE r[i].val

\* The options of blkdev-restore: -a, or one block (-n; -o alone means block 0)
Options == [all : BOOLEAN, blk : Blocks]

\* do_restore: the blocks found are written to the device, until a header is
\* not one or, at the end of the file, a payload is short.  A record is skipped
\* when its block is not the one asked for or the answer is not yes (-c
\* answers yes to all), and one block asked for ends the search when it has
\* been restored
Restore(r, dev, opt, yes) ==
    LET hits == {i \in Visible(r) : /\ opt.all \/ r[i].blk = opt.blk
                                    /\ i \in yes
                                    /\ ~(r[i].cut /\ i = Len(r))}
        restored == {i \in hits : opt.all \/ \A j \in hits : i <= j}
        Step(img, i) == IF i \in restored
                        THEN [img EXCEPT ![r[i].blk] = Payload(r, i)] ELSE img
    IN  FoldLeftDomain(Step, dev, r)

-----------------------------------------------------------------------------
(* make_snapshot.                                                          *)

Work(d) == Head(queue[d])
\* Mutant: the date is the one of the current epoch, not of the work
DirLate(d) == <<d, date[d][epoch[d]]>>

Dir(d) == <<d, date[d][Work(d).ep]>>
Goto(d, label) == pc' = [pc EXCEPT ![d] = label]

\* __make_snapshot_finish0, and the fput before it: the next work may run
Finish(d) ==
    /\ Goto(d, "idle")
    /\ queue' = [queue EXCEPT ![d] = Tail(@)]
    /\ dsnap' = [dsnap EXCEPT ![d] = 0]
    /\ filp' = [filp EXCEPT ![d] = NoFile]

\* ensure_cached_blocks_lru_ok and lru_ng_lookup
StartWork(d) ==
    LET k == Work(d).ep
        b == Work(d).blk
    IN  /\ pc[d] = "idle"
        /\ queue[d] # <<>>
        /\ Work(d).kind = "snap"
        /\ \/ /\ CanFail(d, "lru_alloc")
              /\ ~lru_ok[d][k]
              /\ Finish(d)
              /\ UNCHANGED cachevars
           \/ /\ lru_ok' = [lru_ok EXCEPT ![d][k] = TRUE]
              /\ \/ /\ Contains(lru[d][k], b)
                    /\ lru' = [lru EXCEPT ![d][k] = LruTouch(@, b)]
                    /\ Finish(d)
                 \/ /\ ~Contains(lru[d][k], b)
                    /\ Goto(d, "dir")
                    /\ UNCHANGED <<lru, queue, dsnap, filp>>
        /\ UNCHANGED <<devvars, epvars, path, fsvars>>

\* ensure_path_snapdir_ok: i_nlink tells a directory that has been removed
EnsureDir(d) ==
    LET k == Work(d).ep IN
    /\ pc[d] = "dir"
    /\ \/ path[d][k] = gen /\ Goto(d, "file") /\ UNCHANGED path
       \/ /\ path[d][k] # gen
          /\ path' = [path EXCEPT ![d][k] = 0]
          /\ Goto(d, "top")
    /\ UNCHANGED <<devvars, epvars, cachevars, queue, fsvars, dsnap, filp>>

\* mkdir_may_exist, the lookup of "snapshot"; a human may have put something
\* there that is no directory
LookupTop(d) ==
    /\ pc[d] = "top"
    /\ \/ /\ top
          /\ dsnap' = [dsnap EXCEPT ![d] = gen]
          /\ Goto(d, "sub")
          /\ UNCHANGED <<queue, filp>>
       \/ CanFail(d, "notdir") /\ Finish(d)
       \/ ~top /\ Goto(d, "mktop") /\ UNCHANGED <<queue, dsnap, filp>>
    /\ UNCHANGED <<devvars, epvars, cachevars, path, fsvars>>

\* mkdir_via_name_by_dent fails.  Before 6.15 the dentry is returned although
\* vfs_mkdir failed; it has no inode, which the next access does not survive
MkdirFails(d) ==
    \/ Finish(d)
    \/ ~NewMkdir /\ Goto(d, "fault") /\ UNCHANGED <<queue, dsnap, filp>>

\* Mutant: -EEXIST is a failure on every kernel
MkdirTopExists(d) ==
    /\ pc[d] = "mktop"
    /\ \/ /\ ~top
          /\ top' = TRUE
          /\ dsnap' = [dsnap EXCEPT ![d] = gen]
          /\ Goto(d, "sub")
          /\ UNCHANGED <<queue, filp>>
       \/ top /\ Finish(d) /\ UNCHANGED top
    /\ UNCHANGED <<devvars, epvars, cachevars, path, gen, subs, files, recs>>

\* vfs_mkdir of "snapshot"; when another device's work came first it is
\* -EEXIST, and the dentry looked up is the one of that directory
MkdirTop(d) ==
    /\ pc[d] = "mktop"
    /\ \/ /\ ~top
          /\ top' = TRUE
          /\ dsnap' = [dsnap EXCEPT ![d] = gen]
          /\ Goto(d, "sub")
          /\ UNCHANGED <<queue, filp>>
       \/ /\ top /\ ~NewMkdir
          /\ dsnap' = [dsnap EXCEPT ![d] = gen]
          /\ Goto(d, "sub")
          /\ UNCHANGED <<top, queue, filp>>
       \/ top /\ NewMkdir /\ Finish(d) /\ UNCHANGED top
       \/ CanFail(d, "mkdir") /\ ~top /\ MkdirFails(d) /\ UNCHANGED top
    /\ UNCHANGED <<devvars, epvars, cachevars, path, gen, subs, files, recs>>

\* kmalloc of the struct path, and path_snapdir_get
TakePath(d) ==
    \/ /\ path' = [path EXCEPT ![d][Work(d).ep] = dsnap[d]]
       /\ Goto(d, "file")
       /\ UNCHANGED <<queue, dsnap, filp>>
    \/ CanFail(d, "path_alloc") /\ Finish(d) /\ UNCHANGED path

\* mkdir_may_exist, the lookup of the subdirectory
LookupSub(d) ==
    LET found == dsnap[d] = gen /\ Dir(d) \in subs IN
    /\ pc[d] = "sub"
    /\ \/ found /\ TakePath(d)
       \/ CanFail(d, "notdir") /\ Finish(d) /\ UNCHANGED path
       \/ ~found /\ Goto(d, "mksub") /\ UNCHANGED <<path, queue, dsnap, filp>>
    /\ UNCHANGED <<devvars, epvars, cachevars, fsvars>>

\* Mutant: the subdirectory is not made
MkdirSubForgotten(d) ==
    /\ pc[d] = "mksub"
    /\ TakePath(d)
    /\ UNCHANGED <<devvars, epvars, cachevars, fsvars>>

\* vfs_mkdir of the subdirectory; nothing can be made in a removed directory
MkdirSub(d) ==
    /\ pc[d] = "mksub"
    /\ \/ /\ dsnap[d] = gen
          /\ subs' = subs \cup {Dir(d)}
          /\ TakePath(d)
       \/ /\ dsnap[d] # gen \/ CanFail(d, "mkdir")
          /\ MkdirFails(d)
          /\ UNCHANGED <<subs, path>>
    /\ UNCHANGED <<devvars, epvars, cachevars, gen, top, files, recs>>

\* create_snapblocks_file; nothing can be created in a removed directory
CreateFile(d, p) ==
    \/ /\ p = gen
       /\ files' = files \cup {Dir(d)}
       /\ \/ /\ filp' = [filp EXCEPT ![d] = [gen |-> p, recs |-> <<>>]]
             /\ Goto(d, "lookup")
             /\ UNCHANGED <<queue, dsnap>>
          \/ CanFail(d, "open") /\ Finish(d)
    \/ /\ p # gen \/ CanFail(d, "create")
       /\ Finish(d)
       /\ UNCHANGED files

\* ensure_snapblocks_file_ok.  An existing file is opened without a look at
\* the result of dentry_open
OpenFile(d) ==
    LET p == path[d][Work(d).ep]
        exists == p = gen /\ Dir(d) \in files
    IN  /\ pc[d] = "file"
        /\ \/ /\ exists
              /\ filp' = [filp EXCEPT ![d] = [gen |-> p, recs |-> recs[Dir(d)]]]
              /\ Goto(d, "lookup")
              /\ UNCHANGED <<queue, dsnap, files>>
           \/ /\ CanFail(d, "open") /\ exists
              /\ Goto(d, "fault")
              /\ UNCHANGED <<queue, dsnap, filp, files>>
           \/ CanFail(d, "notdir") /\ Finish(d) /\ UNCHANGED files
           \/ ~exists /\ CreateFile(d, p)
        /\ UNCHANGED <<devvars, epvars, cachevars, path, gen, top, subs, recs>>

\* Mutant: the result of the search is taken the wrong way round
SearchFileInverted(d) ==
    /\ pc[d] = "lookup"
    /\ Goto(d, IF FileLookup(filp[d].recs, Work(d).blk) THEN "write" ELSE "add")
    /\ UNCHANGED <<devvars, epvars, cachevars, path, queue, fsvars, dsnap, filp>>

SearchFile(d) ==
    /\ pc[d] = "lookup"
    /\ Goto(d, IF FileLookup(filp[d].recs, Work(d).blk) THEN "add" ELSE "write")
    /\ UNCHANGED <<devvars, epvars, cachevars, path, queue, fsvars, dsnap, filp>>

\* The file gets a record, if it is still the one of the directory
AppendRecord(d, cut) ==
    LET r == [blk |-> Work(d).blk, val |-> Work(d).val, cut |-> cut] IN
    /\ filp' = [filp EXCEPT ![d].recs = Append(@, r)]
    /\ recs' = IF filp[d].gen = gen
               THEN [recs EXCEPT ![Dir(d)] = Append(@, r)] ELSE recs

\* write_snapblock returns true when it succeeds, and make_snapshot goes to
\* __make_snapshot_finish1, past lru_ng_add, when the result is not 0
WriteRecord(d) ==
    /\ pc[d] = "write"
    /\ \/ AppendRecord(d, FALSE) /\ Goto(d, "fput")
       \/ /\ CanFail(d, "write")
          /\ AppendRecord(d, TRUE) \/ UNCHANGED <<filp, recs>>
          /\ Goto(d, "add")
    /\ UNCHANGED <<devvars, epvars, cachevars, path, queue, gen, top, subs,
                   files, dsnap>>

\* __make_snapshot_finish2
AddToLru(d) ==
    LET k == Work(d).ep IN
    /\ pc[d] = "add"
    /\ \/ lru' = [lru EXCEPT ![d][k] = LruAdd(@, Work(d).blk)]
       \/ CanFail(d, "lru_add") /\ UNCHANGED lru
    /\ Goto(d, "fput")
    /\ UNCHANGED <<devvars, epvars, lru_ok, path, queue, fsvars, dsnap, filp>>

EndWork(d) ==
    /\ pc[d] = "fput"
    /\ Finish(d)
    /\ UNCHANGED <<devvars, epvars, cachevars, path, fsvars>>

\* cleanup_epoch_work: destroy_an_epoch
CleanupEpoch(d) ==
    LET k == Work(d).ep IN
    /\ pc[d] = "idle"
    /\ queue[d] # <<>>
    /\ Work(d).kind = "cleanup"
    /\ lru_ok' = [lru_ok EXCEPT ![d][k] = FALSE]
    /\ lru' = [lru EXCEPT ![d][k] = <<>>]
    /\ path' = [path EXCEPT ![d][k] = 0]
    /\ Finish(d)
    /\ UNCHANGED <<devvars, epvars, fsvars>>

-----------------------------------------------------------------------------
\* Nothing is left to do, or a worker died
Rest ==
    /\ \/ \A d \in Devs : queue[d] = <<>> /\ ~mounted[d]
       \/ \E d \in Devs : pc[d] = "fault"
    /\ UNCHANGED vars

WorkNext(d) ==
    \/ StartWork(d) \/ EnsureDir(d) \/ LookupTop(d) \/ MkdirTop(d)
    \/ LookupSub(d) \/ MkdirSub(d) \/ OpenFile(d) \/ SearchFile(d)
    \/ WriteRecord(d) \/ AddToLru(d) \/ EndWork(d) \/ CleanupEpoch(d)

Next ==
    \/ \E d \in Devs : Mount(d) \/ Umount(d) \/ WorkNext(d)
    \/ \E d \in Devs, b \in Blocks, v \in Contents : Write(d, b, v)
    \/ RemoveSnapshots
    \/ Rest

Spec == Init /\ [][Next]_vars

-----------------------------------------------------------------------------
\* Restoring the blocks wanted from the snapshots of the last epoch back to
\* the k-th
RestoreBack(d, k, opt, want) ==
    LET epochs == [i \in 1..(epoch[d] - k + 1) |-> epoch[d] - i + 1]
        Yes(r) == {i \in DOMAIN r : r[i].blk \in want}
    IN  FoldLeft(LAMBDA img, j :
                    Restore(File(d, j), img, opt, Yes(File(d, j))),
                 disk[d], epochs)

\* Epochs that begin within the same second have one file; it belongs to the
\* first of them
FirstOfDate(d, k) ==
    CHOOSE j \in 1..k : /\ date[d][j] = date[d][k]
                        /\ \A i \in 1..(j - 1) : date[d][i] # date[d][k]

\* Devices on which nothing fails but the addition to the LRU
Reliable == {d \in Devs : d \in Faulty => Failures \subseteq {"lru_add"}}

\* README, "recover their data [...] before the mount operation", and
\* demo/utils.sh, which compares checksums: once the device is not mounted and
\* its works are done, restoring the snapshots of the epochs, the last one
\* first, gives back what the device held before each of the mounts (before
\* the first mount of a second), whatever fails on other devices meanwhile.
\* When only some blocks are restored the others stay as they are.
RestoreRecovers ==
    \A d \in Reliable : ~mounted[d] /\ queue[d] = <<>> /\ gen = 1 =>
        \A k \in 1..epoch[d] : FirstOfDate(d, k) = k =>
            \A opt \in Options, want \in SUBSET Blocks :
                LET chosen == {b \in want : opt.all \/ b = opt.blk}
                    img == RestoreBack(d, k, opt, want)
                IN  /\ \A b \in chosen : img[b] = orig[d][k][b]
                    /\ \A b \in Blocks \ chosen : img[b] = disk[d][b]

\* A snapblocks file holds each block at most once, as it was when the epoch
\* began: the works of a later epoch, of a later write to the block, or of a
\* block that was evicted from the LRU add nothing to it.
RecordsAreOriginals ==
    \A d \in Reliable : gen = 1 => \A k \in 1..epoch[d] :
        LET r == File(d, k) IN
        \A i \in Visible(r) :
            /\ Payload(r, i) = orig[d][FirstOfDate(d, k)][r[i].blk]
            /\ \A j \in Visible(r) : r[j].blk = r[i].blk => j = i

\* README, "The LRU is needed to cache the already written fs blocks": a block
\* is in the cache only if the file has it, whole.
CachedIsSaved ==
    \A d \in Devs : \A k \in 1..epoch[d] : \A b \in Range(lru[d][k]) :
        LET r == File(d, k) IN
        \E i \in Visible(r) : r[i].blk = b /\ ~r[i].cut

\* README, "if not found in LRU, it will be added into it and the block will
\* become the MRU": it is there when the work closes the file.
BecomesMRU ==
    \A d \in Devs : pc[d] = "fput" =>
        /\ lru[d][Work(d).ep] # <<>>
        /\ Last(lru[d][Work(d).ep]) = Work(d).blk

\* "The LRU has fixed size": a cache never outgrows its limit, and no block is
\* in it twice, although one node at most is evicted by an addition.
LruBounded ==
    \A d \in Devs : \A k \in EpochNrs :
        /\ Len(lru[d][k]) <= LruMax
        /\ IsInjective(lru[d][k])

\* Whatever fails, the writes of records included, and although /snapshot may be
\* removed under a work and blocks are evicted from the LRU: no block is twice
\* among the records that file_lookup and blkdev-restore find in a file, so a
\* restore never depends on their order.
OneRecordPerBlock ==
    \A n \in files : \A i, j \in Visible(recs[n]) :
        recs[n][i].blk = recs[n][j].blk => i = j

-----------------------------------------------------------------------------
(* The abstract specification: what is in a file, and what the works that  *)
(* are queued are going to put there, is the snapshot.                     *)

\* The records of a block in a file, and the works of a queue for the block
\* and the file: those of the epochs that began in the second t
RecordsOf(r, b) == {i \in DOMAIN r : r[i].blk = b}
QueuedFor(q, began, t, b) ==
    {i \in DOMAIN q : /\ q[i].kind = "snap"
                     /\ began[q[i].ep] = t
                     /\ q[i].blk = b}

\* What comes first for each block, the file before the queue
SnapshotOf(r, q, began, t) ==
    LET kept(b) == RecordsOf(r, b)
        queued(b) == QueuedFor(q, began, t, b)
    IN  [b \in {x \in Blocks : kept(x) \cup queued(x) # {}} |->
            IF kept(b) # {} THEN r[Min(kept(b))].val ELSE q[Min(queued(b))].val]

Snaps == [d \in Devs |-> [t \in 1..LastDate(d) |->
             SnapshotOf(recs[<<d, t>>], queue[d], date[d], t)]]

Abs == INSTANCE SnapshotSpec WITH snaps <- Snaps

\* Works that run after later writes, umounts and mounts, the cache that drops
\* works, its evictions and the search of the file never show: at any time the
\* files and the queued works together hold, for every epoch, the first
\* contents of the blocks written in it, and they hold them for good.
ImplementsSnapshotSpec == Abs!Spec

=============================================================================
