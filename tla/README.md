# TLA+ specifications of blkdev-snapshot

blkdev-snapshot is a Linux kernel module that saves the blocks of a block device
(or of a file behind a loop device) before a mounted file system overwrites
them, and a user program that writes the saved blocks back.  This directory
holds models of its concurrent and failure-prone parts, TLC configurations that
check them on small instances, and TLAPS proofs for instances of any size.

Source paths below are relative to the repository (`src/kernel`, `src/user`,
`demo`).

## 1. The system

| Component | Source | State it keeps | Operations |
|---|---|---|---|
| device registry | `devices.c`, `devices.h` | two rhashtables (block devices by `dev_t`, loop devices by backing file), one `struct object_data` per device: `e`, `wq`, `wq_is_destroyed`, two locks; `waddw_worklist` | `register_device`, `unregister_device`, `cleanup_object_data`, `destroy_devices` |
| epochs | `mounts.c`, `devices.h` | `struct epoch`: `n_currently_mounted`, `first_mount_date`, `path_snapdir`, `cached_blocks` | count a mount, count an umount, `cleanup_epoch_work`, `destroy_an_epoch` |
| mount and umount probes | `mounts.c`, `mounts.h`, `get-loop-backing-file.h` | per-call probe data | entry and return handlers on `do_move_mount`, `path_mount`, `path_umount` |
| exported snapshot interface | `snapshot.c`, `bdsnap.h` | none of its own | `bdsnap_search_device`, `bdsnap_make_snapshot`, `queue_snapshot_work` |
| deferred snapshot work | `snapshot.c` | `/snapshot/<device>-<date>/snapblocks` | `make_snapshot` |
| LRU cache | `lru-ng.c`, `lru-ng.h` | block numbers of an epoch | lookup, add, evict, destroy |
| SINGLEFILE-FS probes | `fs-support/singlefilefs.c` | `xkpblocks_ht`: one entry per writing thread | probes on `vfs_write`, `__bread_gfp`, `write_dirty_buffer`; hourly `periodic_taskcheck_xkpblocks_ht` |
| SINGLEFILE-FS | `demo/SINGLEFILE-FS` | inode lock, buffer cache | `onefilefs_write` |
| blkdev-restore | `user/restore.c` | none | read the records, write them to the device |
| module init and exit | `main.c` | what has been set up | set-up with roll back, exit |
| activation interface, password | `activation.c`, `passwd.c` | sysfs file or character device, a salted hash | authenticate, parse, activate or deactivate |
| blkdev-activation | `user/activation.c` | none | format and write one request |

How they interact:

- An activation request calls `register_device`, which puts an object with an
  ordered workqueue into the table; a deactivation removes it.
- Return probes of mount and umount look the object up under RCU, take
  `general_lock` and change the counter of its epoch.  The first mount allocates
  the epoch; the last umount detaches it and queues its cleanup on the device's
  workqueue, behind the works that use it.
- A write of SINGLEFILE-FS runs in one thread through three probes, which pass
  the old contents of the block through the thread's entry in `xkpblocks_ht`.
  The last probe calls `bdsnap_make_snapshot`, which queues a `make_snapshot` work
  carrying pointers *into* the epoch.
- Works of a device run one at a time, works of different devices concurrently;
  they share the directory `/snapshot`.
- A deactivation marks the workqueue (`wq_is_destroyed`, under
  `wq_destroy_lock`), detaches the epoch, and leaves flushing and destroying to a
  work on the system workqueue; the unload waits for those works.

What is hard: the three kinds of threads above meet on `obj->e` and on the
workqueue with different locks; pointers found under RCU are used after the
object was removed; events are counted after they happened; two devices race
for a directory; allocation and file operations fail half way; the module is
unloaded in the midst of all this.  `PROJECT.json` lists these hazards line by
line, each with the properties that are about it.

What makes each component correct:

- registry and epochs: no freed object, workqueue or epoch is used; nothing is
  freed twice or forgotten; the counter says how often the device is mounted;
  nothing outlives the module; every call returns;
- snapshot works: a file holds every block once, as it was when the epoch began,
  and restoring gives back the device; the cache names only blocks that are in
  the file and stays within its limit; what fails on one device leaves the others alone;
- probes: the block handed over is the one named, entries are unlinked once and
  by those who may, and orphans go away;
- mount probes: what is counted for a device is its mounts and nothing else;
- init, exit and activation: a request finds everything it uses and changes the
  tables as its caller, who must be authorised, says; a module that is gone, or
  could not be set up, leaves nothing; loading and removing come to an end;
- all of them together: the snapshot of an epoch restores the device.

## 2. Plan

| Step | Module | Content | State |
|---|---|---|---|
| 1 | `DeviceEpochs` | life of objects, workqueues and epochs | done |
| 2 | `DeviceEpochsProofs` | type correctness and three safety invariants, for all sizes | done |
| 3 | `SnapshotWork` | `make_snapshot`, LRU, files, restore | done |
| 4 | `SinglefilefsProbes` | probes and thread table | done |
| 5 | `SnapshotSpec` | abstract: an epoch is a map from blocks to their first contents; `SnapshotWork` implements it | done |
| 6 | `EndToEnd` | `DeviceEpochs` composed with writers, works and restore | done |
| 7 | `Registry`, `MountProbes` | keys of the tables; which calls are events | done |
| 8 | `Activation`, `Service` | init with roll back, exit, authentication, requests; composed with 7 | done |
| 9 | `SinglefilefsProbesProofs` | type correctness, its two invariants and its action property | done |
| 10 | `SnapshotWorkProofs`, `SnapshotRefinementProofs` | the invariants of `SnapshotWork`; the refinement of step 5 | done |
| 11 | `EpochLifeProofs` | epochs and the end of the module: `NoLostEpoch`, `NoWorkAfterUnload` | done |
| 12 | `ServiceProofs` | `NothingLeft`, `Layered`, `OnlyAsRequested` and `CountMatches` for `Service` | done |
| 13 | `EpochCountProofs` | counters and pointers: `CountMatchesMounts`, `NoUseAfterFree` | done |
| 14 | `EndToEndProofs` | `Recovers`, on top of step 13 | done |
| 15 | `SnapshotRefinementProofs` | `RestoreRecovers`: what `blkdev-restore` computes from any number of snapshots | done |
| 16 | `EndToEndProofs` | `EndToEnd` implements `DeviceEpochs`, and so inherits its invariants | done |

Modules to be proved about use no RECURSIVE operator; recursion over files is
written with the folds of the community modules.

## 3. The modules

### DeviceEpochs

One key of the hash tables: keys do not interact.  Elements of `Objs`, `Epochs`
and `Mounts` are allocations and are used once, so that a stale pointer is
recognisable.  Threads have a role: `Users` activate, deactivate and unload,
`Admins` mount and unmount, `Writers` write.  `pc[t]` is the place of a thread in
the functions its role calls (prefix `r_` register, `d_`/`c_` unregister and
`cleanup_object_data`, `x_` unload, `m_`/`u_` mount and umount events, `w_` write
probe), `data[t]` and `ref[t]` its object and epoch pointers.  Locks and RCU
sections are sets of places: a thread holds `general_lock` of `data[t]` while
`pc[t] \in LockPcs`.

| Action | Code |
|---|---|
| `MountCall`, `UmountCall` | the system call takes effect, before the return probe |
| `EventLookup`, `EventLock`, `AllocEpoch`, `AllocEpochFails`, `CountMount`, `CountUmount` | `__do_epoch_event_count` and its callbacks |
| `RegisterInit`, `RegisterInsert`, `RegisterFails` | `register_device` |
| `UnregisterLookup`, `UnregisterRemove` | `unregister_device` |
| `CleanupLock`, `CleanupMark`, `CleanupTake`, `CleanupDefer`, `CleanupDeferFails`, `CleanupList`, `FreeObject` | `cleanup_object_data`, `kfree_rcu` |
| `DestroyDevices`, `FlushWorklist` | `destroy_devices` |
| `SearchDevice`, `CheckValid`, `MakeLock`, `QueueCheck`, `QueueLoad`, `QueueAllocFails`, `QueueWork` | `bdsnap_search_device`, `bdsnap_make_snapshot`, `queue_snapshot_work` |
| `RunSnapshot`, `RunCleanupEpoch` | the device's workqueue |
| `WaddwDestroy`, `WaddwEpoch` | `wait_and_destroy_device_workqueue` |

`grace[o]` holds the readers a `kfree_rcu` still waits for.  `queue_snapshot_work`
reads `obj->e` without a lock several times; the compiler may keep or reload the
pointer, so `QueueWork` copies the date from either.  A writer that dereferences a
null `e` stops at `"oops"`, holding its locks.

Four switches describe the environment: `LazyUmount`, `OverlapEvents`,
`ActivateMounted`, `AllocMayFail`.

### SnapshotWork

What the works do, for several devices.  `disk` and `orig` are the contents of the
devices now and when an epoch began; a write changes the disk and queues the old
contents in one step, since SINGLEFILE-FS holds its inode lock meanwhile (that the
probes pair block and number correctly is the subject of `SinglefilefsProbes`).
`StartWork` .. `EndWork` follow `make_snapshot` from one access to shared state (the
directory tree) to the next; `Finish` is its error exit.  A removed and remade
`/snapshot` is told from the old one by `gen`; a struct path is the value of `gen` at
the time it was taken.  A record whose payload could not be written is `cut`: what
follows is no header for `file_lookup` (`Visible`), and restore takes bytes of the
next record for its payload (`Garbage`).  `Restore` is `do_restore` as a fold over the
records, or over one of them: `Options` are those of `blkdev-restore` (all blocks, or
one; with or without a question for each).  `NewMkdir` tells kernels from 6.15 on, whose `vfs_mkdir` returns an error
pointer.  `Failures` names what may fail, `Faulty` on which devices.

### SnapshotSpec

What `SnapshotWork` promises, without works, caches, files and directories: the
snapshots of a device are a sequence of maps from blocks to contents, and the first
write to a block since the mount adds what the block held.  The refinement mapping is in
`SnapshotWork`: `SnapshotOf` is what the file of a second holds *and* what the works that
are still queued for it will put into it, the file before the queue and the first record
or work of a block counting (`RecordsOf`, `QueuedFor`).  Every step of a work is then a
stutter, and the eviction of a block that is written again, a directory that is looked up
again or a work that runs in a later epoch would show as a step the abstract specification
does not have.

### EndToEnd

`DeviceEpochs` with the data.  Its actions are taken as they are; a write is cut at its
probes: `EnterWrite` (`bdsnap_test_device` decides whether the thread gets an entry),
`ChangeBlock` (under the inode lock), `ProbeWrite`, `ProbeSteps`, `QueueBlock`
(`bdsnap_search_device` .. `queue_snapshot_work`), `LeaveWrite`.  `load` are the blocks the
works of a queue carry, `saved` the snapshots, `base` the device before the first mount,
kept while it has been active ever since (`Covered`).  `make_snapshot` is one step that does
not fail, which `SnapshotWork` justifies for devices without failures.  `EarlyWrites`
allows writes to a mount whose call has not returned.

### Registry, MountProbes, Activation, Service

`Registry` is what the other three share: `up`, what the module has set up, and the
tables, as the set of keys in them with `n_currently_mounted`.  A device has a `TrueKey`,
its number or the full path of its image (`Image`).  What the code uses for a loop device
starts from `LoName`, its `lo_file_name`: the name that was given to `losetup`, cut to 63
characters.  A mount event is looked up under that name as it is (`MountKey`).  A request
goes through `get_full_path` first, with the name of the image file or, when it names the
device node, with `lo_file_name` (`PathKeys`).  `FullPath` says what `get_full_path` may make
of a name: nothing if there is no such file, and several things if the name is relative,
since that depends on who asks.  A device is `Misnamed` when its `lo_file_name` is not the
full path of its image, because it was cut, is relative or goes through a symbolic link.

`MountProbes` has one caller of mount and umount at a time.  The entry action is the
entry handler, which decides whether the call is an event; the call then fails or
succeeds, and `CallFails` and `CallReturns` are the return handler.  Between the two handlers
devices may be activated and the module may be removed and loaded again.  The handlers' races are the subject
of `DeviceEpochs`.  What the probes are not made for is marked: `odd` collects the active
keys to which it happened, by its cause (`OddCalls`, a misnamed loop device, activation of a
device in use) and never by a wrong counter.

`Activation` is the module from `insmod` to `rmmod`.  `todo` holds the steps still to
come, of the set-up, of its roll back or of the exit; `UndoStep` waits where
`sysfs_remove_file` and the semaphore do.  A request is one process: `Enter` copies,
parses and authenticates (`PasswordCmp` has the failing hash as a result of its own),
`DownRead` takes the semaphore, `LookupFails`, `FullPathFails` and `Reging` are the ways on, `Leave` returns.  `iface` is the build: sysfs or character device.

| Action | Code |
|---|---|
| `AttachEntry`, `MoveEntry` | `new_mount_entry_handler`, `is_root` |
| `OldMountEntry`, `RemountEntry` | `old_mount_entry_handler` |
| `UmountEntry` | `umount_entry_handler`, `path_starts_with` |
| `CallFails`, `CallReturns` | `mount_handler`, `umount_handler` |
| `LoadModule`, `SetupSucceeds`, `SetupFails` | `init_blkdev_snapshot_module` and the set-up functions |
| `StartExit`, `UndoStep` | `exit_blkdev_snapshot_module`, the destroy functions |
| `Enter` | `*_sysfs_store`, `activation_chrdev_ioctl`, `parse_call_args`, `auth_check`, `password_cmp` |
| `DownRead`, `LookupFails`, `FullPathFails`, `Reging` | `__do_device_reging_operation`, `try_to_insert_*`, `try_to_remove_*` |

`Service` lets the two take turns.  When a device that is in use is activated, it
becomes `odd` (`OddAfter`): in use (`InUse`) means that it has a mount that was not counted, or
that one is under way that will not be.  A mount that is between its two handlers and will be
counted does not make it odd, nor does a last umount that has taken effect but has not been
counted yet.

### SinglefilefsProbes

Threads run `onefilefs_write` (external: modelled from the demo's source, with its
inode lock) through the probes.  Contents carry the block they came from and a
version; `before[t]` is what the block about to be written held, `call` the last call
of `bdsnap_make_snapshot` made under the inode lock, and `clean` says whether the read
and its probe went undisturbed (no missed probe, no faulting read, no unload in
between).  `linked` are the entries in the
table, `pending` the `call_rcu` callbacks that have not run.  `module` follows
`unregister_fssupport_singlefilefs` step by step.  Switches: `UnloadBusy`,
`FaultReads`, `MissedProbes`, `OtherSize`.  With `OtherSize` a buffer may have another size than
4096 bytes (the demo never sets the block size of its super block): `WrongSize` then sends the
`write_dirty_buffer` handler to `RemoveAndBug`, which unlinks the entry and leaves the thread
at `"oops"`, with the inode lock.  `NextBucket` is the arithmetic of the periodic work.

`MC*` modules hold symmetry sets, the hash function of the small table, and the
assumption that TLC's `Epochs` are as many as its `Mounts`, so that the bound never
blocks an allocation.

## 4. The runs

| Run | Checks | Shows |
|---|---|---|
| `epochs_any_order` | `TypeOK`, `HandleLive`, `WorkqueueUsable`, `NoDoubleFree` | with all four switches on, two threads of each role: no freed object is used, no work reaches a destroyed workqueue, no epoch is freed twice |
| `epochs_liveness` | `WorkqueueDestroyed`, `DetachedEpochFreed`, `EveryCallReturns` | what was begun is carried through, the unload included |
| `end_to_end` | `NoUseAfterFree`, `CountMatchesMounts`, `NoWorkAfterUnload`, `NoLostEpoch`, `Recovers` | with the switches off and two activations of the device: works never point to a freed epoch, the counter is the number of mounts, nothing outlives the module, and the snapshot restores the device |
| `snap_restore` | `TypeOK`, `RestoreRecovers`, `RecordsAreOriginals`, `CachedIsSaved`, `LruBounded`, `ImplementsSnapshotSpec` | two epochs, an LRU of one block for two blocks, failing additions to it: the device, or the blocks asked for, are restored to each epoch, the cache keeps its limit, and the works implement `SnapshotSpec` |
| `snap_isolation` | `RestoreRecovers`, `OneRecordPerBlock` | old kernel, two devices racing for `/snapshot`, which may be removed under them; every failure on one, failing writes and opens included, does not disturb the other, and no block is found twice in a file |
| `probes` | `TypeOK`, `SavesWhatItNames`, `EntryStillLinked`, `OnlyExitRemoves` | two writers, data and inode blocks, unload while writing, missed probes, faulting reads, buffers of another size |
| `service` | `TypeOK`, `CountMatches`, `NothingLeft`, `Layered`, `OnlyAsRequested`, `LoaderReturns` | both interfaces, every step of the set-up failing, requests of anybody at any time, hashes that fail, two mount points with mounts of all kinds, a misnamed loop device |
| `epochs_lazy_umount` | `NoUseAfterFree` | violated, see section 7 |
| `snap_mkdir_race` | `RestoreRecovers` | violated |
| `snap_not_mru` | `BecomesMRU` | violated |
| `probes_orphans` | `OrphansRemoved` | violated, with the real stride of 50 and table of 2^18 buckets |
| `service_mount2` | `OldMountCounted` | violated |

Bounds:

- `MaxWorks = 1` in `DeviceEpochs` is the length of a queue at which no write
  *starts*; two writers that have started and an umount still queue three works.
  Use after free needs one work and one cleanup, double freeing two owners.
- `Objs`: two in `end_to_end`, so that a device is activated again while the
  destruction of its first workqueue is deferred; one in `epochs_any_order`, where two
  deactivations compete for it and late events find it.
- Two mounts give the counter the values 0, 1 and 2, and two epochs one after the
  other.
- `SnapshotWork`: two blocks and `LruMax = 1` make every addition of the other block an
  eviction; two epochs with up to three works queued let works of the first run in
  the second.  `MaxRecs` and `MaxRm` cap the writes and the removals of `/snapshot`.
  `snap_isolation` needs one block only, since the devices meet in the directory; two
  records let the block be written again after it was recorded, cut or forgotten by the
  cache, and one removal of `/snapshot` makes every struct path stale once.
- `SinglefilefsProbes`: two threads, one in each of two buckets, a run of the periodic
  work looks at one bucket.  `MaxPending = 1` stops new writes, not the threads that are
  under way, while a callback is pending.

- `EndToEnd`: one writer, one block with two contents, two mounts and two epochs.  A
  second write to the block has the first one's work before it in the queue
  (`MaxWorks = 2`); writers of one file do not interleave, the inode lock keeps them
  apart.
- `service`: two loop devices, `loop0` with its full path in `lo_file_name`, `loop1` with a
  name that leads to its own image or to that of `loop0`, depending on who asks (a disk
  differs from `loop0` only in that it has no image to be named by; `service_mount2` has
  two disks).  Two mount points, so that a counter takes the values 0, 1 and 2 and a file
  system has another one around it; two loads, so that a call may begin under one module
  and return under the next.  `MaxCount` keeps mount(2), which may be counted for a device
  that it does not mount, from raising a counter for ever.  The run does not look for
  deadlocks: when the loads are used up and nothing is mounted there is nothing that has to
  be done.

Symmetry is used in runs without liveness properties only, over sets whose elements
nothing tells apart.

## 5. Fairness

`DeviceEpochs`: no operation has to be started.  A thread that is inside an operation
continues (weak fairness of its steps), workers and grace periods make progress (weak
fairness of `KernelNext`), and a thread waiting for a spinlock or for the write side
of `wq_destroy_lock` gets it (strong fairness of `EventLock`, `CleanupLock`,
`CleanupMark`): the kernel's queued spinlocks and rwlocks serve waiters in turn.
`SinglefilefsProbes`: writing threads continue, the periodic work reschedules itself,
RCU callbacks run, an unload continues.
`Service`: the loader goes on with a set-up or an exit it has begun, and a request
inside the module goes on (weak fairness of `Loader` and of `Request`): both are threads
that run kernel code, and the only things they wait for are each other.  Nobody has to
load the module, to make a request or to mount anything.

## 6. What is proved

All theorems hold for any sets of threads, devices, blocks, objects and so on, any length
of queues and files and any values of the bounds, under the assumptions the modules state
of their constants: roles are disjoint, `Null` is neither object nor epoch, switches are
Boolean, bounds are natural numbers.  What a theorem needs beyond that is in its ASSUME and
in the tables below.  None of the invariants is inductive alone.

### DeviceEpochs

| Theorem (`DeviceEpochsProofs`) | States | Hypotheses |
|---|---|---|
| `TypeCorrect` | `Spec => []TypeOK` | none |
| `HandlesStayLive` | `Spec => []HandleLive` | none |
| `WorkqueuesUsable` | `Spec => []WorkqueueUsable` | none |
| `NoDoubleFrees` | `Spec => []NoDoubleFree` | none |

The inductive invariant is `TypeInv /\ ObjInv /\ QueueInv /\ OwnerInv`:

- `TypeInv` adds to the types that a pointer a thread is about to follow is one;
- `ObjInv` says why an object is still allocated: the table's object is live, a reader
  of a dying object is among those its grace period waits for, the thread that cleans
  up is alone and nobody else can find the object, an object under construction is
  invisible;
- `QueueInv` says that destruction is announced before it happens and that whoever
  holds `wq_destroy_lock` for reading holds it before the announcement: `CleanupMark`
  needs the write side;
- `OwnerInv` replaces the set of owners of an epoch by pairwise statements about the
  four kinds of owner (object, thread, deferred destruction, queued cleanup), which each
  action disturbs in one or two places only.

Each part has a lemma with one step per action (`TypeStep`, `ObjStep`, `QueueStep`,
`OwnerStep`); `Invariance` combines them.

| Theorem | States | Hypotheses |
|---|---|---|
| `EpochLifeProofs!EpochsNotLost` | `Spec => []NoLostEpoch` | `~AllocMayFail` |
| `EpochLifeProofs!NothingOutlivesModule` | `Spec => []NoWorkAfterUnload` | `~AllocMayFail` |
| `EpochCountProofs!CountsAreMounts` | `Spec => []CountMatchesMounts` | `~AllocMayFail`, `~OverlapEvents`, `~ActivateMounted` |
| `EpochCountProofs!NoUseOfFreedEpochs` | `Spec => []NoUseAfterFree` | the same and `~LazyUmount` |

The hypotheses are again those without which the code does something else: sections 4 and 7
name the run or the switch that shows it.

- `WayInv` follows an epoch on its way: two threads never hold `general_lock` of one object, a
  thread that is about to allocate an epoch finds none in the object, a user holds an epoch
  only between `c_take` and `c_defer`, an object is not marked or deferred before its cleanup
  gets there.  `AllOwned`, one owner for every live epoch, is inductive with it.  It is about
  the hand-over and no promise that each epoch is freed: an object that has been cleaned up
  counts as an owner too, and one that a late mount event gave an epoch keeps it (section 7).
- `UnloadInv` says that an unload is alone (`UnloadAlone`: the probes are gone and requests
  have left), that the objects still at work are in the table, with the thread that cleans up
  or in `waddw_worklist` (`Findable`, `NothingForgotten`), and that deferred works go from
  `flush` to `done` behind the queue.  It is what `destroy_devices` relies on when it flushes
  the list only.
- `CountInv` compares counter and mounts while an event is under way: a mount that is not yet
  counted is one too many, an umount one too few (`TableCount`); the umount of a device that
  was deactivated meanwhile still finds the counter of its object right (`UmountCount`).  The
  proof looks at the one admin that works (`Alone`, `LoneEvent`, `LoneTable`).
- `WriterInv` says that a writer keeps its mount, hence the counter above 0, hence the epoch it
  saw under `wq_destroy_lock`; this is the step a lazy umount breaks.
- `WorkInv` says where the epoch of a queued work is: in the object, with the thread or the
  deferred work that takes it away behind the queue, or in a cleanup work *further back in the
  same queue* (`SafeWork`).  `NoUseAfterFree` follows from this and `OwnerInv`
  (`UseNoFreed`).

### SnapshotWork

| Theorem (`SnapshotWorkProofs`) | States | Hypotheses |
|---|---|---|
| `TypeCorrect` | `Spec => []TypeOK` | none |
| `CachesBounded` | `Spec => []LruBounded` | none |
| `OneRecord` | `Spec => []OneRecordPerBlock` | none |
| `CachedAreSaved` | `Spec => []CachedIsSaved` | writes of records do not fail, `MaxRm = 0` |

| Theorem (`SnapshotRefinementProofs`) | States | Hypotheses |
|---|---|---|
| `OriginalsRecorded` | `Spec => []RecordsAreOriginals` | `NoMkdirRace` |
| `Refinement` | `Spec => ImplementsSnapshotSpec` | `Reliable = Devs`, `NoMkdirRace`, `MaxRm = 0` |
| `RestoringRecovers` | `Spec => []RestoreRecovers` | `NoMkdirRace` |

The hypotheses are what the code needs, and each is false in a run or in section 7 where
the property then fails: a block whose record could not be written is cached, a removed
`/snapshot` leaves its blocks in the LRU.  `NoMkdirRace` (an old kernel, or
one device) excludes the disagreement that `snap_mkdir_race` shows.  `Reliable` are the
devices on which nothing fails but the addition to the cache; `RecordsAreOriginals` and
`RestoreRecovers` speak of these only, whatever happens on the others, and the abstract specification has no failures
at all.  `snap_restore` satisfies all of them.

The first inductive invariant is `IInv == TypeInv /\ DeviceInv`:

- `TypeInv` adds to the types that the work that runs is at the head of its queue and belongs
  to an epoch that has begun, and that a path leads to a directory that exists unless
  `/snapshot` has been removed since;
- `CacheInv` says that a cache has no block twice and that a block the running work has
  missed in it is still missing when the work adds it: the works of a device run one after
  the other;
- `FileInv` and `SavedInv` say the same of the file: what the work found when it searched
  the file is what the file holds when it writes, and what is cached has been written.

`OneRecord` needs neither of the hypotheses of `CachedAreSaved`: it adds `OnceInv`, which speaks
of the records that can be found (`Visible`) instead of all.  The search of `file_lookup` stops
at a record that was cut, and so does everybody who reads the file later; a record that is
written behind it, for a block that the search could not see, is found by nobody
(`DistinctAppend`).  A work whose file was removed under it writes to the removed file.

A step of one device leaves all this alone on the others (`OtherFrame`, `FrameKeeps`), a
removal of `/snapshot` makes the hypotheses of `SavedInv` false (`RemoveKeeps`), and
`WorkKeeps` has one step per action of a work.

The second one, `RefInv`, adds for reliable devices:

- `WayInv`: a work knows where it is going, nobody else makes `/snapshot` between its
  lookup and its `vfs_mkdir` if the device is alone, seconds that have not come have no
  files; from it `SureSteps` concludes that a work never ends without its block in the file;
- `OrigInv`: what file and queue together hold for a block (`Held`) is what the block held
  when the first epoch of the second began, and a block for which they hold nothing has not
  been changed since.

`Held` is a relation between indexes, so that nothing has to be computed from a sequence.
The lemmas `HeldQueued`, `HeldRecorded`, `HeldWorkEnds`, `HeldDated` say how it changes when
a work is queued, a record written, a work ends, an epoch begins.  `MountImplements`,
`WriteImplements` and `StepImplements` map the steps: a mount in a new second and a first
write to a block are steps of `SnapshotSpec`, all others stutter (`SnapsKept`).

`RestoringRecovers` is about a computation, `Restore` for one snapshot and `RestoreBack` for
the snapshots from the last one back to epoch `k`; both are folds.  The induction it needs is
over numbers, and is stated for a set instead of a property (`Induction`, from `Least`), which
the provers can instantiate.  A fold is `CHOOSE` of a function that satisfies its equation, so
nothing is known of it until such a function is shown to exist: `Iterates` builds it, value by
value, for any step and any length.  `RestoreSteps` and `BackSteps` apply it to the two folds.

- `RestoreEffect`: after one snapshot the blocks of the records chosen hold what the records
  hold, if no two of these are of one block, and the other blocks are as before.
- `FileFacts`, from `SavedInv` and `OrigInv`: a file has one record per block, with what the
  block was when the first epoch of the second began, and lacks only the blocks for which
  nothing is held (`Unheld`).
- The third inductive invariant, `RestoreInv`, adds `BackInv` to `RefInv`: dates do not
  decrease from epoch to epoch, and a block for which nothing is held in a second is the same
  when the epoch of the next second begins.  This is a statement about *earlier* epochs, and
  `OrigInv` has it of the current one only.  It is needed because a snapshot does not have the
  blocks that were not written in its epoch: for these the restored device keeps what the
  later snapshot gave, which must be what it was one epoch earlier (`SameBefore`).

The induction goes backwards over the epochs: after `m` snapshots the blocks asked for are as
when the last epoch but `m - 1` began, and the others are untouched.

### SinglefilefsProbes

| Theorem (`SinglefilefsProbesProofs`) | States | Hypotheses |
|---|---|---|
| `TypeCorrect` | `Spec => []TypeOK` | none |
| `BlockAndNumberMatch` | `Spec => []SavesWhatItNames` | none |
| `EntriesRemovedOnce` | `Spec => []EntryStillLinked` | none |
| `OnlyExitsRemove` | `Spec => OnlyExitRemoves` | none |

The inductive invariant adds to the types that the table is finite (the unload counts its
entries), that the return probes are still registered while a handler is about to unlink an
entry (`RemovesOwn`: `unregister_kretprobes` waits for it, and the table is emptied later) and the
probe of `write_dirty_buffer` while its handler is about to, that a thread stopped by BUG has no
entry any more, and that between the read of a block and its write the entry of an undisturbed thread holds what
the block held (`HoldsBefore`).

### Service

| Theorem (`ServiceProofs`) | States | Hypotheses |
|---|---|---|
| `TypeCorrect` | `Spec => []TypeOK` | none |
| `TablesAsRequested` | `Spec => OnlyAsRequested` | none |
| `UnloadedLeavesNothing` | `Spec => []NothingLeft` | `~ReqMajor` |
| `PartsInPlace` | `Spec => []Layered` | `~ReqMajor` |
| `CountsAreMounts` | `Spec => []CountMatches` | `~ReqMajor` |

With `ReqMajor` the character device is never unregistered (section 7).

- `IInv == TypeOK /\ AuthInv /\ CallInv`: a request that gets to the tables has passed
  `auth_check`; a mount call under way finds the mount point as it was at its entry.
- `LoaderInv` relates the list of steps still to come and what is up: during the set-up, all
  that comes before the head of the list; during roll back and exit, exactly what the list
  holds, in an order in which files go first and the tables last.  The lemmas `ConsUndo`,
  `TailUndo`, `UndoLists`, `SetupLists` and `TailSetup` say that the lists of the code are such
  lists and stay so.
- `RequestInv` says that a request is inside a file that is there, and what it uses with it:
  `sysfs_remove_file` waits for it.
- `MarkInv` relates counters, mounts and the call under way, for the active keys to which
  nothing odd happened.  `CallCounts`: the return handler will count the call under a key if and
  only if it should, which an activation, an unload and a reload in between must keep.
  `Balanced`: the mounts are what the counter will be when the call has returned
  (`AfterReturn`).  `MisnamedInv`: a misnamed device that is mounted makes its keys odd, without
  which another image would be counted under the same key.
- `KeyFacts` is what is known of the keys: `MountKey` is `TrueKey` exactly for devices that are
  not misnamed, and a request gets to the `TrueKey` of its device or, by the node of a misnamed
  one, to what its name leads to.  It rests on `PathsAssumption`: the full path of an image
  leads to the image.

### EndToEnd

| Theorem (`EndToEndProofs`) | States | Hypotheses |
|---|---|---|
| `DeviceRecovers` | `EndSpec => []Recovers` | `~LazyUmount`, `~OverlapEvents`, `~ActivateMounted`, `~AllocMayFail`, `~EarlyWrites` |
| `ImplementsDeviceEpochs` | `EndSpec => Spec` (of `DeviceEpochs`) | none |
| `EpochsSafe` | `EndSpec =>` the seven safety invariants of `DeviceEpochs` | for each, those it has there |

The steps of `EndToEnd` are steps of `DeviceEpochs` or stutter (`Inherits`), provided that a
writer has a mount (`Carried`), which every step keeps (`CarriedStep`).  Hence
`ImplementsDeviceEpochs`, and with it all that `DeviceEpochsProofs`, `EpochLifeProofs` and
`EpochCountProofs` prove: the invariants that `end_to_end` checks besides `Recovers` are proved
of `EndSpec` too.

For `Recovers` the proof takes the invariants of `EpochCountProofs` and `UnloadAlone` from there
and adds `EndInv`, what is true of the data.  The first four hypotheses come from there as well; the fifth, no write before the mount call
has returned, is needed because the kernel lets a file system be used before the return
probe has begun the epoch, and such a write is not saved (section 7).  `end_to_end` runs
under all five.

- `Rank` pairs works and blocks: the n-th `make_snapshot` work of a queue carries the n-th
  block of `load`, whatever cleanup works stand between them (`Aligned`, `LoadInv`).
  `LoadAppend` and `LoadTail` say that queueing and running keep the pairs.
- `WriteInv` says that a writer uses a mount whose call has returned and is alone from the
  change of its block until the block is queued: both happen under the inode lock.
- `PeriodInv` says that, while the device is covered and mounted, the table's object has the
  current epoch and the writers work on this object.
- `BlockInv` is the invariant proper, `Sound`: what is saved is what the block was; of the works
  that carry a block the *first* has what it was, unless it is saved already; what is changed
  but not yet queued has what it was, unless a work or the snapshot has it already; and a
  block that differs from what it was is in one of the three places.  A second write to a
  block carries later contents, and only the order of the queue keeps them out of the snapshot.

`SoundChange`, `SoundQueue`, `SoundSave` and `SoundMoved` say how `Sound` goes on when a block is
changed, queued, saved and when others' works come and go; there is one lemma per action
above them.  Two facts carry the proof: a writer whose mount call has returned finds the epoch
begun, since the counter is that of the mounts (`MountHasEpoch`), and the works of an epoch are
all in the queue of its object, also when the device was activated again meanwhile
(`WorkHome`).

### Only model-checked

All liveness properties: fairness and `ENABLED` are beyond the prover.  Every invariant and
every action property that a passing run checks is stated by a theorem, and so is the
refinement of `SnapshotSpec`.

## 7. Disagreements between code and documentation

With a run of its own (`PROJECT.json`, findings):

- `epochs_lazy_umount`: `queue_snapshot_work` stores addresses inside an epoch that an
  umount may detach and hand to its cleanup in between; a lazy umount makes this
  possible while a file is being written.
- `snap_mkdir_race`: from Linux 6.15 on the loser of the race for `/snapshot` drops its
  work, and the block it carried is not restored.
- `snap_not_mru`: the result of `write_snapblock` is taken the wrong way round; a block is
  put into the LRU when its record could *not* be written.  Without failing writes the
  file is searched more often than necessary; with them an unsaved block is cached.
- `probes_orphans`: `next_bktnr += end` adds an absolute index: the runs look at buckets
  0..49, 50..99, 150..199, 350..399, ... and never at those in between.
- `service_mount2`: `old_mount_entry_handler` (`mounts.c:212`) takes the device of the mount
  point for the one that is mounted, so that a mount by mount(2) is counted for the device
  around it, or for none, although the README says that this way of mounting is counted like
  the other.

Reachable in the models and not kept as runs (each becomes a violation when the switch
named is turned on):

- a file system can be written to before its mount is counted (`mounts.c:193`), and an
  epoch is published before it is dated (`mounts.c:41`): a write in the first window finds
  no epoch and is not saved, one in the second is saved in a directory without a date.
  With `EarlyWrites = TRUE` the run `end_to_end` violates `Recovers`;
- `old_mount_entry_handler` reads flags from `r10`, which is where a *system call* has its
  fourth argument: whether a mount by mount(2) is counted at all, and whether a remount counts
  as a mount, is a matter of chance (`"old"` in `OddCalls`);
- an umount below `/run/systemd` is not counted although the mount was, nor is the end of
  a mount name space (`"systemd"`, `"vanish"`): the epoch does not end;
- a loop device whose `lo_file_name` was cut to 63 characters, is relative or goes through a
  symbolic link (`Misnamed`) is registered under the full path that this name leads to, if
  any, and its mounts are counted under the name itself, for another image or for none
  (`mounts.h:29`, `devices.c:389`);
- a buffer of another size than 4096 bytes makes `write_dirty_buffer_pre_handler` remove the
  entry of a thread in the midst of a write and stop the thread by BUG
  (`singlefilefs.c:292-297`), with the inode lock held, although the README
  (`README.md:388`) says that the exit of `vfs_write` is the only one that removes entries.  The
  demo file system does not call `sb_set_blocksize`.  `OnlyExitRemoves` names this case, and
  without it fails with `OtherSize = TRUE`;
- `try_to_insert_loop_device` returns an error out of memory it has freed
  (`devices.c:428`): the answer `"freed"` of `Activation` may be success;
- with a requested major number, `register_chrdev` returns 0 and nothing is unregistered
  on exit (`activation.c:240`): with `ReqMajor = TRUE` the run `service` violates
  `NothingLeft`;
- a mount event that waited for `general_lock` behind `cleanup_object_data` gives the
  removed object a new epoch, which nobody frees (`mounts.c:37`): `AllocEpoch` after
  `CleanupTake`;
- overlapping events are counted in another order than they took effect
  (`OverlapEvents`): an umount that comes first is ignored and the counter is one too
  high for good;
- a deactivation without memory (`AllocMayFail`) leaves workqueue, works and epoch to
  nobody, and the unload does not wait for those works;
- an existing `snapblocks` is opened without a look at the result (`"open"` in
  `Failures`), and before 6.15 a failed `vfs_mkdir` yields a dentry without inode
  (`"mkdir"`): the work faults;
- two epochs that begin within the same second share a file, and only the state before
  the first of them can be restored: `RestoreRecovers` says so (`FirstOfDate`);
- a write in the midst of an unload, between `unregister_kretprobes` and
  `unregister_kprobes` (`UnloadBusy`), a page fault in `copy_from_user` that reads a
  block (`FaultReads`) or a missed return probe (`MissedProbes`) makes the probe save a
  block under the number of another one;
- nothing waits for RCU callbacks before the module's text is freed (`pending > 0` with
  `module = "unloaded"`).

## 8. Not modelled

- `alloc_ordered_workqueue` and `__bread_gfp` returning NULL, an error of `d_path` that
  `path_starts_with` compares as a string, the second `inode_lock` of the demo's
  `onefilefs_write`: a single missing test or a single wrong call each.
- The roll back loop of `setup_fssupport`, which has `i` for `j`: with one file system it
  is never entered.
- Per-NUMA-node lists of `list_lru`: one list is modelled.
- Two devices with the same base name; a record whose *header* was cut; errors of reads
  and writes in `blkdev-restore` itself.
- Several requests or several mount calls at once in `Service`; `DeviceEpochs` has the
  concurrent registrations, removals and events of one key.  Calls that the probes miss
  because `maxactive` is exceeded.
- The characters of a request: `strim` of the name, the separator.  Hashing is the
  kernel's.  `activation_chrdev_ioctl` reads the length of its argument from user memory three
  times (`activation.c:160`, `166`, `176`): the caller is taken to be one, like
  `blkdev-activation`, that does not change it meanwhile.
- A buffer without a device (`singlefilefs.c:287-290`): those that `sb_bread` returns have one.
  The size of a buffer is chosen anew at each write, where a real device has one for all.
- What a kernel does after BUG beyond ending the thread (it may be set to panic).
- Images that are renamed or moved while they are in use, requests from another root
  directory than that of the mounts (both change `FullPath`, which is constant here).
- A thread that dies while holding the inode lock (the kernel does not kill it there).
- The demo file system apart from `onefilefs_write`: it is the environment of the probes.
