------------------------------ MODULE EndToEnd ------------------------------
(***************************************************************************)
(* DeviceEpochs with the data: writers that change the blocks of the       *)
(* device, works that carry what the blocks held, and the snapshots they   *)
(* make.  The question is the one a user asks: is the device as it was     *)
(* before the mount once the snapshot is restored?  It depends on all the  *)
(* parts at once: that a write is seen by the probes, finds the device     *)
(* active and its epoch begun, that its work is queued and outlives the    *)
(* end of the epoch, the deactivation of the device and the unload.        *)
(*                                                                         *)
(* The steps of DeviceEpochs are taken as they are; a write is taken apart *)
(* around its write_dirty_buffer probe.  make_snapshot is one step and     *)
(* never fails (SnapshotWork has the detail), and first mount dates differ.*)
(***************************************************************************)
EXTENDS DeviceEpochs

CONSTANTS
    Blocks,         \* blocks of the device
    Contents,       \* what a block may hold
    EarlyWrites     \* a mount is written to before the call that made it returns

ASSUME EarlyAssumption == EarlyWrites \in BOOLEAN

VARIABLES
    disk,       \* contents of the device
    write,      \* how far a writer is in onefilefs_write
    load,       \* blocks held by the make_snapshot works of a queue
    saved,      \* snapshots, by the epoch that dates the directory; Null where
                \* the date was empty
    base,       \* the device before it was mounted, NoBlocks unless it has been
                \* active ever since
    current,    \* the epoch of the mounts since then
    fresh       \* the mount whose call has not returned

datavars == <<disk, write, load, saved, base, current, fresh>>
allvars == <<vars, datavars>>

Stages == {"none", "entered", "changed", "probed"}
NoWrite == [stage |-> "none", m |-> Null, caught |-> FALSE, blk |-> Null,
            old |-> Null]
NoBlocks == [b \in {} |-> b]

Covered == base # NoBlocks

EndInit ==
    /\ Init
    /\ disk \in [Blocks -> Contents]
    /\ write = [w \in Writers |-> NoWrite]
    /\ load = [o \in Objs |-> <<>>]
    /\ saved = [k \in Epochs \cup {Null} |-> NoBlocks]
    /\ base = NoBlocks
    /\ current = Null
    /\ fresh = Null

-----------------------------------------------------------------------------
(* A write.                                                                *)

\* bdsnap_test_device of vfs_write_entry_handler decides whether the thread
\* gets an entry; without one the later probes pass the thread by
TestDevice == ht # Null /\ Valid(ht)

EnterWrite(w, m) ==
    /\ write[w].stage = "none"
    /\ mounts[m] = "up"
    /\ EarlyWrites \/ m # fresh
    /\ write' = [write EXCEPT ![w].stage = "entered", ![w].m = m,
                              ![w].caught = TestDevice]
    /\ UNCHANGED <<vars, disk, load, saved, base, current, fresh>>

\* Under the inode lock the block is read, sb_bread_handler keeps what it
\* held, and it is changed
ChangeBlock(w, b, v) ==
    /\ write[w].stage = "entered"
    /\ \A x \in Writers : write[x].stage \notin {"changed", "probed"}
    /\ disk' = [disk EXCEPT ![b] = v]
    /\ write' = [write EXCEPT ![w].stage = "changed", ![w].blk = b,
                              ![w].old = disk[b]]
    /\ UNCHANGED <<vars, load, saved, base, current, fresh>>

\* write_dirty_buffer_pre_handler finds the entry and the device ...
ProbeWrite(w) ==
    /\ write[w].stage = "changed"
    /\ write[w].caught
    /\ SearchDevice(w, write[w].m)
    /\ write' = [write EXCEPT ![w].stage = "probed"]
    /\ UNCHANGED <<disk, load, saved, base, current, fresh>>

\* ... and bdsnap_make_snapshot queues the block, or not
ProbeSteps(w) ==
    /\ \/ CheckValid(w) \/ MakeLock(w) \/ QueueCheck(w) \/ QueueLoad(w)
       \/ QueueAllocFails(w)
    /\ UNCHANGED datavars

QueueBlock(w) ==
    /\ QueueWork(w)
    /\ load' = IF wq' = wq THEN load
               ELSE [load EXCEPT ![data[w]] =
                        Append(@, [blk |-> write[w].blk, old |-> write[w].old])]
    /\ UNCHANGED <<disk, write, saved, base, current, fresh>>

\* The inode lock is dropped and vfs_write returns
LeaveWrite(w) ==
    /\ \/ write[w].stage = "changed" /\ (~write[w].caught \/ ht = Null)
       \/ write[w].stage = "probed" /\ pc[w] = "idle"
    /\ write' = [write EXCEPT ![w] = NoWrite]
    /\ UNCHANGED <<vars, disk, load, saved, base, current, fresh>>

-----------------------------------------------------------------------------
(* Mounts.                                                                 *)

\* The first mount begins a new period; the device may or may not be active
MountDevice(a, m) ==
    /\ MountCall(a, m)
    /\ fresh' = m
    /\ \/ /\ Up = {}
          /\ base' = IF ht # Null THEN disk ELSE NoBlocks
          /\ current' = Null
       \/ Up # {} /\ UNCHANGED <<base, current>>
    /\ UNCHANGED <<disk, write, load, saved>>

\* umount fails while a file is open for a write
UmountDevice(a, m) ==
    /\ UmountCall(a, m)
    /\ \A w \in Writers : write[w].m # m
    /\ UNCHANGED datavars

\* The event handler; the mount call returns after it
CountEvent(a) ==
    /\ \/ EventLookup(a) \/ EventLock(a) \/ AllocEpochFails(a)
       \/ CountMount(a) \/ CountUmount(a)
    /\ fresh' = IF pc'[a] = "idle" THEN Null ELSE fresh
    /\ UNCHANGED <<disk, write, load, saved, base, current>>

BeginEpoch(a, ep) ==
    /\ AllocEpoch(a, ep)
    /\ current' = IF Covered THEN ep ELSE Null
    /\ UNCHANGED <<disk, write, load, saved, base, fresh>>

-----------------------------------------------------------------------------
(* Activation and works.                                                   *)

\* A device that is deactivated while it is mounted is no longer Covered
UserStep(u) ==
    /\ UserNext(u)
    /\ IF ht' = ht \/ Up = {} THEN UNCHANGED <<base, current>>
       ELSE base' = NoBlocks /\ current' = Null
    /\ fresh' = IF module' = "destroying" THEN Null ELSE fresh
    /\ UNCHANGED <<disk, write, load, saved>>

\* Mutant: a block that the snapshot has is saved again
AddBlockAgain(s, b, v) ==
    [x \in DOMAIN s \cup {b} |-> IF x = b THEN v ELSE s[x]]

\* make_snapshot writes a block that the file does not have
AddBlock(s, b, v) ==
    [x \in DOMAIN s \cup {b} |-> IF x \in DOMAIN s THEN s[x] ELSE v]

SaveBlock(o) ==
    /\ RunSnapshot(o)
    /\ LET k == IF Head(wq[o]).dated THEN Head(wq[o]).ep ELSE Null
       IN  saved' = [saved EXCEPT ![k] =
                        AddBlock(@, Head(load[o]).blk, Head(load[o]).old)]
    /\ load' = [load EXCEPT ![o] = Tail(@)]
    /\ UNCHANGED <<disk, write, base, current, fresh>>

KernelStep(o) ==
    /\ FreeObject(o) \/ RunCleanupEpoch(o) \/ WaddwDestroy(o) \/ WaddwEpoch(o)
    /\ UNCHANGED datavars

-----------------------------------------------------------------------------
EndRest == Rest /\ (\A w \in Writers : write[w] = NoWrite) /\ UNCHANGED datavars

EndNext ==
    \/ \E w \in Writers :
          \/ \E m \in Mounts : EnterWrite(w, m)
          \/ \E b \in Blocks, v \in Contents : ChangeBlock(w, b, v)
          \/ ProbeWrite(w) \/ ProbeSteps(w) \/ QueueBlock(w) \/ LeaveWrite(w)
    \/ \E a \in Admins :
          \/ \E m \in Mounts : MountDevice(a, m) \/ UmountDevice(a, m)
          \/ CountEvent(a)
          \/ \E ep \in Epochs : BeginEpoch(a, ep)
    \/ \E u \in Users : UserStep(u)
    \/ \E o \in Objs : SaveBlock(o) \/ KernelStep(o)
    \/ EndRest

EndSpec == EndInit /\ [][EndNext]_allvars

-----------------------------------------------------------------------------
\* What blkdev-restore makes of the device with the snapshot of an epoch
Restored(ep) ==
    [b \in Blocks |-> IF b \in DOMAIN saved[ep] THEN saved[ep][b] ELSE disk[b]]

\* No write, no event and no work is under way
Quiet ==
    /\ NoEventPending
    /\ \A w \in Writers : write[w] = NoWrite
    /\ \A o \in Objs : wq[o] = <<>>

\* README, "recover their data [...] before the mount operation": once a device
\* that was active for as long as it was mounted is unmounted and its works are
\* done, its epoch has a snapshot that restores it.  The works are not lost when
\* the epoch ends, when the device is deactivated or when the module is unloaded
\* right after the umount, no write of the period went by unseen because it found
\* no epoch yet, and none was saved without a date.
Recovers ==
    Quiet /\ Covered /\ Up = {} =>
        current # Null /\ Restored(current) = base

=============================================================================
