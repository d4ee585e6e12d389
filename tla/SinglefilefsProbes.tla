------------------------- MODULE SinglefilefsProbes -------------------------
(***************************************************************************)
(* The file system specific part (singlefilefs.c): probes on vfs_write,    *)
(* __bread_gfp and write_dirty_buffer hand the contents of a block from    *)
(* one to the next through a hash table entry of the writing thread; an    *)
(* hourly work removes the entries of threads that died.                   *)
(*                                                                         *)
(* The file system itself is external: onefilefs_write of the demo, on one *)
(* file of one active device.  It reads the super block, reads, changes    *)
(* and writes one data block, then perhaps the inode block, with the       *)
(* inode lock held.  A thread of the model stands for one (tid, start      *)
(* time) pair, that is for one key of the table.                           *)
(***************************************************************************)
EXTENDS Naturals, FiniteSets

CONSTANTS
    Threads,        \* writing threads
    Data,           \* data blocks
    Hash,           \* keyhashit: the bucket of each thread's key
    Buckets,        \* HASH_SIZE(xkpblocks_ht)
    Stride,         \* buckets a run of the periodic work looks at: 50
    UnloadBusy,     \* the module may be unloaded while threads write
    FaultReads,     \* copy_from_user may have to read a block by itself
    MissedProbes,   \* a return probe may be missed (kretprobe maxactive)
    OtherSize,      \* buffers may have another size than SINGLEFILEFS_BLOCK_SIZE
    MaxPending      \* bound: no write begins with so many callbacks pending

ASSUME TableAssumption ==
    /\ Buckets \in Nat \ {0}
    /\ Stride \in Nat \ {0}
    /\ Hash \in [Threads -> 0..(Buckets - 1)]
ASSUME DataAssumption == Data \cap {"sb", "inode", "foreign"} = {}
ASSUME ProbeAssumption ==
    /\ {UnloadBusy, FaultReads, MissedProbes, OtherSize} \subseteq BOOLEAN
    /\ MaxPending \in Nat

VARIABLES
    module,      \* how far the module is unregistered
    pc,          \* where a thread is in vfs_write
    target,      \* the data block it writes, "sb" while there is none
    before,      \* what the block it is about to write held before
    clean,       \* sb_bread_handler saw its reads, and no other ones
    linked,      \* threads whose entry is in xkpblocks_ht
    block,       \* xkpblocks_node.block
    buf,         \* the buffer cache
    pending,     \* call_rcu callbacks that have not run
    next_bktnr,  \* the bucket the periodic work begins with
    call         \* the call of bdsnap_make_snapshot made under the inode lock

thrvars == <<pc, target, before, clean>>
vars == <<module, thrvars, linked, block, buf, pending, next_bktnr, call>>

Blocks == {"sb", "inode"} \cup Data

\* Contents are tagged with their block; writing changes the version.  A
\* thread may read a block of another file system
Contents == (Blocks \cup {"foreign", "uninit"}) \X {0, 1}
Uninit == <<"uninit", 0>>
Foreign == <<"foreign", 0>>
Changed(v) == <<v[1], 1 - v[2]>>

NoCall == [blk |-> "sb", val |-> Uninit, was |-> Uninit, clean |-> TRUE]

Modules == {"loaded", "no_kretprobes", "no_kprobes", "cancelled", "cleaned",
            "unloaded"}
LockedPcs == {"read", "copy", "dirty", "read_inode", "dirty_inode", "unlock"}
                \cup {"unlink", "oops"}
Pcs == {"idle", "enter", "exit", "remove", "dead"} \cup LockedPcs

\* Every variable has its type; the periodic work never goes on from beyond twice
\* the table, so that next_bktnr += end does not overflow.
TypeOK ==
    /\ module \in Modules
    /\ pc \in [Threads -> Pcs]
    /\ target \in [Threads -> Data \cup {"sb"}]
    /\ before \in [Threads -> Contents]
    /\ clean \in [Threads -> BOOLEAN]
    /\ linked \in SUBSET Threads
    /\ block \in [Threads -> Contents]
    /\ buf \in [Blocks -> Contents]
    /\ pending \in Nat
    /\ next_bktnr \in 0..(2 * Buckets - 1)
    /\ call \in [blk : Blocks, val : Contents, was : Contents, clean : BOOLEAN]

Init ==
    /\ module = "loaded"
    /\ pc = [t \in Threads |-> "idle"]
    /\ target = [t \in Threads |-> "sb"]
    /\ before = [t \in Threads |-> Uninit]
    /\ clean = [t \in Threads |-> TRUE]
    /\ linked = {}
    /\ block = [t \in Threads |-> Uninit]
    /\ buf = [b \in Blocks |-> <<b, 0>>]
    /\ pending = 0
    /\ next_bktnr = 0
    /\ call = NoCall

Goto(t, label) == pc' = [pc EXCEPT ![t] = label]

\* vfs_write is over, or its thread dead
Leave(t, label) ==
    /\ Goto(t, label)
    /\ target' = [target EXCEPT ![t] = "sb"]
    /\ before' = [before EXCEPT ![t] = Uninit]
    /\ clean' = [clean EXCEPT ![t] = TRUE]

\* unregister_kretprobes drops the returns that are still to come
KretprobesOn == module = "loaded"
KprobesOn == module \in {"loaded", "no_kretprobes"}

\* onefilefs_write holds the inode lock from its first to its last line
InodeLockFree == \A t \in Threads : pc[t] \notin LockedPcs

-----------------------------------------------------------------------------
(* The probes.                                                             *)

\* vfs_write_entry_handler: a new entry, with nothing in its block yet.  It
\* returns early when the device needs no snapshot or there is no memory.
VfsWriteEntry(t, b) ==
    /\ pc[t] = "idle"
    /\ pending < MaxPending
    /\ target' = [target EXCEPT ![t] = b]
    /\ \/ /\ KretprobesOn
          /\ linked' = linked \cup {t}
          /\ block' = [block EXCEPT ![t] = Uninit]
       \/ UNCHANGED <<linked, block>>
    /\ Goto(t, "enter")
    /\ UNCHANGED <<module, before, clean, buf, pending, next_bktnr, call>>

\* Mutant: only the first block a thread reads is kept
SbBreadOnce(t, v) ==
    block' = IF KretprobesOn /\ t \in linked /\ block[t] = Uninit
             THEN [block EXCEPT ![t] = v] ELSE block

\* sb_bread_handler, when a __bread_gfp of content v returns
SbBread(t, v) ==
    block' = IF KretprobesOn /\ t \in linked
             THEN [block EXCEPT ![t] = v] ELSE block

\* The return probe runs, unless it is no longer registered or too many of
\* them are active
Bread(t, v) ==
    \/ /\ SbBread(t, v)
       /\ clean' = [clean EXCEPT ![t] = @ /\ KretprobesOn]
    \/ /\ MissedProbes
       /\ clean' = [clean EXCEPT ![t] = FALSE]
       /\ UNCHANGED block

\* write_dirty_buffer_pre_handler: what the entry holds is passed on under
\* the number of the buffer that is written, which has a device (b_bdev)
WriteDirty(t, b) ==
    call' = IF KprobesOn /\ t \in linked
            THEN [blk |-> b, val |-> block[t], was |-> before[t],
                  clean |-> clean[t]]
            ELSE call

\* The same when the buffer has not SINGLEFILEFS_BLOCK_SIZE bytes, as on a device
\* with another block size, which the file system does not set: the entry is
\* removed, after rcu_read_unlock, and BUG stops the thread, where it holds the
\* inode lock
WrongSize(t) == OtherSize /\ KprobesOn /\ t \in linked

\* remove_threadentry
Unlink(t) ==
    /\ linked' = linked \ {t}
    /\ pending' = pending + 1
    /\ block' = [block EXCEPT ![t] = Uninit]

RemoveAndBug(t) ==
    /\ pc[t] = "unlink"
    /\ Unlink(t)
    /\ Goto(t, "oops")
    /\ UNCHANGED <<module, target, before, clean, buf, next_bktnr, call>>

\* vfs_write_handler: search_threadentry, under rcu_read_lock ...
VfsWriteReturn(t) ==
    /\ pc[t] = "exit"
    /\ Leave(t, IF KretprobesOn /\ t \in linked THEN "remove" ELSE "idle")
    /\ UNCHANGED <<module, linked, block, buf, pending, next_bktnr, call>>

\* ... and remove_threadentry, after rcu_read_unlock
RemoveThreadentry(t) ==
    /\ pc[t] = "remove"
    /\ Unlink(t)
    /\ Leave(t, "idle")
    /\ UNCHANGED <<module, buf, next_bktnr, call>>

-----------------------------------------------------------------------------
(* onefilefs_write, external.                                              *)

\* inode_lock and sb_bread of the super block; an offset that is out of
\* range ends the write
ReadSuper(t) ==
    /\ pc[t] = "enter"
    /\ InodeLockFree
    /\ Bread(t, buf["sb"])
    /\ Goto(t, "read") \/ Goto(t, "exit")
    /\ UNCHANGED <<module, target, before, linked, buf, pending, next_bktnr, call>>

ReadData(t) ==
    /\ pc[t] = "read"
    /\ Bread(t, buf[target[t]])
    /\ before' = [before EXCEPT ![t] = buf[target[t]]]
    /\ Goto(t, "copy")
    /\ UNCHANGED <<module, target, linked, buf, pending, next_bktnr, call>>

\* copy_from_user into the buffer; it may fault, and the fault may make the
\* same thread read a block of another file system
CopyFromUser(t) ==
    /\ pc[t] = "copy"
    /\ \/ UNCHANGED <<block, clean>>
       \/ /\ FaultReads
          /\ SbBread(t, Foreign)
          /\ clean' = [clean EXCEPT ![t] = FALSE]
    /\ buf' = [buf EXCEPT ![target[t]] = Changed(@)]
    /\ Goto(t, "dirty")
    /\ UNCHANGED <<module, target, before, linked, pending, next_bktnr, call>>

\* write_dirty_buffer of the data block; a file that grew has its inode
\* block written too
DirtyData(t) ==
    /\ pc[t] = "dirty"
    /\ \/ WriteDirty(t, target[t]) /\ (Goto(t, "unlock") \/ Goto(t, "read_inode"))
       \/ WrongSize(t) /\ Goto(t, "unlink") /\ UNCHANGED call
    /\ UNCHANGED <<module, target, before, clean, linked, block, buf,
                   pending, next_bktnr>>

ReadInode(t) ==
    /\ pc[t] = "read_inode"
    /\ Bread(t, buf["inode"])
    /\ before' = [before EXCEPT ![t] = buf["inode"]]
    /\ buf' = [buf EXCEPT !["inode"] = Changed(@)]
    /\ Goto(t, "dirty_inode")
    /\ UNCHANGED <<module, target, linked, pending, next_bktnr, call>>

DirtyInode(t) ==
    /\ pc[t] = "dirty_inode"
    /\ \/ WriteDirty(t, "inode") /\ Goto(t, "unlock")
       \/ WrongSize(t) /\ Goto(t, "unlink") /\ UNCHANGED call
    /\ UNCHANGED <<module, target, before, clean, linked, block, buf,
                   pending, next_bktnr>>

InodeUnlock(t) ==
    /\ pc[t] = "unlock"
    /\ call' = NoCall
    /\ Goto(t, "exit")
    /\ UNCHANGED <<module, target, before, clean, linked, block, buf,
                   pending, next_bktnr>>

\* A thread is killed in the midst of a write, outside the inode lock
Die(t) ==
    /\ pc[t] \in {"enter", "exit"}
    /\ Leave(t, "dead")
    /\ UNCHANGED <<module, linked, block, buf, pending, next_bktnr, call>>

-----------------------------------------------------------------------------
(* Background work, and unregister_fssupport_singlefilefs.                 *)

\* Mutant: the start times are compared the wrong way round
TaskAliveInverted(t) == pc[t] \in {"dead", "oops"}

\* __do_taskcheck_on: there is a task with this key, and it has not exited
TaskAlive(t) == pc[t] \notin {"dead", "oops"}

\* Mutant: the work does not begin again with the first bucket
NextBucketNoReset(end) == next_bktnr + end

\* Where the next run of the periodic work begins
NextBucket(end) == IF end < Buckets THEN next_bktnr + end ELSE 0

\* periodic_taskcheck_xkpblocks_ht, which schedules itself again
PeriodicTaskcheck ==
    LET end == IF next_bktnr + Stride < Buckets
               THEN next_bktnr + Stride ELSE Buckets
        orphans == {t \in linked : /\ next_bktnr <= Hash[t]
                                   /\ Hash[t] < end
                                   /\ ~TaskAlive(t)}
    IN  /\ module \in {"loaded", "no_kretprobes", "no_kprobes"}
        /\ linked' = linked \ orphans
        /\ pending' = pending + Cardinality(orphans)
        /\ next_bktnr' = NextBucket(end)
        /\ UNCHANGED <<module, thrvars, block, buf, call>>

\* A grace period ends, xkpblocks_rcu_free_fn runs
RcuCallback ==
    /\ pending > 0
    /\ pending' = pending - 1
    /\ UNCHANGED <<module, thrvars, linked, block, buf, next_bktnr, call>>

\* Mutant: the probes are switched off without waiting for their handlers
UnregisterKretprobesNoWait ==
    /\ module = "loaded"
    /\ UnloadBusy \/ \A t \in Threads : pc[t] \in {"idle", "dead", "oops"}
    /\ module' = "no_kretprobes"
    /\ UNCHANGED <<thrvars, linked, block, buf, pending, next_bktnr, call>>

\* The handlers that are running are waited for
UnregisterKretprobes ==
    /\ module = "loaded"
    /\ \A t \in Threads : pc[t] # "remove"
    /\ UnloadBusy \/ \A t \in Threads : pc[t] \in {"idle", "dead", "oops"}
    /\ module' = "no_kretprobes"
    /\ UNCHANGED <<thrvars, linked, block, buf, pending, next_bktnr, call>>

UnregisterKprobes ==
    /\ module = "no_kretprobes"
    /\ \A t \in Threads : pc[t] # "unlink"
    /\ module' = "no_kprobes"
    /\ UNCHANGED <<thrvars, linked, block, buf, pending, next_bktnr, call>>

\* cancel_delayed_work_sync
CancelTaskcheck ==
    /\ module = "no_kprobes"
    /\ module' = "cancelled"
    /\ UNCHANGED <<thrvars, linked, block, buf, pending, next_bktnr, call>>

\* cleanup_xkpblocks_ht: one callback for each entry that is left
CleanupTable ==
    /\ module = "cancelled"
    /\ module' = "cleaned"
    /\ linked' = {}
    /\ pending' = pending + Cardinality(linked)
    /\ UNCHANGED <<thrvars, block, buf, next_bktnr, call>>

\* The text of the module is freed; nothing waits for the callbacks
Unload ==
    /\ module = "cleaned"
    /\ module' = "unloaded"
    /\ UNCHANGED <<thrvars, linked, block, buf, pending, next_bktnr, call>>

-----------------------------------------------------------------------------
Rest == module = "unloaded" /\ UNCHANGED vars

ThreadSteps(t) ==
    \/ ReadSuper(t) \/ ReadData(t) \/ CopyFromUser(t) \/ DirtyData(t)
    \/ ReadInode(t) \/ DirtyInode(t) \/ InodeUnlock(t)
    \/ VfsWriteReturn(t) \/ RemoveThreadentry(t) \/ RemoveAndBug(t)

Next ==
    \/ \E t \in Threads : \/ \E b \in Data : VfsWriteEntry(t, b)
                          \/ ThreadSteps(t)
                          \/ Die(t)
    \/ PeriodicTaskcheck
    \/ RcuCallback
    \/ UnregisterKretprobes \/ UnregisterKprobes \/ CancelTaskcheck
    \/ CleanupTable \/ Unload
    \/ Rest

Spec == Init /\ [][Next]_vars

\* Threads that write go on writing; the periodic work is scheduled again and
\* again; callbacks run; an unload that was begun goes on
UnloadSteps == UnregisterKprobes \/ CancelTaskcheck \/ CleanupTable \/ Unload
Fairness ==
    /\ \A t \in Threads : WF_vars(ThreadSteps(t))
    /\ WF_vars(PeriodicTaskcheck)
    /\ WF_vars(RcuCallback)
    /\ WF_vars(UnloadSteps)

FairSpec == Spec /\ Fairness

-----------------------------------------------------------------------------
\* bdsnap.h, "@block: the block to save, @blocknr: the block number": what is
\* saved under a block's number is what that block held before the write, as
\* long as the return probe saw the reads of this one write and nothing else of
\* its thread, whatever was missed for other threads, and at any stage of an
\* unload.
SavesWhatItNames == call.clean => call.val = call.was

\* vfs_write_handler unlinks the entry it found after leaving the read section
\* (singlefilefs.c:224-225), and so does write_dirty_buffer_pre_handler when it
\* ends in BUG (singlefilefs.c:293-294): nobody has unlinked it in between, so it
\* is handed to call_rcu once, whatever the periodic work and an unload are doing.
EntryStillLinked ==
    \A t \in Threads : pc[t] \in {"remove", "unlink"} => t \in linked

\* README, "the only one handler that can remove a thread entry from the
\* hashtable is the vfs_write handler": the entry of a live thread leaves the
\* table by the thread's own vfs_write, or when the module is unloaded; but
\* also, against what is said there, by the handler of write_dirty_buffer,
\* which then stops the thread.
OnlyExitRemoves ==
    [][\A t \in linked \ linked' :
          \/ pc[t] \in {"remove", "dead"} \/ module = "cancelled"
          \/ pc[t] = "unlink" /\ pc'[t] = "oops"]_vars

\* README, "there is a periodic delayed work on system wq that checks for these
\* cases where hashtable nodes are orphan [...] it removes the node".
OrphansRemoved ==
    \A t \in Threads :
        (t \in linked /\ pc[t] = "dead") ~> t \notin linked

=============================================================================
