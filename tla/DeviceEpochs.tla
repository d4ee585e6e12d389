---------------------------- MODULE DeviceEpochs ----------------------------
(***************************************************************************)
(* The life of a registered device: its struct object_data, its epochs and *)
(* its ordered workqueue, under activation, deactivation, mounting,        *)
(* unmounting, writing and unloading of the module.                        *)
(*                                                                         *)
(* The module models devices.c, the counting half of mounts.c and the      *)
(* exported half of snapshot.c for ONE key of the hash tables; keys are    *)
(* independent of each other.  An element of Objs stands for one           *)
(* allocation of a struct blkdev_object or struct loop_object, an element  *)
(* of Epochs for one allocation of a struct epoch, an element of Mounts    *)
(* for one mount of the device: none is ever reused, so that a stale       *)
(* pointer is recognised as one.                                           *)
(*                                                                         *)
(* A step is what the code does between two accesses to shared memory that *)
(* another thread can interfere with.  Locks and RCU read sections are     *)
(* given by the program counters of the threads (section "locks").         *)
(***************************************************************************)
EXTENDS Naturals, Sequences, FiniteSets

CONSTANTS
    Users,            \* threads that activate, deactivate and unload
    Admins,           \* threads that mount and unmount
    Writers,          \* threads that write to a mounted file system
    Objs,             \* allocations of an object of the hash tables
    Epochs,           \* allocations of a struct epoch
    Mounts,           \* mounts of the device
    Null,             \* the null pointer
    MaxWorks,         \* no write starts while so many works are queued
    LazyUmount,       \* umount -l: a mount may go while it is being written
    OverlapEvents,    \* mounts and umounts run concurrently
    ActivateMounted,  \* a device may be activated while it is mounted
    AllocMayFail      \* kmalloc, kzalloc and insertions may fail

ASSUME ThreadsAssumption ==
    /\ Users \cap Admins = {}
    /\ Users \cap Writers = {}
    /\ Admins \cap Writers = {}

ASSUME NullAssumption == Null \notin Objs /\ Null \notin Epochs

ASSUME SwitchAssumption ==
    /\ LazyUmount \in BOOLEAN
    /\ OverlapEvents \in BOOLEAN
    /\ ActivateMounted \in BOOLEAN
    /\ AllocMayFail \in BOOLEAN

VARIABLES
    module,               \* "loaded", "destroying" or "unloaded"
    ht,                   \* the object the hash table holds for the key
    mem,                  \* memory of an object
    grace,                \* readers a kfree_rcu'd object still waits for
    e,                    \* object_data.e
    wq_is_destroyed,      \* object_data.wq_is_destroyed
    wqmem,                \* the workqueue: "none", "alive", "destroyed"
    wq,                   \* the works queued on it, the running one first
    epmem,                \* memory of an epoch
    n_currently_mounted,  \* epoch.n_currently_mounted
    dated,                \* epoch.first_mount_date has been written
    mounts,               \* "unused", "up" or "down"
    waddw,                \* progress of wait_and_destroy_device_workqueue
    waddw_epoch,          \* its waddw_args.last_epoch
    worklist,             \* objects whose deferred work is in waddw_worklist
    pc,                   \* what each thread does next
    data,                 \* the struct object_data pointer it holds
    ref,                  \* the struct epoch pointer it holds
    at                    \* the mount a writer writes through

objvars == <<ht, mem, grace, e, wq_is_destroyed>>
wqvars == <<wqmem, wq>>
epvars == <<epmem, n_currently_mounted, dated>>
waddwvars == <<waddw, waddw_epoch, worklist>>
thrvars == <<pc, data, ref, at>>
vars == <<module, objvars, wqvars, epvars, mounts, waddwvars, thrvars>>

Threads == Users \cup Admins \cup Writers

\* A queued work: make_snapshot with the epoch whose fields its pointers
\* point into and whether it was given a date, or cleanup_epoch_work.
Works == [kind : {"snap", "cleanup"}, ep : Epochs, dated : BOOLEAN]
SnapWork(ep, d) == [kind |-> "snap", ep |-> ep, dated |-> d]
CleanupWork(ep) == [kind |-> "cleanup", ep |-> ep, dated |-> TRUE]

UserPcs == {"idle", "r_insert", "d_remove", "c_lock", "c_mark", "c_take",
            "c_defer", "c_list", "x_flush"}
AdminPcs == {"idle", "m_lookup", "m_lock", "m_alloc", "m_count",
             "u_lookup", "u_lock", "u_count"}
WriterPcs == {"idle", "w_search", "w_make", "w_lock", "w_queue", "w_load",
              "w_date", "oops"}

\* Every variable of the model has its type; each thread is somewhere in the
\* functions its role calls.
TypeOK ==
    /\ module \in {"loaded", "destroying", "unloaded"}
    /\ ht \in Objs \cup {Null}
    /\ mem \in [Objs -> {"unused", "live", "dying", "freed"}]
    /\ grace \in [Objs -> SUBSET Threads]
    /\ e \in [Objs -> Epochs \cup {Null}]
    /\ wq_is_destroyed \in [Objs -> BOOLEAN]
    /\ wqmem \in [Objs -> {"none", "alive", "destroyed"}]
    /\ wq \in [Objs -> Seq(Works)]
    /\ epmem \in [Epochs -> {"unused", "live", "freed"}]
    /\ n_currently_mounted \in [Epochs -> Nat]
    /\ dated \in [Epochs -> BOOLEAN]
    /\ mounts \in [Mounts -> {"unused", "up", "down"}]
    /\ waddw \in [Objs -> {"none", "flush", "epoch", "done"}]
    /\ waddw_epoch \in [Objs -> Epochs \cup {Null}]
    /\ worklist \in SUBSET Objs
    /\ pc \in [Threads -> UserPcs \cup AdminPcs \cup WriterPcs]
    /\ \A u \in Users : pc[u] \in UserPcs
    /\ \A a \in Admins : pc[a] \in AdminPcs
    /\ \A w \in Writers : pc[w] \in WriterPcs
    /\ data \in [Threads -> Objs \cup {Null}]
    /\ ref \in [Threads -> Epochs \cup {Null}]
    /\ at \in [Writers -> Mounts \cup {Null}]

-----------------------------------------------------------------------------
(* Locks.  A thread is inside a critical section exactly while its program *)
(* counter is.                                                             *)

\* rcu_read_lock .. rcu_read_unlock: the two event handlers, the removal of
\* an object and the write_dirty_buffer probe
RcuPcs == {"m_lock", "m_alloc", "m_count", "u_lock", "u_count", "d_remove",
           "w_search", "w_make", "w_lock", "w_queue", "w_load", "w_date",
           "oops"}
\* Mutant: kfree where the code has kfree_rcu
NoReaders == {}

RcuReaders == {t \in Threads : pc[t] \in RcuPcs}

\* object_data.general_lock, a spinlock
LockPcs == {"m_alloc", "m_count", "u_count", "c_mark", "c_take"}
GeneralLockFree(o) == \A t \in Threads : ~(data[t] = o /\ pc[t] \in LockPcs)

\* object_data.wq_destroy_lock, held for reading by bdsnap_make_snapshot; the
\* writer holds it for one step, CleanupMark
ReadPcs == {"w_queue", "w_load", "w_date", "oops"}
\* Mutant: wq_destroy_lock is not taken for writing
DestroyLockIgnored(o) == o \in Objs

DestroyLockFree(o) == \A t \in Threads : ~(data[t] = o /\ pc[t] \in ReadPcs)

\* A thread leaves its RCU section: no grace period waits for it any more
RcuExit(t) == grace' = [o \in Objs |-> grace[o] \ {t}]

\* The thread returns to its caller, dropping its pointers
Return(t) ==
    /\ pc' = [pc EXCEPT ![t] = "idle"]
    /\ data' = [data EXCEPT ![t] = Null]
    /\ ref' = [ref EXCEPT ![t] = Null]

Goto(t, label) == pc' = [pc EXCEPT ![t] = label]

-----------------------------------------------------------------------------
Init ==
    /\ module = "loaded"
    /\ ht = Null
    /\ mem = [o \in Objs |-> "unused"]
    /\ grace = [o \in Objs |-> {}]
    /\ e = [o \in Objs |-> Null]
    /\ wq_is_destroyed = [o \in Objs |-> FALSE]
    /\ wqmem = [o \in Objs |-> "none"]
    /\ wq = [o \in Objs |-> <<>>]
    /\ epmem = [ep \in Epochs |-> "unused"]
    /\ n_currently_mounted = [ep \in Epochs |-> 0]
    /\ dated = [ep \in Epochs |-> FALSE]
    /\ mounts = [m \in Mounts |-> "unused"]
    /\ waddw = [o \in Objs |-> "none"]
    /\ waddw_epoch = [o \in Objs |-> Null]
    /\ worklist = {}
    /\ pc = [t \in Threads |-> "idle"]
    /\ data = [t \in Threads |-> Null]
    /\ ref = [t \in Threads |-> Null]
    /\ at = [w \in Writers |-> Null]

-----------------------------------------------------------------------------
(* Mount and umount events (mounts.c).  The file system is mounted, or no  *)
(* longer mounted, when do_move_mount or path_umount returns; the return   *)
(* probe counts the event afterwards.                                      *)

NoEventPending == \A a \in Admins : pc[a] = "idle"
NoActivation == \A u \in Users : pc[u] # "r_insert"

MountCall(a, m) ==
    /\ module = "loaded"
    /\ pc[a] = "idle"
    /\ mounts[m] = "unused"
    /\ OverlapEvents \/ NoEventPending
    /\ ActivateMounted \/ NoActivation
    /\ mounts' = [mounts EXCEPT ![m] = "up"]
    /\ Goto(a, "m_lookup")
    /\ UNCHANGED <<module, objvars, wqvars, epvars, waddwvars, data, ref, at>>

UmountCall(a, m) ==
    /\ module = "loaded"
    /\ pc[a] = "idle"
    /\ mounts[m] = "up"
    /\ OverlapEvents \/ NoEventPending
    /\ LazyUmount \/ \A w \in Writers : at[w] # m
    /\ mounts' = [mounts EXCEPT ![m] = "down"]
    /\ Goto(a, "u_lookup")
    /\ UNCHANGED <<module, objvars, wqvars, epvars, waddwvars, data, ref, at>>

\* get_device_data_always, under rcu_read_lock
EventLookup(a) ==
    /\ pc[a] \in {"m_lookup", "u_lookup"}
    /\ \/ ht = Null /\ Return(a)
       \/ /\ ht # Null
          /\ Goto(a, IF pc[a] = "m_lookup" THEN "m_lock" ELSE "u_lock")
          /\ data' = [data EXCEPT ![a] = ht]
          /\ UNCHANGED ref
    /\ UNCHANGED <<module, objvars, wqvars, epvars, mounts, waddwvars, at>>

EventLock(a) ==
    /\ pc[a] \in {"m_lock", "u_lock"}
    /\ GeneralLockFree(data[a])
    /\ Goto(a, IF pc[a] = "u_lock" THEN "u_count"
               ELSE IF e[data[a]] = Null THEN "m_alloc" ELSE "m_count")
    /\ UNCHANGED <<module, objvars, wqvars, epvars, mounts, waddwvars,
                   data, ref, at>>

\* *epoch = kzalloc(): the epoch is visible from here on, without a date
AllocEpoch(a, ep) ==
    /\ pc[a] = "m_alloc"
    /\ epmem[ep] = "unused"
    /\ e' = [e EXCEPT ![data[a]] = ep]
    /\ epmem' = [epmem EXCEPT ![ep] = "live"]
    /\ Goto(a, "m_count")
    /\ UNCHANGED <<module, ht, mem, grace, wq_is_destroyed, wqvars,
                   n_currently_mounted, dated, mounts, waddwvars,
                   data, ref, at>>

AllocEpochFails(a) ==
    /\ AllocMayFail
    /\ pc[a] = "m_alloc"
    /\ Return(a)
    /\ RcuExit(a)
    /\ UNCHANGED <<module, ht, mem, e, wq_is_destroyed, wqvars, epvars,
                   mounts, waddwvars, at>>

\* __epoch_event_cb_count_mount: wq_is_destroyed is not looked at
CountMount(a) ==
    LET ep == e[data[a]] IN
    /\ pc[a] = "m_count"
    /\ n_currently_mounted' =
           [x \in Epochs |-> IF x = ep THEN n_currently_mounted[x] + 1
                             ELSE n_currently_mounted[x]]
    /\ dated' = [x \in Epochs |->
                    dated[x] \/ (x = ep /\ n_currently_mounted[x] = 0)]
    /\ Return(a)
    /\ RcuExit(a)
    /\ UNCHANGED <<module, ht, mem, e, wq_is_destroyed, wqvars, epmem,
                   mounts, waddwvars, at>>

\* Mutant: the epoch ends although one mount is left
EndsEpochEarly(o) ==
    /\ e[o] # Null
    /\ n_currently_mounted[e[o]] \in {1, 2}
    /\ ~wq_is_destroyed[o]

\* The umount counted by the thread that holds the lock ends the epoch
EndsEpoch(o) ==
    /\ e[o] # Null
    /\ n_currently_mounted[e[o]] = 1
    /\ ~wq_is_destroyed[o]

\* Mutant: an umount only counts, below zero too
CountUmountNoFloor(a) ==
    LET o == data[a]
        ep == e[o]
    IN  /\ pc[a] = "u_count"
        /\ n_currently_mounted' =
               [x \in Epochs |-> IF x = ep THEN n_currently_mounted[x] - 1
                                 ELSE n_currently_mounted[x]]
        /\ UNCHANGED <<e, wq>>
        /\ Return(a)
        /\ RcuExit(a)
        /\ UNCHANGED <<module, ht, mem, wq_is_destroyed, wqmem, epmem, dated,
                       mounts, waddwvars, at>>

\* __epoch_event_cb_count_umount; a counter below zero is put back to zero
CountUmount(a) ==
    LET o == data[a]
        ep == e[o]
    IN  /\ pc[a] = "u_count"
        /\ n_currently_mounted' =
               [x \in Epochs |-> IF x = ep /\ n_currently_mounted[x] > 0
                                 THEN n_currently_mounted[x] - 1
                                 ELSE n_currently_mounted[x]]
        /\ \/ /\ EndsEpoch(o)
              /\ e' = [e EXCEPT ![o] = Null]
              /\ \/ wq' = [wq EXCEPT ![o] = Append(@, CleanupWork(ep))]
                 \/ AllocMayFail /\ UNCHANGED wq
           \/ ~EndsEpoch(o) /\ UNCHANGED <<e, wq>>
        /\ Return(a)
        /\ RcuExit(a)
        /\ UNCHANGED <<module, ht, mem, wq_is_destroyed, wqmem, epmem, dated,
                       mounts, waddwvars, at>>

-----------------------------------------------------------------------------
(* Activation: register_device (devices.c).                                *)

\* kzalloc and __init_object_data
RegisterInit(u, o) ==
    /\ module = "loaded"
    /\ pc[u] = "idle"
    /\ mem[o] = "unused"
    /\ \/ ActivateMounted
       \/ NoEventPending /\ \A m \in Mounts : mounts[m] # "up"
    /\ mem' = [mem EXCEPT ![o] = "live"]
    /\ wqmem' = [wqmem EXCEPT ![o] = "alive"]
    /\ data' = [data EXCEPT ![u] = o]
    /\ Goto(u, "r_insert")
    /\ UNCHANGED <<module, ht, grace, e, wq_is_destroyed, wq, epvars, mounts,
                   waddwvars, ref, at>>

RegisterInsert(u) ==
    /\ pc[u] = "r_insert"
    /\ ht = Null
    /\ ht' = data[u]
    /\ Return(u)
    /\ UNCHANGED <<module, mem, grace, e, wq_is_destroyed, wqvars, epvars,
                   mounts, waddwvars, at>>

\* -EEXIST, or the insertion fails: cleanup_object_data_notvisible destroys
\* the workqueue of the object nobody has seen, then kfree
RegisterFails(u) ==
    LET o == data[u] IN
    /\ pc[u] = "r_insert"
    /\ ht # Null \/ AllocMayFail
    /\ wqmem' = [wqmem EXCEPT ![o] = "destroyed"]
    /\ wq_is_destroyed' = [wq_is_destroyed EXCEPT ![o] = TRUE]
    /\ mem' = [mem EXCEPT ![o] = "freed"]
    /\ Return(u)
    /\ UNCHANGED <<module, ht, grace, e, wq, epvars, mounts, waddwvars, at>>

-----------------------------------------------------------------------------
(* Deactivation: unregister_device and cleanup_object_data (devices.c).    *)

UnregisterLookup(u) ==
    /\ module = "loaded"
    /\ pc[u] = "idle"
    /\ ht # Null
    /\ data' = [data EXCEPT ![u] = ht]
    /\ Goto(u, "d_remove")
    /\ UNCHANGED <<module, objvars, wqvars, epvars, mounts, waddwvars, ref, at>>

\* rhashtable_remove_fast, then rcu_read_unlock on either branch
UnregisterRemove(u) ==
    /\ pc[u] = "d_remove"
    /\ \/ /\ ht = data[u]
          /\ ht' = Null
          /\ Goto(u, "c_lock")
          /\ UNCHANGED <<data, ref>>
       \/ ht # data[u] /\ Return(u) /\ UNCHANGED ht
    /\ RcuExit(u)
    /\ UNCHANGED <<module, mem, e, wq_is_destroyed, wqvars, epvars, mounts,
                   waddwvars, at>>

CleanupLock(u) ==
    /\ pc[u] = "c_lock"
    /\ GeneralLockFree(data[u])
    /\ Goto(u, "c_mark")
    /\ UNCHANGED <<module, objvars, wqvars, epvars, mounts, waddwvars,
                   data, ref, at>>

\* write_lock(wq_destroy_lock); wq_is_destroyed = true; write_unlock
CleanupMark(u) ==
    /\ pc[u] = "c_mark"
    /\ DestroyLockFree(data[u])
    /\ wq_is_destroyed' = [wq_is_destroyed EXCEPT ![data[u]] = TRUE]
    /\ Goto(u, "c_take")
    /\ UNCHANGED <<module, ht, mem, grace, e, wqvars, epvars, mounts,
                   waddwvars, data, ref, at>>

\* Mutant: the epoch is saved and left in the object
CleanupTakeShared(u) ==
    /\ pc[u] = "c_take"
    /\ ref' = [ref EXCEPT ![u] = e[data[u]]]
    /\ Goto(u, "c_defer")
    /\ UNCHANGED <<module, objvars, wqvars, epvars, mounts, waddwvars, data, at>>

\* saved_last_epoch = data->e; data->e = NULL; unlock
CleanupTake(u) ==
    /\ pc[u] = "c_take"
    /\ ref' = [ref EXCEPT ![u] = e[data[u]]]
    /\ e' = [e EXCEPT ![data[u]] = Null]
    /\ Goto(u, "c_defer")
    /\ UNCHANGED <<module, ht, mem, grace, wq_is_destroyed, wqvars, epvars,
                   mounts, waddwvars, data, at>>

\* Mutant: the deferred work is not told of the epoch
CleanupDeferNoEpoch(u) ==
    /\ pc[u] = "c_defer"
    /\ waddw' = [waddw EXCEPT ![data[u]] = "flush"]
    /\ ref' = [ref EXCEPT ![u] = Null]
    /\ Goto(u, "c_list")
    /\ UNCHANGED <<module, objvars, wqvars, epvars, mounts, waddw_epoch,
                   worklist, data, at>>

\* Mutant: the deferred work is not scheduled
CleanupDeferForgotten(u) ==
    /\ pc[u] = "c_defer"
    /\ ref' = [ref EXCEPT ![u] = Null]
    /\ Goto(u, "c_list")
    /\ UNCHANGED <<module, objvars, wqvars, epvars, mounts, waddwvars, data, at>>

\* schedule_work(wait_and_destroy_device_workqueue)
CleanupDefer(u) ==
    LET o == data[u] IN
    /\ pc[u] = "c_defer"
    /\ waddw' = [waddw EXCEPT ![o] = "flush"]
    /\ waddw_epoch' = [waddw_epoch EXCEPT ![o] = ref[u]]
    /\ ref' = [ref EXCEPT ![u] = Null]
    /\ Goto(u, "c_list")
    /\ UNCHANGED <<module, objvars, wqvars, epvars, mounts, worklist, data, at>>

\* One of the two kmallocs fails: nobody will destroy workqueue and epoch
CleanupDeferFails(u) ==
    /\ AllocMayFail
    /\ pc[u] = "c_defer"
    /\ ref' = [ref EXCEPT ![u] = Null]
    /\ Goto(u, "c_list")
    /\ UNCHANGED <<module, objvars, wqvars, epvars, mounts, waddwvars, data, at>>

\* Under waddw_worklist_glock: list_add_tail of the own work, if any, and
\* removal of every work that is no longer busy; then kfree_rcu of the object
CleanupList(u) ==
    LET o == data[u]
        listed == worklist \cup {x \in {o} : waddw[x] # "none"}
    IN  /\ pc[u] = "c_list"
        /\ worklist' = {x \in listed : waddw[x] # "done"}
        /\ mem' = [mem EXCEPT ![o] = "dying"]
        /\ grace' = [grace EXCEPT ![o] = RcuReaders]
        /\ Goto(u, IF module = "destroying" THEN "x_flush" ELSE "idle")
        /\ data' = [data EXCEPT ![u] = Null]
        /\ UNCHANGED <<module, ht, e, wq_is_destroyed, wqvars, epvars, mounts,
                       waddw, waddw_epoch, ref, at>>

\* End of the grace period
FreeObject(o) ==
    /\ mem[o] = "dying"
    /\ grace[o] = {}
    /\ mem' = [mem EXCEPT ![o] = "freed"]
    /\ UNCHANGED <<module, ht, grace, e, wq_is_destroyed, wqvars, epvars,
                   mounts, waddwvars, thrvars>>

-----------------------------------------------------------------------------
(* exit_blkdev_snapshot_module: the probes are unregistered, which waits   *)
(* for the running handlers and drops the returns that are still to come;  *)
(* destroy_devices then runs the free function on what the table holds and *)
(* flushes the listed works.                                               *)

DestroyDevices(u) ==
    /\ module = "loaded"
    /\ \A t \in Threads : pc[t] \in {"idle", "m_lookup", "u_lookup"}
    /\ module' = "destroying"
    /\ ht' = Null
    /\ pc' = [t \in Threads |->
                 IF t # u THEN "idle"
                 ELSE IF ht = Null THEN "x_flush" ELSE "c_lock"]
    /\ data' = [data EXCEPT ![u] = ht]
    /\ UNCHANGED <<mem, grace, e, wq_is_destroyed, wqvars, epvars, mounts,
                   waddwvars, ref, at>>

\* Mutant: the listed works are forgotten instead of flushed
FlushWorklistNoWait(u) ==
    /\ pc[u] = "x_flush"
    /\ worklist' = {}
    /\ module' = "unloaded"
    /\ Return(u)
    /\ UNCHANGED <<objvars, wqvars, epvars, mounts, waddw, waddw_epoch, at>>

\* Mutant: waits for the list to become empty, which the works do not do
FlushWorklistDrained(u) ==
    /\ pc[u] = "x_flush"
    /\ worklist = {}
    /\ module' = "unloaded"
    /\ Return(u)
    /\ UNCHANGED <<objvars, wqvars, epvars, mounts, waddwvars, at>>

FlushWorklist(u) ==
    /\ pc[u] = "x_flush"
    /\ \A o \in worklist : waddw[o] = "done"
    /\ worklist' = {}
    /\ module' = "unloaded"
    /\ Return(u)
    /\ UNCHANGED <<objvars, wqvars, epvars, mounts, waddw, waddw_epoch, at>>

-----------------------------------------------------------------------------
(* A write (snapshot.c): the write_dirty_buffer probe of the file system   *)
(* support looks the device up and queues a make_snapshot work.            *)

WriteReturn(w) ==
    /\ Return(w)
    /\ at' = [at EXCEPT ![w] = Null]
    /\ RcuExit(w)

\* Files stay open after a lazy umount
Writable(m) == mounts[m] = "up" \/ (LazyUmount /\ mounts[m] = "down")

\* bdsnap_search_device: get_device_data_always
SearchDevice(w, m) ==
    /\ module = "loaded"
    /\ pc[w] = "idle"
    /\ Writable(m)
    /\ ht # Null
    /\ Len(wq[ht]) < MaxWorks
    /\ data' = [data EXCEPT ![w] = ht]
    /\ at' = [at EXCEPT ![w] = m]
    /\ Goto(w, "w_search")
    /\ UNCHANGED <<module, objvars, wqvars, epvars, mounts, waddwvars, ref>>

Valid(o) == e[o] # Null /\ ~wq_is_destroyed[o]

\* A check without a lock: the one of bdsnap_search_device, and the same one
\* again in bdsnap_make_snapshot
CheckValid(w) ==
    /\ pc[w] \in {"w_search", "w_make"}
    /\ \/ /\ Valid(data[w])
          /\ Goto(w, IF pc[w] = "w_search" THEN "w_make" ELSE "w_lock")
          /\ UNCHANGED <<grace, data, ref, at>>
       \/ ~Valid(data[w]) /\ WriteReturn(w)
    /\ UNCHANGED <<module, ht, mem, e, wq_is_destroyed, wqvars, epvars, mounts,
                   waddwvars>>

\* read_lock(wq_destroy_lock) and the check under it
MakeLock(w) ==
    /\ pc[w] = "w_lock"
    /\ \/ wq_is_destroyed[data[w]] /\ WriteReturn(w)
       \/ /\ ~wq_is_destroyed[data[w]]
          /\ Goto(w, "w_queue")
          /\ UNCHANGED <<grace, data, ref, at>>
    /\ UNCHANGED <<module, ht, mem, e, wq_is_destroyed, wqvars, epvars, mounts,
                   waddwvars>>

\* queue_snapshot_work: "should never happen, but who knows..."
QueueCheck(w) ==
    /\ pc[w] = "w_queue"
    /\ \/ e[data[w]] = Null /\ WriteReturn(w)
       \/ /\ e[data[w]] # Null
          /\ Goto(w, "w_load")
          /\ UNCHANGED <<grace, data, ref, at>>
    /\ UNCHANGED <<module, ht, mem, e, wq_is_destroyed, wqvars, epvars, mounts,
                   waddwvars>>

\* The two kmallocs succeeded; the pointers to the epoch's fields are taken
\* from obj->e, which is read again
QueueLoad(w) ==
    /\ pc[w] = "w_load"
    /\ ref' = [ref EXCEPT ![w] = e[data[w]]]
    /\ Goto(w, IF e[data[w]] = Null THEN "oops" ELSE "w_date")
    /\ UNCHANGED <<module, objvars, wqvars, epvars, mounts, waddwvars, data, at>>

QueueAllocFails(w) ==
    /\ AllocMayFail
    /\ pc[w] = "w_load"
    /\ WriteReturn(w)
    /\ UNCHANGED <<module, ht, mem, e, wq_is_destroyed, wqvars, epvars, mounts,
                   waddwvars>>

\* The date is copied from obj->e, which the compiler may or may not load
\* again; then queue_work and the two unlocks
QueueWork(w) ==
    LET o == data[w] IN
    /\ pc[w] = "w_date"
    /\ \E src \in {ref[w], e[o]} :
          \/ /\ src = Null
             /\ Goto(w, "oops")
             /\ UNCHANGED <<grace, wq, data, ref, at>>
          \/ /\ src # Null
             /\ wq' = [wq EXCEPT ![o] =
                          Append(@, SnapWork(ref[w], dated[src]))]
             /\ WriteReturn(w)
    /\ UNCHANGED <<module, ht, mem, e, wq_is_destroyed, wqmem, epvars, mounts,
                   waddwvars>>

-----------------------------------------------------------------------------
(* The workqueues.  A device's queue is ordered: one work at a time.       *)

\* make_snapshot; what it does with the epoch is modelled in SnapshotWork
RunSnapshot(o) ==
    /\ wq[o] # <<>>
    /\ Head(wq[o]).kind = "snap"
    /\ wq' = [wq EXCEPT ![o] = Tail(@)]
    /\ UNCHANGED <<module, objvars, wqmem, epvars, mounts, waddwvars, thrvars>>

\* cleanup_epoch_work: destroy_an_epoch
RunCleanupEpoch(o) ==
    /\ wq[o] # <<>>
    /\ Head(wq[o]).kind = "cleanup"
    /\ epmem' = [epmem EXCEPT ![Head(wq[o]).ep] = "freed"]
    /\ wq' = [wq EXCEPT ![o] = Tail(@)]
    /\ UNCHANGED <<module, objvars, wqmem, n_currently_mounted, dated, mounts,
                   waddwvars, thrvars>>

\* Mutant: the queue is not flushed before it is destroyed
WaddwDestroyNoFlush(o) ==
    /\ waddw[o] = "flush"
    /\ wqmem' = [wqmem EXCEPT ![o] = "destroyed"]
    /\ waddw' = [waddw EXCEPT ![o] = "epoch"]
    /\ UNCHANGED <<module, objvars, wq, epvars, mounts, waddw_epoch, worklist,
                   thrvars>>

\* __do_waddw: flush_workqueue and destroy_workqueue wait for the queue ...
WaddwDestroy(o) ==
    /\ waddw[o] = "flush"
    /\ wq[o] = <<>>
    /\ wqmem' = [wqmem EXCEPT ![o] = "destroyed"]
    /\ waddw' = [waddw EXCEPT ![o] = "epoch"]
    /\ UNCHANGED <<module, objvars, wq, epvars, mounts, waddw_epoch, worklist,
                   thrvars>>

\* Mutant: the epoch that was taken is not destroyed
WaddwEpochKept(o) ==
    /\ waddw[o] = "epoch"
    /\ waddw' = [waddw EXCEPT ![o] = "done"]
    /\ waddw_epoch' = [waddw_epoch EXCEPT ![o] = Null]
    /\ UNCHANGED <<module, objvars, wqvars, epvars, mounts, worklist, thrvars>>

\* ... and destroy_an_epoch frees the epoch that was taken, if there was one
WaddwEpoch(o) ==
    /\ waddw[o] = "epoch"
    /\ epmem' = [ep \in Epochs |->
                    IF ep = waddw_epoch[o] THEN "freed" ELSE epmem[ep]]
    /\ waddw' = [waddw EXCEPT ![o] = "done"]
    /\ waddw_epoch' = [waddw_epoch EXCEPT ![o] = Null]
    /\ UNCHANGED <<module, objvars, wqvars, n_currently_mounted, dated, mounts,
                   worklist, thrvars>>

-----------------------------------------------------------------------------
\* The system may stay as it is when nothing is under way, or after a writer
\* has faulted with the locks held: nothing is promised then
AtRest ==
    /\ \A t \in Threads : pc[t] = "idle"
    /\ \A o \in Objs : /\ wq[o] = <<>>
                       /\ mem[o] # "dying"
                       /\ waddw[o] \in {"none", "done"}
Faulted == \E w \in Writers : pc[w] = "oops"
Rest == (AtRest \/ Faulted) /\ UNCHANGED vars

UserNext(u) ==
    \/ \E o \in Objs : RegisterInit(u, o)
    \/ RegisterInsert(u) \/ RegisterFails(u)
    \/ UnregisterLookup(u) \/ UnregisterRemove(u)
    \/ CleanupLock(u) \/ CleanupMark(u) \/ CleanupTake(u)
    \/ CleanupDefer(u) \/ CleanupDeferFails(u) \/ CleanupList(u)
    \/ DestroyDevices(u) \/ FlushWorklist(u)

AdminNext(a) ==
    \/ \E m \in Mounts : MountCall(a, m) \/ UmountCall(a, m)
    \/ EventLookup(a) \/ EventLock(a)
    \/ (\E ep \in Epochs : AllocEpoch(a, ep)) \/ AllocEpochFails(a)
    \/ CountMount(a) \/ CountUmount(a)

WriterNext(w) ==
    \/ \E m \in Mounts : SearchDevice(w, m)
    \/ CheckValid(w) \/ MakeLock(w) \/ QueueCheck(w)
    \/ QueueLoad(w) \/ QueueAllocFails(w) \/ QueueWork(w)

KernelNext(o) ==
    \/ FreeObject(o) \/ RunSnapshot(o) \/ RunCleanupEpoch(o)
    \/ WaddwDestroy(o) \/ WaddwEpoch(o)

Next ==
    \/ \E u \in Users : UserNext(u)
    \/ \E a \in Admins : AdminNext(a)
    \/ \E w \in Writers : WriterNext(w)
    \/ \E o \in Objs : KernelNext(o)
    \/ Rest

Spec == Init /\ [][Next]_vars

-----------------------------------------------------------------------------
(* Safety.                                                                 *)

\* Every thread that works on a struct object_data works on memory that has
\* not been freed: the readers because kfree_rcu waits for them, the thread
\* that cleans up because only one of them wins rhashtable_remove_fast.
BusyPcs == RcuPcs \cup {"r_insert", "c_lock", "c_mark", "c_take", "c_defer",
                        "c_list"}
HandleLive ==
    \A t \in Threads : pc[t] \in BusyPcs =>
        data[t] \in Objs /\ mem[data[t]] \in {"live", "dying"}

\* wq_destroy_lock and wq_is_destroyed do their job: whoever is about to call
\* queue_work finds the workqueue alive, and no work is left on a destroyed
\* one (devices.c:111-125, snapshot.c:623-629, mounts.c:88-103).
WorkqueueUsable ==
    /\ \A w \in Writers : pc[w] \in ReadPcs => wqmem[data[w]] = "alive"
    /\ \A a \in Admins : (pc[a] = "u_count" /\ EndsEpoch(data[a]))
                             => wqmem[data[a]] = "alive"
    /\ \A o \in Objs : wqmem[o] = "destroyed" => wq[o] = <<>>

\* Who is going to free an epoch: the object that points to it, the thread
\* that took it from there, the deferred destruction of the workqueue, or a
\* cleanup_epoch_work in a queue
Owners(ep) ==
    {<<"object", o>> : o \in {x \in Objs : e[x] = ep}}
    \cup {<<"thread", u>> : u \in {x \in Users : ref[x] = ep}}
    \cup {<<"waddw", o>> : o \in {x \in Objs : waddw_epoch[x] = ep}}
    \cup UNION {{<<"work", o, i>> :
                    i \in {k \in DOMAIN wq[o] : wq[o][k].kind = "cleanup"
                                                /\ wq[o][k].ep = ep}}
                : o \in Objs}

\* README, "locks gurantee that there will not be a double reference putting
\* or double kfrees": an epoch never has two owners, and what is owned has
\* not been freed, whatever order umounts and deactivations come in.
NoDoubleFree ==
    \A ep \in Epochs :
        /\ \A x, y \in Owners(ep) : x = y
        /\ Owners(ep) # {} => epmem[ep] = "live"

\* When no allocation fails, umounts and deactivations lose no epoch on the way
\* from one owner to the next.  This is about the hand-over: a mount event that
\* found the object before its removal can leave an epoch in an object that has been
\* cleaned up, and that object counts as an owner although it never frees anything.
NoLostEpoch == \A ep \in Epochs : epmem[ep] = "live" => Owners(ep) # {}

\* No queued make_snapshot points into an epoch that is freed before it runs
\* (its path_snapdir and cached_blocks are addresses inside the epoch), and no
\* writer reads the date of a freed epoch or follows a null e.
NoUseAfterFree ==
    /\ \A o \in Objs : \A i \in DOMAIN wq[o] :
           wq[o][i].kind = "snap" =>
               /\ epmem[wq[o][i].ep] = "live"
               /\ \A j \in 1..(i - 1) : wq[o][j] # CleanupWork(wq[o][i].ep)
    /\ \A w \in Writers : /\ pc[w] # "oops"
                          /\ pc[w] = "w_date" => epmem[ref[w]] = "live"

\* README, "Mounting increases the n_currently_mounted counter [...] umount
\* makes it decrease": with no event under way, an active device has an epoch
\* exactly while it is mounted, and the counter is the number of its mounts.
Up == {m \in Mounts : mounts[m] = "up"}
CountMatchesMounts ==
    NoEventPending /\ ht # Null =>
        /\ e[ht] = Null <=> Up = {}
        /\ e[ht] # Null => n_currently_mounted[e[ht]] = Cardinality(Up)

\* README, "we may also need to wait for every of this cleanup object data
\* work to terminate [...] since otherwise code of unloaded module may be
\* executed": nothing is queued or deferred once the module is unloaded.
NoWorkAfterUnload ==
    module = "unloaded" =>
        \A o \in Objs : wq[o] = <<>> /\ waddw[o] \in {"none", "done"}

-----------------------------------------------------------------------------
(* Liveness.  Nobody is obliged to start an operation; what was started is *)
(* carried on.  The kernel's spinlocks and rwlocks are queued, hence fair: *)
(* whoever finds a lock free again and again gets it.                      *)

UserSteps(u) ==
    RegisterInsert(u) \/ RegisterFails(u) \/ UnregisterRemove(u)
    \/ CleanupTake(u) \/ CleanupDefer(u) \/ CleanupList(u) \/ FlushWorklist(u)
AdminSteps(a) ==
    EventLookup(a) \/ (\E ep \in Epochs : AllocEpoch(a, ep))
    \/ CountMount(a) \/ CountUmount(a)
WriterSteps(w) ==
    CheckValid(w) \/ MakeLock(w) \/ QueueCheck(w) \/ QueueLoad(w)
    \/ QueueWork(w)

Fairness ==
    /\ \A u \in Users : /\ WF_vars(UserSteps(u))
                        /\ SF_vars(CleanupLock(u))
                        /\ SF_vars(CleanupMark(u))
    /\ \A a \in Admins : WF_vars(AdminSteps(a)) /\ SF_vars(EventLock(a))
    /\ \A w \in Writers : WF_vars(WriterSteps(w))
    /\ \A o \in Objs : WF_vars(KernelNext(o))

FairSpec == Spec /\ Fairness

\* A deactivation is carried through: the workqueue of a removed device is
\* destroyed although writers and mounts keep racing with the removal.
WorkqueueDestroyed ==
    \A o \in Objs : wq_is_destroyed[o] ~> wqmem[o] = "destroyed"

\* An epoch that has left its object is freed, by whichever owner it went to.
DetachedEpochFreed ==
    \A ep \in Epochs :
        (epmem[ep] = "live" /\ \A o \in Objs : e[o] # ep) ~> epmem[ep] = "freed"

\* Every call returns: nobody waits for ever for a lock, a grace period or a
\* flush, and a module that is being unloaded gets unloaded.
EveryCallReturns ==
    \A t \in Threads : pc[t] # "idle" ~> pc[t] = "idle"

=============================================================================
