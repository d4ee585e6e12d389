------------------------- MODULE DeviceEpochsProofs -------------------------
(***************************************************************************)
(* Proofs about DeviceEpochs, for any number of threads, mounts, objects   *)
(* and epochs, and for every value of the four switches: in particular     *)
(* with overlapping events, lazy umounts, activation of mounted devices    *)
(* and failing allocations.                                                *)
(***************************************************************************)
EXTENDS DeviceEpochs, TLAPS

-----------------------------------------------------------------------------
(* Type correctness.  The pointers a thread follows are part of it.        *)

DataTyped == \A t \in Threads : pc[t] \in BusyPcs => data[t] \in Objs
RefTyped == \A w \in Writers : pc[w] = "w_date" => ref[w] \in Epochs

TypeInv == TypeOK /\ DataTyped /\ RefTyped

-----------------------------------------------------------------------------
(* The objects.  CleanPcs are the steps of a thread that has removed an    *)
(* object from the table and has not yet called kfree_rcu.                 *)

CleanPcs == {"c_lock", "c_mark", "c_take", "c_defer", "c_list"}

\* What the table holds can be found only while it is allocated
TableLive == ht # Null => mem[ht] = "live"

\* A reader's object is live, or its grace period waits for the reader
ReaderSafe ==
    \A t \in Threads : pc[t] \in RcuPcs =>
        \/ mem[data[t]] = "live"
        \/ mem[data[t]] = "dying" /\ t \in grace[data[t]]

\* The thread that cleans an object up is the only one, and nobody else can
\* find the object any more
CleanerAlone ==
    \A u \in Users : pc[u] \in CleanPcs =>
        /\ mem[data[u]] = "live"
        /\ data[u] # ht
        /\ \A v \in Users : pc[v] \in CleanPcs /\ data[v] = data[u] => v = u

\* Nobody has a pointer to an object that is being initialised
NewInvisible ==
    \A u \in Users : pc[u] = "r_insert" =>
        /\ mem[data[u]] = "live"
        /\ data[u] # ht
        /\ wq[data[u]] = <<>>
        /\ \A t \in Threads : data[t] = data[u] => t = u

\* An object that was never allocated is pristine and nobody points to it
UnusedFresh ==
    /\ \A o \in Objs : mem[o] = "unused" => wq[o] = <<>>
    /\ \A t \in Threads : data[t] # Null => mem[data[t]] # "unused"

ObjInv == TableLive /\ ReaderSafe /\ CleanerAlone /\ NewInvisible /\ UnusedFresh

-----------------------------------------------------------------------------
(* The workqueues.                                                         *)

\* Destruction is announced before it happens
MarkedFirst ==
    /\ \A o \in Objs : wqmem[o] = "destroyed" => wq_is_destroyed[o]
    /\ \A o \in Objs : waddw[o] # "none" => wq_is_destroyed[o]
    /\ \A u \in Users : pc[u] \in {"c_take", "c_defer", "c_list"} =>
           wq_is_destroyed[data[u]]

\* An object in use has a workqueue until its destruction is announced
HasQueue ==
    \A o \in Objs : mem[o] # "unused" /\ ~wq_is_destroyed[o] =>
        wqmem[o] = "alive"

\* Under the read lock, the destruction has not been announced
ReaderBeforeMark ==
    \A w \in Writers : pc[w] \in ReadPcs => ~wq_is_destroyed[data[w]]

DestroyedEmpty == \A o \in Objs : wqmem[o] = "destroyed" => wq[o] = <<>>

QueueInv == MarkedFirst /\ HasQueue /\ ReaderBeforeMark /\ DestroyedEmpty

-----------------------------------------------------------------------------
(* The owners of an epoch, pair by pair.                                   *)

IsCleanup(q, i) == i \in DOMAIN q /\ q[i].kind = "cleanup"

\* No kind of owner owns an epoch twice
ObjUnique == \A o, p \in Objs : e[o] = e[p] /\ e[o] # Null => o = p
ThreadUnique == \A u, v \in Users : ref[u] = ref[v] /\ ref[u] # Null => u = v
WaddwUnique ==
    \A o, p \in Objs :
        waddw_epoch[o] = waddw_epoch[p] /\ waddw_epoch[o] # Null => o = p
WorkUnique ==
    \A o, p \in Objs : \A i, j \in Nat :
        IsCleanup(wq[o], i) /\ IsCleanup(wq[p], j)
            /\ wq[o][i].ep = wq[p][j].ep =>
            o = p /\ i = j

\* No two kinds of owners own the same epoch
ObjOnly ==
    \A o \in Objs : e[o] # Null =>
        /\ \A u \in Users : ref[u] # e[o]
        /\ \A p \in Objs : waddw_epoch[p] # e[o]
        /\ \A p \in Objs : \A i \in Nat :
               IsCleanup(wq[p], i) => wq[p][i].ep # e[o]
ThreadOnly ==
    \A u \in Users : ref[u] # Null =>
        /\ \A p \in Objs : waddw_epoch[p] # ref[u]
        /\ \A p \in Objs : \A i \in Nat :
               IsCleanup(wq[p], i) => wq[p][i].ep # ref[u]
WaddwOnly ==
    \A o, p \in Objs : \A i \in Nat :
        waddw_epoch[o] # Null /\ IsCleanup(wq[p], i) =>
            wq[p][i].ep # waddw_epoch[o]

\* What is owned has not been freed
OwnedLive ==
    /\ \A o \in Objs : e[o] # Null => epmem[e[o]] = "live"
    /\ \A u \in Users : ref[u] # Null => epmem[ref[u]] = "live"
    /\ \A o \in Objs : waddw_epoch[o] # Null => epmem[waddw_epoch[o]] = "live"
    /\ \A o \in Objs : \A i \in Nat :
           IsCleanup(wq[o], i) => epmem[wq[o][i].ep] = "live"

OwnerInv ==
    /\ ObjUnique /\ ThreadUnique /\ WaddwUnique /\ WorkUnique
    /\ ObjOnly /\ ThreadOnly /\ WaddwOnly
    /\ OwnedLive

-----------------------------------------------------------------------------
\* The conjuncts of TypeInv are preserved by every action.
LEMMA TypeStep == TypeInv /\ [Next]_vars => TypeInv'
  <1> SUFFICES ASSUME TypeInv, [Next]_vars PROVE TypeInv'
    OBVIOUS
  <1> USE ThreadsAssumption, NullAssumption
      DEF TypeInv, TypeOK, DataTyped, RefTyped, Threads, UserPcs, AdminPcs,
          WriterPcs, RcuPcs, BusyPcs, objvars, wqvars, epvars, waddwvars,
          thrvars
  <1>1. ASSUME NEW u \in Users, NEW o \in Objs, RegisterInit(u, o)
        PROVE  TypeInv'
    BY <1>1 DEF RegisterInit, Goto
  <1>2. ASSUME NEW u \in Users, RegisterInsert(u)
        PROVE  TypeInv'
    BY <1>2 DEF RegisterInsert, Return
  <1>3. ASSUME NEW u \in Users, RegisterFails(u)
        PROVE  TypeInv'
    BY <1>3 DEF RegisterFails, Return
  <1>4. ASSUME NEW u \in Users, UnregisterLookup(u)
        PROVE  TypeInv'
    BY <1>4 DEF UnregisterLookup, Goto
  <1>5. ASSUME NEW u \in Users, UnregisterRemove(u)
        PROVE  TypeInv'
    <2>1. /\ pc[u] = "d_remove"
          /\ grace' = [o \in Objs |-> grace[o] \ {u}]
          /\ UNCHANGED <<module, mem, e, wq_is_destroyed, wqvars, epvars,
                        mounts, waddwvars, at>>
      BY <1>5 DEF UnregisterRemove, Goto, Return, RcuExit
    <2>2. CASE ht = data[u]
      <3>1. /\ pc' = [pc EXCEPT ![u] = "c_lock"]
            /\ ht' = Null
            /\ UNCHANGED <<data, ref>>
        BY <1>5, <2>2 DEF UnregisterRemove, Goto, Return, RcuExit
      <3>2. QED
        BY <2>1, <2>2, <3>1
    <2>3. CASE ht # data[u]
      <3>1. /\ pc' = [pc EXCEPT ![u] = "idle"]
            /\ data' = [data EXCEPT ![u] = Null]
            /\ ref' = [ref EXCEPT ![u] = Null]
            /\ ht' = ht
        BY <1>5, <2>3 DEF UnregisterRemove, Goto, Return, RcuExit
      <3>2. QED
        BY <2>1, <2>3, <3>1
    <2>4. QED
      BY <2>2, <2>3
  <1>6. ASSUME NEW u \in Users, CleanupLock(u)
        PROVE  TypeInv'
    BY <1>6 DEF CleanupLock, Goto
  <1>7. ASSUME NEW u \in Users, CleanupMark(u)
        PROVE  TypeInv'
    BY <1>7 DEF CleanupMark, Goto
  <1>8. ASSUME NEW u \in Users, CleanupTake(u)
        PROVE  TypeInv'
    BY <1>8 DEF CleanupTake, Goto
  <1>9. ASSUME NEW u \in Users, CleanupDefer(u)
        PROVE  TypeInv'
    BY <1>9 DEF CleanupDefer, Goto
  <1>10. ASSUME NEW u \in Users, CleanupDeferFails(u)
         PROVE  TypeInv'
    BY <1>10 DEF CleanupDeferFails, Goto
  <1>11. ASSUME NEW u \in Users, CleanupList(u)
         PROVE  TypeInv'
    BY <1>11 DEF CleanupList, Goto, RcuReaders
  <1>12. ASSUME NEW u \in Users, DestroyDevices(u)
         PROVE  TypeInv'
    BY <1>12 DEF DestroyDevices
  <1>13. ASSUME NEW u \in Users, FlushWorklist(u)
         PROVE  TypeInv'
    BY <1>13 DEF FlushWorklist, Return
  <1>14. ASSUME NEW a \in Admins, NEW m \in Mounts, MountCall(a, m)
         PROVE  TypeInv'
    BY <1>14 DEF MountCall, Goto
  <1>15. ASSUME NEW a \in Admins, NEW m \in Mounts, UmountCall(a, m)
         PROVE  TypeInv'
    BY <1>15 DEF UmountCall, Goto
  <1>16. ASSUME NEW a \in Admins, EventLookup(a)
         PROVE  TypeInv'
    <2>1. /\ pc[a] \in {"m_lookup", "u_lookup"}
          /\ UNCHANGED <<module, objvars, wqvars, epvars, mounts,
                        waddwvars, at>>
      BY <1>16 DEF EventLookup, Goto, Return
    <2>2. CASE ht = Null
      <3>1. /\ pc' = [pc EXCEPT ![a] = "idle"]
            /\ data' = [data EXCEPT ![a] = Null]
            /\ ref' = [ref EXCEPT ![a] = Null]
        BY <1>16, <2>2 DEF EventLookup, Goto, Return
      <3>2. QED
        BY <2>1, <2>2, <3>1
    <2>3. CASE ht # Null
      <3>1. PICK l \in {"m_lock", "u_lock"} :
              /\ pc' = [pc EXCEPT ![a] = l]
              /\ data' = [data EXCEPT ![a] = ht]
              /\ ref' = ref
        BY <1>16, <2>3 DEF EventLookup, Goto, Return
      <3>2. QED
        BY <2>1, <2>3, <3>1
    <2>4. QED
      BY <2>2, <2>3
  <1>17. ASSUME NEW a \in Admins, EventLock(a)
         PROVE  TypeInv'
    BY <1>17 DEF EventLock, Goto
  <1>18. ASSUME NEW a \in Admins, NEW ep \in Epochs, AllocEpoch(a, ep)
         PROVE  TypeInv'
    BY <1>18 DEF AllocEpoch, Goto
  <1>19. ASSUME NEW a \in Admins, AllocEpochFails(a)
         PROVE  TypeInv'
    BY <1>19 DEF AllocEpochFails, Return, RcuExit
  <1>20. ASSUME NEW a \in Admins, CountMount(a)
         PROVE  TypeInv'
    <2>1. /\ n_currently_mounted' \in [Epochs -> Nat]
          /\ dated' \in [Epochs -> BOOLEAN]
      BY <1>20 DEF CountMount
    <2>2. QED
      BY <1>20, <2>1 DEF CountMount, Return, RcuExit
  <1>21. ASSUME NEW a \in Admins, CountUmount(a)
         PROVE  TypeInv'
    <2> DEFINE o == data[a]
    <2>1. o \in Objs
      BY <1>21 DEF CountUmount
    <2>2. n_currently_mounted' \in [Epochs -> Nat]
      BY <1>21 DEF CountUmount
    <2>3. e' \in [Objs -> Epochs \cup {Null}] /\ wq' \in [Objs -> Seq(Works)]
      <3>1. CASE EndsEpoch(o)
        <4>1. CleanupWork(e[o]) \in Works
          BY <2>1, <3>1 DEF EndsEpoch, CleanupWork, Works
        <4>2. /\ e' = [e EXCEPT ![o] = Null]
              /\ \/ wq' = wq
                 \/ wq' = [wq EXCEPT ![o] = Append(@, CleanupWork(e[o]))]
          BY <1>21, <3>1 DEF CountUmount
        <4>3. Append(wq[o], CleanupWork(e[o])) \in Seq(Works)
          BY <2>1, <4>1
        <4>4. wq' \in [Objs -> Seq(Works)]
          <5>1. CASE wq' = wq
            BY <5>1
          <5>2. CASE wq' = [wq EXCEPT ![o] = Append(@, CleanupWork(e[o]))]
            BY <2>1, <4>3, <5>2
          <5>3. QED
            BY <4>2, <5>1, <5>2
        <4>5. QED
          BY <4>2, <4>4
      <3>2. CASE ~EndsEpoch(o)
        BY <1>21, <3>2 DEF CountUmount
      <3>3. QED
        BY <3>1, <3>2
    <2>4. QED
      BY <1>21, <2>2, <2>3 DEF CountUmount, Return, RcuExit
  <1>22. ASSUME NEW w \in Writers, NEW m \in Mounts, SearchDevice(w, m)
         PROVE  TypeInv'
    BY <1>22 DEF SearchDevice, Goto
  <1>23. ASSUME NEW w \in Writers, CheckValid(w)
         PROVE  TypeInv'
    <2>1. /\ pc[w] \in {"w_search", "w_make"}
          /\ UNCHANGED <<module, ht, mem, e, wq_is_destroyed, wqvars, epvars,
                        mounts, waddwvars>>
      BY <1>23 DEF CheckValid, Goto, WriteReturn, Return, RcuExit
    <2>2. CASE Valid(data[w])
      <3>1. PICK l \in {"w_make", "w_lock"} :
              /\ pc' = [pc EXCEPT ![w] = l]
              /\ UNCHANGED <<grace, data, ref, at>>
        BY <1>23, <2>2 DEF CheckValid, Goto, WriteReturn, Return, RcuExit
      <3>2. QED
        BY <2>1, <2>2, <3>1
    <2>3. CASE ~Valid(data[w])
      <3>1. /\ pc' = [pc EXCEPT ![w] = "idle"]
            /\ data' = [data EXCEPT ![w] = Null]
            /\ ref' = [ref EXCEPT ![w] = Null]
            /\ at' = [at EXCEPT ![w] = Null]
            /\ grace' = [o \in Objs |-> grace[o] \ {w}]
        BY <1>23, <2>3 DEF CheckValid, Goto, WriteReturn, Return, RcuExit
      <3>2. QED
        BY <2>1, <2>3, <3>1
    <2>4. QED
      BY <2>2, <2>3
  <1>24. ASSUME NEW w \in Writers, MakeLock(w)
         PROVE  TypeInv'
    <2>1. /\ pc[w] = "w_lock"
          /\ UNCHANGED <<module, ht, mem, e, wq_is_destroyed, wqvars, epvars,
                        mounts, waddwvars>>
      BY <1>24 DEF MakeLock, Goto, WriteReturn, Return, RcuExit
    <2>2. CASE wq_is_destroyed[data[w]]
      <3>1. /\ pc' = [pc EXCEPT ![w] = "idle"]
            /\ data' = [data EXCEPT ![w] = Null]
            /\ ref' = [ref EXCEPT ![w] = Null]
            /\ at' = [at EXCEPT ![w] = Null]
            /\ grace' = [o \in Objs |-> grace[o] \ {w}]
        BY <1>24, <2>2 DEF MakeLock, Goto, WriteReturn, Return, RcuExit
      <3>2. QED
        BY <2>1, <2>2, <3>1
    <2>3. CASE ~wq_is_destroyed[data[w]]
      <3>1. /\ pc' = [pc EXCEPT ![w] = "w_queue"]
            /\ UNCHANGED <<grace, data, ref, at>>
        BY <1>24, <2>3 DEF MakeLock, Goto, WriteReturn, Return, RcuExit
      <3>2. QED
        BY <2>1, <2>3, <3>1
    <2>4. QED
      BY <2>2, <2>3
  <1>25. ASSUME NEW w \in Writers, QueueCheck(w)
         PROVE  TypeInv'
    <2>1. /\ pc[w] = "w_queue"
          /\ UNCHANGED <<module, ht, mem, e, wq_is_destroyed, wqvars, epvars,
                        mounts, waddwvars>>
      BY <1>25 DEF QueueCheck, Goto, WriteReturn, Return, RcuExit
    <2>2. CASE e[data[w]] = Null
      <3>1. /\ pc' = [pc EXCEPT ![w] = "idle"]
            /\ data' = [data EXCEPT ![w] = Null]
            /\ ref' = [ref EXCEPT ![w] = Null]
            /\ at' = [at EXCEPT ![w] = Null]
            /\ grace' = [o \in Objs |-> grace[o] \ {w}]
        BY <1>25, <2>2 DEF QueueCheck, Goto, WriteReturn, Return, RcuExit
      <3>2. QED
        BY <2>1, <2>2, <3>1
    <2>3. CASE e[data[w]] # Null
      <3>1. /\ pc' = [pc EXCEPT ![w] = "w_load"]
            /\ UNCHANGED <<grace, data, ref, at>>
        BY <1>25, <2>3 DEF QueueCheck, Goto, WriteReturn, Return, RcuExit
      <3>2. QED
        BY <2>1, <2>3, <3>1
    <2>4. QED
      BY <2>2, <2>3
  <1>26. ASSUME NEW w \in Writers, QueueLoad(w)
         PROVE  TypeInv'
    BY <1>26 DEF QueueLoad, Goto
  <1>27. ASSUME NEW w \in Writers, QueueAllocFails(w)
         PROVE  TypeInv'
    BY <1>27 DEF QueueAllocFails, WriteReturn, Return, RcuExit
  <1>28. ASSUME NEW w \in Writers, QueueWork(w)
         PROVE  TypeInv'
    <2>1. /\ pc[w] = "w_date"
          /\ UNCHANGED <<module, ht, mem, e, wq_is_destroyed, wqmem, epvars,
                        mounts, waddwvars>>
      BY <1>28 DEF QueueWork
    <2>2. data[w] \in Objs /\ ref[w] \in Epochs
      BY <2>1
    <2>3. PICK src \in {ref[w], e[data[w]]} :
             \/ /\ src = Null
                /\ Goto(w, "oops")
                /\ UNCHANGED <<grace, wq, data, ref, at>>
             \/ /\ src # Null
                /\ wq' = [wq EXCEPT ![data[w]] =
                             Append(@, SnapWork(ref[w], dated[src]))]
                /\ WriteReturn(w)
      BY <1>28 DEF QueueWork
    <2>4. CASE src = Null
      <3>1. /\ pc' = [pc EXCEPT ![w] = "oops"]
            /\ UNCHANGED <<grace, wq, data, ref, at>>
        BY <2>3, <2>4 DEF Goto
      <3>2. QED
        BY <2>1, <3>1
    <2>5. CASE src # Null
      <3>1. SnapWork(ref[w], dated[src]) \in Works
        BY <2>2, <2>3, <2>5 DEF SnapWork, Works
      <3>2. wq' = [wq EXCEPT ![data[w]] =
                         Append(@, SnapWork(ref[w], dated[src]))]
        BY <2>3, <2>5
      <3>3. wq' \in [Objs -> Seq(Works)]
        BY <2>2, <3>1, <3>2
      <3>4. WriteReturn(w)
        BY <2>3, <2>5
      <3>5. QED
        BY <2>1, <3>3, <3>4 DEF WriteReturn, Return, RcuExit
    <2>6. QED
      BY <2>4, <2>5
  <1>29. ASSUME NEW o \in Objs, FreeObject(o)
         PROVE  TypeInv'
    BY <1>29 DEF FreeObject
  <1>30. ASSUME NEW o \in Objs, RunSnapshot(o)
         PROVE  TypeInv'
    BY <1>30 DEF RunSnapshot
  <1>31. ASSUME NEW o \in Objs, RunCleanupEpoch(o)
         PROVE  TypeInv'
    <2>1. epmem' \in [Epochs -> {"unused", "live", "freed"}]
      BY <1>31 DEF RunCleanupEpoch
    <2>2. wq' \in [Objs -> Seq(Works)]
      BY <1>31 DEF RunCleanupEpoch
    <2>3. QED
      BY <1>31, <2>1, <2>2 DEF RunCleanupEpoch
  <1>32. ASSUME NEW o \in Objs, WaddwDestroy(o)
         PROVE  TypeInv'
    BY <1>32 DEF WaddwDestroy
  <1>33. ASSUME NEW o \in Objs, WaddwEpoch(o)
         PROVE  TypeInv'
    BY <1>33 DEF WaddwEpoch
  <1>34. CASE UNCHANGED vars
    BY <1>34 DEF vars
  <1>35. QED
    BY <1>1, <1>2, <1>3, <1>4, <1>5, <1>6, <1>7, <1>8, <1>9, <1>10, <1>11,
       <1>12, <1>13, <1>14, <1>15, <1>16, <1>17, <1>18, <1>19, <1>20, <1>21,
       <1>22, <1>23, <1>24, <1>25, <1>26, <1>27, <1>28, <1>29, <1>30, <1>31,
       <1>32, <1>33, <1>34
    DEF Next, UserNext, AdminNext, WriterNext, KernelNext, Rest

\* The objects: every action preserves ObjInv.
LEMMA ObjStep == TypeInv /\ ObjInv /\ [Next]_vars => ObjInv'
  <1> SUFFICES ASSUME TypeInv, ObjInv, [Next]_vars
               PROVE  ObjInv'
    OBVIOUS
  <1> USE ThreadsAssumption, NullAssumption
      DEF TypeInv, TypeOK, DataTyped, RefTyped, Threads, UserPcs, AdminPcs,
          WriterPcs, RcuPcs, BusyPcs, objvars, wqvars, epvars, waddwvars,
          thrvars
  <1>1. ASSUME NEW u \in Users, NEW o \in Objs, RegisterInit(u, o)
        PROVE  ObjInv'
    BY <1>1 DEF RegisterInit, Goto, ObjInv, TableLive, ReaderSafe,
        CleanerAlone, NewInvisible, UnusedFresh, CleanPcs
  <1>2. ASSUME NEW u \in Users, RegisterInsert(u)
        PROVE  ObjInv'
    BY <1>2 DEF RegisterInsert, Return, ObjInv, TableLive, ReaderSafe,
        CleanerAlone, NewInvisible, UnusedFresh, CleanPcs
  <1>3. ASSUME NEW u \in Users, RegisterFails(u)
        PROVE  ObjInv'
    BY <1>3 DEF RegisterFails, Return, ObjInv, TableLive, ReaderSafe,
        CleanerAlone, NewInvisible, UnusedFresh, CleanPcs
  <1>4. ASSUME NEW u \in Users, UnregisterLookup(u)
        PROVE  ObjInv'
    BY <1>4 DEF UnregisterLookup, Goto, ObjInv, TableLive, ReaderSafe,
        CleanerAlone, NewInvisible, UnusedFresh, CleanPcs
  <1>5. ASSUME NEW u \in Users, UnregisterRemove(u)
        PROVE  ObjInv'
    <2>1. /\ pc[u] = "d_remove"
          /\ grace' = [o \in Objs |-> grace[o] \ {u}]
          /\ UNCHANGED <<module, mem, e, wq_is_destroyed, wqvars, epvars,
                        mounts, waddwvars, at>>
      BY <1>5 DEF UnregisterRemove, Goto, Return, RcuExit
    <2>2. CASE ht = data[u]
      <3>1. /\ pc' = [pc EXCEPT ![u] = "c_lock"]
            /\ ht' = Null
            /\ UNCHANGED <<data, ref>>
        BY <1>5, <2>2 DEF UnregisterRemove, Goto, Return, RcuExit
      <3>2. QED
        BY <2>1, <2>2, <3>1 DEF ObjInv, TableLive, ReaderSafe, CleanerAlone,
            NewInvisible, UnusedFresh, CleanPcs
    <2>3. CASE ht # data[u]
      <3>1. /\ pc' = [pc EXCEPT ![u] = "idle"]
            /\ data' = [data EXCEPT ![u] = Null]
            /\ ref' = [ref EXCEPT ![u] = Null]
            /\ ht' = ht
        BY <1>5, <2>3 DEF UnregisterRemove, Goto, Return, RcuExit
      <3>2. QED
        BY <2>1, <2>3, <3>1 DEF ObjInv, TableLive, ReaderSafe, CleanerAlone,
            NewInvisible, UnusedFresh, CleanPcs
    <2>4. QED
      BY <2>2, <2>3
  <1>6. ASSUME NEW u \in Users, CleanupLock(u)
        PROVE  ObjInv'
    BY <1>6 DEF CleanupLock, Goto, ObjInv, TableLive, ReaderSafe,
        CleanerAlone, NewInvisible, UnusedFresh, CleanPcs
  <1>7. ASSUME NEW u \in Users, CleanupMark(u)
        PROVE  ObjInv'
    BY <1>7 DEF CleanupMark, Goto, ObjInv, TableLive, ReaderSafe,
        CleanerAlone, NewInvisible, UnusedFresh, CleanPcs
  <1>8. ASSUME NEW u \in Users, CleanupTake(u)
        PROVE  ObjInv'
    BY <1>8 DEF CleanupTake, Goto, ObjInv, TableLive, ReaderSafe,
        CleanerAlone, NewInvisible, UnusedFresh, CleanPcs
  <1>9. ASSUME NEW u \in Users, CleanupDefer(u)
        PROVE  ObjInv'
    BY <1>9 DEF CleanupDefer, Goto, ObjInv, TableLive, ReaderSafe,
        CleanerAlone, NewInvisible, UnusedFresh, CleanPcs
  <1>10. ASSUME NEW u \in Users, CleanupDeferFails(u)
         PROVE  ObjInv'
    BY <1>10 DEF CleanupDeferFails, Goto, ObjInv, TableLive, ReaderSafe,
        CleanerAlone, NewInvisible, UnusedFresh, CleanPcs
  <1>11. ASSUME NEW u \in Users, CleanupList(u)
         PROVE  ObjInv'
    <2> DEFINE o == data[u]
    <2>1. /\ pc[u] = "c_list"
          /\ mem' = [mem EXCEPT ![o] = "dying"]
          /\ grace' = [grace EXCEPT ![o] = RcuReaders]
          /\ data' = [data EXCEPT ![u] = Null]
          /\ UNCHANGED <<ht, wqvars>>
      BY <1>11 DEF CleanupList
    <2>2. PICK l \in {"x_flush", "idle"} : pc' = [pc EXCEPT ![u] = l]
      BY <1>11 DEF CleanupList, Goto
    <2>3. TableLive' /\ CleanerAlone' /\ NewInvisible' /\ UnusedFresh'
      BY <2>1, <2>2 DEF ObjInv, TableLive, ReaderSafe, CleanerAlone,
          NewInvisible, UnusedFresh, CleanPcs
    <2>4. ReaderSafe'
      BY <2>1, <2>2 DEF ObjInv, ReaderSafe, RcuReaders
    <2>5. QED
      BY <2>3, <2>4 DEF ObjInv
  <1>12. ASSUME NEW u \in Users, DestroyDevices(u)
         PROVE  ObjInv'
    BY <1>12 DEF DestroyDevices, ObjInv, TableLive, ReaderSafe, CleanerAlone,
        NewInvisible, UnusedFresh, CleanPcs
  <1>13. ASSUME NEW u \in Users, FlushWorklist(u)
         PROVE  ObjInv'
    BY <1>13 DEF FlushWorklist, Return, ObjInv, TableLive, ReaderSafe,
        CleanerAlone, NewInvisible, UnusedFresh, CleanPcs
  <1>14. ASSUME NEW a \in Admins, NEW m \in Mounts, MountCall(a, m)
         PROVE  ObjInv'
    BY <1>14 DEF MountCall, Goto, ObjInv, TableLive, ReaderSafe, CleanerAlone,
        NewInvisible, UnusedFresh, CleanPcs
  <1>15. ASSUME NEW a \in Admins, NEW m \in Mounts, UmountCall(a, m)
         PROVE  ObjInv'
    BY <1>15 DEF UmountCall, Goto, ObjInv, TableLive, ReaderSafe,
        CleanerAlone, NewInvisible, UnusedFresh, CleanPcs
  <1>16. ASSUME NEW a \in Admins, EventLookup(a)
         PROVE  ObjInv'
    <2>1. /\ pc[a] \in {"m_lookup", "u_lookup"}
          /\ UNCHANGED <<module, objvars, wqvars, epvars, mounts,
                        waddwvars, at>>
      BY <1>16 DEF EventLookup, Goto, Return
    <2>2. CASE ht = Null
      <3>1. /\ pc' = [pc EXCEPT ![a] = "idle"]
            /\ data' = [data EXCEPT ![a] = Null]
            /\ ref' = [ref EXCEPT ![a] = Null]
        BY <1>16, <2>2 DEF EventLookup, Goto, Return
      <3>2. QED
        BY <2>1, <2>2, <3>1 DEF ObjInv, TableLive, ReaderSafe, CleanerAlone,
            NewInvisible, UnusedFresh, CleanPcs
    <2>3. CASE ht # Null
      <3>1. PICK l \in {"m_lock", "u_lock"} :
              /\ pc' = [pc EXCEPT ![a] = l]
              /\ data' = [data EXCEPT ![a] = ht]
              /\ ref' = ref
        BY <1>16, <2>3 DEF EventLookup, Goto, Return
      <3>2. QED
        BY <2>1, <2>3, <3>1 DEF ObjInv, TableLive, ReaderSafe, CleanerAlone,
            NewInvisible, UnusedFresh, CleanPcs
    <2>4. QED
      BY <2>2, <2>3
  <1>17. ASSUME NEW a \in Admins, EventLock(a)
         PROVE  ObjInv'
    BY <1>17 DEF EventLock, Goto, ObjInv, TableLive, ReaderSafe, CleanerAlone,
        NewInvisible, UnusedFresh, CleanPcs
  <1>18. ASSUME NEW a \in Admins, NEW ep \in Epochs, AllocEpoch(a, ep)
         PROVE  ObjInv'
    BY <1>18 DEF AllocEpoch, Goto, ObjInv, TableLive, ReaderSafe,
        CleanerAlone, NewInvisible, UnusedFresh, CleanPcs
  <1>19. ASSUME NEW a \in Admins, AllocEpochFails(a)
         PROVE  ObjInv'
    BY <1>19 DEF AllocEpochFails, Return, RcuExit, ObjInv, TableLive,
        ReaderSafe, CleanerAlone, NewInvisible, UnusedFresh, CleanPcs
  <1>20. ASSUME NEW a \in Admins, CountMount(a)
         PROVE  ObjInv'
    BY <1>20 DEF CountMount, Return, RcuExit, ObjInv, TableLive, ReaderSafe,
        CleanerAlone, NewInvisible, UnusedFresh, CleanPcs
  <1>21. ASSUME NEW a \in Admins, CountUmount(a)
         PROVE  ObjInv'
    BY <1>21 DEF CountUmount, Return, RcuExit, EndsEpoch, ObjInv, TableLive,
        ReaderSafe, CleanerAlone, NewInvisible, UnusedFresh, CleanPcs
  <1>22. ASSUME NEW w \in Writers, NEW m \in Mounts, SearchDevice(w, m)
         PROVE  ObjInv'
    BY <1>22 DEF SearchDevice, Goto, ObjInv, TableLive, ReaderSafe,
        CleanerAlone, NewInvisible, UnusedFresh, CleanPcs
  <1>23. ASSUME NEW w \in Writers, CheckValid(w)
         PROVE  ObjInv'
    <2>1. /\ pc[w] \in {"w_search", "w_make"}
          /\ UNCHANGED <<module, ht, mem, e, wq_is_destroyed, wqvars, epvars,
                        mounts, waddwvars>>
      BY <1>23 DEF CheckValid, Goto, WriteReturn, Return, RcuExit
    <2>2. CASE Valid(data[w])
      <3>1. PICK l \in {"w_make", "w_lock"} :
              /\ pc' = [pc EXCEPT ![w] = l]
              /\ UNCHANGED <<grace, data, ref, at>>
        BY <1>23, <2>2 DEF CheckValid, Goto, WriteReturn, Return, RcuExit
      <3>2. QED
        BY <2>1, <2>2, <3>1 DEF ObjInv, TableLive, ReaderSafe, CleanerAlone,
            NewInvisible, UnusedFresh, CleanPcs
    <2>3. CASE ~Valid(data[w])
      <3>1. /\ pc' = [pc EXCEPT ![w] = "idle"]
            /\ data' = [data EXCEPT ![w] = Null]
            /\ ref' = [ref EXCEPT ![w] = Null]
            /\ at' = [at EXCEPT ![w] = Null]
            /\ grace' = [o \in Objs |-> grace[o] \ {w}]
        BY <1>23, <2>3 DEF CheckValid, Goto, WriteReturn, Return, RcuExit
      <3>2. QED
        BY <2>1, <2>3, <3>1 DEF ObjInv, TableLive, ReaderSafe, CleanerAlone,
            NewInvisible, UnusedFresh, CleanPcs
    <2>4. QED
      BY <2>2, <2>3
  <1>24. ASSUME NEW w \in Writers, MakeLock(w)
         PROVE  ObjInv'
    <2>1. /\ pc[w] = "w_lock"
          /\ UNCHANGED <<module, ht, mem, e, wq_is_destroyed, wqvars, epvars,
                        mounts, waddwvars>>
      BY <1>24 DEF MakeLock, Goto, WriteReturn, Return, RcuExit
    <2>2. CASE wq_is_destroyed[data[w]]
      <3>1. /\ pc' = [pc EXCEPT ![w] = "idle"]
            /\ data' = [data EXCEPT ![w] = Null]
            /\ ref' = [ref EXCEPT ![w] = Null]
            /\ at' = [at EXCEPT ![w] = Null]
            /\ grace' = [o \in Objs |-> grace[o] \ {w}]
        BY <1>24, <2>2 DEF MakeLock, Goto, WriteReturn, Return, RcuExit
      <3>2. QED
        BY <2>1, <2>2, <3>1 DEF ObjInv, TableLive, ReaderSafe, CleanerAlone,
            NewInvisible, UnusedFresh, CleanPcs
    <2>3. CASE ~wq_is_destroyed[data[w]]
      <3>1. /\ pc' = [pc EXCEPT ![w] = "w_queue"]
            /\ UNCHANGED <<grace, data, ref, at>>
        BY <1>24, <2>3 DEF MakeLock, Goto, WriteReturn, Return, RcuExit
      <3>2. QED
        BY <2>1, <2>3, <3>1 DEF ObjInv, TableLive, ReaderSafe, CleanerAlone,
            NewInvisible, UnusedFresh, CleanPcs
    <2>4. QED
      BY <2>2, <2>3
  <1>25. ASSUME NEW w \in Writers, QueueCheck(w)
         PROVE  ObjInv'
    <2>1. /\ pc[w] = "w_queue"
          /\ UNCHANGED <<module, ht, mem, e, wq_is_destroyed, wqvars, epvars,
                        mounts, waddwvars>>
      BY <1>25 DEF QueueCheck, Goto, WriteReturn, Return, RcuExit
    <2>2. CASE e[data[w]] = Null
      <3>1. /\ pc' = [pc EXCEPT ![w] = "idle"]
            /\ data' = [data EXCEPT ![w] = Null]
            /\ ref' = [ref EXCEPT ![w] = Null]
            /\ at' = [at EXCEPT ![w] = Null]
            /\ grace' = [o \in Objs |-> grace[o] \ {w}]
        BY <1>25, <2>2 DEF QueueCheck, Goto, WriteReturn, Return, RcuExit
      <3>2. QED
        BY <2>1, <2>2, <3>1 DEF ObjInv, TableLive, ReaderSafe, CleanerAlone,
            NewInvisible, UnusedFresh, CleanPcs
    <2>3. CASE e[data[w]] # Null
      <3>1. /\ pc' = [pc EXCEPT ![w] = "w_load"]
            /\ UNCHANGED <<grace, data, ref, at>>
        BY <1>25, <2>3 DEF QueueCheck, Goto, WriteReturn, Return, RcuExit
      <3>2. QED
        BY <2>1, <2>3, <3>1 DEF ObjInv, TableLive, ReaderSafe, CleanerAlone,
            NewInvisible, UnusedFresh, CleanPcs
    <2>4. QED
      BY <2>2, <2>3
  <1>26. ASSUME NEW w \in Writers, QueueLoad(w)
         PROVE  ObjInv'
    BY <1>26 DEF QueueLoad, Goto, ObjInv, TableLive, ReaderSafe, CleanerAlone,
        NewInvisible, UnusedFresh, CleanPcs
  <1>27. ASSUME NEW w \in Writers, QueueAllocFails(w)
         PROVE  ObjInv'
    BY <1>27 DEF QueueAllocFails, WriteReturn, Return, RcuExit, ObjInv,
        TableLive, ReaderSafe, CleanerAlone, NewInvisible, UnusedFresh,
        CleanPcs
  <1>28. ASSUME NEW w \in Writers, QueueWork(w)
         PROVE  ObjInv'
    <2>1. /\ pc[w] = "w_date"
          /\ UNCHANGED <<module, ht, mem, e, wq_is_destroyed, wqmem, epvars,
                        mounts, waddwvars>>
      BY <1>28 DEF QueueWork
    <2>2. PICK src \in {ref[w], e[data[w]]} :
             \/ /\ src = Null
                /\ Goto(w, "oops")
                /\ UNCHANGED <<grace, wq, data, ref, at>>
             \/ /\ src # Null
                /\ wq' = [wq EXCEPT ![data[w]] =
                             Append(@, SnapWork(ref[w], dated[src]))]
                /\ WriteReturn(w)
      BY <1>28 DEF QueueWork
    <2>3. CASE src = Null
      <3>1. /\ pc' = [pc EXCEPT ![w] = "oops"]
            /\ UNCHANGED <<grace, wq, data, ref, at>>
        BY <2>2, <2>3 DEF Goto
      <3>2. QED
        BY <2>1, <3>1 DEF ObjInv, TableLive, ReaderSafe, CleanerAlone,
            NewInvisible, UnusedFresh, CleanPcs
    <2>4. CASE src # Null
      <3>1. \A o \in Objs : o # data[w] => wq'[o] = wq[o]
        BY <2>2, <2>4
      <3>2. /\ pc' = [pc EXCEPT ![w] = "idle"]
            /\ data' = [data EXCEPT ![w] = Null]
            /\ grace' = [o \in Objs |-> grace[o] \ {w}]
        BY <2>2, <2>4 DEF WriteReturn, Return, RcuExit
      <3>3. QED
        BY <2>1, <3>1, <3>2 DEF ObjInv, TableLive, ReaderSafe, CleanerAlone,
            NewInvisible, UnusedFresh, CleanPcs
    <2>5. QED
      BY <2>3, <2>4
  <1>29. ASSUME NEW o \in Objs, FreeObject(o)
         PROVE  ObjInv'
    BY <1>29 DEF FreeObject, ObjInv, TableLive, ReaderSafe, CleanerAlone,
        NewInvisible, UnusedFresh, CleanPcs
  <1>30. ASSUME NEW o \in Objs, RunSnapshot(o)
         PROVE  ObjInv'
    BY <1>30 DEF RunSnapshot, ObjInv, TableLive, ReaderSafe, CleanerAlone,
        NewInvisible, UnusedFresh, CleanPcs
  <1>31. ASSUME NEW o \in Objs, RunCleanupEpoch(o)
         PROVE  ObjInv'
    BY <1>31 DEF RunCleanupEpoch, ObjInv, TableLive, ReaderSafe, CleanerAlone,
        NewInvisible, UnusedFresh, CleanPcs
  <1>32. ASSUME NEW o \in Objs, WaddwDestroy(o)
         PROVE  ObjInv'
    BY <1>32 DEF WaddwDestroy, ObjInv, TableLive, ReaderSafe, CleanerAlone,
        NewInvisible, UnusedFresh, CleanPcs
  <1>33. ASSUME NEW o \in Objs, WaddwEpoch(o)
         PROVE  ObjInv'
    BY <1>33 DEF WaddwEpoch, ObjInv, TableLive, ReaderSafe, CleanerAlone,
        NewInvisible, UnusedFresh, CleanPcs
  <1>34. CASE UNCHANGED vars
    BY <1>34 DEF vars, ObjInv, TableLive, ReaderSafe, CleanerAlone,
        NewInvisible, UnusedFresh, CleanPcs
  <1>35. QED
    BY <1>1, <1>2, <1>3, <1>4, <1>5, <1>6, <1>7, <1>8, <1>9, <1>10, <1>11,
       <1>12, <1>13, <1>14, <1>15, <1>16, <1>17, <1>18, <1>19, <1>20, <1>21,
       <1>22, <1>23, <1>24, <1>25, <1>26, <1>27, <1>28, <1>29, <1>30, <1>31,
       <1>32, <1>33, <1>34
    DEF Next, UserNext, AdminNext, WriterNext, KernelNext, Rest

\* The workqueues: every action preserves QueueInv.
LEMMA QueueStep == TypeInv /\ ObjInv /\ QueueInv /\ [Next]_vars => QueueInv'
  <1> SUFFICES ASSUME TypeInv, ObjInv, QueueInv, [Next]_vars
               PROVE  QueueInv'
    OBVIOUS
  <1> USE ThreadsAssumption, NullAssumption
      DEF TypeInv, TypeOK, DataTyped, RefTyped, Threads, UserPcs, AdminPcs,
          WriterPcs, RcuPcs, BusyPcs, ReadPcs, ObjInv, TableLive, ReaderSafe,
          CleanerAlone, NewInvisible, UnusedFresh, CleanPcs, objvars, wqvars,
          epvars, waddwvars, thrvars
  <1>1. ASSUME NEW u \in Users, NEW o \in Objs, RegisterInit(u, o)
        PROVE  QueueInv'
    BY <1>1 DEF RegisterInit, Goto, QueueInv, MarkedFirst, HasQueue,
        ReaderBeforeMark, DestroyedEmpty
  <1>2. ASSUME NEW u \in Users, RegisterInsert(u)
        PROVE  QueueInv'
    BY <1>2 DEF RegisterInsert, Return, QueueInv, MarkedFirst, HasQueue,
        ReaderBeforeMark, DestroyedEmpty
  <1>3. ASSUME NEW u \in Users, RegisterFails(u)
        PROVE  QueueInv'
    BY <1>3 DEF RegisterFails, Return, QueueInv, MarkedFirst, HasQueue,
        ReaderBeforeMark, DestroyedEmpty
  <1>4. ASSUME NEW u \in Users, UnregisterLookup(u)
        PROVE  QueueInv'
    BY <1>4 DEF UnregisterLookup, Goto, QueueInv, MarkedFirst, HasQueue,
        ReaderBeforeMark, DestroyedEmpty
  <1>5. ASSUME NEW u \in Users, UnregisterRemove(u)
        PROVE  QueueInv'
    <2>1. /\ pc[u] = "d_remove"
          /\ grace' = [o \in Objs |-> grace[o] \ {u}]
          /\ UNCHANGED <<module, mem, e, wq_is_destroyed, wqvars, epvars,
                        mounts, waddwvars, at>>
      BY <1>5 DEF UnregisterRemove, Goto, Return, RcuExit
    <2>2. CASE ht = data[u]
      <3>1. /\ pc' = [pc EXCEPT ![u] = "c_lock"]
            /\ ht' = Null
            /\ UNCHANGED <<data, ref>>
        BY <1>5, <2>2 DEF UnregisterRemove, Goto, Return, RcuExit
      <3>2. QED
        BY <2>1, <2>2, <3>1 DEF QueueInv, MarkedFirst, HasQueue,
            ReaderBeforeMark, DestroyedEmpty
    <2>3. CASE ht # data[u]
      <3>1. /\ pc' = [pc EXCEPT ![u] = "idle"]
            /\ data' = [data EXCEPT ![u] = Null]
            /\ ref' = [ref EXCEPT ![u] = Null]
            /\ ht' = ht
        BY <1>5, <2>3 DEF UnregisterRemove, Goto, Return, RcuExit
      <3>2. QED
        BY <2>1, <2>3, <3>1 DEF QueueInv, MarkedFirst, HasQueue,
            ReaderBeforeMark, DestroyedEmpty
    <2>4. QED
      BY <2>2, <2>3
  <1>6. ASSUME NEW u \in Users, CleanupLock(u)
        PROVE  QueueInv'
    BY <1>6 DEF CleanupLock, Goto, QueueInv, MarkedFirst, HasQueue,
        ReaderBeforeMark, DestroyedEmpty
  <1>7. ASSUME NEW u \in Users, CleanupMark(u)
        PROVE  QueueInv'
    BY <1>7 DEF CleanupMark, DestroyLockFree, Goto, QueueInv, MarkedFirst,
        HasQueue, ReaderBeforeMark, DestroyedEmpty
  <1>8. ASSUME NEW u \in Users, CleanupTake(u)
        PROVE  QueueInv'
    BY <1>8 DEF CleanupTake, Goto, QueueInv, MarkedFirst, HasQueue,
        ReaderBeforeMark, DestroyedEmpty
  <1>9. ASSUME NEW u \in Users, CleanupDefer(u)
        PROVE  QueueInv'
    BY <1>9 DEF CleanupDefer, Goto, QueueInv, MarkedFirst, HasQueue,
        ReaderBeforeMark, DestroyedEmpty
  <1>10. ASSUME NEW u \in Users, CleanupDeferFails(u)
         PROVE  QueueInv'
    BY <1>10 DEF CleanupDeferFails, Goto, QueueInv, MarkedFirst, HasQueue,
        ReaderBeforeMark, DestroyedEmpty
  <1>11. ASSUME NEW u \in Users, CleanupList(u)
         PROVE  QueueInv'
    BY <1>11 DEF CleanupList, Goto, RcuReaders, QueueInv, MarkedFirst,
        HasQueue, ReaderBeforeMark, DestroyedEmpty
  <1>12. ASSUME NEW u \in Users, DestroyDevices(u)
         PROVE  QueueInv'
    BY <1>12 DEF DestroyDevices, QueueInv, MarkedFirst, HasQueue,
        ReaderBeforeMark, DestroyedEmpty
  <1>13. ASSUME NEW u \in Users, FlushWorklist(u)
         PROVE  QueueInv'
    BY <1>13 DEF FlushWorklist, Return, QueueInv, MarkedFirst, HasQueue,
        ReaderBeforeMark, DestroyedEmpty
  <1>14. ASSUME NEW a \in Admins, NEW m \in Mounts, MountCall(a, m)
         PROVE  QueueInv'
    BY <1>14 DEF MountCall, Goto, QueueInv, MarkedFirst, HasQueue,
        ReaderBeforeMark, DestroyedEmpty
  <1>15. ASSUME NEW a \in Admins, NEW m \in Mounts, UmountCall(a, m)
         PROVE  QueueInv'
    BY <1>15 DEF UmountCall, Goto, QueueInv, MarkedFirst, HasQueue,
        ReaderBeforeMark, DestroyedEmpty
  <1>16. ASSUME NEW a \in Admins, EventLookup(a)
         PROVE  QueueInv'
    <2>1. /\ pc[a] \in {"m_lookup", "u_lookup"}
          /\ UNCHANGED <<module, objvars, wqvars, epvars, mounts,
                        waddwvars, at>>
      BY <1>16 DEF EventLookup, Goto, Return
    <2>2. CASE ht = Null
      <3>1. /\ pc' = [pc EXCEPT ![a] = "idle"]
            /\ data' = [data EXCEPT ![a] = Null]
            /\ ref' = [ref EXCEPT ![a] = Null]
        BY <1>16, <2>2 DEF EventLookup, Goto, Return
      <3>2. QED
        BY <2>1, <2>2, <3>1 DEF QueueInv, MarkedFirst, HasQueue,
            ReaderBeforeMark, DestroyedEmpty
    <2>3. CASE ht # Null
      <3>1. PICK l \in {"m_lock", "u_lock"} :
              /\ pc' = [pc EXCEPT ![a] = l]
              /\ data' = [data EXCEPT ![a] = ht]
              /\ ref' = ref
        BY <1>16, <2>3 DEF EventLookup, Goto, Return
      <3>2. QED
        BY <2>1, <2>3, <3>1 DEF QueueInv, MarkedFirst, HasQueue,
            ReaderBeforeMark, DestroyedEmpty
    <2>4. QED
      BY <2>2, <2>3
  <1>17. ASSUME NEW a \in Admins, EventLock(a)
         PROVE  QueueInv'
    BY <1>17 DEF EventLock, Goto, QueueInv, MarkedFirst, HasQueue,
        ReaderBeforeMark, DestroyedEmpty
  <1>18. ASSUME NEW a \in Admins, NEW ep \in Epochs, AllocEpoch(a, ep)
         PROVE  QueueInv'
    BY <1>18 DEF AllocEpoch, Goto, QueueInv, MarkedFirst, HasQueue,
        ReaderBeforeMark, DestroyedEmpty
  <1>19. ASSUME NEW a \in Admins, AllocEpochFails(a)
         PROVE  QueueInv'
    BY <1>19 DEF AllocEpochFails, Return, RcuExit, QueueInv, MarkedFirst,
        HasQueue, ReaderBeforeMark, DestroyedEmpty
  <1>20. ASSUME NEW a \in Admins, CountMount(a)
         PROVE  QueueInv'
    BY <1>20 DEF CountMount, Return, RcuExit, QueueInv, MarkedFirst, HasQueue,
        ReaderBeforeMark, DestroyedEmpty
  <1>21. ASSUME NEW a \in Admins, CountUmount(a)
         PROVE  QueueInv'
    BY <1>21 DEF CountUmount, Return, RcuExit, EndsEpoch, QueueInv,
        MarkedFirst, HasQueue, ReaderBeforeMark, DestroyedEmpty
  <1>22. ASSUME NEW w \in Writers, NEW m \in Mounts, SearchDevice(w, m)
         PROVE  QueueInv'
    BY <1>22 DEF SearchDevice, Goto, QueueInv, MarkedFirst, HasQueue,
        ReaderBeforeMark, DestroyedEmpty
  <1>23. ASSUME NEW w \in Writers, CheckValid(w)
         PROVE  QueueInv'
    <2>1. /\ pc[w] \in {"w_search", "w_make"}
          /\ UNCHANGED <<module, ht, mem, e, wq_is_destroyed, wqvars, epvars,
                        mounts, waddwvars>>
      BY <1>23 DEF CheckValid, Goto, WriteReturn, Return, RcuExit
    <2>2. CASE Valid(data[w])
      <3>1. PICK l \in {"w_make", "w_lock"} :
              /\ pc' = [pc EXCEPT ![w] = l]
              /\ UNCHANGED <<grace, data, ref, at>>
        BY <1>23, <2>2 DEF CheckValid, Goto, WriteReturn, Return, RcuExit
      <3>2. QED
        BY <2>1, <2>2, <3>1 DEF QueueInv, MarkedFirst, HasQueue,
            ReaderBeforeMark, DestroyedEmpty
    <2>3. CASE ~Valid(data[w])
      <3>1. /\ pc' = [pc EXCEPT ![w] = "idle"]
            /\ data' = [data EXCEPT ![w] = Null]
            /\ ref' = [ref EXCEPT ![w] = Null]
            /\ at' = [at EXCEPT ![w] = Null]
            /\ grace' = [o \in Objs |-> grace[o] \ {w}]
        BY <1>23, <2>3 DEF CheckValid, Goto, WriteReturn, Return, RcuExit
      <3>2. QED
        BY <2>1, <2>3, <3>1 DEF QueueInv, MarkedFirst, HasQueue,
            ReaderBeforeMark, DestroyedEmpty
    <2>4. QED
      BY <2>2, <2>3
  <1>24. ASSUME NEW w \in Writers, MakeLock(w)
         PROVE  QueueInv'
    <2>1. /\ pc[w] = "w_lock"
          /\ UNCHANGED <<module, ht, mem, e, wq_is_destroyed, wqvars, epvars,
                        mounts, waddwvars>>
      BY <1>24 DEF MakeLock, Goto, WriteReturn, Return, RcuExit
    <2>2. CASE wq_is_destroyed[data[w]]
      <3>1. /\ pc' = [pc EXCEPT ![w] = "idle"]
            /\ data' = [data EXCEPT ![w] = Null]
            /\ ref' = [ref EXCEPT ![w] = Null]
            /\ at' = [at EXCEPT ![w] = Null]
            /\ grace' = [o \in Objs |-> grace[o] \ {w}]
        BY <1>24, <2>2 DEF MakeLock, Goto, WriteReturn, Return, RcuExit
      <3>2. QED
        BY <2>1, <2>2, <3>1 DEF QueueInv, MarkedFirst, HasQueue,
            ReaderBeforeMark, DestroyedEmpty
    <2>3. CASE ~wq_is_destroyed[data[w]]
      <3>1. /\ pc' = [pc EXCEPT ![w] = "w_queue"]
            /\ UNCHANGED <<grace, data, ref, at>>
        BY <1>24, <2>3 DEF MakeLock, Goto, WriteReturn, Return, RcuExit
      <3>2. QED
        BY <2>1, <2>3, <3>1 DEF QueueInv, MarkedFirst, HasQueue,
            ReaderBeforeMark, DestroyedEmpty
    <2>4. QED
      BY <2>2, <2>3
  <1>25. ASSUME NEW w \in Writers, QueueCheck(w)
         PROVE  QueueInv'
    <2>1. /\ pc[w] = "w_queue"
          /\ UNCHANGED <<module, ht, mem, e, wq_is_destroyed, wqvars, epvars,
                        mounts, waddwvars>>
      BY <1>25 DEF QueueCheck, Goto, WriteReturn, Return, RcuExit
    <2>2. CASE e[data[w]] = Null
      <3>1. /\ pc' = [pc EXCEPT ![w] = "idle"]
            /\ data' = [data EXCEPT ![w] = Null]
            /\ ref' = [ref EXCEPT ![w] = Null]
            /\ at' = [at EXCEPT ![w] = Null]
            /\ grace' = [o \in Objs |-> grace[o] \ {w}]
        BY <1>25, <2>2 DEF QueueCheck, Goto, WriteReturn, Return, RcuExit
      <3>2. QED
        BY <2>1, <2>2, <3>1 DEF QueueInv, MarkedFirst, HasQueue,
            ReaderBeforeMark, DestroyedEmpty
    <2>3. CASE e[data[w]] # Null
      <3>1. /\ pc' = [pc EXCEPT ![w] = "w_load"]
            /\ UNCHANGED <<grace, data, ref, at>>
        BY <1>25, <2>3 DEF QueueCheck, Goto, WriteReturn, Return, RcuExit
      <3>2. QED
        BY <2>1, <2>3, <3>1 DEF QueueInv, MarkedFirst, HasQueue,
            ReaderBeforeMark, DestroyedEmpty
    <2>4. QED
      BY <2>2, <2>3
  <1>26. ASSUME NEW w \in Writers, QueueLoad(w)
         PROVE  QueueInv'
    BY <1>26 DEF QueueLoad, Goto, QueueInv, MarkedFirst, HasQueue,
        ReaderBeforeMark, DestroyedEmpty
  <1>27. ASSUME NEW w \in Writers, QueueAllocFails(w)
         PROVE  QueueInv'
    BY <1>27 DEF QueueAllocFails, WriteReturn, Return, RcuExit, QueueInv,
        MarkedFirst, HasQueue, ReaderBeforeMark, DestroyedEmpty
  <1>28. ASSUME NEW w \in Writers, QueueWork(w)
         PROVE  QueueInv'
    <2>1. /\ pc[w] = "w_date"
          /\ UNCHANGED <<module, ht, mem, e, wq_is_destroyed, wqmem, epvars,
                        mounts, waddwvars>>
      BY <1>28 DEF QueueWork
    <2>2. PICK src \in {ref[w], e[data[w]]} :
             \/ /\ src = Null
                /\ Goto(w, "oops")
                /\ UNCHANGED <<grace, wq, data, ref, at>>
             \/ /\ src # Null
                /\ wq' = [wq EXCEPT ![data[w]] =
                             Append(@, SnapWork(ref[w], dated[src]))]
                /\ WriteReturn(w)
      BY <1>28 DEF QueueWork
    <2>3. CASE src = Null
      <3>1. /\ pc' = [pc EXCEPT ![w] = "oops"]
            /\ UNCHANGED <<grace, wq, data, ref, at>>
        BY <2>2, <2>3 DEF Goto
      <3>2. QED
        BY <2>1, <3>1 DEF QueueInv, MarkedFirst, HasQueue, ReaderBeforeMark,
            DestroyedEmpty, ReadPcs
    <2>4. CASE src # Null
      <3>1. \A o \in Objs : o # data[w] => wq'[o] = wq[o]
        BY <2>2, <2>4
      <3>2. /\ pc' = [pc EXCEPT ![w] = "idle"]
            /\ data' = [data EXCEPT ![w] = Null]
            /\ grace' = [o \in Objs |-> grace[o] \ {w}]
        BY <2>2, <2>4 DEF WriteReturn, Return, RcuExit
      <3>3. QED
        BY <2>1, <3>1, <3>2 DEF QueueInv, MarkedFirst, HasQueue,
            ReaderBeforeMark, DestroyedEmpty, ReadPcs
    <2>5. QED
      BY <2>3, <2>4
  <1>29. ASSUME NEW o \in Objs, FreeObject(o)
         PROVE  QueueInv'
    BY <1>29 DEF FreeObject, QueueInv, MarkedFirst, HasQueue,
        ReaderBeforeMark, DestroyedEmpty
  <1>30. ASSUME NEW o \in Objs, RunSnapshot(o)
         PROVE  QueueInv'
    BY <1>30 DEF RunSnapshot, QueueInv, MarkedFirst, HasQueue,
        ReaderBeforeMark, DestroyedEmpty
  <1>31. ASSUME NEW o \in Objs, RunCleanupEpoch(o)
         PROVE  QueueInv'
    BY <1>31 DEF RunCleanupEpoch, QueueInv, MarkedFirst, HasQueue,
        ReaderBeforeMark, DestroyedEmpty
  <1>32. ASSUME NEW o \in Objs, WaddwDestroy(o)
         PROVE  QueueInv'
    BY <1>32 DEF WaddwDestroy, QueueInv, MarkedFirst, HasQueue,
        ReaderBeforeMark, DestroyedEmpty
  <1>33. ASSUME NEW o \in Objs, WaddwEpoch(o)
         PROVE  QueueInv'
    BY <1>33 DEF WaddwEpoch, QueueInv, MarkedFirst, HasQueue,
        ReaderBeforeMark, DestroyedEmpty
  <1>34. CASE UNCHANGED vars
    BY <1>34 DEF vars, QueueInv, MarkedFirst, HasQueue, ReaderBeforeMark,
        DestroyedEmpty
  <1>35. QED
    BY <1>1, <1>2, <1>3, <1>4, <1>5, <1>6, <1>7, <1>8, <1>9, <1>10, <1>11,
       <1>12, <1>13, <1>14, <1>15, <1>16, <1>17, <1>18, <1>19, <1>20, <1>21,
       <1>22, <1>23, <1>24, <1>25, <1>26, <1>27, <1>28, <1>29, <1>30, <1>31,
       <1>32, <1>33, <1>34
    DEF Next, UserNext, AdminNext, WriterNext, KernelNext, Rest

\* The owners of the epochs: every action preserves OwnerInv.
LEMMA OwnerStep == TypeInv /\ OwnerInv /\ [Next]_vars => OwnerInv'
  <1> SUFFICES ASSUME TypeInv, OwnerInv, [Next]_vars
               PROVE  OwnerInv'
    OBVIOUS
  <1> USE ThreadsAssumption, NullAssumption
      DEF TypeInv, TypeOK, DataTyped, RefTyped, Threads, UserPcs, AdminPcs,
          WriterPcs, RcuPcs, BusyPcs, objvars, wqvars, epvars, waddwvars,
          thrvars
  <1>1. ASSUME NEW u \in Users, NEW o \in Objs, RegisterInit(u, o)
        PROVE  OwnerInv'
    <2>1. UNCHANGED <<e, ref, waddw_epoch, wq, epmem>>
      BY <1>1 DEF RegisterInit
    <2>2. QED
      BY <2>1 DEF OwnerInv, ObjUnique, ThreadUnique, WaddwUnique, WorkUnique,
          ObjOnly, ThreadOnly, WaddwOnly, OwnedLive, IsCleanup
  <1>2. ASSUME NEW u \in Users, RegisterInsert(u)
        PROVE  OwnerInv'
    BY <1>2 DEF RegisterInsert, Return, OwnerInv, ObjUnique, ThreadUnique,
        WaddwUnique, WorkUnique, ObjOnly, ThreadOnly, WaddwOnly, OwnedLive,
        IsCleanup
  <1>3. ASSUME NEW u \in Users, RegisterFails(u)
        PROVE  OwnerInv'
    BY <1>3 DEF RegisterFails, Return, OwnerInv, ObjUnique, ThreadUnique,
        WaddwUnique, WorkUnique, ObjOnly, ThreadOnly, WaddwOnly, OwnedLive,
        IsCleanup
  <1>4. ASSUME NEW u \in Users, UnregisterLookup(u)
        PROVE  OwnerInv'
    BY <1>4 DEF UnregisterLookup, Goto, OwnerInv, ObjUnique, ThreadUnique,
        WaddwUnique, WorkUnique, ObjOnly, ThreadOnly, WaddwOnly, OwnedLive,
        IsCleanup
  <1>5. ASSUME NEW u \in Users, UnregisterRemove(u)
        PROVE  OwnerInv'
    <2>1. /\ pc[u] = "d_remove"
          /\ grace' = [o \in Objs |-> grace[o] \ {u}]
          /\ UNCHANGED <<module, mem, e, wq_is_destroyed, wqvars, epvars,
                        mounts, waddwvars, at>>
      BY <1>5 DEF UnregisterRemove, Goto, Return, RcuExit
    <2>2. CASE ht = data[u]
      <3>1. /\ pc' = [pc EXCEPT ![u] = "c_lock"]
            /\ ht' = Null
            /\ UNCHANGED <<data, ref>>
        BY <1>5, <2>2 DEF UnregisterRemove, Goto, Return, RcuExit
      <3>2. QED
        BY <2>1, <2>2, <3>1 DEF OwnerInv, ObjUnique, ThreadUnique,
            WaddwUnique, WorkUnique, ObjOnly, ThreadOnly, WaddwOnly,
            OwnedLive, IsCleanup
    <2>3. CASE ht # data[u]
      <3>1. /\ pc' = [pc EXCEPT ![u] = "idle"]
            /\ data' = [data EXCEPT ![u] = Null]
            /\ ref' = [ref EXCEPT ![u] = Null]
            /\ ht' = ht
        BY <1>5, <2>3 DEF UnregisterRemove, Goto, Return, RcuExit
      <3>2. QED
        BY <2>1, <2>3, <3>1 DEF OwnerInv, ObjUnique, ThreadUnique,
            WaddwUnique, WorkUnique, ObjOnly, ThreadOnly, WaddwOnly,
            OwnedLive, IsCleanup
    <2>4. QED
      BY <2>2, <2>3
  <1>6. ASSUME NEW u \in Users, CleanupLock(u)
        PROVE  OwnerInv'
    BY <1>6 DEF CleanupLock, Goto, OwnerInv, ObjUnique, ThreadUnique,
        WaddwUnique, WorkUnique, ObjOnly, ThreadOnly, WaddwOnly, OwnedLive,
        IsCleanup
  <1>7. ASSUME NEW u \in Users, CleanupMark(u)
        PROVE  OwnerInv'
    BY <1>7 DEF CleanupMark, Goto, OwnerInv, ObjUnique, ThreadUnique,
        WaddwUnique, WorkUnique, ObjOnly, ThreadOnly, WaddwOnly, OwnedLive,
        IsCleanup
  <1>8. ASSUME NEW u \in Users, CleanupTake(u)
        PROVE  OwnerInv'
    BY <1>8 DEF CleanupTake, Goto, OwnerInv, ObjUnique, ThreadUnique,
        WaddwUnique, WorkUnique, ObjOnly, ThreadOnly, WaddwOnly, OwnedLive,
        IsCleanup
  <1>9. ASSUME NEW u \in Users, CleanupDefer(u)
        PROVE  OwnerInv'
    BY <1>9 DEF CleanupDefer, Goto, OwnerInv, ObjUnique, ThreadUnique,
        WaddwUnique, WorkUnique, ObjOnly, ThreadOnly, WaddwOnly, OwnedLive,
        IsCleanup
  <1>10. ASSUME NEW u \in Users, CleanupDeferFails(u)
         PROVE  OwnerInv'
    BY <1>10 DEF CleanupDeferFails, Goto, OwnerInv, ObjUnique, ThreadUnique,
        WaddwUnique, WorkUnique, ObjOnly, ThreadOnly, WaddwOnly, OwnedLive,
        IsCleanup
  <1>11. ASSUME NEW u \in Users, CleanupList(u)
         PROVE  OwnerInv'
    BY <1>11 DEF CleanupList, Goto, RcuReaders, OwnerInv, ObjUnique,
        ThreadUnique, WaddwUnique, WorkUnique, ObjOnly, ThreadOnly, WaddwOnly,
        OwnedLive, IsCleanup
  <1>12. ASSUME NEW u \in Users, DestroyDevices(u)
         PROVE  OwnerInv'
    BY <1>12 DEF DestroyDevices, OwnerInv, ObjUnique, ThreadUnique,
        WaddwUnique, WorkUnique, ObjOnly, ThreadOnly, WaddwOnly, OwnedLive,
        IsCleanup
  <1>13. ASSUME NEW u \in Users, FlushWorklist(u)
         PROVE  OwnerInv'
    BY <1>13 DEF FlushWorklist, Return, OwnerInv, ObjUnique, ThreadUnique,
        WaddwUnique, WorkUnique, ObjOnly, ThreadOnly, WaddwOnly, OwnedLive,
        IsCleanup
  <1>14. ASSUME NEW a \in Admins, NEW m \in Mounts, MountCall(a, m)
         PROVE  OwnerInv'
    BY <1>14 DEF MountCall, Goto, OwnerInv, ObjUnique, ThreadUnique,
        WaddwUnique, WorkUnique, ObjOnly, ThreadOnly, WaddwOnly, OwnedLive,
        IsCleanup
  <1>15. ASSUME NEW a \in Admins, NEW m \in Mounts, UmountCall(a, m)
         PROVE  OwnerInv'
    BY <1>15 DEF UmountCall, Goto, OwnerInv, ObjUnique, ThreadUnique,
        WaddwUnique, WorkUnique, ObjOnly, ThreadOnly, WaddwOnly, OwnedLive,
        IsCleanup
  <1>16. ASSUME NEW a \in Admins, EventLookup(a)
         PROVE  OwnerInv'
    <2>1. /\ pc[a] \in {"m_lookup", "u_lookup"}
          /\ UNCHANGED <<module, objvars, wqvars, epvars, mounts,
                        waddwvars, at>>
      BY <1>16 DEF EventLookup, Goto, Return
    <2>2. CASE ht = Null
      <3>1. /\ pc' = [pc EXCEPT ![a] = "idle"]
            /\ data' = [data EXCEPT ![a] = Null]
            /\ ref' = [ref EXCEPT ![a] = Null]
        BY <1>16, <2>2 DEF EventLookup, Goto, Return
      <3>2. QED
        BY <2>1, <2>2, <3>1 DEF OwnerInv, ObjUnique, ThreadUnique,
            WaddwUnique, WorkUnique, ObjOnly, ThreadOnly, WaddwOnly,
            OwnedLive, IsCleanup
    <2>3. CASE ht # Null
      <3>1. PICK l \in {"m_lock", "u_lock"} :
              /\ pc' = [pc EXCEPT ![a] = l]
              /\ data' = [data EXCEPT ![a] = ht]
              /\ ref' = ref
        BY <1>16, <2>3 DEF EventLookup, Goto, Return
      <3>2. QED
        BY <2>1, <2>3, <3>1 DEF OwnerInv, ObjUnique, ThreadUnique,
            WaddwUnique, WorkUnique, ObjOnly, ThreadOnly, WaddwOnly,
            OwnedLive, IsCleanup
    <2>4. QED
      BY <2>2, <2>3
  <1>17. ASSUME NEW a \in Admins, EventLock(a)
         PROVE  OwnerInv'
    BY <1>17 DEF EventLock, Goto, OwnerInv, ObjUnique, ThreadUnique,
        WaddwUnique, WorkUnique, ObjOnly, ThreadOnly, WaddwOnly, OwnedLive,
        IsCleanup
  <1>18. ASSUME NEW a \in Admins, NEW ep \in Epochs, AllocEpoch(a, ep)
         PROVE  OwnerInv'
    BY <1>18 DEF AllocEpoch, Goto, OwnerInv, ObjUnique, ThreadUnique,
        WaddwUnique, WorkUnique, ObjOnly, ThreadOnly, WaddwOnly, OwnedLive,
        IsCleanup
  <1>19. ASSUME NEW a \in Admins, AllocEpochFails(a)
         PROVE  OwnerInv'
    BY <1>19 DEF AllocEpochFails, Return, RcuExit, OwnerInv, ObjUnique,
        ThreadUnique, WaddwUnique, WorkUnique, ObjOnly, ThreadOnly, WaddwOnly,
        OwnedLive, IsCleanup
  <1>20. ASSUME NEW a \in Admins, CountMount(a)
         PROVE  OwnerInv'
    BY <1>20 DEF CountMount, Return, RcuExit, OwnerInv, ObjUnique,
        ThreadUnique, WaddwUnique, WorkUnique, ObjOnly, ThreadOnly, WaddwOnly,
        OwnedLive, IsCleanup
  <1>21. ASSUME NEW a \in Admins, CountUmount(a)
         PROVE  OwnerInv'
    <2> DEFINE o == data[a]
    <2>1. o \in Objs
      BY <1>21 DEF CountUmount
    <2>2. /\ ref' = [ref EXCEPT ![a] = Null]
          /\ UNCHANGED <<waddw_epoch, epmem>>
      BY <1>21 DEF CountUmount, Return
    <2>3. CASE e' = e /\ wq' = wq
      BY <2>2, <2>3 DEF OwnerInv, ObjUnique, ThreadUnique, WaddwUnique,
          WorkUnique, ObjOnly, ThreadOnly, WaddwOnly, OwnedLive, IsCleanup
    <2>4. CASE EndsEpoch(o) /\ e' = [e EXCEPT ![o] = Null] /\ wq' = wq
      BY <2>2, <2>4 DEF OwnerInv, ObjUnique, ThreadUnique, WaddwUnique,
          WorkUnique, ObjOnly, ThreadOnly, WaddwOnly, OwnedLive, IsCleanup
    <2>5. CASE /\ EndsEpoch(o)
               /\ e' = [e EXCEPT ![o] = Null]
               /\ wq' = [wq EXCEPT ![o] = Append(@, CleanupWork(e[o]))]
      <3>1. e[o] \in Epochs
        BY <2>1, <2>5 DEF EndsEpoch
      <3>2. \A p \in Objs, i \in Nat : IsCleanup(wq'[p], i) =>
                \/ IsCleanup(wq[p], i) /\ wq'[p][i].ep = wq[p][i].ep
                \/ p = o /\ i = Len(wq[o]) + 1 /\ wq'[p][i].ep = e[o]
        BY <2>1, <2>5, <3>1 DEF IsCleanup, CleanupWork
      <3>3. \A p \in Objs : e'[p] # Null => p # o /\ e'[p] = e[p]
        BY <2>1, <2>5
      <3>4. QED
        <4>1. \A u \in Users : ref'[u] = ref[u]
          BY <2>2
        <4>2. ObjUnique' /\ ThreadUnique' /\ WaddwUnique'
          BY <2>2, <3>3, <4>1 DEF OwnerInv, ObjUnique, ThreadUnique,
              WaddwUnique
        <4>3. e[o] # Null /\ epmem[e[o]] = "live"
          BY <2>1, <3>1 DEF OwnerInv, OwnedLive
        <4>4. WorkUnique'
          <5>1. SUFFICES ASSUME NEW p \in Objs, NEW q \in Objs,
                                NEW i \in Nat, NEW j \in Nat,
                                IsCleanup(wq'[p], i), IsCleanup(wq'[q], j),
                                wq'[p][i].ep = wq'[q][j].ep
                         PROVE  p = q /\ i = j
            BY DEF WorkUnique
          <5>2. /\ IsCleanup(wq[p], i) => wq[p][i].ep # e[o]
                /\ IsCleanup(wq[q], j) => wq[q][j].ep # e[o]
            BY <2>1, <4>3 DEF OwnerInv, ObjOnly
          <5>3. /\ \/ IsCleanup(wq[p], i) /\ wq'[p][i].ep = wq[p][i].ep
                   \/ p = o /\ i = Len(wq[o]) + 1 /\ wq'[p][i].ep = e[o]
                /\ \/ IsCleanup(wq[q], j) /\ wq'[q][j].ep = wq[q][j].ep
                   \/ q = o /\ j = Len(wq[o]) + 1 /\ wq'[q][j].ep = e[o]
            BY <3>2, <5>1
          <5>4. QED
            BY <5>1, <5>2, <5>3 DEF OwnerInv, WorkUnique
        <4>5. ASSUME NEW p \in Objs, NEW i \in Nat, IsCleanup(wq'[p], i)
              PROVE  /\ epmem'[wq'[p][i].ep] = "live"
                     /\ \A q \in Objs : e'[q] # Null => wq'[p][i].ep # e'[q]
                     /\ \A u \in Users : ref'[u] # Null =>
                            wq'[p][i].ep # ref'[u]
                     /\ \A q \in Objs : waddw_epoch'[q] # Null =>
                            wq'[p][i].ep # waddw_epoch'[q]
          <5>1. CASE IsCleanup(wq[p], i) /\ wq'[p][i].ep = wq[p][i].ep
            BY <2>2, <3>3, <4>1, <5>1
            DEF OwnerInv, OwnedLive, ObjOnly, ThreadOnly, WaddwOnly
          <5>2. CASE wq'[p][i].ep = e[o]
            BY <2>1, <2>2, <3>3, <4>1, <4>3, <5>2
            DEF OwnerInv, ObjOnly, ObjUnique
          <5>3. QED
            BY <3>2, <4>5, <5>1, <5>2
        <4>6. ObjOnly'
          BY <2>2, <3>3, <4>1, <4>5 DEF OwnerInv, ObjOnly
        <4>7. ThreadOnly' /\ WaddwOnly'
          BY <2>2, <4>1, <4>5 DEF OwnerInv, ThreadOnly, WaddwOnly
        <4>8. OwnedLive'
          BY <2>2, <3>3, <4>1, <4>5 DEF OwnerInv, OwnedLive
        <4>9. QED
          BY <4>2, <4>4, <4>6, <4>7, <4>8 DEF OwnerInv
    <2>6. QED
      BY <1>21, <2>3, <2>4, <2>5 DEF CountUmount
  <1>22. ASSUME NEW w \in Writers, NEW m \in Mounts, SearchDevice(w, m)
         PROVE  OwnerInv'
    BY <1>22 DEF SearchDevice, Goto, OwnerInv, ObjUnique, ThreadUnique,
        WaddwUnique, WorkUnique, ObjOnly, ThreadOnly, WaddwOnly, OwnedLive,
        IsCleanup
  <1>23. ASSUME NEW w \in Writers, CheckValid(w)
         PROVE  OwnerInv'
    <2>1. /\ pc[w] \in {"w_search", "w_make"}
          /\ UNCHANGED <<module, ht, mem, e, wq_is_destroyed, wqvars, epvars,
                        mounts, waddwvars>>
      BY <1>23 DEF CheckValid, Goto, WriteReturn, Return, RcuExit
    <2>2. CASE Valid(data[w])
      <3>1. PICK l \in {"w_make", "w_lock"} :
              /\ pc' = [pc EXCEPT ![w] = l]
              /\ UNCHANGED <<grace, data, ref, at>>
        BY <1>23, <2>2 DEF CheckValid, Goto, WriteReturn, Return, RcuExit
      <3>2. QED
        BY <2>1, <2>2, <3>1 DEF OwnerInv, ObjUnique, ThreadUnique,
            WaddwUnique, WorkUnique, ObjOnly, ThreadOnly, WaddwOnly,
            OwnedLive, IsCleanup
    <2>3. CASE ~Valid(data[w])
      <3>1. /\ pc' = [pc EXCEPT ![w] = "idle"]
            /\ data' = [data EXCEPT ![w] = Null]
            /\ ref' = [ref EXCEPT ![w] = Null]
            /\ at' = [at EXCEPT ![w] = Null]
            /\ grace' = [o \in Objs |-> grace[o] \ {w}]
        BY <1>23, <2>3 DEF CheckValid, Goto, WriteReturn, Return, RcuExit
      <3>2. QED
        BY <2>1, <2>3, <3>1 DEF OwnerInv, ObjUnique, ThreadUnique,
            WaddwUnique, WorkUnique, ObjOnly, ThreadOnly, WaddwOnly,
            OwnedLive, IsCleanup
    <2>4. QED
      BY <2>2, <2>3
  <1>24. ASSUME NEW w \in Writers, MakeLock(w)
         PROVE  OwnerInv'
    <2>1. /\ pc[w] = "w_lock"
          /\ UNCHANGED <<module, ht, mem, e, wq_is_destroyed, wqvars, epvars,
                        mounts, waddwvars>>
      BY <1>24 DEF MakeLock, Goto, WriteReturn, Return, RcuExit
    <2>2. CASE wq_is_destroyed[data[w]]
      <3>1. /\ pc' = [pc EXCEPT ![w] = "idle"]
            /\ data' = [data EXCEPT ![w] = Null]
            /\ ref' = [ref EXCEPT ![w] = Null]
            /\ at' = [at EXCEPT ![w] = Null]
            /\ grace' = [o \in Objs |-> grace[o] \ {w}]
        BY <1>24, <2>2 DEF MakeLock, Goto, WriteReturn, Return, RcuExit
      <3>2. QED
        BY <2>1, <2>2, <3>1 DEF OwnerInv, ObjUnique, ThreadUnique,
            WaddwUnique, WorkUnique, ObjOnly, ThreadOnly, WaddwOnly,
            OwnedLive, IsCleanup
    <2>3. CASE ~wq_is_destroyed[data[w]]
      <3>1. /\ pc' = [pc EXCEPT ![w] = "w_queue"]
            /\ UNCHANGED <<grace, data, ref, at>>
        BY <1>24, <2>3 DEF MakeLock, Goto, WriteReturn, Return, RcuExit
      <3>2. QED
        BY <2>1, <2>3, <3>1 DEF OwnerInv, ObjUnique, ThreadUnique,
            WaddwUnique, WorkUnique, ObjOnly, ThreadOnly, WaddwOnly,
            OwnedLive, IsCleanup
    <2>4. QED
      BY <2>2, <2>3
  <1>25. ASSUME NEW w \in Writers, QueueCheck(w)
         PROVE  OwnerInv'
    <2>1. /\ pc[w] = "w_queue"
          /\ UNCHANGED <<module, ht, mem, e, wq_is_destroyed, wqvars, epvars,
                        mounts, waddwvars>>
      BY <1>25 DEF QueueCheck, Goto, WriteReturn, Return, RcuExit
    <2>2. CASE e[data[w]] = Null
      <3>1. /\ pc' = [pc EXCEPT ![w] = "idle"]
            /\ data' = [data EXCEPT ![w] = Null]
            /\ ref' = [ref EXCEPT ![w] = Null]
            /\ at' = [at EXCEPT ![w] = Null]
            /\ grace' = [o \in Objs |-> grace[o] \ {w}]
        BY <1>25, <2>2 DEF QueueCheck, Goto, WriteReturn, Return, RcuExit
      <3>2. QED
        BY <2>1, <2>2, <3>1 DEF OwnerInv, ObjUnique, ThreadUnique,
            WaddwUnique, WorkUnique, ObjOnly, ThreadOnly, WaddwOnly,
            OwnedLive, IsCleanup
    <2>3. CASE e[data[w]] # Null
      <3>1. /\ pc' = [pc EXCEPT ![w] = "w_load"]
            /\ UNCHANGED <<grace, data, ref, at>>
        BY <1>25, <2>3 DEF QueueCheck, Goto, WriteReturn, Return, RcuExit
      <3>2. QED
        BY <2>1, <2>3, <3>1 DEF OwnerInv, ObjUnique, ThreadUnique,
            WaddwUnique, WorkUnique, ObjOnly, ThreadOnly, WaddwOnly,
            OwnedLive, IsCleanup
    <2>4. QED
      BY <2>2, <2>3
  <1>26. ASSUME NEW w \in Writers, QueueLoad(w)
         PROVE  OwnerInv'
    BY <1>26 DEF QueueLoad, Goto, OwnerInv, ObjUnique, ThreadUnique,
        WaddwUnique, WorkUnique, ObjOnly, ThreadOnly, WaddwOnly, OwnedLive,
        IsCleanup
  <1>27. ASSUME NEW w \in Writers, QueueAllocFails(w)
         PROVE  OwnerInv'
    BY <1>27 DEF QueueAllocFails, WriteReturn, Return, RcuExit, OwnerInv,
        ObjUnique, ThreadUnique, WaddwUnique, WorkUnique, ObjOnly, ThreadOnly,
        WaddwOnly, OwnedLive, IsCleanup
  <1>28. ASSUME NEW w \in Writers, QueueWork(w)
         PROVE  OwnerInv'
    <2>1. /\ pc[w] = "w_date"
          /\ UNCHANGED <<module, ht, mem, e, wq_is_destroyed, wqmem, epvars,
                        mounts, waddwvars>>
      BY <1>28 DEF QueueWork
    <2>2. PICK src \in {ref[w], e[data[w]]} :
             \/ /\ src = Null
                /\ Goto(w, "oops")
                /\ UNCHANGED <<grace, wq, data, ref, at>>
             \/ /\ src # Null
                /\ wq' = [wq EXCEPT ![data[w]] =
                             Append(@, SnapWork(ref[w], dated[src]))]
                /\ WriteReturn(w)
      BY <1>28 DEF QueueWork
    <2>3. CASE src = Null
      <3>1. /\ pc' = [pc EXCEPT ![w] = "oops"]
            /\ UNCHANGED <<grace, wq, data, ref, at>>
        BY <2>2, <2>3 DEF Goto
      <3>2. QED
        BY <2>1, <3>1 DEF OwnerInv, ObjUnique, ThreadUnique, WaddwUnique,
            WorkUnique, ObjOnly, ThreadOnly, WaddwOnly, OwnedLive, IsCleanup
    <2>4. CASE src # Null
      <3>1. \A o \in Objs, i \in Nat : IsCleanup(wq'[o], i) =>
                IsCleanup(wq[o], i) /\ wq'[o][i] = wq[o][i]
        <4> DEFINE x == SnapWork(ref[w], dated[src])
        <4>1. x.kind = "snap"
          BY DEF SnapWork
        <4>2. wq' = [wq EXCEPT ![data[w]] = Append(@, x)] /\ data[w] \in Objs
          BY <2>1, <2>2, <2>4
        <4> HIDE DEF x
        <4>3. QED
          BY <4>1, <4>2 DEF IsCleanup
      <3>2. /\ pc' = [pc EXCEPT ![w] = "idle"]
            /\ data' = [data EXCEPT ![w] = Null]
            /\ \A u \in Users : ref'[u] = ref[u]
        BY <2>2, <2>4 DEF WriteReturn, Return
      <3>3. QED
        BY SMTT(30), <2>1, <3>1, <3>2 DEF OwnerInv, ObjUnique, ThreadUnique,
            WaddwUnique, WorkUnique, ObjOnly, ThreadOnly, WaddwOnly,
            OwnedLive, IsCleanup
    <2>5. QED
      BY <2>3, <2>4
  <1>29. ASSUME NEW o \in Objs, FreeObject(o)
         PROVE  OwnerInv'
    BY <1>29 DEF FreeObject, OwnerInv, ObjUnique, ThreadUnique, WaddwUnique,
        WorkUnique, ObjOnly, ThreadOnly, WaddwOnly, OwnedLive, IsCleanup
  <1>30. ASSUME NEW o \in Objs, RunSnapshot(o)
         PROVE  OwnerInv'
    BY SMTT(30), <1>30 DEF RunSnapshot, OwnerInv, ObjUnique, ThreadUnique, WaddwUnique,
        WorkUnique, ObjOnly, ThreadOnly, WaddwOnly, OwnedLive, IsCleanup
  <1>31. ASSUME NEW o \in Objs, RunCleanupEpoch(o)
         PROVE  OwnerInv'
    BY SMTT(30), <1>31 DEF RunCleanupEpoch, OwnerInv, ObjUnique, ThreadUnique,
        WaddwUnique, WorkUnique, ObjOnly, ThreadOnly, WaddwOnly, OwnedLive,
        IsCleanup
  <1>32. ASSUME NEW o \in Objs, WaddwDestroy(o)
         PROVE  OwnerInv'
    BY <1>32 DEF WaddwDestroy, OwnerInv, ObjUnique, ThreadUnique, WaddwUnique,
        WorkUnique, ObjOnly, ThreadOnly, WaddwOnly, OwnedLive, IsCleanup
  <1>33. ASSUME NEW o \in Objs, WaddwEpoch(o)
         PROVE  OwnerInv'
    <2>1. /\ epmem' = [ep \in Epochs |->
                        IF ep = waddw_epoch[o] THEN "freed" ELSE epmem[ep]]
          /\ waddw_epoch' = [waddw_epoch EXCEPT ![o] = Null]
          /\ UNCHANGED <<e, ref, wq>>
      BY <1>33 DEF WaddwEpoch
    <2>2. /\ ObjUnique' /\ ThreadUnique' /\ WaddwUnique' /\ WorkUnique'
          /\ ObjOnly' /\ ThreadOnly' /\ WaddwOnly'
      BY <2>1 DEF OwnerInv, ObjUnique, ThreadUnique, WaddwUnique, WorkUnique,
          ObjOnly, ThreadOnly, WaddwOnly, OwnedLive, IsCleanup
    <2>3. OwnedLive'
      <3>1. /\ \A p \in Objs : e'[p] # Null => epmem'[e'[p]] = "live"
            /\ \A u \in Users : ref'[u] # Null => epmem'[ref'[u]] = "live"
            /\ \A p \in Objs : waddw_epoch'[p] # Null =>
                   epmem'[waddw_epoch'[p]] = "live"
        BY <2>1 DEF OwnerInv, OwnedLive, ObjOnly, ThreadOnly, WaddwUnique
      <3>2. ASSUME NEW p \in Objs, NEW i \in Nat, IsCleanup(wq'[p], i)
            PROVE  epmem'[wq'[p][i].ep] = "live"
        <4>1. IsCleanup(wq[p], i) /\ wq'[p][i].ep = wq[p][i].ep
          BY <2>1, <3>2 DEF IsCleanup
        <4>2. wq[p][i].ep \in Epochs /\ epmem[wq[p][i].ep] = "live"
          <5>1. wq[p][i] \in Works
            BY <4>1 DEF IsCleanup
          <5>2. QED
            BY <4>1, <5>1 DEF OwnerInv, OwnedLive, Works
        <4>3. wq[p][i].ep # waddw_epoch[o]
          BY <4>1, <4>2 DEF OwnerInv, WaddwOnly
        <4>4. QED
          BY <2>1, <4>1, <4>2, <4>3
      <3>3. QED
        BY <3>1, <3>2 DEF OwnedLive
    <2>4. QED
      BY <2>2, <2>3 DEF OwnerInv
  <1>34. CASE UNCHANGED vars
    BY <1>34 DEF vars, OwnerInv, ObjUnique, ThreadUnique, WaddwUnique,
        WorkUnique, ObjOnly, ThreadOnly, WaddwOnly, OwnedLive, IsCleanup
  <1>35. QED
    BY <1>1, <1>2, <1>3, <1>4, <1>5, <1>6, <1>7, <1>8, <1>9, <1>10, <1>11,
       <1>12, <1>13, <1>14, <1>15, <1>16, <1>17, <1>18, <1>19, <1>20, <1>21,
       <1>22, <1>23, <1>24, <1>25, <1>26, <1>27, <1>28, <1>29, <1>30, <1>31,
       <1>32, <1>33, <1>34
    DEF Next, UserNext, AdminNext, WriterNext, KernelNext, Rest

-----------------------------------------------------------------------------
(* The theorems.                                                           *)

IInv == TypeInv /\ ObjInv /\ QueueInv /\ OwnerInv

LEMMA InitInv == Init => IInv
  <1> SUFFICES ASSUME Init PROVE IInv
    OBVIOUS
  <1> USE ThreadsAssumption, NullAssumption DEF Init
  <1>1. TypeInv
    BY DEF TypeInv, TypeOK, DataTyped, RefTyped, Threads, UserPcs, AdminPcs,
           WriterPcs, RcuPcs, BusyPcs, Works
  <1>2. ObjInv
    BY DEF ObjInv, TableLive, ReaderSafe, CleanerAlone, NewInvisible,
           UnusedFresh, CleanPcs, RcuPcs, Threads
  <1>3. QueueInv
    BY DEF QueueInv, MarkedFirst, HasQueue, ReaderBeforeMark, DestroyedEmpty,
           ReadPcs, Threads
  <1>4. OwnerInv
    BY DEF OwnerInv, ObjUnique, ThreadUnique, WaddwUnique, WorkUnique,
       ObjOnly,
           ThreadOnly, WaddwOnly, OwnedLive, IsCleanup, Threads
  <1>5. QED
    BY <1>1, <1>2, <1>3, <1>4 DEF IInv

LEMMA Invariance == Spec => []IInv
  <1>1. IInv /\ [Next]_vars => IInv'
    BY TypeStep, ObjStep, QueueStep, OwnerStep DEF IInv
  <1>2. QED
    BY <1>1, InitInv, PTL DEF Spec

\* Every variable keeps its type (all of DeviceEpochs).
THEOREM TypeCorrect == Spec => []TypeOK
  <1>1. IInv => TypeOK
    BY DEF IInv, TypeInv
  <1>2. QED
    BY <1>1, Invariance, PTL

\* No thread works on the memory of an object after kfree_rcu or kfree has
\* freed it: event handlers, writers, concurrent deactivations and the
\* unloading thread included (devices.c:492-553, mounts.c:108-123,
\* snapshot.c:587-633).
THEOREM HandlesStayLive == Spec => []HandleLive
  <1>1. IInv => HandleLive
    <2> SUFFICES ASSUME IInv, NEW t \in Threads, pc[t] \in BusyPcs
                 PROVE  /\ data[t] \in Objs
                        /\ mem[data[t]] \in {"live", "dying"}
      BY DEF HandleLive
    <2>1. data[t] \in Objs
      BY DEF IInv, TypeInv, DataTyped
    <2>2. CASE pc[t] \in RcuPcs
      BY <2>1, <2>2 DEF IInv, ObjInv, ReaderSafe
    <2>3. CASE pc[t] \in CleanPcs \cup {"r_insert"}
      <3>1. t \in Users
        BY <2>3, ThreadsAssumption
        DEF IInv, TypeInv, TypeOK, Threads, AdminPcs, WriterPcs, CleanPcs
      <3>2. CASE pc[t] \in CleanPcs
        BY <2>1, <3>1, <3>2 DEF IInv, ObjInv, CleanerAlone
      <3>3. CASE pc[t] = "r_insert"
        BY <2>1, <3>1, <3>3 DEF IInv, ObjInv, NewInvisible
      <3>4. QED
        BY <2>1, <2>3, <3>2, <3>3
    <2>4. QED
      BY <2>1, <2>2, <2>3 DEF BusyPcs, CleanPcs
  <1>2. QED
    BY <1>1, Invariance, PTL

\* No work is queued on a workqueue that is destroyed, and none is left on it
\* (wq_destroy_lock and wq_is_destroyed, devices.c:111-125).
THEOREM WorkqueuesUsable == Spec => []WorkqueueUsable
  <1>1. IInv => WorkqueueUsable
    <2> SUFFICES ASSUME IInv PROVE WorkqueueUsable
      OBVIOUS
    <2>1. ASSUME NEW t \in Threads, pc[t] \in RcuPcs, ~wq_is_destroyed[data[t]]
          PROVE  wqmem[data[t]] = "alive"
      <3>1. data[t] \in Objs /\ mem[data[t]] # "unused"
        BY <2>1 DEF IInv, TypeInv, DataTyped, BusyPcs, ObjInv, ReaderSafe
      <3>2. QED
        BY <2>1, <3>1 DEF IInv, QueueInv, HasQueue
    <2>2. \A w \in Writers : pc[w] \in ReadPcs => wqmem[data[w]] = "alive"
      BY <2>1 DEF IInv, QueueInv, ReaderBeforeMark, ReadPcs, RcuPcs, Threads
    <2>3. \A a \in Admins : (pc[a] = "u_count" /\ EndsEpoch(data[a]))
                                => wqmem[data[a]] = "alive"
      BY <2>1 DEF EndsEpoch, RcuPcs, Threads
    <2>4. \A o \in Objs : wqmem[o] = "destroyed" => wq[o] = <<>>
      BY DEF IInv, QueueInv, DestroyedEmpty
    <2>5. QED
      BY <2>2, <2>3, <2>4 DEF WorkqueueUsable
  <1>2. QED
    BY <1>1, Invariance, PTL

\* No epoch is freed twice: umounts, deactivations and unloading never both
\* get hold of one, and the one that has it has not seen it freed
\* (devices.c:84-98 and 120-123, mounts.c:26-32 and 88-103).
THEOREM NoDoubleFrees == Spec => []NoDoubleFree
  <1>1. IInv => NoDoubleFree
    <2> SUFFICES ASSUME IInv, NEW ep \in Epochs
                 PROVE  /\ \A x, y \in Owners(ep) : x = y
                        /\ Owners(ep) # {} => epmem[ep] = "live"
      BY DEF NoDoubleFree
    <2> USE NullAssumption
    <2>1. ASSUME NEW x \in Owners(ep)
          PROVE  \/ \E o \in Objs : e[o] = ep /\ x = <<"object", o>>
                 \/ \E u \in Users : ref[u] = ep /\ x = <<"thread", u>>
                 \/ \E o \in Objs : waddw_epoch[o] = ep /\ x = <<"waddw", o>>
                 \/ \E o \in Objs, i \in Nat :
                        /\ IsCleanup(wq[o], i)
                        /\ wq[o][i].ep = ep
                        /\ x = <<"work", o, i>>
      <3>1. \A o \in Objs : DOMAIN wq[o] \subseteq Nat
        BY DEF IInv, TypeInv, TypeOK
      <3>2. QED
        BY <2>1, <3>1 DEF Owners, IsCleanup
    <2>2. Owners(ep) # {} => epmem[ep] = "live"
      BY <2>1 DEF IInv, OwnerInv, OwnedLive
    <2>3. ASSUME NEW x \in Owners(ep), NEW y \in Owners(ep)
          PROVE  x = y
      <3>1. CASE \E o \in Objs : e[o] = ep /\ x = <<"object", o>>
        BY <2>1, <3>1 DEF IInv, OwnerInv, ObjUnique, ObjOnly
      <3>2. CASE \E u \in Users : ref[u] = ep /\ x = <<"thread", u>>
        BY <2>1, <3>2 DEF IInv, OwnerInv, ThreadUnique, ObjOnly, ThreadOnly
      <3>3. CASE \E o \in Objs : waddw_epoch[o] = ep /\ x = <<"waddw", o>>
        BY <2>1, <3>3
        DEF IInv, OwnerInv, WaddwUnique, ObjOnly, ThreadOnly, WaddwOnly
      <3>4. CASE \E o \in Objs, i \in Nat : /\ IsCleanup(wq[o], i)
                                            /\ wq[o][i].ep = ep
                                            /\ x = <<"work", o, i>>
        BY <2>1, <3>4
        DEF IInv, OwnerInv, WorkUnique, ObjOnly, ThreadOnly, WaddwOnly
      <3>5. QED
        BY <2>1, <3>1, <3>2, <3>3, <3>4
    <2>4. QED
      BY <2>2, <2>3
  <1>2. QED
    BY <1>1, Invariance, PTL

=============================================================================
