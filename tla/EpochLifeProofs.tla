--------------------------- MODULE EpochLifeProofs ---------------------------
(***************************************************************************)
(* More proofs about DeviceEpochs: that nothing is lost or left behind     *)
(* when no allocation fails, for any number of threads, mounts, objects    *)
(* and epochs, with overlapping events, lazy umounts and activation of     *)
(* mounted devices.                                                        *)
(***************************************************************************)
EXTENDS DeviceEpochsProofs

-----------------------------------------------------------------------------
(* The epoch on its way from owner to owner.                               *)

\* general_lock is held by one thread at a time
LockExclusive ==
    \A s, t \in Threads :
        pc[s] \in LockPcs /\ pc[t] \in LockPcs /\ data[s] = data[t] => s = t

\* The mount event that found no epoch still finds none when it allocates one
AllocEmpty ==
    \A a \in Admins :
        /\ pc[a] = "m_alloc" => e[data[a]] = Null
        /\ pc[a] = "m_count" => e[data[a]] # Null

\* A thread has a detached epoch only until it hands it over
HandedOver == \A u \in Users : ref[u] # Null => pc[u] = "c_defer"

\* The object the table holds is not being destroyed, nor is one that is new,
\* nor one that has just been removed
NotMarked ==
    /\ \A o \in Objs : mem[o] = "unused" => ~wq_is_destroyed[o] /\ e[o] = Null
    /\ ht # Null => ~wq_is_destroyed[ht]
    /\ \A u \in Users :
          /\ pc[u] \in {"r_insert", "c_lock", "c_mark"} => ~wq_is_destroyed[data[u]]
          /\ pc[u] = "r_insert" => e[data[u]] = Null

\* The deferred work is scheduled once, and has an epoch only when it is
NotDeferred ==
    /\ \A u \in Users : pc[u] \in {"c_take", "c_defer"} => waddw[data[u]] = "none"
    /\ \A o \in Objs : waddw[o] = "none" => waddw_epoch[o] = Null

WayInv == LockExclusive /\ AllocEmpty /\ HandedOver /\ NotMarked /\ NotDeferred

-----------------------------------------------------------------------------
(* The end of the module.                                                  *)

ExitPcs == CleanPcs \cup {"x_flush"}

\* An unload is alone
UnloadAlone ==
    /\ module = "loaded" => \A u \in Users : pc[u] # "x_flush"
    /\ module # "loaded" =>
          /\ ht = Null
          /\ \A t \in Threads : pc[t] # "idle" => t \in Users /\ pc[t] \in ExitPcs
          /\ \A s, t \in Threads : pc[s] # "idle" /\ pc[t] # "idle" => s = t
    /\ module = "unloaded" =>
          worklist = {} /\ \A t \in Threads : pc[t] = "idle"

\* An object whose destruction has not been announced can be found, or is
\* being set up or removed
Findable ==
    \A o \in Objs : mem[o] # "unused" /\ ~wq_is_destroyed[o] =>
        \/ o = ht
        \/ \E u \in Users : pc[u] \in CleanPcs \cup {"r_insert"} /\ data[u] = o

\* What is left to do for a workqueue is known to somebody
Unfinished(o) == wq[o] # <<>> \/ waddw[o] \in {"flush", "epoch"}
Pursued(o) ==
    \/ o = ht
    \/ \E u \in Users : pc[u] \in CleanPcs /\ data[u] = o
    \/ o \in worklist
NothingForgotten ==
    /\ \A o \in Objs : Unfinished(o) => Pursued(o)
    /\ \A o \in Objs : waddw[o] \in {"epoch", "done"} => wqmem[o] = "destroyed"
    /\ \A u \in Users : pc[u] = "c_list" => waddw[data[u]] # "none"

UnloadInv == UnloadAlone /\ Findable /\ NothingForgotten

-----------------------------------------------------------------------------
(* What the steps of each kind of thread leave alone.                      *)

Others(t) ==
    \A s \in Threads : s # t =>
        pc'[s] = pc[s] /\ data'[s] = data[s] /\ ref'[s] = ref[s]

LEMMA WriterFrame ==
  ASSUME TypeInv, NEW w \in Writers, WriterNext(w)
  PROVE  /\ UNCHANGED <<module, ht, mem, e, wq_is_destroyed, wqmem, epvars, mounts,
                        waddwvars>>
         /\ Others(w)
         /\ pc[w] \in WriterPcs /\ pc'[w] \in WriterPcs
         /\ \/ wq' = wq
            \/ /\ pc[w] = "w_date" /\ pc'[w] = "idle"
               /\ \E d \in BOOLEAN :
                     wq' = [wq EXCEPT ![data[w]] = Append(@, SnapWork(ref[w], d))]
  <1> USE ThreadsAssumption
      DEF TypeInv, TypeOK, Threads, WriterPcs, Others, epvars, waddwvars
  <1>1. ASSUME NEW m \in Mounts, SearchDevice(w, m)
        PROVE  /\ UNCHANGED <<module, ht, mem, e, wq_is_destroyed, wqvars, epvars,
                              mounts, waddwvars>>
               /\ Others(w) /\ pc'[w] \in WriterPcs
    BY <1>1 DEF SearchDevice, Goto, objvars
  <1>2. ASSUME WriteReturn(w) PROVE Others(w) /\ pc'[w] = "idle"
    BY <1>2 DEF WriteReturn, Return
  <1>3. ASSUME NEW l, Goto(w, l), UNCHANGED <<data, ref>> PROVE Others(w) /\ pc'[w] = l
    BY <1>3 DEF Goto
  <1>4. CASE CheckValid(w)
    BY <1>2, <1>3, <1>4 DEF CheckValid, wqvars
  <1>5. CASE MakeLock(w)
    BY <1>2, <1>3, <1>5 DEF MakeLock, wqvars
  <1>6. CASE QueueCheck(w)
    BY <1>2, <1>3, <1>6 DEF QueueCheck, wqvars
  <1>7. CASE QueueAllocFails(w)
    BY <1>2, <1>7 DEF QueueAllocFails, wqvars
  <1>8. CASE QueueLoad(w)
    BY <1>8 DEF QueueLoad, Goto, objvars, wqvars
  <1>9. CASE QueueWork(w)
    <2>1. /\ UNCHANGED <<module, ht, mem, e, wq_is_destroyed, wqmem, epvars, mounts,
                         waddwvars>>
          /\ pc[w] = "w_date"
      BY <1>9 DEF QueueWork
    <2>2. PICK src \in {ref[w], e[data[w]]} :
              \/ /\ src = Null
                 /\ Goto(w, "oops")
                 /\ UNCHANGED <<grace, wq, data, ref, at>>
              \/ /\ src # Null
                 /\ wq' = [wq EXCEPT ![data[w]] =
                              Append(@, SnapWork(ref[w], dated[src]))]
                 /\ WriteReturn(w)
      BY <1>9 DEF QueueWork
    <2>3. CASE Goto(w, "oops") /\ UNCHANGED <<wq, data, ref>>
      BY <1>3, <2>1, <2>3
    <2>4. CASE src # Null /\ WriteReturn(w)
               /\ wq' = [wq EXCEPT ![data[w]] = Append(@, SnapWork(ref[w], dated[src]))]
      <3>1. data[w] \in Objs /\ ref[w] \in Epochs
        BY <2>1 DEF DataTyped, RefTyped, BusyPcs, RcuPcs
      <3>2. dated[src] \in BOOLEAN
        BY <2>4, <3>1
      <3>3. QED
        BY <1>2, <2>1, <2>4, <3>2
    <2>5. QED
      BY <2>2, <2>3, <2>4
  <1>10. QED
    BY <1>1, <1>4, <1>5, <1>6, <1>7, <1>8, <1>9 DEF WriterNext, wqvars

LEMMA AdminFrame ==
  ASSUME TypeInv, NEW a \in Admins, AdminNext(a)
  PROVE  /\ UNCHANGED <<module, ht, mem, wq_is_destroyed, wqmem, waddwvars, at>>
         /\ Others(a)
         /\ pc[a] \in AdminPcs /\ pc'[a] \in AdminPcs
  <1> USE ThreadsAssumption
      DEF TypeInv, TypeOK, Threads, AdminPcs, Others, objvars, wqvars, waddwvars
  <1>1. CASE \E m \in Mounts : MountCall(a, m) \/ UmountCall(a, m)
    BY <1>1 DEF MountCall, UmountCall, Goto
  <1>2. CASE EventLookup(a)
    BY <1>2 DEF EventLookup, Goto, Return
  <1>3. CASE EventLock(a)
    BY <1>3 DEF EventLock, Goto
  <1>4. CASE \E ep \in Epochs : AllocEpoch(a, ep)
    BY <1>4 DEF AllocEpoch, Goto
  <1>5. CASE AllocEpochFails(a)
    BY <1>5 DEF AllocEpochFails, Return
  <1>6. CASE CountMount(a)
    BY <1>6 DEF CountMount, Return
  <1>7. CASE CountUmount(a)
    BY <1>7 DEF CountUmount, Return
  <1>8. QED
    BY <1>1, <1>2, <1>3, <1>4, <1>5, <1>6, <1>7 DEF AdminNext

LEMMA UserFrame ==
  ASSUME TypeInv, NEW u \in Users, UserNext(u), ~DestroyDevices(u)
  PROVE  /\ UNCHANGED <<wq, epvars, mounts, at>>
         /\ Others(u)
         /\ pc[u] \in UserPcs /\ pc'[u] \in UserPcs
  <1> USE ThreadsAssumption
      DEF TypeInv, TypeOK, Threads, UserPcs, Others, objvars, wqvars, epvars, waddwvars
  <1>1. CASE (\E o \in Objs : RegisterInit(u, o)) \/ RegisterInsert(u) \/ RegisterFails(u)
    BY <1>1 DEF RegisterInit, RegisterInsert, RegisterFails, Goto, Return
  <1>2. CASE UnregisterLookup(u) \/ UnregisterRemove(u)
    BY <1>2 DEF UnregisterLookup, UnregisterRemove, Goto, Return
  <1>3. CASE CleanupLock(u) \/ CleanupMark(u) \/ CleanupTake(u)
    BY <1>3 DEF CleanupLock, CleanupMark, CleanupTake, Goto
  <1>4. CASE CleanupDefer(u) \/ CleanupDeferFails(u)
    BY <1>4 DEF CleanupDefer, CleanupDeferFails, Goto
  <1>5. CASE CleanupList(u) \/ FlushWorklist(u)
    BY <1>5 DEF CleanupList, FlushWorklist, Goto, Return
  <1>6. QED
    BY <1>1, <1>2, <1>3, <1>4, <1>5 DEF UserNext

LEMMA KernelFrame ==
  ASSUME NEW o \in Objs, KernelNext(o)
  PROVE  UNCHANGED <<module, ht, e, wq_is_destroyed, n_currently_mounted, dated, mounts,
                     worklist, thrvars>>
  BY DEF KernelNext, FreeObject, RunSnapshot, RunCleanupEpoch, WaddwDestroy, WaddwEpoch,
         objvars, wqvars, epvars, waddwvars

-----------------------------------------------------------------------------
LEMMA LockStep == TypeInv /\ LockExclusive /\ [Next]_vars => LockExclusive'
  <1> SUFFICES ASSUME TypeInv, LockExclusive, [Next]_vars PROVE LockExclusive'
    OBVIOUS
  <1>1. ASSUME NEW t \in Threads, Others(t), pc'[t] \notin LockPcs
        PROVE  LockExclusive'
    BY <1>1, Zenon DEF LockExclusive, Others
  <1>2. ASSUME NEW t \in Threads, Others(t), pc[t] \in LockPcs, data'[t] = data[t]
        PROVE  LockExclusive'
    BY <1>2, ZenonT(40) DEF LockExclusive, Others
  <1>3. ASSUME NEW t \in Threads, Others(t), GeneralLockFree(data[t]), data'[t] = data[t]
        PROVE  LockExclusive'
    BY <1>3, ZenonT(40) DEF GeneralLockFree, LockExclusive, Others
  <1> USE ThreadsAssumption
      DEF TypeInv, TypeOK, Threads, LockPcs
  <1>4. ASSUME NEW u \in Users, UserNext(u), ~DestroyDevices(u)
        PROVE  LockExclusive'
    <2>1. Others(u) /\ u \in Threads
      BY <1>4, UserFrame
    <2>2. CASE CleanupLock(u)
      BY <1>3, <2>1, <2>2 DEF CleanupLock
    <2>3. CASE CleanupMark(u) \/ CleanupTake(u)
      BY <1>2, <2>1, <2>3 DEF CleanupMark, CleanupTake
    <2>4. CASE ~CleanupLock(u) /\ ~CleanupMark(u) /\ ~CleanupTake(u)
      <3>1. pc'[u] \notin LockPcs
        BY <1>4, <2>1, <2>4
           DEF UserNext, RegisterInit, RegisterInsert, RegisterFails, UnregisterLookup,
               UnregisterRemove, CleanupDefer, CleanupDeferFails, CleanupList,
               FlushWorklist, Goto, Return
      <3>2. QED
        BY <1>1, <2>1, <3>1
    <2>5. QED
      BY <2>2, <2>3, <2>4
  <1>5. ASSUME NEW u \in Users, DestroyDevices(u)
        PROVE  LockExclusive'
    BY <1>5 DEF DestroyDevices, LockExclusive
  <1>6. ASSUME NEW a \in Admins, AdminNext(a)
        PROVE  LockExclusive'
    <2>1. Others(a) /\ a \in Threads
      BY <1>6, AdminFrame
    <2>2. CASE EventLock(a)
      BY <1>3, <2>1, <2>2 DEF EventLock
    <2>3. CASE \E ep \in Epochs : AllocEpoch(a, ep)
      BY <1>2, <2>1, <2>3 DEF AllocEpoch
    <2>4. CASE ~EventLock(a) /\ ~\E ep \in Epochs : AllocEpoch(a, ep)
      <3>1. pc'[a] \notin LockPcs
        BY <1>6, <2>1, <2>4
           DEF AdminNext, MountCall, UmountCall, EventLookup, AllocEpochFails,
               CountMount, CountUmount, Goto, Return
      <3>2. QED
        BY <1>1, <2>1, <3>1
    <2>5. QED
      BY <2>2, <2>3, <2>4
  <1>7. ASSUME NEW w \in Writers, WriterNext(w)
        PROVE  LockExclusive'
    <2>1. Others(w) /\ w \in Threads /\ pc'[w] \in WriterPcs
      BY <1>7, WriterFrame
    <2>2. QED
      BY <1>1, <2>1 DEF WriterPcs
  <1>8. ASSUME NEW o \in Objs, KernelNext(o)
        PROVE  LockExclusive'
    BY <1>8, KernelFrame DEF thrvars, LockExclusive
  <1>9. ASSUME Rest \/ UNCHANGED vars
        PROVE  LockExclusive'
    BY <1>9 DEF Rest, vars, thrvars, LockExclusive
  <1>10. QED
    BY <1>4, <1>5, <1>6, <1>7, <1>8, <1>9 DEF Next

\* What a mount event saw under general_lock stays so until it lets go.
LEMMA AllocStep ==
  TypeInv /\ LockExclusive /\ AllocEmpty /\ [Next]_vars => AllocEmpty'
  <1> SUFFICES ASSUME TypeInv, LockExclusive, AllocEmpty, [Next]_vars
               PROVE  AllocEmpty'
    OBVIOUS
  <1>1. ASSUME NEW t \in Threads, Others(t), e' = e, t \notin Admins \/ pc'[t] \notin LockPcs
        PROVE  AllocEmpty'
    BY <1>1 DEF LockPcs, AllocEmpty, Others, Threads
  <1>10. ASSUME NEW t \in Threads, Others(t), NEW o \in Objs,
                \A p \in Objs : p # o => e'[p] = e[p],
                \A a \in Admins : a # t /\ pc[a] \in {"m_alloc", "m_count"} => data[a] # o,
                t \notin Admins \/ pc'[t] \notin LockPcs
                   \/ (pc'[t] = "m_count" /\ e'[data'[t]] # Null)
        PROVE  AllocEmpty'
    <2>1. \A a \in Admins : a # t /\ pc[a] \in {"m_alloc", "m_count"} =>
              e'[data[a]] = e[data[a]]
      <3>1. \A a \in Admins : pc[a] \in {"m_alloc", "m_count"} => data[a] \in Objs
        BY DEF TypeInv, DataTyped, BusyPcs, RcuPcs, Threads
      <3>2. QED
        BY <1>10, <3>1
    <2>2. ASSUME NEW a \in Admins, a # t
          PROVE  /\ pc'[a] = "m_alloc" => e'[data'[a]] = Null
                 /\ pc'[a] = "m_count" => e'[data'[a]] # Null
      <3>1. a \in Threads /\ pc'[a] = pc[a] /\ data'[a] = data[a]
        BY <1>10, <2>2 DEF Others, Threads
      <3>2. QED
        BY <2>1, <2>2, <3>1 DEF AllocEmpty
    <2>3. ASSUME t \in Admins
          PROVE  /\ pc'[t] = "m_alloc" => e'[data'[t]] = Null
                 /\ pc'[t] = "m_count" => e'[data'[t]] # Null
      BY <1>10, <2>3 DEF LockPcs
    <2>4. QED
      BY <2>2, <2>3 DEF AllocEmpty
  <1> USE ThreadsAssumption, NullAssumption
      DEF TypeInv, TypeOK, Threads
  <1>2. ASSUME NEW u \in Users, UserNext(u), ~DestroyDevices(u)
        PROVE  AllocEmpty'
    <2>1. Others(u) /\ u \in Threads /\ u \notin Admins
      BY <1>2, UserFrame
    <2>2. CASE CleanupTake(u)
      <3>1. /\ pc[u] = "c_take" /\ data[u] \in Objs
            /\ e' = [e EXCEPT ![data[u]] = Null]
        BY <2>2 DEF CleanupTake, DataTyped, BusyPcs
      <3>2. \A a \in Admins : pc[a] \in {"m_alloc", "m_count"} =>
                data[a] # data[u] /\ data[a] \in Objs
        BY <2>1, <3>1 DEF LockExclusive, LockPcs, DataTyped, BusyPcs, RcuPcs
      <3>3. \A p \in Objs : p # data[u] => e'[p] = e[p]
        BY <3>1
      <3>4. QED
        BY <1>10, <2>1, <3>1, <3>2, <3>3
    <2>3. CASE ~CleanupTake(u)
      <3>1. e' = e
        BY <1>2, <2>3
           DEF UserNext, RegisterInit, RegisterInsert, RegisterFails, UnregisterLookup,
               UnregisterRemove, CleanupLock, CleanupMark, CleanupDefer,
               CleanupDeferFails, CleanupList, FlushWorklist, objvars
      <3>2. QED
        BY <1>1, <2>1, <3>1
    <2>4. QED
      BY <2>2, <2>3
  <1>3. ASSUME NEW u \in Users, DestroyDevices(u)
        PROVE  AllocEmpty'
    BY <1>3 DEF DestroyDevices, AllocEmpty
  <1>4. ASSUME NEW a \in Admins, AdminNext(a)
        PROVE  AllocEmpty'
    <2>1. Others(a) /\ a \in Threads
      BY <1>4, AdminFrame
    <2>2. CASE EventLock(a)
      <3>1. /\ e' = e /\ data' = data
            /\ pc'[a] \in {"u_count", "m_alloc", "m_count"}
            /\ pc'[a] = "m_alloc" => e[data[a]] = Null
            /\ pc'[a] = "m_count" => e[data[a]] # Null
        BY <2>2 DEF EventLock, Goto, objvars
      <3>2. QED
        BY <2>1, <3>1, ZenonT(40) DEF AllocEmpty, Others
    <2>3. ASSUME NEW ep \in Epochs, AllocEpoch(a, ep)
          PROVE  AllocEmpty'
      <3>1. /\ pc[a] = "m_alloc" /\ data[a] \in Objs /\ pc'[a] = "m_count"
            /\ e' = [e EXCEPT ![data[a]] = ep] /\ data' = data
        BY <2>3 DEF AllocEpoch, DataTyped, BusyPcs, RcuPcs, Goto
      <3>2. \A b \in Admins : b # a /\ pc[b] \in {"m_alloc", "m_count"} =>
                data[b] # data[a] /\ data[b] \in Objs
        BY <2>1, <3>1 DEF LockExclusive, LockPcs, DataTyped, BusyPcs, RcuPcs
      <3>3. e'[data'[a]] # Null
        BY <2>3, <3>1
      <3>4. \A p \in Objs : p # data[a] => e'[p] = e[p]
        BY <3>1
      <3> HIDE DEF TypeInv, Threads
      <3>5. QED
        BY <1>10, <2>1, <3>1, <3>2, <3>3, <3>4, SMTT(20)
    <2>4. CASE CountUmount(a)
      <3>1. /\ pc[a] = "u_count" /\ data[a] \in Objs /\ pc'[a] = "idle"
            /\ e' = e \/ e' = [e EXCEPT ![data[a]] = Null]
        BY <2>4 DEF CountUmount, DataTyped, BusyPcs, RcuPcs, Return
      <3>2. \A b \in Admins : pc[b] \in {"m_alloc", "m_count"} =>
                data[b] # data[a] /\ data[b] \in Objs
        BY <2>1, <3>1 DEF LockExclusive, LockPcs, DataTyped, BusyPcs, RcuPcs
      <3>3. CASE e' = e
        BY <1>1, <2>1, <3>1, <3>3 DEF LockPcs
      <3>4. CASE e' = [e EXCEPT ![data[a]] = Null]
        <4>1. \A p \in Objs : p # data[a] => e'[p] = e[p]
          BY <3>1, <3>4
        <4>2. pc'[a] \notin LockPcs
          BY <3>1 DEF LockPcs
        <4> HIDE DEF TypeInv, Threads
        <4>3. QED
          BY <1>10, <2>1, <3>1, <3>2, <4>1, <4>2, SMTT(20)
      <3>5. QED
        BY <3>1, <3>3, <3>4
    <2>5. CASE \/ \E m \in Mounts : MountCall(a, m) \/ UmountCall(a, m)
               \/ EventLookup(a) \/ AllocEpochFails(a) \/ CountMount(a)
      <3>1. e' = e /\ pc'[a] \notin LockPcs
        BY <2>5 DEF MountCall, UmountCall, EventLookup, AllocEpochFails, CountMount,
                    Goto, Return, objvars, LockPcs
      <3>2. QED
        BY <1>1, <2>1, <3>1
    <2>6. QED
      BY <1>4, <2>2, <2>3, <2>4, <2>5 DEF AdminNext
  <1>5. ASSUME NEW w \in Writers, WriterNext(w)
        PROVE  AllocEmpty'
    BY <1>1, <1>5, WriterFrame
  <1>6. ASSUME NEW o \in Objs, KernelNext(o)
        PROVE  AllocEmpty'
    BY <1>6, KernelFrame DEF thrvars, AllocEmpty
  <1>7. ASSUME Rest \/ UNCHANGED vars
        PROVE  AllocEmpty'
    BY <1>7 DEF Rest, vars, thrvars, objvars, AllocEmpty
  <1>8. QED
    BY <1>2, <1>3, <1>4, <1>5, <1>6, <1>7 DEF Next

LEMMA HandedStep == TypeInv /\ HandedOver /\ [Next]_vars => HandedOver'
  <1> SUFFICES ASSUME TypeInv, HandedOver, [Next]_vars PROVE HandedOver'
    OBVIOUS
  <1> USE ThreadsAssumption, NullAssumption DEF TypeInv, TypeOK, Threads
  <1>1. ASSUME NEW t \in Threads, Others(t),
               t \in Users => ref'[t] = Null \/ pc'[t] = "c_defer"
        PROVE  HandedOver'
    BY <1>1 DEF HandedOver, Others
  <1>2. ASSUME NEW u \in Users, UserNext(u), ~DestroyDevices(u)
        PROVE  HandedOver'
    <2>1. Others(u) /\ u \in Threads
      BY <1>2, UserFrame
    <2>2. ref'[u] = Null \/ pc'[u] = "c_defer"
      BY <1>2 DEF HandedOver, UserNext, RegisterInit, RegisterInsert, RegisterFails,
           UnregisterLookup, UnregisterRemove, CleanupLock, CleanupMark, CleanupTake,
           CleanupDefer, CleanupDeferFails, CleanupList, FlushWorklist, Goto, Return
    <2>3. QED
      BY <1>1, <2>1, <2>2
  <1>3. ASSUME NEW u \in Users, DestroyDevices(u)
        PROVE  HandedOver'
    BY <1>3 DEF DestroyDevices, HandedOver
  <1>4. ASSUME NEW a \in Admins, AdminNext(a)
        PROVE  HandedOver'
    <2>1. Others(a) /\ a \in Threads /\ a \notin Users
      BY <1>4, AdminFrame
    <2>2. QED
      BY <1>1, <2>1
  <1>5. ASSUME NEW w \in Writers, WriterNext(w)
        PROVE  HandedOver'
    <2>1. Others(w) /\ w \in Threads /\ w \notin Users
      BY <1>5, WriterFrame
    <2>2. QED
      BY <1>1, <2>1
  <1>6. ASSUME (\E o \in Objs : KernelNext(o)) \/ Rest \/ UNCHANGED vars
        PROVE  HandedOver'
    BY <1>6, KernelFrame DEF Rest, vars, thrvars, HandedOver
  <1>7. QED
    BY <1>2, <1>3, <1>4, <1>5, <1>6 DEF Next

\* Only the thread that has removed an object announces its destruction, and
\* schedules it.
LEMMA MarkedStep ==
  TypeInv /\ ObjInv /\ NotMarked /\ NotDeferred /\ QueueInv /\ LockExclusive
      /\ AllocEmpty /\ [Next]_vars
  => NotMarked' /\ NotDeferred'
  <1> SUFFICES ASSUME TypeInv, ObjInv, NotMarked, NotDeferred, QueueInv, LockExclusive,
                      AllocEmpty, [Next]_vars
               PROVE  NotMarked' /\ NotDeferred'
    OBVIOUS
  <1>14. ASSUME NEW t \in Admins \cup Writers, Others(t),
                \A o \in Objs : e[o] = Null => e'[o] = Null,
                UNCHANGED <<ht, mem, wq_is_destroyed, waddwvars>>
         PROVE  NotMarked' /\ NotDeferred'
    <2>1. \A u \in Users : pc'[u] = pc[u] /\ data'[u] = data[u]
      BY <1>14, ThreadsAssumption DEF Others, Threads
    <2>2. \A u \in Users : pc[u] = "r_insert" => data[u] \in Objs
      BY DEF TypeInv, DataTyped, BusyPcs, Threads
    <2>3. QED
      BY <1>14, <2>1, <2>2 DEF NotMarked, NotDeferred, waddwvars
  <1> USE ThreadsAssumption, NullAssumption
      DEF TypeInv, TypeOK, DataTyped, Threads, BusyPcs, RcuPcs, ObjInv, TableLive,
          CleanerAlone, NewInvisible, UnusedFresh, CleanPcs, NotMarked, NotDeferred,
          objvars, wqvars, epvars, waddwvars
  <1>1. ASSUME NEW u \in Users, NEW o \in Objs, RegisterInit(u, o)
        PROVE  NotMarked' /\ NotDeferred'
    BY <1>1 DEF RegisterInit, Goto
  <1>2. ASSUME NEW u \in Users, RegisterInsert(u)
        PROVE  NotMarked' /\ NotDeferred'
    BY <1>2 DEF RegisterInsert, Return
  <1>3. ASSUME NEW u \in Users, RegisterFails(u)
        PROVE  NotMarked' /\ NotDeferred'
    BY <1>3 DEF RegisterFails, Return
  <1>4. ASSUME NEW u \in Users, UnregisterLookup(u)
        PROVE  NotMarked' /\ NotDeferred'
    BY <1>4 DEF UnregisterLookup, Goto
  <1>5. ASSUME NEW u \in Users, UnregisterRemove(u)
        PROVE  NotMarked' /\ NotDeferred'
    <2>1. UNCHANGED <<mem, e, wq_is_destroyed, waddwvars>>
      BY <1>5 DEF UnregisterRemove
    <2>2. CASE ht = data[u]
      <3>1. pc' = [pc EXCEPT ![u] = "c_lock"] /\ ht' = Null /\ UNCHANGED <<data, ref>>
        BY <1>5, <2>2 DEF UnregisterRemove, Goto
      <3>2. data[u] \in Objs /\ ~wq_is_destroyed[data[u]]
        BY <1>5, <2>2 DEF UnregisterRemove
      <3>3. /\ pc'[u] = "c_lock"
            /\ \A v \in Users : v # u => pc'[v] = pc[v]
        BY <3>1
      <3> HIDE DEF TypeInv, ObjInv
      <3>4. QED
        BY <2>1, <3>1, <3>2, <3>3
    <2>3. CASE ht # data[u]
      <3>1. /\ pc' = [pc EXCEPT ![u] = "idle"]
            /\ data' = [data EXCEPT ![u] = Null]
            /\ ht' = ht
        BY <1>5, <2>3 DEF UnregisterRemove, Return
      <3>2. QED
        BY <2>1, <2>3, <3>1
    <2>4. QED
      BY <2>2, <2>3
  <1>6. ASSUME NEW u \in Users, CleanupLock(u)
        PROVE  NotMarked' /\ NotDeferred'
    BY <1>6 DEF CleanupLock, Goto
  <1>7. ASSUME NEW u \in Users, CleanupMark(u)
        PROVE  NotMarked' /\ NotDeferred'
    BY <1>7 DEF CleanupMark, Goto, QueueInv, MarkedFirst
  <1>8. ASSUME NEW u \in Users, CleanupTake(u)
        PROVE  NotMarked' /\ NotDeferred'
    BY <1>8 DEF CleanupTake, Goto
  <1>9. ASSUME NEW u \in Users, CleanupDefer(u)
        PROVE  NotMarked' /\ NotDeferred'
    BY <1>9 DEF CleanupDefer, Goto
  <1>10. ASSUME NEW u \in Users, CleanupDeferFails(u)
         PROVE  NotMarked' /\ NotDeferred'
    BY <1>10 DEF CleanupDeferFails, Goto
  <1>11. ASSUME NEW u \in Users, CleanupList(u)
         PROVE  NotMarked' /\ NotDeferred'
    BY <1>11 DEF CleanupList, Goto
  <1>12. ASSUME NEW u \in Users, DestroyDevices(u)
         PROVE  NotMarked' /\ NotDeferred'
    BY <1>12 DEF DestroyDevices
  <1>13. ASSUME NEW u \in Users, FlushWorklist(u)
         PROVE  NotMarked' /\ NotDeferred'
    BY <1>13 DEF FlushWorklist, Return
  <1>15. ASSUME NEW a \in Admins, NEW ep \in Epochs, AllocEpoch(a, ep)
         PROVE  NotMarked' /\ NotDeferred'
    BY <1>15 DEF AllocEpoch, Goto
  <1>16. ASSUME NEW a \in Admins, CountUmount(a)
         PROVE  NotMarked' /\ NotDeferred'
    <2>1. /\ e' = e \/ e' = [e EXCEPT ![data[a]] = Null]
          /\ UNCHANGED <<ht, mem, wq_is_destroyed, waddwvars>>
          /\ Others(a)
      BY <1>16 DEF CountUmount, Return, Others
    <2>2. \A o \in Objs : e[o] = Null => e'[o] = Null
      BY <2>1
    <2> HIDE DEF TypeInv, ObjInv, NotMarked, NotDeferred
    <2>3. QED
      BY <1>14, <2>1, <2>2
  <1>17. ASSUME NEW a \in Admins, AdminNext(a)
         PROVE  NotMarked' /\ NotDeferred'
    <2>1. Others(a) /\ UNCHANGED <<ht, mem, wq_is_destroyed, waddwvars>>
      BY <1>17, AdminFrame
    <2>2. CASE e' = e
      BY <1>14, <2>1, <2>2
    <2>3. CASE ~CountUmount(a) /\ ~\E ep \in Epochs : AllocEpoch(a, ep)
      <3>1. e' = e
        BY <1>17, <2>3 DEF AdminNext, MountCall, UmountCall, EventLookup, EventLock,
               AllocEpochFails, CountMount
      <3>2. QED
        BY <2>2, <3>1
    <2>4. QED
      BY <1>15, <1>16, <2>3
  <1>18. ASSUME NEW w \in Writers, WriterNext(w)
         PROVE  NotMarked' /\ NotDeferred'
    BY <1>14, <1>18, WriterFrame
  <1>19. ASSUME NEW o \in Objs, KernelNext(o)
         PROVE  NotMarked' /\ NotDeferred'
    BY <1>19 DEF KernelNext, FreeObject, RunSnapshot, RunCleanupEpoch, WaddwDestroy,
                 WaddwEpoch, thrvars
  <1>20. ASSUME Rest \/ UNCHANGED vars
         PROVE  NotMarked' /\ NotDeferred'
    BY <1>20 DEF Rest, vars, thrvars
  <1>21. QED
    BY <1>1, <1>2, <1>3, <1>4, <1>5, <1>6, <1>7, <1>8, <1>9, <1>10, <1>11, <1>12,
       <1>13, <1>17, <1>18, <1>19, <1>20 DEF Next, UserNext

LEMMA InitWay == Init => WayInv
  BY DEF Init, WayInv, LockExclusive, AllocEmpty, HandedOver, NotMarked, NotDeferred,
         Threads, LockPcs

LEMMA WayStep == IInv /\ WayInv /\ [Next]_vars => WayInv'
  BY LockStep, AllocStep, HandedStep, MarkedStep DEF IInv, WayInv

-----------------------------------------------------------------------------
(* No epoch is lost.                                                       *)

\* Who owns an epoch, without the names of the owners
Owned(ep) ==
    \/ \E o \in Objs : e[o] = ep
    \/ \E u \in Users : ref[u] = ep
    \/ \E o \in Objs : waddw_epoch[o] = ep
    \/ \E o \in Objs : \E i \in Nat : IsCleanup(wq[o], i) /\ wq[o][i].ep = ep

LEMMA OwnedHasOwner ==
  ASSUME TypeInv, NEW ep \in Epochs, Owned(ep)
  PROVE  Owners(ep) # {}
  <1>1. CASE \E o \in Objs : e[o] = ep
    BY <1>1 DEF Owners
  <1>2. CASE \E u \in Users : ref[u] = ep
    BY <1>2 DEF Owners
  <1>3. CASE \E o \in Objs : waddw_epoch[o] = ep
    BY <1>3 DEF Owners
  <1>4. ASSUME NEW o \in Objs, NEW i \in Nat, IsCleanup(wq[o], i), wq[o][i].ep = ep
        PROVE  Owners(ep) # {}
    <2>1. i \in {k \in DOMAIN wq[o] : wq[o][k].kind = "cleanup" /\ wq[o][k].ep = ep}
      BY <1>4 DEF IsCleanup
    <2>2. <<"work", o, i>> \in Owners(ep)
      BY <2>1 DEF Owners
    <2>3. QED
      BY <2>2
  <1>5. QED
    BY <1>1, <1>2, <1>3, <1>4 DEF Owned

AllOwned == \A ep \in Epochs : epmem[ep] = "live" => Owned(ep)


\* A work keeps its place in the queue, or moves up by one.
LEMMA QueueMoves ==
  ASSUME NEW q \in Seq(Works)
  PROVE  /\ \A i \in Nat, x \in Works : IsCleanup(q, i) =>
               IsCleanup(Append(q, x), i) /\ Append(q, x)[i] = q[i]
         /\ q # <<>> => \A i \in Nat : IsCleanup(q, i) /\ i # 1 =>
               i - 1 \in Nat /\ IsCleanup(Tail(q), i - 1) /\ Tail(q)[i - 1] = q[i]
         /\ \A ep \in Epochs :
               /\ Len(q) + 1 \in Nat
               /\ IsCleanup(Append(q, CleanupWork(ep)), Len(q) + 1)
               /\ Append(q, CleanupWork(ep))[Len(q) + 1].ep = ep
  <1>1. Len(q) \in Nat /\ DOMAIN q = 1..Len(q)
    OBVIOUS
  <1>2. ASSUME NEW x \in Works
        PROVE  /\ Len(Append(q, x)) = Len(q) + 1
               /\ DOMAIN Append(q, x) = 1..(Len(q) + 1)
               /\ \A i \in 1..Len(q) : Append(q, x)[i] = q[i]
               /\ Append(q, x)[Len(q) + 1] = x
    OBVIOUS
  <1>3. ASSUME NEW i \in Nat, NEW x \in Works, IsCleanup(q, i)
        PROVE  IsCleanup(Append(q, x), i) /\ Append(q, x)[i] = q[i]
    <2>1. i \in 1..Len(q) /\ i \in 1..(Len(q) + 1) /\ q[i].kind = "cleanup"
      BY <1>1, <1>3 DEF IsCleanup
    <2>2. QED
      BY <1>2, <2>1 DEF IsCleanup
  <1>4. ASSUME q # <<>>, NEW i \in Nat, IsCleanup(q, i), i # 1
        PROVE  i - 1 \in Nat /\ IsCleanup(Tail(q), i - 1) /\ Tail(q)[i - 1] = q[i]
    <2>1. i \in 1..Len(q) /\ q[i].kind = "cleanup"
      BY <1>1, <1>4 DEF IsCleanup
    <2>2. /\ DOMAIN Tail(q) = 1..(Len(q) - 1)
          /\ \A j \in 1..(Len(q) - 1) : Tail(q)[j] = q[j + 1]
      BY <1>4
    <2>3. i - 1 \in 1..(Len(q) - 1) /\ (i - 1) + 1 = i /\ i - 1 \in Nat
      BY <1>1, <1>4, <2>1
    <2>4. QED
      BY <2>1, <2>2, <2>3 DEF IsCleanup
  <1>5. ASSUME NEW ep \in Epochs
        PROVE  /\ Len(q) + 1 \in Nat
               /\ IsCleanup(Append(q, CleanupWork(ep)), Len(q) + 1)
               /\ Append(q, CleanupWork(ep))[Len(q) + 1].ep = ep
    <2>1. CleanupWork(ep) \in Works
      BY DEF CleanupWork, Works
    <2>2. Len(q) + 1 \in Nat /\ Len(q) + 1 \in 1..(Len(q) + 1)
      BY <1>1
    <2>3. QED
      BY <1>2, <2>1, <2>2 DEF IsCleanup, CleanupWork
  <1>6. QED
    BY <1>3, <1>4, <1>5

\* When allocations succeed, an epoch that leaves one owner has the next.
LEMMA OwnedStep ==
  ASSUME ~AllocMayFail
  PROVE  TypeInv /\ WayInv /\ AllOwned /\ [Next]_vars => AllOwned'
  <1> SUFFICES ASSUME TypeInv, WayInv, AllOwned, [Next]_vars,
                      NEW ep \in Epochs, epmem'[ep] = "live"
               PROVE  Owned(ep)'
    BY DEF AllOwned
  <1> DEFINE InQueue(q) == \E i \in Nat : IsCleanup(q, i) /\ q[i].ep = ep
  <1>1. /\ ep # Null
        /\ wq \in [Objs -> Seq(Works)] /\ e \in [Objs -> Epochs \cup {Null}]
        /\ waddw_epoch \in [Objs -> Epochs \cup {Null}]
        /\ \A u \in Users : u \in Threads
        /\ ref \in [Threads -> Epochs \cup {Null}]
        /\ epmem \in [Epochs -> {"unused", "live", "freed"}]
        /\ \A t \in Threads : pc[t] \in BusyPcs => data[t] \in Objs
    BY NullAssumption DEF TypeInv, TypeOK, Threads, DataTyped
  <1>2. ASSUME epmem[ep] = "live",
               \A o \in Objs : e[o] = ep => Owned(ep)',
               \A u \in Users : ref[u] = ep => Owned(ep)',
               \A o \in Objs : waddw_epoch[o] = ep => Owned(ep)',
               \A o \in Objs : InQueue(wq[o]) => Owned(ep)'
        PROVE  Owned(ep)'
    BY <1>2 DEF AllOwned, Owned
  <1>3. ASSUME NEW o \in Objs, InQueue(wq'[o]) PROVE Owned(ep)'
    BY <1>3 DEF Owned
  <1>4. ASSUME UNCHANGED <<e, waddw_epoch, wq, epmem>>, \A u \in Users : ref'[u] = ref[u]
        PROVE  Owned(ep)'
    BY <1>4 DEF AllOwned, Owned
  <1>5. ASSUME NEW u \in Users, UserNext(u)
        PROVE  Owned(ep)'
    <2>1. UNCHANGED <<wq, epmem>> /\ \A v \in Users : v # u => ref'[v] = ref[v]
      <3>1. CASE DestroyDevices(u)
        BY <3>1 DEF DestroyDevices, wqvars, epvars
      <3>2. CASE ~DestroyDevices(u)
        BY <1>1, <1>5, <3>2, UserFrame DEF Others, epvars
      <3>3. QED
        BY <3>1, <3>2
    <2>2. CASE CleanupTake(u)
      <3>1. /\ data[u] \in Objs /\ ref[u] = Null
            /\ ref' = [ref EXCEPT ![u] = e[data[u]]]
            /\ e' = [e EXCEPT ![data[u]] = Null]
            /\ waddw_epoch' = waddw_epoch
        BY <1>1, <2>2 DEF CleanupTake, BusyPcs, WayInv, HandedOver, waddwvars
      <3>2. \A o \in Objs : e[o] = ep => Owned(ep)'
        <4>1. CASE e[data[u]] = ep
          BY <1>1, <3>1, <4>1 DEF Owned
        <4>2. CASE e[data[u]] # ep
          BY <1>1, <3>1, <4>2 DEF Owned
        <4>3. QED
          BY <4>1, <4>2
      <3>3. \A v \in Users : ref[v] = ep => Owned(ep)'
        BY <1>1, <2>1, <3>1 DEF Owned
      <3>4. QED
        BY <1>2, <2>1, <3>1, <3>2, <3>3 DEF Owned
    <2>3. CASE CleanupDefer(u)
      <3>1. /\ data[u] \in Objs /\ waddw_epoch[data[u]] = Null
            /\ ref' = [ref EXCEPT ![u] = Null]
            /\ waddw_epoch' = [waddw_epoch EXCEPT ![data[u]] = ref[u]]
            /\ e' = e
        BY <1>1, <2>3 DEF CleanupDefer, BusyPcs, WayInv, NotDeferred, objvars
      <3>2. \A v \in Users : ref[v] = ep => Owned(ep)'
        <4>1. CASE ref[u] = ep
          BY <1>1, <3>1, <4>1 DEF Owned
        <4>2. CASE ref[u] # ep
          BY <1>1, <2>1, <4>2 DEF Owned
        <4>3. QED
          BY <4>1, <4>2
      <3>3. \A o \in Objs : waddw_epoch[o] = ep => Owned(ep)'
        BY <1>1, <3>1 DEF Owned
      <3>4. QED
        BY <1>2, <2>1, <3>1, <3>2, <3>3 DEF Owned
    <2>4. CASE ~CleanupTake(u) /\ ~CleanupDefer(u)
      <3>1. UNCHANGED <<e, waddw_epoch>> /\ (ref' = ref \/ ref' = [ref EXCEPT ![u] = Null])
        BY <1>5, <2>4
           DEF UserNext, RegisterInit, RegisterInsert, RegisterFails, UnregisterLookup,
               UnregisterRemove, CleanupLock, CleanupMark, CleanupDeferFails, CleanupList,
               DestroyDevices, FlushWorklist, Return, objvars, waddwvars
      <3>2. ref' = ref \/ ref[u] = Null
        BY <1>5, <2>4
           DEF UserNext, RegisterInit, RegisterInsert, RegisterFails, UnregisterLookup,
               UnregisterRemove, CleanupLock, CleanupMark, CleanupDeferFails, CleanupList,
               DestroyDevices, FlushWorklist, WayInv, HandedOver
      <3>3. \A v \in Users : ref'[v] = ref[v]
        BY <1>1, <2>1, <3>1, <3>2
      <3>4. QED
        BY <1>4, <2>1, <3>1, <3>3
    <2>5. QED
      BY <2>2, <2>3, <2>4
  <1>6. ASSUME NEW a \in Admins, AdminNext(a)
        PROVE  Owned(ep)'
    <2>1. waddw_epoch' = waddw_epoch /\ \A v \in Users : ref'[v] = ref[v]
      BY <1>1, <1>6, AdminFrame, ThreadsAssumption DEF Others, waddwvars
    <2>2. ASSUME NEW k \in Epochs, AllocEpoch(a, k)
          PROVE  Owned(ep)'
      <3>1. /\ data[a] \in Objs /\ e[data[a]] = Null
            /\ e' = [e EXCEPT ![data[a]] = k] /\ wq' = wq
            /\ epmem' = [epmem EXCEPT ![k] = "live"]
        BY <1>1, <2>2 DEF AllocEpoch, BusyPcs, RcuPcs, Threads, WayInv, AllocEmpty, wqvars
      <3>2. CASE ep = k
        BY <1>1, <3>1, <3>2 DEF Owned
      <3>3. CASE ep # k
        <4>1. epmem[ep] = "live"
          BY <1>1, <3>1, <3>3
        <4>2. \A o \in Objs : e[o] = ep => Owned(ep)'
          BY <1>1, <3>1 DEF Owned
        <4>3. QED
          BY <1>2, <2>1, <3>1, <4>1, <4>2 DEF Owned
      <3>4. QED
        BY <3>2, <3>3
    <2>3. CASE CountUmount(a) /\ EndsEpoch(data[a])
      <3> DEFINE o == data[a]
      <3>1. /\ o \in Objs /\ e[o] \in Epochs /\ epmem' = epmem
            /\ e' = [e EXCEPT ![o] = Null]
            /\ wq' = [wq EXCEPT ![o] = Append(@, CleanupWork(e[o]))]
        BY <1>1, <2>3 DEF CountUmount, EndsEpoch, BusyPcs, RcuPcs, Threads
      <3>2. CleanupWork(e[o]) \in Works
        BY <3>1 DEF CleanupWork, Works
      <3> HIDE DEF o
      <3>3. wq'[o] = Append(wq[o], CleanupWork(e[o])) /\ \A p \in Objs : p # o => wq'[p] = wq[p]
        BY <1>1, <3>1
      <3>4. wq[o] \in Seq(Works)
        BY <1>1, <3>1
      <3>5. ASSUME NEW p \in Objs, InQueue(wq[p]) PROVE Owned(ep)'
        <4>1. CASE p = o
          <5>1. PICK i \in Nat : IsCleanup(wq[o], i) /\ wq[o][i].ep = ep
            BY <3>5, <4>1
          <5>2. /\ IsCleanup(Append(wq[o], CleanupWork(e[o])), i)
                /\ Append(wq[o], CleanupWork(e[o]))[i] = wq[o][i]
            BY <3>2, <3>4, <5>1, QueueMoves
          <5>3. QED
            BY <1>3, <3>1, <3>3, <5>1, <5>2
        <4>2. CASE p # o
          BY <1>3, <3>3, <3>5, <4>2
        <4>3. QED
          BY <4>1, <4>2
      <3>6. ASSUME NEW p \in Objs, e[p] = ep PROVE Owned(ep)'
        <4>1. CASE p = o
          <5>1. /\ Len(wq[o]) + 1 \in Nat
                /\ IsCleanup(wq'[o], Len(wq[o]) + 1)
                /\ wq'[o][Len(wq[o]) + 1].ep = ep
            BY <3>3, <3>4, <3>6, <4>1, QueueMoves
          <5>2. QED
            BY <1>3, <3>1, <5>1
        <4>2. CASE p # o
          BY <1>1, <3>1, <3>6, <4>2 DEF Owned
        <4>3. QED
          BY <4>1, <4>2
      <3>7. QED
        BY <1>2, <2>1, <3>1, <3>5, <3>6 DEF Owned
    <2>4. CASE ~(CountUmount(a) /\ EndsEpoch(data[a])) /\ ~\E k \in Epochs : AllocEpoch(a, k)
      <3>1. UNCHANGED <<e, wq, epmem>>
        BY <1>6, <2>4 DEF AdminNext, MountCall, UmountCall, EventLookup, EventLock,
               AllocEpochFails, CountMount, CountUmount, objvars, wqvars, epvars
      <3>2. QED
        BY <1>4, <2>1, <3>1
    <2>5. QED
      BY <2>2, <2>3, <2>4
  <1>7. ASSUME NEW w \in Writers, WriterNext(w)
        PROVE  Owned(ep)'
    <2>1. /\ UNCHANGED <<e, epmem, waddw_epoch>> /\ \A v \in Users : ref'[v] = ref[v]
          /\ \/ wq' = wq
             \/ /\ pc[w] = "w_date"
                /\ \E d \in BOOLEAN :
                     wq' = [wq EXCEPT ![data[w]] = Append(@, SnapWork(ref[w], d))]
      BY <1>1, <1>7, WriterFrame, ThreadsAssumption DEF Others, epvars, waddwvars
    <2>2. ASSUME pc[w] = "w_date", NEW d \in BOOLEAN,
                 wq' = [wq EXCEPT ![data[w]] = Append(@, SnapWork(ref[w], d))]
          PROVE  Owned(ep)'
      <3>1. data[w] \in Objs /\ SnapWork(ref[w], d) \in Works
        BY <1>1, <2>2 DEF BusyPcs, RcuPcs, Threads, TypeInv, RefTyped, SnapWork, Works
      <3>2. /\ wq'[data[w]] = Append(wq[data[w]], SnapWork(ref[w], d))
            /\ wq[data[w]] \in Seq(Works)
            /\ \A p \in Objs : p # data[w] => wq'[p] = wq[p]
        BY <1>1, <2>2, <3>1
      <3>3. ASSUME NEW p \in Objs, InQueue(wq[p]) PROVE Owned(ep)'
        <4>1. CASE p = data[w]
          <5>1. PICK i \in Nat : IsCleanup(wq[data[w]], i) /\ wq[data[w]][i].ep = ep
            BY <3>3, <4>1
          <5>2. /\ IsCleanup(Append(wq[data[w]], SnapWork(ref[w], d)), i)
                /\ Append(wq[data[w]], SnapWork(ref[w], d))[i] = wq[data[w]][i]
            BY <3>1, <3>2, <5>1, QueueMoves, ZenonT(40)
          <5>3. QED
            BY <1>3, <3>1, <3>2, <5>1, <5>2
        <4>2. CASE p # data[w]
          BY <1>3, <3>2, <3>3, <4>2
        <4>3. QED
          BY <4>1, <4>2
      <3>4. QED
        BY <1>2, <2>1, <3>3 DEF Owned
    <2>3. QED
      BY <1>4, <2>1, <2>2
  <1>8. ASSUME NEW o \in Objs, KernelNext(o)
        PROVE  Owned(ep)'
    <2>1. e' = e /\ ref' = ref
      BY <1>8, KernelFrame DEF thrvars
    <2>2. CASE FreeObject(o) \/ WaddwDestroy(o)
      BY <1>4, <2>1, <2>2 DEF FreeObject, WaddwDestroy, wqvars, epvars, waddwvars
    <2>3. CASE RunSnapshot(o) \/ RunCleanupEpoch(o)
      <3>1. /\ wq[o] # <<>> /\ wq' = [wq EXCEPT ![o] = Tail(@)]
            /\ waddw_epoch' = waddw_epoch
            /\ \/ Head(wq[o]).kind = "snap" /\ epmem' = epmem
               \/ epmem' = [epmem EXCEPT ![Head(wq[o]).ep] = "freed"]
        BY <2>3 DEF RunSnapshot, RunCleanupEpoch, epvars, waddwvars
      <3>2. /\ wq[o] \in Seq(Works) /\ wq'[o] = Tail(wq[o])
            /\ \A p \in Objs : p # o => wq'[p] = wq[p]
        BY <1>1, <3>1
      <3>3. Head(wq[o]) = wq[o][1]
        BY <3>1, <3>2
      <3>4. epmem[ep] = "live" /\ ~(IsCleanup(wq[o], 1) /\ wq[o][1].ep = ep)
        BY <1>1, <3>1, <3>3 DEF IsCleanup
      <3>5. ASSUME NEW p \in Objs, InQueue(wq[p]) PROVE Owned(ep)'
        <4>1. CASE p = o
          <5>1. PICK i \in Nat : IsCleanup(wq[o], i) /\ wq[o][i].ep = ep
            BY <3>5, <4>1
          <5>2. i # 1
            BY <3>4, <5>1
          <5>3. i - 1 \in Nat /\ IsCleanup(wq'[o], i - 1) /\ wq'[o][i - 1] = wq[o][i]
            <6>1. i - 1 \in Nat /\ IsCleanup(Tail(wq[o]), i - 1) /\ Tail(wq[o])[i - 1] = wq[o][i]
              BY <3>1, <3>2, <5>1, <5>2, QueueMoves
            <6>2. QED
              BY <3>2, <6>1
          <5>4. QED
            BY <1>3, <5>1, <5>3
        <4>2. CASE p # o
          BY <1>3, <3>2, <3>5, <4>2
        <4>3. QED
          BY <4>1, <4>2
      <3>6. QED
        BY <1>2, <2>1, <3>1, <3>4, <3>5 DEF Owned
    <2>4. CASE WaddwEpoch(o)
      <3>1. /\ wq' = wq
            /\ epmem' = [k \in Epochs |-> IF k = waddw_epoch[o] THEN "freed" ELSE epmem[k]]
            /\ waddw_epoch' = [waddw_epoch EXCEPT ![o] = Null]
        BY <2>4 DEF WaddwEpoch, wqvars
      <3>2. epmem[ep] = "live" /\ ep # waddw_epoch[o]
        BY <1>1, <3>1
      <3>3. \A p \in Objs : waddw_epoch[p] = ep => Owned(ep)'
        BY <1>1, <3>1, <3>2 DEF Owned
      <3>4. QED
        BY <1>2, <2>1, <3>1, <3>2, <3>3 DEF Owned
    <2>5. QED
      BY <1>8, <2>2, <2>3, <2>4 DEF KernelNext
  <1>9. ASSUME Rest \/ UNCHANGED vars
        PROVE  Owned(ep)'
    BY <1>4, <1>9 DEF Rest, vars, objvars, wqvars, epvars, waddwvars, thrvars
  <1>10. QED
    BY <1>5, <1>6, <1>7, <1>8, <1>9 DEF Next

\* NoLostEpoch: when no allocation fails, an epoch that has been allocated and not
\* freed is held by something, at every moment of its way from the object to the
\* umount's cleanup work or to the deferred destruction of the workqueue, with
\* events and deactivations in any order.  What holds it may be an object that has
\* been cleaned up already, when the mount event that allocated it found the object
\* before: then nobody frees it.  The theorem is about the hand-over and does not
\* say that every epoch is freed in the end.
THEOREM EpochsNotLost ==
  ASSUME ~AllocMayFail
  PROVE  Spec => []NoLostEpoch
  <1>1. Init => AllOwned
    BY DEF Init, AllOwned
  <1>2. IInv /\ WayInv /\ AllOwned /\ [Next]_vars => WayInv' /\ AllOwned'
    BY WayStep, OwnedStep DEF IInv
  <1>3. IInv /\ AllOwned => NoLostEpoch
    BY OwnedHasOwner DEF IInv, AllOwned, NoLostEpoch
  <1>4. QED
    BY <1>1, <1>2, <1>3, InitWay, Invariance, PTL DEF Spec


-----------------------------------------------------------------------------
(* Nothing outlives the module.                                            *)

LEMMA AloneStep == TypeInv /\ UnloadAlone /\ [Next]_vars => UnloadAlone'
  <1> SUFFICES ASSUME TypeInv, UnloadAlone, [Next]_vars PROVE UnloadAlone'
    OBVIOUS
  <1>1. /\ pc \in [Threads -> UserPcs \cup AdminPcs \cup WriterPcs]
        /\ Users \subseteq Threads /\ Admins \subseteq Threads /\ Writers \subseteq Threads
        /\ module \in {"loaded", "destroying", "unloaded"}
    BY DEF TypeInv, TypeOK, Threads
  <1> USE DEF ExitPcs, CleanPcs
  <1>2. ASSUME module = "loaded", module' = "loaded", NEW t \in Threads, Others(t),
               pc'[t] # "x_flush"
        PROVE  UnloadAlone'
    BY <1>1, <1>2 DEF UnloadAlone, Others
  <1>3. ASSUME module # "loaded", module' = module, ht' = Null, worklist' = worklist,
               NEW t \in Users, Others(t), pc[t] \in ExitPcs, pc'[t] \in ExitPcs
        PROVE  UnloadAlone'
    <2>1. \A s \in Threads : s # t => pc'[s] = "idle"
      BY <1>1, <1>3 DEF UnloadAlone, Others
    <2>2. module' # "unloaded"
      BY <1>1, <1>3 DEF UnloadAlone
    <2>3. QED
      BY <1>1, <1>3, <2>1, <2>2 DEF UnloadAlone
  <1>4. ASSUME NEW u \in Users, UserNext(u), ~DestroyDevices(u)
        PROVE  UnloadAlone'
    <2>1. Others(u) /\ u \in Threads
      BY <1>1, <1>4, UserFrame
    <2>2. CASE FlushWorklist(u)
      <3>1. /\ pc[u] = "x_flush" /\ module' = "unloaded" /\ worklist' = {} /\ ht' = ht
            /\ pc'[u] = "idle"
        BY <1>1, <2>1, <2>2 DEF FlushWorklist, Return, objvars
      <3>2. module = "destroying" /\ ht = Null
        BY <1>1, <3>1 DEF UnloadAlone
      <3>3. \A s \in Threads : pc'[s] = "idle"
        BY <2>1, <3>1, <3>2 DEF UnloadAlone, Others
      <3>4. QED
        BY <3>1, <3>2, <3>3 DEF UnloadAlone
    <2>3. CASE CleanupList(u)
      <3>1. /\ pc[u] = "c_list" /\ module' = module /\ ht' = ht
            /\ pc'[u] = IF module = "destroying" THEN "x_flush" ELSE "idle"
        BY <1>1, <2>1, <2>3 DEF CleanupList, Goto
      <3>2. CASE module = "loaded"
        BY <1>2, <2>1, <3>1, <3>2
      <3>3. CASE module # "loaded"
        <4>1. module = "destroying" /\ ht = Null
          BY <1>1, <2>1, <3>1, <3>3 DEF UnloadAlone
        <4>2. \A s \in Threads : s # u => pc'[s] = "idle"
          BY <2>1, <3>1, <3>3 DEF UnloadAlone, Others
        <4>3. QED
          BY <1>1, <3>1, <4>1, <4>2 DEF UnloadAlone
      <3>4. QED
        BY <3>2, <3>3
    <2>4. CASE CleanupLock(u) \/ CleanupMark(u) \/ CleanupTake(u) \/ CleanupDefer(u)
               \/ CleanupDeferFails(u)
      <3>1. /\ pc[u] \in CleanPcs /\ pc'[u] \in CleanPcs /\ module' = module /\ ht' = ht
            /\ worklist' = worklist
        BY <1>1, <2>1, <2>4 DEF CleanupLock, CleanupMark, CleanupTake, CleanupDefer,
               CleanupDeferFails, Goto, objvars, waddwvars
      <3>2. CASE module = "loaded"
        BY <1>2, <2>1, <3>1, <3>2
      <3>3. CASE module # "loaded"
        BY <1>3, <2>1, <3>1, <3>3 DEF UnloadAlone
      <3>4. QED
        BY <3>2, <3>3
    <2>5. CASE \/ (\E o \in Objs : RegisterInit(u, o)) \/ RegisterInsert(u) \/ RegisterFails(u)
               \/ UnregisterLookup(u) \/ UnregisterRemove(u)
      <3>1. /\ module = "loaded" \/ pc[u] \in {"r_insert", "d_remove"}
            /\ module' = module /\ pc'[u] # "x_flush"
        BY <1>1, <2>1, <2>5 DEF RegisterInit, RegisterInsert, RegisterFails,
               UnregisterLookup, UnregisterRemove, Goto, Return
      <3>2. module = "loaded"
        BY <2>1, <3>1 DEF UnloadAlone
      <3>3. QED
        BY <1>2, <2>1, <3>1, <3>2
    <2>6. QED
      BY <1>4, <2>2, <2>3, <2>4, <2>5 DEF UserNext
  <1>5. ASSUME NEW u \in Users, DestroyDevices(u)
        PROVE  UnloadAlone'
    BY <1>1, <1>5 DEF DestroyDevices, UnloadAlone
  <1>6. ASSUME NEW t \in Admins \cup Writers, Others(t), module' = module,
               pc'[t] # "x_flush", module = "loaded" \/ pc[t] # "idle"
        PROVE  UnloadAlone'
    <2>1. t \in Threads /\ t \notin Users
      BY ThreadsAssumption DEF Threads
    <2>2. module = "loaded"
      BY <1>6, <2>1 DEF UnloadAlone
    <2>3. QED
      BY <1>2, <1>6, <2>1, <2>2
  <1>7. ASSUME NEW a \in Admins, AdminNext(a)
        PROVE  UnloadAlone'
    <2>1. Others(a) /\ module' = module /\ pc'[a] \in AdminPcs
      BY <1>7, AdminFrame
    <2>2. module = "loaded" \/ pc[a] # "idle"
      BY <1>7 DEF AdminNext, MountCall, UmountCall, EventLookup, EventLock, AllocEpoch,
             AllocEpochFails, CountMount, CountUmount
    <2>3. QED
      BY <1>6, <2>1, <2>2 DEF AdminPcs
  <1>8. ASSUME NEW w \in Writers, WriterNext(w)
        PROVE  UnloadAlone'
    <2>1. Others(w) /\ module' = module /\ pc'[w] \in WriterPcs
      BY <1>8, WriterFrame
    <2>2. module = "loaded" \/ pc[w] # "idle"
      BY <1>8 DEF WriterNext, SearchDevice, CheckValid, MakeLock, QueueCheck, QueueLoad,
             QueueAllocFails, QueueWork
    <2>3. QED
      BY <1>6, <2>1, <2>2 DEF WriterPcs
  <1>9. ASSUME (\E o \in Objs : KernelNext(o)) \/ Rest \/ UNCHANGED vars
        PROVE  UnloadAlone'
    BY <1>9, KernelFrame DEF Rest, vars, objvars, waddwvars, thrvars, UnloadAlone
  <1>10. QED
    BY <1>4, <1>5, <1>7, <1>8, <1>9 DEF Next


\* The object that leaves the table is known to the thread that removed it
\* until its destruction has been announced.
LEMMA FindableStep ==
  TypeInv /\ ObjInv /\ QueueInv /\ Findable /\ [Next]_vars => Findable'
  <1> SUFFICES ASSUME TypeInv, ObjInv, QueueInv, Findable, [Next]_vars,
                      NEW o \in Objs, mem'[o] # "unused", ~wq_is_destroyed'[o]
               PROVE  \/ o = ht'
                      \/ \E u \in Users : /\ pc'[u] \in CleanPcs \cup {"r_insert"}
                                          /\ data'[u] = o
    BY DEF Findable
  <1> DEFINE Known == \/ o = ht'
                      \/ \E u \in Users : /\ pc'[u] \in CleanPcs \cup {"r_insert"}
                                          /\ data'[u] = o
  <1>1. /\ pc \in [Threads -> UserPcs \cup AdminPcs \cup WriterPcs]
        /\ data \in [Threads -> Objs \cup {Null}]
        /\ wq_is_destroyed \in [Objs -> BOOLEAN]
        /\ mem \in [Objs -> {"unused", "live", "dying", "freed"}]
        /\ \A u \in Users : u \in Threads /\ u \notin Admins /\ u \notin Writers
        /\ \A u \in Users : pc[u] \in BusyPcs => data[u] \in Objs
    BY ThreadsAssumption DEF TypeInv, TypeOK, Threads, DataTyped
  <1>2. ASSUME mem[o] # "unused", ~wq_is_destroyed[o], o = ht => Known,
               \A u \in Users : pc[u] \in CleanPcs \cup {"r_insert"} /\ data[u] = o => Known
        PROVE  Known
    BY <1>2 DEF Findable
  <1>3. ASSUME mem' = mem, wq_is_destroyed' = wq_is_destroyed, ht' = ht,
               \A u \in Users : pc'[u] = pc[u] /\ data'[u] = data[u]
        PROVE  Known
    BY <1>2, <1>3
  <1>4. ASSUME NEW u \in Users, UserNext(u)
        PROVE  Known
    <2>1. ASSUME ~DestroyDevices(u)
          PROVE  \A v \in Users : v # u => pc'[v] = pc[v] /\ data'[v] = data[v]
      BY <1>1, <1>4, <2>1, UserFrame DEF Others
    <2>2. ASSUME ~DestroyDevices(u), mem[o] # "unused", ~wq_is_destroyed[o],
                 o = ht => Known,
                 pc[u] \in CleanPcs \cup {"r_insert"} /\ data[u] = o => Known
          PROVE  Known
      BY <1>2, <2>1, <2>2
    <2>3. ASSUME NEW p \in Objs, RegisterInit(u, p)
          PROVE  Known
      <3>1. /\ pc[u] = "idle" /\ ht' = ht /\ wq_is_destroyed' = wq_is_destroyed
            /\ mem' = [mem EXCEPT ![p] = "live"]
            /\ pc'[u] = "r_insert" /\ data'[u] = p /\ ~DestroyDevices(u)
        BY <1>1, <2>3 DEF RegisterInit, Goto, DestroyDevices
      <3>2. CASE p = o
        BY <3>1, <3>2
      <3>3. CASE p # o
        BY <1>1, <2>2, <3>1, <3>3 DEF CleanPcs
      <3>4. QED
        BY <3>2, <3>3
    <2>4. CASE RegisterInsert(u)
      <3>1. /\ pc[u] = "r_insert" /\ ht = Null /\ ht' = data[u] /\ UNCHANGED <<mem, wq_is_destroyed>>
            /\ module' = module
        BY <2>4 DEF RegisterInsert
      <3>2. ~DestroyDevices(u)
        BY <1>1, <3>1 DEF DestroyDevices
      <3>3. o # ht
        BY <3>1, NullAssumption
      <3>4. QED
        BY <2>2, <3>1, <3>2, <3>3
    <2>5. CASE RegisterFails(u)
      <3>1. /\ pc[u] = "r_insert" /\ ht' = ht /\ data[u] \in Objs
            /\ wq_is_destroyed' = [wq_is_destroyed EXCEPT ![data[u]] = TRUE]
            /\ mem' = [mem EXCEPT ![data[u]] = "freed"]
        BY <1>1, <2>5 DEF RegisterFails, BusyPcs
      <3>2. o # data[u] /\ mem[o] # "unused" /\ ~wq_is_destroyed[o] /\ ~DestroyDevices(u)
        BY <1>1, <3>1 DEF DestroyDevices
      <3>3. QED
        BY <2>2, <3>1, <3>2
    <2>6. CASE UnregisterLookup(u) \/ FlushWorklist(u)
      <3>1. /\ pc[u] \in {"idle", "x_flush"} /\ UNCHANGED <<ht, mem, wq_is_destroyed>>
            /\ ~DestroyDevices(u)
        BY <2>6 DEF UnregisterLookup, FlushWorklist, DestroyDevices, objvars
      <3>2. QED
        BY <2>2, <3>1 DEF CleanPcs
    <2>7. CASE UnregisterRemove(u)
      <3>1. /\ pc[u] = "d_remove" /\ UNCHANGED <<mem, wq_is_destroyed>> /\ ~DestroyDevices(u)
            /\ \/ /\ ht = data[u] /\ pc'[u] = "c_lock" /\ data' = data
               \/ ht' = ht
        BY <1>1, <2>7 DEF UnregisterRemove, DestroyDevices, Goto
      <3>2. QED
        BY <2>2, <3>1 DEF CleanPcs
    <2>8. CASE CleanupLock(u) \/ CleanupMark(u) \/ CleanupTake(u) \/ CleanupDefer(u)
               \/ CleanupDeferFails(u)
      <3>1. /\ pc[u] \in CleanPcs /\ pc'[u] \in CleanPcs /\ data' = data /\ data[u] \in Objs
            /\ UNCHANGED <<ht, mem>>
            /\ \/ wq_is_destroyed' = wq_is_destroyed
               \/ wq_is_destroyed' = [wq_is_destroyed EXCEPT ![data[u]] = TRUE]
        BY <1>1, <2>8 DEF CleanupLock, CleanupMark, CleanupTake, CleanupDefer, CleanPcs,
               CleanupDeferFails, Goto, objvars, BusyPcs
      <3>2. ~wq_is_destroyed[o] /\ ~DestroyDevices(u)
        BY <1>1, <3>1 DEF DestroyDevices, CleanPcs
      <3>3. QED
        BY <2>2, <3>1, <3>2
    <2>9. CASE CleanupList(u)
      <3>1. /\ pc[u] = "c_list" /\ data[u] \in Objs
            /\ UNCHANGED <<ht, wq_is_destroyed>>
            /\ mem' = [mem EXCEPT ![data[u]] = "dying"]
        BY <1>1, <2>9 DEF CleanupList, BusyPcs
      <3>2. wq_is_destroyed[data[u]] /\ mem[data[u]] # "unused" /\ ~DestroyDevices(u)
        BY <1>1, <3>1 DEF QueueInv, MarkedFirst, ObjInv, CleanerAlone, CleanPcs,
               DestroyDevices
      <3>3. mem[o] # "unused" /\ o # data[u] /\ ~wq_is_destroyed[o]
        BY <1>1, <3>1, <3>2
      <3>4. QED
        BY <2>2, <3>1, <3>2, <3>3
    <2>10. CASE DestroyDevices(u)
      <3>1. /\ \A v \in Users : pc[v] \in {"idle", "m_lookup", "u_lookup"}
            /\ UNCHANGED <<mem, wq_is_destroyed>>
            /\ ht # Null => pc'[u] = "c_lock" /\ data'[u] = ht
        BY <1>1, <2>10 DEF DestroyDevices
      <3>2. o = ht
        BY <3>1 DEF Findable, CleanPcs
      <3>3. QED
        BY <3>1, <3>2, NullAssumption DEF CleanPcs
    <2>11. QED
      BY <1>4, <2>3, <2>4, <2>5, <2>6, <2>7, <2>8, <2>9, <2>10 DEF UserNext
  <1>5. ASSUME NEW a \in Admins, AdminNext(a)
        PROVE  Known
    BY <1>1, <1>3, <1>5, AdminFrame DEF Others
  <1>6. ASSUME NEW w \in Writers, WriterNext(w)
        PROVE  Known
    BY <1>1, <1>3, <1>6, WriterFrame DEF Others
  <1>7. ASSUME NEW p \in Objs, KernelNext(p)
        PROVE  Known
    <2>1. UNCHANGED <<ht, wq_is_destroyed, pc, data>>
      BY <1>7, KernelFrame DEF thrvars
    <2>2. mem[o] # "unused"
      BY <1>1, <1>7 DEF KernelNext, FreeObject, RunSnapshot, RunCleanupEpoch, WaddwDestroy,
             WaddwEpoch, objvars
    <2>3. QED
      BY <1>2, <2>1, <2>2
  <1>8. ASSUME Rest \/ UNCHANGED vars
        PROVE  Known
    BY <1>3, <1>8 DEF Rest, vars, objvars, thrvars
  <1>9. QED
    BY <1>4, <1>5, <1>6, <1>7, <1>8 DEF Next


\* Works are queued only where somebody will destroy the queue.
LEMMA QueuersKnown ==
  ASSUME TypeInv, ObjInv, QueueInv, Findable, NEW t \in Admins \cup Writers,
         pc[t] \in RcuPcs, ~wq_is_destroyed[data[t]]
  PROVE  data[t] \in Objs /\ Pursued(data[t])
  <1>1. t \in Threads /\ t \notin Users /\ data[t] \in Objs /\ mem[data[t]] # "unused"
    BY ThreadsAssumption
       DEF Threads, TypeInv, DataTyped, BusyPcs, ObjInv, ReaderSafe
  <1>2. ASSUME NEW u \in Users, pc[u] = "r_insert" PROVE data[u] # data[t]
    BY <1>1, <1>2 DEF ObjInv, NewInvisible
  <1>3. QED
    BY <1>1, <1>2 DEF Findable, Pursued

LEMMA ForgottenStep ==
  ASSUME ~AllocMayFail
  PROVE  TypeInv /\ ObjInv /\ QueueInv /\ WayInv /\ UnloadInv /\ [Next]_vars
             => NothingForgotten'
  <1> SUFFICES ASSUME TypeInv, ObjInv, QueueInv, WayInv, UnloadInv, [Next]_vars
               PROVE  NothingForgotten'
    OBVIOUS
  <1> DEFINE Settled == \A o \in Objs : waddw[o] \in {"epoch", "done"} => wqmem[o] = "destroyed"
             Listed == \A u \in Users : pc[u] = "c_list" => waddw[data[u]] # "none"
  <1>1. /\ pc \in [Threads -> UserPcs \cup AdminPcs \cup WriterPcs]
        /\ data \in [Threads -> Objs \cup {Null}]
        /\ waddw \in [Objs -> {"none", "flush", "epoch", "done"}]
        /\ wqmem \in [Objs -> {"none", "alive", "destroyed"}]
        /\ wq \in [Objs -> Seq(Works)]
        /\ \A u \in Users : u \in Threads /\ u \notin Admins /\ u \notin Writers
        /\ \A t \in Threads : pc[t] \in BusyPcs => data[t] \in Objs
    BY ThreadsAssumption DEF TypeInv, TypeOK, Threads, DataTyped
  <1>2. Settled /\ Listed /\ \A o \in Objs : Unfinished(o) => Pursued(o)
    BY DEF UnloadInv, NothingForgotten
  <1>3. \A o \in Objs : waddw[o] = "done" => ~Unfinished(o)
    BY <1>1, <1>2 DEF QueueInv, DestroyedEmpty, Unfinished
  <1>4. ASSUME wq' = wq, waddw' = waddw, wqmem' = wqmem, ht' = ht, worklist' = worklist,
               \A u \in Users : pc'[u] = pc[u] /\ data'[u] = data[u]
        PROVE  NothingForgotten'
    BY <1>2, <1>4 DEF NothingForgotten, Unfinished, Pursued
  <1> HIDE DEF Settled, Listed
  <1>5. ASSUME NEW u \in Users, UserNext(u), ~DestroyDevices(u)
        PROVE  NothingForgotten'
    <2>1. wq' = wq /\ \A v \in Users : v # u => pc'[v] = pc[v] /\ data'[v] = data[v]
      BY <1>1, <1>5, UserFrame DEF Others
    <2>2. ASSUME NEW o \in Objs, Unfinished(o), o # data[u] \/ pc[u] \notin CleanPcs,
                 ht' = ht \/ ht = Null \/ (ht = data[u] /\ pc'[u] \in CleanPcs /\ data' = data),
                 \A x \in worklist : x \in worklist' \/ waddw[x] = "done"
          PROVE  Pursued(o)'
      <3>1. CASE o = ht
        BY <2>2, <3>1, NullAssumption DEF Pursued
      <3>2. CASE \E v \in Users : pc[v] \in CleanPcs /\ data[v] = o
        BY <2>1, <2>2, <3>2 DEF Pursued
      <3>3. CASE o \in worklist
        BY <1>3, <2>2, <3>3 DEF Pursued
      <3>4. QED
        BY <1>2, <2>2, <3>1, <3>2, <3>3 DEF Pursued
    <2>3. CASE \/ (\E p \in Objs : RegisterInit(u, p)) \/ RegisterInsert(u) \/ RegisterFails(u)
               \/ UnregisterLookup(u) \/ UnregisterRemove(u)
      <3>1. /\ waddw' = waddw /\ worklist' = worklist
            /\ pc[u] \in {"idle", "r_insert", "d_remove"} /\ pc'[u] # "c_list"
            /\ ht' = ht \/ ht = Null \/ (ht = data[u] /\ pc'[u] = "c_lock" /\ data' = data)
        BY <1>1, <2>3 DEF RegisterInit, RegisterInsert, RegisterFails, UnregisterLookup,
               UnregisterRemove, Goto, Return, objvars, waddwvars
      <3>2. \A o \in Objs : wqmem'[o] = wqmem[o] \/ wqmem'[o] = "destroyed" \/ waddw[o] = "none"
        <4>1. ASSUME NEW p \in Objs, RegisterInit(u, p)
              PROVE  wqmem' = [wqmem EXCEPT ![p] = "alive"] /\ waddw[p] = "none"
          BY <1>1, <4>1 DEF RegisterInit, QueueInv, MarkedFirst, WayInv, NotMarked
        <4>2. CASE RegisterFails(u)
          BY <1>1, <4>2 DEF RegisterFails, BusyPcs
        <4>3. CASE RegisterInsert(u) \/ UnregisterLookup(u) \/ UnregisterRemove(u)
          BY <4>3 DEF RegisterInsert, UnregisterLookup, UnregisterRemove, wqvars
        <4>4. QED
          BY <1>1, <2>3, <4>1, <4>2, <4>3
      <3>3. ASSUME NEW o \in Objs, Unfinished(o)' PROVE Pursued(o)'
        <4>1. Unfinished(o)
          BY <2>1, <3>1, <3>3 DEF Unfinished
        <4>2. QED
          BY <2>2, <3>1, <4>1 DEF CleanPcs
      <3>4. \A o \in Objs : waddw'[o] \in {"epoch", "done"} => wqmem'[o] = "destroyed"
        BY <1>2, <3>1, <3>2 DEF Settled
      <3>5. \A v \in Users : pc'[v] = "c_list" => waddw'[data'[v]] # "none"
        BY <1>2, <2>1, <3>1 DEF Listed
      <3>6. QED
        BY <3>3, <3>4, <3>5 DEF NothingForgotten
    <2>4. CASE CleanupLock(u) \/ CleanupMark(u) \/ CleanupTake(u)
      <3>1. /\ pc[u] \in CleanPcs /\ pc'[u] \in CleanPcs /\ pc'[u] # "c_list" /\ data' = data
            /\ UNCHANGED <<ht, waddw, wqmem, worklist>>
        BY <1>1, <2>4 DEF CleanupLock, CleanupMark, CleanupTake, CleanPcs, Goto,
               objvars, wqvars, waddwvars
      <3>2. ASSUME NEW o \in Objs, Unfinished(o)' PROVE Pursued(o)'
        <4>1. Unfinished(o) /\ Pursued(o)
          BY <1>2, <2>1, <3>1, <3>2 DEF Unfinished
        <4>2. QED
          BY <2>1, <3>1, <4>1 DEF Pursued
      <3>3. QED
        BY <1>2, <2>1, <3>1, <3>2 DEF NothingForgotten, Settled, Listed
    <2>5. CASE CleanupDefer(u)
      <3>1. /\ pc[u] = "c_defer" /\ pc'[u] = "c_list" /\ data' = data /\ data[u] \in Objs
            /\ UNCHANGED <<ht, wqmem, worklist>>
            /\ waddw' = [waddw EXCEPT ![data[u]] = "flush"]
        BY <1>1, <2>5 DEF CleanupDefer, Goto, objvars, wqvars, BusyPcs
      <3>2. ASSUME NEW o \in Objs, Unfinished(o)' PROVE Pursued(o)'
        <4>1. CASE o = data[u]
          BY <3>1, <4>1 DEF Pursued, CleanPcs
        <4>2. CASE o # data[u]
          <5>1. Unfinished(o)
            BY <1>1, <2>1, <3>1, <3>2, <4>2 DEF Unfinished
          <5>2. QED
            BY <2>2, <3>1, <4>2, <5>1
        <4>3. QED
          BY <4>1, <4>2
      <3>3. \A o \in Objs : waddw'[o] \in {"epoch", "done"} => wqmem'[o] = "destroyed"
        BY <1>1, <1>2, <3>1 DEF Settled
      <3>4. \A v \in Users : pc'[v] = "c_list" => waddw'[data'[v]] # "none"
        <4>1. ASSUME NEW v \in Users, v # u, pc'[v] = "c_list"
              PROVE  data[v] \in Objs /\ waddw[data[v]] # "none"
          BY <1>1, <1>2, <2>1, <4>1 DEF Listed, BusyPcs
        <4>2. QED
          BY <1>1, <3>1, <4>1
      <3>5. QED
        BY <3>2, <3>3, <3>4 DEF NothingForgotten
    <2>6. CASE CleanupList(u)
      <3>1. /\ pc[u] = "c_list" /\ pc'[u] # "c_list" /\ data[u] \in Objs
            /\ UNCHANGED <<ht, wqmem, waddw>>
            /\ \A x \in worklist \cup {data[u]} :
                  waddw[x] \notin {"done", "none"} \/ (x \in worklist /\ waddw[x] # "done")
                      => x \in worklist'
        BY <1>1, <2>6 DEF CleanupList, Goto, wqvars, BusyPcs
      <3>2. ASSUME NEW o \in Objs, Unfinished(o)' PROVE Pursued(o)'
        <4>1. Unfinished(o)
          BY <2>1, <3>1, <3>2 DEF Unfinished
        <4>2. CASE o = data[u]
          BY <1>2, <1>3, <3>1, <4>1, <4>2 DEF Listed, Pursued
        <4>3. CASE o # data[u]
          BY <2>2, <3>1, <4>1, <4>3
        <4>4. QED
          BY <4>2, <4>3
      <3>3. QED
        BY <1>2, <2>1, <3>1, <3>2 DEF NothingForgotten, Settled, Listed
    <2>7. CASE FlushWorklist(u)
      <3>1. /\ pc[u] = "x_flush" /\ pc'[u] = "idle"
            /\ UNCHANGED <<ht, wqmem, waddw>>
            /\ \A o \in worklist : waddw[o] = "done"
        BY <1>1, <2>7 DEF FlushWorklist, Return, objvars, wqvars
      <3>2. ASSUME NEW o \in Objs, Unfinished(o)' PROVE Pursued(o)'
        <4>1. Unfinished(o)
          BY <2>1, <3>1, <3>2 DEF Unfinished
        <4>2. QED
          BY <2>2, <3>1, <4>1 DEF CleanPcs
      <3>3. QED
        BY <1>2, <2>1, <3>1, <3>2 DEF NothingForgotten, Settled, Listed
    <2>8. QED
      BY <1>5, <2>3, <2>4, <2>5, <2>6, <2>7 DEF UserNext, CleanupDeferFails
  <1>6. ASSUME NEW u \in Users, DestroyDevices(u)
        PROVE  NothingForgotten'
    <2>1. /\ \A v \in Users : pc[v] \in {"idle", "m_lookup", "u_lookup"}
          /\ UNCHANGED <<wq, wqmem, waddw, worklist>>
          /\ \A v \in Users : pc'[v] # "c_list"
          /\ ht # Null => pc'[u] = "c_lock" /\ data'[u] = ht
      BY <1>1, <1>6 DEF DestroyDevices, wqvars, waddwvars
    <2>2. ASSUME NEW o \in Objs, Unfinished(o)' PROVE Pursued(o)'
      <3>1. Unfinished(o)
        BY <2>1, <2>2 DEF Unfinished
      <3>2. o = ht \/ o \in worklist
        BY <1>2, <2>1, <3>1 DEF Pursued, CleanPcs
      <3>3. QED
        BY <2>1, <3>2, NullAssumption DEF Pursued, CleanPcs
    <2>3. QED
      BY <1>2, <2>1, <2>2 DEF NothingForgotten, Settled
  <1>7. ASSUME NEW t \in Admins \cup Writers, Others(t),
               UNCHANGED <<ht, wqmem, waddwvars>>,
               \A o \in Objs : wq'[o] = wq[o] \/ Pursued(o)
        PROVE  NothingForgotten'
    <2>1. \A u \in Users : pc'[u] = pc[u] /\ data'[u] = data[u]
      BY <1>1, <1>7 DEF Others
    <2>2. ASSUME NEW o \in Objs, Unfinished(o)' PROVE Pursued(o)'
      <3>1. Pursued(o)
        BY <1>2, <1>7, <2>2 DEF Unfinished, waddwvars
      <3>2. QED
        BY <1>7, <2>1, <3>1 DEF Pursued, waddwvars
    <2>3. QED
      BY <1>2, <1>7, <2>1, <2>2 DEF NothingForgotten, Settled, Listed, waddwvars
  <1>8. ASSUME NEW a \in Admins, AdminNext(a)
        PROVE  NothingForgotten'
    <2>1. Others(a) /\ UNCHANGED <<ht, wqmem, waddwvars>>
      BY <1>8, AdminFrame
    <2>2. \A o \in Objs : wq'[o] = wq[o] \/ Pursued(o)
      <3>1. CASE CountUmount(a) /\ EndsEpoch(data[a])
        <4>1. /\ pc[a] \in RcuPcs /\ ~wq_is_destroyed[data[a]]
              /\ wq' = wq \/ wq' = [wq EXCEPT ![data[a]] = Append(@, CleanupWork(e[data[a]]))]
          BY <3>1 DEF CountUmount, EndsEpoch, RcuPcs
        <4>2. data[a] \in Objs /\ Pursued(data[a])
          BY <4>1, QueuersKnown DEF UnloadInv
        <4>3. \A o \in Objs : o # data[a] => wq'[o] = wq[o]
          <5>1. CASE wq' = wq
            BY <5>1
          <5>2. CASE wq' = [wq EXCEPT ![data[a]] = Append(@, CleanupWork(e[data[a]]))]
            BY <1>1, <4>2, <5>2
          <5>3. QED
            BY <4>1, <5>1, <5>2
        <4>4. QED
          BY <4>2, <4>3
      <3>2. CASE ~(CountUmount(a) /\ EndsEpoch(data[a]))
        BY <1>8, <3>2 DEF AdminNext, MountCall, UmountCall, EventLookup, EventLock, AllocEpoch,
               AllocEpochFails, CountMount, CountUmount, wqvars
      <3>3. QED
        BY <3>1, <3>2
    <2>3. QED
      BY <1>7, <2>1, <2>2
  <1>9. ASSUME NEW w \in Writers, WriterNext(w)
        PROVE  NothingForgotten'
    <2>1. Others(w) /\ UNCHANGED <<ht, wqmem, waddwvars>>
      BY <1>9, WriterFrame
    <2>2. \A o \in Objs : wq'[o] = wq[o] \/ Pursued(o)
      <3>1. CASE wq' = wq
        BY <3>1
      <3>2. ASSUME pc[w] = "w_date", NEW d \in BOOLEAN,
                   wq' = [wq EXCEPT ![data[w]] = Append(@, SnapWork(ref[w], d))]
            PROVE  \A o \in Objs : wq'[o] = wq[o] \/ Pursued(o)
        <4>1. pc[w] \in RcuPcs /\ ~wq_is_destroyed[data[w]]
          BY <3>2 DEF RcuPcs, ReadPcs, QueueInv, ReaderBeforeMark
        <4>2. data[w] \in Objs /\ Pursued(data[w])
          BY <4>1, QueuersKnown DEF UnloadInv
        <4>3. \A o \in Objs : o # data[w] => wq'[o] = wq[o]
          BY <1>1, <3>2, <4>2
        <4>4. QED
          BY <4>2, <4>3
      <3>3. QED
        BY <1>9, <3>1, <3>2, WriterFrame
    <2>3. QED
      BY <1>7, <2>1, <2>2
  <1>10. ASSUME NEW o \in Objs, KernelNext(o)
         PROVE  NothingForgotten'
    <2>1. UNCHANGED <<ht, worklist, pc, data>>
      BY <1>10, KernelFrame DEF thrvars
    <2>2. CASE FreeObject(o)
      BY <1>4, <2>1, <2>2 DEF FreeObject, wqvars, waddwvars
    <2>3. CASE RunSnapshot(o) \/ RunCleanupEpoch(o)
      <3>1. /\ wq[o] # <<>> /\ UNCHANGED <<waddw, wqmem>>
            /\ wq' = [wq EXCEPT ![o] = Tail(@)]
        BY <2>3 DEF RunSnapshot, RunCleanupEpoch, waddwvars
      <3>2. ASSUME NEW p \in Objs, Unfinished(p)' PROVE Pursued(p)'
        <4>1. Unfinished(p)
          BY <1>1, <3>1, <3>2 DEF Unfinished
        <4>2. QED
          BY <1>2, <2>1, <4>1 DEF Pursued
      <3>3. QED
        BY <1>2, <2>1, <3>1, <3>2 DEF NothingForgotten, Settled, Listed
    <2>4. CASE WaddwDestroy(o) \/ WaddwEpoch(o)
      <3>1. /\ wq' = wq
            /\ \A p \in Objs : p # o => waddw'[p] = waddw[p] /\ wqmem'[p] = wqmem[p]
            /\ waddw[o] \in {"flush", "epoch"} /\ waddw'[o] \in {"epoch", "done"}
            /\ wqmem'[o] = "destroyed"
        <4>1. CASE WaddwDestroy(o)
          BY <1>1, <4>1 DEF WaddwDestroy
        <4>2. CASE WaddwEpoch(o)
          BY <1>1, <1>2, <4>2 DEF WaddwEpoch, wqvars, Settled
        <4>3. QED
          BY <2>4, <4>1, <4>2
      <3>2. ASSUME NEW p \in Objs, Unfinished(p)' PROVE Pursued(p)'
        <4>1. Unfinished(p)
          BY <3>1, <3>2 DEF Unfinished
        <4>2. QED
          BY <1>2, <2>1, <4>1 DEF Pursued
      <3>3. \A p \in Objs : waddw'[p] \in {"epoch", "done"} => wqmem'[p] = "destroyed"
        BY <1>2, <3>1 DEF Settled
      <3>4. \A v \in Users : pc'[v] = "c_list" => waddw'[data'[v]] # "none"
        BY <1>1, <1>2, <2>1, <3>1 DEF Listed, BusyPcs
      <3>5. QED
        BY <3>2, <3>3, <3>4 DEF NothingForgotten
    <2>5. QED
      BY <1>10, <2>2, <2>3, <2>4 DEF KernelNext
  <1>11. ASSUME Rest \/ UNCHANGED vars
         PROVE  NothingForgotten'
    BY <1>4, <1>11 DEF Rest, vars, objvars, wqvars, waddwvars, thrvars
  <1>12. QED
    BY <1>5, <1>6, <1>8, <1>9, <1>10, <1>11 DEF Next

\* NoWorkAfterUnload: when no allocation fails, flushing the listed works is
\* enough for the unload: no work is queued on a device's workqueue or deferred
\* after it, however many devices were removed just before, and whoever was
\* still writing to them.
THEOREM NothingOutlivesModule ==
  ASSUME ~AllocMayFail
  PROVE  Spec => []NoWorkAfterUnload
  <1>1. Init => UnloadInv
    BY DEF Init, UnloadInv, UnloadAlone, Findable, NothingForgotten, Unfinished, Threads
  <1>2. IInv /\ WayInv /\ UnloadInv /\ [Next]_vars => WayInv' /\ UnloadInv'
    BY WayStep, AloneStep, FindableStep, ForgottenStep DEF IInv, UnloadInv
  <1>3. IInv /\ UnloadInv => NoWorkAfterUnload
    <2> SUFFICES ASSUME IInv, UnloadInv, module = "unloaded", NEW o \in Objs
                 PROVE  wq[o] = <<>> /\ waddw[o] \in {"none", "done"}
      BY DEF NoWorkAfterUnload
    <2>1. ht = Null /\ worklist = {} /\ \A u \in Users : pc[u] = "idle"
      BY DEF UnloadInv, UnloadAlone, Threads
    <2>2. ~Pursued(o)
      BY <2>1, NullAssumption DEF Pursued, CleanPcs
    <2>3. waddw[o] \in {"none", "flush", "epoch", "done"}
      BY DEF IInv, TypeInv, TypeOK
    <2>4. QED
      BY <2>2, <2>3 DEF UnloadInv, NothingForgotten, Unfinished
  <1>4. QED
    BY <1>1, <1>2, <1>3, InitWay, Invariance, PTL DEF Spec

=============================================================================
