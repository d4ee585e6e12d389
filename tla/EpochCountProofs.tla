-------------------------- MODULE EpochCountProofs ---------------------------
(***************************************************************************)
(* Proofs about DeviceEpochs as the module is meant to be used: one mount  *)
(* or umount at a time, no lazy umounts, no activation of a device that is *)
(* mounted, and no failing allocation.  Then the counter of an epoch is    *)
(* the number of mounts, and no work or writer uses an epoch that has been *)
(* freed.  The number of threads, mounts, objects and epochs is arbitrary. *)
(***************************************************************************)
EXTENDS EpochLifeProofs, FiniteSetTheorems

-----------------------------------------------------------------------------
(* Events and the counter.                                                 *)

MountPcs == {"m_lookup", "m_lock", "m_alloc", "m_count"}
UmountPcs == {"u_lookup", "u_lock", "u_count"}
FoundPcs == {"m_lock", "m_alloc", "m_count", "u_lock", "u_count"}

MountPending == \E a \in Admins : pc[a] \in MountPcs
UmountPending == \E a \in Admins : pc[a] \in UmountPcs

\* There is one event at a time, it works on the object of the table while
\* there is one, and none comes between an activation and its insertion
EventInv ==
    /\ \A a, b \in Admins : pc[a] # "idle" /\ pc[b] # "idle" => a = b
    /\ \A a \in Admins : pc[a] \in FoundPcs /\ ht # Null => data[a] = ht
    /\ \A u \in Users : pc[u] = "r_insert" => NoEventPending /\ Up = {}
    /\ IsFiniteSet(Up)
    /\ \A ep \in Epochs : epmem[ep] = "unused" => n_currently_mounted[ep] = 0

\* The counter of the active device, while an event is still to be counted.
\* It is 0 only between the allocation of the epoch and its first mount
TableCount ==
    ht # Null =>
        /\ e[ht] = Null =>
               /\ Cardinality(Up) = IF MountPending THEN 1 ELSE 0
               /\ ~UmountPending
        /\ e[ht] # Null =>
               n_currently_mounted[e[ht]] + (IF MountPending THEN 1 ELSE 0) =
                   Cardinality(Up) + (IF UmountPending THEN 1 ELSE 0)
        /\ e[ht] # Null /\ n_currently_mounted[e[ht]] = 0 =>
               \E a \in Admins : pc[a] = "m_count"

\* The counter an umount finds, also when the object was removed meanwhile
UmountCount ==
    \A a \in Admins : pc[a] \in {"u_lock", "u_count"} /\ e[data[a]] # Null =>
        n_currently_mounted[e[data[a]]] = Cardinality(Up) + 1

CountInv == EventInv /\ TableCount /\ UmountCount

-----------------------------------------------------------------------------
(* Writers and works.                                                      *)

\* A mount stays while it is written to, and with it the epoch that the writer
\* has seen under wq_destroy_lock
WriterInv ==
    \A w \in Writers :
        /\ pc[w] # "idle" => at[w] \in Up
        /\ pc[w] \in {"w_load", "w_date"} => e[data[w]] # Null
        /\ pc[w] = "w_date" => ref[w] = e[data[w]]
        /\ pc[w] # "oops"

\* The epoch k of a work at place i of the queue of o is still in the object,
\* or with the thread that takes it from there, or with the deferred work that
\* waits for the queue, or is freed by a work further back in the same queue
SafeWork(o, i, k) ==
    \/ e[o] = k
    \/ \E u \in Users : pc[u] = "c_defer" /\ data[u] = o /\ ref[u] = k
    \/ waddw[o] = "flush" /\ waddw_epoch[o] = k
    \/ \E j \in Nat : j > i /\ IsCleanup(wq[o], j) /\ wq[o][j].ep = k

IsSnap(q, i) == i \in DOMAIN q /\ q[i].kind = "snap"
WorkInv ==
    \A o \in Objs : \A i \in Nat : IsSnap(wq[o], i) => SafeWork(o, i, wq[o][i].ep)

-----------------------------------------------------------------------------
(* The counter, when one admin works alone.                                *)

Alone(a) ==
    /\ \A b \in Admins : b # a => pc[b] = "idle"
    /\ \A u \in Users : pc[u] # "r_insert"

LoneEvent(a) ==
    /\ pc[a] \in FoundPcs /\ ht # Null => data[a] = ht
    /\ IsFiniteSet(Up)
    /\ \A ep \in Epochs : epmem[ep] = "unused" => n_currently_mounted[ep] = 0
    /\ pc[a] \in {"u_lock", "u_count"} /\ e[data[a]] # Null =>
           n_currently_mounted[e[data[a]]] = Cardinality(Up) + 1
LoneTable(a) ==
    ht # Null =>
        /\ e[ht] = Null =>
               /\ Cardinality(Up) = IF pc[a] \in MountPcs THEN 1 ELSE 0
               /\ pc[a] \notin UmountPcs
        /\ e[ht] # Null =>
               n_currently_mounted[e[ht]] + (IF pc[a] \in MountPcs THEN 1 ELSE 0) =
                   Cardinality(Up) + (IF pc[a] \in UmountPcs THEN 1 ELSE 0)
        /\ e[ht] # Null /\ n_currently_mounted[e[ht]] = 0 => pc[a] = "m_count"

LEMMA LonePending ==
  ASSUME NEW a \in Admins, Alone(a)
  PROVE  /\ MountPending <=> pc[a] \in MountPcs
         /\ UmountPending <=> pc[a] \in UmountPcs
         /\ (\E b \in Admins : pc[b] = "m_count") <=> pc[a] = "m_count"
  BY DEF Alone, MountPending, UmountPending, MountPcs, UmountPcs

LEMMA LoneBefore ==
  ASSUME NEW a \in Admins, Alone(a), CountInv
  PROVE  LoneEvent(a) /\ LoneTable(a)
  <1>1. LoneEvent(a)
    BY DEF LoneEvent, CountInv, EventInv, UmountCount
  <1>2. LoneTable(a)
    BY LonePending DEF LoneTable, CountInv, TableCount
  <1>3. QED
    BY <1>1, <1>2

LEMMA LoneAfter ==
  ASSUME NEW a \in Admins, Alone(a)', LoneEvent(a)', LoneTable(a)'
  PROVE  CountInv'
  <1>1. EventInv'
    BY DEF EventInv, LoneEvent, Alone, FoundPcs
  <1>2. UmountCount'
    BY DEF UmountCount, LoneEvent, Alone
  <1>3. /\ MountPending' <=> pc'[a] \in MountPcs
        /\ UmountPending' <=> pc'[a] \in UmountPcs
        /\ (\E b \in Admins : pc'[b] = "m_count") <=> pc'[a] = "m_count"
    BY DEF Alone, MountPending, UmountPending, MountPcs, UmountPcs
  <1>4. TableCount'
    BY <1>3 DEF LoneTable, TableCount
  <1>5. QED
    BY <1>1, <1>2, <1>4 DEF CountInv

\* An event starts alone and no device is being activated then.
LEMMA AdminAlone ==
  ASSUME ~OverlapEvents, ~ActivateMounted, TypeInv, CountInv,
         NEW a \in Admins, AdminNext(a)
  PROVE  Alone(a) /\ Alone(a)'
  <1>1. Alone(a)
    <2>1. CASE pc[a] = "idle"
      <3>1. NoEventPending
        BY <2>1 DEF AdminNext, MountCall, UmountCall, EventLookup, EventLock, AllocEpoch,
                    AllocEpochFails, CountMount, CountUmount
      <3>2. NoActivation \/ \E m \in Mounts : mounts[m] = "up"
        BY <2>1 DEF AdminNext, MountCall, UmountCall, EventLookup, EventLock, AllocEpoch,
                    AllocEpochFails, CountMount, CountUmount
      <3>3. (\E m \in Mounts : mounts[m] = "up") => Up # {}
        BY DEF Up
      <3>4. NoActivation
        BY <3>2, <3>3 DEF NoActivation, CountInv, EventInv
      <3>5. QED
        BY <3>1, <3>4 DEF Alone, NoEventPending, NoActivation
    <2>2. CASE pc[a] # "idle"
      BY <2>2 DEF Alone, CountInv, EventInv, NoEventPending
    <2>3. QED
      BY <2>1, <2>2
  <1>2. \A t \in Admins \cup Users : t # a => pc'[t] = pc[t]
    BY AdminFrame DEF Others, Threads
  <1>3. \A u \in Users : u # a
    BY ThreadsAssumption
  <1>4. QED
    BY <1>1, <1>2, <1>3 DEF Alone

LEMMA UpFinite ==
  ASSUME IsFiniteSet(Up)
  PROVE  /\ Cardinality(Up) \in Nat
         /\ Cardinality(Up) = 0 <=> Up = {}
         /\ \A m : m \notin Up => /\ IsFiniteSet(Up \cup {m})
                                  /\ Cardinality(Up \cup {m}) = Cardinality(Up) + 1
         /\ \A m : m \in Up => /\ IsFiniteSet(Up \ {m})
                               /\ Cardinality(Up \ {m}) = Cardinality(Up) - 1
  BY FS_AddElement, FS_RemoveElement, FS_CardinalityType, FS_EmptySet, Zenon

-----------------------------------------------------------------------------
\* What every mount and umount does to the counter.
LEMMA AdminCount ==
  ASSUME ~OverlapEvents, ~ActivateMounted, ~AllocMayFail
  PROVE  \A a \in Admins : IInv /\ WayInv /\ CountInv /\ AdminNext(a) => CountInv'
  <1> SUFFICES ASSUME NEW a \in Admins, IInv, WayInv, CountInv, AdminNext(a)
               PROVE  CountInv'
    OBVIOUS
  <1>1. /\ a \in Threads
        /\ pc \in [Threads -> UserPcs \cup AdminPcs \cup WriterPcs]
        /\ data \in [Threads -> Objs \cup {Null}]
        /\ ht \in Objs \cup {Null} /\ Null \notin Objs /\ Null \notin Epochs
        /\ e \in [Objs -> Epochs \cup {Null}]
        /\ epmem \in [Epochs -> {"unused", "live", "freed"}]
        /\ n_currently_mounted \in [Epochs -> Nat]
        /\ mounts \in [Mounts -> {"unused", "up", "down"}]
        /\ pc[a] \in BusyPcs => data[a] \in Objs
    BY NullAssumption DEF IInv, TypeInv, TypeOK, DataTyped, Threads
  <1>2. TypeInv /\ Alone(a) /\ Alone(a)'
    BY AdminAlone DEF IInv
  <1>3. LoneEvent(a) /\ LoneTable(a)
    BY <1>2, LoneBefore
  <1>4. SUFFICES LoneEvent(a)' /\ LoneTable(a)'
    BY <1>2, LoneAfter
  <1>5. IsFiniteSet(Up)
    BY <1>3 DEF LoneEvent
  <1>6. Cardinality(Up) \in Nat
    BY <1>5, UpFinite
  <1>7. ht' = ht
    BY <1>2, AdminFrame
  <1>8. mounts' = mounts => Up' = Up
    BY DEF Up
  <1>9. ASSUME NEW m \in Mounts, MountCall(a, m)
        PROVE  LoneEvent(a)' /\ LoneTable(a)'
    <2>1. /\ pc[a] = "idle" /\ pc'[a] = "m_lookup"
          /\ UNCHANGED <<e, epmem, n_currently_mounted, data>>
          /\ m \notin Up /\ Up' = Up \cup {m}
      BY <1>1, <1>9 DEF MountCall, Goto, Up, objvars, epvars
    <2>2. IsFiniteSet(Up') /\ Cardinality(Up') = Cardinality(Up) + 1
      BY <1>5, <2>1, UpFinite
    <2>3. LoneEvent(a)'
      BY <1>3, <1>7, <2>1, <2>2 DEF LoneEvent, FoundPcs
    <2>4. LoneTable(a)'
      BY <1>1, <1>3, <1>6, <1>7, <2>1, <2>2 DEF LoneTable, MountPcs, UmountPcs
    <2>5. QED
      BY <2>3, <2>4
  <1>10. ASSUME NEW m \in Mounts, UmountCall(a, m)
         PROVE  LoneEvent(a)' /\ LoneTable(a)'
    <2>1. /\ pc[a] = "idle" /\ pc'[a] = "u_lookup"
          /\ UNCHANGED <<e, epmem, n_currently_mounted, data>>
          /\ m \in Up /\ Up' = Up \ {m}
      BY <1>1, <1>10 DEF UmountCall, Goto, Up, objvars, epvars
    <2>2. /\ IsFiniteSet(Up') /\ Cardinality(Up') = Cardinality(Up) - 1
          /\ Cardinality(Up) # 0
      BY <1>5, <2>1, UpFinite
    <2>3. LoneEvent(a)'
      BY <1>3, <1>7, <2>1, <2>2 DEF LoneEvent, FoundPcs
    <2>4. LoneTable(a)'
      BY <1>1, <1>3, <1>6, <1>7, <2>1, <2>2 DEF LoneTable, MountPcs, UmountPcs
    <2>5. QED
      BY <2>3, <2>4
  <1>11. CASE EventLookup(a)
    <2>1. /\ pc[a] \in {"m_lookup", "u_lookup"}
          /\ UNCHANGED <<e, epmem, n_currently_mounted, mounts>>
          /\ IF ht = Null THEN pc'[a] = "idle"
             ELSE /\ pc'[a] = IF pc[a] = "m_lookup" THEN "m_lock" ELSE "u_lock"
                  /\ data'[a] = ht
      BY <1>1, <1>11 DEF EventLookup, Goto, Return, objvars, epvars
    <2>2. LoneTable(a)'
      BY <1>3, <1>7, <1>8, <2>1 DEF LoneTable, MountPcs, UmountPcs
    <2>3. ht # Null /\ pc[a] = "u_lookup" /\ e[ht] # Null =>
              n_currently_mounted[e[ht]] = Cardinality(Up) + 1
      BY <1>1, <1>3, <1>6 DEF LoneTable, MountPcs, UmountPcs
    <2>4. LoneEvent(a)'
      BY <1>3, <1>7, <1>8, <2>1, <2>3 DEF LoneEvent, FoundPcs
    <2>5. QED
      BY <2>2, <2>4
  <1>12. CASE EventLock(a)
    <2>1. /\ UNCHANGED <<e, epmem, n_currently_mounted, mounts, data>>
          /\ \/ pc[a] = "u_lock" /\ pc'[a] = "u_count"
             \/ pc[a] = "m_lock" /\ pc'[a] \in {"m_alloc", "m_count"}
      BY <1>1, <1>12 DEF EventLock, Goto, objvars, epvars
    <2>2. LoneTable(a)'
      BY <1>3, <1>7, <1>8, <2>1 DEF LoneTable, MountPcs, UmountPcs
    <2>3. LoneEvent(a)'
      BY <1>3, <1>7, <1>8, <2>1 DEF LoneEvent, FoundPcs
    <2>4. QED
      BY <2>2, <2>3
  <1>13. ASSUME NEW ep \in Epochs, AllocEpoch(a, ep)
         PROVE  LoneEvent(a)' /\ LoneTable(a)'
    <2>1. /\ pc[a] = "m_alloc" /\ pc'[a] = "m_count"
          /\ UNCHANGED <<n_currently_mounted, mounts, data>>
          /\ epmem[ep] = "unused" /\ epmem' = [epmem EXCEPT ![ep] = "live"]
          /\ e' = [e EXCEPT ![data[a]] = ep]
          /\ data[a] \in Objs
      BY <1>1, <1>13 DEF AllocEpoch, Goto, BusyPcs, RcuPcs
    <2>2. n_currently_mounted[ep] = 0
      BY <1>3, <2>1 DEF LoneEvent
    <2>3. LoneEvent(a)'
      BY <1>1, <1>3, <1>7, <1>8, <2>1 DEF LoneEvent, FoundPcs
    <2>4. ASSUME ht # Null
          PROVE  e[ht] = Null /\ e'[ht] = ep /\ Cardinality(Up) = 1
      <3>1. data[a] = ht /\ e[ht] = Null
        BY <1>3, <2>1, <2>4 DEF LoneEvent, FoundPcs, WayInv, AllocEmpty
      <3>2. e'[ht] = ep
        BY <1>1, <2>1, <3>1
      <3>3. QED
        BY <1>3, <2>1, <2>4, <3>1, <3>2 DEF LoneTable, MountPcs
    <2>5. LoneTable(a)'
      BY <1>1, <1>7, <1>8, <2>1, <2>2, <2>4 DEF LoneTable, MountPcs, UmountPcs
    <2>6. QED
      BY <2>3, <2>5
  <1>14. CASE CountMount(a)
    <2>1. /\ pc[a] = "m_count" /\ pc'[a] = "idle"
          /\ UNCHANGED <<e, epmem, mounts>>
          /\ \A x \in Epochs : n_currently_mounted'[x] =
                 IF x = e[data[a]] THEN n_currently_mounted[x] + 1
                 ELSE n_currently_mounted[x]
          /\ data[a] \in Objs
      BY <1>1, <1>14 DEF CountMount, Return, BusyPcs, RcuPcs
    <2>2. e[data[a]] # Null /\ epmem[e[data[a]]] = "live"
      BY <2>1 DEF WayInv, AllocEmpty, IInv, OwnerInv, OwnedLive
    <2>3. LoneEvent(a)'
      BY <1>3, <1>7, <1>8, <2>1, <2>2 DEF LoneEvent, FoundPcs
    <2>4. ASSUME ht # Null
          PROVE  /\ e[ht] # Null /\ e[ht] \in Epochs
                 /\ n_currently_mounted[e[ht]] \in Nat
                 /\ n_currently_mounted'[e[ht]] = n_currently_mounted[e[ht]] + 1
                 /\ n_currently_mounted[e[ht]] + 1 = Cardinality(Up)
      <3>1. data[a] = ht
        BY <1>3, <2>1, <2>4 DEF LoneEvent, FoundPcs
      <3>2. e[ht] # Null /\ e[ht] \in Epochs /\ n_currently_mounted[e[ht]] \in Nat
        BY <1>1, <2>1, <2>2, <3>1
      <3>3. n_currently_mounted[e[ht]] + 1 = Cardinality(Up)
        BY <1>3, <1>6, <2>1, <2>4, <3>2 DEF LoneTable, MountPcs, UmountPcs
      <3>4. QED
        BY <2>1, <3>1, <3>2, <3>3
    <2>5. LoneTable(a)'
      BY <1>6, <1>7, <1>8, <2>1, <2>4 DEF LoneTable, MountPcs, UmountPcs
    <2>6. QED
      BY <2>3, <2>5
  <1>15. CASE CountUmount(a)
    <2>1. /\ pc[a] = "u_count" /\ pc'[a] = "idle"
          /\ UNCHANGED <<epmem, mounts>>
          /\ \A x \in Epochs : n_currently_mounted'[x] =
                 IF x = e[data[a]] /\ n_currently_mounted[x] > 0
                 THEN n_currently_mounted[x] - 1 ELSE n_currently_mounted[x]
          /\ data[a] \in Objs
          /\ IF EndsEpoch(data[a]) THEN e' = [e EXCEPT ![data[a]] = Null] ELSE e' = e
      BY <1>1, <1>15 DEF CountUmount, Return, BusyPcs, RcuPcs
    <2>2. \A ep \in Epochs : n_currently_mounted[ep] = 0 => n_currently_mounted'[ep] = 0
      BY <2>1
    <2>3. LoneEvent(a)'
      BY <1>3, <1>7, <1>8, <2>1, <2>2 DEF LoneEvent, FoundPcs
    <2>4. ASSUME ht # Null
          PROVE  /\ data[a] = ht /\ e[ht] # Null /\ e[ht] \in Epochs
                 /\ n_currently_mounted[e[ht]] = Cardinality(Up) + 1
                 /\ n_currently_mounted'[e[ht]] = Cardinality(Up)
                 /\ IF Cardinality(Up) = 0 THEN e'[ht] = Null ELSE e'[ht] = e[ht]
      <3>1. data[a] = ht /\ ~wq_is_destroyed[ht]
        BY <1>3, <2>1, <2>4 DEF LoneEvent, FoundPcs, WayInv, NotMarked
      <3>2. e[ht] # Null /\ e[ht] \in Epochs /\ n_currently_mounted[e[ht]] \in Nat
        BY <1>1, <1>3, <2>1, <2>4 DEF LoneTable, UmountPcs
      <3>3. n_currently_mounted[e[ht]] = Cardinality(Up) + 1
        BY <1>3, <1>6, <2>1, <2>4, <3>2 DEF LoneTable, MountPcs, UmountPcs
      <3>4. n_currently_mounted'[e[ht]] = Cardinality(Up)
        BY <1>6, <2>1, <3>1, <3>2, <3>3
      <3>5. EndsEpoch(ht) <=> Cardinality(Up) = 0
        BY <1>6, <3>1, <3>2, <3>3 DEF EndsEpoch
      <3>6. IF Cardinality(Up) = 0 THEN e'[ht] = Null ELSE e'[ht] = e[ht]
        BY <1>1, <2>1, <2>4, <3>1, <3>5
      <3>7. QED
        BY <3>1, <3>2, <3>3, <3>4, <3>6
    <2>5. LoneTable(a)'
      BY <1>1, <1>6, <1>7, <1>8, <2>1, <2>4 DEF LoneTable, MountPcs, UmountPcs
    <2>6. QED
      BY <2>3, <2>5
  <1>16. QED
    BY <1>9, <1>10, <1>11, <1>12, <1>13, <1>14, <1>15 DEF AdminNext, AllocEpochFails

\* Whoever is neither an admin nor in an activation leaves the counter alone.
LEMMA CountFrame ==
  ASSUME TypeInv, CountInv,
         \A a \in Admins : pc'[a] = pc[a] /\ data'[a] = data[a],
         \A u \in Users : pc'[u] = "r_insert" => pc[u] = "r_insert",
         UNCHANGED <<mounts, n_currently_mounted>>,
         ht' = ht \/ ht' = Null,
         \A o \in Objs : e'[o] = e[o] \/ (e'[o] = Null /\ o # ht'),
         \A ep \in Epochs : epmem'[ep] = "unused" => epmem[ep] = "unused"
  PROVE  CountInv'
  <1>1. /\ Up' = Up
        /\ NoEventPending' <=> NoEventPending
        /\ MountPending' <=> MountPending
        /\ UmountPending' <=> UmountPending
        /\ (\E a \in Admins : pc'[a] = "m_count") <=> (\E a \in Admins : pc[a] = "m_count")
    BY DEF Up, NoEventPending, MountPending, UmountPending
  <1>2. ht' # Null => ht' = ht /\ ht \in Objs /\ e'[ht] = e[ht]
    BY NullAssumption DEF TypeInv, TypeOK
  <1>3. EventInv'
    BY <1>1, <1>2 DEF CountInv, EventInv
  <1>4. TableCount'
    BY <1>1, <1>2 DEF CountInv, TableCount
  <1>5. \A a \in Admins : pc[a] \in {"u_lock", "u_count"} => data[a] \in Objs
    BY DEF TypeInv, DataTyped, BusyPcs, RcuPcs, Threads
  <1>6. UmountCount'
    BY <1>1, <1>5 DEF CountInv, UmountCount
  <1>7. QED
    BY <1>3, <1>4, <1>6 DEF CountInv

\* Activation, deactivation and unload.
LEMMA UserCount ==
  ASSUME ~ActivateMounted
  PROVE  \A u \in Users : IInv /\ WayInv /\ CountInv /\ UserNext(u) => CountInv'
  <1> SUFFICES ASSUME NEW u \in Users, IInv, WayInv, CountInv, UserNext(u)
               PROVE  CountInv'
    OBVIOUS
  <1>1. /\ TypeInv
        /\ u \in Threads /\ \A a \in Admins : a \in Threads /\ a # u
        /\ pc \in [Threads -> UserPcs \cup AdminPcs \cup WriterPcs]
        /\ data \in [Threads -> Objs \cup {Null}]
        /\ ht \in Objs \cup {Null} /\ Null \notin Objs /\ Null \notin Epochs
        /\ e \in [Objs -> Epochs \cup {Null}]
        /\ \A t \in Threads : pc[t] \in BusyPcs => data[t] \in Objs
    BY ThreadsAssumption, NullAssumption DEF IInv, TypeInv, TypeOK, DataTyped, Threads
  <1>2. CASE DestroyDevices(u)
    <2>1. /\ \A t \in Threads : pc'[t] \in {"idle", "x_flush", "c_lock"}
          /\ \A a \in Admins : pc'[a] = "idle"
          /\ ht' = Null /\ UNCHANGED <<mounts, n_currently_mounted, epmem>>
      BY <1>1, <1>2 DEF DestroyDevices, epvars
    <2>2. Up' = Up
      BY <2>1 DEF Up
    <2>3. \A v \in Users : pc'[v] # "r_insert"
      BY <2>1 DEF Threads
    <2>4. EventInv'
      BY <2>1, <2>2, <2>3 DEF EventInv, CountInv, FoundPcs
    <2>5. QED
      BY <2>1, <2>4 DEF CountInv, TableCount, UmountCount
  <1>3. CASE ~DestroyDevices(u)
    <2>1. /\ UNCHANGED <<epmem, n_currently_mounted, mounts>>
          /\ \A a \in Admins : pc'[a] = pc[a] /\ data'[a] = data[a]
          /\ \A v \in Users : v # u => pc'[v] = pc[v]
      BY <1>1, <1>3, UserFrame DEF Others, Threads, epvars
    <2>2. ASSUME NEW o \in Objs, RegisterInit(u, o)
          PROVE  CountInv'
      <3>1. NoEventPending /\ Up = {} /\ UNCHANGED <<ht, e>>
        BY <2>2 DEF RegisterInit, Up
      <3>2. Up' = Up /\ (NoEventPending' <=> NoEventPending)
            /\ (MountPending' <=> MountPending) /\ (UmountPending' <=> UmountPending)
        BY <2>1 DEF Up, NoEventPending, MountPending, UmountPending
      <3>3. EventInv'
        BY <2>1, <3>1, <3>2 DEF EventInv, CountInv
      <3>4. TableCount' /\ UmountCount'
        BY <2>1, <3>1, <3>2 DEF TableCount, UmountCount, CountInv
      <3>5. QED
        BY <3>3, <3>4 DEF CountInv
    <2>3. CASE RegisterInsert(u)
      <3>1. /\ ht' = data[u] /\ e' = e /\ pc[u] = "r_insert" /\ pc'[u] = "idle"
            /\ data[u] \in Objs
        BY <1>1, <2>3 DEF RegisterInsert, Return, BusyPcs
      <3>2. NoEventPending /\ Up = {} /\ e[data[u]] = Null
        BY <3>1 DEF CountInv, EventInv, WayInv, NotMarked
      <3>3. Up' = {} /\ \A a \in Admins : pc'[a] = "idle"
        BY <2>1, <3>2 DEF Up, NoEventPending
      <3>4. Cardinality(Up') = 0
        BY <3>3, FS_EmptySet
      <3>5. EventInv'
        <4>1. \A v \in Users : pc'[v] = "r_insert" => NoEventPending' /\ Up' = {}
          BY <3>3 DEF NoEventPending
        <4>2. IsFiniteSet(Up')
          BY <3>3, FS_EmptySet
        <4>3. QED
          BY <2>1, <3>3, <4>1, <4>2 DEF EventInv, CountInv, FoundPcs
      <3>6. ~MountPending' /\ ~UmountPending'
        BY <3>3 DEF MountPending, UmountPending, MountPcs, UmountPcs
      <3>7. TableCount'
        BY <3>1, <3>2, <3>4, <3>6 DEF TableCount
      <3>8. UmountCount'
        BY <3>3 DEF UmountCount
      <3>9. QED
        BY <3>5, <3>7, <3>8 DEF CountInv
    <2>4. CASE CleanupTake(u)
      <3>1. /\ ht' = ht /\ e' = [e EXCEPT ![data[u]] = Null]
            /\ pc[u] = "c_take" /\ pc'[u] = "c_defer"
            /\ data[u] \in Objs
        BY <1>1, <2>4 DEF CleanupTake, Goto, BusyPcs
      <3>2. data[u] # ht
        BY <3>1 DEF IInv, ObjInv, CleanerAlone, CleanPcs
      <3>3. \A o \in Objs : e'[o] = e[o] \/ (e'[o] = Null /\ o # ht')
        BY <1>1, <3>1, <3>2
      <3>4. \A v \in Users : pc'[v] = "r_insert" => pc[v] = "r_insert"
        BY <2>1, <3>1
      <3>5. QED
        BY <1>1, <2>1, <3>1, <3>3, <3>4, CountFrame
    <2>5. CASE ~CleanupTake(u) /\ ~RegisterInsert(u)
               /\ ~\E o \in Objs : RegisterInit(u, o)
      <3>1. /\ e' = e /\ pc'[u] # "r_insert"
            /\ ht' = ht \/ ht' = Null
        BY <1>1, <1>3, <2>5
           DEF UserNext, RegisterFails, UnregisterLookup, UnregisterRemove, CleanupLock,
               CleanupMark, CleanupDefer, CleanupDeferFails, CleanupList, FlushWorklist,
               Goto, Return, objvars
      <3>2. \A v \in Users : pc'[v] = "r_insert" => pc[v] = "r_insert"
        BY <2>1, <3>1
      <3>3. QED
        BY <1>1, <2>1, <3>1, <3>2, CountFrame
    <2>6. QED
      BY <2>2, <2>3, <2>4, <2>5
  <1>4. QED
    BY <1>2, <1>3

LEMMA CountStep ==
  ASSUME ~OverlapEvents, ~ActivateMounted, ~AllocMayFail
  PROVE  IInv /\ WayInv /\ CountInv /\ [Next]_vars => CountInv'
  <1> SUFFICES ASSUME IInv, WayInv, CountInv, [Next]_vars PROVE CountInv'
    OBVIOUS
  <1>1. /\ TypeInv
        /\ \A w \in Writers : w \notin Admins /\ w \notin Users
        /\ \A t \in Admins \cup Users : t \in Threads
    BY ThreadsAssumption DEF IInv, Threads
  <1>2. ASSUME NEW w \in Writers, WriterNext(w)
        PROVE  CountInv'
    <2>1. /\ UNCHANGED <<ht, e, epmem, n_currently_mounted, mounts>>
          /\ \A t \in Admins \cup Users : pc'[t] = pc[t] /\ data'[t] = data[t]
      BY <1>1, <1>2, WriterFrame DEF Others, epvars
    <2>2. QED
      BY <1>1, <2>1, CountFrame
  <1>3. ASSUME NEW o \in Objs, KernelNext(o)
        PROVE  CountInv'
    <2>1. UNCHANGED <<ht, e, n_currently_mounted, mounts, pc, data>>
      BY <1>3, KernelFrame DEF thrvars
    <2>2. \A ep \in Epochs : epmem'[ep] = "unused" => epmem[ep] = "unused"
      BY <1>1, <1>3 DEF KernelNext, FreeObject, RunSnapshot, RunCleanupEpoch, WaddwDestroy,
                        WaddwEpoch, epvars, TypeInv, TypeOK
    <2>3. QED
      BY <1>1, <2>1, <2>2, CountFrame
  <1>4. ASSUME Rest \/ UNCHANGED vars
        PROVE  CountInv'
    <2>1. UNCHANGED <<ht, e, epmem, n_currently_mounted, mounts, pc, data>>
      BY <1>4 DEF Rest, vars, objvars, epvars, thrvars
    <2>2. QED
      BY <1>1, <2>1, CountFrame
  <1>5. QED
    BY <1>2, <1>3, <1>4, AdminCount, UserCount DEF Next

LEMMA InitCount == Init => CountInv
  <1> SUFFICES ASSUME Init PROVE CountInv
    OBVIOUS
  <1>1. /\ Up = {} /\ ht = Null
        /\ \A t \in Threads : pc[t] = "idle"
        /\ \A ep \in Epochs : n_currently_mounted[ep] = 0
    BY DEF Init, Up
  <1>2. EventInv
    BY <1>1, FS_EmptySet DEF EventInv, FoundPcs, Threads
  <1>3. QED
    BY <1>1, <1>2 DEF CountInv, TableCount, UmountCount, Threads

-----------------------------------------------------------------------------
(* The writers.                                                            *)

\* A writer is not disturbed while its mount stays and the epoch it has seen
\* stays in the object.
LEMMA WriterKept ==
  ASSUME WriterInv,
         \A w \in Writers : pc'[w] = pc[w] /\ data'[w] = data[w] /\ ref'[w] = ref[w],
         at' = at,
         \A w \in Writers : pc[w] # "idle" => at[w] \in Up',
         \A w \in Writers : pc[w] \in {"w_load", "w_date"} => e'[data[w]] = e[data[w]]
  PROVE  WriterInv'
  BY DEF WriterInv

LEMMA WriterStep ==
  ASSUME ~LazyUmount
  PROVE  IInv /\ WayInv /\ CountInv /\ WriterInv /\ [Next]_vars => WriterInv'
  <1> SUFFICES ASSUME IInv, WayInv, CountInv, WriterInv, [Next]_vars PROVE WriterInv'
    OBVIOUS
  <1>1. /\ TypeInv
        /\ \A w \in Writers : w \in Threads /\ w \notin Admins /\ w \notin Users
        /\ pc \in [Threads -> UserPcs \cup AdminPcs \cup WriterPcs]
        /\ data \in [Threads -> Objs \cup {Null}]
        /\ ref \in [Threads -> Epochs \cup {Null}]
        /\ at \in [Writers -> Mounts \cup {Null}]
        /\ e \in [Objs -> Epochs \cup {Null}]
        /\ n_currently_mounted \in [Epochs -> Nat]
        /\ Null \notin Epochs
        /\ \A t \in Threads : pc[t] \in BusyPcs => data[t] \in Objs
        /\ \A w \in Writers : pc[w] \in {"w_load", "w_date"} =>
               data[w] \in Objs /\ ~wq_is_destroyed[data[w]]
    BY ThreadsAssumption, NullAssumption
       DEF IInv, TypeInv, TypeOK, DataTyped, Threads, BusyPcs, RcuPcs, QueueInv,
           ReaderBeforeMark, ReadPcs
  <1>2. mounts' = mounts => Up' = Up
    BY DEF Up
  <1>3. \A w \in Writers : pc[w] # "idle" => at[w] \in Up
    BY DEF WriterInv
  <1>4. ASSUME NEW u \in Users, UserNext(u)
        PROVE  WriterInv'
    <2>1. CASE DestroyDevices(u)
      <3>1. \A w \in Writers : w # u
        BY <1>1, <1>4
      <3>2. \A w \in Writers : pc'[w] = "idle"
        BY <1>1, <2>1, <3>1 DEF DestroyDevices
      <3>3. QED
        BY <3>2 DEF WriterInv
    <2>2. CASE ~DestroyDevices(u)
      <3>1. /\ UNCHANGED <<mounts, at>>
            /\ \A w \in Writers : pc'[w] = pc[w] /\ data'[w] = data[w] /\ ref'[w] = ref[w]
        BY <1>1, <1>4, <2>2, UserFrame DEF Others
      <3>2. CASE CleanupTake(u)
        <4>1. u \in Threads /\ pc[u] = "c_take" /\ e' = [e EXCEPT ![data[u]] = Null]
          BY <3>2 DEF CleanupTake, Threads
        <4>2. wq_is_destroyed[data[u]]
          BY <4>1 DEF IInv, QueueInv, MarkedFirst
        <4>3. \A w \in Writers : pc[w] \in {"w_load", "w_date"} =>
                  e'[data[w]] = e[data[w]]
          BY <1>1, <4>1, <4>2
        <4>4. QED
          BY <1>2, <1>3, <3>1, <4>3, WriterKept
      <3>3. CASE ~CleanupTake(u)
        <4>1. e' = e
          BY <1>4, <2>2, <3>3
             DEF UserNext, RegisterInit, RegisterInsert, RegisterFails, UnregisterLookup,
                 UnregisterRemove, CleanupLock, CleanupMark, CleanupDefer,
                 CleanupDeferFails, CleanupList, FlushWorklist, objvars
        <4>2. QED
          BY <1>2, <1>3, <3>1, <4>1, WriterKept
      <3>4. QED
        BY <3>2, <3>3
    <2>3. QED
      BY <2>1, <2>2
  <1>5. ASSUME NEW a \in Admins, AdminNext(a)
        PROVE  WriterInv'
    <2>1. /\ at' = at /\ a \in Threads
          /\ \A w \in Writers : pc'[w] = pc[w] /\ data'[w] = data[w] /\ ref'[w] = ref[w]
      BY <1>1, <1>5, AdminFrame DEF Others, Threads
    <2>2. ASSUME NEW m \in Mounts, UmountCall(a, m)
          PROVE  WriterInv'
      <3>1. e' = e /\ Up' = Up \ {m} /\ \A w \in Writers : at[w] # m
        BY <2>2 DEF UmountCall, objvars, Up, IInv, TypeInv, TypeOK
      <3>2. \A w \in Writers : pc[w] # "idle" => at[w] \in Up'
        BY <1>3, <3>1
      <3>3. QED
        BY <2>1, <3>1, <3>2, WriterKept
    <2>3. ASSUME NEW m \in Mounts, MountCall(a, m)
          PROVE  WriterInv'
      <3>1. e' = e /\ Up \subseteq Up'
        BY <2>3 DEF MountCall, objvars, Up, IInv, TypeInv, TypeOK
      <3>2. \A w \in Writers : pc[w] # "idle" => at[w] \in Up'
        BY <1>3, <3>1
      <3>3. QED
        BY <2>1, <3>1, <3>2, WriterKept
    <2>4. ASSUME NEW ep \in Epochs, AllocEpoch(a, ep)
          PROVE  WriterInv'
      <3>1. /\ pc[a] = "m_alloc" /\ mounts' = mounts
            /\ e' = [e EXCEPT ![data[a]] = ep]
        BY <2>4 DEF AllocEpoch
      <3>2. e[data[a]] = Null
        BY <3>1 DEF WayInv, AllocEmpty
      <3>3. \A w \in Writers : pc[w] \in {"w_load", "w_date"} => e[data[w]] # Null
        BY DEF WriterInv
      <3>4. \A w \in Writers : pc[w] \in {"w_load", "w_date"} => e'[data[w]] = e[data[w]]
        BY <1>1, <3>1, <3>2, <3>3
      <3>5. QED
        BY <1>2, <1>3, <2>1, <3>1, <3>4, WriterKept
    <2>5. CASE CountUmount(a)
      <3>1. /\ pc[a] = "u_count" /\ mounts' = mounts
            /\ IF EndsEpoch(data[a]) THEN e' = [e EXCEPT ![data[a]] = Null] ELSE e' = e
        BY <2>5 DEF CountUmount
      <3>2. data[a] \in Objs
        BY <1>1, <2>1, <3>1 DEF BusyPcs, RcuPcs
      <3>3. CASE e' = e
        BY <1>2, <1>3, <2>1, <3>1, <3>3, WriterKept
      <3>4. CASE \A w \in Writers : pc[w] = "idle"
        BY <1>2, <2>1, <3>1, <3>4, WriterKept
      <3>5. ASSUME NEW w \in Writers, pc[w] # "idle"
            PROVE  ~EndsEpoch(data[a])
        <4>1. at[w] \in Up
          BY <1>3, <3>5
        <4>2. IsFiniteSet(Up)
          BY DEF CountInv, EventInv
        <4>3. Cardinality(Up) \in Nat /\ Cardinality(Up) # 0
          BY <4>1, <4>2, UpFinite
        <4>4. e[data[a]] # Null => n_currently_mounted[e[data[a]]] = Cardinality(Up) + 1
          BY <3>1 DEF CountInv, UmountCount
        <4>5. QED
          BY <4>3, <4>4 DEF EndsEpoch
      <3>6. QED
        BY <3>1, <3>3, <3>4, <3>5
    <2>6. CASE EventLookup(a) \/ EventLock(a) \/ AllocEpochFails(a) \/ CountMount(a)
      <3>1. UNCHANGED <<e, mounts>>
        BY <2>6 DEF EventLookup, EventLock, AllocEpochFails, CountMount, objvars
      <3>2. QED
        BY <1>2, <1>3, <2>1, <3>1, WriterKept
    <2>7. QED
      BY <1>5, <2>2, <2>3, <2>4, <2>5, <2>6 DEF AdminNext
  <1>6. ASSUME NEW w \in Writers, WriterNext(w)
        PROVE  WriterInv'
    <2> DEFINE Fine ==
            /\ pc'[w] # "idle" => at'[w] \in Up
            /\ pc'[w] \in {"w_load", "w_date"} => e[data'[w]] # Null
            /\ pc'[w] = "w_date" => ref'[w] = e[data'[w]]
            /\ pc'[w] # "oops"
    <2>1. /\ UNCHANGED <<e, mounts>> /\ w \in Threads
          /\ \A v \in Writers : v # w =>
                 pc'[v] = pc[v] /\ data'[v] = data[v] /\ ref'[v] = ref[v]
      BY <1>1, <1>6, WriterFrame DEF Others
    <2>2. ASSUME WriteReturn(w)
          PROVE  Fine /\ \A v \in Writers : v # w => at'[v] = at[v]
      BY <1>1, <2>1, <2>2 DEF WriteReturn, Return
    <2>3. ASSUME pc[w] # "idle", NEW l \in {"w_make", "w_lock", "w_queue"},
                 Goto(w, l), UNCHANGED <<data, ref, at>>
          PROVE  Fine /\ \A v \in Writers : v # w => at'[v] = at[v]
      BY <1>1, <1>3, <2>1, <2>3 DEF Goto
    <2>4. Fine /\ \A v \in Writers : v # w => at'[v] = at[v]
      <3>1. ASSUME NEW m \in Mounts, SearchDevice(w, m)
            PROVE  Fine /\ \A v \in Writers : v # w => at'[v] = at[v]
        <4>1. /\ m \in Up /\ pc' = [pc EXCEPT ![w] = "w_search"]
              /\ at' = [at EXCEPT ![w] = m]
          BY <3>1 DEF SearchDevice, Writable, Up, Goto
        <4>2. QED
          BY <1>1, <4>1
      <3>2. CASE CheckValid(w)
        BY <2>2, <2>3, <3>2 DEF CheckValid
      <3>3. CASE MakeLock(w)
        BY <2>2, <2>3, <3>3 DEF MakeLock
      <3>4. CASE QueueCheck(w)
        <4>1. CASE WriteReturn(w)
          BY <2>2, <4>1
        <4>2. CASE e[data[w]] # Null /\ pc[w] = "w_queue" /\ Goto(w, "w_load")
                   /\ UNCHANGED <<data, ref, at>>
          BY <1>1, <1>3, <2>1, <4>2 DEF Goto
        <4>3. QED
          BY <3>4, <4>1, <4>2 DEF QueueCheck
      <3>5. CASE QueueAllocFails(w)
        BY <2>2, <3>5 DEF QueueAllocFails
      <3>6. CASE QueueLoad(w)
        <4>1. pc[w] = "w_load" /\ e[data[w]] # Null /\ at[w] \in Up
          BY <3>6 DEF QueueLoad, WriterInv
        <4>2. /\ pc' = [pc EXCEPT ![w] = "w_date"]
              /\ ref' = [ref EXCEPT ![w] = e[data[w]]]
              /\ UNCHANGED <<data, at>>
          BY <3>6, <4>1 DEF QueueLoad, Goto
        <4>3. QED
          BY <1>1, <2>1, <4>1, <4>2
      <3>7. CASE QueueWork(w)
        <4>1. pc[w] = "w_date"
          BY <3>7 DEF QueueWork
        <4>2. ref[w] = e[data[w]] /\ e[data[w]] # Null
          BY <4>1 DEF WriterInv
        <4>3. WriteReturn(w)
          BY <3>7, <4>2 DEF QueueWork
        <4>4. QED
          BY <2>2, <4>3
      <3>8. QED
        BY <1>6, <3>1, <3>2, <3>3, <3>4, <3>5, <3>6, <3>7 DEF WriterNext
    <2>5. QED
      BY <1>2, <2>1, <2>4 DEF WriterInv
  <1>7. ASSUME (\E o \in Objs : KernelNext(o)) \/ Rest \/ UNCHANGED vars
        PROVE  WriterInv'
    <2>1. UNCHANGED <<e, mounts, pc, data, ref, at>>
      BY <1>7, KernelFrame DEF Rest, vars, objvars, thrvars
    <2>2. QED
      BY <1>2, <1>3, <2>1, WriterKept
  <1>8. QED
    BY <1>4, <1>5, <1>6, <1>7 DEF Next

-----------------------------------------------------------------------------
(* The works.                                                              *)

\* A snapshot work keeps its place in the queue, or moves up by one.
LEMMA SnapMoves ==
  ASSUME NEW q \in Seq(Works)
  PROVE  /\ \A i \in Nat, x \in Works : IsSnap(Append(q, x), i) =>
               \/ IsSnap(q, i) /\ Append(q, x)[i] = q[i]
               \/ i = Len(q) + 1 /\ Append(q, x)[i] = x /\ x.kind = "snap"
         /\ q # <<>> => \A i \in Nat : IsSnap(Tail(q), i) =>
               i + 1 \in Nat /\ IsSnap(q, i + 1) /\ Tail(q)[i] = q[i + 1]
         /\ \A i \in Nat : IsSnap(q, i) => i < Len(q) + 1 /\ q[i].ep \in Epochs
  <1>1. Len(q) \in Nat /\ DOMAIN q = 1..Len(q)
    OBVIOUS
  <1>2. ASSUME NEW x \in Works, NEW i \in Nat, IsSnap(Append(q, x), i)
        PROVE  \/ IsSnap(q, i) /\ Append(q, x)[i] = q[i]
               \/ i = Len(q) + 1 /\ Append(q, x)[i] = x /\ x.kind = "snap"
    <2>1. /\ DOMAIN Append(q, x) = 1..(Len(q) + 1)
          /\ \A j \in 1..Len(q) : Append(q, x)[j] = q[j]
          /\ Append(q, x)[Len(q) + 1] = x
      OBVIOUS
    <2>2. i \in 1..(Len(q) + 1) /\ Append(q, x)[i].kind = "snap"
      BY <1>2, <2>1 DEF IsSnap
    <2>3. CASE i \in 1..Len(q)
      BY <1>1, <2>1, <2>2, <2>3 DEF IsSnap
    <2>4. CASE i = Len(q) + 1
      BY <2>1, <2>2, <2>4
    <2>5. QED
      BY <1>1, <2>2, <2>3, <2>4
  <1>3. ASSUME q # <<>>, NEW i \in Nat, IsSnap(Tail(q), i)
        PROVE  i + 1 \in Nat /\ IsSnap(q, i + 1) /\ Tail(q)[i] = q[i + 1]
    <2>1. /\ DOMAIN Tail(q) = 1..(Len(q) - 1)
          /\ \A j \in 1..(Len(q) - 1) : Tail(q)[j] = q[j + 1]
      BY <1>3
    <2>2. i \in 1..(Len(q) - 1) /\ Tail(q)[i].kind = "snap"
      BY <1>3, <2>1 DEF IsSnap
    <2>3. i + 1 \in 1..Len(q) /\ i + 1 \in Nat
      BY <1>1, <2>2
    <2>4. QED
      BY <1>1, <2>1, <2>2, <2>3 DEF IsSnap
  <1>4. ASSUME NEW i \in Nat, IsSnap(q, i)
        PROVE  i < Len(q) + 1 /\ q[i].ep \in Epochs
    <2>1. i \in 1..Len(q) /\ q[i] \in Works
      BY <1>1, <1>4 DEF IsSnap
    <2>2. QED
      BY <1>1, <2>1 DEF Works
  <1>5. QED
    BY <1>2, <1>3, <1>4

\* No owner lets go of the epoch of a work unless a later owner has it.
LEMMA WorkKept ==
  ASSUME TypeInv, WorkInv, wq' = wq,
         \A o \in Objs : e[o] # Null => \/ e'[o] = e[o]
                                        \/ \E u \in Users : /\ pc'[u] = "c_defer"
                                                            /\ data'[u] = o
                                                            /\ ref'[u] = e[o],
         \A u \in Users : pc[u] = "c_defer" =>
             \/ pc'[u] = "c_defer" /\ data'[u] = data[u] /\ ref'[u] = ref[u]
             \/ waddw'[data[u]] = "flush" /\ waddw_epoch'[data[u]] = ref[u],
         \A o \in Objs : waddw[o] = "flush" =>
             \/ wq[o] = <<>>
             \/ waddw'[o] = "flush" /\ waddw_epoch'[o] = waddw_epoch[o]
  PROVE  WorkInv'
  <1> SUFFICES ASSUME NEW o \in Objs, NEW i \in Nat, IsSnap(wq[o], i)
               PROVE  SafeWork(o, i, wq[o][i].ep)'
    BY DEF WorkInv
  <1>1. wq[o] \in Seq(Works) /\ wq[o] # <<>>
    BY DEF IsSnap, TypeInv, TypeOK
  <1>2. PICK k : k = wq[o][i].ep
    OBVIOUS
  <1>3. k \in Epochs /\ k # Null
    BY <1>1, <1>2, SnapMoves, NullAssumption
  <1>4. SafeWork(o, i, k)
    BY <1>2 DEF WorkInv
  <1>5. SUFFICES SafeWork(o, i, k)'
    BY <1>2
  <1>6. CASE e[o] = k
    BY <1>3, <1>6 DEF SafeWork
  <1>7. ASSUME NEW u \in Users, pc[u] = "c_defer", data[u] = o, ref[u] = k
        PROVE  SafeWork(o, i, k)'
    BY <1>7 DEF SafeWork
  <1>8. CASE waddw[o] = "flush" /\ waddw_epoch[o] = k
    BY <1>1, <1>8 DEF SafeWork
  <1>9. CASE \E j \in Nat : j > i /\ IsCleanup(wq[o], j) /\ wq[o][j].ep = k
    BY <1>9 DEF SafeWork
  <1>10. QED
    BY <1>4, <1>6, <1>7, <1>8, <1>9 DEF SafeWork

\* A queue that changes does so for one object, everything else stays.
LEMMA WorkElsewhere ==
  ASSUME TypeInv, WorkInv, NEW o \in Objs, NEW q, wq' = [wq EXCEPT ![o] = q],
         \A p \in Objs : p # o => e'[p] = e[p],
         \A u \in Users : pc'[u] = pc[u] /\ data'[u] = data[u] /\ ref'[u] = ref[u],
         UNCHANGED <<waddw, waddw_epoch>>,
         \A i \in Nat : IsSnap(q, i) => SafeWork(o, i, q[i].ep)'
  PROVE  WorkInv'
  <1>1. wq \in [Objs -> Seq(Works)]
    BY DEF TypeInv, TypeOK
  <1>2. ASSUME NEW p \in Objs, NEW i \in Nat, IsSnap(wq'[p], i), p # o
        PROVE  SafeWork(p, i, wq[p][i].ep)'
    <2>1. wq'[p] = wq[p] /\ e'[p] = e[p]
      BY <1>1, <1>2
    <2>2. SafeWork(p, i, wq[p][i].ep)
      BY <1>2, <2>1 DEF WorkInv
    <2>3. QED
      BY <2>1, <2>2 DEF SafeWork
  <1>3. ASSUME NEW i \in Nat, IsSnap(wq'[o], i)
        PROVE  SafeWork(o, i, wq[o][i].ep)'
    <2>1. wq'[o] = q
      BY <1>1
    <2>2. QED
      BY <1>3, <2>1
  <1>4. QED
    BY <1>2, <1>3 DEF WorkInv

LEMMA WorkStep ==
  ASSUME ~AllocMayFail
  PROVE  IInv /\ WayInv /\ WriterInv /\ WorkInv /\ [Next]_vars => WorkInv'
  <1> SUFFICES ASSUME IInv, WayInv, WriterInv, WorkInv, [Next]_vars PROVE WorkInv'
    OBVIOUS
  <1>1. /\ TypeInv
        /\ \A u \in Users : u \in Threads /\ u \notin Admins /\ u \notin Writers
        /\ \A a \in Admins : a \in Threads
        /\ \A w \in Writers : w \in Threads
        /\ pc \in [Threads -> UserPcs \cup AdminPcs \cup WriterPcs]
        /\ data \in [Threads -> Objs \cup {Null}]
        /\ ref \in [Threads -> Epochs \cup {Null}]
        /\ e \in [Objs -> Epochs \cup {Null}]
        /\ wq \in [Objs -> Seq(Works)]
        /\ waddw \in [Objs -> {"none", "flush", "epoch", "done"}]
        /\ waddw_epoch \in [Objs -> Epochs \cup {Null}]
        /\ Null \notin Epochs
        /\ \A t \in Threads : pc[t] \in BusyPcs => data[t] \in Objs
    BY ThreadsAssumption, NullAssumption
       DEF IInv, TypeInv, TypeOK, DataTyped, Threads
  <1>2. ASSUME NEW u \in Users, UserNext(u)
        PROVE  WorkInv'
    <2>1. CASE DestroyDevices(u)
      <3>1. UNCHANGED <<wq, e, waddw, waddw_epoch>> /\ \A v \in Users : pc[v] # "c_defer"
        BY <1>1, <2>1 DEF DestroyDevices, wqvars, waddwvars
      <3>2. QED
        BY <1>1, <3>1, WorkKept
    <2>2. CASE ~DestroyDevices(u)
      <3>1. /\ wq' = wq
            /\ \A v \in Users : v # u =>
                   pc'[v] = pc[v] /\ data'[v] = data[v] /\ ref'[v] = ref[v]
        BY <1>1, <1>2, <2>2, UserFrame DEF Others
      <3>2. CASE CleanupTake(u)
        <4>1. /\ pc[u] = "c_take" /\ data[u] \in Objs
              /\ pc'[u] = "c_defer" /\ data'[u] = data[u] /\ ref'[u] = e[data[u]]
              /\ e' = [e EXCEPT ![data[u]] = Null]
              /\ UNCHANGED <<waddw, waddw_epoch>>
          BY <1>1, <3>2 DEF CleanupTake, Goto, BusyPcs, waddwvars
        <4>2. \A o \in Objs : e[o] # Null => \/ e'[o] = e[o]
                                             \/ \E v \in Users : /\ pc'[v] = "c_defer"
                                                                 /\ data'[v] = o
                                                                 /\ ref'[v] = e[o]
          BY <1>1, <4>1
        <4>3. \A v \in Users : pc[v] = "c_defer" =>
                  pc'[v] = "c_defer" /\ data'[v] = data[v] /\ ref'[v] = ref[v]
          BY <3>1, <4>1
        <4>4. QED
          BY <1>1, <3>1, <4>1, <4>2, <4>3, WorkKept
      <3>3. CASE CleanupDefer(u)
        <4>1. /\ pc[u] = "c_defer" /\ data[u] \in Objs /\ e' = e
              /\ waddw' = [waddw EXCEPT ![data[u]] = "flush"]
              /\ waddw_epoch' = [waddw_epoch EXCEPT ![data[u]] = ref[u]]
              /\ waddw[data[u]] = "none"
          BY <1>1, <3>3 DEF CleanupDefer, BusyPcs, objvars, WayInv, NotDeferred
        <4>2. \A v \in Users : pc[v] = "c_defer" =>
                  \/ pc'[v] = "c_defer" /\ data'[v] = data[v] /\ ref'[v] = ref[v]
                  \/ waddw'[data[v]] = "flush" /\ waddw_epoch'[data[v]] = ref[v]
          BY <1>1, <3>1, <4>1
        <4>3. \A o \in Objs : waddw[o] = "flush" =>
                  waddw'[o] = "flush" /\ waddw_epoch'[o] = waddw_epoch[o]
          BY <1>1, <4>1
        <4>4. QED
          BY <1>1, <3>1, <4>1, <4>2, <4>3, WorkKept
      <3>4. CASE ~CleanupTake(u) /\ ~CleanupDefer(u)
        <4>1. UNCHANGED <<e, waddw, waddw_epoch>> /\ pc[u] # "c_defer"
          BY <1>2, <2>2, <3>4
             DEF UserNext, RegisterInit, RegisterInsert, RegisterFails, UnregisterLookup,
                 UnregisterRemove, CleanupLock, CleanupMark, CleanupDeferFails,
                 CleanupList, FlushWorklist, objvars, waddwvars
        <4>2. \A v \in Users : pc[v] = "c_defer" =>
                  pc'[v] = "c_defer" /\ data'[v] = data[v] /\ ref'[v] = ref[v]
          BY <3>1, <4>1
        <4>3. QED
          BY <1>1, <3>1, <4>1, <4>2, WorkKept
      <3>5. QED
        BY <3>2, <3>3, <3>4
    <2>3. QED
      BY <2>1, <2>2
  <1>3. ASSUME NEW a \in Admins, AdminNext(a)
        PROVE  WorkInv'
    <2>1. /\ UNCHANGED <<waddw, waddw_epoch>>
          /\ \A u \in Users : pc'[u] = pc[u] /\ data'[u] = data[u] /\ ref'[u] = ref[u]
      BY <1>1, <1>3, AdminFrame DEF Others, waddwvars
    <2>2. CASE CountUmount(a) /\ EndsEpoch(data[a])
      <3>1. PICK o \in Objs : o = data[a]
        BY <1>1, <2>2 DEF CountUmount, BusyPcs, RcuPcs
      <3>2. PICK k, q : k = e[o] /\ q = wq[o]
        OBVIOUS
      <3> DEFINE x == CleanupWork(k)
                 r == Append(q, x)
      <3>3. k \in Epochs /\ q \in Seq(Works) /\ x \in Works /\ x.kind # "snap"
        BY <1>1, <2>2, <3>1, <3>2 DEF EndsEpoch, CleanupWork, Works
      <3>4. e' = [e EXCEPT ![o] = Null] /\ wq' = [wq EXCEPT ![o] = r]
        BY <2>2, <3>1, <3>2 DEF CountUmount
      <3> HIDE DEF x, r
      <3>5. ASSUME NEW i \in Nat, IsSnap(r, i)
            PROVE  SafeWork(o, i, r[i].ep)'
        <4>1. IsSnap(q, i) /\ r[i] = q[i]
          <5>1. \/ IsSnap(q, i) /\ r[i] = q[i]
                \/ r[i] = x
            BY <3>3, <3>5, SnapMoves DEF r
          <5>2. r[i].kind = "snap"
            BY <3>5 DEF IsSnap
          <5>3. QED
            BY <3>3, <5>1, <5>2
        <4>2. i < Len(q) + 1
          BY <3>3, <4>1, SnapMoves
        <4>3. SafeWork(o, i, q[i].ep)
          BY <3>2, <4>1 DEF WorkInv
        <4>4. wq'[o] = r
          BY <1>1, <3>1, <3>4
        <4>5. CASE e[o] = q[i].ep
          <5>1. /\ Len(q) + 1 \in Nat /\ IsCleanup(r, Len(q) + 1)
                /\ r[Len(q) + 1].ep = k
            BY <3>3, QueueMoves DEF r, x
          <5>2. Len(q) + 1 > i /\ k = q[i].ep
            BY <3>2, <3>3, <4>5, <4>2, <5>1
          <5>3. QED
            BY <4>1, <4>4, <5>1, <5>2 DEF SafeWork
        <4>6. ASSUME NEW j \in Nat, j > i, IsCleanup(q, j), q[j].ep = q[i].ep
              PROVE  SafeWork(o, i, r[i].ep)'
          <5>1. IsCleanup(r, j) /\ r[j] = q[j]
            BY <3>3, <4>6, QueueMoves DEF r
          <5>2. QED
            BY <4>1, <4>4, <4>6, <5>1 DEF SafeWork
        <4>7. QED
          BY <2>1, <3>2, <4>1, <4>3, <4>5, <4>6 DEF SafeWork
      <3>6. \A p \in Objs : p # o => e'[p] = e[p]
        BY <1>1, <3>1, <3>4
      <3>7. QED
        BY <1>1, <2>1, <3>1, <3>4, <3>5, <3>6, WorkElsewhere
    <2>3. ASSUME NEW ep \in Epochs, AllocEpoch(a, ep)
          PROVE  WorkInv'
      <3>1. pc[a] = "m_alloc" /\ wq' = wq /\ e' = [e EXCEPT ![data[a]] = ep]
        BY <2>3 DEF AllocEpoch, wqvars
      <3>2. e[data[a]] = Null
        BY <3>1 DEF WayInv, AllocEmpty
      <3>3. \A o \in Objs : e[o] # Null => e'[o] = e[o]
        BY <1>1, <3>1, <3>2
      <3>4. QED
        BY <1>1, <2>1, <3>1, <3>3, WorkKept
    <2>4. CASE ~(CountUmount(a) /\ EndsEpoch(data[a]))
               /\ ~\E ep \in Epochs : AllocEpoch(a, ep)
      <3>1. UNCHANGED <<wq, e>>
        BY <1>3, <2>4 DEF AdminNext, MountCall, UmountCall, EventLookup, EventLock,
               AllocEpochFails, CountMount, CountUmount, objvars, wqvars
      <3>2. QED
        BY <1>1, <2>1, <3>1, WorkKept
    <2>5. QED
      BY <2>2, <2>3, <2>4
  <1>4. ASSUME NEW w \in Writers, WriterNext(w)
        PROVE  WorkInv'
    <2>1. /\ UNCHANGED <<e, waddw, waddw_epoch>>
          /\ \A u \in Users : pc'[u] = pc[u] /\ data'[u] = data[u] /\ ref'[u] = ref[u]
      BY <1>1, <1>4, WriterFrame DEF Others, waddwvars
    <2>2. CASE wq' = wq
      BY <1>1, <2>1, <2>2, WorkKept
    <2>3. ASSUME pc[w] = "w_date", NEW d \in BOOLEAN,
                 wq' = [wq EXCEPT ![data[w]] = Append(@, SnapWork(ref[w], d))]
          PROVE  WorkInv'
      <3>1. PICK o \in Objs : o = data[w] /\ ref[w] = e[o] /\ e[o] # Null
        BY <1>1, <2>3 DEF WriterInv, BusyPcs, RcuPcs
      <3>2. PICK q, x : q = wq[o] /\ x = SnapWork(ref[w], d)
        OBVIOUS
      <3> DEFINE r == Append(q, x)
      <3>3. q \in Seq(Works) /\ x \in Works /\ x.ep = e[o]
        BY <1>1, <3>1, <3>2 DEF SnapWork, Works
      <3>4. wq' = [wq EXCEPT ![o] = r]
        BY <2>3, <3>1, <3>2
      <3> HIDE DEF r
      <3>5. ASSUME NEW i \in Nat, IsSnap(r, i)
            PROVE  SafeWork(o, i, r[i].ep)'
        <4>1. \/ IsSnap(q, i) /\ r[i] = q[i]
              \/ r[i] = x
          BY <3>3, <3>5, SnapMoves DEF r
        <4>2. wq'[o] = r
          BY <1>1, <3>1, <3>4
        <4>3. CASE r[i] = x
          BY <2>1, <3>3, <4>3 DEF SafeWork
        <4>4. CASE IsSnap(q, i) /\ r[i] = q[i]
          <5>1. SafeWork(o, i, q[i].ep)
            BY <3>2, <4>4 DEF WorkInv
          <5>2. ASSUME NEW j \in Nat, j > i, IsCleanup(q, j), q[j].ep = q[i].ep
                PROVE  SafeWork(o, i, r[i].ep)'
            <6>1. IsCleanup(r, j) /\ r[j] = q[j]
              BY <3>3, <5>2, QueueMoves DEF r
            <6>2. QED
              BY <4>2, <4>4, <5>2, <6>1 DEF SafeWork
          <5>3. QED
            BY <2>1, <3>2, <4>4, <5>1, <5>2 DEF SafeWork
        <4>5. QED
          BY <4>1, <4>3, <4>4
      <3>6. QED
        BY <1>1, <2>1, <3>1, <3>4, <3>5, WorkElsewhere
    <2>4. QED
      BY <1>1, <1>4, <2>2, <2>3, WriterFrame
  <1>5. ASSUME NEW o \in Objs, KernelNext(o)
        PROVE  WorkInv'
    <2>1. UNCHANGED <<e, pc, data, ref>>
      BY <1>5, KernelFrame DEF thrvars
    <2>2. CASE RunSnapshot(o) \/ RunCleanupEpoch(o)
      <3>1. PICK q : q = wq[o]
        OBVIOUS
      <3> DEFINE r == Tail(q)
      <3>2. q \in Seq(Works) /\ q # <<>>
        BY <1>1, <2>2, <3>1 DEF RunSnapshot, RunCleanupEpoch
      <3>3. wq' = [wq EXCEPT ![o] = r] /\ UNCHANGED <<waddw, waddw_epoch>>
        BY <2>2, <3>1 DEF RunSnapshot, RunCleanupEpoch, waddwvars
      <3> HIDE DEF r
      <3>4. ASSUME NEW i \in Nat, IsSnap(r, i)
            PROVE  SafeWork(o, i, r[i].ep)'
        <4>1. i + 1 \in Nat /\ IsSnap(q, i + 1) /\ r[i] = q[i + 1]
          BY <3>2, <3>4, SnapMoves DEF r
        <4>2. wq'[o] = r
          BY <1>1, <3>3
        <4>3. SafeWork(o, i + 1, q[i + 1].ep)
          BY <3>1, <4>1 DEF WorkInv
        <4>4. ASSUME NEW j \in Nat, j > i + 1, IsCleanup(q, j), q[j].ep = q[i + 1].ep
              PROVE  SafeWork(o, i, r[i].ep)'
          <5>1. j # 1
            BY <4>4
          <5>2. j - 1 \in Nat /\ IsCleanup(r, j - 1) /\ r[j - 1] = q[j]
            BY <3>2, <4>4, <5>1, QueueMoves DEF r
          <5>3. j - 1 > i
            BY <4>4
          <5>4. QED
            BY <4>1, <4>2, <4>4, <5>2, <5>3 DEF SafeWork
        <4>5. QED
          BY <2>1, <3>1, <3>3, <4>1, <4>3, <4>4 DEF SafeWork
      <3>5. QED
        BY <1>1, <2>1, <3>3, <3>4, WorkElsewhere
    <2>3. CASE WaddwDestroy(o)
      <3>1. /\ wq' = wq /\ wq[o] = <<>> /\ waddw_epoch' = waddw_epoch
            /\ \A p \in Objs : p # o => waddw'[p] = waddw[p]
        BY <1>1, <2>3 DEF WaddwDestroy
      <3>2. \A p \in Objs : waddw[p] = "flush" =>
                \/ wq[p] = <<>>
                \/ waddw'[p] = "flush" /\ waddw_epoch'[p] = waddw_epoch[p]
        BY <3>1
      <3>3. QED
        BY <1>1, <2>1, <3>1, <3>2, WorkKept
    <2>4. CASE WaddwEpoch(o)
      <3>1. /\ wq' = wq /\ waddw[o] = "epoch"
            /\ \A p \in Objs : p # o =>
                   waddw'[p] = waddw[p] /\ waddw_epoch'[p] = waddw_epoch[p]
        BY <1>1, <2>4 DEF WaddwEpoch, wqvars
      <3>2. \A p \in Objs : waddw[p] = "flush" =>
                waddw'[p] = "flush" /\ waddw_epoch'[p] = waddw_epoch[p]
        BY <3>1
      <3>3. QED
        BY <1>1, <2>1, <3>1, <3>2, WorkKept
    <2>5. CASE FreeObject(o)
      <3>1. UNCHANGED <<wq, waddw, waddw_epoch>>
        BY <2>5 DEF FreeObject, wqvars, waddwvars
      <3>2. QED
        BY <1>1, <2>1, <3>1, WorkKept
    <2>6. QED
      BY <1>5, <2>2, <2>3, <2>4, <2>5 DEF KernelNext
  <1>6. ASSUME Rest \/ UNCHANGED vars
        PROVE  WorkInv'
    <2>1. UNCHANGED <<wq, e, waddw, waddw_epoch, pc, data, ref>>
      BY <1>6 DEF Rest, vars, objvars, wqvars, waddwvars, thrvars
    <2>2. QED
      BY <1>1, <2>1, WorkKept
  <1>7. QED
    BY <1>2, <1>3, <1>4, <1>5, <1>6 DEF Next

-----------------------------------------------------------------------------
(* The theorems.                                                           *)

\* With one mount or umount at a time and no device activated while it is
\* mounted, an active device has an epoch exactly while it is mounted and
\* n_currently_mounted is the number of its mounts whenever no event is under
\* way (__epoch_event_cb_count_mount, __epoch_event_cb_count_umount), although
\* deactivations and writes go on at any time and umounts may be lazy.
THEOREM CountsAreMounts ==
  ASSUME ~OverlapEvents, ~ActivateMounted, ~AllocMayFail
  PROVE  Spec => []CountMatchesMounts
  <1>1. IInv /\ WayInv /\ CountInv /\ [Next]_vars => (IInv /\ WayInv /\ CountInv)'
    BY TypeStep, ObjStep, QueueStep, OwnerStep, WayStep, CountStep DEF IInv
  <1>2. IInv /\ CountInv => CountMatchesMounts
    <2> SUFFICES ASSUME IInv, CountInv, NoEventPending, ht # Null
                 PROVE  /\ e[ht] = Null <=> Up = {}
                        /\ e[ht] # Null => n_currently_mounted[e[ht]] = Cardinality(Up)
      BY DEF CountMatchesMounts
    <2>1. ~MountPending /\ ~UmountPending /\ ~\E a \in Admins : pc[a] = "m_count"
      BY DEF NoEventPending, MountPending, UmountPending, MountPcs, UmountPcs
    <2>2. IsFiniteSet(Up)
      BY DEF CountInv, EventInv
    <2>3. Cardinality(Up) \in Nat /\ (Cardinality(Up) = 0 <=> Up = {})
      BY <2>2, UpFinite
    <2>4. /\ e[ht] = Null => Cardinality(Up) = 0
          /\ e[ht] # Null => n_currently_mounted[e[ht]] + 0 = Cardinality(Up) + 0
          /\ e[ht] # Null => n_currently_mounted[e[ht]] # 0
      BY <2>1 DEF CountInv, TableCount
    <2>5. e[ht] # Null => n_currently_mounted[e[ht]] \in Nat
      <3>1. ht \in Objs /\ e \in [Objs -> Epochs \cup {Null}]
            /\ n_currently_mounted \in [Epochs -> Nat]
        BY DEF IInv, TypeInv, TypeOK
      <3>2. QED
        BY <3>1
    <2>6. QED
      BY <2>3, <2>4, <2>5
  <1>3. Init => IInv /\ WayInv /\ CountInv
    BY InitInv, InitWay, InitCount
  <1>4. QED
    BY <1>1, <1>2, <1>3, PTL DEF Spec

UseInv == IInv /\ WayInv /\ CountInv /\ WriterInv /\ WorkInv

LEMMA InitUse == Init => UseInv
  <1> SUFFICES ASSUME Init PROVE UseInv
    OBVIOUS
  <1>1. WriterInv
    BY DEF Init, WriterInv, Threads
  <1>2. \A o \in Objs : wq[o] = <<>>
    BY DEF Init
  <1>3. WorkInv
    BY <1>2 DEF WorkInv, IsSnap
  <1>4. QED
    BY <1>1, <1>3, InitInv, InitWay, InitCount DEF UseInv

LEMMA UseStep ==
  ASSUME ~LazyUmount, ~OverlapEvents, ~ActivateMounted, ~AllocMayFail
  PROVE  UseInv /\ [Next]_vars => UseInv'
  <1> SUFFICES ASSUME UseInv, [Next]_vars PROVE UseInv'
    OBVIOUS
  <1>1. IInv'
    BY TypeStep, ObjStep, QueueStep, OwnerStep DEF UseInv, IInv
  <1>2. WayInv'
    BY WayStep DEF UseInv
  <1>3. CountInv'
    BY CountStep DEF UseInv
  <1>4. WriterInv'
    BY WriterStep DEF UseInv
  <1>5. WorkInv'
    BY WorkStep DEF UseInv
  <1>6. QED
    BY <1>1, <1>2, <1>3, <1>4, <1>5 DEF UseInv

\* Each kind of owner that SafeWork allows keeps the epoch live, and excludes a
\* cleanup_epoch_work in front of the work.
LEMMA UseNoFreed == UseInv => NoUseAfterFree
  <1> SUFFICES ASSUME UseInv PROVE NoUseAfterFree
    OBVIOUS
  <1>1. /\ wq \in [Objs -> Seq(Works)] /\ e \in [Objs -> Epochs \cup {Null}]
        /\ Null \notin Epochs
        /\ OwnerInv /\ WorkInv /\ WriterInv
        /\ \A w \in Writers : pc[w] = "w_date" => data[w] \in Objs
    BY NullAssumption DEF UseInv, IInv, TypeInv, TypeOK, DataTyped, BusyPcs, RcuPcs,
                          Threads
  <1>2. ASSUME NEW o \in Objs, NEW i \in DOMAIN wq[o], wq[o][i].kind = "snap"
        PROVE  /\ epmem[wq[o][i].ep] = "live"
               /\ \A j \in 1..(i - 1) : wq[o][j] # CleanupWork(wq[o][i].ep)
    <2> DEFINE k == wq[o][i].ep
    <2>1. wq[o] \in Seq(Works) /\ i \in Nat /\ IsSnap(wq[o], i)
      BY <1>1, <1>2 DEF IsSnap
    <2>2. k \in Epochs /\ k # Null
      BY <1>1, <2>1, SnapMoves
    <2>3. SafeWork(o, i, k)
      BY <1>1, <2>1 DEF WorkInv
    <2>4. ASSUME NEW j \in 1..(i - 1), wq[o][j] = CleanupWork(k)
          PROVE  j \in Nat /\ j < i /\ IsCleanup(wq[o], j) /\ wq[o][j].ep = k
      <3>1. j \in Nat /\ j < i /\ j \in DOMAIN wq[o]
        BY <2>1 DEF IsSnap
      <3>2. QED
        BY <2>4, <3>1 DEF IsCleanup, CleanupWork
    <2> HIDE DEF k
    <2>5. SUFFICES /\ epmem[k] = "live"
                   /\ \A j \in Nat : j < i /\ IsCleanup(wq[o], j) => wq[o][j].ep # k
      BY <2>4, <2>5 DEF k
    <2>6. CASE e[o] = k
      BY <1>1, <2>2, <2>6 DEF OwnerInv, ObjOnly, OwnedLive
    <2>7. CASE \E u \in Users : pc[u] = "c_defer" /\ data[u] = o /\ ref[u] = k
      BY <1>1, <2>2, <2>7 DEF OwnerInv, ThreadOnly, OwnedLive
    <2>8. CASE waddw[o] = "flush" /\ waddw_epoch[o] = k
      BY <1>1, <2>2, <2>8 DEF OwnerInv, WaddwOnly, OwnedLive
    <2>9. ASSUME NEW l \in Nat, l > i, IsCleanup(wq[o], l), wq[o][l].ep = k
          PROVE  /\ epmem[k] = "live"
                 /\ \A j \in Nat : j < i /\ IsCleanup(wq[o], j) => wq[o][j].ep # k
      <3>1. epmem[k] = "live"
        BY <1>1, <2>9 DEF OwnerInv, OwnedLive
      <3>2. ASSUME NEW j \in Nat, j < i, IsCleanup(wq[o], j), wq[o][j].ep = k
            PROVE  FALSE
        <4>1. j = l
          BY <1>1, <2>9, <3>2 DEF OwnerInv, WorkUnique
        <4>2. QED
          BY <2>1, <2>9, <3>2, <4>1
      <3>3. QED
        BY <3>1, <3>2
    <2>10. QED
      BY <2>3, <2>6, <2>7, <2>8, <2>9 DEF SafeWork
  <1>3. ASSUME NEW w \in Writers
        PROVE  pc[w] # "oops" /\ (pc[w] = "w_date" => epmem[ref[w]] = "live")
    BY <1>1 DEF WriterInv, OwnerInv, OwnedLive
  <1>4. QED
    BY <1>2, <1>3 DEF NoUseAfterFree

\* When umounts are not lazy either, no queued make_snapshot points into an epoch
\* that is freed before it runs, nor does a writer read the date of a freed epoch
\* or follow a null e (queue_snapshot_work): the mount that is written through
\* keeps the epoch in the object, and what takes it from there frees it behind
\* the works that are queued.
THEOREM NoUseOfFreedEpochs ==
  ASSUME ~LazyUmount, ~OverlapEvents, ~ActivateMounted, ~AllocMayFail
  PROVE  Spec => []NoUseAfterFree
  BY InitUse, UseStep, UseNoFreed, PTL DEF Spec

=============================================================================
