---------------------- MODULE SinglefilefsProbesProofs ----------------------
(***************************************************************************)
(* Proofs about SinglefilefsProbes, for any number of threads, blocks and  *)
(* buckets, any hash function, and every value of the switches: unloads    *)
(* while threads write, faulting copies, missed return probes and buffers  *)
(* of another size included.                                               *)
(***************************************************************************)
EXTENDS SinglefilefsProbes, FiniteSetTheorems, TLAPS

\* Threads enter the table one at a time, so that what the periodic work and
\* the unload hand to call_rcu can be counted
TypeInv == TypeOK /\ IsFiniteSet(linked)

\* Between search and removal of an entry the probe is registered: the unload
\* waits for the handler, and empties the table later.  A thread that BUG stopped
\* has no entry any more
RemovesOwn ==
    \A t \in Threads :
        /\ pc[t] = "remove" => t \in linked /\ module = "loaded"
        /\ pc[t] = "unlink" => t \in linked /\ module \in {"loaded", "no_kretprobes"}
        /\ pc[t] = "oops" => t \notin linked

\* The pcs between the read of a block and the write of the same block
HoldsPcs == {"copy", "dirty", "dirty_inode"}

\* What the entry of an undisturbed thread holds is what its block held
HoldsBefore ==
    \A t \in Threads :
        pc[t] \in HoldsPcs /\ t \in linked /\ clean[t] => block[t] = before[t]

IInv == TypeInv /\ RemovesOwn /\ HoldsBefore /\ SavesWhatItNames

-----------------------------------------------------------------------------
\* Changing a block gives contents of the same block.
LEMMA ChangedType == \A v \in Contents : Changed(v) \in Contents
  BY DEF Contents, Changed

LEMMA InitInv == Init => IInv
  <1> SUFFICES ASSUME Init PROVE IInv
    OBVIOUS
  <1> USE DEF Init
  <1>1. TypeInv
    BY FS_EmptySet, TableAssumption DEF TypeInv, TypeOK, Modules, Pcs, LockedPcs, Contents, Blocks,
       Uninit, NoCall
  <1>2. RemovesOwn /\ HoldsBefore /\ SavesWhatItNames
    BY DEF RemovesOwn, HoldsBefore, HoldsPcs, SavesWhatItNames, NoCall
  <1>3. QED
    BY <1>1, <1>2 DEF IInv

\* The conjuncts of TypeInv are preserved by every action.
LEMMA TypeStep == TypeInv /\ [Next]_vars => TypeInv'
  <1> SUFFICES ASSUME TypeInv, [Next]_vars PROVE TypeInv'
    OBVIOUS
  <1> USE DEF TypeInv, TypeOK, Modules, Pcs, LockedPcs, thrvars, Goto, Leave
  <1>1. ASSUME NEW t \in Threads, NEW b \in Data, VfsWriteEntry(t, b)
        PROVE  TypeInv'
    <2>1. IsFiniteSet(linked') /\ linked' \in SUBSET Threads
      BY <1>1, FS_AddElement DEF VfsWriteEntry
    <2>2. Uninit \in Contents
      BY DEF Uninit, Contents
    <2>3. QED
      BY <1>1, <2>1, <2>2 DEF VfsWriteEntry
  <1>2. ASSUME NEW t \in Threads, ReadSuper(t)
        PROVE  TypeInv'
    <2>1. buf["sb"] \in Contents
      BY DEF Blocks
    <2>2. QED
      BY <1>2, <2>1 DEF ReadSuper, Bread, SbBread
  <1>3. ASSUME NEW t \in Threads, ReadData(t)
        PROVE  TypeInv'
    <2>1. buf[target[t]] \in Contents
      BY DEF Blocks
    <2>2. QED
      BY <1>3, <2>1 DEF ReadData, Bread, SbBread
  <1>4. ASSUME NEW t \in Threads, CopyFromUser(t)
        PROVE  TypeInv'
    <2>1. target[t] \in Blocks /\ Foreign \in Contents
      BY DEF Blocks, Foreign, Contents
    <2>2. buf' \in [Blocks -> Contents]
      BY <1>4, <2>1, ChangedType DEF CopyFromUser
    <2>3. block' \in [Threads -> Contents]
      BY <1>4, <2>1 DEF CopyFromUser, SbBread
    <2>4. clean' = clean \/ clean' = [clean EXCEPT ![t] = FALSE]
      BY <1>4 DEF CopyFromUser
    <2>5. clean' \in [Threads -> BOOLEAN]
      BY <2>4
    <2>6. QED
      BY <1>4, <2>2, <2>3, <2>5 DEF CopyFromUser
  <1>5. ASSUME NEW t \in Threads, DirtyData(t)
        PROVE  TypeInv'
    <2>1. target[t] \in Blocks
      BY DEF Blocks
    <2>2. call' \in [blk : Blocks, val : Contents, was : Contents, clean : BOOLEAN]
      BY <1>5, <2>1 DEF DirtyData, WriteDirty
    <2>3. QED
      BY <1>5, <2>2 DEF DirtyData
  <1>6. ASSUME NEW t \in Threads, ReadInode(t)
        PROVE  TypeInv'
    <2>1. "inode" \in Blocks /\ buf["inode"] \in Contents
      BY DEF Blocks
    <2>2. buf' \in [Blocks -> Contents]
      BY <1>6, <2>1, ChangedType DEF ReadInode
    <2>3. QED
      BY <1>6, <2>1, <2>2 DEF ReadInode, Bread, SbBread
  <1>7. ASSUME NEW t \in Threads, DirtyInode(t)
        PROVE  TypeInv'
    <2>1. "inode" \in Blocks
      BY DEF Blocks
    <2>2. call' \in [blk : Blocks, val : Contents, was : Contents, clean : BOOLEAN]
      BY <1>7, <2>1 DEF DirtyInode, WriteDirty
    <2>3. QED
      BY <1>7, <2>2 DEF DirtyInode
  <1>8. ASSUME NEW t \in Threads, InodeUnlock(t)
        PROVE  TypeInv'
    BY <1>8 DEF InodeUnlock, NoCall, Blocks, Contents, Uninit
  <1>9. ASSUME NEW t \in Threads, VfsWriteReturn(t)
        PROVE  TypeInv'
    BY <1>9 DEF VfsWriteReturn, Uninit, Contents
  <1>10. ASSUME NEW t \in Threads, RemoveThreadentry(t)
        PROVE  TypeInv'
    <2>1. IsFiniteSet(linked')
      BY <1>10, FS_RemoveElement DEF RemoveThreadentry, Unlink
    <2>2. QED
      BY <1>10, <2>1 DEF RemoveThreadentry, Unlink, Uninit, Contents
  <1>11. ASSUME NEW t \in Threads, Die(t)
        PROVE  TypeInv'
    BY <1>11 DEF Die, Uninit, Contents
  <1>12. ASSUME PeriodicTaskcheck PROVE TypeInv'
    <2> DEFINE end == IF next_bktnr + Stride < Buckets
                      THEN next_bktnr + Stride ELSE Buckets
               orphans == {t \in linked : /\ next_bktnr <= Hash[t]
                                          /\ Hash[t] < end
                                          /\ ~TaskAlive(t)}
    <2>1. orphans \in SUBSET linked
      OBVIOUS
    <2>2. Cardinality(orphans) \in Nat
      BY <2>1, FS_Subset, FS_CardinalityType
    <2>3. IsFiniteSet(linked \ orphans)
      BY FS_Difference
    <2>4. NextBucket(end) \in 0..(2 * Buckets - 1)
      BY TableAssumption DEF NextBucket
    <2>5. /\ linked' = linked \ orphans
          /\ pending' = pending + Cardinality(orphans)
          /\ next_bktnr' = NextBucket(end)
          /\ UNCHANGED <<module, thrvars, block, buf, call>>
      BY <1>12 DEF PeriodicTaskcheck
    <2> HIDE DEF end, orphans
    <2>6. QED
      BY <2>1, <2>2, <2>3, <2>4, <2>5
  <1>13. ASSUME RcuCallback PROVE TypeInv'
    BY <1>13 DEF RcuCallback
  <1>14. ASSUME UnregisterKretprobes PROVE TypeInv'
    BY <1>14 DEF UnregisterKretprobes
  <1>15. ASSUME UnregisterKprobes PROVE TypeInv'
    BY <1>15 DEF UnregisterKprobes
  <1>16. ASSUME CancelTaskcheck PROVE TypeInv'
    BY <1>16 DEF CancelTaskcheck
  <1>17. ASSUME CleanupTable PROVE TypeInv'
    <2>1. Cardinality(linked) \in Nat
      BY FS_CardinalityType
    <2>2. QED
      BY <1>17, <2>1, FS_EmptySet DEF CleanupTable
  <1>18. ASSUME Unload PROVE TypeInv'
    BY <1>18 DEF Unload
  <1>19. ASSUME NEW t \in Threads, RemoveAndBug(t)
        PROVE  TypeInv'
    <2>1. IsFiniteSet(linked')
      BY <1>19, FS_RemoveElement DEF RemoveAndBug, Unlink
    <2>2. QED
      BY <1>19, <2>1 DEF RemoveAndBug, Unlink, Uninit, Contents
  <1>20. CASE UNCHANGED vars
    BY <1>20 DEF vars, thrvars
  <1>21. QED
    BY <1>1, <1>2, <1>3, <1>4, <1>5, <1>6, <1>7, <1>8, <1>9, <1>10, <1>11, <1>12, <1>13, <1>14, <1>15, <1>16, <1>17, <1>18, <1>19,
       <1>20
       DEF Next, ThreadSteps, Rest

\* An entry that is about to be removed stays in the table.
LEMMA RemoveStep == TypeInv /\ RemovesOwn /\ [Next]_vars => RemovesOwn'
  <1> SUFFICES ASSUME TypeInv, RemovesOwn, [Next]_vars PROVE RemovesOwn'
    OBVIOUS
  <1> USE DEF TypeInv, TypeOK, RemovesOwn, thrvars, Goto, Leave
  <1>1. ASSUME NEW t \in Threads, NEW b \in Data, VfsWriteEntry(t, b)
        PROVE  RemovesOwn'
    BY <1>1 DEF VfsWriteEntry
  <1>2. ASSUME NEW t \in Threads, ReadSuper(t)
        PROVE  RemovesOwn'
    BY <1>2 DEF ReadSuper
  <1>3. ASSUME NEW t \in Threads, ReadData(t)
        PROVE  RemovesOwn'
    BY <1>3 DEF ReadData
  <1>4. ASSUME NEW t \in Threads, CopyFromUser(t)
        PROVE  RemovesOwn'
    BY <1>4 DEF CopyFromUser
  <1>5. ASSUME NEW t \in Threads, DirtyData(t)
        PROVE  RemovesOwn'
    BY <1>5 DEF DirtyData, WrongSize, KprobesOn
  <1>6. ASSUME NEW t \in Threads, ReadInode(t)
        PROVE  RemovesOwn'
    BY <1>6 DEF ReadInode
  <1>7. ASSUME NEW t \in Threads, DirtyInode(t)
        PROVE  RemovesOwn'
    BY <1>7 DEF DirtyInode, WrongSize, KprobesOn
  <1>8. ASSUME NEW t \in Threads, InodeUnlock(t)
        PROVE  RemovesOwn'
    BY <1>8 DEF InodeUnlock
  <1>9. ASSUME NEW t \in Threads, VfsWriteReturn(t)
        PROVE  RemovesOwn'
    BY <1>9 DEF VfsWriteReturn, KretprobesOn
  <1>10. ASSUME NEW t \in Threads, RemoveThreadentry(t)
        PROVE  RemovesOwn'
    BY <1>10 DEF RemoveThreadentry, Unlink
  <1>11. ASSUME NEW t \in Threads, Die(t)
        PROVE  RemovesOwn'
    BY <1>11 DEF Die
  <1>12. ASSUME PeriodicTaskcheck PROVE RemovesOwn'
    BY <1>12 DEF PeriodicTaskcheck, TaskAlive
  <1>13. ASSUME RcuCallback PROVE RemovesOwn'
    BY <1>13 DEF RcuCallback
  <1>14. ASSUME UnregisterKretprobes PROVE RemovesOwn'
    BY <1>14 DEF UnregisterKretprobes
  <1>15. ASSUME UnregisterKprobes PROVE RemovesOwn'
    BY <1>15 DEF UnregisterKprobes
  <1>16. ASSUME CancelTaskcheck PROVE RemovesOwn'
    BY <1>16 DEF CancelTaskcheck
  <1>17. ASSUME CleanupTable PROVE RemovesOwn'
    BY <1>17 DEF CleanupTable
  <1>18. ASSUME Unload PROVE RemovesOwn'
    BY <1>18 DEF Unload
  <1>19. ASSUME NEW t \in Threads, RemoveAndBug(t)
        PROVE  RemovesOwn'
    BY <1>19 DEF RemoveAndBug, Unlink
  <1>20. CASE UNCHANGED vars
    BY <1>20 DEF vars, thrvars
  <1>21. QED
    BY <1>1, <1>2, <1>3, <1>4, <1>5, <1>6, <1>7, <1>8, <1>9, <1>10, <1>11, <1>12, <1>13, <1>14, <1>15, <1>16, <1>17, <1>18, <1>19,
       <1>20
       DEF Next, ThreadSteps, Rest

\* What an entry holds is replaced when the next block is read, and not before.
LEMMA HoldsStep == TypeInv /\ HoldsBefore /\ [Next]_vars => HoldsBefore'
  <1> SUFFICES ASSUME TypeInv, HoldsBefore, [Next]_vars PROVE HoldsBefore'
    OBVIOUS
  <1> USE DEF TypeInv, TypeOK, HoldsBefore, HoldsPcs, thrvars, Goto, Leave
  <1>1. ASSUME NEW t \in Threads, NEW b \in Data, VfsWriteEntry(t, b)
        PROVE  HoldsBefore'
    BY <1>1 DEF VfsWriteEntry
  <1>2. ASSUME NEW t \in Threads, ReadSuper(t)
        PROVE  HoldsBefore'
    BY <1>2 DEF ReadSuper, Bread, SbBread
  <1>3. ASSUME NEW t \in Threads, ReadData(t)
        PROVE  HoldsBefore'
    BY ZenonT(30), <1>3 DEF ReadData, Bread, SbBread
  <1>4. ASSUME NEW t \in Threads, CopyFromUser(t)
        PROVE  HoldsBefore'
    BY <1>4 DEF CopyFromUser, SbBread
  <1>5. ASSUME NEW t \in Threads, DirtyData(t)
        PROVE  HoldsBefore'
    BY <1>5 DEF DirtyData
  <1>6. ASSUME NEW t \in Threads, ReadInode(t)
        PROVE  HoldsBefore'
    <2>1. \A x \in Threads \ {t} :
             /\ pc'[x] = pc[x] /\ clean'[x] = clean[x] /\ block'[x] = block[x]
             /\ before'[x] = before[x]
      BY <1>6 DEF ReadInode, Bread, SbBread
    <2>2. ASSUME t \in linked, clean'[t] PROVE block'[t] = before'[t]
      BY <1>6, <2>2 DEF ReadInode, Bread, SbBread
    <2>3. linked' = linked
      BY <1>6 DEF ReadInode
    <2>4. QED
      BY <2>1, <2>2, <2>3
  <1>7. ASSUME NEW t \in Threads, DirtyInode(t)
        PROVE  HoldsBefore'
    BY <1>7 DEF DirtyInode
  <1>8. ASSUME NEW t \in Threads, InodeUnlock(t)
        PROVE  HoldsBefore'
    BY <1>8 DEF InodeUnlock
  <1>9. ASSUME NEW t \in Threads, VfsWriteReturn(t)
        PROVE  HoldsBefore'
    BY <1>9 DEF VfsWriteReturn
  <1>10. ASSUME NEW t \in Threads, RemoveThreadentry(t)
        PROVE  HoldsBefore'
    BY <1>10 DEF RemoveThreadentry, Unlink
  <1>11. ASSUME NEW t \in Threads, Die(t)
        PROVE  HoldsBefore'
    BY <1>11 DEF Die
  <1>12. ASSUME PeriodicTaskcheck PROVE HoldsBefore'
    BY <1>12 DEF PeriodicTaskcheck
  <1>13. ASSUME RcuCallback PROVE HoldsBefore'
    BY <1>13 DEF RcuCallback
  <1>14. ASSUME UnregisterKretprobes PROVE HoldsBefore'
    BY <1>14 DEF UnregisterKretprobes
  <1>15. ASSUME UnregisterKprobes PROVE HoldsBefore'
    BY <1>15 DEF UnregisterKprobes
  <1>16. ASSUME CancelTaskcheck PROVE HoldsBefore'
    BY <1>16 DEF CancelTaskcheck
  <1>17. ASSUME CleanupTable PROVE HoldsBefore'
    BY <1>17 DEF CleanupTable
  <1>18. ASSUME Unload PROVE HoldsBefore'
    BY <1>18 DEF Unload
  <1>19. ASSUME NEW t \in Threads, RemoveAndBug(t)
        PROVE  HoldsBefore'
    BY <1>19 DEF RemoveAndBug, Unlink
  <1>20. CASE UNCHANGED vars
    BY <1>20 DEF vars, thrvars
  <1>21. QED
    BY <1>1, <1>2, <1>3, <1>4, <1>5, <1>6, <1>7, <1>8, <1>9, <1>10, <1>11, <1>12, <1>13, <1>14, <1>15, <1>16, <1>17, <1>18, <1>19,
       <1>20
       DEF Next, ThreadSteps, Rest

\* write_dirty_buffer_pre_handler passes on what the entry holds.
LEMMA SavesStep == TypeInv /\ HoldsBefore /\ SavesWhatItNames /\ [Next]_vars => SavesWhatItNames'
  <1> SUFFICES ASSUME TypeInv, HoldsBefore, SavesWhatItNames, [Next]_vars PROVE SavesWhatItNames'
    OBVIOUS
  <1> USE DEF TypeInv, TypeOK, HoldsBefore, HoldsPcs, SavesWhatItNames, thrvars
  <1>1. ASSUME NEW t \in Threads, NEW b \in Data, VfsWriteEntry(t, b)
        PROVE  SavesWhatItNames'
    BY <1>1 DEF VfsWriteEntry
  <1>2. ASSUME NEW t \in Threads, ReadSuper(t)
        PROVE  SavesWhatItNames'
    BY <1>2 DEF ReadSuper
  <1>3. ASSUME NEW t \in Threads, ReadData(t)
        PROVE  SavesWhatItNames'
    BY <1>3 DEF ReadData
  <1>4. ASSUME NEW t \in Threads, CopyFromUser(t)
        PROVE  SavesWhatItNames'
    BY <1>4 DEF CopyFromUser
  <1>5. ASSUME NEW t \in Threads, DirtyData(t)
        PROVE  SavesWhatItNames'
    BY <1>5 DEF DirtyData, WriteDirty
  <1>6. ASSUME NEW t \in Threads, ReadInode(t)
        PROVE  SavesWhatItNames'
    BY <1>6 DEF ReadInode
  <1>7. ASSUME NEW t \in Threads, DirtyInode(t)
        PROVE  SavesWhatItNames'
    BY <1>7 DEF DirtyInode, WriteDirty
  <1>8. ASSUME NEW t \in Threads, InodeUnlock(t)
        PROVE  SavesWhatItNames'
    BY <1>8 DEF InodeUnlock, NoCall
  <1>9. ASSUME NEW t \in Threads, VfsWriteReturn(t)
        PROVE  SavesWhatItNames'
    BY <1>9 DEF VfsWriteReturn
  <1>10. ASSUME NEW t \in Threads, RemoveThreadentry(t)
        PROVE  SavesWhatItNames'
    BY <1>10 DEF RemoveThreadentry
  <1>11. ASSUME NEW t \in Threads, Die(t)
        PROVE  SavesWhatItNames'
    BY <1>11 DEF Die
  <1>12. ASSUME PeriodicTaskcheck PROVE SavesWhatItNames'
    BY <1>12 DEF PeriodicTaskcheck
  <1>13. ASSUME RcuCallback PROVE SavesWhatItNames'
    BY <1>13 DEF RcuCallback
  <1>14. ASSUME UnregisterKretprobes PROVE SavesWhatItNames'
    BY <1>14 DEF UnregisterKretprobes
  <1>15. ASSUME UnregisterKprobes PROVE SavesWhatItNames'
    BY <1>15 DEF UnregisterKprobes
  <1>16. ASSUME CancelTaskcheck PROVE SavesWhatItNames'
    BY <1>16 DEF CancelTaskcheck
  <1>17. ASSUME CleanupTable PROVE SavesWhatItNames'
    BY <1>17 DEF CleanupTable
  <1>18. ASSUME Unload PROVE SavesWhatItNames'
    BY <1>18 DEF Unload
  <1>19. ASSUME NEW t \in Threads, RemoveAndBug(t)
        PROVE  SavesWhatItNames'
    BY <1>19 DEF RemoveAndBug
  <1>20. CASE UNCHANGED vars
    BY <1>20 DEF vars, thrvars
  <1>21. QED
    BY <1>1, <1>2, <1>3, <1>4, <1>5, <1>6, <1>7, <1>8, <1>9, <1>10, <1>11, <1>12, <1>13, <1>14, <1>15, <1>16, <1>17, <1>18, <1>19,
       <1>20
       DEF Next, ThreadSteps, Rest

\* The inductive invariant holds.
LEMMA Invariance == Spec => []IInv
  <1>1. IInv /\ [Next]_vars => IInv'
    BY TypeStep, RemoveStep, HoldsStep, SavesStep DEF IInv
  <1>2. QED
    BY InitInv, <1>1, PTL DEF Spec

\* Every variable has its type, and next_bktnr stays below twice the number of
\* buckets, for every stride.
THEOREM TypeCorrect == Spec => []TypeOK
  <1>1. IInv => TypeOK
    BY DEF IInv, TypeInv
  <1>2. QED
    BY Invariance, <1>1, PTL

\* What bdsnap_make_snapshot is given under a block's number is what the block
\* held, for every number of threads and at any stage of an unload.
THEOREM BlockAndNumberMatch == Spec => []SavesWhatItNames
  <1>1. IInv => SavesWhatItNames
    BY DEF IInv
  <1>2. QED
    BY Invariance, <1>1, PTL

\* The entry that vfs_write_handler or write_dirty_buffer_pre_handler found is
\* still in the table when it removes it after rcu_read_unlock: neither the
\* periodic work nor an unload can hand it to call_rcu as well.
THEOREM EntriesRemovedOnce == Spec => []EntryStillLinked
  <1>1. IInv => EntryStillLinked
    BY DEF IInv, RemovesOwn, EntryStillLinked
  <1>2. QED
    BY Invariance, <1>1, PTL

\* The entry of a live thread leaves the table by the thread's own vfs_write, by
\* the unload, or by the write_dirty_buffer handler, which stops the thread.
THEOREM OnlyExitsRemove == Spec => OnlyExitRemoves
  <1> DEFINE A == \A t \in linked \ linked' :
                    \/ pc[t] \in {"remove", "dead"} \/ module = "cancelled"
                    \/ pc[t] = "unlink" /\ pc'[t] = "oops"
  <1>1. IInv /\ [Next]_vars => [A]_vars
    <2> SUFFICES ASSUME IInv, Next PROVE A
      OBVIOUS
    <2>0. pc \in [Threads -> Pcs] /\ linked \subseteq Threads
      BY DEF IInv, TypeInv, TypeOK
    <2>1. ASSUME NEW t \in Threads, RemoveThreadentry(t) \/ RemoveAndBug(t) PROVE A
      BY <2>0, <2>1 DEF RemoveThreadentry, RemoveAndBug, Unlink, Goto
    <2>2. CASE PeriodicTaskcheck
      <3>1. ASSUME NEW t \in linked \ linked'
            PROVE  pc[t] \in {"dead", "oops"} /\ t \in Threads
        BY <2>0, <2>2, <3>1 DEF PeriodicTaskcheck, TaskAlive
      <3>2. QED
        BY <3>1 DEF IInv, RemovesOwn
    <2>3. CASE CleanupTable
      BY <2>3 DEF CleanupTable
    <2>4. ASSUME linked \subseteq linked' PROVE A
      BY <2>4
    <2>5. ASSUME NEW t \in Threads, NEW b \in Data, VfsWriteEntry(t, b) PROVE A
      BY <2>4, <2>5 DEF VfsWriteEntry
    <2>6. ASSUME NEW t \in Threads, ThreadSteps(t) \/ Die(t) PROVE A
      BY <2>1, <2>4, <2>6 DEF ThreadSteps, Die, ReadSuper, ReadData,
         CopyFromUser, DirtyData, ReadInode, DirtyInode, InodeUnlock,
         VfsWriteReturn
    <2>7. QED
      BY <2>2, <2>3, <2>4, <2>5, <2>6
         DEF Next, RcuCallback, UnregisterKretprobes, UnregisterKprobes,
             CancelTaskcheck, Unload, Rest, vars
  <1>2. QED
    BY Invariance, <1>1, PTL DEF Spec, OnlyExitRemoves

=============================================================================
