---------------------- MODULE SnapshotRefinementProofs ----------------------
(***************************************************************************)
(* Proofs about what SnapshotWork promises for the devices on which        *)
(* nothing fails but the addition to the cache: no block is lost on its    *)
(* way to the file, the records are what the blocks held when the epoch    *)
(* began, SnapshotWork implements SnapshotSpec, and blkdev-restore, run on *)
(* the snapshots from the last one back, gives the device of that time.    *)
(***************************************************************************)
EXTENDS SnapshotWorkProofs, WellFoundedInduction

\* A second device, and a vfs_mkdir that tells -EEXIST from success, can make
\* a work give up when another device's work has made /snapshot meanwhile
OneDevice == \A x, y \in Devs : x = y
NoMkdirRace == ~NewMkdir \/ OneDevice

\* Nothing stops the works of these devices
Sure(d) == d \in Reliable /\ NoMkdirRace

-----------------------------------------------------------------------------
(* The way to the file.                                                    *)

\* A work knows where it is going, and before it closes the file the block is
\* there
ReachInv(d) ==
    /\ pc[d] \in {"sub", "mksub"} => dsnap[d] # 0
    /\ pc[d] = "file" => path[d][Work(d).ep] # 0
    /\ pc[d] = "fput" => Has(recs[Dir(d)], Work(d).blk)

\* Nobody but the device's own work makes /snapshot when it is alone
TopInv == OneDevice => \A d \in Devs : pc[d] = "mktop" => ~top

\* Epochs begin one after the other in time, and a second that is still to
\* come has no file
DatesInv(d) ==
    /\ \A k \in 1..epoch[d] : date[d][k] \in 1..LastDate(d)
    /\ \A t \in Dates : t > LastDate(d) => recs[<<d, t>>] = <<>>

WayInv ==
    /\ TopInv
    /\ \A d \in Devs : DatesInv(d) /\ (Sure(d) /\ gen = 1 => ReachInv(d))

\* The works of a device it can rely on: one goes on, writes the record the
\* file does not have yet, or ends with the block in the file.
GoesOnOnly(d) == queue'[d] = queue[d] /\ recs' = recs
Records1(d) ==
    /\ pc[d] = "write" /\ queue'[d] = queue[d]
    /\ ~Has(recs[Dir(d)], Work(d).blk)
    /\ recs' = [recs EXCEPT ![Dir(d)] =
                   Append(@, [blk |-> Work(d).blk, val |-> Work(d).val, cut |-> FALSE])]
Ends(d) ==
    /\ queue[d] # <<>> /\ queue'[d] = Tail(queue[d]) /\ recs' = recs
    /\ Work(d).kind = "snap" => Has(recs[Dir(d)], Work(d).blk)

LEMMA SureSteps ==
  ASSUME TypeInv, TypeInv', TopInv, NEW d \in Devs, Sure(d), gen = 1, WorkNext(d),
         ReachInv(d), CacheInv(d), FileInv(d), SavedInv(d)
  PROVE  /\ GoesOnOnly(d) \/ Records1(d) \/ Ends(d)
         /\ UNCHANGED <<devvars, epvars, gen>>
         /\ ReachInv(d)'
  <1> DEFINE k == Work(d).ep
             b == Work(d).blk
             n == Dir(d)
             Good == /\ GoesOnOnly(d) \/ Records1(d) \/ Ends(d)
                     /\ UNCHANGED <<devvars, epvars, gen>>
                     /\ ReachInv(d)'
  <1> USE DEF devvars, epvars, cachevars, fsvars
  <1>1. /\ pc \in [Devs -> Pcs]
        /\ queue \in [Devs -> Seq(SnapWorks \cup CleanupWorks)]
        /\ dsnap \in [Devs -> Nat]
        /\ path \in [Devs -> [EpochNrs -> Nat]]
        /\ recs \in [Devs \X Dates -> Seq(Records)]
        /\ filp \in [Devs -> [gen : Nat, recs : Seq(Records)]]
    BY DEF TypeInv, TypeOK
  <1>2. \A what : CanFail(d, what) => what = "lru_add"
    BY DEF Sure, Reliable, CanFail
  <1>3. ASSUME pc[d] # "idle"
        PROVE  /\ queue[d] # <<>> /\ k \in EpochNrs /\ k <= epoch[d] /\ b \in Blocks
               /\ n \in Devs \X Dates /\ n = <<d, date[d][k]>> /\ date[d][k] \in Dates
               /\ Work(d) \in SnapWorks
    BY ZenonT(30), <1>3, Running DEF TypeInv, TypeOK
  <1>4. ASSUME Finish(d)
        PROVE  pc'[d] = "idle" /\ queue'[d] = Tail(queue[d])
    BY <1>1, <1>4 DEF Finish, Goto
  <1>5. ASSUME pc'[d] = "idle" PROVE ReachInv(d)'
    BY <1>5 DEF ReachInv
  <1>6. CASE StartWork(d)
    <2>1. /\ queue[d] # <<>> /\ Work(d).kind = "snap"
          /\ UNCHANGED <<devvars, epvars, fsvars>>
          /\ \/ Contains(lru[d][k], b) /\ Finish(d)
             \/ Goto(d, "dir") /\ UNCHANGED queue
      BY <1>2, <1>6 DEF StartWork
    <2>2. CASE Goto(d, "dir") /\ UNCHANGED queue
      <3>1. pc'[d] = "dir"
        BY <1>1, <2>2 DEF Goto
      <3>2. QED
        BY <2>1, <2>2, <3>1 DEF GoesOnOnly, ReachInv
    <2>3. CASE Contains(lru[d][k], b) /\ Finish(d)
      <3>1. b \in Blocks /\ k \in 1..epoch[d] /\ n = <<d, date[d][k]>>
        <4>1. /\ Work(d) \in SnapWorks /\ k \in EpochNrs /\ k <= epoch[d]
              /\ n = <<d, date[d][k]>>
          BY <2>1, HeadWork DEF Dir
        <4>2. QED
          BY <4>1 DEF SnapWorks, EpochNrs
      <3>2. Has(recs[n], b)
        BY <2>3, <3>1 DEF SavedInv
      <3>3. QED
        BY <1>4, <1>5, <2>1, <2>3, <3>2 DEF Ends
    <2>4. QED
      BY <2>1, <2>2, <2>3
  <1>7. CASE EnsureDir(d)
    <2>1. /\ pc[d] = "dir" /\ pc'[d] \in {"file", "top"}
          /\ UNCHANGED <<devvars, epvars, fsvars, queue>>
          /\ pc'[d] = "file" => path[d][k] = gen /\ path' = path
      BY <1>1, <1>7 DEF EnsureDir, Goto
    <2>2. Work(d)' = Work(d) /\ GoesOnOnly(d)
      BY <2>1 DEF GoesOnOnly, Work
    <2>3. QED
      BY <2>1, <2>2 DEF ReachInv
  <1>8. CASE LookupTop(d) \/ MkdirTop(d)
    <2>1. /\ pc[d] \in {"top", "mktop"}
          /\ UNCHANGED <<devvars, epvars, gen, recs, path>>
      BY <1>8 DEF LookupTop, MkdirTop
    <2>2. \/ dsnap' = [dsnap EXCEPT ![d] = gen] /\ Goto(d, "sub") /\ UNCHANGED queue
          \/ Goto(d, "mktop") /\ UNCHANGED queue
      <3>1. CASE LookupTop(d)
        BY <1>2, <3>1 DEF LookupTop
      <3>2. CASE MkdirTop(d)
        <4>1. ~(top /\ NewMkdir)
          BY <3>2 DEF MkdirTop, TopInv, Sure, NoMkdirRace
        <4>2. QED
          BY <1>2, <3>2, <4>1 DEF MkdirTop
      <3>3. QED
        BY <1>8, <3>1, <3>2
    <2>3. pc'[d] = "mktop" \/ (pc'[d] = "sub" /\ dsnap'[d] = gen)
      BY <1>1, <2>2 DEF Goto
    <2>4. GoesOnOnly(d)
      BY <2>1, <2>2 DEF GoesOnOnly
    <2>5. QED
      BY <2>1, <2>3, <2>4 DEF ReachInv
  <1>9. CASE LookupSub(d) \/ MkdirSub(d)
    <2>1. dsnap[d] = gen
      <3>1. dsnap[d] # 0 /\ dsnap[d] <= gen /\ dsnap[d] \in Nat
        BY <1>1, <1>9 DEF LookupSub, MkdirSub, ReachInv, TypeInv, PathsExist
      <3>2. QED
        BY <3>1
    <2>2. /\ pc[d] \in {"sub", "mksub"}
          /\ UNCHANGED <<devvars, epvars, gen, recs, queue>>
          /\ \/ /\ path' = [path EXCEPT ![d][k] = dsnap[d]]
                /\ Goto(d, "file")
             \/ Goto(d, "mksub") /\ UNCHANGED dsnap
      BY <1>2, <1>9, <2>1 DEF LookupSub, MkdirSub, TakePath
    <2>3. k \in EpochNrs /\ Work(d)' = Work(d)
      BY <1>3, <2>2 DEF Work
    <2>4. \/ pc'[d] = "file" /\ path'[d][k] = gen
          \/ pc'[d] = "mksub" /\ dsnap'[d] = gen
      BY <1>1, <2>1, <2>2, <2>3 DEF Goto
    <2>5. QED
      BY <2>2, <2>3, <2>4 DEF ReachInv, GoesOnOnly
  <1>10. CASE OpenFile(d)
    <2>1. path[d][k] = gen
      <3>1. k \in EpochNrs /\ path[d][k] # 0
        BY <1>3, <1>10 DEF OpenFile, ReachInv
      <3>2. path[d][k] <= gen /\ path[d][k] \in Nat
        BY <3>1 DEF TypeInv, TypeOK, PathsExist
      <3>3. QED
        BY <3>1, <3>2
    <2>2. /\ UNCHANGED <<devvars, epvars, gen, recs, queue>>
          /\ Goto(d, "lookup")
      BY <1>2, <1>10, <2>1 DEF OpenFile, CreateFile
    <2>3. pc'[d] = "lookup"
      BY <1>1, <2>2 DEF Goto
    <2>4. QED
      BY <2>2, <2>3 DEF ReachInv, GoesOnOnly
  <1>11. CASE SearchFile(d)
    <2>1. /\ UNCHANGED <<devvars, epvars, gen, recs, queue>>
          /\ pc'[d] \in {"add", "write"}
      BY <1>1, <1>11 DEF SearchFile, Goto
    <2>2. QED
      BY <2>1 DEF ReachInv, GoesOnOnly
  <1>12. CASE WriteRecord(d)
    <2> DEFINE r == [blk |-> b, val |-> Work(d).val, cut |-> FALSE]
    <2>1. /\ pc[d] = "write" /\ pc'[d] = "fput"
          /\ UNCHANGED <<devvars, epvars, gen, queue>>
          /\ AppendRecord(d, FALSE)
      BY <1>1, <1>2, <1>12 DEF WriteRecord, Goto
    <2>2. filp[d].gen = gen
      BY <2>1 DEF FileInv, OpenPcs
    <2>3. recs' = [recs EXCEPT ![n] = Append(@, r)] /\ ~Has(recs[n], b)
      BY <2>1, <2>2 DEF AppendRecord, SavedInv, OpenPcs
    <2>4. Records1(d)
      BY <2>1, <2>3 DEF Records1
    <2>5. Has(recs'[n], b)
      <3>1. n \in Devs \X Dates /\ recs[n] \in Seq(Records) /\ r \in Records /\ r.blk = b
        BY <1>1, <1>3, <2>1 DEF Records, SnapWorks
      <3>2. \A i \in DOMAIN recs[n] : ~recs[n][i].cut
        BY <1>3, <2>1 DEF SavedInv
      <3> HIDE DEF r
      <3>3. Has(Append(recs[n], r), b)
        BY <3>1, <3>2, AppendFacts
      <3>4. QED
        BY <1>1, <2>3, <3>1, <3>3
    <2>6. Work(d)' = Work(d) /\ Dir(d)' = n
      BY <2>1 DEF Work, Dir
    <2>7. QED
      BY <2>1, <2>4, <2>5, <2>6 DEF ReachInv
  <1>13. CASE AddToLru(d)
    <2>1. /\ pc[d] = "add" /\ pc'[d] = "fput"
          /\ UNCHANGED <<devvars, epvars, fsvars, queue>>
      BY <1>1, <1>13 DEF AddToLru, Goto
    <2>2. Has(recs[n], b)
      BY <2>1 DEF FileInv, SavedInv, OpenPcs
    <2>3. Work(d)' = Work(d) /\ Dir(d)' = n
      BY <2>1 DEF Work, Dir
    <2>4. QED
      BY <2>1, <2>2, <2>3 DEF ReachInv, GoesOnOnly
  <1>14. CASE EndWork(d)
    <2>1. pc[d] = "fput" /\ Finish(d) /\ UNCHANGED <<devvars, epvars, fsvars>>
      BY <1>14 DEF EndWork
    <2>2. Has(recs[n], b) /\ queue[d] # <<>>
      BY <1>3, <2>1 DEF ReachInv
    <2>3. QED
      BY <1>4, <1>5, <2>1, <2>2 DEF Ends
  <1>15. CASE CleanupEpoch(d)
    <2>1. /\ queue[d] # <<>> /\ Work(d).kind = "cleanup"
          /\ Finish(d) /\ UNCHANGED <<devvars, epvars, fsvars>>
      BY <1>15 DEF CleanupEpoch
    <2>2. QED
      BY <1>4, <1>5, <2>1 DEF Ends
  <1>16. QED
    BY <1>6, <1>7, <1>8, <1>9, <1>10, <1>11, <1>12, <1>13, <1>14, <1>15 DEF WorkNext

LEMMA ReachFrame ==
  ASSUME TypeInv, NEW d \in Devs, Frame(d), ReachInv(d)
  PROVE  ReachInv(d)'
  <1>1. pc'[d] # "idle" => \E t \in Dates : Dir(d) = <<d, t>>
    BY Running DEF Frame, TypeInv, TypeOK
  <1>2. pc'[d] = "fput" => Has(recs'[Dir(d)'], Work(d)'.blk)
    BY <1>1 DEF Frame, ReachInv
  <1>3. QED
    BY <1>2 DEF Frame, ReachInv, Has, Work, Dir

LEMMA TopStep == TypeInv /\ TopInv /\ [Next]_vars => TopInv'
  <1> SUFFICES ASSUME TypeInv, TopInv, [Next]_vars, OneDevice, NEW x \in Devs,
                      pc'[x] = "mktop"
               PROVE  ~top'
    BY DEF TopInv, OneDevice
  <1> USE DEF devvars, epvars, cachevars, fsvars
  <1>1. pc \in [Devs -> Pcs] /\ (pc[x] = "mktop" => ~top)
    BY DEF TypeInv, TypeOK, TopInv
  <1>2. ASSUME NEW d \in Devs, WorkNext(d)
        PROVE  ~top'
    <2>0. d = x
      BY DEF OneDevice
    <2> USE DEF Goto, Finish, TakePath
    <2>1. CASE StartWork(d) \/ EnsureDir(d) \/ LookupTop(d)
      BY <1>1, <2>0, <2>1 DEF StartWork, EnsureDir, LookupTop
    <2>2. CASE MkdirTop(d) \/ LookupSub(d) \/ MkdirSub(d)
      BY <1>1, <2>0, <2>2 DEF MkdirTop, LookupSub, MkdirSub, MkdirFails
    <2>3. CASE OpenFile(d) \/ SearchFile(d) \/ WriteRecord(d)
      BY <1>1, <2>0, <2>3 DEF OpenFile, CreateFile, SearchFile, WriteRecord
    <2>4. CASE AddToLru(d) \/ EndWork(d) \/ CleanupEpoch(d)
      BY <1>1, <2>0, <2>4 DEF AddToLru, EndWork, CleanupEpoch
    <2>5. QED
      BY <1>2, <2>1, <2>2, <2>3, <2>4 DEF WorkNext
  <1>3. CASE \/ \E d \in Devs : Mount(d) \/ Umount(d)
             \/ \E d \in Devs, b \in Blocks, v \in Contents : Write(d, b, v)
             \/ UNCHANGED vars
    BY <1>1, <1>3 DEF Mount, Umount, Write, vars
  <1>4. CASE RemoveSnapshots
    BY <1>4 DEF RemoveSnapshots
  <1>5. QED
    BY <1>2, <1>3, <1>4 DEF Next, Rest

\* The date of an epoch that has begun is not after the last one.
LEMMA LastDateFacts ==
  ASSUME TypeInv, NEW d \in Devs
  PROVE  /\ epoch[d] \in 0..MaxEpoch /\ MaxEpoch \in Nat /\ epoch[d] \in Nat
         /\ 1..epoch[d] \subseteq EpochNrs
         /\ LastDate(d) \in Dates /\ LastDate(d) \in Nat
         /\ \A k \in 1..epoch[d] : date[d][k] \in Dates /\ date[d][k] \in Nat
         /\ epoch[d] # 0 => epoch[d] \in 1..epoch[d] /\ LastDate(d) = date[d][epoch[d]]
  <1>1. epoch[d] \in 0..MaxEpoch /\ MaxEpoch \in Nat /\ epoch[d] \in Nat
    BY BoundsAssumption DEF TypeInv, TypeOK
  <1>2. 1..epoch[d] \subseteq EpochNrs
    BY <1>1 DEF EpochNrs
  <1>3. ASSUME NEW k \in 1..epoch[d] PROVE date[d][k] \in Dates /\ date[d][k] \in Nat
    <2>1. k \in EpochNrs
      BY <1>2
    <2>2. date[d][k] \in Dates
      BY <2>1 DEF TypeInv, TypeOK
    <2>3. QED
      BY <2>2 DEF Dates
  <1>4. epoch[d] # 0 => epoch[d] \in 1..epoch[d]
    BY <1>1
  <1>5. LastDate(d) \in Dates /\ LastDate(d) \in Nat
    BY <1>1, <1>3, <1>4 DEF LastDate, Dates
  <1>6. QED
    BY <1>1, <1>2, <1>3, <1>4, <1>5 DEF LastDate

\* An epoch that begins is dated to the second of the last one or to a later
\* one, and the epochs before it keep their dates.
LEMMA MountFacts ==
  ASSUME TypeInv, TypeInv', NEW d \in Devs, Mount(d)
  PROVE  /\ epoch'[d] = epoch[d] + 1
         /\ epoch[d] + 1 \in EpochNrs
         /\ \A x \in Devs \ {d} : epoch'[x] = epoch[x] /\ date'[x] = date[x]
         /\ \A k \in 1..epoch[d] : date'[d][k] = date[d][k]
         /\ date'[d][epoch[d] + 1] \in {LastDate(d), LastDate(d) + 1}
         /\ date'[d][epoch[d] + 1] # 0
         /\ LastDate(d)' = date'[d][epoch[d] + 1]
         /\ \A x \in Devs \ {d} : LastDate(x)' = LastDate(x)
  <1>1. epoch[d] + 1 \in EpochNrs /\ epoch[d] \in Nat
    BY BoundsAssumption DEF Mount, TypeInv, TypeOK, EpochNrs
  <1>2. /\ epoch'[d] = epoch[d] + 1
        /\ \A x \in Devs \ {d} : epoch'[x] = epoch[x]
    BY DEF Mount, TypeInv, TypeOK
  <1>3. PICK t \in {LastDate(d), LastDate(d) + 1} :
           t # 0 /\ date' = [date EXCEPT ![d][epoch[d] + 1] = t]
    BY DEF Mount
  <1>4. /\ date'[d][epoch[d] + 1] = t
        /\ \A x \in Devs \ {d} : date'[x] = date[x]
        /\ \A k \in EpochNrs : k # epoch[d] + 1 => date'[d][k] = date[d][k]
    BY <1>1, <1>3 DEF TypeInv, TypeOK
  <1>5. \A k \in 1..epoch[d] : k \in EpochNrs /\ k # epoch[d] + 1
    BY <1>1, LastDateFacts
  <1>6. LastDate(d)' = t
    BY <1>1, <1>2, <1>4 DEF LastDate
  <1>7. QED
    BY <1>1, <1>2, <1>3, <1>4, <1>5, <1>6 DEF LastDate

\* A work changes nothing on the device, and at most the records of its file.
LEMMA WorkChanges ==
  ASSUME NEW d \in Devs, WorkNext(d)
  PROVE  /\ UNCHANGED <<devvars, epvars, gen>>
         /\ \/ recs' = recs
            \/ pc[d] # "idle" /\ \E v : recs' = [recs EXCEPT ![Dir(d)] = v]
  BY DEF fsvars, WorkNext, StartWork, EnsureDir, LookupTop, MkdirTop, LookupSub, MkdirSub,
     OpenFile, SearchFile, WriteRecord, AppendRecord, AddToLru, EndWork, CleanupEpoch

LEMMA DatesStep ==
  ASSUME TypeInv, TypeInv', [Next]_vars, NEW x \in Devs, DatesInv(x)
  PROVE  DatesInv(x)'
  <1>1. ASSUME NEW d \in Devs, Mount(d)
        PROVE  DatesInv(x)'
    <2>0. recs' = recs
      BY <1>1 DEF Mount, fsvars
    <2>1. CASE x # d
      BY <1>1, <2>0, <2>1, MountFacts DEF DatesInv
    <2>2. CASE x = d
      <3>1. /\ epoch[x] \in Nat /\ LastDate(x) \in Nat /\ epoch'[x] = epoch[x] + 1
            /\ LastDate(x)' \in Nat /\ LastDate(x)' >= LastDate(x) /\ LastDate(x)' # 0
            /\ date'[x][epoch[x] + 1] = LastDate(x)'
            /\ \A k \in 1..epoch[x] : date'[x][k] = date[x][k]
        BY <1>1, <2>2, MountFacts, LastDateFacts
      <3>2. ASSUME NEW k \in 1..epoch'[x] PROVE date'[x][k] \in 1..LastDate(x)'
        <4>1. CASE k \in 1..epoch[x]
          <5>1. date[x][k] \in 1..LastDate(x)
            BY <4>1 DEF DatesInv
          <5>2. QED
            BY <3>1, <4>1, <5>1
        <4>2. CASE k = epoch[x] + 1
          BY <3>1, <4>2
        <4>3. QED
          BY <3>1, <4>1, <4>2
      <3>3. ASSUME NEW t \in Dates, t > LastDate(x)' PROVE recs'[<<x, t>>] = <<>>
        <4>1. t \in Nat
          BY DEF Dates
        <4>2. t > LastDate(x)
          BY <3>1, <3>3, <4>1
        <4>3. QED
          BY <2>0, <4>2 DEF DatesInv
      <3>4. QED
        BY <3>2, <3>3 DEF DatesInv, LastDate
    <2>3. QED
      BY <2>1, <2>2
  <1>2. CASE \/ \E d \in Devs : Umount(d)
             \/ \E d \in Devs, b \in Blocks, v \in Contents : Write(d, b, v)
             \/ UNCHANGED vars
    <2>1. UNCHANGED <<epoch, date, recs>>
      BY <1>2 DEF Umount, Write, vars, epvars, fsvars
    <2>2. QED
      BY <2>1 DEF DatesInv, LastDate
  <1>3. CASE RemoveSnapshots
    <2>1. UNCHANGED <<epoch, date>> /\ \A t \in Dates : recs'[<<x, t>>] = <<>>
      BY <1>3 DEF RemoveSnapshots, epvars
    <2>2. QED
      BY <2>1 DEF DatesInv, LastDate
  <1>4. ASSUME NEW d \in Devs, WorkNext(d)
        PROVE  DatesInv(x)'
    <2>1. UNCHANGED <<epoch, date>>
      BY <1>4, WorkChanges DEF epvars
    <2>2. ASSUME NEW t \in Dates, t > LastDate(x)
          PROVE  recs'[<<x, t>>] = recs[<<x, t>>]
      <3>1. CASE recs' = recs
        BY <3>1
      <3>2. ASSUME pc[d] # "idle", NEW v, recs' = [recs EXCEPT ![Dir(d)] = v]
            PROVE  recs'[<<x, t>>] = recs[<<x, t>>]
        <4>1. Work(d).ep \in 1..epoch[d] /\ Dir(d) = <<d, date[d][Work(d).ep]>>
          BY <3>2, Running DEF EpochNrs
        <4>2. <<x, t>> # Dir(d)
          <5>1. CASE x = d
            <6>1. date[d][Work(d).ep] \in 1..LastDate(d)
              BY <4>1, <5>1 DEF DatesInv
            <6>2. LastDate(d) \in Nat /\ t \in Nat
              BY LastDateFacts DEF Dates
            <6>3. date[d][Work(d).ep] # t
              BY <2>2, <5>1, <6>1, <6>2
            <6>4. QED
              BY <4>1, <6>3
          <5>2. CASE x # d
            BY <4>1, <5>2
          <5>3. QED
            BY <5>1, <5>2
        <4>3. <<x, t>> \in Devs \X Dates
          OBVIOUS
        <4>4. QED
          BY <3>2, <4>2, <4>3 DEF TypeInv, TypeOK
      <3>3. QED
        BY <1>4, <3>1, <3>2, WorkChanges
    <2>3. QED
      BY <2>1, <2>2 DEF DatesInv, LastDate
  <1>5. QED
    BY <1>1, <1>2, <1>3, <1>4 DEF Next, Rest

LEMMA GenSteps ==
  ASSUME TypeInv, [Next]_vars
  PROVE  gen' = 1 => gen = 1 /\ ~RemoveSnapshots
  <1>1. ASSUME RemoveSnapshots PROVE gen' # 1
    BY <1>1 DEF RemoveSnapshots, TypeInv, TypeOK, PathsExist
  <1>2. ASSUME NEW d \in Devs, WorkNext(d) PROVE gen' = gen
    BY <1>2, WorkChanges
  <1>3. ASSUME \/ \E d \in Devs : Mount(d) \/ Umount(d)
               \/ \E d \in Devs, b \in Blocks, v \in Contents : Write(d, b, v)
               \/ UNCHANGED vars
        PROVE  gen' = gen
    BY <1>3 DEF Mount, Umount, Write, vars, fsvars
  <1>4. QED
    BY <1>1, <1>2, <1>3 DEF Next, Rest

LEMMA WayStep ==
  ASSUME TypeInv, TypeInv', DeviceInv, WayInv, [Next]_vars
  PROVE  WayInv'
  <1>1. TopInv'
    BY TopStep DEF WayInv
  <1>2. ASSUME NEW x \in Devs PROVE DatesInv(x)'
    BY <1>2, DatesStep DEF WayInv
  <1>3. ASSUME NEW x \in Devs, Sure(x), gen' = 1
        PROVE  ReachInv(x)'
    <2>1. gen = 1 /\ ~RemoveSnapshots
      BY <1>3, GenSteps
    <2>2. ReachInv(x) /\ CacheInv(x) /\ FileInv(x) /\ SavedInv(x)
      BY <1>3, <2>1 DEF WayInv, DeviceInv, Sure, Reliable, Whole, CanFail
    <2>3. ASSUME NEW d \in Devs, WorkNext(d)
          PROVE  ReachInv(x)'
      <3>1. CASE x = d
        BY <1>3, <2>1, <2>2, <2>3, <3>1, SureSteps DEF WayInv
      <3>2. CASE x # d
        BY <2>2, <2>3, <3>2, OtherFrame, ReachFrame
      <3>3. QED
        BY <3>1, <3>2
    <2>4. ASSUME NEW d \in Devs,
                 \/ Mount(d) \/ Umount(d)
                 \/ \E b \in Blocks, v \in Contents : Write(d, b, v)
          PROVE  ReachInv(x)'
      BY <2>2, <2>4, EnvFrame, ReachFrame
    <2>5. CASE UNCHANGED vars
      BY <2>2, <2>5 DEF vars, epvars, fsvars, ReachInv, Has, Work, Dir
    <2>6. QED
      BY <2>1, <2>3, <2>4, <2>5 DEF Next, Rest
  <1>4. QED
    BY <1>1, <1>2, <1>3 DEF WayInv, Sure, Reliable, NoMkdirRace, OneDevice

-----------------------------------------------------------------------------
(* What a file and a queue hold for a block: the record, or else the first *)
(* of the works.                                                           *)

FirstIn(S, i) == i \in S /\ \A h \in S : i <= h

Held(r, q, began, t, b, v) ==
    \/ \E i : FirstIn(RecordsOf(r, b), i) /\ r[i].val = v
    \/ /\ RecordsOf(r, b) = {}
       /\ \E i : FirstIn(QueuedFor(q, began, t, b), i) /\ q[i].val = v

LEMMA Least ==
  ASSUME NEW S \in SUBSET Nat, S # {}
  PROVE  \E m : FirstIn(S, m)
  <1>1. PICK m \in S : \A y \in S : ~(<<y, m>> \in OpToRel(<, Nat))
    BY WFMin, NatLessThanWellFounded
  <1>2. \A y \in S : ~(y < m)
    BY <1>1 DEF OpToRel
  <1>3. QED
    BY <1>2 DEF FirstIn

LEMMA MinIsFirst ==
  ASSUME NEW S \in SUBSET Nat, NEW m, FirstIn(S, m)
  PROVE  Min(S) = m /\ \A i : FirstIn(S, i) => i = m
  <1>1. \A i : FirstIn(S, i) => i = m
    BY DEF FirstIn
  <1>2. Min(S) \in S /\ \A y \in S : Min(S) <= y
    BY DEF Min, FirstIn
  <1>3. QED
    BY <1>1, <1>2 DEF FirstIn

LEMMA RecordIndexes ==
  ASSUME NEW r \in Seq(Records), NEW b
  PROVE  /\ RecordsOf(r, b) \in SUBSET Nat
         /\ RecordsOf(r, b) # {} <=> Has(r, b)
         /\ \A i : i \in RecordsOf(r, b) <=> i \in 1..Len(r) /\ r[i].blk = b
  <1>1. DOMAIN r = 1..Len(r) /\ Len(r) \in Nat
    BY LenProperties
  <1>2. QED
    BY <1>1 DEF RecordsOf, Has

LEMMA QueueIndexes ==
  ASSUME NEW q \in Seq(SnapWorks \cup CleanupWorks), NEW began, NEW t, NEW b
  PROVE  /\ QueuedFor(q, began, t, b) \in SUBSET Nat
         /\ \A i : i \in QueuedFor(q, began, t, b) <=>
                  /\ i \in 1..Len(q) /\ q[i].kind = "snap"
                  /\ began[q[i].ep] = t /\ q[i].blk = b
  <1>1. DOMAIN q = 1..Len(q) /\ Len(q) \in Nat
    BY LenProperties
  <1>2. QED
    BY <1>1 DEF QueuedFor

\* The map of the abstract specification, in terms of Held.
LEMMA HeldSnapshot ==
  ASSUME NEW r \in Seq(Records), NEW q \in Seq(SnapWorks \cup CleanupWorks),
         NEW began, NEW t
  PROVE  /\ SnapshotOf(r, q, began, t) =
              [b \in {x \in Blocks : \E v : Held(r, q, began, t, x, v)} |->
                  CHOOSE v : Held(r, q, began, t, b, v)]
         /\ \A b, v, w : Held(r, q, began, t, b, v) /\ Held(r, q, began, t, b, w) => v = w
  <1>1. ASSUME NEW b
        PROVE  /\ \A v, w : Held(r, q, began, t, b, v) /\ Held(r, q, began, t, b, w) => v = w
               /\ RecordsOf(r, b) \cup QueuedFor(q, began, t, b) # {} <=>
                     \E v : Held(r, q, began, t, b, v)
               /\ RecordsOf(r, b) # {} =>
                     Held(r, q, began, t, b, r[Min(RecordsOf(r, b))].val)
               /\ RecordsOf(r, b) = {} /\ QueuedFor(q, began, t, b) # {} =>
                     Held(r, q, began, t, b, q[Min(QueuedFor(q, began, t, b))].val)
    <2> DEFINE R == RecordsOf(r, b)
               Q == QueuedFor(q, began, t, b)
    <2>1. R \in SUBSET Nat /\ Q \in SUBSET Nat
      BY RecordIndexes, QueueIndexes
    <2>2. \A v : Held(r, q, began, t, b, v) <=>
                \/ \E i : FirstIn(R, i) /\ r[i].val = v
                \/ R = {} /\ \E i : FirstIn(Q, i) /\ q[i].val = v
      BY DEF Held
    <2> HIDE DEF R, Q
    <2>3. /\ R # {} => \E i : FirstIn(R, i)
          /\ Q # {} => \E i : FirstIn(Q, i)
      BY <2>1, Least
    <2>4. /\ \A i : FirstIn(R, i) => Min(R) = i
          /\ \A i : FirstIn(Q, i) => Min(Q) = i
      BY <2>1, MinIsFirst
    <2>5. \A i : (FirstIn(R, i) => R # {}) /\ (FirstIn(Q, i) => Q # {})
      BY DEF FirstIn
    <2>6. R # {} => Held(r, q, began, t, b, r[Min(R)].val)
      BY <2>2, <2>3, <2>4
    <2>7. R = {} /\ Q # {} => Held(r, q, began, t, b, q[Min(Q)].val)
      BY <2>2, <2>3, <2>4
    <2>8. ASSUME NEW v, Held(r, q, began, t, b, v)
          PROVE  /\ R \cup Q # {}
                 /\ R # {} => v = r[Min(R)].val
                 /\ R = {} => v = q[Min(Q)].val
      <3>1. CASE \E i : FirstIn(R, i) /\ r[i].val = v
        BY <3>1, <2>4, <2>5
      <3>2. CASE R = {} /\ \E i : FirstIn(Q, i) /\ q[i].val = v
        BY <3>2, <2>4, <2>5
      <3>3. QED
        BY <2>2, <2>8, <3>1, <3>2
    <2>9. \A v, w : Held(r, q, began, t, b, v) /\ Held(r, q, began, t, b, w) => v = w
      BY <2>8
    <2>10. R \cup Q # {} <=> \E v : Held(r, q, began, t, b, v)
      BY <2>6, <2>7, <2>8
    <2>11. QED
      BY <2>6, <2>7, <2>9, <2>10 DEF R, Q
  <1>2. {x \in Blocks : RecordsOf(r, x) \cup QueuedFor(q, began, t, x) # {}}
          = {x \in Blocks : \E v : Held(r, q, began, t, x, v)}
    BY <1>1
  <1>3. ASSUME NEW b \in Blocks, \E v : Held(r, q, began, t, b, v)
        PROVE  (IF RecordsOf(r, b) # {} THEN r[Min(RecordsOf(r, b))].val
                ELSE q[Min(QueuedFor(q, began, t, b))].val)
                 = CHOOSE v : Held(r, q, began, t, b, v)
    <2> DEFINE e == IF RecordsOf(r, b) # {} THEN r[Min(RecordsOf(r, b))].val
                    ELSE q[Min(QueuedFor(q, began, t, b))].val
    <2>1. RecordsOf(r, b) \cup QueuedFor(q, began, t, b) # {}
      BY <1>1, <1>3
    <2>2. Held(r, q, began, t, b, e)
      BY <1>1, <2>1
    <2> HIDE DEF e
    <2>3. Held(r, q, began, t, b, CHOOSE v : Held(r, q, began, t, b, v))
      BY <2>2
    <2>4. e = CHOOSE v : Held(r, q, began, t, b, v)
      BY <1>1, <2>2, <2>3
    <2>5. QED
      BY <2>4 DEF e
  <1>4. QED
    BY <1>1, <1>2, <1>3 DEF SnapshotOf

\* A work that is queued adds what it holds when nothing is held yet.
LEMMA HeldQueued ==
  ASSUME NEW r \in Seq(Records), NEW q \in Seq(SnapWorks \cup CleanupWorks),
         NEW w \in SnapWorks \cup CleanupWorks, NEW began, NEW t, NEW b, NEW v
  PROVE  Held(r, Append(q, w), began, t, b, v) <=>
           \/ Held(r, q, began, t, b, v)
           \/ /\ ~\E u : Held(r, q, began, t, b, u)
              /\ w.kind = "snap" /\ began[w.ep] = t /\ w.blk = b /\ w.val = v
  <1> DEFINE a == Append(q, w)
             Q == QueuedFor(q, began, t, b)
             A == QueuedFor(a, began, t, b)
             n == Len(q)
             R == RecordsOf(r, b)
             For == w.kind = "snap" /\ began[w.ep] = t /\ w.blk = b
  <1>1. /\ a \in Seq(SnapWorks \cup CleanupWorks) /\ Len(a) = n + 1 /\ n \in Nat
        /\ \A i \in 1..n : a[i] = q[i]
        /\ a[n + 1] = w
    BY AppendProperties, LenProperties
  <1> HIDE DEF a
  <1>2. /\ \A i : i \in Q <=> /\ i \in 1..n /\ q[i].kind = "snap"
                             /\ began[q[i].ep] = t /\ q[i].blk = b
        /\ \A i : i \in A <=> /\ i \in 1..Len(a) /\ a[i].kind = "snap"
                             /\ began[a[i].ep] = t /\ a[i].blk = b
        /\ Q \in SUBSET Nat /\ R \in SUBSET Nat
    BY SMTT(30), <1>1, RecordIndexes, QueueIndexes
  <1>3. \A u : /\ Held(r, q, began, t, b, u) <=>
                    \/ \E i : FirstIn(R, i) /\ r[i].val = u
                    \/ R = {} /\ \E i : FirstIn(Q, i) /\ q[i].val = u
               /\ Held(r, a, began, t, b, u) <=>
                    \/ \E i : FirstIn(R, i) /\ r[i].val = u
                    \/ R = {} /\ \E i : FirstIn(A, i) /\ a[i].val = u
    BY DEF Held
  <1> HIDE DEF n, Q, A, R
  <1>4. \A i : i \in A <=> i \in Q \/ (i = n + 1 /\ For)
    <2>1. \A i : i \in 1..Len(a) <=> i \in 1..n \/ i = n + 1
      BY <1>1
    <2>2. QED
      BY <1>1, <1>2, <2>1
  <1>5. \A i \in Q : i <= n /\ i # n + 1 /\ i \in 1..n
    BY <1>1, <1>2
  <1>6. \A i : FirstIn(A, i) <=> FirstIn(Q, i) \/ (Q = {} /\ For /\ i = n + 1)
    BY <1>1, <1>4, <1>5 DEF FirstIn
  <1>7. \A i : FirstIn(Q, i) => a[i] = q[i]
    BY <1>1, <1>5 DEF FirstIn
  <1>8. (\E u : Held(r, q, began, t, b, u)) <=> R # {} \/ Q # {}
    <2>1. /\ R # {} => \E i : FirstIn(R, i)
          /\ Q # {} => \E i : FirstIn(Q, i)
      BY <1>2, Least
    <2>2. \A i : (FirstIn(R, i) => R # {}) /\ (FirstIn(Q, i) => Q # {})
      BY DEF FirstIn
    <2>3. QED
      BY <1>3, <2>1, <2>2
  <1>9. (\E i : FirstIn(A, i) /\ a[i].val = v) <=>
           \/ \E i : FirstIn(Q, i) /\ q[i].val = v
           \/ Q = {} /\ For /\ w.val = v
    BY <1>1, <1>6, <1>7
  <1>10. QED
    BY <1>3, <1>8, <1>9 DEF a

\* A work that ends leaves all that is held, when the file has its block.
LEMMA HeldWorkEnds ==
  ASSUME NEW r \in Seq(Records), NEW q \in Seq(SnapWorks \cup CleanupWorks), q # <<>>,
         NEW began, NEW t,
         q[1].kind = "snap" /\ began[q[1].ep] = t => Has(r, q[1].blk),
         NEW b, NEW v
  PROVE  Held(r, Tail(q), began, t, b, v) <=> Held(r, q, began, t, b, v)
  <1> DEFINE a == Tail(q)
             Q == QueuedFor(q, began, t, b)
             A == QueuedFor(a, began, t, b)
             n == Len(q)
             R == RecordsOf(r, b)
  <1>1. /\ a \in Seq(SnapWorks \cup CleanupWorks) /\ Len(a) = n - 1 /\ n \in Nat /\ n # 0
        /\ \A i \in 1..Len(a) : a[i] = q[i + 1]
    BY HeadTailProperties, LenProperties, EmptySeq
  <1> HIDE DEF a
  <1>2. /\ \A i : i \in Q <=> /\ i \in 1..n /\ q[i].kind = "snap"
                             /\ began[q[i].ep] = t /\ q[i].blk = b
        /\ \A i : i \in A <=> /\ i \in 1..Len(a) /\ a[i].kind = "snap"
                             /\ began[a[i].ep] = t /\ a[i].blk = b
        /\ R # {} <=> Has(r, b)
    <2>1. a \in Seq(SnapWorks \cup CleanupWorks)
      BY <1>1
    <2>2. \A i : i \in A <=> /\ i \in 1..Len(a) /\ a[i].kind = "snap"
                             /\ began[a[i].ep] = t /\ a[i].blk = b
      BY <2>1, QueueIndexes
    <2>3. /\ \A i : i \in Q <=> /\ i \in 1..n /\ q[i].kind = "snap"
                                /\ began[q[i].ep] = t /\ q[i].blk = b
          /\ R # {} <=> Has(r, b)
      BY RecordIndexes, QueueIndexes
    <2>4. QED
      BY <2>2, <2>3
  <1>3. /\ Held(r, q, began, t, b, v) <=>
                    \/ \E i : FirstIn(R, i) /\ r[i].val = v
                    \/ R = {} /\ \E i : FirstIn(Q, i) /\ q[i].val = v
        /\ Held(r, a, began, t, b, v) <=>
                    \/ \E i : FirstIn(R, i) /\ r[i].val = v
                    \/ R = {} /\ \E i : FirstIn(A, i) /\ a[i].val = v
    BY DEF Held
  <1> HIDE DEF n, Q, A, R
  <1>4. CASE R # {}
    BY <1>3, <1>4 DEF a
  <1>5. CASE R = {}
    <2>1. 1 \notin Q
      BY <1>2, <1>5
    <2>2. \A i \in Q : i \in 2..n /\ i \in Nat /\ i - 1 \in 1..Len(a) /\ i - 1 \in A
      <3>1. ASSUME NEW i \in Q
            PROVE  i \in 2..n /\ i \in Nat /\ i - 1 \in 1..Len(a) /\ i - 1 \in A
        <4>1. i \in 1..n /\ i # 1
          BY <1>2, <2>1
        <4>2. i \in 2..n /\ i \in Nat /\ i - 1 \in 1..Len(a) /\ (i - 1) + 1 = i
          BY <1>1, <4>1
        <4>3. a[i - 1] = q[i]
          BY <1>1, <4>2
        <4>4. QED
          BY <1>2, <4>2, <4>3
      <3>2. QED
        BY <3>1
    <2>3. \A i \in A : i \in 1..Len(a) /\ i \in Nat /\ i + 1 \in Q /\ a[i] = q[i + 1]
      <3>1. \A i \in 1..Len(a) : i + 1 \in 1..n /\ i \in Nat /\ a[i] = q[i + 1]
        BY <1>1
      <3>2. ASSUME NEW i \in A
            PROVE  i \in 1..Len(a) /\ i \in Nat /\ i + 1 \in Q /\ a[i] = q[i + 1]
        <4>1. /\ i \in 1..Len(a) /\ a[i].kind = "snap"
              /\ began[a[i].ep] = t /\ a[i].blk = b
          BY <1>2
        <4>2. i + 1 \in 1..n /\ i \in Nat /\ a[i] = q[i + 1]
          BY <3>1, <4>1
        <4>3. QED
          BY <1>2, <4>1, <4>2
      <3>3. QED
        BY <3>2
    <2>4. ASSUME NEW i, FirstIn(Q, i)
          PROVE  FirstIn(A, i - 1) /\ a[i - 1] = q[i]
      <3>1. i \in Q /\ i \in Nat /\ i - 1 \in A /\ \A h \in Q : i <= h
        BY <2>2, <2>4 DEF FirstIn
      <3>2. ASSUME NEW h \in A PROVE i - 1 <= h
        <4>1. h \in Nat /\ i <= h + 1
          BY <2>3, <3>1
        <4>2. QED
          BY <3>1, <4>1
      <3>3. a[i - 1] = q[(i - 1) + 1] /\ (i - 1) + 1 = i
        BY <2>3, <3>1
      <3>4. QED
        BY <3>1, <3>2, <3>3 DEF FirstIn
    <2>5. ASSUME NEW i, FirstIn(A, i)
          PROVE  FirstIn(Q, i + 1) /\ a[i] = q[i + 1]
      <3>1. i \in A /\ i \in Nat /\ i + 1 \in Q /\ \A h \in A : i <= h
        BY <2>3, <2>5 DEF FirstIn
      <3>2. ASSUME NEW h \in Q PROVE i + 1 <= h
        <4>1. h \in Nat /\ i <= h - 1
          BY <2>2, <3>1
        <4>2. QED
          BY <3>1, <4>1
      <3>3. QED
        BY <2>3, <3>1, <3>2 DEF FirstIn
    <2>6. (\E i : FirstIn(A, i) /\ a[i].val = v) <=> (\E i : FirstIn(Q, i) /\ q[i].val = v)
      BY <2>4, <2>5
    <2>7. QED
      BY <1>3, <2>6 DEF a
  <1>6. QED
    BY <1>4, <1>5

\* A record that is written was held in the queue.
LEMMA HeldRecorded ==
  ASSUME NEW r \in Seq(Records), NEW q \in Seq(SnapWorks \cup CleanupWorks), q # <<>>,
         NEW began, NEW x \in Records,
         q[1].kind = "snap", x.blk = q[1].blk, x.val = q[1].val,
         ~Has(r, x.blk), NEW b, NEW v
  PROVE  Held(Append(r, x), q, began, began[q[1].ep], b, v) <=>
         Held(r, q, began, began[q[1].ep], b, v)
  <1> DEFINE a == Append(r, x)
             t == began[q[1].ep]
             Q == QueuedFor(q, began, t, b)
             n == Len(r)
             R == RecordsOf(r, b)
             A == RecordsOf(a, b)
  <1>1. /\ a \in Seq(Records) /\ Len(a) = n + 1 /\ n \in Nat
        /\ \A i \in 1..n : a[i] = r[i]
        /\ a[n + 1] = x
        /\ Len(q) \in Nat /\ Len(q) # 0
    BY AppendProperties, LenProperties, EmptySeq
  <1> HIDE DEF a
  <1>2. /\ \A i : i \in Q <=> /\ i \in 1..Len(q) /\ q[i].kind = "snap"
                             /\ began[q[i].ep] = t /\ q[i].blk = b
        /\ \A i : i \in R <=> i \in 1..n /\ r[i].blk = b
        /\ \A i : i \in A <=> i \in 1..Len(a) /\ a[i].blk = b
        /\ R # {} <=> Has(r, b)
    <2>1. a \in Seq(Records)
      BY <1>1
    <2>2. \A i : i \in A <=> i \in 1..Len(a) /\ a[i].blk = b
      BY <2>1, RecordIndexes
    <2>3. /\ \A i : i \in Q <=> /\ i \in 1..Len(q) /\ q[i].kind = "snap"
                                /\ began[q[i].ep] = t /\ q[i].blk = b
          /\ \A i : i \in R <=> i \in 1..n /\ r[i].blk = b
          /\ R # {} <=> Has(r, b)
      BY RecordIndexes, QueueIndexes
    <2>4. QED
      BY <2>2, <2>3
  <1>3. /\ Held(r, q, began, t, b, v) <=>
                    \/ \E i : FirstIn(R, i) /\ r[i].val = v
                    \/ R = {} /\ \E i : FirstIn(Q, i) /\ q[i].val = v
        /\ Held(a, q, began, t, b, v) <=>
                    \/ \E i : FirstIn(A, i) /\ a[i].val = v
                    \/ A = {} /\ \E i : FirstIn(Q, i) /\ q[i].val = v
    BY DEF Held
  <1>0. 1 \in Q <=> b = x.blk
    BY <1>1, <1>2
  <1> HIDE DEF n, Q, A, R, t
  <1>4. \A i : i \in A <=> i \in R \/ (i = n + 1 /\ b = x.blk)
    <2>1. \A i : i \in 1..Len(a) <=> i \in 1..n \/ i = n + 1
      BY <1>1
    <2>2. QED
      BY ZenonT(30), <1>1, <1>2, <2>1
  <1>5. CASE b # x.blk
    <2>1. A = R
      BY <1>4, <1>5
    <2>2. \A i : FirstIn(R, i) => a[i] = r[i]
      BY <1>1, <1>2 DEF FirstIn
    <2>3. QED
      BY <1>3, <2>1, <2>2 DEF a, t
  <1>6. CASE b = x.blk
    <2>1. R = {} /\ 1 \in Q
      BY <1>0, <1>2, <1>6
    <2>2. \A i : FirstIn(A, i) <=> i = n + 1
      BY <1>1, <1>4, <1>6, <2>1 DEF FirstIn
    <2>3. \A i : FirstIn(Q, i) <=> i = 1
      <3>1. \A i \in Q : i \in Nat /\ 1 <= i
        BY <1>1, <1>2
      <3>2. QED
        BY <2>1, <3>1 DEF FirstIn
    <2>4. A # {}
      BY <1>4, <1>6
    <2>5. Held(a, q, began, t, b, v) <=> x.val = v
      BY <1>1, <1>3, <2>2, <2>4
    <2>6. Held(r, q, began, t, b, v) <=> q[1].val = v
      <3>1. ~\E i : FirstIn(R, i)
        BY <2>1 DEF FirstIn
      <3>2. QED
        BY <1>3, <2>1, <2>3, <3>1
    <2>7. QED
      BY <2>5, <2>6 DEF a, t
  <1>7. QED
    BY <1>5, <1>6

\* Only the dates of the epochs with works matter.
LEMMA HeldDated ==
  ASSUME NEW r \in Seq(Records), NEW q \in Seq(SnapWorks \cup CleanupWorks),
         NEW began, NEW became, \A i \in 1..Len(q) : became[q[i].ep] = began[q[i].ep],
         NEW t, NEW b, NEW v
  PROVE  Held(r, q, became, t, b, v) <=> Held(r, q, began, t, b, v)
  <1>1. DOMAIN q = 1..Len(q)
    BY LenProperties
  <1>2. QueuedFor(q, became, t, b) = QueuedFor(q, began, t, b)
    BY <1>1 DEF QueuedFor
  <1>3. QED
    BY <1>2 DEF Held

-----------------------------------------------------------------------------
(* What is held for an epoch, from step to step.                           *)

HeldAt(d, t, b, v) == Held(recs[<<d, t>>], queue[d], date[d], t, b, v)

LEMMA HeldTypes ==
  ASSUME TypeInv, NEW d \in Devs, NEW t \in Dates
  PROVE  /\ recs[<<d, t>>] \in Seq(Records)
         /\ queue[d] \in Seq(SnapWorks \cup CleanupWorks)
         /\ \A i \in 1..Len(queue[d]) : /\ queue[d][i].ep \in 1..epoch[d]
                                        /\ queue[d][i] \in SnapWorks \cup CleanupWorks
         /\ \A b, v, w : HeldAt(d, t, b, v) /\ HeldAt(d, t, b, w) => v = w
  <1>1. /\ <<d, t>> \in Devs \X Dates
        /\ recs[<<d, t>>] \in Seq(Records)
        /\ queue[d] \in Seq(SnapWorks \cup CleanupWorks)
    BY DEF TypeInv, TypeOK
  <1>2. ASSUME NEW i \in 1..Len(queue[d])
        PROVE  /\ queue[d][i].ep \in 1..epoch[d]
               /\ queue[d][i] \in SnapWorks \cup CleanupWorks
    <2>1. queue[d][i] \in SnapWorks \cup CleanupWorks
      BY <1>1, ElementOfSeq
    <2>2. queue[d][i].ep \in EpochNrs
      BY <2>1 DEF SnapWorks, CleanupWorks
    <2>3. queue[d][i].ep <= epoch[d] /\ epoch[d] \in Nat
      BY LastDateFacts DEF TypeInv, WorksQueued
    <2>4. QED
      BY <2>1, <2>2, <2>3 DEF EpochNrs
  <1>3. \A b, v, w : HeldAt(d, t, b, v) /\ HeldAt(d, t, b, w) => v = w
    BY <1>1, HeldSnapshot DEF HeldAt
  <1>4. QED
    BY <1>1, <1>2, <1>3

\* A second that is still to come holds nothing.
LEMMA NothingAhead ==
  ASSUME TypeInv, NEW d \in Devs, DatesInv(d), NEW t \in Dates, t > LastDate(d)
  PROVE  \A b, v : ~HeldAt(d, t, b, v)
  <1> SUFFICES ASSUME NEW b PROVE \A v : ~HeldAt(d, t, b, v)
    OBVIOUS
  <1> DEFINE r == recs[<<d, t>>]
             q == queue[d]
  <1>1. r = <<>> /\ q \in Seq(SnapWorks \cup CleanupWorks) /\ r \in Seq(Records)
    BY HeldTypes DEF DatesInv
  <1>2. \A i \in 1..Len(q) : date[d][q[i].ep] # t
    <2>1. ASSUME NEW i \in 1..Len(q) PROVE date[d][q[i].ep] # t
      <3>1. date[d][q[i].ep] \in 1..LastDate(d)
        BY HeldTypes DEF DatesInv
      <3>2. t \in Nat /\ LastDate(d) \in Nat
        BY LastDateFacts DEF Dates
      <3>3. QED
        BY <3>1, <3>2
    <2>2. QED
      BY <2>1
  <1> HIDE DEF r, q
  <1>3. Len(r) = 0
    BY <1>1, EmptySeq
  <1>4. RecordsOf(r, b) = {} /\ QueuedFor(q, date[d], t, b) = {}
    <2>1. \A i : i \in RecordsOf(r, b) <=> i \in 1..Len(r) /\ r[i].blk = b
      BY <1>1, RecordIndexes
    <2>2. 1..Len(r) = {}
      BY <1>3
    <2>3. RecordsOf(r, b) = {}
      BY <2>1, <2>2
    <2>4. QueuedFor(q, date[d], t, b) = {}
      BY <1>1, <1>2, QueueIndexes
    <2>5. QED
      BY <2>3, <2>4
  <1>5. QED
    BY <1>4 DEF HeldAt, Held, FirstIn, r, q

\* A write adds what the block held before to the last snapshot, if that has
\* nothing for the block.
LEMMA HeldWrite ==
  ASSUME TypeInv, NEW d \in Devs, d \in Reliable,
         NEW c \in Blocks, NEW w \in Contents, Write(d, c, w),
         NEW t \in Dates, NEW b, NEW v
  PROVE  HeldAt(d, t, b, v)' <=>
           \/ HeldAt(d, t, b, v)
           \/ /\ ~\E u : HeldAt(d, t, b, u)
              /\ LastDate(d) = t /\ c = b /\ disk[d][c] = v
  <1> DEFINE s == [kind |-> "snap", blk |-> c, val |-> disk[d][c], ep |-> epoch[d]]
  <1>1. /\ queue'[d] = Append(queue[d], s) /\ recs' = recs /\ date' = date
    <2>1. ~CanFail(d, "queue")
      BY DEF Reliable, CanFail
    <2>2. queue' = [queue EXCEPT ![d] = Append(@, s)] /\ recs' = recs /\ date' = date
      BY <2>1 DEF Write, fsvars, epvars
    <2>3. QED
      BY <2>2 DEF TypeInv, TypeOK
  <1>2. epoch[d] \in EpochNrs /\ date[d][epoch[d]] = LastDate(d)
    BY LastDateFacts DEF Write, TypeInv, WorksQueued
  <1>3. s \in SnapWorks \cup CleanupWorks
    BY <1>2 DEF SnapWorks, TypeInv, TypeOK
  <1>4. s.kind = "snap" /\ s.blk = c /\ s.val = disk[d][c] /\ date[d][s.ep] = LastDate(d)
    BY <1>2
  <1> HIDE DEF s
  <1>5. Held(recs[<<d, t>>], Append(queue[d], s), date[d], t, b, v) <=>
           \/ HeldAt(d, t, b, v)
           \/ /\ ~\E u : HeldAt(d, t, b, u)
              /\ s.kind = "snap" /\ date[d][s.ep] = t /\ s.blk = b /\ s.val = v
    <2>1. /\ recs[<<d, t>>] \in Seq(Records)
          /\ queue[d] \in Seq(SnapWorks \cup CleanupWorks)
      BY HeldTypes
    <2>2. ASSUME NEW r \in Seq(Records), NEW q \in Seq(SnapWorks \cup CleanupWorks),
                 NEW began
          PROVE  Held(r, Append(q, s), began, t, b, v) <=>
                   \/ Held(r, q, began, t, b, v)
                   \/ /\ ~\E u : Held(r, q, began, t, b, u)
                      /\ s.kind = "snap" /\ began[s.ep] = t /\ s.blk = b /\ s.val = v
      BY <1>3, HeldQueued, Zenon
    <2>3. QED
      BY <2>1, <2>2 DEF HeldAt
  <1>6. QED
    BY <1>1, <1>4, <1>5 DEF HeldAt

\* The device's own work changes nothing of what is held.
LEMMA HeldWork ==
  ASSUME TypeInv, TypeInv', TopInv, NEW d \in Devs, Sure(d), gen = 1, WorkNext(d),
         ReachInv(d), CacheInv(d), FileInv(d), SavedInv(d),
         NEW t \in Dates, NEW b, NEW v
  PROVE  HeldAt(d, t, b, v)' <=> HeldAt(d, t, b, v)
  <1>1. (GoesOnOnly(d) \/ Records1(d) \/ Ends(d)) /\ date' = date
    BY SureSteps DEF epvars
  <1>2. CASE GoesOnOnly(d)
    BY <1>1, <1>2 DEF GoesOnOnly, HeldAt
  <1>3. CASE Records1(d)
    <2> DEFINE x == [blk |-> Work(d).blk, val |-> Work(d).val, cut |-> FALSE]
               k == Work(d).ep
    <2>1. /\ queue'[d] = queue[d]
          /\ recs' = [recs EXCEPT ![Dir(d)] = Append(@, x)]
          /\ ~Has(recs[Dir(d)], Work(d).blk)
      BY <1>3 DEF Records1
    <2>2. /\ queue[d] # <<>> /\ Work(d) = queue[d][1] /\ Work(d) \in SnapWorks
          /\ Dir(d) = <<d, date[d][k]>> /\ Dir(d) \in Devs \X Dates
      BY <1>3, Running DEF Records1
    <2>3. /\ x \in Records /\ x.blk = queue[d][1].blk /\ x.val = queue[d][1].val
          /\ queue[d][1].kind = "snap"
      BY <2>2 DEF Records, SnapWorks
    <2> HIDE DEF x
    <2>4. recs'[Dir(d)] = Append(recs[Dir(d)], x)
      BY <2>1, <2>2 DEF TypeInv, TypeOK
    <2>5. CASE t = date[d][k]
      <3>1. ~Has(recs[<<d, t>>], x.blk)
        BY <2>1, <2>2, <2>3, <2>5
      <3>2. /\ recs[<<d, t>>] \in Seq(Records)
            /\ queue[d] \in Seq(SnapWorks \cup CleanupWorks)
        BY HeldTypes
      <3>3. Held(Append(recs[<<d, t>>], x), queue[d], date[d], date[d][queue[d][1].ep], b, v)
              <=> Held(recs[<<d, t>>], queue[d], date[d], date[d][queue[d][1].ep], b, v)
        BY <2>2, <2>3, <3>1, <3>2, HeldRecorded
      <3>4. QED
        BY <1>1, <2>1, <2>2, <2>4, <2>5, <3>3 DEF HeldAt
    <2>6. CASE t # date[d][k]
      <3>1. <<d, t>> # Dir(d) /\ <<d, t>> \in Devs \X Dates
        BY <2>2, <2>6
      <3>2. recs'[<<d, t>>] = recs[<<d, t>>]
        BY <2>1, <3>1 DEF TypeInv, TypeOK
      <3>3. QED
        BY <1>1, <2>1, <3>2 DEF HeldAt
    <2>7. QED
      BY <2>5, <2>6
  <1>4. CASE Ends(d)
    <2>1. /\ queue[d] # <<>> /\ queue'[d] = Tail(queue[d]) /\ recs' = recs
          /\ Work(d).kind = "snap" => Has(recs[Dir(d)], Work(d).blk)
      BY <1>4 DEF Ends
    <2>2. Work(d) = queue[d][1] /\ Dir(d) = <<d, date[d][queue[d][1].ep]>>
      BY <2>1, HeadWork DEF Dir
    <2>3. queue[d][1].kind = "snap" /\ date[d][queue[d][1].ep] = t =>
             Has(recs[<<d, t>>], queue[d][1].blk)
      BY <2>1, <2>2
    <2>4. Held(recs[<<d, t>>], Tail(queue[d]), date[d], t, b, v) <=>
          Held(recs[<<d, t>>], queue[d], date[d], t, b, v)
      BY <2>1, <2>3, HeldTypes, HeldWorkEnds
    <2>5. QED
      BY <1>1, <2>1, <2>4 DEF HeldAt
  <1>5. QED
    BY <1>1, <1>2, <1>3, <1>4

\* Nor does anything else: mounts, umounts, and what happens on other devices.
LEMMA HeldElse ==
  ASSUME TypeInv, TypeInv', DeviceInv, WayInv, [Next]_vars, NEW x \in Devs, Sure(x),
         gen' = 1, ~\E c \in Blocks, w \in Contents : Write(x, c, w),
         NEW t \in Dates, NEW b, NEW v
  PROVE  HeldAt(x, t, b, v)' <=> HeldAt(x, t, b, v)
  <1>1. gen = 1 /\ ~RemoveSnapshots
    BY GenSteps
  <1>2. ASSUME NEW d \in Devs, Mount(d)
        PROVE  HeldAt(x, t, b, v)' <=> HeldAt(x, t, b, v)
    <2>1. queue' = queue /\ recs' = recs
      BY <1>2 DEF Mount, fsvars
    <2>2. \A k \in 1..epoch[x] : date'[x][k] = date[x][k]
      <3>1. CASE x = d
        BY <1>2, <3>1, MountFacts
      <3>2. CASE x # d
        BY <1>2, <3>2, MountFacts
      <3>3. QED
        BY <3>1, <3>2
    <2>3. \A i \in 1..Len(queue[x]) : date'[x][queue[x][i].ep] = date[x][queue[x][i].ep]
      BY <2>2, HeldTypes
    <2>4. Held(recs[<<x, t>>], queue[x], date'[x], t, b, v) <=>
          Held(recs[<<x, t>>], queue[x], date[x], t, b, v)
      BY <2>3, HeldTypes, HeldDated
    <2>5. QED
      BY <2>1, <2>4 DEF HeldAt
  <1>3. ASSUME NEW d \in Devs, Umount(d)
        PROVE  HeldAt(x, t, b, v)' <=> HeldAt(x, t, b, v)
    <2> DEFINE s == [kind |-> "cleanup", ep |-> epoch[d]]
    <2>1. /\ queue' = [queue EXCEPT ![d] = Append(@, s)]
          /\ recs' = recs /\ date' = date /\ mounted[d]
      BY <1>3 DEF Umount, fsvars, epvars
    <2>2. CASE x # d
      <3>1. queue'[x] = queue[x]
        BY <2>1, <2>2 DEF TypeInv, TypeOK
      <3>2. QED
        BY <2>1, <3>1 DEF HeldAt
    <2>3. CASE x = d
      <3>1. queue'[x] = Append(queue[x], s)
        BY <2>1, <2>3 DEF TypeInv, TypeOK
      <3>2. epoch[d] \in EpochNrs
        BY <2>1, LastDateFacts DEF TypeInv, WorksQueued
      <3>3. s \in SnapWorks \cup CleanupWorks /\ s.kind # "snap"
        BY <3>2 DEF CleanupWorks
      <3> HIDE DEF s
      <3>4. Held(recs[<<x, t>>], Append(queue[x], s), date[x], t, b, v) <=>
            Held(recs[<<x, t>>], queue[x], date[x], t, b, v)
        BY <3>3, HeldTypes, HeldQueued
      <3>5. QED
        BY <2>1, <3>1, <3>4 DEF HeldAt
    <2>4. QED
      BY <2>2, <2>3
  <1>4. ASSUME NEW d \in Devs, NEW c \in Blocks, NEW w \in Contents, Write(d, c, w)
        PROVE  HeldAt(x, t, b, v)' <=> HeldAt(x, t, b, v)
    <2>1. x # d
      BY <1>4
    <2>2. queue'[x] = queue[x] /\ recs' = recs /\ date' = date
      BY <1>4, <2>1 DEF Write, fsvars, epvars, TypeInv, TypeOK
    <2>3. QED
      BY <2>2 DEF HeldAt
  <1>5. ASSUME NEW d \in Devs, WorkNext(d)
        PROVE  HeldAt(x, t, b, v)' <=> HeldAt(x, t, b, v)
    <2>1. CASE x # d
      <3>1. queue'[x] = queue[x] /\ recs'[<<x, t>>] = recs[<<x, t>>]
        BY <1>5, <2>1, OtherFrame DEF Frame
      <3>2. date' = date
        BY <1>5, WorkChanges DEF epvars
      <3>3. QED
        BY <3>1, <3>2 DEF HeldAt
    <2>2. CASE x = d
      <3>1. /\ ReachInv(x) /\ CacheInv(x) /\ FileInv(x) /\ SavedInv(x) /\ TopInv
        BY <1>1 DEF WayInv, DeviceInv, Sure, Reliable, Whole, CanFail
      <3>2. QED
        BY <1>1, <1>5, <2>2, <3>1, HeldWork
    <2>3. QED
      BY <2>1, <2>2
  <1>6. CASE UNCHANGED vars
    BY <1>6 DEF vars, epvars, fsvars, HeldAt
  <1>7. QED
    BY <1>1, <1>2, <1>3, <1>4, <1>5, <1>6 DEF Next, Rest

-----------------------------------------------------------------------------
(* What is held for an epoch are the contents the blocks had when it began *)
(* (when the first epoch of its second began), and a block for which       *)
(* nothing is held has not changed since.                                  *)

First(d, j) == \A i \in 1..(j - 1) : date[d][i] # date[d][j]

OrigInv(d) ==
    \A j \in 1..epoch[d] : First(d, j) => \A b \in Blocks :
        /\ \A v : HeldAt(d, date[d][j], b, v) => v = orig[d][j][b]
        /\ date[d][j] = LastDate(d) /\ (\A v : ~HeldAt(d, LastDate(d), b, v)) =>
               disk[d][b] = orig[d][j][b]

\* The other steps change neither the device nor what it held.
LEMMA ElseKeepsOriginals ==
  ASSUME TypeInv, TypeInv', DeviceInv, WayInv, [Next]_vars, NEW x \in Devs, Sure(x),
         gen' = 1, ~Mount(x), ~\E c \in Blocks, w \in Contents : Write(x, c, w)
  PROVE  /\ disk'[x] = disk[x] /\ orig'[x] = orig[x]
         /\ epoch'[x] = epoch[x] /\ date'[x] = date[x] /\ LastDate(x)' = LastDate(x)
  <1>1. ASSUME NEW d \in Devs, Mount(d) \/ Umount(d)
        PROVE  /\ disk'[x] = disk[x] /\ orig'[x] = orig[x]
               /\ epoch'[x] = epoch[x] /\ date'[x] = date[x]
    <2>1. CASE Umount(d)
      BY <2>1 DEF Umount, epvars
    <2>2. CASE Mount(d)
      <3>1. x # d
        BY <2>2
      <3>2. disk' = disk /\ orig'[x] = orig[x]
        BY <2>2, <3>1 DEF Mount, TypeInv, TypeOK
      <3>3. QED
        BY <2>2, <3>1, <3>2, MountFacts
    <2>3. QED
      BY <1>1, <2>1, <2>2
  <1>2. ASSUME NEW d \in Devs, NEW c \in Blocks, NEW w \in Contents, Write(d, c, w)
        PROVE  /\ disk'[x] = disk[x] /\ orig'[x] = orig[x]
               /\ epoch'[x] = epoch[x] /\ date'[x] = date[x]
    <2>1. x # d
      BY <1>2
    <2>2. QED
      BY <1>2, <2>1 DEF Write, epvars, TypeInv, TypeOK
  <1>3. ASSUME UNCHANGED vars
        PROVE  /\ disk'[x] = disk[x] /\ orig'[x] = orig[x]
               /\ epoch'[x] = epoch[x] /\ date'[x] = date[x]
    BY <1>3 DEF vars, devvars, epvars
  <1>4. ASSUME NEW d \in Devs, WorkNext(d)
        PROVE  /\ disk'[x] = disk[x] /\ orig'[x] = orig[x]
               /\ epoch'[x] = epoch[x] /\ date'[x] = date[x]
    BY <1>4, WorkChanges DEF devvars, epvars
  <1>5. ~RemoveSnapshots
    BY GenSteps
  <1>6. /\ disk'[x] = disk[x] /\ orig'[x] = orig[x]
        /\ epoch'[x] = epoch[x] /\ date'[x] = date[x]
    BY <1>1, <1>2, <1>3, <1>4, <1>5 DEF Next, Rest
  <1>7. QED
    BY <1>6 DEF LastDate

LEMMA OrigStep ==
  ASSUME TypeInv, TypeInv', DeviceInv, WayInv, [Next]_vars, NEW x \in Devs, Sure(x),
         gen' = 1, OrigInv(x)
  PROVE  OrigInv(x)'
  <1>1. /\ epoch[x] \in Nat /\ LastDate(x) \in Dates /\ LastDate(x) \in Nat
        /\ \A j \in 1..epoch[x] : date[x][j] \in Dates
    BY LastDateFacts
  <1>2. ASSUME NEW c \in Blocks, NEW w \in Contents, Write(x, c, w)
        PROVE  OrigInv(x)'
    <2>1. /\ orig' = orig /\ epoch' = epoch /\ date' = date
          /\ disk' = [disk EXCEPT ![x][c] = w]
      BY <1>2 DEF Write, epvars
    <2>2. LastDate(x)' = LastDate(x)
      BY <2>1 DEF LastDate
    <2>3. \A b \in Blocks : b # c => disk'[x][b] = disk[x][b]
      BY <2>1 DEF TypeInv, TypeOK
    <2>4. ASSUME NEW t \in Dates, NEW b, NEW v
          PROVE  HeldAt(x, t, b, v)' <=>
                   \/ HeldAt(x, t, b, v)
                   \/ /\ ~\E u : HeldAt(x, t, b, u)
                      /\ LastDate(x) = t /\ c = b /\ disk[x][c] = v
      BY <1>2, HeldWrite DEF Sure
    <2>5. ASSUME NEW j \in 1..epoch[x], First(x, j), NEW b \in Blocks
          PROVE  /\ \A v : HeldAt(x, date[x][j], b, v)' => v = orig[x][j][b]
                 /\ date[x][j] = LastDate(x) /\ (\A v : ~HeldAt(x, LastDate(x), b, v)') =>
                       disk'[x][b] = orig[x][j][b]
      <3>1. /\ date[x][j] \in Dates
            /\ \A v : HeldAt(x, date[x][j], b, v) => v = orig[x][j][b]
            /\ date[x][j] = LastDate(x) /\ (\A v : ~HeldAt(x, LastDate(x), b, v)) =>
                   disk[x][b] = orig[x][j][b]
        BY <1>1, <2>5 DEF OrigInv
      <3>2. ASSUME NEW v, HeldAt(x, date[x][j], b, v)' PROVE v = orig[x][j][b]
        <4>1. CASE HeldAt(x, date[x][j], b, v)
          BY <3>1, <4>1
        <4>2. CASE ~HeldAt(x, date[x][j], b, v)
          <5>1. /\ ~\E u : HeldAt(x, date[x][j], b, u)
                /\ LastDate(x) = date[x][j] /\ c = b /\ disk[x][c] = v
            BY <2>1, <2>4, <3>1, <3>2, <4>2
          <5>2. QED
            BY <3>1, <5>1
        <4>3. QED
          BY <4>1, <4>2
      <3>3. ASSUME date[x][j] = LastDate(x), \A v : ~HeldAt(x, LastDate(x), b, v)'
            PROVE  disk'[x][b] = orig[x][j][b]
        <4>1. \A v : ~HeldAt(x, LastDate(x), b, v)
          BY <1>1, <2>2, <2>4, <3>3
        <4>2. b # c
          BY <1>1, <2>2, <2>4, <3>3, <4>1
        <4>3. QED
          BY <2>3, <3>1, <3>3, <4>1, <4>2
      <3>4. QED
        BY <3>2, <3>3
    <2>6. ASSUME NEW j \in 1..epoch'[x], First(x, j)', NEW b \in Blocks
          PROVE  /\ \A v : HeldAt(x, date[x][j], b, v)' => v = orig'[x][j][b]
                 /\ date'[x][j] = LastDate(x)' /\ (\A v : ~HeldAt(x, LastDate(x), b, v)') =>
                       disk'[x][b] = orig'[x][j][b]
      <3>1. j \in 1..epoch[x] /\ First(x, j)
        BY <2>1, <2>6 DEF First
      <3>2. QED
        BY <2>1, <2>2, <2>5, <3>1
    <2>7. QED
      BY <2>6 DEF OrigInv
  <1>3. ASSUME Mount(x), ~\E c \in Blocks, w \in Contents : Write(x, c, w)
        PROVE  OrigInv(x)'
    <2> DEFINE k == epoch[x] + 1
    <2>1. /\ epoch'[x] = k /\ k \in EpochNrs
          /\ \A j \in 1..epoch[x] : date'[x][j] = date[x][j]
          /\ LastDate(x)' \in {LastDate(x), LastDate(x) + 1}
          /\ LastDate(x)' # 0
          /\ date'[x][k] = LastDate(x)'
      BY <1>3, MountFacts
    <2>2. /\ disk' = disk
          /\ orig'[x][k] = disk[x]
          /\ \A j \in EpochNrs : j # k => orig'[x][j] = orig[x][j]
      BY <1>3, <2>1 DEF Mount, TypeInv, TypeOK
    <2>3. LastDate(x)' \in Dates
      BY <2>1, LastDateFacts DEF TypeInv, TypeOK
    <2>4. ASSUME NEW t \in Dates, NEW b, NEW v
          PROVE  HeldAt(x, t, b, v)' <=> HeldAt(x, t, b, v)
      BY <1>3, HeldElse
    <2>5. ASSUME NEW j \in 1..epoch[x], First(x, j)', NEW b \in Blocks
          PROVE  /\ \A v : HeldAt(x, date[x][j], b, v)' => v = orig'[x][j][b]
                 /\ date[x][j] = LastDate(x)' /\ (\A v : ~HeldAt(x, LastDate(x), b, v)') =>
                       disk'[x][b] = orig'[x][j][b]
      <3>1. First(x, j)
        <4>1. \A i \in 1..(j - 1) : i \in 1..epoch[x]
          BY <1>1
        <4>2. QED
          BY <2>1, <2>5, <4>1 DEF First
      <3>2. j \in EpochNrs /\ j # k /\ date'[x][j] = date[x][j] /\ orig'[x][j] = orig[x][j]
        <4>1. j \in EpochNrs
          BY LastDateFacts
        <4>2. QED
          BY <1>1, <2>1, <2>2, <4>1
      <3>3. date[x][j] \in 1..LastDate(x)
        BY DEF WayInv, DatesInv
      <3>4. date[x][j] = LastDate(x)' => LastDate(x)' = LastDate(x)
        BY <1>1, <2>1, <3>3
      <3>5. /\ date[x][j] \in Dates
            /\ \A v : HeldAt(x, date[x][j], b, v) => v = orig[x][j][b]
            /\ date[x][j] = LastDate(x) /\ (\A v : ~HeldAt(x, LastDate(x), b, v)) =>
                   disk[x][b] = orig[x][j][b]
        BY <1>1, <3>1 DEF OrigInv
      <3>6. \A v : HeldAt(x, date[x][j], b, v)' => v = orig'[x][j][b]
        BY <2>4, <3>2, <3>5
      <3>7. ASSUME date[x][j] = LastDate(x)', \A v : ~HeldAt(x, LastDate(x), b, v)'
            PROVE  disk'[x][b] = orig'[x][j][b]
        BY <1>1, <2>2, <2>4, <3>2, <3>4, <3>5, <3>7
      <3>8. QED
        BY <3>6, <3>7
    <2>6. ASSUME \A i \in 1..epoch[x] : date'[x][i] # date'[x][k], NEW b \in Blocks, NEW v
          PROVE  ~HeldAt(x, LastDate(x), b, v)'
      <3>1. LastDate(x)' > LastDate(x)
        <4>1. CASE epoch[x] = 0
          BY <1>1, <2>1, <4>1 DEF LastDate
        <4>2. CASE epoch[x] # 0
          <5>1. epoch[x] \in 1..epoch[x]
            BY <1>1, <4>2
          <5>2. date'[x][epoch[x]] # date'[x][k]
            BY <2>6, <5>1
          <5>3. LastDate(x) # LastDate(x)'
            BY <2>1, <4>2, <5>1, <5>2 DEF LastDate
          <5>4. QED
            BY <1>1, <2>1, <5>3
        <4>3. QED
          BY <4>1, <4>2
      <3>2. ~HeldAt(x, LastDate(x)', b, v)
        BY <2>3, <3>1, NothingAhead DEF WayInv
      <3>3. QED
        BY <2>3, <2>4, <3>2
    <2>7. ASSUME NEW j \in 1..epoch'[x], First(x, j)', NEW b \in Blocks
          PROVE  /\ \A v : HeldAt(x, date[x][j], b, v)' => v = orig'[x][j][b]
                 /\ date'[x][j] = LastDate(x)' /\ (\A v : ~HeldAt(x, LastDate(x), b, v)') =>
                       disk'[x][b] = orig'[x][j][b]
      <3>1. CASE j \in 1..epoch[x]
        BY <2>1, <2>5, <2>7, <3>1
      <3>2. CASE j = k
        <4>0. \A i \in 1..epoch[x] : date'[x][i] # date'[x][k]
          <5>1. \A i \in 1..epoch[x] : i \in 1..(k - 1)
            BY <1>1
          <5>2. QED
            BY <2>7, <3>2, <5>1 DEF First
        <4>1. \A v : ~HeldAt(x, LastDate(x), b, v)'
          BY <2>6, <4>0
        <4>2. \A v : ~HeldAt(x, date[x][j], b, v)'
          BY <2>1, <3>2, <4>1
        <4>3. QED
          BY <2>2, <3>2, <4>2
      <3>3. QED
        BY <1>1, <2>1, <3>1, <3>2
    <2>8. QED
      BY <2>7 DEF OrigInv
  <1>4. ASSUME ~Mount(x), ~\E c \in Blocks, w \in Contents : Write(x, c, w)
        PROVE  OrigInv(x)'
    <2>1. /\ disk'[x] = disk[x] /\ orig'[x] = orig[x]
          /\ epoch'[x] = epoch[x] /\ date'[x] = date[x] /\ LastDate(x)' = LastDate(x)
      BY <1>4, ElseKeepsOriginals
    <2>2. ASSUME NEW t \in Dates, NEW b, NEW v
          PROVE  HeldAt(x, t, b, v)' <=> HeldAt(x, t, b, v)
      BY <1>4, HeldElse
    <2>3. ASSUME NEW j \in 1..epoch[x], First(x, j), NEW b \in Blocks
          PROVE  /\ \A v : HeldAt(x, date[x][j], b, v)' => v = orig'[x][j][b]
                 /\ date[x][j] = LastDate(x) /\ (\A v : ~HeldAt(x, LastDate(x), b, v)') =>
                       disk'[x][b] = orig'[x][j][b]
      <3>1. date[x][j] \in Dates /\ LastDate(x) \in Dates
        BY <1>1, <2>3
      <3>2. /\ \A v : HeldAt(x, date[x][j], b, v) => v = orig[x][j][b]
            /\ date[x][j] = LastDate(x) /\ (\A v : ~HeldAt(x, LastDate(x), b, v)) =>
                  disk[x][b] = orig[x][j][b]
        BY <2>3 DEF OrigInv
      <3>3. QED
        BY <2>1, <2>2, <3>1, <3>2
    <2>4. QED
      BY ZenonT(30), <2>1, <2>3 DEF OrigInv, First
  <1>5. QED
    BY <1>2, <1>3, <1>4

-----------------------------------------------------------------------------
RefInv ==
    /\ IInv
    /\ WayInv
    /\ \A d \in Devs : Sure(d) /\ gen = 1 => OrigInv(d)

LEMMA InitRef == Init => RefInv
  <1> SUFFICES ASSUME Init PROVE RefInv
    OBVIOUS
  <1>1. IInv
    BY InitInv
  <1>2. /\ \A d \in Devs : epoch[d] = 0 /\ pc[d] = "idle"
        /\ \A d \in Devs : \A t \in Dates : recs[<<d, t>>] = <<>>
    BY DEF Init
  <1>3. WayInv
    BY <1>2 DEF WayInv, TopInv, DatesInv, ReachInv
  <1>4. \A d \in Devs : OrigInv(d)
    BY <1>2 DEF OrigInv
  <1>5. QED
    BY <1>1, <1>3, <1>4 DEF RefInv

LEMMA RefStep == RefInv /\ [Next]_vars => RefInv'
  <1> SUFFICES ASSUME RefInv, [Next]_vars PROVE RefInv'
    OBVIOUS
  <1>1. /\ TypeInv /\ DeviceInv /\ WayInv
        /\ TypeInv' /\ DeviceInv'
    BY TypeStep, DeviceStep DEF RefInv, IInv
  <1>2. WayInv'
    BY <1>1, WayStep
  <1>3. ASSUME NEW d \in Devs, Sure(d), gen' = 1 PROVE OrigInv(d)'
    <2>1. gen = 1
      BY <1>1, <1>3, GenSteps
    <2>2. QED
      BY <1>1, <1>3, <2>1, OrigStep DEF RefInv
  <1>4. QED
    BY <1>1, <1>2, <1>3 DEF RefInv, IInv, Sure, NoMkdirRace, OneDevice, Reliable

LEMMA RefInvariance == Spec => []RefInv
  BY InitRef, RefStep, PTL DEF Spec

\* The file of an epoch belongs to the first epoch of its second.
LEMMA FirstOfDateFacts ==
  ASSUME TypeInv, NEW d \in Devs, NEW k \in 1..epoch[d]
  PROVE  /\ FirstOfDate(d, k) \in 1..k
         /\ FirstOfDate(d, k) \in 1..epoch[d]
         /\ date[d][FirstOfDate(d, k)] = date[d][k]
         /\ First(d, FirstOfDate(d, k))
  <1> DEFINE S == {i \in 1..k : date[d][i] = date[d][k]}
             Is(j) == /\ date[d][j] = date[d][k]
                      /\ \A i \in 1..(j - 1) : date[d][i] # date[d][j]
  <1>1. k \in Nat /\ k >= 1 /\ epoch[d] \in Nat /\ k <= epoch[d]
    BY LastDateFacts
  <1>2. S \in SUBSET Nat /\ k \in S
    BY <1>1
  <1>3. PICK m : FirstIn(S, m)
    BY <1>2, Least
  <1>4. m \in 1..k /\ date[d][m] = date[d][k] /\ \A h \in S : m <= h
    BY <1>3 DEF FirstIn
  <1>5. \A i \in 1..(m - 1) : date[d][i] # date[d][m]
    <2>1. ASSUME NEW i \in 1..(m - 1), date[d][i] = date[d][m] PROVE FALSE
      <3>1. i \in 1..k /\ i < m
        BY <1>1, <1>4
      <3>2. i \in S
        BY <1>4, <2>1, <3>1
      <3>3. QED
        BY <1>1, <1>4, <3>1, <3>2
    <2>2. QED
      BY <2>1
  <1>6. \E j \in 1..k : Is(j)
    BY <1>4, <1>5
  <1>7. FirstOfDate(d, k) = CHOOSE j \in 1..k : Is(j)
    BY DEF FirstOfDate
  <1> HIDE DEF Is
  <1>8. FirstOfDate(d, k) \in 1..k /\ Is(FirstOfDate(d, k))
    BY <1>6, <1>7
  <1>9. QED
    BY <1>1, <1>8 DEF Is, First

\* RecordsAreOriginals: where nothing can stop the works of a device, its
\* snapblocks files hold each block at most once, with what the block held
\* when the (first) epoch of the file began, whatever happens on other
\* devices.  NoMkdirRace is needed: with a vfs_mkdir that tells -EEXIST from
\* success, the work that loses the race for /snapshot gives the block up.
THEOREM OriginalsRecorded ==
  ASSUME NoMkdirRace
  PROVE  Spec => []RecordsAreOriginals
  <1>1. RefInv => RecordsAreOriginals
    <2> SUFFICES ASSUME RefInv, NEW d \in Reliable, gen = 1, NEW k \in 1..epoch[d],
                        NEW i \in Visible(File(d, k))
                 PROVE  LET r == File(d, k) IN
                        /\ Payload(r, i) = orig[d][FirstOfDate(d, k)][r[i].blk]
                        /\ \A j \in Visible(r) : r[j].blk = r[i].blk => j = i
      BY DEF RecordsAreOriginals
    <2> DEFINE r == File(d, k)
               f == FirstOfDate(d, k)
               t == date[d][k]
    <2>1. d \in Devs /\ TypeInv /\ SavedInv(d) /\ OrigInv(d)
      BY DEF RefInv, IInv, DeviceInv, Sure, Reliable, Whole, CanFail
    <2>2. t \in Dates /\ r = recs[<<d, t>>]
      BY <2>1, LastDateFacts DEF File
    <2>3. r \in Seq(Records) /\ DOMAIN r = 1..Len(r) /\ Len(r) \in Nat
      <3>1. r \in Seq(Records)
        BY <2>1, <2>2, HeldTypes
      <3>2. QED
        BY <3>1, LenProperties
    <2>4. \A h, j \in DOMAIN r : ~r[h].cut /\ (r[h].blk = r[j].blk => h = j)
      BY <2>1, <2>2 DEF SavedInv
    <2>5. f \in 1..epoch[d] /\ date[d][f] = t /\ First(d, f)
      BY <2>1, FirstOfDateFacts
    <2> HIDE DEF r, f, t
    <2>6. i \in DOMAIN r /\ \A j \in Visible(r) : j \in DOMAIN r
      BY DEF Visible, r
    <2>7. Payload(r, i) = r[i].val
      BY <2>4, <2>6 DEF Payload
    <2>8. r[i].blk \in Blocks
      <3>1. r[i] \in Records
        BY <2>3, <2>6, ElementOfSeq
      <3>2. QED
        BY <3>1 DEF Records
    <2>9. FirstIn(RecordsOf(r, r[i].blk), i)
      <3>1. \A h \in RecordsOf(r, r[i].blk) : h = i
        BY <2>3, <2>4, <2>6, RecordIndexes
      <3>2. i \in RecordsOf(r, r[i].blk) /\ i \in Nat
        BY <2>3, <2>6, RecordIndexes
      <3>3. i <= i
        BY <3>2
      <3>4. QED
        BY <3>1, <3>2, <3>3 DEF FirstIn
    <2>10. HeldAt(d, t, r[i].blk, r[i].val)
      BY <2>2, <2>9 DEF HeldAt, Held
    <2>11. r[i].val = orig[d][f][r[i].blk]
      BY <2>1, <2>5, <2>8, <2>10 DEF OrigInv
    <2>12. QED
      BY <2>4, <2>6, <2>7, <2>11 DEF r, f
  <1>2. QED
    BY RefInvariance, <1>1, PTL

-----------------------------------------------------------------------------
(* The refinement: snapshots that hold the same are the same, what a write *)
(* adds is what the abstract write adds, and a work adds nothing.          *)

LEMMA SnapFacts ==
  ASSUME NEW r \in Seq(Records), NEW q \in Seq(SnapWorks \cup CleanupWorks),
         NEW began, NEW t
  PROVE  /\ SnapshotOf(r, q, began, t) =
              [b \in DOMAIN SnapshotOf(r, q, began, t) |-> SnapshotOf(r, q, began, t)[b]]
         /\ \A b : b \in DOMAIN SnapshotOf(r, q, began, t) <=>
                      b \in Blocks /\ \E v : Held(r, q, began, t, b, v)
         /\ \A b \in DOMAIN SnapshotOf(r, q, began, t) :
                Held(r, q, began, t, b, SnapshotOf(r, q, began, t)[b])
         /\ \A b, v, w : Held(r, q, began, t, b, v) /\ Held(r, q, began, t, b, w) => v = w
  <1> DEFINE S == SnapshotOf(r, q, began, t)
             D == {x \in Blocks : \E v : Held(r, q, began, t, x, v)}
             c(b) == CHOOSE v : Held(r, q, began, t, b, v)
  <1>1. S = [b \in D |-> c(b)]
    BY HeldSnapshot, Zenon
  <1>2. \A b \in D : Held(r, q, began, t, b, c(b))
    OBVIOUS
  <1> HIDE DEF S, c
  <1>3. S = [b \in DOMAIN S |-> S[b]] /\ DOMAIN S = D /\ \A b \in D : S[b] = c(b)
    BY <1>1
  <1>4. QED
    BY <1>2, <1>3, HeldSnapshot DEF S

LEMMA SnapsOf ==
  ASSUME NEW n \in Nat, NEW s, s = [t \in 1..n |-> s[t]]
  PROVE  /\ Len(s) = n
         /\ s # <<>> <=> n # 0
         /\ \A e : Append(s, e) = [t \in 1..(n + 1) |-> IF t = n + 1 THEN e ELSE s[t]]
  <1> DEFINE S == {s[t] : t \in 1..n}
  <1>1. s \in [1..n -> S]
    OBVIOUS
  <1>2. s \in Seq(S)
    BY <1>1, SeqDef
  <1> HIDE DEF S
  <1>3. Len(s) = n
    BY <1>1, <1>2, LenProperties
  <1>4. s # <<>> <=> n # 0
    BY <1>2, <1>3, EmptySeq
  <1>5. ASSUME NEW e
        PROVE  Append(s, e) = [t \in 1..(n + 1) |-> IF t = n + 1 THEN e ELSE s[t]]
    <2>1. s \in Seq(S \cup {e}) /\ e \in S \cup {e}
      BY <1>2, SeqMonotonic
    <2> DEFINE a == Append(s, e)
    <2>2. /\ a \in Seq(S \cup {e}) /\ Len(a) = n + 1
          /\ \A t \in 1..n : a[t] = s[t]
          /\ a[n + 1] = e
      BY <1>3, <2>1, AppendProperties
    <2> HIDE DEF a
    <2>3. a \in [1..(n + 1) -> S \cup {e}]
      BY <2>2, LenProperties
    <2>4. a = [t \in 1..(n + 1) |-> a[t]]
      BY <2>3
    <2>5. \A t \in 1..(n + 1) : a[t] = IF t = n + 1 THEN e ELSE s[t]
      BY <2>2
    <2>6. QED
      BY <2>4, <2>5 DEF a
  <1>6. QED
    BY <1>3, <1>4, <1>5

SnapAt(d, t) == SnapshotOf(recs[<<d, t>>], queue[d], date[d], t)

LEMMA SnapsFacts ==
  /\ Snaps = [d \in Devs |-> [t \in 1..LastDate(d) |-> SnapAt(d, t)]]
  /\ Snaps' = [d \in Devs |-> [t \in 1..LastDate(d)' |-> SnapAt(d, t)']]
  BY DEF Snaps, SnapAt

LEMMA SnapAtFacts ==
  ASSUME TypeInv, TypeInv', NEW x \in Devs, NEW t \in Dates
  PROVE  /\ SnapAt(x, t) = [b \in DOMAIN SnapAt(x, t) |-> SnapAt(x, t)[b]]
         /\ \A b : b \in DOMAIN SnapAt(x, t) <=> b \in Blocks /\ \E v : HeldAt(x, t, b, v)
         /\ \A b \in DOMAIN SnapAt(x, t) : HeldAt(x, t, b, SnapAt(x, t)[b])
         /\ \A b, v, w : HeldAt(x, t, b, v) /\ HeldAt(x, t, b, w) => v = w
         /\ SnapAt(x, t)' = [b \in DOMAIN SnapAt(x, t)' |-> SnapAt(x, t)'[b]]
         /\ \A b : b \in DOMAIN SnapAt(x, t)' <=>
                      b \in Blocks /\ \E v : HeldAt(x, t, b, v)'
         /\ \A b \in DOMAIN SnapAt(x, t)' : \A v :
                v = SnapAt(x, t)'[b] => HeldAt(x, t, b, v)'
         /\ \A b, v, w : HeldAt(x, t, b, v)' /\ HeldAt(x, t, b, w)' => v = w
  <1>1. /\ recs[<<x, t>>] \in Seq(Records) /\ recs'[<<x, t>>] \in Seq(Records)
        /\ queue[x] \in Seq(SnapWorks \cup CleanupWorks)
        /\ queue'[x] \in Seq(SnapWorks \cup CleanupWorks)
    BY DEF TypeInv, TypeOK
  <1>2. /\ SnapAt(x, t) = [b \in DOMAIN SnapAt(x, t) |-> SnapAt(x, t)[b]]
        /\ \A b : b \in DOMAIN SnapAt(x, t) <=> b \in Blocks /\ \E v : HeldAt(x, t, b, v)
        /\ \A b \in DOMAIN SnapAt(x, t) : HeldAt(x, t, b, SnapAt(x, t)[b])
        /\ \A b, v, w : HeldAt(x, t, b, v) /\ HeldAt(x, t, b, w) => v = w
    BY <1>1, SnapFacts DEF SnapAt, HeldAt
  <1>3. /\ SnapAt(x, t)' = [b \in DOMAIN SnapAt(x, t)' |-> SnapAt(x, t)'[b]]
        /\ \A b : b \in DOMAIN SnapAt(x, t)' <=> b \in Blocks /\ \E v : HeldAt(x, t, b, v)'
        /\ \A b \in DOMAIN SnapAt(x, t)' : \A v :
               v = SnapAt(x, t)'[b] => HeldAt(x, t, b, v)'
        /\ \A b, v, w : HeldAt(x, t, b, v)' /\ HeldAt(x, t, b, w)' => v = w
    <2> DEFINE m == SnapshotOf(recs'[<<x, t>>], queue'[x], date'[x], t)
               H(b, v) == Held(recs'[<<x, t>>], queue'[x], date'[x], t, b, v)
    <2>1. /\ m = [b \in DOMAIN m |-> m[b]]
          /\ \A b : b \in DOMAIN m <=> b \in Blocks /\ \E v : H(b, v)
          /\ \A b \in DOMAIN m : H(b, m[b])
          /\ \A b, v, w : H(b, v) /\ H(b, w) => v = w
      BY <1>1, SnapFacts, Zenon
    <2>2. SnapAt(x, t)' = m
      BY DEF SnapAt
    <2>3. \A b, v : HeldAt(x, t, b, v)' <=> H(b, v)
      BY DEF HeldAt
    <2> HIDE DEF m, H
    <2>4. QED
      BY <2>1, <2>2, <2>3
  <1>4. QED
    BY <1>2, <1>3

\* What is held stays what it was, and so does the snapshot.
LEMMA SnapAtKept ==
  ASSUME TypeInv, TypeInv', NEW x \in Devs, NEW t \in Dates,
         \A b \in Blocks : \A v : HeldAt(x, t, b, v)' <=> HeldAt(x, t, b, v)
  PROVE  SnapAt(x, t)' = SnapAt(x, t)
  <1>1. \A b : b \in DOMAIN SnapAt(x, t)' <=> b \in DOMAIN SnapAt(x, t)
    BY SnapAtFacts
  <1>2. \A b \in DOMAIN SnapAt(x, t) : SnapAt(x, t)'[b] = SnapAt(x, t)[b]
    BY <1>1, SnapAtFacts
  <1>3. QED
    BY <1>1, <1>2, SnapAtFacts

\* A block for which nothing was held.
LEMMA SnapAtMore ==
  ASSUME TypeInv, TypeInv', NEW x \in Devs, NEW t \in Dates, NEW c \in Blocks, NEW w,
         \A b \in Blocks : \A v : HeldAt(x, t, b, v)' <=>
            \/ HeldAt(x, t, b, v)
            \/ (~\E u : HeldAt(x, t, b, u)) /\ c = b /\ w = v
  PROVE  SnapAt(x, t)' = Abs!WithBlock(SnapAt(x, t), c, w)
  <1> DEFINE W == Abs!WithBlock(SnapAt(x, t), c, w)
  <1>1. W = [b \in DOMAIN SnapAt(x, t) \cup {c} |->
               IF b \in DOMAIN SnapAt(x, t) THEN SnapAt(x, t)[b] ELSE w]
    BY DEF Abs!WithBlock
  <1> HIDE DEF W
  <1>2. \A b : b \in DOMAIN SnapAt(x, t)' <=> b \in DOMAIN SnapAt(x, t) \cup {c}
    BY SnapAtFacts
  <1>3. ASSUME NEW b \in DOMAIN SnapAt(x, t)'
        PROVE  SnapAt(x, t)'[b] =
                 IF b \in DOMAIN SnapAt(x, t) THEN SnapAt(x, t)[b] ELSE w
    <2>1. b \in Blocks /\ \A v : v = SnapAt(x, t)'[b] => HeldAt(x, t, b, v)'
      BY SnapAtFacts
    <2>2. CASE b \in DOMAIN SnapAt(x, t)
      BY <2>1, <2>2, SnapAtFacts
    <2>3. CASE b \notin DOMAIN SnapAt(x, t)
      BY <2>1, <2>3, SnapAtFacts
    <2>4. QED
      BY <2>2, <2>3
  <1>4. SnapAt(x, t)' = W
    BY <1>1, <1>2, <1>3, SnapAtFacts
  <1>5. QED
    BY <1>4 DEF W

LEMMA SnapAtNone ==
  ASSUME TypeInv, TypeInv', NEW x \in Devs, NEW t \in Dates,
         \A b, v : ~HeldAt(x, t, b, v)'
  PROVE  SnapAt(x, t)' = Abs!NoBlocks
  <1>1. \A b : b \notin DOMAIN SnapAt(x, t)'
    BY SnapAtFacts
  <1>2. DOMAIN SnapAt(x, t)' = {}
    BY <1>1
  <1>3. SnapAt(x, t)' = [b \in DOMAIN SnapAt(x, t)' |-> SnapAt(x, t)'[b]]
    BY SnapAtFacts
  <1>4. SnapAt(x, t)' = [b \in {} |-> b]
    BY <1>2, <1>3
  <1>5. QED
    BY <1>4 DEF Abs!NoBlocks

LEMMA SnapsKept ==
  ASSUME TypeInv, TypeInv', NEW x \in Devs, LastDate(x)' = LastDate(x),
         \A t \in Dates, b \in Blocks : \A v : HeldAt(x, t, b, v)' <=> HeldAt(x, t, b, v)
  PROVE  Snaps'[x] = Snaps[x]
  <1>1. \A t \in 1..LastDate(x) : t \in Dates
    BY LastDateFacts DEF Dates
  <1>2. ASSUME NEW t \in 1..LastDate(x)
        PROVE  SnapAt(x, t)' = SnapAt(x, t)
    BY <1>1, SnapAtKept
  <1>3. [t \in 1..LastDate(x)' |-> SnapAt(x, t)'] = [t \in 1..LastDate(x) |-> SnapAt(x, t)]
    BY <1>2
  <1>4. QED
    BY <1>3, SnapsFacts

\* An epoch begins.
LEMMA MountImplements ==
  ASSUME TypeInv, TypeInv', DeviceInv, WayInv, NEW d \in Devs, Sure(d), gen' = 1, Mount(d),
         ~\E c \in Blocks, w \in Contents : Write(d, c, w)
  PROVE  Abs!Mount(d)
  <1>1. /\ ~mounted[d] /\ mounted' = [mounted EXCEPT ![d] = TRUE]
        /\ disk' = disk /\ queue' = queue /\ recs' = recs
    BY DEF Mount, fsvars
  <1>2. /\ LastDate(d) \in Nat /\ LastDate(d)' \in {LastDate(d), LastDate(d) + 1}
        /\ LastDate(d)' # 0 /\ LastDate(d)' \in Dates
        /\ \A x \in Devs \ {d} : LastDate(x)' = LastDate(x) /\ date'[x] = date[x]
    <2>1. /\ LastDate(d)' \in {LastDate(d), LastDate(d) + 1} /\ LastDate(d)' # 0
          /\ epoch[d] + 1 \in EpochNrs /\ LastDate(d)' = date'[d][epoch[d] + 1]
          /\ \A x \in Devs \ {d} : LastDate(x)' = LastDate(x) /\ date'[x] = date[x]
      BY MountFacts
    <2>2. LastDate(d)' \in Dates
      BY <2>1 DEF TypeInv, TypeOK
    <2>3. QED
      BY <2>1, <2>2, LastDateFacts
  <1>3. ASSUME NEW t \in Dates, NEW b, NEW v
        PROVE  HeldAt(d, t, b, v)' <=> HeldAt(d, t, b, v)
    <2>1. [Next]_vars
      BY DEF Next
    <2>2. QED
      BY <2>1, HeldElse
  <1>4. ASSUME NEW x \in Devs \ {d} PROVE Snaps'[x] = Snaps[x]
    BY <1>1, <1>2, SnapsKept DEF HeldAt
  <1>5. CASE LastDate(d)' = LastDate(d)
    <2>1. Snaps'[d] = Snaps[d]
      BY <1>3, <1>5, SnapsKept
    <2>2. Snaps' = Snaps
      BY <1>4, <2>1, SnapsFacts
    <2>3. Snaps[d] # <<>>
      <3>1. Snaps[d] = [t \in 1..LastDate(d) |-> Snaps[d][t]]
        BY SnapsFacts
      <3>2. QED
        BY <1>2, <1>5, <3>1, SnapsOf
    <2>4. QED
      BY <1>1, <2>2, <2>3 DEF Abs!Mount
  <1>6. CASE LastDate(d)' = LastDate(d) + 1
    <2> DEFINE n == LastDate(d)
    <2>1. ASSUME NEW t \in 1..n PROVE SnapAt(d, t)' = SnapAt(d, t)
      <3>1. t \in Dates
        BY LastDateFacts DEF Dates
      <3>2. QED
        BY <1>3, <3>1, SnapAtKept
    <2>2. ASSUME NEW t, t = n + 1
          PROVE  SnapAt(d, t)' = Abs!NoBlocks
      <3>1. t \in Dates /\ t > n
        BY <1>2, <1>6, <2>2
      <3>2. \A b, v : ~HeldAt(d, t, b, v)
        BY <3>1, NothingAhead DEF WayInv
      <3>3. \A b, v : ~HeldAt(d, t, b, v)'
        BY <1>3, <3>1, <3>2
      <3>4. QED
        BY <3>1, <3>3, SnapAtNone
    <2>3. Snaps'[d] = Append(Snaps[d], Abs!NoBlocks)
      <3>1. /\ Snaps[d] = [t \in 1..n |-> Snaps[d][t]]
            /\ \A t \in 1..n : Snaps[d][t] = SnapAt(d, t)
        BY SnapsFacts
      <3>2. Append(Snaps[d], Abs!NoBlocks) =
              [t \in 1..(n + 1) |-> IF t = n + 1 THEN Abs!NoBlocks ELSE Snaps[d][t]]
        BY <1>2, <3>1, SnapsOf
      <3>3. Snaps'[d] = [t \in 1..(n + 1) |-> SnapAt(d, t)']
        BY <1>6, SnapsFacts
      <3>4. ASSUME NEW t \in 1..(n + 1)
            PROVE  SnapAt(d, t)' = IF t = n + 1 THEN Abs!NoBlocks ELSE Snaps[d][t]
        <4>1. t = n + 1 \/ (t \in 1..n /\ t # n + 1)
          BY <1>2
        <4>2. QED
          BY <2>1, <2>2, <3>1, <4>1
      <3>5. QED
        BY <3>2, <3>3, <3>4
    <2>4. Snaps' = [Snaps EXCEPT ![d] = Append(@, Abs!NoBlocks)]
      BY <1>4, <2>3, SnapsFacts
    <2>5. QED
      BY <1>1, <2>4 DEF Abs!Mount
  <1>7. QED
    BY <1>2, <1>5, <1>6

\* A block is written.
LEMMA WriteImplements ==
  ASSUME TypeInv, TypeInv', WayInv, NEW d \in Devs, d \in Reliable,
         NEW c \in Blocks, NEW w \in Contents, Write(d, c, w)
  PROVE  Abs!Write(d, c, w)
  <1> DEFINE n == LastDate(d)
  <1>1. /\ mounted[d] /\ mounted' = mounted
        /\ disk' = [disk EXCEPT ![d][c] = w]
        /\ recs' = recs /\ date' = date /\ epoch' = epoch
        /\ \A x \in Devs \ {d} : queue'[x] = queue[x]
    BY DEF Write, fsvars, epvars, TypeInv, TypeOK
  <1>2. n \in Dates /\ n \in Nat /\ n # 0
    <2>1. n \in Dates /\ n \in Nat
      BY LastDateFacts
    <2>2. epoch[d] # 0
      BY <1>1 DEF TypeInv, WorksQueued
    <2>3. date[d][epoch[d]] \in 1..n
      BY <2>2, LastDateFacts DEF WayInv, DatesInv
    <2>4. QED
      BY <2>1, <2>3
  <1>3. \A x \in Devs : LastDate(x)' = LastDate(x)
    BY <1>1 DEF LastDate
  <1>4. ASSUME NEW x \in Devs \ {d} PROVE Snaps'[x] = Snaps[x]
    BY <1>1, <1>3, SnapsKept DEF HeldAt
  <1>5. ASSUME NEW t \in 1..n
        PROVE  SnapAt(d, t)' =
                 IF t = n THEN Abs!WithBlock(SnapAt(d, t), c, disk[d][c]) ELSE SnapAt(d, t)
    <2>1. t \in Dates
      BY LastDateFacts DEF Dates
    <2>2. ASSUME NEW b \in Blocks, NEW v
          PROVE  HeldAt(d, t, b, v)' <=>
                   \/ HeldAt(d, t, b, v)
                   \/ /\ ~\E u : HeldAt(d, t, b, u)
                      /\ n = t /\ c = b /\ disk[d][c] = v
      BY <2>1, HeldWrite
    <2>3. CASE t = n
      BY <2>1, <2>2, <2>3, SnapAtMore
    <2>4. CASE t # n
      BY <2>1, <2>2, <2>4, SnapAtKept
    <2>5. QED
      BY <2>3, <2>4
  <1>6. /\ Snaps[d] = [t \in 1..n |-> SnapAt(d, t)]
        /\ Snaps'[d] = [t \in 1..n |-> SnapAt(d, t)']
    BY <1>3, SnapsFacts
  <1>7. Len(Snaps[d]) = n
    BY <1>2, <1>6, SnapsOf
  <1>8. Snaps'[d] = [Snaps[d] EXCEPT ![n] = Abs!WithBlock(@, c, disk[d][c])]
    BY <1>2, <1>5, <1>6
  <1>9. Snaps' = [Snaps EXCEPT ![d][Len(Snaps[d])] = Abs!WithBlock(@, c, disk[d][c])]
    <2> DEFINE e == Abs!WithBlock(Snaps[d][n], c, disk[d][c])
    <2>1. Snaps'[d] = [Snaps[d] EXCEPT ![n] = e]
      BY <1>8
    <2> HIDE DEF e, n
    <2>2. Snaps' = [Snaps EXCEPT ![d] = [Snaps[d] EXCEPT ![n] = e]]
      BY <1>4, <2>1, SnapsFacts
    <2>3. QED
      BY <1>7, <2>2 DEF e
  <1>10. QED
    BY <1>1, <1>9 DEF Abs!Write

LEMMA StepImplements ==
  ASSUME RefInv, RefInv', [Next]_vars, Reliable = Devs, NoMkdirRace, gen' = 1
  PROVE  [Abs!Next]_Abs!vars
  <1>1. /\ TypeInv /\ TypeInv' /\ DeviceInv /\ WayInv
        /\ \A x \in Devs : Sure(x) /\ x \in Reliable
    BY DEF RefInv, IInv, Sure
  <1>2. CASE \E d \in Devs, c \in Blocks, w \in Contents : Write(d, c, w)
    BY <1>1, <1>2, WriteImplements DEF Abs!Next
  <1>3. ASSUME ~\E d \in Devs, c \in Blocks, w \in Contents : Write(d, c, w),
               NEW d \in Devs, Mount(d)
        PROVE  Abs!Next
    BY <1>1, <1>3, MountImplements DEF Abs!Next
  <1>4. ASSUME ~\E d \in Devs, c \in Blocks, w \in Contents : Write(d, c, w),
               ~\E d \in Devs : Mount(d)
        PROVE  [Abs!Next]_Abs!vars
    <2>1. ASSUME NEW x \in Devs PROVE Snaps'[x] = Snaps[x]
      <3>1. LastDate(x)' = LastDate(x)
        BY <1>1, <1>4, ElseKeepsOriginals
      <3>2. \A t \in Dates, b \in Blocks : \A v :
               HeldAt(x, t, b, v)' <=> HeldAt(x, t, b, v)
        BY <1>1, <1>4, HeldElse
      <3>3. QED
        BY <1>1, <3>1, <3>2, SnapsKept
    <2>2. Snaps' = Snaps
      BY <2>1, SnapsFacts
    <2>3. ASSUME NEW d \in Devs, Umount(d) PROVE Abs!Next
      BY <2>2, <2>3 DEF Umount, Abs!Umount, Abs!Next
    <2>4. ASSUME NEW d \in Devs, WorkNext(d) PROVE UNCHANGED <<disk, mounted>>
      BY <2>4, WorkChanges DEF devvars
    <2>5. CASE UNCHANGED vars
      BY <2>2, <2>5 DEF vars, devvars, Abs!vars
    <2>6. ~RemoveSnapshots
      BY <1>1, GenSteps
    <2>7. QED
      BY <1>4, <2>2, <2>3, <2>4, <2>5, <2>6 DEF Next, Rest, Abs!vars
  <1>5. QED
    BY <1>2, <1>3, <1>4

LEMMA InitImplements == Init => Abs!Init
  <1> SUFFICES ASSUME Init PROVE Abs!Init
    OBVIOUS
  <1>1. \A d \in Devs : LastDate(d) = 0
    BY DEF Init, LastDate
  <1>2. ASSUME NEW d \in Devs PROVE Snaps[d] = <<>>
    <2>1. Snaps[d] = [t \in 1..0 |-> Snaps[d][t]]
      BY <1>1, SnapsFacts
    <2>2. QED
      BY <2>1, SnapsOf
  <1>3. Snaps = [d \in Devs |-> <<>>]
    BY <1>2, SnapsFacts
  <1>4. QED
    BY <1>3 DEF Init, Abs!Init

\* ImplementsSnapshotSpec: where nothing but the addition to the cache can
\* fail and nobody removes /snapshot, the works with their queue, their cache
\* and their files do what SnapshotSpec says: the first write to a block of an
\* epoch adds what the block held to the epoch's map, and nothing is ever
\* taken from a map or changed in it.
THEOREM Refinement ==
  ASSUME Reliable = Devs, NoMkdirRace, MaxRm = 0
  PROVE  Spec => ImplementsSnapshotSpec
  <1>1. RefInv /\ RefInv' /\ (gen = 1)' /\ [Next]_vars => [Abs!Next]_Abs!vars
    BY StepImplements
  <1>2. QED
    BY InitImplements, RefInvariance, NeverRemoved, <1>1, PTL
       DEF Spec, ImplementsSnapshotSpec, Abs!Spec

-----------------------------------------------------------------------------
(* Induction over numbers, and folds.                                      *)

\* Induction, with a set in place of the property.
LEMMA Induction ==
  ASSUME NEW S, 0 \in S, \A n \in Nat : n \in S => n + 1 \in S
  PROVE  \A n \in Nat : n \in S
  <1> SUFFICES ASSUME Nat \ S # {} PROVE FALSE
    OBVIOUS
  <1>1. PICK m : FirstIn(Nat \ S, m)
    BY Least
  <1>2. m \in Nat /\ m \notin S /\ m # 0
    BY <1>1 DEF FirstIn
  <1>3. m - 1 \in Nat /\ (m - 1) + 1 = m
    BY <1>2
  <1>4. m - 1 \notin S
    BY <1>2, <1>3
  <1>5. m <= m - 1
    BY <1>1, <1>3, <1>4 DEF FirstIn
  <1>6. QED
    BY <1>2, <1>5

\* The greatest of finitely many numbers.
LEMMA Greatest ==
  ASSUME NEW n \in Nat, NEW s \in SUBSET (1..n), s # {}
  PROVE  /\ Max(s) \in s /\ Max(s) \in 1..n
         /\ \A y \in s : y <= Max(s)
         /\ s \ {Max(s)} \in SUBSET (1..n)
         /\ s \ {Max(s)} \in SUBSET (1..(Max(s) - 1))
  <1> DEFINE U == {m \in Nat : \A y \in s : y <= m}
  <1>1. n \in U /\ U \in SUBSET Nat
    OBVIOUS
  <1>2. PICK m : FirstIn(U, m)
    BY <1>1, Least
  <1>3. m \in Nat /\ (\A y \in s : y <= m) /\ (\A h \in U : m <= h)
    BY <1>2 DEF FirstIn
  <1>4. m \in s
    <2> SUFFICES ASSUME m \notin s PROVE FALSE
      OBVIOUS
    <2>1. PICK y \in s : TRUE
      OBVIOUS
    <2>2. y \in 1..n /\ y <= m /\ m - 1 \in Nat
      BY <1>3
    <2>3. \A z \in s : z \in Nat /\ z <= m /\ z # m
      BY <1>3
    <2>4. \A z \in s : z <= m - 1
      BY <1>3, <2>3
    <2>5. m - 1 \in U
      BY <2>2, <2>4
    <2>6. m <= m - 1
      BY <1>3, <2>5
    <2>7. QED
      BY <1>3, <2>6
  <1>5. \E x \in s : \A y \in s : x >= y
    BY <1>3, <1>4
  <1>6. Max(s) \in s /\ \A y \in s : Max(s) >= y
    BY <1>5 DEF Max
  <1>7. Max(s) \in 1..n /\ \A y \in s : y \in 1..n /\ y <= Max(s)
    BY <1>6
  <1>8. ASSUME NEW y \in s \ {Max(s)} PROVE y \in 1..n /\ y \in 1..(Max(s) - 1)
    <2>1. y \in 1..n /\ y <= Max(s) /\ y # Max(s)
      BY <1>7
    <2>2. QED
      BY <1>7, <2>1
  <1>9. QED
    BY <1>6, <1>7, <1>8

\* The function behind the fold of h over 1..n, from z
IsFold(g, n, A, z, h) ==
    /\ g \in [SUBSET (1..n) -> A]
    /\ \A s \in SUBSET (1..n) :
          g[s] = IF s = {} THEN z ELSE h[<<g[s \ {Max(s)}], Max(s)>>]

\* The function behind a fold exists: each value depends on the one for a
\* smaller set only.
LEMMA Iterates ==
  ASSUME NEW n \in Nat, NEW A, NEW z \in A, NEW h \in [A \X (1..n) -> A]
  PROVE  \E g : IsFold(g, n, A, z, h)
  <1> DEFINE D == SUBSET (1..n)
             F(g, s) == IF s = {} THEN z ELSE h[<<g[s \ {Max(s)}], Max(s)>>]
             Good(g, m) == \A s \in D : s \in SUBSET (1..m) => g[s] = F(g, s)
             S == {m \in Nat : \E g \in [D -> A] : Good(g, m)}
  <1>1. ASSUME NEW g \in [D -> A], NEW s \in D
        PROVE  F(g, s) \in A
    <2>1. CASE s = {}
      BY <2>1
    <2>2. CASE s # {}
      <3>1. s \ {Max(s)} \in D /\ Max(s) \in 1..n
        BY <2>2, Greatest
      <3>2. <<g[s \ {Max(s)}], Max(s)>> \in A \X (1..n)
        BY <3>1
      <3>3. QED
        BY <2>2, <3>2
    <2>3. QED
      BY <2>1, <2>2
  <1>2. 0 \in S
    <2> DEFINE g == [s \in D |-> z]
    <2>1. g \in [D -> A]
      OBVIOUS
    <2>2. ASSUME NEW s \in D, s \in SUBSET (1..0) PROVE g[s] = F(g, s)
      <3>1. s = {}
        BY <2>2
      <3>2. QED
        BY <3>1
    <2>3. Good(g, 0)
      BY <2>2
    <2>4. QED
      BY <2>1, <2>3
  <1>3. ASSUME NEW m \in Nat, m \in S PROVE m + 1 \in S
    <2>1. PICK g \in [D -> A] : Good(g, m)
      BY <1>3
    <2> DEFINE k == [s \in D |-> F(g, s)]
    <2>2. k \in [D -> A] /\ \A s \in D : k[s] = F(g, s)
      BY <1>1
    <2>3. ASSUME NEW s \in D, s \in SUBSET (1..(m + 1)) PROVE k[s] = F(k, s)
      <3>1. CASE s = {}
        BY <2>2, <3>1
      <3>2. CASE s # {}
        <4>1. /\ s \ {Max(s)} \in D
              /\ s \ {Max(s)} \in SUBSET (1..(Max(s) - 1)) /\ Max(s) \in s
          BY <3>2, Greatest
        <4>2. s \ {Max(s)} \in SUBSET (1..m)
          <5>1. Max(s) \in 1..(m + 1)
            BY <2>3, <4>1
          <5>2. 1..(Max(s) - 1) \in SUBSET (1..m)
            BY <5>1
          <5>3. QED
            BY <4>1, <5>2
        <4>3. g[s \ {Max(s)}] = F(g, s \ {Max(s)})
          BY <2>1, <4>1, <4>2
        <4>4. k[s \ {Max(s)}] = g[s \ {Max(s)}]
          BY <2>2, <4>1, <4>3
        <4>5. QED
          BY <2>2, <3>2, <4>4
      <3>3. QED
        BY <3>1, <3>2
    <2> HIDE DEF k
    <2>4. Good(k, m + 1)
      BY <2>3
    <2> HIDE DEF Good
    <2>5. QED
      BY <2>2, <2>4
  <1> HIDE DEF S
  <1>4. n \in S
    BY <1>2, <1>3, Induction
  <1>5. PICK g \in [D -> A] : Good(g, n)
    BY <1>4 DEF S
  <1>6. IsFold(g, n, A, z, h)
    BY <1>5 DEF IsFold
  <1>7. QED
    BY <1>6

\* What a fold over 1..n does, step by step.
LEMMA IntervalFacts ==
  ASSUME NEW n \in Nat, NEW m \in 0..(n - 1)
  PROVE  /\ 1..(m + 1) \in SUBSET (1..n) /\ 1..(m + 1) # {}
         /\ Max(1..(m + 1)) = m + 1
         /\ 1..(m + 1) \ {Max(1..(m + 1))} = 1..m
  <1>1. 1..(m + 1) \in SUBSET (1..n) /\ m + 1 \in 1..(m + 1)
    OBVIOUS
  <1>2. Max(1..(m + 1)) \in 1..(m + 1) /\ \A y \in 1..(m + 1) : y <= Max(1..(m + 1))
    BY <1>1, Greatest
  <1>3. Max(1..(m + 1)) = m + 1
    BY <1>1, <1>2
  <1>4. 1..(m + 1) \ {m + 1} = 1..m
    OBVIOUS
  <1>5. QED
    BY <1>1, <1>3, <1>4

-----------------------------------------------------------------------------
(* do_restore.                                                             *)

\* What a device may hold
Images == [Blocks -> Contents \cup {Garbage}]

\* The records that are restored
Chosen(r, opt, yes) ==
    LET hits == {i \in Visible(r) : /\ opt.all \/ r[i].blk = opt.blk
                                    /\ i \in yes
                                    /\ ~(r[i].cut /\ i = Len(r))}
    IN  {i \in hits : opt.all \/ \A j \in hits : i <= j}

\* One record read by blkdev-restore, and written when it was chosen
Put(r, C, img, i) == IF i \in C THEN [img EXCEPT ![r[i].blk] = Payload(r, i)] ELSE img

\* The function behind the fold
RestoreRun(r, dev, C) ==
    LET idx == [i \in DOMAIN r |-> i]
    IN  CHOOSE g : g = [s \in SUBSET (DOMAIN idx) |->
                           IF s = {} THEN dev ELSE Put(r, C, g[s \ {Max(s)}], idx[Max(s)])]

\* What blkdev-restore computes from one snapshot is a value of that function.
LEMMA RestoreIsRun ==
  ASSUME NEW r, NEW dev, NEW opt, NEW yes
  PROVE  Restore(r, dev, opt, yes) = RestoreRun(r, dev, Chosen(r, opt, yes))[DOMAIN r]
  <1>1. DOMAIN [i \in DOMAIN r |-> i] = DOMAIN r
    OBVIOUS
  <1>2. Restore(r, dev, opt, yes)
            = RestoreRun(r, dev, Chosen(r, opt, yes))[DOMAIN [i \in DOMAIN r |-> i]]
    BY DEF Restore, FoldLeftDomain, FoldLeft, MapThenFoldSet, RestoreRun, Chosen, Put
  <1>3. QED
    BY <1>1, <1>2

\* That function exists, so that it does one record after the other.
LEMMA RestoreSteps ==
  ASSUME NEW r \in Seq(Records), NEW dev \in Images, NEW C
  PROVE  /\ RestoreRun(r, dev, C)[1..0] = dev
         /\ \A m \in 0..(Len(r) - 1) : RestoreRun(r, dev, C)[1..(m + 1)]
                                           = Put(r, C, RestoreRun(r, dev, C)[1..m], m + 1)
  <1> DEFINE n == Len(r)
             idx == [i \in DOMAIN r |-> i]
             h == [p \in Images \X (1..n) |-> Put(r, C, p[1], p[2])]
             Is(g) == g = [s \in SUBSET (DOMAIN idx) |->
                              IF s = {} THEN dev
                              ELSE Put(r, C, g[s \ {Max(s)}], idx[Max(s)])]
  <1>1. n \in Nat /\ DOMAIN r = 1..n /\ DOMAIN idx = 1..n /\ \A i \in 1..n : idx[i] = i
    BY LenProperties
  <1>2. h \in [Images \X (1..n) -> Images]
    <2>1. ASSUME NEW img \in Images, NEW i \in 1..n PROVE Put(r, C, img, i) \in Images
      <3>1. r[i] \in Records
        BY <1>1, ElementOfSeq
      <3>2. Payload(r, i) \in Contents \cup {Garbage}
        BY <3>1 DEF Payload, Records
      <3>3. QED
        BY <3>2 DEF Put, Images
    <2>2. QED
      BY <2>1
  <1>3. \E g : Is(g)
    <2>0. PICK g : IsFold(g, n, Images, dev, h)
      <3>1. n \in Nat
        BY <1>1
      <3> HIDE DEF h, n
      <3>2. QED
        BY <1>2, <3>1, Iterates
    <2>1. /\ g \in [SUBSET (1..n) -> Images]
          /\ \A s \in SUBSET (1..n) :
                g[s] = IF s = {} THEN dev ELSE h[<<g[s \ {Max(s)}], Max(s)>>]
      <3> HIDE DEF h, n
      <3>1. QED
        BY <2>0 DEF IsFold
    <2>2. ASSUME NEW s \in SUBSET (1..n), s # {}
          PROVE  h[<<g[s \ {Max(s)}], Max(s)>>] = Put(r, C, g[s \ {Max(s)}], idx[Max(s)])
      <3>1. s \ {Max(s)} \in SUBSET (1..n) /\ Max(s) \in 1..n
        BY <1>1, <2>2, Greatest
      <3>2. g[s \ {Max(s)}] \in Images
        BY <2>1, <3>1
      <3>3. \A img \in Images : \A i \in 1..n : h[<<img, i>>] = Put(r, C, img, i)
        OBVIOUS
      <3>4. idx[Max(s)] = Max(s)
        BY <1>1, <3>1
      <3> HIDE DEF n, idx, h
      <3>5. QED
        BY <3>1, <3>2, <3>3, <3>4
    <2> HIDE DEF h, idx, n
    <2>3. g = [s \in SUBSET (1..n) |->
                  IF s = {} THEN dev ELSE Put(r, C, g[s \ {Max(s)}], idx[Max(s)])]
      BY <2>1, <2>2
    <2>4. Is(g)
      BY <1>1, <2>3
    <2> HIDE DEF Is
    <2>5. QED
      BY <2>4
  <1> DEFINE f == RestoreRun(r, dev, C)
  <1>4. f = CHOOSE g : Is(g)
    BY DEF RestoreRun
  <1> HIDE DEF Is, f
  <1>5. Is(f)
    BY <1>3, <1>4
  <1>6. \A s \in SUBSET (1..n) :
            f[s] = IF s = {} THEN dev ELSE Put(r, C, f[s \ {Max(s)}], idx[Max(s)])
    <2> HIDE DEF idx, n
    <2>1. QED
      BY <1>1, <1>5 DEF Is
  <1>7. f[1..0] = dev
    <2>1. 1..0 = {} /\ 1..0 \in SUBSET (1..n)
      OBVIOUS
    <2>2. QED
      BY <1>6, <2>1
  <1>8. ASSUME NEW m \in 0..(n - 1) PROVE f[1..(m + 1)] = Put(r, C, f[1..m], m + 1)
    <2>1. /\ 1..(m + 1) \in SUBSET (1..n) /\ 1..(m + 1) # {}
          /\ Max(1..(m + 1)) = m + 1
          /\ 1..(m + 1) \ {Max(1..(m + 1))} = 1..m
      BY <1>1, IntervalFacts
    <2>2. idx[m + 1] = m + 1
      BY <1>1
    <2> HIDE DEF idx
    <2>3. QED
      BY <1>6, <2>1, <2>2
  <1>9. QED
    BY <1>7, <1>8 DEF f


\* What is restored is what the records hold, when no two of them are for the
\* same block; the other blocks stay as they are.
LEMMA RestoreEffect ==
  ASSUME NEW r \in Seq(Records), NEW dev \in Images, NEW C \in SUBSET (DOMAIN r)
  PROVE  LET img == RestoreRun(r, dev, C)[DOMAIN r] IN
         /\ img \in Images
         /\ \A b \in Blocks : (\A i \in C : r[i].blk # b) => img[b] = dev[b]
         /\ (\A i, j \in C : r[i].blk = r[j].blk => i = j) =>
                \A i \in C : img[r[i].blk] = Payload(r, i)
  <1> DEFINE n == Len(r)
             f == RestoreRun(r, dev, C)
             Good(m) ==
                 /\ f[1..m] \in Images
                 /\ \A b \in Blocks : (\A i \in C : i <= m => r[i].blk # b) => f[1..m][b] = dev[b]
                 /\ (\A i, j \in C : r[i].blk = r[j].blk => i = j) =>
                        \A i \in C : i <= m => f[1..m][r[i].blk] = Payload(r, i)
             S == {m \in Nat : m <= n => Good(m)}
  <1>1. /\ n \in Nat /\ DOMAIN r = 1..n
        /\ \A i \in C : i \in 1..n /\ r[i].blk \in Blocks
                        /\ Payload(r, i) \in Contents \cup {Garbage}
    <2>1. n \in Nat /\ DOMAIN r = 1..n
      BY LenProperties
    <2>2. \A i \in C : i \in 1..n /\ r[i] \in Records
      BY <2>1, ElementOfSeq
    <2>3. QED
      BY <2>1, <2>2 DEF Records, Payload
  <1>2. /\ f[1..0] = dev
        /\ \A m \in 0..(n - 1) : f[1..(m + 1)] = Put(r, C, f[1..m], m + 1)
    BY RestoreSteps
  <1> HIDE DEF n, f
  <1>3. 0 \in S
    <2>1. \A i \in C : ~(i <= 0)
      BY <1>1
    <2>2. QED
      BY <1>2, <2>1
  <1>4. ASSUME NEW m \in Nat, m \in S PROVE m + 1 \in S
    <2> SUFFICES ASSUME m + 1 <= n PROVE Good(m + 1)
      OBVIOUS
    <2>1. m \in 0..(n - 1) /\ m <= n
      BY <1>1
    <2>2. Good(m) /\ f[1..(m + 1)] = Put(r, C, f[1..m], m + 1)
      BY <1>2, <1>4, <2>1
    <2>3. \A i \in C : i <= m + 1 <=> i <= m \/ i = m + 1
      BY <1>1
    <2>4. CASE m + 1 \notin C
      <3>1. f[1..(m + 1)] = f[1..m]
        BY <2>2, <2>4 DEF Put
      <3>2. \A i \in C : i <= m + 1 <=> i <= m
        BY <2>3, <2>4
      <3>3. QED
        BY <2>2, <3>1, <3>2
    <2>5. CASE m + 1 \in C
      <3> DEFINE c == r[m + 1].blk
                 old == f[1..m]
                 new == f[1..(m + 1)]
      <3>1. new = [old EXCEPT ![c] = Payload(r, m + 1)] /\ old \in Images
        BY <2>2, <2>5 DEF Put
      <3>2. c \in Blocks /\ Payload(r, m + 1) \in Contents \cup {Garbage}
        BY <1>1, <2>5
      <3>3. /\ new \in Images /\ new[c] = Payload(r, m + 1)
            /\ \A b \in Blocks : b # c => new[b] = old[b]
        BY <3>1, <3>2 DEF Images
      <3>4. ASSUME NEW b \in Blocks, \A i \in C : i <= m + 1 => r[i].blk # b
            PROVE  new[b] = dev[b]
        <4>1. b # c /\ \A i \in C : i <= m => r[i].blk # b
          BY <2>3, <2>5, <3>4
        <4>2. QED
          BY <2>2, <3>3, <4>1
      <3>5. ASSUME \A i, j \in C : r[i].blk = r[j].blk => i = j,
                   NEW i \in C, i <= m + 1
            PROVE  new[r[i].blk] = Payload(r, i)
        <4>1. CASE i = m + 1
          BY <3>3, <4>1
        <4>2. CASE i # m + 1
          <5>1. i <= m /\ r[i].blk # c /\ r[i].blk \in Blocks
            BY <1>1, <2>3, <2>5, <3>5, <4>2
          <5>2. old[r[i].blk] = Payload(r, i)
            BY <2>2, <3>5, <5>1
          <5>3. QED
            BY <3>3, <5>1, <5>2
        <4>3. QED
          BY <4>1, <4>2
      <3> HIDE DEF c, new, old
      <3>6. QED
        BY <3>3, <3>4, <3>5 DEF new
    <2>6. QED
      BY <2>4, <2>5
  <1> HIDE DEF Good
  <1>5. n \in S
    <2> HIDE DEF S
    <2>1. QED
      BY <1>1, <1>3, <1>4, Induction
  <1>6. Good(n)
    BY <1>1, <1>5
  <1>7. \A i \in C : i <= n
    BY <1>1
  <1>8. QED
    BY <1>1, <1>6, <1>7 DEF Good, f


-----------------------------------------------------------------------------
(* From one second to the next.                                            *)

\* Epochs are dated in order, and a block for which nothing is held in a second
\* is the same when the next second's epoch begins
BackInv(d) ==
    /\ \A i, j \in 1..epoch[d] : i <= j => date[d][i] <= date[d][j]
    /\ \A f, j \in 1..epoch[d] :
          /\ First(d, f) /\ date[d][f] = date[d][j]
          /\ j + 1 \in 1..epoch[d] /\ date[d][j + 1] # date[d][j]
          => \A b \in Blocks : (\A v : ~HeldAt(d, date[d][j], b, v)) =>
                orig[d][j + 1][b] = orig[d][f][b]

\* A step in which no epoch of the device begins.
LEMMA BackKept ==
  ASSUME TypeInv, NEW x \in Devs, BackInv(x),
         orig'[x] = orig[x], epoch'[x] = epoch[x], date'[x] = date[x],
         \A t \in Dates : \A b, v : HeldAt(x, t, b, v) => HeldAt(x, t, b, v)'
  PROVE  BackInv(x)'
  <1>1. \A j \in 1..epoch[x] : date[x][j] \in Dates
    BY LastDateFacts
  <1>2. \A i, j \in 1..epoch'[x] : i <= j => date'[x][i] <= date'[x][j]
    BY DEF BackInv
  <1>3. ASSUME NEW f \in 1..epoch[x], NEW j \in 1..epoch[x], First(x, f)',
               date[x][f] = date[x][j], j + 1 \in 1..epoch[x], date[x][j + 1] # date[x][j],
               NEW b \in Blocks, \A v : ~HeldAt(x, date[x][j], b, v)'
        PROVE  orig[x][j + 1][b] = orig[x][f][b]
    <2>1. First(x, f)
      BY <1>3 DEF First
    <2>2. \A v : ~HeldAt(x, date[x][j], b, v)
      <3>1. ASSUME NEW v, HeldAt(x, date[x][j], b, v) PROVE FALSE
        <4>1. Held(recs'[<<x, date[x][j]>>], queue'[x], date'[x], date[x][j], b, v)
          BY <1>1, <3>1 DEF HeldAt
        <4>2. HeldAt(x, date[x][j], b, v)'
          BY <4>1 DEF HeldAt
        <4>3. QED
          BY <1>3, <4>2
      <3>2. QED
        BY <3>1
    <2>3. QED
      BY <1>3, <2>1, <2>2 DEF BackInv
  <1>4. ASSUME NEW f \in 1..epoch'[x], NEW j \in 1..epoch'[x], First(x, f)',
               date'[x][f] = date'[x][j], j + 1 \in 1..epoch'[x],
               date'[x][j + 1] # date'[x][j],
               NEW b \in Blocks, \A v : ~HeldAt(x, date[x][j], b, v)'
        PROVE  orig'[x][j + 1][b] = orig'[x][f][b]
    BY <1>3, <1>4
  <1>5. QED
    BY <1>2, <1>4 DEF BackInv

\* Every step keeps BackInv: it is a step in which an epoch begins, or BackKept
\* applies.
LEMMA BackStep ==
  ASSUME TypeInv, TypeInv', DeviceInv, WayInv, [Next]_vars, NEW x \in Devs, Sure(x),
         gen' = 1, OrigInv(x), BackInv(x)
  PROVE  BackInv(x)'
  <1>1. /\ epoch[x] \in Nat /\ LastDate(x) \in Dates /\ LastDate(x) \in Nat
        /\ \A j \in 1..epoch[x] : date[x][j] \in Dates /\ date[x][j] \in Nat
    BY LastDateFacts
  <1>2. ASSUME NEW c \in Blocks, NEW w \in Contents, Write(x, c, w)
        PROVE  BackInv(x)'
    <2>1. orig' = orig /\ epoch' = epoch /\ date' = date
      BY <1>2 DEF Write, epvars
    <2>2. ASSUME NEW t \in Dates, NEW b, NEW v
          PROVE  HeldAt(x, t, b, v) => HeldAt(x, t, b, v)'
      BY <1>2, HeldWrite DEF Sure
    <2>3. QED
      BY <2>1, <2>2, BackKept
  <1>3. ASSUME ~Mount(x), ~\E c \in Blocks, w \in Contents : Write(x, c, w)
        PROVE  BackInv(x)'
    <2>1. orig'[x] = orig[x] /\ epoch'[x] = epoch[x] /\ date'[x] = date[x]
      BY <1>3, ElseKeepsOriginals
    <2>2. ASSUME NEW t \in Dates, NEW b, NEW v
          PROVE  HeldAt(x, t, b, v) => HeldAt(x, t, b, v)'
      BY <1>3, HeldElse
    <2>3. QED
      BY <2>1, <2>2, BackKept
  <1>4. ASSUME Mount(x), ~\E c \in Blocks, w \in Contents : Write(x, c, w)
        PROVE  BackInv(x)'
    <2> DEFINE k == epoch[x] + 1
    <2>0. ASSUME NEW t \in Dates, NEW b, NEW v
          PROVE  HeldAt(x, t, b, v)' <=> HeldAt(x, t, b, v)
      BY <1>4, HeldElse
    <2>1. /\ epoch'[x] = k /\ k \in EpochNrs
          /\ \A j \in 1..epoch[x] : date'[x][j] = date[x][j]
          /\ LastDate(x)' \in {LastDate(x), LastDate(x) + 1}
          /\ date'[x][k] = LastDate(x)'
      BY <1>4, MountFacts
    <2>2. /\ orig'[x][k] = disk[x]
          /\ \A j \in 1..epoch[x] : orig'[x][j] = orig[x][j]
      <3>1. /\ orig'[x][k] = disk[x]
            /\ \A j \in EpochNrs : j # k => orig'[x][j] = orig[x][j]
        BY <1>4, <2>1 DEF Mount, TypeInv, TypeOK
      <3>2. \A j \in 1..epoch[x] : j \in EpochNrs /\ j # k
        BY <1>1, LastDateFacts
      <3>3. QED
        BY <3>1, <3>2
    <2>3. \A j : j \in 1..k <=> j \in 1..epoch[x] \/ j = k
      BY <1>1
    <2>4. \A j \in 1..epoch[x] : date[x][j] <= LastDate(x)'
      <3>1. \A j \in 1..epoch[x] : date[x][j] \in 1..LastDate(x)
        BY DEF WayInv, DatesInv
      <3>2. QED
        BY <1>1, <2>1, <3>1
    <2>5. ASSUME NEW i \in 1..k, NEW j \in 1..k, i <= j
          PROVE  date'[x][i] <= date'[x][j]
      <3>1. LastDate(x)' \in Nat
        BY <1>1, <2>1
      <3>2. CASE j = k
        BY <2>1, <2>3, <2>4, <3>1, <3>2
      <3>3. CASE j # k
        <4>1. i \in 1..epoch[x] /\ j \in 1..epoch[x]
          BY <1>1, <2>5, <3>3
        <4>2. QED
          BY <2>1, <2>5, <4>1 DEF BackInv
      <3>4. QED
        BY <3>2, <3>3
    <2>6. ASSUME NEW f \in 1..k, NEW j \in 1..k, First(x, f)',
                 date'[x][f] = date'[x][j], j + 1 \in 1..k, date'[x][j + 1] # date'[x][j],
                 NEW b \in Blocks, \A v : ~HeldAt(x, date[x][j], b, v)'
          PROVE  orig'[x][j + 1][b] = orig'[x][f][b]
      <3>1. j \in 1..epoch[x] /\ date'[x][j] = date[x][j] /\ date[x][j] \in Dates
        BY <1>1, <2>1, <2>6
      <3>2. ASSUME f = k PROVE FALSE
        <4>1. \A i \in 1..epoch[x] : i \in 1..(k - 1)
          BY <1>1
        <4>2. QED
          BY <2>6, <3>1, <3>2, <4>1 DEF First
      <3>3. f \in 1..epoch[x] /\ First(x, f) /\ date[x][f] = date[x][j]
        <4>1. f \in 1..epoch[x]
          BY <2>3, <3>2
        <4>2. \A i \in 1..(f - 1) : i \in 1..epoch[x]
          BY <1>1, <4>1
        <4>3. QED
          BY <2>1, <2>6, <3>1, <4>1, <4>2 DEF First
      <3>4. \A v : ~HeldAt(x, date[x][j], b, v)
        <4>1. ASSUME NEW v, HeldAt(x, date[x][j], b, v) PROVE FALSE
          BY <2>0, <2>6, <3>1, <4>1
        <4>2. QED
          BY <4>1
      <3>5. CASE j + 1 \in 1..epoch[x]
        <4>1. date[x][j + 1] # date[x][j]
          BY <2>1, <2>6, <3>1, <3>5
        <4>2. orig[x][j + 1][b] = orig[x][f][b]
          BY <3>1, <3>3, <3>4, <3>5, <4>1 DEF BackInv
        <4>3. QED
          BY <2>2, <3>3, <3>5, <4>2
      <3>6. CASE j + 1 = k
        <4>1. j = epoch[x] /\ epoch[x] # 0
          BY <1>1, <3>1, <3>6
        <4>2. date[x][j] = LastDate(x)
          BY <4>1 DEF LastDate
        <4>3. disk[x][b] = orig[x][f][b]
          BY <3>3, <3>4, <4>2 DEF OrigInv
        <4>4. QED
          BY <2>2, <3>3, <3>6, <4>3
      <3>7. QED
        BY <2>3, <2>6, <3>5, <3>6
    <2>7. QED
      BY <2>1, <2>5, <2>6 DEF BackInv
  <1>5. QED
    BY <1>2, <1>3, <1>4

\* The inductive invariant for RestoreRecovers
RestoreInv == RefInv /\ \A d \in Devs : Sure(d) /\ gen = 1 => BackInv(d)

\* RestoreInv is an invariant.
LEMMA RestoreInvariance == Spec => []RestoreInv
  <1>1. Init => RestoreInv
    <2> SUFFICES ASSUME Init PROVE RestoreInv
      OBVIOUS
    <2>1. \A d \in Devs : epoch[d] = 0
      BY DEF Init
    <2>2. \A d \in Devs : BackInv(d)
      BY <2>1 DEF BackInv
    <2>3. QED
      BY <2>2, InitRef DEF RestoreInv
  <1>2. RestoreInv /\ [Next]_vars => RestoreInv'
    <2> SUFFICES ASSUME RestoreInv, [Next]_vars PROVE RestoreInv'
      OBVIOUS
    <2>1. RefInv /\ RefInv'
      BY RefStep DEF RestoreInv
    <2>2. ASSUME NEW d \in Devs, Sure(d), gen' = 1 PROVE BackInv(d)'
      <3>1. TypeInv /\ TypeInv' /\ DeviceInv /\ WayInv
        BY <2>1 DEF RefInv, IInv
      <3>2. gen = 1
        BY <2>2, <3>1, GenSteps
      <3>3. OrigInv(d) /\ BackInv(d)
        BY <2>1, <2>2, <3>2 DEF RefInv, RestoreInv
      <3>4. QED
        BY <2>2, <3>1, <3>3, BackStep
    <2>3. QED
      BY <2>1, <2>2 DEF RestoreInv, Sure, NoMkdirRace, OneDevice, Reliable
  <1>3. QED
    BY <1>1, <1>2, PTL DEF Spec


-----------------------------------------------------------------------------
(* Restoring the snapshots one after the other.                            *)

\* The records the user says yes to, one snapshot restored, and the order in
\* which the snapshots are taken
Wanted(r, want) == {i \in DOMAIN r : r[i].blk \in want}
BackOne(d, opt, want, img, j) ==
    Restore(File(d, j), img, opt, Wanted(File(d, j), want))
Backwards(d, k) == [i \in 1..(epoch[d] - k + 1) |-> epoch[d] - i + 1]

\* Nothing is held for the block in the second in which epoch j began
Unheld(d, j, b) == \A v : ~HeldAt(d, date[d][j], b, v)

\* The function behind the fold
BackRun(d, k, opt, want) ==
    CHOOSE g : g = [s \in SUBSET (DOMAIN Backwards(d, k)) |->
                       IF s = {} THEN disk[d]
                       ELSE BackOne(d, opt, want, g[s \ {Max(s)}], Backwards(d, k)[Max(s)])]

\* What blkdev-restore makes of the snapshots from the last one back to the one
\* of epoch k is a value of that function.
LEMMA BackIsRun ==
  ASSUME NEW d, NEW k, NEW opt, NEW want
  PROVE  RestoreBack(d, k, opt, want) = BackRun(d, k, opt, want)[DOMAIN Backwards(d, k)]
  BY DEF RestoreBack, FoldLeft, MapThenFoldSet, BackRun, BackOne, Backwards, Wanted

\* The records of a file that are restored are those of the blocks asked for.
LEMMA ChosenFacts ==
  ASSUME NEW r \in Seq(Records), NEW opt \in Options, NEW want \in SUBSET Blocks,
         \A i, j \in DOMAIN r : ~r[i].cut /\ (r[i].blk = r[j].blk => i = j)
  PROVE  \A i : i \in Chosen(r, opt, Wanted(r, want)) <=>
             i \in DOMAIN r /\ r[i].blk \in want /\ (opt.all \/ r[i].blk = opt.blk)
  <1> DEFINE yes == Wanted(r, want)
             hits == {i \in Visible(r) : /\ opt.all \/ r[i].blk = opt.blk
                                         /\ i \in yes
                                         /\ ~(r[i].cut /\ i = Len(r))}
  <1>1. DOMAIN r = 1..Len(r) /\ Len(r) \in Nat
    BY LenProperties
  <1>2. \A i : i \in Visible(r) <=> i \in DOMAIN r
    <2>1. \A i \in DOMAIN r : \A j \in 1..(i - 1) : j \in DOMAIN r
      BY <1>1
    <2>2. QED
      BY <2>1 DEF Visible
  <1>3. \A i : i \in hits <=>
            i \in DOMAIN r /\ r[i].blk \in want /\ (opt.all \/ r[i].blk = opt.blk)
    BY <1>2 DEF Wanted
  <1>4. Chosen(r, opt, yes) = {i \in hits : opt.all \/ \A j \in hits : i <= j}
    BY DEF Chosen
  <1> HIDE DEF hits, yes
  <1>5. ASSUME NEW i \in hits, ~opt.all, NEW j \in hits PROVE i <= j
    <2>1. i = j /\ i \in DOMAIN r
      BY <1>3, <1>5
    <2>2. QED
      BY <1>1, <2>1
  <1>6. QED
    BY <1>3, <1>4, <1>5 DEF yes

\* What the file of an epoch holds when no work is left: one record per block,
\* with what the block was when the epoch's second began, and none only for the
\* blocks of which nothing is held.
LEMMA FileFacts ==
  ASSUME RefInv, NEW d \in Devs, Sure(d), gen = 1, queue[d] = <<>>, NEW j \in 1..epoch[d]
  PROVE  /\ File(d, j) \in Seq(Records)
         /\ \A h, i \in DOMAIN File(d, j) :
                ~File(d, j)[h].cut /\ (File(d, j)[h].blk = File(d, j)[i].blk => h = i)
         /\ \A i \in DOMAIN File(d, j) :
                /\ File(d, j)[i].blk \in Blocks
                /\ Payload(File(d, j), i) = orig[d][FirstOfDate(d, j)][File(d, j)[i].blk]
         /\ \A b \in Blocks : (\A i \in DOMAIN File(d, j) : File(d, j)[i].blk # b) =>
                Unheld(d, j, b)
  <1> DEFINE r == File(d, j)
             f == FirstOfDate(d, j)
             t == date[d][j]
  <1>1. TypeInv /\ SavedInv(d) /\ OrigInv(d)
    BY DEF RefInv, IInv, DeviceInv, Sure, Reliable, Whole, CanFail
  <1>2. t \in Dates /\ r = recs[<<d, t>>]
    BY <1>1, LastDateFacts DEF File
  <1>3. r \in Seq(Records) /\ DOMAIN r = 1..Len(r) /\ Len(r) \in Nat
    <2>1. r \in Seq(Records)
      BY <1>1, <1>2, HeldTypes
    <2>2. QED
      BY <2>1, LenProperties
  <1>4. \A h, i \in DOMAIN r : ~r[h].cut /\ (r[h].blk = r[i].blk => h = i)
    BY <1>1, <1>2 DEF SavedInv
  <1>5. f \in 1..epoch[d] /\ date[d][f] = t /\ First(d, f)
    BY <1>1, FirstOfDateFacts
  <1> HIDE DEF r, f, t
  <1>6. ASSUME NEW i \in DOMAIN r
        PROVE  r[i].blk \in Blocks /\ Payload(r, i) = orig[d][f][r[i].blk]
    <2>1. r[i].blk \in Blocks /\ Payload(r, i) = r[i].val
      <3>1. r[i] \in Records
        BY <1>3, <1>6, ElementOfSeq
      <3>2. QED
        BY <1>4, <3>1 DEF Records, Payload
    <2>2. FirstIn(RecordsOf(r, r[i].blk), i)
      <3>1. \A h \in RecordsOf(r, r[i].blk) : h = i
        BY <1>3, <1>4, RecordIndexes
      <3>2. i \in RecordsOf(r, r[i].blk) /\ i \in Nat
        BY <1>3, RecordIndexes
      <3>3. i <= i
        BY <3>2
      <3>4. QED
        BY <3>1, <3>2, <3>3 DEF FirstIn
    <2>3. HeldAt(d, t, r[i].blk, r[i].val)
      BY <1>2, <2>2 DEF HeldAt, Held
    <2>4. QED
      BY <1>1, <1>5, <2>1, <2>3 DEF OrigInv
  <1>7. ASSUME NEW b \in Blocks, \A i \in DOMAIN r : r[i].blk # b, NEW v
        PROVE  ~HeldAt(d, t, b, v)
    <2>1. RecordsOf(r, b) = {}
      BY <1>7 DEF RecordsOf
    <2>2. QueuedFor(queue[d], date[d], t, b) = {}
      BY DEF QueuedFor
    <2>3. QED
      BY <1>2, <2>1, <2>2 DEF HeldAt, Held, FirstIn
  <1>8. QED
    BY <1>3, <1>4, <1>6, <1>7 DEF r, f, t, Unheld

\* One snapshot is restored: the blocks asked for that it has are as they were
\* when its epoch began.
LEMMA BackEffect ==
  ASSUME RefInv, NEW d \in Devs, Sure(d), gen = 1, queue[d] = <<>>, NEW j \in 1..epoch[d],
         NEW opt \in Options, NEW want \in SUBSET Blocks, NEW img \in Images
  PROVE  LET new == BackOne(d, opt, want, img, j)
             asked(b) == b \in want /\ (opt.all \/ b = opt.blk)
         IN  /\ new \in Images
             /\ \A b \in Blocks : ~asked(b) => new[b] = img[b]
             /\ \A b \in Blocks : asked(b) =>
                    \/ new[b] = orig[d][FirstOfDate(d, j)][b]
                    \/ new[b] = img[b] /\ Unheld(d, j, b)
  <1> DEFINE r == File(d, j)
             C == Chosen(r, opt, Wanted(r, want))
             new == RestoreRun(r, img, C)[DOMAIN r]
             asked(b) == b \in want /\ (opt.all \/ b = opt.blk)
  <1>1. /\ r \in Seq(Records)
        /\ \A h, i \in DOMAIN r : ~r[h].cut /\ (r[h].blk = r[i].blk => h = i)
        /\ \A i \in DOMAIN r : /\ r[i].blk \in Blocks
                               /\ Payload(r, i) = orig[d][FirstOfDate(d, j)][r[i].blk]
        /\ \A b \in Blocks : (\A i \in DOMAIN r : r[i].blk # b) =>
               Unheld(d, j, b)
    BY FileFacts
  <1>2. BackOne(d, opt, want, img, j) = new
    BY RestoreIsRun DEF BackOne
  <1> HIDE DEF r
  <1>3. \A i : i \in C <=> i \in DOMAIN r /\ asked(r[i].blk)
    BY <1>1, ChosenFacts
  <1> HIDE DEF C
  <1>4. C \in SUBSET (DOMAIN r)
    BY <1>3
  <1>5. /\ new \in Images
        /\ \A b \in Blocks : (\A i \in C : r[i].blk # b) => new[b] = img[b]
        /\ (\A i, h \in C : r[i].blk = r[h].blk => i = h) =>
               \A i \in C : new[r[i].blk] = Payload(r, i)
    BY <1>1, <1>4, RestoreEffect
  <1>6. \A i \in C : new[r[i].blk] = Payload(r, i)
    BY <1>1, <1>3, <1>5
  <1> HIDE DEF new, asked
  <1>7. ASSUME NEW b \in Blocks, ~asked(b) PROVE new[b] = img[b]
    BY <1>3, <1>5, <1>7
  <1>8. ASSUME NEW b \in Blocks, asked(b)
        PROVE  \/ new[b] = orig[d][FirstOfDate(d, j)][b]
               \/ new[b] = img[b] /\ Unheld(d, j, b)
    <2>1. CASE \E i \in DOMAIN r : r[i].blk = b
      <3>1. PICK i \in DOMAIN r : r[i].blk = b
        BY <2>1
      <3>2. i \in C
        BY <1>3, <1>8, <3>1
      <3>3. QED
        BY <1>1, <1>6, <3>1, <3>2
    <2>2. CASE \A i \in DOMAIN r : r[i].blk # b
      BY <1>1, <1>4, <1>5, <2>2
    <2>3. QED
      BY <2>1, <2>2
  <1>9. QED
    BY <1>2, <1>5, <1>7, <1>8 DEF asked


\* That function exists too: it restores one snapshot after the other.
LEMMA BackSteps ==
  ASSUME RefInv, NEW d \in Devs, Sure(d), gen = 1, queue[d] = <<>>, NEW k \in 1..epoch[d],
         NEW opt \in Options, NEW want \in SUBSET Blocks
  PROVE  /\ disk[d] \in Images
         /\ epoch[d] - k + 1 \in Nat /\ DOMAIN Backwards(d, k) = 1..(epoch[d] - k + 1)
         /\ BackRun(d, k, opt, want)[1..0] = disk[d]
         /\ \A m \in 0..(epoch[d] - k) :
                /\ epoch[d] - m \in 1..epoch[d]
                /\ BackRun(d, k, opt, want)[1..(m + 1)]
                       = BackOne(d, opt, want, BackRun(d, k, opt, want)[1..m], epoch[d] - m)
  <1> DEFINE n == epoch[d] - k + 1
             seq == Backwards(d, k)
             h == [p \in Images \X (1..n) |-> BackOne(d, opt, want, p[1], seq[p[2]])]
             Is(g) == g = [s \in SUBSET (DOMAIN seq) |->
                              IF s = {} THEN disk[d]
                              ELSE BackOne(d, opt, want, g[s \ {Max(s)}], seq[Max(s)])]
  <1>1. /\ epoch[d] \in Nat /\ k \in Nat /\ n \in Nat /\ DOMAIN seq = 1..n
        /\ \A i \in 1..n : seq[i] = epoch[d] - i + 1 /\ seq[i] \in 1..epoch[d]
    <2>1. epoch[d] \in Nat
      BY LastDateFacts DEF RefInv, IInv
    <2>2. QED
      BY <2>1 DEF Backwards
  <1>2. disk[d] \in Images
    BY DEF RefInv, IInv, TypeInv, TypeOK, Images
  <1> HIDE DEF n, seq
  <1>3. h \in [Images \X (1..n) -> Images]
    <2>1. ASSUME NEW img \in Images, NEW i \in 1..n
          PROVE  BackOne(d, opt, want, img, seq[i]) \in Images
      BY <1>1, BackEffect
    <2>2. QED
      BY <2>1
  <1>4. \A img \in Images : \A i \in 1..n : h[<<img, i>>] = BackOne(d, opt, want, img, seq[i])
    OBVIOUS
  <1> HIDE DEF h
  <1>5. \E g : Is(g)
    <2>1. PICK g : IsFold(g, n, Images, disk[d], h)
      BY <1>1, <1>2, <1>3, Iterates
    <2>2. /\ g \in [SUBSET (1..n) -> Images]
          /\ \A s \in SUBSET (1..n) :
                g[s] = IF s = {} THEN disk[d] ELSE h[<<g[s \ {Max(s)}], Max(s)>>]
      BY <2>1 DEF IsFold
    <2>3. ASSUME NEW s \in SUBSET (1..n), s # {}
          PROVE  h[<<g[s \ {Max(s)}], Max(s)>>]
                     = BackOne(d, opt, want, g[s \ {Max(s)}], seq[Max(s)])
      <3>1. s \ {Max(s)} \in SUBSET (1..n) /\ Max(s) \in 1..n
        BY <1>1, <2>3, Greatest
      <3>2. g[s \ {Max(s)}] \in Images
        BY <2>2, <3>1
      <3>3. QED
        BY <1>4, <3>1, <3>2
    <2>4. g = [s \in SUBSET (1..n) |->
                  IF s = {} THEN disk[d]
                  ELSE BackOne(d, opt, want, g[s \ {Max(s)}], seq[Max(s)])]
      BY <2>2, <2>3
    <2>5. Is(g)
      BY <1>1, <2>4
    <2> HIDE DEF Is
    <2>6. QED
      BY <2>5
  <1> DEFINE f == BackRun(d, k, opt, want)
  <1>6. f = CHOOSE g : Is(g)
    BY DEF BackRun, seq
  <1> HIDE DEF Is, f
  <1>7. Is(f)
    BY <1>5, <1>6
  <1>8. \A s \in SUBSET (1..n) :
            f[s] = IF s = {} THEN disk[d]
                   ELSE BackOne(d, opt, want, f[s \ {Max(s)}], seq[Max(s)])
    BY <1>1, <1>7 DEF Is
  <1>9. f[1..0] = disk[d]
    <2>1. 1..0 = {} /\ 1..0 \in SUBSET (1..n)
      OBVIOUS
    <2>2. QED
      BY <1>8, <2>1
  <1>10. ASSUME NEW m \in 0..(n - 1)
         PROVE  /\ epoch[d] - m \in 1..epoch[d]
                /\ f[1..(m + 1)] = BackOne(d, opt, want, f[1..m], epoch[d] - m)
    <2>1. /\ 1..(m + 1) \in SUBSET (1..n) /\ 1..(m + 1) # {}
          /\ Max(1..(m + 1)) = m + 1
          /\ 1..(m + 1) \ {Max(1..(m + 1))} = 1..m
      BY <1>1, IntervalFacts
    <2>2. m + 1 \in 1..n
      BY <1>1
    <2>3. seq[m + 1] = epoch[d] - m /\ seq[m + 1] \in 1..epoch[d]
      BY <1>1, <2>2
    <2>4. QED
      BY <1>8, <2>1, <2>3
  <1>11. 0..(n - 1) = 0..(epoch[d] - k)
    BY <1>1 DEF n
  <1>12. QED
    BY <1>1, <1>2, <1>9, <1>10, <1>11 DEF f, n, seq

\* A block that the snapshot of an epoch does not have is, at the begin of the
\* epoch's second, as at the begin of the second of the next epoch.
LEMMA SameBefore ==
  ASSUME RestoreInv, NEW d \in Devs, Sure(d), gen = 1, NEW j \in 1..epoch[d],
         NEW b \in Blocks, Unheld(d, j, b)
  PROVE  /\ j = epoch[d] => disk[d][b] = orig[d][FirstOfDate(d, j)][b]
         /\ j + 1 \in 1..epoch[d] =>
                orig[d][FirstOfDate(d, j + 1)][b] = orig[d][FirstOfDate(d, j)][b]
  <1> DEFINE f == FirstOfDate(d, j)
             e == FirstOfDate(d, j + 1)
  <1>1. TypeInv /\ OrigInv(d) /\ BackInv(d)
    BY DEF RestoreInv, RefInv, IInv
  <1>2. epoch[d] \in Nat /\ \A i \in 1..epoch[d] : date[d][i] \in Nat
    BY <1>1, LastDateFacts
  <1>3. f \in 1..epoch[d] /\ date[d][f] = date[d][j] /\ First(d, f)
    BY <1>1, FirstOfDateFacts
  <1>4. ASSUME j = epoch[d] PROVE disk[d][b] = orig[d][f][b]
    <2>1. date[d][j] = LastDate(d)
      BY <1>2, <1>4 DEF LastDate
    <2>2. QED
      BY <1>1, <1>3, <2>1 DEF OrigInv, Unheld
  <1>5. ASSUME j + 1 \in 1..epoch[d] PROVE orig[d][e][b] = orig[d][f][b]
    <2>1. e \in 1..epoch[d] /\ e \in 1..(j + 1) /\ date[d][e] = date[d][j + 1] /\ First(d, e)
      BY <1>1, <1>5, FirstOfDateFacts
    <2> HIDE DEF e, f
    <2>2. CASE date[d][j + 1] = date[d][j]
      <3>1. ~(e < f) /\ ~(f < e)
        <4>1. ASSUME e < f PROVE FALSE
          <5>1. e \in 1..(f - 1)
            BY <1>2, <1>3, <2>1, <4>1
          <5>2. QED
            BY <1>3, <2>1, <2>2, <5>1 DEF First
        <4>2. ASSUME f < e PROVE FALSE
          <5>1. f \in 1..(e - 1)
            BY <1>2, <1>3, <2>1, <4>2
          <5>2. QED
            BY <1>3, <2>1, <2>2, <5>1 DEF First
        <4>3. QED
          BY <4>1, <4>2
      <3>2. e = f
        BY <1>2, <1>3, <2>1, <3>1
      <3>3. QED
        BY <3>2
    <2>3. CASE date[d][j + 1] # date[d][j]
      <3>1. e = j + 1
        <4> SUFFICES ASSUME e # j + 1 PROVE FALSE
          OBVIOUS
        <4>1. e <= j /\ j <= j + 1
          BY <1>2, <2>1
        <4>2. date[d][e] <= date[d][j] /\ date[d][j] <= date[d][j + 1]
          BY <1>1, <1>5, <2>1, <4>1 DEF BackInv
        <4>3. QED
          BY <1>2, <1>5, <2>1, <2>3, <4>2
      <3>2. orig[d][j + 1][b] = orig[d][f][b]
        BY <1>1, <1>3, <1>5, <2>3 DEF BackInv, Unheld
      <3>3. QED
        BY <3>1, <3>2
    <2>4. QED
      BY <2>2, <2>3
  <1>6. QED
    BY <1>4, <1>5

\* RestoreRecovers: what blkdev-restore computes from the snapshots, for any
\* number of epochs, blocks and records.  Restoring the snapshots of a device
\* that nothing can stop, the last one first, gives the blocks asked for back
\* as they were before the mount, and leaves the others alone.  NoMkdirRace is
\* needed as above.
THEOREM RestoringRecovers ==
  ASSUME NoMkdirRace
  PROVE  Spec => []RestoreRecovers
  <1>1. RestoreInv => RestoreRecovers
    <2> SUFFICES ASSUME RestoreInv, NEW d \in Reliable, ~mounted[d], queue[d] = <<>>, gen = 1,
                        NEW k \in 1..epoch[d], FirstOfDate(d, k) = k,
                        NEW opt \in Options, NEW want \in SUBSET Blocks
                 PROVE  LET chosen == {b \in want : opt.all \/ b = opt.blk}
                            img == RestoreBack(d, k, opt, want)
                        IN  /\ \A b \in chosen : img[b] = orig[d][k][b]
                            /\ \A b \in Blocks \ chosen : img[b] = disk[d][b]
      BY DEF RestoreRecovers
    <2> DEFINE n == epoch[d] - k
               f == BackRun(d, k, opt, want)
               asked(b) == b \in want /\ (opt.all \/ b = opt.blk)
               Good(m) ==
                   /\ f[1..m] \in Images
                   /\ \A b \in Blocks : ~asked(b) => f[1..m][b] = disk[d][b]
                   /\ \A b \in Blocks : asked(b) =>
                          IF m = 0 THEN f[1..m][b] = disk[d][b]
                          ELSE f[1..m][b] = orig[d][FirstOfDate(d, epoch[d] - m + 1)][b]
               S == {m \in Nat : m <= n + 1 => Good(m)}
    <2>1. d \in Devs /\ Sure(d) /\ RefInv
      BY DEF Reliable, Sure, RestoreInv
    <2>2. epoch[d] \in Nat /\ k \in Nat /\ n \in Nat
      <3>1. epoch[d] \in Nat
        BY <2>1, LastDateFacts DEF RefInv, IInv
      <3>2. QED
        BY <3>1
    <2>3. /\ disk[d] \in Images
          /\ DOMAIN Backwards(d, k) = 1..(n + 1)
          /\ f[1..0] = disk[d]
          /\ \A m \in 0..n :
                /\ epoch[d] - m \in 1..epoch[d]
                /\ f[1..(m + 1)] = BackOne(d, opt, want, f[1..m], epoch[d] - m)
      BY <2>1, BackSteps, SMTT(30)
    <2>4. RestoreBack(d, k, opt, want) = f[1..(n + 1)]
      BY <2>3, BackIsRun
    <2> DEFINE Step(img, j, new) ==
                   /\ new \in Images
                   /\ \A b \in Blocks : ~asked(b) => new[b] = img[b]
                   /\ \A b \in Blocks : asked(b) =>
                          \/ new[b] = orig[d][FirstOfDate(d, j)][b]
                          \/ new[b] = img[b] /\ Unheld(d, j, b)
    <2>5. ASSUME NEW img \in Images, NEW j \in 1..epoch[d]
          PROVE  Step(img, j, BackOne(d, opt, want, img, j))
      <3> DEFINE new == BackOne(d, opt, want, img, j)
      <3>1. new \in Images
        BY <2>1, BackEffect
      <3>2. ASSUME NEW b \in Blocks, ~asked(b) PROVE new[b] = img[b]
        BY <2>1, <3>2, BackEffect
      <3>3. ASSUME NEW b \in Blocks, asked(b)
            PROVE  \/ new[b] = orig[d][FirstOfDate(d, j)][b]
                   \/ new[b] = img[b] /\ Unheld(d, j, b)
        BY <2>1, <3>3, BackEffect, ZenonT(40)
      <3>4. QED
        <4> HIDE DEF new, asked
        <4>1. Step(img, j, new)
          BY <3>1, <3>2, <3>3
        <4>2. QED
          BY <4>1 DEF new
    <2> HIDE DEF f, asked, Step
    <2>6. 0 \in S
      BY <2>3
    <2>7. ASSUME NEW m \in Nat, m \in S PROVE m + 1 \in S
      <3> SUFFICES ASSUME m + 1 <= n + 1 PROVE Good(m + 1)
        OBVIOUS
      <3> DEFINE j == epoch[d] - m
                 old == f[1..m]
                 new == f[1..(m + 1)]
      <3>1. m \in 0..n /\ m <= n + 1 /\ (m + 1 = 0 <=> FALSE)
        BY <2>2
      <3>2. j \in 1..epoch[d] /\ new = BackOne(d, opt, want, old, j) /\ Good(m)
        BY <2>3, <2>7, <3>1
      <3>3. epoch[d] - (m + 1) + 1 = j
        BY <2>2
      <3>4. m = 0 => j = epoch[d]
        BY <2>2
      <3>5. m # 0 => epoch[d] - m + 1 = j + 1 /\ j + 1 \in 1..epoch[d]
        BY <2>2, <3>2
      <3> HIDE DEF j
      <3>6. /\ new \in Images
            /\ \A b \in Blocks : ~asked(b) => new[b] = old[b]
            /\ \A b \in Blocks : asked(b) =>
                   \/ new[b] = orig[d][FirstOfDate(d, j)][b]
                   \/ new[b] = old[b] /\ Unheld(d, j, b)
        <4> HIDE DEF old, new
        <4>1. old \in Images
          BY <3>2 DEF old
        <4>2. Step(old, j, new)
          BY <2>5, <3>2, <4>1
        <4>3. QED
          BY <4>2 DEF Step
      <3>7. ASSUME NEW b \in Blocks, asked(b) PROVE new[b] = orig[d][FirstOfDate(d, j)][b]
        <4> SUFFICES ASSUME new[b] = old[b], Unheld(d, j, b)
                     PROVE  new[b] = orig[d][FirstOfDate(d, j)][b]
          BY <3>6, <3>7
        <4>1. /\ j = epoch[d] => disk[d][b] = orig[d][FirstOfDate(d, j)][b]
              /\ j + 1 \in 1..epoch[d] =>
                    orig[d][FirstOfDate(d, j + 1)][b] = orig[d][FirstOfDate(d, j)][b]
          BY <2>1, <3>2, SameBefore
        <4>2. CASE m = 0
          <5>1. old[b] = disk[d][b]
            BY <3>2, <3>7, <4>2
          <5>2. QED
            BY <3>4, <4>1, <4>2, <5>1
        <4>3. CASE m # 0
          <5>1. old[b] = orig[d][FirstOfDate(d, epoch[d] - m + 1)][b]
            BY <3>2, <3>7, <4>3
          <5>2. QED
            BY <3>5, <4>1, <4>3, <5>1
        <4>4. QED
          BY <4>2, <4>3
      <3>8. \A b \in Blocks : ~asked(b) => new[b] = disk[d][b]
        BY <3>2, <3>6
      <3>9. QED
        BY <3>1, <3>3, <3>6, <3>7, <3>8
    <2> HIDE DEF Good
    <2>8. Good(n + 1)
      <3>1. n + 1 \in Nat /\ n + 1 <= n + 1
        BY <2>2
      <3>2. n + 1 \in S
        <4> HIDE DEF S
        <4>1. QED
          BY <2>6, <2>7, <3>1, Induction
      <3>3. QED
        BY <3>1, <3>2
    <2>9. /\ \A b \in Blocks : ~asked(b) => f[1..(n + 1)][b] = disk[d][b]
          /\ \A b \in Blocks : asked(b) => f[1..(n + 1)][b] = orig[d][k][b]
      <3>1. epoch[d] - (n + 1) + 1 = k /\ n + 1 # 0
        BY <2>2
      <3>2. QED
        BY <2>8, <3>1 DEF Good
    <2>10. QED
      BY <2>4, <2>9 DEF asked
  <1>2. QED
    BY RestoreInvariance, <1>1, PTL

=============================================================================
