------------------------- MODULE SnapshotWorkProofs -------------------------
(***************************************************************************)
(* Proofs about SnapshotWork, for any number of devices, blocks, contents, *)
(* epochs and removals of /snapshot, and any length of queues, files and   *)
(* caches.                                                                 *)
(***************************************************************************)
EXTENDS SnapshotWork, SequenceTheorems, TLAPS

-----------------------------------------------------------------------------
(* Type correctness.  What a step follows, the work at the head of the     *)
(* queue, its epoch and the directory of a path, is part of it.            *)

EpochsDated ==
    \A d \in Devs : \A k \in EpochNrs :
        /\ date[d][k] <= k
        /\ k > epoch[d] => path[d][k] = 0

\* A work that is running is at the head of the queue, and is a make_snapshot
WorksQueued ==
    \A d \in Devs :
        /\ mounted[d] => epoch[d] # 0
        /\ \A i \in 1..Len(queue[d]) : queue[d][i].ep <= epoch[d]
        /\ pc[d] # "idle" => queue[d] # <<>> /\ Work(d).kind = "snap"

\* The directory a path leads to exists unless /snapshot has been removed
PathsExist ==
    /\ gen # 0
    /\ \A d \in Devs :
        /\ dsnap[d] <= gen
        /\ \A k \in EpochNrs :
              /\ path[d][k] <= gen
              /\ path[d][k] = gen => <<d, date[d][k]>> \in subs

TypeInv == TypeOK /\ EpochsDated /\ WorksQueued /\ PathsExist

-----------------------------------------------------------------------------
(* The cache and the files, device by device.                              *)

\* make_snapshot has missed the cache, and has the file open
MissPcs == {"dir", "top", "mktop", "sub", "mksub", "file", "lookup", "write", "add"}
OpenPcs == {"lookup", "write", "add"}

\* A block that was not in the cache is not put there by anybody else before
\* the work that missed it puts it there
CacheInv(d) ==
    /\ \A k \in EpochNrs :
          /\ Len(lru[d][k]) <= LruMax
          /\ IsInjective(lru[d][k])
          /\ k > epoch[d] => lru[d][k] = <<>>
    /\ pc[d] \in MissPcs => ~Contains(lru[d][Work(d).ep], Work(d).blk)

\* Records are in files that exist, and an open file is that of the work's
\* directory unless /snapshot has been removed
FileInv(d) ==
    /\ \A t \in Dates : recs[<<d, t>>] # <<>> => <<d, t>> \in files
    /\ pc[d] \in OpenPcs =>
          /\ filp[d].gen \in 1..gen
          /\ filp[d].gen = gen => Dir(d) \in files

\* Devices whose records are written whole, or not at all
Whole == {d \in Devs : ~CanFail(d, "write")}

Has(r, b) == \E i \in DOMAIN r : r[i].blk = b

\* What a work knows of its file from the search is still so when it writes:
\* the works of a device run one after the other, and nobody else has the file
SavedInv(d) ==
    /\ \A t \in Dates : \A i, j \in DOMAIN recs[<<d, t>>] :
          /\ ~recs[<<d, t>>][i].cut
          /\ recs[<<d, t>>][i].blk = recs[<<d, t>>][j].blk => i = j
    /\ pc[d] \in OpenPcs /\ filp[d].gen = gen =>
          /\ filp[d].recs = recs[Dir(d)]
          /\ pc[d] = "write" => ~Has(recs[Dir(d)], Work(d).blk)
          /\ pc[d] = "add" => Has(recs[Dir(d)], Work(d).blk)
    /\ gen = 1 => \A k \in 1..epoch[d] : \A b \in Blocks :
          Contains(lru[d][k], b) => Has(recs[<<d, date[d][k]>>], b)

DeviceInv == \A d \in Devs : CacheInv(d) /\ FileInv(d) /\ (d \in Whole => SavedInv(d))

-----------------------------------------------------------------------------
(* Sequences, and the operations of lru-ng.c on them.                      *)

LEMMA RemoveAtFacts ==
  ASSUME NEW S, NEW s \in Seq(S), NEW i \in 1..Len(s)
  PROVE  /\ RemoveAt(s, i) \in Seq(S)
         /\ Len(RemoveAt(s, i)) = Len(s) - 1
         /\ \A j \in 1..(Len(s) - 1) :
               RemoveAt(s, i)[j] = IF j < i THEN s[j] ELSE s[j + 1]
  <1> DEFINE l == SubSeq(s, 1, i - 1)
             r == SubSeq(s, i + 1, Len(s))
  <1>0. Len(s) \in Nat /\ \A j \in 1..Len(s) : s[j] \in S
    BY LenProperties
  <1>1. /\ l \in Seq(S)
        /\ Len(l) = i - 1
        /\ \A j \in 1..(i - 1) : l[j] = s[j]
    <2>1. \A j \in 1..(i - 1) : s[j] \in S
      BY <1>0
    <2>2. /\ l \in Seq(S)
          /\ Len(l) = IF 1 <= i - 1 THEN i - 1 - 1 + 1 ELSE 0
          /\ \A j \in 1..(i - 1 - 1 + 1) : l[j] = s[1 + j - 1]
      BY <2>1, <1>0, SubSeqProperties
    <2> HIDE DEF l
    <2>3. QED
      BY <2>2, <1>0
  <1>2. /\ r \in Seq(S)
        /\ Len(r) = Len(s) - i
        /\ \A j \in 1..(Len(s) - i) : r[j] = s[i + j]
    <2>1. \A j \in (i + 1)..Len(s) : s[j] \in S
      BY <1>0
    <2>2. /\ r \in Seq(S)
          /\ Len(r) = IF i + 1 <= Len(s) THEN Len(s) - (i + 1) + 1 ELSE 0
          /\ \A j \in 1..(Len(s) - (i + 1) + 1) : r[j] = s[(i + 1) + j - 1]
      BY <2>1, <1>0, SubSeqProperties
    <2> HIDE DEF r
    <2>3. QED
      BY <2>2, <1>0
  <1>3. RemoveAt(s, i) = l \o r
    BY DEF RemoveAt
  <1> HIDE DEF l, r
  <1>4. /\ l \o r \in Seq(S)
        /\ Len(l \o r) = Len(l) + Len(r)
        /\ \A j \in 1..(Len(l) + Len(r)) :
               (l \o r)[j] = IF j <= Len(l) THEN l[j] ELSE r[j - Len(l)]
    BY <1>1, <1>2, ConcatProperties
  <1> DEFINE c == l \o r
  <1>5. /\ c \in Seq(S)
        /\ Len(c) = Len(s) - 1
        /\ \A j \in 1..(Len(s) - 1) :
               c[j] = IF j <= i - 1 THEN l[j] ELSE r[j - (i - 1)]
    BY <1>0, <1>1, <1>2, <1>4
  <1> HIDE DEF c
  <1>6. ASSUME NEW j \in 1..(Len(s) - 1)
        PROVE  c[j] = IF j < i THEN s[j] ELSE s[j + 1]
    <2>1. CASE j < i
      BY <1>0, <1>1, <1>5, <1>6, <2>1
    <2>2. CASE ~(j < i)
      <3>1. j - (i - 1) \in 1..(Len(s) - i)
        BY <1>0, <2>2
      <3>2. r[j - (i - 1)] = s[i + (j - (i - 1))]
        BY <3>1, <1>2
      <3>3. i + (j - (i - 1)) = j + 1
        BY <1>0
      <3>4. QED
        BY <1>0, <1>5, <2>2, <3>2, <3>3
    <2>3. QED
      BY <2>1, <2>2
  <1>7. QED
    BY <1>3, <1>5, <1>6 DEF c

LEMMA Touch == ASSUME NEW s \in Seq(Blocks), NEW b \in Blocks, Contains(s, b)
  PROVE /\ LruTouch(s, b) \in Seq(Blocks)
        /\ Len(LruTouch(s, b)) = Len(s)
        /\ \A x : Contains(LruTouch(s,b), x) => Contains(s, x)
        /\ IsInjective(s) => IsInjective(LruTouch(s,b))
  <1> DEFINE i == CHOOSE i \in DOMAIN s : s[i] = b
             t == RemoveAt(s, i)
             u == Append(t, b)
  <1>0. Len(s) \in Nat /\ DOMAIN s = 1..Len(s)
    BY LenProperties
  <1>1. i \in 1..Len(s) /\ s[i] = b
     BY <1>0 DEF Contains
  <1>2. LruTouch(s, b) = u
    BY DEF LruTouch
  <1> HIDE DEF i
  <1>3. /\ t \in Seq(Blocks)
        /\ Len(t) = Len(s) - 1
        /\ \A j \in 1..(Len(s) - 1) : t[j] = IF j < i THEN s[j] ELSE s[j + 1]
    BY <1>1, RemoveAtFacts
  <1> HIDE DEF t
  <1>4. /\ u \in Seq(Blocks)
        /\ Len(u) = Len(t) + 1
        /\ \A j \in 1..Len(t) : u[j] = t[j]
        /\ u[Len(t) + 1] = b
    BY <1>3, AppendProperties
  <1> HIDE DEF u
  <1>5. Len(u) = Len(s) /\ DOMAIN u = 1..Len(s)
    BY <1>0, <1>3, <1>4, LenProperties
  <1>6. /\ \A j \in 1..(Len(s) - 1) : u[j] = IF j < i THEN s[j] ELSE s[j + 1]
        /\ u[Len(s)] = s[i]
    BY <1>0, <1>1, <1>3, <1>4
  <1>7. ASSUME NEW x, Contains(u, x) PROVE Contains(s, x)
    BY <1>0, <1>1, <1>5, <1>6, <1>7 DEF Contains
  <1>8. ASSUME IsInjective(s) PROVE IsInjective(u)
    <2> SUFFICES ASSUME NEW p \in 1..Len(s), NEW q \in 1..Len(s), u[p] = u[q]
                 PROVE  p = q
      BY <1>5 DEF IsInjective
    <2>a. Len(s) \in Nat
      BY <1>0
    <2>0. \A x, y \in 1..Len(s) : s[x] = s[y] => x = y
      BY <1>8, <1>0 DEF IsInjective
    <2>1. ASSUME NEW j \in 1..Len(s)
          PROVE  \E k \in 1..Len(s) :
                    /\ u[j] = s[k]
                    /\ j = Len(s) => k = i
                    /\ j # Len(s) /\ j < i => k = j
                    /\ j # Len(s) /\ ~(j < i) => k = j + 1
      <3>1. CASE j = Len(s)
        BY <1>1, <1>6, <3>1
      <3>2. CASE j # Len(s) /\ j < i
        <4>1. j \in 1..(Len(s) - 1)
          BY <2>a, <3>2
        <4>2. u[j] = s[j]
          BY <1>1, <4>1, <1>6, <3>2
        <4>3. QED
          BY <1>1, <4>1, <4>2, <3>2
      <3>3. CASE j # Len(s) /\ ~(j < i)
        <4>1. j + 1 \in 1..Len(s) /\ j \in 1..(Len(s) - 1)
          BY <2>a, <1>1, <3>3
        <4>2. u[j] = s[j + 1]
          BY <1>1, <4>1, <1>6, <3>3
        <4>3. QED
          BY <1>1, <4>1, <4>2, <3>3
      <3>4. QED
        BY <1>1, <3>1, <3>2, <3>3
    <2>2. PICK k \in 1..Len(s) :
                    /\ u[p] = s[k]
                    /\ p = Len(s) => k = i
                    /\ p # Len(s) /\ p < i => k = p
                    /\ p # Len(s) /\ ~(p < i) => k = p + 1
      BY <2>1
    <2>3. PICK l \in 1..Len(s) :
                    /\ u[q] = s[l]
                    /\ q = Len(s) => l = i
                    /\ q # Len(s) /\ q < i => l = q
                    /\ q # Len(s) /\ ~(q < i) => l = q + 1
      BY <2>1
    <2>4. k = l
      BY <2>0, <2>2, <2>3
    <2>5. QED
      BY <2>a, <1>1, <2>2, <2>3, <2>4
  <1>9. QED
    BY <1>2, <1>4, <1>5, <1>7, <1>8

-----------------------------------------------------------------------------
(* Steps of a work.                                                        *)

\* The work at the head of a queue belongs to an epoch that has begun.
LEMMA HeadWork ==
  ASSUME TypeInv, NEW d \in Devs, queue[d] # <<>>
  PROVE  /\ Work(d) = queue[d][1]
         /\ 1 \in 1..Len(queue[d])
         /\ Work(d) \in SnapWorks \cup CleanupWorks
         /\ Work(d).ep \in EpochNrs
         /\ Work(d).ep <= epoch[d]
         /\ Work(d).kind = "snap" => Work(d) \in SnapWorks
         /\ Dir(d) \in Devs \X Dates
  <1>1. queue[d] \in Seq(SnapWorks \cup CleanupWorks)
    BY DEF TypeInv, TypeOK
  <1>2. Len(queue[d]) \in Nat \ {0}
    BY <1>1, EmptySeq
  <1>3. Work(d) = queue[d][1] /\ Work(d) \in SnapWorks \cup CleanupWorks
    BY <1>1, <1>2, HeadTailProperties DEF Work
  <1>4. 1 \in 1..Len(queue[d])
    BY <1>2
  <1>5. Work(d).ep \in EpochNrs /\ (Work(d).kind = "snap" => Work(d) \in SnapWorks)
    BY <1>3 DEF SnapWorks, CleanupWorks
  <1>6. Work(d).ep <= epoch[d]
    BY <1>3, <1>4 DEF TypeInv, WorksQueued
  <1>7. Dir(d) \in Devs \X Dates
    BY <1>5 DEF Dir, TypeInv, TypeOK
  <1>8. QED
    BY <1>3, <1>4, <1>5, <1>6, <1>7

\* What Finish leaves: the queue without its first work, and nothing open.
LEMMA FinishFacts ==
  ASSUME TypeInv, NEW d \in Devs, queue[d] # <<>>, Finish(d)
  PROVE  /\ pc' \in [Devs -> Pcs]
         /\ queue' \in [Devs -> Seq(SnapWorks \cup CleanupWorks)]
         /\ dsnap' \in [Devs -> Nat]
         /\ filp' \in [Devs -> [gen : Nat, recs : Seq(Records)]]
         /\ pc'[d] = "idle"
         /\ dsnap'[d] = 0
         /\ filp'[d] = NoFile
         /\ Len(queue'[d]) = Len(queue[d]) - 1
         /\ \A i \in 1..Len(queue'[d]) : queue'[d][i] = queue[d][i + 1]
         /\ \A x \in Devs \ {d} : /\ pc'[x] = pc[x]
                                  /\ queue'[x] = queue[x]
                                  /\ dsnap'[x] = dsnap[x]
                                  /\ filp'[x] = filp[x]
  <1> USE DEF TypeInv, TypeOK, Finish, Goto, Pcs
  <1>1. /\ Tail(queue[d]) \in Seq(SnapWorks \cup CleanupWorks)
        /\ Len(Tail(queue[d])) = Len(queue[d]) - 1
        /\ \A i \in 1..Len(Tail(queue[d])) : Tail(queue[d])[i] = queue[d][i + 1]
    BY HeadTailProperties
  <1>2. queue'[d] = Tail(queue[d]) /\ \A x \in Devs \ {d} : queue'[x] = queue[x]
    OBVIOUS
  <1>3. queue' \in [Devs -> Seq(SnapWorks \cup CleanupWorks)]
    BY <1>1
  <1>4. NoFile \in [gen : Nat, recs : Seq(Records)]
    BY EmptySeq DEF NoFile
  <1>5. /\ filp' \in [Devs -> [gen : Nat, recs : Seq(Records)]]
        /\ filp'[d] = NoFile
        /\ \A x \in Devs \ {d} : filp'[x] = filp[x]
    BY <1>4
  <1>6. /\ pc' \in [Devs -> Pcs]
        /\ dsnap' \in [Devs -> Nat]
        /\ pc'[d] = "idle"
        /\ dsnap'[d] = 0
        /\ \A x \in Devs \ {d} : pc'[x] = pc[x] /\ dsnap'[x] = dsnap[x]
    OBVIOUS
  <1>7. QED
    BY <1>1, <1>2, <1>3, <1>5, <1>6

\* A work that ends leaves the type invariant, if the rest of the step does.
LEMMA FinishType ==
  ASSUME TypeInv, NEW d \in Devs, queue[d] # <<>>, Finish(d),
         UNCHANGED <<devvars, epvars, gen>>
  PROVE  WorksQueued' /\ (\A x \in Devs : dsnap'[x] <= gen')
  <1>1. \A x \in Devs : epoch'[x] = epoch[x] /\ mounted'[x] = mounted[x]
    BY DEF devvars, epvars
  <1>2. Len(queue[d]) \in Nat
    BY LenProperties DEF TypeInv, TypeOK
  <1>f. /\ pc'[d] = "idle"
        /\ dsnap'[d] = 0
        /\ Len(queue'[d]) = Len(queue[d]) - 1
        /\ \A i \in 1..Len(queue'[d]) : queue'[d][i] = queue[d][i + 1]
        /\ \A x \in Devs \ {d} : /\ pc'[x] = pc[x]
                                 /\ queue'[x] = queue[x]
                                 /\ dsnap'[x] = dsnap[x]
    BY FinishFacts
  <1>3. ASSUME NEW i \in 1..Len(queue'[d]) PROVE queue'[d][i].ep <= epoch[d]
    <2>1. i + 1 \in 1..Len(queue[d])
      BY <1>2, <1>f
    <2>2. queue[d][i + 1].ep <= epoch[d]
      BY <2>1 DEF TypeInv, WorksQueued
    <2>3. QED
      BY <2>2, <1>f
  <1>4. ASSUME NEW x \in Devs
        PROVE  /\ mounted'[x] => epoch'[x] # 0
               /\ \A i \in 1..Len(queue'[x]) : queue'[x][i].ep <= epoch'[x]
               /\ pc'[x] # "idle" => queue'[x] # <<>> /\ Head(queue'[x]).kind = "snap"
    <2>1. CASE x = d
      BY <2>1, <1>1, <1>3, <1>f DEF TypeInv, WorksQueued
    <2>2. CASE x # d
      BY <2>2, <1>1, <1>f DEF TypeInv, WorksQueued, Work
    <2>3. QED
      BY <2>1, <2>2
  <1>5. ASSUME NEW x \in Devs PROVE dsnap'[x] <= gen'
    <2>1. gen \in Nat /\ gen' = gen /\ dsnap[x] <= gen
      BY DEF TypeInv, TypeOK, PathsExist
    <2>2. QED
      BY <2>1, <1>f
  <1>6. QED
    BY <1>4, <1>5 DEF WorksQueued, Work

\* What queue_work leaves: the queue with one more work.
LEMMA QueueFacts ==
  ASSUME TypeInv, NEW d \in Devs, NEW w \in SnapWorks \cup CleanupWorks,
         queue' = [queue EXCEPT ![d] = Append(@, w)]
  PROVE  /\ queue' \in [Devs -> Seq(SnapWorks \cup CleanupWorks)]
         /\ Len(queue[d]) \in Nat
         /\ Len(queue'[d]) = Len(queue[d]) + 1
         /\ \A i \in 1..Len(queue[d]) : queue'[d][i] = queue[d][i]
         /\ queue'[d][Len(queue[d]) + 1] = w
         /\ queue'[d] # <<>>
         /\ queue[d] # <<>> => Head(queue'[d]) = Head(queue[d])
         /\ \A x \in Devs \ {d} : queue'[x] = queue[x]
  <1>1. queue[d] \in Seq(SnapWorks \cup CleanupWorks)
    BY DEF TypeInv, TypeOK
  <1>2. /\ Append(queue[d], w) \in Seq(SnapWorks \cup CleanupWorks)
        /\ Append(queue[d], w) # <<>>
        /\ Len(Append(queue[d], w)) = Len(queue[d]) + 1
        /\ \A i \in 1..Len(queue[d]) : Append(queue[d], w)[i] = queue[d][i]
        /\ Append(queue[d], w)[Len(queue[d]) + 1] = w
    BY <1>1, AppendProperties
  <1>3. queue[d] # <<>> => Head(Append(queue[d], w)) = Head(queue[d])
    BY <1>1, HeadTailAppend
  <1>4. /\ queue'[d] = Append(queue[d], w)
        /\ \A x \in Devs \ {d} : queue'[x] = queue[x]
    BY DEF TypeInv, TypeOK
  <1>5. queue' \in [Devs -> Seq(SnapWorks \cup CleanupWorks)]
    BY <1>2 DEF TypeInv, TypeOK
  <1>6. Len(queue[d]) \in Nat
    BY <1>1, LenProperties
  <1>7. QED
    BY <1>2, <1>3, <1>4, <1>5, <1>6

\* A work queued for an epoch that has begun leaves WorksQueued.
LEMMA QueueType ==
  ASSUME TypeInv, NEW d \in Devs, NEW w \in SnapWorks \cup CleanupWorks,
         w.ep <= epoch[d], queue' = [queue EXCEPT ![d] = Append(@, w)],
         UNCHANGED <<epoch, pc>>, \A x \in Devs : mounted'[x] => mounted[x]
  PROVE  WorksQueued'
  <1>1. ASSUME NEW i \in 1..Len(queue'[d]) PROVE queue'[d][i].ep <= epoch[d]
    <2>1. Len(queue[d]) \in Nat /\ Len(queue'[d]) = Len(queue[d]) + 1
      BY QueueFacts
    <2>2. CASE i \in 1..Len(queue[d])
      BY <2>2, QueueFacts DEF TypeInv, WorksQueued
    <2>3. CASE i = Len(queue[d]) + 1
      BY <2>3, QueueFacts
    <2>4. QED
      BY <2>1, <2>2, <2>3
  <1>2. ASSUME NEW x \in Devs
        PROVE  /\ mounted'[x] => epoch[x] # 0
               /\ \A i \in 1..Len(queue'[x]) : queue'[x][i].ep <= epoch[x]
               /\ pc[x] # "idle" => queue'[x] # <<>> /\ Head(queue'[x]).kind = "snap"
    <2>1. CASE x = d
      BY <2>1, <1>1, QueueFacts DEF TypeInv, WorksQueued, Work
    <2>2. CASE x # d
      BY <2>2, QueueFacts DEF TypeInv, WorksQueued, Work
    <2>3. QED
      BY <2>1, <2>2
  <1>3. QED
    BY <1>2 DEF WorksQueued, Work

\* A work that goes on keeps its place at the head of the queue
GoesOn(d) ==
    /\ pc[d] # "idle"
    /\ \E label \in Pcs \ {"idle"} : Goto(d, label)
    /\ UNCHANGED queue
    /\ dsnap' \in [Devs -> Nat]
    /\ filp' \in [Devs -> [gen : Nat, recs : Seq(Records)]]
    /\ \A x \in Devs : dsnap'[x] <= gen'

\* What a step of a work has to leave for TypeInv to hold after it.
LEMMA WorkType ==
  ASSUME TypeInv, NEW d \in Devs, queue[d] # <<>>, Finish(d) \/ GoesOn(d),
         UNCHANGED <<devvars, epvars, gen>>,
         lru_ok' \in [Devs -> [EpochNrs -> BOOLEAN]],
         lru' \in [Devs -> [EpochNrs -> Seq(Blocks)]],
         path' \in [Devs -> [EpochNrs -> Nat]],
         top' \in BOOLEAN, subs' \in SUBSET (Devs \X Dates), files' \in SUBSET subs',
         recs' \in [Devs \X Dates -> Seq(Records)],
         \A x \in Devs : \A k \in EpochNrs :
            /\ k > epoch[x] => path'[x][k] = 0
            /\ path'[x][k] <= gen
            /\ path'[x][k] = gen => <<x, date[x][k]>> \in subs'
  PROVE  TypeInv'
  <1> USE DEF devvars, epvars
  <1>1. /\ pc' \in [Devs -> Pcs]
        /\ queue' \in [Devs -> Seq(SnapWorks \cup CleanupWorks)]
        /\ dsnap' \in [Devs -> Nat]
        /\ filp' \in [Devs -> [gen : Nat, recs : Seq(Records)]]
        /\ WorksQueued'
        /\ \A x \in Devs : dsnap'[x] <= gen'
    <2>1. CASE Finish(d)
      BY <2>1, FinishFacts, FinishType
    <2>2. CASE GoesOn(d)
      <3>1. PICK label \in Pcs \ {"idle"} : Goto(d, label)
        BY <2>2 DEF GoesOn
      <3>2. pc' \in [Devs -> Pcs] /\ \A x \in Devs : pc'[x] # "idle" => pc[x] # "idle"
        BY <2>2, <3>1 DEF GoesOn, Goto, TypeInv, TypeOK
      <3>3. WorksQueued'
        BY <2>2, <3>2 DEF GoesOn, TypeInv, WorksQueued, Work
      <3>4. QED
        BY <2>2, <3>2, <3>3 DEF GoesOn, TypeInv, TypeOK
    <2>3. QED
      BY <2>1, <2>2
  <1>2. TypeOK'
    BY <1>1 DEF TypeInv, TypeOK
  <1>3. EpochsDated' /\ PathsExist'
    BY <1>1 DEF TypeInv, EpochsDated, PathsExist
  <1>4. QED
    BY <1>1, <1>2, <1>3 DEF TypeInv

LEMMA KeepsFiles ==
  ASSUME TypeInv, NEW d \in Devs, NEW label \in Pcs \ {"idle"}, pc[d] # "idle",
         Goto(d, label), UNCHANGED <<queue, dsnap, filp, gen>>
  PROVE  GoesOn(d)
  BY DEF TypeInv, TypeOK, PathsExist, GoesOn

\* A work that is running has an epoch, a block and a directory.
LEMMA Running ==
  ASSUME TypeInv, NEW d \in Devs, pc[d] # "idle"
  PROVE  /\ queue[d] # <<>>
         /\ Work(d) = queue[d][1]
         /\ Work(d) \in SnapWorks
         /\ Work(d).ep \in EpochNrs
         /\ Work(d).ep <= epoch[d]
         /\ Work(d).blk \in Blocks
         /\ Work(d).val \in Contents
         /\ Dir(d) = <<d, date[d][Work(d).ep]>>
         /\ Dir(d) \in Devs \X Dates
  <1>1. queue[d] # <<>> /\ Work(d).kind = "snap"
    BY DEF TypeInv, WorksQueued
  <1>2. Work(d) \in SnapWorks
    BY <1>1, HeadWork
  <1>3. QED
    BY <1>1, <1>2, HeadWork DEF SnapWorks, Dir

\* A path is taken to a directory that is there.
LEMMA TakePathType ==
  ASSUME TypeInv, NEW d \in Devs, pc[d] # "idle", TakePath(d), dsnap[d] = gen,
         UNCHANGED <<devvars, epvars, cachevars, gen, top, files, recs>>,
         subs' \in SUBSET (Devs \X Dates), subs \subseteq subs', Dir(d) \in subs'
  PROVE  TypeInv'
  <1> DEFINE k == Work(d).ep
  <1>1. /\ queue[d] # <<>> /\ k \in EpochNrs /\ k <= epoch[d]
        /\ <<d, date[d][k]>> \in subs'
    BY Running
  <1> HIDE DEF k
  <1>2. Finish(d) \/ GoesOn(d)
    <2>1. \/ Goto(d, "file") /\ UNCHANGED <<queue, dsnap, filp>>
          \/ Finish(d)
      BY DEF TakePath
    <2>2. "file" \in Pcs \ {"idle"}
      BY DEF Pcs
    <2>3. QED
      BY <2>1, <2>2, KeepsFiles
  <1>3. path' = path \/ path' = [path EXCEPT ![d][k] = gen]
    BY DEF TakePath, k
  <1>4. /\ path \in [Devs -> [EpochNrs -> Nat]]
        /\ gen \in Nat
        /\ \A x \in Devs : epoch[x] \in Nat
        /\ \A x \in Devs : \A j \in EpochNrs :
              /\ j > epoch[x] => path[x][j] = 0
              /\ path[x][j] <= gen
              /\ path[x][j] = gen => <<x, date[x][j]>> \in subs'
    BY SMTT(30), BoundsAssumption DEF TypeInv, TypeOK, EpochsDated, PathsExist
  <1>5. path' \in [Devs -> [EpochNrs -> Nat]]
    <2>1. CASE path' = path
      BY <1>4, <2>1
    <2>2. CASE path' = [path EXCEPT ![d][k] = gen]
      BY <1>1, <1>4, <2>2
    <2>3. QED
      BY <1>3, <2>1, <2>2
  <1>6. ASSUME NEW x \in Devs, NEW j \in EpochNrs
        PROVE  /\ j > epoch[x] => path'[x][j] = 0
               /\ path'[x][j] <= gen
               /\ path'[x][j] = gen => <<x, date[x][j]>> \in subs'
    <2>1. CASE path' = path
      BY <1>4, <2>1
    <2>2. CASE path' = [path EXCEPT ![d][k] = gen]
      <3>1. CASE x = d /\ j = k
        <4>1. path'[x][j] = gen
          BY <1>1, <1>4, <2>2, <3>1
        <4>2. ~(j > epoch[x])
          BY <1>1, <1>4, <3>1 DEF EpochNrs
        <4>3. QED
          BY <4>1, <4>2, <1>1, <1>4, <3>1
      <3>2. CASE ~(x = d /\ j = k)
        <4>1. path'[x][j] = path[x][j]
          BY <1>1, <1>4, <2>2, <3>2
        <4>2. QED
          BY <4>1, <1>4
      <3>3. QED
        BY <3>1, <3>2
    <2>3. QED
      BY <1>3, <2>1, <2>2
  <1>7. /\ lru_ok' \in [Devs -> [EpochNrs -> BOOLEAN]]
        /\ lru' \in [Devs -> [EpochNrs -> Seq(Blocks)]]
        /\ top' \in BOOLEAN /\ files' \in SUBSET subs'
        /\ recs' \in [Devs \X Dates -> Seq(Records)]
        /\ UNCHANGED <<devvars, epvars, gen>>
    BY DEF TypeInv, TypeOK, cachevars
  <1>8. QED
    BY <1>1, <1>2, <1>5, <1>6, <1>7, WorkType

\* The conjuncts of TypeInv are preserved by every action.
LEMMA TypeStep == TypeInv /\ [Next]_vars => TypeInv'
  <1> SUFFICES ASSUME TypeInv, [Next]_vars PROVE TypeInv'
    OBVIOUS
  <1> USE DEF devvars, epvars, cachevars, fsvars
  <1>1. ASSUME NEW d \in Devs, Mount(d)
        PROVE  TypeInv'
    <2>1. epoch[d] \in Nat /\ epoch[d] + 1 \in EpochNrs
      BY <1>1, BoundsAssumption DEF Mount, TypeInv, TypeOK, EpochNrs
    <2>2. PICK t \in {LastDate(d), LastDate(d) + 1} :
             date' = [date EXCEPT ![d][epoch[d] + 1] = t]
      BY <1>1 DEF Mount
    <2>3. LastDate(d) \in Nat /\ LastDate(d) <= epoch[d]
      <3>1. CASE epoch[d] = 0
        BY <3>1 DEF LastDate
      <3>2. CASE epoch[d] # 0
        <4>1. epoch[d] \in EpochNrs
          BY <2>1, <3>2, BoundsAssumption DEF EpochNrs
        <4>2. date[d][epoch[d]] \in Dates /\ date[d][epoch[d]] <= epoch[d]
          BY <4>1 DEF TypeInv, TypeOK, EpochsDated
        <4>3. QED
          BY <3>2, <4>2 DEF LastDate, Dates
      <3>3. QED
        BY <3>1, <3>2
    <2>4. t \in Dates /\ t <= epoch[d] + 1
      <3>1. t \in Nat /\ t <= epoch[d] + 1
        BY <2>1, <2>3
      <3>2. QED
        BY <3>1, <2>1, BoundsAssumption DEF Dates, EpochNrs
    <2>5. TypeOK'
      <3>1. /\ mounted' \in [Devs -> BOOLEAN]
            /\ epoch' \in [Devs -> 0..MaxEpoch]
        BY <1>1, <2>1, BoundsAssumption DEF Mount, TypeInv, TypeOK, EpochNrs
      <3>2. date' \in [Devs -> [EpochNrs -> Dates]]
        BY <2>1, <2>2, <2>4 DEF TypeInv, TypeOK
      <3>3. orig' \in [Devs -> [EpochNrs -> [Blocks -> Contents]]]
        BY <1>1, <2>1 DEF Mount, TypeInv, TypeOK
      <3>4. QED
        BY <1>1, <3>1, <3>2, <3>3 DEF Mount, TypeInv, TypeOK
    <2>6. ASSUME NEW x \in Devs, NEW k \in EpochNrs
          PROVE  /\ date'[x][k] <= k
                 /\ k > epoch'[x] => path'[x][k] = 0 /\ epoch[x] < k
                 /\ date'[x][k] # date[x][k] => path[x][k] = 0
      <3>1. /\ epoch[x] \in Nat /\ k \in Nat
            /\ date[x][k] <= k
            /\ k > epoch[x] => path[x][k] = 0
        BY BoundsAssumption DEF TypeInv, TypeOK, EpochsDated, EpochNrs
      <3>2. date'[x][k] = IF x = d /\ k = epoch[d] + 1 THEN t ELSE date[x][k]
        BY <2>2 DEF TypeInv, TypeOK
      <3>3. epoch'[x] = IF x = d THEN epoch[d] + 1 ELSE epoch[x]
        BY <1>1 DEF Mount, TypeInv, TypeOK
      <3>4. path' = path
        BY <1>1 DEF Mount
      <3>5. QED
        BY <2>1, <2>4, <3>1, <3>2, <3>3, <3>4
    <2>7. WorksQueued'
      <3>1. ASSUME NEW x \in Devs
            PROVE  /\ epoch'[x] >= epoch[x]
                   /\ epoch'[x] \in Nat /\ epoch[x] \in Nat
                   /\ mounted'[x] => mounted[x] \/ epoch'[x] # 0
                   /\ queue'[x] = queue[x] /\ pc'[x] = pc[x]
        BY SMTT(30), <1>1, <2>1, BoundsAssumption DEF Mount, TypeInv, TypeOK
      <3>2. ASSUME NEW x \in Devs, NEW i \in 1..Len(queue[x])
            PROVE  queue[x][i].ep \in Nat
        <4>1. queue[x][i] \in SnapWorks \cup CleanupWorks
          BY ElementOfSeq DEF TypeInv, TypeOK
        <4>2. QED
          BY <4>1 DEF SnapWorks, CleanupWorks, EpochNrs
      <3>3. QED
        BY <3>1, <3>2 DEF TypeInv, WorksQueued, Work
    <2>8. PathsExist'
      <3>1. UNCHANGED <<gen, dsnap, path, subs>>
        BY <1>1 DEF Mount
      <3>2. QED
        BY <2>6, <3>1 DEF TypeInv, PathsExist
    <2>9. QED
      BY <2>5, <2>6, <2>7, <2>8 DEF TypeInv, EpochsDated
  <1>2. ASSUME NEW d \in Devs, Umount(d)
        PROVE  TypeInv'
    <2> DEFINE c == [kind |-> "cleanup", ep |-> epoch[d]]
    <2>1. epoch[d] \in EpochNrs
      BY <1>2 DEF Umount, TypeInv, TypeOK, WorksQueued, EpochNrs
    <2>2. c \in SnapWorks \cup CleanupWorks
      BY <2>1 DEF CleanupWorks
    <2>3. c.ep <= epoch[d] /\ epoch[d] \in Nat
      BY <2>1 DEF EpochNrs
    <2> HIDE DEF c
    <2>4. /\ queue' = [queue EXCEPT ![d] = Append(@, c)]
          /\ mounted' \in [Devs -> BOOLEAN]
          /\ \A x \in Devs : mounted'[x] => mounted[x]
          /\ UNCHANGED <<disk, orig, epvars, cachevars, path, fsvars, pc, dsnap, filp>>
      BY <1>2 DEF Umount, TypeInv, TypeOK, c
    <2>5. WorksQueued' /\ queue' \in [Devs -> Seq(SnapWorks \cup CleanupWorks)]
      BY <2>2, <2>3, <2>4, QueueFacts, QueueType
    <2>6. QED
      BY <2>4, <2>5 DEF TypeInv, TypeOK, EpochsDated, PathsExist
  <1>3. ASSUME NEW d \in Devs, NEW b \in Blocks, NEW v \in Contents, Write(d, b, v)
        PROVE  TypeInv'
    <2> DEFINE c == [kind |-> "snap", blk |-> b, val |-> disk[d][b], ep |-> epoch[d]]
    <2>1. epoch[d] \in EpochNrs
      BY <1>3 DEF Write, TypeInv, TypeOK, WorksQueued, EpochNrs
    <2>2. c \in SnapWorks \cup CleanupWorks
      BY <2>1 DEF SnapWorks, TypeInv, TypeOK
    <2>3. c.ep <= epoch[d] /\ epoch[d] \in Nat
      BY <2>1 DEF EpochNrs
    <2> HIDE DEF c
    <2>4. /\ queue' = [queue EXCEPT ![d] = Append(@, c)] \/ UNCHANGED queue
          /\ disk' \in [Devs -> [Blocks -> Contents]]
          /\ UNCHANGED <<orig, mounted, epvars, cachevars, path, fsvars, pc, dsnap, filp>>
      BY <1>3 DEF Write, TypeInv, TypeOK, c
    <2>5. WorksQueued' /\ queue' \in [Devs -> Seq(SnapWorks \cup CleanupWorks)]
      <3>1. CASE queue' = [queue EXCEPT ![d] = Append(@, c)]
        BY <2>2, <2>3, <2>4, <3>1, QueueFacts, QueueType
      <3>2. CASE UNCHANGED queue
        BY <2>4, <3>2 DEF TypeInv, TypeOK, WorksQueued, Work
      <3>3. QED
        BY <2>4, <3>1, <3>2
    <2>6. QED
      BY <2>4, <2>5 DEF TypeInv, TypeOK, EpochsDated, PathsExist
  <1>4. ASSUME RemoveSnapshots
        PROVE  TypeInv'
    <2>1. recs' \in [Devs \X Dates -> Seq(Records)]
      BY <1>4, EmptySeq DEF RemoveSnapshots
    <2>2. /\ gen' = gen + 1 /\ gen \in Nat /\ top' \in BOOLEAN
          /\ subs' = {} /\ files' = {}
          /\ UNCHANGED <<devvars, epvars, cachevars, path, queue, pc, dsnap, filp>>
      BY <1>4 DEF RemoveSnapshots, TypeInv, TypeOK
    <2>3. TypeOK' /\ PathsExist'
      <3>1. TypeOK'
        BY <2>1, <2>2 DEF TypeInv, TypeOK
      <3>2. ASSUME NEW d \in Devs, NEW k \in EpochNrs
            PROVE  path[d][k] <= gen /\ path[d][k] \in Nat
        BY ZenonT(30) DEF TypeInv, TypeOK, PathsExist
      <3>3. ASSUME NEW d \in Devs
            PROVE  dsnap[d] <= gen /\ dsnap[d] \in Nat
        BY DEF TypeInv, TypeOK, PathsExist
      <3>4. PathsExist'
        BY <2>2, <3>2, <3>3 DEF PathsExist
      <3>5. QED
        BY <3>1, <3>4
    <2>4. EpochsDated' /\ WorksQueued'
      BY <1>4 DEF RemoveSnapshots, TypeInv, EpochsDated, WorksQueued, Work
    <2>5. QED
      BY <2>3, <2>4 DEF TypeInv
  <1>5. ASSUME NEW d \in Devs, StartWork(d)
        PROVE  TypeInv'
    <2> DEFINE k == Work(d).ep
               b == Work(d).blk
    <2>1. /\ queue[d] # <<>> /\ Work(d).kind = "snap" /\ pc[d] = "idle"
          /\ UNCHANGED <<devvars, epvars, path, fsvars>>
      BY <1>5 DEF StartWork
    <2>2. k \in EpochNrs /\ b \in Blocks
      BY <2>1, HeadWork DEF SnapWorks
    <2> HIDE DEF k, b
    <2>3. CASE Finish(d)
      <3>1. /\ lru_ok' \in [Devs -> [EpochNrs -> BOOLEAN]]
            /\ lru' \in [Devs -> [EpochNrs -> Seq(Blocks)]]
        <4>1. /\ lru_ok' = lru_ok \/ lru_ok' = [lru_ok EXCEPT ![d][k] = TRUE]
              /\ \/ lru' = lru
                 \/ /\ Contains(lru[d][k], b)
                    /\ lru' = [lru EXCEPT ![d][k] = LruTouch(@, b)]
          BY <1>5 DEF StartWork, k, b
        <4>2. Contains(lru[d][k], b) => LruTouch(lru[d][k], b) \in Seq(Blocks)
          <5>1. lru[d][k] \in Seq(Blocks)
            BY <2>2 DEF TypeInv, TypeOK
          <5>2. QED
            BY <2>2, <5>1, Touch
        <4>3. QED
          <5>0. /\ lru_ok \in [Devs -> [EpochNrs -> BOOLEAN]]
                /\ lru \in [Devs -> [EpochNrs -> Seq(Blocks)]]
            BY DEF TypeInv, TypeOK
          <5>1. lru_ok' \in [Devs -> [EpochNrs -> BOOLEAN]]
            <6>1. CASE lru_ok' = lru_ok
              BY <6>1, <5>0
            <6>2. CASE lru_ok' = [lru_ok EXCEPT ![d][k] = TRUE]
              BY <6>2, <5>0, <2>2
            <6>3. QED
              BY <6>1, <6>2, <4>1
          <5>2. lru' \in [Devs -> [EpochNrs -> Seq(Blocks)]]
            <6>1. CASE lru' = lru
              BY <6>1, <5>0
            <6>2. CASE lru' = [lru EXCEPT ![d][k] = LruTouch(@, b)]
                       /\ Contains(lru[d][k], b)
              BY <6>2, <5>0, <2>2, <4>2
            <6>3. QED
              BY <6>1, <6>2, <4>1
          <5>3. QED
            BY <5>1, <5>2
      <3>2. QED
        BY ZenonT(30), <2>1, <2>3, <3>1, FinishFacts, FinishType
           DEF TypeInv, TypeOK, EpochsDated, PathsExist
    <2>4. CASE /\ lru_ok' = [lru_ok EXCEPT ![d][k] = TRUE]
               /\ Goto(d, "dir")
               /\ UNCHANGED <<lru, queue, dsnap, filp>>
      <3>1. TypeOK'
        BY <2>1, <2>2, <2>4 DEF TypeInv, TypeOK, Goto, Pcs
      <3>2. WorksQueued'
        BY <2>1, <2>4 DEF TypeInv, TypeOK, WorksQueued, Work, Goto
      <3>3. QED
        BY <2>1, <2>4, <3>1, <3>2 DEF TypeInv, EpochsDated, PathsExist
    <2>5. QED
      BY <1>5, <2>3, <2>4 DEF StartWork, k
  <1> DEFINE Kept ==
               /\ \A x \in Devs : \A k \in EpochNrs :
                     /\ k > epoch[x] => path[x][k] = 0
                     /\ path[x][k] <= gen
                     /\ path[x][k] = gen => <<x, date[x][k]>> \in subs
               /\ path \in [Devs -> [EpochNrs -> Nat]]
               /\ gen \in Nat \ {0}
               /\ lru_ok \in [Devs -> [EpochNrs -> BOOLEAN]]
               /\ lru \in [Devs -> [EpochNrs -> Seq(Blocks)]]
               /\ top \in BOOLEAN
               /\ subs \in SUBSET (Devs \X Dates)
               /\ files \in SUBSET subs
               /\ recs \in [Devs \X Dates -> Seq(Records)]
  <1>6. Kept
    BY DEF TypeInv, TypeOK, EpochsDated, PathsExist
  <1>7. ASSUME NEW d \in Devs, EnsureDir(d)
        PROVE  TypeInv'
    <2> DEFINE k == Work(d).ep
    <2>1. /\ pc[d] # "idle"
          /\ \/ Goto(d, "file") /\ path' = path
             \/ Goto(d, "top") /\ path' = [path EXCEPT ![d][k] = 0]
          /\ UNCHANGED <<devvars, epvars, cachevars, queue, fsvars, dsnap, filp>>
      BY <1>7 DEF EnsureDir
    <2>2. queue[d] # <<>> /\ k \in EpochNrs
      BY <2>1, Running
    <2> HIDE DEF k
    <2>3. GoesOn(d)
      <3>1. {"file", "top"} \subseteq Pcs \ {"idle"}
        BY DEF Pcs
      <3>2. QED
        BY <2>1, <3>1, KeepsFiles
    <2>4. CASE path' = path
      BY <1>6, <2>1, <2>2, <2>3, <2>4, WorkType
    <2>5. CASE path' = [path EXCEPT ![d][k] = 0]
      <3>1. path' \in [Devs -> [EpochNrs -> Nat]]
        BY <1>6, <2>2, <2>5
      <3>2. \A x \in Devs : \A j \in EpochNrs :
                /\ j > epoch[x] => path'[x][j] = 0
                /\ path'[x][j] <= gen
                /\ path'[x][j] = gen => <<x, date[x][j]>> \in subs
        BY <1>6, <2>2, <2>5
      <3>3. QED
        BY <1>6, <2>1, <2>2, <2>3, <3>1, <3>2, WorkType
    <2>6. QED
      BY <2>1, <2>4, <2>5
  <1>8. ASSUME NEW d \in Devs, LookupTop(d) \/ MkdirTop(d)
        PROVE  TypeInv'
    <2>1. /\ pc[d] # "idle"
          /\ \/ dsnap' = [dsnap EXCEPT ![d] = gen] /\ Goto(d, "sub") /\ UNCHANGED <<queue, filp>>
             \/ Finish(d)
             \/ \E label \in {"mktop", "fault"} :
                   Goto(d, label) /\ UNCHANGED <<queue, dsnap, filp>>
          /\ top' \in BOOLEAN
          /\ UNCHANGED <<devvars, epvars, cachevars, path, gen, subs, files, recs>>
      BY <1>6, <1>8 DEF LookupTop, MkdirTop, MkdirFails
    <2>2. queue[d] # <<>>
      BY <2>1, Running
    <2>3. Finish(d) \/ GoesOn(d)
      <3>1. {"mktop", "fault", "sub"} \subseteq Pcs \ {"idle"}
        BY DEF Pcs
      <3>2. CASE dsnap' = [dsnap EXCEPT ![d] = gen] /\ Goto(d, "sub") /\ UNCHANGED <<queue, filp>>
        BY <1>6, <2>1, <3>1, <3>2 DEF GoesOn, TypeInv, TypeOK, PathsExist
      <3>3. QED
        BY <2>1, <3>1, <3>2, KeepsFiles
    <2>4. QED
      BY <1>6, <2>1, <2>2, <2>3, WorkType
  <1>9. ASSUME NEW d \in Devs, LookupSub(d)
        PROVE  TypeInv'
    <2>1. /\ pc[d] # "idle"
          /\ UNCHANGED <<devvars, epvars, cachevars, fsvars>>
          /\ \/ TakePath(d) /\ dsnap[d] = gen /\ Dir(d) \in subs
             \/ Finish(d) /\ UNCHANGED path
             \/ Goto(d, "mksub") /\ UNCHANGED <<path, queue, dsnap, filp>>
      BY <1>9 DEF LookupSub
    <2>2. CASE TakePath(d) /\ dsnap[d] = gen /\ Dir(d) \in subs
      BY <1>6, <2>1, <2>2, TakePathType
    <2>3. CASE \/ Finish(d) /\ UNCHANGED path
               \/ Goto(d, "mksub") /\ UNCHANGED <<path, queue, dsnap, filp>>
      <3>1. Finish(d) \/ GoesOn(d)
        <4>1. "mksub" \in Pcs \ {"idle"}
          BY DEF Pcs
        <4>2. QED
          BY <2>1, <2>3, <4>1, KeepsFiles
      <3>2. queue[d] # <<>>
        BY <2>1, Running
      <3>3. QED
        BY <1>6, <2>1, <2>3, <3>1, <3>2, WorkType
    <2>4. QED
      BY <2>1, <2>2, <2>3
  <1>10. ASSUME NEW d \in Devs, MkdirSub(d)
         PROVE  TypeInv'
    <2>1. /\ pc[d] # "idle"
          /\ UNCHANGED <<devvars, epvars, cachevars, gen, top, files, recs>>
          /\ \/ TakePath(d) /\ dsnap[d] = gen /\ subs' = subs \cup {Dir(d)}
             \/ Finish(d) /\ UNCHANGED <<subs, path>>
             \/ Goto(d, "fault") /\ UNCHANGED <<subs, path, queue, dsnap, filp>>
      BY <1>10 DEF MkdirSub, MkdirFails
    <2>2. CASE TakePath(d) /\ dsnap[d] = gen /\ subs' = subs \cup {Dir(d)}
      <3>1. Dir(d) \in Devs \X Dates
        BY <2>1, Running
      <3>2. QED
        BY <1>6, <2>1, <2>2, <3>1, TakePathType
    <2>3. CASE \/ Finish(d) /\ UNCHANGED <<subs, path>>
               \/ Goto(d, "fault") /\ UNCHANGED <<subs, path, queue, dsnap, filp>>
      <3>1. Finish(d) \/ GoesOn(d)
        <4>1. "fault" \in Pcs \ {"idle"}
          BY DEF Pcs
        <4>2. QED
          BY <2>1, <2>3, <4>1, KeepsFiles
      <3>2. queue[d] # <<>>
        BY <2>1, Running
      <3>3. QED
        BY <1>6, <2>1, <2>3, <3>1, <3>2, WorkType
    <2>4. QED
      BY <2>1, <2>2, <2>3
  <1>11. ASSUME NEW d \in Devs, OpenFile(d)
         PROVE  TypeInv'
    <2> DEFINE k == Work(d).ep
               p == path[d][k]
    <2>1. /\ queue[d] # <<>> /\ k \in EpochNrs /\ pc[d] # "idle"
          /\ Dir(d) = <<d, date[d][k]>> /\ Dir(d) \in Devs \X Dates
      BY <1>11, Running DEF OpenFile
    <2>2. p \in Nat /\ recs[Dir(d)] \in Seq(Records) /\ <<>> \in Seq(Records)
      BY <1>6, <2>1, EmptySeq
    <2>3. files' \in SUBSET subs
      <3>1. files' = files \/ (p = gen /\ files' = files \cup {Dir(d)})
        BY <1>11 DEF OpenFile, CreateFile
      <3>2. p = gen => Dir(d) \in subs
        BY <1>6, <2>1
      <3>3. QED
        BY <1>6, <3>1, <3>2
    <2>4. /\ \/ \E r \in {recs[Dir(d)], <<>>} :
                   /\ filp' = [filp EXCEPT ![d] = [gen |-> p, recs |-> r]]
                   /\ Goto(d, "lookup")
                   /\ UNCHANGED <<queue, dsnap>>
             \/ Finish(d)
             \/ Goto(d, "fault") /\ UNCHANGED <<queue, dsnap, filp>>
          /\ UNCHANGED <<devvars, epvars, cachevars, path, gen, top, subs, recs>>
      BY <1>11 DEF OpenFile, CreateFile
    <2> HIDE DEF p, k
    <2>5. Finish(d) \/ GoesOn(d)
      <3>1. {"lookup", "fault"} \subseteq Pcs \ {"idle"}
        BY DEF Pcs
      <3>2. ASSUME NEW r \in {recs[Dir(d)], <<>>},
                   filp' = [filp EXCEPT ![d] = [gen |-> p, recs |-> r]],
                   Goto(d, "lookup"), UNCHANGED <<queue, dsnap>>
            PROVE  GoesOn(d)
        <4>1. filp' \in [Devs -> [gen : Nat, recs : Seq(Records)]]
          BY <2>2, <3>2 DEF TypeInv, TypeOK
        <4>2. QED
          BY <2>1, <2>4, <3>1, <3>2, <4>1 DEF GoesOn, TypeInv, TypeOK, PathsExist
      <3>3. QED
        BY <2>1, <2>4, <3>1, <3>2, KeepsFiles
    <2>6. QED
      BY <1>6, <2>1, <2>3, <2>4, <2>5, WorkType
  <1>12. ASSUME NEW d \in Devs, SearchFile(d)
         PROVE  TypeInv'
    <2>1. /\ pc[d] # "idle"
          /\ \E label \in {"add", "write"} : Goto(d, label)
          /\ UNCHANGED <<devvars, epvars, cachevars, path, queue, fsvars, dsnap, filp>>
      BY <1>12 DEF SearchFile
    <2>2. queue[d] # <<>> /\ GoesOn(d)
      <3>1. {"add", "write"} \subseteq Pcs \ {"idle"}
        BY DEF Pcs
      <3>2. QED
        BY <2>1, <3>1, Running, KeepsFiles
    <2>3. QED
      BY <1>6, <2>1, <2>2, WorkType
  <1>13. ASSUME NEW d \in Devs, WriteRecord(d)
         PROVE  TypeInv'
    <2>1. /\ pc[d] # "idle"
          /\ \E label \in {"add", "fput"} : Goto(d, label)
          /\ (\E cut \in BOOLEAN : AppendRecord(d, cut)) \/ UNCHANGED <<filp, recs>>
          /\ UNCHANGED <<devvars, epvars, cachevars, path, queue, gen, top, subs,
                         files, dsnap>>
      BY <1>13 DEF WriteRecord
    <2>2. /\ queue[d] # <<>> /\ Dir(d) \in Devs \X Dates
          /\ Work(d).blk \in Blocks /\ Work(d).val \in Contents
      BY <2>1, Running
    <2>3. /\ filp' \in [Devs -> [gen : Nat, recs : Seq(Records)]]
          /\ recs' \in [Devs \X Dates -> Seq(Records)]
      <3>1. ASSUME NEW cut \in BOOLEAN, AppendRecord(d, cut)
            PROVE  <2>3!1 /\ <2>3!2
        <4> DEFINE r == [blk |-> Work(d).blk, val |-> Work(d).val, cut |-> cut]
        <4>1. r \in Records
          BY <2>2 DEF Records
        <4> HIDE DEF r
        <4>2. /\ filp' = [filp EXCEPT ![d].recs = Append(@, r)]
              /\ recs' = recs \/ recs' = [recs EXCEPT ![Dir(d)] = Append(@, r)]
          BY <3>1 DEF AppendRecord, r
        <4>3. filp \in [Devs -> [gen : Nat, recs : Seq(Records)]]
          BY DEF TypeInv, TypeOK
        <4>4. /\ Append(filp[d].recs, r) \in Seq(Records)
              /\ Append(recs[Dir(d)], r) \in Seq(Records)
          BY <1>6, <2>2, <4>1, <4>3, AppendProperties
        <4>5. filp' \in [Devs -> [gen : Nat, recs : Seq(Records)]]
          BY <4>2, <4>3, <4>4
        <4>6. recs' \in [Devs \X Dates -> Seq(Records)]
          <5>1. CASE recs' = recs
            BY <1>6, <5>1
          <5>2. CASE recs' = [recs EXCEPT ![Dir(d)] = Append(@, r)]
            BY <1>6, <2>2, <4>4, <5>2
          <5>3. QED
            BY <4>2, <5>1, <5>2
        <4>7. QED
          BY <4>5, <4>6
      <3>2. CASE UNCHANGED <<filp, recs>>
        BY <3>2 DEF TypeInv, TypeOK
      <3>3. QED
        BY <2>1, <3>1, <3>2
    <2>4. GoesOn(d)
      <3>1. {"add", "fput"} \subseteq Pcs \ {"idle"}
        BY DEF Pcs
      <3>2. QED
        BY <2>1, <2>3, <3>1 DEF GoesOn, TypeInv, TypeOK, PathsExist
    <2>5. QED
      BY <1>6, <2>1, <2>2, <2>3, <2>4, WorkType
  <1>14. ASSUME NEW d \in Devs, AddToLru(d)
         PROVE  TypeInv'
    <2> DEFINE k == Work(d).ep
               b == Work(d).blk
    <2>1. /\ pc[d] # "idle"
          /\ lru' = lru \/ lru' = [lru EXCEPT ![d][k] = LruAdd(@, b)]
          /\ Goto(d, "fput")
          /\ UNCHANGED <<devvars, epvars, lru_ok, path, queue, fsvars, dsnap, filp>>
      BY <1>14 DEF AddToLru
    <2>2. queue[d] # <<>> /\ GoesOn(d) /\ k \in EpochNrs /\ b \in Blocks
      <3>1. "fput" \in Pcs \ {"idle"}
        BY DEF Pcs
      <3>2. QED
        BY <2>1, <3>1, Running, KeepsFiles
    <2> HIDE DEF k, b
    <2>3. LruAdd(lru[d][k], b) \in Seq(Blocks)
      <3>1. lru[d][k] \in Seq(Blocks)
        BY <1>6, <2>2
      <3>2. QED
        BY <2>2, <3>1, AppendProperties, HeadTailProperties DEF LruAdd
    <2>4. lru' \in [Devs -> [EpochNrs -> Seq(Blocks)]]
      <3>1. CASE lru' = lru
        BY <1>6, <3>1
      <3>2. CASE lru' = [lru EXCEPT ![d][k] = LruAdd(@, b)]
        BY <1>6, <2>2, <2>3, <3>2
      <3>3. QED
        BY <2>1, <3>1, <3>2
    <2>5. QED
      BY <1>6, <2>1, <2>2, <2>4, WorkType
  <1>15. ASSUME NEW d \in Devs, EndWork(d)
         PROVE  TypeInv'
    <2>1. queue[d] # <<>>
      BY <1>15, Running DEF EndWork
    <2>2. QED
      BY <1>6, <1>15, <2>1, WorkType DEF EndWork
  <1>16. ASSUME NEW d \in Devs, CleanupEpoch(d)
         PROVE  TypeInv'
    <2> DEFINE k == Work(d).ep
    <2>1. /\ queue[d] # <<>>
          /\ lru_ok' = [lru_ok EXCEPT ![d][k] = FALSE]
          /\ lru' = [lru EXCEPT ![d][k] = <<>>]
          /\ path' = [path EXCEPT ![d][k] = 0]
          /\ Finish(d)
          /\ UNCHANGED <<devvars, epvars, fsvars>>
      BY <1>16 DEF CleanupEpoch
    <2>2. k \in EpochNrs
      BY <2>1, HeadWork
    <2> HIDE DEF k
    <2>3. lru_ok' \in [Devs -> [EpochNrs -> BOOLEAN]]
      BY <1>6, <2>1, <2>2
    <2>4. lru' \in [Devs -> [EpochNrs -> Seq(Blocks)]]
      BY <1>6, <2>1, <2>2, EmptySeq
    <2>5. path' \in [Devs -> [EpochNrs -> Nat]]
      BY <1>6, <2>1, <2>2
    <2>6. \A x \in Devs : \A j \in EpochNrs :
              /\ j > epoch[x] => path'[x][j] = 0
              /\ path'[x][j] <= gen
              /\ path'[x][j] = gen => <<x, date[x][j]>> \in subs
      BY <1>6, <2>1, <2>2
    <2>7. QED
      BY <1>6, <2>1, <2>3, <2>4, <2>5, <2>6, WorkType
  <1>17. CASE UNCHANGED vars
    BY <1>17 DEF vars, TypeInv, TypeOK, EpochsDated, WorksQueued, PathsExist, Work
  <1>18. QED
    BY <1>1, <1>2, <1>3, <1>4, <1>5, <1>7, <1>8, <1>9, <1>10, <1>11, <1>12,
       <1>13, <1>14, <1>15, <1>16, <1>17 DEF Next, WorkNext, Rest

-----------------------------------------------------------------------------
(* What a step does to a device that is not running a work.                *)

Frame(d) ==
    /\ pc'[d] = pc[d] /\ dsnap'[d] = dsnap[d] /\ filp'[d] = filp[d]
    /\ lru'[d] = lru[d] /\ path'[d] = path[d]
    /\ pc[d] # "idle" => Work(d)' = Work(d) /\ Dir(d)' = Dir(d)
    /\ epoch'[d] \in Nat /\ epoch'[d] >= epoch[d]
    /\ \A k \in 1..epoch[d] : date'[d][k] = date[d][k]
    /\ \A t \in Dates : /\ recs'[<<d, t>>] = recs[<<d, t>>]
                        /\ <<d, t>> \in files => <<d, t>> \in files'
    /\ gen' = gen

\* Mounts, umounts and writes leave the running works alone: a work queued
\* behind others changes nothing for the one at the head, and an epoch that
\* begins has a number, and a date, of its own.
LEMMA EnvFrame ==
  ASSUME TypeInv, NEW d \in Devs, NEW x \in Devs,
         \/ Mount(d) \/ Umount(d)
         \/ \E b \in Blocks, v \in Contents : Write(d, b, v)
  PROVE  Frame(x)
  <1> USE DEF devvars, epvars, cachevars, fsvars
  <1>1. /\ UNCHANGED <<lru, path, fsvars, pc, dsnap, filp>>
        /\ \/ UNCHANGED epvars
           \/ Mount(d)
        /\ \/ UNCHANGED queue
           \/ \E w \in SnapWorks \cup CleanupWorks : queue' = [queue EXCEPT ![d] = Append(@, w)]
    <2>1. CASE Mount(d)
      BY <2>1 DEF Mount
    <2>2. CASE Umount(d)
      <3>1. [kind |-> "cleanup", ep |-> epoch[d]] \in SnapWorks \cup CleanupWorks
        BY <2>2 DEF Umount, TypeInv, TypeOK, WorksQueued, EpochNrs, CleanupWorks
      <3>2. QED
        BY <2>2, <3>1 DEF Umount
    <2>3. ASSUME NEW b \in Blocks, NEW v \in Contents, Write(d, b, v)
          PROVE  <1>1!1 /\ <1>1!2 /\ <1>1!3
      <3>1. [kind |-> "snap", blk |-> b, val |-> disk[d][b], ep |-> epoch[d]]
               \in SnapWorks \cup CleanupWorks
        BY <2>3 DEF Write, TypeInv, TypeOK, WorksQueued, EpochNrs, SnapWorks
      <3>2. QED
        BY <2>3, <3>1 DEF Write
    <2>4. QED
      BY <2>1, <2>2, <2>3
  <1>2. pc[x] # "idle" => Work(x)' = Work(x)
    <2>1. pc[x] # "idle" => queue[x] # <<>>
      BY Running
    <2>2. QED
      BY <1>1, <2>1, QueueFacts DEF Work
  <1>3. /\ epoch'[x] \in Nat /\ epoch'[x] >= epoch[x]
        /\ \A k \in 1..epoch[x] : date'[x][k] = date[x][k]
    <2>1. CASE UNCHANGED epvars
      BY <2>1, BoundsAssumption DEF TypeInv, TypeOK
    <2>2. CASE Mount(d)
      <3>1. epoch[x] \in Nat /\ epoch[d] \in Nat /\ epoch[d] + 1 \in EpochNrs
        BY SMTT(30), <2>2, BoundsAssumption DEF Mount, TypeInv, TypeOK, EpochNrs
      <3>2. epoch'[x] = IF x = d THEN epoch[d] + 1 ELSE epoch[x]
        BY <2>2 DEF Mount, TypeInv, TypeOK
      <3>3. PICK t \in {LastDate(d), LastDate(d) + 1} :
               date' = [date EXCEPT ![d][epoch[d] + 1] = t]
        BY <2>2 DEF Mount
      <3>4. ASSUME NEW k \in 1..epoch[x] PROVE date'[x][k] = date[x][k]
        <4>1. ~(x = d /\ k = epoch[d] + 1) /\ k \in EpochNrs
          <5>1. epoch[x] \in 0..MaxEpoch /\ MaxEpoch \in Nat
            BY BoundsAssumption DEF TypeInv, TypeOK
          <5>2. k \in EpochNrs
            BY <5>1 DEF EpochNrs
          <5>3. QED
            BY <3>1, <5>2
        <4>2. date \in [Devs -> [EpochNrs -> Dates]]
          BY DEF TypeInv, TypeOK
        <4>3. CASE x = d
          BY <3>1, <3>3, <4>1, <4>2, <4>3
        <4>4. CASE x # d
          BY <3>3, <4>2, <4>4
        <4>5. QED
          BY <4>3, <4>4
      <3>5. QED
        BY <3>1, <3>2, <3>4
    <2>3. QED
      BY <1>1, <2>1, <2>2
  <1>4. pc[x] # "idle" => Dir(x)' = Dir(x)
    <2>1. pc[x] # "idle" => Work(x).ep \in 1..epoch[x]
      BY Running DEF EpochNrs
    <2>2. QED
      BY <1>2, <1>3, <2>1 DEF Dir
  <1>5. QED
    BY <1>1, <1>2, <1>3, <1>4 DEF Frame

\* The works of one device leave the other devices alone.
LEMMA OtherFrame ==
  ASSUME TypeInv, NEW d \in Devs, WorkNext(d), NEW x \in Devs \ {d}
  PROVE  Frame(x) /\ queue'[x] = queue[x]
  <1> USE DEF devvars, epvars, cachevars, fsvars
  <1>1. /\ UNCHANGED <<devvars, epvars, gen>>
        /\ pc'[x] = pc[x] /\ dsnap'[x] = dsnap[x] /\ filp'[x] = filp[x]
        /\ queue'[x] = queue[x]
    <2> USE DEF TypeInv, TypeOK, Goto, Finish, TakePath
    <2>1. CASE StartWork(d)
      BY <2>1 DEF StartWork
    <2>2. CASE EnsureDir(d) \/ LookupTop(d) \/ LookupSub(d)
      BY ZenonT(30), <2>2 DEF EnsureDir, LookupTop, LookupSub
    <2>3. CASE MkdirTop(d) \/ MkdirSub(d)
      BY SMTT(30), <2>3 DEF MkdirTop, MkdirSub, MkdirFails
    <2>4. CASE OpenFile(d)
      BY <2>4 DEF OpenFile, CreateFile
    <2>5. CASE SearchFile(d) \/ WriteRecord(d)
      BY <2>5 DEF SearchFile, WriteRecord, AppendRecord
    <2>6. CASE AddToLru(d) \/ EndWork(d) \/ CleanupEpoch(d)
      BY <2>6 DEF AddToLru, EndWork, CleanupEpoch
    <2>7. QED
      BY <2>1, <2>2, <2>3, <2>4, <2>5, <2>6 DEF WorkNext
  <1>2. lru'[x] = lru[x] /\ path'[x] = path[x]
    <2>1. \/ UNCHANGED lru
          \/ \E v : lru' = [lru EXCEPT ![d][Work(d).ep] = v]
      BY DEF WorkNext, StartWork, EnsureDir, LookupTop, MkdirTop, LookupSub, MkdirSub,
         OpenFile, SearchFile, WriteRecord, AddToLru, EndWork, CleanupEpoch
    <2>2. \/ UNCHANGED path
          \/ \E v : path' = [path EXCEPT ![d][Work(d).ep] = v]
      BY DEF WorkNext, StartWork, EnsureDir, LookupTop, MkdirTop, TakePath, LookupSub,
         MkdirSub, OpenFile, SearchFile, WriteRecord, AddToLru, EndWork, CleanupEpoch
    <2>3. QED
      BY <2>1, <2>2 DEF TypeInv, TypeOK
  <1>3. \A t \in Dates : recs'[<<x, t>>] = recs[<<x, t>>]
    <2>1. \/ UNCHANGED recs
          \/ \E v : recs' = [recs EXCEPT ![Dir(d)] = v]
      BY DEF WorkNext, StartWork, EnsureDir, LookupTop, MkdirTop, LookupSub, MkdirSub,
         OpenFile, SearchFile, WriteRecord, AppendRecord, AddToLru, EndWork, CleanupEpoch
    <2>2. \A t \in Dates : <<x, t>> # Dir(d) /\ <<x, t>> \in Devs \X Dates
      BY DEF Dir
    <2>3. QED
      BY <2>1, <2>2 DEF TypeInv, TypeOK
  <1>4. files \subseteq files'
    BY DEF WorkNext, StartWork, EnsureDir, LookupTop, MkdirTop, LookupSub, MkdirSub,
       OpenFile, CreateFile, SearchFile, WriteRecord, AddToLru, EndWork, CleanupEpoch
  <1>5. epoch[x] \in Nat
    BY BoundsAssumption DEF TypeInv, TypeOK
  <1>6. QED
    BY <1>1, <1>2, <1>3, <1>4, <1>5 DEF Frame, Work, Dir

-----------------------------------------------------------------------------
(* The cache and the files are kept in order.                              *)

LEMMA FrameKeeps ==
  ASSUME TypeInv, TypeInv', NEW d \in Devs, Frame(d),
         CacheInv(d), FileInv(d), d \in Whole => SavedInv(d)
  PROVE  CacheInv(d)' /\ FileInv(d)' /\ (d \in Whole => SavedInv(d)')
  <1> USE DEF Frame
  <1>1. /\ epoch[d] \in Nat /\ epoch'[d] \in Nat /\ epoch'[d] >= epoch[d]
        /\ EpochNrs \subseteq Nat
        /\ \A k \in 1..epoch'[d] : k \in EpochNrs /\ date'[d][k] \in Dates
    <2>1. epoch[d] \in 0..MaxEpoch /\ epoch'[d] \in 0..MaxEpoch /\ MaxEpoch \in Nat
      BY BoundsAssumption DEF TypeInv, TypeOK
    <2>2. \A k \in 1..epoch'[d] : k \in EpochNrs
      BY <2>1 DEF EpochNrs
    <2>3. date'[d] \in [EpochNrs -> Dates]
      BY DEF TypeInv, TypeOK
    <2>4. epoch'[d] >= epoch[d]
      OBVIOUS
    <2>5. QED
      BY <2>1, <2>2, <2>3, <2>4 DEF EpochNrs
  <1>2. CacheInv(d)'
    <2>1. ASSUME NEW k \in EpochNrs, k > epoch'[d] PROVE lru'[d][k] = <<>>
      BY <1>1, <2>1 DEF CacheInv
    <2>2. pc'[d] \in MissPcs => ~Contains(lru'[d][Work(d)'.ep], Work(d)'.blk)
      BY DEF CacheInv, MissPcs
    <2>3. QED
      BY <2>1, <2>2 DEF CacheInv
  <1>3. FileInv(d)'
    <2>1. \A t \in Dates : recs'[<<d, t>>] # <<>> => <<d, t>> \in files'
      BY DEF FileInv
    <2>2. ASSUME pc'[d] \in OpenPcs
          PROVE  /\ filp'[d].gen \in 1..gen'
                 /\ filp'[d].gen = gen' => Dir(d)' \in files'
      <3>1. pc[d] # "idle" /\ pc[d] \in OpenPcs
        BY <2>2 DEF OpenPcs
      <3>2. PICK t \in Dates : Dir(d) = <<d, t>>
        BY ZenonT(30), <3>1, Running DEF TypeInv, TypeOK
      <3>3. QED
        BY <3>1, <3>2 DEF FileInv
    <2>3. QED
      BY <2>1, <2>2 DEF FileInv
  <1>4. ASSUME SavedInv(d) PROVE SavedInv(d)'
    <2>1. \A t \in Dates : \A i, j \in DOMAIN recs'[<<d, t>>] :
            /\ ~recs'[<<d, t>>][i].cut
            /\ recs'[<<d, t>>][i].blk = recs'[<<d, t>>][j].blk => i = j
      BY <1>4 DEF SavedInv
    <2>2. ASSUME pc'[d] \in OpenPcs, filp'[d].gen = gen'
          PROVE  /\ filp'[d].recs = recs'[Dir(d)']
                 /\ pc'[d] = "write" => ~Has(recs'[Dir(d)'], Work(d)'.blk)
                 /\ pc'[d] = "add" => Has(recs'[Dir(d)'], Work(d)'.blk)
      <3>1. pc[d] # "idle"
        BY <2>2 DEF OpenPcs
      <3>2. PICK t \in Dates : Dir(d) = <<d, t>>
        BY ZenonT(30), <3>1, Running DEF TypeInv, TypeOK
      <3>3. QED
        BY <1>4, <2>2, <3>1, <3>2 DEF SavedInv
    <2>3. ASSUME gen' = 1, NEW k \in 1..epoch'[d], NEW b \in Blocks,
                 Contains(lru'[d][k], b)
          PROVE  Has(recs'[<<d, date'[d][k]>>], b)
      <3>1. k \in 1..epoch[d]
        <4>1. CASE k > epoch[d]
          <5>1. lru[d][k] = <<>>
            BY <1>1, <4>1 DEF CacheInv
          <5>2. QED
            BY <2>3, <5>1, EmptySeq DEF Contains
        <4>2. QED
          BY <1>1, <4>1
      <3>2. date'[d][k] = date[d][k] /\ date[d][k] \in Dates
        BY <1>1, <3>1
      <3>3. QED
        BY <1>4, <2>3, <3>1, <3>2 DEF SavedInv
    <2>4. QED
      BY <2>1, <2>2, <2>3 DEF SavedInv, Has, Dir, Work
  <1>5. QED
    BY <1>2, <1>3, <1>4

LEMMA RemoveKeeps ==
  ASSUME TypeInv, NEW d \in Devs, RemoveSnapshots,
         CacheInv(d), FileInv(d), d \in Whole => SavedInv(d)
  PROVE  CacheInv(d)' /\ FileInv(d)' /\ (d \in Whole => SavedInv(d)')
  <1>1. /\ gen \in Nat \ {0} /\ gen' = gen + 1
        /\ \A n \in Devs \X Dates : recs'[n] = <<>>
        /\ UNCHANGED <<epvars, cachevars, queue, pc, filp>>
    BY DEF RemoveSnapshots, TypeInv, TypeOK, PathsExist
  <1>2. CacheInv(d)'
    BY <1>1 DEF CacheInv, epvars, cachevars, Work
  <1>3. pc[d] \in OpenPcs => filp[d].gen \in 1..gen /\ filp'[d].gen # gen'
    BY <1>1 DEF FileInv
  <1>4. FileInv(d)'
    BY <1>1, <1>3 DEF FileInv
  <1>5. \A t \in Dates : recs'[<<d, t>>] = <<>>
    BY <1>1
  <1>6. SavedInv(d)'
    <2>1. gen' # 1
      BY <1>1
    <2>2. pc'[d] \in OpenPcs => filp'[d].gen # gen'
      BY <1>1, <1>3
    <2>3. \A t \in Dates : \A i \in DOMAIN recs'[<<d, t>>] : FALSE
      BY <1>5, EmptySeq
    <2>4. QED
      BY <2>1, <2>2, <2>3 DEF SavedInv
  <1>7. QED
    BY <1>2, <1>4, <1>6

\* Most steps of a work touch neither the cache nor a record
Quiet(d) ==
    /\ lru'[d] = lru[d] /\ recs' = recs /\ files \subseteq files'
    /\ UNCHANGED <<epvars, gen>>
    /\ pc'[d] \notin OpenPcs
    /\ pc'[d] \in MissPcs => pc[d] \in MissPcs /\ queue' = queue

LEMMA QuietKeeps ==
  ASSUME TypeInv, NEW d \in Devs, Quiet(d),
         CacheInv(d), FileInv(d), d \in Whole => SavedInv(d)
  PROVE  CacheInv(d)' /\ FileInv(d)' /\ (d \in Whole => SavedInv(d)')
  <1>1. CacheInv(d)'
    BY DEF Quiet, CacheInv, Work, epvars
  <1>2. FileInv(d)'
    BY DEF Quiet, FileInv
  <1>3. ASSUME SavedInv(d) PROVE SavedInv(d)'
    BY <1>3 DEF Quiet, SavedInv, epvars
  <1>4. QED
    BY <1>1, <1>2, <1>3

LEMMA LruAddFacts ==
  ASSUME NEW s \in Seq(Blocks), NEW b \in Blocks, Len(s) <= LruMax,
         IsInjective(s), ~Contains(s, b)
  PROVE  /\ Len(LruAdd(s, b)) <= LruMax
         /\ IsInjective(LruAdd(s, b))
         /\ \A x : Contains(LruAdd(s, b), x) => x = b \/ Contains(s, x)
  <1> DEFINE t == Append(s, b)
             u == Tail(t)
  <1>1. Len(s) \in Nat /\ LruMax \in Nat
    BY LenProperties, BoundsAssumption
  <1>2. DOMAIN s = 1..Len(s)
    BY LenProperties
  <1>3. /\ t \in Seq(Blocks) /\ t # <<>>
        /\ Len(t) = Len(s) + 1
        /\ \A i \in 1..Len(s) : t[i] = s[i]
        /\ t[Len(s) + 1] = b
    BY AppendProperties
  <1>4. LruAdd(s, b) = IF Len(t) <= LruMax THEN t ELSE u
    BY DEF LruAdd
  <1> HIDE DEF t
  <1>5. /\ u \in Seq(Blocks)
        /\ Len(u) = Len(t) - 1
        /\ \A i \in 1..Len(u) : u[i] = t[i + 1]
    BY <1>3, HeadTailProperties
  <1> HIDE DEF u
  <1>6. DOMAIN t = 1..Len(t) /\ DOMAIN u = 1..Len(u)
    BY <1>3, <1>5, LenProperties
  <1>7. \A i \in 1..Len(s) : s[i] # b
    BY DEF Contains
  <1>8. \A i, j \in 1..Len(s) : s[i] = s[j] => i = j
    BY <1>2 DEF IsInjective
  <1>9. \A i, j \in 1..Len(t) : t[i] = t[j] => i = j
    <2> SUFFICES ASSUME NEW i \in 1..Len(t), NEW j \in 1..Len(t), t[i] = t[j]
                 PROVE  i = j
      OBVIOUS
    <2>1. i \in 1..Len(s) \/ i = Len(s) + 1
      BY <1>1, <1>3
    <2>2. j \in 1..Len(s) \/ j = Len(s) + 1
      BY <1>1, <1>3
    <2>3. QED
      BY <1>3, <1>7, <1>8, <2>1, <2>2
  <1>10. ASSUME NEW i \in 1..Len(u) PROVE i + 1 \in 1..Len(t)
    BY <1>1, <1>3, <1>5
  <1>11. \A i, j \in 1..Len(u) : u[i] = u[j] => i = j
    BY SMTT(30), <1>1, <1>3, <1>5, <1>9, <1>10
  <1>12. ASSUME NEW x, Contains(t, x) PROVE x = b \/ Contains(s, x)
    <2>1. PICK i \in 1..Len(t) : t[i] = x
      BY <1>12 DEF Contains
    <2>2. i \in 1..Len(s) \/ i = Len(s) + 1
      BY <1>1, <1>3
    <2>3. QED
      BY <1>3, <2>1, <2>2 DEF Contains
  <1>13. ASSUME NEW x, Contains(u, x) PROVE Contains(t, x)
    BY <1>5, <1>10, <1>13 DEF Contains
  <1>14. CASE Len(t) <= LruMax
    BY <1>4, <1>6, <1>9, <1>12, <1>14 DEF IsInjective
  <1>15. CASE ~(Len(t) <= LruMax)
    <2>1. Len(u) <= LruMax
      BY <1>1, <1>3, <1>5
    <2>2. QED
      BY <1>4, <1>6, <1>11, <1>12, <1>13, <1>15, <2>1 DEF IsInjective
  <1>16. QED
    BY <1>14, <1>15

\* A record for a block that the file does not have, and the search of a file
\* without cut records.
LEMMA AppendFacts ==
  ASSUME NEW r \in Seq(Records), NEW x \in Records,
         \A i \in DOMAIN r : ~r[i].cut
  PROVE  /\ Append(r, x) \in Seq(Records)
         /\ DOMAIN r = 1..Len(r) /\ Len(r) \in Nat
         /\ DOMAIN Append(r, x) = 1..(Len(r) + 1)
         /\ \A i \in 1..Len(r) : Append(r, x)[i] = r[i]
         /\ Append(r, x)[Len(r) + 1] = x
         /\ \A b : Has(Append(r, x), b) <=> Has(r, b) \/ x.blk = b
         /\ \A b : FileLookup(r, b) <=> Has(r, b)
  <1> DEFINE t == Append(r, x)
  <1>1. Len(r) \in Nat
    BY LenProperties
  <1>2. DOMAIN r = 1..Len(r)
    BY LenProperties
  <1>3. /\ t \in Seq(Records)
        /\ Len(t) = Len(r) + 1
        /\ \A i \in 1..Len(r) : t[i] = r[i]
        /\ t[Len(r) + 1] = x
    BY AppendProperties
  <1> HIDE DEF t
  <1>4. DOMAIN t = 1..(Len(r) + 1)
    BY <1>3, LenProperties
  <1>5. ASSUME NEW b PROVE Has(t, b) <=> Has(r, b) \/ x.blk = b
    <2>1. \A i : i \in 1..(Len(r) + 1) <=> i \in 1..Len(r) \/ i = Len(r) + 1
      BY <1>1
    <2>2. QED
      BY <1>2, <1>3, <1>4, <2>1 DEF Has
  <1>6. ASSUME NEW b PROVE FileLookup(r, b) <=> Has(r, b)
    <2>1. Visible(r) = DOMAIN r
      <3>1. ASSUME NEW i \in 1..Len(r), NEW j \in 1..(i - 1) PROVE j \in 1..Len(r)
        BY <1>1
      <3>2. QED
        BY <1>2, <3>1 DEF Visible
    <2>2. QED
      BY <2>1 DEF FileLookup, Has
  <1>7. QED
    BY <1>1, <1>2, <1>3, <1>4, <1>5, <1>6 DEF t

\* The steps on the way to the file, and a work that ends, are quiet.
LEMMA DirStepsQuiet ==
  ASSUME TypeInv, NEW d \in Devs,
         \/ EnsureDir(d) \/ LookupTop(d) \/ MkdirTop(d)
         \/ LookupSub(d) \/ MkdirSub(d) \/ EndWork(d)
  PROVE  Quiet(d)
  <1> USE DEF Quiet, devvars, epvars, cachevars, fsvars, OpenPcs, MissPcs, TypeInv,
              TypeOK, Goto, Finish, Pcs
  <1>1. CASE EnsureDir(d)
    BY <1>1 DEF EnsureDir
  <1>2. CASE LookupTop(d)
    BY <1>2 DEF LookupTop
  <1>3. CASE MkdirTop(d)
    BY <1>3 DEF MkdirTop, MkdirFails
  <1>4. CASE LookupSub(d)
    BY <1>4 DEF LookupSub, TakePath
  <1>5. CASE MkdirSub(d)
    BY <1>5 DEF MkdirSub, MkdirFails, TakePath
  <1>6. CASE EndWork(d)
    BY <1>6 DEF EndWork
  <1>7. QED
    BY <1>1, <1>2, <1>3, <1>4, <1>5, <1>6

\* Every step of a work keeps its device's cache and files in order.
LEMMA WorkKeeps ==
  ASSUME TypeInv, TypeInv', NEW d \in Devs, WorkNext(d),
         CacheInv(d), FileInv(d), d \in Whole => SavedInv(d)
  PROVE  CacheInv(d)' /\ FileInv(d)' /\ (d \in Whole => SavedInv(d)')
  <1> DEFINE k == Work(d).ep
             b == Work(d).blk
             n == Dir(d)
  <1>1. CASE \/ EnsureDir(d) \/ LookupTop(d) \/ MkdirTop(d)
             \/ LookupSub(d) \/ MkdirSub(d) \/ EndWork(d)
    BY <1>1, DirStepsQuiet, QuietKeeps
  <1>2. ASSUME pc[d] # "idle"
        PROVE  /\ k \in EpochNrs /\ b \in Blocks /\ Work(d).val \in Contents
               /\ n = <<d, date[d][k]>> /\ date[d][k] \in Dates
               /\ n \in Devs \X Dates /\ recs[n] \in Seq(Records)
    BY ZenonT(30), <1>2, Running DEF TypeInv, TypeOK
  <1>3. /\ lru[d] \in [EpochNrs -> Seq(Blocks)]
        /\ recs \in [Devs \X Dates -> Seq(Records)]
        /\ pc \in [Devs -> Pcs]
        /\ filp \in [Devs -> [gen : Nat, recs : Seq(Records)]]
        /\ epoch[d] \in 0..MaxEpoch /\ MaxEpoch \in Nat
    BY BoundsAssumption DEF TypeInv, TypeOK
  <1>4. CASE StartWork(d)
    <2>1. queue[d] # <<>> /\ Work(d).kind = "snap"
          /\ UNCHANGED <<epvars, fsvars>>
      BY <1>4 DEF StartWork
    <2>2. k \in EpochNrs /\ b \in Blocks
      BY <2>1, HeadWork DEF SnapWorks
    <2>3. \/ Finish(d) /\ UNCHANGED lru
          \/ /\ Contains(lru[d][k], b)
             /\ lru' = [lru EXCEPT ![d][k] = LruTouch(@, b)]
             /\ Finish(d)
          \/ /\ ~Contains(lru[d][k], b)
             /\ Goto(d, "dir")
             /\ UNCHANGED <<lru, queue>>
      BY <1>4 DEF StartWork, cachevars
    <2>4. CASE Finish(d) /\ UNCHANGED lru
      <3>1. Quiet(d)
        BY <1>3, <2>1, <2>4 DEF Quiet, Finish, Goto, fsvars, OpenPcs, MissPcs
      <3>2. QED
        BY <3>1, QuietKeeps
    <2>5. CASE /\ Contains(lru[d][k], b)
               /\ lru' = [lru EXCEPT ![d][k] = LruTouch(@, b)]
               /\ Finish(d)
      <3>1. pc'[d] = "idle"
        BY <1>3, <2>5 DEF Finish, Goto
      <3>2. /\ lru'[d][k] = LruTouch(lru[d][k], b)
            /\ \A j \in EpochNrs : j # k => lru'[d][j] = lru[d][j]
        BY <2>2, <2>5 DEF TypeInv, TypeOK
      <3>3. /\ Len(lru'[d][k]) = Len(lru[d][k])
            /\ \A x : Contains(lru'[d][k], x) => Contains(lru[d][k], x)
            /\ IsInjective(lru[d][k]) => IsInjective(lru'[d][k])
        BY <1>3, <2>2, <2>5, <3>2, Touch
      <3>4. ~(k > epoch[d])
        BY <1>3, <2>1, <2>2, HeadWork DEF EpochNrs
      <3>5. CacheInv(d)'
        <4>1. ASSUME NEW j \in EpochNrs
              PROVE  /\ Len(lru'[d][j]) <= LruMax
                     /\ IsInjective(lru'[d][j])
                     /\ j > epoch[d] => lru'[d][j] = <<>>
          <5>1. CASE j = k
            BY <5>1, <2>2, <3>3, <3>4 DEF CacheInv
          <5>2. CASE j # k
            BY <5>2, <3>2 DEF CacheInv
          <5>3. QED
            BY <5>1, <5>2
        <4>2. QED
          BY <2>1, <3>1, <4>1 DEF CacheInv, MissPcs, epvars
      <3>6. FileInv(d)'
        BY <2>1, <3>1 DEF FileInv, fsvars, OpenPcs
      <3>7. ASSUME SavedInv(d) PROVE SavedInv(d)'
        <4>1. ASSUME gen' = 1, NEW j \in 1..epoch'[d], NEW x \in Blocks,
                     Contains(lru'[d][j], x)
              PROVE  Has(recs'[<<d, date'[d][j]>>], x)
          <5>1. j \in 1..epoch[d] /\ j \in EpochNrs
            BY <1>3, <2>1 DEF epvars, EpochNrs
          <5>2. Contains(lru[d][j], x)
            BY <3>2, <3>3, <4>1, <5>1
          <5>3. QED
            BY <2>1, <3>7, <4>1, <5>1, <5>2 DEF SavedInv, epvars, fsvars
        <4>2. QED
          BY <2>1, <3>1, <3>7, <4>1 DEF SavedInv, fsvars, OpenPcs, Has
      <3>8. QED
        BY <3>5, <3>6, <3>7
    <2>6. CASE /\ ~Contains(lru[d][k], b)
               /\ Goto(d, "dir")
               /\ UNCHANGED <<lru, queue>>
      <3>1. pc'[d] = "dir"
        BY <1>3, <2>6 DEF Goto
      <3>2. CacheInv(d)'
        BY <2>1, <2>6, <3>1 DEF CacheInv, Work, epvars
      <3>3. FileInv(d)'
        BY <2>1, <3>1 DEF FileInv, fsvars, OpenPcs
      <3>4. ASSUME SavedInv(d) PROVE SavedInv(d)'
        BY <2>1, <2>6, <3>1, <3>4 DEF SavedInv, fsvars, epvars, OpenPcs
      <3>5. QED
        BY <3>2, <3>3, <3>4
    <2>7. QED
      BY <2>3, <2>4, <2>5, <2>6
  <1>5. CASE OpenFile(d)
    <2> DEFINE p == path[d][k]
    <2>1. /\ pc[d] = "file"
          /\ UNCHANGED <<epvars, cachevars, gen, recs>>
          /\ \/ /\ p = gen /\ n \in files
                /\ filp' = [filp EXCEPT ![d] = [gen |-> p, recs |-> recs[n]]]
                /\ Goto(d, "lookup")
                /\ UNCHANGED <<queue, files>>
             \/ /\ p = gen /\ n \notin files
                /\ filp' = [filp EXCEPT ![d] = [gen |-> p, recs |-> <<>>]]
                /\ Goto(d, "lookup")
                /\ files' = files \cup {n}
                /\ UNCHANGED queue
             \/ (Finish(d) \/ Goto(d, "fault")) /\ files \subseteq files'
      BY <1>5 DEF OpenFile, CreateFile
    <2>2. /\ k \in EpochNrs /\ n = <<d, date[d][k]>> /\ date[d][k] \in Dates
          /\ n \in Devs \X Dates
      BY <1>2, <2>1
    <2>3. gen \in Nat \ {0}
      BY DEF TypeInv, TypeOK, PathsExist
    <2>4. CASE (Finish(d) \/ Goto(d, "fault")) /\ files \subseteq files'
      <3>1. pc'[d] \in {"idle", "fault"}
        BY <1>3, <2>4 DEF Finish, Goto
      <3>2. Quiet(d)
        BY <2>1, <2>4, <3>1 DEF Quiet, OpenPcs, MissPcs, cachevars
      <3>3. QED
        BY <3>2, QuietKeeps
    <2>5. CASE ~((Finish(d) \/ Goto(d, "fault")) /\ files \subseteq files')
      <3>1. /\ pc'[d] = "lookup" /\ queue' = queue
            /\ files \subseteq files' /\ n \in files'
        BY <1>3, <2>1, <2>5 DEF Goto
      <3>2. filp'[d].gen = gen /\ filp'[d].recs = recs[n]
        BY <1>3, <2>1, <2>2, <2>5 DEF FileInv
      <3>3. Work(d)' = Work(d) /\ Dir(d)' = n
        BY <2>1, <3>1 DEF Work, Dir, epvars
      <3>4. CacheInv(d)'
        BY <2>1, <3>1, <3>3 DEF CacheInv, epvars, cachevars, MissPcs
      <3>5. FileInv(d)'
        BY <2>1, <2>3, <3>1, <3>2, <3>3 DEF FileInv
      <3>6. ASSUME SavedInv(d) PROVE SavedInv(d)'
        BY <2>1, <3>1, <3>2, <3>3, <3>6 DEF SavedInv, epvars, cachevars
      <3>7. QED
        BY <3>4, <3>5, <3>6
    <2>6. QED
      BY <2>4, <2>5
  <1>6. CASE SearchFile(d)
    <2>1. /\ pc[d] = "lookup"
          /\ pc'[d] = IF FileLookup(filp[d].recs, b) THEN "add" ELSE "write"
          /\ UNCHANGED <<epvars, cachevars, queue, fsvars, filp>>
      BY <1>3, <1>6 DEF SearchFile, Goto
    <2>2. Work(d)' = Work(d) /\ Dir(d)' = Dir(d)
      BY <2>1 DEF Work, Dir, epvars
    <2>3. CacheInv(d)'
      BY <2>1, <2>2 DEF CacheInv, MissPcs, epvars, cachevars
    <2>4. FileInv(d)'
      BY <2>1, <2>2 DEF FileInv, OpenPcs, fsvars
    <2>5. ASSUME SavedInv(d) PROVE SavedInv(d)'
      <3>1. ASSUME filp[d].gen = gen
            PROVE  /\ filp[d].recs = recs[n]
                   /\ FileLookup(filp[d].recs, b) <=> Has(recs[n], b)
        <4>1. filp[d].recs = recs[n]
          BY <2>1, <2>5, <3>1 DEF SavedInv, OpenPcs
        <4>2. PICK t \in Dates : n = <<d, t>> /\ recs[n] \in Seq(Records)
          BY <1>2, <2>1
        <4>3. \A i \in DOMAIN recs[n] : ~recs[n][i].cut
          BY <2>5, <4>2 DEF SavedInv
        <4>4. PICK x \in Records : TRUE
          <5>1. [blk |-> b, val |-> Work(d).val, cut |-> FALSE] \in Records
            BY <1>2, <2>1 DEF Records
          <5>2. QED
            BY <5>1
        <4>5. FileLookup(recs[n], b) <=> Has(recs[n], b)
          BY <4>2, <4>3, <4>4, AppendFacts
        <4>6. QED
          BY <4>1, <4>5
      <3>2. pc'[d] = "write" => ~FileLookup(filp[d].recs, b)
        BY <2>1
      <3>3. pc'[d] = "add" => FileLookup(filp[d].recs, b)
        BY <2>1
      <3>4. QED
        BY <2>1, <2>2, <2>5, <3>1, <3>2, <3>3 DEF SavedInv, fsvars, epvars, cachevars
    <2>6. QED
      BY <2>3, <2>4, <2>5
  <1>7. CASE WriteRecord(d)
    <2> DEFINE r(cut) == [blk |-> b, val |-> Work(d).val, cut |-> cut]
    <2>1. /\ pc[d] = "write"
          /\ UNCHANGED <<epvars, cachevars, queue, gen, files>>
          /\ \/ AppendRecord(d, FALSE) /\ pc'[d] = "fput"
             \/ /\ d \notin Whole /\ pc'[d] = "add"
                /\ AppendRecord(d, TRUE) \/ UNCHANGED <<filp, recs>>
      BY <1>3, <1>7 DEF WriteRecord, Goto, Whole
    <2>2. Work(d)' = Work(d) /\ Dir(d)' = Dir(d)
      BY <2>1 DEF Work, Dir, epvars
    <2>3. /\ n = <<d, date[d][k]>> /\ n \in Devs \X Dates /\ date[d][k] \in Dates
          /\ recs[n] \in Seq(Records)
          /\ r(FALSE) \in Records
      BY <1>2, <2>1 DEF Records
    <2>4. CacheInv(d)'
      BY <2>1, <2>2 DEF CacheInv, MissPcs, epvars, cachevars
    <2>5. FileInv(d)'
      <3>1. filp'[d].gen = filp[d].gen
        BY <1>3, <2>1 DEF AppendRecord
      <3>2. filp[d].gen = gen => n \in files
        BY <2>1 DEF FileInv, OpenPcs
      <3>3. \/ recs' = recs
            \/ filp[d].gen = gen /\ \E x : recs' = [recs EXCEPT ![n] = x]
        BY <2>1 DEF AppendRecord
      <3>4. ASSUME NEW t \in Dates, recs'[<<d, t>>] # <<>>
            PROVE  <<d, t>> \in files
        <4>1. CASE recs'[<<d, t>>] = recs[<<d, t>>]
          BY <3>4, <4>1 DEF FileInv
        <4>2. CASE recs'[<<d, t>>] # recs[<<d, t>>]
          BY <1>3, <2>3, <3>2, <3>3, <4>2
        <4>3. QED
          BY <4>1, <4>2
      <3>5. QED
        BY <2>1, <2>2, <3>1, <3>4 DEF FileInv, OpenPcs
    <2>6. ASSUME d \in Whole, SavedInv(d) PROVE SavedInv(d)'
      <3>1. AppendRecord(d, FALSE) /\ pc'[d] = "fput"
        BY <2>1, <2>6
      <3>2. CASE filp[d].gen # gen
        <4>1. recs' = recs
          BY <3>1, <3>2 DEF AppendRecord
        <4>2. QED
          BY <2>1, <2>6, <3>1, <4>1 DEF SavedInv, OpenPcs, epvars, cachevars
      <3>3. CASE filp[d].gen = gen
        <4> DEFINE x == r(FALSE)
        <4>1. /\ recs' = [recs EXCEPT ![n] = Append(@, x)]
              /\ x \in Records /\ x.blk = b /\ x.cut = FALSE
          BY <2>3, <3>1, <3>3 DEF AppendRecord
        <4> HIDE DEF r
        <4>2. ~Has(recs[n], b)
          BY <2>1, <2>6, <3>3 DEF SavedInv, OpenPcs
        <4>3. ASSUME NEW t \in Dates
              PROVE  /\ <<d, t>> = n => recs'[<<d, t>>] = Append(recs[n], x)
                     /\ <<d, t>> # n => recs'[<<d, t>>] = recs[<<d, t>>]
          <5>1. <<d, t>> \in Devs \X Dates
            OBVIOUS
          <5> HIDE DEF n
          <5>2. QED
            BY <1>3, <2>3, <4>1, <5>1
        <4>4. /\ \A i \in DOMAIN recs[n] : ~recs[n][i].cut
              /\ \A i, j \in DOMAIN recs[n] : recs[n][i].blk = recs[n][j].blk => i = j
          BY <2>3, <2>6 DEF SavedInv
        <4>5. /\ DOMAIN recs[n] = 1..Len(recs[n])
              /\ DOMAIN Append(recs[n], x) = 1..(Len(recs[n]) + 1)
              /\ \A i \in 1..Len(recs[n]) : Append(recs[n], x)[i] = recs[n][i]
              /\ Append(recs[n], x)[Len(recs[n]) + 1] = x
              /\ \A c : Has(Append(recs[n], x), c) <=> Has(recs[n], c) \/ x.blk = c
          BY ZenonT(30), <2>3, <4>1, <4>4, AppendFacts
        <4>6. Len(recs[n]) \in Nat
          BY <2>3, LenProperties
        <4>7. /\ \A i \in 1..(Len(recs[n]) + 1) : ~Append(recs[n], x)[i].cut
              /\ \A i, j \in 1..(Len(recs[n]) + 1) :
                    Append(recs[n], x)[i].blk = Append(recs[n], x)[j].blk => i = j
          <5>1. \A i \in 1..(Len(recs[n]) + 1) : i \in 1..Len(recs[n]) \/ i = Len(recs[n]) + 1
            BY <4>6
          <5>2. \A i \in 1..Len(recs[n]) : recs[n][i].blk # b
            BY <4>2, <4>5 DEF Has
          <5>3. QED
            BY <4>1, <4>4, <4>5, <5>1, <5>2
        <4>8. \A t \in Dates : \A i, j \in DOMAIN recs'[<<d, t>>] :
                /\ ~recs'[<<d, t>>][i].cut
                /\ recs'[<<d, t>>][i].blk = recs'[<<d, t>>][j].blk => i = j
          <5> SUFFICES ASSUME NEW t \in Dates
                       PROVE  \A i, j \in DOMAIN recs'[<<d, t>>] :
                                /\ ~recs'[<<d, t>>][i].cut
                                /\ recs'[<<d, t>>][i].blk = recs'[<<d, t>>][j].blk => i = j
            OBVIOUS
          <5>1. CASE <<d, t>> = n
            <6>1. recs'[<<d, t>>] = Append(recs[n], x)
              BY <4>3, <5>1
            <6>2. QED
              BY <4>5, <4>7, <6>1
          <5>2. CASE <<d, t>> # n
            <6>1. recs'[<<d, t>>] = recs[<<d, t>>]
              BY <4>3, <5>2
            <6>2. QED
              BY <2>6, <6>1 DEF SavedInv
          <5>3. QED
            BY <5>1, <5>2
        <4>9. \A t \in Dates, c \in Blocks : Has(recs[<<d, t>>], c) => Has(recs'[<<d, t>>], c)
          <5> SUFFICES ASSUME NEW t \in Dates, NEW c \in Blocks, Has(recs[<<d, t>>], c)
                       PROVE  Has(recs'[<<d, t>>], c)
            OBVIOUS
          <5>1. CASE <<d, t>> = n
            <6>1. recs'[<<d, t>>] = Append(recs[n], x)
              BY <4>3, <5>1
            <6>2. QED
              BY <4>5, <5>1, <6>1
          <5>2. CASE <<d, t>> # n
            <6>1. recs'[<<d, t>>] = recs[<<d, t>>]
              BY <4>3, <5>2
            <6>2. QED
              BY <6>1
          <5>3. QED
            BY <5>1, <5>2
        <4>10. \A j \in 1..epoch[d] : date[d][j] \in Dates
          <5>1. date[d] \in [EpochNrs -> Dates] /\ epoch[d] \in 0..MaxEpoch
            BY DEF TypeInv, TypeOK
          <5>2. \A j \in 1..epoch[d] : j \in EpochNrs
            BY <5>1, BoundsAssumption DEF EpochNrs
          <5>3. QED
            BY <5>1, <5>2
        <4>11. QED
          BY <2>1, <2>6, <3>1, <4>8, <4>9, <4>10 DEF SavedInv, OpenPcs, epvars, cachevars
      <3>4. QED
        BY <3>2, <3>3
    <2>7. QED
      BY <2>4, <2>5, <2>6
  <1>8. CASE AddToLru(d)
    <2>1. /\ pc[d] = "add" /\ pc'[d] = "fput"
          /\ UNCHANGED <<epvars, fsvars, filp>>
          /\ lru' = lru \/ lru' = [lru EXCEPT ![d][k] = LruAdd(@, b)]
      BY <1>3, <1>8 DEF AddToLru, Goto
    <2>2. FileInv(d)'
      BY <2>1 DEF FileInv, OpenPcs, fsvars
    <2>3. CASE lru' = lru
      <3>1. Quiet(d)
        BY <2>1, <2>3 DEF Quiet, OpenPcs, MissPcs, fsvars
      <3>2. QED
        BY <3>1, QuietKeeps
    <2>4. CASE lru' = [lru EXCEPT ![d][k] = LruAdd(@, b)]
      <3>1. /\ k \in EpochNrs /\ b \in Blocks /\ n = <<d, date[d][k]>>
            /\ date[d][k] \in Dates
        BY <1>2, <2>1
      <3>2. /\ lru'[d][k] = LruAdd(lru[d][k], b)
            /\ \A j \in EpochNrs : j # k => lru'[d][j] = lru[d][j]
        BY SMTT(30), <2>4, <3>1 DEF TypeInv, TypeOK
      <3>3. /\ Len(lru'[d][k]) <= LruMax
            /\ IsInjective(lru'[d][k])
            /\ \A x : Contains(lru'[d][k], x) => x = b \/ Contains(lru[d][k], x)
        <4>1. /\ lru[d][k] \in Seq(Blocks) /\ Len(lru[d][k]) <= LruMax
              /\ IsInjective(lru[d][k]) /\ ~Contains(lru[d][k], b)
          BY <1>3, <2>1, <3>1 DEF CacheInv, MissPcs
        <4>2. QED
          BY <3>1, <3>2, <4>1, LruAddFacts
      <3>4. ~(k > epoch[d])
        <4>1. k <= epoch[d] /\ k \in Nat /\ epoch[d] \in Nat
          BY <1>3, <2>1, <3>1, Running DEF EpochNrs
        <4>2. QED
          BY <4>1
      <3>5. CacheInv(d)'
        <4>1. ASSUME NEW j \in EpochNrs
              PROVE  /\ Len(lru'[d][j]) <= LruMax
                     /\ IsInjective(lru'[d][j])
                     /\ j > epoch[d] => lru'[d][j] = <<>>
          <5>1. CASE j = k
            BY <5>1, <3>3, <3>4
          <5>2. CASE j # k
            BY <5>2, <3>2 DEF CacheInv
          <5>3. QED
            BY <5>1, <5>2
        <4>2. QED
          BY <2>1, <4>1 DEF CacheInv, MissPcs, epvars
      <3>6. ASSUME SavedInv(d) PROVE SavedInv(d)'
        <4>1. ASSUME gen' = 1, NEW j \in 1..epoch'[d], NEW x \in Blocks,
                     Contains(lru'[d][j], x)
              PROVE  Has(recs'[<<d, date'[d][j]>>], x)
          <5>1. j \in 1..epoch[d] /\ j \in EpochNrs
            BY <1>3, <2>1 DEF epvars, EpochNrs
          <5>2. Contains(lru[d][j], x) \/ (j = k /\ x = b)
            BY <3>2, <3>3, <4>1, <5>1
          <5>3. CASE Contains(lru[d][j], x)
            BY <2>1, <3>6, <4>1, <5>1, <5>3 DEF SavedInv, epvars, fsvars
          <5>4. CASE j = k /\ x = b
            <6>1. filp[d].gen = gen
              BY <1>3, <2>1, <4>1 DEF FileInv, OpenPcs, fsvars
            <6>2. QED
              BY <2>1, <3>1, <3>6, <5>4, <6>1 DEF SavedInv, OpenPcs, epvars, fsvars
          <5>5. QED
            BY <5>2, <5>3, <5>4
        <4>2. QED
          BY <2>1, <3>6, <4>1 DEF SavedInv, fsvars, OpenPcs, Has
      <3>7. QED
        BY <2>2, <3>5, <3>6
    <2>5. QED
      BY <2>1, <2>3, <2>4
  <1>9. CASE CleanupEpoch(d)
    <2>1. /\ queue[d] # <<>>
          /\ pc'[d] = "idle"
          /\ lru' = [lru EXCEPT ![d][k] = <<>>]
          /\ UNCHANGED <<epvars, fsvars>>
      BY <1>3, <1>9 DEF CleanupEpoch, Finish, Goto
    <2>2. k \in EpochNrs
      BY <2>1, HeadWork
    <2>3. /\ lru'[d][k] = <<>>
          /\ \A j \in EpochNrs : j # k => lru'[d][j] = lru[d][j]
      BY <2>1, <2>2 DEF TypeInv, TypeOK
    <2>4. /\ Len(<<>>) = 0
          /\ \A x : ~Contains(<<>>, x)
          /\ IsInjective(<<>>)
      BY EmptySeq DEF Contains, IsInjective
    <2>5. CacheInv(d)'
      <3>1. ASSUME NEW j \in EpochNrs
            PROVE  /\ Len(lru'[d][j]) <= LruMax
                   /\ IsInjective(lru'[d][j])
                   /\ j > epoch[d] => lru'[d][j] = <<>>
        <4>1. CASE j = k
          BY <4>1, <2>3, <2>4, BoundsAssumption
        <4>2. CASE j # k
          BY <4>2, <2>3 DEF CacheInv
        <4>3. QED
          BY <4>1, <4>2
      <3>2. QED
        BY <2>1, <3>1 DEF CacheInv, MissPcs, epvars
    <2>6. FileInv(d)'
      BY <2>1 DEF FileInv, OpenPcs, fsvars
    <2>7. ASSUME SavedInv(d) PROVE SavedInv(d)'
      <3>1. ASSUME gen' = 1, NEW j \in 1..epoch'[d], NEW x \in Blocks,
                   Contains(lru'[d][j], x)
            PROVE  Has(recs'[<<d, date'[d][j]>>], x)
        <4>1. j \in 1..epoch[d] /\ j \in EpochNrs
          BY <1>3, <2>1 DEF epvars, EpochNrs
        <4>2. Contains(lru[d][j], x)
          BY <2>3, <2>4, <3>1, <4>1
        <4>3. QED
          BY <2>1, <2>7, <3>1, <4>1, <4>2 DEF SavedInv, epvars, fsvars
      <3>2. QED
        BY <2>1, <2>7, <3>1 DEF SavedInv, fsvars, OpenPcs, Has
    <2>8. QED
      BY <2>5, <2>6, <2>7
  <1>10. QED
    BY <1>1, <1>4, <1>5, <1>6, <1>7, <1>8, <1>9 DEF WorkNext

LEMMA DeviceStep == TypeInv /\ TypeInv' /\ DeviceInv /\ [Next]_vars => DeviceInv'
  <1> SUFFICES ASSUME TypeInv, TypeInv', DeviceInv, [Next]_vars, NEW x \in Devs
               PROVE  CacheInv(x)' /\ FileInv(x)' /\ (x \in Whole => SavedInv(x)')
    BY DEF DeviceInv, Whole, CanFail
  <1>1. CacheInv(x) /\ FileInv(x) /\ (x \in Whole => SavedInv(x))
    BY DEF DeviceInv
  <1>2. ASSUME NEW d \in Devs,
               \/ Mount(d) \/ Umount(d)
               \/ \E b \in Blocks, v \in Contents : Write(d, b, v)
        PROVE  CacheInv(x)' /\ FileInv(x)' /\ (x \in Whole => SavedInv(x)')
    BY <1>1, <1>2, EnvFrame, FrameKeeps
  <1>3. ASSUME NEW d \in Devs, WorkNext(d)
        PROVE  CacheInv(x)' /\ FileInv(x)' /\ (x \in Whole => SavedInv(x)')
    <2>1. CASE x = d
      BY <1>1, <1>3, <2>1, WorkKeeps
    <2>2. CASE x # d
      BY <1>1, <1>3, <2>2, OtherFrame, FrameKeeps
    <2>3. QED
      BY <2>1, <2>2
  <1>4. CASE RemoveSnapshots
    BY <1>1, <1>4, RemoveKeeps
  <1>5. CASE UNCHANGED vars
    BY <1>1, <1>5 DEF vars, epvars, cachevars, fsvars, CacheInv, FileInv, SavedInv, Work, Dir
  <1>6. QED
    BY <1>2, <1>3, <1>4, <1>5 DEF Next, Rest

-----------------------------------------------------------------------------
(* The records that can be found in a file, whatever fails.                *)

Distinct(r) == \A i, j \in Visible(r) : r[i].blk = r[j].blk => i = j

\* The search sees as much of the file as a restore does, and what it did not
\* find is still not there when the record is written
OnceInv(d) ==
    /\ \A t \in Dates : Distinct(recs[<<d, t>>])
    /\ pc[d] \in OpenPcs /\ filp[d].gen = gen =>
          /\ filp[d].recs = recs[Dir(d)]
          /\ pc[d] = "write" => ~FileLookup(recs[Dir(d)], Work(d).blk)

\* A record added for a block that the search did not find, and records added
\* behind one that was cut, which nobody finds.
LEMMA DistinctAppend ==
  ASSUME NEW r \in Seq(Records), NEW x \in Records, Distinct(r),
         ~FileLookup(r, x.blk)
  PROVE  Distinct(Append(r, x))
  <1> DEFINE u == Append(r, x)
  <1>1. Len(r) \in Nat /\ DOMAIN r = 1..Len(r)
    BY LenProperties
  <1>2. /\ u \in Seq(Records)
        /\ Len(u) = Len(r) + 1
        /\ \A i \in 1..Len(r) : u[i] = r[i]
        /\ u[Len(r) + 1] = x
    BY AppendProperties
  <1> HIDE DEF u
  <1>3. DOMAIN u = 1..(Len(r) + 1)
    BY <1>2, LenProperties
  <1>4. ASSUME NEW i \in Visible(u) PROVE i \in Visible(r) \/ i = Len(r) + 1
    <2>1. i \in 1..(Len(r) + 1) /\ \A j \in 1..(i - 1) : ~u[j].cut
      BY <1>3 DEF Visible
    <2>2. CASE i \in 1..Len(r)
      <3>1. \A j \in 1..(i - 1) : j \in 1..Len(r)
        BY <1>1, <2>2
      <3>2. \A j \in 1..(i - 1) : ~r[j].cut
        BY <1>2, <2>1, <3>1
      <3>3. QED
        BY <1>1, <2>2, <3>2 DEF Visible
    <2>3. QED
      BY <1>1, <2>1, <2>2
  <1>5. \A i \in Visible(r) : i \in 1..Len(r) /\ r[i].blk # x.blk
    BY <1>1 DEF Visible, FileLookup
  <1>6. ASSUME NEW i \in Visible(u), NEW j \in Visible(u), u[i].blk = u[j].blk
        PROVE  i = j
    BY <1>2, <1>4, <1>5, <1>6 DEF Distinct
  <1>7. QED
    BY <1>6 DEF Distinct, u

LEMMA InitOnce == Init => \A d \in Devs : OnceInv(d)
  <1> SUFFICES ASSUME Init, NEW d \in Devs PROVE OnceInv(d)
    OBVIOUS
  <1>1. \A t \in Dates : recs[<<d, t>>] = <<>>
    BY DEF Init
  <1>2. Distinct(<<>>)
    BY EmptySeq DEF Distinct, Visible
  <1>3. pc[d] = "idle"
    BY DEF Init
  <1>4. QED
    BY <1>1, <1>2, <1>3 DEF OnceInv, OpenPcs

\* A work adds a record, or leaves the files as they are.
LEMMA OnceWork ==
  ASSUME TypeInv, NEW d \in Devs, WorkNext(d), FileInv(d), OnceInv(d)
  PROVE  OnceInv(d)'
  <1> DEFINE k == Work(d).ep
             b == Work(d).blk
             n == Dir(d)
  <1>1. ASSUME recs' = recs, pc'[d] \notin OpenPcs PROVE OnceInv(d)'
    BY <1>1 DEF OnceInv
  <1>2. ASSUME pc[d] # "idle"
        PROVE  /\ k \in EpochNrs /\ b \in Blocks /\ Work(d).val \in Contents
               /\ n = <<d, date[d][k]>> /\ date[d][k] \in Dates
               /\ n \in Devs \X Dates /\ recs[n] \in Seq(Records)
    BY ZenonT(30), <1>2, Running DEF TypeInv, TypeOK
  <1>3. /\ recs \in [Devs \X Dates -> Seq(Records)]
        /\ pc \in [Devs -> Pcs]
        /\ filp \in [Devs -> [gen : Nat, recs : Seq(Records)]]
    BY DEF TypeInv, TypeOK
  <1>4. CASE \/ EnsureDir(d) \/ LookupTop(d) \/ MkdirTop(d)
             \/ LookupSub(d) \/ MkdirSub(d) \/ EndWork(d)
    BY <1>1, <1>4, DirStepsQuiet DEF Quiet
  <1>5. CASE StartWork(d) \/ AddToLru(d) \/ CleanupEpoch(d)
    <2>1. recs' = recs /\ pc'[d] \in {"idle", "dir", "fput"}
      BY <1>3, <1>5 DEF StartWork, AddToLru, CleanupEpoch, Finish, Goto, fsvars
    <2>2. QED
      BY <1>1, <2>1 DEF OpenPcs
  <1>6. CASE OpenFile(d)
    <2>1. /\ pc[d] = "file"
          /\ UNCHANGED <<epvars, gen, recs>>
          /\ \/ /\ n \in files
                /\ filp' = [filp EXCEPT ![d] = [gen |-> gen, recs |-> recs[n]]]
                /\ Goto(d, "lookup")
                /\ UNCHANGED queue
             \/ /\ n \notin files
                /\ filp' = [filp EXCEPT ![d] = [gen |-> gen, recs |-> <<>>]]
                /\ Goto(d, "lookup")
                /\ UNCHANGED queue
             \/ Finish(d) \/ Goto(d, "fault")
      BY <1>6 DEF OpenFile, CreateFile
    <2>2. CASE Finish(d) \/ Goto(d, "fault")
      <3>1. pc'[d] \in {"idle", "fault"}
        BY <1>3, <2>2 DEF Finish, Goto
      <3>2. QED
        BY <1>1, <2>1, <3>1 DEF OpenPcs
    <2>3. CASE ~(Finish(d) \/ Goto(d, "fault"))
      <3>1. pc'[d] = "lookup" /\ queue' = queue
        BY <1>3, <2>1, <2>3 DEF Goto
      <3>2. filp'[d].recs = recs[n]
        BY <1>2, <1>3, <2>1, <2>3 DEF FileInv
      <3>3. Dir(d)' = n
        BY <2>1, <3>1 DEF Work, Dir, epvars
      <3>4. QED
        BY <2>1, <3>1, <3>2, <3>3 DEF OnceInv
    <2>4. QED
      BY <2>2, <2>3
  <1>7. CASE SearchFile(d)
    <2>1. /\ pc[d] = "lookup"
          /\ pc'[d] = IF FileLookup(filp[d].recs, b) THEN "add" ELSE "write"
          /\ UNCHANGED <<epvars, queue, fsvars, filp>>
      BY <1>3, <1>7 DEF SearchFile, Goto
    <2>2. Work(d)' = Work(d) /\ Dir(d)' = n
      BY <2>1 DEF Work, Dir, epvars
    <2>3. filp[d].gen = gen => filp[d].recs = recs[n]
      BY <2>1 DEF OnceInv, OpenPcs
    <2>4. QED
      BY <2>1, <2>2, <2>3 DEF OnceInv, fsvars
  <1>8. CASE WriteRecord(d)
    <2>1. /\ pc[d] = "write" /\ pc'[d] \in {"fput", "add"}
          /\ UNCHANGED <<epvars, queue, gen>>
          /\ \/ \E cut \in BOOLEAN : AppendRecord(d, cut)
             \/ UNCHANGED <<filp, recs>>
      BY <1>3, <1>8 DEF WriteRecord, Goto
    <2>2. Work(d)' = Work(d) /\ Dir(d)' = n
      BY <2>1 DEF Work, Dir, epvars
    <2>3. n \in Devs \X Dates /\ recs[n] \in Seq(Records) /\ n = <<d, date[d][k]>>
          /\ date[d][k] \in Dates
      BY <1>2, <2>1
    <2>4. CASE UNCHANGED <<filp, recs>>
      BY <2>1, <2>2, <2>4 DEF OnceInv, OpenPcs
    <2>5. ASSUME NEW cut \in BOOLEAN, AppendRecord(d, cut) PROVE OnceInv(d)'
      <3> DEFINE x == [blk |-> b, val |-> Work(d).val, cut |-> cut]
      <3>1. x \in Records /\ x.blk = b
        BY <1>2, <2>1 DEF Records
      <3>2. /\ filp' = [filp EXCEPT ![d].recs = Append(@, x)]
            /\ recs' = IF filp[d].gen = gen
                       THEN [recs EXCEPT ![n] = Append(@, x)] ELSE recs
        BY <2>5 DEF AppendRecord
      <3> HIDE DEF x
      <3>3. filp'[d].gen = filp[d].gen /\ filp'[d].recs = Append(filp[d].recs, x)
        BY <1>3, <3>2
      <3>4. CASE filp[d].gen # gen
        BY <2>1, <3>2, <3>3, <3>4 DEF OnceInv
      <3>5. CASE filp[d].gen = gen
        <4>1. filp[d].recs = recs[n] /\ ~FileLookup(recs[n], b) /\ Distinct(recs[n])
          BY <2>1, <2>3, <3>5 DEF OnceInv, OpenPcs
        <4>2. recs' = [recs EXCEPT ![n] = Append(recs[n], x)]
          BY <3>2, <3>5
        <4>3. recs'[n] = Append(recs[n], x) /\ Distinct(recs'[n])
          BY <1>3, <2>3, <3>1, <4>1, <4>2, DistinctAppend
        <4>4. ASSUME NEW t \in Dates PROVE Distinct(recs'[<<d, t>>])
          <5>1. CASE <<d, t>> = n
            BY <4>3, <5>1
          <5>2. CASE <<d, t>> # n
            <6>1. <<d, t>> \in Devs \X Dates /\ Distinct(recs[<<d, t>>])
              BY DEF OnceInv
            <6> HIDE DEF n
            <6>2. recs'[<<d, t>>] = recs[<<d, t>>]
              BY <1>3, <4>2, <5>2, <6>1
            <6>3. QED
              BY <6>1, <6>2
          <5>3. QED
            BY <5>1, <5>2
        <4>5. filp'[d].recs = recs'[n]
          BY <3>3, <4>1, <4>3
        <4>6. QED
          BY <2>1, <2>2, <4>4, <4>5 DEF OnceInv
      <3>6. QED
        BY <3>4, <3>5
    <2>6. QED
      BY <2>1, <2>4, <2>5
  <1>9. QED
    BY <1>4, <1>5, <1>6, <1>7, <1>8 DEF WorkNext

LEMMA OnceFrame ==
  ASSUME TypeInv, NEW d \in Devs, Frame(d), OnceInv(d)
  PROVE  OnceInv(d)'
  <1>1. \A t \in Dates : Distinct(recs'[<<d, t>>])
    BY DEF OnceInv, Frame
  <1>2. ASSUME pc'[d] \in OpenPcs, filp'[d].gen = gen'
        PROVE  /\ filp'[d].recs = recs'[Dir(d)']
               /\ pc'[d] = "write" => ~FileLookup(recs'[Dir(d)'], Work(d)'.blk)
    <2>1. pc[d] # "idle" /\ pc[d] \in OpenPcs /\ filp[d].gen = gen
      BY <1>2 DEF OpenPcs, Frame
    <2>2. PICK t \in Dates : Dir(d) = <<d, t>>
      BY ZenonT(30), <2>1, Running DEF TypeInv, TypeOK
    <2>3. recs'[Dir(d)'] = recs[Dir(d)] /\ Work(d)' = Work(d)
      BY <2>1, <2>2 DEF Frame
    <2>4. filp'[d] = filp[d] /\ pc'[d] = pc[d]
      BY DEF Frame
    <2>5. QED
      BY <2>1, <2>3, <2>4 DEF OnceInv
  <1>3. QED
    BY <1>1, <1>2 DEF OnceInv

LEMMA OnceStep ==
  ASSUME TypeInv, DeviceInv, \A d \in Devs : OnceInv(d), [Next]_vars
  PROVE  \A d \in Devs : OnceInv(d)'
  <1> SUFFICES ASSUME NEW x \in Devs PROVE OnceInv(x)'
    OBVIOUS
  <1>1. ASSUME NEW d \in Devs,
               \/ Mount(d) \/ Umount(d)
               \/ \E b \in Blocks, v \in Contents : Write(d, b, v)
        PROVE  OnceInv(x)'
    BY <1>1, EnvFrame, OnceFrame
  <1>2. ASSUME NEW d \in Devs, WorkNext(d) PROVE OnceInv(x)'
    <2>1. CASE x = d
      BY <1>2, <2>1, OnceWork DEF DeviceInv
    <2>2. CASE x # d
      BY <1>2, <2>2, OtherFrame, OnceFrame
    <2>3. QED
      BY <2>1, <2>2
  <1>3. CASE RemoveSnapshots
    <2>1. /\ gen \in Nat /\ gen' = gen + 1
          /\ \A t \in Dates : recs'[<<x, t>>] = <<>>
          /\ UNCHANGED <<pc, filp>>
      BY <1>3 DEF RemoveSnapshots, TypeInv, TypeOK
    <2>2. pc'[x] \in OpenPcs => filp'[x].gen # gen'
      BY <2>1 DEF DeviceInv, FileInv
    <2>3. Distinct(<<>>)
      BY EmptySeq DEF Distinct, Visible
    <2>4. QED
      BY <2>1, <2>2, <2>3 DEF OnceInv
  <1>4. CASE UNCHANGED vars
    BY <1>4 DEF vars, epvars, fsvars, OnceInv, Work, Dir
  <1>5. QED
    BY <1>1, <1>2, <1>3, <1>4 DEF Next, Rest

-----------------------------------------------------------------------------
(* The theorems.                                                           *)

IInv == TypeInv /\ DeviceInv

LEMMA InitInv == Init => IInv
  <1> SUFFICES ASSUME Init PROVE IInv
    OBVIOUS
  <1>1. MaxEpoch \in Nat /\ 0 \in Dates /\ 0 \in 0..MaxEpoch /\ <<>> \in Seq(Blocks)
        /\ <<>> \in Seq(SnapWorks \cup CleanupWorks) /\ <<>> \in Seq(Records)
        /\ \A k \in EpochNrs : k \in Nat /\ k > 0
    BY BoundsAssumption, EmptySeq DEF Dates, EpochNrs
  <1>2. TypeOK
    BY <1>1 DEF Init, TypeOK, NoFile, Pcs
  <1>3. EpochsDated
    BY <1>1 DEF Init, EpochsDated
  <1>4. WorksQueued
    <2>1. \A d \in Devs : \A i \in 1..Len(queue[d]) : FALSE
      BY EmptySeq DEF Init
    <2>2. QED
      BY <2>1 DEF Init, WorksQueued
  <1>5. PathsExist
    BY DEF Init, PathsExist
  <1>6. ASSUME NEW d \in Devs PROVE CacheInv(d) /\ FileInv(d) /\ SavedInv(d)
    <2>1. /\ Len(<<>>) = 0
          /\ \A x : ~Contains(<<>>, x)
          /\ IsInjective(<<>>)
          /\ DOMAIN <<>> = {}
      BY EmptySeq DEF Contains, IsInjective
    <2>2. \A t \in Dates : recs[<<d, t>>] = <<>>
      BY DEF Init
    <2>3. pc[d] = "idle" /\ epoch[d] = 0
      BY DEF Init
    <2>4. CacheInv(d)
      BY <2>1, <2>3, BoundsAssumption DEF Init, CacheInv, MissPcs
    <2>5. FileInv(d)
      BY <2>2, <2>3 DEF FileInv, OpenPcs
    <2>6. SavedInv(d)
      BY <2>1, <2>2, <2>3 DEF SavedInv, OpenPcs
    <2>7. QED
      BY <2>4, <2>5, <2>6
  <1>7. QED
    BY <1>2, <1>3, <1>4, <1>5, <1>6 DEF IInv, TypeInv, DeviceInv

LEMMA Invariance == Spec => []IInv
  <1>1. IInv /\ [Next]_vars => IInv'
    BY TypeStep, DeviceStep DEF IInv
  <1>2. QED
    BY InitInv, <1>1, PTL DEF Spec

\* TypeOK: every variable has its type, whatever fails.
THEOREM TypeCorrect == Spec => []TypeOK
  <1>1. IInv => TypeOK
    BY DEF IInv, TypeInv
  <1>2. QED
    BY Invariance, <1>1, PTL

\* LruBounded: lru_ng_add evicts one node at most, and a node is added only by
\* the work that has missed it, so the cache stays within its limit and holds
\* no block twice, whatever fails.
THEOREM CachesBounded == Spec => []LruBounded
  <1>1. IInv => LruBounded
    BY DEF IInv, DeviceInv, CacheInv, LruBounded
  <1>2. QED
    BY Invariance, <1>1, PTL

\* OneRecordPerBlock: whatever fails, and whenever /snapshot is removed, no block
\* is twice among the records that can be found in a file.
THEOREM OneRecord == Spec => []OneRecordPerBlock
  <1> DEFINE J == IInv /\ \A d \in Devs : OnceInv(d)
  <1>1. Init => J
    BY InitInv, InitOnce
  <1>2. J /\ [Next]_vars => J'
    BY TypeStep, DeviceStep, OnceStep DEF IInv
  <1>3. J => OneRecordPerBlock
    <2> SUFFICES ASSUME J, NEW n \in files PROVE Distinct(recs[n])
      BY DEF OneRecordPerBlock, Distinct
    <2>1. PICK d \in Devs, t \in Dates : n = <<d, t>>
      BY DEF IInv, TypeInv, TypeOK
    <2>2. QED
      BY <2>1 DEF OnceInv
  <1>4. QED
    BY <1>1, <1>2, <1>3, PTL DEF Spec

\* While nobody removes /snapshot it stays the first one.
LEMMA NeverRemoved ==
  ASSUME MaxRm = 0
  PROVE  Spec => [](gen = 1)
  <1>1. Init => gen = 1
    BY DEF Init
  <1>2. gen = 1 /\ [Next]_vars => (gen = 1)'
    <2> SUFFICES ASSUME gen = 1, [Next]_vars PROVE gen' = 1
      OBVIOUS
    <2>1. ~RemoveSnapshots
      BY DEF RemoveSnapshots
    <2>2. CASE UNCHANGED vars
      BY <2>2 DEF vars, fsvars
    <2>3. ASSUME NEW d \in Devs, WorkNext(d) PROVE gen' = gen
      BY <2>3 DEF fsvars, WorkNext, StartWork, EnsureDir, LookupTop, MkdirTop, LookupSub,
         MkdirSub, OpenFile, SearchFile, WriteRecord, AddToLru, EndWork, CleanupEpoch
    <2>4. ASSUME NEW d \in Devs,
                 \/ Mount(d) \/ Umount(d)
                 \/ \E b \in Blocks, v \in Contents : Write(d, b, v)
          PROVE  gen' = gen
      BY <2>4 DEF fsvars, Mount, Umount, Write
    <2>5. QED
      BY <2>1, <2>2, <2>3, <2>4 DEF Next, Rest
  <1>3. QED
    BY <1>1, <1>2, PTL DEF Spec

\* CachedIsSaved: a block is in the cache only if the file has it, whole,
\* unless the writes of records fail or /snapshot is removed by hand.  (Of the
\* removal the code takes no notice: the LRU keeps the blocks that were in the
\* removed file.)
THEOREM CachedAreSaved ==
  ASSUME "write" \notin Failures, MaxRm = 0
  PROVE  Spec => []CachedIsSaved
  <1>1. IInv /\ gen = 1 => CachedIsSaved
    <2> SUFFICES ASSUME IInv, gen = 1, NEW d \in Devs, NEW k \in 1..epoch[d],
                        NEW b \in Range(lru[d][k])
                 PROVE  \E i \in Visible(File(d, k)) :
                            File(d, k)[i].blk = b /\ ~File(d, k)[i].cut
      BY DEF CachedIsSaved
    <2>1. SavedInv(d)
      BY DEF IInv, DeviceInv, Whole, CanFail
    <2>2. k \in EpochNrs /\ lru[d][k] \in Seq(Blocks)
      <3>1. epoch[d] \in 0..MaxEpoch
        BY DEF IInv, TypeInv, TypeOK
      <3>2. k \in EpochNrs
        BY <3>1, BoundsAssumption DEF EpochNrs
      <3>3. QED
        BY <3>2 DEF IInv, TypeInv, TypeOK
    <2>3. Contains(lru[d][k], b) /\ b \in Blocks
      <3>1. Range(lru[d][k]) = {lru[d][k][i] : i \in 1..Len(lru[d][k])}
        BY <2>2, RangeEquality
      <3>2. \A i \in 1..Len(lru[d][k]) : lru[d][k][i] \in Blocks
        BY <2>2, ElementOfSeq
      <3>3. QED
        BY <3>1, <3>2 DEF Contains
    <2>4. Has(File(d, k), b)
      BY <2>1, <2>3 DEF SavedInv, File
    <2>5. /\ File(d, k) \in Seq(Records)
          /\ \A i \in DOMAIN File(d, k) : ~File(d, k)[i].cut
      <3>1. date[d][k] \in Dates /\ <<d, date[d][k]>> \in Devs \X Dates
        BY <2>2 DEF IInv, TypeInv, TypeOK
      <3>2. QED
        BY <2>1, <3>1 DEF SavedInv, File, IInv, TypeInv, TypeOK
    <2>6. DOMAIN File(d, k) = 1..Len(File(d, k)) /\ Len(File(d, k)) \in Nat
      BY <2>5, LenProperties
    <2>7. Visible(File(d, k)) = DOMAIN File(d, k)
      <3>1. ASSUME NEW i \in 1..Len(File(d, k)), NEW j \in 1..(i - 1)
            PROVE  j \in 1..Len(File(d, k))
        BY <2>6
      <3>2. QED
        BY <2>5, <2>6, <3>1 DEF Visible
    <2>8. QED
      BY <2>4, <2>5, <2>7 DEF Has
  <1>2. QED
    BY Invariance, NeverRemoved, <1>1, PTL

=============================================================================
