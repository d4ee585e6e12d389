---------------------------- MODULE SnapshotSpec ----------------------------
(***************************************************************************)
(* What the snapshots of a device promise, without works, caches, files    *)
(* or directories.  The snapshots of a device are a sequence of maps from  *)
(* blocks to contents, one for each second in which an epoch began.  While *)
(* the device is mounted, the first write to a block adds what the block   *)
(* held to the last map; nothing is ever taken from a map or changed in    *)
(* it.                                                                     *)
(*                                                                         *)
(* SnapshotWork, whose works run late, are cut short by a cache and lose   *)
(* what they know when it is evicted, implements this specification.       *)
(***************************************************************************)
EXTENDS Naturals, Sequences

CONSTANTS
    Devs,       \* active devices
    Blocks,     \* blocks of a device
    Contents    \* what a block may hold

VARIABLES
    disk,       \* contents of the devices
    mounted,    \* the device is mounted
    snaps       \* its snapshots, the oldest first

vars == <<disk, mounted, snaps>>

NoBlocks == [b \in {} |-> b]

\* A map with one more block; what it has is kept
WithBlock(m, b, v) ==
    [x \in DOMAIN m \cup {b} |-> IF x \in DOMAIN m THEN m[x] ELSE v]

Init ==
    /\ disk \in [Devs -> [Blocks -> Contents]]
    /\ mounted = [d \in Devs |-> FALSE]
    /\ snaps = [d \in Devs |-> <<>>]

\* An epoch begins with an empty map, or goes on with the map of an epoch
\* that began in the same second
Mount(d) ==
    /\ ~mounted[d]
    /\ mounted' = [mounted EXCEPT ![d] = TRUE]
    /\ \/ snaps' = [snaps EXCEPT ![d] = Append(@, NoBlocks)]
       \/ snaps[d] # <<>> /\ UNCHANGED snaps
    /\ UNCHANGED disk

Umount(d) ==
    /\ mounted[d]
    /\ mounted' = [mounted EXCEPT ![d] = FALSE]
    /\ UNCHANGED <<disk, snaps>>

Write(d, b, v) ==
    /\ mounted[d]
    /\ disk' = [disk EXCEPT ![d][b] = v]
    /\ snaps' = [snaps EXCEPT ![d][Len(snaps[d])] =
                    WithBlock(@, b, disk[d][b])]
    /\ UNCHANGED mounted

Next ==
    \/ \E d \in Devs : Mount(d) \/ Umount(d)
    \/ \E d \in Devs, b \in Blocks, v \in Contents : Write(d, b, v)

Spec == Init /\ [][Next]_vars

=============================================================================
