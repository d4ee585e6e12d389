------------------------------ MODULE Registry ------------------------------
(***************************************************************************)
(* What activation requests and mount probes share: the two hash tables of *)
(* devices.c and the keys they are searched with.                          *)
(*                                                                         *)
(* A device is a block device, known by its number, or a loop device,      *)
(* known by the path of its image.  Two things are called that path: what  *)
(* lo_file_name holds, which is the name given to losetup, cut to 63       *)
(* characters, and what get_full_path makes of a name, which depends on    *)
(* the root and working directory of who asks, and on symbolic links.      *)
(*                                                                         *)
(* An object of a table is reduced to n_currently_mounted of its epoch, 0  *)
(* where there is none; DeviceEpochs has the detail.                       *)
(***************************************************************************)
EXTENDS Naturals, FiniteSets

CONSTANTS
    Devs,     \* devices
    Loops,    \* those that are loop devices
    NoDev,
    Paths,    \* names of files
    Image,    \* the image of each loop device, by its full path
    LoName,   \* lo_file_name of each loop device
    FullPath  \* what get_full_path may give for a name; {}: there is no such file

ASSUME DevsAssumption == Loops \subseteq Devs /\ NoDev \notin Devs
ASSUME PathsAssumption ==
    /\ Image \in [Loops -> Paths] /\ LoName \in [Loops -> Paths]
    /\ FullPath \in [Paths -> SUBSET Paths]
    /\ \A d \in Loops : FullPath[Image[d]] \subseteq {Image[d]}

VARIABLES
    up,       \* what the module has set up
    loads,    \* how often it was loaded
    active,   \* keys in the tables
    n         \* n_currently_mounted

regvars == <<up, loads, active, n>>

Keys == ({"block"} \X (Devs \ Loops)) \cup ({"loop"} \X Paths)
NoKey == <<"none", NoDev>>

RegTypeOK ==
    /\ loads \in Nat
    /\ active \subseteq Keys
    /\ n \in [Keys -> Nat]

RegInit ==
    /\ up = {}
    /\ loads = 0
    /\ active = {}
    /\ n = [k \in Keys |-> 0]

\* The key a device should be known by
TrueKey(d) == IF d \in Loops THEN <<"loop", Image[d]>> ELSE <<"block", d>>

\* lo_file_name is not the path of the image: it was cut, it is relative or it
\* goes through a symbolic link
Misnamed == {d \in Loops : LoName[d] # Image[d]}

\* from_block_device_to_mountinfo: lo_file_name as it is
MountKey(d) == IF d \in Loops THEN <<"loop", LoName[d]>> ELSE <<"block", d>>

\* __do_device_reging_operation and get_full_path: the keys that a request may
\* get to, which names the device node, and so lo_file_name
\* (get_loop_device_backing_file), or the image file
PathKeys(d, via) ==
    IF d \in Loops
    THEN {"loop"} \X FullPath[IF via = "image" THEN Image[d] ELSE LoName[d]]
    ELSE {<<"block", d>>}

\* get_device_data_always: there is an object with this key
GetDeviceData(k) == k \in active

\* __epoch_event_cb_count_mount, __epoch_event_cb_count_umount
CountMount(k) ==
    n' = IF GetDeviceData(k) THEN [n EXCEPT ![k] = @ + 1] ELSE n

\* Mutant: a counter that is 0 is decremented
CountUmountNoFloor(k) ==
    n' = IF GetDeviceData(k) THEN [n EXCEPT ![k] = @ - 1] ELSE n

CountUmount(k) ==
    n' = IF GetDeviceData(k) /\ n[k] > 0 THEN [n EXCEPT ![k] = @ - 1] ELSE n

\* try_to_insert_*
Insert(k) == /\ active' = active \cup {k}
             /\ n' = [n EXCEPT ![k] = 0]

\* try_to_remove_*, and the free functions of the tables
Remove(ks) == /\ active' = active \ ks
              /\ n' = [k \in Keys |-> IF k \in ks THEN 0 ELSE n[k]]

=============================================================================
