---------------------------- MODULE MountProbes -----------------------------
(***************************************************************************)
(* Which calls the probes of mounts.c take for a mount or an umount of a   *)
(* device.  An entry handler decides before the call has done anything     *)
(* whether it is one, and of which device; the return handler counts it if *)
(* the call succeeded.  There is one caller: DeviceEpochs has the races    *)
(* between the handlers.                                                   *)
(*                                                                         *)
(* odd collects the active keys of which the counter may be wrong, for     *)
(* what the code does not count as it should: a mount by mount(2), an      *)
(* umount below /run/systemd, a mount that goes with its name space, an    *)
(* entry handler without memory, a loop device that is misnamed, and a     *)
(* device that is already mounted when it is activated.                    *)
(***************************************************************************)
EXTENDS Registry

CONSTANTS
    Mnts,        \* places where a device can be mounted
    OddCalls,    \* the odd things that may happen
    MaxCount     \* bound: no mount begins that might raise a counter above this

ASSUME MntsAssumption == MaxCount \in Nat /\ NoDev \notin Mnts

VARIABLES
    mnt,         \* the device mounted at a place, or NoDev
    call,        \* the call under way
    odd          \* active keys with a mount or umount that is miscounted

mpvars == <<mnt, call, odd>>

ProbesOn == "mounts" \in up

Kinds == {"none", "attach", "move", "old", "remount", "umount"}

\* A call: the place where it attaches or detaches, the device it mounts, and
\* the key that the entry handler kept, if any, with the load of the module
\* whose handler it was
Call(kind, m, d, key) ==
    [kind |-> kind, m |-> m, dev |-> d, key |-> key,
     load |-> IF key = NoKey THEN 0 ELSE loads, done |-> FALSE]
NoCall == [kind |-> "none", m |-> NoDev, dev |-> NoDev, key |-> NoKey,
           load |-> 0, done |-> FALSE]

MpTypeOK ==
    /\ mnt \in [Mnts -> Devs \cup {NoDev}]
    /\ call \in [kind : Kinds, m : Mnts \cup {NoDev}, dev : Devs \cup {NoDev},
                 key : Keys \cup {NoKey}, load : Nat, done : BOOLEAN]
    /\ odd \subseteq active

MpInit ==
    /\ mnt = [m \in Mnts |-> NoDev]
    /\ call = NoCall
    /\ odd = {}

Pending == call.kind # "none"
MountedDevs == {mnt[m] : m \in Mnts} \ {NoDev}
MountsOf(k) == {m \in Mnts : mnt[m] # NoDev /\ TrueKey(mnt[m]) = k}

\* The keys that a call on device d may be counted under, or should be
KeysOf(d) == {TrueKey(d), MountKey(d)}

\* The call under way is a mount that will be counted under k, and should be
Arriving(k) == /\ call.kind = "attach" /\ call.key = k /\ call.load = loads
               /\ TrueKey(call.dev) = k

\* If k is activated now, there is a mount that its counter misses, or will be
InUse(k) ==
    \/ \E m \in Mnts : /\ mnt[m] # NoDev /\ k \in KeysOf(mnt[m])
                       /\ ~(Arriving(k) /\ m = call.m)
    \/ /\ call.kind \in {"attach", "old", "remount"}
       /\ k \in KeysOf(call.dev) \cup {call.key} /\ ~Arriving(k)

\* What an entry handler keeps in the data of the probe
Hook(key) == IF ProbesOn THEN key ELSE NoKey

\* This is not counted as it should be: the keys concerned are marked
Odd(what, keys) == what \in OddCalls /\ odd' = odd \cup (keys \cap active)

BelowBound(k) == k \in active => n[k] < MaxCount

-----------------------------------------------------------------------------
(* Entry handlers.                                                         *)

\* Mutant: is_root is true of every path
IsRootAlways(attached) == attached \in BOOLEAN

\* is_root: the path of a mount that is not attached anywhere is "/"
IsRoot(attached) == ~attached

\* new_mount_entry_handler on move_mount of what fsmount or open_tree made: a
\* new mount or a clone (mount --bind)
AttachEntry(m, d) ==
    /\ ~Pending
    /\ mnt[m] = NoDev
    /\ BelowBound(MountKey(d))
    /\ \/ /\ call' = Call("attach", m, d, IF IsRoot(FALSE) THEN Hook(MountKey(d))
                                          ELSE NoKey)
          /\ odd' = IF d \in Misnamed THEN odd \cup (KeysOf(d) \cap active)
                    ELSE odd
       \/ /\ Odd("no_memory", KeysOf(d))
          /\ call' = Call("attach", m, d, NoKey)
    /\ UNCHANGED <<regvars, mnt>>

\* The same on mount --move
MoveEntry(m) ==
    /\ ~Pending
    /\ mnt[m] # NoDev
    /\ call' = Call("move", NoDev, NoDev,
                    IF IsRoot(TRUE) THEN Hook(MountKey(mnt[m])) ELSE NoKey)
    /\ UNCHANGED <<regvars, mnt, odd>>

\* old_mount_entry_handler on mount(2).  The path is the mount point, so the
\* device found is the one of the file system around it, if it has one; r10
\* does not hold the flags, which may be taken for those of a new mount
OldMountEntry(m, d, around) ==
    LET found == IF around = NoDev THEN NoKey ELSE Hook(MountKey(around)) IN
    /\ ~Pending
    /\ mnt[m] = NoDev
    /\ BelowBound(found)
    /\ Odd("old", KeysOf(d) \cup {found})
    /\ \E key \in {NoKey, found} : call' = Call("old", m, d, key)
    /\ UNCHANGED <<regvars, mnt>>

\* mount(2) with MS_REMOUNT, whose path is in the file system itself
RemountEntry(m) ==
    LET k == MountKey(mnt[m]) IN
    /\ ~Pending
    /\ mnt[m] # NoDev
    /\ BelowBound(k)
    /\ Odd("old", {k})
    /\ \E key \in {NoKey, Hook(k)} : call' = Call("remount", NoDev, NoDev, key)
    /\ UNCHANGED <<regvars, mnt>>

\* umount_entry_handler.  A mount may be, or may have been moved, below
\* /run/systemd; without memory for d_path it is taken to be elsewhere
UmountEntry(m) ==
    LET k == MountKey(mnt[m]) IN
    /\ ~Pending
    /\ mnt[m] # NoDev
    /\ \/ call' = Call("umount", m, NoDev, Hook(k)) /\ UNCHANGED odd
       \/ call' = Call("umount", m, NoDev, NoKey) /\ Odd("systemd", {k})
    /\ UNCHANGED <<regvars, mnt>>

-----------------------------------------------------------------------------
(* The calls themselves, external.                                         *)

CallSucceeds ==
    /\ Pending /\ ~call.done
    /\ call' = [call EXCEPT !.done = TRUE]
    /\ mnt' = CASE call.kind \in {"attach", "old"} -> [mnt EXCEPT ![call.m] = call.dev]
                [] call.kind = "umount" -> [mnt EXCEPT ![call.m] = NoDev]
                [] OTHER -> mnt
    /\ UNCHANGED <<regvars, odd>>

\* A mount goes away with its name space: no call
Vanish(m) ==
    /\ ~Pending
    /\ mnt[m] # NoDev
    /\ Odd("vanish", KeysOf(mnt[m]))
    /\ mnt' = [mnt EXCEPT ![m] = NoDev]
    /\ UNCHANGED <<regvars, call>>

-----------------------------------------------------------------------------
(* Return handlers.  Those of probes that have been unregistered meanwhile *)
(* do not run.                                                             *)

Counts == call.key # NoKey /\ ProbesOn /\ call.load = loads

\* mount_handler, umount_handler when the call has failed
CallFails ==
    /\ Pending /\ ~call.done
    /\ call' = NoCall
    /\ UNCHANGED <<regvars, odd, mnt>>

\* mount_handler, umount_handler when it has succeeded
CallReturns ==
    /\ Pending /\ call.done
    /\ \/ Counts /\ call.kind = "umount" /\ CountUmount(call.key)
       \/ Counts /\ call.kind # "umount" /\ CountMount(call.key)
       \/ ~Counts /\ UNCHANGED n
    /\ call' = NoCall
    /\ UNCHANGED <<up, loads, active, odd, mnt>>

MountNext ==
    \/ \E m \in Mnts : \/ \E d \in Devs : AttachEntry(m, d)
                       \/ \E d \in Devs, a \in MountedDevs \cup {NoDev} :
                             OldMountEntry(m, d, a)
                       \/ MoveEntry(m) \/ RemountEntry(m) \/ UmountEntry(m)
                       \/ Vanish(m)
    \/ CallFails \/ CallSucceeds \/ CallReturns

=============================================================================
