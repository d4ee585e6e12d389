------------------------------ MODULE Service -------------------------------
(***************************************************************************)
(* The snapshot service seen from outside: the module is loaded and        *)
(* removed, devices are activated and deactivated, and mounted and         *)
(* unmounted.  Activation and MountProbes share the tables of Registry.    *)
(***************************************************************************)
EXTENDS MountProbes, Activation

vars == <<regvars, mpvars, actvars>>

Init == RegInit /\ MpInit /\ ActInit

\* A device that is mounted when it is activated has mounts nobody counted
OddAfter == {k \in active' : IF k \in active THEN k \in odd ELSE InUse(k)}

MountStep == MountNext /\ UNCHANGED actvars
ActStep == ActNext /\ odd' = OddAfter /\ UNCHANGED <<mnt, call>>
Next == MountStep \/ ActStep

\* The loader goes on with what it began, and a request that is inside the
\* module with what it has to do; nobody has to load the module, to make a
\* request or to mount anything
Fairness ==
    /\ WF_vars(Loader /\ odd' = OddAfter /\ UNCHANGED <<mnt, call>>)
    /\ WF_vars(Request /\ odd' = OddAfter /\ UNCHANGED <<mnt, call>>)

Spec == Init /\ [][Next]_vars /\ Fairness

-----------------------------------------------------------------------------
(* Properties.                                                             *)

\* Every variable has its type; n_currently_mounted is never negative, also when
\* an umount is counted whose mount was not (__epoch_event_cb_count_umount).
TypeOK == RegTypeOK /\ MpTypeOK /\ ActTypeOK

\* Between two calls, n_currently_mounted of an active device is the number of
\* its mounts (mount_handler, umount_handler and what their entry handlers
\* decide), whatever was moved, bound or failed, and also when the device was
\* activated, or the module removed and loaded again, while a mount or an umount
\* was between its two handlers; unless one of the things happened that odd
\* stands for
CountMatches ==
    ~Pending => \A k \in active \ odd :
                    "mounts" \in up => n[k] = Cardinality(MountsOf(k))

\* A module that is not loaded, because it was removed or because a step of its
\* set-up failed (init_blkdev_snapshot_module), has left nothing: no probe, no
\* file, no entry, no password, no request inside it
NothingLeft ==
    phase = "unloaded" =>
        up = {} /\ active = {} /\ secret = "none" /\ ~Inside /\ sem = "free"

\* A request inside the module finds the tables, all the probes and the
\* password, also while the set-up is not finished or the module is going
\* (setup_activation_mechanism, destroy_activation_mechanism); and no probe
\* runs without the tables it searches
Layered ==
    /\ Inside => /\ {"devices", "kretprobes", "kprobes", "mounts"} \subseteq up
                 /\ secret # "none"
    /\ {"kretprobes", "kprobes", "mounts"} \cap up # {} => "devices" \in up

\* What the tables list changes when they are destroyed, or by a well-formed
\* request of a caller with euid 0 and the right password, for the device it
\* names; but a request that names the node of a misnamed loop device changes
\* whatever image lo_file_name leads to (get_loop_device_backing_file,
\* get_full_path).  The request is told of success if and only if it made the
\* change, unless it is told what freed memory holds ("freed")
OnlyAsRequested ==
    [][/\ active' # active =>
             \/ phase = "undo" /\ Head(todo) = "devices" /\ active' = {}
             \/ /\ req.pc = "reg" /\ req.root /\ req.right
                /\ \E k \in Keys :
                      /\ \/ k = TrueKey(req.dev)
                         \/ /\ req.dev \in Misnamed /\ req.via = "node"
                            /\ k[1] = "loop" /\ k[2] \in FullPath[LoName[req.dev]]
                      /\ active' = IF req.op = "activate" THEN active \cup {k}
                                   ELSE active \ {k}
       /\ req.pc = "reg" /\ req'.pc = "answer" =>
             (req'.ans = "ok" <=> active' # active)]_vars

\* README, "both of them make the n_currently_mounted counter to increase (if
\* snapshot service is activated for the particular device)": a mount(2) that
\* old_mount_entry_handler took for a new mount is counted for the device that
\* it mounted
OldMountCounted ==
    [][LET k == TrueKey(call.dev) IN
       call.kind = "old" /\ call.done /\ call' = NoCall /\ Counts /\ k \in active
          => n'[k] = n[k] + 1]_vars

\* insmod and rmmod come to an end, whatever requests are inside the module
\* (sysfs_remove_file and destroy_devices wait for them)
LoaderReturns == phase \in {"init", "undo"} ~> phase \in {"loaded", "unloaded"}

=============================================================================
