----------------------------- MODULE Activation -----------------------------
(***************************************************************************)
(* How the module is set up and taken down (main.c), and how a request to  *)
(* activate or deactivate a device gets from blkdev-activation to the      *)
(* tables: through two files of sysfs, or one character device, the parser *)
(* and the password check of activation.c and passwd.c, and the semaphore  *)
(* of devices.c.                                                           *)
(*                                                                         *)
(* The steps of the set-up are named for what they make: "devices" the     *)
(* tables, "kretprobes" and "kprobes" the probes of SINGLEFILE-FS,         *)
(* "mounts" those of mounts.c, "passwd" the password, then the interface.  *)
(* A request may come in while the set-up is still under way or the        *)
(* module is being removed.  There is one at a time.                       *)
(***************************************************************************)
EXTENDS Registry, Integers, Sequences

CONSTANTS
    MaxLoads,    \* bound: how often the module is loaded
    ReqMajor,    \* a major number was asked for (ACTDEVREQMAJ)
    Sha256       \* the kernel has sha256

ASSUME LoadsAssumption ==
    MaxLoads \in Nat /\ ReqMajor \in BOOLEAN /\ Sha256 \in BOOLEAN

VARIABLES
    iface,       \* how the module was built: "sysfs" or "chrdev"
    phase,       \* what the loader of modules does with it
    todo,        \* steps of the set-up, or of taking down, still to come
    secret,      \* auth_passwd: "none", a "hash", or the "clear" text
    sem,         \* allow_reging_operation_sem: "free" or held for "read"
    req          \* the request inside the module

actvars == <<iface, phase, todo, secret, sem, req>>

Ifaces == {"sysfs", "chrdev"}
Interface == [sysfs |-> <<"activate", "deactivate">>, chrdev |-> <<"chrdev">>]
Steps == {"devices", "kretprobes", "kprobes", "mounts", "passwd"}
            \cup {"activate", "deactivate", "chrdev"}

\* What a request says.  root, right: the caller has euid 0 and knows the
\* password
Ops == {"activate", "deactivate"}
Requests ==
    [pc : {"reg"}, op : Ops, dev : Devs, via : {"node", "image"},
     root : BOOLEAN, right : BOOLEAN]
Answers == [pc : {"answer"}, op : Ops, ans : {"ok", "error", "freed"}]
NoReq == [pc |-> "none"]

ActTypeOK ==
    /\ iface \in Ifaces
    /\ phase \in {"unloaded", "init", "loaded", "undo"}
    /\ todo \in Seq(Steps)
    /\ up \subseteq Steps
    /\ secret \in {"none", "hash", "clear"}
    /\ sem \in {"free", "read"}
    /\ req \in Requests \cup Answers \cup {NoReq}

ActInit ==
    /\ iface \in Ifaces
    /\ phase = "unloaded"
    /\ todo = <<>>
    /\ secret = "none"
    /\ sem = "free"
    /\ req = NoReq

Inside == req.pc # "none"

\* The file a request is in
File == IF iface = "chrdev" THEN "chrdev" ELSE req.op

-----------------------------------------------------------------------------
(* The module is loaded and removed.                                       *)

\* init_blkdev_snapshot_module, the order of the calls
Setups ==
    <<"devices", "kretprobes", "kprobes", "mounts", "passwd">>
        \o Interface[iface]

\* unregister_fssupport_singlefilefs: the kretprobes go first
FsSupport == <<"kretprobes", "kprobes">>

\* Mutant: the probes of mounts.c are forgotten
UndoOfMechanismNoMounts == FsSupport \o <<"devices">>

\* What init_blkdev_snapshot_module undoes when the activation mechanism fails
UndoOfMechanism == <<"mounts">> \o FsSupport \o <<"devices">>

\* What is undone, and in which order, when step s fails
RollBack(s) ==
    CASE s = "devices" -> <<>>
      [] s = "kretprobes" -> <<"devices">>
      [] s = "kprobes" -> <<"kretprobes", "devices">>
      [] s = "mounts" -> FsSupport \o <<"devices">>
      [] s = "passwd" -> UndoOfMechanism
      [] s \in {"activate", "chrdev"} -> <<"passwd">> \o UndoOfMechanism
      [] s = "deactivate" -> <<"activate", "passwd">> \o UndoOfMechanism

\* Mutant: the password goes before the file that is removed last
ExitOrderPasswdFirst ==
    <<"passwd">> \o Interface[iface] \o <<"mounts">> \o FsSupport
        \o <<"devices">>

\* exit_blkdev_snapshot_module, destroy_activation_mechanism
ExitOrder ==
    Interface[iface] \o <<"passwd", "mounts">> \o FsSupport \o <<"devices">>

\* insmod; without a password the module is not loaded
LoadModule ==
    /\ phase = "unloaded"
    /\ loads < MaxLoads
    /\ phase' = "init"
    /\ loads' = loads + 1
    /\ todo' = Setups
    /\ UNCHANGED <<up, active, n, iface, secret, sem, req>>

\* One set-up function returns 0.  setup_passwd keeps the text of the password
\* where there is no sha256
SetupSucceeds ==
    /\ phase = "init" /\ todo # <<>>
    /\ up' = up \cup {Head(todo)}
    /\ \/ Head(todo) = "passwd" /\ secret' = (IF Sha256 THEN "hash" ELSE "clear")
       \/ Head(todo) # "passwd" /\ UNCHANGED secret
    /\ todo' = Tail(todo)
    /\ phase' = IF Len(todo) = 1 THEN "loaded" ELSE "init"
    /\ UNCHANGED <<loads, active, n, iface, sem, req>>

\* One fails: it leaves nothing behind itself
SetupFails ==
    /\ phase = "init" /\ todo # <<>>
    /\ todo' = RollBack(Head(todo))
    /\ phase' = IF todo' = <<>> THEN "unloaded" ELSE "undo"
    /\ UNCHANGED <<regvars, iface, secret, sem, req>>

\* rmmod.  An open character device keeps the module (fops.owner)
StartExit ==
    /\ phase = "loaded"
    /\ iface = "chrdev" => ~Inside
    /\ phase' = "undo"
    /\ todo' = ExitOrder
    /\ UNCHANGED <<regvars, iface, secret, sem, req>>

\* sysfs_remove_file waits for the requests in the file; destroy_devices for
\* the readers of the semaphore
MayUndo(s) ==
    /\ s \in {"activate", "deactivate"} => ~(Inside /\ File = s)
    /\ s = "devices" => sem = "free"

\* unregister_chrdev of the result of register_chrdev, which is 0 when the
\* major number was asked for: then nothing is unregistered
Undone(s) == IF s = "chrdev" /\ ReqMajor THEN {} ELSE {s}

\* One destroy function
UndoStep ==
    LET s == Head(todo) IN
    /\ phase = "undo" /\ todo # <<>>
    /\ MayUndo(s)
    /\ up' = up \ Undone(s)
    /\ secret' = IF s = "passwd" THEN "none" ELSE secret
    /\ IF s = "devices" THEN Remove(active) ELSE UNCHANGED <<active, n>>
    /\ todo' = Tail(todo)
    /\ phase' = IF Len(todo) = 1 THEN "unloaded" ELSE "undo"
    /\ UNCHANGED <<loads, iface, sem, req>>

-----------------------------------------------------------------------------
(* A request.                                                              *)

Answer(op, a) == req' = [pc |-> "answer", op |-> op, ans |-> a]

\* password_cmp: memcmp of the hashes, strcmp of the texts, or the error of a
\* hash that cannot be computed
ENOMEM == 12
PasswordCmp(r) ==
    (IF r.right THEN {0} ELSE {-1, 1})
        \cup (IF secret = "hash" THEN {-ENOMEM} ELSE {})

\* Mutant: a hash that cannot be computed passes for the right one
AuthCheckFailsOpen(r, rv) == r.root /\ rv \notin {-1, 1}

\* auth_check, with what password_cmp returned
AuthCheck(r, rv) == r.root /\ rv = 0

\* activate_snapshot_sysfs_store, deactivate_snapshot_sysfs_store,
\* activation_chrdev_ioctl: the request is copied, parsed (formed: it has the
\* form blkdev-activation gives it) and authenticated, with the password that is
\* there (Layered).  Without memory for the copy the request is refused.  The
\* ioctl reads the length of the request three times; its caller is one that
\* does not change it meanwhile.  Nobody enters a file that is being removed,
\* nor opens the character device of a module that is going
Enter(r, formed) ==
    LET file == IF iface = "chrdev" THEN "chrdev" ELSE r.op IN
    /\ ~Inside
    /\ file \in up
    /\ phase = "undo" => iface = "sysfs" /\ Head(todo) # file
    /\ \/ formed /\ \E rv \in PasswordCmp(r) :
             IF AuthCheck(r, rv) THEN req' = r ELSE Answer(r.op, "error")
       \/ Answer(r.op, "error")
    /\ UNCHANGED <<regvars, iface, phase, todo, secret, sem>>

\* __do_device_reging_operation up to its test of allow_reging_operation
DownRead ==
    /\ req.pc = "reg" /\ sem = "free"
    /\ IF "devices" \in up THEN sem' = "read" /\ UNCHANGED req
       ELSE Answer(req.op, "error") /\ UNCHANGED sem
    /\ UNCHANGED <<regvars, iface, phase, todo, secret>>

\* Mutant: the semaphore is not released when the path does not exist
LookupFailsKeepsSem ==
    /\ req.pc = "reg" /\ sem = "read"
    /\ Answer(req.op, "error")
    /\ UNCHANGED <<regvars, iface, phase, todo, secret, sem>>

\* The path does not exist, is neither a block device nor a regular file, or
\* the loop device cannot be opened
LookupFails ==
    /\ req.pc = "reg" /\ sem = "read"
    /\ Answer(req.op, "error")
    /\ sem' = "free"
    /\ UNCHANGED <<regvars, iface, phase, todo, secret>>

\* get_full_path fails on the name of the image, for want of such a file or of
\* room for its path.  try_to_insert_loop_device then returns what is left in
\* memory that it has freed
FullPathFails ==
    /\ req.pc = "reg" /\ sem = "read"
    /\ req.dev \in Loops
    /\ Answer(req.op, IF req.op = "activate" THEN "freed" ELSE "error")
    /\ sem' = "free"
    /\ UNCHANGED <<regvars, iface, phase, todo, secret>>

\* try_to_insert_*, try_to_remove_*: EEXIST, ENOKEY, ENOMEM or the change
Reging ==
    /\ req.pc = "reg" /\ sem = "read"
    /\ \E k \in PathKeys(req.dev, req.via) :
          \/ Answer(req.op, "error") /\ UNCHANGED <<active, n>>
          \/ /\ req.op = "activate" /\ k \notin active
             /\ Insert(k) /\ Answer(req.op, "ok")
          \/ /\ req.op = "deactivate" /\ k \in active
             /\ Remove({k}) /\ Answer(req.op, "ok")
    /\ sem' = "free"
    /\ UNCHANGED <<up, loads, iface, phase, todo, secret>>

\* The write or the ioctl returns
Leave ==
    /\ req.pc = "answer"
    /\ req' = NoReq
    /\ UNCHANGED <<regvars, iface, phase, todo, secret, sem>>

-----------------------------------------------------------------------------
Loader == SetupSucceeds \/ SetupFails \/ UndoStep
Request == \/ DownRead \/ LookupFails \/ FullPathFails
           \/ Reging \/ Leave

NewRequests ==
    {r \in Requests : r.via = "image" => r.dev \in Loops}

ActNext ==
    \/ LoadModule \/ StartExit \/ Loader \/ Request
    \/ \E r \in NewRequests, formed \in BOOLEAN : Enter(r, formed)

=============================================================================
