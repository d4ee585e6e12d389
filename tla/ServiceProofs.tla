---------------------------- MODULE ServiceProofs ---------------------------
(***************************************************************************)
(* What is proved of Service: its types, that a module that is not loaded  *)
(* leaves nothing, that the parts of the module are there while they are   *)
(* used, that the tables change only as requests say, and that             *)
(* n_currently_mounted is the number of mounts.                            *)
(***************************************************************************)
EXTENDS Service, FiniteSetTheorems, SequenceTheorems, TLAPS

-----------------------------------------------------------------------------
(* The inductive invariant.                                                *)

Basics == {"devices", "kretprobes", "kprobes", "mounts", "passwd"}
Files == {"activate", "deactivate", "chrdev"}
FilesOf(i) == IF i = "sysfs" THEN {"activate", "deactivate"} ELSE {"chrdev"}
Everything == Basics \cup FilesOf(iface)

\* What is set up when step s begins
Before(s) ==
    CASE s = "devices" -> {}
      [] s = "kretprobes" -> {"devices"}
      [] s = "kprobes" -> {"devices", "kretprobes"}
      [] s = "mounts" -> {"devices", "kretprobes", "kprobes"}
      [] s = "passwd" -> {"devices", "kretprobes", "kprobes", "mounts"}
      [] s \in {"activate", "chrdev"} -> Basics
      [] s = "deactivate" -> Basics \cup {"activate"}

\* The steps of s follow on from each other, up to the last
SetupList(s) ==
    \A i \in 1..Len(s) :
        Before(s[i]) \cup {s[i]} =
            IF i < Len(s) THEN Before(s[i + 1]) ELSE Everything

\* No step of s comes twice, the files go first and the tables last
UndoList(s) ==
    /\ \A i, j \in 1..Len(s) : s[i] = s[j] => i = j
    /\ \A i, j \in 1..Len(s) : i < j /\ s[j] \in Files => s[i] \in Files
    /\ \A i \in 1..Len(s) : s[i] = "devices" <=> i = Len(s)

StepsOf(s) == {s[i] : i \in 1..Len(s)}

\* What is set up, and what the loader has still to do
LoaderInv ==
    /\ phase \in {"unloaded", "loaded"} => todo = <<>>
    /\ phase = "unloaded" => up = {}
    /\ phase = "loaded" => up = Everything
    /\ phase = "init" => /\ todo # <<>> /\ SetupList(todo)
                         /\ up = Before(Head(todo))
    /\ phase = "undo" => /\ todo # <<>> /\ UndoList(todo)
                         /\ up = StepsOf(todo)

\* A request is in a file that is there; what it uses is there too
RequestInv ==
    /\ Inside => File \in up
    /\ phase = "undo" /\ iface = "chrdev" => ~Inside
    /\ sem = "read" => req.pc = "reg"
    /\ "passwd" \in up <=> secret # "none"
    /\ up \cap Files # {} => Basics \subseteq up
    /\ active # {} => "devices" \in up
    /\ phase = "init" /\ "mounts" \notin up => active = {}

\* A request that gets to the tables has passed auth_check
AuthInv == req.pc = "reg" => req.root /\ req.right

\* A place has a device mounted or none.  A call that mounts has a place and a
\* device, which is there when the call is done; one that unmounts has a place
\* with a device until then.  A call by move_mount is found under lo_file_name
CallInv ==
    /\ ~Pending => ~call.done
    /\ call.kind \in {"attach", "old"} =>
           /\ call.m \in Mnts /\ call.dev \in Devs
           /\ mnt[call.m] = IF call.done THEN call.dev ELSE NoDev
    /\ call.kind = "umount" =>
           /\ call.m \in Mnts
           /\ ~call.done => /\ mnt[call.m] # NoDev
                            /\ call.key \in {NoKey, MountKey(mnt[call.m])}
    /\ call.kind = "attach" => call.key \in {NoKey, MountKey(call.dev)}
    /\ call.kind = "move" => call.key = NoKey

MountsUp == {m \in Mnts : mnt[m] # NoDev}

\* A misnamed device that is mounted, or being mounted, has no key that is
\* counted right
MisnamedInv ==
    /\ \A m \in MountsUp : mnt[m] \in Misnamed =>
           KeysOf(mnt[m]) \cap active \subseteq odd
    /\ call.kind \in {"attach", "old"} /\ ~call.done /\ call.dev \in Misnamed =>
           KeysOf(call.dev) \cap active \subseteq odd

\* What the return handler of the call under way will do to n[k]
Adds(k) ==
    call.kind \notin {"none", "umount"} /\ call.key = k /\ call.load = loads
Takes(k) ==
    call.kind = "umount" /\ call.key = k /\ call.load = loads

\* The call under way will be counted under k if and only if it should be
CallCounts(k) ==
    Pending /\ ~call.done =>
        /\ Adds(k) <=> call.kind \in {"attach", "old"} /\ TrueKey(call.dev) = k
        /\ Takes(k) <=> call.kind = "umount" /\ TrueKey(mnt[call.m]) = k

\* n[k] when the call under way has returned, if it has done what it had to
AfterReturn(k) ==
    IF call.done /\ Adds(k) THEN n[k] + 1
    ELSE IF call.done /\ Takes(k) /\ n[k] > 0 THEN n[k] - 1
    ELSE n[k]

Balanced(k) == Cardinality(MountsOf(k)) = AfterReturn(k)

CountInv ==
    \A k \in active \ odd :
        "mounts" \in up => CallCounts(k) /\ Balanced(k)

-----------------------------------------------------------------------------
(* The lists of steps.                                                     *)

(* A step put before a list: the file that goes first, or what goes while  *)
(* there is no file left.                                                  *)
LEMMA ConsUndo ==
    ASSUME NEW s \in Seq(Steps), s # <<>>, UndoList(s), NEW x \in Steps \ StepsOf(s),
           x # "devices", x \in Files \/ StepsOf(s) \cap Files = {}
    PROVE  /\ <<x>> \o s \in Seq(Steps) /\ <<x>> \o s # <<>>
           /\ UndoList(<<x>> \o s)
           /\ StepsOf(<<x>> \o s) = {x} \cup StepsOf(s)
  <1> DEFINE t == <<x>> \o s
  <1>1. t \in Seq(Steps) /\ Len(t) = Len(s) + 1 /\ Len(s) \in Nat /\ Len(s) > 0
    OBVIOUS
  <1>2. t[1] = x
    OBVIOUS
  <1>3. \A i \in 2..Len(t) : t[i] = s[i - 1] /\ i - 1 \in 1..Len(s)
    OBVIOUS
  <1>4. StepsOf(t) = {x} \cup StepsOf(s)
    <2>1. ASSUME NEW i \in 1..Len(s)
          PROVE  s[i] = t[i + 1] /\ i + 1 \in 1..Len(t)
      BY <1>1, <1>3
    <2>2. ASSUME NEW i \in 1..Len(t)
          PROVE  t[i] = x \/ \E j \in 1..Len(s) : t[i] = s[j]
      BY <1>1, <1>2, <1>3
    <2>3. 1 \in 1..Len(t)
      BY <1>1
    <2> HIDE DEF t
    <2>4. StepsOf(t) \subseteq {x} \cup StepsOf(s)
      BY <2>2 DEF StepsOf
    <2>5. x \in StepsOf(t)
      BY <1>2, <2>3 DEF StepsOf
    <2>6. StepsOf(s) \subseteq StepsOf(t)
      BY <2>1 DEF StepsOf
    <2>7. QED
      BY <2>4, <2>5, <2>6
  <1>5. \A i \in 2..Len(t) : t[i] \in StepsOf(s)
    BY <1>3 DEF StepsOf
  <1>6. UndoList(t)
    <2> HIDE DEF t
    <2>1. ASSUME NEW i \in 1..Len(t), NEW j \in 1..Len(t), t[i] = t[j]
          PROVE  i = j
      <3>1. CASE i = 1 \/ j = 1
        BY <1>1, <1>2, <1>5, <2>1, <3>1
      <3>2. CASE i \in 2..Len(t) /\ j \in 2..Len(t)
        <4>1. /\ s[i - 1] = s[j - 1] /\ i - 1 \in 1..Len(s) /\ j - 1 \in 1..Len(s)
          BY <1>3, <2>1, <3>2
        <4>2. i - 1 = j - 1
          BY <4>1 DEF UndoList
        <4>3. QED
          BY <4>2
      <3>3. QED
        BY <1>1, <3>1, <3>2
    <2>2. ASSUME NEW i \in 1..Len(t), NEW j \in 1..Len(t), i < j, t[j] \in Files
          PROVE  t[i] \in Files
      <3>1. j \in 2..Len(t)
        BY <1>1, <2>2
      <3>2. CASE i = 1
        BY <1>2, <1>5, <2>2, <3>1, <3>2
      <3>3. CASE i \in 2..Len(t)
        BY SMTT(30), <1>1, <1>3, <2>2, <3>1, <3>3 DEF UndoList
      <3>4. QED
        BY <1>1, <3>2, <3>3
    <2>3. ASSUME NEW i \in 1..Len(t)
          PROVE  t[i] = "devices" <=> i = Len(t)
      BY <1>1, <1>2, <1>3, <2>3 DEF UndoList
    <2>4. QED
      BY <2>1, <2>2, <2>3 DEF UndoList
  <1>7. QED
    BY <1>1, <1>4, <1>6

(* The same for a list whose first step is done. *)
LEMMA TailUndo ==
    ASSUME NEW s \in Seq(Steps), s # <<>>, UndoList(s)
    PROVE  /\ Head(s) \in StepsOf(s) /\ Tail(s) \in Seq(Steps)
           /\ UndoList(Tail(s)) /\ StepsOf(Tail(s)) = StepsOf(s) \ {Head(s)}
           /\ Len(s) = 1 <=> Tail(s) = <<>>
           /\ Len(s) = 1 <=> Head(s) = "devices"
           /\ Head(s) \notin Files => StepsOf(s) \cap Files = {}
  <1> DEFINE t == Tail(s)
  <1>1. /\ t \in Seq(Steps) /\ Len(t) = Len(s) - 1 /\ Len(s) \in Nat /\ Len(s) > 0
        /\ Head(s) = s[1] /\ 1 \in 1..Len(s)
    OBVIOUS
  <1>2. \A i \in 1..Len(t) : t[i] = s[i + 1] /\ i + 1 \in 1..Len(s)
    OBVIOUS
  <1>3. \A i \in 2..Len(s) : s[i] = t[i - 1] /\ i - 1 \in 1..Len(t)
    BY <1>1, <1>2
  <1>4. StepsOf(t) = StepsOf(s) \ {Head(s)}
    <2> HIDE DEF t
    <2>1. ASSUME NEW i \in 1..Len(t)
          PROVE  t[i] \in StepsOf(s) /\ t[i] # Head(s)
      BY <1>1, <1>2 DEF UndoList, StepsOf
    <2>2. ASSUME NEW i \in 1..Len(s), s[i] # Head(s)
          PROVE  s[i] \in StepsOf(t)
      <3>1. i \in 2..Len(s)
        BY <1>1, <2>2
      <3>2. QED
        BY <1>3, <3>1 DEF StepsOf
    <2>3. QED
      BY <2>1, <2>2 DEF StepsOf
  <1>5. UndoList(t)
    <2> HIDE DEF t
    <2>1. ASSUME NEW i \in 1..Len(t), NEW j \in 1..Len(t), t[i] = t[j]
          PROVE  i = j
      BY <1>2, <2>1 DEF UndoList
    <2>2. ASSUME NEW i \in 1..Len(t), NEW j \in 1..Len(t), i < j, t[j] \in Files
          PROVE  t[i] \in Files
      BY <1>2, <2>2 DEF UndoList
    <2>3. ASSUME NEW i \in 1..Len(t)
          PROVE  t[i] = "devices" <=> i = Len(t)
      BY <1>1, <1>2, <2>3 DEF UndoList
    <2>4. QED
      BY <2>1, <2>2, <2>3 DEF UndoList
  <1>6. Len(s) = 1 <=> t = <<>>
    <2> HIDE DEF t
    <2>1. QED
      BY <1>1, EmptySeq
  <1>7. Head(s) \in StepsOf(s) /\ (Len(s) = 1 <=> Head(s) = "devices")
    BY <1>1 DEF UndoList, StepsOf
  <1>8. Head(s) \notin Files => StepsOf(s) \cap Files = {}
    <2>1. ASSUME Head(s) \notin Files, NEW i \in 1..Len(s)
          PROVE  s[i] \notin Files
      <3>1. CASE i = 1
        BY <1>1, <2>1, <3>1
      <3>2. CASE 1 < i
        BY <1>1, <2>1, <3>2 DEF UndoList
      <3>3. QED
        BY <1>1, <3>1, <3>2
    <2>2. QED
      BY <2>1 DEF StepsOf
  <1>9. QED
    BY <1>1, <1>4, <1>5, <1>6, <1>7, <1>8

(* Every list of what is undone when a step fails, and that of the exit,   *)
(* names what is set up.                                                   *)
LEMMA UndoLists ==
    /\ \A s \in Steps \ {"devices"} : /\ RollBack(s) \in Seq(Steps) /\ RollBack(s) # <<>>
                         /\ UndoList(RollBack(s))
                         /\ StepsOf(RollBack(s)) = Before(s)
    /\ iface \in Ifaces =>
          /\ ExitOrder \in Seq(Steps) /\ ExitOrder # <<>>
          /\ UndoList(ExitOrder) /\ StepsOf(ExitOrder) = Everything
  <1> DEFINE G(s, S) == /\ s \in Seq(Steps) /\ s # <<>> /\ UndoList(s)
                        /\ StepsOf(s) = S
  <1>1. ASSUME NEW s, NEW S, G(s, S), NEW x \in Steps \ S,
               x # "devices", x \in Files \/ S \cap Files = {}
        PROVE  G(<<x>> \o s, {x} \cup S)
    BY <1>1, ConsUndo
  <1>2. G(<<"devices">>, {"devices"})
    BY DEF UndoList, StepsOf, Files, Steps
  <1>3. ASSUME NEW a \in Steps, NEW b \in Steps, NEW s \in Seq(Steps)
        PROVE  /\ <<a, b>> \o s = <<a>> \o (<<b>> \o s)
    <2>1. /\ <<a, b>> \in Seq(Steps) /\ <<a>> \in Seq(Steps) /\ <<b>> \in Seq(Steps)
          /\ <<a>> \o <<b>> \in Seq(Steps) /\ Len(<<a>> \o <<b>>) = 2
          /\ (<<a>> \o <<b>>)[1] = a /\ (<<a>> \o <<b>>)[2] = b
          /\ <<a, b>>[1] = a /\ <<a, b>>[2] = b /\ Len(<<a, b>>) = 2
      OBVIOUS
    <2>2. \A i \in 1..2 : <<a, b>>[i] = (<<a>> \o <<b>>)[i]
      BY <2>1
    <2>3. <<a, b>> = <<a>> \o <<b>>
      BY <2>1, <2>2, SeqEqual
    <2>4. (<<a>> \o <<b>>) \o s = <<a>> \o (<<b>> \o s)
      BY <2>1, ConcatAssociative
    <2>5. QED
      BY <2>3, <2>4
  <1>4. ASSUME NEW r \in Seq(Steps), NEW s \in Seq(Steps), NEW t \in Seq(Steps)
        PROVE  (r \o s) \o t = r \o (s \o t)
    BY <1>4, ConcatAssociative
  <1> HIDE DEF G
  <1>5. G(<<"kretprobes">> \o <<"devices">>, {"kretprobes", "devices"})
    BY <1>1, <1>2 DEF Steps, Files
  <1>6. G(<<"kprobes">> \o <<"devices">>, {"kprobes", "devices"})
    BY <1>1, <1>2 DEF Steps, Files
  <1> DEFINE D == <<"devices">>
             F == <<"kretprobes">> \o (<<"kprobes">> \o D)
             M == <<"mounts">> \o F
             P == <<"passwd">> \o M
             A == <<"deactivate">> \o P
  <1>7. G(F, Before("mounts"))
    <2>1. /\ "kretprobes" \in Steps \ {"kprobes", "devices"}
          /\ {"kprobes", "devices"} \cap Files = {}
          /\ Before("mounts") = {"kretprobes"} \cup {"kprobes", "devices"}
      BY DEF Steps, Files, Before
    <2>2. QED
      BY <1>1, <1>6, <2>1
  <1>8. G(M, Before("passwd"))
    <2>1. /\ "mounts" \in Steps \ Before("mounts")
          /\ Before("mounts") \cap Files = {}
          /\ Before("passwd") = {"mounts"} \cup Before("mounts")
      BY DEF Steps, Files, Before
    <2>2. QED
      BY <1>1, <1>7, <2>1
  <1>9. G(P, Basics)
    <2>1. /\ "passwd" \in Steps \ Before("passwd")
          /\ Before("passwd") \cap Files = {}
          /\ Basics = {"passwd"} \cup Before("passwd")
      BY DEF Steps, Files, Before, Basics
    <2>2. QED
      BY <1>1, <1>8, <2>1
  <1>10. ASSUME NEW x \in Files
         PROVE  G(<<x>> \o P, {x} \cup Basics)
    <2>1. x \in Steps \ Basics /\ x # "devices"
      BY DEF Steps, Files, Basics
    <2>2. QED
      BY <1>1, <1>9, <2>1
  <1>11. G(<<"activate">> \o A, Basics \cup {"activate", "deactivate"})
    <2>1. /\ "activate" \in Steps \ ({"deactivate"} \cup Basics) /\ "activate" \in Files
          /\ Basics \cup {"activate", "deactivate"}
                = {"activate"} \cup ({"deactivate"} \cup Basics)
      BY DEF Steps, Files, Basics
    <2>2. G(A, {"deactivate"} \cup Basics)
      BY <1>10 DEF Files
    <2>3. QED
      BY <1>1, <2>1, <2>2
  <1>12. \A x \in Steps : <<x>> \in Seq(Steps)
    OBVIOUS
  <1>13. D \in Seq(Steps) /\ FsSupport \in Seq(Steps)
    BY DEF FsSupport, Steps
  <1>14. F \in Seq(Steps) /\ M \in Seq(Steps) /\ P \in Seq(Steps) /\ A \in Seq(Steps)
    BY <1>7, <1>8, <1>9, <1>10 DEF G, Files
  <1>15. FsSupport \o D = F
    BY ZenonT(40), <1>3, <1>13 DEF FsSupport, Steps
  <1>16. UndoOfMechanism = M
    <2>1. (<<"mounts">> \o FsSupport) \o D = <<"mounts">> \o (FsSupport \o D)
      BY <1>4, <1>12, <1>13 DEF Steps
    <2>2. QED
      BY <1>15, <2>1 DEF UndoOfMechanism
  <1>17. <<"activate", "passwd">> \o M = <<"activate">> \o P
    <2>1. "activate" \in Steps /\ "passwd" \in Steps
      BY DEF Steps
    <2>2. QED
      BY <1>3, <1>14, <2>1
  <1>18. iface \in Ifaces =>
             ExitOrder = IF iface = "sysfs" THEN <<"activate">> \o A ELSE <<"chrdev">> \o P
    <2> SUFFICES ASSUME iface \in Ifaces
                 PROVE  ExitOrder = IF iface = "sysfs" THEN <<"activate">> \o A
                                    ELSE <<"chrdev">> \o P
      OBVIOUS
    <2> DEFINE I == Interface[iface]
    <2>1. /\ I \in Seq(Steps) /\ <<"passwd", "mounts">> \in Seq(Steps)
          /\ I = IF iface = "sysfs" THEN <<"activate", "deactivate">> ELSE <<"chrdev">>
      <3>1. /\ <<"activate", "deactivate">> \in Seq(Steps) /\ <<"chrdev">> \in Seq(Steps)
            /\ <<"passwd", "mounts">> \in Seq(Steps)
        BY DEF Steps
      <3>2. /\ Interface["sysfs"] = <<"activate", "deactivate">>
            /\ Interface["chrdev"] = <<"chrdev">>
        BY DEF Interface
      <3>3. iface = "sysfs" \/ iface = "chrdev"
        BY DEF Ifaces
      <3> HIDE DEF Steps
      <3>4. QED
        BY <3>1, <3>2, <3>3
    <2> HIDE DEF I, D, F, M, P, A
    <2>2. /\ ((I \o <<"passwd", "mounts">>) \o FsSupport) \o D
                = (I \o <<"passwd", "mounts">>) \o (FsSupport \o D)
          /\ (I \o <<"passwd", "mounts">>) \o F = I \o (<<"passwd", "mounts">> \o F)
      <3>1. I \o <<"passwd", "mounts">> \in Seq(Steps)
        BY <2>1
      <3>2. ((I \o <<"passwd", "mounts">>) \o FsSupport) \o D
                = (I \o <<"passwd", "mounts">>) \o (FsSupport \o D)
        BY <1>4, <1>13, <3>1, Zenon
      <3>3. (I \o <<"passwd", "mounts">>) \o F = I \o (<<"passwd", "mounts">> \o F)
        BY <1>4, <1>14, <2>1
      <3>4. QED
        BY <3>2, <3>3
    <2>3. <<"passwd", "mounts">> \o F = P
      <3>1. "passwd" \in Steps /\ "mounts" \in Steps
        BY DEF Steps
      <3>2. QED
        BY <1>3, <1>14, <3>1 DEF P, M
    <2>4. ExitOrder = I \o P
      BY <1>15, <2>2, <2>3 DEF ExitOrder, I, D
    <2>5. <<"activate", "deactivate">> \o P = <<"activate">> \o A
      <3>1. "activate" \in Steps /\ "deactivate" \in Steps
        BY DEF Steps
      <3>2. QED
        BY <1>3, <1>14, <3>1 DEF A
    <2>6. QED
      BY <2>1, <2>4, <2>5
  <1> HIDE DEF D, F, M, P, A
  <1>19. ASSUME NEW s \in Steps \ {"devices"}
         PROVE  G(RollBack(s), Before(s))
    <2>1. CASE s = "kretprobes"
      <3>1. RollBack(s) = D /\ Before(s) = {"devices"}
        BY <2>1 DEF RollBack, Before, D
      <3>2. QED
        BY <1>2, <3>1 DEF D
    <2>2. CASE s = "kprobes"
      <3>1. RollBack(s) = <<"kretprobes">> \o D /\ Before(s) = {"kretprobes", "devices"}
        BY <2>2 DEF RollBack, Before, D
      <3>2. QED
        BY <1>5, <3>1 DEF D
    <2>3. CASE s = "mounts"
      <3>1. RollBack(s) = F
        BY <1>15, <2>3 DEF RollBack, D
      <3>2. QED
        BY <1>7, <2>3, <3>1
    <2>4. CASE s = "passwd"
      <3>1. RollBack(s) = M
        BY <1>16, <2>4 DEF RollBack
      <3>2. QED
        BY <1>8, <2>4, <3>1
    <2>5. CASE s \in {"activate", "chrdev"}
      <3>1. RollBack(s) = P /\ Before(s) = Basics
        BY <1>16, <2>5 DEF RollBack, Before, P
      <3>2. QED
        BY <1>9, <3>1
    <2>6. CASE s = "deactivate"
      <3>1. RollBack(s) = <<"activate">> \o P /\ Before(s) = {"activate"} \cup Basics
        BY <1>16, <1>17, <2>6 DEF RollBack, Before
      <3>2. QED
        BY <1>10, <3>1 DEF Files
    <2>7. QED
      BY <2>1, <2>2, <2>3, <2>4, <2>5, <2>6 DEF Steps
  <1>20. ASSUME iface \in Ifaces
         PROVE  G(ExitOrder, Everything)
    <2>1. CASE iface = "sysfs"
      <3>1. ExitOrder = <<"activate">> \o A
            /\ Everything = Basics \cup {"activate", "deactivate"}
        BY <1>18, <1>20, <2>1 DEF Everything, FilesOf
      <3>2. QED
        BY <1>11, <3>1
    <2>2. CASE iface = "chrdev"
      <3>1. ExitOrder = <<"chrdev">> \o P /\ Everything = {"chrdev"} \cup Basics
        BY <1>18, <1>20, <2>2 DEF Everything, FilesOf
      <3>2. QED
        BY <1>10, <3>1 DEF Files
    <2>3. QED
      BY <1>20, <2>1, <2>2 DEF Ifaces
  <1>21. QED
    BY <1>19, <1>20 DEF G

(* The set-up begins with nothing, and each of its steps with what the     *)
(* steps before it have made.                                              *)
LEMMA SetupLists ==
    ASSUME iface \in Ifaces
    PROVE  /\ Setups \in Seq(Steps) /\ Setups # <<>>
           /\ SetupList(Setups) /\ Before(Head(Setups)) = {}
  <1> DEFINE B == <<"devices", "kretprobes", "kprobes", "mounts", "passwd">>
             I == Interface[iface]
  <1>1. /\ B \in Seq(Steps) /\ Len(B) = 5
        /\ B[1] = "devices" /\ B[2] = "kretprobes" /\ B[3] = "kprobes"
        /\ B[4] = "mounts" /\ B[5] = "passwd"
    BY DEF Steps
  <1>2. /\ I \in Seq(Steps)
        /\ \/ iface = "sysfs" /\ Len(I) = 2 /\ I[1] = "activate" /\ I[2] = "deactivate"
           \/ iface = "chrdev" /\ Len(I) = 1 /\ I[1] = "chrdev"
    <2>1. /\ <<"activate", "deactivate">> \in Seq(Steps) /\ <<"chrdev">> \in Seq(Steps)
      BY DEF Steps
    <2>2. /\ Interface["sysfs"] = <<"activate", "deactivate">>
          /\ Interface["chrdev"] = <<"chrdev">>
      BY DEF Interface
    <2>3. iface = "sysfs" \/ iface = "chrdev"
      BY DEF Ifaces
    <2>4. CASE iface = "sysfs"
      <3>1. I = <<"activate", "deactivate">>
        BY <2>2, <2>4
      <3> HIDE DEF I
      <3>2. QED
        BY <2>1, <2>4, <3>1
    <2>5. CASE iface = "chrdev"
      <3>1. I = <<"chrdev">>
        BY <2>2, <2>5
      <3> HIDE DEF I
      <3>2. QED
        BY <2>1, <2>5, <3>1
    <2>6. QED
      BY <2>3, <2>4, <2>5
  <1> DEFINE s == Setups
  <1>3. /\ s \in Seq(Steps) /\ Len(s) = 5 + Len(I)
        /\ \A i \in 1..5 : s[i] = B[i]
        /\ \A i \in 1..Len(I) : s[5 + i] = I[i]
    <2> HIDE DEF B, I
    <2>1. s = B \o I
      BY DEF Setups, B, I
    <2>2. /\ B \o I \in Seq(Steps) /\ Len(B \o I) = Len(B) + Len(I)
          /\ \A i \in 1..Len(B) + Len(I) : 
                (B \o I)[i] = IF i <= Len(B) THEN B[i] ELSE I[i - Len(B)]
      BY <1>1, <1>2, ConcatProperties
    <2> HIDE DEF s
    <2>3. Len(I) \in Nat
      BY <1>2
    <2>4. QED
      BY <1>1, <2>1, <2>2, <2>3
  <1>4. /\ s[1] = "devices" /\ s[2] = "kretprobes" /\ s[3] = "kprobes"
        /\ s[4] = "mounts" /\ s[5] = "passwd"
        /\ \/ /\ iface = "sysfs" /\ Len(s) = 7
              /\ s[6] = "activate" /\ s[7] = "deactivate"
           \/ iface = "chrdev" /\ Len(s) = 6 /\ s[6] = "chrdev"
    <2> HIDE DEF s, B, I
    <2>1. /\ s[1] = "devices" /\ s[2] = "kretprobes" /\ s[3] = "kprobes"
          /\ s[4] = "mounts" /\ s[5] = "passwd"
      BY <1>1, <1>3
    <2>2. CASE iface = "sysfs"
      <3>0. Len(I) = 2 /\ 1 \in 1..Len(I) /\ 2 \in 1..Len(I)
        BY <1>2, <2>2
      <3>1. Len(I) = 2 /\ s[5 + 1] = I[1] /\ s[5 + 2] = I[2]
        BY <1>3, <3>0, Zenon
      <3>2. QED
        BY <1>2, <1>3, <2>1, <2>2, <3>1
    <2>3. CASE iface = "chrdev"
      <3>0. Len(I) = 1 /\ 1 \in 1..Len(I)
        BY <1>2, <2>3
      <3>1. Len(I) = 1 /\ s[5 + 1] = I[1]
        BY <1>3, <3>0, Zenon
      <3>2. QED
        BY <1>2, <1>3, <2>1, <2>3, <3>1
    <2>4. QED
      BY <1>2, <2>2, <2>3
  <1>5. s # <<>> /\ Head(s) = "devices"
    <2> HIDE DEF s, I
    <2>1. s # <<>>
      <3>1. Len(s) # 0 /\ Len(<<>>) = 0
        BY <1>4
      <3>2. QED
        BY <3>1
    <2>2. Head(s) = s[1]
      BY <1>3, <2>1
    <2>3. QED
      BY <1>4, <2>1, <2>2
  <1>6. /\ Before("devices") = {} /\ Before("kretprobes") = {"devices"}
        /\ Before("kprobes") = {"devices", "kretprobes"}
        /\ Before("mounts") = {"devices", "kretprobes", "kprobes"}
        /\ Before("passwd") = {"devices", "kretprobes", "kprobes", "mounts"}
        /\ Before("activate") = Basics /\ Before("chrdev") = Basics
        /\ Before("deactivate") = Basics \cup {"activate"}
    BY DEF Before
  <1>7. /\ Before(s[1]) \cup {s[1]} = Before(s[2])
        /\ Before(s[2]) \cup {s[2]} = Before(s[3])
        /\ Before(s[3]) \cup {s[3]} = Before(s[4])
        /\ Before(s[4]) \cup {s[4]} = Before(s[5])
        /\ Before(s[5]) \cup {s[5]} = Basics
    <2> HIDE DEF s
    <2>1. Before("passwd") \cup {"passwd"} = Basics
      BY <1>6 DEF Basics
    <2>2. /\ {} \cup {"devices"} = {"devices"}
          /\ {"devices"} \cup {"kretprobes"} = {"devices", "kretprobes"}
          /\ {"devices", "kretprobes"} \cup {"kprobes"}
                = {"devices", "kretprobes", "kprobes"}
          /\ {"devices", "kretprobes", "kprobes"} \cup {"mounts"}
                = {"devices", "kretprobes", "kprobes", "mounts"}
      OBVIOUS
    <2>3. QED
      BY <1>4, <1>6, <2>1, <2>2
  <1>8. ASSUME NEW i \in 1..Len(s)
        PROVE  Before(s[i]) \cup {s[i]} =
                   IF i < Len(s) THEN Before(s[i + 1]) ELSE Everything
    <2> HIDE DEF s
    <2>1. CASE i \in {1, 2, 3, 4}
      <3>1. i < Len(s) /\ i + 1 \in {2, 3, 4, 5}
        BY <1>4, <2>1
      <3>2. Before(s[i]) \cup {s[i]} = Before(s[i + 1])
        BY <1>7, <2>1
      <3>3. QED
        BY <3>1, <3>2
    <2>2. CASE i = 5
      BY <1>4, <1>6, <1>7, <2>2
    <2>3. CASE i = 6 /\ iface = "sysfs"
      <3>1. Before(s[6]) \cup {s[6]} = Before(s[7]) /\ Len(s) = 7
        BY <1>4, <1>6, <2>3
      <3>2. QED
        BY <1>4, <2>3, <3>1
    <2>4. CASE i = 7 /\ iface = "sysfs"
      <3>1. Before("deactivate") \cup {"deactivate"} = Everything
        BY <1>6, <2>4 DEF Everything, FilesOf
      <3>2. s[i] = "deactivate" /\ i = Len(s)
        BY <1>4, <2>4
      <3>3. QED
        BY <3>1, <3>2
    <2>5. CASE i = 6 /\ iface = "chrdev"
      <3>1. Before("chrdev") \cup {"chrdev"} = Everything
        BY <1>6, <2>5 DEF Everything, FilesOf
      <3>2. s[i] = "chrdev" /\ i = Len(s)
        BY <1>4, <2>5
      <3>3. QED
        BY <3>1, <3>2
    <2>6. QED
      BY <1>4, <2>1, <2>2, <2>3, <2>4, <2>5
  <1>9. QED
    BY <1>3, <1>5, <1>6, <1>8 DEF SetupList

LEMMA TailSetup ==
    ASSUME NEW s \in Seq(Steps), s # <<>>, SetupList(s)
    PROVE  /\ Head(s) \in Steps /\ Tail(s) \in Seq(Steps) /\ SetupList(Tail(s))
           /\ Len(s) = 1 <=> Tail(s) = <<>>
           /\ Before(Head(s)) \cup {Head(s)} =
                  IF Len(s) = 1 THEN Everything ELSE Before(Head(Tail(s)))
  <1> DEFINE t == Tail(s)
  <1>1. /\ t \in Seq(Steps) /\ Len(t) = Len(s) - 1 /\ Len(s) \in Nat /\ Len(s) > 0
        /\ Head(s) = s[1] /\ 1 \in 1..Len(s) /\ Head(s) \in Steps
    OBVIOUS
  <1>2. \A i \in 1..Len(t) : t[i] = s[i + 1] /\ i + 1 \in 1..Len(s)
    OBVIOUS
  <1>3. Len(s) = 1 <=> t = <<>>
    <2> HIDE DEF t
    <2>1. QED
      BY <1>1, EmptySeq
  <1>4. Len(s) # 1 => Head(t) = s[2]
    <2> HIDE DEF t
    <2>1. QED
      BY <1>1, <1>2, <1>3
  <1>5. SetupList(t)
    <2> HIDE DEF t
    <2>1. ASSUME NEW i \in 1..Len(t)
          PROVE  Before(t[i]) \cup {t[i]} =
                     IF i < Len(t) THEN Before(t[i + 1]) ELSE Everything
      <3>1. Before(s[i + 1]) \cup {s[i + 1]} =
                IF i + 1 < Len(s) THEN Before(s[i + 1 + 1]) ELSE Everything
        BY <1>2 DEF SetupList
      <3>2. CASE i < Len(t)
        <4>1. t[i] = s[i + 1] /\ t[i + 1] = s[i + 1 + 1] /\ i + 1 < Len(s)
          BY <1>1, <1>2, <3>2
        <4>2. QED
          BY <3>1, <3>2, <4>1
      <3>3. CASE ~(i < Len(t))
        <4>1. t[i] = s[i + 1] /\ ~(i + 1 < Len(s))
          BY <1>1, <1>2, <3>3
        <4>2. QED
          BY <3>1, <3>3, <4>1
      <3>4. QED
        BY <3>2, <3>3
    <2>2. QED
      BY <2>1 DEF SetupList
  <1>6. Before(s[1]) \cup {s[1]} = IF 1 < Len(s) THEN Before(s[1 + 1]) ELSE Everything
    BY <1>1 DEF SetupList
  <1>7. Before(Head(s)) \cup {Head(s)} =
            IF Len(s) = 1 THEN Everything ELSE Before(Head(t))
    <2> HIDE DEF t
    <2>1. QED
      BY <1>1, <1>4, <1>6
  <1>8. QED
    BY <1>1, <1>3, <1>5, <1>7


-----------------------------------------------------------------------------
(* Types, and what holds however the module was built.                     *)

IInv == TypeOK /\ AuthInv /\ CallInv

\* The keys that a request may change
Asked(d, via, k) ==
    \/ k = TrueKey(d)
    \/ d \in Misnamed /\ via = "node" /\ k[1] = "loop" /\ k[2] \in FullPath[LoName[d]]

(* The keys of a device. *)
LEMMA KeyFacts ==
    /\ NoKey \notin Keys
    /\ \A d \in Devs : /\ TrueKey(d) \in Keys
                       /\ MountKey(d) \in Keys
                       /\ d \notin Misnamed <=> MountKey(d) = TrueKey(d)
    /\ \A d \in Devs, via \in {"node", "image"} :
           \A k \in PathKeys(d, via) : k \in Keys /\ Asked(d, via, k)
  <1>1. NoKey \notin Keys
    BY DEF NoKey, Keys
  <1>2. ASSUME NEW d \in Devs
        PROVE  /\ TrueKey(d) \in Keys
               /\ MountKey(d) \in Keys
               /\ d \notin Misnamed <=> MountKey(d) = TrueKey(d)
    <2>1. CASE d \in Loops
      <3>1. Image[d] \in Paths /\ LoName[d] \in Paths
        BY <2>1, PathsAssumption
      <3>2. QED
        BY <2>1, <3>1 DEF TrueKey, MountKey, Keys, Misnamed
    <2>2. CASE d \notin Loops
      BY <2>2 DEF TrueKey, MountKey, Keys, Misnamed
    <2>3. QED
      BY <2>1, <2>2
  <1>3. ASSUME NEW d \in Devs, NEW via \in {"node", "image"}, NEW k \in PathKeys(d, via)
        PROVE  k \in Keys /\ Asked(d, via, k)
    <2>1. CASE d \notin Loops
      BY <2>1, <1>3 DEF PathKeys, TrueKey, Keys, Asked
    <2>2. CASE d \in Loops
      <3> DEFINE name == IF via = "image" THEN Image[d] ELSE LoName[d]
      <3>1. /\ name \in Paths /\ FullPath[name] \subseteq Paths
            /\ FullPath[Image[d]] \subseteq {Image[d]}
        BY <2>2, PathsAssumption
      <3>2. PICK p \in FullPath[name] : k = <<"loop", p>>
        BY <1>3, <2>2 DEF PathKeys
      <3>3. k \in Keys
        BY <3>1, <3>2 DEF Keys
      <3>4. CASE name = Image[d]
        BY <2>2, <3>1, <3>2, <3>3, <3>4 DEF TrueKey, Asked
      <3>5. CASE name # Image[d]
        BY <2>2, <3>2, <3>3, <3>5 DEF Misnamed, Asked
      <3>6. QED
        BY <3>3, <3>4, <3>5
    <2>3. QED
      BY <2>1, <2>2
  <1>4. QED
    BY <1>1, <1>2, <1>3

(* What an entry handler keeps is a key or nothing. *)
LEMMA HookFacts ==
    ASSUME NEW key \in Keys \cup {NoKey}
    PROVE  /\ Hook(key) \in Keys \cup {NoKey}
           /\ Hook(key) = IF ProbesOn THEN key ELSE NoKey
           /\ IsRoot(FALSE) /\ ~IsRoot(TRUE)
  BY DEF Hook, IsRoot

CallState == [kind : Kinds, m : Mnts \cup {NoDev}, dev : Devs \cup {NoDev},
              key : Keys \cup {NoKey}, load : Nat, done : BOOLEAN]

(* A call that begins. *)
LEMMA CallFacts ==
    ASSUME loads \in Nat,
           NEW kind \in Kinds, NEW m \in Mnts \cup {NoDev}, NEW d \in Devs \cup {NoDev},
           NEW key \in Keys \cup {NoKey}, call' = Call(kind, m, d, key)
    PROVE  /\ call' \in CallState
           /\ call'.kind = kind /\ call'.m = m /\ call'.dev = d /\ call'.key = key
           /\ key = NoKey \/ call'.load = loads
           /\ call'.done = FALSE
  BY DEF Call, CallState

(* What the entry handlers have in common: nothing changes but the call    *)
(* and the marks.                                                          *)
Entered(kind, m, d, key) ==
    /\ ~Pending /\ call' = Call(kind, m, d, key)
    /\ mnt' = mnt /\ n' = n
    /\ kind \in {"attach", "old"} => m \in Mnts /\ d \in Devs /\ mnt[m] = NoDev
    /\ kind = "umount" => m \in Mnts /\ mnt[m] # NoDev

(* How every entry handler decides on the key, and what is marked.  A      *)
(* device that is mounted or being mounted under a key that is not marked  *)
(* is not misnamed, and is found under the key it should have.             *)
Decided(kind, m, d, key) ==
    /\ odd \subseteq odd' /\ odd' \subseteq odd \cup active
    /\ kind = "attach" =>
          /\ key \in {NoKey, MountKey(d)}
          /\ \/ KeysOf(d) \cap active \subseteq odd'
             \/ d \notin Misnamed /\ key = Hook(MountKey(d))
    /\ kind = "old" => (KeysOf(d) \cup {key}) \cap active \subseteq odd'
    /\ kind = "move" => key = NoKey
    /\ kind = "remount" => {key} \cap active \subseteq odd'
    /\ kind = "umount" =>
          /\ key \in {NoKey, MountKey(mnt[m])}
          /\ \/ key = Hook(MountKey(mnt[m]))
             \/ {MountKey(mnt[m]), key} \cap active \subseteq odd'

LEMMA EntryFacts ==
    ASSUME TypeOK, CallInv, NEW m \in Mnts,
           \/ \E d \in Devs : AttachEntry(m, d)
           \/ \E d \in Devs, a \in MountedDevs \cup {NoDev} : OldMountEntry(m, d, a)
           \/ MoveEntry(m) \/ RemountEntry(m) \/ UmountEntry(m)
    PROVE  \E kind \in Kinds \ {"none"}, x \in Mnts \cup {NoDev},
              d \in Devs \cup {NoDev}, key \in Keys \cup {NoKey} :
               Entered(kind, x, d, key) /\ Decided(kind, x, d, key)
  <1>1. /\ loads \in Nat /\ active \subseteq Keys
        /\ mnt \in [Mnts -> Devs \cup {NoDev}]
    BY DEF TypeOK, RegTypeOK, MpTypeOK
  <1>2. NoKey \notin active
    BY <1>1, KeyFacts
  <1>3. CASE \E d \in Devs : AttachEntry(m, d)
    <2>1. PICK d \in Devs : AttachEntry(m, d)
      BY <1>3
    <2>2. /\ MountKey(d) \in Keys \cup {NoKey} /\ Hook(MountKey(d)) \in Keys \cup {NoKey}
          /\ Hook(MountKey(d)) \in {NoKey, MountKey(d)}
      BY KeyFacts, HookFacts
    <2>3. mnt' = mnt /\ n' = n /\ ~Pending /\ mnt[m] = NoDev
      BY <2>1 DEF AttachEntry, regvars
    <2>4. CASE /\ call' = Call("attach", m, d, IF IsRoot(FALSE) THEN Hook(MountKey(d))
                                               ELSE NoKey)
               /\ odd' = IF d \in Misnamed THEN odd \cup (KeysOf(d) \cap active)
                         ELSE odd
      <3>1. Entered("attach", m, d, Hook(MountKey(d)))
        BY <2>2, <2>3, <2>4, HookFacts DEF Entered
      <3>2. /\ odd \subseteq odd' /\ odd' \subseteq odd \cup active
            /\ KeysOf(d) \cap active \subseteq odd' \/ d \notin Misnamed
        BY <2>4
      <3>3. Decided("attach", m, d, Hook(MountKey(d)))
        BY <2>2, <3>2 DEF Decided
      <3>4. QED
        BY <2>2, <3>1, <3>3 DEF Kinds
    <2>5. CASE Odd("no_memory", KeysOf(d)) /\ call' = Call("attach", m, d, NoKey)
      <3>1. Entered("attach", m, d, NoKey)
        BY <2>3, <2>5 DEF Entered
      <3>2. /\ odd \subseteq odd' /\ odd' \subseteq odd \cup active
            /\ KeysOf(d) \cap active \subseteq odd'
        BY <2>5 DEF Odd
      <3>3. Decided("attach", m, d, NoKey)
        BY <3>2 DEF Decided
      <3>4. QED
        BY <3>1, <3>3 DEF Kinds
    <2>6. QED
      BY <2>1, <2>4, <2>5 DEF AttachEntry
  <1>4. CASE \E d \in Devs, a \in MountedDevs \cup {NoDev} : OldMountEntry(m, d, a)
    <2>1. PICK d \in Devs, a \in MountedDevs \cup {NoDev} : OldMountEntry(m, d, a)
      BY <1>4
    <2> DEFINE found == IF a = NoDev THEN NoKey ELSE Hook(MountKey(a))
    <2>2. found \in Keys \cup {NoKey}
      <3>1. a = NoDev \/ a \in Devs
        BY <1>1 DEF MountedDevs
      <3>2. QED
        BY <3>1, KeyFacts, HookFacts
    <2>3. PICK key \in {NoKey, found} : call' = Call("old", m, d, key)
      BY <2>1 DEF OldMountEntry
    <2>4. /\ mnt' = mnt /\ n' = n /\ ~Pending /\ mnt[m] = NoDev
          /\ odd' = odd \cup ((KeysOf(d) \cup {found}) \cap active)
      BY <2>1 DEF OldMountEntry, regvars, Odd
    <2> HIDE DEF found
    <2>5. Entered("old", m, d, key)
      BY <2>3, <2>4 DEF Entered
    <2>6. Decided("old", m, d, key)
      BY <1>2, <2>3, <2>4 DEF Decided
    <2>7. key \in Keys \cup {NoKey}
      BY <2>2, <2>3
    <2>8. QED
      BY <2>5, <2>6, <2>7 DEF Kinds
  <1> DEFINE k == MountKey(mnt[m])
  <1>5. ASSUME mnt[m] # NoDev
        PROVE  /\ k \in Keys /\ Hook(k) \in Keys \cup {NoKey} /\ Hook(k) \in {NoKey, k}
    BY <1>1, <1>5, KeyFacts, HookFacts
  <1>6. CASE MoveEntry(m)
    <2>1. Entered("move", NoDev, NoDev, NoKey) /\ odd' = odd
      BY <1>6, HookFacts DEF MoveEntry, Entered, regvars
    <2>2. Decided("move", NoDev, NoDev, NoKey)
      BY <2>1 DEF Decided
    <2>3. QED
      BY <2>1, <2>2 DEF Kinds
  <1>7. CASE RemountEntry(m)
    <2>1. PICK key \in {NoKey, Hook(k)} : call' = Call("remount", NoDev, NoDev, key)
      BY <1>7 DEF RemountEntry
    <2>2. /\ mnt' = mnt /\ n' = n /\ ~Pending /\ mnt[m] # NoDev
          /\ odd' = odd \cup ({k} \cap active)
      BY <1>7 DEF RemountEntry, regvars, Odd
    <2>3. Entered("remount", NoDev, NoDev, key)
      BY <2>1, <2>2 DEF Entered
    <2>4. key \in Keys \cup {NoKey} /\ key \in {NoKey, k}
      BY <1>5, <2>1, <2>2
    <2> HIDE DEF k
    <2>5. Decided("remount", NoDev, NoDev, key)
      BY <1>2, <2>2, <2>4 DEF Decided
    <2>6. QED
      BY <2>3, <2>4, <2>5 DEF Kinds
  <1>8. CASE UmountEntry(m)
    <2>1. mnt' = mnt /\ n' = n /\ ~Pending /\ mnt[m] # NoDev
      BY <1>8 DEF UmountEntry, regvars
    <2>2. PICK key \in {NoKey, Hook(k)} :
             /\ call' = Call("umount", m, NoDev, key)
             /\ \/ odd' = odd /\ key = Hook(k)
                \/ odd' = odd \cup ({k} \cap active)
      BY <1>8 DEF UmountEntry, Odd
    <2>3. Entered("umount", m, NoDev, key)
      BY <2>1, <2>2 DEF Entered
    <2>4. key \in Keys \cup {NoKey} /\ key \in {NoKey, k}
      BY <1>5, <2>1, <2>2
    <2>5. /\ odd \subseteq odd' /\ odd' \subseteq odd \cup active
          /\ \/ key = Hook(k)
             \/ {k, key} \cap active \subseteq odd'
      <3> HIDE DEF k
      <3>1. QED
        BY <1>2, <2>2, <2>4
    <2>6. Decided("umount", m, NoDev, key)
      BY <2>4, <2>5 DEF Decided
    <2>7. QED
      BY <2>3, <2>4, <2>6 DEF Kinds
  <1>9. QED
    BY <1>3, <1>4, <1>6, <1>7, <1>8


LEMMA InitIInv == Init => IInv
  <1> SUFFICES ASSUME Init
               PROVE  IInv
    OBVIOUS
  <1>1. RegTypeOK
    BY DEF Init, RegInit, RegTypeOK
  <1>2. NoCall \in CallState
    BY DEF NoCall, CallState, Kinds
  <1>3. MpTypeOK
    BY <1>2 DEF Init, MpInit, RegInit, MpTypeOK, CallState
  <1>4. ActTypeOK
    <2>1. iface \in Ifaces /\ phase = "unloaded" /\ todo = <<>> /\ secret = "none"
          /\ sem = "free" /\ req = NoReq /\ up = {}
      BY DEF Init, ActInit, RegInit
    <2>2. QED
      BY <2>1 DEF ActTypeOK
  <1>5. AuthInv
    BY DEF Init, ActInit, AuthInv, NoReq
  <1>6. CallInv
    BY DEF Init, MpInit, CallInv, Pending, NoCall
  <1>7. QED
    BY <1>1, <1>3, <1>4, <1>5, <1>6 DEF IInv, TypeOK

(* A step of a mount or umount. *)
LEMMA MountIInv ==
    ASSUME IInv, MountStep
    PROVE  IInv'
  <1>1. /\ RegTypeOK /\ MpTypeOK /\ ActTypeOK /\ AuthInv /\ CallInv /\ TypeOK
    BY DEF IInv, TypeOK
  <1>2. /\ loads \in Nat /\ active \subseteq Keys /\ n \in [Keys -> Nat]
        /\ mnt \in [Mnts -> Devs \cup {NoDev}] /\ call \in CallState /\ odd \subseteq active
    BY <1>1 DEF RegTypeOK, MpTypeOK, CallState
  <1>3. up' = up /\ loads' = loads /\ active' = active /\ actvars' = actvars
    BY DEF MountStep, MountNext, AttachEntry, MoveEntry, OldMountEntry, RemountEntry,
           UmountEntry, CallFails, CallSucceeds, Vanish, CallReturns, regvars
  <1>4. ActTypeOK' /\ AuthInv'
    BY <1>1, <1>3 DEF ActTypeOK, AuthInv, actvars
  <1>5. SUFFICES /\ n' \in [Keys -> Nat] /\ mnt' \in [Mnts -> Devs \cup {NoDev}]
                 /\ call' \in CallState /\ odd' \subseteq active
                 /\ CallInv'
    BY <1>2, <1>3, <1>4, <1>5 DEF IInv, TypeOK, RegTypeOK, MpTypeOK, CallState
  <1>6. CASE \E m \in Mnts : \/ \E d \in Devs : AttachEntry(m, d)
                             \/ \E d \in Devs, a \in MountedDevs \cup {NoDev} :
                                   OldMountEntry(m, d, a)
                             \/ MoveEntry(m) \/ RemountEntry(m) \/ UmountEntry(m)
    <2>1. PICK kind \in Kinds \ {"none"}, m \in Mnts \cup {NoDev},
               d \in Devs \cup {NoDev}, key \in Keys \cup {NoKey} :
              Entered(kind, m, d, key) /\ Decided(kind, m, d, key)
      BY <1>1, <1>6, EntryFacts
    <2>2. /\ call' \in CallState /\ call'.kind = kind /\ call'.m = m /\ call'.dev = d
          /\ call'.key = key /\ call'.done = FALSE
      <3>1. kind \in Kinds /\ call' = Call(kind, m, d, key)
        BY <2>1 DEF Entered
      <3>2. QED
        BY <1>2, <3>1, CallFacts
    <2>3. /\ mnt' = mnt /\ n' = n /\ odd' \subseteq active
      BY <1>2, <2>1 DEF Entered, Decided
    <2>4. CallInv'
      BY <2>1, <2>2, <2>3 DEF Entered, Decided, CallInv, Pending
    <2>5. QED
      BY <1>2, <2>2, <2>3, <2>4
  <1>7. CASE \E m \in Mnts : Vanish(m)
    <2>1. PICK m \in Mnts : Vanish(m)
      BY <1>7
    <2>2. /\ ~Pending /\ n' = n /\ call' = call /\ odd' \subseteq odd \cup active
          /\ mnt' = [mnt EXCEPT ![m] = NoDev]
      BY <2>1 DEF Vanish, regvars, Odd
    <2>3. CallInv'
      BY <1>1, <1>2, <2>2 DEF CallInv, Pending
    <2>4. QED
      BY <1>2, <2>2, <2>3
  <1>8. CASE CallFails \/ CallReturns
    <2>1. call' = NoCall /\ mnt' = mnt /\ odd' = odd
      BY <1>8 DEF CallFails, CallReturns
    <2>2. NoCall \in CallState /\ NoCall.kind = "none" /\ NoCall.done = FALSE
      BY DEF NoCall, CallState, Kinds
    <2>3. CallInv'
      BY <2>1, <2>2 DEF CallInv, Pending
    <2>4. n' \in [Keys -> Nat]
      <3>1. CASE UNCHANGED n
        BY <1>2, <3>1
      <3>2. CASE CountUmount(call.key)
        BY <1>2, <3>2 DEF CountUmount, GetDeviceData
      <3>3. CASE CountMount(call.key)
        BY <1>2, <3>3 DEF CountMount, GetDeviceData
      <3>4. QED
        BY <1>8, <3>1, <3>2, <3>3 DEF CallFails, CallReturns, regvars
    <2>5. QED
      BY <1>2, <2>1, <2>2, <2>3, <2>4
  <1>9. CASE CallSucceeds
    <2>1. /\ call' \in CallState /\ call'.kind = call.kind /\ call'.m = call.m
          /\ call'.dev = call.dev /\ call'.key = call.key /\ call'.done = TRUE
          /\ Pending /\ ~call.done
      BY <1>2, <1>9 DEF CallSucceeds, CallState
    <2>2. n' = n /\ odd' = odd
      BY <1>9 DEF CallSucceeds, regvars
    <2>3. CASE call.kind \in {"attach", "old"}
      <3>1. /\ mnt' = [mnt EXCEPT ![call.m] = call.dev] /\ call.m \in Mnts /\ call.dev \in Devs
            /\ call.kind = "attach" => call.key \in {NoKey, MountKey(call.dev)}
        BY <1>1, <1>9, <2>3 DEF CallSucceeds, CallInv
      <3>2. mnt' \in [Mnts -> Devs \cup {NoDev}] /\ mnt'[call.m] = call.dev
        BY <1>2, <3>1
      <3>3. CallInv'
        BY <2>1, <2>3, <3>1, <3>2 DEF CallInv, Pending
      <3>4. QED
        BY <1>2, <2>1, <2>2, <3>2, <3>3
    <2>4. CASE call.kind \notin {"attach", "old"}
      <3>1. /\ mnt' = mnt \/ mnt' = [mnt EXCEPT ![call.m] = NoDev]
            /\ call.kind = "umount" => call.m \in Mnts
            /\ call.kind = "move" => call.key = NoKey
        BY <1>1, <1>9, <2>4 DEF CallSucceeds, CallInv
      <3>2. CallInv'
        BY <2>1, <2>4, <3>1 DEF CallInv, Pending
      <3>3. QED
        BY <1>2, <2>1, <2>2, <3>1, <3>2
    <2>5. QED
      BY <2>3, <2>4
  <1>10. QED
    BY <1>6, <1>7, <1>8, <1>9 DEF MountStep, MountNext


(* A request inside the module, and what it is answered. *)
LEMMA AnswerFacts ==
    ASSUME NEW op \in Ops, NEW a \in {"ok", "error", "freed"}, Answer(op, a)
    PROVE  req' \in Answers /\ req'.pc = "answer" /\ req'.ans = a /\ req'.op = op
  BY DEF Answer, Answers

LEMMA ReqFacts ==
    ASSUME req \in Requests \cup Answers \cup {NoReq}
    PROVE  /\ req.pc \in {"none", "reg", "answer"}
           /\ req.pc = "reg" => req \in Requests /\ req.op \in Ops /\ req.dev \in Devs
                                /\ req.via \in {"node", "image"}
           /\ req.pc # "none" => req.op \in Ops
           /\ req.pc = "none" => req = NoReq
  BY DEF Requests, Answers, NoReq

(* A step of the loader or of a request. *)
LEMMA ActIInv ==
    ASSUME IInv, ActStep
    PROVE  IInv'
  <1>1. /\ RegTypeOK /\ MpTypeOK /\ ActTypeOK /\ AuthInv /\ CallInv /\ TypeOK
    BY DEF IInv, TypeOK
  <1>2. /\ loads \in Nat /\ active \subseteq Keys /\ n \in [Keys -> Nat]
        /\ iface \in Ifaces /\ phase \in {"unloaded", "init", "loaded", "undo"}
        /\ todo \in Seq(Steps) /\ up \subseteq Steps
        /\ secret \in {"none", "hash", "clear"} /\ sem \in {"free", "read"}
        /\ req \in Requests \cup Answers \cup {NoReq}
    BY <1>1 DEF RegTypeOK, ActTypeOK
  <1>3. mnt' = mnt /\ call' = call /\ odd' \subseteq active'
    BY DEF ActStep, OddAfter
  <1>4. MpTypeOK' /\ CallInv'
    BY <1>1, <1>3 DEF MpTypeOK, CallInv, Pending
  <1>5. ASSUME todo # <<>>
        PROVE  Head(todo) \in Steps /\ Tail(todo) \in Seq(Steps)
    BY <1>2, <1>5
  <1>6. NoReq.pc = "none"
    BY DEF NoReq
  <1>7. SUFFICES /\ loads' \in Nat /\ active' \subseteq Keys /\ n' \in [Keys -> Nat]
                 /\ iface' = iface /\ phase' \in {"unloaded", "init", "loaded", "undo"}
                 /\ todo' \in Seq(Steps) /\ up' \subseteq Steps
                 /\ secret' \in {"none", "hash", "clear"} /\ sem' \in {"free", "read"}
                 /\ req' \in Requests \cup Answers \cup {NoReq}
                 /\ AuthInv'
    BY <1>2, <1>4, <1>7 DEF IInv, TypeOK, RegTypeOK, ActTypeOK
  <1>8. req' = req => AuthInv'
    BY <1>1 DEF AuthInv
  <1>9. CASE LoadModule
    BY <1>2, <1>8, <1>9, SetupLists DEF LoadModule
  <1>10. CASE StartExit
    BY <1>2, <1>8, <1>10, UndoLists DEF StartExit, regvars
  <1>11. CASE SetupSucceeds
    BY <1>2, <1>5, <1>8, <1>11 DEF SetupSucceeds
  <1>12. CASE SetupFails
    <2>1. RollBack(Head(todo)) \in Seq(Steps)
      <3>1. CASE Head(todo) = "devices"
        BY <3>1 DEF RollBack
      <3>2. CASE Head(todo) # "devices"
        BY <1>5, <1>12, <3>2, UndoLists DEF SetupFails
      <3>3. QED
        BY <3>1, <3>2
    <2>2. QED
      BY <1>2, <1>8, <1>12, <2>1 DEF SetupFails, regvars
  <1>13. CASE UndoStep
    <2>1. /\ up' \subseteq up /\ secret' \in {"none", secret} /\ todo' = Tail(todo)
          /\ phase' \in {"unloaded", "undo"} /\ loads' = loads /\ iface' = iface
          /\ sem' = sem /\ req' = req /\ todo # <<>>
      BY <1>13 DEF UndoStep
    <2>2. active' \subseteq Keys /\ n' \in [Keys -> Nat]
      BY <1>2, <1>13 DEF UndoStep, Remove
    <2>3. QED
      BY <1>2, <1>5, <1>8, <2>1, <2>2
  <1>14. CASE \E r \in NewRequests, formed \in BOOLEAN : Enter(r, formed)
    <2>1. PICK r \in NewRequests, formed \in BOOLEAN : Enter(r, formed)
      BY <1>14
    <2>2. r \in Requests /\ r.op \in Ops
      BY DEF NewRequests, Requests
    <2>3. \/ req' = r /\ \E rv \in PasswordCmp(r) : AuthCheck(r, rv)
          \/ Answer(r.op, "error")
      BY <2>1 DEF Enter
    <2>4. req' \in Requests \cup Answers \cup {NoReq} /\ AuthInv'
      <3>1. CASE req' = r /\ \E rv \in PasswordCmp(r) : AuthCheck(r, rv)
        <4>1. r.root /\ r.right
          BY <3>1 DEF AuthCheck, PasswordCmp, ENOMEM
        <4>2. QED
          BY <2>2, <3>1, <4>1 DEF AuthInv
      <3>2. CASE Answer(r.op, "error")
        BY <2>2, <3>2, AnswerFacts DEF AuthInv
      <3>3. QED
        BY <2>3, <3>1, <3>2
    <2>5. QED
      BY <1>2, <2>1, <2>4 DEF Enter, regvars
  <1>15. CASE Request
    <2>1. /\ loads' = loads /\ up' = up /\ iface' = iface /\ phase' = phase /\ todo' = todo
          /\ secret' = secret
      BY <1>15 DEF Request, DownRead, LookupFails, FullPathFails, Reging, Leave, regvars
    <2>2. sem' \in {"free", "read"}
      BY <1>2, <1>15 DEF Request, DownRead, LookupFails, FullPathFails, Reging, Leave
    <2>3. /\ active' \subseteq Keys /\ n' \in [Keys -> Nat]
      <3>1. CASE Reging
        <4>1. PICK k \in PathKeys(req.dev, req.via) :
                 UNCHANGED <<active, n>> \/ Insert(k) \/ Remove({k})
          BY <3>1 DEF Reging
        <4>2. k \in Keys
          BY <1>2, <3>1, <4>1, ReqFacts, KeyFacts DEF Reging
        <4>3. CASE UNCHANGED <<active, n>>
          BY <1>2, <4>3
        <4>4. CASE Insert(k)
          BY <1>2, <4>2, <4>4 DEF Insert
        <4>5. CASE Remove({k})
          BY <1>2, <4>2, <4>5 DEF Remove
        <4>6. QED
          BY <4>1, <4>3, <4>4, <4>5
      <3>2. CASE ~Reging
        BY <1>2, <1>15, <3>2 DEF Request, DownRead, LookupFails, FullPathFails, Leave, regvars
      <3>3. QED
        BY <3>1, <3>2
    <2>4. \/ req' = req \/ req' = NoReq
          \/ req.pc = "reg" /\ \E a \in {"ok", "error", "freed"} : Answer(req.op, a)
      BY <1>15 DEF Request, DownRead, LookupFails, FullPathFails, Reging, Leave
    <2>5. req' \in Requests \cup Answers \cup {NoReq} /\ AuthInv'
      <3>1. CASE req' = req
        BY <1>2, <1>8, <3>1
      <3>2. CASE req' = NoReq
        BY <1>6, <3>2 DEF AuthInv
      <3>3. CASE req.pc = "reg" /\ \E a \in {"ok", "error", "freed"} : Answer(req.op, a)
        BY <1>2, <3>3, ReqFacts, AnswerFacts DEF AuthInv
      <3>4. QED
        BY <2>4, <3>1, <3>2, <3>3
    <2>6. QED
      BY <1>2, <2>1, <2>2, <2>3, <2>5
  <1>16. QED
    BY <1>9, <1>10, <1>11, <1>12, <1>13, <1>14, <1>15 DEF ActStep, ActNext, Loader

LEMMA StutterIInv ==
    ASSUME IInv, UNCHANGED vars
    PROVE  IInv'
  BY DEF IInv, TypeOK, RegTypeOK, MpTypeOK, ActTypeOK, AuthInv, CallInv, Pending,
         vars, regvars, mpvars, actvars

LEMMA Typed == Spec => []IInv
  <1>1. IInv /\ [Next]_vars => IInv'
    BY MountIInv, ActIInv, StutterIInv DEF Next
  <1>2. QED
    BY <1>1, InitIInv, PTL DEF Spec

(***************************************************************************)
(* The types of Service.  n_currently_mounted is never negative, because   *)
(* __epoch_event_cb_count_umount does not count below 0, and a mount that  *)
(* is probed has a device.                                                 *)
(***************************************************************************)
THEOREM TypeCorrect == Spec => []TypeOK
  <1>1. IInv => TypeOK
    BY DEF IInv
  <1>2. QED
    BY <1>1, Typed, PTL


-----------------------------------------------------------------------------
(* Requests.                                                               *)

\* The change of a step to the tables, and what it answers (OnlyAsRequested)
AsRequested ==
    /\ active' # active =>
          \/ phase = "undo" /\ Head(todo) = "devices" /\ active' = {}
          \/ /\ req.pc = "reg" /\ req.root /\ req.right
             /\ \E k \in Keys :
                   /\ \/ k = TrueKey(req.dev)
                      \/ /\ req.dev \in Misnamed /\ req.via = "node"
                         /\ k[1] = "loop" /\ k[2] \in FullPath[LoName[req.dev]]
                   /\ active' = IF req.op = "activate" THEN active \cup {k}
                                ELSE active \ {k}
    /\ req.pc = "reg" /\ req'.pc = "answer" =>
          (req'.ans = "ok" <=> active' # active)

(***************************************************************************)
(* The tables change when they are destroyed, or as a well-formed request  *)
(* says that has passed auth_check, for the device that it names.  A       *)
(* request that names the node of a misnamed loop device changes whatever  *)
(* image get_full_path finds under lo_file_name.  A request is told of     *)
(* success if and only if the tables changed, unless get_full_path failed  *)
(* it and it is told what is left in freed memory.                         *)
(***************************************************************************)
THEOREM TablesAsRequested == Spec => OnlyAsRequested
  <1>1. ASSUME IInv, Next
        PROVE  AsRequested
    <2>1. /\ req \in Requests \cup Answers \cup {NoReq} /\ AuthInv /\ active \subseteq Keys
      BY <1>1 DEF IInv, TypeOK, ActTypeOK, RegTypeOK
    <2>2. ASSUME active' = active, req' = req
          PROVE  AsRequested
      <3>1. req.pc = "reg" => req'.pc # "answer"
        BY <2>2
      <3>2. QED
        BY <2>2, <3>1 DEF AsRequested
    <2>3. CASE MountStep
      <3>1. active' = active /\ req' = req
        BY <2>3 DEF MountStep, MountNext, AttachEntry, MoveEntry, OldMountEntry, RemountEntry,
               UmountEntry, CallFails, CallSucceeds, Vanish, CallReturns, regvars, actvars
      <3>2. QED
        BY <2>2, <3>1
    <2>4. CASE LoadModule \/ StartExit \/ SetupSucceeds \/ SetupFails
      <3>1. active' = active /\ req' = req
        BY <2>4 DEF LoadModule, StartExit, SetupSucceeds, SetupFails, regvars
      <3>2. QED
        BY <2>2, <3>1
    <2>5. CASE UndoStep
      <3>1. req' = req /\ phase = "undo"
        BY <2>5 DEF UndoStep
      <3>2. CASE Head(todo) = "devices"
        BY <2>5, <3>1, <3>2 DEF AsRequested, UndoStep, Remove
      <3>3. CASE Head(todo) # "devices"
        BY <2>2, <2>5, <3>1, <3>3 DEF UndoStep
      <3>4. QED
        BY <3>2, <3>3
    <2>6. CASE \E r \in NewRequests, formed \in BOOLEAN : Enter(r, formed)
      BY <2>6 DEF AsRequested, Enter, Inside, regvars
    <2>7. CASE Leave
      BY <2>7 DEF AsRequested, Leave, regvars
    <2>8. CASE DownRead \/ LookupFails \/ FullPathFails
      <3>1. active' = active
        BY <2>8 DEF DownRead, LookupFails, FullPathFails, regvars
      <3>2. \/ req' = req
            \/ req.pc = "reg" /\ \E a \in {"error", "freed"} : Answer(req.op, a)
        BY <2>8 DEF DownRead, LookupFails, FullPathFails
      <3>3. CASE req.pc = "reg" /\ \E a \in {"error", "freed"} : Answer(req.op, a)
        <4>1. req'.ans # "ok"
          BY <2>1, <3>3, ReqFacts, AnswerFacts
        <4>2. QED
          BY <3>1, <4>1 DEF AsRequested
      <3>4. QED
        BY <2>2, <3>1, <3>2, <3>3
    <2>9. CASE Reging
      <3>1. PICK k \in PathKeys(req.dev, req.via) :
               \/ Answer(req.op, "error") /\ active' = active
               \/ /\ req.op = "activate" /\ k \notin active
                  /\ active' = active \cup {k} /\ Answer(req.op, "ok")
               \/ /\ req.op = "deactivate" /\ k \in active
                  /\ active' = active \ {k} /\ Answer(req.op, "ok")
        BY <2>9 DEF Reging, Insert, Remove
      <3>2. /\ req.pc = "reg" /\ req.root /\ req.right /\ req.op \in Ops
            /\ k \in Keys /\ Asked(req.dev, req.via, k)
        BY <2>1, <2>9, <3>1, ReqFacts, KeyFacts DEF Reging, AuthInv
      <3>3. CASE Answer(req.op, "error") /\ active' = active
        BY <3>2, <3>3, AnswerFacts DEF AsRequested
      <3>4. CASE /\ req.op = "activate" /\ k \notin active
                 /\ active' = active \cup {k} /\ Answer(req.op, "ok")
        <4>1. active' # active /\ req'.ans = "ok"
          BY <3>2, <3>4, AnswerFacts
        <4>2. QED
          BY <3>2, <3>4, <4>1 DEF AsRequested, Asked
      <3>5. CASE /\ req.op = "deactivate" /\ k \in active
                 /\ active' = active \ {k} /\ Answer(req.op, "ok")
        <4>1. active' # active /\ req'.ans = "ok"
          BY <3>2, <3>5, AnswerFacts
        <4>2. QED
          BY <3>2, <3>5, <4>1 DEF AsRequested, Asked
      <3>6. QED
        BY <3>1, <3>3, <3>4, <3>5
    <2>10. QED
      BY <1>1, <2>3, <2>4, <2>5, <2>6, <2>7, <2>8, <2>9
         DEF Next, ActStep, ActNext, Loader, Request
  <1>2. IInv /\ [Next]_vars => [AsRequested]_vars
    BY <1>1
  <1>3. QED
    BY <1>2, Typed, PTL DEF Spec, OnlyAsRequested, AsRequested


-----------------------------------------------------------------------------
(* What is set up.  From here on no major number was asked for, so that    *)
(* unregister_chrdev takes the character device away.                      *)

LEMMA InitLoad == Init => LoaderInv /\ RequestInv
  <1> SUFFICES ASSUME Init
               PROVE  LoaderInv /\ RequestInv
    OBVIOUS
  <1>1. /\ up = {} /\ active = {} /\ phase = "unloaded" /\ todo = <<>>
        /\ secret = "none" /\ sem = "free" /\ req.pc = "none"
    BY DEF Init, RegInit, ActInit, NoReq
  <1>2. QED
    BY <1>1 DEF LoaderInv, RequestInv, Inside

(* A file is the last thing a set-up step makes, and what is set up before *)
(* it is all the rest.                                                     *)
LEMMA BeforeFacts ==
    ASSUME NEW s \in Steps
    PROVE  /\ s \in Files => Basics \subseteq Before(s)
           /\ s \notin Files => Before(s) \cap Files = {}
           /\ "chrdev" \notin Before(s)
  BY DEF Steps, Before, Files, Basics

(* The loader's steps. *)
LEMMA LoaderStep ==
    ASSUME ~ReqMajor, IInv, LoaderInv, RequestInv,
           LoadModule \/ StartExit \/ SetupSucceeds \/ SetupFails \/ UndoStep
    PROVE  LoaderInv' /\ RequestInv'
  <1>1. /\ iface \in Ifaces /\ phase \in {"unloaded", "init", "loaded", "undo"}
        /\ todo \in Seq(Steps) /\ req \in Requests \cup Answers \cup {NoReq}
        /\ sem \in {"free", "read"}
    BY DEF IInv, TypeOK, ActTypeOK
  <1>2. /\ iface' = iface /\ sem' = sem /\ req' = req /\ Everything' = Everything
        /\ File' = File /\ Inside' = Inside
    BY DEF LoadModule, StartExit, SetupSucceeds, SetupFails, UndoStep, Everything,
           File, Inside
  <1>3. \A s : SetupList(s)' <=> SetupList(s)
    BY <1>2 DEF SetupList
  <1>4. Inside => File \in {"activate", "deactivate", "chrdev"}
    BY <1>1, ReqFacts DEF Inside, File, Ops
  <1>5. CASE LoadModule
    <2>1. /\ phase = "unloaded" /\ phase' = "init" /\ todo' = Setups /\ up' = up
          /\ active' = active /\ secret' = secret
      BY <1>5 DEF LoadModule
    <2>2. up = {} /\ active = {} /\ ~Inside
      BY <2>1 DEF LoaderInv, RequestInv
    <2>3. LoaderInv'
      BY <1>1, <1>3, <2>1, <2>2, SetupLists DEF LoaderInv
    <2>4. RequestInv'
      BY <1>2, <2>1, <2>2 DEF RequestInv
    <2>5. QED
      BY <2>3, <2>4
  <1>6. CASE StartExit
    <2>1. /\ phase = "loaded" /\ phase' = "undo" /\ todo' = ExitOrder /\ up' = up
          /\ active' = active /\ secret' = secret /\ (iface = "chrdev" => ~Inside)
      BY <1>6 DEF StartExit, regvars
    <2>2. up = Everything
      BY <2>1 DEF LoaderInv
    <2>3. LoaderInv'
      BY <1>1, <2>1, <2>2, UndoLists DEF LoaderInv
    <2>4. RequestInv'
      BY <1>2, <2>1, <2>2 DEF RequestInv
    <2>5. QED
      BY <2>3, <2>4
  <1>7. CASE SetupSucceeds
    <2> DEFINE s == Head(todo)
    <2>1. /\ phase = "init" /\ up' = up \cup {s} /\ todo' = Tail(todo)
          /\ phase' = IF Len(todo) = 1 THEN "loaded" ELSE "init"
          /\ active' = active /\ todo # <<>>
          /\ IF s = "passwd" THEN secret' # "none" ELSE secret' = secret
      BY <1>7 DEF SetupSucceeds
    <2>2. SetupList(todo) /\ up = Before(s)
      BY <2>1 DEF LoaderInv
    <2>3. /\ s \in Steps /\ Tail(todo) \in Seq(Steps) /\ SetupList(Tail(todo))
          /\ (Len(todo) = 1 <=> Tail(todo) = <<>>)
          /\ Before(s) \cup {s} = IF Len(todo) = 1 THEN Everything
                                  ELSE Before(Head(Tail(todo)))
      BY <1>1, <2>1, <2>2, TailSetup
    <2> HIDE DEF s
    <2>4. LoaderInv'
      <3>1. CASE Len(todo) = 1
        BY <1>2, <2>1, <2>2, <2>3, <3>1 DEF LoaderInv
      <3>2. CASE Len(todo) # 1
        BY <1>3, <2>1, <2>2, <2>3, <3>2 DEF LoaderInv
      <3>3. QED
        BY <3>1, <3>2
    <2>5. RequestInv'
      <3>1. s \notin Files => up \cap Files = {}
        BY <2>2, <2>3, BeforeFacts
      <3>2. up' \cap Files # {} => Basics \subseteq up'
        BY <2>1, <2>2, <2>3, BeforeFacts DEF RequestInv
      <3>3. phase' # "undo"
        BY <2>1
      <3>4. "passwd" \in up' <=> secret' # "none"
        BY <2>1 DEF RequestInv
      <3>5. "mounts" \notin up' => active' = {}
        BY <2>1 DEF RequestInv
      <3>6. (Inside' => File' \in up') /\ (sem' = "read" => req'.pc = "reg")
            /\ (active' # {} => "devices" \in up')
        BY <1>2, <2>1 DEF RequestInv
      <3>7. QED
        BY <3>2, <3>3, <3>4, <3>5, <3>6 DEF RequestInv
    <2>6. QED
      BY <2>4, <2>5
  <1>8. CASE SetupFails
    <2> DEFINE s == Head(todo)
    <2>1. /\ phase = "init" /\ up' = up /\ todo' = RollBack(s) /\ todo # <<>>
          /\ phase' = IF todo' = <<>> THEN "unloaded" ELSE "undo"
          /\ active' = active /\ secret' = secret
      BY <1>8 DEF SetupFails, regvars
    <2>2. SetupList(todo) /\ up = Before(s) /\ s \in Steps
      BY <1>1, <2>1, TailSetup DEF LoaderInv
    <2> HIDE DEF s
    <2>3. CASE s = "devices"
      <3>1. todo' = <<>> /\ up = {}
        BY <2>1, <2>2, <2>3 DEF RollBack, Before
      <3>2. LoaderInv'
        BY <2>1, <3>1 DEF LoaderInv
      <3>3. RequestInv'
        BY <1>2, <2>1, <3>1 DEF RequestInv
      <3>4. QED
        BY <3>2, <3>3
    <2>4. CASE s # "devices"
      <3>1. todo' # <<>> /\ UndoList(todo') /\ StepsOf(todo') = up
        BY <2>1, <2>2, <2>4, UndoLists
      <3>2. LoaderInv'
        BY <2>1, <3>1 DEF LoaderInv
      <3>3. iface = "chrdev" => ~Inside
        <4>1. SUFFICES ASSUME iface = "chrdev", Inside
                       PROVE  FALSE
          OBVIOUS
        <4>2. "chrdev" \in up
          BY <4>1 DEF RequestInv, File
        <4>3. QED
          BY <2>2, <4>2, BeforeFacts
      <3>4. RequestInv'
        BY <1>2, <2>1, <3>1, <3>3 DEF RequestInv
      <3>5. QED
        BY <3>2, <3>4
    <2>5. QED
      BY <2>3, <2>4
  <1>9. CASE UndoStep
    <2> DEFINE s == Head(todo)
    <2>1. /\ phase = "undo" /\ todo # <<>> /\ MayUndo(s) /\ up' = up \ {s}
          /\ secret' = (IF s = "passwd" THEN "none" ELSE secret)
          /\ active' = (IF s = "devices" THEN {} ELSE active)
          /\ todo' = Tail(todo)
          /\ phase' = IF Len(todo) = 1 THEN "unloaded" ELSE "undo"
      BY <1>9 DEF UndoStep, Undone, Remove
    <2>2. UndoList(todo) /\ up = StepsOf(todo)
      BY <2>1 DEF LoaderInv
    <2>3. /\ s \in StepsOf(todo) /\ UndoList(Tail(todo))
          /\ StepsOf(Tail(todo)) = StepsOf(todo) \ {s}
          /\ (Len(todo) = 1 <=> Tail(todo) = <<>>)
          /\ (Len(todo) = 1 <=> s = "devices")
          /\ (s \notin Files => StepsOf(todo) \cap Files = {})
      BY <1>1, <2>1, <2>2, TailUndo
    <2> HIDE DEF s
    <2>4. LoaderInv'
      <3>1. CASE Len(todo) = 1
        <4>1. up' = {}
          BY <2>1, <2>2, <2>3, <3>1 DEF StepsOf
        <4>2. QED
          BY <2>1, <2>3, <3>1, <4>1 DEF LoaderInv
      <3>2. CASE Len(todo) # 1
        BY <2>1, <2>2, <2>3, <3>2 DEF LoaderInv
      <3>3. QED
        BY <3>1, <3>2
    <2>5. RequestInv'
      <3>1. Inside => File # s
        <4>1. SUFFICES ASSUME Inside, File = s
                       PROVE  FALSE
          OBVIOUS
        <4>2. iface # "chrdev"
          BY <2>1, <4>1 DEF RequestInv
        <4>3. s \in {"activate", "deactivate"}
          BY <1>1, <4>1, <4>2, ReqFacts DEF Inside, File, Ops
        <4>4. QED
          BY <2>1, <4>1, <4>3 DEF MayUndo
      <3>2. Inside => File \in up'
        BY <2>1, <3>1 DEF RequestInv
      <3>3. up' \cap Files # {} => Basics \subseteq up'
        <4>1. SUFFICES ASSUME up' \cap Files # {}
                       PROVE  Basics \subseteq up'
          OBVIOUS
        <4>2. up \cap Files # {}
          BY <2>1, <4>1
        <4>3. s \in Files
          BY <2>2, <2>3, <4>2
        <4>4. QED
          BY <2>1, <4>2, <4>3 DEF RequestInv, Files, Basics
      <3>4. "passwd" \in up' <=> secret' # "none"
        BY <2>1 DEF RequestInv
      <3>5. active' # {} => "devices" \in up'
        BY <2>1 DEF RequestInv
      <3>6. phase' # "init" /\ (iface' = "chrdev" => ~Inside')
        BY <1>2, <2>1 DEF RequestInv
      <3>7. QED
        BY <1>2, <3>2, <3>3, <3>4, <3>5, <3>6 DEF RequestInv
    <2>6. QED
      BY <2>4, <2>5
  <1>10. QED
    BY <1>5, <1>6, <1>7, <1>8, <1>9


(* A request comes in, is served and leaves, or a mount is made: what is   *)
(* set up stays.                                                           *)
LEMMA RequestStep ==
    ASSUME IInv, LoaderInv, RequestInv,
           \/ MountStep
           \/ Request
           \/ \E r \in NewRequests, formed \in BOOLEAN : Enter(r, formed)
           \/ UNCHANGED vars
    PROVE  LoaderInv' /\ RequestInv'
  <1>1. /\ req \in Requests \cup Answers \cup {NoReq} /\ sem \in {"free", "read"}
    BY DEF IInv, TypeOK, ActTypeOK
  <1>2. /\ up' = up /\ iface' = iface /\ phase' = phase /\ todo' = todo /\ secret' = secret
    BY DEF MountStep, MountNext, AttachEntry, MoveEntry, OldMountEntry, RemountEntry,
           UmountEntry, CallFails, CallSucceeds, Vanish, CallReturns, Request, DownRead,
           LookupFails, FullPathFails, Reging, Leave, Enter, vars, regvars, actvars
  <1>3. LoaderInv'
    BY <1>2 DEF LoaderInv, SetupList, Everything
  <1>4. SUFFICES /\ Inside' => File' \in up
                 /\ phase = "undo" /\ iface = "chrdev" => ~Inside'
                 /\ sem' = "read" => req'.pc = "reg"
                 /\ active' # {} => "devices" \in up
                 /\ phase = "init" /\ "mounts" \notin up => active' = {}
    BY <1>2, <1>3, <1>4 DEF RequestInv
  <1>5. CASE MountStep \/ UNCHANGED vars
    <2>1. req' = req /\ sem' = sem /\ active' = active
      BY <1>5 DEF MountStep, MountNext, AttachEntry, MoveEntry, OldMountEntry, RemountEntry,
             UmountEntry, CallFails, CallSucceeds, Vanish, CallReturns, vars, regvars, actvars
    <2>2. QED
      BY <1>2, <2>1 DEF RequestInv, Inside, File
  <1>6. CASE Leave
    <2>1. req'.pc = "none" /\ sem' = sem /\ active' = active /\ req.pc = "answer"
      BY <1>6 DEF Leave, NoReq, regvars
    <2>2. QED
      BY <1>1, <2>1 DEF RequestInv, Inside
  <1>7. CASE \E r \in NewRequests, formed \in BOOLEAN : Enter(r, formed)
    <2>1. PICK r \in NewRequests, formed \in BOOLEAN : Enter(r, formed)
      BY <1>7
    <2>2. r.op \in Ops /\ r.pc = "reg"
      BY DEF NewRequests, Requests
    <2>3. req' = r \/ (req'.op = r.op /\ req'.pc = "answer")
      BY <2>1, <2>2, AnswerFacts DEF Enter
    <2>4. Inside' /\ File' = IF iface = "chrdev" THEN "chrdev" ELSE r.op
      BY <1>2, <2>2, <2>3 DEF Inside, File
    <2>5. /\ File' \in up /\ ~Inside /\ (phase = "undo" => iface = "sysfs")
          /\ active' = active /\ sem' = sem
      BY <2>1, <2>4 DEF Enter, regvars
    <2>6. QED
      BY <2>5 DEF RequestInv, Inside
  <1>8. CASE DownRead \/ LookupFails \/ FullPathFails \/ Reging
    <2>1. req.pc = "reg" /\ req.op \in Ops
      BY <1>1, <1>8, ReqFacts DEF DownRead, LookupFails, FullPathFails, Reging
    <2>2. Inside /\ File \in up /\ Basics \subseteq up
      <3>1. Inside /\ File \in Files
        BY <2>1 DEF Inside, File, Ops, Files
      <3>2. QED
        BY <3>1 DEF RequestInv
    <2>3. \/ req' = req /\ sem' = "read"
          \/ /\ sem' # "read"
             /\ \E a \in {"ok", "error", "freed"} : Answer(req.op, a)
      BY <1>8 DEF DownRead, LookupFails, FullPathFails, Reging
    <2>4. \/ req' = req /\ sem' = "read"
          \/ sem' # "read" /\ req'.pc = "answer" /\ req'.op = req.op
      BY <2>1, <2>3, AnswerFacts
    <2>5. Inside' /\ File' = File
      BY <1>2, <2>1, <2>4 DEF Inside, File
    <2>6. QED
      BY <2>1, <2>2, <2>4, <2>5 DEF RequestInv, Basics
  <1>9. QED
    BY <1>5, <1>6, <1>7, <1>8 DEF Request

LEMMA LoadStep ==
    ASSUME ~ReqMajor
    PROVE  IInv /\ LoaderInv /\ RequestInv /\ [Next]_vars => (LoaderInv /\ RequestInv)'
  BY LoaderStep, RequestStep DEF Next, ActStep, ActNext, Loader

LEMMA Loading ==
    ASSUME ~ReqMajor
    PROVE  Spec => [](LoaderInv /\ RequestInv)
  <1>1. IInv /\ LoaderInv /\ RequestInv /\ [Next]_vars => (LoaderInv /\ RequestInv)'
    BY LoadStep
  <1>2. QED
    BY <1>1, Typed, InitLoad, PTL DEF Spec

(***************************************************************************)
(* A module that is not loaded has left nothing, in whatever order the     *)
(* set-up failed or the exit went and whatever requests came in meanwhile. *)
(***************************************************************************)
THEOREM UnloadedLeavesNothing ==
    ASSUME ~ReqMajor
    PROVE  Spec => []NothingLeft
  <1>1. IInv /\ LoaderInv /\ RequestInv => NothingLeft
    <2> SUFFICES ASSUME IInv, LoaderInv, RequestInv, phase = "unloaded"
                 PROVE  up = {} /\ active = {} /\ secret = "none" /\ ~Inside /\ sem = "free"
      BY DEF NothingLeft
    <2>1. up = {} /\ sem \in {"free", "read"}
      BY DEF LoaderInv, IInv, TypeOK, ActTypeOK
    <2>2. active = {} /\ secret = "none" /\ ~Inside
      BY <2>1 DEF RequestInv
    <2>3. sem = "free"
      BY <2>1, <2>2 DEF RequestInv, Inside
    <2>4. QED
      BY <2>1, <2>2, <2>3
  <1>2. QED
    BY <1>1, Typed, Loading, PTL

(***************************************************************************)
(* A request inside the module finds the tables, the probes and the        *)
(* password, and no probe runs without the tables.                         *)
(***************************************************************************)
THEOREM PartsInPlace ==
    ASSUME ~ReqMajor
    PROVE  Spec => []Layered
  <1>1. IInv /\ LoaderInv /\ RequestInv => Layered
    <2> SUFFICES ASSUME IInv, LoaderInv, RequestInv
                 PROVE  Layered
      OBVIOUS
    <2>1. /\ req \in Requests \cup Answers \cup {NoReq} /\ todo \in Seq(Steps)
          /\ phase \in {"unloaded", "init", "loaded", "undo"}
      BY DEF IInv, TypeOK, ActTypeOK
    <2>2. Inside => Basics \subseteq up /\ secret # "none"
      <3>1. Inside => File \in Files
        BY <2>1, ReqFacts DEF Inside, File, Ops, Files
      <3>2. QED
        BY <3>1 DEF RequestInv, Basics
    <2>3. up # {} => "devices" \in up
      <3>1. CASE phase = "init"
        <4>1. up = Before(Head(todo)) /\ Head(todo) \in Steps
          BY <2>1, <3>1 DEF LoaderInv
        <4>2. QED
          BY <4>1 DEF Before, Basics, Steps
      <3>2. CASE phase = "undo"
        <4>1. todo # <<>> /\ UndoList(todo) /\ up = StepsOf(todo)
          BY <3>2 DEF LoaderInv
        <4>2. Len(todo) \in 1..Len(todo)
          BY <2>1, <4>1
        <4>3. todo[Len(todo)] = "devices"
          BY <4>1, <4>2 DEF UndoList
        <4>4. QED
          BY <4>1, <4>2, <4>3 DEF StepsOf
      <3>3. CASE phase \in {"unloaded", "loaded"}
        BY <3>3 DEF LoaderInv, Everything, Basics
      <3>4. QED
        BY <2>1, <3>1, <3>2, <3>3
    <2>4. QED
      BY <2>2, <2>3 DEF Layered, Basics
  <1>2. QED
    BY <1>1, Typed, Loading, PTL


-----------------------------------------------------------------------------
(* n_currently_mounted is the number of mounts.                            *)

MarkInv == MisnamedInv /\ CountInv /\ IsFiniteSet(MountsUp)

LEMMA MountsFinite ==
    ASSUME IsFiniteSet(MountsUp), NEW k
    PROVE  IsFiniteSet(MountsOf(k)) /\ Cardinality(MountsOf(k)) \in Nat
  <1>1. MountsOf(k) \subseteq MountsUp
    BY DEF MountsOf, MountsUp
  <1>2. QED
    BY <1>1, FS_Subset, FS_CardinalityType

LEMMA InitMark == Init => MarkInv
  <1> SUFFICES ASSUME Init
               PROVE  MarkInv
    OBVIOUS
  <1>1. active = {} /\ call.kind = "none" /\ \A m \in Mnts : mnt[m] = NoDev
    BY DEF Init, RegInit, MpInit, NoCall
  <1>2. MountsUp = {}
    BY <1>1 DEF MountsUp
  <1>3. QED
    BY <1>1, <1>2, FS_EmptySet DEF MarkInv, MisnamedInv, CountInv

(* A call is entered. *)
LEMMA MarkEntry ==
    ASSUME IInv, MarkInv, NEW m0 \in Mnts,
           \/ \E d \in Devs : AttachEntry(m0, d)
           \/ \E d \in Devs, a \in MountedDevs \cup {NoDev} : OldMountEntry(m0, d, a)
           \/ MoveEntry(m0) \/ RemountEntry(m0) \/ UmountEntry(m0)
    PROVE  MarkInv'
  <1>1. /\ TypeOK /\ CallInv /\ loads \in Nat /\ active \subseteq Keys
        /\ mnt \in [Mnts -> Devs \cup {NoDev}]
    BY DEF IInv, TypeOK, RegTypeOK, MpTypeOK
  <1>2. up' = up /\ loads' = loads /\ active' = active
    BY DEF AttachEntry, MoveEntry, OldMountEntry, RemountEntry, UmountEntry, regvars
  <1>3. PICK kind \in Kinds \ {"none"}, m \in Mnts \cup {NoDev},
             d \in Devs \cup {NoDev}, key \in Keys \cup {NoKey} :
               Entered(kind, m, d, key) /\ Decided(kind, m, d, key)
    BY <1>1, EntryFacts
  <1>4. /\ call'.kind = kind /\ call'.m = m /\ call'.dev = d /\ call'.key = key
        /\ (key = NoKey \/ call'.load = loads) /\ call'.done = FALSE
    <2>1. kind \in Kinds /\ call' = Call(kind, m, d, key)
      BY <1>3 DEF Entered
    <2>2. /\ call'.kind = kind /\ call'.m = m /\ call'.dev = d /\ call'.key = key
          /\ key = NoKey \/ call'.load = loads
          /\ call'.done = FALSE
      BY <2>1 DEF Call
    <2>3. QED
      BY <2>2
  <1>5. /\ mnt' = mnt /\ n' = n /\ ~Pending /\ ~call.done
        /\ kind \in {"attach", "old"} => d \in Devs
        /\ kind = "umount" => m \in MountsUp /\ mnt[m] \in Devs
    BY <1>1, <1>3 DEF Entered, CallInv, MountsUp
  <1>6. MountsUp' = MountsUp /\ \A k : MountsOf(k)' = MountsOf(k)
    BY <1>5 DEF MountsUp, MountsOf
  <1>7. MisnamedInv'
    <2>1. ASSUME kind \in {"attach", "old"}, d \in Misnamed
          PROVE  KeysOf(d) \cap active \subseteq odd'
      BY <1>3, <2>1 DEF Decided
    <2>2. odd \subseteq odd'
      BY <1>3 DEF Decided
    <2>3. QED
      BY <1>2, <1>4, <1>5, <1>6, <2>1, <2>2 DEF MarkInv, MisnamedInv, KeysOf
  <1>8. ASSUME NEW k \in active' \ odd', "mounts" \in up'
        PROVE  CallCounts(k)' /\ Balanced(k)'
    <2>1. /\ k \in active \ odd /\ k \in active \ odd' /\ "mounts" \in up /\ ProbesOn
          /\ k # NoKey /\ k \in Keys
      BY <1>1, <1>2, <1>3, <1>8, KeyFacts DEF Decided, ProbesOn
    <2>2. \A x \in Devs : /\ Hook(MountKey(x)) = MountKey(x) /\ MountKey(x) \in Keys
                          /\ x \notin Misnamed => MountKey(x) = TrueKey(x)
                          /\ KeysOf(x) = {TrueKey(x), MountKey(x)}
      BY <2>1, KeyFacts, HookFacts DEF KeysOf
    <2>3. key = k <=> \/ kind \in {"attach", "old"} /\ TrueKey(d) = k
                      \/ kind = "umount" /\ TrueKey(mnt[m]) = k
      <3>1. CASE kind = "attach"
        <4>1. CASE KeysOf(d) \cap active \subseteq odd'
          BY <1>3, <1>5, <2>1, <2>2, <3>1, <4>1 DEF Decided
        <4>2. CASE d \notin Misnamed /\ key = Hook(MountKey(d))
          BY <1>5, <2>2, <3>1, <4>2
        <4>3. QED
          BY <1>3, <3>1, <4>1, <4>2 DEF Decided
      <3>2. CASE kind = "old"
        <4>1. k \notin KeysOf(d) \cup {key}
          BY <1>3, <2>1, <3>2 DEF Decided
        <4>2. QED
          BY <1>5, <2>2, <3>2, <4>1
      <3>3. CASE kind \in {"move", "remount"}
        BY <1>3, <2>1, <3>3 DEF Decided
      <3>4. CASE kind = "umount"
        <4>1. mnt[m] \in Misnamed => k \notin KeysOf(mnt[m])
          BY <1>5, <2>1, <3>4 DEF MarkInv, MisnamedInv
        <4>2. CASE key = Hook(MountKey(mnt[m]))
          BY <1>5, <2>2, <3>4, <4>1, <4>2
        <4>3. CASE {MountKey(mnt[m]), key} \cap active \subseteq odd'
          BY <1>5, <2>1, <2>2, <3>4, <4>1, <4>3
        <4>4. QED
          BY <1>3, <3>4, <4>2, <4>3 DEF Decided
      <3>5. QED
        BY <3>1, <3>2, <3>3, <3>4 DEF Kinds
    <2>4. /\ Adds(k)' <=> kind # "umount" /\ key = k
          /\ Takes(k)' <=> kind = "umount" /\ key = k
      BY <1>2, <1>4, <2>1 DEF Adds, Takes
    <2>5. CallCounts(k)'
      BY <1>4, <1>5, <2>3, <2>4 DEF CallCounts
    <2>6. Balanced(k)'
      <3>1. Balanced(k)
        BY <2>1 DEF MarkInv, CountInv
      <3>2. AfterReturn(k) = n[k] /\ AfterReturn(k)' = n[k]
        BY <1>4, <1>5 DEF AfterReturn
      <3>3. QED
        BY <1>6, <3>1, <3>2 DEF Balanced
    <2>7. QED
      BY <2>5, <2>6
  <1>9. QED
    BY <1>6, <1>7, <1>8 DEF MarkInv, CountInv

(* A call fails. *)
LEMMA MarkFails ==
    ASSUME IInv, MarkInv, CallFails
    PROVE  MarkInv'
  <1>1. /\ up' = up /\ loads' = loads /\ active' = active /\ n' = n /\ mnt' = mnt
        /\ odd' = odd /\ call'.kind = "none" /\ call'.done = FALSE /\ ~call.done
    BY DEF CallFails, regvars, NoCall
  <1>2. MountsUp' = MountsUp /\ \A k : MountsOf(k)' = MountsOf(k)
    BY <1>1 DEF MountsUp, MountsOf
  <1>3. MisnamedInv'
    BY <1>1, <1>2 DEF MarkInv, MisnamedInv, KeysOf
  <1>4. ASSUME NEW k \in active \ odd, "mounts" \in up
        PROVE  CallCounts(k)' /\ Balanced(k)'
    <2>1. Balanced(k)
      BY <1>4 DEF MarkInv, CountInv
    <2>2. AfterReturn(k) = n[k] /\ AfterReturn(k)' = n[k]
      BY <1>1 DEF AfterReturn
    <2>3. QED
      BY <1>1, <1>2, <2>1, <2>2 DEF Balanced, CallCounts, Pending
  <1>5. QED
    BY <1>1, <1>2, <1>3, <1>4 DEF MarkInv, CountInv

(* A mount goes without a call. *)
LEMMA MarkVanish ==
    ASSUME IInv, MarkInv, NEW m \in Mnts, Vanish(m)
    PROVE  MarkInv'
  <1>1. /\ mnt \in [Mnts -> Devs \cup {NoDev}] /\ CallInv
    BY DEF IInv, TypeOK, MpTypeOK
  <1>2. /\ up' = up /\ loads' = loads /\ active' = active /\ n' = n /\ call' = call
        /\ ~Pending /\ mnt[m] # NoDev /\ mnt' = [mnt EXCEPT ![m] = NoDev]
        /\ odd' = odd \cup (KeysOf(mnt[m]) \cap active)
    BY DEF Vanish, Odd, regvars
  <1>3. mnt'[m] = NoDev /\ \A x \in Mnts : x # m => mnt'[x] = mnt[x]
    BY <1>1, <1>2
  <1>4. MountsUp' \subseteq MountsUp
    BY <1>2, <1>3 DEF MountsUp
  <1>5. IsFiniteSet(MountsUp')
    BY <1>4, FS_Subset DEF MarkInv
  <1>6. MisnamedInv'
    <2>1. ASSUME NEW x \in MountsUp', mnt'[x] \in Misnamed
          PROVE  KeysOf(mnt'[x]) \cap active \subseteq odd'
      <3>1. x \in MountsUp /\ mnt'[x] = mnt[x]
        BY <1>3, <1>4, <2>1 DEF MountsUp
      <3>2. QED
        BY <1>2, <2>1, <3>1 DEF MarkInv, MisnamedInv
    <2>2. QED
      BY <1>2, <2>1 DEF MisnamedInv, Pending, KeysOf
  <1>7. ASSUME NEW k \in active \ odd', "mounts" \in up
        PROVE  CallCounts(k)' /\ Balanced(k)'
    <2>1. Balanced(k)
      BY <1>2, <1>7 DEF MarkInv, CountInv
    <2>2. TrueKey(mnt[m]) # k
      BY <1>2, <1>7 DEF KeysOf
    <2>3. MountsOf(k)' = MountsOf(k)
      BY <1>3, <2>2 DEF MountsOf
    <2>4. AfterReturn(k)' = AfterReturn(k)
      BY <1>2 DEF AfterReturn, Adds, Takes
    <2>5. QED
      BY <1>2, <2>1, <2>3, <2>4 DEF Balanced, CallCounts, Pending
  <1>8. QED
    BY <1>2, <1>5, <1>6, <1>7 DEF MarkInv, CountInv

(* A call succeeds: what it mounted or unmounted is not counted yet. *)
LEMMA MarkSucceeds ==
    ASSUME IInv, MarkInv, CallSucceeds
    PROVE  MarkInv'
  <1>1. /\ mnt \in [Mnts -> Devs \cup {NoDev}] /\ call \in CallState /\ CallInv
        /\ n \in [Keys -> Nat] /\ active \subseteq Keys
    BY DEF IInv, TypeOK, MpTypeOK, CallState, RegTypeOK
  <1>2. up' = up /\ loads' = loads /\ active' = active /\ n' = n /\ odd' = odd
    BY DEF CallSucceeds, regvars
  <1> DEFINE m == call.m
  <1>3. /\ call'.kind = call.kind /\ call'.dev = call.dev /\ call'.key = call.key
        /\ call'.load = call.load /\ call'.m = m /\ call'.done = TRUE /\ ~call.done
        /\ Pending
    BY <1>1 DEF CallSucceeds, CallState
  <1>4. ASSUME NEW k \in active \ odd, "mounts" \in up
        PROVE  /\ CallCounts(k)' /\ n[k] \in Nat /\ n[k] = Cardinality(MountsOf(k))
               /\ AfterReturn(k)' =
                     IF call.kind \in {"attach", "old"} /\ TrueKey(call.dev) = k
                     THEN n[k] + 1
                     ELSE IF call.kind = "umount" /\ TrueKey(mnt[m]) = k /\ n[k] > 0
                     THEN n[k] - 1 ELSE n[k]
    <2>1. CallCounts(k) /\ Balanced(k)
      BY <1>4 DEF MarkInv, CountInv
    <2>2. (Adds(k)' <=> Adds(k)) /\ (Takes(k)' <=> Takes(k))
      BY <1>2, <1>3 DEF Adds, Takes
    <2>3. /\ Adds(k) <=> call.kind \in {"attach", "old"} /\ TrueKey(call.dev) = k
          /\ Takes(k) <=> call.kind = "umount" /\ TrueKey(mnt[m]) = k
      BY <1>3, <2>1 DEF CallCounts
    <2>4. AfterReturn(k) = n[k]
      BY <1>3 DEF AfterReturn
    <2>5. QED
      BY <1>1, <1>2, <1>3, <1>4, <2>1, <2>2, <2>3, <2>4 DEF AfterReturn, Balanced, CallCounts
  <1>5. CASE call.kind \in {"attach", "old"}
    <2>1. /\ mnt' = [mnt EXCEPT ![m] = call.dev] /\ m \in Mnts /\ call.dev \in Devs
          /\ mnt[m] = NoDev
      BY <1>1, <1>3, <1>5 DEF CallSucceeds, CallInv
    <2>2. /\ mnt'[m] = call.dev /\ mnt'[m] # NoDev
          /\ \A x \in Mnts : x # m => mnt'[x] = mnt[x]
      BY <1>1, <2>1, DevsAssumption
    <2>3. MountsUp' = MountsUp \cup {m}
      BY <2>1, <2>2 DEF MountsUp
    <2>4. IsFiniteSet(MountsUp')
      BY <2>3, FS_AddElement DEF MarkInv
    <2>5. MisnamedInv'
      <3>1. ASSUME NEW x \in MountsUp', mnt'[x] \in Misnamed
            PROVE  KeysOf(mnt'[x]) \cap active \subseteq odd
        <4>1. CASE x = m
          BY <1>3, <1>5, <2>2, <3>1, <4>1 DEF MarkInv, MisnamedInv
        <4>2. CASE x # m
          BY <2>2, <2>3, <3>1, <4>2 DEF MarkInv, MisnamedInv, MountsUp
        <4>3. QED
          BY <4>1, <4>2
      <3>2. QED
        BY <1>2, <1>3, <3>1 DEF MisnamedInv, KeysOf
    <2>6. ASSUME NEW k \in active \ odd, "mounts" \in up
          PROVE  CallCounts(k)' /\ Balanced(k)'
      <3>1. CASE TrueKey(call.dev) = k
        <4>1. MountsOf(k)' = MountsOf(k) \cup {m} /\ m \notin MountsOf(k)
          BY <2>1, <2>2, <3>1 DEF MountsOf
        <4>2. Cardinality(MountsOf(k)') = Cardinality(MountsOf(k)) + 1
          BY <4>1, MountsFinite, FS_AddElement DEF MarkInv
        <4>3. QED
          BY <1>4, <1>5, <2>6, <3>1, <4>2 DEF Balanced
      <3>2. CASE TrueKey(call.dev) # k
        <4>1. MountsOf(k)' = MountsOf(k)
          BY <2>1, <2>2, <3>2 DEF MountsOf
        <4>2. QED
          BY <1>4, <1>5, <2>6, <3>2, <4>1 DEF Balanced
      <3>3. QED
        BY <3>1, <3>2
    <2>7. QED
      BY <1>2, <2>4, <2>5, <2>6 DEF MarkInv, CountInv
  <1>6. CASE call.kind \notin {"attach", "old", "umount"}
    <2>1. mnt' = mnt
      BY <1>6 DEF CallSucceeds
    <2>2. MountsUp' = MountsUp /\ \A k : MountsOf(k)' = MountsOf(k)
      BY <2>1 DEF MountsUp, MountsOf
    <2>3. MisnamedInv'
      BY <1>2, <1>3, <1>6, <2>1, <2>2 DEF MarkInv, MisnamedInv, KeysOf
    <2>4. ASSUME NEW k \in active \ odd, "mounts" \in up
          PROVE  CallCounts(k)' /\ Balanced(k)'
      BY <1>4, <1>6, <2>2, <2>4 DEF Balanced
    <2>5. QED
      BY <1>2, <2>2, <2>3, <2>4 DEF MarkInv, CountInv
  <1>7. CASE call.kind = "umount"
    <2>1. mnt' = [mnt EXCEPT ![m] = NoDev] /\ m \in Mnts /\ mnt[m] # NoDev
      BY <1>1, <1>3, <1>7 DEF CallSucceeds, CallInv
    <2>2. mnt'[m] = NoDev /\ \A x \in Mnts : x # m => mnt'[x] = mnt[x]
      BY <1>1, <2>1
    <2>3. MountsUp' \subseteq MountsUp
      BY <2>1, <2>2 DEF MountsUp
    <2>4. IsFiniteSet(MountsUp')
      BY <2>3, FS_Subset DEF MarkInv
    <2>5. MisnamedInv'
      <3>1. ASSUME NEW x \in MountsUp', mnt'[x] \in Misnamed
            PROVE  KeysOf(mnt'[x]) \cap active \subseteq odd
        <4>1. x \in MountsUp /\ mnt'[x] = mnt[x]
          BY <2>2, <2>3, <3>1 DEF MountsUp
        <4>2. QED
          BY <3>1, <4>1 DEF MarkInv, MisnamedInv
      <3>2. QED
        BY <1>2, <1>3, <1>7, <3>1 DEF MisnamedInv, KeysOf
    <2>6. ASSUME NEW k \in active \ odd, "mounts" \in up
          PROVE  CallCounts(k)' /\ Balanced(k)'
      <3>1. CASE TrueKey(mnt[m]) = k
        <4>1. MountsOf(k)' = MountsOf(k) \ {m} /\ m \in MountsOf(k)
          BY <2>1, <2>2, <3>1 DEF MountsOf
        <4>2. /\ Cardinality(MountsOf(k)') = Cardinality(MountsOf(k)) - 1
              /\ Cardinality(MountsOf(k)') \in Nat
          <5>1. IsFiniteSet(MountsOf(k)) /\ Cardinality(MountsOf(k)) \in Nat
            BY MountsFinite DEF MarkInv
          <5>2. IsFiniteSet(MountsOf(k)')
            BY <4>1, <5>1, FS_Subset
          <5>3. Cardinality(MountsOf(k)') \in Nat
            BY <5>2, FS_CardinalityType
          <5>4. QED
            BY <4>1, <5>1, <5>3, FS_RemoveElement
        <4>3. QED
          BY <1>4, <1>7, <2>6, <3>1, <4>2 DEF Balanced
      <3>2. CASE TrueKey(mnt[m]) # k
        <4>1. MountsOf(k)' = MountsOf(k)
          BY <2>1, <2>2, <3>2 DEF MountsOf
        <4>2. QED
          BY <1>4, <1>7, <2>6, <3>2, <4>1 DEF Balanced
      <3>3. QED
        BY <3>1, <3>2
    <2>7. QED
      BY <1>2, <2>4, <2>5, <2>6 DEF MarkInv, CountInv
  <1>8. QED
    BY <1>5, <1>6, <1>7

(* The return handler counts what its call has done, under the key where   *)
(* it belongs, and nothing else.                                           *)
LEMMA MarkReturns ==
    ASSUME IInv, MarkInv, CallReturns
    PROVE  MarkInv'
  <1>1. /\ active \subseteq Keys /\ n \in [Keys -> Nat] /\ NoKey \notin Keys
    BY KeyFacts DEF IInv, TypeOK, RegTypeOK
  <1>2. /\ up' = up /\ loads' = loads /\ active' = active /\ odd' = odd /\ mnt' = mnt
        /\ call'.kind = "none" /\ call'.done = FALSE /\ Pending /\ call.done
    BY DEF CallReturns, NoCall
  <1>3. MountsUp' = MountsUp /\ \A k : MountsOf(k)' = MountsOf(k)
    BY <1>2 DEF MountsUp, MountsOf
  <1>4. MisnamedInv'
    BY <1>2, <1>3 DEF MarkInv, MisnamedInv, KeysOf
  <1>5. ASSUME NEW k \in active \ odd, "mounts" \in up
        PROVE  CallCounts(k)' /\ Balanced(k)'
    <2>1. Balanced(k) /\ CallCounts(k)' /\ AfterReturn(k)' = n'[k]
      BY <1>2, <1>5 DEF MarkInv, CountInv, CallCounts, Pending, AfterReturn
    <2>2. n[k] \in Nat /\ k # NoKey /\ k \in Keys
      BY <1>1, <1>5
    <2>3. SUFFICES n'[k] = AfterReturn(k)
      BY <1>3, <2>1, <2>3 DEF Balanced
    <2>4. call.key = k => (Counts <=> call.load = loads)
      BY <1>5, <2>2 DEF Counts, ProbesOn
    <2>5. CASE Counts /\ call.kind = "umount" /\ CountUmount(call.key)
      <3>1. CASE call.key = k
        <4>1. Takes(k) /\ ~Adds(k)
          BY <2>4, <2>5, <3>1 DEF Takes, Adds
        <4>2. n'[k] = IF n[k] > 0 THEN n[k] - 1 ELSE n[k]
          BY <1>1, <1>5, <2>2, <2>5, <3>1 DEF CountUmount, GetDeviceData
        <4>3. QED
          BY <1>2, <4>1, <4>2 DEF AfterReturn
      <3>2. CASE call.key # k
        <4>1. n'[k] = n[k]
          BY <1>1, <2>2, <2>5, <3>2 DEF CountUmount
        <4>2. QED
          BY <3>2, <4>1 DEF AfterReturn, Adds, Takes
      <3>3. QED
        BY <3>1, <3>2
    <2>6. CASE Counts /\ call.kind # "umount" /\ CountMount(call.key)
      <3>1. CASE call.key = k
        <4>1. Adds(k)
          BY <1>2, <2>4, <2>6, <3>1 DEF Adds, Pending
        <4>2. n'[k] = n[k] + 1
          BY <1>1, <1>5, <2>2, <2>6, <3>1 DEF CountMount, GetDeviceData
        <4>3. QED
          BY <1>2, <4>1, <4>2 DEF AfterReturn
      <3>2. CASE call.key # k
        <4>1. n'[k] = n[k]
          BY <1>1, <2>2, <2>6, <3>2 DEF CountMount
        <4>2. QED
          BY <3>2, <4>1 DEF AfterReturn, Adds, Takes
      <3>3. QED
        BY <3>1, <3>2
    <2>7. CASE ~Counts /\ UNCHANGED n
      BY <2>4, <2>7 DEF AfterReturn, Adds, Takes
    <2>8. QED
      BY <2>5, <2>6, <2>7 DEF CallReturns
  <1>6. QED
    BY <1>2, <1>3, <1>4, <1>5 DEF MarkInv, CountInv


(* What a step of the loader or of a request does to a key that is listed, *)
(* and to one that it puts on the list.                                    *)
LEMMA ActFacts ==
    ASSUME IInv, LoaderInv, RequestInv, ActStep, NEW k \in active'
    PROVE  /\ k \in active /\ "mounts" \in up' =>
                  "mounts" \in up /\ loads' = loads /\ n'[k] = n[k]
           /\ k \notin active => n'[k] = 0 /\ loads' = loads /\ k \in Keys
  <1>1. /\ active \subseteq Keys /\ n \in [Keys -> Nat]
        /\ req \in Requests \cup Answers \cup {NoReq}
    BY DEF IInv, TypeOK, RegTypeOK, ActTypeOK
  <1>2. CASE LoadModule
    BY <1>2 DEF LoadModule, LoaderInv
  <1>3. CASE SetupSucceeds
    BY <1>3 DEF SetupSucceeds, RequestInv
  <1>4. CASE UndoStep
    <2>1. active' \subseteq active /\ up' \subseteq up /\ loads' = loads
      BY <1>4 DEF UndoStep, Remove
    <2>2. Head(todo) # "devices"
      BY <1>4 DEF UndoStep, Remove
    <2>3. n' = n
      BY <1>4, <2>2 DEF UndoStep
    <2>4. QED
      BY <2>1, <2>3
  <1>5. CASE Reging
    <2>1. PICK x \in PathKeys(req.dev, req.via) :
             \/ UNCHANGED <<active, n>>
             \/ x \notin active /\ Insert(x)
             \/ Remove({x})
      BY <1>5 DEF Reging
    <2>2. x \in Keys
      BY <1>1, <1>5, <2>1, ReqFacts, KeyFacts DEF Reging
    <2>3. up' = up /\ loads' = loads
      BY <1>5 DEF Reging
    <2>4. CASE UNCHANGED <<active, n>>
      BY <2>3, <2>4
    <2>5. CASE x \notin active /\ Insert(x)
      BY <1>1, <2>2, <2>3, <2>5 DEF Insert
    <2>6. CASE Remove({x})
      BY <1>1, <2>2, <2>3, <2>6 DEF Remove
    <2>7. QED
      BY <2>1, <2>4, <2>5, <2>6
  <1>6. CASE \/ StartExit \/ SetupFails \/ DownRead \/ LookupFails \/ FullPathFails \/ Leave
             \/ \E r \in NewRequests, formed \in BOOLEAN : Enter(r, formed)
    BY <1>6 DEF StartExit, SetupFails, DownRead, LookupFails, FullPathFails, Leave, Enter,
                regvars
  <1>7. QED
    BY <1>2, <1>3, <1>4, <1>5, <1>6 DEF ActStep, ActNext, Loader, Request

(* The device of a mount that is under way, and will be counted right, is  *)
(* not misnamed.                                                           *)
LEMMA ArrivingFacts ==
    ASSUME IInv, NEW k \in Keys, Arriving(k)
    PROVE  /\ call.m \in Mnts /\ call.dev \in Devs \ Misnamed /\ TrueKey(call.dev) = k
           /\ mnt[call.m] = IF call.done THEN call.dev ELSE NoDev
  <1>1. /\ call.m \in Mnts /\ call.dev \in Devs /\ call.key \in {NoKey, MountKey(call.dev)}
        /\ mnt[call.m] = IF call.done THEN call.dev ELSE NoDev
        /\ call.key = k /\ TrueKey(call.dev) = k
    BY DEF IInv, CallInv, Arriving
  <1>2. MountKey(call.dev) = TrueKey(call.dev)
    BY <1>1, KeyFacts
  <1>3. QED
    BY <1>1, <1>2, KeyFacts

(* A key that is put on the list while it is in use is marked; one that is *)
(* not in use has no mount but the one that is under way.                  *)
LEMMA MarkAct ==
    ASSUME IInv, LoaderInv, RequestInv, MarkInv, ActStep
    PROVE  MarkInv'
  <1>1. /\ mnt' = mnt /\ call' = call
        /\ odd' = {k \in active' : IF k \in active THEN k \in odd ELSE InUse(k)}
    BY DEF ActStep, OddAfter
  <1>2. MountsUp' = MountsUp /\ \A k : MountsOf(k)' = MountsOf(k)
    BY <1>1 DEF MountsUp, MountsOf
  <1>3. MisnamedInv'
    <2>1. ASSUME NEW m \in MountsUp, mnt[m] \in Misnamed, NEW k \in KeysOf(mnt[m]),
                 k \in active'
          PROVE  k \in odd'
      <3>1. CASE k \in active
        BY <1>1, <2>1, <3>1 DEF MarkInv, MisnamedInv
      <3>2. CASE k \notin active
        <4>1. k \in Keys
          BY <2>1, <3>2, ActFacts
        <4>2. ~(Arriving(k) /\ m = call.m)
          BY <2>1, <4>1, ArrivingFacts DEF MountsUp
        <4>3. InUse(k)
          BY <2>1, <4>2 DEF InUse, MountsUp
        <4>4. QED
          BY <1>1, <2>1, <3>2, <4>3
      <3>3. QED
        BY <3>1, <3>2
    <2>2. ASSUME call.kind \in {"attach", "old"}, ~call.done, call.dev \in Misnamed,
                 NEW k \in KeysOf(call.dev), k \in active'
          PROVE  k \in odd'
      <3>1. CASE k \in active
        BY <1>1, <2>2, <3>1 DEF MarkInv, MisnamedInv
      <3>2. CASE k \notin active
        <4>1. k \in Keys
          BY <2>2, <3>2, ActFacts
        <4>2. ~Arriving(k)
          BY <2>2, <4>1, ArrivingFacts
        <4>3. InUse(k)
          BY <2>2, <4>2 DEF InUse
        <4>4. QED
          BY <1>1, <2>2, <3>2, <4>3
      <3>3. QED
        BY <3>1, <3>2
    <2>3. QED
      BY <1>1, <1>2, <2>1, <2>2 DEF MisnamedInv, KeysOf
  <1>4. ASSUME NEW k \in active' \ odd', "mounts" \in up'
        PROVE  CallCounts(k)' /\ Balanced(k)'
    <2>1. loads' = loads
      BY <1>4, ActFacts
    <2>2. (Adds(k)' <=> Adds(k)) /\ (Takes(k)' <=> Takes(k))
      BY <1>1, <2>1 DEF Adds, Takes
    <2>3. CallCounts(k) => CallCounts(k)'
      BY <1>1, <2>2 DEF CallCounts, Pending
    <2>4. CASE k \in active
      <3>1. k \notin odd
        BY <1>1, <1>4, <2>4
      <3>2. "mounts" \in up /\ n'[k] = n[k]
        BY <1>4, <2>4, ActFacts
      <3>3. CallCounts(k) /\ Balanced(k)
        BY <2>4, <3>1, <3>2 DEF MarkInv, CountInv
      <3>4. AfterReturn(k)' = AfterReturn(k)
        BY <1>1, <2>2, <3>2 DEF AfterReturn
      <3>5. QED
        BY <1>2, <2>3, <3>3, <3>4 DEF Balanced
    <2>5. CASE k \notin active
      <3>1. ~InUse(k) /\ n'[k] = 0 /\ k \in Keys
        BY <1>1, <1>4, <2>5, ActFacts
      <3>2. \A m \in MountsUp : k \in KeysOf(mnt[m]) => Arriving(k) /\ m = call.m
        BY <3>1 DEF InUse, MountsUp
      <3>3. call.kind \in {"attach", "old", "remount"}
               /\ k \in KeysOf(call.dev) \cup {call.key} => Arriving(k)
        BY <3>1 DEF InUse
      <3>4. /\ call \in CallState /\ CallInv /\ k # NoKey
        BY <3>1, KeyFacts DEF IInv, TypeOK, MpTypeOK, CallState
      <3>5. CASE Arriving(k)
        <4>1. /\ call.m \in Mnts /\ call.dev \in Devs /\ TrueKey(call.dev) = k
              /\ mnt[call.m] = IF call.done THEN call.dev ELSE NoDev
          BY <3>1, <3>5, ArrivingFacts
        <4>2. MountsOf(k) = IF call.done THEN {call.m} ELSE {}
          BY <3>2, <4>1, DevsAssumption DEF MountsOf, MountsUp, KeysOf
        <4>3. Adds(k) /\ ~Takes(k) /\ call.kind = "attach"
          BY <3>5 DEF Arriving, Adds, Takes
        <4>4. CallCounts(k)
          BY <4>1, <4>3 DEF CallCounts
        <4>5. Cardinality(MountsOf(k)) = IF call.done THEN 1 ELSE 0
          BY <4>2, FS_EmptySet, FS_Singleton
        <4>6. AfterReturn(k)' = IF call.done THEN 1 ELSE 0
          BY <1>1, <2>2, <3>1, <4>3 DEF AfterReturn
        <4>7. QED
          BY <1>2, <2>3, <4>4, <4>5, <4>6 DEF Balanced
      <3>6. CASE ~Arriving(k)
        <4>1. MountsOf(k) = {}
          BY <3>2, <3>6 DEF MountsOf, MountsUp, KeysOf
        <4>2. ~Adds(k)
          <5>1. call.kind \in {"attach", "old", "remount"} => call.key # k
            BY <3>3, <3>6
          <5>2. call.kind = "move" => call.key # k
            BY <3>4 DEF CallInv
          <5>3. call.kind \in {"none", "attach", "move", "old", "remount", "umount"}
            BY <3>4 DEF CallState, Kinds
          <5>4. QED
            BY <5>1, <5>2, <5>3 DEF Adds
        <4>3. call.kind \in {"attach", "old"} => TrueKey(call.dev) # k
          BY <3>3, <3>6 DEF KeysOf
        <4>4. call.kind = "umount" /\ ~call.done =>
                 TrueKey(mnt[call.m]) # k /\ call.key # k
          BY <3>2, <3>4, <3>6 DEF CallInv, MountsUp, KeysOf
        <4>5. CallCounts(k)
          BY <4>2, <4>3, <4>4 DEF CallCounts, Takes
        <4>6. Cardinality(MountsOf(k)) = 0
          BY <4>1, FS_EmptySet
        <4>7. AfterReturn(k)' = 0
          BY <2>2, <3>1, <4>2 DEF AfterReturn
        <4>8. QED
          BY <1>2, <2>3, <4>5, <4>6, <4>7 DEF Balanced
      <3>7. QED
        BY <3>5, <3>6
    <2>6. QED
      BY <2>4, <2>5
  <1>5. QED
    BY <1>2, <1>3, <1>4 DEF MarkInv, CountInv

LEMMA MarkStep ==
    ASSUME IInv, LoaderInv, RequestInv, MarkInv, [Next]_vars
    PROVE  MarkInv'
  <1>1. CASE UNCHANGED vars
    <2>1. /\ mnt' = mnt /\ call' = call /\ odd' = odd /\ active' = active /\ up' = up
          /\ n' = n /\ loads' = loads
      BY <1>1 DEF vars, regvars, mpvars
    <2>2. MountsUp' = MountsUp /\ \A k : MountsOf(k)' = MountsOf(k)
      BY <2>1 DEF MountsUp, MountsOf
    <2>3. MisnamedInv'
      BY <2>1, <2>2 DEF MarkInv, MisnamedInv, KeysOf
    <2>4. CountInv'
      BY <2>1, <2>2 DEF MarkInv, CountInv, CallCounts, Balanced, AfterReturn, Adds, Takes,
                        Pending
    <2>5. QED
      BY <2>2, <2>3, <2>4 DEF MarkInv
  <1>2. CASE MountStep
    BY <1>2, MarkEntry, MarkFails, MarkVanish, MarkSucceeds, MarkReturns
       DEF MountStep, MountNext
  <1>3. CASE ActStep
    BY <1>3, MarkAct
  <1>4. QED
    BY <1>1, <1>2, <1>3 DEF Next

(***************************************************************************)
(* Between two calls, n_currently_mounted of an active device is the       *)
(* number of its mounts, for every number of devices and mounts, also when *)
(* the device was activated, or the module loaded again, between the two   *)
(* handlers of a mount or an umount.  Not so for the keys in odd: those of *)
(* a device that is misnamed, that was mounted when it was activated, or   *)
(* to which mount(2), an umount below /run/systemd, a mount that went with *)
(* its name space or a handler without memory happened.                    *)
(***************************************************************************)
THEOREM CountsAreMounts ==
    ASSUME ~ReqMajor
    PROVE  Spec => []CountMatches
  <1>1. IInv /\ LoaderInv /\ RequestInv /\ MarkInv /\ [Next]_vars => MarkInv'
    BY MarkStep
  <1>2. IInv /\ MarkInv => CountMatches
    <2> SUFFICES ASSUME IInv, MarkInv, ~Pending, NEW k \in active \ odd, "mounts" \in up
                 PROVE  n[k] = Cardinality(MountsOf(k))
      BY DEF CountMatches
    <2>1. Balanced(k)
      BY DEF MarkInv, CountInv
    <2>2. AfterReturn(k) = n[k]
      BY DEF IInv, CallInv, AfterReturn
    <2>3. QED
      BY <2>1, <2>2 DEF Balanced
  <1>3. QED
    BY <1>1, <1>2, Typed, Loading, InitMark, PTL DEF Spec


=============================================================================
