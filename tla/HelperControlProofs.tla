------------------------- MODULE HelperControlProofs -------------------------
(***************************************************************************)
(* ControlInvariant is an invariant of HelperControl for every number of   *)
(* package versions and faults, and the four action properties of the run  *)
(* follow from it.                                                         *)
(***************************************************************************)
EXTENDS HelperControlProps, TLAPS

\* The loops over the files: what is first, and what is left after it.
LEMMA Order ==
  /\ FileOrder = <<"binary", "controller", "rule">>
  /\ Files = {"binary", "controller", "rule"}
<1> QED
  BY DEF FileOrder, Files

LEMMA Loops ==
  /\ Head(FileOrder) = "binary" /\ Tail(FileOrder) = <<"controller", "rule">> /\ Len(FileOrder) = 3
  /\ Head(<<"controller", "rule">>) = "controller" /\ Tail(<<"controller", "rule">>) = <<"rule">>
  /\ Len(<<"controller", "rule">>) = 2
  /\ Head(<<"rule">>) = "rule" /\ Tail(<<"rule">>) = <<>> /\ Len(<<"rule">>) = 1
  /\ FileOrder # <<"controller", "rule">> /\ FileOrder # <<"rule">>
  /\ <<"controller", "rule">> # <<"rule">>
<1> QED
  BY DEF FileOrder

LEMMA RemovalLoops ==
  ASSUME NEW todo \in Removals
  PROVE  /\ Len(todo) # 1 => Tail(todo) \in Removals
         /\ Len(todo) = 1 => Tail(todo) = <<>>
<1>1. CASE todo = <<"data", "rule", "binary", "controller">>
  BY <1>1 DEF Removals
<1>2. CASE todo = <<"rule", "binary", "controller">>
  BY <1>2 DEF Removals
<1>3. CASE todo = <<"binary", "controller">>
  BY <1>3 DEF Removals
<1>4. CASE todo = <<"controller">>
  BY <1>4 DEF Removals
<1> QED
  BY <1>1, <1>2, <1>3, <1>4 DEF Removals

-----------------------------------------------------------------------------
(* What each assignment of ctl keeps. *)

Task(c) == <<c.action, c.own, c.payload, c.old, c.crossed>>
Flags(c) == <<c.rollback, c.blocked, c.since, c.torn>>
Aim(c) == <<c.want, c.after, c.failing>>

LEMMA Ended ==
  ASSUME NEW c \in Controls, NEW r \in {"ok", "failed"}, NEW d,
         d = [c EXCEPT !.pc = "idle", !.result = r]
  PROVE  d \in Controls /\ d.pc = "idle" /\ d.result = r /\ Task(d) = Task(c) /\ Flags(d) = Flags(c)
<1> QED
  BY DEF Controls, Pcs, Task, Flags

LEMMA Stopped ==
  ASSUME NEW c \in Controls, NEW d,
         d = [c EXCEPT !.pc = "idle", !.result = "failed", !.torn = c.rollback]
  PROVE  /\ d \in Controls /\ d.pc = "idle" /\ d.result = "failed" /\ Task(d) = Task(c)
         /\ d.torn = c.rollback /\ d.rollback = c.rollback /\ d.blocked = c.blocked
<1> QED
  BY DEF Controls, Pcs, Task

LEMMA Rolled ==
  ASSUME NEW c \in Controls, NEW d, d = [c EXCEPT !.pc = "stop", !.rollback = TRUE]
  PROVE  /\ d \in Controls /\ d.pc = "stop" /\ d.rollback
         /\ Task(d) = Task(c) /\ Aim(d) = Aim(c)
         /\ d.todo = c.todo /\ d.blocked = c.blocked /\ d.since = c.since /\ d.torn = c.torn
<1> QED
  BY DEF Controls, Pcs, Task, Aim

LEMMA Moved ==
  ASSUME NEW c \in Controls, NEW p \in Pcs, NEW d, d = [c EXCEPT !.pc = p]
  PROVE  /\ d \in Controls /\ d.pc = p /\ d.todo = c.todo
         /\ Task(d) = Task(c) /\ Aim(d) = Aim(c) /\ Flags(d) = Flags(c)
<1> QED
  BY DEF Controls, Task, Aim, Flags

LEMMA Aborted ==
  ASSUME NEW c \in Controls, left \in 0 .. Faults, NEW d,
         d = [c EXCEPT !.pc = "start", !.want = c.own, !.after = "failed", !.failing = "failed",
                       !.blocked = TRUE, !.since = left, !.torn = c.rollback]
  PROVE  /\ d \in Controls /\ d.pc = "start" /\ d.want = c.own /\ d.after = "failed"
         /\ d.failing = "failed" /\ d.since = left /\ d.torn = c.rollback
         /\ d.rollback = c.rollback /\ Task(d) = Task(c)
<1> QED
  BY DEF Controls, Pcs, Task

\* No control action, or one that has been killed.
LEMMA Forgotten ==
  /\ NoControl \in Controls /\ NoControl.pc = "idle"
  /\ \A d : d = [NoControl EXCEPT !.result = "killed"] => d \in Controls /\ d.pc = "idle"
<1>1. AllAt(0) \in [Files -> Versions] /\ 0 \in Versions /\ 0 \in 0 .. Faults
  BY ControlAssumption DEF AllAt, Versions
<1>2. NoControl \in Controls /\ NoControl.pc = "idle"
  BY <1>1 DEF NoControl, Controls, Pcs
<1>3. ASSUME NEW d, d = [NoControl EXCEPT !.result = "killed"]
      PROVE  d \in Controls /\ d.pc = "idle"
  BY <1>2, <1>3 DEF Controls
<1> QED
  BY <1>2, <1>3

-----------------------------------------------------------------------------
(* The two ways in which an action goes on after a start. *)

\* An action that ends relies on nothing any more.
LEMMA EndIsSound ==
  ASSUME ControlInvariant, TypeOK', LockKnown', ctl'.pc = "idle",
         inst' = inst, queue' = queue, lock' \in {"control", "install"} => ~open'
  PROVE  ControlInvariant'
<1> USE DEF ControlInvariant
<1>1. Quiet' /\ StepsApart' /\ CrossedKnown'
  BY DEF Quiet, StepsApart, CrossedKnown
<1>2. UpgradeKnown' /\ AbortKnown'
  BY DEF UpgradeKnown, AbortKnown
<1> QED
  BY <1>1, <1>2

\* A rollback starts with a stop, from a step of an upgrade, and relies on nothing.
LEMMA RollbackIsSound ==
  ASSUME ControlInvariant, TypeOK', LockKnown', ctl.pc # "idle", ctl.action = "upgrade",
         ~ctl.blocked, RollBack, UNCHANGED world, lock' \in {"control", "install"} => ~open'
  PROVE  ControlInvariant'
<1> USE DEF ControlInvariant
<1>1. /\ ctl'.pc = "stop" /\ ctl'.rollback /\ Task(ctl') = Task(ctl) /\ ~ctl'.blocked
      /\ UNCHANGED <<package, open, queue, inst>>
  BY Rolled DEF TypeOK, RollBack, world
<1>2. Quiet' /\ StepsApart' /\ CrossedKnown'
  BY <1>1 DEF Quiet, StepsApart, CrossedKnown, Task
<1>3. UpgradeKnown' /\ AbortKnown'
  BY <1>1 DEF UpgradeKnown, OldInPlace, Starting, AbortKnown, Task
<1> QED
  BY <1>2, <1>3

\* What the end of the process leaves.
LEMMA ProcessEnds ==
  ASSUME ControlInvariant, ProcEnds
  PROVE  /\ proc' = NoProc /\ proc' \in [version : Versions, serving : BOOLEAN] /\ ~proc'.serving
         /\ record' \in {"none", "live", "dead"}
         /\ lock' \in {"none", "control", "install"}
         /\ lock' = "control" <=> lock = "control"
         /\ lock' = "install" <=> lock = "install"
<1> QED
  BY ControlAssumption DEF ControlInvariant, TypeOK, ProcEnds, NoProc, Versions

\* The next step after a start, when the process and the lock are as they should be.
LEMMA FollowIsSound ==
  ASSUME ControlInvariant, Starting, Follow(ctl.after) \/ Follow(ctl.failing),
         UNCHANGED <<files, backup, world>>, left' \in 0 .. Faults,
         proc' \in [version : Versions, serving : BOOLEAN], record' \in {"none", "live", "dead"},
         lock' \in {"none", "helper", "install"}, proc'.serving <=> lock' = "helper",
         lock' = "install" <=> lock = "install",
         (proc' # NoProc /\ ~proc'.serving) => record' = "live", proc'.serving => proc' # NoProc
  PROVE  ControlInvariant'
<1> USE DEF ControlInvariant
<1>1. PICK next \in {"ok", "failed", "rollback"} :
        Follow(next) /\ (next = "rollback" => ctl.failing = "rollback")
  BY DEF TypeOK, Controls
<1>2. UNCHANGED <<files, backup, package, open, queue, inst>> /\ ctl \in Controls
  BY DEF world, TypeOK
<1>3. CASE next = "rollback"
  <2>1. RollBack /\ ctl.action = "upgrade" /\ ~ctl.blocked
    BY <1>1, <1>3 DEF Follow, StepsApart, AbortKnown, Starting
  <2>2. ctl' \in Controls /\ ctl'.pc = "stop"
    BY <1>2, <2>1, Rolled DEF RollBack
  <2>3. TypeOK'
    BY <1>2, <2>2 DEF TypeOK
  <2>4. LockKnown'
    BY <1>2, <2>2 DEF LockKnown
  <2> QED
    BY <1>2, <2>1, <2>3, <2>4, RollbackIsSound DEF Starting, Quiet
<1>4. CASE next # "rollback"
  <2>0. next \in {"ok", "failed"} /\ ctl' = [ctl EXCEPT !.pc = "idle", !.result = next]
    BY <1>1, <1>4 DEF Follow, Finish
  <2>1. ctl' \in Controls /\ ctl'.pc = "idle"
    BY <1>2, <2>0, Ended
  <2>2. TypeOK'
    BY <1>2, <2>1 DEF TypeOK
  <2>3. LockKnown'
    BY <1>2, <2>1 DEF LockKnown
  <2> QED
    BY <1>2, <2>1, <2>2, <2>3, EndIsSound DEF Quiet
<1> QED
  BY <1>3, <1>4

-----------------------------------------------------------------------------
(* The steps of startPrivilegedHelperVersion *)

LEMMA SpawnStep == ASSUME ControlInvariant, Spawn PROVE ControlInvariant'
<1> USE DEF ControlInvariant
<1>1. /\ ctl \in Controls /\ ctl.pc = "start"
      /\ UNCHANGED <<files, backup, record, lock, left, package, open, queue, inst>>
  BY DEF Spawn, TypeOK, world
<1>2. files["binary"] \in Versions
  BY Order DEF TypeOK
<1>3. CASE proc' = proc /\ (Follow(ctl.after) \/ Follow(ctl.failing))
  <2>1. UNCHANGED <<files, backup, world>> /\ left' \in 0 .. Faults
    BY <1>1 DEF world, TypeOK
  <2>2. lock \in {"none", "helper", "install"}
    BY <1>1 DEF TypeOK, LockKnown
  <2> QED
    BY <1>1, <1>3, <2>1, <2>2, FollowIsSound DEF TypeOK, LockKnown, Starting
<1>4. CASE /\ ctl' = [ctl EXCEPT !.pc = "record"] /\ ~Running /\ lock = "none"
           /\ proc' = [version |-> files["binary"], serving |-> FALSE] /\ files["binary"] # 0
  <2>1. /\ ctl' \in Controls /\ ctl'.pc = "record" /\ ctl'.todo = ctl.todo
        /\ Task(ctl') = Task(ctl) /\ Aim(ctl') = Aim(ctl) /\ Flags(ctl') = Flags(ctl)
    BY <1>1, <1>4, Moved DEF Pcs
  <2>2. /\ proc' \in [version : Versions, serving : BOOLEAN] /\ proc'.version = files["binary"]
        /\ ~proc'.serving /\ proc' # NoProc
    BY <1>2, <1>4 DEF NoProc
  <2>3. TypeOK'
    BY <1>1, <2>1, <2>2 DEF TypeOK
  <2>4. LockKnown' /\ Quiet'
    BY <1>1, <1>4, <2>1, <2>2 DEF LockKnown, Quiet
  <2>5. StepsApart' /\ CrossedKnown'
    BY <1>1, <2>1 DEF StepsApart, CrossedKnown, Task, Aim, Flags
  <2>6. UpgradeKnown'
    BY <1>1, <2>1, <2>2
    DEF UpgradeKnown, OldInPlace, NewInPlace, Behind, Starting, Task, Aim, Flags
  <2>7. AbortKnown'
    BY <1>1, <2>1, <2>2 DEF AbortKnown, Starting, Task, Aim, Flags
  <2> QED
    BY <2>3, <2>4, <2>5, <2>6, <2>7
<1> QED
  BY <1>3, <1>4 DEF Spawn

LEMMA WriteRecordStep == ASSUME ControlInvariant, WriteRecord PROVE ControlInvariant'
<1> USE DEF ControlInvariant
<1>1. /\ ctl \in Controls /\ ctl.pc = "record"
      /\ UNCHANGED <<files, backup, package, open, queue, inst>>
  BY DEF WriteRecord, TypeOK, world
<1>2. CASE /\ record' = IF proc = NoProc THEN "dead" ELSE "live"
           /\ ctl' = [ctl EXCEPT !.pc = "await"] /\ UNCHANGED <<proc, lock, left>>
  <2>1. /\ ctl' \in Controls /\ ctl'.pc = "await" /\ ctl'.todo = ctl.todo
        /\ Task(ctl') = Task(ctl) /\ Aim(ctl') = Aim(ctl) /\ Flags(ctl') = Flags(ctl)
    BY <1>1, <1>2, Moved DEF Pcs
  <2>2. TypeOK'
    BY <1>1, <1>2, <2>1 DEF TypeOK
  <2>3. LockKnown' /\ Quiet'
    BY <1>1, <1>2, <2>1 DEF LockKnown, Quiet
  <2>4. StepsApart' /\ CrossedKnown'
    BY <1>1, <2>1 DEF StepsApart, CrossedKnown, Task, Aim, Flags
  <2>5. UpgradeKnown'
    BY <1>1, <1>2, <2>1
    DEF UpgradeKnown, OldInPlace, NewInPlace, Behind, Starting, Task, Aim, Flags
  <2>6. AbortKnown'
    BY <1>1, <1>2, <2>1 DEF AbortKnown, Starting, Task, Aim, Flags
  <2> QED
    BY <2>2, <2>3, <2>4, <2>5, <2>6
<1>3. CASE Fault /\ ProcEnds /\ Follow(ctl.failing)
  <2>1. UNCHANGED <<files, backup, world>> /\ left' \in 0 .. Faults
    BY <1>1, <1>3, ControlAssumption DEF world, TypeOK, Fault
  <2>2. lock # "control"
    BY <1>1 DEF LockKnown
  <2> QED
    BY <1>1, <1>3, <2>1, <2>2, FollowIsSound, ProcessEnds DEF Starting
<1> QED
  BY <1>2, <1>3 DEF WriteRecord

LEMMA AwaitHealthStep == ASSUME ControlInvariant, AwaitHealth PROVE ControlInvariant'
<1> USE DEF ControlInvariant
<1>1. /\ ctl \in Controls /\ ctl.pc = "await" /\ lock \in {"none", "helper", "install"}
      /\ UNCHANGED <<files, backup, world>>
  BY DEF AwaitHealth, TypeOK, LockKnown
<1>2. CASE (Follow(ctl.after) \/ Follow(ctl.failing)) /\ UNCHANGED <<proc, record, lock, left>>
  BY <1>1, <1>2, FollowIsSound DEF TypeOK, LockKnown, Starting
<1>3. CASE Follow(ctl.failing) /\ ProcEnds /\ (Fault \/ UNCHANGED left)
  <2>1. left' \in 0 .. Faults
    BY <1>3, ControlAssumption DEF TypeOK, Fault
  <2> QED
    BY <1>1, <1>3, <2>1, FollowIsSound, ProcessEnds DEF Starting
<1> QED
  BY <1>2, <1>3 DEF AwaitHealth

-----------------------------------------------------------------------------
(* The steps of stopPrivilegedHelper *)

LEMMA TerminateStep == ASSUME ControlInvariant, Terminate PROVE ControlInvariant'
<1> USE DEF ControlInvariant
<1>1. /\ ctl \in Controls /\ ctl.pc = "stop" /\ ~ctl.blocked
      /\ UNCHANGED <<files, backup, package, open, queue, inst>>
  BY DEF Terminate, TypeOK, world, AbortKnown, Starting
<1>2. CASE /\ ctl' = [ctl EXCEPT !.pc = "recover"] /\ UNCHANGED left
           /\ (Running /\ ProcEnds) \/ (~Running /\ UNCHANGED <<proc, record, lock>>)
  <2>1. /\ ctl' \in Controls /\ ctl'.pc = "recover" /\ ctl'.todo = ctl.todo
        /\ Task(ctl') = Task(ctl) /\ Aim(ctl') = Aim(ctl) /\ Flags(ctl') = Flags(ctl)
    BY <1>1, <1>2, Moved DEF Pcs
  <2>2. /\ proc' = NoProc \/ proc'.serving
        /\ proc' \in [version : Versions, serving : BOOLEAN] /\ record' \in {"none", "live", "dead"}
        /\ lock' = "control" <=> lock = "control"
        /\ lock' = "install" <=> lock = "install"
        /\ lock' \in {"none", "helper", "control", "install"}
        /\ proc'.serving <=> lock' = "helper"
        /\ proc'.serving => proc' # NoProc
    <3>1. CASE Running /\ ProcEnds
      BY <3>1, ProcessEnds
    <3>2. CASE ~Running /\ UNCHANGED <<proc, record, lock>>
      BY <1>1, <3>2 DEF TypeOK, LockKnown, Running
    <3> QED
      BY <1>2, <3>1, <3>2
  <2>3. TypeOK'
    BY <1>1, <1>2, <2>1, <2>2 DEF TypeOK
  <2>4. LockKnown' /\ Quiet'
    BY <1>1, <2>1, <2>2 DEF LockKnown, Quiet
  <2>5. StepsApart' /\ CrossedKnown'
    BY <1>1, <2>1 DEF StepsApart, CrossedKnown, Task, Aim, Flags
  <2>6. UpgradeKnown' /\ AbortKnown'
    BY <1>1, <2>1 DEF UpgradeKnown, AbortKnown, OldInPlace, Starting, Task, Aim, Flags
  <2> QED
    BY <2>3, <2>4, <2>5, <2>6
<1>3. CASE Fault /\ StopFails /\ UNCHANGED <<proc, record, lock>>
  <2>1. ctl' \in Controls /\ ctl'.pc = "idle"
    BY <1>1, <1>3, Stopped DEF StopFails
  <2>2. TypeOK' /\ LockKnown'
    BY <1>1, <1>3, <2>1, ControlAssumption DEF TypeOK, LockKnown, Fault
  <2> QED
    BY <1>1, <1>3, <2>1, <2>2, EndIsSound DEF Quiet
<1> QED
  BY <1>2, <1>3 DEF Terminate

LEMMA AfterStopIsSound ==
  ASSUME ControlInvariant, ctl.pc = "recover", lock = "none", AfterStop, open' = FALSE,
         record' = "none", UNCHANGED <<left, files, backup, package, proc, lock, queue, inst>>
  PROVE  ControlInvariant'
<1> USE DEF ControlInvariant
<1>1. /\ ctl \in Controls /\ ~ctl.blocked /\ ctl.own \in Versions /\ proc = NoProc /\ ~proc.serving
      /\ ctl.own # 0
  BY DEF TypeOK, Controls, LockKnown, Quiet, AbortKnown, Starting
<1>2. FileOrder \in Suffixes \cup Removals \cup {<<>>} /\ "restore" \in Pcs /\ "backup" \in Pcs
  BY DEF Suffixes, Pcs
<1>t. ASSUME ctl' \in Controls PROVE TypeOK'
  BY <1>t DEF TypeOK
<1>3. CASE ctl.rollback /\ ctl' = [ctl EXCEPT !.pc = "restore", !.todo = RestoreOrder]
  <2>1. /\ ctl' \in Controls /\ ctl'.pc = "restore" /\ ctl'.todo = FileOrder
        /\ Task(ctl') = Task(ctl) /\ Aim(ctl') = Aim(ctl) /\ Flags(ctl') = Flags(ctl)
    BY <1>1, <1>2, <1>3 DEF RestoreOrder, Controls, Task, Aim, Flags
  <2>2. LockKnown' /\ Quiet'
    BY <1>1, <2>1 DEF LockKnown, Quiet
  <2>3. StepsApart' /\ CrossedKnown'
    BY <1>3, <2>1 DEF StepsApart, CrossedKnown, Task, Aim, Flags, Suffixes
  <2>4. UpgradeKnown' /\ AbortKnown'
    BY <1>1, <2>1, Loops DEF UpgradeKnown, AbortKnown, OldInPlace, Behind, Starting, Task, Aim, Flags
  <2> QED
    BY <1>t, <2>1, <2>2, <2>3, <2>4
<1>4. CASE Finish("ok")
  <2>1. ctl' \in Controls /\ ctl'.pc = "idle"
    BY <1>1, <1>4, Ended DEF Finish
  <2>2. LockKnown'
    BY <1>1, <2>1 DEF LockKnown
  <2> QED
    BY <1>t, <2>1, <2>2, EndIsSound
<1>5. CASE ~ctl.rollback /\ ctl.action = "restart" /\ CallStart(ctl.own, "ok", "failed")
  <2>1. /\ ctl' \in Controls /\ ctl'.pc = "start" /\ ctl'.failing = "failed"
        /\ Task(ctl') = Task(ctl) /\ Flags(ctl') = Flags(ctl)
    BY <1>1, <1>5 DEF CallStart, Controls, Pcs, Task, Flags
  <2>2. LockKnown' /\ Quiet'
    BY <1>1, <2>1 DEF LockKnown, Quiet
  <2>3. StepsApart' /\ CrossedKnown'
    BY <1>5, <2>1 DEF StepsApart, CrossedKnown, Task, Flags
  <2>4. UpgradeKnown' /\ AbortKnown'
    BY <1>1, <1>5, <2>1 DEF UpgradeKnown, AbortKnown, Task, Flags
  <2> QED
    BY <1>t, <2>1, <2>2, <2>3, <2>4
<1>6. CASE /\ ~ctl.rollback /\ ctl.action = "upgrade"
           /\ ctl' = [ctl EXCEPT !.pc = "backup", !.todo = FileOrder]
  <2>1. /\ ctl' \in Controls /\ ctl'.pc = "backup" /\ ctl'.todo = FileOrder
        /\ Task(ctl') = Task(ctl) /\ Aim(ctl') = Aim(ctl) /\ Flags(ctl') = Flags(ctl)
    BY <1>1, <1>2, <1>6 DEF Controls, Task, Aim, Flags
  <2>2. LockKnown' /\ Quiet'
    BY <1>1, <2>1 DEF LockKnown, Quiet
  <2>3. StepsApart' /\ CrossedKnown'
    BY <1>6, <2>1 DEF StepsApart, CrossedKnown, Task, Aim, Flags, Suffixes
  <2>4. UpgradeKnown' /\ AbortKnown'
    BY <1>1, <1>6, <2>1 DEF UpgradeKnown, AbortKnown, OldInPlace, Starting, Task, Aim, Flags
  <2> QED
    BY <1>t, <2>1, <2>2, <2>3, <2>4
<1>7. CASE ~ctl.rollback /\ ctl.action \in {"uninstall", "purge"} /\ ctl' = [ctl EXCEPT !.pc = "clear"]
  <2>1. /\ ctl' \in Controls /\ ctl'.pc = "clear" /\ ctl'.todo = ctl.todo
        /\ Task(ctl') = Task(ctl) /\ Aim(ctl') = Aim(ctl) /\ Flags(ctl') = Flags(ctl)
    BY <1>1, <1>7, Moved DEF Pcs
  <2>2. LockKnown' /\ Quiet'
    BY <1>1, <2>1 DEF LockKnown, Quiet
  <2>3. StepsApart' /\ CrossedKnown'
    BY <1>7, <2>1 DEF StepsApart, CrossedKnown, Task, Aim, Flags
  <2>4. UpgradeKnown' /\ AbortKnown'
    BY <1>1, <1>7, <2>1 DEF UpgradeKnown, AbortKnown, Starting, Task, Aim, Flags
  <2> QED
    BY <1>t, <2>1, <2>2, <2>3, <2>4
<1> QED
  BY <1>3, <1>4, <1>5, <1>6, <1>7 DEF AfterStop

LEMMA RecoverStep == ASSUME ControlInvariant, Recover PROVE ControlInvariant'
<1> USE DEF ControlInvariant
<1>1. /\ ctl \in Controls /\ ctl.pc = "recover" /\ ~ctl.blocked /\ left \in 0 .. Faults /\ ctl.own # 0
      /\ UNCHANGED <<files, backup, package, proc, lock, queue, inst>>
  BY DEF Recover, TypeOK, AbortKnown, Starting
<1>2. CASE lock = "none" /\ AfterStop /\ open' = FALSE /\ record' = "none" /\ UNCHANGED left
  BY <1>1, <1>2, AfterStopIsSound
<1>3. CASE lock = "none" /\ Fault /\ StopFails /\ open' = FALSE /\ UNCHANGED record
  <2>1. ctl' \in Controls /\ ctl'.pc = "idle"
    BY <1>1, <1>3, Stopped DEF StopFails
  <2>2. left' \in 0 .. Faults
    BY <1>1, <1>3, ControlAssumption DEF Fault
  <2>3. TypeOK'
    BY <1>1, <1>3, <2>1, <2>2 DEF TypeOK
  <2>4. LockKnown'
    BY <1>1, <1>3, <2>1 DEF LockKnown
  <2> QED
    BY <1>1, <1>3, <2>1, <2>3, <2>4, EndIsSound
<1>4. CASE RestartAfterAbort /\ UNCHANGED <<open, record, left>>
  <2>1. /\ ctl' \in Controls /\ ctl'.pc = "start" /\ ctl'.want = ctl.own /\ ctl'.after = "failed"
        /\ ctl'.failing = "failed" /\ ctl'.since = left /\ ctl'.torn = ctl.rollback
        /\ ctl'.rollback = ctl.rollback /\ Task(ctl') = Task(ctl)
    BY <1>1, <1>4, Aborted, ZenonT(40) DEF RestartAfterAbort
  <2>2. TypeOK'
    BY <1>1, <1>4, <2>1 DEF TypeOK
  <2>3. LockKnown' /\ Quiet'
    BY <1>1, <1>4, <2>1 DEF LockKnown, Quiet
  <2>4. StepsApart' /\ CrossedKnown'
    BY <1>1, <2>1 DEF StepsApart, CrossedKnown, Task
  <2>5. UpgradeKnown'
    BY <1>1, <2>1 DEF UpgradeKnown, OldInPlace, Starting, StepsApart, Task
  <2>6. AbortKnown'
    BY <1>1, <1>4, <2>1 DEF AbortKnown, Starting, Task, TypeOK
  <2> QED
    BY <2>2, <2>3, <2>4, <2>5, <2>6
<1> QED
  BY <1>2, <1>3, <1>4 DEF Recover

-----------------------------------------------------------------------------
(* The steps of upgradePrivilegedHelper *)

\* One round of a loop over the files.
LEMMA SuffixLoops ==
  ASSUME NEW todo \in Suffixes
  PROVE  /\ Len(todo) # 1 => Tail(todo) \in Suffixes
         /\ Len(todo) = 1 => Tail(todo) = <<>>
         /\ Head(todo) \in Files
<1>1. CASE todo = FileOrder
  BY <1>1, Loops, Order DEF Suffixes
<1>2. CASE todo = <<"controller", "rule">>
  BY <1>2, Loops, Order DEF Suffixes
<1>3. CASE todo = <<"rule">>
  BY <1>3, Loops, Order DEF Suffixes
<1> QED
  BY <1>1, <1>2, <1>3 DEF Suffixes

\* A round that writes one file of value brings the files nearer to value.
LEMMA WritesOne ==
  ASSUME NEW now \in [Files -> Versions], NEW todo \in Suffixes, NEW value \in [Files -> Versions],
         Behind(now, todo, value), NEW next, next = [now EXCEPT ![Head(todo)] = value[Head(todo)]]
  PROVE  /\ Len(todo) # 1 => Behind(next, Tail(todo), value)
         /\ Len(todo) = 1 => next = value
<1>1. CASE todo = FileOrder
  BY <1>1, Loops, Order DEF Behind
<1>2. CASE todo = <<"controller", "rule">>
  BY <1>2, Loops, Order DEF Behind
<1>3. CASE todo = <<"rule">>
  BY <1>3, Loops, Order DEF Behind
<1> QED
  BY <1>1, <1>2, <1>3 DEF Suffixes

\* What a round leaves of ctl, when the loop goes on or ends.
LEMMA Round ==
  ASSUME ctl \in Controls, ctl.todo \in Suffixes, NEW p \in Pcs, Done(p)
  PROVE  /\ ctl' \in Controls /\ ctl'.todo = Tail(ctl.todo)
         /\ Task(ctl') = Task(ctl) /\ Aim(ctl') = Aim(ctl) /\ Flags(ctl') = Flags(ctl)
         /\ \/ Len(ctl.todo) = 1 /\ ctl'.pc = p
            \/ Len(ctl.todo) # 1 /\ ctl'.pc = ctl.pc /\ ctl'.todo \in Suffixes
<1>1. Tail(ctl.todo) \in Suffixes \cup Removals \cup {<<>>}
  BY SuffixLoops
<1>2. CASE Len(ctl.todo) = 1
  <2>1. ctl' = [ctl EXCEPT !.todo = Tail(ctl.todo), !.pc = p]
    BY <1>2 DEF Done
  <2> QED
    BY <1>1, <1>2, <2>1 DEF Controls, Task, Aim, Flags
<1>3. CASE Len(ctl.todo) # 1
  <2>1. ctl' = [ctl EXCEPT !.todo = Tail(ctl.todo), !.pc = ctl.pc] /\ ctl.pc \in Pcs
    BY <1>3 DEF Done, Controls
  <2> QED
    BY <1>1, <1>3, <2>1, SuffixLoops DEF Controls, Task, Aim, Flags
<1> QED
  BY <1>2, <1>3

LEMMA BackUpStep == ASSUME ControlInvariant, BackUp PROVE ControlInvariant'
<1> USE DEF ControlInvariant
<1>1. /\ ctl \in Controls /\ ctl.pc = "backup" /\ ~ctl.blocked /\ ctl.own \in Versions
      /\ ctl.own # 0 /\ ctl.action = "upgrade" /\ ctl.todo \in Suffixes /\ proc = NoProc
      /\ UNCHANGED <<files, proc, record, lock, package, open, queue, inst>>
  BY DEF BackUp, TypeOK, world, AbortKnown, Starting, Controls, StepsApart, Quiet
<1>2. CASE backup' = [backup EXCEPT ![Todo] = ctl.old[Todo]] /\ Done("take") /\ UNCHANGED left
  <2>1. /\ ctl' \in Controls /\ ctl'.pc \in {"backup", "take"}
        /\ Task(ctl') = Task(ctl) /\ Aim(ctl') = Aim(ctl) /\ Flags(ctl') = Flags(ctl)
        /\ ctl'.pc = "backup" => ctl'.todo \in Suffixes
    BY <1>1, <1>2, Round DEF Pcs
  <2>2. backup' \in [Files -> Versions]
    BY <1>1, <1>2, SuffixLoops DEF TypeOK, Controls, Todo
  <2>3. TypeOK'
    BY <1>1, <1>2, <2>1, <2>2 DEF TypeOK
  <2>4. LockKnown' /\ Quiet'
    BY <1>1, <2>1 DEF LockKnown, Quiet
  <2>5. StepsApart' /\ CrossedKnown'
    BY <1>1, <2>1 DEF StepsApart, CrossedKnown, Task, Aim, Flags
  <2>6. UpgradeKnown' /\ AbortKnown'
    BY <1>1, <2>1 DEF UpgradeKnown, AbortKnown, OldInPlace, Starting, Task, Aim, Flags
  <2> QED
    BY <2>3, <2>4, <2>5, <2>6
<1>3. CASE Fault /\ CallStart(ctl.own, "failed", "failed") /\ UNCHANGED backup
  <2>1. /\ ctl' \in Controls /\ ctl'.pc = "start" /\ ctl'.failing = "failed" /\ ctl'.after = "failed"
        /\ Task(ctl') = Task(ctl) /\ Flags(ctl') = Flags(ctl)
    BY <1>1, <1>3 DEF CallStart, Controls, Pcs, Task, Flags
  <2>2. left' \in 0 .. Faults
    BY <1>3, ControlAssumption DEF TypeOK, Fault
  <2>3. TypeOK'
    BY <1>1, <1>3, <2>1, <2>2 DEF TypeOK
  <2>4. LockKnown' /\ Quiet'
    BY <1>1, <2>1 DEF LockKnown, Quiet
  <2>5. StepsApart' /\ CrossedKnown'
    BY <1>1, <2>1 DEF StepsApart, CrossedKnown, Task, Flags
  <2>6. UpgradeKnown' /\ AbortKnown'
    BY <1>1, <2>1 DEF UpgradeKnown, AbortKnown, OldInPlace, Starting, Task, Flags
  <2> QED
    BY <2>3, <2>4, <2>5, <2>6
<1> QED
  BY <1>2, <1>3 DEF BackUp

LEMMA TakeLockStep == ASSUME ControlInvariant, TakeLock PROVE ControlInvariant'
<1> USE DEF ControlInvariant
<1>1. /\ ctl \in Controls /\ ctl.pc = "take" /\ ~ctl.blocked /\ ctl.own # 0
      /\ ctl.action = "upgrade" /\ proc = NoProc
      /\ UNCHANGED <<files, backup, proc, record, left, package, open, queue, inst>>
  BY DEF TakeLock, TypeOK, world, AbortKnown, Starting, StepsApart, Quiet
<1>2. CASE /\ lock = "none" /\ ~open /\ lock' = "control"
           /\ ctl' = [ctl EXCEPT !.pc = "write", !.todo = FileOrder]
  <2>0. FileOrder \in Suffixes \cup Removals \cup {<<>>} /\ FileOrder \in Suffixes /\ "write" \in Pcs
    BY DEF Suffixes, Pcs
  <2>1. /\ ctl' \in Controls /\ ctl'.pc = "write" /\ ctl'.todo = FileOrder
        /\ Task(ctl') = Task(ctl) /\ Aim(ctl') = Aim(ctl) /\ Flags(ctl') = Flags(ctl)
    BY <1>1, <1>2, <2>0 DEF Controls, Task, Aim, Flags
  <2>2. TypeOK'
    BY <1>1, <1>2, <2>1 DEF TypeOK
  <2>3. LockKnown' /\ Quiet'
    BY <1>1, <1>2, <2>1 DEF LockKnown, Quiet, NoProc
  <2>4. StepsApart' /\ CrossedKnown'
    BY <1>1, <2>0, <2>1 DEF StepsApart, CrossedKnown, Task, Aim, Flags
  <2>5. UpgradeKnown' /\ AbortKnown'
    BY <1>1, <2>1, Loops DEF UpgradeKnown, AbortKnown, OldInPlace, Behind, Starting, Task, Aim, Flags
  <2> QED
    BY <2>2, <2>3, <2>4, <2>5
<1>3. CASE RollBack /\ UNCHANGED lock
  <2>1. ctl' \in Controls /\ ctl'.pc = "stop"
    BY <1>1, <1>3, Rolled DEF RollBack
  <2>2. TypeOK' /\ LockKnown'
    BY <1>1, <1>3, <2>1 DEF TypeOK, LockKnown
  <2> QED
    BY <1>1, <1>3, <2>2, RollbackIsSound DEF world, Quiet
<1> QED
  BY <1>2, <1>3 DEF TakeLock

LEMMA WriteStep == ASSUME ControlInvariant, Write PROVE ControlInvariant'
<1> USE DEF ControlInvariant
<1>1. /\ ctl \in Controls /\ ctl.pc = "write" /\ ~ctl.blocked /\ ctl.own # 0 /\ proc = NoProc
      /\ ctl.action = "upgrade" /\ lock = "control" /\ ~open /\ inst = NoInstall
      /\ ctl.todo \in Suffixes /\ files \in [Files -> Versions] /\ ctl.payload \in Versions
      /\ UNCHANGED <<backup, proc, record, package, open, queue, inst>>
  BY DEF Write, TypeOK, world, AbortKnown, Starting, StepsApart, Quiet, LockKnown, Controls
<1>2. CASE files' = [files EXCEPT ![Todo] = ctl.payload] /\ Done("release") /\ UNCHANGED <<lock, left>>
  <2>1. /\ ctl' \in Controls /\ ctl'.todo = Tail(ctl.todo)
        /\ Task(ctl') = Task(ctl) /\ Aim(ctl') = Aim(ctl) /\ Flags(ctl') = Flags(ctl)
        /\ \/ Len(ctl.todo) = 1 /\ ctl'.pc = "release"
           \/ Len(ctl.todo) # 1 /\ ctl'.pc = "write" /\ ctl'.todo \in Suffixes
    BY <1>1, <1>2, Round DEF Pcs
  <2>2. AllAt(ctl.payload) \in [Files -> Versions]
        /\ files' = [files EXCEPT ![Head(ctl.todo)] = AllAt(ctl.payload)[Head(ctl.todo)]]
    BY <1>1, <1>2, SuffixLoops DEF AllAt, Todo
  <2>3. files' \in [Files -> Versions]
    BY <1>1, <1>2
  <2>4. TypeOK'
    BY <1>1, <1>2, <2>1, <2>3 DEF TypeOK
  <2>5. LockKnown' /\ Quiet'
    BY <1>1, <1>2, <2>1 DEF LockKnown, Quiet
  <2>6. StepsApart' /\ CrossedKnown'
    BY <1>1, <2>1 DEF StepsApart, CrossedKnown, Task, Aim, Flags
  <2>7. ~ctl.crossed => /\ ctl'.pc = "write" => Behind(files', ctl'.todo, AllAt(ctl.payload))
                        /\ ctl'.pc = "release" => files' = AllAt(ctl.payload)
    <3> SUFFICES ASSUME ~ctl.crossed
                 PROVE  /\ ctl'.pc = "write" => Behind(files', Tail(ctl.todo), AllAt(ctl.payload))
                        /\ ctl'.pc = "release" => files' = AllAt(ctl.payload)
      BY <2>1
    <3>1. Behind(files, ctl.todo, AllAt(ctl.payload))
      BY <1>1 DEF UpgradeKnown
    <3> QED
      BY <1>1, <2>1, <2>2, <3>1, WritesOne
  <2>8. UpgradeKnown' /\ AbortKnown'
    BY <1>1, <2>1, <2>7 DEF UpgradeKnown, AbortKnown, OldInPlace, Starting, Task, Aim, Flags
  <2> QED
    BY <2>4, <2>5, <2>6, <2>8
<1>3. CASE Fault /\ WriteFails /\ UNCHANGED files
  <2>1. ctl' \in Controls /\ ctl'.pc = "stop" /\ lock' = "none"
    BY <1>1, <1>3, Rolled DEF RollBack, WriteFails
  <2>2. left' \in 0 .. Faults
    BY <1>3, ControlAssumption DEF TypeOK, Fault
  <2>3. TypeOK' /\ LockKnown'
    BY <1>1, <1>3, <2>1, <2>2 DEF TypeOK, LockKnown, NoProc
  <2> QED
    BY <1>1, <1>3, <2>1, <2>3, RollbackIsSound DEF world, WriteFails
<1> QED
  BY <1>2, <1>3 DEF Write

LEMMA ReleaseStep == ASSUME ControlInvariant, Release PROVE ControlInvariant'
<1> USE DEF ControlInvariant
<1>1. /\ ctl \in Controls /\ ctl.pc = "release" /\ ~ctl.blocked /\ ctl.own # 0 /\ proc = NoProc
      /\ ctl.action = "upgrade" /\ lock = "control" /\ inst = NoInstall
      /\ ctl.payload \in Versions /\ ctl.payload # ctl.own => ctl.payload \in Versions
      /\ UNCHANGED <<files, backup, proc, record, left, package, open, queue, inst>>
  BY DEF Release, TypeOK, world, AbortKnown, Starting, StepsApart, Quiet, LockKnown, Controls
<1>2. /\ ctl' \in Controls /\ ctl'.pc = "start" /\ ctl'.after = "ok" /\ ctl'.failing = "rollback"
      /\ Task(ctl') = Task(ctl) /\ Flags(ctl') = Flags(ctl) /\ lock' = "none"
  BY <1>1 DEF Release, CallStart, Controls, Pcs, Task, Flags
<1>3. TypeOK'
  BY <1>1, <1>2 DEF TypeOK
<1>4. LockKnown' /\ Quiet'
  BY <1>1, <1>2 DEF LockKnown, Quiet
<1>5. StepsApart' /\ CrossedKnown'
  BY <1>1, <1>2 DEF StepsApart, CrossedKnown, Task, Flags
<1>6. UpgradeKnown' /\ AbortKnown'
  <2>1. ~ctl.crossed => \A f \in Files : files[f] = ctl.payload
    BY <1>1 DEF UpgradeKnown, AllAt
  <2> QED
    BY <1>1, <1>2, <2>1, Order
    DEF UpgradeKnown, AbortKnown, OldInPlace, NewInPlace, Starting, Task, Flags
<1> QED
  BY <1>3, <1>4, <1>5, <1>6

LEMMA RestoreStep == ASSUME ControlInvariant, Restore PROVE ControlInvariant'
<1> USE DEF ControlInvariant
<1>1. /\ ctl \in Controls /\ ctl.pc = "restore" /\ ~ctl.blocked /\ ctl.own # 0 /\ proc = NoProc
      /\ ctl.action = "upgrade" /\ ctl.rollback /\ ctl.todo \in Suffixes
      /\ files \in [Files -> Versions] /\ ctl.old \in [Files -> Versions]
      /\ UNCHANGED <<backup, proc, record, lock, package, open, queue, inst>>
  BY DEF Restore, TypeOK, world, AbortKnown, Starting, StepsApart, Quiet, Controls
<1>2. CASE files' = [files EXCEPT ![Todo] = ctl.old[Todo]] /\ UNCHANGED left /\ Done("restored")
  <2>1. /\ ctl' \in Controls /\ ctl'.todo = Tail(ctl.todo)
        /\ Task(ctl') = Task(ctl) /\ Aim(ctl') = Aim(ctl) /\ Flags(ctl') = Flags(ctl)
        /\ \/ Len(ctl.todo) = 1 /\ ctl'.pc = "restored"
           \/ Len(ctl.todo) # 1 /\ ctl'.pc = "restore" /\ ctl'.todo \in Suffixes
    BY <1>1, <1>2, Round DEF Pcs
  <2>2. files' \in [Files -> Versions]
    BY <1>1, <1>2, SuffixLoops DEF Todo
  <2>3. TypeOK'
    BY <1>1, <1>2, <2>1, <2>2 DEF TypeOK
  <2>4. LockKnown' /\ Quiet'
    BY <1>1, <1>2, <2>1 DEF LockKnown, Quiet
  <2>5. StepsApart' /\ CrossedKnown'
    BY <1>1, <2>1 DEF StepsApart, CrossedKnown, Task, Aim, Flags
  <2>6. (~ctl.crossed /\ ~ctl.torn) => /\ ctl'.pc = "restore" => Behind(files', ctl'.todo, ctl.old)
                                       /\ ctl'.pc = "restored" => files' = ctl.old
    <3> SUFFICES ASSUME ~ctl.crossed, ~ctl.torn
                 PROVE  /\ ctl'.pc = "restore" => Behind(files', Tail(ctl.todo), ctl.old)
                        /\ ctl'.pc = "restored" => files' = ctl.old
      BY <2>1
    <3>1. Behind(files, ctl.todo, ctl.old)
      BY <1>1 DEF UpgradeKnown
    <3> QED
      BY <1>1, <1>2, <2>1, <3>1, WritesOne DEF Todo
  <2>7. UpgradeKnown' /\ AbortKnown'
    BY <1>1, <2>1, <2>6 DEF UpgradeKnown, AbortKnown, OldInPlace, Starting, Task, Aim, Flags
  <2> QED
    BY <2>3, <2>4, <2>5, <2>7
<1>3. CASE /\ Fault /\ UNCHANGED files
           /\ ctl' = [ctl EXCEPT !.todo = Tail(@), !.torn = TRUE,
                                 !.pc = IF Len(ctl.todo) = 1 THEN "restored" ELSE @]
  <2>1. /\ ctl' \in Controls /\ ctl'.torn /\ ctl'.rollback /\ ~ctl'.blocked
        /\ Task(ctl') = Task(ctl) /\ Aim(ctl') = Aim(ctl)
        /\ \/ ctl'.pc = "restored"
           \/ ctl'.pc = "restore" /\ ctl'.todo \in Suffixes
    <3>1. Tail(ctl.todo) \in Suffixes \cup Removals \cup {<<>>}
          /\ "restore" \in Pcs /\ "restored" \in Pcs
      BY <1>1, SuffixLoops DEF Pcs
    <3>2. CASE Len(ctl.todo) = 1
      <4>1. ctl' = [ctl EXCEPT !.todo = Tail(ctl.todo), !.torn = TRUE, !.pc = "restored"]
        BY <1>3, <3>2
      <4> QED
        BY <1>1, <3>1, <4>1 DEF Controls, Task, Aim
    <3>3. CASE Len(ctl.todo) # 1
      <4>1. ctl' = [ctl EXCEPT !.todo = Tail(ctl.todo), !.torn = TRUE, !.pc = "restore"]
        BY <1>1, <1>3, <3>3
      <4> QED
        BY <1>1, <3>1, <3>3, <4>1, SuffixLoops DEF Controls, Task, Aim
    <3> QED
      BY <3>2, <3>3
  <2>2. left' \in 0 .. Faults
    BY <1>3, ControlAssumption DEF TypeOK, Fault
  <2>3. TypeOK'
    BY <1>1, <1>3, <2>1, <2>2 DEF TypeOK
  <2>4. LockKnown' /\ Quiet'
    BY <1>1, <1>3, <2>1 DEF LockKnown, Quiet
  <2>5. StepsApart' /\ CrossedKnown'
    BY <1>1, <2>1 DEF StepsApart, CrossedKnown, Task, Aim
  <2>6. UpgradeKnown' /\ AbortKnown'
    BY <1>1, <2>1 DEF UpgradeKnown, AbortKnown, OldInPlace, Starting, Task, Aim
  <2> QED
    BY <2>3, <2>4, <2>5, <2>6
<1> QED
  BY <1>2, <1>3 DEF Restore

LEMMA AfterRestoreStep == ASSUME ControlInvariant, AfterRestore PROVE ControlInvariant'
<1> USE DEF ControlInvariant
<1>1. /\ ctl \in Controls /\ ctl.pc = "restored" /\ ~ctl.blocked /\ ctl.own \in Versions
      /\ ctl.own # 0 /\ proc = NoProc /\ ctl.action = "upgrade" /\ ~open
      /\ UNCHANGED <<files, backup, proc, record, lock, left, package, open, queue, inst>>
  BY DEF AfterRestore, TypeOK, world, AbortKnown, Starting, StepsApart, Quiet, Controls
<1>2. CASE ctl.torn /\ Finish("failed")
  <2>1. ctl' \in Controls /\ ctl'.pc = "idle"
    BY <1>1, <1>2, Ended DEF Finish
  <2>2. TypeOK' /\ LockKnown'
    BY <1>1, <2>1 DEF TypeOK, LockKnown
  <2> QED
    BY <1>1, <2>1, <2>2, EndIsSound
<1>3. CASE ~ctl.torn /\ CallStart(ctl.own, "failed", "failed")
  <2>1. /\ ctl' \in Controls /\ ctl'.pc = "start" /\ ctl'.failing = "failed" /\ ctl'.after = "failed"
        /\ Task(ctl') = Task(ctl) /\ Flags(ctl') = Flags(ctl)
    BY <1>1, <1>3 DEF CallStart, Controls, Pcs, Task, Flags
  <2>2. TypeOK'
    BY <1>1, <2>1 DEF TypeOK
  <2>3. LockKnown' /\ Quiet'
    BY <1>1, <2>1 DEF LockKnown, Quiet
  <2>4. StepsApart' /\ CrossedKnown'
    BY <1>1, <2>1 DEF StepsApart, CrossedKnown, Task, Flags
  <2>5. UpgradeKnown' /\ AbortKnown'
    BY <1>1, <2>1 DEF UpgradeKnown, AbortKnown, OldInPlace, Starting, Task, Flags
  <2> QED
    BY <2>2, <2>3, <2>4, <2>5
<1> QED
  BY <1>2, <1>3 DEF AfterRestore

-----------------------------------------------------------------------------
(* The steps of uninstallPrivilegedHelper *)

LEMMA ClearStep == ASSUME ControlInvariant, Clear PROVE ControlInvariant'
<1> USE DEF ControlInvariant
<1>1. /\ ctl \in Controls /\ ctl.pc = "clear" /\ ~ctl.blocked /\ ctl.own # 0 /\ ctl.action # "upgrade"
      /\ UNCHANGED <<files, backup, proc, record, left, package, open, queue, inst>>
  BY DEF Clear, TypeOK, world, AbortKnown, Starting, StepsApart
<1>2. CASE /\ lock = "none" /\ ~open /\ lock' = "control"
           /\ ctl' = [ctl EXCEPT !.pc = "remove",
                        !.todo = IF ctl.action = "purge" THEN <<"data", "rule", "binary", "controller">>
                                 ELSE <<"rule", "binary", "controller">>]
  <2> DEFINE todo == IF ctl.action = "purge" THEN <<"data", "rule", "binary", "controller">>
                     ELSE <<"rule", "binary", "controller">>
  <2>1. todo \in Removals /\ "remove" \in Pcs
    BY DEF Removals, Pcs
  <2> HIDE DEF todo
  <2>2. ctl' = [ctl EXCEPT !.pc = "remove", !.todo = todo]
    BY <1>2 DEF todo
  <2>3. /\ ctl' \in Controls /\ ctl'.pc = "remove" /\ ctl'.todo \in Removals
        /\ Task(ctl') = Task(ctl) /\ Aim(ctl') = Aim(ctl) /\ Flags(ctl') = Flags(ctl)
    BY <1>1, <2>1, <2>2 DEF Controls, Task, Aim, Flags
  <2>4. TypeOK'
    BY <1>1, <1>2, <2>3 DEF TypeOK
  <2>5. LockKnown' /\ Quiet'
    BY <1>1, <1>2, <2>3 DEF LockKnown, Quiet
  <2>6. StepsApart' /\ CrossedKnown'
    BY <1>1, <2>3 DEF StepsApart, CrossedKnown, Task, Aim, Flags
  <2>7. UpgradeKnown' /\ AbortKnown'
    BY <1>1, <2>3 DEF UpgradeKnown, AbortKnown, Starting, Task, Aim, Flags
  <2> QED
    BY <2>4, <2>5, <2>6, <2>7
<1>3. CASE Finish("failed") /\ UNCHANGED lock
  <2>1. ctl' \in Controls /\ ctl'.pc = "idle"
    BY <1>1, <1>3, Ended DEF Finish
  <2>2. TypeOK' /\ LockKnown'
    BY <1>1, <1>3, <2>1 DEF TypeOK, LockKnown
  <2> QED
    BY <1>1, <1>3, <2>1, <2>2, EndIsSound DEF Quiet
<1> QED
  BY <1>2, <1>3 DEF Clear

LEMMA RemoveFilesStep == ASSUME ControlInvariant, RemoveFiles PROVE ControlInvariant'
<1> USE DEF ControlInvariant
<1>1. /\ ctl \in Controls /\ ctl.pc = "remove" /\ ~ctl.blocked /\ ctl.own # 0 /\ ctl.action # "upgrade"
      /\ ctl.todo \in Removals /\ lock = "control" /\ ~open /\ ~proc.serving /\ inst = NoInstall
      /\ UNCHANGED <<proc, record, package, open, queue, inst>>
  BY DEF RemoveFiles, TypeOK, world, AbortKnown, Starting, StepsApart, LockKnown, Quiet
<1>2. CASE /\ files' = [f \in Files |-> IF f = Todo THEN 0 ELSE files[f]]
           /\ backup' = IF Todo = "data" THEN AllAt(0) ELSE backup
           /\ Done("removed") /\ UNCHANGED <<lock, left>>
  <2>1. /\ ctl' \in Controls /\ Task(ctl') = Task(ctl) /\ Aim(ctl') = Aim(ctl) /\ Flags(ctl') = Flags(ctl)
        /\ ctl'.pc = "removed" \/ (ctl'.pc = "remove" /\ ctl'.todo \in Removals)
    <3>1. Tail(ctl.todo) \in Suffixes \cup Removals \cup {<<>>} /\ "removed" \in Pcs /\ "remove" \in Pcs
      BY <1>1, RemovalLoops DEF Pcs
    <3>2. CASE Len(ctl.todo) = 1
      <4>1. ctl' = [ctl EXCEPT !.todo = Tail(ctl.todo), !.pc = "removed"]
        BY <1>2, <3>2 DEF Done
      <4> QED
        BY <1>1, <3>1, <4>1 DEF Controls, Task, Aim, Flags
    <3>3. CASE Len(ctl.todo) # 1
      <4>1. ctl' = [ctl EXCEPT !.todo = Tail(ctl.todo), !.pc = "remove"]
        BY <1>1, <1>2, <3>3 DEF Done
      <4> QED
        BY <1>1, <3>1, <3>3, <4>1, RemovalLoops DEF Controls, Task, Aim, Flags
    <3> QED
      BY <3>2, <3>3
  <2>2. files' \in [Files -> Versions] /\ backup' \in [Files -> Versions]
    BY <1>2, ControlAssumption DEF TypeOK, AllAt, Versions
  <2>3. TypeOK'
    BY <1>1, <1>2, <2>1, <2>2 DEF TypeOK
  <2>4. LockKnown' /\ Quiet'
    BY <1>1, <1>2, <2>1 DEF LockKnown, Quiet
  <2>5. StepsApart' /\ CrossedKnown'
    BY <1>1, <2>1 DEF StepsApart, CrossedKnown, Task, Aim, Flags
  <2>6. UpgradeKnown' /\ AbortKnown'
    BY <1>1, <2>1 DEF UpgradeKnown, AbortKnown, Starting, Task, Aim, Flags
  <2> QED
    BY <2>3, <2>4, <2>5, <2>6
<1>3. CASE Fault /\ lock' = "none" /\ Finish("failed") /\ UNCHANGED <<files, backup>>
  <2>1. ctl' \in Controls /\ ctl'.pc = "idle"
    BY <1>1, <1>3, Ended DEF Finish
  <2>2. left' \in 0 .. Faults
    BY <1>3, ControlAssumption DEF TypeOK, Fault
  <2>3. TypeOK' /\ LockKnown'
    BY <1>1, <1>3, <2>1, <2>2 DEF TypeOK, LockKnown
  <2> QED
    BY <1>1, <1>3, <2>1, <2>3, EndIsSound
<1> QED
  BY <1>2, <1>3 DEF RemoveFiles

LEMMA RemovedStep == ASSUME ControlInvariant, Removed PROVE ControlInvariant'
<1> USE DEF ControlInvariant
<1>1. /\ ctl \in Controls /\ ctl.pc = "removed" /\ lock' = "none" /\ Finish("ok")
      /\ lock = "control" /\ inst = NoInstall /\ ~proc.serving
      /\ UNCHANGED <<files, backup, proc, record, left, package, open, queue, inst>>
  BY DEF Removed, TypeOK, world, LockKnown
<1>2. ctl' \in Controls /\ ctl'.pc = "idle"
  BY <1>1, Ended DEF Finish
<1>3. TypeOK' /\ LockKnown'
  BY <1>1, <1>2 DEF TypeOK, LockKnown
<1> QED
  BY <1>1, <1>2, <1>3, EndIsSound

-----------------------------------------------------------------------------
(* The Helper process, and what ends processes *)

LEMMA HelperServesStep == ASSUME ControlInvariant, HelperServes PROVE ControlInvariant'
<1> USE DEF ControlInvariant
<1>1. /\ proc' = [proc EXCEPT !.serving = TRUE] /\ lock = "none" /\ lock' = "helper"
      /\ proc # NoProc /\ ~proc.serving /\ proc \in [version : Versions, serving : BOOLEAN]
      /\ UNCHANGED <<files, backup, record, ctl, left, package, open, queue, inst>>
  BY DEF HelperServes, world, TypeOK
<1>2. /\ proc' \in [version : Versions, serving : BOOLEAN] /\ proc'.version = proc.version
      /\ proc'.serving /\ proc' # NoProc
  BY <1>1 DEF NoProc
<1>3. TypeOK'
  BY <1>1, <1>2 DEF TypeOK
<1>4. LockKnown' /\ Quiet'
  BY <1>1, <1>2 DEF LockKnown, Quiet
<1>5. StepsApart' /\ CrossedKnown'
  BY <1>1 DEF StepsApart, CrossedKnown
<1>6. UpgradeKnown' /\ AbortKnown'
  BY <1>1, <1>2 DEF UpgradeKnown, AbortKnown, OldInPlace, NewInPlace, Starting
<1> QED
  BY <1>3, <1>4, <1>5, <1>6

\* When a process ends, only an action that has just started it for a stop that
\* was given up notices.
LEMMA ProcessEndIsSound ==
  ASSUME ControlInvariant, ProcEnds, left' \in 0 .. Faults,
         UNCHANGED <<files, backup, ctl, world>>,
         \/ left' < left
         \/ left' = left /\ proc # NoProc /\ ~proc.serving /\ lock # "none"
  PROVE  ControlInvariant'
<1> USE DEF ControlInvariant
<1>1. UNCHANGED <<files, backup, ctl, package, open, queue, inst>>
  BY DEF world
<1>2. TypeOK'
  BY <1>1, ProcessEnds DEF TypeOK
<1>3. LockKnown'
  BY <1>1, ProcessEnds DEF LockKnown
<1>4. Quiet'
  BY <1>1, ProcessEnds DEF Quiet
<1>5. StepsApart' /\ CrossedKnown'
  BY <1>1 DEF StepsApart, CrossedKnown
<1>6. UpgradeKnown'
  BY <1>1, ProcessEnds DEF UpgradeKnown, OldInPlace, NewInPlace, Starting
<1>7. AbortKnown'
  <2>1. CASE left' < left
    BY <1>1, <2>1 DEF AbortKnown, Starting, TypeOK, Controls
  <2>2. CASE left' = left /\ proc # NoProc /\ ~proc.serving /\ lock # "none"
    <3>1. Starting => ctl.crossed
      BY <2>2 DEF LockKnown, CrossedKnown, Starting, TypeOK
    <3> QED
      BY <1>1, <2>2, <3>1 DEF AbortKnown, Starting
  <2> QED
    BY <2>1, <2>2
<1> QED
  BY <1>2, <1>3, <1>4, <1>5, <1>6, <1>7

LEMMA HelperEndsStep == ASSUME ControlInvariant, HelperGivesUp \/ HelperDies PROVE ControlInvariant'
<1>1. CASE HelperGivesUp
  BY <1>1, ProcessEndIsSound DEF HelperGivesUp, ControlInvariant, TypeOK
<1>2. CASE HelperDies
  <2>1. left' < left /\ left' \in 0 .. Faults
    BY <1>2, ControlAssumption DEF HelperDies, Fault, ControlInvariant, TypeOK
  <2> QED
    BY <1>2, <2>1, ProcessEndIsSound DEF HelperDies
<1> QED
  BY <1>1, <1>2

LEMMA HelperWorksStep == ASSUME ControlInvariant, HelperWorks PROVE ControlInvariant'
<1> USE DEF ControlInvariant
<1>1. /\ proc.serving /\ open' \in BOOLEAN
      /\ UNCHANGED <<files, backup, package, proc, record, lock, queue, ctl, inst, left>>
  BY DEF HelperWorks, Lend, Restored
<1>2. TypeOK'
  BY <1>1 DEF TypeOK
<1>3. LockKnown' /\ Quiet'
  BY <1>1 DEF LockKnown, Quiet, NoProc
<1>4. StepsApart' /\ CrossedKnown'
  BY <1>1 DEF StepsApart, CrossedKnown
<1>5. UpgradeKnown' /\ AbortKnown'
  BY <1>1 DEF UpgradeKnown, AbortKnown, OldInPlace, NewInPlace, Starting
<1> QED
  BY <1>2, <1>3, <1>4, <1>5

LEMMA ControlDiesStep == ASSUME ControlInvariant, ControlDies PROVE ControlInvariant'
<1> USE DEF ControlInvariant
<1>1. /\ ctl' \in Controls /\ ctl'.pc = "idle"
      /\ lock' = IF lock = "control" THEN "none" ELSE lock
      /\ ctl.pc = "record" => proc = NoProc \/ proc.serving
      /\ UNCHANGED <<files, backup, proc, record, package, open, queue, inst>>
  BY Forgotten DEF ControlDies, world
<1>2. left' \in 0 .. Faults
  BY ControlAssumption DEF ControlDies, TypeOK, Fault
<1>3. TypeOK'
  BY <1>1, <1>2 DEF TypeOK
<1>4. LockKnown'
  BY <1>1 DEF LockKnown
<1> QED
  BY <1>1, <1>3, <1>4, EndIsSound DEF Quiet

LEMMA PowerFailsStep == ASSUME ControlInvariant, PowerFails PROVE ControlInvariant'
<1> USE DEF ControlInvariant
<1>1. /\ proc' = NoProc /\ record' = "none" /\ lock' = "none" /\ queue' = NoQueue /\ inst' = NoInstall
      /\ ctl' \in Controls /\ ctl'.pc = "idle" /\ UNCHANGED <<files, backup, package, open>>
  BY Forgotten DEF PowerFails
<1>2. left' \in 0 .. Faults
  BY ControlAssumption DEF PowerFails, TypeOK, Fault
<1>3. /\ NoProc \in [version : Versions, serving : BOOLEAN] /\ ~NoProc.serving
      /\ NoQueue \in [action : Actions \cup {"none"}, own : Versions]
      /\ NoInstall \in [todo : Suffixes \cup {<<>>}, version : Versions]
  BY ControlAssumption DEF NoProc, NoQueue, NoInstall, Versions
<1>4. TypeOK'
  BY <1>1, <1>2, <1>3 DEF TypeOK
<1>5. LockKnown' /\ Quiet'
  BY <1>1, <1>3 DEF LockKnown, Quiet
<1>6. StepsApart' /\ CrossedKnown'
  BY <1>1 DEF StepsApart, CrossedKnown
<1>7. UpgradeKnown' /\ AbortKnown'
  BY <1>1 DEF UpgradeKnown, AbortKnown
<1> QED
  BY <1>4, <1>5, <1>6, <1>7

-----------------------------------------------------------------------------
(* The installer, the package and the queue *)

LEMMA InstallBeginsStep == ASSUME ControlInvariant, InstallBegins PROVE ControlInvariant'
<1> USE DEF ControlInvariant
<1>1. /\ inst = NoInstall /\ lock = "none" /\ ~open /\ lock' = "install" /\ ctl \in Controls
      /\ inst' = [todo |-> FileOrder, version |-> package]
      /\ ctl' = [ctl EXCEPT !.crossed = ctl.crossed \/ ctl.pc # "idle"]
      /\ UNCHANGED <<files, backup, package, proc, record, open, queue, left>>
  BY DEF InstallBegins, TypeOK
<1>2. /\ ctl' \in Controls /\ ctl'.pc = ctl.pc /\ ctl'.crossed = (ctl.crossed \/ ctl.pc # "idle")
      /\ ctl'.action = ctl.action /\ ctl'.own = ctl.own /\ ctl'.todo = ctl.todo
      /\ Aim(ctl') = Aim(ctl) /\ Flags(ctl') = Flags(ctl)
  BY <1>1 DEF Controls, Aim, Flags
<1>3. /\ inst' \in [todo : Suffixes \cup {<<>>}, version : Versions] /\ inst'.todo \in Suffixes
      /\ inst' # NoInstall
  <2>1. FileOrder \in Suffixes /\ FileOrder # <<>> /\ package \in Versions
    BY Order DEF Suffixes, TypeOK
  <2> QED
    BY <1>1, <2>1 DEF NoInstall
<1>4. TypeOK'
  BY <1>1, <1>2, <1>3 DEF TypeOK
<1>5. LockKnown' /\ Quiet'
  BY <1>1, <1>2, <1>3 DEF LockKnown, Quiet
<1>6. StepsApart' /\ CrossedKnown'
  BY <1>1, <1>2, <1>3 DEF StepsApart, CrossedKnown, Aim, Flags
<1>7. UpgradeKnown' /\ AbortKnown'
  BY <1>1, <1>2 DEF UpgradeKnown, AbortKnown, Starting, Aim, Flags
<1> QED
  BY <1>4, <1>5, <1>6, <1>7

\* While an installer works, what a control action knows of the files is void.
LEMMA InstallWritesStep == ASSUME ControlInvariant, InstallWrites PROVE ControlInvariant'
<1> USE DEF ControlInvariant
<1>1. /\ inst # NoInstall /\ lock = "install" /\ ~proc.serving /\ inst.todo \in Suffixes
      /\ inst \in [todo : Suffixes \cup {<<>>}, version : Versions]
      /\ ctl.pc # "idle" => ctl.crossed
      /\ UNCHANGED <<backup, package, proc, record, open, queue, ctl>>
  BY DEF InstallWrites, LockKnown, StepsApart, CrossedKnown, TypeOK
<1>2. /\ files' \in [Files -> Versions] /\ left' \in 0 .. Faults /\ left' <= left
      /\ inst' \in [todo : Suffixes \cup {<<>>}, version : Versions]
      /\ \/ inst' = NoInstall /\ lock' = "none"
         \/ inst' # NoInstall /\ inst'.todo \in Suffixes /\ lock' = "install"
  <2>1. CASE /\ files' = [files EXCEPT ![Head(inst.todo)] = inst.version] /\ UNCHANGED left
             /\ IF Len(inst.todo) = 1 THEN inst' = NoInstall /\ lock' = "none"
                ELSE inst' = [inst EXCEPT !.todo = Tail(@)] /\ UNCHANGED lock
    <3>1. files' \in [Files -> Versions]
      BY <1>1, <2>1, SuffixLoops DEF TypeOK
    <3>2. CASE Len(inst.todo) = 1
      BY <2>1, <3>1, <3>2, ControlAssumption DEF TypeOK, NoInstall, Versions
    <3>3. CASE Len(inst.todo) # 1
      <4>1. Tail(inst.todo) \in Suffixes /\ <<>> \notin Suffixes
        BY <1>1, <3>3, SuffixLoops, Order DEF Suffixes
      <4>2. inst' = [inst EXCEPT !.todo = Tail(inst.todo)] /\ lock' = "install"
        BY <1>1, <2>1, <3>3
      <4>3. inst' \in [todo : Suffixes \cup {<<>>}, version : Versions] /\ inst'.todo \in Suffixes
        BY <1>1, <4>1, <4>2
      <4>4. inst' # NoInstall
        BY <4>1, <4>3 DEF NoInstall
      <4>5. left' \in 0 .. Faults /\ left' <= left
        BY <2>1 DEF TypeOK
      <4> QED
        BY <3>1, <4>2, <4>3, <4>4, <4>5
    <3> QED
      BY <3>2, <3>3
  <2>2. CASE Fault /\ inst' = NoInstall /\ lock' = "none" /\ UNCHANGED files
    BY <2>2, ControlAssumption DEF TypeOK, NoInstall, Versions, Fault
  <2> QED
    BY <2>1, <2>2 DEF InstallWrites
<1>3. TypeOK'
  BY <1>1, <1>2 DEF TypeOK
<1>4. LockKnown' /\ Quiet'
  BY <1>1, <1>2 DEF LockKnown, Quiet
<1>5. StepsApart' /\ CrossedKnown'
  BY <1>1, <1>2 DEF StepsApart, CrossedKnown
<1>6. UpgradeKnown'
  BY <1>1 DEF UpgradeKnown, Starting
<1>7. AbortKnown'
  BY <1>1, <1>2 DEF AbortKnown, Starting, TypeOK, Controls
<1> QED
  BY <1>3, <1>4, <1>5, <1>6, <1>7

LEMMA NewPackageStep == ASSUME ControlInvariant, NewPackage PROVE ControlInvariant'
<1> USE DEF ControlInvariant
<1>1. UNCHANGED <<files, backup, proc, record, lock, open, queue, ctl, inst, left>>
  BY DEF NewPackage
<1>2. package' \in Versions
  BY ControlAssumption DEF NewPackage, TypeOK, Versions
<1>3. TypeOK'
  BY <1>1, <1>2 DEF TypeOK
<1>4. LockKnown' /\ Quiet' /\ StepsApart' /\ CrossedKnown'
  BY <1>1 DEF LockKnown, Quiet, StepsApart, CrossedKnown
<1>5. UpgradeKnown' /\ AbortKnown'
  BY <1>1 DEF UpgradeKnown, AbortKnown, OldInPlace, NewInPlace, Starting
<1> QED
  BY <1>3, <1>4, <1>5

LEMMA QueueStep ==
  ASSUME ControlInvariant, (\E a \in Actions : Queue(a)) \/ Leave PROVE ControlInvariant'
<1> USE DEF ControlInvariant
<1>1. UNCHANGED <<files, backup, package, proc, record, lock, open, ctl, inst, left>>
  BY DEF Queue, Leave
<1>2. /\ queue' \in [action : Actions \cup {"none"}, own : Versions]
      /\ queue' # NoQueue => queue'.own # 0
  <2>1. CASE Leave
    BY <2>1, ControlAssumption DEF Leave, NoQueue, Versions
  <2>2. ASSUME NEW a \in Actions, Queue(a)
        PROVE  queue' \in [action : Actions \cup {"none"}, own : Versions] /\ queue'.own # 0
    BY <2>2, Order DEF Queue, TypeOK
  <2> QED
    BY <2>1, <2>2
<1>3. TypeOK'
  BY <1>1, <1>2 DEF TypeOK
<1>4. LockKnown' /\ Quiet' /\ StepsApart' /\ CrossedKnown'
  BY <1>1 DEF LockKnown, Quiet, StepsApart, CrossedKnown
<1>5. UpgradeKnown' /\ AbortKnown'
  BY <1>1, <1>2 DEF UpgradeKnown, AbortKnown, OldInPlace, NewInPlace, Starting
<1> QED
  BY <1>3, <1>4, <1>5

LEMMA BeginStep == ASSUME ControlInvariant, Begin PROVE ControlInvariant'
<1> USE DEF ControlInvariant
<1> DEFINE new == [NoControl EXCEPT !.action = queue.action, !.own = queue.own, !.old = files,
                                    !.payload = package, !.crossed = inst # NoInstall]
           upgrade == queue.action = "upgrade"
           same == package = queue.own
<1>1. /\ queue # NoQueue /\ ctl.pc = "idle" /\ queue' = NoQueue /\ queue.own # 0
      /\ UNCHANGED <<files, backup, package, proc, record, lock, open, inst, left>>
      /\ \/ upgrade /\ ~Acceptable /\ ctl' = [new EXCEPT !.result = "refused"]
         \/ /\ queue.action = "start" \/ (upgrade /\ Acceptable /\ same)
            /\ ctl' = [new EXCEPT !.pc = "start", !.want = queue.own]
         \/ /\ queue.action # "start" /\ (upgrade => Acceptable /\ ~same)
            /\ ctl' = [new EXCEPT !.pc = "stop"]
  BY DEF Begin, AbortKnown
<1>2. /\ new \in Controls /\ new.pc = "idle" /\ new.action = queue.action /\ new.own = queue.own
      /\ new.old = files /\ new.payload = package /\ new.crossed = (inst # NoInstall)
      /\ new.failing = "failed" /\ new.after = "ok" /\ ~new.rollback /\ ~new.blocked /\ ~new.torn
  <2>1. /\ queue.action \in Actions \cup {"none"} /\ queue.own \in Versions /\ package \in Versions
        /\ files \in [Files -> Versions]
    BY DEF TypeOK
  <2>2. /\ NoControl.pc = "idle" /\ NoControl.failing = "failed" /\ NoControl.after = "ok"
        /\ ~NoControl.rollback /\ ~NoControl.blocked /\ ~NoControl.torn
    BY DEF NoControl
  <2>3. NoControl \in Controls
    BY Forgotten
  <2> QED
    BY <2>1, <2>2, <2>3 DEF Controls
<1> HIDE DEF new
<1>3. NoQueue \in [action : Actions \cup {"none"}, own : Versions]
  BY ControlAssumption DEF NoQueue, Versions
<1>4. CASE upgrade /\ ~Acceptable /\ ctl' = [new EXCEPT !.result = "refused"]
  <2>1. ctl' \in Controls /\ ctl'.pc = "idle"
    BY <1>2, <1>4 DEF Controls
  <2>2. TypeOK' /\ LockKnown'
    BY <1>1, <1>3, <2>1 DEF TypeOK, LockKnown
  <2>3. Quiet' /\ StepsApart' /\ CrossedKnown' /\ UpgradeKnown' /\ AbortKnown'
    BY <1>1, <2>1 DEF Quiet, StepsApart, CrossedKnown, UpgradeKnown, AbortKnown
  <2> QED
    BY <2>2, <2>3
<1>5. CASE /\ queue.action = "start" \/ (upgrade /\ Acceptable /\ same)
           /\ ctl' = [new EXCEPT !.pc = "start", !.want = queue.own]
  <2>1. /\ ctl' \in Controls /\ ctl'.pc = "start" /\ Task(ctl') = Task(new) /\ Flags(ctl') = Flags(new)
        /\ ctl'.after = "ok" /\ ctl'.failing = "failed"
    BY <1>2, <1>5 DEF Controls, Pcs, Task, Flags
  <2>2. TypeOK' /\ LockKnown'
    BY <1>1, <1>3, <2>1 DEF TypeOK, LockKnown
  <2>3. Quiet' /\ StepsApart' /\ CrossedKnown'
    BY <1>1, <1>2, <2>1 DEF Quiet, StepsApart, CrossedKnown, Task, Flags
  <2>4. UpgradeKnown'
    BY <1>1, <1>2, <1>5, <2>1
    DEF UpgradeKnown, OldInPlace, NewInPlace, Starting, Acceptable, Task, Flags
  <2>5. AbortKnown'
    BY <1>1, <1>2, <2>1 DEF AbortKnown, Task, Flags
  <2> QED
    BY <2>2, <2>3, <2>4, <2>5
<1>6. CASE ctl' = [new EXCEPT !.pc = "stop"]
  <2>1. /\ ctl' \in Controls /\ ctl'.pc = "stop" /\ Task(ctl') = Task(new) /\ Flags(ctl') = Flags(new)
        /\ ctl'.after = "ok" /\ ctl'.failing = "failed"
    BY <1>2, <1>6 DEF Controls, Pcs, Task, Flags
  <2>2. TypeOK' /\ LockKnown'
    BY <1>1, <1>3, <2>1 DEF TypeOK, LockKnown
  <2>3. Quiet' /\ StepsApart' /\ CrossedKnown'
    BY <1>1, <1>2, <2>1 DEF Quiet, StepsApart, CrossedKnown, Task, Flags
  <2>4. UpgradeKnown' /\ AbortKnown'
    BY <1>1, <1>2, <2>1 DEF UpgradeKnown, AbortKnown, OldInPlace, Starting, Task, Flags
  <2> QED
    BY <2>2, <2>3, <2>4
<1> QED
  BY <1>1, <1>4, <1>5, <1>6

-----------------------------------------------------------------------------
(* The invariant, and what follows from it *)

LEMMA InitialInvariant == Init => ControlInvariant
<1> SUFFICES ASSUME Init PROVE ControlInvariant
  OBVIOUS
<1>1. /\ files \in [Files -> Versions] /\ backup \in [Files -> Versions] /\ package \in Versions
      /\ proc = NoProc /\ record = "none" /\ lock = "none" /\ open = FALSE /\ queue = NoQueue
      /\ ctl \in Controls /\ ctl.pc = "idle" /\ inst = NoInstall /\ left \in 0 .. Faults
  BY Forgotten, ControlAssumption DEF Init, AllAt, Versions
<1>2. /\ NoProc \in [version : Versions, serving : BOOLEAN] /\ ~NoProc.serving
      /\ NoQueue \in [action : Actions \cup {"none"}, own : Versions]
      /\ NoInstall \in [todo : Suffixes \cup {<<>>}, version : Versions]
  BY ControlAssumption DEF NoProc, NoQueue, NoInstall, Versions
<1>3. TypeOK
  BY <1>1, <1>2 DEF TypeOK
<1>4. LockKnown /\ Quiet /\ StepsApart
  BY <1>1, <1>2 DEF LockKnown, Quiet, StepsApart, Init, NoControl
<1>5. UpgradeKnown /\ CrossedKnown /\ AbortKnown
  BY <1>1 DEF UpgradeKnown, CrossedKnown, AbortKnown
<1> QED
  BY <1>3, <1>4, <1>5 DEF ControlInvariant

LEMMA NextKeeps == ControlInvariant /\ [Next]_vars => ControlInvariant'
<1> SUFFICES ASSUME ControlInvariant, [Next]_vars PROVE ControlInvariant'
  OBVIOUS
<1>1. CASE (\E a \in Actions : Queue(a)) \/ Leave
  BY <1>1, QueueStep
<1>2. CASE Begin
  BY <1>2, BeginStep
<1>3. CASE Spawn \/ WriteRecord \/ AwaitHealth
  BY <1>3, SpawnStep, WriteRecordStep, AwaitHealthStep
<1>4. CASE Terminate \/ Recover
  BY <1>4, TerminateStep, RecoverStep
<1>5. CASE BackUp \/ TakeLock \/ Write \/ Release \/ Restore \/ AfterRestore
  BY <1>5, BackUpStep, TakeLockStep, WriteStep, ReleaseStep, RestoreStep, AfterRestoreStep
<1>6. CASE Clear \/ RemoveFiles \/ Removed
  BY <1>6, ClearStep, RemoveFilesStep, RemovedStep
<1>7. CASE HelperServes \/ HelperGivesUp \/ HelperWorks \/ HelperDies
  BY <1>7, HelperServesStep, HelperEndsStep, HelperWorksStep
<1>8. CASE ControlDies \/ PowerFails
  BY <1>8, ControlDiesStep, PowerFailsStep
<1>9. CASE InstallBegins \/ InstallWrites \/ NewPackage
  BY <1>9, InstallBeginsStep, InstallWritesStep, NewPackageStep
<1>10. CASE UNCHANGED vars
  BY <1>10 DEF vars, ControlInvariant, TypeOK, LockKnown, Quiet, StepsApart, UpgradeKnown,
               CrossedKnown, AbortKnown, OldInPlace, NewInPlace, Starting
<1> QED
  BY <1>1, <1>2, <1>3, <1>4, <1>5, <1>6, <1>7, <1>8, <1>9, <1>10 DEF Next, Control

\* A control action, at each of its steps, knows who holds the instance lock,
\* that nothing runs or is open where it relies on it, and which version every
\* file has, whatever is killed or fails and whatever an installer does.
THEOREM ControlIsSound == Spec => []ControlInvariant
<1> QED
  BY InitialInvariant, NextKeeps, PTL DEF Spec

\* How startPrivilegedHelperVersion ends an action.
LEMMA StartEnds ==
  ASSUME ControlInvariant, Spawn \/ WriteRecord \/ AwaitHealth, ctl'.pc = "idle"
  PROVE  /\ Starting /\ files' = files /\ Task(ctl') = Task(ctl) /\ Flags(ctl') = Flags(ctl)
         /\ ctl'.result = "failed" => ctl.failing = "failed" \/ ctl.after = "failed"
         /\ ctl'.result = "ok" =>
              /\ ctl.after = "ok" /\ proc' = proc /\ proc # NoProc /\ ctl.pc \in {"start", "await"}
<1> USE DEF ControlInvariant
<1>1. /\ ctl \in Controls /\ ctl.after \in {"ok", "failed"} /\ ctl.failing \in {"failed", "rollback"}
      /\ Starting /\ files' = files
  BY DEF Spawn, WriteRecord, AwaitHealth, TypeOK, Controls, Starting
<1>2. ASSUME NEW r \in {"ok", "failed", "rollback"}, Follow(r)
      PROVE  /\ r # "rollback" /\ ctl'.result = r /\ Task(ctl') = Task(ctl) /\ Flags(ctl') = Flags(ctl)
  <2>1. r # "rollback"
    BY <1>1, <1>2, Rolled DEF Follow, RollBack
  <2>2. r \in {"ok", "failed"} /\ ctl' = [ctl EXCEPT !.pc = "idle", !.result = r]
    BY <1>2, <2>1 DEF Follow, Finish
  <2> QED
    BY <1>1, <2>1, <2>2 DEF Controls, Task, Flags
<1>3. CASE Follow(ctl.failing)
  BY <1>1, <1>2, <1>3
<1>4. CASE Follow(ctl.after) /\ proc' = proc /\ proc # NoProc /\ ctl.pc \in {"start", "await"}
  BY <1>1, <1>2, <1>4
<1>5. ctl' # [ctl EXCEPT !.pc = "record"] /\ ctl' # [ctl EXCEPT !.pc = "await"]
  BY <1>1 DEF Controls
<1> QED
  BY <1>3, <1>4, <1>5 DEF Spawn, WriteRecord, AwaitHealth, Running, Healthy, LockKnown

\* How every other step ends one.
LEMMA OtherEnds ==
  ASSUME ControlInvariant, ctl.pc # "idle", ctl'.pc = "idle",
         Next, ~(Spawn \/ WriteRecord \/ AwaitHealth), ctl'.result \in {"ok", "failed"}
  PROVE  /\ ~ctl'.blocked
         /\ ctl.action = "upgrade" =>
              /\ ctl'.result = "failed"
              /\ (~ctl'.torn /\ ~ctl'.crossed) => files' = ctl.old
<1> USE DEF ControlInvariant
<1>1. ctl \in Controls
  BY DEF TypeOK
<1>2. ASSUME ctl' = ctl PROVE FALSE
  BY <1>2
<1>3. ASSUME NEW r \in {"ok", "failed"}, Finish(r), ~Starting, ctl.action # "upgrade"
      PROVE  ~ctl'.blocked
  <2>1. Flags(ctl') = Flags(ctl) /\ ~ctl.blocked
    BY <1>1, <1>3, Ended DEF Finish, AbortKnown
  <2> QED
    BY <2>1 DEF Flags
<1>4. ASSUME StopFails, ctl.pc \in {"stop", "recover"}, files' = files
      PROVE  /\ ~ctl'.blocked /\ ctl'.result = "failed"
             /\ (ctl.action = "upgrade" /\ ~ctl'.torn /\ ~ctl'.crossed) => files' = ctl.old
  <2>1. /\ ctl'.result = "failed" /\ Task(ctl') = Task(ctl) /\ ctl'.torn = ctl.rollback
        /\ ctl'.blocked = ctl.blocked /\ ~ctl.blocked
    BY <1>1, <1>4, Stopped DEF StopFails, AbortKnown, Starting
  <2> QED
    BY <1>4, <2>1 DEF UpgradeKnown, OldInPlace, StepsApart, Task
<1>5. CASE Terminate
  <2>1. ctl' # [ctl EXCEPT !.pc = "recover"]
    BY <1>1 DEF Controls
  <2> QED
    BY <1>4, <1>5, <2>1 DEF Terminate
<1>6. CASE Recover
  <2>1. ~RestartAfterAbort
    BY <1>1, Aborted DEF RestartAfterAbort, TypeOK
  <2>2. CASE AfterStop /\ ctl.pc = "recover"
    <3>1. /\ ctl' # [ctl EXCEPT !.pc = "restore", !.todo = RestoreOrder]
          /\ ctl' # [ctl EXCEPT !.pc = "backup", !.todo = FileOrder]
          /\ ctl' # [ctl EXCEPT !.pc = "clear"]
      BY <1>1 DEF Controls
    <3>2. ~CallStart(ctl.own, "ok", "failed")
      BY <1>1 DEF CallStart, Controls
    <3>3. Finish("ok") /\ ctl.action = "stop"
      BY <2>2, <3>1, <3>2 DEF AfterStop
    <3> QED
      BY <1>3, <2>2, <3>3 DEF Starting
  <2> QED
    BY <1>4, <1>6, <2>1, <2>2 DEF Recover
<1>7. CASE BackUp
  <2>1. ctl.todo \in Suffixes /\ ctl.pc = "backup" /\ "take" \in Pcs
    BY <1>7 DEF BackUp, StepsApart, Pcs
  <2>2. ~Done("take")
    BY <1>1, <2>1, Round
  <2>3. ~CallStart(ctl.own, "failed", "failed")
    BY <1>1 DEF CallStart, Controls
  <2> QED
    BY <1>7, <2>2, <2>3 DEF BackUp
<1>8. CASE TakeLock \/ Write \/ Release
  <2>1. ~RollBack
    BY <1>1, Rolled DEF RollBack
  <2>2. ctl' # [ctl EXCEPT !.pc = "write", !.todo = FileOrder]
    BY <1>1 DEF Controls
  <2>3. ~CallStart(ctl.payload, "ok", "rollback")
    BY <1>1 DEF CallStart, Controls
  <2>4. ctl.pc = "write" => ~Done("release")
    <3>1. ctl.pc = "write" => ctl.todo \in Suffixes
      BY DEF StepsApart
    <3> QED
      BY <1>1, <3>1, Round DEF Pcs
  <2> QED
    BY <1>8, <2>1, <2>2, <2>3, <2>4 DEF TakeLock, Write, Release, WriteFails
<1>9. CASE Restore
  <2>1. ctl.todo \in Suffixes /\ ctl.pc = "restore" /\ "restored" \in Pcs
    BY <1>9 DEF Restore, StepsApart, Pcs
  <2>2. ~Done("restored")
    BY <1>1, <2>1, Round
  <2>3. ctl' # [ctl EXCEPT !.todo = Tail(ctl.todo), !.torn = TRUE,
                           !.pc = IF Len(ctl.todo) = 1 THEN "restored" ELSE ctl.pc]
    BY <1>1, <2>1 DEF Controls
  <2> QED
    BY <1>9, <2>2, <2>3 DEF Restore
<1>10. CASE AfterRestore
  <2>1. ~CallStart(ctl.own, "failed", "failed")
    BY <1>1 DEF CallStart, Controls
  <2>2. ctl.torn /\ Finish("failed") /\ ~ctl.blocked
    BY <1>10, <2>1 DEF AfterRestore, AbortKnown, Starting
  <2>3. ctl'.result = "failed" /\ Flags(ctl') = Flags(ctl)
    BY <1>1, <2>2, Ended DEF Finish
  <2> QED
    BY <2>2, <2>3 DEF Flags
<1>11. CASE Clear \/ RemoveFiles \/ Removed
  <2>1. /\ ctl.action # "upgrade" /\ ~Starting /\ ctl.pc \in {"clear", "remove", "removed"}
    BY <1>11 DEF Clear, RemoveFiles, Removed, StepsApart, Starting
  <2>2. ctl.pc = "clear" =>
          ctl' # [ctl EXCEPT !.pc = "remove",
                    !.todo = IF ctl.action = "purge" THEN <<"data", "rule", "binary", "controller">>
                             ELSE <<"rule", "binary", "controller">>]
    BY <1>1 DEF Controls
  <2>3. ctl.pc = "remove" => ~Done("removed")
    <3>1. CASE Len(ctl.todo) = 1
      BY <1>1, <3>1 DEF Done, Controls
    <3>2. CASE Len(ctl.todo) # 1
      BY <1>1, <3>2 DEF Done, Controls
    <3> QED
      BY <3>1, <3>2
  <2>4. Finish("failed") \/ Finish("ok")
    BY <1>11, <2>2, <2>3 DEF Clear, RemoveFiles, Removed
  <2> QED
    BY <1>3, <2>1, <2>4
<1>12. CASE ControlDies \/ PowerFails
  <2>1. ctl' = [NoControl EXCEPT !.result = "killed"]
    BY <1>12 DEF ControlDies, PowerFails
  <2>2. ctl'.result = "killed"
    BY <2>1 DEF NoControl
  <2> QED
    BY <2>2
<1>13. CASE InstallBegins
  BY <1>1, <1>13 DEF InstallBegins, Controls
<1>14. CASE Begin
  BY <1>14 DEF Begin
<1>15. CASE \/ (\E a \in Actions : Queue(a)) \/ Leave
            \/ HelperServes \/ HelperGivesUp \/ HelperWorks \/ HelperDies \/ InstallWrites \/ NewPackage
  BY <1>15, <1>2 DEF Queue, Leave, HelperServes, HelperGivesUp, HelperWorks, HelperDies, InstallWrites,
                     NewPackage
<1> QED
  BY <1>5, <1>6, <1>7, <1>8, <1>9, <1>10, <1>11, <1>12, <1>13, <1>14, <1>15 DEF Next, Control

\* While protected files are written or removed, no Helper serves and no account
\* waits for its password (upgradePrivilegedHelper, cleanupHelperFiles,
\* InstallPrivilegedHelper).
THEOREM FilesWrittenWhenQuiet == Spec => FilesOnlyWhenQuiet
<1>1. ASSUME ControlInvariant, [Next]_vars, files' # files PROVE ~open /\ ~proc.serving
  <2>1. Write \/ Restore \/ RemoveFiles \/ InstallWrites
    BY <1>1 DEF Next, Control, vars, Queue, Leave, Begin, Spawn, WriteRecord, AwaitHealth, Terminate,
                Recover, BackUp, TakeLock, Release, AfterRestore, Clear, Removed, HelperServes,
                HelperGivesUp, HelperWorks, HelperDies, ControlDies, PowerFails, InstallBegins,
                NewPackage
  <2>2. CASE ctl.pc \in {"write", "remove"} \/ inst # NoInstall
    BY <1>1, <2>2 DEF ControlInvariant, LockKnown, Quiet
  <2>3. CASE ctl.pc = "restore"
    BY <1>1, <2>3 DEF ControlInvariant, LockKnown, Quiet
  <2> QED
    BY <2>1, <2>2, <2>3 DEF Write, Restore, RemoveFiles, InstallWrites
<1>2. ControlInvariant /\ [Next]_vars => [files' # files => ~open /\ ~proc.serving]_vars
  BY <1>1
<1> QED
  BY <1>2, ControlIsSound, PTL DEF Spec, FilesOnlyWhenQuiet

\* An upgrade that fails leaves the files as it found them, unless its rollback
\* says otherwise or an installer came between (upgradePrivilegedHelper,
\* restoreProtectedHelperFiles).
THEOREM FailedUpgradesRestore == Spec => FailedUpgradeRestores
<1>1. ASSUME ControlInvariant, [Next]_vars, ctl.action = "upgrade", Ends("failed"),
             ~ctl'.torn, ~ctl'.crossed
      PROVE  files' = ctl.old
  <2>1. Next /\ ctl.pc # "idle" /\ ctl'.pc = "idle" /\ ctl'.result = "failed"
    BY <1>1 DEF Ends, vars
  <2>2. CASE Spawn \/ WriteRecord \/ AwaitHealth
    <3>1. /\ Starting /\ files' = files /\ Task(ctl') = Task(ctl) /\ Flags(ctl') = Flags(ctl)
          /\ ctl.failing = "failed" \/ ctl.after = "failed"
      BY <1>1, <2>1, <2>2, StartEnds
    <3> QED
      BY <1>1, <2>1, <3>1 DEF ControlInvariant, UpgradeKnown, OldInPlace, Task, Flags
  <2>3. CASE ~(Spawn \/ WriteRecord \/ AwaitHealth)
    BY <1>1, <2>1, <2>3, OtherEnds
  <2> QED
    BY <2>2, <2>3
<1>2. ControlInvariant /\ [Next]_vars =>
        [ctl.action = "upgrade" /\ Ends("failed") /\ ~ctl'.torn /\ ~ctl'.crossed => files' = ctl.old]_vars
  BY <1>1
<1> QED
  BY <1>2, ControlIsSound, PTL DEF Spec, FailedUpgradeRestores

\* An upgrade that reports success has put the verified version in place, and a
\* Helper runs (upgradePrivilegedHelper, startPrivilegedHelperVersion).
THEOREM UpgradesServe == Spec => UpgradeServes
<1> DEFINE Served == /\ proc' # NoProc
                     /\ files'["binary"] = ctl.payload /\ files'["controller"] = ctl.payload
                     /\ ctl.own # ctl.payload => proc'.version = ctl.payload /\ files'["rule"] = ctl.payload
<1>1. ASSUME ControlInvariant, [Next]_vars, ctl.action = "upgrade", Ends("ok"), ~ctl'.crossed
      PROVE  Served
  <2>1. Next /\ ctl.pc # "idle" /\ ctl'.pc = "idle" /\ ctl'.result = "ok"
    BY <1>1 DEF Ends, vars
  <2>2. Spawn \/ WriteRecord \/ AwaitHealth
    BY <1>1, <2>1, OtherEnds
  <2>3. /\ Starting /\ files' = files /\ Task(ctl') = Task(ctl) /\ ctl.after = "ok"
        /\ proc' = proc /\ proc # NoProc
    BY <1>1, <2>1, <2>2, StartEnds
  <2>4. NewInPlace
    BY <1>1, <2>1, <2>3 DEF ControlInvariant, UpgradeKnown, Task
  <2> QED
    BY <2>3, <2>4 DEF NewInPlace
<1>2. ControlInvariant /\ [Next]_vars =>
        [ctl.action = "upgrade" /\ Ends("ok") /\ ~ctl'.crossed => Served]_vars
  BY <1>1
<1> QED
  BY <1>2, ControlIsSound, PTL DEF Spec, UpgradeServes

\* A controller that gives a stop up brings the Helper back, unless a fault hits
\* that start or an installer came between (stopPrivilegedHelper).
THEOREM AbortedStopsRestart == Spec => AbortedStopRestarts
<1> DEFINE Given == /\ Ends("failed") /\ ctl'.blocked /\ left' = ctl'.since /\ ~ctl'.crossed
                    /\ ~ctl'.rollback /\ ctl.own = files["binary"]
<1>1. ASSUME ControlInvariant, [Next]_vars, Given PROVE proc' # NoProc
  <2>1. Next /\ ctl.pc # "idle" /\ ctl'.pc = "idle" /\ ctl'.result = "failed"
    BY <1>1 DEF Ends, vars
  <2>2. Spawn \/ WriteRecord \/ AwaitHealth
    BY <1>1, <2>1, OtherEnds
  <2>3. ctl.blocked /\ left' = ctl.since /\ ~ctl.crossed /\ Starting
    BY <1>1, <2>1, <2>2, StartEnds DEF Task, Flags
  <2>4. /\ left <= ctl.since /\ ctl.own # 0 /\ ctl.want = ctl.own /\ inst = NoInstall
        /\ (ctl.pc # "start" /\ left = ctl.since) => proc # NoProc /\ proc.version = ctl.own
    BY <1>1, <2>1, <2>3 DEF ControlInvariant, AbortKnown, CrossedKnown
  <2>5. ~Fault
    <3>1. left \in 0 .. Faults /\ ctl \in Controls
      BY <1>1 DEF ControlInvariant, TypeOK
    <3>2. left \in Nat /\ ctl.since \in Nat
      BY <3>1, ControlAssumption DEF Controls
    <3> QED
      BY <2>3, <2>4, <3>2 DEF Fault
  <2>6. CASE Spawn
    <3>1. lock # "none" => proc.serving
      BY <1>1, <2>3, <2>4 DEF ControlInvariant, LockKnown, TypeOK, Starting
    <3>2. ctl' # [ctl EXCEPT !.pc = "record"]
      BY <1>1, <2>1 DEF ControlInvariant, TypeOK, Controls
    <3> QED
      BY <1>1, <2>4, <2>6, <3>1, <3>2 DEF Spawn, Running, ControlInvariant, LockKnown
  <2>7. CASE WriteRecord
    <3>1. ctl' # [ctl EXCEPT !.pc = "await"]
      BY <1>1, <2>1 DEF ControlInvariant, TypeOK, Controls
    <3> QED
      BY <2>5, <2>7, <3>1 DEF WriteRecord
  <2>8. CASE AwaitHealth
    <3>1. ctl.pc = "await" /\ left' = left
      BY <2>5, <2>8 DEF AwaitHealth
    <3>2. proc # NoProc /\ proc.version = ctl.want
      BY <2>3, <2>4, <3>1
    <3> QED
      BY <2>5, <2>8, <3>2 DEF AwaitHealth, Healthy
  <2> QED
    BY <2>2, <2>6, <2>7, <2>8
<1>2. ControlInvariant /\ [Next]_vars => [Given => proc' # NoProc]_vars
  BY <1>1
<1> QED
  BY <1>2, ControlIsSound, PTL DEF Spec, AbortedStopRestarts
=============================================================================
