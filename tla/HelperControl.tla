---------------------------- MODULE HelperControl ----------------------------
(***************************************************************************)
(* Process control of the privileged Helper (internal/helperserver/        *)
(* control.go, upgrade.go, uninstall.go, install.go): start, stop,         *)
(* restart, upgrade, uninstall and the root installer, one file or process *)
(* step at a time.                                                         *)
(*                                                                         *)
(* A version of the protected files is a number, 0 when a file is missing; *)
(* the root settings are never changed and are left out.  control.lock     *)
(* lets one control action run at a time, ctl, while one more, queue, runs *)
(* the binary that was installed when it was started; the root installer   *)
(* takes only the instance lock.  open says whether some account has a     *)
(* temporary password or an unfinished journal (LoginJournal,              *)
(* PasswordReset).                                                         *)
(*                                                                         *)
(* Bounds: versions of the package up to Newest, and Faults failures of a  *)
(* file operation, of a process or of the machine.                         *)
(***************************************************************************)
EXTENDS Naturals, Sequences

CONSTANTS Newest, Faults

ASSUME ControlAssumption == Newest \in Nat \ {0} /\ Faults \in Nat

VARIABLES
  files,   \* files[f]: the version of the protected file f
  backup,  \* backup[f]: previous-helper
  package, \* the version of the files in the installed package
  proc,    \* the Helper process: [version, serving], or NoProc
  record,  \* helper.pid: "none", "live" (names proc) or "dead"
  lock,    \* who holds helper.instance.lock: "none", "helper", "control", "install"
  open,    \* an account has a temporary password or an open journal
  queue,   \* the controller that waits for control.lock: [action, own], or NoQueue
  ctl,     \* the control action that holds control.lock, or the last that did
  inst,    \* the root installer: [todo, version]
  left     \* the faults left

vars == <<files, backup, package, proc, record, lock, open, queue, ctl, inst, left>>
world == <<package, open, queue, inst>>

FileOrder == <<"binary", "controller", "rule">>
Files == {FileOrder[i] : i \in 1 .. 3}
Versions == 0 .. Newest
AllAt(v) == [f \in Files |-> v]

NoProc == [version |-> 0, serving |-> FALSE]

Actions == {"start", "stop", "restart", "upgrade", "uninstall", "purge"}
NoQueue == [action |-> "none", own |-> 0]

\* A control action: own is the version of the running controller process,
\* payload the package that an upgrade has verified, old the files when it
\* began, todo what a loop has still to do, want the version a start waits for,
\* after and failing what follows a start that succeeds and one that does not.
\* blocked: a recovery failed, with since faults left; torn: the rollback was
\* given up or restored not every file; crossed: an installer ran meanwhile.
NoControl ==
  [pc |-> "idle", action |-> "none", own |-> 0, payload |-> 0, old |-> AllAt(0), todo |-> <<>>,
   want |-> 0, after |-> "ok", failing |-> "failed", rollback |-> FALSE, blocked |-> FALSE,
   since |-> 0, torn |-> FALSE, crossed |-> FALSE, result |-> "none"]
NoInstall == [todo |-> <<>>, version |-> 0]

Init ==
  /\ files = AllAt(1) /\ backup = AllAt(0) /\ package = 1
  /\ proc = NoProc /\ record = "none" /\ lock = "none" /\ open = FALSE
  /\ queue = NoQueue /\ ctl = NoControl /\ inst = NoInstall /\ left = Faults

Fault == left > 0 /\ left' = left - 1

\* installedHelperProcess: the record names the process by PID and start time.
Running == record = "live" /\ proc # NoProc

\* The end of the process releases the instance lock that it held.
ProcEnds ==
  /\ proc' = NoProc
  /\ record' = IF record = "live" THEN "dead" ELSE record
  /\ lock' = IF lock = "helper" THEN "none" ELSE lock

Finish(result) == ctl' = [ctl EXCEPT !.pc = "idle", !.result = result]

\* Broken: a rollback writes over whatever the failed start has left.
RestoreAtOnce == ctl' = [ctl EXCEPT !.pc = "restore", !.rollback = TRUE, !.todo = FileOrder]

\* "Never roll back over an instance that may still have a temporary password."
RollBack == ctl' = [ctl EXCEPT !.pc = "stop", !.rollback = TRUE]

Follow(next) == IF next = "rollback" THEN RollBack ELSE Finish(next)

CallStart(want, after, failing) ==
  ctl' = [ctl EXCEPT !.pc = "start", !.want = want, !.after = after, !.failing = failing]
------------------------------------------------------------------------------
(***************************************************************************)
(* ControlPrivilegedHelper.                                                *)
(***************************************************************************)
\* The script starts the installed binary, which waits for control.lock,
Queue(action) ==
  /\ queue = NoQueue /\ files["binary"] # 0 /\ files["controller"] # 0
  /\ queue' = [action |-> action, own |-> files["binary"]]
  /\ UNCHANGED <<files, backup, package, proc, record, lock, open, ctl, inst, left>>

\* and gives up after three seconds, or when the files are gone.
Leave ==
  /\ queue # NoQueue /\ (ctl.pc # "idle" \/ files["binary"] = 0 \/ files["controller"] = 0)
  /\ queue' = NoQueue
  /\ UNCHANGED <<files, backup, package, proc, record, lock, open, ctl, inst, left>>

\* An older payload is refused, and one of the same build that differs from the
\* files (helperupdate.Load, upgradePrivilegedHelper).
Acceptable ==
  /\ package >= queue.own
  /\ package = queue.own => files["binary"] = package /\ files["controller"] = package

Begin ==
  LET new == [NoControl EXCEPT !.action = queue.action, !.own = queue.own, !.old = files,
                               !.payload = package, !.crossed = inst # NoInstall]
      upgrade == queue.action = "upgrade"
      same == package = queue.own
  IN  /\ queue # NoQueue /\ ctl.pc = "idle"
      /\ files["binary"] # 0 /\ files["controller"] # 0
      /\ queue' = NoQueue
      /\ \/ upgrade /\ ~Acceptable /\ ctl' = [new EXCEPT !.result = "refused"]
         \/ /\ queue.action = "start" \/ (upgrade /\ Acceptable /\ same)
            /\ ctl' = [new EXCEPT !.pc = "start", !.want = queue.own]
         \/ /\ queue.action # "start" /\ (upgrade => Acceptable /\ ~same)
            /\ ctl' = [new EXCEPT !.pc = "stop"]
      /\ UNCHANGED <<files, backup, package, proc, record, lock, open, inst, left>>

(***************************************************************************)
(* startPrivilegedHelperVersion.                                           *)
(***************************************************************************)
\* A running Helper is enough; a held instance lock is refused; otherwise the
\* binary is started.
Spawn ==
  /\ ctl.pc = "start"
  /\ \/ Running /\ Follow(ctl.after) /\ UNCHANGED proc
     \/ ~Running /\ (lock # "none" \/ files["binary"] = 0) /\ Follow(ctl.failing) /\ UNCHANGED proc
     \/ /\ ~Running /\ lock = "none" /\ files["binary"] # 0
        /\ proc' = [version |-> files["binary"], serving |-> FALSE]
        /\ ctl' = [ctl EXCEPT !.pc = "record"]
  /\ UNCHANGED <<files, backup, record, lock, left, world>>

WriteRecord ==
  /\ ctl.pc = "record"
  /\ \/ /\ record' = IF proc = NoProc THEN "dead" ELSE "live"
        /\ ctl' = [ctl EXCEPT !.pc = "await"]
        /\ UNCHANGED <<proc, lock, left>>
     \/ Fault /\ ProcEnds /\ Follow(ctl.failing)
  /\ UNCHANGED <<files, backup, world>>

Healthy == proc.serving /\ proc.version = ctl.want

\* The health check answers in the version waited for, the process has ended,
\* or ten seconds have passed and the process is killed.
AwaitHealth ==
  /\ ctl.pc = "await"
  /\ \/ Healthy /\ Follow(ctl.after) /\ UNCHANGED <<proc, record, lock, left>>
     \/ ~Running /\ Follow(ctl.failing) /\ UNCHANGED <<proc, record, lock, left>>
     \/ /\ Running /\ ProcEnds /\ Follow(ctl.failing)
        /\ IF proc.serving /\ ~Healthy THEN UNCHANGED left ELSE Fault
  /\ UNCHANGED <<files, backup, world>>

(***************************************************************************)
(* stopPrivilegedHelper.                                                   *)
(***************************************************************************)
\* A stop that fails ends the action; before a rollback it gives that up.
StopFails == ctl' = [ctl EXCEPT !.pc = "idle", !.result = "failed", !.torn = ctl.rollback]

\* SIGTERM ends the process at once, whatever it was doing.
Terminate ==
  /\ ctl.pc = "stop"
  /\ \/ Running /\ ProcEnds /\ ctl' = [ctl EXCEPT !.pc = "recover"] /\ UNCHANGED left
     \/ Running /\ Fault /\ StopFails /\ UNCHANGED <<proc, record, lock>>
     \/ ~Running /\ ctl' = [ctl EXCEPT !.pc = "recover"] /\ UNCHANGED <<proc, record, lock, left>>
  /\ UNCHANGED <<files, backup, world>>

\* Broken: an aborted stop leaves the Helper stopped.
JustFails ==
  ctl' = [ctl EXCEPT !.pc = "idle", !.result = "failed", !.blocked = TRUE, !.since = left,
                     !.torn = ctl.rollback]

\* "An aborted stop/uninstall must not leave every other account offline": the
\* controller starts the Helper again, and waits for its own version.
RestartAfterAbort ==
  ctl' = [ctl EXCEPT !.pc = "start", !.want = ctl.own, !.after = "failed", !.failing = "failed",
                     !.blocked = TRUE, !.since = left, !.torn = ctl.rollback]

\* Broken: a rollback brings back the binary only.
RestoreBinary == <<"binary">>
RestoreOrder == FileOrder

AfterStop ==
  \/ ctl.rollback /\ ctl' = [ctl EXCEPT !.pc = "restore", !.todo = RestoreOrder]
  \/ ~ctl.rollback /\ ctl.action = "stop" /\ Finish("ok")
  \/ ~ctl.rollback /\ ctl.action = "restart" /\ CallStart(ctl.own, "ok", "failed")
  \/ ~ctl.rollback /\ ctl.action = "upgrade" /\ ctl' = [ctl EXCEPT !.pc = "backup", !.todo = FileOrder]
  \/ ~ctl.rollback /\ ctl.action \in {"uninstall", "purge"} /\ ctl' = [ctl EXCEPT !.pc = "clear"]

\* Under the instance lock: recoverPending, which an unreachable or changed
\* account may keep from restoring every password, assertNoPendingJournals;
\* and then the removal of helper.pid.
Recover ==
  /\ ctl.pc = "recover"
  /\ \/ lock = "none" /\ AfterStop /\ open' = FALSE /\ record' = "none" /\ UNCHANGED left
     \/ lock = "none" /\ Fault /\ StopFails /\ open' = FALSE /\ UNCHANGED record
     \/ (lock # "none" \/ open) /\ RestartAfterAbort /\ UNCHANGED <<open, record, left>>
  /\ UNCHANGED <<files, backup, package, proc, lock, queue, inst>>
------------------------------------------------------------------------------
(***************************************************************************)
(* upgradePrivilegedHelper after the stop.                                 *)
(***************************************************************************)
Todo == Head(ctl.todo)
Done(next) == ctl' = [ctl EXCEPT !.todo = Tail(@), !.pc = IF Len(ctl.todo) = 1 THEN next ELSE @]

BackUp ==
  /\ ctl.pc = "backup"
  /\ \/ backup' = [backup EXCEPT ![Todo] = ctl.old[Todo]] /\ Done("take") /\ UNCHANGED left
     \/ Fault /\ CallStart(ctl.own, "failed", "failed") /\ UNCHANGED backup
  /\ UNCHANGED <<files, proc, record, lock, world>>

TakeLock ==
  /\ ctl.pc = "take"
  /\ IF lock = "none" /\ ~open
     THEN lock' = "control" /\ ctl' = [ctl EXCEPT !.pc = "write", !.todo = FileOrder]
     ELSE RollBack /\ UNCHANGED lock
  /\ UNCHANGED <<files, backup, proc, record, left, world>>

\* Broken: a step that fails is passed over.
GoesOn == Done("release") /\ UNCHANGED lock

\* A write or the new binary's finalize-upgrade fails.
WriteFails == lock' = "none" /\ RollBack

\* The binary, the controller, and finalize-upgrade, which installs the rule.
Write ==
  /\ ctl.pc = "write"
  /\ \/ files' = [files EXCEPT ![Todo] = ctl.payload] /\ Done("release") /\ UNCHANGED <<lock, left>>
     \/ Fault /\ WriteFails /\ UNCHANGED files
  /\ UNCHANGED <<backup, proc, record, world>>

Release ==
  /\ ctl.pc = "release"
  /\ lock' = "none" /\ CallStart(ctl.payload, "ok", "rollback")
  /\ UNCHANGED <<files, backup, proc, record, left, world>>

\* restoreProtectedHelperFiles tries every file, without the instance lock; an
\* incomplete one ends the action, a complete one starts the old Helper.
Restore ==
  /\ ctl.pc = "restore"
  /\ \/ files' = [files EXCEPT ![Todo] = ctl.old[Todo]] /\ UNCHANGED left /\ Done("restored")
     \/ /\ Fault /\ UNCHANGED files
        /\ ctl' = [ctl EXCEPT !.todo = Tail(@), !.torn = TRUE,
                              !.pc = IF Len(ctl.todo) = 1 THEN "restored" ELSE @]
  /\ UNCHANGED <<backup, proc, record, lock, world>>

AfterRestore ==
  /\ ctl.pc = "restored"
  /\ IF ctl.torn THEN Finish("failed") ELSE CallStart(ctl.own, "failed", "failed")
  /\ UNCHANGED <<files, backup, proc, record, lock, left, world>>

(***************************************************************************)
(* uninstallPrivilegedHelper after the stop.                               *)
(***************************************************************************)
Clear ==
  /\ ctl.pc = "clear"
  /\ IF lock = "none" /\ ~open
     THEN /\ lock' = "control"
          /\ ctl' = [ctl EXCEPT !.pc = "remove",
                       !.todo = IF ctl.action = "purge" THEN <<"data", "rule", "binary", "controller">>
                                ELSE <<"rule", "binary", "controller">>]
     ELSE Finish("failed") /\ UNCHANGED lock
  /\ UNCHANGED <<files, backup, proc, record, left, world>>

RemoveFiles ==
  /\ ctl.pc = "remove"
  /\ \/ /\ files' = [f \in Files |-> IF f = Todo THEN 0 ELSE files[f]]
        /\ backup' = IF Todo = "data" THEN AllAt(0) ELSE backup
        /\ Done("removed") /\ UNCHANGED <<lock, left>>
     \/ Fault /\ lock' = "none" /\ Finish("failed") /\ UNCHANGED <<files, backup>>
  /\ UNCHANGED <<proc, record, world>>

Removed ==
  /\ ctl.pc = "removed"
  /\ lock' = "none" /\ Finish("ok")
  /\ UNCHANGED <<files, backup, proc, record, left, world>>

Control ==
  \/ Spawn \/ WriteRecord \/ AwaitHealth \/ Terminate \/ Recover
  \/ BackUp \/ TakeLock \/ Write \/ Release \/ Restore \/ AfterRestore
  \/ Clear \/ RemoveFiles \/ Removed
------------------------------------------------------------------------------
(***************************************************************************)
(* The Helper process (serveWithLock): it takes the instance lock within   *)
(* three seconds or exits, and lends and restores passwords while it serves*)
(***************************************************************************)
HelperServes ==
  /\ proc # NoProc /\ ~proc.serving /\ lock = "none"
  /\ proc' = [proc EXCEPT !.serving = TRUE] /\ lock' = "helper"
  /\ UNCHANGED <<files, backup, record, ctl, left, world>>

HelperGivesUp ==
  /\ proc # NoProc /\ ~proc.serving /\ lock # "none"
  /\ ProcEnds
  /\ UNCHANGED <<files, backup, ctl, left, world>>

Lend == proc.serving /\ ~open /\ open' = TRUE
Restored == proc.serving /\ open /\ open' = FALSE

HelperWorks ==
  /\ (Lend \/ Restored)
  /\ UNCHANGED <<files, backup, package, proc, record, lock, queue, ctl, inst, left>>

HelperDies ==
  /\ proc # NoProc /\ Fault /\ ProcEnds
  /\ UNCHANGED <<files, backup, ctl, world>>

(***************************************************************************)
(* The controller is killed.  A Helper that it has started goes on; one    *)
(* that is not in helper.pid yet has taken its lock by then.               *)
(***************************************************************************)
ControlDies ==
  /\ ctl.pc # "idle" /\ (ctl.pc = "record" => proc = NoProc \/ proc.serving)
  /\ Fault
  /\ ctl' = [NoControl EXCEPT !.result = "killed"]
  /\ lock' = IF lock = "control" THEN "none" ELSE lock
  /\ UNCHANGED <<files, backup, proc, record, world>>

\* A power failure: only the files, the backup and the journals stay.
PowerFails ==
  /\ Fault
  /\ proc' = NoProc /\ record' = "none" /\ lock' = "none"
  /\ queue' = NoQueue /\ ctl' = [NoControl EXCEPT !.result = "killed"] /\ inst' = NoInstall
  /\ UNCHANGED <<files, backup, package, open>>

(***************************************************************************)
(* InstallPrivilegedHelper, run by an administrator, and a new package.    *)
(***************************************************************************)
InstallBegins ==
  /\ inst = NoInstall /\ lock = "none" /\ ~open
  /\ lock' = "install" /\ inst' = [todo |-> FileOrder, version |-> package]
  /\ ctl' = [ctl EXCEPT !.crossed = @ \/ ctl.pc # "idle"]
  /\ UNCHANGED <<files, backup, package, proc, record, open, queue, left>>

InstallWrites ==
  /\ inst # NoInstall
  /\ \/ /\ files' = [files EXCEPT ![Head(inst.todo)] = inst.version]
        /\ UNCHANGED left
        /\ IF Len(inst.todo) = 1
           THEN inst' = NoInstall /\ lock' = "none"
           ELSE inst' = [inst EXCEPT !.todo = Tail(@)] /\ UNCHANGED lock
     \/ Fault /\ inst' = NoInstall /\ lock' = "none" /\ UNCHANGED files
  /\ UNCHANGED <<backup, package, proc, record, open, queue, ctl>>

NewPackage ==
  /\ package < Newest /\ package' = package + 1
  /\ UNCHANGED <<files, backup, proc, record, lock, open, queue, ctl, inst, left>>

Next ==
  \/ (\E a \in Actions : Queue(a)) \/ Leave \/ Begin
  \/ Control
  \/ HelperServes \/ HelperGivesUp \/ HelperWorks \/ HelperDies \/ ControlDies \/ PowerFails
  \/ InstallBegins \/ InstallWrites \/ NewPackage

Spec == Init /\ [][Next]_vars
=============================================================================
