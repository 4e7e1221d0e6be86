------------------------- MODULE HelperControlProps -------------------------
(* What the process control of the Helper promises. *)
EXTENDS HelperControl

Pcs == {"idle", "start", "record", "await", "stop", "recover", "backup", "take", "write",
        "release", "restore", "restored", "clear", "remove", "removed"}

\* What a loop over the files, or over what an uninstall removes, has still to do.
Suffixes == {FileOrder, <<"controller", "rule">>, <<"rule">>}
Removals == {<<"data", "rule", "binary", "controller">>, <<"rule", "binary", "controller">>,
             <<"binary", "controller">>, <<"controller">>}

Controls ==
  [pc : Pcs, action : Actions \cup {"none"}, own : Versions, payload : Versions,
   old : [Files -> Versions], todo : Suffixes \cup Removals \cup {<<>>}, want : Versions,
   after : {"ok", "failed"}, failing : {"failed", "rollback"}, rollback : BOOLEAN,
   blocked : BOOLEAN, since : 0 .. Faults, torn : BOOLEAN, crossed : BOOLEAN,
   result : {"none", "ok", "failed", "refused", "killed"}]

TypeOK ==
  /\ files \in [Files -> Versions] /\ backup \in [Files -> Versions] /\ package \in Versions
  /\ proc \in [version : Versions, serving : BOOLEAN]
  /\ record \in {"none", "live", "dead"}
  /\ lock \in {"none", "helper", "control", "install"}
  /\ open \in BOOLEAN /\ left \in 0 .. Faults
  /\ queue \in [action : Actions \cup {"none"}, own : Versions]
  /\ inst \in [todo : Suffixes \cup {<<>>}, version : Versions]
  /\ ctl \in Controls

\* Who holds the instance lock, and what a Helper that does not serve rests on.
LockKnown ==
  /\ proc.serving <=> lock = "helper"
  /\ ctl.pc \in {"write", "release", "remove", "removed"} <=> lock = "control"
  /\ inst # NoInstall <=> lock = "install"
  /\ (proc # NoProc /\ ~proc.serving) => (record = "live" \/ ctl.pc = "record")
  /\ proc.serving => proc # NoProc

\* From the stop on nothing runs and nothing is open: a controller that has
\* recovered, or an installer, keeps it so without asking again.
Quiet ==
  /\ lock \in {"control", "install"} => ~open
  /\ ctl.pc = "recover" => proc = NoProc \/ proc.serving
  /\ ctl.pc \in {"backup", "take", "write", "release", "restore", "restored"} => proc = NoProc
  /\ ctl.pc \in {"restore", "restored"} => ~open

\* What the loop over FileOrder has got to.
Behind(now, todo, value) ==
  /\ todo # FileOrder => now["binary"] = value["binary"]
  /\ todo = <<"rule">> => now["controller"] = value["controller"]

Starting == ctl.pc \in {"start", "record", "await"}

\* Which steps belong to an upgrade, and which to an uninstall.
StepsApart ==
  /\ (\/ ctl.pc \in {"backup", "take", "write", "release", "restore", "restored"}
      \/ ctl.pc # "idle" /\ (ctl.rollback \/ ctl.failing = "rollback")) => ctl.action = "upgrade"
  /\ ctl.pc \in {"clear", "remove", "removed"} => ctl.action # "upgrade"
  /\ ctl.pc \in {"restore", "restored"} \/ (ctl.pc # "idle" /\ ctl.torn) => ctl.rollback
  /\ ctl.pc \in {"backup", "write", "restore"} => ctl.todo \in Suffixes
  /\ ctl.pc = "remove" => ctl.todo \in Removals
  /\ inst # NoInstall => inst.todo \in Suffixes

\* Where the files are those that the upgrade has found,
OldInPlace ==
  \/ ctl.pc \in {"stop", "recover"} /\ ~ctl.rollback
  \/ ctl.pc \in {"backup", "take", "restored"}
  \/ Starting /\ ctl.failing = "failed"

\* and where they are those of the verified package.
NewInPlace ==
  /\ files["binary"] = ctl.payload /\ files["controller"] = ctl.payload
  /\ ctl.own # ctl.payload =>
       /\ files["rule"] = ctl.payload
       /\ proc = NoProc \/ (ctl.pc # "start" /\ proc.version = ctl.payload)

\* The files of an upgrade that no installer disturbs, at each of its steps, and
\* the process that it starts.
UpgradeKnown ==
  (ctl.pc # "idle" /\ ctl.action = "upgrade") =>
    /\ ~ctl.crossed =>
         /\ (~ctl.torn /\ OldInPlace) => files = ctl.old
         /\ ctl.pc = "write" => Behind(files, ctl.todo, AllAt(ctl.payload))
         /\ ctl.pc = "release" => files = AllAt(ctl.payload)
         /\ (~ctl.torn /\ ctl.pc = "restore") => Behind(files, ctl.todo, ctl.old)
         /\ (Starting /\ ctl.after = "ok") => NewInPlace
    /\ (Starting /\ ctl.after = "failed") => ctl.failing = "failed"

\* An installer at work makes the action that runs meanwhile a crossed one.
CrossedKnown == (ctl.pc # "idle" /\ inst # NoInstall) => ctl.crossed

\* The restart after a stop that was given up.
AbortKnown ==
  /\ queue # NoQueue => queue.own # 0
  /\ ctl.pc # "idle" => ctl.own # 0
  /\ (ctl.pc # "idle" /\ ctl.blocked) =>
       /\ Starting /\ ctl.after = "failed" /\ ctl.failing = "failed"
       /\ ctl.want = ctl.own /\ left <= ctl.since
       /\ (ctl.pc # "start" /\ left = ctl.since /\ ~ctl.crossed /\ ctl.own = files["binary"])
            => proc # NoProc /\ proc.version = ctl.own

\* The induction invariant: a control action knows who holds the instance lock,
\* that nothing runs or is open where it relies on it, and which version every
\* protected file has.
ControlInvariant ==
  TypeOK /\ LockKnown /\ Quiet /\ StepsApart /\ UpgradeKnown /\ CrossedKnown /\ AbortKnown

Ends(result) == ctl.pc # "idle" /\ ctl'.pc = "idle" /\ ctl'.result = result

\* While an upgrade or a rollback writes the protected files, and when an
\* uninstall removes them, no Helper serves and no account waits for its
\* password: upgradePrivilegedHelper, cleanupHelperFiles.
FilesOnlyWhenQuiet == [][files' # files => ~open /\ ~proc.serving]_vars

\* An upgrade that fails leaves the files as it found them, unless its rollback
\* reports that it could not be done or an administrator installed meanwhile.
FailedUpgradeRestores ==
  [][ctl.action = "upgrade" /\ Ends("failed") /\ ~ctl'.torn /\ ~ctl'.crossed => files' = ctl.old]_vars

\* A controller whose stop or uninstall is given up because a password could not
\* be restored leaves the Helper running, unless a fault hits that start, an
\* installer holds the lock, or the controller is older than the files
\* (stopPrivilegedHelper).
AbortedStopRestarts ==
  [][/\ Ends("failed") /\ ctl'.blocked /\ left' = ctl'.since /\ ~ctl'.crossed
     /\ ~ctl'.rollback /\ ctl.own = files["binary"]
     => proc' # NoProc]_vars

\* An upgrade reports success only with a Helper running and the verified
\* version in place, the rule and the process included; a retry of the same
\* build looks neither at the rule nor at the process that it finds.
UpgradeServes ==
  [][ctl.action = "upgrade" /\ Ends("ok") /\ ~ctl'.crossed =>
       /\ proc' # NoProc
       /\ files'["binary"] = ctl.payload /\ files'["controller"] = ctl.payload
       /\ ctl.own # ctl.payload => proc'.version = ctl.payload /\ files'["rule"] = ctl.payload]_vars

\* The comment of stopPrivilegedHelper (control.go:194-195), for the stop before
\* a rollback: given up, and without a fault since, it brings the Helper back.
AbortedRollbackRestarts ==
  [][/\ Ends("failed") /\ ctl'.blocked /\ left' = ctl'.since /\ ~ctl'.crossed
     /\ ctl'.rollback /\ ctl.own = ctl.old["binary"]
     => proc' # NoProc]_vars
=============================================================================
