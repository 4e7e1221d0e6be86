---------------------------- MODULE PasswordReset ----------------------------
(***************************************************************************)
(* The permanent password reset of a full synchronization: the backend's   *)
(* resetFullSyncPasswords (sync_mode.go), the call it makes                *)
(* (helperclient/client.go), the Helper's resetSyncedUserPassword          *)
(* (sync_password.go) and applyPermanentPassword                           *)
(* (password_reset_state.go).                                              *)
(*                                                                         *)
(* DSM keeps a password in two stores and its own command sets one after   *)
(* the other, so a command that is killed may leave them different.  The   *)
(* Helper therefore writes down, before it runs the command, that the      *)
(* request is being applied, in a file of the request and in the account's *)
(* marker; logins stay refused until the marker says "completed".          *)
(*                                                                         *)
(* Abstractions.  A source has one initial password, which is never        *)
(* changed: the source stands for it, and Own for what the account had     *)
(* before.  Requests are numbered in the order the backend makes them.     *)
(* The command is a process of its own process group: it outlives a Helper *)
(* that is killed, and writes under DSM's lock_pw.  What else refuses a    *)
(* call before the history is read (a lease, a busy lock, root's grant) is *)
(* the action Refuse.  Passwords changed by their owners are left out.     *)
(***************************************************************************)
EXTENDS Naturals, FiniteSets

CONSTANTS
  Users,        \* DSM accounts mapped to every source
  Sources,      \* identity sources, and the initial password of each
  Own,          \* the password an account had before
  None,         \* no account, no source
  Threads,      \* goroutines of the Helper serving RPCs
  MaxRuns,      \* bound: full synchronizations
  MaxFaults,    \* bound: kills, failed writes and commands, time-outs
  MaxChanges,   \* bound: changes of the database's accounts and sources
  MaxResends    \* bound: requests that arrive again

Requests  == 1..(MaxRuns * Cardinality(Users))
NoRequest == 0

ASSUME ResetConstants ==
  /\ IsFiniteSet(Users)
  /\ Own \notin Sources
  /\ None \notin Users \cup Sources
  /\ {MaxRuns, MaxFaults, MaxChanges, MaxResends} \subseteq Nat

VARIABLES
  granted,  \* database: the sources through which an account is in force
  store,    \* the password of each account in DSM's two credential stores
  record,   \* password-resets/requests/<request>: the status of each request
  current,  \* password-resets/<account>: the account's marker
  issued,   \* the number of requests made so far
  args,     \* account and source of each request
  run,      \* the full synchronization of each source
  inbox,    \* requests sent to the Helper and not yet taken up
  answer,   \* what the last delivery of a request was told
  proc,     \* what each goroutine of the Helper is doing
  cmd,      \* the native command of each request
  started,  \* ghost: how often the command of a request was started
  done,     \* ghost: requests whose command has succeeded
  stray,    \* ghost: accounts a command of a dead Helper may still write
  runs, faults, changes, resends

disk    == <<record, current>>
backend == <<issued, args, run, runs>>
rpc     == <<inbox, answer>>
native  == <<store, cmd, started, done, stray>>
vars    == <<granted, store, record, current, issued, args, run, inbox, answer,
             proc, cmd, started, done, stray, runs, faults, changes, resends>>

Stores   == {"dsm", "smb"}
Statuses == {"none", "applying", "unknown", "completed"}
Pcs      == {"idle", "lock_account", "lock_system", "write_request", "mark", "native",
             "wait", "complete", "confirm", "unknown", "unknown_mark"}
SystemPcs  == Pcs \ {"idle", "lock_account", "lock_system"}
AccountPcs == SystemPcs \cup {"lock_system"}

Idle    == [pc |-> "idle", req |-> NoRequest]
NoRun   == [on |-> FALSE, todo |-> {}, req |-> NoRequest, made |-> {}, result |-> "none"]
NoCmd   == [alive |-> FALSE, left |-> {}]

Run     == [on: BOOLEAN, todo: SUBSET Users, req: Requests \cup {NoRequest},
            made: SUBSET Requests, result: {"none", "failed", "success"}]
Entry   == [req: Requests \cup {NoRequest}, status: Statuses]
Task    == [pc: Pcs, req: Requests \cup {NoRequest}]
Command == [alive: BOOLEAN, left: SUBSET Stores]

TypeOK ==
  /\ granted \in [Users -> SUBSET Sources]
  /\ store   \in [Users -> [Stores -> Sources \cup {Own}]]
  /\ record  \in [Requests -> Statuses]
  /\ current \in [Users -> Entry]
  /\ issued  \in Requests \cup {NoRequest}
  /\ args    \in [Requests -> [user: Users \cup {None}, source: Sources \cup {None}]]
  /\ run     \in [Sources -> Run]
  /\ inbox   \in SUBSET Requests
  /\ answer  \in [Requests -> {"none", "ok", "error"}]
  /\ proc    \in [Threads -> Task]
  /\ cmd     \in [Requests -> Command]
  /\ started \in [Requests -> Nat]
  /\ done    \in SUBSET Requests
  /\ stray   \in SUBSET Users
  /\ runs \in 0..MaxRuns /\ faults \in 0..MaxFaults
  /\ changes \in 0..MaxChanges /\ resends \in 0..MaxResends

Init ==
  /\ granted \in [Users -> SUBSET Sources]
  /\ store   = [u \in Users |-> [x \in Stores |-> Own]]
  /\ record  = [r \in Requests |-> "none"]
  /\ current = [u \in Users |-> [req |-> NoRequest, status |-> "none"]]
  /\ issued  = 0
  /\ args    = [r \in Requests |-> [user |-> None, source |-> None]]
  /\ run     = [s \in Sources |-> NoRun]
  /\ inbox   = {}
  /\ answer  = [r \in Requests |-> "none"]
  /\ proc    = [p \in Threads |-> Idle]
  /\ cmd     = [r \in Requests |-> NoCmd]
  /\ started = [r \in Requests |-> 0]
  /\ done    = {}
  /\ stray   = {}
  /\ runs = 0 /\ faults = 0 /\ changes = 0 /\ resends = 0

-----------------------------------------------------------------------------

\* SyncedPasswordResetAllowed: the account is in force through this source alone.
Allowed(s, u)  == granted[u] = {s}
Conflict(s, u) == s \in granted[u] /\ granted[u] # {s}

\* checkPasswordResetPending: logins into the account are refused.
Pending(u) == current[u].status \notin {"none", "completed"}

UserOf(p) == args[proc[p].req].user

\* Broken: the project lock is not taken.
AnyoneEnters == \A q \in Threads : proc[q].pc \in Pcs

AccountFree(u) == \A q \in Threads : ~(proc[q].pc \in AccountPcs /\ UserOf(q) = u)
SystemFree == \A q \in Threads : proc[q].pc \notin SystemPcs

\* A durable write ends "ok", or fails without ("lost") or with ("unsure") effect.
Outcomes   == {"ok", "lost", "unsure"}
Lands(out) == out # "lost"
Fault      == faults < MaxFaults /\ faults' = faults + 1
Disk(out)  == IF out = "ok" THEN UNCHANGED faults ELSE Fault

Goto(p, s) == proc' = [proc EXCEPT ![p].pc = s] /\ UNCHANGED answer

Answer(p, a) == /\ answer' = [answer EXCEPT ![proc[p].req] = a]
                /\ proc'   = [proc EXCEPT ![p] = Idle]

-----------------------------------------------------------------------------
(* The backend: resetFullSyncPasswords, one run of a source at a time.      *)

BeginFull(s) ==
  /\ ~run[s].on
  /\ runs < MaxRuns
  /\ runs' = runs + 1
  /\ run' = [run EXCEPT ![s] = [NoRun EXCEPT !.on = TRUE, !.todo = Users]]
  /\ UNCHANGED <<granted, native, disk, issued, args, rpc, proc, faults, changes, resends>>

\* The next account: a call with a new request ID, or an error, or nothing to do.
NextAccount(s, u) ==
  LET r == issued + 1
  IN /\ u \in run[s].todo /\ run[s].req = NoRequest
     /\ IF Allowed(s, u)
        THEN /\ r \in Requests
             /\ issued' = r
             /\ args'   = [args EXCEPT ![r] = [user |-> u, source |-> s]]
             /\ inbox'  = inbox \cup {r}
             /\ run'    = [run EXCEPT ![s].todo = @ \ {u}, ![s].req = r,
                                      ![s].made = @ \cup {r}]
        ELSE /\ run' = [run EXCEPT ![s].todo = @ \ {u},
                                   ![s].result = IF Conflict(s, u) THEN "failed" ELSE @]
             /\ UNCHANGED <<issued, args, inbox>>
     /\ UNCHANGED <<granted, native, disk, answer, proc, runs, faults, changes, resends>>

\* Broken: an account that could not be reset does not fail the run.
HearsAndGoesOn(s) ==
  /\ run[s].req # NoRequest
  /\ answer[run[s].req] # "none"
  /\ run' = [run EXCEPT ![s].req = NoRequest]
  /\ UNCHANGED <<granted, native, disk, issued, args, rpc, proc, runs, faults, changes, resends>>

\* Broken: a refused call is taken for one that is still under way.
HearsOnlySuccess(s) ==
  /\ run[s].req # NoRequest
  /\ answer[run[s].req] = "ok"
  /\ run' = [run EXCEPT ![s].req = NoRequest]
  /\ UNCHANGED <<granted, native, disk, issued, args, rpc, proc, runs, faults, changes, resends>>

HearsAnswer(s) ==
  /\ run[s].req # NoRequest
  /\ answer[run[s].req] # "none"
  /\ run' = [run EXCEPT ![s].req = NoRequest,
                        ![s].result = IF answer[run[s].req] = "ok" THEN @ ELSE "failed"]
  /\ UNCHANGED <<granted, native, disk, issued, args, rpc, proc, runs, faults, changes, resends>>

\* The client gives up after its time-out; the Helper may still be at work.
TimesOut(s) ==
  /\ run[s].req # NoRequest
  /\ answer[run[s].req] = "none"
  /\ Fault
  /\ run' = [run EXCEPT ![s].req = NoRequest, ![s].result = "failed"]
  /\ UNCHANGED <<granted, native, disk, issued, args, rpc, proc, runs, changes, resends>>

\* The caller of the run goes away, the backend ends, or no password can be had.
RunAborts(s) ==
  /\ run[s].on
  /\ Fault
  /\ run' = [run EXCEPT ![s] = [NoRun EXCEPT !.result = "failed"]]
  /\ UNCHANGED <<granted, native, disk, issued, args, rpc, proc, runs, changes, resends>>

RunEnds(s) ==
  /\ run[s].on /\ run[s].todo = {} /\ run[s].req = NoRequest
  /\ run' = [run EXCEPT ![s].on = FALSE,
                        ![s].result = IF @ = "none" THEN "success" ELSE @]
  /\ UNCHANGED <<granted, native, disk, issued, args, rpc, proc, runs, faults, changes, resends>>

\* An identity, a mapping or a source is switched on or off in the database.
DatabaseChanges(u) ==
  /\ changes < MaxChanges
  /\ changes' = changes + 1
  /\ \E g \in SUBSET Sources : granted' = [granted EXCEPT ![u] = g]
  /\ UNCHANGED <<native, disk, backend, rpc, proc, faults, resends>>

-----------------------------------------------------------------------------
(* The Helper: resetSyncedUserPassword *)

Deliver(p, r) ==
  /\ proc[p] = Idle
  /\ r \in inbox
  /\ inbox' = inbox \ {r}
  /\ proc'  = [proc EXCEPT ![p] = [pc |-> "lock_account", req |-> r]]
  /\ UNCHANGED <<granted, native, disk, backend, answer, faults, changes, resends>>

\* The same request once more, after whoever sent it first stopped waiting.
DeliverAgain(p, r) ==
  /\ proc[p] = Idle
  /\ r \in 1..issued /\ r \notin inbox
  /\ \A s \in Sources : run[s].req # r
  /\ resends < MaxResends
  /\ resends' = resends + 1
  /\ proc' = [proc EXCEPT ![p] = [pc |-> "lock_account", req |-> r]]
  /\ UNCHANGED <<granted, native, disk, backend, rpc, faults, changes>>

\* A lock is not had in three seconds, the database cannot be asked or refuses, a
\* login is under way, root has not granted the account.
Refuse(p) ==
  /\ proc[p].pc \in {"lock_account", "lock_system"}
  /\ Answer(p, "error")
  /\ UNCHANGED <<granted, native, disk, backend, inbox, faults, changes, resends>>

\* Under the account lock the database is asked again.
Authorized(p) ==
  /\ proc[p].pc = "lock_account"
  /\ AccountFree(UserOf(p))
  /\ Allowed(args[proc[p].req].source, UserOf(p))
  /\ Goto(p, "lock_system")
  /\ UNCHANGED <<granted, native, disk, backend, inbox, faults, changes, resends>>

-----------------------------------------------------------------------------
(* applyPermanentPassword, under the account lock and the project lock *)

\* Broken: an unconfirmed request is tried again; the history is not looked at.
RetriesUnknown(p) ==
  LET r == proc[p].req
  IN /\ proc[p].pc = "lock_system"
     /\ SystemFree
     /\ IF record[r] # "completed" THEN Goto(p, "write_request")
        ELSE IF current[UserOf(p)].req = r THEN Goto(p, "confirm")
        ELSE Answer(p, "ok")
     /\ UNCHANGED <<granted, native, disk, backend, inbox, faults, changes, resends>>

\* Broken: a completed request confirms the account whoever wrote its marker.
ConfirmsForOthers(p) ==
  LET r == proc[p].req
  IN /\ proc[p].pc = "lock_system"
     /\ SystemFree
     /\ CASE record[r] = "none"      -> Goto(p, "write_request")
          [] record[r] = "completed" -> Goto(p, "confirm")
          [] OTHER                   -> Answer(p, "error")
     /\ UNCHANGED <<granted, native, disk, backend, inbox, faults, changes, resends>>

\* A request seen before never runs its command again.  A completed one finishes
\* the account's marker if the marker is still its own.
ReadHistory(p) ==
  LET r == proc[p].req
      marker == current[UserOf(p)].req
  IN /\ proc[p].pc = "lock_system"
     /\ SystemFree
     /\ CASE record[r] = "none" -> Goto(p, "write_request")
          [] record[r] = "completed" /\ marker = r -> Goto(p, "confirm")
          [] record[r] = "completed" /\ marker \notin {r, NoRequest} -> Answer(p, "ok")
          [] OTHER -> Answer(p, "error")
     /\ UNCHANGED <<granted, native, disk, backend, inbox, faults, changes, resends>>

WriteRequest(p) ==
  /\ proc[p].pc = "write_request"
  /\ \E out \in Outcomes :
       /\ Disk(out)
       /\ record' = IF Lands(out) THEN [record EXCEPT ![proc[p].req] = "applying"] ELSE record
       /\ IF out = "ok" THEN Goto(p, "mark") ELSE Answer(p, "error")
  /\ UNCHANGED <<granted, native, current, backend, inbox, changes, resends>>

Marker(p, status) == [current EXCEPT ![UserOf(p)] = [req |-> proc[p].req, status |-> status]]

\* Broken: the command runs without the marker.
LeavesUnmarked(p) ==
  /\ proc[p].pc = "mark"
  /\ Goto(p, "native")
  /\ UNCHANGED <<granted, native, disk, backend, inbox, faults, changes, resends>>

Mark(p) ==
  /\ proc[p].pc = "mark"
  /\ \E out \in Outcomes :
       /\ Disk(out)
       /\ current' = IF Lands(out) THEN Marker(p, "applying") ELSE current
       /\ IF out = "ok" THEN Goto(p, "native") ELSE Answer(p, "error")
  /\ UNCHANGED <<granted, native, record, backend, inbox, changes, resends>>

\* Commands of an account that no goroutine waits for.
Orphans(u) == {r \in Requests : /\ cmd[r].alive /\ args[r].user = u
                                /\ \A q \in Threads : ~(proc[q].pc = "wait" /\ proc[q].req = r)}

StartCommand(p) ==
  LET r == proc[p].req
  IN /\ proc[p].pc = "native"
     /\ cmd'     = [cmd EXCEPT ![r] = [alive |-> TRUE, left |-> Stores]]
     /\ started' = [started EXCEPT ![r] = @ + 1]
     /\ stray'   = IF Orphans(UserOf(p)) = {} THEN stray \ {UserOf(p)} ELSE stray
     /\ Goto(p, "wait")
     /\ UNCHANGED <<granted, store, done, disk, backend, inbox, faults, changes, resends>>

\* synouser --setpw writes one store, then the other, under lock_pw.
Midway(r) == cmd[r].alive /\ cmd[r].left \notin {{}, Stores}

CommandWrites(r, x) ==
  /\ cmd[r].alive /\ x \in cmd[r].left
  /\ \A q \in Requests \ {r} : ~Midway(q)
  /\ store' = [store EXCEPT ![args[r].user][x] = args[r].source]
  /\ cmd'   = [cmd EXCEPT ![r].left = @ \ {x}]
  /\ UNCHANGED <<granted, started, done, stray, disk, backend, rpc, proc, faults, changes, resends>>

CommandSucceeds(p) ==
  LET r == proc[p].req
  IN /\ proc[p].pc = "wait"
     /\ cmd[r].left = {}
     /\ cmd'  = [cmd EXCEPT ![r] = NoCmd]
     /\ done' = done \cup {r}
     /\ Goto(p, "complete")
     /\ UNCHANGED <<granted, store, started, stray, disk, backend, inbox, faults, changes, resends>>

\* Broken: a command that failed is taken for one that succeeded.
FailsUnnoticed(p) ==
  /\ proc[p].pc = "wait"
  /\ Fault
  /\ cmd' = [cmd EXCEPT ![proc[p].req] = NoCmd]
  /\ Goto(p, "complete")
  /\ UNCHANGED <<granted, store, started, done, stray, disk, backend, inbox, changes, resends>>

\* It does not start, exits with an error, or is killed after twenty seconds.
CommandFails(p) ==
  /\ proc[p].pc = "wait"
  /\ Fault
  /\ cmd' = [cmd EXCEPT ![proc[p].req] = NoCmd]
  /\ Goto(p, "unknown")
  /\ UNCHANGED <<granted, store, started, done, stray, disk, backend, inbox, changes, resends>>

OrphanEnds(r) ==
  /\ r \in Orphans(args[r].user)
  /\ cmd' = [cmd EXCEPT ![r] = NoCmd]
  /\ UNCHANGED <<granted, store, started, done, stray, disk, backend, rpc, proc, faults, changes, resends>>

\* The history is completed first, the marker after it.
Complete(p) ==
  /\ proc[p].pc = "complete"
  /\ \E out \in Outcomes :
       /\ Disk(out)
       /\ record' = IF Lands(out) THEN [record EXCEPT ![proc[p].req] = "completed"] ELSE record
       /\ IF out = "ok" THEN Goto(p, "confirm") ELSE Answer(p, "error")
  /\ UNCHANGED <<granted, native, current, backend, inbox, changes, resends>>

Confirm(p) ==
  /\ proc[p].pc = "confirm"
  /\ \E out \in Outcomes :
       /\ Disk(out)
       /\ current' = IF Lands(out) THEN Marker(p, "completed") ELSE current
       /\ Answer(p, IF out = "ok" THEN "ok" ELSE "error")
  /\ UNCHANGED <<granted, native, record, backend, inbox, changes, resends>>

\* After a failure both files are written, whether or not the first can be.
RecordUnknown(p) ==
  /\ proc[p].pc = "unknown"
  /\ \E out \in Outcomes :
       /\ Disk(out)
       /\ record' = IF Lands(out) THEN [record EXCEPT ![proc[p].req] = "unknown"] ELSE record
  /\ Goto(p, "unknown_mark")
  /\ UNCHANGED <<granted, native, current, backend, inbox, changes, resends>>

MarkUnknown(p) ==
  /\ proc[p].pc = "unknown_mark"
  /\ \E out \in Outcomes :
       /\ Disk(out)
       /\ current' = IF Lands(out) THEN Marker(p, "unknown") ELSE current
  /\ Answer(p, "error")
  /\ UNCHANGED <<granted, native, record, backend, inbox, changes, resends>>

\* The Helper ends: locks and calls are gone, its commands may go on without it.
Killed ==
  /\ Fault
  /\ proc'  = [p \in Threads |-> Idle]
  /\ inbox' = {}
  /\ answer' = [r \in Requests |->
                  IF r \in inbox \/ \E p \in Threads : proc[p].req = r THEN "error"
                  ELSE answer[r]]
  /\ \E alive \in SUBSET {r \in Requests : cmd[r].alive} :
       /\ cmd'   = [r \in Requests |-> IF r \in alive THEN cmd[r] ELSE NoCmd]
       /\ stray' = stray \cup {args[r].user : r \in alive}
  /\ UNCHANGED <<granted, store, started, done, disk, backend, changes, resends>>

-----------------------------------------------------------------------------

RunStep(s) == \/ \E u \in Users : NextAccount(s, u)
              \/ HearsAnswer(s) \/ RunEnds(s)

Works(p) == \/ Refuse(p) \/ Authorized(p) \/ ReadHistory(p) \/ WriteRequest(p) \/ Mark(p)
            \/ StartCommand(p) \/ CommandSucceeds(p) \/ CommandFails(p)
            \/ Complete(p) \/ Confirm(p) \/ RecordUnknown(p) \/ MarkUnknown(p)

CommandStep(r) == \E x \in Stores : CommandWrites(r, x)

Accepts(r) == \E p \in Threads : Deliver(p, r)

Next ==
  \/ \E s \in Sources : BeginFull(s) \/ TimesOut(s) \/ RunAborts(s) \/ RunStep(s)
  \/ \E u \in Users : DatabaseChanges(u)
  \/ \E p \in Threads : Works(p) \/ \E r \in Requests : DeliverAgain(p, r)
  \/ \E r \in Requests : Accepts(r) \/ CommandStep(r) \/ OrphanEnds(r)
  \/ Killed

\* The socket is served, goroutines and commands run.  Nothing is promised about
\* new runs, failures, changes in the database or requests that come again.
Fairness == /\ \A s \in Sources : WF_vars(RunStep(s))
            /\ \A p \in Threads : WF_vars(Works(p))
            /\ \A r \in Requests : WF_vars(Accepts(r)) /\ WF_vars(CommandStep(r))

Spec     == Init /\ [][Next]_vars
FairSpec == Spec /\ Fairness
=============================================================================
