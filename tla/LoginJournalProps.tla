------------------------- MODULE LoginJournalProps -------------------------
(***************************************************************************)
(* What the temporary-password login promises.                             *)
(***************************************************************************)
EXTENDS LoginJournal

\* The permanent password is never lost or rolled back: a row that shows no
\* temporary hash shows the hash its owner or an administrator set last, whatever
\* restores, late callbacks and kills came between (restoreJournalPasswordLocked).
PermanentKept == \A u \in Users :
  account[u].exists /\ account[u].hash \notin Requests => account[u].hash = secret[u]

\* Write-ahead: while a temporary hash stands in shadow, its journal is on disk,
\* live, named by the account's index, bound to the account's UID, and holds the
\* permanent hash (saveJournal before replaceShadowLineIfCurrentMatches; the index
\* "before any password write can happen", relay.go:910).
LentIsRecoverable == \A u \in Users : \A r \in Requests :
  account[u].exists /\ account[u].hash = r =>
    /\ IsLive(r) /\ r \in index[u]
    /\ journal[r].user = u
    /\ journal[r].uid = account[u].uid
    /\ journal[r].original = secret[u]

\* Two logins never share an account: at most one live journal per account
\* (browserLeaseForUser under the account lock).
OneLeasePerAccount == \A r, s \in Requests :
  IsLive(r) /\ IsLive(s) /\ journal[r].user = journal[s].user => r = s

\* No temporary hash stands in shadow while a permanent reset of the account is
\* unconfirmed (checkPasswordResetPending against resetSyncedUserPassword).
ResetExcludesLease == \A u \in Users :
  account[u].exists /\ account[u].hash \in Requests => u \notin marker

\* After the first pass the scan takes a browser lease away only when it has run
\* out or an earlier restore of it failed (recoverJournals).
ScanHonoursLease ==
  LET r == proc[Scanner].req
  IN ready /\ proc[Scanner].op = "scan" /\ journal[r].status = "active_browser"
       => r \in expired \/ journal[r].failed

\* A finished login stays finished: late callbacks, scans and duplicate calls
\* never reopen its record nor change the verdict (restorePendingJournal re-reads
\* the journal under the account lock).
VerdictIsFinal == [][\A r \in Requests :
  IsTerminal(r) => journal'[r].status \in {journal[r].status, "none"}]_vars

\* A relay that reports a session has taken its temporary hash back and finished
\* its record (relayLoginReal joins the restore error to its result).
SessionMeansRestored == [][\A r \in Requests :
  reply'[r] = "session" /\ reply[r] # "session" =>
    /\ IsTerminal(r)
    /\ \A u \in Users : account[u].exists => account[u].hash # r]_vars

\* A temporary password is handed out, first or again, only while its lease is
\* active and not yet due (prepareBrowserLogin, browserResultFromLease).
TempOnlyWhileLent == [][\A r \in Requests :
  reply'[r] = "temp" /\ reply[r] # "temp" =>
    journal'[r].status = "active_browser" /\ r \notin expired']_vars

\* No Helper operation but an explicit provision lifts a lock, an expiry mark or
\* an administrator role: a restore that races a disable leaves the account
\* disabled (restoreJournalPasswordLocked keeps the current fields).
MarksStay == [][\A u \in Users :
  account[u].exists /\ account'[u].exists /\ account'[u] # account[u] /\ edits' = edits =>
    /\ account'[u].locked = account[u].locked
    /\ account'[u].admin = account[u].admin
    /\ account[u].disabled /\ ~account'[u].disabled =>
         \E p \in Threads : proc[p].op = "provision" /\ proc[p].pc = "native"]_vars

\* A temporary hash does not stay in shadow: the owner of the lease, a callback,
\* the TTL, a restart or the recovery loop takes it out.
TempIsRemoved == \A u \in Users :
  (account[u].exists /\ account[u].hash \in Requests) ~>
  ~(account[u].exists /\ account[u].hash \in Requests)

\* Every operation returns: no thread waits for ever on the account lock, the
\* system lock or itself (account_lock.go:81).
CallsReturn == \A p \in Procs : (proc[p] # Idle) ~> (proc[p] = Idle)

\* After the last kill the Helper opens for RPCs, whatever single accounts'
\* journals look like (initializeRecovery).
BecomesReady == <>[]ready

\* The Helper implements the abstract lending of a password: every write of the
\* shadow row, in any interleaving and after any kill, lends the permanent hash to
\* one login or gives the current one back.
Lease == INSTANCE PasswordLease WITH
  exists <- [u \in Users |-> account[u].exists],
  shown  <- [u \in Users |-> account[u].hash],
  locked <- [u \in Users |-> account[u].locked]

ImplementsLease == Lease!Spec

\* Documented: only a damaged journal or index blocks its account
\* (docs/testing.md:97).  Nothing here is damaged: when no operation is under way
\* every indexed request should have its journal.
IndexNamesJournals ==
  (\A p \in Procs : proc[p] = Idle) =>
    \A u \in Users : \A r \in index[u] : journal[r].status # "none"

-----------------------------------------------------------------------------
(* The inductive invariant behind the safety properties.                   *)

\* Steps at which a thread works on its own live journal, and on a finished one.
WorkPcs  == {"swap", "activate", "dsm_login", "undo", "mark", "restore", "finish"}
ClosePcs == {"archive", "unindex"}
TidyPcs  == {"tidy_archive", "tidy_unindex"}
LoginPcs == {"lock_system", "index", "journal"}

\* Every operation under way names an account, and the steps of a login or a
\* restore name its request.
RequestPcs == LoginPcs \cup WorkPcs \cup ClosePcs \cup TidyPcs \cup {"record"}

NamedTask == {t \in Task :
  /\ t.pc # "idle" => t.user \in Users
  /\ t.pc \in RequestPcs => t.req \in Requests
  /\ t.pc = "lock_account" /\ t.op \in LoginOps \cup {"complete", "scan"} => t.req \in Requests
  /\ t.pc = "finish" => t.verdict \in Terminal}

OperationsNamed == proc \in [Procs -> NamedTask]

\* flock excludes: one holder of each account lock, one of the system lock.
Exclusion == \A p, q \in Procs :
  /\ proc[p].pc \in AccountPcs /\ proc[q].pc \in AccountPcs /\ proc[p].user = proc[q].user => p = q
  /\ proc[p].pc \in SystemPcs /\ proc[q].pc \in SystemPcs => p = q

\* A journal names its account and holds a permanent hash; a live one is indexed.
JournalsSound == \A r \in Requests :
  /\ journal[r].status # "none" <=> journal[r].user # None
  /\ journal[r].status # "none" => journal[r].original \in Passwords
  /\ IsLive(r) => r \in index[journal[r].user]

\* A thread at work on a journal finds it as it left it: its account's, and live
\* until it finishes it itself.
OwnsWork(p) ==
  LET j == journal[proc[p].req]
  IN /\ proc[p].pc \in WorkPcs => j.user = proc[p].user /\ j.status \in Live
     /\ proc[p].pc \in ClosePcs => j.user = proc[p].user /\ j.status \in Terminal
     /\ proc[p].pc \in TidyPcs => j.status \in Terminal
     /\ proc[p].pc = "lock_account" /\ proc[p].op \in {"complete", "scan"}
          => j.user = proc[p].user /\ j.status # "none"
     /\ proc[p].pc = "finish" => account[proc[p].user].hash # proc[p].req

\* A login or a reset that has checked for leases has its account to itself.
HasItAlone(p) == proc[p].pc \in LoginPcs \cup {"reset_mark"} =>
  \A r \in Requests : IsLive(r) => journal[r].user # proc[p].user

\* What a login read under the system lock still holds when it writes.
ReadHolds(p) ==
  LET u == proc[p].user
      j == journal[proc[p].req]
  IN /\ proc[p].pc \in {"index", "journal", "swap"} =>
          /\ account[u].exists /\ account[u].hash = proc[p].original
          /\ secret[u] = proc[p].original /\ proc[p].original \in Passwords
          /\ u \notin marker
     /\ proc[p].pc \in {"index", "journal"} => j.status = "none"
     /\ proc[p].pc = "journal" => proc[p].req \in index[u]
     /\ proc[p].pc = "swap" => j.uid = account[u].uid /\ j.original = proc[p].original

StepsSound == \A p \in Procs : OwnsWork(p) /\ HasItAlone(p) /\ ReadHolds(p)

\* The disk: what a Helper that starts after a kill can rely on.
DiskSound ==
  /\ JournalsSound
  /\ OneLeasePerAccount
  /\ LentIsRecoverable
  /\ PermanentKept
  /\ ResetExcludesLease

\* The inductive invariant: recovery material precedes every temporary hash, in
\* every state of every operation (relay.go, account_recovery.go).
RecoveryInvariant ==
  /\ TypeOK
  /\ OperationsNamed
  /\ Exclusion
  /\ StepsSound
  /\ DiskSound

-----------------------------------------------------------------------------
(* What the order of the steps adds: the invariant behind the scan's patience, *)
(* the marks and the refinement.                                             *)

\* The row a login has found unlocked stays unlocked until the temporary hash is in:
\* DSM's own writers wait for the system lock.
RowUnlocked == \A p \in Procs :
  proc[p].pc \in {"index", "journal", "swap"} => ~account[proc[p].user].locked

\* Nobody restores a lease that is still being prepared.
LeaseFresh == \A p \in Procs :
  proc[p].pc \in {"swap", "activate"} =>
    journal[proc[p].req].status \in {"pending", "pending_browser"}

\* Only a disable and a provision run DSM's native account command, and the
\* recovery goroutine only scans.
TasksRouted ==
  /\ \A p \in Procs : proc[p].pc = "native" => proc[p].op \in {"disable", "provision"}
  /\ proc[Scanner].op \in {"none", "scan", "tidy"}

\* What made a scan take a journal stays so until the scan is done with it.
ScanTakesDue ==
  LET r == proc[Scanner].req
  IN proc[Scanner].op = "scan" =>
       /\ r \in Requests
       /\ journal[r].status # "none"
       /\ ready => \/ r \in expired
                   \/ journal[r].failed
                   \/ journal[r].status \in Terminal \cup {"restoring_browser"}

LeaseInvariant == RowUnlocked /\ LeaseFresh /\ TasksRouted /\ ScanTakesDue
=============================================================================
