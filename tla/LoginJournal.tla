---------------------------- MODULE LoginJournal ----------------------------
(***************************************************************************)
(* The temporary-password login of the privileged Helper (helperserver):   *)
(* relay.go, journal_store.go, account_recovery.go, account_lock.go, and   *)
(* the account operations that meet it on the account lock                 *)
(* (account_commands.go, account_policy.go, sync_password.go).             *)
(*                                                                         *)
(* A login writes a one-time password hash into the account's shadow row   *)
(* and must put the permanent hash back.  A journal file per request and   *)
(* an index file per account are written first, so that a killed Helper    *)
(* finds what to restore.  Every disk write is a step of its own: the      *)
(* Helper may be killed between any two of them, and a write may fail with *)
(* or without having taken effect.                                         *)
(*                                                                         *)
(* Abstractions.  A permanent hash is a member of Passwords; NoPassword is *)
(* an empty or starred field; the temporary hash of request r (random and  *)
(* never reused) is r itself.  The project writer lock and DSM's own       *)
(* lock_pw are one lock here, "the system lock": a direct shadow write     *)
(* holds both, a native DSM command holds the first and takes the second.  *)
(* Locks are not variables: a thread holds a lock while its pc is in the   *)
(* section the lock covers, and a killed process holds nothing, as with    *)
(* flock.  Journals of releases that kept no fingerprint of the temporary  *)
(* hash are not modelled.                                                  *)
(*                                                                         *)
(* A definition whose comment begins with "Broken" is no part of the model: *)
(* it is the plausible mistake some property has to notice.                *)
(***************************************************************************)
EXTENDS Naturals

CONSTANTS
  Users,        \* DSM accounts the login and sync paths may name
  Requests,     \* login request IDs
  Passwords,    \* permanent password hashes
  NoPassword,   \* an empty or '*' password field
  Threads,      \* goroutines serving RPCs, and root's policy commands
  Scanner,      \* the recovery goroutine
  None,         \* no account, no request
  Ops,          \* the operations the threads are asked for
  MaxFaults,    \* bound: kills, failed writes and system-lock timeouts
  MaxEdits      \* bound: account changes by DSM administrators

Procs == Threads \cup {Scanner}

LoginOps  == {"relay", "browser"}
PolicyOps == {"authorize", "revoke"}
AllOps    == LoginOps \cup PolicyOps
             \cup {"complete", "disable", "provision", "reset", "scan", "tidy", "none"}

ASSUME ConstantsApart ==
  /\ Requests \cap (Passwords \cup {NoPassword, None}) = {}
  /\ NoPassword \notin Passwords \cup {None}
  /\ None \notin Users \cup Passwords
  /\ Scanner \notin Threads

ASSUME BoundsAreNumbers ==
  /\ Ops \subseteq AllOps
  /\ MaxFaults \in Nat
  /\ MaxEdits \in Nat

VARIABLES
  account,   \* passwd and shadow row of each account
  policy,    \* root's authorization file: the UID each account is bound to, 0 for none
  secret,    \* ghost: the permanent hash last set for the account
  marker,    \* accounts whose permanent reset is not confirmed
  journal,   \* journal file of each request
  index,     \* active-index file of each account
  expired,   \* requests whose journal's expires_at has passed
  backoff,   \* requests whose journal's next_recovery_at is in the future
  proc,      \* what each goroutine is doing
  pass,      \* the recovery goroutine: [on |-> in a pass?, todo |-> index entries left]
  ready,     \* the first recovery pass has ended: RPCs are accepted
  reply,     \* the answer to the last login call of each request
  faults, edits

files   == <<journal, index>>
dsm     == <<account, secret>>
clock   == <<expired, backoff>>
helper  == <<pass, ready>>
vars    == <<account, policy, secret, marker, journal, index, expired, backoff,
             proc, pass, ready, reply, faults, edits>>

Hashes   == Passwords \cup {NoPassword} \cup Requests
Terminal == {"restored", "superseded"}
Live     == {"pending", "pending_browser", "active_browser", "restoring_browser"}

NoJournal == [status |-> "none", place |-> "none", user |-> None,
              original |-> NoPassword, uid |-> 0, failed |-> FALSE]

\* What a thread knows: its call, the hash it read, whether its login went
\* through, and the terminal status it is about to record.
Idle == [pc |-> "idle", op |-> "none", user |-> None, req |-> None,
         original |-> NoPassword, ok |-> FALSE, verdict |-> "none"]

AccountPcs == {"lock_system", "index", "journal", "swap", "activate", "dsm_login",
               "undo", "mark", "restore", "finish", "archive", "unindex", "record",
               "native", "reset_mark", "setpw", "reset_done"}
SystemPcs  == {"index", "journal", "swap", "activate", "undo", "finish", "archive", "unindex"}
Pcs        == AccountPcs \cup {"idle", "lock_account", "tidy_archive", "tidy_unindex"}

Row     == [exists: BOOLEAN, uid: Nat, hash: Hashes,
            locked: BOOLEAN, disabled: BOOLEAN, admin: BOOLEAN]
Journal == [status: Terminal \cup Live \cup {"none"}, place: {"none", "flat", "completed"},
            user: Users \cup {None}, original: Hashes, uid: Nat, failed: BOOLEAN]
Task    == [pc: Pcs, op: AllOps, user: Users \cup {None}, req: Requests \cup {None},
            original: Hashes, ok: BOOLEAN, verdict: Terminal \cup {"none"}]

TypeOK ==
  /\ account \in [Users -> Row]
  /\ policy  \in [Users -> Nat]
  /\ secret  \in [Users -> Passwords \cup {NoPassword}]
  /\ marker  \in SUBSET Users
  /\ journal \in [Requests -> Journal]
  /\ index   \in [Users -> SUBSET Requests]
  /\ expired \in SUBSET Requests
  /\ backoff \in SUBSET Requests
  /\ proc    \in [Procs -> Task]
  /\ pass    \in [on: BOOLEAN, todo: SUBSET (Users \X Requests)]
  /\ ready   \in BOOLEAN
  /\ reply   \in [Requests -> {"none", "temp", "session", "error"}]
  /\ faults  \in 0..MaxFaults
  /\ edits   \in 0..MaxEdits

Init ==
  /\ secret  \in [Users -> Passwords]
  /\ account = [u \in Users |-> [exists |-> TRUE, uid |-> 1, hash |-> secret[u],
                                 locked |-> FALSE, disabled |-> FALSE, admin |-> FALSE]]
  /\ policy  = [u \in Users |-> 1]
  /\ marker  = {}
  /\ journal = [r \in Requests |-> NoJournal]
  /\ index   = [u \in Users |-> {}]
  /\ expired = {}
  /\ backoff = {}
  /\ proc    = [p \in Procs |-> Idle]
  /\ pass    = [on |-> FALSE, todo |-> {}]
  /\ ready   = FALSE
  /\ reply   = [r \in Requests |-> "none"]
  /\ faults  = 0
  /\ edits   = 0

-----------------------------------------------------------------------------
(* Locks, and what the handlers read under them. *)

\* Broken: no account lock.
NoAccountLock(u) == TRUE

AccountFree(u) == \A q \in Procs : ~(proc[q].pc \in AccountPcs /\ proc[q].user = u)
\* Broken: a native command waits for the lock its own caller has taken.
SystemFreeOfCommands == \A q \in Procs : proc[q].pc \notin SystemPcs \cup {"native"}

SystemFree     == \A q \in Procs : proc[q].pc \notin SystemPcs

IsLive(r)     == journal[r].status \in Live
IsTerminal(r) == journal[r].status \in Terminal

\* Broken: only browser logins count as leases.
BrowserLeases(u) == {r \in index[u] : journal[r].status \in Live \ {"pending"}}

\* browserLeaseForUser: the live requests the account's index names; it fails
\* when an indexed journal cannot be read or is another account's, or two are live.
Leases(u)     == {r \in index[u] : IsLive(r)}
Unresolved(u) == \/ \E r \in index[u] : journal[r].user # u
                 \/ \E r, s \in Leases(u) : r # s

\* requireManagedUser: an ordinary account, bound to the UID root authorized.
Managed(u) == /\ account[u].exists
              /\ ~account[u].admin
              /\ policy[u] = account[u].uid

\* A durable write ends "ok", or fails without ("lost") or with ("unsure") effect.
Outcomes == {"ok", "lost", "unsure"}
Disk(out) == \/ out = "ok" /\ UNCHANGED faults
             \/ out # "ok" /\ faults < MaxFaults /\ faults' = faults + 1
Lands(out) == out # "lost"

Goto(p, s) == /\ proc' = [proc EXCEPT ![p].pc = s]
              /\ UNCHANGED reply

\* The handler returns: its locks are released and a login call is answered.
Answer(p, a) ==
  /\ proc'  = [proc EXCEPT ![p] = Idle]
  /\ reply' = IF proc[p].op \in LoginOps THEN [reply EXCEPT ![proc[p].req] = a] ELSE reply

\* recordRecoveryFailure follows a failed restore, except in a policy command
\* and for a browser lease that ran out while it was being prepared.
Records(p) == /\ proc[p].op # "revoke"
              /\ ~(proc[p].op = "browser" /\ proc[p].ok)

RestoreEnds(p) ==
  CASE proc[p].op = "disable"              -> Goto(p, "native")
    [] proc[p].op = "relay" /\ proc[p].ok -> Answer(p, "session")
    [] OTHER                              -> Answer(p, "error")

\* Broken: a relay whose login went through hides that its restore failed.
FailsQuietly(p) == IF proc[p].op = "relay" /\ proc[p].ok THEN Answer(p, "session")
                   ELSE Goto(p, "record")

RestoreFails(p) == IF Records(p) THEN Goto(p, "record") ELSE Answer(p, "error")

-----------------------------------------------------------------------------
(* Calls arriving at the socket, and root's policy commands.  A call that   *)
(* the signature, the nonce or the database refuses changes nothing.       *)

LoginCall(p, o, r, u) ==
  /\ o \in LoginOps \cap Ops
  /\ ready
  /\ Managed(u)
  /\ proc[p] = Idle
  /\ proc'  = [proc EXCEPT ![p] = [Idle EXCEPT !.pc = "lock_account", !.op = o,
                                               !.req = r, !.user = u]]
  /\ reply' = [reply EXCEPT ![r] = "none"]
  /\ UNCHANGED <<dsm, policy, marker, files, clock, helper, faults, edits>>

\* complete_browser_login and the TTL goroutine run restorePendingJournal: the
\* account comes from the journal; without one the call fails at once.
CompleteCall(p, r) ==
  /\ "complete" \in Ops
  /\ ready
  /\ proc[p] = Idle
  /\ journal[r].user # None
  /\ proc' = [proc EXCEPT ![p] = [Idle EXCEPT !.pc = "lock_account", !.op = "complete",
                                              !.req = r, !.user = journal[r].user]]
  /\ UNCHANGED <<dsm, policy, marker, files, clock, helper, reply, faults, edits>>

AccountCall(p, o, u) ==
  /\ o \in Ops \cap (PolicyOps \cup {"disable", "provision", "reset"})
  /\ ready \/ o \in PolicyOps
  /\ o = "disable" => Managed(u)
  /\ proc[p] = Idle
  /\ proc' = [proc EXCEPT ![p] = [Idle EXCEPT !.pc = "lock_account", !.op = o, !.user = u]]
  /\ UNCHANGED <<dsm, policy, marker, files, clock, helper, reply, faults, edits>>

\* A lock stays taken for the whole wait: the operation is refused.
AccountBusy(p) ==
  /\ proc[p].pc = "lock_account"
  /\ ~AccountFree(proc[p].user) \/ (proc[p].op \in PolicyOps /\ ~SystemFree)
  /\ Answer(p, "error")
  /\ UNCHANGED <<dsm, policy, marker, files, clock, helper, faults, edits>>

-----------------------------------------------------------------------------
(* relayLoginReal and prepareBrowserLogin *)

LoginRefused(p) ==
  LET u == proc[p].user
      r == proc[p].req
  IN /\ proc[p].pc = "lock_account" /\ proc[p].op \in LoginOps
     /\ AccountFree(u)
     /\ \/ ~Managed(u)
        \/ Unresolved(u)
        \/ Leases(u) # {} /\ (proc[p].op = "relay" \/ r \notin Leases(u))
        \/ r \in Leases(u) /\ (journal[r].status # "active_browser" \/ r \in expired)
     /\ Answer(p, "error")
     /\ UNCHANGED <<dsm, policy, marker, files, clock, helper, faults, edits>>

\* Broken: a repeated request is served however old its lease is.
RepeatedForEver(p) ==
  LET u == proc[p].user
      r == proc[p].req
  IN /\ proc[p].pc = "lock_account" /\ proc[p].op = "browser"
     /\ AccountFree(u)
     /\ Managed(u) /\ ~Unresolved(u)
     /\ r \in Leases(u) /\ journal[r].status = "active_browser"
     /\ Answer(p, "temp")
     /\ UNCHANGED <<dsm, policy, marker, files, clock, helper, faults, edits>>

\* The same request again while its browser lease is active: the same password.
LoginRepeated(p) ==
  LET u == proc[p].user
      r == proc[p].req
  IN /\ proc[p].pc = "lock_account" /\ proc[p].op = "browser"
     /\ AccountFree(u)
     /\ Managed(u) /\ ~Unresolved(u)
     /\ r \in Leases(u) /\ journal[r].status = "active_browser" /\ r \notin expired
     /\ Answer(p, "temp")
     /\ UNCHANGED <<dsm, policy, marker, files, clock, helper, faults, edits>>

LoginEnters(p) ==
  LET u == proc[p].user
  IN /\ proc[p].pc = "lock_account" /\ proc[p].op \in LoginOps
     /\ AccountFree(u)
     /\ Managed(u) /\ ~Unresolved(u) /\ Leases(u) = {}
     /\ Goto(p, "lock_system")
     /\ UNCHANGED <<dsm, policy, marker, files, clock, helper, faults, edits>>

\* Broken: an unconfirmed reset does not stop a login; neither does a locked row.
PreparesDespiteReset(p) ==
  LET u == proc[p].user
  IN /\ proc[p].op = "relay" => Managed(u)
     /\ journal[proc[p].req].status = "none"
     /\ account[u].exists /\ ~account[u].locked /\ account[u].hash # NoPassword

PreparesLocked(p) ==
  LET u == proc[p].user
  IN /\ proc[p].op = "relay" => Managed(u)
     /\ journal[proc[p].req].status = "none"
     /\ u \notin marker
     /\ account[u].exists /\ account[u].hash # NoPassword

\* Under the system lock: ensureNewLoginJournal, the current row, its UID.
MayPrepare(p) ==
  LET u == proc[p].user
  IN /\ proc[p].op = "relay" => Managed(u)
     /\ journal[proc[p].req].status = "none"
     /\ u \notin marker
     /\ account[u].exists /\ ~account[u].locked /\ account[u].hash # NoPassword

ReadOriginal(p) ==
  /\ proc[p].pc = "lock_system"
  /\ SystemFree
  /\ \/ /\ MayPrepare(p)
        /\ proc' = [proc EXCEPT ![p] = [@ EXCEPT !.pc = "index",
                                                  !.original = account[proc[p].user].hash]]
        /\ UNCHANGED reply
     \/ /\ ~MayPrepare(p)
        /\ Answer(p, "error")
  /\ UNCHANGED <<dsm, policy, marker, files, clock, helper, faults, edits>>

\* Another account's write or a DSM writer holds the system lock for 25 s.
SystemBusy(p) ==
  /\ proc[p].pc \in {"lock_system", "restore", "native", "reset_mark"}
  /\ faults < MaxFaults
  /\ faults' = faults + 1
  /\ IF proc[p].pc = "restore" THEN RestoreFails(p) ELSE Answer(p, "error")
  /\ UNCHANGED <<dsm, policy, marker, files, clock, helper, edits>>

\* saveJournal, first part: the account association.
AddToIndex(p) ==
  /\ proc[p].pc = "index"
  /\ \E out \in Outcomes :
       /\ Disk(out)
       /\ index' = IF Lands(out)
                   THEN [index EXCEPT ![proc[p].user] = @ \cup {proc[p].req}] ELSE index
       /\ IF out = "ok" THEN Goto(p, "journal") ELSE Answer(p, "error")
  /\ UNCHANGED <<dsm, policy, marker, journal, clock, helper, edits>>

\* saveJournal, second part: the recovery material.
Material(p) == [status   |-> IF proc[p].op = "relay" THEN "pending" ELSE "pending_browser",
                place    |-> "flat",
                user     |-> proc[p].user,
                original |-> proc[p].original,
                uid      |-> account[proc[p].user].uid,
                failed   |-> FALSE]

WriteJournal(p) ==
  LET r == proc[p].req
  IN /\ proc[p].pc = "journal"
     /\ \E out \in Outcomes :
          /\ Disk(out)
          /\ journal' = IF Lands(out) THEN [journal EXCEPT ![r] = Material(p)] ELSE journal
          /\ IF out = "ok" THEN Goto(p, "swap") ELSE Answer(p, "error")
     /\ expired' = expired \ {r}
     /\ UNCHANGED <<dsm, policy, marker, index, backoff, helper, edits>>

\* replaceShadowLineIfCurrentMatches with the temporary hash.
SwapIn(p) ==
  LET u == proc[p].user
      matches == account[u].exists /\ account[u].hash = proc[p].original
  IN /\ proc[p].pc = "swap"
     /\ \E out \in Outcomes :
          /\ Disk(out)
          /\ account' = IF Lands(out) /\ matches
                        THEN [account EXCEPT ![u].hash = proc[p].req] ELSE account
          /\ Goto(p, IF out = "ok" /\ matches THEN "activate" ELSE "undo")
     /\ UNCHANGED <<secret, policy, marker, files, clock, helper, edits>>

\* The second save: a browser lease becomes active and its credential is handed
\* out, unless it ran out meanwhile; a relay goes on to log in with the account
\* lock alone.
Activate(p) ==
  LET r == proc[p].req
  IN /\ proc[p].pc = "activate"
     /\ \E out \in Outcomes :
          /\ Disk(out)
          /\ journal' = IF Lands(out) /\ proc[p].op = "browser"
                        THEN [journal EXCEPT ![r].status = "active_browser"] ELSE journal
          /\ \/ out # "ok" /\ Goto(p, "undo")
             \/ out = "ok" /\ proc[p].op = "relay" /\ Goto(p, "dsm_login")
             \/ /\ out = "ok" /\ proc[p].op = "browser" /\ r \in expired
                /\ proc' = [proc EXCEPT ![p] = [@ EXCEPT !.pc = "undo", !.ok = TRUE]]
                /\ UNCHANGED reply
             \/ out = "ok" /\ proc[p].op = "browser" /\ r \notin expired /\ Answer(p, "temp")
     /\ UNCHANGED <<dsm, policy, marker, index, clock, helper, edits>>

\* DSM answers the login request, or refuses it or does not answer in time.
DsmLogin(p, success) ==
  /\ proc[p].pc = "dsm_login"
  /\ proc' = [proc EXCEPT ![p] = [@ EXCEPT !.pc = "restore", !.ok = success]]
  /\ UNCHANGED <<dsm, policy, marker, files, clock, helper, reply, faults, edits>>

-----------------------------------------------------------------------------
(* restorePendingJournal, restoreJournalUnderAccountLock and               *)
(* restoreJournalPasswordLocked                                            *)

\* Broken: the journal read before the wait for the account lock is used.
EntersUnread(p) ==
  LET u == proc[p].user
      r == proc[p].req
  IN /\ proc[p].pc = "lock_account" /\ proc[p].op \in {"complete", "scan"}
     /\ AccountFree(u)
     /\ IF ~Unresolved(u) /\ Leases(u) \subseteq {r}
        THEN Goto(p, "mark") ELSE Answer(p, "error")
     /\ UNCHANGED <<dsm, policy, marker, files, clock, helper, faults, edits>>

\* The journal is read again under the account lock.
RestoreEnters(p) ==
  LET u == proc[p].user
      r == proc[p].req
  IN /\ proc[p].pc = "lock_account" /\ proc[p].op \in {"complete", "scan"}
     /\ AccountFree(u)
     /\ IF IsLive(r) /\ ~Unresolved(u) /\ Leases(u) \subseteq {r}
        THEN Goto(p, "mark") ELSE Answer(p, "error")
     /\ UNCHANGED <<dsm, policy, marker, files, clock, helper, faults, edits>>

\* A browser lease is first saved as being restored, with its index entry.
MarkRestoring(p) ==
  LET r == proc[p].req
      u == journal[r].user
  IN /\ proc[p].pc = "mark"
     /\ IF journal[r].status \in {"pending_browser", "active_browser"}
        THEN \E out \in Outcomes :
               /\ Disk(out)
               /\ index'   = IF Lands(out) THEN [index EXCEPT ![u] = @ \cup {r}] ELSE index
               /\ journal' = IF Lands(out)
                             THEN [journal EXCEPT ![r].status = "restoring_browser"] ELSE journal
               /\ IF out = "ok" THEN Goto(p, "restore") ELSE RestoreFails(p)
        ELSE Goto(p, "restore") /\ UNCHANGED <<files, faults>>
     /\ UNCHANGED <<dsm, policy, marker, clock, helper, edits>>

\* At "undo" the failed preparation still holds the system lock.
MayRestore(p) == proc[p].pc = "undo" \/ (proc[p].pc = "restore" /\ SystemFree)

SameAccount(r) == LET a == account[journal[r].user]
                  IN a.exists /\ a.uid = journal[r].uid

\* The relay checks its authorization once more before it restores.
MayTouch(p) == /\ proc[p].op = "relay" /\ proc[p].pc = "restore" => Managed(proc[p].user)
               /\ SameAccount(proc[p].req)

RestoreRefused(p) ==
  LET r == proc[p].req
      h == account[journal[r].user].hash
  IN /\ MayRestore(p)
     /\ ~MayTouch(p) \/ (h = NoPassword /\ h # journal[r].original)
     /\ RestoreFails(p)
     /\ UNCHANGED <<dsm, policy, marker, files, clock, helper, faults, edits>>

\* Broken: every hash but the old one is taken for the temporary hash.
ShowsAnother(r) == account[journal[r].user].hash # journal[r].original

ShowsTemporary(r) == account[journal[r].user].hash = r

\* The row holds the old password already, or a newer one, which is kept.
RestoreKeeps(p) ==
  LET r == proc[p].req
      h == account[journal[r].user].hash
  IN /\ MayRestore(p) /\ MayTouch(p)
     /\ h = journal[r].original \/ (h # NoPassword /\ ~ShowsTemporary(r))
     /\ proc' = [proc EXCEPT ![p] = [@ EXCEPT !.pc = "finish",
                                  !.verdict = IF h = journal[r].original THEN "restored"
                                              ELSE "superseded"]]
     /\ UNCHANGED <<dsm, policy, marker, files, clock, helper, reply, faults, edits>>

\* Broken: the row is restored as it was saved.
SavedRow(row, r) == [row EXCEPT !.hash = journal[r].original,
                                !.locked = FALSE, !.disabled = FALSE]

\* Only the hash is replaced: lock and expiry marks set meanwhile stay.
RestoredRow(row, r) == [row EXCEPT !.hash = journal[r].original]

RestoreSwaps(p) ==
  LET r == proc[p].req
      u == journal[r].user
  IN /\ MayRestore(p) /\ MayTouch(p)
     /\ ShowsTemporary(r)
     /\ \E out \in Outcomes :
          /\ Disk(out)
          /\ account' = IF Lands(out)
                        THEN [account EXCEPT ![u] = RestoredRow(@, r)] ELSE account
          /\ IF out = "ok"
             THEN /\ proc' = [proc EXCEPT ![p] = [@ EXCEPT !.pc = "finish", !.verdict = "restored"]]
                  /\ UNCHANGED reply
             ELSE RestoreFails(p)
     /\ UNCHANGED <<secret, policy, marker, files, clock, helper, edits>>

\* finishJournal and the saveJournal of a terminal record, a write at a time.
FinishJournal(p) ==
  LET r == proc[p].req
  IN /\ proc[p].pc = "finish"
     /\ \E out \in Outcomes :
          /\ Disk(out)
          /\ journal' = IF Lands(out)
                        THEN [journal EXCEPT ![r].status = proc[p].verdict] ELSE journal
          /\ backoff' = IF Lands(out) THEN backoff \ {r} ELSE backoff
          /\ IF out = "ok" THEN Goto(p, "archive") ELSE RestoreFails(p)
     /\ UNCHANGED <<dsm, policy, marker, index, expired, helper, edits>>

\* archiveJournal: the rename fails when the file is no longer there.
Archive(p) ==
  LET r == proc[p].req
      flat == journal[r].place = "flat"
  IN /\ proc[p].pc = "archive"
     /\ \E out \in Outcomes :
          /\ Disk(out)
          /\ journal' = IF Lands(out) /\ flat
                        THEN [journal EXCEPT ![r].place = "completed"] ELSE journal
          /\ IF out = "ok" /\ flat THEN Goto(p, "unindex") ELSE RestoreFails(p)
     /\ UNCHANGED <<dsm, policy, marker, index, clock, helper, edits>>

RemoveFromIndex(p) ==
  LET r == proc[p].req
      u == journal[r].user
  IN /\ proc[p].pc = "unindex"
     /\ \E out \in Outcomes :
          /\ Disk(out)
          /\ index' = IF Lands(out) THEN [index EXCEPT ![u] = @ \ {r}] ELSE index
          /\ IF out = "ok" THEN RestoreEnds(p) ELSE RestoreFails(p)
     /\ UNCHANGED <<dsm, policy, marker, journal, clock, helper, edits>>

\* recordRecoveryFailure: a failed attempt is counted and the next one delayed.
\* A disable goes on whether its restore succeeded or not.
RecordFailure(p) ==
  LET r == proc[p].req
  IN /\ proc[p].pc = "record"
     /\ IF IsLive(r)
        THEN \E out \in Outcomes :
               /\ Disk(out)
               /\ journal' = IF Lands(out) THEN [journal EXCEPT ![r].failed = TRUE] ELSE journal
               /\ backoff' = IF Lands(out) THEN backoff \cup {r} ELSE backoff
        ELSE UNCHANGED <<journal, backoff, faults>>
     /\ IF proc[p].op = "disable" THEN Goto(p, "native") ELSE Answer(p, "error")
     /\ UNCHANGED <<dsm, policy, marker, index, expired, helper, edits>>

-----------------------------------------------------------------------------
(* withAccountMutation, resetSyncedUserPassword and ManageAccountPolicy *)

\* A lease refuses every mutation but a disable, which revokes it first.
MutationEnters(p) ==
  LET u == proc[p].user
  IN /\ proc[p].pc = "lock_account" /\ proc[p].op \in {"disable", "provision", "reset"}
     /\ AccountFree(u)
     /\ IF Unresolved(u) THEN Answer(p, "error")
        ELSE \/ /\ Leases(u) = {}
                /\ Goto(p, IF proc[p].op = "reset" THEN "reset_mark" ELSE "native")
             \/ /\ Leases(u) # {} /\ proc[p].op # "disable"
                /\ Answer(p, "error")
             \/ /\ proc[p].op = "disable"
                /\ \E r \in Leases(u) :
                     proc' = [proc EXCEPT ![p] = [@ EXCEPT !.pc = "mark", !.req = r]]
                /\ UNCHANGED reply
     /\ UNCHANGED <<dsm, policy, marker, files, clock, helper, faults, edits>>

NewRow(u, h) == \E id \in {account[u].uid, account[u].uid + 1} :
  account' = [account EXCEPT ![u] = [exists |-> TRUE, uid |-> id, hash |-> h,
                                     locked |-> FALSE, disabled |-> FALSE, admin |-> FALSE]]

\* synouser --modify with the expiry mark, or --add of an account that is absent;
\* a created account is bound to its UID in the authorization file.
Native(p) ==
  LET u == proc[p].user
  IN /\ proc[p].pc = "native"
     /\ SystemFree
     /\ Answer(p, "error")
     /\ IF account[u].exists
        THEN /\ \/ ~Managed(u) /\ UNCHANGED <<account, faults>>
                \/ /\ Managed(u)
                   /\ \E out \in Outcomes :
                        /\ Disk(out)
                        /\ account' = IF Lands(out)
                                      THEN [account EXCEPT ![u].disabled = (proc[p].op = "disable")]
                                      ELSE account
             /\ UNCHANGED <<policy, secret>>
        ELSE \/ /\ proc[p].op = "provision"
                /\ \E h \in Passwords, out \in {"ok", "unsure"} :
                     /\ Disk(out)
                     /\ NewRow(u, h)
                     /\ secret' = [secret EXCEPT ![u] = h]
                     /\ policy' = IF out = "ok" THEN [policy EXCEPT ![u] = account'[u].uid]
                                  ELSE policy
             \/ UNCHANGED <<account, policy, secret, faults>>
     /\ UNCHANGED <<marker, files, clock, helper, edits>>

\* applyPermanentPassword with a new request ID: the marker says "applying"
\* before the native command runs and "completed" only after it succeeded.
ResetMark(p) ==
  LET u == proc[p].user
  IN /\ proc[p].pc = "reset_mark"
     /\ SystemFree
     /\ IF Managed(u)
        THEN \E out \in Outcomes :
               /\ Disk(out)
               /\ marker' = IF Lands(out) THEN marker \cup {u} ELSE marker
               /\ IF out = "ok" THEN Goto(p, "setpw") ELSE Answer(p, "error")
        ELSE Answer(p, "error") /\ UNCHANGED <<marker, faults>>
     /\ UNCHANGED <<dsm, policy, files, clock, helper, edits>>

SetPassword(p) ==
  LET u == proc[p].user
  IN /\ proc[p].pc = "setpw"
     /\ SystemFree
     /\ \E h \in Passwords, out \in Outcomes :
          /\ Disk(out)
          /\ IF Lands(out) /\ account[u].exists
             THEN /\ account' = [account EXCEPT ![u].hash = h]
                  /\ secret'  = [secret EXCEPT ![u] = h]
             ELSE UNCHANGED dsm
          /\ IF out = "ok" /\ account[u].exists THEN Goto(p, "reset_done")
             ELSE Answer(p, "error")
     /\ UNCHANGED <<policy, marker, files, clock, helper, edits>>

ResetDone(p) ==
  /\ proc[p].pc = "reset_done"
  /\ \E out \in Outcomes :
       /\ Disk(out)
       /\ marker' = IF Lands(out) THEN marker \ {proc[p].user} ELSE marker
  /\ Answer(p, "error")
  /\ UNCHANGED <<dsm, policy, files, clock, helper, edits>>

\* authorize-user and revoke-user; a revocation then restores what is lent.
PolicyChanges(p) ==
  LET u == proc[p].user
      grants == proc[p].op = "authorize"
  IN /\ proc[p].pc = "lock_account" /\ proc[p].op \in PolicyOps
     /\ AccountFree(u) /\ SystemFree
     /\ IF grants /\ (~account[u].exists \/ account[u].admin)
        THEN Answer(p, "error") /\ UNCHANGED <<policy, faults>>
        ELSE \E out \in Outcomes :
               /\ Disk(out)
               /\ policy' = IF Lands(out)
                            THEN [policy EXCEPT ![u] = IF grants THEN account[u].uid ELSE 0]
                            ELSE policy
               /\ IF out # "ok" \/ grants \/ Unresolved(u) \/ Leases(u) = {}
                  THEN Answer(p, "error")
                  ELSE /\ \E r \in Leases(u) :
                            proc' = [proc EXCEPT ![p] = [@ EXCEPT !.pc = "mark", !.req = r]]
                       /\ UNCHANGED reply
     /\ UNCHANGED <<dsm, marker, files, clock, helper, edits>>

-----------------------------------------------------------------------------
(* recoverJournals, at startup and every two seconds afterwards *)

\* Broken: the scan takes leases before they run out; it never retries.
DueAtOnce(r) == ~ready \/ r \notin backoff

DueOnce(r) == \/ ~ready
              \/ /\ r \notin backoff /\ ~journal[r].failed
                 /\ r \in expired \/ journal[r].status = "restoring_browser"

\* A scan leaves an unexpired lease alone unless an attempt failed before; the
\* first pass after a start takes every live journal.
Due(r) == \/ ~ready
          \/ /\ r \notin backoff
             /\ \/ r \in expired
                \/ journal[r].failed
                \/ journal[r].status = "restoring_browser"

PassBegins ==
  /\ ~pass.on
  /\ proc[Scanner] = Idle
  /\ pass' = [on |-> TRUE, todo |-> {e \in Users \X Requests : e[2] \in index[e[1]]}]
  /\ UNCHANGED <<dsm, policy, marker, files, clock, proc, ready, reply, faults, edits>>

\* The scan reads a journal without its account lock.  An unreadable one is
\* reported and passed over, and so is one of another account.
PassTakes(u, r) ==
  LET mine == journal[r].user = u
      does(op, s) == proc' = [proc EXCEPT ![Scanner] =
                       [Idle EXCEPT !.pc = s, !.op = op, !.req = r, !.user = u]]
  IN /\ <<u, r>> \in pass.todo
     /\ proc[Scanner] = Idle
     /\ pass' = [pass EXCEPT !.todo = @ \ {<<u, r>>}]
     /\ \/ mine /\ IsTerminal(r) /\ journal[r].place = "flat" /\ does("tidy", "tidy_archive")
        \/ mine /\ IsTerminal(r) /\ journal[r].place # "flat" /\ does("tidy", "tidy_unindex")
        \/ mine /\ IsLive(r) /\ Due(r) /\ does("scan", "lock_account")
        \/ ~(mine /\ (IsTerminal(r) \/ (IsLive(r) /\ Due(r)))) /\ UNCHANGED proc
     /\ UNCHANGED <<dsm, policy, marker, files, clock, ready, reply, faults, edits>>

\* A terminal record an earlier write left behind is finished, with no lock.
TidyArchive ==
  LET r == proc[Scanner].req
      flat == journal[r].place = "flat"
  IN /\ proc[Scanner].pc = "tidy_archive"
     /\ \E out \in Outcomes :
          /\ Disk(out)
          /\ journal' = IF Lands(out) /\ flat
                        THEN [journal EXCEPT ![r].place = "completed"] ELSE journal
          /\ IF out = "ok" /\ flat THEN Goto(Scanner, "tidy_unindex") ELSE Answer(Scanner, "error")
     /\ UNCHANGED <<dsm, policy, marker, index, clock, helper, edits>>

TidyUnindex ==
  LET r == proc[Scanner].req
      u == journal[r].user
  IN /\ proc[Scanner].pc = "tidy_unindex"
     /\ \E out \in Outcomes :
          /\ Disk(out)
          /\ index' = IF Lands(out) THEN [index EXCEPT ![u] = @ \ {r}] ELSE index
     /\ Answer(Scanner, "error")
     /\ UNCHANGED <<dsm, policy, marker, journal, clock, helper, edits>>

\* pruneCompletedJournals drops archived records of more than a week.  The pass
\* has taken such a record out of its index; an index write that fails for a
\* week is not considered, nor an operation that is under way for a week.
Prunable == {r \in Requests : /\ journal[r].place = "completed"
                              /\ \A u \in Users : r \notin index[u]
                              /\ \A p \in Procs : proc[p].req # r}

\* Broken: the Helper opens only when every account is in order.
EndsInOrder ==
  /\ pass.on /\ pass.todo = {}
  /\ proc[Scanner] = Idle
  /\ \A u \in Users : ~Unresolved(u)
  /\ pass' = [pass EXCEPT !.on = FALSE]
  /\ ready' = TRUE
  /\ UNCHANGED <<dsm, policy, marker, files, clock, proc, reply, faults, edits>>

PassEnds ==
  /\ pass.on /\ pass.todo = {}
  /\ proc[Scanner] = Idle
  /\ pass' = [pass EXCEPT !.on = FALSE]
  /\ ready' = TRUE
  /\ \E old \in SUBSET Prunable :
       journal' = [r \in Requests |-> IF r \in old THEN NoJournal ELSE journal[r]]
  /\ UNCHANGED <<dsm, policy, marker, index, clock, proc, reply, faults, edits>>

-----------------------------------------------------------------------------
(* The environment: DSM administrators, time, and the end of the process *)

\* DSM's own writers hold lock_pw, so no direct shadow write is under way.
AdminEdits(u) ==
  LET row == account[u]
      becomes(new) == account' = [account EXCEPT ![u] = new] /\ UNCHANGED secret
  IN /\ SystemFree
     /\ edits < MaxEdits
     /\ edits' = edits + 1
     /\ \/ /\ row.exists
           /\ \E h \in Passwords \cup {NoPassword} :
                /\ account' = [account EXCEPT ![u].hash = h]
                /\ secret'  = [secret EXCEPT ![u] = h]
        \/ row.exists /\ becomes([row EXCEPT !.locked = ~@])
        \/ row.exists /\ becomes([row EXCEPT !.disabled = ~@])
        \/ row.exists /\ becomes([row EXCEPT !.admin = ~@])
        \/ row.exists /\ becomes([row EXCEPT !.exists = FALSE])
        \/ /\ ~row.exists
           /\ \E h \in Passwords : NewRow(u, h) /\ secret' = [secret EXCEPT ![u] = h]
     /\ UNCHANGED <<policy, marker, files, clock, proc, helper, reply, faults>>

TimeRunsOut(r) ==
  /\ IsLive(r)
  /\ r \notin expired
  /\ expired' = expired \cup {r}
  /\ UNCHANGED <<dsm, policy, marker, files, backoff, proc, helper, reply, faults, edits>>

BackoffEnds(r) ==
  /\ r \in backoff
  /\ backoff' = backoff \ {r}
  /\ UNCHANGED <<dsm, policy, marker, files, expired, proc, helper, reply, faults, edits>>

\* The machine or the processes stop and the Helper starts again.
Killed ==
  /\ faults < MaxFaults
  /\ faults' = faults + 1
  /\ proc' = [p \in Procs |-> Idle]
  /\ pass' = [on |-> FALSE, todo |-> {}]
  /\ ready' = FALSE
  /\ UNCHANGED <<dsm, policy, marker, files, clock, reply, edits>>

-----------------------------------------------------------------------------

LoginStep(p) ==
  \/ LoginRefused(p) \/ LoginRepeated(p) \/ LoginEnters(p) \/ ReadOriginal(p)
  \/ AddToIndex(p) \/ WriteJournal(p) \/ SwapIn(p) \/ Activate(p)
  \/ \E success \in BOOLEAN : DsmLogin(p, success)

RestoreStep(p) ==
  \/ RestoreEnters(p) \/ MarkRestoring(p) \/ RestoreRefused(p) \/ RestoreKeeps(p)
  \/ RestoreSwaps(p) \/ FinishJournal(p) \/ Archive(p) \/ RemoveFromIndex(p)
  \/ RecordFailure(p)

AccountStep(p) ==
  \/ MutationEnters(p) \/ Native(p) \/ ResetMark(p) \/ SetPassword(p) \/ ResetDone(p)
  \/ PolicyChanges(p)

ThreadStep(p) == AccountBusy(p) \/ SystemBusy(p)
                 \/ LoginStep(p) \/ RestoreStep(p) \/ AccountStep(p)

ScanStep == \/ PassBegins \/ PassEnds \/ TidyArchive \/ TidyUnindex
            \/ \E u \in Users, r \in Requests : PassTakes(u, r)

Call(p) == \/ \E o \in LoginOps, r \in Requests, u \in Users : LoginCall(p, o, r, u)
           \/ \E r \in Requests : CompleteCall(p, r)
           \/ \E o \in AllOps, u \in Users : AccountCall(p, o, u)

Environment == \/ \E u \in Users : AdminEdits(u)
               \/ \E r \in Requests : TimeRunsOut(r) \/ BackoffEnds(r)
               \/ Killed

Next == \/ \E p \in Threads : Call(p)
        \/ \E p \in Procs : ThreadStep(p)
        \/ ScanStep
        \/ Environment

\* Goroutines are scheduled, the recovery loop ticks and clocks advance.  Nothing
\* is promised about calls, administrators, failures or DSM's answers.
Fairness == /\ \A p \in Procs : WF_vars(ThreadStep(p))
            /\ WF_vars(ScanStep)
            /\ \A r \in Requests : WF_vars(TimeRunsOut(r)) /\ WF_vars(BackoffEnds(r))

Spec     == Init /\ [][Next]_vars
FairSpec == Spec /\ Fairness
=============================================================================
