---------------------------- MODULE DirectorySync ----------------------------
(***************************************************************************)
(* Synchronisation runs of the backend (internal/backend/sync_handlers.go, *)
(* scheduler.go, source_reset.go, identity_sources.go, dsm_handlers.go)    *)
(* over the tables of IdentityMapping and the accounts of DSM.             *)
(*                                                                         *)
(* A run reads the directory, writes the mappings in one transaction, and  *)
(* then works through lists of groups, users, members and missing users    *)
(* that it reads from the database: between a list and the work on its     *)
(* items other runs, administrators, a cleanup or a deletion may act.      *)
(*                                                                         *)
(* Starts is what the platforms may list at first, Directories what they   *)
(* may come to list.  Bounds: Changes directory changes, Orders orders of      *)
(* administrators, Restarts restarts of the backend, Faults failures of a  *)
(* platform, the database or the Helper, and Intervals intervals of        *)
(* scheduled runs after the first (None: as many as there are).            *)
(***************************************************************************)
EXTENDS IdentityMapping

CONSTANTS Sources, Policies, Directories, Starts, Changes, Orders, Restarts, Faults,
          Intervals

ASSUME SyncAssumption ==
  /\ \A x \in Subjects : x[1] \in Sources
  /\ \A d \in Units : d[1] \in Sources
  /\ \A p \in Policies : p \in [deactivate : BOOLEAN, disable : BOOLEAN]
  /\ \A d \in Directories : d \in [source : Sources, users : Listings, units : SUBSET Units]
  /\ Starts \subseteq [Sources -> Directories]
  /\ \A start \in Starts, s \in Sources : start[s].source = s
  /\ None \notin Snapshot
  /\ {Changes, Orders, Restarts, Faults} \subseteq Nat /\ Intervals \in Nat \cup {None}

VARIABLES
  dir,      \* dir[s]: what the identity platform would answer
  src,      \* src[s]: the identity_sources row: "on", "off" or "deleted"
  db,       \* the tables of IdentityMapping
  dsmUser,  \* dsmUser[n]: "absent", "enabled" or "disabled"
  dsmGroup, \* the DSM groups that exist
  run,      \* run[s]: the run or cleanup that holds s in syncRuns
  due,      \* due[s]: the interval since the last scheduled start has passed
  record,   \* record[s]: status of the latest row of sync_runs
  banned,   \* accounts whose last login order was a ban
  renamed,  \* names of accounts and groups changed while a run held the old one
  left      \* what remains of the bounds

vars == <<dir, src, db, dsmUser, dsmGroup, run, due, record, banned, renamed, left>>

Phases == {"idle", "fetch", "map", "retire", "groups", "users", "members",
           "disable", "cleanup"}

Idle == [pc |-> "idle", policy |-> None, snap |-> None, work |-> {}, call |-> None,
         failed |-> FALSE, owned |-> {}, groups |-> {}, crossed |-> FALSE]

Init ==
  /\ dir \in Starts
  /\ src = [s \in Sources |-> "on"]
  /\ db = EmptyDb
  /\ dsmUser = [n \in AccountNames |-> "absent"]
  /\ dsmGroup = {}
  /\ run = [s \in Sources |-> Idle]
  /\ due = [s \in Sources |-> TRUE]
  /\ record = [s \in Sources |-> "none"]
  /\ banned = {} /\ renamed = {}
  /\ left = [changes |-> Changes, orders |-> Orders, restarts |-> Restarts,
             faults |-> Faults, intervals |-> Intervals]

\* What a reading of the directory in one moment would return.
Snapshots(s) ==
  {[users |-> dir[s].users, units |-> dir[s].units, order |-> o, told |-> NothingTold] :
     o \in SetToSeqs(DOMAIN dir[s].users)}

\* The people that the platform lists in d.
People(s, d) == {x \in DOMAIN dir[s].users : d \in dir[s].users[x].units}

Status(i) == db.acc[i].status
ActiveUser(d, x) == d.umap[x] # None /\ d.umap[x].active
ActiveGroup(d, u) == d.gmap[u] # None /\ d.gmap[u].active

\* Every use of dsm_username at the Helper needs a row with the name; an
\* administrator may have renamed it since the list was read.
AccountsNamed(n) == NamedAccounts(db, n)

\* HelperAccountAllowed: "provision" needs an active subject of an enabled
\* source, "mapped" any user mapping, also a retired one.
ProvisionAllowed(n) ==
  \E i \in AccountsNamed(n), x \in Subjects :
    /\ db.ext[x] # None /\ db.ext[x].id = i /\ db.ext[x].active
    /\ src[x[1]] = "on"
MappedAllowed(n) ==
  \E i \in AccountsNamed(n), x \in Subjects :
    db.umap[x] # None /\ db.umap[x].acc = i

\* The login of HelperAccountAllowed and ResolveAuthorizedLogin.
CanLogin(x) ==
  LET i == db.umap[x].acc
  IN  /\ ActiveUser(db, x) /\ src[x[1]] = "on"
      /\ db.ext[x] # None /\ db.ext[x].active /\ db.ext[x].id = i
      /\ db.acc[i] # None /\ db.acc[i].allow
      /\ Status(i) \in {"created", "linked_existing"}
------------------------------------------------------------------------------
(***************************************************************************)
(* The start of a run.                                                     *)
(***************************************************************************)
\* beginSourceSync and the start of runSyncProviderModeWithProgress: CURRENT_-
\* TIMESTAMP has a resolution of a second, so a run may begin in the second
\* in which the rows of its source were written.
StartRun(s) ==
  /\ run[s].pc = "idle" /\ src[s] = "on"
  /\ \E p \in Policies : run' = [run EXCEPT ![s] = [Idle EXCEPT !.pc = "fetch", !.policy = p]]
  /\ \/ db' = Age(db, s)
     \/ UNCHANGED db
  /\ record' = [record EXCEPT ![s] = "running"]

\* syncProvider and startProviderSyncRun; a run that finds the source busy
\* answers errSyncAlreadyRunning and leaves no trace.
ManualSync(s) ==
  /\ left.orders > 0
  /\ left' = [left EXCEPT !.orders = @ - 1]
  /\ StartRun(s)
  /\ UNCHANGED <<dir, src, dsmUser, dsmGroup, due, banned, renamed>>

\* runDueScheduledSyncs: autoSync is set before the run begins, so a start
\* that finds the source busy is not repeated before the next interval.
ScheduledSync(s) ==
  /\ due[s] /\ src[s] = "on"
  /\ due' = [due EXCEPT ![s] = FALSE]
  /\ \/ StartRun(s)
     \/ run[s].pc # "idle" /\ UNCHANGED <<run, db, record>>
  /\ UNCHANGED <<dir, src, dsmUser, dsmGroup, banned, renamed, left>>

IntervalPasses(s) ==
  /\ ~due[s] /\ left.intervals # 0
  /\ due' = [due EXCEPT ![s] = TRUE]
  /\ left' = IF Intervals = None THEN left ELSE [left EXCEPT !.intervals = @ - 1]
  /\ UNCHANGED <<dir, src, db, dsmUser, dsmGroup, run, record, banned, renamed>>

\* Broken: a run that fails keeps its entry in syncRuns.
EndsSuccesses(s, status) ==
  /\ run' = IF status = "failed" THEN run ELSE [run EXCEPT ![s] = Idle]
  /\ record' = [record EXCEPT ![s] = status]

EndRun(s, status) ==
  /\ run' = [run EXCEPT ![s] = Idle]
  /\ record' = [record EXCEPT ![s] = status]

Goto(s, pc, work) ==
  /\ run' = [run EXCEPT ![s].pc = pc, ![s].work = work]
  /\ UNCHANGED record

Fault == left.faults > 0 /\ left' = [left EXCEPT !.faults = @ - 1]
FaultUnless(can) == IF can THEN Fault ELSE UNCHANGED left

\* A failure of the platform or of the transaction (SQLITE_BUSY, a user
\* without a usable name): nothing is written.  A transaction that cannot even
\* begin leaves the row of the run as it is.
RunAborts(s) ==
  /\ Fault
  /\ run[s].pc \in {"fetch", "map", "retire"}
  /\ \/ EndRun(s, "failed")
     \/ run[s].pc = "fetch" /\ EndRun(s, "running")
  /\ UNCHANGED <<dir, src, db, dsmUser, dsmGroup, due, banned, renamed>>

\* The error of SyncProvider that the directory itself explains.
FetchFails(s) ==
  /\ run[s].pc = "fetch"
  /\ EndRun(s, "failed")
  /\ UNCHANGED <<dir, src, db, dsmUser, dsmGroup, due, banned, renamed, left>>

\* listDirectorySnapshot and validateDirectorySnapshot, with what was read
ReadSnapshot(s, snap) ==
  /\ run[s].pc = "fetch" /\ ValidSnapshot(snap)
  /\ run' = [run EXCEPT ![s].pc = "map", ![s].snap = snap]
  /\ UNCHANGED <<dir, src, db, dsmUser, dsmGroup, due, record, banned, renamed, left>>

\* ... in one moment; SourceSync reads it call by call.
ReadDirectory(s) ==
  \E snap \in Snapshots(s) :
    IF ValidSnapshot(snap) THEN ReadSnapshot(s, snap) ELSE FetchFails(s)

\* directory.ListGroupMembers, called inside the transaction: there are the
\* departments that the platform answers for, in one moment and in any order
\* of their members.  For any other the run fails, and nothing is written.
ListMembers(s, there) ==
  /\ run[s].pc = "map"
  /\ \E d \in AskedUnits(db, run[s].snap) :
       \/ /\ d \in there
          /\ \E list \in SetToSeqs(People(s, d)) :
               run' = [run EXCEPT ![s].snap.told[d] = list]
          /\ UNCHANGED record
       \/ d \notin there /\ EndRun(s, "failed")
  /\ UNCHANGED <<dir, src, db, dsmUser, dsmGroup, due, banned, renamed, left>>

\* The run goes on after its transaction.  Lists that other sources hold were
\* read before it: they are crossed by it.
LeaveMap(s) ==
  /\ run[s].pc = "map"
  /\ run' = [t \in Sources |->
       IF t = s THEN [run[s] EXCEPT !.pc = "retire"] ELSE [run[t] EXCEPT !.crossed = TRUE]]

\* A list that a run works through has the name of the row.
Held(kind, i) ==
  \E s \in Sources :
    \/ kind = "user" /\ run[s].pc = "users" /\ \E item \in run[s].work : item[1] = i
    \/ kind = "group" /\ run[s].pc = "groups" /\ \E item \in run[s].work : item[1] = i
    \/ kind = "group" /\ run[s].pc = "members" /\ \E item \in run[s].work : item[1][1] = i

\* The transaction of SyncProvider commits.  It may rename a group of the
\* source that a run of another one has in a list (RenameLinked).
CommitMappings(s) ==
  /\ LeaveMap(s)
  /\ AskedUnits(db, run[s].snap) = {}
  /\ db' = SyncProvider(db, s, run[s].snap, run[s].policy)
  /\ renamed' = renamed \cup
       {<<"group", g>> : g \in {h \in Ids : /\ Held("group", h) /\ db.grp[h] # None
                                          /\ db.grp[h].name # db'.grp[h].name}}
  /\ UNCHANGED <<dir, src, dsmUser, dsmGroup, due, record, banned, left>>

Retired2(s) ==
  IF run[s].policy.deactivate THEN RetireMissing(db, s, UserOnly(run[s].snap)) ELSE db

GroupConflict(d, s) ==
  \E u \in Units : /\ u[1] = s /\ d.unit[u] # None /\ d.unit[u].active
                   /\ d.unit[u].link # None /\ d.grp[d.unit[u].link] # None
                   /\ d.grp[d.unit[u].link].status = "conflict"
AccountConflict(d, s) ==
  \E x \in Subjects : /\ x[1] = s /\ d.ext[x] # None /\ d.ext[x].active
                      /\ d.ext[x].id # None /\ d.acc[d.ext[x].id] # None
                      /\ d.acc[d.ext[x].id].status = "conflict"

\* The groups mapped from the source, with the names they have now.
GroupList(d, s) ==
  {<<g, d.grp[g].name>> : g \in
     {h \in Ids : /\ d.grp[h] # None
                  /\ d.grp[h].status \in {"pending", "failed", "created"}
                  /\ \E u \in Units : u[1] = s /\ ActiveGroup(d, u) /\ d.gmap[u].grp = h}}

\* syncSourceToDSMWithBuffer up to its first Helper call: retire what is
\* missing, stop at a conflict, and read the list of groups.
RetireAndList(s) ==
  /\ run[s].pc = "retire"
  /\ db' = Retired2(s)
  /\ IF GroupConflict(db', s) \/ AccountConflict(db', s)
     THEN EndRun(s, "failed")
     ELSE Goto(s, "groups", GroupList(db', s))
  /\ UNCHANGED <<dir, src, dsmUser, dsmGroup, due, banned, renamed, left>>
------------------------------------------------------------------------------
(***************************************************************************)
(* Groups, users, members and missing users.                               *)
(***************************************************************************)
Finished(s, item) == [run EXCEPT ![s].work = @ \ {item}]

SetGroup(g, status) ==
  db' = IF db.grp[g] = None THEN db ELSE [db EXCEPT !.grp[g].status = status]

\* ProvisionGroup: the group exists now, or its creation waits for a first
\* member; the row is written by id, whatever its name is by now.
ProvisionGroup(s) ==
  \E item \in run[s].work :
    /\ run[s].pc = "groups"
    /\ run' = Finished(s, item)
    /\ \/ /\ dsmGroup' = dsmGroup \cup {item[2]}
          /\ SetGroup(item[1], "created")
       \/ item[2] \notin dsmGroup /\ UNCHANGED <<dsmGroup, db>>
    /\ UNCHANGED <<dir, src, dsmUser, due, record, banned, renamed, left>>

\* A group that fails ends the run.
GroupFails(s) ==
  \E item \in run[s].work :
    /\ run[s].pc = "groups"
    /\ Fault
    /\ SetGroup(item[1], "failed")
    /\ EndRun(s, "failed")
    /\ UNCHANGED <<dir, src, dsmUser, dsmGroup, due, banned, renamed>>

UserList(s) ==
  {<<i, db.acc[i].name>> : i \in
     {j \in Ids : /\ db.acc[j] # None
                  /\ Status(j) \in {"pending", "failed", "created", "linked_existing", "disabled"}
                  /\ \E x \in Subjects : x[1] = s /\ ActiveUser(db, x) /\ db.umap[x].acc = j}}

GroupsDone(s) ==
  /\ run[s].pc = "groups" /\ run[s].work = {}
  /\ Goto(s, "users", UserList(s))
  /\ UNCHANGED <<dir, src, db, dsmUser, dsmGroup, due, banned, renamed, left>>

\* scoped_provision_user, authorization: it is checked before the account lock.
AuthorizeUser(s) ==
  \E item \in run[s].work :
    /\ run[s].pc = "users" /\ run[s].call = None
    /\ ProvisionAllowed(item[2])
    /\ run' = [run EXCEPT ![s].call = item]
    /\ UNCHANGED <<dir, src, db, dsmUser, dsmGroup, due, record, banned, renamed, left>>

SetAccount(i, status, allow) ==
  db' = IF db.acc[i] = None THEN db
        ELSE [db EXCEPT !.acc[i].status = status, !.acc[i].allow = allow]

\* ... and its effect under the lock: the user is created, or found and
\* enabled.  The backend then writes the row by id and allows its login.
ProvisionUser(s) ==
  LET item == run[s].call
      created == dsmUser[item[2]] = "absent"
  IN  /\ run[s].pc = "users" /\ item # None
      /\ dsmUser' = [dsmUser EXCEPT ![item[2]] = "enabled"]
      /\ SetAccount(item[1], IF created THEN "created" ELSE "linked_existing", TRUE)
      /\ run' = [Finished(s, item) EXCEPT ![s].call = None]
      /\ UNCHANGED <<dir, src, dsmGroup, due, record, banned, renamed, left>>

\* A user that fails, or is not authorized, is noted; the run goes on, unless
\* it was the initial password that could not be read.
UserFails(s) ==
  \E item \in run[s].work :
    /\ run[s].pc = "users"
    /\ run[s].call \in {None, item}
    /\ FaultUnless(run[s].call = item \/ ProvisionAllowed(item[2]))
    /\ db' = IF db.acc[item[1]] = None THEN db
             ELSE [db EXCEPT !.acc[item[1]].status = "failed"]
    /\ \/ /\ run' = [Finished(s, item) EXCEPT ![s].call = None, ![s].failed = TRUE]
          /\ UNCHANGED record
       \/ run[s].call = None /\ EndRun(s, "failed")
    /\ UNCHANGED <<dir, src, dsmUser, dsmGroup, due, banned, renamed>>

MemberList(s) ==
  {m \in Ids \X Ids :
     /\ db.mem[m] # None /\ db.mem[m].active
     /\ db.mem[m].status \in {"pending", "failed", "created"}
     /\ db.grp[m[1]] # None /\ db.acc[m[2]] # None
     /\ \E k \in Units \X Subjects :
          /\ k[1][1] = s /\ db.mmap[k] # None /\ db.mmap[k].active
          /\ <<db.mmap[k].grp, db.mmap[k].acc>> = m}

UsersDone(s) ==
  /\ run[s].pc = "users" /\ run[s].work = {}
  /\ Goto(s, "members", {<<m, db.grp[m[1]].name, db.acc[m[2]].name>> : m \in MemberList(s)})
  /\ UNCHANGED <<dir, src, db, dsmUser, dsmGroup, due, banned, renamed, left>>

\* AddGroupMember creates a group that waited for its first member.  Group
\* and member are written by id, and the member is made active again.
AddMember(s) ==
  \E item \in run[s].work :
    /\ run[s].pc = "members"
    /\ dsmUser[item[3]] # "absent"
    /\ dsmGroup' = dsmGroup \cup {item[2]}
    /\ db' = [db EXCEPT
         !.grp[item[1][1]] = IF @ = None THEN None ELSE [@ EXCEPT !.status = "created"],
         !.mem[item[1]] = IF @ = None THEN None ELSE [active |-> TRUE, status |-> "created"]]
    /\ run' = Finished(s, item)
    /\ UNCHANGED <<dir, src, dsmUser, due, record, banned, renamed, left>>

MemberFails(s) ==
  \E item \in run[s].work :
    /\ run[s].pc = "members"
    /\ FaultUnless(dsmUser[item[3]] # "absent")
    /\ db' = [db EXCEPT !.mem[item[1]] = IF @ = None THEN None ELSE [@ EXCEPT !.status = "failed"]]
    /\ EndRun(s, "failed")
    /\ UNCHANGED <<dir, src, dsmUser, dsmGroup, due, banned, renamed>>

\* The members to remove are only marked: DSM keeps them.
MarkRemoved(s) ==
  [db EXCEPT !.mem = [m \in Ids \X Ids |->
     IF /\ db.mem[m] # None /\ ~db.mem[m].active /\ db.mem[m].status = "remove_pending"
        /\ db.grp[m[1]] # None /\ db.acc[m[2]] # None
        /\ \E k \in Units \X Subjects :
             k[1][1] = s /\ db.mmap[k] # None /\ <<db.mmap[k].grp, db.mmap[k].acc>> = m
     THEN [db.mem[m] EXCEPT !.status = "disabled"] ELSE db.mem[m]]]

\* Broken: the mappings of other sources are overlooked.
DisablesForOthers(s) ==
  {<<i, db.acc[i].name>> : i \in
     {j \in Ids : /\ db.acc[j] # None /\ db.acc[j].allow
                  /\ \E x \in Subjects : /\ x[1] = s /\ db.umap[x] # None
                                         /\ ~db.umap[x].active /\ db.umap[x].acc = j
                  /\ \A x \in Subjects : x[1] = s /\ ActiveUser(db, x) => db.umap[x].acc # j}}

\* Accounts with a retired mapping of the source and no mapping left at all.
DisableList(s) ==
  {<<i, db.acc[i].name>> : i \in
     {j \in Ids : /\ db.acc[j] # None /\ db.acc[j].allow
                  /\ \E x \in Subjects : /\ x[1] = s /\ db.umap[x] # None
                                         /\ ~db.umap[x].active /\ db.umap[x].acc = j
                  /\ \A x \in Subjects : ActiveUser(db, x) => db.umap[x].acc # j}}

MembersDone(s) ==
  /\ run[s].pc = "members" /\ run[s].work = {}
  /\ db' = IF run[s].policy.deactivate THEN MarkRemoved(s) ELSE db
  /\ run' = [run EXCEPT ![s].pc = "disable", ![s].crossed = FALSE,
                        ![s].work = IF run[s].policy.disable THEN DisableList(s) ELSE {}]
  /\ UNCHANGED <<dir, src, dsmUser, dsmGroup, due, record, banned, renamed, left>>

\* scoped_disable_user, then the row
DisableUser(s) ==
  \E item \in run[s].work :
    /\ run[s].pc = "disable"
    /\ MappedAllowed(item[2]) /\ dsmUser[item[2]] # "absent"
    /\ dsmUser' = [dsmUser EXCEPT ![item[2]] = "disabled"]
    /\ SetAccount(item[1], "disabled", FALSE)
    /\ run' = Finished(s, item)
    /\ UNCHANGED <<dir, src, dsmGroup, due, record, banned, renamed, left>>

\* A user that cannot be disabled ends the run (also a cleanup).
DisableFails(s) ==
  /\ run[s].work # {}
  /\ FaultUnless(\A item \in run[s].work :
                   MappedAllowed(item[2]) /\ dsmUser[item[2]] # "absent")
  /\ \/ run[s].pc = "disable" /\ EndRun(s, "failed")
     \/ run[s].pc = "cleanup" /\ EndRun(s, record[s])
  /\ UNCHANGED <<dir, src, db, dsmUser, dsmGroup, due, banned, renamed>>

FinishRun(s) ==
  /\ run[s].pc = "disable" /\ run[s].work = {}
  /\ EndRun(s, IF run[s].failed THEN "failed" ELSE "success")
  /\ UNCHANGED <<dir, src, db, dsmUser, dsmGroup, due, banned, renamed, left>>
------------------------------------------------------------------------------
(***************************************************************************)
(* Administrators: cleanup, deletion, login orders and names.              *)
(***************************************************************************)
Order == left.orders > 0 /\ left' = [left EXCEPT !.orders = @ - 1]

\* runProviderCleanup up to its first Helper call
BeginCleanup(s) ==
  /\ Order
  /\ run[s].pc = "idle" /\ src[s] # "deleted"
  /\ run' = [run EXCEPT ![s] = [Idle EXCEPT
       !.pc = "cleanup", !.owned = OwnedIdentities(db, s), !.groups = OwnedGroups(db, s),
       !.work = {<<i, db.acc[i].name>> : i \in OwnedAccounts(db, s)}]]
  /\ UNCHANGED <<dir, src, db, dsmUser, dsmGroup, due, record, banned, renamed>>

CleanupDisable(s) ==
  \E item \in run[s].work :
    /\ run[s].pc = "cleanup"
    /\ MappedAllowed(item[2]) /\ dsmUser[item[2]] # "absent"
    /\ dsmUser' = [dsmUser EXCEPT ![item[2]] = "disabled"]
    /\ run' = Finished(s, item)
    /\ UNCHANGED <<dir, src, db, dsmGroup, due, record, banned, renamed, left>>

\* The transaction deletes what was found when the cleanup began.
CleanupDelete(s) ==
  /\ run[s].pc = "cleanup" /\ run[s].work = {}
  /\ db' = DeleteSourceData(db, s, run[s].owned, run[s].groups)
  /\ EndRun(s, "none")
  /\ banned' = banned \ run[s].owned
  /\ UNCHANGED <<dir, src, dsmUser, dsmGroup, due, renamed, left>>

\* deleteProvider: analysis and deletion in one transaction, without
\* beginSourceSync; the users it disables first must all be known to DSM.
DeleteSource(s) ==
  LET ids == OwnedIdentities(db, s)
      names == {db.acc[i].name : i \in OwnedAccounts(db, s)}
  IN  /\ Order
      /\ src[s] # "deleted"
      /\ \A n \in names : MappedAllowed(n) /\ dsmUser[n] # "absent"
      /\ src' = [src EXCEPT ![s] = "deleted"]
      /\ dsmUser' = [n \in AccountNames |-> IF n \in names THEN "disabled" ELSE dsmUser[n]]
      /\ db' = DeleteSourceData(db, s, ids, OwnedGroups(db, s))
      /\ banned' = banned \ ids
      /\ UNCHANGED <<dir, dsmGroup, run, due, record, renamed>>

\* updateProvider: switch the source off and on.
SwitchSource(s) ==
  /\ Order
  /\ src[s] # "deleted"
  /\ src' = [src EXCEPT ![s] = IF @ = "on" THEN "off" ELSE "on"]
  /\ UNCHANGED <<dir, db, dsmUser, dsmGroup, run, due, record, banned, renamed>>

\* runDSMAccountsLogin
SetLogin(i, allow) ==
  /\ Order
  /\ db.acc[i] # None
  /\ db' = [db EXCEPT !.acc[i].allow = allow]
  /\ banned' = IF allow THEN banned \ {i} ELSE banned \cup {i}
  /\ UNCHANGED <<dir, src, dsmUser, dsmGroup, run, due, record, renamed>>

\* Broken: the status survives the change of name.
KeepsStatus(i, n) ==
  /\ Order
  /\ db.acc[i] # None /\ n \notin ReservedUsers
  /\ \A j \in AccountsNamed(n) : j = i
  /\ db' = [db EXCEPT !.acc[i] =
              [name |-> n, status |-> @.status, allow |-> TRUE, managed |-> FALSE]]
  /\ banned' = banned \ {i}
  /\ renamed' = IF Held("user", i) THEN renamed \cup {<<"user", i>>} ELSE renamed
  /\ UNCHANGED <<dir, src, dsmUser, dsmGroup, run, due, record>>

\* setDSMAccountUsername
SetUsername(i, n) ==
  /\ Order
  /\ db.acc[i] # None /\ n \notin ReservedUsers
  /\ \A j \in AccountsNamed(n) : j = i
  /\ db' = [db EXCEPT !.acc[i] =
              [name |-> n, status |-> "pending", allow |-> TRUE, managed |-> FALSE]]
  /\ banned' = banned \ {i}
  /\ renamed' = IF Held("user", i) THEN renamed \cup {<<"user", i>>} ELSE renamed
  /\ UNCHANGED <<dir, src, dsmUser, dsmGroup, run, due, record>>

\* setDSMGroupName
SetGroupname(g, n) ==
  /\ Order
  /\ db.grp[g] # None /\ n \notin ReservedGroups
  /\ \A h \in NamedGroups(db, n) : h = g
  /\ db' = [db EXCEPT !.grp[g] = [name |-> n, status |-> "pending", managed |-> FALSE]]
  /\ renamed' = IF Held("group", g) THEN renamed \cup {<<"group", g>>} ELSE renamed
  /\ UNCHANGED <<dir, src, dsmUser, dsmGroup, run, due, record, banned>>

\* provisionDSMAccount
ProvisionAccount(i) ==
  /\ Order
  /\ db.acc[i] # None /\ Status(i) # "conflict"
  /\ ProvisionAllowed(db.acc[i].name)
  /\ dsmUser' = [dsmUser EXCEPT ![db.acc[i].name] = "enabled"]
  /\ SetAccount(i, IF dsmUser[db.acc[i].name] = "absent" THEN "created" ELSE "linked_existing", TRUE)
  /\ banned' = banned \ {i}
  /\ UNCHANGED <<dir, src, dsmGroup, run, due, record, renamed>>

\* provisionDSMGroup: unlike an account, a group in conflict is not refused.
ProvisionDSMGroup(g) ==
  /\ Order
  /\ db.grp[g] # None
  /\ dsmGroup' = dsmGroup \cup {db.grp[g].name}
  /\ SetGroup(g, "created")
  /\ UNCHANGED <<dir, src, dsmUser, run, due, record, banned, renamed>>

\* provisionGroupMember
ProvisionMember(m) ==
  /\ Order
  /\ db.mem[m] # None /\ db.mem[m].active /\ db.grp[m[1]] # None /\ db.acc[m[2]] # None
  /\ dsmUser[db.acc[m[2]].name] # "absent"
  /\ dsmGroup' = dsmGroup \cup {db.grp[m[1]].name}
  /\ db' = [db EXCEPT !.mem[m].status = "created"]
  /\ UNCHANGED <<dir, src, dsmUser, run, due, record, banned, renamed>>
------------------------------------------------------------------------------
\* The identity platform: people come, leave or are suspended, departments
\* appear and disappear.
DirectoryChanges(s) ==
  /\ left.changes > 0
  /\ left' = [left EXCEPT !.changes = @ - 1]
  /\ \E d \in Directories : d.source = s /\ d # dir[s] /\ dir' = [dir EXCEPT ![s] = d]
  /\ UNCHANGED <<src, db, dsmUser, dsmGroup, run, due, record, banned, renamed>>

\* The backend stops and starts: syncRuns and autoSync are in memory, and no
\* start looks at the rows of sync_runs that still say running.
Restart ==
  /\ left.restarts > 0
  /\ left' = [left EXCEPT !.restarts = @ - 1]
  /\ run' = [s \in Sources |-> Idle]
  /\ due' = [s \in Sources |-> TRUE]
  /\ UNCHANGED <<dir, src, db, dsmUser, dsmGroup, record, banned, renamed>>

\* The steps of a run that go on by themselves, once its mappings are written.
WorkStep(s) ==
  \/ RetireAndList(s)
  \/ ProvisionGroup(s) \/ GroupsDone(s)
  \/ AuthorizeUser(s) \/ ProvisionUser(s) \/ UsersDone(s)
  \/ AddMember(s) \/ MembersDone(s)
  \/ DisableUser(s) \/ FinishRun(s)
  \/ CleanupDisable(s) \/ CleanupDelete(s)

\* A call to the Helper that fails, also because it is not answered in time.
CallFails(s) == GroupFails(s) \/ UserFails(s) \/ MemberFails(s) \/ DisableFails(s)

Administer ==
  \/ \E s \in Sources :
       ManualSync(s) \/ BeginCleanup(s) \/ DeleteSource(s) \/ SwitchSource(s)
  \/ \E i \in Ids :
       \/ \E allow \in BOOLEAN : SetLogin(i, allow)
       \/ \E n \in Names : SetUsername(i, n) \/ SetGroupname(i, n)
       \/ ProvisionAccount(i) \/ ProvisionDSMGroup(i)
       \/ \E j \in Ids : ProvisionMember(<<i, j>>)

\* Everything but the requests to a platform.
Elsewhere ==
  \/ \E s \in Sources : \/ ScheduledSync(s) \/ IntervalPasses(s) \/ DirectoryChanges(s)
                        \/ CommitMappings(s) \/ WorkStep(s) \/ RunAborts(s) \/ CallFails(s)
  \/ Administer
  \/ Restart

Next ==
  \/ Elsewhere
  \/ \E s \in Sources : ReadDirectory(s) \/ ListMembers(s, dir[s].units)

Spec == Init /\ [][Next]_vars
=============================================================================
