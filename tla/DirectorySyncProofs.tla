-------------------------- MODULE DirectorySyncProofs --------------------------
(***************************************************************************)
(* The promises of a directory synchronisation, for any number of sources, *)
(* people and departments, any directories and any number of runs, orders, *)
(* failures and restarts.                                                  *)
(*                                                                         *)
(* The theorems assume that ids do not run out (uuid.NewString).  The      *)
(* invariant has one part for the tables (Sound), one for DSM              *)
(* (CreatedExists) and one for each run (RowSound): what a run has read    *)
(* and works through is still true of the tables, or is known not to be.   *)
(***************************************************************************)
EXTENDS DirectorySyncProps, MappingProofs

\* The row of a run is of its columns, with a list of the kind of its phase.
RunTyped(r) ==
  /\ r \in RunRow
  /\ r.pc = "map" => r.snap # None
  /\ r.pc = "groups" => r.work \subseteq GroupItem
  /\ r.pc \in {"users", "disable", "cleanup"} => r.work \subseteq UserItem
  /\ r.pc = "members" => r.work \subseteq MemberItem
  /\ r.call # None => r.pc = "users" /\ r.call \in r.work

RunsTyped == run \in [Sources -> RunRow] /\ \A s \in Sources : RunTyped(run[s])

\* The variables beside the tables and the runs.
World ==
  /\ src \in [Sources -> {"on", "off", "deleted"}]
  /\ dsmUser \in [AccountNames -> {"absent", "enabled", "disabled"}]
  /\ dsmGroup \subseteq Names
  /\ dir \in [Sources -> Directories]
  /\ due \in [Sources -> BOOLEAN]
  /\ record \in [Sources -> {"none", "running", "failed", "success"}]
  /\ banned \subseteq Ids
  /\ renamed \subseteq {"user", "group"} \X Ids

\* What a list says of an account or group: its name, or the row is gone, or
\* its name was changed while the list was held.
UserCurrent(i, n, d, ren) ==
  <<"user", i>> \in d.spent \cup ren \/ (d.acc[i] # None /\ d.acc[i].name = n)
GroupCurrent(g, n, d, ren) ==
  <<"group", g>> \in d.spent \cup ren \/ (d.grp[g] # None /\ d.grp[g].name = n)

ListCurrent(r, d, ren) ==
  \A item \in r.work :
    /\ r.pc = "users" => UserCurrent(item[1], item[2], d, ren)
    /\ r.pc = "groups" => GroupCurrent(item[1], item[2], d, ren)
    /\ r.pc = "members" => GroupCurrent(item[1][1], item[2], d, ren)

\* While no mapping was committed since: what a cleanup owns is nobody
\* else's, and whom a run is to disable nobody maps.
Uncrossed(s, r, d) ==
  /\ r.pc = "cleanup" =>
       \A x \in Subjects : (x[1] # s /\ d.ext[x] # None) => d.ext[x].id \notin r.owned
  /\ r.pc = "disable" =>
       \A item \in r.work, x \in Subjects : ActiveUser(d, x) => d.umap[x].acc # item[1]

RowSound(s, r, d, ren) ==
  /\ ListCurrent(r, d, ren)
  /\ r.owned \subseteq UsedAccounts(d) /\ r.groups \subseteq UsedGroups(d)
  /\ ~r.crossed => Uncrossed(s, r, d)

RunsSound == \A s \in Sources : RowSound(s, run[s], db, renamed)

\* The inductive invariant.
SyncInvariant == World /\ RunsTyped /\ Sound(db) /\ CreatedExists /\ RunsSound

LEMMA TypeParts == TypeOK <=> World /\ RunsTyped /\ db \in Tables
  BY DEF TypeOK, World, RunsTyped, RunTyped
------------------------------------------------------------------------------
(***************************************************************************)
(* What a step may do to the row of a run without disturbing it.           *)
(***************************************************************************)
Lists == {"groups", "users", "members", "disable", "cleanup"}

\* From row q to r no list is begun, and no mark is taken back.
Lessens(q, r) ==
  /\ r.pc \in Lists => /\ r.pc = q.pc /\ r.work \subseteq q.work
                       /\ ~r.crossed => ~q.crossed
  /\ r.owned \subseteq q.owned /\ r.groups \subseteq q.groups

\* From d to e the account and the group keep existing under their names,
\* or that they do not is noted.
UserFollows(i, d, e, ren, ren2) ==
  \/ <<"user", i>> \in e.spent \cup ren2
  \/ /\ <<"user", i>> \notin d.spent \cup ren
     /\ d.acc[i] # None => e.acc[i] # None /\ e.acc[i].name = d.acc[i].name
GroupFollows(g, d, e, ren, ren2) ==
  \/ <<"group", g>> \in e.spent \cup ren2
  \/ /\ <<"group", g>> \notin d.spent \cup ren
     /\ d.grp[g] # None => e.grp[g] # None /\ e.grp[g].name = d.grp[g].name

RowFollows(q, d, e, ren, ren2) ==
  \A item \in q.work :
    /\ q.pc = "users" => UserFollows(item[1], d, e, ren, ren2)
    /\ q.pc = "groups" => GroupFollows(item[1], d, e, ren, ren2)
    /\ q.pc = "members" => GroupFollows(item[1][1], d, e, ren, ren2)

\* From d to e nobody refers to an identity he did not refer to.
SameReferences(d, e) ==
  \A x \in Subjects : (e.ext[x] # None /\ e.ext[x].id # None) =>
    d.ext[x] # None /\ e.ext[x].id = d.ext[x].id

UseGrows(d, e) == UsedAccounts(d) \subseteq UsedAccounts(e) /\ UsedGroups(d) \subseteq UsedGroups(e)

LEMMA ListStays ==
  ASSUME NEW q, NEW r, NEW d, NEW e, NEW ren, NEW ren2,
         ListCurrent(q, d, ren), Lessens(q, r), RowFollows(q, d, e, ren, ren2)
  PROVE  ListCurrent(r, e, ren2)
<1>1. CASE r.pc \in {"users", "groups", "members"}
  <2>1. r.pc = q.pc /\ r.work \subseteq q.work
    BY <1>1 DEF Lessens, Lists
  <2>2. ASSUME NEW item \in r.work
        PROVE  /\ r.pc = "users" => UserCurrent(item[1], item[2], e, ren2)
               /\ r.pc = "groups" => GroupCurrent(item[1], item[2], e, ren2)
               /\ r.pc = "members" => GroupCurrent(item[1][1], item[2], e, ren2)
    <3>1. item \in q.work
      BY <2>1
    <3>2. r.pc = "users" => UserCurrent(item[1], item[2], e, ren2)
      BY <2>1, <3>1 DEF ListCurrent, RowFollows, UserCurrent, UserFollows
    <3>3. r.pc = "groups" => GroupCurrent(item[1], item[2], e, ren2)
      BY <2>1, <3>1 DEF ListCurrent, RowFollows, GroupCurrent, GroupFollows
    <3>4. r.pc = "members" => GroupCurrent(item[1][1], item[2], e, ren2)
      BY <2>1, <3>1 DEF ListCurrent, RowFollows, GroupCurrent, GroupFollows
    <3> QED
      BY <3>2, <3>3, <3>4
  <2> QED
    BY <2>2 DEF ListCurrent
<1>2. CASE r.pc \notin {"users", "groups", "members"}
  BY <1>2 DEF ListCurrent
<1> QED
  BY <1>1, <1>2

LEMMA UncrossedStays ==
  ASSUME NEW s, NEW q, NEW r, NEW d, NEW e, Uncrossed(s, q, d), Lessens(q, r),
         r.pc \in {"cleanup", "disable"} => r.pc = q.pc /\ r.work \subseteq q.work,
         q.owned \subseteq Ids, SameReferences(d, e), Fades(d, e)
  PROVE  Uncrossed(s, r, e)
<1>1. r.pc = "cleanup" =>
        \A x \in Subjects : (x[1] # s /\ e.ext[x] # None) => e.ext[x].id \notin r.owned
  <2> SUFFICES ASSUME r.pc = "cleanup", NEW x \in Subjects, x[1] # s, e.ext[x] # None,
                      e.ext[x].id \in r.owned
               PROVE  FALSE
    OBVIOUS
  <2>1. e.ext[x].id \in q.owned /\ e.ext[x].id # None /\ q.pc = "cleanup"
    BY MappingAssumption DEF Lessens, Lists
  <2>2. d.ext[x] # None /\ e.ext[x].id = d.ext[x].id
    BY <2>1 DEF SameReferences
  <2> QED
    BY <2>1, <2>2 DEF Uncrossed
<1>2. r.pc = "disable" =>
        \A item \in r.work, x \in Subjects : ActiveUser(e, x) => e.umap[x].acc # item[1]
  BY DEF Uncrossed, ActiveUser, Fades
<1> QED
  BY <1>1, <1>2 DEF Uncrossed

\* A run that no step of another actor disturbs.
LEMMA RowStays ==
  ASSUME NEW s, NEW q, RunTyped(q), NEW r, NEW d, NEW e, NEW ren, NEW ren2,
         RowSound(s, q, d, ren), Lessens(q, r), RowFollows(q, d, e, ren, ren2),
         UseGrows(d, e),
         ~r.crossed => SameReferences(d, e) /\ Fades(d, e)
  PROVE  RowSound(s, r, e, ren2)
<1>1. ListCurrent(r, e, ren2)
  BY ListStays DEF RowSound
<1>2. r.owned \subseteq UsedAccounts(e) /\ r.groups \subseteq UsedGroups(e)
  BY DEF RowSound, Lessens, UseGrows
<1>3. ASSUME ~r.crossed PROVE Uncrossed(s, r, e)
  <2>1. CASE r.pc \in {"cleanup", "disable"}
    <3>1. ~q.crossed /\ r.pc = q.pc /\ r.work \subseteq q.work
      BY <1>3, <2>1 DEF Lessens, Lists
    <3>2. Uncrossed(s, q, d) /\ q.owned \subseteq Ids
      BY <3>1 DEF RowSound, RunTyped, RunRow
    <3> QED
      BY <1>3, <3>1, <3>2, UncrossedStays
  <2>2. CASE r.pc \notin {"cleanup", "disable"}
    BY <2>2 DEF Uncrossed
  <2> QED
    BY <2>1, <2>2
<1> QED
  BY <1>1, <1>2, <1>3 DEF RowSound

LEMMA SameRowsFollow ==
  ASSUME NEW d, NEW e, SameRows(d, e), Fades(d, e), NEW q, RunTyped(q), NEW ren
  PROVE  /\ RowFollows(q, d, e, ren, ren) /\ SameReferences(d, e) /\ UseGrows(d, e)
<1>1. \A i \in Ids : UserFollows(i, d, e, ren, ren) /\ GroupFollows(i, d, e, ren, ren)
  BY DEF SameRows, UserFollows, GroupFollows
<1>2. \A item \in q.work :
        /\ q.pc = "users" => item[1] \in Ids
        /\ q.pc = "groups" => item[1] \in Ids
        /\ q.pc = "members" => item[1][1] \in Ids
  BY DEF RunTyped, UserItem, GroupItem, MemberItem
<1>3. RowFollows(q, d, e, ren, ren)
  BY <1>1, <1>2 DEF RowFollows
<1> QED
  BY <1>3 DEF SameRows, SameReferences, UseGrows, UsedAccounts, UsedGroups

LEMMA RowsStayTables ==
  ASSUME NEW d \in Tables
  PROVE  SameRows(d, d) /\ Fades(d, d) /\ Grows(d, d)
  BY DEF SameRows, Fades, Grows
------------------------------------------------------------------------------
(***************************************************************************)
(* The rows that the steps of a run write.                                 *)
(***************************************************************************)
LEMMA IdleTyped == RunTyped(Idle)
  BY DEF RunTyped, RunRow, Idle, Phases

LEMMA IdleLessens ==
  ASSUME NEW q
  PROVE  Lessens(q, Idle)
  BY DEF Lessens, Lists, Idle

LEMMA SelfLessens ==
  ASSUME NEW q
  PROVE  Lessens(q, q)
  BY DEF Lessens

LEMMA TurnTyped ==
  ASSUME RunsTyped, NEW s \in Sources, NEW r, RunTyped(r), run' = [run EXCEPT ![s] = r]
  PROVE  /\ RunsTyped' /\ run'[s] = r
         /\ \A t \in Sources : t # s => run'[t] = run[t]
<1>1. r \in RunRow
  BY DEF RunTyped
<1>2. run' \in [Sources -> RunRow] /\ run'[s] = r /\ \A t \in Sources : t # s => run'[t] = run[t]
  BY <1>1 DEF RunsTyped
<1>3. \A t \in Sources : RunTyped(run'[t])
  BY <1>2 DEF RunsTyped
<1> QED
  BY <1>2, <1>3 DEF RunsTyped, RunTyped

\* EndRun and the failures that end a run.
LEMMA EndTyped ==
  ASSUME RunsTyped, NEW s \in Sources, run' = [run EXCEPT ![s] = Idle]
  PROVE  RunsTyped' /\ \A t \in Sources : Lessens(run[t], run'[t])
  BY IdleTyped, TurnTyped, IdleLessens, SelfLessens

\* A row with another phase and list.
WithList(q, pc, work) == [q EXCEPT !.pc = pc, !.work = work]

LEMMA WithListRow ==
  ASSUME NEW q \in RunRow, NEW pc \in Phases,
         NEW work \in SUBSET (UserItem \cup GroupItem \cup MemberItem),
         NEW r, r = WithList(q, pc, work)
  PROVE  /\ r \in RunRow /\ r.pc = pc /\ r.work = work /\ r.policy = q.policy /\ r.snap = q.snap
         /\ r.call = q.call /\ r.failed = q.failed /\ r.owned = q.owned
         /\ r.groups = q.groups /\ r.crossed = q.crossed
  BY DEF RunRow, WithList

LEMMA GotoTyped ==
  ASSUME RunsTyped, NEW s \in Sources, NEW pc \in Phases,
         NEW work \in SUBSET (UserItem \cup GroupItem \cup MemberItem),
         run' = [run EXCEPT ![s].pc = pc, ![s].work = work], run[s].call = None,
         pc # "map",
         pc = "groups" => work \subseteq GroupItem,
         pc \in {"users", "disable", "cleanup"} => work \subseteq UserItem,
         pc = "members" => work \subseteq MemberItem
  PROVE  /\ RunsTyped' /\ run'[s] = WithList(run[s], pc, work)
         /\ \A t \in Sources : t # s => run'[t] = run[t]
<1> DEFINE r == WithList(run[s], pc, work)
<1>1. run[s] \in RunRow
  BY DEF RunsTyped
<1>2. run' = [run EXCEPT ![s] = r]
  BY <1>1 DEF RunsTyped, WithList
<1>3. r \in RunRow /\ r.pc = pc /\ r.work = work /\ r.call = None
  BY <1>1, WithListRow
<1> HIDE DEF r
<1>4. RunTyped(r)
  BY <1>3 DEF RunTyped
<1>5. /\ RunsTyped' /\ run'[s] = r
      /\ \A t \in Sources : t # s => run'[t] = run[t]
  BY <1>2, <1>4, TurnTyped
<1> QED
  BY <1>5 DEF r

\* Finished: an item less; for a list that no call is out for.
LEMMA FinishedTyped ==
  ASSUME RunsTyped, NEW s \in Sources, NEW item, run' = Finished(s, item),
         run[s].pc # "users"
  PROVE  RunsTyped' /\ \A t \in Sources : Lessens(run[t], run'[t])
<1> DEFINE q == run[s]
           w == q.work \ {item}
           r == WithList(q, q.pc, w)
<1>1. RunTyped(q) /\ q \in RunRow
  BY DEF RunsTyped
<1>2. run' = [run EXCEPT ![s] = r]
  BY <1>1 DEF RunsTyped, WithList, Finished, RunRow
<1>3. q.pc \in Phases /\ w \in SUBSET (UserItem \cup GroupItem \cup MemberItem)
  BY <1>1 DEF RunRow
<1>4. /\ r \in RunRow /\ r.pc = q.pc /\ r.work = w /\ r.call = q.call /\ r.snap = q.snap
      /\ r.owned = q.owned /\ r.groups = q.groups /\ r.crossed = q.crossed
  BY <1>1, <1>3, WithListRow
<1> HIDE DEF r
<1>5. RunTyped(r)
  BY <1>1, <1>4 DEF RunTyped
<1>6. Lessens(q, r)
  BY <1>4 DEF Lessens
<1>7. /\ RunsTyped' /\ run'[s] = r
      /\ \A t \in Sources : t # s => run'[t] = run[t]
  BY <1>2, <1>5, TurnTyped
<1> QED
  BY <1>6, <1>7, SelfLessens
------------------------------------------------------------------------------
(***************************************************************************)
(* The steps, by what they do to the tables.                               *)
(***************************************************************************)
\* What DSM has is never taken away by a step.
DsmGrows ==
  /\ \A n \in AccountNames : dsmUser[n] # "absent" => dsmUser'[n] # "absent"
  /\ dsmGroup \subseteq dsmGroup' /\ renamed \subseteq renamed'

\* An account or group that is called created after a step is there, or was
\* called created before, under the same name.
LEMMA CreatedStays ==
  ASSUME CreatedExists, db \in Tables, DsmGrows,
         \A i \in Ids : (db'.acc[i] # None /\ IsUsed(db', i) /\ <<"user", i>> \notin renamed') =>
           \/ dsmUser'[db'.acc[i].name] # "absent"
           \/ db.acc[i] # None /\ IsUsed(db, i) /\ db'.acc[i].name = db.acc[i].name,
         \A g \in Ids : (db'.grp[g] # None /\ db'.grp[g].status = "created"
                           /\ <<"group", g>> \notin renamed') =>
           \/ db'.grp[g].name \in dsmGroup'
           \/ /\ db.grp[g] # None /\ db.grp[g].status = "created"
              /\ db'.grp[g].name = db.grp[g].name
  PROVE  CreatedExists'
<1>1. ASSUME NEW i \in Ids, db'.acc[i] # None, db'.acc[i].status \in {"created", "linked_existing"},
             <<"user", i>> \notin renamed'
      PROVE  dsmUser'[db'.acc[i].name] # "absent"
  <2>1. CASE db.acc[i] # None /\ IsUsed(db, i) /\ db'.acc[i].name = db.acc[i].name
    <3>1. db.acc[i].name \in AccountNames
      BY <2>1, Columns DEF Rows, Account
    <3>2. dsmUser[db.acc[i].name] # "absent"
      BY <1>1, <2>1 DEF CreatedExists, Status, IsUsed, DsmGrows
    <3> QED
      BY <2>1, <3>1, <3>2 DEF DsmGrows
  <2> QED
    BY <1>1, <2>1 DEF IsUsed
<1>2. ASSUME NEW g \in Ids, db'.grp[g] # None, db'.grp[g].status = "created",
             <<"group", g>> \notin renamed'
      PROVE  db'.grp[g].name \in dsmGroup'
  BY <1>2 DEF CreatedExists, DsmGrows
<1> QED
  BY <1>1, <1>2 DEF CreatedExists, Status

\* Every run is as it was, or has less to do, and what it holds still holds.
LEMMA RunsStay ==
  ASSUME SyncInvariant, UseGrows(db, db'),
         \A t \in Sources :
           /\ Lessens(run[t], run'[t])
           /\ RowFollows(run[t], db, db', renamed, renamed')
           /\ ~run'[t].crossed => SameReferences(db, db') /\ Fades(db, db')
  PROVE  RunsSound'
<1>1. ASSUME NEW t \in Sources
      PROVE  RowSound(t, run'[t], db', renamed')
  <2>1. RunTyped(run[t]) /\ RowSound(t, run[t], db, renamed)
    BY DEF SyncInvariant, RunsTyped, RunsSound
  <2> QED
    BY <2>1, RowStays
<1> QED
  BY <1>1 DEF RunsSound

\* A step that leaves the accounts and groups, or changes statuses alone.
LEMMA RowsStep ==
  ASSUME SyncInvariant, SameRows(db, db'), Fades(db, db'), UNCHANGED renamed,
         NEW t \in Sources, Lessens(run[t], run'[t])
  PROVE  RowSound(t, run'[t], db', renamed')
<1>1. RunTyped(run[t]) /\ RowSound(t, run[t], db, renamed)
  BY DEF SyncInvariant, RunsTyped, RunsSound
<1>2. /\ RowFollows(run[t], db, db', renamed, renamed')
      /\ SameReferences(db, db') /\ UseGrows(db, db')
  BY <1>1, SameRowsFollow
<1> QED
  BY <1>1, <1>2, RowStays

LEMMA StatusStep ==
  ASSUME SyncInvariant, World', RunsTyped', SameRows(db, db'), Fades(db, db'), DsmGrows,
         CreatedExists', UNCHANGED renamed, \A t \in Sources : Lessens(run[t], run'[t])
  PROVE  SyncInvariant'
<1>1. Sound(db')
  BY SameRowsSound DEF SyncInvariant
<1>2. RunsSound'
  BY RowsStep DEF RunsSound
<1> QED
  BY <1>1, <1>2 DEF SyncInvariant

\* ... and no status becomes created.
LEMMA RestingStep ==
  ASSUME SyncInvariant, World', RunsTyped', SameRows(db, db'), Fades(db, db'), DsmGrows,
         Grows(db, db'), UNCHANGED renamed, \A t \in Sources : Lessens(run[t], run'[t])
  PROVE  SyncInvariant'
<1>1. db \in Tables /\ CreatedExists
  BY DEF SyncInvariant, Sound
<1>2. CreatedExists'
  BY <1>1, CreatedStays DEF Grows
<1> QED
  BY <1>2, StatusStep

\* A step that leaves the tables alone.
LEMMA QuietStep ==
  ASSUME SyncInvariant, World', RunsTyped', UNCHANGED <<db, renamed>>, DsmGrows,
         \A t \in Sources : Lessens(run[t], run'[t])
  PROVE  SyncInvariant'
<1>1. db \in Tables
  BY DEF SyncInvariant, Sound
<1>2. SameRows(db, db') /\ Fades(db, db') /\ Grows(db, db')
  BY <1>1, RowsStayTables
<1> QED
  BY <1>2, RestingStep

\* A step of which the runs see nothing at all.
LEMMA RunsUntouched ==
  ASSUME SyncInvariant, UNCHANGED run
  PROVE  RunsTyped' /\ \A t \in Sources : Lessens(run[t], run'[t])
<1>1. RunsTyped'
  BY DEF SyncInvariant, RunsTyped
<1> QED
  BY <1>1, SelfLessens
------------------------------------------------------------------------------
(***************************************************************************)
(* The start of a run, and its reading.                                    *)
(***************************************************************************)
LEMMA StartRunKeeps ==
  ASSUME SyncInvariant, NEW s \in Sources, StartRun(s)
  PROVE  /\ RunsTyped' /\ \A t \in Sources : Lessens(run[t], run'[t])
         /\ SameRows(db, db') /\ Fades(db, db') /\ Grows(db, db')
         /\ record' \in [Sources -> {"none", "running", "failed", "success"}]
<1>1. PICK p \in Policies : run' = [run EXCEPT ![s] = [Idle EXCEPT !.pc = "fetch", !.policy = p]]
  BY DEF StartRun
<1> DEFINE r == [Idle EXCEPT !.pc = "fetch", !.policy = p]
<1>2. RunTyped(r)
  BY IdleTyped DEF RunTyped, RunRow, Idle, Phases
<1>3. Lessens(run[s], r)
  BY DEF Lessens, Lists, Idle
<1>4. RunsTyped
  BY DEF SyncInvariant
<1> HIDE DEF r
<1>5. RunsTyped' /\ \A t \in Sources : Lessens(run[t], run'[t])
  <2>1. run' = [run EXCEPT ![s] = r]
    BY <1>1 DEF r
  <2> QED
    BY <1>2, <1>3, <1>4, <2>1, TurnTyped, SelfLessens
<1>6. db \in Tables
  BY DEF SyncInvariant, Sound
<1>7. SameRows(db, db') /\ Fades(db, db') /\ Grows(db, db')
  <2>1. CASE db' = Age(db, s)
    <3>1. /\ SameRows(db, db') /\ Fades(db, db')
          /\ db'.acc = db.acc /\ db'.grp = db.grp
      BY <1>6, <2>1, AgeKeeps
    <3> QED
      BY <3>1 DEF Grows, SameRows, IsUsed
  <2>2. CASE db' = db
    BY <1>6, <2>2, RowsStayTables
  <2> QED
    BY <2>1, <2>2 DEF StartRun
<1> QED
  BY <1>5, <1>7 DEF StartRun, SyncInvariant, World

LEMMA ManualSyncKeeps ==
  ASSUME SyncInvariant, NEW s \in Sources, ManualSync(s)
  PROVE  SyncInvariant'
<1>1. /\ RunsTyped' /\ \A t \in Sources : Lessens(run[t], run'[t])
      /\ SameRows(db, db') /\ Fades(db, db') /\ Grows(db, db')
      /\ record' \in [Sources -> {"none", "running", "failed", "success"}]
  BY StartRunKeeps DEF ManualSync
<1>2. World' /\ DsmGrows /\ UNCHANGED renamed
  BY <1>1 DEF ManualSync, SyncInvariant, World, DsmGrows
<1> QED
  BY <1>1, <1>2, RestingStep

LEMMA ScheduledSyncKeeps ==
  ASSUME SyncInvariant, NEW s \in Sources, ScheduledSync(s)
  PROVE  SyncInvariant'
<1>1. DsmGrows /\ UNCHANGED renamed
  BY DEF ScheduledSync, DsmGrows
<1>2. CASE StartRun(s)
  <2>1. /\ RunsTyped' /\ \A t \in Sources : Lessens(run[t], run'[t])
        /\ SameRows(db, db') /\ Fades(db, db') /\ Grows(db, db')
        /\ record' \in [Sources -> {"none", "running", "failed", "success"}]
    BY <1>2, StartRunKeeps
  <2>2. World'
    BY <2>1 DEF ScheduledSync, SyncInvariant, World
  <2> QED
    BY <1>1, <2>1, <2>2, RestingStep
<1>3. CASE UNCHANGED <<run, db, record>>
  <2>1. World'
    BY <1>3 DEF ScheduledSync, SyncInvariant, World
  <2>2. RunsTyped' /\ \A t \in Sources : Lessens(run[t], run'[t])
    BY <1>3, RunsUntouched
  <2> QED
    BY <1>1, <1>3, <2>1, <2>2, QuietStep
<1> QED
  BY <1>2, <1>3 DEF ScheduledSync

\* Steps beside the runs: an interval, the directories, a source switched.
LEMMA BesideKeeps ==
  ASSUME SyncInvariant, NEW s \in Sources,
         IntervalPasses(s) \/ DirectoryChanges(s) \/ SwitchSource(s)
  PROVE  SyncInvariant'
<1>1. UNCHANGED <<db, run, renamed, dsmUser, dsmGroup, record, banned>>
  BY DEF IntervalPasses, DirectoryChanges, SwitchSource
<1>2. World'
  <2>1. CASE IntervalPasses(s)
    BY <2>1 DEF IntervalPasses, SyncInvariant, World
  <2>2. CASE DirectoryChanges(s)
    BY <2>2 DEF DirectoryChanges, SyncInvariant, World
  <2>3. CASE SwitchSource(s)
    BY <2>3 DEF SwitchSource, SyncInvariant, World
  <2> QED
    BY <2>1, <2>2, <2>3
<1>3. RunsTyped' /\ \A t \in Sources : Lessens(run[t], run'[t])
  BY <1>1, RunsUntouched
<1>4. DsmGrows
  BY <1>1 DEF DsmGrows
<1> QED
  BY <1>1, <1>2, <1>3, <1>4, QuietStep

LEMMA RestartKeeps ==
  ASSUME SyncInvariant, Restart
  PROVE  SyncInvariant'
<1>1. World' /\ DsmGrows /\ UNCHANGED <<db, renamed>>
  BY DEF Restart, SyncInvariant, World, DsmGrows
<1>2. run' = [s \in Sources |-> Idle]
  BY DEF Restart
<1>3. RunsTyped'
  BY <1>2, IdleTyped DEF RunsTyped, RunTyped
<1>4. \A t \in Sources : Lessens(run[t], run'[t])
  BY <1>2, IdleLessens
<1> QED
  BY <1>1, <1>3, <1>4, QuietStep

\* A run that ends, in success or in failure, and writes nothing more.
LEMMA EndingKeeps ==
  ASSUME SyncInvariant, NEW s \in Sources, NEW status \in {"none", "running", "failed", "success"},
         EndRun(s, status), UNCHANGED <<dir, src, db, dsmUser, dsmGroup, due, banned, renamed>>
  PROVE  SyncInvariant'
<1>1. World' /\ DsmGrows
  BY DEF EndRun, SyncInvariant, World, DsmGrows
<1>2. RunsTyped' /\ \A t \in Sources : Lessens(run[t], run'[t])
  BY EndTyped DEF EndRun, SyncInvariant
<1> QED
  BY <1>1, <1>2, QuietStep

LEMMA RunAbortsKeeps ==
  ASSUME SyncInvariant, NEW s \in Sources, RunAborts(s)
  PROVE  SyncInvariant'
<1>1. EndRun(s, "failed") \/ EndRun(s, "running")
  BY DEF RunAborts
<1>2. UNCHANGED <<dir, src, db, dsmUser, dsmGroup, due, banned, renamed>>
  BY DEF RunAborts
<1> QED
  BY <1>1, <1>2, EndingKeeps

LEMMA DisableFailsKeeps ==
  ASSUME SyncInvariant, NEW s \in Sources, DisableFails(s)
  PROVE  SyncInvariant'
<1>1. record[s] \in {"none", "running", "failed", "success"}
  BY DEF SyncInvariant, World
<1>2. EndRun(s, "failed") \/ EndRun(s, record[s])
  BY DEF DisableFails
<1>3. UNCHANGED <<dir, src, db, dsmUser, dsmGroup, due, banned, renamed>>
  BY DEF DisableFails
<1> QED
  BY <1>1, <1>2, <1>3, EndingKeeps

LEMMA FinishRunKeeps ==
  ASSUME SyncInvariant, NEW s \in Sources, FinishRun(s)
  PROVE  SyncInvariant'
<1>1. EndRun(s, "failed") \/ EndRun(s, "success")
  BY DEF FinishRun
<1>2. UNCHANGED <<dir, src, db, dsmUser, dsmGroup, due, banned, renamed>>
  BY DEF FinishRun
<1> QED
  BY <1>1, <1>2, EndingKeeps

LEMMA NothingToldTyped == NothingTold \in MemberLists
  BY DEF NothingTold, MemberLists

\* What a directory lists in one moment is a snapshot.
LEMMA SnapshotsTyped ==
  ASSUME SyncInvariant, NEW s \in Sources, NEW snap \in Snapshots(s)
  PROVE  snap \in Snapshot
<1>1. dir[s] \in Directories
  BY DEF SyncInvariant, World
<1>2. dir[s].users \in Listings /\ dir[s].units \in SUBSET Units
  BY <1>1, SyncAssumption
<1> DEFINE X == DOMAIN dir[s].users
<1>3. X \subseteq Subjects
  BY <1>2 DEF Listings
<1>4. Cardinality(X) \in Nat
  BY <1>3, MappingAssumption, FS_Subset, FS_CardinalityType
<1>5. PICK o \in SetToSeqs(X) :
         snap = [users |-> dir[s].users, units |-> dir[s].units, order |-> o, told |-> NothingTold]
  BY DEF Snapshots
<1> HIDE DEF X
<1>6. o \in [1 .. Cardinality(X) -> X]
  BY <1>5 DEF SetToSeqs
<1>7. o \in Seq(Subjects)
  BY <1>3, <1>4, <1>6
<1> QED
  BY <1>2, <1>5, <1>7, NothingToldTyped DEF Snapshot

\* Whatever was read, and in however many calls.
LEMMA ReadSnapshotKeeps ==
  ASSUME SyncInvariant, NEW s \in Sources, NEW snap \in Snapshot, ReadSnapshot(s, snap)
  PROVE  SyncInvariant'
<1> DEFINE q == run[s]
           r == [q EXCEPT !.pc = "map", !.snap = snap]
<1>1. RunsTyped /\ RunTyped(q) /\ q \in RunRow /\ q.pc = "fetch"
  BY DEF SyncInvariant, RunsTyped, ReadSnapshot
<1>2. run' = [run EXCEPT ![s] = r]
  BY <1>1 DEF ReadSnapshot, RunsTyped
<1>3. snap # None
  BY SyncAssumption
<1>4. RunTyped(r)
  BY <1>1, <1>3 DEF RunTyped, RunRow, Phases
<1>5. Lessens(q, r)
  BY <1>1 DEF Lessens, Lists, RunRow
<1> HIDE DEF r
<1>6. RunsTyped' /\ \A t \in Sources : Lessens(run[t], run'[t])
  BY <1>1, <1>2, <1>4, <1>5, TurnTyped, SelfLessens
<1>7. World' /\ DsmGrows /\ UNCHANGED <<db, renamed>>
  BY DEF ReadSnapshot, SyncInvariant, World, DsmGrows
<1> QED
  BY <1>6, <1>7, QuietStep

LEMMA FetchFailsKeeps ==
  ASSUME SyncInvariant, NEW s \in Sources, FetchFails(s)
  PROVE  SyncInvariant'
<1>1. EndRun(s, "failed") /\ UNCHANGED <<dir, src, db, dsmUser, dsmGroup, due, banned, renamed>>
  BY DEF FetchFails
<1> QED
  BY <1>1, EndingKeeps

LEMMA ReadDirectoryKeeps ==
  ASSUME SyncInvariant, NEW s \in Sources, ReadDirectory(s)
  PROVE  SyncInvariant'
<1>1. PICK snap \in Snapshots(s) : IF ValidSnapshot(snap) THEN ReadSnapshot(s, snap) ELSE FetchFails(s)
  BY DEF ReadDirectory
<1> QED
  BY <1>1, SnapshotsTyped, ReadSnapshotKeeps, FetchFailsKeeps

\* Whatever the platform answers about a department, or if it does not.
LEMMA ListMembersKeeps ==
  ASSUME SyncInvariant, NEW s \in Sources, NEW there, ListMembers(s, there)
  PROVE  SyncInvariant'
<1> USE DEF ListMembers
<1>1. UNCHANGED <<dir, src, db, dsmUser, dsmGroup, due, banned, renamed>>
  OBVIOUS
<1>2. CASE EndRun(s, "failed")
  BY <1>1, <1>2, EndingKeeps
<1>3. ASSUME NEW d \in AskedUnits(db, run[s].snap), NEW list \in SetToSeqs(People(s, d)),
             run' = [run EXCEPT ![s].snap.told[d] = list], UNCHANGED record
      PROVE  SyncInvariant'
  <2> DEFINE q == run[s]
             snap == [q.snap EXCEPT !.told[d] = list]
             r == [q EXCEPT !.snap = snap]
  <2>1. RunsTyped /\ RunTyped(q) /\ q \in RunRow /\ q.pc = "map" /\ q.snap \in Snapshot
    BY DEF SyncInvariant, RunsTyped, RunTyped, RunRow
  <2>2. d \in Units
    BY <2>1 DEF AskedUnits, Snapshot
  <2>3. dir[s].users \in Listings
    BY SyncAssumption DEF SyncInvariant, World
  <2>4. list \in Seq(Subjects)
    <3>1. People(s, d) \in SUBSET Subjects
      BY <2>3 DEF People, Listings
    <3>2. Cardinality(People(s, d)) \in Nat
      BY <3>1, MappingAssumption, FS_Subset, FS_CardinalityType
    <3>3. list \in [1 .. Cardinality(People(s, d)) -> People(s, d)]
      BY DEF SetToSeqs
    <3> QED
      BY <3>1, <3>2, <3>3
  <2>5. snap \in Snapshot /\ snap # None
    <3>1. [q.snap.told EXCEPT ![d] = list] \in MemberLists
      BY <2>1, <2>2, <2>4 DEF Snapshot, MemberLists
    <3> QED
      BY <2>1, <3>1, SyncAssumption DEF Snapshot
  <2>6. run' = [run EXCEPT ![s] = r]
    BY <1>3, <2>1 DEF RunsTyped
  <2> HIDE DEF snap
  <2>7. RunTyped(r)
    BY <2>1, <2>5 DEF RunTyped, RunRow
  <2>8. Lessens(q, r)
    BY <2>1 DEF Lessens, RunRow
  <2> HIDE DEF r
  <2>9. RunsTyped' /\ \A t \in Sources : Lessens(run[t], run'[t])
    BY <2>1, <2>6, <2>7, <2>8, TurnTyped, SelfLessens
  <2>10. World' /\ DsmGrows /\ UNCHANGED <<db, renamed>>
    BY <1>3 DEF SyncInvariant, World, DsmGrows
  <2> QED
    BY <2>9, <2>10, QuietStep
<1> QED
  BY <1>2, <1>3
------------------------------------------------------------------------------
(***************************************************************************)
(* Writes of one row.                                                      *)
(***************************************************************************)
\* An account is written, and keeps its name.
LEMMA WriteAccount ==
  ASSUME NEW d \in Tables, NEW i \in Ids, d.acc[i] # None, NEW r \in Account,
         r.name = d.acc[i].name, NEW e, e = WithAcc(d, i, r)
  PROVE  /\ SameRows(d, e) /\ Fades(d, e) /\ e.grp = d.grp
         /\ \A j \in Ids : e.acc[j] = IF j = i THEN r ELSE d.acc[j]
<1>1. /\ e \in Tables /\ \A j \in Ids : e.acc[j] = IF j = i THEN r ELSE d.acc[j]
      /\ e.ext = d.ext /\ e.unit = d.unit /\ e.grp = d.grp /\ e.umap = d.umap /\ e.spent = d.spent
  BY PutAcc
<1>2. r # None
  BY MappingAssumption
<1>3. SameRows(d, e)
  BY <1>1, <1>2 DEF SameRows
<1> QED
  BY <1>1, <1>3 DEF Fades

\* SetAccount, by id: nothing if the row is gone.
LEMMA SetAccountKeeps ==
  ASSUME db \in Tables, NEW i \in Ids, NEW status \in {"created", "linked_existing", "disabled"},
         NEW allow \in BOOLEAN, SetAccount(i, status, allow)
  PROVE  /\ SameRows(db, db') /\ Fades(db, db') /\ db'.grp = db.grp
         /\ \A j \in Ids : j # i => db'.acc[j] = db.acc[j]
         /\ db'.acc[i] # None => /\ db.acc[i] # None /\ db'.acc[i].name = db.acc[i].name
                                 /\ db'.acc[i].status = status
<1>1. CASE db.acc[i] = None
  <2>1. db' = db
    BY <1>1 DEF SetAccount
  <2> QED
    BY <1>1, <2>1, RowsStayTables
<1>2. CASE db.acc[i] # None
  <2> DEFINE r == [db.acc[i] EXCEPT !.status = status, !.allow = allow]
  <2>1. db.acc[i] \in Account
    BY <1>2, Columns DEF Rows
  <2>2. r \in Account /\ r.name = db.acc[i].name /\ r.status = status
    BY <2>1 DEF Account
  <2>3. db' = WithAcc(db, i, r)
    BY <1>2, <2>1 DEF SetAccount, WithAcc, Tables
  <2> HIDE DEF r
  <2> QED
    BY <1>2, <2>2, <2>3, WriteAccount
<1> QED
  BY <1>1, <1>2

\* A group is written, and keeps its name.
LEMMA WriteGroup ==
  ASSUME NEW d \in Tables, NEW g \in Ids, d.grp[g] # None, NEW r \in Group,
         r.name = d.grp[g].name, NEW e, e = WithGrp(d, g, r)
  PROVE  /\ SameRows(d, e) /\ Fades(d, e) /\ e.acc = d.acc /\ e.mem = d.mem
         /\ \A h \in Ids : e.grp[h] = IF h = g THEN r ELSE d.grp[h]
<1>1. /\ e \in Tables /\ \A h \in Ids : e.grp[h] = IF h = g THEN r ELSE d.grp[h]
      /\ e.ext = d.ext /\ e.unit = d.unit /\ e.acc = d.acc /\ e.mem = d.mem
      /\ e.umap = d.umap /\ e.spent = d.spent
  BY PutGrp
<1>2. r # None
  BY MappingAssumption
<1>3. SameRows(d, e)
  BY <1>1, <1>2 DEF SameRows
<1> QED
  BY <1>1, <1>3 DEF Fades

LEMMA SetGroupKeeps ==
  ASSUME db \in Tables, NEW g \in Ids, NEW status \in {"created", "failed"}, SetGroup(g, status)
  PROVE  /\ SameRows(db, db') /\ Fades(db, db') /\ db'.acc = db.acc
         /\ \A h \in Ids : h # g => db'.grp[h] = db.grp[h]
         /\ db'.grp[g] # None => /\ db.grp[g] # None /\ db'.grp[g].name = db.grp[g].name
                                 /\ db'.grp[g].status = status
<1>1. CASE db.grp[g] = None
  <2>1. db' = db
    BY <1>1 DEF SetGroup
  <2> QED
    BY <1>1, <2>1, RowsStayTables
<1>2. CASE db.grp[g] # None
  <2> DEFINE r == [db.grp[g] EXCEPT !.status = status]
  <2>1. db.grp[g] \in Group
    BY <1>2, Columns DEF Rows
  <2>2. r \in Group /\ r.name = db.grp[g].name /\ r.status = status
    BY <2>1 DEF Group
  <2>3. db' = WithGrp(db, g, r)
    BY <1>2, <2>1 DEF SetGroup, WithGrp, Tables
  <2> HIDE DEF r
  <2> QED
    BY <1>2, <2>2, <2>3, WriteGroup
<1> QED
  BY <1>1, <1>2

\* A member is written.
WithMem(d, m, r) == [d EXCEPT !.mem[m] = r]

LEMMA WriteMember ==
  ASSUME NEW d \in Tables, NEW m \in Ids \X Ids, NEW r \in Rows(Member), NEW e, e = WithMem(d, m, r)
  PROVE  SameRows(d, e) /\ Fades(d, e) /\ e.acc = d.acc /\ e.grp = d.grp
<1>1. d.mem \in [Ids \X Ids -> Rows(Member)]
  BY Columns
<1>2. [d.mem EXCEPT ![m] = r] \in [Ids \X Ids -> Rows(Member)]
  BY <1>1
<1>3. /\ e \in Tables
      /\ e.ext = d.ext /\ e.unit = d.unit /\ e.acc = d.acc /\ e.grp = d.grp
      /\ e.umap = d.umap /\ e.spent = d.spent
  BY <1>2 DEF WithMem, Tables
<1>4. SameRows(d, e)
  BY <1>3 DEF SameRows
<1> QED
  BY <1>3, <1>4 DEF Fades

\* Every run but s is as it was; that s is well is shown with its step.
LEMMA NewListStep ==
  ASSUME SyncInvariant, World', RunsTyped', SameRows(db, db'), Fades(db, db'), Grows(db, db'),
         DsmGrows, UNCHANGED renamed, NEW s \in Sources,
         \A t \in Sources : t # s => run'[t] = run[t],
         RowSound(s, run'[s], db', renamed')
  PROVE  SyncInvariant'
<1>1. db \in Tables /\ CreatedExists /\ Sound(db')
  BY SameRowsSound DEF SyncInvariant, Sound
<1>2. CreatedExists'
  BY <1>1, CreatedStays DEF Grows
<1>3. \A t \in Sources : t # s => RowSound(t, run'[t], db', renamed')
  BY RowsStep, SelfLessens
<1> QED
  BY <1>1, <1>2, <1>3 DEF SyncInvariant, RunsSound
------------------------------------------------------------------------------
(***************************************************************************)
(* Groups.                                                                 *)
(***************************************************************************)
LEMMA GroupListTyped ==
  ASSUME NEW d \in Tables, NEW s, NEW ren
  PROVE  /\ GroupList(d, s) \in SUBSET GroupItem
         /\ \A item \in GroupList(d, s) : GroupCurrent(item[1], item[2], d, ren)
<1>1. ASSUME NEW item \in GroupList(d, s)
      PROVE  item \in GroupItem /\ GroupCurrent(item[1], item[2], d, ren)
  <2>1. PICK h \in Ids : d.grp[h] # None /\ item = <<h, d.grp[h].name>>
    BY <1>1 DEF GroupList
  <2>2. d.grp[h].name \in Names
    BY <2>1, Columns DEF Rows, Group
  <2> QED
    BY <2>1, <2>2 DEF GroupItem, GroupCurrent
<1> QED
  BY <1>1

\* A list of groups that was just read is sound.
LEMMA RowGrouped ==
  ASSUME NEW s, NEW q, NEW r, NEW d, NEW e, NEW ren, RowSound(s, q, d, ren), UseGrows(d, e),
         r.pc = "groups", r.owned = q.owned, r.groups = q.groups,
         \A item \in r.work : GroupCurrent(item[1], item[2], e, ren)
  PROVE  RowSound(s, r, e, ren)
  BY DEF RowSound, ListCurrent, UseGrows, Uncrossed

LEMMA RetireAndListKeeps ==
  ASSUME SyncInvariant, NEW s \in Sources, RetireAndList(s)
  PROVE  SyncInvariant'
<1> DEFINE q == run[s]
<1>1. /\ RunsTyped /\ RunTyped(q) /\ q \in RunRow /\ q.pc = "retire" /\ db \in Tables
      /\ RowSound(s, q, db, renamed)
  BY DEF SyncInvariant, RunsTyped, Sound, RetireAndList, RunsSound
<1>2. SameRows(db, db') /\ Fades(db, db') /\ db'.acc = db.acc /\ db'.grp = db.grp
  <2>1. db' = RetireMissing(db, s, UserOnly(q.snap)) \/ db' = db
    BY DEF RetireAndList, Retired2
  <2> QED
    BY <1>1, <2>1, RetireMissingKeeps, RowsStayTables
<1>3. db' \in Tables /\ Grows(db, db')
  BY <1>2 DEF SameRows, Grows, IsUsed
<1>4. CASE EndRun(s, "failed")
  <2>1. World' /\ DsmGrows /\ UNCHANGED renamed
    BY <1>4 DEF EndRun, RetireAndList, SyncInvariant, World, DsmGrows
  <2>2. RunsTyped' /\ \A t \in Sources : Lessens(run[t], run'[t])
    BY <1>1, <1>4, EndTyped DEF EndRun
  <2> QED
    BY <1>2, <1>3, <2>1, <2>2, RestingStep
<1>5. CASE Goto(s, "groups", GroupList(db', s))
  <2> DEFINE w == GroupList(db', s)
  <2>1. World' /\ DsmGrows /\ UNCHANGED renamed
    BY <1>5 DEF Goto, RetireAndList, SyncInvariant, World, DsmGrows
  <2>2. w \in SUBSET GroupItem /\ \A item \in w : GroupCurrent(item[1], item[2], db', renamed')
    BY <1>3, GroupListTyped
  <2>3. w \in SUBSET (UserItem \cup GroupItem \cup MemberItem)
    BY <2>2
  <2>4. run' = [run EXCEPT ![s].pc = "groups", ![s].work = w]
    BY <1>5 DEF Goto
  <2>5. q.call = None /\ "groups" \in Phases
    BY <1>1 DEF RunTyped, Phases
  <2> HIDE DEF w
  <2>6. /\ RunsTyped' /\ run'[s] = WithList(q, "groups", w)
        /\ \A t \in Sources : t # s => run'[t] = run[t]
    BY <1>1, <2>2, <2>3, <2>4, <2>5, GotoTyped
  <2>7. /\ run'[s].pc = "groups" /\ run'[s].work = w
        /\ run'[s].owned = q.owned /\ run'[s].groups = q.groups
    BY <1>1, <2>3, <2>5, <2>6, WithListRow
  <2>8. UseGrows(db, db')
    BY <1>1, <1>2, SameRowsFollow
  <2>9. RowSound(s, run'[s], db', renamed')
    BY <1>1, <2>1, <2>2, <2>7, <2>8, RowGrouped
  <2> QED
    BY <1>2, <1>3, <2>1, <2>6, <2>9, NewListStep
<1> QED
  BY <1>4, <1>5 DEF RetireAndList

LEMMA ProvisionGroupKeeps ==
  ASSUME SyncInvariant, NEW s \in Sources, ProvisionGroup(s)
  PROVE  SyncInvariant'
<1>1. PICK item \in run[s].work :
        /\ run[s].pc = "groups" /\ run' = Finished(s, item)
        /\ \/ /\ dsmGroup' = dsmGroup \cup {item[2]}
              /\ SetGroup(item[1], "created")
           \/ UNCHANGED <<dsmGroup, db>>
        /\ UNCHANGED <<dir, src, dsmUser, due, record, banned, renamed, left>>
  BY DEF ProvisionGroup
<1>2. RunsTyped /\ RunTyped(run[s]) /\ db \in Tables /\ RowSound(s, run[s], db, renamed)
  BY DEF SyncInvariant, RunsTyped, Sound, RunsSound
<1>3. item[1] \in Ids /\ item[2] \in Names
  BY <1>1, <1>2 DEF RunTyped, GroupItem
<1>4. RunsTyped' /\ \A t \in Sources : Lessens(run[t], run'[t])
  BY <1>1, <1>2, FinishedTyped
<1>5. World' /\ DsmGrows /\ UNCHANGED renamed
  BY <1>1, <1>3 DEF SyncInvariant, World, DsmGrows
<1>6. CASE UNCHANGED db
  BY <1>4, <1>5, <1>6, QuietStep
<1>7. CASE dsmGroup' = dsmGroup \cup {item[2]} /\ SetGroup(item[1], "created")
  <2>1. /\ SameRows(db, db') /\ Fades(db, db') /\ db'.acc = db.acc
        /\ \A h \in Ids : h # item[1] => db'.grp[h] = db.grp[h]
        /\ db'.grp[item[1]] # None =>
             db.grp[item[1]] # None /\ db'.grp[item[1]].name = db.grp[item[1]].name
    BY <1>2, <1>3, <1>7, SetGroupKeeps
  <2>2. GroupCurrent(item[1], item[2], db, renamed)
    BY <1>1, <1>2 DEF RowSound, ListCurrent
  <2>3. <<"group", item[1]>> \in db.spent => db.grp[item[1]] = None
    BY <1>3 DEF SyncInvariant, Sound, SpentGone
  <2>4. db'.grp[item[1]] # None /\ <<"group", item[1]>> \notin renamed =>
          db'.grp[item[1]].name \in dsmGroup'
    BY <1>7, <2>1, <2>2, <2>3 DEF GroupCurrent
  <2>5. CreatedExists'
    BY <1>2, <1>5, <2>1, <2>4, CreatedStays DEF SyncInvariant, IsUsed
  <2> QED
    BY <1>4, <1>5, <2>1, <2>5, StatusStep
<1> QED
  BY <1>1, <1>6, <1>7

LEMMA GroupFailsKeeps ==
  ASSUME SyncInvariant, NEW s \in Sources, GroupFails(s)
  PROVE  SyncInvariant'
<1>1. PICK item \in run[s].work :
        /\ run[s].pc = "groups" /\ SetGroup(item[1], "failed") /\ EndRun(s, "failed")
        /\ UNCHANGED <<dir, src, dsmUser, dsmGroup, due, banned, renamed>>
  BY DEF GroupFails
<1>2. RunsTyped /\ RunTyped(run[s]) /\ db \in Tables
  BY DEF SyncInvariant, RunsTyped, Sound
<1>3. item[1] \in Ids
  BY <1>1, <1>2 DEF RunTyped, GroupItem
<1>4. RunsTyped' /\ \A t \in Sources : Lessens(run[t], run'[t])
  BY <1>1, <1>2, EndTyped DEF EndRun
<1>5. World' /\ DsmGrows /\ UNCHANGED renamed
  BY <1>1 DEF EndRun, SyncInvariant, World, DsmGrows
<1>6. /\ SameRows(db, db') /\ Fades(db, db') /\ db'.acc = db.acc
      /\ \A h \in Ids : h # item[1] => db'.grp[h] = db.grp[h]
      /\ db'.grp[item[1]] # None => db'.grp[item[1]].status = "failed"
  BY <1>1, <1>2, <1>3, SetGroupKeeps
<1>7. Grows(db, db')
  BY <1>6 DEF Grows, SameRows, IsUsed
<1> QED
  BY <1>4, <1>5, <1>6, <1>7, RestingStep
------------------------------------------------------------------------------
(***************************************************************************)
(* Users.                                                                  *)
(***************************************************************************)
LEMMA UserListTyped ==
  ASSUME db \in Tables, NEW s, NEW ren
  PROVE  /\ UserList(s) \in SUBSET UserItem
         /\ \A item \in UserList(s) : UserCurrent(item[1], item[2], db, ren)
<1>1. ASSUME NEW item \in UserList(s)
      PROVE  item \in UserItem /\ UserCurrent(item[1], item[2], db, ren)
  <2>1. PICK j \in Ids : db.acc[j] # None /\ item = <<j, db.acc[j].name>>
    BY <1>1 DEF UserList
  <2>2. db.acc[j].name \in AccountNames
    BY <2>1, Columns DEF Rows, Account
  <2> QED
    BY <2>1, <2>2 DEF UserItem, UserCurrent
<1> QED
  BY <1>1

\* A step of s to a new list, the tables being as they were.
LEMMA ListBegins ==
  ASSUME SyncInvariant, NEW s \in Sources, NEW pc \in Phases, NEW work, Goto(s, pc, work),
         UNCHANGED <<dir, src, db, dsmUser, dsmGroup, due, banned, renamed>>,
         run[s].call = None,
         \/ pc = "users" /\ work \subseteq UserItem
            /\ \A item \in work : UserCurrent(item[1], item[2], db, renamed)
         \/ pc = "members" /\ work \subseteq MemberItem
            /\ \A item \in work : GroupCurrent(item[1][1], item[2], db, renamed)
  PROVE  SyncInvariant'
<1>1. /\ RunsTyped /\ run[s] \in RunRow /\ db \in Tables
      /\ RowSound(s, run[s], db, renamed)
  BY DEF SyncInvariant, RunsTyped, Sound, RunsSound
<1>2. SameRows(db, db') /\ Fades(db, db') /\ Grows(db, db')
  BY <1>1, RowsStayTables
<1>3. World' /\ DsmGrows
  BY DEF Goto, SyncInvariant, World, DsmGrows
<1>4. run' = [run EXCEPT ![s].pc = pc, ![s].work = work]
  BY DEF Goto
<1>5. work \in SUBSET (UserItem \cup GroupItem \cup MemberItem)
  OBVIOUS
<1>6. /\ RunsTyped' /\ run'[s] = WithList(run[s], pc, work)
      /\ \A t \in Sources : t # s => run'[t] = run[t]
  BY <1>1, <1>4, <1>5, GotoTyped
<1>7. /\ run'[s].pc = pc /\ run'[s].work = work
      /\ run'[s].owned = run[s].owned /\ run'[s].groups = run[s].groups
  BY <1>1, <1>5, <1>6, WithListRow
<1>8. RowSound(s, run'[s], db', renamed')
  BY <1>1, <1>7 DEF RowSound, ListCurrent, Uncrossed
<1> QED
  BY <1>2, <1>3, <1>6, <1>8, NewListStep

LEMMA GroupsDoneKeeps ==
  ASSUME SyncInvariant, NEW s \in Sources, GroupsDone(s)
  PROVE  SyncInvariant'
<1>1. run[s].call = None /\ db \in Tables
  BY DEF SyncInvariant, RunsTyped, RunTyped, Sound, GroupsDone
<1>2. "users" \in Phases
  BY DEF Phases
<1>3. /\ UserList(s) \subseteq UserItem
      /\ \A item \in UserList(s) : UserCurrent(item[1], item[2], db, renamed)
  BY <1>1, UserListTyped
<1>4. /\ Goto(s, "users", UserList(s))
      /\ UNCHANGED <<dir, src, db, dsmUser, dsmGroup, due, banned, renamed>>
  BY DEF GroupsDone
<1> QED
  BY <1>1, <1>2, <1>3, <1>4, ListBegins

\* A row of a run with another call, list and verdict, still at its users.
WithCall(q, work, call, failed) == [q EXCEPT !.work = work, !.call = call, !.failed = failed]

LEMMA CallTyped ==
  ASSUME RunsTyped, NEW s \in Sources, run[s].pc = "users",
         NEW work \in SUBSET run[s].work, NEW call, call = None \/ call \in work,
         NEW failed \in BOOLEAN, run' = [run EXCEPT ![s] = WithCall(run[s], work, call, failed)]
  PROVE  RunsTyped' /\ \A t \in Sources : Lessens(run[t], run'[t])
<1> DEFINE q == run[s]
           r == WithCall(q, work, call, failed)
<1>1. RunTyped(q) /\ q \in RunRow
  BY DEF RunsTyped
<1>2. work \subseteq UserItem
  BY <1>1 DEF RunTyped
<1>3. r \in RunRow
  BY <1>1, <1>2 DEF RunRow, WithCall
<1>4. /\ r.pc = "users" /\ r.work = work /\ r.call = call
      /\ r.owned = q.owned /\ r.groups = q.groups /\ r.crossed = q.crossed
  BY <1>1 DEF RunRow, WithCall
<1> HIDE DEF r
<1>5. RunTyped(r)
  BY <1>2, <1>3, <1>4 DEF RunTyped
<1>6. Lessens(q, r)
  BY <1>4 DEF Lessens
<1>7. run' = [run EXCEPT ![s] = r]
  BY DEF r
<1>8. /\ RunsTyped' /\ run'[s] = r
      /\ \A t \in Sources : t # s => run'[t] = run[t]
  BY <1>5, <1>7, TurnTyped
<1> QED
  BY <1>6, <1>8, SelfLessens

LEMMA AuthorizeUserKeeps ==
  ASSUME SyncInvariant, NEW s \in Sources, AuthorizeUser(s)
  PROVE  SyncInvariant'
<1>1. PICK item \in run[s].work :
        /\ run[s].pc = "users" /\ run' = [run EXCEPT ![s].call = item]
        /\ UNCHANGED <<dir, src, db, dsmUser, dsmGroup, due, record, banned, renamed, left>>
  BY DEF AuthorizeUser
<1>2. RunsTyped /\ run[s] \in RunRow
  BY DEF SyncInvariant, RunsTyped
<1>3. run[s].failed \in BOOLEAN
  BY <1>2 DEF RunRow
<1>4. run' = [run EXCEPT ![s] = WithCall(run[s], run[s].work, item, run[s].failed)]
  BY <1>1, <1>2 DEF RunsTyped, WithCall, RunRow
<1>5. RunsTyped' /\ \A t \in Sources : Lessens(run[t], run'[t])
  BY <1>1, <1>2, <1>3, <1>4, CallTyped
<1>6. World' /\ DsmGrows
  BY <1>1 DEF SyncInvariant, World, DsmGrows
<1> QED
  BY <1>1, <1>5, <1>6, QuietStep

LEMMA ProvisionUserKeeps ==
  ASSUME SyncInvariant, NEW s \in Sources, ProvisionUser(s)
  PROVE  SyncInvariant'
<1> DEFINE q == run[s]
           item == q.call
           w == q.work \ {item}
           status == IF dsmUser[item[2]] = "absent" THEN "created" ELSE "linked_existing"
<1>1. /\ q.pc = "users" /\ item # None
      /\ dsmUser' = [dsmUser EXCEPT ![item[2]] = "enabled"]
      /\ SetAccount(item[1], status, TRUE)
      /\ run' = [Finished(s, item) EXCEPT ![s].call = None]
      /\ UNCHANGED <<dir, src, dsmGroup, due, record, banned, renamed, left>>
  BY DEF ProvisionUser
<1>2. /\ RunsTyped /\ RunTyped(q) /\ q \in RunRow /\ db \in Tables
      /\ RowSound(s, q, db, renamed)
  BY DEF SyncInvariant, RunsTyped, Sound, RunsSound
<1>3. item \in q.work /\ item[1] \in Ids /\ item[2] \in AccountNames
  BY <1>1, <1>2 DEF RunTyped, UserItem
<1>4. w \in SUBSET q.work /\ q.failed \in BOOLEAN
  BY <1>2 DEF RunRow
<1>5. run' = [run EXCEPT ![s] = WithCall(q, w, None, q.failed)]
  BY <1>1, <1>2 DEF RunsTyped, WithCall, RunRow, Finished
<1> HIDE DEF w
<1>6. RunsTyped' /\ \A t \in Sources : Lessens(run[t], run'[t])
  BY <1>1, <1>2, <1>4, <1>5, CallTyped
<1>7. World' /\ DsmGrows /\ UNCHANGED renamed
  BY <1>1, <1>3 DEF SyncInvariant, World, DsmGrows
<1>8. status \in {"created", "linked_existing", "disabled"}
  OBVIOUS
<1> HIDE DEF status
<1>9. /\ SameRows(db, db') /\ Fades(db, db') /\ db'.grp = db.grp
      /\ \A j \in Ids : j # item[1] => db'.acc[j] = db.acc[j]
      /\ db'.acc[item[1]] # None =>
           db.acc[item[1]] # None /\ db'.acc[item[1]].name = db.acc[item[1]].name
  BY <1>1, <1>2, <1>3, <1>8, SetAccountKeeps
<1>10. db'.acc[item[1]] # None /\ <<"user", item[1]>> \notin renamed =>
         dsmUser'[db'.acc[item[1]].name] # "absent"
  <2>1. UserCurrent(item[1], item[2], db, renamed)
    BY <1>1, <1>2, <1>3 DEF RowSound, ListCurrent
  <2>2. <<"user", item[1]>> \in db.spent => db.acc[item[1]] = None
    BY <1>3 DEF SyncInvariant, Sound, SpentGone
  <2>3. dsmUser'[item[2]] = "enabled"
    BY <1>1, <1>3 DEF SyncInvariant, World
  <2> QED
    BY <1>9, <2>1, <2>2, <2>3 DEF UserCurrent
<1>11. CreatedExists'
  BY <1>2, <1>7, <1>9, <1>10, CreatedStays DEF SyncInvariant, IsUsed
<1> QED
  BY <1>6, <1>7, <1>9, <1>11, StatusStep

LEMMA UserFailsKeeps ==
  ASSUME SyncInvariant, NEW s \in Sources, UserFails(s)
  PROVE  SyncInvariant'
<1>1. PICK item \in run[s].work :
        /\ run[s].pc = "users" /\ run[s].call \in {None, item}
        /\ db' = IF db.acc[item[1]] = None THEN db
                 ELSE [db EXCEPT !.acc[item[1]].status = "failed"]
        /\ \/ /\ run' = [Finished(s, item) EXCEPT ![s].call = None, ![s].failed = TRUE]
              /\ UNCHANGED record
           \/ EndRun(s, "failed")
        /\ UNCHANGED <<dir, src, dsmUser, dsmGroup, due, banned, renamed>>
  BY DEF UserFails
<1> DEFINE q == run[s]
           i == item[1]
           w == q.work \ {item}
<1>2. RunsTyped /\ RunTyped(q) /\ q \in RunRow /\ db \in Tables
  BY DEF SyncInvariant, RunsTyped, Sound
<1>3. i \in Ids
  BY <1>1, <1>2 DEF RunTyped, UserItem
<1>4. World' /\ DsmGrows /\ UNCHANGED renamed
  BY <1>1 DEF EndRun, SyncInvariant, World, DsmGrows
<1>5. RunsTyped' /\ \A t \in Sources : Lessens(run[t], run'[t])
  <2>1. CASE EndRun(s, "failed")
    BY <1>2, <2>1, EndTyped DEF EndRun
  <2>2. CASE run' = [Finished(s, item) EXCEPT ![s].call = None, ![s].failed = TRUE]
    <3>1. run' = [run EXCEPT ![s] = WithCall(q, w, None, TRUE)]
      BY <1>2, <2>2 DEF RunsTyped, WithCall, RunRow, Finished
    <3>2. w \in SUBSET q.work
      OBVIOUS
    <3> HIDE DEF w
    <3> QED
      BY <1>1, <1>2, <3>1, <3>2, CallTyped
  <2> QED
    BY <1>1, <2>1, <2>2
<1>6. SameRows(db, db') /\ Fades(db, db') /\ Grows(db, db')
  <2>1. CASE db.acc[i] = None
    BY <1>1, <1>2, <2>1, RowsStayTables
  <2>2. CASE db.acc[i] # None
    <3> DEFINE r == [db.acc[i] EXCEPT !.status = "failed"]
    <3>1. db.acc[i] \in Account
      BY <1>2, <1>3, <2>2, Columns DEF Rows
    <3>2. r \in Account /\ r.name = db.acc[i].name /\ r.status = "failed"
      BY <3>1 DEF Account
    <3>3. db' = WithAcc(db, i, r)
      BY <1>1, <1>2, <2>2, <3>1 DEF WithAcc, Tables
    <3> HIDE DEF r
    <3>4. /\ SameRows(db, db') /\ Fades(db, db') /\ db'.grp = db.grp
          /\ \A j \in Ids : db'.acc[j] = IF j = i THEN r ELSE db.acc[j]
      BY <1>2, <1>3, <2>2, <3>2, <3>3, WriteAccount
    <3> QED
      BY <3>2, <3>4 DEF Grows, SameRows, IsUsed
  <2> QED
    BY <2>1, <2>2
<1> QED
  BY <1>4, <1>5, <1>6, RestingStep
------------------------------------------------------------------------------
(***************************************************************************)
(* Members.                                                                *)
(***************************************************************************)
LEMMA UsersDoneKeeps ==
  ASSUME SyncInvariant, NEW s \in Sources, UsersDone(s)
  PROVE  SyncInvariant'
<1> DEFINE w == {<<m, db.grp[m[1]].name, db.acc[m[2]].name>> : m \in MemberList(s)}
<1>1. RunTyped(run[s]) /\ db \in Tables
  BY DEF SyncInvariant, RunsTyped, Sound
<1>2. run[s].call = None /\ "members" \in Phases
  BY <1>1 DEF RunTyped, UsersDone, Phases
<1>3. ASSUME NEW item \in w
      PROVE  item \in MemberItem /\ GroupCurrent(item[1][1], item[2], db, renamed)
  <2>1. PICK m \in MemberList(s) : item = <<m, db.grp[m[1]].name, db.acc[m[2]].name>>
    OBVIOUS
  <2>2. m \in Ids \X Ids /\ db.grp[m[1]] # None /\ db.acc[m[2]] # None
    BY <2>1 DEF MemberList
  <2>3. db.grp[m[1]].name \in Names /\ db.acc[m[2]].name \in AccountNames
    BY <1>1, <2>2, Columns DEF Rows, Group, Account
  <2> QED
    BY <2>1, <2>2, <2>3 DEF MemberItem, GroupCurrent
<1>4. w \subseteq MemberItem /\ \A item \in w : GroupCurrent(item[1][1], item[2], db, renamed)
  BY <1>3
<1>5. Goto(s, "members", w) /\ UNCHANGED <<dir, src, db, dsmUser, dsmGroup, due, banned, renamed>>
  BY DEF UsersDone
<1> HIDE DEF w
<1> QED
  BY <1>2, <1>4, <1>5, ListBegins

LEMMA AddMemberKeeps ==
  ASSUME SyncInvariant, NEW s \in Sources, AddMember(s)
  PROVE  SyncInvariant'
<1>1. PICK item \in run[s].work :
        /\ run[s].pc = "members"
        /\ dsmGroup' = dsmGroup \cup {item[2]}
        /\ db' = [db EXCEPT
             !.grp[item[1][1]] = IF @ = None THEN None ELSE [@ EXCEPT !.status = "created"],
             !.mem[item[1]] = IF @ = None THEN None ELSE [active |-> TRUE, status |-> "created"]]
        /\ run' = Finished(s, item)
        /\ UNCHANGED <<dir, src, dsmUser, due, record, banned, renamed, left>>
  BY DEF AddMember
<1> DEFINE m == item[1]
           g == item[1][1]
           M == IF db.mem[m] = None THEN None ELSE [active |-> TRUE, status |-> "created"]
           G == [db.grp[g] EXCEPT !.status = "created"]
           c == IF db.grp[g] = None THEN db ELSE WithGrp(db, g, G)
<1>2. RunsTyped /\ RunTyped(run[s]) /\ db \in Tables /\ RowSound(s, run[s], db, renamed)
  BY DEF SyncInvariant, RunsTyped, Sound, RunsSound
<1>3. m \in Ids \X Ids /\ g \in Ids /\ item[2] \in Names
  BY <1>1, <1>2 DEF RunTyped, MemberItem
<1>4. RunsTyped' /\ \A t \in Sources : Lessens(run[t], run'[t])
  BY <1>1, <1>2, FinishedTyped
<1>5. World' /\ DsmGrows /\ UNCHANGED renamed
  BY <1>1, <1>3 DEF SyncInvariant, World, DsmGrows
<1>6. M \in Rows(Member)
  BY DEF Rows, Member
<1>7. db' = WithMem(c, m, M)
  <2>1. CASE db.grp[g] = None
    <3>1. [db EXCEPT !.grp[g] = IF @ = None THEN None ELSE [@ EXCEPT !.status = "created"]] = db
      BY <1>2, <1>3, <2>1 DEF Tables
    <3> QED
      BY <1>1, <1>2, <2>1, <3>1 DEF WithMem, Tables
  <2>2. CASE db.grp[g] # None
    BY <1>1, <1>2, <2>2 DEF WithMem, WithGrp, Tables
  <2> QED
    BY <2>1, <2>2
<1>8. /\ SameRows(db, c) /\ Fades(db, c) /\ c.acc = db.acc
      /\ \A h \in Ids : h # g => c.grp[h] = db.grp[h]
      /\ c.grp[g] # None => db.grp[g] # None /\ c.grp[g].name = db.grp[g].name
  <2>1. CASE db.grp[g] = None
    BY <1>2, <2>1, RowsStayTables
  <2>2. CASE db.grp[g] # None
    <3>1. db.grp[g] \in Group
      BY <1>2, <1>3, <2>2, Columns DEF Rows
    <3>2. G \in Group /\ G.name = db.grp[g].name
      BY <3>1 DEF Group
    <3>3. c = WithGrp(db, g, G)
      BY <2>2
    <3> HIDE DEF G, c
    <3> QED
      BY <1>2, <1>3, <2>2, <3>2, <3>3, WriteGroup
  <2> QED
    BY <2>1, <2>2
<1> HIDE DEF c, G, M
<1>9. SameRows(c, db') /\ Fades(c, db') /\ db'.acc = c.acc /\ db'.grp = c.grp
  BY <1>3, <1>6, <1>7, <1>8, WriteMember DEF SameRows
<1>10. SameRows(db, db') /\ Fades(db, db')
  BY <1>8, <1>9 DEF SameRows, Fades
<1>11. db'.grp[g] # None /\ <<"group", g>> \notin renamed => db'.grp[g].name \in dsmGroup'
  <2>1. GroupCurrent(g, item[2], db, renamed)
    BY <1>1, <1>2 DEF RowSound, ListCurrent
  <2>2. <<"group", g>> \in db.spent => db.grp[g] = None
    BY <1>3 DEF SyncInvariant, Sound, SpentGone
  <2> QED
    BY <1>1, <1>8, <1>9, <2>1, <2>2 DEF GroupCurrent
<1>12. CreatedExists'
  BY <1>2, <1>5, <1>8, <1>9, <1>11, CreatedStays DEF SyncInvariant, IsUsed
<1> QED
  BY <1>4, <1>5, <1>10, <1>12, StatusStep

LEMMA MemberFailsKeeps ==
  ASSUME SyncInvariant, NEW s \in Sources, MemberFails(s)
  PROVE  SyncInvariant'
<1>1. PICK item \in run[s].work :
        /\ run[s].pc = "members"
        /\ db' = [db EXCEPT !.mem[item[1]] = IF @ = None THEN None
                                              ELSE [@ EXCEPT !.status = "failed"]]
        /\ EndRun(s, "failed")
        /\ UNCHANGED <<dir, src, dsmUser, dsmGroup, due, banned, renamed>>
  BY DEF MemberFails
<1> DEFINE m == item[1]
           M == IF db.mem[m] = None THEN None ELSE [db.mem[m] EXCEPT !.status = "failed"]
<1>2. RunsTyped /\ RunTyped(run[s]) /\ db \in Tables
  BY DEF SyncInvariant, RunsTyped, Sound
<1>3. m \in Ids \X Ids
  BY <1>1, <1>2 DEF RunTyped, MemberItem
<1>4. RunsTyped' /\ \A t \in Sources : Lessens(run[t], run'[t])
  BY <1>1, <1>2, EndTyped DEF EndRun
<1>5. World' /\ DsmGrows /\ UNCHANGED renamed
  BY <1>1 DEF EndRun, SyncInvariant, World, DsmGrows
<1>6. M \in Rows(Member)
  BY <1>2, <1>3, Columns DEF Rows, Member
<1>7. db' = WithMem(db, m, M)
  BY <1>1, <1>2 DEF WithMem, Tables
<1> HIDE DEF M
<1>8. SameRows(db, db') /\ Fades(db, db') /\ db'.acc = db.acc /\ db'.grp = db.grp
  BY <1>2, <1>3, <1>6, <1>7, WriteMember
<1>9. Grows(db, db')
  BY <1>8 DEF Grows, SameRows, IsUsed
<1> QED
  BY <1>4, <1>5, <1>8, <1>9, RestingStep
------------------------------------------------------------------------------
(***************************************************************************)
(* Missing users.                                                          *)
(***************************************************************************)
LEMMA MarkRemovedKeeps ==
  ASSUME db \in Tables, NEW s, NEW e, e = MarkRemoved(s)
  PROVE  SameRows(db, e) /\ Fades(db, e) /\ Grows(db, e)
<1> DEFINE P(m) == /\ db.mem[m] # None /\ ~db.mem[m].active /\ db.mem[m].status = "remove_pending"
                   /\ db.grp[m[1]] # None /\ db.acc[m[2]] # None
                   /\ \E k \in Units \X Subjects :
                        k[1][1] = s /\ db.mmap[k] # None /\ <<db.mmap[k].grp, db.mmap[k].acc>> = m
           Done(m) == [db.mem[m] EXCEPT !.status = "disabled"]
           M == [m \in Ids \X Ids |-> IF P(m) THEN Done(m) ELSE db.mem[m]]
<1>1. e = [db EXCEPT !.mem = M]
  BY DEF MarkRemoved
<1>2. \A m \in Ids \X Ids : P(m) => db.mem[m] # None
  OBVIOUS
<1> HIDE DEF P
<1>3. ASSUME NEW m \in Ids \X Ids, db.mem[m] # None PROVE Done(m) \in Member
  BY <1>3, Columns DEF Rows, Member
<1> HIDE DEF Done
<1>4. M \in [Ids \X Ids -> Rows(Member)]
  BY <1>2, <1>3, Columns DEF Rows
<1> HIDE DEF M
<1>5. /\ e \in Tables /\ e.ext = db.ext /\ e.acc = db.acc /\ e.unit = db.unit /\ e.grp = db.grp
      /\ e.umap = db.umap /\ e.spent = db.spent
  BY <1>1, <1>4 DEF Tables
<1>6. SameRows(db, e) /\ Fades(db, e)
  BY <1>5 DEF SameRows, Fades
<1>7. Grows(db, e)
  BY <1>5 DEF Grows, IsUsed
<1> QED
  BY <1>6, <1>7

\* The list of the missing: accounts that no active mapping gives.
LEMMA DisableListTyped ==
  ASSUME db \in Tables, NEW s
  PROVE  /\ DisableList(s) \in SUBSET UserItem
         /\ \A item \in DisableList(s), x \in Subjects :
              ActiveUser(db, x) => db.umap[x].acc # item[1]
<1>1. ASSUME NEW item \in DisableList(s)
      PROVE  item \in UserItem /\ \A x \in Subjects : ActiveUser(db, x) => db.umap[x].acc # item[1]
  <2>1. PICK j \in Ids : /\ db.acc[j] # None /\ item = <<j, db.acc[j].name>>
                         /\ \A x \in Subjects : ActiveUser(db, x) => db.umap[x].acc # j
    BY <1>1 DEF DisableList
  <2>2. db.acc[j].name \in AccountNames
    BY <2>1, Columns DEF Rows, Account
  <2> QED
    BY <2>1, <2>2 DEF UserItem
<1> QED
  BY <1>1

LEMMA MembersDoneKeeps ==
  ASSUME SyncInvariant, NEW s \in Sources, MembersDone(s)
  PROVE  SyncInvariant'
<1> DEFINE q == run[s]
           w == IF q.policy.disable THEN DisableList(s) ELSE {}
           r == [q EXCEPT !.pc = "disable", !.crossed = FALSE, !.work = w]
<1>1. /\ RunsTyped /\ RunTyped(q) /\ q \in RunRow /\ q.pc = "members" /\ db \in Tables
      /\ RowSound(s, q, db, renamed)
  BY DEF SyncInvariant, RunsTyped, Sound, MembersDone, RunsSound
<1>2. SameRows(db, db') /\ Fades(db, db') /\ Grows(db, db')
  <2>1. db' = MarkRemoved(s) \/ db' = db
    BY DEF MembersDone
  <2> QED
    BY <1>1, <2>1, MarkRemovedKeeps, RowsStayTables
<1>3. World' /\ DsmGrows /\ UNCHANGED renamed
  BY DEF MembersDone, SyncInvariant, World, DsmGrows
<1>4. /\ w \in SUBSET UserItem
      /\ \A item \in w, x \in Subjects : ActiveUser(db, x) => db.umap[x].acc # item[1]
  BY <1>1, DisableListTyped
<1>5. run' = [run EXCEPT ![s] = r]
  BY <1>1 DEF RunsTyped, MembersDone
<1> HIDE DEF w
<1>6. /\ r \in RunRow /\ r.pc = "disable" /\ r.work = w /\ r.crossed = FALSE /\ r.call = None
      /\ r.owned = q.owned /\ r.groups = q.groups
  BY <1>1, <1>4 DEF RunTyped, RunRow, Phases
<1> HIDE DEF r
<1>7. RunTyped(r)
  BY <1>4, <1>6 DEF RunTyped
<1>8. /\ RunsTyped' /\ run'[s] = r
      /\ \A t \in Sources : t # s => run'[t] = run[t]
  BY <1>1, <1>5, <1>7, TurnTyped
<1>9. UseGrows(db, db')
  BY <1>1, <1>2, SameRowsFollow
<1>10. Uncrossed(s, r, db')
  BY <1>2, <1>4, <1>6 DEF Uncrossed, Fades, ActiveUser
<1>11. RowSound(s, r, db', renamed')
  BY <1>1, <1>6, <1>9, <1>10 DEF RowSound, ListCurrent, UseGrows
<1> QED
  BY <1>2, <1>3, <1>8, <1>11, NewListStep

LEMMA DisableUserKeeps ==
  ASSUME SyncInvariant, NEW s \in Sources, DisableUser(s)
  PROVE  SyncInvariant'
<1>1. PICK item \in run[s].work :
        /\ run[s].pc = "disable"
        /\ dsmUser' = [dsmUser EXCEPT ![item[2]] = "disabled"]
        /\ SetAccount(item[1], "disabled", FALSE)
        /\ run' = Finished(s, item)
        /\ UNCHANGED <<dir, src, dsmGroup, due, record, banned, renamed, left>>
  BY DEF DisableUser
<1>2. RunsTyped /\ RunTyped(run[s]) /\ db \in Tables
  BY DEF SyncInvariant, RunsTyped, Sound
<1>3. item[1] \in Ids /\ item[2] \in AccountNames
  BY <1>1, <1>2 DEF RunTyped, UserItem
<1>4. RunsTyped' /\ \A t \in Sources : Lessens(run[t], run'[t])
  BY <1>1, <1>2, FinishedTyped
<1>5. World' /\ DsmGrows /\ UNCHANGED renamed
  BY <1>1, <1>3 DEF SyncInvariant, World, DsmGrows
<1>6. /\ SameRows(db, db') /\ Fades(db, db') /\ db'.grp = db.grp
      /\ \A j \in Ids : j # item[1] => db'.acc[j] = db.acc[j]
      /\ db'.acc[item[1]] # None => db'.acc[item[1]].status = "disabled"
  BY <1>1, <1>2, <1>3, SetAccountKeeps
<1>7. Grows(db, db')
  BY <1>6 DEF Grows, SameRows, IsUsed
<1> QED
  BY <1>4, <1>5, <1>6, <1>7, RestingStep
------------------------------------------------------------------------------
(***************************************************************************)
(* Cleanup and deletion.                                                   *)
(***************************************************************************)
LEMMA BeginCleanupKeeps ==
  ASSUME SyncInvariant, NEW s \in Sources, BeginCleanup(s)
  PROVE  SyncInvariant'
<1> DEFINE w == {<<i, db.acc[i].name>> : i \in OwnedAccounts(db, s)}
           r == [Idle EXCEPT !.pc = "cleanup", !.owned = OwnedIdentities(db, s),
                             !.groups = OwnedGroups(db, s), !.work = w]
<1>1. RunsTyped /\ Sound(db) /\ db \in Tables
  BY DEF SyncInvariant, Sound
<1>2. w \in SUBSET UserItem
  <2>1. ASSUME NEW i \in OwnedAccounts(db, s) PROVE <<i, db.acc[i].name>> \in UserItem
    <3>1. i \in Ids /\ db.acc[i] # None
      BY <2>1 DEF OwnedAccounts, OwnedIdentities
    <3>2. db.acc[i].name \in AccountNames
      BY <1>1, <3>1, Columns DEF Rows, Account
    <3> QED
      BY <3>1, <3>2 DEF UserItem
  <2> QED
    BY <2>1
<1>3. OwnedIdentities(db, s) \subseteq UsedAccounts(db) /\ OwnedGroups(db, s) \subseteq UsedGroups(db)
  BY <1>1, OwnedAreUsed
<1>4. OwnedIdentities(db, s) \in SUBSET Ids /\ OwnedGroups(db, s) \in SUBSET Ids
  BY DEF OwnedIdentities, OwnedGroups
<1>5. run' = [run EXCEPT ![s] = r]
  BY DEF BeginCleanup
<1> HIDE DEF w
<1>6. /\ r \in RunRow /\ r.pc = "cleanup" /\ r.work = w /\ r.call = None
      /\ r.owned = OwnedIdentities(db, s) /\ r.groups = OwnedGroups(db, s)
  BY <1>2, <1>4 DEF RunRow, Idle, Phases
<1> HIDE DEF r
<1>7. RunTyped(r)
  BY <1>2, <1>6 DEF RunTyped
<1>8. /\ RunsTyped' /\ run'[s] = r
      /\ \A t \in Sources : t # s => run'[t] = run[t]
  BY <1>1, <1>5, <1>7, TurnTyped
<1>9. World' /\ DsmGrows /\ UNCHANGED <<db, renamed>>
  BY DEF BeginCleanup, SyncInvariant, World, DsmGrows
<1>10. SameRows(db, db') /\ Fades(db, db') /\ Grows(db, db')
  BY <1>1, <1>9, RowsStayTables
<1>11. Uncrossed(s, r, db)
  BY <1>6 DEF Uncrossed, OwnedIdentities, HasOtherProvider
<1>12. RowSound(s, r, db', renamed')
  BY <1>3, <1>6, <1>9, <1>11 DEF RowSound, ListCurrent
<1> QED
  BY <1>8, <1>9, <1>10, <1>12, NewListStep

LEMMA CleanupDisableKeeps ==
  ASSUME SyncInvariant, NEW s \in Sources, CleanupDisable(s)
  PROVE  SyncInvariant'
<1>1. PICK item \in run[s].work :
        /\ run[s].pc = "cleanup"
        /\ dsmUser' = [dsmUser EXCEPT ![item[2]] = "disabled"]
        /\ run' = Finished(s, item)
        /\ UNCHANGED <<dir, src, db, dsmGroup, due, record, banned, renamed, left>>
  BY DEF CleanupDisable
<1>2. RunsTyped /\ RunTyped(run[s])
  BY DEF SyncInvariant, RunsTyped
<1>3. item[2] \in AccountNames
  BY <1>1, <1>2 DEF RunTyped, UserItem
<1>4. RunsTyped' /\ \A t \in Sources : Lessens(run[t], run'[t])
  BY <1>1, <1>2, FinishedTyped
<1>5. World' /\ DsmGrows /\ UNCHANGED renamed
  BY <1>1, <1>3 DEF SyncInvariant, World, DsmGrows
<1> QED
  BY <1>1, <1>4, <1>5, QuietStep

\* A deletion: what a run holds of what is deleted is known to be gone.
LEMMA DeletionStep ==
  ASSUME SyncInvariant, World', RunsTyped', DsmGrows, UNCHANGED renamed,
         \A t \in Sources : Lessens(run[t], run'[t]),
         NEW s \in Sources, NEW ids, ids \subseteq UsedAccounts(db),
         NEW gids, gids \subseteq UsedGroups(db),
         db' = DeleteSourceData(db, s, ids, gids)
  PROVE  SyncInvariant'
<1>1. Sound(db) /\ db \in Tables /\ CreatedExists
  BY DEF SyncInvariant, Sound
<1>2. /\ Sound(db') /\ Fades(db, db')
      /\ db'.spent = db.spent \cup ({"user"} \X ids) \cup ({"group"} \X gids)
      /\ UsedAccounts(db') = UsedAccounts(db) /\ UsedGroups(db') = UsedGroups(db)
      /\ \A i \in Ids : db'.acc[i] = IF i \in ids THEN None ELSE db.acc[i]
      /\ \A g \in Ids : db'.grp[g] = IF g \in gids THEN None ELSE db.grp[g]
      /\ \A x \in Subjects : db'.ext[x] = IF x[1] = s THEN None ELSE db.ext[x]
  <2>1. Sound(db') /\ SourceGone(db, db', s, ids, gids)
    BY <1>1, DeleteKeeps
  <2> QED
    BY <2>1 DEF SourceGone
<1>3. CreatedExists'
  BY <1>1, <1>2, CreatedStays DEF IsUsed
<1>4. \A i \in Ids : /\ UserFollows(i, db, db', renamed, renamed')
                     /\ GroupFollows(i, db, db', renamed, renamed')
  <2>1. \A i \in ids : <<"user", i>> \in db'.spent
    BY <1>2
  <2>2. \A g \in gids : <<"group", g>> \in db'.spent
    BY <1>2
  <2> QED
    BY <1>2, <2>1, <2>2 DEF UserFollows, GroupFollows
<1>5. ASSUME NEW t \in Sources
      PROVE  RowFollows(run[t], db, db', renamed, renamed')
  <2>1. RunTyped(run[t])
    BY DEF SyncInvariant, RunsTyped
  <2>2. \A item \in run[t].work :
          /\ run[t].pc = "users" => item[1] \in Ids
          /\ run[t].pc = "groups" => item[1] \in Ids
          /\ run[t].pc = "members" => item[1][1] \in Ids
    BY <2>1 DEF RunTyped, UserItem, GroupItem, MemberItem
  <2> QED
    BY <1>4, <2>2 DEF RowFollows
<1>6. SameReferences(db, db') /\ UseGrows(db, db')
  BY <1>2 DEF SameReferences, UseGrows
<1>7. RunsSound'
  BY <1>2, <1>5, <1>6, RunsStay
<1> QED
  BY <1>2, <1>3, <1>7 DEF SyncInvariant

LEMMA CleanupDeleteKeeps ==
  ASSUME SyncInvariant, NEW s \in Sources, CleanupDelete(s)
  PROVE  SyncInvariant'
<1>1. RunsTyped /\ RowSound(s, run[s], db, renamed)
  BY DEF SyncInvariant, RunsSound
<1>2. RunsTyped' /\ \A t \in Sources : Lessens(run[t], run'[t])
  BY <1>1, EndTyped DEF CleanupDelete, EndRun
<1>3. World' /\ DsmGrows /\ UNCHANGED renamed
  BY DEF CleanupDelete, EndRun, SyncInvariant, World, DsmGrows
<1>4. run[s].owned \subseteq UsedAccounts(db) /\ run[s].groups \subseteq UsedGroups(db)
  BY <1>1 DEF RowSound
<1>5. db' = DeleteSourceData(db, s, run[s].owned, run[s].groups)
  BY DEF CleanupDelete
<1> QED
  BY <1>2, <1>3, <1>4, <1>5, DeletionStep

LEMMA DeleteSourceKeeps ==
  ASSUME SyncInvariant, NEW s \in Sources, DeleteSource(s)
  PROVE  SyncInvariant'
<1> DEFINE names == {db.acc[i].name : i \in OwnedAccounts(db, s)}
<1>1. /\ \A n \in names : dsmUser[n] # "absent"
      /\ src' = [src EXCEPT ![s] = "deleted"]
      /\ dsmUser' = [n \in AccountNames |-> IF n \in names THEN "disabled" ELSE dsmUser[n]]
      /\ db' = DeleteSourceData(db, s, OwnedIdentities(db, s), OwnedGroups(db, s))
      /\ banned' = banned \ OwnedIdentities(db, s)
      /\ UNCHANGED <<dir, dsmGroup, run, due, record, renamed>>
  BY DEF DeleteSource
<1> HIDE DEF names
<1>2. RunsTyped' /\ \A t \in Sources : Lessens(run[t], run'[t])
  BY <1>1, RunsUntouched
<1>3. World' /\ DsmGrows /\ UNCHANGED renamed
  BY <1>1 DEF SyncInvariant, World, DsmGrows
<1>4. /\ OwnedIdentities(db, s) \subseteq UsedAccounts(db)
      /\ OwnedGroups(db, s) \subseteq UsedGroups(db)
  BY OwnedAreUsed DEF SyncInvariant
<1> QED
  BY <1>1, <1>2, <1>3, <1>4, DeletionStep
------------------------------------------------------------------------------
(***************************************************************************)
(* The transaction of SyncProvider.                                        *)
(***************************************************************************)
LEMMA LeaveMapTyped ==
  ASSUME RunsTyped, NEW s \in Sources, LeaveMap(s)
  PROVE  /\ RunsTyped'
         /\ /\ run'[s].pc = "retire" /\ run'[s].owned = run[s].owned
            /\ run'[s].groups = run[s].groups
         /\ \A t \in Sources : t # s => Lessens(run[t], run'[t]) /\ run'[t].crossed
<1>1. run' = [t \in Sources |-> IF t = s THEN [run[s] EXCEPT !.pc = "retire"]
                                         ELSE [run[t] EXCEPT !.crossed = TRUE]]
  BY DEF LeaveMap
<1>2. run[s].pc = "map"
  BY DEF LeaveMap
<1>3. /\ RunTyped(run'[s]) /\ run'[s].pc = "retire" /\ run'[s].owned = run[s].owned
      /\ run'[s].groups = run[s].groups
  <2> DEFINE q == run[s]
             r == [q EXCEPT !.pc = "retire"]
  <2>1. RunTyped(q) /\ q \in RunRow
    BY DEF RunsTyped
  <2>2. /\ r \in RunRow /\ r.pc = "retire" /\ r.call = q.call
        /\ r.owned = q.owned /\ r.groups = q.groups
    BY <2>1 DEF RunRow, Phases
  <2>3. run'[s] = r
    BY <1>1
  <2> HIDE DEF r
  <2>4. RunTyped(r)
    BY <1>2, <2>1, <2>2 DEF RunTyped
  <2> QED
    BY <2>2, <2>3, <2>4
<1>4. ASSUME NEW t \in Sources, t # s
      PROVE  RunTyped(run'[t]) /\ Lessens(run[t], run'[t]) /\ run'[t].crossed
  <2> DEFINE q == run[t]
             r == [q EXCEPT !.crossed = TRUE]
  <2>1. RunTyped(q) /\ q \in RunRow
    BY DEF RunsTyped
  <2>2. /\ r \in RunRow /\ r.pc = q.pc /\ r.work = q.work /\ r.call = q.call /\ r.snap = q.snap
        /\ r.owned = q.owned /\ r.groups = q.groups /\ r.crossed = TRUE
    BY <2>1 DEF RunRow
  <2>3. run'[t] = r
    BY <1>1, <1>4
  <2> HIDE DEF r
  <2>4. RunTyped(r) /\ Lessens(q, r)
    BY <2>1, <2>2 DEF RunTyped, Lessens
  <2> QED
    BY <2>2, <2>3, <2>4
<1>5. \A t \in Sources : RunTyped(run'[t])
  BY <1>3, <1>4
<1>6. \A t \in Sources : run'[t] \in RunRow
  BY <1>5 DEF RunTyped
<1>7. RunsTyped'
  BY <1>1, <1>5, <1>6 DEF RunsTyped, RunTyped
<1> QED
  BY <1>3, <1>4, <1>7

LEMMA CommitMappingsKeeps ==
  ASSUME SyncInvariant, NEW s \in Sources, CommitMappings(s), ~IsFiniteSet(Ids)
  PROVE  /\ SyncInvariant'
         /\ \A m \in Ids \X Ids : db'.mem[m] # None => (db'.mem[m].active <=> Mapped(db', m))
<1>1. /\ RunsTyped /\ RunTyped(run[s]) /\ Sound(db) /\ db \in Tables /\ CreatedExists
      /\ RowSound(s, run[s], db, renamed)
  BY DEF SyncInvariant, RunsTyped, Sound, RunsSound
<1>2. run[s].snap \in Snapshot
  BY <1>1 DEF RunTyped, RunRow, CommitMappings, LeaveMap
<1>3. /\ Sound(db') /\ Grows(db, db')
      /\ \A m \in Ids \X Ids : db'.mem[m] # None => (db'.mem[m].active <=> Mapped(db', m))
  BY <1>1, <1>2, SyncProviderKeeps DEF CommitMappings
<1>4. renamed' = renamed \cup
        {<<"group", g>> : g \in {h \in Ids : /\ Held("group", h) /\ db.grp[h] # None
                                           /\ db.grp[h].name # db'.grp[h].name}}
  BY DEF CommitMappings
<1>5. World' /\ DsmGrows
  BY <1>4 DEF CommitMappings, LeaveMap, SyncInvariant, World, DsmGrows
<1>6. CreatedExists'
  BY <1>1, <1>3, <1>5, CreatedStays DEF Grows
<1>7. /\ RunsTyped'
      /\ /\ run'[s].pc = "retire" /\ run'[s].owned = run[s].owned
         /\ run'[s].groups = run[s].groups
      /\ \A t \in Sources : t # s => Lessens(run[t], run'[t]) /\ run'[t].crossed
  BY <1>1, LeaveMapTyped DEF CommitMappings
<1>8. UseGrows(db, db')
  BY <1>3 DEF Grows, UseGrows, UsedAccounts, UsedGroups
<1>9. \A i \in Ids :
        /\ UserFollows(i, db, db', renamed, renamed')
        /\ Held("group", i) => GroupFollows(i, db, db', renamed, renamed')
  BY <1>3, <1>4 DEF Grows, UserFollows, GroupFollows
<1>10. ASSUME NEW t \in Sources, t # s
       PROVE  RowSound(t, run'[t], db', renamed')
  <2>1. RunTyped(run[t]) /\ RowSound(t, run[t], db, renamed)
    BY DEF SyncInvariant, RunsTyped, RunsSound
  <2>2. \A item \in run[t].work :
          /\ run[t].pc = "users" => item[1] \in Ids
          /\ run[t].pc = "groups" => item[1] \in Ids /\ Held("group", item[1])
          /\ run[t].pc = "members" => item[1][1] \in Ids /\ Held("group", item[1][1])
    BY <2>1 DEF RunTyped, UserItem, GroupItem, MemberItem, Held
  <2>3. RowFollows(run[t], db, db', renamed, renamed')
    BY <1>9, <2>2 DEF RowFollows
  <2> QED
    BY <1>7, <1>8, <1>10, <2>1, <2>3, RowStays
<1>11. RowSound(s, run'[s], db', renamed')
  BY <1>1, <1>7, <1>8 DEF RowSound, ListCurrent, Uncrossed, UseGrows
<1>12. RunsSound'
  BY <1>10, <1>11 DEF RunsSound
<1> QED
  BY <1>3, <1>5, <1>6, <1>7, <1>12 DEF SyncInvariant
------------------------------------------------------------------------------
(***************************************************************************)
(* Orders of administrators.                                               *)
(***************************************************************************)
LEMMA SetLoginKeeps ==
  ASSUME SyncInvariant, NEW i \in Ids, NEW allow \in BOOLEAN, SetLogin(i, allow)
  PROVE  SyncInvariant'
<1> DEFINE r == [db.acc[i] EXCEPT !.allow = allow]
<1>1. /\ db.acc[i] # None /\ db' = [db EXCEPT !.acc[i].allow = allow]
      /\ banned' = IF allow THEN banned \ {i} ELSE banned \cup {i}
      /\ UNCHANGED <<dir, src, dsmUser, dsmGroup, run, due, record, renamed>>
  BY DEF SetLogin
<1>2. db \in Tables
  BY DEF SyncInvariant, Sound
<1>3. db.acc[i] \in Account
  BY <1>1, <1>2, Columns DEF Rows
<1>4. r \in Account /\ r.name = db.acc[i].name /\ r.status = db.acc[i].status
  BY <1>3 DEF Account
<1>5. db' = WithAcc(db, i, r)
  BY <1>1, <1>2, <1>3 DEF WithAcc, Tables
<1> HIDE DEF r
<1>6. /\ SameRows(db, db') /\ Fades(db, db') /\ db'.grp = db.grp
      /\ \A j \in Ids : db'.acc[j] = IF j = i THEN r ELSE db.acc[j]
  <2>1. db.acc[i] # None
    BY <1>1
  <2> QED
    BY <1>2, <1>4, <1>5, <2>1, WriteAccount
<1>7. Grows(db, db')
  BY <1>1, <1>4, <1>6 DEF Grows, SameRows, IsUsed
<1>8. World' /\ DsmGrows
  BY <1>1 DEF SyncInvariant, World, DsmGrows
<1>9. RunsTyped' /\ \A t \in Sources : Lessens(run[t], run'[t])
  BY <1>1, RunsUntouched
<1> QED
  BY <1>1, <1>6, <1>7, <1>8, <1>9, RestingStep

LEMMA ProvisionAccountKeeps ==
  ASSUME SyncInvariant, NEW i \in Ids, ProvisionAccount(i)
  PROVE  SyncInvariant'
<1> DEFINE n == db.acc[i].name
           status == IF dsmUser[n] = "absent" THEN "created" ELSE "linked_existing"
<1>1. /\ db.acc[i] # None /\ dsmUser' = [dsmUser EXCEPT ![n] = "enabled"]
      /\ SetAccount(i, status, TRUE) /\ banned' = banned \ {i}
      /\ UNCHANGED <<dir, src, dsmGroup, run, due, record, renamed>>
  BY DEF ProvisionAccount
<1>2. db \in Tables
  BY DEF SyncInvariant, Sound
<1>3. n \in AccountNames
  BY <1>1, <1>2, Columns DEF Rows, Account
<1>4. status \in {"created", "linked_existing", "disabled"}
  OBVIOUS
<1> HIDE DEF status
<1>5. /\ SameRows(db, db') /\ Fades(db, db') /\ db'.grp = db.grp
      /\ \A j \in Ids : j # i => db'.acc[j] = db.acc[j]
      /\ db'.acc[i] # None => db.acc[i] # None /\ db'.acc[i].name = n
  BY <1>1, <1>2, <1>4, SetAccountKeeps
<1>6. World' /\ DsmGrows
  BY <1>1, <1>3 DEF SyncInvariant, World, DsmGrows
<1>7. RunsTyped' /\ \A t \in Sources : Lessens(run[t], run'[t])
  BY <1>1, RunsUntouched
<1>8. db'.acc[i] # None => dsmUser'[db'.acc[i].name] # "absent"
  BY <1>1, <1>3, <1>5 DEF SyncInvariant, World
<1>9. CreatedExists'
  BY <1>1, <1>2, <1>5, <1>6, <1>8, CreatedStays DEF SyncInvariant, IsUsed
<1> QED
  BY <1>1, <1>5, <1>6, <1>7, <1>9, StatusStep

LEMMA ProvisionDSMGroupKeeps ==
  ASSUME SyncInvariant, NEW g \in Ids, ProvisionDSMGroup(g)
  PROVE  SyncInvariant'
<1>1. /\ db.grp[g] # None /\ dsmGroup' = dsmGroup \cup {db.grp[g].name} /\ SetGroup(g, "created")
      /\ UNCHANGED <<dir, src, dsmUser, run, due, record, banned, renamed>>
  BY DEF ProvisionDSMGroup
<1>2. db \in Tables
  BY DEF SyncInvariant, Sound
<1>3. db.grp[g].name \in Names
  BY <1>1, <1>2, Columns DEF Rows, Group
<1>4. /\ SameRows(db, db') /\ Fades(db, db') /\ db'.acc = db.acc
      /\ \A h \in Ids : h # g => db'.grp[h] = db.grp[h]
      /\ db'.grp[g] # None => db'.grp[g].name = db.grp[g].name
  BY <1>1, <1>2, SetGroupKeeps
<1>5. World' /\ DsmGrows
  BY <1>1, <1>3 DEF SyncInvariant, World, DsmGrows
<1>6. RunsTyped' /\ \A t \in Sources : Lessens(run[t], run'[t])
  BY <1>1, RunsUntouched
<1>7. db'.grp[g] # None => db'.grp[g].name \in dsmGroup'
  BY <1>1, <1>4
<1>8. CreatedExists'
  BY <1>1, <1>2, <1>4, <1>5, <1>7, CreatedStays DEF SyncInvariant, IsUsed
<1> QED
  BY <1>1, <1>4, <1>5, <1>6, <1>8, StatusStep

LEMMA ProvisionMemberKeeps ==
  ASSUME SyncInvariant, NEW m \in Ids \X Ids, ProvisionMember(m)
  PROVE  SyncInvariant'
<1> DEFINE r == [db.mem[m] EXCEPT !.status = "created"]
<1>1. /\ db.mem[m] # None /\ db.grp[m[1]] # None
      /\ dsmGroup' = dsmGroup \cup {db.grp[m[1]].name}
      /\ db' = [db EXCEPT !.mem[m].status = "created"]
      /\ UNCHANGED <<dir, src, dsmUser, run, due, record, banned, renamed>>
  BY DEF ProvisionMember
<1>2. db \in Tables
  BY DEF SyncInvariant, Sound
<1>3. db.grp[m[1]].name \in Names
  BY <1>1, <1>2, Columns DEF Rows, Group
<1>4. r \in Rows(Member)
  BY <1>1, <1>2, Columns DEF Rows, Member
<1>5. db' = WithMem(db, m, r)
  BY <1>1, <1>2 DEF WithMem, Tables
<1> HIDE DEF r
<1>6. SameRows(db, db') /\ Fades(db, db') /\ db'.acc = db.acc /\ db'.grp = db.grp
  BY <1>2, <1>4, <1>5, WriteMember
<1>7. Grows(db, db')
  BY <1>6 DEF Grows, SameRows, IsUsed
<1>8. World' /\ DsmGrows
  BY <1>1, <1>3 DEF SyncInvariant, World, DsmGrows
<1>9. RunsTyped' /\ \A t \in Sources : Lessens(run[t], run'[t])
  BY <1>1, RunsUntouched
<1> QED
  BY <1>1, <1>6, <1>7, <1>8, <1>9, RestingStep

\* An administrator gives an account another name, which is free.
LEMMA SetUsernameKeeps ==
  ASSUME SyncInvariant, NEW i \in Ids, NEW n \in Names, SetUsername(i, n)
  PROVE  SyncInvariant'
<1> DEFINE r == [name |-> n, status |-> "pending", allow |-> TRUE, managed |-> FALSE]
<1>1. /\ db.acc[i] # None /\ \A j \in AccountsNamed(n) : j = i
      /\ db' = [db EXCEPT !.acc[i] = r]
      /\ banned' = banned \ {i}
      /\ renamed' = IF Held("user", i) THEN renamed \cup {<<"user", i>>} ELSE renamed
      /\ UNCHANGED <<dir, src, dsmUser, dsmGroup, run, due, record>>
  BY DEF SetUsername
<1>2. Sound(db) /\ db \in Tables /\ CreatedExists
  BY DEF SyncInvariant, Sound
<1>3. r \in Account
  BY DEF Account, AccountNames
<1>4. r # None /\ r.name = n /\ r.status = "pending"
  BY <1>3, MappingAssumption
<1>5. db' = WithAcc(db, i, r)
  BY <1>1 DEF WithAcc
<1> HIDE DEF r
<1>6. /\ db' \in Tables /\ \A j \in Ids : db'.acc[j] = IF j = i THEN r ELSE db.acc[j]
      /\ db'.ext = db.ext /\ db'.unit = db.unit /\ db'.grp = db.grp /\ db'.umap = db.umap
      /\ db'.spent = db.spent
  BY <1>2, <1>3, <1>5, PutAcc
<1>7. UsedAccounts(db') = UsedAccounts(db) /\ UsedGroups(db') = UsedGroups(db)
  BY <1>1, <1>4, <1>6 DEF UsedAccounts, UsedGroups
<1>8. Sound(db')
  <2>1. \A j \in Ids : (j # i /\ db.acc[j] # None) => db.acc[j].name # n
    BY <1>1 DEF AccountsNamed, NamedAccounts
  <2>2. DistinctNames(db')
    BY <1>2, <1>4, <1>6, <2>1 DEF Sound, DistinctNames
  <2>3. OwnPlaceholders(db')
    BY <1>2, <1>4, <1>6 DEF Sound, OwnPlaceholders
  <2>4. OneAccountEach(db')
    BY <1>2, <1>6 DEF Sound, OneAccountEach
  <2>5. ReferencesUsed(db')
    BY <1>2, <1>6, <1>7 DEF Sound, ReferencesUsed
  <2>6. SpentGone(db') /\ FiniteUse(db')
    BY <1>1, <1>2, <1>6, <1>7 DEF Sound, SpentGone, FiniteUse
  <2> QED
    BY <1>6, <2>2, <2>3, <2>4, <2>5, <2>6 DEF Sound
<1>9. World' /\ DsmGrows
  BY <1>1 DEF SyncInvariant, World, DsmGrows
<1>10. RunsTyped' /\ \A t \in Sources : Lessens(run[t], run'[t])
  BY <1>1, RunsUntouched
<1>11. CreatedExists'
  BY <1>2, <1>4, <1>6, <1>9, CreatedStays DEF IsUsed
<1>12. ASSUME NEW t \in Sources
       PROVE  RowFollows(run[t], db, db', renamed, renamed')
  <2>1. RunTyped(run[t])
    BY DEF SyncInvariant, RunsTyped
  <2>2. \A j \in Ids : GroupFollows(j, db, db', renamed, renamed')
    BY <1>6, <1>9 DEF GroupFollows, DsmGrows
  <2>3. \A j \in Ids : (j = i => Held("user", j)) => UserFollows(j, db, db', renamed, renamed')
    BY <1>1, <1>6, <1>9 DEF UserFollows, DsmGrows
  <2>4. \A item \in run[t].work :
          /\ run[t].pc = "users" => item[1] \in Ids /\ Held("user", item[1])
          /\ run[t].pc = "groups" => item[1] \in Ids
          /\ run[t].pc = "members" => item[1][1] \in Ids
    BY <2>1 DEF RunTyped, UserItem, GroupItem, MemberItem, Held
  <2> QED
    BY <2>2, <2>3, <2>4 DEF RowFollows
<1>13. SameReferences(db, db') /\ Fades(db, db') /\ UseGrows(db, db')
  BY <1>6, <1>7 DEF SameReferences, Fades, UseGrows
<1>14. RunsSound'
  BY <1>10, <1>12, <1>13, RunsStay
<1> QED
  BY <1>8, <1>9, <1>10, <1>11, <1>14 DEF SyncInvariant

LEMMA SetGroupnameKeeps ==
  ASSUME SyncInvariant, NEW g \in Ids, NEW n \in Names, SetGroupname(g, n)
  PROVE  SyncInvariant'
<1> DEFINE r == [name |-> n, status |-> "pending", managed |-> FALSE]
<1>1. /\ db.grp[g] # None /\ \A h \in NamedGroups(db, n) : h = g
      /\ db' = [db EXCEPT !.grp[g] = r]
      /\ renamed' = IF Held("group", g) THEN renamed \cup {<<"group", g>>} ELSE renamed
      /\ UNCHANGED <<dir, src, dsmUser, dsmGroup, run, due, record, banned>>
  BY DEF SetGroupname
<1>2. Sound(db) /\ db \in Tables /\ CreatedExists
  BY DEF SyncInvariant, Sound
<1>3. r \in Group
  BY DEF Group
<1>4. r # None /\ r.name = n /\ r.status = "pending"
  BY <1>3, MappingAssumption
<1>5. db' = WithGrp(db, g, r)
  BY <1>1 DEF WithGrp
<1> HIDE DEF r
<1>6. /\ db' \in Tables /\ \A h \in Ids : db'.grp[h] = IF h = g THEN r ELSE db.grp[h]
      /\ db'.ext = db.ext /\ db'.unit = db.unit /\ db'.acc = db.acc /\ db'.umap = db.umap
      /\ db'.spent = db.spent
  BY <1>2, <1>3, <1>5, PutGrp
<1>7. UsedAccounts(db') = UsedAccounts(db) /\ UsedGroups(db') = UsedGroups(db)
  BY <1>1, <1>4, <1>6 DEF UsedAccounts, UsedGroups
<1>8. Sound(db')
  <2>1. \A h \in Ids : (h # g /\ db.grp[h] # None) => db.grp[h].name # n
    BY <1>1 DEF NamedGroups
  <2>2. DistinctNames(db')
    BY <1>2, <1>4, <1>6, <2>1 DEF Sound, DistinctNames
  <2>3. OwnPlaceholders(db') /\ OneAccountEach(db')
    BY <1>2, <1>6 DEF Sound, OwnPlaceholders, OneAccountEach
  <2>4. ReferencesUsed(db')
    BY <1>2, <1>6, <1>7 DEF Sound, ReferencesUsed
  <2>5. SpentGone(db') /\ FiniteUse(db')
    BY <1>1, <1>2, <1>6, <1>7 DEF Sound, SpentGone, FiniteUse
  <2> QED
    BY <1>6, <2>2, <2>3, <2>4, <2>5 DEF Sound
<1>9. World' /\ DsmGrows
  BY <1>1 DEF SyncInvariant, World, DsmGrows
<1>10. RunsTyped' /\ \A t \in Sources : Lessens(run[t], run'[t])
  BY <1>1, RunsUntouched
<1>11. CreatedExists'
  BY <1>2, <1>4, <1>6, <1>9, CreatedStays DEF IsUsed
<1>12. ASSUME NEW t \in Sources
       PROVE  RowFollows(run[t], db, db', renamed, renamed')
  <2>1. RunTyped(run[t])
    BY DEF SyncInvariant, RunsTyped
  <2>2. \A j \in Ids : UserFollows(j, db, db', renamed, renamed')
    BY <1>6, <1>9 DEF UserFollows, DsmGrows
  <2>3. \A h \in Ids : (h = g => Held("group", h)) => GroupFollows(h, db, db', renamed, renamed')
    BY <1>1, <1>6, <1>9 DEF GroupFollows, DsmGrows
  <2>4. \A item \in run[t].work :
          /\ run[t].pc = "users" => item[1] \in Ids
          /\ run[t].pc = "groups" => item[1] \in Ids /\ Held("group", item[1])
          /\ run[t].pc = "members" => item[1][1] \in Ids /\ Held("group", item[1][1])
    BY <2>1 DEF RunTyped, UserItem, GroupItem, MemberItem, Held
  <2> QED
    BY <2>2, <2>3, <2>4 DEF RowFollows
<1>13. SameReferences(db, db') /\ Fades(db, db') /\ UseGrows(db, db')
  BY <1>6, <1>7 DEF SameReferences, Fades, UseGrows
<1>14. RunsSound'
  BY <1>10, <1>12, <1>13, RunsStay
<1> QED
  BY <1>8, <1>9, <1>10, <1>11, <1>14 DEF SyncInvariant
------------------------------------------------------------------------------
(***************************************************************************)
(* The invariant, and the promises.                                        *)
(***************************************************************************)
LEMMA EmptySound == Sound(EmptyDb)
<1>1. EmptyDb \in Tables
  BY DEF EmptyDb, Tables, Rows
<1>2. UsedAccounts(EmptyDb) = {} /\ UsedGroups(EmptyDb) = {}
  BY DEF EmptyDb, UsedAccounts, UsedGroups
<1>3. FiniteUse(EmptyDb)
  BY <1>2, FS_EmptySet DEF FiniteUse
<1>4. DistinctNames(EmptyDb) /\ OwnPlaceholders(EmptyDb) /\ OneAccountEach(EmptyDb)
  BY DEF EmptyDb, DistinctNames, OwnPlaceholders, OneAccountEach
<1>5. ReferencesUsed(EmptyDb) /\ SpentGone(EmptyDb)
  BY DEF EmptyDb, ReferencesUsed, SpentGone
<1> QED
  BY <1>1, <1>3, <1>4, <1>5 DEF Sound

LEMMA InitSound == Init => SyncInvariant
<1> SUFFICES ASSUME Init PROVE SyncInvariant
  OBVIOUS
<1>1. Sound(db)
  BY EmptySound DEF Init
<1>2. World
  BY SyncAssumption DEF Init, World
<1>3. run = [s \in Sources |-> Idle]
  BY DEF Init
<1>4. RunsTyped
  BY <1>3, IdleTyped DEF RunsTyped, RunTyped
<1>5. CreatedExists
  BY DEF Init, CreatedExists, EmptyDb
<1>6. \A s \in Sources : RowSound(s, Idle, db, renamed)
  BY DEF RowSound, ListCurrent, Uncrossed, Idle
<1>7. RunsSound
  BY <1>3, <1>6 DEF RunsSound
<1> QED
  BY <1>1, <1>2, <1>4, <1>5, <1>7 DEF SyncInvariant

LEMMA WorkStepKeeps ==
  ASSUME SyncInvariant, NEW s \in Sources, WorkStep(s)
  PROVE  SyncInvariant'
<1>1. CASE RetireAndList(s)
  BY <1>1, RetireAndListKeeps
<1>2. CASE ProvisionGroup(s)
  BY <1>2, ProvisionGroupKeeps
<1>3. CASE GroupsDone(s)
  BY <1>3, GroupsDoneKeeps
<1>4. CASE AuthorizeUser(s)
  BY <1>4, AuthorizeUserKeeps
<1>5. CASE ProvisionUser(s)
  BY <1>5, ProvisionUserKeeps
<1>6. CASE UsersDone(s)
  BY <1>6, UsersDoneKeeps
<1>7. CASE AddMember(s)
  BY <1>7, AddMemberKeeps
<1>8. CASE MembersDone(s)
  BY <1>8, MembersDoneKeeps
<1>9. CASE DisableUser(s)
  BY <1>9, DisableUserKeeps
<1>10. CASE FinishRun(s)
  BY <1>10, FinishRunKeeps
<1>11. CASE CleanupDisable(s)
  BY <1>11, CleanupDisableKeeps
<1>12. CASE CleanupDelete(s)
  BY <1>12, CleanupDeleteKeeps
<1> QED
  BY <1>1, <1>2, <1>3, <1>4, <1>5, <1>6, <1>7, <1>8, <1>9, <1>10, <1>11, <1>12 DEF WorkStep

LEMMA CallFailsKeeps ==
  ASSUME SyncInvariant, NEW s \in Sources, CallFails(s)
  PROVE  SyncInvariant'
<1>1. CASE GroupFails(s)
  BY <1>1, GroupFailsKeeps
<1>2. CASE UserFails(s)
  BY <1>2, UserFailsKeeps
<1>3. CASE MemberFails(s)
  BY <1>3, MemberFailsKeeps
<1>4. CASE DisableFails(s)
  BY <1>4, DisableFailsKeeps
<1> QED
  BY <1>1, <1>2, <1>3, <1>4 DEF CallFails

LEMMA AdministerKeeps ==
  ASSUME SyncInvariant, Administer
  PROVE  SyncInvariant'
<1>1. CASE \E s \in Sources :
             ManualSync(s) \/ BeginCleanup(s) \/ DeleteSource(s) \/ SwitchSource(s)
  BY <1>1, ManualSyncKeeps, BeginCleanupKeeps, DeleteSourceKeeps, BesideKeeps
<1>2. CASE \E i \in Ids, allow \in BOOLEAN : SetLogin(i, allow)
  BY <1>2, SetLoginKeeps
<1>3. CASE \E i \in Ids, n \in Names : SetUsername(i, n) \/ SetGroupname(i, n)
  BY <1>3, SetUsernameKeeps, SetGroupnameKeeps
<1>4. CASE \E i \in Ids : ProvisionAccount(i) \/ ProvisionDSMGroup(i)
  BY <1>4, ProvisionAccountKeeps, ProvisionDSMGroupKeeps
<1>5. CASE \E i, j \in Ids : ProvisionMember(<<i, j>>)
  <2>1. PICK i \in Ids, j \in Ids : ProvisionMember(<<i, j>>)
    BY <1>5
  <2>2. <<i, j>> \in Ids \X Ids
    OBVIOUS
  <2> QED
    BY <2>1, <2>2, ProvisionMemberKeeps
<1> QED
  BY <1>1, <1>2, <1>3, <1>4, <1>5 DEF Administer

LEMMA StutterKeeps ==
  ASSUME SyncInvariant, UNCHANGED vars
  PROVE  SyncInvariant'
<1>1. World' /\ DsmGrows /\ UNCHANGED <<db, run, renamed>>
  BY DEF vars, SyncInvariant, World, DsmGrows
<1> QED
  BY <1>1, RunsUntouched, QuietStep

LEMMA NextSound ==
  ASSUME ~IsFiniteSet(Ids), SyncInvariant, [Next]_vars
  PROVE  SyncInvariant'
<1>1. CASE \E s \in Sources : ScheduledSync(s)
  BY <1>1, ScheduledSyncKeeps
<1>2. CASE \E s \in Sources : IntervalPasses(s) \/ DirectoryChanges(s)
  BY <1>2, BesideKeeps
<1>3. CASE \E s \in Sources : CommitMappings(s)
  BY <1>3, CommitMappingsKeeps
<1>4. CASE \E s \in Sources : WorkStep(s)
  BY <1>4, WorkStepKeeps
<1>5. CASE \E s \in Sources : RunAborts(s) \/ CallFails(s)
  BY <1>5, RunAbortsKeeps, CallFailsKeeps
<1>6. CASE Administer
  BY <1>6, AdministerKeeps
<1>7. CASE Restart
  BY <1>7, RestartKeeps
<1>8. CASE \E s \in Sources : ReadDirectory(s) \/ ListMembers(s, dir[s].units)
  BY <1>8, ReadDirectoryKeeps, ListMembersKeeps
<1>9. CASE UNCHANGED vars
  BY <1>9, StutterKeeps
<1> QED
  BY <1>1, <1>2, <1>3, <1>4, <1>5, <1>6, <1>7, <1>8, <1>9 DEF Next, Elsewhere

\* The invariant holds over every interleaving of the runs, cleanups,
\* deletions, orders, failures and restarts of the backend.
THEOREM SyncIsSound ==
  ASSUME ~IsFiniteSet(Ids)
  PROVE  Spec => []SyncInvariant
<1>1. SyncInvariant /\ [Next]_vars => SyncInvariant'
  BY NextSound
<1> QED
  BY <1>1, InitSound, PTL DEF Spec

\* Two people of one source never end up with one DSM account, whatever
\* names they share with people of other sources, and every table keeps to
\* its columns (linkableIdentityByUsername, ResolveOrCreateIdentity...).
THEOREM DatabaseStaysSound ==
  ASSUME ~IsFiniteSet(Ids)
  PROVE  Spec => []DatabaseSound
<1>1. SyncInvariant => DatabaseSound
  <2>1. ASSUME SyncInvariant PROVE TypeOK /\ IdentityExclusive
    <3>1. TypeOK
      BY <2>1, TypeParts DEF SyncInvariant, Sound
    <3>2. IdentityExclusive
      BY <2>1 DEF SyncInvariant, Sound, OneAccountEach, IdentityExclusive
    <3> QED
      BY <3>1, <3>2
  <2> QED
    BY <2>1 DEF DatabaseSound
<1> QED
  BY <1>1, SyncIsSound, PTL

\* The UNIQUE columns dsm_username and dsm_groupname are never violated.
THEOREM NamesStayDistinct ==
  ASSUME ~IsFiniteSet(Ids)
  PROVE  Spec => []NamesDistinct
<1>1. SyncInvariant => NamesDistinct
  BY DEF SyncInvariant, Sound, DistinctNames, NamesDistinct
<1> QED
  BY <1>1, SyncIsSound, PTL

\* What the database calls created exists in DSM under the name it has now,
\* unless the name was changed while a run worked on a list with the old one.
THEOREM CreatedIsThere ==
  ASSUME ~IsFiniteSet(Ids)
  PROVE  Spec => []CreatedExists
<1>1. SyncInvariant => CreatedExists
  BY DEF SyncInvariant
<1> QED
  BY <1>1, SyncIsSound, PTL

\* After the transaction of a run a member is active exactly if an active
\* mapping of some source asks for it (ReconcileFinalGroupMembers).
THEOREM MappingsSettleMembers ==
  ASSUME ~IsFiniteSet(Ids)
  PROVE  Spec => MappingSettlesMembers
<1>1. SyncInvariant /\ [Next]_vars =>
        [\A s \in Sources : CommitMappings(s) =>
           \A m \in Ids \X Ids :
             db'.mem[m] # None => (db'.mem[m].active <=> Mapped(db', m))]_vars
  BY CommitMappingsKeeps
<1> QED
  BY <1>1, SyncIsSound, PTL DEF Spec, MappingSettlesMembers

\* Neither a deletion nor a cleanup takes away the account of a person of
\* another source, as long as no mapping was committed since the cleanup
\* found what the source owns (sourceOwnedIDs).
THEOREM SharedAccountsStay ==
  ASSUME ~IsFiniteSet(Ids)
  PROVE  Spec => SharedAccountKept
<1>1. ASSUME SyncInvariant, NEW s \in Sources, DeleteSource(s) \/ CleanupDelete(s),
             NEW x \in Subjects, NEW i \in Ids, x[1] # s, db.ext[x] # None, db.ext[x].id = i,
             db.acc[i] # None, ~run[s].crossed
      PROVE  db'.acc[i] # None
  <2>1. Sound(db) /\ RowSound(s, run[s], db, renamed)
    BY <1>1 DEF SyncInvariant, RunsSound
  <2>2. CASE DeleteSource(s)
    <3>1. OwnedIdentities(db, s) \subseteq UsedAccounts(db) /\ OwnedGroups(db, s) \subseteq UsedGroups(db)
      BY <2>1, OwnedAreUsed
    <3>2. db' = DeleteSourceData(db, s, OwnedIdentities(db, s), OwnedGroups(db, s))
      BY <2>2 DEF DeleteSource
    <3>3. SourceGone(db, db', s, OwnedIdentities(db, s), OwnedGroups(db, s))
      BY <2>1, <3>1, <3>2, DeleteKeeps
    <3>4. i \notin OwnedIdentities(db, s)
      BY <1>1 DEF OwnedIdentities, HasOtherProvider
    <3> QED
      BY <1>1, <3>3, <3>4 DEF SourceGone
  <2>3. CASE CleanupDelete(s)
    <3>1. /\ run[s].pc = "cleanup"
          /\ db' = DeleteSourceData(db, s, run[s].owned, run[s].groups)
      BY <2>3 DEF CleanupDelete
    <3>2. run[s].owned \subseteq UsedAccounts(db) /\ run[s].groups \subseteq UsedGroups(db)
      BY <2>1 DEF RowSound
    <3>3. SourceGone(db, db', s, run[s].owned, run[s].groups)
      BY <2>1, <3>1, <3>2, DeleteKeeps
    <3>4. i \notin run[s].owned
      BY <1>1, <2>1, <3>1 DEF RowSound, Uncrossed
    <3> QED
      BY <1>1, <3>3, <3>4 DEF SourceGone
  <2> QED
    BY <1>1, <2>2, <2>3
<1>2. SyncInvariant /\ [Next]_vars =>
        [\A s \in Sources :
           (DeleteSource(s) \/ CleanupDelete(s)) =>
             \A x \in Subjects, i \in Ids :
               (x[1] # s /\ db.ext[x] # None /\ db.ext[x].id = i /\ db.acc[i] # None
                  /\ ~run[s].crossed)
                 => db'.acc[i] # None]_vars
  BY <1>1
<1> QED
  BY <1>2, SyncIsSound, PTL DEF Spec, SharedAccountKept

\* A run disables no account that an active mapping of any source gives, as
\* long as its list of the missing is not crossed by a commit and still has
\* the names of the rows: names being distinct, the call by name hits nobody
\* else.
THEOREM OnlyUnmappedDisabled ==
  ASSUME ~IsFiniteSet(Ids)
  PROVE  Spec => DisableOnlyUnmapped
<1>1. ASSUME SyncInvariant, NEW s \in Sources, DisableUser(s), ~run[s].crossed, NamesCurrent(s),
             NEW x \in Subjects, ActiveUser(db, x), db.acc[db.umap[x].acc] # None,
             dsmUser[db.acc[db.umap[x].acc].name] = "enabled"
      PROVE  dsmUser'[db.acc[db.umap[x].acc].name] = "enabled"
  <2> DEFINE j == db.umap[x].acc
  <2>1. PICK item \in run[s].work :
          run[s].pc = "disable" /\ dsmUser' = [dsmUser EXCEPT ![item[2]] = "disabled"]
    BY <1>1 DEF DisableUser
  <2>2. /\ RunTyped(run[s]) /\ RowSound(s, run[s], db, renamed) /\ Sound(db) /\ db \in Tables
        /\ dsmUser \in [AccountNames -> {"absent", "enabled", "disabled"}]
    BY <1>1 DEF SyncInvariant, RunsTyped, RunsSound, Sound, World
  <2>3. item[1] \in Ids
    BY <2>1, <2>2 DEF RunTyped, UserItem
  <2>4. db.acc[item[1]] # None /\ db.acc[item[1]].name = item[2]
    BY <1>1, <2>1 DEF NamesCurrent
  <2>5. j # item[1]
    BY <1>1, <2>1, <2>2 DEF RowSound, Uncrossed
  <2>6. j \in Ids
    BY <1>1, <2>2, Columns DEF ActiveUser, Rows, UserMap
  <2>7. db.acc[j].name \in AccountNames
    BY <1>1, <2>2, <2>6, Columns DEF Rows, Account
  <2>8. db.acc[j].name # item[2]
    BY <1>1, <2>2, <2>3, <2>4, <2>5, <2>6 DEF Sound, DistinctNames
  <2> QED
    BY <1>1, <2>1, <2>2, <2>7, <2>8
<1>2. SyncInvariant /\ [Next]_vars =>
        [\A s \in Sources : (DisableUser(s) /\ ~run[s].crossed /\ NamesCurrent(s)) =>
           \A x \in Subjects :
             (ActiveUser(db, x) /\ db.acc[db.umap[x].acc] # None
                /\ dsmUser[db.acc[db.umap[x].acc].name] = "enabled")
               => dsmUser'[db.acc[db.umap[x].acc].name] = "enabled"]_vars
  BY <1>1
<1> QED
  BY <1>2, SyncIsSound, PTL DEF Spec, DisableOnlyUnmapped
=============================================================================
