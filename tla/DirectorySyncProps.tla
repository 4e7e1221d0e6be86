-------------------------- MODULE DirectorySyncProps --------------------------
(***************************************************************************)
(* What a directory synchronisation promises.                              *)
(***************************************************************************)
EXTENDS DirectorySync

\* The items of the lists: groups, users, and members with both names.
GroupItem  == Ids \X Names
UserItem   == Ids \X AccountNames
MemberItem == (Ids \X Ids) \X Names \X AccountNames

RunRow ==
  [pc : Phases, policy : Policies \cup {None}, snap : Snapshot \cup {None},
   work : SUBSET (UserItem \cup GroupItem \cup MemberItem), call : UserItem \cup {None},
   failed : BOOLEAN, owned : SUBSET Ids, groups : SUBSET Ids, crossed : BOOLEAN]

\* TypeOK: every table holds rows of its columns, a run is in one of its
\* phases with a list of the kind it works through, and the record of a
\* source has one of the statuses of sync_runs.
TypeOK ==
  /\ src \in [Sources -> {"on", "off", "deleted"}]
  /\ db \in Tables
  /\ dsmUser \in [AccountNames -> {"absent", "enabled", "disabled"}]
  /\ dsmGroup \subseteq Names
  /\ run \in [Sources -> RunRow]
  /\ \A s \in Sources :
       /\ run[s].pc = "map" => run[s].snap # None
       /\ run[s].pc = "groups" => run[s].work \subseteq GroupItem
       /\ run[s].pc \in {"users", "disable", "cleanup"} => run[s].work \subseteq UserItem
       /\ run[s].pc = "members" => run[s].work \subseteq MemberItem
       /\ run[s].call # None => run[s].pc = "users" /\ run[s].call \in run[s].work
  /\ dir \in [Sources -> Directories]
  /\ due \in [Sources -> BOOLEAN]
  /\ record \in [Sources -> {"none", "running", "failed", "success"}]
  /\ banned \subseteq Ids
  /\ renamed \subseteq {"user", "group"} \X Ids

\* IdentityExclusive: two people of one source never end up with one DSM
\* account, whatever names they share with people of other sources, and
\* whatever was deleted and synchronised again in between
\* (linkableIdentityByUsername).
IdentityExclusive ==
  \A x, y \in Subjects :
    (x # y /\ x[1] = y[1] /\ db.ext[x] # None /\ db.ext[y] # None /\ db.ext[x].id # None)
      => db.ext[x].id # db.ext[y].id

\* DatabaseSound: the two together, over every interleaving of the runs.
DatabaseSound == TypeOK /\ IdentityExclusive

\* NamesDistinct: no two accounts, and no two groups, have one name: the
\* UNIQUE columns dsm_username and dsm_groupname are never what makes a
\* synchronisation fail.
NamesDistinct ==
  /\ \A i, j \in Ids :
       (i # j /\ db.acc[i] # None /\ db.acc[j] # None) => db.acc[i].name # db.acc[j].name
  /\ \A g, h \in Ids :
       (g # h /\ db.grp[g] # None /\ db.grp[h] # None) => db.grp[g].name # db.grp[h].name

\* CreatedExists: an account the database calls created or linked, and a
\* group it calls created, exist in DSM under the name they have now; only a
\* name changed while a run worked on a list with the old one, by an
\* administrator or (a group) by the commit of another run, may escape it.
CreatedExists ==
  /\ \A i \in Ids :
       (db.acc[i] # None /\ Status(i) \in {"created", "linked_existing"}
          /\ <<"user", i>> \notin renamed)
         => dsmUser[db.acc[i].name] # "absent"
  /\ \A g \in Ids :
       (db.grp[g] # None /\ db.grp[g].status = "created" /\ <<"group", g>> \notin renamed)
         => db.grp[g].name \in dsmGroup

\* MappingSettlesMembers: once the mappings of a run are committed, a member
\* is active exactly when an active mapping of some source asks for it, so
\* the departure of a person from one source does not end a membership that
\* another source still gives (ReconcileFinalGroupMembers after
\* DeactivateStaleMappings).
MappingSettlesMembers ==
  [][\A s \in Sources : CommitMappings(s) =>
       \A m \in Ids \X Ids :
         db'.mem[m] # None => (db'.mem[m].active <=> Mapped(db', m))]_vars

\* SharedAccountKept: removing the data of a source, by cleanup or deletion,
\* never takes away an account that a person of another source still has,
\* unless that source was mapped while the cleanup was disabling users.
SharedAccountKept ==
  [][\A s \in Sources :
       (DeleteSource(s) \/ CleanupDelete(s)) =>
         \A x \in Subjects, i \in Ids :
           (x[1] # s /\ db.ext[x] # None /\ db.ext[x].id = i /\ db.acc[i] # None
              /\ ~run[s].crossed)
             => db'.acc[i] # None]_vars

\* The accounts of the run's list still have the names they were read with.
NamesCurrent(s) ==
  \A item \in run[s].work :
    db.acc[item[1]] # None /\ db.acc[item[1]].name = item[2]

\* DisableOnlyUnmapped: a run that disables missing users never disables an
\* account that an active mapping of any source still gives, unless since the
\* list of missing users was read a mapping was committed or an administrator
\* has given a name of the list away: the Helper is called with the name alone.
DisableOnlyUnmapped ==
  [][\A s \in Sources : (DisableUser(s) /\ ~run[s].crossed /\ NamesCurrent(s)) =>
       \A x \in Subjects :
         (ActiveUser(db, x) /\ db.acc[db.umap[x].acc] # None
            /\ dsmUser[db.acc[db.umap[x].acc].name] = "enabled")
           => dsmUser'[db.acc[db.umap[x].acc].name] = "enabled"]_vars

=============================================================================
