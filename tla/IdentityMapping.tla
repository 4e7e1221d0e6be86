--------------------------- MODULE IdentityMapping ---------------------------
(***************************************************************************)
(* The database half of a directory synchronisation: how a snapshot of an  *)
(* identity source becomes identities, DSM accounts, DSM groups, members   *)
(* and mapping entries (internal/syncsvc and internal/identity).           *)
(*                                                                         *)
(* The tables are one record, db.  A subject is <<source, person>>, a      *)
(* department <<source, unit>>.  An identity and its DSM account are       *)
(* always created and deleted in the same transaction, so both carry the   *)
(* same id.  "updated_at < syncStart" is the bit fresh of a row: it is     *)
(* cleared when a run begins in a later second than the row was written.   *)
(***************************************************************************)
EXTENDS Naturals, FiniteSets, Sequences, SequencesExt

CONSTANTS
  Subjects,       \* the subjects the directories may ever contain
  Units,          \* the departments the directories may ever contain
  UnitOrder,      \* Units in the order the providers list them
  UserName,       \* [Subjects -> Names]: the cleaned display name
  ShortName,      \* [Units -> Names]: the cleaned department name
  PathName,       \* [Units -> Names]: the cleaned department path
  ParentOf,       \* [Units -> Units \cup {None}]
  ReservedUsers, ReservedGroups,
  Names,
  Ids,            \* the uuids, which do not run out; a checked instance bounds them
  None

\* A name that a new account gets while its own is taken: it carries the id.
Placeholder(n, i) == <<n, i>>
AccountNames == Names \cup (Names \X Ids)

(***************************************************************************)
(* The tables and their columns, as far as they are modelled.              *)
(***************************************************************************)
Subject   == [active : BOOLEAN, fresh : BOOLEAN, id : Ids \cup {None}]
Account   == [name : AccountNames, allow : BOOLEAN, managed : BOOLEAN,
              status : {"pending", "created", "linked_existing", "failed",
                        "conflict", "disabled"}]
Unit      == [active : BOOLEAN, fresh : BOOLEAN, link : Ids \cup {None}]
Group     == [name : Names, managed : BOOLEAN,
              status : {"pending", "created", "failed", "conflict"}]
Member    == [active : BOOLEAN,
              status : {"pending", "created", "failed", "disabled", "remove_pending"}]
UserMap   == [active : BOOLEAN, fresh : BOOLEAN, acc : Ids]
GroupMap  == [active : BOOLEAN, fresh : BOOLEAN, grp : Ids]
MemberMap == [active : BOOLEAN, fresh : BOOLEAN, grp : Ids, acc : Ids]

Rows(R) == R \cup {None}

Tables ==
  [ ext   : [Subjects -> Rows(Subject)],
    acc   : [Ids -> Rows(Account)],
    unit  : [Units -> Rows(Unit)],
    grp   : [Ids -> Rows(Group)],
    mem   : [Ids \X Ids -> Rows(Member)],
    umap  : [Subjects -> Rows(UserMap)],
    gmap  : [Units -> Rows(GroupMap)],
    mmap  : [Units \X Subjects -> Rows(MemberMap)],
    spent : SUBSET ({"user", "group"} \X Ids) ]

\* The names are those of people and departments; no name of theirs is a
\* placeholder, which ends in the id of its account.
ASSUME MappingAssumption ==
  /\ IsFiniteSet(Subjects) /\ IsFiniteSet(Units)
  /\ UnitOrder \in Seq(Units)
  /\ UserName \in [Subjects -> Names]
  /\ ShortName \in [Units -> Names] /\ PathName \in [Units -> Names]
  /\ Names \cap (Names \X Ids) = {}
  /\ None \notin Names /\ None \notin Subjects /\ None \notin Units /\ None \notin Ids
  /\ None \notin Subject /\ None \notin Account /\ None \notin Unit /\ None \notin Group

EmptyDb ==
  [ ext  |-> [x \in Subjects |-> None],       \* external_accounts
    acc  |-> [i \in Ids |-> None],            \* app_identities, dsm_accounts
    unit |-> [d \in Units |-> None],          \* provider_groups, group_links
    grp  |-> [g \in Ids |-> None],            \* dsm_groups
    mem  |-> [m \in Ids \X Ids |-> None],     \* group_members
    umap |-> [x \in Subjects |-> None],       \* dsm_mapping_entries 'user'
    gmap |-> [d \in Units |-> None],          \*   'group'
    mmap |-> [k \in Units \X Subjects |-> None],   \* 'member'
    spent |-> {} ]                            \* the ids of rows that were deleted

\* What a SELECT by a UNIQUE column finds, if it finds anything.
Selected(S) == CHOOSE i \in S : TRUE

\* uuid.NewString(): an id that no row has or ever had.
FreshAccountId(db) == Selected({i \in Ids : db.acc[i] = None /\ <<"user", i>> \notin db.spent})
FreshGroupId(db) == Selected({g \in Ids : db.grp[g] = None /\ <<"group", g>> \notin db.spent})

(***************************************************************************)
(* The snapshot: [users: function from the subjects listed to              *)
(* [active, units], units: the departments visible, order: the users in    *)
(* the order of the list, which is that of a Go map], and told, which the  *)
(* transaction adds: whom the platform named when it was asked again for   *)
(* the members of a department (AskedUnits).                               *)
(***************************************************************************)
Listings == UNION {[X -> [active : BOOLEAN, units : SUBSET Units]] : X \in SUBSET Subjects}
MemberLists == [Units -> Seq(Subjects) \cup {None}]
Snapshot == [users : Listings, units : SUBSET Units, order : Seq(Subjects), told : MemberLists]

NothingTold == [d \in Units |-> None]

Active(snap) == {x \in DOMAIN snap.users : snap.users[x].active}

\* validateDirectorySnapshot: something was returned, and every active user
\* has a visible department.
ValidSnapshot(snap) ==
  /\ DOMAIN snap.users # {} \/ snap.units # {}
  /\ \A x \in Active(snap) : snap.users[x].units \cap snap.units # {}

\* Only users, and no department: the departments known are then kept.
UserOnly(snap) == DOMAIN snap.users # {} /\ snap.units = {}

SameNamed(snap, x) == {y \in Active(snap) : UserName[y] = UserName[x]}
SameShort(snap, d) == {e \in snap.units : ShortName[e] = ShortName[d]}

\* disambiguateDuplicateGroupNames: departments of one name are named by path.
GroupName(snap, d) ==
  IF Cardinality(SameShort(snap, d)) > 1 THEN PathName[d] ELSE ShortName[d]

\* inheritedDepartmentSubjects: the department and, through the departments
\* of the snapshot, its parents; a cycle of parents ends the walk.
Inherited(snap, d) ==
  LET up[n \in Nat] ==
        IF n = 0 THEN {d}
        ELSE up[n - 1] \cup {ParentOf[e] : e \in up[n - 1] \cap snap.units}
  IN  up[Cardinality(Units)] \ {None}

\* usersDepartmentMemberships.
MembersOf(snap, d) ==
  {x \in Active(snap) : \E e \in snap.users[x].units : d \in Inherited(snap, e)}
------------------------------------------------------------------------------
\* UpsertProfile: the row keeps its identity, and becomes fresh.
UpsertProfile(db, x, active) ==
  [db EXCEPT !.ext[x] =
     [active |-> active, fresh |-> TRUE,
      id |-> IF db.ext[x] = None THEN None ELSE db.ext[x].id]]

\* identityHasProvider, identityHasDifferentProvider
HasProvider(db, i, s) ==
  \E x \in Subjects : x[1] = s /\ db.ext[x] # None /\ db.ext[x].id = i
HasOtherProvider(db, i, s) ==
  \E x \in Subjects : x[1] # s /\ db.ext[x] # None /\ db.ext[x].id = i

\* Broken: the accounts that may not log in are overlooked.
LoginAccountsNamed(db, n) ==
  {i \in Ids : db.acc[i] # None /\ db.acc[i].name = n /\ db.acc[i].allow}

NamedAccounts(db, n) == {i \in Ids : db.acc[i] # None /\ db.acc[i].name = n}

\* Broken: the source may already have somebody with that account.
LinksAnyone(db, x) ==
  {i \in NamedAccounts(db, UserName[x]) : HasOtherProvider(db, i, x[1])}

\* The account of an identity of another source that has the person's name:
\* the two are taken for the same person.
LinkTargets(db, x) ==
  {i \in NamedAccounts(db, UserName[x]) :
     HasOtherProvider(db, i, x[1]) /\ ~HasProvider(db, i, x[1])}

\* ResolveOrCreateIdentityWithLinkedExisting and EnsureDSMAccountWithCreated:
\* keep the identity, take another source's, or make one with its account;
\* a new account whose name is taken gets a placeholder and is in conflict.
ResolveIdentity(db, x) ==
  IF db.ext[x].id # None /\ db.acc[db.ext[x].id] # None THEN db
  ELSE IF LinkTargets(db, x) # {}
  THEN [db EXCEPT !.ext[x].id = Selected(LinkTargets(db, x))]
  ELSE LET i == FreshAccountId(db)
           taken == NamedAccounts(db, UserName[x]) # {}
       IN  [db EXCEPT
              !.ext[x].id = i,
              !.acc[i] =
                [name    |-> IF taken THEN Placeholder(UserName[x], i) ELSE UserName[x],
                 status  |-> IF taken THEN "conflict" ELSE "pending",
                 allow   |-> ~taken,
                 managed |-> TRUE]]

\* MarkDSMAccountConflict
MarkAccountConflict(db, i) ==
  [db EXCEPT !.acc[i].status = "conflict", !.acc[i].allow = FALSE]

\* The checks of SyncProvider on the account: a reserved name, and a new
\* account whose owner shares a name with another user of the snapshot.
JudgeAccount(before, db, snap, x) ==
  LET i == db.ext[x].id
      created == before.acc[i] = None
  IN  IF \/ db.acc[i].name \in ReservedUsers
         \/ created /\ Cardinality(SameNamed(snap, x)) > 1 /\ db.acc[i].managed
      THEN MarkAccountConflict(db, i)
      ELSE db

\* EnsureDSMUserMapping, which SyncProvider skips for an account in conflict
EnsureUserMapping(db, x) ==
  IF db.acc[db.ext[x].id].status = "conflict" THEN db
  ELSE [db EXCEPT !.umap[x] = [active |-> TRUE, fresh |-> TRUE, acc |-> db.ext[x].id]]

\* Broken: a suspended person is mapped like the others.
MapsEveryone(db, snap, x) ==
  LET seen == UpsertProfile(db, x, TRUE)
  IN  EnsureUserMapping(JudgeAccount(seen, ResolveIdentity(seen, x), snap, x), x)

\* One turn of SyncProvider's loop over the users of the snapshot.
MapUser(db, snap, x) ==
  IF ~snap.users[x].active THEN UpsertProfile(db, x, FALSE)
  ELSE LET seen == UpsertProfile(db, x, TRUE)
       IN  EnsureUserMapping(JudgeAccount(seen, ResolveIdentity(seen, x), snap, x), x)
------------------------------------------------------------------------------
\* ProviderGroupsToDSMGroups and ExternalToDSMAccounts: the departments with a
\* DSM group, the subjects with a DSM account.
HasGroup(db, d) ==
  db.unit[d] # None /\ db.unit[d].link # None /\ db.grp[db.unit[d].link] # None
HasAccount(db, x) ==
  db.ext[x] # None /\ db.ext[x].id # None /\ db.acc[db.ext[x].id] # None

LinkedUnits(db, g) == {d \in Units : db.unit[d] # None /\ db.unit[d].link = g}
NamedGroups(db, n) == {g \in Ids : db.grp[g] # None /\ db.grp[g].name = n}

\* canLinkGroupToDifferentProvider
CanLinkGroup(db, g, s) ==
  /\ \E d \in LinkedUnits(db, g) : d[1] # s
  /\ \A d \in LinkedUnits(db, g) : d[1] # s

NewGroup(n) == [name |-> n, status |-> "pending", managed |-> TRUE]

\* EnsureProviderGroup
UpsertUnit(db, d) ==
  [db EXCEPT !.unit[d] =
     [active |-> TRUE, fresh |-> TRUE,
      link |-> IF db.unit[d] = None THEN None ELSE db.unit[d].link]]

\* EnsureDSMGroupWithLinkedExisting for a department that has a DSM group:
\* follow a change of name, taking over another source's group of that name,
\* leaving a group shared with another department, or renaming it.
RenameLinked(db, d, n) ==
  LET g == db.unit[d].link
      taken == NamedGroups(db, n) \ {g}
      h == FreshGroupId(db)
  IN  IF ~db.grp[g].managed \/ db.grp[g].name = n THEN db
      ELSE IF taken # {}
      THEN IF CanLinkGroup(db, Selected(taken), d[1])
           THEN [db EXCEPT !.unit[d].link = Selected(taken)]
           ELSE [db EXCEPT !.grp[g].status = "conflict"]
      ELSE IF Cardinality(LinkedUnits(db, g)) > 1
      THEN [db EXCEPT !.grp[h] = NewGroup(n), !.unit[d].link = h]
      ELSE [db EXCEPT !.grp[g].name = n, !.grp[g].status = "pending"]

\* ... and for a department that has none; EnsureGroupLink then links it.
FindGroup(db, d, n) ==
  LET taken == NamedGroups(db, n)
      g == Selected(taken)
      h == FreshGroupId(db)
  IN  IF taken = {}
      THEN [db EXCEPT !.grp[h] = NewGroup(n), !.unit[d].link = h]
      ELSE IF CanLinkGroup(db, g, d[1]) THEN [db EXCEPT !.unit[d].link = g]
      ELSE [db EXCEPT !.grp[g].status = "conflict", !.unit[d].link = g]

\* The checks of SyncProvider on the group: a reserved name, and departments
\* of one short name (MarkDSMGroupConflict).
JudgeGroup(db, snap, d) ==
  LET g == db.unit[d].link
  IN  IF \/ db.grp[g].name \in ReservedGroups
         \/ Cardinality(SameShort(snap, d)) > 1 /\ db.grp[g].managed
      THEN [db EXCEPT !.grp[g].status = "conflict"]
      ELSE db

\* EnsureDSMGroupMapping, skipped for a group in conflict
EnsureGroupMapping(db, d) ==
  LET g == db.unit[d].link
  IN  IF db.grp[g].status = "conflict" THEN db
      ELSE [db EXCEPT !.gmap[d] = [active |-> TRUE, fresh |-> TRUE, grp |-> g]]

\* One turn of SyncProvider's loop over the departments of the snapshot.
MapUnit(db, snap, d) ==
  IF d \notin snap.units THEN db
  ELSE LET seen == UpsertUnit(db, d)
           found == IF HasGroup(seen, d) THEN RenameLinked(seen, d, GroupName(snap, d))
                                         ELSE FindGroup(seen, d, GroupName(snap, d))
       IN  EnsureGroupMapping(JudgeGroup(found, snap, d), d)
------------------------------------------------------------------------------
\* The status EnsureGroupMember and ReconcileFinalGroupMembers give a member
\* that comes back.
Returned(m) ==
  [active |-> TRUE,
   status |-> IF m.status \in {"disabled", "remove_pending"} THEN "pending" ELSE m.status]

\* EnsureDSMMemberMapping and EnsureGroupMember, which SyncProvider calls for
\* the members whose group and account exist and are not in conflict.
EnsureMember(db, d, x) ==
  LET g == db.unit[d].link
      i == db.ext[x].id
      m == <<g, i>>
  IN  IF ~HasGroup(db, d) \/ ~HasAccount(db, x) THEN db
      ELSE IF db.grp[g].status = "conflict" \/ db.acc[i].status = "conflict" THEN db
      ELSE [db EXCEPT
              !.mmap[<<d, x>>] = [active |-> TRUE, fresh |-> TRUE, grp |-> g, acc |-> i],
              !.mem[m] = IF db.mem[m] = None
                         THEN [active |-> TRUE, status |-> "pending"]
                         ELSE Returned(db.mem[m])]

\* "len(membersByGroup) == 0": nobody of the snapshot is active (an active user
\* has a visible department).  The members are then whom the platform names, be
\* they suspended or new, and not those of the snapshot.
Relists(snap) == Active(snap) = {}

\* Broken: without anybody active, whoever has an account is mapped again.
MapsAnybody(snap, d) ==
  IF ~Relists(snap) THEN snap.order ELSE SetToSeq(Subjects)

\* The list a department's members are taken from.
MemberOrder(snap, d) ==
  IF ~Relists(snap) THEN snap.order ELSE IF snap.told[d] # None THEN snap.told[d] ELSE <<>>

\* One turn over the members of a department.
MapMember(db, snap, d, x) ==
  IF Relists(snap) \/ x \in MembersOf(snap, d) THEN EnsureMember(db, d, x) ELSE db

\* One turn over the departments, for their members.
MapMembers(db, snap, d) ==
  IF d \notin snap.units THEN db
  ELSE FoldLeft(LAMBDA acc, x : MapMember(acc, snap, d, x), db, MemberOrder(snap, d))

\* The three loops of SyncProvider: users, departments, members.
MapAllUsers(db, snap) == FoldLeft(LAMBDA acc, x : MapUser(acc, snap, x), db, snap.order)
MapAllUnits(db, snap) == FoldLeft(LAMBDA acc, d : MapUnit(acc, snap, d), db, UnitOrder)
MapAllMembers(db, snap) == FoldLeft(LAMBDA acc, d : MapMembers(acc, snap, d), db, UnitOrder)

\* The departments that SyncProvider has yet to ask the platform about.
AskedUnits(db, snap) ==
  LET seen == MapAllUnits(MapAllUsers(db, snap), snap)
  IN  {d \in snap.units : /\ Relists(snap) /\ snap.told[d] = None
                          /\ HasGroup(seen, d)
                          /\ seen.grp[seen.unit[d].link].status # "conflict"}

MapSnapshot(db, snap) ==
  MapAllMembers(MapAllUnits(MapAllUsers(db, snap), snap), snap)

\* Broken: the time of the row is not compared with the start of the run.
StaleOrNot(row) == row # None /\ row.active

\* A row of the source that this run did not write.
Stale(row) == row # None /\ row.active /\ ~row.fresh
Retired(row) == [row EXCEPT !.active = FALSE, !.fresh = TRUE]

RetireUsers(db, s) ==
  [db EXCEPT !.umap = [x \in Subjects |->
     IF x[1] = s /\ Stale(db.umap[x]) THEN Retired(db.umap[x]) ELSE db.umap[x]]]

\* DeactivateStaleMappings: all types, or the users alone.
DeactivateStaleMappings(db, s, usersOnly) ==
  IF usersOnly THEN RetireUsers(db, s)
  ELSE [RetireUsers(db, s) EXCEPT
          !.gmap = [d \in Units |->
             IF d[1] = s /\ Stale(db.gmap[d]) THEN Retired(db.gmap[d]) ELSE db.gmap[d]],
          !.mmap = [k \in Units \X Subjects |->
             IF k[1][1] = s /\ Stale(db.mmap[k]) THEN Retired(db.mmap[k]) ELSE db.mmap[k]]]

Mapped(db, m) ==
  \E k \in Units \X Subjects :
    /\ db.mmap[k] # None /\ db.mmap[k].active
    /\ <<db.mmap[k].grp, db.mmap[k].acc>> = m

\* ReconcileFinalGroupMembers: over the members of every source.
ReconcileFinalGroupMembers(db) ==
  [db EXCEPT !.mem = [m \in Ids \X Ids |->
     IF db.mem[m] = None THEN None
     ELSE IF db.mem[m].active /\ ~Mapped(db, m)
     THEN [active |-> FALSE, status |-> "disabled"]
     ELSE IF ~db.mem[m].active /\ Mapped(db, m) THEN Returned(db.mem[m])
     ELSE db.mem[m]]]

\* Broken: the members are settled before the missing mappings are retired.
SettlesTooEarly(db, s, snap, policy) ==
  LET settled == ReconcileFinalGroupMembers(MapSnapshot(db, snap))
  IN  IF policy.deactivate
      THEN DeactivateStaleMappings(settled, s, UserOnly(snap))
      ELSE settled

\* SyncProvider: users, departments, members, then what the snapshot lacks,
\* all in one transaction.
SyncProvider(db, s, snap, policy) ==
  LET members == MapSnapshot(db, snap)
      retired == IF policy.deactivate
                 THEN DeactivateStaleMappings(members, s, UserOnly(snap))
                 ELSE members
  IN  ReconcileFinalGroupMembers(retired)

\* The second retirement, after the transaction: the departments and subjects
\* as well (syncSourceToDSMWithBuffer).
RetireSubjects(db, s) ==
  [db EXCEPT !.ext = [x \in Subjects |->
     IF x[1] = s /\ Stale(db.ext[x]) THEN Retired(db.ext[x]) ELSE db.ext[x]]]

RetireUnits(db, s) ==
  [db EXCEPT !.unit = [d \in Units |->
     IF d[1] = s /\ Stale(db.unit[d]) THEN Retired(db.unit[d]) ELSE db.unit[d]]]

RetireMissing(db, s, keepUnits) ==
  LET mappings == DeactivateStaleMappings(RetireSubjects(db, s), s, keepUnits)
  IN  IF keepUnits THEN mappings ELSE RetireUnits(mappings, s)

\* A run that begins in a later second than the rows of its source were
\* written: none of them is newer than its syncStart.
Age(db, s) ==
  LET Old(row) == IF row = None THEN None ELSE [row EXCEPT !.fresh = FALSE]
  IN  [db EXCEPT
         !.ext  = [x \in Subjects |-> IF x[1] = s THEN Old(db.ext[x]) ELSE db.ext[x]],
         !.umap = [x \in Subjects |-> IF x[1] = s THEN Old(db.umap[x]) ELSE db.umap[x]],
         !.unit = [d \in Units |-> IF d[1] = s THEN Old(db.unit[d]) ELSE db.unit[d]],
         !.gmap = [d \in Units |-> IF d[1] = s THEN Old(db.gmap[d]) ELSE db.gmap[d]],
         !.mmap = [k \in Units \X Subjects |->
                     IF k[1][1] = s THEN Old(db.mmap[k]) ELSE db.mmap[k]]]
------------------------------------------------------------------------------
(***************************************************************************)
(* Removing what one source owns (internal/backend/source_reset.go).       *)
(***************************************************************************)
\* Broken: whatever the source refers to is taken for its own.
ReferredIdentities(db, s) == {i \in Ids : HasProvider(db, i, s)}

\* sourceOwnedIDs: identities and groups that no other source refers to.
OwnedIdentities(db, s) ==
  {i \in Ids : HasProvider(db, i, s) /\ ~HasOtherProvider(db, i, s)}
OwnedGroups(db, s) ==
  {g \in Ids : /\ \E d \in LinkedUnits(db, g) : d[1] = s
               /\ \A d \in LinkedUnits(db, g) : d[1] = s}

\* accountIDsForIdentities
OwnedAccounts(db, s) == {i \in OwnedIdentities(db, s) : db.acc[i] # None}

\* The mappings of the source, which go first.
Unmapped(db, s) ==
  [db EXCEPT
     !.umap = [x \in Subjects |-> IF x[1] = s THEN None ELSE db.umap[x]],
     !.gmap = [d \in Units |-> IF d[1] = s THEN None ELSE db.gmap[d]],
     !.mmap = [k \in Units \X Subjects |-> IF k[1][1] = s THEN None ELSE db.mmap[k]]]

\* deleteIdentitySourceDataWithIDs, with the ids found earlier.
DeleteSourceData(db, s, ids, gids) ==
  LET unmapped == Unmapped(db, s)
      Kept(m) == IF m[1] \in gids \/ m[2] \in ids THEN None
                 ELSE IF db.mem[m] # None /\ db.mem[m].active /\ ~Mapped(unmapped, m)
                 THEN [active |-> FALSE, status |-> "remove_pending"]
                 ELSE db.mem[m]
  IN  [unmapped EXCEPT
         !.mem  = [m \in Ids \X Ids |-> Kept(m)],
         !.unit = [d \in Units |-> IF d[1] = s THEN None ELSE db.unit[d]],
         !.grp  = [g \in Ids |-> IF g \in gids THEN None ELSE db.grp[g]],
         !.acc  = [i \in Ids |-> IF i \in ids THEN None ELSE db.acc[i]],
         !.ext  = [x \in Subjects |-> IF x[1] = s THEN None ELSE db.ext[x]],
         !.spent = @ \cup ({"user"} \X ids) \cup ({"group"} \X gids)]
=============================================================================
