---------------------------- MODULE MappingProofs ----------------------------
(***************************************************************************)
(* What a synchronisation and a deletion keep of the tables, whatever the  *)
(* directories list and however many accounts there are.                   *)
(***************************************************************************)
EXTENDS IdentityMapping, FiniteSetTheorems, TLAPS

UsedAccounts(d) == {i \in Ids : d.acc[i] # None \/ <<"user", i>> \in d.spent}
UsedGroups(d) == {g \in Ids : d.grp[g] # None \/ <<"group", g>> \in d.spent}

\* The UNIQUE columns dsm_username and dsm_groupname.
DistinctNames(d) ==
  /\ \A i, j \in Ids :
       (i # j /\ d.acc[i] # None /\ d.acc[j] # None) => d.acc[i].name # d.acc[j].name
  /\ \A g, h \in Ids :
       (g # h /\ d.grp[g] # None /\ d.grp[h] # None) => d.grp[g].name # d.grp[h].name

\* A name that is a placeholder is the one of its own account.
OwnPlaceholders(d) ==
  \A i \in Ids : d.acc[i] # None => d.acc[i].name \in Names \cup (Names \X {i})

\* Two people of one source have two accounts.
OneAccountEach(d) ==
  \A x, y \in Subjects :
    (x # y /\ x[1] = y[1] /\ d.ext[x] # None /\ d.ext[y] # None /\ d.ext[x].id # None)
      => d.ext[x].id # d.ext[y].id

\* What a row refers to is, or was, a row: a new row gets no reference that
\* was meant for another one.
ReferencesUsed(d) ==
  /\ \A x \in Subjects : (d.ext[x] # None /\ d.ext[x].id # None) => d.ext[x].id \in UsedAccounts(d)
  /\ \A u \in Units : (d.unit[u] # None /\ d.unit[u].link # None) => d.unit[u].link \in UsedGroups(d)

\* An id is not used again.
SpentGone(d) ==
  \A i \in Ids : /\ <<"user", i>> \in d.spent => d.acc[i] = None
                 /\ <<"group", i>> \in d.spent => d.grp[i] = None

FiniteUse(d) == IsFiniteSet(UsedAccounts(d)) /\ IsFiniteSet(UsedGroups(d))

\* The invariant of the tables.
Sound(d) ==
  /\ d \in Tables
  /\ DistinctNames(d) /\ OwnPlaceholders(d) /\ OneAccountEach(d)
  /\ ReferencesUsed(d) /\ SpentGone(d) /\ FiniteUse(d)

IsUsed(d, i) == d.acc[i].status \in {"created", "linked_existing"}

\* From d to e accounts and groups are added and none is called created that
\* was not so under the same name.
Grows(d, e) ==
  /\ e.spent = d.spent
  /\ \A i \in Ids :
       /\ d.acc[i] # None => e.acc[i] # None /\ e.acc[i].name = d.acc[i].name
       /\ (e.acc[i] # None /\ IsUsed(e, i)) => (d.acc[i] # None /\ IsUsed(d, i))
       /\ d.grp[i] # None => e.grp[i] # None
       /\ (e.grp[i] # None /\ e.grp[i].status = "created") =>
            d.grp[i] # None /\ d.grp[i].status = "created" /\ e.grp[i].name = d.grp[i].name

\* From d to e no account or group comes, goes or changes its name, and no
\* reference is new.
SameRows(d, e) ==
  /\ e \in Tables /\ e.spent = d.spent
  /\ \A i \in Ids :
       /\ e.acc[i] = None <=> d.acc[i] = None
       /\ e.grp[i] = None <=> d.grp[i] = None
       /\ d.acc[i] # None => e.acc[i].name = d.acc[i].name
       /\ d.grp[i] # None => e.grp[i].name = d.grp[i].name
  /\ \A x \in Subjects : (e.ext[x] # None /\ e.ext[x].id # None) =>
       d.ext[x] # None /\ e.ext[x].id = d.ext[x].id
  /\ \A u \in Units : (e.unit[u] # None /\ e.unit[u].link # None) =>
       d.unit[u] # None /\ e.unit[u].link = d.unit[u].link

LEMMA Columns ==
  ASSUME NEW d \in Tables
  PROVE  /\ d.ext \in [Subjects -> Rows(Subject)] /\ d.acc \in [Ids -> Rows(Account)]
         /\ d.unit \in [Units -> Rows(Unit)] /\ d.grp \in [Ids -> Rows(Group)]
         /\ d.mem \in [Ids \X Ids -> Rows(Member)] /\ d.umap \in [Subjects -> Rows(UserMap)]
         /\ d.gmap \in [Units -> Rows(GroupMap)]
         /\ d.mmap \in [Units \X Subjects -> Rows(MemberMap)]
         /\ d.spent \in SUBSET ({"user", "group"} \X Ids)
  BY DEF Tables

\* Writing one row of a table: it is a table again, and the others stay.
WithExt(d, x, r) == [d EXCEPT !.ext[x] = r]

LEMMA PutExt ==
  ASSUME NEW d \in Tables, NEW x \in Subjects, NEW r \in Subject, NEW e, e = WithExt(d, x, r)
  PROVE  /\ e \in Tables /\ \A k \in Subjects : e.ext[k] = IF k = x THEN r ELSE d.ext[k]
         /\ e.acc = d.acc /\ e.unit = d.unit /\ e.grp = d.grp /\ e.mem = d.mem
         /\ e.umap = d.umap /\ e.gmap = d.gmap /\ e.mmap = d.mmap /\ e.spent = d.spent
<1>1. d.ext \in [Subjects -> Rows(Subject)]
  BY Columns
<1>2. [d.ext EXCEPT ![x] = r] \in [Subjects -> Rows(Subject)]
  BY <1>1 DEF Rows
<1>3. [d EXCEPT !.ext[x] = r] \in Tables
  BY <1>2 DEF Tables
<1>4. /\ e.ext = [d.ext EXCEPT ![x] = r]
      /\ e.acc = d.acc /\ e.unit = d.unit /\ e.grp = d.grp /\ e.mem = d.mem
      /\ e.umap = d.umap /\ e.gmap = d.gmap /\ e.mmap = d.mmap /\ e.spent = d.spent
  BY DEF Tables, WithExt
<1> QED
  BY <1>1, <1>3, <1>4 DEF WithExt

WithAcc(d, i, r) == [d EXCEPT !.acc[i] = r]

LEMMA PutAcc ==
  ASSUME NEW d \in Tables, NEW i \in Ids, NEW r \in Account, NEW e, e = WithAcc(d, i, r)
  PROVE  /\ e \in Tables /\ \A k \in Ids : e.acc[k] = IF k = i THEN r ELSE d.acc[k]
         /\ e.ext = d.ext /\ e.unit = d.unit /\ e.grp = d.grp /\ e.mem = d.mem
         /\ e.umap = d.umap /\ e.gmap = d.gmap /\ e.mmap = d.mmap /\ e.spent = d.spent
<1>1. d.acc \in [Ids -> Rows(Account)]
  BY Columns
<1>2. [d.acc EXCEPT ![i] = r] \in [Ids -> Rows(Account)]
  BY <1>1 DEF Rows
<1>3. [d EXCEPT !.acc[i] = r] \in Tables
  BY <1>2 DEF Tables
<1>4. /\ e.acc = [d.acc EXCEPT ![i] = r]
      /\ e.ext = d.ext /\ e.unit = d.unit /\ e.grp = d.grp /\ e.mem = d.mem
      /\ e.umap = d.umap /\ e.gmap = d.gmap /\ e.mmap = d.mmap /\ e.spent = d.spent
  BY DEF Tables, WithAcc
<1> QED
  BY <1>1, <1>3, <1>4 DEF WithAcc

WithUnit(d, u, r) == [d EXCEPT !.unit[u] = r]

LEMMA PutUnit ==
  ASSUME NEW d \in Tables, NEW u \in Units, NEW r \in Unit, NEW e, e = WithUnit(d, u, r)
  PROVE  /\ e \in Tables /\ \A k \in Units : e.unit[k] = IF k = u THEN r ELSE d.unit[k]
         /\ e.ext = d.ext /\ e.acc = d.acc /\ e.grp = d.grp /\ e.mem = d.mem
         /\ e.umap = d.umap /\ e.gmap = d.gmap /\ e.mmap = d.mmap /\ e.spent = d.spent
<1>1. d.unit \in [Units -> Rows(Unit)]
  BY Columns
<1>2. [d.unit EXCEPT ![u] = r] \in [Units -> Rows(Unit)]
  BY <1>1 DEF Rows
<1>3. [d EXCEPT !.unit[u] = r] \in Tables
  BY <1>2 DEF Tables
<1>4. /\ e.unit = [d.unit EXCEPT ![u] = r]
      /\ e.ext = d.ext /\ e.acc = d.acc /\ e.grp = d.grp /\ e.mem = d.mem
      /\ e.umap = d.umap /\ e.gmap = d.gmap /\ e.mmap = d.mmap /\ e.spent = d.spent
  BY DEF Tables, WithUnit
<1> QED
  BY <1>1, <1>3, <1>4 DEF WithUnit

WithGrp(d, i, r) == [d EXCEPT !.grp[i] = r]

LEMMA PutGrp ==
  ASSUME NEW d \in Tables, NEW i \in Ids, NEW r \in Group, NEW e, e = WithGrp(d, i, r)
  PROVE  /\ e \in Tables /\ \A k \in Ids : e.grp[k] = IF k = i THEN r ELSE d.grp[k]
         /\ e.ext = d.ext /\ e.acc = d.acc /\ e.unit = d.unit /\ e.mem = d.mem
         /\ e.umap = d.umap /\ e.gmap = d.gmap /\ e.mmap = d.mmap /\ e.spent = d.spent
<1>1. d.grp \in [Ids -> Rows(Group)]
  BY Columns
<1>2. [d.grp EXCEPT ![i] = r] \in [Ids -> Rows(Group)]
  BY <1>1 DEF Rows
<1>3. [d EXCEPT !.grp[i] = r] \in Tables
  BY <1>2 DEF Tables
<1>4. /\ e.grp = [d.grp EXCEPT ![i] = r]
      /\ e.ext = d.ext /\ e.acc = d.acc /\ e.unit = d.unit /\ e.mem = d.mem
      /\ e.umap = d.umap /\ e.gmap = d.gmap /\ e.mmap = d.mmap /\ e.spent = d.spent
  BY DEF Tables, WithGrp
<1> QED
  BY <1>1, <1>3, <1>4 DEF WithGrp

WithUmap(d, x, r) == [d EXCEPT !.umap[x] = r]

LEMMA PutUmap ==
  ASSUME NEW d \in Tables, NEW x \in Subjects, NEW r \in UserMap, NEW e, e = WithUmap(d, x, r)
  PROVE  /\ e \in Tables /\ \A k \in Subjects : e.umap[k] = IF k = x THEN r ELSE d.umap[k]
         /\ e.ext = d.ext /\ e.acc = d.acc /\ e.unit = d.unit /\ e.grp = d.grp
         /\ e.mem = d.mem /\ e.gmap = d.gmap /\ e.mmap = d.mmap /\ e.spent = d.spent
<1>1. d.umap \in [Subjects -> Rows(UserMap)]
  BY Columns
<1>2. [d.umap EXCEPT ![x] = r] \in [Subjects -> Rows(UserMap)]
  BY <1>1 DEF Rows
<1>3. [d EXCEPT !.umap[x] = r] \in Tables
  BY <1>2 DEF Tables
<1>4. /\ e.umap = [d.umap EXCEPT ![x] = r]
      /\ e.ext = d.ext /\ e.acc = d.acc /\ e.unit = d.unit /\ e.grp = d.grp
      /\ e.mem = d.mem /\ e.gmap = d.gmap /\ e.mmap = d.mmap /\ e.spent = d.spent
  BY DEF Tables, WithUmap
<1> QED
  BY <1>1, <1>3, <1>4 DEF WithUmap

WithGmap(d, u, r) == [d EXCEPT !.gmap[u] = r]

LEMMA PutGmap ==
  ASSUME NEW d \in Tables, NEW u \in Units, NEW r \in GroupMap, NEW e, e = WithGmap(d, u, r)
  PROVE  /\ e \in Tables /\ \A k \in Units : e.gmap[k] = IF k = u THEN r ELSE d.gmap[k]
         /\ e.ext = d.ext /\ e.acc = d.acc /\ e.unit = d.unit /\ e.grp = d.grp
         /\ e.mem = d.mem /\ e.umap = d.umap /\ e.mmap = d.mmap /\ e.spent = d.spent
<1>1. d.gmap \in [Units -> Rows(GroupMap)]
  BY Columns
<1>2. [d.gmap EXCEPT ![u] = r] \in [Units -> Rows(GroupMap)]
  BY <1>1 DEF Rows
<1>3. [d EXCEPT !.gmap[u] = r] \in Tables
  BY <1>2 DEF Tables
<1>4. /\ e.gmap = [d.gmap EXCEPT ![u] = r]
      /\ e.ext = d.ext /\ e.acc = d.acc /\ e.unit = d.unit /\ e.grp = d.grp
      /\ e.mem = d.mem /\ e.umap = d.umap /\ e.mmap = d.mmap /\ e.spent = d.spent
  BY DEF Tables, WithGmap
<1> QED
  BY <1>1, <1>3, <1>4 DEF WithGmap

LEMMA SameRowsSound ==
  ASSUME NEW d, NEW e, Sound(d), SameRows(d, e)
  PROVE  Sound(e)
<1>1. e \in Tables
  BY DEF SameRows
<1>2. DistinctNames(e) /\ OwnPlaceholders(e)
  BY DEF SameRows, Sound, DistinctNames, OwnPlaceholders
<1>3. OneAccountEach(e)
  BY DEF SameRows, Sound, OneAccountEach
<1>4. UsedAccounts(e) = UsedAccounts(d) /\ UsedGroups(e) = UsedGroups(d)
  BY DEF SameRows, UsedAccounts, UsedGroups
<1>5. ReferencesUsed(e)
  BY <1>4 DEF SameRows, Sound, ReferencesUsed
<1>6. SpentGone(e) /\ FiniteUse(e)
  BY <1>4 DEF SameRows, Sound, SpentGone, FiniteUse
<1> QED
  BY <1>1, <1>2, <1>3, <1>5, <1>6 DEF Sound

LEMMA GrowsOn ==
  ASSUME NEW c, NEW d, NEW e, Grows(c, d), Grows(d, e)
  PROVE  Grows(c, e)
  BY DEF Grows

LEMMA SelectedIn ==
  ASSUME NEW S, S # {}
  PROVE  Selected(S) \in S
  BY DEF Selected

\* An id that was never used can be had, as long as ids do not run out.
LEMMA FreshIds ==
  ASSUME NEW d, Sound(d), ~IsFiniteSet(Ids)
  PROVE  /\ FreshAccountId(d) \in Ids \ UsedAccounts(d)
         /\ FreshGroupId(d) \in Ids \ UsedGroups(d)
<1> DEFINE A == {i \in Ids : d.acc[i] = None /\ <<"user", i>> \notin d.spent}
           G == {g \in Ids : d.grp[g] = None /\ <<"group", g>> \notin d.spent}
<1>1. A = Ids \ UsedAccounts(d) /\ G = Ids \ UsedGroups(d)
  BY DEF UsedAccounts, UsedGroups
<1>2. UsedAccounts(d) \subseteq Ids /\ UsedGroups(d) \subseteq Ids
  BY DEF UsedAccounts, UsedGroups
<1>3. UsedAccounts(d) # Ids /\ UsedGroups(d) # Ids
  BY DEF Sound, FiniteUse
<1>4. A # {} /\ G # {}
  BY <1>1, <1>2, <1>3
<1>5. Selected(A) \in A /\ Selected(G) \in G
  BY <1>4, SelectedIn
<1> QED
  BY <1>1, <1>5 DEF FreshAccountId, FreshGroupId
------------------------------------------------------------------------------
(***************************************************************************)
(* One turn of the loop over the users.                                    *)
(***************************************************************************)
LEMMA UpsertProfileKeeps ==
  ASSUME NEW d \in Tables, NEW x \in Subjects, NEW active \in BOOLEAN,
         NEW e, e = UpsertProfile(d, x, active)
  PROVE  /\ SameRows(d, e) /\ Grows(d, e)
         /\ e.ext[x] # None /\ e.acc = d.acc /\ e.umap = d.umap
<1> DEFINE r == [active |-> active, fresh |-> TRUE,
                 id |-> IF d.ext[x] = None THEN None ELSE d.ext[x].id]
<1>1. r \in Subject /\ r # None
  <2>1. d.ext[x] = None \/ d.ext[x] \in Subject
    BY Columns DEF Rows
  <2>2. r \in Subject
    BY <2>1 DEF Subject
  <2> QED
    BY <2>2, MappingAssumption
<1>2. e = WithExt(d, x, r)
  BY DEF UpsertProfile, WithExt
<1>3. r.id = IF d.ext[x] = None THEN None ELSE d.ext[x].id
  OBVIOUS
<1> HIDE DEF r
<1>4. /\ e \in Tables /\ \A y \in Subjects : e.ext[y] = IF y = x THEN r ELSE d.ext[y]
      /\ e.acc = d.acc /\ e.unit = d.unit /\ e.grp = d.grp /\ e.umap = d.umap /\ e.spent = d.spent
  BY <1>1, <1>2, PutExt
<1>5. SameRows(d, e)
  BY <1>3, <1>4 DEF SameRows
<1>6. Grows(d, e)
  BY <1>4 DEF Grows, IsUsed
<1> QED
  BY <1>1, <1>4, <1>5, <1>6

LEMMA MarkAccountConflictKeeps ==
  ASSUME NEW d \in Tables, NEW i \in Ids, d.acc[i] # None,
         NEW e, e = MarkAccountConflict(d, i)
  PROVE  SameRows(d, e) /\ Grows(d, e) /\ e.ext = d.ext
<1> DEFINE r == [d.acc[i] EXCEPT !.status = "conflict", !.allow = FALSE]
<1>1. d.acc[i] \in Account
  BY Columns DEF Rows
<1>2. r \in Account /\ r.name = d.acc[i].name /\ r.status = "conflict"
  BY <1>1 DEF Account
<1>3. e = WithAcc(d, i, r)
  BY <1>1 DEF MarkAccountConflict, Tables, WithAcc
<1> HIDE DEF r
<1>4. /\ e \in Tables /\ \A j \in Ids : e.acc[j] = IF j = i THEN r ELSE d.acc[j]
      /\ e.ext = d.ext /\ e.unit = d.unit /\ e.grp = d.grp /\ e.spent = d.spent
  BY <1>2, <1>3, PutAcc
<1>5. r # None
  BY <1>2, MappingAssumption
<1>6. SameRows(d, e)
  BY <1>2, <1>4, <1>5 DEF SameRows
<1>7. Grows(d, e)
  BY <1>2, <1>4, <1>5 DEF Grows, IsUsed
<1> QED
  BY <1>4, <1>6, <1>7

LEMMA JudgeAccountKeeps ==
  ASSUME NEW d \in Tables, NEW x \in Subjects, HasAccount(d, x), NEW before, NEW snap,
         NEW e, e = JudgeAccount(before, d, snap, x)
  PROVE  SameRows(d, e) /\ Grows(d, e) /\ e.ext = d.ext
<1> DEFINE i == d.ext[x].id
<1>1. i \in Ids /\ d.acc[i] # None
  BY Columns DEF HasAccount, Rows, Subject
<1>2. CASE e = d
  BY <1>2 DEF SameRows, Grows, IsUsed
<1>3. CASE e = MarkAccountConflict(d, i)
  BY <1>1, <1>3, MarkAccountConflictKeeps
<1> QED
  BY <1>2, <1>3 DEF JudgeAccount

LEMMA EnsureUserMappingKeeps ==
  ASSUME NEW d \in Tables, NEW x \in Subjects, HasAccount(d, x),
         NEW e, e = EnsureUserMapping(d, x)
  PROVE  SameRows(d, e) /\ Grows(d, e)
<1> DEFINE r == [active |-> TRUE, fresh |-> TRUE, acc |-> d.ext[x].id]
<1>1. r \in UserMap
  BY Columns DEF HasAccount, Rows, Subject, UserMap
<1>2. CASE e = d
  BY <1>2 DEF SameRows, Grows, IsUsed
<1>3. CASE e = WithUmap(d, x, r)
  <2>1. e \in Tables /\ e.ext = d.ext /\ e.acc = d.acc /\ e.unit = d.unit /\ e.grp = d.grp /\ e.spent = d.spent
    BY <1>1, <1>3, PutUmap
  <2> QED
    BY <2>1 DEF SameRows, Grows, IsUsed
<1> QED
  BY <1>2, <1>3 DEF EnsureUserMapping, WithUmap

\* A person is given the account of one other source, or a new one: it is
\* nobody else's of the own source, and its name is nobody's.
LEMMA LinkKeeps ==
  ASSUME NEW d, Sound(d), NEW x \in Subjects, d.ext[x] # None,
         NEW i \in LinkTargets(d, x), NEW r \in Subject, r.id = i,
         NEW e, e = WithExt(d, x, r)
  PROVE  Sound(e) /\ Grows(d, e) /\ HasAccount(e, x)
<1>1. d \in Tables
  BY DEF Sound
<1>2. i \in Ids /\ d.acc[i] # None
  BY DEF LinkTargets, NamedAccounts
<1>3. \A y \in Subjects : (y[1] = x[1] /\ d.ext[y] # None) => d.ext[y].id # i
  BY DEF LinkTargets, HasProvider
<1>5. r # None /\ i # None
  BY <1>2, MappingAssumption
<1>7. /\ e \in Tables /\ \A y \in Subjects : e.ext[y] = IF y = x THEN r ELSE d.ext[y]
      /\ e.acc = d.acc /\ e.unit = d.unit /\ e.grp = d.grp /\ e.spent = d.spent
  BY <1>1, PutExt
<1>8. UsedAccounts(e) = UsedAccounts(d) /\ UsedGroups(e) = UsedGroups(d) /\ i \in UsedAccounts(d)
  BY <1>2, <1>7 DEF UsedAccounts, UsedGroups
<1>9. DistinctNames(e) /\ OwnPlaceholders(e)
  BY <1>7 DEF Sound, DistinctNames, OwnPlaceholders
<1>10. OneAccountEach(e)
  BY <1>3, <1>5, <1>7 DEF Sound, OneAccountEach
<1>11. ReferencesUsed(e)
  BY <1>7, <1>8 DEF Sound, ReferencesUsed
<1>12. SpentGone(e) /\ FiniteUse(e)
  BY <1>7, <1>8 DEF Sound, SpentGone, FiniteUse
<1>13. Grows(d, e)
  BY <1>7 DEF Grows, IsUsed
<1>14. HasAccount(e, x)
  BY <1>2, <1>5, <1>7 DEF HasAccount
<1> QED
  BY <1>7, <1>9, <1>10, <1>11, <1>12, <1>13, <1>14 DEF Sound

NewAccount(n, i, taken) ==
  [name    |-> IF taken THEN Placeholder(n, i) ELSE n,
   status  |-> IF taken THEN "conflict" ELSE "pending",
   allow   |-> ~taken,
   managed |-> TRUE]

LEMMA CreateAccountKeeps ==
  ASSUME NEW d, Sound(d), NEW x \in Subjects, d.ext[x] # None,
         NEW i \in Ids \ UsedAccounts(d), NEW n \in Names, NEW taken \in BOOLEAN,
         ~taken => NamedAccounts(d, n) = {},
         NEW r \in Subject, r.id = i, NEW c, c = WithExt(d, x, r),
         NEW a, a = NewAccount(n, i, taken), NEW e, e = WithAcc(c, i, a)
  PROVE  Sound(e) /\ Grows(d, e) /\ HasAccount(e, x)
<1>1. d \in Tables
  BY DEF Sound
<1>2. d.acc[i] = None /\ i \in Ids /\ i # None
  BY MappingAssumption DEF UsedAccounts
<1>3. \A y \in Subjects : d.ext[y] # None => d.ext[y].id # i
  BY <1>2 DEF Sound, ReferencesUsed
<1>5. /\ a \in Account
      /\ a.name = (IF taken THEN <<n, i>> ELSE n) /\ a.status \in {"conflict", "pending"}
  BY <1>2 DEF NewAccount, Account, AccountNames, Placeholder
<1>6. r # None /\ a # None
  BY <1>5, MappingAssumption
<1>8. /\ c \in Tables /\ \A y \in Subjects : c.ext[y] = IF y = x THEN r ELSE d.ext[y]
      /\ c.acc = d.acc /\ c.unit = d.unit /\ c.grp = d.grp /\ c.spent = d.spent
  BY <1>1, PutExt
<1>9. /\ e \in Tables /\ \A j \in Ids : e.acc[j] = IF j = i THEN a ELSE d.acc[j]
      /\ \A y \in Subjects : e.ext[y] = IF y = x THEN r ELSE d.ext[y]
      /\ e.unit = d.unit /\ e.grp = d.grp /\ e.spent = d.spent
  BY <1>2, <1>5, <1>8, PutAcc
<1>10. UsedAccounts(e) = UsedAccounts(d) \cup {i} /\ UsedGroups(e) = UsedGroups(d)
  BY <1>2, <1>6, <1>9 DEF UsedAccounts, UsedGroups
<1>11. \A j \in Ids : (j # i /\ d.acc[j] # None) => d.acc[j].name # a.name
  <2>1. CASE taken
    <3>1. a.name \in Names \X {i}
      BY <1>5, <2>1
    <3>2. \A j \in Ids : d.acc[j] # None => d.acc[j].name \in Names \cup (Names \X {j})
      BY DEF Sound, OwnPlaceholders
    <3>3. Names \cap (Names \X Ids) = {}
      BY MappingAssumption
    <3>4. ASSUME NEW j \in Ids, j # i, d.acc[j] # None, d.acc[j].name = a.name PROVE FALSE
      <4>1. a.name \in Names \/ a.name \in Names \X {j}
        BY <3>2, <3>4
      <4>2. a.name \notin Names
        BY <1>2, <3>1, <3>3
      <4>3. a.name[2] = i /\ a.name[2] = j
        BY <3>1, <4>1, <4>2
      <4> QED
        BY <3>4, <4>3
    <3> QED
      BY <3>4
  <2>2. CASE ~taken
    BY <1>5, <2>2 DEF NamedAccounts
  <2> QED
    BY <2>1, <2>2
<1>12. DistinctNames(e)
  BY <1>9, <1>11 DEF Sound, DistinctNames
<1>13. OwnPlaceholders(e)
  BY <1>5, <1>9 DEF Sound, OwnPlaceholders
<1>14. OneAccountEach(e)
  BY <1>3, <1>6, <1>9 DEF Sound, OneAccountEach
<1>15. ReferencesUsed(e)
  BY <1>9, <1>10 DEF Sound, ReferencesUsed
<1>16. SpentGone(e)
  BY <1>9 DEF Sound, SpentGone, UsedAccounts
<1>17. FiniteUse(e)
  BY <1>10, FS_AddElement DEF Sound, FiniteUse
<1>18. Grows(d, e)
  BY <1>2, <1>5, <1>9 DEF Grows, IsUsed
<1>19. HasAccount(e, x)
  BY <1>2, <1>6, <1>9 DEF HasAccount
<1> QED
  BY <1>9, <1>12, <1>13, <1>14, <1>15, <1>16, <1>17, <1>18, <1>19 DEF Sound

LEMMA ResolveIdentityKeeps ==
  ASSUME NEW d, Sound(d), NEW x \in Subjects, d.ext[x] # None, ~IsFiniteSet(Ids),
         NEW e, e = ResolveIdentity(d, x)
  PROVE  Sound(e) /\ Grows(d, e) /\ HasAccount(e, x)
<1> DEFINE i == FreshAccountId(d)
           n == UserName[x]
           taken == NamedAccounts(d, n) # {}
           Linked(k) == [d.ext[x] EXCEPT !.id = k]
<1>1. d \in Tables /\ d.ext[x] \in Subject
  BY Columns DEF Sound, Rows
<1>2. ASSUME NEW k \in Ids PROVE Linked(k) \in Subject /\ Linked(k).id = k
  BY <1>1 DEF Subject
<1>3. CASE HasAccount(d, x)
  BY <1>3 DEF ResolveIdentity, HasAccount, Grows, IsUsed
<1>4. CASE ~HasAccount(d, x) /\ LinkTargets(d, x) # {}
  <2> DEFINE k == Selected(LinkTargets(d, x))
  <2>1. k \in LinkTargets(d, x)
    BY <1>4, SelectedIn
  <2>2. k \in Ids
    BY <2>1 DEF LinkTargets, NamedAccounts
  <2>3. e = WithExt(d, x, Linked(k))
    BY <1>1, <1>4 DEF ResolveIdentity, HasAccount, WithExt, Tables
  <2> HIDE DEF k, Linked
  <2> QED
    BY <1>2, <2>1, <2>2, <2>3, LinkKeeps
<1>5. CASE ~HasAccount(d, x) /\ LinkTargets(d, x) = {}
  <2>1. i \in Ids \ UsedAccounts(d) /\ n \in Names /\ taken \in BOOLEAN
    BY FreshIds, MappingAssumption
  <2>2. e = [d EXCEPT !.ext[x].id = i, !.acc[i] = NewAccount(n, i, taken)]
    BY <1>1, <1>5 DEF ResolveIdentity, HasAccount, NewAccount
  <2>3. ~taken => NamedAccounts(d, n) = {}
    OBVIOUS
  <2> HIDE DEF i, n, taken
  <2>4. e = WithAcc(WithExt(d, x, Linked(i)), i, NewAccount(n, i, taken))
    BY <1>1, <2>2 DEF Tables, WithExt, WithAcc
  <2> HIDE DEF Linked
  <2> QED
    BY <1>2, <2>1, <2>3, <2>4, CreateAccountKeeps
<1> QED
  BY <1>3, <1>4, <1>5

\* One turn keeps the tables sound and only adds to them.
LEMMA MapUserKeeps ==
  ASSUME NEW d, Sound(d), NEW snap, NEW x \in Subjects, ~IsFiniteSet(Ids),
         NEW e, e = MapUser(d, snap, x)
  PROVE  Sound(e) /\ Grows(d, e)
<1>1. d \in Tables
  BY DEF Sound
<1>2. CASE ~snap.users[x].active
  BY <1>1, <1>2, UpsertProfileKeeps, SameRowsSound DEF MapUser
<1>3. CASE snap.users[x].active
  <2> DEFINE c1 == UpsertProfile(d, x, TRUE)
             c2 == ResolveIdentity(c1, x)
             c3 == JudgeAccount(c1, c2, snap, x)
  <2>1. e = EnsureUserMapping(c3, x) /\ c1 = UpsertProfile(d, x, TRUE)
    BY <1>3 DEF MapUser
  <2>2. c2 = ResolveIdentity(c1, x) /\ c3 = JudgeAccount(c1, c2, snap, x)
    OBVIOUS
  <2> HIDE DEF c1, c2, c3
  <2>3. SameRows(d, c1) /\ Grows(d, c1) /\ c1.ext[x] # None
    BY <1>1, <2>1, UpsertProfileKeeps
  <2>4. Sound(c1)
    BY <2>3, SameRowsSound
  <2>5. Sound(c2) /\ Grows(c1, c2) /\ HasAccount(c2, x)
    BY <1>1, <2>2, <2>3, <2>4, ResolveIdentityKeeps
  <2>6. SameRows(c2, c3) /\ Grows(c2, c3) /\ c3.ext = c2.ext
    BY <1>1, <2>2, <2>5, JudgeAccountKeeps DEF Sound
  <2>7. Sound(c3)
    BY <2>5, <2>6, SameRowsSound
  <2>8. c2.ext[x].id \in Ids
    BY <1>1, <2>5, Columns DEF Sound, HasAccount, Rows, Subject
  <2>9. HasAccount(c3, x)
    BY <2>5, <2>6, <2>8 DEF HasAccount, SameRows
  <2>10. SameRows(c3, e) /\ Grows(c3, e)
    BY <1>1, <2>1, <2>7, <2>9, EnsureUserMappingKeeps DEF Sound
  <2>11. Sound(e)
    BY <2>7, <2>10, SameRowsSound
  <2>12. Grows(d, c2)
    BY <2>3, <2>5, GrowsOn
  <2>13. Grows(d, c3)
    BY <2>6, <2>12, GrowsOn
  <2> QED
    BY <2>10, <2>11, <2>13, GrowsOn
<1> QED
  BY <1>2, <1>3
------------------------------------------------------------------------------
(***************************************************************************)
(* One turn of the loop over the departments.                              *)
(***************************************************************************)
LEMMA UpsertUnitKeeps ==
  ASSUME NEW d \in Tables, NEW u \in Units, NEW e, e = UpsertUnit(d, u)
  PROVE  SameRows(d, e) /\ Grows(d, e) /\ e.unit[u] # None
<1> DEFINE r == [active |-> TRUE, fresh |-> TRUE,
                 link |-> IF d.unit[u] = None THEN None ELSE d.unit[u].link]
<1>1. r \in Unit /\ r # None
  <2>1. d.unit[u] = None \/ d.unit[u] \in Unit
    BY Columns DEF Rows
  <2>2. r \in Unit
    BY <2>1 DEF Unit
  <2> QED
    BY <2>2, MappingAssumption
<1>2. e = WithUnit(d, u, r)
  BY DEF UpsertUnit, WithUnit
<1>3. r.link = IF d.unit[u] = None THEN None ELSE d.unit[u].link
  OBVIOUS
<1> HIDE DEF r
<1>4. /\ e \in Tables /\ \A v \in Units : e.unit[v] = IF v = u THEN r ELSE d.unit[v]
      /\ e.acc = d.acc /\ e.ext = d.ext /\ e.grp = d.grp /\ e.spent = d.spent
  BY <1>1, <1>2, PutUnit
<1>5. SameRows(d, e)
  BY <1>3, <1>4 DEF SameRows
<1>6. Grows(d, e)
  BY <1>4 DEF Grows, IsUsed
<1> QED
  BY <1>1, <1>4, <1>5, <1>6

LEMMA RelinkKeeps ==
  ASSUME NEW d, Sound(d), NEW u \in Units, NEW g \in Ids, d.grp[g] # None,
         NEW r \in Unit, r.link = g, NEW e, e = WithUnit(d, u, r)
  PROVE  Sound(e) /\ Grows(d, e) /\ HasGroup(e, u)
<1>1. d \in Tables /\ r # None /\ g # None
  BY MappingAssumption DEF Sound
<1>2. /\ e \in Tables /\ \A v \in Units : e.unit[v] = IF v = u THEN r ELSE d.unit[v]
      /\ e.acc = d.acc /\ e.ext = d.ext /\ e.grp = d.grp /\ e.spent = d.spent
  BY <1>1, PutUnit
<1>3. UsedAccounts(e) = UsedAccounts(d) /\ UsedGroups(e) = UsedGroups(d) /\ g \in UsedGroups(d)
  BY <1>2 DEF UsedAccounts, UsedGroups
<1>4. DistinctNames(e) /\ OwnPlaceholders(e) /\ OneAccountEach(e)
  BY <1>2 DEF Sound, DistinctNames, OwnPlaceholders, OneAccountEach
<1>5. ReferencesUsed(e)
  BY <1>2, <1>3 DEF Sound, ReferencesUsed
<1>6. SpentGone(e) /\ FiniteUse(e)
  BY <1>2, <1>3 DEF Sound, SpentGone, FiniteUse
<1>7. Grows(d, e) /\ HasGroup(e, u)
  BY <1>1, <1>2 DEF Grows, IsUsed, HasGroup
<1> QED
  BY <1>2, <1>4, <1>5, <1>6, <1>7 DEF Sound

\* A group that is marked, or gets a name that is free.
LEMMA RegroupKeeps ==
  ASSUME NEW d, Sound(d), NEW g \in Ids, d.grp[g] # None,
         NEW r \in Group, r.status # "created",
         r.name # d.grp[g].name => NamedGroups(d, r.name) = {},
         NEW e, e = WithGrp(d, g, r)
  PROVE  Sound(e) /\ Grows(d, e) /\ e.unit = d.unit /\ e.grp[g] = r /\ r # None
<1>1. d \in Tables /\ r # None
  BY MappingAssumption DEF Sound
<1>2. /\ e \in Tables /\ \A h \in Ids : e.grp[h] = IF h = g THEN r ELSE d.grp[h]
      /\ e.acc = d.acc /\ e.ext = d.ext /\ e.unit = d.unit /\ e.spent = d.spent
  BY <1>1, PutGrp
<1>3. UsedAccounts(e) = UsedAccounts(d) /\ UsedGroups(e) = UsedGroups(d)
  BY <1>1, <1>2 DEF UsedAccounts, UsedGroups
<1>4. OwnPlaceholders(e) /\ OneAccountEach(e)
  BY <1>2 DEF Sound, OwnPlaceholders, OneAccountEach
<1>5. DistinctNames(e)
  <2>1. \A h \in Ids : (h # g /\ d.grp[h] # None) => d.grp[h].name # r.name
    BY DEF NamedGroups, Sound, DistinctNames
  <2> QED
    BY <1>2, <2>1 DEF Sound, DistinctNames
<1>6. ReferencesUsed(e)
  BY <1>2, <1>3 DEF Sound, ReferencesUsed
<1>7. SpentGone(e) /\ FiniteUse(e)
  BY <1>2, <1>3 DEF Sound, SpentGone, FiniteUse
<1>8. Grows(d, e)
  BY <1>1, <1>2 DEF Grows, IsUsed
<1> QED
  BY <1>1, <1>2, <1>4, <1>5, <1>6, <1>7, <1>8 DEF Sound

\* A new group: no row refers to it yet, and its name is free.
LEMMA CreateGroupKeeps ==
  ASSUME NEW d, Sound(d), NEW h \in Ids \ UsedGroups(d), NEW n \in Names,
         NamedGroups(d, n) = {}, NEW e, e = WithGrp(d, h, NewGroup(n))
  PROVE  Sound(e) /\ Grows(d, e) /\ e.unit = d.unit /\ e.grp[h] # None
<1> DEFINE r == NewGroup(n)
<1>1. d \in Tables /\ d.grp[h] = None /\ h \in Ids
  BY DEF Sound, UsedGroups
<1>2. r \in Group /\ r.name = n /\ r.status = "pending"
  BY DEF NewGroup, Group
<1>3. r # None
  BY <1>2, MappingAssumption
<1>4. e = WithGrp(d, h, r)
  OBVIOUS
<1> HIDE DEF r
<1>5. /\ e \in Tables /\ \A g \in Ids : e.grp[g] = IF g = h THEN r ELSE d.grp[g]
      /\ e.acc = d.acc /\ e.ext = d.ext /\ e.unit = d.unit /\ e.spent = d.spent
  BY <1>1, <1>2, <1>4, PutGrp
<1>6. UsedAccounts(e) = UsedAccounts(d) /\ UsedGroups(e) = UsedGroups(d) \cup {h}
  BY <1>1, <1>3, <1>5 DEF UsedAccounts, UsedGroups
<1>7. OwnPlaceholders(e) /\ OneAccountEach(e)
  BY <1>5 DEF Sound, OwnPlaceholders, OneAccountEach
<1>8. DistinctNames(e)
  <2>1. \A g \in Ids : d.grp[g] # None => d.grp[g].name # r.name
    BY <1>2 DEF NamedGroups
  <2> QED
    BY <1>5, <2>1 DEF Sound, DistinctNames
<1>9. ReferencesUsed(e)
  BY <1>5, <1>6 DEF Sound, ReferencesUsed
<1>10. SpentGone(e)
  BY <1>5 DEF Sound, SpentGone, UsedGroups
<1>11. FiniteUse(e)
  BY <1>6, FS_AddElement DEF Sound, FiniteUse
<1>12. Grows(d, e)
  BY <1>1, <1>2, <1>3, <1>5 DEF Grows, IsUsed
<1> QED
  BY <1>1, <1>3, <1>5, <1>7, <1>8, <1>9, <1>10, <1>11, <1>12 DEF Sound

\* A department that gets a group of its own.
LEMMA CreateAndLinkKeeps ==
  ASSUME NEW d, Sound(d), NEW u \in Units, ~IsFiniteSet(Ids), NEW n \in Names,
         NamedGroups(d, n) = {}, d.unit[u] # None,
         NEW e, e = [d EXCEPT !.grp[FreshGroupId(d)] = NewGroup(n),
                              !.unit[u].link = FreshGroupId(d)]
  PROVE  Sound(e) /\ Grows(d, e) /\ HasGroup(e, u)
<1> DEFINE h == FreshGroupId(d)
           c == WithGrp(d, h, NewGroup(n))
           r == [d.unit[u] EXCEPT !.link = h]
<1>1. d \in Tables /\ d.unit[u] \in Unit
  BY Columns DEF Sound, Rows
<1>2. h \in Ids \ UsedGroups(d)
  BY FreshIds
<1>3. c = WithGrp(d, h, NewGroup(n))
  OBVIOUS
<1> HIDE DEF h
<1>4. r \in Unit /\ r.link = h
  BY <1>1, <1>2 DEF Unit
<1>5. e = WithUnit(c, u, r)
  BY <1>1 DEF Tables, WithUnit, WithGrp, h
<1> HIDE DEF c, r
<1>6. Sound(c) /\ Grows(d, c) /\ c.grp[h] # None
  BY <1>2, <1>3, CreateGroupKeeps
<1>7. Sound(e) /\ Grows(c, e) /\ HasGroup(e, u)
  BY <1>2, <1>4, <1>5, <1>6, RelinkKeeps
<1> QED
  BY <1>6, <1>7, GrowsOn

LEMMA LinkedRow ==
  ASSUME NEW d \in Tables, NEW u \in Units, d.unit[u] # None, NEW g \in Ids,
         NEW e, e = [d EXCEPT !.unit[u].link = g]
  PROVE  \E r \in Unit : r.link = g /\ e = WithUnit(d, u, r)
<1> DEFINE r == [d.unit[u] EXCEPT !.link = g]
<1>1. d.unit[u] \in Unit
  BY Columns DEF Rows
<1>2. r \in Unit /\ r.link = g
  BY <1>1 DEF Unit
<1>3. e = WithUnit(d, u, r)
  BY DEF Tables, WithUnit
<1> QED
  BY <1>2, <1>3

\* MarkDSMGroupConflict, and the same assignment elsewhere.
Conflicted(d, g) == [d EXCEPT !.grp[g].status = "conflict"]

LEMMA ConflictKeeps ==
  ASSUME NEW d, Sound(d), NEW g \in Ids, d.grp[g] # None, NEW e, e = Conflicted(d, g)
  PROVE  Sound(e) /\ Grows(d, e) /\ e.unit = d.unit /\ e.grp[g] # None
<1> DEFINE r == [d.grp[g] EXCEPT !.status = "conflict"]
<1>1. d \in Tables /\ d.grp[g] \in Group
  BY Columns DEF Sound, Rows
<1>2. r \in Group /\ r.status = "conflict" /\ r.name = d.grp[g].name
  BY <1>1 DEF Group
<1>3. e = WithGrp(d, g, r)
  BY <1>1 DEF Tables, WithGrp, Conflicted
<1> HIDE DEF r
<1> QED
  BY <1>2, <1>3, RegroupKeeps

LEMMA FindGroupKeeps ==
  ASSUME NEW d, Sound(d), NEW u \in Units, d.unit[u] # None, ~IsFiniteSet(Ids), NEW n \in Names,
         NEW e, e = FindGroup(d, u, n)
  PROVE  Sound(e) /\ Grows(d, e) /\ HasGroup(e, u)
<1>1. CASE NamedGroups(d, n) = {}
  BY <1>1, CreateAndLinkKeeps DEF FindGroup
<1>2. CASE NamedGroups(d, n) # {}
  <2> DEFINE g == Selected(NamedGroups(d, n))
  <2>1. g \in NamedGroups(d, n)
    BY <1>2, SelectedIn
  <2>2. g \in Ids /\ d.grp[g] # None
    BY <2>1 DEF NamedGroups
  <2>3. \/ e = [d EXCEPT !.unit[u].link = g]
        \/ e = [d EXCEPT !.grp[g].status = "conflict", !.unit[u].link = g]
    BY <1>2 DEF FindGroup
  <2> HIDE DEF g
  <2>4. d \in Tables
    BY DEF Sound
  <2>5. CASE e = [d EXCEPT !.unit[u].link = g]
    <3>1. PICK r \in Unit : r.link = g /\ e = WithUnit(d, u, r)
      BY <2>2, <2>4, <2>5, LinkedRow
    <3> QED
      BY <2>2, <3>1, RelinkKeeps
  <2>6. CASE e = [d EXCEPT !.grp[g].status = "conflict", !.unit[u].link = g]
    <3> DEFINE c == Conflicted(d, g)
    <3>1. Sound(c) /\ Grows(d, c) /\ c.unit = d.unit /\ c.grp[g] # None
      BY <2>2, ConflictKeeps
    <3>2. e = [c EXCEPT !.unit[u].link = g]
      BY <2>4, <2>6 DEF Tables, Conflicted
    <3> HIDE DEF c
    <3>3. PICK r \in Unit : r.link = g /\ e = WithUnit(c, u, r)
      BY <2>2, <3>1, <3>2, LinkedRow DEF Sound
    <3>4. Sound(e) /\ Grows(c, e) /\ HasGroup(e, u)
      BY <2>2, <3>1, <3>3, RelinkKeeps
    <3> QED
      BY <3>1, <3>4, GrowsOn
  <2> QED
    BY <2>3, <2>5, <2>6
<1> QED
  BY <1>1, <1>2

LEMMA RenameLinkedKeeps ==
  ASSUME NEW d, Sound(d), NEW u \in Units, HasGroup(d, u), ~IsFiniteSet(Ids), NEW n \in Names,
         NEW e, e = RenameLinked(d, u, n)
  PROVE  Sound(e) /\ Grows(d, e) /\ HasGroup(e, u)
<1> DEFINE g == d.unit[u].link
           taken == NamedGroups(d, n) \ {g}
           t == Selected(taken)
<1>1. d \in Tables /\ d.unit[u] # None /\ g # None /\ d.grp[g] # None
  BY DEF HasGroup, Sound
<1>2. g \in Ids
  BY <1>1, Columns DEF Rows, Unit
<1>3. CASE ~d.grp[g].managed \/ d.grp[g].name = n
  BY <1>3 DEF RenameLinked, Grows, IsUsed
<1>4. CASE ~(~d.grp[g].managed \/ d.grp[g].name = n) /\ taken # {}
  <2>1. t \in taken
    BY <1>4, SelectedIn
  <2>2. t \in Ids /\ d.grp[t] # None
    BY <2>1 DEF NamedGroups
  <2>3. \/ e = [d EXCEPT !.unit[u].link = t]
        \/ e = Conflicted(d, g)
    BY <1>4 DEF RenameLinked, Conflicted
  <2> HIDE DEF t
  <2>4. CASE e = [d EXCEPT !.unit[u].link = t]
    <3>1. PICK r \in Unit : r.link = t /\ e = WithUnit(d, u, r)
      BY <1>1, <2>2, <2>4, LinkedRow
    <3> QED
      BY <2>2, <3>1, RelinkKeeps
  <2>5. CASE e = Conflicted(d, g)
    BY <1>1, <1>2, <2>5, ConflictKeeps DEF HasGroup
  <2> QED
    BY <2>3, <2>4, <2>5
<1>5. CASE ~(~d.grp[g].managed \/ d.grp[g].name = n) /\ taken = {}
  <2>1. NamedGroups(d, n) = {}
    BY <1>5 DEF NamedGroups
  <2>2. CASE Cardinality(LinkedUnits(d, g)) > 1
    BY <1>1, <1>5, <2>1, <2>2, CreateAndLinkKeeps DEF RenameLinked
  <2>3. CASE ~(Cardinality(LinkedUnits(d, g)) > 1)
    <3> DEFINE r == [d.grp[g] EXCEPT !.name = n, !.status = "pending"]
    <3>1. e = [d EXCEPT !.grp[g].name = n, !.grp[g].status = "pending"]
      BY <1>5, <2>3 DEF RenameLinked
    <3> HIDE DEF g
    <3>2. d.grp[g] \in Group
      BY <1>1, <1>2, Columns DEF Rows
    <3>3. r \in Group /\ r.status = "pending" /\ r.name = n
      BY <3>2 DEF Group
    <3>4. e = WithGrp(d, g, r)
      BY <1>1, <1>2, <3>1, <3>2 DEF Tables, WithGrp, Group, Rows
    <3> HIDE DEF r
    <3>5. Sound(e) /\ Grows(d, e) /\ e.unit = d.unit /\ e.grp[g] = r /\ r # None
      BY <1>1, <1>2, <2>1, <3>3, <3>4, RegroupKeeps
    <3> QED
      BY <1>1, <3>5 DEF HasGroup, g
  <2> QED
    BY <2>2, <2>3
<1> QED
  BY <1>3, <1>4, <1>5

\* What is written to the mappings and the members alone.
LEMMA OtherTablesKeep ==
  ASSUME NEW d, Sound(d), NEW e \in Tables,
         e.ext = d.ext, e.acc = d.acc, e.unit = d.unit, e.grp = d.grp, e.spent = d.spent
  PROVE  Sound(e) /\ Grows(d, e)
<1>1. SameRows(d, e) /\ Grows(d, e)
  BY DEF SameRows, Grows, IsUsed
<1> QED
  BY <1>1, SameRowsSound

LEMMA EnsureGroupMappingKeeps ==
  ASSUME NEW d, Sound(d), NEW u \in Units, HasGroup(d, u), NEW e, e = EnsureGroupMapping(d, u)
  PROVE  Sound(e) /\ Grows(d, e)
<1> DEFINE r == [active |-> TRUE, fresh |-> TRUE, grp |-> d.unit[u].link]
<1>1. d \in Tables
  BY DEF Sound
<1>2. r \in GroupMap
  BY <1>1, Columns DEF HasGroup, Rows, Unit, GroupMap
<1>3. CASE e = d
  BY <1>1, <1>3, OtherTablesKeep
<1>4. CASE e = WithGmap(d, u, r)
  <2> HIDE DEF r
  <2> QED
    BY <1>1, <1>2, <1>4, PutGmap, OtherTablesKeep
<1> QED
  BY <1>3, <1>4 DEF EnsureGroupMapping, WithGmap

LEMMA GroupNameIsName ==
  ASSUME NEW snap, NEW u \in Units
  PROVE  GroupName(snap, u) \in Names
  BY MappingAssumption DEF GroupName

\* One turn keeps the tables sound and only adds to them.
LEMMA MapUnitKeeps ==
  ASSUME NEW d, Sound(d), NEW snap, NEW u \in Units, ~IsFiniteSet(Ids),
         NEW e, e = MapUnit(d, snap, u)
  PROVE  Sound(e) /\ Grows(d, e)
<1>1. CASE u \notin snap.units
  BY <1>1 DEF MapUnit, Grows, IsUsed
<1>2. CASE u \in snap.units
  <2> DEFINE n == GroupName(snap, u)
             c1 == UpsertUnit(d, u)
             c2 == IF HasGroup(c1, u) THEN RenameLinked(c1, u, n) ELSE FindGroup(c1, u, n)
             c3 == JudgeGroup(c2, snap, u)
             g == c2.unit[u].link
  <2>1. e = EnsureGroupMapping(c3, u)
    BY <1>2 DEF MapUnit
  <2>2. c2 = IF HasGroup(c1, u) THEN RenameLinked(c1, u, n) ELSE FindGroup(c1, u, n)
    OBVIOUS
  <2>3. c3 = c2 \/ c3 = Conflicted(c2, g)
    BY DEF JudgeGroup, Conflicted
  <2>4. n \in Names
    BY GroupNameIsName
  <2>5. c1 = UpsertUnit(d, u)
    OBVIOUS
  <2> HIDE DEF n, c1, c2, c3
  <2>6. SameRows(d, c1) /\ Grows(d, c1) /\ c1.unit[u] # None
    BY <2>5, UpsertUnitKeeps DEF Sound
  <2>7. Sound(c1)
    BY <2>6, SameRowsSound
  <2>8. Sound(c2) /\ Grows(c1, c2) /\ HasGroup(c2, u)
    BY <2>2, <2>4, <2>6, <2>7, RenameLinkedKeeps, FindGroupKeeps
  <2>9. g \in Ids /\ c2.grp[g] # None
    BY <2>8, Columns DEF Sound, HasGroup, Rows, Unit
  <2>10. Sound(c3) /\ Grows(c2, c3) /\ HasGroup(c3, u)
    <3>1. CASE c3 = c2
      BY <2>8, <3>1 DEF Grows, IsUsed
    <3>2. CASE c3 = Conflicted(c2, g)
      <4>1. Sound(c3) /\ Grows(c2, c3) /\ c3.unit = c2.unit /\ c3.grp[g] # None
        BY <2>8, <2>9, <3>2, ConflictKeeps
      <4> QED
        BY <2>8, <4>1 DEF HasGroup
    <3> QED
      BY <2>3, <3>1, <3>2
  <2>11. Sound(e) /\ Grows(c3, e)
    BY <2>1, <2>10, EnsureGroupMappingKeeps
  <2>12. Grows(d, c2)
    BY <2>6, <2>8, GrowsOn
  <2>13. Grows(d, c3)
    BY <2>10, <2>12, GrowsOn
  <2> QED
    BY <2>11, <2>13, GrowsOn
<1> QED
  BY <1>1, <1>2
------------------------------------------------------------------------------
(***************************************************************************)
(* One turn of the loop over the members.                                  *)
(***************************************************************************)
WithMember(d, k, r, m, q) == [d EXCEPT !.mmap[k] = r, !.mem[m] = q]

LEMMA PutMember ==
  ASSUME NEW d \in Tables, NEW k \in Units \X Subjects, NEW r \in MemberMap,
         NEW m \in Ids \X Ids, NEW q \in Member,
         NEW e, e = WithMember(d, k, r, m, q)
  PROVE  /\ e \in Tables
         /\ e.ext = d.ext /\ e.acc = d.acc /\ e.unit = d.unit /\ e.grp = d.grp /\ e.spent = d.spent
<1> DEFINE M == [d.mmap EXCEPT ![k] = r]
           Q == [d.mem EXCEPT ![m] = q]
<1>1. M \in [Units \X Subjects -> Rows(MemberMap)] /\ Q \in [Ids \X Ids -> Rows(Member)]
  BY Columns DEF Rows
<1>2. e = [d EXCEPT !.mmap = M, !.mem = Q]
  BY DEF Tables, WithMember
<1> HIDE DEF M, Q
<1>3. e \in Tables
  BY <1>1, <1>2 DEF Tables
<1>4. e.ext = d.ext /\ e.acc = d.acc /\ e.unit = d.unit /\ e.grp = d.grp /\ e.spent = d.spent
  BY <1>2 DEF Tables
<1> QED
  BY <1>3, <1>4

LEMMA ReturnedIsMember ==
  ASSUME NEW m \in Member
  PROVE  Returned(m) \in Member /\ Returned(m).active = TRUE
  BY DEF Returned, Member

LEMMA EnsureMemberKeeps ==
  ASSUME NEW d, Sound(d), NEW u \in Units, NEW x \in Subjects, NEW e, e = EnsureMember(d, u, x)
  PROVE  Sound(e) /\ Grows(d, e)
<1> DEFINE g == d.unit[u].link
           i == d.ext[x].id
           m == <<g, i>>
           r == [active |-> TRUE, fresh |-> TRUE, grp |-> g, acc |-> i]
           q == IF d.mem[m] = None THEN [active |-> TRUE, status |-> "pending"]
                                   ELSE Returned(d.mem[m])
<1>1. d \in Tables
  BY DEF Sound
<1>2. CASE e = d
  BY <1>1, <1>2, OtherTablesKeep
<1>3. CASE /\ HasGroup(d, u) /\ HasAccount(d, x)
           /\ e = WithMember(d, <<u, x>>, r, m, q)
  <2>1. g \in Ids /\ i \in Ids
    BY <1>1, <1>3, Columns DEF HasGroup, HasAccount, Rows, Unit, Subject
  <2>2. r \in MemberMap /\ m \in Ids \X Ids /\ <<u, x>> \in Units \X Subjects
    BY <2>1 DEF MemberMap
  <2>3. q \in Member
    <3>1. d.mem[m] = None \/ d.mem[m] \in Member
      BY <1>1, <2>2, Columns DEF Rows
    <3>2. [active |-> TRUE, status |-> "pending"] \in Member
      BY DEF Member
    <3> HIDE DEF m
    <3> QED
      BY <3>1, <3>2, ReturnedIsMember
  <2> HIDE DEF r, q, m
  <2> QED
    BY <1>1, <1>3, <2>2, <2>3, PutMember, OtherTablesKeep
<1> QED
  BY <1>2, <1>3 DEF EnsureMember, WithMember

LEMMA MapMemberKeeps ==
  ASSUME NEW d, Sound(d), NEW snap, NEW u \in Units, NEW x \in Subjects,
         NEW e, e = MapMember(d, snap, u, x)
  PROVE  Sound(e) /\ Grows(d, e)
<1>1. Grows(d, d)
  BY DEF Grows, IsUsed
<1> QED
  BY <1>1, EnsureMemberKeeps DEF MapMember
------------------------------------------------------------------------------
(***************************************************************************)
(* The loops, and the whole transaction.                                   *)
(***************************************************************************)
Turned(old, d) == Sound(d) /\ Grows(old, d)

UserTurn(snap, at, d, x) == MapUser(d, snap, x)
UnitTurn(snap, at, d, u) == MapUnit(d, snap, u)
MemberTurn(snap, at, d, x) == MapMember(d, snap, at, x)
MembersTurn(snap, at, d, u) == MapMembers(d, snap, u)

UserLoop == INSTANCE Folding WITH Step <- UserTurn, Good <- Turned
UnitLoop == INSTANCE Folding WITH Step <- UnitTurn, Good <- Turned
MemberLoop == INSTANCE Folding WITH Step <- MemberTurn, Good <- Turned
MembersLoop == INSTANCE Folding WITH Step <- MembersTurn, Good <- Turned

LEMMA TurnedOn ==
  ASSUME NEW old, NEW d, Turned(old, d), NEW e, Sound(e), Grows(d, e)
  PROVE  Turned(old, e)
  BY GrowsOn DEF Turned

LEMMA TurnedHere ==
  ASSUME NEW d, Sound(d)
  PROVE  Turned(d, d)
  BY DEF Turned, Grows, IsUsed

LEMMA ListPositions ==
  ASSUME NEW S, NEW seq \in Seq(S)
  PROVE  /\ Len(seq) \in Nat /\ DOMAIN seq = 1 .. Len(seq)
         /\ \A i \in 1 .. Len(seq) : seq[i] \in S
  OBVIOUS

LEMMA MapAllUsersKeeps ==
  ASSUME NEW d, Sound(d), NEW snap \in Snapshot, ~IsFiniteSet(Ids)
  PROVE  Turned(d, MapAllUsers(d, snap))
<1> DEFINE n == Len(snap.order)
<1>1. n \in Nat /\ DOMAIN snap.order = 1 .. n /\ \A i \in 1 .. n : snap.order[i] \in Subjects
  BY ListPositions DEF Snapshot
<1> HIDE DEF n
<1>2. \A c : \A i \in 1 .. n :
        Turned(d, c) => Turned(d, UserTurn(snap, snap, c, snap.order[i]))
  BY <1>1, MapUserKeeps, TurnedOn DEF Turned, UserTurn
<1>3. Turned(d, (CHOOSE g : UserLoop!Folds(g, snap, snap, d, snap.order, n))[1 .. n])
  BY <1>1, <1>2, TurnedHere, UserLoop!WalkKeeps
<1>4. MapAllUsers(d, snap) = (CHOOSE g : UserLoop!Folds(g, snap, snap, d, snap.order, n))[1 .. n]
  BY <1>1 DEF MapAllUsers, FoldLeft, MapThenFoldSet, Max, UserLoop!Folds, UserLoop!Max, UserTurn
<1> QED
  BY <1>3, <1>4

LEMMA MapAllUnitsKeeps ==
  ASSUME NEW d, Sound(d), NEW snap, ~IsFiniteSet(Ids)
  PROVE  Turned(d, MapAllUnits(d, snap))
<1> DEFINE n == Len(UnitOrder)
<1>1. n \in Nat /\ DOMAIN UnitOrder = 1 .. n /\ \A i \in 1 .. n : UnitOrder[i] \in Units
  BY ListPositions, MappingAssumption
<1> HIDE DEF n
<1>2. \A c : \A i \in 1 .. n :
        Turned(d, c) => Turned(d, UnitTurn(snap, snap, c, UnitOrder[i]))
  BY <1>1, MapUnitKeeps, TurnedOn DEF Turned, UnitTurn
<1>3. Turned(d, (CHOOSE g : UnitLoop!Folds(g, snap, snap, d, UnitOrder, n))[1 .. n])
  BY <1>1, <1>2, TurnedHere, UnitLoop!WalkKeeps
<1>4. MapAllUnits(d, snap) = (CHOOSE g : UnitLoop!Folds(g, snap, snap, d, UnitOrder, n))[1 .. n]
  BY <1>1 DEF MapAllUnits, FoldLeft, MapThenFoldSet, Max, UnitLoop!Folds, UnitLoop!Max, UnitTurn
<1> QED
  BY <1>3, <1>4

LEMMA MemberOrderTyped ==
  ASSUME NEW snap \in Snapshot, NEW u \in Units
  PROVE  MemberOrder(snap, u) \in Seq(Subjects)
<1>1. snap.order \in Seq(Subjects) /\ snap.told[u] \in Seq(Subjects) \cup {None}
  BY DEF Snapshot, MemberLists
<1>2. <<>> \in Seq(Subjects)
  OBVIOUS
<1> QED
  BY <1>1, <1>2 DEF MemberOrder

LEMMA MapMembersKeeps ==
  ASSUME NEW d, Sound(d), NEW snap \in Snapshot, NEW u \in Units
  PROVE  Turned(d, MapMembers(d, snap, u))
<1> DEFINE list == MemberOrder(snap, u)
           n == Len(list)
<1>1. n \in Nat /\ DOMAIN list = 1 .. n /\ \A i \in 1 .. n : list[i] \in Subjects
  BY ListPositions, MemberOrderTyped
<1>2. MapMembers(d, snap, u)
        = IF u \notin snap.units THEN d
          ELSE FoldLeft(LAMBDA acc, x : MapMember(acc, snap, u, x), d, list)
  BY DEF MapMembers
<1> HIDE DEF n, list
<1>3. \A c : \A i \in 1 .. n :
        Turned(d, c) => Turned(d, MemberTurn(snap, u, c, list[i]))
  BY <1>1, MapMemberKeeps, TurnedOn DEF Turned, MemberTurn
<1>4. Turned(d, (CHOOSE g : MemberLoop!Folds(g, snap, u, d, list, n))[1 .. n])
  BY <1>1, <1>3, TurnedHere, MemberLoop!WalkKeeps
<1>5. CASE u \in snap.units
  <2>1. MapMembers(d, snap, u)
          = (CHOOSE g : MemberLoop!Folds(g, snap, u, d, list, n))[1 .. n]
    BY <1>1, <1>2, <1>5
    DEF FoldLeft, MapThenFoldSet, Max, MemberLoop!Folds, MemberLoop!Max, MemberTurn
  <2> QED
    BY <1>4, <2>1
<1>6. CASE u \notin snap.units
  BY <1>2, <1>6, TurnedHere
<1> QED
  BY <1>5, <1>6

LEMMA MapAllMembersKeeps ==
  ASSUME NEW d, Sound(d), NEW snap \in Snapshot
  PROVE  Turned(d, MapAllMembers(d, snap))
<1> DEFINE n == Len(UnitOrder)
<1>1. n \in Nat /\ DOMAIN UnitOrder = 1 .. n /\ \A i \in 1 .. n : UnitOrder[i] \in Units
  BY ListPositions, MappingAssumption
<1> HIDE DEF n
<1>2. \A c : \A i \in 1 .. n :
        Turned(d, c) => Turned(d, MembersTurn(snap, snap, c, UnitOrder[i]))
  BY <1>1, MapMembersKeeps, TurnedOn DEF Turned, MembersTurn
<1>3. Turned(d, (CHOOSE g : MembersLoop!Folds(g, snap, snap, d, UnitOrder, n))[1 .. n])
  BY <1>1, <1>2, TurnedHere, MembersLoop!WalkKeeps
<1>4. MapAllMembers(d, snap)
        = (CHOOSE g : MembersLoop!Folds(g, snap, snap, d, UnitOrder, n))[1 .. n]
  BY <1>1
  DEF MapAllMembers, FoldLeft, MapThenFoldSet, Max, MembersLoop!Folds, MembersLoop!Max, MembersTurn
<1> QED
  BY <1>3, <1>4

LEMMA MapSnapshotKeeps ==
  ASSUME NEW d, Sound(d), NEW snap \in Snapshot, ~IsFiniteSet(Ids)
  PROVE  Turned(d, MapSnapshot(d, snap))
<1> DEFINE c1 == MapAllUsers(d, snap)
           c2 == MapAllUnits(c1, snap)
           c3 == MapAllMembers(c2, snap)
<1>1. MapSnapshot(d, snap) = c3
  BY DEF MapSnapshot
<1>2. Turned(d, c1)
  BY MapAllUsersKeeps
<1>3. Turned(c1, c2)
  BY <1>2, MapAllUnitsKeeps DEF Turned
<1>4. Turned(c2, c3)
  BY <1>3, MapAllMembersKeeps DEF Turned
<1> HIDE DEF c1, c2, c3
<1> QED
  BY <1>1, <1>2, <1>3, <1>4, TurnedOn DEF Turned
------------------------------------------------------------------------------
(***************************************************************************)
(* Retiring, ageing and reconciling.                                       *)
(***************************************************************************)
\* From d to e user mappings may retire; those that stay active stay.
Fades(d, e) ==
  \A x \in Subjects : (e.umap[x] # None /\ e.umap[x].active) =>
    d.umap[x] # None /\ d.umap[x].active /\ e.umap[x].acc = d.umap[x].acc

LEMMA RetireUsersKeeps ==
  ASSUME NEW d \in Tables, NEW s, NEW e, e = RetireUsers(d, s)
  PROVE  /\ e \in Tables /\ Fades(d, e)
         /\ e.ext = d.ext /\ e.acc = d.acc /\ e.unit = d.unit /\ e.grp = d.grp /\ e.mem = d.mem
         /\ e.gmap = d.gmap /\ e.mmap = d.mmap /\ e.spent = d.spent
<1> DEFINE M == [x \in Subjects |->
                   IF x[1] = s /\ Stale(d.umap[x]) THEN Retired(d.umap[x]) ELSE d.umap[x]]
<1>1. ASSUME NEW x \in Subjects, d.umap[x] # None
      PROVE  Retired(d.umap[x]) \in UserMap /\ Retired(d.umap[x]).active = FALSE
  <2>1. d.umap[x] \in UserMap
    BY <1>1, Columns DEF Rows
  <2> QED
    BY <2>1 DEF Retired, UserMap
<1>2. M \in [Subjects -> Rows(UserMap)]
  BY <1>1, Columns DEF Rows, Stale
<1>3. \A x \in Subjects : M[x] = d.umap[x] \/ M[x].active = FALSE
  BY <1>1 DEF Stale
<1>4. e = [d EXCEPT !.umap = M]
  BY DEF RetireUsers
<1> HIDE DEF M
<1>5. e \in Tables /\ e.umap = M
  BY <1>2, <1>4 DEF Tables
<1>6. /\ e.ext = d.ext /\ e.acc = d.acc /\ e.unit = d.unit /\ e.grp = d.grp /\ e.mem = d.mem
      /\ e.gmap = d.gmap /\ e.mmap = d.mmap /\ e.spent = d.spent
  BY <1>4 DEF Tables
<1>7. Fades(d, e)
  BY <1>3, <1>5 DEF Fades
<1> QED
  BY <1>5, <1>6, <1>7

LEMMA DeactivateKeeps ==
  ASSUME NEW d \in Tables, NEW s, NEW usersOnly, NEW e, e = DeactivateStaleMappings(d, s, usersOnly)
  PROVE  /\ e \in Tables /\ Fades(d, e)
         /\ e.ext = d.ext /\ e.acc = d.acc /\ e.unit = d.unit /\ e.grp = d.grp /\ e.mem = d.mem
         /\ e.spent = d.spent
<1> DEFINE c == RetireUsers(d, s)
           G == [u \in Units |->
                   IF u[1] = s /\ Stale(d.gmap[u]) THEN Retired(d.gmap[u]) ELSE d.gmap[u]]
           M == [k \in Units \X Subjects |->
                   IF k[1][1] = s /\ Stale(d.mmap[k]) THEN Retired(d.mmap[k]) ELSE d.mmap[k]]
<1>1. c = RetireUsers(d, s)
  OBVIOUS
<1>2. e = c \/ e = [c EXCEPT !.gmap = G, !.mmap = M]
  BY DEF DeactivateStaleMappings
<1>3. G \in [Units -> Rows(GroupMap)]
  <2>1. ASSUME NEW u \in Units, d.gmap[u] # None PROVE Retired(d.gmap[u]) \in GroupMap
    <3>1. d.gmap[u] \in GroupMap
      BY <2>1, Columns DEF Rows
    <3> QED
      BY <3>1 DEF Retired, GroupMap
  <2> QED
    BY <2>1, Columns DEF Rows, Stale
<1>4. M \in [Units \X Subjects -> Rows(MemberMap)]
  <2>1. ASSUME NEW k \in Units \X Subjects, d.mmap[k] # None PROVE Retired(d.mmap[k]) \in MemberMap
    <3>1. d.mmap[k] \in MemberMap
      BY <2>1, Columns DEF Rows
    <3> QED
      BY <3>1 DEF Retired, MemberMap
  <2> QED
    BY <2>1, Columns DEF Rows, Stale
<1> HIDE DEF c, G, M
<1>5. /\ c \in Tables /\ Fades(d, c)
      /\ c.ext = d.ext /\ c.acc = d.acc /\ c.unit = d.unit /\ c.grp = d.grp /\ c.mem = d.mem
      /\ c.spent = d.spent
  BY <1>1, RetireUsersKeeps
<1>6. CASE e = c
  BY <1>5, <1>6
<1>7. CASE e = [c EXCEPT !.gmap = G, !.mmap = M]
  <2>1. e \in Tables
    BY <1>3, <1>4, <1>5, <1>7 DEF Tables
  <2>2. /\ e.ext = c.ext /\ e.acc = c.acc /\ e.unit = c.unit /\ e.grp = c.grp /\ e.mem = c.mem
        /\ e.spent = c.spent /\ e.umap = c.umap
    BY <1>5, <1>7 DEF Tables
  <2> QED
    BY <1>5, <2>1, <2>2 DEF Fades
<1> QED
  BY <1>2, <1>6, <1>7

\* ReconcileFinalGroupMembers: a member is active exactly if it is mapped.
LEMMA ReconcileKeeps ==
  ASSUME NEW d \in Tables, NEW e, e = ReconcileFinalGroupMembers(d)
  PROVE  /\ e \in Tables
         /\ e.ext = d.ext /\ e.acc = d.acc /\ e.unit = d.unit /\ e.grp = d.grp /\ e.umap = d.umap
         /\ e.gmap = d.gmap /\ e.mmap = d.mmap /\ e.spent = d.spent
         /\ \A m \in Ids \X Ids : e.mem[m] # None => (e.mem[m].active <=> Mapped(e, m))
<1> DEFINE Off == [active |-> FALSE, status |-> "disabled"]
           M == [m \in Ids \X Ids |->
                   IF d.mem[m] = None THEN None
                   ELSE IF d.mem[m].active /\ ~Mapped(d, m) THEN Off
                   ELSE IF ~d.mem[m].active /\ Mapped(d, m) THEN Returned(d.mem[m])
                   ELSE d.mem[m]]
<1>1. Off \in Member /\ Off.active = FALSE
  BY DEF Member
<1>2. ASSUME NEW m \in Ids \X Ids, d.mem[m] # None
      PROVE  /\ d.mem[m] \in Member /\ d.mem[m].active \in BOOLEAN
             /\ Returned(d.mem[m]) \in Member /\ Returned(d.mem[m]).active = TRUE
  <2>1. d.mem[m] \in Member
    BY <1>2, Columns DEF Rows
  <2> QED
    BY <2>1, ReturnedIsMember DEF Member
<1> HIDE DEF Off
<1>3. M \in [Ids \X Ids -> Rows(Member)]
  BY <1>1, <1>2 DEF Rows
<1>4. ASSUME NEW m \in Ids \X Ids, M[m] # None
      PROVE  M[m].active <=> Mapped(d, m)
  <2>1. d.mem[m] # None
    BY <1>4
  <2>2. CASE d.mem[m].active /\ ~Mapped(d, m)
    BY <1>1, <2>1, <2>2
  <2>3. CASE ~d.mem[m].active /\ Mapped(d, m)
    BY <1>2, <2>1, <2>3
  <2>4. CASE ~(d.mem[m].active /\ ~Mapped(d, m)) /\ ~(~d.mem[m].active /\ Mapped(d, m))
    <3>1. M[m] = d.mem[m]
      BY <2>1, <2>4
    <3> QED
      BY <2>4, <3>1
  <2> QED
    BY <2>2, <2>3, <2>4
<1>5. e = [d EXCEPT !.mem = M]
  BY DEF ReconcileFinalGroupMembers, Off
<1> HIDE DEF M
<1>6. e \in Tables /\ e.mem = M
  BY <1>3, <1>5 DEF Tables
<1>7. /\ e.ext = d.ext /\ e.acc = d.acc /\ e.unit = d.unit /\ e.grp = d.grp /\ e.umap = d.umap
      /\ e.gmap = d.gmap /\ e.mmap = d.mmap /\ e.spent = d.spent
  BY <1>5 DEF Tables
<1>8. \A m : Mapped(e, m) <=> Mapped(d, m)
  BY <1>7 DEF Mapped
<1> QED
  BY <1>4, <1>6, <1>7, <1>8

\* One transaction of SyncProvider keeps the tables sound: whatever the
\* directory lists, two people of one source get two accounts, names stay
\* UNIQUE, and no account is called created that was not; and afterwards a
\* member is active exactly when some source asks for it.
THEOREM SyncProviderKeeps ==
  ASSUME NEW d, Sound(d), NEW s, NEW snap \in Snapshot, NEW policy, ~IsFiniteSet(Ids),
         NEW e, e = SyncProvider(d, s, snap, policy)
  PROVE  /\ Sound(e) /\ Grows(d, e)
         /\ \A m \in Ids \X Ids : e.mem[m] # None => (e.mem[m].active <=> Mapped(e, m))
<1> DEFINE c1 == MapSnapshot(d, snap)
           c2 == DeactivateStaleMappings(c1, s, UserOnly(snap))
           c3 == IF policy.deactivate THEN c2 ELSE c1
<1>1. e = ReconcileFinalGroupMembers(c3)
  BY DEF SyncProvider
<1>2. Sound(c1) /\ Grows(d, c1)
  BY MapSnapshotKeeps DEF Turned
<1>3. c1 \in Tables
  BY <1>2 DEF Sound
<1>4. /\ c2 \in Tables /\ c2.ext = c1.ext /\ c2.acc = c1.acc /\ c2.unit = c1.unit
      /\ c2.grp = c1.grp /\ c2.spent = c1.spent
  BY <1>3, DeactivateKeeps
<1>5. c3 = c1 \/ c3 = c2
  OBVIOUS
<1> HIDE DEF c1, c2, c3
<1>6. /\ c3 \in Tables /\ c3.ext = c1.ext /\ c3.acc = c1.acc /\ c3.unit = c1.unit
      /\ c3.grp = c1.grp /\ c3.spent = c1.spent
  BY <1>3, <1>4, <1>5
<1>7. /\ e \in Tables
      /\ e.ext = c1.ext /\ e.acc = c1.acc /\ e.unit = c1.unit /\ e.grp = c1.grp
      /\ e.spent = c1.spent
      /\ \A m \in Ids \X Ids : e.mem[m] # None => (e.mem[m].active <=> Mapped(e, m))
  BY <1>1, <1>6, ReconcileKeeps
<1>8. SameRows(c1, e) /\ Grows(c1, e)
  BY <1>7 DEF SameRows, Grows, IsUsed
<1> QED
  BY <1>2, <1>7, <1>8, SameRowsSound, GrowsOn

\* RetireSubjects: subjects that were not seen retire.
LEMMA RetireSubjectsKeeps ==
  ASSUME NEW d \in Tables, NEW s, NEW e, e = RetireSubjects(d, s)
  PROVE  /\ e \in Tables
         /\ e.acc = d.acc /\ e.unit = d.unit /\ e.grp = d.grp /\ e.mem = d.mem
         /\ e.umap = d.umap /\ e.gmap = d.gmap /\ e.mmap = d.mmap /\ e.spent = d.spent
         /\ \A x \in Subjects : /\ e.ext[x] = None <=> d.ext[x] = None
                                /\ d.ext[x] # None => e.ext[x].id = d.ext[x].id
<1> DEFINE M == [x \in Subjects |->
                   IF x[1] = s /\ Stale(d.ext[x]) THEN Retired(d.ext[x]) ELSE d.ext[x]]
<1>1. ASSUME NEW x \in Subjects, d.ext[x] # None
      PROVE  Retired(d.ext[x]) \in Subject /\ Retired(d.ext[x]).id = d.ext[x].id
  <2>1. d.ext[x] \in Subject
    BY <1>1, Columns DEF Rows
  <2> QED
    BY <2>1 DEF Retired, Subject
<1>2. M \in [Subjects -> Rows(Subject)]
  BY <1>1, Columns DEF Rows, Stale
<1>3. \A x \in Subjects : /\ M[x] = None <=> d.ext[x] = None
                          /\ d.ext[x] # None => M[x].id = d.ext[x].id
  BY <1>1, MappingAssumption DEF Stale
<1>4. e = [d EXCEPT !.ext = M]
  BY DEF RetireSubjects
<1> HIDE DEF M
<1>5. e \in Tables /\ e.ext = M
  BY <1>2, <1>4 DEF Tables
<1>6. /\ e.acc = d.acc /\ e.unit = d.unit /\ e.grp = d.grp /\ e.mem = d.mem
      /\ e.umap = d.umap /\ e.gmap = d.gmap /\ e.mmap = d.mmap /\ e.spent = d.spent
  BY <1>4 DEF Tables
<1> QED
  BY <1>3, <1>5, <1>6

\* RetireMissing: nothing is created, and no mapping becomes active.
LEMMA RetireMissingKeeps ==
  ASSUME NEW d \in Tables, NEW s, NEW keep, NEW e, e = RetireMissing(d, s, keep)
  PROVE  /\ SameRows(d, e) /\ Fades(d, e)
         /\ e.acc = d.acc /\ e.grp = d.grp /\ e.mem = d.mem
<1> DEFINE c1 == RetireSubjects(d, s)
           c2 == DeactivateStaleMappings(c1, s, keep)
           U == [u \in Units |-> IF u[1] = s /\ Stale(c2.unit[u])
                                 THEN Retired(c2.unit[u]) ELSE c2.unit[u]]
<1>1. e = c2 \/ e = RetireUnits(c2, s)
  BY DEF RetireMissing
<1>2. /\ c1 \in Tables
      /\ c1.acc = d.acc /\ c1.unit = d.unit /\ c1.grp = d.grp /\ c1.mem = d.mem
      /\ c1.umap = d.umap /\ c1.spent = d.spent
      /\ \A x \in Subjects : /\ c1.ext[x] = None <=> d.ext[x] = None
                             /\ d.ext[x] # None => c1.ext[x].id = d.ext[x].id
  BY RetireSubjectsKeeps
<1>3. /\ c2 \in Tables /\ Fades(c1, c2) /\ c2.ext = c1.ext /\ c2.acc = c1.acc
      /\ c2.unit = c1.unit /\ c2.grp = c1.grp /\ c2.mem = c1.mem /\ c2.spent = c1.spent
  BY <1>2, DeactivateKeeps
<1> HIDE DEF c1, c2
<1>4. ASSUME NEW u \in Units, c2.unit[u] # None
      PROVE  Retired(c2.unit[u]) \in Unit /\ Retired(c2.unit[u]).link = c2.unit[u].link
  <2>1. c2.unit[u] \in Unit
    BY <1>3, <1>4, Columns DEF Rows
  <2> QED
    BY <2>1 DEF Retired, Unit
<1>5. U \in [Units -> Rows(Unit)]
  BY <1>3, <1>4, Columns DEF Rows, Stale
<1>6. \A u \in Units : (U[u] # None /\ U[u].link # None) =>
        c2.unit[u] # None /\ U[u].link = c2.unit[u].link
  BY <1>4 DEF Stale
<1> HIDE DEF U
<1>7. /\ e \in Tables /\ e.umap = c2.umap /\ e.ext = c2.ext /\ e.acc = c2.acc
      /\ e.grp = c2.grp /\ e.mem = c2.mem /\ e.spent = c2.spent
      /\ e.unit = c2.unit \/ e.unit = U
  <2>1. CASE e = c2
    BY <1>3, <2>1
  <2>2. CASE e = RetireUnits(c2, s)
    <3>1. e = [c2 EXCEPT !.unit = U]
      BY <2>2 DEF RetireUnits, U
    <3> QED
      BY <1>3, <1>5, <3>1 DEF Tables
  <2> QED
    BY <1>1, <2>1, <2>2
<1>8. Fades(d, e)
  BY <1>2, <1>3, <1>7 DEF Fades
<1>9. SameRows(d, e)
  BY <1>2, <1>3, <1>6, <1>7 DEF SameRows
<1> QED
  BY <1>2, <1>3, <1>7, <1>8, <1>9

\* Age: rows only become older.
LEMMA AgeKeeps ==
  ASSUME NEW d \in Tables, NEW s, NEW e, e = Age(d, s)
  PROVE  /\ SameRows(d, e) /\ Fades(d, e)
         /\ e.acc = d.acc /\ e.grp = d.grp /\ e.mem = d.mem
<1> DEFINE Old(row) == IF row = None THEN None ELSE [row EXCEPT !.fresh = FALSE]
           X == [x \in Subjects |-> IF x[1] = s THEN Old(d.ext[x]) ELSE d.ext[x]]
           Y == [x \in Subjects |-> IF x[1] = s THEN Old(d.umap[x]) ELSE d.umap[x]]
           U == [u \in Units |-> IF u[1] = s THEN Old(d.unit[u]) ELSE d.unit[u]]
           G == [u \in Units |-> IF u[1] = s THEN Old(d.gmap[u]) ELSE d.gmap[u]]
           M == [k \in Units \X Subjects |-> IF k[1][1] = s THEN Old(d.mmap[k]) ELSE d.mmap[k]]
<1>1. e = [d EXCEPT !.ext = X, !.umap = Y, !.unit = U, !.gmap = G, !.mmap = M]
  BY DEF Age
<1>2. ASSUME NEW x \in Subjects
      PROVE  /\ X[x] \in Rows(Subject)
             /\ (X[x] # None /\ X[x].id # None) =>
                  d.ext[x] # None /\ X[x].id = d.ext[x].id
  <2>1. CASE d.ext[x] = None
    BY <2>1 DEF Rows
  <2>2. CASE d.ext[x] # None
    <3>1. d.ext[x] \in Subject
      BY <2>2, Columns DEF Rows
    <3> QED
      BY <2>2, <3>1 DEF Rows, Subject
  <2> QED
    BY <2>1, <2>2
<1>3. ASSUME NEW x \in Subjects
      PROVE  /\ Y[x] \in Rows(UserMap)
             /\ (Y[x] # None /\ Y[x].active) =>
                  d.umap[x] # None /\ d.umap[x].active /\ Y[x].acc = d.umap[x].acc
  <2>1. CASE d.umap[x] = None
    BY <2>1 DEF Rows
  <2>2. CASE d.umap[x] # None
    <3>1. d.umap[x] \in UserMap
      BY <2>2, Columns DEF Rows
    <3> QED
      BY <2>2, <3>1 DEF Rows, UserMap
  <2> QED
    BY <2>1, <2>2
<1>4. ASSUME NEW u \in Units
      PROVE  /\ U[u] \in Rows(Unit)
             /\ (U[u] # None /\ U[u].link # None) =>
                  d.unit[u] # None /\ U[u].link = d.unit[u].link
  <2>1. CASE d.unit[u] = None
    BY <2>1 DEF Rows
  <2>2. CASE d.unit[u] # None
    <3>1. d.unit[u] \in Unit
      BY <2>2, Columns DEF Rows
    <3> QED
      BY <2>2, <3>1 DEF Rows, Unit
  <2> QED
    BY <2>1, <2>2
<1>5. ASSUME NEW u \in Units PROVE G[u] \in Rows(GroupMap)
  <2>1. CASE d.gmap[u] = None
    BY <2>1 DEF Rows
  <2>2. CASE d.gmap[u] # None
    <3>1. d.gmap[u] \in GroupMap
      BY <2>2, Columns DEF Rows
    <3> QED
      BY <2>2, <3>1 DEF Rows, GroupMap
  <2> QED
    BY <2>1, <2>2
<1>6. ASSUME NEW k \in Units \X Subjects PROVE M[k] \in Rows(MemberMap)
  <2>1. CASE d.mmap[k] = None
    BY <2>1 DEF Rows
  <2>2. CASE d.mmap[k] # None
    <3>1. d.mmap[k] \in MemberMap
      BY <2>2, Columns DEF Rows
    <3> QED
      BY <2>2, <3>1 DEF Rows, MemberMap
  <2> QED
    BY <2>1, <2>2
<1>7. /\ X \in [Subjects -> Rows(Subject)] /\ Y \in [Subjects -> Rows(UserMap)]
      /\ U \in [Units -> Rows(Unit)] /\ G \in [Units -> Rows(GroupMap)]
      /\ M \in [Units \X Subjects -> Rows(MemberMap)]
  <2> HIDE DEF Old
  <2> QED
    BY <1>2, <1>3, <1>4, <1>5, <1>6
<1> HIDE DEF X, Y, U, G, M
<1>8. e \in Tables /\ e.ext = X /\ e.umap = Y /\ e.unit = U
  BY <1>1, <1>7 DEF Tables
<1>9. e.acc = d.acc /\ e.grp = d.grp /\ e.mem = d.mem /\ e.spent = d.spent
  BY <1>1 DEF Tables
<1>10. SameRows(d, e)
  BY <1>2, <1>4, <1>8, <1>9 DEF SameRows
<1>11. Fades(d, e)
  BY <1>3, <1>8 DEF Fades
<1> QED
  BY <1>9, <1>10, <1>11
------------------------------------------------------------------------------
(***************************************************************************)
(* Removing what a source owns.                                            *)
(***************************************************************************)
\* sourceOwnedIDs finds ids that are, or were, those of rows.
LEMMA OwnedAreUsed ==
  ASSUME NEW d, Sound(d), NEW s
  PROVE  OwnedIdentities(d, s) \subseteq UsedAccounts(d) /\ OwnedGroups(d, s) \subseteq UsedGroups(d)
<1>1. ASSUME NEW i \in OwnedIdentities(d, s) PROVE i \in UsedAccounts(d)
  <2>1. i \in Ids /\ HasProvider(d, i, s)
    BY <1>1 DEF OwnedIdentities
  <2>2. PICK x \in Subjects : d.ext[x] # None /\ d.ext[x].id = i
    BY <2>1 DEF HasProvider
  <2> QED
    BY <2>1, <2>2, MappingAssumption DEF Sound, ReferencesUsed
<1>2. ASSUME NEW g \in OwnedGroups(d, s) PROVE g \in UsedGroups(d)
  <2>1. PICK u \in LinkedUnits(d, g) : TRUE
    BY <1>2 DEF OwnedGroups
  <2>2. u \in Units /\ d.unit[u] # None /\ d.unit[u].link = g /\ g \in Ids
    BY <1>2, <2>1 DEF LinkedUnits, OwnedGroups
  <2> QED
    BY <2>2, MappingAssumption DEF Sound, ReferencesUsed
<1> QED
  BY <1>1, <1>2

\* The mappings of the source, which are gone.
LEMMA UnmappedKeeps ==
  ASSUME NEW d \in Tables, NEW s, NEW e, e = Unmapped(d, s)
  PROVE  /\ e \in Tables
         /\ e.ext = d.ext /\ e.acc = d.acc /\ e.unit = d.unit /\ e.grp = d.grp /\ e.mem = d.mem
         /\ e.spent = d.spent
         /\ \A x \in Subjects : e.umap[x] = IF x[1] = s THEN None ELSE d.umap[x]
<1> DEFINE Y == [x \in Subjects |-> IF x[1] = s THEN None ELSE d.umap[x]]
           G == [u \in Units |-> IF u[1] = s THEN None ELSE d.gmap[u]]
           M == [k \in Units \X Subjects |-> IF k[1][1] = s THEN None ELSE d.mmap[k]]
<1>1. Y \in [Subjects -> Rows(UserMap)] /\ G \in [Units -> Rows(GroupMap)]
  BY Columns DEF Rows
<1>2. M \in [Units \X Subjects -> Rows(MemberMap)]
  BY Columns DEF Rows
<1>3. e = [d EXCEPT !.umap = Y, !.gmap = G, !.mmap = M]
  BY DEF Unmapped
<1>4. \A x \in Subjects : Y[x] = IF x[1] = s THEN None ELSE d.umap[x]
  OBVIOUS
<1> HIDE DEF Y, G, M
<1> QED
  BY <1>1, <1>2, <1>3, <1>4 DEF Tables

\* From d to e the rows named are gone for good, and with them what the source
\* refers to; every other account and group is untouched.
SourceGone(d, e, s, ids, gids) ==
  /\ Fades(d, e)
  /\ e.spent = d.spent \cup ({"user"} \X ids) \cup ({"group"} \X gids)
  /\ UsedAccounts(e) = UsedAccounts(d) /\ UsedGroups(e) = UsedGroups(d)
  /\ \A i \in Ids : e.acc[i] = IF i \in ids THEN None ELSE d.acc[i]
  /\ \A g \in Ids : e.grp[g] = IF g \in gids THEN None ELSE d.grp[g]
  /\ \A x \in Subjects : e.ext[x] = IF x[1] = s THEN None ELSE d.ext[x]

\* DeleteSourceData does that, and keeps the tables sound.
LEMMA DeleteKeeps ==
  ASSUME NEW d, Sound(d), NEW s, NEW ids, ids \subseteq UsedAccounts(d),
         NEW gids, gids \subseteq UsedGroups(d), NEW e, e = DeleteSourceData(d, s, ids, gids)
  PROVE  Sound(e) /\ SourceGone(d, e, s, ids, gids)
<1> DEFINE c == Unmapped(d, s)
           Off == [active |-> FALSE, status |-> "remove_pending"]
           Kept(m) == IF m[1] \in gids \/ m[2] \in ids THEN None
                      ELSE IF d.mem[m] # None /\ d.mem[m].active /\ ~Mapped(c, m)
                      THEN Off ELSE d.mem[m]
           M == [m \in Ids \X Ids |-> Kept(m)]
           U == [u \in Units |-> IF u[1] = s THEN None ELSE d.unit[u]]
           G == [g \in Ids |-> IF g \in gids THEN None ELSE d.grp[g]]
           A == [i \in Ids |-> IF i \in ids THEN None ELSE d.acc[i]]
           X == [x \in Subjects |-> IF x[1] = s THEN None ELSE d.ext[x]]
           S == d.spent \cup ({"user"} \X ids) \cup ({"group"} \X gids)
<1>1. d \in Tables
  BY DEF Sound
<1>2. ids \subseteq Ids /\ gids \subseteq Ids
  BY DEF UsedAccounts, UsedGroups
<1>3. /\ c \in Tables /\ c.spent = d.spent
      /\ \A x \in Subjects : c.umap[x] = IF x[1] = s THEN None ELSE d.umap[x]
  BY <1>1, UnmappedKeeps
<1>4. e = [c EXCEPT !.mem = M, !.unit = U, !.grp = G, !.acc = A, !.ext = X, !.spent = S]
  BY <1>3 DEF DeleteSourceData, Unmapped
<1>5. M \in [Ids \X Ids -> Rows(Member)]
  <2>1. Off \in Member
    BY DEF Member
  <2> HIDE DEF Off, c
  <2> QED
    BY <1>1, <2>1, Columns DEF Rows
<1>6. /\ U \in [Units -> Rows(Unit)] /\ G \in [Ids -> Rows(Group)]
      /\ A \in [Ids -> Rows(Account)] /\ X \in [Subjects -> Rows(Subject)]
  BY <1>1, Columns DEF Rows
<1>7. S \in SUBSET ({"user", "group"} \X Ids)
  BY <1>1, <1>2, Columns
<1>8. /\ \A i \in Ids : A[i] = IF i \in ids THEN None ELSE d.acc[i]
      /\ \A g \in Ids : G[g] = IF g \in gids THEN None ELSE d.grp[g]
      /\ \A x \in Subjects : X[x] = IF x[1] = s THEN None ELSE d.ext[x]
      /\ \A u \in Units : U[u] = IF u[1] = s THEN None ELSE d.unit[u]
  OBVIOUS
<1>9. S = d.spent \cup ({"user"} \X ids) \cup ({"group"} \X gids)
  OBVIOUS
<1> HIDE DEF c, Kept, Off, M, U, G, A, X, S
<1>10. /\ e \in Tables /\ e.unit = U /\ e.grp = G /\ e.acc = A /\ e.ext = X /\ e.spent = S
       /\ e.umap = c.umap
  <2>1. /\ c.umap \in [Subjects -> Rows(UserMap)] /\ c.gmap \in [Units -> Rows(GroupMap)]
        /\ c.mmap \in [Units \X Subjects -> Rows(MemberMap)]
    BY <1>3 DEF Tables
  <2>2. e = [ext |-> X, acc |-> A, unit |-> U, grp |-> G, mem |-> M, umap |-> c.umap,
             gmap |-> c.gmap, mmap |-> c.mmap, spent |-> S]
    BY <1>3, <1>4 DEF Tables
  <2>3. e \in Tables
    BY <1>5, <1>6, <1>7, <2>1, <2>2 DEF Tables
  <2> QED
    BY <2>2, <2>3
<1>11. /\ \A i \in Ids : <<"user", i>> \in S <=> (<<"user", i>> \in d.spent \/ i \in ids)
       /\ \A g \in Ids : <<"group", g>> \in S <=> (<<"group", g>> \in d.spent \/ g \in gids)
  BY <1>9
<1>12. UsedAccounts(e) = UsedAccounts(d) /\ UsedGroups(e) = UsedGroups(d)
  BY <1>8, <1>10, <1>11 DEF UsedAccounts, UsedGroups
<1>13. DistinctNames(e) /\ OwnPlaceholders(e)
  BY <1>8, <1>10 DEF Sound, DistinctNames, OwnPlaceholders
<1>14. OneAccountEach(e)
  BY <1>8, <1>10 DEF Sound, OneAccountEach
<1>15. ReferencesUsed(e)
  BY <1>8, <1>10, <1>12 DEF Sound, ReferencesUsed
<1>16. SpentGone(e) /\ FiniteUse(e)
  BY <1>8, <1>10, <1>11, <1>12 DEF Sound, SpentGone, FiniteUse
<1>17. Fades(d, e)
  BY <1>3, <1>10 DEF Fades, UserMap
<1>18. Sound(e)
  BY <1>10, <1>13, <1>14, <1>15, <1>16 DEF Sound
<1> QED
  BY <1>8, <1>9, <1>10, <1>12, <1>17, <1>18 DEF SourceGone
=============================================================================
