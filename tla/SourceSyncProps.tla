--------------------------- MODULE SourceSyncProps ---------------------------
(***************************************************************************)
(* What reading a directory and synchronising it promise together.         *)
(***************************************************************************)
EXTENDS SourceSync

\* The departments a client can find: WeCom those of the list, the others
\* those that the tree reaches; the root of DingTalk is never missing.
Reaches(s, U) ==
  /\ IF Kind(s) = "dingtalk" THEN Root(s) \in U ELSE Children(s, None) \subseteq U
  /\ \A u \in U : Children(s, u) \subseteq U

Found(s) ==
  IF Kind(s) = "wecom" THEN dir[s].units
  ELSE {u \in Units : \A U \in SUBSET Units : Reaches(s, U) => u \in U}

\* Without a department, only WeCom still lists people.
Listed(s) ==
  {x \in DOMAIN dir[s].users :
     \/ dir[s].users[x].units \cap Found(s) # {}
     \/ Kind(s) = "wecom" /\ Found(s) = {}}

\* Whether the client takes somebody for active: Feishu never says otherwise.
Seen(s, x) == Kind(s) = "feishu" \/ dir[s].users[x].active

\* ReadExactly: when the organisation has not changed since the run began, the
\* snapshot is the organisation: each department the walk can reach, and each
\* person once, with every such department and the status, whatever the pages
\* and whether the departments come with the person or from the walk
\* (ListUsersAndGroups of the three providers against a reference definition).
ReadExactly ==
  [][\A s \in Sources : (SnapshotRead(s) /\ moved[s] = {}) =>
       /\ run'[s].snap.units = Found(s)
       /\ DOMAIN run'[s].snap.users = Listed(s)
       /\ \A x \in Listed(s) : LET u == run'[s].snap.users[x] IN
            /\ u.active = Seen(s, x)
            /\ u.units \cap Found(s) = dir[s].users[x].units \cap Found(s)]_sourceVars

\* StayersStayMapped: somebody who has been in the same place of the organisation
\* since a run began is mapped once the run has committed, unless the account is
\* in conflict, and is not retired afterwards, whoever else came, left or moved
\* while the pages were read.
Stays(s, x) == x[1] = s /\ x \notin moved[s] /\ x \in Listed(s) /\ Seen(s, x)

StayersStayMapped ==
  [][\A s \in Sources, x \in Subjects : Stays(s, x) =>
       /\ CommitMappings(s) =>
            /\ db'.ext[x].active
            /\ ActiveUser(db', x) \/ db'.acc[db'.ext[x].id].status = "conflict"
       /\ RetireAndList(s) =>
            /\ db'.ext[x].active
            /\ ActiveUser(db', x) = ActiveUser(db, x)]_sourceVars

\* LeaversUnmapped: somebody whom the source has not listed since a run began is,
\* once the run has committed, in no mapping of the source that is older than the
\* run, neither as a user nor as a member: no answer of the platform, the late
\* ones of ListGroupMembers included, brings such a mapping back.  (A run without
\* departments keeps the members; one that begins in the second in which rows
\* were written takes them for its own.)
Old(row) == row # None /\ row.active /\ ~row.fresh
Away(s, x) == x[1] = s /\ x \notin moved[s] /\ x \notin Listed(s)

LeaversUnmapped ==
  [][\A s \in Sources, x \in Subjects :
       (Away(s, x) /\ CommitMappings(s) /\ run[s].policy.deactivate) =>
         /\ ActiveUser(db', x) => ~Old(db.umap[x])
         /\ UserOnly(run[s].snap) \/
            \A d \in Units : LET k == <<d, x>> IN
              (db'.mmap[k] # None /\ db'.mmap[k].active)
                => db.mmap[k] # None /\ db.mmap[k].active /\ ~Old(db.mmap[k])]_sourceVars

\* RunsFinish: every run and cleanup ends, also when the platform's page tokens
\* go round in circles, so a source is never blocked by errSyncAlreadyRunning
\* for ever.
RunsFinish == \A s \in Sources : run[s].pc # "idle" ~> run[s].pc = "idle"

\* DepartedLosesLogin: a person whom the platform of an enabled source no longer
\* lists, or lists as inactive, can in the end not log in, if the source retires
\* what is missing and its directory can be read and is valid.
Departed(x) ==
  LET s == x[1]
      snap == [users |-> [y \in Listed(s) |-> [dir[s].users[y] EXCEPT !.active = Seen(s, y)]],
               units |-> Found(s)]
  IN  /\ src[s] = "on" /\ ~platform[s].stuck
      /\ x \notin Active(snap) /\ ValidSnapshot(snap)

DepartedLosesLogin ==
  \A x \in Subjects : <>[]Departed(x) => <>[]~CanLogin(x)
=============================================================================
