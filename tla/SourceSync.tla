------------------------------ MODULE SourceSync ------------------------------
(***************************************************************************)
(* DirectorySync with the directory read by DirectoryFetch: the fetch runs *)
(* inside SyncProvider, so its state lives as long as the run's phase      *)
(* "fetch".  moved[s] are the people whose place in the organisation has   *)
(* changed since the run of s began.                                       *)
(***************************************************************************)
EXTENDS DirectoryFetch

VARIABLE moved

sourceVars == <<vars, platform, fetch, moved>>

SourceInit ==
  /\ Init
  /\ platform \in [Sources -> Platforms]
  /\ fetch = [s \in Sources |-> NoFetch]
  /\ moved = [s \in Sources |-> {}]

\* The place of somebody: the departments, and the organisation they are in.
Place(d, s, x) ==
  [listed |-> x \in DOMAIN d[s].users,
   as     |-> IF x \in DOMAIN d[s].users THEN d[s].users[x] ELSE None,
   units  |-> d[s].units]

\* listDirectorySnapshot has returned.
SnapshotRead(s) ==
  /\ run[s].pc = "fetch" /\ fetch[s].at = "done"
  /\ \E snap \in Read(s) : ReadSnapshot(s, snap)

\* ... or has failed, or returned what validateDirectorySnapshot refuses.
SnapshotFails(s) ==
  /\ \/ fetch[s].at = "failed"
     \/ fetch[s].at = "done" /\ \A snap \in Read(s) : ~ValidSnapshot(snap)
  /\ FetchFails(s)

\* ListGroupMembers, for a snapshot without anybody active.
MembersListed(s) == ListMembers(s, Listable(s))

\* What becomes of the reading and of moved in a step of DirectorySync.
Along ==
  /\ fetch' = [s \in Sources |-> IF run'[s].pc = "fetch" THEN fetch[s] ELSE NoFetch]
  /\ moved' = [s \in Sources |->
       IF run'[s].pc = "idle" THEN {}
       ELSE moved[s] \cup {x \in Subjects : Place(dir', s, x) # Place(dir, s, x)}]
  /\ UNCHANGED platform

SourceNext ==
  \/ \E s \in Sources : FetchStep(s) /\ UNCHANGED <<vars, moved>>
  \/ Elsewhere /\ Along
  \/ \E s \in Sources : (SnapshotRead(s) \/ SnapshotFails(s) \/ MembersListed(s)) /\ Along

SourceSpec == SourceInit /\ [][SourceNext]_sourceVars

(***************************************************************************)
(* Fairness: the ticker fires every minute, and starts a run in a later    *)
(* second than the run before wrote its rows; the goroutine of a run goes  *)
(* on until it returns, for every request to a platform and every call to  *)
(* the Helper has a timeout.  A step of LeaveMap is one of CommitMappings: *)
(* before it the transaction asks about every department once at most, so  *)
(* that it, too, goes on until it commits or fails.                        *)
(***************************************************************************)
SourceFairSpec ==
  /\ SourceSpec
  /\ \A s \in Sources :
       /\ WF_sourceVars(IntervalPasses(s) /\ Along)
       /\ WF_sourceVars(ScheduledSync(s) /\ Along)
       /\ SF_sourceVars(ScheduledSync(s) /\ run[s].pc = "idle" /\ db' = Age(db, s) /\ Along)
       /\ WF_sourceVars(FetchStep(s) /\ UNCHANGED <<vars, moved>>)
       /\ WF_sourceVars((SnapshotRead(s) \/ SnapshotFails(s)) /\ Along)
       /\ WF_run(LeaveMap(s))
       /\ WF_sourceVars((WorkStep(s) \/ CallFails(s)) /\ Along)
=============================================================================
