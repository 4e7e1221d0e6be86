------------------------- MODULE PasswordResetProofs -------------------------
(* ResetInvariant is an invariant of PasswordReset for all accounts, sources,  *)
(* goroutines and bounds; the safety properties follow from it.                *)
EXTENDS PasswordResetProps, FiniteSetTheorems, TLAPS

LEMMA RequestNumbers == Requests \subseteq Nat /\ NoRequest \notin Requests
<1>1. Cardinality(Users) \in Nat
  BY FS_CardinalityType, ResetConstants
<1>2. MaxRuns * Cardinality(Users) \in Nat
  BY <1>1, ResetConstants
<1> QED
  BY <1>2 DEF Requests, NoRequest

\* What every step may use of the types.
LEMMA InitialInvariant == Init => ResetInvariant
<1> SUFFICES ASSUME Init PROVE ResetInvariant
  OBVIOUS
<1> USE RequestNumbers, ResetConstants DEF Init, Idle, NoRun, NoCmd
<1>1. TypeOK
  BY DEF TypeOK, Pcs, Statuses, Stores, NoRequest, Run, Entry, Task, Command
<1>2. OneWriter /\ \A p \in Threads : StepKnows(p)
  BY DEF OneWriter, StepKnows, SystemPcs, Pcs
<1>3. HistoryKnows
  BY DEF HistoryKnows, NoRequest
<1>4. MarkerKnows
  BY DEF MarkerKnows, NoRequest, Holds
<1> QED
  BY <1>1, <1>2, <1>3, <1>4 DEF ResetInvariant

-----------------------------------------------------------------------------
(* Steps of the backend and the database *)

\* A step that only moves the runs and the database keeps everything the Helper knows.
LEMMA Quiet ==
  ASSUME ResetInvariant, TypeOK',
         UNCHANGED <<native, disk, issued, args, rpc, proc>>
  PROVE  ResetInvariant'
<1> USE DEF ResetInvariant, native, disk, rpc
<1>1. OneWriter' /\ (\A p \in Threads : StepKnows(p))'
  BY DEF OneWriter, StepKnows, MarkerIs, UserOf
<1>2. HistoryKnows'
  BY DEF HistoryKnows
<1>3. MarkerKnows'
  BY DEF MarkerKnows, Holds
<1> QED
  BY <1>1, <1>2, <1>3

LEMMA BackendStep ==
  ASSUME ResetInvariant, NEW s \in Sources,
         \/ BeginFull(s) \/ TimesOut(s) \/ RunAborts(s) \/ HearsAnswer(s) \/ RunEnds(s)
  PROVE  ResetInvariant'
<1> USE RequestNumbers, ResetConstants DEF Fault, NoRun, NoRequest
<1>1. run' \in [Sources -> Run]
  <2>1. run \in [Sources -> Run] /\ run[s] \in Run
    BY DEF ResetInvariant, TypeOK
  <2>2. /\ [NoRun EXCEPT !.on = TRUE, !.todo = Users] \in Run
        /\ [NoRun EXCEPT !.result = "failed"] \in Run
    BY DEF Run
  <2> HIDE DEF Fault, NoRun, NoRequest
  <2>3. \A x \in Run : \A v \in {"none", "failed", "success"} :
          /\ [x EXCEPT !.req = NoRequest, !.result = v] \in Run
          /\ [x EXCEPT !.on = FALSE, !.result = v] \in Run
    BY DEF Run
  <2>4. run[s].result \in {"none", "failed", "success"}
    BY <2>1 DEF Run
  <2>5. CASE BeginFull(s) \/ RunAborts(s)
    BY <2>1, <2>2, <2>5, ZenonT(30) DEF BeginFull, RunAborts
  <2>6. CASE TimesOut(s)
    BY <2>1, <2>3, <2>6, ZenonT(30) DEF TimesOut
  <2>7. CASE HearsAnswer(s)
    BY <2>1, <2>3, <2>4, <2>7, ZenonT(30) DEF HearsAnswer
  <2>8. CASE RunEnds(s)
    BY <2>1, <2>3, <2>4, <2>8, ZenonT(30) DEF RunEnds
  <2> QED
    BY <2>5, <2>6, <2>7, <2>8
<1>2. runs' \in 0..MaxRuns /\ faults' \in 0..MaxFaults
  BY DEF ResetInvariant, TypeOK, BeginFull, TimesOut, RunAborts, HearsAnswer, RunEnds
<1>3. UNCHANGED <<granted, native, disk, issued, args, rpc, proc, changes, resends>>
  BY DEF BeginFull, TimesOut, RunAborts, HearsAnswer, RunEnds
<1>4. TypeOK'
  BY <1>1, <1>2, <1>3 DEF ResetInvariant, TypeOK, native, disk, rpc
<1> QED
  BY <1>3, <1>4, Quiet

LEMMA DatabaseStep ==
  ASSUME ResetInvariant, NEW u \in Users, DatabaseChanges(u)
  PROVE  ResetInvariant'
<1>1. TypeOK'
  BY ResetConstants
  DEF ResetInvariant, TypeOK, DatabaseChanges, native, disk, backend, rpc
<1> QED
  BY <1>1, Quiet DEF DatabaseChanges, backend

LEMMA NextAccountStep ==
  ASSUME ResetInvariant, NEW s \in Sources, NEW u \in Users, NextAccount(s, u)
  PROVE  ResetInvariant'
<1>0. run \in [Sources -> Run] /\ run[s] \in Run
  BY DEF ResetInvariant, TypeOK
<1>1. CASE ~Allowed(s, u)
  <2>0. \A v \in {"none", "failed", "success"} :
          [run[s] EXCEPT !.todo = @ \ {u}, !.result = v] \in Run
    BY <1>0 DEF Run
  <2>1. run' \in [Sources -> Run]
    <3>1. run[s].result \in {"none", "failed", "success"}
      BY <1>0 DEF Run
    <3> QED
      BY <1>0, <1>1, <2>0, <3>1 DEF NextAccount
  <2>2. UNCHANGED <<granted, native, disk, issued, args, rpc, proc, runs, faults, changes, resends>>
    BY <1>1 DEF NextAccount, rpc
  <2>3. TypeOK'
    BY <2>1, <2>2 DEF ResetInvariant, TypeOK, native, disk, rpc
  <2> QED
    BY <2>2, <2>3, Quiet
<1>2. CASE Allowed(s, u)
  <2> DEFINE r == issued + 1
  <2>1. /\ r \in Requests
        /\ issued' = r
        /\ args'   = [args EXCEPT ![r] = [user |-> u, source |-> s]]
        /\ inbox'  = inbox \cup {r}
        /\ run'    = [run EXCEPT ![s].todo = @ \ {u}, ![s].req = r, ![s].made = @ \cup {r}]
        /\ UNCHANGED <<granted, native, disk, answer, proc, runs, faults, changes, resends>>
    BY <1>2 DEF NextAccount
  <2>2. TypeOK'
    <3>1. [run[s] EXCEPT !.todo = @ \ {u}, !.req = r, !.made = @ \cup {r}] \in Run
      BY <1>0, <2>1 DEF Run
    <3>2. run' \in [Sources -> Run]
      BY <1>0, <2>1, <3>1
    <3>3. args' \in [Requests -> [user: Users \cup {None}, source: Sources \cup {None}]]
      BY <2>1 DEF ResetInvariant, TypeOK
    <3>4. inbox' \in SUBSET Requests /\ issued' \in Requests
      BY <2>1 DEF ResetInvariant, TypeOK
    <3> QED
      BY <2>1, <3>2, <3>3, <3>4 DEF ResetInvariant, TypeOK, native, disk
  <2>3. /\ issued \in Nat
        /\ ~(r <= issued)
        /\ \A q \in Requests : (q <= r) <=> (q <= issued \/ q = r)
    <3>1. issued \in Nat /\ \A q \in Requests : q \in Nat
      BY RequestNumbers DEF ResetInvariant, TypeOK, NoRequest
    <3> QED
      BY <3>1
  <2>4. \A q \in Requests : args[q].user \in Users => q # r /\ args'[q] = args[q]
    BY <2>1, <2>3 DEF ResetInvariant, HistoryKnows, TypeOK
  <2>5. OneWriter' /\ (\A p \in Threads : StepKnows(p))'
    BY <2>1, <2>4 DEF ResetInvariant, OneWriter, StepKnows, MarkerIs, UserOf, native, disk
  <2>6. HistoryKnows'
    BY <2>1, <2>3, <2>4 DEF ResetInvariant, HistoryKnows, TypeOK, native, disk
  <2>7. MarkerKnows'
    <3>1. \A v \in Users : current[v].req # NoRequest => current[v].req \in Requests
      BY DEF ResetInvariant, TypeOK, Entry
    <3>2. record[r] = "none" /\ ~cmd[r].alive
      <4>1. r \in Requests /\ ~(r <= issued)
        BY <2>1, <2>3
      <4>2. args[r].user \notin Users
        BY <4>1 DEF ResetInvariant, HistoryKnows
      <4>3. record[r] = "none"
        BY <4>1, <4>2 DEF ResetInvariant, HistoryKnows
      <4> QED
        BY <4>1, <4>3 DEF ResetInvariant, HistoryKnows
    <3>3. \A q \in Requests : cmd[q].alive => args'[q] = args[q]
      BY <2>1, <3>2
    <3>4. \A v \in Users : current[v].req # NoRequest => args'[current[v].req] = args[current[v].req]
      BY <2>4, <3>1 DEF ResetInvariant, MarkerKnows
    <3>5. \A v \in Users : current[v].req \in done => current[v].req # NoRequest
      BY RequestNumbers DEF ResetInvariant, TypeOK, Entry
    <3> QED
      BY <2>1, <3>1, <3>3, <3>4, <3>5 DEF ResetInvariant, MarkerKnows, Holds, native, disk
  <2> QED
    BY <2>2, <2>5, <2>6, <2>7 DEF ResetInvariant
<1> QED
  BY <1>1, <1>2

-----------------------------------------------------------------------------
(* Calls, locks and the history *)

\* What holds of the call a goroutine has taken up.
LEMMA CallKnown ==
  ASSUME ResetInvariant, NEW p \in Threads, proc[p].pc # "idle"
  PROVE  /\ proc[p] \in Task
         /\ proc[p].req \in Requests
         /\ proc[p].req # NoRequest
         /\ UserOf(p) \in Users
         /\ args[proc[p].req].source \in Sources \cup {None}
  BY RequestNumbers DEF ResetInvariant, TypeOK, StepKnows, UserOf, Task

LEMMA IdleIsTask == Idle \in Task /\ Idle.pc = "idle"
  BY DEF Idle, Task, Pcs

\* A goroutine takes up a call, or moves without touching files or commands, to a
\* step for which it has what it needs.
LEMMA Moves ==
  ASSUME ResetInvariant, TypeOK', OneWriter', (\A q \in Threads : StepKnows(q))',
         NEW p \in Threads, proc[p].pc # "wait",
         \A q \in Threads \ {p} : proc'[q] = proc[q],
         \A r \in Requests : answer'[r] = "ok" => answer[r] = "ok" \/ record[r] = "completed",
         inbox' \subseteq inbox,
         UNCHANGED <<native, disk, issued, args>>
  PROVE  ResetInvariant'
<1>1. HistoryKnows'
  BY DEF ResetInvariant, HistoryKnows, native, disk
<1>2. MarkerKnows'
  BY DEF ResetInvariant, MarkerKnows, Holds, native, disk
<1> QED
  BY <1>1, <1>2 DEF ResetInvariant

\* A goroutine outside applyPermanentPassword, before and after, needs only its call.
LEMMA Outside ==
  ASSUME ResetInvariant, NEW p \in Threads, proc[p].pc \notin SystemPcs,
         NEW t \in Task, t.pc \notin SystemPcs,
         t.pc # "idle" => t.req \in Requests /\ args[t.req].user \in Users,
         proc' = [proc EXCEPT ![p] = t],
         UNCHANGED <<record, current, started, done, args, cmd>>
  PROVE  /\ proc' \in [Threads -> Task]
         /\ OneWriter'
         /\ (\A q \in Threads : StepKnows(q))'
<1>1. /\ proc' \in [Threads -> Task]
      /\ proc'[p] = t
      /\ \A q \in Threads \ {p} : proc'[q] = proc[q]
  BY DEF ResetInvariant, TypeOK
<1>2. OneWriter'
  BY <1>1 DEF ResetInvariant, OneWriter
<1>3. ASSUME NEW q \in Threads PROVE StepKnows(q)'
  BY <1>1, <1>3 DEF ResetInvariant, StepKnows, MarkerIs, UserOf, SystemPcs, Pcs, Task
<1> QED
  BY <1>1, <1>2, <1>3

LEMMA DeliveryStep ==
  ASSUME ResetInvariant, NEW p \in Threads, NEW r \in Requests,
         Deliver(p, r) \/ DeliverAgain(p, r)
  PROVE  ResetInvariant'
<1> DEFINE t == [pc |-> "lock_account", req |-> r]
<1>1. /\ proc[p].pc \notin SystemPcs /\ proc[p].pc # "wait"
      /\ t \in Task /\ t.pc \notin SystemPcs
      /\ proc' = [proc EXCEPT ![p] = t]
      /\ inbox' \subseteq inbox
      /\ UNCHANGED <<granted, native, disk, backend, answer, faults, changes>>
  BY DEF Deliver, DeliverAgain, Idle, SystemPcs, Task, Pcs, rpc
<1>2. args[r].user \in Users
  <2>1. r \in inbox \/ r <= issued
    BY DEF Deliver, DeliverAgain
  <2> QED
    BY <2>1 DEF ResetInvariant, HistoryKnows
<1>3. proc' \in [Threads -> Task] /\ OneWriter' /\ (\A q \in Threads : StepKnows(q))'
  BY <1>1, <1>2, Outside DEF native, disk, backend
<1>4. resends' \in 0..MaxResends
  BY ResetConstants DEF ResetInvariant, TypeOK, Deliver, DeliverAgain
<1>5. TypeOK'
  BY <1>1, <1>3, <1>4 DEF ResetInvariant, TypeOK, native, disk, backend
<1>6. \A q \in Threads \ {p} : proc'[q] = proc[q]
  BY <1>1 DEF ResetInvariant, TypeOK
<1> QED
  BY <1>1, <1>3, <1>5, <1>6, Moves DEF backend

LEMMA RefuseStep ==
  ASSUME ResetInvariant, NEW p \in Threads, Refuse(p)
  PROVE  ResetInvariant'
<1>1. proc[p].pc \in {"lock_account", "lock_system"}
  BY DEF Refuse
<1>2. /\ proc' = [proc EXCEPT ![p] = Idle]
      /\ answer' = [answer EXCEPT ![proc[p].req] = "error"]
      /\ UNCHANGED <<granted, native, disk, backend, inbox, faults, changes, resends>>
  BY DEF Refuse, Answer
<1>3. proc' \in [Threads -> Task] /\ OneWriter' /\ (\A q \in Threads : StepKnows(q))'
  BY <1>1, <1>2, IdleIsTask, Outside DEF SystemPcs, Pcs, native, disk, backend
<1>4. TypeOK'
  BY <1>1, <1>2, <1>3 DEF ResetInvariant, TypeOK, native, disk, backend
<1>5. /\ \A q \in Threads \ {p} : proc'[q] = proc[q]
      /\ \A r \in Requests : answer'[r] = "ok" => answer[r] = "ok"
  BY <1>2 DEF ResetInvariant, TypeOK
<1> QED
  BY <1>1, <1>2, <1>3, <1>4, <1>5, Moves DEF backend

LEMMA AuthorizedStep ==
  ASSUME ResetInvariant, NEW p \in Threads, Authorized(p)
  PROVE  ResetInvariant'
<1> DEFINE t == [proc[p] EXCEPT !.pc = "lock_system"]
<1>1. proc[p].pc = "lock_account"
  BY DEF Authorized
<1>2. /\ proc[p] \in Task /\ proc[p].req \in Requests /\ UserOf(p) \in Users
  BY <1>1, CallKnown
<1>3. /\ t \in Task /\ t.pc = "lock_system" /\ t.req = proc[p].req
      /\ proc' = [proc EXCEPT ![p] = t]
      /\ UNCHANGED <<granted, native, disk, backend, inbox, answer, faults, changes, resends>>
  BY <1>2 DEF Authorized, Goto, Task, Pcs
<1>4. proc' \in [Threads -> Task] /\ OneWriter' /\ (\A q \in Threads : StepKnows(q))'
  <2> HIDE DEF t
  <2> QED
    BY <1>1, <1>2, <1>3, Outside DEF SystemPcs, Pcs, native, disk, backend, UserOf
<1>5. TypeOK'
  BY <1>3, <1>4 DEF ResetInvariant, TypeOK, native, disk, backend
<1>6. \A q \in Threads \ {p} : proc'[q] = proc[q]
  BY <1>3 DEF ResetInvariant, TypeOK
<1> QED
  BY <1>1, <1>3, <1>4, <1>5, <1>6, Moves DEF backend

\* The goroutine that enters has the project lock to itself.
LEMMA HistoryStep ==
  ASSUME ResetInvariant, NEW p \in Threads, ReadHistory(p)
  PROVE  ResetInvariant'
<1> DEFINE r == proc[p].req
           to(s) == [proc[p] EXCEPT !.pc = s]
<1>1. proc[p].pc = "lock_system" /\ SystemFree
  BY DEF ReadHistory
<1>2. /\ proc[p] \in Task /\ r \in Requests /\ UserOf(p) \in Users
  BY <1>1, CallKnown
<1>3. UNCHANGED <<granted, native, disk, backend, inbox, faults, changes, resends>>
  BY DEF ReadHistory
<1>4. \/ /\ proc' = [proc EXCEPT ![p] = to("write_request")] /\ answer' = answer
         /\ record[r] = "none"
      \/ /\ proc' = [proc EXCEPT ![p] = to("confirm")] /\ answer' = answer
         /\ record[r] = "completed" /\ current[UserOf(p)].req = r
      \/ /\ proc' = [proc EXCEPT ![p] = Idle] /\ record[r] = "completed"
         /\ answer' = [answer EXCEPT ![r] = "ok"]
      \/ /\ proc' = [proc EXCEPT ![p] = Idle]
         /\ answer' = [answer EXCEPT ![r] = "error"]
  BY DEF ReadHistory, Goto, Answer
<1>5. PICK t \in Task :
        /\ proc' = [proc EXCEPT ![p] = t]
        /\ t.pc \in {"idle", "write_request", "confirm"}
        /\ t.pc # "idle" => t.req = r
        /\ t.pc = "write_request" => record[r] = "none"
        /\ t.pc = "confirm" => record[r] = "completed" /\ current[UserOf(p)].req = r
  <2>1. \A s \in {"write_request", "confirm"} :
          to(s) \in Task /\ to(s).pc = s /\ to(s).req = r
    BY <1>2 DEF Task, Pcs
  <2> HIDE DEF to
  <2> QED
    BY <1>4, <2>1, IdleIsTask
<1>6. /\ proc' \in [Threads -> Task]
      /\ proc'[p] = t
      /\ \A q \in Threads \ {p} : proc'[q] = proc[q]
  BY <1>5 DEF ResetInvariant, TypeOK
<1>7. OneWriter'
  BY <1>1, <1>6 DEF OneWriter, SystemFree
<1>8. (\A q \in Threads : StepKnows(q))'
  <2>1. ASSUME NEW q \in Threads, q # p PROVE StepKnows(q)'
    BY <1>3, <1>6, <2>1 DEF ResetInvariant, StepKnows, MarkerIs, UserOf, native, disk, backend
  <2>2. StepKnows(p)'
    <3>1. record[r] = "completed" => r \in done
      BY <1>2 DEF ResetInvariant, HistoryKnows
    <3> QED
      BY <1>2, <1>3, <1>5, <1>6, <3>1 DEF StepKnows, MarkerIs, UserOf, native, disk, backend
  <2> QED
    BY <2>1, <2>2
<1>9. /\ answer' \in [Requests -> {"none", "ok", "error"}]
      /\ \A q \in Requests : answer'[q] = "ok" => answer[q] = "ok" \/ record[q] = "completed"
  BY <1>2, <1>4 DEF ResetInvariant, TypeOK
<1>10. TypeOK'
  BY <1>3, <1>6, <1>9 DEF ResetInvariant, TypeOK, native, disk, backend
<1> QED
  BY <1>1, <1>3, <1>6, <1>7, <1>8, <1>9, <1>10, Moves DEF backend

-----------------------------------------------------------------------------
(* applyPermanentPassword *)

\* The goroutine in applyPermanentPassword moves on or returns; the others wait
\* outside and rely on nothing it changes.
LEMMA WriterMoves ==
  ASSUME ResetInvariant, NEW p \in Threads, proc[p].pc \in SystemPcs,
         NEW t \in Task, proc' = [proc EXCEPT ![p] = t], UNCHANGED args
  PROVE  /\ proc' \in [Threads -> Task]
         /\ proc'[p] = t
         /\ OneWriter'
         /\ \A q \in Threads \ {p} : /\ proc[q].pc \notin SystemPcs
                                    /\ proc'[q] = proc[q]
                                    /\ StepKnows(q)'
<1>1. /\ proc' \in [Threads -> Task]
      /\ proc'[p] = t
      /\ \A q \in Threads \ {p} : proc'[q] = proc[q] /\ proc[q].pc \notin SystemPcs
  BY DEF ResetInvariant, TypeOK, OneWriter
<1>2. OneWriter'
  BY <1>1 DEF OneWriter
<1>3. ASSUME NEW q \in Threads \ {p} PROVE StepKnows(q)'
  BY <1>1, <1>3 DEF ResetInvariant, StepKnows, MarkerIs, UserOf, SystemPcs, Pcs
<1> QED
  BY <1>1, <1>2, <1>3

\* The task after Goto, and after Answer.
LEMMA Targets ==
  ASSUME ResetInvariant, NEW p \in Threads, proc[p].pc # "idle", NEW s \in Pcs
  PROVE  /\ [proc[p] EXCEPT !.pc = s] \in Task
         /\ [proc[p] EXCEPT !.pc = s].pc = s
         /\ [proc[p] EXCEPT !.pc = s].req = proc[p].req
  BY CallKnown DEF Task

LEMMA WriteRequestStep ==
  ASSUME ResetInvariant, NEW p \in Threads, WriteRequest(p)
  PROVE  ResetInvariant'
<1> DEFINE r == proc[p].req
<1>1. proc[p].pc = "write_request" /\ proc[p].pc \in SystemPcs
  BY DEF WriteRequest, SystemPcs, Pcs
<1>2. /\ proc[p] \in Task /\ r \in Requests /\ UserOf(p) \in Users
      /\ record[r] = "none" /\ started[r] = 0 /\ r \notin done
  BY <1>1, CallKnown DEF ResetInvariant, StepKnows, HistoryKnows
<1>3. UNCHANGED <<granted, native, current, backend, inbox, changes, resends>>
  BY DEF WriteRequest
<1>4. PICK t \in Task :
        /\ proc' = [proc EXCEPT ![p] = t]
        /\ \/ /\ t.pc = "mark" /\ t.req = r /\ answer' = answer
              /\ record' = [record EXCEPT ![r] = "applying"]
           \/ t = Idle /\ answer' = [answer EXCEPT ![r] = "error"]
        /\ record' = record \/ record' = [record EXCEPT ![r] = "applying"]
        /\ faults' \in 0..MaxFaults
  <2>1. faults' \in 0..MaxFaults
    BY ResetConstants DEF ResetInvariant, TypeOK, WriteRequest, Disk, Fault
  <2>2. PICK out \in Outcomes :
          /\ record' = IF Lands(out) THEN [record EXCEPT ![r] = "applying"] ELSE record
          /\ IF out = "ok" THEN Goto(p, "mark") ELSE Answer(p, "error")
    BY DEF WriteRequest
  <2>3. CASE out = "ok"
    BY <1>1, <2>1, <2>2, <2>3, Targets DEF Goto, Pcs, Lands
  <2>4. CASE out # "ok"
    BY <2>1, <2>2, <2>4, IdleIsTask DEF Answer
  <2> QED
    BY <2>3, <2>4
<1>5. /\ proc' \in [Threads -> Task] /\ proc'[p] = t /\ OneWriter'
      /\ \A q \in Threads \ {p} : /\ proc[q].pc \notin SystemPcs /\ proc'[q] = proc[q]
                                 /\ StepKnows(q)'
  BY <1>1, <1>3, <1>4, WriterMoves DEF backend
<1>6. TypeOK'
  BY <1>2, <1>3, <1>4, <1>5 DEF ResetInvariant, TypeOK, Statuses, native, backend
<1>7. StepKnows(p)'
  BY <1>2, <1>3, <1>4, <1>5 DEF ResetInvariant, TypeOK, StepKnows, MarkerIs, UserOf, native, backend, Idle
<1>8. HistoryKnows'
  BY <1>2, <1>3, <1>4 DEF ResetInvariant, TypeOK, HistoryKnows, native, backend, UserOf
<1>9. MarkerKnows'
  BY <1>1, <1>2, <1>3, <1>4, <1>5
  DEF ResetInvariant, TypeOK, MarkerKnows, Holds, native, backend, SystemPcs, Pcs, Entry
<1> QED
  BY <1>5, <1>6, <1>7, <1>8, <1>9 DEF ResetInvariant

\* A marker is written for the request at hand: what it leaves for the invariant.
LEMMA MarkerWritten ==
  ASSUME ResetInvariant, NEW p \in Threads, proc[p].pc \in SystemPcs,
         NEW t \in Task, proc' = [proc EXCEPT ![p] = t],
         NEW s \in Statuses \ {"none"},
         current' = current \/ current' = Marker(p, s),
         record[proc[p].req] # "none",
         s = "completed" => proc[p].req \in done,
         proc[p].req \in done => current[UserOf(p)].req = proc[p].req,
         proc[p].pc # "wait",
         \A q \in Requests : answer'[q] = "ok" => answer[q] = "ok" \/ record[q] = "completed",
         UNCHANGED <<native, record, issued, args, inbox>>
  PROVE  /\ current' \in [Users -> Entry]
         /\ HistoryKnows'
         /\ MarkerKnows'
<1> DEFINE r == proc[p].req
           u == UserOf(p)
<1>1. /\ r \in Requests /\ r # NoRequest /\ u \in Users /\ args[r].user = u
  BY CallKnown DEF SystemPcs, UserOf
<1>2. current' \in [Users -> Entry]
  <2>1. current \in [Users -> Entry]
    BY DEF ResetInvariant, TypeOK
  <2>2. [req |-> r, status |-> s] \in Entry
    BY <1>1 DEF Entry
  <2> QED
    BY <2>1, <2>2 DEF Marker
<1>3. HistoryKnows'
  BY DEF ResetInvariant, HistoryKnows, native
<1>4. MarkerKnows'
  <2>1. CASE current' = current
    BY <2>1 DEF ResetInvariant, TypeOK, MarkerKnows, Holds, native, SystemPcs
  <2>2. CASE current' = Marker(p, s)
    <3>1. /\ current'[u] = [req |-> r, status |-> s]
          /\ \A v \in Users \ {u} : current'[v] = current[v]
      BY <1>1, <2>2 DEF ResetInvariant, TypeOK, Marker
    <3>2. \A q \in Threads : proc[q].pc = "wait" => proc'[q] = proc[q]
      BY DEF ResetInvariant, TypeOK
    <3> QED
      BY <1>1, <3>1, <3>2 DEF ResetInvariant, TypeOK, MarkerKnows, Holds, native, Task
  <2> QED
    BY <2>1, <2>2
<1> QED
  BY <1>2, <1>3, <1>4

LEMMA MarkStep ==
  ASSUME ResetInvariant, NEW p \in Threads, Mark(p)
  PROVE  ResetInvariant'
<1> DEFINE r == proc[p].req
           u == UserOf(p)
<1>1. proc[p].pc = "mark" /\ proc[p].pc \in SystemPcs
  BY DEF Mark, SystemPcs, Pcs
<1>2. /\ proc[p] \in Task /\ r \in Requests /\ r # NoRequest /\ u \in Users
      /\ record[r] = "applying" /\ started[r] = 0 /\ r \notin done
  BY <1>1, CallKnown DEF ResetInvariant, StepKnows, HistoryKnows
<1>3. UNCHANGED <<granted, native, record, backend, inbox, changes, resends>>
  BY DEF Mark
<1>4. PICK t \in Task :
        /\ proc' = [proc EXCEPT ![p] = t]
        /\ \/ /\ t.pc = "native" /\ t.req = r /\ answer' = answer
              /\ current' = Marker(p, "applying")
           \/ t = Idle /\ answer' = [answer EXCEPT ![r] = "error"]
        /\ current' = current \/ current' = Marker(p, "applying")
        /\ faults' \in 0..MaxFaults
  <2>1. faults' \in 0..MaxFaults
    BY ResetConstants DEF ResetInvariant, TypeOK, Mark, Disk, Fault
  <2>2. PICK out \in Outcomes :
          /\ current' = IF Lands(out) THEN Marker(p, "applying") ELSE current
          /\ IF out = "ok" THEN Goto(p, "native") ELSE Answer(p, "error")
    BY DEF Mark
  <2>3. CASE out = "ok"
    BY <1>1, <2>1, <2>2, <2>3, Targets DEF Goto, Pcs, Lands
  <2>4. CASE out # "ok"
    BY <2>1, <2>2, <2>4, IdleIsTask DEF Answer
  <2> QED
    BY <2>3, <2>4
<1>5. /\ proc' \in [Threads -> Task] /\ proc'[p] = t /\ OneWriter'
      /\ \A q \in Threads \ {p} : StepKnows(q)'
  BY <1>1, <1>3, <1>4, WriterMoves DEF backend
<1>6. current' \in [Users -> Entry] /\ HistoryKnows' /\ MarkerKnows'
  <2>1. \A q \in Requests : answer'[q] = "ok" => answer[q] = "ok"
    BY <1>2, <1>4 DEF ResetInvariant, TypeOK
  <2> QED
    BY <1>1, <1>2, <1>3, <1>4, <2>1, MarkerWritten DEF Statuses, backend
<1>7. TypeOK'
  BY <1>2, <1>3, <1>4, <1>5, <1>6 DEF ResetInvariant, TypeOK, native, backend
<1>8. StepKnows(p)'
  <2>1. CASE t.pc = "native"
    <3>1. /\ proc'[p].pc = "native" /\ proc'[p].req = r /\ UNCHANGED <<args, record, started>>
          /\ current' = Marker(p, "applying")
      BY <1>3, <1>4, <1>5, <2>1 DEF native, backend, Idle
    <3>2. current'[u].req = r /\ current'[u].status = "applying"
      BY <1>2, <3>1 DEF ResetInvariant, TypeOK, Marker
    <3> QED
      BY <1>2, <3>1, <3>2 DEF StepKnows, MarkerIs, UserOf
  <2>2. CASE t = Idle
    BY <1>5, <2>2 DEF StepKnows, Idle
  <2> QED
    BY <1>4, <2>1, <2>2
<1> QED
  BY <1>5, <1>6, <1>7, <1>8 DEF ResetInvariant

LEMMA ConfirmStep ==
  ASSUME ResetInvariant, NEW p \in Threads, Confirm(p)
  PROVE  ResetInvariant'
<1> DEFINE r == proc[p].req
<1>1. proc[p].pc = "confirm" /\ proc[p].pc \in SystemPcs
  BY DEF Confirm, SystemPcs, Pcs
<1>2. /\ r \in Requests /\ record[r] = "completed" /\ r \in done
      /\ current[UserOf(p)].req = r
  BY <1>1, CallKnown DEF ResetInvariant, StepKnows
<1>3. UNCHANGED <<granted, native, record, backend, inbox, changes, resends>>
  BY DEF Confirm
<1>4. /\ proc' = [proc EXCEPT ![p] = Idle]
      /\ answer' = [answer EXCEPT ![r] = "ok"] \/ answer' = [answer EXCEPT ![r] = "error"]
      /\ current' = current \/ current' = Marker(p, "completed")
  BY DEF Confirm, Answer
<1>5. faults' \in 0..MaxFaults
  BY ResetConstants DEF ResetInvariant, TypeOK, Confirm, Disk, Fault
<1>6. /\ proc' \in [Threads -> Task] /\ proc'[p] = Idle /\ OneWriter'
      /\ \A q \in Threads \ {p} : StepKnows(q)'
  BY <1>1, <1>3, <1>4, IdleIsTask, WriterMoves DEF backend
<1>7. current' \in [Users -> Entry] /\ HistoryKnows' /\ MarkerKnows'
  <2>1. \A q \in Requests : answer'[q] = "ok" => answer[q] = "ok" \/ record[q] = "completed"
    BY <1>2, <1>4 DEF ResetInvariant, TypeOK
  <2> QED
    BY <1>1, <1>2, <1>3, <1>4, <2>1, IdleIsTask, MarkerWritten DEF Statuses, backend
<1>8. TypeOK'
  BY <1>2, <1>3, <1>4, <1>5, <1>6, <1>7 DEF ResetInvariant, TypeOK, native, backend
<1>9. StepKnows(p)'
  BY <1>6 DEF StepKnows, Idle
<1> QED
  BY <1>6, <1>7, <1>8, <1>9 DEF ResetInvariant

LEMMA MarkUnknownStep ==
  ASSUME ResetInvariant, NEW p \in Threads, MarkUnknown(p)
  PROVE  ResetInvariant'
<1> DEFINE r == proc[p].req
<1>1. proc[p].pc = "unknown_mark" /\ proc[p].pc \in SystemPcs
  BY DEF MarkUnknown, SystemPcs, Pcs
<1>2. r \in Requests /\ record[r] # "none" /\ r \notin done
  BY <1>1, CallKnown DEF ResetInvariant, StepKnows, HistoryKnows
<1>3. UNCHANGED <<granted, native, record, backend, inbox, changes, resends>>
  BY DEF MarkUnknown
<1>4. /\ proc' = [proc EXCEPT ![p] = Idle]
      /\ answer' = [answer EXCEPT ![r] = "error"]
      /\ current' = current \/ current' = Marker(p, "unknown")
  BY DEF MarkUnknown, Answer
<1>5. faults' \in 0..MaxFaults
  BY ResetConstants DEF ResetInvariant, TypeOK, MarkUnknown, Disk, Fault
<1>6. /\ proc' \in [Threads -> Task] /\ proc'[p] = Idle /\ OneWriter'
      /\ \A q \in Threads \ {p} : StepKnows(q)'
  BY <1>1, <1>3, <1>4, IdleIsTask, WriterMoves DEF backend
<1>7. current' \in [Users -> Entry] /\ HistoryKnows' /\ MarkerKnows'
  <2>1. \A q \in Requests : answer'[q] = "ok" => answer[q] = "ok"
    BY <1>2, <1>4 DEF ResetInvariant, TypeOK
  <2> QED
    BY <1>1, <1>2, <1>3, <1>4, <2>1, IdleIsTask, MarkerWritten DEF Statuses, backend
<1>8. TypeOK'
  BY <1>2, <1>3, <1>4, <1>5, <1>6, <1>7 DEF ResetInvariant, TypeOK, native, backend
<1>9. StepKnows(p)'
  BY <1>6 DEF StepKnows, Idle
<1> QED
  BY <1>6, <1>7, <1>8, <1>9 DEF ResetInvariant

\* A status is written into the history of the request at hand.
LEMMA HistoryWritten ==
  ASSUME ResetInvariant, NEW p \in Threads, proc[p].pc \in SystemPcs, proc[p].pc # "wait",
         NEW t \in Task, proc' = [proc EXCEPT ![p] = t],
         NEW s \in Statuses \ {"none"},
         record' = record \/ record' = [record EXCEPT ![proc[p].req] = s],
         record[proc[p].req] # "none",
         IF s = "completed" THEN proc[p].req \in done ELSE proc[p].req \notin done,
         \A q \in Requests : answer'[q] = "ok" => answer[q] = "ok",
         UNCHANGED <<native, current, issued, args, inbox>>
  PROVE  /\ record' \in [Requests -> Statuses]
         /\ HistoryKnows'
         /\ MarkerKnows'
<1> DEFINE r == proc[p].req
<1>1. r \in Requests /\ r # NoRequest
  BY CallKnown DEF SystemPcs
<1>2. /\ record' \in [Requests -> Statuses]
      /\ \A q \in Requests \ {r} : record'[q] = record[q]
      /\ record'[r] = record[r] \/ record'[r] = s
  <2>1. record \in [Requests -> Statuses]
    BY DEF ResetInvariant, TypeOK
  <2>2. CASE record' = record
    BY <2>1, <2>2
  <2>3. CASE record' = [record EXCEPT ![r] = s]
    BY <1>1, <2>1, <2>3
  <2> QED
    BY <2>2, <2>3
<1>3. HistoryKnows'
  <2>1. ASSUME NEW q \in Requests, answer[q] = "ok" PROVE record'[q] = "completed"
    BY <1>2, <2>1 DEF ResetInvariant, HistoryKnows
  <2>2. ASSUME NEW q \in Requests, record'[q] = "completed" PROVE q \in done
    BY <1>2, <2>2 DEF ResetInvariant, HistoryKnows
  <2>3. \A q \in Requests : record'[q] = "none" <=> record[q] = "none"
    BY <1>2
  <2> QED
    BY <2>1, <2>2, <2>3 DEF ResetInvariant, HistoryKnows, native
<1>4. MarkerKnows'
  <2>1. \A v \in Users : current[v].req # NoRequest => current[v].req \in Requests
    BY DEF ResetInvariant, TypeOK, Entry
  <2>2. \A q \in Threads : proc[q].pc = "wait" => proc'[q] = proc[q]
    BY DEF ResetInvariant, TypeOK
  <2>3. \A q \in Requests : record[q] # "none" => record'[q] # "none"
    BY <1>2
  <2> QED
    BY <2>1, <2>2, <2>3 DEF ResetInvariant, TypeOK, MarkerKnows, Holds, native, Task
<1> QED
  BY <1>2, <1>3, <1>4

LEMMA CompleteStep ==
  ASSUME ResetInvariant, NEW p \in Threads, Complete(p)
  PROVE  ResetInvariant'
<1> DEFINE r == proc[p].req
           u == UserOf(p)
<1>1. proc[p].pc = "complete" /\ proc[p].pc \in SystemPcs /\ proc[p].pc # "wait"
  BY DEF Complete, SystemPcs, Pcs
<1>2. /\ r \in Requests /\ u \in Users /\ r \in done /\ started[r] = 1
      /\ record[r] # "none" /\ current[u].req = r
  BY <1>1, CallKnown DEF ResetInvariant, StepKnows, HistoryKnows, MarkerIs
<1>3. UNCHANGED <<granted, native, current, backend, inbox, changes, resends>>
  BY DEF Complete
<1>4. PICK t \in Task :
        /\ proc' = [proc EXCEPT ![p] = t]
        /\ \/ /\ t.pc = "confirm" /\ t.req = r /\ answer' = answer
              /\ record' = [record EXCEPT ![r] = "completed"]
           \/ t = Idle /\ answer' = [answer EXCEPT ![r] = "error"]
        /\ record' = record \/ record' = [record EXCEPT ![r] = "completed"]
        /\ faults' \in 0..MaxFaults
  <2>1. faults' \in 0..MaxFaults
    BY ResetConstants DEF ResetInvariant, TypeOK, Complete, Disk, Fault
  <2>2. PICK out \in Outcomes :
          /\ record' = IF Lands(out) THEN [record EXCEPT ![r] = "completed"] ELSE record
          /\ IF out = "ok" THEN Goto(p, "confirm") ELSE Answer(p, "error")
    BY DEF Complete
  <2>3. CASE out = "ok"
    BY <1>1, <2>1, <2>2, <2>3, Targets DEF Goto, Pcs, Lands
  <2>4. CASE out # "ok"
    BY <2>1, <2>2, <2>4, IdleIsTask DEF Answer
  <2> QED
    BY <2>3, <2>4
<1>5. /\ proc' \in [Threads -> Task] /\ proc'[p] = t /\ OneWriter'
      /\ \A q \in Threads \ {p} : StepKnows(q)'
  BY <1>1, <1>3, <1>4, WriterMoves DEF backend
<1>6. record' \in [Requests -> Statuses] /\ HistoryKnows' /\ MarkerKnows'
  <2>1. \A q \in Requests : answer'[q] = "ok" => answer[q] = "ok"
    BY <1>2, <1>4 DEF ResetInvariant, TypeOK
  <2> QED
    BY <1>1, <1>2, <1>3, <1>4, <2>1, HistoryWritten DEF Statuses, backend
<1>7. TypeOK'
  BY <1>2, <1>3, <1>4, <1>5, <1>6 DEF ResetInvariant, TypeOK, native, backend
<1>8. StepKnows(p)'
  <2>1. CASE t.pc = "confirm"
    <3>1. /\ proc'[p].pc = "confirm" /\ proc'[p].req = r /\ UNCHANGED <<args, current, done>>
          /\ record' = [record EXCEPT ![r] = "completed"]
      BY <1>3, <1>4, <1>5, <2>1 DEF native, backend, Idle
    <3>2. record'[r] = "completed"
      BY <1>2, <3>1 DEF ResetInvariant, TypeOK
    <3> QED
      BY <1>2, <3>1, <3>2 DEF StepKnows, MarkerIs, UserOf
  <2>2. CASE t = Idle
    BY <1>5, <2>2 DEF StepKnows, Idle
  <2> QED
    BY <1>4, <2>1, <2>2
<1> QED
  BY <1>5, <1>6, <1>7, <1>8 DEF ResetInvariant

LEMMA RecordUnknownStep ==
  ASSUME ResetInvariant, NEW p \in Threads, RecordUnknown(p)
  PROVE  ResetInvariant'
<1> DEFINE r == proc[p].req
           u == UserOf(p)
           t == [proc[p] EXCEPT !.pc = "unknown_mark"]
<1>1. proc[p].pc = "unknown" /\ proc[p].pc \in SystemPcs /\ proc[p].pc # "wait"
  BY DEF RecordUnknown, SystemPcs, Pcs
<1>2. /\ r \in Requests /\ u \in Users /\ r \notin done /\ started[r] = 1
      /\ record[r] # "none" /\ MarkerIs(p, {"applying"})
  BY <1>1, CallKnown DEF ResetInvariant, StepKnows, HistoryKnows
<1>3. UNCHANGED <<granted, native, current, backend, inbox, changes, resends>>
  BY DEF RecordUnknown
<1>4. /\ t \in Task /\ t.pc = "unknown_mark" /\ t.req = r
      /\ proc' = [proc EXCEPT ![p] = t] /\ answer' = answer
      /\ record' = record \/ record' = [record EXCEPT ![r] = "unknown"]
  BY <1>1, Targets DEF RecordUnknown, Goto, Pcs
<1>5. faults' \in 0..MaxFaults
  BY ResetConstants DEF ResetInvariant, TypeOK, RecordUnknown, Disk, Fault
<1> HIDE DEF t
<1>6. /\ proc' \in [Threads -> Task] /\ proc'[p] = t /\ OneWriter'
      /\ \A q \in Threads \ {p} : StepKnows(q)'
  BY <1>1, <1>3, <1>4, WriterMoves DEF backend
<1>7. record' \in [Requests -> Statuses] /\ HistoryKnows' /\ MarkerKnows'
  BY <1>1, <1>2, <1>3, <1>4, HistoryWritten DEF Statuses, backend
<1>8. TypeOK'
  BY <1>2, <1>3, <1>4, <1>5, <1>6, <1>7 DEF ResetInvariant, TypeOK, native, backend
<1>9. StepKnows(p)'
  BY <1>1, <1>2, <1>3, <1>4, <1>6, CallKnown
  DEF StepKnows, MarkerIs, UserOf, native, backend
<1> QED
  BY <1>6, <1>7, <1>8, <1>9 DEF ResetInvariant

-----------------------------------------------------------------------------
(* The command *)

\* A running command is waited for by the one writer, or its account may be strayed.
LEMMA WaitedOrStray ==
  ASSUME ResetInvariant, NEW r \in Requests, cmd[r].alive
  PROVE  /\ args[r].user \in Users
         /\ r \notin done /\ started[r] # 0
         /\ args[r].user \in stray \/ \E q \in Threads : proc[q] = [pc |-> "wait", req |-> r]
  BY DEF ResetInvariant, HistoryKnows, MarkerKnows

\* What a running command has written stands, unless its account is stray.
LEMMA WrittenHolds ==
  ASSUME ResetInvariant, NEW r \in Requests, cmd[r].alive, args[r].user \notin stray
  PROVE  \A x \in Stores \ cmd[r].left : store[args[r].user][x] = args[r].source
<1>1. args[r].user \in Users
  BY WaitedOrStray
<1> QED
  BY <1>1 DEF ResetInvariant, MarkerKnows

LEMMA StartStep ==
  ASSUME ResetInvariant, NEW p \in Threads, StartCommand(p)
  PROVE  ResetInvariant'
<1> DEFINE r == proc[p].req
           u == UserOf(p)
           t == [proc[p] EXCEPT !.pc = "wait"]
<1>1. proc[p].pc = "native" /\ proc[p].pc \in SystemPcs
  BY DEF StartCommand, SystemPcs, Pcs
<1>2. /\ r \in Requests /\ r # NoRequest /\ u \in Users /\ args[r].user = u
      /\ r \notin done /\ started[r] = 0 /\ record[r] = "applying"
      /\ current[u].req = r /\ current[u].status = "applying" /\ ~cmd[r].alive
  BY <1>1, CallKnown DEF ResetInvariant, StepKnows, HistoryKnows, MarkerIs, UserOf
<1>3. /\ UNCHANGED <<granted, store, done, disk, backend, inbox, answer, faults, changes, resends>>
      /\ cmd' = [cmd EXCEPT ![r] = [alive |-> TRUE, left |-> Stores]]
      /\ started' = [started EXCEPT ![r] = @ + 1]
      /\ stray' = IF Orphans(u) = {} THEN stray \ {u} ELSE stray
      /\ t \in Task /\ t.pc = "wait" /\ t.req = r /\ t = [pc |-> "wait", req |-> r]
      /\ proc' = [proc EXCEPT ![p] = t]
  <2>1. t \in Task /\ t.pc = "wait" /\ t.req = r
    BY <1>1, Targets DEF Pcs
  <2>2. t = [pc |-> "wait", req |-> r]
    <3> HIDE DEF t
    <3>1. t \in [pc: Pcs, req: Requests \cup {NoRequest}]
      BY <2>1 DEF Task
    <3>2. t = [pc |-> t.pc, req |-> t.req]
      BY <3>1
    <3> QED
      BY <2>1, <3>2
  <2> QED
    BY <2>1, <2>2 DEF StartCommand, Goto
<1> HIDE DEF t
<1>4. /\ proc' \in [Threads -> Task] /\ proc'[p] = t /\ OneWriter'
      /\ \A q \in Threads \ {p} : /\ proc[q].pc \notin SystemPcs /\ proc'[q] = proc[q]
                                 /\ StepKnows(q)'
  BY <1>1, <1>3, WriterMoves DEF backend
<1>5. /\ cmd' \in [Requests -> Command]
      /\ cmd'[r] = [alive |-> TRUE, left |-> Stores]
      /\ \A q \in Requests \ {r} : cmd'[q] = cmd[q]
      /\ started' \in [Requests -> Nat]
      /\ started'[r] = 1
      /\ \A q \in Requests \ {r} : started'[q] = started[q]
  <2>1. cmd \in [Requests -> Command] /\ started \in [Requests -> Nat]
    BY DEF ResetInvariant, TypeOK
  <2>2. [alive |-> TRUE, left |-> Stores] \in Command
    BY DEF Command
  <2> QED
    BY <1>2, <1>3, <2>1, <2>2
<1>6. TypeOK'
  BY <1>3, <1>4, <1>5 DEF ResetInvariant, TypeOK, disk, backend
<1>7. StepKnows(p)'
  <2>1. /\ proc'[p].pc = "wait" /\ proc'[p].req = r /\ UNCHANGED <<args, current, done>>
        /\ cmd'[r].alive
    BY <1>3, <1>4, <1>5 DEF disk, backend
  <2> QED
    BY <1>2, <1>5, <2>1 DEF StepKnows, MarkerIs, UserOf
<1>8. HistoryKnows'
  BY <1>2, <1>3, <1>5 DEF ResetInvariant, HistoryKnows, disk, backend
<1>9. MarkerKnows'
  <2>1. \A q \in Requests : ~\E w \in Threads : proc[w] = [pc |-> "wait", req |-> q]
    BY <1>1, <1>4 DEF SystemPcs, Pcs
  <2>2. ASSUME NEW v \in Users, v \notin stray', NEW q \in Requests \ {r}, cmd[q].alive
        PROVE  args[q].user # v
    <3>1. args[q].user \in stray
      BY <2>1, <2>2, WaitedOrStray
    <3>2. CASE Orphans(u) = {}
      <4>1. q \notin Orphans(u)
        BY <3>2
      <4>2. \A w \in Threads : ~(proc[w].pc = "wait" /\ proc[w].req = q)
        BY <1>1, <1>4 DEF SystemPcs, Pcs
      <4>3. args[q].user # u
        BY <2>2, <4>1, <4>2 DEF Orphans
      <4> QED
        BY <1>3, <2>2, <3>1, <3>2, <4>3
    <3> QED
      BY <1>3, <2>2, <3>1, <3>2
  <2>3. ASSUME NEW v \in Users PROVE
          LET m == current[v].req
          IN /\ m = NoRequest <=> current[v].status = "none"
             /\ m # NoRequest => args[m].user = v /\ record[m] # "none"
             /\ current[v].status = "completed" => m \in done
             /\ v \notin stray' => /\ m = NoRequest => Holds(v, Own)
                                   /\ m \in done => Holds(v, args[m].source)
    <3>1. v # u => (v \notin stray' => v \notin stray)
      BY <1>3
    <3>2. v = u => current[v].req = r
      BY <1>2
    <3> QED
      BY <1>2, <3>1, <3>2 DEF ResetInvariant, MarkerKnows
  <2>4. ASSUME NEW v \in Users, v \notin stray', NEW q \in Requests, cmd'[q].alive,
               args[q].user = v
        PROVE  /\ \E w \in Threads : proc'[w] = [pc |-> "wait", req |-> q]
               /\ cmd'[q].left = Stores
    <3>1. q = r
      BY <1>5, <2>2, <2>4
    <3> QED
      BY <1>3, <1>4, <1>5, <3>1
  <2>5. /\ store' = store /\ record' = record /\ current' = current
        /\ args' = args /\ done' = done
    BY <1>3 DEF disk, backend
  <2>6. ASSUME NEW v \in Users, v \notin stray', NEW q \in Requests, cmd'[q].alive,
               args'[q].user = v
        PROVE  /\ \E w \in Threads : proc'[w] = [pc |-> "wait", req |-> q]
               /\ \A x \in Stores \ cmd'[q].left : store'[v][x] = args'[q].source
    BY <2>4, <2>5, <2>6
  <2>7. ASSUME NEW v \in Users PROVE
          (LET m == current[v].req
           IN /\ m = NoRequest <=> current[v].status = "none"
              /\ m # NoRequest => args[m].user = v /\ record[m] # "none"
              /\ current[v].status = "completed" => m \in done
              /\ v \notin stray => /\ m = NoRequest => Holds(v, Own)
                                   /\ m \in done => Holds(v, args[m].source))'
    BY <2>3, <2>5 DEF Holds
  <2> QED
    BY <2>6, <2>7 DEF MarkerKnows
<1> QED
  BY <1>4, <1>6, <1>7, <1>8, <1>9 DEF ResetInvariant

\* The goroutine that waits for its command learns how it ended.
LEMMA CommandEndStep ==
  ASSUME ResetInvariant, NEW p \in Threads, CommandSucceeds(p) \/ CommandFails(p)
  PROVE  ResetInvariant'
<1> DEFINE r == proc[p].req
           u == UserOf(p)
<1>1. proc[p].pc = "wait" /\ proc[p].pc \in SystemPcs
  BY DEF CommandSucceeds, CommandFails, SystemPcs, Pcs
<1>2. /\ r \in Requests /\ r # NoRequest /\ u \in Users /\ args[r].user = u
      /\ r \notin done /\ started[r] = 1 /\ record[r] # "none"
      /\ current[u].req = r /\ current[u].status = "applying" /\ cmd[r].alive
  BY <1>1, CallKnown DEF ResetInvariant, StepKnows, HistoryKnows, MarkerIs, UserOf
<1>3. PICK t \in Task :
        /\ proc' = [proc EXCEPT ![p] = t] /\ t.req = r
        /\ \/ t.pc = "complete" /\ done' = done \cup {r} /\ cmd[r].left = {}
           \/ t.pc = "unknown" /\ done' = done
  BY <1>1, Targets DEF CommandSucceeds, CommandFails, Goto, Pcs
<1>4. /\ UNCHANGED <<granted, store, started, stray, disk, backend, inbox, answer, changes, resends>>
      /\ cmd' = [cmd EXCEPT ![r] = NoCmd]
  BY DEF CommandSucceeds, CommandFails, Goto
<1>5. faults' \in 0..MaxFaults
  BY ResetConstants DEF ResetInvariant, TypeOK, CommandSucceeds, CommandFails, Fault
<1>6. /\ proc' \in [Threads -> Task] /\ proc'[p] = t /\ OneWriter'
      /\ \A q \in Threads \ {p} : /\ proc[q].pc \notin SystemPcs /\ proc'[q] = proc[q]
  BY <1>1, <1>3, <1>4, WriterMoves DEF backend
<1>7. /\ cmd' \in [Requests -> Command]
      /\ ~cmd'[r].alive
      /\ \A q \in Requests \ {r} : cmd'[q] = cmd[q]
  <2>1. NoCmd \in Command /\ ~NoCmd.alive
    BY DEF NoCmd, Command
  <2> QED
    BY <1>2, <1>4, <2>1 DEF ResetInvariant, TypeOK
<1>8. TypeOK'
  BY <1>2, <1>3, <1>4, <1>5, <1>6, <1>7 DEF ResetInvariant, TypeOK, disk, backend
<1>9. (\A q \in Threads : StepKnows(q))'
  <2>1. \A q \in Threads \ {p} : StepKnows(q)'
    BY <1>1, <1>3, <1>4, WriterMoves DEF backend
  <2>2. StepKnows(p)'
    BY <1>2, <1>3, <1>4, <1>6, CallKnown DEF ResetInvariant, StepKnows, MarkerIs, UserOf, disk, backend
  <2> QED
    BY <2>1, <2>2
<1>10. HistoryKnows'
  BY <1>2, <1>3, <1>4, <1>7 DEF ResetInvariant, HistoryKnows, disk, backend
<1>11. MarkerKnows'
  <2>1. ASSUME NEW v \in Users, v \notin stray, current[v].req \in done'
        PROVE  Holds(v, args[current[v].req].source)
    <3>1. CASE current[v].req \in done
      BY <2>1, <3>1 DEF ResetInvariant, MarkerKnows
    <3>2. CASE current[v].req = r
      <4>1. v = u
        BY <1>2, <3>2 DEF ResetInvariant, MarkerKnows
      <4>2. current[v].req \notin done
        BY <1>2, <3>2
      <4>3. cmd[r].left = {}
        BY <1>3, <2>1, <4>2
      <4>4. \A x \in Stores \ cmd[r].left : store[u][x] = args[r].source
        <5>1. r \in Requests /\ u \notin stray /\ cmd[r].alive /\ args[r].user = u
          BY <1>2, <2>1, <4>1
        <5> QED
          BY <5>1, WrittenHolds
      <4>5. \A x \in Stores : store[u][x] = args[r].source
        BY <4>3, <4>4
      <4> QED
        BY <3>2, <4>1, <4>5 DEF Holds
    <3> QED
      BY <1>3, <2>1, <3>1, <3>2
  <2>2. ASSUME NEW q \in Requests, cmd'[q].alive
        PROVE  cmd'[q] = cmd[q] /\ args[q].user \in stray
    <3>1. q # r /\ cmd'[q] = cmd[q]
      BY <1>7, <2>2
    <3>2. \A w \in Threads : proc[w] # [pc |-> "wait", req |-> q]
      BY <1>6, <3>1 DEF SystemPcs, Pcs
    <3> QED
      BY <2>2, <3>1, <3>2, WaitedOrStray
  <2>3. done \subseteq done'
    BY <1>3
  <2> QED
    BY <1>4, <2>1, <2>2, <2>3 DEF ResetInvariant, MarkerKnows, Holds, disk, backend
<1> QED
  BY <1>6, <1>8, <1>9, <1>10, <1>11, WriterMoves, <1>1, <1>3, <1>4 DEF ResetInvariant, backend

\* A command writes one of the two stores.  It is the command the marker's thread
\* waits for, or its account is stray.
LEMMA CommandWritesStep ==
  ASSUME ResetInvariant, NEW r \in Requests, NEW x \in Stores, CommandWrites(r, x)
  PROVE  ResetInvariant'
<1> DEFINE u == args[r].user
           s == args[r].source
<1>1. /\ cmd[r].alive /\ x \in cmd[r].left
      /\ store' = [store EXCEPT ![u][x] = s]
      /\ cmd' = [cmd EXCEPT ![r].left = @ \ {x}]
      /\ UNCHANGED <<granted, started, done, stray, disk, backend, rpc, proc, faults, changes, resends>>
  BY DEF CommandWrites
<1>2. u \in Users /\ s \in Sources /\ r \notin done
  BY <1>1, WaitedOrStray DEF ResetInvariant, HistoryKnows
<1>3. /\ store' \in [Users -> [Stores -> Sources \cup {Own}]]
      /\ store'[u][x] = s
      /\ \A y \in Stores \ {x} : store'[u][y] = store[u][y]
      /\ \A v \in Users \ {u} : store'[v] = store[v]
  BY <1>1, <1>2 DEF ResetInvariant, TypeOK
<1>4. /\ cmd' \in [Requests -> Command]
      /\ cmd'[r].alive /\ cmd'[r].left = cmd[r].left \ {x}
      /\ \A q \in Requests \ {r} : cmd'[q] = cmd[q]
  <2>1. cmd \in [Requests -> Command] /\ cmd[r] \in Command
    BY DEF ResetInvariant, TypeOK
  <2>2. /\ [cmd[r] EXCEPT !.left = @ \ {x}] \in Command
        /\ [cmd[r] EXCEPT !.left = @ \ {x}].alive = cmd[r].alive
        /\ [cmd[r] EXCEPT !.left = @ \ {x}].left = cmd[r].left \ {x}
    BY <2>1 DEF Command
  <2>3. cmd' = [cmd EXCEPT ![r] = [cmd[r] EXCEPT !.left = @ \ {x}]]
    BY <1>1
  <2> QED
    BY <1>1, <2>1, <2>2, <2>3
<1>5. TypeOK'
  BY <1>1, <1>3, <1>4 DEF ResetInvariant, TypeOK, disk, backend, rpc
<1>6. \A q \in Requests : cmd'[q].alive <=> cmd[q].alive
  BY <1>1, <1>4
<1>7. OneWriter' /\ (\A q \in Threads : StepKnows(q))'
  BY <1>1, <1>6 DEF ResetInvariant, OneWriter, StepKnows, MarkerIs, UserOf, disk, backend, rpc
<1>8. HistoryKnows'
  BY <1>1, <1>6 DEF ResetInvariant, HistoryKnows, disk, backend, rpc
<1>9. MarkerKnows'
  <2>1. /\ record' = record /\ current' = current /\ args' = args /\ done' = done
        /\ stray' = stray /\ proc' = proc
    BY <1>1 DEF disk, backend
  <2>2. ASSUME u \notin stray PROVE current[u].req = r
    <3>1. PICK p \in Threads : proc[p] = [pc |-> "wait", req |-> r]
      BY <1>1, <2>2, WaitedOrStray
    <3>2. proc[p].pc = "wait" /\ proc[p].req = r
      BY <3>1
    <3>3. MarkerIs(p, {"applying"})
      BY <3>2 DEF ResetInvariant, StepKnows
    <3> QED
      BY <3>2, <3>3 DEF MarkerIs, UserOf
  <2>3. ASSUME u \notin stray, NEW q \in Requests, cmd[q].alive, args[q].user = u PROVE q = r
    <3>1. PICK p \in Threads : proc[p] = [pc |-> "wait", req |-> q]
      BY <2>3, WaitedOrStray
    <3>2. proc[p].pc = "wait" /\ proc[p].req = q
      BY <3>1
    <3>3. MarkerIs(p, {"applying"})
      BY <3>2 DEF ResetInvariant, StepKnows
    <3> QED
      BY <2>2, <2>3, <3>2, <3>3 DEF MarkerIs, UserOf
  <2>4. ASSUME NEW v \in Users
        PROVE  (LET m == current[v].req
                IN /\ m = NoRequest <=> current[v].status = "none"
                   /\ m # NoRequest => args[m].user = v /\ record[m] # "none"
                   /\ current[v].status = "completed" => m \in done
                   /\ v \notin stray => /\ m = NoRequest => Holds(v, Own)
                                        /\ m \in done => Holds(v, args[m].source))'
    <3>1. CASE v = u
      <4>1. v \notin stray => current[v].req # NoRequest /\ current[v].req \notin done
        BY <1>2, <2>2, <3>1, RequestNumbers
      <4> QED
        BY <2>1, <4>1 DEF ResetInvariant, MarkerKnows
    <3>2. CASE v # u
      BY <1>3, <2>1, <3>2 DEF ResetInvariant, MarkerKnows, Holds
    <3> QED
      BY <3>1, <3>2
  <2>5. ASSUME NEW v \in Users, v \notin stray', NEW q \in Requests, cmd'[q].alive,
               args'[q].user = v
        PROVE  /\ \E w \in Threads : proc'[w] = [pc |-> "wait", req |-> q]
               /\ \A y \in Stores \ cmd'[q].left : store'[v][y] = args'[q].source
    <3>1. /\ \E w \in Threads : proc[w] = [pc |-> "wait", req |-> q]
          /\ \A y \in Stores \ cmd[q].left : store[v][y] = args[q].source
      BY <1>6, <2>1, <2>5 DEF ResetInvariant, MarkerKnows
    <3>2. CASE v = u
      <4>1. q = r
        BY <1>6, <2>1, <2>3, <2>5, <3>2
      <4> QED
        BY <1>3, <1>4, <2>1, <3>1, <3>2, <4>1
    <3>3. CASE v # u
      BY <1>3, <1>4, <2>1, <2>5, <3>1, <3>3
    <3> QED
      BY <3>2, <3>3
  <2> QED
    BY <2>4, <2>5 DEF MarkerKnows
<1> QED
  BY <1>5, <1>7, <1>8, <1>9 DEF ResetInvariant

\* A command nobody waits for ends.
LEMMA OrphanEndsStep ==
  ASSUME ResetInvariant, NEW r \in Requests, OrphanEnds(r)
  PROVE  ResetInvariant'
<1>1. /\ cmd' = [cmd EXCEPT ![r] = NoCmd]
      /\ \A q \in Threads : ~(proc[q].pc = "wait" /\ proc[q].req = r)
      /\ UNCHANGED <<granted, store, started, done, stray, disk, backend, rpc, proc, faults, changes, resends>>
  BY DEF OrphanEnds, Orphans
<1>2. /\ cmd' \in [Requests -> Command]
      /\ ~cmd'[r].alive
      /\ \A q \in Requests \ {r} : cmd'[q] = cmd[q]
  <2>1. NoCmd \in Command /\ ~NoCmd.alive
    BY DEF NoCmd, Command
  <2> QED
    BY <1>1, <2>1 DEF ResetInvariant, TypeOK
<1>3. TypeOK'
  BY <1>1, <1>2 DEF ResetInvariant, TypeOK, disk, backend, rpc
<1>4. OneWriter' /\ (\A q \in Threads : StepKnows(q))'
  BY <1>1, <1>2 DEF ResetInvariant, OneWriter, StepKnows, MarkerIs, UserOf, disk, backend, rpc
<1>5. \A q \in Requests : cmd'[q].alive => cmd'[q] = cmd[q]
  BY <1>2
<1>6. HistoryKnows'
  BY <1>1, <1>5 DEF ResetInvariant, HistoryKnows, disk, backend, rpc
<1>7. MarkerKnows'
  BY <1>1, <1>5 DEF ResetInvariant, MarkerKnows, Holds, disk, backend, rpc
<1> QED
  BY <1>3, <1>4, <1>6, <1>7 DEF ResetInvariant

\* The Helper is killed: what its commands may still do is owned up to in stray.
LEMMA KilledStep ==
  ASSUME ResetInvariant, Killed
  PROVE  ResetInvariant'
<1>1. /\ proc' = [p \in Threads |-> Idle]
      /\ inbox' = {}
      /\ UNCHANGED <<granted, store, started, done, disk, backend, changes, resends>>
  BY DEF Killed
<1>2. PICK alive \in SUBSET {r \in Requests : cmd[r].alive} :
        /\ cmd'   = [r \in Requests |-> IF r \in alive THEN cmd[r] ELSE NoCmd]
        /\ stray' = stray \cup {args[r].user : r \in alive}
  BY DEF Killed
<1>3. /\ answer' \in [Requests -> {"none", "ok", "error"}]
      /\ \A q \in Requests : answer'[q] = "ok" => answer[q] = "ok"
  BY DEF Killed, ResetInvariant, TypeOK
<1>4. /\ cmd' \in [Requests -> Command]
      /\ \A q \in Requests : cmd'[q].alive => q \in alive /\ cmd[q].alive
  <2>1. NoCmd \in Command /\ ~NoCmd.alive
    BY DEF NoCmd, Command
  <2> QED
    BY <1>2, <2>1 DEF ResetInvariant, TypeOK
<1>5. stray' \in SUBSET Users /\ stray \subseteq stray'
  <2>1. \A r \in alive : args[r].user \in Users
    BY <1>2, WaitedOrStray
  <2>2. stray \subseteq Users
    BY DEF ResetInvariant, TypeOK
  <2>3. {args[r].user : r \in alive} \subseteq Users
    BY <2>1
  <2> QED
    BY <1>2, <2>2, <2>3
<1>6. faults' \in 0..MaxFaults
  BY ResetConstants DEF ResetInvariant, TypeOK, Killed, Fault
<1>7. TypeOK'
  BY <1>1, <1>3, <1>4, <1>5, <1>6, IdleIsTask DEF ResetInvariant, TypeOK, disk, backend
<1>8. OneWriter' /\ (\A q \in Threads : StepKnows(q))'
  BY <1>1 DEF OneWriter, StepKnows, Idle, SystemPcs, Pcs
<1>9. HistoryKnows'
  BY <1>1, <1>3, <1>4 DEF ResetInvariant, HistoryKnows, disk, backend
<1>10. MarkerKnows'
  <2>1. \A q \in Requests : cmd'[q].alive => args[q].user \in stray'
    BY <1>2, <1>4
  <2> QED
    BY <1>1, <1>5, <2>1 DEF ResetInvariant, MarkerKnows, Holds, disk, backend
<1> QED
  BY <1>7, <1>8, <1>9, <1>10 DEF ResetInvariant

-----------------------------------------------------------------------------
(* The theorems *)

LEMMA InvariantStep == ResetInvariant /\ [Next]_vars => ResetInvariant'
<1> SUFFICES ASSUME ResetInvariant, [Next]_vars PROVE ResetInvariant'
  OBVIOUS
<1>1. CASE \E s \in Sources : BeginFull(s) \/ TimesOut(s) \/ RunAborts(s) \/ RunStep(s)
  BY <1>1, BackendStep, NextAccountStep DEF RunStep
<1>2. CASE \E u \in Users : DatabaseChanges(u)
  BY <1>2, DatabaseStep
<1>3. CASE \E p \in Threads : Works(p)
  <2> SUFFICES ASSUME NEW p \in Threads, Works(p) PROVE ResetInvariant'
    BY <1>3
  <2>1. CASE Refuse(p) \/ Authorized(p) \/ ReadHistory(p)
    BY <2>1, RefuseStep, AuthorizedStep, HistoryStep
  <2>2. CASE WriteRequest(p) \/ Mark(p) \/ Complete(p) \/ Confirm(p)
    BY <2>2, WriteRequestStep, MarkStep, CompleteStep, ConfirmStep
  <2>3. CASE StartCommand(p) \/ CommandSucceeds(p) \/ CommandFails(p)
    BY <2>3, StartStep, CommandEndStep
  <2>4. CASE RecordUnknown(p) \/ MarkUnknown(p)
    BY <2>4, RecordUnknownStep, MarkUnknownStep
  <2> QED
    BY <2>1, <2>2, <2>3, <2>4 DEF Works
<1>4. CASE \E p \in Threads, r \in Requests : Deliver(p, r) \/ DeliverAgain(p, r)
  BY <1>4, DeliveryStep
<1>5. CASE \E r \in Requests : CommandStep(r) \/ OrphanEnds(r)
  BY <1>5, CommandWritesStep, OrphanEndsStep DEF CommandStep
<1>6. CASE Killed
  BY <1>6, KilledStep
<1>7. CASE UNCHANGED vars
  BY <1>7 DEF vars, ResetInvariant, TypeOK, OneWriter, StepKnows, MarkerIs, UserOf,
              HistoryKnows, MarkerKnows, Holds
<1> QED
  BY <1>1, <1>2, <1>3, <1>4, <1>5, <1>6, <1>7 DEF Next, Accepts

\* The inductive invariant: what each step of applyPermanentPassword may rely on, and
\* how history, marker, commands and stores belong together.
THEOREM ResetInvariantHolds == Spec => []ResetInvariant
<1>1. Init => ResetInvariant
  BY InitialInvariant
<1>2. ResetInvariant /\ [Next]_vars => ResetInvariant'
  BY InvariantStep
<1> QED
  BY <1>1, <1>2, PTL DEF Spec

\* Every variable keeps its type, within every bound.
THEOREM TypeCorrect == Spec => []TypeOK
<1>1. ResetInvariant => TypeOK
  BY DEF ResetInvariant
<1> QED
  BY <1>1, ResetInvariantHolds, PTL

\* The native command of a request is started at most once, whatever is delivered
\* again and wherever the Helper is killed.
THEOREM StartedAtMostOnce == Spec => []AtMostOnce
<1>1. ResetInvariant => AtMostOnce
  BY DEF ResetInvariant, HistoryKnows, AtMostOnce
<1> QED
  BY <1>1, ResetInvariantHolds, PTL

\* Both stores hold the password of the request a "completed" marker names, as long
\* as no command of a dead Helper is about.
THEOREM ConfirmedMarkers == Spec => []ConfirmedIsSet
<1>1. ResetInvariant => ConfirmedIsSet
  BY DEF ResetInvariant, MarkerKnows, ConfirmedIsSet
<1> QED
  BY <1>1, ResetInvariantHolds, PTL

\* An account that lets logins through has equal stores and no running command, as
\* long as no command of a dead Helper is about.
THEOREM LoginsAreSafe == Spec => []LoginsWait
<1>1. ASSUME ResetInvariant PROVE LoginsWait
  <2> SUFFICES ASSUME NEW u \in Users, ~Pending(u), u \notin stray
               PROVE  /\ store[u]["dsm"] = store[u]["smb"]
                      /\ \A r \in Requests : args[r].user = u => ~cmd[r].alive
    BY DEF LoginsWait
  <2> DEFINE m == current[u].req
  <2>1. m = NoRequest \/ m \in done
    BY <1>1 DEF ResetInvariant, MarkerKnows, Pending
  <2>2. store[u]["dsm"] = store[u]["smb"]
    BY <1>1, <2>1 DEF ResetInvariant, MarkerKnows, Holds, Stores
  <2>3. ASSUME NEW r \in Requests, args[r].user = u, cmd[r].alive PROVE FALSE
    <3>1. PICK p \in Threads : proc[p] = [pc |-> "wait", req |-> r]
      BY <1>1, <2>3, WaitedOrStray
    <3>2. proc[p].pc = "wait" /\ proc[p].req = r
      BY <3>1
    <3>3. MarkerIs(p, {"applying"})
      BY <1>1, <3>2 DEF ResetInvariant, StepKnows
    <3> QED
      BY <2>3, <3>2, <3>3 DEF MarkerIs, UserOf, Pending
  <2> QED
    BY <2>2, <2>3
<1> QED
  BY <1>1, ResetInvariantHolds, PTL

\* A caller was told "success" only for a request whose command has succeeded and
\* whose history says so.
THEOREM SuccessesAreDurable == Spec => []SuccessIsDurable
<1>1. ResetInvariant => SuccessIsDurable
  BY DEF ResetInvariant, HistoryKnows, SuccessIsDurable
<1> QED
  BY <1>1, ResetInvariantHolds, PTL

-----------------------------------------------------------------------------
(* What a successful run means *)

\* A completed request stays completed.
LEMMA HistoryKept ==
  ASSUME ResetInvariant, [Next]_vars, NEW r \in Requests, record[r] = "completed"
  PROVE  record'[r] = "completed"
<1>1. CASE UNCHANGED record
  BY <1>1
<1>2. ASSUME NEW p \in Threads, WriteRequest(p) PROVE record'[r] = "completed"
  <2>1. record[proc[p].req] = "none"
    BY <1>2 DEF ResetInvariant, StepKnows, WriteRequest
  <2>2. proc[p].req # r
    BY <2>1
  <2> QED
    BY <1>2, <2>2 DEF ResetInvariant, TypeOK, WriteRequest
<1>3. ASSUME NEW p \in Threads, Complete(p) PROVE record'[r] = "completed"
  BY <1>3 DEF ResetInvariant, TypeOK, Complete
<1>4. ASSUME NEW p \in Threads, RecordUnknown(p) PROVE record'[r] = "completed"
  <2>1. proc[p].req \notin done
    BY <1>4 DEF ResetInvariant, StepKnows, RecordUnknown
  <2>2. proc[p].req # r
    BY <2>1 DEF ResetInvariant, HistoryKnows
  <2> QED
    BY <1>4, <2>2 DEF ResetInvariant, TypeOK, RecordUnknown
<1>5. \/ UNCHANGED record
      \/ \E p \in Threads : WriteRequest(p) \/ Complete(p) \/ RecordUnknown(p)
  <2>1. ASSUME NEW s \in Sources, BeginFull(s) \/ TimesOut(s) \/ RunAborts(s) \/ RunStep(s)
        PROVE  UNCHANGED record
    BY <2>1 DEF BeginFull, TimesOut, RunAborts, RunStep, NextAccount, HearsAnswer, RunEnds, disk
  <2>2. ASSUME NEW u \in Users, DatabaseChanges(u) PROVE UNCHANGED record
    BY <2>2 DEF DatabaseChanges, disk
  <2>3. ASSUME NEW p \in Threads, Works(p)
        PROVE  UNCHANGED record \/ WriteRequest(p) \/ Complete(p) \/ RecordUnknown(p)
    BY <2>3 DEF Works, Refuse, Authorized, ReadHistory, Mark, StartCommand, CommandSucceeds,
                CommandFails, Confirm, MarkUnknown, disk
  <2>4. ASSUME NEW p \in Threads, NEW q \in Requests, Deliver(p, q) \/ DeliverAgain(p, q)
        PROVE  UNCHANGED record
    BY <2>4 DEF Deliver, DeliverAgain, disk
  <2>5. ASSUME NEW q \in Requests, CommandStep(q) \/ OrphanEnds(q) PROVE UNCHANGED record
    BY <2>5 DEF CommandStep, CommandWrites, OrphanEnds, disk
  <2>6. CASE Killed \/ UNCHANGED vars
    BY <2>6 DEF Killed, vars, disk
  <2> QED
    BY <2>1, <2>2, <2>3, <2>4, <2>5, <2>6 DEF Next, Accepts
<1> QED
  BY <1>1, <1>2, <1>3, <1>4, <1>5

\* A step leaves a run alone or is one of its own.
LEMMA RunMoves ==
  ASSUME ResetInvariant, [Next]_vars, NEW s \in Sources
  PROVE  \/ run'[s] = run[s]
         \/ BeginFull(s) \/ TimesOut(s) \/ RunAborts(s) \/ RunEnds(s) \/ HearsAnswer(s)
         \/ \E u \in Users : NextAccount(s, u)
<1>0. run \in [Sources -> Run]
  BY DEF ResetInvariant, TypeOK
<1>1. ASSUME NEW z \in Sources, z # s, BeginFull(z) \/ TimesOut(z) \/ RunAborts(z) \/ RunStep(z)
      PROVE  run'[s] = run[s]
  BY <1>0, <1>1 DEF BeginFull, TimesOut, RunAborts, RunStep, NextAccount, HearsAnswer, RunEnds
<1>2. ASSUME NEW u \in Users, DatabaseChanges(u) PROVE run' = run
  BY <1>2 DEF DatabaseChanges, backend
<1>3. ASSUME NEW p \in Threads, Works(p) PROVE run' = run
  BY <1>3 DEF Works, Refuse, Authorized, ReadHistory, WriteRequest, Mark, StartCommand,
              CommandSucceeds, CommandFails, Complete, Confirm, RecordUnknown, MarkUnknown, backend
<1>4. ASSUME NEW p \in Threads, NEW q \in Requests, Deliver(p, q) \/ DeliverAgain(p, q)
      PROVE  run' = run
  BY <1>4 DEF Deliver, DeliverAgain, backend
<1>5. ASSUME NEW q \in Requests, CommandStep(q) \/ OrphanEnds(q) PROVE run' = run
  BY <1>5 DEF CommandStep, CommandWrites, OrphanEnds, backend
<1>6. CASE Killed \/ UNCHANGED vars
  BY <1>6 DEF Killed, vars, backend
<1> QED
  BY <1>1, <1>2, <1>3, <1>4, <1>5, <1>6 DEF Next, Accepts, RunStep

LEMMA RunsKnowStep == ResetInvariant /\ RunsKnow /\ [Next]_vars => RunsKnow'
<1> SUFFICES ASSUME ResetInvariant, RunsKnow, [Next]_vars, NEW s \in Sources,
                    run'[s].on, run'[s].result # "failed", NEW r \in run'[s].made
             PROVE  r = run'[s].req \/ record'[r] = "completed"
  BY DEF RunsKnow
<1>1. run \in [Sources -> Run] /\ \A z \in Sources : run[z].made \subseteq Requests
  BY DEF ResetInvariant, TypeOK, Run
<1>2. CASE run'[s] = run[s]
  BY <1>1, <1>2, HistoryKept DEF RunsKnow
<1>3. CASE BeginFull(s) \/ TimesOut(s) \/ RunAborts(s) \/ RunEnds(s)
  <2>1. CASE BeginFull(s)
    BY <1>1, <2>1 DEF BeginFull, NoRun
  <2>2. CASE TimesOut(s)
    BY <1>1, <2>2 DEF TimesOut, Run
  <2>3. CASE RunAborts(s)
    BY <1>1, <2>3 DEF RunAborts, NoRun
  <2>4. CASE RunEnds(s)
    BY <1>1, <2>4 DEF RunEnds, Run
  <2> QED
    BY <1>3, <2>1, <2>2, <2>3, <2>4
<1>4. CASE HearsAnswer(s)
  <2>1. /\ run[s].on /\ run[s].result # "failed" /\ run'[s].made = run[s].made
        /\ answer[run[s].req] = "ok" /\ UNCHANGED record
    BY <1>1, <1>4 DEF HearsAnswer, Run, disk
  <2>2. r \in Requests /\ (r = run[s].req \/ record[r] = "completed")
    BY <1>1, <2>1 DEF RunsKnow
  <2> QED
    BY <2>1, <2>2 DEF ResetInvariant, HistoryKnows
<1>5. ASSUME NEW u \in Users, NextAccount(s, u)
      PROVE  r = run'[s].req \/ record'[r] = "completed"
  <2>1. /\ run[s].req = NoRequest /\ UNCHANGED record
        /\ run[s].on /\ run[s].result # "failed"
        /\ r \in run[s].made \/ r = run'[s].req
    BY <1>1, <1>5 DEF NextAccount, Run, disk
  <2>2. CASE r \in run[s].made
    BY <1>1, <2>1, <2>2, RequestNumbers DEF RunsKnow
  <2> QED
    BY <2>1, <2>2
<1> QED
  BY <1>2, <1>3, <1>4, <1>5, RunMoves

\* A full synchronization that ends as a success has confirmed every reset it asked for.
THEOREM SuccessfulRunsConfirm == Spec => SuccessfulRunConfirms
<1>1. Init => RunsKnow
  BY DEF Init, RunsKnow, NoRun
<1>2. ASSUME ResetInvariant, RunsKnow, [Next]_vars
      PROVE  [\A s \in Sources : RunSucceeds(s) => \A r \in run[s].made : record[r] = "completed"]_vars
  <2> SUFFICES ASSUME NEW s \in Sources, RunSucceeds(s), NEW r \in run[s].made
               PROVE  record[r] = "completed"
    OBVIOUS
  <2>1. run \in [Sources -> Run] /\ run[s].made \subseteq Requests
    BY <1>2 DEF ResetInvariant, TypeOK, Run
  <2>2. RunEnds(s)
    <3>1. run[s].on /\ ~run'[s].on /\ run'[s].result = "success"
      BY DEF RunSucceeds
    <3>2. ~BeginFull(s)
      BY <3>1 DEF BeginFull
    <3>3. ~TimesOut(s) /\ ~RunAborts(s) /\ ~HearsAnswer(s)
      BY <2>1, <3>1 DEF TimesOut, RunAborts, HearsAnswer, NoRun, Run
    <3>4. ASSUME NEW u \in Users PROVE ~NextAccount(s, u)
      BY <2>1, <3>1 DEF NextAccount, Run
    <3> QED
      BY <1>2, <3>1, <3>2, <3>3, <3>4, RunMoves
  <2>3. run[s].on /\ run[s].req = NoRequest /\ run[s].result # "failed"
    BY <2>1, <2>2 DEF RunEnds, RunSucceeds, Run
  <2> QED
    BY <1>2, <2>1, <2>3, RequestNumbers DEF RunsKnow
<1> QED
  BY <1>1, <1>2, RunsKnowStep, ResetInvariantHolds, PTL DEF Spec, SuccessfulRunConfirms
=============================================================================
