------------------------- MODULE LoginJournalProofs -------------------------
(***************************************************************************)
(* The promises of the temporary-password login, for any number of         *)
(* accounts, requests, threads, faults and administrator changes: types,   *)
(* the recovery invariant and what it gives (no temporary hash without its *)
(* recovery material, no two logins on one account, no permanent password  *)
(* lost), the action properties, and the implementation of PasswordLease.  *)
(*                                                                         *)
(* Most steps are quiet: they leave alone what the invariant says of the   *)
(* disk, so only the task that moves has something to show.  The others,   *)
(* the ones that write a hash, finish a journal or start one, get a lemma  *)
(* each.  LeaseInvariant then says what the order of a task's steps adds.  *)
(***************************************************************************)
EXTENDS LoginJournalProps, TLAPS

Answers == {"none", "temp", "session", "error"}

\* The type invariant and what every operation names: inductive by themselves.
Typing == TypeOK /\ OperationsNamed

\* A call or a step changes no more than one task and at most one answer.
ProcsTyped == proc' \in [Procs -> NamedTask] /\ reply' \in [Requests -> Answers]

-----------------------------------------------------------------------------
(* Types *)

LEMMA DiskType ==
  ASSUME TypeOK, NEW out, Disk(out)
  PROVE  faults' \in 0..MaxFaults
BY BoundsAreNumbers DEF TypeOK, Disk

LEMMA IdleType == Idle \in NamedTask /\ NoJournal \in Journal
BY DEF Idle, NamedTask, Task, Pcs, AllOps, LoginOps, PolicyOps, Hashes, RequestPcs,
       LoginPcs, WorkPcs, ClosePcs, TidyPcs, NoJournal, Journal

LEMMA TaskMoves ==
  ASSUME NEW t \in NamedTask, t.pc # "idle",
         NEW s \in Pcs \ {"lock_account", "finish"}, s \in RequestPcs => t.req \in Requests
  PROVE  /\ [t EXCEPT !.pc = s] \in NamedTask
         /\ \A b \in BOOLEAN : [t EXCEPT !.pc = s, !.ok = b] \in NamedTask
         /\ \A h \in Hashes : [t EXCEPT !.pc = s, !.original = h] \in NamedTask
         /\ \A r \in Requests : [t EXCEPT !.pc = s, !.req = r] \in NamedTask
<1>1. t \in Task /\ t.user \in Users
  BY DEF NamedTask
<1>2. [t EXCEPT !.pc = s] \in NamedTask
  BY <1>1 DEF NamedTask, Task
<1>3. ASSUME NEW b \in BOOLEAN
      PROVE  [t EXCEPT !.pc = s, !.ok = b] \in NamedTask
  BY <1>1 DEF NamedTask, Task
<1>4. ASSUME NEW h \in Hashes
      PROVE  [t EXCEPT !.pc = s, !.original = h] \in NamedTask
  BY <1>1 DEF NamedTask, Task
<1>5. ASSUME NEW r \in Requests
      PROVE  [t EXCEPT !.pc = s, !.req = r] \in NamedTask
  BY <1>1 DEF NamedTask, Task
<1> QED
  BY <1>2, <1>3, <1>4, <1>5

LEMMA FinishTask ==
  ASSUME NEW t \in NamedTask, t.pc # "idle", t.req \in Requests, NEW v \in Terminal
  PROVE  [t EXCEPT !.pc = "finish", !.verdict = v] \in NamedTask
<1>1. t \in Task /\ t.user \in Users /\ "finish" \in Pcs
  BY DEF NamedTask, Pcs, AccountPcs
<1> QED
  BY <1>1 DEF NamedTask, Task

LEMMA TakeTask ==
  ASSUME NEW t \in NamedTask, t.pc # "idle", NEW r \in Requests
  PROVE  [t EXCEPT !.pc = "mark", !.req = r] \in NamedTask
<1>1. t \in Task /\ t.user \in Users /\ "mark" \in Pcs
  BY DEF NamedTask, Pcs, AccountPcs
<1> QED
  BY <1>1 DEF NamedTask, Task

LEMMA JournalMoves ==
  ASSUME NEW j \in Journal, NEW s \in Live \cup Terminal
  PROVE  /\ [j EXCEPT !.status = s] \in Journal
         /\ [j EXCEPT !.place = "completed"] \in Journal
         /\ [j EXCEPT !.failed = TRUE] \in Journal
BY DEF Journal

LEMMA RowMoves ==
  ASSUME NEW a \in Row
  PROVE  /\ \A h \in Hashes : [a EXCEPT !.hash = h] \in Row
         /\ \A b \in BOOLEAN : [a EXCEPT !.disabled = b] \in Row
         /\ [a EXCEPT !.locked = ~@] \in Row
         /\ [a EXCEPT !.disabled = ~@] \in Row
         /\ [a EXCEPT !.admin = ~@] \in Row
         /\ [a EXCEPT !.exists = FALSE] \in Row
<1>1. \A h \in Hashes : [a EXCEPT !.hash = h] \in Row
  BY DEF Row
<1>2. /\ \A b \in BOOLEAN : [a EXCEPT !.disabled = b] \in Row
      /\ [a EXCEPT !.disabled = ~@] \in Row
  BY DEF Row
<1>3. [a EXCEPT !.locked = ~@] \in Row /\ [a EXCEPT !.admin = ~@] \in Row
  BY DEF Row
<1>4. [a EXCEPT !.exists = FALSE] \in Row
  BY DEF Row
<1> QED
  BY <1>1, <1>2, <1>3, <1>4

LEMMA NewRowType ==
  ASSUME TypeOK, NEW u \in Users, NEW h \in Passwords, NewRow(u, h)
  PROVE  account' \in [Users -> Row]
<1>1. account[u].uid \in Nat
  BY DEF TypeOK, Row
<1>2. \A id \in Nat : [exists |-> TRUE, uid |-> id, hash |-> h,
                       locked |-> FALSE, disabled |-> FALSE, admin |-> FALSE] \in Row
  BY DEF Row, Hashes
<1>3. account[u].uid + 1 \in Nat
  BY <1>1
<1> QED
  BY <1>1, <1>2, <1>3 DEF NewRow, TypeOK

LEMMA MaterialType ==
  ASSUME Typing, NEW p \in Procs, proc[p].user \in Users
  PROVE  Material(p) \in Journal
<1>1. proc[p] \in Task /\ account[proc[p].user] \in Row
  BY DEF Typing, TypeOK
<1> QED
  BY <1>1 DEF Material, Journal, Task, Row, Live

LEMMA GotoType ==
  ASSUME Typing, NEW p \in Procs, proc[p].pc # "idle",
         NEW s \in Pcs \ {"lock_account", "finish"}, s \in RequestPcs => proc[p].req \in Requests,
         Goto(p, s)
  PROVE  ProcsTyped
<1>1. [proc[p] EXCEPT !.pc = s] \in NamedTask
  BY TaskMoves DEF Typing, OperationsNamed, Terminal
<1> QED
  BY <1>1 DEF Typing, TypeOK, OperationsNamed, Goto, ProcsTyped, Answers

LEMMA AnswerType ==
  ASSUME Typing, NEW p \in Procs, NEW a \in Answers, Answer(p, a)
  PROVE  ProcsTyped
BY IdleType DEF Typing, TypeOK, OperationsNamed, Answer, ProcsTyped, Answers

LEMMA RestoreFailsType ==
  ASSUME Typing, NEW p \in Procs, proc[p].pc # "idle", proc[p].req \in Requests, RestoreFails(p)
  PROVE  ProcsTyped
<1>1. CASE Goto(p, "record")
  BY <1>1, GotoType DEF Pcs, AccountPcs
<1>2. CASE Answer(p, "error")
  BY <1>2, AnswerType DEF Answers
<1> QED
  BY <1>1, <1>2 DEF RestoreFails

LEMMA RestoreEndsType ==
  ASSUME Typing, NEW p \in Procs, proc[p].pc # "idle", RestoreEnds(p)
  PROVE  ProcsTyped
<1>1. CASE Goto(p, "native")
  BY <1>1, GotoType DEF Pcs, AccountPcs, RequestPcs, LoginPcs, WorkPcs, ClosePcs, TidyPcs
<1>2. CASE Answer(p, "session") \/ Answer(p, "error")
  BY <1>2, AnswerType DEF Answers
<1> QED
  BY <1>1, <1>2 DEF RestoreEnds

\* What a step that keeps types has to show.
LEMMA TypingNext ==
  ASSUME account' \in [Users -> Row], policy' \in [Users -> Nat],
         secret' \in [Users -> Passwords \cup {NoPassword}], marker' \in SUBSET Users,
         journal' \in [Requests -> Journal], index' \in [Users -> SUBSET Requests],
         expired' \in SUBSET Requests, backoff' \in SUBSET Requests,
         ProcsTyped, pass' \in [on: BOOLEAN, todo: SUBSET (Users \X Requests)],
         ready' \in BOOLEAN, faults' \in 0..MaxFaults, edits' \in 0..MaxEdits
  PROVE  Typing'
<1>1. proc' \in [Procs -> Task]
  BY DEF NamedTask, ProcsTyped
<1> QED
  BY <1>1 DEF Typing, TypeOK, OperationsNamed, ProcsTyped, Answers

LEMMA TypingNow ==
  ASSUME Typing
  PROVE  /\ account \in [Users -> Row] /\ policy \in [Users -> Nat]
         /\ secret \in [Users -> Passwords \cup {NoPassword}] /\ marker \in SUBSET Users
         /\ journal \in [Requests -> Journal] /\ index \in [Users -> SUBSET Requests]
         /\ expired \in SUBSET Requests /\ backoff \in SUBSET Requests
         /\ proc \in [Procs -> NamedTask] /\ reply \in [Requests -> Answers]
         /\ pass \in [on: BOOLEAN, todo: SUBSET (Users \X Requests)]
         /\ ready \in BOOLEAN /\ faults \in 0..MaxFaults /\ edits \in 0..MaxEdits
         /\ TypeOK
BY DEF Typing, TypeOK, OperationsNamed, Answers

\* What an operation under way names.
LEMMA NamesNow ==
  ASSUME Typing, NEW p \in Procs
  PROVE  /\ proc[p] \in NamedTask
         /\ proc[p].pc # "idle" => proc[p].user \in Users
         /\ proc[p].pc \in RequestPcs => proc[p].req \in Requests
         /\ proc[p].pc = "lock_account" /\ proc[p].op \in LoginOps \cup {"complete", "scan"}
              => proc[p].req \in Requests
         /\ proc[p].pc = "finish" => proc[p].verdict \in Terminal
         /\ proc[p].req \in Requests \cup {None}
         /\ proc[p].original \in Hashes
BY TypingNow DEF NamedTask, Task

\* The steps of a login.
LEMMA LoginTyping ==
  ASSUME Typing, NEW p \in Procs, LoginStep(p)
  PROVE  Typing'
<1> USE NamesNow
<1>1. CASE LoginRefused(p)
  <2>1. ProcsTyped
    BY <1>1, GotoType, AnswerType DEF LoginRefused, Pcs, AccountPcs, RequestPcs, LoginPcs, WorkPcs, ClosePcs, TidyPcs, Answers
  <2> QED
    BY <1>1, <2>1, TypingNow, TypingNext DEF LoginRefused, dsm, files, clock, helper
<1>2. CASE LoginRepeated(p)
  <2>1. ProcsTyped
    BY <1>2, GotoType, AnswerType DEF LoginRepeated, Pcs, AccountPcs, RequestPcs, LoginPcs, WorkPcs, ClosePcs, TidyPcs, Answers
  <2> QED
    BY <1>2, <2>1, TypingNow, TypingNext DEF LoginRepeated, dsm, files, clock, helper
<1>3. CASE LoginEnters(p)
  <2>1. ProcsTyped
    BY <1>3, GotoType, AnswerType DEF LoginEnters, LoginOps, Pcs, AccountPcs, RequestPcs, LoginPcs, WorkPcs, ClosePcs, TidyPcs, Answers
  <2> QED
    BY <1>3, <2>1, TypingNow, TypingNext DEF LoginEnters, dsm, files, clock, helper
<1>4. CASE ReadOriginal(p)
  <2>1. account[proc[p].user].hash \in Hashes
    BY <1>4, TypingNow DEF ReadOriginal, Row
  <2>2. proc[p].req \in Requests
    BY <1>4 DEF ReadOriginal, Pcs, AccountPcs, RequestPcs, LoginPcs, WorkPcs, ClosePcs, TidyPcs, Answers
  <2>3. [proc[p] EXCEPT !.pc = "index", !.original = account[proc[p].user].hash] \in NamedTask
    BY <1>4, <2>1, <2>2, TaskMoves DEF ReadOriginal, Pcs, AccountPcs, RequestPcs, LoginPcs, WorkPcs, ClosePcs, TidyPcs, Answers
  <2>4. ProcsTyped
    BY <1>4, <2>3, TypingNow, AnswerType DEF ReadOriginal, ProcsTyped, Answers
  <2> QED
    BY <1>4, <2>1, <2>2, <2>3, <2>4, TypingNow, TypingNext DEF ReadOriginal, dsm, files, clock, helper
<1>5. CASE AddToIndex(p)
  <2>1. ProcsTyped
    BY <1>5, GotoType, AnswerType DEF AddToIndex, Pcs, AccountPcs, RequestPcs, LoginPcs, WorkPcs, ClosePcs, TidyPcs, Answers
  <2>2. faults' \in 0..MaxFaults
    BY <1>5, TypingNow, DiskType DEF AddToIndex
  <2>3. index' \in [Users -> SUBSET Requests]
    BY <1>5, TypingNow DEF AddToIndex, Pcs, AccountPcs, RequestPcs, LoginPcs, WorkPcs, ClosePcs, TidyPcs, Answers
  <2> QED
    BY <1>5, <2>1, <2>2, <2>3, TypingNow, TypingNext DEF AddToIndex, dsm, files, clock, helper
<1>6. CASE WriteJournal(p)
  <2>1. ProcsTyped
    BY <1>6, GotoType, AnswerType DEF WriteJournal, Pcs, AccountPcs, RequestPcs, LoginPcs, WorkPcs, ClosePcs, TidyPcs, Answers
  <2>2. faults' \in 0..MaxFaults
    BY <1>6, TypingNow, DiskType DEF WriteJournal
  <2>3. journal' \in [Requests -> Journal]
    BY <1>6, TypingNow, MaterialType DEF WriteJournal, Pcs, AccountPcs, RequestPcs, LoginPcs, WorkPcs, ClosePcs, TidyPcs, Answers
  <2> QED
    BY <1>6, <2>1, <2>2, <2>3, TypingNow, TypingNext DEF WriteJournal, dsm, files, clock, helper
<1>7. CASE SwapIn(p)
  <2>1. ProcsTyped
    BY <1>7, GotoType, AnswerType DEF SwapIn, Pcs, AccountPcs, RequestPcs, LoginPcs, WorkPcs, ClosePcs, TidyPcs, Answers
  <2>2. faults' \in 0..MaxFaults
    BY <1>7, TypingNow, DiskType DEF SwapIn
  <2>3. proc[p].req \in Hashes
    BY <1>7 DEF SwapIn, Hashes, Pcs, AccountPcs, RequestPcs, LoginPcs, WorkPcs, ClosePcs, TidyPcs, Answers
  <2>4. [account[proc[p].user] EXCEPT !.hash = proc[p].req] \in Row
    BY <1>7, <2>3, TypingNow, RowMoves DEF SwapIn
  <2>5. account' \in [Users -> Row]
    BY <1>7, <2>4, TypingNow DEF SwapIn
  <2> QED
    BY <1>7, <2>1, <2>2, <2>3, <2>4, <2>5, TypingNow, TypingNext DEF SwapIn, dsm, files, clock, helper
<1>8. CASE Activate(p)
  <2>1. \A b \in BOOLEAN : [proc[p] EXCEPT !.pc = "undo", !.ok = b] \in NamedTask
    BY <1>8, TaskMoves DEF Activate, Pcs, AccountPcs, RequestPcs, LoginPcs, WorkPcs, ClosePcs, TidyPcs, Answers
  <2>2. ASSUME proc' = [proc EXCEPT ![p] = [@ EXCEPT !.pc = "undo", !.ok = TRUE]], UNCHANGED reply PROVE ProcsTyped
    BY <1>8, <2>1, <2>2, TypingNow DEF ProcsTyped, Answers
  <2>3. ProcsTyped
    BY <1>8, <2>2, GotoType, AnswerType DEF Activate, Pcs, AccountPcs, RequestPcs, LoginPcs, WorkPcs, ClosePcs, TidyPcs, Answers
  <2>4. faults' \in 0..MaxFaults
    BY <1>8, TypingNow, DiskType DEF Activate
  <2>5. [journal[proc[p].req] EXCEPT !.status = "active_browser"] \in Journal
    BY <1>8, TypingNow, JournalMoves DEF Activate, Live, Pcs, AccountPcs, RequestPcs, LoginPcs, WorkPcs, ClosePcs, TidyPcs, Answers
  <2>6. journal' \in [Requests -> Journal]
    BY <1>8, <2>5, TypingNow DEF Activate
  <2> QED
    BY <1>8, <2>1, <2>2, <2>3, <2>4, <2>5, <2>6, TypingNow, TypingNext DEF Activate, dsm, files, clock, helper
<1>9. CASE \E success \in BOOLEAN : DsmLogin(p, success)
  <2>1. \A b \in BOOLEAN : [proc[p] EXCEPT !.pc = "restore", !.ok = b] \in NamedTask
    BY <1>9, TaskMoves DEF DsmLogin, Pcs, AccountPcs, RequestPcs, LoginPcs, WorkPcs, ClosePcs, TidyPcs, Answers
  <2>2. ProcsTyped
    BY <1>9, <2>1, TypingNow, ZenonT(30) DEF DsmLogin, ProcsTyped
  <2> QED
    BY <1>9, <2>1, <2>2, TypingNow, TypingNext DEF DsmLogin, dsm, files, clock, helper
<1> QED
  BY <1>1, <1>2, <1>3, <1>4, <1>5, <1>6, <1>7, <1>8, <1>9 DEF LoginStep

\* The steps of a restore.
LEMMA RestoreTyping ==
  ASSUME Typing, NEW p \in Procs, RestoreStep(p)
  PROVE  Typing'
<1> USE NamesNow
<1>1. CASE RestoreEnters(p)
  <2>1. ProcsTyped
    BY <1>1, GotoType, AnswerType DEF RestoreEnters, Pcs, AccountPcs, RequestPcs, LoginPcs, WorkPcs, ClosePcs, TidyPcs, Answers
  <2> QED
    BY <1>1, <2>1, TypingNow, TypingNext DEF RestoreEnters, dsm, files, clock, helper
<1>2. CASE MarkRestoring(p)
  <2>1. proc[p].req \in Requests
    BY <1>2 DEF MarkRestoring, Pcs, AccountPcs, RequestPcs, LoginPcs, WorkPcs, ClosePcs, TidyPcs, Answers
  <2>2. ProcsTyped
    BY <1>2, <2>1, GotoType, RestoreFailsType, AnswerType DEF MarkRestoring, Pcs, AccountPcs, RequestPcs, LoginPcs, WorkPcs, ClosePcs, TidyPcs, Answers
  <2>3. faults' \in 0..MaxFaults
    BY <1>2, TypingNow, DiskType DEF MarkRestoring
  <2>4. index' \in [Users -> SUBSET Requests]
    BY <1>2, <2>1, TypingNow DEF MarkRestoring, files
  <2>5. [journal[proc[p].req] EXCEPT !.status = "restoring_browser"] \in Journal
    BY <1>2, <2>1, TypingNow, JournalMoves DEF MarkRestoring, Live, Terminal
  <2>6. journal' \in [Requests -> Journal]
    BY <1>2, <2>5, TypingNow DEF MarkRestoring, files
  <2> QED
    BY <1>2, <2>1, <2>2, <2>3, <2>4, <2>5, <2>6, TypingNow, TypingNext DEF MarkRestoring, dsm, files, clock, helper
<1>3. CASE RestoreRefused(p)
  <2>1. proc[p].req \in Requests
    BY <1>3 DEF RestoreRefused, MayRestore, Pcs, AccountPcs, RequestPcs, LoginPcs, WorkPcs, ClosePcs, TidyPcs, Answers
  <2>2. ProcsTyped
    BY <1>3, <2>1, GotoType, RestoreFailsType, AnswerType DEF RestoreRefused, MayRestore, Pcs, AccountPcs, RequestPcs, LoginPcs, WorkPcs, ClosePcs, TidyPcs, Answers
  <2> QED
    BY <1>3, <2>1, <2>2, TypingNow, TypingNext DEF RestoreRefused, dsm, files, clock, helper
<1>4. CASE RestoreKeeps(p)
  <2>1. proc[p].req \in Requests
    BY <1>4 DEF RestoreKeeps, MayRestore, Pcs, AccountPcs, RequestPcs, LoginPcs, WorkPcs, ClosePcs, TidyPcs, Answers
  <2>2. \A v \in Terminal : [proc[p] EXCEPT !.pc = "finish", !.verdict = v] \in NamedTask
    BY <1>4, <2>1, FinishTask DEF RestoreKeeps, MayRestore
  <2>3. ProcsTyped
    BY <1>4, <2>2, TypingNow DEF RestoreKeeps, Terminal, ProcsTyped, Answers
  <2> QED
    BY <1>4, <2>1, <2>2, <2>3, TypingNow, TypingNext DEF RestoreKeeps, dsm, files, clock, helper
<1>5. CASE RestoreSwaps(p)
  <2>1. proc[p].req \in Requests
    BY <1>5 DEF RestoreSwaps, MayRestore, Pcs, AccountPcs, RequestPcs, LoginPcs, WorkPcs, ClosePcs, TidyPcs, Answers
  <2>2. \A v \in Terminal : [proc[p] EXCEPT !.pc = "finish", !.verdict = v] \in NamedTask
    BY <1>5, <2>1, FinishTask DEF RestoreSwaps, MayRestore
  <2>3. ASSUME proc' = [proc EXCEPT ![p] = [@ EXCEPT !.pc = "finish", !.verdict = "restored"]], UNCHANGED reply PROVE ProcsTyped
    BY <1>5, <2>2, <2>3, TypingNow DEF ProcsTyped, Answers, Terminal
  <2>4. ProcsTyped
    BY <1>5, <2>1, <2>3, RestoreFailsType DEF RestoreSwaps, MayRestore
  <2>5. faults' \in 0..MaxFaults
    BY <1>5, TypingNow, DiskType DEF RestoreSwaps
  <2>6. journal[proc[p].req].original \in Hashes
    BY <1>5, <2>1, TypingNow DEF Journal
  <2>7. \A a \in Row : RestoredRow(a, proc[p].req) \in Row
    BY <1>5, <2>6, RowMoves DEF RestoredRow
  <2>8. \A u \in Users : RestoredRow(account[u], proc[p].req) \in Row
    BY <1>5, <2>7, TypingNow
  <2>9. account' = account \/ account' = [account EXCEPT ![journal[proc[p].req].user] = RestoredRow(@, proc[p].req)]
    BY <1>5 DEF RestoreSwaps
  <2>10. account' \in [Users -> Row]
    BY <1>5, <2>8, <2>9, TypingNow
  <2> QED
    BY <1>5, <2>1, <2>2, <2>3, <2>4, <2>5, <2>6, <2>7, <2>8, <2>9, <2>10, TypingNow, TypingNext DEF RestoreSwaps, dsm, files, clock, helper
<1>6. CASE FinishJournal(p)
  <2>1. proc[p].req \in Requests
    BY <1>6 DEF FinishJournal, Pcs, AccountPcs, RequestPcs, LoginPcs, WorkPcs, ClosePcs, TidyPcs, Answers
  <2>2. ProcsTyped
    BY <1>6, <2>1, GotoType, RestoreFailsType, AnswerType DEF FinishJournal, Pcs, AccountPcs, RequestPcs, LoginPcs, WorkPcs, ClosePcs, TidyPcs, Answers
  <2>3. faults' \in 0..MaxFaults
    BY <1>6, TypingNow, DiskType DEF FinishJournal
  <2>4. backoff' \in SUBSET Requests
    BY <1>6, TypingNow DEF FinishJournal
  <2>5. [journal[proc[p].req] EXCEPT !.status = proc[p].verdict] \in Journal
    BY <1>6, <2>1, TypingNow, JournalMoves DEF FinishJournal, Live, Terminal
  <2>6. journal' \in [Requests -> Journal]
    BY <1>6, <2>5, TypingNow DEF FinishJournal, files
  <2> QED
    BY <1>6, <2>1, <2>2, <2>3, <2>4, <2>5, <2>6, TypingNow, TypingNext DEF FinishJournal, dsm, files, clock, helper
<1>7. CASE Archive(p)
  <2>1. proc[p].req \in Requests
    BY <1>7 DEF Archive, Pcs, AccountPcs, RequestPcs, LoginPcs, WorkPcs, ClosePcs, TidyPcs, Answers
  <2>2. ProcsTyped
    BY <1>7, <2>1, GotoType, RestoreFailsType, AnswerType DEF Archive, Pcs, AccountPcs, RequestPcs, LoginPcs, WorkPcs, ClosePcs, TidyPcs, Answers
  <2>3. faults' \in 0..MaxFaults
    BY <1>7, TypingNow, DiskType DEF Archive
  <2>4. [journal[proc[p].req] EXCEPT !.place = "completed"] \in Journal
    BY <1>7, <2>1, TypingNow, JournalMoves DEF Archive, Live, Terminal
  <2>5. journal' \in [Requests -> Journal]
    BY <1>7, <2>4, TypingNow DEF Archive, files
  <2> QED
    BY <1>7, <2>1, <2>2, <2>3, <2>4, <2>5, TypingNow, TypingNext DEF Archive, dsm, files, clock, helper
<1>8. CASE RemoveFromIndex(p)
  <2>1. proc[p].req \in Requests
    BY <1>8 DEF RemoveFromIndex, Pcs, AccountPcs, RequestPcs, LoginPcs, WorkPcs, ClosePcs, TidyPcs, Answers
  <2>2. ProcsTyped
    BY <1>8, <2>1, RestoreEndsType, RestoreFailsType DEF RemoveFromIndex
  <2>3. faults' \in 0..MaxFaults
    BY <1>8, TypingNow, DiskType DEF RemoveFromIndex
  <2>4. \A u \in Users : index[u] \ {proc[p].req} \in SUBSET Requests
    BY <1>8, TypingNow
  <2>5. index' = index \/ index' = [index EXCEPT ![journal[proc[p].req].user] = @ \ {proc[p].req}]
    BY <1>8 DEF RemoveFromIndex
  <2>6. index' \in [Users -> SUBSET Requests]
    BY <1>8, <2>4, <2>5, TypingNow
  <2> QED
    BY <1>8, <2>1, <2>2, <2>3, <2>4, <2>5, <2>6, TypingNow, TypingNext DEF RemoveFromIndex, dsm, files, clock, helper
<1>9. CASE RecordFailure(p)
  <2>1. proc[p].req \in Requests
    BY <1>9 DEF RecordFailure, Pcs, AccountPcs, RequestPcs, LoginPcs, WorkPcs, ClosePcs, TidyPcs, Answers
  <2>2. ProcsTyped
    BY <1>9, <2>1, GotoType, RestoreFailsType, AnswerType DEF RecordFailure, Pcs, AccountPcs, RequestPcs, LoginPcs, WorkPcs, ClosePcs, TidyPcs, Answers
  <2>3. faults' \in 0..MaxFaults
    BY <1>9, TypingNow, DiskType DEF RecordFailure
  <2>4. backoff' \in SUBSET Requests
    BY <1>9, <2>1, TypingNow DEF RecordFailure
  <2>5. [journal[proc[p].req] EXCEPT !.failed = TRUE] \in Journal
    BY <1>9, <2>1, TypingNow, JournalMoves DEF RecordFailure, Live, Terminal
  <2>6. journal' \in [Requests -> Journal]
    BY <1>9, <2>5, TypingNow DEF RecordFailure, files
  <2> QED
    BY <1>9, <2>1, <2>2, <2>3, <2>4, <2>5, <2>6, TypingNow, TypingNext DEF RecordFailure, dsm, files, clock, helper
<1> QED
  BY <1>1, <1>2, <1>3, <1>4, <1>5, <1>6, <1>7, <1>8, <1>9 DEF RestoreStep

\* The account operations.
LEMMA AccountTyping ==
  ASSUME Typing, NEW p \in Procs, AccountStep(p)
  PROVE  Typing'
<1> USE NamesNow
<1>1. CASE MutationEnters(p)
  <2>1. \A r \in Requests : [proc[p] EXCEPT !.pc = "mark", !.req = r] \in NamedTask
    BY <1>1, TakeTask DEF MutationEnters, Pcs, AccountPcs, RequestPcs, LoginPcs, WorkPcs, ClosePcs, TidyPcs, Answers
  <2>2. ASSUME NEW r \in Leases(proc[p].user), proc' = [proc EXCEPT ![p] = [@ EXCEPT !.pc = "mark", !.req = r]], UNCHANGED reply PROVE ProcsTyped
    BY <1>1, <2>1, <2>2, TypingNow DEF ProcsTyped, Answers, Leases, MutationEnters
  <2>3. ProcsTyped
    BY <1>1, <2>2, GotoType, AnswerType DEF MutationEnters, Pcs, AccountPcs, RequestPcs, LoginPcs, WorkPcs, ClosePcs, TidyPcs, Answers
  <2> QED
    BY <1>1, <2>1, <2>2, <2>3, TypingNow, TypingNext DEF MutationEnters, dsm, files, clock, helper
<1>2. CASE Native(p)
  <2>1. proc[p].user \in Users
    BY <1>2 DEF Native
  <2>2. ProcsTyped
    BY <1>2, GotoType, AnswerType DEF Native, Pcs, AccountPcs, RequestPcs, LoginPcs, WorkPcs, ClosePcs, TidyPcs, Answers
  <2>3. [account[proc[p].user] EXCEPT !.disabled = (proc[p].op = "disable")] \in Row
    BY <1>2, <2>1, TypingNow, RowMoves
  <2>4. account' \in [Users -> Row]
    BY <1>2, <2>1, <2>3, TypingNow, NewRowType DEF Native
  <2>5. secret' \in [Users -> Passwords \cup {NoPassword}]
    BY <1>2, TypingNow DEF Native
  <2>6. policy' \in [Users -> Nat]
    BY SMTT(20), <1>2, <2>1, <2>4, TypingNow DEF Native, Row
  <2>7. faults' \in 0..MaxFaults
    BY <1>2, TypingNow, DiskType DEF Native
  <2> QED
    BY <1>2, <2>1, <2>2, <2>3, <2>4, <2>5, <2>6, <2>7, TypingNow, TypingNext DEF Native, dsm, files, clock, helper
<1>3. CASE ResetMark(p)
  <2>1. proc[p].user \in Users
    BY <1>3 DEF ResetMark
  <2>2. ProcsTyped
    BY <1>3, GotoType, AnswerType DEF ResetMark, Pcs, AccountPcs, RequestPcs, LoginPcs, WorkPcs, ClosePcs, TidyPcs, Answers
  <2>3. faults' \in 0..MaxFaults
    BY <1>3, TypingNow, DiskType DEF ResetMark
  <2>4. marker' \in SUBSET Users
    BY <1>3, <2>1, TypingNow DEF ResetMark
  <2> QED
    BY <1>3, <2>1, <2>2, <2>3, <2>4, TypingNow, TypingNext DEF ResetMark, dsm, files, clock, helper
<1>4. CASE SetPassword(p)
  <2>1. proc[p].user \in Users
    BY <1>4 DEF SetPassword
  <2>2. ProcsTyped
    BY <1>4, GotoType, AnswerType DEF SetPassword, Pcs, AccountPcs, RequestPcs, LoginPcs, WorkPcs, ClosePcs, TidyPcs, Answers
  <2>3. faults' \in 0..MaxFaults
    BY <1>4, TypingNow, DiskType DEF SetPassword
  <2>4. \A h \in Passwords : [account[proc[p].user] EXCEPT !.hash = h] \in Row
    BY <1>4, <2>1, TypingNow, RowMoves DEF Hashes
  <2>5. account' \in [Users -> Row]
    BY <1>4, <2>4, TypingNow DEF SetPassword, dsm
  <2>6. secret' \in [Users -> Passwords \cup {NoPassword}]
    BY <1>4, TypingNow DEF SetPassword, dsm
  <2> QED
    BY <1>4, <2>1, <2>2, <2>3, <2>4, <2>5, <2>6, TypingNow, TypingNext DEF SetPassword, dsm, files, clock, helper
<1>5. CASE ResetDone(p)
  <2>1. ProcsTyped
    BY <1>5, GotoType, AnswerType DEF ResetDone, Pcs, AccountPcs, RequestPcs, LoginPcs, WorkPcs, ClosePcs, TidyPcs, Answers
  <2>2. faults' \in 0..MaxFaults
    BY <1>5, TypingNow, DiskType DEF ResetDone
  <2>3. marker' \in SUBSET Users
    BY <1>5, TypingNow DEF ResetDone
  <2> QED
    BY <1>5, <2>1, <2>2, <2>3, TypingNow, TypingNext DEF ResetDone, dsm, files, clock, helper
<1>6. CASE PolicyChanges(p)
  <2>1. \A r \in Requests : [proc[p] EXCEPT !.pc = "mark", !.req = r] \in NamedTask
    BY <1>6, TakeTask DEF PolicyChanges, Pcs, AccountPcs, RequestPcs, LoginPcs, WorkPcs, ClosePcs, TidyPcs, Answers
  <2>2. ASSUME NEW r \in Leases(proc[p].user), proc' = [proc EXCEPT ![p] = [@ EXCEPT !.pc = "mark", !.req = r]], UNCHANGED reply PROVE ProcsTyped
    BY <1>6, <2>1, <2>2, TypingNow DEF ProcsTyped, Answers, Leases, PolicyChanges
  <2>3. ProcsTyped
    BY <1>6, <2>2, GotoType, AnswerType DEF PolicyChanges, Pcs, AccountPcs, RequestPcs, LoginPcs, WorkPcs, ClosePcs, TidyPcs, Answers
  <2>4. account[proc[p].user].uid \in Nat
    BY <1>6, TypingNow DEF PolicyChanges, Row
  <2>5. \A n \in Nat : [policy EXCEPT ![proc[p].user] = n] \in [Users -> Nat]
    BY <1>6, TypingNow
  <2>6. policy' = policy \/ \E n \in {0, account[proc[p].user].uid} : policy' = [policy EXCEPT ![proc[p].user] = n]
    BY <1>6 DEF PolicyChanges
  <2>7. policy' \in [Users -> Nat]
    BY <1>6, <2>4, <2>5, <2>6, TypingNow
  <2>8. faults' \in 0..MaxFaults
    BY <1>6, TypingNow, DiskType DEF PolicyChanges
  <2> QED
    BY <1>6, <2>1, <2>2, <2>3, <2>4, <2>5, <2>6, <2>7, <2>8, TypingNow, TypingNext DEF PolicyChanges, dsm, files, clock, helper
<1> QED
  BY <1>1, <1>2, <1>3, <1>4, <1>5, <1>6 DEF AccountStep

LEMMA ThreadTyping ==
  ASSUME Typing, NEW p \in Procs, ThreadStep(p)
  PROVE  Typing'
<1>1. CASE AccountBusy(p)
  <2>1. ProcsTyped
    BY <1>1, AnswerType DEF AccountBusy, Answers
  <2> QED
    BY <1>1, <2>1, TypingNow, TypingNext DEF AccountBusy, dsm, files, clock, helper
<1>2. CASE SystemBusy(p)
  <2>1. ProcsTyped
    BY <1>2, NamesNow, AnswerType, RestoreFailsType DEF SystemBusy, Answers, RequestPcs, WorkPcs
  <2>2. faults' \in 0..MaxFaults
    BY <1>2, TypingNow, BoundsAreNumbers DEF SystemBusy
  <2> QED
    BY <1>2, <2>1, <2>2, TypingNow, TypingNext DEF SystemBusy, dsm, files, clock, helper
<1> QED
  BY <1>1, <1>2, LoginTyping, RestoreTyping, AccountTyping DEF ThreadStep

LEMMA CallTyping ==
  ASSUME Typing, NEW p \in Threads, Call(p)
  PROVE  Typing'
<1> p \in Procs
  BY DEF Procs
<1>1. ASSUME NEW o \in LoginOps, NEW r \in Requests, NEW u \in Users, LoginCall(p, o, r, u)
      PROVE  Typing'
  <2>1. [Idle EXCEPT !.pc = "lock_account", !.op = o, !.req = r, !.user = u] \in NamedTask
    BY DEF Idle, NamedTask, Task, Pcs, AllOps, RequestPcs, LoginPcs, WorkPcs, ClosePcs,
           TidyPcs, Hashes
  <2>2. ProcsTyped
    BY <1>1, <2>1, TypingNow DEF LoginCall, ProcsTyped, Answers
  <2> QED
    BY <1>1, <2>2, TypingNow, TypingNext DEF LoginCall, dsm, files, clock, helper
<1>2. ASSUME NEW r \in Requests, CompleteCall(p, r)
      PROVE  Typing'
  <2>1. journal[r].user \in Users
    BY <1>2, TypingNow DEF CompleteCall, Journal
  <2>2. [Idle EXCEPT !.pc = "lock_account", !.op = "complete", !.req = r,
                     !.user = journal[r].user] \in NamedTask
    BY <2>1 DEF Idle, NamedTask, Task, Pcs, AllOps, RequestPcs, LoginPcs, WorkPcs, ClosePcs,
                TidyPcs, Hashes
  <2>3. ProcsTyped
    BY <1>2, <2>2, TypingNow DEF CompleteCall, ProcsTyped
  <2> QED
    BY <1>2, <2>3, TypingNow, TypingNext DEF CompleteCall, dsm, files, clock, helper
<1>3. ASSUME NEW o \in AllOps, NEW u \in Users, AccountCall(p, o, u)
      PROVE  Typing'
  <2>1. o \in PolicyOps \cup {"disable", "provision", "reset"}
    BY <1>3 DEF AccountCall
  <2>2. [Idle EXCEPT !.pc = "lock_account", !.op = o, !.user = u] \in NamedTask
    BY <2>1 DEF Idle, NamedTask, Task, Pcs, AllOps, LoginOps, PolicyOps, RequestPcs, LoginPcs,
                WorkPcs, ClosePcs, TidyPcs, Hashes
  <2>3. ProcsTyped
    BY <1>3, <2>2, TypingNow DEF AccountCall, ProcsTyped
  <2> QED
    BY <1>3, <2>3, TypingNow, TypingNext DEF AccountCall, dsm, files, clock, helper
<1> QED
  BY <1>1, <1>2, <1>3 DEF Call

LEMMA ScanTyping ==
  ASSUME Typing, ScanStep
  PROVE  Typing'
<1> Scanner \in Procs
  BY DEF Procs
<1>1. CASE PassBegins
  <2>1. ProcsTyped
    BY <1>1, TypingNow DEF PassBegins, ProcsTyped
  <2>2. pass' \in [on: BOOLEAN, todo: SUBSET (Users \X Requests)]
    BY <1>1 DEF PassBegins
  <2> QED
    BY <1>1, <2>1, <2>2, TypingNow, TypingNext DEF PassBegins, dsm, files, clock
<1>2. CASE PassEnds
  <2>1. ProcsTyped
    BY <1>2, TypingNow DEF PassEnds, ProcsTyped
  <2>2. pass' \in [on: BOOLEAN, todo: SUBSET (Users \X Requests)]
    BY <1>2, TypingNow DEF PassEnds
  <2>3. journal' \in [Requests -> Journal]
    BY <1>2, TypingNow, IdleType DEF PassEnds
  <2> QED
    BY <1>2, <2>1, <2>2, <2>3, TypingNow, TypingNext DEF PassEnds, dsm, clock
<1>3. CASE TidyArchive
  <2>1. ProcsTyped
    BY <1>3, AnswerType, GotoType, NamesNow DEF TidyArchive, Pcs, RequestPcs, TidyPcs, Answers
  <2>2. [journal[proc[Scanner].req] EXCEPT !.place = "completed"] \in Journal
    BY <1>3, TypingNow, NamesNow, JournalMoves DEF TidyArchive, RequestPcs, TidyPcs, Live
  <2>3. journal' \in [Requests -> Journal]
    BY <1>3, <2>2, TypingNow DEF TidyArchive
  <2>4. faults' \in 0..MaxFaults
    BY <1>3, TypingNow, DiskType DEF TidyArchive
  <2> QED
    BY <1>3, <2>1, <2>3, <2>4, TypingNow, TypingNext DEF TidyArchive, dsm, clock, helper
<1>4. CASE TidyUnindex
  <2>1. ProcsTyped
    BY <1>4, AnswerType DEF TidyUnindex, Answers
  <2>2. index' = index
        \/ index' = [index EXCEPT ![journal[proc[Scanner].req].user] = @ \ {proc[Scanner].req}]
    BY <1>4 DEF TidyUnindex
  <2>3. \A u \in Users : index[u] \ {proc[Scanner].req} \in SUBSET Requests
    BY TypingNow
  <2>4. index' \in [Users -> SUBSET Requests]
    BY <2>2, <2>3, TypingNow
  <2>5. faults' \in 0..MaxFaults
    BY <1>4, TypingNow, DiskType DEF TidyUnindex
  <2> QED
    BY <1>4, <2>1, <2>4, <2>5, TypingNow, TypingNext DEF TidyUnindex, dsm, clock, helper
<1>5. ASSUME NEW u \in Users, NEW r \in Requests, PassTakes(u, r)
      PROVE  Typing'
  <2>1. \A op \in {"tidy", "scan"}, s \in TidyPcs \cup {"lock_account"} :
          [Idle EXCEPT !.pc = s, !.op = op, !.req = r, !.user = u] \in NamedTask
    BY DEF Idle, NamedTask, Task, Pcs, AllOps, RequestPcs, LoginPcs, WorkPcs, ClosePcs,
           TidyPcs, Hashes
  <2>2. ProcsTyped
    BY <1>5, <2>1, TypingNow DEF PassTakes, ProcsTyped, TidyPcs
  <2>3. pass' \in [on: BOOLEAN, todo: SUBSET (Users \X Requests)]
    BY <1>5, TypingNow DEF PassTakes
  <2> QED
    BY <1>5, <2>2, <2>3, TypingNow, TypingNext DEF PassTakes, dsm, files, clock
<1> QED
  BY <1>1, <1>2, <1>3, <1>4, <1>5 DEF ScanStep

LEMMA EnvironmentTyping ==
  ASSUME Typing, Environment
  PROVE  Typing'
<1>1. ASSUME NEW u \in Users, AdminEdits(u)
      PROVE  Typing'
  <2>1. ProcsTyped
    BY <1>1, TypingNow DEF AdminEdits, ProcsTyped
  <2>2. edits' \in 0..MaxEdits
    BY <1>1, TypingNow, BoundsAreNumbers DEF AdminEdits
  <2>3. account' \in [Users -> Row]
    <3>1. \A new \in Row : [account EXCEPT ![u] = new] \in [Users -> Row]
      BY TypingNow
    <3>2. \A h \in Passwords \cup {NoPassword} : [account[u] EXCEPT !.hash = h] \in Row
      BY TypingNow, RowMoves DEF Hashes
    <3>3. \A h \in Passwords : NewRow(u, h) => account' \in [Users -> Row]
      BY TypingNow, NewRowType
    <3>4. /\ [account[u] EXCEPT !.locked = ~@] \in Row
          /\ [account[u] EXCEPT !.disabled = ~@] \in Row
          /\ [account[u] EXCEPT !.admin = ~@] \in Row
          /\ [account[u] EXCEPT !.exists = FALSE] \in Row
      BY TypingNow, RowMoves
    <3> QED
      BY <1>1, <3>1, <3>2, <3>3, <3>4, ZenonT(30) DEF AdminEdits
  <2>4. secret' \in [Users -> Passwords \cup {NoPassword}]
    BY <1>1, TypingNow DEF AdminEdits
  <2> QED
    BY <1>1, <2>1, <2>2, <2>3, <2>4, TypingNow, TypingNext DEF AdminEdits, files, clock, helper
<1>2. ASSUME NEW r \in Requests, TimeRunsOut(r)
      PROVE  Typing'
  BY <1>2, TypingNow, TypingNext DEF TimeRunsOut, dsm, files, helper, ProcsTyped
<1>3. ASSUME NEW r \in Requests, BackoffEnds(r)
      PROVE  Typing'
  BY <1>3, TypingNow, TypingNext DEF BackoffEnds, dsm, files, helper, ProcsTyped
<1>4. CASE Killed
  <2>1. ProcsTyped
    BY <1>4, IdleType, TypingNow DEF Killed, ProcsTyped
  <2>2. faults' \in 0..MaxFaults
    BY <1>4, TypingNow, BoundsAreNumbers DEF Killed
  <2> QED
    BY <1>4, <2>1, <2>2, TypingNow, TypingNext DEF Killed, dsm, files, clock
<1> QED
  BY <1>1, <1>2, <1>3, <1>4 DEF Environment

LEMMA InitTyping == Init => Typing
<1> SUFFICES ASSUME Init PROVE Typing
  OBVIOUS
<1>1. \A u \in Users : account[u] \in Row
  BY DEF Init, Row, Hashes
<1>2. proc \in [Procs -> NamedTask] /\ proc \in [Procs -> Task]
  BY IdleType DEF Init, NamedTask
<1>3. journal \in [Requests -> Journal]
  BY IdleType DEF Init
<1>4. account \in [Users -> Row] /\ policy \in [Users -> Nat]
      /\ secret \in [Users -> Passwords \cup {NoPassword}]
  BY <1>1 DEF Init
<1>5. index \in [Users -> SUBSET Requests] /\ pass \in [on: BOOLEAN, todo: SUBSET (Users \X Requests)]
  BY DEF Init
<1>6. reply \in [Requests -> {"none", "temp", "session", "error"}]
  BY DEF Init
<1>7. faults \in 0..MaxFaults /\ edits \in 0..MaxEdits
  BY BoundsAreNumbers DEF Init
<1>8. marker \in SUBSET Users /\ expired \in SUBSET Requests /\ backoff \in SUBSET Requests
      /\ ready \in BOOLEAN
  BY DEF Init
<1> QED
  BY <1>2, <1>3, <1>4, <1>5, <1>6, <1>7, <1>8 DEF Typing, TypeOK, OperationsNamed

LEMMA StutterTyping ==
  ASSUME Typing, UNCHANGED vars
  PROVE  Typing'
BY TypingNow, TypingNext DEF vars, ProcsTyped

LEMMA NextTyping == Typing /\ [Next]_vars => Typing'
BY CallTyping, ThreadTyping, ScanTyping, EnvironmentTyping, StutterTyping DEF Next

\* The types of the module, and that an operation under way names an account and,
\* once it works on a journal, a request, hold in every reachable state.
THEOREM TypeCorrect == Spec => []TypeOK
<1>1. Spec => []Typing
  BY InitTyping, NextTyping, PTL DEF Spec
<1> QED
  BY <1>1, PTL DEF Typing
-----------------------------------------------------------------------------
(***************************************************************************)
(* The recovery invariant is inductive.                                    *)
(***************************************************************************)
Facts(p) == OwnsWork(p) /\ HasItAlone(p) /\ ReadHolds(p)

\* Only p moves, and it takes a lock only when the lock is free.
Moves(p) ==
  /\ \A q \in Procs : q # p => proc'[q] = proc[q]
  /\ proc'[p].pc \in AccountPcs =>
       \/ proc[p].pc \in AccountPcs /\ proc'[p].user = proc[p].user
       \/ AccountFree(proc'[p].user)
  /\ proc'[p].pc \in SystemPcs => proc[p].pc \in SystemPcs \/ SystemFree

\* What a journal means to a recovery stays the same.
SameFile(r) ==
  /\ journal'[r].status \in Live <=> journal[r].status \in Live
  /\ journal'[r].status \in Terminal <=> journal[r].status \in Terminal
  /\ journal'[r].user = journal[r].user
  /\ journal'[r].original = journal[r].original
  /\ journal'[r].uid = journal[r].uid

QuietFiles ==
  /\ \A r \in Requests : SameFile(r)
  /\ \A u \in Users : \A r \in Requests : r \in index[u] => r \in index'[u] \/ IsTerminal(r)

QuietAccounts ==
  /\ \A u \in Users : /\ account'[u].exists = account[u].exists
                      /\ account'[u].uid = account[u].uid
                      /\ account'[u].hash = account[u].hash
  /\ secret' = secret
  /\ marker' \subseteq marker

-----------------------------------------------------------------------------

LEMMA Statuses ==
  /\ Live \cap Terminal = {}
  /\ "none" \notin Live \cup Terminal
BY DEF Live, Terminal

\* The steps that hold a lock hold it.
LEMMA Sections ==
  /\ WorkPcs \cup ClosePcs \cup {"record", "native", "reset_mark", "setpw", "reset_done"} \cup LoginPcs
       \subseteq AccountPcs
  /\ {"index", "journal", "swap", "finish"} \subseteq SystemPcs
  /\ SystemPcs \subseteq AccountPcs
  /\ "idle" \notin AccountPcs \cup SystemPcs
  /\ "lock_account" \notin AccountPcs
  /\ TidyPcs \cap AccountPcs = {}
BY DEF WorkPcs, ClosePcs, LoginPcs, TidyPcs, AccountPcs, SystemPcs

LEMMA ExclusionKept ==
  ASSUME Exclusion, NEW p \in Procs, Moves(p)
  PROVE  Exclusion'
<1>1. ASSUME NEW q \in Procs, q # p,
             proc'[p].pc \in AccountPcs, proc'[q].pc \in AccountPcs, proc'[p].user = proc'[q].user
      PROVE  FALSE
  BY <1>1 DEF Exclusion, Moves, AccountFree
<1>2. ASSUME NEW q \in Procs, q # p, proc'[p].pc \in SystemPcs, proc'[q].pc \in SystemPcs
      PROVE  FALSE
  BY <1>2 DEF Exclusion, Moves, SystemFree
<1>3. ASSUME NEW q \in Procs, NEW s \in Procs, q # p, s # p
      PROVE  /\ proc'[q].pc \in AccountPcs /\ proc'[s].pc \in AccountPcs
                  /\ proc'[q].user = proc'[s].user => q = s
             /\ proc'[q].pc \in SystemPcs /\ proc'[s].pc \in SystemPcs => q = s
  BY <1>3 DEF Exclusion, Moves
<1> QED
  BY <1>1, <1>2, <1>3 DEF Exclusion

LEMMA QuietDisk ==
  ASSUME Typing, Typing', DiskSound, QuietFiles, QuietAccounts
  PROVE  DiskSound'
<1> USE Statuses, TypingNow
<1>1. JournalsSound'
  <2>1. ASSUME NEW r \in Requests
        PROVE  /\ journal[r].status \in Live \cup Terminal \cup {"none"}
               /\ journal'[r].status \in Live \cup Terminal \cup {"none"}
               /\ journal[r].user \in Users \cup {None}
    BY DEF Typing, TypeOK, Journal
  <2> QED
    BY <2>1 DEF DiskSound, JournalsSound, QuietFiles, SameFile, IsLive, IsTerminal
<1>2. OneLeasePerAccount'
  BY DEF DiskSound, OneLeasePerAccount, QuietFiles, SameFile, IsLive
<1>3. LentIsRecoverable'
  BY DEF DiskSound, LentIsRecoverable, QuietFiles, QuietAccounts, SameFile, IsLive, IsTerminal
<1>4. PermanentKept'
  BY DEF DiskSound, PermanentKept, QuietAccounts
<1>5. ResetExcludesLease'
  BY DEF DiskSound, ResetExcludesLease, QuietAccounts
<1> QED
  BY <1>1, <1>2, <1>3, <1>4, <1>5 DEF DiskSound

LEMMA QuietFacts ==
  ASSUME Typing, Typing', QuietFiles, QuietAccounts, NEW q \in Procs, Facts(q), proc'[q] = proc[q]
  PROVE  Facts(q)'
<1>1. ASSUME NEW r \in Requests
      PROVE  /\ journal[r].status \in Live \cup Terminal \cup {"none"}
             /\ journal'[r].status \in Live \cup Terminal \cup {"none"}
  BY DEF Typing, TypeOK, Journal
<1>2. /\ proc[q].pc # "idle" => proc[q].user \in Users
      /\ proc[q].pc \in RequestPcs => proc[q].req \in Requests
      /\ proc[q].pc = "lock_account" /\ proc[q].op \in LoginOps \cup {"complete", "scan"}
           => proc[q].req \in Requests
  BY NamesNow
<1>3. OwnsWork(q)'
  BY <1>1, <1>2, Statuses DEF Facts, OwnsWork, QuietFiles, QuietAccounts, SameFile, RequestPcs, WorkPcs
<1>4. HasItAlone(q)'
  BY DEF Facts, HasItAlone, QuietFiles, SameFile, IsLive
<1>5. ReadHolds(q)'
  BY <1>1, <1>2, Statuses
     DEF Facts, ReadHolds, QuietFiles, QuietAccounts, SameFile, RequestPcs, LoginPcs, WorkPcs, IsTerminal
<1> QED
  BY <1>3, <1>4, <1>5 DEF Facts

\* What is left to show of a step: what its own task now relies on, and, unless it
\* is quiet, what the others and the disk rely on.
LEMMA Assembled ==
  ASSUME RecoveryInvariant, Typing', NEW p \in Procs, Moves(p),
         Facts(p)', \A q \in Procs : q # p => Facts(q)', DiskSound'
  PROVE  RecoveryInvariant'
<1>1. Exclusion'
  BY ExclusionKept DEF RecoveryInvariant
<1>2. StepsSound'
  BY DEF StepsSound, Facts
<1> QED
  BY <1>1, <1>2 DEF RecoveryInvariant, Typing

LEMMA QuietStep ==
  ASSUME RecoveryInvariant, Typing', NEW p \in Procs, Moves(p), QuietFiles, QuietAccounts,
         Facts(p)'
  PROVE  RecoveryInvariant'
<1>1. Typing /\ DiskSound /\ \A q \in Procs : Facts(q)
  BY DEF RecoveryInvariant, Typing, StepsSound, Facts
<1>2. \A q \in Procs : q # p => Facts(q)'
  BY <1>1, QuietFacts DEF Moves
<1> QED
  BY <1>1, <1>2, QuietDisk, Assembled

\* Answering needs nothing, and going on within the sections keeps the locks.
LEMMA Answered ==
  ASSUME Typing, NEW p \in Procs, NEW a, Answer(p, a)
  PROVE  Moves(p) /\ Facts(p)'
<1>1. proc'[p] = Idle /\ \A q \in Procs : q # p => proc'[q] = proc[q]
  BY TypingNow DEF Answer
<1>2. proc'[p].pc = "idle"
  BY <1>1 DEF Idle
<1> QED
  BY <1>1, <1>2 DEF Moves, Facts, OwnsWork, HasItAlone, ReadHolds, AccountPcs, SystemPcs,
                    WorkPcs, ClosePcs, TidyPcs, LoginPcs

LEMMA Went ==
  ASSUME Typing, NEW p \in Procs, proc[p].pc # "idle", NEW s, Goto(p, s)
  PROVE  /\ proc'[p] = [proc[p] EXCEPT !.pc = s]
         /\ proc'[p].pc = s /\ proc'[p].op = proc[p].op /\ proc'[p].user = proc[p].user
         /\ proc'[p].req = proc[p].req /\ proc'[p].original = proc[p].original
         /\ proc'[p].verdict = proc[p].verdict
         /\ \A q \in Procs : q # p => proc'[q] = proc[q]
         /\ (s \in AccountPcs => proc[p].pc \in AccountPcs \/ AccountFree(proc[p].user))
            /\ (s \in SystemPcs => proc[p].pc \in SystemPcs \/ SystemFree) => Moves(p)
<1>1. proc[p] \in Task
  BY TypingNow DEF NamedTask
<1>2. proc'[p] = [proc[p] EXCEPT !.pc = s] /\ \A q \in Procs : q # p => proc'[q] = proc[q]
  BY TypingNow DEF Goto
<1>3. /\ proc'[p].pc = s /\ proc'[p].op = proc[p].op /\ proc'[p].user = proc[p].user
      /\ proc'[p].req = proc[p].req /\ proc'[p].original = proc[p].original
      /\ proc'[p].verdict = proc[p].verdict
  BY <1>1, <1>2 DEF Task
<1> QED
  BY <1>2, <1>3 DEF Moves

\* What the invariant says at the start of a step.
LEMMA InvNow ==
  ASSUME RecoveryInvariant
  PROVE  Typing /\ DiskSound /\ Exclusion /\ \A q \in Procs : Facts(q)
BY DEF RecoveryInvariant, Typing, StepsSound, Facts

LEMMA Unmoved ==
  ASSUME UNCHANGED <<account, secret, marker, journal, index>>
  PROVE  QuietFiles /\ QuietAccounts
BY DEF QuietFiles, QuietAccounts, SameFile

LEMMA AnsweredStep ==
  ASSUME RecoveryInvariant, Typing', NEW p \in Procs, NEW a, Answer(p, a),
         QuietFiles, QuietAccounts
  PROVE  RecoveryInvariant'
BY InvNow, Answered, QuietStep

\* Steps at which a task relies on nothing but its lock.
Plain == {"record", "native", "setpw", "reset_done"}

LEMMA WentPlain ==
  ASSUME Typing, NEW p \in Procs, proc[p].pc \in AccountPcs, NEW s \in Plain, Goto(p, s)
  PROVE  Moves(p) /\ Facts(p)'
<1>1. proc[p].pc # "idle" /\ s \notin SystemPcs
  BY DEF AccountPcs, SystemPcs, Plain
<1>2. proc'[p].pc = s /\ Moves(p)
  BY <1>1, Went
<1> QED
  BY <1>2 DEF Facts, OwnsWork, HasItAlone, ReadHolds, WorkPcs, ClosePcs, TidyPcs, LoginPcs, Plain

LEMMA FailedRestore ==
  ASSUME Typing, NEW p \in Procs, proc[p].pc \in AccountPcs, RestoreFails(p)
  PROVE  Moves(p) /\ Facts(p)'
<1>1. CASE Goto(p, "record")
  BY <1>1, WentPlain DEF Plain
<1>2. CASE Answer(p, "error")
  BY <1>2, Answered
<1> QED
  BY <1>1, <1>2 DEF RestoreFails

LEMMA EndedRestore ==
  ASSUME Typing, NEW p \in Procs, proc[p].pc \in AccountPcs, RestoreEnds(p)
  PROVE  Moves(p) /\ Facts(p)'
<1>1. CASE Goto(p, "native")
  BY <1>1, WentPlain DEF Plain
<1>2. CASE Answer(p, "session") \/ Answer(p, "error")
  BY <1>2, Answered
<1> QED
  BY <1>1, <1>2 DEF RestoreEnds

\* An account that no lease is found for has no live journal.
LEMMA NoLeaseFound ==
  ASSUME Typing, JournalsSound, NEW u \in Users, ~Unresolved(u), Leases(u) = {},
         NEW r \in Requests, IsLive(r)
  PROVE  journal[r].user # u
BY DEF JournalsSound, Leases

\* A lease that is found is the account's own.
LEMMA LeaseFound ==
  ASSUME Typing, NEW u \in Users, ~Unresolved(u), NEW r \in Leases(u)
  PROVE  r \in Requests /\ IsLive(r) /\ journal[r].user = u
BY TypingNow DEF Leases, Unresolved

-----------------------------------------------------------------------------
(* A login that prepares *)

LEMMA EntersRecovers ==
  ASSUME RecoveryInvariant, Typing', NEW p \in Procs, LoginEnters(p)
  PROVE  RecoveryInvariant'
<1>1. /\ proc[p].user \in Users /\ proc[p].pc = "lock_account"
      /\ Typing /\ JournalsSound /\ AccountFree(proc[p].user)
  BY InvNow, NamesNow DEF LoginEnters, DiskSound
<1>2. /\ Moves(p) /\ proc'[p].pc = "lock_system" /\ proc'[p].user = proc[p].user
  BY <1>1, Went DEF LoginEnters, SystemPcs
<1>3. QuietFiles /\ QuietAccounts
  BY Unmoved DEF LoginEnters, dsm, files
<1>4. HasItAlone(p)'
  BY <1>1, <1>2, NoLeaseFound DEF LoginEnters, HasItAlone, IsLive, files
<1>5. Facts(p)'
  BY <1>2, <1>4 DEF Facts, OwnsWork, ReadHolds, WorkPcs, ClosePcs, TidyPcs
<1> QED
  BY <1>2, <1>3, <1>5, QuietStep

LEMMA ReadRecovers ==
  ASSUME RecoveryInvariant, Typing', NEW p \in Procs, ReadOriginal(p)
  PROVE  RecoveryInvariant'
<1> DEFINE u == proc[p].user
<1>1. /\ u \in Users /\ proc[p].pc = "lock_system" /\ SystemFree /\ proc[p].req \in Requests
      /\ Typing /\ DiskSound /\ HasItAlone(p) /\ proc[p] \in Task
  BY InvNow, NamesNow DEF ReadOriginal, Facts, RequestPcs, LoginPcs, NamedTask
<1>2. QuietFiles /\ QuietAccounts
  BY Unmoved DEF ReadOriginal, dsm, files
<1>3. CASE Answer(p, "error")
  BY <1>2, <1>3, AnsweredStep
<1>4. CASE /\ MayPrepare(p)
           /\ proc' = [proc EXCEPT ![p] = [@ EXCEPT !.pc = "index", !.original = account[u].hash]]
  <2>1. /\ proc'[p].pc = "index" /\ proc'[p].user = u /\ proc'[p].req = proc[p].req
        /\ proc'[p].original = account[u].hash
        /\ \A q \in Procs : q # p => proc'[q] = proc[q]
    BY <1>1, <1>4, TypingNow DEF Task
  <2>2. Moves(p)
    BY <1>1, <2>1, Sections DEF Moves, LoginPcs
  <2>3. account[u].exists /\ account[u].hash # NoPassword /\ u \notin marker
        /\ journal[proc[p].req].status = "none"
    BY <1>4 DEF MayPrepare
  <2>4. account[u].hash \notin Requests
    BY <1>1, <2>3 DEF DiskSound, LentIsRecoverable, HasItAlone, LoginPcs
  <2>5. account[u].hash \in Passwords /\ account[u].hash = secret[u]
    BY <1>1, <2>3, <2>4, TypingNow DEF DiskSound, PermanentKept, Row, Hashes
  <2>6. HasItAlone(p)'
    BY <1>1, <2>1 DEF HasItAlone, LoginPcs, ReadOriginal, files, IsLive
  <2>7. ReadHolds(p)'
    BY <2>1, <2>3, <2>5 DEF ReadHolds, ReadOriginal, files, dsm
  <2>8. OwnsWork(p)'
    BY <2>1 DEF OwnsWork, WorkPcs, ClosePcs, TidyPcs
  <2> QED
    BY <1>2, <2>2, <2>6, <2>7, <2>8, QuietStep DEF Facts
<1> QED
  BY <1>3, <1>4 DEF ReadOriginal

LEMMA IndexRecovers ==
  ASSUME RecoveryInvariant, Typing', NEW p \in Procs, AddToIndex(p)
  PROVE  RecoveryInvariant'
<1> DEFINE u == proc[p].user
           r == proc[p].req
<1>1. /\ u \in Users /\ proc[p].pc = "index" /\ r \in Requests
      /\ Typing /\ HasItAlone(p) /\ ReadHolds(p)
  BY InvNow, NamesNow DEF AddToIndex, Facts, RequestPcs, LoginPcs
<1>2. index' = index \/ index' = [index EXCEPT ![u] = @ \cup {r}]
  BY DEF AddToIndex
<1>3. QuietFiles /\ QuietAccounts
  BY <1>1, <1>2, TypingNow DEF AddToIndex, dsm, QuietFiles, QuietAccounts, SameFile
<1>4. CASE Answer(p, "error")
  BY <1>3, <1>4, AnsweredStep
<1>5. CASE Goto(p, "journal") /\ index' = [index EXCEPT ![u] = @ \cup {r}]
  <2>1. /\ Moves(p) /\ proc'[p].pc = "journal" /\ proc'[p].user = u /\ proc'[p].req = r
        /\ proc'[p].original = proc[p].original
    BY <1>1, <1>5, Went, Sections
  <2>2. r \in index'[u]
    BY <1>1, <1>5, TypingNow
  <2>3. HasItAlone(p)'
    BY <1>1, <2>1 DEF HasItAlone, LoginPcs, AddToIndex, IsLive
  <2>4. ReadHolds(p)'
    BY <1>1, <2>1, <2>2 DEF ReadHolds, AddToIndex, dsm
  <2>5. OwnsWork(p)'
    BY <2>1 DEF OwnsWork, WorkPcs, ClosePcs, TidyPcs
  <2> QED
    BY <1>3, <2>1, <2>3, <2>4, <2>5, QuietStep DEF Facts
<1> QED
  BY <1>4, <1>5 DEF AddToIndex, Lands

\* Other tasks when p starts a journal for an account it has to itself.
LEMMA JournalRecovers ==
  ASSUME RecoveryInvariant, Typing', NEW p \in Procs, WriteJournal(p)
  PROVE  RecoveryInvariant'
<1> DEFINE u == proc[p].user
           r == proc[p].req
<1>1. /\ u \in Users /\ proc[p].pc = "journal" /\ r \in Requests
      /\ Typing /\ DiskSound /\ Exclusion /\ HasItAlone(p) /\ ReadHolds(p)
      /\ \A q \in Procs : Facts(q)
  BY InvNow, NamesNow DEF WriteJournal, Facts, RequestPcs, LoginPcs
<1>2. UNCHANGED <<account, secret, marker, index>>
  BY DEF WriteJournal, dsm
<1>3. CASE journal' = journal /\ Answer(p, "error")
  BY <1>2, <1>3, Unmoved, AnsweredStep
<1>4. CASE /\ journal' = [journal EXCEPT ![r] = Material(p)]
           /\ Goto(p, "swap") \/ Answer(p, "error")
  <2>1. /\ journal'[r].status \in Live /\ journal'[r].user = u
        /\ journal'[r].original = proc[p].original /\ journal'[r].uid = account[u].uid
        /\ \A x \in Requests : x # r => journal'[x] = journal[x]
    BY <1>1, <1>4, TypingNow DEF Material, Live
  <2>2. /\ journal[r].status = "none" /\ r \in index[u] /\ u \notin marker
        /\ account[u].exists /\ account[u].hash = proc[p].original
        /\ secret[u] = proc[p].original /\ proc[p].original \in Passwords
    BY <1>1 DEF ReadHolds
  <2>3. \A x \in Requests : IsLive(x) => journal[x].user # u
    BY <1>1 DEF HasItAlone, LoginPcs
  <2>4. DiskSound'
    <3>1. JournalsSound'
      BY <1>1, <1>2, <2>1, <2>2, ConstantsApart, Statuses DEF DiskSound, JournalsSound, IsLive
    <3>2. OneLeasePerAccount'
      BY <1>1, <2>1, <2>3 DEF DiskSound, OneLeasePerAccount, IsLive
    <3>3. LentIsRecoverable'
      BY <1>1, <1>2, <2>1, <2>2, Statuses DEF DiskSound, LentIsRecoverable, IsLive
    <3>4. PermanentKept' /\ ResetExcludesLease'
      BY <1>1, <1>2 DEF DiskSound, PermanentKept, ResetExcludesLease
    <3> QED
      BY <3>1, <3>2, <3>3, <3>4 DEF DiskSound
  <2>5. ASSUME NEW q \in Procs, q # p, proc'[q] = proc[q]
        PROVE  Facts(q)'
    <3>1. proc[q].pc \notin SystemPcs
      BY <1>1, <2>5, Sections DEF Exclusion
    <3>2. proc[q].pc \in AccountPcs => proc[q].user # u
      BY <1>1, <2>5, Sections DEF Exclusion, LoginPcs
    <3>3. /\ proc[q].pc \in RequestPcs => proc[q].req \in Requests
          /\ proc[q].pc = "lock_account" /\ proc[q].op \in LoginOps \cup {"complete", "scan"}
               => proc[q].req \in Requests
      BY <1>1, NamesNow
    <3>4. OwnsWork(q)'
      BY <1>1, <1>2, <2>1, <2>2, <2>5, <3>3, Statuses DEF Facts, OwnsWork, RequestPcs
    <3>5. HasItAlone(q)'
      BY <1>1, <2>1, <2>5, <3>2, Sections DEF Facts, HasItAlone, IsLive
    <3>6. ReadHolds(q)'
      BY <2>5, <3>1, Sections DEF ReadHolds
    <3> QED
      BY <3>4, <3>5, <3>6 DEF Facts
  <2>6. CASE Answer(p, "error")
    BY <1>1, <2>4, <2>5, <2>6, Answered, Assembled DEF Moves
  <2>7. CASE Goto(p, "swap")
    <3>1. /\ Moves(p) /\ proc'[p].pc = "swap" /\ proc'[p].user = u /\ proc'[p].req = r
          /\ proc'[p].original = proc[p].original
      BY <1>1, <2>7, Went, Sections
    <3>2. Facts(p)'
      BY <1>2, <2>1, <2>2, <3>1
         DEF Facts, OwnsWork, HasItAlone, ReadHolds, WorkPcs, ClosePcs, TidyPcs, LoginPcs
    <3> QED
      BY <1>1, <2>4, <2>5, <3>1, <3>2, Assembled DEF Moves
  <2> QED
    BY <1>4, <2>6, <2>7
<1> QED
  BY <1>3, <1>4 DEF WriteJournal, Lands

\* Other tasks when a row changes and none of them holds the system lock.
LEMMA OthersUndisturbed ==
  ASSUME Typing, Typing', UNCHANGED <<journal, index>>, NEW q \in Procs, Facts(q),
         proc'[q] = proc[q], proc[q].pc \notin SystemPcs
  PROVE  Facts(q)'
<1>1. OwnsWork(q)'
  BY Sections DEF Facts, OwnsWork
<1>2. HasItAlone(q)'
  BY DEF Facts, HasItAlone, IsLive
<1>3. ReadHolds(q)'
  BY Sections DEF ReadHolds
<1> QED
  BY <1>1, <1>2, <1>3 DEF Facts

LEMMA SwapRecovers ==
  ASSUME RecoveryInvariant, Typing', NEW p \in Procs, SwapIn(p)
  PROVE  RecoveryInvariant'
<1> DEFINE u == proc[p].user
           r == proc[p].req
<1>1. /\ u \in Users /\ proc[p].pc = "swap" /\ r \in Requests
      /\ Typing /\ DiskSound /\ Exclusion /\ OwnsWork(p) /\ ReadHolds(p)
      /\ \A q \in Procs : Facts(q)
  BY InvNow, NamesNow DEF SwapIn, Facts, RequestPcs, WorkPcs
<1>2. UNCHANGED <<secret, marker, journal, index>>
  BY DEF SwapIn, files
<1>3. PICK s \in {"activate", "undo"} : Goto(p, s)
  BY DEF SwapIn
<1>4. /\ Moves(p) /\ proc'[p].pc = s /\ proc'[p].user = u /\ proc'[p].req = r
      /\ \A q \in Procs : q # p => proc'[q] = proc[q]
  <2>1. /\ proc[p].pc # "idle"
        /\ proc[p].pc \in AccountPcs /\ proc[p].pc \in SystemPcs
    BY <1>1 DEF AccountPcs, SystemPcs
  <2> QED
    BY <1>1, <1>3, <2>1, Went
<1>5. /\ journal[r].user = u /\ journal[r].status \in Live
      /\ u \notin marker /\ secret[u] = proc[p].original
      /\ journal[r].uid = account[u].uid /\ journal[r].original = proc[p].original
  BY <1>1 DEF OwnsWork, ReadHolds, WorkPcs
<1>6. Facts(p)'
  BY <1>2, <1>4, <1>5 DEF Facts, OwnsWork, HasItAlone, ReadHolds, WorkPcs, ClosePcs, TidyPcs, LoginPcs
<1>7. CASE account' = account
  BY <1>2, <1>4, <1>6, <1>7, Unmoved, QuietStep
<1>8. CASE account' = [account EXCEPT ![u].hash = r]
  <2>1. /\ account'[u].hash = r /\ account'[u].exists = account[u].exists
        /\ account'[u].uid = account[u].uid
        /\ \A v \in Users : v # u => account'[v] = account[v]
    BY <1>1, <1>8, TypingNow DEF Row
  <2>2. r \in index[u]
    BY <1>1, <1>5 DEF DiskSound, JournalsSound, IsLive
  <2>3. DiskSound'
    <3>1. JournalsSound' /\ OneLeasePerAccount'
      BY <1>1, <1>2 DEF DiskSound, JournalsSound, OneLeasePerAccount, IsLive
    <3>2. LentIsRecoverable'
      BY <1>1, <1>2, <1>5, <2>1, <2>2 DEF DiskSound, LentIsRecoverable, IsLive
    <3>3. PermanentKept' /\ ResetExcludesLease'
      BY <1>1, <1>2, <1>5, <2>1 DEF DiskSound, PermanentKept, ResetExcludesLease
    <3> QED
      BY <3>1, <3>2, <3>3 DEF DiskSound
  <2>4. \A q \in Procs : q # p => Facts(q)'
    BY <1>1, <1>2, <1>4, Sections, OthersUndisturbed DEF Exclusion
  <2> QED
    BY <1>4, <1>6, <2>3, <2>4, Assembled
<1> QED
  BY <1>7, <1>8 DEF SwapIn

LEMMA ActivateRecovers ==
  ASSUME RecoveryInvariant, Typing', NEW p \in Procs, Activate(p)
  PROVE  RecoveryInvariant'
<1> DEFINE u == proc[p].user
           r == proc[p].req
<1>1. /\ u \in Users /\ proc[p].pc = "activate" /\ r \in Requests
      /\ Typing /\ OwnsWork(p)
  BY InvNow, NamesNow DEF Activate, Facts, RequestPcs, WorkPcs
<1>2. journal[r].user = u /\ journal[r].status \in Live
  BY <1>1 DEF OwnsWork, WorkPcs
<1>3. journal' = journal \/ journal' = [journal EXCEPT ![r].status = "active_browser"]
  BY DEF Activate
<1>4. \A x \in Requests : SameFile(x)
  BY <1>1, <1>2, <1>3, TypingNow, Statuses DEF SameFile, Live, Journal
<1>5. QuietFiles /\ QuietAccounts
  BY <1>4 DEF Activate, dsm, QuietFiles, QuietAccounts
<1>6. CASE Answer(p, "temp")
  BY <1>5, <1>6, AnsweredStep
<1>7. CASE \/ Goto(p, "undo") \/ Goto(p, "dsm_login")
           \/ proc' = [proc EXCEPT ![p] = [@ EXCEPT !.pc = "undo", !.ok = TRUE]]
  <2>1. /\ proc'[p].pc \in {"undo", "dsm_login"} /\ proc'[p].user = u /\ proc'[p].req = r
        /\ \A q \in Procs : q # p => proc'[q] = proc[q]
    <3>1. proc[p] \in Task
      BY <1>1, TypingNow DEF NamedTask
    <3>2. CASE Goto(p, "undo") \/ Goto(p, "dsm_login")
      BY <1>1, <3>2, Went
    <3>3. CASE proc' = [proc EXCEPT ![p] = [@ EXCEPT !.pc = "undo", !.ok = TRUE]]
      <4>1. proc'[p] = [proc[p] EXCEPT !.pc = "undo", !.ok = TRUE]
            /\ \A q \in Procs : q # p => proc'[q] = proc[q]
        BY <1>1, <3>3, TypingNow
      <4> QED
        BY <3>1, <4>1 DEF Task
    <3> QED
      BY <1>7, <3>2, <3>3
  <2>2. Moves(p)
    BY <1>1, <2>1 DEF Moves, AccountPcs, SystemPcs
  <2>3. Facts(p)'
    BY <1>1, <1>2, <1>4, <2>1
       DEF SameFile, Facts, OwnsWork, HasItAlone, ReadHolds, WorkPcs, ClosePcs, TidyPcs, LoginPcs
  <2> QED
    BY <1>5, <2>2, <2>3, QuietStep
<1> QED
  BY <1>6, <1>7 DEF Activate

LEMMA LoginRecovers ==
  ASSUME RecoveryInvariant, NEW p \in Procs, LoginStep(p)
  PROVE  RecoveryInvariant'
<1>1. Typing /\ Typing' /\ \A q \in Procs : Facts(q)
  BY InvNow, LoginTyping
<1>2. CASE LoginRefused(p) \/ LoginRepeated(p)
  BY <1>1, <1>2, Unmoved, AnsweredStep DEF LoginRefused, LoginRepeated, dsm, files
<1>3. CASE \E success \in BOOLEAN : DsmLogin(p, success)
  <2>1. /\ proc[p].pc = "dsm_login" /\ proc[p] \in Task
        /\ journal[proc[p].req].user = proc[p].user /\ journal[proc[p].req].status \in Live
    BY <1>1, <1>3, TypingNow DEF DsmLogin, Facts, OwnsWork, WorkPcs, NamedTask
  <2>2. /\ proc'[p].pc = "restore" /\ proc'[p].user = proc[p].user /\ proc'[p].req = proc[p].req
        /\ \A q \in Procs : q # p => proc'[q] = proc[q]
    BY <1>1, <1>3, <2>1, TypingNow DEF DsmLogin, Task
  <2>3. Moves(p)
    BY <2>1, <2>2 DEF Moves, AccountPcs, SystemPcs
  <2>4. Facts(p)'
    BY <1>3, <2>1, <2>2 DEF DsmLogin, files,
       Facts, OwnsWork, HasItAlone, ReadHolds, WorkPcs, ClosePcs, TidyPcs, LoginPcs
  <2> QED
    BY <1>1, <1>3, <2>3, <2>4, Unmoved, QuietStep DEF DsmLogin, dsm, files
<1> QED
  BY <1>1, <1>2, <1>3, EntersRecovers, ReadRecovers, IndexRecovers, JournalRecovers, SwapRecovers,
     ActivateRecovers DEF LoginStep

-----------------------------------------------------------------------------
(* A restore *)

LEMMA RestoreEntersRecovers ==
  ASSUME RecoveryInvariant, Typing', NEW p \in Procs, RestoreEnters(p)
  PROVE  RecoveryInvariant'
<1>1. /\ Typing /\ Facts(p) /\ proc[p].pc = "lock_account" /\ AccountFree(proc[p].user)
  BY InvNow DEF RestoreEnters
<1>2. QuietFiles /\ QuietAccounts
  BY Unmoved DEF RestoreEnters, dsm, files
<1>3. CASE Answer(p, "error")
  BY <1>2, <1>3, AnsweredStep
<1>4. CASE Goto(p, "mark") /\ IsLive(proc[p].req)
  <2>1. /\ Moves(p) /\ proc'[p].pc = "mark" /\ proc'[p].user = proc[p].user
        /\ proc'[p].req = proc[p].req
    BY <1>1, <1>4, Went DEF SystemPcs
  <2>2. journal[proc[p].req].user = proc[p].user
    BY <1>1 DEF RestoreEnters, Facts, OwnsWork
  <2>3. Facts(p)'
    BY <1>4, <2>1, <2>2 DEF RestoreEnters, files, IsLive,
       Facts, OwnsWork, HasItAlone, ReadHolds, WorkPcs, ClosePcs, TidyPcs, LoginPcs
  <2> QED
    BY <1>2, <2>1, <2>3, QuietStep
<1> QED
  BY <1>3, <1>4 DEF RestoreEnters

\* What a task in the middle of a restore finds.
LEMMA AtWork ==
  ASSUME RecoveryInvariant, NEW p \in Procs, proc[p].pc \in WorkPcs
  PROVE  /\ proc[p].user \in Users /\ proc[p].req \in Requests
         /\ proc[p].pc \in AccountPcs /\ proc[p].pc # "idle"
         /\ journal[proc[p].req].user = proc[p].user /\ journal[proc[p].req].status \in Live
         /\ journal[proc[p].req].original \in Passwords
<1>1. Typing /\ OwnsWork(p) /\ JournalsSound
  BY InvNow DEF Facts, DiskSound
<1>2. /\ proc[p].pc # "idle" /\ proc[p].pc \in AccountPcs /\ proc[p].pc \in RequestPcs
  BY Sections DEF WorkPcs, RequestPcs
<1>3. proc[p].user \in Users /\ proc[p].req \in Requests
  BY <1>1, <1>2, NamesNow
<1> QED
  BY <1>1, <1>2, <1>3, Statuses DEF OwnsWork, JournalsSound

LEMMA MarkRecovers ==
  ASSUME RecoveryInvariant, Typing', NEW p \in Procs, MarkRestoring(p)
  PROVE  RecoveryInvariant'
<1> DEFINE u == proc[p].user
           r == proc[p].req
<1>1. /\ u \in Users /\ r \in Requests /\ proc[p].pc = "mark" /\ proc[p].pc \in AccountPcs
      /\ journal[r].user = u /\ journal[r].status \in Live /\ Typing
  BY InvNow, AtWork DEF MarkRestoring, WorkPcs
<1>2. /\ journal' = journal \/ journal' = [journal EXCEPT ![r].status = "restoring_browser"]
      /\ index' = index \/ index' = [index EXCEPT ![u] = @ \cup {r}]
  BY <1>1 DEF MarkRestoring, files
<1>3. \A x \in Requests : SameFile(x)
  BY <1>1, <1>2, TypingNow, Statuses DEF SameFile, Live, Journal
<1>4. \A v \in Users : index[v] \subseteq index'[v]
  BY <1>2, TypingNow, InvNow
<1>5. QuietFiles /\ QuietAccounts
  BY <1>3, <1>4 DEF MarkRestoring, dsm, QuietFiles, QuietAccounts
<1>6. CASE RestoreFails(p)
  BY <1>1, <1>5, <1>6, FailedRestore, QuietStep
<1>7. CASE Goto(p, "restore")
  <2>1. /\ Moves(p) /\ proc'[p].pc = "restore" /\ proc'[p].user = u /\ proc'[p].req = r
    BY <1>1, <1>7, Went DEF SystemPcs
  <2>2. Facts(p)'
    BY <1>1, <1>3, <2>1 DEF SameFile,
       Facts, OwnsWork, HasItAlone, ReadHolds, WorkPcs, ClosePcs, TidyPcs, LoginPcs
  <2> QED
    BY <1>5, <2>1, <2>2, QuietStep
<1> QED
  BY <1>6, <1>7 DEF MarkRestoring

\* Coming to its last step with a hash that is not the temporary one.
LEMMA ComesToFinish ==
  ASSUME RecoveryInvariant, NEW p \in Procs, MayRestore(p), UNCHANGED journal,
         account'[proc[p].user].hash # proc[p].req, NEW v,
         proc' = [proc EXCEPT ![p] = [@ EXCEPT !.pc = "finish", !.verdict = v]]
  PROVE  Moves(p) /\ Facts(p)'
<1>1. /\ Typing /\ proc[p].pc \in WorkPcs /\ proc[p] \in Task
      /\ proc[p].pc \in SystemPcs \/ SystemFree
  BY InvNow, TypingNow DEF MayRestore, WorkPcs, SystemPcs, NamedTask
<1>2. proc'[p] = [proc[p] EXCEPT !.pc = "finish", !.verdict = v]
      /\ \A q \in Procs : q # p => proc'[q] = proc[q]
  BY <1>1, TypingNow
<1>3. ASSUME NEW t \in Task
      PROVE  LET n == [t EXCEPT !.pc = "finish", !.verdict = v]
             IN  n.pc = "finish" /\ n.user = t.user /\ n.req = t.req
  BY DEF Task
<1>4. proc'[p].pc = "finish" /\ proc'[p].user = proc[p].user /\ proc'[p].req = proc[p].req
  BY <1>1, <1>2, <1>3
<1>5. Moves(p)
  BY <1>1, <1>2, <1>4, AtWork DEF Moves
<1>6. Facts(p)'
  BY <1>1, <1>4, AtWork
     DEF Facts, OwnsWork, HasItAlone, ReadHolds, WorkPcs, ClosePcs, TidyPcs, LoginPcs
<1> QED
  BY <1>5, <1>6

LEMMA KeepsRecovers ==
  ASSUME RecoveryInvariant, Typing', NEW p \in Procs, RestoreKeeps(p)
  PROVE  RecoveryInvariant'
<1>1. /\ MayRestore(p) /\ proc[p].pc \in WorkPcs
  BY DEF RestoreKeeps, MayRestore, WorkPcs
<1>2. account[proc[p].user].hash # proc[p].req
  BY <1>1, AtWork, ConstantsApart DEF RestoreKeeps, ShowsTemporary
<1>3. UNCHANGED <<account, secret, marker, journal, index>>
  BY DEF RestoreKeeps, dsm, files
<1>4. Moves(p) /\ Facts(p)'
  BY <1>1, <1>2, <1>3, ComesToFinish DEF RestoreKeeps
<1> QED
  BY <1>3, <1>4, Unmoved, QuietStep

LEMMA SwapsRecovers ==
  ASSUME RecoveryInvariant, Typing', NEW p \in Procs, RestoreSwaps(p)
  PROVE  RecoveryInvariant'
<1> DEFINE u == proc[p].user
           r == proc[p].req
<1>1. /\ MayRestore(p) /\ proc[p].pc \in WorkPcs
      /\ Typing /\ DiskSound /\ Exclusion /\ \A q \in Procs : Facts(q)
  BY InvNow DEF RestoreSwaps, MayRestore, WorkPcs
<1>2. /\ u \in Users /\ r \in Requests /\ proc[p].pc \in AccountPcs
      /\ journal[r].user = u /\ journal[r].status \in Live
      /\ journal[r].original \in Passwords
  BY <1>1, AtWork
<1>3. account[u].exists /\ account[u].hash = r
  BY <1>2 DEF RestoreSwaps, MayTouch, SameAccount, ShowsTemporary
<1>4. journal[r].original = secret[u]
  BY <1>1, <1>2, <1>3 DEF DiskSound, LentIsRecoverable
<1>5. UNCHANGED <<secret, marker, journal, index>>
  BY DEF RestoreSwaps, files
<1>6. CASE account' = account
  <2>1. RestoreFails(p)
    BY <1>2, <1>3, <1>6, ConstantsApart, TypingNow, <1>1 DEF RestoreSwaps, Lands, RestoredRow, Row
  <2> QED
    BY <1>1, <1>2, <1>5, <1>6, <2>1, FailedRestore, Unmoved, QuietStep
<1>7. CASE account' = [account EXCEPT ![u] = RestoredRow(@, r)]
  <2>1. /\ account'[u].hash = journal[r].original /\ account'[u].exists
        /\ account'[u].uid = account[u].uid
        /\ \A v \in Users : v # u => account'[v] = account[v]
    BY <1>1, <1>2, <1>3, <1>7, TypingNow DEF Row, RestoredRow
  <2>2. account'[u].hash # r /\ account'[u].hash \notin Requests
    BY <1>2, <2>1, ConstantsApart
  <2>3. Moves(p) /\ Facts(p)'
    <3>1. CASE RestoreFails(p)
      BY <1>1, <1>2, <3>1, FailedRestore
    <3>2. CASE proc' = [proc EXCEPT ![p] = [@ EXCEPT !.pc = "finish", !.verdict = "restored"]]
      BY <1>1, <1>5, <2>2, <3>2, ComesToFinish
    <3> QED
      BY <3>1, <3>2 DEF RestoreSwaps
  <2>4. DiskSound'
    <3>1. JournalsSound' /\ OneLeasePerAccount'
      BY <1>1, <1>5 DEF DiskSound, JournalsSound, OneLeasePerAccount, IsLive
    <3>2. LentIsRecoverable'
      BY <1>1, <1>5, <2>1, <2>2 DEF DiskSound, LentIsRecoverable, IsLive
    <3>3. PermanentKept' /\ ResetExcludesLease'
      BY <1>1, <1>4, <1>5, <2>1, <2>2 DEF DiskSound, PermanentKept, ResetExcludesLease
    <3> QED
      BY <3>1, <3>2, <3>3 DEF DiskSound
  <2>5. ASSUME NEW q \in Procs, q # p
        PROVE  Facts(q)'
    <3>1. proc[q].pc \notin SystemPcs
      BY <1>1, <2>5, Sections DEF Exclusion, MayRestore, SystemFree, SystemPcs
    <3> QED
      BY <1>1, <1>5, <2>3, <2>5, <3>1, OthersUndisturbed DEF Moves
  <2> QED
    BY <2>3, <2>4, <2>5, Assembled
<1> QED
  BY <1>2, <1>6, <1>7 DEF RestoreSwaps

LEMMA FinishRecovers ==
  ASSUME RecoveryInvariant, Typing', NEW p \in Procs, FinishJournal(p)
  PROVE  RecoveryInvariant'
<1> DEFINE u == proc[p].user
           r == proc[p].req
<1>1. /\ proc[p].pc = "finish" /\ proc[p].verdict \in Terminal
      /\ Typing /\ DiskSound /\ Exclusion /\ OwnsWork(p) /\ \A q \in Procs : Facts(q)
  BY InvNow, NamesNow DEF FinishJournal, Facts
<1>2. /\ u \in Users /\ r \in Requests /\ proc[p].pc \in AccountPcs
      /\ journal[r].user = u /\ journal[r].status \in Live
  BY <1>1, AtWork DEF WorkPcs
<1>3. account[u].hash # r
  BY <1>1 DEF OwnsWork
<1>4. UNCHANGED <<account, secret, marker, index>>
  BY DEF FinishJournal, dsm
<1>5. CASE journal' = journal /\ RestoreFails(p)
  BY <1>1, <1>2, <1>4, <1>5, FailedRestore, Unmoved, QuietStep
<1>6. CASE /\ journal' = [journal EXCEPT ![r].status = proc[p].verdict]
           /\ Goto(p, "archive") \/ RestoreFails(p)
  <2>1. /\ journal'[r].status \in Terminal /\ journal'[r].user = journal[r].user
        /\ journal'[r].original = journal[r].original /\ journal'[r].uid = journal[r].uid
        /\ \A x \in Requests : x # r => journal'[x] = journal[x]
    BY <1>1, <1>2, <1>6, TypingNow DEF Journal
  <2>2. DiskSound'
    <3>1. JournalsSound'
      BY <1>1, <1>2, <1>4, <2>1, Statuses DEF DiskSound, JournalsSound, IsLive
    <3>2. OneLeasePerAccount'
      BY <1>1, <2>1, Statuses DEF DiskSound, OneLeasePerAccount, IsLive
    <3>3. LentIsRecoverable'
      BY <1>1, <1>2, <1>3, <1>4, <2>1 DEF DiskSound, LentIsRecoverable, IsLive
    <3>4. PermanentKept' /\ ResetExcludesLease'
      BY <1>1, <1>4 DEF DiskSound, PermanentKept, ResetExcludesLease
    <3> QED
      BY <3>1, <3>2, <3>3, <3>4 DEF DiskSound
  <2>3. ASSUME NEW q \in Procs, q # p, proc'[q] = proc[q]
        PROVE  Facts(q)'
    <3>1. proc[q].pc \notin SystemPcs
      BY <1>1, <2>3, Sections DEF Exclusion
    <3>2. proc[q].pc \in AccountPcs => proc[q].user # u
      BY <1>1, <1>2, <2>3, Sections DEF Exclusion
    <3>3. /\ proc[q].pc \in RequestPcs => proc[q].req \in Requests
          /\ proc[q].pc = "lock_account" /\ proc[q].op \in LoginOps \cup {"complete", "scan"}
               => proc[q].req \in Requests
      BY <1>1, NamesNow
    <3>4. OwnsWork(q)'
      BY <1>1, <1>2, <1>4, <2>1, <2>3, <3>2, <3>3, Statuses, Sections DEF Facts, OwnsWork, RequestPcs
    <3>5. HasItAlone(q)'
      BY <1>1, <1>2, <2>1, <2>3, Statuses DEF Facts, HasItAlone, IsLive
    <3>6. ReadHolds(q)'
      BY <2>3, <3>1, Sections DEF ReadHolds
    <3> QED
      BY <3>4, <3>5, <3>6 DEF Facts
  <2>4. CASE RestoreFails(p)
    BY <1>1, <1>2, <2>2, <2>3, <2>4, FailedRestore, Assembled DEF Moves
  <2>5. CASE Goto(p, "archive")
    <3>1. /\ Moves(p) /\ proc'[p].pc = "archive" /\ proc'[p].user = u /\ proc'[p].req = r
      BY <1>1, <1>2, <2>5, Went DEF SystemPcs
    <3>2. Facts(p)'
      BY <1>2, <2>1, <3>1
         DEF Facts, OwnsWork, HasItAlone, ReadHolds, WorkPcs, ClosePcs, TidyPcs, LoginPcs
    <3> QED
      BY <2>2, <2>3, <3>1, <3>2, Assembled DEF Moves
  <2> QED
    BY <1>6, <2>4, <2>5
<1> QED
  BY <1>5, <1>6 DEF FinishJournal, Lands

LEMMA ArchiveRecovers ==
  ASSUME RecoveryInvariant, Typing', NEW p \in Procs, Archive(p)
  PROVE  RecoveryInvariant'
<1> DEFINE r == proc[p].req
<1>1. /\ proc[p].pc = "archive" /\ proc[p].pc \in AccountPcs /\ r \in Requests
      /\ Typing /\ OwnsWork(p)
  BY InvNow, NamesNow, Sections DEF Archive, Facts, ClosePcs, RequestPcs
<1>2. journal' = journal \/ journal' = [journal EXCEPT ![r].place = "completed"]
  BY DEF Archive
<1>3. \A x \in Requests : SameFile(x)
  BY <1>1, <1>2, TypingNow DEF SameFile, Journal
<1>4. QuietFiles /\ QuietAccounts
  BY <1>3 DEF Archive, dsm, QuietFiles, QuietAccounts
<1>5. CASE RestoreFails(p)
  BY <1>1, <1>4, <1>5, FailedRestore, QuietStep
<1>6. CASE Goto(p, "unindex")
  <2>1. /\ Moves(p) /\ proc'[p].pc = "unindex" /\ proc'[p].user = proc[p].user /\ proc'[p].req = r
    BY <1>1, <1>6, Went DEF SystemPcs
  <2>2. Facts(p)'
    BY <1>1, <1>3, <2>1 DEF SameFile,
       Facts, OwnsWork, HasItAlone, ReadHolds, WorkPcs, ClosePcs, TidyPcs, LoginPcs
  <2> QED
    BY <1>4, <2>1, <2>2, QuietStep
<1> QED
  BY <1>5, <1>6 DEF Archive

LEMMA UnindexRecovers ==
  ASSUME RecoveryInvariant, Typing', NEW p \in Procs, RemoveFromIndex(p)
  PROVE  RecoveryInvariant'
<1> DEFINE r == proc[p].req
<1>1. /\ proc[p].pc = "unindex" /\ proc[p].pc \in AccountPcs /\ r \in Requests
      /\ Typing /\ IsTerminal(r)
  BY InvNow, NamesNow, Sections DEF RemoveFromIndex, Facts, OwnsWork, ClosePcs, RequestPcs, IsTerminal
<1>2. index' = index \/ index' = [index EXCEPT ![journal[r].user] = @ \ {r}]
  BY DEF RemoveFromIndex
<1>3. QuietFiles /\ QuietAccounts
  BY <1>1, <1>2, TypingNow DEF RemoveFromIndex, dsm, QuietFiles, QuietAccounts, SameFile
<1>4. RestoreEnds(p) \/ RestoreFails(p)
  BY DEF RemoveFromIndex
<1> QED
  BY <1>1, <1>3, <1>4, EndedRestore, FailedRestore, QuietStep

LEMMA RecordRecovers ==
  ASSUME RecoveryInvariant, Typing', NEW p \in Procs, RecordFailure(p)
  PROVE  RecoveryInvariant'
<1> DEFINE r == proc[p].req
<1>1. /\ proc[p].pc = "record" /\ proc[p].pc \in AccountPcs /\ Typing
  BY InvNow, Sections DEF RecordFailure
<1>2. journal' = journal \/ journal' = [journal EXCEPT ![r].failed = TRUE]
  BY DEF RecordFailure
<1>3. \A x \in Requests : SameFile(x)
  BY <1>1, <1>2, TypingNow DEF SameFile, Journal
<1>4. QuietFiles /\ QuietAccounts
  BY <1>3 DEF RecordFailure, dsm, QuietFiles, QuietAccounts
<1>5. Moves(p) /\ Facts(p)'
  BY <1>1, WentPlain, Answered DEF RecordFailure, Plain
<1> QED
  BY <1>4, <1>5, QuietStep

LEMMA RestoreRecovers ==
  ASSUME RecoveryInvariant, NEW p \in Procs, RestoreStep(p)
  PROVE  RecoveryInvariant'
<1>1. Typing /\ Typing'
  BY InvNow, RestoreTyping
<1>2. CASE RestoreRefused(p)
  <2>1. proc[p].pc \in AccountPcs /\ RestoreFails(p)
    BY <1>2 DEF RestoreRefused, MayRestore, AccountPcs
  <2> QED
    BY <1>1, <1>2, <2>1, Unmoved, FailedRestore, QuietStep DEF RestoreRefused, dsm, files
<1> QED
  BY <1>1, <1>2, RestoreEntersRecovers, MarkRecovers, KeepsRecovers, SwapsRecovers, FinishRecovers,
     ArchiveRecovers, UnindexRecovers, RecordRecovers DEF RestoreStep

-----------------------------------------------------------------------------
(* The account operations *)

\* A permanent hash set by someone who has the system lock, or an account deleted.
LEMMA PermanentSet ==
  ASSUME RecoveryInvariant, SystemFree, UNCHANGED <<marker, journal, index>>, NEW u \in Users,
         \A v \in Users : v # u => account'[v] = account[v] /\ secret'[v] = secret[v],
         account'[u].exists => account'[u].hash = secret'[u] /\ secret'[u] \notin Requests
  PROVE  /\ DiskSound'
         /\ Typing' => \A q \in Procs : proc'[q] = proc[q] => Facts(q)'
<1>1. Typing /\ DiskSound /\ \A q \in Procs : Facts(q)
  BY InvNow
<1>2. JournalsSound' /\ OneLeasePerAccount'
  BY <1>1 DEF DiskSound, JournalsSound, OneLeasePerAccount, IsLive
<1>3. LentIsRecoverable'
  BY <1>1 DEF DiskSound, LentIsRecoverable, IsLive
<1>4. PermanentKept' /\ ResetExcludesLease'
  BY <1>1 DEF DiskSound, PermanentKept, ResetExcludesLease
<1>5. Typing' => \A q \in Procs : proc'[q] = proc[q] => Facts(q)'
  BY <1>1, OthersUndisturbed DEF SystemFree
<1> QED
  BY <1>2, <1>3, <1>4, <1>5 DEF DiskSound

LEMMA TakesLease ==
  ASSUME RecoveryInvariant, Typing', NEW p \in Procs, proc[p].pc = "lock_account",
         AccountFree(proc[p].user), ~Unresolved(proc[p].user), NEW r \in Leases(proc[p].user),
         proc' = [proc EXCEPT ![p] = [@ EXCEPT !.pc = "mark", !.req = r]],
         UNCHANGED <<account, secret, marker, journal, index>>
  PROVE  RecoveryInvariant'
<1>1. Typing /\ proc[p].user \in Users /\ proc[p] \in Task
  BY InvNow, NamesNow DEF NamedTask
<1>2. r \in Requests /\ IsLive(r) /\ journal[r].user = proc[p].user
  BY <1>1, LeaseFound
<1>3. proc'[p] = [proc[p] EXCEPT !.pc = "mark", !.req = r]
      /\ \A q \in Procs : q # p => proc'[q] = proc[q]
  BY <1>1, TypingNow
<1>4. proc'[p].pc = "mark" /\ proc'[p].user = proc[p].user /\ proc'[p].req = r
  <2>1. ASSUME NEW t \in Task
        PROVE  LET n == [t EXCEPT !.pc = "mark", !.req = r]
               IN  n.pc = "mark" /\ n.user = t.user /\ n.req = r
    BY DEF Task
  <2> QED
    BY <1>1, <1>3, <2>1
<1>5. Moves(p)
  BY <1>3, <1>4 DEF Moves, SystemPcs
<1>6. Facts(p)'
  BY <1>2, <1>4 DEF IsLive,
     Facts, OwnsWork, HasItAlone, ReadHolds, WorkPcs, ClosePcs, TidyPcs, LoginPcs
<1> QED
  BY <1>5, <1>6, Unmoved, QuietStep

LEMMA MutationRecovers ==
  ASSUME RecoveryInvariant, Typing', NEW p \in Procs, MutationEnters(p)
  PROVE  RecoveryInvariant'
<1> DEFINE u == proc[p].user
<1>1. /\ proc[p].pc = "lock_account" /\ AccountFree(u) /\ u \in Users /\ Typing /\ JournalsSound
      /\ UNCHANGED <<account, secret, marker, journal, index>>
  BY InvNow, NamesNow DEF MutationEnters, DiskSound, dsm, files
<1>2. CASE Answer(p, "error")
  BY <1>1, <1>2, Unmoved, AnsweredStep
<1>3. ASSUME NEW s \in {"reset_mark", "native"}, Goto(p, s), ~Unresolved(u), Leases(u) = {}
      PROVE  RecoveryInvariant'
  <2>1. /\ Moves(p) /\ proc'[p].pc = s /\ proc'[p].user = u
    BY <1>1, <1>3, Went DEF SystemPcs
  <2>2. HasItAlone(p)'
    BY <1>1, <1>3, <2>1, NoLeaseFound DEF HasItAlone, IsLive
  <2>3. Facts(p)'
    BY <2>1, <2>2 DEF Facts, OwnsWork, ReadHolds, WorkPcs, ClosePcs, TidyPcs
  <2> QED
    BY <1>1, <2>1, <2>3, Unmoved, QuietStep
<1>4. ASSUME ~Unresolved(u), NEW r \in Leases(u),
             proc' = [proc EXCEPT ![p] = [@ EXCEPT !.pc = "mark", !.req = r]]
      PROVE  RecoveryInvariant'
  BY <1>1, <1>4, TakesLease
<1> QED
  BY <1>2, <1>3, <1>4 DEF MutationEnters

LEMMA NativeRecovers ==
  ASSUME RecoveryInvariant, Typing', NEW p \in Procs, Native(p)
  PROVE  RecoveryInvariant'
<1> DEFINE u == proc[p].user
<1>1. /\ proc[p].pc = "native" /\ SystemFree /\ u \in Users /\ Typing
      /\ UNCHANGED <<marker, journal, index>> /\ Answer(p, "error")
  BY InvNow, NamesNow DEF Native, files
<1>2. ASSUME UNCHANGED secret,
             account' = account \/ \E b \in BOOLEAN : account' = [account EXCEPT ![u].disabled = b]
      PROVE  RecoveryInvariant'
  <2>1. ASSUME NEW a \in Row, NEW b \in BOOLEAN
        PROVE  LET n == [a EXCEPT !.disabled = b]
               IN  n.exists = a.exists /\ n.uid = a.uid /\ n.hash = a.hash
    BY DEF Row
  <2>2. ASSUME NEW v \in Users
        PROVE  /\ account'[v].exists = account[v].exists
               /\ account'[v].uid = account[v].uid
               /\ account'[v].hash = account[v].hash
    <3>1. account[v] \in Row /\ account[u] \in Row
      BY <1>1, TypingNow
    <3>2. CASE account' = account
      BY <3>2
    <3>3. ASSUME NEW b \in BOOLEAN, account' = [account EXCEPT ![u].disabled = b]
          PROVE  account'[v] = account[v] \/ account'[v] = [account[v] EXCEPT !.disabled = b]
      BY <1>1, <3>3, TypingNow
    <3> QED
      BY <1>2, <2>1, <3>1, <3>2, <3>3
  <2>3. QuietFiles /\ QuietAccounts
    BY <1>1, <1>2, <2>2 DEF QuietFiles, QuietAccounts, SameFile
  <2> QED
    BY <1>1, <2>3, AnsweredStep
<1>3. ASSUME NEW h \in Passwords, NewRow(u, h), secret' = [secret EXCEPT ![u] = h]
      PROVE  RecoveryInvariant'
  <2>1. /\ account'[u].hash = h /\ secret'[u] = h
        /\ \A v \in Users : v # u => account'[v] = account[v] /\ secret'[v] = secret[v]
    BY <1>1, <1>3, TypingNow DEF NewRow
  <2>2. DiskSound' /\ \A q \in Procs : proc'[q] = proc[q] => Facts(q)'
    BY <1>1, <2>1, ConstantsApart, PermanentSet
  <2> QED
    BY <1>1, <2>2, Answered, Assembled DEF Moves
<1> QED
  BY <1>2, <1>3 DEF Native

LEMMA ResetRecovers ==
  ASSUME RecoveryInvariant, Typing', NEW p \in Procs,
         ResetMark(p) \/ SetPassword(p) \/ ResetDone(p)
  PROVE  RecoveryInvariant'
<1> DEFINE u == proc[p].user
<1>1. /\ proc[p].pc \in AccountPcs /\ u \in Users /\ Typing /\ DiskSound
      /\ \A q \in Procs : Facts(q)
  BY InvNow, NamesNow DEF ResetMark, SetPassword, ResetDone, AccountPcs
<1>2. Moves(p) /\ Facts(p)'
  BY <1>1, Answered, WentPlain DEF ResetMark, SetPassword, ResetDone, Plain
<1>3. CASE ResetMark(p)
  <2>1. /\ UNCHANGED <<account, secret, journal, index>> /\ SystemFree
        /\ marker' \subseteq marker \cup {u}
    BY <1>3 DEF ResetMark, dsm, files
  <2>2. account[u].exists => account[u].hash \notin Requests
    BY <1>1, <1>3 DEF ResetMark, Facts, HasItAlone, DiskSound, LentIsRecoverable
  <2>3. DiskSound'
    <3>1. JournalsSound' /\ OneLeasePerAccount' /\ LentIsRecoverable' /\ PermanentKept'
      BY <1>1, <2>1 DEF DiskSound, JournalsSound, OneLeasePerAccount, LentIsRecoverable,
                        PermanentKept, IsLive
    <3>2. ResetExcludesLease'
      BY <1>1, <2>1, <2>2 DEF DiskSound, ResetExcludesLease
    <3> QED
      BY <3>1, <3>2 DEF DiskSound
  <2>4. \A q \in Procs : q # p => Facts(q)'
    BY <1>1, <1>2, <2>1, OthersUndisturbed DEF Moves, SystemFree
  <2> QED
    BY <1>2, <2>3, <2>4, Assembled
<1>4. CASE SetPassword(p)
  <2>1. UNCHANGED <<marker, journal, index>> /\ SystemFree
    BY <1>4 DEF SetPassword, files
  <2>2. CASE UNCHANGED <<account, secret>>
    BY <1>2, <2>1, <2>2, Unmoved, QuietStep
  <2>3. ASSUME NEW h \in Passwords, account' = [account EXCEPT ![u].hash = h],
               secret' = [secret EXCEPT ![u] = h]
        PROVE  RecoveryInvariant'
    <3>1. /\ account'[u].hash = h /\ secret'[u] = h
          /\ \A v \in Users : v # u => account'[v] = account[v] /\ secret'[v] = secret[v]
      BY <1>1, <2>3, TypingNow DEF Row
    <3>2. DiskSound' /\ \A q \in Procs : proc'[q] = proc[q] => Facts(q)'
      BY <2>1, <1>1, <3>1, ConstantsApart, PermanentSet
    <3> QED
      BY <1>2, <3>2, Assembled DEF Moves
  <2> QED
    BY <1>4, <2>2, <2>3 DEF SetPassword, dsm
<1>5. CASE ResetDone(p)
  <2>1. QuietFiles /\ QuietAccounts
    BY <1>5 DEF ResetDone, dsm, files, QuietFiles, QuietAccounts, SameFile
  <2> QED
    BY <1>2, <2>1, QuietStep
<1> QED
  BY <1>3, <1>4, <1>5

LEMMA AccountRecovers ==
  ASSUME RecoveryInvariant, NEW p \in Procs, AccountStep(p)
  PROVE  RecoveryInvariant'
<1>1. Typing /\ Typing'
  BY InvNow, AccountTyping
<1>2. CASE PolicyChanges(p)
  <2>1. /\ proc[p].pc = "lock_account" /\ AccountFree(proc[p].user)
        /\ UNCHANGED <<account, secret, marker, journal, index>>
    BY <1>2 DEF PolicyChanges, dsm, files
  <2>2. CASE Answer(p, "error")
    BY <1>1, <2>1, <2>2, Unmoved, AnsweredStep
  <2>3. ASSUME ~Unresolved(proc[p].user), NEW r \in Leases(proc[p].user),
               proc' = [proc EXCEPT ![p] = [@ EXCEPT !.pc = "mark", !.req = r]]
        PROVE  RecoveryInvariant'
    BY <1>1, <2>1, <2>3, TakesLease
  <2> QED
    BY <1>2, <2>2, <2>3 DEF PolicyChanges
<1> QED
  BY <1>1, <1>2, MutationRecovers, NativeRecovers, ResetRecovers DEF AccountStep

-----------------------------------------------------------------------------
(* Calls, the scan and the environment *)

LEMMA ThreadRecovers ==
  ASSUME RecoveryInvariant, NEW p \in Procs, ThreadStep(p)
  PROVE  RecoveryInvariant'
<1>1. Typing /\ Typing'
  BY InvNow, ThreadTyping
<1>2. CASE AccountBusy(p)
  BY <1>1, <1>2, Unmoved, AnsweredStep DEF AccountBusy, dsm, files
<1>3. CASE SystemBusy(p)
  <2>1. /\ proc[p].pc \in AccountPcs /\ (RestoreFails(p) \/ Answer(p, "error"))
        /\ UNCHANGED <<account, secret, marker, journal, index>>
    BY <1>3 DEF SystemBusy, AccountPcs, dsm, files
  <2> QED
    BY <1>1, <2>1, Unmoved, FailedRestore, AnsweredStep, QuietStep
<1> QED
  BY <1>2, <1>3, LoginRecovers, RestoreRecovers, AccountRecovers DEF ThreadStep

\* A task that begins waits for its account lock and may rely on its journal only.
LEMMA Begins ==
  ASSUME RecoveryInvariant, Typing', NEW p \in Procs, NEW t, proc' = [proc EXCEPT ![p] = t],
         t.pc = "lock_account",
         t.op \in {"complete", "scan"} =>
           journal[t.req].user = t.user /\ journal[t.req].status # "none",
         UNCHANGED <<account, secret, marker, journal, index>>
  PROVE  RecoveryInvariant'
<1>1. proc'[p] = t /\ \A q \in Procs : q # p => proc'[q] = proc[q]
  BY InvNow, TypingNow
<1>2. Moves(p)
  BY <1>1 DEF Moves, AccountPcs, SystemPcs
<1>3. Facts(p)'
  BY <1>1 DEF Facts, OwnsWork, HasItAlone, ReadHolds, WorkPcs, ClosePcs, TidyPcs, LoginPcs
<1> QED
  BY <1>2, <1>3, Unmoved, QuietStep

LEMMA CallRecovers ==
  ASSUME RecoveryInvariant, NEW p \in Threads, Call(p)
  PROVE  RecoveryInvariant'
<1>1. p \in Procs /\ Typing /\ Typing' /\ JournalsSound
  BY InvNow, CallTyping DEF Procs, DiskSound
<1>2. ASSUME NEW o \in LoginOps, NEW r \in Requests, NEW u \in Users, LoginCall(p, o, r, u)
      PROVE  RecoveryInvariant'
  <2> DEFINE t == [Idle EXCEPT !.pc = "lock_account", !.op = o, !.req = r, !.user = u]
  <2>1. t.pc = "lock_account" /\ t.op = o
    BY DEF Idle
  <2> QED
    BY <1>1, <1>2, <2>1, Begins DEF LoginCall, LoginOps, dsm, files
<1>3. ASSUME NEW r \in Requests, CompleteCall(p, r)
      PROVE  RecoveryInvariant'
  <2> DEFINE t == [Idle EXCEPT !.pc = "lock_account", !.op = "complete", !.req = r,
                               !.user = journal[r].user]
  <2>1. t.pc = "lock_account" /\ t.req = r /\ t.user = journal[r].user
    BY DEF Idle
  <2>2. journal[r].status # "none"
    BY <1>1, <1>3 DEF JournalsSound, CompleteCall
  <2> QED
    BY <1>1, <1>3, <2>1, <2>2, Begins DEF CompleteCall, dsm, files
<1>4. ASSUME NEW o \in AllOps, NEW u \in Users, AccountCall(p, o, u)
      PROVE  RecoveryInvariant'
  <2> DEFINE t == [Idle EXCEPT !.pc = "lock_account", !.op = o, !.user = u]
  <2>1. t.pc = "lock_account" /\ t.op = o
    BY DEF Idle
  <2>2. o \notin {"complete", "scan"}
    BY <1>4 DEF AccountCall, PolicyOps
  <2> QED
    BY <1>1, <1>4, <2>1, <2>2, Begins DEF AccountCall, dsm, files
<1> QED
  BY <1>2, <1>3, <1>4 DEF Call

LEMMA NobodyMoves ==
  ASSUME RecoveryInvariant, Typing', UNCHANGED proc, QuietFiles, QuietAccounts
  PROVE  RecoveryInvariant'
<1>1. Typing /\ DiskSound /\ \A q \in Procs : Facts(q)
  BY InvNow
<1>2. \A q \in Procs : Facts(q)'
  BY <1>1, QuietFacts
<1>3. Scanner \in Procs /\ Moves(Scanner)
  BY DEF Procs, Moves
<1> QED
  BY <1>1, <1>2, <1>3, QuietDisk, Assembled

LEMMA PassEndsRecovers ==
  ASSUME RecoveryInvariant, Typing', PassEnds
  PROVE  RecoveryInvariant'
<1>1. Typing /\ DiskSound /\ \A q \in Procs : Facts(q)
  BY InvNow
<1>2. UNCHANGED <<account, secret, marker, index, proc>>
  BY DEF PassEnds, dsm
<1>3. \A r \in Requests : journal'[r] = journal[r] \/ (journal'[r] = NoJournal /\ r \in Prunable)
  BY DEF PassEnds
<1>4. NoJournal.status = "none" /\ NoJournal.user = None
  BY DEF NoJournal
<1>5. \A r \in Prunable : ~IsLive(r) /\ \A q \in Procs : proc[q].req # r
  <2>1. ASSUME NEW r \in Prunable, IsLive(r)
        PROVE  FALSE
    <3>1. journal[r].user \in Users /\ r \in index[journal[r].user]
      BY <1>1, <2>1, TypingNow, Statuses DEF DiskSound, JournalsSound, Prunable, Journal, IsLive
    <3> QED
      BY <2>1, <3>1 DEF Prunable
  <2> QED
    BY <2>1 DEF Prunable
<1>6. DiskSound'
  <2>1. JournalsSound'
    BY <1>1, <1>2, <1>3, <1>4, Statuses DEF DiskSound, JournalsSound, IsLive
  <2>2. OneLeasePerAccount'
    BY <1>1, <1>3, <1>4, Statuses DEF DiskSound, OneLeasePerAccount, IsLive
  <2>3. LentIsRecoverable'
    BY <1>1, <1>2, <1>3, <1>5 DEF DiskSound, LentIsRecoverable, IsLive
  <2>4. PermanentKept' /\ ResetExcludesLease'
    BY <1>1, <1>2 DEF DiskSound, PermanentKept, ResetExcludesLease
  <2> QED
    BY <2>1, <2>2, <2>3, <2>4 DEF DiskSound
<1>7. ASSUME NEW q \in Procs
      PROVE  Facts(q)'
  <2>1. /\ proc[q].pc \in RequestPcs => proc[q].req \in Requests
        /\ proc[q].pc = "lock_account" /\ proc[q].op \in LoginOps \cup {"complete", "scan"}
             => proc[q].req \in Requests
    BY <1>1, NamesNow
  <2>2. proc[q].req \in Requests => journal'[proc[q].req] = journal[proc[q].req]
    BY <1>3, <1>5
  <2>3. OwnsWork(q)'
    BY <1>1, <1>2, <2>1, <2>2 DEF Facts, OwnsWork, RequestPcs
  <2>4. HasItAlone(q)'
    BY <1>1, <1>2, <1>3, <1>4, Statuses DEF Facts, HasItAlone, IsLive
  <2>5. ReadHolds(q)'
    BY <1>1, <1>2, <2>1, <2>2 DEF Facts, ReadHolds, RequestPcs, LoginPcs, WorkPcs
  <2> QED
    BY <2>3, <2>4, <2>5 DEF Facts
<1>8. Scanner \in Procs /\ Moves(Scanner)
  BY <1>2 DEF Procs, Moves
<1> QED
  BY <1>6, <1>7, <1>8, Assembled

LEMMA ScanRecovers ==
  ASSUME RecoveryInvariant, ScanStep
  PROVE  RecoveryInvariant'
<1>1. Scanner \in Procs /\ Typing /\ Typing' /\ \A q \in Procs : Facts(q)
  BY InvNow, ScanTyping DEF Procs
<1>2. CASE PassBegins
  BY <1>1, <1>2, Unmoved, NobodyMoves DEF PassBegins, dsm, files
<1>3. CASE TidyArchive
  <2> DEFINE r == proc[Scanner].req
  <2>1. /\ proc[Scanner].pc = "tidy_archive" /\ r \in Requests /\ IsTerminal(r)
    BY <1>1, <1>3, NamesNow DEF TidyArchive, Facts, OwnsWork, TidyPcs, RequestPcs, IsTerminal
  <2>2. journal' = journal \/ journal' = [journal EXCEPT ![r].place = "completed"]
    BY <1>3 DEF TidyArchive
  <2>3. \A x \in Requests : SameFile(x)
    BY <1>1, <2>1, <2>2, TypingNow DEF SameFile, Journal
  <2>4. QuietFiles /\ QuietAccounts
    BY <1>3, <2>3 DEF TidyArchive, dsm, QuietFiles, QuietAccounts
  <2>5. CASE Answer(Scanner, "error")
    BY <1>1, <2>4, <2>5, AnsweredStep
  <2>6. CASE Goto(Scanner, "tidy_unindex")
    <3>1. /\ Moves(Scanner) /\ proc'[Scanner].pc = "tidy_unindex" /\ proc'[Scanner].req = r
      BY <1>1, <2>1, <2>6, Went DEF AccountPcs, SystemPcs
    <3>2. Facts(Scanner)'
      BY <2>1, <2>3, <3>1 DEF SameFile, IsTerminal,
         Facts, OwnsWork, HasItAlone, ReadHolds, WorkPcs, ClosePcs, TidyPcs, LoginPcs
    <3> QED
      BY <1>1, <2>4, <3>1, <3>2, QuietStep
  <2> QED
    BY <1>3, <2>5, <2>6 DEF TidyArchive
<1>4. CASE TidyUnindex
  <2> DEFINE r == proc[Scanner].req
  <2>1. r \in Requests /\ IsTerminal(r)
    BY <1>1, <1>4, NamesNow DEF TidyUnindex, Facts, OwnsWork, TidyPcs, RequestPcs, IsTerminal
  <2>2. index' = index \/ index' = [index EXCEPT ![journal[r].user] = @ \ {r}]
    BY <1>4 DEF TidyUnindex
  <2>3. QuietFiles /\ QuietAccounts
    BY <1>1, <1>4, <2>1, <2>2, TypingNow DEF TidyUnindex, dsm, QuietFiles, QuietAccounts, SameFile
  <2> QED
    BY <1>1, <1>4, <2>3, AnsweredStep DEF TidyUnindex
<1>5. ASSUME NEW u \in Users, NEW r \in Requests, PassTakes(u, r)
      PROVE  RecoveryInvariant'
  <2>1. UNCHANGED <<account, secret, marker, journal, index>>
    BY <1>5 DEF PassTakes, dsm, files
  <2>2. CASE UNCHANGED proc
    BY <1>1, <2>1, <2>2, Unmoved, NobodyMoves
  <2>3. ASSUME IsLive(r), journal[r].user = u,
               proc' = [proc EXCEPT ![Scanner] =
                         [Idle EXCEPT !.pc = "lock_account", !.op = "scan", !.req = r, !.user = u]]
        PROVE  RecoveryInvariant'
    <3> DEFINE t == [Idle EXCEPT !.pc = "lock_account", !.op = "scan", !.req = r, !.user = u]
    <3>1. t.pc = "lock_account" /\ t.req = r /\ t.user = u
      BY DEF Idle
    <3>2. journal[r].status # "none"
      BY <2>3, Statuses DEF IsLive
    <3> QED
      BY <1>1, <2>1, <2>3, <3>1, <3>2, Begins
  <2>4. ASSUME IsTerminal(r), NEW s \in TidyPcs,
               proc' = [proc EXCEPT ![Scanner] =
                         [Idle EXCEPT !.pc = s, !.op = "tidy", !.req = r, !.user = u]]
        PROVE  RecoveryInvariant'
    <3>1. proc'[Scanner].pc = s /\ proc'[Scanner].req = r
          /\ \A q \in Procs : q # Scanner => proc'[q] = proc[q]
      BY <1>1, <2>4, TypingNow DEF Idle
    <3>2. Moves(Scanner)
      BY <2>4, <3>1 DEF Moves, AccountPcs, SystemPcs, TidyPcs
    <3>3. Facts(Scanner)'
      BY <2>1, <2>4, <3>1 DEF IsTerminal,
         Facts, OwnsWork, HasItAlone, ReadHolds, WorkPcs, ClosePcs, TidyPcs, LoginPcs
    <3> QED
      BY <1>1, <2>1, <3>2, <3>3, Unmoved, QuietStep
  <2> QED
    BY <1>5, <2>2, <2>3, <2>4 DEF PassTakes, TidyPcs
<1> QED
  BY <1>1, <1>2, <1>3, <1>4, <1>5, PassEndsRecovers DEF ScanStep

LEMMA EnvironmentRecovers ==
  ASSUME RecoveryInvariant, Environment
  PROVE  RecoveryInvariant'
<1>1. Typing /\ Typing' /\ DiskSound /\ \A q \in Procs : Facts(q)
  BY InvNow, EnvironmentTyping
<1>2. ASSUME NEW u \in Users, AdminEdits(u)
      PROVE  RecoveryInvariant'
  <2>1. UNCHANGED <<marker, journal, index, proc>> /\ SystemFree /\ account[u] \in Row
    BY <1>1, <1>2, TypingNow DEF AdminEdits, files
  <2>2. ASSUME NEW h \in Passwords \cup {NoPassword}, secret' = [secret EXCEPT ![u] = h],
               account'[u].hash = h, \A v \in Users : v # u => account'[v] = account[v]
        PROVE  RecoveryInvariant'
    <3>1. /\ secret'[u] = h /\ h \notin Requests
          /\ \A v \in Users : v # u => account'[v] = account[v] /\ secret'[v] = secret[v]
      BY <1>1, <2>2, TypingNow, ConstantsApart
    <3>2. DiskSound' /\ \A q \in Procs : proc'[q] = proc[q] => Facts(q)'
      BY <1>1, <2>1, <2>2, <3>1, PermanentSet
    <3>3. Scanner \in Procs /\ Moves(Scanner)
      BY <2>1 DEF Procs, Moves
    <3> QED
      BY <1>1, <2>1, <3>2, <3>3, Assembled
  <2>3. ASSUME UNCHANGED secret, ~account'[u].exists,
               \A v \in Users : v # u => account'[v] = account[v]
        PROVE  RecoveryInvariant'
    <3>1. DiskSound' /\ \A q \in Procs : proc'[q] = proc[q] => Facts(q)'
      BY <1>1, <2>1, <2>3, PermanentSet
    <3>2. Scanner \in Procs /\ Moves(Scanner)
      BY <2>1 DEF Procs, Moves
    <3> QED
      BY <1>1, <2>1, <3>1, <3>2, Assembled
  <2>4. ASSUME UNCHANGED secret, NEW new \in Row, account' = [account EXCEPT ![u] = new],
               new.exists = account[u].exists, new.uid = account[u].uid, new.hash = account[u].hash
        PROVE  RecoveryInvariant'
    <3>1. QuietFiles /\ QuietAccounts
      BY <1>1, <2>1, <2>4, TypingNow DEF QuietFiles, QuietAccounts, SameFile
    <3> QED
      BY <1>1, <2>1, <3>1, NobodyMoves
  <2>5. CASE \E h \in Passwords \cup {NoPassword} :
               /\ account' = [account EXCEPT ![u].hash = h]
               /\ secret'  = [secret EXCEPT ![u] = h]
    <3>1. PICK h \in Passwords \cup {NoPassword} :
            /\ account' = [account EXCEPT ![u].hash = h]
            /\ secret'  = [secret EXCEPT ![u] = h]
      BY <2>5
    <3>2. account'[u].hash = h /\ \A v \in Users : v # u => account'[v] = account[v]
      BY <1>1, <3>1, TypingNow DEF Row
    <3> QED
      BY <2>2, <3>1, <3>2
  <2>6. CASE \E h \in Passwords : NewRow(u, h) /\ secret' = [secret EXCEPT ![u] = h]
    <3>1. PICK h \in Passwords : NewRow(u, h) /\ secret' = [secret EXCEPT ![u] = h]
      BY <2>6
    <3>2. account'[u].hash = h /\ \A v \in Users : v # u => account'[v] = account[v]
      BY <1>1, <2>1, <3>1, TypingNow DEF NewRow
    <3> QED
      BY <2>2, <3>1, <3>2
  <2>7. CASE account' = [account EXCEPT ![u] = [account[u] EXCEPT !.exists = FALSE]]
             /\ UNCHANGED secret
    BY <1>1, <2>1, <2>3, <2>7, TypingNow DEF Row
  <2>8. ASSUME NEW new \in {[account[u] EXCEPT !.locked = ~@], [account[u] EXCEPT !.disabled = ~@],
                            [account[u] EXCEPT !.admin = ~@]}
        PROVE  /\ new \in Row
               /\ new.exists = account[u].exists /\ new.uid = account[u].uid
               /\ new.hash = account[u].hash
    <3>1. new \in Row
      BY <2>1, <2>8, RowMoves
    <3>2. new.exists = account[u].exists /\ new.uid = account[u].uid /\ new.hash = account[u].hash
      BY <2>1, <2>8 DEF Row
    <3> QED
      BY <3>1, <3>2
  <2>9. CASE \E new \in {[account[u] EXCEPT !.locked = ~@], [account[u] EXCEPT !.disabled = ~@],
                          [account[u] EXCEPT !.admin = ~@]} :
               account' = [account EXCEPT ![u] = new] /\ UNCHANGED secret
    BY <2>4, <2>8, <2>9
  <2> QED
    BY <1>2, <2>5, <2>6, <2>7, <2>9 DEF AdminEdits
<1>3. ASSUME NEW r \in Requests, TimeRunsOut(r) \/ BackoffEnds(r)
      PROVE  RecoveryInvariant'
  BY <1>1, <1>3, Unmoved, NobodyMoves DEF TimeRunsOut, BackoffEnds, dsm, files
<1>4. CASE Killed
  <2>1. UNCHANGED <<account, secret, marker, journal, index>>
    BY <1>4 DEF Killed, dsm, files
  <2>2. \A q \in Procs : proc'[q].pc = "idle"
    BY <1>4 DEF Killed, Idle
  <2>3. DiskSound'
    BY <1>1, <2>1, Unmoved, QuietDisk
  <2>4. StepsSound' /\ Exclusion'
    BY <2>2 DEF StepsSound, Exclusion, OwnsWork, HasItAlone, ReadHolds, WorkPcs, ClosePcs, TidyPcs,
                LoginPcs, AccountPcs, SystemPcs
  <2> QED
    BY <1>1, <2>3, <2>4 DEF RecoveryInvariant, Typing
<1> QED
  BY <1>2, <1>3, <1>4 DEF Environment

-----------------------------------------------------------------------------
(* The theorems *)

LEMMA InitRecovers == Init => RecoveryInvariant
<1> SUFFICES ASSUME Init PROVE RecoveryInvariant
  OBVIOUS
<1>1. Typing
  BY InitTyping
<1>2. \A p \in Procs : proc[p].pc = "idle"
  BY DEF Init, Idle
<1>3. StepsSound /\ Exclusion
  BY <1>2 DEF StepsSound, Exclusion, OwnsWork, HasItAlone, ReadHolds, WorkPcs, ClosePcs, TidyPcs,
              LoginPcs, AccountPcs, SystemPcs
<1>4. /\ \A r \in Requests : journal[r].status = "none" /\ journal[r].user = None
      /\ \A u \in Users : account[u].hash = secret[u] /\ account[u].hash \in Passwords
  BY DEF Init, NoJournal
<1>5. DiskSound
  BY <1>4, Statuses, ConstantsApart DEF DiskSound, JournalsSound, OneLeasePerAccount,
     LentIsRecoverable, PermanentKept, ResetExcludesLease, IsLive
<1> QED
  BY <1>1, <1>3, <1>5 DEF RecoveryInvariant, Typing

LEMMA StutterRecovers ==
  ASSUME RecoveryInvariant, UNCHANGED vars
  PROVE  RecoveryInvariant'
<1>1. Typing' /\ UNCHANGED <<account, secret, marker, journal, index, proc>>
  BY InvNow, StutterTyping DEF vars
<1> QED
  BY <1>1, Unmoved, NobodyMoves

LEMMA NextRecovers == RecoveryInvariant /\ [Next]_vars => RecoveryInvariant'
BY CallRecovers, ThreadRecovers, ScanRecovers, EnvironmentRecovers, StutterRecovers DEF Next

\* The recovery invariant holds throughout: locks exclude, every task finds what it
\* relies on, and the disk is sound whenever the Helper may be killed.
THEOREM Recovery == Spec => []RecoveryInvariant
BY InitRecovers, NextRecovers, PTL DEF Spec

\* While a temporary hash stands in shadow, what restores it is on disk.
THEOREM LentStaysRecoverable == Spec => []LentIsRecoverable
BY Recovery, PTL DEF RecoveryInvariant, DiskSound

\* No permanent password is lost or rolled back.
THEOREM PermanentStaysKept == Spec => []PermanentKept
BY Recovery, PTL DEF RecoveryInvariant, DiskSound

\* Two logins never share an account.
THEOREM LeaseStaysSingle == Spec => []OneLeasePerAccount
BY Recovery, PTL DEF RecoveryInvariant, DiskSound

\* No temporary hash stands in shadow while a reset is unconfirmed.
THEOREM ResetStaysExclusive == Spec => []ResetExcludesLease
BY Recovery, PTL DEF RecoveryInvariant, DiskSound

-----------------------------------------------------------------------------
(* What each step does to the tasks and to the records of the logins *)

\* A step of p leaves the other tasks alone, and p goes on with its own call or is
\* done with it.
GoesOn(p) ==
  /\ proc'[p].op = proc[p].op /\ proc'[p].user = proc[p].user
  /\ \/ proc'[p].req = proc[p].req
     \/ proc[p].op \in {"disable", "revoke"} /\ proc'[p].pc = "mark"
  /\ proc'[p].pc = "native" => proc[p].op \in {"disable", "provision"}
  /\ proc'[p].pc = "index" => ReadOriginal(p) /\ MayPrepare(p)
  /\ proc'[p].pc = "journal" => proc[p].pc = "index"
  /\ proc'[p].pc = "swap" => proc[p].pc = "journal" /\ journal' = [journal EXCEPT ![proc[p].req] = Material(p)]
  /\ proc'[p].pc = "activate" => SwapIn(p)

Stepped(p) == /\ \A q \in Procs : q # p => proc'[q] = proc[q]
              /\ proc'[p] = Idle \/ GoesOn(p)

LEMMA AnswerSteps ==
  ASSUME Typing, NEW p \in Procs, NEW a, Answer(p, a)
  PROVE  Stepped(p)
BY TypingNow DEF Answer, Stepped

LEMMA GotoSteps ==
  ASSUME Typing, NEW p \in Procs, proc[p].pc # "idle", NEW s, Goto(p, s),
         s = "native" => proc[p].op \in {"disable", "provision"},
         s = "journal" => proc[p].pc = "index",
         s = "swap" => proc[p].pc = "journal" /\ journal' = [journal EXCEPT ![proc[p].req] = Material(p)],
         s = "activate" => SwapIn(p), s # "index"
  PROVE  Stepped(p)
<1>1. /\ proc'[p].pc = s /\ proc'[p].op = proc[p].op /\ proc'[p].user = proc[p].user
      /\ proc'[p].req = proc[p].req /\ \A q \in Procs : q # p => proc'[q] = proc[q]
  BY Went
<1> QED
  BY <1>1 DEF Stepped, GoesOn

\* A field of a task other than its step, its request and its account is set too.
LEMMA EditSteps ==
  ASSUME Typing, NEW p \in Procs, NEW t \in Task, proc' = [proc EXCEPT ![p] = t],
         t.op = proc[p].op, t.user = proc[p].user,
         t.req = proc[p].req \/ (proc[p].op \in {"disable", "revoke"} /\ t.pc = "mark"),
         t.pc \notin {"native", "index", "journal", "swap", "activate"}
  PROVE  Stepped(p)
<1>1. proc'[p] = t /\ \A q \in Procs : q # p => proc'[q] = proc[q]
  BY TypingNow
<1> QED
  BY <1>1 DEF Stepped, GoesOn

LEMMA FailSteps ==
  ASSUME Typing, NEW p \in Procs, proc[p].pc # "idle", RestoreFails(p) \/ RestoreEnds(p)
  PROVE  Stepped(p)
<1>1. CASE Goto(p, "record")
  BY <1>1, GotoSteps
<1>2. CASE Goto(p, "native") /\ proc[p].op = "disable"
  BY <1>2, GotoSteps
<1>3. CASE Answer(p, "error") \/ Answer(p, "session")
  BY <1>3, AnswerSteps
<1> QED
  BY <1>1, <1>2, <1>3 DEF RestoreFails, RestoreEnds

LEMMA LoginSteps ==
  ASSUME Typing, NEW p \in Procs, LoginStep(p)
  PROVE  Stepped(p)
<1>1. CASE LoginRefused(p) \/ LoginRepeated(p)
  BY <1>1, AnswerSteps DEF LoginRefused, LoginRepeated
<1>2. CASE LoginEnters(p)
  BY <1>2, GotoSteps DEF LoginEnters
<1>3. CASE ReadOriginal(p)
  <2>1. CASE Answer(p, "error")
    BY <2>1, AnswerSteps
  <2>2. CASE /\ MayPrepare(p)
             /\ proc' = [proc EXCEPT ![p] = [@ EXCEPT !.pc = "index",
                                                       !.original = account[proc[p].user].hash]]
    <3>1. proc[p] \in Task
      BY TypingNow DEF NamedTask
    <3>2. /\ proc'[p].pc = "index" /\ proc'[p].op = proc[p].op /\ proc'[p].user = proc[p].user
          /\ proc'[p].req = proc[p].req /\ \A q \in Procs : q # p => proc'[q] = proc[q]
      BY <2>2, <3>1, TypingNow DEF Task
    <3> QED
      BY <1>3, <2>2, <3>2 DEF Stepped, GoesOn
  <2> QED
    BY <1>3, <2>1, <2>2 DEF ReadOriginal
<1>4. CASE AddToIndex(p)
  <2>1. proc[p].pc = "index" /\ (Goto(p, "journal") \/ Answer(p, "error"))
    BY <1>4 DEF AddToIndex
  <2> QED
    BY <2>1, GotoSteps, AnswerSteps
<1>5. CASE WriteJournal(p)
  <2>1. /\ proc[p].pc = "journal"
        /\ \/ Goto(p, "swap") /\ journal' = [journal EXCEPT ![proc[p].req] = Material(p)]
           \/ Answer(p, "error")
    BY <1>5 DEF WriteJournal, Lands
  <2> QED
    BY <2>1, GotoSteps, AnswerSteps
<1>6. CASE SwapIn(p)
  <2>1. proc[p].pc = "swap" /\ (Goto(p, "activate") \/ Goto(p, "undo"))
    BY <1>6 DEF SwapIn
  <2> QED
    BY <1>6, <2>1, GotoSteps
<1>7. CASE Activate(p)
  <2>1. /\ proc[p].pc = "activate" /\ proc[p] \in Task
        /\ \/ Goto(p, "undo") \/ Goto(p, "dsm_login") \/ Answer(p, "temp")
           \/ proc' = [proc EXCEPT ![p] = [@ EXCEPT !.pc = "undo", !.ok = TRUE]]
    BY <1>7, TypingNow DEF Activate, NamedTask
  <2>2. CASE proc' = [proc EXCEPT ![p] = [@ EXCEPT !.pc = "undo", !.ok = TRUE]]
    <3> DEFINE t == [proc[p] EXCEPT !.pc = "undo", !.ok = TRUE]
    <3>1. t \in Task /\ t.op = proc[p].op /\ t.user = proc[p].user /\ t.req = proc[p].req /\ t.pc = "undo"
      BY <2>1 DEF Task, Pcs, AccountPcs
    <3>2. proc' = [proc EXCEPT ![p] = t]
      BY <2>2
    <3> HIDE DEF t
    <3> QED
      BY <3>1, <3>2, EditSteps
  <2> QED
    BY <2>1, <2>2, GotoSteps, AnswerSteps
<1>8. CASE \E success \in BOOLEAN : DsmLogin(p, success)
  <2>1. PICK success \in BOOLEAN : DsmLogin(p, success)
    BY <1>8
  <2> DEFINE t == [proc[p] EXCEPT !.pc = "restore", !.ok = success]
  <2>2. proc[p] \in Task /\ proc' = [proc EXCEPT ![p] = t]
    BY <2>1, TypingNow DEF DsmLogin, NamedTask
  <2>3. t \in Task /\ t.op = proc[p].op /\ t.user = proc[p].user /\ t.req = proc[p].req /\ t.pc = "restore"
    BY <2>2 DEF Task, Pcs, AccountPcs
  <2> HIDE DEF t
  <2> QED
    BY <2>2, <2>3, EditSteps
<1> QED
  BY <1>1, <1>2, <1>3, <1>4, <1>5, <1>6, <1>7, <1>8 DEF LoginStep

LEMMA RestoreSteps ==
  ASSUME Typing, NEW p \in Procs, RestoreStep(p)
  PROVE  Stepped(p)
<1>1. CASE RestoreEnters(p)
  <2>1. proc[p].pc = "lock_account" /\ (Goto(p, "mark") \/ Answer(p, "error"))
    BY <1>1 DEF RestoreEnters
  <2> QED
    BY <2>1, GotoSteps, AnswerSteps
<1>2. CASE MarkRestoring(p)
  <2>1. proc[p].pc = "mark" /\ (Goto(p, "restore") \/ RestoreFails(p))
    BY <1>2 DEF MarkRestoring
  <2> QED
    BY <2>1, GotoSteps, FailSteps
<1>3. CASE RestoreRefused(p)
  BY <1>3, FailSteps DEF RestoreRefused, MayRestore
<1>4. ASSUME NEW v \in Terminal, MayRestore(p),
             proc' = [proc EXCEPT ![p] = [@ EXCEPT !.pc = "finish", !.verdict = v]]
      PROVE  Stepped(p)
  <2> DEFINE t == [proc[p] EXCEPT !.pc = "finish", !.verdict = v]
  <2>1. proc[p] \in Task /\ proc' = [proc EXCEPT ![p] = t]
    BY <1>4, TypingNow DEF NamedTask
  <2>2. t \in Task /\ t.op = proc[p].op /\ t.user = proc[p].user /\ t.req = proc[p].req /\ t.pc = "finish"
    BY <2>1 DEF Task, Pcs, AccountPcs
  <2> HIDE DEF t
  <2> QED
    BY <2>1, <2>2, EditSteps
<1>5. CASE RestoreKeeps(p)
  BY <1>4, <1>5 DEF RestoreKeeps, Terminal
<1>6. CASE RestoreSwaps(p)
  <2>1. /\ MayRestore(p)
        /\ \/ proc' = [proc EXCEPT ![p] = [@ EXCEPT !.pc = "finish", !.verdict = "restored"]]
           \/ RestoreFails(p)
    BY <1>6 DEF RestoreSwaps
  <2>2. CASE RestoreFails(p)
    BY <2>1, <2>2, FailSteps DEF MayRestore
  <2> QED
    BY <1>4, <2>1, <2>2 DEF Terminal
<1>7. CASE FinishJournal(p)
  <2>1. proc[p].pc = "finish" /\ (Goto(p, "archive") \/ RestoreFails(p))
    BY <1>7 DEF FinishJournal
  <2> QED
    BY <2>1, GotoSteps, FailSteps
<1>8. CASE Archive(p)
  <2>1. proc[p].pc = "archive" /\ (Goto(p, "unindex") \/ RestoreFails(p))
    BY <1>8 DEF Archive
  <2> QED
    BY <2>1, GotoSteps, FailSteps
<1>9. CASE RemoveFromIndex(p)
  BY <1>9, FailSteps DEF RemoveFromIndex
<1>10. CASE RecordFailure(p)
  <2>1. /\ proc[p].pc = "record"
        /\ \/ Goto(p, "native") /\ proc[p].op = "disable"
           \/ Answer(p, "error")
    BY <1>10 DEF RecordFailure
  <2> QED
    BY <2>1, GotoSteps, AnswerSteps
<1> QED
  BY <1>1, <1>2, <1>3, <1>5, <1>6, <1>7, <1>8, <1>9, <1>10 DEF RestoreStep

LEMMA AccountSteps ==
  ASSUME Typing, NEW p \in Procs, AccountStep(p)
  PROVE  Stepped(p)
<1>1. ASSUME proc[p].op \in {"disable", "revoke"}, NEW r \in Requests,
             proc' = [proc EXCEPT ![p] = [@ EXCEPT !.pc = "mark", !.req = r]]
      PROVE  Stepped(p)
  <2> DEFINE t == [proc[p] EXCEPT !.pc = "mark", !.req = r]
  <2>1. proc[p] \in Task /\ proc' = [proc EXCEPT ![p] = t]
    BY <1>1, TypingNow DEF NamedTask
  <2>2. t \in Task /\ t.op = proc[p].op /\ t.user = proc[p].user /\ t.pc = "mark"
    BY <2>1 DEF Task, Pcs, AccountPcs
  <2> HIDE DEF t
  <2> QED
    BY <1>1, <2>1, <2>2, EditSteps
<1>2. \A u \in Users : \A r \in Leases(u) : r \in Requests
  BY TypingNow DEF Leases
<1>3. proc[p].pc # "idle" => proc[p].user \in Users
  BY NamesNow
<1>4. CASE MutationEnters(p)
  <2>1. /\ proc[p].pc = "lock_account" /\ proc[p].op \in {"disable", "provision", "reset"}
        /\ \/ Answer(p, "error")
           \/ Goto(p, IF proc[p].op = "reset" THEN "reset_mark" ELSE "native")
           \/ /\ proc[p].op = "disable"
              /\ \E r \in Leases(proc[p].user) :
                   proc' = [proc EXCEPT ![p] = [@ EXCEPT !.pc = "mark", !.req = r]]
    BY <1>4 DEF MutationEnters
  <2>2. CASE Goto(p, IF proc[p].op = "reset" THEN "reset_mark" ELSE "native")
    BY <2>1, <2>2, GotoSteps
  <2>3. CASE /\ proc[p].op = "disable"
             /\ \E r \in Leases(proc[p].user) :
                  proc' = [proc EXCEPT ![p] = [@ EXCEPT !.pc = "mark", !.req = r]]
    BY <1>1, <1>2, <1>3, <2>1, <2>3
  <2> QED
    BY <2>1, <2>2, <2>3, AnswerSteps
<1>5. CASE Native(p)
  BY <1>5, AnswerSteps DEF Native
<1>6. CASE ResetMark(p)
  <2>1. proc[p].pc = "reset_mark" /\ (Goto(p, "setpw") \/ Answer(p, "error"))
    BY <1>6 DEF ResetMark
  <2> QED
    BY <2>1, GotoSteps, AnswerSteps
<1>7. CASE SetPassword(p)
  <2>1. proc[p].pc = "setpw" /\ (Goto(p, "reset_done") \/ Answer(p, "error"))
    BY <1>7 DEF SetPassword
  <2> QED
    BY <2>1, GotoSteps, AnswerSteps
<1>8. CASE ResetDone(p)
  BY <1>8, AnswerSteps DEF ResetDone
<1>9. CASE PolicyChanges(p)
  <2>1. /\ proc[p].pc = "lock_account" /\ proc[p].op \in PolicyOps
        /\ \/ Answer(p, "error")
           \/ /\ proc[p].op # "authorize"
              /\ \E r \in Leases(proc[p].user) :
                   proc' = [proc EXCEPT ![p] = [@ EXCEPT !.pc = "mark", !.req = r]]
    BY <1>9 DEF PolicyChanges
  <2>2. CASE Answer(p, "error")
    BY <2>2, AnswerSteps
  <2>3. CASE /\ proc[p].op # "authorize"
             /\ \E r \in Leases(proc[p].user) :
                  proc' = [proc EXCEPT ![p] = [@ EXCEPT !.pc = "mark", !.req = r]]
    BY <1>1, <1>2, <1>3, <2>1, <2>3 DEF PolicyOps
  <2> QED
    BY <2>1, <2>2, <2>3
<1> QED
  BY <1>4, <1>5, <1>6, <1>7, <1>8, <1>9 DEF AccountStep

LEMMA ThreadSteps ==
  ASSUME Typing, NEW p \in Procs, ThreadStep(p)
  PROVE  Stepped(p)
<1>1. CASE AccountBusy(p)
  BY <1>1, AnswerSteps DEF AccountBusy
<1>2. CASE SystemBusy(p)
  <2>1. proc[p].pc # "idle" /\ (RestoreFails(p) \/ Answer(p, "error"))
    BY <1>2 DEF SystemBusy
  <2> QED
    BY <2>1, FailSteps, AnswerSteps
<1> QED
  BY <1>1, <1>2, LoginSteps, RestoreSteps, AccountSteps DEF ThreadStep

\* How a step of p may move the record of request r: the one it works on, along the
\* life of a login, and never out of a final verdict.
StatusMoves(p, r) ==
  \/ journal'[r].status = journal[r].status
  \/ /\ r = proc[p].req
     /\ \/ proc[p].pc = "journal" /\ journal[r].status = "none"
           /\ journal'[r].status \in {"pending", "pending_browser"}
        \/ proc[p].pc = "activate" /\ journal[r].status \in Live
           /\ journal'[r].status = "active_browser" /\ proc[p].op = "browser"
        \/ proc[p].pc = "mark" /\ journal[r].status \in Live
           /\ journal'[r].status = "restoring_browser"
        \/ proc[p].pc = "finish" /\ journal[r].status \in Live
           /\ journal'[r].status \in Terminal

\* An expired record stays expired and a failed one failed; a request starts afresh
\* only while it has no record.
MarksGrow(r) ==
  /\ r \in expired => r \in expired' \/ journal[r].status = "none"
  /\ journal[r].failed => journal'[r].failed \/ journal[r].status = "none"

LEMMA RecordUnmoved ==
  ASSUME UNCHANGED <<journal, expired>>, NEW p, NEW r
  PROVE  StatusMoves(p, r) /\ MarksGrow(r)
BY DEF StatusMoves, MarksGrow

LEMMA JournalMovesRecords ==
  ASSUME RecoveryInvariant, NEW p \in Procs, WriteJournal(p), NEW r \in Requests
  PROVE  StatusMoves(p, r) /\ MarksGrow(r)
<1> DEFINE s == proc[p].req
<1>1. /\ Typing /\ ReadHolds(p) /\ s \in Requests /\ proc[p].pc = "journal"
  BY InvNow, NamesNow DEF WriteJournal, Facts, RequestPcs, LoginPcs
<1>2. journal[s].status = "none"
  BY <1>1 DEF ReadHolds
<1>3. Material(p).status \in {"pending", "pending_browser"}
  BY DEF Material
<1>4. journal' = journal \/ journal' = [journal EXCEPT ![s] = Material(p)]
  BY DEF WriteJournal
<1>5. \/ journal'[r] = journal[r]
      \/ r = s /\ journal'[r] = Material(p)
  BY <1>1, <1>4, TypingNow
<1>6. StatusMoves(p, r)
  BY <1>1, <1>2, <1>3, <1>5 DEF StatusMoves
<1>7. MarksGrow(r)
  BY <1>1, <1>2, <1>5 DEF MarksGrow, WriteJournal
<1> QED
  BY <1>6, <1>7

\* A step that sets the status of its own live record.
LEMMA StatusSet ==
  ASSUME Typing, NEW s \in Requests, NEW v, NEW r \in Requests,
         journal' = journal \/ journal' = [journal EXCEPT ![s].status = v]
  PROVE  /\ journal'[r].failed = journal[r].failed
         /\ journal'[r].status = journal[r].status \/ (r = s /\ journal'[r].status = v)
BY TypingNow DEF Journal

LEMMA LoginMovesRecords ==
  ASSUME RecoveryInvariant, NEW p \in Procs, LoginStep(p), NEW r \in Requests
  PROVE  StatusMoves(p, r) /\ MarksGrow(r)
<1>1. CASE LoginRefused(p) \/ LoginRepeated(p) \/ LoginEnters(p) \/ ReadOriginal(p)
  <2>1. ASSUME LoginRefused(p) \/ LoginRepeated(p) PROVE UNCHANGED <<files, clock>>
    BY <2>1 DEF LoginRefused, LoginRepeated
  <2>2. ASSUME LoginEnters(p) \/ ReadOriginal(p) PROVE UNCHANGED <<files, clock>>
    BY <2>2 DEF LoginEnters, ReadOriginal
  <2> QED
    BY <1>1, <2>1, <2>2, RecordUnmoved DEF files, clock
<1>2. CASE AddToIndex(p) \/ SwapIn(p) \/ \E success \in BOOLEAN : DsmLogin(p, success)
  <2>1. UNCHANGED <<journal, clock>>
    BY <1>2 DEF AddToIndex, SwapIn, DsmLogin, files
  <2> QED
    BY <2>1, RecordUnmoved DEF clock
<1>3. CASE Activate(p)
  <2> DEFINE s == proc[p].req
  <2>1. /\ proc[p].pc = "activate" /\ UNCHANGED expired
        /\ journal' = journal \/ (proc[p].op = "browser"
                                  /\ journal' = [journal EXCEPT ![s].status = "active_browser"])
    BY <1>3 DEF Activate, clock
  <2>2. Typing /\ s \in Requests /\ journal[s].status \in Live
    BY <2>1, InvNow, AtWork DEF WorkPcs
  <2>3. /\ journal'[r].failed = journal[r].failed
        /\ \/ journal'[r].status = journal[r].status
           \/ r = s /\ journal'[r].status = "active_browser" /\ proc[p].op = "browser"
    BY <2>1, <2>2, StatusSet
  <2>4. StatusMoves(p, r)
    BY <2>1, <2>2, <2>3 DEF StatusMoves
  <2>5. MarksGrow(r)
    BY <2>1, <2>3 DEF MarksGrow
  <2> QED
    BY <2>4, <2>5
<1> QED
  BY <1>1, <1>2, <1>3, JournalMovesRecords DEF LoginStep

LEMMA RestoreMovesRecords ==
  ASSUME RecoveryInvariant, NEW p \in Procs, RestoreStep(p), NEW r \in Requests
  PROVE  StatusMoves(p, r) /\ MarksGrow(r)
<1> DEFINE s == proc[p].req
<1>1. CASE RestoreEnters(p) \/ RestoreRefused(p) \/ RestoreKeeps(p)
  BY <1>1, RecordUnmoved DEF RestoreEnters, RestoreRefused, RestoreKeeps, files, clock
<1>2. CASE RestoreSwaps(p) \/ RemoveFromIndex(p)
  BY <1>2, RecordUnmoved DEF RestoreSwaps, RemoveFromIndex, files, clock
<1>3. CASE MarkRestoring(p)
  <2>1. /\ proc[p].pc = "mark" /\ UNCHANGED expired
        /\ journal' = journal \/ journal' = [journal EXCEPT ![s].status = "restoring_browser"]
    BY <1>3 DEF MarkRestoring, clock, files
  <2>2. Typing /\ s \in Requests /\ journal[s].status \in Live
    BY <2>1, InvNow, AtWork DEF WorkPcs
  <2>3. /\ journal'[r].failed = journal[r].failed
        /\ \/ journal'[r].status = journal[r].status
           \/ r = s /\ journal'[r].status = "restoring_browser"
    BY <2>1, <2>2, StatusSet
  <2>4. StatusMoves(p, r)
    BY <2>1, <2>2, <2>3 DEF StatusMoves
  <2>5. MarksGrow(r)
    BY <2>1, <2>3 DEF MarksGrow
  <2> QED
    BY <2>4, <2>5
<1>4. CASE FinishJournal(p)
  <2>1. /\ proc[p].pc = "finish" /\ UNCHANGED expired
        /\ journal' = journal \/ journal' = [journal EXCEPT ![s].status = proc[p].verdict]
    BY <1>4 DEF FinishJournal
  <2>2. Typing /\ s \in Requests /\ journal[s].status \in Live /\ proc[p].verdict \in Terminal
    BY <2>1, InvNow, AtWork, NamesNow DEF WorkPcs
  <2>3. /\ journal'[r].failed = journal[r].failed
        /\ \/ journal'[r].status = journal[r].status
           \/ r = s /\ journal'[r].status = proc[p].verdict
    BY <2>1, <2>2, StatusSet
  <2>4. StatusMoves(p, r)
    BY <2>1, <2>2, <2>3 DEF StatusMoves
  <2>5. MarksGrow(r)
    BY <2>1, <2>3 DEF MarksGrow
  <2> QED
    BY <2>4, <2>5
<1>5. CASE Archive(p) \/ RecordFailure(p)
  <2>1. /\ UNCHANGED expired /\ Typing
        /\ \/ journal' = journal
           \/ journal' = [journal EXCEPT ![s].place = "completed"]
           \/ journal' = [journal EXCEPT ![s].failed = TRUE]
    BY <1>5, InvNow DEF Archive, RecordFailure, clock
  <2>2. journal'[r].status = journal[r].status /\ (journal[r].failed => journal'[r].failed)
    BY <2>1, TypingNow DEF Journal
  <2> QED
    BY <2>1, <2>2 DEF StatusMoves, MarksGrow
<1> QED
  BY <1>1, <1>2, <1>3, <1>4, <1>5 DEF RestoreStep

LEMMA ThreadMovesRecords ==
  ASSUME RecoveryInvariant, NEW p \in Procs, ThreadStep(p), NEW r \in Requests
  PROVE  StatusMoves(p, r) /\ MarksGrow(r)
<1>1. CASE AccountBusy(p) \/ SystemBusy(p)
  <2>1. UNCHANGED <<files, clock>>
    BY <1>1 DEF AccountBusy, SystemBusy
  <2> QED
    BY <2>1, RecordUnmoved DEF files, clock
<1>2. CASE AccountStep(p)
  <2>1. ASSUME MutationEnters(p) \/ PolicyChanges(p) PROVE UNCHANGED <<files, clock>>
    BY <2>1 DEF MutationEnters, PolicyChanges
  <2>2. ASSUME Native(p) PROVE UNCHANGED <<files, clock>>
    BY <2>2 DEF Native
  <2>3. ASSUME ResetMark(p) \/ SetPassword(p) \/ ResetDone(p) PROVE UNCHANGED <<files, clock>>
    BY <2>3 DEF ResetMark, SetPassword, ResetDone
  <2>4. UNCHANGED <<files, clock>>
    BY <1>2, <2>1, <2>2, <2>3 DEF AccountStep
  <2> QED
    BY <2>4, RecordUnmoved DEF files, clock
<1> QED
  BY <1>1, <1>2, LoginMovesRecords, RestoreMovesRecords DEF ThreadStep

\* Between a login's reading of the row and its activation nobody else works on its
\* record, for they would need the account lock.
LEMMA WorksAlone ==
  ASSUME RecoveryInvariant, NEW p \in Procs, NEW q \in Procs, q # p,
         proc[q].pc \in {"swap", "activate"}, StatusMoves(p, proc[q].req)
  PROVE  journal'[proc[q].req].status = journal[proc[q].req].status
<1> DEFINE r == proc[q].req
<1>1. journal[r].user = proc[q].user /\ journal[r].status \in Live /\ proc[q].pc \in AccountPcs
  BY AtWork DEF WorkPcs
<1>2. CASE proc[p].pc \in {"activate", "mark", "finish"} /\ r = proc[p].req
  <2>1. journal[r].user = proc[p].user /\ proc[p].pc \in AccountPcs
    BY <1>2, AtWork DEF WorkPcs
  <2> QED
    BY <1>1, <2>1, InvNow DEF Exclusion
<1> QED
  BY <1>1, <1>2, Statuses DEF StatusMoves

-----------------------------------------------------------------------------
(* Threads keep the order of the steps *)

\* What a step of p may do to the shadow rows: lend one, give one back, set or lift an
\* expiry mark, create an account or set a permanent password.
Lends(p) ==
  /\ proc[p].pc = "swap" /\ UNCHANGED secret
  /\ account[proc[p].user].exists
  /\ account' = [account EXCEPT ![proc[p].user].hash = proc[p].req]

GivesBack(p) ==
  LET r == proc[p].req
      u == journal[r].user
  IN /\ MayRestore(p) /\ MayTouch(p) /\ ShowsTemporary(r) /\ UNCHANGED secret
     /\ account' = [account EXCEPT ![u].hash = journal[r].original]

MarksAccount(p) ==
  /\ proc[p].pc = "native" /\ UNCHANGED secret
  /\ account' = [account EXCEPT ![proc[p].user].disabled = (proc[p].op = "disable")]

Creates(u) ==
  /\ ~account[u].exists
  /\ \E h \in Passwords : NewRow(u, h) /\ secret' = [secret EXCEPT ![u] = h]

SetsHash(u) ==
  /\ account[u].exists
  /\ \E h \in Passwords \cup {NoPassword} :
       account' = [account EXCEPT ![u].hash = h] /\ secret' = [secret EXCEPT ![u] = h]

RowsMove(p) ==
  \/ UNCHANGED <<account, secret>>
  \/ Lends(p) \/ GivesBack(p) \/ MarksAccount(p)
  \/ Creates(proc[p].user) /\ proc[p].user \in Users
  \/ SetsHash(proc[p].user) /\ proc[p].user \in Users

LEMMA LoginMovesRows ==
  ASSUME NEW p \in Procs, LoginStep(p)
  PROVE  RowsMove(p)
<1>1. CASE SwapIn(p)
  <2>1. \/ UNCHANGED <<account, secret>>
        \/ Lends(p)
    BY <1>1 DEF SwapIn, Lends
  <2> QED
    BY <2>1 DEF RowsMove
<1>2. ASSUME LoginRefused(p) \/ LoginRepeated(p) \/ LoginEnters(p) \/ ReadOriginal(p)
      PROVE  UNCHANGED dsm
  BY <1>2 DEF LoginRefused, LoginRepeated, LoginEnters, ReadOriginal
<1>3. ASSUME AddToIndex(p) \/ WriteJournal(p) \/ Activate(p)
      PROVE  UNCHANGED dsm
  BY <1>3 DEF AddToIndex, WriteJournal, Activate
<1>4. ASSUME NEW success \in BOOLEAN, DsmLogin(p, success)
      PROVE  UNCHANGED dsm
  BY <1>4 DEF DsmLogin
<1> QED
  BY <1>1, <1>2, <1>3, <1>4 DEF LoginStep, RowsMove, dsm

LEMMA RestoreMovesRows ==
  ASSUME NEW p \in Procs, RestoreStep(p)
  PROVE  RowsMove(p)
<1>1. CASE RestoreSwaps(p)
  <2> DEFINE r == proc[p].req
             u == journal[r].user
  <2>1. /\ MayRestore(p) /\ MayTouch(p) /\ ShowsTemporary(r) /\ UNCHANGED secret
        /\ account' = account \/ account' = [account EXCEPT ![u] = RestoredRow(@, r)]
    BY <1>1 DEF RestoreSwaps
  <2>2. account' = account \/ account' = [account EXCEPT ![u].hash = journal[r].original]
    BY <2>1 DEF RestoredRow
  <2> QED
    BY <2>1, <2>2 DEF RowsMove, GivesBack
<1>2. ASSUME RestoreEnters(p) \/ RestoreRefused(p) \/ RestoreKeeps(p) \/ MarkRestoring(p)
      PROVE  UNCHANGED dsm
  BY <1>2 DEF RestoreEnters, RestoreRefused, RestoreKeeps, MarkRestoring
<1>3. ASSUME FinishJournal(p) \/ Archive(p) \/ RemoveFromIndex(p) \/ RecordFailure(p)
      PROVE  UNCHANGED dsm
  BY <1>3 DEF FinishJournal, Archive, RemoveFromIndex, RecordFailure
<1> QED
  BY <1>1, <1>2, <1>3 DEF RestoreStep, RowsMove, dsm

LEMMA ThreadMovesRows ==
  ASSUME Typing, NEW p \in Procs, ThreadStep(p)
  PROVE  RowsMove(p)
<1> DEFINE u == proc[p].user
<1>1. CASE Native(p)
  <2>1. proc[p].pc = "native" /\ u \in Users
    BY <1>1, NamesNow DEF Native
  <2>2. \/ UNCHANGED <<account, secret>>
        \/ UNCHANGED secret /\ account' = [account EXCEPT ![u].disabled = (proc[p].op = "disable")]
        \/ Creates(u)
    BY <1>1 DEF Native, Creates
  <2> QED
    BY <2>1, <2>2 DEF RowsMove, MarksAccount
<1>2. CASE SetPassword(p)
  <2>1. u \in Users
    BY <1>2, NamesNow DEF SetPassword
  <2>2. UNCHANGED dsm \/ SetsHash(u)
    BY <1>2 DEF SetPassword, SetsHash
  <2> QED
    BY <2>1, <2>2 DEF RowsMove, dsm
<1>3. ASSUME MutationEnters(p) \/ PolicyChanges(p)
      PROVE  UNCHANGED dsm
  BY <1>3 DEF MutationEnters, PolicyChanges
<1>4. ASSUME ResetMark(p) \/ ResetDone(p)
      PROVE  UNCHANGED dsm
  BY <1>4 DEF ResetMark, ResetDone
<1>5. ASSUME AccountBusy(p) \/ SystemBusy(p)
      PROVE  UNCHANGED dsm
  BY <1>5 DEF AccountBusy, SystemBusy
<1>6. CASE AccountStep(p)
  BY <1>1, <1>2, <1>3, <1>4, <1>6 DEF AccountStep, RowsMove, dsm
<1> QED
  BY <1>5, <1>6, LoginMovesRows, RestoreMovesRows DEF ThreadStep, RowsMove, dsm

\* A row is locked only by DSM's writers, which wait for the system lock.
LEMMA ThreadLocksNothing ==
  ASSUME RecoveryInvariant, NEW p \in Procs, ThreadStep(p), NEW u \in Users, account'[u].locked
  PROVE  account[u].locked
<1>1. Typing /\ account[u] \in Row /\ RowsMove(p)
  BY InvNow, TypingNow, ThreadMovesRows
<1>2. ASSUME NEW v, NEW h, account' = [account EXCEPT ![v].hash = h]
      PROVE  account[u].locked
  BY <1>1, <1>2, TypingNow DEF Row
<1>3. CASE Lends(p) \/ GivesBack(p) \/ SetsHash(proc[p].user)
  BY <1>2, <1>3 DEF Lends, GivesBack, SetsHash
<1>4. CASE MarksAccount(p)
  BY <1>1, <1>4, TypingNow DEF MarksAccount, Row
<1>5. CASE Creates(proc[p].user)
  BY <1>1, <1>5, TypingNow DEF Creates, NewRow
<1> QED
  BY <1>1, <1>3, <1>4, <1>5 DEF RowsMove

LEMMA ThreadKeepsUnlocked ==
  ASSUME RecoveryInvariant, LeaseInvariant, NEW p \in Procs, ThreadStep(p)
  PROVE  RowUnlocked'
<1>1. SUFFICES ASSUME NEW q \in Procs, proc'[q].pc \in {"index", "journal", "swap"}
               PROVE  ~account'[proc'[q].user].locked
  BY DEF RowUnlocked
<1>2. Typing /\ Stepped(p) /\ \A u \in Users : account'[u].locked => account[u].locked
  BY InvNow, ThreadSteps, ThreadLocksNothing
<1>3. CASE q = p /\ proc'[p].pc = "index"
  <2>1. GoesOn(p)
    BY <1>2, <1>3 DEF Stepped, Idle
  <2>2. MayPrepare(p) /\ UNCHANGED account /\ proc'[p].user = proc[p].user
    BY <1>3, <2>1 DEF GoesOn, ReadOriginal, dsm
  <2> QED
    BY <1>3, <2>2 DEF MayPrepare
<1>4. CASE q # p \/ proc'[p].pc # "index"
  <2>1. proc[q].pc \in {"index", "journal", "swap"} /\ proc'[q].user = proc[q].user
    BY <1>1, <1>2, <1>4 DEF Stepped, GoesOn, Idle
  <2>2. proc[q].user \in Users /\ ~account[proc[q].user].locked
    BY <1>2, <2>1, NamesNow DEF LeaseInvariant, RowUnlocked
  <2> QED
    BY <1>2, <2>1, <2>2
<1> QED
  BY <1>3, <1>4

LEMMA ThreadKeepsFresh ==
  ASSUME RecoveryInvariant, LeaseInvariant, NEW p \in Procs, ThreadStep(p)
  PROVE  LeaseFresh'
<1>1. SUFFICES ASSUME NEW q \in Procs, proc'[q].pc \in {"swap", "activate"}
               PROVE  journal'[proc'[q].req].status \in {"pending", "pending_browser"}
  BY DEF LeaseFresh
<1>2. Typing /\ Stepped(p)
  BY InvNow, ThreadSteps
<1>3. CASE q # p
  <2>1. proc'[q] = proc[q] /\ proc[q].pc \in {"swap", "activate"}
    BY <1>1, <1>2, <1>3 DEF Stepped
  <2>2. /\ proc[q].req \in Requests
        /\ journal[proc[q].req].status \in {"pending", "pending_browser"}
    BY <2>1, AtWork DEF LeaseInvariant, LeaseFresh, WorkPcs
  <2> QED
    BY <1>3, <2>1, <2>2, ThreadMovesRecords, WorksAlone
<1>4. CASE q = p
  <2>1. GoesOn(p)
    BY <1>1, <1>2, <1>4 DEF Stepped, Idle
  <2>2. CASE proc'[p].pc = "swap"
    <3>1. /\ proc[p].req \in Requests /\ proc'[p].req = proc[p].req
          /\ journal' = [journal EXCEPT ![proc[p].req] = Material(p)]
      BY <1>2, <2>1, <2>2, NamesNow DEF GoesOn, RequestPcs, LoginPcs
    <3>2. journal'[proc'[p].req] = Material(p)
      BY <1>2, <3>1, TypingNow
    <3> QED
      BY <1>4, <3>2 DEF Material
  <2>3. CASE proc'[p].pc = "activate"
    <3>1. SwapIn(p) /\ proc'[p].req = proc[p].req
      BY <2>1, <2>3 DEF GoesOn
    <3>2. proc[p].pc = "swap" /\ UNCHANGED journal
      BY <3>1 DEF SwapIn, files
    <3> QED
      BY <1>4, <3>1, <3>2 DEF LeaseInvariant, LeaseFresh
  <2> QED
    BY <1>1, <1>4, <2>2, <2>3
<1> QED
  BY <1>3, <1>4

LEMMA ThreadKeepsRoutes ==
  ASSUME RecoveryInvariant, LeaseInvariant, NEW p \in Procs, ThreadStep(p)
  PROVE  TasksRouted'
<1>1. Stepped(p) /\ Scanner \in Procs
  BY InvNow, ThreadSteps DEF Procs
<1>2. /\ \A q \in Procs : proc[q].pc = "native" => proc[q].op \in {"disable", "provision"}
      /\ proc[Scanner].op \in {"none", "scan", "tidy"}
  BY DEF LeaseInvariant, TasksRouted
<1>3. \A q \in Procs : proc'[q].pc = "native" => proc'[q].op \in {"disable", "provision"}
  BY <1>1, <1>2 DEF Stepped, GoesOn, Idle
<1>4. proc'[Scanner].op \in {"none", "scan", "tidy"}
  BY <1>1, <1>2 DEF Stepped, GoesOn, Idle
<1> QED
  BY <1>3, <1>4 DEF TasksRouted

LEMMA ThreadKeepsDue ==
  ASSUME RecoveryInvariant, LeaseInvariant, NEW p \in Procs, ThreadStep(p), UNCHANGED ready
  PROVE  ScanTakesDue'
<1> DEFINE r == proc[Scanner].req
<1>1. Typing /\ Stepped(p) /\ Scanner \in Procs
  BY InvNow, ThreadSteps DEF Procs
<1>2. SUFFICES ASSUME proc'[Scanner].op = "scan"
               PROVE  /\ proc'[Scanner].req \in Requests
                      /\ journal'[proc'[Scanner].req].status # "none"
                      /\ ready => \/ proc'[Scanner].req \in expired'
                                  \/ journal'[proc'[Scanner].req].failed
                                  \/ journal'[proc'[Scanner].req].status \in Terminal \cup {"restoring_browser"}
  BY DEF ScanTakesDue
<1>3. proc[Scanner].op = "scan" /\ proc'[Scanner].req = r
  BY <1>1, <1>2 DEF Stepped, GoesOn, Idle
<1>4. /\ r \in Requests /\ journal[r].status # "none"
      /\ ready => \/ r \in expired \/ journal[r].failed
                  \/ journal[r].status \in Terminal \cup {"restoring_browser"}
  BY <1>3 DEF LeaseInvariant, ScanTakesDue
<1>5. StatusMoves(p, r) /\ MarksGrow(r)
  BY <1>4, ThreadMovesRecords
<1>6. journal'[r].status # "none"
  BY <1>4, <1>5, Statuses DEF StatusMoves
<1>7. CASE journal[r].status \in Terminal \cup {"restoring_browser"}
  <2>1. proc[p].pc = "activate" /\ r = proc[p].req
          => journal[r].status \in {"pending", "pending_browser"}
    BY DEF LeaseInvariant, LeaseFresh
  <2>2. journal'[r].status \in Terminal \cup {"restoring_browser"}
    BY <1>4, <1>5, <1>7, <2>1, Statuses DEF StatusMoves, Terminal
  <2> QED
    BY <1>3, <1>4, <1>6, <2>2
<1>8. CASE r \in expired \/ journal[r].failed
  BY <1>3, <1>4, <1>5, <1>6, <1>8 DEF MarksGrow
<1> QED
  BY <1>3, <1>4, <1>6, <1>7, <1>8

LEMMA ThreadKeepsOrder ==
  ASSUME RecoveryInvariant, LeaseInvariant, NEW p \in Procs, ThreadStep(p)
  PROVE  LeaseInvariant'
<1>1. UNCHANGED ready
  <2>1. ASSUME LoginStep(p) PROVE UNCHANGED helper
    <3>1. ASSUME LoginRefused(p) \/ LoginRepeated(p) \/ LoginEnters(p) PROVE UNCHANGED helper
      BY <3>1 DEF LoginRefused, LoginRepeated, LoginEnters
    <3>2. ASSUME ReadOriginal(p) \/ AddToIndex(p) \/ WriteJournal(p) PROVE UNCHANGED helper
      BY <3>2 DEF ReadOriginal, AddToIndex, WriteJournal
    <3>3. ASSUME SwapIn(p) \/ Activate(p) PROVE UNCHANGED helper
      BY <3>3 DEF SwapIn, Activate
    <3>4. ASSUME NEW success \in BOOLEAN, DsmLogin(p, success) PROVE UNCHANGED helper
      BY <3>4 DEF DsmLogin
    <3> QED
      BY <2>1, <3>1, <3>2, <3>3, <3>4 DEF LoginStep
  <2>2. ASSUME RestoreStep(p) PROVE UNCHANGED helper
    <3>1. ASSUME RestoreEnters(p) \/ MarkRestoring(p) \/ RestoreRefused(p) PROVE UNCHANGED helper
      BY <3>1 DEF RestoreEnters, MarkRestoring, RestoreRefused
    <3>2. ASSUME RestoreKeeps(p) \/ RestoreSwaps(p) \/ FinishJournal(p) PROVE UNCHANGED helper
      BY <3>2 DEF RestoreKeeps, RestoreSwaps, FinishJournal
    <3>3. ASSUME Archive(p) \/ RemoveFromIndex(p) \/ RecordFailure(p) PROVE UNCHANGED helper
      BY <3>3 DEF Archive, RemoveFromIndex, RecordFailure
    <3> QED
      BY <2>2, <3>1, <3>2, <3>3 DEF RestoreStep
  <2>3. ASSUME AccountStep(p) PROVE UNCHANGED helper
    <3>1. ASSUME MutationEnters(p) \/ PolicyChanges(p) PROVE UNCHANGED helper
      BY <3>1 DEF MutationEnters, PolicyChanges
    <3>2. ASSUME Native(p) PROVE UNCHANGED helper
      BY <3>2 DEF Native
    <3>3. ASSUME ResetMark(p) \/ SetPassword(p) \/ ResetDone(p) PROVE UNCHANGED helper
      BY <3>3 DEF ResetMark, SetPassword, ResetDone
    <3> QED
      BY <2>3, <3>1, <3>2, <3>3 DEF AccountStep
  <2>4. ASSUME AccountBusy(p) \/ SystemBusy(p) PROVE UNCHANGED helper
    BY <2>4 DEF AccountBusy, SystemBusy
  <2> QED
    BY <2>1, <2>2, <2>3, <2>4 DEF ThreadStep, helper
<1> QED
  BY <1>1, ThreadKeepsUnlocked, ThreadKeepsFresh, ThreadKeepsRoutes, ThreadKeepsDue
     DEF LeaseInvariant

-----------------------------------------------------------------------------
(* ... and so do calls, the recovery goroutine and the environment *)

\* The steps at which a task relies on the order of the steps before it.
Relying == {"index", "journal", "swap", "activate", "native"}

\* Tasks that go on as they were rely on the same rows and records.
LEMMA SameOrder ==
  ASSUME RecoveryInvariant, LeaseInvariant,
         \A q \in Procs : proc'[q] = proc[q] \/ proc'[q].pc \notin Relying,
         \A u \in Users : account'[u].locked => account[u].locked \/ (SystemFree /\ UNCHANGED proc),
         \A r \in Requests : IsLive(r) /\ (\E q \in Procs : proc[q].req = r)
                               => journal'[r].status = journal[r].status,
         proc'[Scanner].op \in {"none", "scan", "tidy"}, ScanTakesDue'
  PROVE  LeaseInvariant'
<1>1. RowUnlocked'
  <2>1. SUFFICES ASSUME NEW q \in Procs, proc'[q].pc \in {"index", "journal", "swap"}
                 PROVE  ~account'[proc'[q].user].locked
    BY DEF RowUnlocked
  <2>2. proc'[q] = proc[q] /\ proc[q].pc \in {"index", "journal", "swap"}
    BY <2>1 DEF Relying
  <2>3. proc[q].user \in Users /\ ~account[proc[q].user].locked
    BY <2>2, InvNow, NamesNow DEF LeaseInvariant, RowUnlocked
  <2>4. ~SystemFree
    BY <2>2, Sections DEF SystemFree
  <2> QED
    BY <2>2, <2>3, <2>4
<1>2. LeaseFresh'
  <2>1. SUFFICES ASSUME NEW q \in Procs, proc'[q].pc \in {"swap", "activate"}
                 PROVE  journal'[proc'[q].req].status \in {"pending", "pending_browser"}
    BY DEF LeaseFresh
  <2>2. proc'[q] = proc[q] /\ proc[q].pc \in {"swap", "activate"}
    BY <2>1 DEF Relying
  <2>3. /\ proc[q].req \in Requests /\ IsLive(proc[q].req)
        /\ journal[proc[q].req].status \in {"pending", "pending_browser"}
    BY <2>2, AtWork DEF LeaseInvariant, LeaseFresh, WorkPcs, IsLive
  <2> QED
    BY <2>2, <2>3
<1>3. TasksRouted'
  BY DEF LeaseInvariant, TasksRouted, Relying
<1> QED
  BY <1>1, <1>2, <1>3 DEF LeaseInvariant

\* The scan's own task and record as they were.
LEMMA SameScan ==
  ASSUME ScanTakesDue, proc'[Scanner] = proc[Scanner], UNCHANGED <<journal, ready>>,
         expired \subseteq expired'
  PROVE  ScanTakesDue'
BY DEF ScanTakesDue

LEMMA CallKeepsOrder ==
  ASSUME RecoveryInvariant, LeaseInvariant, NEW p \in Threads, Call(p)
  PROVE  LeaseInvariant'
<1>1. Typing /\ Scanner \notin Threads /\ p \in Procs /\ Scanner \in Procs
  BY InvNow, ConstantsApart DEF Procs
<1>2. /\ UNCHANGED <<account, journal, expired, ready>>
      /\ \E t \in Task : proc' = [proc EXCEPT ![p] = t] /\ t.pc = "lock_account"
  <2>1. ASSUME NEW o \in AllOps, NEW r \in Requests \cup {None}, NEW u \in Users \cup {None},
               proc' = [proc EXCEPT ![p] = [Idle EXCEPT !.pc = "lock_account", !.op = o, !.req = r, !.user = u]]
        PROVE  \E t \in Task : proc' = [proc EXCEPT ![p] = t] /\ t.pc = "lock_account"
    <3> DEFINE t == [Idle EXCEPT !.pc = "lock_account", !.op = o, !.req = r, !.user = u]
    <3>1. Idle \in Task
      BY IdleType DEF NamedTask
    <3>2. t \in Task /\ t.pc = "lock_account"
      BY <3>1 DEF Task, Pcs
    <3> QED
      BY <2>1, <3>2
  <2>2. ASSUME NEW o \in LoginOps, NEW r \in Requests, NEW u \in Users, LoginCall(p, o, r, u)
        PROVE  /\ UNCHANGED <<account, journal, expired, ready>>
               /\ \E t \in Task : proc' = [proc EXCEPT ![p] = t] /\ t.pc = "lock_account"
    <3>1. /\ UNCHANGED <<account, journal, expired, ready>> /\ o \in AllOps
          /\ proc' = [proc EXCEPT ![p] = [Idle EXCEPT !.pc = "lock_account", !.op = o, !.req = r, !.user = u]]
      BY <2>2 DEF LoginCall, dsm, files, clock, helper, AllOps
    <3> QED
      BY <2>1, <3>1
  <2>3. ASSUME NEW r \in Requests, CompleteCall(p, r)
        PROVE  /\ UNCHANGED <<account, journal, expired, ready>>
               /\ \E t \in Task : proc' = [proc EXCEPT ![p] = t] /\ t.pc = "lock_account"
    <3>1. /\ UNCHANGED <<account, journal, expired, ready>>
          /\ journal[r].user \in Users \cup {None} /\ "complete" \in AllOps
          /\ proc' = [proc EXCEPT ![p] = [Idle EXCEPT !.pc = "lock_account", !.op = "complete",
                                                      !.req = r, !.user = journal[r].user]]
      BY <1>1, <2>3, TypingNow DEF CompleteCall, dsm, files, clock, helper, AllOps, Journal
    <3> QED
      BY <2>1, <3>1
  <2>4. ASSUME NEW o \in AllOps, NEW u \in Users, AccountCall(p, o, u)
        PROVE  /\ UNCHANGED <<account, journal, expired, ready>>
               /\ \E t \in Task : proc' = [proc EXCEPT ![p] = t] /\ t.pc = "lock_account"
    <3>1. /\ UNCHANGED <<account, journal, expired, ready>> /\ Idle.req = None
          /\ proc' = [proc EXCEPT ![p] = [Idle EXCEPT !.pc = "lock_account", !.op = o, !.user = u]]
      BY <2>4 DEF AccountCall, dsm, files, clock, helper, Idle
    <3> DEFINE t == [Idle EXCEPT !.pc = "lock_account", !.op = o, !.user = u]
    <3>2. Idle \in Task
      BY IdleType DEF NamedTask
    <3>3. t \in Task /\ t.pc = "lock_account"
      BY <3>2 DEF Task, Pcs
    <3> QED
      BY <3>1, <3>3
  <2> QED
    BY <2>2, <2>3, <2>4 DEF Call
<1>3. PICK t \in Task : proc' = [proc EXCEPT ![p] = t] /\ t.pc = "lock_account"
  BY <1>2
<1>4. /\ proc'[Scanner] = proc[Scanner]
      /\ \A q \in Procs : proc'[q] = proc[q] \/ proc'[q].pc \notin Relying
  BY <1>1, <1>3, TypingNow DEF Relying
<1>5. ScanTakesDue' /\ proc'[Scanner].op \in {"none", "scan", "tidy"}
  BY <1>2, <1>4, SameScan DEF LeaseInvariant, TasksRouted
<1> QED
  BY <1>2, <1>4, <1>5, SameOrder

LEMMA EnvironmentKeepsOrder ==
  ASSUME RecoveryInvariant, LeaseInvariant, Environment
  PROVE  LeaseInvariant'
<1>1. Typing /\ Scanner \in Procs
  BY InvNow DEF Procs
<1>2. ASSUME NEW u \in Users, AdminEdits(u)
      PROVE  LeaseInvariant'
  <2>1. UNCHANGED <<proc, journal, expired, ready>> /\ SystemFree
    BY <1>2 DEF AdminEdits, files, clock, helper
  <2>2. ScanTakesDue' /\ proc'[Scanner].op \in {"none", "scan", "tidy"}
    BY <2>1, SameScan DEF LeaseInvariant, TasksRouted
  <2> QED
    BY <2>1, <2>2, SameOrder
<1>3. ASSUME NEW r \in Requests, TimeRunsOut(r) \/ BackoffEnds(r)
      PROVE  LeaseInvariant'
  <2>1. UNCHANGED <<account, proc, journal, ready>> /\ expired \subseteq expired'
    BY <1>3 DEF TimeRunsOut, BackoffEnds, dsm, files, helper
  <2>2. ScanTakesDue' /\ proc'[Scanner].op \in {"none", "scan", "tidy"}
    BY <2>1, SameScan DEF LeaseInvariant, TasksRouted
  <2> QED
    BY <2>1, <2>2, SameOrder
<1>4. CASE Killed
  <2>1. UNCHANGED <<account, journal>> /\ \A q \in Procs : proc'[q].pc = "idle" /\ proc'[q].op = "none"
    BY <1>4 DEF Killed, dsm, files, Idle
  <2>2. ScanTakesDue'
    BY <1>1, <2>1 DEF ScanTakesDue
  <2> QED
    BY <1>1, <2>1, <2>2, SameOrder DEF Relying
<1> QED
  BY <1>2, <1>3, <1>4 DEF Environment

LEMMA ScanKeepsOrder ==
  ASSUME RecoveryInvariant, LeaseInvariant, ScanStep
  PROVE  LeaseInvariant'
<1>1. Typing /\ Scanner \in Procs /\ ScanTakesDue /\ proc[Scanner].op \in {"none", "scan", "tidy"}
  BY InvNow DEF Procs, LeaseInvariant, TasksRouted
<1>2. CASE PassBegins
  <2>1. UNCHANGED <<account, proc, journal, expired, ready>>
    BY <1>2 DEF PassBegins, dsm, files, clock
  <2>2. ScanTakesDue'
    BY <1>1, <2>1, SameScan
  <2> QED
    BY <1>1, <2>1, <2>2, SameOrder
<1>3. CASE PassEnds
  <2>1. PICK old \in SUBSET Prunable :
          journal' = [r \in Requests |-> IF r \in old THEN NoJournal ELSE journal[r]]
    BY <1>3 DEF PassEnds
  <2>2. \A r \in Requests : (\E q \in Procs : proc[q].req = r) => journal'[r] = journal[r]
    BY <2>1 DEF Prunable
  <2>3. UNCHANGED <<account, proc>> /\ proc[Scanner].op = "none"
    BY <1>3 DEF PassEnds, dsm, Idle
  <2>4. ScanTakesDue'
    BY <2>3 DEF ScanTakesDue
  <2> QED
    BY <1>1, <2>2, <2>3, <2>4, SameOrder
<1>4. CASE TidyArchive \/ TidyUnindex
  <2>1. /\ UNCHANGED <<account, expired, ready>>
        /\ \/ UNCHANGED journal
           \/ journal' = [journal EXCEPT ![proc[Scanner].req].place = "completed"]
    BY <1>4 DEF TidyArchive, TidyUnindex, dsm, clock, helper
  <2>2. \A r \in Requests : /\ journal'[r].status = journal[r].status
                            /\ journal'[r].failed = journal[r].failed
    BY <1>1, <2>1, TypingNow DEF Journal
  <2>3. proc[Scanner].pc # "idle" /\ (Goto(Scanner, "tidy_unindex") \/ Answer(Scanner, "error"))
    BY <1>4 DEF TidyArchive, TidyUnindex
  <2>4. Stepped(Scanner)
    BY <1>1, <2>3, GotoSteps, AnswerSteps
  <2>5. \/ proc'[Scanner] = Idle
        \/ /\ proc'[Scanner].op = proc[Scanner].op /\ proc'[Scanner].req = proc[Scanner].req
           /\ proc'[Scanner].pc = "tidy_unindex"
    BY <1>1, <2>3, Went, TypingNow DEF Answer
  <2>6. ScanTakesDue' /\ proc'[Scanner].op \in {"none", "scan", "tidy"}
    BY <1>1, <2>1, <2>2, <2>5 DEF ScanTakesDue, Idle
  <2>7. \A q \in Procs : proc'[q] = proc[q] \/ proc'[q].pc \notin Relying
    BY <2>4, <2>5 DEF Stepped, Relying, Idle
  <2> QED
    BY <2>1, <2>2, <2>6, <2>7, SameOrder
<1>5. ASSUME NEW u \in Users, NEW r \in Requests, PassTakes(u, r)
      PROVE  LeaseInvariant'
  <2>1. UNCHANGED <<account, journal, expired, ready>> /\ proc[Scanner] = Idle
    BY <1>5 DEF PassTakes, dsm, files, clock
  <2>2. ASSUME UNCHANGED proc
        PROVE  LeaseInvariant'
    BY <1>1, <2>1, <2>2, SameScan, SameOrder
  <2>3. ASSUME NEW o \in {"tidy", "scan"}, NEW s \in {"tidy_archive", "tidy_unindex", "lock_account"},
               o = "scan" => IsLive(r) /\ Due(r),
               proc' = [proc EXCEPT ![Scanner] = [Idle EXCEPT !.pc = s, !.op = o, !.req = r, !.user = u]]
        PROVE  LeaseInvariant'
    <3>1. /\ proc'[Scanner].pc = s /\ proc'[Scanner].op = o /\ proc'[Scanner].req = r
          /\ \A q \in Procs : q # Scanner => proc'[q] = proc[q]
      BY <1>1, <2>3, TypingNow DEF Idle
    <3>2. ScanTakesDue'
      BY <2>1, <2>3, <3>1, Statuses DEF ScanTakesDue, Due, IsLive
    <3>3. \A q \in Procs : proc'[q] = proc[q] \/ proc'[q].pc \notin Relying
      BY <3>1 DEF Relying
    <3> QED
      BY <2>1, <3>1, <3>2, <3>3, SameOrder
  <2> QED
    BY <1>5, <2>2, <2>3 DEF PassTakes
<1> QED
  BY <1>2, <1>3, <1>4, <1>5 DEF ScanStep

LEMMA NextKeepsOrder ==
  RecoveryInvariant /\ LeaseInvariant /\ [Next]_vars => LeaseInvariant'
<1> SUFFICES ASSUME RecoveryInvariant, LeaseInvariant, [Next]_vars
             PROVE  LeaseInvariant'
  OBVIOUS
<1>1. CASE UNCHANGED vars
  BY <1>1 DEF vars, LeaseInvariant, RowUnlocked, LeaseFresh, TasksRouted, ScanTakesDue
<1> QED
  BY <1>1, CallKeepsOrder, ThreadKeepsOrder, ScanKeepsOrder, EnvironmentKeepsOrder DEF Next

\* Throughout, every task relies on steps that came before it: what a login found
\* unlocked and fresh stays so, and a scan keeps the reason it had.
THEOREM OrderKept == Spec => []LeaseInvariant
<1>1. Init => LeaseInvariant
  <2> SUFFICES ASSUME Init PROVE LeaseInvariant
    OBVIOUS
  <2>1. \A p \in Procs : proc[p] = Idle
    BY DEF Init
  <2>2. \A p \in Procs : proc[p].pc = "idle" /\ proc[p].op = "none"
    BY <2>1 DEF Idle
  <2>3. Scanner \in Procs
    BY DEF Procs
  <2> QED
    BY <2>2, <2>3 DEF LeaseInvariant, RowUnlocked, LeaseFresh, TasksRouted, ScanTakesDue
<1> QED
  BY <1>1, Recovery, NextKeepsOrder, PTL DEF Spec

\* After the first pass the scan takes a browser lease away only when it has run out
\* or a restore of it failed, whatever happened since the scan read its journal.
THEOREM ScanStaysPatient == Spec => []ScanHonoursLease
<1>1. LeaseInvariant => ScanHonoursLease
  BY DEF LeaseInvariant, ScanTakesDue, ScanHonoursLease, Terminal
<1> QED
  BY <1>1, OrderKept, PTL

-----------------------------------------------------------------------------
(* What a step may never do *)

\* The answers of a step of p: only its own request's, a temporary password only for
\* a lease that is active and not due, a session only once the record is finished.
Replies(p, r) ==
  \/ reply'[r] = reply[r]
  \/ reply'[r] = "error"
  \/ reply'[r] = "temp" /\ journal'[r].status = "active_browser" /\ r \notin expired'
  \/ reply'[r] = "session" /\ r = proc[p].req /\ proc[p].pc = "unindex" /\ UNCHANGED journal

LEMMA AnswerReplies ==
  ASSUME Typing, NEW p \in Procs, NEW a, Answer(p, a), NEW r \in Requests
  PROVE  reply'[r] = reply[r] \/ (reply'[r] = a /\ r = proc[p].req)
BY TypingNow DEF Answer

LEMMA FailReplies ==
  ASSUME Typing, NEW p \in Procs, RestoreFails(p), NEW r \in Requests
  PROVE  Replies(p, r)
BY AnswerReplies DEF RestoreFails, Goto, Replies

LEMMA LoginReplies ==
  ASSUME RecoveryInvariant, NEW p \in Procs, LoginStep(p), NEW r \in Requests
  PROVE  Replies(p, r)
<1>1. Typing
  BY InvNow
<1>2. CASE UNCHANGED reply
  BY <1>2 DEF Replies
<1>3. CASE Answer(p, "error")
  BY <1>1, <1>3, AnswerReplies DEF Replies
<1>4. CASE LoginRepeated(p)
  <2> DEFINE s == proc[p].req
  <2>1. /\ Answer(p, "temp") /\ journal[s].status = "active_browser" /\ s \notin expired
        /\ UNCHANGED <<journal, expired>>
    BY <1>4 DEF LoginRepeated, files, clock
  <2> QED
    BY <1>1, <2>1, AnswerReplies DEF Replies
<1>5. CASE Activate(p)
  <2> DEFINE s == proc[p].req
  <2>1. \/ UNCHANGED reply
        \/ /\ Answer(p, "temp") /\ s \notin expired /\ UNCHANGED expired
           /\ journal' = [journal EXCEPT ![s].status = "active_browser"]
    BY <1>5 DEF Activate, Goto, clock, Lands
  <2>2. s \in Requests /\ journal[s] \in Journal
    BY <1>1, <1>5, NamesNow, TypingNow DEF Activate, RequestPcs, WorkPcs
  <2>3. CASE /\ Answer(p, "temp") /\ s \notin expired /\ UNCHANGED expired
             /\ journal' = [journal EXCEPT ![s].status = "active_browser"]
    <3>1. journal'[s].status = "active_browser"
      BY <1>1, <2>2, <2>3, TypingNow DEF Journal
    <3> QED
      BY <1>1, <2>3, <3>1, AnswerReplies DEF Replies
  <2> QED
    BY <1>2, <2>1, <2>3
<1>6. ASSUME LoginRefused(p) \/ LoginEnters(p) \/ ReadOriginal(p)
      PROVE  UNCHANGED reply \/ Answer(p, "error")
  BY <1>6 DEF LoginRefused, LoginEnters, ReadOriginal, Goto
<1>7. ASSUME AddToIndex(p) \/ WriteJournal(p) \/ SwapIn(p)
      PROVE  UNCHANGED reply \/ Answer(p, "error")
  BY <1>7 DEF AddToIndex, WriteJournal, SwapIn, Goto
<1>8. ASSUME NEW success \in BOOLEAN, DsmLogin(p, success)
      PROVE  UNCHANGED reply
  BY <1>8 DEF DsmLogin
<1> QED
  BY <1>2, <1>3, <1>4, <1>5, <1>6, <1>7, <1>8 DEF LoginStep

LEMMA RestoreReplies ==
  ASSUME RecoveryInvariant, NEW p \in Procs, RestoreStep(p), NEW r \in Requests
  PROVE  Replies(p, r)
<1>1. Typing
  BY InvNow
<1>2. CASE UNCHANGED reply
  BY <1>2 DEF Replies
<1>3. CASE Answer(p, "error")
  BY <1>1, <1>3, AnswerReplies DEF Replies
<1>4. CASE RestoreFails(p)
  BY <1>1, <1>4, FailReplies
<1>5. CASE RemoveFromIndex(p)
  <2>1. /\ proc[p].pc = "unindex" /\ UNCHANGED journal
        /\ RestoreEnds(p) \/ RestoreFails(p)
    BY <1>5 DEF RemoveFromIndex
  <2>2. CASE RestoreEnds(p)
    <3>1. UNCHANGED reply \/ Answer(p, "session") \/ Answer(p, "error")
      BY <2>2 DEF RestoreEnds, Goto
    <3> QED
      BY <1>1, <1>2, <1>3, <2>1, <3>1, AnswerReplies DEF Replies
  <2> QED
    BY <1>4, <2>1, <2>2
<1>6. ASSUME RestoreEnters(p) \/ MarkRestoring(p) \/ RestoreRefused(p) \/ RestoreKeeps(p)
      PROVE  UNCHANGED reply \/ Answer(p, "error") \/ RestoreFails(p)
  BY <1>6 DEF RestoreEnters, MarkRestoring, RestoreRefused, RestoreKeeps, Goto
<1>7. ASSUME RestoreSwaps(p) \/ FinishJournal(p) \/ Archive(p) \/ RecordFailure(p)
      PROVE  UNCHANGED reply \/ Answer(p, "error") \/ RestoreFails(p)
  BY <1>7 DEF RestoreSwaps, FinishJournal, Archive, RecordFailure, Goto
<1> QED
  BY <1>2, <1>3, <1>4, <1>5, <1>6, <1>7 DEF RestoreStep

LEMMA ThreadReplies ==
  ASSUME RecoveryInvariant, NEW p \in Procs, ThreadStep(p), NEW r \in Requests
  PROVE  Replies(p, r)
<1>1. Typing
  BY InvNow
<1>2. ASSUME UNCHANGED reply \/ Answer(p, "error") \/ RestoreFails(p)
      PROVE  Replies(p, r)
  BY <1>1, <1>2, AnswerReplies, FailReplies DEF Replies
<1>3. ASSUME AccountBusy(p) \/ SystemBusy(p)
      PROVE  UNCHANGED reply \/ Answer(p, "error") \/ RestoreFails(p)
  BY <1>3 DEF AccountBusy, SystemBusy
<1>4. ASSUME AccountStep(p)
      PROVE  UNCHANGED reply \/ Answer(p, "error")
  <2>1. ASSUME MutationEnters(p) \/ PolicyChanges(p) PROVE UNCHANGED reply \/ Answer(p, "error")
    BY <2>1 DEF MutationEnters, PolicyChanges, Goto
  <2>2. ASSUME Native(p) \/ ResetDone(p) PROVE UNCHANGED reply \/ Answer(p, "error")
    BY <2>2 DEF Native, ResetDone
  <2>3. ASSUME ResetMark(p) \/ SetPassword(p) PROVE UNCHANGED reply \/ Answer(p, "error")
    BY <2>3 DEF ResetMark, SetPassword, Goto
  <2> QED
    BY <1>4, <2>1, <2>2, <2>3 DEF AccountStep
<1> QED
  BY <1>2, <1>3, <1>4, LoginReplies, RestoreReplies DEF ThreadStep

\* The steps that are no thread's leave the verdicts alone, drop old records and hand
\* out nothing.
LEMMA OthersRecordNothing ==
  ASSUME RecoveryInvariant, (\E p \in Threads : Call(p)) \/ ScanStep \/ Environment,
         NEW r \in Requests
  PROVE  /\ journal'[r].status \in {journal[r].status, "none"}
         /\ reply'[r] \in {reply[r], "none", "error"}
<1>1. Typing /\ Scanner \in Procs
  BY InvNow DEF Procs
<1>2. ASSUME NEW p \in Threads, Call(p)
      PROVE  UNCHANGED journal /\ reply'[r] \in {reply[r], "none"}
  <2>1. ASSUME NEW o \in LoginOps, NEW s \in Requests, NEW u \in Users, LoginCall(p, o, s, u)
        PROVE  UNCHANGED journal /\ reply' = [reply EXCEPT ![s] = "none"]
    BY <2>1 DEF LoginCall, files
  <2>2. ASSUME NEW s \in Requests, CompleteCall(p, s)
        PROVE  UNCHANGED <<journal, reply>>
    BY <2>2 DEF CompleteCall, files
  <2>3. ASSUME NEW o \in AllOps, NEW u \in Users, AccountCall(p, o, u)
        PROVE  UNCHANGED <<journal, reply>>
    BY <2>3 DEF AccountCall, files
  <2> QED
    BY <1>1, <1>2, <2>1, <2>2, <2>3, TypingNow DEF Call
<1>3. CASE Environment
  BY <1>3 DEF Environment, AdminEdits, TimeRunsOut, BackoffEnds, Killed, files
<1>4. CASE ScanStep
  <2>1. CASE PassBegins \/ \E u \in Users, s \in Requests : PassTakes(u, s)
    BY <2>1 DEF PassBegins, PassTakes, files
  <2>2. CASE PassEnds
    BY <2>2 DEF PassEnds, NoJournal
  <2>3. CASE TidyArchive \/ TidyUnindex
    <3>1. /\ UNCHANGED journal \/ journal' = [journal EXCEPT ![proc[Scanner].req].place = "completed"]
          /\ UNCHANGED reply \/ Answer(Scanner, "error")
      BY <2>3 DEF TidyArchive, TidyUnindex, Goto
    <3>2. journal'[r].status = journal[r].status
      BY <1>1, <3>1, TypingNow DEF Journal
    <3>3. reply'[r] \in {reply[r], "error"}
      BY <1>1, <3>1, AnswerReplies
    <3> QED
      BY <3>2, <3>3
  <2> QED
    BY <1>4, <2>1, <2>2, <2>3 DEF ScanStep
<1> QED
  BY <1>2, <1>3, <1>4

\* A finished login stays finished: whatever late call or scan comes, its verdict is
\* kept until the record is pruned.
THEOREM VerdictStaysFinal == Spec => VerdictIsFinal
<1>1. ASSUME RecoveryInvariant, [Next]_vars
      PROVE  [\A r \in Requests :
                IsTerminal(r) => journal'[r].status \in {journal[r].status, "none"}]_vars
  <2>1. ASSUME NEW p \in Procs, ThreadStep(p), NEW r \in Requests, IsTerminal(r)
        PROVE  journal'[r].status = journal[r].status
    BY <1>1, <2>1, ThreadMovesRecords, Statuses DEF StatusMoves, IsTerminal
  <2> QED
    BY <1>1, <2>1, OthersRecordNothing DEF Next
<1> QED
  BY <1>1, Recovery, PTL DEF Spec, VerdictIsFinal

\* A temporary password is handed out only for a lease that is active and not due.
THEOREM TempStaysLent == Spec => TempOnlyWhileLent
<1>1. ASSUME RecoveryInvariant, [Next]_vars
      PROVE  [\A r \in Requests : reply'[r] = "temp" /\ reply[r] # "temp" =>
                journal'[r].status = "active_browser" /\ r \notin expired']_vars
  BY <1>1, ThreadReplies, OthersRecordNothing DEF Next, Replies
<1> QED
  BY <1>1, Recovery, PTL DEF Spec, TempOnlyWhileLent

\* A relay that reports a session has taken its temporary hash back, from every row,
\* and finished its record.
THEOREM SessionsAreRestored == Spec => SessionMeansRestored
<1>1. ASSUME RecoveryInvariant, [Next]_vars
      PROVE  [\A r \in Requests : reply'[r] = "session" /\ reply[r] # "session" =>
                /\ IsTerminal(r)
                /\ \A u \in Users : account[u].exists => account[u].hash # r]_vars
  <2>1. ASSUME NEW p \in Procs, NEW r \in Requests, r = proc[p].req, proc[p].pc = "unindex"
        PROVE  IsTerminal(r) /\ \A u \in Users : account[u].exists => account[u].hash # r
    <3>1. IsTerminal(r)
      BY <1>1, <2>1, InvNow DEF Facts, OwnsWork, ClosePcs, IsTerminal
    <3> QED
      BY <1>1, <3>1, InvNow, Statuses DEF DiskSound, LentIsRecoverable, IsLive, IsTerminal
  <2> QED
    BY <1>1, <2>1, ThreadReplies, OthersRecordNothing DEF Next, Replies
<1> QED
  BY <1>1, Recovery, PTL DEF Spec, SessionMeansRestored

-----------------------------------------------------------------------------
(* The abstract lending of a password *)

\* Besides the threads only DSM's administrators write rows.
LEMMA OthersWriteNothing ==
  ASSUME (\E p \in Threads : Call(p)) \/ ScanStep \/ Environment
  PROVE  UNCHANGED <<account, secret>> \/ \E u \in Users : AdminEdits(u)
<1>1. ASSUME NEW p \in Threads, Call(p) PROVE UNCHANGED dsm
  <2>1. ASSUME NEW o, NEW r, NEW u, LoginCall(p, o, r, u) PROVE UNCHANGED dsm
    BY <2>1 DEF LoginCall
  <2>2. ASSUME NEW r, CompleteCall(p, r) PROVE UNCHANGED dsm
    BY <2>2 DEF CompleteCall
  <2>3. ASSUME NEW o, NEW u, AccountCall(p, o, u) PROVE UNCHANGED dsm
    BY <2>3 DEF AccountCall
  <2> QED
    BY <1>1, <2>1, <2>2, <2>3 DEF Call
<1>2. ASSUME ScanStep PROVE UNCHANGED dsm
  BY <1>2 DEF ScanStep, PassBegins, PassEnds, TidyArchive, TidyUnindex, PassTakes
<1>3. ASSUME Environment PROVE UNCHANGED dsm \/ \E u \in Users : AdminEdits(u)
  BY <1>3 DEF Environment, TimeRunsOut, BackoffEnds, Killed
<1> QED
  BY <1>1, <1>2, <1>3 DEF dsm

\* Only an explicit provision lifts an expiry mark, and no operation of the Helper
\* touches a lock or an administrator role.
THEOREM MarksAreKept == Spec => MarksStay
<1> DEFINE Kept == \A u \in Users :
             account[u].exists /\ account'[u].exists /\ account'[u] # account[u] /\ edits' = edits =>
               /\ account'[u].locked = account[u].locked
               /\ account'[u].admin = account[u].admin
               /\ account[u].disabled /\ ~account'[u].disabled =>
                    \E p \in Threads : proc[p].op = "provision" /\ proc[p].pc = "native"
<1>1. ASSUME RecoveryInvariant, LeaseInvariant, [Next]_vars
      PROVE  [Kept]_vars
  <2>1. Typing
    BY <1>1, InvNow
  <2>2. CASE UNCHANGED account
    BY <2>2
  <2>3. ASSUME NEW u \in Users, AdminEdits(u)
        PROVE  edits' # edits
    BY <2>1, <2>3, TypingNow DEF AdminEdits
  <2>4. ASSUME NEW v, NEW h, account' = [account EXCEPT ![v].hash = h]
        PROVE  Kept
    <3>1. \A u \in Users : /\ account'[u].locked = account[u].locked
                           /\ account'[u].admin = account[u].admin
                           /\ account'[u].disabled = account[u].disabled
      BY <2>1, <2>4, TypingNow DEF Row
    <3> QED
      BY <3>1
  <2>5. ASSUME NEW v \in Users, Creates(v)
        PROVE  Kept
    BY <2>1, <2>5, TypingNow DEF Creates, NewRow
  <2>6. ASSUME NEW p \in Procs, MarksAccount(p)
        PROVE  Kept
    <3> DEFINE b == proc[p].op = "disable"
    <3>1. /\ proc[p].pc = "native" /\ account' = [account EXCEPT ![proc[p].user].disabled = b]
          /\ proc[p].op \in {"disable", "provision"} /\ p \in Threads
      BY <1>1, <2>6 DEF MarksAccount, LeaseInvariant, TasksRouted, Procs
    <3> HIDE DEF b
    <3>2. \A u \in Users : /\ account'[u].locked = account[u].locked
                           /\ account'[u].admin = account[u].admin
                           /\ account'[u].disabled = account[u].disabled \/ account'[u].disabled = b
      BY <2>1, <3>1, TypingNow DEF Row
    <3>3. ASSUME NEW u \in Users, account[u].disabled, ~account'[u].disabled
          PROVE  proc[p].op = "provision"
      BY <3>1, <3>2, <3>3 DEF b
    <3> QED
      BY <3>1, <3>2, <3>3
  <2>7. ASSUME NEW p \in Procs, ThreadStep(p)
        PROVE  Kept
    <3>1. RowsMove(p)
      BY <2>1, <2>7, ThreadMovesRows
    <3>2. CASE Lends(p) \/ GivesBack(p) \/ SetsHash(proc[p].user)
      BY <2>4, <3>2 DEF Lends, GivesBack, SetsHash
    <3> HIDE DEF Kept
    <3>3. CASE UNCHANGED account
      BY <3>3 DEF Kept
    <3> QED
      BY <2>5, <2>6, <3>1, <3>2, <3>3 DEF RowsMove
  <2>8. CASE (\E p \in Threads : Call(p)) \/ ScanStep \/ Environment
    <3>1. UNCHANGED account \/ \E u \in Users : AdminEdits(u)
      BY <2>8, OthersWriteNothing
    <3> QED
      BY <2>3, <3>1
  <2> HIDE DEF Kept
  <2> QED
    BY <1>1, <2>7, <2>8 DEF Next
<1> QED
  BY <1>1, Recovery, OrderKept, PTL DEF Spec, MarksStay

\* How a step looks to the abstract specification.
Exists == [u \in Users |-> account[u].exists]
Shown  == [u \in Users |-> account[u].hash]
Locked == [u \in Users |-> account[u].locked]

\* A row whose hash alone changes.
LEMMA HashChanges ==
  ASSUME Typing, NEW u \in Users, NEW h, account' = [account EXCEPT ![u].hash = h]
  PROVE  Exists' = Exists /\ Locked' = Locked /\ Shown' = [Shown EXCEPT ![u] = h]
<1>1. \A v \in Users : /\ account'[v].exists = account[v].exists
                       /\ account'[v].locked = account[v].locked
                       /\ account'[v].hash = IF v = u THEN h ELSE account[v].hash
  BY TypingNow DEF Row
<1> QED
  BY <1>1 DEF Exists, Locked, Shown

LEMMA LendsImplement ==
  ASSUME RecoveryInvariant, LeaseInvariant, NEW p \in Procs, Lends(p)
  PROVE  Lease!Next
<1> DEFINE u == proc[p].user
           r == proc[p].req
<1>1. /\ proc[p].pc = "swap" /\ UNCHANGED secret /\ account[u].exists
      /\ account' = [account EXCEPT ![u].hash = r]
  BY DEF Lends
<1>2. /\ Typing /\ u \in Users /\ r \in Requests
      /\ account[u].hash = secret[u] /\ secret[u] \in Passwords /\ ~account[u].locked
  BY <1>1, InvNow, AtWork DEF Facts, ReadHolds, LeaseInvariant, RowUnlocked, WorkPcs
<1>3. Exists' = Exists /\ Locked' = Locked /\ Shown' = [Shown EXCEPT ![u] = r]
  BY <1>1, <1>2, HashChanges
<1>4. Exists[u] /\ ~Locked[u] /\ Shown[u] = secret[u] /\ secret[u] # NoPassword
  BY <1>1, <1>2, ConstantsApart DEF Exists, Locked, Shown
<1>5. Lease!Lend(u, r)
  BY <1>1, <1>3, <1>4 DEF Lease!Lend, Exists, Locked, Shown
<1> QED
  BY <1>2, <1>5 DEF Lease!Next, Lease!Lend

LEMMA GivesBackImplements ==
  ASSUME RecoveryInvariant, NEW p \in Procs, GivesBack(p)
  PROVE  Lease!Next
<1> DEFINE r == proc[p].req
           u == journal[r].user
<1>1. /\ proc[p].pc \in {"undo", "restore"} /\ UNCHANGED secret
      /\ account[u].exists /\ account[u].hash = r
      /\ account' = [account EXCEPT ![u].hash = journal[r].original]
  BY DEF GivesBack, MayRestore, MayTouch, SameAccount, ShowsTemporary
<1>2. /\ Typing /\ DiskSound /\ u \in Users /\ r \in Requests
  BY <1>1, InvNow, AtWork DEF WorkPcs
<1>3. journal[r].original = secret[u]
  <2>1. LentIsRecoverable
    BY <1>2 DEF DiskSound
  <2> QED
    BY <1>1, <1>2, <2>1 DEF LentIsRecoverable
<1>4. Exists' = Exists /\ Locked' = Locked /\ Shown' = [Shown EXCEPT ![u] = secret[u]]
  BY <1>1, <1>2, <1>3, HashChanges
<1>5. Exists[u] /\ Shown[u] \in Requests
  BY <1>1, <1>2 DEF Exists, Shown
<1>6. Lease!GiveBack(u)
  BY <1>1, <1>4, <1>5 DEF Lease!GiveBack, Exists, Locked, Shown
<1> QED
  BY <1>2, <1>6 DEF Lease!Next, Lease!GiveBack

LEMMA SetsImplement ==
  ASSUME Typing, NEW u \in Users, SetsHash(u)
  PROVE  Lease!Next
<1>1. PICK h \in Passwords \cup {NoPassword} :
        account' = [account EXCEPT ![u].hash = h] /\ secret' = [secret EXCEPT ![u] = h]
  BY DEF SetsHash
<1>2. Exists' = Exists /\ Locked' = Locked /\ Shown' = [Shown EXCEPT ![u] = h]
  BY <1>1, HashChanges
<1>3. Exists[u]
  BY DEF Exists, SetsHash
<1>4. Lease!Set(u, h) /\ h \in Lease!Permanent
  BY <1>1, <1>2, <1>3 DEF Lease!Set, Lease!Permanent, Exists, Locked, Shown
<1> QED
  BY <1>4 DEF Lease!Next

LEMMA CreatesImplement ==
  ASSUME Typing, NEW u \in Users, Creates(u)
  PROVE  Lease!Next
<1>1. PICK h \in Passwords : NewRow(u, h) /\ secret' = [secret EXCEPT ![u] = h]
  BY DEF Creates
<1>2. \A v \in Users :
        /\ account'[v].exists = IF v = u THEN TRUE ELSE account[v].exists
        /\ account'[v].hash = IF v = u THEN h ELSE account[v].hash
        /\ account'[v].locked = IF v = u THEN FALSE ELSE account[v].locked
  BY <1>1, TypingNow DEF NewRow
<1>3. /\ Exists' = [Exists EXCEPT ![u] = TRUE] /\ Shown' = [Shown EXCEPT ![u] = h]
      /\ Locked' = [Locked EXCEPT ![u] = FALSE]
  BY <1>2 DEF Exists, Shown, Locked
<1>4. ~Exists[u]
  BY DEF Exists, Creates
<1>5. Lease!Create(u, h)
  BY <1>1, <1>3, <1>4 DEF Lease!Create, Exists, Locked, Shown
<1> QED
  BY <1>5 DEF Lease!Next

\* An expiry mark or a role is not the abstract specification's business.
LEMMA OtherFields ==
  ASSUME Typing, UNCHANGED secret,
         \A u \in Users : /\ account'[u].exists = account[u].exists
                          /\ account'[u].hash = account[u].hash
                          /\ account'[u].locked = account[u].locked
  PROVE  UNCHANGED Lease!vars
<1>1. Exists' = Exists /\ Shown' = Shown /\ Locked' = Locked
  BY DEF Exists, Shown, Locked
<1> QED
  BY <1>1 DEF Lease!vars, Exists, Shown, Locked

LEMMA EditsImplement ==
  ASSUME Typing, NEW u \in Users, AdminEdits(u)
  PROVE  [Lease!Next]_(Lease!vars)
<1>1. account[u] \in Row
  BY TypingNow
<1>2. CASE /\ account[u].exists
           /\ \E h \in Passwords \cup {NoPassword} :
                /\ account' = [account EXCEPT ![u].hash = h]
                /\ secret'  = [secret EXCEPT ![u] = h]
  BY <1>2, SetsImplement DEF SetsHash
<1>3. CASE /\ ~account[u].exists
           /\ \E h \in Passwords : NewRow(u, h) /\ secret' = [secret EXCEPT ![u] = h]
  BY <1>3, CreatesImplement DEF Creates
<1>4. CASE /\ account[u].exists /\ UNCHANGED secret
           /\ account' = [account EXCEPT ![u] = [account[u] EXCEPT !.locked = ~@]]
  <2> DEFINE b == ~account[u].locked
  <2>1. b \in BOOLEAN
    BY <1>1 DEF Row
  <2>2. \A v \in Users : /\ account'[v].exists = account[v].exists
                         /\ account'[v].hash = account[v].hash
                         /\ account'[v].locked = IF v = u THEN b ELSE account[v].locked
    BY <1>1, <1>4, TypingNow DEF Row
  <2> HIDE DEF b
  <2>3. Exists' = Exists /\ Shown' = Shown /\ Locked' = [Locked EXCEPT ![u] = b] /\ Exists[u]
    BY <1>4, <2>2 DEF Exists, Shown, Locked
  <2>4. Lease!SetLock(u, b)
    BY <1>4, <2>3 DEF Lease!SetLock, Exists, Shown, Locked
  <2> QED
    BY <2>1, <2>4 DEF Lease!Next, Lease!SetLock
<1>5. CASE /\ account[u].exists /\ UNCHANGED secret
           /\ account' = [account EXCEPT ![u] = [account[u] EXCEPT !.exists = FALSE]]
  <2>1. \A v \in Users : /\ account'[v].exists = IF v = u THEN FALSE ELSE account[v].exists
                         /\ account'[v].hash = account[v].hash
                         /\ account'[v].locked = account[v].locked
    BY <1>1, <1>5, TypingNow DEF Row
  <2>2. Exists' = [Exists EXCEPT ![u] = FALSE] /\ Shown' = Shown /\ Locked' = Locked /\ Exists[u]
    BY <1>5, <2>1 DEF Exists, Shown, Locked
  <2>3. Lease!Delete(u)
    BY <1>5, <2>2 DEF Lease!Delete, Exists, Shown, Locked
  <2> QED
    BY <2>3 DEF Lease!Next
<1>6. CASE /\ UNCHANGED secret
           /\ \/ account' = [account EXCEPT ![u] = [account[u] EXCEPT !.disabled = ~@]]
              \/ account' = [account EXCEPT ![u] = [account[u] EXCEPT !.admin = ~@]]
  <2>1. \A v \in Users : /\ account'[v].exists = account[v].exists
                         /\ account'[v].hash = account[v].hash
                         /\ account'[v].locked = account[v].locked
    BY <1>1, <1>6, TypingNow DEF Row
  <2> QED
    BY <1>6, <2>1, OtherFields
<1> QED
  BY <1>2, <1>3, <1>4, <1>5, <1>6 DEF AdminEdits

LEMMA StepImplements ==
  RecoveryInvariant /\ LeaseInvariant /\ [Next]_vars => [Lease!Next]_(Lease!vars)
<1> SUFFICES ASSUME RecoveryInvariant, LeaseInvariant, [Next]_vars
             PROVE  [Lease!Next]_(Lease!vars)
  OBVIOUS
<1>1. Typing
  BY InvNow
<1>2. CASE UNCHANGED <<account, secret>>
  BY <1>1, <1>2, OtherFields
<1>3. ASSUME NEW p \in Procs, MarksAccount(p)
      PROVE  UNCHANGED Lease!vars
  <2> DEFINE b == proc[p].op = "disable"
  <2>1. /\ UNCHANGED secret /\ account' = [account EXCEPT ![proc[p].user].disabled = b]
    BY <1>3 DEF MarksAccount
  <2> HIDE DEF b
  <2>2. \A v \in Users : /\ account'[v].exists = account[v].exists
                         /\ account'[v].hash = account[v].hash
                         /\ account'[v].locked = account[v].locked
    BY <1>1, <2>1, TypingNow DEF Row
  <2> QED
    BY <1>1, <2>1, <2>2, OtherFields
<1>4. ASSUME NEW p \in Procs, ThreadStep(p)
      PROVE  [Lease!Next]_(Lease!vars)
  BY <1>1, <1>2, <1>3, <1>4, ThreadMovesRows, LendsImplement, GivesBackImplements,
     SetsImplement, CreatesImplement DEF RowsMove
<1>5. CASE (\E p \in Threads : Call(p)) \/ ScanStep \/ Environment
  BY <1>1, <1>2, <1>5, OthersWriteNothing, EditsImplement
<1>6. CASE UNCHANGED vars
  BY <1>2, <1>6 DEF vars
<1> QED
  BY <1>4, <1>5, <1>6 DEF Next

\* The temporary-password login implements the abstract lending: in any interleaving
\* and after any kill, every write of a row lends the permanent hash to one login,
\* gives the current one back, or is its owner's.
THEOREM LoginImplementsLease == Spec => ImplementsLease
<1>1. Init => Lease!Init
  <2> SUFFICES ASSUME Init PROVE Lease!Init
    OBVIOUS
  <2>1. /\ secret \in [Users -> Passwords]
        /\ \A u \in Users : account[u].exists = TRUE /\ account[u].hash = secret[u]
                            /\ account[u].locked = FALSE
    BY DEF Init
  <2>2. Exists = [u \in Users |-> TRUE] /\ Shown = secret /\ Locked = [u \in Users |-> FALSE]
    BY <2>1 DEF Exists, Shown, Locked
  <2> QED
    BY <2>1, <2>2 DEF Lease!Init, Exists, Shown, Locked
<1> QED
  BY <1>1, StepImplements, Recovery, OrderKept, PTL DEF Spec, ImplementsLease, Lease!Spec
====
