-------------------------- MODULE PasswordResetProps --------------------------
(* What PasswordReset promises. *)
EXTENDS PasswordReset

Holds(u, s) == \A x \in Stores : store[u][x] = s

\* A password is never set twice for one request, however often the request
\* arrives and wherever the Helper was killed (applyPermanentPassword: "Never
\* restore shadow or auto-retry it").
AtMostOnce == \A r \in Requests : started[r] <= 1

\* The marker of an account says "completed" only while both stores hold the
\* password of the very request it names, unless a command outlived its Helper.
ConfirmedIsSet ==
  \A u \in Users : current[u].status = "completed" /\ u \notin stray
                     => Holds(u, args[current[u].req].source)

\* Logins are refused from before a command may write until it is known to have
\* written both stores (checkPasswordResetPending).
LoginsWait ==
  \A u \in Users : ~Pending(u) /\ u \notin stray =>
    /\ store[u]["dsm"] = store[u]["smb"]
    /\ \A r \in Requests : args[r].user = u => ~cmd[r].alive

\* A caller that is told "success" was served: the command of its request has
\* succeeded and the history says so for ever.
SuccessIsDurable == \A r \in Requests : answer[r] = "ok" => r \in done /\ record[r] = "completed"

\* A full synchronization that ends as a success has confirmed every reset it asked
\* for, whatever was lost, late or killed on the way (resetFullSyncPasswords joins
\* the errors of its accounts).
RunSucceeds(s) == run[s].on /\ ~run'[s].on /\ run'[s].result = "success"
SuccessfulRunConfirms ==
  [][\A s \in Sources : RunSucceeds(s) => \A r \in run[s].made : record[r] = "completed"]_vars

\* Every full synchronization comes to an end: it waits for ever neither for a lock
\* nor for a command nor for an answer (resetFullSyncPasswords over the client's
\* time-out).
RunsEnd == \A s \in Sources : run[s].on ~> ~run[s].on

\* "A delayed request must not reapply an old password after a newer full sync
\* finished" (password_reset_state.go:110): the password a completed reset has set
\* stays.  It need not: the command of a killed Helper goes on by itself.
CompletedPasswordStays ==
  \A u \in Users : current[u].status = "completed" => Holds(u, args[current[u].req].source)

-----------------------------------------------------------------------------
(* The inductive invariant behind AtMostOnce, ConfirmedIsSet, LoginsWait and   *)
(* SuccessIsDurable.                                                           *)

\* One goroutine at a time is in applyPermanentPassword.
OneWriter == \A p, q \in Threads : proc[p].pc \in SystemPcs /\ proc[q].pc \in SystemPcs => p = q

\* What each step of applyPermanentPassword may rely on.
MarkerIs(p, S) == current[UserOf(p)].req = proc[p].req /\ current[UserOf(p)].status \in S
StepKnows(p) ==
  LET r == proc[p].req
  IN /\ proc[p].pc # "idle" => r \in Requests /\ args[r].user \in Users
     /\ proc[p].pc = "write_request" => record[r] = "none"
     /\ proc[p].pc \in {"mark", "native"} => record[r] = "applying" /\ started[r] = 0
     /\ proc[p].pc \in {"native", "wait", "complete", "unknown", "unknown_mark"}
          => MarkerIs(p, {"applying"})
     /\ proc[p].pc \in {"wait", "unknown", "unknown_mark"} => r \notin done
     /\ proc[p].pc = "wait" => cmd[r].alive
     /\ proc[p].pc \in {"wait", "complete", "unknown", "unknown_mark"} => started[r] = 1
     /\ proc[p].pc \in {"complete", "confirm"} => r \in done
     /\ proc[p].pc = "confirm" => record[r] = "completed" /\ current[UserOf(p)].req = r

\* History, marker and command of a request agree.
HistoryKnows ==
  \A r \in Requests : /\ started[r] <= 1
                      /\ record[r] = "none" => started[r] = 0
                      /\ started[r] = 0 => ~cmd[r].alive /\ r \notin done
                      /\ record[r] = "completed" => r \in done
                      /\ r \in done => ~cmd[r].alive
                      /\ r \in done => args[r].user \in Users
                      /\ record[r] # "none" => args[r].user \in Users
                      /\ args[r].user \in Users <=> r <= issued
                      /\ args[r].user \in Users => args[r].source \in Sources
                      /\ answer[r] = "ok" => record[r] = "completed"
                      /\ r \in inbox => r <= issued

\* Unless a stray command may interfere, only the command of the request the
\* marker names is running, and the stores are what it has made of them.
MarkerKnows ==
  \A u \in Users :
    LET m == current[u].req
    IN /\ m = NoRequest <=> current[u].status = "none"
       /\ m # NoRequest => args[m].user = u /\ record[m] # "none"
       /\ current[u].status = "completed" => m \in done
       /\ u \notin stray =>
            /\ m = NoRequest => Holds(u, Own)
            /\ m \in done => Holds(u, args[m].source)
            /\ \A r \in Requests : cmd[r].alive /\ args[r].user = u =>
                 /\ \E p \in Threads : proc[p] = [pc |-> "wait", req |-> r]
                 /\ \A x \in Stores \ cmd[r].left : store[u][x] = args[r].source

ResetInvariant == /\ TypeOK
                  /\ OneWriter
                  /\ \A p \in Threads : StepKnows(p)
                  /\ HistoryKnows
                  /\ MarkerKnows

\* Behind SuccessfulRunConfirms: as long as a run has not failed, the history has
\* completed all it asked for but what it is waiting for.
RunsKnow == \A s \in Sources : run[s].on /\ run[s].result # "failed" =>
              \A r \in run[s].made : r = run[s].req \/ record[r] = "completed"
=============================================================================
