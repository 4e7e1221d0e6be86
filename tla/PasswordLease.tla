--------------------------- MODULE PasswordLease ---------------------------
(***************************************************************************)
(* What the login path of the Helper promises about an account's password: *)
(* it lends the shadow row to one login at a time and gives it back.       *)
(*                                                                         *)
(* "shown" is the hash in the row, "secret" the permanent hash last set by *)
(* its owner, an administrator or a confirmed reset.  Lending may replace  *)
(* only the permanent hash itself, on an unlocked row; giving back always  *)
(* puts in the current secret, and never undoes a lock.                    *)
(***************************************************************************)
CONSTANTS Users, Requests, Passwords, NoPassword

VARIABLES exists, secret, shown, locked

vars == <<exists, secret, shown, locked>>

Permanent == Passwords \cup {NoPassword}

Init == /\ exists = [u \in Users |-> TRUE]
        /\ secret \in [Users -> Passwords]
        /\ shown  = secret
        /\ locked = [u \in Users |-> FALSE]

\* A login borrows the row.
Lend(u, r) ==
  /\ exists[u] /\ ~locked[u]
  /\ shown[u] = secret[u] /\ secret[u] # NoPassword
  /\ shown' = [shown EXCEPT ![u] = r]
  /\ UNCHANGED <<exists, secret, locked>>

\* The row is given back, whether or not it was locked meanwhile.
GiveBack(u) ==
  /\ exists[u]
  /\ shown[u] \in Requests
  /\ shown' = [shown EXCEPT ![u] = secret[u]]
  /\ UNCHANGED <<exists, secret, locked>>

\* A permanent password is set, with or without a lease outstanding.
Set(u, h) ==
  /\ exists[u]
  /\ secret' = [secret EXCEPT ![u] = h]
  /\ shown'  = [shown EXCEPT ![u] = h]
  /\ UNCHANGED <<exists, locked>>

SetLock(u, b) ==
  /\ exists[u]
  /\ locked' = [locked EXCEPT ![u] = b]
  /\ UNCHANGED <<exists, secret, shown>>

Delete(u) ==
  /\ exists[u]
  /\ exists' = [exists EXCEPT ![u] = FALSE]
  /\ UNCHANGED <<secret, shown, locked>>

Create(u, h) ==
  /\ ~exists[u]
  /\ exists' = [exists EXCEPT ![u] = TRUE]
  /\ secret' = [secret EXCEPT ![u] = h]
  /\ shown'  = [shown EXCEPT ![u] = h]
  /\ locked' = [locked EXCEPT ![u] = FALSE]

Next == \E u \in Users :
  \/ \E r \in Requests : Lend(u, r)
  \/ GiveBack(u)
  \/ \E h \in Permanent : Set(u, h)
  \/ \E b \in BOOLEAN : SetLock(u, b)
  \/ Delete(u)
  \/ \E h \in Passwords : Create(u, h)

Spec == Init /\ [][Next]_vars
=============================================================================
