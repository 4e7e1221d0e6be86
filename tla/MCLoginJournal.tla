--------------------------- MODULE MCLoginJournal ---------------------------
(* Small instances of the temporary-password login for TLC. *)
EXTENDS LoginJournalProps, TLC

\* Accounts, threads, requests and passwords are interchangeable in the safety runs.
Interchangeable == Permutations(Users) \cup Permutations(Threads) \cup Permutations(Requests)
                   \cup Permutations(Passwords)
=============================================================================
