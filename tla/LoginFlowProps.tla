---------------------------- MODULE LoginFlowProps ----------------------------
(***************************************************************************)
(* What a login through an identity source promises.                       *)
(***************************************************************************)
EXTENDS LoginFlow

\* StateUsedOnce: a state lets at most one callback through, and only in the
\* browser and for the source that launched it (consumeOAuthState).
StateUsedOnce ==
  [][\A t \in StateIds, r \in Requests, b \in Browsers, s \in Sources :
       (Callback(r, b, s, t) /\ req'[r].pc = "exchange") =>
         t \notin passed /\ begun[t] = <<b, s>>]_flowVars

\* OwnStateAccepted: a browser that comes back to the source it was launched
\* from, in time and for the first time, is let through, whatever its other
\* tabs have launched meanwhile and whoever else has brought the same state
\* ("simultaneous tabs do not replace each other's browser binding"); only a
\* restart of the backend forgets states.
OwnStateAccepted ==
  [][\A t \in StateIds, r \in Requests, b \in Browsers, s \in Sources :
       (Callback(r, b, s, t) /\ begun[t] = <<b, s>> /\ t \notin passed \cup over)
         => req'[r].pc = "exchange"]_flowVars

\* LoginIsOwn: when the Helper agrees to a login, the account of that name is
\* the one of the identity that the callback found, and the person whom the
\* platform has named is at that moment active, mapped and allowed to log in at
\* an enabled source, whatever was renamed, synchronised, banned or deleted
\* since the lookup.  The query asks for the identity and the source: it speaks
\* of that person as long as the external account found then still stands.  It
\* is gone if the data of the source were deleted meanwhile; an identity that
\* another source shares outlives that, and may have a new holder.
LoginIsOwn ==
  [][\A r \in Requests :
       (AuthorizeLogin(r) /\ req'[r].pc = "lend") =>
         LET x == req[r].subject
             i == req[r].id
         IN  /\ db.acc[i] # None /\ db.acc[i].name = req[r].name
             /\ (db.ext[x] # None /\ db.ext[x].id = i) => CanLogin(x)]_flowVars
=============================================================================
