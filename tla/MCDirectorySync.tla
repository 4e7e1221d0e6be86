--------------------------- MODULE MCDirectorySync ---------------------------
EXTENDS DirectorySyncProps

CONSTANTS s1, s2, a, b, dev, ana, team

\* Ana has an account in both directories; the second one also lists another
\* person of that name.  Both have a department of one short name.
MCSources == {s1, s2}
MCSubjects == {<<s1, a>>, <<s2, a>>, <<s2, b>>}
MCUnits == {<<s1, dev>>, <<s2, dev>>}
MCUnitOrder == <<<<s1, dev>>, <<s2, dev>>>>
MCUserName == [x \in MCSubjects |-> ana]
MCShortName == [d \in MCUnits |-> team]
MCPathName == [d \in MCUnits |-> team]
MCParentOf == [d \in MCUnits |-> None]
MCNames == {ana, team}

Present(x) == [active |-> TRUE, units |-> {<<x[1], dev>>}]
Listing(s, X) == [source |-> s, units |-> {<<s, dev>>}, users |-> [x \in X |-> Present(x)]]
Ana(s) == Listing(s, {<<s, a>>})
Suspended(s) == [Ana(s) EXCEPT !.users = [x \in {<<s, a>>} |-> [@[x] EXCEPT !.active = FALSE]]]
MCDirectories ==
  {Ana(s1), Suspended(s1), Listing(s1, {}), Listing(s2, {<<s2, a>>, <<s2, b>>})}
MCStarts == {s1 :> Ana(s1) @@ s2 :> Listing(s2, {<<s2, a>>, <<s2, b>>})}
MCPolicies == {[deactivate |-> TRUE, disable |-> TRUE]}

\* Next to a restart there may be a change of a directory and a failure, but no
\* order (LoginFlow has both) and no further interval: a restart makes all runs due.
\* A suspension comes alone (SourceSync has it with restarts); of a change, an order,
\* a failure and an interval at most three come together.
MCBudget ==
  /\ left.restarts = Restarts \/ (left.orders = Orders /\ left.intervals = Intervals)
  /\ dir[s1] = Suspended(s1) =>
       left.orders = Orders /\ left.faults = Faults /\ left.restarts = Restarts
  /\ \/ left.changes = Changes \/ left.orders = Orders
     \/ left.faults = Faults \/ left.intervals = Intervals
=============================================================================
