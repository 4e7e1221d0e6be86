----------------------------- MODULE MCLoginFlow -----------------------------
EXTENDS LoginFlowProps

CONSTANTS s1, a, b, dev, ana, team

\* One source: Ana leaves, and another person of that name comes.
A == <<s1, a>>
B == <<s1, b>>
Dev == <<s1, dev>>
MCSubjects == {A, B}
MCUnits == {Dev}
MCUnitOrder == <<Dev>>
MCUserName == [x \in MCSubjects |-> ana]
MCGroupName == Dev :> team
MCParentOf == Dev :> None
MCNames == {ana, team}

Listing(X) ==
  [source |-> s1, units |-> {Dev}, users |-> [x \in X |-> [active |-> TRUE, units |-> {Dev}]]]
MCDirectories == {Listing({A}), Listing({B})}
MCStarts == {s1 :> Listing({A})}
MCPolicies == {[deactivate |-> TRUE, disable |-> TRUE]}
MCSymmetry == Permutations(Browsers) \cup Permutations(StateIds)
=============================================================================
