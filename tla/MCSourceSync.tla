---------------------------- MODULE MCSourceSync ----------------------------
EXTENDS SourceSyncProps

CONSTANTS s1, a, b, top, dev, ana, bob, team, corp

\* One source with a department below the root department.  Both have one
\* short name, so that they are named by path when both are visible.
A == <<s1, a>>
B == <<s1, b>>
Top == <<s1, top>>
Dev == <<s1, dev>>
MCSubjects == {A, B}
MCUnits == {Top, Dev}
MCUnitOrder == <<Top, Dev>>
MCPersonOrder == <<A, B>>
MCUserName == A :> ana @@ B :> bob
MCShortName == [d \in MCUnits |-> team]
MCPathName == Top :> team @@ Dev :> corp
MCParentOf == Top :> None @@ Dev :> Top
MCNames == {ana, bob, team, corp}

In(U) == [active |-> TRUE, units |-> U]
Out(U) == [active |-> FALSE, units |-> U]
Listing(U, users) == [source |-> s1, units |-> U, users |-> users]

\* Both in the root department; a also in the one below; a suspended; a gone;
\* no department visible any more; both suspended.
MCDirectories ==
  {Listing({Top}, A :> In({Top}) @@ B :> In({Top})),
   Listing({Top, Dev}, A :> In({Top, Dev}) @@ B :> In({Top})),
   Listing({Top}, A :> Out({Top}) @@ B :> In({Top})),
   Listing({Top}, B :> In({Top})),
   Listing({}, A :> Out({Top})),
   Listing({Top}, A :> Out({Top}) @@ B :> Out({Top}))}

\* At first both are active, or both suspended: the members are then asked for
\* again, and the department may be gone by then.
MCStarts ==
  {s1 :> Listing({Top}, A :> In({Top}) @@ B :> In({Top})),
   s1 :> Listing({Top}, A :> Out({Top}) @@ B :> Out({Top}))}
MCPlatforms ==
  {[kind |-> "wecom", stuck |-> FALSE, brief |-> FALSE],
   [kind |-> "feishu", stuck |-> FALSE, brief |-> TRUE],
   [kind |-> "dingtalk", stuck |-> FALSE, brief |-> TRUE],
   [kind |-> "dingtalk", stuck |-> TRUE, brief |-> FALSE]}
MCPolicies == {[deactivate |-> TRUE, disable |-> TRUE]}
=============================================================================
