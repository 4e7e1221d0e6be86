--------------------------- MODULE SourceSyncProofs ---------------------------
(***************************************************************************)
(* What the reading of a directory, page by page, gives to the runs that   *)
(* use it: for any organisation and any number of people, departments,     *)
(* pages and changes.                                                      *)
(***************************************************************************)
EXTENDS SourceSyncProps, DirectorySyncProofs

\* The steps of each client's walk.
Stages(k) ==
  IF k = "wecom" THEN {"start", "visible", "members", "details", "done", "failed"}
  ELSE IF k = "feishu" THEN {"start", "tree", "members", "done", "failed"}
  ELSE IF k = "dingtalk" THEN {"start", "tree", "members", "details", "done", "failed"}
  ELSE {"start", "failed"}

Tokens == Subjects \cup Units \cup {None}

WalkRow ==
  [at : {"start", "tree", "visible", "members", "details", "done", "failed"},
   todo : Seq(Units \cup {None}), units : Seq(Units),
   page : [token : Tokens, seen : SUBSET Tokens],
   ids : SUBSET (Subjects \X SUBSET Units), users : Listings]

\* The locals of a walk, and which of them each step needs.
WalkTyped(k, f) ==
  /\ f \in WalkRow /\ f.at \in Stages(k)
  /\ f.page.token # None => f.page.token \in f.page.seen
  /\ f.at = "start" => f = NoFetch
  /\ f.at = "tree" => f.todo # <<>>
  /\ (f.at = "members" \/ (f.at = "details" /\ k # "wecom")) =>
        /\ f.units # <<>> /\ f.todo # <<>>
        /\ f.todo \in Seq(Units) /\ Range(f.todo) \subseteq Range(f.units)
  /\ (f.at = "visible" \/ (f.at = "details" /\ k = "wecom")) => f.units = <<>> /\ f.todo = <<>>
  /\ f.at = "done" => f.todo = <<>>

\* The queue of Feishu's walk begins above the first departments.
Above(k) == IF k = "feishu" THEN {None} ELSE {}

\* As long as the departments have not changed: those read so far are there,
\* and each of them is in the queue or its children have been read.
TreeKnown(s, f) ==
  /\ f.at = "tree" =>
       /\ Range(f.units) \subseteq Found(s)
       /\ Range(f.todo) \subseteq Range(f.units) \cup Above(Kind(s))
       /\ Kind(s) = "dingtalk" => Root(s) \in Range(f.units)
       /\ \A u \in Range(f.units) \cup Above(Kind(s)) :
            u \in Range(f.todo) \/ Children(s, u) \subseteq Range(f.units)
       /\ \A u \in Children(s, Head(f.todo)) :
            Later(UnitOrder, f.page.token, u) \/ u \in Range(f.units)
  /\ f.at \in {"visible", "members", "details", "done"} => Range(f.units) = Found(s)

\* What has been read of somebody is true.
ToldTruly(s, f, x) ==
  /\ x \in DOMAIN f.users =>
       /\ x \in Listed(s) /\ f.users[x].active = Seen(s, x)
       /\ f.users[x].units \subseteq dir[s].users[x].units
       /\ platform[s].brief \/ f.users[x].units = dir[s].users[x].units
  /\ \A id \in f.ids : id[1] = x => x \in Listed(s) /\ id[2] \subseteq dir[s].users[x].units

\* x has been found in department d; or is to be asked for.
FoundIn(f, x, d) == x \in DOMAIN f.users /\ d \in f.users[x].units
ToAsk(f, x) == \E id \in f.ids : id[1] = x

Paged(f, x) == ~Later(PersonOrder, f.page.token, x)

\* Nobody is passed over in the departments that have been read, ...
MemberKnown(s, f, x) ==
  f.units # <<>> =>
    /\ f.at \in {"members", "details", "done"} =>
         \A d \in Range(f.units) : x \in People(s, d) => d \in Range(f.todo) \/ FoundIn(f, x, d)
    /\ (f.at = "members" /\ Paged(f, x) /\ x \in People(s, Head(f.todo))) =>
         \/ Kind(s) = "dingtalk" /\ <<x, {Head(f.todo)}>> \in f.ids
         \/ FoundIn(f, x, Head(f.todo))
    /\ (f.at = "details" /\ x \in People(s, Head(f.todo))) =>
         <<x, {Head(f.todo)}>> \in f.ids \/ FoundIn(f, x, Head(f.todo))

\* ... nor, without departments, in WeCom's list.
VisibleKnown(s, f, x) ==
  (f.units = <<>> /\ Kind(s) = "wecom" /\ x \in Everybody(s)) =>
    /\ f.at = "visible" /\ Paged(f, x) => ToAsk(f, x)
    /\ f.at = "details" => ToAsk(f, x) \/ x \in DOMAIN f.users
    /\ f.at = "done" => x \in DOMAIN f.users

PersonKnown(s, f, x) == ToldTruly(s, f, x) /\ MemberKnown(s, f, x) /\ VisibleKnown(s, f, x)

\* The reading of s is right about everybody who has not moved since it began.
WalkKnown(s, f) ==
  /\ WalkTyped(Kind(s), f)
  /\ moved[s] # Subjects => TreeKnown(s, f)
  /\ \A x \in Subjects \ moved[s] : PersonKnown(s, f, x)

ReadingInvariant ==
  /\ platform \in [Sources -> Platforms]
  /\ moved \in [Sources -> SUBSET Subjects]
  /\ fetch \in [Sources -> WalkRow]
  /\ \A s \in Sources : WalkKnown(s, fetch[s])

SourceInvariant == SyncInvariant /\ ReadingInvariant
------------------------------------------------------------------------------
(***************************************************************************)
(* Lists.                                                                  *)
(***************************************************************************)
LEMMA RangeJoined ==
  ASSUME NEW S, NEW a \in Seq(S), NEW b \in Seq(S)
  PROVE  a \o b \in Seq(S) /\ Range(a \o b) = Range(a) \cup Range(b)
<1>1. a \o b \in Seq(S) /\ Len(a \o b) = Len(a) + Len(b)
  OBVIOUS
<1>2. \A i \in 1 .. Len(a) : i \in 1 .. Len(a \o b) /\ (a \o b)[i] = a[i]
  BY <1>1
<1>3. \A i \in 1 .. Len(b) : Len(a) + i \in 1 .. Len(a \o b) /\ (a \o b)[Len(a) + i] = b[i]
  BY <1>1
<1>4. \A i \in 1 .. Len(a \o b) :
        \/ i \in 1 .. Len(a)
        \/ i - Len(a) \in 1 .. Len(b) /\ i = Len(a) + (i - Len(a))
  BY <1>1
<1>5. DOMAIN a = 1 .. Len(a) /\ DOMAIN b = 1 .. Len(b) /\ DOMAIN (a \o b) = 1 .. Len(a \o b)
  BY <1>1
<1>6. ASSUME NEW i \in DOMAIN (a \o b) PROVE (a \o b)[i] \in Range(a) \cup Range(b)
  BY <1>2, <1>3, <1>4, <1>5 DEF Range
<1>7. ASSUME NEW i \in DOMAIN a PROVE a[i] \in Range(a \o b)
  BY <1>2, <1>5 DEF Range
<1>8. ASSUME NEW i \in DOMAIN b PROVE b[i] \in Range(a \o b)
  BY <1>3, <1>5 DEF Range
<1> QED
  BY <1>1, <1>6, <1>7, <1>8 DEF Range

LEMMA RangeOfTail ==
  ASSUME NEW S, NEW a \in Seq(S), a # <<>>
  PROVE  /\ Head(a) \in S /\ Tail(a) \in Seq(S)
         /\ Head(a) \in Range(a) /\ Range(a) = {Head(a)} \cup Range(Tail(a))
<1>1. /\ Head(a) = a[1] /\ 1 \in 1 .. Len(a) /\ Tail(a) \in Seq(S) /\ Len(Tail(a)) = Len(a) - 1
      /\ DOMAIN a = 1 .. Len(a) /\ DOMAIN Tail(a) = 1 .. Len(Tail(a)) /\ Len(a) \in Nat
  OBVIOUS
<1>2. \A i \in 1 .. Len(Tail(a)) : i + 1 \in 1 .. Len(a) /\ Tail(a)[i] = a[i + 1]
  BY <1>1
<1>3. \A i \in 1 .. Len(a) : i = 1 \/ (i - 1 \in 1 .. Len(Tail(a)) /\ (i - 1) + 1 = i)
  BY <1>1
<1>4. ASSUME NEW i \in DOMAIN a PROVE a[i] \in {Head(a)} \cup Range(Tail(a))
  <2>1. CASE i = 1
    BY <1>1, <2>1
  <2>2. CASE i # 1
    <3>1. i - 1 \in DOMAIN Tail(a) /\ (i - 1) + 1 = i
      BY <1>1, <1>3, <2>2
    <3>2. Tail(a)[i - 1] = a[i]
      BY <1>1, <1>2, <3>1
    <3> QED
      BY <3>1, <3>2 DEF Range
  <2> QED
    BY <2>1, <2>2
<1>5. ASSUME NEW i \in DOMAIN Tail(a) PROVE Tail(a)[i] \in Range(a)
  BY <1>1, <1>2 DEF Range
<1>6. Head(a) \in Range(a)
  BY <1>1 DEF Range
<1>7. Head(a) \in S
  BY <1>1
<1> QED
  BY <1>1, <1>4, <1>5, <1>6, <1>7 DEF Range

LEMMA EmptyRange ==
  /\ Range(<<>>) = {}
  /\ \A S : \A a \in Seq(S) : Range(a) = {} => a = <<>>
<1>1. DOMAIN <<>> = {}
  OBVIOUS
<1>2. ASSUME NEW S, NEW a \in Seq(S), a # <<>> PROVE Range(a) # {}
  BY <1>2, RangeOfTail
<1> QED
  BY <1>1, <1>2 DEF Range

LEMMA RangeTyped ==
  ASSUME NEW S, NEW a \in Seq(S)
  PROVE  Range(a) \subseteq S
  BY DEF Range

LEMMA AnyOrder ==
  ASSUME NEW S, IsFiniteSet(S), NEW q \in InAnyOrder(S)
  PROVE  q \in Seq(S) /\ Range(q) = S
<1>1. Cardinality(S) \in Nat
  BY FS_CardinalityType
<1> QED
  BY <1>1 DEF InAnyOrder
------------------------------------------------------------------------------
(***************************************************************************)
(* Pages.                                                                  *)
(***************************************************************************)
LEMMA Positions ==
  ASSUME NEW S, NEW order \in Seq(S), NEW x \in Range(order)
  PROVE  Position(order, x) \in 1 .. Len(order) /\ order[Position(order, x)] = x
<1>1. \E i \in DOMAIN order : order[i] = x
  BY DEF Range
<1>2. DOMAIN order = 1 .. Len(order)
  OBVIOUS
<1> QED
  BY <1>1, <1>2 DEF Position

\* A page is what follows its token up to the next token.
LEMMA PagesCover ==
  ASSUME NEW S, NEW order \in Seq(S), NEW list, IsFiniteSet(list), list \subseteq Range(order),
         None \notin list, NEW s, NEW token
  PROVE  LET page == PageOf(list, order, token)
             next == NextToken(s, list, order, token)
         IN  /\ page \subseteq list
             /\ next = None => \A x \in list : Later(order, token, x) => x \in page
             /\ next # None =>
                  \/ next = token
                  \/ next \in list /\ \A x \in list :
                       Later(order, token, x) => Later(order, next, x) \/ x \in page
<1> DEFINE rest == After(list, order, token)
           page == PageOf(list, order, token)
           next == NextToken(s, list, order, token)
           P(x) == Position(order, x)
           Before(x) == {y \in rest : Later(order, y, x)}
<1>1. page \subseteq rest /\ rest \subseteq list /\ \A x \in list : x \in rest <=> Later(order, token, x)
  BY DEF PageOf, After
<1>2. \A x \in list : P(x) \in 1 .. Len(order) /\ P(x) \in Nat /\ order[P(x)] = x
  BY Positions
<1>3. Len(order) \in Nat
  OBVIOUS
<1>4. \A x, y \in list : Later(order, x, y) <=> P(x) < P(y)
  BY DEF Later
<1>5. \A x \in rest : x \in page <=> Cardinality(Before(x)) < PageSize
  BY DEF PageOf
<1>6. \A x : IsFiniteSet(Before(x))
  BY <1>1, FS_Subset
<1>7. ASSUME page # rest PROVE page # {}
  <2> DEFINE T == {P(x) : x \in rest}
  <2>1. T \in SUBSET Nat /\ T # {}
    BY <1>1, <1>2, <1>7
  <2>2. PICK n \in T : \A m \in T : n <= m
    BY <2>1, UserLoop!LeastNat
  <2>3. PICK x \in rest : n = P(x)
    BY <2>2
  <2>4. ASSUME NEW y \in rest PROVE ~Later(order, y, x)
    <3>1. P(y) \in T /\ P(x) <= P(y)
      BY <2>2, <2>3
    <3>2. P(x) \in Nat /\ P(y) \in Nat
      BY <1>1, <1>2
    <3>3. Later(order, y, x) <=> P(y) < P(x)
      BY <1>1, <1>4
    <3> HIDE DEF P
    <3> QED
      BY <3>1, <3>2, <3>3
  <2>5. Before(x) = {}
    BY <2>4
  <2>6. Cardinality(Before(x)) = 0
    <3> HIDE DEF Before
    <3> QED
      BY <2>5, FS_EmptySet
  <2>7. 0 < PageSize
    BY FetchAssumption
  <2> QED
    BY <1>5, <2>6, <2>7
<1>8. ASSUME page # rest
      PROVE  LastOf(page, order) \in page /\ \A y \in page : ~Later(order, LastOf(page, order), y)
  <2> DEFINE T == {P(x) : x \in page}
  <2>1. T \in SUBSET (1 .. Len(order)) /\ T # {}
    BY <1>1, <1>2, <1>7, <1>8
  <2>2. \E n \in T : \A i \in T : n >= i
    <3> HIDE DEF T
    <3> QED
      BY <1>3, <2>1, UserLoop!MaxOf
  <2>3. PICK n \in T : \A i \in T : n >= i
    BY <2>2
  <2>4. PICK x \in page : n = P(x)
    BY <2>3
  <2>5. ASSUME NEW y \in page PROVE ~Later(order, x, y)
    <3>1. P(y) \in T /\ P(x) >= P(y)
      BY <2>3, <2>4
    <3>2. P(x) \in Nat /\ P(y) \in Nat
      BY <1>1, <1>2
    <3>3. Later(order, x, y) <=> P(x) < P(y)
      BY <1>1, <1>4
    <3> HIDE DEF P
    <3> QED
      BY <3>1, <3>2, <3>3
  <2> QED
    BY <2>4, <2>5 DEF LastOf
<1>9. ASSUME next # None, next # token
      PROVE  next \in list /\ \A x \in list :
               Later(order, token, x) => Later(order, next, x) \/ x \in page
  <2>1. page # rest /\ next = LastOf(page, order)
    BY <1>9 DEF NextToken
  <2>2. next \in page
    BY <1>8, <2>1
  <2>3. ASSUME NEW x \in rest, ~Later(order, next, x) PROVE x \in page
    <3>1. P(x) <= P(next)
      BY <1>1, <1>2, <1>4, <2>2, <2>3
    <3>2. Before(x) \subseteq Before(next)
      BY <1>1, <1>2, <1>4, <2>2, <2>3, <3>1
    <3>3. Cardinality(Before(x)) <= Cardinality(Before(next))
      BY <1>6, <3>2, FS_Subset
    <3>4. Cardinality(Before(x)) \in Nat /\ Cardinality(Before(next)) \in Nat /\ PageSize \in Nat
      BY <1>6, FS_CardinalityType, FetchAssumption
    <3>5. Cardinality(Before(next)) < PageSize
      BY <1>1, <1>5, <2>2
    <3>6. Cardinality(Before(x)) < PageSize
      BY <3>3, <3>4, <3>5
    <3> QED
      BY <1>5, <3>6
  <2> QED
    BY <1>1, <2>2, <2>3
<1>10. ASSUME next = None PROVE \A x \in list : Later(order, token, x) => x \in page
  <2>1. page = rest
    <3> SUFFICES ASSUME page # rest PROVE FALSE
      OBVIOUS
    <3>1. next = LastOf(page, order)
      BY <1>10 DEF NextToken
    <3> QED
      BY <1>1, <1>8, <1>10, <3>1
  <2> QED
    BY <1>1, <2>1
<1> HIDE DEF page, next
<1> QED
  BY <1>1, <1>9, <1>10 DEF page, next
------------------------------------------------------------------------------
(***************************************************************************)
(* Organisations that stay as they are, or change for others.              *)
(***************************************************************************)
LEMMA Organised ==
  ASSUME SyncInvariant, NEW s \in Sources
  PROVE  /\ dir[s].users \in Listings /\ dir[s].units \in SUBSET Units
         /\ Everybody(s) \in SUBSET Subjects /\ IsFiniteSet(Everybody(s))
         /\ \A x \in Everybody(s) : /\ dir[s].users[x].active \in BOOLEAN
                                    /\ dir[s].users[x].units \in SUBSET Units
         /\ \A d : /\ People(s, d) \subseteq Everybody(s) /\ IsFiniteSet(People(s, d))
                   /\ Children(s, d) \in SUBSET Units /\ IsFiniteSet(Children(s, d))
         /\ IsFiniteSet(dir[s].units)
<1>1. dir[s] \in Directories
  BY DEF SyncInvariant, World
<1>2. dir[s].users \in Listings /\ dir[s].units \in SUBSET Units
  BY <1>1, SyncAssumption
<1>3. PICK X \in SUBSET Subjects : dir[s].users \in [X -> [active : BOOLEAN, units : SUBSET Units]]
  BY <1>2 DEF Listings
<1>4. IsFiniteSet(Subjects) /\ IsFiniteSet(Units)
  BY MappingAssumption
<1>5. Everybody(s) \in SUBSET Subjects /\ \A d : People(s, d) \subseteq Everybody(s)
  BY <1>3 DEF Everybody, People
<1>6. \A d : Children(s, d) \in SUBSET Units
  BY <1>2 DEF Children
<1>7. \A x \in Everybody(s) : /\ dir[s].users[x].active \in BOOLEAN
                              /\ dir[s].users[x].units \in SUBSET Units
  BY <1>3 DEF Everybody
<1>8. /\ \A d : IsFiniteSet(People(s, d)) /\ IsFiniteSet(Children(s, d))
      /\ IsFiniteSet(Everybody(s)) /\ IsFiniteSet(dir[s].units)
  BY <1>2, <1>4, <1>5, <1>6, FS_Subset
<1> QED
  BY <1>2, <1>5, <1>6, <1>7, <1>8

LEMMA SameTree ==
  ASSUME NEW s, dir'[s].units = dir[s].units, platform' = platform
  PROVE  /\ Kind(s)' = Kind(s) /\ Found(s)' = Found(s)
         /\ \A u : Children(s, u)' = Children(s, u)
<1>1. Kind(s)' = Kind(s) /\ \A u : Children(s, u)' = Children(s, u)
  BY DEF Kind, Children
<1>2. \A U : Reaches(s, U)' <=> Reaches(s, U)
  BY <1>1 DEF Reaches
<1>3. Found(s)' = Found(s)
  BY <1>1, <1>2 DEF Found
<1> QED
  BY <1>1, <1>3

LEMMA TreeStays ==
  ASSUME NEW s, NEW f, TreeKnown(s, f), dir'[s].units = dir[s].units, platform' = platform
  PROVE  TreeKnown(s, f)'
  BY SameTree DEF TreeKnown

\* What is known of somebody who stays in his place.
LEMMA PersonStays ==
  ASSUME NEW s, NEW f, NEW x, PersonKnown(s, f, x), platform' = platform,
         Place(dir', s, x) = Place(dir, s, x)
  PROVE  PersonKnown(s, f, x)'
<1>1. /\ dir'[s].units = dir[s].units
      /\ x \in DOMAIN dir'[s].users <=> x \in DOMAIN dir[s].users
      /\ x \in DOMAIN dir[s].users => dir'[s].users[x] = dir[s].users[x]
  BY DEF Place
<1>2. Kind(s)' = Kind(s) /\ Found(s)' = Found(s)
  BY <1>1, SameTree
<1>3. /\ (x \in Listed(s))' <=> x \in Listed(s)
      /\ x \in Listed(s) => Seen(s, x)' = Seen(s, x) /\ x \in DOMAIN dir[s].users
      /\ (x \in Everybody(s))' <=> x \in Everybody(s)
      /\ \A d : (x \in People(s, d))' <=> x \in People(s, d)
  BY <1>1, <1>2 DEF Listed, Seen, Everybody, People
<1>4. ToldTruly(s, f, x)'
  <2>1. ToldTruly(s, f, x)
    BY DEF PersonKnown
  <2> QED
    BY <1>1, <1>3, <2>1 DEF ToldTruly
<1>5. MemberKnown(s, f, x)'
  <2>1. MemberKnown(s, f, x)
    BY DEF PersonKnown
  <2> QED
    BY <1>2, <1>3, <2>1 DEF MemberKnown
<1>6. VisibleKnown(s, f, x)'
  <2>1. VisibleKnown(s, f, x)
    BY DEF PersonKnown
  <2> QED
    BY <1>2, <1>3, <2>1 DEF VisibleKnown
<1> QED
  BY <1>4, <1>5, <1>6 DEF PersonKnown

\* Whoever moves is noted.
LEMMA WalkStays ==
  ASSUME NEW s, NEW f, WalkKnown(s, f), platform' = platform, moved[s] \in SUBSET Subjects,
         moved'[s] = moved[s] \cup {x \in Subjects : Place(dir', s, x) # Place(dir, s, x)}
  PROVE  WalkKnown(s, f)'
<1>1. WalkTyped(Kind(s), f)'
  BY DEF WalkKnown, Kind
<1>2. ASSUME (moved[s] # Subjects)' PROVE TreeKnown(s, f)'
  <2>1. PICK x \in Subjects : x \notin moved'[s]
    BY <1>2
  <2>2. x \notin moved[s] /\ Place(dir', s, x) = Place(dir, s, x)
    BY <2>1
  <2>3. dir'[s].units = dir[s].units
    BY <2>2 DEF Place
  <2>4. TreeKnown(s, f)
    BY <2>2 DEF WalkKnown
  <2> QED
    BY <2>3, <2>4, TreeStays
<1>3. ASSUME NEW x \in Subjects \ moved'[s] PROVE PersonKnown(s, f, x)'
  <2>1. x \in Subjects \ moved[s] /\ Place(dir', s, x) = Place(dir, s, x)
    BY <1>3
  <2> QED
    BY <2>1, PersonStays DEF WalkKnown
<1> QED
  BY <1>1, <1>2, <1>3 DEF WalkKnown

LEMMA NothingTyped ==
  ASSUME NEW k
  PROVE  NoFetch \in WalkRow /\ WalkTyped(k, NoFetch)
<1>1. <<>> \in Listings /\ DOMAIN <<>> = {}
  <2>1. <<>> \in [{} -> [active : BOOLEAN, units : SUBSET Units]]
    OBVIOUS
  <2> QED
    BY <2>1 DEF Listings
<1>2. NoPage \in [token : Tokens, seen : SUBSET Tokens] /\ NoPage.token = None
  BY DEF NoPage, Tokens
<1>3. NoFetch \in WalkRow
  BY <1>1, <1>2 DEF NoFetch, WalkRow
<1> QED
  BY <1>2, <1>3 DEF NoFetch, WalkTyped, Stages

\* Nothing is known of a walk that has not begun, and nothing needs to be.
LEMMA NothingKnown ==
  ASSUME NEW s
  PROVE  WalkKnown(s, NoFetch)
<1>1. /\ NoFetch.at = "start" /\ NoFetch.ids = {} /\ NoFetch.users = <<>> /\ NoFetch.units = <<>>
      /\ DOMAIN <<>> = {}
  BY DEF NoFetch
<1>2. TreeKnown(s, NoFetch)
  BY <1>1 DEF TreeKnown
<1>3. \A x : PersonKnown(s, NoFetch, x)
  BY <1>1 DEF PersonKnown, ToldTruly, MemberKnown, VisibleKnown
<1> QED
  BY <1>2, <1>3, NothingTyped DEF WalkKnown

\* The same, in the state after a step.
LEMMA NothingKnownNext ==
  ASSUME NEW s, platform' = platform
  PROVE  WalkKnown(s, NoFetch)'
<1>1. /\ NoFetch.at = "start" /\ NoFetch.ids = {} /\ NoFetch.users = <<>> /\ NoFetch.units = <<>>
      /\ DOMAIN <<>> = {}
  BY DEF NoFetch
<1>2. TreeKnown(s, NoFetch)'
  BY <1>1 DEF TreeKnown
<1>3. \A x : PersonKnown(s, NoFetch, x)'
  BY <1>1 DEF PersonKnown, ToldTruly, MemberKnown, VisibleKnown
<1>4. WalkTyped(Kind(s), NoFetch)'
  BY NothingTyped DEF Kind, WalkTyped
<1> QED
  BY <1>2, <1>3, <1>4 DEF WalkKnown

\* A step of a walk concerns no other one.
LEMMA OneWalk ==
  ASSUME ReadingInvariant, NEW s \in Sources, NEW g \in WalkRow, WalkKnown(s, g),
         fetch' = [fetch EXCEPT ![s] = g], UNCHANGED <<vars, moved, platform>>
  PROVE  ReadingInvariant'
<1>1. dir' = dir /\ moved' = moved /\ platform' = platform
  BY DEF vars
<1>2. /\ platform \in [Sources -> Platforms] /\ moved \in [Sources -> SUBSET Subjects]
      /\ fetch \in [Sources -> WalkRow] /\ \A t \in Sources : WalkKnown(t, fetch[t])
  BY DEF ReadingInvariant
<1>3. \A t, x : Place(dir', t, x) = Place(dir, t, x)
  BY <1>1
<1>4. \A t : moved'[t] = moved[t] \cup {x \in Subjects : Place(dir', t, x) # Place(dir, t, x)}
  BY <1>1, <1>3
<1>5. \A t \in Sources : WalkKnown(t, fetch'[t])
  BY <1>2
<1>6. ASSUME NEW t \in Sources PROVE WalkKnown(t, fetch[t])'
  <2>1. PICK h : h = fetch'[t]
    OBVIOUS
  <2>2. WalkKnown(t, h)
    <3>1. fetch'[t] = IF t = s THEN g ELSE fetch[t]
      BY <1>2
    <3> QED
      BY <1>2, <2>1, <3>1
  <2>3. WalkKnown(t, h)'
    <3>1. moved[t] \in SUBSET Subjects
      BY <1>2
    <3> QED
      BY <1>1, <1>4, <2>2, <3>1, WalkStays
  <2> QED
    BY <2>1, <2>3
<1>7. (fetch \in [Sources -> WalkRow])'
  BY <1>2
<1> QED
  BY <1>1, <1>2, <1>6, <1>7 DEF ReadingInvariant

LEMMA WalkFails ==
  ASSUME NEW s, NEW f, WalkKnown(s, f), NEW g, g = [f EXCEPT !.at = "failed"]
  PROVE  g \in WalkRow /\ WalkKnown(s, g)
<1>1. f \in WalkRow /\ (f.page.token # None => f.page.token \in f.page.seen)
  BY DEF WalkKnown, WalkTyped
<1>2. /\ g \in WalkRow /\ g.at = "failed"
      /\ g.ids = f.ids /\ g.users = f.users /\ g.units = f.units /\ g.page = f.page
  BY <1>1 DEF WalkRow
<1>3. WalkTyped(Kind(s), g)
  BY <1>1, <1>2 DEF WalkTyped, Stages
<1>4. TreeKnown(s, g)
  BY <1>2 DEF TreeKnown
<1>5. ASSUME NEW x \in Subjects \ moved[s] PROVE PersonKnown(s, g, x)
  <2>1. ToldTruly(s, f, x)
    BY DEF WalkKnown, PersonKnown
  <2>2. ToldTruly(s, g, x)
    BY <1>2, <2>1 DEF ToldTruly
  <2> QED
    BY <1>2, <2>2 DEF PersonKnown, MemberKnown, VisibleKnown
<1> QED
  BY <1>2, <1>3, <1>4, <1>5 DEF WalkKnown
------------------------------------------------------------------------------
(***************************************************************************)
(* The tree of departments.                                                *)
(***************************************************************************)
LEMMA RootExists ==
  ASSUME NEW s \in Sources
  PROVE  Root(s) \in Units /\ Root(s)[1] = s /\ ParentOf[Root(s)] = None
<1>1. \E u \in Units : u[1] = s /\ ParentOf[u] = None
  BY FetchAssumption
<1> QED
  BY <1>1 DEF Root

\* What the tree reaches is reached, and nothing else is.
LEMMA FoundReaches ==
  ASSUME SyncInvariant, NEW s \in Sources, Kind(s) # "wecom"
  PROVE  Reaches(s, Found(s)) /\ Found(s) \in SUBSET Units
<1>1. Found(s) = {u \in Units : \A U \in SUBSET Units : Reaches(s, U) => u \in U}
  BY DEF Found
<1>2. \A d : Children(s, d) \in SUBSET Units
  BY Organised
<1>3. IF Kind(s) = "dingtalk" THEN Root(s) \in Found(s) ELSE Children(s, None) \subseteq Found(s)
  BY <1>1, <1>2, RootExists DEF Reaches
<1>4. ASSUME NEW u \in Found(s) PROVE Children(s, u) \subseteq Found(s)
  BY <1>1, <1>2, <1>4 DEF Reaches
<1> QED
  BY <1>1, <1>3, <1>4 DEF Reaches

LEMMA FoundLeast ==
  ASSUME NEW s, Kind(s) # "wecom", NEW U \in SUBSET Units, Reaches(s, U)
  PROVE  Found(s) \subseteq U
  BY DEF Found

\* The department at the head of the queue is one that is found.
LEMMA HeadFound ==
  ASSUME SyncInvariant, NEW s \in Sources, NEW f, WalkTyped(Kind(s), f), f.at = "tree",
         TreeKnown(s, f)
  PROVE  Children(s, Head(f.todo)) \subseteq Found(s)
<1>1. f.todo \in Seq(Units \cup {None}) /\ f.todo # <<>> /\ Kind(s) # "wecom"
  BY DEF WalkTyped, WalkRow, Stages
<1>2. Head(f.todo) \in Range(f.todo)
  BY <1>1, RangeOfTail
<1>3. Head(f.todo) \in Found(s) \/ (Kind(s) = "feishu" /\ Head(f.todo) = None)
  BY <1>2 DEF TreeKnown, Above
<1> QED
  BY <1>1, <1>3, FoundReaches DEF Reaches

\* A reading of departments says nothing new of people.
LEMMA OnlyDepartments ==
  ASSUME NEW s, NEW f, WalkKnown(s, f), NEW g \in WalkRow, WalkTyped(Kind(s), g),
         moved[s] # Subjects => TreeKnown(s, g), g.users = f.users, g.ids = f.ids,
         \/ g.at = "tree"
         \/ /\ g.todo = g.units /\ g.page = NoPage /\ g.at \in {"members", "visible", "done"}
            /\ g.units = <<>> /\ Kind(s) = "wecom" => g.at = "visible"
  PROVE  WalkKnown(s, g)
<1>1. ASSUME NEW x \in Subjects \ moved[s] PROVE PersonKnown(s, g, x)
  <2>1. ToldTruly(s, f, x)
    BY DEF WalkKnown, PersonKnown
  <2>2. ToldTruly(s, g, x)
    BY <2>1 DEF ToldTruly
  <2>3. g.at = "tree" \/ ~Paged(g, x)
    BY DEF Paged, Later, NoPage
  <2>4. MemberKnown(s, g, x)
    BY <2>3 DEF MemberKnown
  <2>5. VisibleKnown(s, g, x)
    BY <2>3 DEF VisibleKnown
  <2> QED
    BY <2>2, <2>4, <2>5 DEF PersonKnown
<1> QED
  BY <1>1 DEF WalkKnown

\* Some children are queued, and the page is turned.
LEMMA TreeTurns ==
  ASSUME SyncInvariant, NEW s \in Sources, NEW f, WalkKnown(s, f), f.at = "tree",
         NEW q \in Seq(Units), Range(q) \subseteq Children(s, Head(f.todo)),
         NEW page, page \in [token : Tokens, seen : SUBSET Tokens],
         page.token # None => page.token \in page.seen,
         TreeKnown(s, f) => \A u \in Children(s, Head(f.todo)) :
           Later(UnitOrder, page.token, u) \/ u \in Range(f.units) \cup Range(q),
         NEW g, g = [Queued(f, q) EXCEPT !.page = page]
  PROVE  g \in WalkRow /\ WalkKnown(s, g)
<1>1. /\ f \in WalkRow /\ f.todo # <<>> /\ Kind(s) # "wecom" /\ f.at \in Stages(Kind(s))
      /\ WalkTyped(Kind(s), f)
  BY DEF WalkKnown, WalkTyped, Stages
<1>2. f.todo \in Seq(Units \cup {None}) /\ f.units \in Seq(Units) /\ q \in Seq(Units \cup {None})
  BY <1>1 DEF WalkRow
<1>3. /\ f.todo \o q \in Seq(Units \cup {None}) /\ Range(f.todo \o q) = Range(f.todo) \cup Range(q)
      /\ f.units \o q \in Seq(Units) /\ Range(f.units \o q) = Range(f.units) \cup Range(q)
  BY <1>2, RangeJoined
<1>4. f.todo \o q # <<>> /\ Head(f.todo \o q) = Head(f.todo)
  BY <1>1, <1>2
<1>5. /\ g \in WalkRow /\ g.at = "tree" /\ g.todo = f.todo \o q /\ g.units = f.units \o q
      /\ g.page = page /\ g.users = f.users /\ g.ids = f.ids
  BY <1>1, <1>3 DEF WalkRow, Queued
<1>6. WalkTyped(Kind(s), g)
  BY <1>1, <1>4, <1>5 DEF WalkTyped
<1>7. ASSUME TreeKnown(s, f) PROVE TreeKnown(s, g)
  <2>1. Children(s, Head(f.todo)) \subseteq Found(s)
    BY <1>1, <1>7, HeadFound
  <2> QED
    BY <1>3, <1>4, <1>5, <1>7, <2>1 DEF TreeKnown
<1> QED
  BY <1>5, <1>6, <1>7, OnlyDepartments DEF WalkKnown

\* With the last children the department has been read; with the last
\* department the tree.
LEMMA TreeEnds ==
  ASSUME SyncInvariant, NEW s \in Sources, NEW f, WalkKnown(s, f), f.at = "tree",
         NEW q \in Seq(Units), Range(q) \subseteq Children(s, Head(f.todo)),
         TreeKnown(s, f) => Children(s, Head(f.todo)) \subseteq Range(f.units) \cup Range(q),
         NEW g, g = TreeRead(Queued(f, q))
  PROVE  g \in WalkRow /\ WalkKnown(s, g)
<1> DEFINE U == Range(f.units) \cup Range(q)
           H == Head(f.todo)
           rest == Tail(f.todo \o q)
<1>1. /\ f \in WalkRow /\ f.todo # <<>> /\ Kind(s) \in {"feishu", "dingtalk"}
      /\ f.at \in Stages(Kind(s)) /\ WalkTyped(Kind(s), f)
  BY DEF WalkKnown, WalkTyped, Stages
<1>2. f.todo \in Seq(Units \cup {None}) /\ f.units \in Seq(Units) /\ q \in Seq(Units \cup {None})
  BY <1>1 DEF WalkRow
<1>3. /\ f.todo \o q \in Seq(Units \cup {None}) /\ Range(f.todo \o q) = Range(f.todo) \cup Range(q)
      /\ f.units \o q \in Seq(Units) /\ Range(f.units \o q) = U
  BY <1>2, RangeJoined
<1>4. f.todo \o q # <<>> /\ Head(f.todo \o q) = H
  BY <1>1, <1>2
<1>5. rest \in Seq(Units \cup {None}) /\ Range(f.todo) \cup Range(q) = {H} \cup Range(rest)
  BY <1>3, <1>4, RangeOfTail
<1>6. NoPage \in [token : Tokens, seen : SUBSET Tokens] /\ NoPage.token = None
  BY DEF NoPage, Tokens
<1>7. ASSUME TreeKnown(s, f)
      PROVE  /\ U \subseteq Found(s)
             /\ Kind(s) = "dingtalk" => Root(s) \in U
             /\ \A u \in U \cup Above(Kind(s)) : u \in Range(rest) \/ Children(s, u) \subseteq U
             /\ Range(rest) \subseteq U \cup Above(Kind(s))
  <2>1. Children(s, H) \subseteq Found(s)
    BY <1>1, <1>7, HeadFound
  <2>2. /\ Range(f.units) \subseteq Found(s)
        /\ Range(f.todo) \subseteq Range(f.units) \cup Above(Kind(s))
        /\ Kind(s) = "dingtalk" => Root(s) \in Range(f.units)
        /\ \A u \in Range(f.units) \cup Above(Kind(s)) :
             u \in Range(f.todo) \/ Children(s, u) \subseteq Range(f.units)
    BY <1>7 DEF TreeKnown
  <2> QED
    BY <1>5, <1>7, <2>1, <2>2
<1>8. PICK m : m = Queued(f, q)
  OBVIOUS
<1>9. /\ m \in WalkRow /\ m.units = f.units \o q /\ m.todo = f.todo \o q
      /\ m.at = "tree" /\ m.users = f.users /\ m.ids = f.ids
  BY <1>1, <1>3, <1>8 DEF Queued, WalkRow
<1>10. CASE rest = <<>>
  <2>1. g = UnitsRead(m, "done") /\ m.units \in Seq(Units \cup {None})
    BY <1>2, <1>8, <1>9, <1>10 DEF TreeRead
  <2>2. /\ g.units = f.units \o q /\ g.todo = g.units /\ g.page = NoPage
        /\ g.at = IF g.units = <<>> THEN "done" ELSE "members"
        /\ g \in WalkRow /\ g.users = f.users /\ g.ids = f.ids
    BY <1>6, <1>9, <2>1 DEF UnitsRead, WalkRow
  <2>3. ASSUME TreeKnown(s, f) PROVE TreeKnown(s, g)
    <3>1. Range(rest) = {}
      BY <1>10, EmptyRange
    <3>2. /\ Kind(s) = "dingtalk" => Root(s) \in U
          /\ \A u \in U \cup Above(Kind(s)) : Children(s, u) \subseteq U
          /\ U \subseteq Found(s)
      BY <1>7, <2>3, <3>1
    <3>3. Kind(s) # "dingtalk" => None \in Above(Kind(s))
      BY <1>1 DEF Above
    <3>4. U \in SUBSET Units
      BY <1>3, RangeTyped
    <3>5. U = Found(s)
      <4> HIDE DEF U
      <4>1. Reaches(s, U)
        BY <3>2, <3>3 DEF Reaches
      <4> QED
        BY <1>1, <3>2, <3>4, <4>1, FoundLeast
    <3> QED
      BY <1>3, <2>2, <3>5 DEF TreeKnown
  <2>4. WalkTyped(Kind(s), g)
    BY <1>1, <1>3, <1>6, <2>2 DEF WalkTyped, Stages
  <2> QED
    BY <1>1, <2>2, <2>3, <2>4, OnlyDepartments DEF WalkKnown
<1>11. CASE rest # <<>>
  <2>1. /\ g.units = f.units \o q /\ g.todo = rest /\ g.page = NoPage /\ g.at = "tree"
        /\ g \in WalkRow /\ g.users = f.users /\ g.ids = f.ids
    BY <1>5, <1>6, <1>8, <1>9, <1>11 DEF TreeRead, WalkRow
  <2>2. ASSUME TreeKnown(s, f) PROVE TreeKnown(s, g)
    BY <1>3, <1>6, <1>7, <2>1, <2>2 DEF TreeKnown, Later
  <2>3. WalkTyped(Kind(s), g)
    BY <1>1, <1>6, <1>11, <2>1 DEF WalkTyped
  <2> QED
    BY <2>1, <2>2, <2>3, OnlyDepartments DEF WalkKnown
<1> QED
  BY <1>10, <1>11
------------------------------------------------------------------------------
(***************************************************************************)
(* The answers that name departments.                                      *)
(***************************************************************************)
\* After a page, either it was the last one and has the rest of the list; or
\* the next page begins behind it; or the walk fails.
LEMMA PageRead ==
  ASSUME NEW S, NEW order \in Seq(S), NEW list, IsFiniteSet(list), list \subseteq Range(order),
         None \notin list, NEW s, WalkTyped(Kind(s), fetch[s]), NEW got, NEW last,
         Page(s, list, order, got, last)
  PROVE  LET page == fetch[s].page
             items == Items(s, list, order)
         IN  /\ items \subseteq list
             /\ \/ Fails(s)
                \/ /\ fetch' = [fetch EXCEPT ![s] = last]
                   /\ \A x \in list : Later(order, page.token, x) => x \in items
                \/ \E token \in list :
                     /\ fetch' = [fetch EXCEPT ![s] = [got EXCEPT !.page = Turn(page, token)]]
                     /\ \A x \in list :
                          Later(order, page.token, x) => Later(order, token, x) \/ x \in items
<1> DEFINE page == fetch[s].page
           token == NextToken(s, list, order, page.token)
           items == Items(s, list, order)
<1>1. /\ items \subseteq list
      /\ token = None => \A x \in list : Later(order, page.token, x) => x \in items
      /\ token # None =>
           \/ token = page.token
           \/ token \in list /\ \A x \in list :
                Later(order, page.token, x) => Later(order, token, x) \/ x \in items
  BY PagesCover DEF Items
<1>2. page.token # None => page.token \in page.seen
  BY DEF WalkTyped
<1>3. \/ token = None /\ fetch' = [fetch EXCEPT ![s] = last]
      \/ /\ token # None /\ token \notin page.seen
         /\ fetch' = [fetch EXCEPT ![s] = [got EXCEPT !.page = Turn(page, token)]]
      \/ Fails(s)
  BY DEF Page, NewToken
<1> HIDE DEF token
<1> QED
  BY <1>1, <1>2, <1>3

LEMMA TurnPage ==
  ASSUME NEW f \in WalkRow, NEW token \in Tokens
  PROVE  /\ Turn(f.page, token) \in [token : Tokens, seen : SUBSET Tokens]
         /\ Turn(f.page, token).token = token /\ token \in Turn(f.page, token).seen
         /\ NoPage \in [token : Tokens, seen : SUBSET Tokens] /\ NoPage.token = None
  BY DEF Turn, WalkRow, NoPage, Tokens

LEMMA FailsKeeps ==
  ASSUME ReadingInvariant, NEW s \in Sources, Fails(s), UNCHANGED <<vars, moved, platform>>
  PROVE  ReadingInvariant'
<1>1. WalkKnown(s, fetch[s]) /\ fetch \in [Sources -> WalkRow]
  BY DEF ReadingInvariant
<1>2. PICK g : g = [fetch[s] EXCEPT !.at = "failed"]
  OBVIOUS
<1>3. g \in WalkRow /\ WalkKnown(s, g)
  BY <1>1, <1>2, WalkFails
<1>4. fetch' = [fetch EXCEPT ![s] = g]
  BY <1>1, <1>2 DEF Fails
<1> QED
  BY <1>3, <1>4, OneWalk

LEMMA UnitsAreTokens == Units = Range(UnitOrder) /\ UnitOrder \in Seq(Units) /\ None \notin Units
  BY FetchAssumption, MappingAssumption

LEMMA WeComDepartmentsKeeps ==
  ASSUME SourceInvariant, NEW s \in Sources, WeComDepartments(s), UNCHANGED <<vars, moved, platform>>
  PROVE  ReadingInvariant'
<1>1. PICK list \in InAnyOrder(dir[s].units) :
        fetch' = [fetch EXCEPT ![s] = UnitsRead([NoFetch EXCEPT !.units = list], "visible")]
  BY DEF WeComDepartments
<1>2. SyncInvariant /\ ReadingInvariant /\ WalkKnown(s, fetch[s])
  BY DEF SourceInvariant, ReadingInvariant
<1>3. Kind(s) = "wecom" /\ fetch[s] = NoFetch
  BY <1>2 DEF WeComDepartments, At, WalkKnown, WalkTyped
<1>4. dir[s].units \in SUBSET Units /\ IsFiniteSet(dir[s].units)
  BY <1>2, Organised
<1>5. list \in Seq(dir[s].units) /\ Range(list) = dir[s].units
  BY <1>4, AnyOrder
<1>6. list \in Seq(Units) /\ list \in Seq(Units \cup {None})
  BY <1>4, <1>5
<1>7. PICK g : g = UnitsRead([NoFetch EXCEPT !.units = list], "visible")
  OBVIOUS
<1>8. /\ NoFetch \in WalkRow /\ NoFetch.users = fetch[s].users /\ NoFetch.ids = fetch[s].ids
      /\ NoPage \in [token : Tokens, seen : SUBSET Tokens] /\ NoPage.token = None
  BY <1>3, NothingTyped DEF NoPage, Tokens
<1>9. /\ g \in WalkRow /\ g.units = list /\ g.todo = list /\ g.page = NoPage
      /\ g.at = (IF list = <<>> THEN "visible" ELSE "members")
      /\ g.users = NoFetch.users /\ g.ids = NoFetch.ids
  BY <1>6, <1>7, <1>8 DEF UnitsRead, WalkRow
<1>10. WalkTyped(Kind(s), g)
  BY <1>3, <1>6, <1>8, <1>9 DEF WalkTyped, Stages
<1>11. TreeKnown(s, g)
  BY <1>3, <1>5, <1>9 DEF TreeKnown, Found
<1>12. WalkKnown(s, g)
  BY <1>2, <1>3, <1>8, <1>9, <1>10, <1>11, OnlyDepartments
<1> QED
  BY <1>1, <1>2, <1>7, <1>9, <1>12, OneWalk

LEMMA FeishuBeginsKeeps ==
  ASSUME SourceInvariant, NEW s \in Sources, FeishuBegins(s), UNCHANGED <<vars, moved, platform>>
  PROVE  ReadingInvariant'
<1>1. PICK g : g = [NoFetch EXCEPT !.at = "tree", !.todo = <<None>>]
  OBVIOUS
<1>2. ReadingInvariant /\ WalkKnown(s, fetch[s])
  BY DEF SourceInvariant, ReadingInvariant
<1>3. Kind(s) = "feishu" /\ fetch[s] = NoFetch
  BY <1>2 DEF FeishuBegins, At, WalkKnown, WalkTyped
<1>4. <<None>> \in Seq(Units \cup {None}) /\ <<None>> # <<>> /\ Range(<<None>>) = {None}
      /\ Range(<<>>) = {}
  BY EmptyRange DEF Range
<1>5. /\ NoFetch \in WalkRow /\ NoFetch.users = fetch[s].users /\ NoFetch.ids = fetch[s].ids
      /\ NoFetch.page = NoPage /\ NoFetch.units = <<>> /\ NoPage.token = None
  BY <1>3, NothingTyped DEF NoPage, NoFetch
<1>6. /\ g \in WalkRow /\ g.units = <<>> /\ g.todo = <<None>> /\ g.page = NoPage
      /\ g.at = "tree" /\ g.users = NoFetch.users /\ g.ids = NoFetch.ids
  BY <1>1, <1>4, <1>5 DEF WalkRow
<1>7. WalkTyped(Kind(s), g)
  BY <1>3, <1>4, <1>5, <1>6 DEF WalkTyped, Stages
<1>8. TreeKnown(s, g)
  BY <1>3, <1>4, <1>5, <1>6 DEF TreeKnown, Above, Later
<1>9. WalkKnown(s, g)
  BY <1>2, <1>5, <1>6, <1>7, <1>8, OnlyDepartments
<1> QED
  BY <1>1, <1>2, <1>6, <1>9, OneWalk DEF FeishuBegins

LEMMA DingTalkBeginsKeeps ==
  ASSUME SourceInvariant, NEW s \in Sources, DingTalkBegins(s), UNCHANGED <<vars, moved, platform>>
  PROVE  ReadingInvariant'
<1>1. PICK g : g = [NoFetch EXCEPT !.at = "tree", !.todo = <<Root(s)>>, !.units = <<Root(s)>>]
  OBVIOUS
<1>2. SyncInvariant /\ ReadingInvariant /\ WalkKnown(s, fetch[s])
  BY DEF SourceInvariant, ReadingInvariant
<1>3. Kind(s) = "dingtalk" /\ fetch[s] = NoFetch
  BY <1>2 DEF DingTalkBegins, At, WalkKnown, WalkTyped
<1>4. /\ Root(s) \in Units /\ <<Root(s)>> \in Seq(Units) /\ <<Root(s)>> \in Seq(Units \cup {None})
      /\ <<Root(s)>> # <<>> /\ Range(<<Root(s)>>) = {Root(s)} /\ Head(<<Root(s)>>) = Root(s)
  BY RootExists DEF Range
<1>5. /\ NoFetch \in WalkRow /\ NoFetch.users = fetch[s].users /\ NoFetch.ids = fetch[s].ids
      /\ NoFetch.page = NoPage /\ NoPage.token = None
  BY <1>3, NothingTyped DEF NoPage, NoFetch
<1>6. /\ g \in WalkRow /\ g.units = <<Root(s)>> /\ g.todo = <<Root(s)>> /\ g.page = NoPage
      /\ g.at = "tree" /\ g.users = NoFetch.users /\ g.ids = NoFetch.ids
  BY <1>1, <1>4, <1>5 DEF WalkRow
<1>7. WalkTyped(Kind(s), g)
  BY <1>3, <1>4, <1>5, <1>6 DEF WalkTyped, Stages
<1>8. Root(s) \in Found(s)
  BY <1>2, <1>3, FoundReaches DEF Reaches
<1>9. TreeKnown(s, g)
  BY <1>3, <1>4, <1>5, <1>6, <1>8 DEF TreeKnown, Above, Later
<1>10. WalkKnown(s, g)
  BY <1>2, <1>5, <1>6, <1>7, <1>9, OnlyDepartments
<1> QED
  BY <1>1, <1>2, <1>6, <1>10, OneWalk DEF DingTalkBegins

LEMMA FeishuChildrenKeeps ==
  ASSUME SourceInvariant, NEW s \in Sources, FeishuChildren(s), UNCHANGED <<vars, moved, platform>>
  PROVE  ReadingInvariant'
<1> DEFINE f == fetch[s]
           d == Head(f.todo)
           list == Children(s, d)
           items == Items(s, list, UnitOrder)
<1>1. SyncInvariant /\ ReadingInvariant /\ WalkKnown(s, f) /\ f.at = "tree" /\ f \in WalkRow
      /\ WalkTyped(Kind(s), f)
  BY DEF SourceInvariant, ReadingInvariant, FeishuChildren, At, WalkKnown
<1>2. CASE Fails(s)
  BY <1>1, <1>2, FailsKeeps
<1>3. CASE ~Fails(s)
  <2>1. PICK q \in InAnyOrder(items) :
          Page(s, list, UnitOrder, Queued(f, q), TreeRead(Queued(f, q)))
    BY <1>3 DEF FeishuChildren
  <2>2. list \in SUBSET Units /\ IsFiniteSet(list) /\ None \notin list
    BY <1>1, Organised, UnitsAreTokens
  <2>3. UnitOrder \in Seq(Units) /\ list \subseteq Range(UnitOrder)
    BY <2>2, UnitsAreTokens
  <2>4. /\ items \subseteq list
        /\ \/ /\ fetch' = [fetch EXCEPT ![s] = TreeRead(Queued(f, q))]
              /\ \A u \in list : Later(UnitOrder, f.page.token, u) => u \in items
           \/ \E token \in list :
                /\ fetch' = [fetch EXCEPT ![s] = [Queued(f, q) EXCEPT !.page = Turn(f.page, token)]]
                /\ \A u \in list : Later(UnitOrder, f.page.token, u) =>
                                     Later(UnitOrder, token, u) \/ u \in items
    BY <1>1, <1>3, <2>1, <2>2, <2>3, PageRead, SMTT(30)
  <2>5. IsFiniteSet(items)
    BY <2>2, <2>4, FS_Subset
  <2>6. q \in Seq(items) /\ Range(q) = items
    BY <2>5, AnyOrder
  <2>7. q \in Seq(Units) /\ Range(q) \subseteq list
    BY <2>2, <2>4, <2>6
  <2>8. TreeKnown(s, f) => \A u \in list : Later(UnitOrder, f.page.token, u) \/ u \in Range(f.units)
    BY <1>1 DEF TreeKnown
  <2>9. CASE /\ fetch' = [fetch EXCEPT ![s] = TreeRead(Queued(f, q))]
             /\ \A u \in list : Later(UnitOrder, f.page.token, u) => u \in items
    <3>1. TreeKnown(s, f) => list \subseteq Range(f.units) \cup Range(q)
      BY <2>6, <2>8, <2>9
    <3>2. PICK g : g = TreeRead(Queued(f, q))
      OBVIOUS
    <3>3. g \in WalkRow /\ WalkKnown(s, g)
      BY <1>1, <2>7, <3>1, <3>2, TreeEnds
    <3> QED
      BY <1>1, <2>9, <3>2, <3>3, OneWalk
  <2>10. ASSUME NEW token \in list,
                fetch' = [fetch EXCEPT ![s] = [Queued(f, q) EXCEPT !.page = Turn(f.page, token)]],
                \A u \in list : Later(UnitOrder, f.page.token, u) =>
                                  Later(UnitOrder, token, u) \/ u \in items
         PROVE  ReadingInvariant'
    <3>1. PICK page : page = Turn(f.page, token)
      OBVIOUS
    <3>2. page \in [token : Tokens, seen : SUBSET Tokens] /\ page.token = token /\ token \in page.seen
      BY <1>1, <2>2, <3>1, TurnPage DEF Tokens
    <3>3. TreeKnown(s, f) => \A u \in list :
            Later(UnitOrder, page.token, u) \/ u \in Range(f.units) \cup Range(q)
      BY <2>6, <2>8, <2>10, <3>2
    <3>4. PICK g : g = [Queued(f, q) EXCEPT !.page = page]
      OBVIOUS
    <3>5. g \in WalkRow /\ WalkKnown(s, g)
      BY <1>1, <2>7, <3>2, <3>3, <3>4, TreeTurns
    <3> QED
      BY <1>1, <2>10, <3>1, <3>4, <3>5, OneWalk
  <2> QED
    BY <2>4, <2>9, <2>10
<1> QED
  BY <1>2, <1>3

LEMMA DingTalkChildrenKeeps ==
  ASSUME SourceInvariant, NEW s \in Sources, DingTalkChildren(s), UNCHANGED <<vars, moved, platform>>
  PROVE  ReadingInvariant'
<1> DEFINE f == fetch[s]
           list == Children(s, Head(f.todo))
<1>1. SyncInvariant /\ ReadingInvariant /\ WalkKnown(s, f) /\ f.at = "tree"
      /\ fetch \in [Sources -> WalkRow]
  BY DEF SourceInvariant, ReadingInvariant, DingTalkChildren, At
<1>2. CASE Fails(s)
  BY <1>1, <1>2, FailsKeeps
<1>3. CASE ~Fails(s)
  <2>1. PICK q \in InAnyOrder(list) : fetch' = [fetch EXCEPT ![s] = TreeRead(Queued(f, q))]
    BY <1>1, <1>3 DEF DingTalkChildren
  <2>2. list \in SUBSET Units /\ IsFiniteSet(list)
    BY <1>1, Organised
  <2>3. q \in Seq(Units) /\ Range(q) = list
    BY <2>2, AnyOrder
  <2>4. PICK g : g = TreeRead(Queued(f, q))
    OBVIOUS
  <2>5. g \in WalkRow /\ WalkKnown(s, g)
    BY <1>1, <2>3, <2>4, TreeEnds
  <2> QED
    BY <1>1, <2>1, <2>4, <2>5, OneWalk
<1> QED
  BY <1>2, <1>3
------------------------------------------------------------------------------
(***************************************************************************)
(* The answers that name people.                                           *)
(***************************************************************************)
\* What is told of somebody in an answer.
IsTold(s, x, r) ==
  /\ x \in Listed(s) /\ r.active = Seen(s, x)
  /\ r.units \subseteq dir[s].users[x].units
  /\ platform[s].brief \/ r.units = dir[s].users[x].units

Person == [active : BOOLEAN, units : SUBSET Units]

Persons(list, raw) == \A x \in list : raw[x] \in Person
Joined(u, r) == [active |-> u.active \/ r.active, units |-> u.units \cup r.units]

Extends(users, list, raw, new) ==
  /\ new \in Listings /\ DOMAIN new = DOMAIN users \cup list
  /\ \A x \in DOMAIN users \ list : new[x] = users[x]
  /\ \A x \in list \ DOMAIN users : new[x] = raw[x]
  /\ \A x \in list \cap DOMAIN users : new[x] = Joined(users[x], raw[x])

LEMMA Upserted ==
  ASSUME NEW users \in Listings, NEW list \in SUBSET Subjects, NEW raw,
         Persons(list, raw)
  PROVE  Extends(users, list, raw, Upsert(users, list, raw))
<1> DEFINE X == DOMAIN users \cup list
           new == Upsert(users, list, raw)
<1>1. DOMAIN users \in SUBSET Subjects /\ \A x \in DOMAIN users : users[x] \in Person
  BY DEF Listings, Person
<1>2. new = [x \in X |->
     IF x \notin list THEN users[x]
     ELSE IF x \notin DOMAIN users THEN raw[x]
     ELSE [active |-> users[x].active \/ raw[x].active, units |-> users[x].units \cup raw[x].units]]
  BY DEF Upsert
<1>3. ASSUME NEW x \in X PROVE new[x] \in Person
  BY <1>1, <1>2, <1>3 DEF Person, Persons
<1>4. X \in SUBSET Subjects /\ new \in [X -> Person]
  BY <1>1, <1>2, <1>3
<1>5. new \in Listings
  BY <1>4 DEF Listings, Person
<1>6. \A x \in list \cap DOMAIN users : new[x] = Joined(users[x], raw[x])
  BY <1>2 DEF Joined
<1>7. /\ DOMAIN new = DOMAIN users \cup list
      /\ \A x \in DOMAIN users \ list : new[x] = users[x]
      /\ \A x \in list \ DOMAIN users : new[x] = raw[x]
  BY <1>2
<1> HIDE DEF new
<1> QED
  BY <1>5, <1>6, <1>7 DEF new, Extends

\* What is upserted stays true, and nothing found is lost.
LEMMA UpsertTrue ==
  ASSUME NEW s, NEW f \in WalkRow, NEW x \in Subjects, ToldTruly(s, f, x),
         NEW list \in SUBSET Subjects, NEW raw, Persons(list, raw),
         x \in list => IsTold(s, x, raw[x]),
         NEW g, g.users = Upsert(f.users, list, raw),
         \A id \in g.ids : id[1] = x =>
           id \in f.ids \/ (x \in Listed(s) /\ id[2] \subseteq dir[s].users[x].units)
  PROVE  /\ ToldTruly(s, g, x)
         /\ x \in DOMAIN f.users => x \in DOMAIN g.users
         /\ \A d : FoundIn(f, x, d) => FoundIn(g, x, d)
         /\ x \in list => x \in DOMAIN g.users /\ \A d \in raw[x].units : FoundIn(g, x, d)
<1>1. f.users \in Listings
  BY DEF WalkRow
<1>2. /\ g.users \in Listings /\ DOMAIN g.users = DOMAIN f.users \cup list
      /\ \A y \in DOMAIN f.users \ list : g.users[y] = f.users[y]
      /\ \A y \in list \ DOMAIN f.users : g.users[y] = raw[y]
      /\ \A y \in list \cap DOMAIN f.users : g.users[y] = Joined(f.users[y], raw[y])
  <2>1. Extends(f.users, list, raw, g.users)
    BY <1>1, Upserted
  <2> QED
    BY <2>1 DEF Extends
<1>3. CASE x \notin list
  BY <1>2, <1>3 DEF ToldTruly, FoundIn
<1>4. CASE x \in list /\ x \notin DOMAIN f.users
  <2>1. g.users[x] = raw[x] /\ x \in DOMAIN g.users
    BY <1>2, <1>4
  <2> QED
    BY <1>4, <2>1 DEF ToldTruly, FoundIn, IsTold
<1>5. CASE x \in list /\ x \in DOMAIN f.users
  <2>1. /\ x \in DOMAIN g.users /\ g.users[x].active = (f.users[x].active \/ raw[x].active)
        /\ g.users[x].units = f.users[x].units \cup raw[x].units
    <3>1. x \in DOMAIN g.users /\ g.users[x] = Joined(f.users[x], raw[x])
      BY <1>2, <1>5
    <3> QED
      BY <3>1 DEF Joined
  <2>2. Seen(s, x) \in BOOLEAN /\ g.users[x].active \in BOOLEAN
    BY <1>2, <2>1 DEF Seen, Listings
  <2>3. g.users[x].active = Seen(s, x)
    BY <1>5, <2>1, <2>2 DEF ToldTruly, IsTold
  <2>4. /\ g.users[x].units \subseteq dir[s].users[x].units
        /\ platform[s].brief \/ g.users[x].units = dir[s].users[x].units
    BY <1>5, <2>1 DEF ToldTruly, IsTold
  <2> QED
    BY <1>5, <2>1, <2>3, <2>4 DEF ToldTruly, FoundIn, IsTold
<1> QED
  BY <1>3, <1>4, <1>5

\* What is known of the departments stays, once they have been read.
LEMMA UnitsStayKnown ==
  ASSUME NEW s, NEW f, NEW g, TreeKnown(s, f), g.units = f.units,
         f.at \in {"visible", "members", "details", "done"}, g.at # "tree"
  PROVE  TreeKnown(s, g)
  BY DEF TreeKnown

\* The department at the head of the queue is read further.
LEMMA InDepartment ==
  ASSUME NEW s, NEW f, WalkKnown(s, f), f.at = "members" \/ (f.at = "details" /\ Kind(s) # "wecom"),
         NEW g \in WalkRow, g.units = f.units, g.todo = f.todo, g.at \in {"members", "details"},
         g.page.token # None => g.page.token \in g.page.seen, g.at = "details" => Kind(s) = "dingtalk",
         \A x \in Subjects \ moved[s] :
           /\ ToldTruly(s, g, x)
           /\ \A d : FoundIn(f, x, d) => FoundIn(g, x, d)
           /\ (x \in People(s, Head(f.todo)) /\ (g.at = "details" \/ Paged(g, x))) =>
                \/ Kind(s) = "dingtalk" /\ <<x, {Head(f.todo)}>> \in g.ids
                \/ FoundIn(g, x, Head(f.todo))
  PROVE  WalkKnown(s, g)
<1>1. WalkTyped(Kind(s), f)
  BY DEF WalkKnown
<1>2. WalkTyped(Kind(s), g)
  BY <1>1 DEF WalkTyped, Stages
<1>3. moved[s] # Subjects => TreeKnown(s, g)
  BY UnitsStayKnown DEF WalkKnown
<1>4. ASSUME NEW x \in Subjects \ moved[s] PROVE PersonKnown(s, g, x)
  <2>1. MemberKnown(s, f, x)
    BY <1>4 DEF WalkKnown, PersonKnown
  <2>2. MemberKnown(s, g, x)
    BY <1>4, <2>1 DEF MemberKnown
  <2>3. VisibleKnown(s, g, x)
    BY <1>1 DEF VisibleKnown, WalkTyped
  <2> QED
    BY <1>4, <2>2, <2>3 DEF PersonKnown
<1> QED
  BY <1>2, <1>3, <1>4 DEF WalkKnown

\* ... or is done with.
LEMMA DepartmentRead ==
  ASSUME NEW s, NEW f, WalkKnown(s, f), f.at = "members" \/ (f.at = "details" /\ Kind(s) # "wecom"),
         NEW h \in WalkRow, h.units = f.units, h.todo = f.todo, NEW g, g = MembersRead(h),
         \A x \in Subjects \ moved[s] :
           /\ ToldTruly(s, h, x)
           /\ \A d : FoundIn(f, x, d) => FoundIn(h, x, d)
           /\ x \in People(s, Head(f.todo)) => FoundIn(h, x, Head(f.todo))
  PROVE  g \in WalkRow /\ WalkKnown(s, g)
<1>1. WalkTyped(Kind(s), f)
  BY DEF WalkKnown
<1>2. /\ f.units # <<>> /\ f.todo # <<>> /\ f.todo \in Seq(Units) /\ Range(f.todo) \subseteq Range(f.units)
      /\ f.at \in Stages(Kind(s))
  BY <1>1 DEF WalkTyped
<1> DEFINE rest == Tail(f.todo)
<1>3. rest \in Seq(Units) /\ Range(f.todo) = {Head(f.todo)} \cup Range(rest)
  BY <1>2, RangeOfTail
<1>4. rest \in Seq(Units \cup {None})
  BY <1>3
<1>5. NoPage \in [token : Tokens, seen : SUBSET Tokens] /\ NoPage.token = None
  BY DEF NoPage, Tokens
<1>6. /\ g \in WalkRow /\ g.units = f.units /\ g.todo = rest /\ g.page = NoPage
      /\ g.at = (IF rest = <<>> THEN "done" ELSE "members")
      /\ g.users = h.users /\ g.ids = h.ids
  <2> HIDE DEF rest
  <2>1. g = [h EXCEPT !.todo = rest, !.page = NoPage, !.at = IF rest = <<>> THEN "done" ELSE "members"]
    BY DEF MembersRead, rest
  <2> QED
    BY <1>4, <1>5, <2>1 DEF WalkRow
<1>7. WalkTyped(Kind(s), g)
  <2>1. g.at \in Stages(Kind(s))
    BY <1>2, <1>6 DEF Stages
  <2>2. g.at = "members" => g.todo # <<>> /\ g.todo \in Seq(Units) /\ Range(g.todo) \subseteq Range(g.units)
    BY <1>2, <1>3, <1>6
  <2> HIDE DEF rest
  <2> QED
    BY <1>2, <1>5, <1>6, <2>1, <2>2 DEF WalkTyped
<1>8. moved[s] # Subjects => TreeKnown(s, g)
  <2> HIDE DEF rest
  <2> QED
    BY <1>6, UnitsStayKnown DEF WalkKnown
<1>9. ASSUME NEW x \in Subjects \ moved[s] PROVE PersonKnown(s, g, x)
  <2>1. MemberKnown(s, f, x)
    BY <1>9 DEF WalkKnown, PersonKnown
  <2>2. ToldTruly(s, g, x) /\ \A d : FoundIn(g, x, d) <=> FoundIn(h, x, d)
    BY <1>6, <1>9 DEF ToldTruly, FoundIn
  <2>3. ~Paged(g, x)
    BY <1>5, <1>6 DEF Paged, Later
  <2>4. \A d \in Range(g.units) : x \in People(s, d) => d \in Range(g.todo) \/ FoundIn(g, x, d)
    <3> HIDE DEF rest
    <3>1. \A d \in Range(f.units) : x \in People(s, d) => d \in Range(f.todo) \/ FoundIn(f, x, d)
      BY <1>2, <2>1 DEF MemberKnown
    <3> QED
      BY <1>3, <1>6, <1>9, <2>2, <3>1
  <2>5. MemberKnown(s, g, x)
    BY <1>6, <2>3, <2>4 DEF MemberKnown
  <2>6. VisibleKnown(s, g, x)
    BY <1>2, <1>6 DEF VisibleKnown
  <2> QED
    BY <2>2, <2>5, <2>6 DEF PersonKnown
<1> QED
  BY <1>6, <1>7, <1>8, <1>9 DEF WalkKnown
------------------------------------------------------------------------------
\* What a platform tells of somebody is typed, and true.
LEMMA Tells ==
  ASSUME SyncInvariant, NEW s \in Sources, NEW x \in Everybody(s), NEW F \in SUBSET Units,
         NEW r, r.active = Seen(s, x), r.units = Places(s, x, F)
  PROVE  /\ x \in Subjects /\ Seen(s, x) \in BOOLEAN /\ Places(s, x, F) \in SUBSET Units
         /\ (x \in Listed(s) /\ F \subseteq dir[s].users[x].units) =>
              IsTold(s, x, r) /\ F \subseteq r.units
<1>1. x \in Subjects /\ dir[s].users[x].units \in SUBSET Units
  BY Organised
<1>2. Seen(s, x) \in BOOLEAN
  BY DEF Seen
<1> QED
  BY <1>1, <1>2 DEF Places, IsTold

LEMMA SeenHere ==
  ASSUME SyncInvariant, NEW s \in Sources, NEW x \in Everybody(s)
  PROVE  /\ Kind(s) = "feishu" => Seen(s, x) = TRUE
         /\ Kind(s) # "feishu" => Seen(s, x) = dir[s].users[x].active
<1>1. dir[s].users[x].active \in BOOLEAN
  BY Organised
<1> QED
  BY <1>1 DEF Seen

LEMMA RawPersons ==
  ASSUME SyncInvariant, NEW s \in Sources, NEW x \in Everybody(s), NEW F \in SUBSET Units
  PROVE  /\ WeComRaw(s, x, F) \in Person /\ FeishuRaw(s, x, F) \in Person
         /\ DingTalkRaw(s, x, F) \in Person
<1>1. /\ dir[s].users[x].active \in BOOLEAN /\ dir[s].users[x].units \in SUBSET Units
  BY Organised
<1>2. Places(s, x, F) \in SUBSET Units
  BY <1>1 DEF Places
<1> QED
  BY <1>1, <1>2 DEF WeComRaw, FeishuRaw, DingTalkRaw, Person

\* The people of the department at the head of the queue are listed.
LEMMA PeopleListed ==
  ASSUME SyncInvariant, NEW s \in Sources, NEW f, WalkKnown(s, f), f \in WalkRow,
         f.at = "members" \/ (f.at = "details" /\ Kind(s) # "wecom")
  PROVE  /\ Head(f.todo) \in Units
         /\ \A x \in People(s, Head(f.todo)) :
              /\ x \in Subjects /\ x \in Everybody(s) /\ {Head(f.todo)} \subseteq dir[s].users[x].units
              /\ moved[s] # Subjects => x \in Listed(s)
<1>1. f.todo # <<>> /\ f.todo \in Seq(Units) /\ Range(f.todo) \subseteq Range(f.units)
  BY DEF WalkKnown, WalkTyped
<1>2. Head(f.todo) \in Units /\ Head(f.todo) \in Range(f.units)
  BY <1>1, RangeOfTail
<1>3. moved[s] # Subjects => Range(f.units) = Found(s)
  BY DEF WalkKnown, TreeKnown
<1>4. ASSUME NEW x \in People(s, Head(f.todo))
      PROVE  /\ x \in Subjects /\ x \in Everybody(s) /\ {Head(f.todo)} \subseteq dir[s].users[x].units
             /\ moved[s] # Subjects => x \in Listed(s)
  <2>1. x \in DOMAIN dir[s].users /\ Head(f.todo) \in dir[s].users[x].units
    BY <1>4 DEF People
  <2>2. x \in Subjects
    BY <2>1, Organised DEF Everybody
  <2> QED
    BY <1>2, <1>3, <2>1, <2>2 DEF Everybody, Listed
<1> QED
  BY <1>2, <1>4

LEMMA PeopleAreTokens ==
  Subjects = Range(PersonOrder) /\ PersonOrder \in Seq(Subjects) /\ None \notin Subjects
  BY FetchAssumption, MappingAssumption

\* Where a walk stands.
LEMMA WalkHere ==
  ASSUME SourceInvariant, NEW s \in Sources
  PROVE  /\ SyncInvariant /\ ReadingInvariant /\ WalkKnown(s, fetch[s]) /\ fetch[s] \in WalkRow
         /\ WalkTyped(Kind(s), fetch[s]) /\ fetch \in [Sources -> WalkRow]
         /\ moved[s] \in SUBSET Subjects
         /\ moved[s] # Subjects => TreeKnown(s, fetch[s])
         /\ \A x \in Subjects \ moved[s] : ToldTruly(s, fetch[s], x)
  BY DEF SourceInvariant, ReadingInvariant, WalkKnown, PersonKnown

LEMMA WeComMembersKeeps ==
  ASSUME SourceInvariant, NEW s \in Sources, WeComMembers(s), UNCHANGED <<vars, moved, platform>>
  PROVE  ReadingInvariant'
<1> DEFINE f == fetch[s]
           d == Head(f.todo)
           list == People(s, d)
           raw == [x \in list |-> WeComRaw(s, x, {d})]
           h == [f EXCEPT !.users = Upsert(@, list, raw)]
<1>1. /\ SyncInvariant /\ ReadingInvariant /\ WalkKnown(s, f) /\ f \in WalkRow
      /\ f.at = "members" /\ Kind(s) = "wecom"
  BY WalkHere DEF WeComMembers, At
<1>2. CASE Fails(s)
  BY <1>1, <1>2, FailsKeeps
<1>3. CASE ~Fails(s)
  <2>1. fetch' = [fetch EXCEPT ![s] = MembersRead(h)]
    BY <1>3 DEF WeComMembers
  <2>2. /\ d \in Units /\ list \in SUBSET Subjects
        /\ \A x \in list : /\ x \in Everybody(s) /\ {d} \subseteq dir[s].users[x].units
                           /\ moved[s] # Subjects => x \in Listed(s)
    BY <1>1, PeopleListed
  <2>3. Persons(list, raw)
    BY <1>1, <2>2, RawPersons DEF Persons
  <2>4. f.users \in Listings
    BY <1>1 DEF WalkRow
  <2>5. Extends(f.users, list, raw, Upsert(f.users, list, raw))
    <3> HIDE DEF raw, list
    <3> QED
      BY <2>2, <2>3, <2>4, Upserted
  <2>6. /\ h \in WalkRow /\ h.units = f.units /\ h.todo = f.todo /\ h.ids = f.ids
        /\ h.users = Upsert(f.users, list, raw)
    <3> HIDE DEF raw, list
    <3> QED
      BY <1>1, <2>5 DEF WalkRow, Extends
  <2>7. ASSUME NEW x \in Subjects \ moved[s]
        PROVE  /\ ToldTruly(s, h, x) /\ \A e : FoundIn(f, x, e) => FoundIn(h, x, e)
               /\ x \in list => FoundIn(h, x, d)
    <3>1. ToldTruly(s, f, x)
      BY WalkHere
    <3>2. ASSUME x \in list PROVE IsTold(s, x, raw[x]) /\ d \in raw[x].units
      <4>1. raw[x] = WeComRaw(s, x, {d})
        BY <3>2
      <4>2. raw[x].active = Seen(s, x) /\ raw[x].units = Places(s, x, {d})
        <5> HIDE DEF raw, d
        <5>1. raw[x].active = dir[s].users[x].active /\ raw[x].units = Places(s, x, {d})
          BY <4>1 DEF WeComRaw
        <5>2. x \in Everybody(s)
          BY <2>2, <3>2
        <5> QED
          BY <1>1, <5>1, <5>2, SeenHere
      <4>3. x \in Everybody(s) /\ x \in Listed(s) /\ {d} \subseteq dir[s].users[x].units
            /\ {d} \in SUBSET Units
        BY <2>2, <2>7, <3>2
      <4>4. PICK r : r = raw[x]
        OBVIOUS
      <4>5. PICK F \in SUBSET Units : F = {d}
        BY <4>3
      <4>6. r.active = Seen(s, x) /\ r.units = Places(s, x, F) /\ F \subseteq dir[s].users[x].units
        BY <4>2, <4>3, <4>4, <4>5
      <4>7. IsTold(s, x, r) /\ F \subseteq r.units
        BY <1>1, <4>3, <4>6, Tells
      <4> QED
        BY <4>4, <4>5, <4>7
    <3>3. \A id \in h.ids : id[1] = x =>
            id \in f.ids \/ (x \in Listed(s) /\ id[2] \subseteq dir[s].users[x].units)
      BY <2>6
    <3>4. /\ f \in WalkRow /\ list \in SUBSET Subjects /\ h.users = Upsert(f.users, list, raw)
          /\ x \in list => IsTold(s, x, raw[x])
      BY <1>1, <2>2, <2>6, <3>2
    <3> HIDE DEF raw, list, h, f, d
    <3>5. /\ ToldTruly(s, h, x) /\ \A e : FoundIn(f, x, e) => FoundIn(h, x, e)
          /\ x \in list => \A e \in raw[x].units : FoundIn(h, x, e)
      BY <2>3, <3>1, <3>3, <3>4, UpsertTrue
    <3> QED
      BY <3>2, <3>5
  <2>8. PICK g : g = MembersRead(h)
    OBVIOUS
  <2> HIDE DEF h
  <2>9. g \in WalkRow /\ WalkKnown(s, g)
    BY <1>1, <2>6, <2>7, <2>8, DepartmentRead
  <2> QED
    BY <1>1, <2>1, <2>8, <2>9, OneWalk
<1> QED
  BY <1>2, <1>3

LEMMA FeishuMembersKeeps ==
  ASSUME SourceInvariant, NEW s \in Sources, FeishuMembers(s), UNCHANGED <<vars, moved, platform>>
  PROVE  ReadingInvariant'
<1> DEFINE f == fetch[s]
           d == Head(f.todo)
           list == People(s, d)
           items == Items(s, list, PersonOrder)
           raw == [x \in list |-> FeishuRaw(s, x, {d})]
           h == [f EXCEPT !.users = Upsert(@, items, raw)]
<1>1. /\ SyncInvariant /\ ReadingInvariant /\ WalkKnown(s, f) /\ f \in WalkRow
      /\ f.at = "members" /\ Kind(s) = "feishu" /\ WalkTyped(Kind(s), f)
  BY WalkHere DEF FeishuMembers, At
<1>2. CASE Fails(s)
  BY <1>1, <1>2, FailsKeeps
<1>3. CASE ~Fails(s)
  <2>1. Page(s, list, PersonOrder, h, MembersRead(h))
    BY <1>3 DEF FeishuMembers
  <2>2. /\ d \in Units /\ list \in SUBSET Subjects /\ IsFiniteSet(list)
        /\ \A x \in list : /\ x \in Everybody(s) /\ {d} \subseteq dir[s].users[x].units
                           /\ moved[s] # Subjects => x \in Listed(s)
    BY <1>1, PeopleListed, Organised
  <2>3. list \subseteq Range(PersonOrder) /\ PersonOrder \in Seq(Subjects) /\ None \notin list
    BY <2>2, PeopleAreTokens
  <2>4. /\ items \subseteq list
        /\ \/ /\ fetch' = [fetch EXCEPT ![s] = MembersRead(h)]
              /\ \A x \in list : Later(PersonOrder, f.page.token, x) => x \in items
           \/ \E token \in list :
                /\ fetch' = [fetch EXCEPT ![s] = [h EXCEPT !.page = Turn(f.page, token)]]
                /\ \A x \in list : Later(PersonOrder, f.page.token, x) =>
                                     Later(PersonOrder, token, x) \/ x \in items
    <3> HIDE DEF h, list
    <3> QED
      BY <1>1, <1>3, <2>1, <2>2, <2>3, PageRead, SMTT(30)
  <2>5. Persons(items, raw) /\ items \in SUBSET Subjects
    BY <1>1, <2>2, <2>4, RawPersons DEF Persons
  <2>6. f.users \in Listings
    BY <1>1 DEF WalkRow
  <2>7. Extends(f.users, items, raw, Upsert(f.users, items, raw))
    <3> HIDE DEF raw, items
    <3> QED
      BY <2>5, <2>6, Upserted
  <2>8. /\ h \in WalkRow /\ h.units = f.units /\ h.todo = f.todo /\ h.ids = f.ids /\ h.at = f.at
        /\ h.users = Upsert(f.users, items, raw)
    <3> HIDE DEF raw, items
    <3> QED
      BY <1>1, <2>7 DEF WalkRow, Extends
  <2>9. ASSUME NEW x \in Subjects \ moved[s]
        PROVE  /\ ToldTruly(s, h, x) /\ \A e : FoundIn(f, x, e) => FoundIn(h, x, e)
               /\ x \in items => FoundIn(h, x, d)
               /\ x \in list /\ Paged(f, x) => FoundIn(h, x, d)
    <3>1. ToldTruly(s, f, x)
      BY WalkHere
    <3>2. ASSUME x \in items PROVE IsTold(s, x, raw[x]) /\ d \in raw[x].units
      <4>1. raw[x] = FeishuRaw(s, x, {d})
        BY <2>4, <3>2
      <4>2. raw[x].active = Seen(s, x) /\ raw[x].units = Places(s, x, {d})
        <5> HIDE DEF raw, d
        <5>1. raw[x].active = TRUE /\ raw[x].units = Places(s, x, {d})
          BY <4>1 DEF FeishuRaw
        <5>2. x \in Everybody(s)
          BY <2>2, <2>4, <3>2
        <5> QED
          BY <1>1, <5>1, <5>2, SeenHere
      <4>3. x \in Everybody(s) /\ x \in Listed(s) /\ {d} \subseteq dir[s].users[x].units
            /\ {d} \in SUBSET Units
        BY <2>2, <2>4, <2>9, <3>2
      <4>4. PICK r : r = raw[x]
        OBVIOUS
      <4>5. PICK F \in SUBSET Units : F = {d}
        BY <4>3
      <4>6. r.active = Seen(s, x) /\ r.units = Places(s, x, F) /\ F \subseteq dir[s].users[x].units
        BY <4>2, <4>3, <4>4, <4>5
      <4>7. IsTold(s, x, r) /\ F \subseteq r.units
        BY <1>1, <4>3, <4>6, Tells
      <4> QED
        BY <4>4, <4>5, <4>7
    <3>3. x \in list /\ Paged(f, x) => FoundIn(f, x, d)
      <4>1. MemberKnown(s, f, x) /\ f.units # <<>>
        BY <1>1, <2>9 DEF WalkKnown, PersonKnown, WalkTyped
      <4> QED
        BY <1>1, <4>1 DEF MemberKnown
    <3>4. /\ ToldTruly(s, h, x) /\ \A e : FoundIn(f, x, e) => FoundIn(h, x, e)
          /\ x \in items => \A e \in raw[x].units : FoundIn(h, x, e)
      <4>1. \A id \in h.ids : id[1] = x =>
              id \in f.ids \/ (x \in Listed(s) /\ id[2] \subseteq dir[s].users[x].units)
        BY <2>8
      <4>2. /\ f \in WalkRow /\ h.users = Upsert(f.users, items, raw)
            /\ x \in items => IsTold(s, x, raw[x])
        BY <1>1, <2>8, <3>2
      <4> HIDE DEF raw, items, h, f, d, list
      <4> QED
        BY <2>5, <3>1, <4>1, <4>2, UpsertTrue
    <3> HIDE DEF raw, list, h, items
    <3> QED
      BY <3>2, <3>3, <3>4
  <2> HIDE DEF h, items
  <2>10. CASE /\ fetch' = [fetch EXCEPT ![s] = MembersRead(h)]
              /\ \A x \in list : Later(PersonOrder, f.page.token, x) => x \in items
    <3>1. PICK g : g = MembersRead(h)
      OBVIOUS
    <3>2. \A x \in Subjects \ moved[s] :
           /\ ToldTruly(s, h, x) /\ \A e : FoundIn(f, x, e) => FoundIn(h, x, e)
           /\ x \in People(s, Head(f.todo)) => FoundIn(h, x, Head(f.todo))
      BY <2>9, <2>10 DEF Paged
    <3>3. g \in WalkRow /\ WalkKnown(s, g)
      BY <1>1, <2>8, <3>1, <3>2, DepartmentRead
    <3> QED
      BY <1>1, <2>10, <3>1, <3>3, OneWalk
  <2>11. ASSUME NEW token \in list,
                fetch' = [fetch EXCEPT ![s] = [h EXCEPT !.page = Turn(f.page, token)]],
                \A x \in list : Later(PersonOrder, f.page.token, x) =>
                                  Later(PersonOrder, token, x) \/ x \in items
         PROVE  ReadingInvariant'
    <3>1. PICK page : page = Turn(f.page, token)
      OBVIOUS
    <3>2. page \in [token : Tokens, seen : SUBSET Tokens] /\ page.token = token /\ token \in page.seen
      BY <1>1, <2>2, <3>1, TurnPage DEF Tokens
    <3>3. PICK g : g = [h EXCEPT !.page = page]
      OBVIOUS
    <3>4. /\ g \in WalkRow /\ g.page = page /\ g.users = h.users /\ g.ids = h.ids
          /\ g.units = f.units /\ g.todo = f.todo /\ g.at = "members"
      BY <1>1, <2>8, <3>2, <3>3 DEF WalkRow
    <3>5. ASSUME NEW x \in Subjects \ moved[s]
          PROVE  /\ ToldTruly(s, g, x) /\ \A e : FoundIn(f, x, e) => FoundIn(g, x, e)
                 /\ x \in People(s, Head(f.todo)) /\ Paged(g, x) => FoundIn(g, x, Head(f.todo))
      <4>1. ToldTruly(s, g, x) /\ \A e : FoundIn(g, x, e) <=> FoundIn(h, x, e)
        BY <2>9, <3>4 DEF ToldTruly, FoundIn
      <4>2. x \in list /\ Paged(g, x) => Paged(f, x) \/ x \in items
        BY <2>11, <3>2, <3>4 DEF Paged
      <4> QED
        BY <2>9, <4>1, <4>2
    <3>6. WalkKnown(s, g)
      BY <1>1, <3>2, <3>4, <3>5, InDepartment
    <3> QED
      BY <1>1, <2>11, <3>1, <3>3, <3>4, <3>6, OneWalk
  <2> QED
    BY <2>4, <2>10, <2>11
<1> QED
  BY <1>2, <1>3
\* Ids found in a list of the department, and nothing else new.
LEMMA DingTalkMembersKeeps ==
  ASSUME SourceInvariant, NEW s \in Sources, DingTalkMembers(s), UNCHANGED <<vars, moved, platform>>
  PROVE  ReadingInvariant'
<1> DEFINE f == fetch[s]
           d == Head(f.todo)
           list == People(s, d)
           items == Items(s, list, PersonOrder)
           found == [x \in list |-> {d}]
           h == [f EXCEPT !.ids = @ \cup Asked(items, found)]
<1>1. /\ SyncInvariant /\ ReadingInvariant /\ WalkKnown(s, f) /\ f \in WalkRow
      /\ f.at = "members" /\ Kind(s) = "dingtalk" /\ WalkTyped(Kind(s), f)
  BY WalkHere DEF DingTalkMembers, At
<1>2. CASE Fails(s)
  BY <1>1, <1>2, FailsKeeps
<1>3. CASE ~Fails(s)
  <2>1. Page(s, list, PersonOrder, h, DetailsNext(h))
    BY <1>3 DEF DingTalkMembers
  <2>2. /\ d \in Units /\ list \in SUBSET Subjects /\ IsFiniteSet(list)
        /\ \A x \in list : /\ x \in Everybody(s) /\ {d} \subseteq dir[s].users[x].units
                           /\ moved[s] # Subjects => x \in Listed(s)
    BY <1>1, PeopleListed, Organised
  <2>3. list \subseteq Range(PersonOrder) /\ PersonOrder \in Seq(Subjects) /\ None \notin list
    BY <2>2, PeopleAreTokens
  <2>4. /\ items \subseteq list
        /\ \/ /\ fetch' = [fetch EXCEPT ![s] = DetailsNext(h)]
              /\ \A x \in list : Later(PersonOrder, f.page.token, x) => x \in items
           \/ \E token \in list :
                /\ fetch' = [fetch EXCEPT ![s] = [h EXCEPT !.page = Turn(f.page, token)]]
                /\ \A x \in list : Later(PersonOrder, f.page.token, x) =>
                                     Later(PersonOrder, token, x) \/ x \in items
    <3> HIDE DEF h, list
    <3> QED
      BY <1>1, <1>3, <2>1, <2>2, <2>3, PageRead, SMTT(30)
  <2>5. PICK A : A = Asked(items, found)
    BY ZenonT(30)
  <2>6. A = {<<x, {d}>> : x \in items}
    BY <2>4, <2>5 DEF Asked
  <2>7. /\ h \in WalkRow /\ h.units = f.units /\ h.todo = f.todo /\ h.users = f.users /\ h.at = f.at
        /\ h.page = f.page /\ h.ids = f.ids \cup A
    <3>1. A \in SUBSET (Subjects \X SUBSET Units)
      <4>1. ASSUME NEW id \in A PROVE id \in Subjects \X SUBSET Units
        <5>1. PICK x \in items : id = <<x, {d}>>
          BY <2>6, SMTT(30)
        <5>2. x \in Subjects /\ {d} \in SUBSET Units
          BY <2>2, <2>4
        <5> QED
          BY <5>1, <5>2
      <4> QED
        BY <4>1
    <3>2. h = [f EXCEPT !.ids = @ \cup A]
      BY <2>5
    <3> HIDE DEF h
    <3> QED
      BY <1>1, <3>1, <3>2 DEF WalkRow
  <2> HIDE DEF h, items
  <2>8. ASSUME NEW x \in Subjects \ moved[s]
        PROVE  /\ ToldTruly(s, h, x) /\ \A e : FoundIn(f, x, e) <=> FoundIn(h, x, e)
               /\ x \in items => <<x, {d}>> \in h.ids
               /\ x \in list /\ Paged(f, x) => <<x, {d}>> \in h.ids \/ FoundIn(h, x, d)
    <3>1. ToldTruly(s, f, x)
      BY WalkHere
    <3>2. x \in items => x \in Listed(s) /\ {d} \subseteq dir[s].users[x].units
      BY <2>2, <2>4, <2>8
    <3>3. ToldTruly(s, h, x)
      BY <2>6, <2>7, <3>1, <3>2 DEF ToldTruly
    <3>4. \A e : FoundIn(f, x, e) <=> FoundIn(h, x, e)
      BY <2>7 DEF FoundIn
    <3>5. x \in list /\ Paged(f, x) => <<x, {d}>> \in f.ids \/ FoundIn(f, x, d)
      <4>1. MemberKnown(s, f, x) /\ f.units # <<>>
        BY <1>1, <2>8 DEF WalkKnown, PersonKnown, WalkTyped
      <4> QED
        BY <1>1, <4>1 DEF MemberKnown
    <3> HIDE DEF list
    <3> QED
      BY <2>6, <2>7, <3>3, <3>4, <3>5
  <2>9. CASE /\ fetch' = [fetch EXCEPT ![s] = DetailsNext(h)]
             /\ \A x \in list : Later(PersonOrder, f.page.token, x) => x \in items
    <3>1. \A x \in Subjects \ moved[s] : x \in list => <<x, {d}>> \in h.ids \/ FoundIn(h, x, d)
      BY <2>8, <2>9 DEF Paged
    <3>2. CASE h.ids = {}
      <4>1. PICK g : g = MembersRead(h)
        OBVIOUS
      <4>2. \A x \in Subjects \ moved[s] :
             /\ ToldTruly(s, h, x) /\ \A e : FoundIn(f, x, e) => FoundIn(h, x, e)
             /\ x \in People(s, Head(f.todo)) => FoundIn(h, x, Head(f.todo))
        BY <2>8, <3>1, <3>2
      <4>3. g \in WalkRow /\ WalkKnown(s, g)
        BY <1>1, <2>7, <4>1, <4>2, DepartmentRead
      <4>4. fetch' = [fetch EXCEPT ![s] = g]
        BY <2>9, <3>2, <4>1 DEF DetailsNext
      <4> QED
        BY <1>1, <4>3, <4>4, OneWalk
    <3>3. CASE h.ids # {}
      <4>1. PICK g : g = [h EXCEPT !.at = "details"]
        OBVIOUS
      <4>2. /\ g \in WalkRow /\ g.page = f.page /\ g.users = h.users /\ g.ids = h.ids
            /\ g.units = f.units /\ g.todo = f.todo /\ g.at = "details"
        BY <2>7, <4>1 DEF WalkRow
      <4>3. ASSUME NEW x \in Subjects \ moved[s]
            PROVE  /\ ToldTruly(s, g, x) /\ \A e : FoundIn(f, x, e) => FoundIn(g, x, e)
                   /\ x \in People(s, Head(f.todo)) =>
                        <<x, {Head(f.todo)}>> \in g.ids \/ FoundIn(g, x, Head(f.todo))
        <5>1. ToldTruly(s, g, x) /\ \A e : FoundIn(g, x, e) <=> FoundIn(h, x, e)
          BY <2>8, <4>2 DEF ToldTruly, FoundIn
        <5> QED
          BY <2>8, <3>1, <4>2, <5>1
      <4>4. g.page.token # None => g.page.token \in g.page.seen
        BY <1>1, <4>2 DEF WalkTyped
      <4>5. WalkKnown(s, g)
        BY <1>1, <4>2, <4>3, <4>4, InDepartment
      <4>6. fetch' = [fetch EXCEPT ![s] = g]
        BY <2>9, <3>3, <4>1 DEF DetailsNext
      <4> QED
        BY <1>1, <4>2, <4>5, <4>6, OneWalk
    <3> QED
      BY <3>2, <3>3
  <2>10. ASSUME NEW token \in list,
                fetch' = [fetch EXCEPT ![s] = [h EXCEPT !.page = Turn(f.page, token)]],
                \A x \in list : Later(PersonOrder, f.page.token, x) =>
                                  Later(PersonOrder, token, x) \/ x \in items
         PROVE  ReadingInvariant'
    <3>1. PICK page : page = Turn(f.page, token)
      OBVIOUS
    <3>2. page \in [token : Tokens, seen : SUBSET Tokens] /\ page.token = token /\ token \in page.seen
      BY <1>1, <2>2, <3>1, TurnPage DEF Tokens
    <3>3. PICK g : g = [h EXCEPT !.page = page]
      OBVIOUS
    <3>4. /\ g \in WalkRow /\ g.page = page /\ g.users = h.users /\ g.ids = h.ids
          /\ g.units = f.units /\ g.todo = f.todo /\ g.at = "members"
      BY <1>1, <2>7, <3>2, <3>3 DEF WalkRow
    <3>5. ASSUME NEW x \in Subjects \ moved[s]
          PROVE  /\ ToldTruly(s, g, x) /\ \A e : FoundIn(f, x, e) => FoundIn(g, x, e)
                 /\ x \in People(s, Head(f.todo)) /\ Paged(g, x) =>
                      <<x, {Head(f.todo)}>> \in g.ids \/ FoundIn(g, x, Head(f.todo))
      <4>1. ToldTruly(s, g, x) /\ \A e : FoundIn(g, x, e) <=> FoundIn(h, x, e)
        BY <2>8, <3>4 DEF ToldTruly, FoundIn
      <4>2. x \in list /\ Paged(g, x) => Paged(f, x) \/ x \in items
        BY <2>10, <3>2, <3>4 DEF Paged
      <4> QED
        BY <2>8, <3>4, <4>1, <4>2
    <3>6. WalkKnown(s, g)
      BY <1>1, <3>2, <3>4, <3>5, InDepartment
    <3> QED
      BY <1>1, <2>10, <3>1, <3>3, <3>4, <3>6, OneWalk
  <2> QED
    BY <2>4, <2>9, <2>10
<1> QED
  BY <1>2, <1>3

\* Somebody's details are answered, typed and true.
LEMMA Answers ==
  ASSUME SourceInvariant, NEW s \in Sources, NEW id \in fetch[s].ids, NEW r \in Person,
         NEW g, g = Answered(s, id, r),
         id[1] \notin moved[s] => IsTold(s, id[1], r)
  PROVE  /\ g \in WalkRow /\ g.units = fetch[s].units /\ g.todo = fetch[s].todo
         /\ g.at = fetch[s].at /\ g.page = fetch[s].page /\ g.ids = fetch[s].ids \ {id}
         /\ \A x \in Subjects \ moved[s] :
              /\ ToldTruly(s, g, x) /\ \A e : FoundIn(fetch[s], x, e) => FoundIn(g, x, e)
              /\ x \in DOMAIN fetch[s].users \/ x = id[1] => x \in DOMAIN g.users
              /\ x = id[1] => \A e \in r.units : FoundIn(g, x, e)
<1> DEFINE f == fetch[s]
<1>1. f \in WalkRow /\ \A x \in Subjects \ moved[s] : ToldTruly(s, f, x)
  BY WalkHere
<1>2. PICK x0 \in Subjects : id[1] = x0
  BY <1>1 DEF WalkRow
<1>3. PICK w : w = [z \in {x0} |-> r]
  OBVIOUS
<1>4. w[x0] = r
  BY <1>3
<1>5. g = [f EXCEPT !.ids = @ \ {id}, !.users = Upsert(@, {x0}, w)]
  BY <1>2, <1>3 DEF Answered
<1>6. Persons({x0}, w) /\ {x0} \in SUBSET Subjects
  BY <1>4 DEF Persons
<1>7. Extends(f.users, {x0}, w, Upsert(f.users, {x0}, w))
  BY <1>1, <1>6, Upserted DEF WalkRow
<1> HIDE DEF f
<1>8. /\ g \in WalkRow /\ g.units = f.units /\ g.todo = f.todo /\ g.at = f.at /\ g.page = f.page
      /\ g.ids = f.ids \ {id} /\ g.users = Upsert(f.users, {x0}, w)
  BY <1>1, <1>5, <1>7 DEF WalkRow, Extends
<1>9. ASSUME NEW x \in Subjects \ moved[s]
      PROVE  /\ ToldTruly(s, g, x) /\ \A e : FoundIn(f, x, e) => FoundIn(g, x, e)
             /\ x \in DOMAIN f.users \/ x = x0 => x \in DOMAIN g.users
             /\ x = x0 => \A e \in r.units : FoundIn(g, x, e)
  <2>1. ToldTruly(s, f, x)
    BY <1>1
  <2>2. x \in {x0} => IsTold(s, x, w[x])
    BY <1>2, <1>4, <1>9
  <2>3. \A jd \in g.ids : jd \in f.ids
    BY <1>8
  <2>4. /\ ToldTruly(s, g, x) /\ \A e : FoundIn(f, x, e) => FoundIn(g, x, e)
        /\ x \in DOMAIN f.users => x \in DOMAIN g.users
        /\ x \in {x0} => x \in DOMAIN g.users /\ \A e \in w[x].units : FoundIn(g, x, e)
    BY <1>1, <1>6, <1>8, <2>1, <2>2, <2>3, UpsertTrue
  <2> QED
    BY <1>4, <2>4
<1> QED
  BY <1>2, <1>8, <1>9 DEF f

LEMMA DetailTrue ==
  ASSUME SourceInvariant, NEW s \in Sources, NEW id \in fetch[s].ids, Kind(s) = "dingtalk",
         id[1] \in DOMAIN fetch[s].users \cup DOMAIN dir[s].users
  PROVE  /\ Detail(s, id) \in Person
         /\ id[1] \notin moved[s] =>
              /\ IsTold(s, id[1], Detail(s, id)) /\ id[2] \subseteq dir[s].users[id[1]].units
              /\ id[2] \subseteq Detail(s, id).units
                   \/ Detail(s, id).units = dir[s].users[id[1]].units
<1> DEFINE users == fetch[s].users
           t == Detail(s, id)
<1>1. SyncInvariant /\ users \in Listings
  BY WalkHere DEF WalkRow
<1>2. PICK x0 \in Subjects, F \in SUBSET Units : id = <<x0, F>> /\ id[1] = x0 /\ id[2] = F
  BY WalkHere DEF WalkRow
<1>3. x0 \notin moved[s] =>
        /\ x0 \in Listed(s) /\ F \subseteq dir[s].users[x0].units
        /\ x0 \in DOMAIN users =>
             /\ users[x0].active = Seen(s, x0) /\ users[x0].units \subseteq dir[s].users[x0].units
             /\ platform[s].brief \/ users[x0].units = dir[s].users[x0].units
  <2> SUFFICES ASSUME x0 \in Subjects \ moved[s]
               PROVE  /\ x0 \in Listed(s) /\ F \subseteq dir[s].users[x0].units
                      /\ x0 \in DOMAIN users =>
                           /\ users[x0].active = Seen(s, x0)
                           /\ users[x0].units \subseteq dir[s].users[x0].units
                           /\ platform[s].brief \/ users[x0].units = dir[s].users[x0].units
    OBVIOUS
  <2>1. ToldTruly(s, fetch[s], x0)
    BY WalkHere
  <2> QED
    BY <1>2, <2>1 DEF ToldTruly
<1>4. CASE x0 \in DOMAIN users
  <2>1. PICK G : G = IF platform[s].brief THEN F ELSE users[x0].units
    OBVIOUS
  <2>2. users[x0] \in Person
    BY <1>1, <1>4 DEF Listings, Person
  <2>3. t = [users[x0] EXCEPT !.units = G]
    BY <1>2, <1>4, <2>1 DEF Detail
  <2>4. G \in SUBSET Units
    BY <2>1, <2>2 DEF Person
  <2> HIDE DEF t, users
  <2>5. t \in Person /\ t.active = users[x0].active /\ t.units = G
    BY <2>2, <2>3, <2>4 DEF Person
  <2>6. x0 \notin moved[s] =>
          /\ t.active = Seen(s, x0) /\ t.units \subseteq dir[s].users[x0].units
          /\ platform[s].brief \/ t.units = dir[s].users[x0].units
          /\ F \subseteq t.units \/ t.units = dir[s].users[x0].units
    BY <1>3, <1>4, <2>1, <2>5
  <2> QED
    BY <1>2, <1>3, <2>5, <2>6 DEF IsTold, t
<1>5. CASE x0 \notin DOMAIN users
  <2>1. t = DingTalkRaw(s, x0, F) /\ x0 \in Everybody(s)
    BY <1>2, <1>5 DEF Detail, Everybody
  <2>2. t = [active |-> dir[s].users[x0].active, units |-> Places(s, x0, F)]
    BY <2>1 DEF DingTalkRaw
  <2>3. t \in Person
    BY <1>1, <2>1, RawPersons
  <2> HIDE DEF t
  <2>4. t.active = dir[s].users[x0].active /\ t.units = Places(s, x0, F)
    BY <2>2
  <2>5. t.active = Seen(s, x0)
    BY <1>1, <2>1, <2>4, SeenHere
  <2>6. x0 \notin moved[s] => IsTold(s, x0, t) /\ F \subseteq t.units
    BY <1>1, <1>3, <2>1, <2>4, <2>5, Tells
  <2> QED
    BY <1>2, <1>3, <2>3, <2>6 DEF t
<1> QED
  BY <1>4, <1>5

LEMMA DingTalkDetailKeeps ==
  ASSUME SourceInvariant, NEW s \in Sources, DingTalkDetail(s), UNCHANGED <<vars, moved, platform>>
  PROVE  ReadingInvariant'
<1> DEFINE f == fetch[s]
           d == Head(f.todo)
<1>1. /\ SyncInvariant /\ ReadingInvariant /\ WalkKnown(s, f) /\ f \in WalkRow
      /\ f.at = "details" /\ Kind(s) = "dingtalk" /\ WalkTyped(Kind(s), f)
  BY WalkHere DEF DingTalkDetail, At
<1>2. CASE Fails(s)
  BY <1>1, <1>2, FailsKeeps
<1>3. CASE ~Fails(s)
  <2>1. PICK id \in f.ids :
          /\ id[1] \in DOMAIN f.users \cup DOMAIN dir[s].users
          /\ fetch' = [fetch EXCEPT ![s] =
               IF Answered(s, id, Detail(s, id)).ids = {} THEN MembersRead(Answered(s, id, Detail(s, id)))
               ELSE Answered(s, id, Detail(s, id))]
    BY <1>3 DEF DingTalkDetail
  <2>2. PICK x0 \in Subjects, F \in SUBSET Units : id = <<x0, F>> /\ id[1] = x0 /\ id[2] = F
    BY <1>1, <2>1 DEF WalkRow
  <2>3. PICK t : t = Detail(s, id)
    OBVIOUS
  <2>4. PICK g : g = Answered(s, id, t)
    OBVIOUS
  <2>5. /\ t \in Person
        /\ x0 \notin moved[s] => /\ IsTold(s, x0, t) /\ F \subseteq dir[s].users[x0].units
                                 /\ F \subseteq t.units \/ t.units = dir[s].users[x0].units
    BY <1>1, <2>1, <2>2, <2>3, DetailTrue
  <2>6. /\ g \in WalkRow /\ g.units = f.units /\ g.todo = f.todo
        /\ g.at = f.at /\ g.page = f.page /\ g.ids = f.ids \ {id}
        /\ \A x \in Subjects \ moved[s] :
             /\ ToldTruly(s, g, x) /\ \A e : FoundIn(f, x, e) => FoundIn(g, x, e)
             /\ x = x0 => \A e \in t.units : FoundIn(g, x, e)
    BY <2>1, <2>2, <2>4, <2>5, Answers
  <2>7. ASSUME NEW x \in Subjects \ moved[s], x \in People(s, d)
        PROVE  <<x, {d}>> \in g.ids \/ FoundIn(g, x, d)
    <3>1. <<x, {d}>> \in f.ids \/ FoundIn(f, x, d)
      <4>1. MemberKnown(s, f, x) /\ f.units # <<>>
        BY <1>1, <2>7 DEF WalkKnown, PersonKnown, WalkTyped
      <4> QED
        BY <1>1, <2>7, <4>1 DEF MemberKnown
    <3>2. ASSUME <<x, {d}>> = id PROVE FoundIn(g, x, d)
      <4>1. x = x0 /\ F = {d}
        BY <2>2, <3>2
      <4>2. d \in dir[s].users[x].units
        BY <2>7 DEF People
      <4>3. d \in t.units
        BY <2>5, <2>7, <4>1, <4>2
      <4> QED
        BY <2>6, <2>7, <4>1, <4>3
    <3> QED
      BY <2>6, <2>7, <3>1, <3>2
  <2>8. CASE g.ids = {}
    <3>1. PICK m : m = MembersRead(g)
      OBVIOUS
    <3>2. m \in WalkRow /\ WalkKnown(s, m)
      BY <1>1, <2>6, <2>7, <2>8, <3>1, DepartmentRead
    <3>3. fetch' = [fetch EXCEPT ![s] = m]
      BY <2>1, <2>3, <2>4, <2>8, <3>1
    <3> QED
      BY <1>1, <3>2, <3>3, OneWalk
  <2>9. CASE g.ids # {}
    <3>1. g.page.token # None => g.page.token \in g.page.seen
      BY <1>1, <2>6 DEF WalkTyped
    <3>2. WalkKnown(s, g)
      BY <1>1, <2>6, <2>7, <3>1, InDepartment
    <3>3. fetch' = [fetch EXCEPT ![s] = g]
      BY <2>1, <2>3, <2>4, <2>9
    <3> QED
      BY <1>1, <2>6, <3>2, <3>3, OneWalk
  <2> QED
    BY <2>8, <2>9
<1> QED
  BY <1>2, <1>3
------------------------------------------------------------------------------
\* WeCom without departments.
LEMMA WithoutUnits ==
  ASSUME NEW s, NEW f, WalkKnown(s, f), Kind(s) = "wecom", f.at \in {"visible", "details"},
         f.units = <<>>, NEW g \in WalkRow, g.units = f.units, g.todo = f.todo,
         g.at \in {"visible", "details", "done"},
         g.page.token # None => g.page.token \in g.page.seen,
         \A x \in Subjects \ moved[s] :
           /\ ToldTruly(s, g, x)
           /\ x \in Everybody(s) =>
                /\ g.at = "visible" /\ Paged(g, x) => ToAsk(g, x)
                /\ g.at = "details" => ToAsk(g, x) \/ x \in DOMAIN g.users
                /\ g.at = "done" => x \in DOMAIN g.users
  PROVE  WalkKnown(s, g)
<1>1. WalkTyped(Kind(s), f)
  BY DEF WalkKnown
<1>2. f.todo = <<>>
  BY <1>1 DEF WalkTyped
<1>3. WalkTyped(Kind(s), g)
  BY <1>1, <1>2 DEF WalkTyped, Stages
<1>4. moved[s] # Subjects => TreeKnown(s, g)
  BY UnitsStayKnown DEF WalkKnown
<1>5. ASSUME NEW x \in Subjects \ moved[s] PROVE PersonKnown(s, g, x)
  BY <1>5 DEF PersonKnown, MemberKnown, VisibleKnown
<1> QED
  BY <1>3, <1>4, <1>5 DEF WalkKnown

LEMMA EverybodyListed ==
  ASSUME SyncInvariant, NEW s \in Sources, NEW f, WalkKnown(s, f), Kind(s) = "wecom",
         f.at \in {"visible", "details"}
  PROVE  /\ f.units = <<>> /\ Everybody(s) \in SUBSET Subjects /\ IsFiniteSet(Everybody(s))
         /\ moved[s] # Subjects => Everybody(s) \subseteq Listed(s)
<1>1. f.units = <<>>
  BY DEF WalkKnown, WalkTyped
<1>2. moved[s] # Subjects => Found(s) = {}
  BY <1>1, EmptyRange DEF WalkKnown, TreeKnown
<1>3. moved[s] # Subjects => Everybody(s) \subseteq Listed(s)
  BY <1>2 DEF Listed, Everybody
<1> QED
  BY <1>1, <1>3, Organised

LEMMA WeComDetailKeeps ==
  ASSUME SourceInvariant, NEW s \in Sources, WeComDetail(s), UNCHANGED <<vars, moved, platform>>
  PROVE  ReadingInvariant'
<1> DEFINE f == fetch[s]
<1>1. /\ SyncInvariant /\ ReadingInvariant /\ WalkKnown(s, f) /\ f \in WalkRow
      /\ f.at = "details" /\ Kind(s) = "wecom" /\ WalkTyped(Kind(s), f)
  BY WalkHere DEF WeComDetail, At
<1>2. CASE Fails(s)
  BY <1>1, <1>2, FailsKeeps
<1>3. CASE ~Fails(s)
  <2> DEFINE r(id) == WeComRaw(s, id[1], id[2])
  <2>1. PICK id \in f.ids :
          /\ id[1] \in DOMAIN dir[s].users
          /\ fetch' = [fetch EXCEPT ![s] =
               IF Answered(s, id, r(id)).ids = {} THEN [Answered(s, id, r(id)) EXCEPT !.at = "done"]
               ELSE Answered(s, id, r(id))]
    BY <1>3 DEF WeComDetail
  <2>2. PICK x0 \in Subjects, F \in SUBSET Units : id = <<x0, F>> /\ id[1] = x0 /\ id[2] = F
    BY <1>1, <2>1 DEF WalkRow
  <2>3. PICK t : t = r(id)
    OBVIOUS
  <2> HIDE DEF r
  <2>4. PICK g : g = Answered(s, id, t)
    OBVIOUS
  <2>5. t \in Person /\ x0 \in Everybody(s)
    BY <1>1, <2>1, <2>2, <2>3, RawPersons DEF Everybody, r
  <2>6. ASSUME x0 \notin moved[s] PROVE IsTold(s, x0, t)
    <3>1. ToldTruly(s, f, x0)
      BY <2>6, WalkHere
    <3>2. x0 \in Listed(s) /\ F \subseteq dir[s].users[x0].units
      BY <2>1, <2>2, <3>1 DEF ToldTruly
    <3>3. t.active = dir[s].users[x0].active /\ t.units = Places(s, x0, F)
      BY <2>2, <2>3 DEF WeComRaw, r
    <3>4. t.active = Seen(s, x0)
      BY <1>1, <2>5, <3>3, SeenHere
    <3> QED
      BY <1>1, <2>5, <3>2, <3>3, <3>4, Tells
  <2>7. /\ g \in WalkRow /\ g.units = f.units /\ g.todo = f.todo
        /\ g.at = f.at /\ g.page = f.page /\ g.ids = f.ids \ {id}
        /\ \A x \in Subjects \ moved[s] :
             /\ ToldTruly(s, g, x)
             /\ x \in DOMAIN f.users \/ x = x0 => x \in DOMAIN g.users
    BY <2>1, <2>2, <2>4, <2>5, <2>6, Answers
  <2>8. f.units = <<>>
    BY <1>1, EverybodyListed
  <2>9. ASSUME NEW x \in Subjects \ moved[s], x \in Everybody(s)
        PROVE  ToAsk(g, x) \/ x \in DOMAIN g.users
    <3>1. ToAsk(f, x) \/ x \in DOMAIN f.users
      <4>1. VisibleKnown(s, f, x)
        BY <1>1, <2>9 DEF WalkKnown, PersonKnown
      <4> QED
        BY <1>1, <2>8, <2>9, <4>1 DEF VisibleKnown
    <3>2. CASE x = x0 \/ x \in DOMAIN f.users
      BY <2>7, <2>9, <3>2
    <3>3. CASE x # x0 /\ ToAsk(f, x)
      <4>1. PICK jd \in f.ids : jd[1] = x
        BY <3>3 DEF ToAsk
      <4>2. jd \in g.ids
        BY <2>2, <2>7, <3>3, <4>1
      <4> QED
        BY <4>1, <4>2 DEF ToAsk
    <3> QED
      BY <3>1, <3>2, <3>3
  <2>10. g.page.token # None => g.page.token \in g.page.seen
    BY <1>1, <2>7 DEF WalkTyped
  <2>11. CASE g.ids = {}
    <3>1. PICK m : m = [g EXCEPT !.at = "done"]
      OBVIOUS
    <3>2. /\ m \in WalkRow /\ m.units = f.units /\ m.todo = f.todo /\ m.at = "done"
          /\ m.page = g.page /\ m.ids = g.ids /\ m.users = g.users
      BY <2>7, <3>1 DEF WalkRow
    <3>3. ASSUME NEW x \in Subjects \ moved[s]
          PROVE  ToldTruly(s, m, x) /\ x \in Everybody(s) => x \in DOMAIN m.users
      BY <2>7, <2>9, <2>11, <3>2 DEF ToldTruly, ToAsk
    <3>4. \A x \in Subjects \ moved[s] : ToldTruly(s, m, x)
      BY <2>7, <3>2 DEF ToldTruly
    <3>5. WalkKnown(s, m)
      BY <1>1, <2>8, <2>10, <3>2, <3>3, <3>4, WithoutUnits
    <3>6. fetch' = [fetch EXCEPT ![s] = m]
      BY <2>1, <2>3, <2>4, <2>11, <3>1
    <3> QED
      BY <1>1, <3>2, <3>5, <3>6, OneWalk
  <2>12. CASE g.ids # {}
    <3>1. WalkKnown(s, g)
      BY <1>1, <2>7, <2>8, <2>9, <2>10, WithoutUnits
    <3>2. fetch' = [fetch EXCEPT ![s] = g]
      BY <2>1, <2>3, <2>4, <2>12
    <3> QED
      BY <1>1, <2>7, <3>1, <3>2, OneWalk
  <2> QED
    BY <2>11, <2>12
<1> QED
  BY <1>2, <1>3

LEMMA AskedTyped ==
  ASSUME NEW list \in SUBSET Subjects, NEW known, \A x \in list : known[x] \in SUBSET Units
  PROVE  /\ Asked(list, known) \in SUBSET (Subjects \X SUBSET Units)
         /\ \A id \in Asked(list, known) : id[1] \in list /\ id[2] = known[id[1]]
         /\ \A x \in list : <<x, known[x]>> \in Asked(list, known)
<1>1. ASSUME NEW id \in Asked(list, known)
      PROVE  id \in Subjects \X SUBSET Units /\ id[1] \in list /\ id[2] = known[id[1]]
  <2>1. PICK x \in list : id = <<x, known[x]>>
    BY DEF Asked
  <2>2. x \in Subjects /\ known[x] \in SUBSET Units
    OBVIOUS
  <2> QED
    BY <2>1, <2>2
<1> QED
  BY <1>1 DEF Asked

LEMMA AgentVisibleKeeps ==
  ASSUME SourceInvariant, NEW s \in Sources, AgentVisible(s), UNCHANGED <<vars, moved, platform>>
  PROVE  ReadingInvariant'
<1> DEFINE f == fetch[s]
           none == [x \in Subjects |-> {}]
<1>1. /\ SyncInvariant /\ ReadingInvariant /\ WalkKnown(s, f) /\ f \in WalkRow
      /\ f.at = "visible" /\ Kind(s) = "wecom" /\ WalkTyped(Kind(s), f)
  BY WalkHere DEF AgentVisible, At
<1>2. PICK A : A = Asked(Everybody(s), none)
  OBVIOUS
<1>3. PICK h : h = [f EXCEPT !.ids = A]
  OBVIOUS
<1>4. f.page = NoPage /\ Everybody(s) # {} /\ fetch' = [fetch EXCEPT ![s] = VisibleRead(h)]
  BY <1>2, <1>3 DEF AgentVisible
<1>5. /\ f.units = <<>> /\ Everybody(s) \in SUBSET Subjects
      /\ moved[s] # Subjects => Everybody(s) \subseteq Listed(s)
  BY <1>1, EverybodyListed
<1>6. /\ A \in SUBSET (Subjects \X SUBSET Units)
      /\ \A id \in A : id[1] \in Everybody(s) /\ id[2] = {}
      /\ \A x \in Everybody(s) : <<x, none[x]>> \in A
  <2>1. \A x \in Everybody(s) : none[x] \in SUBSET Units /\ none[x] = {}
    BY <1>5
  <2> HIDE DEF none
  <2>2. /\ A \in SUBSET (Subjects \X SUBSET Units)
        /\ \A id \in A : id[1] \in Everybody(s) /\ id[2] = none[id[1]]
        /\ \A x \in Everybody(s) : <<x, none[x]>> \in A
    BY <1>2, <1>5, <2>1, AskedTyped
  <2>3. ASSUME NEW id \in A PROVE id[1] \in Everybody(s) /\ id[2] = {}
    BY <2>1, <2>2
  <2> QED
    BY <2>2, <2>3
<1>7. A # {}
  BY <1>4, <1>6
<1> HIDE DEF none
<1>8. /\ h \in WalkRow /\ h.units = f.units /\ h.todo = f.todo /\ h.users = f.users /\ h.ids = A
  BY <1>1, <1>3, <1>6 DEF WalkRow
<1>9. PICK g : g = VisibleRead(h)
  OBVIOUS
<1>10. NoPage \in [token : Tokens, seen : SUBSET Tokens] /\ NoPage.token = None
  BY DEF NoPage, Tokens
<1>11. /\ g \in WalkRow /\ g.units = f.units /\ g.todo = f.todo /\ g.users = f.users /\ g.ids = A
       /\ g.page = NoPage /\ g.at = "details"
  BY <1>7, <1>8, <1>9, <1>10 DEF VisibleRead, WalkRow
<1>12. ASSUME NEW x \in Subjects \ moved[s]
       PROVE  ToldTruly(s, g, x) /\ (x \in Everybody(s) => ToAsk(g, x))
  <2>1. ToldTruly(s, f, x)
    BY WalkHere
  <2>2. ToldTruly(s, g, x)
    BY <1>5, <1>6, <1>11, <1>12, <2>1 DEF ToldTruly
  <2>3. ASSUME x \in Everybody(s) PROVE ToAsk(g, x)
    <3>1. <<x, none[x]>> \in g.ids /\ <<x, none[x]>>[1] = x
      BY <1>6, <1>11, <2>3
    <3> QED
      BY <3>1 DEF ToAsk
  <2> QED
    BY <2>2, <2>3
<1>13. WalkKnown(s, g)
  BY <1>1, <1>5, <1>10, <1>11, <1>12, WithoutUnits
<1> QED
  BY <1>1, <1>4, <1>9, <1>11, <1>13, OneWalk

LEMMA VisibleIdsKeeps ==
  ASSUME SourceInvariant, NEW s \in Sources, VisibleIds(s), UNCHANGED <<vars, moved, platform>>
  PROVE  ReadingInvariant'
<1> DEFINE f == fetch[s]
           list == Everybody(s)
           items == Items(s, list, PersonOrder)
           own == [x \in list |-> dir[s].users[x].units]
           h == [f EXCEPT !.ids = @ \cup Asked(items, own)]
<1>1. /\ SyncInvariant /\ ReadingInvariant /\ WalkKnown(s, f) /\ f \in WalkRow
      /\ f.at = "visible" /\ Kind(s) = "wecom" /\ WalkTyped(Kind(s), f)
  BY WalkHere DEF VisibleIds, At
<1>2. CASE Fails(s)
  BY <1>1, <1>2, FailsKeeps
<1>3. CASE ~Fails(s)
  <2>1. Page(s, list, PersonOrder, h, VisibleRead(h))
    BY <1>3 DEF VisibleIds
  <2>2. /\ f.units = <<>> /\ list \in SUBSET Subjects /\ IsFiniteSet(list)
        /\ moved[s] # Subjects => list \subseteq Listed(s)
    BY <1>1, EverybodyListed
  <2>3. list \subseteq Range(PersonOrder) /\ PersonOrder \in Seq(Subjects) /\ None \notin list
    BY <2>2, PeopleAreTokens
  <2>4. /\ items \subseteq list
        /\ \/ /\ fetch' = [fetch EXCEPT ![s] = VisibleRead(h)]
              /\ \A x \in list : Later(PersonOrder, f.page.token, x) => x \in items
           \/ \E token \in list :
                /\ fetch' = [fetch EXCEPT ![s] = [h EXCEPT !.page = Turn(f.page, token)]]
                /\ \A x \in list : Later(PersonOrder, f.page.token, x) =>
                                     Later(PersonOrder, token, x) \/ x \in items
    <3> HIDE DEF h, list
    <3> QED
      BY <1>1, <1>3, <2>1, <2>2, <2>3, PageRead, SMTT(30)
  <2>5. PICK A : A = Asked(items, own)
    OBVIOUS
  <2>6. /\ A \in SUBSET (Subjects \X SUBSET Units)
        /\ \A id \in A : id[1] \in items /\ id[2] = dir[s].users[id[1]].units
        /\ \A x \in items : <<x, own[x]>> \in A
    <3>1. \A x \in items : own[x] \in SUBSET Units /\ own[x] = dir[s].users[x].units
      BY <1>1, <2>4, Organised
    <3> HIDE DEF own, items
    <3>2. items \in SUBSET Subjects
      BY <2>2, <2>4
    <3>3. /\ A \in SUBSET (Subjects \X SUBSET Units)
          /\ \A id \in A : id[1] \in items /\ id[2] = own[id[1]]
          /\ \A x \in items : <<x, own[x]>> \in A
      <4> HIDE DEF list
      <4> QED
        BY <2>5, <3>1, <3>2, AskedTyped, ZenonT(40)
    <3>4. ASSUME NEW id \in A PROVE id[1] \in items /\ id[2] = dir[s].users[id[1]].units
      BY <3>1, <3>3
    <3> QED
      BY <3>3, <3>4, SMTT(30)
  <2>7. /\ h \in WalkRow /\ h.units = f.units /\ h.todo = f.todo /\ h.users = f.users /\ h.at = f.at
        /\ h.page = f.page /\ h.ids = f.ids \cup A
    <3>1. h = [f EXCEPT !.ids = @ \cup A]
      BY <2>5
    <3> HIDE DEF h
    <3> QED
      BY <1>1, <2>6, <3>1 DEF WalkRow
  <2> HIDE DEF h, items, own
  <2>8. ASSUME NEW x \in Subjects \ moved[s]
        PROVE  /\ ToldTruly(s, h, x)
               /\ x \in items => ToAsk(h, x)
               /\ x \in list /\ Paged(f, x) => ToAsk(h, x)
    <3>1. ToldTruly(s, f, x)
      BY WalkHere
    <3>2. \A id \in A : id[1] = x => x \in Listed(s) /\ id[2] \subseteq dir[s].users[x].units
      <4> HIDE DEF list
      <4> QED
        BY <2>2, <2>4, <2>6, <2>8
    <3>3. ToldTruly(s, h, x)
      BY <2>7, <3>1, <3>2 DEF ToldTruly
    <3>4. x \in items => ToAsk(h, x)
      <4>1. <<x, own[x]>>[1] = x
        OBVIOUS
      <4> QED
        BY <2>6, <2>7, <4>1 DEF ToAsk
    <3>5. ASSUME x \in list, Paged(f, x) PROVE ToAsk(h, x)
      <4>1. VisibleKnown(s, f, x)
        BY <1>1, <2>8 DEF WalkKnown, PersonKnown
      <4>2. ToAsk(f, x)
        BY <1>1, <2>2, <3>5, <4>1 DEF VisibleKnown
      <4> QED
        BY <2>7, <4>2 DEF ToAsk
    <3> QED
      BY <3>3, <3>4, <3>5
  <2>9. CASE /\ fetch' = [fetch EXCEPT ![s] = VisibleRead(h)]
             /\ \A x \in list : Later(PersonOrder, f.page.token, x) => x \in items
    <3>1. PICK g : g = VisibleRead(h)
      OBVIOUS
    <3>2. NoPage \in [token : Tokens, seen : SUBSET Tokens] /\ NoPage.token = None
      BY DEF NoPage, Tokens
    <3>3. /\ g \in WalkRow /\ g.units = f.units /\ g.todo = f.todo /\ g.users = h.users /\ g.ids = h.ids
          /\ g.page = NoPage /\ g.at = (IF h.ids = {} THEN "done" ELSE "details")
      BY <2>7, <3>1, <3>2 DEF VisibleRead, WalkRow
    <3>4. ASSUME NEW x \in Subjects \ moved[s]
          PROVE  ToldTruly(s, g, x) /\ (x \in Everybody(s) => ToAsk(g, x) /\ g.at = "details")
      <4>1. ToldTruly(s, g, x)
        BY <2>8, <3>3 DEF ToldTruly
      <4>2. x \in list => ToAsk(h, x)
        BY <2>8, <2>9, <3>4 DEF Paged
      <4> QED
        BY <3>3, <4>1, <4>2 DEF ToAsk
    <3>5. WalkKnown(s, g)
      BY <1>1, <2>2, <3>2, <3>3, <3>4, WithoutUnits
    <3> QED
      BY <1>1, <2>9, <3>1, <3>3, <3>5, OneWalk
  <2>10. ASSUME NEW token \in list,
                fetch' = [fetch EXCEPT ![s] = [h EXCEPT !.page = Turn(f.page, token)]],
                \A x \in list : Later(PersonOrder, f.page.token, x) =>
                                  Later(PersonOrder, token, x) \/ x \in items
         PROVE  ReadingInvariant'
    <3>1. PICK page : page = Turn(f.page, token)
      OBVIOUS
    <3>2. page \in [token : Tokens, seen : SUBSET Tokens] /\ page.token = token /\ token \in page.seen
      BY <1>1, <2>2, <3>1, TurnPage DEF Tokens
    <3>3. PICK g : g = [h EXCEPT !.page = page]
      OBVIOUS
    <3>4. /\ g \in WalkRow /\ g.page = page /\ g.users = h.users /\ g.ids = h.ids
          /\ g.units = f.units /\ g.todo = f.todo /\ g.at = "visible"
      BY <1>1, <2>7, <3>2, <3>3 DEF WalkRow
    <3>5. ASSUME NEW x \in Subjects \ moved[s]
          PROVE  ToldTruly(s, g, x) /\ (x \in Everybody(s) /\ Paged(g, x) => ToAsk(g, x))
      <4>1. ToldTruly(s, g, x)
        BY <2>8, <3>4 DEF ToldTruly
      <4>2. x \in list /\ Paged(g, x) => Paged(f, x) \/ x \in items
        BY <2>10, <3>2, <3>4 DEF Paged
      <4> QED
        BY <2>8, <3>4, <4>1, <4>2 DEF ToAsk
    <3>6. WalkKnown(s, g)
      BY <1>1, <2>2, <3>2, <3>4, <3>5, WithoutUnits
    <3> QED
      BY <1>1, <2>10, <3>1, <3>3, <3>4, <3>6, OneWalk
  <2> QED
    BY <2>4, <2>9, <2>10
<1> QED
  BY <1>2, <1>3
------------------------------------------------------------------------------
(***************************************************************************)
(* Every step.                                                             *)
(***************************************************************************)
LEMMA FetchStepKeeps ==
  ASSUME SourceInvariant, NEW s \in Sources, FetchStep(s), UNCHANGED <<vars, moved>>
  PROVE  SourceInvariant'
<1>1. SyncInvariant'
  BY StutterKeeps DEF SourceInvariant
<1>2. UNCHANGED <<vars, moved, platform>>
  BY DEF FetchStep
<1>3. ReadingInvariant'
  <2>1. CASE WeComDepartments(s)
    BY <1>2, <2>1, WeComDepartmentsKeeps
  <2>2. CASE WeComMembers(s)
    BY <1>2, <2>2, WeComMembersKeeps
  <2>3. CASE AgentVisible(s)
    BY <1>2, <2>3, AgentVisibleKeeps
  <2>4. CASE VisibleIds(s)
    BY <1>2, <2>4, VisibleIdsKeeps
  <2>5. CASE WeComDetail(s)
    BY <1>2, <2>5, WeComDetailKeeps
  <2>6. CASE FeishuBegins(s)
    BY <1>2, <2>6, FeishuBeginsKeeps
  <2>7. CASE FeishuChildren(s)
    BY <1>2, <2>7, FeishuChildrenKeeps
  <2>8. CASE FeishuMembers(s)
    BY <1>2, <2>8, FeishuMembersKeeps
  <2>9. CASE DingTalkBegins(s)
    BY <1>2, <2>9, DingTalkBeginsKeeps
  <2>10. CASE DingTalkChildren(s)
    BY <1>2, <2>10, DingTalkChildrenKeeps
  <2>11. CASE DingTalkMembers(s)
    BY <1>2, <2>11, DingTalkMembersKeeps
  <2>12. CASE DingTalkDetail(s)
    BY <1>2, <2>12, DingTalkDetailKeeps
  <2> QED
    BY <2>1, <2>2, <2>3, <2>4, <2>5, <2>6, <2>7, <2>8, <2>9, <2>10, <2>11, <2>12 DEF FetchStep
<1> QED
  BY <1>1, <1>3 DEF SourceInvariant

\* What a step of the synchronisation does to the readings.
LEMMA AlongKeeps ==
  ASSUME ReadingInvariant, Along
  PROVE  ReadingInvariant'
<1>1. /\ platform' = platform /\ platform \in [Sources -> Platforms]
      /\ moved \in [Sources -> SUBSET Subjects] /\ fetch \in [Sources -> WalkRow]
      /\ \A s \in Sources : WalkKnown(s, fetch[s])
      /\ fetch' = [s \in Sources |-> IF run'[s].pc = "fetch" THEN fetch[s] ELSE NoFetch]
      /\ moved' = [s \in Sources |->
           IF run'[s].pc = "idle" THEN {}
           ELSE moved[s] \cup {x \in Subjects : Place(dir', s, x) # Place(dir, s, x)}]
  BY DEF ReadingInvariant, Along
<1>2. fetch' \in [Sources -> WalkRow] /\ moved' \in [Sources -> SUBSET Subjects]
  BY <1>1, NothingTyped
<1>3. ASSUME NEW s \in Sources PROVE WalkKnown(s, fetch[s])'
  <2>1. PICK g : g = fetch'[s]
    BY <1>1
  <2>2. CASE run'[s].pc = "fetch"
    <3>1. g = fetch[s] /\ moved[s] \in SUBSET Subjects
          /\ moved'[s] = moved[s] \cup {x \in Subjects : Place(dir', s, x) # Place(dir, s, x)}
      BY <1>1, <2>1, <2>2
    <3>2. WalkKnown(s, g)
      BY <1>1, <3>1
    <3>3. WalkKnown(s, g)'
      BY <1>1, <3>1, <3>2, WalkStays
    <3> QED
      BY <2>1, <3>3
  <2>3. CASE run'[s].pc # "fetch"
    <3>1. g = NoFetch
      BY <1>1, <2>1, <2>3
    <3> QED
      BY <1>1, <2>1, <3>1, NothingKnownNext
  <2> QED
    BY <2>2, <2>3
<1> QED
  BY <1>1, <1>2, <1>3 DEF ReadingInvariant

LEMMA ReadTyped ==
  ASSUME SourceInvariant, NEW s \in Sources, NEW snap \in Read(s)
  PROVE  snap \in Snapshot /\ snap.users = fetch[s].users /\ snap.units = Range(fetch[s].units)
<1> DEFINE f == fetch[s]
           X == DOMAIN f.users
<1>1. f.users \in Listings /\ f.units \in Seq(Units)
  BY WalkHere DEF WalkRow
<1>2. X \in SUBSET Subjects /\ IsFiniteSet(X)
  BY <1>1, MappingAssumption, FS_Subset DEF Listings
<1>3. PICK o \in InAnyOrder(X) :
         snap = [users |-> f.users, units |-> Range(f.units), order |-> o, told |-> NothingTold]
  BY DEF Read
<1> HIDE DEF X
<1>4. o \in Seq(X)
  BY <1>2, AnyOrder
<1>5. o \in Seq(Subjects)
  BY <1>2, <1>4
<1>6. Range(f.units) \in SUBSET Units
  BY <1>1, RangeTyped
<1> QED
  BY <1>1, <1>3, <1>5, <1>6, NothingToldTyped DEF Snapshot

LEMMA SourceInitSound == SourceInit => SourceInvariant
<1> SUFFICES ASSUME SourceInit PROVE SourceInvariant
  OBVIOUS
<1>1. SyncInvariant
  BY InitSound DEF SourceInit
<1>2. ReadingInvariant
  BY NothingTyped, NothingKnown DEF SourceInit, ReadingInvariant
<1> QED
  BY <1>1, <1>2 DEF SourceInvariant

LEMMA SourceNextSound ==
  ASSUME ~IsFiniteSet(Ids), SourceInvariant, [SourceNext]_sourceVars
  PROVE  SourceInvariant'
<1>1. CASE \E s \in Sources : FetchStep(s) /\ UNCHANGED <<vars, moved>>
  BY <1>1, FetchStepKeeps
<1>2. CASE Elsewhere /\ Along
  <2>1. SyncInvariant'
    BY <1>2, NextSound DEF SourceInvariant, Next
  <2> QED
    BY <1>2, <2>1, AlongKeeps DEF SourceInvariant
<1>3. CASE \E s \in Sources : (SnapshotRead(s) \/ SnapshotFails(s) \/ MembersListed(s)) /\ Along
  <2>1. PICK s \in Sources : (SnapshotRead(s) \/ SnapshotFails(s) \/ MembersListed(s)) /\ Along
    BY <1>3
  <2>2. CASE SnapshotRead(s)
    <3>1. PICK snap \in Read(s) : ReadSnapshot(s, snap)
      BY <2>2 DEF SnapshotRead
    <3>2. SyncInvariant'
      BY <3>1, ReadTyped, ReadSnapshotKeeps DEF SourceInvariant
    <3> QED
      BY <2>1, <3>2, AlongKeeps DEF SourceInvariant
  <2>3. CASE SnapshotFails(s)
    <3>1. SyncInvariant'
      BY <2>3, FetchFailsKeeps DEF SourceInvariant, SnapshotFails
    <3> QED
      BY <2>1, <3>1, AlongKeeps DEF SourceInvariant
  <2>4. CASE MembersListed(s)
    <3>1. SyncInvariant'
      BY <2>4, ListMembersKeeps DEF SourceInvariant, MembersListed
    <3> QED
      BY <2>1, <3>1, AlongKeeps DEF SourceInvariant
  <2> QED
    BY <2>1, <2>2, <2>3, <2>4
<1>4. CASE UNCHANGED sourceVars
  <2>1. UNCHANGED vars /\ platform' = platform /\ fetch' = fetch /\ moved' = moved /\ dir' = dir
    BY <1>4 DEF sourceVars, vars
  <2>2. SyncInvariant'
    BY <2>1, StutterKeeps DEF SourceInvariant
  <2>3. ReadingInvariant
    BY DEF SourceInvariant
  <2>4. ASSUME NEW s \in Sources PROVE WalkKnown(s, fetch[s])'
    <3>1. WalkKnown(s, fetch[s]) /\ moved[s] \in SUBSET Subjects
      BY <2>3 DEF ReadingInvariant
    <3>2. PICK g : g = fetch[s]
      OBVIOUS
    <3>3. moved'[s] = moved[s] \cup {x \in Subjects : Place(dir', s, x) # Place(dir, s, x)}
      BY <2>1
    <3>4. WalkKnown(s, g)'
      BY <2>1, <3>1, <3>2, <3>3, WalkStays
    <3> QED
      BY <2>1, <3>2, <3>4
  <2>5. ReadingInvariant'
    BY <2>1, <2>3, <2>4 DEF ReadingInvariant
  <2> QED
    BY <2>2, <2>5 DEF SourceInvariant
<1> QED
  BY <1>1, <1>2, <1>3, <1>4 DEF SourceNext

\* Whatever the organisation does while it is read, and however many pages and
\* departments there are, what a walk holds is right about everybody who has
\* stayed in place, and the tables stay sound.
THEOREM SourceIsSound ==
  ASSUME ~IsFiniteSet(Ids)
  PROVE  SourceSpec => []SourceInvariant
<1>1. SourceInvariant /\ [SourceNext]_sourceVars => SourceInvariant'
  BY SourceNextSound
<1> QED
  BY <1>1, SourceInitSound, PTL DEF SourceSpec

\* What has been read when a walk is done, if nobody has moved.
LEMMA DoneExactly ==
  ASSUME SourceInvariant, NEW s \in Sources, fetch[s].at = "done", moved[s] = {}
  PROVE  /\ Range(fetch[s].units) = Found(s) /\ DOMAIN fetch[s].users = Listed(s)
         /\ \A x \in Listed(s) :
              /\ fetch[s].users[x].active = Seen(s, x)
              /\ fetch[s].users[x].units \cap Found(s) = dir[s].users[x].units \cap Found(s)
<1> DEFINE f == fetch[s]
<1>1. /\ SyncInvariant /\ WalkKnown(s, f) /\ f \in WalkRow /\ WalkTyped(Kind(s), f)
      /\ \A x \in Subjects : PersonKnown(s, f, x)
  BY WalkHere DEF WalkKnown
<1>2. moved[s] # Subjects
  BY FetchAssumption
<1>3. Range(f.units) = Found(s)
  BY <1>2, WalkHere DEF TreeKnown
<1>4. f.todo = <<>> /\ Range(f.todo) = {}
  BY <1>1, EmptyRange DEF WalkTyped
<1>5. DOMAIN f.users \in SUBSET Subjects
  BY <1>1 DEF WalkRow, Listings
<1>6. Listed(s) \in SUBSET Subjects
  BY <1>1, Organised DEF Listed, Everybody
<1>7. ASSUME NEW x \in DOMAIN f.users
      PROVE  x \in Listed(s) /\ f.users[x].active = Seen(s, x)
             /\ f.users[x].units \subseteq dir[s].users[x].units
  BY <1>1, <1>5 DEF PersonKnown, ToldTruly
<1>8. ASSUME NEW x \in Listed(s), NEW d \in Found(s), d \in dir[s].users[x].units
      PROVE  FoundIn(f, x, d)
  <2>1. f.units # <<>>
    BY <1>3, EmptyRange
  <2>2. MemberKnown(s, f, x)
    BY <1>1, <1>6 DEF PersonKnown
  <2>3. x \in People(s, d)
    BY <1>8 DEF People, Listed
  <2> QED
    BY <1>3, <1>4, <2>1, <2>2, <2>3 DEF MemberKnown
<1>9. ASSUME NEW x \in Listed(s) PROVE x \in DOMAIN f.users
  <2>1. CASE dir[s].users[x].units \cap Found(s) # {}
    BY <1>8, <2>1 DEF FoundIn
  <2>2. CASE Kind(s) = "wecom" /\ Found(s) = {}
    <3>1. f.units = <<>>
      BY <1>1, <1>3, <2>2, EmptyRange DEF WalkRow
    <3>2. VisibleKnown(s, f, x) /\ x \in Everybody(s)
      BY <1>1, <1>6 DEF PersonKnown, Listed, Everybody
    <3> QED
      BY <2>2, <3>1, <3>2 DEF VisibleKnown
  <2> QED
    BY <2>1, <2>2 DEF Listed
<1>10. ASSUME NEW x \in Listed(s)
       PROVE  f.users[x].units \cap Found(s) = dir[s].users[x].units \cap Found(s)
  BY <1>7, <1>8, <1>9 DEF FoundIn
<1> QED
  BY <1>3, <1>7, <1>9, <1>10

\* A snapshot of an organisation that has not changed since the run began is
\* the organisation: no page, department or person is left out or taken twice
\* (ListUsersAndGroups of the three providers).
THEOREM SnapshotsAreExact ==
  ASSUME ~IsFiniteSet(Ids)
  PROVE  SourceSpec => ReadExactly
<1>1. ASSUME SourceInvariant, NEW s \in Sources, SnapshotRead(s), moved[s] = {}
      PROVE  /\ run'[s].snap.units = Found(s)
             /\ DOMAIN run'[s].snap.users = Listed(s)
             /\ \A x \in Listed(s) : LET u == run'[s].snap.users[x] IN
                  /\ u.active = Seen(s, x)
                  /\ u.units \cap Found(s) = dir[s].users[x].units \cap Found(s)
  <2>1. PICK snap \in Read(s) : ReadSnapshot(s, snap) /\ fetch[s].at = "done"
    BY <1>1 DEF SnapshotRead
  <2>2. snap.users = fetch[s].users /\ snap.units = Range(fetch[s].units)
    BY <1>1, <2>1, ReadTyped
  <2>3. run'[s].snap = snap
    <3>1. run \in [Sources -> RunRow]
      BY <1>1 DEF SourceInvariant, SyncInvariant, RunsTyped
    <3> QED
      BY <2>1, <3>1 DEF ReadSnapshot, RunRow
  <2> QED
    BY <1>1, <2>1, <2>2, <2>3, DoneExactly
<1>2. SourceInvariant /\ [SourceNext]_sourceVars =>
        [\A s \in Sources : (SnapshotRead(s) /\ moved[s] = {}) =>
           /\ run'[s].snap.units = Found(s)
           /\ DOMAIN run'[s].snap.users = Listed(s)
           /\ \A x \in Listed(s) : LET u == run'[s].snap.users[x] IN
                /\ u.active = Seen(s, x)
                /\ u.units \cap Found(s) = dir[s].users[x].units \cap Found(s)]_sourceVars
  BY <1>1
<1> QED
  BY <1>2, SourceIsSound, PTL DEF SourceSpec, ReadExactly
=============================================================================
