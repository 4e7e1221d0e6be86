---------------------------- MODULE DirectoryFetch ----------------------------
(***************************************************************************)
(* How an identity source is read: ListUsersAndGroups of WeCom, Feishu and *)
(* DingTalk (internal/provider), one answer of the platform at a time.     *)
(* Between two answers the organisation may change.                        *)
(*                                                                         *)
(* WeCom answers all departments at once, then the people of each; without *)
(* a visible department it lists the people of the app's scope and asks    *)
(* for each of them.  Feishu and DingTalk walk the tree of departments,    *)
(* then list each department's people page by page; DingTalk asks for the  *)
(* details of everybody once.  The platforms' side is external.            *)
(***************************************************************************)
EXTENDS DirectorySync

CONSTANTS
  Platforms,   \* what the platforms may be: [kind, stuck, brief]
  PersonOrder, \* Subjects in the order in which a platform lists them
  PageSize     \* DirectoryPageSize

\* Every organisation has a first department, and somebody.
ASSUME FetchAssumption ==
  /\ Platforms \subseteq [kind : {"wecom", "feishu", "dingtalk"}, stuck : BOOLEAN,
                   brief : BOOLEAN]
  /\ PageSize \in Nat \ {0}
  /\ PersonOrder \in Seq(Subjects) /\ Subjects = Range(PersonOrder)
  /\ Units = Range(UnitOrder)
  /\ Subjects # {}
  /\ \A s \in Sources : \E u \in Units : u[1] = s /\ ParentOf[u] = None

VARIABLES
  platform, \* platform[s]: its kind, whether its page tokens are stuck, and
            \*   whether it tells of a person no departments
  fetch     \* fetch[s]: the reading under way

NoPage == [token |-> None, seen |-> {}]
NoFetch == [at |-> "start", todo |-> <<>>, units |-> <<>>, page |-> NoPage,
            ids |-> {}, users |-> <<>>]

Kind(s) == platform[s].kind

\* The departments that the platform lists below d.
Children(s, d) == {u \in dir[s].units : u[1] = s /\ ParentOf[u] = d}
Everybody(s) == DOMAIN dir[s].users

Root(s) == CHOOSE u \in Units : u[1] = s /\ ParentOf[u] = None

\* A list that is answered at once may have any order.
InAnyOrder(S) == {q \in [1 .. Cardinality(S) -> S] : Range(q) = S}

(***************************************************************************)
(* Pages.  A page token stands for the last item before the page.          *)
(***************************************************************************)
Position(order, x) == CHOOSE i \in DOMAIN order : order[i] = x

Later(order, token, x) == token = None \/ Position(order, token) < Position(order, x)

\* What is left of a list, and the first of it.
After(list, order, token) == {x \in list : Later(order, token, x)}

PageOf(list, order, token) ==
  LET rest == After(list, order, token)
  IN  {x \in rest : Cardinality({y \in rest : Later(order, y, x)}) < PageSize}

LastOf(page, order) == CHOOSE x \in page : \A y \in page : ~Later(order, x, y)

\* The token for the next page, None after the last one.  A platform whose
\* tokens are stuck returns the token it was asked with.
NextToken(s, list, order, token) ==
  LET page == PageOf(list, order, token)
  IN  IF platform[s].stuck /\ token # None THEN token
      ELSE IF page = After(list, order, token) THEN None
      ELSE LastOf(page, order)

\* Broken: a token that was seen before is followed again.
FollowsAnyToken(page, token) == TRUE

\* seenCursors, seenPageTokens
NewToken(page, token) == token \notin page.seen

Turn(page, token) == [token |-> token, seen |-> page.seen \cup {token}]

Fails(s) == fetch' = [fetch EXCEPT ![s].at = "failed"]

(***************************************************************************)
(* People.                                                                 *)
(***************************************************************************)
\* Broken: somebody listed in a second department leaves the first one.
Overwrite(users, list, raw) ==
  [x \in DOMAIN users \cup list |-> IF x \in list THEN raw[x] ELSE users[x]]

\* upsertUserFromRaw, for all of a list: departments add up, and active once
\* is active.
Upsert(users, list, raw) ==
  [x \in DOMAIN users \cup list |->
     IF x \notin list THEN users[x]
     ELSE IF x \notin DOMAIN users THEN raw[x]
     ELSE [active |-> users[x].active \/ raw[x].active, units |-> users[x].units \cup raw[x].units]]

\* People are in the departments that the platform tells, or else in those in
\* which they were found.
Places(s, x, fallback) == IF platform[s].brief THEN fallback ELSE dir[s].users[x].units

\* upsertUserFromRaw and weComUserActive; dingTalkUserActive.  Feishu's client
\* reads no status: everybody listed is active.
WeComRaw(s, x, fallback) ==
  [active |-> dir[s].users[x].active, units |-> Places(s, x, fallback)]
FeishuRaw(s, x, fallback) == [active |-> TRUE, units |-> Places(s, x, fallback)]
DingTalkRaw(s, x, fallback) ==
  [active |-> dir[s].users[x].active, units |-> Places(s, x, fallback)]

\* Ids whose details are still to be read, with the departments known for them.
Asked(list, known) == {<<x, known[x]>> : x \in list}
------------------------------------------------------------------------------
(***************************************************************************)
(* The loops: the tree, then the members of each department.               *)
(***************************************************************************)
At(s, kind, at) == Kind(s) = kind /\ fetch[s].at = at

\* A department that has gone is an error of the platform; DingTalk's root stays.
Exists(s, d) ==
  d = None \/ d \in dir[s].units \/ (Kind(s) = "dingtalk" /\ d = Root(s))

\* The next page of a list.
Items(s, list, order) == PageOf(list, order, fetch[s].page.token)

\* got is the reading with that page, last what follows if it is the last one.
\* A page token that comes back is an error.
Page(s, list, order, got, last) ==
  LET page == fetch[s].page
      token == NextToken(s, list, order, page.token)
  IN  IF token = None THEN fetch' = [fetch EXCEPT ![s] = last]
      ELSE IF NewToken(page, token)
      THEN fetch' = [fetch EXCEPT ![s] = [got EXCEPT !.page = Turn(page, token)]]
      ELSE Fails(s)

Queued(f, items) == [f EXCEPT !.units = @ \o items, !.todo = @ \o items]

\* The departments are known: their members, or what else there is.
UnitsRead(f, otherwise) ==
  [f EXCEPT !.todo = f.units, !.page = NoPage, !.at = IF f.units = <<>> THEN otherwise ELSE "members"]

\* The department at the head of the queue has been read.
TreeRead(f) ==
  IF Tail(f.todo) = <<>> THEN UnitsRead(f, "done") ELSE [f EXCEPT !.todo = Tail(@), !.page = NoPage]

MembersRead(f) ==
  LET rest == Tail(f.todo)
  IN  [f EXCEPT !.todo = rest, !.page = NoPage, !.at = IF rest = <<>> THEN "done" ELSE "members"]

\* Details, when there are any to be read.
DetailsNext(f) == IF f.ids = {} THEN MembersRead(f) ELSE [f EXCEPT !.at = "details"]

(***************************************************************************)
(* WeCom: all departments at once; without one, the people of the scope.   *)
(***************************************************************************)
WeComDepartments(s) ==
  /\ At(s, "wecom", "start")
  /\ \E list \in InAnyOrder(dir[s].units) :
       fetch' = [fetch EXCEPT ![s] = UnitsRead([NoFetch EXCEPT !.units = list], "visible")]

WeComMembers(s) ==
  LET d == Head(fetch[s].todo)
      raw == [x \in People(s, d) |-> WeComRaw(s, x, {d})]
      got == [fetch[s] EXCEPT !.users = Upsert(@, People(s, d), raw)]
  IN  /\ At(s, "wecom", "members")
      /\ IF Exists(s, d) THEN fetch' = [fetch EXCEPT ![s] = MembersRead(got)] ELSE Fails(s)

\* Ids have been listed: their details, if there are any.
VisibleRead(f) == [f EXCEPT !.page = NoPage, !.at = IF f.ids = {} THEN "done" ELSE "details"]

\* agentVisibleUserIDs: with an agent id, the users the application is for.
AgentVisible(s) ==
  /\ At(s, "wecom", "visible") /\ fetch[s].page = NoPage
  /\ Everybody(s) # {}
  /\ fetch' = [fetch EXCEPT ![s] = VisibleRead([@ EXCEPT !.ids = Asked(Everybody(s), [x \in Subjects |-> {}])])]

\* visibleUserIDs: otherwise ids and departments of the contact list, in pages.
VisibleIds(s) ==
  LET list == Everybody(s)
      own == [x \in list |-> dir[s].users[x].units]
      got == [fetch[s] EXCEPT !.ids = @ \cup Asked(Items(s, list, PersonOrder), own)]
  IN  /\ At(s, "wecom", "visible")
      /\ Page(s, list, PersonOrder, got, VisibleRead(got))

\* Somebody's details have been answered.
Answered(s, id, r) ==
  [fetch[s] EXCEPT !.ids = @ \ {id}, !.users = Upsert(@, {id[1]}, [x \in {id[1]} |-> r])]

\* usersByIDs, in whatever order.  Somebody who has gone is an error.
WeComDetail(s) ==
  /\ At(s, "wecom", "details")
  /\ \E id \in fetch[s].ids :
       LET got == Answered(s, id, WeComRaw(s, id[1], id[2]))
       IN  IF id[1] \in DOMAIN dir[s].users
           THEN fetch' = [fetch EXCEPT ![s] = IF got.ids = {} THEN [got EXCEPT !.at = "done"] ELSE got]
           ELSE Fails(s)

(***************************************************************************)
(* Feishu: the tree and the people of each department, in pages.           *)
(***************************************************************************)
FeishuBegins(s) ==
  /\ At(s, "feishu", "start")
  /\ fetch' = [fetch EXCEPT ![s] = [NoFetch EXCEPT !.at = "tree", !.todo = <<None>>]]

FeishuChildren(s) ==
  LET d == Head(fetch[s].todo)
      list == Children(s, d)
  IN  /\ At(s, "feishu", "tree")
      /\ IF Exists(s, d)
         THEN \E items \in InAnyOrder(Items(s, list, UnitOrder)) :
                LET got == Queued(fetch[s], items)
                IN  Page(s, list, UnitOrder, got, TreeRead(got))
         ELSE Fails(s)

FeishuMembers(s) ==
  LET d == Head(fetch[s].todo)
      list == People(s, d)
      raw == [x \in list |-> FeishuRaw(s, x, {d})]
      got == [fetch[s] EXCEPT !.users = Upsert(@, Items(s, list, PersonOrder), raw)]
  IN  /\ At(s, "feishu", "members")
      /\ IF Exists(s, d) THEN Page(s, list, PersonOrder, got, MembersRead(got)) ELSE Fails(s)

(***************************************************************************)
(* DingTalk: the tree at once, the ids of people in pages, and the details *)
(* of everybody once (cachedUserGetter).                                   *)
(***************************************************************************)
DingTalkBegins(s) ==
  /\ At(s, "dingtalk", "start")
  /\ fetch' = [fetch EXCEPT ![s] =
       [NoFetch EXCEPT !.at = "tree", !.todo = <<Root(s)>>, !.units = <<Root(s)>>]]

DingTalkChildren(s) ==
  LET d == Head(fetch[s].todo)
  IN  /\ At(s, "dingtalk", "tree")
      /\ IF Exists(s, d)
         THEN \E items \in InAnyOrder(Children(s, d)) :
                fetch' = [fetch EXCEPT ![s] = TreeRead(Queued(@, items))]
         ELSE Fails(s)

DingTalkMembers(s) ==
  LET d == Head(fetch[s].todo)
      list == People(s, d)
      found == [x \in list |-> {d}]
      got == [fetch[s] EXCEPT !.ids = @ \cup Asked(Items(s, list, PersonOrder), found)]
  IN  /\ At(s, "dingtalk", "members")
      /\ IF Exists(s, d) THEN Page(s, list, PersonOrder, got, DetailsNext(got)) ELSE Fails(s)

\* Details that were read before are not read again.
Detail(s, id) ==
  LET users == fetch[s].users
  IN  IF id[1] \in DOMAIN users
      THEN [users[id[1]] EXCEPT !.units = IF platform[s].brief THEN id[2] ELSE @]
      ELSE DingTalkRaw(s, id[1], id[2])

DingTalkDetail(s) ==
  /\ At(s, "dingtalk", "details")
  /\ \E id \in fetch[s].ids :
       LET got == Answered(s, id, Detail(s, id))
       IN  IF id[1] \in DOMAIN fetch[s].users \cup DOMAIN dir[s].users
           THEN fetch' = [fetch EXCEPT ![s] = IF got.ids = {} THEN MembersRead(got) ELSE got]
           ELSE Fails(s)

FetchStep(s) ==
  /\ run[s].pc = "fetch"
  /\ \/ WeComDepartments(s) \/ WeComMembers(s) \/ AgentVisible(s) \/ VisibleIds(s)
     \/ WeComDetail(s)
     \/ FeishuBegins(s) \/ FeishuChildren(s) \/ FeishuMembers(s)
     \/ DingTalkBegins(s) \/ DingTalkChildren(s) \/ DingTalkMembers(s) \/ DingTalkDetail(s)
  /\ UNCHANGED platform

\* What has been read, in any order.
Read(s) ==
  {[users |-> fetch[s].users, units |-> Range(fetch[s].units), order |-> o, told |-> NothingTold] :
     o \in InAnyOrder(DOMAIN fetch[s].users)}

\* The departments that ListGroupMembers returns the members of: they exist, and
\* no page token comes back; WeCom answers without pages.
Listable(s) ==
  {d \in Units :
     /\ Exists(s, d)
     /\ Kind(s) = "wecom" \/ ~platform[s].stuck \/ Cardinality(People(s, d)) <= PageSize}
=============================================================================
