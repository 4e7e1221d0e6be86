---------------------------- MODULE LoginFlowProofs ----------------------------
(***************************************************************************)
(* The states of OAuth, for any number of browsers, launches, callbacks    *)
(* and sources, and whatever the synchronisations do meanwhile: that half  *)
(* of a step is Next, and the proofs never open it.                        *)
(*                                                                         *)
(* The invariant says where a state is: not launched; held by the server   *)
(* and, with its cookie, by the browser that launched it; or passed or     *)
(* over.  A state that is neither passed nor over is still held, so its    *)
(* owner is let through; one that is held has not passed, so it is used at *)
(* most once.                                                              *)
(***************************************************************************)
EXTENDS LoginFlowProps, DirectorySyncProofs

\* What the three variables of the states are made of.
StatesTyped ==
  /\ states \in [StateIds -> StateRows \cup {None}]
  /\ req = [r \in Requests |-> req[r]]
  /\ begun \in [StateIds -> (Browsers \X Sources) \cup {None}]

\* A state that was not launched has not passed.
LaunchedFirst == \A t \in StateIds : begun[t] = None => t \notin passed

\* A state the server holds has not passed, and is as it was launched; it has
\* expired only if it is over.
HeldUnused ==
  \A t \in StateIds : states[t] # None =>
    /\ t \notin passed
    /\ begun[t] = <<states[t].browser, states[t].source>>
    /\ states[t].expired => t \in over

\* A launched state that has neither passed nor is over is held on both sides.
OwnedHeld ==
  \A t \in StateIds : (begun[t] # None /\ t \notin passed \cup over) =>
    states[t] # None /\ <<begun[t][1], t>> \in jar

StatesInvariant == StatesTyped /\ LaunchedFirst /\ HeldUnused /\ OwnedHeld
------------------------------------------------------------------------------
LEMMA InitialStates == FlowInit => StatesInvariant
BY DEF FlowInit, StatesInvariant, StatesTyped, LaunchedFirst, HeldUnused, OwnedHeld

\* A step that leaves the states, the cookies and the marks alone.
LEMMA StatesUntouched ==
  ASSUME StatesInvariant, UNCHANGED <<states, jar, begun, passed, over>>,
         req' = [r \in Requests |-> req'[r]]
  PROVE  StatesInvariant'
BY DEF StatesInvariant, StatesTyped, LaunchedFirst, HeldUnused, OwnedHeld

\* The steps of a callback between the check of its state and its answer.
LEMMA AnswersLeaveStates ==
  ASSUME StatesInvariant, NEW r \in Requests,
         \/ Exchange(r) \/ ResolveExternal(r) \/ ResolveAccount(r)
         \/ AuthorizeLogin(r) \/ LoginEnds(r) \/ CallbackFails(r)
  PROVE  StatesInvariant'
<1>1. UNCHANGED <<states, jar, begun, passed, over>>
  BY DEF Exchange, ResolveExternal, ResolveAccount, AuthorizeLogin, LoginEnds, CallbackFails,
         Undisturbed
<1>2. req = [q \in Requests |-> req[q]]
  BY DEF StatesInvariant, StatesTyped
<1>3. req' = [q \in Requests |-> req'[q]]
  <2>1. CASE Exchange(r)
    BY <1>2, <2>1 DEF Exchange
  <2>2. CASE ResolveExternal(r)
    BY <1>2, <2>2 DEF ResolveExternal, Ends
  <2>3. CASE ResolveAccount(r)
    BY <1>2, <2>3 DEF ResolveAccount, Ends
  <2>4. CASE AuthorizeLogin(r)
    BY <1>2, <2>4 DEF AuthorizeLogin, Ends
  <2>5. CASE LoginEnds(r) \/ CallbackFails(r)
    BY <1>2, <2>5 DEF LoginEnds, CallbackFails, Ends
  <2> QED
    BY <2>1, <2>2, <2>3, <2>4, <2>5
<1> QED
  BY <1>1, <1>3, StatesUntouched

\* A launch: the new state is held, and none that is still good is dropped.
LEMMA LaunchKeeps ==
  ASSUME StatesInvariant, NEW b \in Browsers, NEW s \in Sources, NEW t \in StateIds,
         Launch(b, s, t)
  PROVE  StatesInvariant'
<1> USE DEF StatesInvariant
<1>1. StatesTyped'
  BY DEF Launch, StatesTyped, StateRows
<1>2. states'[t] = [source |-> s, browser |-> b, expired |-> FALSE] /\ begun'[t] = <<b, s>>
      /\ <<b, t>> \in jar' /\ t \notin passed'
  BY DEF Launch, AddCookie, StatesTyped, LaunchedFirst
<1>3. ASSUME NEW u \in StateIds, u # t
      PROVE  /\ begun'[u] = begun[u]
             /\ states'[u] = states[u] \/ (states'[u] = None /\ u \in over)
  BY <1>3 DEF Launch, StatesTyped, HeldUnused
<1>4. LaunchedFirst' /\ HeldUnused'
  BY <1>2, <1>3 DEF Launch, LaunchedFirst, HeldUnused
<1>5. OwnedHeld'
  <2>1. states'[t] # None
    <3>1. [source |-> s, browser |-> b, expired |-> FALSE] \in StateRows
      BY DEF StateRows
    <3> QED
      BY <1>2, <3>1, FlowAssumption
  <2>2. begun'[t][1] = b
    BY <1>2
  <2>3. passed' = passed /\ over' = over /\ jar \subseteq jar'
    BY DEF Launch, AddCookie
  <2>4. ASSUME NEW u \in StateIds, u # t, begun'[u] # None, u \notin passed' \cup over'
        PROVE  states'[u] # None /\ <<begun'[u][1], u>> \in jar'
    BY <1>3, <2>3, <2>4 DEF OwnedHeld
  <2> QED
    BY <1>2, <2>1, <2>2, <2>4 DEF OwnedHeld
<1> QED
  BY <1>1, <1>4, <1>5

\* An expiry: the state is over, whatever becomes of its cookie.
LEMMA ExpiryKeeps ==
  ASSUME StatesInvariant, NEW t \in StateIds, StateExpires(t)
  PROVE  StatesInvariant'
<1> USE DEF StatesInvariant
<1>1. states[t] \in StateRows
  BY DEF StateExpires, StatesTyped
<1>2. /\ states'[t] \in StateRows
      /\ states'[t].source = states[t].source /\ states'[t].browser = states[t].browser
      /\ states' \in [StateIds -> StateRows \cup {None}]
  BY <1>1 DEF StateExpires, StatesTyped, StateRows
<1>3. ASSUME NEW u \in StateIds, u # t
      PROVE  states'[u] = states[u] /\ (<<begun[u][1], u>> \in jar => <<begun[u][1], u>> \in jar')
  BY <1>3 DEF StateExpires, StatesTyped
<1>4. begun' = begun /\ passed' = passed /\ over' = over \cup {t} /\ req' = req
      /\ states[t] # None
  BY DEF StateExpires
<1>5. StatesTyped' /\ LaunchedFirst'
  BY <1>2, <1>4 DEF StatesTyped, LaunchedFirst
<1>6. HeldUnused'
  <2>1. ASSUME NEW u \in StateIds, states'[u] # None
        PROVE  /\ u \notin passed'
               /\ begun'[u] = <<states'[u].browser, states'[u].source>>
               /\ states'[u].expired => u \in over'
    <3>1. CASE u = t
      BY <1>2, <1>4, <3>1 DEF HeldUnused
    <3>2. CASE u # t
      BY <1>3, <1>4, <2>1, <3>2 DEF HeldUnused
    <3> QED
      BY <3>1, <3>2
  <2> QED
    BY <2>1 DEF HeldUnused
<1>7. OwnedHeld'
  BY <1>3, <1>4 DEF OwnedHeld
<1> QED
  BY <1>5, <1>6, <1>7

\* A callback: the state that lets it through is dropped, and one that is
\* dropped without that was over.
LEMMA CallbackKeeps ==
  ASSUME StatesInvariant, NEW r \in Requests, NEW b \in Browsers, NEW s \in Sources,
         NEW t \in StateIds, Callback(r, b, s, t)
  PROVE  StatesInvariant'
<1> USE DEF StatesInvariant
<1>1. /\ states' = [states EXCEPT ![t] = IF Deleted(b, s, t) THEN None ELSE @]
      /\ begun' = begun /\ over' = over /\ begun[t] # None
  BY DEF Callback
<1>2. ASSUME NEW u \in StateIds, u # t PROVE states'[u] = states[u]
  BY <1>1, <1>2 DEF StatesTyped
<1>3. states'[t] = IF Deleted(b, s, t) THEN None ELSE states[t]
  BY <1>1 DEF StatesTyped
<1>4. StatesTyped'
  <2>1. states' \in [StateIds -> StateRows \cup {None}] /\ begun' = begun
    BY <1>1 DEF StatesTyped
  <2>2. req' = [q \in Requests |-> req'[q]]
    BY DEF Callback, StatesTyped
  <2> QED
    BY <2>1, <2>2 DEF StatesTyped
<1>5. CASE Passes(b, s, t)
  <2>1. states'[t] = None /\ passed' = passed \cup {t} /\ jar' = jar \ {<<b, t>>}
    BY <1>3, <1>5 DEF Callback, Passes, Deleted
  <2>2. LaunchedFirst' /\ HeldUnused' /\ OwnedHeld'
    BY <1>1, <1>2, <2>1 DEF LaunchedFirst, HeldUnused, OwnedHeld
  <2> QED
    BY <1>4, <2>2
<1>6. CASE ~Passes(b, s, t)
  <2>1. passed' = passed /\ jar' = jar
    BY <1>6 DEF Callback
  <2>2. Deleted(b, s, t) => t \in over
    BY <1>6 DEF Passes, Deleted, HeldUnused
  <2>3. LaunchedFirst' /\ HeldUnused' /\ OwnedHeld'
    BY <1>1, <1>2, <1>3, <2>1, <2>2 DEF LaunchedFirst, HeldUnused, OwnedHeld
  <2> QED
    BY <1>4, <2>3
<1> QED
  BY <1>5, <1>6

\* A step of the synchronisations or of the administrator: only a restart
\* touches the states, and it makes every one that was held be over.
LEMMA RestartForgets ==
  ASSUME StatesInvariant, Beside
  PROVE  StatesInvariant'
<1> USE DEF StatesInvariant
<1>1. CASE Restart
  <2>1. /\ states' = [t \in StateIds |-> None] /\ req' = [r \in Requests |-> NoRequest]
        /\ over' = over \cup {t \in StateIds : states[t] # None}
        /\ jar' = jar /\ begun' = begun /\ passed' = passed
    BY <1>1 DEF Beside
  <2>2. req' = [r \in Requests |-> req'[r]]
    BY <2>1
  <2> QED
    BY <2>1, <2>2 DEF StatesTyped, LaunchedFirst, HeldUnused, OwnedHeld
<1>2. CASE ~Restart
  <2>1. UNCHANGED <<states, jar, begun, passed, over>> /\ req' = [r \in Requests |-> req'[r]]
    BY <1>2 DEF Beside, loginVars, StatesTyped
  <2> QED
    BY <2>1, StatesUntouched
<1> QED
  BY <1>1, <1>2
------------------------------------------------------------------------------
\* Every state of OAuth is where the invariant says.
THEOREM StatesAccounted == FlowSpec => []StatesInvariant
<1>1. StatesInvariant /\ [FlowNext]_flowVars => StatesInvariant'
  <2> SUFFICES ASSUME StatesInvariant, [FlowNext]_flowVars PROVE StatesInvariant'
    OBVIOUS
  <2>1. CASE UNCHANGED flowVars
    BY <2>1, StatesUntouched DEF flowVars, StatesInvariant, StatesTyped
  <2>2. CASE Next /\ Beside
    BY <2>2, RestartForgets
  <2>3. CASE \E b \in Browsers, s \in Sources, t \in StateIds : Launch(b, s, t)
    BY <2>3, LaunchKeeps
  <2>4. CASE \E t \in StateIds : StateExpires(t)
    BY <2>4, ExpiryKeeps
  <2>5. ASSUME NEW r \in Requests,
               \E b \in Browsers, s \in Sources, t \in StateIds : Callback(r, b, s, t)
        PROVE  StatesInvariant'
    BY <2>5, CallbackKeeps
  <2>6. ASSUME NEW r \in Requests,
               \/ Exchange(r) \/ ResolveExternal(r) \/ ResolveAccount(r)
               \/ AuthorizeLogin(r) \/ LoginEnds(r) \/ CallbackFails(r)
        PROVE  StatesInvariant'
    BY <2>6, AnswersLeaveStates
  <2> QED
    BY <2>1, <2>2, <2>3, <2>4, <2>5, <2>6 DEF FlowNext
<1> QED
  BY <1>1, InitialStates, PTL DEF FlowSpec

\* A state lets one callback through at most, in the browser and for the source
\* that launched it (consumeOAuthState).
THEOREM StatesUsedOnce == FlowSpec => StateUsedOnce
<1> DEFINE Once == \A t \in StateIds, r \in Requests, b \in Browsers, s \in Sources :
             (Callback(r, b, s, t) /\ req'[r].pc = "exchange") =>
               t \notin passed /\ begun[t] = <<b, s>>
<1>1. ASSUME StatesInvariant, NEW t \in StateIds, NEW r \in Requests, NEW b \in Browsers,
             NEW s \in Sources, Callback(r, b, s, t), req'[r].pc = "exchange"
      PROVE  t \notin passed /\ begun[t] = <<b, s>>
  <2>1. req = [q \in Requests |-> req[q]]
    BY <1>1 DEF StatesInvariant, StatesTyped
  <2>2. Passes(b, s, t)
    <3>1. SUFFICES ASSUME ~Passes(b, s, t) PROVE req'[r].pc = "refused"
      BY <1>1
    <3> QED
      BY <1>1, <2>1, <3>1 DEF Callback, NoRequest
  <2> QED
    BY <1>1, <2>2 DEF StatesInvariant, HeldUnused, Passes, Matches
<1>2. StatesInvariant => [Once]_flowVars
  BY <1>1
<1> QED
  BY <1>2, StatesAccounted, PTL DEF StateUsedOnce

\* A browser that comes back with a state that has neither passed nor ended is
\* let through, whatever others did with that state meanwhile.
THEOREM OwnStatesAccepted == FlowSpec => OwnStateAccepted
<1> DEFINE Accepted == \A t \in StateIds, r \in Requests, b \in Browsers, s \in Sources :
             (Callback(r, b, s, t) /\ begun[t] = <<b, s>> /\ t \notin passed \cup over) =>
               req'[r].pc = "exchange"
<1>1. ASSUME StatesInvariant, NEW t \in StateIds, NEW r \in Requests, NEW b \in Browsers,
             NEW s \in Sources, Callback(r, b, s, t), begun[t] = <<b, s>>,
             t \notin passed \cup over
      PROVE  req'[r].pc = "exchange"
  <2>1. begun[t] # None
    BY <1>1 DEF Callback
  <2>2. states[t] # None /\ <<b, t>> \in jar
    BY <1>1, <2>1 DEF StatesInvariant, OwnedHeld
  <2>3. ~states[t].expired /\ <<states[t].browser, states[t].source>> = <<b, s>>
    BY <1>1, <2>2 DEF StatesInvariant, HeldUnused
  <2>4. Passes(b, s, t)
    BY <2>2, <2>3 DEF Passes, Matches
  <2>5. req = [q \in Requests |-> req[q]]
    BY <1>1 DEF StatesInvariant, StatesTyped
  <2> QED
    BY <1>1, <2>4, <2>5 DEF Callback, NoRequest
<1>2. StatesInvariant => [Accepted]_flowVars
  BY <1>1
<1> QED
  BY <1>2, StatesAccounted, PTL DEF OwnStateAccepted
------------------------------------------------------------------------------
(***************************************************************************)
(* The callbacks.  A behaviour of the logins is, seen at the database, one *)
(* of the synchronisations, so its invariant holds here as well.           *)
(***************************************************************************)
\* Logins only read what DirectorySync is about.
THEOREM LoginsOnlyRead == FlowSpec => Spec
<1>1. FlowInit => Init
  BY DEF FlowInit
<1>2. [FlowNext]_flowVars => [Next]_vars
  <2> SUFFICES ASSUME FlowNext \/ UNCHANGED flowVars PROVE Next \/ UNCHANGED vars
    OBVIOUS
  <2>1. CASE UNCHANGED flowVars
    BY <2>1 DEF flowVars
  <2>2. ASSUME NEW b \in Browsers, NEW s \in Sources, NEW t \in StateIds, Launch(b, s, t)
        PROVE  UNCHANGED vars
    BY <2>2 DEF Launch
  <2>3. ASSUME NEW t \in StateIds, StateExpires(t) PROVE UNCHANGED vars
    BY <2>3 DEF StateExpires
  <2>4. ASSUME NEW r \in Requests, NEW b \in Browsers, NEW s \in Sources, NEW t \in StateIds,
               Callback(r, b, s, t)
        PROVE  UNCHANGED vars
    BY <2>4 DEF Callback
  <2>5. ASSUME NEW r \in Requests,
               \/ Exchange(r) \/ ResolveExternal(r) \/ ResolveAccount(r)
               \/ AuthorizeLogin(r) \/ LoginEnds(r) \/ CallbackFails(r)
        PROVE  UNCHANGED vars
    BY <2>5 DEF Exchange, ResolveExternal, ResolveAccount, AuthorizeLogin, LoginEnds,
                CallbackFails, Undisturbed
  <2> QED
    BY <2>1, <2>2, <2>3, <2>4, <2>5 DEF FlowNext
<1> QED
  BY <1>1, <1>2, PTL DEF FlowSpec, Spec

\* What a callback holds.
RequestRow ==
  [pc      : {"idle", "refused", "exchange", "external", "account", "ask", "lend"},
   source  : Sources \cup {None},
   subject : Subjects \cup {None},
   id      : Ids \cup {None},
   name    : AccountNames \cup {None}]

\* The person whom a callback is about is one of the platform it came from, and
\* what the next step asks for has been found.
OwnPlatform(c) ==
  /\ c.pc \in {"external", "account", "ask", "lend"} =>
       c.subject \in Subjects /\ c.subject[1] = c.source
  /\ c.pc \in {"account", "ask", "lend"} => c.id \in Ids
  /\ c.pc \in {"ask", "lend"} => c.name \in AccountNames

RequestsSound ==
  /\ req \in [Requests -> RequestRow]
  /\ \A r \in Requests : OwnPlatform(req[r])

LEMMA NoRequestSound == NoRequest \in RequestRow /\ OwnPlatform(NoRequest)
  BY DEF NoRequest, RequestRow, OwnPlatform

\* A step that gives one callback another row.
LEMMA OneRequest ==
  ASSUME RequestsSound, NEW r \in Requests, NEW c, c \in RequestRow, OwnPlatform(c),
         req' = [req EXCEPT ![r] = c]
  PROVE  RequestsSound'
<1>1. req' \in [Requests -> RequestRow]
  BY DEF RequestsSound
<1>2. ASSUME NEW q \in Requests PROVE OwnPlatform(req'[q])
  <2>1. CASE q = r
    BY <2>1 DEF RequestsSound
  <2>2. CASE q # r
    BY <2>2 DEF RequestsSound
  <2> QED
    BY <2>1, <2>2
<1> QED
  BY <1>1, <1>2 DEF RequestsSound

\* A callback that ends.
LEMMA EndKeeps ==
  ASSUME RequestsSound, NEW r \in Requests, Ends(r)
  PROVE  RequestsSound'
  BY OneRequest, NoRequestSound DEF Ends

LEMMA ExchangeKeeps ==
  ASSUME RequestsSound, NEW r \in Requests, Exchange(r)
  PROVE  RequestsSound'
<1>1. PICK x \in Subjects :
        /\ x[1] = req[r].source
        /\ req' = [req EXCEPT ![r].pc = "external", ![r].subject = x]
  BY DEF Exchange
<1> DEFINE c == [req[r] EXCEPT !.pc = "external", !.subject = x]
<1>2. req[r] \in RequestRow
  BY DEF RequestsSound
<1>3. c \in RequestRow /\ OwnPlatform(c)
  BY <1>1, <1>2 DEF RequestRow, OwnPlatform
<1>4. req' = [req EXCEPT ![r] = c]
  BY <1>1
<1> QED
  BY <1>3, <1>4, OneRequest

LEMMA ResolveExternalKeeps ==
  ASSUME RequestsSound, db \in Tables, NEW r \in Requests, ResolveExternal(r)
  PROVE  RequestsSound'
<1> DEFINE row == db.ext[req[r].subject]
           c == [req[r] EXCEPT !.pc = "account", !.id = row.id]
<1>1. CASE row # None /\ row.active /\ row.id # None
  <2>1. req[r] \in RequestRow /\ req[r].subject \in Subjects /\ req[r].subject[1] = req[r].source
    BY DEF RequestsSound, ResolveExternal, OwnPlatform
  <2>2. row \in Subject
    BY <1>1, <2>1, Columns DEF Rows
  <2>3. row.id \in Ids
    BY <1>1, <2>2 DEF Subject
  <2>4. c \in RequestRow /\ OwnPlatform(c)
    BY <2>1, <2>3 DEF RequestRow, OwnPlatform
  <2>5. req' = [req EXCEPT ![r] = c]
    BY <1>1 DEF ResolveExternal
  <2> QED
    BY <2>4, <2>5, OneRequest
<1>2. CASE ~(row # None /\ row.active /\ row.id # None)
  <2>1. Ends(r)
    BY <1>2 DEF ResolveExternal
  <2> QED
    BY <2>1, EndKeeps
<1> QED
  BY <1>1, <1>2

\* The callback learns the name only from an account that there is.
LEMMA ResolveAccountKeeps ==
  ASSUME RequestsSound, db \in Tables, NEW r \in Requests, ResolveAccount(r)
  PROVE  RequestsSound'
<1> DEFINE row == db.acc[req[r].id]
           c == [req[r] EXCEPT !.pc = "ask", !.name = row.name]
<1>1. CASE row # None /\ row.allow /\ row.status \in {"created", "linked_existing"}
  <2>1. /\ req[r] \in RequestRow /\ req[r].id \in Ids
        /\ req[r].subject \in Subjects /\ req[r].subject[1] = req[r].source
    BY DEF RequestsSound, ResolveAccount, OwnPlatform
  <2>2. row \in Account
    BY <1>1, <2>1, Columns DEF Rows
  <2>3. row.name \in AccountNames
    BY <2>2 DEF Account
  <2>4. c \in RequestRow /\ OwnPlatform(c)
    BY <2>1, <2>3 DEF RequestRow, OwnPlatform
  <2>5. req' = [req EXCEPT ![r] = c]
    BY <1>1 DEF ResolveAccount
  <2> QED
    BY <2>4, <2>5, OneRequest
<1>2. CASE ~(row # None /\ row.allow /\ row.status \in {"created", "linked_existing"})
  <2>1. Ends(r)
    BY <1>2 DEF ResolveAccount
  <2> QED
    BY <2>1, EndKeeps
<1> QED
  BY <1>1, <1>2

\* What the Helper agrees to.
LEMMA AuthorizeKeeps ==
  ASSUME RequestsSound, NEW r \in Requests, AuthorizeLogin(r)
  PROVE  RequestsSound'
<1> DEFINE c == [req[r] EXCEPT !.pc = "lend"]
<1>1. CASE LoginAllowed(req[r].name, req[r].id, req[r].source)
  <2>1. /\ req[r] \in RequestRow /\ req[r].id \in Ids /\ req[r].name \in AccountNames
        /\ req[r].subject \in Subjects /\ req[r].subject[1] = req[r].source
    BY DEF RequestsSound, AuthorizeLogin, OwnPlatform
  <2>2. c \in RequestRow /\ OwnPlatform(c)
    BY <2>1 DEF RequestRow, OwnPlatform
  <2>3. req' = [req EXCEPT ![r] = c]
    BY <1>1 DEF AuthorizeLogin
  <2> QED
    BY <2>2, <2>3, OneRequest
<1>2. CASE ~LoginAllowed(req[r].name, req[r].id, req[r].source)
  <2>1. Ends(r)
    BY <1>2 DEF AuthorizeLogin
  <2> QED
    BY <2>1, EndKeeps
<1> QED
  BY <1>1, <1>2

\* A callback that begins has nobody named yet.
LEMMA CallbackSound ==
  ASSUME RequestsSound, NEW r \in Requests, NEW b \in Browsers, NEW s \in Sources,
         NEW t \in StateIds, Callback(r, b, s, t)
  PROVE  RequestsSound'
<1>1. ASSUME NEW p \in {"exchange", "refused"},
             req' = [req EXCEPT ![r] = [NoRequest EXCEPT !.pc = p, !.source = s]]
      PROVE  RequestsSound'
  <2> DEFINE c == [NoRequest EXCEPT !.pc = p, !.source = s]
  <2>1. c \in RequestRow /\ OwnPlatform(c)
    BY DEF NoRequest, RequestRow, OwnPlatform
  <2> QED
    BY <1>1, <2>1, OneRequest
<1>2. CASE Passes(b, s, t)
  BY <1>1, <1>2 DEF Callback
<1>3. CASE ~Passes(b, s, t)
  BY <1>1, <1>3 DEF Callback
<1> QED
  BY <1>2, <1>3

\* The synchronisations leave the callbacks alone, and a restart ends them.
LEMMA RestartEnds ==
  ASSUME RequestsSound, Beside
  PROVE  RequestsSound'
<1>1. CASE Restart
  <2>1. req' = [r \in Requests |-> NoRequest]
    BY <1>1 DEF Beside
  <2> QED
    BY <2>1, NoRequestSound DEF RequestsSound
<1>2. CASE ~Restart
  BY <1>2 DEF Beside, loginVars, RequestsSound
<1> QED
  BY <1>1, <1>2

LEMMA RequestsStay ==
  ASSUME RequestsSound, db \in Tables, [FlowNext]_flowVars
  PROVE  RequestsSound'
<1>1. CASE UNCHANGED flowVars
  BY <1>1 DEF flowVars, RequestsSound
<1>2. CASE Next /\ Beside
  BY <1>2, RestartEnds
<1>3. ASSUME NEW b \in Browsers, NEW s \in Sources, NEW t \in StateIds, Launch(b, s, t)
      PROVE  RequestsSound'
  BY <1>3 DEF Launch, RequestsSound
<1>4. ASSUME NEW t \in StateIds, StateExpires(t) PROVE RequestsSound'
  BY <1>4 DEF StateExpires, RequestsSound
<1>5. ASSUME NEW r \in Requests,
             \E b \in Browsers, s \in Sources, t \in StateIds : Callback(r, b, s, t)
      PROVE  RequestsSound'
  BY <1>5, CallbackSound
<1>6. ASSUME NEW r \in Requests,
             \/ Exchange(r) \/ ResolveExternal(r) \/ ResolveAccount(r) \/ AuthorizeLogin(r)
      PROVE  RequestsSound'
  BY <1>6, ExchangeKeeps, ResolveExternalKeeps, ResolveAccountKeeps, AuthorizeKeeps
<1>7. ASSUME NEW r \in Requests, LoginEnds(r) \/ CallbackFails(r) PROVE RequestsSound'
  BY <1>7, EndKeeps DEF LoginEnds, CallbackFails
<1> QED
  BY <1>1, <1>2, <1>3, <1>4, <1>5, <1>6, <1>7 DEF FlowNext

\* A callback holds what it found, over an invariant of the synchronisations.
THEOREM RequestsStaySound ==
  ASSUME ~IsFiniteSet(Ids)
  PROVE  FlowSpec => [](SyncInvariant /\ RequestsSound)
<1>1. FlowInit => RequestsSound
  BY NoRequestSound DEF FlowInit, RequestsSound
<1>2. SyncInvariant => db \in Tables
  BY DEF SyncInvariant, Sound
<1>3. SyncInvariant /\ RequestsSound /\ [FlowNext]_flowVars => RequestsSound'
  BY <1>2, RequestsStay
<1> QED
  BY <1>1, <1>3, LoginsOnlyRead, SyncIsSound, PTL DEF FlowSpec

\* The Helper agrees to a login only for the account of the identity that the
\* callback found, and while the external account it found stands, only if that
\* very person may log in (HelperAccountAllowed): two people of one source have
\* two identities, so nobody else of that source can be meant.
THEOREM LoginsAreOwn ==
  ASSUME ~IsFiniteSet(Ids)
  PROVE  FlowSpec => LoginIsOwn
<1> DEFINE Own == \A r \in Requests :
             (AuthorizeLogin(r) /\ req'[r].pc = "lend") =>
               LET x == req[r].subject
                   i == req[r].id
               IN  /\ db.acc[i] # None /\ db.acc[i].name = req[r].name
                   /\ (db.ext[x] # None /\ db.ext[x].id = i) => CanLogin(x)
<1>1. ASSUME SyncInvariant, RequestsSound, NEW r \in Requests, AuthorizeLogin(r),
             req'[r].pc = "lend"
      PROVE  LET x == req[r].subject
                 i == req[r].id
             IN  /\ db.acc[i] # None /\ db.acc[i].name = req[r].name
                 /\ (db.ext[x] # None /\ db.ext[x].id = i) => CanLogin(x)
  <2> DEFINE x == req[r].subject
             i == req[r].id
  <2>1. /\ req \in [Requests -> RequestRow] /\ i \in Ids
        /\ x \in Subjects /\ x[1] = req[r].source
    BY <1>1 DEF RequestsSound, AuthorizeLogin, OwnPlatform
  <2>2. LoginAllowed(req[r].name, i, req[r].source)
    <3>1. SUFFICES ASSUME ~LoginAllowed(req[r].name, i, req[r].source)
                   PROVE  req'[r].pc = "idle"
      BY <1>1
    <3> QED
      BY <1>1, <2>1, <3>1 DEF AuthorizeLogin, Ends, NoRequest
  <2>3. PICK y \in Subjects :
          /\ i \in AccountsNamed(req[r].name) /\ y[1] = req[r].source
          /\ CanLogin(y) /\ db.umap[y].acc = i
    BY <2>2 DEF LoginAllowed
  <2>4. db.acc[i] # None /\ db.acc[i].name = req[r].name
    BY <2>3 DEF AccountsNamed, NamedAccounts
  <2>5. db.ext[y] # None /\ db.ext[y].id = i
    BY <2>3 DEF CanLogin
  <2>6. (db.ext[x] # None /\ db.ext[x].id = i) => x = y
    BY <1>1, <2>1, <2>3, <2>5, MappingAssumption DEF SyncInvariant, Sound, OneAccountEach
  <2> QED
    BY <2>3, <2>4, <2>6
<1>2. SyncInvariant /\ RequestsSound => [Own]_flowVars
  BY <1>1
<1> QED
  BY <1>2, RequestsStaySound, PTL DEF LoginIsOwn
=============================================================================
