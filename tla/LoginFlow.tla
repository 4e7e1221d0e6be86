------------------------------ MODULE LoginFlow ------------------------------
(***************************************************************************)
(* A login through an identity source, from the launch in a browser to the *)
(* request to the Helper (internal/backend/oauth_state.go,                 *)
(* relay_handlers.go, relay_support.go; identity.ResolveAuthorizedLogin;   *)
(* helperserver/authorization.go), over the database that DirectorySync    *)
(* changes meanwhile.  What the Helper then does with the password of the  *)
(* account is the module LoginJournal.                                     *)
(*                                                                         *)
(* A state of OAuth is a model value.  Its cookie carries the state in its *)
(* name and a secret that only the launching browser gets: jar holds the   *)
(* pairs <<browser, state>>.  Clock time is abstract: a state may expire   *)
(* at any moment after its launch.  Bounds: StateIds launches and Requests *)
(* callbacks at a time.                                                    *)
(***************************************************************************)
EXTENDS DirectorySync

CONSTANTS Browsers, StateIds, Requests

\* oauthState: what the server keeps of a launch.
StateRows == [source : Sources, browser : Browsers, expired : BOOLEAN]

ASSUME FlowAssumption == None \notin StateRows

VARIABLES
  states, \* Server.states: [source, browser, expired], None when absent
  jar,    \* the cookies that browsers hold for states
  req,    \* req[r]: the callback that r handles
  begun,  \* begun[t]: <<browser, source>> of the launch of t
  passed, \* the states with which a callback has passed
  over    \* the states that have expired or were forgotten in a restart

flowVars == <<vars, states, jar, req, begun, passed, over>>
loginVars == <<states, jar, req, begun, passed, over>>

NoRequest == [pc |-> "idle", source |-> None, subject |-> None, id |-> None, name |-> None]

FlowInit ==
  /\ Init
  /\ states = [t \in StateIds |-> None]
  /\ jar = {}
  /\ req = [r \in Requests |-> NoRequest]
  /\ begun = [t \in StateIds |-> None]
  /\ passed = {} /\ over = {}

(***************************************************************************)
(* The launch, and the state that comes back.                              *)
(***************************************************************************)
\* Broken: one cookie serves all launches of a browser.
ReplacesCookie(held, b, t) == {c \in held : c[1] # b} \cup {<<b, t>>}

\* newOAuthState: a cookie of its own for each attempt.
AddCookie(held, b, t) == held \cup {<<b, t>>}

\* launch: entries that have expired are dropped on the way.
Launch(b, s, t) ==
  /\ src[s] = "on" /\ begun[t] = None
  /\ states' = [u \in StateIds |->
       IF u = t THEN [source |-> s, browser |-> b, expired |-> FALSE]
       ELSE IF states[u] # None /\ states[u].expired THEN None ELSE states[u]]
  /\ jar' = AddCookie(jar, b, t)
  /\ begun' = [begun EXCEPT ![t] = <<b, s>>]
  /\ UNCHANGED <<vars, req, passed, over>>

\* oauthStateTTL has passed; the cookie has the same age, counted by the
\* browser.
StateExpires(t) ==
  /\ states[t] # None /\ ~states[t].expired
  /\ states' = [states EXCEPT ![t].expired = TRUE]
  /\ jar' \in {jar, {c \in jar : c[2] # t}}
  /\ over' = over \cup {t}
  /\ UNCHANGED <<vars, req, begun, passed>>

\* Broken: whoever brings a state uses it up.
DeletedByAnyone(b, s, t) == states[t] # None

Matches(b, s, t) ==
  /\ states[t] # None /\ ~states[t].expired
  /\ states[t].source = s /\ states[t].browser = b /\ <<b, t>> \in jar

\* consumeOAuthState deletes the entries that match or have expired.
Deleted(b, s, t) == Matches(b, s, t) \/ (states[t] # None /\ states[t].expired)

\* Broken: any browser may bring the state.
FromAnyBrowser(b, s, t) ==
  states[t] # None /\ ~states[t].expired /\ states[t].source = s

\* validateCallbackState
Passes(b, s, t) == Matches(b, s, t)

\* callback and consumeOAuthState, under stateMu: what the platform sent to
\* some browser comes back for some source.
Callback(r, b, s, t) ==
  /\ req[r].pc = "idle" /\ src[s] = "on" /\ begun[t] # None
  /\ states' = [states EXCEPT ![t] = IF Deleted(b, s, t) THEN None ELSE @]
  /\ IF Passes(b, s, t)
     THEN /\ req' = [req EXCEPT ![r] = [NoRequest EXCEPT !.pc = "exchange", !.source = s]]
          /\ jar' = jar \ {<<b, t>>}
          /\ passed' = passed \cup {t}
     ELSE /\ req' = [req EXCEPT ![r] = [NoRequest EXCEPT !.pc = "refused", !.source = s]]
          /\ UNCHANGED <<jar, passed>>
  /\ UNCHANGED <<vars, begun, over>>

(***************************************************************************)
(* Who it is, and whether that person may log in.                          *)
(***************************************************************************)
Ends(r) == req' = [req EXCEPT ![r] = NoRequest]

Undisturbed == UNCHANGED <<vars, states, jar, begun, passed, over>>

\* ExchangeCode, FetchProfile and ProfileSubject: the platform names anyone.
Exchange(r) ==
  /\ req[r].pc = "exchange"
  /\ \E x \in Subjects :
       /\ x[1] = req[r].source
       /\ req' = [req EXCEPT ![r].pc = "external", ![r].subject = x]
  /\ Undisturbed

\* ResolveAuthorizedLogin: first the external account and its identity ...
ResolveExternal(r) ==
  LET row == db.ext[req[r].subject]
  IN  /\ req[r].pc = "external"
      /\ IF row # None /\ row.active /\ row.id # None
         THEN req' = [req EXCEPT ![r].pc = "account", ![r].id = row.id]
         ELSE Ends(r)
      /\ Undisturbed

\* ... then the DSM account of the identity.
ResolveAccount(r) ==
  LET i == req[r].id
  IN  /\ req[r].pc = "account"
      /\ IF db.acc[i] # None /\ db.acc[i].allow
            /\ db.acc[i].status \in {"created", "linked_existing"}
         THEN req' = [req EXCEPT ![r].pc = "ask", ![r].name = db.acc[i].name]
         ELSE Ends(r)
      /\ Undisturbed

\* Broken: the name alone is looked up.
NameAllowed(n, i, s) ==
  \E j \in AccountsNamed(n), x \in Subjects : x[1] = s /\ CanLogin(x) /\ db.umap[x].acc = j

\* HelperAccountAllowed for a login: one query over account, identity,
\* mapping, external account and source.
LoginAllowed(n, i, s) ==
  \E j \in AccountsNamed(n), x \in Subjects :
    j = i /\ x[1] = s /\ CanLogin(x) /\ db.umap[x].acc = j

\* scoped_prepare_browser_login and scoped_relay_login: authorizeLogin.
AuthorizeLogin(r) ==
  /\ req[r].pc = "ask"
  /\ IF LoginAllowed(req[r].name, req[r].id, req[r].source)
     THEN req' = [req EXCEPT ![r].pc = "lend"]
     ELSE Ends(r)
  /\ Undisturbed

\* The Helper lends a password or logs in at DSM, and the callback answers.
LoginEnds(r) ==
  /\ req[r].pc = "lend"
  /\ dsmUser[req[r].name] # "absent"
  /\ Ends(r)
  /\ Undisturbed

\* failRelayCallback: a state that is refused, no code, an error of the
\* platform, of the database or of the Helper, or an answer that is late.
CallbackFails(r) ==
  /\ req[r].pc # "idle"
  /\ Ends(r)
  /\ Undisturbed

\* What becomes of the logins when the backend goes on: a restart forgets
\* states and callbacks.
Beside ==
  IF Restart
  THEN /\ states' = [t \in StateIds |-> None]
       /\ req' = [r \in Requests |-> NoRequest]
       /\ over' = over \cup {t \in StateIds : states[t] # None}
       /\ UNCHANGED <<jar, begun, passed>>
  ELSE UNCHANGED loginVars

FlowNext ==
  \/ Next /\ Beside
  \/ \E b \in Browsers, s \in Sources, t \in StateIds : Launch(b, s, t)
  \/ \E t \in StateIds : StateExpires(t)
  \/ \E r \in Requests :
       \/ \E b \in Browsers, s \in Sources, t \in StateIds : Callback(r, b, s, t)
       \/ Exchange(r) \/ ResolveExternal(r) \/ ResolveAccount(r)
       \/ AuthorizeLogin(r) \/ LoginEnds(r) \/ CallbackFails(r)

FlowSpec == FlowInit /\ [][FlowNext]_flowVars
=============================================================================
