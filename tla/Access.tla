-------------------------------- MODULE Access ------------------------------
(***************************************************************************)
(* Who may call, and as whom (auth.py, api/deps.py, main.py: create_app,   *)
(* frontend/src/App.tsx).  Three ways to run: OpenID Connect, a header set *)
(* by a proxy in front, or open.  The settings are fixed when the backend  *)
(* starts.  A browser holds a signed cookie with the user it has signed in *)
(* as; every request carries the cookie, and the header if there is a      *)
(* proxy.  Requests to the API go through the middleware to their handler, *)
(* which is in the modules that extend this one.                           *)
(***************************************************************************)
EXTENDS FiniteSets

CONSTANTS
  Requests, \* requests to the API, each made once at most
  Browsers,
  Users,    \* who can sign in, and whom the proxy can name
  None,     \* nobody, nothing
  Configs   \* the settings the backend may be started with

Config == [issuer : BOOLEAN, client : BOOLEAN, secret : BOOLEAN, header : BOOLEAN]

ASSUME AccessAssumption ==
  /\ IsFiniteSet(Requests) /\ Configs \subseteq Config /\ None \notin Users

VARIABLES
  config,  \* the settings
  session, \* session[b]: the user in the cookie of browser b
  shown,   \* shown[b]: what browser b shows
  pc,      \* pc[r]: how far request r is
  who,     \* who[r]: the user it is made as
  arg      \* arg[r]: what its handler holds

accessVars == << config, session, shown >>
requestVars == << pc, who, arg >>

AccessInit ==
  /\ config \in Configs
  /\ session = [b \in Browsers |-> None]
  /\ shown   = [b \in Browsers |-> "nothing"]
  /\ pc      = [r \in Requests |-> "idle"]
  /\ who     = [r \in Requests |-> None]
  /\ arg     = [r \in Requests |-> None]

-----------------------------------------------------------------------------
\* configure: OpenID Connect is registered if all of its settings are there.
Registered == config.issuer /\ config.client /\ config.secret

\* Mutant: an issuer alone makes the middleware enforce.
EnforcedByIssuer == config.issuer \/ config.header

\* AuthMiddleware: whether requests without a user are refused.
Enforced == Registered \/ config.header

\* me: the way to sign in that the page is told.
Mode == IF config.issuer /\ config.client THEN "oidc"
        ELSE IF config.header THEN "forward-auth" ELSE "open"

\* Who the proxy may name in the header of a request; only a trusted header is read.
Named == IF config.header THEN Users \cup {None} ELSE {None}

\* Mutant: the middleware runs before the session is loaded.
UserBeforeSession(b, named) == named

\* AuthMiddleware: the user of a request of browser b, on which the proxy put a name.
User(b, named) == IF session[b] # None THEN session[b] ELSE named

\* Mutant: what is enforced is OpenID Connect.
AdmittedByHeader(user) == Registered => user # None

\* Whether a request with this user reaches its handler.
Admitted(user) == Enforced => user # None

\* get_author: the user as the author of what is recorded.
Author(r) == who[r]

-----------------------------------------------------------------------------
(***************************************************************************)
(* Signing in.                                                             *)
(***************************************************************************)

\* App: the page, which can be loaded at any time, asks who it is for before it renders
\* anything.
LoadPage(b) ==
  /\ shown[b] # "provider"
  /\ \E named \in Named :
       LET authenticated == User(b, named) # None \/ Mode = "open"
       IN  shown' = [shown EXCEPT ![b] = IF authenticated THEN "app" ELSE "gate"]
  /\ UNCHANGED << config, session, requestVars >>

\* The gate has a button only in an OpenID Connect deployment.  login: without the
\* registration there is nobody to send the browser to.
Login(b) ==
  /\ shown[b] = "gate" /\ Mode = "oidc"
  /\ shown' = [shown EXCEPT ![b] = IF Registered THEN "provider" ELSE "error"]
  /\ UNCHANGED << config, session, requestVars >>

\* auth_callback: the provider sends the browser back with a user.
Callback(b) ==
  /\ shown[b] = "provider"
  /\ \E u \in Users : session' = [session EXCEPT ![b] = u]
  /\ shown' = [shown EXCEPT ![b] = "nothing"]
  /\ UNCHANGED << config, requestVars >>

\* The user walks away from the provider.
GiveUp(b) ==
  /\ shown[b] = "provider"
  /\ shown' = [shown EXCEPT ![b] = "nothing"]
  /\ UNCHANGED << config, session, requestVars >>

\* logout takes the user out of the cookie; the page is then loaded again.
Logout(b) ==
  /\ \E named \in Named : Admitted(User(b, named))
  /\ session[b] # None
  /\ session' = [session EXCEPT ![b] = None]
  /\ shown' = [shown EXCEPT ![b] = "nothing"]
  /\ UNCHANGED << config, requestVars >>

AccessNext ==
  \E b \in Browsers : LoadPage(b) \/ Login(b) \/ Callback(b) \/ GiveUp(b) \/ Logout(b)

-----------------------------------------------------------------------------
(***************************************************************************)
(* Requests to the API.                                                    *)
(***************************************************************************)

\* A browser sends request r.  It gets to its handler, which starts at stage with what
\* it was sent, or is refused.
Arrive(r, stage, sent) ==
  /\ pc[r] = "idle"
  /\ \E b \in Browsers : \E named \in Named :
       IF Admitted(User(b, named))
       THEN /\ pc'  = [pc EXCEPT ![r] = stage]
            /\ who' = [who EXCEPT ![r] = User(b, named)]
            /\ arg' = [arg EXCEPT ![r] = sent]
       ELSE /\ pc'  = [pc EXCEPT ![r] = "refused"]
            /\ UNCHANGED << who, arg >>
  /\ UNCHANGED accessVars

\* The handler of r goes on at stage with what it holds now.
Proceed(r, stage, holds) ==
  /\ pc'  = [pc EXCEPT ![r] = stage]
  /\ arg' = [arg EXCEPT ![r] = holds]
  /\ UNCHANGED << accessVars, who >>

\* An exception that nothing catches, or the backend goes down: what the session had
\* pending is gone.
Fail(r) ==
  /\ pc[r] \notin {"idle", "done", "refused", "failed"}
  /\ Proceed(r, "failed", None)
=============================================================================
