----------------------------- MODULE WebSession -----------------------------
(***************************************************************************)
(* One browser and the web server in front of the backend: the two cookies *)
(* that hold the tokens, the renewal of the access token on the way of any *)
(* request, its single flight, the retry after a 401, login and logout.    *)
(*                                                                         *)
(* Tokens come in pairs, an access token and a refresh token, numbered as  *)
(* the backend issues them; what the backend does with a refresh token is  *)
(* one step here, and statement by statement in Sessions.  A request works *)
(* on the cookies it came with; what it does to them reaches the browser   *)
(* with its response, in whatever order responses arrive.                  *)
(***************************************************************************)
EXTENDS Naturals

CONSTANTS
  Requests,    \* slots of concurrent requests of the browser
  Kinds,       \* the requests it makes: a subset of AllKinds
  MaxTokens,   \* bound: pairs of tokens issued
  MaxFailures  \* bound: calls and responses lost

AllKinds == {"page", "api", "renew", "logout", "login"}

ASSUME WebAssumption == Kinds \subseteq AllKinds /\ MaxTokens \in Nat \ {0} /\ MaxFailures \in Nat

VARIABLES
  jar,         \* the cookies of the browser: an access and a refresh token, 0 for none
  tokens,      \* the pairs of tokens, as the backend knows them
  issued,      \* pairs issued so far
  pc, loc,     \* where each request is, and what it holds
  failures,    \* calls and responses lost so far
  overlapped,  \* history: a request was made before the answer to another
  intent       \* history: "in" after a login, "out" after a logout, "over" when ended elsewhere

web == <<pc, loc>>
webVars == <<jar, tokens, issued, pc, loc, failures, overlapped, intent>>

Pairs == 1..MaxTokens

\* state of the refresh token: "rotated" when it has been exchanged, "stranded" when
\* the answer to that was lost.  age and accepted are of the access token, origin is
\* the pair the session began with.
NoPair == [state |-> "none", age |-> "fresh", accepted |-> TRUE, origin |-> 0]

\* cookies: what the response does to those of the browser.  token and why: the
\* refresh under way and who called it; got: the pair in the answer of the backend.
NoLocals == [access |-> 0, refresh |-> 0, cookies |-> "kept", token |-> 0, why |-> "ensure",
             got |-> 0, outcome |-> "ok"]

\* getSession: jwt.verify of the access token in the cookies.
getSession(r) == loc[r].access # 0 /\ tokens[loc[r].access].age # "expired"

\* accessNeedsRefresh, with its buffer of a minute, where there is a session.
accessNeedsRefresh(r) == tokens[loc[r].access].age # "fresh"

hasRefreshToken(r) == loc[r].refresh # 0

\* The keys of refreshInflight.
refreshInflight == {loc[r].token : r \in {q \in Requests : pc[q] \in {"refresh", "answer"}}}

Goto(r, stage) == pc' = [pc EXCEPT ![r] = stage] /\ UNCHANGED loc
Finish(r) == pc' = [pc EXCEPT ![r] = "idle"] /\ loc' = [loc EXCEPT ![r] = NoLocals]

\* The request goes on after a refresh, which is forgotten.
Forgotten(l) == [l EXCEPT !.token = 0, !.why = "ensure", !.got = 0, !.outcome = "ok"]
Resume(r, stage) == pc' = [pc EXCEPT ![r] = stage] /\ loc' = [loc EXCEPT ![r] = Forgotten(@)]

\* All that matters of a request that is answered is what it does to the cookies.
Respond(r) ==
  /\ pc' = [pc EXCEPT ![r] = "respond"]
  /\ loc' = [loc EXCEPT ![r] = IF @.cookies = "set" THEN Forgotten(@)
                              ELSE [NoLocals EXCEPT !.cookies = loc[r].cookies]]

-----------------------------------------------------------------------------
\* The browser is logged in.
WebInit ==
  /\ jar = [access |-> 1, refresh |-> 1]
  /\ tokens = [g \in Pairs |-> IF g = 1 THEN [NoPair EXCEPT !.state = "live", !.origin = 1]
                                        ELSE NoPair]
  /\ issued = 1
  /\ pc = [r \in Requests |-> "idle"]
  /\ loc = [r \in Requests |-> NoLocals]
  /\ failures = 0
  /\ overlapped = FALSE
  /\ intent = "in"

\* A request leaves with the cookies of the moment; the access token goes with its
\* cookie, which has the same age.  Of what kind it is, is said when it matters.
Send(r) ==
  /\ pc[r] = "idle"
  /\ pc' = [pc EXCEPT ![r] = "ensure"]
  /\ loc' = [loc EXCEPT ![r] = [NoLocals EXCEPT
       !.access = IF jar.access # 0 /\ tokens[jar.access].age = "expired" THEN 0 ELSE jar.access,
       !.refresh = jar.refresh]]
  /\ overlapped' = (overlapped \/ \E q \in Requests : pc[q] # "idle")
  /\ UNCHANGED <<jar, tokens, issued, failures, intent>>

-----------------------------------------------------------------------------
(* Refreshing, once for all the requests with one refresh token            *)

\* refreshSessionCookies up to its first await.
refreshSessionCookies(r, caller) ==
  /\ pc' = [pc EXCEPT ![r] = IF loc[r].refresh \in refreshInflight THEN "joined" ELSE "refresh"]
  /\ loc' = [loc EXCEPT ![r].token = loc[r].refresh, ![r].why = caller]

\* The backend exchanges a live refresh token, once, and refuses any other.
BackendRefresh(r) ==
  /\ pc[r] = "refresh"
  /\ LET old == loc[r].token
         new == issued + 1
     IN \/ /\ tokens[old].state = "live" /\ new \in Pairs
           /\ issued' = new
           /\ tokens' = [tokens EXCEPT
                ![old].state = "rotated",
                ![new] = [NoPair EXCEPT !.state = "live", !.origin = tokens[old].origin]]
           /\ loc' = [loc EXCEPT ![r].got = new]
        \/ /\ tokens[old].state # "live"
           /\ loc' = [loc EXCEPT ![r].got = 0]
           /\ UNCHANGED <<issued, tokens>>
  /\ pc' = [pc EXCEPT ![r] = "answer"]
  /\ UNCHANGED <<jar, failures, overlapped, intent>>

\* Those who wait for the refresh that r has made, and r.
Flight(r) == {r} \cup {q \in Requests : pc[q] = "joined" /\ loc[q].token = loc[r].token}

\* setAuthCookies and clearAuthCookies, on the cookies of one request.
setAuthCookies(l, g) == [l EXCEPT !.access = g, !.refresh = g, !.cookies = "set"]
clearAuthCookies(l) == [l EXCEPT !.access = 0, !.refresh = 0, !.cookies = "cleared"]

\* Mutant: whoever waited writes its own cookies again.
MutLandJoinersRewrite(r, outcome) ==
  /\ pc' = [q \in Requests |-> IF q \in Flight(r) THEN "resumed" ELSE pc[q]]
  /\ loc' = [q \in Requests |->
       IF q \notin Flight(r) THEN loc[q]
       ELSE [(CASE outcome = "ok" -> setAuthCookies(loc[q], IF q = r THEN loc[r].got ELSE loc[q].refresh)
                [] q = r /\ outcome = "refused" -> clearAuthCookies(loc[q])
                [] OTHER -> loc[q]) EXCEPT !.outcome = outcome]]

\* The end of performRefresh: the request that made it has new cookies, or none if
\* refused; the others only learn the outcome.
Land(r, outcome) ==
  /\ pc' = [q \in Requests |-> IF q \in Flight(r) THEN "resumed" ELSE pc[q]]
  /\ loc' = [q \in Requests |->
       IF q \notin Flight(r) THEN loc[q]
       ELSE [(CASE q = r /\ outcome = "ok" -> setAuthCookies(loc[q], loc[r].got)
                [] q = r /\ outcome = "refused" -> clearAuthCookies(loc[q])
                [] OTHER -> loc[q]) EXCEPT !.outcome = outcome]]

performRefresh(r) ==
  /\ pc[r] = "answer"
  /\ Land(r, IF loc[r].got # 0 THEN "ok" ELSE "refused")
  /\ UNCHANGED <<jar, tokens, issued, failures, overlapped, intent>>

\* No answer, or one that is neither ok nor 401 or 403.
RefreshFails(r) ==
  /\ pc[r] \in {"refresh", "answer"}
  /\ failures < MaxFailures
  /\ failures' = failures + 1
  /\ tokens' = IF pc[r] = "answer" /\ loc[r].got # 0
                 THEN [tokens EXCEPT ![loc[r].token].state = "stranded"] ELSE tokens
  /\ Land(r, "failed")
  /\ UNCHANGED <<jar, issued, overlapped, intent>>

-----------------------------------------------------------------------------
(* The middleware and the handlers                                         *)

\* ensureSession, called by the middleware for every request.
ensureSession(r) ==
  /\ pc[r] = "ensure"
  /\ IF (getSession(r) /\ ~accessNeedsRefresh(r)) \/ ~hasRefreshToken(r)
       THEN Goto(r, "handle")
       ELSE refreshSessionCookies(r, "ensure")
  /\ UNCHANGED <<jar, tokens, issued, failures, overlapped, intent>>

\* ... and after its refresh: any failure clears the cookies.
EnsureResumes(r) ==
  /\ pc[r] = "resumed" /\ loc[r].why = "ensure"
  /\ pc' = [pc EXCEPT ![r] = "handle"]
  /\ loc' = [loc EXCEPT ![r] =
       Forgotten(IF @.outcome = "ok" THEN @ ELSE clearAuthCookies(@))]
  /\ UNCHANGED <<jar, tokens, issued, failures, overlapped, intent>>

\* A page, or the redirection of one without a session: nothing more is done.
Page(r) ==
  /\ "page" \in Kinds /\ pc[r] = "handle"
  /\ Respond(r)
  /\ UNCHANGED <<jar, tokens, issued, failures, overlapped, intent>>

\* POST /api/auth/session/renew.
Renew(r) ==
  /\ "renew" \in Kinds /\ pc[r] = "handle"
  /\ IF hasRefreshToken(r) THEN refreshSessionCookies(r, "renew") ELSE Respond(r)
  /\ UNCHANGED <<jar, tokens, issued, failures, overlapped, intent>>

RenewResumes(r) ==
  /\ pc[r] = "resumed" /\ loc[r].why = "renew"
  /\ Respond(r)
  /\ UNCHANGED <<jar, tokens, issued, failures, overlapped, intent>>

\* resolveAccessToken of a request that is forwarded ...
resolveAccessToken(r) ==
  /\ "api" \in Kinds /\ pc[r] = "handle"
  /\ IF getSession(r) THEN Goto(r, "execute")
     ELSE IF hasRefreshToken(r) THEN refreshSessionCookies(r, "resolve")
     ELSE Respond(r)
  /\ UNCHANGED <<jar, tokens, issued, failures, overlapped, intent>>

\* ... and after its refresh.  Most routes have an assertAccess that wants a session.
ResolveResumes(r) ==
  /\ pc[r] = "resumed" /\ loc[r].why = "resolve"
  /\ \/ loc[r].outcome = "ok" /\ loc[r].access # 0 /\ Resume(r, "execute")
     \/ ~(loc[r].outcome = "ok" /\ getSession(r)) /\ Respond(r)
  /\ UNCHANGED <<jar, tokens, issued, failures, overlapped, intent>>

\* The backend takes the access token: authenticate.
Accepts(g) == tokens[g].accepted /\ tokens[g].age # "expired"

\* execute, and the refresh after the first 401.
proxyWithSessionRefresh(r) ==
  /\ pc[r] \in {"execute", "again"}
  /\ IF ~Accepts(loc[r].access) /\ pc[r] = "execute" /\ hasRefreshToken(r)
       THEN refreshSessionCookies(r, "retry")
       ELSE Respond(r)
  /\ UNCHANGED <<jar, tokens, issued, failures, overlapped, intent>>

RetryResumes(r) ==
  /\ pc[r] = "resumed" /\ loc[r].why = "retry"
  /\ IF loc[r].outcome = "ok" /\ loc[r].access # 0 THEN Resume(r, "again") ELSE Respond(r)
  /\ UNCHANGED <<jar, tokens, issued, failures, overlapped, intent>>

\* The call throws and the page of the error 500 is sent, with the cookies or without.
ExecuteFails(r) ==
  /\ pc[r] \in {"execute", "again"}
  /\ failures < MaxFailures
  /\ failures' = failures + 1
  /\ Respond(r) \/ Finish(r)
  /\ UNCHANGED <<jar, tokens, issued, overlapped, intent>>

\* Mutant: the cookies go only if the backend has answered with an error.
MutLogoutKeepsCookies(r) ==
  /\ "logout" \in Kinds /\ pc[r] = "handle"
  /\ tokens' = IF hasRefreshToken(r) /\ tokens[loc[r].refresh].state = "live"
                  THEN [tokens EXCEPT ![loc[r].refresh].state = "revoked"] ELSE tokens
  /\ pc' = [pc EXCEPT ![r] = "respond"]
  /\ intent' = "out"
  /\ UNCHANGED <<jar, issued, loc, failures, overlapped>>

\* logout: the backend revokes the session of the refresh token, and the cookies go
\* even if that fails.
logout(r) ==
  /\ "logout" \in Kinds /\ pc[r] = "handle"
  /\ \/ /\ tokens' = IF hasRefreshToken(r) /\ tokens[loc[r].refresh].state = "live"
                       THEN [tokens EXCEPT ![loc[r].refresh].state = "revoked"] ELSE tokens
        /\ UNCHANGED failures
     \/ /\ hasRefreshToken(r) /\ failures < MaxFailures
        /\ failures' = failures + 1
        /\ UNCHANGED tokens
  /\ pc' = [pc EXCEPT ![r] = "respond"]
  /\ loc' = [loc EXCEPT ![r] = clearAuthCookies(@)]
  /\ intent' = "out"
  /\ UNCHANGED <<jar, issued, overlapped>>

\* login: a session of its own, or the refusal of the backend.
login(r) ==
  /\ "login" \in Kinds /\ pc[r] = "handle"
  /\ \/ LET new == issued + 1 IN
          /\ new \in Pairs
          /\ issued' = new
          /\ tokens' = [tokens EXCEPT ![new] = [NoPair EXCEPT !.state = "live", !.origin = new]]
          /\ loc' = [loc EXCEPT ![r] = setAuthCookies(@, new)]
          /\ intent' = "in"
     \/ UNCHANGED <<issued, tokens, loc, intent>>
  /\ pc' = [pc EXCEPT ![r] = "respond"]
  /\ UNCHANGED <<jar, failures, overlapped>>

-----------------------------------------------------------------------------
(* Responses, time and what happens elsewhere                              *)

\* The response reaches the browser, which does what it says to the cookies.
Deliver(r) ==
  /\ pc[r] = "respond"
  /\ jar' = CASE loc[r].cookies = "kept"    -> jar
              [] loc[r].cookies = "set"     -> [access |-> loc[r].access, refresh |-> loc[r].refresh]
              [] loc[r].cookies = "cleared" -> [access |-> 0, refresh |-> 0]
  /\ Finish(r)
  /\ UNCHANGED <<tokens, issued, failures, overlapped, intent>>

ResponseLost(r) ==
  /\ pc[r] = "respond"
  /\ failures < MaxFailures
  /\ failures' = failures + 1
  /\ Finish(r)
  /\ UNCHANGED <<jar, tokens, issued, overlapped, intent>>

\* A pair that is in the cookies or in the hands of a request: others no longer matter.
Held(g) == jar.access = g \/ \E r \in Requests : g \in {loc[r].access, loc[r].got}

\* The last minute of an access token, and its end.
AccessAges(g) ==
  /\ Held(g)
  /\ \/ tokens[g].age = "fresh" /\ tokens' = [tokens EXCEPT ![g].age = "expiring"]
     \/ tokens[g].age = "expiring" /\ tokens' = [tokens EXCEPT ![g].age = "expired"]
  /\ UNCHANGED <<jar, issued, web, failures, overlapped, intent>>

\* A change of password puts the access token on the blacklist.
AccessRefused(g) ==
  /\ Held(g) /\ tokens[g].accepted
  /\ tokens' = [tokens EXCEPT ![g].accepted = FALSE]
  /\ UNCHANGED <<jar, issued, web, failures, overlapped, intent>>

\* All sessions are closed, from elsewhere.
SessionsClosed ==
  /\ \E g \in Pairs : tokens[g].state = "live"
  /\ tokens' = [g \in Pairs |-> IF tokens[g].state = "live"
                                  THEN [tokens[g] EXCEPT !.state = "revoked"] ELSE tokens[g]]
  /\ intent' = "over"
  /\ UNCHANGED <<jar, issued, web, failures, overlapped>>

\* What the web server does of a request whatever happens elsewhere.
Serve(r) ==
  \/ ensureSession(r) \/ EnsureResumes(r) \/ Page(r) \/ Renew(r) \/ RenewResumes(r)
  \/ resolveAccessToken(r) \/ ResolveResumes(r) \/ proxyWithSessionRefresh(r) \/ RetryResumes(r)
  \/ logout(r) \/ login(r) \/ BackendRefresh(r) \/ performRefresh(r) \/ Deliver(r)

WebNext ==
  \/ \E r \in Requests :
       \/ Send(r) \/ Serve(r)
       \/ RefreshFails(r) \/ ExecuteFails(r) \/ ResponseLost(r)
  \/ \E g \in Pairs : AccessAges(g) \/ AccessRefused(g)
  \/ SessionsClosed

WebSpec == WebInit /\ [][WebNext]_webVars

-----------------------------------------------------------------------------
(* What has to hold.                                                        *)

Stages == {"idle", "ensure", "refresh", "answer", "joined", "resumed", "handle", "execute",
           "again", "respond"}

\* Type correctness of every variable.
WebTypeOK ==
  /\ jar \in [access : 0..MaxTokens, refresh : 0..MaxTokens]
  /\ tokens \in [Pairs -> [state : {"none", "live", "rotated", "stranded", "revoked"},
                           age : {"fresh", "expiring", "expired"}, accepted : BOOLEAN,
                           origin : Nat]]
  /\ issued \in Pairs
  /\ pc \in [Requests -> Stages]
  /\ loc \in [Requests -> [access : 0..MaxTokens, refresh : 0..MaxTokens,
                           cookies : {"kept", "set", "cleared"}, token : 0..MaxTokens,
                           why : {"ensure", "resolve", "renew", "retry"}, got : 0..MaxTokens,
                           outcome : {"ok", "refused", "failed"}]]
  /\ failures \in Nat
  /\ overlapped \in BOOLEAN
  /\ intent \in {"in", "out", "over"}

\* While no call or response is lost, the browser holds a refresh token that has been
\* exchanged only as long as a response with other cookies is on its way: requests
\* overlap as they may, none leaves it with a token of the past.
StaleOnlyUnderWay ==
  failures = 0 /\ jar.refresh # 0 /\ tokens[jar.refresh].state = "rotated"
    => \E r \in Requests : pc[r] = "answer" \/ loc[r].cookies # "kept"

\* One request at a time, and none lost, the browser keeps its session until it logs
\* out or the session is closed elsewhere, however tokens age or are refused on the
\* way, and after a logout it has no cookies.
OneAtATimeKeepsTheSession ==
  ~overlapped /\ failures = 0 /\ (\A r \in Requests : pc[r] = "idle")
    => /\ intent = "in" => jar.refresh # 0 /\ tokens[jar.refresh].state = "live"
       /\ intent = "out" => jar.refresh = 0

\* No response puts back a refresh token that has been exchanged, in whatever order
\* responses arrive: only one whose exchange got no answer.
ExchangedNeverComesBack ==
  [][jar'.refresh # jar.refresh /\ jar'.refresh # 0
       => tokens[jar'.refresh].state # "rotated"]_webVars

\* token-refresh.ts: refreshing says ok: false, and clears the cookies, when the
\* session is over, that is, when no token of it lives.  It is not so: of two requests
\* with one token, the second may be refused what the first has just exchanged.
RefusedMeansOver ==
  \A r \in Requests : pc[r] = "resumed" /\ loc[r].outcome = "refused"
    => \A g \in Pairs : tokens[g].state = "live" => tokens[g].origin # tokens[loc[r].token].origin
=============================================================================
