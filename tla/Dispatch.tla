------------------------------- MODULE Dispatch -------------------------------
(***************************************************************************)
(* The Worker answers requests (entry.rs) and keeps panel sessions         *)
(* (panel/serve.rs, panel/auth.rs).  It has no memory between requests: a  *)
(* session is a token, an expiry signed with a key made from the password, *)
(* and what can change under it is the clock and the deployment's          *)
(* password.  The tokens a browser can present are those it was given.     *)
(***************************************************************************)
EXTENDS Routing, Functions

CONSTANTS
    RouteSets,     \* the configurations of path prefixes looked at
    Passwords,     \* the passwords the deployment may have; "" is none
    Requests,      \* the requests made: records [method, path, upgrade]
    Bundles,       \* the <<client, shape>> pairs the stored nodes can be rendered for
    SessionSecs,   \* how long a session lasts
    Diagnostics,   \* whether DIAGNOSTICS is set
    MaxNow         \* bound: the last instant

Paths == Seq([name : STRING, ext : STRING])

ASSUME DispatchAssumption ==
    /\ SessionSecs \in Nat \ {0} /\ MaxNow \in Nat /\ Diagnostics \in BOOLEAN
    /\ RouteSets \subseteq [Range(RouteNames) -> Paths]
    /\ Requests \subseteq [method : STRING, path : Paths, upgrade : BOOLEAN]

NoToken == [expiry |-> 0, key |-> ""]   \* no cookie, or one that is not a token

VARIABLES
    routes,     \* the deployment's prefixes
    password,   \* PANEL_PASSWORD
    now,        \* the clock
    tokens,     \* the tokens given out
    logins,     \* history: the password of every login that succeeded, and its time
    granted     \* history: the session of the last request that was let in, and when
vars == <<routes, password, now, tokens, logins, granted>>

-----------------------------------------------------------------------------
(* Sessions.                                                               *)

\* issue: the key of a token is made from the password.
Issue(secret, time) == [expiry |-> time + SessionSecs, key |-> secret]

\* mutant: the session lasts one instant too long
BugLastInstant(token, secret, time) ==
    secret # "" /\ token # NoToken /\ token.key = secret /\ token.expiry >= time

\* verify.
Verifies(token, secret, time) ==
    secret # "" /\ token # NoToken /\ token.key = secret /\ token.expiry > time

-----------------------------------------------------------------------------
(* Answers.                                                                *)

Answer(kind, about) == [kind |-> kind, about |-> about]
Decoy == Answer("decoy", <<>>)

\* mutant: the session is looked at before it is known that there is a panel
BugSessionFirst(api, token, secret, time) ==
    IF ~IsPublic(api) /\ ~Verifies(token, secret, time) THEN Answer("refused", <<>>)
    ELSE IF secret = "" \/ api = "unknown" THEN Decoy ELSE Answer("panel", <<api>>)

\* panel: without a password there is no panel at all.
Panel(api, token, secret, time) ==
    IF secret = "" \/ api = "unknown" THEN Decoy
    ELSE IF ~IsPublic(api) /\ ~Verifies(token, secret, time) THEN Answer("refused", <<>>)
    ELSE Answer("panel", <<api>>)

\* subscription: what no client can use is the decoy as well.
Subscription(rest) ==
    IF Subscribed(rest) \cap Bundles = {} THEN Decoy
    ELSE Answer("subscription", CHOOSE b \in Subscribed(rest) : TRUE)

\* xhttp: the session names the Durable Object; the streaming modes are not served.
XhttpRequest(class) ==
    CASE class.kind \in {"downlink", "packet-up"} -> Answer("object", <<class.session>>)
      [] class.kind = "preflight" -> Answer("empty", <<>>)
      [] OTHER -> Decoy

\* The connectivity probe is served only where diagnostics are on.
ConnectProbe == IF Diagnostics THEN Answer("connect probe", <<>>) ELSE Decoy

\* dispatch, up to the answer of a Durable Object or the settings store.
Respond(to, method, token, secret, time) ==
    CASE to.route = "panel" -> Panel(Api(method, to.rest), token, secret, time)
      [] to.route = "subscription" -> Subscription(to.rest)
      [] to.route = "xhttp" -> XhttpRequest(to.class)
      [] to.route = "connect probe" -> ConnectProbe
      [] to.route \in {"websocket", "duplex probe"} -> Answer(to.route, <<>>)
      [] to.route = "decoy" -> Decoy

Response(request, prefixes, token, secret, time) ==
    Respond(Route(request.method, request.path, request.upgrade, prefixes),
            request.method, token, secret, time)

-----------------------------------------------------------------------------
(* Steps.                                                                  *)

NoGrant == [token |-> NoToken, under |-> "", at |-> 0]

TypeOK ==
    /\ routes \in RouteSets /\ password \in Passwords /\ now \in Nat /\ now <= MaxNow
    /\ tokens \subseteq [expiry : Nat, key : Passwords]
    /\ logins \subseteq [under : Passwords, at : Nat]
    /\ granted.token \in tokens \cup {NoToken} /\ granted.at \in 0..now

Init ==
    /\ routes \in RouteSets
    /\ password \in Passwords
    /\ now = 0
    /\ tokens = {} /\ logins = {} /\ granted = NoGrant

\* A login the panel route takes: the password typed in is compared, never the clock.
Login(request, typed) ==
    /\ Response(request, routes, NoToken, password, now) = Answer("panel", <<"login">>)
    /\ typed # "" /\ typed = password
    /\ tokens' = tokens \cup {Issue(password, now)}
    /\ logins' = logins \cup {[under |-> typed, at |-> now]}
    /\ UNCHANGED <<routes, password, now, granted>>

\* A request that only a session may make is let in.
Enter(request, token) ==
    LET answer == Response(request, routes, token, password, now)
    IN  /\ answer.kind = "panel" /\ ~IsPublic(answer.about[1])
        /\ granted' = [token |-> token, under |-> password, at |-> now]
        /\ UNCHANGED <<routes, password, now, tokens, logins>>

\* The operator deploys another password.
ChangePassword ==
    /\ password' \in Passwords \ {password}
    /\ UNCHANGED <<routes, now, tokens, logins, granted>>

Tick ==
    /\ now < MaxNow
    /\ now' = now + 1
    /\ UNCHANGED <<routes, password, tokens, logins, granted>>

Next ==
    \/ \E request \in Requests, typed \in Passwords : Login(request, typed)
    \/ \E request \in Requests, token \in tokens \cup {NoToken} : Enter(request, token)
    \/ ChangePassword
    \/ Tick

Spec == Init /\ [][Next]_vars

-----------------------------------------------------------------------------
(* Properties.                                                             *)

\* Whoever is let in has logged in with the password the deployment has at that moment,
\* less than a session before: an expired session and one of another password both end
\* without anything being stored (auth.rs:6-17).
OnlyLiveSessions ==
    granted # NoGrant =>
        \E login \in logins :
            /\ login.under = granted.under /\ login.under # ""
            /\ login.at <= granted.at /\ granted.at < login.at + SessionSecs

\* A deployment without a password answers every request as one that has no panel prefix
\* does, whatever the tokens, as long as no prefix shadows another (serve.rs:143-146).
NoPasswordNoPanel ==
    ~ShadowingConflict(routes) =>
        \A request \in Requests : \A token \in tokens \cup {NoToken} :
            Response(request, routes, token, "", now)
              = Response(request, [routes EXCEPT !.panel = <<>>], token, password, now)

\* Prefixes without a conflict share no path, so the order in which the router tries them
\* decides nothing (router.rs:62-68); a prefix that is not configured has none.
OneOwnerPerPath ==
    ~ShadowingConflict(routes) =>
        \A request \in Requests :
            \A a, b \in Range(RouteNames) :
               Covers(routes[a], request.path) /\ Covers(routes[b], request.path) => a = b
=============================================================================
