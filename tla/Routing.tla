------------------------------- MODULE Routing -------------------------------
(***************************************************************************)
(* What a request is: prefix matching (path.rs), the router (router.rs),   *)
(* XHTTP classification (transport/xhttp/wire.rs), the panel's routes      *)
(* (panel/api.rs) and subscription paths (subscription/bundle.rs).         *)
(*                                                                         *)
(* A path is a sequence of segments, without the empty ones; a segment is  *)
(* a name and what follows its last dot.  A prefix is a path as well, and  *)
(* <<>> is a prefix that is not configured.                                *)
(***************************************************************************)
EXTENDS Integers, Sequences

CONSTANTS
    SessionIds,   \* the names that are made of the characters of a session identifier
    SeqNumber     \* the names that are numbers below MAX_SEQ, and which numbers they are

Segment(name, ext) == [name |-> name, ext |-> ext]
Seg(name) == Segment(name, "")

StartsWith(path, prefix) ==
    Len(prefix) <= Len(path) /\ \A i \in 1..Len(prefix) : path[i] = prefix[i]

-----------------------------------------------------------------------------
(* Prefixes.                                                               *)

\* covers: on a component boundary, and never for an empty prefix.
Covers(prefix, path) == prefix # <<>> /\ StartsWith(path, prefix)

\* strip, of a path the prefix covers.
Rest(prefix, path) == SubSeq(path, Len(prefix) + 1, Len(path))

\* The prefixes, in the order shadowing_conflict lists them.
RouteNames == <<"xhttp", "panel", "subscription", "websocket">>

\* mutant: the pair is compared in one direction only
BugOneDirection(routes, a, b) == Covers(routes[a], routes[b])

Shadows(routes, a, b) == Covers(routes[a], routes[b]) \/ Covers(routes[b], routes[a])

\* shadowing_conflict: whether there is a pair to report.
ShadowingConflict(routes) ==
    \E i, j \in DOMAIN RouteNames : i < j /\ Shadows(routes, RouteNames[i], RouteNames[j])

-----------------------------------------------------------------------------
(* XHTTP.                                                                  *)

Class(kind, session, seq) == [kind |-> kind, session |-> session, seq |-> seq]
Unaddressed(kind) == Class(kind, "", -1)

\* SessionId::parse.
IsSession(segment) == segment.ext = "" /\ segment.name \in SessionIds

\* A sequence number that is parsed and in range.
IsSeq(segment) == segment.ext = "" /\ segment.name \in DOMAIN SeqNumber

\* What the segments behind the prefix ask for.
Addressed(method, rest) ==
    LET session == Len(rest) \in 1..2 /\ IsSession(rest[1])
    IN  CASE Len(rest) = 0 /\ method # "GET" -> Unaddressed("stream-one")
          [] Len(rest) = 1 /\ session ->
             Class(IF method = "GET" THEN "downlink" ELSE "stream-up", rest[1].name, -1)
          [] Len(rest) = 2 /\ session /\ IsSeq(rest[2]) ->
             Class("packet-up", rest[1].name, SeqNumber[rest[2].name])
          [] OTHER -> Unaddressed("not ours")

\* classify.
Classify(method, path, prefix) ==
    IF ~Covers(prefix, path) THEN Unaddressed("not ours")
    ELSE IF method = "OPTIONS" THEN Unaddressed("preflight")
    ELSE Addressed(method, Rest(prefix, path))

-----------------------------------------------------------------------------
(* The panel and the subscriptions.                                        *)

ApiTable ==
    {<<"GET", <<>>, "page">>, <<"POST", <<"api", "login">>, "login">>,
     <<"POST", <<"api", "logout">>, "logout">>, <<"GET", <<"api", "state">>, "state">>,
     <<"PUT", <<"api", "nodes">>, "save">>, <<"POST", <<"api", "nodes">>, "save">>,
     <<"POST", <<"api", "check">>, "check">>, <<"GET", <<"api", "export">>, "export">>,
     <<"GET", <<"api", "qr">>, "qr">>}

\* api::route.
Api(method, rest) ==
    LET matches == {row \in ApiTable :
                      row[1] = method /\ rest = [i \in DOMAIN row[2] |-> Seg(row[2][i])]}
    IN  IF matches = {} THEN "unknown" ELSE (CHOOSE row \in matches : TRUE)[3]

IsPublic(api) == api \in {"page", "login"}

\* client_from_name, whose spellings are in lower case.
ClientNames ==
    [v2rayn |-> "v2rayn", v2rayng |-> "v2rayng", hiddify |-> "hiddify", karing |-> "karing",
     singbox |-> "sing-box", mihomo |-> "mihomo", clash |-> "mihomo", clashmeta |-> "mihomo",
     nekobox |-> "nekobox"]

\* parse_request: the client and the shape of a subscription, as a set with at most one.
Subscribed(rest) ==
    LET shapes ==
            CASE Len(rest) = 1 /\ rest[1].ext \in {"json", "yaml", "yml"} -> {"config"}
              [] Len(rest) = 1 /\ rest[1].ext = "txt" -> {"plain links"}
              [] Len(rest) = 1 /\ rest[1].ext = ""    -> {"links"}
              [] Len(rest) = 2 /\ rest[1].ext = "" /\ rest[2] = Seg("links")  -> {"plain links"}
              [] Len(rest) = 2 /\ rest[1].ext = "" /\ rest[2] = Seg("config") -> {"config"}
              [] OTHER -> {}
    IN  {<<ClientNames[rest[1].name], shape>> :
            shape \in {s \in shapes : rest[1].name \in DOMAIN ClientNames}}

-----------------------------------------------------------------------------
(* The router.                                                             *)

To(route, rest, class) == [route |-> route, rest |-> rest, class |-> class]

\* route: an upgrade first, then the panel, the subscriptions, the probes and XHTTP.
Route(method, path, upgrade, routes) ==
    LET rest(name) == Rest(routes[name], path)
        none == Unaddressed("not ours")
        class == Classify(method, path, routes.xhttp)
    IN  CASE upgrade ->
             To(IF Covers(routes.websocket, path) THEN "websocket" ELSE "decoy", <<>>, none)
          [] ~upgrade /\ Covers(routes.panel, path) -> To("panel", rest("panel"), none)
          [] ~upgrade /\ ~Covers(routes.panel, path) /\ Covers(routes.subscription, path) ->
             To("subscription", rest("subscription"), none)
          [] OTHER ->
             IF Covers(routes.xhttp, path) /\ rest("xhttp") = <<Seg("__duplex_probe")>>
             THEN To("duplex probe", <<>>, none)
             ELSE IF Covers(routes.xhttp, path) /\ rest("xhttp") = <<Seg("__connect_probe")>>
             THEN To("connect probe", <<>>, none)
             ELSE IF class = none THEN To("decoy", <<>>, none)
             ELSE To("xhttp", <<>>, class)
=============================================================================
