------------------------------- MODULE Advisor -------------------------------
(***************************************************************************)
(* The panel's advisor (panel/advisor.rs): which controls the editor shows *)
(* for a node, which of their choices it blocks for a client, and what an  *)
(* edit does to the node.  The same Apply builds the candidates a control  *)
(* is judged by and the node that is saved.                                *)
(***************************************************************************)
EXTENDS NodeModel, Functions

Empty == ""   \* a text field with nothing in it

\* optional: an empty text means "not set".
OptionalText(text) == IF text = Empty THEN Absent ELSE text

-----------------------------------------------------------------------------
(* Edits.                                                                  *)

\* The credential survives a change of protocol, whatever its shape.
WithProtocol(node, kind) ==
    LET secret == node.protocol.secret
    IN  CASE kind = "vless"       -> Vless(secret, "none")
          [] kind = "vmess"       -> Vmess(secret, "auto")
          [] kind = "trojan"      -> Trojan(secret)
          [] kind = "shadowsocks" -> Shadowsocks("blake3-aes256-gcm", secret)

\* The host survives a change of transport where both have one.
WithTransport(node, kind) ==
    LET host == IF HasHost(node.transport) THEN node.transport.host ELSE Absent
    IN  CASE kind = "xhttp" -> Xhttp("packet-up", host)
          [] kind \in {"web-socket", "http-upgrade"} -> Transport(kind, host)
          [] kind \in {"grpc", "raw"} -> Hostless(kind)

\* The server name survives a change of security; every other setting is a fresh one.
WithSecurity(node, kind) ==
    LET sni == CASE node.security.kind = "tls"     -> node.security.sni
                 [] node.security.kind = "reality" -> node.security.server_name
                 [] node.security.kind = "none"    -> node.address
    IN  CASE kind = "tls"     -> Tls(sni, Absent, FALSE)
          [] kind = "reality" -> Reality(IF sni = Absent THEN Empty ELSE sni, Absent, Empty)
          [] kind = "none"    -> NoSecurity

\* The name the editor gives the credential.
SecretField(node) == IF node.protocol.kind \in {"vless", "vmess"} THEN "uuid" ELSE "password"

\* Setting a part the node does not have changes nothing.
WithPart(node, part, field, value) ==
    IF field \in DOMAIN node[part] THEN [node EXCEPT ![part][field] = value] ELSE node

Apply(node, field, value) ==
    CASE field = "tag"                        -> [node EXCEPT !.tag = [value EXCEPT !.pad = FALSE]]
      [] field \in {"address", "via"}         -> [node EXCEPT ![field] = value]
      [] field = "protocol"                   -> [node EXCEPT !.protocol = WithProtocol(node, value)]
      [] field = SecretField(node)            -> [node EXCEPT !.protocol.secret = value]
      [] field \in {"flow", "cipher", "method"} -> WithPart(node, "protocol", field, value)
      [] field = "transport"                  -> [node EXCEPT !.transport = WithTransport(node, value)]
      [] field = "xhttp_mode"                 -> WithPart(node, "transport", "mode", value)
      [] field = "host"                       -> WithPart(node, "transport", "host", OptionalText(value))
      [] field = "security"                   -> [node EXCEPT !.security = WithSecurity(node, value)]
      [] field \in {"sni", "fingerprint"}     -> WithPart(node, "security", field, OptionalText(value))
      [] field \in {"server_name", "public_key"} -> WithPart(node, "security", field, value)
      [] field = "allow_insecure"             -> WithPart(node, "security", "insecure", value)
      [] field = "mux"                        -> [node EXCEPT !.mux = value]
      [] OTHER                                -> node   \* what the model leaves out

-----------------------------------------------------------------------------
(* Controls.                                                               *)

\* The values a select control offers.
Options ==
    [protocol    |-> {"vless", "vmess", "trojan", "shadowsocks"},
     flow        |-> Flows,
     cipher      |-> Ciphers,
     method      |-> Methods,
     transport   |-> {"xhttp", "web-socket", "grpc", "http-upgrade", "raw"},
     xhttp_mode  |-> Modes,
     security    |-> {"tls", "reality", "none"},
     fingerprint |-> {Empty, "chrome", "firefox", "safari", "edge", "ios", "android", "random"}]

Selects == DOMAIN Options

\* The controls shown for the node, each named by the field it edits.
ProtocolControls(node) ==
    {SecretField(node)} \cup
    CASE node.protocol.kind = "vless"       -> {"flow"}
      [] node.protocol.kind = "vmess"       -> {"cipher"}
      [] node.protocol.kind = "trojan"      -> {}
      [] node.protocol.kind = "shadowsocks" -> {"method"}

TransportControls(node) ==
    CASE node.transport.kind = "xhttp"        -> {"xhttp_mode", "path", "host"}
      [] node.transport.kind = "web-socket"   -> {"path", "host", "heartbeat"}
      [] node.transport.kind = "grpc"         -> {"service_name"}
      [] node.transport.kind = "http-upgrade" -> {"path"}
      [] node.transport.kind = "raw"          -> {}

SecurityControls(node) ==
    CASE node.security.kind = "tls" -> {"sni", "alpn", "fingerprint", "allow_insecure"}
      [] node.security.kind = "reality" -> {"public_key", "short_id", "server_name", "fingerprint"}
      [] node.security.kind = "none" -> {}

Controls(node) ==
    UNION {{"tag", "address", "port", "protocol", "transport", "security", "mux"},
           ProtocolControls(node), TransportControls(node), SecurityControls(node),
           IF node.mux THEN {"concurrency"} ELSE {}}

\* What the node would be found to be with this option.
FindingsWith(node, field, value, client, enhanced) ==
    Check(Apply(node, field, value), client, enhanced)

\* Findings every option of a control shares are not caused by it.
Shared(perOption) == {f \in UNION Range(perOption) : \A v \in DOMAIN perOption : f \in perOption[v]}

\* mutant: only a fatal finding blocks an option
BugFatalOnly(findings, shared) == \E f \in findings \ shared : f.severity = "Fatal"

\* mutant: whatever the other options share counts against each of them
BugBlamesAll(findings, shared) == Blocking(findings) # {}

\* select: an option is blocked when it would break the node itself.
Blocked(findings, shared) == Blocking(findings \ shared) # {}

\* The options of a control that can be chosen.
Offered(node, field, client, enhanced) ==
    LET perOption == [v \in Options[field] |-> FindingsWith(node, field, v, client, enhanced)]
        shared == Shared(perOption)
    IN  {v \in Options[field] : ~Blocked(perOption[v], shared)}

\* blank: a new connection, as the editor starts it.
BlankNode(tag, secret) ==
    [tag |-> tag, address |-> "host", protocol |-> Vless(secret, "none"),
     transport |-> Xhttp("packet-up", "host"), security |-> Tls("host", Absent, FALSE),
     mux |-> FALSE, via |-> [words |-> <<>>, pad |-> FALSE], served |-> TRUE]
=============================================================================
