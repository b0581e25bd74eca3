------------------------------ MODULE NodeModel ------------------------------
(***************************************************************************)
(* The unified node model (config/model.rs) and the rules that judge a     *)
(* node for a client (config/conflicts.rs), as operators.                  *)
(*                                                                         *)
(* A node is a record; its protocol, transport and security are records    *)
(* with a field kind, as the tagged enums of the code are.  A secret is    *)
(* what the rules see of it: how many characters it has, how many of them  *)
(* are padding, and whether the rest is in the base64 alphabet.  A server  *)
(* address is the class of its text: a name ("host"), an IP literal        *)
(* ("ip"), or an address the rules take for private.  Ports, paths,        *)
(* service names, heartbeats and the number of multiplexed streams decide  *)
(* nothing here and are left out.                                          *)
(***************************************************************************)
EXTENDS Integers, Sequences

Absent == "absent"   \* None of an optional string

-----------------------------------------------------------------------------
(* Clients and cores.                                                      *)

Clients == {"v2rayn", "v2rayng", "hiddify", "karing", "sing-box", "mihomo", "nekobox"}

CoreOf(client) ==
    CASE client \in {"v2rayn", "v2rayng"} -> "Xray"
      [] client = "mihomo" -> "Mihomo"
      [] OTHER -> "SingBox"

\* ClientTarget::supports_xhttp: Hiddify and Karing ship a patched sing-box.
SupportsXhttp(client) == client \notin {"sing-box", "nekobox"}

-----------------------------------------------------------------------------
(* The parts of a node.                                                    *)

Flows == {"none", "vision", "vision-udp443"}
Ciphers == {"auto", "aes128-gcm", "chacha20-poly1305", "zero"}
Blake3 == {"blake3-aes128-gcm", "blake3-aes256-gcm", "blake3-chacha20-poly1305"}
LegacyMethods == {"aes128-gcm", "aes256-gcm", "chacha20-poly1305", "xchacha20-poly1305"}
Methods == Blake3 \cup LegacyMethods
Modes == {"packet-up", "stream-up", "stream-one"}

\* SsMethod::key_len; 0 stands for None.
KeyLen(method) ==
    CASE method = "blake3-aes128-gcm" -> 16
      [] method \in {"blake3-aes256-gcm", "blake3-chacha20-poly1305"} -> 32
      [] OTHER -> 0

Vless(uuid, flow)   == [kind |-> "vless", secret |-> uuid, flow |-> flow]
Vmess(uuid, cipher) == [kind |-> "vmess", secret |-> uuid, cipher |-> cipher]
Trojan(password)    == [kind |-> "trojan", secret |-> password]
Shadowsocks(method, password) ==
    [kind |-> "shadowsocks", secret |-> password, method |-> method]

Xhttp(mode, host) == [kind |-> "xhttp", host |-> host, mode |-> mode]
Transport(kind, host) == [kind |-> kind, host |-> host]   \* web-socket, http-upgrade
Hostless(kind) == [kind |-> kind]                         \* grpc, raw

HasHost(transport) == transport.kind \in {"xhttp", "web-socket", "http-upgrade"}

IsFramed(transport) == transport.kind # "raw"

ServableOnWorker(transport) == transport.kind \in {"xhttp", "web-socket"}

NoSecurity == [kind |-> "none"]
Tls(sni, fingerprint, insecure) ==
    [kind |-> "tls", sni |-> sni, fingerprint |-> fingerprint, insecure |-> insecure]
Reality(server_name, fingerprint, public_key) ==
    [kind |-> "reality", server_name |-> server_name, fingerprint |-> fingerprint,
     public_key |-> public_key]

\* Every text; those the code writes itself are named, since a prover takes no literal for one.
Strings ==
    STRING \cup {Absent, "", "host", "proxy"}
           \cup {"chrome", "firefox", "safari", "edge", "ios", "android", "random"}

\* A tag is a sequence of words and numbers, perhaps with white space around it.
Word(text) == [text |-> text, number |-> 0]
Number(n) == [text |-> "", number |-> n]
Tags == [words : Seq([text : Strings, number : Nat]), pad : BOOLEAN]

Secrets == [chars : Nat, pad : Nat, clean : BOOLEAN]

Protocols ==
    [kind : {"vless"}, secret : Secrets, flow : Flows]
      \cup [kind : {"vmess"}, secret : Secrets, cipher : Ciphers]
      \cup [kind : {"trojan"}, secret : Secrets]
      \cup [kind : {"shadowsocks"}, secret : Secrets, method : Methods]

Transports ==
    [kind : {"xhttp"}, host : Strings, mode : Modes]
      \cup [kind : {"web-socket", "http-upgrade"}, host : Strings]
      \cup [kind : {"grpc", "raw"}]

Securities ==
    [kind : {"none"}]
      \cup [kind : {"tls"}, sni : Strings, fingerprint : Strings, insecure : BOOLEAN]
      \cup [kind : {"reality"}, server_name : Strings, fingerprint : Strings, public_key : Strings]

Nodes == [tag : Tags, address : Strings, protocol : Protocols, transport : Transports,
          security : Securities, mux : BOOLEAN, via : Tags, served : BOOLEAN]

NeedsDurableObject(node) ==
    node.served /\ node.transport.kind = "xhttp" /\ node.transport.mode # "stream-one"

\* b64_decoded_len; -1 stands for None.
DecodedLen(secret) ==
    IF secret.chars = 0 \/ secret.chars % 4 # 0 \/ secret.pad > 2 \/ ~secret.clean
    THEN -1
    ELSE (secret.chars \div 4) * 3 - secret.pad

-----------------------------------------------------------------------------
(* Findings.                                                               *)

\* The order of Severity.
Rank == [Degraded |-> 1, Untranslatable |-> 2, Broken |-> 3, Fatal |-> 4]

BlocksSelection(severity) == severity \in {"Fatal", "Broken"}

\* "about" is the part of a finding's text that depends on the node.
Finding(severity, field, about) == [severity |-> severity, field |-> field, about |-> about]

When(condition, finding) == IF condition THEN {finding} ELSE {}

\* Restrictions of the Cloudflare runtime on nodes the Worker serves itself.
CheckWorkerServing(node) ==
    IF ~node.served THEN {}
    ELSE When(~ServableOnWorker(node.transport),
              Finding("Fatal", "transport", node.transport.kind))
         \cup When(node.transport.kind = "xhttp" /\ node.transport.mode # "packet-up",
                   Finding("Degraded", "xhttp_mode", "duplex"))
         \cup When(node.transport.kind = "web-socket",
                   Finding("Degraded", "transport", "fingerprinted"))

\* XTLS Vision, which needs a TLS record layer of its own and no framing.
CheckFlow(node, client) ==
    IF node.protocol.kind # "vless" \/ node.protocol.flow = "none" THEN {}
    ELSE When(IsFramed(node.transport), Finding("Broken", "flow", node.transport.kind))
         \cup When(node.security.kind = "none", Finding("Fatal", "flow", "no TLS"))
         \cup When(node.served, Finding("Broken", "flow", "CDN"))
         \cup When(node.protocol.flow = "vision-udp443" /\ CoreOf(client) # "Xray",
                   Finding("Untranslatable", "flow", "udp443"))
         \cup When(node.mux,
                   Finding(IF CoreOf(client) = "SingBox" THEN "Fatal" ELSE "Degraded",
                           "mux", "Vision"))

\* Whether the target can express the transport at all.
CheckTransportTranslation(node, client) ==
    IF node.transport.kind # "xhttp" THEN {}
    ELSE IF ~SupportsXhttp(client)
         THEN {Finding("Untranslatable", "transport", client)}
    ELSE When(CoreOf(client) = "Mihomo" /\ node.protocol.kind = "vmess",
              Finding("Untranslatable", "protocol", "XHTTP"))
         \cup When(node.protocol.kind = "shadowsocks" /\ CoreOf(client) # "Xray",
                   Finding("Broken", "protocol", CoreOf(client)))

\* TLS and REALITY.
CheckSecurity(node, client, enhanced) ==
    LET core == CoreOf(client)
    IN  CASE node.security.kind = "tls" ->
             When(node.security.insecure /\ core = "Xray",
                  Finding("Fatal", "allow_insecure", "removed"))
        [] node.security.kind = "reality" ->
             When(node.served, Finding("Fatal", "security", "CDN"))
             \cup When(node.transport.kind \notin {"xhttp", "grpc", "raw"},
                       Finding("Fatal", "security", node.transport.kind))
             \cup When(node.security.fingerprint = Absent /\ core = "Mihomo" /\ ~enhanced,
                       Finding("Broken", "fingerprint", "REALITY"))
        [] node.security.kind = "none" ->
             When(/\ node.address # "private"
                  /\ node.protocol.kind \in {"vless", "trojan"}
                  /\ core = "Xray",
                  Finding("Fatal", "security", "public address"))

\* Credentials and ciphers.
CheckProtocol(node, client) ==
    CASE node.protocol.kind = "shadowsocks" ->
         LET method == node.protocol.method
         IN  When(KeyLen(method) > 0 /\ DecodedLen(node.protocol.secret) # KeyLen(method),
                  Finding("Fatal", "password", method))
             \cup When(method = "blake3-chacha20-poly1305" /\ CoreOf(client) = "Xray",
                       Finding("Degraded", "method", "single user"))
      [] node.protocol.kind = "vmess" ->
         When(node.protocol.cipher = "zero" /\ CoreOf(client) = "Xray",
              Finding("Broken", "cipher", "ignored"))
      [] OTHER -> {}

CheckMux(node) == When(node.mux /\ node.served, Finding("Degraded", "mux", "isolate"))

\* check: everything that can go wrong with the node for this client.  The code returns a
\* list, most severe first; only its members and its worst entry are ever used.
Check(node, client, enhanced) ==
    UNION {CheckWorkerServing(node), CheckFlow(node, client),
           CheckTransportTranslation(node, client), CheckSecurity(node, client, enhanced),
           CheckProtocol(node, client), CheckMux(node)}

Blocking(findings) == {f \in findings : BlocksSelection(f.severity)}
=============================================================================
