----------------------------- MODULE Translation -----------------------------
(***************************************************************************)
(* The translation of nodes to the configuration of the three cores        *)
(* (translate/mod.rs, util.rs, xray.rs, singbox.rs, mihomo.rs).            *)
(*                                                                         *)
(* An emitter turns a node into an outbound or refuses it, so its result   *)
(* is a sequence of at most one.  An outbound keeps what decides how       *)
(* the connection is made: tag, credential, transport, the names and the   *)
(* handshake it presents, the hop it dials through, and the fields whose   *)
(* loss the emitter reports (dropped).  A document is the sequence of its  *)
(* node outbounds, <<>> when it is refused; the fixed parts around them    *)
(* (DNS, inbounds, private ranges) are left out, and so are the JSON and   *)
(* YAML they are written in.  ALPN lists a user types in are left out:     *)
(* every emitter passes them through.                                      *)
(***************************************************************************)
EXTENDS NodeModel, SequencesExt

NoTag == [words |-> <<>>, pad |-> FALSE]   \* an empty tag, and None for a hop

\* A tag without the white space around it.
Trim(tag) == tag.words

Name(word) == <<Word(word)>>

-----------------------------------------------------------------------------
(* What the emitters share.                                                *)

Passes(node, client, enhanced) ==
    \A f \in Check(node, client, enhanced) : f.severity = "Degraded"

\* gate: the fields it reports as degraded, when it lets the node through.
Degradations(node, client, enhanced) == {f.field : f \in Check(node, client, enhanced)}

IsIp(address) == address \in {"ip", "private"}

\* The host a transport presents: its own, or the server's address.
TransportHost(node) ==
    IF HasHost(node.transport) /\ node.transport.host \notin {Absent, ""}
    THEN node.transport.host
    ELSE node.address

\* util::effective_sni: the first name there is, and never an IP literal.
EffectiveSni(node) ==
    LET pick == IF node.security.sni \notin {Absent, ""} THEN node.security.sni
                ELSE TransportHost(node)
    IN  IF pick = "" \/ IsIp(pick) THEN Absent ELSE pick

\* h2 where the transport multiplexes over it, nothing where it upgrades HTTP/1.1.
DefaultAlpn(transport) == IF transport.kind \in {"xhttp", "grpc"} THEN "h2" ELSE Absent

\* A fingerprint the node lacks is filled in when enhanced reachability is on.
Completed(fingerprint, enhanced) ==
    IF fingerprint \in {Absent, ""} /\ enhanced THEN "chrome" ELSE fingerprint

\* mutant: a suffix that is taken is not tried again
BugOneSuffix(taken, base) == IF base \in taken THEN Append(base, Number(2)) ELSE base

\* The first of base, base-2, base-3, ... that is not taken.
FreeTag(taken, base) ==
    IF base \notin taken THEN base
    ELSE LET free == {n \in 2..(Cardinality(taken) + 2) : Append(base, Number(n)) \notin taken}
         IN  Append(base, Number(CHOOSE n \in free : \A k \in free : n <= k))

\* util::unique_tags: each node takes the first tag that no node before it has taken.
UniqueTags(nodes, reserved, fallback) ==
    LET base(node) == IF Trim(node.tag) = <<>> THEN fallback ELSE Trim(node.tag)
        tags[n \in 0..Len(nodes)] ==
            IF n = 0 THEN <<>>
            ELSE Append(tags[n - 1], FreeTag(reserved \cup Range(tags[n - 1]), base(nodes[n])))
    IN  tags[Len(nodes)]

-----------------------------------------------------------------------------
(* Xray.                                                                   *)

XrayReserved == {Name("socks-in"), Name("direct")}

\* The handshake: an empty server name is passed on as it is, an address as well.
XrayTls(node, enhanced) ==
    CASE node.security.kind = "tls" ->
         [kind |-> "tls",
          name |-> IF node.security.sni = Absent THEN TransportHost(node) ELSE node.security.sni,
          alpn |-> DefaultAlpn(node.transport),
          fingerprint |-> Completed(node.security.fingerprint, enhanced),
          insecure |-> FALSE, fragment |-> enhanced]
      [] node.security.kind = "reality" ->
         [kind |-> "reality", name |-> node.security.server_name,
          fingerprint |-> Completed(node.security.fingerprint, enhanced), fragment |-> enhanced]
      [] node.security.kind = "none" -> [kind |-> "none"]

\* outbound: rendering refuses nothing, since the gate has refused already.
XrayOutbound(node, known, client, enhanced) ==
    [tag |-> Trim(node.tag), address |-> node.address, protocol |-> node.protocol,
     transport |-> node.transport, host |-> TransportHost(node),
     tls |-> XrayTls(node, enhanced), mux |-> node.mux, via |-> node.via,
     dropped |-> Degradations(node, client, enhanced)
                 \cup IF node.via # NoTag /\ (node.via.pad \/ Trim(node.via) \notin known)
                      THEN {"chain_via"} ELSE {}]

\* check_tags: a tag that is empty, reserved or used twice refuses the whole document.
XrayTagsUsable(nodes) ==
    LET tags == [i \in DOMAIN nodes |-> Trim(nodes[i].tag)]
    IN  /\ \A i \in DOMAIN tags : tags[i] # <<>> /\ tags[i] \notin XrayReserved
        /\ \A i, j \in DOMAIN tags : tags[i] = tags[j] => i = j

\* mutant: tags are not checked
BugTagsUnchecked(nodes, client, enhanced) ==
    IF \A i \in DOMAIN nodes : Passes(nodes[i], client, enhanced)
    THEN [i \in DOMAIN nodes |-> XrayOutbound(nodes[i], {}, client, enhanced)]
    ELSE <<>>

\* emit_nodes: one node that is refused refuses the document.
XrayDocument(nodes, client, enhanced) ==
    LET known == {Trim(nodes[i].tag) : i \in DOMAIN nodes}
    IN  IF /\ CoreOf(client) = "Xray" /\ XrayTagsUsable(nodes)
           /\ \A i \in DOMAIN nodes : Passes(nodes[i], client, enhanced)
        THEN [i \in DOMAIN nodes |-> XrayOutbound(nodes[i], known, client, enhanced)]
        ELSE <<>>

-----------------------------------------------------------------------------
(* sing-box.                                                               *)

SingBoxReserved == {Name("direct"), Name("select")}

\* mutant: the server's address comes before the host of the transport
BugServerBeforeHost(node, enhanced) ==
    CASE node.security.kind = "tls" ->
         [kind |-> "tls",
          name |-> IF node.security.sni \notin {Absent, ""} THEN node.security.sni
                   ELSE IF IsIp(node.address) THEN Absent ELSE node.address,
          alpn |-> DefaultAlpn(node.transport),
          fingerprint |-> Completed(node.security.fingerprint, enhanced),
          insecure |-> node.security.insecure]
      [] OTHER -> [kind |-> node.security.kind]

\* tls_block: REALITY always has a fingerprint here.
SingBoxTls(node, enhanced) ==
    CASE node.security.kind = "tls" ->
         [kind |-> "tls", name |-> EffectiveSni(node), alpn |-> DefaultAlpn(node.transport),
          fingerprint |-> Completed(node.security.fingerprint, enhanced),
          insecure |-> node.security.insecure]
      [] node.security.kind = "reality" ->
         [kind |-> "reality", name |-> node.security.server_name,
          fingerprint |-> Completed(node.security.fingerprint, TRUE)]
      [] node.security.kind = "none" -> [kind |-> "none"]

\* Shadowsocks travels bare, where TLS is lost, or in a plugin that speaks WebSocket
\* and takes its server name from the host.
CarriesShadowsocks(node) ==
    \/ node.transport.kind = "raw"
    \/ node.transport.kind = "web-socket" /\ node.security.kind # "reality"

PluginTls(node) ==
    IF node.transport.kind = "raw" \/ node.security.kind = "none" THEN [kind |-> "none"]
    ELSE [kind |-> "tls", name |-> TransportHost(node), fingerprint |-> Absent]

\* The fields a sing-box outbound cannot carry, or carries with a warning.
SingBoxDropped(node) ==
    LET tls == node.security.kind = "tls"
    IN  UNION {
        IF node.protocol.kind # "shadowsocks" THEN {}
        ELSE IF node.transport.kind = "raw" /\ node.security.kind # "none" THEN {"security"}
        ELSE IF tls /\ (node.security.sni # Absent \/ node.security.fingerprint # Absent
                          \/ node.security.insecure)
             THEN {"security"} ELSE {},
        IF node.transport.kind \in {"web-socket", "xhttp"} THEN {"transport"} ELSE {},
        IF node.protocol.kind # "shadowsocks" /\ tls /\ node.security.insecure
        THEN {"allow_insecure"} ELSE {},
        IF node.security.kind = "reality" /\ node.security.fingerprint = Absent
        THEN {"fingerprint"} ELSE {},
        IF node.via # NoTag THEN {"chain_via"} ELSE {}}

\* proxy_outbound.
SingBoxOutbound(node, client, tag, enhanced) ==
    LET shadowsocks == node.protocol.kind = "shadowsocks"
        refused == \/ node.protocol.kind = "vless" /\ node.protocol.flow = "vision-udp443"
                   \/ shadowsocks /\ ~CarriesShadowsocks(node)
                   \/ node.transport.kind = "xhttp" /\ ~SupportsXhttp(client)
    IN  IF refused \/ ~Passes(node, client, enhanced) THEN <<>>
        ELSE <<[tag |-> tag, address |-> node.address, protocol |-> node.protocol,
                transport |-> node.transport, host |-> TransportHost(node),
               tls |-> IF shadowsocks THEN PluginTls(node) ELSE SingBoxTls(node, enhanced),
               mux |-> node.mux, via |-> node.via,
               dropped |-> Degradations(node, client, enhanced) \cup SingBoxDropped(node)]>>

\* outbound_tag, of a document with one node.
SingBoxTag(node) ==
    CASE Trim(node.tag) = <<>>           -> Name("proxy")
      [] Trim(node.tag) = Name("direct") -> Name("direct-proxy")
      [] OTHER                           -> Trim(node.tag)

\* The nodes that are refused are reported, not fatal.
SingBoxDocument(nodes, client, enhanced) ==
    LET tags == UniqueTags(nodes, SingBoxReserved, Name("proxy"))
    IN  IF CoreOf(client) # "SingBox" THEN <<>>
        ELSE FlattenSeq([i \in DOMAIN nodes |->
                           SingBoxOutbound(nodes[i], client, tags[i], enhanced)])

-----------------------------------------------------------------------------
(* mihomo.                                                                 *)

MihomoBuiltIn == {Name("DIRECT"), Name("REJECT"), Name("REJECT-DROP"), Name("PASS"),
                  Name("COMPATIBLE")}
MihomoReserved == {Name("PROXY"), Name("DIRECT")}

\* The fingerprints mihomo knows.
Known == {"chrome", "firefox", "safari", "ios", "android", "edge", "360", "qq", "random",
          "randomized"}

\* reality: what cannot be dialled is refused, since mihomo would not report it.
MihomoReality(security, enhanced) ==
    /\ security.public_key # ""
    /\ Completed(security.fingerprint, enhanced) \in Known
    /\ security.server_name # ""

MihomoTls(node, enhanced) ==
    CASE node.security.kind = "tls" ->
         [kind |-> "tls",
          name |-> IF node.security.sni \notin {Absent, ""} THEN node.security.sni
                   ELSE TransportHost(node),
          alpn |-> IF node.transport.kind = "xhttp" THEN "h2" ELSE Absent,
          fingerprint |-> IF node.security.fingerprint = Absent
                          THEN Completed(Absent, enhanced)
                          ELSE IF node.security.fingerprint \in Known
                          THEN node.security.fingerprint ELSE Absent,
          insecure |-> node.security.insecure]
      [] node.security.kind = "reality" ->
         [kind |-> "reality", name |-> node.security.server_name,
          fingerprint |-> Completed(node.security.fingerprint, enhanced)]
      [] node.security.kind = "none" -> [kind |-> "none"]

\* The name mihomo is given: check_name.
MihomoNameUsable(tag) == tag # NoTag /\ (tag.pad \/ tag.words \notin MihomoBuiltIn)

\* XHTTP exists for VLESS only; Shadowsocks travels as it does in sing-box.
MihomoCarries(node) ==
    CASE node.protocol.kind = "vless" -> TRUE
      [] node.protocol.kind \in {"vmess", "trojan"} -> node.transport.kind # "xhttp"
      [] node.protocol.kind = "shadowsocks" -> CarriesShadowsocks(node)

MihomoDropped(node) ==
    LET shadowsocks == node.protocol.kind = "shadowsocks"
    IN  UNION {
        IF node.via # NoTag THEN {"chain_via"} ELSE {},
        IF \/ shadowsocks /\ node.transport.kind = "raw" /\ node.security.kind # "none"
           \/ node.protocol.kind = "trojan" /\ node.security.kind = "none"
        THEN {"security"} ELSE {},
        IF /\ node.security.kind = "tls" /\ node.security.fingerprint # Absent
           /\ IF shadowsocks THEN node.transport.kind = "web-socket"
              ELSE node.security.fingerprint \notin Known
        THEN {"fingerprint"} ELSE {},
        IF node.transport.kind = "web-socket" THEN {"heartbeat_secs"} ELSE {},
        IF node.mux /\ node.served THEN {"mux"} ELSE {}}

\* smux: streams are multiplexed to other servers only.
Smux(node) == node.mux /\ ~node.served

\* proxy_block, behind the gate.  It never chains.
MihomoProxy(node, client, enhanced) ==
    LET shadowsocks == node.protocol.kind = "shadowsocks"
        refused == \/ ~MihomoNameUsable(node.tag)
                   \/ ~MihomoCarries(node)
                   \/ /\ ~shadowsocks /\ node.security.kind = "reality"
                      /\ ~MihomoReality(node.security, enhanced)
    IN  IF refused \/ ~Passes(node, client, enhanced) THEN <<>>
        ELSE <<[tag |-> Trim(node.tag), address |-> node.address, protocol |-> node.protocol,
               transport |-> node.transport, host |-> TransportHost(node),
               tls |-> IF shadowsocks THEN PluginTls(node) ELSE MihomoTls(node, enhanced),
               mux |-> Smux(node), via |-> NoTag,
               dropped |-> Degradations(node, client, enhanced) \cup MihomoDropped(node)]>>

MihomoDocument(nodes, client, enhanced) ==
    LET tags == UniqueTags(nodes, MihomoReserved, Name("proxy"))
        renamed == [i \in DOMAIN nodes |->
                      [nodes[i] EXCEPT !.tag = [words |-> tags[i], pad |-> FALSE]]]
    IN  IF CoreOf(client) # "Mihomo" THEN <<>>
        ELSE FlattenSeq([i \in DOMAIN nodes |-> MihomoProxy(renamed[i], client, enhanced)])
=============================================================================
