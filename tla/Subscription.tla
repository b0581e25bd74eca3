----------------------------- MODULE Subscription -----------------------------
(***************************************************************************)
(* What a client receives: share links (subscription/uri.rs) and bundles   *)
(* (subscription/bundle.rs), with the verdicts the panel shows beside them *)
(* (advisor::matrix, api::client_view) and the node sets that can be saved *)
(* (api::validate).                                                        *)
(***************************************************************************)
EXTENDS Translation, Advisor

\* A link, or nothing when the node is refused.  Its server name is left to the client
\* unless the node has one; the ss:// form takes it from the plugin's host.
LinkTls(node, enhanced) ==
    CASE node.security.kind = "tls" ->
         [kind |-> "tls", name |-> node.security.sni, alpn |-> "h2",
          fingerprint |-> IF node.security.fingerprint = Absent
                          THEN Completed(Absent, enhanced) ELSE node.security.fingerprint]
      [] node.security.kind = "reality" ->
         [kind |-> "reality", name |-> node.security.server_name,
          fingerprint |-> IF node.security.fingerprint = Absent
                          THEN Completed(Absent, enhanced) ELSE node.security.fingerprint]
      [] node.security.kind = "none" -> [kind |-> "none"]

\* shadowsocks: the name is the transport's host, else the server name, else left out.
SsLinkTls(node) ==
    IF node.transport.kind = "raw" \/ node.security.kind # "tls" THEN [kind |-> "none"]
    ELSE [kind |-> "tls",
          name |-> IF node.transport.host \notin {Absent, ""} THEN node.transport.host
                   ELSE IF node.security.sni # "" THEN node.security.sni ELSE Absent]

\* to_uri.
Link(node, client, enhanced) ==
    LET shadowsocks == node.protocol.kind = "shadowsocks"
    IN  IF \/ ~Passes(node, client, enhanced)
           \/ shadowsocks /\ node.transport.kind \notin {"raw", "web-socket"}
        THEN <<>>
        ELSE <<[tag |-> node.tag, address |-> node.address, protocol |-> node.protocol,
               transport |-> node.transport,
               tls |-> IF shadowsocks THEN SsLinkTls(node) ELSE LinkTls(node, enhanced)]>>

\* emit: a node on its own, as the core of the client is given it.
Emitted(node, client, enhanced) ==
    CASE CoreOf(client) = "Xray"    -> XrayDocument(<<node>>, client, enhanced)
      [] CoreOf(client) = "SingBox" -> SingBoxOutbound(node, client, SingBoxTag(node), enhanced)
      [] CoreOf(client) = "Mihomo"  -> MihomoProxy(node, client, enhanced)

\* mutant: nodes are tried as if the fingerprint they lack were filled in
BugTrialEnhanced(node, client) == Emitted(node, client, TRUE) # <<>>

\* emit_one: whether a document with this node alone can be rendered.  Enhanced
\* reachability is off here, whatever the document will be rendered with.
EmitOne(node, client) == Emitted(node, client, FALSE) # <<>>

Document(nodes, client, enhanced) ==
    CASE CoreOf(client) = "Xray"    -> XrayDocument(nodes, client, enhanced)
      [] CoreOf(client) = "SingBox" -> SingBoxDocument(nodes, client, enhanced)
      [] CoreOf(client) = "Mihomo"  -> MihomoDocument(nodes, client, enhanced)

\* A bundle: what it holds, how many nodes it says it holds, and who is left out.
Bundle(body, included, skipped) == [body |-> body, included |-> included, skipped |-> skipped]

ShareLinks(nodes, client, enhanced) ==
    LET links == FlattenSeq([i \in DOMAIN nodes |-> Link(nodes[i], client, enhanced)])
    IN  Bundle(links, Len(links),
               {i \in DOMAIN nodes : Link(nodes[i], client, enhanced) = <<>>})

\* full_config: each node is tried alone, and those that pass are rendered together.
FullConfig(nodes, client, enhanced) ==
    LET usable == FlattenSeq([i \in DOMAIN nodes |->
                                IF EmitOne(nodes[i], client) THEN <<nodes[i]>> ELSE <<>>])
    IN  Bundle(Document(usable, client, enhanced), Len(usable),
               {i \in DOMAIN nodes : ~EmitOne(nodes[i], client)})

Render(nodes, client, shape, enhanced) ==
    IF shape = "full config" THEN FullConfig(nodes, client, enhanced)
    ELSE ShareLinks(nodes, client, enhanced)

\* mutant: the verdict is asked with the toggle on
BugVerdictEnhanced(node, client) == Link(node, client, TRUE) # <<>>

\* matrix: the verdict that a share link can be produced.
Exportable(node, client) == Link(node, client, FALSE) # <<>>

\* What the panel offers for a client: a subscription URL when a link can be made for some
\* node, a download when the whole document renders.
ClientView(nodes, client, enhanced) ==
    LET links == ShareLinks(nodes, client, enhanced)
    IN  [subscription |-> links.included > 0,
         config |-> FullConfig(nodes, client, enhanced).body # <<>>,
         included |-> links.included, skipped |-> links.skipped]

\* What it says of one node: the links it can show, and every client's verdict.
NodeView(node, enhanced) ==
    [links |-> {c \in Clients : Link(node, c, enhanced) # <<>>},
     matrix |-> [c \in Clients |-> [exportable |-> Exportable(node, c),
                                    findings |-> Check(node, c, enhanced)]]]

\* api::state.  Where the settings came from, the warning and the revision are in PanelStore.
State(nodes, enhanced) ==
    [nodes |-> nodes,
     views |-> [i \in DOMAIN nodes |-> NodeView(nodes[i], enhanced)],
     clients |-> [c \in Clients |-> ClientView(nodes, c, enhanced)]]

-----------------------------------------------------------------------------
(* Node sets.                                                              *)

\* derive_from_env: a node for the first credential of each list, whatever it is worth.  A
\* list is what it holds besides blanks; a Shadowsocks entry needs a method the model knows.
DeriveFromEnv(deployment) ==
    LET keys == deployment.shadowsocks
        served(name, list, protocol) ==
            IF list = <<>> THEN <<>>
            ELSE <<[BlankNode([words |-> Name("host") \o Name(name), pad |-> FALSE], Absent)
                      EXCEPT !.protocol = protocol]>>
    IN  IF ~deployment.addressed THEN <<>>   \* no host, or no path
        ELSE served("VLESS", deployment.vless, Vless(deployment.vless[1], "none"))
             \o served("Trojan", deployment.trojan, Trojan(deployment.trojan[1]))
             \o served("VMess", deployment.vmess, Vmess(deployment.vmess[1], "auto"))
             \o served("Shadowsocks",
                       IF keys # <<>> /\ keys[1].method \in Blake3 THEN keys ELSE <<>>,
                       Shadowsocks(keys[1].method, keys[1].secret))

\* validate: what the panel saves.  The limit on the number of nodes is left out.
Valid(nodes) ==
    /\ \A i \in DOMAIN nodes : nodes[i].tag.words # <<>> /\ nodes[i].address # ""
    /\ \A i, j \in DOMAIN nodes : nodes[i].tag = nodes[j].tag => i = j
    /\ \A i \in DOMAIN nodes :
          nodes[i].via # NoTag =>
             nodes[i].via # nodes[i].tag /\ \E j \in DOMAIN nodes : nodes[j].tag = nodes[i].via
=============================================================================
