----------------------------- MODULE PanelEditor -----------------------------
(***************************************************************************)
(* The operator at work in the panel: one connection is open in the editor *)
(* beside others that stay as they are, each edit is one POST to the       *)
(* Worker (api::edit, advisor::apply), and every answer carries the advice *)
(* for the client chosen in the editor and, on a save, the bundles every   *)
(* client will receive.  The page offers what Controls and Offered say;    *)
(* text fields take one of Texts.                                          *)
(***************************************************************************)
EXTENDS Subscription

CONSTANTS
    NodeSets,   \* the connections the operator may start from; the last is open
    Texts,      \* what is typed into each text field
    Targets,    \* the clients looked at
    MaxEdits    \* bound: edits made

TextFields == {"tag", "address", "uuid", "password", "host", "sni", "server_name", "public_key"}

ASSUME EditorAssumption ==
    /\ NodeSets \subseteq Seq(Nodes) \ {<<>>} /\ Targets \subseteq Clients /\ MaxEdits \in Nat
    /\ DOMAIN Texts \subseteq TextFields
    /\ \A field \in DOMAIN Texts :
          Texts[field] \subseteq CASE field = "tag"                 -> Tags
                                   [] field \in {"uuid", "password"} -> Secrets
                                   [] OTHER                          -> Strings

VARIABLES nodes, client, enhanced, edits
editorVars == <<nodes, client, enhanced, edits>>

node == nodes[Len(nodes)]   \* the one that is open

EditorTypeOK ==
    /\ nodes \in Seq(Nodes) \ {<<>>}
    /\ client \in Targets /\ enhanced \in BOOLEAN /\ edits \in 0..MaxEdits

EditorInit ==
    /\ nodes \in NodeSets
    /\ client \in Targets
    /\ enhanced \in BOOLEAN
    /\ edits = 0

Edit(field, value) ==
    /\ edits < MaxEdits
    /\ field \in Controls(node)
    /\ nodes' = [nodes EXCEPT ![Len(nodes)] = Apply(node, field, value)]
    /\ edits' = edits + 1
    /\ UNCHANGED <<client, enhanced>>

\* An option is picked, out of those that are not blocked.
Choose ==
    \E field \in Selects \cap Controls(node) :
        \E value \in Offered(node, field, client, enhanced) : Edit(field, value)

Type == \E field \in DOMAIN Texts : \E value \in Texts[field] : Edit(field, value)

Toggle ==
    \/ Edit("mux", ~node.mux)
    \/ node.security.kind = "tls" /\ Edit("allow_insecure", ~node.security.insecure)

\* The editor is pointed at another client; the node stays as it is.
SwitchClient ==
    /\ client' \in Targets \ {client}
    /\ UNCHANGED <<nodes, enhanced, edits>>

EditorNext == Choose \/ Type \/ Toggle \/ SwitchClient

EditorSpec == EditorInit /\ [][EditorNext]_editorVars

-----------------------------------------------------------------------------
(* The editor.                                                             *)

\* An option the editor does not block breaks nothing the node did not already suffer
\* from: findings are attributed to the control that causes them (advisor.rs:16-22).
ChoiceNeverBreaks ==
    \A field \in Selects \cap Controls(node) :
        \A value \in Offered(node, field, client, enhanced) :
            Blocking(FindingsWith(node, field, value, client, enhanced))
               \subseteq Blocking(Check(node, client, enhanced))

\* What the operator can do about a node: pick an option, or correct a field.
Repairs ==
    (UNION {{<<field, value>> : value \in Offered(node, field, client, enhanced)} :
               field \in Selects \cap Controls(node)})
    \cup (IF "password" \in Controls(node) THEN {"password"} \X Texts["password"] ELSE {})
    \cup {<<"allow_insecure", FALSE>>, <<"mux", FALSE>>}

\* No client leaves the operator in a corner: as long as something blocks the node, one
\* more edit the editor allows removes a blocking finding and adds none.
CanBeRepaired ==
    LET now == Blocking(Check(node, client, enhanced))
    IN  now # {} =>
          \E repair \in Repairs :
             LET then == Blocking(FindingsWith(node, repair[1], repair[2], client, enhanced))
             IN  then \subseteq now /\ then # now

-----------------------------------------------------------------------------
(* What the clients receive.                                               *)

\* The verdict is asked with the toggle off and holds for both of its settings: a client the
\* matrix calls exportable is shown a link, and offered a subscription that counts it.
VerdictHolds ==
    \A toggle \in BOOLEAN :
        LET shown == State(nodes, toggle)
            exportable == {i \in DOMAIN nodes : shown.views[i].matrix[client].exportable}
        IN  /\ \A i \in exportable : client \in shown.views[i].links
            /\ exportable # {} => shown.clients[client].subscription
            /\ shown.clients[client].included >= Cardinality(exportable)

\* What a core makes of the included nodes once the white space around their tags is gone:
\* two that Xray cannot tell apart, for which it refuses the document (xray.rs:240), or one
\* with a name mihomo keeps for itself, which was let through for its white space
\* (mihomo.rs:236).  The panel saves such tags (api.rs:331-355).
SpaceConfuses(included) ==
    \/ CoreOf(client) = "Xray"
       /\ \E i, j \in included : i # j /\ Trim(nodes[i].tag) = Trim(nodes[j].tag)
    \/ CoreOf(client) = "Mihomo"
       /\ \E i \in included :
             nodes[i].tag.pad /\ Trim(nodes[i].tag) \in MihomoBuiltIn \ MihomoReserved

\* A bundle holds as many connections as it says it includes, and a download is offered
\* exactly when it holds one: rendering together the nodes that passed one by one neither
\* refuses the document nor loses one of them.  bundle.rs:61-62 promises that without
\* exception; the code keeps it unless white space alone tells tags from one another, or
\* from a reserved name.
IncludedIsEmitted ==
    LET bundle == FullConfig(nodes, client, enhanced)
    IN  Valid(nodes) /\ ~SpaceConfuses(DOMAIN nodes \ bundle.skipped) =>
          /\ Len(bundle.body) = bundle.included
          /\ ClientView(nodes, client, enhanced).config <=> bundle.included > 0

\* The tags of a document are pairwise different and none is taken by a part every
\* document has: a core refuses the whole file otherwise.
DocumentTagsUnique ==
    LET document == Document(nodes, client, enhanced)
        reserved == CASE CoreOf(client) = "Xray"    -> XrayReserved
                      [] CoreOf(client) = "SingBox" -> SingBoxReserved
                      [] CoreOf(client) = "Mihomo"  -> MihomoReserved
    IN  \A i \in DOMAIN document :
           /\ document[i].tag \notin reserved
           /\ \A j \in DOMAIN document : document[j].tag = document[i].tag => i = j

\* One connection presents one server name whichever client dials it (util.rs:58-73): the
\* one the node gives, or else the host, as long as that is a name and not an address.
\* The code does not keep this for Shadowsocks with a server name of its own: the plugin
\* that carries it in sing-box and mihomo presents the host (singbox.rs:446, mihomo.rs:392),
\* Xray the server name.
SameNameEverywhere ==
    LET host  == TransportHost(node)
        given == IF node.security.sni = Absent THEN host ELSE node.security.sni
    IN  /\ node.security.kind = "tls" /\ given # Empty /\ ~IsIp(given)
        /\ node.protocol.kind = "shadowsocks" => given = host
        => \A outbound \in Range(Emitted(node, client, enhanced)) :
              outbound.tls.kind = "tls" => outbound.tls.name = given
=============================================================================
