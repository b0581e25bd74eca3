---------------------------- MODULE MCPanelEditor ----------------------------
(* One connection in the editor, and what stands beside it.                *)
EXTENDS PanelEditor

Secret(chars, pad) == [chars |-> chars, pad |-> pad, clean |-> TRUE]
Uuid == Secret(36, 0)
Key16 == Secret(24, 2)
Key32 == Secret(44, 1)

Tag(words) == [words |-> words, pad |-> FALSE]
Spaced(words) == [words |-> words, pad |-> TRUE]

\* The neighbour has the name sing-box would give a node called "direct".
Neighbour == BlankNode(Tag(Append(Name("direct"), Number(2))), Uuid)

New == BlankNode(Tag(Name("new")), Uuid)

\* A deployment nobody has customised: the editor has its Shadowsocks connection open.
Derived ==
    DeriveFromEnv([addressed |-> TRUE, vless |-> <<Uuid>>, trojan |-> <<>>, vmess |-> <<>>,
                   shadowsocks |-> <<[method |-> "blake3-aes256-gcm", secret |-> Key32],
                                     [method |-> "blake3-aes128-gcm", secret |-> Key16]>>])

\* Connections to other servers, which a save of the whole document may hold.
Vision == [New EXCEPT !.protocol = Vless(Uuid, "vision"), !.transport = Hostless("raw"),
                      !.security = Reality("front", "chrome", "key"), !.served = FALSE,
                      !.via = Neighbour.tag]
Twice == [New EXCEPT !.protocol = Vmess(Uuid, "zero"), !.transport = Transport("web-socket", Absent),
                     !.security = Reality("front", Absent, "key"), !.served = FALSE]

\* Neighbours with white space around their tags: one is a word of mihomo's, the other the
\* tag of the connection in the editor.
Padded == <<BlankNode(Spaced(Name("REJECT")), Uuid), BlankNode(Spaced(New.tag.words), Uuid)>>

MCNodeSets == {<<Neighbour, New>>, <<Neighbour, Vision>>, Append(Padded, Twice), Derived}

MCTexts ==
    [tag |-> {Spaced(Name("direct")), Tag(Name("DIRECT"))}, address |-> {"ip", "private"},
     password |-> {Key16, Key32}, host |-> {"", "cdn"}, sni |-> {"", "front"},
     server_name |-> {""}, public_key |-> {"key"}]

MCTargets == {"v2rayn", "hiddify", "sing-box", "mihomo"}
=============================================================================
