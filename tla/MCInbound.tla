------------------------------ MODULE MCInbound ------------------------------
(* All four protocols, two Shadowsocks keys of different length, and every *)
(* way a header can be broken.                                             *)
EXTENDS Inbound

MCUserLists ==
    [Vless       |-> <<Entry("", "", 0), Entry("typo", "", 1), Entry("vera", "", 2)>>,
     Trojan      |-> <<Entry("tom", "", 0)>>,
     Vmess       |-> <<Entry("typo", "", 3), Entry("mia", "", 2)>>,
     Shadowsocks |-> <<Entry("typo", "Aes256Gcm", 2), Entry("sam", "Aes128Gcm", 2),
                       Entry("lea", "ChaCha20Poly1305", 4)>>]
MCSkew == [Vmess |-> 2, Shadowsocks |-> 1]
MCAges == {-3, 1}

User == [Vless |-> "vera", Trojan |-> "tom", Vmess |-> "mia", Shadowsocks |-> "lea"]

Honest ==
    {Client(k, User[k], h, "", 0, 0) : k \in {"Vless", "Trojan"}, h \in {"v4", "literal", "domain"}}
      \cup {Client("Vmess", "mia", "v6", "", 1, 0), Client("Vless", "vera", "v6", "", 0, 0)}
      \cup {Client("Shadowsocks", u, "domain", "", x, 1 - x) : u \in {"sam", "lea"}, x \in {0, 1}}

Options ==
    {[Client("Vmess", "mia", "domain", "", 0, 0) EXCEPT !.options = o] :
        o \in {{"stream"}, {"stream", "masking"}, {"masking"}, {"stream", "padding"},
               {"stream", "masking", "other"}}}
      \cup {[Client("Vmess", "mia", "v4", "", 0, 0) EXCEPT !.security = "none"]}

Declined ==
    {[Client("Vless", "vera", "v4", "", 0, 0) EXCEPT !.command = "mux"],
     [Client("Trojan", "tom", "v4", "", 0, 0) EXCEPT !.command = "udp"],
     [Client("Vmess", "mia", "v4", "", 0, 0) EXCEPT !.command = "udp"],
     Client("Vless", "vera", "v4", "", 1, 0), Client("Vmess", "mia", "domain", "", 4, 0)}

Strangers == {Client(k, "typo", "v4", "", 0, 0) : k \in Range(Kinds)}
Broken ==
    {Client(k, User[k], "domain", b, 0, 0) : k \in Range(Kinds), b \in {"type", "length", "name"}}
      \cup {Client(k, User[k], "v4", "command", 0, 0) : k \in {"Vless", "Trojan", "Vmess"}}
      \cup {Client("Trojan", "tom", "v4", "separator", 0, 0)}
      \cup {Client(k, User[k], "v4", b, 0, 0) :
              k \in {"Vmess", "Shadowsocks"}, b \in {"seal", "version", "short"}}

MCClients == Honest \cup Options \cup Declined \cup Strangers \cup Broken
=============================================================================
