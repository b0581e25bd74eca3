------------------------------ MODULE Detection ------------------------------
(***************************************************************************)
(* What the bytes of a client are taken for: the credentials read from the *)
(* bindings (config/env.rs), the reader (protocol/mod.rs), addresses       *)
(* (addr.rs), the four parsers and the detector that tries them in turn    *)
(* (detect.rs).                                                            *)
(*                                                                         *)
(* A client is a record of what it says; its bytes are counted in units of *)
(* about eight, which keeps the order in which the parsers decide.  A      *)
(* parser is a sequence of fields: how much it takes, and whether it       *)
(* accepts what it finds there.                                            *)
(***************************************************************************)
EXTENDS Integers, Sequences, FiniteSetsExt, SequencesExt

CONSTANTS
    UserLists,  \* the entries of the bindings, per protocol
    MaxSealed   \* the longest VMess header, MAX_HEADER_LEN

Kinds == <<"Vless", "Trojan", "Vmess", "Shadowsocks">>

ASSUME DetectionAssumption ==
    /\ UserLists \in [Range(Kinds) -> Seq([name : STRING, method : STRING, key : Nat])]
    /\ MaxSealed \in Nat

\* The widths of what is read at once.
Uuid == 2
Key == 6
Prefix == 5
Fixed == 4
Tag == 1

\* An entry of a binding: key is the length of what its text decodes to; a blank one has no name.
Entry(name, method, key) == [name |-> name, method |-> method, key |-> key]

\* Method::key_len, which is the length of the salt too.
KeyLen == [Aes128Gcm |-> 2, Aes256Gcm |-> 4, ChaCha20Poly1305 |-> 4]

\* uuid::parse, key_for and Credential::new: what makes an entry a credential.
Usable(kind, entry) ==
    \/ kind = "Trojan"
    \/ kind \in {"Vless", "Vmess"} /\ entry.key = Uuid
    \/ kind = "Shadowsocks" /\ entry.method \in DOMAIN KeyLen /\ entry.key = KeyLen[entry.method]

\* credentials_from_env: blank and malformed entries are passed over.
Positions(kind) ==
    {i \in DOMAIN UserLists[kind] :
        UserLists[kind][i].name # "" /\ Usable(kind, UserLists[kind][i])}
Credentials(kind) == {UserLists[kind][i] : i \in Positions(kind)}
Enabled == {kind \in Range(Kinds) : Credentials(kind) # {}}
Known(kind, user) == \E entry \in Credentials(kind) : entry.name = user

\* A client: broken is what is wrong with its header, extra its addons or padding, and
\* initial the payload inside a Shadowsocks header.
Client(protocol, user, host, broken, extra, initial) ==
    [protocol |-> protocol, user |-> user, zero |-> protocol = "Vless", host |-> host,
     broken |-> broken, extra |-> extra, initial |-> initial, command |-> "tcp",
     security |-> "aes128gcm", options |-> {"stream", "masking", "padding"}]

-----------------------------------------------------------------------------
(* The reader.                                                             *)

Field(units, ok) == [units |-> units, ok |-> ok]
Verdict(verdict, header) == [verdict |-> verdict, header |-> header]

\* Where the reader stands after the first i fields.
End(fields, i) ==
    LET end[n \in 0..i] == IF n = 0 THEN 0 ELSE end[n - 1] + fields[n].units
    IN  end[i]

\* Reader: the first field that is short or refused decides.
Read(fields, len) ==
    LET stops == {i \in DOMAIN fields : End(fields, i) > len \/ ~fields[i].ok}
    IN  IF stops = {} THEN Verdict("ok", End(fields, Len(fields)))
        ELSE Verdict(IF End(fields, Min(stops)) > len THEN "incomplete" ELSE "rejected", 0)

\* A header sealed as a whole is read again from the inside, where nothing more comes.
Within(outer, fields, len) ==
    IF outer.verdict # "ok" \/ Read(fields, len).verdict = "ok" THEN outer ELSE Read(fields, len)

-----------------------------------------------------------------------------
(* Addresses.                                                              *)

\* The two tables of address types.
TypeByte == [Vless  |-> [v4 |-> 1, domain |-> 2, v6 |-> 3],
             Socks5 |-> [v4 |-> 1, domain |-> 3, v6 |-> 4]]
Slots == {"v4", "domain", "v6"}
\* A client may write an address in the domain's slot, where it is read as what it is.
Slot(host) == IF host = "literal" THEN "domain" ELSE host
Meant(host) == IF host = "literal" THEN "v4" ELSE host

\* The table a client writes its address with.
Speaks(protocol) == IF protocol \in {"Vless", "Vmess"} THEN "Vless" ELSE "Socks5"

\* The slot the type byte of a client stands for in a table, as a set with at most one.
SlotRead(kind, c) ==
    {slot \in Slots :
        c.broken # "type" /\ TypeByte[kind][slot] = TypeByte[Speaks(c.protocol)][Slot(c.host)]}

\* read_host.
HostFields(kind, c) ==
    CASE SlotRead(kind, c) = {"v4"} -> <<Field(1, TRUE), Field(1, TRUE)>>
      [] SlotRead(kind, c) = {"v6"} -> <<Field(1, TRUE), Field(2, TRUE)>>
      [] SlotRead(kind, c) = {"domain"} ->
         <<Field(1, TRUE), Field(1, c.broken # "length"), Field(1, c.broken # "name")>>
      [] OTHER -> <<Field(1, FALSE)>>

-----------------------------------------------------------------------------
(* The parsers, on the first len units of a client; fresh says whether its *)
(* timestamp is within the window.                                         *)

Mine(kind, c) == c.protocol = kind /\ Known(kind, c.user)
Command(c) == Field(1, c.broken # "command")
Port == Field(1, TRUE)

Vless(c, len, fresh) ==
    Read(<<Field(1, c.zero), Field(Uuid, Mine("Vless", c)), Field(1 + c.extra, TRUE), Command(c)>>
           \o (IF c.command = "mux" THEN <<>> ELSE <<Port>> \o HostFields("Vless", c)), len)

Trojan(c, len, fresh) ==
    Read(<<Field(Key, TRUE), Field(1, Mine("Trojan", c) /\ c.broken # "separator"), Command(c)>>
           \o HostFields("Socks5", c) \o <<Port, Field(1, c.broken # "separator")>>, len)

\* The lengths of the sealed headers, as the client wrote them.
HostUnits(c) == IF c.host = "v4" THEN 2 ELSE 3
SealedLen(c) ==
    (IF c.protocol = "Vmess" THEN 7 + HostUnits(c) ELSE 2 + HostUnits(c) + c.initial)
      + c.extra - (IF c.broken = "short" THEN 1 ELSE 0)

\* What is in a VMess header: keys and options, the command, the port and then the host.
VmessHeader(c) ==
    <<Field(5, c.broken # "version"), Command(c), Port>>
      \o HostFields("Vless", c) \o <<Field(c.extra, TRUE)>>

Vmess(c, len, fresh) ==
    Within(Read(<<Field(Prefix, Mine("Vmess", c) /\ fresh /\ SealedLen(c) <= MaxSealed),
                  Field(SealedLen(c) + Tag, c.broken # "seal")>>, len),
           VmessHeader(c), SealedLen(c))

\* One credential: its key is not the client's, or it decides.
WithCredential(c, len, fresh, entry) ==
    LET salt == KeyLen[entry.method]
    IN  IF len < salt + Fixed THEN Verdict("incomplete", 0)
        ELSE IF c.protocol # "Shadowsocks" \/ c.user # entry.name THEN Verdict("not mine", 0)
        ELSE Within(Read(<<Field(salt + Fixed, fresh /\ c.broken # "version"),
                           Field(SealedLen(c) + Tag, c.broken # "seal")>>, len),
                    HostFields("Socks5", c) \o <<Port, Field(1 + c.extra, TRUE)>>, SealedLen(c))

\* The credentials in their order, the ones that are short passed over.
Shadowsocks(c, len, fresh) ==
    LET table == Positions("Shadowsocks")
        answer(i) == WithCredential(c, len, fresh, UserLists.Shadowsocks[i])
        decided == {i \in table : answer(i).verdict \in {"ok", "rejected"}}
    IN  IF decided # {} THEN answer(Min(decided))
        ELSE Verdict(IF \E i \in table : answer(i).verdict = "incomplete"
                     THEN "incomplete" ELSE "rejected", 0)

-----------------------------------------------------------------------------
(* The detector.                                                           *)

Parse(kind, c, len, fresh) ==
    CASE kind = "Vless" -> Vless(c, len, fresh)   [] kind = "Trojan" -> Trojan(c, len, fresh)
      [] kind = "Vmess" -> Vmess(c, len, fresh)
      [] kind = "Shadowsocks" -> Shadowsocks(c, len, fresh)

Says(verdict, c, len, fresh) ==
    {i \in DOMAIN Kinds : Kinds[i] \in Enabled /\ Parse(Kinds[i], c, len, fresh).verdict = verdict}

\* The request a parser makes of a client.
Request(kind, header, c) ==
    [verdict |-> "ok", kind |-> kind, header |-> header,
     target |-> IF c.command = "mux" THEN {}
                ELSE {IF slot = "domain" THEN Meant(c.host) ELSE slot :
                        slot \in SlotRead(Speaks(kind), c)},
     is_tcp |-> c.command = "tcp", flow_requested |-> kind = "Vless" /\ c.extra # 0]

\* mutant: one parser that is certain outweighs those that are still waiting
BugCertainty(c, len, fresh) ==
    IF Says("ok", c, len, fresh) # {}
    THEN LET kind == Kinds[Min(Says("ok", c, len, fresh))]
         IN  Request(kind, Parse(kind, c, len, fresh).header, c)
    ELSE Verdict(IF Says("rejected", c, len, fresh) = {} THEN "incomplete" ELSE "rejected", 0)

\* detect: the first parser that accepts; else it waits as long as one of them does.
Detect(c, len, fresh) ==
    IF Says("ok", c, len, fresh) # {}
    THEN LET kind == Kinds[Min(Says("ok", c, len, fresh))]
         IN  Request(kind, Parse(kind, c, len, fresh).header, c)
    ELSE Verdict(IF Says("incomplete", c, len, fresh) # {} THEN "incomplete" ELSE "rejected", 0)
=============================================================================
