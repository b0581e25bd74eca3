----------------------------- MODULE MCOutbound -----------------------------
(* Instances of Outbound: one IPv4 destination d, proxies p and q, and pUp, *)
(* which is p spelt in capitals.                                            *)
EXTENDS Outbound, TLC

CONSTANTS d, p, pUp, q, synth, blank

MCHost == {d, p, pUp, q, synth, blank}
MCCanon == [h \in MCHost |-> IF h = pUp THEN p ELSE h]
MCNat64Of == d :> synth
MCTargets == {[host |-> d, port |-> 443]}
TwoPorts == {[host |-> d, port |-> 443], [host |-> d, port |-> 80]}

Proxied(hosts, n) == [mode |-> "ProxyIp", candidates |-> hosts, limit |-> n]
ThroughGateway == [mode |-> "Nat64", candidates |-> <<>>, limit |-> 3]

\* What the panel saves of what may be typed: a limit below and above the clamp, a second
\* spelling, a gateway; without candidates or with a blank one it saves nothing.
Saved ==
    {cfg \in {ThroughGateway, Proxied(<<p, q, pUp>>, 9), Proxied(<<pUp, q>>, 0),
              Proxied(<<>>, 3), Proxied(<<p, blank>>, 3)} : ValidOutbound(cfg)}

\* Documents of the panel, one it cannot read, and one written by hand.
Documents ==
    {[readable |-> TRUE, outbound |-> cfg] : cfg \in Saved \cup {Proxied(<<blank, q>>, 2)}}
    \cup {[readable |-> FALSE]}

Varied == {FromSettings(doc) : doc \in Documents}

Symmetric == Permutations(Sessions)
=============================================================================
