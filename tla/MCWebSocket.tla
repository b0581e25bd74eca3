---------------------------- MODULE MCWebSocket ----------------------------
(* A small instance of WebSocket. *)
EXTENDS WebSocket

Tcp(kind) == [known |-> TRUE, kind |-> kind, is_tcp |-> TRUE, hasTarget |-> TRUE,
              flow_requested |-> FALSE]

\* The requests served, one for each reason of a refusal, and a stranger.
MCRequests ==
    {Tcp("Vless"), Tcp("Trojan"), Tcp("Vmess"),
     [Tcp("Vless") EXCEPT !.flow_requested = TRUE],
     [Tcp("Vless") EXCEPT !.is_tcp = FALSE, !.hasTarget = FALSE],
     [Tcp("Trojan") EXCEPT !.is_tcp = FALSE],
     [Tcp("Vless") EXCEPT !.known = FALSE]}

\* The served requests alone.
MCServed == {Tcp("Vless"), Tcp("Trojan")}
=============================================================================
