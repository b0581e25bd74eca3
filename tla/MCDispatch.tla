------------------------------ MODULE MCDispatch ------------------------------
(* Requests on every prefix of a deployment, and beside them.              *)
EXTENDS Dispatch

P(names) == [i \in DOMAIN names |-> Seg(names[i])]

Routes(xhttp, websocket, panel, subscription) ==
    [xhttp |-> P(xhttp), websocket |-> P(websocket), panel |-> P(panel),
     subscription |-> P(subscription)]

MCRouteSets ==
    {Routes(<<"x">>, <<"w">>, <<"p">>, <<"s">>),              \* as the wizard sets it up
     Routes(<<>>, <<>>, <<"p">>, <<>>),                       \* a panel and nothing else
     Routes(<<"p", "api">>, <<>>, <<"p">>, <<"s">>),           \* one prefix within another
     Routes(<<"s", "x">>, <<"w">>, <<"p">>, <<"s", "y">>)}

Request(method, names, upgrade) == [method |-> method, path |-> P(names), upgrade |-> upgrade]

MCRequests ==
    {Request(m, p, FALSE) : m \in {"GET", "POST"},
        p \in {<<>>, <<"p">>, <<"p", "api", "login">>, <<"p", "api", "state">>, <<"p", "api", "nodes">>,
               <<"x">>, <<"x", "7">>, <<"x", "7", "7">>, <<"x", "7", "7", "7">>, <<"s", "x", "7">>,
               <<"x", "__duplex_probe">>, <<"x", "__connect_probe">>,
               <<"s", "clash">>, <<"s", "clash", "links">>, <<"s", "y", "hiddify">>}}
    \cup {[method |-> "GET", path |-> <<Seg("s"), Segment("mihomo", ext)>>, upgrade |-> FALSE] :
             ext \in {"yaml", "txt", "html"}}
    \cup {Request("OPTIONS", <<"x", "7">>, FALSE), Request("GET", <<"w">>, TRUE),
          Request("GET", <<"x">>, TRUE), Request("PUT", <<"p", "api", "nodes">>, FALSE)}

MCPasswords == {"", "one", "two"}
MCBundles == {<<"mihomo", "config">>, <<"mihomo", "links">>, <<"hiddify", "links">>}
MCSessionIds == {"7", "api", "links", "clash", "x", "y", "hiddify", "__duplex_probe"}
MCSeqNumber == [n \in {"7"} |-> 7]
===============================================================================
