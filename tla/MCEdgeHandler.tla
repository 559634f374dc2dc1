--------------------------- MODULE MCEdgeHandler ---------------------------
(* An instance of EdgeHandler for TLC. *)
EXTENDS EdgeHandler, TLC

com  == <<"com">>
shop == <<"shop", "com">>
api  == <<"api", "shop", "com">>
deep == <<"v2", "api", "shop", "com">>
none == <<>>

(* A wildcard certificate before one with exact names below it, and one     *)
(* with an exact name above it.                                             *)
MCCertificates == <<{Wild(shop), Exact(com)}, {Exact(api), Exact(shop), Wild(api)}>>

MCNames == {none, com, shop, api, deep, <<"org">>}

Host(p) == [pattern |-> p, port |-> FALSE]

Route(hosts, exact, prefixes, protocol) ==
    [backend |-> TRUE, hosts |-> hosts, exact |-> exact, prefixes |-> prefixes,
     protocol |-> protocol]

ws == <<"/ws">>

(* A prefix route before an exact one, a host route, one whose host has a   *)
(* port; files with a bad route in each way; and no routes.                 *)
Good == <<Route({Host(Wild(shop))}, {}, {ws}, "ws"),
          Route({}, {<<"/ws", "x">>}, {}, "http"),
          Route({[pattern |-> Exact(shop), port |-> TRUE]}, {}, {ws}, "ws")>>
MCRouteFiles ==
    {Good, <<>>, <<Good[2], Route({}, {}, {}, "http")>>,
     <<[Good[1] EXCEPT !.backend = FALSE], Good[2]>>,
     <<[Good[1] EXCEPT !.protocol = "ftp"]>>}

Req(h, p, up, one) ==
    [healthz |-> FALSE, host |-> h, path |-> p, upgrade |-> up, http1 |-> one,
     head |-> FALSE, gzip |-> ~up, text |-> TRUE]

MCRequests ==
    {Req(api, ws, TRUE, TRUE), Req(api, ws, TRUE, FALSE), Req(shop, ws, TRUE, TRUE),
     Req(deep, <<"/ws", "x">>, FALSE, TRUE), Req(com, <<"/ws", "x">>, TRUE, TRUE),
     Req(com, <<"/">>, FALSE, TRUE),
     [Req(com, <<"/">>, FALSE, TRUE) EXCEPT !.head = TRUE],
     [Req(com, <<"/healthz">>, FALSE, TRUE) EXCEPT !.healthz = TRUE]}
=============================================================================
