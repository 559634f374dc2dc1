----------------------------- MODULE EdgeRoute -----------------------------
(***************************************************************************)
(* What edgeproxy decides from names: the certificate of a handshake and   *)
(* the plugin route of a request.  Both come from lists that are read when *)
(* the process starts; the names of a certificate go through a map, so     *)
(* their order is another one at every start.                              *)
(*                                                                         *)
(* A name is the sequence of its labels; a pattern may have a leading      *)
(* wildcard.  A path is a sequence of pieces, cut so that a prefix of the  *)
(* string is a prefix of the sequence.  cleanHost (case, blanks, the port) *)
(* is [name, port] -> name.                                                *)
(***************************************************************************)
EXTENDS Naturals, Sequences, FiniteSets, SequencesExt

CONSTANTS Certificates,     \* a sequence: the patterns of each certificate
          RouteFiles,       \* possible contents of the plugin route file
          ServerNames,      \* names asked for in handshakes; NoName is one
          RouteRequests,    \* requests that may arrive
          NoName

Wild(n)  == [wild |-> TRUE, name |-> n]
Exact(n) == [wild |-> FALSE, name |-> n]

IsSequence(s) == s \in Seq(ToSet(s))

(* A name in a pattern has at least one label. *)
IsPattern(p) == p.wild \in BOOLEAN /\ IsSequence(p.name) /\ p.name # <<>>

IsRoute(r) == /\ \A h \in r.hosts : h.port \in BOOLEAN /\ IsPattern(h.pattern)
              /\ \A p \in r.prefixes : IsSequence(p)

ASSUME RouteAssumption ==
    /\ IsSequence(Certificates)
    /\ \A i \in DOMAIN Certificates : \A p \in Certificates[i] : IsPattern(p)
    /\ \A n \in ServerNames : IsSequence(n)
    /\ \A f \in RouteFiles : IsSequence(f) /\ \A i \in DOMAIN f : IsRoute(f[i])
    /\ \A q \in RouteRequests : /\ q.healthz \in BOOLEAN
                                 /\ IsSequence(q.host) /\ IsSequence(q.path)

HttpProtocols == {"http", "http1", "ws", "websocket"}
Protocols == HttpProtocols \cup {"h2c", "grpc-h2c"}

VARIABLES
    running,    \* the process serves
    orders,     \* per certificate, its patterns in the order of the last start
    routes,     \* the plugin routes loaded
    request, by \* the request being served, and who serves it

naming == <<running, orders, routes>>
serving == <<request, by>>

-----------------------------------------------------------------------------
(* Certificates. *)

(* certificateNameMatches, hostMatches *)
NameMatches(p, n) ==
    \/ ~p.wild /\ p.name = n
    \/ p.wild /\ IsStrictSuffix(p.name, n)

(* <<i, j>>: the j-th pattern of certificate i covers the name. *)
Covering(ord, n) ==
    {p \in UNION {{i} \X DOMAIN ord[i] : i \in DOMAIN ord} :
       NameMatches(ord[p[1]][p[2]], n)}

(* Mutant: the first pattern of each certificate, then the second of each.  *)
LoopsSwapped(p, q) == p[2] < q[2] \/ (p[2] = q[2] /\ p[1] < q[1])

(* The order in which the patterns are tried. *)
Before(p, q) == p[1] < q[1] \/ (p[1] = q[1] /\ p[2] < q[2])

(* 0: the handshake is refused. *)
Select(ord, n) ==
    LET c == Covering(ord, n)
    IN  IF n = NoName \/ c = {} THEN 0
        ELSE (CHOOSE p \in c : \A q \in c \ {p} : Before(p, q))[1]

-----------------------------------------------------------------------------
(* Plugin routes. *)

(* newPluginRoute refuses a route without a backend URL, of an unknown      *)
(* protocol, or without any path; one bad route stops the start.            *)
ValidRoute(r) == /\ r.backend
                 /\ r.protocol \in Protocols
                 /\ r.exact # {} \/ r.prefixes # {}

(* makeHostSet keeps a port, cleanHost of a request does not: such a host   *)
(* matches nothing.                                                         *)
HostMatches(hosts, h) ==
    \E p \in hosts : ~p.port /\ NameMatches(p.pattern, h)

Matches(r, q) ==
    /\ r.hosts = {} \/ HostMatches(r.hosts, q.host)
    /\ q.path \in r.exact \/ \E p \in r.prefixes : IsPrefix(p, q.path)

(* Mutant: the more specific rule wins over the first. *)
MatchExactFirst(rs, q) ==
    LET hits == {i \in DOMAIN rs : Matches(rs[i], q)}
        best == {i \in hits : q.path \in rs[i].exact}
    IN  IF hits = {} THEN 0 ELSE IF best # {} THEN Min(best) ELSE Min(hits)

FirstMatch(rs, q, i) == Matches(rs[i], q) /\ \A j \in 1 .. i - 1 : ~Matches(rs[j], q)

(* 0: no plugin is asked. *)
Match(rs, q) ==
    IF \E i \in DOMAIN rs : FirstMatch(rs, q, i)
    THEN CHOOSE i \in DOMAIN rs : FirstMatch(rs, q, i) ELSE 0

(* isWebSocketUpgrade, isWebSocketProtocol, and a connection that can be    *)
(* taken over, which those of HTTP/2 and HTTP/3 cannot.                     *)
Tunnels(r, q) == r.protocol \in {"ws", "websocket"} /\ q.upgrade /\ q.http1

(* The mux answers GET /healthz itself, whatever the routes say. *)
Server(rs, q) ==
    IF q.healthz THEN [who |-> "health", route |-> 0]
    ELSE IF Match(rs, q) = 0 THEN [who |-> "site", route |-> 0]
    ELSE [who |-> IF Tunnels(rs[Match(rs, q)], q) THEN "tunnel" ELSE "plugin",
          route |-> Match(rs, q)]

-----------------------------------------------------------------------------
NoRequest == [healthz |-> FALSE]
Idle == [who |-> "nobody", route |-> 0]

RouteInit ==
    /\ running = FALSE
    /\ orders = <<>> /\ routes = <<>>
    /\ request = NoRequest /\ by = Idle

(* certificateNamePatterns, for each certificate. *)
Orderings ==
    {o \in [DOMAIN Certificates ->
              UNION {SetToSeqs(Certificates[i]) : i \in DOMAIN Certificates}] :
       \A i \in DOMAIN Certificates : ToSet(o[i]) = Certificates[i]}

(* loadPluginRoutes: all of the file, or no start. *)
StartEdge(f) ==
    /\ ~running /\ \A i \in DOMAIN f : ValidRoute(f[i])
    /\ running' = TRUE
    /\ routes' = f
    /\ orders' \in Orderings
    /\ UNCHANGED serving

StopEdge == /\ running /\ by = Idle
            /\ running' = FALSE /\ routes' = <<>>
            /\ UNCHANGED <<orders, serving>>

Serve(q) ==
    /\ running /\ by = Idle
    /\ request' = q
    /\ by' = Server(routes, q)
    /\ UNCHANGED naming

Served == /\ request' = NoRequest /\ by' = Idle /\ UNCHANGED naming

RouteNext == \/ \E f \in RouteFiles : StartEdge(f)
             \/ StopEdge

-----------------------------------------------------------------------------
(* Properties. *)

(* Names are covered to any depth below a wildcard, as the tests of         *)
(* cmd/edgeproxy/main_test.go have it.                                      *)
Below(n, m) == \E i \in 1 .. Len(n) - 1 : SubSeq(n, i + 1, Len(n)) = m

CoveredBy(c, n) == \E p \in Certificates[c] : IF p.wild THEN Below(n, p.name) ELSE n = p.name

(* A name gets the first certificate, in the order of the command line,     *)
(* that covers it, and none if there is no such one: whatever order the     *)
(* patterns come out of their map in, a restart never changes the           *)
(* certificate of a name.                                                   *)
FirstThatCovers ==
    running => \A n \in ServerNames :
       LET c == Select(orders, n) IN
       IF c = 0 THEN n = NoName \/ \A d \in DOMAIN Certificates : ~CoveredBy(d, n)
       ELSE /\ n # NoName /\ CoveredBy(c, n)
            /\ \A d \in 1 .. c - 1 : ~CoveredBy(d, n)

Claims(r, q) ==
    /\ \/ q.path \in r.exact
       \/ \E i \in 0 .. Len(q.path) : SubSeq(q.path, 1, i) \in r.prefixes
    /\ r.hosts # {} => \E h \in r.hosts :
          ~h.port /\ (IF h.pattern.wild THEN Below(q.host, h.pattern.name)
                                        ELSE q.host = h.pattern.name)

(* A request goes to the first route of the file that claims it, the cache  *)
(* and the site serve only what no route claims, and only an upgrade on a   *)
(* WebSocket route is ever given a tunnel.                                  *)
ServedByFirst ==
    /\ by.who = "site" => \A i \in DOMAIN routes : ~Claims(routes[i], request)
    /\ by.route # 0 =>
          /\ Claims(routes[by.route], request)
          /\ \A i \in 1 .. by.route - 1 : ~Claims(routes[i], request)
    /\ by.who = "tunnel" => /\ request.upgrade /\ request.http1
                            /\ routes[by.route].protocol \in {"ws", "websocket"}
=============================================================================
