---------------------------- MODULE MCEdgeCache ----------------------------
(* Instances of EdgeCache for TLC. *)
EXTENDS EdgeCache, TLC

CONSTANTS k1, k2, k3

Req(m, a, k) == [method |-> m, auth |-> a, key |-> k]
Get(k) == Req("GET", FALSE, k)

Gets == {Get(k1), Get(k2), Get(k3)}
Mixed == Gets \cup {Req("HEAD", FALSE, k1), Req("GET", TRUE, k1), Req("POST", FALSE, k1)}

Res(pub, s, m, n) == [ok |-> TRUE, forbidden |-> FALSE, public |-> pub,
                      sMaxAge |-> s, maxAge |-> m, size |-> n]

(* One byte, fresh for a second; two bytes, with an age that wraps round to *)
(* no lifetime at all; the fallback lifetime, for an object larger than the *)
(* cache; one well over the object limit; and one that must not be stored.  *)
Varied == {Res(FALSE, Absent, 1, 1), Res(FALSE, 8, 1, 2), Res(TRUE, Absent, 0, 3),
           Res(TRUE, Absent, 2, 6),
           [Res(TRUE, Absent, 1, 1) EXCEPT !.forbidden = TRUE]}

Same == [k \in Keys |-> k]
=============================================================================
