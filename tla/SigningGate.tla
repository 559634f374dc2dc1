---------------------------- MODULE SigningGate ----------------------------
(***************************************************************************)
(* What keylessd promises about who may have a signing request in          *)
(* progress, with no limits, counters, files or locks in sight.            *)
(*                                                                         *)
(* A principal is an edge client or the shared-token principal.  Some are  *)
(* barred now; some are listed, that is barred from the next start of the  *)
(* process on, whatever else changes.  A request enters only for a         *)
(* principal that is not barred.                                           *)
(***************************************************************************)
CONSTANTS Principals,   \* who can hold a token
          Handlers,     \* request slots (goroutines of the HTTP server)
          Nobody        \* the principal of a slot with no request in progress

VARIABLES barred,       \* principals no new request is accepted from
          listed,       \* principals that every later start finds barred
          live          \* the principal each slot is serving, or Nobody

vars == <<barred, listed, live>>

Init == /\ barred = Principals
        /\ listed \in SUBSET Principals
        /\ live = [h \in Handlers |-> Nobody]

(* A request of an accepted principal starts. *)
Enter(h, p) == /\ live[h] = Nobody
               /\ p \notin barred
               /\ live' = [live EXCEPT ![h] = p]
               /\ UNCHANGED <<barred, listed>>

(* The request in h ends.  What it did may cost its principal B its access, *)
(* now and, when L is that principal too, for good.                         *)
Leave(h, B, L) == /\ live[h] # Nobody
                  /\ B \subseteq {live[h]}
                  /\ L \subseteq B
                  /\ live' = [live EXCEPT ![h] = Nobody]
                  /\ barred' = barred \cup B
                  /\ listed' = listed \cup L

(* A principal is barred although no request of its own is in progress: a  *)
(* rejected request, or one that goes on, took it over an error threshold. *)
Bar(B, L) == /\ barred' = barred \cup B
             /\ listed' = listed \cup L
             /\ L \subseteq B
             /\ UNCHANGED live

(* The operator lists a principal: nothing changes before the next start. *)
List(p) == /\ listed' = listed \cup {p}
           /\ UNCHANGED <<barred, live>>

(* The process stops, or starts with a new configuration. *)
Restart(B) == /\ listed \subseteq B
              /\ barred' = B
              /\ live' = [h \in Handlers |-> Nobody]
              /\ UNCHANGED listed

Next == \/ \E h \in Handlers, p \in Principals : Enter(h, p)
        \/ \E h \in Handlers, B, L \in SUBSET Principals : Leave(h, B, L)
        \/ \E B, L \in SUBSET Principals : Bar(B, L)
        \/ \E p \in Principals : List(p)
        \/ \E B \in SUBSET Principals : Restart(B)

Spec == Init /\ [][Next]_vars
=============================================================================
