--------------------------- MODULE MCTrustedHost ---------------------------
(* Instances of TrustedHost for TLC. *)
EXTENDS TrustedHost, TLC

CONSTANTS c1, c2, t1, t2

Entry(tok, sl, auto) ==
    [token |-> tok, disabled |-> FALSE, rate |-> 0, signLimit |-> sl,
     errLimit |-> 0, autoRevoke |-> auto]

(* Both clients revoke themselves over one signature a minute. *)
TwoClients == {[ids |-> {c1, c2},
                cfg |-> c1 :> Entry(t1, 1, TRUE) @@ c2 :> Entry(t2, 1, TRUE)]}
=============================================================================
