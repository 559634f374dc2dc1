------------------------------ MODULE MCSigner ------------------------------
(* Instances of Signer for TLC. *)
EXTENDS Signer, TLC

CONSTANTS c1, c2, t1, t2

Entry(tok, dis, rate, sl, el, auto) ==
    [token |-> tok, disabled |-> dis, rate |-> rate, signLimit |-> sl,
     errLimit |-> el, autoRevoke |-> auto]

(* c1 has a rate limit only; c2 revokes itself on either threshold. *)
Normal == [ids |-> {c1, c2},
           cfg |-> (c1 :> Entry(t1, FALSE, 1, 0, 0, FALSE)
                 @@ c2 :> Entry(t2, FALSE, 0, 1, 2, TRUE))]

(* After an edit: c1 is disabled and c2 took over its token. *)
Edited == [ids |-> {c1, c2},
           cfg |-> (c1 :> Entry(t1, TRUE, 1, 0, 0, FALSE)
                 @@ c2 :> Entry(t1, FALSE, 0, 1, 2, TRUE))]

Files == {Normal, Edited}

(* For the documentation's statements: a client for each kind of limit, *)
(* and only the sign threshold revokes.                                  *)
PerKind == [ids |-> {c1, c2},
            cfg |-> (c1 :> Entry(t1, FALSE, 2, 0, 1, FALSE)
                  @@ c2 :> Entry(t2, FALSE, 0, 2, 0, TRUE))]

OneFile == {PerKind}
=============================================================================
