--------------------------- MODULE MCSignProtocol ---------------------------
(* Instances of SignProtocol for TLC. *)
EXTENDS SignProtocol, TLC

CONSTANTS c1, c2, t1, t2, k1, dk, ka, kb, s1, s2, s3

NoKeys == [k \in {} |-> dk]

File(x, m1, y, m2) == [ids |-> {c1, c2}, token |-> c1 :> x @@ c2 :> y,
                       keys |-> c1 :> m1 @@ c2 :> m2]

(* c1 has a named key, c2 a key of its own for requests that name none. *)
Normal == File(t1, k1 :> ka, t2, NoKeyId :> kb)

(* The other client's keys change, or go; c1's named key changes; c2 has    *)
(* the token of c1 too.                                                     *)
OtherNamed == File(t1, k1 :> ka, t2, k1 :> kb)
OtherGone  == [Normal EXCEPT !.ids = {c1}]
Rekeyed    == File(t1, k1 :> kb, t2, NoKeys)
Twice      == File(t1, k1 :> ka, t1, NoKeyId :> kb)

AllFiles == {Normal, OtherNamed, OtherGone, Rekeyed, Twice}

(* c1's edge has two certificates, one of them with a named key. *)
TokenMap == s1 :> t1 @@ s2 :> t1 @@ s3 :> t2
KeyIdMap == s1 :> k1 @@ s2 :> NoKeyId @@ s3 :> NoKeyId

In(h, n, p, sl) == [hash |-> h, length |-> n, pss |-> p, salt |-> sl]

(* TLS 1.3 with RSA, ECDSA and Ed25519, TLS 1.2 with RSA, a hash without a  *)
(* name, and a message that does not fit.                                   *)
Asked == {In("SHA256", 32, TRUE, -1), In("SHA384", 48, FALSE, 0),
          In("NONE", 60, FALSE, 0), In("SHA1", 20, FALSE, 0),
          In("MD5SHA1", 36, FALSE, 0), In("NONE", 65, FALSE, 0)}
=============================================================================
