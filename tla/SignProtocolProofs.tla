-------------------------- MODULE SignProtocolProofs --------------------------
(***************************************************************************)
(* Theorems about SignProtocol, for every set of clients, tokens, keys and *)
(* edges, every contents of clients.json and every request.                *)
(***************************************************************************)
EXTENDS SignProtocol, TLAPS

-----------------------------------------------------------------------------
(* The operators. *)

(* A key that is allowed is a key. *)
LEMMA KeyType ==
    ASSUME NEW f \in Files, NEW t, NEW c \in Holders(f, t), NEW k,
           Allowed(KeyForRequest(f, c, k))
    PROVE  KeyForRequest(f, c, k) \in Keys
<1>1. f \in ClientFile /\ c \in Clients
  BY ProtocolAssumption DEF Holders, ClientFile
<1>2. f.keys[c] \in KeyMap
  BY <1>1 DEF ClientFile
<1>3. PICK S \in SUBSET (KeyIds \cup {NoKeyId}) : f.keys[c] \in [S -> Keys]
  BY <1>2 DEF KeyMap
<1> QED
  BY <1>3, ProtocolAssumption DEF KeyForRequest, Allowed

(* What a key allowed for a client is: one of its own, or the default key   *)
(* for a request that names none.                                           *)
LEMMA KeyOrigin ==
    ASSUME NEW f, NEW c, NEW k, Allowed(KeyForRequest(f, c, k))
    PROVE  \/ k = NoKeyId /\ KeyForRequest(f, c, k) = DefaultKey
           \/ \E j \in DOMAIN f.keys[c] : KeyForRequest(f, c, k) = f.keys[c][j]
BY DEF KeyForRequest, Allowed

(* A hash is at least one byte long. *)
LEMMA SizePositive == \A h \in Named : Size[h] \in Nat /\ Size[h] > 0
BY DEF Size, Named

(* The server finds a request well formed when crypto/tls had reason to     *)
(* make it, and reads from it what was asked for.                           *)
LEMMA RoundTrip ==
    ASSUME NEW i \in Input
    PROVE  /\ Proper(i) => WellFormed(RequestFromSignerInput(i))
           /\ WellFormed(RequestFromSignerInput(i)) =>
                 SignerOptsFromRequest(RequestFromSignerInput(i)) =
                    [hash |-> i.hash, pss |-> i.pss,
                     salt |-> IF i.pss THEN i.salt ELSE 0]
<1> DEFINE q == RequestFromSignerInput(i)
<1>1. /\ i.hash \in Named \cup {"NONE", "MD5SHA1"} /\ i.length \in Nat
      /\ i.pss \in BOOLEAN
  BY DEF Input, Hashes
<1>2. /\ q.length = i.length /\ q.hash = HashName(i.hash)
      /\ q.scheme = IF i.pss THEN "rsa-pss" ELSE "default"
      /\ q.salt = IF i.pss THEN i.salt ELSE 0
  BY DEF RequestFromSignerInput
<1>3. q.scheme = "rsa-pss" <=> i.pss
  BY <1>1, <1>2
<1>4. i.hash \in Named \cup {"NONE"} => ParseHash(q.hash) = i.hash
  BY <1>2 DEF ParseHash, HashName, Named
<1>5. ASSUME Proper(i)  PROVE WellFormed(q)
  <2>1. i.hash \in Named \cup {"NONE"} /\ i.length \in 1 .. BodyLimit
    BY <1>1, <1>5, SizePositive, ProtocolAssumption DEF Proper
  <2>2. Parsable(q.hash) /\ q.scheme \in {"", "default", "rsa-pss"}
    BY <1>1, <1>2, <2>1 DEF Parsable, HashName
  <2>3. SignerOptsFromRequest(q).hash = i.hash
    BY <1>4, <2>1 DEF SignerOptsFromRequest
  <2>4. i.hash # "NONE" => i.length = Size[i.hash]
    BY <1>5 DEF Proper
  <2> QED
    BY <1>2, <2>1, <2>2, <2>3, <2>4 DEF WellFormed, ValidatePayload
<1>6. ASSUME WellFormed(q)
      PROVE  SignerOptsFromRequest(q) =
                [hash |-> i.hash, pss |-> i.pss,
                 salt |-> IF i.pss THEN i.salt ELSE 0]
  <2>1. i.hash \in Named \cup {"NONE"}
    BY <1>1, <1>2, <1>6 DEF WellFormed, Parsable, HashName, Named
  <2> QED
    BY <1>1, <1>2, <1>3, <1>4, <2>1 DEF SignerOptsFromRequest
<1> QED
  BY <1>5, <1>6

-----------------------------------------------------------------------------
(* Type correctness. *)

LEMMA InitTypeOK == Init => TypeOK
BY DEF Init, TypeOK, AnswerOK, NoAnswer

(* What is signed with is well typed. *)
LEMMA OptsType ==
    ASSUME NEW i \in Input, WellFormed(RequestFromSignerInput(i))
    PROVE  SignerOptsFromRequest(RequestFromSignerInput(i)) \in Opts
<1>1. i.hash \in Named \cup {"NONE"}
  BY DEF Input, Hashes, WellFormed, Parsable, HashName, Named,
         RequestFromSignerInput
<1>2. i.pss \in BOOLEAN /\ i.salt \in Int
  BY DEF Input
<1> QED
  BY <1>1, <1>2, RoundTrip DEF Opts

LEMMA NextTypeOK == TypeOK /\ [Next]_vars => TypeOK'
<1> SUFFICES ASSUME TypeOK, [Next]_vars  PROVE TypeOK'
  OBVIOUS
<1>1. ASSUME NEW s \in Signers, Connect(s)  PROVE TypeOK'
  <2>1. PICK c \in Holders(loaded, TokenOf[s]) :
           LET key == KeyForRequest(loaded, c, PublicKeyId(s)) IN
           Allowed(key) /\ pub' = [pub EXCEPT ![s] = key]
    BY <1>1 DEF Connect
  <2>2. pub' \in [Signers -> Keys \cup {NoKey}]
    BY <2>1, KeyType DEF TypeOK
  <2> QED
    BY <1>1, <2>2 DEF Connect, TypeOK, AnswerOK, NoAnswer
<1>2. ASSUME NEW s \in Signers, Refuse(s)  PROVE TypeOK'
  BY <1>2 DEF Refuse, Answer, TypeOK, AnswerOK
<1>3. ASSUME NEW s \in Signers, NEW i \in Inputs, Malformed(s, i)
      PROVE  TypeOK'
  BY <1>3 DEF Malformed, Answer, TypeOK, AnswerOK
<1>4. ASSUME NEW s \in Signers, NEW i \in Inputs, Forbidden(s, i)
      PROVE  TypeOK'
  BY <1>4 DEF Forbidden, Answer, TypeOK, AnswerOK
<1>5. ASSUME NEW s \in Signers, NEW i \in Inputs, Sign(s, i)  PROVE TypeOK'
  <2>1. PICK c \in Holders(loaded, TokenOf[s]) :
           LET key == KeyForRequest(loaded, c, SignKeyId(s)) IN
           /\ Allowed(key)
           /\ Answer([kind |-> "signature", signer |-> s, input |-> i, key |-> key,
                      opts |-> SignerOptsFromRequest(RequestFromSignerInput(i))])
    BY <1>5 DEF Sign
  <2>2. KeyForRequest(loaded, c, SignKeyId(s)) \in Keys
    BY <2>1, KeyType DEF TypeOK
  <2>3. SignerOptsFromRequest(RequestFromSignerInput(i)) \in Opts
    BY <1>5, OptsType, ProtocolAssumption DEF Sign
  <2> QED
    BY <1>5, <2>1, <2>2, <2>3 DEF Sign, Answer, TypeOK, AnswerOK
<1>6. ASSUME NEW s \in Signers, StopEdge(s)  PROVE TypeOK'
  BY <1>6 DEF StopEdge, TypeOK, AnswerOK, NoAnswer
<1>7. ASSUME NEW f \in Files, Edit(f)  PROVE TypeOK'
  BY <1>7 DEF Edit, TypeOK, AnswerOK, NoAnswer
<1>8. CASE RestartServer
  BY <1>8 DEF RestartServer, TypeOK, AnswerOK, NoAnswer
<1>9. CASE UNCHANGED vars
  BY <1>9 DEF vars, TypeOK, AnswerOK
<1> QED
  BY <1>1, <1>2, <1>3, <1>4, <1>5, <1>6, <1>7, <1>8, <1>9 DEF Next

(* Every reachable state is type correct: in particular no signature is     *)
(* ever made with the nil key of a request whose key id is unknown.         *)
THEOREM ProtocolTypeCorrect == Spec => []TypeOK
<1> QED
  BY InitTypeOK, NextTypeOK, PTL DEF Spec

-----------------------------------------------------------------------------
(* What is signed with. *)

(* What the last signature was made from: a holder of the token that serves *)
(* the request, in the clients.json that is loaded.                         *)
MadeForHolder ==
    answer.kind = "signature" =>
       LET s == answer.signer IN
       /\ answer.input \in Inputs
       /\ WellFormed(RequestFromSignerInput(answer.input))
       /\ answer.opts = SignerOptsFromRequest(RequestFromSignerInput(answer.input))
       /\ \E c \in Holders(loaded, TokenOf[s]) :
             /\ answer.key = KeyForRequest(loaded, c, KeyIdOf[s])
             /\ Allowed(answer.key)

(* The public key of every RemoteSigner is the one its client had when its  *)
(* edge started: met remembers the clients.json of that moment.             *)
FetchedForHolder ==
    \A s \in Signers :
       pub[s] # NoKey =>
          \E c \in Holders(met[s], TokenOf[s]) :
             pub[s] = KeyForRequest(met[s], c, KeyIdOf[s])

(* An answer of 400 was for the form of the request. *)
MalformedForForm ==
    answer.kind = "malformed" =>
       /\ answer.input \in Inputs
       /\ ~WellFormed(RequestFromSignerInput(answer.input))

ProtocolInv == MadeForHolder /\ FetchedForHolder /\ MalformedForForm

LEMMA InitProtocolInv == Init => ProtocolInv
BY DEF Init, NoAnswer, ProtocolInv, MadeForHolder, FetchedForHolder,
       MalformedForForm

LEMMA NextProtocolInv == TypeOK /\ ProtocolInv /\ [Next]_vars => ProtocolInv'
<1> SUFFICES ASSUME TypeOK, ProtocolInv, [Next]_vars  PROVE ProtocolInv'
  OBVIOUS
<1>1. ASSUME NEW s \in Signers, Connect(s)  PROVE ProtocolInv'
  <2>1. PICK c \in Holders(loaded, TokenOf[s]) :
           pub' = [pub EXCEPT ![s] = KeyForRequest(loaded, c, KeyIdOf[s])]
    BY <1>1 DEF Connect, PublicKeyId
  <2>2. met' = [met EXCEPT ![s] = loaded] /\ answer'.kind = "none"
    BY <1>1 DEF Connect, NoAnswer
  <2>3. ASSUME NEW r \in Signers, pub'[r] # NoKey
        PROVE  \E d \in Holders(met'[r], TokenOf[r]) :
                  pub'[r] = KeyForRequest(met'[r], d, KeyIdOf[r])
    <3>1. CASE r = s
      <4>1. met'[r] = loaded /\ pub'[r] = KeyForRequest(loaded, c, KeyIdOf[r])
        BY <2>1, <2>2, <3>1 DEF TypeOK
      <4> QED
        BY <4>1, <3>1
    <3>2. CASE r # s
      <4>1. met'[r] = met[r] /\ pub'[r] = pub[r]
        BY <2>1, <2>2, <3>2 DEF TypeOK
      <4> QED
        BY <4>1, <2>3 DEF ProtocolInv, FetchedForHolder
    <3> QED
      BY <3>1, <3>2
  <2> QED
    BY <2>2, <2>3 DEF ProtocolInv, MadeForHolder, FetchedForHolder, MalformedForForm
<1>2. ASSUME NEW s \in Signers, Refuse(s)  PROVE ProtocolInv'
  BY <1>2 DEF Refuse, Answer, ProtocolInv, MadeForHolder, FetchedForHolder,
              MalformedForForm
<1>3. ASSUME NEW s \in Signers, NEW i \in Inputs, Malformed(s, i)
      PROVE  ProtocolInv'
  BY <1>3 DEF Malformed, Answer, ProtocolInv, MadeForHolder, FetchedForHolder,
              MalformedForForm
<1>4. ASSUME NEW s \in Signers, NEW i \in Inputs, Forbidden(s, i)
      PROVE  ProtocolInv'
  BY <1>4 DEF Forbidden, Answer, ProtocolInv, MadeForHolder, FetchedForHolder,
              MalformedForForm
<1>5. ASSUME NEW s \in Signers, NEW i \in Inputs, Sign(s, i)
      PROVE  ProtocolInv'
  <2>1. PICK c \in Holders(loaded, TokenOf[s]) :
           LET key == KeyForRequest(loaded, c, KeyIdOf[s]) IN
           /\ Allowed(key)
           /\ Answer([kind |-> "signature", signer |-> s, input |-> i, key |-> key,
                      opts |-> SignerOptsFromRequest(RequestFromSignerInput(i))])
    BY <1>5 DEF Sign, SignKeyId
  <2>2. MadeForHolder'
    BY <1>5, <2>1 DEF Sign, Answer, MadeForHolder
  <2> QED
    BY <2>1, <2>2 DEF Answer, ProtocolInv, FetchedForHolder, MalformedForForm
<1>6. ASSUME NEW s \in Signers, StopEdge(s)  PROVE ProtocolInv'
  BY <1>6 DEF StopEdge, NoAnswer, TypeOK, ProtocolInv, MadeForHolder,
              FetchedForHolder, MalformedForForm
<1>7. ASSUME NEW f \in Files, Edit(f)  PROVE ProtocolInv'
  BY <1>7 DEF Edit, NoAnswer, ProtocolInv, MadeForHolder, FetchedForHolder,
              MalformedForForm
<1>8. CASE RestartServer
  BY <1>8 DEF RestartServer, NoAnswer, ProtocolInv, MadeForHolder,
              FetchedForHolder, MalformedForForm
<1>9. CASE UNCHANGED vars
  BY <1>9 DEF vars, ProtocolInv, MadeForHolder, FetchedForHolder,
              MalformedForForm
<1> QED
  BY <1>1, <1>2, <1>3, <1>4, <1>5, <1>6, <1>7, <1>8, <1>9 DEF Next

LEMMA ProtocolInvariant == Spec => [](TypeOK /\ ProtocolInv)
<1> QED
  BY InitTypeOK, NextTypeOK, InitProtocolInv, NextProtocolInv, PTL DEF Spec

(* With one client per token whose keys do not change, every signature      *)
(* verifies under the public key the edge fetched when it started, over any *)
(* restarts of the server and any edits of the other clients.               *)
THEOREM SignaturesAlwaysVerify == Spec => []SignaturesVerify
<1>1. TypeOK /\ ProtocolInv => SignaturesVerify
  <2> SUFFICES ASSUME TypeOK, ProtocolInv, answer.kind = "signature",
                      SameClient(met[answer.signer], loaded, TokenOf[answer.signer])
               PROVE  answer.key = pub[answer.signer]
    BY DEF SignaturesVerify
  <2> DEFINE s == answer.signer
  <2>1. PICK c \in Clients : /\ Holders(met[s], TokenOf[s]) = {c}
                             /\ Holders(loaded, TokenOf[s]) = {c}
                             /\ met[s].keys[c] = loaded.keys[c]
    BY DEF SameClient
  <2>2. s \in Signers /\ pub[s] # NoKey
    BY DEF TypeOK, AnswerOK
  <2>3. answer.key = KeyForRequest(loaded, c, KeyIdOf[s])
    BY <2>1 DEF ProtocolInv, MadeForHolder
  <2>4. pub[s] = KeyForRequest(met[s], c, KeyIdOf[s])
    BY <2>1, <2>2 DEF ProtocolInv, FetchedForHolder
  <2> QED
    BY <2>1, <2>3, <2>4 DEF KeyForRequest
<1> QED
  BY <1>1, ProtocolInvariant, PTL

(* No client gets a signature by a key that only other clients have, not    *)
(* even the default key under the name of a key it does not have.           *)
THEOREM KeysAlwaysApart == Spec => []KeysStayApart
<1>1. TypeOK /\ ProtocolInv => KeysStayApart
  <2> SUFFICES ASSUME ProtocolInv, answer.kind = "signature"
               PROVE  LET s == answer.signer IN
                      \/ answer.key = DefaultKey /\ KeyIdOf[s] = NoKeyId
                      \/ \E c \in Holders(loaded, TokenOf[s]) :
                            \E k \in DOMAIN loaded.keys[c] :
                               answer.key = loaded.keys[c][k]
    BY DEF KeysStayApart
  <2>1. PICK c \in Holders(loaded, TokenOf[answer.signer]) :
           /\ answer.key = KeyForRequest(loaded, c, KeyIdOf[answer.signer])
           /\ Allowed(answer.key)
    BY DEF ProtocolInv, MadeForHolder
  <2> QED
    BY <2>1, KeyOrigin
<1> QED
  BY <1>1, ProtocolInvariant, PTL

(* Every request crypto/tls has reason to make passes the server's checks   *)
(* of its form and is signed with the options it asked for.                 *)
THEOREM RequestsAlwaysSurvive == Spec => []RequestsSurvive
<1>1. TypeOK /\ ProtocolInv => RequestsSurvive
  <2> SUFFICES ASSUME ProtocolInv  PROVE RequestsSurvive
    OBVIOUS
  <2>1. answer.kind = "malformed" => ~Proper(answer.input)
    BY RoundTrip, ProtocolAssumption DEF ProtocolInv, MalformedForForm
  <2>2. ASSUME answer.kind = "signature"
        PROVE  answer.opts = [hash |-> answer.input.hash,
                              pss  |-> answer.input.pss,
                              salt |-> IF answer.input.pss
                                       THEN answer.input.salt ELSE 0]
    BY <2>2, RoundTrip, ProtocolAssumption DEF ProtocolInv, MadeForHolder
  <2> QED
    BY <2>1, <2>2 DEF RequestsSurvive
<1> QED
  BY <1>1, ProtocolInvariant, PTL
=============================================================================
