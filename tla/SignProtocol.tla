---------------------------- MODULE SignProtocol ----------------------------
(***************************************************************************)
(* One signature of the keyless protocol: what RemoteSigner on an edge     *)
(* sends for a digest that crypto/tls wants signed, what keylessd makes of *)
(* it, and which private key it signs with.                                *)
(*                                                                         *)
(* An edge asks for the public key of each of its certificates once, when  *)
(* it starts, and every later signature must be by the same key.  The      *)
(* server chooses the key anew for every request, from the token, the key  *)
(* id and the clients.json of its own last start.  Nothing that is loaded  *)
(* changes while the process runs, so serving a request is one step.       *)
(*                                                                         *)
(* Abstracted: base64 and JSON (a payload is its length, a key file its    *)
(* key), the bars and limits of module Signer (a request may be refused),  *)
(* and the mode without a client file, in which the only principal behaves *)
(* like a client without keys of its own.                                  *)
(***************************************************************************)
EXTENDS Integers, FiniteSets

CONSTANTS Clients,     \* ids that may appear in clients.json
          Tokens,      \* values of the token header
          KeyIds,      \* values of the key id header
          NoKeyId,     \* the header is absent
          Keys,        \* private keys, each standing for its public key too
          NoKey,
          DefaultKey,  \* KEYLESS_PRIVATE_KEY
          Files,       \* the contents clients.json may have
          Signers,     \* RemoteSigners, one for each certificate of an edge
          TokenOf,     \* the token of each one
          KeyIdOf,     \* its key id, or NoKeyId
          Inputs,      \* what crypto/tls may ask a RemoteSigner to sign
          BodyLimit    \* the longest payload that fits into 64 KiB

(* crypto.Hash values: those with a name in the protocol, and one without.  *)
Named == {"SHA1", "SHA224", "SHA256", "SHA384", "SHA512"}

Hashes == Named \cup {"NONE", "MD5SHA1"}

Input == [hash : Hashes, length : Nat, pss : BOOLEAN, salt : Int]

(* private_keys of a client, with its private_key under NoKeyId. *)
KeyMap == UNION {[S -> Keys] : S \in SUBSET (KeyIds \cup {NoKeyId})}

ClientFile == [ids : SUBSET Clients, token : [Clients -> Tokens],
               keys : [Clients -> KeyMap]]

ASSUME ProtocolAssumption ==
    /\ NoKeyId \notin KeyIds /\ NoKey \notin Keys /\ DefaultKey \in Keys
    /\ Files \subseteq ClientFile
    /\ TokenOf \in [Signers -> Tokens]
    /\ KeyIdOf \in [Signers -> KeyIds \cup {NoKeyId}]
    /\ Inputs \subseteq Input /\ BodyLimit \in Nat

VARIABLES
    file,      \* clients.json
    loaded,    \* what keylessd has loaded of it
    pub,       \* RemoteSigner.publicKey, NoKey while its edge is down
    met,       \* observation: what was loaded when the key was fetched
    answer     \* what the last step answered to a RemoteSigner

vars == <<file, loaded, pub, met, answer>>

-----------------------------------------------------------------------------
(* The request and what the server reads from it. *)

HashName(h) == IF h \in Named \cup {"NONE"} THEN h ELSE "UNKNOWN"

Parsable(n) == n \in Named \cup {"NONE", ""}

ParseHash(n) == IF n = "" THEN "NONE" ELSE n

Size == [h \in Named |-> CASE h = "SHA1"   -> 20
                           [] h = "SHA224" -> 28
                           [] h = "SHA256" -> 32
                           [] h = "SHA384" -> 48
                           [] h = "SHA512" -> 64]

(* Mutant: the options are not looked at. *)
RequestWithoutPadding(i) ==
    [length |-> i.length, hash |-> HashName(i.hash), scheme |-> "default", salt |-> 0]

RequestFromSignerInput(i) ==
    [length |-> i.length, hash |-> HashName(i.hash),
     scheme |-> IF i.pss THEN "rsa-pss" ELSE "default",
     salt   |-> IF i.pss THEN i.salt ELSE 0]

SignerOptsFromRequest(q) ==
    [hash |-> ParseHash(q.hash), pss |-> q.scheme = "rsa-pss",
     salt |-> IF q.scheme = "rsa-pss" THEN q.salt ELSE 0]

ValidatePayload(n, opts) == opts.hash # "NONE" => n = Size[opts.hash]

(* The first half of the sign handler: everything that is answered 400. *)
WellFormed(q) ==
    /\ q.length \in 1 .. BodyLimit
    /\ Parsable(q.hash)
    /\ q.scheme \in {"", "default", "rsa-pss"}
    /\ ValidatePayload(q.length, SignerOptsFromRequest(q))

-----------------------------------------------------------------------------
(* The key. *)

(* The clients a token may be taken for: module Signer, Matching. *)
Holders(f, t) == {c \in f.ids : f.token[c] = t}

(* keyForRequest: a client without keys has the default key only, one with  *)
(* keys has these, and the default key when it names none.                  *)
(* Mutant: a key id nobody knows gets the default key. *)
KeyOrDefault(f, c, k) ==
    IF k \in DOMAIN f.keys[c] THEN f.keys[c][k] ELSE DefaultKey

KeyForRequest(f, c, k) ==
    IF k \in DOMAIN f.keys[c] THEN f.keys[c][k]
    ELSE IF k = NoKeyId THEN DefaultKey
    ELSE NoKey

(* Mutant: the second result of keyForRequest is dropped. *)
AnyKey(key) == TRUE

Allowed(key) == key # NoKey

(* The headers of a request. *)
PublicKeyId(s) == KeyIdOf[s]

(* Mutant: the signing request carries no key id. *)
NoHeader(s) == NoKeyId

SignKeyId(s) == KeyIdOf[s]

-----------------------------------------------------------------------------
NoAnswer == [kind |-> "none"]

Init == /\ file \in Files
        /\ loaded = file
        /\ pub = [s \in Signers |-> NoKey]
        /\ met = [s \in Signers |-> file]
        /\ answer = NoAnswer

(* loadKeylessCertificates, for one certificate of a starting edge.         *)
Connect(s) ==
    /\ pub[s] = NoKey
    /\ \E c \in Holders(loaded, TokenOf[s]) :
          LET key == KeyForRequest(loaded, c, PublicKeyId(s)) IN
          /\ Allowed(key)
          /\ pub' = [pub EXCEPT ![s] = key]
    /\ met' = [met EXCEPT ![s] = loaded]
    /\ answer' = NoAnswer
    /\ UNCHANGED <<file, loaded>>

Answer(a) == answer' = a /\ UNCHANGED <<file, loaded, pub, met>>

(* Any other answer than a signature is an error of the TLS handshake: an   *)
(* unknown, barred or limited client, a malformed request, a key that is    *)
(* not the client's, or a key that cannot sign with these options.          *)
Refuse(s) == pub[s] # NoKey /\ Answer([kind |-> "refused"])

Malformed(s, i) ==
    /\ pub[s] # NoKey /\ Holders(loaded, TokenOf[s]) # {}
    /\ ~WellFormed(RequestFromSignerInput(i))
    /\ Answer([kind |-> "malformed", signer |-> s, input |-> i])

Forbidden(s, i) ==
    /\ pub[s] # NoKey /\ WellFormed(RequestFromSignerInput(i))
    /\ \E c \in Holders(loaded, TokenOf[s]) :
          ~Allowed(KeyForRequest(loaded, c, SignKeyId(s)))
    /\ Answer([kind |-> "forbidden", signer |-> s, input |-> i])

Sign(s, i) ==
    /\ pub[s] # NoKey /\ WellFormed(RequestFromSignerInput(i))
    /\ \E c \in Holders(loaded, TokenOf[s]) :
          LET key == KeyForRequest(loaded, c, SignKeyId(s)) IN
          /\ Allowed(key)
          /\ Answer([kind |-> "signature", signer |-> s, input |-> i, key |-> key,
                     opts |-> SignerOptsFromRequest(RequestFromSignerInput(i))])

(* The edge stops; it starts with Connect. *)
StopEdge(s) ==
    /\ pub[s] # NoKey
    /\ pub' = [pub EXCEPT ![s] = NoKey]
    /\ answer' = NoAnswer
    /\ UNCHANGED <<file, loaded, met>>

(* The operator edits clients.json or replaces a key file. *)
Edit(f) == /\ file' = f
           /\ answer' = NoAnswer
           /\ UNCHANGED <<loaded, pub, met>>

(* keylessd restarts and loads every client and every key.  (Between the    *)
(* two every request fails, like Refuse.)                                   *)
RestartServer == /\ loaded' = file
                 /\ answer' = NoAnswer
                 /\ UNCHANGED <<file, pub, met>>

Next ==
    \/ \E s \in Signers :
          \/ Connect(s)
          \/ Refuse(s)
          \/ \E i \in Inputs : Malformed(s, i) \/ Forbidden(s, i) \/ Sign(s, i)
          \/ StopEdge(s)
    \/ \E f \in Files : Edit(f)
    \/ RestartServer

Spec == Init /\ [][Next]_vars

-----------------------------------------------------------------------------
(* Properties. *)

Opts == [hash : Named \cup {"NONE"}, pss : BOOLEAN, salt : Int]

AnswerOK ==
    \/ answer.kind \in {"none", "refused"}
    \/ /\ answer.kind \in {"malformed", "forbidden", "signature"}
       /\ answer.signer \in Signers /\ answer.input \in Inputs
       /\ answer.kind = "signature" =>
             /\ answer.key \in Keys /\ answer.opts \in Opts
             /\ pub[answer.signer] # NoKey

(* Type correctness. *)
TypeOK ==
    /\ file \in Files /\ loaded \in Files
    /\ pub \in [Signers -> Keys \cup {NoKey}]
    /\ met \in [Signers -> Files]
    /\ AnswerOK

(* The same one client has the token, with the same keys. *)
SameClient(f, g, t) ==
    \E c \in Clients : /\ Holders(f, t) = {c} /\ Holders(g, t) = {c}
                       /\ f.keys[c] = g.keys[c]

(* What an edge is given verifies under the public key it fetched when it   *)
(* started, over restarts of the server and edits of other clients: unless  *)
(* the keys or the token of its own client changed since, or two clients    *)
(* share its token (the server then may take it for either).                *)
SignaturesVerify ==
    answer.kind = "signature" =>
       LET s == answer.signer IN
       SameClient(met[s], loaded, TokenOf[s]) => answer.key = pub[s]

(* A private key is used for its own clients only: but for the default key, *)
(* asked for by no name, a signature is by a key that some client with this *)
(* very token has.                                                          *)
KeysStayApart ==
    answer.kind = "signature" =>
       LET s == answer.signer IN
       \/ answer.key = DefaultKey /\ KeyIdOf[s] = NoKeyId
       \/ \E c \in Holders(loaded, TokenOf[s]) :
             \E k \in DOMAIN loaded.keys[c] : answer.key = loaded.keys[c][k]

(* What crypto/tls of version 1.2 and later asks for: a digest of a named   *)
(* hash, or a message that is not hashed and not too long.                  *)
Proper(i) ==
    \/ i.hash \in Named /\ i.length = Size[i.hash] /\ i.length <= BodyLimit
    \/ i.hash = "NONE" /\ i.length \in 1 .. BodyLimit

(* No proper request is turned down for its form, and what is signed is     *)
(* what was asked for: the same hash, the same padding and, with PSS, the   *)
(* same length of the salt.                                                 *)
RequestsSurvive ==
    /\ answer.kind = "malformed" => ~Proper(answer.input)
    /\ answer.kind = "signature" =>
          LET i == answer.input IN
          answer.opts = [hash |-> i.hash, pss |-> i.pss,
                         salt |-> IF i.pss THEN i.salt ELSE 0]
=============================================================================
