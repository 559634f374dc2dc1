---------------------------- MODULE SignerProofs ----------------------------
(***************************************************************************)
(* Theorems about Signer, for every set of clients, handlers and tokens,   *)
(* every content of clients.json and every number of requests and minutes. *)
(***************************************************************************)
EXTENDS Signer, FiniteSetTheorems, TLAPS

-----------------------------------------------------------------------------
(* What one critical section does to the manager. *)

(* Revoking a client adds it to autoDisabled and to the revoked set, and to *)
(* the file at most that line.                                              *)
LEMMA AutoRevokeEffect ==
    ASSUME TypeOK, NEW c \in Clients, AutoRevoke(c)
    PROVE  /\ autoDisabled' = autoDisabled \cup {c}
           /\ revoked' = revoked \cup {c}
           /\ revokedFile' \in {revokedFile, revokedFile \cup {c}}
           /\ ~AppendMayFail /\ c \notin revoked => c \in revokedFile'
  BY DEF AutoRevoke, AppendRevokedLocked, TypeOK

(* record either counts nothing, or counts for its client only, and may     *)
(* revoke that client and no other.                                         *)
LEMMA RecordEffect ==
    ASSUME TypeOK, NEW c, NEW isSign \in BOOLEAN, NEW ok \in BOOLEAN,
           Record(c, isSign, ok)
    PROVE  /\ window' \in [Clients -> Nat]
           /\ signs' \in [Clients -> Nat]
           /\ errors' \in [Clients -> Nat]
           /\ autoDisabled' \in SUBSET Clients
           /\ revoked' \in SUBSET Clients
           /\ revokedFile' \in SUBSET Clients
           /\ \/ UNCHANGED <<autoDisabled, revoked, revokedFile>>
              \/ c \in loaded.ids /\ AutoRevoke(c)
           /\ c \notin loaded.ids => UNCHANGED <<window, signs, errors>>
           /\ c \in loaded.ids =>
                /\ window' = [window EXCEPT ![c] = now]
                /\ signs' = [signs EXCEPT ![c] = SignsAfter(c, isSign, ok)]
<1>1. CASE c \notin loaded.ids
  BY <1>1 DEF Record, TypeOK
<1>2. CASE c \in loaded.ids
  <2>1. c \in Clients
    BY <1>2 DEF TypeOK, ClientFile
  <2>2. /\ window' = [window EXCEPT ![c] = now]
        /\ signs' = [signs EXCEPT ![c] = SignsAfter(c, isSign, ok)]
        /\ errors' = [errors EXCEPT ![c] = ErrorsAfter(c, ok)]
    BY <1>2 DEF Record
  <2>3. SignsAfter(c, isSign, ok) \in Nat /\ ErrorsAfter(c, ok) \in Nat
    BY <2>1 DEF SignsAfter, ErrorsAfter, InWindow, TypeOK
  <2>4. /\ window' \in [Clients -> Nat]
        /\ signs' \in [Clients -> Nat]
        /\ errors' \in [Clients -> Nat]
    BY <2>1, <2>2, <2>3 DEF TypeOK
  <2>5. \/ UNCHANGED <<autoDisabled, revoked, revokedFile>>
        \/ AutoRevoke(c)
    BY <1>2 DEF Record
  <2>6. /\ autoDisabled' \in SUBSET Clients
        /\ revoked' \in SUBSET Clients
        /\ revokedFile' \in SUBSET Clients
    BY <2>1, <2>5, AutoRevokeEffect DEF TypeOK
  <2> QED
    BY <1>2, <2>2, <2>4, <2>5, <2>6
<1> QED
  BY <1>1, <1>2

(* The two parts of it that the counters need: a client it does not know is *)
(* not counted, and a client it knows is.                                   *)
LEMMA RecordIgnores ==
    ASSUME NEW c, NEW isSign, NEW ok, Record(c, isSign, ok), c \notin loaded.ids
    PROVE  window' = window /\ signs' = signs
  BY DEF Record

LEMMA RecordCounts ==
    ASSUME NEW c, NEW isSign, NEW ok, Record(c, isSign, ok), c \in loaded.ids
    PROVE  /\ window' = [window EXCEPT ![c] = now]
           /\ signs' = [signs EXCEPT ![c] = SignsAfter(c, isSign, ok)]
  BY DEF Record

(* `allowed' either admits the request, or refuses it and may revoke the    *)
(* client on the way.                                                       *)
LEMMA AllowedEffect ==
    ASSUME TypeOK, NEW h \in Handlers, Allowed(h)
    PROVE  \/ /\ pc' = [pc EXCEPT ![h] = "admitted"]
              /\ UNCHANGED <<autoDisabled, revoked, revokedFile>>
              /\ who[h] \in loaded.ids =>
                   ~RateReached(who[h]) /\ ~SignLimitReached(who[h])
           \/ /\ pc' = [pc EXCEPT ![h] = "limited"]
              /\ who[h] \in loaded.ids
              /\ \/ UNCHANGED <<autoDisabled, revoked, revokedFile>>
                 \/ AutoRevoke(who[h])
  BY DEF Allowed, Limit, Admit

-----------------------------------------------------------------------------
(* Type correctness. *)

(* A step of one handler keeps every handler well formed when it leaves the *)
(* loaded clients alone and the handler's own state is well formed after.   *)
LEMMA HandlersKept ==
    ASSUME TypeOK, NEW h \in Handlers, NEW p, NEW w,
           pc' = [pc EXCEPT ![h] = p], who' = [who EXCEPT ![h] = w],
           UNCHANGED <<up, clientsMode, loaded>>,
           p \in PCs, w \in Ids,
           p \in {"authed", "admitted"} =>
              w \in (IF SharedMode THEN {Shared} ELSE loaded.ids),
           p = "limited" => w \in loaded.ids,
           p # "idle" => up
    PROVE  /\ pc' \in [Handlers -> PCs] /\ who' \in [Handlers -> Ids]
           /\ \A g \in Handlers : HandlerOK(g)'
<1>1. pc' \in [Handlers -> PCs] /\ who' \in [Handlers -> Ids]
  BY DEF TypeOK
<1>2. ASSUME NEW g \in Handlers PROVE HandlerOK(g)'
  <2>1. CASE g = h
    <3>1. pc'[g] = p /\ who'[g] = w
      BY <2>1 DEF TypeOK
    <3> QED
      BY <3>1 DEF HandlerOK, SharedMode
  <2>2. CASE g # h
    <3>1. pc'[g] = pc[g] /\ who'[g] = who[g]
      BY <2>2 DEF TypeOK
    <3>2. HandlerOK(g)
      BY DEF TypeOK
    <3> QED
      BY <3>1, <3>2 DEF HandlerOK, SharedMode
  <2> QED
    BY <2>1, <2>2
<1> QED
  BY <1>1, <1>2

(* The initial states are type correct. *)
LEMMA InitTypeOK == Init => TypeOK
<1> SUFFICES ASSUME Init PROVE TypeOK
  OBVIOUS
<1>1. /\ clientsFile \in ClientFile
      /\ loaded \in ClientFile /\ loaded.ids = {}
  BY ConstantsAssumption DEF Init, ClientFile
<1>2. /\ pc \in [Handlers -> PCs] /\ who \in [Handlers -> Ids]
      /\ \A h \in Handlers : HandlerOK(h)
  BY DEF Init, PCs, Ids, HandlerOK
<1>3. clientsMode \in BOOLEAN
  BY ConstantsAssumption DEF Init
<1>4. /\ window \in [Clients -> Nat] /\ signs \in [Clients -> Nat]
      /\ errors \in [Clients -> Nat] /\ granted \in [Clients -> Nat]
  BY DEF Init
<1>5. /\ revokedFile \in SUBSET Clients /\ autoDisabled \in SUBSET Clients
      /\ revoked \in SUBSET Clients
  BY DEF Init
<1>6. now \in Nat \ {0} /\ arrivals \in Nat
  BY DEF Init
<1>7. up \in BOOLEAN
  BY DEF Init
<1> QED
  BY <1>1, <1>2, <1>3, <1>4, <1>5, <1>6, <1>7 DEF TypeOK

(* Every step keeps the types and the handlers well formed. *)
LEMMA NextTypeOK == TypeOK /\ [Next]_vars => TypeOK'
<1> SUFFICES ASSUME TypeOK, [Next]_vars PROVE TypeOK'
  OBVIOUS
<1>1. ASSUME NEW h \in Handlers, NEW t \in Tokens, Authenticate(h, t)
      PROVE  TypeOK'
  <2>1. PICK r \in AuthResults(t) :
           /\ who' = [who EXCEPT ![h] = r.id]
           /\ pc' = [pc EXCEPT ![h] = IF r.ok THEN "authed" ELSE "rejected"]
    BY <1>1 DEF Authenticate
  <2>2. /\ r.id \in Clients \cup {Shared, NoClient}
        /\ r.ok => r.id \in (IF SharedMode THEN {Shared} ELSE loaded.ids)
    BY <2>1 DEF AuthResults, Matching, TypeOK, ClientFile
  <2>3. UNCHANGED <<up, clientsMode, loaded>> /\ up
    BY <1>1 DEF Authenticate, manager
  <2>4. /\ pc' \in [Handlers -> PCs] /\ who' \in [Handlers -> Ids]
        /\ \A g \in Handlers : HandlerOK(g)'
    BY <2>1, <2>2, <2>3, HandlersKept DEF PCs, Ids
  <2> QED
    BY <1>1, <2>4 DEF Authenticate, TypeOK, disk, manager
<1>2. ASSUME NEW h \in Handlers, RecordRejected(h)
      PROVE  TypeOK'
  <2>1. /\ pc' \in [Handlers -> PCs] /\ who' \in [Handlers -> Ids]
        /\ \A g \in Handlers : HandlerOK(g)'
    BY <1>2, HandlersKept DEF RecordRejected, Finish, PCs, Ids
  <2> QED
    BY <1>2, <2>1, RecordEffect DEF RecordRejected, TypeOK
<1>3. ASSUME NEW h \in Handlers, PublicKey(h)
      PROVE  TypeOK'
  <2>1. /\ pc' \in [Handlers -> PCs] /\ who' \in [Handlers -> Ids]
        /\ \A g \in Handlers : HandlerOK(g)'
    BY <1>3, HandlersKept DEF PublicKey, Finish, manager, PCs, Ids
  <2> QED
    BY <1>3, <2>1 DEF PublicKey, TypeOK, disk, manager
<1>4. ASSUME NEW h \in Handlers, Allowed(h)
      PROVE  TypeOK'
  <2>1. HandlerOK(h) /\ pc[h] = "authed"
    BY <1>4 DEF TypeOK, Allowed
  <2>2. PICK p \in {"limited", "admitted"} :
           /\ pc' = [pc EXCEPT ![h] = p]
           /\ p = "limited" => who[h] \in loaded.ids
    BY <1>4, AllowedEffect
  <2>3. who' = [who EXCEPT ![h] = who[h]]
    BY <1>4 DEF Allowed, TypeOK
  <2>4. UNCHANGED <<up, clientsMode, loaded>>
    BY <1>4 DEF Allowed
  <2>5. /\ pc' \in [Handlers -> PCs] /\ who' \in [Handlers -> Ids]
        /\ \A g \in Handlers : HandlerOK(g)'
    BY <2>1, <2>2, <2>3, <2>4, HandlersKept DEF HandlerOK, TypeOK, PCs
  <2>6. \/ UNCHANGED <<autoDisabled, revoked, revokedFile>>
        \/ who[h] \in Clients /\ AutoRevoke(who[h])
    BY <1>4, AllowedEffect DEF TypeOK, ClientFile
  <2>7. /\ autoDisabled' \in SUBSET Clients
        /\ revoked' \in SUBSET Clients
        /\ revokedFile' \in SUBSET Clients
    BY <2>6, AutoRevokeEffect DEF TypeOK
  <2> QED
    BY <1>4, <2>5, <2>7 DEF Allowed, TypeOK, counters
<1>5. ASSUME NEW h \in Handlers, RecordLimited(h)
      PROVE  TypeOK'
  <2>1. /\ pc' \in [Handlers -> PCs] /\ who' \in [Handlers -> Ids]
        /\ \A g \in Handlers : HandlerOK(g)'
    BY <1>5, HandlersKept DEF RecordLimited, Finish, PCs, Ids
  <2> QED
    BY <1>5, <2>1, RecordEffect DEF RecordLimited, TypeOK
<1>6. ASSUME NEW h \in Handlers, NEW ok \in BOOLEAN, Sign(h, ok)
      PROVE  TypeOK'
  <2>1. /\ pc' \in [Handlers -> PCs] /\ who' \in [Handlers -> Ids]
        /\ \A g \in Handlers : HandlerOK(g)'
    BY <1>6, HandlersKept DEF Sign, Finish, PCs, Ids
  <2>2. granted' \in [Clients -> Nat]
    BY <1>6 DEF Sign, TypeOK
  <2>3. Record(who[h], TRUE, ok)
    BY <1>6 DEF Sign
  <2>4. /\ window' \in [Clients -> Nat]
        /\ signs' \in [Clients -> Nat]
        /\ errors' \in [Clients -> Nat]
        /\ autoDisabled' \in SUBSET Clients
        /\ revoked' \in SUBSET Clients
        /\ revokedFile' \in SUBSET Clients
    BY <2>3, RecordEffect
  <2> QED
    BY <1>6, <2>1, <2>2, <2>4 DEF Sign, TypeOK
<1>7. CASE Tick
  BY <1>7 DEF Tick, TypeOK, HandlerOK, SharedMode, disk, manager, handlers
<1>8. CASE Start
  BY <1>8 DEF Start, TypeOK, HandlerOK, SharedMode, ClientFile, disk,
              counters, handlers
<1>9. CASE Stop
  <2>1. /\ pc' \in [Handlers -> PCs] /\ who' \in [Handlers -> Ids]
        /\ \A g \in Handlers : HandlerOK(g)'
    BY <1>9 DEF Stop, HandlerOK, PCs, Ids
  <2>2. loaded' \in ClientFile /\ loaded'.ids = {}
    BY <1>9 DEF Stop, TypeOK, ClientFile
  <2> QED
    BY <1>9, <2>1, <2>2 DEF Stop, TypeOK, disk
<1>10. ASSUME NEW f \in FileContents, WriteClientFile(f)
       PROVE  TypeOK'
  BY <1>10, ConstantsAssumption
     DEF WriteClientFile, TypeOK, HandlerOK, SharedMode, manager, handlers
<1>11. ASSUME NEW c \in Clients, AppendRevoked(c)
       PROVE  TypeOK'
  BY <1>11 DEF AppendRevoked, TypeOK, HandlerOK, SharedMode, manager, handlers
<1>12. CASE UNCHANGED vars
  BY <1>12 DEF vars, TypeOK, HandlerOK, SharedMode, disk, manager, handlers
<1> QED
  BY <1>1, <1>2, <1>3, <1>4, <1>5, <1>6, <1>7, <1>8, <1>9, <1>10, <1>11,
     <1>12 DEF Next

(* The state of the signer and of its handlers is always well formed: in    *)
(* particular no handler is past authentication without a loaded client.    *)
THEOREM TypeCorrect == Spec => []TypeOK
  BY InitTypeOK, NextTypeOK, PTL DEF Spec

-----------------------------------------------------------------------------
(* The overshoot of a limit. *)

(* The counters are exact in every reachable state. *)
LEMMA InitCountersExact == Init => CountersExact
  BY DEF Init, CountersExact, InWindow

LEMMA NextCountersExact ==
    TypeOK /\ CountersExact /\ [Next]_vars => CountersExact'
<1> SUFFICES ASSUME TypeOK, CountersExact, [Next]_vars PROVE CountersExact'
  OBVIOUS
<1>1. CASE UNCHANGED <<window, signs, now, granted>>
  BY <1>1 DEF CountersExact, InWindow
<1>2. ASSUME NEW h \in Handlers, RecordRejected(h) \/ RecordLimited(h)
      PROVE  CountersExact'
  <2>1. ASSUME NEW isSign \in BOOLEAN, Record(who[h], isSign, FALSE),
               UNCHANGED <<now, granted>>
        PROVE  CountersExact'
    <3>1. CASE who[h] \notin loaded.ids
      <4>1. UNCHANGED <<window, signs>>
        BY <2>1, <3>1, RecordIgnores
      <4> QED
        BY <2>1, <4>1 DEF CountersExact, InWindow
    <3>2. CASE who[h] \in loaded.ids
      <4>1. who[h] \in Clients
        BY <3>2 DEF TypeOK, ClientFile
      <4>2. SignsAfter(who[h], isSign, FALSE) = InWindow(who[h], signs[who[h]])
        BY <4>1 DEF SignsAfter, InWindow, TypeOK
      <4>3. /\ window' = [window EXCEPT ![who[h]] = now]
            /\ signs' = [signs EXCEPT ![who[h]] = SignsAfter(who[h], isSign, FALSE)]
        BY <2>1, <3>2, RecordCounts
      <4>4. /\ window'[who[h]] = now /\ signs'[who[h]] = granted[who[h]]
            /\ \A c \in Clients \ {who[h]} :
                  window'[c] = window[c] /\ signs'[c] = signs[c]
        BY <4>1, <4>2, <4>3 DEF TypeOK, CountersExact
      <4> QED
        BY <2>1, <4>1, <4>4 DEF CountersExact, InWindow, TypeOK
    <3> QED
      BY <3>1, <3>2
  <2>2. CASE RecordRejected(h)
    <3>1. Record(who[h], FALSE, FALSE) /\ UNCHANGED <<now, granted>>
      BY <2>2 DEF RecordRejected
    <3> QED
      BY <2>1, <3>1
  <2>3. CASE RecordLimited(h)
    <3>1. Record(who[h], TRUE, FALSE) /\ UNCHANGED <<now, granted>>
      BY <2>3 DEF RecordLimited
    <3> QED
      BY <2>1, <3>1
  <2> QED
    BY <1>2, <2>2, <2>3
<1>3. ASSUME NEW h \in Handlers, NEW ok \in BOOLEAN, Sign(h, ok)
      PROVE  CountersExact'
  <2>1. Record(who[h], TRUE, ok) /\ now' = now
    BY <1>3 DEF Sign
  <2>2. granted' = [c \in Clients |->
                      IF ok /\ c = who[h] THEN granted[c] + 1 ELSE granted[c]]
    BY <1>3 DEF Sign
  <2>3. CASE who[h] \notin loaded.ids
    <3>1. who[h] \notin Clients
      BY <1>3, <2>3, ConstantsAssumption DEF Sign, TypeOK, HandlerOK, SharedMode
    <3>2. granted' = granted
      BY <2>2, <3>1 DEF TypeOK
    <3>3. UNCHANGED <<window, signs>>
      BY <2>1, <2>3, RecordIgnores
    <3> QED
      BY <2>1, <3>2, <3>3 DEF CountersExact, InWindow
  <2>4. CASE who[h] \in loaded.ids
    <3>1. who[h] \in Clients
      BY <2>4 DEF TypeOK, ClientFile
    <3>2. /\ window' = [window EXCEPT ![who[h]] = now]
          /\ signs' = [signs EXCEPT ![who[h]] = SignsAfter(who[h], TRUE, ok)]
      BY <2>1, <2>4, RecordCounts
    <3>3. SignsAfter(who[h], TRUE, ok) =
             granted[who[h]] + (IF ok THEN 1 ELSE 0)
      BY <3>1 DEF SignsAfter, CountersExact
    <3>4. granted'[who[h]] = granted[who[h]] + (IF ok THEN 1 ELSE 0)
      BY <2>2, <3>1 DEF TypeOK
    <3>5. \A c \in Clients \ {who[h]} : granted'[c] = granted[c]
      BY <2>2
    <3>6. /\ window'[who[h]] = now /\ signs'[who[h]] = granted'[who[h]]
          /\ \A c \in Clients \ {who[h]} :
                window'[c] = window[c] /\ signs'[c] = signs[c]
      BY <3>1, <3>2, <3>3, <3>4 DEF TypeOK
    <3> QED
      BY <2>1, <3>1, <3>5, <3>6 DEF CountersExact, InWindow, TypeOK
  <2> QED
    BY <2>3, <2>4
<1>4. CASE Tick
  BY <1>4 DEF Tick, CountersExact, InWindow, TypeOK, manager
<1>5. CASE Stop
  BY <1>5 DEF Stop, CountersExact, InWindow, TypeOK
<1> QED
  <2>1. ASSUME NEW h \in Handlers, NEW t \in Tokens, Authenticate(h, t)
        PROVE  CountersExact'
    BY <2>1, <1>1 DEF Authenticate, manager
  <2>2. ASSUME NEW h \in Handlers, PublicKey(h) \/ Allowed(h)
        PROVE  CountersExact'
    BY <2>2, <1>1 DEF PublicKey, Allowed, manager, counters
  <2>3. CASE Start
    BY <2>3, <1>1 DEF Start, counters
  <2>4. ASSUME NEW f \in FileContents, WriteClientFile(f)
        PROVE  CountersExact'
    BY <2>4, <1>1 DEF WriteClientFile, manager
  <2>5. ASSUME NEW c \in Clients, AppendRevoked(c)
        PROVE  CountersExact'
    BY <2>5, <1>1 DEF AppendRevoked, manager
  <2>6. CASE UNCHANGED vars
    BY <2>6, <1>1 DEF vars, manager
  <2> QED
    BY <1>2, <1>3, <1>4, <1>5, <2>1, <2>2, <2>3, <2>4, <2>5, <2>6 DEF Next

(* As long as its window is the current minute a client's counter is the    *)
(* number of signatures it was really given in that minute by this process. *)
THEOREM CountersAreExact == Spec => []CountersExact
  BY TypeCorrect, InitCountersExact, NextCountersExact, PTL DEF Spec

(* The inductive form of OvershootBounded: the signatures given and those   *)
(* that requests past `allowed' may still give, together.                   *)
SpentOrAdmitted(c, limit) ==
    limit > 0 => granted[c] + Cardinality(Admitted(c)) < limit + Slots

OvershootInv ==
    /\ ~up => \A c \in Clients : granted[c] = 0
    /\ \A c \in loaded.ids : /\ SpentOrAdmitted(c, loaded.cfg[c].rate)
                             /\ SpentOrAdmitted(c, loaded.cfg[c].signLimit)

(* A set of admitted handlers is finite and no larger than the pool. *)
LEMMA AdmittedFinite ==
    ASSUME NEW c
    PROVE  /\ IsFiniteSet(Admitted(c)) /\ Cardinality(Admitted(c)) \in Nat
           /\ Slots \in Nat /\ Cardinality(Admitted(c)) <= Slots
<1>1. IsFiniteSet(Handlers) /\ Admitted(c) \subseteq Handlers
  BY ConstantsAssumption DEF Admitted
<1> QED
  BY <1>1, FS_Subset, FS_CardinalityType DEF Slots

(* The same after a step. *)
LEMMA AdmittedFiniteNext ==
    ASSUME NEW c
    PROVE  /\ IsFiniteSet(Admitted(c)') /\ Cardinality(Admitted(c)') \in Nat
           /\ Cardinality(Admitted(c)') <= Slots
<1>1. IsFiniteSet(Handlers) /\ Admitted(c)' \subseteq Handlers
  BY ConstantsAssumption DEF Admitted
<1> QED
  BY <1>1, FS_Subset, FS_CardinalityType DEF Slots

(* A handler that moves to a place other than "admitted" leaves the set. *)
LEMMA AdmittedWithout ==
    ASSUME TypeOK, NEW h \in Handlers, NEW p, NEW w, p # "admitted",
           pc' = [pc EXCEPT ![h] = p], who' = [who EXCEPT ![h] = w]
    PROVE  \A c : Admitted(c)' = Admitted(c) \ {h}
  BY DEF TypeOK, Admitted

(* Nothing is spent and nobody is admitted: the invariant stays. *)
LEMMA NothingSpent ==
    ASSUME TypeOK, OvershootInv, UNCHANGED <<up, loaded, granted>>,
           \A c : Admitted(c)' \subseteq Admitted(c)
    PROVE  OvershootInv'
<1>1. ASSUME NEW c \in loaded.ids, NEW limit \in Nat, SpentOrAdmitted(c, limit)
      PROVE  limit > 0 =>
               granted'[c] + Cardinality(Admitted(c)') < limit + Slots
  <2>1. c \in Clients
    BY DEF TypeOK, ClientFile
  <2>2. Cardinality(Admitted(c)') <= Cardinality(Admitted(c))
    BY AdmittedFinite, FS_Subset
  <2> QED
    BY <1>1, <2>1, <2>2, AdmittedFinite, AdmittedFiniteNext
       DEF SpentOrAdmitted, TypeOK
<1>2. \A c \in loaded.ids : /\ loaded.cfg[c].rate \in Nat
                           /\ loaded.cfg[c].signLimit \in Nat
  BY DEF TypeOK, ClientFile, ClientConfig, Limits
<1> QED
  BY <1>1, <1>2 DEF OvershootInv, SpentOrAdmitted

(* The initial states satisfy the inductive form. *)
LEMMA InitOvershootInv == Init => OvershootInv
  BY DEF Init, OvershootInv

(* Every step preserves it. *)
LEMMA NextOvershootInv ==
    TypeOK /\ CountersExact /\ OvershootInv /\ [Next]_vars => OvershootInv'
<1> SUFFICES ASSUME TypeOK, CountersExact, OvershootInv, [Next]_vars
             PROVE  OvershootInv'
  OBVIOUS
<1>t. \A c \in loaded.ids : /\ c \in Clients
                           /\ loaded.cfg[c].rate \in Nat
                           /\ loaded.cfg[c].signLimit \in Nat
  BY DEF TypeOK, ClientFile, ClientConfig, Limits
<1>1. ASSUME NEW h \in Handlers, NEW t \in Tokens, Authenticate(h, t)
      PROVE  OvershootInv'
  <2>1. PICK r \in AuthResults(t) :
           /\ who' = [who EXCEPT ![h] = r.id]
           /\ pc' = [pc EXCEPT ![h] = IF r.ok THEN "authed" ELSE "rejected"]
    BY <1>1 DEF Authenticate
  <2>2. (IF r.ok THEN "authed" ELSE "rejected") # "admitted"
    OBVIOUS
  <2>3. \A c : Admitted(c)' = Admitted(c) \ {h}
    BY <2>1, <2>2, AdmittedWithout
  <2> QED
    BY <1>1, <2>3, NothingSpent DEF Authenticate, manager
<1>2. ASSUME NEW h \in Handlers,
             RecordRejected(h) \/ PublicKey(h) \/ RecordLimited(h)
      PROVE  OvershootInv'
  <2>1. Finish(h) /\ UNCHANGED <<up, loaded, granted>>
    BY <1>2 DEF RecordRejected, PublicKey, RecordLimited, manager
  <2>2. \A c : Admitted(c)' = Admitted(c) \ {h}
    BY <2>1, AdmittedWithout DEF Finish
  <2> QED
    BY <2>1, <2>2, NothingSpent
<1>3. ASSUME NEW h \in Handlers, Allowed(h)
      PROVE  OvershootInv'
  <2>1. UNCHANGED <<up, loaded, granted>> /\ who' = [who EXCEPT ![h] = who[h]]
    BY <1>3 DEF Allowed, TypeOK
  <2>2. CASE pc' = [pc EXCEPT ![h] = "limited"]
    <3>1. \A c : Admitted(c)' = Admitted(c) \ {h}
      BY <2>1, <2>2, AdmittedWithout
    <3> QED
      BY <2>1, <3>1, NothingSpent
  <2>3. CASE /\ pc' = [pc EXCEPT ![h] = "admitted"]
             /\ who[h] \in loaded.ids =>
                   ~RateReached(who[h]) /\ ~SignLimitReached(who[h])
    <3>1. ASSUME NEW c \in loaded.ids, NEW limit \in Nat,
                 SpentOrAdmitted(c, limit),
                 c = who[h] /\ limit > 0 => signs[c] < limit
          PROVE  SpentOrAdmitted(c, limit)'
      <4>1. c \in Clients /\ granted'[c] = granted[c] /\ granted[c] \in Nat
            /\ signs[c] \in Nat
        BY <1>t, <2>1 DEF TypeOK
      <4>2. CASE c # who[h]
        <5>1. Admitted(c)' = Admitted(c)
          BY <2>1, <2>3, <4>2 DEF Admitted, TypeOK
        <5> QED
          BY <3>1, <4>1, <5>1 DEF SpentOrAdmitted
      <4>3. CASE c = who[h]
        <5>1. granted[c] <= signs[c]
          BY <4>1 DEF CountersExact, InWindow
        <5>2. /\ Cardinality(Admitted(c)') \in Nat /\ Slots \in Nat
              /\ Cardinality(Admitted(c)') <= Slots
          BY AdmittedFiniteNext, AdmittedFinite
        <5>3. limit > 0 => granted'[c] < limit
          BY <3>1, <4>1, <4>3, <5>1
        <5> QED
          BY <4>1, <5>2, <5>3 DEF SpentOrAdmitted
      <4> QED
        BY <4>2, <4>3
    <3>2. ASSUME NEW c \in loaded.ids
          PROVE  /\ SpentOrAdmitted(c, loaded.cfg[c].rate)'
                 /\ SpentOrAdmitted(c, loaded.cfg[c].signLimit)'
      <4>1. c = who[h] => ~RateReached(c) /\ ~SignLimitReached(c)
        BY <2>3
      <4>2. /\ c = who[h] /\ loaded.cfg[c].rate > 0 =>
                 signs[c] < loaded.cfg[c].rate
            /\ c = who[h] /\ loaded.cfg[c].signLimit > 0 =>
                 signs[c] < loaded.cfg[c].signLimit
        BY <1>t, <4>1 DEF RateReached, SignLimitReached, TypeOK
      <4>3. /\ SpentOrAdmitted(c, loaded.cfg[c].rate)
            /\ SpentOrAdmitted(c, loaded.cfg[c].signLimit)
        BY DEF OvershootInv
      <4>4. \A limit \in Nat :
               SpentOrAdmitted(c, limit) /\
               (c = who[h] /\ limit > 0 => signs[c] < limit)
               => SpentOrAdmitted(c, limit)'
        BY <3>1
      <4>5. loaded'.cfg[c] = loaded.cfg[c]
        BY <2>1
      <4> QED
        BY <1>t, <4>2, <4>3, <4>4, <4>5 DEF SpentOrAdmitted
    <3>3. ~up' => \A c \in Clients : granted'[c] = 0
      BY <2>1 DEF OvershootInv
    <3>4. loaded' = loaded
      BY <2>1
    <3> QED
      BY <3>2, <3>3, <3>4 DEF OvershootInv
  <2> QED
    BY <1>3, <2>2, <2>3, AllowedEffect
<1>4. ASSUME NEW h \in Handlers, NEW ok \in BOOLEAN, Sign(h, ok)
      PROVE  OvershootInv'
  <2>1. /\ UNCHANGED <<up, loaded>> /\ up
        /\ h \in Admitted(who[h]) /\ Finish(h)
    BY <1>4 DEF Sign, Admitted, TypeOK, HandlerOK
  <2>2. \A c : Admitted(c)' = Admitted(c) \ {h}
    BY <2>1, AdmittedWithout DEF Finish
  <2>3. ASSUME NEW c \in loaded.ids, NEW limit \in Nat,
               SpentOrAdmitted(c, limit)
        PROVE  SpentOrAdmitted(c, limit)'
    <3>1. c \in Clients /\ granted[c] \in Nat
      BY <1>t DEF TypeOK
    <3>2. CASE c # who[h]
      <4>1. granted'[c] = granted[c]
        BY <1>4, <3>1, <3>2 DEF Sign
      <4>2. Cardinality(Admitted(c)') <= Cardinality(Admitted(c))
        BY <2>2, AdmittedFinite, FS_Subset
      <4> QED
        BY <2>3, <3>1, <4>1, <4>2, AdmittedFinite, AdmittedFiniteNext
           DEF SpentOrAdmitted
    <3>3. CASE c = who[h]
      <4>1. granted'[c] <= granted[c] + 1 /\ granted'[c] \in Nat
        BY <1>4, <3>1, <3>3 DEF Sign
      <4>2. Cardinality(Admitted(c) \ {h}) = Cardinality(Admitted(c)) - 1
        BY <2>1, <3>3, AdmittedFinite, FS_RemoveElement
      <4>3. Cardinality(Admitted(c)') = Cardinality(Admitted(c)) - 1
        BY <2>2, <4>2
      <4> QED
        BY <2>3, <3>1, <4>1, <4>3, AdmittedFinite, AdmittedFiniteNext
           DEF SpentOrAdmitted
    <3> QED
      BY <3>2, <3>3
  <2>4. \A c \in loaded.ids, limit \in Nat :
           SpentOrAdmitted(c, limit) => SpentOrAdmitted(c, limit)'
    BY <2>3
  <2>5. loaded' = loaded /\ up' = up
    BY <2>1
  <2> QED
    BY <1>t, <2>1, <2>4, <2>5 DEF OvershootInv, SpentOrAdmitted
<1>5. CASE Tick
  <2>1. UNCHANGED <<up, loaded>> /\ \A c \in Clients : granted'[c] = 0
    BY <1>5 DEF Tick, manager
  <2>2. \A c \in loaded.ids, limit \in Nat : SpentOrAdmitted(c, limit)'
    BY <1>t, <2>1, AdmittedFinite, AdmittedFiniteNext DEF SpentOrAdmitted
  <2>3. loaded' = loaded
    BY <2>1
  <2> QED
    BY <1>t, <2>1, <2>2, <2>3 DEF OvershootInv, SpentOrAdmitted
<1>6. CASE Start
  <2>1. up' /\ \A c \in Clients : granted'[c] = 0
    BY <1>6 DEF Start, OvershootInv
  <2>2. loaded' \in ClientFile
    BY <1>6, NextTypeOK DEF TypeOK
  <2>3. \A c \in loaded'.ids : /\ c \in Clients
                              /\ loaded'.cfg[c].rate \in Nat
                              /\ loaded'.cfg[c].signLimit \in Nat
    BY <2>2 DEF ClientFile, ClientConfig, Limits
  <2>4. \A c \in Clients, limit \in Nat : SpentOrAdmitted(c, limit)'
    BY <2>1, AdmittedFinite, AdmittedFiniteNext DEF SpentOrAdmitted
  <2> QED
    BY <2>1, <2>3, <2>4 DEF OvershootInv, SpentOrAdmitted
<1>7. CASE Stop
  <2>1. loaded'.ids = {} /\ \A c \in Clients : granted'[c] = 0
    BY <1>7 DEF Stop, TypeOK, ClientFile
  <2> QED
    BY <2>1 DEF OvershootInv
<1>8. CASE \/ \E f \in FileContents : WriteClientFile(f)
           \/ \E c \in Clients : AppendRevoked(c)
           \/ UNCHANGED vars
  <2>1. UNCHANGED <<up, loaded, granted, pc, who>>
    BY <1>8 DEF WriteClientFile, AppendRevoked, vars, manager, handlers
  <2>2. \A c : Admitted(c)' = Admitted(c)
    BY <2>1 DEF Admitted
  <2> QED
    BY <2>1, <2>2, NothingSpent
<1> QED
  BY <1>1, <1>2, <1>3, <1>4, <1>5, <1>6, <1>7, <1>8 DEF Next

(* The inductive form implies the bound. *)
LEMMA OvershootInvBounds == TypeOK /\ OvershootInv => OvershootBounded
<1> SUFFICES ASSUME TypeOK, OvershootInv PROVE OvershootBounded
  OBVIOUS
<1>1. ASSUME NEW c \in loaded.ids, NEW limit \in Nat, SpentOrAdmitted(c, limit)
      PROVE  WithinLimit(c, limit)
  BY <1>1, AdmittedFinite DEF SpentOrAdmitted, WithinLimit, TypeOK, ClientFile
<1> QED
  BY <1>1 DEF OvershootInv, OvershootBounded, TypeOK, ClientFile,
              ClientConfig, Limits

(* However the handlers interleave, in one minute one process gives a       *)
(* client with a limit L fewer than L + |Handlers| signatures.              *)
THEOREM OvershootIsBounded == Spec => []OvershootBounded
  BY TypeCorrect, CountersAreExact, InitOvershootInv, NextOvershootInv,
     OvershootInvBounds, PTL DEF Spec

-----------------------------------------------------------------------------
(* Barring. *)

(* While a handler works, nothing is unbarred, and only the client it works *)
(* for may be barred, in memory first and on disk at most.                  *)
BarsAtMost(c) ==
    /\ UNCHANGED <<up, clientsMode, loaded>>
    /\ \/ UNCHANGED <<autoDisabled, revoked, revokedFile>>
       \/ c \in loaded.ids /\ AutoRevoke(c)

(* Each of the five handler steps after authentication is of that kind. *)
LEMMA HandlerStepBars ==
    ASSUME TypeOK, NEW h \in Handlers,
           \/ RecordRejected(h) \/ PublicKey(h) \/ Allowed(h)
           \/ RecordLimited(h) \/ \E ok \in BOOLEAN : Sign(h, ok)
    PROVE  up /\ pc[h] # "idle" /\ BarsAtMost(who[h])
<1>1. pc[h] # "idle"
  BY DEF RecordRejected, PublicKey, Allowed, RecordLimited, Sign
<1>2. up
  BY <1>1 DEF TypeOK, HandlerOK
<1>3. CASE RecordRejected(h)
  <2>1. Record(who[h], FALSE, FALSE) /\ UNCHANGED <<up, clientsMode, loaded>>
    BY <1>3 DEF RecordRejected
  <2> QED
    BY <1>1, <1>2, <2>1, RecordEffect DEF BarsAtMost
<1>4. CASE PublicKey(h)
  BY <1>1, <1>2, <1>4 DEF PublicKey, BarsAtMost, disk, manager
<1>5. CASE Allowed(h)
  BY <1>1, <1>2, <1>5, AllowedEffect DEF Allowed, BarsAtMost
<1>6. CASE RecordLimited(h)
  <2>1. Record(who[h], TRUE, FALSE) /\ UNCHANGED <<up, clientsMode, loaded>>
    BY <1>6 DEF RecordLimited
  <2> QED
    BY <1>1, <1>2, <2>1, RecordEffect DEF BarsAtMost
<1>7. ASSUME NEW ok \in BOOLEAN, Sign(h, ok)
      PROVE  BarsAtMost(who[h])
  <2>1. Record(who[h], TRUE, ok) /\ UNCHANGED <<up, clientsMode, loaded>>
    BY <1>7 DEF Sign
  <2> QED
    BY <2>1, RecordEffect DEF BarsAtMost
<1> QED
  BY <1>1, <1>2, <1>3, <1>4, <1>5, <1>6, <1>7

(* A step that bars at most c adds c, or nothing, to what the gate sees. *)
LEMMA BarsAtMostOnGate ==
    ASSUME TypeOK, up, NEW c, BarsAtMost(c)
    PROVE  \E B, L \in SUBSET Principals :
              /\ B \subseteq {c} /\ L \subseteq B
              /\ Effective' = Effective \cup B
              /\ revokedFile' = revokedFile \cup L
<1>1. CASE UNCHANGED <<autoDisabled, revoked, revokedFile>>
  <2>1. Effective' = Effective
    BY <1>1 DEF BarsAtMost, Effective, SharedMode, Barred
  <2> WITNESS {} \in SUBSET Principals, {} \in SUBSET Principals
  <2> QED
    BY <1>1, <2>1
<1>2. CASE c \in loaded.ids /\ AutoRevoke(c)
  <2>1. c \in Clients /\ ~SharedMode
    BY <1>2 DEF TypeOK, ClientFile, SharedMode
  <2>2. /\ autoDisabled' = autoDisabled \cup {c}
        /\ revoked' = revoked \cup {c}
        /\ revokedFile' \in {revokedFile, revokedFile \cup {c}}
    BY <1>2, <2>1, AutoRevokeEffect
  <2>3. UNCHANGED <<up, clientsMode, loaded>> /\ ~SharedMode'
    BY <2>1 DEF BarsAtMost, SharedMode
  <2>4. \A d \in Clients : Barred(d)' <=> Barred(d) \/ d = c
    BY <2>2, <2>3 DEF Barred
  <2>5. Effective' = Effective \cup {c}
    BY <2>1, <2>3, <2>4 DEF Effective
  <2>6. {} \in SUBSET Principals /\ {c} \in SUBSET Principals
    BY <2>1 DEF Principals
  <2> QED
    BY <2>2, <2>5, <2>6
<1> QED
  BY <1>1, <1>2 DEF BarsAtMost

(* A step of one handler changes its own slot of the gate. *)
LEMMA LiveAfter ==
    ASSUME TypeOK, NEW h \in Handlers, NEW p, NEW w,
           pc' = [pc EXCEPT ![h] = p], who' = [who EXCEPT ![h] = w]
    PROVE  LiveOf' = [LiveOf EXCEPT ![h] =
                        IF p \in {"authed", "admitted"} THEN w ELSE NoClient]
  BY DEF TypeOK, LiveOf

(* A handler that leaves empties its slot. *)
LEMMA LiveCleared ==
    ASSUME TypeOK, NEW h \in Handlers, NEW p, NEW w,
           p \notin {"authed", "admitted"},
           pc' = [pc EXCEPT ![h] = p], who' = [who EXCEPT ![h] = w]
    PROVE  LiveOf' = [LiveOf EXCEPT ![h] = NoClient]
  BY LiveAfter

(* The principal in a live slot. *)
LEMMA LiveSlot ==
    ASSUME TypeOK, NEW h \in Handlers, pc[h] \in {"authed", "admitted"}
    PROVE  LiveOf[h] = who[h] /\ who[h] \in Principals /\ who[h] # NoClient
  BY ConstantsAssumption DEF LiveOf, TypeOK, HandlerOK, ClientFile, Principals

(* A token is accepted only for a principal that is not barred. *)
LEMMA AuthResultOpen ==
    ASSUME TypeOK, up, NEW t, NEW r \in AuthResults(t)
    PROVE  r.ok => r.id \in Principals /\ r.id \notin Effective
<1>1. CASE SharedMode
  <2>1. r = [id |-> IF SharedAccepts(t) THEN Shared ELSE NoClient,
             ok |-> SharedAccepts(t)]
    BY <1>1 DEF AuthResults
  <2>2. r.ok => r.id = Shared
    BY <2>1
  <2> QED
    BY <1>1, <2>2, ConstantsAssumption DEF Effective, Principals
<1>2. CASE ~SharedMode /\ Matching(t) = {}
  <2>1. r = [id |-> NoClient, ok |-> FALSE]
    BY <1>2 DEF AuthResults
  <2> QED
    BY <2>1
<1>3. CASE ~SharedMode /\ Matching(t) # {}
  <2>1. PICK c \in Matching(t) : r = [id |-> c, ok |-> ~Denied(c)]
    BY <1>3 DEF AuthResults
  <2>2. c \in loaded.ids /\ c \in Clients /\ c # Shared
    BY <2>1, ConstantsAssumption DEF Matching, TypeOK, ClientFile
  <2>3. r.id = c /\ (r.ok => ~Barred(c))
    BY <2>1, <2>2 DEF Denied, Barred
  <2> QED
    BY <1>3, <2>2, <2>3 DEF Effective, Principals
<1> QED
  BY <1>1, <1>2, <1>3

(* The initial states of the signer are initial states of the gate. *)
LEMMA InitGate == Init => Gate!Init
  BY DEF Init, Gate!Init, Effective, Principals, LiveOf

(* Every step of the signer is a step of the gate or a stutter. *)
LEMMA NextGate == TypeOK /\ [Next]_vars => [Gate!Next]_(Gate!vars)
<1> SUFFICES ASSUME TypeOK, [Next]_vars
             PROVE  Gate!Next \/ UNCHANGED <<Effective, revokedFile, LiveOf>>
  BY DEF Gate!vars
<1>1. ASSUME NEW h \in Handlers, NEW t \in Tokens, Authenticate(h, t)
      PROVE  Gate!Next \/ UNCHANGED <<Effective, revokedFile, LiveOf>>
  <2>1. PICK r \in AuthResults(t) :
           /\ who' = [who EXCEPT ![h] = r.id]
           /\ pc' = [pc EXCEPT ![h] = IF r.ok THEN "authed" ELSE "rejected"]
    BY <1>1 DEF Authenticate
  <2>2. up /\ UNCHANGED <<up, revokedFile, clientsMode, loaded, autoDisabled, revoked>>
    BY <1>1 DEF Authenticate, disk, manager
  <2>3. Effective' = Effective
    BY <2>2 DEF Effective, SharedMode, Barred
  <2>4. LiveOf[h] = NoClient
    BY <1>1 DEF Authenticate, LiveOf
  <2>5. CASE r.ok
    <3>1. LiveOf' = [LiveOf EXCEPT ![h] = r.id]
      BY <2>1, <2>5, LiveAfter
    <3>2. r.id \in Principals /\ r.id \notin Effective
      BY <2>1, <2>2, <2>5, AuthResultOpen
    <3>3. Gate!Enter(h, r.id)
      BY <2>2, <2>3, <2>4, <3>1, <3>2 DEF Gate!Enter
    <3> QED
      BY <3>2, <3>3 DEF Gate!Next
  <2>6. CASE ~r.ok
    <3>1. pc' = [pc EXCEPT ![h] = "rejected"]
      BY <2>1, <2>6
    <3>2. LiveOf' = [LiveOf EXCEPT ![h] = NoClient]
      BY <2>1, <3>1, LiveCleared
    <3>3. LiveOf' = LiveOf
      BY <2>4, <3>2 DEF LiveOf
    <3> QED
      BY <2>2, <2>3, <3>3
  <2> QED
    BY <2>5, <2>6
<1>2. ASSUME NEW h \in Handlers, RecordRejected(h) \/ RecordLimited(h)
      PROVE  Gate!Next \/ UNCHANGED <<Effective, revokedFile, LiveOf>>
  <2>1. PICK B, L \in SUBSET Principals :
           /\ B \subseteq {who[h]} /\ L \subseteq B
           /\ Effective' = Effective \cup B
           /\ revokedFile' = revokedFile \cup L
    BY <1>2, HandlerStepBars, BarsAtMostOnGate
  <2>2. LiveOf' = [LiveOf EXCEPT ![h] = NoClient]
    BY <1>2, LiveAfter DEF RecordRejected, RecordLimited, Finish
  <2>3. LiveOf[h] = NoClient
    BY <1>2 DEF RecordRejected, RecordLimited, LiveOf
  <2>4. LiveOf' = LiveOf
    BY <2>2, <2>3 DEF LiveOf
  <2>5. Gate!Bar(B, L)
    BY <2>1, <2>4 DEF Gate!Bar
  <2> QED
    BY <2>5 DEF Gate!Next
<1>3. ASSUME NEW h \in Handlers,
             \/ PublicKey(h)
             \/ Allowed(h) /\ pc' = [pc EXCEPT ![h] = "limited"]
             \/ \E ok \in BOOLEAN : Sign(h, ok)
      PROVE  Gate!Next \/ UNCHANGED <<Effective, revokedFile, LiveOf>>
  <2>1. PICK B, L \in SUBSET Principals :
           /\ B \subseteq {who[h]} /\ L \subseteq B
           /\ Effective' = Effective \cup B
           /\ revokedFile' = revokedFile \cup L
    BY <1>3, HandlerStepBars, BarsAtMostOnGate
  <2>2. LiveOf[h] = who[h] /\ who[h] # NoClient
    BY <1>3, LiveSlot DEF PublicKey, Allowed, Sign
  <2>3. LiveOf' = [LiveOf EXCEPT ![h] = NoClient]
    <3>1. CASE Allowed(h) /\ pc' = [pc EXCEPT ![h] = "limited"]
      <4>1. who' = [who EXCEPT ![h] = who[h]]
        BY <3>1 DEF Allowed, TypeOK
      <4> QED
        BY <3>1, <4>1, LiveCleared
    <3>2. CASE PublicKey(h) \/ \E ok \in BOOLEAN : Sign(h, ok)
      <4>1. Finish(h)
        BY <3>2 DEF PublicKey, Sign
      <4> QED
        BY <4>1, LiveAfter DEF Finish
    <3> QED
      BY <1>3, <3>1, <3>2
  <2>4. Gate!Leave(h, B, L)
    BY <2>1, <2>2, <2>3 DEF Gate!Leave
  <2> QED
    BY <2>4 DEF Gate!Next
<1>4. ASSUME NEW h \in Handlers, Allowed(h),
             pc' = [pc EXCEPT ![h] = "admitted"],
             UNCHANGED <<autoDisabled, revoked, revokedFile>>
      PROVE  Gate!Next \/ UNCHANGED <<Effective, revokedFile, LiveOf>>
  <2>1. LiveOf' = LiveOf
    BY <1>4 DEF Allowed, LiveOf, TypeOK
  <2>2. Effective' = Effective
    BY <1>4 DEF Allowed, Effective, SharedMode, Barred
  <2> QED
    BY <1>4, <2>1, <2>2
<1>5. CASE Start
  <2>1. revokedFile \subseteq Effective'
    BY <1>5 DEF Start, Effective, SharedMode, Barred, TypeOK
  <2>2. Effective' \in SUBSET Principals
    BY DEF Effective, Principals
  <2>3. \A h \in Handlers : pc[h] = "idle"
    BY <1>5 DEF Start, TypeOK, HandlerOK
  <2>4. LiveOf' = [h \in Handlers |-> NoClient]
    BY <1>5, <2>3 DEF Start, LiveOf, handlers
  <2>5. Gate!Restart(Effective')
    BY <1>5, <2>1, <2>4 DEF Start, Gate!Restart, disk
  <2> QED
    BY <2>2, <2>5 DEF Gate!Next
<1>6. CASE Stop
  <2>1. Effective' = Principals /\ revokedFile \subseteq Principals
    BY <1>6 DEF Stop, Effective, TypeOK, Principals
  <2>2. LiveOf' = [h \in Handlers |-> NoClient]
    BY <1>6 DEF Stop, LiveOf
  <2>3. Gate!Restart(Principals)
    BY <1>6, <2>1, <2>2 DEF Stop, Gate!Restart, disk
  <2> QED
    BY <2>3 DEF Gate!Next
<1>7. ASSUME NEW c \in Clients, AppendRevoked(c)
      PROVE  Gate!Next \/ UNCHANGED <<Effective, revokedFile, LiveOf>>
  <2>1. Effective' = Effective /\ LiveOf' = LiveOf
    BY <1>7 DEF AppendRevoked, Effective, SharedMode, Barred, LiveOf, manager,
                handlers
  <2>2. Gate!List(c)
    BY <1>7, <2>1 DEF AppendRevoked, Gate!List
  <2> QED
    BY <2>2 DEF Gate!Next, Principals
<1>8. CASE Tick \/ (\E f \in FileContents : WriteClientFile(f)) \/ UNCHANGED vars
  <2>1. UNCHANGED <<up, revokedFile, clientsMode, loaded, autoDisabled, revoked,
                    pc, who>>
    BY <1>8 DEF Tick, WriteClientFile, vars, disk, manager, handlers
  <2> QED
    BY <2>1 DEF Effective, SharedMode, Barred, LiveOf
<1> QED
  <2>1. ASSUME NEW h \in Handlers, Allowed(h)
        PROVE  Gate!Next \/ UNCHANGED <<Effective, revokedFile, LiveOf>>
    BY <2>1, <1>3, <1>4, AllowedEffect
  <2> QED
    BY <1>1, <1>2, <1>3, <1>5, <1>6, <1>7, <1>8, <2>1 DEF Next

(* The signer implements the gate: requests enter only for principals that  *)
(* are not barred, and a listed client is barred after every restart.       *)
THEOREM SignerImplementsGate == Spec => ImplementsGate
<1>1. Spec => Gate!Spec
  BY TypeCorrect, InitGate, NextGate, PTL DEF Spec, Gate!Spec
<1> QED
  BY <1>1 DEF ImplementsGate

-----------------------------------------------------------------------------
(* What barring means for requests and for later starts. *)

(* A step keeps the bar on disk as long as appends to the file work. *)
LEMMA NextBarSurvives ==
    ASSUME AppendMayFail = FALSE
    PROVE  TypeOK /\ BarSurvivesRestart /\ [Next]_vars => BarSurvivesRestart'
<1> SUFFICES ASSUME TypeOK, BarSurvivesRestart, [Next]_vars
             PROVE  BarSurvivesRestart'
  OBVIOUS
<1>1. ASSUME NEW c, BarsAtMost(c)
      PROVE  BarSurvivesRestart'
  <2>1. CASE c \in loaded.ids /\ AutoRevoke(c)
    <3>1. c \in Clients
      BY <2>1 DEF TypeOK, ClientFile
    <3>2. /\ autoDisabled' = autoDisabled \cup {c}
          /\ revoked' = revoked \cup {c}
          /\ revokedFile' \in {revokedFile, revokedFile \cup {c}}
          /\ c \notin revoked => c \in revokedFile'
      BY <2>1, <3>1, AutoRevokeEffect
    <3> QED
      BY <3>2 DEF BarSurvivesRestart
  <2> QED
    BY <1>1, <2>1 DEF BarsAtMost, BarSurvivesRestart
<1>2. ASSUME NEW h \in Handlers, NEW t \in Tokens, Authenticate(h, t)
      PROVE  BarSurvivesRestart'
  BY <1>2 DEF Authenticate, BarSurvivesRestart, disk, manager
<1>3. CASE Start
  BY <1>3 DEF Start, BarSurvivesRestart, disk
<1>4. CASE Stop
  BY <1>4 DEF Stop, BarSurvivesRestart
<1>5. CASE \/ Tick
           \/ \E f \in FileContents : WriteClientFile(f)
           \/ \E c \in Clients : AppendRevoked(c)
           \/ UNCHANGED vars
  BY <1>5 DEF Tick, WriteClientFile, AppendRevoked, vars, disk, manager,
              BarSurvivesRestart
<1>6. ASSUME NEW h \in Handlers,
             \/ RecordRejected(h) \/ PublicKey(h) \/ Allowed(h)
             \/ RecordLimited(h) \/ \E ok \in BOOLEAN : Sign(h, ok)
      PROVE  BarSurvivesRestart'
  BY <1>1, <1>6, HandlerStepBars
<1> QED
  BY <1>2, <1>3, <1>4, <1>5, <1>6 DEF Next

(* While appends to revoked-clients.txt work, a client that the running     *)
(* signer bars by itself is barred by every later signer.                   *)
THEOREM BarAlwaysSurvives ==
    ASSUME AppendMayFail = FALSE
    PROVE  Spec => []BarSurvivesRestart
<1>1. Init => BarSurvivesRestart
  BY DEF Init, BarSurvivesRestart
<1> QED
  BY <1>1, TypeCorrect, NextBarSurvives, PTL DEF Spec

(* A step under which a running signer goes on running. *)
LEMMA NextDrains ==
    TypeOK /\ [Next]_vars =>
       \A c \in Clients :
          up /\ up' /\ Barred(c) => InFlight(c)' \subseteq InFlight(c) /\ Barred(c)'
<1> SUFFICES ASSUME TypeOK, [Next]_vars, NEW c \in Clients, up, up', Barred(c)
             PROVE  InFlight(c)' \subseteq InFlight(c) /\ Barred(c)'
  OBVIOUS
<1>1. ASSUME NEW h \in Handlers, NEW t \in Tokens, Authenticate(h, t)
      PROVE  InFlight(c)' \subseteq InFlight(c) /\ Barred(c)'
  <2>1. PICK r \in AuthResults(t) :
           /\ who' = [who EXCEPT ![h] = r.id]
           /\ pc' = [pc EXCEPT ![h] = IF r.ok THEN "authed" ELSE "rejected"]
    BY <1>1 DEF Authenticate
  <2>2. UNCHANGED <<loaded, autoDisabled, revoked>>
    BY <1>1 DEF Authenticate, manager
  <2>3. r.ok => r.id # c
    <3>1. c \in Effective
      BY DEF Effective
    <3>2. up /\ (r.ok => r.id \notin Effective)
      BY <2>1, AuthResultOpen
    <3> QED
      BY <3>1, <3>2
  <2>4. InFlight(c)' \subseteq InFlight(c)
    BY <2>1, <2>3 DEF InFlight, TypeOK
  <2> QED
    BY <2>2, <2>4 DEF Barred
<1>2. ASSUME NEW h \in Handlers,
             \/ RecordRejected(h) \/ PublicKey(h) \/ Allowed(h)
             \/ RecordLimited(h) \/ \E ok \in BOOLEAN : Sign(h, ok)
      PROVE  InFlight(c)' \subseteq InFlight(c) /\ Barred(c)'
  <2>1. BarsAtMost(who[h])
    BY <1>2, HandlerStepBars
  <2>2. /\ loaded' = loaded
        /\ autoDisabled \subseteq autoDisabled' /\ revoked \subseteq revoked'
    BY <2>1, AutoRevokeEffect DEF BarsAtMost, TypeOK, ClientFile
  <2>3. CASE Allowed(h)
    <3>1. pc[h] = "authed" /\ who' = who
          /\ \E p : pc' = [pc EXCEPT ![h] = p]
      BY <2>3, AllowedEffect DEF Allowed
    <3> QED
      BY <2>2, <3>1 DEF InFlight, Barred, TypeOK
  <2>4. CASE Finish(h)
    BY <2>2, <2>4 DEF Finish, InFlight, Barred, TypeOK
  <2> QED
    BY <1>2, <2>3, <2>4 DEF RecordRejected, PublicKey, RecordLimited, Sign
<1>3. CASE \/ Tick
           \/ \E f \in FileContents : WriteClientFile(f)
           \/ \E d \in Clients : AppendRevoked(d)
           \/ UNCHANGED vars
  BY <1>3 DEF Tick, WriteClientFile, AppendRevoked, vars, manager, handlers,
              InFlight, Barred
<1>4. CASE Start \/ Stop
  BY <1>4 DEF Start, Stop
<1> QED
  BY <1>1, <1>2, <1>3, <1>4 DEF Next

(* While the signer runs, the requests in progress for a barred client only *)
(* drain, and the client stays barred.                                      *)
THEOREM BarredOnlyDrains == Spec => BarredDrains
<1>1. TypeOK /\ [Next]_vars =>
        [\A c \in Clients :
            up /\ up' /\ Barred(c) => /\ InFlight(c)' \subseteq InFlight(c)
                                      /\ Barred(c)']_vars
  BY NextDrains
<1> QED
  BY <1>1, TypeCorrect, PTL DEF Spec, BarredDrains

-----------------------------------------------------------------------------
(* The sign threshold with auto_revoke. *)

(* What keeps OverThresholdIsBarred: the signature that crosses the         *)
(* threshold is recorded and bars its client in the same critical section.  *)
LEMMA NextOverThreshold ==
    /\ TypeOK /\ CountersExact /\ OvershootInv /\ OverThresholdIsBarred
    /\ [Next]_vars
    => OverThresholdIsBarred'
<1> SUFFICES ASSUME TypeOK, CountersExact, OvershootInv,
                    OverThresholdIsBarred, [Next]_vars
             PROVE  OverThresholdIsBarred'
  OBVIOUS
<1>1. CASE /\ UNCHANGED <<loaded, granted>>
           /\ autoDisabled \subseteq autoDisabled'
  BY <1>1 DEF OverThresholdIsBarred
<1>2. ASSUME NEW h \in Handlers, NEW ok \in BOOLEAN, Sign(h, ok)
      PROVE  OverThresholdIsBarred'
  <2>1. Record(who[h], TRUE, ok) /\ loaded' = loaded
    BY <1>2 DEF Sign
  <2>2. autoDisabled \subseteq autoDisabled'
    BY <1>2, HandlerStepBars, AutoRevokeEffect DEF BarsAtMost, TypeOK, ClientFile
  <2>3. ASSUME NEW c \in loaded.ids, loaded.cfg[c].autoRevoke,
               loaded.cfg[c].signLimit > 0,
               granted'[c] > loaded.cfg[c].signLimit
        PROVE  c \in autoDisabled'
    <3>1. c \in Clients
      BY DEF TypeOK, ClientFile
    <3>2. CASE c # who[h] \/ ~ok
      <4>1. granted'[c] = granted[c]
        BY <1>2, <3>1, <3>2 DEF Sign
      <4> QED
        BY <2>2, <2>3, <4>1 DEF OverThresholdIsBarred
    <3>3. CASE c = who[h] /\ ok
      <4>1. granted'[c] = granted[c] + 1
        BY <1>2, <3>1, <3>3 DEF Sign
      <4>2. SignsAfter(c, TRUE, ok) = granted[c] + 1
        BY <3>1, <3>3 DEF SignsAfter, CountersExact
      <4>3. OverSigns(c, TRUE, ok)
        BY <2>3, <4>1, <4>2 DEF OverSigns
      <4>4. AutoRevoke(c)
        BY <2>1, <2>3, <3>3, <4>3 DEF Record
      <4> QED
        BY <4>4 DEF AutoRevoke
    <3> QED
      BY <3>2, <3>3
  <2>4. loaded' = loaded
    BY <2>1
  <2> QED
    BY <2>3, <2>4 DEF OverThresholdIsBarred
<1>3. ASSUME NEW h \in Handlers,
             \/ RecordRejected(h) \/ PublicKey(h) \/ Allowed(h)
             \/ RecordLimited(h)
      PROVE  OverThresholdIsBarred'
  <2>1. BarsAtMost(who[h])
    BY <1>3, HandlerStepBars
  <2>2. autoDisabled \subseteq autoDisabled' /\ loaded' = loaded
    BY <2>1, AutoRevokeEffect DEF BarsAtMost, TypeOK, ClientFile
  <2>3. granted' = granted
    BY <1>3 DEF RecordRejected, PublicKey, Allowed, RecordLimited
  <2> QED
    BY <1>1, <2>2, <2>3
<1>4. ASSUME NEW h \in Handlers, NEW t \in Tokens, Authenticate(h, t)
      PROVE  OverThresholdIsBarred'
  BY <1>1, <1>4 DEF Authenticate, manager
<1>5. CASE Tick
  <2>1. loaded' = loaded /\ \A c \in Clients : granted'[c] = 0
    BY <1>5 DEF Tick, manager
  <2>2. \A c \in loaded.ids : c \in Clients /\ loaded.cfg[c].signLimit \in Nat
    BY DEF TypeOK, ClientFile, ClientConfig, Limits
  <2>3. \A c \in loaded.ids : ~(granted'[c] > loaded.cfg[c].signLimit)
    BY <2>1, <2>2
  <2> QED
    BY <2>1, <2>3 DEF OverThresholdIsBarred
<1>6. CASE Start
  <2>1. \A c \in Clients : granted'[c] = 0
    BY <1>6 DEF Start, OvershootInv
  <2>2. loaded' \in ClientFile
    BY <1>6, NextTypeOK DEF TypeOK
  <2>3. \A c \in loaded'.ids : c \in Clients /\ loaded'.cfg[c].signLimit \in Nat
    BY <2>2 DEF ClientFile, ClientConfig, Limits
  <2>4. \A c \in loaded'.ids : ~(granted'[c] > loaded'.cfg[c].signLimit)
    BY <2>1, <2>3
  <2> QED
    BY <2>4 DEF OverThresholdIsBarred
<1>7. CASE Stop
  <2>1. loaded'.ids = {}
    BY <1>7 DEF Stop, TypeOK, ClientFile
  <2> QED
    BY <2>1 DEF OverThresholdIsBarred
<1>8. CASE \/ \E f \in FileContents : WriteClientFile(f)
           \/ \E c \in Clients : AppendRevoked(c)
           \/ UNCHANGED vars
  BY <1>1, <1>8 DEF WriteClientFile, AppendRevoked, vars, manager
<1> QED
  BY <1>2, <1>3, <1>4, <1>5, <1>6, <1>7, <1>8 DEF Next

(* With auto_revoke on, a client that was given more signatures in a minute *)
(* than its sign threshold is disabled from that very record on.            *)
THEOREM OverThresholdBarred == Spec => []OverThresholdIsBarred
<1>1. Init => OverThresholdIsBarred
  BY DEF Init, OverThresholdIsBarred
<1> QED
  BY <1>1, TypeCorrect, CountersAreExact, InitOvershootInv, NextOvershootInv,
     NextOverThreshold, PTL DEF Spec
=============================================================================
