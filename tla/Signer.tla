------------------------------- MODULE Signer -------------------------------
(***************************************************************************)
(* keylessd: the authorisation of signing requests (internal/keyless,      *)
(* authManager) and the two HTTP handlers behind it, run by several        *)
(* goroutines over the two files loaded at startup.                        *)
(*                                                                         *)
(* A handler authenticates under the manager's mutex, releases it, asks    *)
(* `allowed' under the mutex, releases it, reads the body and signs, then  *)
(* records the outcome under the mutex again: each of these is one action. *)
(* Everything in memory is lost when the process stops; clients.json and   *)
(* revoked-clients.txt survive and are read only by the next start.        *)
(*                                                                         *)
(* Abstracted: payloads, the choice of the key, the audit log, and         *)
(* the wording of reasons.  Limits that are not positive are all written   *)
(* 0: the code compares them with > 0 first.                               *)
(***************************************************************************)
EXTENDS Naturals, FiniteSets

CONSTANTS Clients,        \* ids that may appear in clients.json
          Handlers,       \* goroutines serving requests
          Tokens,         \* values of the token header
          SharedToken,    \* KEYLESS_TOKEN, or NoToken when it is empty
          NoToken,
          FileContents,   \* the contents clients.json may have
          Modes,          \* whether KEYLESS_CLIENTS is set (subset of BOOLEAN)
          AppendMayFail,  \* opening or writing revoked-clients.txt may fail
          Shared,         \* the client id "shared"
          NoClient,       \* the empty client id
          MaxMinute,      \* bound: calendar minutes modelled
          MaxRequests     \* bound: requests modelled

Limits == Nat

ClientConfig == [token : Tokens, disabled : BOOLEAN, rate : Limits,
                 signLimit : Limits, errLimit : Limits, autoRevoke : BOOLEAN]

(* A clients.json: the ids present and the entry of each one of them. *)
ClientFile == [ids : SUBSET Clients, cfg : [Clients -> ClientConfig]]

ASSUME ConstantsAssumption ==
    /\ IsFiniteSet(Handlers)
    /\ FileContents \subseteq ClientFile /\ FileContents # {}
    /\ Modes \subseteq BOOLEAN /\ Modes # {}
    /\ AppendMayFail \in BOOLEAN
    /\ Shared \notin Clients /\ NoClient \notin Clients /\ Shared # NoClient
    /\ NoToken \notin Tokens /\ SharedToken \in Tokens \cup {NoToken}
    /\ MaxMinute \in Nat \ {0} /\ MaxRequests \in Nat

VARIABLES
    clientsFile,   \* clients.json
    revokedFile,   \* the ids in revoked-clients.txt
    up,            \* whether the process runs
    clientsMode,   \* authManager.clientsMode
    loaded,        \* authManager.clients: ids and cfg as of the last start
    window,        \* clientState.windowStart, a minute; 0 is the zero time
    signs,         \* clientState.signs
    errors,        \* clientState.errors
    autoDisabled,  \* the clients whose clientState.autoDisabled is set
    revoked,       \* authManager.revoked
    now,           \* the current calendar minute
    pc,            \* where each handler is
    who,           \* the client id in each handler's request context
    arrivals,      \* requests so far
    granted        \* observation: signatures given to each client in this
                   \* minute by this process

disk     == <<clientsFile, revokedFile>>
counters == <<window, signs, errors>>
manager  == <<clientsMode, loaded, window, signs, errors, autoDisabled, revoked>>
handlers == <<pc, who>>
vars == <<disk, up, manager, now, handlers, arrivals, granted>>

-----------------------------------------------------------------------------
(* The manager.  Operators that read unprimed state only are what one       *)
(* critical section computes.                                               *)

(* The token lookup walks a Go map: with two clients of one token the walk  *)
(* may meet either one first, and the first one decides.                    *)
Matching(t) == {c \in loaded.ids : loaded.cfg[c].token = t}

(* Mutant: the revoked list is loaded but not consulted. *)
DeniedByFlagsOnly(c) == loaded.cfg[c].disabled \/ c \in autoDisabled

Denied(c) == \/ loaded.cfg[c].disabled
             \/ c \in autoDisabled
             \/ c \in revoked

SharedMode == ~clientsMode /\ loaded.ids = {}

SharedAccepts(t) == SharedToken = NoToken \/ t = SharedToken

(* Mutant: a token nobody has is let through with no client. *)
AuthResultsOpen(t) ==
    IF SharedMode \/ Matching(t) = {} THEN {[id |-> NoClient, ok |-> TRUE]}
    ELSE {[id |-> c, ok |-> ~Denied(c)] : c \in Matching(t)}

AuthResults(t) ==
    IF SharedMode
    THEN {[id |-> IF SharedAccepts(t) THEN Shared ELSE NoClient,
           ok |-> SharedAccepts(t)]}
    ELSE IF Matching(t) = {}
         THEN {[id |-> NoClient, ok |-> FALSE]}
         ELSE {[id |-> c, ok |-> ~Denied(c)] : c \in Matching(t)}

(* Mutant: > for >=. *)
RateExceeded(c) == /\ loaded.cfg[c].rate > 0
                   /\ signs[c] > loaded.cfg[c].rate

RateReached(c) == /\ loaded.cfg[c].rate > 0
                  /\ signs[c] >= loaded.cfg[c].rate

SignLimitReached(c) == /\ loaded.cfg[c].signLimit > 0
                       /\ signs[c] >= loaded.cfg[c].signLimit

(* Mutant: the bar is kept in memory only. *)
RevokedInMemory(c) == revoked' = revoked \cup {c} /\ UNCHANGED revokedFile

(* The id enters the in-memory set first; a line that cannot be appended to *)
(* the file is dropped without a trace.                                     *)
AppendRevokedLocked(c) ==
    IF c \in revoked
    THEN UNCHANGED <<revoked, revokedFile>>
    ELSE /\ revoked' = revoked \cup {c}
         /\ \/ revokedFile' = revokedFile \cup {c}
            \/ AppendMayFail /\ UNCHANGED revokedFile

AutoRevoke(c) == /\ autoDisabled' = autoDisabled \cup {c}
                 /\ AppendRevokedLocked(c)

(* The counters of the current window: rolled when the minute changed. *)
InWindow(c, n) == IF window[c] = now THEN n ELSE 0

(* Mutant: the counter is not reset in a new minute. *)
SignsUnrolled(c, isSign, ok) == signs[c] + (IF ok /\ isSign THEN 1 ELSE 0)

SignsAfter(c, isSign, ok) ==
    InWindow(c, signs[c]) + (IF ok /\ isSign THEN 1 ELSE 0)

ErrorsAfter(c, ok) == InWindow(c, errors[c]) + (IF ok THEN 0 ELSE 1)

(* Mutant: the threshold is compared before the signature is counted. *)
OverSignsBefore(c, isSign, ok) == /\ isSign /\ loaded.cfg[c].signLimit > 0
                                  /\ signs[c] > loaded.cfg[c].signLimit

OverSigns(c, isSign, ok) ==
    /\ isSign
    /\ loaded.cfg[c].signLimit > 0
    /\ SignsAfter(c, isSign, ok) > loaded.cfg[c].signLimit

OverErrors(c, ok) ==
    /\ loaded.cfg[c].errLimit > 0
    /\ ErrorsAfter(c, ok) > loaded.cfg[c].errLimit

(* record: an id that is not in the client map only reaches the audit log. *)
Record(c, isSign, ok) ==
    IF c \notin loaded.ids
    THEN UNCHANGED <<window, signs, errors, autoDisabled, revoked, revokedFile>>
    ELSE /\ window' = [window EXCEPT ![c] = now]
         /\ signs'  = [signs  EXCEPT ![c] = SignsAfter(c, isSign, ok)]
         /\ errors' = [errors EXCEPT ![c] = ErrorsAfter(c, ok)]
         /\ IF /\ loaded.cfg[c].autoRevoke
               /\ OverSigns(c, isSign, ok) \/ OverErrors(c, ok)
            THEN AutoRevoke(c)
            ELSE UNCHANGED <<autoDisabled, revoked, revokedFile>>

-----------------------------------------------------------------------------
Init ==
    /\ clientsFile \in FileContents
    /\ revokedFile \in SUBSET Clients
    /\ up = FALSE
    /\ clientsMode \in Modes
    /\ loaded = [ids |-> {}, cfg |-> clientsFile.cfg]
    /\ window = [c \in Clients |-> 0]
    /\ signs  = [c \in Clients |-> 0]
    /\ errors = [c \in Clients |-> 0]
    /\ autoDisabled = {}
    /\ revoked = {}
    /\ now = 1
    /\ pc  = [h \in Handlers |-> "idle"]
    /\ who = [h \in Handlers |-> NoClient]
    /\ arrivals = 0
    /\ granted = [c \in Clients |-> 0]

(* requireAuth: a request arrives and its token is looked up. *)
Authenticate(h, t) ==
    /\ up
    /\ pc[h] = "idle"
    /\ arrivals < MaxRequests
    /\ \E r \in AuthResults(t) :
          /\ who' = [who EXCEPT ![h] = r.id]
          /\ pc'  = [pc  EXCEPT ![h] = IF r.ok THEN "authed" ELSE "rejected"]
    /\ arrivals' = arrivals + 1
    /\ UNCHANGED <<disk, up, manager, now, granted>>

Finish(h) == /\ pc'  = [pc  EXCEPT ![h] = "idle"]
             /\ who' = [who EXCEPT ![h] = NoClient]

(* requireAuth on a failed lookup: recorded as an "auth" error, then 401. *)
RecordRejected(h) ==
    /\ pc[h] = "rejected"
    /\ Record(who[h], FALSE, FALSE)
    /\ Finish(h)
    /\ UNCHANGED <<clientsFile, up, clientsMode, loaded, now, arrivals, granted>>

(* GET /v1/public-key: answers with a key or 403 and records nothing. *)
PublicKey(h) ==
    /\ pc[h] = "authed"
    /\ Finish(h)
    /\ UNCHANGED <<disk, up, manager, now, arrivals, granted>>

(* POST /v1/sign, first critical section.  The window is not rolled here. *)
Admit(h) ==
    /\ pc' = [pc EXCEPT ![h] = "admitted"]
    /\ UNCHANGED <<autoDisabled, revoked, revokedFile>>

Limit(h) ==
    /\ pc' = [pc EXCEPT ![h] = "limited"]
    /\ IF ~RateReached(who[h]) /\ loaded.cfg[who[h]].autoRevoke
       THEN AutoRevoke(who[h])
       ELSE UNCHANGED <<autoDisabled, revoked, revokedFile>>

Allowed(h) ==
    /\ pc[h] = "authed"
    /\ IF /\ who[h] \in loaded.ids
          /\ RateReached(who[h]) \/ SignLimitReached(who[h])
       THEN Limit(h)
       ELSE Admit(h)
    /\ UNCHANGED <<clientsFile, up, clientsMode, loaded, counters, now, who,
                   arrivals, granted>>

(* POST /v1/sign on a refused request: recorded as a "sign" error, 429. *)
RecordLimited(h) ==
    /\ pc[h] = "limited"
    /\ Record(who[h], TRUE, FALSE)
    /\ Finish(h)
    /\ UNCHANGED <<clientsFile, up, clientsMode, loaded, now, arrivals, granted>>

(* POST /v1/sign on an admitted request: the body is read, the key signs or *)
(* one of the steps fails, and the outcome is recorded.  The signature goes *)
(* out even when the record turns the outcome into "denied".                *)
Sign(h, ok) ==
    /\ pc[h] = "admitted"
    /\ Record(who[h], TRUE, ok)
    /\ granted' = [c \in Clients |->
                     IF ok /\ c = who[h] THEN granted[c] + 1 ELSE granted[c]]
    /\ Finish(h)
    /\ UNCHANGED <<clientsFile, up, clientsMode, loaded, now, arrivals>>

-----------------------------------------------------------------------------
(* Time, the process and the files. *)

Tick == /\ now < MaxMinute
        /\ now' = now + 1
        /\ granted' = [c \in Clients |-> 0]
        /\ UNCHANGED <<disk, up, manager, handlers, arrivals>>

(* Mutant: the revoked file is not loaded. *)
StartWithoutRevoked ==
    /\ ~up
    /\ up' = TRUE
    /\ loaded' = [ids |-> IF clientsMode THEN clientsFile.ids ELSE {},
                  cfg |-> clientsFile.cfg]
    /\ revoked' = {}
    /\ UNCHANGED <<disk, clientsMode, counters, autoDisabled, now, handlers,
                   arrivals, granted>>

(* newAuthManager in a fresh process. *)
Start ==
    /\ ~up
    /\ up' = TRUE
    /\ loaded' = [ids |-> IF clientsMode THEN clientsFile.ids ELSE {},
                  cfg |-> clientsFile.cfg]
    /\ revoked' = revokedFile
    /\ UNCHANGED <<disk, clientsMode, counters, autoDisabled, now, handlers,
                   arrivals, granted>>

(* The process dies or is restarted by systemd: its memory is gone. *)
Stop ==
    /\ up
    /\ up' = FALSE
    /\ loaded' = [loaded EXCEPT !.ids = {}]
    /\ window' = [c \in Clients |-> 0]
    /\ signs'  = [c \in Clients |-> 0]
    /\ errors' = [c \in Clients |-> 0]
    /\ autoDisabled' = {}
    /\ revoked' = {}
    /\ pc'  = [h \in Handlers |-> "idle"]
    /\ who' = [h \in Handlers |-> NoClient]
    /\ granted' = [c \in Clients |-> 0]
    /\ UNCHANGED <<disk, clientsMode, now, arrivals>>

(* The console (or the operator) rewrites clients.json. *)
WriteClientFile(f) ==
    /\ clientsFile' = f
    /\ UNCHANGED <<revokedFile, up, manager, now, handlers, arrivals, granted>>

(* The console (or the operator) appends a line to revoked-clients.txt. *)
AppendRevoked(c) ==
    /\ revokedFile' = revokedFile \cup {c}
    /\ UNCHANGED <<clientsFile, up, manager, now, handlers, arrivals, granted>>

Next ==
    \/ \E h \in Handlers :
          \/ \E t \in Tokens : Authenticate(h, t)
          \/ RecordRejected(h)
          \/ PublicKey(h)
          \/ Allowed(h)
          \/ RecordLimited(h)
          \/ \E ok \in BOOLEAN : Sign(h, ok)
    \/ Tick
    \/ Start
    \/ Stop
    \/ \E f \in FileContents : WriteClientFile(f)
    \/ \E c \in Clients : AppendRevoked(c)

Spec == Init /\ [][Next]_vars

-----------------------------------------------------------------------------
(* Properties. *)

PCs == {"idle", "rejected", "authed", "limited", "admitted"}

Ids == Clients \cup {Shared, NoClient}

(* A handler beyond authentication carries a client of the running process, *)
(* or the shared id exactly when the process runs without a client file.    *)
HandlerOK(h) ==
    /\ pc[h] \in {"authed", "admitted"} =>
          who[h] \in (IF SharedMode THEN {Shared} ELSE loaded.ids)
    /\ pc[h] = "limited" => who[h] \in loaded.ids
    /\ pc[h] # "idle" => up

(* Type correctness, with the handlers' own invariant. *)
TypeOK ==
    /\ clientsFile \in ClientFile
    /\ revokedFile \in SUBSET Clients
    /\ up \in BOOLEAN
    /\ clientsMode \in BOOLEAN
    /\ loaded \in ClientFile
    /\ clientsMode \/ loaded.ids = {}
    /\ window \in [Clients -> Nat]
    /\ signs  \in [Clients -> Nat]
    /\ errors \in [Clients -> Nat]
    /\ autoDisabled \in SUBSET Clients
    /\ revoked \in SUBSET Clients
    /\ now \in Nat \ {0}
    /\ pc \in [Handlers -> PCs] /\ who \in [Handlers -> Ids]
    /\ \A h \in Handlers : HandlerOK(h)
    /\ arrivals \in Nat
    /\ granted \in [Clients -> Nat]

Admitted(c) == {h \in Handlers : pc[h] = "admitted" /\ who[h] = c}

Slots == Cardinality(Handlers)

(* `allowed' and `record' are two critical sections, so a burst can exceed  *)
(* a limit; but never by more than the requests that can be past `allowed'  *)
(* together.  In every calendar minute one process gives a client with      *)
(* rate_per_minute (or the sign threshold) L at most L - 1 + |Handlers|     *)
(* signatures.                                                              *)
WithinLimit(c, limit) == limit > 0 => granted[c] < limit + Slots

OvershootBounded ==
    \A c \in loaded.ids : /\ WithinLimit(c, loaded.cfg[c].rate)
                          /\ WithinLimit(c, loaded.cfg[c].signLimit)

(* The counters `allowed' compares are exact as long as their window is the *)
(* current minute, and nothing was given in this minute when it is not.     *)
CountersExact ==
    \A c \in Clients : /\ window[c] <= now
                        /\ granted[c] = InWindow(c, signs[c])

(* With auto_revoke on, a client that was given more signatures in a minute *)
(* than its threshold is disabled in memory from that very record on.       *)
OverThresholdIsBarred ==
    \A c \in loaded.ids :
       /\ loaded.cfg[c].autoRevoke
       /\ loaded.cfg[c].signLimit > 0
       /\ granted[c] > loaded.cfg[c].signLimit
       => c \in autoDisabled

(* What bars a client in memory by itself is on disk too, so that no        *)
(* restart lets the client back in.  Holds while appends to the file work.  *)
BarSurvivesRestart ==
    autoDisabled \subseteq revoked /\ revoked \subseteq revokedFile

InFlight(c) == {h \in Handlers : pc[h] \in {"authed", "admitted"} /\ who[h] = c}

Barred(c) == \/ c \notin loaded.ids
             \/ loaded.cfg[c].disabled
             \/ c \in autoDisabled
             \/ c \in revoked

(* No request of a barred client gets past authentication: while the        *)
(* process runs, the requests in progress for a barred client only drain,   *)
(* and a barred client stays barred.                                        *)
BarredDrains ==
    [][\A c \in Clients :
          up /\ up' /\ Barred(c) => /\ InFlight(c)' \subseteq InFlight(c)
                                    /\ Barred(c)']_vars

(* The signer implements the gate. *)
Principals == Clients \cup {Shared}

Effective ==
    IF ~up THEN Principals
    ELSE IF SharedMode THEN Clients
    ELSE {Shared} \cup {c \in Clients : Barred(c)}

LiveOf == [h \in Handlers |->
             IF pc[h] \in {"authed", "admitted"} THEN who[h] ELSE NoClient]

Gate == INSTANCE SigningGate WITH Nobody <- NoClient, barred <- Effective,
                                  listed <- revokedFile, live <- LiveOf

(* Every step of the handlers, of the process and of the files is a step    *)
(* of the gate: entering only for a principal that is not barred, and a     *)
(* listed client is barred in every later run of the process.               *)
ImplementsGate == Gate!Spec

-----------------------------------------------------------------------------
(* What the documentation says and the code does not do. *)

(* docs/abuse-monitoring.md: the sign threshold is per minute, and          *)
(* auto_revoke acts on "requests over the threshold".  So a client is       *)
(* auto-disabled only by a request that is over one of the two thresholds   *)
(* in the current minute.  `allowed' also revokes on the full counter of an *)
(* earlier minute: a client that never exceeded its threshold.              *)
RevokedOnlyOverThreshold ==
    [][\A c \in autoDisabled' \ autoDisabled :
          LET cfg == loaded.cfg[c] IN
          \/ cfg.signLimit > 0 /\ granted[c] >= cfg.signLimit
          \/ cfg.errLimit > 0 /\ errors'[c] > cfg.errLimit]_vars
=============================================================================
