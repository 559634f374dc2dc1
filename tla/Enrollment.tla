----------------------------- MODULE Enrollment -----------------------------
(***************************************************************************)
(* Edge enrolment: an edgeproxy without a token registers at the console,  *)
(* an administrator approves it, the edge polls for its signer token,      *)
(* stores it, reports the install verified and starts against keylessd.    *)
(*                                                                         *)
(* The console runs one handler at a time (app.mu).  A handler reads its   *)
(* files, works in memory, then rewrites one or two files with             *)
(* os.WriteFile: each write truncates the file first, and a crash leaves   *)
(* whatever is on disk.  Requests may be executed after their sender gave  *)
(* up.  keylessd reads clients.json when it starts and never again.        *)
(*                                                                         *)
(* Abstracted: labels, addresses, times (used is InstallUsedAt # ""),      *)
(* the signer token of a client (its id stands for it: approval makes one  *)
(* token per client and nothing here rotates it), revocation (module       *)
(* TrustedHost), and the request bodies the console answers with 400.      *)
(***************************************************************************)
EXTENDS Naturals, Sequences, FiniteSets

CONSTANTS Edges,         \* edgeproxy hosts
          Ids,           \* client ids
          IdOf,          \* EDGE_REGISTER_ID of each edge
          NoId,          \* no signer token
          FixedToken,    \* the edges with EDGE_REGISTER_TOKEN set
          HasTokenFile,  \* the edges with KEYLESS_TOKEN_FILE set
          FaultKinds,    \* which faults may happen
          MaxFaults,     \* bound: faults modelled
          MaxGen,        \* bound: new install tokens per edge
          MaxRejects     \* bound: rejections modelled

InstallTokens == Edges \X (0 .. MaxGen)

ASSUME EnrollmentAssumption ==
    /\ IdOf \in [Edges -> Ids] /\ NoId \notin Ids
    /\ FixedToken \subseteq Edges /\ HasTokenFile \subseteq Edges
    /\ FaultKinds \subseteq {"edge", "timeout", "console", "script", "wizard"}
    /\ MaxFaults \in Nat /\ MaxGen \in Nat /\ MaxRejects \in Nat

VARIABLES
    clientsFile,   \* clients.json: [torn, ids]
    regsFile,      \* edge-registrations.json: [torn, list]
    job,           \* the console handler that holds app.mu
    net,           \* requests on their way to the console
    pc,            \* where each edge's main() is
    token,         \* install token of each edge's process
    gen,           \* install tokens drawn by, or configured on, each edge
    held,          \* client id whose signer token the process holds
    stored,        \* the same, in the token file (or the env file)
    signerUp,      \* whether keylessd runs
    loaded,        \* the ids it loaded
    faults, rejects

files   == <<clientsFile, regsFile>>
console == <<clientsFile, regsFile, job>>
edges   == <<pc, token, gen, held, stored>>
signer  == <<signerUp, loaded>>
counts  == <<faults, rejects>>
vars == <<console, net, edges, signer, counts>>

Kinds == {"register", "poll", "script", "verify"}

Request == [kind : Kinds, edge : Edges, token : InstallTokens, live : BOOLEAN]

Registration == [id : Ids, token : InstallTokens,
                 status : {"pending", "approved", "rejected"},
                 used : BOOLEAN,
                 install : {"", "approved", "delivered", "verified"}]

Answers == {"accepted", "conflict", "token", "notfound", "gone", "ok", "error"}

(* No handler is running. *)
Idle == [busy |-> FALSE]

-----------------------------------------------------------------------------
(* The console. *)

Readable == ~clientsFile.torn /\ ~regsFile.torn

(* Handlers scan the registrations from the front and take the first match. *)
First(S) == {i \in S : \A j \in S : i <= j}

ById(id) == {i \in DOMAIN regsFile.list : regsFile.list[i].id = id}

Pending(id) == {i \in ById(id) : regsFile.list[i].status = "pending"}

(* Mutant: the install token is not compared. *)
InstallableByAnyToken(t) == {i \in DOMAIN regsFile.list :
                               regsFile.list[i].status = "approved"}

Installable(t) == {i \in DOMAIN regsFile.list :
                     /\ regsFile.list[i].token = t
                     /\ regsFile.list[i].status = "approved"}

(* Mutant: the status is left empty. *)
NewWithoutStatus(id, t) == [id |-> id, token |-> t, status |-> "",
                            used |-> FALSE, install |-> ""]

NewRegistration(id, t) == [id |-> id, token |-> t, status |-> "pending",
                           used |-> FALSE, install |-> ""]

(* A handler takes the mutex with the files it will write, in order, their  *)
(* new contents, the request it serves and its answer.                      *)
Begin(writes, ids, list, r, answer, about) ==
    /\ ~job.busy
    /\ job' = [busy |-> TRUE, writes |-> writes, ids |-> ids, list |-> list,
               request |-> r, answer |-> answer, about |-> about]

Answer(r, a) == Begin(<<>>, clientsFile.ids, regsFile.list, r, a, NoId)

Take(r) == r \in net /\ net' = net \ {r}

(* registerEdge: 409 for a known client; one pending registration per id,   *)
(* brought up to date in place; else a new one at the end.                  *)
(* Mutant: every registration is a new one. *)
AlwaysAppended(id, t) == Append(regsFile.list, NewRegistration(id, t))

RegisteredList(id, t) ==
    IF Pending(id) # {}
    THEN [i \in DOMAIN regsFile.list |->
            IF i \in First(Pending(id)) THEN [regsFile.list[i] EXCEPT !.token = t]
            ELSE regsFile.list[i]]
    ELSE Append(regsFile.list, NewRegistration(id, t))

RegisterEdge(r) ==
    /\ r.kind = "register"
    /\ Take(r)
    /\ IF ~Readable THEN Answer(r, "error")
       ELSE IF IdOf[r.edge] \in clientsFile.ids THEN Answer(r, "conflict")
       ELSE Begin(<<"regs">>, clientsFile.ids,
                  RegisteredList(IdOf[r.edge], r.token), r, "accepted", NoId)
    /\ UNCHANGED <<files, edges, signer, counts>>

(* installEdge: the JSON answer may be fetched again and again; the script  *)
(* answer uses the install token up before the script is sent.              *)
InstalledList(i, script) ==
    [regsFile.list EXCEPT ![i].install = "delivered",
                          ![i].used = script]

InstallEdge(r) ==
    /\ r.kind \in {"poll", "script"}
    /\ Take(r)
    /\ IF ~Readable THEN Answer(r, "error")
       ELSE IF Installable(r.token) = {} THEN Answer(r, "notfound")
       ELSE \E i \in First(Installable(r.token)) :
            LET reg == regsFile.list[i] IN
            IF reg.used THEN Answer(r, "gone")
            ELSE IF reg.id \notin clientsFile.ids THEN Answer(r, "notfound")
            ELSE Begin(<<"regs">>, clientsFile.ids,
                       InstalledList(i, r.kind = "script"), r, "token", reg.id)
    /\ UNCHANGED <<files, edges, signer, counts>>

(* verifyInstall reads and writes the registrations only. *)
VerifyInstall(r) ==
    /\ r.kind = "verify"
    /\ Take(r)
    /\ IF regsFile.torn THEN Answer(r, "error")
       ELSE IF Installable(r.token) = {} THEN Answer(r, "notfound")
       ELSE \E i \in First(Installable(r.token)) :
            Begin(<<"regs">>, clientsFile.ids,
                  [regsFile.list EXCEPT ![i].used = TRUE,
                                        ![i].install = "verified"],
                  r, "ok", NoId)
    /\ UNCHANGED <<files, edges, signer, counts>>

NoRequest == [kind |-> "admin"]

(* registrationAction, approve: the first registration of the id, whatever  *)
(* its status, unless the client exists; clients.json is written first.     *)
(* (The 404, 409 and 500 answers to the administrator change nothing.)      *)
(* Mutant: an existing client is no obstacle. *)
ApprovableAgain(id) == Readable /\ ById(id) # {}

Approvable(id) == Readable /\ ById(id) # {} /\ id \notin clientsFile.ids

(* Mutants: the registrations are written first, or not at all. *)
RegistrationsFirst == <<"regs", "clients">>
ClientsOnly == <<"clients">>

ApproveWrites == <<"clients", "regs">>

Approve(id) ==
    /\ Approvable(id)
    /\ \E i \in First(ById(id)) :
       Begin(ApproveWrites, clientsFile.ids \cup {id},
             [regsFile.list EXCEPT ![i].status = "approved",
                                   ![i].used = FALSE,
                                   ![i].install = "approved"],
             NoRequest, "ok", NoId)
    /\ UNCHANGED <<files, net, edges, signer, counts>>

(* registrationAction, reject: the first registration, whatever its status. *)
Reject(id) ==
    /\ rejects < MaxRejects
    /\ Readable
    /\ \E i \in First(ById(id)) :
       Begin(<<"regs">>, clientsFile.ids,
             [regsFile.list EXCEPT ![i].status = "rejected"],
             NoRequest, "ok", NoId)
    /\ rejects' = rejects + 1
    /\ UNCHANGED <<files, net, edges, signer, faults>>

(* os.WriteFile on the next file: O_TRUNC, then the new content. *)
WriteClients ==
    IF ~clientsFile.torn
    THEN /\ clientsFile' = [torn |-> TRUE, ids |-> {}]
         /\ UNCHANGED job
    ELSE /\ clientsFile' = [torn |-> FALSE, ids |-> job.ids]
         /\ job' = [job EXCEPT !.writes = Tail(@)]

WriteRegs ==
    IF ~regsFile.torn
    THEN /\ regsFile' = [torn |-> TRUE, list |-> <<>>]
         /\ UNCHANGED job
    ELSE /\ regsFile' = [torn |-> FALSE, list |-> job.list]
         /\ job' = [job EXCEPT !.writes = Tail(@)]

WriteFile ==
    /\ job.busy /\ job.writes # <<>>
    /\ \/ Head(job.writes) = "clients" /\ WriteClients /\ UNCHANGED regsFile
       \/ Head(job.writes) = "regs" /\ WriteRegs /\ UNCHANGED clientsFile
    /\ UNCHANGED <<net, edges, signer, counts>>

-----------------------------------------------------------------------------
(* The edge. *)

Waiting == {"registering", "fetching", "reporting"}

(* The sender of every request of e that belongs to its process is gone. *)
Orphan(r, e) == IF r.kind # "admin" /\ r.edge = e /\ r.kind # "script"
                THEN [r EXCEPT !.live = FALSE] ELSE r

OrphanJob(e) == job' = IF job.busy THEN [job EXCEPT !.request = Orphan(@, e)]
                       ELSE job

(* The process of e exits; systemd starts it again (StartEdge). *)
Exit(e) == /\ pc' = [pc EXCEPT ![e] = "down"]
           /\ held' = [held EXCEPT ![e] = NoId]

Send(e, kind, t) ==
    net' = net \cup {[kind |-> kind, edge |-> e, token |-> t, live |-> TRUE]}

(* main: a stored token goes straight to validation; else enrollEdge draws  *)
(* an install token, or uses the configured one, and registers.             *)
StartEdge(e) ==
    /\ pc[e] = "down"
    /\ IF stored[e] # NoId
       THEN /\ pc' = [pc EXCEPT ![e] = "validating"]
            /\ held' = [held EXCEPT ![e] = stored[e]]
            /\ UNCHANGED <<token, gen, net>>
       ELSE /\ e \in FixedToken \/ gen[e] < MaxGen
            /\ LET g == IF e \in FixedToken THEN gen[e] ELSE gen[e] + 1 IN
               /\ gen' = [gen EXCEPT ![e] = g]
               /\ token' = [token EXCEPT ![e] = <<e, g>>]
               /\ Send(e, "register", <<e, g>>)
            /\ pc' = [pc EXCEPT ![e] = "registering"]
            /\ UNCHANGED held
    /\ UNCHANGED <<console, stored, signer, counts>>

(* fetchInstallToken at a tick of the poll timer. *)
Poll(e) ==
    /\ pc[e] = "polling"
    /\ pc' = [pc EXCEPT ![e] = "fetching"]
    /\ Send(e, "poll", token[e])
    /\ UNCHANGED <<console, token, gen, held, stored, signer, counts>>

(* writeTokenFile, when there is one. *)
StoreToken(e) ==
    /\ pc[e] = "fetched"
    /\ pc' = [pc EXCEPT ![e] = "enrolled"]
    /\ stored' = IF e \in HasTokenFile THEN [stored EXCEPT ![e] = held[e]] ELSE stored
    /\ UNCHANGED <<console, net, token, gen, held, signer, counts>>

(* reportInstallVerified is called before the signer is contacted. *)
Report(e) ==
    /\ pc[e] = "enrolled"
    /\ pc' = [pc EXCEPT ![e] = "reporting"]
    /\ Send(e, "verify", token[e])
    /\ UNCHANGED <<console, token, gen, held, stored, signer, counts>>

(* loadKeylessCertificates: keylessd knows the token, or main() exits. *)
Validate(e) ==
    /\ pc[e] = "validating"
    /\ IF signerUp /\ held[e] \in loaded
       THEN /\ pc' = [pc EXCEPT ![e] = "serving"]
            /\ UNCHANGED held
       ELSE Exit(e)
    /\ UNCHANGED <<console, net, token, gen, stored, signer, counts>>

(* Mutant: 409 is fatal. *)
ProceedConflictFatal(e, kind, answer) ==
    CASE kind = "register" -> IF answer = "accepted" THEN "polling" ELSE "down"
      [] kind = "poll" ->
           IF answer = "token" THEN "fetched"
           ELSE IF answer = "notfound" THEN "polling" ELSE "down"
      [] kind = "verify" -> "validating"

(* What main() makes of an answer. *)
Proceed(e, kind, answer) ==
    CASE kind = "register" ->
           IF answer \in {"accepted", "conflict"} THEN "polling" ELSE "down"
      [] kind = "poll" ->
           IF answer = "token" THEN "fetched"
           ELSE IF answer = "notfound" THEN "polling" ELSE "down"
      [] kind = "verify" -> "validating"

(* The handler answers and releases the mutex.  The script of the fallback  *)
(* path stores the token on its edge and restarts edgeproxy.                *)
Finish ==
    /\ job.busy /\ job.writes = <<>>
    /\ job' = Idle
    /\ LET r == job.request IN
       IF r.kind = "admin" \/ (r.kind # "script" /\ ~r.live)
       THEN UNCHANGED <<edges, net>>
       ELSE IF r.kind = "script"
       THEN IF job.answer = "token"
            THEN /\ Exit(r.edge)
                 /\ stored' = [stored EXCEPT ![r.edge] = job.about]
                 /\ net' = {Orphan(q, r.edge) : q \in net}
                 /\ UNCHANGED <<token, gen>>
            ELSE UNCHANGED <<edges, net>>
       ELSE /\ pc' = [pc EXCEPT ![r.edge] = Proceed(r.edge, r.kind, job.answer)]
            /\ held' = IF job.answer = "token"
                       THEN [held EXCEPT ![r.edge] = job.about] ELSE held
            /\ UNCHANGED <<token, gen, stored, net>>
    /\ UNCHANGED <<files, signer, counts>>

-----------------------------------------------------------------------------
(* The signer. *)

(* systemctl restart keylessd-local, or systemd after a failed start: a     *)
(* torn clients.json is a fatal error.                                      *)
RestartSigner ==
    /\ IF clientsFile.torn
       THEN signerUp' = FALSE /\ loaded' = {}
       ELSE signerUp' = TRUE /\ loaded' = clientsFile.ids
    /\ UNCHANGED <<console, net, edges, counts>>

-----------------------------------------------------------------------------
(* Faults. *)

Fault(kind) == /\ kind \in FaultKinds
               /\ faults < MaxFaults
               /\ faults' = faults + 1
               /\ UNCHANGED rejects

(* The edge crashes; its requests live on. *)
CrashEdge(e) ==
    /\ Fault("edge")
    /\ pc[e] # "down"
    /\ Exit(e)
    /\ net' = {Orphan(r, e) : r \in net}
    /\ OrphanJob(e)
    /\ UNCHANGED <<files, token, gen, stored, signer>>

(* A request or its answer is lost or late: http.Client gives up.  Failing  *)
(* to register or to fetch is fatal, failing to report is a warning.        *)
Timeout(e) ==
    /\ Fault("timeout")
    /\ pc[e] \in Waiting
    /\ IF pc[e] = "reporting"
       THEN pc' = [pc EXCEPT ![e] = "validating"] /\ UNCHANGED held
       ELSE Exit(e)
    /\ net' = {Orphan(r, e) : r \in net}
    /\ OrphanJob(e)
    /\ UNCHANGED <<files, token, gen, stored, signer>>

(* A request whose sender gave up never arrives. *)
Lose(r) == /\ r \in net /\ ~r.live
           /\ net' = net \ {r}
           /\ UNCHANGED <<console, edges, signer, counts>>

(* The console dies in the middle of a handler and is restarted: its edge   *)
(* sees a broken connection.                                                *)
CrashConsole ==
    /\ Fault("console")
    /\ job.busy
    /\ job' = Idle
    /\ LET r == job.request IN
       IF r.kind \in {"admin", "script"} \/ ~r.live
       THEN UNCHANGED edges
       ELSE /\ IF r.kind = "verify"
               THEN pc' = [pc EXCEPT ![r.edge] = "validating"] /\ UNCHANGED held
               ELSE Exit(r.edge)
            /\ UNCHANGED <<token, gen, stored>>
    /\ UNCHANGED <<files, net, signer>>

(* An operator runs on an edge host the install script whose URL the        *)
(* console showed for a registration of that edge (break-glass recovery).   *)
RunScript(e) ==
    /\ Fault("script")
    /\ \E i \in ById(IdOf[e]) : Send(e, "script", regsFile.list[i].token)
    /\ UNCHANGED <<console, edges, signer>>

(* setup-wizard is run again on an edge: it writes an environment file with *)
(* a new install token.  It cannot replace a program that is running, so    *)
(* it gets there only while edgeproxy is stopped.                           *)
Reinstall(e) ==
    /\ Fault("wizard")
    /\ e \in FixedToken /\ pc[e] = "down" /\ gen[e] < MaxGen
    /\ gen' = [gen EXCEPT ![e] = @ + 1]
    /\ UNCHANGED <<console, net, pc, token, held, stored, signer>>

-----------------------------------------------------------------------------
Init ==
    /\ clientsFile = [torn |-> FALSE, ids |-> {}]
    /\ regsFile = [torn |-> FALSE, list |-> <<>>]
    /\ job = Idle
    /\ net = {}
    /\ pc = [e \in Edges |-> "down"]
    /\ token = [e \in Edges |-> <<e, 0>>]
    /\ gen = [e \in Edges |-> 0]
    /\ held = [e \in Edges |-> NoId]
    /\ stored = [e \in Edges |-> NoId]
    /\ signerUp = TRUE
    /\ loaded = {}
    /\ faults = 0
    /\ rejects = 0

Handle(r) == RegisterEdge(r) \/ InstallEdge(r) \/ VerifyInstall(r)

EdgeStep(e) == StartEdge(e) \/ Poll(e) \/ StoreToken(e) \/ Report(e) \/ Validate(e)

Next ==
    \/ \E r \in net : Handle(r) \/ Lose(r)
    \/ \E id \in Ids : Approve(id) \/ Reject(id)
    \/ WriteFile
    \/ Finish
    \/ \E e \in Edges : EdgeStep(e)
    \/ RestartSigner
    \/ \E e \in Edges : CrashEdge(e) \/ Timeout(e) \/ RunScript(e) \/ Reinstall(e)
    \/ CrashConsole

Spec == Init /\ [][Next]_vars

(* Fairness.  The console, its disk and the edges' own code keep running;   *)
(* systemd restarts what exits; sync.Mutex serves every waiting handler in  *)
(* the end, hence strong fairness; an administrator sees to every request.  *)
Progress ==
    /\ \A e \in Edges : WF_vars(EdgeStep(e))
    /\ \A e \in Edges, k \in Kinds, t \in InstallTokens :
          SF_vars(\E r \in net : r.kind = k /\ r.edge = e /\ r.token = t /\ Handle(r))
    /\ WF_vars(WriteFile) /\ WF_vars(Finish)
    /\ \A id \in Ids : SF_vars(Approve(id))

(* keylessd is restarted again and again by somebody. *)
FairSpec == Spec /\ Progress /\ WF_vars(RestartSigner)

-----------------------------------------------------------------------------
(* Properties. *)

Regs == {regsFile.list[i] : i \in DOMAIN regsFile.list}

Jobs == [busy : {TRUE},
         writes : {<<>>, <<"regs">>, <<"clients", "regs">>},
         ids : SUBSET Ids, list : Seq(Registration),
         request : Request \cup {NoRequest}, answer : Answers,
         about : Ids \cup {NoId}]

(* Type correctness. *)
TypeOK ==
    /\ clientsFile \in [torn : BOOLEAN, ids : SUBSET Ids]
    /\ regsFile.torn \in BOOLEAN /\ regsFile.list \in Seq(Registration)
    /\ job \in {Idle} \cup Jobs
    /\ net \in SUBSET Request
    /\ pc \in [Edges -> Waiting \cup {"down", "polling", "fetched", "enrolled",
                                      "validating", "serving"}]
    /\ token \in [Edges -> InstallTokens] /\ gen \in [Edges -> 0 .. MaxGen]
    /\ held \in [Edges -> Ids \cup {NoId}] /\ stored \in [Edges -> Ids \cup {NoId}]
    /\ signerUp \in BOOLEAN /\ loaded \in SUBSET Ids
    /\ faults \in 0 .. MaxFaults /\ rejects \in 0 .. MaxRejects

(* registerEdge keeps at most one pending registration per id on disk,      *)
(* whatever late, repeated or interrupted requests it executes.             *)
OnePendingPerId == \A id \in Ids : Cardinality(Pending(id)) <= 1

(* An approved registration on disk has its client on disk: clients.json is *)
(* written first, so a crash of the console between the two writes never    *)
(* leaves an approval whose signer token does not exist.                    *)
ApprovedHasClient ==
    \A reg \in Regs : reg.status = "approved" /\ ~clientsFile.torn
                      => reg.id \in clientsFile.ids

(* An install token that was used up stays used up: no later approval,      *)
(* fetch or registration makes its registration installable again.  (Every  *)
(* change of the file on disk is the list of some handler.)                 *)
UsedIsForever ==
    [][~job.busy /\ job'.busy =>
          \A i \in DOMAIN regsFile.list :
             regsFile.list[i].used =>
                i \in DOMAIN job'.list /\ job'.list[i].used]_vars

(* An edge never comes to hold, in memory or in its file, the signer token  *)
(* of another client, or one that is not in a readable clients.json.        *)
HoldsOwnToken ==
    \A e \in Edges : \A id \in {held[e], stored[e]} \ {NoId} :
       id = IdOf[e] /\ (id \in clientsFile.ids \/ clientsFile.torn)

(* With a configured install token and a token file, every edge ends up     *)
(* serving: late, lost and repeated requests and crashes of the edge, even  *)
(* between receiving the token and storing it, only delay the enrolment.    *)
EveryEdgeServes == \A e \in Edges : <>(pc[e] = "serving")

(* docs/signer-console.md: a request "remains pending until a system_admin  *)
(* signs in and approves it", so a fair administrator empties the list.     *)
PendingUntilApproved ==
    \A id \in Ids : Pending(id) # {} ~> Pending(id) = {} /\ ById(id) # {}
=============================================================================
