------------------------- MODULE TrustedHostProofs -------------------------
(***************************************************************************)
(* Theorems about TrustedHost, for every set of clients, handlers and      *)
(* administrators and any number of actions: type correctness, and what    *)
(* the two processes may do to each other's files.                         *)
(***************************************************************************)
EXTENDS TrustedHost, SignerProofs

(* A step of the signer is one of module Signer, and only adds lines.       *)
LEMMA SignerStepIsNext == SignerStep => Next
BY DEF SignerStep, StartSigner, Next

LEMMA SignerKeepsFiles ==
    ASSUME TypeOK, SignerStep
    PROVE  clientsFile' = clientsFile /\ revokedFile \subseteq revokedFile'
<1>1. ASSUME NEW c, NEW isSign, NEW ok, Record(c, isSign, ok)
      PROVE  revokedFile \subseteq revokedFile'
  BY <1>1 DEF Record, AutoRevoke, AppendRevokedLocked
<1>2. ASSUME NEW h \in Handlers,
             \/ \E t \in Tokens : Authenticate(h, t)
             \/ RecordRejected(h) \/ PublicKey(h) \/ Allowed(h) \/ RecordLimited(h)
             \/ \E ok \in BOOLEAN : Sign(h, ok)
      PROVE  clientsFile' = clientsFile /\ revokedFile \subseteq revokedFile'
  <2>1. ASSUME RecordRejected(h) \/ RecordLimited(h) \/ \E ok \in BOOLEAN : Sign(h, ok)
        PROVE  clientsFile' = clientsFile /\ revokedFile \subseteq revokedFile'
    BY <1>1, <2>1 DEF RecordRejected, RecordLimited, Sign
  <2>2. CASE Allowed(h)
    BY <2>2 DEF Allowed, Limit, Admit, AutoRevoke, AppendRevokedLocked
  <2>3. CASE PublicKey(h) \/ \E t \in Tokens : Authenticate(h, t)
    BY <2>3 DEF PublicKey, Authenticate, disk
  <2> QED
    BY <1>2, <2>1, <2>2, <2>3
<1>3. CASE Tick \/ StartSigner \/ Stop
  BY <1>3 DEF Tick, StartSigner, Start, Stop, disk
<1> QED
  BY <1>2, <1>3 DEF SignerStep

-----------------------------------------------------------------------------
(* Type correctness. *)

NotSigner == <<up, manager, now, handlers, arrivals, granted>>

LEMMA FilesMayChange ==
    ASSUME TypeOK, UNCHANGED NotSigner, clientsFile' \in ClientFile,
           revokedFile' \in SUBSET Clients
    PROVE  TypeOK'
BY DEF TypeOK, NotSigner, manager, counters, handlers, HandlerOK, SharedMode, Ids

LEMMA HostInitTypeOK == HostInit => HostTypeOK
<1> SUFFICES ASSUME HostInit  PROVE HostTypeOK
  OBVIOUS
<1>1. TypeOK
  BY InitTypeOK DEF HostInit
<1>2. clientsFile.ids \in SUBSET Clients /\ revokedFile \in SUBSET Clients
  BY <1>1 DEF TypeOK, ClientFile
<1>3. /\ work \in [Admins -> {NoWork} \cup Edits \cup Unrevokes]
      /\ \A a \in Admins : work[a] = NoWork /\ mutex # a
  BY HostAssumption DEF HostInit
<1>4. torn \in BOOLEAN /\ interrupted \in BOOLEAN
  BY DEF HostInit
<1>5. /\ mutex \in Admins \cup {NoAdmin} /\ actions \in Nat
      /\ wantDisabled \in SUBSET Clients /\ wantRevoked \in SUBSET Clients
      /\ selfRevoked \in SUBSET Clients /\ lifted \in SUBSET Clients
  BY <1>2 DEF HostInit
<1> QED
  BY <1>1, <1>3, <1>4, <1>5 DEF HostTypeOK

(* What a handler at work is, and that it alone is at work. *)
LEMMA AtWork ==
    ASSUME HostTypeOK, NEW a \in Admins, work[a].op \in Running
    PROVE  /\ mutex = a
           /\ \A b \in Admins \ {a} : work[b] = NoWork
           /\ work[a].op = "edit" => work[a] \in Edits
           /\ work[a].op = "unrevoke" => work[a] \in Unrevokes
<1>1. work[a] # NoWork
  BY DEF NoWork, Running
<1>2. work[a] \in Edits \cup Unrevokes
  BY <1>1 DEF HostTypeOK
<1>3. mutex = a /\ \A b \in Admins \ {a} : work[b] = NoWork
  BY <1>1 DEF HostTypeOK
<1> QED
  BY <1>2, <1>3 DEF Edits, Unrevokes

(* Starting one action, and ending it. *)
LEMMA WorkTaken ==
    ASSUME HostTypeOK, NEW a \in Admins, NEW w \in Edits \cup Unrevokes, Free,
           mutex' = a, work' = [work EXCEPT ![a] = w]
    PROVE  /\ mutex' \in Admins \cup {NoAdmin}
           /\ work' \in [Admins -> {NoWork} \cup Edits \cup Unrevokes]
           /\ \A b \in Admins : work'[b] # NoWork <=> mutex' = b
<1>1. \A b \in Admins : work[b] = NoWork
  BY HostAssumption DEF HostTypeOK, Free
<1>2. work'[a] = w /\ \A b \in Admins \ {a} : work'[b] = NoWork
  BY <1>1 DEF HostTypeOK
<1>3. w # NoWork
  BY DEF Edits, Unrevokes, NoWork
<1>4. work' \in [Admins -> {NoWork} \cup Edits \cup Unrevokes]
  BY DEF HostTypeOK
<1> QED
  BY <1>2, <1>3, <1>4

LEMMA EditedFile ==
    ASSUME NEW f \in ClientFile, NEW c \in Clients, NEW flag \in BOOLEAN
    PROVE  [f EXCEPT !.cfg[c].disabled = flag] \in ClientFile
<1> DEFINE e == [f.cfg[c] EXCEPT !.disabled = flag]
<1>1. f.cfg[c] \in ClientConfig
  BY DEF ClientFile
<1>2. e \in ClientConfig
  BY <1>1 DEF ClientConfig
<1>3. [f.cfg EXCEPT ![c] = e] \in [Clients -> ClientConfig]
  BY <1>2 DEF ClientFile
<1>4. [f EXCEPT !.cfg[c].disabled = flag] = [f EXCEPT !.cfg = [f.cfg EXCEPT ![c] = e]]
  OBVIOUS
<1> QED
  BY <1>3, <1>4 DEF ClientFile

LEMMA HostNextTypeOK == HostTypeOK /\ [HostNext]_hostVars => HostTypeOK'
<1> SUFFICES ASSUME HostTypeOK, [HostNext]_hostVars  PROVE HostTypeOK'
  OBVIOUS
<1>0. TypeOK
  BY DEF HostTypeOK
<1>1. CASE SignerStep
  <2>1. TypeOK'
    BY <1>0, <1>1, SignerStepIsNext, NextTypeOK
  <2>2. selfRevoked' \in SUBSET Clients
    BY <1>1, <2>1 DEF SignerStep, TypeOK, HostTypeOK
  <2>3. UNCHANGED <<console, wantDisabled, wantRevoked, lifted, interrupted>>
    BY <1>1 DEF SignerStep
  <2> QED
    BY <2>1, <2>2, <2>3 DEF HostTypeOK, console
<1>2. ASSUME NEW a \in Admins, NEW c \in Clients, NEW flag \in BOOLEAN,
             BeginEdit(a, c, flag)
      PROVE  HostTypeOK'
  <2> DEFINE w == [op |-> "edit", client |-> c, flag |-> flag, open |-> FALSE,
                   file |-> [clientsFile EXCEPT !.cfg[c].disabled = flag]]
  <2>1. w.file \in ClientFile
    BY <1>0, EditedFile DEF TypeOK
  <2>2. w \in Edits
    BY <2>1 DEF Edits
  <2>3. Free /\ mutex' = a /\ work' = [work EXCEPT ![a] = w]
    BY <1>2 DEF BeginEdit, Lock
  <2> HIDE DEF w
  <2>4. /\ mutex' \in Admins \cup {NoAdmin}
        /\ work' \in [Admins -> {NoWork} \cup Edits \cup Unrevokes]
        /\ \A b \in Admins : work'[b] # NoWork <=> mutex' = b
    BY <2>2, <2>3, WorkTaken
  <2>5. UNCHANGED <<vars, torn, observed>> /\ actions' = actions + 1
    BY <1>2 DEF BeginEdit, Arrive
  <2>6. TypeOK'
    BY <1>0, <2>5, NextTypeOK
  <2> QED
    BY <2>4, <2>5, <2>6 DEF HostTypeOK, observed
<1>3. ASSUME NEW a \in Admins, NEW c \in Clients, BeginUnrevoke(a, c)
      PROVE  HostTypeOK'
  <2> DEFINE w == [op |-> "unrevoke", client |-> c, open |-> FALSE,
                   list |-> Remaining(c)]
  <2>1. Remaining(c) \in SUBSET Clients
    BY <1>0 DEF TypeOK, Remaining
  <2>2. w \in Unrevokes
    BY <2>1 DEF Unrevokes
  <2>3. Free /\ mutex' = a /\ work' = [work EXCEPT ![a] = w]
    BY <1>3 DEF BeginUnrevoke, Lock
  <2> HIDE DEF w
  <2>4. /\ mutex' \in Admins \cup {NoAdmin}
        /\ work' \in [Admins -> {NoWork} \cup Edits \cup Unrevokes]
        /\ \A b \in Admins : work'[b] # NoWork <=> mutex' = b
    BY <2>2, <2>3, WorkTaken
  <2>5. UNCHANGED <<vars, torn, wantDisabled, interrupted>>
        /\ actions' = actions + 1
    BY <1>3 DEF BeginUnrevoke, Arrive
  <2>6. /\ wantRevoked' \in SUBSET Clients /\ selfRevoked' \in SUBSET Clients
        /\ lifted' \in SUBSET Clients
    BY <1>3 DEF BeginUnrevoke, HostTypeOK
  <2>7. TypeOK'
    BY <1>0, <2>5, NextTypeOK
  <2> QED
    BY <2>4, <2>5, <2>6, <2>7 DEF HostTypeOK
<1>4. ASSUME NEW a \in Admins, NEW c \in Clients, Revoke(a, c)
      PROVE  HostTypeOK'
  <2>1. TypeOK'
    BY <1>0, <1>4, NextTypeOK DEF Revoke, Next
  <2>2. actions' \in Nat /\ wantRevoked' \in SUBSET Clients
    BY <1>4 DEF Revoke, Arrive, HostTypeOK
  <2>3. UNCHANGED <<torn, mutex, work, wantDisabled, selfRevoked, lifted,
                    interrupted>>
    BY <1>4 DEF Revoke
  <2> QED
    BY <2>1, <2>2, <2>3 DEF HostTypeOK
<1>5. ASSUME NEW a \in Admins, Truncate(a)
      PROVE  HostTypeOK'
  <2>1. work[a].op \in Running /\ work' = [work EXCEPT ![a].open = TRUE]
    BY <1>5 DEF Truncate
  <2>2. work[a] \in Edits \cup Unrevokes
    BY <2>1, AtWork DEF Running
  <2>3. [work[a] EXCEPT !.open = TRUE] \in Edits \cup Unrevokes
    BY <2>2 DEF Edits, Unrevokes
  <2>4. work' = [work EXCEPT ![a] = [work[a] EXCEPT !.open = TRUE]]
    BY <2>1
  <2>5. work'[a] # NoWork /\ work[a] # NoWork
    BY <2>2, <2>3, <2>4 DEF HostTypeOK, NoWork, Edits, Unrevokes
  <2>6. /\ work' \in [Admins -> {NoWork} \cup Edits \cup Unrevokes]
        /\ \A b \in Admins : work'[b] # NoWork <=> work[b] # NoWork
    BY <2>3, <2>4, <2>5 DEF HostTypeOK
  <2>7. UNCHANGED NotSigner /\ UNCHANGED <<clientsFile, mutex, actions, observed>>
    BY <1>5 DEF Truncate, NotSigner
  <2>8. torn' \in BOOLEAN /\ revokedFile' \in SUBSET Clients
    BY <1>0, <1>5 DEF Truncate, HostTypeOK, TypeOK
  <2>9. TypeOK'
    <3>1. clientsFile' \in ClientFile
      BY <1>0, <2>7 DEF TypeOK
    <3> QED
      BY <1>0, <2>7, <2>8, <3>1, FilesMayChange
  <2> QED
    BY <2>6, <2>7, <2>8, <2>9 DEF HostTypeOK, observed
<1>6. ASSUME NEW a \in Admins, Commit(a)
      PROVE  HostTypeOK'
  <2>1. /\ work[a].op \in Running /\ work' = [work EXCEPT ![a] = NoWork]
        /\ mutex' = NoAdmin
    BY <1>6 DEF Commit
  <2>2. \A b \in Admins \ {a} : work[b] = NoWork
    BY <2>1, AtWork
  <2>3. /\ work' \in [Admins -> {NoWork} \cup Edits \cup Unrevokes]
        /\ \A b \in Admins : work'[b] = NoWork /\ mutex' # b
    BY <2>1, <2>2, HostAssumption DEF HostTypeOK
  <2>4. UNCHANGED NotSigner
        /\ UNCHANGED <<actions, wantRevoked, selfRevoked, lifted, interrupted>>
    BY <1>6 DEF Commit, NotSigner
  <2>5. /\ clientsFile' \in ClientFile /\ torn' \in BOOLEAN
        /\ wantDisabled' \in SUBSET Clients /\ revokedFile' \in SUBSET Clients
    <3>1. CASE work[a].op = "edit"
      <4>1. work[a].file \in ClientFile /\ work[a].client \in Clients
        BY <2>1, <3>1, AtWork DEF Edits
      <4>2. /\ clientsFile' = work[a].file /\ torn' = FALSE
            /\ revokedFile' = revokedFile
            /\ \/ wantDisabled' = wantDisabled \cup {work[a].client}
               \/ wantDisabled' = wantDisabled \ {work[a].client}
        BY <1>6, <3>1 DEF Commit
      <4> QED
        BY <1>0, <4>1, <4>2 DEF HostTypeOK, TypeOK
    <3>2. CASE work[a].op # "edit"
      <4>1. work[a].list \in SUBSET Clients
        BY <2>1, <3>2, AtWork DEF Unrevokes, Running
      <4>2. /\ \E S \in Survivors : revokedFile' = work[a].list \cup S
            /\ UNCHANGED <<clientsFile, torn, wantDisabled>>
        BY <1>6, <3>2 DEF Commit
      <4> QED
        BY <1>0, <4>1, <4>2 DEF HostTypeOK, TypeOK, Survivors
    <3> QED
      BY <3>1, <3>2
  <2>6. TypeOK'
    BY <1>0, <2>4, <2>5, FilesMayChange
  <2>7. mutex' \in Admins \cup {NoAdmin}
    BY <2>1
  <2> QED
    BY <2>3, <2>4, <2>5, <2>6, <2>7 DEF HostTypeOK
<1>7. CASE CrashConsole
  <2>1. /\ mutex' = NoAdmin /\ work' = [a \in Admins |-> NoWork]
        /\ UNCHANGED <<vars, torn, actions, wantDisabled, wantRevoked,
                       selfRevoked, lifted>>
    BY <1>7 DEF CrashConsole
  <2>2. /\ work' \in [Admins -> {NoWork} \cup Edits \cup Unrevokes]
        /\ \A a \in Admins : work'[a] = NoWork /\ mutex' # a
    BY <2>1, HostAssumption
  <2>3. interrupted' \in BOOLEAN
    BY <1>7 DEF CrashConsole
  <2>4. TypeOK'
    BY <1>0, <2>1, NextTypeOK
  <2> QED
    BY <2>1, <2>2, <2>3, <2>4 DEF HostTypeOK
<1>8. CASE UNCHANGED hostVars
  <2>1. TypeOK'
    BY <1>0, <1>8, NextTypeOK DEF hostVars
  <2> QED
    BY <1>8, <2>1 DEF HostTypeOK, hostVars, console, observed
<1> QED
  BY <1>1, <1>2, <1>3, <1>4, <1>5, <1>6, <1>7, <1>8 DEF HostNext, ConsoleStep

(* Both processes are always well formed, and only the holder of app.mu is  *)
(* at work: also while the other process writes the same files.             *)
THEOREM HostTypeCorrect == HostSpec => []HostTypeOK
  BY HostInitTypeOK, HostNextTypeOK, PTL DEF HostSpec

-----------------------------------------------------------------------------
(* The edits of clients.json. *)

DisabledIn(f) == {c \in f.ids : f.cfg[c].disabled}

AfterEdit(c, flag) == IF flag THEN wantDisabled \cup {c} ELSE wantDisabled \ {c}

(* The invariant behind ReadableFileIsCurrent: what a handler at work is    *)
(* about to write is the acknowledged state with its own edit applied.      *)
EditInv ==
    /\ DisabledIn(clientsFile) = wantDisabled
    /\ \A a \in Admins : work[a].op = "edit" =>
          DisabledIn(work[a].file) = AfterEdit(work[a].client, work[a].flag)

LEMMA EditChangesOne ==
    ASSUME NEW f \in ClientFile, NEW c \in f.ids, NEW flag \in BOOLEAN,
           DisabledIn(f) = wantDisabled
    PROVE  DisabledIn([f EXCEPT !.cfg[c].disabled = flag]) = AfterEdit(c, flag)
<1> DEFINE e == [f.cfg[c] EXCEPT !.disabled = flag]
           g == [f EXCEPT !.cfg[c].disabled = flag]
<1>1. c \in Clients /\ f.cfg[c] \in ClientConfig /\ f.cfg \in [Clients -> ClientConfig]
  BY DEF ClientFile
<1>2. g = [f EXCEPT !.cfg = [f.cfg EXCEPT ![c] = e]]
  OBVIOUS
<1>3. g.ids = f.ids /\ g.cfg = [f.cfg EXCEPT ![c] = e]
  BY <1>2 DEF ClientFile
<1>4. e.disabled = flag
  BY <1>1 DEF ClientConfig
<1> HIDE DEF e, g
<1>5. g.cfg[c].disabled = flag
  BY <1>1, <1>3, <1>4
<1>6. \A d \in f.ids \ {c} : g.cfg[d] = f.cfg[d]
  BY <1>1, <1>3 DEF ClientFile
<1>7. DisabledIn(g) = AfterEdit(c, flag)
  BY <1>3, <1>5, <1>6 DEF DisabledIn, AfterEdit
<1> QED
  BY <1>7 DEF g

LEMMA HostInitEditInv == HostInit => EditInv
BY DEF HostInit, EditInv, DisabledIn, NoWork

LEMMA HostNextEditInv ==
    HostTypeOK /\ EditInv /\ [HostNext]_hostVars => EditInv'
<1> SUFFICES ASSUME HostTypeOK, EditInv, [HostNext]_hostVars  PROVE EditInv'
  OBVIOUS
<1>0. TypeOK
  BY DEF HostTypeOK
<1>u. ASSUME UNCHANGED <<clientsFile, wantDisabled, work>>  PROVE EditInv'
  BY <1>u DEF EditInv, DisabledIn, AfterEdit
<1>1. CASE SignerStep
  BY <1>0, <1>1, <1>u, SignerKeepsFiles DEF SignerStep, console
<1>2. ASSUME NEW a \in Admins, NEW c \in Clients, NEW flag \in BOOLEAN,
             BeginEdit(a, c, flag)
      PROVE  EditInv'
  <2> DEFINE w == [op |-> "edit", client |-> c, flag |-> flag, open |-> FALSE,
                   file |-> [clientsFile EXCEPT !.cfg[c].disabled = flag]]
  <2>1. DisabledIn(w.file) = AfterEdit(c, flag)
    BY <1>0, <1>2, EditChangesOne DEF BeginEdit, EditInv, TypeOK
  <2>2. work' = [work EXCEPT ![a] = w] /\ w.client = c /\ w.flag = flag
    BY <1>2 DEF BeginEdit
  <2>3. UNCHANGED <<clientsFile, wantDisabled>>
    BY <1>2 DEF BeginEdit, observed, vars, disk
  <2> HIDE DEF w
  <2>4. work'[a] = w /\ \A b \in Admins \ {a} : work'[b] = work[b]
    BY <2>2 DEF HostTypeOK
  <2>5. DisabledIn(clientsFile)' = wantDisabled'
    BY <2>3 DEF EditInv, DisabledIn
  <2>6. ASSUME NEW b \in Admins, work'[b].op = "edit"
        PROVE  DisabledIn(work'[b].file) = IF work'[b].flag
                  THEN wantDisabled' \cup {work'[b].client}
                  ELSE wantDisabled' \ {work'[b].client}
    BY <2>1, <2>2, <2>3, <2>4, <2>6 DEF EditInv, AfterEdit
  <2> QED
    BY <2>5, <2>6 DEF EditInv, DisabledIn, AfterEdit
<1>3. ASSUME NEW a \in Admins, NEW c \in Clients, BeginUnrevoke(a, c)
      PROVE  EditInv'
  <2>1. work'[a].op = "unrevoke" /\ \A b \in Admins \ {a} : work'[b] = work[b]
    BY <1>3 DEF BeginUnrevoke, HostTypeOK
  <2>2. UNCHANGED <<clientsFile, wantDisabled>>
    BY <1>3 DEF BeginUnrevoke, vars, disk
  <2> QED
    BY <2>1, <2>2 DEF EditInv, DisabledIn, AfterEdit
<1>4. ASSUME NEW a \in Admins, NEW c \in Clients, Revoke(a, c)
      PROVE  EditInv'
  BY <1>4, <1>u DEF Revoke, AppendRevoked
<1>5. ASSUME NEW a \in Admins, Truncate(a)
      PROVE  EditInv'
  <2>1. work[a] \in Edits \cup Unrevokes
    BY <1>5, AtWork DEF Truncate, Running
  <2>2. work'[a] = [work[a] EXCEPT !.open = TRUE]
        /\ \A b \in Admins \ {a} : work'[b] = work[b]
    BY <1>5 DEF Truncate, HostTypeOK
  <2>3. /\ work'[a].op = work[a].op
        /\ work[a].op = "edit" =>
              /\ work'[a].file = work[a].file /\ work'[a].flag = work[a].flag
              /\ work'[a].client = work[a].client
    BY <2>1, <2>2 DEF Edits, Unrevokes
  <2>4. UNCHANGED <<clientsFile, wantDisabled>>
    BY <1>5 DEF Truncate, observed
  <2>5. DisabledIn(clientsFile)' = wantDisabled'
    BY <2>4 DEF EditInv, DisabledIn
  <2>6. ASSUME NEW b \in Admins, work'[b].op = "edit"
        PROVE  DisabledIn(work'[b].file) = IF work'[b].flag
                  THEN wantDisabled' \cup {work'[b].client}
                  ELSE wantDisabled' \ {work'[b].client}
    <3>1. work[b].op = "edit" /\ work'[b].file = work[b].file
          /\ work'[b].flag = work[b].flag /\ work'[b].client = work[b].client
      BY <2>2, <2>3, <2>6
    <3> QED
      BY <2>4, <3>1 DEF EditInv, AfterEdit
  <2> QED
    BY <2>5, <2>6 DEF EditInv, DisabledIn, AfterEdit
<1>6. ASSUME NEW a \in Admins, Commit(a)
      PROVE  EditInv'
  <2>1. work[a].op \in Running /\ work' = [work EXCEPT ![a] = NoWork]
    BY <1>6 DEF Commit
  <2>2. \A b \in Admins : work'[b] = NoWork
    BY <2>1, AtWork DEF HostTypeOK
  <2>3. DisabledIn(clientsFile') = wantDisabled'
    BY <1>6 DEF Commit, EditInv, AfterEdit
  <2> QED
    BY <2>2, <2>3 DEF EditInv, DisabledIn, NoWork
<1>7. CASE CrashConsole
  <2>1. UNCHANGED <<clientsFile, wantDisabled>>
    BY <1>7 DEF CrashConsole, vars, disk
  <2>2. \A a \in Admins : work'[a] = NoWork
    BY <1>7 DEF CrashConsole
  <2> QED
    BY <2>1, <2>2 DEF EditInv, DisabledIn, NoWork
<1>8. CASE UNCHANGED hostVars
  BY <1>8, <1>u DEF hostVars, vars, disk, console, observed
<1> QED
  BY <1>1, <1>2, <1>3, <1>4, <1>5, <1>6, <1>7, <1>8 DEF HostNext, ConsoleStep

(* No acknowledged disable or enable is lost to another administrator, to   *)
(* the signer or to a crash of the console between truncating clients.json  *)
(* and writing it: a readable file is current.                              *)
THEOREM ReadableFileAlwaysCurrent == HostSpec => []ReadableFileIsCurrent
<1>1. EditInv => ReadableFileIsCurrent
  BY DEF EditInv, ReadableFileIsCurrent, DisabledIn
<1> QED
  BY <1>1, HostInitEditInv, HostNextEditInv, HostTypeCorrect, PTL DEF HostSpec

-----------------------------------------------------------------------------
(* The revoked list. *)

Unrevoking(a) == work[a].op = "unrevoke"

(* The invariant behind RevokedStaysListed: while one handler rewrites the  *)
(* list, what it will write is what the file held, and the file itself      *)
(* holds what the signer appended to it since it was truncated.             *)
RevInv ==
    ~interrupted =>
       /\ (\A a \in Admins : ~Unrevoking(a)) =>
             /\ wantRevoked \subseteq revokedFile
             /\ revokedFile \subseteq wantRevoked \cup selfRevoked
       /\ \A a \in Admins : Unrevoking(a) =>
             /\ wantRevoked \subseteq work[a].list
             /\ work[a].list \subseteq wantRevoked \cup selfRevoked
             /\ work[a].open => revokedFile \subseteq selfRevoked

LEMMA HostInitRevInv == HostInit => RevInv
BY DEF HostInit, RevInv, Unrevoking, NoWork

LEMMA HostNextRevInv ==
    HostTypeOK /\ RevInv /\ [HostNext]_hostVars => RevInv'
<1> SUFFICES ASSUME HostTypeOK, RevInv, [HostNext]_hostVars  PROVE RevInv'
  OBVIOUS
<1>0. TypeOK
  BY DEF HostTypeOK
<1>u. ASSUME UNCHANGED <<revokedFile, work, wantRevoked, selfRevoked, interrupted>>
      PROVE  RevInv'
  BY <1>u DEF RevInv, Unrevoking
<1>1. CASE SignerStep
  <2>1. revokedFile \subseteq revokedFile'
    BY <1>0, <1>1, SignerKeepsFiles
  <2>2. /\ selfRevoked' = selfRevoked \cup (revokedFile' \ revokedFile)
        /\ UNCHANGED <<work, wantRevoked, interrupted>>
    BY <1>1 DEF SignerStep, console
  <2> QED
    BY <2>1, <2>2 DEF RevInv, Unrevoking
<1>2. ASSUME NEW a \in Admins, NEW c \in Clients, NEW flag \in BOOLEAN,
             BeginEdit(a, c, flag)
      PROVE  RevInv'
  <2>1. UNCHANGED <<revokedFile, wantRevoked, selfRevoked, interrupted>>
    BY <1>2 DEF BeginEdit, observed, vars, disk
  <2>2. work'[a].op = "edit" /\ work[a].op = "none"
        /\ \A b \in Admins \ {a} : work'[b] = work[b]
    BY <1>2 DEF BeginEdit, Arrive, NoWork, HostTypeOK
  <2>3. \A b \in Admins : Unrevoking(b)' <=> Unrevoking(b)
    BY <2>2 DEF Unrevoking
  <2> QED
    BY <2>1, <2>2, <2>3 DEF RevInv, Unrevoking
<1>3. ASSUME NEW a \in Admins, NEW c \in Clients, BeginUnrevoke(a, c)
      PROVE  RevInv'
  <2>1. \A b \in Admins : work[b] = NoWork
    BY <1>3, HostAssumption DEF BeginUnrevoke, Lock, Free, HostTypeOK
  <2>2. /\ work'[a].op = "unrevoke" /\ work'[a].open = FALSE
        /\ work'[a].list = revokedFile \ {c}
        /\ \A b \in Admins \ {a} : work'[b] = work[b]
    BY <1>3 DEF BeginUnrevoke, Remaining, HostTypeOK
  <2>3. /\ wantRevoked' = wantRevoked \ {c} /\ selfRevoked' = selfRevoked \ {c}
        /\ UNCHANGED <<revokedFile, interrupted>>
    BY <1>3 DEF BeginUnrevoke, vars, disk
  <2>4. ~interrupted => /\ wantRevoked \subseteq revokedFile
                        /\ revokedFile \subseteq wantRevoked \cup selfRevoked
    BY <2>1 DEF RevInv, Unrevoking, NoWork
  <2>5. \A b \in Admins \ {a} : work'[b].op = "none"
    BY <2>1, <2>2 DEF NoWork
  <2> QED
    BY <2>2, <2>3, <2>4, <2>5 DEF RevInv, Unrevoking
<1>4. ASSUME NEW a \in Admins, NEW c \in Clients, Revoke(a, c)
      PROVE  RevInv'
  <2>1. \A b \in Admins : ~Unrevoking(b)
    BY <1>4, HostAssumption DEF Revoke, Free, HostTypeOK, Unrevoking, NoWork
  <2>2. /\ revokedFile' = revokedFile \cup {c}
        /\ wantRevoked' = wantRevoked \cup {c}
        /\ UNCHANGED <<work, selfRevoked, interrupted>>
    BY <1>4 DEF Revoke, AppendRevoked
  <2> QED
    BY <2>1, <2>2 DEF RevInv, Unrevoking
<1>5. ASSUME NEW a \in Admins, Truncate(a)
      PROVE  RevInv'
  <2>1. work[a] \in Edits \cup Unrevokes
    BY <1>5, AtWork DEF Truncate, Running
  <2>2. work'[a] = [work[a] EXCEPT !.open = TRUE]
        /\ \A b \in Admins \ {a} : work'[b] = work[b] /\ work[b] = NoWork
    BY <1>5, AtWork DEF Truncate, HostTypeOK
  <2>3. UNCHANGED <<wantRevoked, selfRevoked, interrupted>>
    BY <1>5 DEF Truncate, observed
  <2>4. \A b \in Admins \ {a} : ~Unrevoking(b) /\ ~Unrevoking(b)'
    BY <2>2 DEF Unrevoking, NoWork
  <2>5. CASE work[a].op = "edit"
    <3>1. revokedFile' = revokedFile
      BY <1>5, <2>5 DEF Truncate
    <3>2. ~Unrevoking(a) /\ ~Unrevoking(a)'
      BY <2>1, <2>2, <2>5 DEF Unrevoking, Edits, Unrevokes
    <3> QED
      BY <2>3, <2>4, <3>1, <3>2 DEF RevInv
  <2>6. CASE work[a].op # "edit"
    <3>1. revokedFile' = {}
      BY <1>5, <2>6 DEF Truncate
    <3>2. Unrevoking(a) /\ Unrevoking(a)' /\ work'[a].list = work[a].list
      BY <2>1, <2>2, <2>6 DEF Unrevoking, Edits, Unrevokes
    <3> QED
      BY <2>3, <2>4, <3>1, <3>2 DEF RevInv
  <2> QED
    BY <2>5, <2>6
<1>6. ASSUME NEW a \in Admins, Commit(a)
      PROVE  RevInv'
  <2>1. work[a].op \in Running /\ work' = [work EXCEPT ![a] = NoWork]
    BY <1>6 DEF Commit
  <2>2. \A b \in Admins : ~Unrevoking(b)'
    BY <2>1, AtWork DEF HostTypeOK, Unrevoking, NoWork
  <2>3. \A b \in Admins \ {a} : ~Unrevoking(b)
    BY <2>1, AtWork DEF Unrevoking, NoWork
  <2>4. UNCHANGED <<wantRevoked, selfRevoked, interrupted>>
    BY <1>6 DEF Commit
  <2>5. CASE work[a].op = "edit"
    <3>1. revokedFile' = revokedFile /\ ~Unrevoking(a)
      BY <1>6, <2>5 DEF Commit, Unrevoking
    <3> QED
      BY <2>2, <2>3, <2>4, <3>1 DEF RevInv
  <2>6. CASE work[a].op # "edit"
    <3>1. Unrevoking(a) /\ work[a].open
      BY <1>6, <2>1, <2>6 DEF Commit, Unrevoking, Running
    <3>2. PICK S \in Survivors : revokedFile' = work[a].list \cup S
      BY <1>6, <2>6 DEF Commit
    <3>3. S \subseteq revokedFile
      BY DEF Survivors
    <3> QED
      BY <2>2, <2>4, <3>1, <3>2, <3>3 DEF RevInv
  <2> QED
    BY <2>5, <2>6
<1>7. CASE CrashConsole
  <2>1. UNCHANGED <<revokedFile, wantRevoked, selfRevoked>>
    BY <1>7 DEF CrashConsole, vars, disk
  <2>2. \A a \in Admins : ~Unrevoking(a)'
    BY <1>7 DEF CrashConsole, Unrevoking, NoWork
  <2>3. ~interrupted' => ~interrupted /\ work[mutex].op # "unrevoke"
    BY <1>7 DEF CrashConsole
  <2>4. ~interrupted' => \A a \in Admins : ~Unrevoking(a)
    BY <2>3 DEF Unrevoking, HostTypeOK, NoWork
  <2> QED
    BY <2>1, <2>2, <2>3, <2>4 DEF RevInv
<1>8. CASE UNCHANGED hostVars
  BY <1>8, <1>u DEF hostVars, vars, disk, console, observed
<1> QED
  BY <1>1, <1>2, <1>3, <1>4, <1>5, <1>6, <1>7, <1>8 DEF HostNext, ConsoleStep

(* No acknowledged revocation is lost, and none appears for nothing, for    *)
(* any interleaving of the console's handlers with the signer's appends.    *)
THEOREM RevokedAlwaysListed == HostSpec => []RevokedStaysListed
<1>1. HostTypeOK /\ RevInv => RevokedStaysListed
  <2> SUFFICES ASSUME HostTypeOK, RevInv, Settled
               PROVE  /\ wantRevoked \subseteq revokedFile
                      /\ revokedFile \subseteq wantRevoked \cup selfRevoked
    BY DEF RevokedStaysListed
  <2>1. \A a \in Admins : ~Unrevoking(a)
    BY HostAssumption DEF Settled, HostTypeOK, Unrevoking, NoWork
  <2> QED
    BY <2>1 DEF RevInv, Settled
<1> QED
  BY <1>1, HostInitRevInv, HostNextRevInv, HostTypeCorrect, PTL DEF HostSpec

-----------------------------------------------------------------------------
(* The signer beside the console. *)

(* The console touches the files and nothing the signer holds in memory. *)
LEMMA ConsoleKeepsSigner ==
    ASSUME ConsoleStep \/ UNCHANGED hostVars
    PROVE  UNCHANGED NotSigner
BY DEF ConsoleStep, BeginEdit, BeginUnrevoke, Revoke, AppendRevoked, Truncate, Commit,
       CrashConsole, hostVars, vars, NotSigner

(* What the limits rest on. *)
LimitInv == CountersExact /\ OvershootInv /\ OverThresholdIsBarred

LEMMA LimitsStay == LimitInv /\ UNCHANGED NotSigner => LimitInv'
BY DEF LimitInv, NotSigner, manager, counters, handlers, CountersExact, InWindow,
       OvershootInv, SpentOrAdmitted, Admitted, OverThresholdIsBarred

LEMMA HostInitLimits == HostInit => LimitInv
BY InitCountersExact, InitOvershootInv DEF HostInit, LimitInv, Init, OverThresholdIsBarred

LEMMA HostNextLimits == TypeOK /\ LimitInv /\ [HostNext]_hostVars => LimitInv'
<1>1. TypeOK /\ LimitInv /\ SignerStep => LimitInv'
  BY SignerStepIsNext, NextCountersExact, NextOvershootInv, NextOverThreshold DEF LimitInv
<1> QED
  BY <1>1, ConsoleKeepsSigner, LimitsStay DEF HostNext

(* What the signer counts and how far a client can get over its limits does *)
(* not depend on when the console rewrites the files: the bounds of module  *)
(* Signer, for signers that may load any file the console has left.         *)
THEOREM LimitsBesideConsole ==
    HostSpec => [](CountersExact /\ OvershootBounded /\ OverThresholdIsBarred)
<1>1. HostTypeOK => TypeOK
  BY DEF HostTypeOK
<1>2. TypeOK /\ LimitInv => CountersExact /\ OvershootBounded /\ OverThresholdIsBarred
  BY OvershootInvBounds DEF LimitInv
<1> QED
  BY <1>1, <1>2, HostInitLimits, HostNextLimits, HostTypeCorrect, PTL DEF HostSpec

(* The console never lets a barred client back into a running signer: an    *)
(* enable or an unrevoke waits for the next start.                          *)
THEOREM DrainsBesideConsole == HostSpec => BarredDrains
<1>1. HostTypeOK /\ [HostNext]_hostVars =>
        [\A c \in Clients :
            up /\ up' /\ Barred(c) => /\ InFlight(c)' \subseteq InFlight(c)
                                      /\ Barred(c)']_vars
  <2> SUFFICES ASSUME HostTypeOK, [HostNext]_hostVars, NEW c \in Clients, up, up', Barred(c)
               PROVE  InFlight(c)' \subseteq InFlight(c) /\ Barred(c)'
    OBVIOUS
  <2>1. CASE SignerStep
    BY <2>1, SignerStepIsNext, NextDrains DEF HostTypeOK
  <2>2. CASE ConsoleStep \/ UNCHANGED hostVars
    BY <2>2, ConsoleKeepsSigner DEF NotSigner, manager, handlers, InFlight, Barred
  <2> QED
    BY <2>1, <2>2 DEF HostNext
<1> QED
  BY <1>1, HostTypeCorrect, PTL DEF HostSpec, BarredDrains

(* What a start of the signer may not leave undone: it bars every client an *)
(* acknowledged disable applies to; and every client revoked and not        *)
(* unrevoked since, unless an unrevoke is rewriting the list, or died while *)
(* it did.                                                                  *)
StartBars ==
    ~up /\ up' => /\ \A c \in wantDisabled : Barred(c)'
                  /\ Settled => \A c \in wantRevoked : Barred(c)'

(* At whatever point of a console handler the signer starts, and after any  *)
(* number of crashes of either, it takes over what administrators decided.  *)
THEOREM StartTakesOver == HostSpec => [][StartBars]_hostVars
<1>1. ReadableFileIsCurrent /\ RevokedStaysListed /\ HostTypeOK /\ [HostNext]_hostVars =>
        [StartBars]_hostVars
  <2> SUFFICES ASSUME ReadableFileIsCurrent, RevokedStaysListed, HostTypeOK,
                      [HostNext]_hostVars, ~up, up'
               PROVE  /\ \A c \in wantDisabled : Barred(c)'
                      /\ Settled => \A c \in wantRevoked : Barred(c)'
    BY DEF StartBars
  <2>1. StartSigner
    <3>1. SignerStep
      BY ConsoleKeepsSigner DEF HostNext, NotSigner
    <3>2. ASSUME NEW h \in Handlers,
                 \/ \E t \in Tokens : Authenticate(h, t)
                 \/ RecordRejected(h) \/ PublicKey(h) \/ Allowed(h) \/ RecordLimited(h)
                 \/ \E ok \in BOOLEAN : Sign(h, ok)
          PROVE  up' = up
      <4>1. CASE \E t \in Tokens : Authenticate(h, t)
        BY <4>1 DEF Authenticate
      <4>2. CASE ~\E t \in Tokens : Authenticate(h, t)
        BY <3>2, <4>2, HandlerStepBars DEF BarsAtMost, HostTypeOK
      <4> QED
        BY <4>1, <4>2
    <3>3. ~Tick /\ ~Stop
      BY DEF Tick, Stop
    <3> QED
      BY <3>1, <3>2, <3>3 DEF SignerStep
  <2>2. /\ loaded'.ids = IF clientsMode THEN clientsFile.ids ELSE {}
        /\ loaded'.cfg = clientsFile.cfg
        /\ revoked' = revokedFile
        /\ ~clientsMode \/ ~torn
    BY <2>1 DEF StartSigner, Start
  <2>3. ASSUME NEW c \in wantDisabled  PROVE Barred(c)'
    <3>1. CASE clientsMode
      BY <2>2, <3>1 DEF ReadableFileIsCurrent, Barred
    <3>2. CASE ~clientsMode
      BY <2>2, <3>2 DEF Barred
    <3> QED
      BY <3>1, <3>2
  <2>4. ASSUME Settled, NEW c \in wantRevoked  PROVE Barred(c)'
    BY <2>2, <2>4 DEF RevokedStaysListed, Barred
  <2> QED
    BY <2>3, <2>4
<1> QED
  BY <1>1, ReadableFileAlwaysCurrent, RevokedAlwaysListed, HostTypeCorrect, PTL DEF HostSpec
=============================================================================
