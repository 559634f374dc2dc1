---------------------------- MODULE TrustedHost ----------------------------
(***************************************************************************)
(* The trusted host: keylessd (module Signer) and the client actions of    *)
(* the signer console, two processes that share clients.json and           *)
(* revoked-clients.txt.                                                    *)
(*                                                                         *)
(* The console's handlers exclude each other with app.mu, but nothing      *)
(* excludes the signer: it appends to revoked-clients.txt and, at start,   *)
(* reads both files at any moment of a console handler.  A handler that    *)
(* rewrites a file reads it, truncates it and writes it back.              *)
(***************************************************************************)
EXTENDS Signer

CONSTANTS Admins,        \* goroutines serving administrators
          NoAdmin,
          ConsoleMayCrash,
          MaxActions     \* bound: administrator actions modelled

ASSUME HostAssumption == /\ NoAdmin \notin Admins
                         /\ ConsoleMayCrash \in BOOLEAN
                         /\ MaxActions \in Nat

VARIABLES
    torn,          \* clients.json is truncated: no JSON in it
    mutex,         \* who holds app.mu
    work,          \* what each console handler is doing
    actions,       \* administrator actions so far
    wantDisabled,  \* observation: clients disabled by acknowledged actions
    wantRevoked,   \* observation: clients revoked and not unrevoked since
    selfRevoked,   \* observation: clients the signer appended since then
    lifted,        \* observation: clients some administrator unrevoked
    interrupted    \* observation: the console has died in an unrevoke

observed == <<wantDisabled, wantRevoked, selfRevoked, lifted, interrupted>>
console  == <<torn, mutex, work, actions>>
hostVars == <<vars, console, observed>>

NoWork == [op |-> "none"]

Running == {"edit", "unrevoke"}

-----------------------------------------------------------------------------
(* The console: clientAction, one administrator request at a time. *)

(* a.mu.Lock(); every action reads clients.json first and stops with 500    *)
(* when it does not parse.                                                  *)
(* Mutant: handlers do not exclude each other. *)
AlwaysFree == TRUE

Free == mutex = NoAdmin

Lock(a) == /\ Free
           /\ mutex' = a

Arrive(a) == /\ work[a] = NoWork
             /\ ~torn
             /\ actions < MaxActions
             /\ actions' = actions + 1

(* disable and enable: the whole file as it was read, with one flag set.    *)
(* ("limits" sets other fields of the same entry in the same way.)          *)
BeginEdit(a, c, flag) ==
    /\ Arrive(a) /\ Lock(a)
    /\ c \in clientsFile.ids
    /\ work' = [work EXCEPT ![a] =
                  [op |-> "edit", client |-> c, flag |-> flag, open |-> FALSE,
                   file |-> [clientsFile EXCEPT !.cfg[c].disabled = flag]]]
    /\ UNCHANGED <<vars, torn, observed>>

(* unrevoke: the lines as they were read, without the client's. *)
(* Mutant: the client's line is what is kept. *)
OnlyItsOwn(c) == revokedFile \cap {c}

Remaining(c) == revokedFile \ {c}

BeginUnrevoke(a, c) ==
    /\ Arrive(a) /\ Lock(a)
    /\ work' = [work EXCEPT ![a] =
                  [op |-> "unrevoke", client |-> c, open |-> FALSE,
                   list |-> Remaining(c)]]
    /\ wantRevoked' = wantRevoked \ {c}
    /\ selfRevoked' = selfRevoked \ {c}
    /\ lifted' = lifted \cup {c}
    /\ UNCHANGED <<vars, torn, wantDisabled, interrupted>>

(* revoke: one appended line.  Reading the file first only avoids a         *)
(* duplicate, so reading, appending and unlocking are one step.             *)
Revoke(a, c) ==
    /\ Arrive(a) /\ Free
    /\ AppendRevoked(c)
    /\ wantRevoked' = wantRevoked \cup {c}
    /\ UNCHANGED <<torn, mutex, work, wantDisabled, selfRevoked, lifted,
                   interrupted>>

(* os.WriteFile, first half: the file is opened with O_TRUNC. *)
Truncate(a) ==
    /\ work[a].op \in Running /\ ~work[a].open
    /\ work' = [work EXCEPT ![a].open = TRUE]
    /\ IF work[a].op = "edit"
       THEN torn' = TRUE /\ UNCHANGED revokedFile
       ELSE revokedFile' = {} /\ UNCHANGED torn
    /\ UNCHANGED <<clientsFile, up, manager, now, handlers, arrivals, granted,
                   mutex, actions, observed>>

(* Second half, from offset 0, over what the signer appended since then: at *)
(* least one byte is written, so the first appended line is damaged (and is *)
(* nobody's id any more) and the later ones may be.                         *)
Survivors == {S \in SUBSET revokedFile : revokedFile = {} \/ S # revokedFile}

(* Then the answer and a.mu.Unlock(). *)
Commit(a) ==
    /\ work[a].op \in Running /\ work[a].open
    /\ IF work[a].op = "edit"
       THEN /\ clientsFile' = work[a].file
            /\ torn' = FALSE
            /\ wantDisabled' = IF work[a].flag
                               THEN wantDisabled \cup {work[a].client}
                               ELSE wantDisabled \ {work[a].client}
            /\ UNCHANGED revokedFile
       ELSE /\ \E S \in Survivors : revokedFile' = work[a].list \cup S
            /\ UNCHANGED <<clientsFile, torn, wantDisabled>>
    /\ work' = [work EXCEPT ![a] = NoWork]
    /\ mutex' = NoAdmin
    /\ UNCHANGED <<up, manager, now, handlers, arrivals, granted, actions,
                   wantRevoked, selfRevoked, lifted, interrupted>>

(* The console dies and is restarted: the files stay as they are. *)
CrashConsole ==
    /\ ConsoleMayCrash
    /\ mutex # NoAdmin
    /\ mutex' = NoAdmin
    /\ work' = [a \in Admins |-> NoWork]
    /\ interrupted' = (interrupted \/ work[mutex].op = "unrevoke")
    /\ UNCHANGED <<vars, torn, actions, wantDisabled, wantRevoked, selfRevoked,
                   lifted>>

-----------------------------------------------------------------------------
(* The signer beside it.  A start that finds clients.json torn is fatal. *)
StartSigner == /\ ~clientsMode \/ ~torn
               /\ Start

SignerStep ==
    /\ \/ \E h \in Handlers :
             \/ \E t \in Tokens : Authenticate(h, t)
             \/ RecordRejected(h)
             \/ PublicKey(h)
             \/ Allowed(h)
             \/ RecordLimited(h)
             \/ \E ok \in BOOLEAN : Sign(h, ok)
       \/ Tick
       \/ StartSigner
       \/ Stop
    /\ selfRevoked' = selfRevoked \cup (revokedFile' \ revokedFile)
    /\ UNCHANGED <<console, wantDisabled, wantRevoked, lifted, interrupted>>

ConsoleStep ==
    \/ \E a \in Admins :
          \/ \E c \in Clients :
                \/ \E flag \in BOOLEAN : BeginEdit(a, c, flag)
                \/ BeginUnrevoke(a, c)
                \/ Revoke(a, c)
          \/ Truncate(a)
          \/ Commit(a)
    \/ CrashConsole

HostInit ==
    /\ Init
    /\ torn = FALSE
    /\ mutex = NoAdmin
    /\ work = [a \in Admins |-> NoWork]
    /\ actions = 0
    /\ wantDisabled = {c \in clientsFile.ids : clientsFile.cfg[c].disabled}
    /\ wantRevoked = revokedFile
    /\ selfRevoked = {}
    /\ lifted = {}
    /\ interrupted = FALSE

HostNext == SignerStep \/ ConsoleStep

HostSpec == HostInit /\ [][HostNext]_hostVars

-----------------------------------------------------------------------------
(* Properties. *)

(* What a console handler may be doing. *)
Edits == [op : {"edit"}, client : Clients, flag : BOOLEAN, open : BOOLEAN,
          file : ClientFile]

Unrevokes == [op : {"unrevoke"}, client : Clients, open : BOOLEAN,
              list : SUBSET Clients]

(* Type correctness; only the holder of app.mu is at work. *)
HostTypeOK ==
    /\ TypeOK
    /\ torn \in BOOLEAN
    /\ mutex \in Admins \cup {NoAdmin}
    /\ work \in [Admins -> {NoWork} \cup Edits \cup Unrevokes]
    /\ \A a \in Admins : work[a] # NoWork <=> mutex = a
    /\ actions \in Nat
    /\ wantDisabled \in SUBSET Clients /\ wantRevoked \in SUBSET Clients
    /\ selfRevoked \in SUBSET Clients /\ lifted \in SUBSET Clients
    /\ interrupted \in BOOLEAN

(* No handler is at work, and none has died with the list half written.     *)
Settled == mutex = NoAdmin /\ ~interrupted

(* No acknowledged edit is lost or undone by another one, nor by a crash of *)
(* the console: whenever clients.json is readable it disables exactly the   *)
(* clients that were last told to be disabled.                              *)
ReadableFileIsCurrent ==
    ~torn => {c \in clientsFile.ids : clientsFile.cfg[c].disabled} = wantDisabled

(* No acknowledged revocation is lost to another administrator's action, a  *)
(* restart of the signer or a crash in an edit, and none comes back or      *)
(* appears for nothing: with no handler at work, every client revoked after *)
(* its last unrevoke is listed, and every listed one was revoked after it,  *)
(* by an administrator or by the signer; unless the console died in an      *)
(* unrevoke.                                                                *)
RevokedStaysListed ==
    Settled => /\ wantRevoked \subseteq revokedFile
               /\ revokedFile \subseteq wantRevoked \cup selfRevoked

-----------------------------------------------------------------------------
(* What the documentation says and the code does not do. *)

(* docs/abuse-monitoring.md: auto_revoke appends the client id to           *)
(* revoked-clients.txt for good.  An administrator who unrevokes another    *)
(* client at that moment overwrites the line the signer just appended.      *)
SelfRevocationIsDurable ==
    Settled /\ up => autoDisabled \ lifted \subseteq revokedFile
=============================================================================
