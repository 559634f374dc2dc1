---------------------------- MODULE SetupWizard ----------------------------
(***************************************************************************)
(* setup-wizard, run once or again, on the host of the console: its steps  *)
(* in order, each of which may fail, with the wizard killed anywhere, and  *)
(* the services that systemd keeps running from what is on the disk.       *)
(*                                                                         *)
(* A file is absent, torn (opened with O_TRUNC and not written), new (what *)
(* the wizard writes) or, for the files the services share, used (clients, *)
(* revocations or registrations were entered).  env is the run whose       *)
(* values an environment file has; that of the console holds the session   *)
(* secret, drawn in a run, which the operator may enter again in a later   *)
(* one.                                                                    *)
(*                                                                         *)
(* The shared files are created in one step, each as ensureFile leaves it.  *)
(* Abstracted: the other values of the environment files, directories, the *)
(* text of the result.                                                     *)
(***************************************************************************)
EXTENDS ConsoleSession, Sequences

CONSTANTS Shared,       \* the files that the services share, clients.json among them
          MaxRuns,      \* bound: runs of the wizard
          MaxEdits      \* bound: edits of the shared files

Console == "signer-console"
Programs == {"keylessd", Console, "edgeproxy"}
EnvOf(p) == IF p = "keylessd" THEN "keylessd.env"
            ELSE IF p = Console THEN "console.env" ELSE "edgeproxy.env"
Installed == Programs \cup {EnvOf(p) : p \in Programs}
Files == Installed \cup Shared

ASSUME WizardAssumption ==
    /\ "clients.json" \in Shared /\ Shared \cap Installed = {}
    /\ MaxRuns \in Nat /\ MaxEdits \in Nat

Step(do, file) == [do |-> do, file |-> file]

(* installEdge, installTrusted.  A unit file is copied like its program and *)
(* is not told apart from it.                                               *)
Steps(kind) ==
    IF kind = "edge"
    THEN << Step("copy", "edgeproxy"), Step("env", "edgeproxy.env"),
            Step("owner", ""), Step("run", "enable") >>
    ELSE << Step("copy", "keylessd"), Step("copy", Console),
            Step("env", "keylessd.env"), Step("env", "console.env"),
            Step("ensure", ""), Step("owner", ""), Step("run", "enable"), Step("restart", "") >>

VARIABLES
    disk,       \* the state of each file
    env,        \* the run whose values each environment file has, 0 if none
    owner,      \* who owns each shared file: root or the user of the services
    enabled,    \* services that systemd keeps up
    running,    \* programs in execution, but for the console (see key)
    runs,       \* the runs of the wizard
    kind, at,   \* the form of this run, and its next step
    torn,       \* that step has truncated its file
    edits

files  == <<disk, env, owner, edits>>
system == <<enabled, running>>
wizard == <<runs, kind, at, torn>>
setup  == <<files, system, wizard>>

WizardInit ==
    /\ disk = [f \in Files |-> "absent"]
    /\ env = [p \in Programs |-> 0]
    /\ owner = [f \in Shared |-> "root"]
    /\ enabled = {} /\ running = {}
    /\ runs = 0 /\ kind = "none" /\ at = 0 /\ torn = FALSE
    /\ edits = 0

Working == at \in 1 .. Len(Steps(kind))
Succeeded == kind # "none" /\ at > Len(Steps(kind))
Now(do) == Working /\ Steps(kind)[at].do = do
File == Steps(kind)[at].file

Up(p) == IF p = Console THEN key # NoKey ELSE p \in running

-----------------------------------------------------------------------------
(* The wizard. *)

Apply(k) ==
    /\ ~Working /\ runs < MaxRuns
    /\ \A h \in Handlers : call[h] = NoCall     \* at a quiet moment
    /\ runs' = runs + 1 /\ kind' = k /\ at' = 1 /\ torn' = FALSE
    /\ UNCHANGED <<files, system, session>>

NextStep == at' = at + 1 /\ torn' = FALSE /\ UNCHANGED <<runs, kind>>

(* The error is shown and the rest is not done; or the wizard is killed.    *)
Abort == /\ Working
         /\ at' = 0 /\ torn' = FALSE /\ UNCHANGED <<runs, kind>>
         /\ UNCHANGED <<files, system, session>>

(* copyFile: a program that is running cannot be opened for writing, so     *)
(* only Abort is left.                                                      *)
Busy(f) == f \in Programs /\ Up(f)

Truncate ==
    /\ ~torn /\ (Now("env") \/ (Now("copy") /\ ~Busy(File)))
    /\ disk' = [disk EXCEPT ![File] = "torn"]
    /\ torn' = TRUE
    /\ UNCHANGED <<env, owner, edits, system, runs, kind, at, session>>

(* value, secret: what the operator enters, here the secret of before, or a *)
(* fresh one.                                                               *)
Written(f) == {runs} \cup (IF f = EnvOf(Console) THEN {env[Console]} \ {0} ELSE {})

WriteOut ==
    /\ torn /\ (Now("copy") \/ Now("env"))
    /\ disk' = [disk EXCEPT ![File] = "new"]
    /\ \E r \in Written(File) :
          env' = [p \in Programs |-> IF File = EnvOf(p) THEN r ELSE env[p]]
    /\ NextStep
    /\ UNCHANGED <<owner, edits, system, session>>

(* Mutant: the file is written whether it is there or not. *)
Missing(f) == TRUE

Absent(f) == disk[f] = "absent"

(* ensureFile: a file that exists is left alone, whatever is in it; an      *)
(* error is dropped, wherever it leaves the file.                           *)
EnsureFile ==
    /\ Now("ensure")
    /\ \E made \in [Shared -> {"absent", "torn", "new"}] :
          disk' = [f \in Files |-> IF f \in Shared /\ Absent(f) THEN made[f] ELSE disk[f]]
    /\ NextStep
    /\ UNCHANGED <<env, owner, edits, system, session>>

(* chown -R root:myzerossl and chmod 0640, whose errors are dropped. *)
ChangeOwner ==
    /\ Now("owner")
    /\ owner' \in {owner, [f \in Shared |-> "root"]}
    /\ NextStep
    /\ UNCHANGED <<disk, env, edits, system, session>>

Enable ==
    /\ Now("run")
    /\ enabled' = enabled \cup (IF kind = "edge" THEN {"edgeproxy"} ELSE {"keylessd", Console})
    /\ NextStep
    /\ UNCHANGED <<files, running, session>>

(* Mutant: the services are only started. *)
StartServices == /\ running' = running \cup {"keylessd"}
                 /\ RunWith(IF key = NoKey THEN env[Console] ELSE key)

(* systemctl restart succeeds when the processes have been started. *)
RestartServices == /\ running' = running \cup {"keylessd"}
                   /\ RunWith(env[Console])

Restart == /\ Now("restart")
           /\ RestartServices
           /\ NextStep
           /\ UNCHANGED <<files, enabled>>

-----------------------------------------------------------------------------
(* The services and the operator. *)

Readable(p) == disk[p] = "new" /\ disk[EnvOf(p)] = "new"

(* A process ends, or the operator stops it. *)
StopService(p) ==
    /\ Up(p)
    /\ IF p = Console THEN RunWith(NoKey) /\ UNCHANGED running
       ELSE running' = running \ {p} /\ UNCHANGED session
    /\ UNCHANGED <<files, enabled, wizard>>

(* systemd starts an enabled service; keylessd and the console read their   *)
(* environment and keylessd its clients.                                    *)
StartService(p) ==
    /\ p \in enabled /\ ~Up(p) /\ Readable(p)
    /\ p = "keylessd" => disk["clients.json"] \in {"new", "used"}
    /\ IF p = Console THEN RunWith(env[Console]) /\ UNCHANGED running
       ELSE running' = running \cup {p} /\ UNCHANGED session
    /\ UNCHANGED <<files, enabled, wizard>>

(* The units run the services as myzerossl; the group may only read. *)
CanWrite(f) == owner[f] = "myzerossl"

(* approve, revoke and the like write a shared file; the operator edits or  *)
(* restores one as root; or gives the files to the services.                *)
ConsoleWrites(h, f) ==
    /\ edits < MaxEdits
    /\ disk[f] \in {"new", "used"} /\ CanWrite(f)
    /\ disk' = [disk EXCEPT ![f] = "used"] /\ edits' = edits + 1
    /\ Act(h)
    /\ UNCHANGED <<env, owner, system, wizard>>

OperatorEdits(f) ==
    /\ edits < MaxEdits /\ ~Working
    /\ disk[f] # "absent"
    /\ disk' = [disk EXCEPT ![f] = "used"] /\ edits' = edits + 1
    /\ UNCHANGED <<env, owner, system, wizard, session>>

GiveFiles ==
    /\ edits < MaxEdits /\ edits' = edits + 1 /\ ~Working
    /\ owner' = [f \in Shared |-> "myzerossl"]
    /\ UNCHANGED <<disk, env, system, wizard, session>>

WizardNext ==
    \/ \E k \in {"edge", "trusted"} : Apply(k)
    \/ Abort \/ Truncate \/ WriteOut \/ EnsureFile \/ ChangeOwner \/ Enable \/ Restart
    \/ \E p \in Programs : StopService(p) \/ StartService(p)
    \/ \E f \in Shared : OperatorEdits(f) \/ \E h \in Handlers : ConsoleWrites(h, f)
    \/ GiveFiles

vars == <<session, setup>>

(* The console is used between runs of the wizard. *)
Init == SessionInit /\ WizardInit
Next == WizardNext \/ (~Working /\ SessionNext /\ UNCHANGED setup)
Spec == Init /\ [][Next]_vars

-----------------------------------------------------------------------------
(* Properties. *)

(* Type correctness; a file is truncated only under the step writing it.    *)
TypeOK ==
    /\ SessionTypeOK
    /\ disk \in [Files -> {"absent", "torn", "new", "used"}]
    /\ env \in [Programs -> 0 .. MaxRuns]
    /\ owner \in [Shared -> {"root", "myzerossl"}]
    /\ enabled \subseteq Programs /\ running \subseteq Programs \ {Console}
    /\ runs \in 0 .. MaxRuns /\ kind \in {"none", "edge", "trusted"}
    /\ at \in 0 .. Len(Steps("trusted")) + 1 /\ torn \in BOOLEAN
    /\ torn => (Now("copy") \/ Now("env")) /\ disk[File] = "torn"
    /\ edits \in 0 .. MaxEdits

(* Whatever happens to a run, and however often it is repeated, what was    *)
(* entered in a shared file is never replaced by an empty one.              *)
EnteredDataStays ==
    [][\A f \in Shared : disk[f] = "used" => disk'[f] = "used"]_setup

(* A run that reports success has put every program and environment file of *)
(* its role in place, and no console runs with another secret than the one  *)
(* of that file, so that sessions of before are over.                       *)
SuccessIsComplete ==
    Succeeded =>
       /\ \A i \in DOMAIN Steps(kind) :
             Steps(kind)[i].do \in {"copy", "env"} => disk[Steps(kind)[i].file] = "new"
       /\ kind = "trusted" /\ Up(Console) => key = env[Console]
=============================================================================
