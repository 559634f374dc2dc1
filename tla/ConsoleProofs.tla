---------------------------- MODULE ConsoleProofs ----------------------------
(***************************************************************************)
(* Theorems about SetupWizard and ConsoleSession, for every set of         *)
(* browsers, accounts, goroutines and shared files, and for any number of  *)
(* logins, runs and edits.                                                 *)
(***************************************************************************)
EXTENDS SetupWizard, TLAPS

-----------------------------------------------------------------------------
(* The steps of the wizard. *)

LEMMA InstalledFiles ==
    Installed = {"keylessd", Console, "edgeproxy", "keylessd.env", "console.env",
                 "edgeproxy.env"}
BY DEF Installed, Programs, EnvOf, Console

LEMMA StepCount == \A k : Len(Steps(k)) = IF k = "edge" THEN 4 ELSE 8
BY DEF Steps

LEMMA EdgeSteps ==
    LET s == Steps("edge") IN
    /\ s[1].do = "copy"  /\ s[1].file = "edgeproxy"
    /\ s[2].do = "env"   /\ s[2].file = "edgeproxy.env"
    /\ s[3].do = "owner" /\ s[4].do = "run"
BY DEF Steps, Step

LEMMA TrustedSteps ==
    ASSUME NEW k, k # "edge"
    PROVE  LET s == Steps(k) IN
           /\ s[1].do = "copy" /\ s[1].file = "keylessd"
           /\ s[2].do = "copy" /\ s[2].file = Console
           /\ s[3].do = "env"  /\ s[3].file = "keylessd.env"
           /\ s[4].do = "env"  /\ s[4].file = "console.env"
           /\ s[5].do = "ensure" /\ s[6].do = "owner" /\ s[7].do = "run"
           /\ s[8].do = "restart"
BY DEF Steps, Step

(* A step of copying or writing is about an installed file, and about       *)
(* another one than the steps before it.                                    *)
Writes(k, i) == Steps(k)[i].do \in {"copy", "env"}

LEMMA StepFiles ==
    ASSUME NEW k, NEW i \in 1 .. Len(Steps(k)), Writes(k, i)
    PROVE  /\ Steps(k)[i].file \in Installed
           /\ \A j \in 1 .. i - 1 : Writes(k, j) => Steps(k)[j].file # Steps(k)[i].file
<1>1. CASE k = "edge"
  <2>1. i \in {1, 2, 3, 4}
    <3>1. i \in 1 .. 4
      BY <1>1, StepCount
    <3> QED
      BY <3>1
  <2>2. i \in {1, 2}
    BY <1>1, <2>1, EdgeSteps DEF Writes
  <2>3. Steps(k)[i].file \in Installed
    BY <1>1, <2>2, EdgeSteps, InstalledFiles
  <2>4. \A j \in 1 .. i - 1 : i = 2 /\ j = 1
    BY <2>2
  <2> QED
    BY <1>1, <2>3, <2>4, EdgeSteps
<1>2. CASE k # "edge"
  <2>1. i \in {1, 2, 3, 4, 5, 6, 7, 8}
    <3>1. i \in 1 .. 8
      BY <1>2, StepCount
    <3> QED
      BY <3>1
  <2>2. i \in {1, 2, 3, 4}
    BY <1>2, <2>1, TrustedSteps DEF Writes
  <2>3. Steps(k)[i].file \in Installed
    BY <1>2, <2>2, TrustedSteps, InstalledFiles
  <2>4. ASSUME NEW j \in 1 .. i - 1  PROVE Steps(k)[j].file # Steps(k)[i].file
    <3>1. \/ i = 2 /\ j = 1
          \/ i = 3 /\ j \in {1, 2}
          \/ i = 4 /\ j \in {1, 2, 3}
      BY <2>2
    <3> QED
      BY <1>2, <3>1, TrustedSteps DEF Console
  <2> QED
    BY <2>3, <2>4
<1> QED
  BY <1>1, <1>2

(* The file of the step under way is installed and not shared. *)
LEMMA FileInstalled ==
    ASSUME Now("copy") \/ Now("env")
    PROVE  File \in Installed /\ File \in Files /\ File \notin Shared
BY StepFiles, WizardAssumption DEF Now, Working, Writes, File, Files

-----------------------------------------------------------------------------
(* What a step is for the sessions. *)
SessionStep ==
    \/ SessionNext
    \/ \E k \in Nat \cup {NoKey} : RunWith(k)
    \/ UNCHANGED session

LEMMA StepOfSession == TypeOK /\ [Next]_vars => SessionStep
<1> SUFFICES ASSUME TypeOK, [Next]_vars  PROVE SessionStep
  OBVIOUS
<1>1. env[Console] \in Nat
  BY WizardAssumption DEF TypeOK, Programs
<1>2. ASSUME NEW p \in Programs, StopService(p) \/ StartService(p)
      PROVE  SessionStep
  BY <1>1, <1>2 DEF StopService, StartService, SessionStep
<1>3. ASSUME NEW f \in Shared, NEW h \in Handlers, ConsoleWrites(h, f)
      PROVE  SessionStep
  <2>1. Act(h)
    BY <1>3 DEF ConsoleWrites
  <2> QED
    BY <2>1 DEF SessionStep, SessionNext
<1>4. CASE Restart
  BY <1>1, <1>4 DEF Restart, RestartServices, SessionStep
<1>5. CASE \/ \E k \in {"edge", "trusted"} : Apply(k)
           \/ Abort \/ Truncate \/ WriteOut \/ EnsureFile \/ ChangeOwner \/ Enable
           \/ \E f \in Shared : OperatorEdits(f)
           \/ GiveFiles
  BY <1>5 DEF Apply, Abort, Truncate, WriteOut, EnsureFile, ChangeOwner, Enable,
              OperatorEdits, GiveFiles, SessionStep
<1>6. CASE UNCHANGED vars
  BY <1>6 DEF vars, SessionStep
<1>7. CASE SessionNext
  BY <1>7 DEF SessionStep
<1> QED
  BY <1>2, <1>3, <1>4, <1>5, <1>6, <1>7 DEF Next, WizardNext

-----------------------------------------------------------------------------
(* Type correctness. *)

LEMMA SessionInitTypeOK == SessionInit => SessionTypeOK
BY SessionAssumption DEF SessionInit, SessionTypeOK, Cookie, Roles

(* What a cookie that verifies holds. *)
LEMMA CookieType ==
    ASSUME NEW S, NEW c \in Cookie(S), Verified(c)
    PROVE  c.value \in S /\ c.by = key
BY DEF Cookie, Verified

LEMMA BeginTypeOK ==
    ASSUME SessionTypeOK, key \in Nat,
           NEW h \in Handlers, NEW b \in Browsers, NEW form \in {"callback", "admin"},
           NEW u \in Accounts, NEW c, c.by = key, Begin(h, b, form, u, c)
    PROVE  SessionTypeOK'
BY DEF Begin, SessionTypeOK, jars, Call

LEMMA SessionStepTypeOK ==
    ASSUME SessionTypeOK, SessionStep
    PROVE  SessionTypeOK'
<1>1. ASSUME NEW b \in Browsers, AuthStart(b)  PROVE SessionTypeOK'
  <2>1. key \in Nat /\ logins \in Nat /\ logins + 1 \in 1 .. MaxLogins
    BY <1>1, SessionAssumption DEF AuthStart, SessionTypeOK
  <2>2. Signed(logins + 1) \in Cookie(1 .. MaxLogins)
    BY <2>1 DEF Signed, Cookie
  <2>3. stateCookie' \in [Browsers -> Cookie(1 .. MaxLogins)]
    BY <1>1, <2>2 DEF AuthStart, SetCookie, SessionTypeOK
  <2>4. pages' \subseteq [state : 1 .. MaxLogins, browser : Browsers]
    BY <1>1, <2>1 DEF AuthStart, SessionTypeOK
  <2> QED
    BY <1>1, <2>1, <2>3, <2>4 DEF AuthStart, SessionTypeOK
<1>2. ASSUME NEW b \in Browsers, Logout(b)  PROVE SessionTypeOK'
  <2>1. sessionCookie' \in [Browsers -> Cookie(Accounts)]
    BY <1>2 DEF Logout, SetCookie, SessionTypeOK, Cookie
  <2> QED
    BY <1>2, <2>1 DEF Logout, SessionTypeOK
<1>3. ASSUME NEW b \in Browsers, StateExpires(b)  PROVE SessionTypeOK'
  <2>1. stateCookie' \in [Browsers -> Cookie(1 .. MaxLogins)]
    BY <1>3 DEF StateExpires, SetCookie, SessionTypeOK, Cookie
  <2> QED
    BY <1>3, <2>1 DEF StateExpires, SessionTypeOK
<1>4. ASSUME NEW p \in pages, NEW u \in Accounts, PickAccount(p, u)
      PROVE  SessionTypeOK'
  <2>1. p.state \in 1 .. MaxLogins /\ p.browser \in Browsers
    BY DEF SessionTypeOK
  <2>2. links' \subseteq Link /\ pages' \subseteq pages
    BY <1>4, <2>1 DEF PickAccount, SessionTypeOK, Link
  <2>3. picked' \in [Browsers -> SUBSET Accounts]
    BY <1>4, <2>1 DEF PickAccount, SessionTypeOK
  <2> QED
    BY <1>4, <2>2, <2>3 DEF PickAccount, SessionTypeOK, jars
<1>5. ASSUME NEW h \in Handlers, NEW b \in Browsers, CurrentUser(h, b)
      PROVE  SessionTypeOK'
  <2>1. key \in Nat
    BY <1>5 DEF CurrentUser, SessionTypeOK
  <2>2. sessionCookie[b].value \in Accounts /\ sessionCookie[b].by = key
    BY <1>5, CookieType DEF CurrentUser, SessionTypeOK
  <2> QED
    BY <1>5, <2>1, <2>2, BeginTypeOK DEF CurrentUser
<1>6. ASSUME NEW h \in Handlers, NEW b \in Browsers, NEW l \in links, Callback(h, b, l)
      PROVE  SessionTypeOK'
  <2>1. key \in Nat /\ l.account \in Accounts
    BY <1>6 DEF Callback, SessionTypeOK, Link
  <2>2. stateCookie[b].by = key
    BY <1>6 DEF Callback, SameState, Verified
  <2> QED
    BY <1>6, <2>1, <2>2, BeginTypeOK DEF Callback
<1>7. ASSUME NEW h \in Handlers, FetchMe(h)  PROVE SessionTypeOK'
  <2>1. call[h] \in Call
    BY <1>7 DEF FetchMe, SessionTypeOK
  <2>2. [call[h] EXCEPT !.step = "admitted"] \in Call
    BY <2>1 DEF Call
  <2>3. call' = [call EXCEPT ![h] = [call[h] EXCEPT !.step = "admitted"]]
    BY <1>7 DEF FetchMe
  <2>4. [call[h] EXCEPT !.step = "admitted"].by = call[h].by
    BY <2>1 DEF Call
  <2>5. call' \in [Handlers -> Call \cup {NoCall}]
    BY <2>2, <2>3 DEF SessionTypeOK
  <2>6. \A g \in Handlers : call'[g] # NoCall => call'[g].by = key
    BY <1>7, <2>3, <2>4 DEF SessionTypeOK, FetchMe
  <2> QED
    BY <1>7, <2>5, <2>6 DEF FetchMe, SessionTypeOK, jars
<1>8. ASSUME NEW h \in Handlers, Unauthorized(h) \/ Act(h)  PROVE SessionTypeOK'
  <2>1. call' = [call EXCEPT ![h] = NoCall] /\ UNCHANGED <<key, role, jars, logins, pages, links, picked>>
    BY <1>8 DEF Unauthorized, Act
  <2> QED
    BY <2>1 DEF SessionTypeOK, jars
<1>9. ASSUME NEW h \in Handlers, SignIn(h)  PROVE SessionTypeOK'
  <2>1. call[h] \in Call /\ call[h].by = key /\ key \in Nat
    BY <1>9 DEF SignIn, SessionTypeOK, Call
  <2>2. Signed(call[h].account) \in Cookie(Accounts)
    BY <2>1 DEF Signed, Cookie, Call
  <2>3. sessionCookie' \in [Browsers -> Cookie(Accounts)]
    BY <1>9, <2>2 DEF SignIn, SetCookie, SessionTypeOK
  <2>4. stateCookie' \in [Browsers -> Cookie(1 .. MaxLogins)]
    BY <1>9 DEF SignIn, SetCookie, SessionTypeOK, Cookie
  <2> QED
    BY <1>9, <2>3, <2>4 DEF SignIn, SessionTypeOK
<1>10. ASSUME NEW u \in Accounts, NEW r \in Roles, SetRole(u, r)
       PROVE  SessionTypeOK'
  BY <1>10 DEF SetRole, SessionTypeOK, jars
<1>11. ASSUME NEW k \in Nat \cup {NoKey}, RunWith(k)  PROVE SessionTypeOK'
  BY <1>11 DEF RunWith, SessionTypeOK, jars
<1>12. CASE UNCHANGED session
  BY <1>12 DEF session, jars, SessionTypeOK
<1> QED
  BY <1>1, <1>2, <1>3, <1>4, <1>5, <1>6, <1>7, <1>8, <1>9, <1>10, <1>11, <1>12
     DEF SessionStep, SessionNext

LEMMA LastStep == 0 .. Len(Steps("trusted")) + 1 = 0 .. 9
<1> DEFINE L == Len(Steps("trusted"))
<1>1. L = 8
  BY StepCount
<1> HIDE DEF L
<1>2. 0 .. L + 1 = 0 .. 9
  BY <1>1
<1> QED
  BY <1>2 DEF L

LEMMA WizardInitTypeOK == Init => TypeOK
<1> SUFFICES ASSUME Init  PROVE TypeOK
  OBVIOUS
<1>1. SessionTypeOK
  BY SessionInitTypeOK DEF Init
<1>2. at \in 0 .. Len(Steps("trusted")) + 1
  BY LastStep DEF Init, WizardInit
<1>3. disk \in [Files -> {"absent", "torn", "new", "used"}]
  BY DEF Init, WizardInit
<1>4. env \in [Programs -> 0 .. MaxRuns]
  BY WizardAssumption DEF Init, WizardInit
<1>5. owner \in [Shared -> {"root", "myzerossl"}]
  BY DEF Init, WizardInit
<1>6. /\ enabled \subseteq Programs /\ running \subseteq Programs \ {Console}
      /\ runs \in 0 .. MaxRuns /\ edits \in 0 .. MaxEdits
      /\ kind \in {"none", "edge", "trusted"} /\ torn = FALSE
  BY WizardAssumption DEF Init, WizardInit
<1> QED
  BY <1>1, <1>2, <1>3, <1>4, <1>5, <1>6 DEF TypeOK

(* The next step of a run, and the number of steps. *)
LEMMA AtType ==
    ASSUME TypeOK
    PROVE  /\ at \in 0 .. 9 /\ Len(Steps("trusted")) = 8 /\ Len(Steps(kind)) \in 4 .. 8
           /\ Working => at \in 1 .. 8 /\ at + 1 \in 0 .. 9
<1> DEFINE L == Len(Steps("trusted"))
           N == Len(Steps(kind))
<1>1. L = 8 /\ (N = 4 \/ N = 8)
  BY StepCount
<1>2. at \in 0 .. L + 1 /\ (Working => at \in 1 .. N)
  BY DEF TypeOK, Working
<1> HIDE DEF L, N
<1>3. at \in 0 .. 9 /\ N \in 4 .. 8 /\ (Working => at \in 1 .. 8)
  BY <1>1, <1>2
<1> QED
  BY <1>1, <1>3 DEF L, N

LEMMA NextTypeOK == TypeOK /\ [Next]_vars => TypeOK'
<1> SUFFICES ASSUME TypeOK, [Next]_vars  PROVE TypeOK'
  OBVIOUS
<1>1. SessionTypeOK'
  BY StepOfSession, SessionStepTypeOK DEF TypeOK
<1>2. at \in 0 .. 9 /\ 0 .. Len(Steps("trusted")) + 1 = 0 .. 9
  BY AtType, LastStep
<1> USE <1>1, <1>2
<1>3. ASSUME NEW k \in {"edge", "trusted"}, Apply(k)  PROVE TypeOK'
  <2>1. runs' \in 0 .. MaxRuns
    BY <1>3, WizardAssumption DEF Apply, TypeOK
  <2>2. at' \in 0 .. 9 /\ torn' = FALSE
    BY <1>3 DEF Apply
  <2> QED
    BY <1>3, <2>1, <2>2 DEF Apply, TypeOK, files, system
<1>4. CASE Abort
  <2>1. at' \in 0 .. 9 /\ torn' = FALSE
    BY <1>4 DEF Abort
  <2> QED
    BY <1>4, <2>1 DEF Abort, TypeOK, files, system
<1>5. CASE Truncate
  <2>1. File \in Files /\ Working
    BY <1>5, FileInstalled DEF Truncate, Now
  <2>2. disk' \in [Files -> {"absent", "torn", "new", "used"}] /\ disk'[File] = "torn"
    BY <1>5, <2>1 DEF Truncate, TypeOK
  <2>3. (Now("copy")' \/ Now("env")') /\ File' = File
    BY <1>5 DEF Truncate, Now, Working, File
  <2> QED
    BY <1>5, <2>2, <2>3 DEF Truncate, TypeOK, system
<1>6. CASE WriteOut
  <2>1. at + 1 \in 0 .. 9
    BY <1>6, AtType DEF WriteOut, Now
  <2>2. PICK r \in Written(File) :
           env' = [p \in Programs |-> IF File = EnvOf(p) THEN r ELSE env[p]]
    BY <1>6 DEF WriteOut
  <2>3. r \in 0 .. MaxRuns
    <3>1. env[Console] \in 0 .. MaxRuns
      BY DEF TypeOK, Programs
    <3> QED
      BY <3>1, <2>2 DEF Written, TypeOK
  <2>4. env' \in [Programs -> 0 .. MaxRuns]
    BY <2>2, <2>3 DEF TypeOK
  <2> QED
    BY <1>6, <2>1, <2>4 DEF WriteOut, NextStep, TypeOK, system
<1>7. CASE EnsureFile
  <2>1. at + 1 \in 0 .. 9
    BY <1>7, AtType DEF EnsureFile, Now
  <2> QED
    BY <1>7, <2>1 DEF EnsureFile, NextStep, TypeOK, system
<1>8. CASE ChangeOwner
  <2>1. at + 1 \in 0 .. 9
    BY <1>8, AtType DEF ChangeOwner, Now
  <2> QED
    BY <1>8, <2>1 DEF ChangeOwner, NextStep, TypeOK, system
<1>9. CASE Enable
  <2>1. at + 1 \in 0 .. 9
    BY <1>9, AtType DEF Enable, Now
  <2>2. enabled' \subseteq Programs
    BY <1>9 DEF Enable, TypeOK, Programs
  <2> QED
    BY <1>9, <2>1, <2>2 DEF Enable, NextStep, TypeOK, files
<1>10. CASE Restart
  <2>1. at + 1 \in 0 .. 9
    BY <1>10, AtType DEF Restart, Now
  <2>2. running' \subseteq Programs \ {Console}
    BY <1>10 DEF Restart, RestartServices, TypeOK, Programs, Console
  <2> QED
    BY <1>10, <2>1, <2>2 DEF Restart, NextStep, TypeOK, files
<1>11. ASSUME NEW p \in Programs, StopService(p)  PROVE TypeOK'
  <2>1. running' \subseteq Programs \ {Console}
    BY <1>11 DEF StopService, TypeOK
  <2> QED
    BY <1>11, <2>1 DEF StopService, TypeOK, files, wizard, Now, Working, File
<1>12. ASSUME NEW p \in Programs, StartService(p)  PROVE TypeOK'
  <2>1. running' \subseteq Programs \ {Console}
    BY <1>12 DEF StartService, TypeOK
  <2> QED
    BY <1>12, <2>1 DEF StartService, TypeOK, files, wizard, Now, Working, File
<1>13. ASSUME NEW f \in Shared, NEW h \in Handlers, ConsoleWrites(h, f)  PROVE TypeOK'
  <2>1. f \in Files /\ edits' \in 0 .. MaxEdits
    BY <1>13, WizardAssumption DEF ConsoleWrites, TypeOK, Files
  <2>2. torn => File \notin Shared
    BY FileInstalled DEF TypeOK
  <2> QED
    BY <1>13, <2>1, <2>2 DEF ConsoleWrites, TypeOK, system, wizard, Now, Working, File
<1>14. ASSUME NEW f \in Shared, OperatorEdits(f)  PROVE TypeOK'
  <2>1. f \in Files /\ edits' \in 0 .. MaxEdits
    BY <1>14, WizardAssumption DEF OperatorEdits, TypeOK, Files
  <2> QED
    BY <1>14, <2>1 DEF OperatorEdits, TypeOK, system, wizard, Now, Working, File
<1>15. CASE GiveFiles
  <2>1. edits' \in 0 .. MaxEdits
    BY <1>15, WizardAssumption DEF GiveFiles, TypeOK
  <2> QED
    BY <1>15, <2>1 DEF GiveFiles, TypeOK, system, wizard, Now, Working, File
<1>16. CASE UNCHANGED setup
  BY <1>16 DEF setup, files, system, wizard, TypeOK, Now, Working, File
<1> QED
  BY <1>3, <1>4, <1>5, <1>6, <1>7, <1>8, <1>9, <1>10, <1>11, <1>12, <1>13, <1>14, <1>15,
     <1>16 DEF Next, WizardNext, vars

(* Every state is type correct, and every request under way was let in by a *)
(* cookie of the secret in use.                                             *)
THEOREM ConsoleTypeCorrect == Spec => []TypeOK
<1>1. Init => TypeOK
  BY WizardInitTypeOK
<1>2. TypeOK /\ [Next]_vars => TypeOK'
  BY NextTypeOK
<1> QED
  BY <1>1, <1>2, PTL DEF Spec

-----------------------------------------------------------------------------
(* Signing in. *)

(* Every state on its way belongs to the browser whose login made it, so    *)
(* the cookie with that state is in no other browser; and every account on  *)
(* its way was chosen in the browser it is on its way to.                   *)
OneBrowserPerState ==
    /\ \A x \in pages \cup links : x.state <= logins
    /\ \A x, y \in pages \cup links : x.state = y.state => x.browser = y.browser
    /\ \A b \in Browsers : stateCookie[b] # NoCookie =>
          /\ stateCookie[b].value <= logins
          /\ \A x \in pages \cup links : x.state = stateCookie[b].value => x.browser = b

ChosenThere ==
    /\ \A l \in links : l.account \in picked[l.browser]
    /\ \A h \in Handlers : call[h] # NoCall => call[h].account \in picked[call[h].browser]

ChoiceInv == SessionTypeOK /\ OneBrowserPerState /\ ChosenThere /\ SignedInByChoice

LEMMA SessionInitChoice == SessionInit => ChoiceInv
BY SessionInitTypeOK
   DEF SessionInit, ChoiceInv, OneBrowserPerState, ChosenThere, SignedInByChoice

LEMMA SessionStepChoice ==
    ASSUME ChoiceInv, SessionStep
    PROVE  ChoiceInv'
<1>1. SessionTypeOK /\ SessionTypeOK'
  BY SessionStepTypeOK DEF ChoiceInv
<1>2. ASSUME NEW b \in Browsers, AuthStart(b)  PROVE ChoiceInv'
  <2>1. logins \in Nat /\ logins' = logins + 1 /\ links' = links
    BY <1>1, <1>2, SessionAssumption DEF AuthStart, SessionTypeOK
  <2>2. pages' = pages \cup {[state |-> logins + 1, browser |-> b]}
    BY <1>2 DEF AuthStart
  <2>3. \A x \in pages \cup links : x.state \in Nat /\ x.state <= logins
    BY <1>1 DEF ChoiceInv, OneBrowserPerState, SessionTypeOK, Link
  <2>4. \A x \in pages' \cup links' :
           x \in pages \cup links \/ (x.state = logins + 1 /\ x.browser = b)
    BY <2>1, <2>2
  <2>5. \A c \in Browsers : c # b => stateCookie'[c] = stateCookie[c]
    BY <1>1, <1>2 DEF AuthStart, SetCookie, SessionTypeOK
  <2>6. stateCookie'[b].value = logins + 1
    BY <1>1, <1>2 DEF AuthStart, SetCookie, Signed, SessionTypeOK
  <2>7. \A c \in Browsers : stateCookie[c] # NoCookie => stateCookie[c].value \in Nat
    BY <1>1 DEF SessionTypeOK, Cookie
  <2>8. \A x \in pages' \cup links' : x.state <= logins'
    BY <2>1, <2>3, <2>4
  <2>9. \A x, y \in pages' \cup links' : x.state = y.state => x.browser = y.browser
    BY <2>1, <2>3, <2>4 DEF ChoiceInv, OneBrowserPerState
  <2>10. ASSUME NEW c \in Browsers, stateCookie'[c] # NoCookie
         PROVE  /\ stateCookie'[c].value <= logins'
                /\ \A x \in pages' \cup links' :
                      x.state = stateCookie'[c].value => x.browser = c
    <3>1. CASE c = b
      BY <2>1, <2>3, <2>4, <2>6, <3>1
    <3>2. CASE c # b
      BY <2>1, <2>3, <2>4, <2>5, <2>7, <2>10, <3>2 DEF ChoiceInv, OneBrowserPerState
    <3> QED
      BY <3>1, <3>2
  <2>11. OneBrowserPerState'
    BY <2>8, <2>9, <2>10 DEF OneBrowserPerState
  <2> QED
    BY <1>1, <1>2, <2>1, <2>11 DEF AuthStart, ChoiceInv, ChosenThere, SignedInByChoice
<1>3. ASSUME NEW p \in pages, NEW u \in Accounts, PickAccount(p, u)  PROVE ChoiceInv'
  <2> DEFINE new == [state |-> p.state, browser |-> p.browser, account |-> u]
  <2>1. pages' = pages \ {p} /\ links' = links \cup {new}
    BY <1>3 DEF PickAccount
  <2>2. p.browser \in Browsers
    BY <1>1 DEF SessionTypeOK
  <2>3. \A x \in pages' \cup links' :
           \E y \in pages \cup links : x.state = y.state /\ x.browser = y.browser
    BY <2>1
  <2>4. OneBrowserPerState'
    BY <1>3, <2>3 DEF ChoiceInv, OneBrowserPerState, PickAccount, jars
  <2>5. \A b \in Browsers : picked[b] \subseteq picked'[b]
    BY <1>1, <1>3 DEF PickAccount, SessionTypeOK
  <2>6. u \in picked'[p.browser]
    BY <1>1, <1>3, <2>2 DEF PickAccount, SessionTypeOK
  <2>7. \A l \in links : l.browser \in Browsers
    BY <1>1 DEF SessionTypeOK, Link
  <2>8. \A h \in Handlers : call[h] # NoCall => call[h].browser \in Browsers
    BY <1>1 DEF SessionTypeOK, Call
  <2>9. \A l \in links' : l.account \in picked'[l.browser]
    BY <2>1, <2>5, <2>6, <2>7 DEF ChoiceInv, ChosenThere
  <2>10. ChosenThere'
    BY <1>3, <2>5, <2>8, <2>9 DEF ChoiceInv, ChosenThere, PickAccount
  <2> QED
    BY <1>1, <1>3, <2>4, <2>5, <2>10 DEF ChoiceInv, SignedInByChoice, PickAccount, jars
<1>4. ASSUME NEW h \in Handlers, NEW b \in Browsers, CurrentUser(h, b)  PROVE ChoiceInv'
  <2>1. sessionCookie[b].value \in picked[b]
    BY <1>4 DEF CurrentUser, Verified, ChoiceInv, SignedInByChoice
  <2>2. ChosenThere'
    BY <1>1, <1>4, <2>1
       DEF CurrentUser, Begin, ChoiceInv, ChosenThere, SessionTypeOK
  <2> QED
    BY <1>1, <1>4, <2>2
       DEF CurrentUser, Begin, jars, ChoiceInv, OneBrowserPerState, SignedInByChoice
<1>5. ASSUME NEW h \in Handlers, NEW b \in Browsers, NEW l \in links, Callback(h, b, l)
      PROVE  ChoiceInv'
  <2>1. stateCookie[b] # NoCookie /\ stateCookie[b].value = l.state
    BY <1>5 DEF Callback, SameState, Verified
  <2>2. l.browser = b /\ l.account \in picked[b]
    BY <2>1 DEF ChoiceInv, OneBrowserPerState, ChosenThere
  <2>3. ChosenThere'
    BY <1>1, <1>5, <2>2
       DEF Callback, Begin, ChoiceInv, ChosenThere, SessionTypeOK
  <2> QED
    BY <1>1, <1>5, <2>3
       DEF Callback, Begin, jars, ChoiceInv, OneBrowserPerState, SignedInByChoice
<1>6. ASSUME NEW h \in Handlers, FetchMe(h)  PROVE ChoiceInv'
  <2>1. call' = [call EXCEPT ![h] = [call[h] EXCEPT !.step = "admitted"]]
    BY <1>6 DEF FetchMe
  <2>2. call[h] \in Call
    BY <1>1, <1>6 DEF FetchMe, SessionTypeOK
  <2>3. /\ call'[h].account = call[h].account /\ call'[h].browser = call[h].browser
        /\ \A g \in Handlers \ {h} : call'[g] = call[g]
    BY <1>1, <2>1, <2>2 DEF Call, SessionTypeOK
  <2>4. ChosenThere'
    BY <1>6, <2>3 DEF FetchMe, ChoiceInv, ChosenThere
  <2> QED
    BY <1>1, <1>6, <2>4
       DEF FetchMe, jars, ChoiceInv, OneBrowserPerState, SignedInByChoice
<1>7. ASSUME NEW h \in Handlers, Unauthorized(h) \/ Act(h)  PROVE ChoiceInv'
  <2>1. /\ call' = [call EXCEPT ![h] = NoCall]
        /\ UNCHANGED <<stateCookie, sessionCookie, logins, pages, links, picked>>
    BY <1>7 DEF Unauthorized, Act, jars
  <2> QED
    BY <1>1, <2>1
       DEF ChoiceInv, OneBrowserPerState, ChosenThere, SignedInByChoice, SessionTypeOK
<1>8. ASSUME NEW h \in Handlers, SignIn(h)  PROVE ChoiceInv'
  <2>1. call[h].account \in picked[call[h].browser]
    BY <1>8 DEF SignIn, ChoiceInv, ChosenThere
  <2>2. SignedInByChoice'
    BY <1>1, <1>8, <2>1
       DEF SignIn, SetCookie, Signed, ChoiceInv, SignedInByChoice, SessionTypeOK
  <2>3. OneBrowserPerState'
    BY <1>1, <1>8 DEF SignIn, SetCookie, ChoiceInv, OneBrowserPerState, SessionTypeOK
  <2> QED
    BY <1>1, <1>8, <2>2, <2>3 DEF SignIn, ChoiceInv, ChosenThere, SessionTypeOK
<1>9. ASSUME NEW b \in Browsers, Logout(b)  PROVE ChoiceInv'
  BY <1>1, <1>9 DEF Logout, SetCookie, ChoiceInv, OneBrowserPerState, ChosenThere,
                    SignedInByChoice, SessionTypeOK
<1>10. ASSUME NEW b \in Browsers, StateExpires(b)  PROVE ChoiceInv'
  BY <1>1, <1>10 DEF StateExpires, SetCookie, ChoiceInv, OneBrowserPerState, ChosenThere,
                     SignedInByChoice, SessionTypeOK
<1>11. ASSUME NEW u \in Accounts, NEW r \in Roles, SetRole(u, r)  PROVE ChoiceInv'
  BY <1>1, <1>11 DEF SetRole, jars, ChoiceInv, OneBrowserPerState, ChosenThere,
                     SignedInByChoice
<1>12. ASSUME NEW k \in Nat \cup {NoKey}, RunWith(k)  PROVE ChoiceInv'
  BY <1>1, <1>12 DEF RunWith, jars, ChoiceInv, OneBrowserPerState, ChosenThere,
                     SignedInByChoice
<1>13. CASE UNCHANGED session
  BY <1>1, <1>13 DEF session, jars, ChoiceInv, OneBrowserPerState, ChosenThere,
                     SignedInByChoice
<1> QED
  BY <1>2, <1>3, <1>4, <1>5, <1>6, <1>7, <1>8, <1>9, <1>10, <1>11, <1>12, <1>13
     DEF SessionStep, SessionNext

(* A browser is signed in only with accounts chosen in it, for any number   *)
(* of browsers, logins and goroutines.                                      *)
THEOREM AlwaysSignedInByChoice == Spec => []SignedInByChoice
<1>1. Init => ChoiceInv
  BY SessionInitChoice DEF Init
<1>2. TypeOK /\ ChoiceInv /\ [Next]_vars => ChoiceInv'
  BY StepOfSession, SessionStepChoice
<1>3. ChoiceInv => SignedInByChoice
  BY DEF ChoiceInv
<1> QED
  BY <1>1, <1>2, <1>3, ConsoleTypeCorrect, PTL DEF Spec

(* A request is admitted only by the answer that its account has the role.  *)
LEMMA AdmittedHasRole ==
    ASSUME TypeOK, [Next]_vars, NEW u \in Accounts, role[u] # "system_admin",
           NEW h \in Admitted(u)'
    PROVE  h \in Admitted(u)
<1>1. SessionTypeOK
  BY DEF TypeOK
<1>2. /\ h \in Handlers /\ call'[h] # NoCall /\ call'[h].step = "admitted"
      /\ call'[h].account = u
  BY DEF Admitted
<1>3. ASSUME NEW g \in Handlers, FetchMe(g)  PROVE h \in Admitted(u)
  <2>1. call' = [call EXCEPT ![g] = [call[g] EXCEPT !.step = "admitted"]]
    BY <1>3 DEF FetchMe
  <2>2. call[g] \in Call /\ role[call[g].account] = "system_admin"
    BY <1>1, <1>3 DEF FetchMe, HasRole, SessionTypeOK
  <2>3. call'[g].account = call[g].account
    BY <1>1, <2>1, <2>2 DEF Call, SessionTypeOK
  <2>4. h # g
    BY <1>2, <2>2, <2>3
  <2> QED
    BY <1>1, <1>2, <2>1, <2>4 DEF Admitted, SessionTypeOK
<1>4. ASSUME NEW g \in Handlers, NEW b \in Browsers,
             CurrentUser(g, b) \/ (\E l \in links : Callback(g, b, l))
      PROVE  h \in Admitted(u)
  <2>1. \E kind_, u_, c_ : call' = [call EXCEPT ![g] =
           [kind |-> kind_, browser |-> b, account |-> u_, by |-> c_, step |-> "asking"]]
    BY <1>4 DEF CurrentUser, Callback, Begin
  <2>2. call'[g].step = "asking" /\ \A f \in Handlers \ {g} : call'[f] = call[f]
    BY <1>1, <2>1 DEF SessionTypeOK
  <2> QED
    BY <1>2, <2>2 DEF Admitted
<1>5. ASSUME NEW g \in Handlers, Unauthorized(g) \/ Act(g) \/ SignIn(g)
      PROVE  h \in Admitted(u)
  <2>1. call' = [call EXCEPT ![g] = NoCall]
    BY <1>5 DEF Unauthorized, Act, SignIn
  <2> QED
    BY <1>1, <1>2, <2>1 DEF Admitted, SessionTypeOK
<1>6. ASSUME NEW k \in Nat \cup {NoKey}, RunWith(k)  PROVE h \in Admitted(u)
  BY <1>2, <1>6 DEF RunWith
<1>7. CASE call' = call
  BY <1>2, <1>7 DEF Admitted
<1>8. SessionStep
  BY StepOfSession
<1>9. CASE \/ \E b \in Browsers : AuthStart(b) \/ Logout(b) \/ StateExpires(b)
           \/ \E p \in pages, w \in Accounts : PickAccount(p, w)
           \/ \E w \in Accounts, r \in Roles : SetRole(w, r)
           \/ UNCHANGED session
  <2>1. call' = call
    BY <1>9 DEF AuthStart, Logout, StateExpires, PickAccount, SetRole, session
  <2> QED
    BY <1>7, <2>1
<1> QED
  BY <1>3, <1>4, <1>5, <1>6, <1>8, <1>9 DEF SessionStep, SessionNext

(* Once an account has lost its role, no further request of it is let in.   *)
THEOREM OnlyAdminsEnter == Spec => OnlyAdmins
<1>1. TypeOK /\ [Next]_vars =>
         [\A u \in Accounts : role[u] # "system_admin" =>
             \A h \in Admitted(u)' : h \in Admitted(u)]_session
  BY AdmittedHasRole
<1> QED
  BY <1>1, ConsoleTypeCorrect, PTL DEF Spec, OnlyAdmins

-----------------------------------------------------------------------------
(* The files. *)

(* A step of the program leaves entered data of a shared file in place: the *)
(* wizard truncates and writes installed files only, and creates a shared   *)
(* one only where there is none.                                            *)
LEMMA StepKeepsData ==
    ASSUME TypeOK, [Next]_vars, NEW f \in Shared, disk[f] = "used"
    PROVE  disk'[f] = "used"
<1>1. f \in Files /\ disk \in [Files -> {"absent", "torn", "new", "used"}]
  BY DEF TypeOK, Files
<1>2. CASE Truncate \/ WriteOut
  <2>1. File # f
    BY <1>2, FileInstalled DEF Truncate, WriteOut
  <2> QED
    BY <1>1, <1>2, <2>1 DEF Truncate, WriteOut
<1>3. CASE EnsureFile
  <2>1. PICK made \in [Shared -> {"absent", "torn", "new"}] :
           disk' = [g \in Files |-> IF g \in Shared /\ Absent(g) THEN made[g] ELSE disk[g]]
    BY <1>3 DEF EnsureFile
  <2> QED
    BY <1>1, <2>1 DEF Absent
<1>4. ASSUME NEW g \in Shared, OperatorEdits(g) \/ \E h \in Handlers : ConsoleWrites(h, g)
      PROVE  disk'[f] = "used"
  BY <1>1, <1>4 DEF OperatorEdits, ConsoleWrites
<1>5. CASE disk' = disk
  BY <1>5
<1>6. CASE \/ \E k \in {"edge", "trusted"} : Apply(k)
           \/ Abort \/ ChangeOwner \/ Enable \/ Restart
           \/ \E p \in Programs : StopService(p) \/ StartService(p)
           \/ GiveFiles
           \/ UNCHANGED setup
  <2>1. disk' = disk
    BY <1>6 DEF Apply, Abort, ChangeOwner, Enable, Restart, StopService, StartService,
                GiveFiles, setup, files
  <2> QED
    BY <1>5, <2>1
<1> QED
  BY <1>2, <1>3, <1>4, <1>6 DEF Next, WizardNext, vars

(* What was entered in a shared file is never replaced by an empty file, in *)
(* any number of runs, broken off anywhere.                                 *)
THEOREM EnteredDataKept == Spec => EnteredDataStays
<1>1. TypeOK /\ [Next]_vars =>
         [\A f \in Shared : disk[f] = "used" => disk'[f] = "used"]_setup
  BY StepKeepsData
<1> QED
  BY <1>1, ConsoleTypeCorrect, PTL DEF Spec, EnteredDataStays

(* The run so far has written what its steps before the next one write, and *)
(* after the restart the console runs with the secret of its file.          *)
Done(i) == Writes(kind, i) => disk[Steps(kind)[i].file] = "new"

ProgressInv ==
    /\ (Working \/ Succeeded) => \A i \in 1 .. at - 1 : Done(i)
    /\ Succeeded => at = Len(Steps(kind)) + 1
    /\ Succeeded /\ kind = "trusted" /\ Up(Console) => key = env[Console]

LEMMA ProgressInit == Init => ProgressInv
BY StepCount DEF Init, WizardInit, ProgressInv, Working, Succeeded

LEMMA ProgressIsSuccess == TypeOK /\ ProgressInv => SuccessIsComplete
<1> SUFFICES ASSUME TypeOK, ProgressInv, Succeeded  PROVE SuccessIsComplete
  BY DEF SuccessIsComplete
<1> DEFINE N == Len(Steps(kind))
<1>1. N \in Nat /\ at = N + 1 /\ DOMAIN Steps(kind) = 1 .. N
  <2>1. N \in 4 .. 8 /\ at = N + 1
    BY AtType DEF ProgressInv
  <2>2. DOMAIN Steps(kind) = 1 .. N
    <3>1. CASE kind = "edge"
      BY <3>1 DEF Steps
    <3>2. CASE kind # "edge"
      BY <3>2 DEF Steps
    <3> QED
      BY <3>1, <3>2
  <2> QED
    BY <2>1, <2>2
<1> HIDE DEF N
<1>2. \A i \in DOMAIN Steps(kind) : i \in 1 .. at - 1
  BY <1>1
<1>3. \A i \in DOMAIN Steps(kind) : Done(i)
  BY <1>2 DEF ProgressInv
<1> QED
  BY <1>3 DEF ProgressInv, SuccessIsComplete, Done, Writes

(* A step that leaves the run where it is and keeps the installed files.    *)
LEMMA OutsideTheRun ==
    ASSUME TypeOK, ProgressInv, kind' = kind, at' = at, env' = env,
           \A f \in Installed : disk[f] = "new" => disk'[f] = "new",
           key' \in {key, env[Console], NoKey}
    PROVE  ProgressInv'
<1>1. Working' = Working /\ Succeeded' = Succeeded
  BY DEF Working, Succeeded
<1>2. ASSUME Working \/ Succeeded, NEW i \in 1 .. at - 1  PROVE Done(i)'
  <2>1. i \in 1 .. Len(Steps(kind))
    <3> DEFINE N == Len(Steps(kind))
    <3>1. N \in 4 .. 8 /\ at \in 0 .. 9
      BY AtType
    <3>2. at \in 1 .. N \/ at = N + 1
      BY <1>2 DEF ProgressInv, Working
    <3> HIDE DEF N
    <3>3. i \in 1 .. N
      BY <3>1, <3>2
    <3> QED
      BY <3>3 DEF N
  <2>2. Done(i)
    BY <1>2 DEF ProgressInv
  <2>3. CASE Writes(kind, i)
    <3>1. Steps(kind)[i].file \in Installed
      BY <2>1, <2>3, StepFiles
    <3> QED
      BY <2>2, <2>3, <3>1 DEF Done
  <2> QED
    BY <2>3 DEF Done, Writes
<1>3. Up(Console)' => key' # NoKey
  BY DEF Up
<1>4. Succeeded' /\ kind' = "trusted" /\ Up(Console)' => key' = env'[Console]
  BY <1>1, <1>3 DEF ProgressInv, Up
<1> QED
  BY <1>1, <1>2, <1>4 DEF ProgressInv

(* A step of the run that is over.                                          *)
LEMMA StepOfTheRun ==
    ASSUME TypeOK, ProgressInv, Working, NextStep,
           \A f \in Installed : disk[f] = "new" => disk'[f] = "new",
           Writes(kind, at) => disk'[File] = "new",
           kind = "trusted" => key' = env'[Console] \/ ~Now("restart")
    PROVE  ProgressInv'
<1> DEFINE N == Len(Steps(kind))
<1>1. N \in 4 .. 8 /\ at \in 1 .. N /\ at' = at + 1 /\ kind' = kind
  BY AtType DEF Working, NextStep
<1>2. N' = N
  BY <1>1
<1> HIDE DEF N
<1>3. (Working' <=> at' \in 1 .. N) /\ (Succeeded' => at' > N)
  BY <1>2 DEF Working, Succeeded, N
<1>4. ASSUME NEW i \in 1 .. at' - 1  PROVE Done(i)'
  <2>1. i \in 1 .. at - 1 \/ i = at
    BY <1>1
  <2>2. CASE i \in 1 .. at - 1
    <3>1. Done(i) /\ i \in 1 .. N
      BY <1>1, <2>2 DEF ProgressInv
    <3>2. CASE Writes(kind, i)
      <4>1. Steps(kind)[i].file \in Installed
        BY <3>1, <3>2, StepFiles DEF N
      <4> QED
        BY <1>1, <3>1, <3>2, <4>1 DEF Done
    <3> QED
      BY <1>1, <3>2 DEF Done, Writes
  <2>3. CASE i = at
    BY <1>1, <2>3 DEF Done, Writes, File
  <2> QED
    BY <2>1, <2>2, <2>3
<1>5. Succeeded' => at' = N + 1
  BY <1>1, <1>3
<1>6. ASSUME Succeeded', kind' = "trusted"  PROVE key' = env'[Console]
  <2>1. N = 8
    BY <1>1, <1>6, StepCount DEF N
  <2>2. at = 8
    BY <1>1, <1>5, <1>6, <2>1
  <2>3. Now("restart")
    BY <1>1, <1>6, <2>2, TrustedSteps DEF Now
  <2> QED
    BY <1>1, <1>6, <2>3
<1> QED
  BY <1>2, <1>4, <1>5, <1>6 DEF ProgressInv, N

LEMMA ProgressStep == TypeOK /\ ProgressInv /\ [Next]_vars => ProgressInv'
<1> SUFFICES ASSUME TypeOK, ProgressInv, [Next]_vars  PROVE ProgressInv'
  OBVIOUS
<1>1. /\ disk \in [Files -> {"absent", "torn", "new", "used"}] /\ Installed \subseteq Files
      /\ Shared \cap Installed = {}
  BY WizardAssumption DEF TypeOK, Files
<1>2. ASSUME NEW k \in {"edge", "trusted"}, Apply(k)  PROVE ProgressInv'
  <2>1. at' = 1 /\ kind' = k /\ Len(Steps(k)) \in 4 .. 8
    BY <1>2, StepCount DEF Apply
  <2>2. ~Succeeded'
    BY <2>1 DEF Succeeded
  <2>3. \A i \in 1 .. at' - 1 : FALSE
    BY <2>1
  <2> QED
    BY <2>2, <2>3 DEF ProgressInv
<1>3. CASE Abort
  <2>1. at' = 0
    BY <1>3 DEF Abort
  <2>2. kind' = kind /\ Len(Steps(kind)) \in 4 .. 8
    BY <1>3, AtType DEF Abort
  <2>3. ~Working' /\ ~Succeeded'
    BY <2>1, <2>2 DEF Working, Succeeded
  <2> QED
    BY <2>3 DEF ProgressInv
<1>4. CASE Truncate
  <2>1. Working /\ ~Succeeded /\ Writes(kind, at) /\ File \in Files
    <3>1. Working /\ Writes(kind, at) /\ File \in Files
      BY <1>4, FileInstalled DEF Truncate, Now, Writes
    <3>2. Len(Steps(kind)) \in 4 .. 8 /\ at \in 1 .. Len(Steps(kind))
      BY <3>1, AtType DEF Working
    <3> QED
      BY <3>1, <3>2 DEF Succeeded
  <2>2. at' = at /\ kind' = kind /\ disk' = [disk EXCEPT ![File] = "torn"]
    BY <1>4 DEF Truncate
  <2>3. ~Succeeded'
    BY <2>1, <2>2 DEF Succeeded
  <2>4. ASSUME NEW i \in 1 .. at - 1  PROVE Done(i)'
    <3>1. at \in 1 .. Len(Steps(kind)) /\ Len(Steps(kind)) \in 4 .. 8
      BY <2>1, AtType DEF Working
    <3>2. Done(i)
      BY <2>1 DEF ProgressInv
    <3>3. CASE Writes(kind, i)
      <4>1. Steps(kind)[i].file # File
        BY <2>1, <3>1, <3>3, StepFiles DEF File
      <4> QED
        BY <1>1, <2>2, <3>2, <3>3, <4>1 DEF Done
    <3> QED
      BY <2>2, <3>3 DEF Done, Writes
  <2> QED
    BY <2>2, <2>3, <2>4 DEF ProgressInv
<1>5. CASE WriteOut
  <2>1. /\ File \in Files /\ Working /\ NextStep /\ ~Now("restart")
        /\ disk' = [disk EXCEPT ![File] = "new"]
    BY <1>5, FileInstalled DEF WriteOut, Now
  <2> QED
    BY <1>1, <2>1, StepOfTheRun
<1>6. CASE EnsureFile
  <2>1. /\ Working /\ NextStep /\ ~Now("restart") /\ ~Writes(kind, at)
        /\ \A f \in Installed : disk'[f] = disk[f]
    BY <1>1, <1>6 DEF EnsureFile, Now, Writes
  <2> QED
    BY <2>1, StepOfTheRun
<1>7. CASE ChangeOwner \/ Enable
  <2>1. Working /\ NextStep /\ ~Now("restart") /\ ~Writes(kind, at) /\ disk' = disk
    BY <1>7 DEF ChangeOwner, Enable, Now, Writes, files
  <2> QED
    BY <2>1, StepOfTheRun
<1>8. CASE Restart
  <2>1. /\ Working /\ NextStep /\ ~Writes(kind, at) /\ disk' = disk
        /\ key' = env'[Console]
    BY <1>8 DEF Restart, RestartServices, RunWith, Now, Writes, files
  <2> QED
    BY <2>1, StepOfTheRun
<1>9. ASSUME NEW p \in Programs, StopService(p) \/ StartService(p)  PROVE ProgressInv'
  <2>1. /\ kind' = kind /\ at' = at /\ env' = env /\ disk' = disk
        /\ key' \in {key, env[Console], NoKey}
    BY <1>9 DEF StopService, StartService, RunWith, files, wizard, session
  <2> QED
    BY <2>1, OutsideTheRun
<1>10. ASSUME NEW f \in Shared, OperatorEdits(f) \/ \E h \in Handlers : ConsoleWrites(h, f)
       PROVE  ProgressInv'
  <2>1. /\ kind' = kind /\ at' = at /\ env' = env /\ key' = key
        /\ disk' = [disk EXCEPT ![f] = "used"]
    BY <1>10 DEF OperatorEdits, ConsoleWrites, Act, wizard, session
  <2>2. \A g \in Installed : disk'[g] = disk[g]
    BY <1>1, <2>1
  <2> QED
    BY <2>1, <2>2, OutsideTheRun
<1>11. CASE GiveFiles \/ UNCHANGED vars
  <2>1. kind' = kind /\ at' = at /\ env' = env /\ disk' = disk /\ key' = key
    BY <1>11 DEF GiveFiles, wizard, session, vars, setup, files
  <2> QED
    BY <2>1, OutsideTheRun
<1>12. CASE SessionNext /\ UNCHANGED setup
  <2>1. kind' = kind /\ at' = at /\ env' = env /\ disk' = disk
    BY <1>12 DEF setup, files, wizard
  <2>2. key' = key
    BY <1>12 DEF SessionNext, AuthStart, Logout, StateExpires, PickAccount, CurrentUser,
                 Callback, Begin, FetchMe, Unauthorized, SignIn, Act, SetRole
  <2> QED
    BY <2>1, <2>2, OutsideTheRun
<1> QED
  BY <1>2, <1>3, <1>4, <1>5, <1>6, <1>7, <1>8, <1>9, <1>10, <1>11, <1>12
     DEF Next, WizardNext

(* A run that reports success has put its files in place, and no console    *)
(* runs with another secret than that of its file.                          *)
THEOREM SuccessMeansInstalled == Spec => []SuccessIsComplete
<1>1. Init => ProgressInv
  BY ProgressInit
<1>2. TypeOK /\ ProgressInv /\ [Next]_vars => ProgressInv'
  BY ProgressStep
<1>3. TypeOK /\ ProgressInv => SuccessIsComplete
  BY ProgressIsSuccess
<1> QED
  BY <1>1, <1>2, <1>3, ConsoleTypeCorrect, PTL DEF Spec
=============================================================================
