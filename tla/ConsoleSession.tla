--------------------------- MODULE ConsoleSession ---------------------------
(***************************************************************************)
(* Sign-in to signer-console: a signed cookie holds the OAuth state while  *)
(* the browser is at the account system, another one the session           *)
(* afterwards; the console keeps neither and asks the account system about *)
(* the account of a session at every request.                              *)
(*                                                                         *)
(* A callback address, once the account system has made it, may be opened  *)
(* in any browser and any number of times.  A request works on the cookies *)
(* it was sent with; what it sets reaches the browser later.               *)
(*                                                                         *)
(* Abstracted: HMAC (a signed value names its key), URLs, pages, CSS.  The *)
(* account system is external: a role for every account.                   *)
(***************************************************************************)
EXTENDS Naturals, FiniteSets

CONSTANTS Browsers, Accounts,
          Handlers,     \* goroutines of the console
          NoKey,        \* the console does not run
          NoCookie, NoCall,
          MaxLogins     \* bound: logins started

ASSUME SessionAssumption ==
    NoKey \notin Nat /\ MaxLogins \in Nat /\ Handlers # {}

VARIABLES
    key,            \* the session secret of the running console
    role,           \* account system: the role of each account
    stateCookie,    \* per browser: ssl_signer_state
    sessionCookie,  \* per browser: ssl_signer_session
    logins,         \* the logins started, which number the states
    pages,          \* logins a browser has open at the account system
    links,          \* callback addresses the account system has made
    call,           \* per goroutine, its request
    picked          \* observation: the accounts its user chose in a browser

jars    == <<stateCookie, sessionCookie>>
session == <<key, role, jars, logins, pages, links, call, picked>>

Roles == {"system_admin", "other"}

SessionInit ==
    /\ key = NoKey
    /\ role \in [Accounts -> Roles]
    /\ stateCookie = [b \in Browsers |-> NoCookie]
    /\ sessionCookie = [b \in Browsers |-> NoCookie]
    /\ logins = 0
    /\ pages = {} /\ links = {}
    /\ call = [h \in Handlers |-> NoCall]
    /\ picked = [b \in Browsers |-> {}]

(* signValue, verifiedPayload. *)
Signed(v) == [value |-> v, by |-> key]

Verified(c) == c # NoCookie /\ c.by = key

SetCookie(jar, b, c) == [jar EXCEPT ![b] = c]

-----------------------------------------------------------------------------
(* authStart: the state is set as a cookie and sent along in one answer. *)
AuthStart(b) ==
    /\ key # NoKey /\ logins < MaxLogins
    /\ logins' = logins + 1
    /\ stateCookie' = SetCookie(stateCookie, b, Signed(logins + 1))
    /\ pages' = pages \cup {[state |-> logins + 1, browser |-> b]}
    /\ UNCHANGED <<key, role, sessionCookie, links, call, picked>>

(* The account system (external): the user of the browser chooses. *)
PickAccount(p, u) ==
    /\ pages' = pages \ {p}
    /\ links' = links \cup {[state |-> p.state, browser |-> p.browser, account |-> u]}
    /\ picked' = [picked EXCEPT ![p.browser] = @ \cup {u}]
    /\ UNCHANGED <<key, role, jars, logins, call>>

(* Mutant: the state is only looked at for its signature. *)
AnyState(c, l) == Verified(c)

(* verifySignedValue *)
SameState(c, l) == Verified(c) /\ c.value = l.state

Begin(h, b, kind, u, c) ==
    /\ call' = [call EXCEPT ![h] = [kind |-> kind, browser |-> b, account |-> u,
                                    by |-> c.by, step |-> "asking"]]
    /\ UNCHANGED <<key, role, jars, logins, pages, links, picked>>

(* callback, up to fetchMe; any other cookie is answered 400. *)
Callback(h, b, l) ==
    /\ key # NoKey /\ call[h] = NoCall
    /\ SameState(stateCookie[b], l)
    /\ Begin(h, b, "callback", l.account, stateCookie[b])

(* requireAdmin and the pages, up to fetchMe.  Nothing in the cookie but    *)
(* the account is used.                                                     *)
CurrentUser(h, b) ==
    /\ key # NoKey /\ call[h] = NoCall
    /\ Verified(sessionCookie[b])
    /\ Begin(h, b, "admin", sessionCookie[b].value, sessionCookie[b])

(* Mutant: who has a session was an administrator once. *)
HadRole(c) == c.kind = "admin" \/ role[c.account] = "system_admin"

HasRole(c) == role[c.account] = "system_admin"

(* fetchMe, which may also fail. *)
FetchMe(h) ==
    /\ call[h] # NoCall /\ call[h].step = "asking"
    /\ call' = [call EXCEPT ![h].step = "admitted"]
    /\ HasRole(call[h])
    /\ UNCHANGED <<key, role, jars, logins, pages, links, picked>>

Unauthorized(h) ==
    /\ call[h] # NoCall /\ call[h].step = "asking"
    /\ call' = [call EXCEPT ![h] = NoCall]
    /\ UNCHANGED <<key, role, jars, logins, pages, links, picked>>

(* The answer of a callback reaches its browser. *)
SignIn(h) ==
    /\ call[h] # NoCall /\ call[h].step = "admitted" /\ call[h].kind = "callback"
    /\ sessionCookie' = SetCookie(sessionCookie, call[h].browser, Signed(call[h].account))
    /\ stateCookie' = SetCookie(stateCookie, call[h].browser, NoCookie)
    /\ call' = [call EXCEPT ![h] = NoCall]
    /\ UNCHANGED <<key, role, logins, pages, links, picked>>

(* The handler behind requireAdmin runs. *)
Act(h) ==
    /\ call[h] # NoCall /\ call[h].step = "admitted" /\ call[h].kind = "admin"
    /\ call' = [call EXCEPT ![h] = NoCall]
    /\ UNCHANGED <<key, role, jars, logins, pages, links, picked>>

(* logout, or the eight hours of the cookie. *)
Logout(b) ==
    /\ sessionCookie[b] # NoCookie
    /\ sessionCookie' = SetCookie(sessionCookie, b, NoCookie)
    /\ UNCHANGED <<key, role, stateCookie, logins, pages, links, call, picked>>

(* The ten minutes of the state cookie. *)
StateExpires(b) ==
    /\ stateCookie[b] # NoCookie
    /\ stateCookie' = SetCookie(stateCookie, b, NoCookie)
    /\ UNCHANGED <<key, role, sessionCookie, logins, pages, links, call, picked>>

SetRole(u, r) ==
    /\ role[u] # r /\ role' = [role EXCEPT ![u] = r]
    /\ UNCHANGED <<key, jars, logins, pages, links, call, picked>>

(* Mutant: a new process knows the requests of the old one. *)
RunOnWith(k) == key' = k /\ UNCHANGED <<role, jars, logins, pages, links, call, picked>>

(* A console that stops drops what it was doing. *)
RunWith(k) == /\ key' = k
              /\ call' = [h \in Handlers |-> NoCall]
              /\ UNCHANGED <<role, jars, logins, pages, links, picked>>

SessionNext ==
    \/ \E b \in Browsers : AuthStart(b) \/ Logout(b) \/ StateExpires(b)
    \/ \E p \in pages, u \in Accounts : PickAccount(p, u)
    \/ \E h \in Handlers :
          \/ \E b \in Browsers : CurrentUser(h, b) \/ \E l \in links : Callback(h, b, l)
          \/ FetchMe(h) \/ Unauthorized(h) \/ SignIn(h) \/ Act(h)
    \/ \E u \in Accounts, r \in Roles : SetRole(u, r)

-----------------------------------------------------------------------------
(* Properties. *)

Cookie(S) == [value : S, by : Nat] \cup {NoCookie}

Link == [state : 1 .. MaxLogins, browser : Browsers, account : Accounts]

Call == [kind : {"callback", "admin"}, browser : Browsers, account : Accounts,
         by : Nat, step : {"asking", "admitted"}]

(* Type correctness; a request under way was let in by a cookie of the       *)
(* secret the console runs with, so a new secret ends every session.        *)
SessionTypeOK ==
    /\ key \in Nat \cup {NoKey}
    /\ role \in [Accounts -> Roles]
    /\ stateCookie \in [Browsers -> Cookie(1 .. MaxLogins)]
    /\ sessionCookie \in [Browsers -> Cookie(Accounts)]
    /\ logins \in 0 .. MaxLogins
    /\ pages \subseteq [state : 1 .. MaxLogins, browser : Browsers]
    /\ links \subseteq Link
    /\ call \in [Handlers -> Call \cup {NoCall}]
    /\ \A h \in Handlers : call[h] # NoCall => call[h].by = key
    /\ picked \in [Browsers -> SUBSET Accounts]

(* A browser is signed in only with an account its own user has chosen      *)
(* there, whatever callback addresses are opened in it, twice or late, with *)
(* how many logins in how many tabs.                                        *)
SignedInByChoice ==
    \A b \in Browsers :
       sessionCookie[b] # NoCookie => sessionCookie[b].value \in picked[b]

Admitted(u) == {h \in Handlers : call[h] # NoCall /\ call[h].step = "admitted"
                                 /\ call[h].account = u}

(* Once an account has lost the role, the requests already admitted are the *)
(* last: neither a session of before nor a sign-in begun before lets        *)
(* another one in.  (docs/signer-console.md: "Only account-system users     *)
(* with role = system_admin can access the console.")                       *)
OnlyAdmins ==
    [][\A u \in Accounts : role[u] # "system_admin" =>
          \A h \in Admitted(u)' : h \in Admitted(u)]_session
=============================================================================
