----------------------------- MODULE EdgeCache -----------------------------
(***************************************************************************)
(* The response cache of edgeproxy (responseCache) between the handler of  *)
(* a request and the origin behind it, used by many goroutines.            *)
(*                                                                         *)
(* A request reads the clock, then looks its key up under the mutex: a hit *)
(* is answered from a copy.  A miss goes to the origin; a cacheable answer *)
(* is read into memory, up to one byte over the object limit, and stored   *)
(* under the mutex: the old element of the key is removed, the new one is  *)
(* pushed to the front of the list, and elements are removed from the back *)
(* while the bytes are over the limit.  Nothing is locked while the origin *)
(* answers, so several answers for one key can be under way.               *)
(*                                                                         *)
(* Abstracted: headers and bodies (a body is its size), Age and the other  *)
(* headers of an answer, compression.  A key stands for host, request URI  *)
(* and Accept-Encoding together.                                           *)
(***************************************************************************)
EXTENDS Integers, Sequences, FiniteSets, Functions

CONSTANTS Workers,      \* goroutines serving requests
          Nobody,
          Keys,         \* what cacheKey can return
          Outgoing,     \* the key of a request as it is sent to the origin
          Requests,     \* requests that may arrive
          Responses,    \* responses the origin may give
          Absent,       \* a directive Cache-Control does not have
          TTL,          \* -cache-ttl, in ticks
          MaxBytes,     \* -cache-max-bytes
          MaxObject,    \* -cache-max-object-bytes
          Second,       \* ticks of a second
          Width,        \* a time.Duration holds one of Width values
          MaxTime       \* bound: ticks modelled

Methods == {"GET", "HEAD", "POST"}

Directive == Nat \cup {Absent}

(* ok: status 200 with neither Set-Cookie nor Authorization; forbidden:     *)
(* private, no-store or no-cache.                                           *)
Response == [ok : BOOLEAN, forbidden : BOOLEAN, public : BOOLEAN,
             sMaxAge : Directive, maxAge : Directive, size : Nat]

Request == [method : Methods, auth : BOOLEAN, key : Keys]

ASSUME CacheAssumption ==
    /\ IsFiniteSet(Workers) /\ Nobody \notin Workers /\ Absent \notin Nat
    /\ Outgoing \in [Keys -> Keys]
    /\ Requests \subseteq Request /\ Responses \subseteq Response
    /\ TTL \in Nat /\ MaxBytes \in Nat /\ MaxObject \in Nat
    /\ Second \in Nat \ {0} /\ Width \in Nat \ {0}
    /\ MaxTime \in Nat

VARIABLES
    ll,         \* the list of entries, most recently used first
    items,      \* the map: from some keys to the ids of list elements
    bytes,      \* responseCache.bytes
    mutex,      \* who holds responseCache.mu between two steps
    pc,         \* where each handler is
    want,       \* the request of each handler
    clock,      \* the time get has read
    resp,       \* the origin's response, while its body is read and stored
    made,       \* the entry store has built
    now,        \* the clock
    answer      \* observation: what the last step answered, if it did

cache   == <<ll, items, bytes>>
handler == <<pc, want, clock, resp, made>>
vars == <<cache, mutex, handler, now, answer>>

-----------------------------------------------------------------------------
(* Cache-Control. *)

(* cacheDirectiveSeconds: a directive that is absent, malformed or not      *)
(* positive is 0.                                                           *)
Seconds(d) == IF d = Absent THEN 0 ELSE d

IsCacheable(q, r) ==
    /\ q.method = "GET" /\ ~q.auth
    /\ r.ok /\ ~r.forbidden
    /\ r.public \/ Seconds(r.sMaxAge) > 0 \/ Seconds(r.maxAge) > 0

(* time.Duration(seconds) * time.Second, in a signed integer of its width.  *)
Duration(s) ==
    LET half == Width \div 2 IN ((s * Second + half) % Width) - half

TTLFromResponse(r) ==
    IF Seconds(r.sMaxAge) > 0 THEN Duration(r.sMaxAge)
    ELSE IF Seconds(r.maxAge) > 0 THEN Duration(r.maxAge)
    ELSE TTL

Enabled == TTL > 0 /\ MaxBytes > 0 /\ MaxObject > 0

-----------------------------------------------------------------------------
(* The list and the map. *)

(* The element the map has for k: an id names one of the entries of a key. *)
At(k) == CHOOSE i \in DOMAIN ll : ll[i].key = k /\ ll[i].id = items[k]

Cut(s, i) == SubSeq(s, 1, i - 1) \o SubSeq(s, i + 1, Len(s))

(* Mutant: the map entry of a removed element stays. *)
StillMapped(k) == items

Unmapped(k) == [j \in DOMAIN items \ {k} |-> items[j]]

(* Mutant: the counter is not brought down. *)
RemoveUncounted(i) == /\ ll' = Cut(ll, i)
                      /\ items' = Unmapped(ll[i].key)
                      /\ UNCHANGED bytes

RemoveElement(i) ==
    /\ ll' = Cut(ll, i)
    /\ items' = Unmapped(ll[i].key)
    /\ bytes' = bytes - ll[i].size

(* Mutant: first in, first out. *)
StayInPlace(i) == UNCHANGED ll

MoveToFront(i) == ll' = <<ll[i]>> \o Cut(ll, i)

(* Mutant: the size of the element replaced stays counted. *)
ReplaceUncounted(e) ==
    /\ ll' = <<e>> \o (IF e.key \in DOMAIN items THEN Cut(ll, At(e.key)) ELSE ll)
    /\ items' = [k \in DOMAIN items \cup {e.key} |->
                   IF k = e.key THEN e.id ELSE items[k]]
    /\ bytes' = bytes + e.size

(* store, first half of its critical section. *)
Replace(e) ==
    LET old == e.key \in DOMAIN items
        i   == At(e.key)
    IN  /\ ll' = <<e>> \o (IF old THEN Cut(ll, i) ELSE ll)
        /\ items' = [k \in DOMAIN items \cup {e.key} |->
                       IF k = e.key THEN e.id ELSE items[k]]
        /\ bytes' = bytes + e.size - (IF old THEN ll[i].size ELSE 0)

(* cacheKey of the request as it arrived, and as it was sent on: the        *)
(* reverse proxy prefixes its path with that of the backend URL.            *)
LookupKey(w) == want[w].key
StoreKey(w)  == Outgoing[want[w].key]

-----------------------------------------------------------------------------
NoRequest  == [method |-> "none"]
NoResponse == [ok |-> FALSE]
NoEntry    == [key |-> "none"]
NoAnswer   == [from |-> "none"]

Init ==
    /\ ll = <<>> /\ items = [k \in {} |-> 0] /\ bytes = 0
    /\ mutex = Nobody
    /\ pc = [w \in Workers |-> "idle"]
    /\ want = [w \in Workers |-> NoRequest]
    /\ clock = [w \in Workers |-> 0]
    /\ resp = [w \in Workers |-> NoResponse]
    /\ made = [w \in Workers |-> NoEntry]
    /\ now = 0
    /\ answer = NoAnswer

Goto(w, to) == pc' = [pc EXCEPT ![w] = to]

Silent == answer' = NoAnswer

(* The handler answers; what it worked with is dropped. *)
Done(w, a) == /\ Goto(w, "idle")
              /\ answer' = a
              /\ want' = [want EXCEPT ![w] = NoRequest]
              /\ clock' = [clock EXCEPT ![w] = 0]
              /\ resp' = [resp EXCEPT ![w] = NoResponse]
              /\ made' = [made EXCEPT ![w] = NoEntry]

(* get, before the lock: the clock is read here. *)
Arrive(w, q) ==
    /\ pc[w] = "idle"
    /\ Goto(w, IF Enabled /\ q.method \in {"GET", "HEAD"} THEN "looking" ELSE "missed")
    /\ want' = [want EXCEPT ![w] = q]
    /\ clock' = [clock EXCEPT ![w] = now]
    /\ Silent
    /\ UNCHANGED <<cache, mutex, resp, made, now>>

(* Mutant: the comparison is the other way round. *)
NotYetExpired(e, t) == t < e.expiresAt

Expired(e, t) == t > e.expiresAt

(* get, its critical section. *)
Hit(w, i) ==
    /\ MoveToFront(i)
    /\ UNCHANGED <<items, bytes>>
    /\ Done(w, [from |-> "cache", key |-> LookupKey(w)])

Miss(w) == Goto(w, "missed") /\ Silent /\ UNCHANGED <<want, clock, resp, made>>

Lookup(w) ==
    /\ pc[w] = "looking" /\ mutex = Nobody
    /\ IF LookupKey(w) \notin DOMAIN items
       THEN Miss(w) /\ UNCHANGED cache
       ELSE LET i == At(LookupKey(w)) IN
            IF Expired(ll[i], clock[w])
            THEN RemoveElement(i) /\ Miss(w)
            ELSE Hit(w, i)
    /\ UNCHANGED <<mutex, now>>

FromOrigin(r, n) == [from |-> "origin", full |-> r.size, sent |-> n]

(* ModifyResponse: the header of the origin's response is there. *)
Respond(w, r) ==
    /\ pc[w] = "missed"
    /\ IF Enabled /\ IsCacheable(want[w], r)
       THEN /\ Goto(w, "reading")
            /\ resp' = [resp EXCEPT ![w] = r]
            /\ Silent /\ UNCHANGED <<want, clock, made>>
       ELSE Done(w, FromOrigin(r, r.size))
    /\ UNCHANGED <<cache, mutex, now>>

(* store, before the lock: at most MaxObject + 1 bytes are read, and they   *)
(* replace the body of the response.  A read that fails becomes a 502.      *)
ReadUpTo(r) == IF r.size > MaxObject THEN MaxObject + 1 ELSE r.size

(* A new entry is another one than all those in use. *)
FreshIds(k) == {n \in 1 .. Len(ll) + Cardinality(Workers) :
                  /\ \A i \in DOMAIN ll : ll[i].key = k => ll[i].id # n
                  /\ \A v \in Workers : made[v].key = k => made[v].id # n}

NewEntry(w, n) == [id |-> n, key |-> StoreKey(w),
                   object |-> Outgoing[want[w].key], size |-> resp[w].size,
                   storedAt |-> now, expiresAt |-> now + TTLFromResponse(resp[w]),
                   of |-> resp[w]]

Make(w, n) == /\ \A m \in FreshIds(StoreKey(w)) : n <= m
              /\ made' = [made EXCEPT ![w] = NewEntry(w, n)]

ReadBody(w) ==
    /\ pc[w] = "reading"
    /\ IF ReadUpTo(resp[w]) > MaxObject
       THEN Done(w, FromOrigin(resp[w], ReadUpTo(resp[w])))
       ELSE /\ Goto(w, "storing")
            /\ \E n \in FreshIds(StoreKey(w)) : Make(w, n)
            /\ Silent /\ UNCHANGED <<want, clock, resp>>
    /\ UNCHANGED <<cache, mutex, now>>

ReadFails(w) ==
    /\ pc[w] = "reading"
    /\ Done(w, [from |-> "error"])
    /\ UNCHANGED <<cache, mutex, now>>

(* Mutant: the mutex is not taken. *)
InsertUnlocked(w) ==
    /\ pc[w] = "storing" /\ mutex = Nobody
    /\ Replace(made[w])
    /\ Goto(w, "evicting")
    /\ Silent /\ UNCHANGED <<mutex, want, clock, resp, made, now>>

(* store, its critical section: one step to replace, one for each turn of   *)
(* the loop, one to unlock.  Removing the back of an empty list changes     *)
(* nothing, and the loop goes on.                                           *)
Insert(w) ==
    /\ pc[w] = "storing" /\ mutex = Nobody
    /\ mutex' = w
    /\ Replace(made[w])
    /\ Goto(w, "evicting")
    /\ Silent /\ UNCHANGED <<want, clock, resp, made, now>>

OverLimit == bytes > MaxBytes

EvictBack(w) ==
    /\ pc[w] = "evicting" /\ OverLimit
    /\ IF ll = <<>> THEN UNCHANGED cache ELSE RemoveElement(Len(ll))
    /\ Silent /\ UNCHANGED <<mutex, handler, now>>

Unlock(w) ==
    /\ pc[w] = "evicting" /\ ~OverLimit
    /\ mutex' = Nobody
    /\ Done(w, FromOrigin(resp[w], ReadUpTo(resp[w])))
    /\ UNCHANGED <<cache, now>>

Tick == /\ now < MaxTime
        /\ now' = now + 1
        /\ Silent /\ UNCHANGED <<cache, mutex, handler>>

Locked(w) == EvictBack(w) \/ Unlock(w)

Next ==
    \/ \E w \in Workers :
          \/ \E q \in Requests : Arrive(w, q)
          \/ Lookup(w)
          \/ \E r \in Responses : Respond(w, r)
          \/ ReadBody(w)
          \/ ReadFails(w)
          \/ Insert(w)
          \/ Locked(w)
    \/ Tick

Spec == Init /\ [][Next]_vars

(* A goroutine inside the critical section keeps running. *)
FairSpec == Spec /\ \A w \in Workers : WF_vars(Locked(w))

-----------------------------------------------------------------------------
(* Properties. *)

Entry == [id : Nat, key : Keys, object : Keys, size : Nat, storedAt : Nat,
          expiresAt : Int, of : Responses]

PCs == {"idle", "looking", "missed", "reading", "storing", "evicting"}

(* Type correctness; the mutex is held between steps exactly by a handler   *)
(* in the eviction loop.                                                    *)
TypeOK ==
    /\ ll \in Seq(Entry)
    /\ DOMAIN items \subseteq Keys /\ \A k \in DOMAIN items : items[k] \in Nat
    /\ bytes \in Int
    /\ mutex \in Workers \cup {Nobody}
    /\ pc \in [Workers -> PCs]
    /\ want \in [Workers -> Requests \cup {NoRequest}]
    /\ resp \in [Workers -> Responses \cup {NoResponse}]
    /\ made \in [Workers -> Entry \cup {NoEntry}]
    /\ \A w \in Workers :
          /\ pc[w] = "idle" <=> want[w] = NoRequest
          /\ pc[w] \in {"reading", "storing", "evicting"} => resp[w] # NoResponse
          /\ pc[w] \in {"storing", "evicting"} => made[w] # NoEntry
          /\ pc[w] = "evicting" <=> mutex = w
    /\ clock \in [Workers -> Nat]
    /\ now \in 0 .. MaxTime

TotalSize == SumFunction([i \in DOMAIN ll |-> ll[i].size])

(* The three structures tell the same story at every step, also inside the  *)
(* critical sections: the map finds, for each key in the list, its only     *)
(* element, and nothing else; the counter is the sum of the sizes.  If the  *)
(* counter ever exceeded that sum, the eviction loop would run on an empty  *)
(* list with the mutex held.                                                *)
IndexAgrees ==
    /\ \A i \in DOMAIN ll : /\ ll[i].key \in DOMAIN items
                            /\ items[ll[i].key] = ll[i].id
    /\ \A k \in DOMAIN items : \E i \in DOMAIN ll : ll[i].key = k
    /\ \A i, j \in DOMAIN ll : ll[i].key = ll[j].key /\ ll[i].id = ll[j].id => i = j

BytesExact == bytes = TotalSize

Hits(w) == pc[w] = "looking" /\ pc'[w] = "idle"

(* What a hit serves is the object the origin would have been asked for,    *)
(* and the request arrived no later than the lifetime of the response after *)
(* its body was complete, even if other requests replaced, removed or       *)
(* evicted entries of the key between the clock reading and the lock.       *)
HitsAreFresh ==
    [][\A w \in Workers : Hits(w) =>
          LET e == ll[At(LookupKey(w))] IN
          /\ e.object = Outgoing[want[w].key]
          /\ clock[w] <= e.storedAt + TTLFromResponse(e.of)]_vars

(* The eviction loop ends: the mutex is always released. *)
LockReleased == \A w \in Workers : mutex = w ~> mutex = Nobody

(* The cache implements the LRU store. *)
Held == DOMAIN items

Weight(k) == IF k \in Held THEN ll[At(k)].size ELSE 0
WeightOf == [k \in Keys |-> Weight(k)]

Newer == {p \in Keys \X Keys :
            \E i, j \in DOMAIN ll : i < j /\ p = <<ll[i].key, ll[j].key>>}

Found == IF answer.from = "cache" THEN {answer.key} ELSE {}

Lru == INSTANCE LruStore
         WITH Weights <- 0 .. MaxObject, Capacity <- MaxBytes,
              held <- Held, weight <- WeightOf, newer <- Newer, found <- Found

(* Every step of the cache is a step of an LRU store: an object that is     *)
(* served becomes the newest, only the least recently used one is evicted,  *)
(* and only while the rest is over the limit.                               *)
ImplementsLru == Lru!Spec

-----------------------------------------------------------------------------
(* What the documentation says and the code does not do. *)

(* cmd/edgeproxy/main.go, flag cache-max-object-bytes: "maximum single      *)
(* cached object bytes", a limit on what is cached.  The client of a larger *)
(* object is sent one byte more than the limit and nothing after it.        *)
BodyIsWhole ==
    answer.from = "origin" => answer.sent = answer.full
=============================================================================
