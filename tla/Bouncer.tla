------------------------------- MODULE Bouncer -------------------------------
(***************************************************************************)
(* The authentication webhook: requests are served concurrently, from an LRU  *)
(* cache whose entries expire, or by asking Keystone.  User names and token   *)
(* ids are keys of the same cache.  Time is counted in ticks, and every       *)
(* duration is relative: an entry and a timer carry what is left of their     *)
(* time to live, and an age counts the ticks since Keystone accepted.         *)
(***************************************************************************)
EXTENDS Integers, FiniteSets, SequencesExt

CONSTANTS
    Requests,    \* the requests that are served at the same time
    Creds,       \* what a request may carry: [kind, key, secret]
    CacheSize,
    authTTL, unauthTTL,
    MaxFill,     \* ticks from Keystone's answer to the cache: two calls for the
                 \* groups, each bounded by the timeout of the Keystone client
    MaxTimers    \* timers pending for one key, with those of requests under way
                 \* (a bound of the model)

ASSUME CredsAssumption ==
    /\ Creds \subseteq [kind : {"password", "token"}, key : {c.key : c \in Creds},
                        secret : {c.secret : c \in Creds}]
    /\ \A c, d \in Creds : c.kind = "token" /\ d.kind = "token" /\ c.key = d.key => c = d
ASSUME TimesAssumption ==
    /\ authTTL \in Nat \ {0} /\ unauthTTL \in 1 .. authTTL /\ MaxFill \in Nat
    /\ CacheSize \in Nat \ {0} /\ MaxTimers \in Nat \ {0}

VARIABLES
    valid,       \* the credentials Keystone accepts at the moment
    cache,       \* key -> entry
    recent,      \* the keys of cache, least recently used first
    timers,      \* <<key, ticks left>> -> number of pending removals
    req          \* the requests

vars == <<valid, cache, recent, timers, req>>

Keys == {c.key : c \in Creds}

\* An entry holds the status and, for a password, its hash.  whose and age are
\* history: the credentials the status was obtained with, and since when.
Entries == [kind : {"password", "token"}, secret : {c.secret : c \in Creds}, auth : BOOLEAN,
            left : -1 .. authTTL, whose : Creds, age : 0 .. authTTL + MaxFill + 1]

\* A request that is not served.
Idle == [pc |-> "idle"]

\* A request that holds a status it will cache and answer.
Filling(c, a) == [pc |-> "fill", cred |-> c, auth |-> a, age |-> 0]

\* A request that has been answered, with the history of the status.
Done(c, a, w, g) == [pc |-> "done", cred |-> c, auth |-> a, whose |-> w, age |-> g]

Init ==
    /\ valid \in SUBSET Creds
    /\ cache = [k \in {} |-> 0] /\ recent = <<>>
    /\ timers = [t \in Keys \X (0 .. authTTL) |-> 0]
    /\ req = [r \in Requests |-> Idle]

(***************************************************************************)
(* The cache.  Each operation of the LRU holds its lock.                    *)
(***************************************************************************)
Drop(k) ==
    /\ cache' = [j \in DOMAIN cache \ {k} |-> cache[j]]
    /\ recent' = RemoveFirst(recent, k)

\* The entry, at the expense of the least recently used one.
Put(k, e, size) ==
    LET order == Append(RemoveFirst(recent, k), k)
        full == Len(order) > size
        evicted == IF full THEN {Head(order)} ELSE {}
    IN  /\ recent' = IF full THEN Tail(order) ELSE order
        /\ cache' = [j \in (DOMAIN cache \cup {k}) \ evicted |-> IF j = k THEN e ELSE cache[j]]

\* Mutation: no timer.
Mut_Add(k, e, ttl) == Put(k, e, CacheSize) /\ UNCHANGED timers

\* Mutation: one entry too many.
Mut_Add2(k, e, ttl) ==
    /\ Put(k, e, CacheSize + 1)
    /\ timers' = [timers EXCEPT ![<<k, ttl>>] = @ + 1]

\* Add: the entry, and the timer that will remove whatever the key holds by then.
Add(k, e, ttl) ==
    /\ Put(k, e, CacheSize)
    /\ timers' = [timers EXCEPT ![<<k, ttl>>] = @ + 1]

Touch(k) == recent' = Append(RemoveFirst(recent, k), k)

\* An entry expires when its time has passed, not when it is reached.
Expired(e) == e.left < 0

Mut_Matches(e, c) == e.kind = c.kind

\* The type of the entry is the one of the request and, for a password, the hash
\* is the one of the password.
Matches(e, c) == e.kind = c.kind /\ (c.kind = "password" => e.secret = c.secret)

(***************************************************************************)
(* The environment                                                         *)
(***************************************************************************)
\* A password changes, a token is revoked or issued.
KeystoneChanges ==
    /\ \E c \in Creds : valid' = IF c \in valid THEN valid \ {c} ELSE valid \cup {c}
    /\ UNCHANGED <<cache, recent, timers, req>>

\* Time passes.  A timer that is due may still be waiting for its goroutine.
Tick ==
    /\ \A r \in Requests : req[r].pc = "fill" => req[r].age < MaxFill
    /\ cache' = [k \in DOMAIN cache |->
          [cache[k] EXCEPT !.left = IF @ < 0 THEN @ ELSE @ - 1,
                           !.age = IF @ > authTTL + MaxFill THEN @ ELSE @ + 1]]
    /\ timers' = [t \in DOMAIN timers |->
          (IF t[2] = 0 THEN timers[t] ELSE 0)
          + (IF t[2] < authTTL THEN timers[<<t[1], t[2] + 1>>] ELSE 0)]
    /\ req' = [r \in Requests |->
          IF req[r].pc = "fill" THEN [req[r] EXCEPT !.age = @ + 1] ELSE req[r]]
    /\ UNCHANGED <<valid, recent>>

\* The timer of an Add removes the key.
TimerFires(k) ==
    /\ timers[<<k, 0>>] > 0
    /\ timers' = [timers EXCEPT ![<<k, 0>>] = @ - 1]
    /\ Drop(k)
    /\ UNCHANGED <<valid, req>>

(***************************************************************************)
(* Requests                                                                *)
(***************************************************************************)
\* The timers that the key has or may get.
Timers(k) ==
    SumFunctionOnSet(timers, {k} \X (0 .. authTTL))
    + Cardinality({r \in Requests : req[r].pc # "idle" /\ req[r].cred.key = k})

\* The lookup of handleCredentials and of handleTokenID.
Lookup(r) ==
    /\ req[r].pc = "idle"
    /\ \E c \in Creds :
        LET k == c.key IN
        /\ Timers(k) < MaxTimers
        /\ IF k \notin DOMAIN cache
           THEN req' = [req EXCEPT ![r] = [pc |-> "ask", cred |-> c]] /\ UNCHANGED recent
           ELSE /\ Touch(k)
                /\ req' = [req EXCEPT ![r] =
                      IF Expired(cache[k]) THEN [pc |-> "remove", cred |-> c]
                      ELSE IF Matches(cache[k], c)
                      THEN Done(c, cache[k].auth, cache[k].whose, cache[k].age)
                      ELSE [pc |-> "ask", cred |-> c]]
    /\ UNCHANGED <<valid, cache, timers>>

\* Get found the entry expired and removes the key, in a second operation.
RemoveExpired(r) ==
    /\ req[r].pc = "remove"
    /\ Drop(req[r].cred.key)
    /\ req' = [req EXCEPT ![r].pc = "ask"]
    /\ UNCHANGED <<valid, timers>>

\* What Keystone answers: 201, 401, or something else (an error, a timeout).
Auth(c) == {IF c \in valid THEN "created" ELSE "unauthorized", "error"}

\* The client formats every error into a new one, which carries no status code.
ProjectToken(answer) == IF answer = "created" THEN answer ELSE "error"

\* A status is cached when Keystone decided, that is accepted or answered 401.
AskKeystone(r) ==
    /\ req[r].pc = "ask"
    /\ \E answer \in Auth(req[r].cred) :
        LET c == req[r].cred
            result == ProjectToken(answer)
        IN  req' = [req EXCEPT ![r] =
                IF result \in {"created", "unauthorized"}
                THEN Filling(c, result = "created")
                ELSE Done(c, FALSE, c, 0)]
    /\ UNCHANGED <<valid, cache, recent, timers>>

\* The groups are there, or could not be had: the status is cached and answered.
Fill(r) ==
    /\ req[r].pc = "fill"
    /\ LET c == req[r].cred
           ttl == IF req[r].auth THEN authTTL ELSE unauthTTL
       IN  /\ Add(c.key, [kind |-> c.kind, secret |-> c.secret, auth |-> req[r].auth,
                          left |-> ttl, whose |-> c, age |-> req[r].age], ttl)
           /\ req' = [req EXCEPT ![r] = Done(c, req[r].auth, c, req[r].age)]
    /\ UNCHANGED valid

\* The password could not be hashed: the status is answered but not cached.
FillWithoutCache(r) ==
    /\ req[r].pc = "fill" /\ req[r].cred.kind = "password"
    /\ req' = [req EXCEPT ![r] = Done(req[r].cred, req[r].auth, req[r].cred, req[r].age)]
    /\ UNCHANGED <<valid, cache, recent, timers>>

Answered(r) ==
    /\ req[r].pc = "done"
    /\ req' = [req EXCEPT ![r] = Idle]
    /\ UNCHANGED <<valid, cache, recent, timers>>

Serve(r) ==
    \/ Lookup(r) \/ RemoveExpired(r) \/ AskKeystone(r) \/ Fill(r) \/ FillWithoutCache(r)
    \/ Answered(r)

Next ==
    \/ KeystoneChanges \/ Tick
    \/ \E k \in Keys : TimerFires(k)
    \/ \E r \in Requests : Serve(r)

Spec == Init /\ [][Next]_vars

\* Timers fire and time passes; a request that is served goes on.
Fairness ==
    /\ WF_vars(Tick)
    /\ \A k \in Keys : WF_vars(TimerFires(k))
    /\ \A r \in Requests : WF_vars(Serve(r) /\ req[r].pc # "idle")

FairSpec == Spec /\ Fairness

(***************************************************************************)
(* Properties                                                              *)
(***************************************************************************)
\* Every variable has its type; the order of the LRU lists its keys once each,
\* and they are no more than its size.
TypeOK ==
    /\ valid \subseteq Creds
    /\ DOMAIN cache \subseteq Keys /\ \A k \in DOMAIN cache : cache[k] \in Entries
    /\ IsInjective(recent) /\ ToSet(recent) = DOMAIN cache /\ Len(recent) <= CacheSize
    /\ timers \in [Keys \X (0 .. authTTL) -> Nat]
    /\ \A r \in Requests : req[r].pc \in {"idle", "remove", "ask", "fill", "done"}

\* A request is authenticated only when Keystone accepted these very credentials,
\* of the same kind and with the same password, at most authTTL and the time of a
\* fill ago, through concurrent fills, evictions, timers and shared keys.
AuthenticatedIsRecent ==
    \A r \in Requests : req[r].pc = "done" /\ req[r].auth =>
        req[r].whose = req[r].cred /\ req[r].age <= authTTL + MaxFill

\* Credentials that Keystone refuses for good are in the end refused for good:
\* no cached status outlives its time, whether the key is looked up or not.
RevocationTakesEffect ==
    \A c \in Creds :
        <>[](c \notin valid) => <>[](\A k \in DOMAIN cache : cache[k].auth => cache[k].whose # c)
=============================================================================
