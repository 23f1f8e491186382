---------------------------- MODULE BouncerProofs ----------------------------
(***************************************************************************)
(* For any number of requests, credentials and entries, and any times to     *)
(* live: a request is authenticated only by what Keystone said of its own    *)
(* credentials, at most authTTL and the time of a fill ago, and the cache     *)
(* keeps to its size.  What keeps the bound on the age is the time stored     *)
(* with an entry; the timers only free memory.                                *)
(***************************************************************************)
EXTENDS Bouncer, SequenceTheorems, WellFoundedInduction, TLAPS

\* The requests, by where they are.
ReqStates ==
    [pc : {"idle"}]
    \cup [pc : {"remove", "ask"}, cred : Creds]
    \cup [pc : {"fill"}, cred : Creds, auth : BOOLEAN, age : 0 .. MaxFill]
    \cup [pc : {"done"}, cred : Creds, auth : BOOLEAN, whose : Creds,
          age : 0 .. authTTL + MaxFill + 1]

\* An entry is about credentials of its key, kind and secret, and what is left of
\* its time bounds its age.
EntryInv(k, e) ==
    /\ e \in Entries
    /\ e.whose.key = k /\ e.whose.kind = e.kind /\ e.whose.secret = e.secret
    /\ e.left >= 0 => e.age + e.left <= authTTL + MaxFill

CacheInv == \A k \in DOMAIN cache : EntryInv(k, cache[k])

IInv == req \in [Requests -> ReqStates] /\ CacheInv /\ AuthenticatedIsRecent

\* The fields of credentials, and what makes two of them equal.
LEMMA CredFacts ==
  ASSUME NEW c \in Creds, NEW d \in Creds
  PROVE  /\ c.kind \in {"password", "token"} /\ c.secret \in {x.secret : x \in Creds}
         /\ (c.kind = d.kind /\ c.key = d.key /\ c.secret = d.secret => c = d)
         /\ (c.kind = "token" /\ d.kind = "token" /\ c.key = d.key => c = d)
  <1>1. /\ c \in [kind : {"password", "token"}, key : {x.key : x \in Creds},
                  secret : {x.secret : x \in Creds}]
        /\ d \in [kind : {"password", "token"}, key : {x.key : x \in Creds},
                  secret : {x.secret : x \in Creds}]
      BY CredsAssumption
  <1>2. c.kind = d.kind /\ c.key = d.key /\ c.secret = d.secret => c = d
    <2>1. /\ c = [kind |-> c.kind, key |-> c.key, secret |-> c.secret]
          /\ d = [kind |-> d.kind, key |-> d.key, secret |-> d.secret]
        BY <1>1
    <2>. QED
        BY <2>1, Zenon
  <1>3. c.kind = "token" /\ d.kind = "token" /\ c.key = d.key => c = d
      BY CredsAssumption, Zenon
  <1>4. c.kind \in {"password", "token"} /\ c.secret \in {x.secret : x \in Creds}
      BY <1>1
  <1>. QED
      BY <1>2, <1>3, <1>4

\* An entry that matches the credentials of a request was obtained with them.
LEMMA MatchIsOwn ==
  ASSUME NEW c \in Creds, NEW e, EntryInv(c.key, e), Matches(e, c)
  PROVE  e.whose = c
  <1>1. e.whose \in Creds
      BY DEF EntryInv, Entries
  <1>. QED
      BY <1>1, CredFacts DEF EntryInv, Matches

\* Removing a key keeps the invariant of the entries.
LEMMA DropKeeps ==
  ASSUME NEW k, CacheInv, Drop(k)
  PROVE  CacheInv'
  BY DEF Drop, CacheInv

\* So does adding an entry that satisfies it, whichever key makes room.
LEMMA AddKeeps ==
  ASSUME NEW k, NEW e, NEW ttl, CacheInv, EntryInv(k, e), Add(k, e, ttl)
  PROVE  CacheInv'
  BY DEF Add, Put, CacheInv

\* A tick takes as much from the time that is left as it adds to the age.
LEMMA TickKeepsEntry ==
  ASSUME NEW k, NEW e, EntryInv(k, e)
  PROVE  EntryInv(k, [e EXCEPT !.left = IF @ < 0 THEN @ ELSE @ - 1,
                               !.age = IF @ > authTTL + MaxFill THEN @ ELSE @ + 1])
  <1> DEFINE left == IF e.left < 0 THEN e.left ELSE e.left - 1
             age == IF e.age > authTTL + MaxFill THEN e.age ELSE e.age + 1
             f == [e EXCEPT !.left = left, !.age = age]
  <1>1. /\ e \in Entries /\ e.left \in -1 .. authTTL
        /\ e.age \in 0 .. authTTL + MaxFill + 1 /\ authTTL \in Nat /\ MaxFill \in Nat
      BY TimesAssumption DEF EntryInv, Entries
  <1>2. left \in -1 .. authTTL /\ age \in 0 .. authTTL + MaxFill + 1
      BY <1>1
  <1>3. left >= 0 => age + left <= authTTL + MaxFill
      BY <1>1 DEF EntryInv
  <1> HIDE DEF left, age
  <1>4. /\ f.left = left /\ f.age = age /\ f.kind = e.kind /\ f.secret = e.secret
        /\ f.whose = e.whose /\ f \in Entries
      BY <1>1, <1>2 DEF Entries
  <1>5. EntryInv(k, f)
      BY <1>3, <1>4 DEF EntryInv
  <1>. QED
      BY <1>5 DEF left, age

LEMMA InitIInv == Init => IInv
  <1> SUFFICES ASSUME Init PROVE IInv
      OBVIOUS
  <1>1. req \in [Requests -> ReqStates]
      BY DEF Init, Idle, ReqStates
  <1>2. CacheInv
      BY DEF Init, CacheInv
  <1>3. AuthenticatedIsRecent
      BY DEF Init, Idle, AuthenticatedIsRecent
  <1>. QED
      BY <1>1, <1>2, <1>3 DEF IInv

\* A step that changes one request to a state in which it is not authenticated by
\* anything else keeps the properties of the requests.
LEMMA OneRequest ==
  ASSUME IInv, NEW r \in Requests, NEW q \in ReqStates, req' = [req EXCEPT ![r] = q],
         q.pc = "done" /\ q.auth => q.whose = q.cred /\ q.age <= authTTL + MaxFill
  PROVE  req' \in [Requests -> ReqStates] /\ AuthenticatedIsRecent'
  BY DEF IInv, AuthenticatedIsRecent

\* The states a request can be in.
LEMMA ReqFacts ==
  ASSUME NEW q \in ReqStates
  PROVE  /\ q.pc \in {"remove", "ask", "fill", "done"} => q.cred \in Creds
         /\ q.pc = "fill" => q.auth \in BOOLEAN /\ q.age \in 0 .. MaxFill
         /\ q.pc = "remove" => [q EXCEPT !.pc = "ask"] \in ReqStates
         /\ q.pc = "fill" /\ q.age < MaxFill => [q EXCEPT !.age = @ + 1] \in ReqStates
  BY TimesAssumption DEF ReqStates

LEMMA NextIInv == IInv /\ [Next]_vars => IInv'
  <1> SUFFICES ASSUME IInv, [Next]_vars PROVE IInv'
      OBVIOUS
  <1>a. /\ req \in [Requests -> ReqStates] /\ CacheInv /\ AuthenticatedIsRecent
        /\ authTTL \in Nat /\ MaxFill \in Nat /\ unauthTTL \in 0 .. authTTL
      BY TimesAssumption DEF IInv
  <1>1. CASE KeystoneChanges
      BY <1>1 DEF KeystoneChanges, IInv, CacheInv, AuthenticatedIsRecent
  <1>2. CASE Tick
    <2>1. CacheInv'
        BY <1>a, <1>2, TickKeepsEntry DEF Tick, CacheInv
    <2>2. \A r \in Requests : req'[r] \in ReqStates
        BY <1>a, <1>2, ReqFacts DEF Tick
    <2>3. req' \in [Requests -> ReqStates]
        BY <2>2, <1>2 DEF Tick
    <2>4. \A r \in Requests : req'[r].pc = "done" => req'[r] = req[r]
        BY <1>a, <1>2 DEF Tick, ReqStates
    <2>5. AuthenticatedIsRecent'
        BY <1>a, <2>4 DEF AuthenticatedIsRecent
    <2>. QED
        BY <2>1, <2>3, <2>5 DEF IInv
  <1>3. ASSUME NEW k \in Keys, TimerFires(k) PROVE IInv'
      BY <1>3, <1>a, DropKeeps DEF TimerFires, IInv, AuthenticatedIsRecent
  <1>4. ASSUME NEW r \in Requests, Lookup(r) PROVE IInv'
    <2>1. PICK c \in Creds :
              req' = [req EXCEPT ![r] =
                  IF c.key \notin DOMAIN cache THEN [pc |-> "ask", cred |-> c]
                  ELSE IF Expired(cache[c.key]) THEN [pc |-> "remove", cred |-> c]
                  ELSE IF Matches(cache[c.key], c)
                  THEN Done(c, cache[c.key].auth, cache[c.key].whose, cache[c.key].age)
                  ELSE [pc |-> "ask", cred |-> c]]
        BY <1>4 DEF Lookup
    <2>2. CacheInv'
        BY <1>a, <1>4 DEF Lookup, CacheInv
    <2>3. CASE /\ c.key \in DOMAIN cache /\ ~Expired(cache[c.key])
               /\ Matches(cache[c.key], c)
      <3> DEFINE e == cache[c.key]
                 q == Done(c, e.auth, e.whose, e.age)
      <3>1. EntryInv(c.key, e)
          BY <1>a, <2>3 DEF CacheInv
      <3>2. e.whose = c
          BY <3>1, <2>3, MatchIsOwn
      <3>3. /\ e.left >= 0 /\ e.age \in 0 .. authTTL + MaxFill + 1 /\ e.auth \in BOOLEAN
            /\ e.age <= authTTL + MaxFill
          BY <3>1, <2>3, <1>a DEF EntryInv, Entries, Expired
      <3> HIDE DEF e
      <3>4. /\ q \in ReqStates /\ q.pc = "done" /\ q.whose = q.cred
            /\ q.age <= authTTL + MaxFill
          BY <3>2, <3>3 DEF Done, ReqStates
      <3>5. req' = [req EXCEPT ![r] = q]
          BY <2>1, <2>3 DEF e
      <3> HIDE DEF q
      <3>. QED
          BY <3>4, <3>5, <2>2, OneRequest DEF IInv
    <2>4. CASE ~(/\ c.key \in DOMAIN cache /\ ~Expired(cache[c.key])
                 /\ Matches(cache[c.key], c))
      <3>1. PICK q \in {[pc |-> "ask", cred |-> c], [pc |-> "remove", cred |-> c]} :
                req' = [req EXCEPT ![r] = q]
          BY <2>1, <2>4
      <3>2. q \in ReqStates /\ q.pc # "done"
          BY <3>1 DEF ReqStates
      <3>. QED
          BY <3>1, <3>2, <2>2, OneRequest DEF IInv
    <2>. QED
        BY <2>3, <2>4
  <1>5. ASSUME NEW r \in Requests, RemoveExpired(r) PROVE IInv'
    <2> DEFINE q == [req[r] EXCEPT !.pc = "ask"]
    <2>1. q \in ReqStates
        BY <1>a, <1>5, ReqFacts DEF RemoveExpired
    <2>2. q.pc = "ask"
        BY <1>a, <1>5 DEF RemoveExpired, ReqStates
    <2>3. req' = [req EXCEPT ![r] = q]
        BY <1>a, <1>5 DEF RemoveExpired
    <2>4. CacheInv'
        BY <1>a, <1>5, DropKeeps DEF RemoveExpired
    <2> HIDE DEF q
    <2>. QED
        BY <2>1, <2>2, <2>3, <2>4, OneRequest DEF IInv
  <1>6. ASSUME NEW r \in Requests, AskKeystone(r) PROVE IInv'
    <2>1. req[r].cred \in Creds
        BY <1>a, <1>6, ReqFacts DEF AskKeystone
    <2>2. PICK q \in {Filling(req[r].cred, TRUE), Filling(req[r].cred, FALSE),
                      Done(req[r].cred, FALSE, req[r].cred, 0)} :
              req' = [req EXCEPT ![r] = q]
        BY <1>6 DEF AskKeystone
    <2>a. 0 \in 0 .. MaxFill /\ 0 \in 0 .. authTTL + MaxFill + 1
        BY <1>a
    <2>b. ASSUME NEW a \in BOOLEAN
          PROVE  Filling(req[r].cred, a) \in ReqStates /\ Filling(req[r].cred, a).pc # "done"
        BY <2>1, <2>a DEF Filling, ReqStates
    <2>c. /\ Done(req[r].cred, FALSE, req[r].cred, 0) \in ReqStates
          /\ ~Done(req[r].cred, FALSE, req[r].cred, 0).auth
        BY <2>1, <2>a DEF Done, ReqStates
    <2>3. q \in ReqStates /\ (q.pc = "done" => ~q.auth)
        BY <2>2, <2>b, <2>c
    <2>4. CacheInv'
        BY <1>a, <1>6 DEF AskKeystone, CacheInv
    <2>. QED
        BY <2>2, <2>3, <2>4, OneRequest DEF IInv
  <1>b. ASSUME NEW r \in Requests, req[r].pc = "fill"
        PROVE  /\ Done(req[r].cred, req[r].auth, req[r].cred, req[r].age) \in ReqStates
               /\ req[r].age <= MaxFill /\ req[r].age \in Nat
               /\ req[r].cred \in Creds /\ req[r].auth \in BOOLEAN
    <2>1. /\ req[r].cred \in Creds /\ req[r].auth \in BOOLEAN
          /\ req[r].age \in 0 .. MaxFill
        BY <1>a, <1>b, ReqFacts
    <2>2. req[r].age \in 0 .. authTTL + MaxFill + 1
        BY <2>1, <1>a
    <2>. QED
        BY <2>1, <2>2, <1>a DEF Done, ReqStates
  <1>7. ASSUME NEW r \in Requests, Fill(r) PROVE IInv'
    <2> DEFINE c == req[r].cred
               q == Done(c, req[r].auth, c, req[r].age)
               ttl == IF req[r].auth THEN authTTL ELSE unauthTTL
               e == [kind |-> c.kind, secret |-> c.secret, auth |-> req[r].auth,
                     left |-> ttl, whose |-> c, age |-> req[r].age]
    <2>0. req[r].pc = "fill" /\ req' = [req EXCEPT ![r] = q] /\ Add(c.key, e, ttl)
        BY <1>7 DEF Fill
    <2>1. /\ q \in ReqStates /\ c \in Creds /\ req[r].auth \in BOOLEAN
          /\ req[r].age <= MaxFill /\ req[r].age \in Nat
        BY <2>0, <1>b
    <2>2. q.whose = q.cred /\ q.age <= authTTL + MaxFill
        BY <2>1, <1>a DEF Done
    <2>3. /\ ttl \in -1 .. authTTL /\ req[r].age + ttl <= authTTL + MaxFill
          /\ req[r].age \in 0 .. authTTL + MaxFill + 1
        BY <2>1, <1>a
    <2>4. c.kind \in {"password", "token"} /\ c.secret \in {x.secret : x \in Creds}
        BY <2>1, CredFacts
    <2>5. EntryInv(c.key, e)
        BY <2>1, <2>3, <2>4 DEF EntryInv, Entries
    <2>6. CacheInv'
        BY <2>0, <2>5, <1>a, AddKeeps
    <2> HIDE DEF q
    <2>. QED
        BY <2>0, <2>1, <2>2, <2>6, OneRequest DEF IInv
  <1>8. ASSUME NEW r \in Requests, FillWithoutCache(r) PROVE IInv'
    <2> DEFINE q == Done(req[r].cred, req[r].auth, req[r].cred, req[r].age)
    <2>1. /\ q \in ReqStates /\ req[r].age <= MaxFill /\ req[r].age \in Nat
        BY <1>8, <1>b DEF FillWithoutCache
    <2>2. q.whose = q.cred /\ q.age <= authTTL + MaxFill
        BY <2>1, <1>a DEF Done
    <2>3. req' = [req EXCEPT ![r] = q] /\ CacheInv'
        BY <1>8, <1>a DEF FillWithoutCache, CacheInv
    <2> HIDE DEF q
    <2>. QED
        BY <2>1, <2>2, <2>3, OneRequest DEF IInv
  <1>9. ASSUME NEW r \in Requests, Answered(r) PROVE IInv'
    <2>1. Idle \in ReqStates /\ Idle.pc # "done"
        BY DEF Idle, ReqStates
    <2>2. req' = [req EXCEPT ![r] = Idle] /\ CacheInv'
        BY <1>9, <1>a DEF Answered, CacheInv
    <2>. QED
        BY <2>1, <2>2, OneRequest DEF IInv
  <1>10. CASE UNCHANGED vars
      BY <1>10 DEF vars, IInv, CacheInv, AuthenticatedIsRecent
  <1>. QED
      BY <1>1, <1>2, <1>3, <1>4, <1>5, <1>6, <1>7, <1>8, <1>9, <1>10 DEF Next, Serve

----------------------------------------------------------------------------
(* The order of the LRU.                                                    *)

\* A set of natural numbers that is not empty has a least element.
LEMMA LeastIn ==
  ASSUME NEW I \in SUBSET Nat, I # {}
  PROVE  \E x \in I : \A y \in I : x <= y
  <1>. DEFINE R == OpToRel(<, Nat)
  <1>1. IsWellFoundedOn(R, Nat)
      BY NatLessThanWellFounded
  <1>2. \A x, y \in I : y < x => <<y, x>> \in R
      BY DEF OpToRel
  <1>. HIDE DEF R
  <1>3. \E x \in I : \A y \in I : ~(<<y, x>> \in R)
      BY <1>1, WFMin, Zenon
  <1>4. \E x \in I : \A y \in I : ~(y < x)
      BY <1>2, <1>3, Zenon
  <1>. QED
      BY <1>4

\* What is left of a sequence without its i-th element.
LEMMA RemoveAtFacts ==
  ASSUME NEW S, NEW s \in Seq(S), NEW i \in 1 .. Len(s)
  PROVE  /\ RemoveAt(s, i) \in Seq(S) /\ Len(RemoveAt(s, i)) = Len(s) - 1
         /\ \A j \in 1 .. Len(s) - 1 :
               RemoveAt(s, i)[j] = IF j < i THEN s[j] ELSE s[j + 1]
  <1>. DEFINE n == Len(s)
              a == SubSeq(s, 1, i - 1)
              b == SubSeq(s, i + 1, n)
  <1>0. n \in Nat /\ i \in 1 .. n
      BY LenProperties
  <1>1. /\ a \in Seq(S) /\ Len(a) = i - 1
        /\ \A j \in 1 .. i - 1 : a[j] = s[j]
    <2>1. 1 \in 1 .. n + 1 /\ i - 1 \in (1 - 1) .. n
        BY <1>0
    <2>2. /\ a \in Seq(S) /\ Len(a) = IF 1 <= i - 1 THEN (i - 1) - 1 + 1 ELSE 0
          /\ \A j \in 1 .. (i - 1) - 1 + 1 : a[j] = s[1 + j - 1]
        BY <2>1, SubSeqProperties
    <2>. HIDE DEF a
    <2>. QED
        BY <1>0, <2>2
  <1>2. /\ b \in Seq(S) /\ Len(b) = n - i
        /\ \A j \in 1 .. n - i : b[j] = s[i + j]
    <2>1. i + 1 \in 1 .. n + 1 /\ n \in ((i + 1) - 1) .. n
        BY <1>0
    <2>2. /\ b \in Seq(S) /\ Len(b) = IF i + 1 <= n THEN n - (i + 1) + 1 ELSE 0
          /\ \A j \in 1 .. n - (i + 1) + 1 : b[j] = s[(i + 1) + j - 1]
        BY <2>1, SubSeqProperties
    <2>. HIDE DEF b
    <2>. QED
        BY <1>0, <2>2
  <1>. HIDE DEF a, b
  <1>3. /\ a \o b \in Seq(S) /\ Len(a \o b) = Len(a) + Len(b)
        /\ \A j \in 1 .. Len(a) + Len(b) :
              (a \o b)[j] = IF j <= Len(a) THEN a[j] ELSE b[j - Len(a)]
      BY <1>1, <1>2, ConcatProperties
  <1>. DEFINE t == a \o b
  <1>. HIDE DEF t, n
  <1>4. t \in Seq(S) /\ Len(t) = n - 1
      BY <1>0, <1>1, <1>2, <1>3 DEF t
  <1>5. ASSUME NEW j \in 1 .. n - 1 PROVE t[j] = IF j < i THEN s[j] ELSE s[j + 1]
    <2>1. CASE j < i
        BY <1>0, <1>1, <1>2, <1>3, <2>1 DEF t
    <2>2. CASE ~(j < i)
      <3>1. t[j] = b[j - (i - 1)] /\ j - (i - 1) \in 1 .. n - i
          BY <1>0, <1>1, <1>2, <1>3, <2>2 DEF t
      <3>2. b[j - (i - 1)] = s[i + (j - (i - 1))]
          BY <1>2, <3>1
      <3>3. i + (j - (i - 1)) = j + 1
          BY <1>0
      <3>. QED
          BY <2>2, <3>1, <3>2, <3>3
    <2>. QED
        BY <2>1, <2>2
  <1>6. RemoveAt(s, i) = t
      BY DEF RemoveAt, t, a, b, n
  <1>. QED
      BY <1>4, <1>5, <1>6 DEF n

\* A list of distinct keys without one of them.
LEMMA RemoveFirstFacts ==
  ASSUME NEW S, NEW s \in Seq(S), IsInjective(s), NEW k
  PROVE  LET t == RemoveFirst(s, k)
         IN  /\ t \in Seq(S) /\ IsInjective(t) /\ ToSet(t) = ToSet(s) \ {k}
             /\ Len(t) = IF k \in ToSet(s) THEN Len(s) - 1 ELSE Len(s)
  <1>. DEFINE n == Len(s)
              t == RemoveFirst(s, k)
  <1>0. n \in Nat /\ DOMAIN s = 1 .. n
      BY LenProperties
  <1>1. CASE ~\E i \in 1 .. n : s[i] = k
    <2>1. t = s
        BY <1>1 DEF RemoveFirst
    <2>2. k \notin ToSet(s)
        BY <1>0, <1>1 DEF ToSet
    <2>. QED
        BY <1>0, <2>1, <2>2
  <1>2. CASE \E i \in 1 .. n : s[i] = k
    <2>. DEFINE i == SelectInSeq(s, LAMBDA v : v = k)
    <2>1. t = RemoveAt(s, i)
        BY <1>2 DEF RemoveFirst
    <2>2. i \in 1 .. n /\ s[i] = k
      <3>. DEFINE I == {j \in 1 .. n : s[j] = k}
      <3>1. i = Min(I)
          BY <1>2 DEF SelectInSeq
      <3>2. I # {} /\ I \subseteq Nat
          BY <1>0, <1>2
      <3>3. \E x \in I : \A y \in I : x <= y
          BY <3>2, LeastIn
      <3>4. Min(I) \in I
          BY <3>3, Zenon DEF Min
      <3>. QED
          BY <3>1, <3>4
    <2>. HIDE DEF i, t
    <2>3. /\ t \in Seq(S) /\ Len(t) = n - 1
          /\ \A j \in 1 .. n - 1 : t[j] = IF j < i THEN s[j] ELSE s[j + 1]
        BY <2>1, <2>2, RemoveAtFacts
    <2>4. DOMAIN t = 1 .. n - 1
        BY <2>3, LenProperties
    <2>. HIDE DEF n
    <2>5. \A j, l \in 1 .. n : s[j] = s[l] => j = l
        BY <1>0 DEF IsInjective
    <2>6. IsInjective(t)
      <3>. SUFFICES ASSUME NEW j \in 1 .. n - 1, NEW l \in 1 .. n - 1, t[j] = t[l]
                    PROVE  j = l
          BY <2>4 DEF IsInjective
      <3>. DEFINE jj == IF j < i THEN j ELSE j + 1
                  ll == IF l < i THEN l ELSE l + 1
      <3>1. jj \in 1 .. n /\ ll \in 1 .. n /\ t[j] = s[jj] /\ t[l] = s[ll]
          BY <1>0, <2>2, <2>3
      <3>2. jj = ll
          BY <2>5, <3>1
      <3>. QED
          BY <1>0, <2>2, <3>2
    <2>7. ToSet(t) = ToSet(s) \ {k}
      <3>1. ASSUME NEW j \in 1 .. n - 1 PROVE t[j] \in ToSet(s) /\ t[j] # k
        <4>. DEFINE jj == IF j < i THEN j ELSE j + 1
        <4>1. jj \in 1 .. n /\ t[j] = s[jj] /\ jj # i
            BY <1>0, <2>2, <2>3
        <4>. HIDE DEF jj
        <4>. QED
            BY <1>0, <2>2, <2>5, <4>1 DEF ToSet
      <3>2. ASSUME NEW j \in 1 .. n, s[j] # k PROVE \E l \in 1 .. n - 1 : t[l] = s[j]
        <4>1. CASE j < i
          <5>1. j \in 1 .. n - 1
              BY <1>0, <2>2, <4>1
          <5>. QED
              BY <2>3, <4>1, <5>1
        <4>2. CASE j > i
          <5>1. j - 1 \in 1 .. n - 1 /\ ~(j - 1 < i) /\ (j - 1) + 1 = j
              BY <1>0, <2>2, <4>2
          <5>2. t[j - 1] = s[(j - 1) + 1]
              BY <2>3, <5>1
          <5>. QED
              BY <5>1, <5>2
        <4>. QED
            BY <1>0, <2>2, <3>2, <4>1, <4>2
      <3>3. ToSet(t) \subseteq ToSet(s) \ {k}
          BY <2>4, <3>1 DEF ToSet
      <3>4. \A v \in ToSet(s) \ {k} : \E j \in 1 .. n : s[j] = v /\ s[j] # k
          BY <1>0 DEF ToSet
      <3>5. \A v \in ToSet(s) \ {k} : \E l \in 1 .. n - 1 : t[l] = v
          BY <3>2, <3>4, Zenon
      <3>6. ToSet(s) \ {k} \subseteq ToSet(t)
          BY <2>4, <3>5, Zenon DEF ToSet
      <3>. QED
          BY <3>3, <3>6
    <2>8. k \in ToSet(s) /\ Len(t) = Len(s) - 1
        BY <1>0, <2>2, <2>3 DEF ToSet, n
    <2>. QED
        BY <2>3, <2>6, <2>7, <2>8 DEF t
  <1>. QED
      BY <1>1, <1>2

\* The order with the key as the most recent one.
LEMMA AppendFacts ==
  ASSUME NEW S, NEW s \in Seq(S), IsInjective(s), NEW k \in S
  PROVE  LET t == Append(RemoveFirst(s, k), k)
         IN  /\ t \in Seq(S) /\ IsInjective(t) /\ ToSet(t) = ToSet(s) \cup {k}
             /\ Len(t) = IF k \in ToSet(s) THEN Len(s) ELSE Len(s) + 1
  <1>. DEFINE u == RemoveFirst(s, k)
              n == Len(u)
              t == Append(u, k)
  <1>1. /\ u \in Seq(S) /\ IsInjective(u) /\ ToSet(u) = ToSet(s) \ {k}
        /\ n = IF k \in ToSet(s) THEN Len(s) - 1 ELSE Len(s)
      BY RemoveFirstFacts
  <1>. HIDE DEF u
  <1>2. n \in Nat /\ DOMAIN u = 1 .. n /\ Len(s) \in Nat
      BY <1>1, LenProperties
  <1>3. /\ t \in Seq(S) /\ Len(t) = n + 1 /\ t[n + 1] = k
        /\ \A i \in 1 .. n : t[i] = u[i]
      BY <1>1, AppendProperties
  <1>4. DOMAIN t = 1 .. n + 1
      BY <1>3, LenProperties
  <1>. HIDE DEF t, n
  <1>5. \A i \in 1 .. n : u[i] \in ToSet(u) /\ u[i] # k
      BY <1>1, <1>2 DEF ToSet
  <1>6. IsInjective(t)
    <2>. SUFFICES ASSUME NEW i \in 1 .. n + 1, NEW j \in 1 .. n + 1, t[i] = t[j]
                  PROVE  i = j
        BY <1>4 DEF IsInjective
    <2>1. CASE i \in 1 .. n /\ j \in 1 .. n
        BY <1>1, <1>2, <1>3, <2>1 DEF IsInjective
    <2>2. CASE i = n + 1 \/ j = n + 1
        BY <1>2, <1>3, <1>5, <2>2
    <2>. QED
        BY <1>2, <2>1, <2>2
  <1>7. ToSet(t) = ToSet(s) \cup {k}
    <2>1. ASSUME NEW i \in 1 .. n + 1 PROVE t[i] \in ToSet(s) \cup {k}
      <3>1. CASE i = n + 1
          BY <1>3, <3>1
      <3>2. CASE i \in 1 .. n
          BY <1>1, <1>3, <1>5, <3>2, Zenon
      <3>. QED
          BY <1>2, <3>1, <3>2
    <2>2. \A v \in ToSet(u) : \E i \in 1 .. n : u[i] = v
        BY <1>2 DEF ToSet
    <2>3. \A i \in 1 .. n : i \in 1 .. n + 1
        BY <1>2
    <2>4. \A v \in ToSet(u) : \E i \in 1 .. n + 1 : t[i] = v
        BY <1>3, <2>2, <2>3, Zenon
    <2>5. \E i \in 1 .. n + 1 : t[i] = k
        BY <1>2, <1>3
    <2>6. ToSet(u) \cup {k} \subseteq ToSet(t)
        BY <1>4, <2>4, <2>5, Zenon DEF ToSet
    <2>7. ToSet(t) \subseteq ToSet(s) \cup {k}
        BY <1>4, <2>1 DEF ToSet
    <2>. QED
        BY <1>1, <2>6, <2>7
  <1>8. Len(t) = IF k \in ToSet(s) THEN Len(s) ELSE Len(s) + 1
      BY <1>1, <1>2, <1>3 DEF n
  <1>. QED
      BY <1>3, <1>6, <1>7, <1>8 DEF t, u

\* The order without its least recent key.
LEMMA TailFacts ==
  ASSUME NEW S, NEW s \in Seq(S), IsInjective(s), Len(s) > 0
  PROVE  /\ Tail(s) \in Seq(S) /\ IsInjective(Tail(s)) /\ Len(Tail(s)) = Len(s) - 1
         /\ ToSet(Tail(s)) = ToSet(s) \ {Head(s)}
  <1>. DEFINE n == Len(s)
              t == Tail(s)
  <1>0. n \in Nat /\ DOMAIN s = 1 .. n /\ s # << >>
      BY LenProperties, EmptySeq
  <1>1. Head(s) = s[1] /\ t \in Seq(S) /\ Len(t) = n - 1 /\ \A i \in 1 .. n - 1 : t[i] = s[i + 1]
      BY <1>0, HeadTailProperties
  <1>2. DOMAIN t = 1 .. n - 1
      BY <1>1, LenProperties
  <1>. HIDE DEF t
  <1>3. \A i, j \in 1 .. n : s[i] = s[j] => i = j
      BY <1>0 DEF IsInjective
  <1>a. n > 0
      OBVIOUS
  <1>. HIDE DEF n
  <1>4. IsInjective(t)
    <2>. SUFFICES ASSUME NEW i \in 1 .. n - 1, NEW j \in 1 .. n - 1, t[i] = t[j]
                  PROVE  i = j
        BY <1>2 DEF IsInjective
    <2>1. i + 1 \in 1 .. n /\ j + 1 \in 1 .. n /\ s[i + 1] = s[j + 1]
        BY <1>0, <1>1
    <2>2. i + 1 = j + 1
        BY <1>3, <2>1
    <2>. QED
        BY <1>0, <2>2
  <1>5. ToSet(t) \subseteq ToSet(s) \ {s[1]}
    <2>1. ASSUME NEW i \in 1 .. n - 1 PROVE t[i] \in ToSet(s) /\ t[i] # s[1]
      <3>1. i + 1 \in 1 .. n /\ 1 \in 1 .. n /\ i + 1 # 1
          BY <1>0, <1>a
      <3>2. t[i] = s[i + 1]
          BY <1>1
      <3>3. s[i + 1] # s[1]
          BY <1>3, <3>1
      <3>. QED
          BY <1>0, <3>1, <3>2, <3>3 DEF ToSet
    <2>. QED
        BY <1>2, <2>1 DEF ToSet
  <1>6. ToSet(s) \ {s[1]} \subseteq ToSet(t)
    <2>1. ASSUME NEW i \in 1 .. n, s[i] # s[1] PROVE \E j \in 1 .. n - 1 : t[j] = s[i]
      <3>1. i - 1 \in 1 .. n - 1 /\ (i - 1) + 1 = i
          BY <1>0, <2>1
      <3>2. t[i - 1] = s[(i - 1) + 1]
          BY <1>1, <3>1
      <3>. QED
          BY <3>1, <3>2
    <2>2. \A v \in ToSet(s) \ {s[1]} : \E i \in 1 .. n : s[i] = v /\ s[i] # s[1]
        BY <1>0 DEF ToSet
    <2>3. \A v \in ToSet(s) \ {s[1]} : \E j \in 1 .. n - 1 : t[j] = v
        BY <2>1, <2>2, Zenon
    <2>. QED
        BY <1>2, <2>3, Zenon DEF ToSet
  <1>. QED
      BY <1>1, <1>4, <1>5, <1>6 DEF t, n

\* The order lists the keys of the cache once each, and they fit in it.
LruInv ==
    /\ recent \in Seq(Keys) /\ IsInjective(recent) /\ ToSet(recent) = DOMAIN cache
    /\ Len(recent) <= CacheSize

\* The operations of the LRU keep that, whichever key they are about.
LEMMA DropOrder ==
  ASSUME LruInv, NEW k, Drop(k)
  PROVE  LruInv'
  <1>. DEFINE t == RemoveFirst(recent, k)
  <1>1. /\ t \in Seq(Keys) /\ IsInjective(t) /\ ToSet(t) = ToSet(recent) \ {k}
        /\ Len(t) \in {Len(recent), Len(recent) - 1}
      BY RemoveFirstFacts DEF LruInv
  <1>2. recent' = t /\ DOMAIN cache' = DOMAIN cache \ {k}
      BY DEF Drop
  <1>. HIDE DEF t
  <1>3. Len(t) <= CacheSize
      BY <1>1, LenProperties, TimesAssumption DEF LruInv
  <1>. QED
      BY <1>1, <1>2, <1>3 DEF LruInv, Keys

LEMMA TouchOrder ==
  ASSUME LruInv, NEW k \in DOMAIN cache, Touch(k), UNCHANGED cache
  PROVE  LruInv'
  <1>. DEFINE t == Append(RemoveFirst(recent, k), k)
  <1>0. k \in ToSet(recent) /\ k \in Keys
      BY LenProperties DEF LruInv, ToSet
  <1>1. /\ t \in Seq(Keys) /\ IsInjective(t) /\ ToSet(t) = ToSet(recent) \cup {k}
        /\ Len(t) = Len(recent)
      BY <1>0, AppendFacts DEF LruInv
  <1>2. recent' = t
      BY DEF Touch
  <1>. HIDE DEF t
  <1>. QED
      BY <1>0, <1>1, <1>2 DEF LruInv, Keys

LEMMA PutOrder ==
  ASSUME LruInv, NEW k \in Keys, NEW e, Put(k, e, CacheSize)
  PROVE  LruInv'
  <1>. DEFINE order == Append(RemoveFirst(recent, k), k)
  <1>1. /\ order \in Seq(Keys) /\ IsInjective(order) /\ ToSet(order) = DOMAIN cache \cup {k}
        /\ Len(order) \in {Len(recent), Len(recent) + 1}
      BY AppendFacts DEF LruInv
  <1>2. /\ recent' = IF Len(order) > CacheSize THEN Tail(order) ELSE order
        /\ DOMAIN cache' = (DOMAIN cache \cup {k})
                           \ (IF Len(order) > CacheSize THEN {Head(order)} ELSE {})
      BY DEF Put
  <1>. HIDE DEF order
  <1>3. Len(order) \in Nat /\ Len(order) <= CacheSize + 1 /\ CacheSize \in Nat
      BY <1>1, LenProperties, TimesAssumption DEF LruInv
  <1>4. CASE Len(order) > CacheSize
    <2>1. /\ Tail(order) \in Seq(Keys) /\ IsInjective(Tail(order))
          /\ Len(Tail(order)) = Len(order) - 1
          /\ ToSet(Tail(order)) = ToSet(order) \ {Head(order)}
        BY <1>1, <1>3, <1>4, TailFacts
    <2>2. Len(recent') <= CacheSize
        BY <1>2, <1>3, <1>4, <2>1
    <2>. QED
        BY <1>1, <1>2, <1>4, <2>1, <2>2 DEF LruInv, Keys
  <1>5. CASE ~(Len(order) > CacheSize)
    <2>1. Len(recent') <= CacheSize
        BY <1>2, <1>3, <1>5
    <2>. QED
        BY <1>1, <1>2, <1>5, <2>1 DEF LruInv, Keys
  <1>. QED
      BY <1>4, <1>5

TInv == /\ LruInv /\ valid \subseteq Creds
        /\ timers \in [Keys \X (0 .. authTTL) -> Nat]

LEMMA InitTInv == Init => TInv
  <1>. SUFFICES ASSUME Init PROVE TInv
      OBVIOUS
  <1>1. recent = << >> /\ DOMAIN cache = {} /\ valid \subseteq Creds
        /\ timers \in [Keys \X (0 .. authTTL) -> Nat]
      BY DEF Init
  <1>2. << >> \in Seq(Keys) /\ Len(<< >>) = 0
      BY EmptySeq
  <1>3. IsInjective(<< >>) /\ ToSet(<< >>) = {}
      BY DEF IsInjective, ToSet
  <1>4. 0 <= CacheSize
      BY TimesAssumption
  <1>. QED
      BY <1>1, <1>2, <1>3, <1>4 DEF TInv, LruInv

LEMMA NextTInv == IInv /\ TInv /\ [Next]_vars => TInv'
  <1>. SUFFICES ASSUME IInv, TInv, [Next]_vars PROVE TInv'
      OBVIOUS
  <1>a. /\ LruInv /\ valid \subseteq Creds /\ timers \in [Keys \X (0 .. authTTL) -> Nat]
        /\ req \in [Requests -> ReqStates]
        /\ authTTL \in Nat /\ unauthTTL \in 0 .. authTTL
      BY TimesAssumption DEF IInv, TInv
  <1>b. ASSUME UNCHANGED <<cache, recent>> PROVE LruInv'
      BY <1>a, <1>b DEF LruInv, Keys
  <1>c. \A c \in Creds : c.key \in Keys
      BY DEF Keys
  <1>1. CASE KeystoneChanges
      BY <1>1, <1>a, <1>b DEF KeystoneChanges, TInv, Keys
  <1>2. CASE Tick
    <2>1. \A t \in Keys \X (0 .. authTTL) : timers'[t] \in Nat
      <3>. SUFFICES ASSUME NEW k \in Keys, NEW n \in 0 .. authTTL
                    PROVE  timers'[<<k, n>>] \in Nat
          OBVIOUS
      <3>1. timers'[<<k, n>>] = (IF n = 0 THEN timers[<<k, n>>] ELSE 0)
                                + (IF n < authTTL THEN timers[<<k, n + 1>>] ELSE 0)
          BY <1>2, <1>a DEF Tick
      <3>2. timers[<<k, n>>] \in Nat /\ (n < authTTL => timers[<<k, n + 1>>] \in Nat)
          BY <1>a
      <3>. QED
          BY <3>1, <3>2
    <2>2. timers' \in [Keys \X (0 .. authTTL) -> Nat]
        BY <1>2, <1>a, <2>1 DEF Tick
    <2>3. DOMAIN cache' = DOMAIN cache /\ UNCHANGED <<recent, valid>>
        BY <1>2 DEF Tick
    <2>4. LruInv'
        BY <1>a, <2>3 DEF LruInv, Keys
    <2>. QED
        BY <1>a, <2>2, <2>3, <2>4 DEF TInv, Keys
  <1>3. ASSUME NEW k \in Keys, TimerFires(k) PROVE TInv'
    <2>1. LruInv'
        BY <1>3, <1>a, DropOrder DEF TimerFires
    <2>2. timers' \in [Keys \X (0 .. authTTL) -> Nat]
        BY <1>3, <1>a DEF TimerFires
    <2>. QED
        BY <1>3, <1>a, <2>1, <2>2 DEF TimerFires, TInv, Keys
  <1>4. ASSUME NEW r \in Requests, Lookup(r) PROVE TInv'
    <2>1. PICK c \in Creds : IF c.key \notin DOMAIN cache THEN UNCHANGED recent
                                                         ELSE Touch(c.key)
        BY <1>4 DEF Lookup
    <2>2. UNCHANGED <<valid, cache, timers>>
        BY <1>4 DEF Lookup
    <2>3. LruInv'
        BY <1>a, <1>b, <2>1, <2>2, TouchOrder
    <2>. QED
        BY <1>a, <2>2, <2>3 DEF TInv, Keys
  <1>5. ASSUME NEW r \in Requests, RemoveExpired(r) PROVE TInv'
    <2>1. LruInv'
        BY <1>5, <1>a, DropOrder DEF RemoveExpired
    <2>. QED
        BY <1>5, <1>a, <2>1 DEF RemoveExpired, TInv, Keys
  <1>6. ASSUME NEW r \in Requests, Fill(r) PROVE TInv'
    <2>. DEFINE c == req[r].cred
                ttl == IF req[r].auth THEN authTTL ELSE unauthTTL
    <2>1. PICK e : Put(c.key, e, CacheSize)
        BY <1>6 DEF Fill, Add
    <2>2. timers' = [timers EXCEPT ![<<c.key, ttl>>] = @ + 1] /\ UNCHANGED valid
        BY <1>6 DEF Fill, Add
    <2>3. c \in Creds
        BY <1>6, <1>a, ReqFacts DEF Fill
    <2>4. c.key \in Keys /\ ttl \in 0 .. authTTL
        BY <1>a, <1>c, <2>3
    <2>. HIDE DEF c, ttl
    <2>5. timers' \in [Keys \X (0 .. authTTL) -> Nat]
        BY <1>a, <2>2, <2>4
    <2>6. LruInv'
        BY <1>a, <2>1, <2>4, PutOrder
    <2>. QED
        BY <1>a, <2>2, <2>5, <2>6 DEF TInv, Keys
  <1>7. ASSUME NEW r \in Requests, AskKeystone(r) \/ FillWithoutCache(r) \/ Answered(r)
        PROVE  TInv'
      BY <1>7, <1>a, <1>b DEF AskKeystone, FillWithoutCache, Answered, TInv, Keys
  <1>8. CASE UNCHANGED vars
      BY <1>8, <1>a, <1>b DEF vars, TInv, Keys
  <1>. QED
      BY <1>1, <1>2, <1>3, <1>4, <1>5, <1>6, <1>7, <1>8 DEF Next, Serve

----------------------------------------------------------------------------
\* Every variable keeps its type; the order of the LRU lists the cached keys once
\* each, and no sequence of fills, evictions, expiries and timers makes them more
\* than the size of the cache.
THEOREM TypeCorrect == Spec => []TypeOK
  <1>1. ASSUME IInv, TInv PROVE TypeOK
    <2>1. \A k \in DOMAIN cache : cache[k] \in Entries
        BY <1>1 DEF IInv, CacheInv, EntryInv
    <2>2. DOMAIN cache \subseteq Keys
        BY <1>1, LenProperties DEF TInv, LruInv, ToSet
    <2>3. \A r \in Requests : req[r].pc \in {"idle", "remove", "ask", "fill", "done"}
        BY <1>1 DEF IInv, ReqStates
    <2>. QED
        BY <1>1, <2>1, <2>2, <2>3 DEF TInv, LruInv, TypeOK
  <1>. QED
      BY <1>1, InitIInv, NextIInv, InitTInv, NextTInv, PTL DEF Spec

\* An authenticated answer is about the request's own credentials and is no older
\* than authTTL and the time of a fill, for every cache and every load.
THEOREM Recent == Spec => []AuthenticatedIsRecent
  <1>1. IInv => AuthenticatedIsRecent
      BY DEF IInv
  <1>. QED
      BY <1>1, InitIInv, NextIInv, PTL DEF Spec
=============================================================================
