----------------------- MODULE AutocompleteCacheProofs -----------------------
(* Theorems about AutocompleteCache, for any dictionaries, letters and requests. *)
EXTENDS AutocompleteCache, TLAPS

(***************************************************************************)
(* Sequences without duplicates                                            *)
(***************************************************************************)
\* Taking the head off a list without duplicates takes exactly one member off.
LEMMA HeadOff ==
  ASSUME NEW s \in Seq(Dicts), s # <<>>, IsInjective(s)
  PROVE  /\ Head(s) \in Dicts
         /\ Tail(s) \in Seq(Dicts)
         /\ IsInjective(Tail(s))
         /\ ToSet(Tail(s)) = ToSet(s) \ {Head(s)}
         /\ Head(s) \in ToSet(s)
<1>1. /\ Len(s) \in Nat /\ Len(s) > 0 /\ DOMAIN s = 1..Len(s)
      /\ Head(s) = s[1] /\ Tail(s) \in Seq(Dicts)
      /\ DOMAIN Tail(s) = 1..(Len(s) - 1)
      /\ \A i \in DOMAIN Tail(s) : Tail(s)[i] = s[i + 1]
  OBVIOUS
<1>2. Head(s) \in Dicts /\ Head(s) \in ToSet(s)
  BY <1>1 DEF ToSet
<1>3. IsInjective(Tail(s))
  BY <1>1 DEF IsInjective
<1>4. ASSUME NEW x \in ToSet(Tail(s)) PROVE x \in ToSet(s) \ {Head(s)}
  BY <1>1 DEF ToSet, IsInjective
<1>5. ASSUME NEW x \in ToSet(s), x # Head(s) PROVE x \in ToSet(Tail(s))
  <2>1. PICK i \in DOMAIN s : x = s[i]
    BY DEF ToSet
  <2>2. i \in 2..Len(s)
    BY <1>1, <1>5, <2>1
  <2>3. i - 1 \in DOMAIN Tail(s) /\ Tail(s)[i - 1] = x
    BY <1>1, <2>1, <2>2
  <2> QED
    BY <2>3 DEF ToSet
<1> QED
  BY <1>1, <1>2, <1>3, <1>4, <1>5

\* The lists of a request are sequences of dictionaries without duplicates.
LEMMA ListsOfDicts ==
  \A s \in DictLists : s \in Seq(Dicts) /\ IsInjective(s) /\ ToSet(s) \subseteq Dicts
<1> SUFFICES ASSUME NEW s \in DictLists
             PROVE  s \in Seq(Dicts) /\ IsInjective(s) /\ ToSet(s) \subseteq Dicts
  OBVIOUS
<1>1. PICK m \in 0..Cardinality(Dicts) : s \in [1..m -> Dicts]
  BY DEF DictLists, SeqOf
<1>2. m \in Nat
  BY <1>1
<1>3. s \in Seq(Dicts)
  BY <1>1, <1>2
<1>4. ToSet(s) \subseteq Dicts
  BY <1>1 DEF ToSet
<1> QED
  BY <1>3, <1>4 DEF DictLists

(***************************************************************************)
(* The invariant                                                           *)
(***************************************************************************)
\* Nothing is cached, taken or awaited at the start.
LEMMA InitCache == Init => CacheInv
<1> SUFFICES ASSUME Init PROVE CacheInv
  OBVIOUS
<1>1. TypeOK
  BY DEF Init, TypeOK, Promise
<1>2. CacheOwned /\ OwnersHold /\ TakenOwned /\ ShownArrived
  BY NoneAssumption DEF Init, CacheOwned, OwnersHold, TakenOwned, ShownArrived
<1>3. TodoTaken
  BY DEF Init, TodoTaken, IsInjective, ToSet
<1> QED
  BY <1>1, <1>2, <1>3 DEF CacheInv

\* Starting a request: it takes what is cached and owns what was missing.
LEMMA StartKeeps ==
  ASSUME CacheInv, NEW r \in Requests, NEW q \in Queries, NEW ds \in DictLists,
         Start(r, q, ds)
  PROVE  CacheInv'
<1> DEFINE missing == {d \in ToSet(ds) : cache[d][q] = None}
<1>1. ds \in Seq(Dicts) /\ IsInjective(ds) /\ ToSet(ds) \subseteq Dicts
  BY ListsOfDicts
<1>2. TypeOK /\ CacheOwned /\ OwnersHold /\ TakenOwned /\ ShownArrived /\ TodoTaken
  BY DEF CacheInv
<1>3. /\ query[r] = None /\ fetch[r] = "none" /\ \A d \in Dicts : taken[r][d] = None
      /\ todo[r] = <<>>
  BY <1>2 DEF Start, TodoTaken
<1>4. /\ query' = [query EXCEPT ![r] = q] /\ todo' = [todo EXCEPT ![r] = ds]
      /\ taken' = [taken EXCEPT ![r] =
           [d \in Dicts |-> IF d \in missing THEN r
                            ELSE IF d \in ToSet(ds) THEN cache[d][q] ELSE None]]
      /\ cache' = [d \in Dicts |-> IF d \in missing THEN [cache[d] EXCEPT ![q] = r]
                                   ELSE cache[d]]
      /\ fetch' = [fetch EXCEPT ![r] = IF missing = {} THEN "none" ELSE "pending"]
      /\ answered' = answered /\ shown' = shown
  BY DEF Start
<1>5. TypeOK'
  <2>1. query' \in [Requests -> Queries \cup {None}] /\ todo' \in [Requests -> Seq(Dicts)]
    BY <1>1, <1>2, <1>4 DEF TypeOK
  <2>2. [d \in Dicts |-> IF d \in missing THEN r ELSE IF d \in ToSet(ds) THEN cache[d][q] ELSE None]
          \in [Dicts -> Promise]
    BY <1>2 DEF TypeOK, Promise
  <2>3. taken' \in [Requests -> [Dicts -> Promise]]
    BY <1>2, <1>4, <2>2 DEF TypeOK
  <2>4. cache' \in [Dicts -> [Queries -> Promise]]
    BY <1>2, <1>4 DEF TypeOK, Promise
  <2>5. fetch' \in [Requests -> {"none", "pending", "ok", "failed"}]
    BY <1>2, <1>4 DEF TypeOK
  <2> QED
    BY <1>2, <1>4, <2>1, <2>3, <2>4, <2>5 DEF TypeOK
<1>6. /\ query'[r] = q /\ todo'[r] = ds
      /\ \A s \in Requests : s # r => /\ query'[s] = query[s] /\ todo'[s] = todo[s]
                                      /\ taken'[s] = taken[s] /\ fetch'[s] = fetch[s]
      /\ \A d \in Dicts : taken'[r][d] = IF d \in missing THEN r
                            ELSE IF d \in ToSet(ds) THEN cache[d][q] ELSE None
      /\ \A d \in Dicts, p \in Queries :
           cache'[d][p] = IF d \in missing /\ p = q THEN r ELSE cache[d][p]
      /\ fetch'[r] = IF missing = {} THEN "none" ELSE "pending"
  <2>1. /\ query'[r] = q /\ todo'[r] = ds
        /\ \A s \in Requests : s # r => query'[s] = query[s] /\ todo'[s] = todo[s]
    BY <1>2, <1>4 DEF TypeOK
  <2>2. \A s \in Requests : s # r => taken'[s] = taken[s] /\ fetch'[s] = fetch[s]
    BY <1>2, <1>4 DEF TypeOK
  <2>3. \A d \in Dicts : taken'[r][d] = IF d \in missing THEN r
                           ELSE IF d \in ToSet(ds) THEN cache[d][q] ELSE None
    BY <1>2, <1>4 DEF TypeOK
  <2>4. \A d \in Dicts, p \in Queries :
          cache'[d][p] = IF d \in missing /\ p = q THEN r ELSE cache[d][p]
    BY <1>2, <1>4 DEF TypeOK
  <2>5. fetch'[r] = IF missing = {} THEN "none" ELSE "pending"
    BY <1>2, <1>4 DEF TypeOK
  <2> QED
    BY <2>1, <2>2, <2>3, <2>4, <2>5
<1>7. \A d \in Dicts, p \in Queries : cache[d][p] # r /\ cache[d][p] \in Promise
  <2> SUFFICES ASSUME NEW d \in Dicts, NEW p \in Queries
               PROVE  cache[d][p] # r /\ cache[d][p] \in Promise
    OBVIOUS
  <2>1. cache[d][p] # None => query[cache[d][p]] = p
    BY <1>2 DEF CacheOwned
  <2>2. p # None /\ r # None
    BY NoneAssumption
  <2>3. cache[d][p] \in Promise
    BY <1>2 DEF TypeOK
  <2> QED
    BY <1>3, <2>1, <2>2, <2>3
<1>8. \A d \in Dicts : taken'[r][d] = r <=> d \in missing
  BY <1>6, <1>7, NoneAssumption
<1>10. \A s \in Requests, d \in Dicts : s # r => (Rejected(s, d)' <=> Rejected(s, d))
                                              /\ (Fulfilled(s, d)' <=> Fulfilled(s, d))
  BY <1>4, <1>6 DEF Rejected, Fulfilled
<1>11. CacheOwned'
  <2> SUFFICES ASSUME NEW d \in Dicts, NEW p \in Queries, cache'[d][p] # None
               PROVE  query'[cache'[d][p]] = p /\ taken'[cache'[d][p]][d] = cache'[d][p]
    BY DEF CacheOwned
  <2>1. CASE d \in missing /\ p = q
    BY <1>6, <2>1
  <2>2. CASE ~(d \in missing /\ p = q)
    <3>1. cache'[d][p] = cache[d][p] /\ cache[d][p] # None
      BY <1>6, <2>2
    <3>2. cache[d][p] \in Requests /\ cache[d][p] # r
      BY <1>7, <3>1 DEF Promise
    <3>3. query[cache[d][p]] = p /\ taken[cache[d][p]][d] = cache[d][p]
      BY <1>2, <3>1 DEF CacheOwned
    <3> QED
      BY <1>6, <3>1, <3>2, <3>3
  <2> QED
    BY <2>1, <2>2
<1>12. OwnersHold'
  <2> SUFFICES ASSUME NEW s \in Requests, NEW d \in Dicts, taken'[s][d] = s
               PROVE  /\ query'[s] \in Queries /\ fetch'[s] # "none"
                      /\ cache'[d][query'[s]] = s
                           \/ (Rejected(s, d)' /\ d \notin ToSet(todo'[s]))
    BY DEF OwnersHold
  <2>1. CASE s = r
    BY <1>6, <1>8, <2>1
  <2>2. CASE s # r
    <3>1. /\ query[s] \in Queries /\ fetch[s] # "none"
          /\ cache[d][query[s]] = s \/ (Rejected(s, d) /\ d \notin ToSet(todo[s]))
      BY <1>2, <1>6, <2>2 DEF OwnersHold
    <3>2. cache[d][query[s]] = s => cache'[d][query[s]] = s
      BY <1>6, <3>1, NoneAssumption
    <3> QED
      BY <1>6, <1>10, <2>2, <3>1, <3>2
  <2> QED
    BY <2>1, <2>2
<1>13. TakenOwned'
  <2> SUFFICES ASSUME NEW s \in Requests, NEW d \in Dicts, taken'[s][d] # None
               PROVE  /\ taken'[taken'[s][d]][d] = taken'[s][d]
                      /\ query'[taken'[s][d]] = query'[s]
    BY DEF TakenOwned
  <2>1. CASE s = r /\ d \in missing
    BY <1>6, <1>8, <2>1
  <2>2. CASE s = r /\ d \notin missing
    <3>1. taken'[r][d] = cache[d][q] /\ cache[d][q] # None
      BY <1>6, <2>2
    <3>2. cache[d][q] \in Requests /\ cache[d][q] # r
      BY <1>7, <3>1 DEF Promise
    <3>3. query[cache[d][q]] = q /\ taken[cache[d][q]][d] = cache[d][q]
      BY <1>2, <3>1 DEF CacheOwned
    <3> QED
      BY <1>6, <2>2, <3>1, <3>2, <3>3
  <2>3. CASE s # r
    <3>1. taken'[s][d] = taken[s][d] /\ taken[s][d] # None
      BY <1>6, <2>3
    <3>2. taken[s][d] \in Requests
      BY <1>2, <3>1 DEF TypeOK, Promise
    <3>3. taken[taken[s][d]][d] = taken[s][d] /\ query[taken[s][d]] = query[s]
      BY <1>2, <3>1 DEF TakenOwned
    <3>4. taken[s][d] # r
      BY <1>3, <3>2, <3>3, NoneAssumption
    <3> QED
      BY <1>6, <2>3, <3>1, <3>2, <3>3, <3>4
  <2> QED
    BY <2>1, <2>2, <2>3
<1>14. ShownArrived'
  <2> SUFFICES ASSUME NEW s \in Requests, NEW d \in Dicts, shown[s][d] # None
               PROVE  shown[s][d] = taken'[s][d] /\ Fulfilled(shown[s][d], d)'
    BY <1>4 DEF ShownArrived, Fulfilled
  <2>1. shown[s][d] = taken[s][d] /\ Fulfilled(taken[s][d], d)
    BY <1>2 DEF ShownArrived
  <2>2. s # r
    BY <1>3, <2>1
  <2>3. taken[s][d] \in Requests
    BY <1>2, <2>1 DEF TypeOK, Promise
  <2>4. taken[s][d] # r
    BY <1>3, <2>1 DEF Fulfilled
  <2>5. \A x : Fulfilled(x, d)' <=> fetch'[x] = "ok" /\ d \in answered'[x]
    BY DEF Fulfilled
  <2> QED
    BY <1>4, <1>6, <2>1, <2>2, <2>3, <2>4, <2>5 DEF Fulfilled
<1>15. TodoTaken'
  <2> SUFFICES ASSUME NEW s \in Requests
               PROVE  /\ IsInjective(todo'[s])
                      /\ \A d \in ToSet(todo'[s]) : taken'[s][d] # None
                      /\ query'[s] = None => todo'[s] = <<>> /\ fetch'[s] = "none"
                                             /\ \A d \in Dicts : taken'[s][d] = None
    BY DEF TodoTaken
  <2>1. CASE s = r
    <3>1. query'[s] # None
      BY <1>6, <2>1, NoneAssumption
    <3>2. \A d \in ToSet(ds) : taken'[r][d] # None
      BY <1>1, <1>6, NoneAssumption
    <3> QED
      BY <1>1, <1>6, <2>1, <3>1, <3>2
  <2>2. CASE s # r
    BY <1>2, <1>6, <2>2 DEF TodoTaken
  <2> QED
    BY <2>1, <2>2
<1> QED
  BY <1>5, <1>11, <1>12, <1>13, <1>14, <1>15 DEF CacheInv

\* An answer or a failure of a call settles its promises and changes nothing else.
LEMMA SettleKeeps ==
  ASSUME CacheInv, NEW r \in Requests, NEW ds \in SUBSET Dicts, Answer(r, ds) \/ Fail(r)
  PROVE  CacheInv'
<1>1. TypeOK /\ CacheOwned /\ OwnersHold /\ TakenOwned /\ ShownArrived /\ TodoTaken
  BY DEF CacheInv
<1>2. /\ fetch[r] = "pending" /\ UNCHANGED <<cache, query, todo, taken, shown>>
      /\ fetch'[r] \in {"ok", "failed"}
      /\ \A s \in Requests : s # r => fetch'[s] = fetch[s] /\ answered'[s] = answered[s]
  BY <1>1 DEF Answer, Fail, TypeOK
<1>3. TypeOK'
  BY <1>1 DEF Answer, Fail, TypeOK
<1>4. \A s \in Requests, d \in Dicts : /\ Rejected(s, d) => Rejected(s, d)'
                                      /\ Fulfilled(s, d) => Fulfilled(s, d)'
  BY <1>2 DEF Rejected, Fulfilled
<1>5. CacheOwned' /\ TakenOwned'
  <2>1. cache' = cache /\ query' = query /\ taken' = taken
    BY <1>2
  <2> QED
    BY <1>1, <2>1 DEF CacheOwned, TakenOwned
<1>6. OwnersHold'
  <2>0. cache' = cache /\ query' = query /\ taken' = taken
    BY <1>2
  <2> SUFFICES ASSUME NEW s \in Requests, NEW d \in Dicts, taken[s][d] = s
               PROVE  /\ query[s] \in Queries /\ fetch'[s] # "none"
                      /\ cache[d][query[s]] = s
                           \/ (Rejected(s, d)' /\ d \notin ToSet(todo'[s]))
    BY <2>0 DEF OwnersHold
  <2>1. /\ query[s] \in Queries /\ fetch[s] # "none"
        /\ cache[d][query[s]] = s \/ (Rejected(s, d) /\ d \notin ToSet(todo[s]))
    BY <1>1 DEF OwnersHold
  <2>2. fetch'[s] # "none" /\ (Rejected(s, d) => Rejected(s, d)')
    <3>1. fetch'[s] # "none"
      BY <1>2, <2>1
    <3>2. Rejected(s, d) => Rejected(s, d)'
      BY <1>2 DEF Rejected
    <3> QED
      BY <3>1, <3>2
  <2> QED
    BY <1>2, <2>1, <2>2
<1>7. ShownArrived'
  <2> SUFFICES ASSUME NEW s \in Requests, NEW d \in Dicts, shown[s][d] # None
               PROVE  shown[s][d] = taken[s][d] /\ Fulfilled(taken[s][d], d)'
    BY <1>2 DEF ShownArrived, Fulfilled
  <2>1. shown[s][d] = taken[s][d] /\ Fulfilled(taken[s][d], d) /\ taken[s][d] \in Requests
    BY <1>1 DEF ShownArrived, TypeOK, Promise
  <2> QED
    BY <1>2, <2>1 DEF Fulfilled
<1>8. TodoTaken'
  <2>1. query[r] # None
    BY <1>1, <1>2 DEF TodoTaken
  <2> QED
    BY <1>1, <1>2, <2>1 DEF TodoTaken
<1> QED
  BY <1>1, <1>3, <1>5, <1>6, <1>7, <1>8 DEF CacheInv

\* A fulfilled promise is shown.
LEMMA FulfilledKeeps ==
  ASSUME CacheInv, NEW r \in Requests, AwaitFulfilled(r)
  PROVE  CacheInv'
<1> DEFINE h == Head(todo[r])
<1>1. TypeOK /\ CacheOwned /\ OwnersHold /\ TakenOwned /\ ShownArrived /\ TodoTaken
  BY DEF CacheInv
<1>2. /\ h \in Dicts /\ Tail(todo[r]) \in Seq(Dicts) /\ IsInjective(Tail(todo[r]))
      /\ ToSet(Tail(todo[r])) = ToSet(todo[r]) \ {h} /\ h \in ToSet(todo[r])
  BY <1>1, HeadOff DEF AwaitFulfilled, TypeOK, TodoTaken
<1>3. /\ Fulfilled(taken[r][h], h) /\ taken[r][h] # None /\ taken[r][h] \in Promise
      /\ shown' = [shown EXCEPT ![r][h] = taken[r][h]]
      /\ todo' = [todo EXCEPT ![r] = Tail(todo[r])]
      /\ UNCHANGED <<cache, query, taken, fetch, answered>>
  BY <1>1, <1>2 DEF AwaitFulfilled, TodoTaken, TypeOK
<1>4. /\ shown'[r][h] = taken[r][h] /\ todo'[r] = Tail(todo[r])
      /\ \A s \in Requests, d \in Dicts : s # r \/ d # h => shown'[s][d] = shown[s][d]
      /\ \A s \in Requests : s # r => todo'[s] = todo[s]
      /\ \A s \in Requests : ToSet(todo'[s]) \subseteq ToSet(todo[s])
  BY <1>1, <1>2, <1>3 DEF TypeOK
<1>5. TypeOK'
  BY <1>1, <1>2, <1>3 DEF TypeOK
<1>6. CacheOwned' /\ TakenOwned'
  <2>1. cache' = cache /\ query' = query /\ taken' = taken
    BY <1>3
  <2> QED
    BY <1>1, <2>1 DEF CacheOwned, TakenOwned
<1>7. OwnersHold'
  <2>0. cache' = cache /\ query' = query /\ taken' = taken
    BY <1>3
  <2> SUFFICES ASSUME NEW s \in Requests, NEW d \in Dicts, taken[s][d] = s
               PROVE  /\ query[s] \in Queries /\ fetch'[s] # "none"
                      /\ cache[d][query[s]] = s
                           \/ (Rejected(s, d)' /\ d \notin ToSet(todo'[s]))
    BY <2>0 DEF OwnersHold
  <2>1. /\ query[s] \in Queries /\ fetch[s] # "none"
        /\ cache[d][query[s]] = s \/ (Rejected(s, d) /\ d \notin ToSet(todo[s]))
    BY <1>1 DEF OwnersHold
  <2>2. fetch'[s] # "none" /\ (Rejected(s, d) => Rejected(s, d)')
    BY <1>3, <2>1 DEF Rejected
  <2> QED
    BY <1>4, <2>1, <2>2
<1>8. ShownArrived'
  BY <1>1, <1>3, <1>4 DEF ShownArrived, Fulfilled
<1>9. TodoTaken'
  <2>1. todo[r] # <<>>
    BY DEF AwaitFulfilled
  <2> QED
    BY <1>1, <1>2, <1>3, <1>4, <2>1 DEF TodoTaken
<1> QED
  BY <1>5, <1>6, <1>7, <1>8, <1>9 DEF CacheInv

\* The owner of a rejected promise still has it in the cache, and evicts it.
LEMMA RejectedKeeps ==
  ASSUME CacheInv, NEW r \in Requests, AwaitRejected(r)
  PROVE  /\ CacheInv'
         /\ \A d \in Dicts, q \in Queries :
              (cache[d][q] # None /\ cache'[d][q] # cache[d][q]) =>
                cache'[d][q] = None /\ Rejected(cache[d][q], d)
<1> DEFINE h == Head(todo[r])
<1>1. TypeOK /\ CacheOwned /\ OwnersHold /\ TakenOwned /\ ShownArrived /\ TodoTaken
  BY DEF CacheInv
<1>2. /\ h \in Dicts /\ Tail(todo[r]) \in Seq(Dicts) /\ IsInjective(Tail(todo[r]))
      /\ ToSet(Tail(todo[r])) = ToSet(todo[r]) \ {h} /\ h \in ToSet(todo[r])
  BY <1>1, HeadOff DEF AwaitRejected, TypeOK, TodoTaken
<1>3. /\ Rejected(taken[r][h], h)
      /\ cache' = IF taken[r][h] = r THEN [cache EXCEPT ![h][query[r]] = None] ELSE cache
      /\ todo' = [todo EXCEPT ![r] = Tail(todo[r])]
      /\ UNCHANGED <<query, taken, fetch, answered, shown>>
  BY <1>2 DEF AwaitRejected, Missing
<1>4. /\ todo'[r] = Tail(todo[r])
      /\ \A s \in Requests : s # r => todo'[s] = todo[s]
      /\ \A s \in Requests : ToSet(todo'[s]) \subseteq ToSet(todo[s])
      /\ h \notin ToSet(todo'[r])
  BY <1>1, <1>2, <1>3 DEF TypeOK
<1>5. taken[r][h] = r => query[r] \in Queries /\ cache[h][query[r]] = r /\ Rejected(r, h)
  BY <1>1, <1>2, <1>3 DEF OwnersHold
<1>6. \A d \in Dicts, q \in Queries :
        cache'[d][q] = IF taken[r][h] = r /\ d = h /\ q = query[r] THEN None ELSE cache[d][q]
  BY <1>1, <1>2, <1>3 DEF TypeOK
<1>7. TypeOK'
  BY <1>1, <1>2, <1>3, <1>5 DEF TypeOK, Promise
<1>8. CacheOwned' /\ TakenOwned' /\ ShownArrived'
  BY <1>1, <1>3, <1>6 DEF CacheOwned, TakenOwned, ShownArrived, Fulfilled
<1>9. OwnersHold'
  <2> SUFFICES ASSUME NEW s \in Requests, NEW d \in Dicts, taken[s][d] = s
               PROVE  /\ query[s] \in Queries /\ fetch[s] # "none"
                      /\ cache'[d][query[s]] = s
                           \/ (Rejected(s, d) /\ d \notin ToSet(todo'[s]))
    BY <1>3 DEF OwnersHold, Rejected
  <2>1. /\ query[s] \in Queries /\ fetch[s] # "none"
        /\ cache[d][query[s]] = s \/ (Rejected(s, d) /\ d \notin ToSet(todo[s]))
    BY <1>1 DEF OwnersHold
  <2>2. CASE s = r /\ d = h
    BY <1>4, <1>5, <2>1, <2>2
  <2>3. CASE ~(s = r /\ d = h)
    <3>1. cache[d][query[s]] = s => cache'[d][query[s]] = s
      BY <1>5, <1>6, <2>1, <2>3
    <3> QED
      BY <1>4, <2>1, <3>1
  <2> QED
    BY <2>2, <2>3
<1>10. TodoTaken'
  <2>1. todo[r] # <<>>
    BY DEF AwaitRejected
  <2> QED
    BY <1>1, <1>2, <1>3, <1>4, <2>1 DEF TodoTaken
<1> QED
  BY <1>5, <1>6, <1>7, <1>8, <1>9, <1>10 DEF CacheInv

\* Every step keeps the invariant, and only a rejected promise leaves the cache.
LEMMA NextCache ==
  ASSUME CacheInv, [Next]_vars
  PROVE  /\ CacheInv'
         /\ \A d \in Dicts, q \in Queries :
              (cache[d][q] # None /\ cache'[d][q] # cache[d][q]) =>
                cache'[d][q] = None /\ Rejected(cache[d][q], d)
<1> DEFINE Evicts == \A d \in Dicts, q \in Queries :
                       (cache[d][q] # None /\ cache'[d][q] # cache[d][q]) =>
                         cache'[d][q] = None /\ Rejected(cache[d][q], d)
<1>1. ASSUME NEW r \in Requests, NEW q \in Queries, NEW ds \in DictLists, Start(r, q, ds)
      PROVE  CacheInv' /\ Evicts
  <2>1. Evicts
    BY <1>1 DEF Start, CacheInv, TypeOK
  <2> QED
    BY <1>1, <2>1, StartKeeps
<1>2. ASSUME NEW r \in Requests, NEW ds \in SUBSET Dicts, Answer(r, ds) \/ Fail(r)
      PROVE  CacheInv' /\ Evicts
  <2>1. Evicts
    BY <1>2 DEF Answer, Fail
  <2> QED
    BY <1>2, <2>1, SettleKeeps
<1>3. ASSUME NEW r \in Requests, AwaitFulfilled(r)
      PROVE  CacheInv' /\ Evicts
  <2>1. Evicts
    BY <1>3 DEF AwaitFulfilled
  <2> QED
    BY <1>3, <2>1, FulfilledKeeps
<1>4. ASSUME NEW r \in Requests, AwaitRejected(r)
      PROVE  CacheInv' /\ Evicts
  BY <1>4, RejectedKeeps
<1>5. CASE UNCHANGED vars
  <2>1. Evicts
    BY <1>5 DEF vars
  <2>2. CacheInv'
    BY <1>5 DEF vars, CacheInv, TypeOK, CacheOwned, OwnersHold, TakenOwned, ShownArrived,
                TodoTaken, Rejected, Fulfilled
  <2> QED
    BY <2>1, <2>2
<1> QED
  BY <1>1, <1>2, <1>3, <1>4, <1>5 DEF Next

(***************************************************************************)
(* The theorems                                                            *)
(***************************************************************************)
\* The invariant of the cache holds of every state.
LEMMA CacheInvariant == Spec => []CacheInv
BY InitCache, NextCache, PTL DEF Spec

\* Of two calls that ask for the same list one has failed: the second could be
\* made only after the first one's promise was evicted.
LEMMA OneFetch == CacheInv => OneFetchPerList
BY DEF CacheInv, OwnersHold, OneFetchPerList, Missing

\* Every variable of the fetcher keeps its type.
THEOREM CacheTypeCorrect == Spec => []TypeOK
BY CacheInvariant, PTL DEF CacheInv

\* The page never sees two different completion lists for one dictionary and
\* letter (the promises in perDictCache are shared, and never replaced while
\* they may still be fulfilled).
THEOREM ListsAgree == Spec => []AnswersAgree
<1>1. CacheInv => AnswersAgree
  <2> SUFFICES ASSUME CacheInv, NEW r \in Requests, NEW s \in Requests, NEW d \in Dicts,
                      query[r] = query[s], shown[r][d] # None, shown[s][d] # None
               PROVE  shown[r][d] = shown[s][d]
    BY DEF AnswersAgree
  <2> DEFINE p == shown[r][d]
             o == shown[s][d]
  <2>1. /\ p = taken[r][d] /\ Fulfilled(p, d) /\ p \in Requests
        /\ o = taken[s][d] /\ Fulfilled(o, d) /\ o \in Requests
    BY DEF CacheInv, ShownArrived, TypeOK, Promise
  <2>2. /\ taken[p][d] = p /\ query[p] = query[r]
        /\ taken[o][d] = o /\ query[o] = query[s]
    BY <2>1 DEF CacheInv, TakenOwned
  <2>3. ~Rejected(p, d) /\ ~Rejected(o, d)
    BY <2>1 DEF Fulfilled, Rejected
  <2> QED
    BY <2>1, <2>2, <2>3 DEF CacheInv, OwnersHold
<1> QED
  BY <1>1, CacheInvariant, PTL

\* At most one of the calls for the same list has not failed.
THEOREM FetchedOnce == Spec => []OneFetchPerList
BY CacheInvariant, OneFetch, PTL

\* The unconditional `delete` of a request never hits a promise that another
\* request put into the cache meanwhile.
THEOREM EvictionIsSafe == Spec => EvictsOnlyRejected
<1> DEFINE Evicts == \A d \in Dicts, q \in Queries :
                       (cache[d][q] # None /\ cache'[d][q] # cache[d][q]) =>
                         cache'[d][q] = None /\ Rejected(cache[d][q], d)
<1>1. CacheInv /\ [Next]_vars => [Evicts]_vars
  BY NextCache
<1> QED
  BY <1>1, CacheInvariant, PTL DEF Spec, EvictsOnlyRejected

=============================================================================
