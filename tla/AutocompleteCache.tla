-------------------------- MODULE AutocompleteCache --------------------------
(***************************************************************************)
(* FusedAutocompleteFetcher: the page's cache of autocompletion lists, one *)
(* promise per dictionary and first letter.  A request fetches, in ONE     *)
(* call, the dictionaries it finds missing, caches a promise for each of   *)
(* them before the call is answered, and then awaits all its promises one  *)
(* after the other, evicting those of its own that were rejected.          *)
(*                                                                         *)
(* A promise is named by the request that created it: a request creates at *)
(* most one for each dictionary.  Requests whose query begins with "-" do  *)
(* not touch the cache and are not part of this module.                    *)
(***************************************************************************)
EXTENDS Naturals, Sequences, FiniteSets, SequencesExt

CONSTANTS
  Dicts,      \* the dictionaries
  Queries,    \* the first letters
  Requests,   \* calls of getOptions
  None        \* JavaScript's undefined

ASSUME NoneAssumption == None \notin Requests \cup Queries

\* The dictionaries of a request, in the order of its loop; no duplicates.
DictLists == {s \in SeqOf(Dicts, Cardinality(Dicts)) : s # <<>> /\ IsInjective(s)}

VARIABLES
  cache,    \* perDictCache: the promise of every dictionary and letter
  query,    \* the letter a request asks for
  todo,     \* the dictionaries a request has not awaited yet, in order
  taken,    \* the promise a request awaits for a dictionary
  fetch,    \* the state of a request's own call of the server
  answered, \* the dictionaries of which that call brought a list
  shown     \* the promise whose list a request returns for a dictionary;
            \* None stands for the empty list

vars == <<cache, query, todo, taken, fetch, answered, shown>>

\* The promises r created itself, and the settled promise states.
Missing(r) == {d \in Dicts : taken[r][d] = r}
Fulfilled(p, d) == fetch[p] = "ok" /\ d \in answered[p]
Rejected(p, d) == fetch[p] = "failed" \/ (fetch[p] = "ok" /\ d \notin answered[p])

Init ==
  /\ cache = [d \in Dicts |-> [q \in Queries |-> None]]
  /\ query = [r \in Requests |-> None]
  /\ todo = [r \in Requests |-> <<>>]
  /\ taken = [r \in Requests |-> [d \in Dicts |-> None]]
  /\ fetch = [r \in Requests |-> "none"]
  /\ answered = [r \in Requests |-> {}]
  /\ shown = [r \in Requests |-> [d \in Dicts |-> None]]

\* Mutant: the cached promises are not looked up.
StartRefetching(r, q, ds) ==
  /\ query[r] = None
  /\ query' = [query EXCEPT ![r] = q]
  /\ todo' = [todo EXCEPT ![r] = ds]
  /\ taken' = [taken EXCEPT ![r] = [d \in Dicts |-> IF d \in ToSet(ds) THEN r ELSE None]]
  /\ cache' = [d \in Dicts |-> IF d \in ToSet(ds) THEN [cache[d] EXCEPT ![q] = r] ELSE cache[d]]
  /\ fetch' = [fetch EXCEPT ![r] = "pending"]
  /\ UNCHANGED <<answered, shown>>

\* Mutant: the response keeps the raw promise of a dictionary that is missing.
StartUncleared(r, q, ds) ==
  /\ query[r] = None
  /\ query' = [query EXCEPT ![r] = q]
  /\ todo' = [todo EXCEPT ![r] = ds]
  /\ taken' = [taken EXCEPT ![r] = [d \in ToSet(ds) |-> cache[d][q]]]
  /\ fetch' = [fetch EXCEPT ![r] = "none"]
  /\ UNCHANGED <<cache, answered, shown>>

\* getOptions up to its first await: the cached promises are taken, and a new
\* promise is cached for every dictionary that had none.
Start(r, q, ds) ==
  LET missing == {d \in ToSet(ds) : cache[d][q] = None}
  IN
  /\ query[r] = None
  /\ query' = [query EXCEPT ![r] = q]
  /\ todo' = [todo EXCEPT ![r] = ds]
  /\ taken' = [taken EXCEPT ![r] =
       [d \in Dicts |-> IF d \in missing THEN r
                        ELSE IF d \in ToSet(ds) THEN cache[d][q] ELSE None]]
  /\ cache' = [d \in Dicts |-> IF d \in missing THEN [cache[d] EXCEPT ![q] = r] ELSE cache[d]]
  /\ fetch' = [fetch EXCEPT ![r] = IF missing = {} THEN "none" ELSE "pending"]
  /\ UNCHANGED <<answered, shown>>

\* The call is answered, perhaps without the dictionaries that failed on the
\* server (FusedDictionary leaves them out).
Answer(r, ds) ==
  /\ fetch[r] = "pending"
  /\ ds \subseteq Missing(r)
  /\ fetch' = [fetch EXCEPT ![r] = "ok"]
  /\ answered' = [answered EXCEPT ![r] = ds]
  /\ UNCHANGED <<cache, query, todo, taken, shown>>

\* The call fails: no network, a status that is not ok, an undecodable body.
Fail(r) ==
  /\ fetch[r] = "pending"
  /\ fetch' = [fetch EXCEPT ![r] = "failed"]
  /\ UNCHANGED <<cache, query, todo, taken, answered, shown>>

\* Mutant: the promise is removed from the cache once it has been used.
AwaitFulfilledEvicts(r) ==
  LET d == Head(todo[r]) IN
  /\ todo[r] # <<>>
  /\ Fulfilled(taken[r][d], d)
  /\ cache' = [cache EXCEPT ![d][query[r]] = None]
  /\ shown' = [shown EXCEPT ![r][d] = taken[r][d]]
  /\ todo' = [todo EXCEPT ![r] = Tail(@)]
  /\ UNCHANGED <<query, taken, fetch, answered>>

\* One turn of the loop whose promise was fulfilled.
AwaitFulfilled(r) ==
  LET d == Head(todo[r]) IN
  /\ todo[r] # <<>>
  /\ Fulfilled(taken[r][d], d)
  /\ shown' = [shown EXCEPT ![r][d] = taken[r][d]]
  /\ todo' = [todo EXCEPT ![r] = Tail(@)]
  /\ UNCHANGED <<cache, query, taken, fetch, answered>>

\* Mutant: any request evicts what it saw rejected.
AwaitRejectedEvicts(r) ==
  LET d == Head(todo[r]) IN
  /\ todo[r] # <<>>
  /\ Rejected(taken[r][d], d)
  /\ cache' = [cache EXCEPT ![d][query[r]] = None]
  /\ todo' = [todo EXCEPT ![r] = Tail(@)]
  /\ UNCHANGED <<query, taken, fetch, answered, shown>>

\* Mutant: a rejected promise stays in the cache.
AwaitRejectedKeeps(r) ==
  /\ todo[r] # <<>>
  /\ Rejected(taken[r][Head(todo[r])], Head(todo[r]))
  /\ todo' = [todo EXCEPT ![r] = Tail(@)]
  /\ UNCHANGED <<cache, query, taken, fetch, answered, shown>>

\* Mutant: the rejection of another request's promise is not caught.
AwaitRejectedThrows(r) ==
  LET d == Head(todo[r]) IN
  /\ todo[r] # <<>>
  /\ Rejected(taken[r][d], d)
  /\ d \in Missing(r)
  /\ cache' = [cache EXCEPT ![d][query[r]] = None]
  /\ todo' = [todo EXCEPT ![r] = Tail(@)]
  /\ UNCHANGED <<query, taken, fetch, answered, shown>>

\* One turn of the loop whose promise was rejected: the request returns the
\* empty list, and evicts the promise if it is one of its own.
AwaitRejected(r) ==
  LET d == Head(todo[r]) IN
  /\ todo[r] # <<>>
  /\ Rejected(taken[r][d], d)
  /\ cache' = IF d \in Missing(r) THEN [cache EXCEPT ![d][query[r]] = None] ELSE cache
  /\ todo' = [todo EXCEPT ![r] = Tail(@)]
  /\ UNCHANGED <<query, taken, fetch, answered, shown>>

Next ==
  \/ \E r \in Requests, q \in Queries, ds \in DictLists : Start(r, q, ds)
  \/ \E r \in Requests, ds \in SUBSET Dicts : Answer(r, ds)
  \/ \E r \in Requests : Fail(r) \/ AwaitFulfilled(r) \/ AwaitRejected(r)

\* The browser ends every call, and runs the continuation of a settled promise.
Fairness ==
  \A r \in Requests :
    /\ WF_vars(Fail(r) \/ \E ds \in SUBSET Dicts : Answer(r, ds))
    /\ WF_vars(AwaitFulfilled(r) \/ AwaitRejected(r))

Spec == Init /\ [][Next]_vars
FairSpec == Spec /\ Fairness

(***************************************************************************)
(* Properties                                                              *)
(***************************************************************************)
Promise == Requests \cup {None}

\* Every variable has its type (fused_autocomplete_fetcher.ts:15-96).
TypeOK ==
  /\ cache \in [Dicts -> [Queries -> Promise]]
  /\ query \in [Requests -> Queries \cup {None}]
  /\ todo \in [Requests -> Seq(Dicts)]
  /\ taken \in [Requests -> [Dicts -> Promise]]
  /\ fetch \in [Requests -> {"none", "pending", "ok", "failed"}]
  /\ answered \in [Requests -> SUBSET Dicts]
  /\ shown \in [Requests -> [Dicts -> Promise]]

\* Two requests for the same letter never bring different lists for the same
\* dictionary to the page, whatever fails in between: once a list has arrived
\* it is never asked for again, and while it is on its way neither.
AnswersAgree ==
  \A r, s \in Requests, d \in Dicts :
    /\ query[r] = query[s]
    /\ shown[r][d] # None
    /\ shown[s][d] # None
    => shown[r][d] = shown[s][d]

\* Of the calls that ask for the same list, all but one have failed.
OneFetchPerList ==
  \A r, s \in Requests, d \in Dicts :
    /\ r # s /\ query[r] = query[s]
    /\ d \in Missing(r) /\ d \in Missing(s)
    => Rejected(r, d) \/ Rejected(s, d)

\* Eviction hits only rejected promises: `delete` does not look at what it
\* deletes, so this is about which requests call it and when.
EvictsOnlyRejected ==
  [][\A d \in Dicts, q \in Queries :
       (cache[d][q] # None /\ cache'[d][q] # cache[d][q]) =>
         cache'[d][q] = None /\ Rejected(cache[d][q], d)]_vars

\* A rejected promise does not stay: the dictionary can be completed again
\* without a reload of the page.
RejectedIsEvicted ==
  \A d \in Dicts, q \in Queries, p \in Requests :
    (cache[d][q] = p /\ Rejected(p, d)) ~> cache[d][q] # p

\* Every request ends, also when the promise it awaits belongs to another one.
EveryRequestEnds == \A r \in Requests : todo[r] # <<>> ~> todo[r] = <<>>

(***************************************************************************)
(* The inductive invariant, proved in AutocompleteCacheProofs              *)
(***************************************************************************)
\* A cached promise is one its request created, for that letter.
CacheOwned ==
  \A d \in Dicts, q \in Queries :
    cache[d][q] # None => query[cache[d][q]] = q /\ taken[cache[d][q]][d] = cache[d][q]

\* A promise of r stays in its place until r has seen it rejected.
OwnersHold ==
  \A r \in Requests, d \in Dicts : taken[r][d] = r =>
    /\ query[r] \in Queries
    /\ fetch[r] # "none"
    /\ cache[d][query[r]] = r \/ (Rejected(r, d) /\ d \notin ToSet(todo[r]))

\* Awaited promises were created for the same letter and dictionary.
TakenOwned ==
  \A r \in Requests, d \in Dicts :
    taken[r][d] # None => /\ taken[taken[r][d]][d] = taken[r][d]
                          /\ query[taken[r][d]] = query[r]

\* What is shown arrived; what is still to be awaited was taken, and only once.
ShownArrived ==
  \A r \in Requests, d \in Dicts :
    shown[r][d] # None => shown[r][d] = taken[r][d] /\ Fulfilled(taken[r][d], d)

TodoTaken ==
  \A r \in Requests :
    /\ IsInjective(todo[r])
    /\ \A d \in ToSet(todo[r]) : taken[r][d] # None
    /\ query[r] = None => todo[r] = <<>> /\ fetch[r] = "none"
                          /\ \A d \in Dicts : taken[r][d] = None

CacheInv ==
  TypeOK /\ CacheOwned /\ OwnersHold /\ TakenOwned /\ ShownArrived /\ TodoTaken

==============================================================================
