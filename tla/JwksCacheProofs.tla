--------------------------- MODULE JwksCacheProofs ---------------------------
(***************************************************************************)
(* What JwksCache promises for any threads, keys, tokens and TTL: the key  *)
(* set taken for fresh is recent, and withdrawn keys do not come back.     *)
(***************************************************************************)
EXTENDS JwksCache, TLAPS

\* A published key is not withdrawn, and no dropped key is published.
ProviderInv ==
  /\ \A k \in published : gone[k] = 0
  /\ \A k \in dropped : k \notin published

\* What the cache holds was published no longer ago than its age says, and the
\* cache holds no dropped key.
CacheInv ==
  \A k \in KeysOf(cached) : /\ k \in published \/ gone[k] <= age
                            /\ k \notin dropped

\* The same of a response under way, measured from the start of the request.
ResponseInv ==
  \A t \in Threads : pc[t] = "answered" =>
    \A k \in KeysOf(content[t]) : /\ k \in published \/ gone[k] <= fetchAge
                                  /\ k \notin dropped

Inv == TypeOK /\ ProviderInv /\ CacheInv /\ ResponseInv

\* One step of the clock moves elapsed times forward together.
LEMMA LaterMonotone ==
  ASSUME NEW d \in 0 .. TTL, NEW e \in 0 .. TTL
  PROVE  /\ Later(d) \in 0 .. TTL
         /\ d <= e => Later(d) <= Later(e)
BY TTLAssumption DEF Later

\* What null or a key set holds are key ids.
LEMMA KeysOfType ==
  ASSUME NEW c \in KeySet \cup {NoJwks}
  PROVE  KeysOf(c) \in SUBSET Keys
BY DEF KeysOf, KeySet

\* The provider's own JSON.
LEMMA JwksType ==
  ASSUME NEW set \in SUBSET Keys
  PROVE  Jwks(set) \in KeySet /\ Jwks(set) # NoJwks /\ KeysOf(Jwks(set)) = set
<1>1. Jwks(set) \in KeySet
  BY DEF Jwks, KeySet
<1>2. Jwks(set) # NoJwks
  BY <1>1, JwksAssumption
<1> QED
  BY <1>1, <1>2 DEF KeysOf, Jwks

LEMMA InitInv == Init => Inv
<1> SUFFICES ASSUME Init PROVE Inv
  OBVIOUS
<1>1. TypeOK
  <2>1. published \in SUBSET Keys /\ gone \in [Keys -> 0 .. TTL]
    BY TTLAssumption DEF Init
  <2>2. /\ jwks_url \in BOOLEAN
        /\ cached \in KeySet \cup {NoJwks}
        /\ jwks_url \/ cached # NoJwks
    BY JwksType DEF Init
  <2>3. age \in 0 .. TTL /\ fetchAge \in 0 .. TTL
    BY TTLAssumption DEF Init
  <2>4. /\ lock \in Threads \cup {NoThread} /\ dropped \in SUBSET Keys
        /\ content \in [Threads -> KeySet \cup {NoJwks}]
    BY DEF Init
  <2>5. /\ pc \in [Threads -> Done \cup {"waiting", "fetching", "answered", "select"}]
        /\ \A t \in Threads : pc[t] \in {"fetching", "answered"} <=> lock = t
        /\ lock = NoThread
    BY ThreadAssumption DEF Init, Done
  <2>6. token \in [Threads -> Tokens] /\ jwks \in [Threads -> KeySet \cup {NoJwks}]
    BY DEF Init
  <2> QED
    BY <2>1, <2>2, <2>3, <2>4, <2>5, <2>6 DEF TypeOK
<1>2. ProviderInv /\ ResponseInv
  BY DEF Init, ProviderInv, ResponseInv
<1>3. CacheInv
  <2>1. KeysOf(cached) \in {{}, published} /\ dropped = {}
    BY JwksType DEF Init, KeysOf
  <2> QED
    BY <2>1 DEF CacheInv
<1> QED
  BY <1>1, <1>2, <1>3 DEF Inv

LEMMA NextInv == Inv /\ [Next]_vars => Inv'
<1> SUFFICES ASSUME Inv, [Next]_vars PROVE Inv'
  OBVIOUS
<1> USE DEF Inv
<1>1. CASE Tick
  <2>1. TypeOK'
    <3>1. gone' \in [Keys -> 0 .. TTL]
      BY <1>1, LaterMonotone, TTLAssumption DEF Tick, TypeOK
    <3>2. age' \in 0 .. TTL /\ fetchAge' \in 0 .. TTL
      BY <1>1, LaterMonotone DEF Tick, TypeOK
    <3> QED
      BY <1>1, <3>1, <3>2 DEF Tick, TypeOK
  <2>2. ProviderInv'
    BY <1>1 DEF Tick, ProviderInv, TypeOK
  <2>3. CacheInv'
    <3> SUFFICES ASSUME NEW k \in KeysOf(cached)
                 PROVE  (k \in published \/ gone'[k] <= age') /\ k \notin dropped
      BY <1>1 DEF Tick, CacheInv
    <3>1. (k \in published \/ gone[k] <= age) /\ k \notin dropped
      BY DEF CacheInv
    <3>2. CASE k \notin published
      <4>1. k \in Keys /\ gone[k] \in 0 .. TTL /\ age \in 0 .. TTL
        BY KeysOfType DEF TypeOK
      <4>2. gone'[k] = Later(gone[k]) /\ age' = Later(age)
        BY <1>1, <3>2, <4>1 DEF Tick
      <4> QED
        BY <3>1, <3>2, <4>1, <4>2, LaterMonotone
    <3> QED
      BY <3>1, <3>2
  <2>4. ResponseInv'
    <3> SUFFICES ASSUME NEW t \in Threads, pc[t] = "answered", NEW k \in KeysOf(content[t])
                 PROVE  (k \in published \/ gone'[k] <= fetchAge') /\ k \notin dropped
      BY <1>1 DEF Tick, ResponseInv
    <3>1. (k \in published \/ gone[k] <= fetchAge) /\ k \notin dropped
      BY DEF ResponseInv
    <3>2. CASE k \notin published
      <4>1. k \in Keys /\ gone[k] \in 0 .. TTL /\ fetchAge \in 0 .. TTL
        BY KeysOfType DEF TypeOK
      <4>2. gone'[k] = Later(gone[k]) /\ fetchAge' = Later(fetchAge)
        BY <1>1, <3>2, <4>1 DEF Tick
      <4> QED
        BY <3>1, <3>2, <4>1, <4>2, LaterMonotone
    <3> QED
      BY <3>1, <3>2
  <2> QED
    BY <2>1, <2>2, <2>3, <2>4
<1>2. ASSUME NEW k \in Keys, Publish(k) PROVE Inv'
  <2>1. TypeOK'
    BY <1>2, TTLAssumption DEF Publish, TypeOK, callVars
  <2>2. ProviderInv'
    BY <1>2 DEF Publish, ProviderInv, TypeOK
  <2>3. CacheInv'
    BY <1>2, KeysOfType DEF Publish, CacheInv, TypeOK
  <2>4. ResponseInv'
    BY <1>2, KeysOfType DEF Publish, ResponseInv, TypeOK, callVars
  <2> QED
    BY <2>1, <2>2, <2>3, <2>4
<1>3. ASSUME NEW k \in Keys, Withdraw(k) PROVE Inv'
  <2>1. TypeOK'
    BY <1>3 DEF Withdraw, TypeOK, callVars, cacheVars
  <2>2. ProviderInv'
    BY <1>3 DEF Withdraw, ProviderInv, cacheVars
  <2>3. CacheInv'
    BY <1>3, KeysOfType DEF Withdraw, CacheInv, ProviderInv, TypeOK, cacheVars
  <2>4. ResponseInv'
    BY <1>3, KeysOfType DEF Withdraw, ResponseInv, ProviderInv, TypeOK, callVars, cacheVars
  <2> QED
    BY <2>1, <2>2, <2>3, <2>4
<1>4. ASSUME NEW t \in Threads, NEW tok \in Tokens, CallVerify(t, tok) PROVE Inv'
  <2>1. TypeOK'
    BY <1>4 DEF CallVerify, TypeOK, Done, idpVars, cacheVars
  <2>2. ProviderInv' /\ CacheInv'
    BY <1>4 DEF CallVerify, ProviderInv, CacheInv, idpVars, cacheVars
  <2>3. ResponseInv'
    BY <1>4 DEF CallVerify, ResponseInv, TypeOK, idpVars, cacheVars
  <2> QED
    BY <2>1, <2>2, <2>3
<1>5. ASSUME NEW t \in Threads, UseCached(t) PROVE Inv'
  <2>1. TypeOK'
    BY <1>5, ThreadAssumption DEF UseCached, Fresh, TypeOK, Done, idpVars, cacheVars
  <2>2. ProviderInv' /\ CacheInv'
    BY <1>5 DEF UseCached, ProviderInv, CacheInv, idpVars, cacheVars
  <2>3. ResponseInv'
    BY <1>5 DEF UseCached, ResponseInv, TypeOK, idpVars, cacheVars
  <2> QED
    BY <2>1, <2>2, <2>3
<1>6. ASSUME NEW t \in Threads, StartFetch(t) PROVE Inv'
  <2>1. TypeOK'
    BY <1>6, ThreadAssumption, TTLAssumption DEF StartFetch, TypeOK, Done, idpVars, cacheVars
  <2>2. ProviderInv' /\ CacheInv'
    BY <1>6 DEF StartFetch, ProviderInv, CacheInv, idpVars, cacheVars
  <2>3. ResponseInv'
    BY <1>6, ThreadAssumption DEF StartFetch, ResponseInv, TypeOK, idpVars, cacheVars
  <2> QED
    BY <2>1, <2>2, <2>3
<1>7. ASSUME NEW t \in Threads, Respond(t) \/ RespondGarbage(t) PROVE Inv'
  <2>0. PICK answer \in KeySet \cup {NoJwks} :
          KeysOf(answer) \subseteq published /\ content' = [content EXCEPT ![t] = answer]
    <3>1. CASE Respond(t)
      BY <3>1, JwksType DEF Respond, TypeOK
    <3>2. CASE RespondGarbage(t)
      <4>1. PICK answer \in {NoJwks, Jwks({})} \cup [form : {"other"}, keys : {published, {}}] :
              content' = [content EXCEPT ![t] = answer]
        BY <3>2 DEF RespondGarbage
      <4>2. CASE answer \in {NoJwks, Jwks({})}
        BY <4>1, <4>2, JwksType DEF KeysOf
      <4>3. CASE answer \in [form : {"other"}, keys : {published, {}}]
        <5>1. answer \in KeySet /\ answer.keys \subseteq published
          BY <4>3 DEF KeySet, TypeOK
        <5> QED
          BY <4>1, <5>1, JwksAssumption DEF KeysOf
      <4> QED
        BY <4>1, <4>2, <4>3
    <3> QED
      BY <1>7, <3>1, <3>2
  <2>1. KeysOf(content'[t]) \subseteq published
    BY <2>0 DEF TypeOK
  <2>2. TypeOK'
    BY <1>7, <2>0 DEF Respond, RespondGarbage, TypeOK, Done, idpVars, cacheVars
  <2>3. ProviderInv' /\ CacheInv'
    BY <1>7 DEF Respond, RespondGarbage, ProviderInv, CacheInv, idpVars, cacheVars
  <2>4. ResponseInv'
    <3> SUFFICES ASSUME NEW u \in Threads, pc'[u] = "answered", NEW k \in KeysOf(content'[u])
                 PROVE  (k \in published \/ gone[k] <= fetchAge) /\ k \notin dropped
      BY <1>7 DEF Respond, RespondGarbage, ResponseInv, idpVars, cacheVars
    <3>1. CASE u = t
      BY <2>1, <3>1 DEF ProviderInv
    <3>2. CASE u # t
      <4>1. pc[u] = "answered" /\ k \in KeysOf(content[u])
        BY <1>7, <2>0, <3>2 DEF Respond, RespondGarbage, TypeOK
      <4> QED
        BY <4>1 DEF ResponseInv
    <3> QED
      BY <3>1, <3>2
  <2> QED
    BY <2>2, <2>3, <2>4
<1>8. ASSUME NEW t \in Threads, FetchOk(t) PROVE Inv'
  <2>1. TypeOK'
    <3>1. dropped' \in SUBSET Keys
      BY <1>8, KeysOfType DEF FetchOk, TypeOK
    <3>2. lock = t /\ jwks_url
      BY <1>8, ThreadAssumption DEF FetchOk, TypeOK
    <3> QED
      BY <1>8, <3>1, <3>2, ThreadAssumption DEF FetchOk, TypeOK, Done, idpVars
  <2>2. \A k \in dropped' : k \notin published /\ k \notin KeysOf(content[t])
    BY <1>8 DEF FetchOk, ProviderInv, ResponseInv, TypeOK
  <2>3. ProviderInv'
    BY <1>8, <2>2 DEF FetchOk, ProviderInv, idpVars
  <2>4. CacheInv'
    BY <1>8, <2>2 DEF FetchOk, CacheInv, ResponseInv, idpVars
  <2>5. ResponseInv'
    BY <1>8 DEF FetchOk, ResponseInv, TypeOK
  <2> QED
    BY <2>1, <2>3, <2>4, <2>5
<1>9. ASSUME NEW t \in Threads, FetchFailStale(t) \/ FetchFail(t) PROVE Inv'
  <2>1. TypeOK'
    BY <1>9, ThreadAssumption
    DEF FetchFailStale, FetchFail, TypeOK, Done, idpVars, cacheVars
  <2>2. ProviderInv' /\ CacheInv'
    BY <1>9 DEF FetchFailStale, FetchFail, ProviderInv, CacheInv, idpVars, cacheVars
  <2>3. ResponseInv'
    BY <1>9 DEF FetchFailStale, FetchFail, ResponseInv, TypeOK, idpVars, cacheVars
  <2> QED
    BY <2>1, <2>2, <2>3
<1>10. ASSUME NEW t \in Threads, Accept(t) \/ Reject(t) \/ SelectRaises(t) PROVE Inv'
  <2>0. /\ pc[t] = "select"
        /\ Finish(t, "accepted") \/ Finish(t, "rejected") \/ Finish(t, "raised")
    BY <1>10 DEF Accept, Reject, SelectRaises
  <2>1. TypeOK'
    BY <2>0, ThreadAssumption DEF Finish, TypeOK, Done, idpVars, cacheVars
  <2>2. ProviderInv' /\ CacheInv'
    BY <2>0 DEF Finish, ProviderInv, CacheInv, idpVars, cacheVars
  <2>3. ResponseInv'
    BY <2>0 DEF Finish, ResponseInv, TypeOK, idpVars, cacheVars
  <2> QED
    BY <2>1, <2>2, <2>3
<1>11. CASE UNCHANGED vars
  <2>1. TypeOK'
    BY <1>11 DEF TypeOK, vars, idpVars, cacheVars, callVars
  <2>2. ProviderInv' /\ CacheInv' /\ ResponseInv'
    BY <1>11 DEF ProviderInv, CacheInv, ResponseInv, vars, idpVars, cacheVars, callVars
  <2> QED
    BY <2>1, <2>2
<1> QED
  BY <1>1, <1>2, <1>3, <1>4, <1>5, <1>6, <1>7, <1>8, <1>9, <1>10, <1>11 DEF Next, Step

LEMMA SpecInv == Spec => []Inv
BY InitInv, NextInv, PTL DEF Spec

\* The verifier's state keeps its types, and the lock belongs to the one thread
\* whose request is under way, in every execution of _get_jwks.
THEOREM JwksTypeOK == Spec => []TypeOK
<1>1. Inv => TypeOK
  BY DEF Inv
<1> QED
  BY <1>1, SpecInv, PTL

\* However long a request takes and however the provider rotates its keys, the
\* key set _get_jwks takes for fresh holds no key withdrawn a TTL or longer ago.
THEOREM JwksFreshKeysRecent == Spec => []FreshKeysRecent
<1>1. Inv => FreshKeysRecent
  <2> SUFFICES ASSUME Inv, Fresh, NEW k \in KeysOf(cached), k \notin published
               PROVE  gone[k] < TTL
    BY DEF FreshKeysRecent
  <2>1. gone[k] <= age /\ age < TTL
    BY DEF Inv, CacheInv, Fresh
  <2>2. gone[k] \in 0 .. TTL /\ age \in 0 .. TTL
    BY KeysOfType DEF Inv, TypeOK, Fresh
  <2> QED
    BY <2>1, <2>2, TTLAssumption
<1> QED
  BY <1>1, SpecInv, PTL

\* A withdrawn key that has left the cache never comes back while it stays
\* withdrawn, for any number of threads that refresh it.
THEOREM JwksNoResurrection == Spec => []NoResurrection
<1>1. Inv => NoResurrection
  BY DEF Inv, CacheInv, NoResurrection
<1> QED
  BY <1>1, SpecInv, PTL
=============================================================================
