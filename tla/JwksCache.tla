------------------------------ MODULE JwksCache ------------------------------
(***************************************************************************)
(* RealOIDCVerifier.verify of auth/oidc.py: worker threads verify bearer   *)
(* tokens against a key set that _get_jwks caches for a TTL, refreshes     *)
(* from the identity provider while holding the lock, and serves stale     *)
(* when the refresh fails.                                                 *)
(*                                                                         *)
(* Time is kept as elapsed times that saturate at the TTL, so nothing in   *)
(* the model bounds how long the server runs.  A 200 answer holds JSON     *)
(* null or a KeySet: a JSON object with the key ids in it, or JSON of      *)
(* another shape (a bare array of keys, an object whose "keys" are not key *)
(* objects), which _get_jwks caches all the same.  A token names the key   *)
(* that signed it, another key, or none; "sound" stands for everything     *)
(* else that decode() and validate() look at                               *)
(* (signature bytes, algorithm, iss, aud, exp, nbf, sub).                  *)
(***************************************************************************)
EXTENDS Integers

CONSTANTS
  Threads,    \* threads that call verify()
  Keys,       \* key ids the identity provider may publish
  Tokens,     \* the tokens clients send
  TTL,        \* cache_ttl_seconds, in steps of the clock
  NoThread,   \* nobody holds the lock
  NoJwks,     \* None: nothing cached, or the JSON null of an answer
  NoKid       \* the token header names no key

ASSUME TTLAssumption == TTL \in Nat \ {0}
ASSUME ThreadAssumption == NoThread \notin Threads

KeySet == [form : {"object", "other"}, keys : SUBSET Keys]

ASSUME JwksAssumption == NoJwks \notin KeySet

ASSUME KidAssumption == NoKid \notin Keys

Token == [signer : Keys, kid : Keys \cup {NoKid}, sound : BOOLEAN]

ASSUME TokenAssumption == Tokens \subseteq Token

VARIABLES
  published,  \* the keys the identity provider publishes now
  gone,       \* time since a key was withdrawn, 0 while it is published
  jwks_url,   \* is a JWKS URL configured
  cached,     \* _cached_jwks
  age,        \* time.monotonic() - _cached_at
  lock,       \* _lock
  fetchAge,   \* time since the lock holder read "now"
  content,    \* the response on its way to each thread
  pc,         \* where each thread is in verify(), or how its last call ended
  token,      \* verify's parameter
  jwks,       \* verify's local: what _get_jwks returned
  dropped     \* auxiliary: withdrawn keys the cache once held and let go

idpVars == <<published, gone>>
cacheVars == <<cached, age, dropped>>
callVars == <<lock, fetchAge, content, pc, token, jwks>>
vars == <<idpVars, jwks_url, cacheVars, callVars>>

\* How a thread's latest verify() ended.
Done == {"idle", "accepted", "rejected", "unavailable", "raised"}

Jwks(set) == [form |-> "object", keys |-> set]

KeysOf(c) == IF c = NoJwks THEN {} ELSE c.keys

Later(d) == IF d < TTL THEN d + 1 ELSE TTL
-----------------------------------------------------------------------------
\* The constructor refuses to start with neither a URL nor a key set.  A key
\* set given to it is the one the provider publishes at that time.
Init ==
  /\ published \in SUBSET Keys
  /\ gone = [k \in Keys |-> IF k \in published THEN 0 ELSE TTL]
  /\ jwks_url \in BOOLEAN
  /\ cached \in {Jwks(published), NoJwks}
  /\ jwks_url \/ cached # NoJwks
  /\ age = 0
  /\ lock = NoThread
  /\ fetchAge = 0
  /\ content = [t \in Threads |-> NoJwks]
  /\ pc = [t \in Threads |-> "idle"]
  /\ token \in [Threads -> Tokens]
  /\ jwks = [t \in Threads |-> NoJwks]
  /\ dropped = {}

Tick ==
  /\ gone' = [k \in Keys |-> IF k \in published THEN 0 ELSE Later(gone[k])]
  /\ age' = Later(age)
  /\ fetchAge' = Later(fetchAge)
  /\ UNCHANGED <<published, jwks_url, cached, dropped, lock, content, pc, token,
                 jwks>>

\* The identity provider rotates its keys.
Publish(k) ==
  /\ k \notin published
  /\ published' = published \cup {k}
  /\ gone' = [gone EXCEPT ![k] = 0]
  /\ dropped' = dropped \ {k}
  /\ UNCHANGED <<jwks_url, cached, age, callVars>>

Withdraw(k) ==
  /\ k \in published
  /\ published' = published \ {k}
  /\ UNCHANGED <<gone, jwks_url, cacheVars, callVars>>

CallVerify(t, tok) ==
  /\ pc[t] \in Done
  /\ pc' = [pc EXCEPT ![t] = "waiting"]
  /\ token' = [token EXCEPT ![t] = tok]
  /\ UNCHANGED <<idpVars, jwks_url, cacheVars, lock, fetchAge, content, jwks>>

\* (now - self._cached_at) < self._ttl
Fresh == cached # NoJwks /\ age < TTL

\* _get_jwks takes the lock and returns the cached set.
UseCached(t) ==
  /\ pc[t] = "waiting"
  /\ lock = NoThread
  /\ Fresh \/ ~jwks_url
  /\ jwks' = [jwks EXCEPT ![t] = cached]
  /\ pc' = [pc EXCEPT ![t] = "select"]
  /\ UNCHANGED <<idpVars, jwks_url, cacheVars, lock, fetchAge, content, token>>

\* A mutation of StartFetch: the lock is not held over the request.
StartFetchUnlocked(t) ==
  /\ pc[t] = "waiting"
  /\ ~Fresh
  /\ jwks_url
  /\ lock' = t
  /\ fetchAge' = 0
  /\ pc' = [pc EXCEPT ![t] = "fetching"]
  /\ UNCHANGED <<idpVars, jwks_url, cacheVars, content, token, jwks>>

\* _get_jwks takes the lock, reads now, and sends the request with the lock held.
StartFetch(t) ==
  /\ pc[t] = "waiting"
  /\ lock = NoThread
  /\ ~Fresh
  /\ jwks_url
  /\ lock' = t
  /\ fetchAge' = 0
  /\ pc' = [pc EXCEPT ![t] = "fetching"]
  /\ UNCHANGED <<idpVars, jwks_url, cacheVars, content, token, jwks>>

\* The identity provider answers with the keys it publishes at this moment.
Respond(t) ==
  /\ pc[t] = "fetching"
  /\ content' = [content EXCEPT ![t] = Jwks(published)]
  /\ pc' = [pc EXCEPT ![t] = "answered"]
  /\ UNCHANGED <<idpVars, jwks_url, cacheVars, lock, fetchAge, token, jwks>>

\* It, or a proxy, answers 200 with other JSON: null, an object without keys, an
\* array of the keys, or members that are no keys.
RespondGarbage(t) ==
  /\ pc[t] = "fetching"
  /\ \E answer \in {NoJwks, Jwks({})} \cup [form : {"other"}, keys : {published, {}}] :
       content' = [content EXCEPT ![t] = answer]
  /\ pc' = [pc EXCEPT ![t] = "answered"]
  /\ UNCHANGED <<idpVars, jwks_url, cacheVars, lock, fetchAge, token, jwks>>

\* A mutation of FetchOk: _cached_at is stamped when the response arrives.
FetchOkStampedLate(t) ==
  /\ pc[t] = "answered"
  /\ cached' = content[t]
  /\ age' = 0
  /\ dropped' = dropped \cup
       (KeysOf(cached) \ (KeysOf(content[t]) \cup published))
  /\ jwks' = [jwks EXCEPT ![t] = content[t]]
  /\ content' = [content EXCEPT ![t] = NoJwks]
  /\ lock' = NoThread
  /\ pc' = [pc EXCEPT ![t] = "select"]
  /\ UNCHANGED <<idpVars, jwks_url, fetchAge, token>>

\* A mutation of FetchOk: the response is used and not kept.
FetchOkNotKept(t) ==
  /\ pc[t] = "answered"
  /\ jwks' = [jwks EXCEPT ![t] = content[t]]
  /\ content' = [content EXCEPT ![t] = NoJwks]
  /\ lock' = NoThread
  /\ pc' = [pc EXCEPT ![t] = "select"]
  /\ UNCHANGED <<idpVars, jwks_url, cacheVars, fetchAge, token>>

\* _cached_jwks is replaced, and _cached_at is the time BEFORE the request.
FetchOk(t) ==
  /\ pc[t] = "answered"
  /\ cached' = content[t]
  /\ age' = fetchAge
  /\ dropped' = dropped \cup
       (KeysOf(cached) \ (KeysOf(content[t]) \cup published))
  /\ jwks' = [jwks EXCEPT ![t] = content[t]]
  /\ content' = [content EXCEPT ![t] = NoJwks]
  /\ lock' = NoThread
  /\ pc' = [pc EXCEPT ![t] = "select"]
  /\ UNCHANGED <<idpVars, jwks_url, fetchAge, token>>

\* The request fails (connection, timeout, HTTP status, not JSON) and a key
\* set is cached, however old: it is served.  _cached_at is left alone.
FetchFailStale(t) ==
  /\ pc[t] = "fetching"
  /\ cached # NoJwks
  /\ jwks' = [jwks EXCEPT ![t] = cached]
  /\ lock' = NoThread
  /\ pc' = [pc EXCEPT ![t] = "select"]
  /\ UNCHANGED <<idpVars, jwks_url, cacheVars, fetchAge, content, token>>

\* A mutation of FetchFail: the exception leaves the lock held.
FetchFailLocked(t) ==
  /\ pc[t] = "fetching"
  /\ cached = NoJwks
  /\ pc' = [pc EXCEPT ![t] = "unavailable"]
  /\ UNCHANGED <<idpVars, jwks_url, cacheVars, lock, fetchAge, content, token, jwks>>

\* The request fails and nothing was ever cached: TokenVerificationError.
FetchFail(t) ==
  /\ pc[t] = "fetching"
  /\ cached = NoJwks
  /\ lock' = NoThread
  /\ pc' = [pc EXCEPT ![t] = "unavailable"]
  /\ UNCHANGED <<idpVars, jwks_url, cacheVars, fetchAge, content, token, jwks>>

\* _select_key finds the key the token names; without a kid the library tries
\* the whole set and may or may not find the signer.
Selectable(tok, c) ==
  tok.signer \in KeysOf(c) /\ (tok.kid = tok.signer \/ tok.kid = NoKid)

Finish(t, how) ==
  /\ pc' = [pc EXCEPT ![t] = how]
  /\ jwks' = [jwks EXCEPT ![t] = NoJwks]
  /\ UNCHANGED <<idpVars, jwks_url, cacheVars, lock, fetchAge, content, token>>

Accept(t) ==
  /\ pc[t] = "select"
  /\ Selectable(token[t], jwks[t])
  /\ token[t].sound
  /\ Finish(t, "accepted")

\* None without a kid is the library's ValueError.
Reject(t) ==
  /\ pc[t] = "select"
  /\ IF jwks[t] = NoJwks
       THEN token[t].kid = NoKid
       ELSE jwks[t].form = "object" =>
              ~(Selectable(token[t], jwks[t]) /\ token[t].sound /\ token[t].kid # NoKid)
  /\ Finish(t, "rejected")

\* jwks.get on None or a list, k.get on what is no object: an AttributeError or
\* TypeError that verify() does not catch.
SelectRaises(t) ==
  /\ pc[t] = "select"
  /\ IF jwks[t] = NoJwks THEN token[t].kid # NoKid ELSE jwks[t].form = "other"
  /\ Finish(t, "raised")

Step(t) ==
  \/ UseCached(t)
  \/ StartFetch(t)
  \/ Respond(t)
  \/ RespondGarbage(t)
  \/ FetchOk(t)
  \/ FetchFailStale(t)
  \/ FetchFail(t)
  \/ Accept(t)
  \/ Reject(t)
  \/ SelectRaises(t)

Next ==
  \/ Tick
  \/ \E k \in Keys : Publish(k) \/ Withdraw(k)
  \/ \E t \in Threads :
       \/ \E tok \in Tokens : CallVerify(t, tok)
       \/ Step(t)

Spec == Init /\ [][Next]_vars

\* A thread that keeps finding the lock free gets it, and a thread that holds
\* it or computes runs on: the HTTP client's timeout ends every request.
FairSpec ==
  /\ Spec
  /\ \A t \in Threads :
       /\ SF_vars(UseCached(t) \/ StartFetch(t))
       /\ WF_vars(Respond(t) \/ RespondGarbage(t) \/ FetchFailStale(t) \/ FetchFail(t))
       /\ WF_vars(FetchOk(t))
       /\ WF_vars(Accept(t) \/ Reject(t) \/ SelectRaises(t))
-----------------------------------------------------------------------------
\* Types of the verifier's and the provider's state; the lock holder is the one
\* thread whose request is under way.
TypeOK ==
  /\ published \in SUBSET Keys
  /\ gone \in [Keys -> 0 .. TTL]
  /\ jwks_url \in BOOLEAN
  /\ cached \in KeySet \cup {NoJwks}
  /\ jwks_url \/ cached # NoJwks
  /\ age \in 0 .. TTL
  /\ lock \in Threads \cup {NoThread}
  /\ fetchAge \in 0 .. TTL
  /\ content \in [Threads -> KeySet \cup {NoJwks}]
  /\ pc \in [Threads -> Done \cup {"waiting", "fetching", "answered", "select"}]
  /\ \A t \in Threads : pc[t] \in {"fetching", "answered"} <=> lock = t
  /\ lock # NoThread => jwks_url
  /\ token \in [Threads -> Tokens]
  /\ jwks \in [Threads -> KeySet \cup {NoJwks}]
  /\ dropped \in SUBSET Keys

\* A key set that _get_jwks still takes for fresh, whatever its JSON looks like,
\* holds no key that was withdrawn a TTL or longer ago, however long the request
\* that brought it took.
FreshKeysRecent ==
  Fresh => \A k \in KeysOf(cached) : k \in published \/ gone[k] < TTL

\* A withdrawn key that has left the cache does not come back while it stays
\* withdrawn: responses reach the cache in the order the provider gave them,
\* because the lock is held over the whole request.
NoResurrection ==
  KeysOf(cached) \cap dropped = {}

\* Every verify() returns or raises, whatever the provider does and whatever a
\* 200 answer holds: all paths out of _get_jwks give the lock back.
EveryVerifyReturns ==
  \A t \in Threads : pc[t] = "waiting" ~> pc[t] \in Done

\* The cache has the provider's JSON object, with or without key k.
Trusts(k) == cached # NoJwks /\ cached.form = "object" /\ k \in cached.keys
Distrusts(k) == cached # NoJwks /\ cached.form = "object" /\ k \notin cached.keys

\* If the provider is up now and then - of infinitely many requests of a thread,
\* infinitely many get its key set - the cache follows it: a key published for
\* good comes in, a key withdrawn for good goes out, and no null or malformed
\* answer stays in the cache for good.
CacheFollowsProvider ==
  \A t \in Threads : \A k \in Keys :
    (SF_vars(Respond(t)) /\ []<>(pc[t] = "fetching")) =>
       /\ <>[](k \in published) => <>Trusts(k)
       /\ <>[](k \notin published) => <>Distrusts(k)
=============================================================================
