----------------------------- MODULE JWKSCache -----------------------------
(***************************************************************************)
(* The cache of the identity provider's signing keys, JWKSCache of         *)
(* camt053_mcp/oauth.py, with the requests that look keys up in it.  The   *)
(* coroutine get_key suspends only while it fetches, so between two awaits *)
(* its code is one step; no lock is taken, so fetches of several requests  *)
(* overlap and may complete in any order.  The provider publishes a new    *)
(* key set whenever it likes, and a fetch may fail, time out or be         *)
(* cancelled with its request.                                             *)
(***************************************************************************)
EXTENDS Integers, Sequences, FiniteSets

CONSTANTS Lookups,      \* the requests that may call get_key at once
          Kids,         \* the key ids a provider may publish
          NoKid,        \* a token header without "kid"; no key
          TTL,          \* JWKS_CACHE_TTL_S, in ticks
          MaxDelay,     \* ticks from the provider's answer to the resumed coroutine
          MaxTime,      \* bound on the clock
          MaxDocuments  \* bound on the key sets the provider publishes

\* The reason codes get_key refuses with; "pending" while there is no verdict.
Reasons == {"jwks_unavailable", "unknown_kid", "missing_kid", "pending"}

ASSUME KidsAssumption == NoKid \notin Kids /\ Kids \cap Reasons = {}
ASSUME TimeAssumption == /\ TTL \in Nat \ {0}
                         /\ MaxDelay \in Nat
                         /\ MaxTime \in Nat
                         /\ MaxDocuments \in Nat \ {0}

VARIABLES
  now,         \* time.monotonic()
  documents,   \* the key sets published so far, the last one is served
  publishedAt, \* publishedAt[v]: when documents[v] was published
  keys,        \* self._keys
  fetchedAt,   \* self._fetched_at
  held,        \* which document keys was built from, 0 for none
  pc,          \* pc[l]: where lookup l is
  kid,         \* kid[l]: the key id it looks for
  asked,       \* asked[l]: the document served when the lookup began
  got,         \* got[l]: the document its own fetch received, 0 for none
  servedAt,    \* servedAt[l]: when the provider served it
  result       \* result[l]: the key returned, or the reason of the refusal

provider == <<documents, publishedAt>>
cache    == <<keys, fetchedAt, held>>
vars     == <<now, provider, cache, pc, kid, asked, got, servedAt, result>>

Served == Len(documents)

\* _keys = {} and _fetched_at = -inf, which is stale at any time.
Init ==
  /\ now = 0
  /\ documents \in {<<d>> : d \in SUBSET Kids}
  /\ publishedAt = <<0>>
  /\ keys = {}
  /\ fetchedAt = - TTL
  /\ held = 0
  /\ pc = [l \in Lookups |-> "idle"]
  /\ kid = [l \in Lookups |-> NoKid]
  /\ asked = [l \in Lookups |-> 0]
  /\ got = [l \in Lookups |-> 0]
  /\ servedAt = [l \in Lookups |-> 0]
  /\ result = [l \in Lookups |-> "pending"]
-----------------------------------------------------------------------------
\* Mutant: keys are still served at the very age of the TTL.
StaleTooLate == now - fetchedAt > TTL

Stale == now - fetchedAt >= TTL

\* Mutant: _keys.get(kid), which is None for a key id that is not there.
ResolveWithGet(ks, k) == IF k \in ks THEN k ELSE NoKid

\* The part of get_key after the refresh: the answer the key set `ks` gives for k.
Resolve(ks, k) ==
  IF k = NoKid
  THEN IF \E x \in ks : ks = {x} THEN CHOOSE x \in ks : TRUE ELSE "missing_kid"
  ELSE IF k \in ks THEN k ELSE "unknown_kid"

\* The coroutine is suspended at `await client.get(...)`.
Pending(l) == pc[l] \in {"fetching", "answered"}

Return(l, r) ==
  /\ result' = [result EXCEPT ![l] = r]
  /\ servedAt' = [servedAt EXCEPT ![l] = 0]
  /\ pc' = [pc EXCEPT ![l] = "done"]

NeedsRefresh(k) == Stale \/ (k # NoKid /\ k \notin keys)

\* get_key up to its await, or to its end when the cached keys serve.
GetKey(l, k) ==
  /\ pc[l] = "idle"
  /\ kid' = [kid EXCEPT ![l] = k]
  /\ asked' = [asked EXCEPT ![l] = Served]
  /\ \/ /\ NeedsRefresh(k)
        /\ pc' = [pc EXCEPT ![l] = "fetching"]
        /\ UNCHANGED <<servedAt, result>>
     \/ /\ ~ NeedsRefresh(k)
        /\ Return(l, Resolve(keys, k))
  /\ UNCHANGED <<now, provider, cache, got>>

\* The provider serves its current document; the answer is on its way.
Answer(l) ==
  /\ pc[l] = "fetching"
  /\ got' = [got EXCEPT ![l] = Served]
  /\ servedAt' = [servedAt EXCEPT ![l] = now]
  /\ pc' = [pc EXCEPT ![l] = "answered"]
  /\ UNCHANGED <<now, provider, cache, kid, asked, result>>

\* Mutant: the refreshed keys are stored by a later step than the one that reads them,
\* so the lookup answers from whatever is cached when it resumes.
CompleteFromCache(l) ==
  /\ pc[l] = "answered"
  /\ keys' = documents[got[l]]
  /\ held' = got[l]
  /\ fetchedAt' = now
  /\ Return(l, Resolve(keys, kid[l]))
  /\ UNCHANGED <<now, provider, kid, asked, got>>

\* _refresh resumes with a usable document, replaces the keys, and get_key returns.
Complete(l) ==
  /\ pc[l] = "answered"
  /\ keys' = documents[got[l]]
  /\ held' = got[l]
  /\ fetchedAt' = now
  /\ Return(l, Resolve(keys', kid[l]))
  /\ UNCHANGED <<now, provider, kid, asked, got>>

\* Mutant: a fetch without a timeout ends only with the provider's answer.
TimeoutMissing(l) ==
  /\ pc[l] = "answered"
  /\ Return(l, "jwks_unavailable")
  /\ got' = [got EXCEPT ![l] = 0]
  /\ UNCHANGED <<now, provider, cache, kid, asked>>

\* httpx gives up (timeout=10.0), or the answer is an error or not a key set.
Fail(l) ==
  /\ Pending(l)
  /\ Return(l, "jwks_unavailable")
  /\ got' = [got EXCEPT ![l] = 0]
  /\ UNCHANGED <<now, provider, cache, kid, asked>>

\* The slot of a finished request is free again.
Reset(l) ==
  /\ pc' = [pc EXCEPT ![l] = "idle"]
  /\ kid' = [kid EXCEPT ![l] = NoKid]
  /\ asked' = [asked EXCEPT ![l] = 0]
  /\ got' = [got EXCEPT ![l] = 0]
  /\ servedAt' = [servedAt EXCEPT ![l] = 0]
  /\ result' = [result EXCEPT ![l] = "pending"]

\* The request is cancelled (its client is gone) at the await.
Cancel(l) ==
  /\ Pending(l)
  /\ Reset(l)
  /\ UNCHANGED <<now, provider, cache>>

\* verify goes on with the key, or passes the refusal on; its request is over.
Leave(l) ==
  /\ pc[l] = "done"
  /\ Reset(l)
  /\ UNCHANGED <<now, provider, cache>>
-----------------------------------------------------------------------------
\* The provider replaces its key set: it adds keys, withdraws keys, or both.
Publish ==
  /\ Served < MaxDocuments
  /\ \E d \in SUBSET Kids \ {documents[Served]} : documents' = Append(documents, d)
  /\ publishedAt' = Append(publishedAt, now)
  /\ UNCHANGED <<now, cache, pc, kid, asked, got, servedAt, result>>

\* Time passes, but no answer is under way for more than MaxDelay.
Tick ==
  /\ now < MaxTime
  /\ \A l \in Lookups : pc[l] = "answered" => now < servedAt[l] + MaxDelay
  /\ now' = now + 1
  /\ UNCHANGED <<provider, cache, pc, kid, asked, got, servedAt, result>>

Next ==
  \/ \E l \in Lookups, k \in Kids \cup {NoKid} : GetKey(l, k)
  \/ \E l \in Lookups : Answer(l) \/ Complete(l) \/ Fail(l) \/ Cancel(l) \/ Leave(l)
  \/ Publish
  \/ Tick

Spec == Init /\ [][Next]_vars
-----------------------------------------------------------------------------
TypeOK ==
  /\ now \in 0 .. MaxTime
  /\ documents \in Seq(SUBSET Kids)
  /\ publishedAt \in Seq(Nat)
  /\ keys \in SUBSET Kids
  /\ fetchedAt \in Int
  /\ held \in Nat
  /\ pc \in [Lookups -> {"idle", "fetching", "answered", "done"}]
  /\ kid \in [Lookups -> Kids \cup {NoKid}]
  /\ asked \in [Lookups -> Nat]
  /\ got \in [Lookups -> Nat]
  /\ servedAt \in [Lookups -> Nat]
  /\ result \in [Lookups -> Kids \cup Reasons]

Accepted(l) == pc[l] = "done" /\ result[l] \in Kids

(***************************************************************************)
(* unknown_kid is only ever the verdict of a document the provider served  *)
(* after the lookup began, and that document does not hold the key: no key *)
(* that stays published is refused, however fetches overlap (the one       *)
(* refresh get_key owes an unknown key id).                                *)
(***************************************************************************)
UnknownMeansUnpublished ==
  \A l \in Lookups : pc[l] = "done" /\ result[l] = "unknown_kid" =>
    /\ got[l] # 0
    /\ got[l] >= asked[l]
    /\ kid[l] \notin documents[got[l]]

\* Document v was the one served at some time not before t.
ServedSince(v, t) == v = Served \/ publishedAt[v + 1] >= t

(***************************************************************************)
(* A key the provider has withdrawn stops being accepted: an accepted key  *)
(* was in a document still served less than TTL before, give or take the   *)
(* time an answer is under way.  Overlapping refreshes, whose older answer *)
(* may replace the newer one, do not stretch that.                         *)
(***************************************************************************)
WithdrawnKeyExpires ==
  [][\A l \in Lookups : pc[l] # "done" /\ Accepted(l)' =>
       \E v \in 1 .. Served :
         /\ result'[l] \in documents[v]
         /\ ServedSince(v, now - (TTL - 1) - MaxDelay)]_vars

(***************************************************************************)
(* A lookup ends, whatever the provider does: by its answer, or by the     *)
(* timeout of the fetch.                                                   *)
(***************************************************************************)
EveryLookupEnds == \A l \in Lookups : Pending(l) ~> ~ Pending(l)

(***************************************************************************)
(* "concurrent refreshes are benign -- the fetch is idempotent" (oauth.py, *)
(* JWKSCache): whichever order they complete in, the cache holds the       *)
(* newest document one of them received.  False: the last to complete      *)
(* wins, and its document may be the older one.                            *)
(***************************************************************************)
RefreshesAreIdempotent ==
  \A l \in Lookups : pc[l] = "done" /\ result[l] \in Kids \cup {"unknown_kid", "missing_kid"}
                       => got[l] <= held
=============================================================================
