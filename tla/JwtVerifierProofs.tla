------------------------- MODULE JwtVerifierProofs --------------------------
(***************************************************************************)
(* Proofs about JWKSCache and JwtVerifier for every set of lookups,        *)
(* requests, tokens and keys, every TTL, delay and leeway.  First the      *)
(* cache: an unknown_kid verdict is fresh, and a withdrawn key expires,    *)
(* however the refreshes overlap.  Then verification, which uses the cache *)
(* as JWKSCache has it, so that what holds of the cache holds of the       *)
(* verifier, and an admitted token is valid at the moment it is admitted.  *)
(***************************************************************************)
EXTENDS JwtVerifier, TLAPS

(***************************************************************************)
(* The provider: every published key set has a time, none in the future.   *)
(***************************************************************************)
ProviderInv ==
  /\ Served \in Nat \ {0}
  /\ Len(publishedAt) = Served
  /\ \A v \in 1 .. Served : publishedAt[v] <= now

(***************************************************************************)
(* The cache is empty and stale, or holds a document that was being served *)
(* at most MaxDelay before it was stored.                                  *)
(***************************************************************************)
CacheInv ==
  \/ keys = {} /\ fetchedAt = - TTL
  \/ /\ held \in 1 .. Served
     /\ keys = documents[held]
     /\ fetchedAt \in 0 .. now
     /\ ServedSince(held, fetchedAt - MaxDelay)

(***************************************************************************)
(* An answer under way was served after the lookup began, not longer than  *)
(* MaxDelay ago; a lookup that was refused keeps the document it saw.      *)
(***************************************************************************)
AnswerInv ==
  \A l \in Lookups :
    /\ asked[l] <= Served
    /\ pc[l] = "answered" =>
         /\ got[l] \in 1 .. Served
         /\ got[l] >= asked[l]
         /\ servedAt[l] <= now
         /\ now <= servedAt[l] + MaxDelay
         /\ ServedSince(got[l], servedAt[l])
    /\ pc[l] = "done" /\ result[l] = "unknown_kid" => got[l] \in 1 .. Served

JInv == TypeOK /\ ProviderInv /\ CacheInv /\ AnswerInv /\ UnknownMeansUnpublished

(***************************************************************************)
(* Resolve returns one of the keys it is given or a reason code, and       *)
(* unknown_kid means that a key id was named and is not among the keys.    *)
(***************************************************************************)
LEMMA ResolveResult ==
  ASSUME NEW ks \in SUBSET Kids, NEW k \in Kids \cup {NoKid}
  PROVE  /\ Resolve(ks, k) \in ks \cup {"missing_kid", "unknown_kid"}
         /\ Resolve(ks, k) = "unknown_kid" => k \notin ks
BY KidsAssumption DEF Resolve, Reasons

(***************************************************************************)
(* A publication adds one document and one time, and what was known of the *)
(* time an earlier document was served stays true.                         *)
(***************************************************************************)
LEMMA PublishAdds ==
  ASSUME JInv, Publish
  PROVE  /\ Served' = Served + 1
         /\ documents' \in Seq(SUBSET Kids) /\ publishedAt' \in Seq(Nat)
         /\ Len(publishedAt') = Served + 1 /\ publishedAt'[Served + 1] = now
         /\ \A v \in 1 .. Served : /\ documents'[v] = documents[v]
                                   /\ publishedAt'[v] = publishedAt[v]
<1>1. PICK d \in SUBSET Kids : documents' = Append(documents, d)
  BY DEF Publish
<1>2. documents \in Seq(SUBSET Kids) /\ publishedAt \in Seq(Nat) /\ now \in Nat
      /\ Len(publishedAt) = Len(documents)
  BY TimeAssumption DEF JInv, TypeOK, ProviderInv, Served
<1>3. publishedAt' = Append(publishedAt, now)
  BY DEF Publish
<1>4. QED
  BY <1>1, <1>2, <1>3 DEF Served

LEMMA ServedSinceLasts ==
  ASSUME JInv, Publish, NEW v \in 1 .. Served, NEW t \in Int, t <= now, ServedSince(v, t)
  PROVE  ServedSince(v, t)'
<1>1. Served \in Nat /\ now \in Nat
  BY TimeAssumption DEF JInv, TypeOK, ProviderInv
<1>2. CASE v = Served
  BY <1>1, <1>2, PublishAdds DEF ServedSince
<1>3. CASE v # Served
  BY <1>1, <1>3, PublishAdds DEF ServedSince
<1>4. QED
  BY <1>2, <1>3

LEMMA JInit == Init => JInv
<1> SUFFICES ASSUME Init PROVE JInv
  OBVIOUS
<1> USE TimeAssumption DEF Init
<1>1. PICK d \in SUBSET Kids : documents = <<d>>
  OBVIOUS
<1>2. Served = 1 /\ Len(publishedAt) = 1 /\ publishedAt[1] = 0
  BY <1>1 DEF Served
<1>3. TypeOK
  BY <1>1 DEF TypeOK, Reasons
<1>4. ProviderInv /\ CacheInv
  BY <1>2 DEF ProviderInv, CacheInv
<1>5. AnswerInv /\ UnknownMeansUnpublished
  BY <1>2 DEF AnswerInv, UnknownMeansUnpublished
<1>6. QED
  BY <1>3, <1>4, <1>5 DEF JInv

-----------------------------------------------------------------------------
(***************************************************************************)
(* A lookup's own steps, one lemma for those that end it and one for those *)
(* that do not; then the provider's step and the clock's.                  *)
(***************************************************************************)
LEMMA GetKeyJInv ==
  ASSUME JInv, NEW l \in Lookups, NEW k \in Kids \cup {NoKid}, GetKey(l, k)
  PROVE  JInv'
<1> USE DEF JInv, GetKey, provider, cache
<1>1. Served \in Nat /\ now \in Nat /\ Served' = Served
  BY TimeAssumption DEF TypeOK, ProviderInv, Served
<1>2. ProviderInv' /\ CacheInv'
  BY DEF ProviderInv, CacheInv, ServedSince, Served
<1>3. CASE NeedsRefresh(k) /\ pc' = [pc EXCEPT ![l] = "fetching"] /\ UNCHANGED <<servedAt, result>>
  <2>1. TypeOK'
    BY <1>1, <1>3 DEF TypeOK
  <2>2. AnswerInv'
    BY <1>1, <1>3 DEF TypeOK, AnswerInv, ServedSince
  <2>3. UnknownMeansUnpublished'
    BY <1>1, <1>3 DEF TypeOK, UnknownMeansUnpublished
  <2>4. QED
    BY <1>2, <2>1, <2>2, <2>3
<1>4. CASE ~ NeedsRefresh(k) /\ Return(l, Resolve(keys, k))
  <2>1. Resolve(keys, k) # "unknown_kid" /\ Resolve(keys, k) \in Kids \cup Reasons
    BY <1>4, ResolveResult DEF NeedsRefresh, Resolve, Reasons, TypeOK
  <2>2. TypeOK'
    BY <1>1, <1>4, <2>1 DEF TypeOK, Return
  <2>3. AnswerInv'
    BY <1>1, <1>4, <2>1 DEF TypeOK, AnswerInv, ServedSince, Return
  <2>4. UnknownMeansUnpublished'
    BY <1>1, <1>4, <2>1 DEF TypeOK, UnknownMeansUnpublished, Return
  <2>5. QED
    BY <1>2, <2>2, <2>3, <2>4
<1>5. QED
  BY <1>3, <1>4

LEMMA AnswerJInv ==
  ASSUME JInv, NEW l \in Lookups, Answer(l)
  PROVE  JInv'
<1> USE DEF JInv, Answer, provider, cache
<1>1. Served \in Nat \ {0} /\ now \in Nat /\ Served' = Served /\ MaxDelay \in Nat
  BY TimeAssumption DEF TypeOK, ProviderInv, Served
<1>2. ProviderInv' /\ CacheInv'
  BY DEF ProviderInv, CacheInv, ServedSince, Served
<1>3. TypeOK'
  BY <1>1 DEF TypeOK
<1>4. AnswerInv'
  BY <1>1 DEF TypeOK, AnswerInv, ServedSince
<1>5. UnknownMeansUnpublished'
  BY <1>1 DEF TypeOK, UnknownMeansUnpublished
<1>6. QED
  BY <1>2, <1>3, <1>4, <1>5

LEMMA CompleteJInv ==
  ASSUME JInv, NEW l \in Lookups, Complete(l)
  PROVE  JInv'
<1> USE DEF JInv, Complete, Return, provider
<1>1. /\ Served \in Nat \ {0} /\ now \in Nat /\ Served' = Served /\ MaxDelay \in Nat
      /\ got[l] \in 1 .. Served /\ servedAt[l] \in Nat /\ servedAt[l] <= now
      /\ now <= servedAt[l] + MaxDelay /\ ServedSince(got[l], servedAt[l])
      /\ publishedAt \in Seq(Nat) /\ Len(publishedAt) = Served
  BY TimeAssumption DEF TypeOK, ProviderInv, AnswerInv, Served
<1>2. documents[got[l]] \in SUBSET Kids
  BY <1>1 DEF TypeOK, Served
<1> DEFINE r == Resolve(documents[got[l]], kid[l])
<1>3. /\ r \in Kids \cup Reasons
      /\ r = "unknown_kid" => kid[l] \notin documents[got[l]]
  BY <1>2, ResolveResult DEF TypeOK, Reasons
<1>4. result' = [result EXCEPT ![l] = r]
  BY DEF Resolve
<1> HIDE DEF r
<1>5. TypeOK'
  BY <1>1, <1>2, <1>3, <1>4 DEF TypeOK
<1>6. ProviderInv'
  BY <1>1 DEF ProviderInv
<1>7. CacheInv'
  BY <1>1 DEF CacheInv, ServedSince
<1>8. AnswerInv'
  BY <1>1, <1>4 DEF TypeOK, AnswerInv, ServedSince
<1>9. UnknownMeansUnpublished'
  BY <1>1, <1>3, <1>4 DEF TypeOK, UnknownMeansUnpublished, AnswerInv
<1>10. QED
  BY <1>5, <1>6, <1>7, <1>8, <1>9

LEMMA EndJInv ==
  ASSUME JInv, NEW l \in Lookups, Fail(l) \/ Cancel(l) \/ Leave(l)
  PROVE  JInv'
<1> USE DEF JInv, Fail, Cancel, Leave, Return, Reset, provider, cache
<1>1. Served \in Nat \ {0} /\ now \in Nat /\ Served' = Served
  BY TimeAssumption DEF TypeOK, ProviderInv, Served
<1>2. ProviderInv' /\ CacheInv'
  BY DEF ProviderInv, CacheInv, ServedSince, Served
<1>3. TypeOK'
  <2>1. CASE Fail(l)
    BY <2>1 DEF TypeOK, Reasons
  <2>2. CASE Cancel(l)
    BY <2>2 DEF TypeOK, Reasons
  <2>3. CASE Leave(l)
    BY <2>3 DEF TypeOK, Reasons
  <2>4. QED
    BY <2>1, <2>2, <2>3
<1>4. AnswerInv'
  BY <1>1 DEF TypeOK, AnswerInv, ServedSince
<1>5. UnknownMeansUnpublished'
  BY <1>1 DEF TypeOK, UnknownMeansUnpublished
<1>6. QED
  BY <1>2, <1>3, <1>4, <1>5

LEMMA PublishJInv ==
  ASSUME JInv, Publish
  PROVE  JInv'
<1> USE DEF JInv
<1>1. Served \in Nat \ {0} /\ now \in Nat /\ MaxDelay \in Nat /\ Served' = Served + 1
  BY TimeAssumption, PublishAdds DEF TypeOK, ProviderInv
<1>0. UNCHANGED <<now, keys, fetchedAt, held, pc, kid, asked, got, servedAt, result>>
  BY DEF Publish, cache
<1>2. TypeOK'
  BY <1>0, PublishAdds DEF TypeOK
<1>3. ProviderInv'
  <2>1. \A v \in 1 .. Served : publishedAt'[v] <= now
    BY PublishAdds DEF ProviderInv
  <2>2. publishedAt'[Served + 1] <= now /\ Len(publishedAt') = Served + 1
    BY <1>1, PublishAdds
  <2>3. QED
    BY <1>0, <1>1, <2>1, <2>2 DEF ProviderInv
<1>4. CacheInv'
  <2>1. CASE keys = {} /\ fetchedAt = - TTL
    BY <1>0, <2>1 DEF CacheInv
  <2>2. CASE /\ held \in 1 .. Served /\ keys = documents[held]
             /\ fetchedAt \in 0 .. now /\ ServedSince(held, fetchedAt - MaxDelay)
    <3>1. PICK h \in 1 .. Served, t \in Int : h = held /\ t = fetchedAt - MaxDelay /\ t <= now
      BY <1>1, <2>2
    <3>2. ServedSince(h, t)'
      BY <2>2, <3>1, ServedSinceLasts
    <3>3. ServedSince(held, fetchedAt - MaxDelay)'
      BY <1>0, <3>1, <3>2 DEF ServedSince
    <3>4. documents'[held] = documents[held]
      BY <2>2, PublishAdds
    <3>5. QED
      BY <1>0, <1>1, <2>2, <3>3, <3>4 DEF CacheInv
  <2>3. QED
    BY <2>1, <2>2 DEF CacheInv
<1>5. AnswerInv'
  <2> SUFFICES ASSUME NEW l \in Lookups
               PROVE  /\ asked[l] <= Served'
                      /\ pc[l] = "answered" =>
                           /\ got[l] \in 1 .. Served'
                           /\ got[l] >= asked[l]
                           /\ servedAt[l] <= now
                           /\ now <= servedAt[l] + MaxDelay
                           /\ ServedSince(got[l], servedAt[l])'
                      /\ pc[l] = "done" /\ result[l] = "unknown_kid" => got[l] \in 1 .. Served'
    BY <1>0 DEF AnswerInv, ServedSince
  <2>1. asked[l] \in Nat /\ got[l] \in Nat /\ servedAt[l] \in Nat
    BY DEF TypeOK
  <2>2. pc[l] = "answered" => ServedSince(got[l], servedAt[l])'
    <3> SUFFICES ASSUME pc[l] = "answered" PROVE ServedSince(got[l], servedAt[l])'
      OBVIOUS
    <3>1. /\ got[l] \in 1 .. Served /\ servedAt[l] \in Int /\ servedAt[l] <= now
          /\ ServedSince(got[l], servedAt[l])
      BY <2>1 DEF AnswerInv
    <3>2. PICK v \in 1 .. Served, t \in Int : v = got[l] /\ t = servedAt[l]
      BY <3>1
    <3>3. ServedSince(v, t)'
      BY <3>1, <3>2, ServedSinceLasts
    <3>4. QED
      BY <1>0, <3>2, <3>3 DEF ServedSince
  <2>3. QED
    BY <1>1, <2>1, <2>2 DEF AnswerInv
<1>6. UnknownMeansUnpublished'
  BY <1>0, PublishAdds DEF UnknownMeansUnpublished, AnswerInv
<1>7. QED
  BY <1>2, <1>3, <1>4, <1>5, <1>6

LEMMA TickJInv ==
  ASSUME JInv, Tick
  PROVE  JInv'
<1> USE DEF JInv, Tick, provider, cache
<1> USE TimeAssumption
<1>1. Served \in Nat \ {0} /\ now \in Nat /\ now' = now + 1 /\ Served' = Served
  BY DEF TypeOK, ProviderInv, Served
<1>2. TypeOK'
  BY DEF TypeOK
<1>3. ProviderInv'
  BY <1>1 DEF ProviderInv, TypeOK
<1>4. CacheInv'
  BY <1>1 DEF CacheInv, ServedSince
<1>5. AnswerInv'
  BY <1>1 DEF TypeOK, AnswerInv, ServedSince
<1>6. UnknownMeansUnpublished'
  BY DEF UnknownMeansUnpublished
<1>7. QED
  BY <1>2, <1>3, <1>4, <1>5, <1>6

THEOREM CacheInvariance == Spec => []JInv
<1>1. JInv /\ [Next]_vars => JInv'
  <2> SUFFICES ASSUME JInv, [Next]_vars PROVE JInv'
    OBVIOUS
  <2>1. CASE UNCHANGED vars
    BY <2>1 DEF vars, provider, cache, JInv, TypeOK, ProviderInv, CacheInv, AnswerInv,
       UnknownMeansUnpublished, ServedSince, Served
  <2>2. QED
    BY <2>1, GetKeyJInv, AnswerJInv, CompleteJInv, EndJInv, PublishJInv, TickJInv DEF Next
<1>2. QED
  BY JInit, <1>1, PTL DEF Spec

(***************************************************************************)
(* unknown_kid is the verdict of a key set served after the lookup began,  *)
(* whatever other lookups have stored in the cache in the meantime.        *)
(***************************************************************************)
THEOREM UnknownIsFresh == Spec => []UnknownMeansUnpublished
<1>1. JInv => UnknownMeansUnpublished
  BY DEF JInv
<1>2. QED
  BY <1>1, CacheInvariance, PTL

(***************************************************************************)
(* A step that accepts a key accepts one that was being served less than   *)
(* TTL (and the delay of an answer) before: from the cache because it is   *)
(* not stale, from a refresh because its answer is not older than a delay. *)
(***************************************************************************)
LEMMA AcceptIsRecent ==
  ASSUME JInv, Next, NEW l \in Lookups, pc[l] # "done", Accepted(l)'
  PROVE  \E v \in 1 .. Served : /\ result'[l] \in documents[v]
                                /\ ServedSince(v, now - (TTL - 1) - MaxDelay)
<1> USE TimeAssumption DEF JInv
<1>1. Served \in Nat \ {0} /\ now \in Nat
  BY DEF TypeOK, ProviderInv
<1>0. /\ publishedAt \in Seq(Nat) /\ Len(publishedAt) = Served
      /\ \A v \in 1 .. Served : v # Served => publishedAt[v + 1] \in Nat
  BY <1>1 DEF TypeOK, ProviderInv
<1>2. CASE \E k \in Kids \cup {NoKid} : GetKey(l, k)
  <2>1. PICK k \in Kids \cup {NoKid} : GetKey(l, k)
    BY <1>2
  <2>2. ~ NeedsRefresh(k) /\ result'[l] = Resolve(keys, k) /\ result'[l] \in Kids
    BY <2>1 DEF GetKey, Return, Accepted, TypeOK
  <2>3. result'[l] \in keys
    BY <2>2, ResolveResult, KidsAssumption DEF TypeOK, Reasons
  <2>4. /\ held \in 1 .. Served /\ keys = documents[held] /\ fetchedAt \in 0 .. now
        /\ ServedSince(held, fetchedAt - MaxDelay)
    BY <2>3 DEF CacheInv
  <2>5. fetchedAt > now - TTL
    BY <1>1, <2>2, <2>4 DEF NeedsRefresh, Stale
  <2>6. ServedSince(held, now - (TTL - 1) - MaxDelay)
    BY <1>0, <1>1, <2>4, <2>5 DEF ServedSince
  <2>7. QED
    BY <2>3, <2>4, <2>6
<1>3. CASE Complete(l)
  <2>1. /\ got[l] \in 1 .. Served /\ servedAt[l] \in Nat /\ now <= servedAt[l] + MaxDelay
        /\ ServedSince(got[l], servedAt[l])
    BY <1>3 DEF Complete, AnswerInv, TypeOK
  <2>2. documents[got[l]] \in SUBSET Kids
    BY <2>1 DEF TypeOK, Served
  <2> DEFINE r == Resolve(documents[got[l]], kid[l])
  <2>3. result' = [result EXCEPT ![l] = r]
    BY <1>3 DEF Complete, Return, Resolve
  <2>4. r \in documents[got[l]] \cup {"missing_kid", "unknown_kid"}
    BY <2>2, ResolveResult DEF TypeOK
  <2> HIDE DEF r
  <2>5. result'[l] = r /\ r \in Kids
    <3>1. result'[l] = r
      BY <2>3 DEF TypeOK
    <3>2. QED
      BY <3>1 DEF Accepted
  <2>6. result'[l] \in documents[got[l]]
    <3>1. r # "missing_kid" /\ r # "unknown_kid"
      BY <2>5, KidsAssumption DEF Reasons
    <3>2. QED
      BY <2>4, <2>5, <3>1
  <2>7. ServedSince(got[l], now - (TTL - 1) - MaxDelay)
    <3>1. servedAt[l] >= now - (TTL - 1) - MaxDelay
      BY <1>1, <2>1
    <3>2. got[l] # Served => publishedAt[got[l] + 1] \in Nat
      BY <1>0, <2>1
    <3> DEFINE p == publishedAt[got[l] + 1]
    <3>3. got[l] # Served => p \in Nat /\ p >= servedAt[l]
      BY <2>1, <3>2 DEF ServedSince
    <3> HIDE DEF p
    <3>4. got[l] # Served => p >= now - (TTL - 1) - MaxDelay
      BY <1>1, <2>1, <3>1, <3>3
    <3>5. QED
      BY <3>4 DEF ServedSince, p
  <2>8. QED
    BY <2>1, <2>6, <2>7
<1>4. CASE Fail(l)
  BY <1>4, KidsAssumption DEF Fail, Return, Accepted, TypeOK, Reasons
<1>5. CASE Answer(l) \/ Cancel(l) \/ Leave(l)
  BY <1>5 DEF Answer, Cancel, Leave, Reset, Accepted, TypeOK
<1>6. CASE Publish \/ Tick
  BY <1>6 DEF Publish, Tick, Accepted
<1>7. ASSUME NEW m \in Lookups \ {l},
             \/ \E k \in Kids \cup {NoKid} : GetKey(m, k)
             \/ Answer(m) \/ Complete(m) \/ Fail(m) \/ Cancel(m) \/ Leave(m)
      PROVE  pc'[l] = pc[l]
  BY <1>7 DEF GetKey, Answer, Complete, Fail, Cancel, Leave, Return, Reset, TypeOK
<1>8. QED
  BY <1>2, <1>3, <1>4, <1>5, <1>6, <1>7 DEF Next, Accepted

THEOREM WithdrawalBound == Spec => WithdrawnKeyExpires
<1>1. JInv /\ [Next]_vars =>
        [\A l \in Lookups : pc[l] # "done" /\ Accepted(l)' =>
           \E v \in 1 .. Served :
             /\ result'[l] \in documents[v]
             /\ ServedSince(v, now - (TTL - 1) - MaxDelay)]_vars
  BY AcceptIsRecent
<1>2. QED
  BY <1>1, CacheInvariance, PTL DEF Spec, WithdrawnKeyExpires
-----------------------------------------------------------------------------
(***************************************************************************)
(* The verifier.                                                           *)
(***************************************************************************)

\* Who has asked for a key bears a token; there is a result only when get_key is over.
LookupInv ==
  \A l \in Lookups :
    /\ pc[l] # "done" => result[l] = "pending"
    /\ Pending(l) => token[l] \in Tokens

VInv ==
  /\ LookupInv
  /\ token \in [Lookups -> Tokens \cup {NoToken}]
  /\ verdict \in [Lookups -> Verdicts]
  /\ \A l \in Lookups : pc[l] = "done" => verdict[l] # "pending"

Faultless(t, k, time) ==
  /\ t.signer = k /\ t.complete /\ t.issuer /\ t.audience
  /\ t.nbf <= time + Leeway
  /\ t.exp > time - Leeway

\* A check that passes is one whose condition holds.
LEMMA CheckPasses ==
  ASSUME NEW ok, NEW reason, NEW c, c = Check(ok, reason), c.ok
  PROVE  ok
<1>1. Check(ok, reason).ok = ok
  BY Zenon DEF Check
<1> QED
  BY <1>1, Zenon

\* A token that passes, or fails for its scopes, passed every check before that one.
LEMMA DecodeOrder ==
  ASSUME NEW t \in Tokens, NEW k \in Kids, NEW time \in Nat
  PROVE  /\ Decode(t, k, time) \in Verdicts \ {"pending"}
         /\ Decode(t, k, time) \in {"admitted", "insufficient_scope"} => Faultless(t, k, time)
<1> DEFINE checks == Checks(t, k, time)
           failed == {i \in DOMAIN checks : ~ checks[i].ok}
           first  == CHOOSE i \in failed : \A j \in failed : i <= j
<1>1. /\ DOMAIN checks = 1 .. 8
      /\ checks[1] = Check(t.algorithm, "invalid_token")
      /\ checks[2] = Check(t.signer = k, "signature_invalid")
      /\ checks[3] = Check(t.complete, "missing_required_claim")
      /\ checks[4] = Check(t.nbf <= time + Leeway, "token_not_yet_valid")
      /\ checks[5] = Check(t.exp > time - Leeway, "token_expired")
      /\ checks[6] = Check(t.issuer, "issuer_mismatch")
      /\ checks[7] = Check(t.audience, "audience_mismatch")
      /\ checks[8] = Check(t.scopes, "insufficient_scope")
  BY DEF Checks
<1>2. Decode(t, k, time) = IF failed = {} THEN "admitted" ELSE checks[first].reason
  BY DEF Decode
<1> HIDE DEF checks
<1>3. failed # {} => first \in failed /\ \A j \in failed : first <= j
  <2> SUFFICES ASSUME failed # {}
               PROVE  \E i \in failed : \A j \in failed : i <= j
    BY Zenon
  <2>1. failed \in SUBSET (1 .. 8)
    BY <1>1
  <2>2. PICK x \in failed : TRUE
    OBVIOUS
  <2> HIDE DEF failed
  <2>3. \A n \in 1 .. 8 : (\A m \in 1 .. 8 : m < n => m \notin failed) /\ n \in failed
                            => \A j \in failed : n <= j
    BY <2>1
  <2>4. \E n \in 1 .. 8 : (\A m \in 1 .. 8 : m < n => m \notin failed) /\ n \in failed
    <3>1. x \in 1 .. 8
      BY <2>1, <2>2
    <3> QED
      BY <3>1, <2>2
  <2> QED
    BY <2>3, <2>4
<1>4. failed # {} => first \in 1 .. 8 /\ ~ checks[first].ok
  BY <1>1, <1>3
<1>5. Decode(t, k, time) \in Verdicts \ {"pending"}
  <2> HIDE DEF failed, first
  <2> QED
    BY <1>1, <1>2, <1>4 DEF Check, Verdicts
<1>6. ASSUME Decode(t, k, time) \in {"admitted", "insufficient_scope"}
      PROVE  Faultless(t, k, time)
  <2>1. \A j \in 1 .. 7 : j \notin failed
    <3>1. CASE failed = {}
      BY <3>1
    <3>2. CASE failed # {}
      <4>1. first = 8
        <5> HIDE DEF failed, first
        <5> QED
          BY <1>1, <1>2, <1>4, <1>6, <3>2 DEF Check
      <4> QED
        BY <4>1, <1>3, <3>2
    <3> QED
      BY <3>1, <3>2
  <2>2. \A j \in 1 .. 7 : checks[j].ok
    BY <1>1, <2>1
  <2>4. /\ checks[2].ok /\ checks[3].ok /\ checks[4].ok
        /\ checks[5].ok /\ checks[6].ok /\ checks[7].ok
    <3> HIDE DEF failed
    <3> QED
      BY <2>2
  <2> HIDE DEF failed, first
  <2>5. t.signer = k
    <3>1. checks[2] = Check(t.signer = k, "signature_invalid") /\ checks[2].ok
      BY <1>1, <2>4
    <3> QED
      BY <3>1, CheckPasses, Zenon
  <2>6. t.complete
    <3>1. checks[3] = Check(t.complete, "missing_required_claim") /\ checks[3].ok
      BY <1>1, <2>4
    <3> QED
      BY <3>1, TokensAssumption DEF Check
  <2>7. t.nbf <= time + Leeway
    <3> DEFINE valid == t.nbf <= time + Leeway
    <3>1. checks[4] = Check(valid, "token_not_yet_valid") /\ checks[4].ok
      BY <1>1, <2>4
    <3>2. valid \in BOOLEAN
      BY TokensAssumption, LeewayAssumption
    <3> HIDE DEF valid
    <3>3. valid
      BY <3>1, <3>2 DEF Check
    <3> QED
      BY <3>3 DEF valid
  <2>8. t.exp > time - Leeway
    <3> DEFINE alive == t.exp > time - Leeway
    <3>1. checks[5] = Check(alive, "token_expired") /\ checks[5].ok
      BY <1>1, <2>4
    <3>2. alive \in BOOLEAN
      BY TokensAssumption, LeewayAssumption
    <3> HIDE DEF alive
    <3>3. alive
      BY <3>1, <3>2 DEF Check
    <3> QED
      BY <3>3 DEF alive
  <2>9. t.issuer
    <3>1. checks[6] = Check(t.issuer, "issuer_mismatch") /\ checks[6].ok
      BY <1>1, <2>4
    <3> QED
      BY <3>1, TokensAssumption DEF Check
  <2>10. t.audience
    <3>1. checks[7] = Check(t.audience, "audience_mismatch") /\ checks[7].ok
      BY <1>1, <2>4
    <3> QED
      BY <3>1, TokensAssumption DEF Check
  <2> QED
    BY <2>5, <2>6, <2>7, <2>8, <2>9, <2>10 DEF Faultless
<1> QED
  BY <1>5, <1>6
-----------------------------------------------------------------------------
\* verify moves the cache only as get_key does.
LEMMA StepIsCacheStep ==
  ASSUME [VerifierNext]_verifierVars
  PROVE  [Next]_vars
<1>1. CASE \E l \in Lookups, t \in Tokens : VerifyMalformed(l, t) \/ VerifyStart(l, t)
  <2>1. \A t \in Tokens : t.kid \in Kids \cup {NoKid}
    BY TokensAssumption
  <2> QED
    BY <1>1, <2>1 DEF VerifyMalformed, VerifyStart, Next
<1>2. CASE \E l \in Lookups : VerifyEnd(l) \/ Forget(l)
  BY <1>2 DEF VerifyEnd, Forget, Next
<1>3. CASE Publish \/ Tick \/ \E l \in Lookups : Answer(l)
  BY <1>3 DEF Next
<1>4. CASE UNCHANGED verifierVars
  BY <1>4 DEF verifierVars
<1> QED
  BY <1>1, <1>2, <1>3, <1>4 DEF VerifierNext

\* The verifier's behaviours are behaviours of the cache.
THEOREM VerifierKeepsCache == VerifierSpec => Spec
<1>1. VerifierInit => Init
  BY DEF VerifierInit
<1> QED
  BY <1>1, StepIsCacheStep, PTL DEF VerifierSpec, Spec

\* An unknown_kid verdict of the verifier is fresh.
THEOREM VerifierRefusalsFresh == VerifierSpec => []UnknownMeansUnpublished
BY VerifierKeepsCache, UnknownIsFresh, PTL

\* A key the provider has withdrawn stops being accepted by the verifier.
THEOREM VerifierWithdrawal == VerifierSpec => WithdrawnKeyExpires
BY VerifierKeepsCache, WithdrawalBound, PTL

LEMMA JudgeVerdict ==
  ASSUME NEW l \in Lookups, NEW t \in Tokens, NEW r \in Kids \cup Reasons, NEW time \in Nat,
         verdict \in [Lookups -> Verdicts], Judge(l, t, r, time)
  PROVE  /\ verdict' \in [Lookups -> Verdicts]
         /\ r # "pending" => verdict'[l] # "pending"
         /\ verdict'[l] \in {"admitted", "insufficient_scope"}
              => r \in Kids /\ Faultless(t, r, time)
         /\ \A m \in Lookups : m # l => verdict'[m] = verdict[m]
<1>1. "pending" \in Reasons /\ "admitted" \notin Reasons /\ "insufficient_scope" \notin Reasons
  BY DEF Reasons
<1>2. Kids \cap Reasons = {}
  BY KidsAssumption
<1>3. CASE r \in Kids
  <2>1. verdict' = [verdict EXCEPT ![l] = Decode(t, r, time)]
    BY <1>1, <1>2, <1>3 DEF Judge
  <2> QED
    BY <2>1, <1>3, DecodeOrder
<1>4. CASE r \in Reasons
  <2>1. verdict' = [verdict EXCEPT ![l] = r]
    BY <1>1, <1>2, <1>4 DEF Judge
  <2> QED
    BY <2>1, <1>1, <1>4 DEF Verdicts
<1> QED
  BY <1>3, <1>4
-----------------------------------------------------------------------------
\* What a step leaves a lookup with.
LEMMA VStep ==
  ASSUME JInv, VInv, JInv', [VerifierNext]_verifierVars
  PROVE  VInv'
<1>0. /\ now \in Nat /\ pc \in [Lookups -> {"idle", "fetching", "answered", "done"}]
      /\ result \in [Lookups -> Kids \cup Reasons]
      /\ result' \in [Lookups -> Kids \cup Reasons]
      /\ token \in [Lookups -> Tokens \cup {NoToken}] /\ verdict \in [Lookups -> Verdicts]
  BY TimeAssumption DEF JInv, TypeOK, VInv
<1>1. ASSUME NEW l \in Lookups, NEW t \in Tokens, VerifyMalformed(l, t)
      PROVE  VInv'
  <2>1. /\ pc' = pc /\ result' = result /\ pc[l] = "idle"
        /\ token' = [token EXCEPT ![l] = t]
        /\ verdict' = [verdict EXCEPT ![l] = "malformed_token"]
    BY <1>1 DEF VerifyMalformed, vars
  <2> QED
    BY <1>0, <2>1 DEF VInv, LookupInv, Pending, Verdicts
<1>2. ASSUME NEW l \in Lookups, NEW t \in Tokens, VerifyStart(l, t)
      PROVE  VInv'
  <2>1. /\ pc[l] = "idle" /\ token' = [token EXCEPT ![l] = t]
        /\ Judge(l, t, result'[l], now)
        /\ \/ pc' = [pc EXCEPT ![l] = "fetching"] /\ result' = result
           \/ /\ pc' = [pc EXCEPT ![l] = "done"]
              /\ result' = [result EXCEPT ![l] = Resolve(keys, t.kid)]
    BY <1>2 DEF VerifyStart, GetKey, Return
  <2>2. /\ verdict' \in [Lookups -> Verdicts]
        /\ result'[l] # "pending" => verdict'[l] # "pending"
        /\ \A m \in Lookups : m # l => verdict'[m] = verdict[m]
    BY <1>0, <2>1, JudgeVerdict
  <2>3. Resolve(keys, t.kid) # "pending"
    <3>1. keys \in SUBSET Kids /\ t.kid \in Kids \cup {NoKid}
      BY TokensAssumption DEF JInv, TypeOK
    <3>2. Resolve(keys, t.kid) \in keys \cup {"missing_kid", "unknown_kid"}
      BY <3>1, ResolveResult
    <3> QED
      BY <3>1, <3>2, KidsAssumption DEF Reasons
  <2> QED
    BY <1>0, <2>1, <2>2, <2>3 DEF VInv, LookupInv, Pending
<1>3. ASSUME NEW l \in Lookups, VerifyEnd(l)
      PROVE  VInv'
  <2>1. PICK r \in Kids \cup Reasons :
          /\ r # "pending" /\ result' = [result EXCEPT ![l] = r]
          /\ pc' = [pc EXCEPT ![l] = "done"] /\ Pending(l)
    <3>1. CASE Complete(l)
      <4>1. keys' \in SUBSET Kids /\ kid[l] \in Kids \cup {NoKid}
        BY DEF JInv, TypeOK
      <4>2. Resolve(keys', kid[l]) \in keys' \cup {"missing_kid", "unknown_kid"}
        BY <4>1, ResolveResult
      <4>3. Resolve(keys', kid[l]) \in Kids \cup Reasons /\ Resolve(keys', kid[l]) # "pending"
        BY <4>1, <4>2, KidsAssumption DEF Reasons
      <4> QED
        BY <3>1, <4>3 DEF Complete, Return, Pending
    <3>2. CASE Fail(l)
      BY <3>2 DEF Fail, Return, Reasons
    <3> QED
      BY <1>3, <3>1, <3>2 DEF VerifyEnd
  <2>2. token' = token /\ token[l] \in Tokens /\ Judge(l, token[l], result'[l], now)
    BY <1>3, <2>1 DEF VerifyEnd, VInv, LookupInv
  <2>3. /\ verdict' \in [Lookups -> Verdicts]
        /\ verdict'[l] # "pending"
        /\ \A m \in Lookups : m # l => verdict'[m] = verdict[m]
    BY <1>0, <2>1, <2>2, JudgeVerdict
  <2> QED
    BY <1>0, <2>1, <2>2, <2>3 DEF VInv, LookupInv, Pending
<1>4. ASSUME NEW l \in Lookups, Forget(l)
      PROVE  VInv'
  <2>1. /\ token' = [token EXCEPT ![l] = NoToken]
        /\ verdict' = [verdict EXCEPT ![l] = "pending"]
    BY <1>4 DEF Forget
  <2>2. CASE /\ pc' = [pc EXCEPT ![l] = "idle"]
             /\ result' = [result EXCEPT ![l] = "pending"]
    BY <1>0, <2>1, <2>2 DEF VInv, LookupInv, Pending, Verdicts, Reasons
  <2>3. CASE pc[l] = "idle" /\ pc' = pc /\ result' = result
    BY <1>0, <2>1, <2>3 DEF VInv, LookupInv, Pending, Verdicts, Reasons
  <2> QED
    BY <1>4, <2>2, <2>3 DEF Forget, Leave, Cancel, Reset, vars
<1>5. ASSUME NEW l \in Lookups, Answer(l), UNCHANGED <<token, verdict>>
      PROVE  VInv'
  BY <1>0, <1>5 DEF Answer, VInv, LookupInv, Pending
<1>6. CASE (Publish \/ Tick) /\ UNCHANGED <<token, verdict>>
  BY <1>6 DEF Publish, Tick, VInv, LookupInv, Pending
<1>7. CASE UNCHANGED verifierVars
  BY <1>7 DEF verifierVars, vars, VInv, LookupInv, Pending
<1> QED
  BY <1>1, <1>2, <1>3, <1>4, <1>5, <1>6, <1>7 DEF VerifierNext

LEMMA VerifierInitInv == VerifierInit => VInv
BY DEF VerifierInit, Init, VInv, LookupInv, Pending, Verdicts, Reasons

\* The inductive invariant of the cache and of the requests that use it.
THEOREM VerifierInvariance == VerifierSpec => [](JInv /\ VInv)
<1>1. VerifierSpec => []JInv
  BY VerifierKeepsCache, CacheInvariance, PTL
<1>2. JInv /\ JInv' /\ VInv /\ [VerifierNext]_verifierVars => VInv'
  BY VStep
<1>3. VerifierInit => VInv
  BY VerifierInitInv
<1> QED
  BY <1>1, <1>2, <1>3, PTL DEF VerifierSpec

\* Every request has a token and a verdict of the right kind; none is done unjudged.
THEOREM VerifierTypes == VerifierSpec => []VerifierTypeOK
<1>1. JInv /\ VInv => VerifierTypeOK
  BY DEF JInv, VInv, VerifierTypeOK
<1> QED
  BY <1>1, VerifierInvariance, PTL

(***************************************************************************)
(* What a verification that ends well has: the key get_key returned in     *)
(* this very step, and a token without fault under that key.               *)
(***************************************************************************)
LEMMA GoodVerdict ==
  ASSUME JInv, VInv, JInv', VerifierNext, NEW l \in Lookups,
         verdict[l] = "pending", verdict'[l] \in {"admitted", "insufficient_scope"}
  PROVE  /\ pc[l] # "done" /\ Accepted(l)'
         /\ token'[l] \in Tokens /\ Faultless(token'[l], result'[l], now)
<1>0. /\ now \in Nat /\ pc \in [Lookups -> {"idle", "fetching", "answered", "done"}]
      /\ result \in [Lookups -> Kids \cup Reasons]
      /\ result' \in [Lookups -> Kids \cup Reasons]
      /\ token \in [Lookups -> Tokens \cup {NoToken}] /\ verdict \in [Lookups -> Verdicts]
  BY TimeAssumption DEF JInv, TypeOK, VInv
<1>1. CASE \E t \in Tokens : VerifyStart(l, t)
  <2>1. PICK t \in Tokens : VerifyStart(l, t)
    BY <1>1
  <2>2. /\ pc[l] = "idle" /\ token' = [token EXCEPT ![l] = t]
        /\ Judge(l, t, result'[l], now)
        /\ \/ pc' = [pc EXCEPT ![l] = "fetching"] /\ result' = result
           \/ pc' = [pc EXCEPT ![l] = "done"]
    BY <2>1 DEF VerifyStart, GetKey, Return
  <2>3. result'[l] \in Kids /\ Faultless(t, result'[l], now)
    BY <1>0, <2>2, JudgeVerdict
  <2>4. pc'[l] = "done"
    BY <1>0, <2>2, <2>3, KidsAssumption DEF VInv, LookupInv, Reasons
  <2> QED
    BY <1>0, <2>2, <2>3, <2>4 DEF Accepted
<1>2. CASE VerifyEnd(l)
  <2>1. /\ Pending(l) /\ token' = token /\ token[l] \in Tokens
        /\ pc' = [pc EXCEPT ![l] = "done"]
        /\ Judge(l, token[l], result'[l], now)
    BY <1>2 DEF VerifyEnd, Complete, Fail, Return, Pending, VInv, LookupInv
  <2>2. result'[l] \in Kids /\ Faultless(token[l], result'[l], now)
    BY <1>0, <2>1, JudgeVerdict
  <2> QED
    BY <1>0, <2>1, <2>2 DEF Accepted, Pending
<1>3. ASSUME NEW m \in Lookups, NEW t \in Tokens, VerifyMalformed(m, t)
      PROVE  FALSE
  BY <1>0, <1>3 DEF VerifyMalformed
<1>4. ASSUME NEW m \in Lookups, Forget(m)
      PROVE  FALSE
  BY <1>0, <1>4 DEF Forget
<1>5. ASSUME NEW m \in Lookups \ {l},
             VerifyEnd(m) \/ \E t \in Tokens : VerifyStart(m, t)
      PROVE  FALSE
  <2>1. PICK t, r : Judge(m, t, r, now)
    BY <1>5 DEF VerifyEnd, VerifyStart
  <2> QED
    BY <1>0, <2>1 DEF Judge
<1>6. CASE (Publish \/ Tick \/ \E m \in Lookups : Answer(m)) /\ UNCHANGED <<token, verdict>>
  BY <1>6
<1> QED
  BY <1>1, <1>2, <1>3, <1>4, <1>5, <1>6 DEF VerifierNext

\* An admitted token is valid at the moment, and under a key published less than a TTL ago.
THEOREM AdmittedTokens == VerifierSpec => AdmittedIsValid
<1> DEFINE Valid ==
      \A l \in Lookups :
        /\ verdict[l] = "pending"
        /\ verdict'[l] \in {"admitted", "insufficient_scope"}
        => LET t == token'[l] IN
           /\ now < t.exp + Leeway /\ t.nbf - Leeway <= now
           /\ t.complete /\ t.issuer /\ t.audience
           /\ \E v \in 1 .. Served :
                t.signer \in documents[v] /\ ServedSince(v, now - (TTL - 1) - MaxDelay)
<1>1. ASSUME JInv, VInv, JInv', VerifierNext
      PROVE  Valid
  <2> SUFFICES ASSUME NEW l \in Lookups, verdict[l] = "pending",
                      verdict'[l] \in {"admitted", "insufficient_scope"}
               PROVE  LET t == token'[l] IN
                      /\ now < t.exp + Leeway /\ t.nbf - Leeway <= now
                      /\ t.complete /\ t.issuer /\ t.audience
                      /\ \E v \in 1 .. Served :
                           /\ t.signer \in documents[v]
                           /\ ServedSince(v, now - (TTL - 1) - MaxDelay)
    BY Zenon
  <2>1. /\ pc[l] # "done" /\ Accepted(l)'
        /\ token'[l] \in Tokens /\ Faultless(token'[l], result'[l], now)
    BY <1>1, GoodVerdict
  <2>2. PICK v \in 1 .. Served : /\ result'[l] \in documents[v]
                                 /\ ServedSince(v, now - (TTL - 1) - MaxDelay)
    <3>1. Next \/ UNCHANGED vars
      BY <1>1, StepIsCacheStep
    <3>2. Next
      BY <2>1, <3>1 DEF Accepted, vars
    <3> QED
      BY <1>1, <2>1, <3>2, AcceptIsRecent
  <2>3. token'[l].exp \in Int /\ token'[l].nbf \in Int /\ now \in Int
    BY <1>1, <2>1, TokensAssumption, TimeAssumption DEF JInv, TypeOK
  <2>4. now < token'[l].exp + Leeway /\ token'[l].nbf - Leeway <= now
    BY <2>1, <2>3, LeewayAssumption DEF Faultless
  <2> QED
    BY <2>1, <2>2, <2>4 DEF Faultless
<1>2. JInv /\ VInv /\ JInv' /\ [VerifierNext]_verifierVars => [Valid]_verifierVars
  BY <1>1
<1> QED
  BY <1>2, VerifierInvariance, PTL DEF VerifierSpec, AdmittedIsValid
=============================================================================
