---------------------------- MODULE JwtVerifier -----------------------------
(***************************************************************************)
(* JWTVerifier.verify of camt053_mcp/oauth.py on top of the key cache.     *)
(* verify suspends only in get_key; the signature and the claims of the    *)
(* token are judged in the step that returns the key, by the clock of that *)
(* step.  Whether a signature matches a key is a field of the token, and   *)
(* a key id names one key.  The wall clock, by which PyJWT judges, and the *)
(* monotonic one run alike.                                                *)
(***************************************************************************)
EXTENDS JWKSCache

CONSTANTS Tokens,  \* the tokens requests bear
          Leeway   \* CLOCK_SKEW_LEEWAY_S, in ticks

ASSUME LeewayAssumption == Leeway \in Nat

ASSUME TokensAssumption ==
  Tokens \subseteq [wellFormed : BOOLEAN,
                    kid : Kids \cup {NoKid},
                    signer : Kids \cup {NoKid},   \* whose key made the signature, if any
                    algorithm : BOOLEAN,          \* names the algorithm of the key
                    complete : BOOLEAN,           \* has exp, iss and aud
                    nbf : Int, exp : Int,
                    issuer : BOOLEAN, audience : BOOLEAN,
                    scopes : BOOLEAN]             \* has the required scopes

VARIABLES
  token,   \* token[l]: the token of lookup l
  verdict  \* verdict[l]: "admitted", the reason code of the refusal, or "pending"

verifierVars == <<vars, token, verdict>>

NoToken == [wellFormed |-> FALSE]

VerifierInit ==
  /\ Init
  /\ token = [l \in Lookups |-> NoToken]
  /\ verdict = [l \in Lookups |-> "pending"]
-----------------------------------------------------------------------------
Check(ok, reason) == [ok |-> ok, reason |-> reason]

\* What jwt.decode and verify look at, in their order, with the key k they were given.
Checks(t, k, time) == <<
  Check(t.algorithm, "invalid_token"),
  Check(t.signer = k, "signature_invalid"),
  Check(t.complete, "missing_required_claim"),
  Check(t.nbf <= time + Leeway, "token_not_yet_valid"),
  Check(t.exp > time - Leeway, "token_expired"),
  Check(t.issuer, "issuer_mismatch"),
  Check(t.audience, "audience_mismatch"),
  Check(t.scopes, "insufficient_scope")>>

\* The first check that fails gives the reason.
Decode(t, k, time) ==
  LET checks == Checks(t, k, time)
      failed == {i \in DOMAIN checks : ~ checks[i].ok}
  IN  IF failed = {} THEN "admitted"
      ELSE checks[CHOOSE i \in failed : \A j \in failed : i <= j].reason

\* Mutant: the claims are judged by the time the keys were served, before the await ends.
JudgeStale(l, t, r, time) ==
  verdict' = [verdict EXCEPT ![l] =
    CASE r = "pending" -> "pending"
      [] r \in Kids    -> Decode(t, r, IF pc[l] = "answered" THEN servedAt[l] ELSE time)
      [] OTHER         -> r]

\* get_key still fetches; or it returned the key r, or refused with the reason r.
Judge(l, t, r, time) ==
  verdict' = [verdict EXCEPT ![l] =
    CASE r = "pending" -> "pending"
      [] r \in Kids    -> Decode(t, r, time)
      [] OTHER         -> r]

\* A token whose header cannot be read is refused before any key is looked up.
VerifyMalformed(l, t) ==
  /\ pc[l] = "idle"
  /\ verdict[l] = "pending"
  /\ ~ t.wellFormed
  /\ token' = [token EXCEPT ![l] = t]
  /\ verdict' = [verdict EXCEPT ![l] = "malformed_token"]
  /\ UNCHANGED vars

\* verify up to the await in get_key, or to its end when the cached keys serve.
VerifyStart(l, t) ==
  /\ verdict[l] = "pending"
  /\ t.wellFormed
  /\ GetKey(l, t.kid)
  /\ token' = [token EXCEPT ![l] = t]
  /\ Judge(l, t, result'[l], now)

\* get_key resumes with a key or a refusal.
VerifyEnd(l) ==
  /\ Complete(l) \/ Fail(l)
  /\ Judge(l, token[l], result'[l], now)
  /\ UNCHANGED token

\* The request is over, or is cancelled while it waits.
Forget(l) ==
  /\ \/ Leave(l) \/ Cancel(l)
     \/ pc[l] = "idle" /\ verdict[l] = "malformed_token" /\ UNCHANGED vars
  /\ token' = [token EXCEPT ![l] = NoToken]
  /\ verdict' = [verdict EXCEPT ![l] = "pending"]

VerifierNext ==
  \/ \E l \in Lookups, t \in Tokens : VerifyMalformed(l, t) \/ VerifyStart(l, t)
  \/ \E l \in Lookups : VerifyEnd(l) \/ Forget(l)
  \/ /\ Publish \/ Tick \/ \E l \in Lookups : Answer(l)
     /\ UNCHANGED <<token, verdict>>

(***************************************************************************)
(* httpx ends a fetch: every connect, write and read of it times out after *)
(* ten seconds, and a response body is finite.  The event loop resumes a   *)
(* coroutine whose fetch has ended.  The provider owes nobody an answer.   *)
(***************************************************************************)
VerifierFairness == \A l \in Lookups : WF_verifierVars(VerifyEnd(l))

VerifierSpec == VerifierInit /\ [][VerifierNext]_verifierVars /\ VerifierFairness
-----------------------------------------------------------------------------
Verdicts == {"admitted", "malformed_token", "invalid_token", "signature_invalid",
             "missing_required_claim", "token_not_yet_valid", "token_expired",
             "issuer_mismatch", "audience_mismatch", "insufficient_scope"} \cup Reasons

VerifierTypeOK ==
  /\ TypeOK
  /\ token \in [Lookups -> Tokens \cup {NoToken}]
  /\ verdict \in [Lookups -> Verdicts]
  /\ \A l \in Lookups : pc[l] = "done" => verdict[l] # "pending"

(***************************************************************************)
(* A token is admitted, or refused for its scopes only (the 403 that tells *)
(* the client its token is otherwise good), by the clock of that moment,   *)
(* however long the keys were awaited: it is signed by a key the provider  *)
(* still published less than a TTL ago, it has not expired, it is already  *)
(* valid, and it is meant for this server.                                 *)
(***************************************************************************)
AdmittedIsValid ==
  [][\A l \in Lookups :
       /\ verdict[l] = "pending"
       /\ verdict'[l] \in {"admitted", "insufficient_scope"}
       => LET t == token'[l] IN
          /\ now < t.exp + Leeway /\ t.nbf - Leeway <= now
          /\ t.complete /\ t.issuer /\ t.audience
          /\ \E v \in 1 .. Served :
               t.signer \in documents[v] /\ ServedSince(v, now - (TTL - 1) - MaxDelay)]_verifierVars
=============================================================================
