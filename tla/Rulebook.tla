------------------------------ MODULE Rulebook ------------------------------
(***************************************************************************)
(* The registry of camt053_mcp/rulebook.py, the lexical-vector search over *)
(* it of camt053_mcp/vector_search.py, and the clauses that the resource   *)
(* bank_session_context of camt053_mcp/server.py recommends by name.  A    *)
(* clause is its key; its texts, and the order of lists, are left out.     *)
(***************************************************************************)
EXTENDS Integers, FiniteSets, FiniteSetsExt

CONSTANT NoFilter   \* None

Key(scheme, version, clause) == [scheme |-> scheme, version |-> version, clause |-> clause]

\* What the module registers when it is imported, in its order.
Registered == <<
  Key("CBPR+", "2026", "structured-address-mandate-nov-2026"),
  Key("CBPR+", "2026", "exceptions-investigations-camt-110-111"),
  Key("CBPR+", "2026", "uetr-mandatory"),
  Key("SEPA", "2025", "iban-only"),
  Key("SEPA", "2025", "remittance-info-max-140"),
  Key("SEPA", "2025", "instant-10-seconds"),
  Key("SEPA", "2025", "verification-of-payee"),
  Key("HVPS+", "2026", "t2-rtgs-uplift-mr2026"),
  Key("HVPS+", "2026", "structured-address-alignment")>>

\* _register raises for a key it has: the module with it could not be imported.
ASSUME RegisterAssumption ==
  \A i, j \in DOMAIN Registered : Registered[i] = Registered[j] => i = j

Registry == {Registered[i] : i \in DOMAIN Registered}

\* list_clauses
Listed(scheme, version) ==
  {k \in Registry : scheme \in {NoFilter, k.scheme} /\ version \in {NoFilter, k.version}}

\* cite
Citable(key) == key \in Registry

\* Mutant: a clause is recommended under the version its scheme does not have.
RecommendedMisnamed(euOrUk) ==
  {Key("CBPR+", "2026", "structured-address-mandate-nov-2026"),
   Key("CBPR+", "2026", "uetr-mandatory"),
   Key("HVPS+", "2026", "t2-rtgs-uplift-mr2026")} \cup
  (IF euOrUk THEN {Key("SEPA", "2026", "iban-only")} ELSE {})

\* bank_session_context: three clauses for everyone, three more for a bank of the EU or UK.
Recommended(euOrUk) ==
  {Key("CBPR+", "2026", "structured-address-mandate-nov-2026"),
   Key("CBPR+", "2026", "uetr-mandatory"),
   Key("HVPS+", "2026", "t2-rtgs-uplift-mr2026")} \cup
  IF euOrUk THEN {Key("SEPA", "2025", "iban-only"),
                  Key("SEPA", "2025", "remittance-info-max-140"),
                  Key("SEPA", "2025", "verification-of-payee")}
  ELSE {}
-----------------------------------------------------------------------------
\* What search finds of its machine: no sqlite-vec, an interpreter that loads no
\* extensions, an extension that does not load, or one that does.
Machines == {"noExtra", "noExtensions", "unloadable", "loadable"}
Unavailable == {"noExtra", "noExtensions"}

\* The arguments search refuses before it looks at the corpus.
BadSearch(q) == q.blank \/ q.topK < 1

\* What the index may answer (external): the rows of as many clauses as were asked for
\* and there are; a query without a token is the zero vector, which is at no distance
\* from any clause, and float(None) raises.
Rankings(q, corpus) ==
  kSubset(IF q.topK < Cardinality(corpus) THEN q.topK ELSE Cardinality(corpus), corpus)
=============================================================================
