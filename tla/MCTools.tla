------------------------------- MODULE MCTools ------------------------------
(***************************************************************************)
(* Statements small enough to enumerate, and each large enough for the     *)
(* rule it is for: three entries that share keys in every way; fees at,    *)
(* under and over a quarter of two baselines, without one, or NaN; up to   *)
(* nine entries on three dates, past both factors of the median; pages at, *)
(* across and beyond the end of a list; the whole rulebook with one clause *)
(* that it lacks, and searches for none, one and more than all of its      *)
(* clauses.                                                                *)
(***************************************************************************)
EXTENDS Tools, TLC

CONSTANTS text1, text2   \* two texts: references or end-to-end ids

Bare == [reference |-> NoText, endToEndIds |-> {}, bookingDate |-> 0, valueDate |-> 0,
         amount |-> NoAmount, indicator |-> NoText, feeWord |-> FALSE, hasReason |-> FALSE,
         partyName |-> NoText, partyAccount |-> NoText, currency |-> NoText]

Payment(ref, ids) == [Bare EXCEPT !.reference = ref, !.endToEndIds = ids]
Fee(amount)       == [Bare EXCEPT !.amount = amount, !.indicator = "DBIT", !.feeWord = TRUE]
Ordinary(amount)  == [Bare EXCEPT !.amount = amount, !.indicator = "DBIT"]
Dated(d)          == [Bare EXCEPT !.bookingDate = d]
Numbered(n)       == [Bare EXCEPT !.amount = n, !.hasReason = (n # 2)]

Copies(n, e) == [i \in 1 .. n |-> e]
UpTo(n, S)   == UNION {[1 .. m -> S] : m \in 0 .. n}

SharedKeys ==
  LET one == Payment(NoText, {text1})
      two == Payment(NoText, {text1, text2})
      ref == Payment(text1, {})
  IN  UpTo(2, {one, two, ref, Payment(text1, {text2}), Bare}) \cup [1 .. 3 -> {one, two, ref}]

Named(ref, e) == [e EXCEPT !.reference = ref]

Fees ==
  LET fee == Named(text1, Fee(3))
  IN  UpTo(2, {Fee(NoAmount), Fee(2), fee, Named(text1, Ordinary(8)), Ordinary(12),
               Ordinary(NoAmount)})
      \cup [1 .. 3 -> {fee, Ordinary(8), Ordinary(12)}]
      \cup [1 .. 2 -> {Ordinary(8), Fee(NaN), Ordinary(NaN)}]

Busy == {Copies(a, Dated(1)) \o Copies(b, Dated(2)) \o Copies(c, Dated(3)) :
           a \in {1, 2}, b \in {0, 1}, c \in {1, 3, 4, 6}}

List3 == <<Numbered(1), Numbered(2), Numbered(3)>>

Booked1 == [Bare EXCEPT !.indicator = "CRDT", !.amount = 5, !.currency = text1,
                        !.partyName = text2, !.valueDate = 1]
Booked2 == [Bare EXCEPT !.indicator = "DBIT", !.amount = 7, !.partyAccount = text2,
                        !.reference = text1, !.bookingDate = 2]

MCRequests ==
  [tool : {"list_entries", "filter_entries"}, xml : {List3}, offset : {-1, 0, 1, 2, 3},
   limit : {NoLimit, -1, 1, 2}] \cup
  [tool : {"list_entries"}, xml : {Malformed}, offset : {0}, limit : {NoLimit}] \cup
  [tool : {"detect_statement_anomalies"}, xml : SharedKeys \cup Fees \cup Busy] \cup
  [tool : {"export_journal"}, xml : UpTo(2, {Bare, Booked1, Booked2}) \cup {Malformed},
   target : {"xero", "qbo"}] \cup
  [tool : {"export_journal"}, xml : {<<Booked1>>}, target : {"sap"}] \cup
  [tool : Fallible, refused : BOOLEAN] \cup
  [tool : Delegated, refused : {FALSE}] \cup
  [tool : {"classify_entry"}, capable : BOOLEAN] \cup
  [tool : {"cite_rulebook"},
   key : Registry \cup {Key("SEPA", "2026", "iban-only")}] \cup
  [tool : {"list_rulebook_clauses"}, scheme : {NoFilter, "SEPA", "HVPS+"},
   version : {NoFilter, "2025", "2026"}] \cup
  [tool : {"search_rulebook_vector"}, blank : {FALSE}, tokenless : BOOLEAN, topK : {0, 1, 10}] \cup
  [tool : {"search_rulebook_vector"}, blank : {TRUE}, tokenless : {TRUE}, topK : {5}] \cup
  [tool : {"bank_session_context"}, wellFormed : BOOLEAN, euOrUk : BOOLEAN] \cup
  [tool : CatalogResources, refused : BOOLEAN]

MCAdapted ==
  [tool : {"list_entries"}, xml : {List3}, offset : {1}, limit : {2}] \cup
  [tool : {"export_journal"}, xml : {<<Booked1>>}, target : {"qbo"}] \cup
  [tool : {"cite_rulebook"}, key : {Registered[1], Registered[4]}] \cup
  [tool : {"classify_entry"}, capable : {TRUE}]

MCTexts == {text1, text2}
MCRanks == {r \in [{text1, text2} -> 1 .. 2] : r[text1] # r[text2]}

MCSymmetry == Permutations(Calls)
=============================================================================
