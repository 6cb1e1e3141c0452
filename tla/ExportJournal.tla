---------------------------- MODULE ExportJournal ---------------------------
(***************************************************************************)
(* camt053_mcp/export_journal.py: the booked entries of a statement, as    *)
(* Xero bank transactions or as QuickBooks Online journal entries.         *)
(***************************************************************************)
EXTENDS Entries

CONSTANT OperatorFill

ASSUME FillAssumption ==
  OperatorFill \notin Int \cup {NaN, "RECEIVE", "SPEND", "Debit", "Credit"}

SupportedTargets == {"xero", "qbo"}

\* entry.get(f) or OPERATOR_FILL
OrFill(text) == IF text = NoText THEN OperatorFill ELSE text

\* entry.get("credit_debit_indicator") or "CRDT"
Indicator(entry) == IF entry.indicator = NoText THEN "CRDT" ELSE entry.indicator

\* entry.get("amount") or "0.00"
Amount(entry) == IF entry.amount = NoAmount THEN 0 ELSE entry.amount

\* The first of two texts that is there.
FirstText(a, b) == IF a # NoText THEN a ELSE b

\* bookingDate is a number, 0 when missing; so is valueDate.
Date(entry) ==
  IF entry.bookingDate # 0 THEN entry.bookingDate
  ELSE IF entry.valueDate # 0 THEN entry.valueDate ELSE OperatorFill

XeroBankTransaction(entry) ==
  [type        |-> IF Indicator(entry) = "CRDT" THEN "RECEIVE" ELSE "SPEND",
   reference   |-> OrFill(entry.reference),
   date        |-> Date(entry),
   bankAccount |-> OperatorFill,
   contact     |-> OrFill(FirstText(entry.partyName, entry.partyAccount)),
   currency    |-> OrFill(entry.currency),
   unitAmount  |-> Amount(entry),
   accountCode |-> OperatorFill]

\* Mutant: the bank line of a journal entry always debits.
QboBankAlwaysDebit(entry) ==
  [txnDate       |-> Date(entry),
   docNumber     |-> OrFill(entry.reference),
   bankAmount    |-> Amount(entry),
   bankPosting   |-> "Debit",
   bankAccount   |-> OperatorFill,
   offsetAmount  |-> Amount(entry),
   offsetPosting |-> "Credit",
   offsetAccount |-> OperatorFill]

\* The two lines of a journal entry are nested in it; their fields are named after them.
QboJournalEntry(entry) ==
  LET credit == Indicator(entry) = "CRDT"
  IN  [txnDate       |-> Date(entry),
       docNumber     |-> OrFill(entry.reference),
       bankAmount    |-> Amount(entry),
       bankPosting   |-> IF credit THEN "Debit" ELSE "Credit",
       bankAccount   |-> OperatorFill,
       offsetAmount  |-> Amount(entry),
       offsetPosting |-> IF credit THEN "Credit" ELSE "Debit",
       offsetAccount |-> OperatorFill]

\* _count_placeholders: the fields of all payloads that hold OPERATOR_FILL.
Fills(payload) == {f \in DOMAIN payload : payload[f] = OperatorFill}

CountPlaceholders(payloads) ==
  Cardinality(UNION {{i} \X Fills(payloads[i]) : i \in DOMAIN payloads})

Export(entries, target) ==
  IF target \notin SupportedTargets THEN [kind |-> "error"]
  ELSE LET payloads == [i \in DOMAIN entries |->
             IF target = "xero" THEN XeroBankTransaction(entries[i])
             ELSE QboJournalEntry(entries[i])]
       IN  [kind |-> "export", target |-> target, entries |-> payloads,
            placeholders |-> CountPlaceholders(payloads)]
=============================================================================
