------------------------------ MODULE Anomalies -----------------------------
(***************************************************************************)
(* detect_anomalies of camt053_mcp/server.py: three fixed rules over the   *)
(* parsed entries of a statement.  Where the code iterates a Python set of *)
(* strings, the order is the one the process's hash seed gives it: a       *)
(* ranking of the texts.                                                   *)
(***************************************************************************)
EXTENDS Entries

\* _entry_label: the reference, else the entry's position.
EntryLabel(entries, i) == IF entries[i].reference # NoText THEN entries[i].reference ELSE i

Labels(entries, I) ==
  [n \in 1 .. Cardinality(I) |-> EntryLabel(entries, Ascending(I)[n])]
-----------------------------------------------------------------------------
(***************************************************************************)
(* _duplicate_reference_anomalies                                          *)
(***************************************************************************)

\* The end-to-end ids of an entry; its reference when it has none.
Keys(entry) ==
  IF entry.endToEndIds # {} THEN entry.endToEndIds
  ELSE {entry.reference} \ {NoText}

\* groups: the keys, each with the entries that have it.
Groups(entries)     == UNION {Keys(entries[i]) : i \in DOMAIN entries}
Group(entries, key) == {i \in DOMAIN entries : key \in Keys(entries[i])}
FirstOf(entries, key) ==
  CHOOSE i \in Group(entries, key) : \A j \in Group(entries, key) : i <= j

\* A dict keeps the order in which its keys were met; those of one entry are met in the
\* order their set yields them.
MetBefore(entries, rank) ==
  {p \in Groups(entries) \X Groups(entries) :
     LET first == FirstOf(entries, p[1])
         other == FirstOf(entries, p[2])
     IN  first < other \/ (first = other /\ rank[p[1]] < rank[p[2]])}

Duplicate(entries, key) ==
  [type |-> "duplicate_reference", severity |-> "HIGH", about |-> key,
   refs |-> Labels(entries, Group(entries, key))]

\* Mutant: only the first key that the set of an entry yields is looked at.
DuplicateFirstKeys(entries, rank) ==
  LET Has(i, k) == k \in Keys(entries[i]) /\ \A j \in Keys(entries[i]) : rank[k] <= rank[j]
      twice == {k \in Groups(entries) : Cardinality({i \in DOMAIN entries : Has(i, k)}) > 1}
      order == Sorted(twice, MetBefore(entries, rank))
  IN  [n \in DOMAIN order |-> Duplicate(entries, order[n])]

\* Mutant: a group is reported when it has two entries, and no longer with a third.
DuplicatePairs(entries, rank) ==
  LET twice == {k \in Groups(entries) : Cardinality(Group(entries, k)) = 2}
      order == Sorted(twice, MetBefore(entries, rank))
  IN  [n \in DOMAIN order |-> Duplicate(entries, order[n])]

Doubled(entries) == {k \in Groups(entries) : Cardinality(Group(entries, k)) > 1}

\* The groups of two entries or more.
DuplicateReferences(entries, rank) ==
  LET order == Sorted(Doubled(entries), MetBefore(entries, rank))
  IN  [n \in 1 .. Cardinality(Doubled(entries)) |-> Duplicate(entries, order[n])]
-----------------------------------------------------------------------------
(***************************************************************************)
(* _fee_anomalies                                                          *)
(***************************************************************************)

\* A debit whose texts hold a fee keyword.
LooksLikeFee(entry) == entry.indicator = "DBIT" /\ entry.feeWord

FeeIndices(entries) == {i \in DOMAIN entries : LooksLikeFee(entries[i])}

Principals(entries) ==
  {entries[i].amount : i \in {j \in DOMAIN entries \ FeeIndices(entries) :
                                entries[j].amount \notin {NoAmount, NaN} /\
                                entries[j].amount > 0}}

\* Decimal("NaN") > 0, or > the threshold, raises InvalidOperation: with a fee on the
\* statement, every ordinary amount is compared; with an ordinary amount, every fee.
Incomparable(entries) ==
  \E i \in FeeIndices(entries), j \in DOMAIN entries :
    entries[j].amount = NaN /\ (j \in FeeIndices(entries) => Principals(entries) # {})

\* Mutant: the smallest ordinary amount is the yardstick.
BaselineSmallest(entries) ==
  CHOOSE m \in Principals(entries) : \A p \in Principals(entries) : m <= p

Baseline(entries) ==
  CHOOSE m \in Principals(entries) : \A p \in Principals(entries) : p <= m

\* A fee above a quarter of the largest ordinary amount.
UnusualFeeAt(entries) ==
  {i \in FeeIndices(entries) :
     /\ Principals(entries) # {}
     /\ entries[i].amount \notin {NoAmount, NaN}
     /\ 4 * entries[i].amount > Baseline(entries)}

UnusualFees(entries) ==
  LET order == Ascending(UnusualFeeAt(entries))
  IN  [n \in 1 .. Cardinality(UnusualFeeAt(entries)) |->
         [type |-> "unusual_fee", severity |-> "MEDIUM", about |-> NoText,
          refs |-> <<EntryLabel(entries, order[n])>>]]
-----------------------------------------------------------------------------
(***************************************************************************)
(* _velocity_anomalies                                                     *)
(***************************************************************************)

\* Booking dates are positive numbers; 0 is a missing one.
Dates(entries)    == {entries[i].bookingDate : i \in DOMAIN entries} \ {0}
Booked(entries, d) == {i \in DOMAIN entries : entries[i].bookingDate = d}
Count(entries, d)  == Cardinality(Booked(entries, d))

\* Dates with fewer entries first.
Quieter(entries) ==
  {p \in Dates(entries) \X Dates(entries) :
     \/ Count(entries, p[1]) < Count(entries, p[2])
     \/ Count(entries, p[1]) = Count(entries, p[2]) /\ p[1] < p[2]}

\* Mutant: the lower of the two middle counts.
TwiceMedianLow(entries) ==
  LET order == Sorted(Dates(entries), Quieter(entries))
  IN  2 * Count(entries, order[(Cardinality(Dates(entries)) + 1) \div 2])

\* Twice the median of the counts: the sum of the two middle ones (of the middle one,
\* with itself, when their number is odd).
TwiceMedian(entries) ==
  LET n     == Cardinality(Dates(entries))
      order == Sorted(Dates(entries), Quieter(entries))
  IN  Count(entries, order[(n + 1) \div 2]) + Count(entries, order[(n + 2) \div 2])

Spikes(entries, factor) ==
  {d \in Dates(entries) : Cardinality(Dates(entries)) > 1 /\
                          2 * Count(entries, d) > factor * TwiceMedian(entries)}

VelocitySpikes(entries) ==
  LET order == Ascending(Spikes(entries, 3))
  IN  [n \in 1 .. Cardinality(Spikes(entries, 3)) |->
         [type |-> "velocity_spike",
          severity |-> IF order[n] \in Spikes(entries, 5) THEN "MEDIUM" ELSE "LOW",
          about |-> order[n], refs |-> Labels(entries, Booked(entries, order[n]))]]

DetectAnomalies(entries, rank) ==
  DuplicateReferences(entries, rank) \o UnusualFees(entries) \o VelocitySpikes(entries)
=============================================================================
