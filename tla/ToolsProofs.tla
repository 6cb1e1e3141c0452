----------------------------- MODULE ToolsProofs ----------------------------
(***************************************************************************)
(* Proofs about the tools, for statements of any length and any requests,  *)
(* calls and hash seeds.  First what the operators return that the tools   *)
(* are built from: sorting, pages, findings, exports, the rulebook, the    *)
(* outcome of a value; then the invariant of the module and the properties *)
(* that follow from it.                                                    *)
(***************************************************************************)
EXTENDS Tools, SequenceTheorems, FiniteSetTheorems, TLAPS

-----------------------------------------------------------------------------
(***************************************************************************)
(* Sorting.                                                                *)
(***************************************************************************)

\* `before` orders the members of S.
Orders(before, S) ==
  /\ \A a \in S : <<a, a>> \notin before
  /\ \A a, b \in S : a = b \/ <<a, b>> \in before \/ <<b, a>> \in before
  /\ \A a, b, c \in S : <<a, b>> \in before /\ <<b, c>> \in before => <<a, c>> \in before

\* How many members of S are before a.
Place(S, before, a) == Cardinality({b \in S : <<b, a>> \in before})

\* The place of a member is a number below the size of the set, and grows with the order.
LEMMA Places ==
  ASSUME NEW S, IsFiniteSet(S), NEW before, Orders(before, S)
  PROVE  /\ Cardinality(S) \in Nat
         /\ \A a \in S : Place(S, before, a) \in 0 .. Cardinality(S) - 1
         /\ \A a, b \in S : <<a, b>> \in before => Place(S, before, a) < Place(S, before, b)
         /\ \A a, b \in S : Place(S, before, a) = Place(S, before, b) => a = b
<1> DEFINE B(a) == {b \in S : <<b, a>> \in before}
<1>1. Cardinality(S) \in Nat
  BY FS_CardinalityType
<1>2. ASSUME NEW a \in S
      PROVE  IsFiniteSet(B(a)) /\ Cardinality(B(a)) \in 0 .. Cardinality(S) - 1
  <2>1. B(a) \in SUBSET S /\ a \notin B(a)
    BY DEF Orders
  <2> HIDE DEF B
  <2>2. /\ IsFiniteSet(B(a))
        /\ Cardinality(B(a)) <= Cardinality(S)
        /\ Cardinality(S) = Cardinality(B(a)) => S = B(a)
    BY <2>1, FS_Subset
  <2>3. Cardinality(B(a)) \in Nat
    BY <2>2, FS_CardinalityType
  <2> QED
    BY <1>1, <2>1, <2>2, <2>3
<1>3. ASSUME NEW a \in S, NEW b \in S, <<a, b>> \in before
      PROVE  Cardinality(B(a)) < Cardinality(B(b))
  <2>1. B(a) \in SUBSET B(b) /\ a \in B(b) /\ a \notin B(a)
    BY <1>3 DEF Orders
  <2>2. IsFiniteSet(B(b)) /\ Cardinality(B(b)) \in Nat /\ Cardinality(B(a)) \in Nat
    BY <1>2
  <2> HIDE DEF B
  <2>3. /\ Cardinality(B(a)) <= Cardinality(B(b))
        /\ Cardinality(B(b)) = Cardinality(B(a)) => B(b) = B(a)
    BY <2>1, <2>2, FS_Subset
  <2> QED
    BY <2>1, <2>2, <2>3
<1>4. ASSUME NEW a \in S, NEW b \in S, Cardinality(B(a)) = Cardinality(B(b))
      PROVE  a = b
  <2>1. a = b \/ <<a, b>> \in before \/ <<b, a>> \in before
    BY DEF Orders
  <2>2. Cardinality(B(a)) \in Nat /\ Cardinality(B(b)) \in Nat
    BY <1>2
  <2> HIDE DEF B
  <2> QED
    BY <1>3, <1>4, <2>1, <2>2
<1> QED
  BY <1>1, <1>2, <1>3, <1>4 DEF Place

\* Sorting loses and repeats nothing, and puts every member after those before it.
LEMMA SortedLists ==
  ASSUME NEW S, IsFiniteSet(S), NEW before, Orders(before, S)
  PROVE  /\ Cardinality(S) \in Nat
         /\ \A n \in 1 .. Cardinality(S) :
              Sorted(S, before)[n] \in S /\ Place(S, before, Sorted(S, before)[n]) = n - 1
         /\ \A a \in S : /\ Place(S, before, a) + 1 \in 1 .. Cardinality(S)
                         /\ Sorted(S, before)[Place(S, before, a) + 1] = a
         /\ \A m, n \in 1 .. Cardinality(S) :
              m < n => <<Sorted(S, before)[m], Sorted(S, before)[n]>> \in before
<1> DEFINE k == Cardinality(S)
           f == [a \in S |-> Place(S, before, a)]
<1>1. /\ k \in Nat
      /\ \A a \in S : Place(S, before, a) \in 0 .. k - 1
      /\ \A a, b \in S : <<a, b>> \in before => Place(S, before, a) < Place(S, before, b)
      /\ \A a, b \in S : Place(S, before, a) = Place(S, before, b) => a = b
  BY Places
<1>2. f \in Injection(S, 0 .. k - 1)
  BY <1>1 DEF Injection, IsInjective
<1>3. IsFiniteSet(0 .. k - 1) /\ Cardinality(0 .. k - 1) = k
  <2>1. 0 \in Int /\ k - 1 \in Int
    BY <1>1
  <2> QED
    BY <1>1, <2>1, FS_Interval
<1>4. f \in Surjection(S, 0 .. k - 1)
  <2> HIDE DEF f
  <2> QED
    BY <1>2, <1>3, FS_Injection
<1>5. \A m \in 0 .. k - 1 : \E a \in S : Place(S, before, a) = m
  BY <1>4 DEF Surjection
<1>6. ASSUME NEW n \in 1 .. k
      PROVE  /\ Sorted(S, before)[n] \in S
             /\ Place(S, before, Sorted(S, before)[n]) = n - 1
  <2>1. n - 1 \in 0 .. k - 1
    BY <1>1
  <2>2. \E a \in S : Cardinality({b \in S : <<b, a>> \in before}) = n - 1
    BY <1>5, <2>1 DEF Place
  <2>3. Sorted(S, before)[n] = CHOOSE a \in S : Cardinality({b \in S : <<b, a>> \in before}) = n - 1
    BY DEF Sorted
  <2> QED
    BY <2>2, <2>3 DEF Place
<1>7. ASSUME NEW a \in S
      PROVE  /\ Place(S, before, a) + 1 \in 1 .. k
             /\ Sorted(S, before)[Place(S, before, a) + 1] = a
  <2>1. Place(S, before, a) + 1 \in 1 .. k
    BY <1>1
  <2>2. Place(S, before, Sorted(S, before)[Place(S, before, a) + 1]) = Place(S, before, a)
    BY <1>1, <1>6, <2>1
  <2> QED
    BY <1>1, <1>6, <2>1, <2>2
<1>8. ASSUME NEW m \in 1 .. k, NEW n \in 1 .. k, m < n
      PROVE  <<Sorted(S, before)[m], Sorted(S, before)[n]>> \in before
  <2> DEFINE a == Sorted(S, before)[m]
             b == Sorted(S, before)[n]
  <2>1. a \in S /\ b \in S /\ Place(S, before, a) = m - 1 /\ Place(S, before, b) = n - 1
    BY <1>6
  <2>2. ~ (Place(S, before, b) < Place(S, before, a)) /\ a # b
    BY <1>1, <1>8, <2>1
  <2> HIDE DEF a, b
  <2>3. <<a, b>> \in before
    BY <1>1, <2>1, <2>2 DEF Orders
  <2> QED
    BY <2>3 DEF a, b
<1> QED
  BY <1>1, <1>6, <1>7, <1>8

\* Numbers in ascending order: all of them, and the first ones of a set are those of the
\* set of its first ones.
LEMMA AscendingLists ==
  ASSUME NEW S \in SUBSET Int, IsFiniteSet(S)
  PROVE  /\ Cardinality(S) \in Nat
         /\ \A n \in 1 .. Cardinality(S) : Ascending(S)[n] \in S
         /\ \A a \in S : \E n \in 1 .. Cardinality(S) : Ascending(S)[n] = a
<1>1. Orders(Smaller(S), S)
  BY DEF Orders, Smaller
<1> QED
  BY <1>1, SortedLists DEF Ascending

LEMMA AscendingPrefix ==
  ASSUME NEW S \in SUBSET Int, IsFiniteSet(S), NEW m \in Int,
         NEW T, T = {a \in S : a <= m}
  PROVE  /\ Cardinality(T) \in Nat /\ Cardinality(S) \in Nat
         /\ Cardinality(T) <= Cardinality(S)
         /\ \A n \in 1 .. Cardinality(T) : Ascending(T)[n] = Ascending(S)[n]
<1>1. T \in SUBSET S /\ T \in SUBSET Int
  OBVIOUS
<1>2. /\ IsFiniteSet(T)
      /\ Cardinality(T) <= Cardinality(S)
      /\ Cardinality(T) \in Nat /\ Cardinality(S) \in Nat
  BY <1>1, FS_Subset, FS_CardinalityType
<1>3. Orders(Smaller(S), S) /\ Orders(Smaller(T), T)
  BY <1>1 DEF Orders, Smaller
<1>4. ASSUME NEW n \in 1 .. Cardinality(T)
      PROVE  Ascending(T)[n] = Ascending(S)[n]
  <2> DEFINE a == Ascending(T)[n]
  <2>1. a \in T /\ Place(T, Smaller(T), a) = n - 1
    BY <1>2, <1>3, SortedLists DEF Ascending
  <2> HIDE DEF a
  <2>2. {b \in T : <<b, a>> \in Smaller(T)} = {b \in S : <<b, a>> \in Smaller(S)}
    <3>1. a \in T /\ a \in S /\ a <= m /\ a \in Int
      BY <2>1
    <3>2. \A b \in T : <<b, a>> \in Smaller(T) <=> b < a
      BY <3>1 DEF Smaller
    <3>3. \A b \in S : <<b, a>> \in Smaller(S) <=> b < a
      BY <3>1 DEF Smaller
    <3>4. \A b \in S : b < a => b \in T
      BY <3>1
    <3> QED
      BY <1>1, <3>2, <3>3, <3>4
  <2>3. Place(S, Smaller(S), a) = n - 1
    BY <2>1, <2>2 DEF Place
  <2>4. Sorted(S, Smaller(S))[Place(S, Smaller(S), a) + 1] = a
    BY <1>1, <1>3, <2>1, SortedLists
  <2>5. Ascending(S)[n] = a
    BY <2>3, <2>4 DEF Ascending
  <2> QED
    BY <2>5 DEF a
<1> QED
  BY <1>2, <1>4

\* The entries at some positions of a list, in the order of the list, are a list.
LEMMA EntriesAtList ==
  ASSUME NEW X, NEW entries \in Seq(X), NEW I \in SUBSET DOMAIN entries
  PROVE  EntriesAt(entries, I) \in Seq(X)
<1>1. DOMAIN entries = 1 .. Len(entries) /\ Len(entries) \in Nat
  BY LenProperties
<1>2. IsFiniteSet(1 .. Len(entries))
  <2>1. 1 \in Int /\ Len(entries) \in Int
    BY <1>1
  <2> QED
    BY <2>1, FS_Interval
<1>3. IsFiniteSet(I) /\ I \in SUBSET Int
  BY <1>1, <1>2, FS_Subset
<1>4. /\ Cardinality(I) \in Nat
      /\ \A n \in 1 .. Cardinality(I) : Ascending(I)[n] \in I
  BY <1>3, AscendingLists
<1>5. \A n \in 1 .. Cardinality(I) : entries[Ascending(I)[n]] \in X
  BY <1>1, <1>4, ElementOfSeq
<1> QED
  BY <1>4, <1>5, IsASeq DEF EntriesAt
-----------------------------------------------------------------------------
(***************************************************************************)
(* Pages.                                                                  *)
(***************************************************************************)

\* Two consecutive slices are one slice, also where the first is cut off at the end of
\* the list or begins beyond it.
LEMMA SlicesJoin ==
  ASSUME NEW S, NEW entries \in Seq(S), NEW offset \in Nat, NEW l \in Nat, NEW m \in Nat
  PROVE  Slice(entries, offset, l) \o Slice(entries, offset + l, m)
           = Slice(entries, offset, l + m)
<1> DEFINE n == Len(entries)
           Upto(k) == IF offset + k < n THEN offset + k ELSE n
<1>1. n \in Nat
  BY LenProperties
<1>2. /\ Slice(entries, offset, l) = SubSeq(entries, offset + 1, Upto(l))
      /\ Slice(entries, offset + l, m) = SubSeq(entries, offset + l + 1, Upto(l + m))
      /\ Slice(entries, offset, l + m) = SubSeq(entries, offset + 1, Upto(l + m))
  <2>1. offset + l + m = offset + (l + m)
    OBVIOUS
  <2> QED
    BY <2>1 DEF Slice
<1>3. Upto(l) \in Nat /\ Upto(l + m) \in Nat /\ Upto(l) <= Upto(l + m) /\ Upto(l + m) <= n
  BY <1>1
<1>4. CASE offset + l < n
  <2>1. Upto(l) = offset + l
    BY <1>4
  <2>2. /\ offset + 1 \in 1 .. n + 1
        /\ Upto(l) \in offset + 1 - 1 .. n
        /\ Upto(l + m) \in Upto(l) .. n
    BY <1>1, <1>3, <1>4, <2>1
  <2>3. SubSeq(entries, offset + 1, Upto(l)) \o SubSeq(entries, Upto(l) + 1, Upto(l + m))
          = SubSeq(entries, offset + 1, Upto(l + m))
    <3> HIDE DEF n, Upto
    <3>1. /\ offset + 1 \in 1 .. Len(entries) + 1
          /\ Upto(l) \in (offset + 1) - 1 .. Len(entries)
          /\ Upto(l + m) \in Upto(l) .. Len(entries)
      BY <2>2 DEF n
    <3> QED
      BY <3>1, ConcatAdjacentSubSeq
  <2> QED
    BY <1>2, <2>1, <2>3
<1>5. CASE ~ (offset + l < n)
  <2>1. Upto(l) = n /\ Upto(l + m) = n
    BY <1>1, <1>5
  <2>2. SubSeq(entries, offset + l + 1, n) = <<>>
    BY <1>1, <1>5, SubSeqEmpty
  <2>3. SubSeq(entries, offset + 1, n) \in Seq(S)
    <3>1. \A i \in offset + 1 .. n : entries[i] \in S
      BY <1>1, ElementOfSeq
    <3> QED
      BY <1>1, <3>1, SubSeqProperties
  <2>4. SubSeq(entries, offset + 1, n) \o <<>> = SubSeq(entries, offset + 1, n)
    BY <2>3, ConcatEmptySeq
  <2> QED
    BY <1>2, <2>1, <2>2, <2>4
<1> QED
  BY <1>4, <1>5

\* What _paginate answers to two natural numbers is the page of that slice.
LEMMA PageOfSlice ==
  ASSUME NEW entries, NEW offset \in Nat, NEW limit \in Nat
  PROVE  /\ Paginate(entries, offset, limit).entries = Slice(entries, offset, limit)
         /\ Paginate(entries, offset, limit).total = Len(entries)
<1>1. Paginate(entries, offset, limit) =
        [kind |-> "page", total |-> Len(entries), offset |-> offset, limit |-> limit,
         entries |-> Slice(entries, offset, limit)]
  BY NoLimitAssumption DEF Paginate
<1> QED
  BY <1>1

\* The page after a page continues it without a gap or an overlap, for every list and
\* whatever the two limits, and both report the size of the list (_paginate).
THEOREM PagesContinue ==
  ASSUME NEW S, NEW entries \in Seq(S), NEW offset \in Nat, NEW l \in Nat, NEW m \in Nat
  PROVE  LET one == Paginate(entries, offset, l)
             two == Paginate(entries, offset + l, m)
             all == Paginate(entries, offset, l + m)
         IN  /\ one.entries \o two.entries = all.entries
             /\ one.total = Len(entries) /\ two.total = Len(entries)
<1>1. offset + l \in Nat /\ l + m \in Nat
  OBVIOUS
<1>2. /\ Paginate(entries, offset, l).entries = Slice(entries, offset, l)
      /\ Paginate(entries, offset, l).total = Len(entries)
  BY PageOfSlice
<1>3. /\ Paginate(entries, offset + l, m).entries = Slice(entries, offset + l, m)
      /\ Paginate(entries, offset + l, m).total = Len(entries)
  BY <1>1, PageOfSlice
<1>4. Paginate(entries, offset, l + m).entries = Slice(entries, offset, l + m)
  BY <1>1, PageOfSlice
<1>5. Slice(entries, offset, l) \o Slice(entries, offset + l, m) = Slice(entries, offset, l + m)
  BY SlicesJoin
<1> QED
  BY <1>2, <1>3, <1>4, <1>5, Zenon

\* A page that is as large as the list, from its beginning, is what a call without a
\* limit answers (_paginate).
THEOREM WholeListIsOnePage ==
  ASSUME NEW S, NEW entries \in Seq(S), NEW l \in Nat, l >= Len(entries)
  PROVE  Paginate(entries, 0, l).entries = Paginate(entries, 0, NoLimit).entries
<1>1. Len(entries) \in Nat
  BY LenProperties
<1>2. Slice(entries, 0, l) = SubSeq(entries, 1, Len(entries))
  BY <1>1 DEF Slice
<1>3. Slice(entries, 0, l) = entries
  BY <1>2, SubSeqFull
<1>4. Paginate(entries, 0, NoLimit) = [kind |-> "list", entries |-> entries]
  BY NoLimitAssumption DEF Paginate
<1>5. Paginate(entries, 0, l).entries = Slice(entries, 0, l)
  BY PageOfSlice
<1>6. Paginate(entries, 0, NoLimit).entries = entries
  BY <1>4
<1> QED
  BY <1>3, <1>5, <1>6

\* A slice has the entries behind its offset, as many as its limit and the list allow.
LEMMA SliceEntries ==
  ASSUME NEW S, NEW entries \in Seq(S), NEW offset \in Nat, NEW l \in Nat,
         NEW s, s = Slice(entries, offset, l)
  PROVE  /\ Len(s) = Cardinality({i \in DOMAIN entries : i > offset /\ i <= offset + l})
         /\ \A i \in DOMAIN s : s[i] = entries[offset + i]
<1> DEFINE n == Len(entries)
           last == IF offset + l < n THEN offset + l ELSE n
           I == {i \in DOMAIN entries : i > offset /\ i <= offset + l}
<1>1. n \in Nat /\ DOMAIN entries = 1 .. n
  BY LenProperties
<1>2. I = offset + 1 .. last
  BY <1>1
<1>3. last \in Nat
  BY <1>1
<1>4. Cardinality(I) = IF offset + 1 > last THEN 0 ELSE last - offset
  <2> HIDE DEF last, I, n
  <2>1. offset + 1 \in Int /\ last \in Int
    BY <1>3
  <2> QED
    BY <1>2, <1>3, <2>1, FS_Interval
<1>5. \A i \in offset + 1 .. last : entries[i] \in S
  BY <1>1, ElementOfSeq
<1>6. s = SubSeq(entries, offset + 1, last)
  BY DEF Slice
<1>7. /\ s \in Seq(S)
      /\ Len(s) = IF offset + 1 <= last THEN last - (offset + 1) + 1 ELSE 0
      /\ \A i \in 1 .. last - (offset + 1) + 1 : s[i] = entries[offset + 1 + i - 1]
  <2> HIDE DEF last, n, I
  <2> QED
    BY <1>3, <1>5, <1>6, SubSeqProperties
<1>8. Len(s) = Cardinality(I)
  BY <1>3, <1>4, <1>7
<1>9. ASSUME NEW i \in DOMAIN s
      PROVE  s[i] = entries[offset + i]
  <2>1. DOMAIN s = 1 .. Len(s)
    BY <1>7, LenProperties
  <2>2. i \in 1 .. last - (offset + 1) + 1 /\ offset + 1 + i - 1 = offset + i
    BY <1>3, <1>7, <2>1
  <2> QED
    BY <1>7, <2>2
<1> QED
  BY <1>8, <1>9
-----------------------------------------------------------------------------
(***************************************************************************)
(* The invariant: a call that is over returned what its tool answers to    *)
(* its request under some hash seed, and the dispatcher recorded what it   *)
(* makes of that; any other call has neither.                              *)
(***************************************************************************)

\* What a call may return.
Answered(q) ==
  IF q.tool = "classify_entry"
  THEN {Error, Raised} \cup {Classified(answer) : answer \in Answers}
  ELSE IF q.tool = "search_rulebook_vector"
  THEN {Error, Raised} \cup
       {[kind |-> "found", clauses |-> f] : f \in Rankings(q, Registry)}
  ELSE {Run(q, seed) : seed \in Ranks}

Asked == Requests \cup Adapted

AnyAnswer == UNION {Answered(q) : q \in Asked}

\* What the dispatcher makes of a result.
Recorded(tool, r) ==
  IF r.kind = "raised" THEN "exception"
  ELSE ClassifyOutcome(Converted(Value(r), Wrapped(tool), structured))

StateInv ==
  /\ rank \in Ranks
  /\ structured \in BOOLEAN
  /\ corpus \in {{}, Registry}
  /\ pc \in [Calls -> {"start", "sampling", "done", "direct", "lost"}]
  /\ request \in [Calls -> Asked \cup {Nothing}]
  /\ result \in [Calls -> AnyAnswer \cup {Nothing}]
  /\ outcome \in [Calls -> {"none", "success", "error", "exception"}]

CallInv(c) ==
  /\ pc[c] = "sampling" => request[c] \in Asked /\ request[c].tool = "classify_entry"
  /\ pc[c] \in {"done", "direct"} =>
       request[c] \in Asked /\ result[c] \in Answered(request[c])
  /\ pc[c] \notin {"done", "direct"} => result[c] = Nothing
  /\ pc[c] = "done" => /\ request[c].tool \notin Resources
                       /\ outcome[c] = Recorded(request[c].tool, result[c])
  /\ pc[c] # "done" => outcome[c] = "none"

TInv == StateInv /\ \A c \in Calls : CallInv(c)

LEMMA InitTInv == Init => TInv
<1> SUFFICES ASSUME Init PROVE TInv
  OBVIOUS
<1> QED
  BY DEF Init, TInv, StateInv, CallInv

LEMMA WholeCorpus == Listed(NoFilter, NoFilter) = Registry
BY DEF Listed

\* A dispatcher's record is one of its labels.
LEMMA RecordedLabel ==
  ASSUME NEW tool, NEW r
  PROVE  Recorded(tool, r) \in {"success", "error", "exception"}
BY DEF Recorded, ClassifyOutcome

\* A call that ends with one of the answers to its request keeps the invariant.
LEMMA EndKeepsTInv ==
  ASSUME TInv, NEW c \in Calls, NEW q \in Asked, NEW r \in Answered(q),
         q.tool \notin Resources,
         request' = [request EXCEPT ![c] = q], End(c, q.tool, r),
         UNCHANGED <<rank, structured>>, corpus' \in {{}, Registry}
  PROVE  TInv'
<1>1. Recorded(q.tool, r)' = Recorded(q.tool, r)
  BY DEF Recorded
<1>2. /\ result' = [result EXCEPT ![c] = r]
      /\ outcome' = [outcome EXCEPT ![c] = Recorded(q.tool, r)]
      /\ pc' = [pc EXCEPT ![c] = "done"]
  BY DEF End, Recorded
<1>3. StateInv'
  BY <1>2, RecordedLabel DEF TInv, StateInv, AnyAnswer
<1>4. ASSUME NEW d \in Calls PROVE CallInv(d)'
  <2>1. CASE d = c
    BY <1>1, <1>2, <2>1 DEF TInv, StateInv, CallInv
  <2>2. CASE d # c
    <3>1. /\ pc'[d] = pc[d] /\ request'[d] = request[d]
          /\ result'[d] = result[d] /\ outcome'[d] = outcome[d]
      BY <1>2, <2>2 DEF TInv, StateInv
    <3>2. Recorded(request[d].tool, result[d])' = Recorded(request'[d].tool, result'[d])
      BY DEF Recorded
    <3> QED
      BY <3>1, <3>2 DEF TInv, CallInv, Recorded
  <2> QED
    BY <2>1, <2>2
<1> QED
  BY <1>3, <1>4 DEF TInv

\* So does one that ends past the dispatcher.
LEMMA DirectKeepsTInv ==
  ASSUME TInv, NEW c \in Calls, pc[c] = "start", NEW q \in Asked, NEW r \in Answered(q),
         request' = [request EXCEPT ![c] = q], result' = [result EXCEPT ![c] = r],
         pc' = [pc EXCEPT ![c] = "direct"],
         UNCHANGED <<rank, structured, corpus, outcome>>
  PROVE  TInv'
<1>1. StateInv'
  BY DEF TInv, StateInv, AnyAnswer
<1>2. ASSUME NEW d \in Calls PROVE CallInv(d)'
  <2>1. CASE d = c
    BY <2>1 DEF TInv, StateInv, CallInv
  <2>2. CASE d # c
    <3>1. /\ pc'[d] = pc[d] /\ request'[d] = request[d]
          /\ result'[d] = result[d] /\ outcome'[d] = outcome[d]
      BY <2>2 DEF TInv, StateInv
    <3> QED
      BY <3>1 DEF TInv, CallInv, Recorded
  <2> QED
    BY <2>1, <2>2
<1> QED
  BY <1>1, <1>2 DEF TInv

LEMMA SearchedAnswers ==
  ASSUME TInv, NEW q \in Asked, q.tool = "search_rulebook_vector", NEW machine,
         corpus' = IF BadSearch(q) THEN corpus ELSE Corpus
  PROVE  /\ corpus' \in {{}, Registry}
         /\ Searched(q, machine) \subseteq Answered(q)
<1>1. Corpus = Registry /\ corpus \in {{}, Registry}
  BY WholeCorpus DEF TInv, StateInv, Corpus
<1>2. CASE BadSearch(q)
  BY <1>1, <1>2 DEF Searched, Answered
<1>3. CASE ~ BadSearch(q)
  <2>1. corpus' = Registry
    BY <1>1, <1>3
  <2> QED
    BY <2>1, <1>3 DEF Searched, Answered
<1> QED
  BY <1>2, <1>3

LEMMA NextTInv == TInv /\ [Next]_vars => TInv'
<1> SUFFICES ASSUME TInv, [Next]_vars PROVE TInv'
  OBVIOUS
<1> USE DEF Asked
<1>1. ASSUME NEW c \in Calls, NEW q \in Requests, CallTool(c, q) PROVE TInv'
  <2>1. Run(q, rank) \in Answered(q)
    BY <1>1 DEF CallTool, Answered, TInv, StateInv
  <2>2. /\ request' = [request EXCEPT ![c] = q] /\ End(c, q.tool, Run(q, rank))
        /\ q.tool \notin Resources
        /\ UNCHANGED <<rank, structured, corpus>>
    BY <1>1 DEF CallTool
  <2> QED
    BY <2>1, <2>2, EndKeepsTInv DEF TInv, StateInv
<1>2. ASSUME NEW c \in Calls, NEW q \in Requests, RefuseSampling(c, q) PROVE TInv'
  <2>1. Error \in Answered(q) /\ q.tool = "classify_entry" /\ q.tool \notin Resources
    BY <1>2 DEF RefuseSampling, Answered, Resources, CatalogResources
  <2>2. /\ request' = [request EXCEPT ![c] = q] /\ End(c, q.tool, Error)
        /\ UNCHANGED <<rank, structured, corpus>>
    BY <1>2 DEF RefuseSampling
  <2> QED
    BY <2>1, <2>2, EndKeepsTInv DEF TInv, StateInv
<1>3. ASSUME NEW c \in Calls, NEW q \in Requests, RequestSampling(c, q) PROVE TInv'
  <2>1. /\ pc[c] = "start" /\ q.tool = "classify_entry"
        /\ request' = [request EXCEPT ![c] = q] /\ pc' = [pc EXCEPT ![c] = "sampling"]
        /\ UNCHANGED <<rank, structured, corpus, result, outcome>>
    BY <1>3 DEF RequestSampling
  <2>2. StateInv'
    BY <2>1 DEF TInv, StateInv
  <2>3. ASSUME NEW d \in Calls PROVE CallInv(d)'
    <3>1. CASE d = c
      BY <2>1, <3>1 DEF TInv, StateInv, CallInv
    <3>2. CASE d # c
      <4>1. pc'[d] = pc[d] /\ request'[d] = request[d]
        BY <2>1, <3>2 DEF TInv, StateInv
      <4> QED
        BY <2>1, <4>1 DEF TInv, CallInv, Recorded
    <3> QED
      BY <3>1, <3>2
  <2> QED
    BY <2>2, <2>3 DEF TInv
<1>4. ASSUME NEW c \in Calls, NEW q \in Requests, ReadResource(c, q) PROVE TInv'
  <2>1. /\ pc[c] = "start" /\ q.tool \in Resources
        /\ request' = [request EXCEPT ![c] = q]
        /\ result' = [result EXCEPT ![c] = Run(q, rank)]
        /\ pc' = [pc EXCEPT ![c] = "direct"]
        /\ UNCHANGED <<rank, structured, corpus, outcome>>
    BY <1>4 DEF ReadResource
  <2>2. Run(q, rank) \in Answered(q)
    BY <2>1 DEF Answered, TInv, StateInv, Resources, CatalogResources
  <2> QED
    BY <2>1, <2>2, DirectKeepsTInv
<1>5. ASSUME NEW c \in Calls, NEW q \in Requests, NEW machine \in Machines,
             SearchRulebook(c, q, machine)
      PROVE  TInv'
  <2>1. /\ q.tool = "search_rulebook_vector"
        /\ request' = [request EXCEPT ![c] = q]
        /\ corpus' = IF BadSearch(q) THEN corpus ELSE Corpus
        /\ \E r \in Searched(q, machine) : End(c, q.tool, r)
        /\ UNCHANGED <<rank, structured>>
    BY <1>5 DEF SearchRulebook
  <2>2. PICK r \in Searched(q, machine) : End(c, q.tool, r)
    BY <2>1
  <2>3. r \in Answered(q) /\ corpus' \in {{}, Registry}
    BY <2>1, <2>2, SearchedAnswers
  <2>4. q.tool \notin Resources
    BY <2>1 DEF Resources, CatalogResources
  <2> QED
    BY <2>1, <2>2, <2>3, <2>4, EndKeepsTInv
<1>6. ASSUME NEW c \in Calls, NEW q \in Adapted, AdapterCall(c, q) PROVE TInv'
  <2> DEFINE r == IF q.tool = "classify_entry" THEN Raised ELSE Run(q, rank)
  <2>1. /\ pc[c] = "start" /\ q.tool # "search_rulebook_vector"
        /\ request' = [request EXCEPT ![c] = q]
        /\ result' = [result EXCEPT ![c] = r]
        /\ pc' = [pc EXCEPT ![c] = "direct"]
        /\ UNCHANGED <<rank, structured, corpus, outcome>>
    BY <1>6 DEF AdapterCall
  <2>2. r \in Answered(q)
    BY <2>1 DEF Answered, TInv, StateInv
  <2> HIDE DEF r
  <2> QED
    BY <2>1, <2>2, DirectKeepsTInv
<1>7. ASSUME NEW c \in Calls, NEW answer \in Answers, AnswerSampling(c, answer) PROVE TInv'
  <2> DEFINE q == request[c]
  <2>1. pc[c] = "sampling" /\ End(c, "classify_entry", Classified(answer))
        /\ UNCHANGED <<rank, structured, corpus, request>>
    BY <1>7 DEF AnswerSampling
  <2>2. q \in Asked /\ q.tool = "classify_entry"
    BY <2>1 DEF TInv, CallInv
  <2>3. request' = [request EXCEPT ![c] = q]
    BY <2>1 DEF TInv, StateInv
  <2>4. Classified(answer) \in Answered(q) /\ q.tool \notin Resources
    BY <2>2 DEF Answered, Resources, CatalogResources
  <2>5. End(c, q.tool, Classified(answer)) /\ corpus' \in {{}, Registry}
    BY <2>1, <2>2 DEF TInv, StateInv
  <2> HIDE DEF q
  <2> QED
    BY <2>1, <2>2, <2>3, <2>4, <2>5, EndKeepsTInv
<1>8. ASSUME Restart PROVE TInv'
  <2>1. /\ rank' \in Ranks /\ corpus' = {}
        /\ pc' = [c \in Calls |-> IF pc[c] = "sampling" THEN "lost" ELSE pc[c]]
        /\ UNCHANGED <<structured, request, result, outcome>>
    BY <1>8 DEF Restart
  <2>2. StateInv'
    BY <2>1 DEF TInv, StateInv
  <2>3. ASSUME NEW c \in Calls PROVE CallInv(c)'
    BY <2>1 DEF TInv, StateInv, CallInv, Recorded
  <2> QED
    BY <2>2, <2>3 DEF TInv
<1>9. ASSUME UNCHANGED vars PROVE TInv'
  <2>1. StateInv'
    BY <1>9 DEF vars, TInv, StateInv
  <2>2. ASSUME NEW c \in Calls PROVE CallInv(c)'
    BY <1>9 DEF vars, TInv, CallInv, Recorded
  <2> QED
    BY <2>1, <2>2 DEF TInv
<1> QED
  BY <1>1, <1>2, <1>3, <1>4, <1>5, <1>6, <1>7, <1>8, <1>9 DEF Next

\* The invariant of the tools (the dispatcher, the resources, the adapters).
THEOREM ToolsInvariance == Spec => []TInv
<1> QED
  BY InitTInv, NextTInv, PTL DEF Spec
-----------------------------------------------------------------------------
(***************************************************************************)
(* The kinds of results.                                                   *)
(***************************************************************************)

\* The tools with an operation of their own.
LEMMA RunOf ==
  ASSUME NEW q, NEW seed
  PROVE  /\ q.tool = "list_entries" => Run(q, seed) = ListEntries(q)
         /\ q.tool = "filter_entries" => Run(q, seed) = FilteredEntries(q)
         /\ q.tool = "detect_statement_anomalies" =>
              Run(q, seed) = DetectStatementAnomalies(q, seed)
         /\ q.tool = "export_journal" => Run(q, seed) = ExportJournal(q)
         /\ q.tool = "cite_rulebook" => Run(q, seed) = CiteRulebook(q)
         /\ q.tool = "list_rulebook_clauses" =>
              Run(q, seed) = [kind |-> "clauses", clauses |-> Listed(q.scheme, q.version)]
         /\ q.tool = "bank_session_context" => Run(q, seed) = BankSession(q)
         /\ q.tool \in Delegated \cup CatalogResources =>
              Run(q, seed) = Delegate(q.tool, q.refused)
BY DEF Run, Delegated, Fallible, CatalogResources, RowTools, TextTools, RecordTools,
       StatementTools, CheckTools, DocumentTools, ConstantTools, ListTools

LEMMA PageKinds ==
  ASSUME NEW entries, NEW offset \in Int, NEW limit \in {NoLimit} \cup Int
  PROVE  Paginate(entries, offset, limit).kind \in {"error", "list", "page"}
BY NoLimitAssumption DEF Paginate

LEMMA DelegateKinds ==
  ASSUME NEW tool \in Delegated \cup CatalogResources, NEW refused \in BOOLEAN
  PROVE  Delegate(tool, refused).kind \in
           {"errorRow", "rows", "errorText", "texts", "errorJson", "document", "error",
            "record"}
BY DEF Delegate, Delegated, Fallible, CatalogResources, RowTools, TextTools, RecordTools,
       StatementTools, CheckTools, DocumentTools, ConstantTools, ListTools

LEMMA ClassifiedKinds ==
  ASSUME NEW answer \in Answers
  PROVE  Classified(answer).kind \in {"error", "raised", "classified"}
BY DEF Answers, Objects, Classified, Normalise, Error, Raised

\* What the tools that may be called through the dispatcher return has a Python value;
\* a session context is a resource's.
Valued == Kinds \ {"nothing", "session"}

LEMMA AnswerKinds ==
  ASSUME NEW q \in Asked, NEW r \in Answered(q)
  PROVE  /\ r.kind \in Valued \cup {"session"}
         /\ r.kind = "session" => q.tool = "bank_session_context"
         /\ r.kind = "clauses" => q.tool = "list_rulebook_clauses"
         /\ r.kind = "found" => q.tool = "search_rulebook_vector"
<1> DEFINE Goal == /\ r.kind \in Valued \cup {"session"}
                   /\ r.kind = "session" => q.tool = "bank_session_context"
                   /\ r.kind = "clauses" => q.tool = "list_rulebook_clauses"
                   /\ r.kind = "found" => q.tool = "search_rulebook_vector"
<1> SUFFICES Goal
  OBVIOUS
<1>1. q \in AnyRequest
  BY RequestAssumption DEF Asked
<1> USE DEF Valued, Kinds, Failures
<1>2. CASE q.tool = "classify_entry"
  <2>1. r \in {Error, Raised} \/ \E answer \in Answers : r = Classified(answer)
    BY <1>2 DEF Answered
  <2>2. r.kind \in {"error", "raised", "classified"}
    BY <2>1, ClassifiedKinds DEF Error, Raised
  <2> QED
    BY <2>2
<1>3. CASE q.tool = "search_rulebook_vector"
  <2>1. r.kind \in {"error", "raised", "found"}
    BY <1>3 DEF Answered, Error, Raised
  <2> QED
    BY <1>3, <2>1
<1>4. CASE q.tool \notin {"classify_entry", "search_rulebook_vector"}
  <2>1. PICK seed \in Ranks : r = Run(q, seed)
    BY <1>4 DEF Answered
  <2>2. CASE q.tool \in {"list_entries", "filter_entries"}
    <3>1. q.offset \in Int /\ q.limit \in {NoLimit} \cup Int
      BY <1>1, <2>2 DEF AnyRequest, Delegated, Fallible, CatalogResources, RowTools,
           TextTools, RecordTools, StatementTools, CheckTools, DocumentTools,
           ConstantTools, ListTools
    <3>2. r.kind \in {"errorRow", "error", "list", "page"}
      BY <2>1, <2>2, <3>1, RunOf, PageKinds DEF ListEntries, FilteredEntries
    <3> QED
      BY <3>2
  <2>3. CASE q.tool = "detect_statement_anomalies"
    BY <2>1, <2>3, RunOf DEF DetectStatementAnomalies, Error, Raised
  <2>4. CASE q.tool = "export_journal"
    <3>1. r = Error \/ (q.target \in SupportedTargets /\ r = Export(q.xml, q.target))
      BY <2>1, <2>4, RunOf DEF ExportJournal
    <3>2. q.target \in SupportedTargets => Export(q.xml, q.target).kind = "export"
      BY DEF Export
    <3> QED
      BY <3>1, <3>2 DEF Error
  <2>5. CASE q.tool = "cite_rulebook"
    BY <2>1, <2>5, RunOf DEF CiteRulebook, Error
  <2>6. CASE q.tool = "list_rulebook_clauses"
    BY <2>1, <2>6, RunOf
  <2>7. CASE q.tool = "bank_session_context"
    BY <2>1, <2>7, RunOf DEF BankSession
  <2>8. CASE q.tool \in Delegated \cup CatalogResources
    <3>1. q.refused \in BOOLEAN
      BY <1>1, <2>8 DEF AnyRequest, Delegated, Fallible, CatalogResources, RowTools,
           TextTools, RecordTools, StatementTools, CheckTools, DocumentTools,
           ConstantTools, ListTools
    <3>2. r = Delegate(q.tool, q.refused)
      BY <2>1, <2>8, RunOf
    <3>3. r.kind \in {"errorRow", "rows", "errorText", "texts", "errorJson", "document",
                      "error", "record"}
      BY <2>8, <3>1, <3>2, DelegateKinds
    <3> QED
      BY <3>3
  <2> QED
    BY <1>1, <1>4, <2>2, <2>3, <2>4, <2>5, <2>6, <2>7, <2>8 DEF AnyRequest
<1> QED
  BY <1>2, <1>3, <1>4

\* Type correctness of Tools: a call's label is there exactly when the dispatcher ended it.
THEOREM ToolsTypes == Spec => []TypeOK
<1>1. TInv => TypeOK
  <2> SUFFICES ASSUME TInv PROVE TypeOK
    OBVIOUS
  <2>1. ASSUME NEW c \in Calls PROVE result[c].kind \in Kinds
    <3>1. result[c] = Nothing \/ (request[c] \in Asked /\ result[c] \in Answered(request[c]))
      BY DEF TInv, CallInv
    <3> QED
      BY <3>1, AnswerKinds DEF Nothing, Kinds, Valued
  <2>2. ASSUME NEW c \in Calls PROVE pc[c] = "done" <=> outcome[c] # "none"
    BY RecordedLabel DEF TInv, CallInv
  <2> QED
    BY <2>1, <2>2 DEF TInv, StateInv, TypeOK, Asked
<1> QED
  BY <1>1, ToolsInvariance, PTL
-----------------------------------------------------------------------------
(***************************************************************************)
(* Outcomes.                                                               *)
(***************************************************************************)

\* What the dispatcher looks into, form by form.
LEMMA InsideForms ==
  /\ \A items : /\ Inside(Tuple(items)) = {items[i] : i \in DOMAIN items}
                /\ ~ SaysError(Tuple(items))
  /\ \A items : /\ Inside(List(items)) = {items[i] : i \in DOMAIN items}
                /\ ~ SaysError(List(items))
  /\ \A fields : /\ DOMAIN fields # {"result"} => Inside(Dict(fields)) = {}
                 /\ SaysError(Dict(fields)) <=> "error" \in DOMAIN fields
  /\ \A v : Inside(Json(v)) = {v} /\ ~ SaysError(Json(v))
  /\ \A form : Inside(Text(form)) = {} /\ (SaysError(Text(form)) <=> form = "error:")
  /\ Inside(Opaque) = {} /\ ~ SaysError(Opaque)
  /\ \A names : DOMAIN Fields(names) = names
BY DEF Inside, SaysError, Tuple, List, Dict, Json, Text, Opaque, Fields

LEMMA InsideWrapper ==
  ASSUME NEW v, NEW w, w = Dict([n \in {"result"} |-> v])
  PROVE  Inside(w) = {v} /\ ~ SaysError(w)
<1> DEFINE f == [n \in {"result"} |-> v]
<1>1. DOMAIN f = {"result"} /\ f["result"] = v /\ "error" # "result"
  OBVIOUS
<1> HIDE DEF f
<1>2. w.is = "dict" /\ w.fields = f
  BY DEF f, Dict
<1> QED
  BY <1>1, <1>2 DEF Inside, SaysError

\* One or two values in a list.
LEMMA InsideLists ==
  ASSUME NEW a, NEW b
  PROVE  Inside(List(<<a>>)) = {a} /\ Inside(Tuple(<<a, b>>)) = {a, b}
<1>1. {<<a>>[i] : i \in DOMAIN <<a>>} = {a}
  OBVIOUS
<1>2. {<<a, b>>[i] : i \in DOMAIN <<a, b>>} = {a, b}
  OBVIOUS
<1> QED
  BY <1>1, <1>2, InsideForms

\* An error is seen three levels down, and is seen only where it is.
LEMMA SeenErrors ==
  ASSUME NEW v
  PROVE  ClassifyOutcome(v) = "error" <=>
           \/ SaysError(v)
           \/ \E a \in Inside(v) :
                \/ SaysError(a)
                \/ \E b \in Inside(a) : SaysError(b) \/ \E d \in Inside(b) : SaysError(d)
<1>1. ClassifyOutcome(v) = "error" <=>
        \E w \in {v} \cup Within({v}) \cup Within(Within({v}))
                  \cup Within(Within(Within({v}))) : SaysError(w)
  BY DEF ClassifyOutcome
<1>2. \A w : w \in Within({v}) <=> w \in Inside(v)
  BY DEF Within
<1>3. \A w : w \in Within(Within({v})) <=> \E a \in Inside(v) : w \in Inside(a)
  BY <1>2 DEF Within
<1>4. \A w : w \in Within(Within(Within({v}))) <=>
               \E a \in Inside(v) : \E b \in Inside(a) : w \in Inside(b)
  BY <1>3 DEF Within
<1> QED
  BY <1>1, <1>2, <1>3, <1>4

\* A value without an error in it or in its elements, which are not looked into further.
Harmless(v) ==
  /\ ~ SaysError(v)
  /\ \A a \in Inside(v) : ~ SaysError(a) /\ Inside(a) = {}

LEMMA HarmlessValues ==
  ASSUME NEW r, r.kind \in Valued \ (Failures \cup {"raised"})
  PROVE  Harmless(Value(r))
<1>1. ASSUME NEW names, "error" \notin names, "result" \notin names
      PROVE  Harmless(Dict(Fields(names))) /\ Inside(Dict(Fields(names))) = {}
  BY <1>1, InsideForms DEF Harmless
<1>2. ASSUME NEW v, ~ SaysError(v), Inside(v) = {}
      PROVE  Harmless(List(<<v>>))
  BY <1>2, InsideForms, InsideLists DEF Harmless
<1> USE DEF Value, Valued, Kinds, Failures
<1>3. CASE r.kind \in {"rows", "texts", "clauses"}
  <2>1. Value(r) \in {List(<<Dict(Fields({"name"}))>>), List(<<Text("name")>>),
                      List(<<Dict(Fields({"scheme", "version", "clause"}))>>)}
    BY <1>3
  <2>2. /\ ~ SaysError(Dict(Fields({"name"}))) /\ Inside(Dict(Fields({"name"}))) = {}
        /\ ~ SaysError(Text("name")) /\ Inside(Text("name")) = {}
        /\ ~ SaysError(Dict(Fields({"scheme", "version", "clause"})))
        /\ Inside(Dict(Fields({"scheme", "version", "clause"}))) = {}
    <3> HIDE DEF Value, Valued, Kinds, Failures
    <3> QED
      BY <1>1, InsideForms DEF Harmless
  <2> QED
    BY <1>2, <2>1, <2>2
<1>4. CASE r.kind = "list"
  <2> DEFINE items == [i \in DOMAIN r.entries |-> Dict(Fields({"amount"}))]
  <2>1. Value(r) = List(items)
    BY <1>4
  <2>2. \A a \in Inside(List(items)) : a = Dict(Fields({"amount"}))
    BY InsideForms
  <2>3. ~ SaysError(Dict(Fields({"amount"}))) /\ Inside(Dict(Fields({"amount"}))) = {}
    BY <1>1 DEF Harmless
  <2> QED
    BY <2>1, <2>2, <2>3, InsideForms DEF Harmless
<1>5. CASE r.kind = "document"
  BY <1>5, InsideForms DEF Harmless
<1>6. CASE r.kind \notin {"rows", "texts", "clauses", "list", "document"}
  <2>1. \E names : /\ Value(r) = Dict(Fields(names))
                   /\ "error" \notin names /\ "result" \notin names
    BY <1>6
  <2> QED
    BY <1>1, <2>1
<1> QED
  BY <1>3, <1>4, <1>5, <1>6

\* The SDK wraps a value once at most, and some of its versions drop it.
LEMMA ConvertedForms ==
  ASSUME NEW v, NEW wrapped, NEW shape \in BOOLEAN, NEW w, w = Converted(v, wrapped, shape)
  PROVE  /\ ~ SaysError(w)
         /\ shape => \E x : /\ Inside(w) = {List(<<Opaque>>), x}
                            /\ x = v \/ (Inside(x) = {v} /\ ~ SaysError(x))
         /\ ~ shape => Inside(w) = {Opaque}
<1> DEFINE x == IF wrapped THEN Dict([n \in {"result"} |-> v]) ELSE v
<1>1. w = IF shape THEN Tuple(<<List(<<Opaque>>), x>>) ELSE List(<<Opaque>>)
  BY DEF Converted
<1>2. x = v \/ (Inside(x) = {v} /\ ~ SaysError(x))
  BY InsideWrapper
<1> HIDE DEF x
<1>3. Inside(Tuple(<<List(<<Opaque>>), x>>)) = {List(<<Opaque>>), x}
  BY InsideLists
<1>4. Inside(List(<<Opaque>>)) = {Opaque}
  BY InsideLists
<1>5. /\ ~ SaysError(Tuple(<<List(<<Opaque>>), x>>))
      /\ ~ SaysError(List(<<Opaque>>))
  BY InsideForms
<1> QED
  BY <1>1, <1>2, <1>3, <1>4, <1>5

\* A harmless value is a success, however it is converted.
LEMMA HarmlessSucceeds ==
  ASSUME NEW v, Harmless(v), NEW wrapped, NEW shape \in BOOLEAN
  PROVE  ClassifyOutcome(Converted(v, wrapped, shape)) # "error"
<1> DEFINE w == Converted(v, wrapped, shape)
<1>1. Inside(List(<<Opaque>>)) = {Opaque} /\ ~ SaysError(List(<<Opaque>>))
  BY InsideLists, InsideForms
<1>2. Inside(Opaque) = {} /\ ~ SaysError(Opaque)
  BY InsideForms
<1>3. /\ ~ SaysError(w)
      /\ shape => \E x : /\ Inside(w) = {List(<<Opaque>>), x}
                         /\ x = v \/ (Inside(x) = {v} /\ ~ SaysError(x))
      /\ ~ shape => Inside(w) = {Opaque}
  BY ConvertedForms
<1> HIDE DEF w
<1>4. \A a \in Inside(w) :
        /\ ~ SaysError(a)
        /\ \A b \in Inside(a) : ~ SaysError(b) /\ \A d \in Inside(b) : ~ SaysError(d)
  <2>1. CASE ~ shape
    BY <1>2, <1>3, <2>1
  <2>2. CASE shape
    <3>1. PICK x : /\ Inside(w) = {List(<<Opaque>>), x}
                   /\ x = v \/ (Inside(x) = {v} /\ ~ SaysError(x))
      BY <1>3, <2>2
    <3>2. /\ ~ SaysError(x)
          /\ \A b \in Inside(x) : ~ SaysError(b) /\ \A d \in Inside(b) : ~ SaysError(d)
      BY <3>1 DEF Harmless
    <3> QED
      BY <1>1, <1>2, <3>1, <3>2
  <2> QED
    BY <2>1, <2>2
<1>5. ClassifyOutcome(w) # "error"
  BY <1>3, <1>4, SeenErrors
<1> QED
  BY <1>5 DEF w

\* Every shape of failure is an error, whether its value is wrapped or not.
LEMMA FailuresSeen ==
  ASSUME NEW r, r.kind \in Failures, NEW wrapped, NEW shape \in BOOLEAN,
         NEW v, v = Value(r), NEW w, w = Converted(v, wrapped, shape)
  PROVE  shape => ClassifyOutcome(w) = "error"
<1> DEFINE envelope == Dict(Fields({"error"}))
<1>1. SaysError(envelope) /\ SaysError(Text("error:"))
  BY InsideForms
<1>2. v \in {envelope, List(<<envelope>>), List(<<Text("error:")>>), Json(envelope)}
  BY DEF Value, Failures
<1>3. SaysError(v) \/ \E a \in Inside(v) : SaysError(a)
  <2> HIDE DEF envelope
  <2>1. Inside(List(<<envelope>>)) = {envelope} /\ Inside(Json(envelope)) = {envelope}
    BY InsideLists, InsideForms
  <2>2. Inside(List(<<Text("error:")>>)) = {Text("error:")}
    BY InsideLists
  <2> QED
    BY <1>1, <1>2, <2>1, <2>2
<1>4. /\ ~ SaysError(w)
      /\ shape => \E x : /\ Inside(w) = {List(<<Opaque>>), x}
                         /\ x = v \/ (Inside(x) = {v} /\ ~ SaysError(x))
      /\ ~ shape => Inside(w) = {Opaque}
  BY ConvertedForms
<1> QED
  BY <1>3, <1>4, SeenErrors

\* The label the dispatcher records is what the tool did (classify_outcome, call_tool).
THEOREM OutcomesTell == Spec => []OutcomesTellResults
<1>1. TInv => OutcomesTellResults
  <2> SUFFICES ASSUME TInv, NEW c \in Calls, pc[c] = "done"
               PROVE  /\ outcome[c] = "exception" <=> result[c].kind = "raised"
                      /\ outcome[c] = "error" => result[c].kind \in Failures
                      /\ structured /\ result[c].kind \in Failures => outcome[c] = "error"
    BY DEF OutcomesTellResults
  <2> DEFINE r == result[c]
             wrapped == Wrapped(request[c].tool)
             label == ClassifyOutcome(Converted(Value(r), wrapped, structured))
  <2>1. /\ request[c] \in Asked /\ r \in Answered(request[c])
        /\ request[c].tool \notin Resources
        /\ outcome[c] = IF r.kind = "raised" THEN "exception" ELSE label
    BY DEF TInv, CallInv, Recorded
  <2>2. structured \in BOOLEAN
    BY DEF TInv, StateInv
  <2>3. r.kind \in Valued
    BY <2>1, AnswerKinds DEF Resources
  <2>4. label \in {"error", "success"}
    BY DEF ClassifyOutcome
  <2>5. r.kind \notin Failures \cup {"raised"} => label # "error"
    <3>1. r.kind \notin Failures \cup {"raised"} => Harmless(Value(r))
      BY <2>3, HarmlessValues
    <3> QED
      BY <2>2, <3>1, HarmlessSucceeds
  <2>6. structured /\ r.kind \in Failures => label = "error"
    BY <2>2, FailuresSeen
  <2>7. "raised" \notin Failures
    BY DEF Failures
  <2> HIDE DEF label
  <2> QED
    BY <2>1, <2>4, <2>5, <2>6, <2>7
<1> QED
  BY <1>1, ToolsInvariance, PTL
-----------------------------------------------------------------------------
(***************************************************************************)
(* The rulebook.                                                           *)
(***************************************************************************)

LEMMA RegistryFinite == IsFiniteSet(Registry)
<1>1. Registered \in Surjection(DOMAIN Registered, Registry)
  <2>1. DOMAIN Registered = 1 .. 9
    BY DEF Registered
  <2>2. Registered = [i \in DOMAIN Registered |-> Registered[i]]
    BY DEF Registered
  <2> QED
    BY <2>2 DEF Registry, Surjection
<1>2. IsFiniteSet(DOMAIN Registered)
  <2>1. DOMAIN Registered = 1 .. 9
    BY DEF Registered
  <2>2. 1 \in Int /\ 9 \in Int
    OBVIOUS
  <2>3. IsFiniteSet(1 .. 9)
    BY <2>2, FS_Interval
  <2> QED
    BY <2>1, <2>3
<1> QED
  BY <1>1, <1>2, FS_Surjection

LEMMA RecommendedRegistered ==
  ASSUME NEW euOrUk
  PROVE  Recommended(euOrUk) \subseteq Registry
<1>1. \A i \in 1 .. 9 : Registered[i] \in Registry
  <2>1. DOMAIN Registered = 1 .. 9
    BY DEF Registered
  <2> QED
    BY <2>1 DEF Registry
<1>2. /\ Registered[1] = Key("CBPR+", "2026", "structured-address-mandate-nov-2026")
      /\ Registered[3] = Key("CBPR+", "2026", "uetr-mandatory")
      /\ Registered[4] = Key("SEPA", "2025", "iban-only")
      /\ Registered[5] = Key("SEPA", "2025", "remittance-info-max-140")
      /\ Registered[7] = Key("SEPA", "2025", "verification-of-payee")
      /\ Registered[8] = Key("HVPS+", "2026", "t2-rtgs-uplift-mr2026")
  BY DEF Registered
<1>3. \A k \in Recommended(euOrUk) : \E i \in 1 .. 9 : k = Registered[i]
  BY <1>2 DEF Recommended
<1> QED
  BY <1>1, <1>3

\* A search that found fewer clauses than it asked for found all.
LEMMA FewerIsAll ==
  ASSUME NEW q, q.topK \in Int, NEW f \in Rankings(q, Registry), Cardinality(f) < q.topK
  PROVE  f = Registry
<1>1. IsFiniteSet(Registry) /\ Cardinality(Registry) \in Nat
  BY RegistryFinite, FS_CardinalityType
<1>2. /\ f \in SUBSET Registry
      /\ Cardinality(f) = IF q.topK < Cardinality(Registry) THEN q.topK ELSE Cardinality(Registry)
  BY DEF Rankings, kSubset
<1>3. Cardinality(f) = Cardinality(Registry)
  BY <1>1, <1>2
<1> QED
  BY <1>1, <1>2, <1>3, FS_Subset

\* What a call tells of is registered; a listing tells of what fits.
LEMMA ToldClauses ==
  ASSUME TInv, NEW c \in Calls
  PROVE  /\ Told(c) \subseteq Registry
         /\ Done(c, "list_rulebook_clauses") => Told(c) = {k \in Registry : Fits(c, k)}
         /\ result[c].kind = "found" /\ Cardinality(Told(c)) < request[c].topK =>
              Told(c) = Registry
<1> DEFINE q == request[c]
           r == result[c]
<1>1. CASE r = Nothing
  <2>1. pc[c] \notin {"done", "direct"}
    <3>1. ASSUME pc[c] \in {"done", "direct"} PROVE FALSE
      <4>1. q \in Asked /\ r \in Answered(q)
        BY <3>1 DEF TInv, CallInv
      <4>2. r.kind # "nothing"
        BY <4>1, AnswerKinds DEF Valued
      <4> QED
        BY <1>1, <4>2 DEF Nothing
    <3> QED
      BY <3>1
  <2> QED
    BY <1>1, <2>1 DEF Nothing, Told, Done
<1>2. CASE q \in Asked /\ r \in Answered(q)
  <2>1. q \in AnyRequest
    BY <1>2, RequestAssumption DEF Asked
  <2>2. CASE q.tool = "search_rulebook_vector"
    <3>1. q.topK \in Int
      BY <2>1, <2>2 DEF AnyRequest, Delegated, Fallible, CatalogResources, RowTools,
         TextTools, RecordTools, StatementTools, CheckTools, DocumentTools,
         ConstantTools, ListTools
    <3>2. CASE r \in {Error, Raised}
      BY <2>2, <3>2 DEF Error, Raised, Told, Done
    <3>3. CASE r \in {[kind |-> "found", clauses |-> f] : f \in Rankings(q, Registry)}
      <4>1. PICK f \in Rankings(q, Registry) : r = [kind |-> "found", clauses |-> f]
        BY <3>3
      <4>2. Told(c) = f /\ f \subseteq Registry
        BY <4>1 DEF Told, Rankings, kSubset
      <4> QED
        BY <2>2, <3>1, <4>1, <4>2, FewerIsAll DEF Done
    <3> QED
      BY <1>2, <2>2, <3>2, <3>3 DEF Answered
  <2>3. CASE q.tool = "list_rulebook_clauses"
    <3>1. r = [kind |-> "clauses", clauses |-> Listed(q.scheme, q.version)]
      BY <1>2, <2>3, RunOf DEF Answered
    <3>2. Told(c) = Listed(q.scheme, q.version)
      BY <3>1 DEF Told
    <3>3. Listed(q.scheme, q.version) = {k \in Registry : Fits(c, k)}
      BY DEF Listed, Fits
    <3> QED
      BY <3>1, <3>2, <3>3
  <2>4. CASE q.tool = "bank_session_context"
    <3>1. \E euOrUk : r = [kind |-> "session", clauses |-> Recommended(euOrUk)]
      BY <1>2, <2>4, RunOf DEF Answered, BankSession
    <3>2. Told(c) \subseteq Registry /\ r.kind = "session"
      BY <3>1, RecommendedRegistered DEF Told
    <3> QED
      BY <2>4, <3>2 DEF Done
  <2>5. CASE q.tool \notin {"search_rulebook_vector", "list_rulebook_clauses",
                           "bank_session_context"}
    <3>1. r.kind \notin {"clauses", "found", "session"}
      BY <1>2, <2>5, AnswerKinds
    <3> QED
      BY <2>5, <3>1 DEF Told, Done
  <2> QED
    BY <2>2, <2>3, <2>4, <2>5
<1> QED
  BY <1>1, <1>2 DEF TInv, CallInv

\* A clause that a listing, a search or a bank session tells of can be cited, and a
\* listing or an exhausted search tells of all it should (the registry is one).
THEOREM RulebookIsOne == Spec => []RulebookAgrees
<1>1. TInv => RulebookAgrees
  <2> SUFFICES ASSUME TInv, NEW c \in Calls, NEW d \in Calls, Done(d, "cite_rulebook")
               PROVE  LET key   == request[d].key
                          cited == result[d].kind = "citation"
                      IN  /\ key \in Told(c) => cited
                          /\ Done(c, "list_rulebook_clauses") =>
                               (key \in Told(c) <=> cited /\ Fits(c, key))
                          /\ result[c].kind = "found" /\ Cardinality(Told(c)) < request[c].topK =>
                               (cited => key \in Told(c))
    BY DEF RulebookAgrees
  <2>1. result[d] \in Answered(request[d]) /\ request[d].tool = "cite_rulebook"
    BY DEF Done, TInv, CallInv
  <2>2. result[d] = CiteRulebook(request[d])
    BY <2>1, RunOf DEF Answered
  <2>3. (result[d].kind = "citation") <=> request[d].key \in Registry
    BY <2>2 DEF CiteRulebook, Citable, Error
  <2> QED
    BY <2>3, ToldClauses
<1> QED
  BY <1>1, ToolsInvariance, PTL
-----------------------------------------------------------------------------
(***************************************************************************)
(* Pages of the tools.                                                     *)
(***************************************************************************)

\* The list that list_entries or filter_entries answers from.
ListOf(tool, xml) == IF tool = "list_entries" THEN xml ELSE FilterEntries(xml)

LEMMA ListIsList ==
  ASSUME NEW tool, NEW xml \in Seq(Entry)
  PROVE  ListOf(tool, xml) \in Seq(Entry)
<1>1. FilterEntries(xml) \in Seq(Entry)
  <2>1. {i \in DOMAIN xml : xml[i].hasReason} \in SUBSET DOMAIN xml
    OBVIOUS
  <2> QED
    BY <2>1, EntriesAtList DEF FilterEntries
<1> QED
  BY <1>1 DEF ListOf

LEMMA PageFields ==
  ASSUME NEW entries, NEW offset \in Int, NEW limit \in {NoLimit} \cup Int,
         Paginate(entries, offset, limit).kind = "page"
  PROVE  /\ offset \in Nat /\ limit \in Nat
         /\ Paginate(entries, offset, limit) =
              [kind |-> "page", total |-> Len(entries), offset |-> offset, limit |-> limit,
               entries |-> Slice(entries, offset, limit)]
<1>1. CASE offset < 0 \/ limit = NoLimit
  BY <1>1, NoLimitAssumption DEF Paginate
<1>2. CASE ~ (offset < 0 \/ limit = NoLimit)
  BY <1>2, NoLimitAssumption DEF Paginate
<1> QED
  BY <1>1, <1>2

\* A page of a call is the slice of its list that it asked for.
LEMMA PageOfCall ==
  ASSUME TInv, NEW c \in Calls, NEW tool \in {"list_entries", "filter_entries"},
         Done(c, tool), result[c].kind = "page",
         NEW list, list = ListOf(tool, request[c].xml)
  PROVE  /\ list \in Seq(Entry)
         /\ result[c].offset \in Nat /\ result[c].limit \in Nat
         /\ result[c].entries = Slice(list, result[c].offset, result[c].limit)
         /\ result[c].total = Len(list)
<1> DEFINE q == request[c]
           r == result[c]
<1>1. q \in Asked /\ r \in Answered(q) /\ q.tool = tool
  BY DEF TInv, CallInv, Done
<1>2. /\ q.xml \in {Malformed} \cup Seq(Entry)
      /\ q.offset \in Int /\ q.limit \in {NoLimit} \cup Int
  <2>1. q \in AnyRequest
    BY <1>1, RequestAssumption DEF Asked
  <2> QED
    BY <1>1, <2>1 DEF AnyRequest, Delegated, Fallible, CatalogResources, RowTools,
       TextTools, RecordTools, StatementTools, CheckTools, DocumentTools,
       ConstantTools, ListTools
<1>3. r = IF q.xml = Malformed THEN [kind |-> "errorRow"] ELSE Paginate(list, q.offset, q.limit)
  BY <1>1, RunOf DEF Answered, ListEntries, FilteredEntries, ListOf
<1>4. q.xml # Malformed /\ r = Paginate(list, q.offset, q.limit)
  BY <1>3
<1>5. list \in Seq(Entry)
  BY <1>2, <1>4, ListIsList
<1> HIDE DEF q, r
<1>6. /\ q.offset \in Nat /\ q.limit \in Nat
      /\ r = [kind |-> "page", total |-> Len(list), offset |-> q.offset, limit |-> q.limit,
              entries |-> Slice(list, q.offset, q.limit)]
  <2>1. r.kind = "page"
    BY DEF r
  <2> QED
    BY <1>2, <1>4, <2>1, PageFields
<1>7. /\ r.offset \in Nat /\ r.limit \in Nat
      /\ r.entries = Slice(list, r.offset, r.limit)
      /\ r.total = Len(list)
  BY <1>6
<1> QED
  BY <1>5, <1>7 DEF r

\* Two consecutive pages of one list join without a gap or an overlap and report its size.
THEOREM PagesOfCallsJoin == Spec => []PagesJoin
<1>1. TInv => PagesJoin
  <2> SUFFICES ASSUME TInv, NEW c \in Calls, NEW d \in Calls,
                      NEW tool \in {"list_entries", "filter_entries"},
                      SameStatement(c, d, tool),
                      result[c].kind = "page", result[d].kind = "page",
                      result[c].limit = result[d].limit,
                      result[d].offset = result[c].offset + result[c].limit
               PROVE  LET list == IF tool = "list_entries" THEN request[c].xml
                                  ELSE FilterEntries(request[c].xml)
                          both == result[c].entries \o result[d].entries
                          from == result[c].offset
                      IN  /\ Len(both) = Cardinality({i \in DOMAIN list :
                                            i > from /\ i <= from + 2 * result[c].limit})
                          /\ \A i \in DOMAIN both : both[i] = list[from + i]
                          /\ result[c].total = Len(list) /\ result[d].total = Len(list)
    BY DEF PagesJoin
  <2> DEFINE list == ListOf(tool, request[c].xml)
             from == result[c].offset
             l == result[c].limit
  <2>1. Done(c, tool) /\ Done(d, tool) /\ list = ListOf(tool, request[d].xml)
    BY DEF SameStatement
  <2>2. /\ list \in Seq(Entry) /\ from \in Nat /\ l \in Nat
        /\ result[c].entries = Slice(list, from, l)
        /\ result[d].entries = Slice(list, from + l, l)
        /\ result[c].total = Len(list) /\ result[d].total = Len(list)
    <3> HIDE DEF list
    <3> QED
      BY <2>1, PageOfCall DEF list
  <2>3. result[c].entries \o result[d].entries = Slice(list, from, l + l)
    <3> HIDE DEF list, from, l
    <3>1. list \in Seq(Entry) /\ from \in Nat /\ l \in Nat
      BY <2>2
    <3>2. Slice(list, from, l) \o Slice(list, from + l, l) = Slice(list, from, l + l)
      BY <3>1, SlicesJoin, Zenon
    <3> QED
      BY <2>2, <3>2, Zenon
  <2>4. /\ Len(Slice(list, from, l + l)) =
             Cardinality({i \in DOMAIN list : i > from /\ i <= from + (l + l)})
        /\ \A i \in DOMAIN Slice(list, from, l + l) : Slice(list, from, l + l)[i] = list[from + i]
    <3> HIDE DEF list, from, l
    <3>1. l + l \in Nat
      BY <2>2
    <3> QED
      BY <2>2, <3>1, SliceEntries
  <2>5. from + 2 * l = from + (l + l)
    BY <2>2
  <2>6. list = IF tool = "list_entries" THEN request[c].xml ELSE FilterEntries(request[c].xml)
    BY DEF ListOf
  <2> HIDE DEF list
  <2> QED
    BY <2>2, <2>3, <2>4, <2>5, <2>6
<1> QED
  BY <1>1, ToolsInvariance, PTL
-----------------------------------------------------------------------------
(***************************************************************************)
(* Exports.                                                                *)
(***************************************************************************)

LEMMA StatementFinite ==
  ASSUME NEW xml \in Seq(Entry)
  PROVE  /\ DOMAIN xml = 1 .. Len(xml) /\ Len(xml) \in Nat
         /\ IsFiniteSet(DOMAIN xml)
         /\ \A i \in DOMAIN xml : xml[i] \in Entry
<1>1. DOMAIN xml = 1 .. Len(xml) /\ Len(xml) \in Nat
  BY LenProperties
<1>2. IsFiniteSet(1 .. Len(xml))
  <2>1. 1 \in Int /\ Len(xml) \in Int
    BY <1>1
  <2> QED
    BY <2>1, FS_Interval
<1>3. \A i \in DOMAIN xml : xml[i] \in Entry
  BY <1>1, ElementOfSeq
<1> QED
  BY <1>1, <1>2, <1>3

\* A field of some payloads.
Tokens(I, field) == I \X {field}

LEMMA TokensField == \A I, field : \A t \in Tokens(I, field) : t[2] = field
BY DEF Tokens

\* Tokens of one more field: none of them is a token of the others.
LEMMA OneMoreField ==
  ASSUME NEW tokens, IsFiniteSet(tokens), NEW I, IsFiniteSet(I), NEW field,
         \A t \in tokens : t[2] # field
  PROVE  /\ IsFiniteSet(tokens \cup Tokens(I, field))
         /\ Cardinality(tokens) \in Nat /\ Cardinality(I) \in Nat
         /\ Cardinality(tokens \cup Tokens(I, field)) = Cardinality(tokens) + Cardinality(I)
<1> DEFINE new == Tokens(I, field)
<1>1. IsFiniteSet({field}) /\ Cardinality({field}) = 1
  BY FS_Singleton
<1>2. IsFiniteSet(new) /\ Cardinality(new) = Cardinality(I) * 1
  BY <1>1, FS_Product DEF Tokens
<1>3. Cardinality(tokens) \in Nat /\ Cardinality(I) \in Nat
  BY FS_CardinalityType
<1>4. tokens \cap new = {}
  BY TokensField
<1> HIDE DEF new
<1>5. Cardinality({}) = 0
  BY FS_EmptySet
<1>6. /\ IsFiniteSet(tokens \cup new)
      /\ Cardinality(tokens \cup new) = Cardinality(tokens) + Cardinality(new) - 0
  BY <1>2, <1>4, <1>5, FS_Union
<1>7. Cardinality(tokens \cup new) = Cardinality(tokens) + Cardinality(I)
  BY <1>2, <1>3, <1>6
<1> QED
  BY <1>3, <1>6, <1>7 DEF new

\* Tokens of four fields.
LEMMA FourFields ==
  ASSUME NEW A, NEW B, NEW C, NEW D, IsFiniteSet(A), IsFiniteSet(B), IsFiniteSet(C),
         IsFiniteSet(D), NEW a, NEW b, NEW c, NEW d,
         a # b, a # c, a # d, b # c, b # d, c # d,
         NEW tokens,
         tokens = Tokens(A, a) \cup Tokens(B, b) \cup Tokens(C, c) \cup Tokens(D, d)
  PROVE  /\ IsFiniteSet(tokens)
         /\ Cardinality(tokens) =
              Cardinality(A) + Cardinality(B) + Cardinality(C) + Cardinality(D)
<1> DEFINE one == Tokens(A, a)
           two == one \cup Tokens(B, b)
           three == two \cup Tokens(C, c)
           four == three \cup Tokens(D, d)
<1>1. Cardinality(A) \in Nat
  BY FS_CardinalityType
<1>2. IsFiniteSet(one) /\ Cardinality(one) = Cardinality(A)
  <2>1. IsFiniteSet({a}) /\ Cardinality({a}) = 1
    BY FS_Singleton
  <2>2. IsFiniteSet(one) /\ Cardinality(one) = Cardinality(A) * 1
    BY <2>1, FS_Product DEF Tokens
  <2> QED
    BY <1>1, <2>2
<1>3. /\ \A t \in one : t[2] # b
      /\ \A t \in two : t[2] # c
      /\ \A t \in three : t[2] # d
  BY TokensField
<1>4. tokens = four
  OBVIOUS
<1> HIDE DEF one
<1>5. /\ IsFiniteSet(two) /\ Cardinality(B) \in Nat
      /\ Cardinality(two) = Cardinality(one) + Cardinality(B)
  BY <1>2, <1>3, OneMoreField
<1> HIDE DEF two
<1>6. /\ IsFiniteSet(three) /\ Cardinality(C) \in Nat
      /\ Cardinality(three) = Cardinality(two) + Cardinality(C)
  BY <1>3, <1>5, OneMoreField
<1> HIDE DEF three
<1>7. /\ IsFiniteSet(four) /\ Cardinality(D) \in Nat
      /\ Cardinality(four) = Cardinality(three) + Cardinality(D)
  BY <1>3, <1>6, OneMoreField
<1> HIDE DEF four
<1>8. Cardinality(four) = Cardinality(A) + Cardinality(B) + Cardinality(C) + Cardinality(D)
  BY <1>2, <1>5, <1>6, <1>7
<1> QED
  BY <1>4, <1>7, <1>8, Zenon

\* The tokens of all payloads.
LEMMA TokensOf ==
  ASSUME NEW p, NEW t
  PROVE  t \in UNION {{i} \X Fills(p[i]) : i \in DOMAIN p} <=>
           \E i \in DOMAIN p : \E f \in Fills(p[i]) : t = <<i, f>>
<1>1. t \in UNION {{i} \X Fills(p[i]) : i \in DOMAIN p} <=>
        \E i \in DOMAIN p : t \in {i} \X Fills(p[i])
  OBVIOUS
<1> QED
  BY <1>1

\* The payloads that leave the field n to the operator.
Lacking(x, n) == Cardinality({i \in DOMAIN x : x[i][n] = OperatorFill})

\* What both exporters leave to the operator, and what only Xero asks for.
LEMMA PlaceholdersOf ==
  ASSUME NEW xml \in Seq(Entry),
         NEW x, x = [i \in DOMAIN xml |-> XeroBankTransaction(xml[i])],
         NEW q, q = [i \in DOMAIN xml |-> QboJournalEntry(xml[i])]
  PROVE  CountPlaceholders(x) - CountPlaceholders(q) =
           Lacking(x, "currency") + Lacking(x, "contact")
<1> DEFINE N == DOMAIN xml
           Ref == {i \in N : OrFill(xml[i].reference) = OperatorFill}
           Day == {i \in N : Date(xml[i]) = OperatorFill}
           Cur == {i \in N : x[i]["currency"] = OperatorFill}
           Con == {i \in N : x[i]["contact"] = OperatorFill}
           TX == UNION {{i} \X Fills(x[i]) : i \in DOMAIN x}
           TQ == UNION {{i} \X Fills(q[i]) : i \in DOMAIN q}
           shared == Tokens(Ref, "reference") \cup Tokens(Day, "date")
                     \cup Tokens(N, "bankAccount") \cup Tokens(N, "accountCode")
<1>1. IsFiniteSet(N) /\ \A i \in N : xml[i] \in Entry
  BY StatementFinite
<1>2. IsFiniteSet(Ref) /\ IsFiniteSet(Day) /\ IsFiniteSet(Cur) /\ IsFiniteSet(Con)
  BY <1>1, FS_Subset
<1>3. ASSUME NEW i \in N
      PROVE  /\ \A f : f \in Fills(x[i]) <=>
                  \/ f \in {"bankAccount", "accountCode"}
                  \/ f = "reference" /\ i \in Ref
                  \/ f = "date" /\ i \in Day
                  \/ f = "currency" /\ i \in Cur
                  \/ f = "contact" /\ i \in Con
             /\ \A f : f \in Fills(q[i]) <=>
                  \/ f \in {"bankAccount", "offsetAccount"}
                  \/ f = "docNumber" /\ i \in Ref
                  \/ f = "txnDate" /\ i \in Day
  <2>1. Amount(xml[i]) # OperatorFill
    BY <1>1, FillAssumption DEF Amount, Entry
  <2>2. OperatorFill \notin {"RECEIVE", "SPEND", "Debit", "Credit"}
    BY FillAssumption
  <2>3. /\ DOMAIN x[i] = {"type", "reference", "date", "bankAccount", "contact",
                          "currency", "unitAmount", "accountCode"}
        /\ x[i]["type"] \in {"RECEIVE", "SPEND"}
        /\ x[i]["reference"] = OrFill(xml[i].reference)
        /\ x[i]["date"] = Date(xml[i])
        /\ x[i]["bankAccount"] = OperatorFill /\ x[i]["accountCode"] = OperatorFill
        /\ x[i]["unitAmount"] = Amount(xml[i])
    BY DEF XeroBankTransaction
  <2>4. /\ DOMAIN q[i] = {"txnDate", "docNumber", "bankAmount", "bankPosting",
                          "bankAccount", "offsetAmount", "offsetPosting", "offsetAccount"}
        /\ q[i]["txnDate"] = Date(xml[i])
        /\ q[i]["docNumber"] = OrFill(xml[i].reference)
        /\ q[i]["bankAmount"] = Amount(xml[i]) /\ q[i]["offsetAmount"] = Amount(xml[i])
        /\ q[i]["bankAccount"] = OperatorFill /\ q[i]["offsetAccount"] = OperatorFill
        /\ q[i]["bankPosting"] \in {"Debit", "Credit"}
        /\ q[i]["offsetPosting"] \in {"Debit", "Credit"}
    BY DEF QboJournalEntry
  <2>5. i \in Ref <=> OrFill(xml[i].reference) = OperatorFill
    OBVIOUS
  <2>6. i \in Day <=> Date(xml[i]) = OperatorFill
    OBVIOUS
  <2>7. i \in Cur <=> x[i]["currency"] = OperatorFill
    OBVIOUS
  <2>8. i \in Con <=> x[i]["contact"] = OperatorFill
    OBVIOUS
  <2> HIDE DEF Ref, Day, Cur, Con
  <2>9. ASSUME NEW f
        PROVE  f \in Fills(x[i]) <=>
                 \/ f \in {"bankAccount", "accountCode"}
                 \/ f = "reference" /\ i \in Ref
                 \/ f = "date" /\ i \in Day
                 \/ f = "currency" /\ i \in Cur
                 \/ f = "contact" /\ i \in Con
    BY <2>1, <2>2, <2>3, <2>5, <2>6, <2>7, <2>8 DEF Fills
  <2>10. ASSUME NEW f
         PROVE  f \in Fills(q[i]) <=>
                  \/ f \in {"bankAccount", "offsetAccount"}
                  \/ f = "docNumber" /\ i \in Ref
                  \/ f = "txnDate" /\ i \in Day
    BY <2>1, <2>2, <2>4, <2>5, <2>6 DEF Fills
  <2> QED
    BY <2>9, <2>10
<1>4. DOMAIN x = N /\ DOMAIN q = N /\ Ref \subseteq N /\ Day \subseteq N /\ Cur \subseteq N /\ Con \subseteq N
  OBVIOUS
<1>5. TX = (shared \cup Tokens(Cur, "currency")) \cup Tokens(Con, "contact")
  <2> HIDE DEF N, Ref, Day, Cur, Con
  <2>1. \A t : t \in TX <=> \E i \in N : \E f \in Fills(x[i]) : t = <<i, f>>
    BY <1>4, TokensOf
  <2> QED
    BY <1>3, <1>4, <2>1 DEF Tokens
<1>6. TQ = Tokens(Ref, "docNumber") \cup Tokens(Day, "txnDate")
           \cup Tokens(N, "bankAccount") \cup Tokens(N, "offsetAccount")
  <2> HIDE DEF N, Ref, Day, Cur, Con
  <2>1. \A t : t \in TQ <=> \E i \in N : \E f \in Fills(q[i]) : t = <<i, f>>
    BY <1>4, TokensOf
  <2> QED
    BY <1>3, <1>4, <2>1 DEF Tokens
<1> HIDE DEF N, Ref, Day, Cur, Con
<1>7. \A t \in shared : t[2] \in {"reference", "date", "bankAccount", "accountCode"}
  BY TokensField
<1>8. /\ IsFiniteSet(shared)
      /\ Cardinality(shared) = Cardinality(Ref) + Cardinality(Day) + Cardinality(N) + Cardinality(N)
  <2>1. shared = Tokens(Ref, "reference") \cup Tokens(Day, "date")
                 \cup Tokens(N, "bankAccount") \cup Tokens(N, "accountCode")
    OBVIOUS
  <2> HIDE DEF shared
  <2>2. IsFiniteSet(shared)
    BY <1>1, <1>2, <2>1, FourFields
  <2>3. Cardinality(shared) =
          Cardinality(Ref) + Cardinality(Day) + Cardinality(N) + Cardinality(N)
    BY <1>1, <1>2, <2>1, FourFields
  <2> QED
    BY <2>2, <2>3
<1>9. Cardinality(TQ) = Cardinality(Ref) + Cardinality(Day) + Cardinality(N) + Cardinality(N)
  <2> HIDE DEF TQ
  <2> QED
    BY <1>1, <1>2, <1>6, FourFields
<1> HIDE DEF shared, TX, TQ
<1>10. /\ IsFiniteSet(shared \cup Tokens(Cur, "currency"))
       /\ Cardinality(shared) \in Nat /\ Cardinality(Cur) \in Nat
       /\ Cardinality(shared \cup Tokens(Cur, "currency")) = Cardinality(shared) + Cardinality(Cur)
  BY <1>2, <1>7, <1>8, OneMoreField
<1>11. \A t \in shared \cup Tokens(Cur, "currency") : t[2] # "contact"
  BY <1>7, TokensField
<1>12. /\ Cardinality(Con) \in Nat
       /\ Cardinality(TX) = Cardinality(shared \cup Tokens(Cur, "currency")) + Cardinality(Con)
  BY <1>2, <1>5, <1>10, <1>11, OneMoreField
<1>13. Cardinality(TX) - Cardinality(TQ) = Cardinality(Cur) + Cardinality(Con)
  BY <1>8, <1>9, <1>10, <1>12
<1>14. CountPlaceholders(x) = Cardinality(TX) /\ CountPlaceholders(q) = Cardinality(TQ)
  BY DEF CountPlaceholders, TX, TQ
<1>15. Lacking(x, "currency") = Cardinality(Cur) /\ Lacking(x, "contact") = Cardinality(Con)
  BY <1>4 DEF Cur, Con, Lacking
<1> QED
  BY <1>13, <1>14, <1>15

\* What an export answers.
LEMMA ExportOf ==
  ASSUME TInv, NEW c \in Calls, Done(c, "export_journal"), result[c].kind = "export",
         NEW xml, xml = request[c].xml, NEW target, target = request[c].target,
         target \in {"xero", "qbo"}
  PROVE  /\ xml \in Seq(Entry)
         /\ result[c].entries =
              [i \in DOMAIN xml |-> IF target = "xero" THEN XeroBankTransaction(xml[i])
                                    ELSE QboJournalEntry(xml[i])]
         /\ result[c].placeholders = CountPlaceholders(result[c].entries)
<1> DEFINE q == request[c]
           r == result[c]
<1>1. q \in Asked /\ r \in Answered(q) /\ q.tool = "export_journal"
  BY DEF TInv, CallInv, Done
<1>2. q.xml \in {Malformed} \cup Seq(Entry)
  <2>1. q \in AnyRequest
    BY <1>1, RequestAssumption DEF Asked
  <2> QED
    BY <1>1, <2>1 DEF AnyRequest, Delegated, Fallible, CatalogResources, RowTools,
       TextTools, RecordTools, StatementTools, CheckTools, DocumentTools,
       ConstantTools, ListTools
<1>3. r = ExportJournal(q)
  BY <1>1, RunOf DEF Answered
<1>4. xml # Malformed /\ r = Export(xml, target)
  BY <1>3 DEF ExportJournal, Error
<1>5. \E payloads : /\ payloads = [i \in DOMAIN xml |->
                                    IF target = "xero" THEN XeroBankTransaction(xml[i])
                                    ELSE QboJournalEntry(xml[i])]
                    /\ r = [kind |-> "export", target |-> target, entries |-> payloads,
                            placeholders |-> CountPlaceholders(payloads)]
  BY <1>4 DEF Export, SupportedTargets
<1> QED
  BY <1>2, <1>4, <1>5

\* The two exports of a statement book the same money on the same sides, and their
\* placeholder counts differ by what only Xero asks for (export_journal.py).
THEOREM TargetsAgree == Spec => []ExportsAgree
<1>1. TInv => ExportsAgree
  <2> SUFFICES ASSUME TInv, NEW c \in Calls, NEW d \in Calls,
                      SameStatement(c, d, "export_journal"),
                      request[c].target = "xero", result[c].kind = "export",
                      request[d].target = "qbo", result[d].kind = "export"
               PROVE  LET x == result[c].entries
                          q == result[d].entries
                          Missing(n) == Cardinality({i \in DOMAIN x : x[i][n] = OperatorFill})
                      IN  /\ DOMAIN x = DOMAIN q
                          /\ \A i \in DOMAIN x :
                               /\ {q[i].bankPosting, q[i].offsetPosting} = {"Debit", "Credit"}
                               /\ q[i].bankAmount = q[i].offsetAmount
                               /\ q[i].bankAmount = x[i].unitAmount
                               /\ (x[i].type = "RECEIVE") <=> (q[i].bankPosting = "Debit")
                          /\ result[c].placeholders - result[d].placeholders =
                               Missing("currency") + Missing("contact")
    BY DEF ExportsAgree
  <2> DEFINE xml == request[c].xml
             x == result[c].entries
             q == result[d].entries
  <2>1. Done(c, "export_journal") /\ Done(d, "export_journal") /\ xml = request[d].xml
    BY DEF SameStatement
  <2>2. /\ xml \in Seq(Entry)
        /\ x = [i \in DOMAIN xml |-> XeroBankTransaction(xml[i])]
        /\ q = [i \in DOMAIN xml |-> QboJournalEntry(xml[i])]
        /\ result[c].placeholders = CountPlaceholders(x)
        /\ result[d].placeholders = CountPlaceholders(q)
    BY <2>1, ExportOf
  <2> HIDE DEF xml, x, q
  <2>3. DOMAIN x = DOMAIN xml /\ DOMAIN q = DOMAIN xml
    BY <2>2
  <2>4. ASSUME NEW i \in DOMAIN x
        PROVE  /\ {q[i].bankPosting, q[i].offsetPosting} = {"Debit", "Credit"}
               /\ q[i].bankAmount = q[i].offsetAmount
               /\ q[i].bankAmount = x[i].unitAmount
               /\ (x[i].type = "RECEIVE") <=> (q[i].bankPosting = "Debit")
    <3>1. x[i] = XeroBankTransaction(xml[i]) /\ q[i] = QboJournalEntry(xml[i])
      BY <2>2, <2>3
    <3> QED
      BY <3>1 DEF XeroBankTransaction, QboJournalEntry
  <2>5. CountPlaceholders(x) - CountPlaceholders(q) =
          Lacking(x, "currency") + Lacking(x, "contact")
    BY <2>2, PlaceholdersOf
  <2> QED
    BY <2>2, <2>3, <2>4, <2>5 DEF x, q, Lacking
<1> QED
  BY <1>1, ToolsInvariance, PTL
-----------------------------------------------------------------------------
(***************************************************************************)
(* Findings.                                                               *)
(***************************************************************************)

LEMMA LeastAndGreatest ==
  ASSUME NEW S \in SUBSET Int, IsFiniteSet(S), S # {}
  PROVE  /\ \E a \in S : \A b \in S : a <= b
         /\ \E a \in S : \A b \in S : b <= a
<1> DEFINE k == Cardinality(S)
           f == Sorted(S, Smaller(S))
<1>1. Orders(Smaller(S), S)
  BY DEF Orders, Smaller
<1>2. /\ k \in Nat
      /\ \A n \in 1 .. k : f[n] \in S /\ Place(S, Smaller(S), f[n]) = n - 1
      /\ \A a \in S : /\ Place(S, Smaller(S), a) + 1 \in 1 .. k
                      /\ f[Place(S, Smaller(S), a) + 1] = a
      /\ \A m, n \in 1 .. k : m < n => <<f[m], f[n]>> \in Smaller(S)
  BY <1>1, SortedLists
<1>3. k # 0
  BY FS_EmptySet
<1> HIDE DEF f, k
<1>4. 1 \in 1 .. k /\ k \in 1 .. k
  BY <1>2, <1>3
<1>5. ASSUME NEW a \in S PROVE \E n \in 1 .. k : f[n] = a
  BY <1>2
<1>6. \A m, n \in 1 .. k : m < n => f[m] < f[n]
  BY <1>2 DEF Smaller
<1>7. ASSUME NEW b \in S PROVE f[1] <= b /\ b <= f[k]
  <2>1. PICK n \in 1 .. k : f[n] = b
    BY <1>5
  <2>2. f[1] \in Int /\ f[k] \in Int /\ b \in Int
    BY <1>2, <1>4
  <2>3. n = 1 \/ f[1] < f[n]
    BY <1>4, <1>6
  <2>4. n = k \/ f[n] < f[k]
    BY <1>4, <1>6
  <2> QED
    BY <2>1, <2>2, <2>3, <2>4
<1> QED
  BY <1>2, <1>4, <1>7

\* A list with one element for each member of a sorted set.
Each(S, F) == {F[a] : a \in S}
EachInOrder(S, before, F) == [n \in 1 .. Cardinality(S) |-> F[Sorted(S, before)[n]]]

LEMMA OneForEach ==
  ASSUME NEW S, IsFiniteSet(S), NEW before, Orders(before, S), NEW F,
         NEW s, s = EachInOrder(S, before, F)
  PROVE  /\ s \in Seq(Each(S, F))
         /\ ToSet(s) = Each(S, F)
<1> USE DEF Each, EachInOrder
<1> DEFINE k == Cardinality(S)
           f == Sorted(S, before)
<1>1. /\ k \in Nat
      /\ \A n \in 1 .. k : f[n] \in S
      /\ \A a \in S : \E n \in 1 .. k : f[n] = a
  BY SortedLists
<1>2. s = [n \in 1 .. k |-> F[f[n]]]
  OBVIOUS
<1> HIDE DEF k, f
<1>3. \A n \in 1 .. k : s[n] = F[f[n]] /\ s[n] \in {F[a] : a \in S}
  BY <1>1, <1>2
<1>4. s \in Seq({F[a] : a \in S}) /\ DOMAIN s = 1 .. k
  <2> DEFINE T == {F[a] : a \in S}
  <2>1. \A n \in 1 .. k : F[f[n]] \in T
    BY <1>1
  <2> HIDE DEF T
  <2>2. [n \in 1 .. k |-> F[f[n]]] \in Seq(T)
    BY <1>1, <2>1, IsASeq
  <2>3. s \in Seq(T)
    BY <1>2, <2>2
  <2>4. DOMAIN s = 1 .. k
    BY <1>2
  <2> QED
    BY <2>3, <2>4 DEF T
<1>5. \A x \in ToSet(s) : x \in {F[a] : a \in S}
  BY <1>3, <1>4 DEF ToSet
<1>6. ASSUME NEW a \in S PROVE F[a] \in ToSet(s)
  <2>1. PICK n \in 1 .. k : f[n] = a
    BY <1>1
  <2> QED
    BY <1>3, <1>4, <2>1 DEF ToSet
<1> QED
  BY <1>4, <1>5, <1>6

\* The members of two lists, one after the other.
LEMMA BothLists ==
  ASSUME NEW X, NEW s \in Seq(X), NEW t \in Seq(X)
  PROVE  /\ s \o t \in Seq(X)
         /\ ToSet(s \o t) = ToSet(s) \cup ToSet(t)
<1>2. /\ s \o t \in Seq(X)
      /\ Len(s \o t) = Len(s) + Len(t)
      /\ \A i \in 1 .. Len(s) + Len(t) : (s \o t)[i] =
           IF i <= Len(s) THEN s[i] ELSE t[i - Len(s)]
  BY ConcatProperties
<1>3. /\ DOMAIN s = 1 .. Len(s) /\ DOMAIN t = 1 .. Len(t)
      /\ DOMAIN (s \o t) = 1 .. Len(s) + Len(t)
      /\ Len(s) \in Nat /\ Len(t) \in Nat
  BY <1>2, LenProperties
<1>4. \A x \in ToSet(s \o t) : x \in ToSet(s) \cup ToSet(t)
  <2> SUFFICES ASSUME NEW i \in 1 .. Len(s) + Len(t)
               PROVE  (s \o t)[i] \in ToSet(s) \cup ToSet(t)
    BY <1>3 DEF ToSet
  <2>1. CASE i <= Len(s)
    BY <1>2, <1>3, <2>1 DEF ToSet
  <2>2. CASE ~ (i <= Len(s))
    <3>1. i - Len(s) \in DOMAIN t /\ (s \o t)[i] = t[i - Len(s)]
      BY <1>2, <1>3, <2>2
    <3> QED
      BY <3>1 DEF ToSet
  <2> QED
    BY <2>1, <2>2
<1>5. \A i \in DOMAIN s : s[i] \in ToSet(s \o t)
  <2> TAKE i \in DOMAIN s
  <2>1. i \in 1 .. Len(s) + Len(t) /\ (s \o t)[i] = s[i]
    BY <1>2, <1>3
  <2> QED
    BY <1>3, <2>1 DEF ToSet
<1>6. \A i \in DOMAIN t : t[i] \in ToSet(s \o t)
  <2> TAKE i \in DOMAIN t
  <2>1. Len(s) + i \in 1 .. Len(s) + Len(t) /\ (s \o t)[Len(s) + i] = t[i]
    BY <1>2, <1>3
  <2> QED
    BY <1>3, <2>1 DEF ToSet
<1>7. \A x \in ToSet(s) \cup ToSet(t) : x \in ToSet(s \o t)
  BY <1>5, <1>6 DEF ToSet
<1> QED
  BY <1>2, <1>4, <1>7

\* The keys of a statement, each with its entries.
LEMMA GroupsOfKeys ==
  ASSUME NEW xml \in Seq(Entry)
  PROVE  /\ Groups(xml) \subseteq Texts /\ IsFiniteSet(Groups(xml))
         /\ \A k \in Groups(xml) :
              /\ Group(xml, k) \subseteq DOMAIN xml /\ IsFiniteSet(Group(xml, k))
              /\ FirstOf(xml, k) \in Group(xml, k)
<1> DEFINE N == DOMAIN xml
           K == [i \in N |-> Keys(xml[i])]
<1>1. N = 1 .. Len(xml) /\ IsFiniteSet(N) /\ \A i \in N : xml[i] \in Entry
  BY StatementFinite
<1>2. \A i \in N : Keys(xml[i]) \subseteq Texts /\ IsFiniteSet(Keys(xml[i]))
  <2> SUFFICES ASSUME NEW i \in N
               PROVE  Keys(xml[i]) \subseteq Texts /\ IsFiniteSet(Keys(xml[i]))
    OBVIOUS
  <2>1. /\ xml[i].endToEndIds \in SUBSET Texts /\ IsFiniteSet(xml[i].endToEndIds)
        /\ xml[i].reference \in Texts \cup {NoText}
    BY <1>1 DEF Entry
  <2>2. IsFiniteSet({xml[i].reference} \ {NoText})
    BY FS_Singleton, FS_Difference
  <2> QED
    BY <2>1, <2>2 DEF Keys
<1>3. IsFiniteSet({K[i] : i \in N})
  <2> DEFINE T == {K[i] : i \in N}
  <2>1. K \in Surjection(N, T)
    BY DEF Surjection
  <2> HIDE DEF K, T, N
  <2>2. IsFiniteSet(T)
    BY <1>1, <2>1, FS_Surjection
  <2> QED
    BY <2>2 DEF T
<1>4. \A T \in {K[i] : i \in N} : IsFiniteSet(T)
  BY <1>2
<1>5. Groups(xml) = UNION {K[i] : i \in N}
  BY DEF Groups
<1>6. IsFiniteSet(Groups(xml))
  <2> HIDE DEF K, N
  <2> QED
    BY <1>3, <1>4, <1>5, FS_UNION
<1>7. Groups(xml) \subseteq Texts
  BY <1>2 DEF Groups
<1>8. ASSUME NEW k \in Groups(xml)
      PROVE  /\ Group(xml, k) \subseteq N /\ IsFiniteSet(Group(xml, k))
             /\ FirstOf(xml, k) \in Group(xml, k)
  <2>1. Group(xml, k) \in SUBSET N /\ Group(xml, k) # {}
    BY DEF Group, Groups
  <2>2. IsFiniteSet(Group(xml, k)) /\ Group(xml, k) \in SUBSET Int
    BY <1>1, <2>1, FS_Subset
  <2>3. \E i \in Group(xml, k) : \A j \in Group(xml, k) : i <= j
    BY <2>1, <2>2, LeastAndGreatest
  <2> QED
    BY <2>1, <2>2, <2>3 DEF FirstOf
<1> QED
  BY <1>6, <1>7, <1>8

\* The keys are met one after the other.
LEMMA KeysMet ==
  ASSUME NEW xml \in Seq(Entry), NEW seed \in Ranks
  PROVE  Orders(MetBefore(xml, seed), Groups(xml))
<1> DEFINE G == Groups(xml)
           at(k) == FirstOf(xml, k)
<1>1. \A k \in G : at(k) \in Int
  BY GroupsOfKeys, StatementFinite
<1>2. /\ \A k \in G : seed[k] \in Nat
      /\ \A k, l \in G : seed[k] = seed[l] => k = l
  BY RankAssumption, GroupsOfKeys
<1>3. \A k, l \in G : <<k, l>> \in MetBefore(xml, seed) <=>
                        at(k) < at(l) \/ (at(k) = at(l) /\ seed[k] < seed[l])
  BY DEF MetBefore
<1> HIDE DEF G, at
<1>4. \A k \in G : <<k, k>> \notin MetBefore(xml, seed)
  BY <1>1, <1>2, <1>3
<1>5. \A k, l \in G : k = l \/ <<k, l>> \in MetBefore(xml, seed)
                             \/ <<l, k>> \in MetBefore(xml, seed)
  <2> SUFFICES ASSUME NEW k \in G, NEW l \in G, k # l
               PROVE  <<k, l>> \in MetBefore(xml, seed) \/ <<l, k>> \in MetBefore(xml, seed)
    OBVIOUS
  <2>1. at(k) < at(l) \/ at(k) = at(l) \/ at(l) < at(k)
    BY <1>1
  <2>2. seed[k] < seed[l] \/ seed[l] < seed[k]
    BY <1>2
  <2> QED
    BY <1>3, <2>1, <2>2
<1>6. ASSUME NEW k \in G, NEW l \in G, NEW m \in G,
             <<k, l>> \in MetBefore(xml, seed), <<l, m>> \in MetBefore(xml, seed)
      PROVE  <<k, m>> \in MetBefore(xml, seed)
  BY <1>1, <1>2, <1>3, <1>6
<1> QED
  BY <1>4, <1>5, <1>6 DEF Orders, G

\* A part of an ordered set is ordered.
LEMMA OrdersPart ==
  ASSUME NEW S, NEW T \in SUBSET S, NEW before, Orders(before, S)
  PROVE  Orders(before, T)
BY DEF Orders

\* What the rules for fees and for spikes tell of an entry and of a date.
UnusualFee(entries, i) ==
  [type |-> "unusual_fee", severity |-> "MEDIUM", about |-> NoText,
   refs |-> <<EntryLabel(entries, i)>>]

VelocitySpike(entries, d) ==
  [type |-> "velocity_spike",
   severity |-> IF d \in Spikes(entries, 5) THEN "MEDIUM" ELSE "LOW",
   about |-> d, refs |-> Labels(entries, Booked(entries, d))]

DuplicatesIn(entries) == {Duplicate(entries, k) : k \in Doubled(entries)}
FeesIn(entries)       == {UnusualFee(entries, i) : i \in UnusualFeeAt(entries)}
SpikesIn(entries)     == {VelocitySpike(entries, d) : d \in Spikes(entries, 3)}

LEMMA DuplicatesFound ==
  ASSUME NEW xml \in Seq(Entry), NEW seed \in Ranks
  PROVE  /\ DuplicateReferences(xml, seed) \in Seq(DuplicatesIn(xml))
         /\ ToSet(DuplicateReferences(xml, seed)) = DuplicatesIn(xml)
<1> DEFINE D == Doubled(xml)
           F == [k \in D |-> Duplicate(xml, k)]
           before == MetBefore(xml, seed)
           s == DuplicateReferences(xml, seed)
<1>1. D \in SUBSET Groups(xml) /\ IsFiniteSet(D)
  <2>1. D \in SUBSET Groups(xml)
    BY DEF Doubled
  <2> QED
    BY <2>1, GroupsOfKeys, FS_Subset
<1>2. Orders(before, D)
  BY <1>1, KeysMet, OrdersPart
<1>3. \A n \in 1 .. Cardinality(D) : Sorted(D, before)[n] \in D
  BY <1>1, <1>2, SortedLists
<1>4. s = [n \in 1 .. Cardinality(D) |-> Duplicate(xml, Sorted(D, before)[n])]
  BY DEF DuplicateReferences
<1> HIDE DEF D, before, s
<1>5. s = EachInOrder(D, before, F)
  BY <1>3, <1>4 DEF EachInOrder
<1>6. Each(D, F) = DuplicatesIn(xml)
  BY DEF DuplicatesIn, D, Each
<1> HIDE DEF F
<1>7. s \in Seq(Each(D, F)) /\ ToSet(s) = Each(D, F)
  BY <1>1, <1>2, <1>5, OneForEach
<1> QED
  BY <1>6, <1>7 DEF s

LEMMA FeesFound ==
  ASSUME NEW xml \in Seq(Entry)
  PROVE  /\ UnusualFees(xml) \in Seq(FeesIn(xml))
         /\ ToSet(UnusualFees(xml)) = FeesIn(xml)
<1> DEFINE I == UnusualFeeAt(xml)
           F == [i \in I |-> UnusualFee(xml, i)]
           before == Smaller(I)
           s == UnusualFees(xml)
<1>1. I \in SUBSET Int /\ IsFiniteSet(I)
  <2>1. I \in SUBSET DOMAIN xml
    BY DEF UnusualFeeAt, FeeIndices
  <2> QED
    BY <2>1, StatementFinite, FS_Subset
<1>2. Orders(before, I)
  BY <1>1 DEF Orders, Smaller
<1>3. \A n \in 1 .. Cardinality(I) : Sorted(I, before)[n] \in I
  <2> HIDE DEF I, before
  <2> QED
    BY <1>1, <1>2, SortedLists
<1>4. s = [n \in 1 .. Cardinality(I) |-> UnusualFee(xml, Sorted(I, before)[n])]
  BY DEF UnusualFees, UnusualFee, Ascending
<1> HIDE DEF I, before, s
<1>5. s = EachInOrder(I, before, F)
  BY <1>3, <1>4 DEF EachInOrder
<1>6. Each(I, F) = FeesIn(xml)
  BY DEF FeesIn, I, Each
<1> HIDE DEF F
<1>7. s \in Seq(Each(I, F)) /\ ToSet(s) = Each(I, F)
  BY <1>1, <1>2, <1>5, OneForEach
<1> QED
  BY <1>6, <1>7 DEF s

\* The booking dates of a statement.
LEMMA DatesOf ==
  ASSUME NEW xml \in Seq(Entry)
  PROVE  /\ Dates(xml) \in SUBSET Nat /\ IsFiniteSet(Dates(xml))
         /\ \A d \in Dates(xml) : Count(xml, d) \in Nat
<1> DEFINE N == DOMAIN xml
           day == [i \in N |-> xml[i].bookingDate]
           T == {day[i] : i \in N}
<1>1. IsFiniteSet(N) /\ \A i \in N : xml[i] \in Entry
  BY StatementFinite
<1>2. T \in SUBSET Nat
  BY <1>1 DEF Entry
<1>3. day \in Surjection(N, T)
  BY DEF Surjection
<1>4. Dates(xml) = T \ {0}
  BY DEF Dates
<1> HIDE DEF T, day
<1>5. IsFiniteSet(T)
  <2> HIDE DEF N
  <2> QED
    BY <1>1, <1>3, FS_Surjection
<1>6. Dates(xml) \in SUBSET Nat /\ IsFiniteSet(Dates(xml))
  BY <1>2, <1>4, <1>5, FS_Subset
<1>7. ASSUME NEW d PROVE Count(xml, d) \in Nat
  <2>1. Booked(xml, d) \in SUBSET N
    BY DEF Booked
  <2> QED
    BY <1>1, <2>1, FS_Subset, FS_CardinalityType DEF Count
<1> QED
  BY <1>6, <1>7

LEMMA SpikesFound ==
  ASSUME NEW xml \in Seq(Entry)
  PROVE  /\ VelocitySpikes(xml) \in Seq(SpikesIn(xml))
         /\ ToSet(VelocitySpikes(xml)) = SpikesIn(xml)
<1> DEFINE D == Spikes(xml, 3)
           F == [d \in D |-> VelocitySpike(xml, d)]
           before == Smaller(D)
           s == VelocitySpikes(xml)
<1>1. D \in SUBSET Int /\ IsFiniteSet(D)
  <2>1. D \in SUBSET Dates(xml)
    BY DEF Spikes
  <2> QED
    BY <2>1, DatesOf, FS_Subset
<1>2. Orders(before, D)
  BY <1>1 DEF Orders, Smaller
<1>3. \A n \in 1 .. Cardinality(D) : Sorted(D, before)[n] \in D
  <2> HIDE DEF D, before
  <2> QED
    BY <1>1, <1>2, SortedLists
<1>4. s = [n \in 1 .. Cardinality(D) |-> VelocitySpike(xml, Sorted(D, before)[n])]
  BY DEF VelocitySpikes, VelocitySpike, Ascending
<1> HIDE DEF D, before, s
<1>5. s = EachInOrder(D, before, F)
  BY <1>3, <1>4 DEF EachInOrder
<1>6. Each(D, F) = SpikesIn(xml)
  BY DEF SpikesIn, D, Each
<1> HIDE DEF F
<1>7. s \in Seq(Each(D, F)) /\ ToSet(s) = Each(D, F)
  BY <1>1, <1>2, <1>5, OneForEach
<1> QED
  BY <1>6, <1>7 DEF s

\* The anomalies of a statement, whatever the seed.
LEMMA AnomaliesFound ==
  ASSUME NEW xml \in Seq(Entry), NEW seed \in Ranks
  PROVE  ToSet(DetectAnomalies(xml, seed)) =
           DuplicatesIn(xml) \cup FeesIn(xml) \cup SpikesIn(xml)
<1> DEFINE d == DuplicateReferences(xml, seed)
           f == UnusualFees(xml)
           v == VelocitySpikes(xml)
           U == DuplicatesIn(xml) \cup FeesIn(xml) \cup SpikesIn(xml)
<1>1. d \in Seq(DuplicatesIn(xml)) /\ ToSet(d) = DuplicatesIn(xml)
  BY DuplicatesFound
<1>2. f \in Seq(FeesIn(xml)) /\ ToSet(f) = FeesIn(xml)
  BY FeesFound
<1>3. v \in Seq(SpikesIn(xml)) /\ ToSet(v) = SpikesIn(xml)
  BY SpikesFound
<1>4. DetectAnomalies(xml, seed) = (d \o f) \o v
  BY DEF DetectAnomalies
<1> HIDE DEF d, f, v
<1>5. d \in Seq(U) /\ f \in Seq(U) /\ v \in Seq(U)
  BY <1>1, <1>2, <1>3
<1> HIDE DEF U
<1>6. d \o f \in Seq(U) /\ ToSet(d \o f) = ToSet(d) \cup ToSet(f)
  BY <1>5, BothLists
<1> DEFINE df == d \o f
<1>7. df \in Seq(U) /\ ToSet(df) = ToSet(d) \cup ToSet(f)
  BY <1>6
<1>8. DetectAnomalies(xml, seed) = df \o v
  BY <1>4
<1> HIDE DEF df
<1>9. ToSet(df \o v) = ToSet(df) \cup ToSet(v)
  BY <1>5, <1>7, BothLists
<1>10. ToSet(DetectAnomalies(xml, seed)) = ToSet(d) \cup ToSet(f) \cup ToSet(v)
  BY <1>7, <1>8, <1>9
<1> QED
  BY <1>1, <1>2, <1>3, <1>10

\* What a finished screening reported.
LEMMA Screening ==
  ASSUME TInv, NEW c \in Calls, Screened(c), NEW xml, xml = request[c].xml
  PROVE  /\ xml \in Seq(Entry)
         /\ ToSet(result[c].anomalies) = DuplicatesIn(xml) \cup FeesIn(xml) \cup SpikesIn(xml)
         /\ Reported(c, "duplicate_reference") = DuplicatesIn(xml)
         /\ Reported(c, "unusual_fee") = FeesIn(xml)
         /\ Reported(c, "velocity_spike") = SpikesIn(xml)
<1> DEFINE q == request[c]
           r == result[c]
<1>1. /\ q \in Asked /\ r \in Answered(q) /\ q.tool = "detect_statement_anomalies"
      /\ r.kind = "report"
  BY DEF TInv, CallInv, Screened, Done
<1>2. q.xml \in {Malformed} \cup Seq(Entry)
  <2>1. q \in AnyRequest
    BY <1>1, RequestAssumption DEF Asked
  <2> QED
    BY <1>1, <2>1 DEF AnyRequest, Delegated, Fallible, CatalogResources, RowTools,
       TextTools, RecordTools, StatementTools, CheckTools, DocumentTools,
       ConstantTools, ListTools
<1>3. PICK seed \in Ranks : r = DetectStatementAnomalies(q, seed)
  BY <1>1, RunOf DEF Answered
<1>4. xml # Malformed /\ r.anomalies = DetectAnomalies(xml, seed)
  BY <1>1, <1>3 DEF DetectStatementAnomalies, Error, Raised
<1>5. xml \in Seq(Entry)
  BY <1>2, <1>4
<1>6. ToSet(r.anomalies) = DuplicatesIn(xml) \cup FeesIn(xml) \cup SpikesIn(xml)
  BY <1>4, <1>5, AnomaliesFound
<1>7. \A a \in DuplicatesIn(xml) : a.type = "duplicate_reference"
  BY DEF DuplicatesIn, Duplicate
<1>8. \A a \in FeesIn(xml) : a.type = "unusual_fee"
  BY DEF FeesIn, UnusualFee
<1>9. \A a \in SpikesIn(xml) : a.type = "velocity_spike"
  BY DEF SpikesIn, VelocitySpike
<1> HIDE DEF q
<1> QED
  BY <1>5, <1>6, <1>7, <1>8, <1>9 DEF Reported

\* Two screenings of one statement report the same anomalies, whatever the hash seeds of
\* the processes they ran in (detect_anomalies).
THEOREM SeedsAgree == Spec => []SameFindings
<1>1. TInv => SameFindings
  BY Screening DEF SameFindings
<1> QED
  BY <1>1, ToolsInvariance, PTL

\* A statement that begins another has its first entries.
LEMMA FirstEntries ==
  ASSUME NEW xml \in Seq(Entry), NEW longer \in Seq(Entry), IsPrefix(xml, longer)
  PROVE  /\ DOMAIN xml = {i \in DOMAIN longer : i <= Len(xml)}
         /\ Len(xml) \in Nat /\ DOMAIN xml = 1 .. Len(xml)
         /\ \A i \in DOMAIN xml : i \in DOMAIN longer /\ xml[i] = longer[i]
<1> DEFINE n == Len(xml)
<1>1. /\ DOMAIN xml = 1 .. n /\ DOMAIN longer = 1 .. Len(longer)
      /\ n \in Nat /\ Len(longer) \in Nat
  BY StatementFinite
<1>2. n <= Len(longer) /\ SubSeq(xml, 1, n) = SubSeq(longer, 1, n)
  BY DEF IsPrefix
<1>3. SubSeq(xml, 1, n) = xml
  BY SubSeqFull
<1>4. \A i \in 1 .. n : SubSeq(longer, 1, n)[i] = longer[i]
  <2>1. \A i \in 1 .. n : longer[i] \in Entry
    BY <1>1, <1>2, ElementOfSeq
  <2>2. \A i \in 1 .. n - 1 + 1 : SubSeq(longer, 1, n)[i] = longer[1 + i - 1]
    <3> HIDE DEF n
    <3> QED
      BY <1>1, <2>1, SubSeqProperties
  <2> QED
    BY <1>1, <2>2
<1> QED
  BY <1>1, <1>2, <1>3, <1>4

\* The yardstick only grows.
LEMMA BaselineGrows ==
  ASSUME NEW xml \in Seq(Entry), NEW longer \in Seq(Entry), IsPrefix(xml, longer),
         Principals(xml) # {}
  PROVE  /\ Baseline(xml) \in Int /\ Baseline(longer) \in Int
         /\ Baseline(xml) <= Baseline(longer)
<1>1. ASSUME NEW s \in Seq(Entry), Principals(s) # {}
      PROVE  /\ Baseline(s) \in Principals(s) /\ Principals(s) \subseteq Int
             /\ \A p \in Principals(s) : p <= Baseline(s)
  <2> DEFINE J == {j \in DOMAIN s \ FeeIndices(s) :
                    s[j].amount \notin {NoAmount, NaN} /\ s[j].amount > 0}
             F == [j \in J |-> s[j].amount]
  <2>1. \A j \in J : s[j].amount \in Int
    <3>1. \A j \in DOMAIN s : s[j] \in Entry
      BY StatementFinite
    <3> QED
      BY <3>1 DEF Entry
  <2>2. Principals(s) = {F[j] : j \in J}
    BY DEF Principals
  <2>3. F \in Surjection(J, Principals(s))
    BY <2>2 DEF Surjection
  <2>4. J \in SUBSET DOMAIN s
    OBVIOUS
  <2> HIDE DEF F, J
  <2>5. IsFiniteSet(J)
    BY <2>4, StatementFinite, FS_Subset
  <2>6. IsFiniteSet(Principals(s))
    BY <2>3, <2>5, FS_Surjection
  <2>7. Principals(s) \in SUBSET Int
    BY <2>1, <2>2 DEF F
  <2>8. \E m \in Principals(s) : \A p \in Principals(s) : p <= m
    BY <1>1, <2>6, <2>7, LeastAndGreatest
  <2> QED
    BY <2>7, <2>8 DEF Baseline
<1>2. Principals(xml) \subseteq Principals(longer)
  <2>1. \A i \in DOMAIN xml : i \in DOMAIN longer /\ xml[i] = longer[i]
    BY FirstEntries
  <2> QED
    BY <2>1 DEF Principals, FeeIndices
<1>3. Principals(longer) # {}
  BY <1>2
<1> QED
  BY <1>1, <1>2, <1>3

\* A fee that is reported in a statement is reported in its beginning, if it is there.
LEMMA FeesFall ==
  ASSUME NEW xml \in Seq(Entry), NEW longer \in Seq(Entry), IsPrefix(xml, longer),
         Principals(xml) # {}, NEW i \in DOMAIN xml, i \in UnusualFeeAt(longer)
  PROVE  i \in UnusualFeeAt(xml)
<1>1. xml[i] = longer[i] /\ xml[i] \in Entry
  BY FirstEntries, StatementFinite
<1>2. /\ LooksLikeFee(xml[i]) /\ xml[i].amount \notin {NoAmount, NaN}
      /\ 4 * xml[i].amount > Baseline(longer)
  BY <1>1 DEF UnusualFeeAt, FeeIndices
<1>3. xml[i].amount \in Int
  BY <1>1, <1>2 DEF Entry
<1>4. 4 * xml[i].amount > Baseline(xml)
  BY <1>2, <1>3, BaselineGrows
<1> QED
  BY <1>2, <1>4 DEF UnusualFeeAt, FeeIndices

\* An entry that passed as a fee passes when entries are added (_fee_anomalies).
THEOREM FeeVerdictsFall == Spec => []FeeVerdictsOnlyFall
<1>1. TInv => FeeVerdictsOnlyFall
  <2> SUFFICES ASSUME TInv, NEW c \in Calls, NEW d \in Calls, Screened(c), Screened(d),
                      Extends(d, c), Principals(request[c].xml) # {},
                      NEW i \in DOMAIN request[c].xml,
                      \A j \in DOMAIN request[d].xml :
                        EntryLabel(request[d].xml, j) = EntryLabel(request[d].xml, i) => j = i,
                      \E a \in Reported(d, "unusual_fee") :
                        a.refs = <<EntryLabel(request[d].xml, i)>>
               PROVE  \E a \in Reported(c, "unusual_fee") :
                        a.refs = <<EntryLabel(request[d].xml, i)>>
    BY DEF FeeVerdictsOnlyFall
  <2> DEFINE xml == request[c].xml
             longer == request[d].xml
  <2>1. /\ xml \in Seq(Entry) /\ longer \in Seq(Entry)
        /\ Reported(c, "unusual_fee") = FeesIn(xml)
        /\ Reported(d, "unusual_fee") = FeesIn(longer)
    BY Screening
  <2>2. IsPrefix(xml, longer)
    BY DEF Extends
  <2>3. PICK j \in UnusualFeeAt(longer) :
          UnusualFee(longer, j).refs = <<EntryLabel(longer, i)>>
    BY <2>1 DEF FeesIn
  <2>4. EntryLabel(longer, j) = EntryLabel(longer, i) /\ j \in DOMAIN longer
    BY <2>3 DEF UnusualFee, UnusualFeeAt, FeeIndices
  <2>5. j = i
    BY <2>4
  <2> HIDE DEF xml, longer
  <2>6. i \in UnusualFeeAt(xml)
    BY <2>1, <2>2, <2>3, <2>5, FeesFall DEF xml
  <2>7. xml[i] = longer[i]
    BY <2>1, <2>2, FirstEntries DEF xml
  <2>8. UnusualFee(xml, i).refs = <<EntryLabel(longer, i)>>
    BY <2>7 DEF UnusualFee, EntryLabel
  <2> QED
    BY <2>1, <2>6, <2>8 DEF FeesIn, longer
<1> QED
  BY <1>1, ToolsInvariance, PTL

\* The positions of the first entries of a group, and their labels.
LEMMA LabelsContinue ==
  ASSUME NEW xml \in Seq(Entry), NEW longer \in Seq(Entry), IsPrefix(xml, longer),
         NEW k \in Groups(xml)
  PROVE  /\ k \in Groups(longer)
         /\ Cardinality(Group(xml, k)) \in Nat /\ Cardinality(Group(longer, k)) \in Nat
         /\ Cardinality(Group(xml, k)) <= Cardinality(Group(longer, k))
         /\ IsPrefix(Labels(xml, Group(xml, k)), Labels(longer, Group(longer, k)))
<1> DEFINE I == Group(xml, k)
           J == Group(longer, k)
           s == Labels(xml, I)
           t == Labels(longer, J)
<1>1. /\ DOMAIN xml = {i \in DOMAIN longer : i <= Len(xml)} /\ Len(xml) \in Nat
      /\ \A i \in DOMAIN xml : i \in DOMAIN longer /\ xml[i] = longer[i]
  BY FirstEntries
<1>2. k \in Groups(longer)
  BY <1>1 DEF Groups
<1>3. I = {i \in J : i <= Len(xml)}
  BY <1>1 DEF Group
<1>4. J \in SUBSET Int /\ IsFiniteSet(J) /\ I \in SUBSET Int /\ IsFiniteSet(I)
      /\ I \subseteq DOMAIN xml
  BY <1>2, GroupsOfKeys, StatementFinite
<1>5. s = [n \in 1 .. Cardinality(I) |-> EntryLabel(xml, Ascending(I)[n])]
  BY DEF Labels
<1>6. t = [n \in 1 .. Cardinality(J) |-> EntryLabel(longer, Ascending(J)[n])]
  BY DEF Labels
<1> HIDE DEF I, J, s, t
<1>7. /\ Cardinality(I) \in Nat /\ Cardinality(J) \in Nat /\ Cardinality(I) <= Cardinality(J)
      /\ \A n \in 1 .. Cardinality(I) : Ascending(I)[n] = Ascending(J)[n]
  BY <1>1, <1>3, <1>4, AscendingPrefix
<1>8. \A n \in 1 .. Cardinality(I) : s[n] = t[n]
  <2> TAKE n \in 1 .. Cardinality(I)
  <2>1. Ascending(I)[n] \in DOMAIN xml
    BY <1>4, AscendingLists
  <2>2. n \in 1 .. Cardinality(J)
    BY <1>7
  <2> QED
    BY <1>1, <1>5, <1>6, <1>7, <2>1, <2>2 DEF EntryLabel
<1>9. Len(s) = Cardinality(I) /\ Len(t) = Cardinality(J)
  BY <1>5, <1>6, <1>7
<1>10. SubSeq(s, 1, Len(s)) = SubSeq(t, 1, Len(s))
  <2> DEFINE m == Cardinality(I)
  <2>1. \A n \in 1 .. m : n \in 1 .. Cardinality(J)
    BY <1>7
  <2>2. SubSeq(s, 1, m) = [n \in 1 .. m |-> s[n]]
    BY <1>7, <1>9
  <2>3. SubSeq(t, 1, m) = [n \in 1 .. m |-> t[n]]
    BY <1>7, <1>9
  <2> QED
    BY <1>8, <1>9, <2>2, <2>3
<1> QED
  BY <1>2, <1>7, <1>9, <1>10 DEF IsPrefix, I, J, s, t

\* A double payment stays reported when the statement grows
\* (_duplicate_reference_anomalies).
THEOREM DuplicatesStay == Spec => []DuplicatesPersist
<1>1. TInv => DuplicatesPersist
  <2> SUFFICES ASSUME TInv, NEW c \in Calls, NEW d \in Calls, Screened(c), Screened(d),
                      Extends(d, c), NEW a \in Reported(c, "duplicate_reference")
               PROVE  \E b \in Reported(d, "duplicate_reference") :
                        b.about = a.about /\ IsPrefix(a.refs, b.refs)
    BY DEF DuplicatesPersist
  <2> DEFINE xml == request[c].xml
             longer == request[d].xml
  <2>1. /\ xml \in Seq(Entry) /\ longer \in Seq(Entry)
        /\ Reported(c, "duplicate_reference") = DuplicatesIn(xml)
        /\ Reported(d, "duplicate_reference") = DuplicatesIn(longer)
    BY Screening
  <2>2. IsPrefix(xml, longer)
    BY DEF Extends
  <2> HIDE DEF xml, longer
  <2>3. PICK k \in Doubled(xml) : a = Duplicate(xml, k)
    BY <2>1 DEF DuplicatesIn
  <2>4. k \in Groups(xml) /\ Cardinality(Group(xml, k)) > 1
    BY DEF Doubled
  <2>5. /\ k \in Groups(longer)
        /\ Cardinality(Group(xml, k)) \in Nat /\ Cardinality(Group(longer, k)) \in Nat
        /\ Cardinality(Group(xml, k)) <= Cardinality(Group(longer, k))
        /\ IsPrefix(Labels(xml, Group(xml, k)), Labels(longer, Group(longer, k)))
    BY <2>1, <2>2, <2>4, LabelsContinue
  <2>6. k \in Doubled(longer)
    BY <2>4, <2>5 DEF Doubled
  <2>7. /\ Duplicate(longer, k) \in Reported(d, "duplicate_reference")
        /\ Duplicate(longer, k).about = a.about
    BY <2>1, <2>3, <2>6 DEF DuplicatesIn, Duplicate
  <2>8. IsPrefix(a.refs, Duplicate(longer, k).refs)
    BY <2>3, <2>5 DEF Duplicate
  <2> QED
    BY <2>7, <2>8
<1> QED
  BY <1>1, ToolsInvariance, PTL

\* A spike has more entries than the two middle dates, which are busier than half.
LEMMA FewSpikes ==
  ASSUME NEW xml \in Seq(Entry)
  PROVE  /\ IsFiniteSet(Spikes(xml, 3)) /\ Cardinality(Spikes(xml, 3)) \in Nat
         /\ Cardinality(Dates(xml)) \in Nat
         /\ 2 * Cardinality(Spikes(xml, 3)) < Cardinality(Dates(xml)) \/ Spikes(xml, 3) = {}
<1> DEFINE D == Dates(xml)
           n == Cardinality(D)
           before == Quieter(xml)
           order == Sorted(D, before)
           place(d) == Place(D, before, d) + 1
           high == (n + 2) \div 2
           low == (n + 1) \div 2
           S == Spikes(xml, 3)
<1>1. D \in SUBSET Nat /\ IsFiniteSet(D) /\ \A d \in D : Count(xml, d) \in Nat
  BY DatesOf
<1>2. \A d, e \in D : <<d, e>> \in before <=>
        Count(xml, d) < Count(xml, e) \/ (Count(xml, d) = Count(xml, e) /\ d < e)
  BY DEF Quieter
<1>3. Orders(before, D)
  <2> HIDE DEF before, D
  <2>1. \A d \in D : <<d, d>> \notin before
    BY <1>1, <1>2
  <2>2. ASSUME NEW d \in D, NEW e \in D, d # e
        PROVE  <<d, e>> \in before \/ <<e, d>> \in before
    <3>1. Count(xml, d) < Count(xml, e) \/ Count(xml, d) = Count(xml, e)
            \/ Count(xml, e) < Count(xml, d)
      BY <1>1
    <3>2. d < e \/ e < d
      BY <1>1, <2>2
    <3> QED
      BY <1>2, <3>1, <3>2
  <2>3. ASSUME NEW d \in D, NEW e \in D, NEW f \in D, <<d, e>> \in before, <<e, f>> \in before
        PROVE  <<d, f>> \in before
    BY <1>1, <1>2, <2>3
  <2> QED
    BY <2>1, <2>2, <2>3 DEF Orders
<1>4. /\ n \in Nat
      /\ \A m \in 1 .. n : order[m] \in D
      /\ \A d \in D : place(d) \in 1 .. n /\ order[place(d)] = d
      /\ \A k, m \in 1 .. n : k < m => <<order[k], order[m]>> \in before
  <2> HIDE DEF D, before
  <2> QED
    BY <1>1, <1>3, SortedLists
<1>5. ASSUME NEW d \in D, NEW e \in D, <<d, e>> \in before
      PROVE  Count(xml, d) <= Count(xml, e)
  <2>1. Count(xml, d) \in Nat /\ Count(xml, e) \in Nat
    BY <1>1
  <2>2. Count(xml, d) < Count(xml, e) \/ Count(xml, d) = Count(xml, e)
    BY <1>2, <1>5
  <2> QED
    BY <2>1, <2>2
<1>6. S = {d \in D : n > 1 /\ 2 * Count(xml, d) >
                      3 * (Count(xml, order[low]) + Count(xml, order[high]))}
  BY DEF Spikes, TwiceMedian
<1>7. CASE n <= 1
  <2>1. S = {}
    BY <1>4, <1>6, <1>7
  <2>2. IsFiniteSet(S) /\ Cardinality(S) \in Nat
    <3> HIDE DEF S
    <3> QED
      BY <2>1, FS_EmptySet
  <2>3. n \in Nat
    BY <1>4
  <2> QED
    BY <2>1, <2>2, <2>3
<1>8. CASE ~ (n <= 1)
  <2>1. /\ low \in 1 .. n /\ high \in 1 .. n
        /\ n - high \in Nat /\ 2 * (n - high) < n
    BY <1>4, <1>8
  <2> DEFINE T == high + 1 .. n
             F == [d \in S |-> place(d)]
  <2>2. ASSUME NEW d \in S PROVE place(d) \in T
    <3>1. d \in D /\ place(d) \in 1 .. n /\ order[place(d)] = d
      BY <1>4, <1>6
    <3>2. 2 * Count(xml, d) > 3 * (Count(xml, order[low]) + Count(xml, order[high]))
      BY <1>6
    <3>3. /\ Count(xml, order[low]) \in Nat /\ Count(xml, order[high]) \in Nat
          /\ Count(xml, d) \in Nat
      BY <1>1, <1>4, <2>1, <3>1
    <3>4. Count(xml, d) > Count(xml, order[high])
      BY <3>2, <3>3
    <3>5. ~ (place(d) < high) /\ place(d) # high
      <4> HIDE DEF before, order, place, high, low, D
      <4>1. place(d) < high => <<d, order[high]>> \in before
        BY <1>4, <2>1, <3>1
      <4>2. ~ (<<d, order[high]>> \in before)
        <5>1. order[high] \in D
          BY <1>4, <2>1
        <5>2. <<d, order[high]>> \in before => Count(xml, d) <= Count(xml, order[high])
          BY <1>5, <3>1, <5>1
        <5> QED
          BY <3>3, <3>4, <5>2
      <4>3. place(d) # high
        BY <3>1, <3>3, <3>4
      <4> QED
        BY <4>1, <4>2, <4>3
    <3> HIDE DEF place, high
    <3> QED
      BY <1>4, <2>1, <3>1, <3>5
  <2>3. \A d, e \in S : place(d) = place(e) => d = e
    BY <1>4, <1>6
  <2>4. F \in Injection(S, T)
    BY <2>2, <2>3 DEF Injection, IsInjective
  <2>5. IsFiniteSet(T) /\ Cardinality(T) = n - high
    <3> HIDE DEF n, high
    <3>1. high + 1 \in Int /\ n \in Int /\ n \in Nat /\ high \in Int /\ n - high \in Nat
      BY <1>4, <2>1
    <3>2. /\ IsFiniteSet(high + 1 .. n)
          /\ Cardinality(high + 1 .. n) = IF high + 1 > n THEN 0 ELSE n - (high + 1) + 1
      BY <3>1, FS_Interval
    <3> QED
      BY <3>1, <3>2
  <2> HIDE DEF F, T, S
  <2>6. IsFiniteSet(S) /\ Cardinality(S) <= Cardinality(T)
    BY <2>4, <2>5, FS_Injection
  <2>7. Cardinality(S) \in Nat
    BY <2>6, FS_CardinalityType
  <2> HIDE DEF n, high
  <2>8. 2 * Cardinality(S) < n
    BY <1>4, <2>1, <2>5, <2>6, <2>7
  <2> QED
    BY <1>4, <2>6, <2>7, <2>8 DEF S, n
<1> QED
  BY <1>7, <1>8

\* Fewer than half of the dates of a statement are ever reported (_velocity_anomalies).
THEOREM SpikesAreFew == Spec => []SpikesAreMinority
<1>1. TInv => SpikesAreMinority
  <2> SUFFICES ASSUME TInv, NEW c \in Calls, Screened(c)
               PROVE  \/ 2 * Cardinality(Reported(c, "velocity_spike")) <
                           Cardinality(Dates(request[c].xml))
                      \/ Reported(c, "velocity_spike") = {}
    BY DEF SpikesAreMinority
  <2> DEFINE xml == request[c].xml
             S == Spikes(xml, 3)
             F == [d \in S |-> VelocitySpike(xml, d)]
             T == SpikesIn(xml)
  <2>1. xml \in Seq(Entry) /\ Reported(c, "velocity_spike") = T
    BY Screening
  <2>2. /\ IsFiniteSet(S) /\ Cardinality(S) \in Nat /\ Cardinality(Dates(xml)) \in Nat
        /\ 2 * Cardinality(S) < Cardinality(Dates(xml)) \/ S = {}
    <3> HIDE DEF xml
    <3> QED
      BY <2>1, FewSpikes
  <2>3. F \in Surjection(S, T)
    BY DEF Surjection, SpikesIn
  <2>4. S = {} => T = {}
    BY DEF SpikesIn
  <2> HIDE DEF F, S, T
  <2>5. IsFiniteSet(T) /\ Cardinality(T) <= Cardinality(S)
    BY <2>2, <2>3, FS_Surjection
  <2>6. Cardinality(T) \in Nat
    BY <2>5, FS_CardinalityType
  <2> HIDE DEF xml
  <2>7. 2 * Cardinality(T) < Cardinality(Dates(xml)) \/ T = {}
    BY <2>2, <2>4, <2>5, <2>6
  <2> QED
    BY <2>1, <2>7 DEF xml
<1> QED
  BY <1>1, ToolsInvariance, PTL
=============================================================================
