-------------------------- MODULE ComplexityProofs --------------------------
(***************************************************************************)
(* Proofs about Complexity for any names, metrics, ceilings and number of  *)
(* functions: no two offenders share a key, and the check passes exactly   *)
(* on the trees the baseline records.                                      *)
(***************************************************************************)
EXTENDS Complexity, FiniteSetTheorems, FunctionTheorems, TLAPS

\* A report as json.loads returns it: a function of keys, and each entry one of metrics.
WellFormed(r) ==
  /\ r = [key \in DOMAIN r |-> r[key]]
  /\ \A key \in DOMAIN r : r[key] = [k \in DOMAIN r[key] |-> r[key][k]]

Namesakes(c, i) == {j \in Offenders(c) : j < i /\ c[j].name = c[i].name}

LEMMA CodeShape ==
  ASSUME NEW c \in Code
  PROVE  /\ \E n \in 0 .. MaxFunctions : DOMAIN c = 1 .. n /\ c \in [1 .. n -> Function]
         /\ c \in Seq(Function)
         /\ DOMAIN c = 1 .. Len(c)
         /\ Len(c) \in 0 .. MaxFunctions
<1>1. PICK n \in 0 .. MaxFunctions : c \in [1 .. n -> Function]
  BY DEF Code
<1>2. n \in Nat
  BY <1>1, BoundsAssumption
<1>3. c \in Seq(Function)
  BY <1>1, <1>2
<1> QED
  BY <1>1, <1>2, <1>3

\* Offenders of one name are told apart by how many came before them.
LEMMA KeysDiffer ==
  ASSUME NEW c \in Code, NEW i \in Offenders(c), NEW j \in Offenders(c), i # j
  PROVE  Key(c, i) # Key(c, j)
<1>1. \A a, b \in Offenders(c) : a < b => Key(c, a) # Key(c, b)
  <2> SUFFICES ASSUME NEW a \in Offenders(c), NEW b \in Offenders(c), a < b,
                      Key(c, a) = Key(c, b)
               PROVE  FALSE
    OBVIOUS
  <2>1. a \in Nat /\ b \in Nat /\ IsFiniteSet(Offenders(c))
    <3>1. Offenders(c) \in SUBSET (1 .. Len(c)) /\ Len(c) \in Nat
      BY CodeShape, BoundsAssumption DEF Offenders, Measured
    <3>2. IsFiniteSet(1 .. Len(c))
      BY <3>1, FS_Interval
    <3> QED
      BY <3>1, <3>2, FS_Subset
  <2>2. c[a].name = c[b].name /\ Cardinality(Namesakes(c, a)) = Cardinality(Namesakes(c, b))
    BY DEF Key, Namesakes
  <2>3. Namesakes(c, a) \in SUBSET Namesakes(c, b)
    <3>1. Offenders(c) \subseteq Nat
      BY CodeShape DEF Offenders, Measured
    <3> QED
      BY <2>1, <2>2, <3>1 DEF Namesakes
  <2>4. a \in Namesakes(c, b) /\ a \notin Namesakes(c, a)
    BY <2>1, <2>2 DEF Namesakes
  <2>5. IsFiniteSet(Namesakes(c, b))
    <3>1. Namesakes(c, b) \in SUBSET Offenders(c)
      BY DEF Namesakes
    <3> QED
      BY <2>1, <3>1, FS_Subset
  <2> QED
    BY <2>2, <2>3, <2>4, <2>5, FS_Subset
<1>2. i \in Nat /\ j \in Nat
  BY CodeShape DEF Offenders, Measured
<1> QED
  BY <1>1, <1>2

\* The entry of an offender is what it has over its ceilings.
LEMMA MeasuredEntry ==
  ASSUME NEW c \in Code, NEW i \in Offenders(c)
  PROVE  /\ Key(c, i) \in DOMAIN Measure(c)
         /\ Measure(c)[Key(c, i)] = [k \in Over(c[i]) |-> c[i].metrics[k]]
<1> DEFINE last == CHOOSE x \in Offenders(c) :
                     /\ Key(c, x) = Key(c, i)
                     /\ \A j \in Offenders(c) : Key(c, j) = Key(c, i) => j <= x
<1>1. \A j \in Offenders(c) : Key(c, j) = Key(c, i) => j = i
  BY KeysDiffer
<1>2. i \in Nat
  BY CodeShape DEF Offenders, Measured
<1>3. last = i
  <2>1. \A j \in Offenders(c) : Key(c, j) = Key(c, i) => j <= i
    BY <1>1, <1>2
  <2> QED
    BY <1>1, <2>1
<1>4. Measure(c)[Key(c, i)] = [k \in Over(c[last]) |-> c[last].metrics[k]]
  <2> HIDE DEF last
  <2> QED
    BY DEF Measure, last
<1>5. Key(c, i) \in DOMAIN Measure(c)
  BY DEF Measure
<1> QED
  BY <1>3, <1>4, <1>5

LEMMA MeasureIsReport ==
  ASSUME NEW c \in Code
  PROVE  WellFormed(Measure(c)) /\ IsReport(Measure(c))
<1>1. Measure(c) = [key \in DOMAIN Measure(c) |-> Measure(c)[key]]
  BY DEF Measure
<1>2. ASSUME NEW key \in DOMAIN Measure(c)
      PROVE  /\ Measure(c)[key] = [k \in DOMAIN Measure(c)[key] |-> Measure(c)[key][k]]
             /\ DOMAIN Measure(c)[key] \in (SUBSET Metrics) \ {{}}
             /\ \A k \in DOMAIN Measure(c)[key] :
                  Measure(c)[key][k] \in Nat /\ Measure(c)[key][k] > Ceiling[k]
  <2>1. PICK i \in Offenders(c) : key = Key(c, i)
    BY <1>2 DEF Measure
  <2>2. Measure(c)[key] = [k \in Over(c[i]) |-> c[i].metrics[k]]
    BY <2>1, MeasuredEntry
  <2>3. c[i] \in Function
    BY CodeShape DEF Offenders, Measured
  <2>4. c[i].metrics \in [Metrics -> 0 .. MaxValue]
    BY <2>3 DEF Function
  <2>5. Over(c[i]) \in (SUBSET Metrics) \ {{}}
    BY DEF Over, Offenders
  <2> QED
    BY <2>2, <2>4, <2>5, BoundsAssumption DEF Over
<1> QED
  BY <1>1, <1>2 DEF WellFormed, IsReport

\* Two reports without a problem between them are equal, and a report has no problem with
\* itself: the ratchet has no slack.
THEOREM CompareIsEquality ==
  ASSUME NEW current, NEW allowed,
         WellFormed(current), IsReport(current), WellFormed(allowed), IsReport(allowed)
  PROVE  Compare(current, allowed) = {} <=> current = allowed
<1>1. ASSUME Compare(current, allowed) = {}
      PROVE  current = allowed
  <2>1. ASSUME NEW key \in DOMAIN current, NEW k \in DOMAIN current[key]
        PROVE  /\ key \in DOMAIN allowed
               /\ k \in DOMAIN allowed[key]
               /\ ~ (current[key][k] > allowed[key][k])
    <3>1. k \in Metrics /\ <<key, k>> \notin Worse(current, allowed)
      BY <1>1 DEF Compare, IsReport
    <3>2. k \in DOMAIN Get(allowed, key) /\ ~ (current[key][k] > allowed[key][k])
      BY <3>1, <2>1 DEF Worse
    <3>3. key \in DOMAIN allowed
      BY <3>2 DEF Get
    <3> QED
      BY <3>2, <3>3 DEF Get
  <2>2. ASSUME NEW key \in DOMAIN allowed, NEW k \in DOMAIN allowed[key]
        PROVE  /\ key \in DOMAIN current
               /\ k \in DOMAIN current[key]
               /\ ~ (current[key][k] < allowed[key][k])
    <3>1. k \in Metrics /\ <<key, k>> \notin Better(current, allowed)
      BY <1>1 DEF Compare, IsReport
    <3>2. k \in DOMAIN Get(current, key) /\ ~ (current[key][k] < allowed[key][k])
      BY <3>1, <2>2 DEF Better
    <3>3. key \in DOMAIN current
      BY <3>2 DEF Get
    <3> QED
      BY <3>2, <3>3 DEF Get
  <2>3. DOMAIN current = DOMAIN allowed
    <3>1. \A key \in DOMAIN current : \E k : k \in DOMAIN current[key]
      BY DEF IsReport
    <3>2. \A key \in DOMAIN allowed : \E k : k \in DOMAIN allowed[key]
      BY DEF IsReport
    <3> QED
      BY <2>1, <2>2, <3>1, <3>2
  <2>4. ASSUME NEW key \in DOMAIN current
        PROVE  current[key] = allowed[key]
    <3>1. DOMAIN current[key] = DOMAIN allowed[key]
      BY <2>1, <2>2, <2>3
    <3>2. \A k \in DOMAIN current[key] : current[key][k] = allowed[key][k]
      BY <2>1, <2>2, <2>3 DEF IsReport
    <3>3. /\ current[key] = [k \in DOMAIN current[key] |-> current[key][k]]
          /\ allowed[key] = [k \in DOMAIN allowed[key] |-> allowed[key][k]]
      BY <2>3 DEF WellFormed
    <3> QED
      BY <3>1, <3>2, <3>3
  <2> QED
    BY <2>3, <2>4 DEF WellFormed
<1>2. ASSUME current = allowed
      PROVE  Compare(current, allowed) = {}
  <2>1. \A key \in DOMAIN current : \A k \in DOMAIN current[key] : current[key][k] \in Nat
    BY DEF IsReport
  <2>2. Worse(current, current) = {}
    BY <2>1 DEF Worse, Get
  <2>3. Better(current, current) = {}
    BY <2>1 DEF Better, Get
  <2> QED
    BY <1>2, <2>2, <2>3 DEF Compare
<1> QED
  BY <1>1, <1>2
-----------------------------------------------------------------------------
\* The baseline is what was measured on some tree.
RInv ==
  /\ code \in Code
  /\ \E c \in Code : baseline = Measure(c)
  /\ verdict \in {"none", "passed", "failed"}
  /\ PassMeansRecorded

LEMMA EditedCode ==
  ASSUME code \in Code, Edit
  PROVE  code' \in Code
<1> DEFINE n == Len(code)
<1>1. /\ n \in 0 .. MaxFunctions
      /\ DOMAIN code = 1 .. n
      /\ \A j \in 1 .. n : code[j] \in Function
  BY CodeShape
<1>2. PICK i \in 1 .. n + 1 :
        \/ \E f \in Function :
             /\ i <= MaxFunctions
             /\ code' = [j \in 1 .. n \cup {i} |-> IF j = i THEN f ELSE code[j]]
        \/ /\ i <= n
           /\ code' = [j \in 1 .. n - 1 |-> IF j < i THEN code[j] ELSE code[j + 1]]
  BY DEF Edit
<1> HIDE DEF n
<1>3. CASE \E f \in Function :
             /\ i <= MaxFunctions
             /\ code' = [j \in 1 .. n \cup {i} |-> IF j = i THEN f ELSE code[j]]
  <2>1. PICK f \in Function :
          i <= MaxFunctions /\ code' = [j \in 1 .. n \cup {i} |-> IF j = i THEN f ELSE code[j]]
    BY <1>3
  <2>2. PICK m \in 0 .. MaxFunctions : 1 .. n \cup {i} = 1 .. m
    <3>1. CASE i = n + 1
      <4>1. 1 .. n \cup {i} = 1 .. n + 1 /\ n + 1 \in 0 .. MaxFunctions
        BY <1>1, <2>1, <3>1, BoundsAssumption
      <4> QED
        BY <4>1
    <3>2. CASE i # n + 1
      <4>1. 1 .. n \cup {i} = 1 .. n
        BY <1>1, <3>2
      <4> QED
        BY <1>1, <4>1
    <3> QED
      BY <3>1, <3>2
  <2>3. code' \in [1 .. m -> Function]
    BY <1>1, <2>1, <2>2
  <2> QED
    BY <2>3 DEF Code
<1>4. CASE /\ i <= n
           /\ code' = [j \in 1 .. n - 1 |-> IF j < i THEN code[j] ELSE code[j + 1]]
  <2>1. n - 1 \in 0 .. MaxFunctions
    BY <1>1, <1>4, BoundsAssumption
  <2>2. code' \in [1 .. n - 1 -> Function]
    BY <1>1, <1>4
  <2> QED
    BY <2>1, <2>2 DEF Code
<1> QED
  BY <1>2, <1>3, <1>4

\* The check passes on a tree if and only if the baseline is what is measured on it.
THEOREM RatchetInvariance == Spec => []RInv
<1>1. Init => RInv
  BY DEF Init, RInv, PassMeansRecorded
<1>2. RInv /\ [Next]_vars => RInv'
  <2> SUFFICES ASSUME RInv, [Next]_vars
               PROVE  RInv'
    OBVIOUS
  <2>1. CASE Edit
    BY <2>1, EditedCode DEF RInv, Edit, PassMeansRecorded
  <2>2. CASE Check
    <3>1. PICK c \in Code : baseline = Measure(c)
      BY DEF RInv
    <3>2. Compare(Measure(code), baseline) = {} <=> Measure(code) = baseline
      <4>1. /\ WellFormed(Measure(code)) /\ IsReport(Measure(code))
            /\ WellFormed(baseline) /\ IsReport(baseline)
        BY <3>1, MeasureIsReport DEF RInv
      <4> QED
        BY <4>1, CompareIsEquality
    <3>3. /\ code' = code /\ baseline' = baseline
          /\ verdict' = IF Compare(Measure(code), baseline) = {} THEN "passed" ELSE "failed"
      BY <2>2 DEF Check
    <3>4. Measure(code)' = Measure(code)
      <4>1. code' = code
        BY <3>3
      <4> QED
        BY <4>1 DEF Measure, Offenders, Measured, Over, Key
    <3>5. PassMeansRecorded'
      BY <3>2, <3>3, <3>4 DEF PassMeansRecorded
    <3> QED
      BY <3>1, <3>3, <3>5 DEF RInv
  <2>3. CASE Update
    BY <2>3 DEF RInv, Update, PassMeansRecorded
  <2>4. CASE UNCHANGED vars
    <3>1. Measure(code)' = Measure(code)
      BY <2>4 DEF vars, Measure, Offenders, Measured, Over, Key
    <3> QED
      BY <2>4, <3>1 DEF RInv, vars, PassMeansRecorded
  <2> QED
    BY <2>1, <2>2, <2>3, <2>4 DEF Next
<1> QED
  BY <1>1, <1>2, PTL DEF Spec

\* The ratchet has no slack, for any names, metrics, ceilings and number of functions.
THEOREM PassIsEquality == Spec => []PassMeansRecorded
<1>1. RInv => PassMeansRecorded
  BY DEF RInv
<1> QED
  BY <1>1, RatchetInvariance, PTL

THEOREM RatchetTypes == Spec => []TypeOK
<1>1. RInv => TypeOK
  BY MeasureIsReport DEF RInv, TypeOK
<1> QED
  BY <1>1, RatchetInvariance, PTL

\* A baseline that passes lists as many offenders as the tree has.
THEOREM EveryOffenderListed == Spec => []NoOffenderHidden
<1>1. RInv => NoOffenderHidden
  <2> SUFFICES ASSUME RInv, verdict = "passed"
               PROVE  Cardinality(DOMAIN baseline) = Cardinality(Offenders(code))
    BY DEF NoOffenderHidden
  <2> DEFINE O == Offenders(code)
             K == [i \in O |-> Key(code, i)]
  <2>1. baseline = Measure(code) /\ code \in Code
    BY DEF RInv, PassMeansRecorded
  <2>2. DOMAIN baseline = {Key(code, i) : i \in O}
    BY <2>1 DEF Measure
  <2>3. K \in Bijection(O, DOMAIN baseline)
    <3>1. K \in [O -> DOMAIN baseline]
      BY <2>2
    <3>2. \A i, j \in O : K[i] = K[j] => i = j
      BY <2>1, KeysDiffer
    <3>3. \A key \in DOMAIN baseline : \E i \in O : K[i] = key
      BY <2>2
    <3> QED
      BY <3>1, <3>2, <3>3, Fun_IsBij
  <2>4. IsFiniteSet(O)
    <3>1. O \in SUBSET (1 .. Len(code)) /\ Len(code) \in Nat
      BY <2>1, CodeShape, BoundsAssumption DEF Offenders, Measured
    <3>2. IsFiniteSet(1 .. Len(code))
      BY <3>1, FS_Interval
    <3> QED
      BY <3>1, <3>2, FS_Subset
  <2>5. ExistsBijection(O, DOMAIN baseline)
    BY <2>3 DEF ExistsBijection
  <2> QED
    BY <2>4, <2>5, FS_Bijection
<1> QED
  BY <1>1, RatchetInvariance, PTL
=============================================================================
