----------------------------- MODULE Complexity -----------------------------
(***************************************************************************)
(* The complexity ratchet, scripts/check_complexity.py: every function is  *)
(* measured, what is over a ceiling is reported under a key, and the       *)
(* report is compared with the committed baseline.  The functions of a     *)
(* file are listed in source order.  radon and complexipy are external: a  *)
(* function has its metrics.  A file over FILE_LINES is one more entry     *)
(* with one metric, and is not told apart here.                            *)
(***************************************************************************)
EXTENDS Integers, Sequences, FiniteSets

CONSTANTS
  Names,         \* qualified names, with their file
  Metrics,       \* cyclomatic, cognitive, halstead, lines
  Ceiling,       \* CEILINGS: a number for every metric
  MaxValue,      \* bound: the largest value of a metric
  MaxFunctions   \* bound: the functions there are

ASSUME CeilingAssumption == Ceiling \in [Metrics -> Nat]
ASSUME BoundsAssumption == MaxValue \in Nat /\ MaxFunctions \in Nat

VARIABLES
  code,      \* the functions of the tree, in source order
  baseline,  \* complexity-baseline.json
  verdict    \* of the last run on this tree and baseline: "none", "passed", "failed"

vars == <<code, baseline, verdict>>

\* A function is nested when a block statement (if, try, with, for) encloses its def.
Function == [name : Names, nested : BOOLEAN, metrics : [Metrics -> 0 .. MaxValue]]

Code == UNION {[1 .. n -> Function] : n \in 0 .. MaxFunctions}
-----------------------------------------------------------------------------
\* Mutant: the ceiling itself is too much.
OverAtCeiling(f) == {k \in Metrics : f.metrics[k] >= Ceiling[k]}

Over(f) == {k \in Metrics : f.metrics[k] > Ceiling[k]}

\* _functions descends into classes and functions, not into blocks.
Measured(c) == {i \in DOMAIN c : ~ c[i].nested}

Offenders(c) == {i \in Measured(c) : Over(c[i]) # {}}

\* Mutant: the report is keyed by the name alone.
KeyByName(c, i) == <<c[i].name, 0>>

\* The name and as many primes as keep it from the keys already reported.
Key(c, i) ==
  <<c[i].name, Cardinality({j \in Offenders(c) : j < i /\ c[j].name = c[i].name})>>

\* measure: what is over its ceiling, by key; of one key the last wins.
Measure(c) ==
  [key \in {Key(c, i) : i \in Offenders(c)} |->
     LET last == CHOOSE i \in Offenders(c) :
                   /\ Key(c, i) = key
                   /\ \A j \in Offenders(c) : Key(c, j) = key => j <= i
     IN  [k \in Over(c[last]) |-> c[last].metrics[k]]]

Get(report, key) == IF key \in DOMAIN report THEN report[key] ELSE << >>

Worse(current, allowed) ==
  {p \in (DOMAIN current) \X Metrics :
     /\ p[2] \in DOMAIN current[p[1]]
     /\ p[2] \in DOMAIN Get(allowed, p[1])
          => current[p[1]][p[2]] > allowed[p[1]][p[2]]}

Better(current, allowed) ==
  {p \in (DOMAIN allowed) \X Metrics :
     /\ p[2] \in DOMAIN allowed[p[1]]
     /\ p[2] \in DOMAIN Get(current, p[1])
          => current[p[1]][p[2]] < allowed[p[1]][p[2]]}

\* Mutant: an improvement is welcome and need not be recorded.
CompareWorse(current, allowed) == Worse(current, allowed)

\* compare: the keys and metrics there is a problem with.
Compare(current, allowed) == Worse(current, allowed) \cup Better(current, allowed)
-----------------------------------------------------------------------------
Init ==
  /\ code \in Code
  /\ baseline = Measure(code)
  /\ verdict = "none"

\* A commit changes, adds or removes one function.
Edit ==
  /\ \E i \in 1 .. Len(code) + 1 :
       \/ \E f \in Function :
            /\ i <= MaxFunctions
            /\ code' = [j \in 1 .. Len(code) \cup {i} |-> IF j = i THEN f ELSE code[j]]
       \/ /\ i <= Len(code)
          /\ code' = [j \in 1 .. Len(code) - 1 |-> IF j < i THEN code[j] ELSE code[j + 1]]
  /\ verdict' = "none"
  /\ UNCHANGED baseline

\* main
Check ==
  /\ verdict' = IF Compare(Measure(code), baseline) = {} THEN "passed" ELSE "failed"
  /\ UNCHANGED <<code, baseline>>

\* main --update
Update ==
  /\ baseline' = Measure(code)
  /\ verdict' = "none"
  /\ UNCHANGED code

Next == Edit \/ Check \/ Update

Spec == Init /\ [][Next]_vars
-----------------------------------------------------------------------------
IsReport(r) ==
  /\ \A key \in DOMAIN r : DOMAIN r[key] \in (SUBSET Metrics) \ {{}}
  /\ \A key \in DOMAIN r : \A k \in DOMAIN r[key] : r[key][k] \in Nat /\ r[key][k] > Ceiling[k]

TypeOK ==
  /\ code \in Code
  /\ IsReport(baseline)
  /\ verdict \in {"none", "passed", "failed"}

\* Functions of one name (a property and its setter, a redefinition) do not hide each
\* other: the baseline of a tree that passes lists as many offenders as the tree has.
NoOffenderHidden ==
  verdict = "passed" => Cardinality(DOMAIN baseline) = Cardinality(Offenders(code))

(***************************************************************************)
(* The check is a ratchet without slack: it passes on a tree if and only   *)
(* if the tree has exactly the excesses the baseline records, so neither   *)
(* a regression nor an improvement gets in without a change of the         *)
(* baseline beside it.                                                     *)
(***************************************************************************)
PassMeansRecorded ==
  /\ verdict = "passed" => baseline = Measure(code)
  /\ verdict = "failed" => baseline # Measure(code)
=============================================================================
