------------------------------- MODULE Outcome ------------------------------
(***************************************************************************)
(* classify_outcome of camt053_mcp/observability.py, over the values a     *)
(* tool dispatcher returns: tuples, dicts, lists and texts, nested.        *)
(***************************************************************************)
EXTENDS Naturals, Sequences

Tuple(items) == [is |-> "tuple", items |-> items]
List(items)  == [is |-> "list", items |-> items]
Dict(fields) == [is |-> "dict", fields |-> fields]
\* A text: one that starts with "error:", one that is a JSON object, or another one.
Text(form)   == [is |-> "text", form |-> form]
Json(value)  == [is |-> "json", value |-> value]
Opaque       == [is |-> "opaque"]

Fields(names) == [n \in names |-> Opaque]

\* What is looked into: the elements of a tuple or list, the value of a dict whose only
\* field is "result", and what a JSON text says.
Inside(v) ==
  CASE v.is \in {"tuple", "list"} -> {v.items[i] : i \in DOMAIN v.items}
    [] v.is = "dict" -> IF DOMAIN v.fields = {"result"} THEN {v.fields["result"]} ELSE {}
    [] v.is = "json" -> {v.value}
    [] v.is \in {"text", "opaque"} -> {}

Within(values) == UNION {Inside(v) : v \in values}

\* An error envelope: the dict, or the row of text.
SaysError(v) == \/ v.is = "dict" /\ "error" \in DOMAIN v.fields
                \/ v.is = "text" /\ v.form = "error:"

\* Mutant: only the top level of a converted result is looked at.
ClassifyShallow(v) ==
  IF \E w \in {v} \cup Within({v}) : SaysError(w) THEN "error" ELSE "success"

\* The code recurses; the values of this server are nested three deep at most: the tuple
\* of the SDK, its dict of a "result", and a list of rows or a JSON text in it.
ClassifyOutcome(v) ==
  LET one   == Within({v})
      two   == Within(one)
      three == Within(two)
  IN  IF \E w \in {v} \cup one \cup two \cup three : SaysError(w) THEN "error" ELSE "success"

\* What the SDK makes of a result before the dispatcher returns it (external): content
\* blocks and a structured result, which is the dict of a tool that always returns one,
\* else the value under "result"; or, by its version and the tool's return type, nothing
\* classify_outcome can look into (the blocks alone, or one result object).
Converted(v, wrapped, structured) ==
  IF structured
  THEN Tuple(<<List(<<Opaque>>), IF wrapped THEN Dict([n \in {"result"} |-> v]) ELSE v>>)
  ELSE List(<<Opaque>>)
=============================================================================
