------------------------------ MODULE Classify ------------------------------
(***************************************************************************)
(* camt053_mcp/classify.py after the await: what classify_entry makes of   *)
(* the client's answer.  Confidences are what Python's JSON parser may     *)
(* return, one for each way the code treats them.                          *)
(***************************************************************************)

CONSTANTS Categories,     \* the candidate categories
          Foreign         \* a category that is none of them, or not a text

\* Numbers, the non-finite ones and True among them, an integer too large for a float,
\* and values that are no number.
Confidences == {"-0.5", "0", "0.4", "1", "2.5", "true", "NaN", "Infinity", "-Infinity",
                "hugeInt", "missing", "text"}
NotNumbers  == {"missing", "text"}

Objects == [kind : {"object"}, category : Categories \cup {Foreign}, confidence : Confidences]

\* The other answers: a refused or failed request, no text, text that is not JSON, JSON
\* that is not an object, and JSON with a number of more digits than Python converts.
Answers == Objects \cup
  [kind : {"failure", "empty", "notJson", "notObject", "hugeDigits"}]

\* max(0.0, min(1.0, float(confidence))): min keeps 1.0 against NaN, and True is 1.
Clamp(confidence) ==
  CASE confidence \in {"-0.5", "0", "-Infinity"} -> "0"
    [] confidence = "0.4" -> "0.4"
    [] confidence \in {"1", "2.5", "true", "NaN", "Infinity"} -> "1"

Error  == [kind |-> "error"]
Raised == [kind |-> "raised"]   \* an exception leaves classify_entry

\* _normalise; float() raises OverflowError for an integer no float holds.
Normalise(answer) ==
  IF answer.category \notin Categories \/ answer.confidence \in NotNumbers THEN Error
  ELSE IF answer.confidence = "hugeInt" THEN Raised
  ELSE [kind |-> "classified", category |-> answer.category,
        confidence |-> Clamp(answer.confidence)]

\* What follows the await; json.loads raises a plain ValueError, not a
\* JSONDecodeError, for too many digits.
Classified(answer) ==
  CASE answer.kind = "object" -> Normalise(answer)
    [] answer.kind = "hugeDigits" -> Raised
    [] answer.kind \notin {"object", "hugeDigits"} -> Error
=============================================================================
