----------------------------- MODULE Delegates ------------------------------
(***************************************************************************)
(* The tools of camt053_mcp/server.py that hand one operation of the       *)
(* camt053 library or of an MT loader through, and the two resources that  *)
(* do the same.  The library returns or raises a ValueError or a           *)
(* Camt053Error, and the tool or resource answers the exception in the     *)
(* shape of its own return type.                                           *)
(***************************************************************************)

\* -> list[dict]: a list of one error row.
RowTools == {"list_message_types", "list_return_reasons"}

\* -> list[str]: a list of one "error: ..." text.
TextTools == {"get_required_fields"}

\* -> dict: an error dict.
RecordTools == {"get_input_schema", "validate_records", "validate_identifier"}
StatementTools == {"parse_statement", "convert_mt940_to_camt053", "convert_mt942"}
CheckTools == {"validate_statement", "check_cbpr_readiness"}

\* -> str: an error dict, serialised.
DocumentTools == {"generate_reversal"}

\* The resources -> str: the same for a catalog.
CatalogResources == {"return_reason_catalog", "message_type_catalog"}

\* What cannot fail: constants.
ConstantTools == {"get_cbpr_cutover_date"}
ListTools == {"list_export_journal_targets", "list_classify_entry_categories"}

Fallible == RowTools \cup TextTools \cup RecordTools \cup StatementTools \cup CheckTools
            \cup DocumentTools

Delegated == Fallible \cup ConstantTools \cup ListTools

\* `refused`: the operation raised.
Delegate(tool, refused) ==
  [kind |-> CASE tool \in RowTools -> IF refused THEN "errorRow" ELSE "rows"
              [] tool \in TextTools \cup ListTools -> IF refused THEN "errorText" ELSE "texts"
              [] tool \in DocumentTools \cup CatalogResources -> IF refused THEN "errorJson" ELSE "document"
              [] tool \in RecordTools \cup StatementTools \cup CheckTools
                          \cup ConstantTools -> IF refused THEN "error" ELSE "record"]
=============================================================================
