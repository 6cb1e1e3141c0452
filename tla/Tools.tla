-------------------------------- MODULE Tools -------------------------------
(***************************************************************************)
(* The tools of camt053_mcp/server.py behind the instrumented dispatcher   *)
(* (get_tenant_context is in HttpServer), the resources, and the adapters  *)
(* of camt053_mcp/adapters.py that hand the tools to agent frameworks.     *)
(* They keep no state but the hash seed of the process and the memoised    *)
(* corpus of the rulebook; the client passes the statement with every      *)
(* call, and calls overlap (classify_entry waits for the client's model).  *)
(***************************************************************************)
EXTENDS Pagination, Anomalies, ExportJournal, Classify, Outcome, Delegates, Rulebook,
        SequencesExt

CONSTANTS Calls,        \* the tool calls
          Requests,     \* what they may ask for
          Adapted,      \* what an agent framework asks for through an adapter
          Malformed,    \* an XML text services.list_entries refuses
          Ranks         \* the orders a hash seed may give the texts of a set

\* What the parameters of the tools may be.
AnyRequest ==
  [tool : {"list_entries", "filter_entries"}, xml : {Malformed} \cup Seq(Entry),
   offset : Int, limit : {NoLimit} \cup Int] \cup
  [tool : {"detect_statement_anomalies"}, xml : {Malformed} \cup Seq(Entry)] \cup
  [tool : {"export_journal"}, xml : {Malformed} \cup Seq(Entry), target : STRING] \cup
  [tool : {"cite_rulebook"}, key : [scheme : STRING, version : STRING, clause : STRING]] \cup
  [tool : {"list_rulebook_clauses"}, scheme : {NoFilter} \cup STRING,
   version : {NoFilter} \cup STRING] \cup
  [tool : {"search_rulebook_vector"}, blank : BOOLEAN, tokenless : BOOLEAN, topK : Int] \cup
  [tool : {"bank_session_context"}, wellFormed : BOOLEAN, euOrUk : BOOLEAN] \cup
  [tool : {"classify_entry"}, capable : BOOLEAN] \cup
  [tool : Delegated \cup CatalogResources, refused : BOOLEAN]

ASSUME RequestAssumption == Requests \subseteq AnyRequest /\ Adapted \subseteq AnyRequest

\* The texts of a set are yielded one after the other.
ASSUME RankAssumption ==
  \A rank \in Ranks : /\ rank \in [Texts -> Nat]
                       /\ \A s, t \in Texts : rank[s] = rank[t] => s = t

VARIABLES rank,       \* the order the seed of the running process gives
          structured, \* the SDK's converted results carry the tool's value
          corpus,     \* vector_search._CORPUS_CACHE, {} for None
          pc,         \* pc[c]: "start", "sampling", "done", "direct" or "lost"
          request,    \* request[c]: what call c asked for
          result,     \* result[c]: what the tool returned
          outcome     \* outcome[c]: the label the dispatcher recorded

vars == <<rank, structured, corpus, pc, request, result, outcome>>

Nothing == [kind |-> "nothing"]

Init ==
  /\ rank \in Ranks
  /\ structured \in BOOLEAN
  /\ corpus = {}
  /\ pc = [c \in Calls |-> "start"]
  /\ request = [c \in Calls |-> Nothing]
  /\ result = [c \in Calls |-> Nothing]
  /\ outcome = [c \in Calls |-> "none"]
-----------------------------------------------------------------------------
(***************************************************************************)
(* The tools.  services.list_entries and services.filter_entries are the   *)
(* camt053 library's: they return the entries of the statement, those with *)
(* the reason code, or raise, which the tool turns into an error.          *)
(***************************************************************************)
FilterEntries(xml) == EntriesAt(xml, {i \in DOMAIN xml : xml[i].hasReason})

ListEntries(q) ==
  IF q.xml = Malformed THEN [kind |-> "errorRow"]
  ELSE Paginate(q.xml, q.offset, q.limit)

FilteredEntries(q) ==
  IF q.xml = Malformed THEN [kind |-> "errorRow"]
  ELSE Paginate(FilterEntries(q.xml), q.offset, q.limit)

DetectStatementAnomalies(q, seed) ==
  IF q.xml = Malformed THEN Error
  ELSE IF Incomparable(q.xml) THEN Raised
  ELSE [kind |-> "report", anomalies |-> DetectAnomalies(q.xml, seed),
        checkedEntries |-> Len(q.xml)]

\* export: the target is checked first, then the statement is parsed.
ExportJournal(q) ==
  IF q.target \notin SupportedTargets \/ q.xml = Malformed THEN Error
  ELSE Export(q.xml, q.target)

CiteRulebook(q) ==
  IF Citable(q.key) THEN [kind |-> "citation", key |-> q.key] ELSE Error

\* _bank_session_payload: a malformed BIC has no country.
BankSession(q) ==
  [kind |-> "session", clauses |-> Recommended(q.wellFormed /\ q.euOrUk)]

\* What a tool returns in a process whose hash seed gives that rank.
Run(q, seed) ==
  CASE q.tool = "list_entries" -> ListEntries(q)
    [] q.tool = "filter_entries" -> FilteredEntries(q)
    [] q.tool = "detect_statement_anomalies" -> DetectStatementAnomalies(q, seed)
    [] q.tool = "export_journal" -> ExportJournal(q)
    [] q.tool = "cite_rulebook" -> CiteRulebook(q)
    [] q.tool = "list_rulebook_clauses" ->
         [kind |-> "clauses", clauses |-> Listed(q.scheme, q.version)]
    [] q.tool = "bank_session_context" -> BankSession(q)
    [] q.tool \in Delegated \cup CatalogResources -> Delegate(q.tool, q.refused)

\* The Python value of a result, by which the dispatcher tells its outcome.
Value(r) ==
  CASE r.kind = "error" -> Dict(Fields({"error"}))
    [] r.kind = "errorRow" -> List(<<Dict(Fields({"error"}))>>)
    [] r.kind = "errorText" -> List(<<Text("error:")>>)
    [] r.kind = "errorJson" -> Json(Dict(Fields({"error"})))
    [] r.kind = "rows" -> List(<<Dict(Fields({"name"}))>>)
    [] r.kind = "texts" -> List(<<Text("name")>>)
    [] r.kind = "document" -> Text("xml")
    [] r.kind = "record" -> Dict(Fields({"valid", "errors"}))
    [] r.kind = "list" -> List([i \in DOMAIN r.entries |-> Dict(Fields({"amount"}))])
    [] r.kind = "page" -> Dict(Fields({"total", "offset", "limit", "entries"}))
    [] r.kind = "report" -> Dict(Fields({"anomalies", "checked_entries"}))
    [] r.kind = "export" -> Dict(Fields({"target", "entries", "placeholder_count"}))
    [] r.kind = "clauses" -> List(<<Dict(Fields({"scheme", "version", "clause"}))>>)
    [] r.kind = "citation" -> Dict(Fields({"scheme", "version", "clause", "disclaimer"}))
    [] r.kind = "found" -> Dict(Fields({"query", "returned", "results"}))
    [] r.kind = "classified" -> Dict(Fields({"category", "confidence", "explanation"}))

Resources == CatalogResources \cup {"bank_session_context"}

\* The tools that do not always return a dict.
Wrapped(tool) == tool \in {"list_entries", "filter_entries", "list_rulebook_clauses"}
                          \cup RowTools \cup TextTools \cup DocumentTools \cup ListTools

\* Mutant: the dispatcher records an outcome only when the tool returns.
EndUnlessRaised(c, tool, r) ==
  /\ result' = [result EXCEPT ![c] = r]
  /\ outcome' = [outcome EXCEPT ![c] =
       IF r.kind = "raised" THEN "none"
       ELSE ClassifyOutcome(Converted(Value(r), Wrapped(tool), structured))]
  /\ pc' = [pc EXCEPT ![c] = "done"]

\* The call ends in the dispatcher, with a result or an exception.
End(c, tool, r) ==
  /\ result' = [result EXCEPT ![c] = r]
  /\ outcome' = [outcome EXCEPT ![c] =
       IF r.kind = "raised" THEN "exception"
       ELSE ClassifyOutcome(Converted(Value(r), Wrapped(tool), structured))]
  /\ pc' = [pc EXCEPT ![c] = "done"]

\* A tool without an await runs from its call to its end.
CallTool(c, q) ==
  /\ pc[c] = "start"
  /\ q.tool \notin Resources \cup {"search_rulebook_vector", "classify_entry"}
  /\ request' = [request EXCEPT ![c] = q]
  /\ End(c, q.tool, Run(q, rank))
  /\ UNCHANGED <<rank, structured, corpus>>

\* What search may return when the corpus is built.
Searched(q, machine) ==
  IF BadSearch(q) \/ machine \in Unavailable THEN {Error}
  ELSE IF machine = "unloadable" THEN {Raised}
  ELSE {[kind |-> "found", clauses |-> f] : f \in Rankings(q, corpus')} \cup
       IF q.tokenless THEN {Raised} ELSE {}

\* _corpus: built on first use.
Corpus == IF corpus = {} THEN Listed(NoFilter, NoFilter) ELSE corpus

\* search has the corpus built before it knows whether it can index it.
SearchRulebook(c, q, machine) ==
  /\ pc[c] = "start"
  /\ q.tool = "search_rulebook_vector"
  /\ request' = [request EXCEPT ![c] = q]
  /\ corpus' = IF BadSearch(q) THEN corpus ELSE Corpus
  /\ \E r \in Searched(q, machine) : End(c, q.tool, r)
  /\ UNCHANGED <<rank, structured>>

\* A resource is read past the dispatcher of the tools: no outcome is recorded.
ReadResource(c, q) ==
  /\ pc[c] = "start"
  /\ q.tool \in Resources
  /\ request' = [request EXCEPT ![c] = q]
  /\ result' = [result EXCEPT ![c] = Run(q, rank)]
  /\ pc' = [pc EXCEPT ![c] = "direct"]
  /\ UNCHANGED <<rank, structured, corpus, outcome>>

\* An adapter calls the function of the tool itself, with the arguments of its input
\* schema, which have no ctx: classify_entry raises.  No outcome is recorded either.
AdapterCall(c, q) ==
  /\ pc[c] = "start"
  /\ q.tool \notin Resources \cup {"search_rulebook_vector"}
  /\ request' = [request EXCEPT ![c] = q]
  /\ result' = [result EXCEPT ![c] = IF q.tool = "classify_entry" THEN Raised ELSE Run(q, rank)]
  /\ pc' = [pc EXCEPT ![c] = "direct"]
  /\ UNCHANGED <<rank, structured, corpus, outcome>>

\* classify_entry for a session whose client never declared sampling: an error at once.
RefuseSampling(c, q) ==
  /\ pc[c] = "start"
  /\ q.tool = "classify_entry"
  /\ ~ q.capable
  /\ request' = [request EXCEPT ![c] = q]
  /\ End(c, q.tool, Error)
  /\ UNCHANGED <<rank, structured, corpus>>

\* await ctx.session.create_message(...)
RequestSampling(c, q) ==
  /\ pc[c] = "start"
  /\ q.tool = "classify_entry"
  /\ q.capable
  /\ request' = [request EXCEPT ![c] = q]
  /\ pc' = [pc EXCEPT ![c] = "sampling"]
  /\ UNCHANGED <<rank, structured, corpus, result, outcome>>

\* The client answers, or the request fails.
AnswerSampling(c, answer) ==
  /\ pc[c] = "sampling"
  /\ End(c, "classify_entry", Classified(answer))
  /\ UNCHANGED <<rank, structured, corpus, request>>

\* The server process ends and a new one starts, with a seed of its own; calls
\* under way are lost.
Restart ==
  /\ rank' \in Ranks \ {rank}
  /\ corpus' = {}
  /\ pc' = [c \in Calls |-> IF pc[c] = "sampling" THEN "lost" ELSE pc[c]]
  /\ UNCHANGED <<structured, request, result, outcome>>

Next ==
  \/ \E c \in Calls, q \in Requests :
       CallTool(c, q) \/ RefuseSampling(c, q) \/ RequestSampling(c, q) \/ ReadResource(c, q)
  \/ \E c \in Calls, q \in Requests, machine \in Machines : SearchRulebook(c, q, machine)
  \/ \E c \in Calls, q \in Adapted : AdapterCall(c, q)
  \/ \E c \in Calls, answer \in Answers : AnswerSampling(c, answer)
  \/ Restart

Spec == Init /\ [][Next]_vars
-----------------------------------------------------------------------------
Done(c, tool) == pc[c] \in {"done", "direct"} /\ request[c].tool = tool

\* c and d are finished calls of a tool about the same statement.
SameStatement(c, d, tool) ==
  Done(c, tool) /\ Done(d, tool) /\ request[c].xml = request[d].xml

\* The anomalies of one type a finished detect_statement_anomalies reported.
Reported(c, type) == {a \in ToSet(result[c].anomalies) : a.type = type}
Screened(c) == Done(c, "detect_statement_anomalies") /\ result[c].kind = "report"
Extends(d, c) == IsPrefix(request[c].xml, request[d].xml)

Failures == {"error", "errorRow", "errorText", "errorJson"}
Kinds == Failures \cup {"nothing", "list", "page", "report", "export", "classified", "rows",
                       "texts", "document", "record", "raised", "clauses", "citation",
                       "found", "session"}

TypeOK ==
  /\ rank \in Ranks
  /\ structured \in BOOLEAN
  /\ corpus \subseteq Registry
  /\ pc \in [Calls -> {"start", "sampling", "done", "direct", "lost"}]
  /\ \A c \in Calls : request[c] \in Requests \cup Adapted \cup {Nothing}
  /\ \A c \in Calls : result[c].kind \in Kinds
  /\ outcome \in [Calls -> {"none", "success", "error", "exception"}]
  /\ \A c \in Calls : pc[c] = "done" <=> outcome[c] # "none"

\* A client that pages with a fixed limit sees every entry of its list (all entries, or
\* those with the reason code) once, in order: two consecutive pages join without a gap
\* or an overlap, and both report the size of that list.
PagesJoin ==
  \A c, d \in Calls : \A tool \in {"list_entries", "filter_entries"} :
    /\ SameStatement(c, d, tool)
    /\ result[c].kind = "page" /\ result[d].kind = "page"
    /\ result[c].limit = result[d].limit
    /\ result[d].offset = result[c].offset + result[c].limit
    => LET list == IF tool = "list_entries" THEN request[c].xml
                   ELSE FilterEntries(request[c].xml)
           both == result[c].entries \o result[d].entries
           from == result[c].offset
       IN  /\ Len(both) = Cardinality({i \in DOMAIN list : i > from /\ i <= from + 2 * result[c].limit})
           /\ \A i \in DOMAIN both : both[i] = list[from + i]
           /\ result[c].total = Len(list) /\ result[d].total = Len(list)

\* Velocity spikes are exceptional by construction of the median: fewer than half of
\* the booking dates of a statement are ever reported, and none of two dates.
SpikesAreMinority ==
  \A c \in Calls : Screened(c) =>
    2 * Cardinality(Reported(c, "velocity_spike")) < Cardinality(Dates(request[c].xml)) \/
    Reported(c, "velocity_spike") = {}

\* Two screenings of one statement report the same anomalies, up to their order, also
\* across a restart of the server.
SameFindings ==
  \A c, d \in Calls : Screened(c) /\ Screened(d) /\ request[c].xml = request[d].xml =>
    ToSet(result[c].anomalies) = ToSet(result[d].anomalies)

\* A double payment stays reported when the statement grows, and the entries reported
\* for it stay the first ones of the group.
DuplicatesPersist ==
  \A c, d \in Calls : Screened(c) /\ Screened(d) /\ Extends(d, c) =>
    \A a \in Reported(c, "duplicate_reference") :
      \E b \in Reported(d, "duplicate_reference") :
        b.about = a.about /\ IsPrefix(a.refs, b.refs)

\* A fee that passed on a statement with an ordinary transaction is not reported when
\* entries are added: the yardstick, the largest amount, only grows.  A finding tells an
\* entry by its label, so this is of the entries that share theirs with no other.
FeeVerdictsOnlyFall ==
  \A c, d \in Calls :
    Screened(c) /\ Screened(d) /\ Extends(d, c) /\ Principals(request[c].xml) # {} =>
      \A i \in DOMAIN request[c].xml :
        LET Label(j) == EntryLabel(request[d].xml, j)
            Flagged(x) == \E a \in Reported(x, "unusual_fee") : a.refs = <<Label(i)>>
        IN  /\ \A j \in DOMAIN request[d].xml : Label(j) = Label(i) => j = i
            /\ Flagged(d)
            => Flagged(c)

\* The two exports of a statement book the same money on the same side of the bank
\* account, each journal entry balances, and their placeholder counts differ by what
\* only Xero asks for: the currencies and contacts the statement lacks.
ExportsAgree ==
  \A c, d \in Calls :
    /\ SameStatement(c, d, "export_journal")
    /\ request[c].target = "xero" /\ result[c].kind = "export"
    /\ request[d].target = "qbo"  /\ result[d].kind = "export"
    => LET x == result[c].entries
           q == result[d].entries
           Missing(n) == Cardinality({i \in DOMAIN x : x[i][n] = OperatorFill})
       IN  /\ DOMAIN x = DOMAIN q
           /\ \A i \in DOMAIN x :
                /\ {q[i].bankPosting, q[i].offsetPosting} = {"Debit", "Credit"}
                /\ q[i].bankAmount = q[i].offsetAmount
                /\ q[i].bankAmount = x[i].unitAmount
                /\ (x[i].type = "RECEIVE") <=> (q[i].bankPosting = "Debit")
           /\ result[c].placeholders - result[d].placeholders =
                Missing("currency") + Missing("contact")

\* The clauses a call tells of.
Told(c) == IF result[c].kind \in {"clauses", "found", "session"} THEN result[c].clauses ELSE {}

\* The filters of listing c let the key through.
Fits(c, key) == /\ request[c].scheme \in {NoFilter, key.scheme}
                /\ request[c].version \in {NoFilter, key.version}

\* The rulebook is one: a clause that a listing, a search or a bank session tells of can
\* be cited, and of the clauses that can be cited a listing tells of those its filters
\* let through, and a search of all when it found fewer than it asked for.
RulebookAgrees ==
  \A c, d \in Calls : Done(d, "cite_rulebook") =>
    LET key   == request[d].key
        cited == result[d].kind = "citation"
    IN  /\ key \in Told(c) => cited
        /\ Done(c, "list_rulebook_clauses") =>
             (key \in Told(c) <=> cited /\ Fits(c, key))
        /\ result[c].kind = "found" /\ Cardinality(Told(c)) < request[c].topK =>
             (cited => key \in Told(c))

\* The outcome the dispatcher records is what the tool did, in every shape a tool gives
\* its errors, as long as the converted result carries the tool's value; no failure is
\* ever made up.
OutcomesTellResults ==
  \A c \in Calls : pc[c] = "done" =>
    /\ outcome[c] = "exception" <=> result[c].kind = "raised"
    /\ outcome[c] = "error" => result[c].kind \in Failures
    /\ structured /\ result[c].kind \in Failures => outcome[c] = "error"

\* server.py, detect_statement_anomalies: "the same statement always yields the same
\* result".
SameStatementSameResult ==
  \A c, d \in Calls : Screened(c) /\ Screened(d) /\ request[c].xml = request[d].xml =>
    result[c] = result[d]
=============================================================================
