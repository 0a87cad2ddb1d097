------------------------------ MODULE SearchRequest ------------------------------
(***************************************************************************)
(* From the arguments of $vectorSearch to an OpenSearch request, as lib.rs,*)
(* mongodb.rs, mongos.rs and transport.rs of opensearch-extension-core have *)
(* it: the arguments are parsed to expand the stage, again to plan it and  *)
(* again to open it; extension options give the endpoints, and the process *)
(* environment the credentials that requests are signed with.              *)
(*                                                                         *)
(*   variant, document, catalog   the build; the user's arguments; the     *)
(*                 context that the stage was bound with                   *)
(*   options, environment   of the process, when they have been read       *)
(*   pc, call      what the extension is doing, and for which hook         *)
(*   given, visited, clauses   the arguments being parsed; entries of the  *)
(*                 filter behind the parser; clauses counted so far        *)
(*   node, lookup  the arguments of the expanded stage and the limit of    *)
(*                 the host's id lookup                                    *)
(*   merger        the pipeline for the merging node has been given        *)
(*   args, endpoints   of the opened SearchState                           *)
(*   at, timing, request   the endpoint tried; the deadline and the clock  *)
(*                 it is tried at; the request under way                   *)
(*   outcome       of the last call                                        *)
(*                                                                         *)
(* Interrupts, the use of answers and the order of endpoints are those of  *)
(* VectorSearch and left out here.                                         *)
(***************************************************************************)
EXTENDS Integers, Sequences, FiniteSets

CONSTANTS
    Documents,      \* argument documents that users write
    OptionTexts,    \* extension options
    Environments,   \* values of the process environment
    MaxDepth,       \* MAX_FILTER_DEPTH
    MaxClauses,     \* MAX_FILTER_CLAUSES
    MaxTerms,       \* MAX_FILTER_TERMS
    DefaultLimit,   \* DEFAULT_LIMIT
    MaxLimit,       \* MAX_LIMIT
    DefaultTimeout, \* DEFAULT_TIMEOUT_MS
    MaxInt          \* i64::MAX

VARIABLES variant, document, catalog, options, environment, pc, call, given, visited,
          clauses, node, lookup, merger, args, endpoints, at, timing, request, outcome

config  == <<variant, document, catalog>>
process == <<options, environment>>
parser  == <<call, given, visited, clauses>>
plan    == <<node, lookup, merger>>
state   == <<args, endpoints>>
attempt == <<at, timing, request>>
vars == <<config, process, pc, parser, plan, state, attempt, outcome>>

-----------------------------------------------------------------------------
(* Argument documents.  A string has a text, and perhaps blanks around it. *)
(* A double counts in halves.  A filter is the sequence of its entries in  *)
(* document order: clauses, and options of a bool clause (its              *)
(* minimum_should_match, and whatever may not stand in a bool), each at    *)
(* the depth of its nesting.                                               *)
Texts   == {"", "body", "_hidden", "user.name", "body_embedding"}
Strings == [type : {"string", "other"}, text : Texts, padded : BOOLEAN]
Numbers == [type : {"absent", "int", "double", "infinite", "other"}, n : Int]

Bodies  == {"occurs", "scalar", "value of a scalar", "scalars", "bounds", "name", "strings",
            "other"}
Entries == [kind : {"bool", "term", "terms", "range", "exists", "ids", "script", "several",
                    "option"},
            depth : Nat \ {0}, field : Texts, values : Nat, body : Bodies]
Filters == [type : {"absent", "document", "other"}, entries : Seq(Entries)]

ArgumentDocuments ==
    [others : BOOLEAN, path : Strings, query : Strings, limit : Numbers, filter : Filters]

(* Endpoints by the scheme they begin with.                                *)
Schemes == {"https", "HTTPS", "http"}
Listing == Schemes \cup {"ftp", "blank", "not a string"}

ASSUME DataAssumption ==
    /\ Documents \subseteq ArgumentDocuments
    /\ OptionTexts \subseteq [format : {"absent", "not text", "json", "yaml", "other"},
                              listed : Seq(Listing)]
    /\ Environments \subseteq [region : {"absent", "not text", "bad", "good"},
                               key : {"absent", "blank", "set"},
                               secret : {"absent", "blank", "set"}, http : BOOLEAN]

ASSUME LimitAssumption ==
    /\ {MaxDepth, MaxClauses, MaxTerms, DefaultLimit, MaxLimit, DefaultTimeout, MaxInt}
           \subseteq Nat \ {0}
    /\ DefaultLimit <= MaxLimit

(* A filter without entries stands for none.                               *)
ASSUME FilterAssumption ==
    \A d \in Documents : d.filter.type # "document" => d.filter.entries = << >>

-----------------------------------------------------------------------------
(* bson_string and bson_i64: blanks are trimmed, a double is truncated.    *)
TextFits(s) == s.type = "string" /\ s.text # ""

Truncated(halves) == IF halves < 0 THEN -((-halves) \div 2) ELSE halves \div 2

Whole(v) ==
    IF v.type = "absent" THEN DefaultLimit
    ELSE IF v.type = "double" THEN Truncated(v.n) ELSE v.n

LimitFits(v) == v.type \in {"absent", "int", "double"} /\ Whole(v) \in 1..MaxLimit

(* The router's parse: only known arguments, a whole limit, and a path     *)
(* that has an embedding beside it.                                        *)
KeysFit(d) == variant = "mongos" => ~d.others /\ d.limit.type \in {"absent", "int"}

Projected(path) == variant = "mongos" => path \notin {"_hidden", "user.name", "body_embedding"}

ArgumentsFit(d) ==
    /\ TextFits(d.path) /\ TextFits(d.query) /\ LimitFits(d.limit)
    /\ Projected(d.path.text)

QueryArgs(d) ==
    [path |-> d.path.text, query |-> d.query.text, limit |-> Whole(d.limit),
     filter |-> d.filter]

-----------------------------------------------------------------------------
(* validate_filter_clause: one query type, with the body that it wants,    *)
(* for a field that is not the engine's, and not too many values.          *)
Wanted ==
    [bool |-> {"occurs"}, term |-> {"scalar", "value of a scalar"}, terms |-> {"scalars"},
     range |-> {"bounds"}, exists |-> {"name"}, ids |-> {"strings"}]

FieldAllowed(name) == name \notin {"", "_hidden"}

Supported(clause) ==
    /\ clause.kind \in DOMAIN Wanted
    /\ clause.body \in Wanted[clause.kind]
    /\ clause.kind \in {"term", "terms", "range", "exists"} => FieldAllowed(clause.field)
    /\ clause.kind \in {"terms", "ids"} => clause.values <= MaxTerms

(* validate_bool: an option of a bool clause.                              *)
OptionFits(option) == option.body = "scalar"

IsClause(entry) == entry.kind # "option"

(* The bounds, with the clause counted.  Faults seeded for the mutation    *)
(* runs stand before the definition they replace: the last level is too    *)
(* deep.                                                                   *)
FaultTooDeep(clause, n) == clause.depth >= MaxDepth \/ n > MaxClauses
TooMuch(clause, n)      == clause.depth > MaxDepth \/ n > MaxClauses

-----------------------------------------------------------------------------
(* parse_config: a list in JSON, or a line in YAML, where blanks between   *)
(* the commas do not count.                                                *)
NotBlank(listed) ==
    LET kept[n \in 0..Len(listed)] ==
            IF n = 0 THEN << >>
            ELSE IF listed[n] = "blank" THEN kept[n - 1] ELSE Append(kept[n - 1], listed[n])
    IN kept[Len(listed)]

Listed(o) == IF o.format = "yaml" THEN NotBlank(o.listed) ELSE o.listed

ConfigFits(o) ==
    /\ o.format \in {"json", "yaml"}
    /\ Listed(o) # << >>
    /\ \A i \in DOMAIN Listed(o) : Listed(o)[i] \in Schemes

(* AwsAuth: a region asks for signatures, and then credentials must be     *)
(* there, and the endpoint's URL begin with https:// as it is written.     *)
(* What is in the environment but is no Unicode text is not there.         *)
(* Fault: without credentials the request goes out unsigned.               *)
RegionRead(e)  == e.region \notin {"absent", "not text"}
Credentials(e) == e.region = "good" /\ e.key = "set" /\ e.secret = "set"

FaultUnsigned(e) == IF Credentials(e) THEN "signed" ELSE "unsigned"
load(e) ==
    IF ~RegionRead(e) THEN "unsigned" ELSE IF Credentials(e) THEN "signed" ELSE "refused"

Signable(e, endpoint) == endpoint = "https" \/ (e.http /\ endpoint = "http")

Sendable(e, endpoint) ==
    load(e) = "unsigned" \/ (load(e) = "signed" /\ Signable(e, endpoint))

(* request_timeout, in i64.  Fault: the difference wraps around.           *)
MinInt     == -MaxInt - 1
NoDeadline == MaxInt + 1          \* the host has none to tell
Deadlines  == MinInt..NoDeadline

Limited(deadline) == deadline \notin {NoDeadline, MaxInt}

FaultWrapped(x) == ((x - MinInt) % (2 * (MaxInt + 1))) + MinInt
Saturated(x)    == IF x < MinInt THEN MinInt ELSE IF x > MaxInt THEN MaxInt ELSE x

Remaining(deadline, now) == Saturated(deadline - now)

request_timeout(deadline, now) ==
    IF Limited(deadline) /\ Remaining(deadline, now) < DefaultTimeout
    THEN Remaining(deadline, now) ELSE DefaultTimeout

-----------------------------------------------------------------------------
NoDocument  == [type |-> "no document"]
NoState     == [type |-> "not open"]
NoRequest   == [type |-> "no request"]
Unread      == [type |-> "unread"]
NoTiming    == [deadline |-> NoDeadline, now |-> 0]

Init ==
    /\ variant \in {"mongodb", "mongos"} /\ document \in Documents
    /\ catalog \in {"absent", "shard", "router"}
    /\ options = Unread /\ environment = Unread
    /\ pc = "idle" /\ call = "none" /\ given = NoDocument /\ visited = 0 /\ clauses = 0
    /\ node = NoDocument /\ lookup = 0 /\ merger = FALSE
    /\ args = NoState /\ endpoints = << >>
    /\ at = 0 /\ timing = NoTiming /\ request = NoRequest
    /\ outcome = "none"

Return(result) == pc' = "idle" /\ outcome' = result

(* The hooks that parse: expand_inner, merging_pipeline (router only) and  *)
(* open_from_doc, each as often as the host likes until it has succeeded.  *)
Parse(hook, d) ==
    /\ pc = "idle" /\ pc' = "keys"
    /\ call' = hook /\ given' = d /\ visited' = 0 /\ clauses' = 0
    /\ outcome' = "none"
    /\ UNCHANGED <<config, process, plan, state, attempt>>

Expand  == node = NoDocument /\ Parse("expand", document)
Merging == variant = "mongos" /\ node # NoDocument /\ ~merger /\ Parse("merge", node)
Open    == node # NoDocument /\ args = NoState /\ Parse("open", node)

Refuse ==
    /\ Return("refused")
    /\ UNCHANGED <<config, process, parser, plan, state, attempt>>

KeysAccepted ==
    /\ pc = "keys" /\ KeysFit(given) /\ given.filter.type # "other"
    /\ pc' = "filter"
    /\ UNCHANGED <<config, process, parser, plan, state, attempt, outcome>>

KeysRefused ==
    /\ pc = "keys" /\ ~(KeysFit(given) /\ given.filter.type # "other")
    /\ Refuse

-----------------------------------------------------------------------------
(* The filter, entry by entry.                                             *)
Visiting == pc = "filter" /\ visited < Len(given.filter.entries)
Entry    == given.filter.entries[visited + 1]

ClauseAccepted ==
    /\ Visiting /\ IsClause(Entry)
    /\ ~TooMuch(Entry, clauses + 1) /\ Supported(Entry)
    /\ visited' = visited + 1 /\ clauses' = clauses + 1
    /\ UNCHANGED <<config, process, pc, call, given, plan, state, attempt, outcome>>

ClauseRefused ==
    /\ Visiting /\ IsClause(Entry)
    /\ TooMuch(Entry, clauses + 1) \/ ~Supported(Entry)
    /\ Refuse

OptionAccepted ==
    /\ Visiting /\ ~IsClause(Entry) /\ OptionFits(Entry)
    /\ visited' = visited + 1
    /\ UNCHANGED <<config, process, pc, call, given, clauses, plan, state, attempt, outcome>>

OptionRefused ==
    /\ Visiting /\ ~IsClause(Entry) /\ ~OptionFits(Entry)
    /\ Refuse

(* The other arguments come after the filter.                              *)
Visited == pc = "filter" /\ visited = Len(given.filter.entries)
Parsed  == Visited /\ ArgumentsFit(given)

ArgumentsRefused == Visited /\ ~ArgumentsFit(given) /\ Refuse

-----------------------------------------------------------------------------
(* expand: the router keeps the arguments as they were written; the other  *)
(* variant writes down what it parsed, and asks for an id lookup.  Fault:  *)
(* the filter is left out.                                                 *)
Inner(q, filter) ==
    [others |-> FALSE,
     path   |-> [type |-> "string", text |-> q.path, padded |-> FALSE],
     query  |-> [type |-> "string", text |-> q.query, padded |-> FALSE],
     limit  |-> [type |-> "int", n |-> q.limit],
     filter |-> filter]

FaultFilterLost(q)     == Inner(q, [type |-> "absent", entries |-> << >>])
id_lookup_expansion(q) == Inner(q, q.filter)

Expanded ==
    /\ Parsed /\ call = "expand"
    /\ node' = IF variant = "mongos" THEN given ELSE id_lookup_expansion(QueryArgs(given))
    /\ lookup' = IF variant = "mongos" THEN 0 ELSE QueryArgs(given).limit
    /\ Return("expanded")
    /\ UNCHANGED <<config, process, parser, merger, state, attempt>>

(* merging_pipeline: the lookup of documents, on the router only.          *)
Merged ==
    /\ Parsed /\ call = "merge"
    /\ catalog = "router"
    /\ merger' = TRUE
    /\ Return("merged")
    /\ UNCHANGED <<config, process, parser, node, lookup, state, attempt>>

NotMerged ==
    /\ Parsed /\ call = "merge"
    /\ catalog # "router"
    /\ Return("no router")
    /\ UNCHANGED <<config, process, parser, plan, state, attempt>>

(* open: the catalog, then the endpoints.                                  *)
CatalogFits == catalog = "router" \/ (variant = "mongodb" /\ catalog = "shard")

Opened ==
    /\ Parsed /\ call = "open" /\ CatalogFits
    /\ \E o \in OptionTexts, e \in Environments :
         /\ ConfigFits(o)
         /\ options' = o /\ environment' = e
         /\ endpoints' = Listed(o)
    /\ args' = QueryArgs(given)
    /\ Return("opened")
    /\ UNCHANGED <<config, parser, plan, attempt>>

NotOpened ==
    /\ Parsed /\ call = "open"
    /\ ~CatalogFits \/ \E o \in OptionTexts : ~ConfigFits(o)
    /\ Return("not opened")
    /\ UNCHANGED <<config, process, parser, plan, state, attempt>>

-----------------------------------------------------------------------------
(* opensearch_body: candidates near the text, as many as are handed on.    *)
opensearch_body(q) ==
    [size |-> q.limit, k |-> q.limit, embedding_of |-> q.path, query_text |-> q.query,
     filter |-> q.filter]

(* A pull of the opened state asks the endpoints, from the first on.       *)
Search ==
    /\ pc = "idle" /\ args # NoState
    /\ pc' = "attempt" /\ at' = 1 /\ call' = "next" /\ outcome' = "none"
    /\ request' = NoRequest /\ timing' = NoTiming
    /\ UNCHANGED <<config, process, given, visited, clauses, plan, state>>

(* What time it is, and until when: the host's word and the system clock,  *)
(* which is 0 when it stands before the epoch.                             *)
Clocks == [deadline : Deadlines, now : 0..MaxInt]

DeadlinePassed ==
    /\ pc = "attempt"
    /\ timing' \in {t \in Clocks : Limited(t.deadline) /\ Remaining(t.deadline, t.now) <= 0}
    /\ Return("deadline passed")
    /\ UNCHANGED <<config, process, parser, plan, state, at, request>>

InTime == {t \in Clocks : Limited(t.deadline) => Remaining(t.deadline, t.now) > 0}

(* post_search signs what it sends, or sends nothing.                      *)
Send ==
    /\ pc = "attempt" /\ Sendable(environment, endpoints[at])
    /\ timing' \in InTime
    /\ request' = [endpoint |-> endpoints[at], auth |-> load(environment),
                   timeout |-> request_timeout(timing'.deadline, timing'.now),
                   body |-> opensearch_body(args)]
    /\ pc' = "request"
    /\ UNCHANGED <<config, process, parser, plan, state, at, outcome>>

(* The next endpoint, until there is none.                                 *)
Fails ==
    /\ IF at < Len(endpoints)
       THEN at' = at + 1 /\ pc' = "attempt" /\ UNCHANGED outcome
       ELSE Return("all failed") /\ UNCHANGED at
    /\ request' = NoRequest /\ timing' = NoTiming
    /\ UNCHANGED <<config, process, parser, plan, state>>

NotSent       == pc = "attempt" /\ ~Sendable(environment, endpoints[at]) /\ Fails
RequestFails  == pc = "request" /\ Fails

(* The router gives up on an answer that it cannot use; the other variant  *)
(* takes it for a failure of the endpoint.                                 *)
Ends(result) ==
    /\ pc = "request"
    /\ request' = NoRequest /\ timing' = NoTiming
    /\ Return(result)
    /\ UNCHANGED <<config, process, parser, plan, state, at>>

Answered    == Ends("answered")
Undecodable == variant = "mongos" /\ Ends("undecodable")

parse_vector_search_args ==
    \/ KeysAccepted \/ KeysRefused
    \/ ClauseAccepted \/ ClauseRefused \/ OptionAccepted \/ OptionRefused
    \/ ArgumentsRefused

(* The hooks before the first pull; and a pull, until there is an answer.   *)
Hooks ==
    \/ Expand \/ Merging \/ Open
    \/ parse_vector_search_args
    \/ Expanded \/ Merged \/ NotMerged \/ Opened \/ NotOpened

Asking == DeadlinePassed \/ Send \/ NotSent \/ RequestFails

Next == Hooks \/ Search \/ Asking \/ Answered \/ Undecodable

Spec == Init /\ [][Next]_vars

-----------------------------------------------------------------------------
(* The variables range over what the fields can hold; and the parser gives *)
(* up as soon as one clause too many is met, however large the filter is.  *)
Parsing == [type : {"no document"}] \cup ArgumentDocuments

TypeOK ==
    /\ variant \in {"mongodb", "mongos"} /\ document \in Documents
    /\ catalog \in {"absent", "shard", "router"}
    /\ options \in OptionTexts \cup {Unread} /\ environment \in Environments \cup {Unread}
    /\ pc \in {"idle", "keys", "filter", "attempt", "request"}
    /\ call \in {"none", "expand", "merge", "open", "next"}
    /\ given \in Parsing /\ node \in Parsing
    /\ visited \in Nat /\ clauses \in 0..MaxClauses
    /\ lookup \in 0..MaxLimit /\ merger \in BOOLEAN
    /\ endpoints \in Seq(Schemes) /\ at \in 0..Len(endpoints)
    /\ timing \in Clocks

(* What a filter may be, said of all of it at once.                        *)
ClausesUpTo(f, n) == {i \in 1..n : IsClause(f.entries[i])}

EntryFits(entry) ==
    IF IsClause(entry) THEN entry.depth <= MaxDepth /\ Supported(entry) ELSE OptionFits(entry)

FilterFits(f) ==
    /\ f.type # "other"
    /\ Cardinality(ClausesUpTo(f, Len(f.entries))) <= MaxClauses
    /\ \A i \in 1..Len(f.entries) : EntryFits(f.entries[i])

Fits(d) == KeysFit(d) /\ FilterFits(d.filter) /\ ArgumentsFit(d)

(* The parser, which stops at the first thing that is wrong, accepts what  *)
(* is right as a whole and nothing else: no clause passes because others   *)
(* came before it, and no filter within the bounds is refused.  So what    *)
(* was accepted to expand the stage is accepted again by every later hook, *)
(* in the form that the expansion gave it: a query that was planned does   *)
(* not fail on its own arguments when it runs.                             *)
VerdictRight ==
    /\ outcome = "refused" => ~Fits(given) /\ call = "expand"
    /\ node # NoDocument => Fits(document) /\ Fits(node)

(* A request asks for what the user wrote, though it was parsed, written   *)
(* down and parsed again; and the host looks up as many documents as       *)
(* candidates were asked for.                                              *)
RequestAsWritten ==
    /\ pc = "request" => request.body = opensearch_body(QueryArgs(document))
    /\ node # NoDocument /\ variant = "mongodb" => lookup = QueryArgs(document).limit

(* Where a region can be read, valid or not, no request leaves without a   *)
(* signature, nor with one over plain HTTP but by the explicit override:   *)
(* whichever credentials are missing or blank, and whichever endpoint is   *)
(* tried after others failed.  A region that is no Unicode text counts as  *)
(* none, and its requests leave unsigned.                                  *)
SignedWhereAsked ==
    pc = "request" =>
        /\ request.auth = "signed" <=> RegionRead(environment)
        /\ request.auth = "signed" => Credentials(environment)
        /\ request.auth = "signed" /\ ~environment.http => request.endpoint = "https"

(* For all values of an i64: a request has time, and no more than is left  *)
(* until the deadline by exact arithmetic; and none is given up early.     *)
TimeoutsTrue ==
    /\ pc = "request" =>
         /\ request.timeout \in 1..DefaultTimeout
         /\ Limited(timing.deadline) => timing.now + request.timeout <= timing.deadline
         /\ request.timeout < DefaultTimeout => timing.deadline - timing.now = request.timeout
    /\ outcome = "deadline passed" => timing.deadline <= timing.now

-----------------------------------------------------------------------------
(* What makes these inductive.  The parser knows all of the filter that it *)
(* has passed, and whose arguments it parses ...                           *)
Parses == pc \in {"keys", "filter"}

ParserInv ==
    /\ Parses => /\ call \in {"expand", "merge", "open"}
                 /\ IF call = "expand" THEN given = document /\ node = NoDocument
                                       ELSE given = node /\ node # NoDocument
                 /\ call = "open" => args = NoState
                 /\ call = "merge" => variant = "mongos"
    /\ pc = "keys" => visited = 0 /\ clauses = 0
    /\ pc = "filter" =>
         /\ KeysFit(given) /\ given.filter.type # "other"
         /\ visited \in 0..Len(given.filter.entries)
         /\ clauses = Cardinality(ClausesUpTo(given.filter, visited))
         /\ \A i \in 1..visited : EntryFits(given.filter.entries[i])

(* ... what was planned says what the user wrote, and what is open too ... *)
PlanInv ==
    /\ node # NoDocument => QueryArgs(node) = QueryArgs(document)
    /\ args = NoState => at = 0
    /\ args # NoState =>
         /\ args = QueryArgs(document)
         /\ environment \in Environments /\ endpoints # << >>

(* ... and a search is of an opened state, at one of its endpoints.        *)
SearchInv ==
    pc \in {"attempt", "request"} => args # NoState /\ at # 0 /\ outcome = "none"

IInv ==
    /\ TypeOK /\ ParserInv /\ PlanInv /\ SearchInv
    /\ VerdictRight /\ RequestAsWritten /\ SignedWhereAsked /\ TimeoutsTrue
=============================================================================
