# TLA+ models of the MongoDB extension SDK

The repository is a Rust SDK for MongoDB server extensions: aggregation stages
that live in a shared library and that the server ("the host") calls through
C vtables.  A stage is a Rust trait; the SDK turns it into objects behind raw
pointers, each freed through its own vtable, with panics caught at the boundary
and results returned through out-parameters.  The hard questions are therefore not
computational: *who owns this pointer now*, *what has this call done when it
fails half way*, *what may the host do in between*.  The models below ask them
of the code as it stands.

`sdk/` stands for `extension-sdk-mongodb/src/` of the repository, `os/` for
`opensearch-extension-core/src/`.

## 1. Inventory

| Component (code) | State it keeps | Operations | Hard behaviour | Modelled in |
|---|---|---|---|---|
| Source stage executor (`sdk/source_stage.rs`, `ExecObj`, `exec_*`) | mode, upstream pointer, opaque state pointer, `generator_done`, `saw_upstream_advanced` | get_next, set_source, open/reopen/close, destroy | deciding between upstream and generator on the first pull; failures between allocating a buffer and returning it; one state built once and dropped once | `SourceExec`, abstract `RowStream` |
| Map and passthrough executors (`sdk/map_transform.rs`, `sdk/passthrough.rs`) | upstream pointer, two flags | the same vtable | releasing or forwarding each buffer of an upstream's row on every path; a synthetic row for an empty upstream, at most once | `TransformExec` |
| Distributed planning (`sdk/distributed_plan.rs`, `log_dpl`, host parse nodes) | plans, their containers, the copied stage | plan, extract shards / merger, transfer, destroy, clone | failure half way through a vector of raw pointers; extraction, transfer and destruction in any order; planning the planned copy again | `DistributedPlan` |
| Stage life cycle (descriptor, parse node, expansion, AST node, logical stage) | objects behind raw pointers, arrays of them, arguments, catalog context | parse, expand (four forms), transfer, clone, bind, compile, destroy, and what the host reads of them | an array and the host both able to free a node; a failed id lookup; contexts that must be copied out of host memory | `StageLifecycle`, abstract `HandleLedger`; `StageReads` |
| `$vectorSearch` (`os/lib.rs`, `mongodb.rs`, `mongos.rs`) | loaded rows, a cursor in them; arguments, endpoints | parse, expand, plan, open, next, the search over several endpoints, the router's lookup | failover, kills while a request is in flight or between a check and what follows it, a deadline shared by all attempts, answers longer than asked; arguments parsed three times; keys that must find their documents | `VectorSearch`, abstract `CandidateStream`; `SearchRequest`, `RouterLookup` |
| AWS and TLS transport (`os/transport.rs`) | the process's credentials | post_search | a request that must not leave unsigned | the decisions, in `SearchRequest` |
| Extension entry (`get_*_extension_impl`, `ext_init`, `sdk/host.rs`, `sdk/version.rs`) | write-once globals, options snapshot | version negotiation, initialization, registration | second call with other arguments; registration that fails half way | `ExtensionInit` |
| Stage context and host status (`sdk/stage_context.rs`, `sdk/status.rs`, `sdk/error.rs`) | the context of a pull, status objects of both sides | check_interrupt, deadline, the status of a failed pull | who owns the status that is filled, returned or answered; whether the host's code survives | `StageContext` |
| Operation metrics (`sdk/operation_metrics.rs`) | a document shared by the host's objects, the executor and a context | create, update, inc, record, serialize, destroy | life time, replacement while counting, saturation | `OperationMetrics` |
| Byte buffers (`sdk/byte_buf.rs`) | heap bytes | from_bson, destroy | freed once, by whoever holds it | steps of the executors; `StageReads` |
| Stage properties, model types (`sdk/stage_properties.rs`, `stage_model.rs`) | constants | build documents | none | `StageReads`, in part |
| Example stages (fibonacci, data federation, router lookup) and performance fixture | cursors, an open file | open, next | limits, symbolic links, saturation, interrupts in a delay | `LocalJsonl`, `ExampleStages` |
| Http fetch, logging, ABI mirror, blocking stage, test and deployment tooling | - | - | I/O or declarations | not modelled |

How they interact: the host parses a stage (descriptor → parse node), expands
it (→ array → AST nodes, perhaps with a node the host itself makes), binds each
AST node to a catalog context (→ logical stage), may ask a logical stage for a
distributed plan (→ copied stage and parse nodes of the host, inside a plan),
compiles it (→ executor), links executors with set_source and pulls with
get_next.  Executors call their upstream through the same vtable; a search
stage additionally calls back into the host for interrupts and deadline.
Everything is one host thread per query; concurrency comes from kills, the
clock and the endpoints, and is modelled in `VectorSearch`.

What makes each correct is stated by the properties of section 3; the list
of hazards, each at its line, is `PROJECT.json` "hazards".

## 2. The modules and the code

Names of variables and actions follow the source where TLA+ allows it;
`PROJECT.json` "map" gives the lines of each definition.  Every module has, at
the top, what its variables stand for; variables under "what the properties
observe" are ghosts: they decide nothing but the bounds of a run, except where
they stand for memory (`live`, `box`), whose state limits what a call can do.

**RowStream / SourceExec.**  `RowStream` is a stage that is undecided until it
either forwards its upstream or generates, never changes sides, and repeats its
end.  `SourceExec` is `ExecObj`: `mode` is `MODE_INIT`, `MODE_PASSTHROUGH` or
`MODE_GENERATOR`, resolved by the stage's static property on a pull
(`Resolved`); `GetNext` is the common guard of the disjuncts of `exec_get_next`,
one for each way through the function: forwarding with and without an upstream,
the first row, a first pause or error, the fallback (`TurnResults` composed
with each generator path), failures and panics of open, next, encoding and of
the drop of the state.  Buffers are identities; `Lost` is what no result names.
After a panic that leaves the extension, or a use of freed memory, the process is
`aborted` and nothing is promised.

**TransformExec.**  Map and passthrough share their control and differ in
`kind`.  A container is a buffer and the number of the upstream row it came
from, which is what makes "metadata of one row with the document of another"
expressible.  The actions are the paths through the two `exec_get_next`
functions, each with the releases they perform; the upstream is a choice of
rows (owned or borrowed, with or without metadata), pauses and failures.

**DistributedPlan.**  `log_dpl` is several steps, because it builds a vector of
raw pointers by calling the host: `StartPlan` copies the stage, `AddSuffix`
appends one parsed host stage, `BuildFails` is any failure on the way, `PlanBuilt`
makes the plan.  A container is the merger or the shard part of a plan; `where`
says whether its plan or the host owns it, `taken` that its stages were
transferred, which is the `Option` that `take()` empties.

**HandleLedger / StageLifecycle.**  `HandleLedger` knows only owners: the host,
a container of the extension, nobody.  `StageLifecycle` is the objects from
parse node to executor, as `source_stage.rs`, `map_transform.rs` and
`passthrough.rs` implement them alike (`family` keeps the two differences:
only source stages keep the catalog context and offer the id lookup).
Identities are reused after destruction, as addresses are.  The outcome of the
expand hook is a choice among what the traits allow; `Accepted` is the check
the code makes on it.

**ExtensionInit.**  `get_extension_impl` is one call of `get_mongodb_extension`
(it runs to its end before the host goes on); `ext_init` is several steps, one
for the options, one for each hook and one for each registration, because each
may fail and leave the earlier ones done.  The cells that are written once keep
their value; the options are overwritten.  Source extensions have a list of
stages, checked for names; transforms have one, passthrough no hook.

**CandidateStream / VectorSearch.**  `CandidateStream` is one successful search
whose candidates are handed out in order.  `VectorSearch` is the next hook with
`fetch_candidates` unfolded at every call to the host or to an endpoint: past
the first interrupt check, before the check of an attempt, before the question
for the deadline, in a request, before the check of an answer, and past it
(decode, fail over or fail).  A kill may come at each of these places, which
`caught` keeps.  `CandidateStream` is told of it too: what was on its way when
the kill came may still be handed over, once.  `variant` keeps the differences between the replica-set and the
router build: where the loaded flag is kept, whether an undecodable answer fails
over, and whether partial answers are accepted.

`VectorSearch` says when a search asks whom and what becomes of the rows; what
it asks for, and what the rows are, is in the next two.

**SearchRequest / RouterLookup.**  The arguments of a search are parsed by three
hooks (expand, merging pipeline, open).  The parser goes through the filter entry
by entry, in document order, with the clause counter and the depth bound of
`validate_filter_clause`; an entry is its kind, depth and the kind of its body.
`Expanded` writes the arguments down again, as `id_lookup_expansion` does;
`Opened` chooses options and environment, as they are when the process reads
them; `Send` is `post_search` with `AwsAuth`, and the timeout of
`request_timeout` for any deadline and clock.  `RouterLookup` adds which answers
are accepted (`decode_hit`, `decode_response`, `decode_candidates`) and the
pipeline of the merging node: `Reduced` is its `$reduce` over the components of
a path (a recursive function, as `Dotted` is), `Lookup` its `$lookup`.  MongoDB's operators and the connector that wrote
the keys (`DocumentKey`) are external.

**StageReads.**  What the host reads of the objects of `StageLifecycle`: the
entries that serialize, explain, or answer with constants.  The run
interleaves them with all the rest; they change no owner.

**OperationMetrics / StageContext / LocalJsonl / ExampleStages.**  Each EXTENDS
the one before.  `OperationMetrics` is the reference count of each document and
its fields, in a width of `Width` bits.  `StageContext` is a generator pull as a
hook sees it: `BeginNext` binds the context, `Hook` is one step of a hook,
`AskInterrupt`, `HostAnswersInterrupt`, `ReadInterrupt` the three steps of an
interrupt check with the status objects that each leaves, `EndNext` the
conversion of the hook's result.  Between any two of them the host may interrupt,
serialize, create, replace or destroy.  `LocalJsonl` has the hooks of
`$readLocalJsonl`: path checks, the walk under the root, the reader and its
counters, byte for byte of small files.  The tree of files is external: `Nodes`,
`Directories` and `Links`.  `Resolved` is `fs::canonicalize`, of the configured
root and of the place walked to: it goes over names one by one, drops "." and
empty ones, goes up at "..", and puts a link's target in the link's place, as
often as links lead to links; what leads nowhere, through a file, or round in
circles (`MaxWalk`, the system's limit on links) is `Lost`, an error.  `Walked` is
one turn of the loop, which looks at a name with `symlink_metadata`.  It
canonicalizes at once what the code canonicalizes at the end; the place that
comes out is the same, since a link on the way is followed either way.  `ExampleStages` has those of
`$fibonacci`, `$sdkPerfSource` and `$routerLookupPoc`, and an "any" stage whose
hook uses its context as it likes.

## 3. What the runs check

Passing runs (type invariants are proved, see section 4; that of `ExampleStages`
is checked too, for its bounds on rows):

| Run | States | Properties, and what each says of the code |
|---|---|---|
| `source_exec` | 2 596 | `StateOwnership`: the opaque state is built at most once and freed exactly once. `SuccessWritesResult`: a success never leaves the caller with an old result (but for a forwarding stage whose upstream was detached, see the observations). `LossOnlyOnFallbackOrError`: which calls lose a buffer, one each, and that no other step loses or frees one. `RowDeliveredOrReported`: a row the hook returned is in this call's result or the call fails. `ImplementsRowStream`: refinement. |
| `transform_exec` | 1 492 | `NothingLeaks`: the live buffers are exactly those in the result. `MetadataBelongsToRow`. `SyntheticOnlyWhenEmpty`. `RowDeliveredOrReported`. `Drains` (liveness): a host that keeps pulling reaches an end or an error. |
| `distributed_plan` | 39 604 | `ExclusiveOwnership`: each stage has one owner and none dangles, through every failure. `PlannedOnce`: what makes planning end. `ComponentsMatch`: the merging node gets a copy of the planned stage followed by its suffix; the shards get a part of one stage (the code's constant-false `$match`) exactly when the stage produces its rows itself, and else no part, which is their whole input. |
| `stage_lifecycle` | 337 648 | `ExclusiveOwnership`. `OnlyLookupsLeak`: exactly one object is lost per failed id lookup and none by anything else. `InputsSurvive`: arguments and context reach the executor through clones and destructions. `FailureTakesNothing`. `ImplementsLedger`: refinement. |
| `vector_search` | 126 603 | `FailoverInOrder`. `WithinDeadline`: attempts together never outlast the query. `KillEndsQuery`: after a kill there is at most one more thing, and only when the kill came between an interrupt check and what follows it: the candidate, the failure or the request that was at hand. `CallReturns` (liveness). `ImplementsCandidateStream`: refinement; with it no failed search looks like an empty result. |
| `search_request` | 144 322 | `VerdictRight`: the parser, which counts and stops early, judges as a definition of the whole filter does, and what was planned is not refused later. `RequestAsWritten`: after two rounds of parsing and writing down, the request asks for what the user wrote. `SignedWhereAsked`: where a region can be read from the environment, no request leaves unsigned, nor signed over plain HTTP but by the override. `TimeoutsTrue`: exact arithmetic at the ends of an i64. `KeysFindDocuments`: every hit handed out on the router becomes the one document that was indexed with its key, or nothing if that is gone. |
| `extension_init` | 1 222 | `OneInstallation`: services and stages are those of one call, the first acceptable one. `HookBeforeRegistration`: the host has a prefix of the stages, each after its hook, however the initialization ended. |
| `example_stages` | 362 048 | `TypeOK`. `HandlesCounted`: a metrics document lives exactly as long as someone can reach it. `StatusesOwned`: no status object is read after it was destroyed and none is left behind. `FilesUnderRoot`: the file read lies under the directory that the configured root leads to, through whatever links; and it is the one the path names there, unless links are allowed on the path. `RowsAsAsked`: the rows are those of a reference definition (the lines of the file, the Fibonacci numbers, the arguments), whatever fails or interrupts in between. `SnapshotsAddUp`: what the host reads of the counters, at any moment. `InterruptedPullsFail`: with the host's own code. `PullsReturn` (liveness). |

Every property of a passing run has a mutant: an operator such as
`FaultFlagIgnored`, written just before the definition it replaces, that
changes it as a plausible bug would, and under which the run fails.

Runs that end in a violation, because the code does other than a document says:

| Run | Property | What it shows |
|---|---|---|
| `source_reopen` | `ReopenRepositions` | `exec_reopen` does nothing: a stage at its end stays there, where the C header says reopen is close and open. |
| `source_panics` | `PanicsContained` | `drop_state` runs outside `ffi_boundary` when an executor is destroyed (and inside it, but before `generator_done`, at the end of the rows), where ARCHITECTURE.md says panics are caught. |
| `source_eof_payload` | `UpstreamBuffersAccounted` | owned metadata on an empty upstream's end is overwritten by the fallback, not released. |
| `transform_eof_once` | `EofHookCalledOnce` | a hook that failed is called again; its doc says once. |

`OnlyLookupsLeak` and `LossOnlyOnFallbackOrError` state leaks that the code has:
the first counts the lost objects exactly, the second names the two calls that
lose a buffer, one each, and says that every other step leaves what is lost as it
is; a leak of any further kind would fail them.

### Bounds

* `source_exec`: three buffers on each side (one lost, one or two in the
  result), two generated rows: the first, a later one, and the end.
* `transform_exec`: two upstream rows and one pause; two upstream buffers are
  live at a time (document and metadata) and one of the stage, so one spare shows
  any leak.  `Seen` caps the two counters one above what they may reach.
* `distributed_plan`: five stages, two plans, two suffix documents: a bound
  stage, its copy, two parse nodes and a spare; planning a planned copy needs the
  second plan.
* `stage_lifecycle`: four identities hold a parse node, an array and its two
  nodes; later objects reuse identities.  `MaxFailures` = 1 caps the leak, which
  otherwise would use up the identities.
* `extension_init`: lists of up to three stages, so that a duplicate need not be
  a neighbour and an initialization can fail in the middle; two services and
  options tell the first and the last value.  Any number of calls.
* `vector_search`: three endpoints tell "the next" from "the last"; the clock
  covers two full timeouts.
* `search_request`: arguments that are right, or wrong in one respect; filters
  on both sides of each bound (`MaxDepth` = 2, `MaxClauses` = 3, `MaxTerms` = 1),
  with options before and after clauses; `MaxInt` = 3 and every deadline and
  clock in that width; two endpoints, of different schemes; documents that share
  an `_id`, lack a part of the shard key, have null for it or a scalar on its
  path, and one that is gone; a region that is no Unicode text, beside absent and blank ones.
* `example_stages`: files of up to four bytes over object, white space and
  newline, and longer ones for the other bytes; signed integers of four bits, in
  which Fibonacci saturates at its eighth row; two metrics documents, so that one
  replaces the other; two sleeps in a delay; one row of "any" stage.  The tree has
links that stay under the root, lead out, lead to another link of either kind,
go up, lead nowhere, or lead to themselves, and one that leads to the root;
`MaxWalk` = 12 is twice what the longest of them needs.

Symmetry is used on identities only, in runs without liveness.  Deadlock is
checked in every run but `example_stages`, where the host stops for good once the
executor and its objects are destroyed; in the executors and the search,
`Finished` is an explicit self-loop in those states, and in `RouterLookup` `Eof`.

### Fairness

`TransformExec!FairSpec` is fair to the host's pull and to its taking of a
result: it is the host that drains, which is what `Drains` is about; it is not
fair to attaching an upstream, opening or destroying.  `VectorSearch!FairSpec`
is fair to the steps of a call under way (`Underway`): the thread runs
on, and `post_search` keeps its timeout, which `ureq` enforces.  Kills, the
clock beyond a request, and new calls are not fair.  `ExampleStages!Spec` is fair
to the steps of a pull under way (`Running`): the thread runs on, a sleep ends,
and the host answers the hook's calls.  Pulls, interrupts and all else that the
host does are not fair; `PullsReturn` excepts the "any" stage, whose hook may ask
for ever.

### Assumptions about the host

The host makes one call at a time on an object, takes or releases a result
before it passes the same result again, does not use what it destroyed, and
transfers an expanded array once (a second transfer would hand out the same nodes:
`transferred` is set, and read by the destructor only).  An upstream that fails
leaves the result alone.  Computation in `VectorSearch` takes no time on the
clock, which does not go back; kills may come between any two calls to the host or
to an endpoint, and an interrupt check that begins after a kill sees it.  The host
releases the status of a failed pull before the next one, and makes a stage's
calls from one thread; its metrics objects it may use from another.  Files and
the tree they are in do not change while they are read.  Documents of a collection
have distinct document keys (`KeysAssumption`), as MongoDB guarantees: equal keys
live on one shard, where `_id` is unique.

## 4. What is proved

TLAPS checks the following for every value of the constants that satisfies
the named assumptions (`BufsAssumption`: buffers of the two sides differ;
naturals for bounds; `ValueAssumption`: marker values are not data;
`DataAssumption`, `FilterAssumption`: what documents, options and environments
look like; `KeysAssumption`, `AnswersAssumption`: documents have an `_id` and
distinct keys, and the index holds keys of the shape that the connector writes;
`InputsAssumption`, `TreeAssumption`, `SizesAssumption`, `StagesAssumption`,
`CountsAssumption`, `NamesAssumption`, `BoundsAssumption`, `PerfAssumption`,
`LookupAssumption`: what the example stages are given has the shape of what the
host can give, and the bounds fit the integers; `RootAssumption`, `WalkAssumption`:
the default root is a path, and resolving one takes a step at least).  One assumption, `HalfAssumption` of
`OperationMetrics`, is a fact of powers, of which the provers know nothing: half of
the numbers of a width are more than one.  TLC evaluates each assumption in the
runs.  Each
`*_proofs` module proves `Init => IInv`, that each action preserves it, and the
properties from it; theorem names and statements are in `PROJECT.json`.

* **SourceExec_proofs**: type correctness; every invariant and action property
  of `source_exec`; that `SourceExec` implements `RowStream`; and three plainer
  properties that no run repeats, since the refinement contains them
  (`OneOriginOnly`, `ExplicitGeneratorNeverPulls`, `EofIsFinal`).  `IInv` adds to
  the properties what they rest on: the mode is a commitment (rows of one
  origin sent only in its mode, `ModeInv`), the state pointer and the state go
  together (`StateInv`), and a finished generator has no row in its result.
* **TransformExec_proofs**: types, `NothingLeaks`, `FailedCallHoldsNothing`,
  `MetadataBelongsToRow`, `SyntheticOnlyWhenEmpty`, `RowDeliveredOrReported`.
  `FlagsInv` ties the two flags to what was pulled and synthesized; without it the
  synthetic row's bound is not inductive.
* **DistributedPlan_proofs**: types, `ExclusiveOwnership`, `PlannedOnce`,
  `ComponentsMatch` and `FailureConsumesNothing` (a refused extraction or transfer
  leaves plans and owners as they were), for any number of stages, plans and suffix
  documents.  `OwnerInv` says that an idle builder and an absent container keep
  nothing, `DepthInv` that the `plan_applied` flag counts plannings,
  `BuilderShape` that the vector under way is a prefix of a merger.
* **StageLifecycle_proofs**: types, all invariants of `StageLifecycle` (the leak by
  counting `Lost` with the library's finite-set theorems), `FailureTakesNothing`,
  and that it implements `HandleLedger`; all of `ReadsSpec`, the specification of
  the run, whose reads change no owner.  The actions are first reduced to six
  shapes (allocate, expand, lose, transfer, destroy, refuse) with what each does
  to the owners; invariants, leak and refinement use only the shapes.  `IInv`
  adds that a free identity keeps nothing and that whatever keeps nodes is the
  host's; without the latter a destroyed node could take others with it.
* **ExtensionInit_proofs**: the properties of the run and `SuccessRegistersAll`,
  for any names and number of stages.  `ProgressInv` says that the stages before
  the present one are exactly those the host was given; that a prefix stays one
  needs the names to be distinct, which is why `OneInstallation` contains it.
* **VectorSearch_proofs**: types, `EofMeansDelivered`, `FailoverInOrder`,
  `WithinDeadline`, `KillEndsQuery`, and that it implements
  `CandidateStream`.  `SearchInv` says that a running search has delivered
  nothing and its budget fits the deadline; `KillInv` that a killed call which is
  past a check is still where the kill caught it and has shown nothing since; `RowsOfOneAnswer` that what was given
  and what is pending are together one answer.
* **SearchRequest_proofs**: types, `VerdictRight`, `RequestAsWritten`,
  `SignedWhereAsked`, `TimeoutsTrue`, for any documents, filters, bounds and width
  of integers.  `ParserInv` says that the parser's counter is the number of
  clauses among the entries it has passed and that each of them fits, so that an
  accepted filter fits as a whole and a refused one does not (a count that is
  exceeded by a prefix is exceeded by the whole); `PlanInv` that the arguments
  planned and opened say what the user wrote; `SearchInv` that a search is of an
  opened state.
  The same module has the router's lookup: behaviours of the run, which has
  lookups besides, are behaviours of `SearchRequest`, so that the theorems above
  hold of them; and `KeysFindDocuments`.  `HitsInv` says that the rows are the end
  of the answer and that nothing is asked once there is one.  `ReadAlike` is the
  lemma that matters: `lookup_pipeline` and the connector go along a path with
  different values for what is missing (null and nothing), and after `$ifNull` they
  agree, for every document and path.
* **ExampleStages_proofs**: types and every safety property of `example_stages`,
  for any file, tree, options, arguments, width of integers and number of metrics
  documents.  In three layers.
  - `ContextInv` is what holds of any hook, the "any" stage's included: `FlowInv`
    (where a pull is), `HandleInv` (each document's count is the number of its
    holders, and a context is bound to the executor's while a hook runs),
    `StatusInv` (which status objects live at which step).  Hooks are first reduced
    to one shape, `HookStep`.  `HandlesCounted` and `StatusesOwned` follow, and
    with `LateInv` `InterruptedPullsFail`.
  - `ProgressInv` says how far each stage is, in terms of the rows handed over;
    `CountInv` that the executor's document counts those since it was made, for
    `SnapshotsAddUp`.  Its part on lines is not inductive alone: a counter of the
    reader must not be clipped at the end of the integers, which needs that the
    lines read are no more than the lines of the file up to the reader's place
    (`LinesInv`, `PlaceInv`).
  - `LineInv` says that, without lines that are too long, the reader stands at the
    beginning of a line, the line in its buffer is the last it has passed, and the
    documents returned are those among the lines decided; `NumbersInv` that the
    two numbers of Fibonacci's state are the next two of the sequence, clipped;
    `MatchInv` is `RowsAsAsked` in the midst of a pull, with the row that is on
    its way.  `NthIs` relates the reference definition, which picks the k-th line
    that is a document, to the reader's count.
  - `FilesUnderRoot`: `NoLinks` shows by induction along the path that every place
    of the walk is where the root leads and the names so far, or lost; `OneName`
    that a name which is no link is resolved in one step and stays so (`Settles`).
    Nothing is assumed of where links lead.

Induction: the library's theorems on it take an operator.  Where it is needed, for
recursive functions and counts, it is taken from the well-foundedness of the
naturals (`LeastNatural`, `Induction`), a set in place of the operator; `Recursion`
and the `...Exists` lemmas show that the recursive functions of the models exist.

Only model-checked: the liveness properties (`Drains`, `CallReturns`,
`PullsReturn`), which need fairness and ENABLED, and the four violations.  Every
invariant and action property of the passing runs is proved.

## 5. What is not modelled

* **Http fetch**: a map stage whose `on_eof_no_rows` makes one request; the
  executor around it is `TransformExec`, the rest is I/O.
* **Blocking stage**: a trait that no vtable reaches.
* **Logging, the ABI mirror, macros**: formatting and declarations.
* **HTTP, TLS, the signature of a request, BSON encoding** beyond success and
  failure; the pooled client.
* **Test, fuzz, benchmark, performance and deployment tooling**, but for the
  fixture stage `$sdkPerfSource`.
* **Stage properties**: the builders' combinations other than a generator's and
  a transform's defaults.

### Observations

Behaviour met while modelling that is kept as it is in the models; but for the
first, details that no document contradicts:

* A forwarding source stage whose upstream the host detached answers a success
  and leaves the result as it was (`extension-sdk-mongodb/src/source_stage.rs:998`),
  where map and passthrough stages write an end, and where the C header says that
  a success updates the result (`include/mongodb_extension_api.h:887`).
  `SuccessWritesResult` names this as the one exception.
* `read_jsonl_physical_line` leaves an over-long line after its first byte too
  many, so the rest of it is read as a line of its own, and `physical_line_no`
  does not advance (`examples/data-federation/.../lib.rs:290`); `RowsAsAsked`
  excepts such files.
* `$readLocalJsonl` never calls `check_interrupt` in its loop over lines.
* `inc` on a field that is not an Int64 starts again from the delta; the host can
  bring that about with its own update.
* `check_interrupt` destroys the status that the host returned without reading
  it: only the code stored in the extension's own status decides.
* A configuration accepts `HTTPS://` endpoints in any case of letters, which a
  signed request refuses, since the comparison there is exact; `Signable` keeps
  that, and the search goes on to the next endpoint.
* `post_search` takes a region that is no Unicode text for none, and the request
  leaves unsigned (`opensearch-extension-core/src/transport.rs:88`);
  `SignedWhereAsked` speaks of regions that can be read.
* A pipeline expansion may give an `expect_empty` stage arguments that the same
  stage's parse would refuse.
* `ast_get_properties` calls `static_properties_doc` outside `ffi_boundary`.

### What is left

A map stage over a source stage as a composition, and `VectorSearch` as the hooks of
`SourceExec`, with the theorems that the composition keeps; lemmas on what makes
the liveness properties hold (the measure that every step of a pull lowers).

## 6. Running

    tlc -config MCSourceExec.cfg MCSourceExec      # and likewise the other cfgs
    tlapm SourceExec_proofs.tla                    # and likewise *_proofs

`MCSourceReopen.cfg`, `MCSourcePanics.cfg` and
`MCSourceEofPayload.cfg` go with `MCSourceExec`, `MCTransformEofOnce.cfg` with `MCTransformExec`.
