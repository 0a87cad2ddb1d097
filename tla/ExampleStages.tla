------------------------------ MODULE ExampleStages ------------------------------
(***************************************************************************)
(* The example stages on their executor: $readLocalJsonl (LocalJsonl),     *)
(* $fibonacci, the $sdkPerfSource of the performance fixture, the          *)
(* $routerLookupPoc of the router tests, and any other stage, whose hooks  *)
(* use their context as they like.                                         *)
(*                                                                         *)
(*   stage     the stage: "jsonl", "fibonacci", "perf", "lookup" or "any"  *)
(*   args      its parsed arguments; of "jsonl", LocalJsonl's variables    *)
(***************************************************************************)
EXTENDS LocalJsonl

CONSTANTS
    StageNames, \* the stages that run
    Counts,     \* values of `n` that a user asks $fibonacci for
    Cap,        \* 10 000 in the source
    PerfRequests,   \* options of the fixture as a user writes them
    DefaultRows, MostRows, MostSleeps,   \* a default, and the largest values, of them
    LookupRequests, \* arguments of the router stage, and contexts it is bound with
    Deltas, Elapsed,    \* what hooks count, and the times they record
    Patches,    \* values the host writes into a metrics document
    MaxRows     \* bound: rows of an "any" stage

ASSUME StagesAssumption == StageNames \subseteq {"jsonl", "fibonacci", "perf", "lookup", "any"}

ASSUME CountsAssumption ==
    /\ Counts \subseteq Int /\ Deltas \subseteq Int /\ Elapsed \subseteq Int
    /\ Patches \subseteq Values

(* The metrics that stages count, and how many rows they may have.         *)
ASSUME NamesAssumption ==
    {"bytes_read", "lines_read", "empty_lines_skipped", "documents_returned",
     "parse_errors", "rows_out", "rows", "time"} \subseteq Keys

ASSUME BoundsAssumption ==
    /\ Cap \in 0..MaxInt /\ MostRows \in 0..MaxInt /\ DefaultRows \in 0..MostRows
    /\ MostSleeps \in Nat

VARIABLES stage, args

vars == <<context, input, stage, args>>

-----------------------------------------------------------------------------
(* $fibonacci.                                                             *)
FibArgs == [n : Counts]

(* parse: a number that is not negative, and no more than the cap.         *)
FaultUncapped(n) == n
Capped(n)        == IF n > Cap THEN Cap ELSE n

FibOpen ==
    IF args.n < 0 THEN OpenFails
    ELSE Opens([stage |-> "fibonacci", i |-> 0, n |-> Capped(args.n), a |-> 0,
                b |-> IF args.n = 0 THEN 0 ELSE 1])

FibEof == gen.i >= gen.n /\ Returns("next", gen, fields, Eof)

Sum2(a, b)          == Clip(a + b)

FibRow ==
    /\ gen.i < gen.n
    /\ Returns("next", [gen EXCEPT !.i = @ + 1, !.a = gen.b, !.b = Sum2(gen.a, gen.b)],
               Inc(fields, "rows_out", 1), Advanced([i |-> gen.i, value |-> gen.a]))

FibNext == FibOpen \/ (pc = "next" /\ (FibEof \/ FibRow))

-----------------------------------------------------------------------------
(* $sdkPerfSource.  An option is missing, of the wrong type, or a value.   *)
Missing   == [type |-> "missing", value |-> 0]
Mistyped  == [type |-> "other", value |-> 0]
Number(n) == [type |-> "int", value |-> n]
Flag(b)   == [type |-> "bool", value |-> IF b THEN 1 ELSE 0]
Never     == -1

IsOption(o) ==
    \/ o \in {Missing, Mistyped, Flag(TRUE), Flag(FALSE)}
    \/ o.value \in Int /\ o = Number(o.value)

ASSUME PerfAssumption ==
    \A r \in PerfRequests :
        /\ IsOption(r.rows) /\ IsOption(r.delay) /\ IsOption(r.fail_at)
        /\ IsOption(r.panic_at) /\ IsOption(r.metadata)

Integer(o, most) == o.type = "missing" \/ (o.type = "int" /\ o.value \in 0..most)
Boolean(o)       == o.type \in {"missing", "bool"}
Given(o, default) == IF o.type = "missing" THEN default ELSE o.value

(* Config::parse.                                                          *)
PerfAccepts ==
    /\ ~args.unknown_key
    /\ Integer(args.rows, MostRows) /\ Integer(args.delay, MostSleeps)
    /\ Integer(args.fail_at, MostRows) /\ Integer(args.panic_at, MostRows)
    /\ Boolean(args.metadata)

PerfConfig ==
    [rows |-> Given(args.rows, DefaultRows), delay |-> Given(args.delay, 0),
     fail_at |-> Given(args.fail_at, Never), panic_at |-> Given(args.panic_at, Never),
     metadata |-> Given(args.metadata, 0) = 1]

(* `slept` are the sleeps of the running pull, a time that the pull        *)
(* forgets; `delay` those that delay_ms allows.                            *)
PerfOpen ==
    IF PerfAccepts THEN Opens([stage |-> "perf", config |-> PerfConfig, next |-> 0, slept |-> 0])
                   ELSE OpenFails

Rested == [gen EXCEPT !.slept = 0]

(* The pull asks at its beginning and after every sleep.                   *)
PerfAsks  == AskInterrupt("next", "row")
PerfHears == pc = "interrupt!" /\ ReadInterrupt(IF gen.slept = 0 THEN "row" ELSE "wait", Rested)

PerfEof == gen.next >= gen.config.rows /\ Returns("row", gen, fields, Eof)

PerfPanics ==
    /\ gen.next < gen.config.rows /\ gen.config.panic_at = gen.next
    /\ Returns("row", gen, fields, Panic)

PerfFails ==
    /\ gen.next < gen.config.rows
    /\ gen.config.panic_at # gen.next /\ gen.config.fail_at = gen.next
    /\ Returns("row", gen, fields, Error("runtime"))

(* check_row passes: the delay begins.                                     *)
PerfWaits ==
    /\ gen.next < gen.config.rows /\ gen.next \notin {gen.config.panic_at, gen.config.fail_at}
    /\ Hook("row", "wait", gen, fields, out)

(* The fault: the delay starts again after every sleep.                    *)
FaultRestarted == gen
Slept == [gen EXCEPT !.slept = @ + 1]

PerfSleep ==
    /\ gen.slept < gen.config.delay
    /\ Hook("wait", "slept", Slept, fields, out)

PerfAsksAgain == AskInterrupt("slept", "wait")

PerfRow ==
    /\ gen.slept >= gen.config.delay
    /\ Returns("wait", [Rested EXCEPT !.next = @ + 1], Inc(fields, "rows", 1),
               Advanced([i |-> gen.next, scored |-> gen.config.metadata]))

PerfNext ==
    \/ PerfOpen \/ PerfAsks \/ PerfHears
    \/ pc = "row" /\ (PerfEof \/ PerfPanics \/ PerfFails \/ PerfWaits)
    \/ pc = "wait" /\ (PerfSleep \/ PerfRow)
    \/ PerfAsksAgain

-----------------------------------------------------------------------------
(* $routerLookupPoc.  Candidates have an _id and a number as their score;  *)
(* nothing else may be among the arguments.                                *)
ASSUME LookupAssumption ==
    \A r \in LookupRequests : r.candidates \in Seq(Range(r.candidates))

Candidate(c) == c.type = "document" /\ c.id /\ c.score \in {"finite", "int"}

LookupAccepts ==
    /\ args.keys = {"candidates"} /\ args.array
    /\ \A n \in DOMAIN args.candidates : Candidate(args.candidates[n])

LookupOpen ==
    IF LookupAccepts /\ args.catalog = "router"
    THEN Opens([stage |-> "lookup", pending |-> args.candidates])
    ELSE OpenFails

LookupEof == gen.pending = << >> /\ Returns("next", gen, fields, Eof)

LookupRow ==
    /\ gen.pending # << >>
    /\ Returns("next", [gen EXCEPT !.pending = Tail(@)], fields, Advanced(Head(gen.pending)))

LookupNext == LookupOpen \/ (pc = "next" /\ (LookupEof \/ LookupRow))

-----------------------------------------------------------------------------
(* Any stage: its hooks may do whatever the context offers.                *)
AnyOpen == Opens([stage |-> "any"]) \/ OpenFails

AnyCounts  == \E d \in Deltas : Hook("next", "next", gen, Inc(fields, "rows", d), out)
AnyRecords == \E t \in Elapsed : Hook("next", "next", gen, RecordTime(fields, "time", t), out)
AnyAsks    == AskInterrupt("next", "next") \/ AskDeadline("next", "next")
AnyHears   == ReadInterrupt("next", gen) \/ ReadDeadline("next")

AnyReturns ==
    \/ /\ Len(emitted) < MaxRows
       /\ Returns("next", gen, fields, Advanced([i |-> Len(emitted)]))
    \/ \E result \in {Eof, Error("runtime"), Panic} : Returns("next", gen, fields, result)

AnyNext == AnyOpen \/ AnyCounts \/ AnyRecords \/ AnyAsks \/ AnyHears \/ AnyReturns

-----------------------------------------------------------------------------
NoInput == [options |-> NoOptions, path |-> << >>, limit |-> Unlimited, file |-> << >>]

Init ==
    /\ InitContext
    /\ stage \in StageNames
    /\ args \in CASE stage = "fibonacci" -> FibArgs
                  [] stage = "perf" -> PerfRequests
                  [] stage = "lookup" -> LookupRequests
                  [] OTHER -> {NoState}
    /\ \E given \in IF stage = "jsonl" THEN Inputs ELSE {NoInput} :
         /\ options = given.options /\ path = given.path
         /\ limit = given.limit /\ file = given.file

Thread ==
    /\ \/ stage = "jsonl" /\ JsonlNext
       \/ stage = "fibonacci" /\ FibNext
       \/ stage = "perf" /\ PerfNext
       \/ stage = "lookup" /\ LookupNext
       \/ stage = "any" /\ AnyNext
       \/ InContext
    /\ UNCHANGED <<input, stage, args>>

(* The host writes fields of its own into the documents of "any" stage.    *)
Elsewhere ==
    /\ Host \/ (stage = "any" /\ \E v \in Patches : HostUpdatesMetrics("rows", v))
    /\ UNCHANGED <<input, stage, args>>

Next == Thread \/ Elsewhere

(* A hook that runs goes on, and the host answers it.                      *)
Running == pc # "idle" /\ Thread

Spec == Init /\ [][Next]_vars /\ WF_vars(Running)

-----------------------------------------------------------------------------
(* The variables range over what the fields can hold.                      *)
Row ==
    CASE stage = "jsonl" -> [line : 1..Len(file), text : Seq({"j", "s"})]
      [] stage = "fibonacci" -> [i : 0..Cap, value : 0..MaxInt]
      [] stage = "perf" -> [i : 0..MostRows, scored : BOOLEAN]
      [] stage = "lookup" -> Range(args.candidates)
      [] OTHER -> [i : Nat]

TypeOK ==
    /\ ContextTypeOK
    /\ out.kind = "advanced" => out.row \in Row
    /\ \A n \in DOMAIN emitted : emitted[n] \in Row
    /\ gen # NoState => /\ gen.stage = stage
                        /\ stage = "jsonl" => /\ gen.at \in 0..Len(file)
                                              /\ gen.line_no \in 0..(Cardinality(Newlines) + 1)
                        /\ stage = "fibonacci" => gen.i \in 0..gen.n
                        /\ stage = "perf" => gen.slept \in 0..gen.config.delay

(* Fibonacci numbers, by themselves and up to the largest that fits.       *)
Fibonacci[i \in Nat] == IF i < 2 THEN i ELSE Fibonacci[i - 1] + Fibonacci[i - 2]

Expected ==
    CASE stage = "jsonl" -> ExpectedDocuments
      [] stage = "fibonacci" ->
            [k \in 1..(IF args.n > Cap THEN Cap ELSE args.n) |->
                [i |-> k - 1, value |-> Clip(Fibonacci[k - 1])]]
      [] stage = "perf" ->
            [k \in 1..PerfConfig.rows |-> [i |-> k - 1, scored |-> args.metadata = Flag(TRUE)]]
      [] stage = "lookup" -> IF args.catalog = "router" THEN args.candidates ELSE << >>
      [] OTHER -> emitted

(* A stage hands over the rows its arguments ask for, each once, in order, *)
(* with the right line numbers and all of them before its end, however     *)
(* often pulls fail, panic or are interrupted between them, and whatever   *)
(* lines lie between documents.  Lines that are too long are excepted.     *)
RowsAsAsked ==
    pc = "idle" /\ (stage = "jsonl" => NoLongLine) =>
        /\ IsPrefix(emitted, Expected)
        /\ done => emitted = Expected

(* The host reads documents at any moment: what it is told became of the   *)
(* lines never exceeds the lines that were read; and between pulls the     *)
(* document the executor holds has exactly the rows handed over since it   *)
(* was made, however often the host replaced it.                           *)
Serialized(d) == fields[d]
Count(d, key) == AsInt64(Serialized(d)[key])

RowsCounted ==
    CASE stage = "jsonl" -> "documents_returned"
      [] stage = "fibonacci" -> "rows_out"
      [] OTHER -> "rows"

SnapshotsAddUp ==
    /\ stage = "jsonl" => \A d \in Documents :
         Count(d, "documents_returned") + Count(d, "empty_lines_skipped")
             + Count(d, "parse_errors") <= Count(d, "lines_read")
    /\ stage \in {"jsonl", "fibonacci", "perf"} /\ pc = "idle" /\ execDoc # NoDoc =>
         Count(execDoc, RowsCounted) = Len(emitted) - since

(* The fixture asks before anything else: a pull of an operation that was  *)
(* interrupted before gives no row and no end, but an error; and the host  *)
(* finds the very code in it that it had given, whatever its own call      *)
(* returned and whatever status objects were destroyed in between.         *)
InterruptedPullsFail ==
    stage = "perf" /\ late =>
        /\ out.kind \in {"none", "error"}
        /\ "reply" \in heap => reported = "interrupted"

(* A pull returns: files and delays end, and the host answers.             *)
PullsReturn == stage # "any" /\ pc # "idle" ~> pc = "idle"
=============================================================================
