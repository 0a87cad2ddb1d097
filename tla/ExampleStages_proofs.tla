-------------------------- MODULE ExampleStages_proofs --------------------------
(***************************************************************************)
(* Proofs about ExampleStages, and with it LocalJsonl, StageContext and    *)
(* OperationMetrics, for any number of documents, any width of integers,   *)
(* any files and arguments: handles are counted, status objects are owned, *)
(* interrupted pulls fail, counters add up, and the rows are those asked   *)
(* for.                                                                    *)
(***************************************************************************)
EXTENDS ExampleStages, FiniteSetTheorems, WellFoundedInduction, TLAPS

(* Induction, in a form that needs no operator: sets of naturals have a    *)
(* least element.                                                          *)
Less == {ss \in Nat \X Nat : ss[1] < ss[2]}

LEMMA LeastNatural ==
  ASSUME NEW T \in SUBSET Nat, T # {}
  PROVE  \E n \in T : \A m \in T : n <= m
<1>1. IsWellFoundedOn(Less, Nat)  BY NatLessThanWellFounded DEF OpToRel, Less
<1>2. PICK n \in T : \A m \in T : <<m, n>> \notin Less  BY <1>1, WFMin, Zenon
<1>3. ASSUME NEW m \in T  PROVE  n <= m
  <2>1. <<m, n>> \notin Less  BY <1>2
  <2>2. ~(m < n)  BY <2>1 DEF Less
  <2> QED BY <2>2
<1> QED BY <1>3

LEMMA Induction ==
  ASSUME NEW T, 0 \in T, \A n \in Nat : n \in T => n + 1 \in T
  PROVE  Nat \subseteq T
<1> SUFFICES ASSUME Nat \ T # {}  PROVE FALSE  OBVIOUS
<1>1. PICK n \in Nat \ T : \A m \in Nat \ T : n <= m  BY LeastNatural
<1>2. n # 0 /\ n - 1 \in Nat /\ n - 1 \in T  BY <1>1
<1> QED BY <1>1, <1>2

(* The least of a set of naturals.                                         *)
LEMMA MinOf ==
  ASSUME NEW T \in SUBSET Nat, T # {}
  PROVE  Min(T) \in T /\ \A m \in T : Min(T) <= m
<1>1. \E n \in T : \A m \in T : n <= m  BY LeastNatural
<1> QED BY <1>1 DEF Min

-----------------------------------------------------------------------------
(* Integers of a width: what a counter becomes fits again.                 *)
LEMMA Widths ==
  /\ MaxInt \in Nat \ {0} /\ MinInt \in Int /\ MinInt < 0 /\ 0 \in Ints /\ 1 \in Ints
  /\ Ints \subseteq Int
  BY HalfAssumption DEF MaxInt, MinInt, Ints

LEMMA ClipFits ==
  ASSUME NEW n \in Int
  PROVE  /\ Clip(n) \in Ints
         /\ n \in Ints => Clip(n) = n
  BY HalfAssumption DEF Clip, MaxInt, MinInt, Ints

LEMMA WrapFits == \A n \in Int : Wrap(n) \in Ints
<1>1. \A m \in Int, k \in Nat : k > 0 => m % k \in 0..(k - 1)  OBVIOUS
<1>2. 2 * Half \in Nat /\ 2 * Half > 0  BY HalfAssumption
<1>3. ASSUME NEW n \in Int  PROVE  (n + Half) % (2 * Half) \in 0..(2 * Half - 1)
  BY <1>1, <1>2, HalfAssumption
<1>4. ASSUME NEW n \in Int  PROVE  Wrap(n) \in Ints
  <2>1. PICK r \in 0..(2 * Half - 1) : r = (n + Half) % (2 * Half)  BY <1>3
  <2>2. Wrap(n) = r - Half  BY <2>1 DEF Wrap
  <2> QED BY <2>2, HalfAssumption DEF Ints, MaxInt, MinInt
<1> QED BY <1>4

LEMMA Numbers ==
  /\ \A n \in Ints : Int64(n) \in Values /\ AsInt64(Int64(n)) = n
  /\ Absent \in Values /\ AsInt64(Absent) = 0
  /\ \A v \in Values : AsInt64(v) \in Ints
  BY Widths DEF Values, Int64, Absent, AsInt64

LEMMA CountedFits ==
  ASSUME NEW v \in Values, NEW delta \in Int
  PROVE  Counted(v, delta) \in Values /\ AsInt64(Counted(v, delta)) = Clip(AsInt64(v) + delta)
<1>1. PICK n \in Int : n = AsInt64(v)  BY Numbers, Widths
<1>2. n + delta \in Int  OBVIOUS
<1> QED BY <1>1, <1>2, ClipFits, Numbers DEF Counted

(* A context touches the document it is bound to, and no other.            *)
FieldsType == [Documents -> [Keys -> Values]]

LEMMA IncKeeps ==
  ASSUME NEW f \in FieldsType, NEW key \in Keys, NEW delta \in Int,
         bound \in Documents \cup {NoDoc}
  PROVE  /\ Inc(f, key, delta) \in FieldsType
         /\ \A d \in Documents \ {bound} : Inc(f, key, delta)[d] = f[d]
         /\ \A d \in Documents, k \in Keys \ {key} : Inc(f, key, delta)[d][k] = f[d][k]
         /\ bound # NoDoc => Inc(f, key, delta)[bound][key] = Counted(f[bound][key], delta)
<1>1. bound # NoDoc => Counted(f[bound][key], delta) \in Values
  BY CountedFits DEF FieldsType
<1> QED BY <1>1 DEF Inc, FieldsType

LEMMA RecordKeeps ==
  ASSUME NEW f \in FieldsType, NEW key \in Keys, NEW t \in Int,
         bound \in Documents \cup {NoDoc}
  PROVE  /\ RecordTime(f, key, t) \in FieldsType
         /\ \A d \in Documents \ {bound} : RecordTime(f, key, t)[d] = f[d]
<1>1. Int64(Wrap(t)) \in Values  BY WrapFits, Numbers
<1> QED BY <1>1 DEF RecordTime, FieldsType

-----------------------------------------------------------------------------
(* The states that a stage's hooks can be in, and the inputs they are made *)
(* of, which do not change.                                                *)
JsonlStates ==
    [stage : {"jsonl"}, config : {Config(options)}, target : {Target(Config(options))},
     at : 0..Len(file), line : Seq(Bytes), line_no : Nat, returned : Nat]

FibStates ==
    [stage : {"fibonacci"}, i : Nat, n : {Capped(args.n)}, a : 0..MaxInt, b : 0..MaxInt]

PerfStates == [stage : {"perf"}, config : {PerfConfig}, next : Nat, slept : Nat]

LookupStates == [stage : {"lookup"}, pending : Seq(Range(args.candidates))]

AnyStates == {[stage |-> "any"]}

States ==
    CASE stage = "jsonl" -> JsonlStates
      [] stage = "fibonacci" -> FibStates
      [] stage = "perf" -> PerfStates
      [] stage = "lookup" -> LookupStates
      [] OTHER -> AnyStates

InputInv ==
    /\ stage \in {"jsonl", "fibonacci", "perf", "lookup", "any"}
    /\ IsInput([options |-> options, path |-> path, limit |-> limit, file |-> file])
    /\ stage = "fibonacci" => args.n \in Int
    /\ stage = "perf" =>
         /\ IsOption(args.rows) /\ IsOption(args.delay) /\ IsOption(args.fail_at)
         /\ IsOption(args.panic_at) /\ IsOption(args.metadata)
    /\ stage = "lookup" => args.candidates \in Seq(Range(args.candidates))

LEMMA InputsStay ==
  ASSUME [Next]_vars
  PROVE  /\ UNCHANGED <<options, path, limit, file, stage, args>>
         /\ States' = States
         /\ Target(Config(options))' = Target(Config(options))
         /\ Resolves(Config(options))' <=> Resolves(Config(options))
         /\ InputInv => InputInv'
<1>1. UNCHANGED <<options, path, limit, file, stage, args>>
  BY DEF Next, Thread, Elsewhere, vars, input
<1>2. Target(Config(options))' = Target(Config(options))
  BY <1>1 DEF Config, Target, Root, Walked, Present, Linked, Resolved, Moved
<1>3. Config(options)' = Config(options)  BY <1>1 DEF Config
<1>4. JsonlStates' = JsonlStates  BY <1>1, <1>2, <1>3 DEF JsonlStates
<1>5. PerfStates' = PerfStates  BY <1>1 DEF PerfStates, PerfConfig
<1>6. States' = States
  BY <1>1, <1>4, <1>5 DEF States, FibStates, LookupStates, AnyStates, Capped
<1>7. Resolves(Config(options))' <=> Resolves(Config(options))
  BY <1>1, <1>2, <1>3 DEF Resolves, RelativePath, Root, Resolved, Moved
<1> QED BY <1>1, <1>2, <1>6, <1>7 DEF InputInv

LEMMA FileType ==
  ASSUME InputInv
  PROVE  /\ file \in Seq(Bytes) /\ Len(file) \in Nat /\ Len(file) <= MaxInt
         /\ limit \in Nat \cup {Unlimited} /\ path \in Seq(STRING)
         /\ options.root \in Seq(STRING) /\ options.symlinks \in BOOLEAN
         /\ options.line \in Int /\ options.document \in Int
  BY DEF InputInv, IsInput

LEMMA ConfigType ==
  ASSUME InputInv
  PROVE  /\ Config(options).line \in Nat \ {0}
         /\ Config(options).document \in Nat \ {0}
         /\ Config(options).root \in Seq(STRING)
         /\ Config(options).symlinks = options.symlinks
  BY FileType, SizesAssumption, RootAssumption DEF Config, Size

LEMMA NotNoState ==
  ASSUME NEW s \in States
  PROVE  s # NoState
<1>1. s.stage # "none"
  BY DEF States, JsonlStates, FibStates, PerfStates, LookupStates, AnyStates
<1> QED BY <1>1 DEF NoState

-----------------------------------------------------------------------------
(* Where the thread is, and what it then has.                              *)
Inside  == {"next", "read", "bytes", "lines", "decode", "row", "wait", "slept", "return"}
Waiting == {"interrupt?", "interrupt!", "deadline!"}
Results == {"advanced", "eof", "error", "panic"}
Codes   == {"ok", "runtime", "interrupted", "failed"}

FlowInv ==
    /\ pc \in {"idle", "opened"} \cup Inside \cup Waiting
    /\ done \in BOOLEAN /\ alive \in BOOLEAN /\ withHost \in BOOLEAN
    /\ gen # NoState => gen \in States
    /\ pc # "idle" => gen # NoState /\ alive /\ ~done
    /\ done \/ ~alive => gen = NoState
    /\ out.code \in Codes
    /\ IF pc = "return" THEN out.kind \in Results ELSE out = NoRow

(* The handles: a document that was not born has none, and a context is    *)
(* bound to the executor's document while a hook runs.                     *)
HandleInv ==
    /\ strong \in [Documents -> Int] /\ fields \in FieldsType
    /\ objects \subseteq Documents
    /\ {execDoc, bound} \subseteq Documents \cup {NoDoc}
    /\ bound = IF pc \in {"idle", "opened"} THEN NoDoc ELSE execDoc
    /\ \A d \in Documents :
         IF strong[d] = Unborn
         THEN d \notin objects /\ d # execDoc /\ fields[d] = [k \in Keys |-> Absent]
         ELSE strong[d] = Handles(d)

(* The statuses: the extension's own while an interrupt check is under     *)
(* way, the host's between its answer and the reading of it, the reply     *)
(* between two pulls.                                                      *)
Answers == [ret : HostReturns, code : {"ok", "interrupted", "failed"}]

StatusInv ==
    /\ heap \subseteq {"own", "asked", "reply"} /\ reported \in Codes /\ killed \in BOOLEAN
    /\ "own" \in heap <=> pc \in {"interrupt?", "interrupt!"}
    /\ "asked" \in heap <=> (pc \in {"interrupt!", "deadline!"} /\ answer.ret = "asked")
    /\ "reply" \in heap => pc = "idle"
    /\ answer \in Answers
    /\ pc \notin {"interrupt!", "deadline!"} => answer = NoAnswer

HistoryInv ==
    /\ emitted \in Seq(Range(emitted))
    /\ since \in 0..Len(emitted) /\ late \in BOOLEAN

ContextInv == FlowInv /\ HandleInv /\ StatusInv /\ HistoryInv

-----------------------------------------------------------------------------
(* What the steps of all hooks have in common.                             *)
HookStep(at, to, s, f, result) ==
    /\ Hook(at, to, s, f, result)
    /\ at \in Inside \ {"return"} /\ to \in Inside
    /\ s \in States
    /\ f \in FieldsType /\ \A d \in Documents \ {bound} : f[d] = fields[d]
    /\ IF to = "return" THEN result.kind \in Results /\ result.code \in Codes
                        ELSE result = out

HooksOn == \E at, to, s, f, result : HookStep(at, to, s, f, result)

Asks ==
    \E at, to \in Inside \ {"return"} : AskInterrupt(at, to) \/ AskDeadline(at, to)

Hears ==
    \E to \in Inside \ {"return"}, s \in States : ReadInterrupt(to, s) \/ ReadDeadline(to)

OpensOn == \E s \in States : Opens(s)

HostUpdates == \E v \in Values : HostUpdatesMetrics("rows", v)

LEMMA IsHookStep ==
  ASSUME NEW at, NEW to, NEW s, NEW f, NEW result, HookStep(at, to, s, f, result)
  PROVE  HooksOn
  BY Zenon DEF HooksOn

(* In a hook there is a state, which the stage's hooks made.               *)
LEMMA Inner ==
  ASSUME ContextInv, pc # "idle"
  PROVE  gen \in States
  BY DEF ContextInv, FlowInv

(* A metric that is counted is one of the context's document.              *)
LEMMA CountsOne ==
  ASSUME ContextInv, NEW key \in Keys, NEW delta \in Int
  PROVE  /\ Inc(fields, key, delta) \in FieldsType
         /\ \A d \in Documents \ {bound} : Inc(fields, key, delta)[d] = fields[d]
  BY IncKeeps DEF ContextInv, HandleInv

LEMMA FieldsAsTheyAre ==
  ASSUME ContextInv
  PROVE  fields \in FieldsType /\ \A d \in Documents \ {bound} : fields[d] = fields[d]
  BY DEF ContextInv, HandleInv

LEMMA ResultTypes ==
  /\ Eof.kind \in Results /\ Eof.code \in Codes
  /\ Panic.kind \in Results /\ Panic.code \in Codes
  /\ \A c \in Codes : Error(c).kind \in Results /\ Error(c).code \in Codes
  /\ \A r : Advanced(r).kind \in Results /\ Advanced(r).code \in Codes
  BY DEF Eof, Panic, Error, Advanced, NoRow, Results, Codes

-----------------------------------------------------------------------------
(* $fibonacci.                                                             *)
LEMMA CappedFits ==
  ASSUME InputInv, stage = "fibonacci"
  PROVE  Capped(args.n) \in Int /\ Capped(args.n) <= Cap /\ Cap \in 0..MaxInt
         /\ (args.n >= 0 => Capped(args.n) \in Nat)
  BY BoundsAssumption, Widths DEF InputInv, Capped

LEMMA SumFits ==
  ASSUME NEW a \in 0..MaxInt, NEW b \in 0..MaxInt
  PROVE  Sum2(a, b) \in 0..MaxInt
<1>1. PICK n \in Nat : n = a + b  BY Widths
<1>2. Clip(n) \in 0..MaxInt  BY Widths DEF Clip
<1> QED BY <1>1, <1>2 DEF Sum2

LEMMA FibSteps ==
  ASSUME ContextInv, InputInv, stage = "fibonacci", FibNext
  PROVE  OpensOn \/ OpenFails \/ HooksOn
<1>1. CASE FibOpen
  <2>1. [stage |-> "fibonacci", i |-> 0, n |-> Capped(args.n), a |-> 0,
         b |-> IF args.n = 0 THEN 0 ELSE 1] \in States
    BY Widths DEF States, FibStates
  <2> QED BY <1>1, <2>1 DEF FibOpen, OpensOn
<1>2. CASE pc = "next" /\ FibEof
  <2>1. HookStep("next", "return", gen, fields, Eof)
    BY <1>2, Inner, FieldsAsTheyAre, ResultTypes DEF HookStep, FibEof, Returns, Inside
  <2> QED BY <2>1, IsHookStep
<1>3. CASE pc = "next" /\ FibRow
  <2> DEFINE s == [gen EXCEPT !.i = @ + 1, !.a = gen.b, !.b = Sum2(gen.a, gen.b)]
             f == Inc(fields, "rows_out", 1)
             r == Advanced([i |-> gen.i, value |-> gen.a])
  <2>1. gen \in FibStates  BY <1>3, Inner DEF States
  <2>2. Sum2(gen.a, gen.b) \in 0..MaxInt  BY <2>1, SumFits DEF FibStates
  <2>3. s \in States
    <3>1. gen.i + 1 \in Nat /\ gen.b \in 0..MaxInt  BY <2>1 DEF FibStates
    <3>2. s \in FibStates  BY <2>1, <2>2, <3>1, Zenon DEF FibStates
    <3> QED BY <3>2 DEF States
  <2>4. f \in FieldsType /\ \A d \in Documents \ {bound} : f[d] = fields[d]
    BY CountsOne, NamesAssumption
  <2>5. r.kind \in Results /\ r.code \in Codes  BY ResultTypes
  <2>6. Hook("next", "return", s, f, r)  BY <1>3 DEF FibRow, Returns
  <2> HIDE DEF s, f, r
  <2>7. HookStep("next", "return", s, f, r)
    BY <2>3, <2>4, <2>5, <2>6 DEF HookStep, Inside
  <2> QED BY <2>7, IsHookStep
<1> QED BY <1>1, <1>2, <1>3 DEF FibNext

-----------------------------------------------------------------------------
(* $sdkPerfSource.                                                         *)
LEMMA PerfConfigType ==
  ASSUME InputInv, stage = "perf", PerfAccepts
  PROVE  /\ PerfConfig.rows \in 0..MostRows /\ PerfConfig.delay \in 0..MostSleeps
         /\ PerfConfig.metadata = (args.metadata = Flag(TRUE))
  BY BoundsAssumption
  DEF InputInv, PerfAccepts, PerfConfig, Integer, Given, IsOption, Boolean, Flag, Missing,
      Mistyped, Number

LEMMA PerfSteps ==
  ASSUME ContextInv, InputInv, stage = "perf", PerfNext
  PROVE  OpensOn \/ OpenFails \/ HooksOn \/ Asks \/ Hears
<1>1. CASE PerfOpen
  <2>1. [stage |-> "perf", config |-> PerfConfig, next |-> 0, slept |-> 0] \in States
    BY DEF States, PerfStates
  <2> QED BY <1>1, <2>1 DEF PerfOpen, OpensOn
<1>2. CASE PerfAsks \/ PerfAsksAgain
  BY <1>2 DEF PerfAsks, PerfAsksAgain, Asks, Inside
<1>3. CASE PerfHears
  <2>1. gen \in PerfStates  BY <1>3, Inner DEF States, PerfHears
  <2>2. Rested \in States  BY <2>1 DEF States, PerfStates, Rested
  <2> QED BY <1>3, <2>2 DEF PerfHears, Hears, Inside
<1>4. CASE pc = "row" /\ (PerfEof \/ PerfPanics \/ PerfFails)
  <2>1. \E r \in {Eof, Panic, Error("runtime")} : Hook("row", "return", gen, fields, r)
    BY <1>4 DEF PerfEof, PerfPanics, PerfFails, Returns
  <2>2. PICK r \in {Eof, Panic, Error("runtime")} : Hook("row", "return", gen, fields, r)
    BY <2>1
  <2>3. r.kind \in Results /\ r.code \in Codes  BY ResultTypes DEF Codes
  <2>4. HookStep("row", "return", gen, fields, r)
    BY <1>4, <2>2, <2>3, Inner, FieldsAsTheyAre DEF HookStep, Inside
  <2> QED BY <2>4, IsHookStep
<1>5. CASE pc = "row" /\ PerfWaits
  <2>1. HookStep("row", "wait", gen, fields, out)
    BY <1>5, Inner, FieldsAsTheyAre DEF PerfWaits, HookStep, Inside
  <2> QED BY <2>1, IsHookStep
<1>6. CASE pc = "wait" /\ PerfSleep
  <2>1. gen \in PerfStates  BY <1>6, Inner DEF States
  <2>2. Slept \in States  BY <2>1 DEF States, PerfStates, Slept
  <2>3. HookStep("wait", "slept", Slept, fields, out)
    BY <1>6, <2>2, FieldsAsTheyAre DEF PerfSleep, HookStep, Inside
  <2> QED BY <2>3, IsHookStep
<1>7. CASE pc = "wait" /\ PerfRow
  <2> DEFINE s == [Rested EXCEPT !.next = @ + 1]
             f == Inc(fields, "rows", 1)
             r == Advanced([i |-> gen.next, scored |-> gen.config.metadata])
  <2>1. gen \in PerfStates  BY <1>7, Inner DEF States
  <2>2. s \in States
    <3>1. Rested \in PerfStates  BY <2>1 DEF PerfStates, Rested
    <3>2. [Rested EXCEPT !.next = @ + 1] \in PerfStates  BY <3>1 DEF PerfStates
    <3> QED BY <3>2 DEF States
  <2>3. f \in FieldsType /\ \A d \in Documents \ {bound} : f[d] = fields[d]
    BY CountsOne, NamesAssumption
  <2>4. r.kind \in Results /\ r.code \in Codes  BY ResultTypes
  <2>5. Hook("wait", "return", s, f, r)  BY <1>7 DEF PerfRow, Returns
  <2> HIDE DEF s, f, r
  <2>6. HookStep("wait", "return", s, f, r)
    BY <2>2, <2>3, <2>4, <2>5 DEF HookStep, Inside
  <2> QED BY <2>6, IsHookStep
<1> QED BY <1>1, <1>2, <1>3, <1>4, <1>5, <1>6, <1>7 DEF PerfNext

-----------------------------------------------------------------------------
(* $routerLookupPoc, and any other stage.                                  *)
LEMMA LookupSteps ==
  ASSUME ContextInv, InputInv, stage = "lookup", LookupNext
  PROVE  OpensOn \/ OpenFails \/ HooksOn
<1>1. CASE LookupOpen
  <2>1. [stage |-> "lookup", pending |-> args.candidates] \in States
    BY DEF States, LookupStates, InputInv
  <2> QED BY <1>1, <2>1 DEF LookupOpen, OpensOn
<1>2. CASE pc = "next" /\ LookupEof
  <2>1. HookStep("next", "return", gen, fields, Eof)
    BY <1>2, Inner, FieldsAsTheyAre, ResultTypes DEF HookStep, LookupEof, Returns, Inside
  <2> QED BY <2>1, IsHookStep
<1>3. CASE pc = "next" /\ LookupRow
  <2> DEFINE s == [gen EXCEPT !.pending = Tail(@)]
             r == Advanced(Head(gen.pending))
  <2>1. gen \in LookupStates  BY <1>3, Inner DEF States
  <2>2. Tail(gen.pending) \in Seq(Range(args.candidates))
    BY <1>3, <2>1 DEF LookupStates, LookupRow
  <2>3. s \in States  BY <2>1, <2>2 DEF States, LookupStates
  <2>4. r.kind \in Results /\ r.code \in Codes  BY ResultTypes
  <2>5. Hook("next", "return", s, fields, r)  BY <1>3 DEF LookupRow, Returns
  <2> HIDE DEF s, r
  <2>6. HookStep("next", "return", s, fields, r)
    BY <2>3, <2>4, <2>5, FieldsAsTheyAre DEF HookStep, Inside
  <2> QED BY <2>6, IsHookStep
<1> QED BY <1>1, <1>2, <1>3 DEF LookupNext

LEMMA AnySteps ==
  ASSUME ContextInv, InputInv, stage = "any", AnyNext
  PROVE  OpensOn \/ OpenFails \/ HooksOn \/ Asks \/ Hears
<1>1. CASE AnyOpen
  BY <1>1 DEF AnyOpen, OpensOn, States, AnyStates
<1>2. CASE AnyCounts
  <2>1. PICK d \in Deltas : Hook("next", "next", gen, Inc(fields, "rows", d), out)
    BY <1>2 DEF AnyCounts
  <2> DEFINE f == Inc(fields, "rows", d)
  <2>2. f \in FieldsType /\ \A e \in Documents \ {bound} : f[e] = fields[e]
    BY CountsOne, NamesAssumption, CountsAssumption
  <2>3. gen \in States  BY <2>1, Inner DEF Hook
  <2>4. Hook("next", "next", gen, f, out)  BY <2>1
  <2> HIDE DEF f
  <2>5. HookStep("next", "next", gen, f, out)  BY <2>2, <2>3, <2>4 DEF HookStep, Inside
  <2> QED BY <2>5, IsHookStep
<1>3. CASE AnyRecords
  <2>1. PICK t \in Elapsed : Hook("next", "next", gen, RecordTime(fields, "time", t), out)
    BY <1>3 DEF AnyRecords
  <2> DEFINE f == RecordTime(fields, "time", t)
  <2>2. f \in FieldsType /\ \A e \in Documents \ {bound} : f[e] = fields[e]
    BY RecordKeeps, NamesAssumption, CountsAssumption DEF ContextInv, HandleInv
  <2>3. gen \in States  BY <2>1, Inner DEF Hook
  <2>4. Hook("next", "next", gen, f, out)  BY <2>1
  <2> HIDE DEF f
  <2>5. HookStep("next", "next", gen, f, out)  BY <2>2, <2>3, <2>4 DEF HookStep, Inside
  <2> QED BY <2>5, IsHookStep
<1>4. CASE AnyAsks  BY <1>4 DEF AnyAsks, Asks, Inside
<1>5. CASE AnyHears
  <2>1. gen \in States  BY <1>5, Inner DEF AnyHears, ReadInterrupt, ReadDeadline
  <2> QED BY <1>5, <2>1 DEF AnyHears, Hears, Inside
<1>6. CASE AnyReturns
  <2>1. \E r : /\ r.kind \in Results /\ r.code \in Codes
               /\ Hook("next", "return", gen, fields, r)
    BY <1>6, ResultTypes DEF AnyReturns, Returns, Codes
  <2>2. PICK r : /\ r.kind \in Results /\ r.code \in Codes
                 /\ Hook("next", "return", gen, fields, r)
    BY <2>1
  <2>3. gen \in States  BY <2>2, Inner DEF Hook
  <2>4. HookStep("next", "return", gen, fields, r)
    BY <2>2, <2>3, FieldsAsTheyAre DEF HookStep, Inside
  <2> QED BY <2>4, IsHookStep
<1> QED BY <1>1, <1>2, <1>3, <1>4, <1>5, <1>6 DEF AnyNext

-----------------------------------------------------------------------------
(* $readLocalJsonl.  The line that begins after position p ends before the *)
(* next newline, or with the file.                                         *)
EndOf(p)  == Min({i \in Newlines : i > p} \cup {Len(file) + 1})
LineAt(p) == SubSeq(file, p + 1, EndOf(p) - 1)

LEMMA LineEnds ==
  ASSUME InputInv, NEW p \in 0..Len(file)
  PROVE  /\ EndOf(p) \in (p + 1)..(Len(file) + 1)
         /\ EndOf(p) \in Newlines \/ EndOf(p) = Len(file) + 1
         /\ \A i \in Newlines : i > p => EndOf(p) <= i
         /\ LineAt(p) \in Seq(Bytes) /\ LineAt(p) \in Seq(Bytes \ {"n"})
         /\ Len(LineAt(p)) \in Nat /\ Len(LineAt(p)) = EndOf(p) - 1 - p
<1> DEFINE ends == {i \in Newlines : i > p} \cup {Len(file) + 1}
<1>1. file \in Seq(Bytes) /\ Len(file) \in Nat /\ Newlines \subseteq 1..Len(file)
  BY FileType DEF Newlines
<1>2. ends \in SUBSET Nat /\ ends # {} /\ ends \subseteq (p + 1)..(Len(file) + 1)
  <2>1. \A i \in Newlines : i > p => i \in (p + 1)..(Len(file) + 1)  BY <1>1
  <2>2. Len(file) + 1 \in (p + 1)..(Len(file) + 1)  BY <1>1
  <2>3. (p + 1)..(Len(file) + 1) \subseteq Nat  BY <1>1
  <2> QED BY <2>1, <2>2, <2>3
<1>3. EndOf(p) \in ends /\ \A m \in ends : EndOf(p) <= m
  BY <1>2, MinOf DEF EndOf
<1>4. EndOf(p) \in (p + 1)..(Len(file) + 1)  BY <1>2, <1>3
<1> HIDE DEF EndOf
<1>5. PICK e \in (p + 1)..(Len(file) + 1) : e = EndOf(p)  BY <1>4
<1>6. SubSeq(file, p + 1, e - 1) \in Seq(Bytes \ {"n"}) /\ Len(SubSeq(file, p + 1, e - 1)) = e - 1 - p
  <2>1. p + 1 \in Nat /\ e - 1 \in Nat /\ p + 1 >= 1 /\ e - 1 <= Len(file) /\ e >= p + 1
    BY <1>1
  <2>2. \A i \in (p + 1)..(e - 1) : file[i] \in Bytes \ {"n"}
    <3> SUFFICES ASSUME NEW i \in (p + 1)..(e - 1)  PROVE file[i] \in Bytes \ {"n"}
      OBVIOUS
    <3>1. i \in 1..Len(file) /\ i > p /\ i < e  BY <1>1
    <3>2. i \notin Newlines  BY <1>3, <1>5, <3>1
    <3>3. file[i] \in Bytes /\ file[i] # "n"  BY <1>1, <3>1, <3>2 DEF Newlines
    <3> QED BY <3>3
  <2>3. DOMAIN SubSeq(file, p + 1, e - 1) = 1..((e - 1) - (p + 1) + 1)
        /\ Len(SubSeq(file, p + 1, e - 1)) = (e - 1) - (p + 1) + 1
    BY <1>1, <2>1
  <2> QED BY <1>1, <2>1, <2>2, <2>3
<1>7. Bytes \ {"n"} \subseteq Bytes  OBVIOUS
<1>8. LineAt(p) \in Seq(Bytes \ {"n"}) /\ LineAt(p) \in Seq(Bytes)  BY <1>5, <1>6, <1>7 DEF LineAt
<1> QED BY <1>3, <1>4, <1>5, <1>6, <1>8 DEF LineAt

LEMMA GenLine ==
  ASSUME ContextInv, InputInv, stage = "jsonl", pc # "idle"
  PROVE  /\ gen \in JsonlStates /\ gen.at \in 0..Len(file)
         /\ LineEnd = EndOf(gen.at) /\ Body = LineAt(gen.at)
         /\ gen.config = Config(options)
<1>1. gen \in JsonlStates  BY Inner DEF States
<1> QED BY <1>1 DEF JsonlStates, LineEnd, EndOf, Body, LineAt

(* A file is read from its first byte to its last.                         *)
LEMMA ReadsOn ==
  ASSUME ContextInv, InputInv, stage = "jsonl", pc = "read"
  PROVE  /\ LineTooLong => /\ gen.at + gen.config.line + 1 < LineEnd
                           /\ gen.at + gen.config.line + 1 \in (gen.at + 1)..Len(file)
         /\ ReadLine => /\ gen.at < Len(file)
                        /\ Min({LineEnd, Len(file)}) \in (gen.at + 1)..Len(file)
                        /\ LineEnd <= Len(file) => Min({LineEnd, Len(file)}) = LineEnd
                        /\ LineEnd = Len(file) + 1 => Min({LineEnd, Len(file)}) = Len(file)
<1>1. PICK p \in 0..Len(file) : p = gen.at  BY GenLine
<1>2. PICK e \in (p + 1)..(Len(file) + 1) : e = LineEnd
  BY <1>1, LineEnds, GenLine
<1>3. PICK k \in Nat \ {0} : k = gen.config.line  BY ConfigType, GenLine
<1>4. Len(Body) = e - 1 - p  BY <1>1, <1>2, LineEnds, GenLine
<1>5. Len(file) \in Nat  BY FileType
<1>6. ASSUME LineTooLong
      PROVE  p + k + 1 < e /\ p + k + 1 \in (p + 1)..Len(file)
  <2>1. e - 1 - p > k  BY <1>3, <1>4, <1>6 DEF LineTooLong, TooLong
  <2> QED BY <1>5, <2>1
<1>7. ASSUME ReadLine
      PROVE  /\ p < Len(file)
             /\ Min({e, Len(file)}) \in (p + 1)..Len(file)
             /\ e <= Len(file) => Min({e, Len(file)}) = e
             /\ e = Len(file) + 1 => Min({e, Len(file)}) = Len(file)
  <2>1. p < Len(file)  BY <1>1, <1>5, <1>7 DEF ReadLine, AtEnd
  <2>2. {e, Len(file)} \in SUBSET Nat /\ {e, Len(file)} # {}  BY <1>5
  <2>3. PICK m \in {e, Len(file)} : m = Min({e, Len(file)}) /\ m <= e /\ m <= Len(file)
    BY <2>2, MinOf
  <2> QED BY <1>5, <2>1, <2>3
<1> QED BY <1>1, <1>2, <1>3, <1>6, <1>7

LEMMA JsonlSteps ==
  ASSUME ContextInv, InputInv, stage = "jsonl", JsonlNext
  PROVE  OpensOn \/ OpenFails \/ HooksOn
<1>1. CASE pc = "idle" /\ (OpenFile \/ FileRejected)
  <2>1. Reader(Config(options)) \in States
    BY FileType DEF Reader, States, JsonlStates
  <2> QED BY <1>1, <2>1 DEF OpenFile, FileRejected, OpensOn
<1>2. CASE pc = "next" /\ LimitReached
  <2>1. HookStep("next", "return", gen, fields, Eof)
    BY <1>2, Inner, FieldsAsTheyAre, ResultTypes DEF HookStep, LimitReached, Returns, Inside
  <2> QED BY <2>1, IsHookStep
<1>3. CASE pc = "next" /\ Reads
  <2>1. HookStep("next", "read", gen, fields, out)
    BY <1>3, Inner, FieldsAsTheyAre DEF HookStep, Reads, Inside
  <2> QED BY <2>1, IsHookStep
<1>4. CASE pc = "read" /\ (ReadFails \/ EndOfFile)
  <2>1. PICK r \in {Eof, Error("runtime")} : Hook("read", "return", gen, fields, r)
    BY <1>4 DEF ReadFails, EndOfFile, Returns
  <2>2. r.kind \in Results /\ r.code \in Codes  BY ResultTypes DEF Codes
  <2>3. HookStep("read", "return", gen, fields, r)
    BY <1>4, <2>1, <2>2, Inner, FieldsAsTheyAre DEF HookStep, Inside
  <2> QED BY <2>3, IsHookStep
<1>5. CASE pc = "read" /\ LineTooLong
  <2> DEFINE s == [gen EXCEPT !.at = @ + gen.config.line + 1]
  <2>1. gen.at + gen.config.line + 1 \in 0..Len(file)
    BY <1>5, ReadsOn, GenLine, FileType
  <2>2. s \in States  BY <1>5, <2>1, GenLine, Zenon DEF States, JsonlStates
  <2>3. Error("runtime").kind \in Results /\ Error("runtime").code \in Codes
    BY ResultTypes DEF Codes
  <2>4. Hook("read", "return", s, fields, Error("runtime"))
    BY <1>5 DEF LineTooLong, Returns
  <2> HIDE DEF s
  <2>5. HookStep("read", "return", s, fields, Error("runtime"))
    BY <2>2, <2>3, <2>4, FieldsAsTheyAre DEF HookStep, Inside
  <2> QED BY <2>5, IsHookStep
<1>6. CASE pc = "read" /\ ReadLine
  <2> DEFINE s == [gen EXCEPT !.at = Min({LineEnd, Len(file)}), !.line = Body]
  <2>1. Min({LineEnd, Len(file)}) \in 0..Len(file)  BY <1>6, ReadsOn, GenLine, FileType
  <2>2. Body \in Seq(Bytes)  BY <1>6, GenLine, LineEnds
  <2>3. s \in States  BY <1>6, <2>1, <2>2, GenLine, Zenon DEF States, JsonlStates
  <2>4. Hook("read", "bytes", s, fields, out)  BY <1>6 DEF ReadLine
  <2> HIDE DEF s
  <2>5. HookStep("read", "bytes", s, fields, out)
    BY <2>3, <2>4, FieldsAsTheyAre DEF HookStep, Inside
  <2> QED BY <2>5, IsHookStep
<1>7. CASE CountBytes
  <2> DEFINE s == [gen EXCEPT !.line_no = @ + 1]
             f == Inc(fields, "bytes_read", Len(gen.line))
  <2>1. gen \in JsonlStates  BY <1>7, GenLine DEF CountBytes, Hook
  <2>2. s \in States  BY <2>1 DEF States, JsonlStates
  <2>3. f \in FieldsType /\ \A d \in Documents \ {bound} : f[d] = fields[d]
    <3>1. Len(gen.line) \in Int  BY <2>1 DEF JsonlStates
    <3> QED BY <3>1, CountsOne, NamesAssumption
  <2>4. Hook("bytes", "lines", s, f, out)  BY <1>7 DEF CountBytes
  <2> HIDE DEF s, f
  <2>5. HookStep("bytes", "lines", s, f, out)  BY <2>2, <2>3, <2>4 DEF HookStep, Inside
  <2> QED BY <2>5, IsHookStep
<1>8. CASE CountLine
  <2> DEFINE f == Inc(fields, "lines_read", 1)
  <2>1. f \in FieldsType /\ \A d \in Documents \ {bound} : f[d] = fields[d]
    BY CountsOne, NamesAssumption
  <2>2. Hook("lines", "decode", gen, f, out)  BY <1>8 DEF CountLine
  <2>3. gen \in States  BY <2>2, Inner DEF Hook
  <2> HIDE DEF f
  <2>4. HookStep("lines", "decode", gen, f, out)  BY <2>1, <2>2, <2>3 DEF HookStep, Inside
  <2> QED BY <2>4, IsHookStep
<1>9. CASE pc = "decode" /\ NotUtf8
  <2>1. Error("runtime").kind \in Results /\ Error("runtime").code \in Codes
    BY ResultTypes DEF Codes
  <2>2. HookStep("decode", "return", gen, fields, Error("runtime"))
    BY <1>9, <2>1, Inner, FieldsAsTheyAre DEF HookStep, NotUtf8, Returns, Inside
  <2> QED BY <2>2, IsHookStep
<1>10. CASE pc = "decode" /\ BlankLine
  <2> DEFINE f == Inc(fields, "empty_lines_skipped", 1)
  <2>1. f \in FieldsType /\ \A d \in Documents \ {bound} : f[d] = fields[d]
    BY CountsOne, NamesAssumption
  <2>2. Hook("decode", "read", gen, f, out)  BY <1>10 DEF BlankLine
  <2>3. gen \in States  BY <2>2, Inner DEF Hook
  <2> HIDE DEF f
  <2>4. HookStep("decode", "read", gen, f, out)  BY <2>1, <2>2, <2>3 DEF HookStep, Inside
  <2> QED BY <2>4, IsHookStep
<1>11. CASE pc = "decode" /\ ReturnDocument
  <2> DEFINE s == [gen EXCEPT !.returned = @ + 1]
             f == Inc(fields, "documents_returned", 1)
             r == Advanced([line |-> gen.line_no, text |-> Trimmed(gen.line)])
  <2>1. gen \in JsonlStates  BY <1>11, GenLine
  <2>2. s \in States  BY <2>1 DEF States, JsonlStates
  <2>3. f \in FieldsType /\ \A d \in Documents \ {bound} : f[d] = fields[d]
    BY CountsOne, NamesAssumption
  <2>4. r.kind \in Results /\ r.code \in Codes  BY ResultTypes
  <2>5. Hook("decode", "return", s, f, r)  BY <1>11 DEF ReturnDocument, Returns
  <2> HIDE DEF s, f, r
  <2>6. HookStep("decode", "return", s, f, r)
    BY <2>2, <2>3, <2>4, <2>5 DEF HookStep, Inside
  <2> QED BY <2>6, IsHookStep
<1>12. CASE pc = "decode" /\ NoDocument
  <2> DEFINE f == Inc(fields, "parse_errors", 1)
  <2>1. f \in FieldsType /\ \A d \in Documents \ {bound} : f[d] = fields[d]
    BY CountsOne, NamesAssumption
  <2>2. Error("runtime").kind \in Results /\ Error("runtime").code \in Codes
    BY ResultTypes DEF Codes
  <2>3. Hook("decode", "return", gen, f, Error("runtime"))  BY <1>12 DEF NoDocument, Returns
  <2>4. gen \in States  BY <2>3, Inner DEF Hook
  <2> HIDE DEF f
  <2>5. HookStep("decode", "return", gen, f, Error("runtime"))
    BY <2>1, <2>2, <2>3, <2>4 DEF HookStep, Inside
  <2> QED BY <2>5, IsHookStep
<1> QED
  BY <1>1, <1>2, <1>3, <1>4, <1>5, <1>6, <1>7, <1>8, <1>9, <1>10, <1>11, <1>12 DEF JsonlNext

(* A step of the model is a step of the context.                           *)
LEMMA Steps ==
  ASSUME ContextInv, InputInv, [Next]_vars
  PROVE  \/ OpensOn \/ OpenFails \/ HooksOn \/ Asks \/ Hears \/ InContext
         \/ Host \/ HostUpdates \/ UNCHANGED context
<1>1. CASE Thread
  BY <1>1, JsonlSteps, FibSteps, PerfSteps, LookupSteps, AnySteps DEF Thread
<1>2. CASE Elsewhere
  BY <1>2, CountsAssumption DEF Elsewhere, HostUpdates
<1>3. CASE UNCHANGED vars  BY <1>3 DEF vars
<1> QED BY <1>1, <1>2, <1>3 DEF Next

-----------------------------------------------------------------------------
(* The invariant of the context, one kind of step after the other.         *)
LEMMA Appended ==
  ASSUME NEW q, q \in Seq(Range(q)), NEW r
  PROVE  /\ Append(q, r) \in Seq(Range(Append(q, r)))
         /\ Len(q) \in Nat /\ Len(Append(q, r)) = Len(q) + 1
         /\ \A n \in 1..Len(q) : Append(q, r)[n] = q[n]
         /\ Append(q, r)[Len(q) + 1] = r
<1>1. q \in Seq(Range(q) \cup {r})
  <2>1. Len(q) \in Nat /\ DOMAIN q = 1..Len(q) /\ q = [i \in 1..Len(q) |-> q[i]]  OBVIOUS
  <2>2. \A i \in 1..Len(q) : q[i] \in Range(q) \cup {r}  BY <2>1 DEF Range
  <2> QED BY <2>1, <2>2
<1> DEFINE a == Append(q, r)
<1>2. /\ Len(q) \in Nat /\ a \in Seq(Range(q) \cup {r}) /\ Len(a) = Len(q) + 1
      /\ \A n \in 1..Len(q) : a[n] = q[n]
      /\ a[Len(q) + 1] = r
  BY <1>1
<1>3. a \in Seq(Range(a))
  <2> HIDE DEF a
  <2>1. Len(a) \in Nat /\ DOMAIN a = 1..Len(a) /\ a = [i \in 1..Len(a) |-> a[i]]  BY <1>2
  <2>2. \A i \in 1..Len(a) : a[i] \in Range(a)  BY <2>1 DEF Range
  <2> QED BY <2>1, <2>2
<1> QED BY <1>2, <1>3

LEMMA InitInv == Init => ContextInv /\ InputInv
<1> SUFFICES ASSUME Init  PROVE ContextInv /\ InputInv  OBVIOUS
<1> USE DEF Init, InitContext, InitMetrics
<1>1. FlowInv  BY DEF FlowInv, NoRow, Codes
<1>2. HandleInv
  <2>1. \A d \in Documents : d # NoDoc  BY DocumentAssumption
  <2>2. fields \in FieldsType  BY Numbers DEF FieldsType
  <2> QED BY <2>1, <2>2 DEF HandleInv, Unborn
<1>3. StatusInv  BY DEF StatusInv, Answers, NoAnswer, HostReturns, Codes, Waiting
<1>4. HistoryInv
  <2>1. << >> \in Seq(Range(<< >>)) /\ Len(<< >>) = 0  OBVIOUS
  <2>2. emitted = << >> /\ since = 0 /\ late = FALSE  OBVIOUS
  <2>3. 0 \in 0..0  OBVIOUS
  <2> HIDE DEF Init, InitContext, InitMetrics
  <2> QED BY <2>1, <2>2, <2>3, Zenon DEF HistoryInv
<1>5. InputInv
  <2>1. IsInput([options |-> options, path |-> path, limit |-> limit, file |-> file])
    <3>1. CASE stage = "jsonl"
      <4>1. PICK given \in Inputs : /\ options = given.options /\ path = given.path
                                    /\ limit = given.limit /\ file = given.file
        BY <3>1
      <4> QED BY <4>1, InputsAssumption DEF IsInput
    <3>2. CASE stage # "jsonl"
      <4>1. /\ options = NoOptions /\ path = << >> /\ limit = Unlimited /\ file = << >>
        BY <3>2 DEF NoInput
      <4>2. << >> \in Seq(STRING) /\ << >> \in Seq(Bytes) /\ Len(<< >>) = 0  OBVIOUS
      <4>3. 0 <= MaxInt  BY Widths
      <4>4. /\ options.root = << >> /\ options.symlinks = FALSE
            /\ options.line = -1 /\ options.document = -1
        BY <4>1 DEF NoOptions, Unset
      <4>5. limit \in Nat \cup {Unlimited}  BY <4>1
      <4>6. -1 \in Int  OBVIOUS
      <4> HIDE DEF Init, InitContext, InitMetrics
      <4> QED BY <4>1, <4>2, <4>3, <4>4, <4>5, <4>6 DEF IsInput
    <3> QED BY <3>1, <3>2
  <2>2. stage = "fibonacci" => args.n \in Int  BY CountsAssumption DEF FibArgs
  <2>3. stage = "perf" => args \in PerfRequests  OBVIOUS
  <2>4. stage = "lookup" => args \in LookupRequests  OBVIOUS
  <2>5. stage \in {"jsonl", "fibonacci", "perf", "lookup", "any"}  BY StagesAssumption
  <2> QED BY <2>1, <2>2, <2>3, <2>4, <2>5, PerfAssumption, LookupAssumption DEF InputInv
<1> QED BY <1>1, <1>2, <1>3, <1>4, <1>5 DEF ContextInv

LEMMA FlowKeeps ==
  ASSUME ContextInv, InputInv, [Next]_vars
  PROVE  FlowInv'
<1>0. States' = States  BY InputsStay
<1>1. CASE OpensOn
  BY <1>0, <1>1, NotNoState DEF OpensOn, Opens, CanPull, ContextInv, FlowInv, Inside
<1>2. CASE OpenFails
  BY <1>0, <1>2 DEF OpenFails, thread, ContextInv, FlowInv
<1>3. CASE HooksOn
  <2>1. PICK at, to, s, f, result : HookStep(at, to, s, f, result)
    BY <1>3, Zenon DEF HooksOn
  <2> QED BY <1>0, <2>1, NotNoState
          DEF HookStep, Hook, ContextInv, FlowInv, Inside
<1>4. CASE Asks
  BY <1>0, <1>4 DEF Asks, AskInterrupt, AskDeadline, ContextInv, FlowInv, Inside, Waiting
<1>5. CASE Hears
  <2>1. PICK to \in Inside \ {"return"}, s \in States : ReadInterrupt(to, s) \/ ReadDeadline(to)
    BY <1>5 DEF Hears
  <2>2. CASE ReadInterrupt(to, s)
    <3>1. answer.code \in Codes /\ s # NoState
      BY NotNoState DEF ContextInv, StatusInv, Answers, Codes
    <3>2. Error(Stored).kind \in Results /\ Error(Stored).code \in Codes
      BY <3>1, ResultTypes DEF Stored
    <3> QED BY <1>0, <2>1, <2>2, <3>1, <3>2
            DEF ReadInterrupt, ContextInv, FlowInv, Inside, Waiting
  <2>3. CASE ReadDeadline(to)
    <3>1. answer.code \in Codes
      BY DEF ContextInv, StatusInv, Answers, Codes
    <3>2. Error(answer.code).kind \in Results /\ Error(answer.code).code \in Codes
      BY <3>1, ResultTypes
    <3> QED BY <1>0, <2>1, <2>3, <3>2
            DEF ReadDeadline, ContextInv, FlowInv, Inside, Waiting
  <2> QED BY <2>1, <2>2, <2>3
<1>6. CASE InContext
  <2>1. CASE BeginNext
    BY <1>0, <2>1 DEF BeginNext, CanPull, ContextInv, FlowInv, Inside
  <2>2. CASE HostAnswersInterrupt
    BY <1>0, <2>2 DEF HostAnswersInterrupt, ContextInv, FlowInv, Inside, Waiting
  <2>3. CASE EndNext
    BY <1>0, <2>3 DEF EndNext, ContextInv, FlowInv, NoRow, Codes
  <2> QED BY <1>6, <2>1, <2>2, <2>3 DEF InContext
<1>7. CASE Host
  <2>1. CASE UNCHANGED thread  BY <1>0, <2>1 DEF thread, ContextInv, FlowInv
  <2>2. CASE DestroyExecutor  BY <1>0, <2>2 DEF DestroyExecutor, ContextInv, FlowInv
  <2> QED BY <1>7, <2>1, <2>2
          DEF Host, Interrupt, ReleaseStatus, HostCreatesMetrics, HostDestroysMetrics
<1>8. CASE HostUpdates
  BY <1>0, <1>8 DEF HostUpdates, HostUpdatesMetrics, thread, ContextInv, FlowInv
<1>9. CASE UNCHANGED context
  BY <1>0, <1>9 DEF context, thread, ContextInv, FlowInv
<1> QED BY <1>1, <1>2, <1>3, <1>4, <1>5, <1>6, <1>7, <1>8, <1>9, Steps

LEMMA HandlesKeep ==
  ASSUME ContextInv, InputInv, [Next]_vars
  PROVE  HandleInv'
<1> USE DEF ContextInv, FlowInv, HandleInv
<1>0. \A d \in Documents : d # NoDoc  BY DocumentAssumption
<1>1. CASE OpensOn
  BY <1>1 DEF OpensOn, Opens, CanPull, metrics, Handles
<1>2. CASE OpenFails
  BY <1>2 DEF OpenFails, thread, metrics, Handles
<1>3. CASE HooksOn
  <2>1. PICK at, to, s, f, result : HookStep(at, to, s, f, result)
    BY <1>3, Zenon DEF HooksOn
  <2> QED BY <2>1 DEF HookStep, Hook, Inside, Handles
<1>4. CASE Asks
  BY <1>4 DEF Asks, AskInterrupt, AskDeadline, Inside, Waiting, metrics, Handles
<1>5. CASE Hears
  BY <1>5 DEF Hears, ReadInterrupt, ReadDeadline, Inside, Waiting, metrics, Handles
<1>6. CASE InContext
  <2>1. CASE BeginNext
    BY <1>0, <2>1 DEF BeginNext, CanPull, BindMetrics, Bound, Handles, One, Unborn
  <2>2. CASE HostAnswersInterrupt
    BY <2>2 DEF HostAnswersInterrupt, Waiting, metrics, Handles
  <2>3. CASE EndNext
    BY <1>0, <2>3 DEF EndNext, UnbindMetrics, Dropped, Handles, One, Unborn
  <2> QED BY <1>6, <2>1, <2>2, <2>3 DEF InContext
<1>7. CASE Host
  <2>1. CASE Interrupt \/ ReleaseStatus
    BY <2>1 DEF Interrupt, ReleaseStatus, thread, metrics, Handles
  <2>2. CASE HostCreatesMetrics
    <3>1. PICK d \in Documents :
            /\ strong[d] = Unborn
            /\ strong' = [Dropped(strong, execDoc) EXCEPT ![d] = NewHandles]
            /\ objects' = objects \cup {d} /\ execDoc' = d
            /\ fields' = fields /\ bound' = bound
      BY <2>2 DEF HostCreatesMetrics, CreateMetrics, Replacement
    <3>2. bound = NoDoc /\ pc' = pc  BY <2>2 DEF HostCreatesMetrics, thread
    <3>3. d \notin objects /\ d # execDoc /\ d # NoDoc  BY <1>0, <3>1
    <3>4. strong'[d] = NewHandles /\ Handles(d)' = 2
      BY <1>0, <3>1, <3>2 DEF Dropped, Handles, One
    <3>5. ASSUME NEW e \in Documents \ {d}
          PROVE  /\ strong'[e] = IF e = execDoc THEN strong[e] - 1 ELSE strong[e]
                 /\ Handles(e)' = One(e \in objects)
                 /\ Handles(e) = One(e \in objects) + One(execDoc = e)
      BY <1>0, <3>1, <3>2 DEF Dropped, Handles, One
    <3>6. strong' \in [Documents -> Int]  BY <3>1 DEF Dropped, NewHandles
    <3>7. ASSUME NEW e \in Documents
          PROVE  IF strong'[e] = Unborn
                 THEN e \notin objects' /\ e # execDoc' /\ fields'[e] = [k \in Keys |-> Absent]
                 ELSE strong'[e] = Handles(e)'
      BY <3>1, <3>3, <3>4, <3>5 DEF NewHandles, One, Unborn
    <3>8. /\ fields' \in FieldsType /\ objects' \subseteq Documents
          /\ {execDoc', bound'} \subseteq Documents \cup {NoDoc}
          /\ bound' = IF pc' \in {"idle", "opened"} THEN NoDoc ELSE execDoc'
      BY <2>2, <3>1, <3>2 DEF HostCreatesMetrics
    <3> QED BY <3>6, <3>7, <3>8, Zenon
  <2>3. CASE HostDestroysMetrics
    BY <1>0, <2>3 DEF HostDestroysMetrics, DestroyMetrics, thread, Dropped, Handles, One, Unborn
  <2>4. CASE DestroyExecutor
    BY <1>0, <2>4 DEF DestroyExecutor, ForgetMetrics, Dropped, Handles, One, Unborn
  <2> QED BY <1>7, <2>1, <2>2, <2>3, <2>4 DEF Host
<1>8. CASE HostUpdates
  <2>1. PICK v \in Values : UpdateMetrics("rows", v) /\ UNCHANGED thread
    BY <1>8 DEF HostUpdates, HostUpdatesMetrics
  <2> QED BY <2>1, NamesAssumption DEF UpdateMetrics, Patched, FieldsType, thread, Handles
<1>9. CASE UNCHANGED context
  BY <1>9 DEF context, thread, metrics, Handles
<1> QED BY <1>1, <1>2, <1>3, <1>4, <1>5, <1>6, <1>7, <1>8, <1>9, Steps

LEMMA NoAnswers == NoAnswer \in Answers /\ NoAnswer.ret = "null"
  BY DEF NoAnswer, Answers, HostReturns

LEMMA StatusesKeep ==
  ASSUME ContextInv, InputInv, [Next]_vars
  PROVE  StatusInv'
<1> USE DEF ContextInv, FlowInv, StatusInv
<1>1. CASE OpensOn
  BY <1>1 DEF OpensOn, Opens, CanPull, statuses
<1>2. CASE OpenFails
  BY <1>2 DEF OpenFails, CanPull, thread, Codes
<1>3. CASE HooksOn
  <2>1. PICK at, to, s, f, result : HookStep(at, to, s, f, result)
    BY <1>3, Zenon DEF HooksOn
  <2> QED BY <2>1 DEF HookStep, Hook, Inside, statuses
<1>4. CASE Asks
  <2>1. PICK at, to \in Inside \ {"return"} : AskInterrupt(at, to) \/ AskDeadline(at, to)
    BY <1>4 DEF Asks
  <2>2. CASE AskInterrupt(at, to)
    BY <2>1, <2>2 DEF AskInterrupt, Inside
  <2>3. CASE AskDeadline(at, to)
    <3>1. CASE withHost
      <4>1. PICK ret \in HostReturns :
              /\ answer' = [ret |-> ret, code |-> IF ret = "asked" THEN "failed" ELSE "ok"]
              /\ heap' = heap \cup ({ret} \cap {"asked"})
        BY <2>3, <3>1 DEF AskDeadline
      <4>2. /\ pc' = "deadline!" /\ reported' = reported /\ killed' = killed
            /\ heap = {}
        BY <2>1, <2>3, <3>1 DEF AskDeadline, Inside
      <4>3. /\ answer'.ret = ret
            /\ answer' \in Answers
        BY <4>1 DEF Answers
      <4> QED BY <4>1, <4>2, <4>3
    <3>2. CASE ~withHost
      BY <2>1, <2>3, <3>2 DEF AskDeadline, Inside, statuses
    <3> QED BY <3>1, <3>2
  <2> QED BY <2>1, <2>2, <2>3
<1>5. CASE Hears
  <2>1. PICK to \in Inside \ {"return"}, s \in States : ReadInterrupt(to, s) \/ ReadDeadline(to)
    BY <1>5 DEF Hears
  <2>2. CASE ReadInterrupt(to, s)
    BY <2>1, <2>2, NoAnswers DEF ReadInterrupt, Inside, ReturnDestroyed
  <2>3. CASE ReadDeadline(to)
    BY <2>1, <2>3, NoAnswers DEF ReadDeadline, Inside, ReturnDestroyed
  <2> QED BY <2>1, <2>2, <2>3
<1>6. CASE InContext
  <2>1. CASE BeginNext
    BY <2>1 DEF BeginNext, CanPull, statuses
  <2>2. CASE HostAnswersInterrupt
    <3>1. PICK ret \in HostReturns :
            /\ answer' = [ret |-> ret, code |-> IF killed THEN "interrupted" ELSE "ok"]
            /\ heap' = heap \cup ({ret} \cap {"asked"})
      BY <2>2 DEF HostAnswersInterrupt, ReasonResult
    <3>2. heap = {"own"} /\ pc' = "interrupt!" /\ reported' = reported /\ killed' = killed
      BY <2>2 DEF HostAnswersInterrupt
    <3>3. /\ answer'.ret = ret
          /\ answer' \in Answers
      BY <3>1 DEF Answers
    <3> QED BY <3>1, <3>2, <3>3
  <2>3. CASE EndNext
    <3>1. /\ pc = "return" /\ pc' = "idle" /\ answer' = answer /\ killed' = killed
          /\ heap' \in {heap, heap \cup {"reply"}} /\ reported' \in {reported, out.code}
      BY <2>3 DEF EndNext, into_raw_status, status_code
    <3> QED BY <3>1
  <2> QED BY <1>6, <2>1, <2>2, <2>3 DEF InContext
<1>7. CASE Host
  BY <1>7 DEF Host, Interrupt, ReleaseStatus, HostCreatesMetrics, HostDestroysMetrics,
              DestroyExecutor, thread, statuses, Codes
<1>8. CASE HostUpdates
  BY <1>8 DEF HostUpdates, HostUpdatesMetrics, thread, statuses
<1>9. CASE UNCHANGED context
  BY <1>9 DEF context, thread, statuses
<1> QED BY <1>1, <1>2, <1>3, <1>4, <1>5, <1>6, <1>7, <1>8, <1>9, Steps

LEMMA HistoryKeeps ==
  ASSUME ContextInv, InputInv, [Next]_vars
  PROVE  HistoryInv'
<1> USE DEF ContextInv, HistoryInv
<1>0. Len(emitted) \in Nat  OBVIOUS
<1>1. CASE UNCHANGED history  BY <1>1 DEF history
<1>2. CASE BeginNext
  BY <1>2 DEF BeginNext, FlowInv, StatusInv
<1>3. CASE EndNext
  <2> DEFINE a == Append(emitted, out.row)
  <2>1. a \in Seq(Range(a)) /\ Len(a) = Len(emitted) + 1  BY Appended
  <2>2. emitted' = emitted \/ emitted' = a  BY <1>3 DEF EndNext
  <2> HIDE DEF a
  <2>3. since' = since /\ late' = late  BY <1>3 DEF EndNext
  <2>4. CASE emitted' = emitted  BY <2>3, <2>4
  <2>5. CASE emitted' = a
    <3>1. emitted' \in Seq(Range(emitted')) /\ Len(emitted') = Len(emitted) + 1  BY <2>1, <2>5
    <3>2. since' \in 0..Len(emitted')  BY <1>0, <2>3, <3>1
    <3> QED BY <2>3, <3>1, <3>2
  <2> QED BY <2>2, <2>4, <2>5
<1>4. CASE HostCreatesMetrics
  BY <1>0, <1>4 DEF HostCreatesMetrics
<1>5. OpensOn \/ OpenFails \/ HooksOn \/ Asks \/ Hears \/ HostAnswersInterrupt \/ HostUpdates
      \/ Interrupt \/ ReleaseStatus \/ HostDestroysMetrics \/ DestroyExecutor
      \/ UNCHANGED context
      => UNCHANGED history
  BY Zenon DEF OpensOn, Opens, OpenFails, HooksOn, HookStep, Hook, Asks, AskInterrupt, AskDeadline,
         Hears, ReadInterrupt, ReadDeadline, HostAnswersInterrupt, HostUpdates,
         HostUpdatesMetrics, Interrupt, ReleaseStatus, HostDestroysMetrics,
         DestroyExecutor, context
<1> QED BY <1>1, <1>2, <1>3, <1>4, <1>5, Steps DEF Host, InContext

(* What every proof below starts from.                                     *)
THEOREM ContextKeeps == Spec => [](ContextInv /\ InputInv)
<1>1. Init => ContextInv /\ InputInv  BY InitInv
<1>2. ContextInv /\ InputInv /\ [Next]_vars => (ContextInv /\ InputInv)'
  <2> SUFFICES ASSUME ContextInv, InputInv, [Next]_vars  PROVE (ContextInv /\ InputInv)'
    OBVIOUS
  <2> QED BY FlowKeeps, HandlesKeep, StatusesKeep, HistoryKeeps, InputsStay DEF ContextInv
<1> QED BY <1>1, <1>2, PTL DEF Spec

(* Every metrics document has as many handles counted as are held: by the  *)
(* host, by the executor that made it, by the context of a pull.           *)
THEOREM HandlesMatch == Spec => []HandlesCounted
<1>1. ContextInv => HandlesCounted
  BY DEF ContextInv, HandleInv, HandlesCounted
<1> QED BY <1>1, ContextKeeps, PTL

(* A hook finds the status objects that it is about to read, and between   *)
(* pulls only the reply to the host is left.                               *)
THEOREM StatusesMatch == Spec => []StatusesOwned
<1>1. ContextInv => StatusesOwned
  BY DEF ContextInv, StatusInv, StatusesOwned
<1> QED BY <1>1, ContextKeeps, PTL

-----------------------------------------------------------------------------
(* A pull of the fixture that begins interrupted: it goes no further than  *)
(* its first question, and its error is the interruption.                  *)
LateInv ==
    stage = "perf" /\ late =>
        /\ killed
        /\ gen # NoState \/ ~alive
        /\ pc \in {"idle", "next", "interrupt?", "interrupt!", "return"}
        /\ pc \in {"next", "interrupt?"} => withHost
        /\ pc = "interrupt!" => answer.code = "interrupted"
        /\ pc = "return" => out = Error("interrupted")
        /\ "reply" \in heap => reported = "interrupted"

LEMMA LateKeeps ==
  ASSUME ContextInv, InputInv, LateInv, [Next]_vars
  PROVE  LateInv'
<1> SUFFICES ASSUME stage = "perf"  PROVE LateInv'
  BY InputsStay DEF LateInv
<1>1. CASE PerfNext
  <2>1. CASE PerfOpen
    BY <2>1 DEF PerfOpen, Opens, OpenFails, CanPull, LateInv, history, statuses, thread,
                ContextInv, FlowInv
  <2>2. CASE PerfAsks
    BY <2>2 DEF PerfAsks, AskInterrupt, LateInv, history
  <2>3. CASE PerfHears
    <3>1. gen # NoState /\ Rested # NoState
      <4>1. gen \in PerfStates  BY <2>3, Inner DEF States, PerfHears
      <4> QED BY <4>1 DEF PerfStates, Rested, NoState
    <3>2. late' = late /\ killed' = killed /\ alive' = alive /\ reported' = reported
          /\ ("reply" \in heap' => "reply" \in heap)
      BY <2>3 DEF PerfHears, ReadInterrupt, history
    <3>3. late => pc' = "return" /\ out' = Error("interrupted") /\ gen' = Rested
      BY <2>3 DEF PerfHears, ReadInterrupt, LateInv, Stored
    <3> QED BY <3>1, <3>2, <3>3 DEF LateInv
  <2>4. CASE \/ pc = "row" /\ (PerfEof \/ PerfPanics \/ PerfFails \/ PerfWaits)
             \/ pc = "wait" /\ (PerfSleep \/ PerfRow)
             \/ PerfAsksAgain
    BY <2>4 DEF PerfEof, PerfPanics, PerfFails, PerfWaits, PerfSleep, PerfRow, PerfAsksAgain,
                Returns, Hook, AskInterrupt, LateInv, history
  <2> QED BY <1>1, <2>1, <2>2, <2>3, <2>4 DEF PerfNext
<1>2. CASE BeginNext
  <2>1. pc' = "next" /\ (late' <=> killed /\ withHost') /\ killed' = killed
    BY <1>2 DEF BeginNext
  <2>2. gen' = gen /\ gen # NoState /\ heap' = heap /\ "reply" \notin heap
    BY <1>2 DEF BeginNext, CanPull, ContextInv, FlowInv, StatusInv, statuses
  <2> QED BY <2>1, <2>2 DEF LateInv
<1>3. CASE HostAnswersInterrupt
  <2>1. late' = late /\ killed' = killed /\ alive' = alive /\ gen' = gen
        /\ reported' = reported /\ pc = "interrupt?" /\ pc' = "interrupt!"
        /\ ("reply" \in heap' => "reply" \in heap)
        /\ (killed => answer'.code = "interrupted")
    BY <1>3 DEF HostAnswersInterrupt, history
  <2> QED BY <2>1 DEF LateInv
<1>4. CASE EndNext
  <2>1. late => out.kind = "error" /\ out.code = "interrupted"
    BY <1>4 DEF EndNext, LateInv, Error, NoRow
  <2>2. late => gen' = gen /\ reported' = "interrupted"
    BY <1>4, <2>1 DEF EndNext, into_raw_status, Failed, status_code
  <2> QED BY <1>4, <2>2 DEF EndNext, LateInv
<1>5. CASE Host
  BY <1>5 DEF Host, Interrupt, ReleaseStatus, HostCreatesMetrics, HostDestroysMetrics,
              DestroyExecutor, thread, statuses, history, LateInv
<1>6. CASE UNCHANGED context
  BY <1>6 DEF context, thread, statuses, history, LateInv
<1> QED BY <1>1, <1>2, <1>3, <1>4, <1>5, <1>6
        DEF Next, Thread, Elsewhere, InContext, vars

(* A pull of the fixture that begins with the operation interrupted gives  *)
(* neither row nor end, and the host finds its own code in the error.      *)
THEOREM LatePullsFail == Spec => []InterruptedPullsFail
<1>1. Init => LateInv  BY DEF Init, InitContext, LateInv
<1>2. ContextInv /\ InputInv /\ LateInv /\ [Next]_vars => LateInv'  BY LateKeeps
<1>3. ContextInv /\ LateInv => InterruptedPullsFail
  <2>1. NoRow.kind = "none" /\ Error("interrupted").kind = "error"  BY DEF NoRow, Error
  <2> QED BY <2>1 DEF LateInv, InterruptedPullsFail, ContextInv, FlowInv
<1> QED BY <1>1, <1>2, <1>3, ContextKeeps, PTL DEF Spec

-----------------------------------------------------------------------------
(* The rows so far, with the one that a hook has just returned; whether    *)
(* the end was; and an executor that no open hook has given a state.       *)
Rows  == IF pc = "return" /\ out.kind = "advanced" THEN Append(emitted, out.row) ELSE emitted
Ended == done \/ (pc = "return" /\ out.kind = "eof")
Fresh == gen = NoState /\ ~done /\ alive

Empty == [k \in Keys |-> Absent]

FreshInv ==
    stage # "any" /\ Fresh => Rows = << >> /\ \A d \in Documents : fields[d] = Empty

(* The executor's document counts the rows since it was made.              *)
Counting == stage \in {"jsonl", "fibonacci", "perf"}

CountInv == Counting /\ execDoc # NoDoc => Count(execDoc, RowsCounted) = Len(Rows) - since

(* How far a stage is.                                                     *)
FibInv ==
    stage = "fibonacci" /\ gen # NoState =>
        args.n >= 0 /\ gen.i <= gen.n /\ gen.i = Len(Rows)

PerfInv ==
    stage = "perf" /\ gen # NoState =>
        /\ PerfAccepts
        /\ gen.next <= gen.config.rows /\ gen.next = Len(Rows)
        /\ gen.slept <= gen.config.delay
        /\ pc \in {"wait", "slept"} \/ gen.slept > 0 => gen.next < gen.config.rows

LookupInv ==
    stage = "lookup" /\ gen # NoState =>
        /\ args.catalog = "router"
        /\ Len(Rows) + Len(gen.pending) = Len(args.candidates)
        /\ \A n \in 1..Len(gen.pending) : gen.pending[n] = args.candidates[Len(Rows) + n]

(* Of a line that was read, the reader is past the newline; then the line  *)
(* is counted by the stage, and then in the document.                      *)
Holding == {"bytes", "lines", "decode"}

JsonlInv ==
    stage = "jsonl" /\ gen # NoState =>
        /\ pc \in {"idle", "opened", "next", "read", "return"} \cup Holding
        /\ gen.line_no + One(pc = "bytes") <= gen.at
        /\ gen.returned + One(pc \in Holding) <= gen.line_no + One(pc = "bytes")
        /\ gen.returned = Len(Rows)
        /\ Resolves(Config(options))
        /\ pc \in Holding => gen.line \in Seq(Bytes \ {"n"})

Outcomes(d) ==
    Count(d, "documents_returned") + Count(d, "empty_lines_skipped") + Count(d, "parse_errors")

LinesInv ==
    stage = "jsonl" => \A d \in Documents :
        /\ Count(d, "documents_returned") >= 0 /\ Count(d, "empty_lines_skipped") >= 0
        /\ Count(d, "parse_errors") >= 0
        /\ Outcomes(d) + One(pc = "decode" /\ bound = d) <= Count(d, "lines_read")
        /\ gen # NoState => Count(d, "lines_read") + One(pc = "lines") <= gen.line_no

(* Lines that begin before a position; in the midst of a line whose        *)
(* beginning was given up, one of them is not counted.                     *)
Behind(p) == Cardinality({s \in Starts : s < p})

PlaceInv ==
    stage = "jsonl" /\ gen # NoState =>
        /\ gen.line_no + One(pc = "bytes") <= Behind(gen.at)
        /\ gen.at \notin Starts /\ gen.at < Len(file) =>
             gen.line_no + One(pc = "bytes") < Behind(gen.at)

(* Without lines that are too long, the lines are read one after the other.*)
Decided == (gen.line_no + One(pc = "bytes")) - One(pc \in Holding)

UpTo(k) == {j \in DocumentLines : j <= k}

Open == limit = Unlimited \/ gen.returned < limit

LineInv ==
    stage = "jsonl" /\ gen # NoState /\ NoLongLine =>
        /\ gen.at \in Starts \cup {Len(file)}
        /\ gen.line_no + One(pc = "bytes") = Behind(gen.at)
        /\ pc \in Holding => gen.line = Lines[Behind(gen.at)]
        /\ gen.returned = Cardinality(UpTo(Decided))
        /\ pc \in {"read"} \cup Holding => Open
        /\ limit # Unlimited => gen.returned <= limit

(* The rows are those asked for.                                           *)
MatchInv ==
    stage # "any" /\ (stage = "jsonl" => NoLongLine) =>
        /\ Len(Rows) <= Len(Expected)
        /\ \A n \in 1..Len(Rows) : Rows[n] = Expected[n]
        /\ Ended => Len(Rows) = Len(Expected)

NumbersInv ==
    stage = "fibonacci" /\ gen # NoState =>
        /\ gen.a = Clip(Fibonacci[gen.i])
        /\ gen.n > 0 => gen.b = Clip(Fibonacci[gen.i + 1])

RowInv == \A n \in 1..Len(Rows) : Rows[n] \in Row

-----------------------------------------------------------------------------
(* Steps that leave a stage's rows, state and documents alone.             *)
Still ==
    \/ OpenFails \/ InContext \/ Host \/ UNCHANGED context
    \/ stage = "perf" /\ (PerfAsks \/ PerfAsksAgain \/ PerfHears)

Reading == {"read"} \cup Holding

LEMMA StageSteps ==
  ASSUME [Next]_vars, stage # "any"
  PROVE  \/ Still
         \/ stage = "jsonl" /\ JsonlNext
         \/ stage = "fibonacci" /\ FibNext
         \/ stage = "lookup" /\ LookupNext
         \/ /\ stage = "perf"
            /\ \/ PerfOpen
               \/ pc = "row" /\ (PerfEof \/ PerfPanics \/ PerfFails \/ PerfWaits)
               \/ pc = "wait" /\ (PerfSleep \/ PerfRow)
  BY DEF Next, Thread, Elsewhere, vars, Still, PerfNext

LEMMA RowsType ==
  ASSUME ContextInv
  PROVE  /\ emitted \in Seq(Range(emitted)) /\ Len(emitted) \in Nat /\ since \in 0..Len(emitted)
         /\ Rows \in Seq(Range(Rows)) /\ Len(Rows) \in Nat /\ since <= Len(Rows)
<1>1. emitted \in Seq(Range(emitted)) /\ Len(emitted) \in Nat /\ since \in 0..Len(emitted)
  BY DEF ContextInv, HistoryInv
<1> DEFINE a == Append(emitted, out.row)
<1>2. a \in Seq(Range(a)) /\ Len(a) = Len(emitted) + 1  BY <1>1, Appended
<1>3. Rows = emitted \/ Rows = a  BY DEF Rows
<1> HIDE DEF a
<1>4. CASE Rows = emitted  BY <1>1, <1>4
<1>5. CASE Rows = a  BY <1>1, <1>2, <1>5
<1> QED BY <1>3, <1>4, <1>5

LEMMA StillKeeps ==
  ASSUME ContextInv, InputInv, stage # "any", Still
  PROVE  /\ Rows' = Rows /\ (Ended' <=> Ended) /\ fields' = fields
         /\ gen' = gen \/ gen' = NoState \/ (stage = "perf" /\ gen # NoState /\ gen' = Rested)
         /\ Fresh' => Fresh
         /\ stage # "perf" => (pc' \in Reading <=> pc \in Reading)
                              /\ (pc \in Reading => pc' = pc)
         /\ pc' \in Reading \cup {"wait", "slept"} => bound' = bound
         /\ stage = "perf" /\ pc' \in {"wait", "slept"} =>
              pc \in {"wait", "slept"} \/ gen.slept # 0
         /\ stage = "jsonl" /\ gen # NoState /\ pc # "interrupt?" =>
              pc' \in {pc, "idle", "opened", "next"}
<1> USE DEF ContextInv, FlowInv
<1>1. CASE OpenFails
  BY <1>1 DEF OpenFails, CanPull, thread, metrics, history, Rows, Ended, Fresh, Reading, Holding
<1>2. CASE InContext
  <2>1. CASE BeginNext
    BY <2>1 DEF BeginNext, CanPull, Rows, Ended, Fresh, Reading, Holding
  <2>2. CASE HostAnswersInterrupt
    BY <2>2 DEF HostAnswersInterrupt, metrics, history, Rows, Ended, Fresh, Reading, Holding
  <2>3. CASE EndNext
    <3>1. Rows' = Rows  BY <2>3 DEF EndNext, Rows
    <3>2. Ended' <=> Ended  BY <2>3 DEF EndNext, Ended
    <3> QED BY <2>3, <3>1, <3>2 DEF EndNext, Fresh, Reading, Holding
  <2> QED BY <1>2, <2>1, <2>2, <2>3 DEF InContext
<1>3. CASE Host
  <2>1. CASE Interrupt \/ ReleaseStatus
    BY <2>1 DEF Interrupt, ReleaseStatus, thread, metrics, history, Rows, Ended, Fresh,
                Reading, Holding
  <2>2. CASE HostCreatesMetrics \/ HostDestroysMetrics
    BY <2>2 DEF HostCreatesMetrics, CreateMetrics, HostDestroysMetrics, DestroyMetrics,
                thread, history, Rows, Ended, Fresh, Reading, Holding
  <2>3. CASE DestroyExecutor
    BY <2>3 DEF DestroyExecutor, history, Rows, Ended, Fresh, Reading, Holding
  <2> QED BY <1>3, <2>1, <2>2, <2>3 DEF Host
<1>4. CASE UNCHANGED context
  BY <1>4 DEF context, thread, metrics, history, Rows, Ended, Fresh, Reading, Holding
<1>5. CASE stage = "perf" /\ (PerfAsks \/ PerfAsksAgain \/ PerfHears)
  <2>1. CASE PerfAsks \/ PerfAsksAgain
    BY <1>5, <2>1 DEF PerfAsks, PerfAsksAgain, AskInterrupt, metrics, history, Rows, Ended,
                      Fresh
  <2>2. CASE PerfHears
    <3>1. Error(Stored).kind = "error"  BY DEF Error, NoRow
    <3>2. pc = "interrupt!" /\ gen # NoState  BY <2>2 DEF PerfHears, ReadInterrupt
    <3>3. UNCHANGED <<fields, bound, done, emitted>>
      BY <2>2 DEF PerfHears, ReadInterrupt, metrics, history
    <3>4. \/ pc' \in {"row", "wait"} /\ UNCHANGED <<out, gen>>
          \/ pc' = "return" /\ out' = Error(Stored) /\ gen' = Rested
      BY <2>2 DEF PerfHears, ReadInterrupt
    <3>5. Rested # NoState
      <4>1. gen \in PerfStates  BY <1>5, <3>2, Inner DEF States
      <4> QED BY <4>1 DEF PerfStates, Rested, NoState
    <3>6. pc' = "wait" => gen.slept # 0
      BY <2>2 DEF PerfHears, ReadInterrupt
    <3> QED BY <1>5, <3>1, <3>2, <3>3, <3>4, <3>5, <3>6 DEF Rows, Ended, Fresh
  <2> QED BY <1>5, <2>1, <2>2
<1> QED BY <1>1, <1>2, <1>3, <1>4, <1>5 DEF Still

(* What a hook's step does to the rows.                                    *)
LEMMA HookRows ==
  ASSUME ContextInv, NEW at, NEW to, NEW s, NEW f, NEW result,
         Hook(at, to, s, f, result), at \notin {"idle", "return"}
  PROVE  /\ gen' = s /\ fields' = f /\ pc = at /\ pc' = to
         /\ ~done /\ ~done' /\ gen # NoState
         /\ execDoc' = execDoc /\ bound' = bound /\ since' = since
         /\ to # "return" \/ result.kind # "advanced" => Rows' = Rows
         /\ to = "return" /\ result.kind = "advanced" =>
              /\ Rows' = Append(Rows, result.row) /\ Len(Rows') = Len(Rows) + 1
              /\ Rows'[Len(Rows) + 1] = result.row
              /\ \A n \in 1..Len(Rows) : Rows'[n] = Rows[n]
         /\ Ended' <=> to = "return" /\ result.kind = "eof"
<1>1. Rows = emitted /\ emitted' = emitted /\ done' = done /\ ~done /\ gen # NoState
  BY DEF Hook, Rows, history, ContextInv, FlowInv
<1>2. gen' = s /\ fields' = f /\ pc = at /\ pc' = to /\ out' = result
      /\ execDoc' = execDoc /\ bound' = bound /\ since' = since
  BY DEF Hook, history
<1>3. to # "return" \/ result.kind # "advanced" => Rows' = Rows
  BY <1>1, <1>2 DEF Rows
<1>4. ASSUME to = "return" /\ result.kind = "advanced"
      PROVE  Rows' = Append(Rows, result.row)
  BY <1>1, <1>2, <1>4 DEF Rows
<1>5. Ended' <=> to = "return" /\ result.kind = "eof"
  BY <1>1, <1>2 DEF Ended
<1> QED BY <1>1, <1>2, <1>3, <1>4, <1>5, Appended, RowsType

LEMMA OpenRows ==
  ASSUME ContextInv, NEW s, Opens(s)
  PROVE  /\ Fresh /\ gen' = s /\ fields' = fields /\ pc = "idle" /\ pc' = "opened"
         /\ ~done' /\ Rows' = Rows /\ ~Ended'
         /\ execDoc' = execDoc /\ bound' = bound /\ since' = since
  BY DEF Opens, CanPull, metrics, history, Fresh, Rows, Ended, ContextInv, FlowInv

LEMMA ResultKinds ==
  /\ Eof.kind = "eof" /\ Panic.kind = "panic" /\ NoRow.kind = "none"
  /\ \A c : Error(c).kind = "error"
  /\ \A r : Advanced(r).kind = "advanced" /\ Advanced(r).row = r
  BY DEF Eof, Panic, Error, Advanced, NoRow

-----------------------------------------------------------------------------
(* How far a stage is.                                                     *)
LEMMA FreshKeeps ==
  ASSUME ContextInv, InputInv, FreshInv, [Next]_vars
  PROVE  FreshInv'
<1> SUFFICES ASSUME stage # "any", Fresh'
             PROVE  Rows' = << >> /\ \A d \in Documents : fields'[d] = Empty
  BY InputsStay DEF FreshInv, Empty
<1>1. CASE Still
  BY <1>1, StillKeeps DEF FreshInv
<1>2. CASE OpensOn
  BY <1>2, OpenRows, NotNoState DEF OpensOn, Fresh
<1>3. CASE HooksOn
  <2>1. PICK at, to, s, f, result : HookStep(at, to, s, f, result)
    BY <1>3, Zenon DEF HooksOn
  <2>2. gen' = s /\ s \in States  BY <2>1 DEF HookStep, Hook
  <2> QED BY <2>2, NotNoState DEF Fresh
<1>4. OpenFails => Still  BY DEF Still
<1>5. stage = "perf" /\ PerfNext => Still \/ OpensOn \/ HooksOn
  <2>1. Asks => gen' = gen /\ gen # NoState
    BY DEF Asks, AskInterrupt, AskDeadline, Inside, ContextInv, FlowInv
  <2>2. Hears => gen' # NoState
    BY NotNoState DEF Hears, ReadInterrupt, ReadDeadline, ContextInv, FlowInv
  <2> QED BY <1>4, <2>1, <2>2, PerfSteps DEF Fresh
<1> QED
  BY <1>1, <1>2, <1>3, <1>4, <1>5, StageSteps, JsonlSteps, FibSteps, LookupSteps
  DEF PerfNext

LEMMA FibKeeps ==
  ASSUME ContextInv, InputInv, FreshInv, FibInv, [Next]_vars
  PROVE  FibInv'
<1> SUFFICES ASSUME stage = "fibonacci", gen' # NoState
             PROVE  args.n >= 0 /\ gen'.i <= gen'.n /\ gen'.i = Len(Rows')
  BY InputsStay DEF FibInv
<1>0. Len(Rows) \in Nat /\ (gen # NoState => gen \in FibStates)
  BY RowsType DEF ContextInv, FlowInv, States
<1>1. CASE Still
  BY <1>1, StillKeeps DEF FibInv
<1>2. CASE FibOpen
  <2>1. Opens([stage |-> "fibonacci", i |-> 0, n |-> Capped(args.n), a |-> 0,
                b |-> IF args.n = 0 THEN 0 ELSE 1]) \/ OpenFails
    BY <1>2 DEF FibOpen
  <2>2. CASE OpenFails  BY <1>1, <2>2 DEF Still
  <2>3. CASE ~OpenFails
    <3>1. args.n >= 0  BY <1>2, <2>3, CappedFits DEF FibOpen, InputInv
    <3>2. Fresh /\ Rows' = Rows /\ gen'.i = 0 /\ gen'.n = Capped(args.n)
      BY <2>1, <2>3, OpenRows
    <3>3. Rows = << >>  BY <3>2 DEF FreshInv
    <3> QED BY <3>1, <3>2, <3>3, CappedFits
  <2> QED BY <2>2, <2>3
<1>3. CASE pc = "next" /\ FibEof
  <2>1. Hook("next", "return", gen, fields, Eof)  BY <1>3 DEF FibEof, Returns
  <2>2. gen' = gen /\ Rows' = Rows  BY <2>1, HookRows, ResultKinds
  <2> QED BY <2>2 DEF FibInv
<1>4. CASE pc = "next" /\ FibRow
  <2> DEFINE s == [gen EXCEPT !.i = @ + 1, !.a = gen.b, !.b = Sum2(gen.a, gen.b)]
             r == Advanced([i |-> gen.i, value |-> gen.a])
  <2>1. Hook("next", "return", s, Inc(fields, "rows_out", 1), r)
    BY <1>4 DEF FibRow, Returns
  <2>2. r.kind = "advanced"  BY ResultKinds
  <2>3. gen' = s /\ gen # NoState  BY <2>1, HookRows
  <2>4. gen'.i = gen.i + 1 /\ gen'.n = gen.n  BY <1>0, <2>3 DEF FibStates
  <2> HIDE DEF s, r
  <2>5. Len(Rows') = Len(Rows) + 1  BY <2>1, <2>2, HookRows
  <2>6. gen.i < gen.n /\ gen.i \in Nat /\ gen.n \in Int
    BY <1>0, <1>4, <2>3, CappedFits DEF FibRow, FibStates
  <2> QED BY <1>0, <2>3, <2>4, <2>5, <2>6 DEF FibInv
<1> QED BY <1>1, <1>2, <1>3, <1>4, StageSteps DEF FibNext

LEMMA PerfKeeps ==
  ASSUME ContextInv, InputInv, FreshInv, PerfInv, [Next]_vars
  PROVE  PerfInv'
<1> SUFFICES ASSUME stage = "perf", gen' # NoState
             PROVE  /\ PerfAccepts
                    /\ gen'.next <= gen'.config.rows /\ gen'.next = Len(Rows')
                    /\ gen'.slept <= gen'.config.delay
                    /\ pc' \in {"wait", "slept"} \/ gen'.slept > 0 =>
                         gen'.next < gen'.config.rows
  BY InputsStay DEF PerfInv, PerfAccepts
<1>0. Len(Rows) \in Nat /\ (gen # NoState => gen \in PerfStates)
  BY RowsType DEF ContextInv, FlowInv, States
<1>a. gen # NoState => /\ gen.config.rows \in 0..MostRows /\ gen.config.delay \in 0..MostSleeps
                       /\ Rested = [gen EXCEPT !.slept = 0]
                       /\ Rested.next = gen.next /\ Rested.config = gen.config /\ Rested.slept = 0
  BY <1>0, PerfConfigType DEF PerfInv, PerfStates, Rested
<1>1. CASE Still
  <2>1. Rows' = Rows /\ gen # NoState /\ (gen' = gen \/ gen' = Rested)
    BY <1>1, StillKeeps DEF Fresh
  <2>2. gen.slept \in Nat  BY <1>0, <2>1 DEF PerfStates
  <2>3. pc' \in {"wait", "slept"} => pc \in {"wait", "slept"} \/ gen.slept # 0
    BY <1>1, StillKeeps
  <2> QED BY <1>a, <2>1, <2>2, <2>3 DEF PerfInv
<1>2. CASE PerfOpen
  <2>1. CASE OpenFails  BY <1>1, <2>1 DEF Still
  <2>2. CASE ~OpenFails
    <3>1. PerfAccepts /\ Opens([stage |-> "perf", config |-> PerfConfig, next |-> 0, slept |-> 0])
      BY <1>2, <2>2 DEF PerfOpen
    <3>2. /\ Fresh /\ Rows' = Rows /\ pc' = "opened"
          /\ gen'.next = 0 /\ gen'.slept = 0 /\ gen'.config = PerfConfig
      BY <3>1, OpenRows
    <3>3. Rows = << >>  BY <3>2 DEF FreshInv
    <3> QED BY <3>1, <3>2, <3>3, PerfConfigType
  <2> QED BY <2>1, <2>2
<1>3. CASE pc = "row" /\ (PerfEof \/ PerfPanics \/ PerfFails \/ PerfWaits)
  <2>1. PICK to, r : /\ Hook("row", to, gen, fields, r)
                     /\ \/ to = "wait" /\ gen.next < gen.config.rows
                        \/ to = "return" /\ r.kind # "advanced"
    BY <1>3, ResultKinds DEF PerfEof, PerfPanics, PerfFails, PerfWaits, Returns
  <2>2. gen' = gen /\ Rows' = Rows /\ pc' = to  BY <2>1, HookRows
  <2> QED BY <2>1, <2>2 DEF PerfInv
<1>4. CASE pc = "wait" /\ PerfSleep
  <2>1. Hook("wait", "slept", Slept, fields, out) /\ gen.slept < gen.config.delay
    BY <1>4 DEF PerfSleep
  <2>2. gen' = Slept /\ Rows' = Rows /\ gen # NoState  BY <2>1, HookRows
  <2>3. gen'.next = gen.next /\ gen'.config = gen.config /\ gen'.slept = gen.slept + 1
    BY <1>0, <2>2 DEF Slept, PerfStates
  <2> QED BY <1>0, <1>a, <1>4, <2>1, <2>2, <2>3 DEF PerfInv, PerfStates
<1>5. CASE pc = "wait" /\ PerfRow
  <2> DEFINE s == [Rested EXCEPT !.next = @ + 1]
             r == Advanced([i |-> gen.next, scored |-> gen.config.metadata])
  <2>1. Hook("wait", "return", s, Inc(fields, "rows", 1), r)
    BY <1>5 DEF PerfRow, Returns
  <2>2. r.kind = "advanced"  BY ResultKinds
  <2>3. gen' = s /\ gen # NoState  BY <2>1, HookRows
  <2>4. gen'.next = gen.next + 1 /\ gen'.config = gen.config /\ gen'.slept = 0
    <3>1. Rested \in PerfStates  BY <1>0, <2>3 DEF PerfStates, Rested
    <3>2. s.next = Rested.next + 1 /\ s.config = Rested.config /\ s.slept = Rested.slept
      BY <3>1 DEF PerfStates
    <3> QED BY <1>a, <2>3, <3>2
  <2> HIDE DEF s, r
  <2>5. Len(Rows') = Len(Rows) + 1 /\ pc' = "return"  BY <2>1, <2>2, HookRows
  <2> QED BY <1>0, <1>a, <1>5, <2>3, <2>4, <2>5 DEF PerfInv, PerfStates
<1> QED BY <1>1, <1>2, <1>3, <1>4, <1>5, StageSteps

LEMMA LookupKeeps ==
  ASSUME ContextInv, InputInv, FreshInv, LookupInv, [Next]_vars
  PROVE  LookupInv'
<1> SUFFICES ASSUME stage = "lookup", gen' # NoState
             PROVE  /\ args.catalog = "router"
                    /\ Len(Rows') + Len(gen'.pending) = Len(args.candidates)
                    /\ \A n \in 1..Len(gen'.pending) :
                         gen'.pending[n] = args.candidates[Len(Rows') + n]
  BY InputsStay DEF LookupInv
<1>0. Len(Rows) \in Nat /\ (gen # NoState => gen \in LookupStates)
  BY RowsType DEF ContextInv, FlowInv, States
<1>1. CASE Still
  BY <1>1, StillKeeps DEF LookupInv
<1>2. CASE LookupOpen
  <2>1. CASE OpenFails  BY <1>1, <2>1 DEF Still
  <2>2. CASE ~OpenFails
    <3>1. args.catalog = "router" /\ Opens([stage |-> "lookup", pending |-> args.candidates])
      BY <1>2, <2>2 DEF LookupOpen
    <3>2. Fresh /\ Rows' = Rows /\ gen'.pending = args.candidates
      BY <3>1, OpenRows
    <3>3. Rows = << >>  BY <3>2 DEF FreshInv
    <3> QED BY <3>1, <3>2, <3>3 DEF InputInv
  <2> QED BY <2>1, <2>2
<1>3. CASE pc = "next" /\ LookupEof
  <2>1. Hook("next", "return", gen, fields, Eof)  BY <1>3 DEF LookupEof, Returns
  <2>2. gen' = gen /\ Rows' = Rows  BY <2>1, HookRows, ResultKinds
  <2> QED BY <2>2 DEF LookupInv
<1>4. CASE pc = "next" /\ LookupRow
  <2> DEFINE s == [gen EXCEPT !.pending = Tail(@)]
             r == Advanced(Head(gen.pending))
  <2>1. Hook("next", "return", s, fields, r)  BY <1>4 DEF LookupRow, Returns
  <2>2. r.kind = "advanced"  BY ResultKinds
  <2>3. gen' = s /\ gen # NoState  BY <2>1, HookRows
  <2>4. gen'.pending = Tail(gen.pending)  BY <1>0, <2>3 DEF LookupStates
  <2> HIDE DEF s, r
  <2>5. Len(Rows') = Len(Rows) + 1  BY <2>1, <2>2, HookRows
  <2>6. gen.pending \in Seq(Range(args.candidates)) /\ gen.pending # << >>
    BY <1>0, <1>4, <2>3 DEF LookupRow, LookupStates
  <2>7. /\ Len(Tail(gen.pending)) = Len(gen.pending) - 1 /\ Len(gen.pending) \in Nat
        /\ \A n \in 1..(Len(gen.pending) - 1) : Tail(gen.pending)[n] = gen.pending[n + 1]
    BY <2>6
  <2>8. ASSUME NEW n \in 1..Len(gen'.pending)
        PROVE  gen'.pending[n] = args.candidates[Len(Rows') + n]
    <3>1. n \in 1..(Len(gen.pending) - 1) /\ n + 1 \in 1..Len(gen.pending)  BY <2>4, <2>7
    <3>2. gen'.pending[n] = gen.pending[n + 1]  BY <2>4, <2>7, <3>1
    <3>3. gen.pending[n + 1] = args.candidates[Len(Rows) + (n + 1)]
      BY <2>3, <3>1 DEF LookupInv
    <3>4. Len(Rows) + (n + 1) = Len(Rows') + n  BY <1>0, <2>5
    <3> QED BY <3>2, <3>3, <3>4
  <2>9. Len(Rows') + Len(gen'.pending) = Len(args.candidates)
    <3>1. Len(Rows) + Len(gen.pending) = Len(args.candidates)  BY <2>3 DEF LookupInv
    <3>2. Len(gen'.pending) = Len(gen.pending) - 1  BY <2>4, <2>7
    <3>3. \A x, y \in Nat : (x + 1) + (y - 1) = x + y  OBVIOUS
    <3>4. Len(Rows') + Len(gen'.pending) = (Len(Rows) + 1) + (Len(gen.pending) - 1)
      BY <2>5, <3>2
    <3> QED BY <1>0, <2>7, <3>1, <3>3, <3>4
  <2> QED BY <2>3, <2>8, <2>9 DEF LookupInv
<1> QED BY <1>1, <1>2, <1>3, <1>4, StageSteps DEF LookupNext

-----------------------------------------------------------------------------
(* The steps of $readLocalJsonl's next hook, by what they do.              *)
Moves(at, line, line_no, returned) ==
    /\ gen'.at = at /\ gen'.line = line /\ gen'.line_no = line_no /\ gen'.returned = returned
    /\ gen'.config = gen.config /\ gen'.target = gen.target

Stays == Moves(gen.at, gen.line, gen.line_no, gen.returned)

LineStops ==
    /\ pc \in {"next", "read", "decode"} /\ pc' = "return"
    /\ Stays /\ Rows' = Rows /\ fields' = fields
    /\ pc = "decode" => ~Utf8(gen.line)
    /\ Ended' => \/ limit # Unlimited /\ gen.returned >= limit
                 \/ pc = "read" /\ gen.at = Len(file)

LineBegins ==
    /\ pc = "next" /\ pc' = "read"
    /\ Stays /\ Rows' = Rows /\ fields' = fields /\ ~Ended' /\ Open

LineGivenUp ==
    /\ pc = "read" /\ pc' = "return" /\ LineTooLong
    /\ Moves(gen.at + gen.config.line + 1, gen.line, gen.line_no, gen.returned)
    /\ Rows' = Rows /\ fields' = fields /\ ~Ended'

LineTaken ==
    /\ pc = "read" /\ pc' = "bytes" /\ ReadLine
    /\ Moves(Min({LineEnd, Len(file)}), Body, gen.line_no, gen.returned)
    /\ Rows' = Rows /\ fields' = fields /\ ~Ended'

LineBytes ==
    /\ pc = "bytes" /\ pc' = "lines"
    /\ Moves(gen.at, gen.line, gen.line_no + 1, gen.returned)
    /\ Rows' = Rows /\ fields' = Inc(fields, "bytes_read", Len(gen.line)) /\ ~Ended'

LineCounted ==
    /\ pc = "lines" /\ pc' = "decode"
    /\ Stays /\ Rows' = Rows /\ fields' = Inc(fields, "lines_read", 1) /\ ~Ended'

LineSkipped ==
    /\ pc = "decode" /\ pc' = "read" /\ Blank(gen.line)
    /\ Stays /\ Rows' = Rows /\ fields' = Inc(fields, "empty_lines_skipped", 1) /\ ~Ended'

LineGiven ==
    /\ pc = "decode" /\ pc' = "return" /\ Document(gen.line, gen.config.document)
    /\ Moves(gen.at, gen.line, gen.line_no, gen.returned + 1)
    /\ Len(Rows') = Len(Rows) + 1
    /\ Rows'[Len(Rows) + 1] = [line |-> gen.line_no, text |-> Trimmed(gen.line)]
    /\ \A n \in 1..Len(Rows) : Rows'[n] = Rows[n]
    /\ fields' = Inc(fields, "documents_returned", 1) /\ ~Ended'

LineRefused ==
    /\ pc = "decode" /\ pc' = "return" /\ ~Document(gen.line, gen.config.document)
    /\ Stays /\ Rows' = Rows /\ fields' = Inc(fields, "parse_errors", 1) /\ ~Ended'

LineSteps ==
    \/ LineStops \/ LineBegins \/ LineGivenUp \/ LineTaken \/ LineBytes
    \/ LineCounted \/ LineSkipped \/ LineGiven \/ LineRefused

LEMMA JsonlEffects ==
  ASSUME ContextInv, InputInv, stage = "jsonl", JsonlNext, ~Still
  PROVE  \/ OpenFile
         \/ /\ gen \in JsonlStates /\ gen # NoState /\ gen' # NoState
            /\ execDoc' = execDoc /\ bound' = bound /\ since' = since
            /\ LineSteps
<1>1. CASE pc = "idle"
  BY <1>1 DEF JsonlNext, CountBytes, CountLine, Hook, FileRejected, Still
<1>2. CASE pc # "idle"
  <2> USE DEF Returns
  <2>1. gen \in JsonlStates /\ gen # NoState  BY <1>2, GenLine, Inner, NotNoState
  <2>2. \E at, to, s, f, result : Hook(at, to, s, f, result) /\ at \notin {"idle", "return"}
    BY <1>2 DEF JsonlNext, LimitReached, Reads, ReadFails, LineTooLong, EndOfFile, ReadLine,
                CountBytes, CountLine, NotUtf8, BlankLine, ReturnDocument, NoDocument, Hook
  <2>3. execDoc' = execDoc /\ bound' = bound /\ since' = since  BY <2>2, HookRows
  <2>4. gen' = gen => Stays  BY DEF Stays, Moves
  <2>5. CASE pc = "next" /\ LimitReached
    <3>1. Hook("next", "return", gen, fields, Eof)  BY <2>5 DEF LimitReached
    <3>2. LineStops
      BY <2>4, <2>5, <3>1, HookRows, ResultKinds DEF LimitReached, LineStops
    <3> QED BY <2>1, <2>3, <3>1, <3>2, HookRows DEF LineSteps
  <2>6. CASE pc = "next" /\ Reads
    <3>1. Hook("next", "read", gen, fields, out)  BY <2>6 DEF Reads
    <3>2. Open
      <4>1. gen.returned \in Nat  BY <2>1 DEF JsonlStates
      <4> QED BY <2>6, <4>1, FileType DEF Reads, Open, Unlimited
    <3>3. LineBegins  BY <2>4, <3>1, <3>2, HookRows DEF LineBegins
    <3> QED BY <2>1, <2>3, <3>1, <3>3, HookRows DEF LineSteps
  <2>7. CASE pc = "read" /\ (ReadFails \/ EndOfFile)
    <3>1. \/ Hook("read", "return", gen, fields, Error("runtime"))
          \/ Hook("read", "return", gen, fields, Eof) /\ gen.at = Len(file)
      BY <2>7 DEF ReadFails, EndOfFile, AtEnd
    <3>2. PICK r : /\ Hook("read", "return", gen, fields, r) /\ r.kind # "advanced"
                   /\ r.kind = "eof" => gen.at = Len(file)
      BY <3>1, ResultKinds
    <3>3. LineStops  BY <2>4, <3>2, HookRows DEF LineStops
    <3> QED BY <2>1, <2>3, <3>2, <3>3, HookRows DEF LineSteps
  <2>8. CASE pc = "read" /\ LineTooLong
    <3> DEFINE s == [gen EXCEPT !.at = @ + gen.config.line + 1]
    <3>1. Hook("read", "return", s, fields, Error("runtime"))  BY <2>8 DEF LineTooLong
    <3>2. gen' = s /\ pc' = "return" /\ Rows' = Rows /\ fields' = fields /\ ~Ended'
      BY <3>1, HookRows, ResultKinds
    <3>3. Moves(gen.at + gen.config.line + 1, gen.line, gen.line_no, gen.returned)
          /\ gen'.stage = "jsonl"
      BY <2>1, <3>2 DEF Moves, JsonlStates
    <3>4. LineGivenUp  BY <2>8, <3>2, <3>3 DEF LineGivenUp
    <3> QED BY <2>1, <2>3, <3>3, <3>4 DEF LineSteps, NoState
  <2>9. CASE pc = "read" /\ ReadLine
    <3> DEFINE s == [gen EXCEPT !.at = Min({LineEnd, Len(file)}), !.line = Body]
    <3>1. Hook("read", "bytes", s, fields, out)  BY <2>9 DEF ReadLine
    <3>2. gen' = s /\ pc' = "bytes" /\ Rows' = Rows /\ fields' = fields /\ ~Ended'
      BY <3>1, HookRows
    <3>3. Moves(Min({LineEnd, Len(file)}), Body, gen.line_no, gen.returned)
          /\ gen'.stage = "jsonl"
      BY <2>1, <3>2 DEF Moves, JsonlStates
    <3>4. LineTaken  BY <2>9, <3>2, <3>3 DEF LineTaken
    <3> QED BY <2>1, <2>3, <3>3, <3>4 DEF LineSteps, NoState
  <2>10. CASE CountBytes
    <3> DEFINE s == [gen EXCEPT !.line_no = @ + 1]
               f == Inc(fields, "bytes_read", Len(gen.line))
    <3>1. Hook("bytes", "lines", s, f, out)  BY <2>10 DEF CountBytes
    <3>2. gen' = s /\ pc = "bytes" /\ pc' = "lines" /\ Rows' = Rows /\ fields' = f /\ ~Ended'
      BY <3>1, HookRows
    <3>3. Moves(gen.at, gen.line, gen.line_no + 1, gen.returned) /\ gen'.stage = "jsonl"
      BY <2>1, <3>2 DEF Moves, JsonlStates
    <3>4. LineBytes  BY <3>2, <3>3 DEF LineBytes
    <3> QED BY <2>1, <2>3, <3>3, <3>4 DEF LineSteps, NoState
  <2>11. CASE CountLine
    <3>1. Hook("lines", "decode", gen, Inc(fields, "lines_read", 1), out)
      BY <2>11 DEF CountLine
    <3>2. LineCounted  BY <2>4, <3>1, HookRows DEF LineCounted
    <3> QED BY <2>1, <2>3, <3>1, <3>2, HookRows DEF LineSteps
  <2>12. CASE pc = "decode" /\ NotUtf8
    <3>1. Hook("decode", "return", gen, fields, Error("runtime")) /\ ~Utf8(gen.line)
      BY <2>12 DEF NotUtf8
    <3>2. LineStops  BY <2>4, <3>1, HookRows, ResultKinds DEF LineStops
    <3> QED BY <2>1, <2>3, <3>1, <3>2, HookRows DEF LineSteps
  <2>13. CASE pc = "decode" /\ BlankLine
    <3>1. /\ Hook("decode", "read", gen, Inc(fields, "empty_lines_skipped", 1), out)
          /\ Blank(gen.line)
      BY <2>13 DEF BlankLine
    <3>2. LineSkipped  BY <2>4, <3>1, HookRows DEF LineSkipped
    <3> QED BY <2>1, <2>3, <3>1, <3>2, HookRows DEF LineSteps
  <2>14. CASE pc = "decode" /\ ReturnDocument
    <3> DEFINE s == [gen EXCEPT !.returned = @ + 1]
               f == Inc(fields, "documents_returned", 1)
               row == [line |-> gen.line_no, text |-> Trimmed(gen.line)]
               r == Advanced(row)
    <3>1. Hook("decode", "return", s, f, r)  BY <2>14 DEF ReturnDocument
    <3>2. r.kind = "advanced" /\ r.row = row  BY ResultKinds
    <3> HIDE DEF r, row
    <3>3. gen' = s /\ pc' = "return" /\ fields' = f /\ ~Ended'
          /\ Len(Rows') = Len(Rows) + 1 /\ Rows'[Len(Rows) + 1] = row
          /\ \A n \in 1..Len(Rows) : Rows'[n] = Rows[n]
      BY <3>1, <3>2, HookRows
    <3>4. Moves(gen.at, gen.line, gen.line_no, gen.returned + 1) /\ gen'.stage = "jsonl"
      BY <2>1, <3>3 DEF Moves, JsonlStates
    <3>5. LineGiven  BY <2>14, <3>3, <3>4 DEF LineGiven, ReturnDocument, row
    <3> QED BY <2>1, <2>3, <3>4, <3>5 DEF LineSteps, NoState
  <2>15. CASE pc = "decode" /\ NoDocument
    <3>1. /\ Hook("decode", "return", gen, Inc(fields, "parse_errors", 1), Error("runtime"))
          /\ ~Document(gen.line, gen.config.document)
      BY <2>15 DEF NoDocument
    <3>2. LineRefused  BY <2>4, <3>1, HookRows, ResultKinds DEF LineRefused
    <3> QED BY <2>1, <2>3, <3>1, <3>2, HookRows DEF LineSteps
  <2> QED
    BY <1>2, <2>5, <2>6, <2>7, <2>8, <2>9, <2>10, <2>11, <2>12, <2>13, <2>14, <2>15
    DEF JsonlNext
<1> QED BY <1>1, <1>2

LEMMA LineFits ==
  ASSUME NEW k \in JsonlStates
  PROVE  /\ k.at \in 0..Len(file) /\ k.line \in Seq(Bytes) /\ k.line_no \in Nat
         /\ k.returned \in Nat /\ k.config = Config(options)
  BY DEF JsonlStates

LEMMA JsonlKeeps ==
  ASSUME ContextInv, InputInv, FreshInv, JsonlInv, [Next]_vars
  PROVE  JsonlInv'
<1> SUFFICES ASSUME stage = "jsonl", gen' # NoState
             PROVE  /\ pc' \in {"idle", "opened", "next", "read", "return"} \cup Holding
                    /\ gen'.line_no + One(pc' = "bytes") <= gen'.at
                    /\ gen'.returned + One(pc' \in Holding) <= gen'.line_no + One(pc' = "bytes")
                    /\ gen'.returned = Len(Rows')
                    /\ Resolves(Config(options))
                    /\ pc' \in Holding => gen'.line \in Seq(Bytes \ {"n"})
  <2>1. Resolves(Config(options))' <=> Resolves(Config(options))
    BY InputsStay
  <2> QED BY <2>1, InputsStay DEF JsonlInv, Holding, One
<1> USE DEF One
<1>1. CASE Still
  <2>1. /\ gen # NoState /\ gen' = gen /\ Rows' = Rows
        /\ pc' \in {"idle", "opened", "next", "read", "return"} \cup Holding
        /\ pc' \in Reading => pc' = pc
    BY <1>1, StillKeeps DEF Fresh, JsonlInv, Holding, Reading
  <2>2. pc \in Reading => pc' = pc  BY <1>1, StillKeeps
  <2> QED BY <2>1, <2>2 DEF JsonlInv, Holding, Reading
<1>2. CASE OpenFile
  <2>1. Resolves(Config(options)) /\ Opens(Reader(Config(options)))
    BY <1>2 DEF OpenFile, Found
  <2>2. Fresh /\ Rows' = Rows /\ pc' = "opened" /\ gen' = Reader(Config(options))
    BY <2>1, OpenRows
  <2>3. Rows = << >>  BY <2>2 DEF FreshInv
  <2> QED BY <2>1, <2>2, <2>3 DEF Reader, Holding
<1>3. CASE LineSteps /\ gen \in JsonlStates /\ gen # NoState
  <2>0. /\ gen.at \in 0..Len(file) /\ gen.line \in Seq(Bytes) /\ gen.line_no \in Nat
        /\ gen.returned \in Nat /\ Len(Rows) \in Nat /\ Len(file) \in Nat
        /\ gen.config.line \in Nat \ {0}
    BY <1>3, LineFits, RowsType, ConfigType, FileType
  <2>a. /\ gen.line_no + One(pc = "bytes") <= gen.at
        /\ gen.returned + One(pc \in Holding) <= gen.line_no + One(pc = "bytes")
        /\ gen.returned = Len(Rows)
        /\ Resolves(Config(options))
        /\ pc \in Holding => gen.line \in Seq(Bytes \ {"n"})
    BY <1>3 DEF JsonlInv
  <2> USE DEF Moves, Stays, Holding
  <2>1. CASE LineStops \/ LineBegins  BY <2>0, <2>a, <2>1 DEF LineStops, LineBegins
  <2>2. CASE LineGivenUp  BY <2>0, <2>a, <2>2 DEF LineGivenUp
  <2>3. CASE LineTaken
    <3>1. Min({LineEnd, Len(file)}) \in (gen.at + 1)..Len(file)
      BY <2>3, ReadsOn DEF LineTaken
    <3>2. Body \in Seq(Bytes \ {"n"})
      BY <2>3, GenLine, LineEnds DEF LineTaken
    <3> QED BY <2>0, <2>a, <2>3, <3>1, <3>2 DEF LineTaken
  <2>4. CASE LineBytes \/ LineCounted  BY <2>0, <2>a, <2>4 DEF LineBytes, LineCounted
  <2>5. CASE LineSkipped \/ LineRefused  BY <2>0, <2>a, <2>5 DEF LineSkipped, LineRefused
  <2>6. CASE LineGiven  BY <2>0, <2>a, <2>6 DEF LineGiven
  <2> QED BY <1>3, <2>1, <2>2, <2>3, <2>4, <2>5, <2>6 DEF LineSteps
<1> QED BY <1>1, <1>2, <1>3, StageSteps, JsonlEffects

-----------------------------------------------------------------------------
(* Counters.  No stage counts so far that a counter would saturate.        *)
LEMMA CountUp ==
  ASSUME ContextInv, NEW key \in Keys, NEW delta \in Int, fields' = Inc(fields, key, delta),
         NEW d \in Documents, NEW k \in Keys
  PROVE  /\ Count(d, k) \in Ints /\ Count(d, k) \in Int
         /\ Count(d, k)' = IF d = bound /\ k = key THEN Clip(Count(d, k) + delta) ELSE Count(d, k)
<1>0. fields \in FieldsType /\ bound \in Documents \cup {NoDoc} /\ d # NoDoc
  BY DocumentAssumption DEF ContextInv, HandleInv
<1>1. fields[d][k] \in Values  BY <1>0 DEF FieldsType
<1>2. Count(d, k) \in Ints /\ Count(d, k) \in Int
  BY <1>1, Numbers, Widths DEF Count, Serialized
<1>3. CASE d = bound /\ k = key
  <2>1. fields'[d][k] = Counted(fields[d][k], delta)  BY <1>0, <1>3, IncKeeps
  <2> QED BY <1>1, <1>2, <1>3, <2>1, CountedFits DEF Count, Serialized
<1>4. CASE ~(d = bound /\ k = key)
  <2>1. fields'[d][k] = fields[d][k]  BY <1>0, <1>4, IncKeeps
  <2> QED BY <1>2, <1>4, <2>1 DEF Count, Serialized
<1> QED BY <1>3, <1>4

LEMMA CountFits ==
  ASSUME ContextInv, NEW d \in Documents, NEW k \in Keys
  PROVE  Count(d, k) \in Ints /\ Count(d, k) \in Int
<1>1. fields[d][k] \in Values  BY DEF ContextInv, HandleInv, FieldsType
<1> QED BY <1>1, Numbers, Widths DEF Count, Serialized

LEMMA SmallSums ==
  ASSUME NEW n \in Ints, n < MaxInt
  PROVE  Clip(n + 1) = n + 1
<1>1. n + 1 \in Ints  BY Widths DEF Ints
<1> QED BY <1>1, ClipFits, Widths

LEMMA EmptyCounts ==
  ASSUME NEW d \in Documents, NEW k \in Keys, fields[d] = Empty
  PROVE  Count(d, k) = 0
  BY Numbers DEF Count, Serialized, Empty

ProgressInv == FreshInv /\ FibInv /\ PerfInv /\ LookupInv /\ JsonlInv

LEMMA ProgressKeeps ==
  ASSUME ContextInv, InputInv, ProgressInv, [Next]_vars
  PROVE  ProgressInv'
  BY FreshKeeps, FibKeeps, PerfKeeps, LookupKeeps, JsonlKeeps DEF ProgressInv

(* A row that is counted, and every other step of a hook.                  *)
LEMMA OneMore ==
  ASSUME ContextInv, InputInv, CountInv, Counting, stage' = stage,
         pc \notin {"idle", "opened"},
         fields' = Inc(fields, RowsCounted, 1), execDoc' = execDoc, since' = since,
         Len(Rows') = Len(Rows) + 1, Len(Rows) < MaxInt
  PROVE  CountInv'
<1> SUFFICES ASSUME execDoc # NoDoc
             PROVE  Count(execDoc, RowsCounted)' = Len(Rows') - since
  BY DEF CountInv, RowsCounted, Counting, Count, Serialized
<1>1. RowsCounted \in Keys /\ execDoc \in Documents /\ bound = execDoc
  BY NamesAssumption DEF RowsCounted, ContextInv, HandleInv
<1> DEFINE n == Count(execDoc, RowsCounted)
<1>2. n \in Ints /\ n \in Int  BY <1>1, CountFits
<1>3. n = Len(Rows) - since  BY DEF CountInv
<1>4. Len(Rows) \in Nat /\ since \in Nat  BY RowsType
<1>5. Clip(n + 1) = n + 1  BY <1>2, <1>3, <1>4, SmallSums, Widths
<1>6. \A k \in Keys : Count(execDoc, k)' =
        IF execDoc = bound /\ k = RowsCounted THEN Clip(Count(execDoc, k) + 1)
                                              ELSE Count(execDoc, k)
  BY <1>1, CountUp
<1>7. Count(execDoc, RowsCounted)' = Clip(n + 1)
  BY <1>1, <1>6 DEF RowsCounted
<1> QED BY <1>2, <1>3, <1>4, <1>5, <1>7

LEMMA SameCounts ==
  ASSUME fields' = fields
  PROVE  \A d, k : Count(d, k)' = Count(d, k)
  BY DEF Count, Serialized

LEMMA StillDocument ==
  ASSUME ContextInv, InputInv, stage # "any", Still
  PROVE  \/ execDoc' = execDoc /\ since' = since
         \/ execDoc' = NoDoc
         \/ execDoc' \in Documents /\ fields[execDoc'] = Empty /\ since' = Len(Rows)
<1>1. CASE HostCreatesMetrics
  <2>1. PICK d \in Documents : strong[d] = Unborn /\ execDoc' = d
    BY <1>1 DEF HostCreatesMetrics, CreateMetrics, Replacement
  <2>2. fields[d] = Empty  BY <2>1 DEF ContextInv, HandleInv, Empty
  <2>3. since' = Len(Rows)  BY <1>1 DEF HostCreatesMetrics, Rows
  <2> QED BY <2>1, <2>2, <2>3
<1>2. CASE DestroyExecutor
  BY <1>2 DEF DestroyExecutor, ForgetMetrics
<1>3. OpenFails \/ InContext \/ UNCHANGED context \/ Interrupt \/ ReleaseStatus
      \/ HostDestroysMetrics \/ PerfAsks \/ PerfAsksAgain \/ PerfHears
      => execDoc' = execDoc /\ since' = since
  BY DEF OpenFails, InContext, BeginNext, HostAnswersInterrupt, EndNext, Interrupt,
         ReleaseStatus, HostDestroysMetrics, DestroyMetrics, PerfAsks, PerfAsksAgain,
         AskInterrupt, PerfHears, ReadInterrupt, context, metrics, history
<1> QED BY <1>1, <1>2, <1>3 DEF Still, Host

LEMMA CountKeeps ==
  ASSUME ContextInv, InputInv, ProgressInv, CountInv, [Next]_vars
  PROVE  CountInv'
<1> SUFFICES ASSUME Counting  PROVE CountInv'
  BY InputsStay DEF CountInv, Counting
<1>0. stage' = stage /\ stage # "any" /\ RowsCounted' = RowsCounted /\ RowsCounted \in Keys
  BY InputsStay, NamesAssumption DEF RowsCounted, Counting
<1>n. Len(Rows) \in Nat /\ since \in Nat  BY RowsType
<1>a. ASSUME execDoc' = execDoc, since' = since, Rows' = Rows, fields' = fields
      PROVE  CountInv'
  BY <1>a, <1>0, SameCounts DEF CountInv, Counting
<1>1. CASE Still
  <2>1. Rows' = Rows /\ fields' = fields  BY <1>0, <1>1, StillKeeps
  <2>2. CASE execDoc' = NoDoc  BY <2>2 DEF CountInv
  <2>3. CASE execDoc' \in Documents /\ fields[execDoc'] = Empty /\ since' = Len(Rows)
    <3>1. AsInt64(fields[execDoc'][RowsCounted]) = 0
      BY <1>0, <2>3, EmptyCounts DEF Count, Serialized
    <3>2. Len(Rows') - since' = 0  BY <1>n, <2>1, <2>3
    <3> QED BY <1>0, <2>1, <3>1, <3>2 DEF CountInv, Count, Serialized
  <2> QED BY <1>0, <1>1, <1>a, <2>1, <2>2, <2>3, StillDocument
<1>2. ASSUME NEW s, Opens(s)  PROVE CountInv'
  BY <1>a, <1>2, OpenRows
<1>3. CASE stage = "fibonacci" /\ FibNext /\ ~Still
  <2>1. CASE FibOpen  BY <1>2, <1>3, <2>1 DEF FibOpen, Still
  <2>2. CASE pc = "next" /\ FibEof
    <3>1. Hook("next", "return", gen, fields, Eof)  BY <2>2 DEF FibEof, Returns
    <3> QED BY <1>a, <3>1, HookRows, ResultKinds
  <2>3. CASE pc = "next" /\ FibRow
    <3> DEFINE s == [gen EXCEPT !.i = @ + 1, !.a = gen.b, !.b = Sum2(gen.a, gen.b)]
               r == Advanced([i |-> gen.i, value |-> gen.a])
    <3>1. Hook("next", "return", s, Inc(fields, "rows_out", 1), r)
      BY <2>3 DEF FibRow, Returns
    <3>2. r.kind = "advanced"  BY ResultKinds
    <3> HIDE DEF s, r
    <3>3. /\ gen # NoState /\ fields' = Inc(fields, RowsCounted, 1)
          /\ execDoc' = execDoc /\ since' = since /\ Len(Rows') = Len(Rows) + 1
      BY <1>3, <3>1, <3>2, HookRows DEF RowsCounted
    <3>4. Len(Rows) < MaxInt
      <4>1. gen.i = Len(Rows) /\ gen.i < gen.n  BY <1>3, <2>3, <3>3 DEF FibRow, ProgressInv, FibInv
      <4>2. gen.n = Capped(args.n)
        BY <1>3, <2>3, Inner DEF States, FibStates
      <4> QED BY <1>3, <1>n, <4>1, <4>2, CappedFits, Widths
    <3> QED BY <1>0, <2>3, <3>3, <3>4, OneMore
  <2> QED BY <1>3, <2>1, <2>2, <2>3 DEF FibNext
<1>4. CASE /\ stage = "perf" /\ ~Still
           /\ \/ PerfOpen
              \/ pc = "row" /\ (PerfEof \/ PerfPanics \/ PerfFails \/ PerfWaits)
              \/ pc = "wait" /\ (PerfSleep \/ PerfRow)
  <2>1. CASE PerfOpen  BY <1>2, <1>4, <2>1 DEF PerfOpen, Still
  <2>2. CASE \/ pc = "row" /\ (PerfEof \/ PerfPanics \/ PerfFails \/ PerfWaits)
             \/ pc = "wait" /\ PerfSleep
    <3>1. PICK at, to, s, r : /\ Hook(at, to, s, fields, r) /\ at \in {"row", "wait"}
                              /\ to # "return" \/ r.kind # "advanced"
      BY <2>2, ResultKinds DEF PerfEof, PerfPanics, PerfFails, PerfWaits, PerfSleep, Returns
    <3> QED BY <1>a, <3>1, HookRows
  <2>3. CASE pc = "wait" /\ PerfRow
    <3> DEFINE s == [Rested EXCEPT !.next = @ + 1]
               r == Advanced([i |-> gen.next, scored |-> gen.config.metadata])
    <3>1. Hook("wait", "return", s, Inc(fields, "rows", 1), r)
      BY <2>3 DEF PerfRow, Returns
    <3>2. r.kind = "advanced"  BY ResultKinds
    <3> HIDE DEF s, r
    <3>3. /\ gen # NoState /\ fields' = Inc(fields, RowsCounted, 1)
          /\ execDoc' = execDoc /\ since' = since /\ Len(Rows') = Len(Rows) + 1
      BY <1>4, <3>1, <3>2, HookRows DEF RowsCounted
    <3>4. Len(Rows) < MaxInt
      <4>1. PerfAccepts /\ gen.next = Len(Rows) /\ gen.next < gen.config.rows
        BY <1>4, <2>3, <3>3 DEF ProgressInv, PerfInv
      <4>2. gen.config = PerfConfig
        BY <1>4, <2>3, Inner DEF States, PerfStates
      <4> QED BY <1>4, <1>n, <4>1, <4>2, PerfConfigType, BoundsAssumption, Widths
    <3> QED BY <1>0, <2>3, <3>3, <3>4, OneMore
  <2> QED BY <1>4, <2>1, <2>2, <2>3
<1>5. CASE stage = "jsonl" /\ JsonlNext /\ ~Still
  <2>1. CASE OpenFile  BY <1>2, <2>1 DEF OpenFile
  <2>2. CASE /\ gen \in JsonlStates /\ gen # NoState
             /\ execDoc' = execDoc /\ since' = since /\ LineSteps
    <3>1. CASE LineStops \/ LineBegins \/ LineGivenUp \/ LineTaken
      BY <1>a, <2>2, <3>1 DEF LineStops, LineBegins, LineGivenUp, LineTaken
    <3>2. ASSUME NEW key \in Keys \ {RowsCounted}, NEW n \in Int,
                 fields' = Inc(fields, key, n), Rows' = Rows
          PROVE  CountInv'
      <4> SUFFICES ASSUME execDoc # NoDoc
                   PROVE  Count(execDoc, RowsCounted)' = Len(Rows') - since'
        BY <1>0, <2>2 DEF CountInv
      <4>1. execDoc \in Documents  BY DEF ContextInv, HandleInv
      <4>2. fields'[execDoc][RowsCounted] = fields[execDoc][RowsCounted]
        BY <1>0, <3>2, <4>1, IncKeeps DEF ContextInv, HandleInv
      <4>3. Count(execDoc, RowsCounted)' = Count(execDoc, RowsCounted)
        BY <1>0, <2>2, <4>2 DEF Count, Serialized
      <4> QED BY <2>2, <3>2, <4>3 DEF CountInv
    <3>3. CASE LineBytes
      <4>1. Len(gen.line) \in Int /\ "bytes_read" \in Keys \ {RowsCounted}
        BY <1>5, <2>2, LineFits, NamesAssumption DEF RowsCounted
      <4> QED BY <3>2, <3>3, <4>1 DEF LineBytes
    <3>4. CASE LineCounted \/ LineSkipped \/ LineRefused
      <4>1. {"lines_read", "empty_lines_skipped", "parse_errors"} \subseteq Keys \ {RowsCounted}
        BY <1>5, NamesAssumption DEF RowsCounted
      <4> QED BY <3>2, <3>4, <4>1 DEF LineCounted, LineSkipped, LineRefused
    <3>5. CASE LineGiven
      <4>1. Len(Rows) < MaxInt
        <5>1. /\ gen.returned = Len(Rows) /\ gen.returned + 1 <= gen.line_no
              /\ gen.line_no <= gen.at
          BY <1>5, <2>2, <3>5, LineFits DEF LineGiven, ProgressInv, JsonlInv, Holding, One
        <5> QED BY <1>n, <2>2, <5>1, LineFits, FileType, Widths
      <4>2. fields' = Inc(fields, RowsCounted, 1) /\ Len(Rows') = Len(Rows) + 1
        BY <1>5, <3>5 DEF LineGiven, RowsCounted
      <4> QED BY <1>0, <2>2, <3>5, <4>1, <4>2, OneMore DEF LineGiven
    <3> QED BY <2>2, <3>1, <3>3, <3>4, <3>5 DEF LineSteps
  <2> QED BY <1>5, <2>1, <2>2, JsonlEffects
<1> QED BY <1>0, <1>1, <1>3, <1>4, <1>5, StageSteps DEF Counting

LEMMA LinesKeep ==
  ASSUME ContextInv, InputInv, ProgressInv, LinesInv, [Next]_vars
  PROVE  LinesInv'
<1> DEFINE Told(d, docs, empty, errors, read) ==
      /\ docs >= 0 /\ empty >= 0 /\ errors >= 0
      /\ docs + empty + errors + One(pc' = "decode" /\ bound' = d) <= read
      /\ gen' # NoState => read + One(pc' = "lines") <= gen'.line_no
<1> SUFFICES ASSUME stage = "jsonl", NEW d \in Documents
             PROVE  Told(d, Count(d, "documents_returned")', Count(d, "empty_lines_skipped")',
                         Count(d, "parse_errors")', Count(d, "lines_read")')
  BY InputsStay DEF LinesInv, Outcomes, One, Count, Serialized
<1> DEFINE docs == Count(d, "documents_returned")
           empty == Count(d, "empty_lines_skipped")
           errors == Count(d, "parse_errors")
           read == Count(d, "lines_read")
<1>k. {"bytes_read", "lines_read", "empty_lines_skipped", "documents_returned", "parse_errors"}
        \subseteq Keys
  BY NamesAssumption
<1>n. /\ docs \in Int /\ empty \in Int /\ errors \in Int /\ read \in Int
      /\ docs \in Ints /\ empty \in Ints /\ errors \in Ints /\ read \in Ints
      /\ MaxInt \in Nat /\ \A n \in Ints : n <= MaxInt
  <2>1. \A n \in Ints : n <= MaxInt  BY Widths DEF Ints
  <2> QED BY <1>k, <2>1, CountFits, Widths
<1>o. /\ docs >= 0 /\ empty >= 0 /\ errors >= 0
      /\ docs + empty + errors + One(pc = "decode" /\ bound = d) <= read
      /\ gen # NoState => read + One(pc = "lines") <= gen.line_no
  BY DEF LinesInv, Outcomes
<1>s. ASSUME fields' = fields
      PROVE  /\ Count(d, "documents_returned")' = docs /\ Count(d, "empty_lines_skipped")' = empty
             /\ Count(d, "parse_errors")' = errors /\ Count(d, "lines_read")' = read
  BY <1>s, SameCounts
<1>1. CASE Still
  <2>1. /\ fields' = fields /\ (gen' = gen \/ gen' = NoState)
        /\ pc' \in Reading => bound' = bound /\ pc' = pc
    BY <1>1, StillKeeps
  <2>2. One(pc' = "decode" /\ bound' = d) <= One(pc = "decode" /\ bound = d)
        /\ One(pc' = "lines") <= One(pc = "lines")
        /\ One(pc' = "decode" /\ bound' = d) \in {0, 1} /\ One(pc = "decode" /\ bound = d) \in {0, 1}
        /\ One(pc' = "lines") \in {0, 1} /\ One(pc = "lines") \in {0, 1}
        /\ One(pc' = "lines") = One(pc = "lines")
    <3>1. pc \in Reading => pc' = pc  BY <1>1, StillKeeps
    <3> QED BY <2>1, <3>1 DEF One, Reading, Holding
  <2> HIDE DEF docs, empty, errors, read
  <2> QED BY <1>n, <1>o, <1>s, <2>1, <2>2
<1>2. CASE OpenFile
  <2>1. /\ Fresh /\ fields' = fields /\ pc' = "opened" /\ gen'.line_no = 0
    BY <1>2, OpenRows DEF OpenFile, Reader
  <2>2. docs = 0 /\ empty = 0 /\ errors = 0 /\ read = 0
    BY <1>k, <2>1, EmptyCounts DEF ProgressInv, FreshInv
  <2> HIDE DEF docs, empty, errors, read
  <2> QED BY <1>s, <2>1, <2>2 DEF One
<1>3. CASE LineSteps /\ gen \in JsonlStates /\ gen # NoState /\ bound' = bound
  <2>0. gen.line_no \in Nat /\ gen.line_no + One(pc = "bytes") <= MaxInt
    <3>1. gen.line_no + One(pc = "bytes") <= gen.at  BY <1>3 DEF ProgressInv, JsonlInv
    <3> QED BY <1>3, <3>1, LineFits, FileType, Widths DEF One
  <2>1. CASE LineStops \/ LineBegins \/ LineGivenUp \/ LineTaken
    <3>1. /\ fields' = fields /\ pc' \in {"return", "read", "bytes"}
          /\ gen'.line_no = gen.line_no /\ pc # "lines"
      BY <2>1 DEF LineStops, LineBegins, LineGivenUp, LineTaken, Stays, Moves
    <3> HIDE DEF docs, empty, errors, read
    <3> QED BY <1>3, <1>n, <1>o, <1>s, <2>0, <3>1 DEF One
  <2>2. ASSUME NEW key \in {"bytes_read", "lines_read", "empty_lines_skipped",
                            "documents_returned", "parse_errors"},
               NEW n \in Int, fields' = Inc(fields, key, n)
        PROVE  /\ Count(d, "documents_returned")' =
                    IF d = bound /\ key = "documents_returned" THEN Clip(docs + n) ELSE docs
               /\ Count(d, "empty_lines_skipped")' =
                    IF d = bound /\ key = "empty_lines_skipped" THEN Clip(empty + n) ELSE empty
               /\ Count(d, "parse_errors")' =
                    IF d = bound /\ key = "parse_errors" THEN Clip(errors + n) ELSE errors
               /\ Count(d, "lines_read")' =
                    IF d = bound /\ key = "lines_read" THEN Clip(read + n) ELSE read
    BY <1>k, <2>2, CountUp
  <2>3. CASE LineBytes
    <3>1. Len(gen.line) \in Int  BY <1>3, LineFits
    <3>2. /\ pc = "bytes" /\ pc' = "lines" /\ gen'.line_no = gen.line_no + 1
          /\ fields' = Inc(fields, "bytes_read", Len(gen.line))
      BY <2>3 DEF LineBytes, Moves
    <3>3. /\ Count(d, "documents_returned")' = docs /\ Count(d, "empty_lines_skipped")' = empty
          /\ Count(d, "parse_errors")' = errors /\ Count(d, "lines_read")' = read
      BY <2>2, <3>1, <3>2
    <3> HIDE DEF docs, empty, errors, read
    <3> QED BY <1>3, <1>n, <1>o, <2>0, <3>2, <3>3 DEF One
  <2>4. CASE LineCounted
    <3>1. /\ pc = "lines" /\ pc' = "decode" /\ gen'.line_no = gen.line_no
          /\ fields' = Inc(fields, "lines_read", 1)
      BY <2>4 DEF LineCounted, Stays, Moves
    <3>2. read + 1 <= gen.line_no  BY <1>3, <1>o, <3>1 DEF One
    <3>3. read < MaxInt  BY <1>n, <2>0, <3>1, <3>2 DEF One
    <3>4. Clip(read + 1) = read + 1  BY <1>n, <3>3, SmallSums
    <3>5. /\ Count(d, "documents_returned")' = docs /\ Count(d, "empty_lines_skipped")' = empty
          /\ Count(d, "parse_errors")' = errors
          /\ Count(d, "lines_read")' = read + One(d = bound)
      BY <2>2, <3>1, <3>4, <1>n DEF One
    <3>6. /\ One(pc' = "decode" /\ bound' = d) = One(d = bound) /\ One(pc' = "lines") = 0
          /\ One(pc = "decode" /\ bound = d) = 0 /\ One(d = bound) \in {0, 1}
      BY <1>3, <3>1 DEF One
    <3> HIDE DEF docs, empty, errors, read
    <3>7. docs + empty + errors \in Int  BY <1>n
    <3> QED BY <1>3, <1>n, <1>o, <2>0, <3>1, <3>2, <3>5, <3>6, <3>7
  <2>5. CASE LineSkipped \/ LineGiven \/ LineRefused
    <3>1. PICK key \in {"empty_lines_skipped", "documents_returned", "parse_errors"} :
            /\ pc = "decode" /\ pc' \in {"read", "return"} /\ gen'.line_no = gen.line_no
            /\ fields' = Inc(fields, key, 1)
      BY <2>5 DEF LineSkipped, LineGiven, LineRefused, Stays, Moves
    <3>2. d = bound => docs + empty + errors + 1 <= read  BY <1>o, <3>1 DEF One
    <3> DEFINE more(k) == One(d = bound /\ k = key)
    <3>3. /\ d = bound => docs < MaxInt /\ empty < MaxInt /\ errors < MaxInt
      BY <1>n, <1>o, <3>2
    <3>4. /\ d = bound => /\ Clip(docs + 1) = docs + 1 /\ Clip(empty + 1) = empty + 1
                          /\ Clip(errors + 1) = errors + 1
      BY <1>n, <3>3, SmallSums
    <3>5. /\ Count(d, "documents_returned")' = docs + more("documents_returned")
          /\ Count(d, "empty_lines_skipped")' = empty + more("empty_lines_skipped")
          /\ Count(d, "parse_errors")' = errors + more("parse_errors")
          /\ Count(d, "lines_read")' = read
      BY <2>2, <3>1, <3>4, <1>n DEF One
    <3>6. /\ more("documents_returned") \in {0, 1} /\ more("empty_lines_skipped") \in {0, 1}
          /\ more("parse_errors") \in {0, 1}
          /\ more("documents_returned") + more("empty_lines_skipped") + more("parse_errors")
               = One(d = bound)
      BY <3>1 DEF One
    <3>7. /\ One(pc' = "decode" /\ bound' = d) = 0 /\ One(pc' = "lines") = 0
          /\ One(pc = "decode" /\ bound = d) = One(d = bound) /\ One(pc = "lines") = 0
      BY <3>1 DEF One
    <3> HIDE DEF docs, empty, errors, read, more
    <3> QED BY <1>3, <1>n, <1>o, <3>1, <3>5, <3>6, <3>7
  <2> QED BY <1>3, <2>1, <2>3, <2>4, <2>5 DEF LineSteps
<1> QED BY <1>1, <1>2, <1>3, StageSteps, JsonlEffects

LEMMA InitProgress ==
  ASSUME Init
  PROVE  ProgressInv /\ CountInv /\ LinesInv
<1>1. gen = NoState /\ pc = "idle" /\ emitted = << >> /\ execDoc = NoDoc
      /\ fields = [d \in Documents |-> [k \in Keys |-> Absent]]
  BY DEF Init, InitContext, InitMetrics
<1>2. \A d \in Documents : fields[d] = Empty  BY <1>1 DEF Empty
<1>3. ASSUME NEW d \in Documents
      PROVE  /\ Count(d, "documents_returned") = 0 /\ Count(d, "empty_lines_skipped") = 0
             /\ Count(d, "parse_errors") = 0 /\ Count(d, "lines_read") = 0
  BY <1>2, NamesAssumption, EmptyCounts
<1>4. ASSUME NEW d \in Documents
      PROVE  Outcomes(d) + One(pc = "decode" /\ bound = d) <= Count(d, "lines_read")
  <2>1. Outcomes(d) = 0  BY <1>3 DEF Outcomes
  <2>2. One(pc = "decode" /\ bound = d) = 0  BY <1>1 DEF One
  <2> QED BY <1>3, <2>1, <2>2
<1>5. LinesInv
  <2> SUFFICES ASSUME NEW d \in Documents
               PROVE  /\ Count(d, "documents_returned") >= 0
                      /\ Count(d, "empty_lines_skipped") >= 0
                      /\ Count(d, "parse_errors") >= 0
    BY <1>1, <1>4 DEF LinesInv
  <2> QED BY <1>3
<1> QED BY <1>1, <1>2, <1>5
        DEF ProgressInv, FreshInv, FibInv, PerfInv, LookupInv, JsonlInv, CountInv, Rows

THEOREM ProgressHolds ==
  Spec => [](ContextInv /\ InputInv /\ ProgressInv /\ CountInv /\ LinesInv)
<1>1. Init => ProgressInv /\ CountInv /\ LinesInv  BY InitProgress
<1>2. ContextInv /\ InputInv /\ ProgressInv /\ CountInv /\ LinesInv /\ [Next]_vars
        => (ProgressInv /\ CountInv /\ LinesInv)'
  BY ProgressKeeps, CountKeeps, LinesKeep
<1> QED BY <1>1, <1>2, ContextKeeps, PTL DEF Spec

(* What a document tells the host became of the lines never exceeds the    *)
(* lines that were read; between pulls the executor's document counts the  *)
(* very rows handed over since it was made: no counter saturates, whatever *)
(* the width of integers.                                                  *)
THEOREM SnapshotsMatch == Spec => []SnapshotsAddUp
<1>1. ContextInv /\ CountInv /\ LinesInv => SnapshotsAddUp
  <2> SUFFICES ASSUME ContextInv, CountInv, LinesInv  PROVE SnapshotsAddUp
    OBVIOUS
  <2>1. ASSUME stage = "jsonl", NEW d \in Documents
        PROVE  Outcomes(d) <= Count(d, "lines_read")
    <3>1. /\ Count(d, "documents_returned") \in Int /\ Count(d, "empty_lines_skipped") \in Int
          /\ Count(d, "parse_errors") \in Int /\ Count(d, "lines_read") \in Int
      BY NamesAssumption, CountFits
    <3>2. Outcomes(d) \in Int  BY <3>1 DEF Outcomes
    <3>3. Outcomes(d) + One(pc = "decode" /\ bound = d) <= Count(d, "lines_read")
      BY <2>1 DEF LinesInv
    <3> QED BY <3>1, <3>2, <3>3 DEF One
  <2>2. pc = "idle" => Rows = emitted  BY DEF Rows
  <2> QED BY <2>1, <2>2 DEF SnapshotsAddUp, Outcomes, CountInv, Counting
<1> QED BY <1>1, ProgressHolds, PTL

-----------------------------------------------------------------------------
(* Where the lines of a file begin.                                        *)
LEMMA StartsType ==
  ASSUME InputInv
  PROVE  /\ Newlines \subseteq 1..Len(file) /\ IsFiniteSet(Newlines)
         /\ Starts \subseteq 0..Len(file) /\ IsFiniteSet(Starts) /\ 0 \in Starts
         /\ Cardinality(Newlines) \in Nat
         /\ Cardinality(Starts) = Cardinality(Newlines) + 1
<1>1. Len(file) \in Nat /\ Newlines \subseteq 1..Len(file)  BY FileType DEF Newlines
<1>a. IsFiniteSet(1..Len(file))  BY <1>1, FS_Interval
<1>2. IsFiniteSet(Newlines)  BY <1>1, <1>a, FS_Subset
<1>3. 0 \notin Newlines  BY <1>1
<1> QED BY <1>1, <1>2, <1>3, FS_AddElement, FS_CardinalityType DEF Starts

LEMMA BehindType ==
  ASSUME InputInv, NEW p \in Int
  PROVE  /\ IsFiniteSet({s \in Starts : s < p}) /\ Behind(p) \in Nat
         /\ Behind(p) <= Cardinality(Starts)
  BY StartsType, FS_Subset, FS_CardinalityType DEF Behind

LEMMA BehindNext ==
  ASSUME InputInv, NEW p \in 0..Len(file), NEW q \in (p + 1)..EndOf(p)
  PROVE  /\ Behind(q) = IF p \in Starts THEN Behind(p) + 1 ELSE Behind(p)
         /\ q # EndOf(p) => q \notin Starts
<1>0. EndOf(p) \in Int  BY LineEnds, FileType
<1>1. \A i \in Starts : i > p => EndOf(p) <= i
  BY LineEnds, StartsType DEF Starts
<1>2. \A i \in Starts : i \in Int  BY StartsType
<1>3. {s \in Starts : s < q} = {s \in Starts : s < p} \cup ({p} \cap Starts)
  BY <1>0, <1>1, <1>2
<1>4. p \notin {s \in Starts : s < p} /\ p \in Int  OBVIOUS
<1>5. Behind(q) = IF p \in Starts THEN Behind(p) + 1 ELSE Behind(p)
  <2>1. CASE p \in Starts
    <3>1. {s \in Starts : s < q} = {s \in Starts : s < p} \cup {p}  BY <1>3, <2>1
    <3> QED BY <1>4, <2>1, <3>1, BehindType, FS_AddElement DEF Behind
  <2>2. CASE p \notin Starts
    <3>1. {s \in Starts : s < q} = {s \in Starts : s < p}  BY <1>3, <2>2
    <3> QED BY <2>2, <3>1 DEF Behind
  <2> QED BY <2>1, <2>2
<1>6. q # EndOf(p) => q \notin Starts  BY <1>0, <1>1
<1> QED BY <1>5, <1>6

LEMMA PlaceKeeps ==
  ASSUME ContextInv, InputInv, ProgressInv, PlaceInv, [Next]_vars
  PROVE  PlaceInv'
<1> DEFINE Kept(at, counted) ==
      counted <= Behind(at) /\ (at \notin Starts /\ at < Len(file) => counted < Behind(at))
<1> SUFFICES ASSUME stage = "jsonl", gen' # NoState
             PROVE  Kept(gen'.at, gen'.line_no + One(pc' = "bytes"))
  <2>1. \A p : Behind(p)' = Behind(p)  BY InputsStay DEF Behind, Starts, Newlines
  <2>2. Starts' = Starts /\ file' = file /\ stage' = stage
    BY InputsStay DEF Starts, Newlines
  <2> QED BY <2>2, InputsStay DEF PlaceInv, Behind, Starts, Newlines, One
<1> DEFINE counted == gen.line_no + One(pc = "bytes")
<1>o. gen # NoState => Kept(gen.at, counted)  BY DEF PlaceInv
<1>1. CASE Still
  <2>1. gen # NoState /\ gen' = gen /\ (pc' = "bytes" <=> pc = "bytes")
    BY <1>1, StillKeeps DEF Fresh, Reading, Holding
  <2> QED BY <1>o, <2>1 DEF One
<1>2. CASE OpenFile
  <2>1. gen'.at = 0 /\ gen'.line_no = 0 /\ pc' = "opened"
    BY <1>2, OpenRows DEF OpenFile, Reader
  <2>2. gen'.line_no + One(pc' = "bytes") = 0  BY <2>1 DEF One
  <2>3. 0 \in Int /\ 0 \in Starts  BY StartsType
  <2>4. Behind(0) \in Nat  BY <2>3, BehindType, Zenon
  <2> QED BY <2>1, <2>2, <2>3, <2>4
<1>3. CASE LineSteps /\ gen \in JsonlStates /\ gen # NoState
  <2>0. /\ gen.at \in 0..Len(file) /\ gen.line_no \in Nat /\ Len(file) \in Nat
        /\ gen.config.line \in Nat \ {0}
        /\ Behind(gen.at) \in Nat
    <3>1. /\ gen.at \in 0..Len(file) /\ gen.line_no \in Nat /\ Len(file) \in Nat
          /\ gen.config.line \in Nat \ {0}
      BY <1>3, LineFits, ConfigType, FileType
    <3>2. gen.at \in Int  BY <3>1
    <3> QED BY <3>1, <3>2, BehindType
  <2>a. /\ counted <= Behind(gen.at)
        /\ gen.at \notin Starts /\ gen.at < Len(file) => counted < Behind(gen.at)
    BY <1>3, <1>o
  <2>1. CASE \/ LineStops \/ LineBegins \/ LineBytes \/ LineCounted \/ LineSkipped
             \/ LineGiven \/ LineRefused
    <3>1. gen'.at = gen.at /\ gen'.line_no + One(pc' = "bytes") = counted
      BY <2>0, <2>1 DEF LineStops, LineBegins, LineBytes, LineCounted, LineSkipped,
                        LineGiven, LineRefused, Stays, Moves, One
    <3> QED BY <2>a, <3>1
  <2>2. CASE LineGivenUp
    <3> DEFINE q == gen.at + gen.config.line + 1
    <3>1. /\ q < LineEnd /\ q \in (gen.at + 1)..Len(file) /\ LineEnd = EndOf(gen.at)
      BY <1>3, <2>2, ReadsOn, GenLine DEF LineGivenUp
    <3>2. EndOf(gen.at) \in Int  BY <2>0, LineEnds
    <3>3. q \in (gen.at + 1)..EndOf(gen.at) /\ q # EndOf(gen.at)  BY <2>0, <3>1, <3>2
    <3> HIDE DEF q
    <3>4. /\ Behind(q) = IF gen.at \in Starts THEN Behind(gen.at) + 1 ELSE Behind(gen.at)
          /\ q \notin Starts /\ gen.at < Len(file)
      BY <2>0, <3>1, <3>3, BehindNext
    <3>5. gen'.at = q /\ gen'.line_no + One(pc' = "bytes") = counted /\ counted \in Nat
      BY <2>0, <2>2 DEF LineGivenUp, Moves, One, q
    <3> QED BY <2>0, <2>a, <3>4, <3>5
  <2>3. CASE LineTaken
    <3> DEFINE q == Min({LineEnd, Len(file)})
    <3>1. /\ gen.at < Len(file) /\ q \in (gen.at + 1)..Len(file) /\ LineEnd = EndOf(gen.at)
          /\ LineEnd <= Len(file) => q = LineEnd
          /\ LineEnd = Len(file) + 1 => q = Len(file)
      BY <1>3, <2>3, ReadsOn, GenLine DEF LineTaken
    <3>2. /\ EndOf(gen.at) \in (gen.at + 1)..(Len(file) + 1)
          /\ EndOf(gen.at) \in Starts \/ EndOf(gen.at) = Len(file) + 1
      BY <2>0, LineEnds DEF Starts
    <3> HIDE DEF q
    <3>3. q \in (gen.at + 1)..EndOf(gen.at) /\ (q \in Starts \/ q = Len(file))
      BY <2>0, <3>1, <3>2
    <3>4. Behind(q) = IF gen.at \in Starts THEN Behind(gen.at) + 1 ELSE Behind(gen.at)
      BY <2>0, <3>3, BehindNext
    <3>5. gen'.at = q /\ gen'.line_no + One(pc' = "bytes") = counted + 1 /\ counted \in Nat
      BY <2>0, <2>3 DEF LineTaken, Moves, One, q
    <3> QED BY <2>0, <2>a, <3>1, <3>3, <3>4, <3>5
  <2> QED BY <1>3, <2>1, <2>2, <2>3 DEF LineSteps
<1> QED BY <1>1, <1>2, <1>3, StageSteps, JsonlEffects

-----------------------------------------------------------------------------
(* Rows are what rows of the stage can be.                                 *)
LEMMA MaxOf ==
  ASSUME NEW T \in SUBSET Nat, NEW n \in Nat, T # {}, \A t \in T : t <= n
  PROVE  Max(T) \in T /\ \A m \in T : Max(T) >= m
<1> DEFINE R == {n - t : t \in T}
<1>0. \A t \in T : n - t \in Nat /\ n - t \in R  OBVIOUS
<1>1. R \in SUBSET Nat /\ R # {}  BY <1>0
<1>2. PICK r \in R : \A m \in R : r <= m  BY <1>1, LeastNatural
<1>3. PICK t \in T : r = n - t  BY <1>2
<1>4. ASSUME NEW m \in T  PROVE t >= m
  <2>1. n - t <= n - m  BY <1>0, <1>2, <1>3
  <2> QED BY <2>1
<1> QED BY <1>3, <1>4 DEF Max

LEMMA TrimmedType ==
  ASSUME NEW line \in Seq(Bytes \ {"n"}), NEW size \in Nat, Document(line, size)
  PROVE  Trimmed(line) \in Seq({"j", "s"})
<1>1. Len(line) \in Nat /\ DOMAIN line = 1..Len(line)  OBVIOUS
<1>2. \A i \in 1..Len(line) : line[i] \in {"j", "s"}
  <2> SUFFICES ASSUME NEW i \in 1..Len(line)  PROVE line[i] \in {"j", "s"}
    OBVIOUS
  <2>1. line[i] \in Bytes \ {"n"} /\ line[i] \in Range(line)  BY <1>1 DEF Range
  <2>2. "x" \notin Range(line) /\ "g" \notin Range(line)  BY DEF Document, Utf8
  <2>3. line[i] # "x" /\ line[i] # "g"  BY <2>1, <2>2
  <2> QED BY <2>1, <2>3 DEF Bytes
<1>3. Ink(line) # {} /\ Ink(line) \in SUBSET Nat /\ \A i \in Ink(line) : i <= Len(line) /\ i >= 1
  BY <1>1 DEF Document, Blank, Ink
<1>4. PICK a \in Ink(line) : a = Min(Ink(line))  BY <1>3, MinOf
<1>5. PICK b \in Ink(line) : b = Max(Ink(line))  BY <1>1, <1>3, MaxOf
<1>6. a \in 1..Len(line) /\ b \in 1..Len(line)  BY <1>1, <1>3
<1>7. line \in Seq({"j", "s"})
  <2>1. line = [i \in 1..Len(line) |-> line[i]]  BY <1>1
  <2> QED BY <1>1, <1>2, <2>1
<1>8. SubSeq(line, a, b) \in Seq({"j", "s"})  BY <1>6, <1>7
<1> QED BY <1>4, <1>5, <1>8 DEF Trimmed

LEMMA NewRow ==
  ASSUME ContextInv, RowInv, Row' = Row, Len(Rows') = Len(Rows) + 1,
         \A n \in 1..Len(Rows) : Rows'[n] = Rows[n], Rows'[Len(Rows) + 1] \in Row
  PROVE  RowInv'
<1>1. Len(Rows) \in Nat  BY RowsType
<1>2. \A n \in 1..Len(Rows') : n \in 1..Len(Rows) \/ n = Len(Rows) + 1  BY <1>1
<1> QED BY <1>2 DEF RowInv

LEMMA RowKeeps ==
  ASSUME ContextInv, InputInv, ProgressInv, RowInv, [Next]_vars
  PROVE  RowInv'
<1>0. Row' = Row  BY InputsStay DEF Row
<1>a. ASSUME Rows' = Rows  PROVE RowInv'  BY <1>a, <1>0 DEF RowInv
<1>1. CASE stage = "any"
  <2>1. Len(emitted) \in Nat  BY RowsType
  <2>2. CASE Rows' = Rows  BY <1>a, <2>2
  <2>3. CASE AnyNext
    <3>1. AnyReturns \/ Rows' = Rows
      <4>1. AnyOpen => Rows' = Rows
        BY OpenRows, <2>1 DEF AnyOpen, OpenFails, CanPull, thread, history, Rows
      <4>2. AnyCounts \/ AnyRecords => Rows' = Rows
        BY DEF AnyCounts, AnyRecords, Hook, history, Rows
      <4>3. AnyAsks => Rows' = Rows
        BY DEF AnyAsks, AskInterrupt, AskDeadline, history, Rows
      <4>4. AnyHears => Rows' = Rows
        BY ResultKinds DEF AnyHears, ReadInterrupt, ReadDeadline, history, Rows, ContextInv, FlowInv
      <4> QED BY <2>3, <4>1, <4>2, <4>3, <4>4 DEF AnyNext
    <3>2. CASE AnyReturns
      <4>1. PICK r : /\ Hook("next", "return", gen, fields, r)
                     /\ r.kind # "advanced" \/ r.row = [i |-> Len(emitted)]
        BY <3>2, ResultKinds DEF AnyReturns, Returns
      <4>2. r.kind # "advanced" => Rows' = Rows  BY <4>1, HookRows
      <4>3. r.kind = "advanced" =>
              /\ Len(Rows') = Len(Rows) + 1 /\ Rows'[Len(Rows) + 1] = [i |-> Len(emitted)]
              /\ \A n \in 1..Len(Rows) : Rows'[n] = Rows[n]
        BY <4>1, HookRows
      <4>4. [i |-> Len(emitted)] \in Row  BY <1>1, <2>1 DEF Row
      <4> QED BY <1>0, <1>a, <4>2, <4>3, <4>4, NewRow
    <3> QED BY <1>a, <3>1, <3>2
  <2>4. CASE InContext
    BY <1>a, <2>4 DEF InContext, BeginNext, CanPull, HostAnswersInterrupt, history, EndNext, Rows
  <2>5. CASE Elsewhere \/ UNCHANGED vars
    <3>1. Interrupt \/ ReleaseStatus \/ HostDestroysMetrics \/ HostCreatesMetrics
          \/ (\E v \in Patches : HostUpdatesMetrics("rows", v)) \/ UNCHANGED vars
          => Rows' = Rows
      BY DEF Interrupt, ReleaseStatus, HostDestroysMetrics, HostCreatesMetrics,
             HostUpdatesMetrics, vars, context, thread, history, Rows
    <3>2. DestroyExecutor => Rows' = Rows
      BY DEF DestroyExecutor, history, Rows
    <3> QED BY <1>a, <2>5, <3>1, <3>2 DEF Elsewhere, Host
  <2> QED BY <1>1, <2>3, <2>4, <2>5 DEF Next, Thread
<1>2. CASE stage # "any" /\ Still  BY <1>2, <1>a, StillKeeps
<1>3. ASSUME NEW s, Opens(s)  PROVE RowInv'  BY <1>3, <1>a, OpenRows
<1>4. CASE stage = "fibonacci" /\ FibNext /\ ~Still
  <2>1. CASE FibOpen  BY <1>3, <1>4, <2>1 DEF FibOpen, Still
  <2>2. CASE pc = "next" /\ FibEof
    <3>1. Hook("next", "return", gen, fields, Eof)  BY <2>2 DEF FibEof, Returns
    <3> QED BY <1>a, <3>1, HookRows, ResultKinds
  <2>3. CASE pc = "next" /\ FibRow
    <3> DEFINE s == [gen EXCEPT !.i = @ + 1, !.a = gen.b, !.b = Sum2(gen.a, gen.b)]
               row == [i |-> gen.i, value |-> gen.a]
               r == Advanced(row)
    <3>1. Hook("next", "return", s, Inc(fields, "rows_out", 1), r)
      BY <2>3 DEF FibRow, Returns
    <3>2. r.kind = "advanced" /\ r.row = row  BY ResultKinds
    <3>3. row \in Row
      <4>1. gen \in FibStates /\ gen.i < gen.n  BY <1>4, <2>3, Inner DEF States, FibRow
      <4>2. gen.i \in 0..Cap /\ gen.a \in 0..MaxInt
        BY <1>4, <4>1, CappedFits, Widths DEF FibStates
      <4> QED BY <1>4, <4>2 DEF Row
    <3> HIDE DEF s, r, row
    <3>4. /\ Len(Rows') = Len(Rows) + 1 /\ Rows'[Len(Rows) + 1] = row
          /\ \A n \in 1..Len(Rows) : Rows'[n] = Rows[n]
      BY <3>1, <3>2, HookRows
    <3> QED BY <1>0, <3>3, <3>4, NewRow
  <2> QED BY <1>4, <2>1, <2>2, <2>3 DEF FibNext
<1>5. CASE stage = "lookup" /\ LookupNext /\ ~Still
  <2>1. CASE LookupOpen  BY <1>3, <1>5, <2>1 DEF LookupOpen, Still
  <2>2. CASE pc = "next" /\ LookupEof
    <3>1. Hook("next", "return", gen, fields, Eof)  BY <2>2 DEF LookupEof, Returns
    <3> QED BY <1>a, <3>1, HookRows, ResultKinds
  <2>3. CASE pc = "next" /\ LookupRow
    <3> DEFINE s == [gen EXCEPT !.pending = Tail(@)]
               row == Head(gen.pending)
               r == Advanced(row)
    <3>1. Hook("next", "return", s, fields, r)  BY <2>3 DEF LookupRow, Returns
    <3>2. r.kind = "advanced" /\ r.row = row  BY ResultKinds
    <3>3. row \in Row
      <4>1. gen.pending \in Seq(Range(args.candidates)) /\ gen.pending # << >>
        BY <1>5, <2>3, Inner DEF States, LookupStates, LookupRow
      <4>2. row \in Range(args.candidates)  BY <4>1
      <4> QED BY <1>5, <4>2 DEF Row
    <3> HIDE DEF s, r, row
    <3>4. /\ Len(Rows') = Len(Rows) + 1 /\ Rows'[Len(Rows) + 1] = row
          /\ \A n \in 1..Len(Rows) : Rows'[n] = Rows[n]
      BY <3>1, <3>2, HookRows
    <3> QED BY <1>0, <3>3, <3>4, NewRow
  <2> QED BY <1>5, <2>1, <2>2, <2>3 DEF LookupNext
<1>6. CASE /\ stage = "perf" /\ ~Still
           /\ \/ PerfOpen
              \/ pc = "row" /\ (PerfEof \/ PerfPanics \/ PerfFails \/ PerfWaits)
              \/ pc = "wait" /\ (PerfSleep \/ PerfRow)
  <2>1. CASE PerfOpen  BY <1>3, <1>6, <2>1 DEF PerfOpen, Still
  <2>2. CASE \/ pc = "row" /\ (PerfEof \/ PerfPanics \/ PerfFails \/ PerfWaits)
             \/ pc = "wait" /\ PerfSleep
    <3>1. PICK at, to, s, r : /\ Hook(at, to, s, fields, r) /\ at \in {"row", "wait"}
                              /\ to # "return" \/ r.kind # "advanced"
      BY <2>2, ResultKinds DEF PerfEof, PerfPanics, PerfFails, PerfWaits, PerfSleep, Returns
    <3> QED BY <1>a, <3>1, HookRows
  <2>3. CASE pc = "wait" /\ PerfRow
    <3> DEFINE s == [Rested EXCEPT !.next = @ + 1]
               row == [i |-> gen.next, scored |-> gen.config.metadata]
               r == Advanced(row)
    <3>1. Hook("wait", "return", s, Inc(fields, "rows", 1), r)
      BY <2>3 DEF PerfRow, Returns
    <3>2. r.kind = "advanced" /\ r.row = row  BY ResultKinds
    <3>3. row \in Row
      <4>1. gen \in PerfStates /\ gen # NoState  BY <1>6, <2>3, Inner, NotNoState DEF States
      <4>2. PerfAccepts /\ gen.next < gen.config.rows /\ gen.config = PerfConfig /\ gen.next \in Nat
        BY <1>6, <2>3, <4>1 DEF ProgressInv, PerfInv, PerfStates
      <4>3. gen.next \in 0..MostRows /\ gen.config.metadata \in BOOLEAN
        <5>1. PerfConfig.metadata \in BOOLEAN  BY DEF PerfConfig
        <5>2. PerfConfig.rows \in 0..MostRows /\ MostRows \in Nat
          BY <1>6, <4>2, PerfConfigType, BoundsAssumption, Widths
        <5> QED BY <4>2, <5>1, <5>2
      <4> QED BY <1>6, <4>3 DEF Row
    <3> HIDE DEF s, r, row
    <3>4. /\ Len(Rows') = Len(Rows) + 1 /\ Rows'[Len(Rows) + 1] = row
          /\ \A n \in 1..Len(Rows) : Rows'[n] = Rows[n]
      BY <3>1, <3>2, HookRows
    <3> QED BY <1>0, <3>3, <3>4, NewRow
  <2> QED BY <1>6, <2>1, <2>2, <2>3
<1>7. CASE stage = "jsonl" /\ JsonlNext /\ ~Still
  <2>1. CASE OpenFile  BY <1>3, <2>1 DEF OpenFile
  <2>2. CASE LineSteps /\ gen \in JsonlStates /\ gen # NoState
    <3>1. CASE ~LineGiven
      BY <1>a, <2>2, <3>1
      DEF LineSteps, LineStops, LineBegins, LineGivenUp, LineTaken, LineBytes,
          LineCounted, LineSkipped, LineRefused
    <3>2. CASE LineGiven
      <4>1. Trimmed(gen.line) \in Seq({"j", "s"})
        <5>1. gen.line \in Seq(Bytes \ {"n"}) /\ gen.config.document \in Nat
          BY <1>7, <2>2, <3>2, LineFits, ConfigType
          DEF LineGiven, ProgressInv, JsonlInv, Holding
        <5> QED BY <3>2, <5>1, TrimmedType DEF LineGiven
      <4>2. gen.line_no \in 1..Len(file)
        <5>1. gen.returned + 1 <= gen.line_no /\ gen.line_no <= gen.at
          BY <1>7, <2>2, <3>2, LineFits DEF LineGiven, ProgressInv, JsonlInv, Holding, One
        <5> QED BY <2>2, <5>1, LineFits, FileType
      <4>3. [line |-> gen.line_no, text |-> Trimmed(gen.line)] \in Row
        BY <1>7, <4>1, <4>2 DEF Row
      <4> QED BY <1>0, <3>2, <4>3, NewRow DEF LineGiven
    <3> QED BY <3>1, <3>2
  <2> QED BY <1>7, <2>1, <2>2, JsonlEffects
<1> QED BY <1>1, <1>2, <1>4, <1>5, <1>6, <1>7, StageSteps

LEMMA InitPlaces == Init => PlaceInv /\ RowInv
<1>1. Init => gen = NoState /\ Rows = << >>  BY DEF Init, InitContext, Rows
<1> QED BY <1>1 DEF PlaceInv, RowInv

(* The variables are of their types.                                       *)
THEOREM Types == Spec => []TypeOK
<1>1. Init => PlaceInv /\ RowInv  BY InitPlaces
<1>2. ContextInv /\ InputInv /\ ProgressInv /\ PlaceInv /\ RowInv /\ [Next]_vars
        => (PlaceInv /\ RowInv)'
  BY PlaceKeeps, RowKeeps
<1>3. ContextInv /\ InputInv /\ ProgressInv /\ PlaceInv /\ RowInv => TypeOK
  <2> SUFFICES ASSUME ContextInv, InputInv, ProgressInv, PlaceInv, RowInv  PROVE TypeOK
    OBVIOUS
  <2>1. ContextTypeOK
    <3>1. MetricsTypeOK  BY DEF ContextInv, HandleInv, FieldsType, MetricsTypeOK
    <3>2. answer \in [ret : HostReturns, code : {"ok", "interrupted", "failed"}]
      BY DEF ContextInv, StatusInv, Answers
    <3>3. out.kind \in {"none", "advanced", "eof", "error", "panic"} /\ out.code \in Codes
      BY ResultKinds DEF ContextInv, FlowInv, Results
    <3> QED BY <3>1, <3>2, <3>3
            DEF ContextInv, FlowInv, StatusInv, HistoryInv, ContextTypeOK, Codes
  <2>n. Len(emitted) \in Nat /\ emitted \in Seq(Range(emitted))  BY RowsType
  <2>2. out.kind = "advanced" => out.row \in Row
    <3>1. out.kind = "advanced" => pc = "return"
      BY ResultKinds DEF ContextInv, FlowInv
    <3>2. ASSUME out.kind = "advanced"  PROVE out.row \in Row
      <4>1. Rows = Append(emitted, out.row)  BY <3>1, <3>2 DEF Rows
      <4>2. Len(Rows) = Len(emitted) + 1 /\ Rows[Len(emitted) + 1] = out.row
        BY <2>n, <4>1, Appended
      <4>3. Rows[Len(emitted) + 1] \in Row  BY <2>n, <4>2 DEF RowInv
      <4> QED BY <4>2, <4>3
    <3> QED BY <3>2
  <2>3. \A n \in DOMAIN emitted : emitted[n] \in Row
    <3> SUFFICES ASSUME NEW n \in 1..Len(emitted)  PROVE emitted[n] \in Row
      BY <2>n
    <3>1. CASE Rows = emitted  BY <3>1 DEF RowInv
    <3>2. CASE Rows = Append(emitted, out.row)
      <4>1. Len(Rows) = Len(emitted) + 1 /\ Rows[n] = emitted[n]
        BY <2>n, <3>2, Appended
      <4>2. n \in 1..Len(Rows)  BY <2>n, <4>1
      <4> QED BY <4>1, <4>2 DEF RowInv
    <3> QED BY <3>1, <3>2 DEF Rows
  <2>4. ASSUME gen # NoState
        PROVE  /\ gen.stage = stage
               /\ stage = "jsonl" => /\ gen.at \in 0..Len(file)
                                     /\ gen.line_no \in 0..(Cardinality(Newlines) + 1)
               /\ stage = "fibonacci" => gen.i \in 0..gen.n
               /\ stage = "perf" => gen.slept \in 0..gen.config.delay
    <3>1. gen \in States  BY <2>4 DEF ContextInv, FlowInv
    <3>2. gen.stage = stage
      <4>1. stage \in {"jsonl", "fibonacci", "perf", "lookup"} => gen.stage = stage
        BY <3>1 DEF States, JsonlStates, FibStates, PerfStates, LookupStates
      <4>2. stage = "any" => gen.stage = "any"  BY <3>1 DEF States, AnyStates
      <4> QED BY <4>1, <4>2 DEF InputInv
    <3>3. ASSUME stage = "jsonl"
          PROVE  /\ gen.at \in 0..Len(file)
                 /\ gen.line_no \in 0..(Cardinality(Newlines) + 1)
      <4>1. gen \in JsonlStates  BY <3>1, <3>3 DEF States
      <4>2. gen.at \in 0..Len(file) /\ gen.at \in Int /\ gen.line_no \in Nat
        BY <4>1, LineFits, FileType
      <4>3. gen.line_no + One(pc = "bytes") <= Behind(gen.at)
        BY <2>4, <3>3 DEF PlaceInv
      <4>4. Behind(gen.at) \in Nat /\ Behind(gen.at) <= Cardinality(Newlines) + 1
            /\ Cardinality(Newlines) \in Nat
        BY <4>2, BehindType, StartsType
      <4> QED BY <4>2, <4>3, <4>4 DEF One
    <3>4. stage = "fibonacci" => gen.i \in 0..gen.n
      BY <2>4, <3>1, CappedFits DEF States, FibStates, ProgressInv, FibInv
    <3>5. stage = "perf" => gen.slept \in 0..gen.config.delay
      BY <2>4, <3>1, PerfConfigType, BoundsAssumption
      DEF States, PerfStates, ProgressInv, PerfInv
    <3> QED BY <3>2, <3>3, <3>4, <3>5
  <2> QED BY <2>1, <2>2, <2>3, <2>4 DEF TypeOK
<1> QED BY <1>1, <1>2, <1>3, ProgressHolds, PTL DEF Spec


-----------------------------------------------------------------------------
(* The rows are those asked for.  Counting the members of a set of numbers *)
(* up to one of them tells which it is.                                    *)
LEMMA NthIs ==
  ASSUME NEW S \in SUBSET Int, IsFiniteSet(S), NEW x \in S
  PROVE  Nth(S, Cardinality({y \in S : y <= x})) = x
<1> DEFINE up(z) == {y \in S : y <= z}
<1>0. \A z \in S : z \in Int  OBVIOUS
<1>1. \A z \in S : IsFiniteSet(up(z))  BY FS_Subset
<1>2. ASSUME NEW a \in S, NEW b \in S, a < b  PROVE Cardinality(up(a)) # Cardinality(up(b))
  <2>0. \A y \in S : y <= a => y <= b  BY <1>0, <1>2
  <2>1. up(a) \in SUBSET up(b)  BY <2>0
  <2>2. b \in up(b) /\ b \notin up(a)  BY <1>0, <1>2
  <2> HIDE DEF up
  <2> QED BY <1>1, <2>1, <2>2, FS_Subset
<1>3. \A z \in S : Cardinality(up(z)) = Cardinality(up(x)) => z = x
  BY <1>0, <1>2
<1> QED BY <1>3 DEF Nth

LEMMA LineOf ==
  ASSUME InputInv, NEW p \in Starts
  PROVE  /\ Behind(p) + 1 \in DOMAIN Lines
         /\ Lines[Behind(p) + 1] = LineAt(p)
<1>1. /\ p \in 0..Len(file) /\ p \in Int /\ Starts \in SUBSET Int /\ IsFiniteSet(Starts)
      /\ \A s \in Starts : s \in Int
  BY StartsType, FileType
<1> DEFINE before == {s \in Starts : s < p}
           upto == {s \in Starts : s <= p}
<1>a. \A s \in Starts : s <= p <=> s < p \/ s = p  BY <1>1
<1>2. upto = before \cup {p} /\ p \notin before
  <2>1. p \notin before  BY <1>1
  <2> QED BY <1>a, <2>1
<1>3. IsFiniteSet(before) /\ Cardinality(before) = Behind(p) /\ Behind(p) \in Nat
  BY <1>1, BehindType DEF Behind
<1>4. Cardinality(upto) = Behind(p) + 1
  <2> HIDE DEF before, upto
  <2> QED BY <1>2, <1>3, FS_AddElement
<1>5. Start(Behind(p) + 1) = p
  BY <1>1, <1>4, NthIs DEF Start
<1>6. Behind(p) + 1 \in 1..Cardinality(Starts)
  <2>1. upto \in SUBSET Starts  OBVIOUS
  <2>2. Cardinality(upto) <= Cardinality(Starts) /\ Cardinality(Starts) \in Nat
    BY <1>1, <2>1, FS_Subset, FS_CardinalityType
  <2> QED BY <1>3, <1>4, <2>2
<1> QED BY <1>5, <1>6 DEF Lines, LineAt, EndOf

LEMMA LinesType ==
  ASSUME InputInv
  PROVE  /\ DOMAIN Lines = 1..Cardinality(Starts)
         /\ DocumentLines \in SUBSET Int /\ IsFiniteSet(DocumentLines)
         /\ DocumentLines \subseteq 1..Cardinality(Starts)
         /\ Cardinality(DocumentLines) \in Nat
<1>1. Cardinality(Starts) \in Nat  BY StartsType
<1>2. DOMAIN Lines = 1..Cardinality(Starts)  BY DEF Lines
<1>3. DocumentLines \subseteq 1..Cardinality(Starts)  BY <1>2 DEF DocumentLines
<1> HIDE DEF DocumentLines
<1>4. IsFiniteSet(1..Cardinality(Starts))  BY <1>1, FS_Interval
<1>5. IsFiniteSet(DocumentLines) /\ Cardinality(DocumentLines) \in Nat
  BY <1>3, <1>4, FS_Subset, FS_CardinalityType
<1> QED BY <1>1, <1>2, <1>3, <1>5

LEMMA UpToType ==
  ASSUME InputInv, NEW k \in Int
  PROVE  /\ IsFiniteSet(UpTo(k)) /\ Cardinality(UpTo(k)) \in Nat
         /\ Cardinality(UpTo(k)) <= Cardinality(DocumentLines)
         /\ Cardinality(UpTo(k + 1)) =
              Cardinality(UpTo(k)) + One(k + 1 \in DocumentLines)
         /\ k + 1 \in DocumentLines =>
              Nth(DocumentLines, Cardinality(UpTo(k)) + 1) = k + 1
<1>1. /\ IsFiniteSet(DocumentLines) /\ DocumentLines \in SUBSET Int
      /\ \A j \in DocumentLines : j \in Int
  BY LinesType
<1>2. UpTo(k) \in SUBSET DocumentLines  BY DEF UpTo
<1>3. /\ IsFiniteSet(UpTo(k)) /\ Cardinality(UpTo(k)) \in Nat
      /\ Cardinality(UpTo(k)) <= Cardinality(DocumentLines)
  BY <1>1, <1>2, FS_Subset, FS_CardinalityType
<1>4. UpTo(k + 1) = UpTo(k) \cup ({k + 1} \cap DocumentLines) /\ k + 1 \notin UpTo(k)
  <2>1. \A j \in DocumentLines : j <= k + 1 <=> j <= k \/ j = k + 1  BY <1>1
  <2>2. k + 1 \notin UpTo(k)  BY DEF UpTo
  <2> QED BY <2>1, <2>2 DEF UpTo
<1>5. CASE k + 1 \in DocumentLines
  <2>1. UpTo(k + 1) = UpTo(k) \cup {k + 1}  BY <1>4, <1>5
  <2>2. Cardinality(UpTo(k + 1)) = Cardinality(UpTo(k)) + 1
    BY <1>3, <1>4, <2>1, FS_AddElement
  <2>3. Nth(DocumentLines, Cardinality(UpTo(k + 1))) = k + 1
    BY <1>1, <1>5, NthIs DEF UpTo
  <2> QED BY <1>3, <1>5, <2>2, <2>3 DEF One
<1>6. CASE k + 1 \notin DocumentLines
  <2>1. UpTo(k + 1) = UpTo(k)  BY <1>4, <1>6
  <2> QED BY <1>3, <1>6, <2>1 DEF One
<1> QED BY <1>3, <1>5, <1>6


LEMMA LinesStay ==
  ASSUME InputInv, [Next]_vars
  PROVE  /\ Starts' = Starts /\ Lines' = Lines /\ DocumentLines' = DocumentLines
         /\ (NoLongLine' <=> NoLongLine)
         /\ stage # "any" => Expected' = Expected
<1>1. file' = file /\ options' = options /\ limit' = limit /\ stage' = stage /\ args' = args
  BY InputsStay
<1>2. Newlines' = Newlines /\ Starts' = Starts  BY <1>1 DEF Newlines, Starts
<1>3. Lines' = Lines  BY <1>1, <1>2 DEF Lines, Start
<1>4. Config(options)' = Config(options)  BY <1>1 DEF Config
<1>5. DocumentLines' = DocumentLines  BY <1>3, <1>4 DEF DocumentLines
<1>6. NoLongLine' <=> NoLongLine  BY <1>3, <1>4 DEF NoLongLine
<1>7. ExpectedDocuments' = ExpectedDocuments
  BY <1>1, <1>3, <1>5 DEF ExpectedDocuments
<1>8. PerfConfig' = PerfConfig  BY <1>1 DEF PerfConfig
<1>9. stage # "any" => Expected' = Expected
  <2>1. CASE stage = "jsonl"  BY <1>1, <1>7, <2>1 DEF Expected
  <2>2. CASE stage = "fibonacci"  BY <1>1, <2>2 DEF Expected
  <2>3. CASE stage = "perf"  BY <1>1, <1>8, <2>3 DEF Expected
  <2>4. CASE stage = "lookup"  BY <1>1, <2>4 DEF Expected
  <2> QED BY <2>1, <2>2, <2>3, <2>4 DEF InputInv
<1> QED BY <1>2, <1>3, <1>5, <1>6, <1>9

(* A line that is read.                                                    *)
LEMMA LineHeld ==
  ASSUME ContextInv, InputInv, ProgressInv, LineInv, stage = "jsonl", NoLongLine,
         gen # NoState, gen \in JsonlStates, pc = "decode"
  PROVE  /\ gen.line_no \in Nat /\ Decided = gen.line_no - 1
         /\ gen.line_no \in DocumentLines <=> Document(gen.line, gen.config.document)
         /\ gen.returned = Cardinality(UpTo(gen.line_no - 1))
<1>1. gen.line_no \in Nat /\ gen.returned \in Nat /\ gen.at \in 0..Len(file)
      /\ gen.config = Config(options)
  BY LineFits
<1>2. gen.line_no + One(pc = "bytes") = gen.line_no /\ One(pc \in Holding) = 1
  BY <1>1 DEF One, Holding
<1>3. Decided = gen.line_no - 1  BY <1>1, <1>2 DEF Decided
<1>4. gen.line_no = Behind(gen.at) /\ gen.line = Lines[Behind(gen.at)]
  BY <1>2 DEF LineInv, Holding
<1>5. gen.line_no >= 1  BY <1>1, <1>2 DEF ProgressInv, JsonlInv
<1>6. gen.line_no <= Cardinality(Starts) /\ Cardinality(Starts) \in Nat
  <2>1. gen.at \in Int  BY <1>1, FileType
  <2>2. Behind(gen.at) <= Cardinality(Starts)  BY <2>1, BehindType
  <2>3. Cardinality(Starts) \in Nat  BY StartsType
  <2> QED BY <1>4, <2>2, <2>3
<1>7. gen.line_no \in DOMAIN Lines  BY <1>1, <1>5, <1>6, LinesType
<1>8. gen.line_no \in DocumentLines <=> Document(gen.line, gen.config.document)
  BY <1>1, <1>4, <1>7 DEF DocumentLines
<1> QED BY <1>1, <1>3, <1>8 DEF LineInv

(* Between lines, at the end of the file: nothing but an empty line is     *)
(* left.                                                                   *)
LEMMA AllDecided ==
  ASSUME InputInv
  PROVE  UpTo(Behind(Len(file))) = DocumentLines
<1>1. Len(file) \in Nat /\ Len(file) \in Int /\ Len(file) \in 0..Len(file)  BY FileType
<1>2. Behind(Len(file)) \in Nat  BY <1>1, BehindType
<1>3. /\ DocumentLines \subseteq 1..Cardinality(Starts) /\ Cardinality(Starts) \in Nat
      /\ \A j \in DocumentLines : j \in Nat /\ j <= Cardinality(Starts)
  BY LinesType, StartsType
<1>4. \A s \in Starts : s \in Int /\ s <= Len(file)  BY <1>1, StartsType
<1>5. CASE Len(file) \notin Starts
  <2>1. {s \in Starts : s < Len(file)} = Starts  BY <1>1, <1>4, <1>5
  <2>2. Behind(Len(file)) = Cardinality(Starts)  BY <2>1 DEF Behind
  <2> QED BY <1>3, <2>2 DEF UpTo
<1>6. CASE Len(file) \in Starts
  <2> DEFINE last == Behind(Len(file)) + 1
  <2>1. last \in DOMAIN Lines /\ Lines[last] = LineAt(Len(file))  BY <1>6, LineOf
  <2>2. Len(LineAt(Len(file))) = 0
    <3>1. EndOf(Len(file)) \in (Len(file) + 1)..(Len(file) + 1)
          /\ Len(LineAt(Len(file))) = EndOf(Len(file)) - 1 - Len(file)
      BY <1>1, LineEnds
    <3>2. \A a, b \in Int : a \in (b + 1)..(b + 1) => a - 1 - b = 0  OBVIOUS
    <3>3. EndOf(Len(file)) \in Int  BY <1>1, <3>1
    <3> QED BY <1>1, <3>1, <3>2, <3>3
  <2>3. ~Document(LineAt(Len(file)), Config(options).document)
    <3>1. LineAt(Len(file)) \in Seq(Bytes)  BY <1>1, LineEnds
    <3>2. LineAt(Len(file)) = << >>  BY <2>2, <3>1
    <3>3. Ink(<< >>) = {}  BY DEF Ink
    <3> QED BY <3>2, <3>3 DEF Document, Blank
  <2>4. last \notin DocumentLines  BY <2>1, <2>3 DEF DocumentLines
  <2>5. Cardinality(Starts) = last
    <3> DEFINE before == {s \in Starts : s < Len(file)}
    <3>1. Starts = before \cup {Len(file)} /\ Len(file) \notin before
      BY <1>1, <1>4, <1>6
    <3>2. IsFiniteSet(before) /\ Cardinality(before) = Behind(Len(file))
      BY <1>1, BehindType DEF Behind
    <3> HIDE DEF before
    <3> QED BY <3>1, <3>2, FS_AddElement
  <2>6. \A j \in DocumentLines : j <= Behind(Len(file))
    <3> HIDE DEF last
    <3>1. \A j \in DocumentLines : j \in Nat /\ j <= last /\ j # last  BY <1>3, <2>4, <2>5
    <3>2. last = Behind(Len(file)) + 1  BY DEF last
    <3> QED BY <1>2, <3>1, <3>2
  <2> QED BY <2>6 DEF UpTo
<1> QED BY <1>5, <1>6


LEMMA LineKeeps ==
  ASSUME ContextInv, InputInv, ProgressInv, LineInv, [Next]_vars
  PROVE  LineInv'
<1> DEFINE Kept(at, line, place, counted, returned) ==
      /\ at \in Starts \cup {Len(file)}
      /\ counted = Behind(at)
      /\ place \in Holding => line = Lines[Behind(at)]
      /\ returned = Cardinality(UpTo(counted - One(place \in Holding)))
      /\ place \in {"read"} \cup Holding => limit = Unlimited \/ returned < limit
      /\ limit # Unlimited => returned <= limit
<1> DEFINE counted == gen.line_no + One(pc = "bytes")
<1> SUFFICES ASSUME stage = "jsonl", gen' # NoState, NoLongLine
             PROVE  Kept(gen'.at, gen'.line, pc', gen'.line_no + One(pc' = "bytes"),
                         gen'.returned)
  <2>1. \A p : Behind(p)' = Behind(p)  BY LinesStay DEF Behind
  <2>2. \A k : UpTo(k)' = UpTo(k)  BY LinesStay DEF UpTo
  <2>3. stage' = stage /\ file' = file /\ limit' = limit  BY InputsStay
  <2> QED BY <2>3, LinesStay DEF LineInv, Behind, UpTo, Decided, Open, Holding, One
<1>o. gen # NoState => Kept(gen.at, gen.line, pc, counted, gen.returned)
  BY DEF LineInv, Decided, Open
<1>1. CASE Still
  <2>1. gen # NoState /\ gen' = gen /\ (pc' = pc \/ {pc, pc'} \cap Reading = {})
    BY <1>1, StillKeeps DEF Fresh
  <2>2. One(pc' = "bytes") = One(pc = "bytes") /\ One(pc' \in Holding) = One(pc \in Holding)
        /\ (pc' \in {"read"} \cup Holding <=> pc \in {"read"} \cup Holding)
        /\ (pc' \in Holding <=> pc \in Holding)
    BY <2>1 DEF One, Holding, Reading
  <2> QED BY <1>o, <2>1, <2>2
<1>2. CASE OpenFile
  <2>1. gen'.at = 0 /\ gen'.line_no = 0 /\ gen'.returned = 0 /\ pc' = "opened"
    BY <1>2, OpenRows DEF OpenFile, Reader
  <2>2. One(pc' = "bytes") = 0 /\ One(pc' \in Holding) = 0  BY <2>1 DEF One, Holding
  <2>3. 0 \in Starts /\ Behind(0) = 0
    <3>1. {s \in Starts : s < 0} = {}  BY StartsType, FileType
    <3> QED BY <3>1, StartsType, FS_EmptySet DEF Behind
  <2>4. Cardinality(UpTo(0)) = 0
    <3>1. UpTo(0) = {}  BY LinesType, StartsType DEF UpTo
    <3> QED BY <3>1, FS_EmptySet
  <2>5. limit # Unlimited => 0 <= limit  BY FileType
  <2>6. pc' \notin {"read"} \cup Holding  BY <2>1 DEF Holding
  <2> QED BY <2>1, <2>2, <2>3, <2>4, <2>5, <2>6
<1>3. CASE LineSteps /\ gen \in JsonlStates /\ gen # NoState
  <2>0. /\ gen.at \in 0..Len(file) /\ gen.at \in Int /\ gen.line_no \in Nat
        /\ gen.returned \in Nat /\ Len(file) \in Nat
        /\ gen.config = Config(options) /\ gen.config.line \in Nat \ {0}
        /\ limit # Unlimited => limit \in Nat
    BY <1>3, LineFits, ConfigType, FileType
  <2>a. Kept(gen.at, gen.line, pc, counted, gen.returned)  BY <1>3, <1>o
  <2>1. CASE LineStops /\ pc # "decode"
    <3>1. /\ pc \in {"next", "read"} /\ pc' = "return" /\ Stays
      BY <2>1 DEF LineStops
    <3> QED BY <2>0, <2>a, <3>1 DEF Stays, Moves, One, Holding
  <2>2. CASE LineBegins
    <3>1. pc = "next" /\ pc' = "read" /\ Stays /\ Open  BY <2>2 DEF LineBegins
    <3> QED BY <2>0, <2>a, <3>1 DEF Stays, Moves, One, Holding, Open
  <2>3. CASE LineGivenUp
    <3>1. TooLong(gen.config) /\ Body = LineAt(gen.at) /\ pc = "read"
      BY <2>3, GenLine DEF LineGivenUp, LineTooLong
    <3>2. gen.at \in Starts
      <4>1. CASE gen.at = Len(file)
        <5>1. Len(Body) \in Nat /\ Len(Body) = EndOf(gen.at) - 1 - gen.at
              /\ EndOf(gen.at) \in (gen.at + 1)..(Len(file) + 1)
          BY <2>0, <3>1, LineEnds
        <5>2. EndOf(gen.at) \in Int  BY <2>0, <5>1
        <5> QED BY <2>0, <3>1, <4>1, <5>1, <5>2 DEF TooLong
      <4> QED BY <2>a, <4>1
    <3>3. Behind(gen.at) + 1 \in DOMAIN Lines /\ Lines[Behind(gen.at) + 1] = Body
      BY <3>1, <3>2, LineOf
    <3>4. Len(Body) \in Nat  BY <2>0, <3>1, LineEnds
    <3> QED BY <2>0, <3>1, <3>3, <3>4 DEF NoLongLine, TooLong
  <2>4. CASE LineTaken
    <3> DEFINE q == Min({LineEnd, Len(file)})
    <3>1. /\ gen.at < Len(file) /\ q \in (gen.at + 1)..Len(file) /\ LineEnd = EndOf(gen.at)
          /\ LineEnd <= Len(file) => q = LineEnd
          /\ LineEnd = Len(file) + 1 => q = Len(file)
          /\ Body = LineAt(gen.at) /\ pc = "read"
      BY <1>3, <2>4, ReadsOn, GenLine DEF LineTaken
    <3>2. /\ EndOf(gen.at) \in (gen.at + 1)..(Len(file) + 1)
          /\ EndOf(gen.at) \in Starts \/ EndOf(gen.at) = Len(file) + 1
      BY <2>0, LineEnds DEF Starts
    <3>5. gen'.at = q /\ gen'.line = Body /\ gen'.line_no = gen.line_no
          /\ gen'.returned = gen.returned /\ pc' = "bytes"
      BY <2>4 DEF LineTaken, Moves
    <3> HIDE DEF q
    <3>3. q \in (gen.at + 1)..EndOf(gen.at) /\ (q \in Starts \/ q = Len(file))
      BY <2>0, <3>1, <3>2
    <3>4. gen.at \in Starts  BY <2>0, <2>a, <3>1
    <3>6. Behind(q) = Behind(gen.at) + 1  BY <2>0, <3>3, <3>4, BehindNext
    <3>7. Lines[Behind(gen.at) + 1] = Body  BY <3>1, <3>4, LineOf
    <3>8. /\ counted = gen.line_no /\ One(pc' = "bytes") = 1 /\ One(pc' \in Holding) = 1
          /\ One(pc \in Holding) = 0
      BY <2>0, <3>1, <3>5 DEF One, Holding
    <3>9. counted = Behind(gen.at)  BY <2>a
    <3>10. gen.line_no - One(pc \in Holding) = gen.line_no + 1 - 1  BY <2>0, <3>8
    <3>11. limit = Unlimited \/ gen.returned < limit  BY <2>a, <3>1
    <3>12. gen.returned = Cardinality(UpTo(gen.line_no + 1 - 1))  BY <2>a, <3>8, <3>10
    <3> QED BY <2>0, <2>a, <3>3, <3>5, <3>6, <3>7, <3>8, <3>9, <3>11, <3>12
  <2>5. CASE LineBytes \/ LineCounted
    <3>1. /\ pc \in Holding /\ pc' \in Holding
          /\ gen'.line_no + One(pc' = "bytes") = counted
          /\ gen'.at = gen.at /\ gen'.line = gen.line /\ gen'.returned = gen.returned
      BY <2>0, <2>5 DEF LineBytes, LineCounted, Stays, Moves, One, Holding
    <3>2. One(pc' \in Holding) = One(pc \in Holding)  BY <3>1 DEF One
    <3> QED BY <2>a, <3>1, <3>2
  <2>6. CASE pc = "decode" /\ (LineStops \/ LineSkipped \/ LineGiven \/ LineRefused)
    <3>0. /\ gen.line_no \in DocumentLines <=> Document(gen.line, gen.config.document)
          /\ gen.returned = Cardinality(UpTo(gen.line_no - 1))
      BY <1>3, <2>6, LineHeld
    <3>1. /\ pc' \in {"return", "read"} /\ gen'.at = gen.at /\ gen'.line_no = gen.line_no
          /\ gen'.returned = gen.returned + One(Document(gen.line, gen.config.document))
      BY <2>0, <2>6
      DEF LineStops, LineSkipped, LineGiven, LineRefused, Stays, Moves, One, Document
    <3>2. /\ pc' = "read" => gen'.returned = gen.returned
      BY <2>6 DEF LineStops, LineSkipped, LineGiven, LineRefused, Stays, Moves
    <3>3. /\ counted = gen.line_no /\ gen'.line_no + One(pc' = "bytes") = gen.line_no
          /\ One(pc' \in Holding) = 0 /\ pc' \notin Holding /\ pc \in Holding
      BY <2>0, <2>6, <3>1 DEF One, Holding
    <3>4. Cardinality(UpTo((gen.line_no - 1) + 1)) =
            Cardinality(UpTo(gen.line_no - 1)) + One((gen.line_no - 1) + 1 \in DocumentLines)
      <4>1. gen.line_no - 1 \in Int  BY <2>0
      <4> QED BY <4>1, UpToType
    <3>5. (gen.line_no - 1) + 1 = gen.line_no /\ gen.line_no - 0 = gen.line_no  BY <2>0
    <3>6. One((gen.line_no - 1) + 1 \in DocumentLines)
            = One(Document(gen.line, gen.config.document))
      BY <3>0, <3>5 DEF One
    <3>7. gen'.returned = Cardinality(UpTo(gen.line_no - 0))
      BY <3>0, <3>1, <3>4, <3>5, <3>6
    <3>8. limit = Unlimited \/ gen.returned < limit  BY <2>a, <3>3
    <3>9. One(Document(gen.line, gen.config.document)) \in {0, 1}  BY DEF One
    <3>10. limit # Unlimited => gen'.returned <= limit  BY <2>0, <3>1, <3>8, <3>9
    <3> QED BY <2>a, <3>1, <3>2, <3>3, <3>5, <3>7, <3>8, <3>10
  <2> QED BY <1>3, <2>1, <2>2, <2>3, <2>4, <2>5, <2>6
          DEF LineSteps, LineSkipped, LineGiven, LineRefused
<1> QED BY <1>1, <1>2, <1>3, StageSteps, JsonlEffects


-----------------------------------------------------------------------------
(* Fibonacci numbers are what the recursion says: approximations of every  *)
(* length exist and agree.                                                 *)
FibUpTo(f, n) ==
    /\ f \in [0..n -> Nat]
    /\ \A i \in 0..n : f[i] = IF i < 2 THEN i ELSE f[i - 1] + f[i - 2]

LEMMA FibAgree ==
  ASSUME NEW n \in Nat, NEW m \in Nat, NEW f, NEW g, FibUpTo(f, n), FibUpTo(g, m), n <= m
  PROVE  \A i \in 0..n : f[i] = g[i]
<1> DEFINE T == {i \in 0..n : f[i] # g[i]}
<1> SUFFICES ASSUME T # {}  PROVE FALSE  OBVIOUS
<1>1. T \in SUBSET Nat  OBVIOUS
<1>2. PICK i \in T : \A k \in T : i <= k  BY <1>1, LeastNatural
<1>3. i \in 0..n /\ i \in 0..m /\ f[i] # g[i]  BY <1>2
<1>4. f[i] = (IF i < 2 THEN i ELSE f[i - 1] + f[i - 2])
      /\ g[i] = (IF i < 2 THEN i ELSE g[i - 1] + g[i - 2])
  BY <1>3 DEF FibUpTo
<1>5. ~(i < 2)  BY <1>3, <1>4
<1>6. i - 1 \in 0..n /\ i - 2 \in 0..n  BY <1>3, <1>5
<1>7. i - 1 \notin T /\ i - 2 \notin T  BY <1>2, <1>3
<1> QED BY <1>3, <1>4, <1>5, <1>6, <1>7

LEMMA FibExists == \A n \in Nat : \E f : FibUpTo(f, n)
<1> DEFINE T == {n \in Nat : \E f : FibUpTo(f, n)}
<1>1. 0 \in T
  <2> DEFINE f == [i \in 0..0 |-> 0]
  <2>1. FibUpTo(f, 0)  BY DEF FibUpTo
  <2> QED BY <2>1
<1>2. ASSUME NEW n \in Nat, n \in T  PROVE n + 1 \in T
  <2>1. PICK f : FibUpTo(f, n)  BY <1>2
  <2>2. f \in [0..n -> Nat]
        /\ \A i \in 0..n : f[i] = IF i < 2 THEN i ELSE f[i - 1] + f[i - 2]
    BY <2>1 DEF FibUpTo
  <2> DEFINE last == IF n + 1 < 2 THEN n + 1 ELSE f[n] + f[n - 1]
             g == [i \in 0..(n + 1) |-> IF i <= n THEN f[i] ELSE last]
  <2>3. last \in Nat
    <3>1. n + 1 >= 2 => n \in 0..n /\ n - 1 \in 0..n  OBVIOUS
    <3> QED BY <2>2, <3>1
  <2> HIDE DEF last
  <2>4. \A i \in 0..(n + 1) : (i <= n => i \in 0..n) /\ (~(i <= n) => i = n + 1)  OBVIOUS
  <2>5. g \in [0..(n + 1) -> Nat]  BY <2>2, <2>3, <2>4
  <2>6. /\ \A i \in 0..n : g[i] = f[i]
        /\ g[n + 1] = last
    OBVIOUS
  <2> HIDE DEF g
  <2>7. ASSUME NEW i \in 0..(n + 1)
        PROVE  g[i] = IF i < 2 THEN i ELSE g[i - 1] + g[i - 2]
    <3>1. CASE i \in 0..n
      <4>1. ~(i < 2) => i - 1 \in 0..n /\ i - 2 \in 0..n  BY <3>1
      <4> QED BY <2>2, <2>6, <3>1, <4>1
    <3>2. CASE i = n + 1
      <4>1. ~(i < 2) => n \in 0..n /\ n - 1 \in 0..n /\ i - 1 = n /\ i - 2 = n - 1  BY <3>2
      <4> QED BY <2>2, <2>6, <3>2, <4>1 DEF last
    <3> QED BY <2>4, <3>1, <3>2
  <2>8. FibUpTo(g, n + 1)  BY <2>5, <2>7 DEF FibUpTo
  <2> QED BY <2>8
<1> HIDE DEF T
<1>3. Nat \subseteq T  BY <1>1, <1>2, Induction
<1> QED BY <1>3 DEF T

LEMMA FibonacciIs ==
  \A i \in Nat : /\ Fibonacci[i] \in Nat
                 /\ Fibonacci[i] = IF i < 2 THEN i ELSE Fibonacci[i - 1] + Fibonacci[i - 2]
<1> DEFINE approx(n) == CHOOSE f : FibUpTo(f, n)
           F == [i \in Nat |-> approx(i)[i]]
<1>1. \A n \in Nat : FibUpTo(approx(n), n)  BY FibExists
<1> HIDE DEF approx
<1>2. \A i \in Nat : \A k \in 0..i : F[k] = approx(i)[k]
  <2> SUFFICES ASSUME NEW i \in Nat, NEW k \in 0..i  PROVE F[k] = approx(i)[k]  OBVIOUS
  <2>1. k \in Nat /\ k <= i /\ k \in 0..k  OBVIOUS
  <2>2. approx(k)[k] = approx(i)[k]  BY <1>1, <2>1, FibAgree
  <2> QED BY <2>1, <2>2
<1>3. ASSUME NEW i \in Nat
      PROVE  F[i] = (IF i < 2 THEN i ELSE F[i - 1] + F[i - 2]) /\ F[i] \in Nat
  <2>1. /\ approx(i) \in [0..i -> Nat]
        /\ \A k \in 0..i : approx(i)[k] = IF k < 2 THEN k
                                          ELSE approx(i)[k - 1] + approx(i)[k - 2]
    BY <1>1 DEF FibUpTo
  <2>2. i \in 0..i /\ (~(i < 2) => i - 1 \in 0..i /\ i - 2 \in 0..i)  OBVIOUS
  <2> HIDE DEF F
  <2> QED BY <1>2, <2>1, <2>2
<1>4. F = [i \in Nat |-> IF i < 2 THEN i ELSE F[i - 1] + F[i - 2]]
  <2>1. F = [i \in Nat |-> F[i]]  OBVIOUS
  <2> HIDE DEF F
  <2> QED BY <1>3, <2>1, Zenon
<1> HIDE DEF F
<1>5. Fibonacci = [i \in Nat |-> IF i < 2 THEN i ELSE Fibonacci[i - 1] + Fibonacci[i - 2]]
  BY <1>4, Zenon DEF Fibonacci
<1>6. \A i \in Nat : Fibonacci[i] = IF i < 2 THEN i ELSE Fibonacci[i - 1] + Fibonacci[i - 2]
  BY <1>5, Zenon
<1> DEFINE T == {i \in Nat : \A k \in 0..i : Fibonacci[k] \in Nat}
<1>7. 0 \in T
  <2>1. Fibonacci[0] = 0  BY <1>6
  <2>2. \A k \in 0..0 : k = 0  OBVIOUS
  <2> QED BY <2>1, <2>2
<1>8. ASSUME NEW n \in Nat, n \in T  PROVE n + 1 \in T
  <2>1. Fibonacci[n + 1] = IF n + 1 < 2 THEN n + 1 ELSE Fibonacci[(n + 1) - 1] + Fibonacci[(n + 1) - 2]
    <3>1. n + 1 \in Nat  OBVIOUS
    <3> QED BY <1>6, <3>1
  <2>2. ~(n + 1 < 2) => (n + 1) - 1 \in 0..n /\ (n + 1) - 2 \in 0..n  OBVIOUS
  <2>3. Fibonacci[n + 1] \in Nat  BY <1>8, <2>1, <2>2
  <2>4. \A k \in 0..(n + 1) : k \in 0..n \/ k = n + 1  OBVIOUS
  <2> QED BY <1>8, <2>3, <2>4
<1> HIDE DEF T
<1>9. Nat \subseteq T  BY <1>7, <1>8, Induction
<1>10. \A i \in Nat : i \in 0..i /\ Fibonacci[i] \in Nat  BY <1>9 DEF T
<1> QED BY <1>6, <1>10

LEMMA ClipSum ==
  ASSUME NEW x \in Nat, NEW y \in Nat
  PROVE  /\ Clip(Clip(x) + Clip(y)) = Clip(x + y)
         /\ Clip(0) = 0 /\ Clip(1) = 1
  BY Widths DEF Clip

LEMMA NumbersKeep ==
  ASSUME ContextInv, InputInv, ProgressInv, NumbersInv, [Next]_vars
  PROVE  NumbersInv'
<1> SUFFICES ASSUME stage = "fibonacci", gen' # NoState
             PROVE  /\ gen'.a = Clip(Fibonacci[gen'.i])
                    /\ gen'.n > 0 => gen'.b = Clip(Fibonacci[gen'.i + 1])
  <2>1. stage' = stage  BY InputsStay
  <2>2. \A n : Clip(n)' = Clip(n)  BY DEF Clip
  <2> QED BY <2>1 DEF NumbersInv, Clip
<1>0. gen # NoState => gen \in FibStates  BY DEF ContextInv, FlowInv, States
<1>1. CASE Still
  <2>1. gen' = gen  BY <1>1, StillKeeps
  <2> QED BY <2>1 DEF NumbersInv
<1>2. CASE FibOpen
  <2>1. CASE OpenFails
    <3>1. gen' = gen  BY <2>1 DEF OpenFails, thread
    <3> QED BY <3>1 DEF NumbersInv
  <2>2. CASE ~OpenFails
    <3>1. args.n >= 0 /\ args.n \in Int
      BY <1>2, <2>2, CappedFits DEF FibOpen, InputInv
    <3>2. gen'.i = 0 /\ gen'.n = Capped(args.n) /\ gen'.a = 0
          /\ gen'.b = IF args.n = 0 THEN 0 ELSE 1
      BY <1>2, <2>2, OpenRows DEF FibOpen
    <3>3. Fibonacci[0] = 0 /\ Fibonacci[0 + 1] = 1
      <4>1. 0 \in Nat /\ 1 \in Nat /\ 0 < 2 /\ 1 < 2 /\ 0 + 1 = 1  OBVIOUS
      <4> QED BY <4>1, FibonacciIs
    <3>4. Clip(0) = 0 /\ Clip(1) = 1  BY ClipSum
    <3>5. gen'.n > 0 => args.n # 0  BY <3>1, <3>2, BoundsAssumption, Widths DEF Capped
    <3> QED BY <3>2, <3>3, <3>4, <3>5
  <2> QED BY <2>1, <2>2
<1>3. CASE pc = "next" /\ FibEof
  <2>1. gen' = gen  BY <1>3 DEF FibEof, Returns, Hook
  <2> QED BY <2>1 DEF NumbersInv
<1>4. CASE pc = "next" /\ FibRow
  <2> DEFINE s == [gen EXCEPT !.i = @ + 1, !.a = gen.b, !.b = Sum2(gen.a, gen.b)]
  <2>1. gen' = s /\ gen.i < gen.n  BY <1>4 DEF FibRow, Returns, Hook
  <2>2. gen \in FibStates /\ gen # NoState
    BY <1>0, <1>4 DEF ContextInv, FlowInv
  <2>3. /\ gen'.i = gen.i + 1 /\ gen'.a = gen.b /\ gen'.b = Clip(gen.a + gen.b)
        /\ gen'.n = gen.n
    BY <2>1, <2>2 DEF FibStates, Sum2
  <2>4. gen.i \in Nat /\ gen.n \in Int /\ gen.n > 0
    BY <2>1, <2>2, CappedFits DEF FibStates
  <2> DEFINE i == gen.i
  <2>5. gen.a = Clip(Fibonacci[i]) /\ gen.b = Clip(Fibonacci[i + 1])
    BY <2>2, <2>4 DEF NumbersInv
  <2>6. Fibonacci[i] \in Nat /\ Fibonacci[i + 1] \in Nat
        /\ Fibonacci[(i + 1) + 1] = Fibonacci[i] + Fibonacci[i + 1]
    <3>1. i \in Nat /\ i + 1 \in Nat /\ (i + 1) + 1 \in Nat /\ ~((i + 1) + 1 < 2)
          /\ ((i + 1) + 1) - 1 = i + 1 /\ ((i + 1) + 1) - 2 = i
      BY <2>4
    <3>2. Fibonacci[i] \in Nat /\ Fibonacci[i + 1] \in Nat  BY <3>1, FibonacciIs
    <3>3. Fibonacci[(i + 1) + 1] = Fibonacci[i + 1] + Fibonacci[i]
      BY <3>1, FibonacciIs
    <3> QED BY <3>2, <3>3
  <2>7. Clip(gen.a + gen.b) = Clip(Fibonacci[i] + Fibonacci[i + 1])
    BY <2>5, <2>6, ClipSum
  <2> QED BY <2>3, <2>5, <2>6, <2>7
<1> QED BY <1>1, <1>2, <1>3, <1>4, StageSteps DEF FibNext


-----------------------------------------------------------------------------
(* How many rows there are to be.                                          *)
LEMMA ExpectedLength ==
  ASSUME InputInv, stage # "any"
  PROVE  /\ Len(Expected) \in Nat /\ DOMAIN Expected = 1..Len(Expected)
         /\ Expected \in Seq(Range(Expected))
         /\ stage = "fibonacci" /\ args.n >= 0 => Len(Expected) = Capped(args.n)
         /\ stage = "perf" /\ PerfAccepts => Len(Expected) = PerfConfig.rows
         /\ stage = "lookup" /\ args.catalog = "router" => Expected = args.candidates
         /\ stage = "jsonl" =>
              Len(Expected) = IF limit = Unlimited \/ Cardinality(DocumentLines) <= limit
                              THEN Cardinality(DocumentLines) ELSE limit
<1>1. \A n \in Nat : \A f : DOMAIN f = 1..n /\ f = [k \in 1..n |-> f[k]] =>
        Len(f) = n /\ f \in Seq(Range(f))
  BY DEF Range
<1>2. CASE stage = "jsonl"
  <2> DEFINE all == Cardinality(DocumentLines)
             n == IF limit = Unlimited THEN all ELSE Min({limit, all})
  <2>1. all \in Nat /\ (limit # Unlimited => limit \in Nat)  BY LinesType, FileType
  <2>2. n = IF limit = Unlimited \/ all <= limit THEN all ELSE limit
    <3> HIDE DEF all
    <3>1. ASSUME limit # Unlimited
          PROVE  Min({limit, all}) = IF all <= limit THEN all ELSE limit
      <4>1. {limit, all} \in SUBSET Nat /\ {limit, all} # {}  BY <2>1, <3>1
      <4>2. Min({limit, all}) \in {limit, all} /\ \A m \in {limit, all} : Min({limit, all}) <= m
        BY <4>1, MinOf
      <4> QED BY <2>1, <3>1, <4>2
    <3> QED BY <3>1
  <2>3. n \in Nat  BY <2>1, <2>2
  <2>4. Expected = ExpectedDocuments  BY <1>2 DEF Expected
  <2>5. DOMAIN Expected = 1..n /\ Expected = [k \in 1..n |-> Expected[k]]
    BY <2>4 DEF ExpectedDocuments
  <2> HIDE DEF all, n
  <2>6. Len(Expected) = n /\ Expected \in Seq(Range(Expected))  BY <1>1, <2>3, <2>5
  <2> QED BY <1>2, <2>2, <2>3, <2>5, <2>6 DEF all
<1>3. CASE stage = "fibonacci"
  <2> DEFINE given == IF args.n > Cap THEN Cap ELSE args.n
             n == IF given < 0 THEN 0 ELSE given
  <2>1. args.n \in Int /\ Cap \in Nat  BY <1>3, BoundsAssumption, Widths DEF InputInv
  <2>2. n \in Nat /\ 1..n = 1..given /\ (args.n >= 0 => n = Capped(args.n))
    BY <2>1 DEF Capped
  <2>3. Expected = [k \in 1..given |-> [i |-> k - 1, value |-> Clip(Fibonacci[k - 1])]]
    BY <1>3 DEF Expected
  <2> HIDE DEF n, given
  <2>4. DOMAIN Expected = 1..n /\ Expected = [k \in 1..n |-> Expected[k]]  BY <2>2, <2>3
  <2>5. Len(Expected) = n /\ Expected \in Seq(Range(Expected))  BY <1>1, <2>2, <2>4
  <2> QED BY <1>3, <2>2, <2>4, <2>5
<1>4. CASE stage = "perf"
  <2> DEFINE n == IF PerfConfig.rows < 0 THEN 0 ELSE PerfConfig.rows
  <2>1. PerfConfig.rows \in Int
    BY <1>4, BoundsAssumption, Widths
    DEF InputInv, PerfConfig, Given, IsOption, Flag, Missing, Mistyped, Number
  <2>2. PerfAccepts => PerfConfig.rows \in Nat
    BY <1>4, PerfConfigType, BoundsAssumption, Widths
  <2>3. n \in Nat /\ 1..n = 1..PerfConfig.rows /\ (PerfAccepts => n = PerfConfig.rows)
    BY <2>1, <2>2
  <2>4. Expected = [k \in 1..PerfConfig.rows |->
                      [i |-> k - 1, scored |-> args.metadata = Flag(TRUE)]]
    BY <1>4 DEF Expected
  <2> HIDE DEF n
  <2>5. DOMAIN Expected = 1..n /\ Expected = [k \in 1..n |-> Expected[k]]  BY <2>3, <2>4
  <2>6. Len(Expected) = n /\ Expected \in Seq(Range(Expected))  BY <1>1, <2>3, <2>5
  <2> QED BY <1>4, <2>3, <2>5, <2>6
<1>5. CASE stage = "lookup"
  <2>1. args.candidates \in Seq(Range(args.candidates))  BY <1>5 DEF InputInv
  <2>2. Expected = IF args.catalog = "router" THEN args.candidates ELSE << >>
    BY <1>5 DEF Expected
  <2>3. Expected \in Seq(Range(Expected))
    <3>1. << >> \in Seq(Range(<< >>))  OBVIOUS
    <3> QED BY <2>1, <2>2, <3>1
  <2> QED BY <1>5, <2>2, <2>3
<1> QED BY <1>2, <1>3, <1>4, <1>5 DEF InputInv

(* One row more, and it is the next.                                       *)
LEMMA MatchOn ==
  ASSUME ContextInv, MatchInv, stage # "any", stage' = stage, Expected' = Expected, ~Ended',
         stage = "jsonl" => NoLongLine, Len(Expected) \in Nat,
         Len(Rows') = Len(Rows) + 1, \A n \in 1..Len(Rows) : Rows'[n] = Rows[n],
         Len(Rows) < Len(Expected), Rows'[Len(Rows) + 1] = Expected[Len(Rows) + 1]
  PROVE  MatchInv'
<1>1. Len(Rows) \in Nat  BY RowsType
<1>2. \A n \in 1..Len(Rows') : n \in 1..Len(Rows) \/ n = Len(Rows) + 1  BY <1>1
<1>3. \A n \in 1..Len(Rows) : Rows[n] = Expected[n]  BY DEF MatchInv
<1>4. \A n \in 1..Len(Rows') : Rows'[n] = Expected[n]  BY <1>2, <1>3
<1>5. Len(Rows') <= Len(Expected)  BY <1>1
<1> QED BY <1>4, <1>5 DEF MatchInv


LEMMA MatchKeeps ==
  ASSUME ContextInv, InputInv, ProgressInv, LineInv, NumbersInv, MatchInv, [Next]_vars
  PROVE  MatchInv'
<1> SUFFICES ASSUME stage # "any", stage = "jsonl" => NoLongLine  PROVE MatchInv'
  <2>1. stage' = stage /\ (NoLongLine' <=> NoLongLine)  BY InputsStay, LinesStay
  <2> QED BY <2>1 DEF MatchInv
<1>0. /\ stage' = stage /\ Expected' = Expected
      /\ Len(Expected) \in Nat /\ Len(Rows) \in Nat
  BY InputsStay, LinesStay, ExpectedLength, RowsType
<1>a. ASSUME Rows' = Rows, Ended' => Ended \/ Len(Rows) = Len(Expected)  PROVE MatchInv'
  BY <1>0, <1>a DEF MatchInv
<1>b. Len(Rows) <= Len(Expected)  BY DEF MatchInv
<1>1. CASE Still  BY <1>1, <1>a, StillKeeps
<1>2. ASSUME NEW s, Opens(s)  PROVE MatchInv'  BY <1>2, <1>a, OpenRows
<1>3. CASE stage = "fibonacci" /\ FibNext /\ ~Still
  <2>1. CASE FibOpen  BY <1>2, <1>3, <2>1 DEF FibOpen, Still
  <2>2. CASE pc = "next" /\ (FibEof \/ FibRow)
    <3>1. gen \in FibStates /\ gen # NoState /\ args.n >= 0 /\ gen.i <= gen.n
          /\ gen.i = Len(Rows) /\ gen.n = Capped(args.n)
      <4>1. gen \in States /\ gen # NoState  BY <2>2, Inner, NotNoState
      <4>2. gen \in FibStates  BY <1>3, <4>1 DEF States
      <4> QED BY <1>3, <4>1, <4>2 DEF ProgressInv, FibInv, FibStates
    <3>2. Len(Expected) = gen.n /\ gen.n \in Int  BY <1>0, <1>3, <3>1, ExpectedLength
    <3>3. CASE FibEof
      <4>1. Hook("next", "return", gen, fields, Eof) /\ gen.i >= gen.n
        BY <3>3 DEF FibEof, Returns
      <4>2. Rows' = Rows  BY <2>2, <4>1, HookRows, ResultKinds
      <4> QED BY <1>0, <1>a, <3>1, <3>2, <4>1, <4>2
    <3>4. CASE FibRow
      <4> DEFINE s == [gen EXCEPT !.i = @ + 1, !.a = gen.b, !.b = Sum2(gen.a, gen.b)]
                 row == [i |-> gen.i, value |-> gen.a]
                 r == Advanced(row)
      <4>1. Hook("next", "return", s, Inc(fields, "rows_out", 1), r) /\ gen.i < gen.n
        BY <3>4 DEF FibRow, Returns
      <4>2. r.kind = "advanced" /\ r.row = row  BY ResultKinds
      <4>3. row = [i |-> Len(Rows), value |-> Clip(Fibonacci[Len(Rows)])]
        BY <1>3, <3>1 DEF NumbersInv
      <4>4. Expected[Len(Rows) + 1] = row
        <5>1. Len(Rows) + 1 \in DOMAIN Expected /\ (Len(Rows) + 1) - 1 = Len(Rows)
          BY <1>0, <3>1, <3>2, <4>1, ExpectedLength
        <5>2. Expected[Len(Rows) + 1] =
                [i |-> (Len(Rows) + 1) - 1, value |-> Clip(Fibonacci[(Len(Rows) + 1) - 1])]
          BY <1>3, <5>1 DEF Expected
        <5> HIDE DEF row
        <5> QED BY <4>3, <5>1, <5>2
      <4> HIDE DEF s, r, row
      <4>5. /\ Len(Rows') = Len(Rows) + 1 /\ Rows'[Len(Rows) + 1] = row
            /\ \A n \in 1..Len(Rows) : Rows'[n] = Rows[n]
            /\ ~Ended'
        BY <4>1, <4>2, HookRows
      <4>6. Len(Rows) < Len(Expected)  BY <1>0, <3>1, <3>2, <4>1
      <4> QED BY <1>0, <1>3, <4>4, <4>5, <4>6, MatchOn
    <3> QED BY <2>2, <3>3, <3>4
  <2> QED BY <1>3, <2>1, <2>2 DEF FibNext
<1>4. CASE stage = "lookup" /\ LookupNext /\ ~Still
  <2>1. CASE LookupOpen  BY <1>2, <1>4, <2>1 DEF LookupOpen, Still
  <2>2. CASE pc = "next" /\ (LookupEof \/ LookupRow)
    <3>1. /\ gen.pending \in Seq(Range(args.candidates)) /\ gen # NoState
          /\ Len(Rows) + Len(gen.pending) = Len(Expected)
          /\ \A n \in 1..Len(gen.pending) : gen.pending[n] = Expected[Len(Rows) + n]
      <4>1. gen \in States /\ gen # NoState  BY <2>2, Inner, NotNoState
      <4>2. gen \in LookupStates  BY <1>4, <4>1 DEF States
      <4>3. /\ args.catalog = "router"
            /\ Len(Rows) + Len(gen.pending) = Len(args.candidates)
            /\ \A n \in 1..Len(gen.pending) : gen.pending[n] = args.candidates[Len(Rows) + n]
        BY <1>4, <4>1 DEF ProgressInv, LookupInv
      <4>4. Expected = args.candidates  BY <1>4, <4>3, ExpectedLength
      <4> QED BY <4>1, <4>2, <4>3, <4>4 DEF LookupStates
    <3>2. CASE LookupEof
      <4>1. Hook("next", "return", gen, fields, Eof) /\ gen.pending = << >>
        BY <3>2 DEF LookupEof, Returns
      <4>2. Rows' = Rows  BY <2>2, <4>1, HookRows, ResultKinds
      <4>3. Len(gen.pending) = 0  BY <4>1
      <4> QED BY <1>0, <1>a, <3>1, <4>2, <4>3
    <3>3. CASE LookupRow
      <4> DEFINE s == [gen EXCEPT !.pending = Tail(@)]
                 row == Head(gen.pending)
                 r == Advanced(row)
      <4>1. Hook("next", "return", s, fields, r) /\ gen.pending # << >>
        BY <3>3 DEF LookupRow, Returns
      <4>2. r.kind = "advanced" /\ r.row = row  BY ResultKinds
      <4>3. Len(gen.pending) \in Nat /\ Len(gen.pending) > 0 /\ row = gen.pending[1]
        BY <3>1, <4>1
      <4>4. row = Expected[Len(Rows) + 1]
        <5>1. 1 \in 1..Len(gen.pending)  BY <4>3
        <5> QED BY <3>1, <4>3, <5>1
      <4> HIDE DEF s, r, row
      <4>5. /\ Len(Rows') = Len(Rows) + 1 /\ Rows'[Len(Rows) + 1] = row
            /\ \A n \in 1..Len(Rows) : Rows'[n] = Rows[n]
            /\ ~Ended'
        BY <4>1, <4>2, HookRows
      <4>6. Len(Rows) < Len(Expected)  BY <1>0, <3>1, <4>3
      <4> QED BY <1>0, <1>4, <4>4, <4>5, <4>6, MatchOn
    <3> QED BY <2>2, <3>2, <3>3
  <2> QED BY <1>4, <2>1, <2>2 DEF LookupNext
<1>5. CASE /\ stage = "perf" /\ ~Still
           /\ \/ PerfOpen
              \/ pc = "row" /\ (PerfEof \/ PerfPanics \/ PerfFails \/ PerfWaits)
              \/ pc = "wait" /\ (PerfSleep \/ PerfRow)
  <2>1. CASE PerfOpen  BY <1>2, <1>5, <2>1 DEF PerfOpen, Still
  <2>2. CASE pc \in {"row", "wait"}
    <3>1. /\ gen \in PerfStates /\ gen # NoState /\ PerfAccepts
          /\ gen.next <= gen.config.rows /\ gen.next = Len(Rows)
          /\ gen.config = PerfConfig /\ Len(Expected) = gen.config.rows
          /\ gen.config.rows \in Int
      <4>1. gen \in States /\ gen # NoState  BY <2>2, Inner, NotNoState
      <4>2. gen \in PerfStates  BY <1>5, <4>1 DEF States
      <4>3. PerfAccepts /\ gen.next <= gen.config.rows /\ gen.next = Len(Rows)
            /\ gen.config = PerfConfig
        BY <1>5, <4>1, <4>2 DEF ProgressInv, PerfInv, PerfStates
      <4>4. Len(Expected) = PerfConfig.rows  BY <1>5, <4>3, ExpectedLength
      <4> QED BY <1>0, <4>1, <4>2, <4>3, <4>4
    <3>2. CASE pc = "row" /\ PerfEof
      <4>1. Hook("row", "return", gen, fields, Eof) /\ gen.next >= gen.config.rows
        BY <3>2 DEF PerfEof, Returns
      <4>2. Rows' = Rows  BY <4>1, HookRows, ResultKinds
      <4> QED BY <1>0, <1>a, <3>1, <4>1, <4>2
    <3>3. CASE \/ pc = "row" /\ (PerfPanics \/ PerfFails \/ PerfWaits)
               \/ pc = "wait" /\ PerfSleep
      <4>1. PICK at, to, s, r : /\ Hook(at, to, s, fields, r) /\ at \in {"row", "wait"}
                                /\ to # "return" \/ r.kind \in {"error", "panic"}
        BY <3>3, ResultKinds DEF PerfPanics, PerfFails, PerfWaits, PerfSleep, Returns
      <4>2. Rows' = Rows /\ ~Ended'  BY <4>1, HookRows
      <4> QED BY <1>a, <4>2
    <3>4. CASE pc = "wait" /\ PerfRow
      <4> DEFINE s == [Rested EXCEPT !.next = @ + 1]
                 row == [i |-> gen.next, scored |-> gen.config.metadata]
                 r == Advanced(row)
      <4>1. Hook("wait", "return", s, Inc(fields, "rows", 1), r)
        BY <3>4 DEF PerfRow, Returns
      <4>2. r.kind = "advanced" /\ r.row = row  BY ResultKinds
      <4>3. gen.next < gen.config.rows
        BY <1>5, <3>1, <3>4 DEF ProgressInv, PerfInv
      <4>4. Expected[Len(Rows) + 1] = row
        <5>1. Len(Rows) + 1 \in 1..PerfConfig.rows /\ (Len(Rows) + 1) - 1 = Len(Rows)
          BY <1>0, <3>1, <4>3
        <5>2. Expected[Len(Rows) + 1] =
                [i |-> (Len(Rows) + 1) - 1, scored |-> args.metadata = Flag(TRUE)]
          BY <1>5, <5>1 DEF Expected
        <5>3. gen.config.metadata = (args.metadata = Flag(TRUE))
          BY <1>5, <3>1, PerfConfigType
        <5> QED BY <3>1, <5>1, <5>2, <5>3, Zenon
      <4> HIDE DEF s, r, row
      <4>5. /\ Len(Rows') = Len(Rows) + 1 /\ Rows'[Len(Rows) + 1] = row
            /\ \A n \in 1..Len(Rows) : Rows'[n] = Rows[n]
            /\ ~Ended'
        BY <4>1, <4>2, HookRows
      <4>6. Len(Rows) < Len(Expected)  BY <1>0, <3>1, <4>3
      <4> QED BY <1>0, <1>5, <4>4, <4>5, <4>6, MatchOn
    <3> QED BY <1>5, <2>2, <3>2, <3>3, <3>4 DEF PerfOpen, Opens, OpenFails, CanPull
  <2> QED BY <1>5, <2>1, <2>2
<1>6. CASE stage = "jsonl" /\ JsonlNext /\ ~Still
  <2>1. CASE OpenFile  BY <1>2, <2>1 DEF OpenFile
  <2>2. CASE LineSteps /\ gen \in JsonlStates /\ gen # NoState
    <3> DEFINE all == Cardinality(DocumentLines)
    <3>0. /\ gen.line_no \in Nat /\ gen.returned \in Nat /\ gen.returned = Len(Rows)
          /\ limit # Unlimited => limit \in Nat /\ gen.returned <= limit
          /\ all \in Nat /\ gen.config = Config(options)
          /\ Len(Expected) = IF limit = Unlimited \/ all <= limit THEN all ELSE limit
      <4>1. gen.returned = Len(Rows) /\ (limit # Unlimited => gen.returned <= limit)
        BY <1>6, <2>2 DEF ProgressInv, JsonlInv, LineInv
      <4> QED BY <1>6, <2>2, <4>1, LineFits, FileType, LinesType, ExpectedLength
    <3>1. CASE LineStops
      <4>1. /\ Rows' = Rows
            /\ Ended' => \/ limit # Unlimited /\ gen.returned >= limit
                         \/ pc = "read" /\ gen.at = Len(file)
        BY <3>1 DEF LineStops
      <4>2. CASE limit # Unlimited /\ gen.returned >= limit
        <5>1. Len(Rows) = Len(Expected)
          <6> HIDE DEF all
          <6>1. gen.returned = limit  BY <3>0, <4>2
          <6> QED BY <1>b, <3>0, <4>2, <6>1
        <5> QED BY <1>a, <4>1, <5>1
      <4>3. CASE pc = "read" /\ gen.at = Len(file)
        <5>1. gen.line_no = Behind(Len(file)) /\ Decided = Behind(Len(file))
          BY <1>6, <2>2, <3>0, <4>3 DEF LineInv, Decided, One, Holding
        <5>2. gen.returned = all
          BY <1>6, <2>2, <5>1, AllDecided DEF LineInv
        <5>3. Len(Rows) = Len(Expected)
          <6> HIDE DEF all
          <6> QED BY <3>0, <5>2
        <5> QED BY <1>a, <4>1, <5>3
      <4>4. CASE ~Ended'  BY <1>a, <4>1, <4>4
      <4> QED BY <4>1, <4>2, <4>3, <4>4
    <3>2. CASE \/ LineBegins \/ LineGivenUp \/ LineTaken \/ LineBytes
               \/ LineCounted \/ LineSkipped \/ LineRefused
      <4>1. Rows' = Rows /\ ~Ended'
        BY <3>2 DEF LineBegins, LineGivenUp, LineTaken, LineBytes, LineCounted, LineSkipped,
                    LineRefused
      <4> QED BY <1>a, <4>1
    <3>3. CASE LineGiven
      <4>1. /\ gen.line_no \in DocumentLines /\ gen.returned = Cardinality(UpTo(gen.line_no - 1))
            /\ Document(gen.line, gen.config.document)
        BY <1>6, <2>2, <3>3, LineHeld DEF LineGiven
      <4> DEFINE k == gen.line_no - 1
      <4>2. k \in Int /\ k + 1 = gen.line_no  BY <3>0
      <4>3. /\ Cardinality(UpTo(k + 1)) = Cardinality(UpTo(k)) + 1
            /\ Cardinality(UpTo(k + 1)) <= all
            /\ Nth(DocumentLines, Cardinality(UpTo(k)) + 1) = k + 1
        <5> HIDE DEF k
        <5>1. One(k + 1 \in DocumentLines) = 1  BY <4>1, <4>2 DEF One
        <5>2. k + 1 \in Int  BY <4>2
        <5> QED BY <4>1, <4>2, <5>1, <5>2, UpToType
      <4>4. /\ Len(Rows) + 1 <= all /\ Nth(DocumentLines, Len(Rows) + 1) = gen.line_no
        BY <3>0, <4>1, <4>2, <4>3
      <4>5. limit = Unlimited \/ gen.returned < limit
        BY <1>6, <2>2, <3>3 DEF LineGiven, LineInv, Open, Holding
      <4>6. Len(Rows) < Len(Expected)
        <5> HIDE DEF all
        <5> QED BY <1>0, <3>0, <4>4, <4>5
      <4>7. Lines[gen.line_no] = gen.line
        BY <1>6, <2>2, <3>0, <3>3 DEF LineInv, LineGiven, One, Holding
      <4>8. Expected[Len(Rows) + 1] = [line |-> gen.line_no, text |-> Trimmed(gen.line)]
        <5>1. Len(Rows) + 1 \in DOMAIN Expected  BY <1>0, <4>6, ExpectedLength
        <5>2. Expected = ExpectedDocuments  BY <1>6 DEF Expected
        <5>3. Expected[Len(Rows) + 1] =
                [line |-> Nth(DocumentLines, Len(Rows) + 1),
                 text |-> Trimmed(Lines[Nth(DocumentLines, Len(Rows) + 1)])]
          BY <5>1, <5>2 DEF ExpectedDocuments
        <5> QED BY <4>4, <4>7, <5>3
      <4> QED BY <1>0, <1>6, <3>3, <4>6, <4>8, MatchOn DEF LineGiven
    <3> QED BY <2>2, <3>1, <3>2, <3>3 DEF LineSteps
  <2> QED BY <1>6, <2>1, <2>2, JsonlEffects
<1> QED BY <1>1, <1>3, <1>4, <1>5, <1>6, StageSteps


LEMMA InitMatches ==
  ASSUME Init
  PROVE  LineInv /\ NumbersInv /\ MatchInv
<1>1. gen = NoState /\ Rows = << >> /\ ~Ended
  BY DEF Init, InitContext, Rows, Ended
<1>2. stage # "any" => Len(Expected) \in Nat  BY InitInv, ExpectedLength
<1>3. Len(<< >>) = 0  OBVIOUS
<1>4. MatchInv
  <2>1. Len(Rows) = 0  BY <1>1, <1>3
  <2>2. \A n \in 1..Len(Rows) : Rows[n] = Expected[n]  BY <2>1
  <2> QED BY <1>1, <1>2, <2>1, <2>2 DEF MatchInv
<1> QED BY <1>1, <1>4 DEF LineInv, NumbersInv

(* Every stage hands over the rows its arguments ask for, each once, in    *)
(* order, with the numbers of their lines and all of them before its end,  *)
(* whatever fails, panics or is interrupted between them: the documents of *)
(* any file whose lines are not too long, any Fibonacci numbers as far as  *)
(* integers go, any number of rows, any candidates.                        *)
THEOREM RowsMatch == Spec => []RowsAsAsked
<1>1. Init => LineInv /\ NumbersInv /\ MatchInv  BY InitMatches
<1>2. /\ ContextInv /\ InputInv /\ ProgressInv /\ LineInv /\ NumbersInv /\ MatchInv
      /\ [Next]_vars
      => (LineInv /\ NumbersInv /\ MatchInv)'
  BY LineKeeps, NumbersKeep, MatchKeeps
<1>3. ContextInv /\ InputInv /\ MatchInv => RowsAsAsked
  <2> SUFFICES ASSUME ContextInv, InputInv, MatchInv, pc = "idle", stage = "jsonl" => NoLongLine
               PROVE  IsPrefix(emitted, Expected) /\ (done => emitted = Expected)
    BY DEF RowsAsAsked
  <2>1. emitted \in Seq(Range(emitted)) /\ Len(emitted) \in Nat  BY RowsType
  <2>2. CASE stage = "any"
    <3>1. Expected = emitted  BY <2>2 DEF Expected
    <3>2. IsPrefix(emitted, emitted)  BY <2>1 DEF IsPrefix
    <3> QED BY <3>1, <3>2
  <2>3. CASE stage # "any"
    <3>1. Rows = emitted /\ (done => Ended)  BY DEF Rows, Ended
    <3>2. /\ Len(emitted) <= Len(Expected)
          /\ \A n \in 1..Len(emitted) : emitted[n] = Expected[n]
          /\ done => Len(emitted) = Len(Expected)
      BY <2>3, <3>1 DEF MatchInv
    <3>3. Expected \in Seq(Range(Expected)) /\ Len(Expected) \in Nat
      BY <2>3, ExpectedLength
    <3>4. SubSeq(emitted, 1, Len(emitted)) = SubSeq(Expected, 1, Len(emitted))
      <4>1. SubSeq(emitted, 1, Len(emitted)) = [n \in 1..Len(emitted) |-> emitted[n]]
        BY <2>1
      <4>2. SubSeq(Expected, 1, Len(emitted)) = [n \in 1..Len(emitted) |-> Expected[n]]
        BY <2>1, <3>2, <3>3
      <4> QED BY <3>2, <4>1, <4>2
    <3>5. ASSUME done  PROVE emitted = Expected
      <4>1. emitted = [n \in 1..Len(emitted) |-> emitted[n]]  BY <2>1
      <4>2. Expected = [n \in 1..Len(Expected) |-> Expected[n]]  BY <3>3
      <4> QED BY <3>2, <3>5, <4>1, <4>2
    <3> QED BY <3>2, <3>4, <3>5 DEF IsPrefix
  <2> QED BY <2>2, <2>3
<1> QED BY <1>1, <1>2, <1>3, ProgressHolds, PTL DEF Spec


-----------------------------------------------------------------------------
(* Where a path leads.  What is defined by recursion, from a first value   *)
(* and a function for every step, exists.                                  *)
Obeys(f, n, first, step) ==
    \A i \in 0..n : f[i] = IF i = 0 THEN first ELSE step[<<i, f[i - 1]>>]

LEMMA Recursion ==
  ASSUME NEW V, NEW first \in V, NEW step \in [Nat \X V -> V]
  PROVE  \A n \in Nat : \E f \in [0..n -> V] : Obeys(f, n, first, step)
<1> USE DEF Obeys
<1> DEFINE T == {n \in Nat : \E f \in [0..n -> V] : Obeys(f, n, first, step)}
<1>1. 0 \in T
  <2> DEFINE f == [i \in 0..0 |-> first]
  <2>1. f \in [0..0 -> V] /\ Obeys(f, 0, first, step)  OBVIOUS
  <2> QED BY <2>1
<1>2. ASSUME NEW n \in Nat, n \in T  PROVE n + 1 \in T
  <2>1. PICK f \in [0..n -> V] : Obeys(f, n, first, step)  BY <1>2
  <2> DEFINE last == step[<<n + 1, f[n]>>]
             g == [i \in 0..(n + 1) |-> IF i <= n THEN f[i] ELSE last]
  <2>2. n \in 0..n /\ f[n] \in V /\ last \in V
    <3>1. n \in 0..n /\ f[n] \in V /\ n + 1 \in Nat  OBVIOUS
    <3> QED BY <3>1
  <2>3. \A i \in 0..(n + 1) : (i <= n => i \in 0..n) /\ (~(i <= n) => i = n + 1)  OBVIOUS
  <2> HIDE DEF last
  <2>4. g \in [0..(n + 1) -> V]  BY <2>2, <2>3
  <2>5. /\ \A i \in 0..n : g[i] = f[i]
        /\ g[n + 1] = last
    OBVIOUS
  <2> HIDE DEF g
  <2>6. ASSUME NEW i \in 0..(n + 1)  PROVE g[i] = IF i = 0 THEN first ELSE step[<<i, g[i - 1]>>]
    <3>1. CASE i \in 0..n
      <4>1. i # 0 => i - 1 \in 0..n  BY <3>1
      <4>2. f[i] = IF i = 0 THEN first ELSE step[<<i, f[i - 1]>>]  BY <2>1, <3>1
      <4> QED BY <2>5, <3>1, <4>1, <4>2
    <3>2. CASE i = n + 1
      <4>1. i # 0 /\ i - 1 = n /\ n \in 0..n  BY <3>2
      <4> QED BY <2>5, <3>2, <4>1 DEF last
    <3> QED BY <2>3, <3>1, <3>2
  <2>7. Obeys(g, n + 1, first, step)  BY <2>6
  <2> QED BY <2>4, <2>7
<1> HIDE DEF T
<1>3. Nat \subseteq T  BY <1>1, <1>2, Induction
<1> QED BY <1>3 DEF T

LEMMA ResolvedType == \A at, names : Resolved(at, names) \in Nodes \cup {Lost}
  BY DEF Resolved

LEMMA AppendsName ==
  ASSUME NEW S, NEW p \in Seq(S), NEW e \in S
  PROVE  Append(p, e) # << >> /\ Last(Append(p, e)) = e
<1>1. Len(Append(p, e)) = Len(p) + 1 /\ Len(p) \in Nat  OBVIOUS
<1>2. Len(<< >>) = 0  OBVIOUS
<1>3. Append(p, e) # << >>  BY <1>1, <1>2
<1>4. Append(p, e)[Len(p) + 1] = e  OBVIOUS
<1> QED BY <1>1, <1>3, <1>4 DEF Last

LEMMA Single ==
  ASSUME NEW e
  PROVE  <<e>> # << >> /\ Head(<<e>>) = e /\ Tail(<<e>>) = << >>
OBVIOUS

LEMMA MovedOn ==
  ASSUME NEW way, way.rest # << >>, way.at \in Directories, NEW name,
         name = Head(way.rest), Tail(way.rest) = << >>,
         Append(way.at, name) \notin DOMAIN Links
  PROVE  /\ name = "." => Moved(way) = [at |-> way.at, rest |-> << >>]
         /\ name \notin {"", ".", ".."} =>
              Moved(way) = [at |-> Append(way.at, name), rest |-> << >>]
  BY DEF Moved

(* One name that is no link is a step on the way.                          *)
LEMMA Moving ==
  ASSUME NEW at \in Directories, NEW name \in STRING, name # "", Present(at, name)
  PROVE  /\ Moved([at |-> at, rest |-> <<name>>])
              = [at |-> IF name = "." THEN at ELSE Append(at, name), rest |-> << >>]
         /\ (IF name = "." THEN at ELSE Append(at, name)) \in Nodes
<1>1. at \in Seq(STRING) /\ at \in Nodes  BY TreeAssumption, Zenon
<1>2. Append(at, name) # << >> /\ Last(Append(at, name)) = name
  BY <1>1, AppendsName
<1> DEFINE next == Append(at, name)
<1>3. next \in Nodes \cup DOMAIN Links => name \notin {"", ".", ".."}
  <2>1. \A p \in (Nodes \ {<< >>}) \cup DOMAIN Links : Last(p) \notin {"", ".", ".."}
    BY TreeAssumption, Zenon
  <2> QED BY <1>2, <2>1, Zenon
<1>4. ~(next \in Nodes /\ next \in DOMAIN Links)
  <2>1. Nodes \cap DOMAIN Links = {}  BY TreeAssumption, Zenon
  <2> QED BY <2>1, Zenon
<1> DEFINE first == [at |-> at, rest |-> <<name>>]
<1>5. <<name>> # << >> /\ Head(<<name>>) = name /\ Tail(<<name>>) = << >>  BY Single, Zenon
<1>6. first.at = at /\ first.rest = <<name>>  BY Zenon
<1>7. first.rest # << >> /\ Head(first.rest) = name /\ Tail(first.rest) = << >>
  BY <1>5, <1>6, Zenon
<1> HIDE DEF first, next
<1>8. CASE name = "."
  <2>1. next \notin DOMAIN Links  BY <1>3, <1>8, Zenon
  <2>2. Moved(first) = [at |-> at, rest |-> << >>]
    BY <1>6, <1>7, <1>8, <2>1, MovedOn DEF next
  <2> QED BY <1>1, <1>8, <2>2 DEF first
<1>9. CASE name # "."
  <2>1. next \in Nodes  BY <1>9, Zenon DEF Present, next
  <2>2. name \notin {"", ".", ".."} /\ next \notin DOMAIN Links
    BY <1>3, <1>4, <2>1, Zenon
  <2>3. Moved(first) = [at |-> next, rest |-> << >>]
    BY <1>6, <1>7, <2>2, MovedOn DEF next
  <2> QED BY <1>9, <2>1, <2>3 DEF first, next
<1> QED BY <1>8, <1>9

(* What one step of the way leads to is found, and stays found.            *)
LEMMA Settles ==
  ASSUME NEW at, NEW names, NEW to \in Nodes,
         Moved([at |-> at, rest |-> names]) = [at |-> to, rest |-> << >>]
  PROVE  Resolved(at, names) = to
<1>0. /\ MaxWalk \in Nat /\ MaxWalk - 1 \in Nat /\ (MaxWalk - 1) + 1 = MaxWalk
      /\ MaxWalk \in 0..MaxWalk /\ 0 + 1 \in 0..MaxWalk
      /\ \A n \in 0..MaxWalk : n # 0 => n - 1 \in 0..MaxWalk
  BY WalkAssumption
<1> DEFINE first == [at |-> at, rest |-> names]
           end == [at |-> to, rest |-> << >>]
<1>1. Moved(first) = end  OBVIOUS
<1>2. end.at = to /\ end.rest = << >>  OBVIOUS
<1> HIDE DEF end
<1>3. Moved(end) = end  BY <1>2 DEF Moved
<1> DEFINE Is(w) == w = [n \in 0..MaxWalk |-> IF n = 0 THEN first ELSE Moved(w[n - 1])]
           f == [n \in 0..MaxWalk |-> IF n = 0 THEN first ELSE end]
           way == CHOOSE w : Is(w)
<1>4. Resolved(at, names)
        = IF way[MaxWalk].rest = << >> /\ way[MaxWalk].at \in Nodes THEN way[MaxWalk].at ELSE Lost
  BY DEF Resolved
<1> HIDE DEF first
<1>5. Is(f)
  <2>1. ASSUME NEW n \in 0..MaxWalk, n # 0  PROVE Moved(f[n - 1]) = end
    <3>1. f[n - 1] \in {first, end}  BY <1>0, <2>1
    <3> HIDE DEF f
    <3> QED BY <1>1, <1>3, <3>1
  <2> QED BY <2>1
<1>6. Is(way)  BY <1>5, Zenon
<1> HIDE DEF way
<1>7. \A n \in 0..MaxWalk : way[n] = IF n = 0 THEN first ELSE Moved(way[n - 1])
  BY <1>6, Zenon
<1> HIDE DEF Is, f
<1> DEFINE T == {n \in Nat : n + 1 \in 0..MaxWalk => way[n + 1] = end}
<1>8. 0 \in T
  <2>1. 0 \in 0..MaxWalk /\ 0 + 1 # 0 /\ (0 + 1) - 1 = 0  BY <1>0
  <2>2. way[0] = first /\ way[0 + 1] = Moved(way[0])  BY <1>0, <1>7, <2>1
  <2> QED BY <1>1, <2>2
<1>9. ASSUME NEW n \in Nat, n \in T  PROVE n + 1 \in T
  <2> SUFFICES ASSUME (n + 1) + 1 \in 0..MaxWalk  PROVE way[(n + 1) + 1] = end  OBVIOUS
  <2>1. n + 1 \in 0..MaxWalk /\ (n + 1) + 1 # 0 /\ ((n + 1) + 1) - 1 = n + 1
    BY <1>0
  <2>2. way[n + 1] = end  BY <1>9, <2>1
  <2>3. way[(n + 1) + 1] = Moved(way[n + 1])  BY <1>7, <2>1
  <2> QED BY <1>3, <2>2, <2>3
<1> HIDE DEF T
<1>10. MaxWalk - 1 \in T  BY <1>0, <1>8, <1>9, Induction
<1>11. way[MaxWalk] = end  BY <1>0, <1>10 DEF T
<1> QED BY <1>2, <1>4, <1>11

LEMMA OneName ==
  ASSUME NEW at \in Directories, NEW name \in STRING, name # "", Present(at, name)
  PROVE  Resolved(at, <<name>>) = IF name = "." THEN at ELSE Append(at, name)
<1> DEFINE to == IF name = "." THEN at ELSE Append(at, name)
<1>1. /\ Moved([at |-> at, rest |-> <<name>>]) = [at |-> to, rest |-> << >>]
      /\ to \in Nodes
  BY Moving, Zenon
<1> HIDE DEF to
<1>2. Resolved(at, <<name>>) = to  BY <1>1, Settles, Zenon
<1> QED BY <1>2 DEF to

LEMMA Places ==
  ASSUME InputInv, NEW c, c = Config(options)
  PROVE  \E place \in [0..Len(path) -> Nodes \cup {Lost}] :
           /\ place[0] = Root(c)
           /\ \A n \in 1..Len(path) : place[n] = Walked(place[n - 1], path[n], c.symlinks)
           /\ Target(c) = place[Len(path)]
<1>1. Len(path) \in Nat /\ Root(c) \in Nodes \cup {Lost}
  BY FileType, ResolvedType DEF Root
<1> DEFINE N == Len(path)
           V == Nodes \cup {Lost}
           step == [t \in Nat \X V |-> IF t[1] \in 1..N THEN Walked(t[2], path[t[1]], c.symlinks)
                                                        ELSE t[2]]
<1>2. \A at \in V, n \in 1..N : Walked(at, path[n], c.symlinks) \in V
  <2> SUFFICES ASSUME NEW at \in V, NEW n \in 1..N
               PROVE  Walked(at, path[n], c.symlinks) \in V
    OBVIOUS
  <2> QED BY ResolvedType DEF Walked
<1>3. step \in [Nat \X V -> V]  BY <1>2
<1>4. \A n \in 1..N, at \in V : step[<<n, at>>] = Walked(at, path[n], c.symlinks)
  OBVIOUS
<1>a. Root(c) \in V  BY <1>1
<1> HIDE DEF step, V
<1>5. PICK f \in [0..N -> V] : \A i \in 0..N : f[i] = IF i = 0 THEN Root(c) ELSE step[<<i, f[i - 1]>>]
  <2>1. \A n \in Nat : \E f \in [0..n -> V] : Obeys(f, n, Root(c), step)
    BY <1>3, <1>a, Recursion
  <2>2. PICK f \in [0..N -> V] : Obeys(f, N, Root(c), step)  BY <1>1, <2>1
  <2> QED BY <2>2 DEF Obeys
<1>6. \A i \in 0..N : f[i] = IF i = 0 THEN Root(c) ELSE Walked(f[i - 1], path[i], c.symlinks)
  <2> SUFFICES ASSUME NEW i \in 0..N
               PROVE  f[i] = IF i = 0 THEN Root(c) ELSE Walked(f[i - 1], path[i], c.symlinks)
    OBVIOUS
  <2>1. CASE i = 0  BY <1>5, <2>1
  <2>2. CASE i # 0
    <3>1. i \in 1..N /\ i - 1 \in 0..N  BY <1>1, <2>2
    <3>2. f[i - 1] \in V  BY <3>1
    <3> QED BY <1>4, <1>5, <2>2, <3>1, <3>2
  <2> QED BY <2>1, <2>2
<1> DEFINE Is(p) == p = [n \in 0..N |->
                           IF n = 0 THEN Root(c) ELSE Walked(p[n - 1], path[n], c.symlinks)]
           place == CHOOSE p : Is(p)
<1>7. Is(f)
  <2>1. f = [i \in 0..N |-> f[i]]  OBVIOUS
  <2> QED BY <1>6, <2>1, Zenon
<1>8. Is(place)  BY <1>7, Zenon
<1>9. Target(c) = place[N]  BY DEF Target
<1> HIDE DEF place
<1>10. \A i \in 0..N : place[i] = IF i = 0 THEN Root(c) ELSE Walked(place[i - 1], path[i], c.symlinks)
  BY <1>8, Zenon
<1>11. DOMAIN place = 0..N /\ place = [i \in 0..N |-> place[i]]
  <2>1. DOMAIN place = 0..N  BY <1>8, Zenon
  <2>2. \A i \in 0..N : place[i] = [n \in 0..N |-> place[n]][i]  OBVIOUS
  <2> QED BY <1>8, <1>10, <2>1, Zenon
<1> DEFINE T == {n \in Nat : n \in 0..N => place[n] \in V}
<1>12. 0 \in T  BY <1>1, <1>10 DEF V
<1>13. ASSUME NEW n \in Nat, n \in T  PROVE n + 1 \in T
  <2> SUFFICES ASSUME n + 1 \in 0..N  PROVE place[n + 1] \in V  OBVIOUS
  <2>1. n \in 0..N /\ n + 1 \in 1..N /\ n + 1 # 0 /\ (n + 1) - 1 = n  BY <1>1
  <2>2. place[n] \in V  BY <1>13, <2>1
  <2>3. place[n + 1] = Walked(place[n], path[n + 1], c.symlinks)  BY <1>10, <2>1
  <2> QED BY <1>2, <2>1, <2>2, <2>3 DEF V
<1> HIDE DEF T
<1>14. \A n \in 0..N : place[n] \in V
  <2>1. Nat \subseteq T  BY <1>12, <1>13, Induction
  <2>2. \A n \in 0..N : n \in Nat  BY <1>1
  <2> QED BY <2>1, <2>2 DEF T
<1>15. place \in [0..N -> V]  BY <1>11, <1>14, Zenon
<1>16. \A n \in 1..N : n \in 0..N /\ n # 0  BY <1>1
<1>17. 0 \in 0..N  BY <1>1
<1> QED BY <1>9, <1>10, <1>15, <1>16, <1>17 DEF V


LEMMA AppendType ==
  ASSUME NEW W, NEW p \in Seq(W), NEW w \in W
  PROVE  Append(p, w) \in Seq(W)
OBVIOUS

LEMMA NamesOf ==
  ASSUME InputInv
  PROVE  \E kept \in [0..Len(path) -> Seq(STRING)] :
           /\ kept[0] = << >>
           /\ \A n \in 1..Len(path) :
                kept[n] = IF path[n] \in {"", "."} THEN kept[n - 1] ELSE Append(kept[n - 1], path[n])
           /\ Names(path) = kept[Len(path)]
<1>1. path \in Seq(STRING) /\ Len(path) \in Nat /\ \A n \in 1..Len(path) : path[n] \in STRING
  <2>1. path \in Seq(STRING)  BY FileType
  <2> QED BY <2>1
<1> DEFINE N == Len(path)
           V == Seq(STRING)
           More(kept, n) == IF path[n] \in {"", "."} THEN kept ELSE Append(kept, path[n])
           step == [t \in Nat \X V |-> IF t[1] \in 1..N THEN More(t[2], t[1]) ELSE t[2]]
<1>2. ASSUME NEW kept \in V, NEW n \in 1..N  PROVE More(kept, n) \in V
  <2>1. path[n] \in STRING  BY <1>1
  <2>2. Append(kept, path[n]) \in V  BY <2>1, AppendType, Zenon
  <2> QED BY <2>2
<1>a. << >> \in V  OBVIOUS
<1> HIDE DEF More
<1>3. step \in [Nat \X V -> V]  BY <1>2
<1>4. \A n \in 1..N, kept \in V : step[<<n, kept>>] = More(kept, n)  OBVIOUS
<1> HIDE DEF step, V
<1>5. PICK f \in [0..N -> V] : \A i \in 0..N : f[i] = IF i = 0 THEN << >> ELSE step[<<i, f[i - 1]>>]
  <2>1. \A n \in Nat : \E f \in [0..n -> V] : Obeys(f, n, << >>, step)
    BY <1>3, <1>a, Recursion
  <2>2. PICK f \in [0..N -> V] : Obeys(f, N, << >>, step)  BY <1>1, <2>1
  <2> QED BY <2>2 DEF Obeys
<1>6. \A i \in 0..N : f[i] = IF i = 0 THEN << >> ELSE More(f[i - 1], i)
  <2> SUFFICES ASSUME NEW i \in 0..N  PROVE f[i] = IF i = 0 THEN << >> ELSE More(f[i - 1], i)
    OBVIOUS
  <2>1. CASE i = 0  BY <1>5, <2>1
  <2>2. CASE i # 0
    <3>1. i \in 1..N /\ i - 1 \in 0..N  BY <1>1, <2>2
    <3>2. f[i - 1] \in V  BY <3>1
    <3> QED BY <1>4, <1>5, <2>2, <3>1, <3>2
  <2> QED BY <2>1, <2>2
<1> DEFINE Is(p) == p = [n \in 0..N |-> IF n = 0 THEN << >> ELSE More(p[n - 1], n)]
           kept == CHOOSE p : Is(p)
<1>7. Is(f)
  <2>1. f = [i \in 0..N |-> f[i]]  OBVIOUS
  <2> QED BY <1>6, <2>1, Zenon
<1>8. Is(kept)  BY <1>7, Zenon
<1>9. Names(path) = kept[N]  BY DEF Names, More
<1> HIDE DEF kept
<1>10. \A i \in 0..N : kept[i] = IF i = 0 THEN << >> ELSE More(kept[i - 1], i)
  BY <1>8, Zenon
<1>11. DOMAIN kept = 0..N /\ kept = [i \in 0..N |-> kept[i]]
  <2>1. DOMAIN kept = 0..N  BY <1>8, Zenon
  <2> QED BY <1>8, <1>10, <2>1, Zenon
<1> DEFINE T == {n \in Nat : n \in 0..N => kept[n] \in V}
<1>12. 0 \in T  BY <1>1, <1>10, <1>a
<1>13. ASSUME NEW n \in Nat, n \in T  PROVE n + 1 \in T
  <2> SUFFICES ASSUME n + 1 \in 0..N  PROVE kept[n + 1] \in V  OBVIOUS
  <2>1. n \in 0..N /\ n + 1 \in 1..N /\ n + 1 # 0 /\ (n + 1) - 1 = n  BY <1>1
  <2>2. kept[n] \in V  BY <1>13, <2>1
  <2>3. kept[n + 1] = More(kept[n], n + 1)  BY <1>10, <2>1
  <2> QED BY <1>2, <2>1, <2>2, <2>3
<1> HIDE DEF T
<1>14. \A n \in 0..N : kept[n] \in V
  <2>1. Nat \subseteq T  BY <1>12, <1>13, Induction
  <2>2. \A n \in 0..N : n \in Nat  BY <1>1
  <2> QED BY <2>1, <2>2 DEF T
<1>15. kept \in [0..N -> V]  BY <1>11, <1>14, Zenon
<1>16. \A n \in 1..N : n \in 0..N /\ n # 0  BY <1>1
<1>17. 0 \in 0..N  BY <1>1
<1> QED BY <1>9, <1>10, <1>15, <1>16, <1>17 DEF V, More

LEMMA AppendLast ==
  ASSUME NEW W, NEW p \in Seq(W), NEW q \in Seq(W), NEW w \in W
  PROVE  p \o Append(q, w) = Append(p \o q, w)
OBVIOUS

(* Without symbolic links every place on the way is the root and the names *)
(* so far.                                                                 *)
LEMMA NoLinks ==
  ASSUME InputInv, NEW c, c = Config(options), ~c.symlinks,
         Root(c) # Lost, Target(c) # Lost
  PROVE  Target(c) = Root(c) \o Names(path)
<1> DEFINE N == Len(path)
<1>1. PICK place \in [0..N -> Nodes \cup {Lost}] :
        /\ place[0] = Root(c)
        /\ \A n \in 1..N : place[n] = Walked(place[n - 1], path[n], c.symlinks)
        /\ Target(c) = place[N]
  BY Places
<1>2. PICK kept \in [0..N -> Seq(STRING)] :
        /\ kept[0] = << >>
        /\ \A n \in 1..N :
             kept[n] = IF path[n] \in {"", "."} THEN kept[n - 1] ELSE Append(kept[n - 1], path[n])
        /\ Names(path) = kept[N]
  BY NamesOf
<1>3. path \in Seq(STRING) /\ N \in Nat /\ Root(c) \in Seq(STRING)
      /\ \A n \in 1..N : path[n] \in STRING
  <2>1. path \in Seq(STRING) /\ Root(c) \in Seq(STRING)  BY FileType, ResolvedType, TreeAssumption DEF Root
  <2> QED BY <2>1
<1>a. ~c.symlinks  OBVIOUS
<1> DEFINE T == {n \in Nat : n \in 0..N => place[n] \in {Lost, Root(c) \o kept[n]}}
<1>4. 0 \in T
  <2>1. Root(c) \o << >> = Root(c)  BY <1>3
  <2> QED BY <1>1, <1>2, <2>1
<1>5. ASSUME NEW n \in Nat, n \in T  PROVE n + 1 \in T
  <2> SUFFICES ASSUME n + 1 \in 0..N  PROVE place[n + 1] \in {Lost, Root(c) \o kept[n + 1]}
    OBVIOUS
  <2>1. n \in 0..N /\ n + 1 \in 1..N /\ (n + 1) - 1 = n  BY <1>3
  <2> DEFINE at == place[n]
             name == path[n + 1]
  <2>2. at \in {Lost, Root(c) \o kept[n]}  BY <1>5, <2>1
  <2>3. place[n + 1] = Walked(at, name, c.symlinks)  BY <1>1, <2>1
  <2>4. kept[n + 1] = IF name \in {"", "."} THEN kept[n] ELSE Append(kept[n], name)  BY <1>2, <2>1
  <2>5. kept[n] \in Seq(STRING) /\ name \in STRING  BY <1>3, <2>1
  <2>6. Root(c) \o Append(kept[n], name) = Append(Root(c) \o kept[n], name)
    <3>1. \A p \in Seq(STRING), q \in Seq(STRING), w \in STRING :
             p \o Append(q, w) = Append(p \o q, w)
      BY AppendLast
    <3>2. Root(c) \in Seq(STRING)  BY <1>3
    <3> QED BY <2>5, <3>1, <3>2, Zenon
  <2> HIDE DEF at, name
  <2>7. CASE name = ""  BY <2>2, <2>3, <2>4, <2>7 DEF Walked
  <2>8. CASE name # ""
    <3>1. CASE ~(at \in Directories /\ Present(at, name))
      BY <1>a, <2>3, <2>8, <3>1 DEF Walked
    <3>2. CASE at \in Directories /\ Present(at, name)
      <4>1. at = Root(c) \o kept[n]  BY <2>2, <3>2, TreeAssumption
      <4>2. Walked(at, name, c.symlinks) = IF name = "." THEN at ELSE Append(at, name)
        BY <1>a, <2>5, <2>8, <3>2, OneName DEF Walked
      <4> QED BY <2>3, <2>4, <2>6, <2>8, <4>1, <4>2
    <3> QED BY <3>1, <3>2
  <2> QED BY <2>7, <2>8
<1> HIDE DEF T
<1>6. Nat \subseteq T  BY <1>4, <1>5, Induction
<1>7. N \in T /\ N \in 0..N  BY <1>3, <1>6
<1> QED BY <1>1, <1>2, <1>7 DEF T

(* The file that is read lies under the directory that the configured root *)
(* leads to, and unless symbolic links are allowed on the path it is the   *)
(* one that the path names there, whatever the tree of files and its links *)
(* are, and wherever these lead: to other links, up, out, or nowhere.      *)
THEOREM TargetsUnderRoot == Spec => []FilesUnderRoot
<1>1. ContextInv /\ InputInv /\ ProgressInv => FilesUnderRoot
  <2> SUFFICES ASSUME ContextInv, InputInv, ProgressInv, gen # NoState, gen.stage = "jsonl",
                      NEW c, c = Config(options)
               PROVE  /\ IsPrefix(Root(c), gen.target)
                      /\ ~c.symlinks => gen.target = Root(c) \o Names(path)
    BY DEF FilesUnderRoot
  <2>1. gen \in States  BY DEF ContextInv, FlowInv
  <2>2. stage = "jsonl"
    BY <2>1 DEF InputInv, States, FibStates, PerfStates, LookupStates, AnyStates
  <2>3. gen.target = Target(c)  BY <2>1, <2>2 DEF States, JsonlStates
  <2>4. Resolves(c)  BY <2>2 DEF ProgressInv, JsonlInv
  <2>5. IsPrefix(Root(c), Target(c)) /\ Root(c) # Lost /\ Target(c) # Lost  BY <2>4 DEF Resolves
  <2> QED BY <2>3, <2>5, NoLinks
<1> QED BY <1>1, ProgressHolds, PTL
=============================================================================
