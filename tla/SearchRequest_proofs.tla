-------------------------- MODULE SearchRequest_proofs --------------------------
(***************************************************************************)
(* Proofs about SearchRequest for every set of documents, options and      *)
(* environments and all bounds: filters are judged as a whole says they    *)
(* should be, requests carry what the user wrote and are signed where they *)
(* must be, and their timeouts are right for every deadline and clock; and *)
(* what the router looks up are the documents that the answer names.       *)
(***************************************************************************)
EXTENDS RouterLookup, FiniteSetTheorems, WellFoundedInduction, TLAPS

(* Induction, in a form that needs no operator: sets of naturals have a    *)
(* least element.                                                          *)
Less == {ss \in Nat \X Nat : ss[1] < ss[2]}

LEMMA LeastNatural ==
  ASSUME NEW T \in SUBSET Nat, T # {}
  PROVE  \E n \in T : \A m \in T : n <= m
<1>1. IsWellFoundedOn(Less, Nat)  BY NatLessThanWellFounded DEF OpToRel, Less
<1>2. PICK n \in T : \A m \in T : <<m, n>> \notin Less  BY <1>1, WFMin, Zenon
<1>3. ASSUME NEW m \in T  PROVE  n <= m
  <2>1. <<m, n>> \notin Less  BY <1>2
  <2>2. ~(m < n)  BY <2>1 DEF Less
  <2> QED BY <2>2
<1> QED BY <1>3

LEMMA Induction ==
  ASSUME NEW T, 0 \in T, \A n \in Nat : n \in T => n + 1 \in T
  PROVE  Nat \subseteq T
<1> SUFFICES ASSUME Nat \ T # {}  PROVE FALSE  OBVIOUS
<1>1. PICK n \in Nat \ T : \A m \in Nat \ T : n <= m  BY LeastNatural
<1>2. n # 0 /\ n - 1 \in Nat /\ n - 1 \in T  BY <1>1
<1> QED BY <1>1, <1>2

(* One disjunct per action, the form every step proof splits into.         *)
LEMMA NextCases ==
  ASSUME [Next]_vars
  PROVE  \/ Expand \/ Merging \/ Open
         \/ KeysAccepted \/ KeysRefused
         \/ ClauseAccepted \/ ClauseRefused \/ OptionAccepted \/ OptionRefused
         \/ ArgumentsRefused
         \/ Expanded \/ Merged \/ NotMerged \/ Opened \/ NotOpened
         \/ Search \/ DeadlinePassed \/ Send \/ NotSent \/ RequestFails
         \/ Answered \/ Undecodable
         \/ UNCHANGED vars
  BY DEF Next, Hooks, Asking, parse_vector_search_args

-----------------------------------------------------------------------------
(* The data: what is not a document is NoDocument, and documents have      *)
(* filters that are sequences of entries.                                  *)
LEMMA DocumentsParse == Documents \subseteq ArgumentDocuments
  BY DataAssumption

LEMMA ParsedDocument ==
  ASSUME NEW d \in Parsing, d # NoDocument
  PROVE  d \in ArgumentDocuments
  BY DEF Parsing, NoDocument

LEMMA FilterOf ==
  ASSUME NEW d \in ArgumentDocuments
  PROVE  /\ d.filter.entries \in Seq(Entries)
         /\ Len(d.filter.entries) \in Nat
         /\ \A i \in 1..Len(d.filter.entries) : d.filter.entries[i] \in Entries
<1>1. d.filter \in Filters  BY DEF ArgumentDocuments
<1>2. d.filter.entries \in Seq(Entries)  BY <1>1 DEF Filters
<1> QED BY <1>2

(* Counting clauses: of one entry more, and of all of them.                *)
LEMMA CountOneMore ==
  ASSUME NEW f, NEW n \in Nat
  PROVE  /\ IsFiniteSet(ClausesUpTo(f, n)) /\ Cardinality(ClausesUpTo(f, n)) \in Nat
         /\ IsClause(f.entries[n + 1]) =>
              Cardinality(ClausesUpTo(f, n + 1)) = Cardinality(ClausesUpTo(f, n)) + 1
         /\ ~IsClause(f.entries[n + 1]) => ClausesUpTo(f, n + 1) = ClausesUpTo(f, n)
<1>1. IsFiniteSet(1..n)  BY FS_Interval
<1>2. ClausesUpTo(f, n) \subseteq 1..n  BY DEF ClausesUpTo
<1>3. IsFiniteSet(ClausesUpTo(f, n)) /\ Cardinality(ClausesUpTo(f, n)) \in Nat
  BY <1>1, <1>2, FS_Subset, FS_CardinalityType
<1>4. 1..(n + 1) = 1..n \cup {n + 1} /\ n + 1 \notin 1..n  OBVIOUS
<1>5. ASSUME IsClause(f.entries[n + 1])
      PROVE  Cardinality(ClausesUpTo(f, n + 1)) = Cardinality(ClausesUpTo(f, n)) + 1
  <2>1. ClausesUpTo(f, n + 1) = ClausesUpTo(f, n) \cup {n + 1}  BY <1>4, <1>5 DEF ClausesUpTo
  <2>2. n + 1 \notin ClausesUpTo(f, n)  BY <1>2, <1>4
  <2> QED BY <1>3, <2>1, <2>2, FS_AddElement
<1>6. ASSUME ~IsClause(f.entries[n + 1])
      PROVE  ClausesUpTo(f, n + 1) = ClausesUpTo(f, n)
  BY <1>4, <1>6 DEF ClausesUpTo
<1> QED BY <1>3, <1>5, <1>6

LEMMA CountAll ==
  ASSUME NEW f, NEW n \in Nat, NEW m \in 0..n
  PROVE  Cardinality(ClausesUpTo(f, m)) <= Cardinality(ClausesUpTo(f, n))
<1>1. ClausesUpTo(f, m) \subseteq ClausesUpTo(f, n)  BY DEF ClausesUpTo
<1>2. IsFiniteSet(ClausesUpTo(f, n))  BY CountOneMore
<1> QED BY <1>1, <1>2, FS_Subset

LEMMA CountNone ==
  ASSUME NEW f
  PROVE  Cardinality(ClausesUpTo(f, 0)) = 0
<1>1. ClausesUpTo(f, 0) = {}  BY DEF ClausesUpTo
<1> QED BY <1>1, FS_EmptySet

(* The limit that was parsed is in its range.                              *)
LEMMA LimitIsWhole ==
  ASSUME NEW d, ArgumentsFit(d)
  PROVE  QueryArgs(d).limit \in 1..MaxLimit
  BY DEF ArgumentsFit, LimitFits, QueryArgs

(* What the expansion writes down fits when what it was made of does, and  *)
(* says the same.                                                          *)
LEMMA ExpansionFits ==
  ASSUME NEW d \in ArgumentDocuments, ArgumentsFit(d), FilterFits(d.filter),
         variant = "mongodb"
  PROVE  LET e == id_lookup_expansion(QueryArgs(d)) IN
         e \in ArgumentDocuments /\ Fits(e) /\ QueryArgs(e) = QueryArgs(d)
<1> DEFINE e == id_lookup_expansion(QueryArgs(d))
<1>1. d.path.text \in Texts /\ d.query.text \in Texts /\ d.filter \in Filters
  BY DEF ArgumentDocuments, Strings
<1>2. Whole(d.limit) \in 1..MaxLimit /\ Whole(d.limit) \in Int
  BY LimitAssumption DEF ArgumentsFit, LimitFits
<1>3. /\ e.others = FALSE
      /\ e.path = [type |-> "string", text |-> d.path.text, padded |-> FALSE]
      /\ e.query = [type |-> "string", text |-> d.query.text, padded |-> FALSE]
      /\ e.limit = [type |-> "int", n |-> Whole(d.limit)]
      /\ e.filter = d.filter
  BY DEF id_lookup_expansion, Inner, QueryArgs
<1>4. e \in ArgumentDocuments
  <2> DEFINE path  == [type |-> "string", text |-> d.path.text, padded |-> FALSE]
              query == [type |-> "string", text |-> d.query.text, padded |-> FALSE]
              limit == [type |-> "int", n |-> Whole(d.limit)]
  <2>1. path \in Strings /\ query \in Strings  BY <1>1 DEF Strings
  <2>2. limit \in Numbers  BY <1>2 DEF Numbers
  <2>3. \A p, q \in Strings, l \in Numbers, f \in Filters :
          [others |-> FALSE, path |-> p, query |-> q, limit |-> l, filter |-> f]
              \in ArgumentDocuments
    BY DEF ArgumentDocuments
  <2>4. e = [others |-> FALSE, path |-> path, query |-> query, limit |-> limit,
             filter |-> d.filter]
    <3> DEFINE q == QueryArgs(d)
    <3>1. q.path = d.path.text /\ q.query = d.query.text /\ q.limit = Whole(d.limit)
          /\ q.filter = d.filter
      BY DEF QueryArgs
    <3>2. e = Inner(q, q.filter)  BY DEF id_lookup_expansion
    <3> HIDE DEF e, q
    <3>3. [type |-> "string", text |-> q.path, padded |-> FALSE] = path  BY <3>1
    <3>4. [type |-> "string", text |-> q.query, padded |-> FALSE] = query  BY <3>1
    <3>5. [type |-> "int", n |-> q.limit] = limit  BY <3>1
    <3> HIDE DEF path, query, limit
    <3> QED BY <3>1, <3>2, <3>3, <3>4, <3>5 DEF Inner
  <2> HIDE DEF e, path, query, limit
  <2> QED BY <1>1, <2>1, <2>2, <2>3, <2>4
<1> HIDE DEF e
<1>5. Whole(e.limit) = Whole(d.limit)  BY <1>3 DEF Whole
<1>6. QueryArgs(e) = QueryArgs(d)  BY <1>3, <1>5 DEF QueryArgs
<1>7. ArgumentsFit(e)
  <2>1. d.path.text # "" /\ d.query.text # ""  BY DEF ArgumentsFit, TextFits
  <2>5. /\ e.path.type = "string" /\ e.path.text = d.path.text
        /\ e.query.type = "string" /\ e.query.text = d.query.text
    BY <1>3
  <2>2. TextFits(e.path) /\ TextFits(e.query)  BY <2>1, <2>5 DEF TextFits
  <2>3. e.limit.type = "int"  BY <1>3
  <2>4. LimitFits(e.limit)  BY <1>2, <1>5, <2>3 DEF LimitFits
  <2> QED BY <2>2, <2>4, <2>5 DEF ArgumentsFit, Projected
<1>8. Fits(e)  BY <1>3, <1>7 DEF Fits, KeysFit
<1> QED BY <1>4, <1>6, <1>8 DEF e

(* The timeouts, in exact arithmetic.                                      *)
LEMMA TimeoutRight ==
  ASSUME NEW t \in InTime
  PROVE  LET timeout == request_timeout(t.deadline, t.now) IN
         /\ timeout \in 1..DefaultTimeout
         /\ Limited(t.deadline) => t.now + timeout <= t.deadline
         /\ timeout < DefaultTimeout => t.deadline - t.now = timeout
<1>1. t.deadline \in Int /\ t.now \in Int /\ t.now >= 0 /\ MinInt <= t.deadline
      /\ (Limited(t.deadline) => t.deadline <= MaxInt)
  BY LimitAssumption DEF InTime, Clocks, Deadlines, NoDeadline, Limited, MinInt
<1>2. MaxInt \in Nat \ {0} /\ DefaultTimeout \in Nat \ {0} /\ MinInt = -MaxInt - 1
  BY LimitAssumption DEF MinInt
<1>3. Limited(t.deadline) => Remaining(t.deadline, t.now) > 0  BY DEF InTime
<1>4. Limited(t.deadline) => Remaining(t.deadline, t.now) = t.deadline - t.now
  BY <1>1, <1>2, <1>3 DEF Remaining, Saturated
<1> QED BY <1>1, <1>2, <1>3, <1>4 DEF request_timeout

LEMMA PassedRight ==
  ASSUME NEW t \in Clocks, Limited(t.deadline), Remaining(t.deadline, t.now) <= 0
  PROVE  t.deadline <= t.now
<1>1. t.deadline \in Int /\ t.now \in Int
  BY LimitAssumption DEF Clocks, Deadlines, NoDeadline, MinInt
<1>2. MaxInt \in Nat \ {0} /\ MinInt = -MaxInt - 1  BY LimitAssumption DEF MinInt
<1> QED BY <1>1, <1>2 DEF Remaining, Saturated

(* Leaving blanks out of a list.  The list without the first of them, and  *)
(* so on, is a function, by induction over its length ...                  *)
LEMMA KeptExists ==
  ASSUME NEW s \in Seq(Listing)
  PROVE  \A m \in Nat : m <= Len(s) => \E f \in [0..m -> Seq(Listing)] :
           \A n \in 0..m : f[n] = IF n = 0 THEN << >>
                                  ELSE IF s[n] = "blank" THEN f[n - 1] ELSE Append(f[n - 1], s[n])
<1> DEFINE Kept(f, m) ==
             \A n \in 0..m : f[n] = IF n = 0 THEN << >>
                                    ELSE IF s[n] = "blank" THEN f[n - 1] ELSE Append(f[n - 1], s[n])
           T == {m \in Nat : m <= Len(s) => \E f \in [0..m -> Seq(Listing)] : Kept(f, m)}
<1>1. 0 \in T
  <2> DEFINE f == [n \in 0..0 |-> << >>]
  <2>1. f \in [0..0 -> Seq(Listing)] /\ Kept(f, 0)  OBVIOUS
  <2> QED BY <2>1
<1>2. ASSUME NEW m \in Nat, m \in T  PROVE m + 1 \in T
  <2> SUFFICES ASSUME m + 1 <= Len(s)
               PROVE  \E g \in [0..(m + 1) -> Seq(Listing)] : Kept(g, m + 1)
    OBVIOUS
  <2>1. PICK f \in [0..m -> Seq(Listing)] : Kept(f, m)  BY <1>2
  <2>2. m \in 0..m /\ m + 1 \in 1..Len(s) /\ s[m + 1] \in Listing  OBVIOUS
  <2>3. f[m] \in Seq(Listing)  BY <2>1, <2>2
  <2> DEFINE last == IF s[m + 1] = "blank" THEN f[m] ELSE Append(f[m], s[m + 1])
             g == [n \in 0..(m + 1) |-> IF n <= m THEN f[n] ELSE last]
  <2>4. last \in Seq(Listing)
    <3> HIDE DEF Listing
    <3> QED BY <2>2, <2>3
  <2> HIDE DEF last
  <2>5. \A n \in 0..(m + 1) : (n <= m => n \in 0..m) /\ (~(n <= m) => n = m + 1)  OBVIOUS
  <2>6. g \in [0..(m + 1) -> Seq(Listing)]  BY <2>4, <2>5
  <2>7. g[m + 1] = last /\ \A n \in 0..m : g[n] = f[n]  OBVIOUS
  <2> HIDE DEF g
  <2>8. ASSUME NEW n \in 0..(m + 1)
        PROVE  g[n] = IF n = 0 THEN << >>
                      ELSE IF s[n] = "blank" THEN g[n - 1] ELSE Append(g[n - 1], s[n])
    <3>1. CASE n \in 0..m
      <4>1. n # 0 => n - 1 \in 0..m  BY <3>1
      <4>2. f[n] = IF n = 0 THEN << >>
                   ELSE IF s[n] = "blank" THEN f[n - 1] ELSE Append(f[n - 1], s[n])
        BY <2>1, <3>1
      <4>3. g[n] = f[n] /\ (n # 0 => g[n - 1] = f[n - 1])  BY <2>7, <3>1, <4>1
      <4> QED BY <4>2, <4>3, Zenon
    <3>2. CASE n = m + 1
      <4>1. n # 0 /\ n - 1 = m /\ m \in 0..m  BY <3>2
      <4>2. g[n - 1] = f[m]  BY <2>7, <4>1
      <4>3. g[n] = last  BY <2>7, <3>2
      <4> QED BY <3>2, <4>1, <4>2, <4>3 DEF last
    <3> QED BY <2>5, <3>1, <3>2
  <2>9. Kept(g, m + 1)  BY <2>8
  <2> QED BY <2>6, <2>9
<1> HIDE DEF T
<1>3. Nat \subseteq T  BY <1>1, <1>2, Induction
<1> QED BY <1>3 DEF T

(* ... whose last value is a list again.                                   *)
LEMMA KeptListed ==
  ASSUME NEW s \in Seq(Listing)
  PROVE  NotBlank(s) \in Seq(Listing)
<1> DEFINE N == Len(s)
           More(f, n) == IF s[n] = "blank" THEN f[n - 1] ELSE Append(f[n - 1], s[n])
           Is(f) == f = [n \in 0..N |-> IF n = 0 THEN << >> ELSE More(f, n)]
           kept == CHOOSE f : Is(f)
<1>1. N \in Nat /\ N <= N  OBVIOUS
<1>2. PICK f \in [0..N -> Seq(Listing)] : \A n \in 0..N : f[n] = IF n = 0 THEN << >> ELSE More(f, n)
  BY <1>1, KeptExists
<1>3. Is(f)
  <2>1. f = [n \in 0..N |-> f[n]]  OBVIOUS
  <2> HIDE DEF More
  <2> QED BY <1>2, <2>1, Zenon
<1>4. Is(kept)  BY <1>3, Zenon
<1>5. NotBlank(s) = kept[N]  BY DEF NotBlank
<1> HIDE DEF kept
<1>6. \A n \in 0..N : kept[n] = IF n = 0 THEN << >> ELSE More(kept, n)
  <2> HIDE DEF More
  <2> QED BY <1>4, Zenon
<1> DEFINE T == {n \in Nat : n \in 0..N => kept[n] = f[n]}
<1>7. 0 \in T  BY <1>1, <1>2, <1>6
<1>8. ASSUME NEW n \in Nat, n \in T  PROVE n + 1 \in T
  <2> SUFFICES ASSUME n + 1 \in 0..N  PROVE kept[n + 1] = f[n + 1]  OBVIOUS
  <2>1. n \in 0..N /\ n + 1 # 0 /\ (n + 1) - 1 = n  BY <1>1
  <2>2. kept[n] = f[n]  BY <1>8, <2>1
  <2>3. kept[n + 1] = More(kept, n + 1) /\ f[n + 1] = More(f, n + 1)  BY <1>2, <1>6, <2>1
  <2> QED BY <2>1, <2>2, <2>3
<1> HIDE DEF T
<1>9. N \in T /\ N \in 0..N  BY <1>1, <1>7, <1>8, Induction
<1>10. kept[N] = f[N]  BY <1>9 DEF T
<1> QED BY <1>2, <1>5, <1>9, <1>10

(* What is listed in options that fit are endpoints.                       *)
LEMMA EndpointsListed ==
  ASSUME NEW o \in OptionTexts, ConfigFits(o)
  PROVE  Listed(o) \in Seq(Schemes) /\ Listed(o) # << >>
<1>1. Listed(o) \in Seq(Listing)
  <2>1. o.listed \in Seq(Listing)  BY DataAssumption
  <2> QED BY <2>1, KeptListed DEF Listed
<1>2. \A i \in 1..Len(Listed(o)) : Listed(o)[i] \in Schemes  BY <1>1 DEF ConfigFits
<1> QED BY <1>1, <1>2 DEF ConfigFits

-----------------------------------------------------------------------------
(* What the parser knows is what it needs: a filter all of whose entries   *)
(* it passed fits, and what it stops at does not.                          *)
LEMMA PassedFits ==
  ASSUME TypeOK, ParserInv, Parsed
  PROVE  given \in ArgumentDocuments /\ Fits(given)
<1>1. pc = "filter" /\ visited = Len(given.filter.entries) /\ ArgumentsFit(given)
  BY DEF Parsed, Visited
<1>2. given \in ArgumentDocuments
  BY <1>1, DocumentsParse, ParsedDocument DEF TypeOK, ParserInv, Parses
<1>3. clauses <= MaxClauses  BY LimitAssumption DEF TypeOK
<1>4. FilterFits(given.filter)  BY <1>1, <1>3 DEF ParserInv, FilterFits
<1> QED BY <1>1, <1>2, <1>4 DEF Fits, ParserInv

LEMMA RefusedUnfit ==
  ASSUME TypeOK, ParserInv,
         \/ KeysRefused \/ ClauseRefused \/ OptionRefused \/ ArgumentsRefused
  PROVE  ~Fits(given)
<1>1. CASE KeysRefused  BY <1>1 DEF KeysRefused, Fits, FilterFits
<1>2. CASE ArgumentsRefused  BY <1>2 DEF ArgumentsRefused, Fits
<1>3. ASSUME Visiting PROVE /\ given \in ArgumentDocuments
                            /\ visited \in Nat /\ visited + 1 \in 1..Len(given.filter.entries)
                            /\ clauses = Cardinality(ClausesUpTo(given.filter, visited))
  <2>1. pc = "filter"  BY <1>3 DEF Visiting
  <2>2. given \in ArgumentDocuments
    BY <2>1, DocumentsParse, ParsedDocument DEF TypeOK, ParserInv, Parses
  <2> QED BY <1>3, <2>1, <2>2, FilterOf DEF Visiting, TypeOK, ParserInv
<1>4. CASE ClauseRefused
  <2>1. Visiting /\ IsClause(Entry) /\ (TooMuch(Entry, clauses + 1) \/ ~Supported(Entry))
    BY <1>4 DEF ClauseRefused
  <2>2. CASE clauses + 1 > MaxClauses
    <3>1. Cardinality(ClausesUpTo(given.filter, visited + 1)) = clauses + 1
      BY <1>3, <2>1, CountOneMore DEF Entry
    <3>2. /\ Cardinality(ClausesUpTo(given.filter, visited + 1))
               <= Cardinality(ClausesUpTo(given.filter, Len(given.filter.entries)))
          /\ Cardinality(ClausesUpTo(given.filter, Len(given.filter.entries))) \in Nat
          /\ clauses \in Nat
      BY <1>3, <2>1, CountAll, CountOneMore, FilterOf
    <3> QED BY <2>2, <3>1, <3>2, LimitAssumption DEF Fits, FilterFits
  <2>3. CASE ~(Entry.depth <= MaxDepth /\ Supported(Entry))
    BY <1>3, <2>1, <2>3 DEF Fits, FilterFits, EntryFits, Entry
  <2>4. Entry \in Entries  BY <1>3, <2>1, FilterOf DEF Entry
  <2>5. Entry.depth \in Nat /\ MaxDepth \in Nat  BY <2>4, LimitAssumption DEF Entries
  <2> QED BY <2>1, <2>2, <2>3, <2>5 DEF TooMuch
<1>5. CASE OptionRefused
  BY <1>3, <1>5 DEF OptionRefused, Fits, FilterFits, EntryFits, Entry
<1> QED BY <1>1, <1>2, <1>4, <1>5

-----------------------------------------------------------------------------
(* The steps.  Actions that leave what a part of the invariant speaks of   *)
(* alone are taken together.                                               *)
Refused   == \/ KeysRefused \/ ClauseRefused \/ OptionRefused \/ ArgumentsRefused
             \/ NotMerged \/ NotOpened
Attempted == DeadlinePassed \/ NotSent \/ RequestFails \/ Answered \/ Undecodable

LEMMA InitStep == Init => IInv
<1> SUFFICES ASSUME Init PROVE IInv  OBVIOUS
<1>1. NoTiming \in Clocks
  BY LimitAssumption DEF NoTiming, Clocks, Deadlines, NoDeadline, MinInt
<1>2. TypeOK
  <2>1. given \in Parsing /\ node \in Parsing  BY DEF Init, Parsing, NoDocument
  <2>2. /\ visited \in Nat /\ clauses \in 0..MaxClauses /\ lookup \in 0..MaxLimit
        /\ endpoints \in Seq(Schemes) /\ at \in 0..Len(endpoints)
    BY LimitAssumption DEF Init
  <2>3. timing \in Clocks  BY <1>1 DEF Init
  <2>4. /\ variant \in {"mongodb", "mongos"} /\ document \in Documents
        /\ catalog \in {"absent", "shard", "router"}
        /\ options \in OptionTexts \cup {Unread} /\ environment \in Environments \cup {Unread}
        /\ pc = "idle" /\ call = "none" /\ merger = FALSE
    BY DEF Init
  <2> QED BY <2>1, <2>2, <2>3, <2>4 DEF TypeOK
<1>3. ParserInv /\ PlanInv /\ SearchInv
  BY DEF Init, ParserInv, PlanInv, SearchInv, Parses
<1>4. VerdictRight /\ RequestAsWritten /\ SignedWhereAsked /\ TimeoutsTrue
  BY DEF Init, VerdictRight, RequestAsWritten, SignedWhereAsked, TimeoutsTrue
<1> QED BY <1>2, <1>3, <1>4 DEF IInv

LEMMA TypeStep == ASSUME IInv, [Next]_vars PROVE TypeOK'
<1> USE DEF config, process, parser, plan, state, attempt
<1> TypeOK /\ ParserInv /\ PlanInv /\ SearchInv  BY DEF IInv
<1>0. NoTiming \in Clocks
  BY LimitAssumption DEF NoTiming, Clocks, Deadlines, NoDeadline, MinInt
<1>1. ASSUME Expand \/ Merging \/ Open PROVE TypeOK'
  <2>1. document \in Parsing /\ 0 \in 0..MaxClauses
    <3>1. document \in Documents /\ clauses \in 0..MaxClauses  BY DEF TypeOK
    <3>2. document \in ArgumentDocuments  BY <3>1, DocumentsParse
    <3>3. 0 \in 0..MaxClauses  BY LimitAssumption
    <3> QED BY <3>2, <3>3 DEF Parsing
  <2>2. ASSUME NEW hook \in {"expand", "merge", "open"}, NEW d \in Parsing, Parse(hook, d)
        PROVE  TypeOK'
    <3>1. /\ pc' = "keys" /\ call' = hook /\ given' = d /\ visited' = 0 /\ clauses' = 0
      BY <2>2 DEF Parse
    <3>2. UNCHANGED <<variant, document, catalog, options, environment, node, lookup, merger>>
      BY <2>2 DEF Parse
    <3>3. UNCHANGED <<endpoints, at, timing>>  BY <2>2 DEF Parse
    <3> QED BY <2>1, <2>2, <3>1, <3>2, <3>3 DEF TypeOK
  <2>3. node \in Parsing  BY DEF TypeOK
  <2> QED BY <1>1, <2>1, <2>2, <2>3 DEF Expand, Merging, Open
<1>2. CASE KeysAccepted  BY <1>2 DEF KeysAccepted, TypeOK
<1>3. CASE Refused
  BY <1>3 DEF Refused, KeysRefused, ClauseRefused, OptionRefused, ArgumentsRefused,
     NotMerged, NotOpened, Refuse, Return, TypeOK
<1>4. CASE ClauseAccepted
  <2>1. clauses + 1 \in 0..MaxClauses /\ visited + 1 \in Nat
    BY <1>4, LimitAssumption DEF ClauseAccepted, TooMuch, TypeOK
  <2> QED BY <1>4, <2>1 DEF ClauseAccepted, TypeOK
<1>5. CASE OptionAccepted  BY <1>5 DEF OptionAccepted, TypeOK
<1>6. CASE Expanded
  <2>1. Parsed /\ given \in ArgumentDocuments /\ Fits(given)
    BY <1>6, PassedFits DEF Expanded
  <2>2. node' \in Parsing
    BY <1>6, <2>1, ExpansionFits DEF Expanded, Fits, Parsing, TypeOK
  <2>3. lookup' \in 0..MaxLimit
    <3>1. QueryArgs(given).limit \in 1..MaxLimit  BY <2>1, LimitIsWhole DEF Fits
    <3> HIDE DEF process
    <3> QED BY <1>6, <3>1, LimitAssumption DEF Expanded
  <2> QED BY <1>6, <2>2, <2>3 DEF Expanded, Return, TypeOK
<1>7. CASE Merged  BY <1>7 DEF Merged, Return, TypeOK
<1>8. CASE Opened
  <2>1. /\ endpoints' \in Seq(Schemes) /\ options' \in OptionTexts
        /\ environment' \in Environments
    BY <1>8, EndpointsListed DEF Opened
  <2>2. at = 0 /\ at' = at
    BY <1>8 DEF Opened, Parsed, Visited, ParserInv, Parses, PlanInv
  <2>3. at' \in 0..Len(endpoints')  BY <2>1, <2>2
  <2> QED BY <1>8, <2>1, <2>3 DEF Opened, Return, TypeOK
<1>9. CASE Search
  <2>1. 1 \in 0..Len(endpoints)  BY <1>9 DEF Search, PlanInv, TypeOK
  <2> QED BY <1>9, <1>0, <2>1 DEF Search, TypeOK
<1>10. CASE DeadlinePassed  BY <1>10 DEF DeadlinePassed, Return, TypeOK
<1>11. CASE Send  BY <1>11 DEF Send, InTime, TypeOK
<1>12. ASSUME Fails PROVE TypeOK'
  <2>1. at' \in 0..Len(endpoints)
    <3>1. at \in 0..Len(endpoints) /\ Len(endpoints) \in Nat  BY DEF TypeOK
    <3>2. CASE at < Len(endpoints)  BY <1>12, <3>1, <3>2 DEF Fails
    <3>3. CASE ~(at < Len(endpoints))  BY <1>12, <3>1, <3>3 DEF Fails
    <3> QED BY <3>2, <3>3
  <2> QED BY <1>12, <1>0, <2>1 DEF Fails, Return, TypeOK
<1>13. CASE Answered \/ Undecodable
  BY <1>0, <1>13 DEF Answered, Undecodable, Ends, Return, TypeOK
<1>14. CASE UNCHANGED vars  BY <1>14 DEF vars, TypeOK
<1> QED BY <1>1, <1>2, <1>3, <1>4, <1>5, <1>6, <1>7, <1>8, <1>9, <1>10, <1>11, <1>12, <1>13,
           <1>14, NextCases DEF Refused, NotSent, RequestFails

LEMMA ParserStep == ASSUME IInv, [Next]_vars PROVE ParserInv'
<1> USE DEF config, process, parser, plan, state, attempt
<1> TypeOK /\ ParserInv /\ PlanInv /\ SearchInv  BY DEF IInv
<1>1. ASSUME Expand \/ Merging \/ Open PROVE ParserInv'
  <2>1. /\ pc' = "keys" /\ visited' = 0 /\ clauses' = 0
        /\ UNCHANGED <<variant, document, node, args>>
    BY <1>1 DEF Expand, Merging, Open, Parse
  <2>2. CASE Expand
    <3>1. node = NoDocument /\ call' = "expand" /\ given' = document
      BY <2>2 DEF Expand, Parse
    <3> QED BY <2>1, <3>1 DEF ParserInv, Parses
  <2>3. CASE Merging
    <3>1. node # NoDocument /\ call' = "merge" /\ given' = node /\ variant = "mongos"
      BY <2>3 DEF Merging, Parse
    <3> QED BY <2>1, <3>1 DEF ParserInv, Parses
  <2>4. CASE Open
    <3>1. node # NoDocument /\ call' = "open" /\ given' = node /\ args = NoState
      BY <2>4 DEF Open, Parse
    <3> QED BY <2>1, <3>1 DEF ParserInv, Parses
  <2> QED BY <1>1, <2>2, <2>3, <2>4
<1>2. CASE KeysAccepted
  <2>1. given \in ArgumentDocuments
    BY <1>2, DocumentsParse, ParsedDocument DEF KeysAccepted, TypeOK, ParserInv, Parses
  <2>2. Len(given.filter.entries) \in Nat /\ Cardinality(ClausesUpTo(given.filter, 0)) = 0
    BY <2>1, FilterOf, CountNone
  <2> QED BY <1>2, <2>2 DEF KeysAccepted, ParserInv, Parses, KeysFit
<1>3. ASSUME pc' \notin {"keys", "filter"} PROVE ParserInv'  BY <1>3 DEF ParserInv, Parses
<1>4. ASSUME ClauseAccepted \/ OptionAccepted PROVE ParserInv'
  <2>1. /\ pc = "filter" /\ visited < Len(given.filter.entries) /\ visited' = visited + 1
        /\ EntryFits(given.filter.entries[visited + 1])
    <3>1. given \in ArgumentDocuments
      BY <1>4, DocumentsParse, ParsedDocument
      DEF ClauseAccepted, OptionAccepted, Visiting, TypeOK, ParserInv, Parses
    <3>2. visited + 1 \in 1..Len(given.filter.entries)
      BY <1>4, <3>1, FilterOf DEF ClauseAccepted, OptionAccepted, Visiting, TypeOK
    <3>3. Entry \in Entries  BY <3>1, <3>2, FilterOf DEF Entry
    <3>4. Entry.depth \in Nat /\ MaxDepth \in Nat  BY <3>3, LimitAssumption DEF Entries
    <3>5. EntryFits(Entry)
      BY <1>4, <3>4 DEF ClauseAccepted, OptionAccepted, EntryFits, TooMuch
    <3> QED BY <1>4, <3>5 DEF ClauseAccepted, OptionAccepted, Visiting, Entry
  <2>2. clauses' = Cardinality(ClausesUpTo(given.filter, visited + 1))
    BY <1>4, <2>1, CountOneMore
    DEF ClauseAccepted, OptionAccepted, ParserInv, TypeOK, Entry
  <2>3. \A i \in 1..(visited + 1) : EntryFits(given.filter.entries[i])
    BY <2>1 DEF ParserInv, TypeOK
  <2>4. visited + 1 \in 0..Len(given.filter.entries)  BY <2>1 DEF ParserInv
  <2>5. UNCHANGED <<config, call, given, node, args, pc>>
    BY <1>4 DEF ClauseAccepted, OptionAccepted
  <2> QED BY <2>1, <2>2, <2>3, <2>4, <2>5 DEF ParserInv, Parses, KeysFit
<1>5. CASE UNCHANGED vars  BY <1>5 DEF vars, ParserInv, Parses, KeysFit
<1>6. ASSUME \/ Refused \/ Expanded \/ Merged \/ Opened
             \/ Search \/ Send \/ Attempted
      PROVE  pc' \notin {"keys", "filter"}
  BY <1>6 DEF Refused, KeysRefused, ClauseRefused, OptionRefused, ArgumentsRefused, NotMerged,
     NotOpened, Refuse, Return, Expanded, Merged, Opened, Search, Send, Attempted,
     DeadlinePassed, NotSent, RequestFails, Answered, Undecodable, Ends, Fails
<1> QED BY <1>1, <1>2, <1>3, <1>4, <1>5, <1>6, NextCases DEF Refused, Attempted

(* What an expansion makes of the document that it parsed.                 *)
LEMMA ExpandedRight ==
  ASSUME TypeOK, ParserInv, Expanded
  PROVE  /\ given = document /\ Fits(document)
         /\ variant = "mongos" \/ variant = "mongodb"
         /\ Fits(node') /\ QueryArgs(node') = QueryArgs(document)
         /\ UNCHANGED <<variant, document>>
         /\ variant = "mongodb" => lookup' = QueryArgs(document).limit
<1>1. Parsed /\ given \in ArgumentDocuments /\ Fits(given)  BY PassedFits DEF Expanded
<1>2. given = document
  BY <1>1 DEF Expanded, Parsed, Visited, ParserInv, Parses
<1>3. variant = "mongos" \/ variant = "mongodb"  BY DEF TypeOK
<1>4. UNCHANGED <<variant, document>>  BY DEF Expanded, config
<1>5. CASE variant = "mongos"
  <2>1. node' = given  BY <1>5 DEF Expanded
  <2> QED BY <1>1, <1>2, <1>3, <1>4, <1>5, <2>1
<1>6. CASE variant = "mongodb"
  <2>1. node' = id_lookup_expansion(QueryArgs(given)) /\ lookup' = QueryArgs(given).limit
    BY <1>6 DEF Expanded
  <2>2. Fits(node') /\ QueryArgs(node') = QueryArgs(given)
    BY <1>1, <1>6, <2>1, ExpansionFits DEF Fits
  <2> QED BY <1>1, <1>2, <1>3, <1>4, <2>1, <2>2
<1> QED BY <1>3, <1>5, <1>6

LEMMA PlanStep == ASSUME IInv, [Next]_vars PROVE PlanInv'
<1> USE DEF config, process, parser, plan, state, attempt
<1> TypeOK /\ ParserInv /\ PlanInv /\ SearchInv  BY DEF IInv
<1>1. ASSUME UNCHANGED <<document, node, args, endpoints, environment, at>>
      PROVE  PlanInv'
  BY <1>1 DEF PlanInv, QueryArgs, Whole
<1>2. CASE Expanded
  <2>1. QueryArgs(node') = QueryArgs(document) /\ document' = document
    BY <1>2, ExpandedRight
  <2>2. UNCHANGED <<args, endpoints, environment, at>>  BY <1>2 DEF Expanded
  <2> QED BY <2>1, <2>2 DEF PlanInv
<1>3. CASE Opened
  <2>1. given = node /\ node # NoDocument /\ args = NoState
    BY <1>3 DEF Opened, Parsed, Visited, ParserInv, Parses
  <2>2. args' = QueryArgs(document) /\ at = 0
    BY <1>3, <2>1 DEF Opened, PlanInv
  <2>3. environment' \in Environments /\ endpoints' # << >>
    BY <1>3, EndpointsListed DEF Opened
  <2>4. UNCHANGED <<document, node, at>>  BY <1>3 DEF Opened
  <2> QED BY <2>2, <2>3, <2>4 DEF PlanInv
<1>4. ASSUME Search \/ Fails, args # NoState PROVE PlanInv'
  <2>1. UNCHANGED <<document, node, args, endpoints, environment>>
    BY <1>4 DEF Search, Fails
  <2> QED BY <1>4, <2>1 DEF PlanInv
<1>5. ASSUME \/ Expand \/ Merging \/ Open \/ KeysAccepted \/ ClauseAccepted
             \/ OptionAccepted \/ Refused \/ Merged
             \/ DeadlinePassed \/ Send \/ Answered \/ Undecodable \/ UNCHANGED vars
      PROVE  UNCHANGED <<document, node, args, endpoints, environment, at>>
  BY <1>5 DEF vars, Expand, Merging, Open, Parse, Refused, KeysRefused, ClauseRefused,
     OptionRefused, ArgumentsRefused, NotMerged, NotOpened, Refuse, KeysAccepted,
     ClauseAccepted, OptionAccepted, Merged, DeadlinePassed, Send, Answered, Undecodable, Ends
<1>6. (Search => args # NoState)
      /\ (NotSent \/ RequestFails => Fails /\ args # NoState)
  BY DEF Search, NotSent, RequestFails, SearchInv
<1> QED BY <1>1, <1>2, <1>3, <1>4, <1>5, <1>6, NextCases DEF Refused

LEMMA SearchStep == ASSUME IInv, [Next]_vars PROVE SearchInv'
<1> USE DEF config, process, parser, plan, state, attempt
<1> TypeOK /\ ParserInv /\ PlanInv /\ SearchInv  BY DEF IInv
<1>1. ASSUME pc' \notin {"attempt", "request"} PROVE SearchInv'  BY <1>1 DEF SearchInv
<1>2. CASE Search  BY <1>2 DEF Search, SearchInv
<1>3. CASE Send  BY <1>3 DEF Send, SearchInv
<1>4. ASSUME Fails, pc \in {"attempt", "request"} PROVE SearchInv'
  <2>1. CASE at < Len(endpoints)
    BY <1>4, <2>1 DEF Fails, SearchInv, TypeOK
  <2>2. CASE ~(at < Len(endpoints))
    BY <1>4, <2>2 DEF Fails, Return, SearchInv
  <2> QED BY <2>1, <2>2
<1>5. CASE UNCHANGED vars  BY <1>5 DEF vars, SearchInv
<1>6. ASSUME \/ Expand \/ Merging \/ Open \/ KeysAccepted \/ ClauseAccepted
             \/ OptionAccepted \/ Refused \/ Expanded \/ Merged \/ Opened
             \/ DeadlinePassed \/ Answered \/ Undecodable
      PROVE  pc' \notin {"attempt", "request"}
  BY <1>6 DEF Expand, Merging, Open, Parse, Refused, KeysRefused, ClauseRefused,
     OptionRefused, ArgumentsRefused, NotMerged, NotOpened, Refuse, Return, KeysAccepted,
     ClauseAccepted, OptionAccepted, Visiting, Expanded, Merged, Opened,
     DeadlinePassed, Answered, Undecodable, Ends
<1>7. NotSent \/ RequestFails => Fails /\ pc \in {"attempt", "request"}
  BY DEF NotSent, RequestFails
<1> QED BY <1>1, <1>2, <1>3, <1>4, <1>5, <1>6, <1>7, NextCases DEF Refused

LEMMA VerdictStep == ASSUME IInv, [Next]_vars PROVE VerdictRight'
<1> USE DEF config, process, parser, plan, state, attempt
<1> TypeOK /\ ParserInv /\ PlanInv /\ SearchInv /\ VerdictRight  BY DEF IInv
<1> USE DEF Fits, KeysFit, ArgumentsFit, Projected
<1>1. ASSUME UNCHANGED <<variant, document, node>>, outcome' # "refused"
      PROVE  VerdictRight'
  BY <1>1 DEF VerdictRight
<1>2. ASSUME UNCHANGED <<variant, document, node, outcome, given, call>>
      PROVE  VerdictRight'
  BY <1>2 DEF VerdictRight
<1>3. ASSUME KeysRefused \/ ClauseRefused \/ OptionRefused \/ ArgumentsRefused
      PROVE  VerdictRight'
  <2>1. ~Fits(given)  BY <1>3, RefusedUnfit
  <2>2. Parses
    BY <1>3 DEF KeysRefused, ClauseRefused, OptionRefused, ArgumentsRefused, Visiting, Visited,
       Parses
  <2>3. call = "expand"
    <3> HIDE DEF Fits
    <3> QED BY <2>1, <2>2 DEF ParserInv, VerdictRight
  <2>4. UNCHANGED <<variant, document, node, given, call>>
    BY <1>3 DEF KeysRefused, ClauseRefused, OptionRefused, ArgumentsRefused, Refuse
  <2> QED BY <2>1, <2>3, <2>4 DEF VerdictRight
<1>4. CASE Expanded
  <2>1. Fits(document) /\ Fits(node') /\ UNCHANGED <<variant, document>>
    <3> HIDE DEF Fits
    <3> QED BY <1>4, ExpandedRight
  <2>2. outcome' = "expanded"  BY <1>4 DEF Expanded, Return
  <2> QED BY <2>1, <2>2 DEF VerdictRight
<1> HIDE DEF Fits, KeysFit, ArgumentsFit, Projected
<1>5. ASSUME \/ Expand \/ Merging \/ Open \/ Merged \/ NotMerged \/ Opened \/ NotOpened
             \/ Search \/ DeadlinePassed \/ Answered \/ Undecodable
      PROVE  UNCHANGED <<variant, document, node>> /\ outcome' # "refused"
  BY <1>5 DEF Expand, Merging, Open, Parse, NotMerged, NotOpened, Return, Merged, Opened,
     Search, DeadlinePassed, Answered, Undecodable, Ends
<1>6. ASSUME KeysAccepted \/ ClauseAccepted \/ OptionAccepted \/ Send \/ UNCHANGED vars
      PROVE  UNCHANGED <<variant, document, node, outcome, given, call>>
  BY <1>6 DEF KeysAccepted, ClauseAccepted, OptionAccepted, Send, vars
<1>7. ASSUME NotSent \/ RequestFails
      PROVE  UNCHANGED <<variant, document, node>> /\ outcome' # "refused"
  <2>1. Fails /\ outcome = "none"  BY <1>7 DEF NotSent, RequestFails, SearchInv
  <2>2. CASE at < Len(endpoints)  BY <2>1, <2>2 DEF Fails
  <2>3. CASE ~(at < Len(endpoints))  BY <2>1, <2>3 DEF Fails, Return
  <2> QED BY <2>2, <2>3
<1> QED BY <1>1, <1>2, <1>3, <1>4, <1>5, <1>6, <1>7, NextCases

LEMMA AsWrittenStep == ASSUME IInv, [Next]_vars PROVE RequestAsWritten'
<1> USE DEF config, process, parser, plan, state, attempt
<1> TypeOK /\ ParserInv /\ PlanInv /\ SearchInv /\ RequestAsWritten  BY DEF IInv
<1>1. ASSUME UNCHANGED <<variant, document, node, lookup>>, pc' # "request"
      PROVE  RequestAsWritten'
  BY <1>1 DEF RequestAsWritten, QueryArgs, Whole
<1>2. CASE Expanded
  <2>1. pc' = "idle"  BY <1>2 DEF Expanded, Return
  <2>2. variant = "mongodb" => lookup' = QueryArgs(document).limit
    BY <1>2, ExpandedRight
  <2>3. UNCHANGED <<variant, document>>  BY <1>2, ExpandedRight
  <2> QED BY <2>1, <2>2, <2>3 DEF RequestAsWritten
<1>3. CASE Send
  <2>1. args = QueryArgs(document)  BY <1>3 DEF Send, SearchInv, PlanInv
  <2>2. request'.body = opensearch_body(args)  BY <1>3 DEF Send
  <2>3. UNCHANGED <<variant, document, node, lookup>>  BY <1>3 DEF Send
  <2> QED BY <2>1, <2>2, <2>3 DEF RequestAsWritten
<1>4. CASE UNCHANGED vars  BY <1>4 DEF vars, RequestAsWritten
<1>5. ASSUME \/ Expand \/ Merging \/ Open \/ KeysAccepted \/ ClauseAccepted
             \/ OptionAccepted \/ Refused \/ Merged \/ Opened
             \/ Search \/ DeadlinePassed \/ Fails \/ Answered \/ Undecodable
      PROVE  UNCHANGED <<variant, document, node, lookup>>
  BY <1>5 DEF Expand, Merging, Open, Parse, Refused, KeysRefused, ClauseRefused,
     OptionRefused, ArgumentsRefused, NotMerged, NotOpened, Refuse, KeysAccepted,
     ClauseAccepted, OptionAccepted, Merged, Opened, Search, DeadlinePassed, Fails,
     Answered, Undecodable, Ends
<1>6. ASSUME \/ Expand \/ Merging \/ Open \/ KeysAccepted \/ ClauseAccepted
             \/ OptionAccepted \/ Refused \/ Merged \/ Opened
             \/ Search \/ DeadlinePassed \/ Fails \/ Answered \/ Undecodable
      PROVE  pc' # "request"
  BY <1>6 DEF Expand, Merging, Open, Parse, Refused, KeysRefused, ClauseRefused,
     OptionRefused, ArgumentsRefused, NotMerged, NotOpened, Refuse, Return, KeysAccepted,
     ClauseAccepted, OptionAccepted, Visiting, Merged, Opened, Search, DeadlinePassed, Fails,
     Answered, Undecodable, Ends
<1> QED BY <1>1, <1>2, <1>3, <1>4, <1>5, <1>6, NextCases
           DEF Refused, NotSent, RequestFails

(* What the two properties of a request under way say is decided when it   *)
(* is sent.                                                                *)
LEMMA OnlySendRequests ==
  ASSUME [Next]_vars, pc' = "request"
  PROVE  Send \/ UNCHANGED vars
<1> USE DEF Return
<1>1. ASSUME \/ Expand \/ Merging \/ Open \/ KeysAccepted \/ ClauseAccepted
             \/ OptionAccepted \/ Refused \/ Expanded \/ Merged \/ Opened
             \/ Search \/ DeadlinePassed \/ Fails \/ Answered \/ Undecodable
      PROVE  FALSE
  BY <1>1 DEF Expand, Merging, Open, Parse, Refused, KeysRefused, ClauseRefused,
     OptionRefused, ArgumentsRefused, NotMerged, NotOpened, Refuse, KeysAccepted,
     ClauseAccepted, OptionAccepted, Visiting, Expanded, Merged, Opened, Search,
     DeadlinePassed, Fails, Answered, Undecodable, Ends
<1> QED BY <1>1, NextCases DEF Refused, NotSent, RequestFails

LEMMA SignedStep == ASSUME IInv, [Next]_vars PROVE SignedWhereAsked'
<1> SUFFICES ASSUME pc' = "request" PROVE SignedWhereAsked'  BY DEF SignedWhereAsked
<1>1. CASE Send
  <2>1. /\ request'.auth = load(environment) /\ request'.endpoint = endpoints[at]
        /\ environment' = environment /\ Sendable(environment, endpoints[at])
    BY <1>1 DEF Send, process
  <2>2. load(environment) \in {"signed", "unsigned"}  BY <2>1 DEF Sendable
  <2>3. load(environment) = "signed" <=> RegionRead(environment)  BY <2>2 DEF load
  <2>4. load(environment) = "signed" =>
          Credentials(environment) /\ Signable(environment, endpoints[at])
    BY <2>1 DEF load, Sendable
  <2> QED BY <2>1, <2>3, <2>4 DEF SignedWhereAsked, RegionRead, Credentials, Signable
<1>2. CASE UNCHANGED vars
  <2>1. UNCHANGED <<pc, request, environment>>  BY <1>2 DEF vars, attempt, process
  <2> QED BY <2>1 DEF SignedWhereAsked, RegionRead, Credentials, IInv
<1> QED BY <1>1, <1>2, OnlySendRequests

LEMMA TimeoutStep == ASSUME IInv, [Next]_vars PROVE TimeoutsTrue'
<1> USE DEF config, process, parser, plan, state, attempt
<1> TypeOK /\ SearchInv /\ TimeoutsTrue  BY DEF IInv
<1>1. CASE Send
  <2>1. timing' \in InTime /\ outcome' = "none"  BY <1>1 DEF Send, SearchInv
  <2>2. request'.timeout = request_timeout(timing'.deadline, timing'.now)
    BY <1>1 DEF Send
  <2> QED BY <2>1, <2>2, TimeoutRight DEF TimeoutsTrue
<1>2. CASE UNCHANGED vars  BY <1>2 DEF vars, TimeoutsTrue
<1>3. CASE DeadlinePassed
  <2>1. timing'.deadline <= timing'.now  BY <1>3, PassedRight DEF DeadlinePassed
  <2>2. pc' = "idle"  BY <1>3 DEF DeadlinePassed, Return
  <2> QED BY <2>1, <2>2 DEF TimeoutsTrue
<1>4. ASSUME pc' # "request", outcome' # "deadline passed" PROVE TimeoutsTrue'
  BY <1>4 DEF TimeoutsTrue
<1>5. ASSUME UNCHANGED <<outcome, timing>>, pc' # "request" PROVE TimeoutsTrue'
  BY <1>5 DEF TimeoutsTrue
<1>6. ASSUME \/ Expand \/ Merging \/ Open \/ Refused \/ Expanded \/ Merged \/ Opened
             \/ Search \/ Answered \/ Undecodable
      PROVE  outcome' # "deadline passed"
  BY <1>6 DEF Expand, Merging, Open, Parse, Refused, KeysRefused, ClauseRefused,
     OptionRefused, ArgumentsRefused, NotMerged, NotOpened, Refuse, Return, Expanded, Merged,
     Opened, Search, Answered, Undecodable, Ends
<1>7. ASSUME NotSent \/ RequestFails PROVE outcome' # "deadline passed"
  <2>1. Fails /\ outcome = "none"  BY <1>7 DEF NotSent, RequestFails, SearchInv
  <2>2. CASE at < Len(endpoints)  BY <2>1, <2>2 DEF Fails
  <2>3. CASE ~(at < Len(endpoints))  BY <2>1, <2>3 DEF Fails, Return
  <2> QED BY <2>2, <2>3
<1>8. ASSUME KeysAccepted \/ ClauseAccepted \/ OptionAccepted
      PROVE  UNCHANGED <<outcome, timing>>
  BY <1>8 DEF KeysAccepted, ClauseAccepted, OptionAccepted
<1> QED BY <1>1, <1>2, <1>3, <1>4, <1>5, <1>6, <1>7, <1>8, NextCases, OnlySendRequests
           DEF Refused

-----------------------------------------------------------------------------
(* All of it is an invariant.                                              *)
THEOREM Inductive == Spec => []IInv
<1>1. IInv /\ [Next]_vars => IInv'
  BY TypeStep, ParserStep, PlanStep, SearchStep, VerdictStep, AsWrittenStep, SignedStep,
     TimeoutStep DEF IInv
<1> QED BY <1>1, InitStep, PTL DEF Spec

(* The variables have their types; the parser never counts beyond the      *)
(* bound on clauses and never looks beyond the filter.                     *)
THEOREM TypeCorrect == Spec => []TypeOK
<1>1. IInv => TypeOK  BY DEF IInv
<1> QED BY <1>1, Inductive, PTL

(* The parser's verdict, reached entry by entry, is the one on the whole   *)
(* document, and what was planned is never refused later.                  *)
THEOREM Verdicts == Spec => []VerdictRight
<1>1. IInv => VerdictRight  BY DEF IInv
<1> QED BY <1>1, Inductive, PTL

(* Every request asks for what the user wrote.                             *)
THEOREM AsWritten == Spec => []RequestAsWritten
<1>1. IInv => RequestAsWritten  BY DEF IInv
<1> QED BY <1>1, Inductive, PTL

(* Requests are signed exactly where a region can be read.                 *)
THEOREM Signed == Spec => []SignedWhereAsked
<1>1. IInv => SignedWhereAsked  BY DEF IInv
<1> QED BY <1>1, Inductive, PTL

(* Timeouts are positive, bounded, and exact, for every width of integers. *)
THEOREM Timeouts == Spec => []TimeoutsTrue
<1>1. IInv => TimeoutsTrue  BY DEF IInv
<1> QED BY <1>1, Inductive, PTL
-----------------------------------------------------------------------------
(* The router's lookup.  It adds to the searches and takes nothing back: a *)
(* step with answers, rows and lookups (RouterVectorSearch::next) is one   *)
(* of SearchRequest, or leaves all that SearchRequest knows of alone.      *)
THEOREM RouterSearches == RouterSpec => Spec
<1>1. RouterInit => Init  BY DEF RouterInit
<1>2. [RouterNext]_<<vars, lookups>> => [Next]_vars
  BY DEF RouterNext, Load, Abandon, HandOut, Eof, Next
<1> QED BY <1>1, <1>2, PTL DEF RouterSpec, Spec

(* A value read along a path, one component after the other, with another  *)
(* value in place of one that is not there: a function, by induction over  *)
(* the length of the path.                                                 *)
ReadOn(value, name, other) == IF value.type = "object" THEN getField(value, name) ELSE other

Reads(f, d, path, other, m) ==
    f = [n \in 0..m |-> IF n = 0 THEN d ELSE ReadOn(f[n - 1], path[n], other)]

LEMMA ReadExists ==
  ASSUME NEW d, NEW path, NEW other
  PROVE  \A m \in Nat : \E f : Reads(f, d, path, other, m)
<1> USE DEF Reads
<1> DEFINE Is(f, m) == Reads(f, d, path, other, m)
           T == {m \in Nat : \E f : Is(f, m)}
<1>1. 0 \in T
  <2> DEFINE f == [n \in 0..0 |-> d]
  <2>1. \A n \in 0..0 : n = 0  OBVIOUS
  <2>2. Is(f, 0)  BY <2>1
  <2> QED BY <2>2
<1>2. ASSUME NEW m \in Nat, m \in T  PROVE m + 1 \in T
  <2>1. PICK f : Is(f, m)  BY <1>2
  <2> DEFINE last == ReadOn(f[m], path[m + 1], other)
             g == [n \in 0..(m + 1) |-> IF n <= m THEN f[n] ELSE last]
             Value(n) == IF n = 0 THEN d ELSE ReadOn(g[n - 1], path[n], other)
  <2>2. \A n \in 0..m : f[n] = IF n = 0 THEN d ELSE ReadOn(f[n - 1], path[n], other)
    BY <2>1, Zenon
  <2> HIDE DEF last
  <2>3. \A n \in 0..(m + 1) : (n <= m => n \in 0..m) /\ (~(n <= m) => n = m + 1)  OBVIOUS
  <2>4. g[m + 1] = last /\ \A n \in 0..m : g[n] = f[n]  OBVIOUS
  <2>5. g = [n \in 0..(m + 1) |-> g[n]]  OBVIOUS
  <2> HIDE DEF g
  <2>6. ASSUME NEW n \in 0..(m + 1)  PROVE g[n] = Value(n)
    <3>1. CASE n \in 0..m
      <4>1. n # 0 => n - 1 \in 0..m  BY <3>1
      <4>2. g[n] = f[n] /\ (n # 0 => g[n - 1] = f[n - 1])  BY <2>4, <3>1, <4>1
      <4> QED BY <2>2, <3>1, <4>2, Zenon
    <3>2. CASE n = m + 1
      <4>1. n # 0 /\ n - 1 = m /\ m \in 0..m  BY <3>2
      <4>2. g[n - 1] = f[m]  BY <2>4, <4>1
      <4>3. g[n] = last  BY <2>4, <3>2
      <4> QED BY <3>2, <4>1, <4>2, <4>3 DEF last
    <3> QED BY <2>3, <3>1, <3>2
  <2> HIDE DEF Value
  <2>7. g = [n \in 0..(m + 1) |-> Value(n)]  BY <2>5, <2>6, Zenon
  <2>8. Is(g, m + 1)  BY <2>7 DEF Value
  <2>9. m + 1 \in Nat  OBVIOUS
  <2> HIDE DEF Is
  <2> QED BY <2>8, <2>9, Zenon
<1> HIDE DEF T
<1>3. Nat \subseteq T  BY <1>1, <1>2, Induction
<1> QED BY <1>3, Zenon DEF T

LEMMA ReadIs ==
  ASSUME NEW d, NEW path \in Seq(STRING), NEW other
  PROVE  LET f == CHOOSE g : Reads(g, d, path, other, Len(path)) IN
         \A n \in 0..Len(path) : f[n] = IF n = 0 THEN d ELSE ReadOn(f[n - 1], path[n], other)
<1> DEFINE f == CHOOSE g : Reads(g, d, path, other, Len(path))
<1>1. Len(path) \in Nat  OBVIOUS
<1>2. \E g : Reads(g, d, path, other, Len(path))  BY <1>1, ReadExists, Zenon
<1>3. Reads(f, d, path, other, Len(path))  BY <1>2, Zenon
<1> HIDE DEF f
<1>4. \A n \in 0..Len(path) : f[n] = IF n = 0 THEN d ELSE ReadOn(f[n - 1], path[n], other)
  BY <1>3, Zenon DEF Reads
<1> QED BY <1>4 DEF f

(* What the lookup compares is what the connector has written down: both   *)
(* read the same, except that one goes on with null where the other finds  *)
(* nothing, and what is nothing is written down as null.                   *)
LEMMA ReadAlike ==
  ASSUME NEW d, NEW path \in Seq(STRING)
  PROVE  Normalized(d, path) = ifNull(Dotted(d, path))
<1> DEFINE N == Len(path)
           a == CHOOSE g : Reads(g, d, path, Missing, N)
           b == CHOOSE g : Reads(g, d, path, Null, N)
<1>1. N \in Nat  OBVIOUS
<1>2. Dotted(d, path) = a[N]  BY DEF Dotted, Reads, ReadOn
<1>3. Reduced(d, path) = b[N]  BY DEF Reduced, Reads, ReadOn
<1>4. \A n \in 0..N : a[n] = IF n = 0 THEN d ELSE ReadOn(a[n - 1], path[n], Missing)
  BY ReadIs
<1>5. \A n \in 0..N : b[n] = IF n = 0 THEN d ELSE ReadOn(b[n - 1], path[n], Null)
  BY ReadIs
<1> HIDE DEF a, b
<1> DEFINE Alike(n) == b[n] = a[n] \/ (b[n] = Null /\ a[n] = Missing)
           T == {n \in Nat : n \in 0..N => Alike(n)}
<1>6. 0 \in T  BY <1>1, <1>4, <1>5
<1>7. ASSUME NEW n \in Nat, n \in T  PROVE n + 1 \in T
  <2> SUFFICES ASSUME n + 1 \in 0..N  PROVE Alike(n + 1)  OBVIOUS
  <2>1. n \in 0..N /\ n + 1 # 0 /\ (n + 1) - 1 = n  BY <1>1
  <2>2. Alike(n)  BY <1>7, <2>1
  <2>3. /\ a[n + 1] = ReadOn(a[n], path[n + 1], Missing)
        /\ b[n + 1] = ReadOn(b[n], path[n + 1], Null)
    BY <1>4, <1>5, <2>1
  <2>4. Null.type # "object" /\ Missing.type # "object"  BY DEF Null, Missing
  <2>5. CASE b[n] = a[n]
    <3>1. CASE a[n].type = "object"  BY <2>3, <2>5, <3>1 DEF ReadOn
    <3>2. CASE a[n].type # "object"  BY <2>3, <2>5, <3>2 DEF ReadOn
    <3> QED BY <3>1, <3>2
  <2>6. CASE b[n] = Null /\ a[n] = Missing  BY <2>3, <2>4, <2>6 DEF ReadOn
  <2> QED BY <2>2, <2>5, <2>6
<1> HIDE DEF T
<1>8. N \in T /\ N \in 0..N  BY <1>1, <1>6, <1>7, Induction
<1>9. Alike(N)  BY <1>8 DEF T
<1> QED BY <1>2, <1>3, <1>9 DEF Normalized, ifNull

(* The lookup of a key finds the document that has it, and no other.       *)
LEMMA LookupFinds ==
  ASSUME NEW key, Indexed(key)
  PROVE  Lookup(key) = DocumentsOf(key)
<1>1. \A part \in key : part.path \in ShardKey \cup {Id} /\ part.path \in Seq(STRING)
  BY KeysAssumption DEF Indexed
<1>2. \A d : \A part \in key : Normalized(d, part.path) = ifNull(Dotted(d, part.path))
  BY <1>1, ReadAlike
<1>3. ASSUME NEW d \in Collection  PROVE KeyMatches(d, key) <=> DocumentKey(d) = key
  <2> DEFINE Written(p) == ifNull(Dotted(d, p))
  <2>1. KeyMatches(d, key) <=> \A part \in key : Written(part.path) = part.v
    BY <1>2 DEF KeyMatches
  <2>2. DocumentKey(d) = {[path |-> p, v |-> Written(p)] : p \in ShardKey \cup {Id}}
    BY DEF DocumentKey
  <2>3. /\ \A p \in ShardKey \cup {Id} : \E part \in key : part.path = p
        /\ \A part \in key : part = [path |-> part.path, v |-> part.v]
    BY DEF Indexed
  <2> HIDE DEF Written
  <2>4. ASSUME \A part \in key : Written(part.path) = part.v  PROVE DocumentKey(d) = key
    <3>1. ASSUME NEW part \in key  PROVE part \in DocumentKey(d)
      <4>1. part = [path |-> part.path, v |-> Written(part.path)]  BY <2>3, <2>4
      <4> QED BY <1>1, <2>2, <4>1
    <3>2. ASSUME NEW p \in ShardKey \cup {Id}  PROVE [path |-> p, v |-> Written(p)] \in key
      <4>1. PICK part \in key : part.path = p  BY <2>3
      <4>2. part = [path |-> part.path, v |-> part.v] /\ part.v = Written(p)  BY <2>3, <2>4, <4>1
      <4> QED BY <4>1, <4>2
    <3> QED BY <2>2, <3>1, <3>2
  <2>5. ASSUME DocumentKey(d) = key, NEW part \in key  PROVE Written(part.path) = part.v
    <3>1. PICK p \in ShardKey \cup {Id} : part = [path |-> p, v |-> Written(p)]  BY <2>2, <2>5
    <3> QED BY <3>1
  <2> QED BY <2>1, <2>4, <2>5
<1>4. ASSUME NEW d \in Collection, KeyMatches(d, key)  PROVE getField(d, "_id") = IdOf(key)
  <2> DEFINE whole == CHOOSE part \in key : part.path = Id
  <2>1. \E part \in key : part.path = Id  BY DEF Indexed
  <2>2. whole \in key /\ whole.path = Id  BY <2>1
  <2>3. Normalized(d, Id) = IdOf(key)  BY <1>4, <2>2 DEF KeyMatches, IdOf
  <2>4. Normalized(d, Id) = ifNull(Dotted(d, Id))  BY <1>2, <2>2
  <2>5. Dotted(d, Id) = getField(d, "_id")
    <3> DEFINE a == CHOOSE g : Reads(g, d, Id, Missing, Len(Id))
    <3>1. Dotted(d, Id) = a[Len(Id)]  BY DEF Dotted, Reads, ReadOn
    <3>a. Id \in Seq(STRING)  BY KeysAssumption
    <3>2. Len(Id) = 1 /\ Id[1] = "_id"  BY DEF Id
    <3>3. \A n \in 0..Len(Id) : a[n] = IF n = 0 THEN d ELSE ReadOn(a[n - 1], Id[n], Missing)
      BY <3>a, ReadIs
    <3> HIDE DEF a
    <3>4. a[0] = d /\ a[1] = ReadOn(a[0], Id[1], Missing)  BY <3>2, <3>3
    <3>5. d.type = "object"  BY KeysAssumption
    <3> QED BY <3>1, <3>2, <3>4, <3>5 DEF ReadOn
  <2>6. getField(d, "_id") # Missing  BY KeysAssumption
  <2> QED BY <2>3, <2>4, <2>5, <2>6 DEF ifNull
<1> QED BY <1>3, <1>4 DEF Lookup, DocumentsOf
-----------------------------------------------------------------------------
(* A set of at most one element is one sequence only.                      *)
LEMMA OneSequence ==
  ASSUME NEW S, \A d, e \in S : d = e
  PROVE  SetToSeq(S) \in Seq(S) /\ \A s \in SetToSeqs(S) : s = SetToSeq(S)
<1> DEFINE N == Cardinality(S)
<1>1. N \in {0, 1} /\ \E f \in [1..N -> S] : IsInjective(f)
  <2>1. CASE S = {}
    <3>1. N = 0  BY <2>1, FS_EmptySet
    <3> DEFINE f == [i \in 1..0 |-> S]
    <3>2. f \in [1..0 -> S] /\ IsInjective(f)  BY DEF IsInjective
    <3> QED BY <3>1, <3>2
  <2>2. CASE S # {}
    <3>1. PICK d : S = {d}  BY <2>2
    <3>2. N = 1  BY <3>1, FS_Singleton
    <3> DEFINE f == [i \in 1..1 |-> d]
    <3>3. \A i \in 1..1 : i = 1  OBVIOUS
    <3>4. f \in [1..1 -> S] /\ IsInjective(f)  BY <3>1, <3>3 DEF IsInjective
    <3> QED BY <3>2, <3>4
  <2> QED BY <2>1, <2>2
<1> HIDE DEF N
<1>2. SetToSeq(S) \in [1..N -> S]  BY <1>1 DEF SetToSeq, N
<1>3. ASSUME NEW s \in SetToSeqs(S)  PROVE s = SetToSeq(S)
  <2> DEFINE q == SetToSeq(S)
  <2>1. s \in [1..N -> S] /\ q \in [1..N -> S]  BY <1>2 DEF SetToSeqs, N
  <2> HIDE DEF q
  <2>2. \A i \in 1..N : s[i] = q[i]  BY <2>1
  <2>3. s = [i \in 1..N |-> s[i]] /\ q = [i \in 1..N |-> q[i]]  BY <2>1
  <2>4. s = q  BY <2>2, <2>3, Zenon
  <2> QED BY <2>4 DEF q
<1> QED BY <1>1, <1>2, <1>3

(* Flattening one sequence more.                                           *)
Flattens(f, s, m) == f = [i \in 1..m |-> IF i = 1 THEN s[i] ELSE f[i - 1] \o s[i]]

LEMMA FlattenExists ==
  ASSUME NEW s
  PROVE  \A m \in Nat : m # 0 => \E f : Flattens(f, s, m)
<1> USE DEF Flattens
<1> DEFINE Is(f, m) == Flattens(f, s, m)
           T == {m \in Nat : \E f : Is(f, m + 1)}
<1>1. 0 \in T
  <2> DEFINE f == [i \in 1..1 |-> s[i]]
  <2>1. \A i \in 1..1 : i = 1  OBVIOUS
  <2>2. Is(f, 1)  BY <2>1
  <2>3. 0 + 1 = 1  OBVIOUS
  <2> QED BY <2>2, <2>3
<1>2. ASSUME NEW m \in Nat, m \in T  PROVE m + 1 \in T
  <2> DEFINE k == m + 1
  <2>1. k \in Nat \ {0} /\ m + 1 \in Nat  OBVIOUS
  <2>2. PICK f : Is(f, k)  BY <1>2
  <2> HIDE DEF k
  <2> DEFINE last == f[k] \o s[k + 1]
             g == [i \in 1..(k + 1) |-> IF i <= k THEN f[i] ELSE last]
             Value(i) == IF i = 1 THEN s[i] ELSE g[i - 1] \o s[i]
  <2>3. \A i \in 1..k : f[i] = IF i = 1 THEN s[i] ELSE f[i - 1] \o s[i]
    BY <2>2, Zenon
  <2> HIDE DEF last
  <2>4. \A i \in 1..(k + 1) : (i <= k => i \in 1..k) /\ (~(i <= k) => i = k + 1)  BY <2>1
  <2>5. g[k + 1] = last /\ \A i \in 1..k : g[i] = f[i]  BY <2>1
  <2>6. g = [i \in 1..(k + 1) |-> g[i]]  OBVIOUS
  <2> HIDE DEF g
  <2>7. ASSUME NEW i \in 1..(k + 1)  PROVE g[i] = Value(i)
    <3>1. CASE i \in 1..k
      <4>1. i # 1 => i - 1 \in 1..k  BY <2>1, <3>1
      <4>2. g[i] = f[i] /\ (i # 1 => g[i - 1] = f[i - 1])  BY <2>5, <3>1, <4>1
      <4> QED BY <2>3, <3>1, <4>2, Zenon
    <3>2. CASE i = k + 1
      <4>1. i # 1 /\ i - 1 = k /\ k \in 1..k  BY <2>1, <3>2
      <4>2. g[i - 1] = f[k]  BY <2>5, <4>1
      <4>3. g[i] = last  BY <2>5, <3>2
      <4> QED BY <3>2, <4>1, <4>2, <4>3 DEF last
    <3> QED BY <2>4, <3>1, <3>2
  <2> HIDE DEF Value
  <2>8. g = [i \in 1..(k + 1) |-> Value(i)]  BY <2>6, <2>7, Zenon
  <2>9. Is(g, k + 1)  BY <2>8 DEF Value
  <2> HIDE DEF Is
  <2>10. Is(g, (m + 1) + 1)  BY <2>9 DEF k
  <2> QED BY <2>1, <2>10, Zenon
<1> HIDE DEF T
<1>3. Nat \subseteq T  BY <1>1, <1>2, Induction
<1>4. ASSUME NEW m \in Nat, m # 0  PROVE \E f : Flattens(f, s, m)
  <2>1. m - 1 \in Nat /\ (m - 1) + 1 = m  BY <1>4
  <2>2. m - 1 \in T  BY <1>3, <2>1
  <2>3. \E f : Is(f, (m - 1) + 1)  BY <2>2, Zenon DEF T
  <2> QED BY <2>1, <2>3, Zenon
<1> QED BY <1>4

LEMMA FlattenMore ==
  ASSUME NEW V, NEW s \in Seq(Seq(V)), NEW x \in Seq(V)
  PROVE  FlattenSeq(Append(s, x)) = FlattenSeq(s) \o x
<1> DEFINE N == Len(s)
           t == Append(s, x)
           a == CHOOSE f : Flattens(f, s, N)
           b == CHOOSE f : Flattens(f, t, N + 1)
<1>1. N \in Nat /\ N + 1 \in Nat /\ N + 1 # 0  OBVIOUS
<1>2. Len(t) = N + 1 /\ t[N + 1] = x /\ \A i \in 1..N : t[i] = s[i]  OBVIOUS
<1> HIDE DEF t
<1>3. \A i \in 1..(N + 1) : b[i] = IF i = 1 THEN t[i] ELSE b[i - 1] \o t[i]
  <2>1. Flattens(b, t, N + 1)  BY <1>1, FlattenExists, Zenon
  <2> HIDE DEF b
  <2> QED BY <2>1, Zenon DEF Flattens
<1>4. FlattenSeq(t) = b[N + 1]  BY <1>1, <1>2 DEF FlattenSeq, Flattens
<1>5. CASE N = 0
  <2>1. s = << >> /\ FlattenSeq(s) = << >>  BY <1>5 DEF FlattenSeq
  <2>2. 1 \in 1..(N + 1) /\ N + 1 = 1  BY <1>5
  <2>3. b[1] = x  BY <1>2, <1>3, <2>2
  <2>4. << >> \o x = x  OBVIOUS
  <2> QED BY <1>4, <2>1, <2>2, <2>3, <2>4 DEF t
<1>6. CASE N # 0
  <2>1. \A i \in 1..N : a[i] = IF i = 1 THEN s[i] ELSE a[i - 1] \o s[i]
    <3>1. Flattens(a, s, N)  BY <1>1, <1>6, FlattenExists, Zenon
    <3> HIDE DEF a
    <3> QED BY <3>1, Zenon DEF Flattens
  <2>2. FlattenSeq(s) = a[N]  BY <1>6 DEF FlattenSeq, Flattens
  <2> HIDE DEF a, b
  <2> DEFINE T == {n \in Nat : n + 1 \in 1..N => b[n + 1] = a[n + 1]}
  <2>3. 0 \in T
    <3>1. 1 \in 1..N /\ 1 \in 1..(N + 1)  BY <1>1, <1>6
    <3>2. b[1] = t[1] /\ a[1] = s[1]  BY <1>3, <2>1, <3>1
    <3>3. b[1] = a[1] /\ 0 + 1 = 1  BY <1>2, <3>1, <3>2
    <3> QED BY <3>3
  <2>4. ASSUME NEW n \in Nat, n \in T  PROVE n + 1 \in T
    <3> DEFINE i == (n + 1) + 1
    <3> SUFFICES ASSUME i \in 1..N  PROVE b[i] = a[i]  OBVIOUS
    <3>1. i \in 1..(N + 1) /\ i # 1 /\ i - 1 = n + 1 /\ n + 1 \in 1..N  BY <1>1
    <3>2. b[n + 1] = a[n + 1]  BY <2>4, <3>1
    <3>3. b[i] = b[n + 1] \o t[i] /\ a[i] = a[n + 1] \o s[i]  BY <1>3, <2>1, <3>1
    <3>4. t[i] = s[i]  BY <1>2
    <3> QED BY <3>2, <3>3, <3>4
  <2> HIDE DEF T
  <2>5. N - 1 \in Nat /\ (N - 1) + 1 = N /\ N \in 1..N  BY <1>1, <1>6
  <2>6. N - 1 \in T  BY <2>3, <2>4, <2>5, Induction
  <2>7. b[N] = a[N]  BY <2>5, <2>6 DEF T
  <2>8. N + 1 \in 1..(N + 1) /\ N + 1 # 1 /\ (N + 1) - 1 = N  BY <1>1, <1>6
  <2>9. b[N + 1] = b[N] \o x  BY <1>2, <1>3, <2>8
  <2> QED BY <1>4, <2>2, <2>7, <2>9 DEF t
<1> QED BY <1>5, <1>6
(* The order of the rows: what has not been handed out is the end of the   *)
(* answer; and nothing is asked when there is an answer.                   *)
HitsInv ==
    /\ answer \in Seq(Range(answer)) /\ rows \in Seq(Range(answer))
    /\ variant = "mongos" => \A n \in 1..Len(answer) : Indexed(answer[n].key)
    /\ IF variant = "mongos"
       THEN /\ Len(rows) <= Len(answer)
            /\ \A n \in 1..Len(rows) : rows[n] = answer[Len(answer) - Len(rows) + n]
       ELSE rows = << >>
    /\ loaded => pc \notin {"attempt", "request"}
    /\ ~loaded => answer = << >> /\ rows = << >> /\ found = << >>

LEMMA SameVariant ==
  ASSUME [Next]_vars
  PROVE  variant' = variant
  BY NextCases
  DEF config, vars, Expand, Merging, Open, Parse, KeysAccepted, KeysRefused, ClauseAccepted,
      ClauseRefused, OptionAccepted, OptionRefused, ArgumentsRefused, Refuse, Expanded, Merged,
      NotMerged, Opened, NotOpened, Search, DeadlinePassed, Send, NotSent, RequestFails, Fails,
      Answered, Undecodable, Ends

(* Nothing is handed out: the candidates are the same.                     *)
LEMMA NothingFound ==
  ASSUME variant = "mongos" => Len(answer) = Len(rows) /\ Len(rows) \in Nat,
         found = << >>
  PROVE  KeysFindDocuments
<1>1. HandedOut = 0  BY DEF HandedOut
<1> DEFINE s == [n \in 1..0 |-> SetToSeq(DocumentsOf(answer[n].key))]
<1>2. s = << >>  OBVIOUS
<1>3. FlattenSeq(<< >>) = << >>  BY DEF FlattenSeq
<1> HIDE DEF s
<1>4. FlattenSeq(s) = << >>  BY <1>2, <1>3
<1> QED BY <1>1, <1>4 DEF KeysFindDocuments, s

(* A row that is handed out is the next of the answer, and its document,   *)
(* if there is one, the next that is found.                                *)
LEMMA RowFound ==
  ASSUME HitsInv, KeysFindDocuments, HandOut
  PROVE  HitsInv' /\ KeysFindDocuments'
<1> DEFINE k == Len(answer) - Len(rows)
           Candidate(n) == SetToSeq(DocumentsOf(answer[n].key))
<1>1. /\ pc = "idle" /\ loaded /\ rows # << >> /\ rows' = Tail(rows)
      /\ UNCHANGED <<pc, variant, answer, loaded>>
  BY DEF HandOut, vars, config
<1>2. PICK s \in SetToSeqs(Lookup(Head(rows).key)) : found' = found \o s  BY DEF HandOut
<1>3. variant = "mongos"  BY <1>1 DEF HitsInv
<1>4. /\ answer \in Seq(Range(answer)) /\ rows \in Seq(Range(answer))
      /\ Len(answer) \in Nat /\ Len(rows) \in Nat /\ Len(rows) <= Len(answer)
      /\ \A n \in 1..Len(rows) : rows[n] = answer[k + n]
      /\ \A n \in 1..Len(answer) : Indexed(answer[n].key)
  <2>1. answer \in Seq(Range(answer)) /\ rows \in Seq(Range(answer))  BY DEF HitsInv
  <2> QED BY <1>3, <2>1 DEF HitsInv
<1>5. /\ Len(rows) > 0 /\ rows' \in Seq(Range(answer)) /\ Len(rows') = Len(rows) - 1
      /\ Head(rows) = rows[1] /\ \A n \in 1..Len(rows') : rows'[n] = rows[n + 1]
  BY <1>1, <1>4
<1>6. k \in Nat /\ k + 1 \in 1..Len(answer) /\ Head(rows) = answer[k + 1]
  BY <1>4, <1>5
<1>7. HitsInv'
  <2>1. \A n \in 1..Len(rows') : rows'[n] = answer[Len(answer) - Len(rows') + n]
    <3> SUFFICES ASSUME NEW n \in 1..Len(rows')
                 PROVE  rows'[n] = answer[Len(answer) - Len(rows') + n]
      OBVIOUS
    <3>1. n + 1 \in 1..Len(rows) /\ Len(answer) - Len(rows') + n = k + (n + 1)
      <4> DEFINE l == Len(answer)
                 r == Len(rows)
                 m == Len(rows')
      <4>1. l \in Nat /\ r \in Nat /\ r > 0 /\ m = r - 1 /\ n \in 1..m  BY <1>4, <1>5
      <4> HIDE DEF l, r, m
      <4>2. n + 1 \in 1..r /\ l - m + n = l - r + (n + 1)  BY <4>1
      <4> QED BY <4>2 DEF l, r, m
    <3> QED BY <1>4, <1>5, <3>1
  <2>2. Len(rows') <= Len(answer)  BY <1>4, <1>5
  <2> QED BY <1>1, <1>3, <1>4, <1>5, <2>1, <2>2 DEF HitsInv
<1>8. HandedOut = k /\ HandedOut' = k + 1
  BY <1>1, <1>3, <1>4, <1>5 DEF HandedOut
<1>9. \A n \in 1..Len(answer) :
        Candidate(n) \in Seq(Collection)
        /\ \A q \in SetToSeqs(DocumentsOf(answer[n].key)) : q = Candidate(n)
  <2> SUFFICES ASSUME NEW n \in 1..Len(answer)
               PROVE  Candidate(n) \in Seq(Collection)
                      /\ \A q \in SetToSeqs(DocumentsOf(answer[n].key)) : q = Candidate(n)
    OBVIOUS
  <2> DEFINE S == DocumentsOf(answer[n].key)
  <2>1. S \subseteq Collection /\ \A d, e \in S : d = e  BY KeysAssumption DEF DocumentsOf
  <2> HIDE DEF S
  <2>2. SetToSeq(S) \in Seq(S) /\ \A q \in SetToSeqs(S) : q = SetToSeq(S)  BY <2>1, OneSequence
  <2>3. SetToSeq(S) \in Seq(Collection)
    <3> DEFINE q == SetToSeq(S)
    <3>1. q \in Seq(S)  BY <2>2
    <3> HIDE DEF q
    <3>2. q \in Seq(Collection)  BY <2>1, <3>1
    <3> QED BY <3>2 DEF q
  <2> QED BY <2>2, <2>3 DEF S
<1>10. s = Candidate(k + 1)
  <2>1. Lookup(Head(rows).key) = DocumentsOf(answer[k + 1].key)  BY <1>4, <1>6, LookupFinds
  <2> QED BY <1>2, <1>6, <1>9, <2>1
<1>11. KeysFindDocuments'
  <2> DEFINE t == [n \in 1..k |-> Candidate(n)]
             u == [n \in 1..(k + 1) |-> Candidate(n)]
             x == Candidate(k + 1)
  <2>1. \A n \in 1..(k + 1) : Candidate(n) \in Seq(Collection)  BY <1>4, <1>6, <1>9
  <2>2. found = FlattenSeq(t)  BY <1>8 DEF KeysFindDocuments
  <2> HIDE DEF Candidate
  <2>4. t \in Seq(Seq(Collection)) /\ x \in Seq(Collection)  BY <1>6, <2>1
  <2>5. u = Append(t, x)
    <3>1. Len(t) = k  BY <1>6, <2>4
    <3>2. u \in Seq(Seq(Collection)) /\ Len(u) = k + 1  BY <1>6, <2>1
    <3> QED BY <1>6, <2>4, <3>1, <3>2
  <2>6. FlattenSeq(u) = FlattenSeq(t) \o x
    <3> HIDE DEF t, u, x
    <3> QED BY <2>4, <2>5, FlattenMore
  <2>7. found' = FlattenSeq(u)  BY <1>2, <1>10, <2>2, <2>6
  <2> QED BY <1>1, <1>8, <2>7 DEF KeysFindDocuments, Candidate
<1> QED BY <1>7, <1>11

LEMMA RouterInitStep == RouterInit => HitsInv /\ KeysFindDocuments
<1> SUFFICES ASSUME RouterInit  PROVE HitsInv /\ KeysFindDocuments  OBVIOUS
<1>1. answer = << >> /\ rows = << >> /\ found = << >> /\ loaded = FALSE  BY DEF RouterInit
<1>2. Len(answer) = 0 /\ Len(rows) = 0  BY <1>1
<1>3. HitsInv  BY <1>1, <1>2 DEF HitsInv
<1> QED BY <1>1, <1>2, <1>3, NothingFound

LEMMA RouterStep ==
  ASSUME HitsInv, KeysFindDocuments, [RouterNext]_<<vars, lookups>>
  PROVE  HitsInv' /\ KeysFindDocuments'
<1>1. CASE Load
  <2>1. PICK a \in Answers :
          /\ Decodable(a) /\ answer' = a.hits
          /\ rows' = IF variant = "mongos" THEN a.hits ELSE << >>
    BY <1>1 DEF Load
  <2>2. /\ loaded' = TRUE /\ found' = found /\ pc = "request" /\ pc' = "idle"
        /\ variant' = variant
    BY <1>1 DEF Load, Answered, Ends, Return, config
  <2>3. found = << >>  BY <2>2 DEF HitsInv
  <2>4. /\ a.hits \in Seq(Range(a.hits))
        /\ \A n \in DOMAIN a.hits : DecodableHit(a.hits[n]) => Indexed(a.hits[n].key)
    BY AnswersAssumption
  <2>5. DOMAIN a.hits = 1..Len(a.hits) /\ Len(a.hits) \in Nat  BY <2>4
  <2>6. variant = "mongos" => \A n \in 1..Len(a.hits) : Indexed(a.hits[n].key)
    BY <2>1, <2>4, <2>5 DEF Decodable
  <2>7. HitsInv'
    <3> DEFINE h == a.hits
    <3>1. h \in Seq(Range(h)) /\ Len(h) \in Nat
          /\ (variant = "mongos" => \A n \in 1..Len(h) : Indexed(h[n].key))
      BY <2>4, <2>5, <2>6
    <3>2. answer' = h /\ rows' = IF variant = "mongos" THEN h ELSE << >>  BY <2>1
    <3> HIDE DEF h
    <3>3. CASE variant = "mongos"
      <4>1. rows' = h /\ \A n \in 1..Len(h) : Len(h) - Len(h) + n = n  BY <3>1, <3>2, <3>3
      <4> QED BY <2>2, <3>1, <3>2, <3>3, <4>1 DEF HitsInv
    <3>4. CASE variant # "mongos"
      <4>1. rows' = << >>  BY <3>2, <3>4
      <4> QED BY <2>2, <3>1, <3>2, <3>4, <4>1 DEF HitsInv
    <3> QED BY <3>3, <3>4
  <2>8. (variant = "mongos" => Len(answer) = Len(rows) /\ Len(rows) \in Nat)'
    BY <2>1, <2>2, <2>5
  <2>9. (found = << >>)'  BY <2>2, <2>3
  <2>10. KeysFindDocuments'
    <3>1. HandedOut' = 0  BY <2>8 DEF HandedOut
    <3> DEFINE s == [n \in 1..0 |-> SetToSeq(DocumentsOf(answer'[n].key))]
    <3>2. s = << >>  OBVIOUS
    <3>3. FlattenSeq(<< >>) = << >>  BY DEF FlattenSeq
    <3> HIDE DEF s
    <3>4. FlattenSeq(s) = << >>  BY <3>2, <3>3
    <3> QED BY <2>9, <3>1, <3>4 DEF KeysFindDocuments, DocumentsOf, s
  <2> QED BY <2>7, <2>10
<1>2. CASE HandOut  BY <1>2, RowFound
<1>3. ASSUME [Next]_vars, UNCHANGED lookups, loaded => pc' \notin {"attempt", "request"}
      PROVE  HitsInv' /\ KeysFindDocuments'
  <2>1. variant' = variant  BY <1>3, SameVariant
  <2>2. UNCHANGED <<answer, loaded, rows, found>>  BY <1>3 DEF lookups
  <2>3. HitsInv'  BY <1>3, <2>1, <2>2 DEF HitsInv
  <2>4. HandedOut' = HandedOut  BY <2>1, <2>2 DEF HandedOut
  <2>5. KeysFindDocuments'  BY <2>2, <2>4 DEF KeysFindDocuments, DocumentsOf
  <2> QED BY <2>3, <2>5
<1>4. CASE (Hooks \/ (~loaded /\ Search) \/ Asking \/ Abandon) /\ UNCHANGED lookups
  <2>1. [Next]_vars  BY <1>4 DEF Abandon, Next
  <2>2. loaded => pc' \notin {"attempt", "request"}
    <3> SUFFICES ASSUME loaded  PROVE pc' \notin {"attempt", "request"}  OBVIOUS
    <3>1. pc \notin {"attempt", "request"}  BY DEF HitsInv
    <3>2. CASE Hooks
      BY <3>2 DEF Hooks, parse_vector_search_args, Expand, Merging, Open, Parse, KeysAccepted,
         KeysRefused, ClauseAccepted, ClauseRefused, OptionAccepted, OptionRefused,
         ArgumentsRefused, Refuse, Expanded, Merged, NotMerged, Opened, NotOpened, Return,
         Visiting, Parsed, Visited
    <3>3. CASE Asking
      BY <3>1, <3>3 DEF Asking, DeadlinePassed, Send, NotSent, RequestFails
    <3>4. CASE Abandon  BY <3>1, <3>4 DEF Abandon, Undecodable, Ends
    <3> QED BY <1>4, <3>2, <3>3, <3>4
  <2> QED BY <1>3, <1>4, <2>1, <2>2
<1>5. CASE Eof \/ UNCHANGED <<vars, lookups>>
  <2>1. UNCHANGED vars /\ UNCHANGED lookups  BY <1>5 DEF Eof
  <2>2. loaded => pc' \notin {"attempt", "request"}  BY <2>1 DEF HitsInv, vars
  <2> QED BY <1>3, <2>1, <2>2
<1> QED BY <1>1, <1>2, <1>4, <1>5 DEF RouterNext

(* Candidates become documents: whatever the collection, its shard key and *)
(* the answers of the index, every hit that was handed out has become the  *)
(* one document with its key, if that is still there, in the order of the  *)
(* answer (decode_hit, lookup_pipeline and next of mongos.rs).             *)
THEOREM KeysFound == RouterSpec => []KeysFindDocuments
<1>1. RouterInit => HitsInv /\ KeysFindDocuments  BY RouterInitStep
<1>2. HitsInv /\ KeysFindDocuments /\ [RouterNext]_<<vars, lookups>>
        => HitsInv' /\ KeysFindDocuments'
  BY RouterStep
<1> QED BY <1>1, <1>2, PTL DEF RouterSpec
=============================================================================
