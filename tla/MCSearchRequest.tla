---------------------------- MODULE MCSearchRequest ----------------------------
(* SearchRequest on arguments that are right, or wrong in one respect, and *)
(* on filters around each of the bounds; with RouterLookup on a collection *)
(* where documents share an _id, and lack parts of the shard key.          *)
EXTENDS RouterLookup

Text(t)   == [type |-> "string", text |-> t, padded |-> FALSE]
Padded(t) == [Text(t) EXCEPT !.padded = TRUE]
NoText    == [type |-> "other", text |-> "", padded |-> FALSE]
Number(type, n) == [type |-> type, n |-> n]

NoFilter  == [type |-> "absent", entries |-> << >>]
Filter(s) == [type |-> "document", entries |-> s]

Clause(kind, depth, body) ==
    [kind |-> kind, depth |-> depth, field |-> "body", values |-> 1, body |-> body]
Term(depth)   == Clause("term", depth, "scalar")
Bool(depth)   == Clause("bool", depth, "occurs")
Option(depth, body) == Clause("option", depth, body)

(* One clause of each kind, right and wrong.                               *)
Single ==
    {Clause("term", 1, b) : b \in {"value of a scalar", "other"}}
        \cup {[Clause("terms", 1, "scalars") EXCEPT !.values = n] : n \in {1, 2}}
        \cup {Clause("range", 1, "bounds"), Clause("range", 1, "scalar")}
        \cup {[Clause("exists", 1, "name") EXCEPT !.field = f] : f \in {"body", "_hidden", ""}}
        \cup {[Clause("ids", 1, "strings") EXCEPT !.values = n] : n \in {0, 2}}
        \cup {Clause("script", 1, "other"), Clause("several", 1, "scalar")}

(* Clauses below each other, as deep and as many as the bounds have it and *)
(* one more; and options before, between and after them.                   *)
Nested ==
    {<<Bool(1), Term(2)>>, <<Bool(1), Bool(2), Term(3)>>, <<Bool(1), Bool(2)>>,
     <<Bool(1), Term(2), Term(2)>>, <<Bool(1), Term(2), Term(2), Term(2)>>,
     <<Bool(1), Option(2, "scalar"), Term(2)>>, <<Bool(1), Term(2), Option(2, "other")>>,
     <<Bool(1), Term(2), Option(2, "scalar"), Clause("script", 2, "other")>>}

MCFilters ==
    {NoFilter, [NoFilter EXCEPT !.type = "other"]}
        \cup {Filter(<<c>>) : c \in Single} \cup {Filter(s) : s \in Nested}

Base ==
    [others |-> FALSE, path |-> Padded("body"), query |-> Text("body"),
     limit |-> Number("int", 2), filter |-> Filter(<<Term(1)>>)]

MCDocuments ==
    {[Base EXCEPT !.filter = f] : f \in MCFilters}
        \cup {[Base EXCEPT !.path = s] :
                 s \in {NoText, Padded(""), Text("_hidden"), Text("user.name"), Text("body_embedding")}}
        \cup {[Base EXCEPT !.query = s] : s \in {NoText, Text("")}}
        \cup {[Base EXCEPT !.limit = v] :
                 v \in {Number("absent", 0), Number("int", 0), Number("int", 3), Number("int", 4),
                        Number("double", 1), Number("double", 3), Number("double", 7),
                        Number("double", 8), Number("double", -1),
                        Number("infinite", 0), Number("other", 0)}}
        \cup {[Base EXCEPT !.others = TRUE]}

MCOptionTexts ==
    [format : {"absent", "not text", "other"}, listed : {<< >>}]
        \cup [format : {"json", "yaml"},
              listed : {<< >>, <<"http", "https">>, <<"HTTPS", "blank">>, <<"ftp">>}]
        \cup [format : {"json"}, listed : {<<"not a string">>}]

MCEnvironments ==
    [region : {"absent", "bad"}, key : {"absent"}, secret : {"absent"}, http : {TRUE}]
        \cup [region : {"good"}, key : {"set"}, secret : {"set"}, http : BOOLEAN]
        \cup [region : {"good"}, key : {"set"}, secret : {"absent", "blank"}, http : {FALSE}]
        \cup [region : {"good"}, key : {"absent"}, secret : {"set"}, http : {FALSE}]
        \cup [region : {"not text"}, key : {"set"}, secret : {"set"}, http : {FALSE}]

(* Documents with one of two _ids, a tenant and a region in a location.   *)
Doc(id, tenant, location) ==
    Object([_id |-> Scalar(id)] @@ (IF tenant = Missing THEN << >> ELSE [tenant |-> tenant])
              @@ (IF location = Missing THEN << >> ELSE [location |-> location]))
In(region) == Object([region |-> region])

MCShardKey == {<<"tenant">>, <<"location", "region">>}

Full      == Doc("i", Scalar("t"), In(Scalar("r")))
Homeless  == Doc("i", Scalar("t"), Missing)
Tenantless == Doc("i", Missing, In(Null))
Elsewhere  == Doc("j", Scalar("t"), Scalar("r"))
Gone      == Doc("j", Null, In(Scalar("r")))
Now       == {Full, Homeless, Tenantless, Elsewhere}

HitOf(d) == [id |-> "object", key |-> DocumentKey(d), score |-> "finite"]
Answer(s) == [listed |-> TRUE, complete |-> TRUE, hits |-> s]

Bad == {[HitOf(Full) EXCEPT !.id = i] : i \in {"no string", "too long", "no JSON", "array"}}
           \cup {[HitOf(Full) EXCEPT !.score = "other"],
                 [HitOf(Full) EXCEPT !.key = {}],
                 [HitOf(Full) EXCEPT !.key = @ \cup {[path |-> <<"$field">>, v |-> Null]}]}

MCAnswers ==
    {Answer(s) : s \in {<< >>, <<HitOf(Full), HitOf(Homeless)>>, <<HitOf(Gone), HitOf(Tenantless)>>,
                        <<HitOf(Elsewhere), HitOf(Full), HitOf(Gone)>>}}
        \cup {Answer(<<HitOf(Full), h>>) : h \in Bad}
        \cup {[Answer(<< >>) EXCEPT !.listed = FALSE], [Answer(<< >>) EXCEPT !.complete = FALSE]}
=============================================================================
