------------------------------ MODULE RouterLookup ------------------------------
(***************************************************************************)
(* What becomes of an answer on the router (mongos.rs): its hits are the   *)
(* keys of documents, as they were when OpenSearch indexed them; the       *)
(* stage hands the keys out and the pipeline on the merging node looks up  *)
(* the documents.                                                          *)
(*                                                                         *)
(*   answer   the hits that were accepted                                  *)
(*   loaded   there are rows                                               *)
(*   rows     hits that have not been handed out                           *)
(*   found    the documents that the pipeline has made of the others       *)
(***************************************************************************)
EXTENDS SearchRequest, SequencesExt

CONSTANTS
    Answers,    \* of OpenSearch
    Collection, \* the documents that there are
    ShardKey    \* the paths of the collection's shard key

VARIABLES answer, loaded, rows, found

lookups == <<answer, loaded, rows, found>>

-----------------------------------------------------------------------------
(* BSON values, as far as paths tell them apart.                           *)
Missing        == [type |-> "missing"]
Null           == [type |-> "null"]
Scalar(v)      == [type |-> "scalar", value |-> v]
Object(fields) == [type |-> "object", fields |-> fields]

getField(object, name) ==
    IF name \in DOMAIN object.fields THEN object.fields[name] ELSE Missing

ifNull(v) == IF v = Missing THEN Null ELSE v

Id == <<"_id">>

(* What OpenSearch was given as the key of a document (SYNC.md): the _id   *)
(* and the shard key, with null where a document has no such field.        *)
Dotted(d, path) ==
    LET value[n \in 0..Len(path)] ==
            IF n = 0 THEN d
            ELSE IF value[n - 1].type = "object" THEN getField(value[n - 1], path[n]) ELSE Missing
    IN value[Len(path)]

DocumentKey(d) == {[path |-> p, v |-> ifNull(Dotted(d, p))] : p \in ShardKey \cup {Id}}

(* Every document has an _id.  Documents with the same key would be on the *)
(* same shard, where their _id is unique.                                  *)
ASSUME KeysAssumption ==
    /\ ShardKey \cup {Id} \subseteq Seq(STRING)
    /\ \A d \in Collection : d.type = "object" /\ getField(d, "_id") # Missing
    /\ \A d, e \in Collection : DocumentKey(d) = DocumentKey(e) => d = e

(* A key in the index: one value for the _id, and one for every path of    *)
(* the shard key.                                                          *)
Indexed(key) ==
    /\ {part.path : part \in key} = ShardKey \cup {Id}
    /\ \A p, q \in key : p = [path |-> p.path, v |-> p.v] /\ (p.path = q.path => p = q)

-----------------------------------------------------------------------------
(* decode_hit: a string of JSON that is not too long, an object with an    *)
(* _id and no impossible path, and a finite score.                         *)
ValidPath(path) == Range(path) \cap {"", "$field", "nul"} = {}

DecodableHit(hit) ==
    /\ hit.id = "object"
    /\ \E part \in hit.key : part.path = Id
    /\ \A part \in hit.key : ValidPath(part.path)
    /\ hit.score = "finite"

(* The index holds what the connector has put there.                       *)
ASSUME AnswersAssumption ==
    \A a \in Answers :
        /\ a.hits \in Seq(Range(a.hits))
        /\ \A n \in DOMAIN a.hits : DecodableHit(a.hits[n]) => Indexed(a.hits[n].key)

(* decode_response and decode_candidates: the latter takes any string for  *)
(* an _id, any score, and an answer of some of the shards.                 *)
Decodable(a) ==
    /\ a.listed /\ Len(a.hits) <= args.limit
    /\ IF variant = "mongos"
       THEN a.complete /\ \A n \in DOMAIN a.hits : DecodableHit(a.hits[n])
       ELSE \A n \in DOMAIN a.hits : a.hits[n].id # "no string"

(* lookup_pipeline: the _id, and every part of the key, read one component *)
(* of its path after the other.  Fault: a missing value is left missing.   *)
Reduced(d, path) ==
    LET value[n \in 0..Len(path)] ==
            IF n = 0 THEN d
            ELSE IF value[n - 1].type = "object" THEN getField(value[n - 1], path[n]) ELSE Null
    IN value[Len(path)]

FaultMissing(d, path)   == Reduced(d, path)
Normalized(d, path)     == ifNull(Reduced(d, path))

KeyMatches(d, key) == \A part \in key : Normalized(d, part.path) = part.v

IdOf(key) == (CHOOSE part \in key : part.path = Id).v

Lookup(key) == {d \in Collection : getField(d, "_id") = IdOf(key) /\ KeyMatches(d, key)}

-----------------------------------------------------------------------------
RouterInit == Init /\ answer = << >> /\ loaded = FALSE /\ rows = << >> /\ found = << >>

(* Rows of the other variant go to the host's id lookup, not to this one.  *)
Load ==
    /\ Answered
    /\ \E a \in Answers :
         /\ Decodable(a)
         /\ answer' = a.hits
         /\ rows' = IF variant = "mongos" THEN a.hits ELSE << >>
    /\ loaded' = TRUE /\ UNCHANGED found

Abandon == Undecodable /\ \E a \in Answers : ~Decodable(a)

(* A row leaves the stage and passes the pipeline: $lookup, $unwind and    *)
(* $replaceWith.                                                           *)
HandOut ==
    /\ pc = "idle" /\ loaded /\ merger /\ rows # << >>
    /\ \E s \in SetToSeqs(Lookup(Head(rows).key)) : found' = found \o s
    /\ rows' = Tail(rows)
    /\ UNCHANGED <<vars, answer, loaded>>

Eof == pc = "idle" /\ loaded /\ rows = << >> /\ UNCHANGED <<vars, lookups>>

RouterNext ==
    \/ (Hooks \/ (~loaded /\ Search) \/ Asking \/ Abandon) /\ UNCHANGED lookups
    \/ Load \/ HandOut \/ Eof

RouterSpec == RouterInit /\ [][RouterNext]_<<vars, lookups>>

-----------------------------------------------------------------------------
(* Candidates become documents: for every hit that was handed out, in the  *)
(* order of the answer, the one document that has the key with which the   *)
(* hit was indexed, if it is still there: none for a document that is gone *)
(* or has moved to another key, and never another of the same _id.         *)
DocumentsOf(key) == {d \in Collection : DocumentKey(d) = key}

HandedOut == IF variant = "mongos" THEN Len(answer) - Len(rows) ELSE 0

KeysFindDocuments ==
    found = FlattenSeq([n \in 1..HandedOut |-> SetToSeq(DocumentsOf(answer[n].key))])
=============================================================================
