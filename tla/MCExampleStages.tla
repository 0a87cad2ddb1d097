----------------------------- MODULE MCExampleStages -----------------------------
(* ExampleStages on a small instance: files of up to five bytes with every *)
(* kind of line in every place, Fibonacci rows in signed integers of *)
(* four bits, and a tree of files with links that stay inside or lead out, *)
(* to each other, to themselves or nowhere, one of them to the root itself.*)
EXTENDS ExampleStages

data  == <<"srv", "data">>
other == <<"srv", "other">>
here  == <<"srv", "here">>

MCDemoRoot  == data
MCDirs      == {<< >>, <<"srv">>, data, data \o <<"d">>, other}
MCNodes     == MCDirs \cup {data \o <<"f">>, data \o <<"d", "f">>, other \o <<"f">>}
MCLinks     ==
    (data \o <<"l">>) :> (data \o <<"d">>) @@ (data \o <<"e">>) :> other
    @@ (data \o <<"l2">>) :> (data \o <<"l">>) @@ (data \o <<"e2">>) :> (data \o <<"e">>)
    @@ (data \o <<"up">>) :> (data \o <<"d", "..", "f">>)
    @@ (data \o <<"out">>) :> (data \o <<"..", "other", "f">>)
    @@ (data \o <<"gone">>) :> (data \o <<"none">>)
    @@ (data \o <<"loop">>) :> (data \o <<"loop">>) @@ here :> data

Small == [format |-> "json", root |-> data, symlinks |-> FALSE, line |-> 2, document |-> Unset]
MCOptions ==
    {NoOptions, [NoOptions EXCEPT !.format = "unreadable"], Small,
     [Small EXCEPT !.root = <<"srv", "gone">>],
     [format |-> "yaml", root |-> data, symlinks |-> TRUE, line |-> Unset, document |-> 0]}

MCPaths == {<<"f">>, <<"d", "", "f">>, <<"l", "f">>, <<"e", "f">>, <<"..", "f">>, <<"", "f">>,
            <<"m">>, <<"d">>}

(* Links to links, with "..", to nothing and to themselves, and names "."; *)
(* under a root that is a link, that is written with ".", or is "/".       *)
LinkedRoots ==
    {[Small EXCEPT !.root = r, !.symlinks = s] : r \in {data, here \o <<".">>}, s \in BOOLEAN}
LinkedPaths ==
    {<<"l2", "f">>, <<"e2", "f">>, <<"up">>, <<"out">>, <<"gone">>, <<"loop">>,
     <<".", "d", ".", "", "f">>, <<"f", ".">>}

Letters == {"j", "s", "n"}
Texts == UNION {[1..n -> Letters] : n \in 0..4}
MCFiles == Texts \cup {<<"x", "n", "j">>, <<"g", "n", "j">>, <<"s", "j", "s", "n", "n", "j">>}


Request(o, p, l, f) == [options |-> o, path |-> p, limit |-> l, file |-> f]

MCInputs ==
    {Request(Small, <<"f">>, Unlimited, f) : f \in MCFiles}
        \cup {Request(Small, <<"f">>, 1, f) : f \in {<<"j", "n", "g", "n", "j">>}}
        \cup {Request(o, p, Unlimited, <<"j", "n", "j">>) : o \in MCOptions, p \in MCPaths}
        \cup {Request(o, p, Unlimited, <<"j">>) : o \in LinkedRoots, p \in LinkedPaths}
        \cup {Request([Small EXCEPT !.root = <<"">>], data \o <<"f">>, Unlimited, <<"j">>)}

MCCounts == {-1, 0, 3, 9}

Request1(r, d, f, p) ==
    [rows |-> r, delay |-> d, fail_at |-> f, panic_at |-> p, metadata |-> Flag(TRUE),
     unknown_key |-> FALSE]
Plain == Request1(Missing, Missing, Missing, Missing)
MCPerf ==
    {Request1(Number(2), Number(d), f, p) : d \in {0, 2},
        f \in {Missing, Number(1)}, p \in {Missing, Number(1)}}
    \cup {Plain, [Plain EXCEPT !.rows = Mistyped], [Plain EXCEPT !.delay = Number(3)],
          [Plain EXCEPT !.metadata = Missing], [Plain EXCEPT !.unknown_key = TRUE]}

Hit        == [type |-> "document", id |-> TRUE, score |-> "finite"]
Counted1   == [Hit EXCEPT !.score = "int"]
Candidates == {<< >>, <<Hit, Counted1>>, <<Hit, [Hit EXCEPT !.id = FALSE]>>,
               <<[Hit EXCEPT !.score = "other"]>>, <<[Hit EXCEPT !.type = "other"]>>}

Asked(c, k, con, array) ==
    [candidates |-> c, keys |-> k, catalog |-> con, array |-> array]

MCLookups ==
    {Asked(c, {"candidates"}, con, TRUE) : c \in Candidates,
        con \in {"absent", "shard", "router"}}
    \cup {Asked(<<Hit>>, {"candidates", "from"}, "router", TRUE), Asked(<< >>, {}, "router", FALSE),
          Asked(<< >>, {"candidates"}, "router", FALSE)}

MCDeltas == {7}
MCPatches == {Int32(1)}
=============================================================================
