------------------------------- MODULE LocalJsonl -------------------------------
(***************************************************************************)
(* The hooks of $readLocalJsonl (data-federation-extension): a file under  *)
(* the configured root, found from the stage's arguments and read line by  *)
(* line, a document per pull.  Files do not change while they are read.    *)
(*                                                                         *)
(*   options   the extension's: "none", "unreadable", or its lines         *)
(*   path      of the stage's arguments, split at its slashes              *)
(*   limit     maxDocuments, or Unlimited                                  *)
(*   file      the bytes of every file: "j" of a JSON object, "g" of text  *)
(*             that is none, "s" white space, "x" no UTF-8, "n" a newline  *)
(* A state of the stage holds the reader's position, line_buf,             *)
(* physical_line_no, the number of documents returned, and its config.     *)
(***************************************************************************)
EXTENDS StageContext, SequencesExt

CONSTANTS
    Inputs,         \* what the host configures, the user asks for, and a file holds
    DemoRoot,       \* a directory, as the sequence of its names from "/"
    Nodes,          \* files and directories of the host
    Directories,    \* those that are directories
    Links,          \* the symbolic links among its names, and their targets, from "/"
    MaxWalk,        \* bound: names gone over, links' targets too, to find a place
    DefaultLine, DefaultDocument    \* maxLineBytes and maxDocumentBytes

VARIABLES options, path, limit, file

input == <<options, path, limit, file>>

Unset     == -1
Unlimited == -1
Bytes     == {"j", "g", "s", "x", "n"}

(* An input: options as they were written, a path, a limit, and a file,    *)
(* whose lines can be counted.                                             *)
IsInput(given) ==
    /\ given.options.root \in Seq(STRING) /\ given.options.symlinks \in BOOLEAN
    /\ {given.options.line, given.options.document} \subseteq Int
    /\ given.path \in Seq(STRING)
    /\ given.limit \in Nat \cup {Unlimited}
    /\ given.file \in Seq(Bytes) /\ Len(given.file) <= MaxInt

ASSUME InputsAssumption == \A given \in Inputs : IsInput(given)

(* No place: a name holds no slash.                                        *)
Lost == <<"/">>

(* Places are written without links, and without what stands for no name.  *)
ASSUME TreeAssumption ==
    /\ Nodes \subseteq Seq(STRING) /\ Lost \notin Nodes
    /\ << >> \in Directories /\ Directories \subseteq Nodes
    /\ Nodes \cap DOMAIN Links = {}
    /\ \A p \in DOMAIN Links : Links[p] \in Seq(STRING)
    /\ \A p \in (Nodes \ {<< >>}) \cup DOMAIN Links : Last(p) \notin {"", ".", ".."}

ASSUME RootAssumption == DemoRoot \in Seq(STRING)

ASSUME WalkAssumption == MaxWalk \in Nat \ {0}

ASSUME SizesAssumption == {DefaultLine, DefaultDocument} \subseteq Nat \ {0}

-----------------------------------------------------------------------------
(* parse_extension_options: what is blank or missing has a default, and    *)
(* sizes are at least one; a number in YAML that cannot be read is missing,*)
(* one in JSON is refused.                                                 *)
Size(given, default) ==
    IF given = Unset THEN default ELSE IF given < 1 THEN 1 ELSE given

Config(o) ==
    [root |-> IF o.root \in {<< >>, <<"blank">>} THEN DemoRoot ELSE o.root,
     symlinks |-> o.symlinks,
     line |-> Size(o.line, DefaultLine),
     document |-> Size(o.document, DefaultDocument)]

NoOptions == [format |-> "none", root |-> << >>, symlinks |-> FALSE,
              line |-> Unset, document |-> Unset]

Configured == options.format \in {"none", "yaml", "json"}

-----------------------------------------------------------------------------
(* validate_stage_relative_path.                                           *)
Forbidden == {"..", "\\", "nul"}

RelativePath ==
    /\ path \notin {<< >>, <<"">>}
    /\ Head(path) # ""
    /\ Range(path) \cap Forbidden = {}

(* fs::canonicalize: the names that are left are gone over one by one, and *)
(* a link's target comes in its place, as often as there is a link.        *)
Moved(way) ==
    LET name == Head(way.rest)
        next == Append(way.at, name) IN
    IF way.rest = << >> \/ way.at \notin Directories THEN way
    ELSE CASE name \in {"", "."} -> [at |-> way.at, rest |-> Tail(way.rest)]
           [] name = ".." -> [at |-> Front(way.at), rest |-> Tail(way.rest)]
           [] next \in DOMAIN Links -> [at |-> << >>, rest |-> Links[next] \o Tail(way.rest)]
           [] OTHER -> [at |-> next, rest |-> Tail(way.rest)]

Resolved(at, names) ==
    LET way[n \in 0..MaxWalk] ==
          IF n = 0 THEN [at |-> at, rest |-> names] ELSE Moved(way[n - 1])
        end == way[MaxWalk]
    IN IF end.rest = << >> /\ end.at \in Nodes THEN end.at ELSE Lost

(* resolve_under_allowed_root: the walk looks at every name on the way,    *)
(* and its end, without links, has to lie under the root without links.    *)
Root(c) == Resolved(<< >>, c.root)

Present(at, name) == name = "." \/ Append(at, name) \in Nodes
Linked(at, name)  == Append(at, name) \in DOMAIN Links

(* The fault: links are followed wherever they lead.                       *)
FaultLinksFollowed(at, name, symlinks) ==
    IF name = "" THEN at
    ELSE IF at \in Directories /\ (Present(at, name) \/ Linked(at, name))
    THEN Resolved(at, <<name>>)
    ELSE Lost

Walked(at, name, symlinks) ==
    IF name = "" THEN at
    ELSE IF at \in Directories /\ (Present(at, name) \/ (Linked(at, name) /\ symlinks))
    THEN Resolved(at, <<name>>)
    ELSE Lost

Target(c) ==
    LET place[n \in 0..Len(path)] ==
          IF n = 0 THEN Root(c) ELSE Walked(place[n - 1], path[n], c.symlinks)
    IN place[Len(path)]

Resolves(c) ==
    /\ RelativePath
    /\ Root(c) # Lost /\ Target(c) # Lost
    /\ IsPrefix(Root(c), Target(c))

-----------------------------------------------------------------------------
(* open.                                                                   *)
Reader(c) == [stage |-> "jsonl", config |-> c, target |-> Target(c),
              at |-> 0, line |-> << >>, line_no |-> 0, returned |-> 0]

Found == Configured /\ Resolves(Config(options))

OpenFile == Found /\ Opens(Reader(Config(options)))

(* The system may refuse to open any file.                                 *)
FileRejected == OpenFails

-----------------------------------------------------------------------------
(* read_jsonl_physical_line: up to a newline, which is consumed, or to the *)
(* end of the file.  A body that is too long is abandoned after its first  *)
(* byte too many.                                                          *)
Newlines == {i \in DOMAIN file : file[i] = "n"}
LineEnd  == Min({i \in Newlines : i > gen.at} \cup {Len(file) + 1})
Body     == SubSeq(file, gen.at + 1, LineEnd - 1)

Readable == gen.target \notin Directories

TooLong(c) == Len(Body) > c.line

AtEnd == gen.at = Len(file)

(* next: the loop over lines, its counters, and what becomes of a line.    *)
LimitReached ==
    /\ limit # Unlimited /\ gen.returned >= limit
    /\ Returns("next", gen, fields, Eof)

Reads == ~(limit # Unlimited /\ gen.returned >= limit) /\ Hook("next", "read", gen, fields, out)

ReadFails == ~Readable /\ Returns("read", gen, fields, Error("runtime"))

LineTooLong ==
    /\ Readable /\ TooLong(gen.config)
    /\ Returns("read", [gen EXCEPT !.at = @ + gen.config.line + 1], fields, Error("runtime"))

EndOfFile ==
    Readable /\ AtEnd /\ Returns("read", gen, fields, Eof)

ReadLine ==
    /\ Readable /\ ~AtEnd /\ ~TooLong(gen.config)
    /\ Hook("read", "bytes", [gen EXCEPT !.at = Min({LineEnd, Len(file)}), !.line = Body],
            fields, out)

CountBytes ==
    Hook("bytes", "lines", [gen EXCEPT !.line_no = @ + 1],
         Inc(fields, "bytes_read", Len(gen.line)), out)

CountLine == Hook("lines", "decode", gen, Inc(fields, "lines_read", 1), out)

(* White space at both ends of a line does not count.                      *)
Ink(line)     == {i \in DOMAIN line : line[i] # "s"}
Trimmed(line) == SubSeq(line, Min(Ink(line)), Max(Ink(line)))

Utf8(line)     == "x" \notin Range(line)
Blank(line)    == Utf8(line) /\ Ink(line) = {}
(* parse_jsonl_object_line.                                                *)
Document(line, size) ==
    /\ Utf8(line) /\ ~Blank(line) /\ "g" \notin Range(line)
    /\ Len(Trimmed(line)) <= size

NotUtf8 == ~Utf8(gen.line) /\ Returns("decode", gen, fields, Error("runtime"))

(* The fault: a blank line ends the rows.                                 *)
FaultBlankEnds ==
    Blank(gen.line) /\ Returns("decode", gen, fields, Eof)

BlankLine ==
    /\ Blank(gen.line)
    /\ Hook("decode", "read", gen, Inc(fields, "empty_lines_skipped", 1), out)

ReturnDocument ==
    /\ Document(gen.line, gen.config.document)
    /\ Returns("decode", [gen EXCEPT !.returned = @ + 1], Inc(fields, "documents_returned", 1),
               Advanced([line |-> gen.line_no, text |-> Trimmed(gen.line)]))

NoDocument ==
    /\ Utf8(gen.line) /\ ~Blank(gen.line) /\ ~Document(gen.line, gen.config.document)
    /\ Returns("decode", gen, Inc(fields, "parse_errors", 1), Error("runtime"))

JsonlNext ==
    \/ pc = "idle" /\ (OpenFile \/ FileRejected)
    \/ pc = "next" /\ (LimitReached \/ Reads)
    \/ pc = "read" /\ (ReadFails \/ LineTooLong \/ EndOfFile \/ ReadLine)
    \/ pc \in {"bytes", "lines"} /\ (CountBytes \/ CountLine)
    \/ pc = "decode" /\ (NotUtf8 \/ BlankLine \/ ReturnDocument \/ NoDocument)

-----------------------------------------------------------------------------
(* The lines of the file, by themselves: what lies between two newlines.   *)
Nth(S, n) == CHOOSE x \in S : Cardinality({y \in S : y <= x}) = n

Starts   == Newlines \cup {0}
Start(k) == Nth(Starts, k)

Lines ==
    [k \in 1..Cardinality(Starts) |->
        SubSeq(file, Start(k) + 1, Min({i \in Newlines : i > Start(k)} \cup {Len(file) + 1}) - 1)]

DocumentLines == {k \in DOMAIN Lines : Document(Lines[k], Config(options).document)}

ExpectedDocuments ==
    LET all == Cardinality(DocumentLines) IN
    [n \in 1..(IF limit = Unlimited THEN all ELSE Min({limit, all})) |->
        [line |-> Nth(DocumentLines, n), text |-> Trimmed(Lines[Nth(DocumentLines, n)])]]

(* The names on a path: what is empty between two slashes is none, nor "." *)
Names(p) ==
    LET kept[n \in 0..Len(p)] ==
          IF n = 0 THEN << >>
          ELSE IF p[n] \in {"", "."} THEN kept[n - 1]
          ELSE Append(kept[n - 1], p[n])
    IN kept[Len(p)]

(* The file that is read lies under the directory that the configured root *)
(* leads to, whatever links the root and the path go through, and links    *)
(* these lead to; and unless the host allows symbolic links on the path it *)
(* is the very file that the path names there.                             *)
FilesUnderRoot ==
    \A c \in {Config(options)} :
        gen # NoState /\ gen.stage = "jsonl" =>
            /\ IsPrefix(Root(c), gen.target)
            /\ ~c.symlinks => gen.target = Root(c) \o Names(path)

NoLongLine == \A k \in DOMAIN Lines : Len(Lines[k]) <= Config(options).line
=============================================================================
