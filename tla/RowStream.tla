------------------------------ MODULE RowStream ------------------------------
(***************************************************************************)
(* What an executable source stage promises the host that pulls from it,   *)
(* and nothing of how it keeps the promise: no upstream pointer, no opaque *)
(* state, no buffers.  A stage is undecided until it either forwards its   *)
(* upstream or generates its own rows; it never changes sides, and a       *)
(* generator that reported the end of its rows reports it for ever.        *)
(*                                                                         *)
(*   phase   which side the stage is on                                    *)
(*   answer  what the last get_next gave the host ("none": taken, or no    *)
(*           call yet)                                                     *)
(***************************************************************************)
VARIABLES phase, answer

vars == <<phase, answer>>

Phases  == {"undecided", "forwarding", "generating", "exhausted"}
Answers == {"none", "upstream_row", "own_row", "eof", "pause", "error"}

TypeOK == phase \in Phases /\ answer \in Answers

Init == phase = "undecided" /\ answer = "none"

-----------------------------------------------------------------------------
(* Rows of the upstream: the first one commits the stage to forwarding.    *)
ForwardRow ==
    /\ phase \in {"undecided", "forwarding"}
    /\ phase' = "forwarding"
    /\ answer' = "upstream_row"

(* What else an upstream may answer.  Its end is only passed on by a stage *)
(* that has forwarded a row.                                               *)
ForwardOther ==
    /\ \/ phase \in {"undecided", "forwarding"} /\ answer' \in {"pause", "error"}
       \/ phase = "forwarding" /\ answer' = "eof"
    /\ UNCHANGED phase

(* Rows of the stage itself.                                               *)
OwnRow ==
    /\ phase \in {"undecided", "generating"}
    /\ phase' = "generating"
    /\ answer' = "own_row"

(* The end of the stage's own rows, once and then on every call.           *)
OwnEof ==
    /\ phase \in {"undecided", "generating", "exhausted"}
    /\ phase' = "exhausted"
    /\ answer' = "eof"

(* A failed call may have decided for the generator, but ends nothing.     *)
Fail ==
    /\ phase \in {"undecided", "generating"}
    /\ phase' \in {phase, "generating"}
    /\ answer' = "error"

(* The host takes the answer, or makes a call that yields none.            *)
Take == answer' = "none" /\ UNCHANGED phase

Next == ForwardRow \/ ForwardOther \/ OwnRow \/ OwnEof \/ Fail \/ Take

Spec == Init /\ [][Next]_vars
=============================================================================
