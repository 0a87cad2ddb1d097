------------------------------ MODULE HandleLedger ------------------------------
(***************************************************************************)
(* What the raw pointers between the extension and the host promise: each  *)
(* object has one owner, who alone may give it up.  A call creates objects *)
(* for the host or for a container that keeps them, hands over what a      *)
(* container of the host's kept, or is the host destroying one of its own, *)
(* together with what that one kept.  An object nobody owns is lost from   *)
(* its creation, and alone.  What the objects are is left out.             *)
(*                                                                         *)
(*   owner   of each identity: "free" while it names no object             *)
(***************************************************************************)
EXTENDS FiniteSets

CONSTANTS Ids

VARIABLES owner

Owners == {"free", "host", "extension", "lost"}

OwnedBy(o) == {i \in Ids : owner[i] = o}

Become(S, o) == [i \in Ids |-> IF i \in S THEN o ELSE owner[i]]

Init == owner = [i \in Ids |-> "free"]

(* A new object for the host, with those it keeps.                         *)
Create ==
    \E i \in OwnedBy("free"), S \in SUBSET OwnedBy("free") :
        /\ i \notin S
        /\ owner' = [Become(S, "extension") EXCEPT ![i] = "host"]

HandOver == \E S \in SUBSET OwnedBy("extension") : owner' = Become(S, "host")

Release ==
    \E i \in OwnedBy("host"), S \in SUBSET OwnedBy("extension") :
        owner' = Become(S \cup {i}, "free")

Lose == \E i \in OwnedBy("free") : owner' = [owner EXCEPT ![i] = "lost"]

Next == Create \/ HandOver \/ Release \/ Lose

Spec == Init /\ [][Next]_owner
=============================================================================
