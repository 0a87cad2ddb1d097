----------------------------- MODULE ExtensionInit -----------------------------
(***************************************************************************)
(* Loading an extension: get_mongodb_extension and initialize, as          *)
(* source_stage.rs, map_transform.rs and passthrough.rs implement them.    *)
(* What they leave behind is in cells of the process: some are written     *)
(* once and keep the first value, the options keep the last.  The host     *)
(* calls one at a time, as often as it likes, and may refuse a stage.      *)
(*                                                                         *)
(*   family        "source", or "map" or "passthrough" with their one stage *)
(*   services      HOST_SERVICES_VTABLE_ADDR                               *)
(*   descriptors   names of the stages of the extension object, whose      *)
(*                 address is EXTENSION_OBJ_ADDR; << >> before it exists   *)
(*                 (transforms: the name is in ACTIVE_STAGE)               *)
(*   options       EXTENSION_OPTIONS_SNAPSHOT                              *)
(*   pc, at        whether ext_init is under way: before the on_init hook  *)
(*                 of the descriptor at that position, or after it         *)
(*   status        what the last call returned                             *)
(* and what the properties observe:                                        *)
(*   first         arguments of the first get_mongodb_extension accepted   *)
(*   portal        options of the last initialize                          *)
(*   hooked, fresh   stages whose hook succeeded, and that were registered, *)
(*                 in the last initialize                                  *)
(***************************************************************************)
EXTENDS Naturals, Sequences, FiniteSets, Functions

CONSTANTS
    Names,      \* names of stages
    EmptyName,  \* the empty one among them
    Hooks,      \* stages with an on_init hook
    Services,   \* host services
    Options,    \* option documents, the empty one included
    MaxStages   \* bound: stages in one export

ASSUME NameAssumption == EmptyName \in Names /\ Hooks \subseteq Names

ASSUME ValueAssumption == {"unset", "null"} \cap (Services \cup Options) = {}

ASSUME MaxStagesAssumption == MaxStages \in Nat \ {0}

VARIABLES family, services, descriptors, options, pc, at, status,
          first, portal, hooked, fresh

cells    == <<services, descriptors, options>>
observed == <<portal, hooked, fresh>>
vars == <<family, cells, pc, at, status, first, observed>>

Families == {"source", "map", "passthrough"}

(* What one call of get_mongodb_extension is given.                        *)
Lists == UNION {[1..n -> Names] : n \in IF family = "source" THEN 0..MaxStages ELSE {1}}
Calls == [services : Services \cup {"null"}, selected : BOOLEAN, stages : Lists]
NoCall == [services |-> "null", selected |-> FALSE, stages |-> << >>]

Init ==
    /\ family \in Families
    /\ services = "unset" /\ descriptors = << >> /\ options = "unset"
    /\ pc = "idle" /\ at = 1
    /\ status = "ok"
    /\ first = NoCall
    /\ portal = "unset" /\ hooked = {} /\ fresh = {}

-----------------------------------------------------------------------------
(* The selected version is the one this SDK targets; the stages of a       *)
(* source extension have distinct names, and names at all.                 *)
Accepts(c) ==
    /\ c.services # "null"
    /\ family = "source" => /\ c.stages # << >> /\ EmptyName \notin Range(c.stages)
                            /\ IsInjective(c.stages)
    /\ c.selected

(* The cells keep what they hold.  Faults of the mutation runs stand before *)
(* the definition they replace: the last services win.                     *)
FaultLastWins(c) == c.services
KeptServices(c)  == IF services = "unset" THEN c.services ELSE services

get_extension_impl ==
    /\ pc = "idle"
    /\ \E c \in Calls :
         /\ Accepts(c)
         /\ services' = KeptServices(c)
         /\ descriptors' = IF descriptors = << >> THEN c.stages ELSE descriptors
         /\ first' = IF first = NoCall THEN c ELSE first
    /\ status' = "ok"
    /\ UNCHANGED <<family, options, pc, at, observed>>

GetRejected ==
    /\ pc = "idle"
    /\ \E c \in Calls : ~Accepts(c)
    /\ status' = "error"
    /\ UNCHANGED <<family, cells, pc, at, first, observed>>

-----------------------------------------------------------------------------
(* ext_init: the options first, then each descriptor in turn, its hook     *)
(* before its registration.  The host has the extension object.            *)
ext_init ==
    /\ pc = "idle" /\ descriptors # << >>
    /\ pc' = "hook" /\ at' = 1
    /\ \E o \in Options : options' = o /\ portal' = o
    /\ hooked' = {} /\ fresh' = {} /\ status' = "initializing"
    /\ UNCHANGED <<family, services, descriptors, first>>

Step == UNCHANGED <<family, cells, first, portal>>

HasHook(name) == family # "passthrough" /\ name \in Hooks

OnInit ==
    /\ pc = "hook"
    /\ pc' = "register"
    /\ hooked' = IF HasHook(descriptors[at]) THEN hooked \cup {descriptors[at]} ELSE hooked
    /\ Step /\ UNCHANGED <<at, fresh, status>>

(* Fault: the error of a hook is logged and the stage registered.          *)
FaultHookErrorIgnored ==
    /\ pc = "hook" /\ HasHook(descriptors[at])
    /\ pc' = "register"
    /\ Step /\ UNCHANGED <<at, hooked, fresh, status>>

(* The hook fails or panics.                                               *)
OnInitFails ==
    /\ pc = "hook" /\ HasHook(descriptors[at])
    /\ pc' = "idle" /\ status' = "error"
    /\ Step /\ UNCHANGED <<at, hooked, fresh>>

(* The next descriptor, or the end.                                        *)
More == at < Len(descriptors)

Proceed(code) ==
    \/ More /\ pc' = "hook" /\ at' = at + 1 /\ UNCHANGED status
    \/ ~More /\ pc' = "idle" /\ status' = code /\ UNCHANGED at

register_stage_descriptor ==
    /\ pc = "register"
    /\ fresh' = fresh \cup {descriptors[at]}
    /\ Proceed("initialized")
    /\ Step /\ UNCHANGED hooked

(* The host refuses the stage, or returns no status.                       *)
RegistrationRefused ==
    /\ pc = "register"
    /\ pc' = "idle" /\ status' = "error"
    /\ Step /\ UNCHANGED <<at, hooked, fresh>>

Next ==
    \/ get_extension_impl \/ GetRejected
    \/ ext_init \/ OnInit \/ OnInitFails
    \/ register_stage_descriptor \/ RegistrationRefused

Spec == Init /\ [][Next]_vars

-----------------------------------------------------------------------------
(* The variables range over what the cells can hold.                       *)
TypeOK ==
    /\ family \in Families
    /\ services \in Services \cup {"unset"}
    /\ descriptors \in Seq(Names)
    /\ options \in Options \cup {"unset"} /\ portal \in Options \cup {"unset"}
    /\ pc \in {"idle", "hook", "register"} /\ at \in Nat \ {0}
    /\ pc # "idle" => at <= Len(descriptors)
    /\ status \in {"ok", "error", "initializing", "initialized"}
    /\ first \in [services : Services \cup {"null"}, selected : BOOLEAN, stages : Seq(Names)]
    /\ hooked \subseteq Names /\ fresh \subseteq Names

(* The host services and the stages that the process works with come from  *)
(* one and the same call, the first that was acceptable; later calls, with *)
(* other services or stages, and rejected ones leave no trace.             *)
OneInstallation ==
    IF first = NoCall THEN services = "unset" /\ descriptors = << >>
    ELSE /\ services = first.services /\ descriptors = first.stages
         /\ first.selected
         /\ IsInjective(descriptors)

(* However an initialization ends, the host was given no stage whose hook  *)
(* had not succeeded in it, and the stages it was given are the first ones.*)
HookBeforeRegistration ==
    \A i \in DOMAIN descriptors : descriptors[i] \in fresh =>
        /\ HasHook(descriptors[i]) => descriptors[i] \in hooked
        /\ \A j \in 1..i : descriptors[j] \in fresh

(* An initialization that succeeds has given the host every stage, and the *)
(* stages read its options and not those of an earlier one.                *)
SuccessRegistersAll ==
    /\ status = "initialized" => fresh = Range(descriptors) /\ descriptors # << >>
    /\ options = portal

(* What makes these inductive: the stages up to the present one were given *)
(* to the host, their hooks run, and no others.                            *)
ProgressInv ==
    /\ pc # "idle" => /\ fresh = {descriptors[i] : i \in 1..(at - 1)}
                      /\ status = "initializing"
    /\ pc = "register" /\ HasHook(descriptors[at]) => descriptors[at] \in hooked
    /\ first # NoCall => first.stages # << >>
    /\ descriptors = << >> => fresh = {}

IInv == OneInstallation /\ HookBeforeRegistration /\ SuccessRegistersAll /\ ProgressInv
=============================================================================
