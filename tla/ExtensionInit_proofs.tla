-------------------------- MODULE ExtensionInit_proofs --------------------------
(***************************************************************************)
(* Proofs about ExtensionInit for any names, hooks, services, options and  *)
(* number of stages: type correctness, that one call installs everything,  *)
(* and what the host was given however an initialization ended.            *)
(***************************************************************************)
EXTENDS ExtensionInit, TLAPS

(* Every list of stages that is accepted names distinct stages: those of a *)
(* source by the check, those of a transform because it has only one.      *)
LEMMA AcceptedLists ==
  ASSUME TypeOK, NEW c \in Calls, Accepts(c)
  PROVE  /\ c.stages \in Seq(Names) /\ c.stages # << >> /\ IsInjective(c.stages)
         /\ c.services \in Services /\ c.selected = TRUE
<1>1. PICK n \in Nat : c.stages \in [1..n -> Names] /\ (family # "source" => n = 1)
  BY MaxStagesAssumption DEF Calls, Lists
<1>2. c.stages \in Seq(Names)  BY <1>1
<1>3. c.services \in Services /\ c.selected = TRUE  BY DEF Accepts, Calls
<1>4. CASE family = "source"  BY <1>2, <1>3, <1>4 DEF Accepts
<1>5. CASE family # "source"
  <2>1. DOMAIN c.stages = 1..1  BY <1>1, <1>5
  <2>2. c.stages # << >>  BY <2>1
  <2>3. IsInjective(c.stages)  BY <2>1 DEF IsInjective
  <2> QED BY <1>2, <1>3, <2>2, <2>3
<1> QED BY <1>4, <1>5

LEMMA InitHolds == Init => TypeOK /\ IInv
<1> SUFFICES ASSUME Init PROVE TypeOK /\ IInv  OBVIOUS
<1>1. TypeOK  BY DEF Init, TypeOK, NoCall
<1>2. IInv
  BY DEF Init, IInv, OneInstallation, HookBeforeRegistration, SuccessRegistersAll, ProgressInv
<1> QED BY <1>1, <1>2

(* Type correctness, one step per action.                                  *)
LEMMA TypeStep ==
  ASSUME TypeOK, [Next]_vars
  PROVE  TypeOK'
<1> USE DEF TypeOK, cells, observed, Step
<1>1. CASE get_extension_impl
  <2>1. PICK c \in Calls :
          /\ Accepts(c) /\ services' = KeptServices(c)
          /\ descriptors' = IF descriptors = << >> THEN c.stages ELSE descriptors
          /\ first' = IF first = NoCall THEN c ELSE first
    BY <1>1 DEF get_extension_impl
  <2>2. c.stages \in Seq(Names) /\ c.services \in Services  BY <2>1, AcceptedLists
  <2>3. c \in [services : Services \cup {"null"}, selected : BOOLEAN, stages : Seq(Names)]
    BY <2>2 DEF Calls
  <2> QED BY <1>1, <2>1, <2>2, <2>3 DEF get_extension_impl, KeptServices
<1>2. CASE GetRejected  BY <1>2 DEF GetRejected
<1>3. CASE ext_init
  BY <1>3 DEF ext_init
<1>4. CASE OnInit
  <2>1. descriptors[at] \in Names  BY <1>4 DEF OnInit
  <2> QED BY <1>4, <2>1 DEF OnInit
<1>5. CASE OnInitFails  BY <1>5 DEF OnInitFails
<1>6. CASE register_stage_descriptor
  <2>1. descriptors[at] \in Names  BY <1>6 DEF register_stage_descriptor
  <2> QED BY <1>6, <2>1 DEF register_stage_descriptor, Proceed, More
<1>7. CASE RegistrationRefused  BY <1>7 DEF RegistrationRefused
<1>8. CASE UNCHANGED vars  BY <1>8 DEF vars
<1> QED BY <1>1, <1>2, <1>3, <1>4, <1>5, <1>6, <1>7, <1>8 DEF Next

(* The invariant, one step per action.                                     *)
LEMMA InvariantStep ==
  ASSUME TypeOK, IInv, [Next]_vars
  PROVE  IInv'
<1> USE DEF IInv, cells, observed, Step, HasHook
<1>1. CASE get_extension_impl
  <2>1. PICK c \in Calls :
          /\ Accepts(c) /\ services' = KeptServices(c)
          /\ descriptors' = IF descriptors = << >> THEN c.stages ELSE descriptors
          /\ first' = IF first = NoCall THEN c ELSE first
    BY <1>1 DEF get_extension_impl
  <2>2. /\ c.stages # << >> /\ IsInjective(c.stages)
        /\ c.services \in Services /\ c.selected = TRUE
    BY <2>1, AcceptedLists
  <2>3. /\ UNCHANGED <<family, options, pc, at, portal, hooked, fresh>>
        /\ status' = "ok" /\ pc = "idle"
    BY <1>1 DEF get_extension_impl
  <2>4. CASE first = NoCall
    <3>1. /\ services = "unset" /\ descriptors = << >> /\ fresh = {}
      BY <2>4 DEF OneInstallation, ProgressInv
    <3>2. services' = c.services /\ descriptors' = c.stages /\ first' = c
      BY <2>1, <2>4, <3>1 DEF KeptServices
    <3>3. c # NoCall  BY <2>2, ValueAssumption DEF NoCall
    <3> QED BY <2>2, <3>3, <2>3, <3>1, <3>2
            DEF OneInstallation, HookBeforeRegistration, SuccessRegistersAll, ProgressInv
  <2>5. CASE first # NoCall
    <3>1. descriptors # << >> /\ services # "unset"
      BY <2>5, ValueAssumption DEF OneInstallation, ProgressInv, TypeOK
    <3>2. UNCHANGED <<services, descriptors, first>>  BY <2>1, <2>5, <3>1 DEF KeptServices
    <3> QED BY <2>3, <3>2
            DEF OneInstallation, HookBeforeRegistration, SuccessRegistersAll, ProgressInv
  <2> QED BY <2>4, <2>5
<1>2. CASE GetRejected
  BY <1>2 DEF GetRejected, OneInstallation, HookBeforeRegistration, SuccessRegistersAll, ProgressInv
<1>3. CASE ext_init
  <2>1. OneInstallation' /\ HookBeforeRegistration'
    BY <1>3 DEF ext_init, OneInstallation, HookBeforeRegistration
  <2>2. SuccessRegistersAll'  BY <1>3 DEF ext_init, SuccessRegistersAll
  <2>3. ProgressInv'  BY <1>3 DEF ext_init, ProgressInv
  <2> QED BY <2>1, <2>2, <2>3
<1>4. CASE OnInit
  BY <1>4 DEF OnInit, TypeOK, OneInstallation, HookBeforeRegistration, SuccessRegistersAll, ProgressInv
<1>5. CASE OnInitFails
  BY <1>5 DEF OnInitFails, OneInstallation, HookBeforeRegistration, SuccessRegistersAll, ProgressInv
<1>6. CASE register_stage_descriptor
  <2> USE <1>6 DEF register_stage_descriptor
  <2>0. /\ at \in 1..Len(descriptors) /\ IsInjective(descriptors)
        /\ DOMAIN descriptors = 1..Len(descriptors) /\ Len(descriptors) \in Nat
        /\ descriptors # << >>
    BY DEF TypeOK, OneInstallation
  <2>1. fresh' = {descriptors[i] : i \in 1..at}
    BY <2>0 DEF ProgressInv
  <2>2. OneInstallation'  BY DEF OneInstallation
  <2>3. HookBeforeRegistration'
    <3>1. \A i \in DOMAIN descriptors : descriptors[i] \in fresh' <=> i <= at
      BY <2>0, <2>1 DEF IsInjective
    <3>2. \A i \in DOMAIN descriptors : i < at => descriptors[i] \in fresh
      BY <2>0 DEF ProgressInv
    <3> QED BY <2>0, <3>1, <3>2 DEF HookBeforeRegistration, ProgressInv
  <2>4. SuccessRegistersAll'
    <3>1. ~More => fresh' = Range(descriptors)  BY <2>0, <2>1 DEF More, Range
    <3> QED BY <2>0, <3>1 DEF SuccessRegistersAll, Proceed, ProgressInv
  <2>5. ProgressInv'
    BY <2>0, <2>1 DEF ProgressInv, Proceed, More
  <2> QED BY <2>2, <2>3, <2>4, <2>5
<1>7. CASE RegistrationRefused
  BY <1>7 DEF RegistrationRefused, OneInstallation, HookBeforeRegistration, SuccessRegistersAll,
              ProgressInv
<1>8. CASE UNCHANGED vars
  BY <1>8 DEF vars, OneInstallation, HookBeforeRegistration, SuccessRegistersAll, ProgressInv
<1> QED BY <1>1, <1>2, <1>3, <1>4, <1>5, <1>6, <1>7, <1>8 DEF Next

(* The invariant is inductive, for any number of stages.                   *)
THEOREM Inductive == Spec => [](TypeOK /\ IInv)
<1>1. TypeOK /\ IInv /\ [Next]_vars => (TypeOK /\ IInv)'  BY TypeStep, InvariantStep
<1> QED BY <1>1, InitHolds, PTL DEF Spec

(* Every cell has its type.                                                *)
THEOREM TypeCorrect == Spec => []TypeOK
  BY Inductive, PTL

(* Services and stages come from the first acceptable call, for ever.      *)
THEOREM Installation == Spec => []OneInstallation
<1>1. IInv => OneInstallation  BY DEF IInv
<1> QED BY <1>1, Inductive, PTL

(* The host is given a prefix of the stages, each after its hook.          *)
THEOREM HooksFirst == Spec => []HookBeforeRegistration
<1>1. IInv => HookBeforeRegistration  BY DEF IInv
<1> QED BY <1>1, Inductive, PTL

(* A successful initialization leaves no stage out.                        *)
THEOREM Complete == Spec => []SuccessRegistersAll
<1>1. IInv => SuccessRegistersAll  BY DEF IInv
<1> QED BY <1>1, Inductive, PTL
=============================================================================
