-------------------------- MODULE MCGovernedAdaptation --------------------------
(***************************************************************************)
(* Small instances of governed adaptation under policies of the library.    *)
(***************************************************************************)
EXTENDS GovernedAdaptation, PolicyLibrary, TLC

Documented == Library(NoRequirement)
MCDocument == [p \in Policies |-> Documented[p]]

AllBundles ==
  [run: RunIds, audit: AuditIds, measurement: MeasurementIds, evaluator: VersionIds,
   producer: Actors \ Humans, auditor: Humans]

(* Transitions whose run, audit and measurement share an identity.          *)
SharedBundles ==
  {[run |-> e, audit |-> e, measurement |-> e, evaluator |-> NoVersion, producer |-> producer,
    auditor |-> auditor] : e \in RunIds, producer \in Actors \ Humans, auditor \in Humans}

AdaptationSymmetry ==
  Permutations(AuditIds) \cup Permutations(MeasurementIds) \cup Permutations(VersionIds)
    \cup Permutations(Actors \ Humans)
=============================================================================
