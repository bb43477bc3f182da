--------------------- MODULE Metal3DeploymentNoOpProofs ---------------------
(***************************************************************************)
(* Proof of the action property NoOpOnlyWhenCurrent: when                  *)
(* resourceapply.ApplyDeployment writes nothing (the spec hash annotation *)
(* is the rendered one and the generation is the recorded one), the        *)
(* Deployment in the API server really has the rendered selector and      *)
(* template.  The hash alone would not do: a user's in-place edit keeps   *)
(* the annotation.  What makes the generation check enough is             *)
(* GenerationInv: the recorded generation never exceeds the Deployment's, *)
(* and a Deployment still at the recorded generation has not been edited  *)
(* since the operator wrote it, so its annotation describes its spec.     *)
(***************************************************************************)
EXTENDS Metal3DeploymentProofs

USE ConstantsAssumption

\* The generation recorded in the Provisioning status is never ahead of
\* the Deployment's, and a Deployment at the recorded generation carries the
\* selector and template its spec hash annotation was computed from.
GenerationInv ==
    dep # NoDeployment =>
        /\ recordedGen <= dep.gen
        /\ dep.gen = recordedGen => dep.annot = <<dep.sel, dep.tmpl>>

GInv == TypeOK /\ GenerationInv

LEMMA InitGInv == Init => GInv
<1> SUFFICES ASSUME Init PROVE GenerationInv
  BY InitTypeOK DEF GInv
<1>1. CASE dep = NoDeployment
  BY <1>1 DEF GenerationInv
<1>2. CASE dep # NoDeployment
  <2>1. dep.gen \in 1..MaxInitGeneration /\ dep.annot = <<dep.sel, dep.tmpl>>
    BY <1>2 DEF Init
  <2>2. recordedGen \in {NoGeneration} \cup 1..dep.gen
    BY <1>2 DEF Init
  <2>. QED
    BY <2>1, <2>2 DEF GenerationInv, NoGeneration
<1>. QED
  BY <1>1, <1>2

\* The operator's writes record the generation of what they wrote; users'
\* edits raise the generation past it; nothing else touches either.
LEMMA NextGInv == GInv /\ [Next]_vars => GInv'
<1> SUFFICES ASSUME GInv, [Next]_vars PROVE GenerationInv'
  BY NextTypeOK DEF GInv
<1>0. TypeOK /\ TypeOK'
  BY NextTypeOK DEF GInv
<1>u. ASSUME UNCHANGED <<dep, recordedGen>> PROVE GenerationInv'
  BY <1>u DEF GInv, GenerationInv
<1>n. ASSUME dep' = NoDeployment PROVE GenerationInv'
  BY <1>n DEF GenerationInv
<1>1. CASE EnsureApply
  <2>1. CASE ApplyCreated
    BY <2>1 DEF ApplyCreated, Rendered, GenerationInv
  <2>2. CASE ApplyUpdated
    <3>1. dep \in Deployment
      BY <2>2, <1>0 DEF ApplyUpdated, TypeOK
    <3>2. (IF dep.tmpl = desired THEN dep.gen ELSE dep.gen + 1) \in Nat
      BY <3>1 DEF Deployment
    <3>. QED
      BY <2>2, <3>2 DEF ApplyUpdated, Rendered, GenerationInv
  <2>3. CASE ApplyUnchanged \/ ApplyRefused \/ ApplyFailed
    BY <2>3, <1>u DEF ApplyUnchanged, ApplyRefused, ApplyFailed
  <2>. QED
    BY <1>1, <2>1, <2>2, <2>3 DEF EnsureApply
<1>2. CASE EnsureGetSelector \/ GetDeploymentState \/ Tick \/ EditProvisioning
           \/ Restart
  BY <1>2, <1>u DEF EnsureGetSelector, GetDeploymentState, Tick,
                    EditProvisioning, Restart
<1>3. CASE EnsureDelete
  BY <1>3, <1>u, <1>n DEF EnsureDelete
<1>4. CASE DeleteMetal3Deployment \/ UserDeletesDeployment
  BY <1>4, <1>n DEF DeleteMetal3Deployment, UserDeletesDeployment
<1>5. CASE EditDeployment
  <2>1. dep \in Deployment /\ recordedGen \in Nat \cup {NoGeneration}
    BY <1>5, <1>0 DEF EditDeployment, TypeOK
  <2>2. PICK t \in Templates : dep' = [dep EXCEPT !.tmpl = t, !.gen = @ + 1]
    BY <1>5, Zenon DEF EditDeployment
  <2>3. dep' # NoDeployment /\ dep'.gen = dep.gen + 1
    <3>1. dep.gen + 1 \in Nat
      BY <2>1 DEF Deployment
    <3>2. dep' \in Deployment
      BY <2>1, <2>2, <3>1, EditedType, Zenon
    <3>. QED
      BY <2>1, <2>2, <3>2, Zenon DEF Deployment
  <2>4. recordedGen <= dep.gen /\ dep.gen \in Nat
    BY <2>1 DEF GInv, GenerationInv, Deployment
  <2>. QED
    BY <1>5, <2>1, <2>3, <2>4 DEF EditDeployment, GenerationInv, NoGeneration
<1>6. CASE SetDeploymentCondition
  <2>1. dep \in Deployment
    BY <1>6, <1>0 DEF SetDeploymentCondition, TypeOK
  <2>2. PICK t \in CondTypes, b \in BOOLEAN :
          dep' = [dep EXCEPT !.conds =
                    Append(RemoveFirstMatch(@, LAMBDA c : c.type = t),
                           [type |-> t, status |-> b])]
    BY <1>6, Zenon DEF SetDeploymentCondition
  <2>3. /\ dep' # NoDeployment
        /\ dep'.sel = dep.sel /\ dep'.tmpl = dep.tmpl
        /\ dep'.gen = dep.gen /\ dep'.annot = dep.annot
    BY <2>1, <2>2, SetConditionType, Zenon DEF Deployment
  <2>. QED
    BY <1>6, <2>3 DEF SetDeploymentCondition, GInv, GenerationInv
<1>7. CASE UNCHANGED vars
  BY <1>7, <1>u DEF vars
<1>. QED
  BY <1>1, <1>2, <1>3, <1>4, <1>5, <1>6, <1>7 DEF Next, Reconcile, Environment

\* Under GInv, an apply that writes nothing and returns without error
\* leaves a current Deployment.
LEMMA NoOpStep ==
    ASSUME GInv
    PROVE  EnsureApply /\ pc' = "Apply" /\ ~ret'.updated =>
              /\ dep' # NoDeployment
              /\ dep'.sel = Metal3Selector
              /\ dep'.tmpl = desired
<1> SUFFICES ASSUME EnsureApply, pc' = "Apply", ~ret'.updated
             PROVE  /\ dep' # NoDeployment
                    /\ dep'.sel = Metal3Selector
                    /\ dep'.tmpl = desired
  OBVIOUS
<1>1. ApplyUnchanged
  BY DEF EnsureApply, ApplyCreated, ApplyUpdated, ApplyRefused, ApplyFailed
<1>2. dep \in Deployment
  BY <1>1 DEF ApplyUnchanged, GInv, TypeOK
<1>3. dep.annot = <<dep.sel, dep.tmpl>>
  BY <1>1 DEF ApplyUnchanged, GInv, GenerationInv
<1>. QED
  BY <1>1, <1>2, <1>3 DEF ApplyUnchanged

\* ApplyDeployment's no-write decision (the spec hash annotation, and the
\* expected generation of line 1012, which line 1041 records) is
\* never fooled by a user's in-place edit: whenever EnsureMetal3Deployment
\* returns updated = false without error, the Deployment has the rendered
\* selector and template.
THEOREM NoOpOnlyWhenCurrentHolds == Spec => NoOpOnlyWhenCurrent
<1>1. Spec => []GInv
  BY InitGInv, NextGInv, PTL DEF Spec
<1>. QED
  BY <1>1, NoOpStep, PTL DEF NoOpOnlyWhenCurrent

=============================================================================
