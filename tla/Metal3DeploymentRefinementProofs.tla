------------------ MODULE Metal3DeploymentRefinementProofs ------------------
(***************************************************************************)
(* Proof that the reconciler implements the safety part of                 *)
(* Metal3DeploymentIntent under the refinement mapping depObject: every   *)
(* step of EnsureMetal3Deployment, GetDeploymentState,                     *)
(* DeleteMetal3Deployment and of the environment is a Sync, a Prune, an   *)
(* Interfere or a stutter of the abstract specification.  The delete step *)
(* is a Prune only because of NoSpuriousDelete, so the proof rests on the  *)
(* inductive invariant IInv of Metal3DeploymentProofs.                     *)
(***************************************************************************)
EXTENDS Metal3DeploymentProofs

USE ConstantsAssumption

\* The abstract object of a well-typed state: absent exactly when the
\* Deployment is, and otherwise its selector and template.
LEMMA DepObjectFacts ==
    ASSUME TypeOK
    PROVE  /\ dep = NoDeployment => depObject = NoDeployment
           /\ dep # NoDeployment =>
                 /\ depObject = [sel |-> dep.sel, tmpl |-> dep.tmpl]
                 /\ depObject \in Intent!Object
                 /\ depObject # NoDeployment
                 /\ depObject.sel = dep.sel
<1>1. CASE dep = NoDeployment
  BY <1>1 DEF depObject
<1>2. CASE dep # NoDeployment
  <2>1. dep \in Deployment
    BY <1>2 DEF TypeOK
  <2>2. depObject = [sel |-> dep.sel, tmpl |-> dep.tmpl]
    BY <1>2 DEF depObject
  <2>3. [sel |-> dep.sel, tmpl |-> dep.tmpl] \in Intent!Object
    BY <2>1 DEF Deployment, Intent!Object
  <2>4. NoDeployment \notin Intent!Object
    BY DEF Intent!Object
  <2>. QED
    BY <1>2, <2>2, <2>3, <2>4
<1>. QED
  BY <1>1, <1>2

\* The rendered Deployment is seen as the abstract target.
LEMMA RenderedObject ==
    ASSUME TypeOK, NEW g \in Nat, NEW cs \in Conditions,
           dep' = Rendered(g, cs)
    PROVE  depObject' = Intent!Target
<1>1. Rendered(g, cs) \in Deployment
  BY RenderedType
<1>2. dep' # NoDeployment
  BY <1>1
<1>. QED
  BY <1>2 DEF depObject, Rendered, Intent!Target
-----------------------------------------------------------------------------
(* Step simulation.                                                        *)

\* Every step of the reconciler and its environment is a step of the
\* abstract specification, or leaves the abstract state unchanged.
LEMMA NextRefines == IInv /\ [Next]_vars => [Intent!Next]_Intent!avars
<1> SUFFICES ASSUME IInv, [Next]_vars
             PROVE  [Intent!Next]_Intent!avars
  OBVIOUS
<1>0. TypeOK /\ TypeOK'
  BY NextTypeOK DEF IInv
<1>s. ASSUME UNCHANGED <<dep, desired, edits>>
      PROVE  [Intent!Next]_Intent!avars
  BY <1>s DEF depObject, Intent!avars
<1>1. CASE EnsureApply
  <2>1. CASE ApplyCreated
    <3>0. 1 \in Nat /\ <<>> \in Conditions /\ dep' = Rendered(1, <<>>)
      BY <2>1 DEF ApplyCreated, Conditions
    <3>1. depObject' = Intent!Target
      BY <1>0, <3>0, RenderedObject
    <3>2. depObject = NoDeployment
      BY <2>1, <1>0, DepObjectFacts DEF ApplyCreated
    <3>. QED
      BY <1>1, <3>1, <3>2 DEF EnsureApply, ApplyCreated, Intent!Next, Intent!Sync
  <2>2. CASE ApplyUpdated
    <3>1. dep \in Deployment
      BY <2>2, <1>0 DEF ApplyUpdated, TypeOK
    <3>2. (IF dep.tmpl = desired THEN dep.gen ELSE dep.gen + 1) \in Nat
      BY <3>1 DEF Deployment
    <3>3. depObject' = Intent!Target
      BY <2>2, <1>0, <3>1, <3>2, RenderedObject DEF ApplyUpdated, Deployment
    <3>4. depObject.sel = Metal3Selector
      BY <2>2, <1>0, DepObjectFacts DEF ApplyUpdated
    <3>. QED
      BY <1>1, <3>3, <3>4 DEF EnsureApply, ApplyUpdated, Intent!Next, Intent!Sync
  <2>3. CASE ApplyUnchanged \/ ApplyRefused \/ ApplyFailed
    BY <1>1, <2>3, <1>s DEF EnsureApply, ApplyUnchanged, ApplyRefused, ApplyFailed
  <2>. QED
    BY <1>1, <2>1, <2>2, <2>3 DEF EnsureApply
<1>2. CASE EnsureGetSelector
  BY <1>2, <1>s DEF EnsureGetSelector
<1>3. CASE EnsureDelete
  <2>1. CASE dep' = NoDeployment /\ dep # NoDeployment
    <3>1. dep.sel # Metal3Selector
      BY <1>3, <2>1 DEF EnsureDelete, IInv, NoSpuriousDelete
    <3>2. depObject # NoDeployment /\ depObject.sel # Metal3Selector
      BY <1>0, <2>1, <3>1, DepObjectFacts
    <3>3. depObject' = NoDeployment
      BY <2>1 DEF depObject
    <3>. QED
      BY <1>3, <3>2, <3>3 DEF EnsureDelete, Intent!Next, Intent!Prune
  <2>2. CASE dep' = NoDeployment /\ dep = NoDeployment
    BY <1>3, <2>2, <1>s DEF EnsureDelete
  <2>3. CASE dep' # NoDeployment
    BY <1>3, <2>3, <1>s DEF EnsureDelete
  <2>. QED
    BY <2>1, <2>2, <2>3
<1>4. CASE GetDeploymentState \/ Tick \/ Restart
  BY <1>4, <1>s DEF GetDeploymentState, Tick, Restart
<1>5. CASE DeleteMetal3Deployment \/ UserDeletesDeployment
  <2>1. depObject' = NoDeployment /\ edits' = edits + 1 /\ desired' = desired
    BY <1>5 DEF DeleteMetal3Deployment, UserDeletesDeployment, depObject
  <2>2. desired \in Templates
    BY <1>0 DEF TypeOK
  <2>. QED
    BY <2>1, <2>2 DEF Intent!Next, Intent!Interfere
<1>6. CASE EditProvisioning
  <2>1. depObject' = depObject /\ edits' = edits + 1 /\ desired' \in Templates
    BY <1>6 DEF EditProvisioning, depObject
  <2>. QED
    BY <2>1 DEF Intent!Next, Intent!Interfere
<1>7. CASE EditDeployment
  <2>1. dep \in Deployment
    BY <1>7, <1>0 DEF EditDeployment, TypeOK
  <2>2. PICK t \in Templates : dep' = [dep EXCEPT !.tmpl = t, !.gen = @ + 1]
    BY <1>7, Zenon DEF EditDeployment
  <2>3. dep' # NoDeployment /\ dep'.sel = dep.sel /\ dep'.tmpl = t
    <3>1. dep.gen + 1 \in Nat
      BY <2>1 DEF Deployment
    <3>2. dep' \in Deployment
      BY <2>1, <2>2, <3>1, EditedType, Zenon
    <3>. QED
      BY <2>1, <2>2, <3>2, Zenon DEF Deployment
  <2>4. depObject' = [sel |-> depObject.sel, tmpl |-> t]
    BY <1>0, <1>7, <2>3, DepObjectFacts DEF depObject, EditDeployment
  <2>5. depObject # NoDeployment /\ depObject' \in [sel : {depObject.sel}, tmpl : Templates]
    BY <1>0, <1>7, <2>4, DepObjectFacts DEF EditDeployment
  <2>6. edits' = edits + 1 /\ desired' = desired /\ desired \in Templates
    BY <1>7, <1>0 DEF EditDeployment, TypeOK
  <2>. QED
    BY <2>5, <2>6 DEF Intent!Next, Intent!Interfere
<1>8. CASE SetDeploymentCondition
  <2>1. dep \in Deployment
    BY <1>8, <1>0 DEF SetDeploymentCondition, TypeOK
  <2>2. PICK t \in CondTypes, b \in BOOLEAN :
          dep' = [dep EXCEPT !.conds =
                    Append(RemoveFirstMatch(@, LAMBDA c : c.type = t),
                           [type |-> t, status |-> b])]
    BY <1>8, Zenon DEF SetDeploymentCondition
  <2>3. dep' # NoDeployment /\ dep'.sel = dep.sel /\ dep'.tmpl = dep.tmpl
    BY <2>1, <2>2, SetConditionType, Zenon DEF Deployment
  <2>4. depObject' = depObject
    BY <2>1, <2>3, Zenon DEF depObject
  <2>. QED
    BY <1>8, <2>4, Zenon DEF SetDeploymentCondition, Intent!avars
<1>9. CASE UNCHANGED vars
  BY <1>9, <1>s DEF vars
<1>. QED
  BY <1>1, <1>2, <1>3, <1>4, <1>5, <1>6, <1>7, <1>8, <1>9
  DEF Next, Reconcile, Environment

\* The initial states of the reconciler are initial states of the abstract
\* specification.
LEMMA InitRefines == Init => Intent!Init
<1> SUFFICES ASSUME Init PROVE Intent!Init
  OBVIOUS
<1>1. TypeOK
  BY InitTypeOK
<1>2. depObject \in {NoDeployment} \cup Intent!Object
  BY <1>1, DepObjectFacts
<1>. QED
  BY <1>2 DEF Init, Intent!Init

\* EnsureMetal3Deployment, GetDeploymentState and DeleteMetal3Deployment,
\* interleaved with users, the Deployment controller, failing calls and
\* restarts, implement the safety part of Metal3DeploymentIntent: the
\* Deployment is only ever written with the rendered selector and template
\* over an absent Deployment or one with the rendered selector, and only
\* deleted by the reconciler when its selector is outdated.
THEOREM RefinesIntentSafety == Spec => Intent!SafetySpec
<1>1. Spec => []IInv
  BY InitIInv, NextIInv, PTL DEF Spec
<1>. QED
  BY <1>1, InitRefines, NextRefines, PTL DEF Spec, Intent!SafetySpec

=============================================================================
