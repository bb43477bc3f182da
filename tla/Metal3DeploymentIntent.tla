----------------------- MODULE Metal3DeploymentIntent -----------------------
(***************************************************************************)
(* What the metal3 Deployment reconciler promises, without its API calls,  *)
(* generations, annotations or status.  The Deployment is seen as its      *)
(* selector and pod template only.  The reconciler takes two kinds of      *)
(* step: it writes the rendered Deployment where no Deployment is, or over *)
(* one that already has the rendered selector, and it removes a Deployment *)
(* whose selector is outdated.  Everyone else (users, other callers of     *)
(* DeleteMetal3Deployment, edits of the Provisioning resource) interferes, *)
(* and each interference is counted: they may delete the Deployment, edit  *)
(* its template in place, or change what renders, but never its selector.  *)
(* Once they stop, the rendered Deployment is eventually in place.         *)
(***************************************************************************)
EXTENDS Naturals

CONSTANTS Templates, Selectors, Metal3Selector, NoDeployment

VARIABLES
    obj,      \* the Deployment's selector and template, or NoDeployment
    desired,  \* the template the current Provisioning spec renders
    others    \* interferences so far

avars == <<obj, desired, others>>

Object == [sel : Selectors, tmpl : Templates]

Target == [sel |-> Metal3Selector, tmpl |-> desired]

Init ==
    /\ obj \in {NoDeployment} \cup Object
    /\ desired \in Templates
    /\ others = 0

\* The reconciler creates or overwrites the Deployment with the rendered one;
\* it never writes over a Deployment whose selector is outdated.
Sync ==
    /\ obj = NoDeployment \/ obj.sel = Metal3Selector
    /\ obj' = Target
    /\ UNCHANGED <<desired, others>>

\* The reconciler removes a Deployment whose selector is outdated.
Prune ==
    /\ obj # NoDeployment
    /\ obj.sel # Metal3Selector
    /\ obj' = NoDeployment
    /\ UNCHANGED <<desired, others>>

\* Someone else deletes the Deployment, edits its template in place, or
\* edits what renders.
Interfere ==
    /\ others' = others + 1
    /\ desired' \in Templates
    /\ \/ obj' = obj
       \/ obj' = NoDeployment
       \/ obj # NoDeployment /\ obj' \in [sel : {obj.sel}, tmpl : Templates]

Next == Sync \/ Prune \/ Interfere

SafetySpec == Init /\ [][Next]_avars

\* The reconciler is triggered again after every change it watches.
Spec == SafetySpec /\ WF_avars(Sync) /\ WF_avars(Prune)

=============================================================================
