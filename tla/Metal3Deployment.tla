-------------------------- MODULE Metal3Deployment --------------------------
(***************************************************************************)
(* The reconciler of the metal3 Deployment (src/provisioning/              *)
(* baremetal_pod.go): EnsureMetal3Deployment, GetDeploymentState and       *)
(* DeleteMetal3Deployment, together with the parts of the cluster they     *)
(* talk to: the Deployment object in the API server, the Deployment        *)
(* controller that writes its status conditions, users who edit or delete  *)
(* it, edits of the Provisioning resource, the clock, and restarts of the  *)
(* operator process.                                                       *)
(*                                                                         *)
(* EnsureMetal3Deployment makes up to three blocking API calls (apply,     *)
(* get the selector, delete), so it is split into one action per call;     *)
(* the pc variable records which call it is about to make, and every       *)
(* other actor may take steps in between.                                  *)
(***************************************************************************)
EXTENDS Integers, Sequences, SequencesExt

CONSTANTS
    Templates,        \* pod templates newMetal3PodTemplateSpec can render
    Selectors,        \* label selectors, of this and of earlier versions
    Metal3Selector,   \* the selector newMetal3Deployment renders
    NoDeployment,     \* the API server holds no metal3 Deployment
    RolloutTimeout,   \* deploymentRolloutTimeout, in clock ticks
    MaxTime,          \* bound on the clock
    MaxEdits,         \* bound on edits and deletions by users and callers
    MaxFaults,        \* bound on failed API calls and operator restarts
    MaxInitGeneration, \* bound on the generation of a pre-existing Deployment
    CondTypes         \* condition types the Deployment controller sets

\* A Deployment object as the API server holds it.  annot is the spec hash
\* annotation resourceapply writes (the selector and template it hashed);
\* tmpl and sel are the spec actually stored; conds is Status.Conditions,
\* in the order the controller left them.
\* The controller keeps at most one condition of each type.
Condition == [type : CondTypes, status : BOOLEAN]
Conditions == {s \in Seq(Condition) :
                 \A i, j \in 1..Len(s) : s[i].type = s[j].type => i = j}
Deployment == [sel : Selectors, tmpl : Templates, gen : Nat,
               annot : Selectors \X Templates, conds : Conditions]

ASSUME ConstantsAssumption ==
    /\ CondTypes \subseteq {"Available", "Progressing", "ReplicaFailure"}
    /\ Metal3Selector \in Selectors
    /\ NoDeployment \notin Deployment
    /\ NoDeployment \notin [sel : Selectors, tmpl : Templates]
    /\ Templates # {}
    /\ RolloutTimeout \in Nat \ {0}
    /\ MaxTime \in Nat /\ MaxEdits \in Nat /\ MaxFaults \in Nat
    /\ MaxInitGeneration \in Nat \ {0}

\* "No generation recorded" (resourcemerge.ExpectedDeploymentGeneration).
NoGeneration == -1

VARIABLES
    dep,           \* the metal3 Deployment in the API server, or NoDeployment
    recordedGen,   \* info.ProvConfig.Status.Generations entry for metal3
    desired,       \* the template rendered from the current Provisioning spec
    rolloutStart,  \* deploymentRolloutStartTime
    now,           \* the clock
    pc,            \* the call EnsureMetal3Deployment is about to make
    applyUpdated,  \* `updated` as ApplyDeployment returned it
    ret,           \* what the last EnsureMetal3Deployment call returned
    reported,      \* what the last GetDeploymentState call returned
    edits,         \* edits and deletions by users and callers so far
    faults         \* failed API calls and restarts so far

vars == <<dep, recordedGen, desired, rolloutStart, now, pc, applyUpdated,
          ret, reported, edits, faults>>

Return == [updated : BOOLEAN, err : BOOLEAN]
NoReturn == [updated |-> FALSE, err |-> FALSE]

TypeOK ==
    /\ dep \in Deployment \cup {NoDeployment}
    /\ recordedGen \in Nat \cup {NoGeneration}
    /\ desired \in Templates
    /\ rolloutStart \in 0..MaxTime
    /\ now \in 0..MaxTime
    /\ pc \in {"Apply", "GetSelector", "Delete"}
    /\ applyUpdated \in BOOLEAN
    /\ ret \in Return
    /\ reported \in CondTypes \cup {"Progressing", "ReplicaFailure", "None"}
    /\ edits \in 0..MaxEdits
    /\ faults \in 0..MaxFaults

-----------------------------------------------------------------------------
(* Helpers.                                                                *)

\* The Deployment newMetal3Deployment renders, as resourceapply writes it.
Rendered(gen, conds) ==
    [sel |-> Metal3Selector, tmpl |-> desired, gen |-> gen,
     annot |-> <<Metal3Selector, desired>>, conds |-> conds]

\* Mutant: no true condition yields the zero value of the condition type.
getDeploymentConditionZeroValue(d) ==
    IF \E i \in 1..Len(d.conds) : d.conds[i].status
    THEN d.conds[CHOOSE i \in 1..Len(d.conds) :
                   /\ d.conds[i].status
                   /\ \A j \in 1..(i - 1) : ~d.conds[j].status].type
    ELSE ""

\* getDeploymentCondition: the type of the first condition whose status is
\* true, Progressing when none is.
getDeploymentCondition(d) ==
    IF \E i \in 1..Len(d.conds) : d.conds[i].status
    THEN d.conds[CHOOSE i \in 1..Len(d.conds) :
                   /\ d.conds[i].status
                   /\ \A j \in 1..(i - 1) : ~d.conds[j].status].type
    ELSE "Progressing"

\* The API server holds a metal3 Deployment whose selector is not the
\* rendered one.
OutdatedSelector == dep # NoDeployment /\ dep.sel # Metal3Selector

\* A failed API call, within its bound.
Fault == faults < MaxFaults /\ faults' = faults + 1

-----------------------------------------------------------------------------
(* EnsureMetal3Deployment.                                                 *)

Init ==
    /\ dep \in {NoDeployment} \cup
         {d \in [sel : Selectors, tmpl : Templates, gen : 1..MaxInitGeneration,
                 annot : Selectors \X Templates, conds : {<<>>}] :
            d.annot = <<d.sel, d.tmpl>>}
    /\ recordedGen \in {NoGeneration} \cup
         (IF dep = NoDeployment THEN 1..MaxInitGeneration ELSE 1..dep.gen)
    /\ desired \in Templates
    /\ rolloutStart = 0
    /\ now = 0
    /\ pc = "Apply"
    /\ applyUpdated = FALSE
    /\ ret = NoReturn
    /\ reported = "None"
    /\ edits = 0
    /\ faults = 0

\* The outcomes of resourceapply.ApplyDeployment on the rendered
\* Deployment: create it when absent; no write when the spec hash
\* annotation matches and the generation is the recorded one; otherwise
\* overwrite the spec, which the API server refuses when the selector would
\* change; or the call fails.  A failed create or update returns
\* updated = true with the error.
ApplyCreated ==
    /\ dep = NoDeployment
    /\ dep' = Rendered(1, <<>>)
    /\ recordedGen' = 1
    /\ ret' = [updated |-> TRUE, err |-> FALSE]
    /\ UNCHANGED <<pc, applyUpdated, faults>>

\* Mutant: the no-write check compares the spec hash only.
ApplyUnchangedIgnoringGeneration ==
    /\ dep # NoDeployment
    /\ dep.annot = <<Metal3Selector, desired>>
    /\ ret' = [updated |-> FALSE, err |-> FALSE]
    /\ UNCHANGED <<dep, recordedGen, pc, applyUpdated, faults>>

ApplyUnchanged ==
    /\ dep # NoDeployment
    /\ dep.annot = <<Metal3Selector, desired>>
    /\ dep.gen = recordedGen
    /\ ret' = [updated |-> FALSE, err |-> FALSE]
    /\ UNCHANGED <<dep, recordedGen, pc, applyUpdated, faults>>

ApplyUpdated ==
    /\ dep # NoDeployment
    /\ dep.annot # <<Metal3Selector, desired>> \/ dep.gen # recordedGen
    /\ dep.sel = Metal3Selector
    /\ dep' = Rendered(IF dep.tmpl = desired THEN dep.gen ELSE dep.gen + 1,
                       dep.conds)
    /\ recordedGen' = dep'.gen
    /\ ret' = [updated |-> TRUE, err |-> FALSE]
    /\ UNCHANGED <<pc, applyUpdated, faults>>

ApplyRefused ==
    /\ dep # NoDeployment
    /\ dep.annot # <<Metal3Selector, desired>> \/ dep.gen # recordedGen
    /\ dep.sel # Metal3Selector
    /\ pc' = "GetSelector"
    /\ applyUpdated' = TRUE
    /\ UNCHANGED <<dep, recordedGen, ret, faults>>

ApplyFailed ==
    /\ Fault
    /\ pc' = "GetSelector"
    /\ applyUpdated' \in BOOLEAN
    /\ UNCHANGED <<dep, recordedGen, ret>>

\* Render the Deployment, stamp the rollout start time and apply it.  On
\* success record the generation and return; on failure go on to fetch the
\* selector.
EnsureApply ==
    /\ pc = "Apply"
    /\ rolloutStart' = now
    /\ \/ ApplyCreated
       \/ ApplyUnchanged
       \/ ApplyUpdated
       \/ ApplyRefused
       \/ ApplyFailed
    /\ UNCHANGED <<desired, now, reported, edits>>

\* Mutant: any Deployment found is deleted, whatever its selector.
EnsureGetSelectorNoCompare ==
    /\ pc = "GetSelector"
    /\ \/ /\ dep = NoDeployment
          /\ UNCHANGED faults
          /\ pc' = "Apply"
          /\ ret' = [updated |-> applyUpdated, err |-> TRUE]
       \/ /\ Fault
          /\ pc' = "Apply"
          /\ ret' = [updated |-> applyUpdated, err |-> TRUE]
       \/ /\ dep # NoDeployment
          /\ pc' = "Delete"
          /\ UNCHANGED <<ret, faults>>
    /\ UNCHANGED <<dep, recordedGen, desired, rolloutStart, now,
                   applyUpdated, reported, edits>>

\* Mutant: the selector comparison is inverted.
EnsureGetSelectorInverted ==
    /\ pc = "GetSelector"
    /\ \/ /\ dep # NoDeployment => dep.sel # Metal3Selector
          /\ UNCHANGED faults
          /\ pc' = "Apply"
          /\ ret' = [updated |-> applyUpdated, err |-> TRUE]
       \/ /\ Fault
          /\ pc' = "Apply"
          /\ ret' = [updated |-> applyUpdated, err |-> TRUE]
       \/ /\ dep # NoDeployment /\ dep.sel = Metal3Selector
          /\ pc' = "Delete"
          /\ UNCHANGED <<ret, faults>>
    /\ UNCHANGED <<dep, recordedGen, desired, rolloutStart, now,
                   applyUpdated, reported, edits>>

\* getMetal3DeploymentSelector after a failed apply.  When the fetch fails
\* (the Deployment is gone, or the call fails) or the selector is the
\* rendered one, return the apply error; otherwise go on to delete.
EnsureGetSelector ==
    /\ pc = "GetSelector"
    /\ \/ /\ ~OutdatedSelector
          /\ UNCHANGED faults
          /\ pc' = "Apply"
          /\ ret' = [updated |-> applyUpdated, err |-> TRUE]
       \/ /\ Fault
          /\ pc' = "Apply"
          /\ ret' = [updated |-> applyUpdated, err |-> TRUE]
       \/ /\ OutdatedSelector
          /\ pc' = "Delete"
          /\ UNCHANGED <<ret, faults>>
    /\ UNCHANGED <<dep, recordedGen, desired, rolloutStart, now,
                   applyUpdated, reported, edits>>

\* Mutant: the delete reports success without removing the Deployment.
EnsureDeleteKeeps ==
    /\ pc = "Delete"
    /\ pc' = "Apply"
    /\ \/ /\ ret' = [updated |-> applyUpdated, err |-> FALSE]
          /\ UNCHANGED <<dep, faults>>
       \/ /\ Fault
          /\ ret' = [updated |-> applyUpdated, err |-> TRUE]
          /\ UNCHANGED dep
    /\ UNCHANGED <<recordedGen, desired, rolloutStart, now, applyUpdated,
                   reported, edits>>

\* DeleteMetal3Deployment on the Deployment with the outdated selector
\* (not found is no error).  When it fails, return the delete error.  When
\* it succeeds, fall through to the end of EnsureMetal3Deployment: the
\* generation recorded comes from the object the failed write returned,
\* which is not the metal3 Deployment, and the call returns updated, nil.
EnsureDelete ==
    /\ pc = "Delete"
    /\ pc' = "Apply"
    /\ \/ /\ dep' = NoDeployment
          /\ ret' = [updated |-> applyUpdated, err |-> FALSE]
          /\ UNCHANGED faults
       \/ /\ Fault
          /\ ret' = [updated |-> applyUpdated, err |-> TRUE]
          /\ UNCHANGED dep
    /\ UNCHANGED <<recordedGen, desired, rolloutStart, now, applyUpdated,
                   reported, edits>>

-----------------------------------------------------------------------------
(* GetDeploymentState and DeleteMetal3Deployment, as their callers use     *)
(* them between two EnsureMetal3Deployment calls.                          *)

\* Report ReplicaFailure when the Deployment cannot be read; otherwise its
\* first true condition, with Progressing turned into ReplicaFailure once
\* RolloutTimeout has passed since the last rollout start.
GetDeploymentState ==
    /\ pc = "Apply"
    /\ \/ /\ dep = NoDeployment
          /\ reported' = "ReplicaFailure"
          /\ UNCHANGED faults
       \/ /\ Fault
          /\ reported' = "ReplicaFailure"
       \/ /\ dep # NoDeployment
          /\ reported' =
               IF /\ getDeploymentCondition(dep) = "Progressing"
                  /\ RolloutTimeout <= now - rolloutStart
               THEN "ReplicaFailure"
               ELSE getDeploymentCondition(dep)
          /\ UNCHANGED faults
    /\ UNCHANGED <<dep, recordedGen, desired, rolloutStart, now, pc,
                   applyUpdated, ret, edits>>

\* DeleteMetal3Deployment called by the operator outside of
\* EnsureMetal3Deployment (not found is no error).
DeleteMetal3Deployment ==
    /\ pc = "Apply"
    /\ edits < MaxEdits
    /\ edits' = edits + 1
    /\ dep' = NoDeployment
    /\ UNCHANGED <<recordedGen, desired, rolloutStart, now, pc,
                   applyUpdated, ret, reported, faults>>

-----------------------------------------------------------------------------
(* The environment.                                                        *)

\* The clock advances.
Tick ==
    /\ now < MaxTime
    /\ now' = now + 1
    /\ UNCHANGED <<dep, recordedGen, desired, rolloutStart, pc,
                   applyUpdated, ret, reported, edits, faults>>

\* A user edits the Provisioning resource, so a different template renders.
EditProvisioning ==
    /\ edits < MaxEdits
    /\ edits' = edits + 1
    /\ desired' \in Templates \ {desired}
    /\ UNCHANGED <<dep, recordedGen, rolloutStart, now, pc, applyUpdated,
                   ret, reported, faults>>

\* A user edits the Deployment's pod template in place: the generation
\* goes up, the annotation stays, the selector is immutable.
EditDeployment ==
    /\ dep # NoDeployment
    /\ edits < MaxEdits
    /\ edits' = edits + 1
    /\ \E t \in Templates \ {dep.tmpl} :
          dep' = [dep EXCEPT !.tmpl = t, !.gen = @ + 1]
    /\ UNCHANGED <<recordedGen, desired, rolloutStart, now, pc,
                   applyUpdated, ret, reported, faults>>

\* A user deletes the Deployment, possibly in the middle of a reconcile.
UserDeletesDeployment ==
    /\ dep # NoDeployment
    /\ edits < MaxEdits
    /\ edits' = edits + 1
    /\ dep' = NoDeployment
    /\ UNCHANGED <<recordedGen, desired, rolloutStart, now, pc,
                   applyUpdated, ret, reported, faults>>

\* The Deployment controller sets condition t to status s: the condition
\* is taken out of the list and appended at its end (the controller's
\* SetDeploymentCondition does this whenever the status or reason changes;
\* with one condition per type, filtering it out removes its first match).
SetDeploymentCondition ==
    /\ dep # NoDeployment
    /\ \E t \in CondTypes, s \in BOOLEAN :
          dep' = [dep EXCEPT !.conds =
                    Append(RemoveFirstMatch(@, LAMBDA c : c.type = t),
                           [type |-> t, status |-> s])]
    /\ UNCHANGED <<recordedGen, desired, rolloutStart, now, pc,
                   applyUpdated, ret, reported, edits, faults>>

\* The operator process restarts: an EnsureMetal3Deployment in flight is
\* abandoned and deploymentRolloutStartTime is initialised to time.Now().
Restart ==
    /\ Fault
    /\ pc' = "Apply"
    /\ rolloutStart' = now
    /\ UNCHANGED <<dep, recordedGen, desired, now, applyUpdated, ret,
                   reported, edits>>

-----------------------------------------------------------------------------

Reconcile == EnsureApply \/ EnsureGetSelector \/ EnsureDelete

Environment ==
    \/ Tick \/ EditProvisioning \/ EditDeployment \/ UserDeletesDeployment
    \/ SetDeploymentCondition \/ Restart

Next ==
    \/ Reconcile
    \/ GetDeploymentState
    \/ DeleteMetal3Deployment
    \/ Environment

\* The operator is triggered again after every change to the Deployment or
\* the Provisioning resource (it watches both), so each reconcile step that
\* stays enabled is eventually taken.
Fairness ==
    /\ WF_vars(EnsureApply)
    /\ WF_vars(EnsureGetSelector)
    /\ WF_vars(EnsureDelete)

Spec == Init /\ [][Next]_vars /\ Fairness

-----------------------------------------------------------------------------
(* Properties.                                                             *)

\* EnsureMetal3Deployment deletes only a Deployment whose selector is an
\* outdated one: between the selector fetch and the delete call, nothing
\* can have put a Deployment with the rendered selector in its place, so a
\* failed apply on a current Deployment never deletes it.
NoSpuriousDelete ==
    pc = "Delete" => dep = NoDeployment \/ dep.sel # Metal3Selector

\* When ApplyDeployment decides there is nothing to write (EnsureMetal3Deployment
\* returns updated = false without error), the Deployment in the API server
\* really carries the rendered selector and template: a user's in-place
\* edit of the Deployment is never mistaken for an up-to-date object.
NoOpOnlyWhenCurrent ==
    [][EnsureApply /\ pc' = "Apply" /\ ~ret'.updated =>
         /\ dep' # NoDeployment
         /\ dep'.sel = Metal3Selector
         /\ dep'.tmpl = desired]_vars

\* Once users, callers and faults stop, repeated reconciles leave a
\* Deployment with the rendered selector and template in place for good: an
\* outdated selector is deleted and the Deployment recreated, a deleted one
\* is recreated and an edited one restored.
Converges ==
    <>[](/\ dep # NoDeployment
         /\ dep.sel = Metal3Selector
         /\ dep.tmpl = desired)

\* The spec (section 4.5, step 4): when the apply fails,
\* EnsureMetal3Deployment surfaces the apply error, after the delete when
\* the selector was outdated.
ApplyErrorSurfaced ==
    [][(EnsureGetSelector \/ EnsureDelete) /\ pc' = "Apply" => ret'.err]_vars

\* The spec (section 4.5, step 6): Progressing is turned into
\* ReplicaFailure only for a stuck rollout.  So a Deployment that the
\* controller reports Available is never reported ReplicaFailure by a
\* GetDeploymentState call that could read it.
AvailableNotReportedFailed ==
    [][GetDeploymentState /\ dep # NoDeployment /\ UNCHANGED faults
       /\ [type |-> "Available", status |-> TRUE] \in Range(dep.conds)
       => reported' # "ReplicaFailure"]_vars

-----------------------------------------------------------------------------
(* The reconciler implements Metal3DeploymentIntent.  The Deployment is    *)
(* seen as its selector and template; the edits and deletions of users and *)
(* callers are the interferences the abstract specification counts.       *)

depObject == IF dep = NoDeployment THEN NoDeployment
             ELSE [sel |-> dep.sel, tmpl |-> dep.tmpl]

Intent == INSTANCE Metal3DeploymentIntent WITH obj <- depObject, others <- edits

\* EnsureMetal3Deployment, with every other actor interleaved between its
\* API calls, only ever writes the rendered Deployment over an absent one or
\* one with the rendered selector, only deletes one whose selector is
\* outdated, and (under the reconcile fairness) eventually puts the
\* rendered Deployment in place whenever it is not and nobody interferes.
IntentSpec == Intent!Spec

=============================================================================
