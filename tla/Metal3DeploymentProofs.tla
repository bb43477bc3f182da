----------------------- MODULE Metal3DeploymentProofs -----------------------
(***************************************************************************)
(* Proofs about Metal3Deployment, for every value of its constants: the    *)
(* type invariant, and that EnsureMetal3Deployment never reaches its       *)
(* delete call with a Deployment whose selector is the rendered one.       *)
(***************************************************************************)
EXTENDS Metal3Deployment, SequenceTheorems, WellFoundedInduction, TLAPS

USE ConstantsAssumption

-----------------------------------------------------------------------------
(* Lemmas about the sequence operators the model uses.                     *)

\* RemoveAt(s, i) is s without its i-th element.
LEMMA RemoveAtProperties ==
    ASSUME NEW S, NEW s \in Seq(S), NEW i \in 1..Len(s)
    PROVE  /\ RemoveAt(s, i) \in Seq(S)
           /\ Len(RemoveAt(s, i)) = Len(s) - 1
           /\ \A k \in 1..(Len(s) - 1) :
                 RemoveAt(s, i)[k] = IF k < i THEN s[k] ELSE s[k + 1]
<1> DEFINE front == SubSeq(s, 1, i - 1)
           back == SubSeq(s, i + 1, Len(s))
<1>0. Len(s) \in Nat
  BY LenProperties
<1>1. front \in Seq(S) /\ Len(front) = i - 1
  BY SubSeqProperties, ElementOfSeq
<1>2. \A k \in 1..(i - 1) : front[k] = s[k]
  BY SubSeqProperties, ElementOfSeq
<1>3. back \in Seq(S) /\ Len(back) = Len(s) - i
  <2>1. \A k \in (i + 1)..Len(s) : s[k] \in S
    BY ElementOfSeq
  <2>. QED
    BY <2>1, SubSeqProperties
<1>4. \A k \in 1..(Len(s) - i) : back[k] = s[i + k]
  <2>1. \A k \in (i + 1)..Len(s) : s[k] \in S
    BY ElementOfSeq
  <2>. QED
    BY <2>1, SubSeqProperties
<1>5. /\ front \o back \in Seq(S)
      /\ Len(front \o back) = Len(front) + Len(back)
      /\ \A k \in 1..(Len(front) + Len(back)) :
            (front \o back)[k] = IF k <= Len(front) THEN front[k]
                                 ELSE back[k - Len(front)]
  BY <1>1, <1>3, ConcatProperties
<1> HIDE DEF front, back
<1>6. Len(front \o back) = Len(s) - 1
  BY <1>0, <1>1, <1>3, <1>5
<1>7. ASSUME NEW k \in 1..(Len(s) - 1)
      PROVE  (front \o back)[k] = IF k < i THEN s[k] ELSE s[k + 1]
  <2>0. k \in 1..(Len(front) + Len(back))
    BY <1>0, <1>1, <1>3
  <2>1. (front \o back)[k] = IF k <= i - 1 THEN front[k] ELSE back[k - (i - 1)]
    BY <1>1, <1>5, <2>0, Zenon
  <2>2. CASE k < i
    <3>1. k \in 1..(i - 1) /\ k <= i - 1
      BY <2>2
    <3>. QED
      BY <1>2, <2>1, <2>2, <3>1, Zenon
  <2>3. CASE ~(k < i)
    <3>1. /\ k - (i - 1) \in 1..(Len(s) - i)
          /\ i + (k - (i - 1)) = k + 1
          /\ ~(k <= i - 1)
      BY <1>0, <2>3
    <3>2. back[k - (i - 1)] = s[k + 1]
      BY <1>4, <3>1, Zenon
    <3>. QED
      BY <2>1, <2>3, <3>1, <3>2, Zenon
  <2>. QED
    BY <2>2, <2>3, Zenon
<1>8. RemoveAt(s, i) = front \o back
  BY DEF RemoveAt, front, back
<1>. QED
  BY <1>5, <1>6, <1>7, <1>8

\* A list of conditions none of which has type t, one per type, stays a
\* list of conditions with one per type when a condition of type t is
\* appended.
LEMMA AppendFreshCondition ==
    ASSUME NEW r \in Seq(Condition), NEW t \in CondTypes, NEW b \in BOOLEAN,
           \A k \in 1..Len(r) : r[k].type # t,
           \A k, m \in 1..Len(r) : r[k].type = r[m].type => k = m
    PROVE  Append(r, [type |-> t, status |-> b]) \in Conditions
<1> DEFINE new == [type |-> t, status |-> b]
<1>1. new \in Condition
  BY DEF Condition, new
<1>2. /\ Append(r, new) \in Seq(Condition)
      /\ Len(Append(r, new)) = Len(r) + 1
      /\ \A i \in 1..Len(r) : Append(r, new)[i] = r[i]
      /\ Append(r, new)[Len(r) + 1] = new
  BY <1>1, AppendProperties
<1>3. \A i, j \in 1..Len(r) + 1 :
         Append(r, new)[i].type = Append(r, new)[j].type => i = j
  <2> SUFFICES ASSUME NEW i \in 1..Len(r) + 1, NEW j \in 1..Len(r) + 1,
                      Append(r, new)[i].type = Append(r, new)[j].type
               PROVE  i = j
    OBVIOUS
  <2>1. \A k \in 1..Len(r) + 1 :
           Append(r, new)[k].type = t <=> k = Len(r) + 1
    BY <1>2 DEF new
  <2>2. CASE i \in 1..Len(r) /\ j \in 1..Len(r)
    BY <1>2, <2>2
  <2>. QED
    BY <2>1, <2>2
<1>. QED
  BY <1>2, <1>3 DEF Conditions, new

\* Removing the one condition of type t from a list with one condition
\* per type leaves a list with no condition of type t and one per type.
LEMMA RemoveAtUnique ==
    ASSUME NEW s \in Conditions, NEW t, NEW i0 \in 1..Len(s), s[i0].type = t
    PROVE  /\ RemoveAt(s, i0) \in Seq(Condition)
           /\ \A k \in 1..Len(RemoveAt(s, i0)) : RemoveAt(s, i0)[k].type # t
           /\ \A k, m \in 1..Len(RemoveAt(s, i0)) :
                 RemoveAt(s, i0)[k].type = RemoveAt(s, i0)[m].type => k = m
<1> DEFINE r == RemoveAt(s, i0)
           Skip(k) == IF k < i0 THEN k ELSE k + 1
<1>0. /\ s \in Seq(Condition)
      /\ \A i, j \in 1..Len(s) : s[i].type = s[j].type => i = j
  BY DEF Conditions
<1>1. /\ r \in Seq(Condition)
      /\ Len(r) = Len(s) - 1
      /\ \A k \in 1..(Len(s) - 1) : r[k] = IF k < i0 THEN s[k] ELSE s[k + 1]
  BY <1>0, RemoveAtProperties DEF r
\* The k-th element of r is the element of s at index Skip(k) # i0.
<1>2. ASSUME NEW k \in 1..Len(r)
      PROVE  /\ Skip(k) \in 1..Len(s)
             /\ Skip(k) # i0
             /\ r[k] = s[Skip(k)]
  BY <1>1 DEF Skip
<1>3. \A k \in 1..Len(r) : r[k].type # t
  <2> SUFFICES ASSUME NEW k \in 1..Len(r), r[k].type = t PROVE FALSE
    OBVIOUS
  <2>1. /\ Skip(k) \in 1..Len(s)
        /\ Skip(k) # i0
        /\ s[Skip(k)].type = t
    BY <1>2
  <2>. QED
    BY <2>1, <1>0
<1>4. \A k, m \in 1..Len(r) : r[k].type = r[m].type => k = m
  <2> SUFFICES ASSUME NEW k \in 1..Len(r), NEW m \in 1..Len(r),
                      r[k].type = r[m].type
               PROVE  k = m
    OBVIOUS
  <2>1. /\ Skip(k) \in 1..Len(s) /\ r[k] = s[Skip(k)]
        /\ Skip(m) \in 1..Len(s) /\ r[m] = s[Skip(m)]
    BY <1>2
  <2>2. Skip(k) = Skip(m)
    BY <2>1, <1>0
  <2>. QED
    BY <2>2 DEF Skip
<1>. QED
  BY <1>1, <1>3, <1>4 DEF r

\* Setting a condition (remove the one of its type, append it) keeps one
\* condition per type.
LEMMA SetConditionKeepsConditions ==
    ASSUME NEW s \in Conditions, NEW t \in CondTypes, NEW b \in BOOLEAN
    PROVE  Append(RemoveFirstMatch(s, LAMBDA c : c.type = t),
                  [type |-> t, status |-> b]) \in Conditions
<1>0. /\ s \in Seq(Condition)
      /\ \A i, j \in 1..Len(s) : s[i].type = s[j].type => i = j
  BY DEF Conditions
<1>1. CASE \E i \in 1..Len(s) : s[i].type = t
  <2>1. PICK i0 \in 1..Len(s) : s[i0].type = t
    BY <1>1
  <2>2. {i \in 1..Len(s) : s[i].type = t} = {i0}
    BY <1>0, <2>1
  <2>3. SelectInSeq(s, LAMBDA c : c.type = t) = i0
    BY <2>2 DEF SelectInSeq, Min
  <2>4. RemoveFirstMatch(s, LAMBDA c : c.type = t) = RemoveAt(s, i0)
    BY <1>1, <2>3 DEF RemoveFirstMatch
  <2>5. Append(RemoveAt(s, i0), [type |-> t, status |-> b]) \in Conditions
    BY <2>1, RemoveAtUnique, AppendFreshCondition
  <2>. QED
    BY <2>4, <2>5
<1>2. CASE ~\E i \in 1..Len(s) : s[i].type = t
  <2>1. RemoveFirstMatch(s, LAMBDA c : c.type = t) = s
    BY <1>2 DEF RemoveFirstMatch
  <2>2. Append(s, [type |-> t, status |-> b]) \in Conditions
    BY <1>0, <1>2, AppendFreshCondition
  <2>. QED
    BY <2>1, <2>2
<1>. QED
  BY <1>1, <1>2

-----------------------------------------------------------------------------
(* Type correctness.                                                       *)

LEMMA InitTypeOK == Init => TypeOK
<1> SUFFICES ASSUME Init PROVE TypeOK
  OBVIOUS
<1>1. <<>> \in Conditions
  BY DEF Conditions
<1>2. dep \in Deployment \cup {NoDeployment}
  BY <1>1 DEF Init, Deployment
<1>3. recordedGen \in Nat \cup {NoGeneration}
  BY <1>2 DEF Init, Deployment
<1>4. /\ rolloutStart \in 0..MaxTime /\ now \in 0..MaxTime
      /\ edits \in 0..MaxEdits /\ faults \in 0..MaxFaults
  BY DEF Init
<1>5. ret \in Return
  BY DEF Init, NoReturn, Return
<1>6. /\ desired \in Templates /\ pc = "Apply" /\ applyUpdated = FALSE
      /\ reported = "None"
  BY DEF Init
<1>. QED
  BY <1>2, <1>3, <1>4, <1>5, <1>6, Zenon DEF TypeOK

\* The rendered Deployment is a Deployment.
LEMMA RenderedType ==
    ASSUME TypeOK, NEW g \in Nat, NEW cs \in Conditions
    PROVE  Rendered(g, cs) \in Deployment
BY DEF TypeOK, Rendered, Deployment

\* A non-empty set of naturals has a least element.
LEMMA LeastNatural ==
    ASSUME NEW T \in SUBSET Nat, T # {}
    PROVE  \E i \in T : \A j \in T : ~(j < i)
<1>1. \E i \in T : \A j \in T : ~(<<j, i>> \in OpToRel(<, Nat))
  BY NatLessThanWellFounded, WFMin, Zenon
<1>2. \A i, j \in Nat : <<j, i>> \in OpToRel(<, Nat) <=> j < i
  BY Zenon DEF OpToRel
<1>. QED
  BY <1>1, <1>2, Zenon

\* getDeploymentCondition returns a condition type of the list, or
\* Progressing.
LEMMA ConditionType ==
    ASSUME NEW d \in Deployment
    PROVE  getDeploymentCondition(d) \in CondTypes \cup {"Progressing"}
<1> DEFINE cs == d.conds
           T == {i \in 1..Len(cs) : cs[i].status}
<1>1. cs \in Seq(Condition)
  BY DEF Deployment, Conditions, cs
<1>2. CASE T # {}
  <2>0. T \in SUBSET Nat
    BY DEF T
  <2>1. PICK i \in T : \A j \in T : ~(j < i)
    BY <1>2, <2>0, LeastNatural, Zenon
  <2>2. \E k \in 1..Len(cs) : cs[k].status /\ \A j \in 1..(k - 1) : ~cs[j].status
    BY <2>1 DEF T
  <2>3. \A k \in 1..Len(cs) : cs[k].type \in CondTypes
    <3>1. \A k \in 1..Len(cs) : cs[k] \in Condition
      BY <1>1, ElementOfSeq
    <3>. QED
      BY <3>1, Zenon DEF Condition
  <2>4. \E i0 \in 1..Len(cs) : cs[i0].status
    BY <2>2
  <2>. DEFINE ch == CHOOSE k \in 1..Len(cs) :
                      /\ cs[k].status
                      /\ \A j \in 1..(k - 1) : ~cs[j].status
  <2>5. ch \in 1..Len(cs)
    BY <2>2, Zenon DEF ch
  <2>6. getDeploymentCondition(d) = cs[ch].type
    BY <2>4, Zenon DEF getDeploymentCondition, ch, cs
  <2>. QED
    BY <2>3, <2>5, <2>6, Zenon
<1>3. CASE T = {}
  <2>1. ~\E i \in 1..Len(cs) : cs[i].status
    BY <1>3 DEF T
  <2>. QED
    BY <2>1 DEF getDeploymentCondition, cs
<1>. QED
  BY <1>2, <1>3

\* Every pair of flags is a return value of EnsureMetal3Deployment.
LEMMA ReturnType ==
    \A u, e \in BOOLEAN : [updated |-> u, err |-> e] \in Return
BY DEF Return

\* Overwriting the pod template and the generation leaves a Deployment.
LEMMA EditedType ==
    ASSUME NEW d \in Deployment, NEW t \in Templates, NEW n \in Nat
    PROVE  [d EXCEPT !.tmpl = t, !.gen = n] \in Deployment
BY Zenon DEF Deployment

\* Setting a condition leaves a Deployment.
LEMMA SetConditionType ==
    ASSUME NEW d \in Deployment, NEW t \in CondTypes, NEW b \in BOOLEAN
    PROVE  [d EXCEPT !.conds =
              Append(RemoveFirstMatch(@, LAMBDA c : c.type = t),
                     [type |-> t, status |-> b])] \in Deployment
<1>1. d.conds \in Conditions
  BY DEF Deployment
<1>2. Append(RemoveFirstMatch(d.conds, LAMBDA c : c.type = t),
             [type |-> t, status |-> b]) \in Conditions
  BY <1>1, SetConditionKeepsConditions, Zenon
<1>. QED
  BY <1>2, Zenon DEF Deployment

\* The effect of the outcomes of the apply call.
LEMMA ApplyTypeOK ==
    ASSUME TypeOK, EnsureApply
    PROVE  /\ dep' \in Deployment \cup {NoDeployment}
           /\ recordedGen' \in Nat \cup {NoGeneration}
           /\ pc' \in {"Apply", "GetSelector", "Delete"}
           /\ applyUpdated' \in BOOLEAN
           /\ ret' \in Return
           /\ faults' \in 0..MaxFaults
<1>0. <<>> \in Conditions
  BY DEF Conditions
<1>r. ret' \in Return
  <2>1. ret \in Return
    BY DEF TypeOK
  <2>. QED
    BY <2>1, ReturnType, Zenon
    DEF EnsureApply, ApplyCreated, ApplyUnchanged, ApplyUpdated, ApplyRefused,
        ApplyFailed
<1> SUFFICES /\ dep' \in Deployment \cup {NoDeployment}
             /\ recordedGen' \in Nat \cup {NoGeneration}
             /\ pc' \in {"Apply", "GetSelector", "Delete"}
             /\ applyUpdated' \in BOOLEAN
             /\ faults' \in 0..MaxFaults
  BY <1>r
<1>1. CASE ApplyCreated
  <2>1. Rendered(1, <<>>) \in Deployment
    BY <1>0, RenderedType
  <2>. QED
    BY <1>1, <2>1 DEF ApplyCreated, TypeOK
<1>2. CASE ApplyUnchanged
  BY <1>2 DEF ApplyUnchanged, TypeOK
<1>3. CASE ApplyUpdated
  <2>1. dep \in Deployment
    BY <1>3 DEF ApplyUpdated, TypeOK
  <2>2. /\ dep.gen \in Nat /\ dep.gen + 1 \in Nat
        /\ dep.conds \in Conditions
    BY <2>1 DEF Deployment
  <2>3. DEFINE g == IF dep.tmpl = desired THEN dep.gen ELSE dep.gen + 1
  <2>4. g \in Nat
    BY <2>2 DEF g
  <2>5. Rendered(g, dep.conds) \in Deployment /\ Rendered(g, dep.conds).gen = g
    BY <2>2, <2>4, RenderedType DEF Rendered
  <2>. QED
    BY <1>3, <2>4, <2>5 DEF ApplyUpdated, TypeOK, g
<1>4. CASE ApplyRefused
  BY <1>4 DEF ApplyRefused, TypeOK
<1>5. CASE ApplyFailed
  BY <1>5 DEF ApplyFailed, Fault, TypeOK
<1>. QED
  BY <1>1, <1>2, <1>3, <1>4, <1>5 DEF EnsureApply

LEMMA NextTypeOK == TypeOK /\ [Next]_vars => TypeOK'
<1> SUFFICES ASSUME TypeOK, [Next]_vars PROVE TypeOK'
  OBVIOUS
<1>1. CASE EnsureApply
  <2>1. rolloutStart' \in 0..MaxTime
    BY <1>1 DEF EnsureApply, TypeOK
  <2>. QED
    BY <1>1, <2>1, ApplyTypeOK DEF EnsureApply, TypeOK
<1>2. CASE EnsureGetSelector
  <2>1. ret' \in Return
    <3>1. ret \in Return /\ applyUpdated \in BOOLEAN
      BY DEF TypeOK
    <3>. QED
      BY <1>2, <3>1, ReturnType, Zenon DEF EnsureGetSelector
  <2>2. faults' \in 0..MaxFaults
    BY <1>2 DEF EnsureGetSelector, TypeOK, Fault
  <2>. QED
    BY <1>2, <2>1, <2>2 DEF EnsureGetSelector, TypeOK
<1>3. CASE EnsureDelete
  <2>1. ret' \in Return
    <3>1. ret \in Return /\ applyUpdated \in BOOLEAN
      BY DEF TypeOK
    <3>. QED
      BY <1>3, <3>1, ReturnType, Zenon DEF EnsureDelete
  <2>2. faults' \in 0..MaxFaults
    BY <1>3 DEF EnsureDelete, TypeOK, Fault
  <2>. QED
    BY <1>3, <2>1, <2>2 DEF EnsureDelete, TypeOK
<1>4. CASE GetDeploymentState
  <2>1. dep # NoDeployment => getDeploymentCondition(dep) \in CondTypes \cup {"Progressing"}
    BY ConditionType DEF TypeOK
  <2>2. reported' \in CondTypes \cup {"Progressing", "ReplicaFailure", "None"}
    BY <1>4, <2>1 DEF GetDeploymentState
  <2>3. faults' \in 0..MaxFaults
    BY <1>4 DEF GetDeploymentState, TypeOK, Fault
  <2>. QED
    BY <1>4, <2>2, <2>3 DEF GetDeploymentState, TypeOK
<1>5. CASE DeleteMetal3Deployment
  BY <1>5 DEF DeleteMetal3Deployment, TypeOK
<1>6. CASE Tick
  BY <1>6 DEF Tick, TypeOK
<1>7. CASE EditProvisioning
  BY <1>7 DEF EditProvisioning, TypeOK
<1>8. CASE EditDeployment
  <2>1. dep \in Deployment
    BY <1>8 DEF EditDeployment, TypeOK
  <2>2. PICK t \in Templates : dep' = [dep EXCEPT !.tmpl = t, !.gen = @ + 1]
    BY <1>8, Zenon DEF EditDeployment
  <2>3. dep.gen + 1 \in Nat
    BY <2>1 DEF Deployment
  <2>4. dep' \in Deployment
    BY <2>1, <2>2, <2>3, EditedType, Zenon
  <2>. QED
    BY <1>8, <2>4 DEF EditDeployment, TypeOK
<1>9. CASE UserDeletesDeployment
  BY <1>9 DEF UserDeletesDeployment, TypeOK
<1>10. CASE SetDeploymentCondition
  <2>1. dep \in Deployment
    BY <1>10 DEF SetDeploymentCondition, TypeOK
  <2>2. dep' \in Deployment
    BY <1>10, <2>1, SetConditionType, Zenon DEF SetDeploymentCondition
  <2>. QED
    BY <1>10, <2>2, Zenon DEF SetDeploymentCondition, TypeOK
<1>11. CASE Restart
  BY <1>11 DEF Restart, TypeOK, Fault
<1>12. CASE UNCHANGED vars
  BY <1>12 DEF vars, TypeOK
<1>. QED
  BY <1>1, <1>2, <1>3, <1>4, <1>5, <1>6, <1>7, <1>8, <1>9, <1>10, <1>11, <1>12
  DEF Next, Reconcile, Environment

\* Every reachable state is well typed.
THEOREM TypeCorrect == Spec => []TypeOK
BY InitTypeOK, NextTypeOK, PTL DEF Spec

-----------------------------------------------------------------------------
(* NoSpuriousDelete.  It is inductive relative to TypeOK: the only step   *)
(* into the delete call fetched an outdated selector, and while the call   *)
(* is pending no actor can give the Deployment the rendered selector       *)
(* (selectors are immutable, and only EnsureApply creates Deployments).    *)

IInv == TypeOK /\ NoSpuriousDelete

LEMMA InitIInv == Init => IInv
BY InitTypeOK DEF Init, IInv, NoSpuriousDelete

LEMMA NextIInv == IInv /\ [Next]_vars => IInv'
<1> SUFFICES ASSUME IInv, [Next]_vars PROVE NoSpuriousDelete'
  BY NextTypeOK DEF IInv
<1>1. CASE EnsureApply \/ EnsureDelete \/ DeleteMetal3Deployment \/ Restart
  BY <1>1 DEF EnsureApply, ApplyCreated, ApplyUnchanged, ApplyUpdated,
             ApplyRefused, ApplyFailed, EnsureDelete, DeleteMetal3Deployment,
             Restart, NoSpuriousDelete
<1>2. CASE EnsureGetSelector
  BY <1>2 DEF EnsureGetSelector, OutdatedSelector, NoSpuriousDelete
<1>3. CASE GetDeploymentState \/ Tick \/ EditProvisioning
  BY <1>3 DEF GetDeploymentState, Tick, EditProvisioning, IInv, NoSpuriousDelete
<1>4. CASE EditDeployment
  <2>1. dep \in Deployment
    BY <1>4 DEF EditDeployment, IInv, TypeOK
  <2>2. PICK t \in Templates : dep' = [dep EXCEPT !.tmpl = t, !.gen = @ + 1]
    BY <1>4, Zenon DEF EditDeployment
  <2>3. dep' # NoDeployment /\ dep'.sel = dep.sel
    <3>1. dep.gen + 1 \in Nat
      BY <2>1 DEF Deployment
    <3>2. dep' \in Deployment
      BY <2>1, <2>2, <3>1, EditedType, Zenon
    <3>. QED
      BY <2>1, <2>2, <3>2, Zenon DEF Deployment
  <2>. QED
    BY <1>4, <2>3 DEF EditDeployment, IInv, NoSpuriousDelete
<1>7. CASE SetDeploymentCondition
  <2>1. dep \in Deployment
    BY <1>7 DEF SetDeploymentCondition, IInv, TypeOK
  <2>2. PICK t \in CondTypes, b \in BOOLEAN :
          dep' = [dep EXCEPT !.conds =
                    Append(RemoveFirstMatch(@, LAMBDA c : c.type = t),
                           [type |-> t, status |-> b])]
    BY <1>7, Zenon DEF SetDeploymentCondition
  <2>3. dep' # NoDeployment /\ dep'.sel = dep.sel
    BY <2>1, <2>2, SetConditionType, Zenon DEF Deployment
  <2>. QED
    BY <1>7, <2>3, Zenon DEF SetDeploymentCondition, IInv, NoSpuriousDelete
<1>5. CASE UserDeletesDeployment
  BY <1>5 DEF UserDeletesDeployment, NoSpuriousDelete
<1>6. CASE UNCHANGED vars
  BY <1>6 DEF vars, IInv, NoSpuriousDelete
<1>. QED
  BY <1>1, <1>2, <1>3, <1>4, <1>5, <1>6, <1>7 DEF Next, Reconcile, Environment

\* EnsureMetal3Deployment never deletes a Deployment that carries the
\* rendered selector (NoSpuriousDelete holds in every reachable state).
THEOREM NoSpuriousDeleteHolds == Spec => []NoSpuriousDelete
<1>1. Spec => []IInv
  BY InitIInv, NextIInv, PTL DEF Spec
<1>. QED
  BY <1>1, PTL DEF IInv

=============================================================================
