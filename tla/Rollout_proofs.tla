--------------------------- MODULE Rollout_proofs ---------------------------
(***************************************************************************)
(* Proofs about Rollout, for any images and limits and without the bounds  *)
(* of TLC's instance.  IInv follows a quiet incident, one that nobody      *)
(* disturbed and whose snapshot the controller had recorded: until the     *)
(* action the snapshot's revision is in force, after it that revision is   *)
(* the newest or the last but one.                                         *)
(***************************************************************************)
EXTENDS Rollout, TLAPS

BeforeAction == {"dry_run", "execute", "list", "apply"}
AfterAction == {"verify", "rollback", "rollback_list", "rollback_apply"}

Quiet == pc # "idle" /\ ~disturbed /\ snapshot.recorded

\* A template has the image and the limit of the snapshot.
Matches(t) == t.image = snapshot.image /\ t.memory = snapshot.memory

HoldsIncident == pc # "idle" => snapshot \in Snapshots /\ item \in Items

NumberedBelow == \A r \in DOMAIN replicaSets : r <= revision

NotYetChanged ==
  Quiet /\ pc \in BeforeAction =>
    /\ revision = snapshot.revision
    /\ template = replicaSets[revision]
    /\ Matches(template)

ChangedOnce ==
  Quiet /\ pc \in AfterAction =>
    /\ snapshot.revision \in DOMAIN replicaSets
    /\ Matches(replicaSets[snapshot.revision])
    /\ \/ revision = snapshot.revision
       \/ revision = snapshot.revision + 1 /\ template = replicaSets[revision]

ReadInForce == pc = "rollback_list" => curRev <= revision

PreviousMatches ==
  Quiet /\ pc = "rollback_apply" /\ curRev > snapshot.revision => Matches(previous)

IInv ==
  /\ TypeOK
  /\ HoldsIncident
  /\ NumberedBelow
  /\ NotYetChanged
  /\ ChangedOnce
  /\ ReadInForce
  /\ PreviousMatches

-----------------------------------------------------------------------------
\* What a patch has wins, and nothing gets lost.
LEMMA MergeKeepsPatch ==
  ASSUME NEW old \in Templates, NEW patch \in Templates
  PROVE  /\ Merge(old, patch) \in Templates
         /\ Merge(old, patch).image = patch.image
         /\ patch.memory # Unset => Merge(old, patch).memory = patch.memory
<1>1. DOMAIN old = {"image", "memory", "restartedAt"}
  BY DEF Templates
<1>2. patch.image # Unset
  BY RolloutAssumption DEF Templates
<1>3. Merge(old, patch) =
        [image |-> patch.image,
         memory |-> IF patch.memory = Unset THEN old.memory ELSE patch.memory,
         restartedAt |-> IF patch.restartedAt = Unset THEN old.restartedAt
                         ELSE patch.restartedAt]
  BY <1>1, <1>2 DEF Merge, Templates
<1>. QED BY <1>3 DEF Templates

\* The type invariant, and the history of a quiet incident.
THEOREM TypeCorrect == Spec => [](TypeOK /\ IInv)
<1>1. Init => IInv
  <2> SUFFICES ASSUME Init PROVE IInv
    OBVIOUS
  <2>1. TypeOK
    <3>1. template \in Templates
      BY DEF Init, Templates
    <3>2. DOMAIN replicaSets = {1} /\ replicaSets[1] = template
      BY DEF Init
    <3>3. /\ DOMAIN replicaSets \subseteq Nat /\ revision \in DOMAIN replicaSets
          /\ \A r \in DOMAIN replicaSets : replicaSets[r] \in Templates
      BY <3>1, <3>2 DEF Init
    <3>4. /\ restarts \in Nat /\ pc = "idle" /\ item = Unset /\ snapshot = Unset
          /\ curRev \in Nat /\ previous = Unset /\ disturbed \in BOOLEAN
      BY DEF Init
    <3>. QED BY <3>1, <3>3, <3>4 DEF TypeOK
  <2>2. HoldsIncident /\ NumberedBelow /\ NotYetChanged /\ ChangedOnce /\ ReadInForce
        /\ PreviousMatches
    BY DEF Init, HoldsIncident, NumberedBelow, NotYetChanged, ChangedOnce, ReadInForce,
           PreviousMatches, Quiet
  <2>. QED BY <2>1, <2>2 DEF IInv
<1>2. IInv /\ [Next]_vars => IInv'
  <2> SUFFICES ASSUME IInv, [Next]_vars PROVE IInv'
    OBVIOUS
  <2> USE DEF Snapshots
  <2>1. CASE UNCHANGED vars
    BY <2>1 DEF vars, clusterVars, incidentVars, IInv, TypeOK, HoldsIncident, NumberedBelow,
                NotYetChanged, ChangedOnce, ReadInForce, PreviousMatches, Quiet, Matches
  \* The end of an incident, whatever it did to the template.
  <2>2. ASSUME End, template' \in Templates, UNCHANGED <<replicaSets, revision>>,
               restarts' \in Nat
        PROVE  IInv'
    <3>1. TypeOK'
      BY <2>2 DEF IInv, TypeOK, End
    <3>. QED BY <2>2, <3>1 DEF End, IInv, HoldsIncident, NumberedBelow, NotYetChanged,
                               ChangedOnce, ReadInForce, PreviousMatches, Quiet
  <2>3. template \in Templates /\ restarts \in Nat /\ revision \in Nat
    BY DEF IInv, TypeOK
  \* The action, which leaves the snapshot's revision in force.
  <2>4. ASSUME pc \in BeforeAction, pc' = "verify", template' \in Templates,
               restarts' \in Nat,
               UNCHANGED <<replicaSets, revision, incidentVars, curRev, previous>>
        PROVE  IInv'
    <3>1. TypeOK'
      BY <2>4 DEF IInv, TypeOK, incidentVars
    <3>2. HoldsIncident'
      BY <2>4 DEF IInv, HoldsIncident, BeforeAction, incidentVars
    <3>3. ChangedOnce'
      BY <2>4 DEF IInv, TypeOK, ChangedOnce, NotYetChanged, Quiet, Matches, BeforeAction,
                  AfterAction, incidentVars
    <3>. QED BY <2>4, <3>1, <3>2, <3>3 DEF IInv, NumberedBelow, NotYetChanged, ReadInForce,
                  PreviousMatches, BeforeAction
  <2>5. CASE Sync
    <3>1. /\ revision' = revision + 1 /\ template' = template
          /\ template # replicaSets[revision]
          /\ \A r \in DOMAIN replicaSets : replicaSets[r] # template =>
               r \in DOMAIN replicaSets' /\ replicaSets'[r] = replicaSets[r]
          /\ revision' \in DOMAIN replicaSets' /\ replicaSets'[revision'] = template
          /\ \A r \in DOMAIN replicaSets' :
               r = revision' \/ (r \in DOMAIN replicaSets /\ replicaSets'[r] = replicaSets[r])
      <4> DEFINE others == {r \in DOMAIN replicaSets : replicaSets[r] # template}
      <4>1. \A r \in others : r # revision + 1
        BY <2>3 DEF IInv, NumberedBelow
      <4>. QED BY <2>5, <4>1 DEF Sync
    <3>2. /\ UNCHANGED <<restarts, pc, incidentVars, curRev, previous>>
      BY <2>5 DEF Sync
    <3>3. TypeOK'
      BY <2>3, <3>1, <3>2 DEF IInv, TypeOK, incidentVars
    <3>4. NumberedBelow'
      <4>1. \A r \in DOMAIN replicaSets : r \in Nat /\ r <= revision
        BY DEF IInv, TypeOK, NumberedBelow
      <4>. QED BY <2>3, <3>1, <4>1 DEF NumberedBelow
    <3>5. HoldsIncident' /\ PreviousMatches'
      BY <3>2 DEF IInv, HoldsIncident, PreviousMatches, Quiet, Matches, incidentVars
    <3>6. NotYetChanged'
      BY <3>1, <3>2 DEF IInv, NotYetChanged, Quiet, incidentVars
    <3>7. ChangedOnce'
      <4> SUFFICES ASSUME Quiet', pc' \in AfterAction
                   PROVE  /\ snapshot.revision \in DOMAIN replicaSets'
                          /\ Matches(replicaSets'[snapshot.revision])
                          /\ revision' = snapshot.revision + 1
        BY <3>1, <3>2 DEF ChangedOnce, Matches, incidentVars
      <4>1. Quiet /\ pc \in AfterAction
        BY <3>2 DEF Quiet, incidentVars
      <4>. QED BY <3>1, <4>1 DEF IInv, ChangedOnce
    <3>8. ReadInForce'
      BY <2>3, <3>1, <3>2 DEF IInv, TypeOK, ReadInForce
    <3>. QED BY <3>3, <3>4, <3>5, <3>6, <3>7, <3>8 DEF IInv
  <2>6. CASE Deploy
    <3>1. /\ disturbed' = (pc # "idle") /\ template' \in Templates
          /\ UNCHANGED <<replicaSets, revision, restarts, pc, item, snapshot, curRev, previous>>
      BY <2>6 DEF Deploy, IInv, TypeOK, Templates
    <3>. QED BY <3>1 DEF IInv, TypeOK, HoldsIncident, NumberedBelow, NotYetChanged,
                         ChangedOnce, ReadInForce, PreviousMatches, Quiet
  <2>7. ASSUME NEW i \in Items, Capture(i) PROVE IInv'
    <3>1. /\ UNCHANGED clusterVars /\ pc' = "dry_run" /\ item' = i
          /\ snapshot' = [image |-> template.image, memory |-> template.memory,
                  revision |-> revision, recorded |-> template = replicaSets[revision]]
          /\ UNCHANGED <<disturbed, curRev, previous>>
      BY <2>7 DEF Capture
    <3>2. snapshot' \in Snapshots
      BY <2>3, <3>1 DEF Templates
    <3>3. TypeOK'
      BY <3>1, <3>2 DEF IInv, TypeOK, clusterVars
    <3>4. HoldsIncident' /\ NumberedBelow'
      BY <3>1, <3>2 DEF IInv, HoldsIncident, NumberedBelow, clusterVars
    <3>5. NotYetChanged'
      BY <3>1 DEF NotYetChanged, Quiet, Matches, clusterVars
    <3>. QED BY <3>1, <3>3, <3>4, <3>5 DEF IInv, ChangedOnce, ReadInForce, PreviousMatches,
                  AfterAction
  <2>8. CASE DryRun
    <3>1. CASE Goto("execute") /\ UNCHANGED clusterVars
      <4>1. TypeOK' /\ HoldsIncident'
        BY <2>8, <3>1 DEF DryRun, Goto, IInv, TypeOK, HoldsIncident, clusterVars, incidentVars
      <4>. QED BY <2>8, <3>1, <4>1 DEF DryRun, Goto, IInv, NumberedBelow, NotYetChanged,
                  ChangedOnce, ReadInForce, PreviousMatches, Quiet, Matches, BeforeAction,
                  AfterAction, clusterVars, incidentVars
    <3>2. CASE End
      BY <2>2, <2>3, <2>8, <3>2 DEF DryRun, clusterVars
    <3>. QED BY <2>8, <3>1, <3>2 DEF DryRun
  <2>9. CASE Restart
    <3>1. template' \in Templates
      BY <2>3, <2>9 DEF Restart, Templates
    <3>. QED BY <2>3, <2>4, <2>9, <3>1 DEF Restart, Goto, BeforeAction
  <2>10. CASE PatchMemory
    <3>1. item.memory \in Memories
      BY <2>10 DEF PatchMemory, IInv, HoldsIncident, Items
    <3>2. template' \in Templates
      BY <2>3, <2>10, <3>1 DEF PatchMemory, Templates
    <3>. QED BY <2>3, <2>4, <2>10, <3>2 DEF PatchMemory, Goto, BeforeAction
  <2>11. CASE ReadDeployment
    <3>1. /\ curRev' = revision /\ UNCHANGED <<clusterVars, incidentVars, previous>>
          /\ \/ pc = "execute" /\ pc' = "list"
             \/ pc = "rollback" /\ pc' = "rollback_list"
      BY <2>11 DEF ReadDeployment
    <3>2. TypeOK' /\ HoldsIncident'
      BY <2>3, <3>1 DEF IInv, TypeOK, HoldsIncident, clusterVars, incidentVars
    <3>. QED BY <2>3, <3>1, <3>2 DEF IInv, NumberedBelow, NotYetChanged, ChangedOnce,
                  ReadInForce, PreviousMatches, Quiet, Matches, BeforeAction, AfterAction,
                  clusterVars, incidentVars
  <2>12. CASE ListReplicaSets
    <3>1. CASE End
      BY <2>2, <2>3, <2>12, <3>1 DEF ListReplicaSets, clusterVars
    <3>2. CASE ~End
      <4>1. PICK rev \in Earlier(curRev) :
              IsPrevious(rev) /\ previous' = replicaSets[rev]
        BY <2>12, <3>2 DEF ListReplicaSets
      <4>2. /\ \/ pc = "list" /\ pc' = "apply"
               \/ pc = "rollback_list" /\ pc' = "rollback_apply"
            /\ UNCHANGED <<clusterVars, incidentVars, curRev>>
        BY <2>12, <3>2 DEF ListReplicaSets
      <4>3. previous' \in Templates /\ previous' # Unset
        BY <4>1, RolloutAssumption DEF IInv, TypeOK, Earlier
      <4>4. TypeOK' /\ HoldsIncident'
        BY <4>2, <4>3 DEF IInv, TypeOK, HoldsIncident, clusterVars, incidentVars
      <4>5. PreviousMatches'
        <5> SUFFICES ASSUME Quiet, pc = "rollback_list", curRev > snapshot.revision
                     PROVE  Matches(previous')
          BY <4>2 DEF PreviousMatches, Quiet, Matches, incidentVars
        <5>1. /\ snapshot.revision \in DOMAIN replicaSets
              /\ Matches(replicaSets[snapshot.revision])
              /\ curRev = snapshot.revision + 1 /\ snapshot.revision \in Nat
          BY <2>3 DEF IInv, TypeOK, ChangedOnce, ReadInForce, AfterAction, HoldsIncident
        <5>2. rev = snapshot.revision
          BY <4>1, <5>1 DEF Earlier, IsPrevious, IInv, TypeOK
        <5>. QED BY <4>1, <5>1, <5>2
      <4>. QED BY <2>3, <4>2, <4>4, <4>5 DEF IInv, NumberedBelow, NotYetChanged,
                    ChangedOnce, ReadInForce, Quiet, Matches, BeforeAction, AfterAction,
                    clusterVars, incidentVars
    <3>. QED BY <3>1, <3>2
  <2>13. CASE ApplyPrevious
    <3>1. previous \in Templates
      BY <2>13 DEF ApplyPrevious, IInv, TypeOK
    <3>2. template' \in Templates
      BY <2>3, <2>13, <3>1, MergeKeepsPatch DEF ApplyPrevious
    <3>3. CASE pc = "apply"
      BY <2>3, <2>4, <2>13, <3>2, <3>3 DEF ApplyPrevious, Goto, BeforeAction
    <3>4. CASE pc # "apply"
      BY <2>2, <2>3, <2>13, <3>2, <3>4 DEF ApplyPrevious
    <3>. QED BY <3>3, <3>4
  <2>14. CASE ApiError
    BY <2>2, <2>3, <2>14 DEF ApiError, clusterVars
  <2>15. CASE Verify
    <3>1. CASE End
      BY <2>2, <2>3, <2>15, <3>1 DEF Verify, clusterVars
    <3>2. CASE Goto("rollback")
      <4>1. TypeOK' /\ HoldsIncident'
        BY <2>15, <3>2 DEF Verify, Goto, IInv, TypeOK, HoldsIncident, clusterVars, incidentVars
      <4>. QED BY <2>15, <3>2, <4>1 DEF Verify, Goto, IInv, NumberedBelow, NotYetChanged,
                  ChangedOnce, ReadInForce, PreviousMatches, Quiet, Matches, BeforeAction,
                  AfterAction, clusterVars, incidentVars
    <3>. QED BY <2>15, <3>1, <3>2 DEF Verify
  <2>. QED BY <2>1, <2>5, <2>6, <2>7, <2>8, <2>9, <2>10, <2>11, <2>12, <2>13, <2>14, <2>15
           DEF Next
<1>. QED BY <1>1, <1>2, PTL DEF Spec, IInv

\* When only the action has changed the Deployment since the snapshot, and the
\* controller has recorded both, rollout_undo() restores the snapshot.
THEOREM UndoRestores == Spec => RollbackRestores
<1>1. IInv /\ [Next]_vars => [RolledBack /\ UndoIsRollback => Restored]_vars
  <2> SUFFICES ASSUME IInv, RolledBack, UndoIsRollback PROVE Restored
    OBVIOUS
  <2>1. /\ pc = "rollback_apply" /\ template' = Merge(template, previous)
        /\ previous \in Templates /\ template \in Templates
    BY DEF RolledBack, ApplyPrevious, IInv, TypeOK
  <2>2. Matches(previous)
    BY <2>1 DEF UndoIsRollback, IInv, PreviousMatches, Quiet
  <2>. QED BY <2>1, <2>2, MergeKeepsPatch DEF Restored, Matches, UndoIsRollback
<1>. QED BY <1>1, TypeCorrect, PTL DEF Spec, RollbackRestores
=============================================================================
