------------------------------ MODULE Rollout ------------------------------
(***************************************************************************)
(* The urgent path against one Deployment: snapshot.py,                    *)
(* executors/urgent.py and the calls they make in k8s_client.py, one       *)
(* incident after the other.  Outside src/ are the Deployment controller,  *)
(* which numbers the ReplicaSets some time after a change of the pod       *)
(* template, and whoever else deploys (CI, an operator).  A template is    *)
(* cut down to what the actions touch.                                     *)
(***************************************************************************)
EXTENDS Integers

CONSTANTS
  Images, Memories,   \* values of image and of limits.memory
  Unset,              \* a field that the template does not have
  OthersDeploy,       \* whether others deploy
  MaxRevision,        \* bound: no deploy or incident starts from here on
  MaxRestarts         \* bound: restarts

Templates == [image : Images, memory : Memories \cup {Unset},
              restartedAt : Nat \cup {Unset}]

ASSUME RolloutAssumption ==
  /\ Unset \notin Images /\ Unset \notin Memories
  /\ Unset \notin Templates
  /\ OthersDeploy \in BOOLEAN
  /\ MaxRevision \in Nat
  /\ MaxRestarts \in Nat

VARIABLES
  template,     \* spec.template of the Deployment
  replicaSets,  \* the template of each revision that has a ReplicaSet
  revision,     \* the annotation deployment.kubernetes.io/revision
  restarts,     \* restarts so far: the last value of restartedAt
  pc,           \* where the executor is
  item,         \* action_plan[0]
  snapshot,     \* what snapshot.capture() read
  curRev,       \* cur_rev in rollout_undo()
  previous,     \* prev_rs.spec.template in rollout_undo()
  disturbed     \* history: somebody deployed since the snapshot

clusterVars == <<template, replicaSets, revision, restarts>>
incidentVars == <<item, snapshot, disturbed>>
vars == <<clusterVars, pc, incidentVars, curRev, previous>>

Items ==
  [action : {"RESTART_DEPLOYMENT", "ROLLOUT_UNDO"}, memory : {Unset}]
    \cup [action : {"PATCH_MEMORY_LIMIT"}, memory : Memories]

\* The fields of RollbackSnapshot.k8s_state, and whether the controller had
\* recorded the template (a history).
Snapshots == [image : Images, memory : Memories \cup {Unset}, revision : Nat,
              recorded : BOOLEAN]

TypeOK ==
  /\ template \in Templates
  /\ DOMAIN replicaSets \subseteq Nat /\ revision \in DOMAIN replicaSets
  /\ \A r \in DOMAIN replicaSets : replicaSets[r] \in Templates
  /\ restarts \in Nat
  /\ pc \in {"idle", "dry_run", "execute", "list", "apply", "verify",
             "rollback", "rollback_list", "rollback_apply"}
  /\ item \in Items \cup {Unset}
  /\ snapshot \in Snapshots \cup {Unset}
  /\ curRev \in Nat
  /\ previous \in Templates \cup {Unset}
  /\ pc \in {"apply", "rollback_apply"} => previous # Unset
  /\ disturbed \in BOOLEAN

Init ==
  /\ template \in [image : Images, memory : Memories \cup {Unset}, restartedAt : {Unset}]
  /\ revision = 1
  /\ replicaSets = [r \in {1} |-> template]
  /\ restarts = 0
  /\ pc = "idle"
  /\ item = Unset
  /\ snapshot = Unset
  /\ curRev = 0
  /\ previous = Unset
  /\ disturbed = FALSE

-----------------------------------------------------------------------------
\* The controller records a new template under the next revision; a ReplicaSet
\* that has this template already is renumbered.
Sync ==
  /\ template # replicaSets[revision]
  /\ revision' = revision + 1
  /\ LET others == {r \in DOMAIN replicaSets : replicaSets[r] # template} IN
     replicaSets' = [r \in others \cup {revision + 1} |->
                       IF r \in others THEN replicaSets[r] ELSE template]
  /\ UNCHANGED <<template, restarts, pc, incidentVars, curRev, previous>>

\* Somebody else applies a manifest; the annotation of a restart is not in it.
Deploy ==
  /\ OthersDeploy
  /\ revision < MaxRevision
  /\ \E i \in Images, m \in Memories \cup {Unset} :
       template' = [template EXCEPT !.image = i, !.memory = m]
  /\ disturbed' = (pc # "idle")
  /\ UNCHANGED <<replicaSets, revision, restarts, pc, item, snapshot, curRev, previous>>

-----------------------------------------------------------------------------
Goto(step) == pc' = step /\ UNCHANGED <<incidentVars, curRev, previous>>

\* The incident is over, and its variables with it.
End ==
  /\ pc' = "idle"
  /\ item' = Unset
  /\ snapshot' = Unset
  /\ disturbed' = FALSE
  /\ curRev' = 0
  /\ previous' = Unset

\* snapshot.capture() reads image, memory limit and revision of the target.
Capture(i) ==
  /\ pc = "idle"
  /\ revision < MaxRevision
  /\ item' = i
  /\ snapshot' = [image |-> template.image, memory |-> template.memory,
                  revision |-> revision, recorded |-> template = replicaSets[revision]]
  /\ pc' = "dry_run"
  /\ UNCHANGED <<clusterVars, disturbed, curRev, previous>>

\* The ReplicaSets that _previous_replicaset() chooses from.
Earlier(rev) == {r \in DOMAIN replicaSets : r < rev}

\* The whole action as a server-side dry run, which may be refused.
DryRun ==
  /\ pc = "dry_run"
  /\ \/ /\ item.action = "ROLLOUT_UNDO" => Earlier(revision) # {}
        /\ Goto("execute")
     \/ End
  /\ UNCHANGED clusterVars

\* restart_deployment(): a time that no earlier restart had.
Restart ==
  /\ pc = "execute"
  /\ item.action = "RESTART_DEPLOYMENT"
  /\ restarts < MaxRestarts
  /\ restarts' = restarts + 1
  /\ template' = [template EXCEPT !.restartedAt = restarts + 1]
  /\ Goto("verify")
  /\ UNCHANGED <<replicaSets, revision>>

\* patch_memory_limit() of the target container.
PatchMemory ==
  /\ pc = "execute"
  /\ item.action = "PATCH_MEMORY_LIMIT"
  /\ template' = [template EXCEPT !.memory = item.memory]
  /\ Goto("verify")
  /\ UNCHANGED <<replicaSets, revision, restarts>>

\* rollout_undo(), as the action or as its rollback: the Deployment is read,
ReadDeployment ==
  /\ \/ pc = "execute" /\ item.action = "ROLLOUT_UNDO" /\ pc' = "list"
     \/ pc = "rollback" /\ pc' = "rollback_list"
  /\ curRev' = revision
  /\ UNCHANGED <<clusterVars, incidentVars, previous>>

\* Mutant: the oldest of them.
IsOldest(rev) == \A r \in Earlier(curRev) : r >= rev

\* The latest of them.
IsPrevious(rev) == \A r \in Earlier(curRev) : r <= rev

\* Mutant: it is not noticed that there is none.
ListReplicaSetsUnchecked ==
  /\ pc \in {"list", "rollback_list"}
  /\ \/ \E rev \in Earlier(curRev) : IsPrevious(rev) /\ previous' = replicaSets[rev]
     \/ Earlier(curRev) = {} /\ UNCHANGED previous
  /\ pc' = IF pc = "list" THEN "apply" ELSE "rollback_apply"
  /\ UNCHANGED <<clusterVars, incidentVars, curRev>>

\* then its ReplicaSets, which gives up if none is earlier,
ListReplicaSets ==
  /\ pc \in {"list", "rollback_list"}
  /\ \/ /\ \E rev \in Earlier(curRev) : IsPrevious(rev) /\ previous' = replicaSets[rev]
        /\ pc' = IF pc = "list" THEN "apply" ELSE "rollback_apply"
        /\ UNCHANGED <<incidentVars, curRev>>
     \/ /\ Earlier(curRev) = {}
        /\ End
  /\ UNCHANGED clusterVars

\* A strategic-merge patch adds and replaces; what the patch lacks stays.
Merge(old, patch) ==
  [f \in DOMAIN old |-> IF patch[f] = Unset THEN old[f] ELSE patch[f]]

\* and its template is patched in.
ApplyPrevious ==
  /\ pc \in {"apply", "rollback_apply"}
  /\ template' = Merge(template, previous)
  /\ IF pc = "apply" THEN Goto("verify") ELSE End
  /\ UNCHANGED <<replicaSets, revision, restarts>>

\* Kubernetes refuses a call: FAILED, and nothing is changed.
ApiError ==
  /\ pc \in {"execute", "list", "apply", "rollback", "rollback_list", "rollback_apply"}
  /\ End
  /\ UNCHANGED clusterVars

\* After the wait, /v1/verify asks for a rollback, or for anything else.
Verify ==
  /\ pc = "verify"
  /\ Goto("rollback") \/ End
  /\ UNCHANGED clusterVars

Next ==
  \/ Sync \/ Deploy
  \/ \E i \in Items : Capture(i)
  \/ DryRun \/ Restart \/ PatchMemory \/ ReadDeployment \/ ListReplicaSets
  \/ ApplyPrevious \/ ApiError \/ Verify

Spec == Init /\ [][Next]_vars

-----------------------------------------------------------------------------
\* A rollback went through.
RolledBack == pc = "rollback_apply" /\ ApplyPrevious

\* The workload is again as the snapshot found it.
Restored == template'.image = snapshot.image /\ template'.memory = snapshot.memory

\* What rollout_undo() needs, to be a rollback of the action and not of some
\* earlier change: nobody else deployed; the controller had recorded the
\* snapshot's template and has recorded a new one since; and there was a limit.
UndoIsRollback ==
  /\ ~disturbed
  /\ snapshot.recorded
  /\ curRev > snapshot.revision
  /\ snapshot.memory # Unset

\* A rollback restores the snapshot under these conditions, whatever incidents,
\* restarts and undos went before (urgent.py:38-44, k8s_client.py:99-153).
RollbackRestores == [][RolledBack /\ UndoIsRollback => Restored]_vars

-----------------------------------------------------------------------------
\* The controller has recorded the template in force, under the revision that
\* rollout_undo() read.
UpToDate == template = replicaSets[revision] /\ curRev = revision

\* What the documents say of every rollback: it takes the workload back to the
\* snapshot (docs/01_requirements_analysis.md:236); here with a limit in it, with
\* nobody else at work and the controller at rest.
RollbackIsToSnapshot ==
  [][/\ RolledBack
     /\ ~disturbed /\ snapshot.recorded /\ UpToDate /\ snapshot.memory # Unset
     => Restored]_vars
=============================================================================
