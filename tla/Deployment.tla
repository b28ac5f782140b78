----------------------------- MODULE Deployment -----------------------------
(***************************************************************************)
(* Deploying the site: host/scripts/deploy.sh with the prerun.sh and       *)
(* run.sh of the release it deploys, the host's restart, and migrations    *)
(* run by hand (jake runMigrations, jake runOneMigrationDown).             *)
(*                                                                         *)
(* A deployment migrates the database while the old server runs, turns the *)
(* link `current' to the new directory, starts the new server under pm2    *)
(* and deletes the old ones.  Each command may fail, before or after it    *)
(* took effect, and the script may be killed between two of them.  One     *)
(* deployment at a time; its checks of directories come before anything    *)
(* changes and are left out.                                               *)
(***************************************************************************)
EXTENDS Migrations

CONSTANT MaxDeploys   \* bound: deployments in one behaviour

ASSUME DeploysAssumption == MaxDeploys \in Nat

VARIABLES
    at,        \* what the deployment does next, or how the last one ended
    target,    \* its number, which is its directory's; 0: none yet
    servers,   \* the deployments whose servers pm2 runs
    current,   \* the deployment that the link names; 0: there is no link
    old,       \* old_deploy_target
    oldIds     \* old_ids

switchVars == <<at, target, servers, current, old, oldIds>>
allVars == <<vars, switchVars>>

Resting == {"idle", "succeeded", "failed"}
Switching == {"unlink", "link", "list", "start", "delete", "unlinkBack", "linkBack"}

DeploymentTypeOK ==
    /\ MigrationsTypeOK
    /\ at \in Resting \cup Switching \cup {"prerun"}
    /\ target \in 0..MaxDeploys
    /\ servers \subseteq 1..MaxDeploys
    /\ current \in 0..MaxDeploys
    /\ old \in 0..MaxDeploys
    /\ oldIds \subseteq 1..MaxDeploys

DeploymentInit ==
    /\ Init
    /\ at = "idle"
    /\ target = 0
    /\ servers = {}
    /\ current = 0
    /\ old = 0
    /\ oldIds = {}

MayFail == failures < MaxFailures /\ failures' = failures + 1

-----------------------------------------------------------------------------
(* deploy.sh *)

\* The directory of the deployment is made, and prerun.sh runs in it.
Deploy(n) ==
    /\ at \in Resting
    /\ target < MaxDeploys
    /\ target' = target + 1
    /\ at' = "prerun"
    /\ Begin("up", n)
    /\ UNCHANGED <<servers, current, old, oldIds>>

\* Mutant: prerun.sh goes on after a failure.
PrerunAnyway ==
    /\ at = "prerun" /\ pc \in {"done", "failed"}
    /\ at' = "unlink"
    /\ UNCHANGED <<vars, target, servers, current, old, oldIds>>

\* set -e in prerun.sh: the deployment ends with the migrations' failure, or
\* with that of the client bundle, which comes next.
PrerunSucceeds ==
    /\ at = "prerun" /\ pc = "done"
    /\ at' = "unlink"
    /\ UNCHANGED <<vars, target, servers, current, old, oldIds>>

PrerunFails ==
    /\ at = "prerun"
    /\ \/ pc = "failed" /\ UNCHANGED failures
       \/ pc = "done" /\ MayFail
    /\ at' = "failed"
    /\ UNCHANGED <<schema, recorded, runVars, cut, torn, unwritten>>
    /\ UNCHANGED <<target, servers, current, old, oldIds>>

\* rm $deploy_link
Unlink ==
    /\ at = "unlink"
    /\ old' = current
    /\ current' = 0
    /\ at' = "link"
    /\ UNCHANGED <<vars, target, servers, oldIds>>

\* ln -s $deploy_target $deploy_link
Link ==
    /\ at = "link"
    /\ current' = target
    /\ at' = "list"
    /\ UNCHANGED <<vars, target, servers, old, oldIds>>

-----------------------------------------------------------------------------
(* run.sh *)

\* old_ids=$(pm2 jlist | ...)
ListServers ==
    /\ at = "list"
    /\ oldIds' = servers
    /\ at' = "start"
    /\ UNCHANGED <<vars, target, servers, current, old>>

\* Mutant: the old servers are deleted before the new one starts.
StartAfterDelete ==
    /\ at = "start"
    /\ servers' = IF oldIds = {} THEN servers \cup {target} ELSE servers \ oldIds
    /\ oldIds' = {}
    /\ at' = IF oldIds = {} THEN "delete" ELSE "start"
    /\ UNCHANGED <<vars, target, current, old>>

\* pm2 start
Start ==
    /\ at = "start"
    /\ servers' = servers \cup {target}
    /\ at' = "delete"
    /\ UNCHANGED <<vars, target, current, old, oldIds>>

\* Mutant: only the server of the old link is deleted.
DeleteLinked ==
    /\ at = "delete"
    /\ oldIds # {}
    /\ servers' = servers \ {old}
    /\ oldIds' = {}
    /\ UNCHANGED <<vars, at, target, current, old>>

\* pm2 delete $old_id
DeleteServer ==
    /\ at = "delete"
    /\ \E id \in oldIds : servers' = servers \ {id} /\ oldIds' = oldIds \ {id}
    /\ UNCHANGED <<vars, at, target, current, old>>

Succeed ==
    /\ at = "delete"
    /\ oldIds = {}
    /\ at' = "succeeded"
    /\ UNCHANGED <<vars, target, servers, current, old, oldIds>>

-----------------------------------------------------------------------------
(* What goes wrong. *)

\* Mutant: the servers that were to be replaced are deleted all the same.
PmFailsCleaning == servers' = servers \/ servers' = servers \ oldIds

\* What a pm2 command that fails may have done all the same.
PmFails ==
    \/ servers' = servers
    \/ at = "start" /\ servers' = servers \cup {target}
    \/ at = "delete" /\ \E id \in oldIds : servers' = servers \ {id}

\* run.sh fails, and set -e ends it.
RunFails ==
    /\ at \in {"list", "start", "delete"}
    /\ MayFail
    /\ PmFails
    /\ at' = "unlinkBack"
    /\ UNCHANGED <<schema, recorded, runVars, cut, torn, unwritten>>
    /\ UNCHANGED <<target, current, old, oldIds>>

\* rm $deploy_link
UnlinkBack ==
    /\ at = "unlinkBack"
    /\ current' = 0
    /\ at' = "linkBack"
    /\ UNCHANGED <<vars, target, servers, old, oldIds>>

\* ln -s $old_deploy_target $deploy_link.  ([ -n ] is true of a missing name as
\* well: then there is no link in the end.)
LinkBack ==
    /\ at = "linkBack"
    /\ current' = old
    /\ at' = "failed"
    /\ UNCHANGED <<vars, target, servers, old, oldIds>>

\* deploy.sh is killed, or ends because rm or ln fail.
Killed ==
    /\ at \in Switching
    /\ MayFail
    /\ at' = "failed"
    /\ UNCHANGED <<schema, recorded, runVars, cut, torn, unwritten>>
    /\ UNCHANGED <<target, servers, current, old, oldIds>>

\* The host restarts; run-on-reboot.sh runs the run.sh that the link names, if
\* there is one, which may fail.  (During a migration it is a StepFails with a
\* PrerunFails and this after it.)
Reboot ==
    /\ at # "prerun"
    /\ MayFail
    /\ \/ /\ servers' = IF current = 0 THEN {} ELSE {current}
          /\ at' = IF at \in Switching THEN "failed" ELSE at
       \/ /\ servers' = {}
          /\ at' = "failed"
    /\ UNCHANGED <<schema, recorded, runVars, cut, torn, unwritten>>
    /\ UNCHANGED <<target, current, old, oldIds>>

-----------------------------------------------------------------------------
ByHand(w, n) ==
    /\ at \in Resting
    /\ Begin(w, n)
    /\ UNCHANGED switchVars

Switch ==
    \/ PrerunSucceeds \/ PrerunFails \/ Unlink \/ Link
    \/ ListServers \/ Start \/ DeleteServer \/ Succeed
    \/ RunFails \/ UnlinkBack \/ LinkBack \/ Killed \/ Reboot

DeploymentNext ==
    \/ \E n \in Releases : Deploy(n) \/ \E w \in {"up", "down"} : ByHand(w, n)
    \/ Migrate /\ UNCHANGED switchVars
    \/ Switch

DeploymentSpec == DeploymentInit /\ [][DeploymentNext]_allVars

-----------------------------------------------------------------------------
(* Properties. *)

\* What a unique key that was added again leaves behind, until the script that
\* drops the key stumbles over it.
Copies == {<<"users", "friendlyName_2">>, <<"users", "friendlyName_3">>}

IsReleased(n) ==
    \/ schema = Built[n]
    \/ <<"users", "friendlyName">> \in Built[n] /\ schema \ Copies = Built[n]

\* A server is started by a deployment on the schema of its release, or of a
\* later one that was there already: also after runs of the migrations that
\* were broken off, which later runs repair or fail on.  The ways to be wrong,
\* which the next run up does not see, are a record that was not written, a
\* run down that was broken off, and a later release's migration that was
\* broken off before this older one was deployed.
StartsOnItsSchema ==
    [][/\ at = "start" /\ at' = "delete"
       /\ unwritten = {} /\ torn = {} /\ \A m \in cut : m <= release
       => \E n \in release..Len(Scripts) : IsReleased(n)]_allVars

\* No step of a deployment, and none of its failures, leaves the site without
\* a server if it had one.
SiteStaysUp ==
    [][servers # {} /\ ~Reboot => servers' # {}]_allVars

\* A deployment that succeeds leaves its own server alone to run and the link
\* on it, whatever earlier ones that failed half way left behind; and so it
\* stays, over restarts of the host.
SuccessRepairs ==
    at = "succeeded" => servers = {target} /\ current = target

=============================================================================
