----------------------------- MODULE PoolConfig -----------------------------
(***************************************************************************)
(* `bbctl pool add` and `bbctl pool remove`, with `bbctl apply` and the    *)
(* user's editor beside them: commands that read <name>.bbctl.yaml, work   *)
(* on AWS for minutes and then rename a new version of it into place.      *)
(*                                                                         *)
(* How a stack is planned, approved and applied is the business of Deploy, *)
(* and so are destroy, purges and kills: here an apply or destroy of a     *)
(* pool is done, half done or not begun, and who stops half way has saved  *)
(* the state and given the lock back.                                      *)
(***************************************************************************)
EXTENDS Naturals, FiniteSets

CONSTANTS
  Procs,     \* the bbctl processes
  Pools,     \* pool names
  Rests,     \* what the rest of the config may say (sizes, settings)
  NoConfig,  \* no config read or staged
  NoCmd      \* no command

Configs == [pools : (SUBSET Pools) \ {{}}, mgmt : BOOLEAN, rest : Rests]
Commands == [verb : {"add", "remove", "apply"}, pool : Pools, withMgmt : BOOLEAN]
Stack == {"none", "partial", "up"}

ASSUME PoolConstants ==
  /\ NoConfig \notin Configs
  /\ NoCmd \notin Commands

VARIABLES
  file,     \* <name>.bbctl.yaml
  bucket,   \* whether there is a state bucket
  built,    \* what there is of each pool's stack in AWS
  peers,    \* the pools the mgmt plane knows
  removed,  \* history: pools `pool remove` took out of the file
  pc, cmd,  \* of each process: what it does next, its command
  cfg,      \* the config it has read
  staged,   \* the config in its temp file, ready to be renamed
  todo      \* apply: the pools it has not been through

vars == <<file, bucket, built, peers, removed, pc, cmd, cfg, staged, todo>>

Labels == {"idle", "save", "prepare", "stage", "destroy", "commit", "reopen", "mgmt",
           "apply", "ok", "failed"}

Ended(p) == pc[p] \in {"idle", "ok", "failed"}

TypeOK ==
  /\ file \in Configs
  /\ bucket \in BOOLEAN
  /\ built \in [Pools -> Stack]
  /\ peers \subseteq Pools /\ removed \subseteq Pools
  /\ pc \in [Procs -> Labels]
  /\ cmd \in [Procs -> Commands \cup {NoCmd}]
  /\ cfg \in [Procs -> Configs \cup {NoConfig}]
  /\ staged \in [Procs -> Configs \cup {NoConfig}]
  /\ todo \in [Procs -> SUBSET Pools]
  /\ \A p \in Procs : ~Ended(p) => cmd[p] \in Commands /\ cfg[p] \in Configs
  /\ \A p \in Procs : pc[p] \in {"destroy", "commit"} => staged[p] \in Configs

\* Nothing is built yet; the bucket may be there for another deployment.
Init ==
  /\ file \in Configs
  /\ bucket \in BOOLEAN
  /\ built = [q \in Pools |-> "none"]
  /\ peers = {} /\ removed = {}
  /\ pc = [p \in Procs |-> "idle"]
  /\ cmd = [p \in Procs |-> NoCmd]
  /\ cfg = [p \in Procs |-> NoConfig]
  /\ staged = [p \in Procs |-> NoConfig]
  /\ todo = [p \in Procs |-> {}]

Goto(p, label) == pc' = [pc EXCEPT ![p] = label]

\* The command ends; a temp file that was not renamed is discarded.
Finish(p, result) ==
  /\ Goto(p, result)
  /\ cmd' = [cmd EXCEPT ![p] = NoCmd]
  /\ cfg' = [cfg EXCEPT ![p] = NoConfig]
  /\ staged' = [staged EXCEPT ![p] = NoConfig]
  /\ todo' = [todo EXCEPT ![p] = {}]

-----------------------------------------------------------------------------
(* A command starts by reading the file. *)

Begin(p, c, label) ==
  /\ Ended(p)
  /\ cmd' = [cmd EXCEPT ![p] = c]
  /\ cfg' = [cfg EXCEPT ![p] = file]
  /\ Goto(p, label)
  /\ todo' = [todo EXCEPT ![p] = IF c.verb = "apply" THEN file.pools ELSE {}]
  /\ UNCHANGED <<file, bucket, built, peers, removed, staged>>

StartAdd(p, c) == c.verb = "add" /\ c.pool \notin file.pools /\ Begin(p, c, "save")

\* The last pool cannot be removed.
StartRemove(p, c) ==
  /\ c.verb = "remove" /\ ~c.withMgmt
  /\ c.pool \in file.pools /\ file.pools # {c.pool}
  /\ Begin(p, c, "prepare")

StartApply(p, c) == c.verb = "apply" /\ ~c.withMgmt /\ Begin(p, c, "prepare")

Start(p) == \E c \in Commands : StartAdd(p, c) \/ StartRemove(p, c) \/ StartApply(p, c)

\* A call fails, the config is not valid, the file cannot be written or
\* renamed, the user says no or interrupts, or what the step needs is not there.
\* An interrupted terraform saves its state and gives its lock back.  A kill -9
\* of it is not this: its lock would refuse every later run, and a first apply
\* without a state object counts as never applied.  Deploy has those.
Fail(p) ==
  /\ ~Ended(p)
  /\ Finish(p, "failed")
  /\ UNCHANGED <<file, bucket, built, peers, removed>>

-----------------------------------------------------------------------------
(* Prepare: remove and apply want the state bucket. *)

\* apply creates a missing bucket, once the first deploy is approved; it is there
\* even if the calls that protect it fail.
CreateBucket(p) ==
  /\ pc[p] = "prepare" /\ cmd[p].verb = "apply" /\ ~bucket
  /\ bucket' = TRUE
  /\ UNCHANGED <<file, built, peers, removed, pc, cmd, cfg, staged, todo>>

\* remove is refused without one: nothing is deployed yet.
Prepare(p) ==
  /\ pc[p] = "prepare" /\ bucket
  /\ Goto(p, IF cmd[p].verb = "remove" THEN "stage" ELSE "apply")
  /\ UNCHANGED <<file, bucket, built, peers, removed, cmd, cfg, staged, todo>>

-----------------------------------------------------------------------------
(* pool add *)

With(c, q, mgmt) == [c EXCEPT !.pools = @ \cup {q}, !.mgmt = @ \/ mgmt]

\* Save stages the config and renames it: readers see the old or the new file.
Save(p) ==
  /\ pc[p] = "save"
  /\ file' = With(cfg[p], cmd[p].pool, cmd[p].withMgmt)
  /\ removed' = removed \ {cmd[p].pool}
  /\ Finish(p, "ok")
  /\ UNCHANGED <<bucket, built, peers>>

-----------------------------------------------------------------------------
(* pool remove: stage, destroy, rename, and let mgmt forget the pool. *)

\* Mutant of Without: the pool stays.
WithoutNone(c, q) == c
Without(c, q) == [c EXCEPT !.pools = @ \ {q}]

\* Mutant of Stage: the file is replaced before the pool is destroyed.
StageAndRename(p) ==
  /\ pc[p] = "stage"
  /\ file' = Without(cfg[p], cmd[p].pool)
  /\ staged' = [staged EXCEPT ![p] = Without(cfg[p], cmd[p].pool)]
  /\ Goto(p, "destroy")
  /\ UNCHANGED <<bucket, built, peers, removed, cmd, cfg, todo>>

\* Mutant of Stage: whether the config can be written shows at the end.
StageLate(p) ==
  /\ pc[p] = "stage"
  /\ Goto(p, "destroy")
  /\ UNCHANGED <<file, bucket, built, peers, removed, cmd, cfg, staged, todo>>

Stage(p) ==
  /\ pc[p] = "stage"
  /\ staged' = [staged EXCEPT ![p] = Without(cfg[p], cmd[p].pool)]
  /\ Goto(p, "destroy")
  /\ UNCHANGED <<file, bucket, built, peers, removed, cmd, cfg, todo>>

\* terraform destroy may stop half way; the next run goes on from there.
DestroySome(p) ==
  /\ pc[p] = "destroy" /\ built[cmd[p].pool] # "none"
  /\ built' = [built EXCEPT ![cmd[p].pool] = "partial"]
  /\ UNCHANGED <<file, bucket, peers, removed, pc, cmd, cfg, staged, todo>>

\* Mutant of DestroyPool: a pool that is gone is an error.
DestroyOnce(p) ==
  /\ pc[p] = "destroy" /\ built[cmd[p].pool] # "none"
  /\ built' = [built EXCEPT ![cmd[p].pool] = "none"]
  /\ Goto(p, "commit")
  /\ UNCHANGED <<file, bucket, peers, removed, cmd, cfg, staged, todo>>

\* Done, or there was nothing left to destroy.
DestroyPool(p) ==
  /\ pc[p] = "destroy"
  /\ built' = [built EXCEPT ![cmd[p].pool] = "none"]
  /\ Goto(p, "commit")
  /\ UNCHANGED <<file, bucket, peers, removed, cmd, cfg, staged, todo>>

\* Mutant of Commit: mgmt is not applied again.
CommitOnly(p) ==
  /\ pc[p] = "commit"
  /\ file' = staged[p]
  /\ removed' = removed \cup {cmd[p].pool}
  /\ Finish(p, "ok")
  /\ UNCHANGED <<bucket, built, peers>>

Commit(p) ==
  /\ pc[p] = "commit"
  /\ file' = staged[p]
  /\ removed' = removed \cup {cmd[p].pool}
  /\ IF staged[p].mgmt
     THEN Goto(p, "reopen") /\ UNCHANGED <<cmd, cfg, staged, todo>>
     ELSE Finish(p, "ok")
  /\ UNCHANGED <<bucket, built, peers>>

\* The second deployment is opened on the file as it is now, and prepared.
Reopen(p) ==
  /\ pc[p] = "reopen" /\ bucket
  /\ cfg' = [cfg EXCEPT ![p] = file]
  /\ Goto(p, "mgmt")
  /\ UNCHANGED <<file, bucket, built, peers, removed, cmd, staged, todo>>

\* mgmt finds the pools in the registry they keep in SSM; a half built or half
\* destroyed pool may or may not be there.
Registered == {q \in Pools : built[q] = "up"}
ApplyMgmt(p) ==
  /\ pc[p] = "mgmt"
  /\ IF cfg[p].mgmt
     THEN \E found \in SUBSET Pools :
            /\ Registered \subseteq found
            /\ found \subseteq {q \in Pools : built[q] # "none"}
            /\ peers' = found
     ELSE UNCHANGED peers
  /\ Finish(p, "ok")
  /\ UNCHANGED <<file, bucket, built, removed>>

-----------------------------------------------------------------------------
(* apply: the pools of the config it read, in any order, then mgmt. *)

ApplySome(p, q) ==
  /\ pc[p] = "apply" /\ q \in todo[p]
  /\ built' = [built EXCEPT ![q] = "partial"]
  /\ UNCHANGED <<file, bucket, peers, removed, pc, cmd, cfg, staged, todo>>

ApplyPool(p, q) ==
  /\ pc[p] = "apply" /\ q \in todo[p]
  /\ built' = [built EXCEPT ![q] = "up"]
  /\ todo' = [todo EXCEPT ![p] = @ \ {q}]
  /\ UNCHANGED <<file, bucket, peers, removed, pc, cmd, cfg, staged>>

PoolsApplied(p) ==
  /\ pc[p] = "apply" /\ todo[p] = {}
  /\ Goto(p, "mgmt")
  /\ UNCHANGED <<file, bucket, built, peers, removed, cmd, cfg, staged, todo>>

\* The user edits other parts of the file.
EditFile ==
  /\ \E r \in Rests : file' = [file EXCEPT !.rest = r]
  /\ UNCHANGED <<bucket, built, peers, removed, pc, cmd, cfg, staged, todo>>

Step(p) ==
  \/ CreateBucket(p) \/ Prepare(p)
  \/ Save(p) \/ Stage(p) \/ DestroySome(p) \/ DestroyPool(p) \/ Commit(p)
  \/ Reopen(p) \/ ApplyMgmt(p) \/ PoolsApplied(p)
  \/ \E q \in Pools : ApplySome(p, q) \/ ApplyPool(p, q)

Next == EditFile \/ \E p \in Procs : Start(p) \/ Step(p) \/ Fail(p)

Spec == Init /\ [][Next]_vars

\* Commands that run go on: nothing in them waits for another process.
RetrySpec == Spec /\ \A p \in Procs : WF_vars(Step(p) \/ Fail(p))

-----------------------------------------------------------------------------
(* Properties *)

\* A pool that has anything in AWS is in the config, so that destroy finds it:
\* the file is renamed only when nothing of the pool is left.
UpIsListed == \A q \in Pools : built[q] # "none" => q \in file.pools

\* poolRemoveCmd: "so the config cannot keep listing a destroyed pool".  A pool
\* that remove took out stays out until it is added again.
RemovedStaysRemoved == removed \cap file.pools = {}

\* The processes that are at destroying pool q.
Destroyers(q) == {p \in Procs : pc[p] = "destroy" /\ cmd[p].pool = q}

\* "if it cannot be written, nothing is destroyed": nothing of a pool goes
\* before every process that is at destroying it has a new config, without the
\* pool, on disk; and nobody else makes a pool go.
StagedFirst ==
  [][\A q \in Pools : built'[q] # built[q] =>
       /\ built'[q] = "none" => Destroyers(q) # {}
       /\ \A p \in Destroyers(q) : staged[p] # NoConfig /\ q \notin staged[p].pools]_built

\* pool remove "destroys the pool's stack, removes it from NAME.bbctl.yaml, then
\* re-applies mgmt so it forgets the pool": exit status 0 says all of that.
RemoveMeansGone ==
  [][\A p \in Procs : ~Ended(p) /\ pc'[p] = "ok" /\ cmd[p].verb = "remove" =>
       LET q == cmd[p].pool
       IN /\ built'[q] = "none" /\ q \notin file'.pools
          /\ file'.mgmt => q \notin peers']_vars

\* "re-run `bbctl pool remove` (safe: nothing is left to destroy)": wherever
\* earlier runs stopped, once whoever wants q gone runs `pool remove q` again and
\* again, nobody runs anything else and, up to the rename, calls that could
\* succeed do not fail, q goes from AWS and from the file for good.  Unless it is
\* the only pool left, or the deployment never got as far as its state bucket:
\* then remove is refused.
Removal(q) == [verb |-> "remove", pool |-> q, withMgmt |-> FALSE]

OnlyRemoves(q) ==
  \A p \in Procs :
    /\ ENABLED Step(p) /\ pc[p] \in {"prepare", "stage", "destroy", "commit"} => ~Fail(p)
    /\ Start(p) => cmd'[p] = Removal(q)

KeepsRemoving(q) ==
  /\ <>[][OnlyRemoves(q)]_vars
  /\ WF_vars(\E p \in Procs : StartRemove(p, Removal(q)))

RemoveConverges ==
  \A q \in Pools :
    KeepsRemoving(q) /\ <>bucket
      => <>[](file.pools = {q} \/ (q \notin file.pools /\ built[q] = "none"))

=============================================================================
