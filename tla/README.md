# A specification of bbctl

`bbctl` deploys storage pools to AWS. It reads `<name>.bbctl.yaml`, renders one
terraform stack per part of the deployment (the network, the pools, the mgmt
plane), drives terraform over them in order, and keeps everything else it needs
in AWS: terraform's state in an S3 bucket, the node secret in an SSM parameter.
It also manages the config file, forwards ports, and serves a dashboard.

This directory holds TLA+ modules that model it, TLC configurations that check
them, and proofs that TLAPS checks.

## 1. The system

| Component | Source | State it keeps | Operations | Works with |
|---|---|---|---|---|
| deployment commands | `internal/deploy`, `internal/cli/deploy.go`, `internal/tf/run.go`, `internal/awsx/state.go` | rendered stacks, plan files and preview under `.bbctl/<name>`; terraform state, lock objects and bucket in S3 | `plan`, `apply`, `destroy`, `destroy --purge` | terraform (child process), S3, node secret, config |
| node secret | `internal/awsx/secrets.go`, `internal/cli/secrets.go` | one SSM parameter | `secrets generate/set/get/list/delete`, `apply`'s `ensureSecrets` | SSM |
| pool commands, config file | `internal/cli/pool.go`, `internal/config/config.go` | `<name>.bbctl.yaml`, staged copies of it | `pool add/remove/list` | deployment commands |
| module cache | `internal/tf/modules.go` | `modules/<sha>`, `modules/<sha>.tmp`, `modules/refs/*` in the user's cache | `EnsureModules` (every command that renders) | GitHub |
| terraform install | `internal/tf/install.go`, `internal/cli/init.go` | the terraform binary in the cache | `EnsureTerraform`, `init` | releases site |
| node status and wait | `internal/cli/nodes.go`, `internal/awsx/nodes.go` | none | `status`, `status --wait`, `exec`, `connect` | EC2, SSM |
| forwards and sessions | `internal/cli/ui.go`, `mgxcli.go`, `internal/awsx/session.go` | child processes and local ports | `ui`, `cli` | SSM sessions |
| dashboard server | `internal/dash/*.go` | sessions, tokens and scheme of each gateway, a cache of answers | HTTP handlers | forwards, gateways |
| dashboard page | `internal/dash/web/app.js` | the shown view | refresh, filters, actions | dashboard server |
| config create, schema, discovery | `internal/config`, `internal/cli/config.go`, `internal/awsx/discover.go`, `amis.go` | `<name>.bbctl.yaml` | `config create/list/delete`, validation, free subnets, latest AMI | EC2, cost estimate |
| storage class | `internal/cli/sc.go` | none | `sc` | config |
| rendering | `internal/render` | stack directories | `Write`, `WriteLocal` | deployment commands |
| cost estimate | `internal/estimate` | none | `Run` | the calculator on backedblock.io, `config create` |
| output and progress | `internal/ui` | the progress line | `Result`, `Confirm`, spinner | all commands |

What is hard about it, and hard to test:

* Commands last minutes, ask questions in the middle and can stop at every call.
  Each must be safe to run again from wherever the last one stopped
  (`README.md:269`).
* Between what a user approves and what terraform does there are three files
  (config, rendered stack, plan file) and one remote object (the state) that
  others write to.
* A state object that is missing must be told from one that could not be read:
  taking the second for the first makes a destroy forget what exists.
* Two users, or two terminals of one user, work on one deployment. What keeps
  them apart is terraform's lock and stale-plan check, a shared name for a
  temporary directory, or nothing.
* Nothing but an approved command may write to AWS; `plan` may not even take a
  lock.

What makes each component correct:

| Component | Properties |
|---|---|
| deployment commands | they implement the abstract deployment: a stack is changed only by what its user approved, on what it was made from, by one writer; nothing before an approval; `plan` is read-only; the network goes last; success means done; nothing that exists is lost track of; state is purged last; re-running converges |
| node secret | an existing secret is not replaced by `apply`; `set` keeps the other keys; what `set` was given is what nodes read; a complete secret stays complete |
| pool commands | a config change is not lost; a destroyed pool is not listed; nothing is destroyed unless the new config could be written |
| module cache | a directory it returns holds the whole commit; a crash does not poison the cache; a commit is downloaded once |
| status and wait | wait ends, with the right verdict; `exec` succeeds only if the command did on every node it was for |
| forwards | a pool is shown its own data; a session that ended is started again; the command ends if the first connection never comes |
| dashboard server | an answer has all that each pool answered, under that pool, at its time, or a warning; a scheme change is survived |
| dashboard page | an old answer never replaces a newer one |
| config create | proposed subnets are inside the VPC, disjoint, as large as fits; the proposal is valid; the command ends |

`PROJECT.json` lists the components with what is modelled of each, and every
hazard at its line with the properties that would catch it going wrong.

## 2. Modules

| Module | Models | Extends |
|---|---|---|
| `Deploy` | the deployment commands | |
| `DeployProofs` | theorems about `Deploy` | `Deploy` |
| `Deployment` | what the deployment commands promise: the abstract specification | |
| `DeployRefinement` | how `Deploy` implements `Deployment` | `Deploy` |
| `DeployRefinementProofs` | the theorem that it does | `DeployRefinement` and the proofs it rests on |
| `Nodes` | `status`, `status --wait`, `exec`, `connect`, `cli` | |
| `NodesProofs` | theorems about `Nodes` | `Nodes` |
| `Ui` | `bbctl ui`: the port forwards, and whose data is shown | |
| `UiProofs` | theorems about `Ui` | `Ui` |
| `Panels` | the answers of the dashboard's server | |
| `Secrets` | the node secret and its format | |
| `PoolConfig` | `pool add` and `pool remove` with the config file | |
| `PoolProofs` | theorems about `PoolConfig` | `PoolConfig` |
| `ModuleCache` | `EnsureModules` | |
| `Dashboard` | the page's refresh loop and the server's sessions | |
| `DashboardProofs` | theorems about `Dashboard` | `Dashboard` |
| `ConfigCreate` | `config create` with `FreeCIDRs`, `Subnets` and `Validate` | |
| `CreateProofs` | theorems about `ConfigCreate` | `ConfigCreate` |
| `OneUser` | `PoolConfig`, `Secrets`, `ModuleCache` and `Panels` side by side, for one user | `PoolConfig` |
| `OneUserProofs` | theorems about `Secrets`, `ModuleCache` and `Panels` in it | `OneUser`, `PoolProofs` |
| `MCDeploy`, `MCSecrets`, `MCModuleCache`, `MCDashboard`, `MCConfigCreate`, `MCNodes`, `MCUi`, `MCOneUser` | their instances for TLC | |

`Deploy` abstracts the secret to its existence and a pool change to `EditConfig`;
`Secrets` and `PoolConfig` are the detail of the one and of the other, and
abstract in turn what `Deploy` details. `ConfigCreate` writes the file that `PoolConfig`
and `Deploy` start from. `Nodes` has the look at a stack's nodes that `Ui` begins with in one
step (`Look`); `Ui` has the way a query takes that `Panels` takes for granted, and `Dashboard`
has who may ask and what the page does with the answer.


A run is kept for each question worth asking again whenever a module changes. Variants of an
instance (a third stack, a second user, other verbs) are a matter of its cfg's
constants.
## 3. Deploy: the deployment commands

### State and actions

| Variable | In the code |
|---|---|
| `config` | `<name>.bbctl.yaml`; edited at any time (`EditConfig`) |
| `bucket` | the state bucket and the two settings `EnsureStateBucket` makes |
| `secret` | whether the node secret exists (its content is the business of `Secrets`) |
| `cloud[s]` | what stack `s` is made of in AWS: nothing, some complete content, or `Partial` |
| `state[s]`, `serial[s]`, `lock[s]` | terraform's state object, its version, its lock object |
| `rendered[d][s]`, `preview[d]`, `planFile[d][s]` | `main.tf.json`, `preview/network`, `bbctl.tfplan` in working directory `d` |
| `pc`, `cmd`, `todo`, `noState`, `approved`, `work` | where a process is; verb, config read and `--stack`; stacks left; `Deployment.noState`; the map `approved` of `Apply`; the plan at hand |
| `granted` | history: every plan the user of that command said yes to |

One action is one call that can fail on its own or that others can come in
between: `HeadBucket`, `CreateBucket`, `PutVersioning`, `BlockPublic` for
`EnsureStateBucket`; `StartPlan`, `WritePlan`, `ShowPlan` for `terraform plan
-out` and `terraform show`; `ApprovePlan` for the prompt; `StartApply`,
`ApplySome`, `ApplyDone`, `ApplyFailed` for `terraform apply`. The guards are the
code's conditions: which commands accept a missing bucket (`Prepare`), when a
stack is skipped by a destroy (`Next1`), when a plan needs no question
(`ShowPlan`), where the command goes after `Render`.

Terraform is external. It is modelled by what `bbctl` relies on: a plan is made
from the refreshed state and carries the version it was made from; apply takes
the lock and refuses a plan of another version; an apply can stop anywhere and
then saves what it did, unless it is killed, when the state may be old and the
lock object stays. AWS refuses to delete a network with nodes in it.

Data is abstract. A stack is a member of `Infra`; a config is what it wants of
each stack; a plan is a pair of contents, and what a plan *shows* (`Summary`) is
the sets of addresses added, changed and destroyed, so that two plans may show
the same and differ.

### Runs

| Run | Instance | Asks |
|---|---|---|
| `DeployOneMachine` | one machine, 2 stacks, 2 configs, all verbs, every call may fail | `TypeOK`, `AppliedAsApproved`, `InfraIsTracked`, `NetworkGoesLast`, `SuccessMeansDone`, `NothingBeforeApproval`, `PlanTouchesNothing` |
| `DeployTwoMachines` | two processes with directories of their own, one stack, apply / destroy, `kill -9` at any point | `ImplementsDeployment` |
| `DeployConverge` | one machine, 2 stacks, fairness | `ApplyConverges`, `PurgeConverges` |
| `DeploySharedDir` | two processes in one directory, two configs | `AppliedAsApproved`: violated |
| `DeployPurgeDropped` | a config edit drops a stack | `PurgedOnlyWhenGone`: violated |

Bounds. A command only compares a stack's content with what is wanted and with
what was there, so three contents suffice: `v1` and `v2` show the same in a
summary, `v3` has one resource more. Two stacks are enough for every
asymmetry between the network and a node stack. Two processes are enough for the
pairwise properties. A state version only has to differ from those that plans in
existence were made from, so `Serials` is finite without bounding the number of
applies (`SerialsOK` says how many are needed); no behaviour is cut off by any
bound. Commands may be repeated for ever in every run.

Kills are in `DeployTwoMachines` only. A terraform that is killed in its first
apply leaves resources without a state and, later, a lock object that only
`terraform force-unlock` removes; `InfraIsTracked`, `SuccessMeansDone` and the
convergence properties are therefore claimed of commands that fail or are
interrupted, not of killed ones. `ImplementsDeployment` holds of
killed ones too.

Fairness (`RetrySpec`, only for the two convergence properties): a command that
runs takes its next step or fails (`WF` of `Step \/ Failure`), since nothing in
it waits for another process; and the users start commands without `--stack`
again and again (`SF` of `RunAgain`). `ApplyConverges` and `PurgeConverges` add the rest of
their condition themselves: from some time on only that command is run and a
call that could succeed does not fail.

Another machine may have another SSH key, and so want another public key of the
same network. To `Deploy` that is a config that was edited in between
(`EditConfig`, possible between any two commands).

### What the runs show

The passing runs: see section 1; each property is stated with the code it is
about in `Deploy.tla`. The two violations are disagreements between the code
and what it says of itself:

1. `DeploySharedDir`. "The real plan is applied without asking again only if it
   is identical" (`run.go:149-150`). `Same` compares addresses and actions, not
   values, and the stack directory is shared by every process of that directory:
   a `plan` of an edited config between the first approval and the real plan is
   enough to apply, unasked, other values than were approved. With a directory
   per process it cannot happen; that is the theorem `AppliedOnlyAsApproved`.
2. `DeployPurgeDropped`. `purgeDeployment` "runs only after every stack is
   destroyed" (`cli/deploy.go:150`): every stack of the config as it is now. If a
   pool was edited out of the file, its resources stay and its state is deleted.

A first apply that fails after `CreateBucket` leaves a bucket without versioning
or without the public access block, and every re-run takes it as it is
(`state.go:22`). The model has this behaviour (the flags in `bucket`); it is listed
under the hazards. `OneWriter` holds only without `--purge`, which deletes lock
objects with the rest; see the hazards.

### Deployment: what it comes to

`Deployment` says in five actions what the commands promise, without files, locks, state
objects or prompts. `agreed[p]` are effects (of which stack, to what, from what) that a
process' user has agreed to; `doing[p]` is the one it carries out; `cloud` is what the
stacks are, and `tracked` whether it is known that there is something of one. A process may
begin an effect only if it was agreed to, the stack is what it starts from, and nobody is at
that stack. It may stop at any point, and what it leaves is then known; only with `Kills` may it
leave `tracked` as it was.

`DeployRefinement` maps `Deploy` to it: `tracked[s]` is a state object that is there and
not empty, `agreed` is `granted`, and `doing[p]` is the effect of the plan at hand while the process
applies; `cloud` is itself. The steps that bear the weight are `StartApply`, which must be a `Begin`
(this is what the state lock and the serial of a plan are for), and the ways an apply can end.
Everything else, bucket, secret, rendering, plans, prompts, is a stutter or an `Agree`.

`ImplementsDeployment` is checked by `DeployTwoMachines` and proved as
`DeployRefinesDeployment`. It implies that only approved plans are carried out, that two
processes are never in one stack, and that no stale plan is taken. `OneWriter` and
`AppliedAsApproved` are parts of it that need less and are proved of more, the second also
with `--purge`, the first also with shared directories. It is safety only: `Deployment` has no fairness, since a command may stop anywhere.

## 4. Secrets: the node secret

`param` is the SSM parameter as it is stored: what stands after the `=` of each
key. A value is a sequence of characters of which only the double quote, the
single quote, the backslash and `<` are told apart, because the format
(`FormatValue`: Go's `%q`; `ParseValue`: quotes trimmed, escapes left) and
`MissingSecrets` tell those apart. `pc`, `cmd` and `next` are a process' place,
its verb and arguments, and what it is about to write. `SetSecrets`,
`GenerateSecrets` and `LeaveAlone` are the read of each command (`read` =>
`put`), `PutSecrets` the write, `CheckSecrets` the second read of `apply`;
every call may fail (`Fail`), and the question of `apply` lies between the read
and the write.

| Run | Instance | Asks |
|---|---|---|
| `OneUser` (component `secret`) | one process, two keys, values with quotes, backslashes and `<` at either end and in the middle, a limit that long values hit | `ExistingKept`, `SetKeepsSecret`, and the types and the limit in `TypesOK` |
| `SecretsBackslash` | one process, a value with a backslash | `SetKeepsOthers`: violated |

Bounds. Two keys: one that is set and one that is kept. The limit is on a value
rather than on the parameter; it is there because a backslash is doubled by
every `set` and the value would grow for ever, until SSM refuses it.

What the violation shows: a single `set` changes another key's value if that has a
backslash in it ("keeping the others", `cli/secrets.go:78`), since the escapes
that are written are not undone when it is read. Of the parts of
`SetKeepsSecret` two, that other values are kept and that what was given reads back,
are claimed only of values without quotes and backslashes for the same reason. What
holds for every value is the third: no other key becomes missing.

With two processes `ExistingKept` and `SetKeepsSecret` fail as well: an `apply` or
a `generate` replaces a secret that another command created after it looked
(`cli/deploy.go:264`), and two `set`s lose one of them. These are listed under the hazards;
exchange `Procs` in the cfg to see them.

## 5. PoolConfig: pool add, pool remove and the config file

| Variable | In the code |
|---|---|
| `file` | `<name>.bbctl.yaml`: its pools, whether it has a mgmt section, the rest |
| `bucket` | whether there is a state bucket (`StateBucketExists`) |
| `built[q]`, `peers` | a pool's stack in AWS; the pools mgmt was last told of |
| `pc`, `cmd`, `cfg`, `staged`, `todo` | a process' place, command, the `Config` it read, the temporary file of `Stage`, the stacks an apply still has to do |
| `removed` | history: the pools `pool remove` took out of the file |

`Start...` are the beginnings of the commands up to the read of the file with
their early returns; `Prepare`, `Stage`, `DestroySome`/`DestroyPool`, `Commit`, `Reopen`,
`ApplyMgmt` are the steps of `poolRemoveCmd` in their order; `Save` is `pool
add`; `CreateBucket`, `Prepare` and `ApplySome`/`ApplyPool`/`PoolsApplied` stand for `bbctl apply`, whose detail
is in `Deploy`; `EditFile` is the user's editor.

`pool remove` wants the state bucket, for itself and again for the mgmt apply after it
(`BucketRequire`): on a deployment that was never applied it is refused, and the file stays as it is. The guards of
`Prepare` and `Reopen` say so; with them `Fail` is the only way on. Only `apply` makes the
bucket.

A command can fail, be refused or be interrupted at any step (`Fail`): bbctl gives back control,
terraform saves its state and gives back its lock. A `kill -9` is not modelled here. It would
leave a lock object that refuses every later plan (`run.go:143` of `tf`), and in a pool's first apply
resources without a state object, which the destroy of a later `remove` skips as never applied
(`run.go:204-210` of `deploy`). `Deploy` has kills, and excludes them from the corresponding properties.

| Run | Instance | Asks |
|---|---|---|
| `OneUser` (component `pool`) | one process, two pools, an editor, fairness | `TypesOK`, `UpIsListed`, `RemovedStaysRemoved`, `StagedFirst`, `RemoveMeansGone`, `RemoveConverges` |

Fairness (`RetrySpec`; `AllSpec` of `OneUser` states the same): a running command goes on or fails (`WF` per process);
nothing in it waits for others. That somebody who wants a pool gone runs `pool
remove` again and again, that nothing else is run from some time on and that
calls up to the rename which could succeed do not fail is the premise of `RemoveConverges`
(`KeepsRemoving`), not an assumption of the specification. The other premise is `<>bucket`, that the deployment got as far
as its state bucket; without it TLC finds the remove that is refused for ever. The mgmt apply
behind the rename may fail in any run of it: the pool is gone from AWS and from the file by then.

`StagedFirst` is about every step that makes a pool change, the half of a destroy included: it says of
all processes at destroying that pool that each has the config without it on disk.

What is not claimed: the file renamed into place is the one that was read before
the destroy, so what another command or an editor saved in the meantime is
undone without a word. With two users `RemovedStaysRemoved` fails for this reason:
the second `remove` puts the pool of the first back into the file. That is
listed under the hazards; the run has one user.

## 6. ModuleCache: the cached terraform modules

A directory is an inode: `dir[c]` and `tmp[c]` say which inode is called
`<commit>` and `<commit>.tmp`, and `content` which files of it are there, whole or
half written. This is what makes a rename that another process does not notice
expressible: it goes on in the same inode under its new name. `refFile` is the
last resolution of the ref, `head` what the ref points to on GitHub.
`ResolveRef`, `Fallback`, `TruncateRef`/`WriteRef`, `Look`, `RemoveFile`/`RemoveTmp`
(`os.RemoveAll`), `OpenFile`/`WriteFile` (`download`) and `Rename` are the calls of
`EnsureModules` in their order; `Fail` is an error or a kill at any of them.

| Run | Instance | Asks |
|---|---|---|
| `OneUser` (component `cache`) | one process, two commits, three files of which the last two are below `modules/`, fairness | `TypesOK`, `ReturnedIsComplete`, `NeverDownloadedTwice`, `CacheRecovers` |
| `CacheTwoUsers` | two processes | `ReturnedIsComplete`: violated |

Bounds. Three files are enough for one before, one at and one after the
directory that `os.Stat` looks for. Two inodes per commit are in use at a time,
one called tmp and one called by its name; the processes hold no others for long.

Fairness (`RetrySpec`; `AllSpec` of `OneUser` states the same): commands are started again and again and go on once
started. `CacheRecovers` assumes that from some time on calls that could succeed do.

What the violation shows: `<commit>.tmp` is shared by all processes of a user, so a
second command can remove files of a directory the first has just renamed into
the cache, and since the cache is recognised by one subdirectory it stays broken.

The ref file is written by truncating it. A kill at that place leaves an empty
file, which an offline run takes for a resolved commit; the model has this
behaviour, and it is listed under the hazards.

## 7. Dashboard: the page and its sessions

| Variable | In the code |
|---|---|
| `sessions` | `Server.sessions`, in memory only |
| `cookie` | the browser's session cookie |
| `page` | which section is visible: neither yet, `login`, `main` |
| `form`, `out` | where a login and a logout are: sent, served, or idle |
| `sel` | `location.hash` and `state.range`: the tab and what it is asked for |
| `shown[v]` | what the section of view `v` was last drawn from |
| `loops` | every refresh in flight and every timer pending, oldest first |
| `armed` | `state.timer` is the last timer of `loops`, or none |

`Select`, `Pick`, `LoginSend`, `LogoutSend`, `Load` and `Reload` are what the user
does; `LoginServe`, `LogoutServe`, `Answer` and `Restart` are the server; `LoginEnd`,
`LogoutEnd`, `Arrive` and `Fire` are the continuations of the page after an `await`
and its timer. JavaScript runs each of them without interruption, so each is one
action; what comes in between is the point of the model.

Abstract. A view shows the selection it was asked for, whatever the numbers. A
refresh is a request for the data and, for views with charts, a second one.
Timers have equal delays and fire in the order in which they were armed. An
answer is data, 401, or an error, which includes a lost connection. Gateways are
outside: they let a login in or not.

| Run | Instance | Asks |
|---|---|---|
| `DashboardPage` | one view, two queries, one session id, at most 3 refreshes and timers, fairness | `TypeOK`, `KeepsRefreshing`, `LoopsMerge`, `SelectionSettles`, `LoginIsQuiet` |

Bounds. `MaxLoops` is 3 because `stopRefresh` knows only the last timer: with two
loops one timer can go unnoticed, with three a timer can lie between two others.
It only stops the user from selecting and picking, never an answer or a timer.
One session id is enough for a session that ends while requests with its
cookie are under way; an id is given out again only when nothing holds it.
The properties were also run with two ids.

Fairness (`LoopSpec`): `WF` of `Oldest`. Requests have timeouts and timers fire, so
what is oldest comes to its end. Users need not do anything.

`LoopsMerge` assumes that from some time on the user leaves the page alone
(`Undisturbed`) and calls take less than `REFRESH_MS` (`Prompt`); then, however many
loops were going, one is left, since a refresh clears the last timer when it
starts. `SelectionSettles` assumes an undisturbed page and no errors,
`LoginIsQuiet` a login that stays, with no session behind it, and no errors. What the
code does not promise is not claimed: a 401 to an old cookie that arrives
after a new login shows the login again, a logout that failed leaves the session
alive, and between two refreshes an overtaken answer may be drawn.

## 8. ConfigCreate: config create

| Variable | In the code |
|---|---|
| `vpc` | the CIDR blocks of the VPC that `chooseVPC` settled on |
| `subnets`, `main` | the VPC's subnets in AWS with the table each is associated with, and what its main route table says |
| `file` | `NAME.bbctl.yaml` |
| `pc` | where the command is |
| `pools`, `azs` | what `sizeWorkload` and the AZ question gave |
| `seen`, `public` | the subnets `Subnets` read; those it marks public |
| `try`, `blk`, `at`, `got` | the loop variables of `FreeCIDRs`: size, block of the VPC, address; what it has |
| `nat` | the subnet of the NAT gateway |

`Create` is the command up to the VPC, `SizeWorkload` and `SettleAzs` what it asks next,
`DescribeSubnets` and `DescribeRouteTables` the two calls of `Subnets`, between
which others may change the VPC; `NextBlock`, `TryAddress`, `Shrink`, `NoRoom` and `Carved` are the
loops of `FreeCIDRs`; `ChooseNat` and `NoPublicSubnet` the NAT gateway; `Save` is the
config, `Validate` and the file. `Fail` is an error or an interrupt anywhere.
`AddSubnet`, `RemoveSubnet` and `ChangeMainTable` are other users of the account.

Abstract. Addresses are counted in /24s, the smallest blocks that are proposed, so
a size is a number of them and a smaller foreign subnet takes the whole /24 it
lies in. AWS keeps the subnets of a VPC apart and its blocks are powers of two; all that
the module assumes of it is that a size that is not larger than a block divides it
(`CreateConstants`). A NAT subnet that is given is not checked by the code and may be
any subnet. Of `Validate` there is what depends on the command's choices.

| Run | Instance | Asks |
|---|---|---|
| `ConfigCreate` | four VPCs of one and two blocks, sizes 4, 2, 1, one and two AZs, two foreign subnets, fairness | `TypeOK`, `ProposalFits`, `ProposalIsValid`, `LargestThatFits`, `CreateEnds` |

Bounds. Three sizes stand for the five of the code: the first, one in between and the
last. The VPCs are one with room for the largest size, one whose first block is too small
for it, one without room for two AZs, and one that does not start at 0. Foreign subnets
begin at a block's start and in the middle, so a candidate can be taken at its first
and at its last address.

Fairness (`CreateSpec`): `WF` of `Step`. Calls return or fail and questions are answered or
interrupted. Nobody has to leave the VPC alone: the search is over what was read.

`LargestThatFits` compares the walk with `Free`, which finds the free blocks by their
definition: all multiples of the size in every block that overlap no subnet.

## 9. Nodes: status, exec, connect and cli

| Variable | In the code |
|---|---|
| `nodes[s]` | the `instance_ids` output of stack `s` |
| `inst`, `prov`, `online` | each instance in EC2, what its `mgx-*` association last reported, whether its SSM agent answers |
| `ran` | each node's invocation of the command that `exec` sent |
| `pc`, `cmd` | the command, its node and its stack, and where it is |
| `at`, `ids`, `found`, `view` | a look: the stack, the ids still to be asked about, what EC2 and SSM knew of them, what was seen so far |
| `results`, `deadline` | the results of `exec`; the deadline of `--wait`: not set, ahead, past |
| `stayed`, `proved`, `said`, `flawless` | history of the look under way: nodes that were there all the time, those of them that had reported success, what was reported, whether all was well throughout |

A look is `ReadOutputs` (`StateExists` and `terraform output`), `Describe`,
`Agents` and one `Provision` per node, stack after stack, each a call that others
come in between. `Verdict` is the body of the loop of `waitProvisioned`, `Sleep` the
pause before the next look. `FindInstance`, `Resolve` and `Pick` are
`target.resolve`; `Send`, `Wait` and `Result` are `Client.Exec` with the exit code.
`Abort` is an error of any call, or Ctrl-C. The world goes on meanwhile: an apply
replaces nodes (`Reapply`), a node reports (`Report`), its agent comes and goes
(`Agent`), an instance is terminated by hand (`Vanish`).

| Run | Instance | Asks |
|---|---|---|
| `NodesOneUser` | two stacks, the second of them mgmt, two ids, one command from start to end | `TypeOK`, `WaitVerdict`, `ExecVerdict`, `CommandsEnd` |

Bounds. Two ids are one node in each stack, or two in one of which the last or the
first is the one that fails; a node that is replaced by a new one needs one more id than
there are nodes, which the stacks with fewer than two have. One command at a time: they
only read, so two commands do not meet, apart from `exec`, whose invocations are its
own. A wait looks any number of times.

Fairness: `WF` of the command's steps and of the clock. Calls return, and time
passes. Nodes need not do anything; `Reapply` and `Vanish` can go on as long as there
are ids.

What `WaitVerdict` does not say. An instance that EC2 no longer knows is left out
of the look (`awsx/nodes.go:76`), so `--wait` may succeed for a stack that has lost
a node, although it is "true when at least one stack is applied and every node of
every applied stack reports Success" (`cli/nodes.go:118`). The property therefore speaks
of the nodes that were in their stack and in EC2 all through the look. And any error of a
single look ends the wait (`cli/nodes.go:112`). Nothing is said of what becomes true
after a look.

## 10. Ui: port forwards

| Variable | In the code |
|---|---|
| `phase` | `look` for nodes, `open` the forwards, `serve`, `failed`, `ended` |
| `left`, `shown`, `mgmt` | the loop over pools in `uiConfig`, `shown`, and whether there is a `mgmtNode` |
| `port[f]`, `open[f]` | `local` of each `forward`, and how far it has got |
| `exited[f]` | the channel `exited` |
| `holder[q]` | who listens at a local port: a forward's child, another program, nobody |
| `late` | the 60 seconds of `forward` are over |
| `asked`, `todo`, `from`, `bad` | a request: its pool, the queries without answer, whose series came, whether one failed |
| `calm` | from here on no session drops, no other program takes a port, nobody presses Ctrl-C |

`PickPort`/`NoFreePort` are `freePort`; `Listen` is the goroutine that keeps `bbctl
connect --forward` running, at its first start and at every other; `Drop` is the end of a
session; `Dial`, `Exit`, `Deadline` and `Again` are the probe and the three ways out
of its `select`; `Opened` is the `WaitGroup` and the look at the errors. `Request`, `Query`,
`QueryFails` and `Answer` follow one pool of a request through whatever listens at the
port at that moment: the pool's own Prometheus, which has one pool's series, or
mgmt's, which has all and is asked with a label.

| Run | Instance | Asks |
|---|---|---|
| `UiOneUser` | two pools with metrics, a mgmt plane, at most three forwards, three ports, one other program, two queries | `TypeOK`, `PoolsOwnData`, `NothingHangs`, `ForwardsRecover` |

Bounds. Three forwards are the gateway's and two pools', or the gateway's and mgmt's.
Three ports are enough for each to have one and for two to be given the same.
One other program takes one port at a time. `late` is one clock for all forwards, which
start together; each notices it when it comes to its `select`. Ports that nobody was
given yet are interchangeable and are given out in order.

Fairness. The command's steps, the clock, the child of each forward (it is
restarted after two seconds as long as `bbctl` runs) and the answer to a request
(its client has a timeout) happen in the end. Neither sessions nor other
programs are assumed to behave: `ForwardsRecover` has as its premise that they
do from some time on (`calm`) and that each forward has its port to itself.

What is not claimed. `freePort` gives its port back before the session has it. If two
forwards are given one port, or another program takes it, the probe counts the
forward as open, whoever answers. `PoolsOwnData` holds through every drop, restart and takeover,
and also if a pool's forward was given the gateway's port: then its queries fail. It has one
exception (`ApartProms`), two pools' own Prometheus forwards given one port, of which one is then shown the
other's data; with mgmt's Prometheus there is no exception, since the label tells the pools apart. A
program that takes a port for good keeps a forward down. `TypeOK` and `PoolsOwnData` are proved for any number of
pools, ports and queries (`UiProofs`). When one forward fails
`bbctl` exits, and the children of the others live on (`cli/ui.go:177`).

## 11. Panels: the answers of the dashboard's server

A request is one of eight: the tables (overview, cache, volumes, snapshots), the
charts of picked nodes and picked volumes, and the quick values and panels of one
host. `Ask` is the beginning of its handler up to a refusal, `Reply` all queries of one
pool, `AnswerTable`, `AnswerChart` and `AnswerHost` what the handler puts together.
The pools answer in any order; one that has no metrics or that failed answers with
`Failed`. In between there are the pure parts, as operators: `Start`, `End` and `Step`
(`window`), `Grid`, `Values` (`addLine`), `NodeRows`, `Raids`, `RaidRows`, `MountRows`,
`VolumeRows`, `SnapshotRows`, `Lines` (`drawPanel`), `Down` (the tiles).

`AnswerIsComplete` compares the answer with a definition that does not go through rows
and grids: each node anything knows has one row; a RAID is down if and only
if one of its disks says so, in whatever order they come; a device is down once however
many of its mounts are; every value Prometheus has is drawn at its time, and no other; and
a pool whose queries failed has a warning and no rows. For snapshots and for the quick values of a host
only the warnings are compared: their rows are what the model's handler says, and no more is shown of them.

It is checked as the component `views` of `OneUser` (below). Bounds. One pool answers
with everything it may (`Rich`), one with nothing, one has no metrics, and a fourth name
is nobody's; since rows are made pool by pool, a second varied pool adds nothing. Two nodes, two
items, at most two disks (`MaxDisks`). A series may have every value of its window, only the first or only the
last (`Gaps`). `Times` and `Ranges` give windows that are too short and too long, that
end now, are cut off at now and lie ahead, and steps that divide the window and that do not; time
is counted so that a chart has three points rather than 300 and the finest step is 2 rather than 15.

`window` takes ?to= only as far as now has come, so a window may be shorter than the minute its
comment speaks of, and one that is still to come ends before it starts: Prometheus
refuses it and every pool is warned about. That is a comment about what is asked for, and
the page does not ask for the future, so it is no finding.

### One user: the run of the small components

`PoolConfig`, `Secrets`, `ModuleCache` and `Panels` share nothing but the user. `OneUser`
instantiates them side by side; a behaviour of it is one of one component, the others
standing still, so one search asks of each what a search of its own would, and no
interaction is claimed.

| Run | Instance | Asks |
|---|---|---|
| `OneUser` | each component with one process and the bounds of its section | `TypesOK`, `UpIsListed`, `RemovedStaysRemoved`, `StagedFirst`, `RemoveMeansGone`, `RemoveConverges`; `ExistingKept`, `SetKeepsSecret`; `ReturnedIsComplete`, `NeverDownloadedTwice`, `CacheRecovers`; `AnswerIsComplete` |

## 12. What is proved

All proofs are for every value of the constants that satisfies the named
assumptions of the modules (`ConstantsOK`, `NullsOK` and `SerialsOK` of `Deploy`, `PoolConstants`,
`CreateConstants`, `UiConstants`, `NodesConstants`, `DashboardConstants`, and `OneUserConstants`, which
is those of `Secrets`, `ModuleCache` and `Panels`): any number of stacks, processes, directories,
configs and contents, any VPC and any subnets, any number of forwards, ports, nodes, commits, files
and keys, secrets of any length, charts of any number of points. TLC evaluates the assumptions for the
instance of each run.

Every invariant and every action property of a passing run is the subject of a theorem.

| Theorem | Module | Says | Assumes |
|---|---|---|---|
| `TypeCorrect` | `DeployProofs` | `[]TypeOK` | |
| `AppliedOnlyAsApproved` | `DeployProofs` | `[]AppliedAsApproved` | a directory per process (`Exclusive`) |
| `ApprovalComesFirst` | `DeployProofs` | `NothingBeforeApproval` | |
| `PlanIsReadOnly` | `DeployProofs` | `PlanTouchesNothing` | |
| `OneWriterPerStack` | `DeployProofs` | `[]OneWriter` | no `purge` among the verbs |
| `LostIsLocked` | `DeployProofs` | `[]TrackedOrLocked` | no `purge` |
| `InfraTracked` | `DeployProofs` | `[]InfraIsTracked` | no `purge`, no kills |
| `InfraTrackedAlone` | `DeployProofs` | `[]InfraIsTracked` | `Alone`, `NothingDropped`, no kills |
| `NetworkLast` | `DeployProofs` | `[]NetworkGoesLast` | `Alone`, `NothingDropped`, no kills |
| `SuccessIsDone` | `DeployProofs` | `SuccessMeansDone` | `Alone`, `NothingDropped`, no kills |
| `PurgedWhenGone` | `DeployProofs` | `PurgedOnlyWhenGone` | `Alone`, `NothingDropped`, no kills |
| `DeployRefinesDeployment` | `DeployRefinementProofs` | `Spec => ImplementsDeployment` | `Exclusive`; no `purge` among the verbs |
| `PoolTypeCorrect` | `PoolProofs` | `[]TypeOK` of `PoolConfig` | |
| `StagedBeforeDestroyed` | `PoolProofs` | `StagedFirst` | |
| `NothingOrphaned` | `PoolProofs` | `[]UpIsListed` | one process at a time (`OneUser`) |
| `RemovedForGood` | `PoolProofs` | `[]RemovedStaysRemoved` | one process at a time (`OneUser`) |
| `RemovedEverywhere` | `PoolProofs` | `RemoveMeansGone` | one process at a time (`OneUser`) |
| `CreateTypeCorrect` | `CreateProofs` | `[]TypeOK` of `ConfigCreate` | |
| `CarvedFits` | `CreateProofs` | `[]ProposalFits` | |
| `ProposedIsValid` | `CreateProofs` | `[]ProposalIsValid` | |
| `LargestIsFound` | `CreateProofs` | `LargestThatFits` | |
| `UiTypeCorrect` | `UiProofs` | `[]TypeOK` of `Ui` | |
| `PoolsShowOwnData` | `UiProofs` | `[]PoolsOwnData` | (`ApartProms` is its premise) |
| `TypeCorrect` | `NodesProofs` | `[]TypeOK` of `Nodes` | |
| `WaitIsRight` | `NodesProofs` | `[]WaitVerdict` | |
| `ExecIsRight` | `NodesProofs` | `[]ExecVerdict` | |
| `TypeCorrect` | `DashboardProofs` | `[]TypeOK` of `Dashboard` | |
| `NeverStale` | `DashboardProofs` | `[]KeepsRefreshing` | |
| `TypesCorrect` | `OneUserProofs` | `[]TypesOK` | `OneUser` |
| `SecretIsKept` | `OneUserProofs` | `ExistingKept` | `OneUser` |
| `SetIsReadBack` | `OneUserProofs` | `SetKeepsSecret` | `OneUser` |
| `CacheIsComplete` | `OneUserProofs` | `[]ReturnedIsComplete` | `OneUser` |
| `DownloadedOnce` | `OneUserProofs` | `NeverDownloadedTwice` | `OneUser` |
| `NothingIsMissing` | `OneUserProofs` | `[]AnswerIsComplete` | |
* `TypeCorrect`. `TypeOK` is inductive because it says two things beyond types:
  a running process has a command, and at the labels `HasPlan` a plan. The lemma
  `FreshSerial` shows that `NewSerial` always has a version to choose; it rests on
  counting the plans in existence (`FiniteSetTheorems`).
* `AppliedOnlyAsApproved`. `AppliedAsApproved` is not inductive: at `apply` the
  plan is still in a file. The invariant `PlanTied` says what ties the file to the
  approval: from `ApprovePlan` on, the file in the process' own directory holds
  the plan that was granted; before, a summary in `approved` belongs to a granted
  plan of the network, made from nothing, of what the directory still has
  rendered. The last part is where `Exclusive` is needed and where the shared
  directory of `DeploySharedDir` breaks it. It also needs that two plans of one
  stack from nothing with one summary and one wanted content are the same plan.
* `ApprovalComesFirst`, `PlanIsReadOnly`. The invariant `Agreed` says at which labels
  a process has been told yes, and about what: from `apply` on about the stack it is at, at the
  calls that make the bucket about the network. It also says which locks a process has, and at which labels
  its verb cannot be `plan`. `Filed` is needed beside it: in a shared directory the plan at hand may be another
  process', but it is a plan of that stack. So `NothingBeforeApproval` speaks of the process whose
  step it is and of the stack that changes. What the approved plan *says* is `AppliedAsApproved`, and there
  the directories must be apart.
* `OneWriterPerStack`. The invariant `Held`: a process that is applying has the
  lock of the stack it is at. Purging is the only step that takes away a lock that
  is not its own.
* `DeployRefinesDeployment`. The inductive invariant is `Kept`: `TypeOK`, the invariants
  `PlanTied` and `Held` of two theorems before, `Stored` (see the next item), and two more. `Dated`: a plan that
  carries the version a state object has now was made from what that object says,
  wherever the plan is, at hand or in the file. `Settled`: a stack that nobody is at and whose lock is
  free is what its state object says. Both are needed for `StartApply`: `Applicable` compares
  versions and takes the lock, and only with `Dated` and `Settled` do these say that the plan
  starts from what is there. A kill leaves a stack unsettled but locked. That versions in use
  are never given out again is the lemma `SerialExists`. The theorem does not hold with
  `--purge`, which removes locks and versions, nor with shared directories, where a plan
  file may be another process'.
* `LostIsLocked`, `InfraTracked`. `Recorded` is inductive for any number of processes: the
  lock holder is the only one at its stack (`Held`), a state object is in the bucket
  (`Stored`), and what nobody is at is what its state object says, unless its lock was left
  over by a kill (`Settled`). So resources that no state object knows of are never
  without a lock, and without kills there are none but those being applied.
* `InfraTrackedAlone`, `NetworkLast`, `SuccessIsDone`, `PurgedWhenGone`. `Orderly` adds what
  is true of one process: the stacks of the command that are behind it are as it wants them
  (`Progress`, whence `NetworkGoesLast` and `SuccessMeansDone`), its plan starts from what is there
  and leads to what it wants (`Planning`), and a purge is told by its label how far it has come
  (`Purging`). `Alone` is one process at a time: with two, one may build while the other has gone
  past the stack, and a destroy that reports success is then right of a moment that is over.
  `NothingDropped` is assumed because of `DeployPurgeDropped`: if a config edit drops a
  stack, a purge deletes the state of what still exists. It speaks only of verbs with `purge`. A kill in
  a first apply leaves what nobody knows of, so kills are excluded; `LostIsLocked` says what remains
  true with them. `DeployOneMachine` checks the properties under the same three conditions.
* `StagedBeforeDestroyed`. `Staging`: from `Stage` to the rename the staged config
  is the one that was read without the pool, and it lists another pool.
* `NothingOrphaned`, `RemovedForGood`. `Alone` adds what is true of a user who works
  alone: the pools of the file are still those the command read, and at `commit` nothing
  is left of the pool. Neither holds for two users, of whom one may destroy the pool
  that the other's staged config still lists, so `OneUser` is an assumption of the
  theorems and not of the module.
* `RemovedEverywhere`. `Forgetting`: behind the rename the pool is out of the file, and
  mgmt is applied with the file as it is. Two users can edit the file in between.
* `CarvedFits`. `ProposalFits` is not inductive: a candidate below the end of a VPC block
  could stick out of it. `Walk` says that the address is a whole number of blocks into the
  VPC block, and since the size divides the block (`NextMultiple`) the candidate ends in it.
* `ProposedIsValid`. `Settled`: what was carved is two blocks per AZ, and a NAT subnet was
  chosen before anything is saved; the slices of the one and the remainders that deal
  pools out to the AZs are bounded by lemmas on sequences (`SequenceTheorems`).
* `PoolsShowOwnData`. `PoolsOwnData` speaks of complete answers; `OwnData` says the same of
  every series received so far. A query is answered by whoever listens at the port of the
  pool's forward, so the rest of the invariant leads from a port back to its forward: a
  child listens only at the port its forward was given (`TypeOK`), ports are given only to
  forwards that are opened (`Given`), and what is served goes through forwards that all did
  open and so have a port (`Serving`). With `ApartProms` the forward that answers is the one
  asked. `Asking` says that the request is for a pool that is shown and has metrics.

* `LargestIsFound`. `LargestThatFits` counts the free blocks by their definition, the walk
  tries addresses. `Exact` says that what has been carved is what is free among the addresses the
  walk has passed, and `Tried` that no larger size would have done. Each address that is
  stepped over is either not a multiple of the size or taken, and what was carved before never
  blocks a free one (`OnlySubnetsBlock`).
* `WaitIsRight`, `ExecIsRight`. A look takes many steps while nodes come and go, so the invariant says
  of every stack that is behind the look, and of every id that is still to be asked about,
  what has been seen of the nodes that stayed (`SeenInv`), and what has been seen if all were well
  from the beginning (`WellInv`, which gives the timeout its meaning). `SentInv` and `AimInv` are the
  same for `exec`: a node that has been answered for succeeded or the results have a failure,
  and the nodes it was sent to are those it was for.
* `NeverStale`. `LoopInv` with lemmas on lists from which an entry is taken, dropped or moved to
  the end: the timer the page knows of is there to be cleared, and whoever clears it arms another or
  shows the login.
* `CacheIsComplete`, `DownloadedOnce`. `CacheInv`: a directory has one name; what has the name
  of a commit is complete; a download goes on only for a commit that is not there, and every file before
  the one it is at is whole. The types of `ModuleCache` are not inductive without it, since a
  process that writes the ref has a commit only because of where it came from.
  `CacheTwoUsers` shows that all this needs `OneUser`.
* `SecretIsKept`, `SetIsReadBack`. `Held` ties what a command is about to write to what is in the
  parameter: `set` keeps what it was not given, `generate` found nothing. The rest is the
  format: lemmas say what quoting gives and what trimming and cutting leave of it
  (`FormatIs`, `ParseIs`, `ReadBack`), for values of any length. `SecretsBackslash` shows why other values with
  a backslash are excepted.
* `NothingIsMissing`. The state says only that the answer was made from what the pools replied
  (`ViewInv`); the theorem is about the handlers' pure parts. A RAID's verdict is that of
  all its disks in any order (`RaidsAre`), the points of the grid are the times of the window, each once
  (`GridIs`), the division that puts a value on the grid is exact (`ValuesAreDrawn`), and no row of one
  pool replaces another's.

Two parts of these are by induction over data: what `FlattenSeq`, by which a value is quoted, gives
for every sequence, and what `Raids` makes of any number of disks. The induction theorems of the library take an operator,
which the provers cannot instantiate; a set can be given to them instead, so
`OneUserProofs` has a lemma `Induction` on sets of naturals, from the theorem that a well-founded
relation has a minimal element (`WFMin`).

What the proofs have found. Each is an assumption on constants that the models relied on without saying so,
or a definition that could not be reasoned about; none concerns the code.

* `NodesConstants`: an id must not be a position in a list of ids, nor, in `CacheConstants`, a process a mark of a file's
  content, nor, in `SecretsConstants`, `Absent` a secret or a command. In the code these are of different types.
* `CreateConstants`: the blocks of a VPC lie apart, as AWS keeps them. Otherwise one address can be
  carved twice, once in each block.
* `ModuleCache`: see `CacheInv` above.
* `Panels`: the grid of a chart was a sorted set and the disks of a cache a fold of the community modules. They are now, as in the
  code, a loop over the window and a loop over the disks (`Grid`, `Raids`). The replies were three fixed sets; they are
  now any window with the gaps of a constant (`Gaps`).

Checked by TLC only are the properties that need fairness: `ApplyConverges`, `PurgeConverges`,
`RemoveConverges`, `CacheRecovers`, `LoopsMerge`, `SelectionSettles`, `LoginIsQuiet`, `CreateEnds`,
`CommandsEnd`, `NothingHangs` and `ForwardsRecover`. Fairness is `ENABLED`, and that is outside
the provers' reach. The properties of the violation runs are not theorems, of course; what is
true of them under assumptions is (`AppliedOnlyAsApproved`, `PurgedWhenGone`, `CacheIsComplete`,
`SetIsReadBack`).

## 13. What is not modelled, and why

* Contents of rendered files, variables and outputs of terraform: no property
  tells them apart further than by config. The network's outputs are there or
  not (`NetworkApplied`).
* `--auto-approve` is a user who always says yes.
* Terraform's providers, `init` and upgrades of modules: a failing `init` is a failing
  `StartPlan`.
* Formatting of results, help texts, price tables, drawing of the dashboard; the
  text of the queries it sends, the order of rows, the legends and units of its panels.
* The components with status `not_modelled` in `PROJECT.json`, each with its reason.

## 14. Plan

1. `Deploy` (this is the core: everything destructive goes through it), with proofs. Done.
2. `Secrets`, 3. `PoolConfig`, with proofs, 4. `ModuleCache`: done.
5. `Dashboard`: the page's refresh loop with the server's sessions. Done.
6. `ConfigCreate`: the proposal of a config and the search for free blocks, with proofs. Done.
7. `Nodes`: `status --wait`, `exec`, `connect`. Done.
8. `Ui`: the port forwards, with proofs. Done.
9. `Panels`: the answers of the dashboard's server. Done.
10. `Deployment`, which `Deploy` implements, with the proof. Done.

What is left:

* The gateway's scheme (`upstream.go:72`): which of HTTP and HTTPS is used after the gateway
  has changed.
* Proofs: every safety property of a passing run is a theorem. What can be made stronger: more than
  one process in `NetworkLast` and `SuccessIsDone`, by saying which stacks no other command is at;
  `SecretIsKept` and `CacheIsComplete` for commands that overlap but are at different keys or commits;
  kills in `InfraTrackedAlone`, with the lock as the exception, as in `LostIsLocked`.
* `PoolConfig`'s `ApplyPool` and `DestroyPool` as steps of `Deployment`.
