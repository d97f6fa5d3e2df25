------------------------------- MODULE Deploy -------------------------------
(***************************************************************************)
(* `bbctl plan`, `apply`, `destroy` and `destroy --purge`: what the        *)
(* commands of one deployment do, step by step, when several bbctl         *)
(* processes run, terraform fails half way and processes are killed.       *)
(*                                                                         *)
(* A deployment is a list of stacks.  Stack 1 is the network, the others   *)
(* are the pools and the mgmt plane, in the order they are applied; they   *)
(* are destroyed from the last to the first.  What a stack is made of in   *)
(* the cloud is a value of Infra; a config is what it wants of each stack. *)
(***************************************************************************)
EXTENDS Naturals, FiniteSets

CONSTANTS
  Procs,      \* the bbctl processes
  Dirs,       \* working directories (.bbctl/<name>, one per machine or user)
  WorkDir,    \* the working directory of each process
  N,          \* stacks are 1..N
  Cfgs,       \* the contents <name>.bbctl.yaml may have
  Want,       \* Want[c][s]: what config c wants stack s to be
  Contents,   \* what a stack may be when it is complete
  NoInfra,    \* the stack has no resource
  Partial,    \* an apply or a destroy of the stack stopped half way
  Addr,       \* resource addresses
  Addresses,  \* the addresses a stack's resources have
  NoState,    \* there is no state object for the stack
  NoPlan,     \* there is no plan file
  NoCmd,      \* the process runs no command
  Free,       \* nobody holds the state lock
  Leftover,   \* the lock's holder was killed; the lock object is still there
  Verbs,      \* the commands the users run
  Kills,      \* whether a process may be killed at any point
  Serials     \* versions of a state object

Stacks  == 1..N
Network == 1
Infra   == Contents \cup {NoInfra, Partial}

\* Plans.  A plan takes a stack from what terraform found (base) to what its
\* configuration wants; a destroy wants nothing.
PlanFiles == [stack : Stacks, want : Infra, base : Infra, serial : Serials]
Commands  == [verb : {"plan", "apply", "destroy", "purge"},
              cfg : Cfgs, sel : SUBSET Stacks]

ASSUME ConstantsOK ==
  /\ N \in Nat \ {0}
  /\ WorkDir \in [Procs -> Dirs]
  /\ Want \in [Cfgs -> [Stacks -> Contents \cup {NoInfra}]]
  /\ \A c \in Cfgs : Want[c][Network] # NoInfra
  /\ NoInfra # Partial /\ NoInfra \notin Contents /\ Partial \notin Contents
  /\ Addresses \in [Infra -> SUBSET Addr]
  /\ \A i \in Infra : (Addresses[i] = {}) <=> (i = NoInfra)
  /\ Verbs \subseteq {"plan", "apply", "destroy", "purge"}
  /\ Kills \in BOOLEAN

ASSUME NullsOK ==
  /\ NoState \notin Infra
  /\ NoCmd \notin Commands /\ NoPlan \notin PlanFiles
  /\ Free # Leftover /\ Free \notin Procs /\ Leftover \notin Procs

\* There is always a version that no plan in existence was made from.
ASSUME SerialsOK ==
  /\ IsFiniteSet(Procs) /\ IsFiniteSet(Dirs) /\ IsFiniteSet(Serials)
  /\ Cardinality(Serials) > Cardinality(Procs) + Cardinality(Dirs) + 1

VARIABLES
  config,     \* <name>.bbctl.yaml
  \* AWS
  bucket,     \* state bucket: {} or a subset of BucketFlags with "exists"
  secret,     \* whether the node secret exists
  cloud,      \* the resources each stack really has
  state,      \* the state object of each stack, as terraform last saved it
  serial,     \* the version (lineage and serial) of that object
  lock,       \* the lock object of each stack's state
  \* the working directories
  rendered,   \* rendered[d][s]: what main.tf.json of the stack asks for
  preview,    \* preview[d]: the same, in the scratch directory preview/network
  planFile,   \* planFile[d][s]: the stack's bbctl.tfplan
  \* the processes
  pc,         \* the next thing the process does
  cmd,        \* its command: verb, config read, stacks selected
  todo,       \* selected stacks it has not been through yet
  noState,    \* Deployment.noState
  approved,   \* the changes approved before the network's real plan is made
  work,       \* the plan being made, shown or carried out
  granted     \* history: every plan the user said yes to in this command

aws    == <<bucket, secret, cloud, state, serial, lock>>
files  == <<rendered, preview, planFile>>
locals == <<cmd, todo, noState, approved, work, granted>>
vars   == <<config, aws, files, pc, locals>>

BucketFlags == {"exists", "versioned", "private"}

StacksOf(c) == {s \in Stacks : Want[c][s] # NoInfra}

-----------------------------------------------------------------------------
(* What a plan does, and what of it is shown for approval *)

\* What a plan does, whatever version of the state it was made from.
Effect(plan) == <<plan.stack, plan.want, plan.base>>

\* tf.PlanSummary: addresses and actions.  The values an update or a create
\* writes are not part of it.
Summary(plan) ==
  LET from == Addresses[plan.base]
      to   == Addresses[plan.want]
  IN [add     |-> to \ from,
      change  |-> IF plan.base = plan.want THEN {} ELSE to \cap from,
      destroy |-> from \ to]

EmptyButChanges(sum) == sum.add \cup sum.destroy = {}  \* mutant: updates do not count
Empty(sum) == sum.add \cup sum.change \cup sum.destroy = {}

\* A version no plan in existence was made from.  Versions are never used
\* twice; a plan only needs to know its own from the ones that come after it.
Outstanding(s) ==
  {planFile[d][s].serial : d \in {d \in Dirs : planFile[d][s] # NoPlan}}
    \cup {work[p].serial : p \in {p \in Procs : work[p] # NoPlan}}

NewSerial(s) == CHOOSE n \in Serials : n \notin Outstanding(s) \cup {serial[s]}

\* terraform refreshes what its state knows of; without state it knows nothing.
Unrefreshed(s) == state[s]                             \* mutant: plan -refresh=false
Refreshed(s) == IF state[s] \in {NoState, NoInfra} THEN NoInfra ELSE cloud[s]

\* AWS refuses to delete a network that instances are attached to, and to
\* create node stacks in a network that is gone.
AwsAllows(plan) ==
  IF plan.stack = Network
  THEN plan.want = NoInfra => \A s \in Stacks \ {Network} : cloud[s] \notin Contents
  ELSE plan.want # NoInfra => cloud[Network] # NoInfra

-----------------------------------------------------------------------------
Labels == {"idle", "secret", "create_secret", "prepare", "render", "preview",
           "show_preview", "ask_first", "head_bucket", "create_bucket",
           "versioning", "block_public", "network_applied", "next", "plan",
           "planning", "show", "ask", "apply", "applying", "ask_purge",
           "purge_objects", "purge_bucket", "ok", "failed"}

Ended(p) == pc[p] \in {"idle", "ok", "failed"}

\* The labels at which work[p] is the plan the process is busy with.
HasPlan == {"ask_first", "planning", "ask", "apply", "applying"}

Summaries == [add : SUBSET Addr, change : SUBSET Addr, destroy : SUBSET Addr]

AwsOK ==
  /\ bucket \subseteq BucketFlags
  /\ secret \in BOOLEAN
  /\ cloud \in [Stacks -> Infra]
  /\ state \in [Stacks -> Infra \cup {NoState}]
  /\ serial \in [Stacks -> Serials]
  /\ lock \in [Stacks -> Procs \cup {Free, Leftover}]

FilesOK ==
  /\ rendered \in [Dirs -> [Stacks -> Infra]]
  /\ preview \in [Dirs -> Infra]
  /\ planFile \in [Dirs -> [Stacks -> PlanFiles \cup {NoPlan}]]

LocalsOK ==
  /\ cmd \in [Procs -> Commands \cup {NoCmd}]
  /\ todo \in [Procs -> SUBSET Stacks]
  /\ noState \in [Procs -> BOOLEAN]
  /\ approved \in [Procs -> SUBSET Summaries]
  /\ work \in [Procs -> PlanFiles \cup {NoPlan}]
  /\ granted \in [Procs -> SUBSET (Stacks \X Infra \X Infra)]
  /\ \A p \in Procs : ~Ended(p) => cmd[p] \in Commands
  /\ \A p \in Procs : pc[p] \in HasPlan => work[p] \in PlanFiles

TypeOK ==
  /\ config \in Cfgs
  /\ AwsOK
  /\ FilesOK
  /\ pc \in [Procs -> Labels]
  /\ LocalsOK

Init ==
  /\ config \in Cfgs
  /\ bucket = {} /\ secret = FALSE
  /\ cloud = [s \in Stacks |-> NoInfra]
  /\ state = [s \in Stacks |-> NoState]
  /\ \E n \in Serials : serial = [s \in Stacks |-> n]
  /\ lock = [s \in Stacks |-> Free]
  /\ rendered = [d \in Dirs |-> [s \in Stacks |-> NoInfra]]
  /\ preview = [d \in Dirs |-> NoInfra]
  /\ planFile = [d \in Dirs |-> [s \in Stacks |-> NoPlan]]
  /\ pc = [p \in Procs |-> "idle"]
  /\ cmd = [p \in Procs |-> NoCmd]
  /\ todo = [p \in Procs |-> {}]
  /\ noState = [p \in Procs |-> FALSE]
  /\ approved = [p \in Procs |-> {}]
  /\ work = [p \in Procs |-> NoPlan]
  /\ granted = [p \in Procs |-> {}]

-----------------------------------------------------------------------------
(* Control flow of a process *)

Verb(p)       == cmd[p].verb
Destroying(p) == Verb(p) \in {"destroy", "purge"}
Dir(p)        == WorkDir[p]

\* Mutant of At: a destroy goes in apply order too.
AtFirst(p, s) ==
  /\ s \in todo[p]
  /\ \A t \in todo[p] : s <= t

\* s is the stack the process is at: the first selected one it has not been
\* through, in apply order or, for a destroy, in reverse.
At(p, s) ==
  /\ s \in todo[p]
  /\ \A t \in todo[p] : IF Destroying(p) THEN t <= s ELSE s <= t

Goto(p, label) == pc' = [pc EXCEPT ![p] = label]

\* The command ends, with exit status ok or failed.
Finish(p, result) ==
  /\ Goto(p, result)
  /\ todo'     = [todo EXCEPT ![p] = {}]
  /\ noState'  = [noState EXCEPT ![p] = FALSE]
  /\ approved' = [approved EXCEPT ![p] = {}]
  /\ work'     = [work EXCEPT ![p] = NoPlan]
  /\ granted'  = [granted EXCEPT ![p] = {}]
  /\ cmd'      = [cmd EXCEPT ![p] = NoCmd]

\* The process is done with stack s and goes on with the next one.
StackDone(p, s) ==
  /\ Goto(p, "next")
  /\ todo' = [todo EXCEPT ![p] = @ \ {s}]
  /\ work' = [work EXCEPT ![p] = NoPlan]
  /\ UNCHANGED <<cmd, noState, approved, granted>>

\* A user starts a command.  --purge cannot be combined with --stack.
Start(p) ==
  /\ Ended(p)
  /\ \E v \in Verbs, sel \in (SUBSET StacksOf(config)) \ {{}} :
       /\ v = "purge" => sel = StacksOf(config)
       /\ cmd'  = [cmd EXCEPT ![p] = [verb |-> v, cfg |-> config, sel |-> sel]]
       /\ todo' = [todo EXCEPT ![p] = sel]
       /\ Goto(p, IF v = "apply" THEN "secret" ELSE "prepare")
  /\ UNCHANGED <<config, aws, files, noState, approved, work, granted>>

\* A call to AWS, to terraform or to the disk fails, or the user answers no.
\* The lock that `terraform plan` took is given back.
Fail(p) ==
  /\ ~Ended(p) /\ pc[p] \notin {"apply", "applying", "purge_objects"}
  /\ Finish(p, "failed")
  /\ lock' = [s \in Stacks |-> IF lock[s] = p THEN Free ELSE lock[s]]
  /\ UNCHANGED <<config, bucket, secret, cloud, state, serial, files>>

\* ensureSecrets: an existing secret is left as it is, a missing one is
\* created once the user agrees.
CheckSecret(p) ==
  /\ pc[p] = "secret"
  /\ Goto(p, IF secret THEN "prepare" ELSE "create_secret")
  /\ UNCHANGED <<config, aws, files, locals>>

CreateSecret(p) ==
  /\ pc[p] = "create_secret"
  /\ secret' = TRUE
  /\ Goto(p, "prepare")
  /\ UNCHANGED <<config, bucket, cloud, state, serial, lock, files, locals>>

\* Mutant of Prepare: --purge, too, needs the bucket.
PrepareNeedsBucket(p) ==
  /\ pc[p] = "prepare"
  /\ "exists" \notin bucket => ~Destroying(p)
  /\ noState' = [noState EXCEPT ![p] = "exists" \notin bucket]
  /\ Goto(p, "render")
  /\ UNCHANGED <<config, aws, files, cmd, todo, approved, work, granted>>

\* Prepare: only plan, apply and --purge accept that there is no state bucket.
Prepare(p) ==
  /\ pc[p] = "prepare"
  /\ "exists" \notin bucket => Verb(p) # "destroy"
  /\ noState' = [noState EXCEPT ![p] = "exists" \notin bucket]
  /\ Goto(p, "render")
  /\ UNCHANGED <<config, aws, files, cmd, todo, approved, work, granted>>

\* Render writes main.tf.json of every stack of the config and leaves the
\* directories of other stacks alone; then the command takes its own way.
Render(p) ==
  /\ pc[p] = "render"
  /\ rendered' = [rendered EXCEPT ![Dir(p)] =
       [s \in Stacks |-> IF s \in StacksOf(cmd[p].cfg)
                         THEN Want[cmd[p].cfg][s] ELSE @[s]]]
  /\ CASE ~noState[p] ->
            /\ Goto(p, IF Verb(p) = "plan" THEN "network_applied" ELSE "next")
            /\ UNCHANGED locals
       [] noState[p] /\ Verb(p) = "purge" ->
            /\ Goto(p, "ask_purge")
            /\ UNCHANGED locals
       [] noState[p] /\ Verb(p) # "purge" /\ Network \in cmd[p].sel ->
            /\ Goto(p, "preview")
            /\ UNCHANGED locals
       [] OTHER ->
            Finish(p, IF Verb(p) = "plan" THEN "ok" ELSE "failed")
  /\ UNCHANGED <<config, aws, preview, planFile>>

-----------------------------------------------------------------------------
(* First deploy: the network is planned in the scratch directory against   *)
(* an empty local state, and the state bucket is part of what is approved. *)

WritePreview(p) ==
  /\ pc[p] = "preview"
  /\ preview' = [preview EXCEPT ![Dir(p)] = Want[cmd[p].cfg][Network]]
  /\ Goto(p, "show_preview")
  /\ UNCHANGED <<config, aws, rendered, planFile, locals>>

ShowPreview(p) ==
  /\ pc[p] = "show_preview"
  /\ IF Verb(p) = "plan"
     THEN Finish(p, "ok")
     ELSE /\ work' = [work EXCEPT ![p] = [stack |-> Network, want |-> preview[Dir(p)],
                                          base |-> NoInfra,
                                          serial |-> serial[Network]]]
          /\ Goto(p, "ask_first")
          /\ UNCHANGED <<cmd, todo, noState, approved, granted>>
  /\ UNCHANGED <<config, aws, files>>

Grant(p) == granted' = [granted EXCEPT ![p] = @ \cup {Effect(work[p])}]

ApproveFirst(p) ==
  /\ pc[p] = "ask_first"
  /\ Grant(p)
  /\ approved' = [approved EXCEPT ![p] = {Summary(work[p])}]
  /\ work' = [work EXCEPT ![p] = NoPlan]
  /\ Goto(p, "head_bucket")
  /\ UNCHANGED <<config, aws, files, cmd, todo, noState>>

\* EnsureStateBucket: nothing is done to a bucket that is there already.
HeadBucket(p) ==
  /\ pc[p] = "head_bucket"
  /\ IF "exists" \in bucket
     THEN /\ noState' = [noState EXCEPT ![p] = FALSE]
          /\ Goto(p, "next")
     ELSE /\ Goto(p, "create_bucket")
          /\ UNCHANGED noState
  /\ UNCHANGED <<config, aws, files, cmd, todo, approved, work, granted>>

\* Not an error if somebody of the same account was faster.
CreateBucket(p) ==
  /\ pc[p] = "create_bucket"
  /\ bucket' = bucket \cup {"exists"}
  /\ Goto(p, "versioning")
  /\ UNCHANGED <<config, secret, cloud, state, serial, lock, files, locals>>

PutVersioning(p) ==
  /\ pc[p] = "versioning" /\ "exists" \in bucket
  /\ bucket' = bucket \cup {"versioned"}
  /\ Goto(p, "block_public")
  /\ UNCHANGED <<config, secret, cloud, state, serial, lock, files, locals>>

BlockPublic(p) ==
  /\ pc[p] = "block_public" /\ "exists" \in bucket
  /\ bucket' = bucket \cup {"private"}
  /\ noState' = [noState EXCEPT ![p] = FALSE]
  /\ Goto(p, "next")
  /\ UNCHANGED <<config, secret, cloud, state, serial, lock, files,
                 cmd, todo, approved, work, granted>>

-----------------------------------------------------------------------------
(* The loop over the stacks *)

\* `plan` goes through the node stacks only if the network has outputs in its
\* state; after a partial apply it may or may not have them.
NetworkApplied(p) ==
  /\ pc[p] = "network_applied"
  /\ \E applied \in BOOLEAN :
       /\ state[Network] \in Contents => applied
       /\ state[Network] \in {NoState, NoInfra} => ~applied
       /\ todo' = [todo EXCEPT ![p] = IF applied THEN @ ELSE @ \cap {Network}]
  /\ Goto(p, "next")
  /\ UNCHANGED <<config, aws, files, cmd, noState, approved, work, granted>>

\* Mutant of Next1: any error of that look is taken for "never applied".
Next1Forgiving(p, s) ==
  /\ pc[p] = "next" /\ At(p, s)
  /\ \/ Destroying(p) /\ StackDone(p, s)
     \/ Goto(p, "plan") /\ UNCHANGED locals
  /\ UNCHANGED <<config, aws, files>>

\* A destroy first looks whether the stack was ever applied.
Next1(p, s) ==
  /\ pc[p] = "next" /\ At(p, s)
  /\ IF Destroying(p) /\ state[s] = NoState
     THEN StackDone(p, s)
     ELSE Goto(p, "plan") /\ UNCHANGED locals
  /\ UNCHANGED <<config, aws, files>>

\* Mutant of AllDone: the purge does not wait for the last stack.
AllDoneEarly(p) ==
  /\ pc[p] = "next"
  /\ IF Verb(p) = "purge"
     THEN Goto(p, "ask_purge") /\ UNCHANGED locals
     ELSE todo[p] = {} /\ Finish(p, "ok")
  /\ UNCHANGED <<config, aws, files>>

AllDone(p) ==
  /\ pc[p] = "next" /\ todo[p] = {}
  /\ IF Verb(p) = "purge"
     THEN Goto(p, "ask_purge") /\ UNCHANGED locals
     ELSE Finish(p, "ok")
  /\ UNCHANGED <<config, aws, files>>

\* A plan for an apply or a destroy takes the state lock, a plan to look at does
\* not: the lock object would be a write to the bucket.
LocksAlways(p) == TRUE                                 \* mutant: no -lock=false
TakesLock(p) == Verb(p) # "plan"

\* terraform init needs the state bucket, a node stack the network's outputs.
StartPlan(p, s) ==
  /\ pc[p] = "plan" /\ At(p, s)
  /\ "exists" \in bucket
  /\ s # Network /\ ~Destroying(p) => state[Network] \notin {NoState, NoInfra}
  /\ IF TakesLock(p)
     THEN lock[s] = Free /\ lock' = [lock EXCEPT ![s] = p]
     ELSE UNCHANGED lock
  /\ work' = [work EXCEPT ![p] =
       [stack  |-> s,
        want   |-> IF Destroying(p) THEN NoInfra ELSE rendered[Dir(p)][s],
        base   |-> Refreshed(s),
        serial |-> serial[s]]]
  /\ Goto(p, "planning")
  /\ UNCHANGED <<config, bucket, secret, cloud, state, serial, files,
                 cmd, todo, noState, approved, granted>>

WritePlan(p, s) ==
  /\ pc[p] = "planning" /\ At(p, s)
  /\ planFile' = [planFile EXCEPT ![Dir(p)][s] = work[p]]
  /\ lock' = IF lock[s] = p THEN [lock EXCEPT ![s] = Free] ELSE lock
  /\ Goto(p, "show")
  /\ UNCHANGED <<config, bucket, secret, cloud, state, serial, rendered, preview, locals>>

\* The plan makes the changes approved on the first deploy, and no other.
ApprovedOnce(p, s, plan) == s = Network /\ approved[p] # {}        \* mutant: no Same
NeverAsk(p, s, plan) == s = Network                               \* mutant: no map
PreApproved(p, s, plan) == s = Network /\ Summary(plan) \in approved[p]

\* terraform show reads the plan back from the file; then: nothing to do,
\* approved already, or ask.
ShowPlan(p, s) ==
  /\ pc[p] = "show" /\ At(p, s)
  /\ planFile[Dir(p)][s] # NoPlan
  /\ LET plan == planFile[Dir(p)][s]
     IN IF Verb(p) = "plan" \/ Empty(Summary(plan))
        THEN StackDone(p, s)
        ELSE /\ work' = [work EXCEPT ![p] = plan]
             /\ Goto(p, IF PreApproved(p, s, plan)
                        THEN "apply" ELSE "ask")
             /\ UNCHANGED <<cmd, todo, noState, approved, granted>>
  /\ UNCHANGED <<config, aws, files>>

ApprovePlan(p) ==
  /\ pc[p] = "ask"
  /\ Grant(p)
  /\ Goto(p, "apply")
  /\ UNCHANGED <<config, aws, files, cmd, todo, noState, approved, work>>

-----------------------------------------------------------------------------
(* ApplyPlan: terraform apply of the plan file, then the file is removed.  *)

RemovePlanFile(p, s) == planFile' = [planFile EXCEPT ![Dir(p)][s] = NoPlan]

\* terraform takes the lock and checks that the plan was made from the state
\* as it still is.
AnyPlan(s, plan)  == lock[s] = Free                    \* mutant: a stale plan is taken
Unlocked(s, plan) == plan.serial = serial[s]           \* mutant: the lock is ignored
Applicable(s, plan) == lock[s] = Free /\ plan.serial = serial[s]

StartApply(p, s) ==
  /\ pc[p] = "apply" /\ At(p, s)
  /\ planFile[Dir(p)][s] # NoPlan
  /\ "exists" \in bucket
  /\ Applicable(s, planFile[Dir(p)][s])
  /\ lock' = [lock EXCEPT ![s] = p]
  /\ work' = [work EXCEPT ![p] = planFile[Dir(p)][s]]
  /\ Goto(p, "applying")
  /\ UNCHANGED <<config, bucket, secret, cloud, state, serial, files,
                 cmd, todo, noState, approved, granted>>

\* No plan file, a stale plan, the lock is taken, or terraform cannot start.
ApplyRefused(p, s) ==
  /\ pc[p] = "apply" /\ At(p, s)
  /\ RemovePlanFile(p, s)
  /\ Finish(p, "failed")
  /\ UNCHANGED <<config, aws, rendered, preview>>

\* Some of the stack's resources are changed, not all.
ApplySome(p, s) ==
  /\ pc[p] = "applying" /\ At(p, s)
  /\ cloud[s] # Partial /\ AwsAllows(work[p])
  /\ cloud' = [cloud EXCEPT ![s] = Partial]
  /\ UNCHANGED <<config, bucket, secret, state, serial, lock, files, pc, locals>>

\* terraform writes the state object of s and gives the lock back.
SaveState(p, s, infra) ==
  /\ state' = [state EXCEPT ![s] = infra]
  /\ serial' = [serial EXCEPT ![s] = IF infra = state[s] THEN @ ELSE NewSerial(s)]
  /\ lock' = [lock EXCEPT ![s] = IF @ = p THEN Free ELSE @]

ApplyDone(p, s) ==
  /\ pc[p] = "applying" /\ At(p, s)
  /\ AwsAllows(work[p]) /\ "exists" \in bucket
  /\ cloud' = [cloud EXCEPT ![s] = work[p].want]
  /\ SaveState(p, s, work[p].want)
  /\ RemovePlanFile(p, s)
  /\ StackDone(p, s)
  /\ UNCHANGED <<config, bucket, secret, rendered, preview>>

\* terraform stops on an error or an interrupt, and saves what it did.
ApplyFailed(p, s) ==
  /\ pc[p] = "applying" /\ At(p, s)
  /\ IF "exists" \in bucket /\ ~(cloud[s] = NoInfra /\ state[s] = NoState)
     THEN SaveState(p, s, cloud[s])
     ELSE /\ lock' = [lock EXCEPT ![s] = IF @ = p THEN Free ELSE @]
          /\ UNCHANGED <<state, serial>>
  /\ RemovePlanFile(p, s)
  /\ Finish(p, "failed")
  /\ UNCHANGED <<config, bucket, secret, cloud, rendered, preview>>

\* bbctl is killed, and terraform with it: the lock object and the plan file
\* stay, and the state may miss what was done since it was last saved.
Kill(p) ==
  /\ Kills /\ ~Ended(p)
  /\ Finish(p, "failed")
  /\ lock' = [s \in Stacks |-> IF lock[s] = p THEN Leftover ELSE lock[s]]
  /\ \/ UNCHANGED <<state, serial>>
     \/ \E s \in Stacks :
          /\ pc[p] = "applying" /\ At(p, s)
          /\ "exists" \in bucket /\ cloud[s] # state[s] /\ cloud[s] # NoInfra
          /\ state' = [state EXCEPT ![s] = cloud[s]]
          /\ serial' = [serial EXCEPT ![s] = NewSerial(s)]
  /\ UNCHANGED <<config, bucket, secret, cloud, files>>

-----------------------------------------------------------------------------
(* destroy --purge: after the last stack the node secret, every object     *)
(* under <name>/ and, if nothing else is in it, the bucket.                *)

ApprovePurge(p) ==
  /\ pc[p] = "ask_purge"
  /\ secret' = FALSE
  /\ IF noState[p] THEN Finish(p, "ok") ELSE Goto(p, "purge_objects") /\ UNCHANGED locals
  /\ UNCHANGED <<config, bucket, cloud, state, serial, lock, files>>

\* State and lock objects alike, of stacks in the config or not.
DeleteObjects(gone) ==
  /\ state'  = [s \in Stacks |-> IF s \in gone THEN NoState ELSE state[s]]
  /\ serial' = [s \in Stacks |-> IF s \in gone /\ state[s] # NoState
                                 THEN NewSerial(s) ELSE serial[s]]
  /\ lock'   = [s \in Stacks |-> IF s \in gone THEN Free ELSE lock[s]]

PurgeObjects(p) ==
  /\ pc[p] = "purge_objects"
  /\ DeleteObjects(Stacks)
  /\ IF "exists" \in bucket
     THEN Goto(p, "purge_bucket") /\ UNCHANGED locals
     ELSE Finish(p, "ok")
  /\ UNCHANGED <<config, bucket, secret, cloud, files>>

\* A page, or some objects of a page, cannot be deleted.
PurgeSomeObjects(p) ==
  /\ pc[p] = "purge_objects"
  /\ \E gone \in SUBSET Stacks : DeleteObjects(gone)
  /\ Finish(p, "failed")
  /\ UNCHANGED <<config, bucket, secret, cloud, files>>

\* Kept if an object was written meanwhile, or by another deployment.
PurgeBucket(p) ==
  /\ pc[p] = "purge_bucket" /\ "exists" \in bucket
  /\ \/ bucket' = bucket
     \/ /\ \A s \in Stacks : state[s] = NoState /\ lock[s] = Free
        /\ bucket' = {}
  /\ Finish(p, "ok")
  /\ UNCHANGED <<config, secret, cloud, state, serial, lock, files>>

-----------------------------------------------------------------------------
EditConfig ==
  /\ config' \in Cfgs \ {config}
  /\ UNCHANGED <<aws, files, pc, locals>>

StackStep(p, s) ==
  \/ Next1(p, s) \/ StartPlan(p, s) \/ WritePlan(p, s) \/ ShowPlan(p, s)
  \/ StartApply(p, s) \/ ApplySome(p, s) \/ ApplyDone(p, s)

Step(p) ==
  \/ CheckSecret(p) \/ CreateSecret(p) \/ Prepare(p) \/ Render(p)
  \/ WritePreview(p) \/ ShowPreview(p) \/ ApproveFirst(p)
  \/ HeadBucket(p) \/ CreateBucket(p) \/ PutVersioning(p) \/ BlockPublic(p)
  \/ NetworkApplied(p) \/ AllDone(p) \/ ApprovePlan(p)
  \/ ApprovePurge(p) \/ PurgeObjects(p) \/ PurgeBucket(p)
  \/ \E s \in Stacks : StackStep(p, s)

Failure(p) ==
  \/ Fail(p) \/ Kill(p) \/ PurgeSomeObjects(p)
  \/ \E s \in Stacks : ApplyRefused(p, s) \/ ApplyFailed(p, s)

Next ==
  \/ EditConfig
  \/ \E p \in Procs : Start(p) \/ Step(p) \/ Failure(p)

Spec == Init /\ [][Next]_vars

\* The users run commands without --stack again and again; commands go on.
RunAgain(p) == Start(p) /\ cmd'[p].sel = StacksOf(config)

RetrySpec ==
  Spec /\ \A p \in Procs : WF_vars(Step(p) \/ Failure(p)) /\ SF_vars(RunAgain(p))

-----------------------------------------------------------------------------
(* Properties *)

Applying(p) == pc[p] = "applying"

\* What terraform carries out is a plan the user of that very command was
\* shown and said yes to: not another process' plan in the same file, and not
\* a plan that changed between the approval and terraform apply (Apply's and
\* Destroy's approve, run.go).
AppliedAsApproved ==
  \A p \in Procs : Applying(p) => Effect(work[p]) \in granted[p]

\* Two processes never carry out plans of one stack at the same time.
OneWriter ==
  \A p, q \in Procs, s \in Stacks :
    Applying(p) /\ Applying(q) /\ At(p, s) /\ At(q, s) => p = q

\* In this command, p's user has said yes to something about stack s.
AgreedTo(p, s) == \E e \in granted[p] : e[1] = s

\* "Nothing is created before the first approval": who applies a plan of a stack
\* while the stack changes was told yes about that stack, and who makes the state
\* bucket grow, the one whose step it is, was told yes about the network.
NothingBeforeApproval ==
  [][ /\ \A s \in Stacks : cloud'[s] # cloud[s] =>
           /\ \E p \in Procs : Applying(p) /\ At(p, s)
           /\ \A p \in Procs : Applying(p) /\ At(p, s) => AgreedTo(p, s)
      /\ ~(bucket' \subseteq bucket) =>
           /\ \E p \in Procs : pc'[p] # pc[p]
           /\ \A p \in Procs : pc'[p] # pc[p] => AgreedTo(p, Network) ]_<<cloud, bucket>>

\* `bbctl plan` leaves AWS as it is, lock objects included.
PlanTouchesNothing ==
  [][\A p \in Procs :
       ~Ended(p) /\ pc'[p] # pc[p] /\ Verb(p) = "plan" => UNCHANGED aws]_vars

\* A destroy of the whole deployment gets to the network only when every node
\* stack of the config is gone, whatever failed before.
NetworkGoesLast ==
  \A p \in Procs :
    Applying(p) /\ work[p].stack = Network /\ Destroying(p) =>
      \A s \in cmd[p].sel \ {Network} : cloud[s] = NoInfra

\* Exit status 0 of an apply means that the selected stacks are what the config
\* it read asks for; of a destroy, that they are gone; of a purge, that the
\* node secret and the state are gone as well.
SuccessMeansDone ==
  [][\A p \in Procs : pc[p] # "ok" /\ pc'[p] = "ok" =>
       /\ Verb(p) = "apply" => \A s \in cmd[p].sel : cloud[s] = Want[cmd[p].cfg][s]
       /\ Destroying(p)     => \A s \in cmd[p].sel : cloud[s] = NoInfra
       /\ Verb(p) = "purge" => ~secret' /\ \A s \in Stacks : state[s] = NoState]_pc

\* Whatever exists can be found again by a later destroy: a stack with
\* resources has a state object, unless an apply of it is under way.
InfraIsTracked ==
  \A s \in Stacks : cloud[s] # NoInfra =>
    \/ "exists" \in bucket /\ state[s] # NoState
    \/ \E p \in Procs : Applying(p) /\ At(p, s)

\* purgeDeployment: "It runs only after every stack is destroyed."
PurgedOnlyWhenGone ==
  [][\A p \in Procs : pc[p] = "ask_purge" /\ pc'[p] = "purge_objects"
       => \A s \in Stacks : cloud[s] = NoInfra]_vars

\* "Every command is safe to re-run": wherever earlier applies and destroys
\* stopped, once calls that could succeed no longer fail and only apply is run,
\* the whole deployment is put in place and stays so; once only destroy --purge
\* is run, every resource, the secret and the state go.
OnlyRuns(v) ==
  \A p \in Procs : (ENABLED Step(p) => ~Failure(p)) /\ (Start(p) => cmd'[p].verb = v)

ApplyConverges ==
  <>[][OnlyRuns("apply")]_vars
    => <>[](\A s \in StacksOf(config) : cloud[s] = Want[config][s])

PurgeConverges ==
  <>[][OnlyRuns("purge")]_vars
    => <>[](~secret /\ \A s \in Stacks : cloud[s] = NoInfra /\ state[s] = NoState)

=============================================================================
