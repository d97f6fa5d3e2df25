------------------------------- MODULE Nodes -------------------------------
(***************************************************************************)
(* `bbctl status [--wait]`, `exec`, `connect` and `cli`: commands that     *)
(* look at the nodes of the stacks, one AWS call after another, while the  *)
(* nodes boot, report, vanish and are replaced by somebody's apply.        *)
(*                                                                         *)
(* A look is what Status and Client.Nodes do: the outputs of a stack, its  *)
(* instances in EC2, their agents in SSM, and the provisioning of each.    *)
(* Each call sees the world of its own moment.                             *)
(***************************************************************************)
EXTENDS Naturals, Sequences, FiniteSets, SequencesExt

CONSTANTS
  N,        \* the stacks with nodes: the pools in the config's order, then mgmt
  HasMgmt,  \* the last of them is the management plane
  Ids,      \* instance ids, as numbers in the order in which EC2 gives them out
  MaxNodes, \* bound: nodes of a stack
  All, Online, \* --all; no flag: the first node that is online
  NoCmd     \* no command

Stacks == 1 .. N

\* stack 0: neither --pool nor --mgmt; N + 1: one that the config does not have.
\* cli differs from connect only when it is given no stack.
\* node: --node with an index (counted from 1 here) or an id, --all, or nothing.
Commands ==
  [verb : {"status", "wait"}, stack : {0}, node : {Online}]
    \cup [verb : {"exec"}, stack : 0 .. N + 1, node : {Online, All} \cup (1 .. MaxNodes) \cup Ids]
    \cup [verb : {"connect"}, stack : 0 .. N + 1, node : {Online} \cup (1 .. MaxNodes) \cup Ids]
    \cup [verb : {"cli"}, stack : {0}, node : {Online} \cup (1 .. MaxNodes) \cup Ids]

Reports == {"none", "Success", "Failed"}  \* "none": Pending, or no report yet
Runs == {"none", "sent", "Success", "Failed"}

ASSUME NodesConstants ==
  /\ N \in Nat \ {0} /\ MaxNodes \in Nat \ {0} /\ HasMgmt \in BOOLEAN
  /\ HasMgmt => N > 1
  /\ Ids \subseteq Nat
  /\ (1 .. MaxNodes) \cap Ids = {}  \* an id is never taken for an index
  /\ {All, Online} \cap ((1 .. MaxNodes) \cup Ids) = {} /\ All # Online
  /\ NoCmd \notin Commands

VARIABLES
  nodes,     \* of each stack: its instance_ids output, in index order
  inst,      \* of each id: "fresh" (not used yet), "up", "gone"
  prov,      \* what its mgx-* association reports
  online,    \* the ids whose SSM agent is online
  ran,       \* the invocation of the exec under way on each id
  pc, cmd,
  at,        \* the stack the look is at
  ids,       \* the ids of the stack, or of exec, that are still to be done
  found,     \* what EC2 said of them: the ids it knows, and who is online
  view,      \* the nodes looked at so far: what they report, and the first online
  results,   \* exec: what each node answered
  deadline,  \* --wait: "none" before the first look is over, "ahead", "past"
  \* History of the look (for exec: of the command) that is under way or last was.
  stayed,    \* the ids that were nodes of some stack all the time
  proved,    \* those of them that have reported Success meanwhile
  said,      \* what any node has reported meanwhile
  flawless   \* there were nodes, always the same ones, all of them with Success

world == <<nodes, inst, prov, online, ran>>
local == <<cmd, at, ids, found, view, results, deadline>>
history == <<stayed, proved, said, flawless>>
vars == <<world, pc, local, history>>

Ends == {"idle", "shown", "ok", "nodefailed", "timeout", "error", "nonzero", "session"}
Labels == Ends \cup {"outputs", "describe", "agents", "provision", "verdict", "sleep",
                     "resolve", "send", "waiter", "result", "start"}

Running == pc \notin Ends

NodesOf(s) == Range(nodes[s])
Listed == UNION {NodesOf(s) : s \in Stacks}
AllWell == Listed # {} /\ \A i \in Listed : inst[i] = "up" /\ prov[i] = "Success"

Lists == {q \in UNION {[1 .. k -> Ids] : k \in 0 .. MaxNodes} : IsInjective(q)}
View == [reports : SUBSET Reports, online : {q \in Lists : Len(q) <= 1}]

TypeOK ==
  /\ nodes \in [Stacks -> Lists]
  /\ \A s, t \in Stacks : s # t => NodesOf(s) \cap NodesOf(t) = {}
  /\ inst \in [Ids -> {"fresh", "up", "gone"}]
  /\ \A i \in Listed : inst[i] # "fresh"
  /\ prov \in [Ids -> Reports]
  /\ online \subseteq {i \in Ids : inst[i] = "up"}
  /\ ran \in [Ids -> Runs]
  /\ pc \in Labels
  /\ cmd \in Commands \cup {NoCmd}
  /\ at \in 0 .. N
  /\ ids \in Lists
  /\ found \in [known : SUBSET Ids, on : SUBSET Ids]
  /\ view \in View
  /\ \A k \in DOMAIN results : results[k] \in Runs
  /\ deadline \in {"none", "ahead", "past"}
  /\ proved \subseteq stayed /\ stayed \subseteq Ids /\ said \subseteq {"Success", "Failed"} /\ flawless \in BOOLEAN

\* The ids that make nodes of "fresh" ones, in order; their names tell nothing.
Given(new, fresh) == \A i \in new, j \in fresh \ new : i < j
InOrder(q, new) == \A j, k \in DOMAIN q : j < k /\ {q[j], q[k]} \subseteq new => q[j] < q[k]

Nothing == [known |-> {}, on |-> {}]
Nobody == [reports |-> {}, online |-> <<>>]

Init ==
  /\ nodes \in [Stacks -> Lists]
  /\ \A s, t \in Stacks : s # t => NodesOf(s) \cap NodesOf(t) = {}
  /\ Given(Listed, Ids) /\ \A s \in Stacks : InOrder(nodes[s], Ids)
  /\ \A s, t \in Stacks : s < t => \A i \in NodesOf(s), j \in NodesOf(t) : i < j
  /\ inst = [i \in Ids |-> IF i \in Listed THEN "up" ELSE "fresh"]
  /\ prov = [i \in Ids |-> "none"]
  /\ online = {}
  /\ ran = [i \in Ids |-> "none"]
  /\ pc = "idle" /\ cmd = NoCmd /\ at = 0 /\ ids = <<>> /\ found = Nothing
  /\ view = Nobody /\ results = <<>> /\ deadline = "none"
  /\ stayed = {} /\ proved = {} /\ said = {} /\ flawless = FALSE

-----------------------------------------------------------------------------
(* The world.  Changes that the command under way does not look at are left *)
(* out.                                                                     *)

Watched == Running /\ cmd.verb \in {"status", "wait"}

\* Somebody's apply or destroy changes the nodes of a stack: those that are
\* new boot, those that are not in it any more are terminated.
Reapply ==
  /\ Running
  /\ \E s \in Stacks, q \in Lists :
       LET new == Range(q) \ NodesOf(s)
           old == NodesOf(s) \ Range(q)
       IN /\ q # nodes[s]
          /\ \A i \in new : inst[i] = "fresh"
          /\ Given(new, {i \in Ids : inst[i] = "fresh"}) /\ InOrder(q, new)
          /\ nodes' = [nodes EXCEPT ![s] = q]
          /\ inst' = [i \in Ids |-> IF i \in new THEN "up" ELSE IF i \in old THEN "gone" ELSE inst[i]]
          /\ prov' = [i \in Ids |-> IF i \in old THEN "none" ELSE prov[i]]
          /\ online' = online \ old
  /\ UNCHANGED <<ran, pc, local>>

\* A provisioning run begins, succeeds or fails.
Report ==
  /\ Watched
  /\ \E i \in Ids, r \in Reports :
       inst[i] = "up" /\ prov[i] # r /\ prov' = [prov EXCEPT ![i] = r]
  /\ UNCHANGED <<nodes, inst, online, ran, pc, local>>

\* A node's agent goes online or offline.
Agent ==
  /\ Running /\ cmd.node = Online /\ cmd.verb \notin {"status", "wait"}
  /\ \E i \in Ids : inst[i] = "up" /\ online' = (online \ {i}) \cup ({i} \ online)
  /\ UNCHANGED <<nodes, inst, prov, ran, pc, local>>

\* An instance is terminated behind Terraform's back.
Vanish ==
  /\ Running
  /\ \E i \in Ids :
       /\ inst[i] = "up"
       /\ inst' = [inst EXCEPT ![i] = "gone"]
       /\ online' = online \ {i}
  /\ UNCHANGED <<nodes, prov, ran, pc, local>>

\* SSM has run the command on a node, or given it up.
Invoked ==
  /\ \E i \in Ids, r \in {"Success", "Failed"} :
       ran[i] = "sent" /\ ran' = [ran EXCEPT ![i] = r]
  /\ Running
  /\ UNCHANGED <<nodes, inst, prov, online, pc, local>>

\* The time that --timeout allows is over.
Clock ==
  /\ Running /\ deadline = "ahead" /\ deadline' = "past"
  /\ UNCHANGED <<world, pc, cmd, at, ids, found, view, results>>

-----------------------------------------------------------------------------
(* A command is a process of its own: it begins and ends. *)

Start ==
  /\ pc = "idle"
  /\ cmd' \in Commands
  /\ pc' = "start"
  /\ UNCHANGED <<world, at, ids, found, view, results, deadline>>

End(result) ==
  /\ pc' = result
  /\ at' = 0 /\ ids' = <<>> /\ found' = Nothing /\ view' = Nobody /\ results' = <<>>
  /\ deadline' = "none"
  /\ UNCHANGED <<world, cmd>>

\* A call fails, terraform does, or Ctrl-C is pressed.
Abort == Running /\ End("error")

\* Status reads every stack; the others resolve their target first.
Begin ==
  /\ pc = "start"
  /\ IF Watched THEN pc' = "outputs" /\ at' = 1 ELSE pc' = "resolve" /\ at' = 0
  /\ UNCHANGED <<world, cmd, ids, found, view, results, deadline>>

-----------------------------------------------------------------------------
(* A look. *)

\* Mutant of Onward: one stack too many.
OnwardTooFar(s, q) ==
  /\ IF s <= N /\ Watched THEN pc' = "outputs" /\ at' = s + 1 ELSE pc' = "verdict" /\ at' = 0
  /\ ids' = <<>> /\ found' = Nothing /\ view' = q

\* The look is over: status decides, the other commands pick a node.
\* Otherwise the next stack.
Onward(s, q) ==
  /\ IF s < N /\ Watched THEN pc' = "outputs" /\ at' = s + 1 ELSE pc' = "verdict" /\ at' = 0
  /\ ids' = <<>> /\ found' = Nothing /\ view' = q

\* StateExists and terraform output: a stack that is not applied has no nodes.
ReadOutputs ==
  /\ pc = "outputs"
  /\ IF nodes[at] = <<>>
     THEN Onward(at, view)
     ELSE pc' = "describe" /\ ids' = nodes[at] /\ UNCHANGED <<at, found, view>>
  /\ UNCHANGED <<world, cmd, results, deadline>>

\* Asked for an instance that is gone EC2 refuses (Abort), still lists it for
\* a while, or leaves it out.
Describe ==
  /\ pc = "describe"
  /\ \E gone \in SUBSET {i \in Range(ids) : inst[i] = "gone"} :
       found' = [known |-> Range(ids) \ gone, on |-> {}]
  /\ pc' = "agents"
  /\ UNCHANGED <<world, cmd, at, ids, view, results, deadline>>

\* An error of this call is ignored: nobody is online then.
Agents ==
  /\ pc = "agents"
  /\ found' \in {found, [found EXCEPT !.on = online \cap found.known]}
  /\ pc' = "provision"
  /\ UNCHANGED <<world, cmd, at, ids, view, results, deadline>>

\* provisionStatus of the next id; one that EC2 left out is skipped.
Provision ==
  /\ pc = "provision"
  /\ LET i == Head(ids)
         first == IF view.online = <<>> /\ i \in found.on THEN <<i>> ELSE view.online
         q == IF i \in found.known
              THEN [reports |-> view.reports \cup {prov[i]}, online |-> first]
              ELSE view
     IN IF Len(ids) = 1
        THEN Onward(at, q)
        ELSE /\ view' = q /\ ids' = Tail(ids)
             /\ UNCHANGED <<pc, at, found>>
  /\ UNCHANGED <<world, cmd, results, deadline>>

-----------------------------------------------------------------------------
(* status --wait *)

ProvisionFailed(q) == "Failed" \in q.reports

\* Mutant of AllProvisioned: no nodes are all provisioned.
AllOfNone(q) == q.reports \subseteq {"Success"}
AllProvisioned(q) == q.reports = {"Success"}

\* The deadline is set when the first look is over.
SetDeadline ==
  /\ pc = "verdict" /\ cmd.verb = "wait" /\ deadline = "none"
  /\ deadline' = "ahead"
  /\ UNCHANGED <<world, pc, cmd, at, ids, found, view, results>>

\* Mutant of Verdict: the deadline is looked at first.
TimeoutFirst ==
  /\ pc = "verdict" /\ cmd.verb = "wait" /\ deadline # "none"
  /\ IF deadline = "past" THEN End("timeout")
     ELSE IF ProvisionFailed(view) THEN End("nodefailed")
     ELSE IF AllProvisioned(view) THEN End("ok")
     ELSE pc' = "sleep" /\ UNCHANGED <<world, local>>

Verdict ==
  /\ pc = "verdict" /\ cmd.verb = "wait" /\ deadline # "none"
  /\ IF ProvisionFailed(view) THEN End("nodefailed")
     ELSE IF AllProvisioned(view) THEN End("ok")
     ELSE IF deadline = "past" THEN End("timeout")
     ELSE pc' = "sleep" /\ UNCHANGED <<world, local>>

Show == pc = "verdict" /\ cmd.verb = "status" /\ End("shown")

\* Mutant of Sleep: the deadline moves with every look.
SleepAndRenew ==
  /\ pc = "sleep" /\ pc' = "outputs"
  /\ at' = 1 /\ view' = Nobody /\ deadline' = "ahead"
  /\ UNCHANGED <<world, cmd, ids, found, results>>

\* 15 seconds later Status looks again; what it saw before is forgotten.
Sleep ==
  /\ pc = "sleep" /\ pc' = "outputs"
  /\ at' = 1 /\ view' = Nobody
  /\ UNCHANGED <<world, cmd, ids, found, results, deadline>>

-----------------------------------------------------------------------------
(* The nodes that exec, connect and cli are for. *)

ById(c) == c.node \in Ids
Target(c) == CASE c.stack # 0 -> c.stack
               [] c.verb = "cli" /\ HasMgmt -> N
               [] OTHER -> 1

Acts(c) == IF c.verb = "exec" THEN "send" ELSE "result"

\* An id without --pool or --mgmt is looked for in stack after stack.
FindInstance ==
  /\ pc = "resolve" /\ ById(cmd) /\ cmd.stack = 0
  /\ IF at = N THEN End("error")
     ELSE IF cmd.node \in NodesOf(at + 1)
          THEN /\ ids' = <<cmd.node>> /\ pc' = Acts(cmd)
               /\ UNCHANGED <<world, cmd, at, found, view, results, deadline>>
          ELSE /\ at' = at + 1
               /\ UNCHANGED <<world, pc, cmd, ids, found, view, results, deadline>>

\* Of the stack asked for: all nodes, the one with the index or id, or, after
\* a look, the first that is online.
Resolve ==
  /\ pc = "resolve" /\ ~(ById(cmd) /\ cmd.stack = 0)
  /\ LET s == Target(cmd)
         all == IF s \in Stacks THEN nodes[s] ELSE <<>>
         n == cmd.node
         Take(q) == /\ ids' = q /\ pc' = Acts(cmd)
                    /\ UNCHANGED <<world, cmd, at, found, view, results, deadline>>
     IN \/ all = <<>> /\ End("error")
        \/ all # <<>> /\ n = All /\ Take(all)
        \/ all # <<>> /\ ById(cmd) /\ IF n \in Range(all) THEN Take(<<n>>) ELSE End("error")
        \/ all # <<>> /\ n \in 1 .. MaxNodes /\ IF n <= Len(all) THEN Take(<<all[n]>>) ELSE End("error")
        \/ /\ all # <<>> /\ n = Online
           /\ ids' = all /\ at' = s /\ pc' = "describe"
           /\ UNCHANGED <<world, cmd, found, view, results, deadline>>

Pick ==
  /\ pc = "verdict" /\ ~Watched
  /\ IF view.online = <<>> THEN End("error")
     ELSE /\ ids' = view.online /\ pc' = Acts(cmd)
          /\ view' = Nobody
          /\ UNCHANGED <<world, cmd, at, found, results, deadline>>

-----------------------------------------------------------------------------
(* exec, connect and cli act. *)

\* SSM refuses the whole command for an id that it does not know.
Send ==
  /\ pc = "send"
  /\ IF \E i \in Range(ids) : inst[i] # "up" THEN End("error")
     ELSE /\ ran' = [i \in Ids |-> IF i \in Range(ids) THEN "sent" ELSE ran[i]]
          /\ pc' = "waiter"
          /\ UNCHANGED <<nodes, inst, prov, online, local>>

\* The waiter returns when the invocation has ended, or when its time is up.
Wait ==
  /\ pc = "waiter" /\ pc' = "result"
  /\ UNCHANGED <<world, local>>

Succeeded(q) == \A k \in DOMAIN q : q[k] = "Success"

\* Mutant of Result: the last answer decides.
ResultOfLast ==
  /\ pc = "result" /\ cmd.verb = "exec"
  /\ LET q == Append(results, ran[Head(ids)])
     IN IF Len(ids) = 1
        THEN IF Last(q) = "Success" THEN End("ok") ELSE End("nonzero")
        ELSE /\ results' = q /\ ids' = Tail(ids) /\ pc' = "waiter"
             /\ UNCHANGED <<world, cmd, at, found, view, deadline>>

\* The invocation's status; after the last one the exit code.
Result ==
  /\ pc = "result" /\ cmd.verb = "exec"
  /\ LET q == Append(results, ran[Head(ids)])
     IN IF Len(ids) = 1
        THEN IF Succeeded(q) THEN End("ok") ELSE End("nonzero")
        ELSE /\ results' = q /\ ids' = Tail(ids) /\ pc' = "waiter"
             /\ UNCHANGED <<world, cmd, at, found, view, deadline>>

\* The session takes the process over, or fails (Abort).
Session == pc = "result" /\ cmd.verb # "exec" /\ End("session")

-----------------------------------------------------------------------------
Steps ==
  \/ Begin \/ ReadOutputs \/ Describe \/ Agents \/ Provision
  \/ SetDeadline \/ Verdict \/ Show \/ Sleep
  \/ FindInstance \/ Resolve \/ Pick \/ Send \/ Wait \/ Result \/ Session

World == Reapply \/ Report \/ Agent \/ Vanish \/ Invoked

\* The history variables follow the world from the beginning of the look.
Track ==
  LET fresh == pc \in {"idle", "start", "sleep"}
      success == {i \in Listed' : prov'[i] = "Success"}
  IN /\ stayed' = {i \in Listed' : inst'[i] = "up" /\ (fresh \/ i \in stayed)}
     /\ proved' = stayed' \cap (success \cup IF fresh THEN {} ELSE proved)
     /\ said' = ({prov'[i] : i \in Listed'} \ {"none"}) \cup IF fresh THEN {} ELSE said
     /\ flawless' = (AllWell' /\ (fresh \/ (flawless /\ nodes' = nodes)))

Next == (Start \/ Abort \/ Clock \/ Steps \/ World) /\ Track

\* The calls of a command return, and time passes.
Spec == Init /\ [][Next]_vars /\ WF_vars(Steps /\ Track) /\ WF_vars(Clock /\ Track)

-----------------------------------------------------------------------------
(* Properties *)

\* What `status --wait` says of its last look.  All provisioned: there are
\* nodes, and each that was there all through the look, in its stack and in
\* EC2, did report Success.  Failed: one of the nodes did.  Not in time: not
\* when all nodes had been well all through the look, for the verdict comes
\* before the deadline (waitProvisioned).
WaitVerdict ==
  /\ pc = "ok" /\ cmd.verb = "wait" =>
       "Success" \in said /\ stayed = proved
  /\ pc = "nodefailed" => "Failed" \in said
  /\ pc = "timeout" => ~flawless

Sent == {i \in Ids : ran[i] # "none"}

\* exec exits with 0 only if the command has succeeded on every node it was
\* sent to, which are, with --all, all that were in the stack all the time,
\* and otherwise the one that was asked for (execCmd, Client.Exec).
ExecVerdict ==
  pc = "ok" /\ cmd.verb = "exec" =>
    /\ \A i \in Sent : ran[i] = "Success"
    /\ cmd.node = All => stayed \cap NodesOf(Target(cmd)) \subseteq Sent
    /\ cmd.node # All => Cardinality(Sent) = 1
    /\ ById(cmd) => Sent = {cmd.node}

\* Every command ends, whatever the nodes do: a wait at its deadline at the
\* latest, exec when its waiters give up (waitProvisioned, Client.Exec).
CommandsEnd == Running ~> ~Running
=============================================================================
