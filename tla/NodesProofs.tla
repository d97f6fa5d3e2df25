---------------------------- MODULE NodesProofs ----------------------------
(***************************************************************************)
(* Proofs about the commands that look at nodes, for every number of       *)
(* stacks, of instances and of nodes of a stack.                           *)
(***************************************************************************)
EXTENDS Nodes, FiniteSetTheorems, TLAPS

-----------------------------------------------------------------------------
(* Lists of ids. *)

\* A list of ids is a sequence in which no id occurs twice, and not too long.
LEMMA IsList ==
  ASSUME NEW q
  PROVE  q \in Lists <=> q \in Seq(Ids) /\ Len(q) <= MaxNodes /\ IsInjective(q)
<1>1. ASSUME q \in Lists PROVE q \in Seq(Ids) /\ Len(q) <= MaxNodes /\ IsInjective(q)
  <2>1. PICK k \in 0 .. MaxNodes : q \in [1 .. k -> Ids]
    BY <1>1 DEF Lists
  <2>2. k \in Nat /\ k <= MaxNodes
    BY NodesConstants DEF NodesConstants
  <2>. QED BY <1>1, <2>1, <2>2 DEF Lists
<1>2. ASSUME q \in Seq(Ids), Len(q) <= MaxNodes, IsInjective(q) PROVE q \in Lists
  <2>1. Len(q) \in 0 .. MaxNodes
    BY <1>2, NodesConstants DEF NodesConstants
  <2>2. q \in [1 .. Len(q) -> Ids]
    BY <1>2
  <2>. QED BY <1>2, <2>1, <2>2 DEF Lists
<1>. QED BY <1>1, <1>2

\* The ids of a list are ids.
LEMMA ListRange == ASSUME NEW q \in Lists PROVE Range(q) \subseteq Ids
BY IsList DEF Range

\* The empty list has none.
LEMMA EmptyList == <<>> \in Lists /\ Range(<<>>) = {} /\ \A q \in Lists : Range(q) = {} => q = <<>>
<1>1. <<>> \in Lists
  <2>1. \A q \in Seq(Ids) : Len(q) = 0 => IsInjective(q)
    BY DEF IsInjective
  <2>2. <<>> \in Seq(Ids) /\ Len(<<>>) = 0 /\ 0 <= MaxNodes
    BY NodesConstants DEF NodesConstants
  <2>. QED BY <2>1, <2>2, IsList
<1>2. ASSUME NEW q \in Lists, Range(q) = {} PROVE q = <<>>
  <2>. q \in Seq(Ids)
    BY IsList
  <2>. QED BY <1>2 DEF Range
<1>. QED BY <1>1, <1>2 DEF Range

\* A list of one id.
LEMMA SingleList ==
  ASSUME NEW i \in Ids
  PROVE  <<i>> \in Lists /\ Len(<<i>>) = 1 /\ Range(<<i>>) = {i}
<1>1. <<i>> \in Seq(Ids) /\ Len(<<i>>) = 1 /\ DOMAIN <<i>> = {1} /\ <<i>>[1] = i
  OBVIOUS
<1>2. IsInjective(<<i>>) /\ Range(<<i>>) = {i}
  BY <1>1 DEF IsInjective, Range
<1>3. Len(<<i>>) <= MaxNodes
  BY <1>1, NodesConstants DEF NodesConstants
<1>. QED BY <1>1, <1>2, <1>3, IsList

\* The first id of a list, and the rest of it.
LEMMA HeadAndTail ==
  ASSUME NEW q \in Lists, q # <<>>
  PROVE  /\ Head(q) \in Ids /\ Tail(q) \in Lists
         /\ Range(q) = {Head(q)} \cup Range(Tail(q))
         /\ Head(q) \notin Range(Tail(q))
         /\ Len(q) = 1 => Range(q) = {Head(q)} /\ q = <<Head(q)>>
         /\ Len(q) # 1 => Tail(q) # <<>>
<1>0. q \in Seq(Ids) /\ Len(q) <= MaxNodes /\ IsInjective(q) /\ Len(q) \in Nat \ {0} /\ MaxNodes \in Nat
  BY IsList, NodesConstants DEF NodesConstants
<1>1. Head(q) = q[1] /\ Tail(q) \in Seq(Ids) /\ Len(Tail(q)) = Len(q) - 1
      /\ \A k \in 1 .. Len(Tail(q)) : Tail(q)[k] = q[k + 1]
  BY <1>0
<1>2. IsInjective(Tail(q))
  BY <1>0, <1>1 DEF IsInjective
<1>3. Tail(q) \in Lists
  <2>. Len(Tail(q)) <= MaxNodes
    BY <1>0, <1>1
  <2>. QED BY <1>1, <1>2, IsList
<1>4. Head(q) \in Range(q) /\ Range(Tail(q)) \subseteq Range(q)
  BY <1>0, <1>1 DEF Range
<1>5. ASSUME NEW i \in Range(q), i # Head(q) PROVE i \in Range(Tail(q))
  <2>1. PICK k \in 1 .. Len(q) : i = q[k]
    BY <1>0 DEF Range
  <2>2. k - 1 \in 1 .. Len(Tail(q)) /\ (k - 1) + 1 = k
    BY <2>1, <1>5, <1>0, <1>1
  <2>3. i = Tail(q)[k - 1]
    BY <2>1, <2>2, <1>1
  <2>4. DOMAIN Tail(q) = 1 .. Len(Tail(q))
    BY <1>1
  <2>. QED BY <2>2, <2>3, <2>4 DEF Range
<1>6. Head(q) \notin Range(Tail(q))
  <2>1. ASSUME NEW k \in 1 .. Len(Tail(q)), Tail(q)[k] = Head(q) PROVE FALSE
    BY <2>1, <1>0, <1>1 DEF IsInjective
  <2>. QED BY <2>1, <1>1 DEF Range
<1>7. Range(q) = {Head(q)} \cup Range(Tail(q))
  BY <1>4, <1>5
<1>8. Len(q) = 1 => Range(q) = {Head(q)} /\ q = <<Head(q)>>
  BY <1>0, <1>1 DEF Range
<1>9. Len(q) # 1 => Tail(q) # <<>>
  <2>1. Len(q) # 1 => Len(Tail(q)) # 0
    BY <1>0, <1>1
  <2>. QED BY <2>1
<1>. QED BY <1>0, <1>1, <1>3, <1>6, <1>7, <1>8, <1>9

\* A list of at most one id.
LEMMA AtMostOne ==
  ASSUME NEW q \in Lists, q # <<>>, Len(q) <= 1
  PROVE  \E i \in Ids : q = <<i>>
<1>1. q \in Seq(Ids)
  BY IsList
<1>2. Len(q) \in Nat /\ Len(q) # 0
  BY <1>1
<1>3. Len(q) = 1
  BY <1>2
<1>. QED BY <1>3, HeadAndTail

-----------------------------------------------------------------------------
(* The world, and the history of the look. *)

\* The world: the nodes of a stack are its own, and no id is used again;
\* what is up is listed, and what is not listed reports nothing.
WorldInv ==
  /\ nodes \in [Stacks -> Lists]
  /\ \A s, t \in Stacks : s # t => NodesOf(s) \cap NodesOf(t) = {}
  /\ inst \in [Ids -> {"fresh", "up", "gone"}]
  /\ \A i \in Listed : inst[i] # "fresh"
  /\ prov \in [Ids -> Reports]
  /\ online \subseteq {i \in Ids : inst[i] = "up"}
  /\ ran \in [Ids -> Runs]
  /\ \A i \in Ids : inst[i] = "up" => i \in Listed
  /\ \A i \in Ids \ Listed : prov[i] = "none"

\* The history, and what it says of now.
HistoryInv ==
  /\ stayed \subseteq {i \in Listed : inst[i] = "up"}
  /\ proved \subseteq stayed
  /\ said \subseteq {"Success", "Failed"}
  /\ flawless \in BOOLEAN
  /\ \A i \in Listed : prov[i] \in said \cup {"none"}
  /\ flawless => AllWell

\* Nothing is looked at yet, or no longer.
Unwatched == pc \in {"idle", "start", "sleep"}

\* A change of the nodes of one stack, as Reapply makes it.
LEMMA ReapplyStep ==
  ASSUME WorldInv, Reapply
  PROVE  WorldInv' /\ \A s \in Stacks : \A i \in NodesOf(s)' : i \in NodesOf(s) \/ inst[i] = "fresh"
<1> USE DEF WorldInv
<1>. PICK s \in Stacks, q \in Lists :
       LET new == Range(q) \ NodesOf(s)
           old == NodesOf(s) \ Range(q)
       IN /\ \A i \in new : inst[i] = "fresh"
          /\ nodes' = [nodes EXCEPT ![s] = q]
          /\ inst' = [i \in Ids |-> IF i \in new THEN "up" ELSE IF i \in old THEN "gone" ELSE inst[i]]
          /\ prov' = [i \in Ids |-> IF i \in old THEN "none" ELSE prov[i]]
          /\ online' = online \ old
  BY Zenon DEF Reapply
<1>0. ran' = ran
  BY DEF Reapply
<1>1. nodes' \in [Stacks -> Lists] /\ nodes'[s] = q /\ \A t \in Stacks \ {s} : nodes'[t] = nodes[t]
  OBVIOUS
<1>2. NodesOf(s)' = Range(q) /\ \A t \in Stacks \ {s} : NodesOf(t)' = NodesOf(t)
  BY <1>1 DEF NodesOf
<1>3. \A t \in Stacks : NodesOf(t) \subseteq Ids /\ NodesOf(t)' \subseteq Ids
  BY <1>1, ListRange DEF NodesOf
<1>4. \A i : i \in Listed <=> \E t \in Stacks : i \in NodesOf(t)
  BY DEF Listed
<1>5. \A i : i \in Listed' <=> \E t \in Stacks : i \in NodesOf(t)'
  BY DEF Listed
<1> DEFINE new == Range(q) \ NodesOf(s)
           old == NodesOf(s) \ Range(q)
<1>6. \A t \in Stacks : new \cap NodesOf(t) = {}
  BY <1>4
<1>7. \A t, u \in Stacks : t # u => NodesOf(t)' \cap NodesOf(u)' = {}
  BY <1>2, <1>6
<1>8. \A t \in Stacks : \A i \in NodesOf(t)' : i \in NodesOf(t) \/ inst[i] = "fresh"
  BY <1>2
<1>9. inst' \in [Ids -> {"fresh", "up", "gone"}] /\ prov' \in [Ids -> Reports]
  BY DEF Reports
<1>10. \A i \in Listed' : inst'[i] # "fresh"
  BY <1>2, <1>3, <1>4, <1>5
<1>11. online' \subseteq {i \in Ids : inst'[i] = "up"}
  OBVIOUS
<1>12. \A i \in Ids : inst'[i] = "up" => i \in Listed'
  BY <1>2, <1>4, <1>5
<1>13. \A i \in Ids \ Listed' : prov'[i] = "none"
  BY <1>2, <1>4, <1>5
<1>. QED BY <1>0, <1>1, <1>7, <1>8, <1>9, <1>10, <1>11, <1>12, <1>13 DEF Stacks

\* What stays as it is if the lists of nodes do.
LEMMA SameNodes ==
  ASSUME nodes' = nodes
  PROVE  Listed' = Listed /\ \A s \in Stacks : NodesOf(s)' = NodesOf(s)
BY DEF Listed, NodesOf

\* Every step leaves the world in order, and a stack gets no node but fresh ones.
LEMMA WorldStep ==
  ASSUME WorldInv, Next
  PROVE  WorldInv' /\ \A s \in Stacks : \A i \in NodesOf(s)' : i \in NodesOf(s) \/ inst[i] = "fresh"
<1>1. CASE Reapply
  BY <1>1, ReapplyStep
<1>2. CASE nodes' = nodes /\ ~Reapply
  <2>1. Listed' = Listed /\ \A s \in Stacks : NodesOf(s)' = NodesOf(s)
    BY <1>2, SameNodes
  <2>2. WorldInv'
    <3> USE DEF WorldInv
    <3>1. CASE world' = world
      BY <3>1, <2>1 DEF world
    <3>2. CASE Report
      BY <3>2, <2>1 DEF Report
    <3>3. CASE Agent
      BY <3>3, <2>1 DEF Agent
    <3>4. CASE Vanish
      BY <3>4, <2>1 DEF Vanish
    <3>5. CASE Invoked
      BY <3>5, <2>1 DEF Invoked, Runs
    <3>6. CASE Send
      BY <3>6, <2>1 DEF Send, Runs, End, world
    <3>. QED
      BY <3>1, <3>2, <3>3, <3>4, <3>5, <3>6, <1>2
         DEF Next, World, Start, Abort, Clock, Steps, Begin, ReadOutputs, Describe, Agents, Provision,
             SetDeadline, Verdict, Show, Sleep, FindInstance, Resolve, Pick, Wait, Result, Session,
             End, world
  <2>. QED BY <2>1, <2>2
<1>. QED
  BY <1>1, <1>2
     DEF Next, World, Report, Agent, Vanish, Invoked, Send, Start, Abort, Clock, Steps, Begin, ReadOutputs,
         Describe, Agents, Provision, SetDeadline, Verdict, Show, Sleep, FindInstance, Resolve, Pick, Wait,
         Result, Session, End, world

\* What a step does to the history of a look under way: fewer nodes have
\* stayed, each where it was; what was reported stays reported.
Continues ==
  /\ stayed' \subseteq stayed
  /\ \A s \in Stacks : stayed' \cap NodesOf(s)' \subseteq NodesOf(s)
  /\ proved \cap stayed' \subseteq proved'
  /\ said \subseteq said'
  /\ flawless' => flawless /\ nodes' = nodes

\* Every step keeps the history true, and that of a look continues.
LEMMA HistoryStep ==
  ASSUME WorldInv, HistoryInv, Next
  PROVE  HistoryInv' /\ (Unwatched \/ Continues) /\ \A i \in stayed' : prov'[i] = "Success" => i \in proved'
<1>. Track
  BY DEF Next
<1>0. WorldInv' /\ \A s \in Stacks : \A i \in NodesOf(s)' : i \in NodesOf(s) \/ inst[i] = "fresh"
  BY WorldStep
<1>1. stayed' \subseteq {i \in Listed' : inst'[i] = "up"} /\ proved' \subseteq stayed'
  BY DEF Track
<1>2. \A i \in Listed' : i \in Ids /\ prov'[i] \in {"none", "Success", "Failed"}
  BY <1>0, ListRange DEF WorldInv, Listed, NodesOf, Reports
<1>3. said' = ({prov'[i] : i \in Listed'} \ {"none"}) \cup IF pc \in {"idle", "start", "sleep"} THEN {} ELSE said
  BY DEF Track
<1>4. said' \subseteq {"Success", "Failed"} /\ \A i \in Listed' : prov'[i] \in said' \cup {"none"}
  BY <1>2, <1>3 DEF HistoryInv
<1>5. flawless' \in BOOLEAN /\ (flawless' => AllWell')
  BY DEF Track
<1>6. ASSUME ~Unwatched PROVE Continues
  <2>1. stayed' \subseteq stayed /\ (flawless' => flawless /\ nodes' = nodes) /\ said \subseteq said'
    BY <1>6, <1>3 DEF Track, Unwatched
  <2>2. proved \cap stayed' \subseteq proved'
    BY <1>6 DEF Track, Unwatched
  <2>3. \A i \in stayed : inst[i] # "fresh"
    BY DEF HistoryInv
  <2>. QED BY <1>0, <2>1, <2>2, <2>3 DEF Continues
<1>7. \A i \in stayed' : prov'[i] = "Success" => i \in proved'
  BY DEF Track
<1>. QED BY <1>1, <1>4, <1>5, <1>6, <1>7 DEF HistoryInv

-----------------------------------------------------------------------------
(* The command: where it is, and what it has seen. *)

Looking == {"outputs", "describe", "agents", "provision", "verdict"}
Reading == Looking \ {"verdict"}
AtNodes == Reading \ {"outputs"}
Sending == {"send", "waiter", "result"}

\* Where the command is.
LookInv ==
  /\ pc \in Labels /\ cmd \in Commands \cup {NoCmd}
  /\ at \in 0 .. N /\ ids \in Lists
  /\ found \in [known : SUBSET Ids, on : SUBSET Ids] /\ view \in View
  /\ deadline \in {"none", "ahead", "past"}
  /\ pc \in {"idle", "start"} => view = Nobody
  /\ Running /\ pc # "start" => IF Watched THEN pc \in Looking \cup {"sleep"} ELSE pc \notin {"outputs", "sleep"}
  /\ pc \in Reading => at \in Stacks
  /\ pc \in AtNodes \cup Sending => ids # <<>>
  /\ ~Watched /\ pc \in Looking => cmd.node = Online

\* The look is past the nodes of stack s.
Past(s) == pc = "verdict" \/ s < at

\* Node i has been seen with Success, or the look has seen something else.
Seen(i) == i \in proved \/ ~(view.reports \subseteq {"Success"})

\* What a look of status has seen so far.
SeenInv ==
  Watched /\ pc \in Looking =>
    /\ view.reports \subseteq said \cup {"none"}
    /\ \A s \in Stacks : Past(s) => \A i \in stayed \cap NodesOf(s) : Seen(i)
    /\ pc \in AtNodes => \A i \in stayed \cap NodesOf(at) : i \in Range(ids) \/ Seen(i)
    /\ pc \in {"agents", "provision"} => stayed \cap Range(ids) \subseteq found.known

\* What it has seen if all nodes were well from its beginning.
WellInv ==
  Watched /\ pc \in Looking /\ flawless =>
    /\ view.reports \subseteq {"Success"}
    /\ \A s \in Stacks : Past(s) /\ NodesOf(s) # {} => view.reports # {}
    /\ pc \in AtNodes => Range(ids) \subseteq NodesOf(at)
    /\ pc \in {"agents", "provision"} => Range(ids) \subseteq found.known

\* Which nodes exec was sent to, and what they answered.
SentInv ==
  /\ results \in Seq(Runs)
  /\ pc \in {"idle", "start", "resolve", "send", "sleep"} \cup Looking => results = <<>> /\ Sent = {}
  /\ pc \in {"send", "waiter"} => cmd.verb = "exec"
  /\ pc \in {"waiter", "result"} /\ cmd.verb = "exec" =>
       /\ Range(ids) \subseteq Sent
       /\ Succeeded(results) => \A i \in Sent \ Range(ids) : ran[i] = "Success"

\* Which nodes exec is for.
AimInv ==
  pc \in Sending /\ cmd.verb = "exec" =>
    /\ cmd.node = All => Target(cmd) \in Stacks
    /\ cmd.node = All /\ pc = "send" => stayed \cap NodesOf(Target(cmd)) \subseteq Range(ids)
    /\ cmd.node = All /\ pc # "send" => stayed \cap NodesOf(Target(cmd)) \subseteq Sent
    /\ cmd.node # All =>
         \E i \in Ids : ids = <<i>> /\ (pc # "send" => Sent = {i}) /\ (ById(cmd) => i = cmd.node)

IInv ==
  /\ WorldInv /\ HistoryInv /\ LookInv /\ SeenInv /\ WellInv
  /\ SentInv /\ AimInv /\ WaitVerdict /\ ExecVerdict

\* The lists of nodes are lists of ids.
LEMMA NodesAreIds ==
  ASSUME WorldInv
  PROVE  /\ \A s \in Stacks : nodes[s] \in Lists /\ NodesOf(s) \subseteq Ids /\ NodesOf(s) \subseteq Listed
         /\ \A i \in Listed : i \in Ids /\ \E s \in Stacks : i \in NodesOf(s)
BY ListRange DEF WorldInv, NodesOf, Listed

\* What others do while a command runs.
LEMMA OthersStep ==
  ASSUME IInv, Next, World \/ Clock
  PROVE  IInv'
<1> USE DEF IInv
<1>1. Running /\ UNCHANGED <<pc, cmd, at, ids, found, view, results>>
  BY DEF World, Clock, Reapply, Report, Agent, Vanish, Invoked, Watched, local
<1>2. Running' /\ Watched' = Watched /\ \A s : Past(s)' = Past(s)
  BY <1>1 DEF Running, Watched, Past
<1>3. deadline' \in {"none", "ahead", "past"}
  BY DEF LookInv, World, Clock, Reapply, Report, Agent, Vanish, Invoked, local
<1>4. ran' = ran \/ \E i \in Ids, r \in {"Success", "Failed"} : ran[i] = "sent" /\ ran' = [ran EXCEPT ![i] = r]
  BY DEF World, Clock, Reapply, Report, Agent, Vanish, Invoked, world
<1>5. Sent' = Sent /\ \A i \in Ids : ran[i] = "Success" => ran'[i] = "Success"
  BY <1>4 DEF Sent, WorldInv
<1>6. WorldInv' /\ HistoryInv' /\ (Unwatched \/ Continues)
  BY WorldStep, HistoryStep
<1>7. LookInv'
  BY <1>1, <1>2, <1>3 DEF LookInv
<1>8. Watched /\ pc \in Looking => Continues
  BY <1>6 DEF Unwatched, Looking
<1>9. SeenInv'
  <2>1. SUFFICES ASSUME Watched, pc \in Looking PROVE SeenInv'
    BY <1>1, <1>2 DEF SeenInv
  <2>2. \A i \in stayed' : Seen(i) => Seen(i)'
    BY <1>1, <1>8, <2>1 DEF Continues, Seen
  <2>3. pc \in AtNodes => at \in Stacks
    BY DEF LookInv, AtNodes, Reading
  <2>. QED BY <1>1, <1>2, <1>8, <2>1, <2>2, <2>3 DEF SeenInv, Continues
<1>10. WellInv'
  BY <1>1, <1>2, <1>8, SameNodes DEF WellInv, Continues, LookInv, AtNodes, Reading
<1>11. SentInv'
  BY <1>1, <1>5, ListRange DEF SentInv, Sent
<1>12. AimInv'
  <2>1. Target(cmd)' = Target(cmd) /\ ById(cmd)' = ById(cmd)
    BY <1>1 DEF Target, ById
  <2>2. pc \in Sending => Continues
    BY <1>6 DEF Unwatched, Sending
  <2>. QED BY <1>1, <1>5, <2>1, <2>2 DEF AimInv, Continues
<1>13. WaitVerdict' /\ ExecVerdict'
  BY <1>2 DEF WaitVerdict, ExecVerdict, Running, Ends
<1>. QED BY <1>6, <1>7, <1>9, <1>10, <1>11, <1>12, <1>13

\* A command ends, with the verdict it owes.
LEMMA EndStep ==
  ASSUME IInv, Next, NEW r \in Ends \ {"idle"}, End(r), WaitVerdict', ExecVerdict'
  PROVE  IInv'
<1> USE DEF IInv
<1>1. pc' = r /\ cmd' = cmd /\ at' = 0 /\ ids' = <<>> /\ found' = Nothing /\ view' = Nobody
      /\ results' = <<>> /\ deadline' = "none"
  BY DEF End
<1>2. WorldInv' /\ HistoryInv'
  BY WorldStep, HistoryStep
<1>3. 0 \in 0 .. N /\ Nobody \in View /\ Nothing \in [known : SUBSET Ids, on : SUBSET Ids]
  BY NodesConstants, EmptyList DEF NodesConstants, Nobody, View, Nothing
<1>4. LookInv'
  BY <1>1, <1>3, EmptyList DEF LookInv, Running, Watched, Ends, Labels, Looking, Reading, AtNodes, Sending
<1>5. SeenInv' /\ WellInv' /\ AimInv'
  BY <1>1 DEF SeenInv, WellInv, AimInv, Looking, Sending, Watched, Running, Ends
<1>6. SentInv'
  BY <1>1 DEF SentInv, Looking, Ends
<1>. QED BY <1>2, <1>4, <1>5, <1>6

\* One that says nothing of the nodes.
LEMMA PlainEnd ==
  ASSUME IInv, Next, NEW r \in {"shown", "error", "nonzero", "session"}, End(r)
  PROVE  IInv'
<1>1. WaitVerdict' /\ ExecVerdict'
  BY DEF WaitVerdict, ExecVerdict, End
<1>. QED BY <1>1, EndStep DEF Ends

-----------------------------------------------------------------------------
(* The steps of a look. *)

\* A step of the command that changes nothing but the command.
LEMMA OwnStep ==
  ASSUME IInv, Next, UNCHANGED world
  PROVE  /\ WorldInv' /\ HistoryInv' /\ (Unwatched \/ Continues)
         /\ nodes' = nodes /\ inst' = inst /\ prov' = prov /\ ran' = ran
         /\ Listed' = Listed /\ Sent' = Sent /\ \A s \in Stacks : NodesOf(s)' = NodesOf(s)
         /\ \A i \in stayed' : prov[i] = "Success" => i \in proved'
BY WorldStep, HistoryStep, SameNodes DEF IInv, world, Sent

\* A command that is not exec, or that has not sent anything, owes nothing.
LEMMA NothingSent ==
  ASSUME IInv, Next, UNCHANGED world, pc' \in Labels, pc' \notin Sending,
         pc \in {"idle", "start", "resolve", "send", "sleep"} \cup Looking,
         pc' \in {"idle", "start", "resolve", "send", "sleep"} \cup Looking,
         UNCHANGED results
  PROVE  SentInv' /\ AimInv' /\ WaitVerdict' /\ ExecVerdict'
<1>1. Sent' = Sent /\ results' = results
  BY OwnStep
<1>2. SentInv'
  BY <1>1 DEF IInv, SentInv, Sending, Looking
<1>3. AimInv' /\ WaitVerdict' /\ ExecVerdict'
  BY DEF AimInv, WaitVerdict, ExecVerdict, Sending, Looking
<1>. QED BY <1>2, <1>3

\* A command begins.
LEMMA StartStep == ASSUME IInv, Next, Start PROVE IInv'
<1> USE DEF IInv
<1>1. pc = "idle" /\ pc' = "start" /\ cmd' \in Commands /\ UNCHANGED <<world, at, ids, found, view, results, deadline>>
  BY DEF Start
<1>2. WorldInv' /\ HistoryInv'
  BY <1>1, OwnStep
<1>3. LookInv'
  BY <1>1 DEF LookInv, Running, Watched, Ends, Labels, Looking, Reading, AtNodes, Sending
<1>4. SeenInv' /\ WellInv'
  BY <1>1 DEF SeenInv, WellInv, Looking
<1>5. SentInv' /\ AimInv' /\ WaitVerdict' /\ ExecVerdict'
  BY <1>1, NothingSent DEF Labels, Sending
<1>. QED BY <1>2, <1>3, <1>4, <1>5

\* A look begins: nothing has been seen, and no stack is behind it.
LEMMA Afresh ==
  ASSUME IInv, Next, pc' = "outputs", at' = 1, view' = Nobody
  PROVE  SeenInv' /\ WellInv'
<1>1. \A s \in Stacks : ~Past(s)'
  BY NodesConstants DEF NodesConstants, Past, Stacks
<1>. QED BY <1>1 DEF SeenInv, WellInv, Nobody, AtNodes, Reading, Looking

LEMMA BeginStep == ASSUME IInv, Next, Begin PROVE IInv'
<1> USE DEF IInv
<1>1. pc = "start" /\ view = Nobody /\ UNCHANGED <<world, cmd, ids, found, view, results, deadline>>
  BY DEF Begin, LookInv
<1>2. \/ pc' = "outputs" /\ at' = 1 /\ Watched
      \/ pc' = "resolve" /\ at' = 0 /\ ~Watched
  BY DEF Begin
<1>3. Watched' = Watched
  BY <1>1, <1>2 DEF Watched, Running, Ends
<1>4. 0 \in 0 .. N /\ 1 \in 0 .. N /\ 1 \in Stacks
  BY NodesConstants DEF NodesConstants, Stacks
<1>5. LookInv'
  BY <1>1, <1>2, <1>3, <1>4 DEF LookInv, Running, Ends, Labels, Looking, Reading, AtNodes, Sending
<1>6. SeenInv' /\ WellInv'
  BY <1>1, <1>2, <1>3, Afresh DEF SeenInv, WellInv, Looking
<1>7. SentInv' /\ AimInv' /\ WaitVerdict' /\ ExecVerdict'
  BY <1>1, <1>2, NothingSent DEF Labels, Sending, Looking
<1>8. WorldInv' /\ HistoryInv'
  BY <1>1, OwnStep
<1>. QED BY <1>5, <1>6, <1>7, <1>8

LEMMA SleepStep == ASSUME IInv, Next, Sleep PROVE IInv'
<1> USE DEF IInv
<1>1. pc = "sleep" /\ pc' = "outputs" /\ at' = 1 /\ view' = Nobody
      /\ UNCHANGED <<world, cmd, ids, found, results, deadline>>
  BY DEF Sleep
<1>2. Watched' = Watched /\ Watched
  BY <1>1 DEF LookInv, Watched, Running, Ends
<1>4. 1 \in 0 .. N /\ 1 \in Stacks /\ Nobody \in View
  BY NodesConstants, EmptyList DEF NodesConstants, Stacks, Nobody, View
<1>5. LookInv'
  BY <1>1, <1>2, <1>4 DEF LookInv, Running, Ends, Labels, Looking, Reading, AtNodes, Sending
<1>6. SeenInv' /\ WellInv'
  BY <1>1, Afresh
<1>7. SentInv' /\ AimInv' /\ WaitVerdict' /\ ExecVerdict'
  BY <1>1, NothingSent DEF Labels, Sending, Looking
<1>8. WorldInv' /\ HistoryInv'
  BY <1>1, OwnStep
<1>. QED BY <1>5, <1>6, <1>7, <1>8

LEMMA SetDeadlineStep == ASSUME IInv, Next, SetDeadline PROVE IInv'
<1> USE DEF IInv
<1>1. pc = "verdict" /\ deadline' = "ahead" /\ UNCHANGED <<world, pc, cmd, at, ids, found, view, results>>
  BY DEF SetDeadline
<1>2. Watched' = Watched /\ (\A s : Past(s)' = Past(s)) /\ Continues
  BY <1>1, OwnStep DEF Watched, Running, Past, Unwatched
<1>3. LookInv'
  BY <1>1, <1>2 DEF LookInv, Running
<1>4. SeenInv'
  <2>1. \A i \in stayed' : Seen(i) => Seen(i)'
    BY <1>1, <1>2 DEF Continues, Seen
  <2>. QED BY <1>1, <1>2, <2>1 DEF SeenInv, Continues, AtNodes, Reading
<1>5. WellInv'
  BY <1>1, <1>2, OwnStep DEF WellInv, Continues, AtNodes, Reading
<1>6. SentInv' /\ AimInv' /\ WaitVerdict' /\ ExecVerdict'
  BY <1>1, NothingSent DEF Labels, Sending, Looking
<1>7. WorldInv' /\ HistoryInv'
  BY <1>1, OwnStep
<1>. QED BY <1>3, <1>4, <1>5, <1>6, <1>7

\* The look is done with a stack, and has seen q.
LEMMA OnwardStep ==
  ASSUME IInv, Next, pc \in {"outputs", "provision"}, UNCHANGED <<world, cmd, results, deadline>>,
         NEW q \in View, Onward(at, q), view.reports \subseteq q.reports,
         Watched => /\ q.reports \subseteq said \cup {"none"}
                    /\ \A i \in stayed' \cap NodesOf(at) : i \in proved' \/ ~(q.reports \subseteq {"Success"}),
         Watched /\ flawless' => /\ q.reports \subseteq {"Success"}
                                 /\ NodesOf(at) # {} => q.reports # {}
  PROVE  IInv'
<1> USE DEF IInv
<1>1. at \in Stacks /\ ids' = <<>> /\ found' = Nothing /\ view' = q
  BY DEF LookInv, Reading, Looking, Onward
<1>2. \/ pc' = "outputs" /\ at' = at + 1 /\ at < N /\ Watched
      \/ pc' = "verdict" /\ at' = 0 /\ (Watched => at = N)
  BY <1>1, NodesConstants DEF NodesConstants, Onward, Stacks
<1>3. at' \in 0 .. N /\ (pc' = "outputs" => at' \in Stacks)
  BY <1>1, <1>2, NodesConstants DEF NodesConstants, Stacks
<1>4. Watched' = Watched /\ Running /\ Running'
  BY <1>2 DEF Watched, Running, Ends
<1>5. Continues /\ WorldInv' /\ HistoryInv' /\ \A s \in Stacks : NodesOf(s)' = NodesOf(s)
  BY OwnStep DEF Unwatched
<1>6. Nothing \in [known : SUBSET Ids, on : SUBSET Ids]
  BY DEF Nothing
<1>7. LookInv'
  BY <1>1, <1>2, <1>3, <1>4, <1>6, EmptyList
     DEF LookInv, Running, Ends, Labels, Looking, Reading, AtNodes, Sending
<1>8. Watched => \A s \in Stacks : Past(s)' => Past(s) \/ s = at
  BY <1>1, <1>2, NodesConstants DEF NodesConstants, Past, Stacks
<1>9. SeenInv'
  <2>1. SUFFICES ASSUME Watched PROVE SeenInv'
    BY <1>4 DEF SeenInv
  <2>2. \A i \in stayed' : Seen(i) => Seen(i)'
    BY <1>1, <1>5 DEF Continues, Seen
  <2>3. \A i \in stayed' \cap NodesOf(at) : Seen(i)'
    BY <1>1, <2>1 DEF Seen
  <2>4. ASSUME NEW s \in Stacks, Past(s)', NEW i \in stayed' \cap NodesOf(s)' PROVE Seen(i)'
    BY <1>5, <1>8, <2>1, <2>2, <2>3, <2>4 DEF SeenInv, Looking, Continues
  <2>5. view'.reports \subseteq said' \cup {"none"}
    BY <1>1, <1>5, <2>1 DEF Continues
  <2>. QED BY <1>2, <2>4, <2>5 DEF SeenInv, AtNodes, Reading, Looking
<1>10. WellInv'
  <2>1. SUFFICES ASSUME Watched, flawless' PROVE WellInv'
    BY <1>4 DEF WellInv
  <2>2. \A s \in Stacks : Past(s) /\ NodesOf(s) # {} => q.reports # {}
    BY <1>5, <2>1 DEF WellInv, Continues, Looking
  <2>. QED BY <1>1, <1>2, <1>5, <1>8, <2>1, <2>2 DEF WellInv, AtNodes, Reading, Looking
<1>11. SentInv' /\ AimInv' /\ WaitVerdict' /\ ExecVerdict'
  BY <1>2, NothingSent DEF Labels, Sending, Looking
<1>. QED BY <1>5, <1>7, <1>9, <1>10, <1>11

LEMMA ReadOutputsStep == ASSUME IInv, Next, ReadOutputs PROVE IInv'
<1> USE DEF IInv
<1>1. pc = "outputs" /\ UNCHANGED <<world, cmd, results, deadline>> /\ at \in Stacks /\ Watched /\ Running
  BY DEF ReadOutputs, LookInv, Reading, Looking, Running, Ends
<1>2. Continues /\ WorldInv' /\ HistoryInv' /\ \A s \in Stacks : NodesOf(s)' = NodesOf(s)
  BY <1>1, OwnStep DEF Unwatched
<1>3. CASE nodes[at] = <<>>
  <2>1. Onward(at, view) /\ view \in View
    BY <1>3 DEF ReadOutputs, LookInv
  <2>2. NodesOf(at) = {}
    BY <1>3, EmptyList DEF NodesOf
  <2>3. view.reports \subseteq said \cup {"none"}
    BY <1>1 DEF SeenInv, Looking
  <2>4. flawless' => view.reports \subseteq {"Success"}
    BY <1>1, <1>2 DEF WellInv, Looking, Continues
  <2>. QED BY <1>1, <2>1, <2>2, <2>3, <2>4, OnwardStep
<1>4. CASE nodes[at] # <<>>
  <2>1. pc' = "describe" /\ ids' = nodes[at] /\ UNCHANGED <<at, found, view>>
    BY <1>4 DEF ReadOutputs
  <2>2. Watched' /\ Running' /\ \A s \in Stacks : Past(s)' = Past(s)
    BY <1>1, <2>1 DEF Watched, Running, Ends, Past
  <2>3. nodes[at] \in Lists
    BY <1>1 DEF WorldInv
  <2>4. LookInv'
    BY <1>1, <1>4, <2>1, <2>2, <2>3 DEF LookInv, Labels, Looking, Reading, AtNodes, Sending
  <2>5. Range(ids)' = NodesOf(at)
    BY <2>1 DEF NodesOf
  <2>6. \A i \in stayed' : Seen(i) => Seen(i)'
    BY <1>2, <2>1 DEF Continues, Seen
  <2>7. SeenInv'
    BY <1>1, <1>2, <2>1, <2>2, <2>5, <2>6 DEF SeenInv, Continues, Looking
  <2>8. WellInv'
    BY <1>1, <1>2, <2>1, <2>2, <2>5 DEF WellInv, Continues, Looking
  <2>9. SentInv' /\ AimInv' /\ WaitVerdict' /\ ExecVerdict'
    BY <1>1, <2>1, NothingSent DEF Labels, Sending, Looking
  <2>. QED BY <1>2, <2>4, <2>7, <2>8, <2>9
<1>. QED BY <1>3, <1>4

LEMMA DescribeStep == ASSUME IInv, Next, Describe PROVE IInv'
<1> USE DEF IInv
<1>1. pc = "describe" /\ pc' = "agents" /\ UNCHANGED <<world, cmd, at, ids, view, results, deadline>>
  BY DEF Describe
<1>2. PICK gone \in SUBSET {i \in Range(ids) : inst[i] = "gone"} : found' = [known |-> Range(ids) \ gone, on |-> {}]
  BY DEF Describe
<1>3. Continues /\ WorldInv' /\ HistoryInv' /\ \A s \in Stacks : NodesOf(s)' = NodesOf(s)
  BY <1>1, OwnStep DEF Unwatched
<1>4. Watched' = Watched /\ Running /\ Running' /\ (\A s : Past(s)' = Past(s)) /\ at \in Stacks
  BY <1>1 DEF Watched, Running, Ends, Past, LookInv, Reading, Looking
<1>5. found'.known \subseteq Range(ids) /\ Range(ids) \subseteq Ids
  BY <1>2, ListRange DEF LookInv
<1>6. found' \in [known : SUBSET Ids, on : SUBSET Ids]
  BY <1>2, <1>5
<1>7. LookInv'
  BY <1>1, <1>4, <1>6 DEF LookInv, Labels, Looking, Reading, AtNodes, Sending
<1>8. \A i \in stayed' : Seen(i) => Seen(i)'
  BY <1>1, <1>3 DEF Continues, Seen
<1>9. stayed' \cap Range(ids) \subseteq found'.known
  BY <1>2, <1>3 DEF HistoryInv, Continues
<1>10. SeenInv'
  BY <1>1, <1>3, <1>4, <1>8, <1>9 DEF SeenInv, Continues, Looking, AtNodes, Reading
<1>11. WellInv'
  <2>1. SUFFICES ASSUME Watched, flawless' PROVE WellInv'
    BY <1>4 DEF WellInv
  <2>2. Range(ids) \subseteq NodesOf(at) /\ AllWell
    BY <1>1, <1>3, <2>1 DEF WellInv, Continues, HistoryInv, Looking, AtNodes, Reading
  <2>3. gone = {}
    BY <1>4, <2>2, NodesAreIds DEF AllWell
  <2>4. Range(ids) \subseteq found'.known
    BY <1>2, <2>3
  <2>. QED BY <1>1, <1>3, <1>4, <2>1, <2>4 DEF WellInv, Continues, Looking, AtNodes, Reading
<1>12. SentInv' /\ AimInv' /\ WaitVerdict' /\ ExecVerdict'
  BY <1>1, NothingSent DEF Labels, Sending, Looking
<1>. QED BY <1>3, <1>7, <1>10, <1>11, <1>12

LEMMA AgentsStep == ASSUME IInv, Next, Agents PROVE IInv'
<1> USE DEF IInv
<1>1. pc = "agents" /\ pc' = "provision" /\ UNCHANGED <<world, cmd, at, ids, view, results, deadline>>
  BY DEF Agents
<1>2. found'.known = found.known /\ found' \in [known : SUBSET Ids, on : SUBSET Ids]
  BY DEF Agents, LookInv
<1>3. Continues /\ WorldInv' /\ HistoryInv' /\ \A s \in Stacks : NodesOf(s)' = NodesOf(s)
  BY <1>1, OwnStep DEF Unwatched
<1>4. Watched' = Watched /\ Running /\ Running' /\ (\A s : Past(s)' = Past(s)) /\ at \in Stacks
  BY <1>1 DEF Watched, Running, Ends, Past, LookInv, Reading, Looking
<1>7. LookInv'
  BY <1>1, <1>2, <1>4 DEF LookInv, Labels, Looking, Reading, AtNodes, Sending
<1>8. \A i \in stayed' : Seen(i) => Seen(i)'
  BY <1>1, <1>3 DEF Continues, Seen
<1>10. SeenInv'
  BY <1>1, <1>2, <1>3, <1>4, <1>8 DEF SeenInv, Continues, Looking, AtNodes, Reading
<1>11. WellInv'
  BY <1>1, <1>2, <1>3, <1>4 DEF WellInv, Continues, Looking, AtNodes, Reading
<1>12. SentInv' /\ AimInv' /\ WaitVerdict' /\ ExecVerdict'
  BY <1>1, NothingSent DEF Labels, Sending, Looking
<1>. QED BY <1>3, <1>7, <1>10, <1>11, <1>12

\* The next node has been asked for its provisioning.
LEMMA ProvisionStep == ASSUME IInv, Next, Provision PROVE IInv'
<1> USE DEF IInv
<1> DEFINE i == Head(ids)
           first == IF view.online = <<>> /\ i \in found.on THEN <<i>> ELSE view.online
           q == IF i \in found.known
                THEN [reports |-> view.reports \cup {prov[i]}, online |-> first]
                ELSE view
<1>1. pc = "provision" /\ UNCHANGED <<world, cmd, results, deadline>> /\ at \in Stacks /\ ids \in Lists /\ ids # <<>>
  BY DEF Provision, LookInv, Looking, Reading, AtNodes
<1>2. /\ i \in Ids /\ Tail(ids) \in Lists /\ Range(ids) = {i} \cup Range(Tail(ids)) /\ i \notin Range(Tail(ids))
      /\ Len(ids) = 1 => Range(ids) = {i}
      /\ Len(ids) # 1 => Tail(ids) # <<>>
  BY <1>1, HeadAndTail
<1>3. IF Len(ids) = 1 THEN Onward(at, q) ELSE view' = q /\ ids' = Tail(ids) /\ UNCHANGED <<pc, at, found>>
  BY Zenon DEF Provision
<1>4. Continues /\ WorldInv' /\ HistoryInv' /\ \A s \in Stacks : NodesOf(s)' = NodesOf(s)
  BY <1>1, OwnStep DEF Unwatched
<1>5. prov[i] \in Reports /\ view \in View
  BY <1>2 DEF WorldInv, LookInv
<1>6. q \in View
  <2>1. <<i>> \in Lists /\ Len(<<i>>) <= 1
    BY <1>2, SingleList
  <2>2. first \in {l \in Lists : Len(l) <= 1}
    BY <1>5, <2>1 DEF View
  <2>. QED BY <1>5, <2>2 DEF View
<1>7. q.reports = IF i \in found.known THEN view.reports \cup {prov[i]} ELSE view.reports
  BY <1>6
<1>8. view.reports \subseteq q.reports
  BY <1>7
<1>9. ASSUME Watched PROVE q.reports \subseteq said \cup {"none"} /\ q.reports \subseteq said' \cup {"none"}
  <2>1. prov[i] \in said \cup {"none"}
    BY <1>2 DEF HistoryInv, WorldInv
  <2>. QED BY <1>1, <1>4, <1>7, <1>9, <2>1 DEF SeenInv, Looking, Continues
<1>10. ASSUME Watched, NEW j \in stayed' \cap NodesOf(at)
       PROVE  j \in Range(Tail(ids)) \/ j \in proved' \/ ~(q.reports \subseteq {"Success"})
  <2>1. j \in stayed \cap NodesOf(at)
    BY <1>4, <1>10 DEF Continues
  <2>2. j \in Range(ids) \/ Seen(j)
    BY <1>1, <1>10, <2>1 DEF SeenInv, Looking, AtNodes, Reading
  <2>3. CASE j = i
    <3>1. i \in found.known
      BY <1>1, <1>2, <1>10, <2>1, <2>3 DEF SeenInv, Looking
    <3>2. prov[i] = "Success" => i \in proved'
      BY <1>1, <1>10, <2>3, OwnStep
    <3>. QED BY <1>7, <2>3, <3>1, <3>2
  <2>4. CASE Seen(j)
    BY <1>4, <1>8, <1>10, <2>4 DEF Seen, Continues
  <2>. QED BY <1>2, <2>2, <2>3, <2>4
<1>11. ASSUME Watched, flawless'
       PROVE  q.reports \subseteq {"Success"} /\ q.reports # {} /\ Range(ids) \subseteq NodesOf(at) \cap found.known
  <2>1. flawless /\ AllWell
    BY <1>4, <1>11 DEF Continues, HistoryInv
  <2>2. Range(ids) \subseteq NodesOf(at) /\ Range(ids) \subseteq found.known /\ view.reports \subseteq {"Success"}
    BY <1>1, <1>11, <2>1 DEF WellInv, Looking, AtNodes, Reading
  <2>3. prov[i] = "Success"
    BY <1>1, <1>2, <2>1, <2>2, NodesAreIds DEF AllWell
  <2>. QED BY <1>2, <1>7, <2>2, <2>3
<1> HIDE DEF q
<1>12. CASE Len(ids) = 1
  <2>1. Watched => \A j \in stayed' \cap NodesOf(at) : j \in proved' \/ ~(q.reports \subseteq {"Success"})
    BY <1>2, <1>10, <1>12
  <2>. QED BY <1>1, <1>3, <1>6, <1>8, <1>9, <1>11, <1>12, <2>1, OnwardStep
<1>13. CASE Len(ids) # 1
  <2>1. view' = q /\ ids' = Tail(ids) /\ UNCHANGED <<pc, at, found>>
    BY <1>3, <1>13
  <2>2. Watched' = Watched /\ Running' = Running /\ \A s \in Stacks : Past(s)' = Past(s)
    BY <2>1, <1>1 DEF Watched, Running, Past
  <2>3. LookInv'
    BY <1>1, <1>2, <1>6, <1>13, <2>1, <2>2 DEF LookInv, Labels, Looking, Reading, AtNodes, Sending
  <2>4. SeenInv'
    <3>1. SUFFICES ASSUME Watched PROVE SeenInv'
      BY <2>2 DEF SeenInv
    <3>2. ASSUME NEW s \in Stacks, Past(s)', NEW j \in stayed' \cap NodesOf(s)' PROVE Seen(j)'
      <4>1. Seen(j)
        BY <1>1, <1>4, <2>2, <3>1, <3>2 DEF SeenInv, Looking, Continues
      <4>. QED BY <1>4, <1>8, <2>1, <3>2, <4>1 DEF Seen, Continues
    <3>3. \A j \in stayed' \cap NodesOf(at)' : j \in Range(ids)' \/ Seen(j)'
      BY <1>1, <1>4, <1>10, <2>1, <3>1 DEF Seen
    <3>4. stayed' \cap Range(ids)' \subseteq found'.known
      BY <1>1, <1>2, <1>4, <2>1, <3>1 DEF SeenInv, Looking, Continues
    <3>. QED BY <1>9, <2>1, <3>1, <3>2, <3>3, <3>4 DEF SeenInv
  <2>5. WellInv'
    <3>1. Watched /\ flawless' => Range(ids)' \subseteq NodesOf(at)' /\ Range(ids)' \subseteq found'.known
      BY <1>1, <1>2, <1>4, <1>11, <2>1
    <3>. QED BY <1>11, <2>1, <2>2, <3>1 DEF WellInv
  <2>6. SentInv' /\ AimInv' /\ WaitVerdict' /\ ExecVerdict'
    BY <1>1, <2>1, NothingSent DEF Labels, Sending, Looking
  <2>. QED BY <1>4, <2>3, <2>4, <2>5, <2>6
<1>. QED BY <1>12, <1>13

\* What `status --wait` makes of the look it has finished.
LEMMA VerdictStep == ASSUME IInv, Next, Verdict PROVE IInv'
<1> USE DEF IInv
<1>1. pc = "verdict" /\ cmd.verb = "wait" /\ UNCHANGED <<world, cmd>> /\ Watched /\ Running
  BY DEF Verdict, End, local, Watched, Running, Ends
<1>2. Continues /\ WorldInv' /\ HistoryInv' /\ \A s \in Stacks : NodesOf(s)' = NodesOf(s)
  BY <1>1, OwnStep DEF Unwatched
<1>3. view.reports \subseteq said' \cup {"none"}
  BY <1>1, <1>2 DEF SeenInv, Looking, Continues
<1>4. flawless' => view.reports = {"Success"}
  <2>1. ASSUME flawless' PROVE view.reports = {"Success"}
    <3>1. flawless /\ AllWell
      BY <1>2, <2>1 DEF Continues, HistoryInv
    <3>2. PICK s \in Stacks : NodesOf(s) # {}
      BY <3>1, NodesAreIds DEF AllWell
    <3>3. Past(s)
      BY <1>1 DEF Past
    <3>. QED BY <1>1, <3>1, <3>2, <3>3 DEF WellInv, Looking
  <2>. QED BY <2>1
<1>5. view.reports \subseteq {"Success"} => stayed' = proved'
  <2>1. ASSUME view.reports \subseteq {"Success"}, NEW i \in stayed' PROVE i \in proved'
    <3>1. PICK s \in Stacks : i \in NodesOf(s)
      BY <1>2, NodesAreIds DEF Continues, HistoryInv
    <3>2. Seen(i)
      BY <1>1, <1>2, <3>1 DEF SeenInv, Looking, Past, Continues
    <3>. QED BY <1>2, <2>1, <3>2 DEF Seen, Continues
  <2>. QED BY <1>2, <2>1 DEF HistoryInv
<1>6. CASE ProvisionFailed(view) /\ End("nodefailed")
  <2>1. WaitVerdict' /\ ExecVerdict'
    BY <1>3, <1>6 DEF WaitVerdict, ExecVerdict, End, ProvisionFailed
  <2>. QED BY <1>6, <2>1, EndStep DEF Ends
<1>7. CASE AllProvisioned(view) /\ End("ok")
  <2>1. WaitVerdict' /\ ExecVerdict'
    BY <1>1, <1>3, <1>5, <1>7 DEF WaitVerdict, ExecVerdict, End, AllProvisioned
  <2>. QED BY <1>7, <2>1, EndStep DEF Ends
<1>8. CASE ~AllProvisioned(view) /\ End("timeout")
  <2>1. WaitVerdict' /\ ExecVerdict'
    BY <1>4, <1>8 DEF WaitVerdict, ExecVerdict, End, AllProvisioned
  <2>. QED BY <1>8, <2>1, EndStep DEF Ends
<1>9. CASE pc' = "sleep" /\ UNCHANGED <<world, local>>
  <2>1. UNCHANGED <<cmd, at, ids, found, view, results, deadline>> /\ Watched' /\ Running'
    BY <1>1, <1>9 DEF local, Watched, Running, Ends
  <2>2. LookInv'
    BY <1>1, <1>9, <2>1 DEF LookInv, Labels, Looking, Reading, AtNodes, Sending
  <2>3. SeenInv' /\ WellInv'
    BY <1>9 DEF SeenInv, WellInv, Looking
  <2>4. SentInv' /\ AimInv' /\ WaitVerdict' /\ ExecVerdict'
    BY <1>1, <1>9, <2>1, NothingSent DEF Labels, Sending, Looking
  <2>. QED BY <1>2, <2>2, <2>3, <2>4
<1>. QED BY <1>6, <1>7, <1>8, <1>9 DEF Verdict

-----------------------------------------------------------------------------
(* The steps of exec, connect and cli. *)

\* Such a command has no look of status under way.
LEMMA NoLook ==
  ASSUME cmd' = cmd, ~Watched, Running
  PROVE  ~Watched' /\ SeenInv' /\ WellInv'
BY DEF Watched, SeenInv, WellInv

\* It is to act on the nodes of q.
LEMMA TakeStep ==
  ASSUME IInv, Next, UNCHANGED <<world, cmd, at, found, results, deadline>>,
         pc \in {"resolve", "verdict"}, ~Watched, Running,
         NEW q \in Lists, q # <<>>, ids' = q, pc' = Acts(cmd), view' \in View,
         cmd.verb = "exec" /\ cmd.node = All =>
           Target(cmd) \in Stacks /\ q = nodes[Target(cmd)],
         cmd.verb = "exec" /\ cmd.node # All =>
           \E i \in Ids : q = <<i>> /\ (ById(cmd) => i = cmd.node)
  PROVE  IInv'
<1> USE DEF IInv
<1>1. pc' \in {"send", "result"} /\ (pc' = "send" <=> cmd.verb = "exec")
  BY DEF Acts
<1>2. Continues /\ WorldInv' /\ HistoryInv' /\ Sent' = Sent /\ \A s \in Stacks : NodesOf(s)' = NodesOf(s)
  BY OwnStep DEF Unwatched
<1>3. ~Watched' /\ SeenInv' /\ WellInv'
  BY NoLook
<1>4. LookInv'
  BY <1>1, <1>3 DEF LookInv, Labels, Looking, Reading, AtNodes, Running, Ends
<1>5. SentInv'
  BY <1>1, <1>2 DEF SentInv, Looking
<1>6. Target(cmd)' = Target(cmd) /\ ById(cmd)' = ById(cmd)
  BY DEF Target, ById
<1>7. AimInv'
  <2>1. SUFFICES ASSUME cmd.verb = "exec", pc' = "send" PROVE AimInv'
    BY <1>1 DEF AimInv
  <2>2. CASE cmd.node = All
    <3>1. Range(ids)' = NodesOf(Target(cmd))
      BY <2>1, <2>2 DEF NodesOf
    <3>. QED BY <1>2, <1>6, <2>1, <2>2, <3>1 DEF AimInv
  <2>3. CASE cmd.node # All
    BY <1>6, <2>1, <2>3 DEF AimInv
  <2>. QED BY <2>2, <2>3
<1>8. WaitVerdict' /\ ExecVerdict'
  BY <1>1 DEF WaitVerdict, ExecVerdict
<1>. QED BY <1>2, <1>3, <1>4, <1>5, <1>7, <1>8

LEMMA FindInstanceStep == ASSUME IInv, Next, FindInstance PROVE IInv'
<1> USE DEF IInv
<1>1. pc = "resolve" /\ ById(cmd) /\ UNCHANGED <<world, cmd>> /\ ~Watched /\ Running
  BY DEF FindInstance, End, LookInv, Looking, Running, Ends
<1>2. CASE End("error")
  BY <1>2, PlainEnd
<1>3. CASE ids' = <<cmd.node>> /\ pc' = Acts(cmd) /\ UNCHANGED <<world, cmd, at, found, view, results, deadline>>
  <2>1. cmd.node \in Ids /\ cmd.node # All
    BY <1>1, NodesConstants DEF NodesConstants, ById
  <2>2. <<cmd.node>> \in Lists /\ <<cmd.node>> # <<>> /\ view' \in View
    BY <1>3, <2>1, SingleList DEF LookInv
  <2>. QED BY <1>1, <1>3, <2>1, <2>2, TakeStep
<1>4. CASE at # N /\ at' = at + 1 /\ UNCHANGED <<world, pc, cmd, ids, found, view, results, deadline>>
  <2>1. ~Watched' /\ SeenInv' /\ WellInv'
    BY <1>1, <1>4, NoLook
  <2>2. at' \in 0 .. N
    BY <1>4, NodesConstants DEF NodesConstants, LookInv
  <2>3. LookInv'
    BY <1>1, <1>4, <2>1, <2>2 DEF LookInv, Running, Ends, Looking, Reading, AtNodes, Sending
  <2>4. SentInv' /\ AimInv' /\ WaitVerdict' /\ ExecVerdict'
    BY <1>1, <1>4, NothingSent DEF Labels, Sending, Looking
  <2>5. WorldInv' /\ HistoryInv'
    BY <1>1, OwnStep
  <2>. QED BY <2>1, <2>3, <2>4, <2>5
<1>. QED BY <1>2, <1>3, <1>4 DEF FindInstance

LEMMA ResolveStep == ASSUME IInv, Next, Resolve PROVE IInv'
<1> USE DEF IInv
<1> DEFINE s == Target(cmd)
           all == IF s \in Stacks THEN nodes[s] ELSE <<>>
           n == cmd.node
           Take(q) == /\ ids' = q /\ pc' = Acts(cmd)
                      /\ UNCHANGED <<world, cmd, at, found, view, results, deadline>>
<1>1. pc = "resolve" /\ UNCHANGED <<world, cmd>> /\ ~Watched /\ Running /\ view \in View
  BY DEF Resolve, End, LookInv, Looking, Running, Ends
<1>2. all # <<>> => s \in Stacks /\ all = nodes[s] /\ all \in Lists
  BY DEF WorldInv
<1>3. n = Online => n # All /\ ~ById(cmd)
  BY NodesConstants DEF NodesConstants, ById
<1>4. n \in 1 .. MaxNodes => n # All /\ ~ById(cmd)
  BY NodesConstants DEF NodesConstants, ById
<1>5. n \in Ids => n # All
  BY NodesConstants DEF NodesConstants
<1>6. \/ End("error")
      \/ all # <<>> /\ n = All /\ Take(all)
      \/ all # <<>> /\ ById(cmd) /\ n \in Range(all) /\ Take(<<n>>)
      \/ all # <<>> /\ n \in 1 .. MaxNodes /\ n <= Len(all) /\ Take(<<all[n]>>)
      \/ /\ all # <<>> /\ n = Online
         /\ ids' = all /\ at' = s /\ pc' = "describe"
         /\ UNCHANGED <<world, cmd, found, view, results, deadline>>
  BY DEF Resolve
<1> HIDE DEF all, s
<1>7. CASE End("error")
  BY <1>7, PlainEnd
<1>8. CASE all # <<>> /\ n = All /\ Take(all)
  BY <1>1, <1>2, <1>8, TakeStep DEF s
<1>9. CASE all # <<>> /\ ById(cmd) /\ n \in Range(all) /\ Take(<<n>>)
  <2>1. <<n>> \in Lists /\ <<n>> # <<>> /\ n \in Ids
    BY <1>9, SingleList DEF ById
  <2>. QED BY <1>1, <1>5, <1>9, <2>1, TakeStep
<1>10. CASE all # <<>> /\ n \in 1 .. MaxNodes /\ n <= Len(all) /\ Take(<<all[n]>>)
  <2>1. all[n] \in Ids
    BY <1>2, <1>10, IsList
  <2>2. <<all[n]>> \in Lists /\ <<all[n]>> # <<>>
    BY <2>1, SingleList
  <2>. QED BY <1>1, <1>4, <1>10, <2>1, <2>2, TakeStep
<1>11. CASE /\ all # <<>> /\ n = Online
            /\ ids' = all /\ at' = s /\ pc' = "describe"
            /\ UNCHANGED <<world, cmd, found, view, results, deadline>>
  <2>1. ~Watched' /\ SeenInv' /\ WellInv'
    BY <1>1, NoLook
  <2>2. s \in 0 .. N /\ s \in Stacks
    BY <1>2, <1>11 DEF Stacks
  <2>3. LookInv'
    BY <1>2, <1>11, <2>1, <2>2 DEF LookInv, Labels, Running, Ends, Looking, Reading, AtNodes, Sending
  <2>4. SentInv' /\ AimInv' /\ WaitVerdict' /\ ExecVerdict'
    BY <1>1, <1>11, NothingSent DEF Labels, Sending, Looking
  <2>5. WorldInv' /\ HistoryInv'
    BY <1>1, OwnStep
  <2>. QED BY <2>1, <2>3, <2>4, <2>5
<1>. QED BY <1>6, <1>7, <1>8, <1>9, <1>10, <1>11

LEMMA PickStep == ASSUME IInv, Next, Pick PROVE IInv'
<1> USE DEF IInv
<1>1. pc = "verdict" /\ ~Watched /\ Running /\ cmd.node = Online /\ view \in View
  BY DEF Pick, LookInv, Running, Ends, Looking
<1>2. CASE End("error")
  BY <1>2, PlainEnd
<1>3. CASE /\ view.online # <<>> /\ ids' = view.online /\ pc' = Acts(cmd) /\ view' = Nobody
           /\ UNCHANGED <<world, cmd, at, found, results, deadline>>
  <2>1. view.online \in Lists /\ Len(view.online) <= 1
    BY <1>1 DEF View
  <2>3. \E i \in Ids : view.online = <<i>>
    BY <1>3, <2>1, AtMostOne
  <2>4. cmd.node # All /\ ~ById(cmd)
    BY <1>1, NodesConstants DEF NodesConstants, ById
  <2>5. view' \in View
    BY <1>3, EmptyList DEF View, Nobody
  <2>. QED BY <1>1, <1>3, <2>1, <2>3, <2>4, <2>5, TakeStep
<1>. QED BY <1>2, <1>3 DEF Pick

\* exec is sent to all its nodes at once.
LEMMA SendStep == ASSUME IInv, Next, Send PROVE IInv'
<1> USE DEF IInv
<1>1. pc = "send" /\ cmd.verb = "exec" /\ ~Watched /\ Running /\ results = <<>> /\ Sent = {} /\ ids \in Lists
  BY DEF Send, SentInv, LookInv, Watched, Running, Ends
<1>2. CASE End("error")
  BY <1>2, PlainEnd
<1>3. CASE /\ ran' = [i \in Ids |-> IF i \in Range(ids) THEN "sent" ELSE ran[i]] /\ pc' = "waiter"
           /\ UNCHANGED <<nodes, inst, prov, online, local>>
  <2>1. UNCHANGED <<nodes, cmd, at, ids, found, view, results, deadline>>
    BY <1>3 DEF local
  <2>2. WorldInv' /\ HistoryInv' /\ Continues
    BY <1>1, WorldStep, HistoryStep DEF Unwatched
  <2>3. ~Watched' /\ SeenInv' /\ WellInv'
    BY <1>1, <2>1, NoLook
  <2>4. LookInv'
    BY <1>1, <1>3, <2>1, <2>3 DEF LookInv, Labels, Running, Ends, Looking, Reading, AtNodes, Sending
  <2>5. Sent' = Range(ids)
    <3>1. Range(ids) \subseteq Ids
      BY <1>1, ListRange
    <3>2. \A i \in Ids : ran[i] = "none"
      BY <1>1 DEF Sent
    <3>. QED BY <1>3, <3>1, <3>2 DEF Sent
  <2>6. SentInv'
    BY <1>1, <1>3, <2>1, <2>5 DEF SentInv, Looking
  <2>7. Target(cmd)' = Target(cmd) /\ ById(cmd)' = ById(cmd)
    BY <2>1 DEF Target, ById
  <2>8. AimInv'
    <3>1. CASE cmd.node = All
      BY <1>1, <1>3, <2>1, <2>2, <2>5, <2>7, <3>1 DEF AimInv, Sending, Continues
    <3>2. CASE cmd.node # All
      <4>1. PICK i \in Ids : ids = <<i>> /\ (ById(cmd) => i = cmd.node)
        BY <1>1, <3>2 DEF AimInv, Sending
      <4>2. Sent' = {i}
        BY <2>5, <4>1, SingleList
      <4>. QED BY <2>1, <2>7, <3>2, <4>1, <4>2 DEF AimInv
    <3>. QED BY <3>1, <3>2
  <2>9. WaitVerdict' /\ ExecVerdict'
    BY <1>3 DEF WaitVerdict, ExecVerdict
  <2>. QED BY <2>2, <2>3, <2>4, <2>6, <2>8, <2>9
<1>. QED BY <1>2, <1>3 DEF Send

LEMMA WaitStep == ASSUME IInv, Next, Wait PROVE IInv'
<1> USE DEF IInv
<1>1. pc = "waiter" /\ pc' = "result" /\ UNCHANGED <<world, cmd, at, ids, found, view, results, deadline>>
      /\ cmd.verb = "exec" /\ ~Watched /\ Running
  BY DEF Wait, local, SentInv, Watched, Running, Ends
<1>2. WorldInv' /\ HistoryInv' /\ Continues /\ Sent' = Sent /\ ran' = ran /\ \A s \in Stacks : NodesOf(s)' = NodesOf(s)
  BY <1>1, OwnStep DEF Unwatched
<1>3. ~Watched' /\ SeenInv' /\ WellInv'
  BY <1>1, NoLook
<1>4. LookInv'
  BY <1>1, <1>3 DEF LookInv, Labels, Running, Ends, Looking, Reading, AtNodes, Sending
<1>5. SentInv'
  BY <1>1, <1>2 DEF SentInv, Looking
<1>6. Target(cmd)' = Target(cmd) /\ ById(cmd)' = ById(cmd)
  BY <1>1 DEF Target, ById
<1>7. AimInv'
  BY <1>1, <1>2, <1>6 DEF AimInv, Sending, Continues
<1>8. WaitVerdict' /\ ExecVerdict'
  BY <1>1 DEF WaitVerdict, ExecVerdict
<1>. QED BY <1>2, <1>3, <1>4, <1>5, <1>7, <1>8

\* One more answer.
LEMMA OneMoreAnswer ==
  ASSUME NEW q \in Seq(Runs), NEW r \in Runs
  PROVE  Append(q, r) \in Seq(Runs) /\ (Succeeded(Append(q, r)) => Succeeded(q) /\ r = "Success")
<1>1. /\ Append(q, r) \in Seq(Runs) /\ Len(Append(q, r)) = Len(q) + 1 /\ Len(q) \in Nat
      /\ \A k \in 1 .. Len(q) : Append(q, r)[k] = q[k]
      /\ Append(q, r)[Len(q) + 1] = r
  OBVIOUS
<1>2. DOMAIN Append(q, r) = 1 .. Len(q) + 1 /\ DOMAIN q = 1 .. Len(q)
  BY <1>1
<1>. QED BY <1>1, <1>2 DEF Succeeded

LEMMA ResultStep == ASSUME IInv, Next, Result PROVE IInv'
<1> USE DEF IInv
<1> DEFINE i == Head(ids)
           q == Append(results, ran[i])
<1>1. pc = "result" /\ cmd.verb = "exec" /\ ~Watched /\ Running /\ UNCHANGED <<world, cmd>>
      /\ ids \in Lists /\ ids # <<>>
  BY DEF Result, End, LookInv, Watched, Running, Ends, AtNodes, Sending
<1>2. /\ i \in Ids /\ Tail(ids) \in Lists /\ Range(ids) = {i} \cup Range(Tail(ids))
      /\ Len(ids) = 1 => Range(ids) = {i}
      /\ Len(ids) # 1 => Tail(ids) # <<>>
  BY <1>1, HeadAndTail
<1>3. q \in Seq(Runs) /\ (Succeeded(q) => Succeeded(results) /\ ran[i] = "Success")
  BY <1>2, OneMoreAnswer DEF WorldInv, SentInv
<1>4. Range(ids) \subseteq Sent /\ (Succeeded(q) => \A j \in Sent \ Range(Tail(ids)) : ran[j] = "Success")
  BY <1>1, <1>2, <1>3 DEF SentInv
<1>5. WorldInv' /\ HistoryInv' /\ Continues /\ Sent' = Sent /\ ran' = ran /\ \A s \in Stacks : NodesOf(s)' = NodesOf(s)
  BY <1>1, OwnStep DEF Unwatched
<1>6. Target(cmd)' = Target(cmd) /\ ById(cmd)' = ById(cmd)
  BY <1>1 DEF Target, ById
<1>7. CASE Len(ids) = 1 /\ Succeeded(q) /\ End("ok")
  <2>1. \A j \in Sent : ran[j] = "Success"
    BY <1>1, <1>2, <1>3, <1>7 DEF SentInv
  <2>2. cmd.node = All => stayed' \cap NodesOf(Target(cmd))' \subseteq Sent
    BY <1>1, <1>5, <1>6 DEF AimInv, Sending, Continues
  <2>3. cmd.node # All => \E j \in Ids : Sent = {j} /\ (ById(cmd) => j = cmd.node)
    BY <1>1 DEF AimInv, Sending
  <2>4. cmd.node # All => Cardinality(Sent) = 1
    BY <2>3, FS_Singleton
  <2>5. ById(cmd) => cmd.node # All
    BY NodesConstants DEF NodesConstants, ById
  <2>6. ExecVerdict'
    BY <1>1, <1>5, <1>6, <2>1, <2>2, <2>3, <2>4, <2>5 DEF ExecVerdict
  <2>7. WaitVerdict'
    BY <1>1, <1>7 DEF WaitVerdict, End
  <2>. QED BY <1>7, <2>6, <2>7, EndStep DEF Ends
<1>8. CASE End("nonzero")
  BY <1>8, PlainEnd
<1>9. CASE /\ Len(ids) # 1 /\ results' = q /\ ids' = Tail(ids) /\ pc' = "waiter"
           /\ UNCHANGED <<world, cmd, at, found, view, deadline>>
  <2>1. ~Watched' /\ SeenInv' /\ WellInv'
    BY <1>1, NoLook
  <2>2. LookInv'
    BY <1>1, <1>2, <1>9, <2>1 DEF LookInv, Labels, Running, Ends, Looking, Reading, AtNodes, Sending
  <2>3. SentInv'
    BY <1>1, <1>2, <1>3, <1>4, <1>5, <1>9 DEF SentInv, Looking
  <2>4. cmd.node # All => Len(ids) = 1
    <3>1. \A j \in Ids : Len(<<j>>) = 1
      OBVIOUS
    <3>. QED BY <1>1, <3>1 DEF AimInv, Sending
  <2>5. AimInv'
    BY <1>1, <1>5, <1>6, <1>9, <2>4 DEF AimInv, Sending, Continues
  <2>6. WaitVerdict' /\ ExecVerdict'
    BY <1>9 DEF WaitVerdict, ExecVerdict
  <2>. QED BY <1>5, <2>1, <2>2, <2>3, <2>5, <2>6
<1>. QED BY <1>7, <1>8, <1>9 DEF Result

-----------------------------------------------------------------------------
(* The theorems. *)

LEMMA InitIInv == ASSUME Init PROVE IInv
<1>1. nodes \in [Stacks -> Lists] /\ \A s \in Stacks : NodesOf(s) \subseteq Ids
  BY ListRange DEF Init, NodesOf
<1>2. WorldInv
  BY <1>1 DEF Init, WorldInv, Listed, Reports, Runs
<1>3. HistoryInv
  BY <1>1 DEF Init, HistoryInv, Listed
<1>4. 0 \in 0 .. N /\ Nobody \in View /\ Nothing \in [known : SUBSET Ids, on : SUBSET Ids]
  BY NodesConstants, EmptyList DEF NodesConstants, Nobody, View, Nothing
<1>5. LookInv
  BY <1>4, EmptyList DEF Init, LookInv, Running, Watched, Ends, Labels, Looking, Reading, AtNodes, Sending
<1>6. SeenInv /\ WellInv /\ AimInv /\ WaitVerdict /\ ExecVerdict
  BY DEF Init, SeenInv, WellInv, AimInv, WaitVerdict, ExecVerdict, Looking, Sending
<1>7. SentInv
  BY DEF Init, SentInv, Sent
<1>. QED BY <1>2, <1>3, <1>5, <1>6, <1>7 DEF IInv

LEMMA NextIInv == ASSUME IInv, [Next]_vars PROVE IInv'
<1>1. CASE UNCHANGED vars
  <2>1. UNCHANGED <<nodes, inst, prov, online, ran, pc, cmd, at, ids, found, view, results, deadline,
                    stayed, proved, said, flawless>>
    BY <1>1 DEF vars, world, local, history
  <2>2. Listed' = Listed /\ (\A s : NodesOf(s)' = NodesOf(s)) /\ Running' = Running /\ Watched' = Watched
        /\ (\A s : Past(s)' = Past(s)) /\ (\A i : Seen(i)' = Seen(i)) /\ Sent' = Sent
        /\ Target(cmd)' = Target(cmd) /\ ById(cmd)' = ById(cmd)
    BY <2>1 DEF Listed, NodesOf, Running, Watched, Past, Seen, Sent, Target, ById
  <2>3. WorldInv' /\ HistoryInv'
    BY <2>1, <2>2 DEF IInv, WorldInv, HistoryInv, AllWell
  <2>4. LookInv' /\ SeenInv' /\ WellInv'
    BY <2>1, <2>2 DEF IInv, LookInv, SeenInv, WellInv
  <2>5. SentInv' /\ AimInv'
    BY <2>1, <2>2 DEF IInv, SentInv, AimInv
  <2>6. WaitVerdict' /\ ExecVerdict'
    BY <2>1, <2>2 DEF IInv, WaitVerdict, ExecVerdict
  <2>. QED BY <2>3, <2>4, <2>5, <2>6 DEF IInv
<1>2. CASE Next
  <2>1. CASE Abort
    BY <1>2, <2>1, PlainEnd DEF Abort
  <2>2. CASE Show \/ Session
    BY <1>2, <2>2, PlainEnd DEF Show, Session
  <2>. QED
    BY <1>2, <2>1, <2>2, OthersStep, StartStep, BeginStep, ReadOutputsStep, DescribeStep, AgentsStep,
       ProvisionStep, SetDeadlineStep, VerdictStep, SleepStep, FindInstanceStep, ResolveStep, PickStep,
       SendStep, WaitStep, ResultStep
       DEF Next, Steps
<1>. QED BY <1>1, <1>2

LEMMA SpecIInv == Spec => []IInv
BY InitIInv, NextIInv, PTL DEF Spec

\* The state is always well-formed: the nodes of a stack are its own, no
\* instance comes back, and a command holds no ids but instances'.
THEOREM TypeCorrect == Spec => []TypeOK
<1>1. IInv => TypeOK
  <2>. SUFFICES ASSUME IInv PROVE TypeOK
    OBVIOUS
  <2>1. results \in Seq(Runs)
    BY DEF IInv, SentInv
  <2>2. \A k \in DOMAIN results : results[k] \in Runs
    BY <2>1
  <2>3. stayed \subseteq Ids
    BY NodesAreIds DEF IInv, HistoryInv
  <2>. QED BY <2>2, <2>3 DEF IInv, WorldInv, HistoryInv, LookInv, TypeOK
<1>. QED BY <1>1, SpecIInv, PTL

\* What `status --wait` says of its last look is true of the nodes, however
\* they change during it.
THEOREM WaitIsRight == Spec => []WaitVerdict
<1>1. IInv => WaitVerdict
  BY DEF IInv
<1>. QED BY <1>1, SpecIInv, PTL

\* exec exits with 0 only after success on every node it was for.
THEOREM ExecIsRight == Spec => []ExecVerdict
<1>1. IInv => ExecVerdict
  BY DEF IInv
<1>. QED BY <1>1, SpecIInv, PTL

=============================================================================
