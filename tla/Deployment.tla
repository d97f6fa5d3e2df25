----------------------------- MODULE Deployment -----------------------------
(***************************************************************************)
(* What the commands of one deployment promise, whoever runs them and      *)
(* wherever they are stopped: a process changes a stack only by an effect  *)
(* its own user has agreed to, only while the stack is what that effect    *)
(* starts from, and only while nobody else changes it; and what it leaves  *)
(* behind, finished or not, is known to those who come later, unless it is *)
(* killed.                                                                 *)
(*                                                                         *)
(* There are no files, locks, state objects or prompts here: Deploy has    *)
(* them, and DeployRefinement says what they are for.                      *)
(***************************************************************************)
CONSTANTS
  Procs,    \* who changes the stacks
  Stacks,   \* what there is to change
  Infra,    \* what a stack may be,
  NoInfra,  \* as nothing at all,
  Partial,  \* or as something in between
  Kills     \* whether processes are killed

VARIABLES
  cloud,    \* what each stack is
  tracked,  \* whether it is known that there is something of it
  agreed,   \* the effects that each process' user has agreed to
  doing     \* what it is doing: one effect, or none

vars == <<cloud, tracked, agreed, doing>>

\* Of which stack, to what, from what.
Effects == Stacks \X Infra \X Infra

Init ==
  /\ cloud = [s \in Stacks |-> NoInfra]
  /\ tracked = [s \in Stacks |-> FALSE]
  /\ agreed = [p \in Procs |-> {}]
  /\ doing = [p \in Procs |-> {}]

Known(s) == IF tracked[s] THEN cloud[s] ELSE NoInfra

\* Nobody is at stack s.
Unattended(s) == \A p \in Procs : \A e \in doing[p] : e[1] # s

Agree(p) ==
  /\ doing[p] = {}
  /\ \E e \in Effects : agreed' = [agreed EXCEPT ![p] = @ \cup {e}]
  /\ UNCHANGED <<cloud, tracked, doing>>

Begin(p) ==
  /\ doing[p] = {}
  /\ \E e \in agreed[p] :
       /\ Unattended(e[1]) /\ e[3] = Known(e[1])
       /\ doing' = [doing EXCEPT ![p] = {e}]
  /\ UNCHANGED <<cloud, tracked, agreed>>

Change(p) ==
  /\ \E e \in doing[p] : cloud' = [cloud EXCEPT ![e[1]] = Partial]
  /\ UNCHANGED <<tracked, agreed, doing>>

Complete(p) ==
  /\ \E e \in doing[p] :
       /\ cloud' = [cloud EXCEPT ![e[1]] = e[2]]
       /\ tracked' = [tracked EXCEPT ![e[1]] = (e[2] # NoInfra)]
  /\ doing' = [doing EXCEPT ![p] = {}]
  /\ UNCHANGED agreed

\* The process ends, done or not.  It may leave a stack half changed, but only
\* who is killed may leave it unknown.
Leave(p) ==
  /\ \/ (doing[p] = {} \/ Kills) /\ UNCHANGED tracked
     \/ \E e \in doing[p] : tracked' = [tracked EXCEPT ![e[1]] = (cloud[e[1]] # NoInfra)]
  /\ agreed' = [agreed EXCEPT ![p] = {}]
  /\ doing' = [doing EXCEPT ![p] = {}]
  /\ UNCHANGED cloud

Next == \E p \in Procs : Agree(p) \/ Begin(p) \/ Change(p) \/ Complete(p) \/ Leave(p)

Spec == Init /\ [][Next]_vars
=============================================================================
