----------------------- MODULE DeployRefinementProofs -----------------------
(* The commands keep the promise of Deployment, for any number of processes, *)
(* stacks and configs, if every process has a working directory of its own   *)
(* and nobody purges.                                                        *)
EXTENDS DeployRefinement, DeployProofs

\* A plan that has the serial of the state was made from what the state says;
\* what is shown and carried out is a plan of the stack the process is at.
Dated(p) ==
  /\ pc[p] \in {"ask", "apply", "applying"} => Verb(p) # "plan" /\ At(p, work[p].stack)
  /\ Verb(p) # "plan" =>
       \A s \in Stacks : At(p, s) =>
         /\ pc[p] \in {"planning", "ask", "apply"} /\ work[p].serial = serial[s]
              => work[p].base = Saved(s)
         /\ pc[p] = "show" /\ planFile[Dir(p)][s] # NoPlan /\ planFile[Dir(p)][s].serial = serial[s]
              => planFile[Dir(p)][s].base = Saved(s)

\* The state of a stack changes together with its serial.
Saves ==
  \A s \in Stacks : (state'[s] = state[s] /\ serial'[s] = serial[s]) \/ serial'[s] = NewSerial(s)

-----------------------------------------------------------------------------
LEMMA SameAt ==
  ASSUME NEW p \in Procs, Same(p)
  PROVE  /\ Applying(p)' = Applying(p) /\ Verb(p)' = Verb(p) /\ Dir(p)' = Dir(p)
         /\ \A s : At(p, s)' = At(p, s)
  BY DEF Same, Applying, Verb, Dir, At, Destroying

\* A process whose plans are left alone keeps what Dated says of them.
LEMMA SameDated ==
  ASSUME TypeOK, NEW p \in Procs, Dated(p), Same(p), Saves
  PROVE  Dated(p)'
  <1>1. work[p] \in PlanFiles /\ pc[p] \in {"planning", "ask", "apply"} =>
          \A s \in Stacks : work[p].serial \in Outstanding(s)
    <2>1. work[p] \in PlanFiles => work[p] # NoPlan
      BY NullsOK
    <2>2. QED
      BY <2>1 DEF Outstanding
  <1>2. pc[p] \in {"planning", "ask", "apply"} => work[p] \in PlanFiles
    BY DEF TypeOK, LocalsOK, HasPlan
  <1>3. \A s \in Stacks : planFile[Dir(p)][s] # NoPlan =>
          planFile[Dir(p)][s].serial \in Outstanding(s)
    <2>1. Dir(p) \in Dirs
      BY ConstantsOK DEF Dir
    <2>2. QED
      BY <2>1 DEF Outstanding
  <1>4. \A s \in Stacks : /\ NewSerial(s) \notin Outstanding(s)
    BY SerialExists
  <1>5. \A s \in Stacks : state'[s] = state[s] => Saved(s)' = Saved(s)
    BY DEF Saved
  <1>6. /\ pc'[p] = pc[p] /\ work'[p] = work[p] /\ planFile'[Dir(p)] = planFile[Dir(p)]
        /\ Dir(p)' = Dir(p) /\ Verb(p)' = Verb(p) /\ \A s : At(p, s)' = At(p, s)
    BY SameAt DEF Same
  <1>7. ASSUME NEW s \in Stacks, At(p, s), Verb(p) # "plan"
        PROVE  /\ pc[p] \in {"planning", "ask", "apply"} /\ work[p].serial = serial'[s]
                    => work[p].base = Saved(s)'
               /\ pc[p] = "show" /\ planFile[Dir(p)][s] # NoPlan
                                 /\ planFile[Dir(p)][s].serial = serial'[s]
                    => planFile[Dir(p)][s].base = Saved(s)'
    BY <1>1, <1>2, <1>3, <1>4, <1>5, <1>7 DEF Dated, Saves
  <1>8. QED
    BY <1>6, <1>7 DEF Dated

\* A process at a label of which Dated says nothing.
LEMMA AwayDated ==
  ASSUME NEW p \in Procs, pc'[p] \notin Away
  PROVE  Dated(p)'
  BY DEF Dated, Away

-----------------------------------------------------------------------------
LEMMA DatedStep ==
  ASSUME "purge" \notin Verbs, TypeOK, TypeOK', NEW p \in Procs, Dated(p), PlanTied(p),
         \A q \in Procs : Held(q), \A s \in Stacks : Settled(s),
         Start(p) \/ Step(p) \/ Failure(p)
  PROVE  Dated(p)'
  <1>1. CASE pc'[p] \notin Away
    BY <1>1, AwayDated
  <1>2. CASE ApprovePlan(p)
    <2>1. /\ pc[p] = "ask" /\ pc'[p] = "apply"
          /\ UNCHANGED <<cmd, todo, work, serial, state, planFile>>
      BY <1>2 DEF ApprovePlan, Goto, TypeOK, aws, files
    <2>2. Verb(p)' = Verb(p) /\ \A s : At(p, s)' = At(p, s)
      BY <2>1 DEF Verb, At, Destroying
    <2>3. QED
      BY <2>1, <2>2 DEF Dated, Saved
  <1>3. ASSUME NEW s \in Stacks, StartPlan(p, s) PROVE Dated(p)'
    <2>1. /\ pc'[p] = "planning" /\ work'[p].base = Refreshed(s) /\ At(p, s)
          /\ UNCHANGED <<cmd, todo, serial, state>>
          /\ Verb(p) # "plan" => lock[s] = Free
      BY <1>3 DEF StartPlan, Goto, TypeOK, LocalsOK, TakesLock
    <2>2. Verb(p)' = Verb(p) /\ \A t : At(p, t)' = At(p, t)
      BY <2>1 DEF Verb, At, Destroying
    <2>3. Verb(p) # "plan" => work'[p].base = Saved(s)
      BY <2>1, FoundIsSaved, FreeUnattended
    <2>4. Saved(s)' = Saved(s)
      BY <2>1 DEF Saved
    <2>5. QED
      BY <2>1, <2>2, <2>3, <2>4, AtOne DEF Dated
  <1>4. ASSUME NEW s \in Stacks, WritePlan(p, s) PROVE Dated(p)'
    <2>1. /\ pc[p] = "planning" /\ pc'[p] = "show" /\ At(p, s)
          /\ planFile'[Dir(p)][s] = work[p]
          /\ UNCHANGED <<cmd, todo, work, serial, state>>
      BY <1>4, ConstantsOK DEF WritePlan, Goto, TypeOK, FilesOK, Dir, locals
    <2>2. Verb(p)' = Verb(p) /\ Dir(p)' = Dir(p) /\ \A t : At(p, t)' = At(p, t)
      BY <2>1 DEF Verb, At, Destroying, Dir
    <2>3. \A t \in Stacks : Saved(t)' = Saved(t)
      BY <2>1 DEF Saved
    <2>4. QED
      BY <2>1, <2>2, <2>3, AtOne DEF Dated
  <1>5. ASSUME NEW s \in Stacks, ShowPlan(p, s) PROVE Dated(p)'
    <2>1. CASE Verb(p) = "plan" \/ Empty(Summary(planFile[Dir(p)][s]))
      <3>1. pc'[p] = "next"
        BY <1>5, <2>1 DEF ShowPlan, StackDone, Goto, TypeOK
      <3>2. QED
        BY <3>1, <1>1 DEF Away
    <2>2. CASE ~(Verb(p) = "plan" \/ Empty(Summary(planFile[Dir(p)][s])))
      <3>1. /\ pc[p] = "show" /\ pc'[p] \in {"ask", "apply"} /\ At(p, s)
            /\ planFile[Dir(p)][s] # NoPlan /\ work'[p] = planFile[Dir(p)][s]
            /\ UNCHANGED <<cmd, todo, serial, state>>
        BY <1>5, <2>2 DEF ShowPlan, Goto, TypeOK, LocalsOK, aws
      <3>2. Verb(p)' = Verb(p) /\ \A t : At(p, t)' = At(p, t)
        BY <3>1 DEF Verb, At, Destroying
      <3>3. work'[p].stack = s
        BY <3>1 DEF PlanTied
      <3>4. Saved(s)' = Saved(s)
        BY <3>1 DEF Saved
      <3>5. QED
        BY <2>2, <3>1, <3>2, <3>3, <3>4, AtOne DEF Dated
    <2>3. QED
      BY <2>1, <2>2
  <1>6. ASSUME NEW s \in Stacks, StartApply(p, s) PROVE Dated(p)'
    <2>1. /\ pc[p] = "apply" /\ pc'[p] = "applying"
          /\ work'[p] = work[p] /\ UNCHANGED <<cmd, todo>>
      BY <1>6 DEF StartApply, Goto, TypeOK, LocalsOK, PlanTied
    <2>2. Verb(p)' = Verb(p) /\ \A t : At(p, t)' = At(p, t)
      BY <2>1 DEF Verb, At, Destroying
    <2>3. QED
      BY <2>1, <2>2 DEF Dated
  <1>7. ASSUME NEW s \in Stacks, ApplySome(p, s) PROVE Dated(p)'
    <2>1. pc[p] = "applying" /\ UNCHANGED <<pc, cmd, todo, work>>
      BY <1>7 DEF ApplySome, locals
    <2>2. Verb(p)' = Verb(p) /\ \A t : At(p, t)' = At(p, t)
      BY <2>1 DEF Verb, At, Destroying
    <2>3. QED
      BY <2>1, <2>2 DEF Dated
  <1>8. ASSUME NEW s \in Stacks, ApplyDone(p, s) \/ ApplyFailed(p, s) PROVE pc'[p] \notin Away
    BY <1>8 DEF ApplyDone, ApplyFailed, StackDone, Finish, Goto, TypeOK, Away
  <1>9. Kill(p) => pc'[p] \notin Away
    BY DEF Kill, Finish, Goto, TypeOK, Away
  <1>10. QED
    BY <1>1, <1>2, <1>3, <1>4, <1>5, <1>6, <1>7, <1>8, <1>9, Kinds, NobodyPurges

LEMMA SavesStep ==
  ASSUME "purge" \notin Verbs, TypeOK, NEW p \in Procs, Held(p), Start(p) \/ Step(p) \/ Failure(p)
  PROVE  Saves
  <1>1. CASE Quiet(p)
    BY <1>1 DEF Quiet, Saves
  <1>2. ASSUME NEW s \in Stacks, StartApply(p, s) \/ ApplySome(p, s) PROVE Saves
    BY <1>2 DEF StartApply, ApplySome, Saves
  <1>3. ASSUME NEW s \in Stacks, ApplyDone(p, s) \/ ApplyFailed(p, s)
        PROVE  Saves
    <2>1. (\E i : SaveState(p, s, i)) \/ UNCHANGED <<state, serial>>
      BY <1>3 DEF ApplyDone, ApplyFailed
    <2>2. QED
      BY <2>1 DEF SaveState, Saves, TypeOK, AwsOK
  <1>4. CASE Kill(p)
    BY <1>4 DEF Kill, Saves, TypeOK, AwsOK
  <1>5. QED
    BY <1>1, <1>2, <1>3, <1>4, Kinds, NobodyPurges, PlanningQuiet

\* Who carries out a plan is at the plan's stack, and at no other.
LEMMA AppliesAt ==
  ASSUME TypeOK, NEW p \in Procs, Dated(p), Applying(p)
  PROVE  /\ work[p] \in PlanFiles /\ At(p, work[p].stack)
         /\ \A s \in Stacks : At(p, s) => s = work[p].stack
  <1>1. work[p] \in PlanFiles /\ At(p, work[p].stack)
    BY DEF Applying, TypeOK, LocalsOK, HasPlan, Dated
  <1>2. work[p].stack \in Stacks
    BY <1>1 DEF PlanFiles
  <1>3. QED
    BY <1>1, <1>2, AtOne

-----------------------------------------------------------------------------
(* The refinement.                                                           *)

LEMMA MapInit == Init => D!Init
  BY NullsOK DEF Init, D!Init, Tracked, Doing, Applying

\* What a step of p leaves of Doing to the others.
LEMMA DoingOthers ==
  ASSUME NEW p \in Procs, OthersSame(p)
  PROVE  \A q \in Procs \ {p} : Doing'[q] = Doing[q]
  BY SameAt DEF OthersSame, Same, Doing

LEMMA QuietMap ==
  ASSUME TypeOK, TypeOK', NEW p \in Procs, OthersSame(p), Quiet(p), Agreements(p)
  PROVE  [D!Next]_D!vars
  <1>1. Doing[p] = {} /\ Doing'[p] = {}
    BY DEF Doing, Quiet, Applying
  <1>2. Doing' = Doing /\ Doing' = [Doing EXCEPT ![p] = {}]
    <2>1. /\ Doing = [q \in Procs |-> Doing[q]] /\ Doing' = [q \in Procs |-> Doing'[q]]
      BY DEF Doing
    <2>2. \A q \in Procs : Doing'[q] = Doing[q]
      BY <1>1, DoingOthers
    <2>3. QED
      BY <1>1, <2>1, <2>2
  <1>3. Tracked' = Tracked /\ cloud' = cloud
    BY DEF Quiet, Tracked
  <1>4. CASE granted' = granted
    BY <1>2, <1>3, <1>4 DEF D!vars
  <1>5. CASE granted' = [granted EXCEPT ![p] = {}]
    BY <1>1, <1>2, <1>3, <1>5 DEF D!Next, D!Leave
  <1>6. CASE Grant(p) /\ work[p] \in PlanFiles
    <2>1. Effect(work[p]) \in D!Effects
      BY <1>6 DEF Effect, PlanFiles, D!Effects
    <2>2. D!Agree(p)
      BY <1>1, <1>2, <1>3, <1>6, <2>1 DEF Grant, D!Agree
    <2>3. QED
      BY <2>2 DEF D!Next
  <1>7. QED
    BY <1>4, <1>5, <1>6 DEF Agreements

\* terraform starts to apply the plan that was approved: it is what the state
\* still says, and nobody else is at the stack.
LEMMA BeginMap ==
  ASSUME TypeOK, TypeOK', NEW p \in Procs, NEW s \in Stacks, OthersSame(p), PlanTied(p),
         \A q \in Procs : Dated(q) /\ Held(q), Settled(s), StartApply(p, s)
  PROVE  D!Begin(p)
  <1> DEFINE e == Effect(work[p])
  <1>1. /\ pc[p] = "apply" /\ pc'[p] = "applying" /\ At(p, s) /\ lock[s] = Free
        /\ planFile[Dir(p)][s] = work[p] /\ work'[p] = work[p] /\ work[p].serial = serial[s]
        /\ UNCHANGED <<cloud, state, granted>>
    BY DEF StartApply, Applicable, PlanTied, Goto, TypeOK, LocalsOK
  <1>2. work[p] \in PlanFiles /\ work[p].stack = s /\ Verb(p) # "plan"
    <2>1. work[p] \in PlanFiles /\ At(p, work[p].stack) /\ Verb(p) # "plan"
      BY <1>1 DEF TypeOK, LocalsOK, HasPlan, Dated
    <2>2. QED
      BY <1>1, <2>1, AtOne DEF PlanFiles
  <1>3. e \in granted[p] /\ e[1] = s /\ e[3] = work[p].base
    BY <1>1, <1>2 DEF PlanTied, Effect
  <1>4. e[3] = D!Known(s)
    <2>1. work[p].base = Saved(s)
      BY <1>1, <1>2 DEF Dated
    <2>2. cloud[s] = Saved(s)
      BY <1>1, FoundIsSaved, FreeUnattended
    <2>3. QED
      BY <1>3, <2>1, <2>2 DEF D!Known, Tracked, Saved
  <1>5. D!Unattended(s)
    <2>1. ASSUME NEW q \in Procs, Applying(q), work[q].stack = s PROVE FALSE
      <3>1. At(q, s)
        BY <2>1 DEF Dated, Applying
      <3>2. lock[s] = q
        BY <2>1, <3>1 DEF Held, Applying
      <3>3. QED
        BY <1>1, <3>2, NullsOK
    <2>2. QED
      BY <2>1 DEF D!Unattended, Doing, Effect
  <1>6. Doing[p] = {} /\ Doing' = [Doing EXCEPT ![p] = {e}]
    <2>1. Doing[p] = {} /\ Doing'[p] = {e}
      BY <1>1 DEF Doing, Applying, Effect
    <2>2. Doing = [q \in Procs |-> Doing[q]] /\ Doing' = [q \in Procs |-> Doing'[q]]
      BY DEF Doing
    <2>3. QED
      BY <2>1, <2>2, DoingOthers
  <1>7. Tracked' = Tracked
    BY <1>1 DEF Tracked
  <1> HIDE DEF e
  <1>8. QED
    BY <1>1, <1>3, <1>4, <1>5, <1>6, <1>7 DEF D!Begin

\* What an apply does, and how it ends.
LEMMA ApplyMap ==
  ASSUME TypeOK, TypeOK', NEW p \in Procs, OthersSame(p), Dated(p), Stored,
         (\E s \in Stacks : ApplySome(p, s) \/ ApplyDone(p, s) \/ ApplyFailed(p, s))
           \/ (Kill(p) /\ Applying(p))
  PROVE  D!Next
  <1> DEFINE w == work[p]
             s == w.stack
             e == Effect(w)
  <1>1. Applying(p)
    BY DEF ApplySome, ApplyDone, ApplyFailed, Applying
  <1>2. w \in PlanFiles /\ s \in Stacks /\ w.want \in Infra /\ At(p, s)
        /\ \A t \in Stacks : At(p, t) => t = s
    BY <1>1, AppliesAt DEF PlanFiles
  <1>3. Doing[p] = {e} /\ e[1] = s /\ e[2] = w.want
    BY <1>1 DEF Doing, Effect
  <1>4. Doing = [q \in Procs |-> Doing[q]] /\ Doing' = [q \in Procs |-> Doing'[q]]
    BY DEF Doing
  <1>5. CASE ApplySome(p, s)
    <2>1. /\ cloud' = [cloud EXCEPT ![s] = Partial]
          /\ UNCHANGED <<state, granted, pc, work>>
      BY <1>5 DEF ApplySome, locals
    <2>2. Tracked' = Tracked /\ Doing' = Doing
      BY <2>1 DEF Tracked, Doing, Applying, Effect
    <2>3. D!Change(p)
      BY <1>3, <2>1, <2>2 DEF D!Change
    <2>4. QED
      BY <2>3 DEF D!Next
  <1>6. CASE ApplyDone(p, s)
    <2>1. /\ cloud' = [cloud EXCEPT ![s] = w.want] /\ state' = [state EXCEPT ![s] = w.want]
          /\ granted' = granted /\ pc'[p] = "next"
      BY <1>6 DEF ApplyDone, SaveState, StackDone, Goto, TypeOK
    <2>2. Doing' = [Doing EXCEPT ![p] = {}]
      <3>1. Doing'[p] = {}
        BY <2>1 DEF Doing, Applying
      <3>2. QED
        BY <1>4, <3>1, DoingOthers
    <2>3. Tracked' = [Tracked EXCEPT ![s] = (w.want # NoInfra)]
      BY <1>2, <2>1, NullsOK DEF Tracked, TypeOK, AwsOK
    <2>4. D!Complete(p)
      BY <1>3, <2>1, <2>2, <2>3 DEF D!Complete
    <2>5. QED
      BY <2>4 DEF D!Next
  <1>7. CASE ApplyFailed(p, s) \/ Kill(p)
    <2>1. /\ cloud' = cloud /\ granted' = [granted EXCEPT ![p] = {}] /\ pc'[p] = "failed"
          /\ \/ Kills /\ state' = state
             \/ state' = state /\ cloud[s] = NoInfra /\ state[s] = NoState
             \/ state' = [state EXCEPT ![s] = cloud[s]]
      <3>1. "exists" \in bucket
        BY <1>1 DEF Stored
      <3>2. QED
        BY <1>1, <1>2, <1>7, <3>1 DEF ApplyFailed, Kill, SaveState, Finish, Goto, TypeOK
    <2>2. Doing' = [Doing EXCEPT ![p] = {}]
      <3>1. Doing'[p] = {}
        BY <2>1 DEF Doing, Applying
      <3>2. QED
        BY <1>4, <3>1, DoingOthers
    <2>3. \/ Kills /\ Tracked' = Tracked
          \/ Tracked' = [Tracked EXCEPT ![s] = (cloud[s] # NoInfra)]
      <3>1. CASE Kills /\ state' = state
        BY <3>1 DEF Tracked
      <3>4. CASE state' = state /\ cloud[s] = NoInfra /\ state[s] = NoState
        BY <1>2, <3>4 DEF Tracked
      <3>2. CASE state' = [state EXCEPT ![s] = cloud[s]]
        <4>1. cloud[s] \in Infra
          BY <1>2 DEF TypeOK, AwsOK
        <4>2. QED
          BY <1>2, <3>2, <4>1, NullsOK DEF Tracked, TypeOK, AwsOK
      <3>3. QED
        BY <2>1, <3>1, <3>2, <3>4
    <2>4. D!Leave(p)
      BY <1>3, <2>1, <2>2, <2>3 DEF D!Leave
    <2>5. QED
      BY <2>4 DEF D!Next
  <1>8. QED
    <2>1. \A t \in Stacks : ApplySome(p, t) \/ ApplyDone(p, t) \/ ApplyFailed(p, t) => t = s
      BY <1>2 DEF ApplySome, ApplyDone, ApplyFailed
    <2>2. QED
      BY <1>5, <1>6, <1>7, <2>1

-----------------------------------------------------------------------------
\* What the steps of Deploy keep.
Kept ==
  /\ TypeOK
  /\ \A p \in Procs : PlanTied(p) /\ Held(p) /\ Dated(p)
  /\ Stored
  /\ \A s \in Stacks : Settled(s)

LEMMA KeptInit == Init => Kept
  <1>1. Init => \A p \in Procs : Dated(p)
    BY DEF Init, Dated
  <1>2. Init => Stored /\ \A s \in Stacks : Settled(s)
    BY DEF Init, Stored, Applying, Settled, Saved
  <1>3. QED
    BY <1>1, <1>2, TypeInit, TiedInit, HeldInit DEF Kept

LEMMA KeptNext ==
  ASSUME Exclusive, "purge" \notin Verbs, Kept, [Next]_vars
  PROVE  Kept' /\ [D!Next]_D!vars
  <1>1. TypeOK' /\ (\A p \in Procs : PlanTied(p))' /\ (\A p \in Procs : Held(p))'
    BY TypeNext, TiedNext, HeldNext DEF Kept
  <1>2. CASE UNCHANGED vars \/ EditConfig
    <2>1. /\ UNCHANGED <<cloud, state, serial, lock, bucket, pc, granted, work>>
          /\ \A p \in Procs : Same(p)
      BY <1>2 DEF EditConfig, vars, aws, files, locals, Same
    <2>2. (\A p \in Procs : Dated(p))'
      BY <2>1, SameDated DEF Saves, Kept
    <2>3. Stored' /\ (\A s \in Stacks : Settled(s))'
      BY <2>1, SameAt DEF Stored, Settled, Saved, Kept
    <2>4. UNCHANGED D!vars
      BY <2>1 DEF D!vars, Tracked, Doing, Applying, Effect
    <2>5. QED
      BY <1>1, <2>2, <2>3, <2>4 DEF Kept
  <1>3. ASSUME NEW p \in Procs, Start(p) \/ Step(p) \/ Failure(p)
        PROVE  Kept' /\ [D!Next]_D!vars
    <2>1. OthersSame(p)
      BY <1>3, TiedStep DEF Kept
    <2>2. Saves
      BY <1>3, SavesStep DEF Kept
    <2>3. Dated(p)'
      BY <1>1, <1>3, DatedStep DEF Kept
    <2>4. (\A q \in Procs : Dated(q))'
      BY <2>1, <2>2, <2>3, SameDated DEF OthersSame, Kept
    <2>5. Stored' /\ (\A s \in Stacks : Settled(s))'
      <3>1. OthersStay(p) /\ ~Purges(p)
        BY <1>3, HeldStep, LeftStay, NobodyPurges DEF Kept
      <3>2. QED
        BY <1>3, <3>1, StoredStep, SettledStep DEF Kept
    <2>6. [D!Next]_D!vars
      <3>1. CASE Quiet(p) /\ Agreements(p)
        BY <1>1, <2>1, <3>1, QuietMap DEF Kept
      <3>2. ASSUME NEW s \in Stacks, StartApply(p, s) PROVE [D!Next]_D!vars
        <4>1. D!Begin(p)
          BY <1>1, <2>1, <3>2, BeginMap DEF Kept
        <4>2. QED
          BY <4>1 DEF D!Next
      <3>3. CASE (\E s \in Stacks : ApplySome(p, s) \/ ApplyDone(p, s) \/ ApplyFailed(p, s))
                   \/ (Kill(p) /\ Applying(p))
        BY <1>1, <2>1, <3>3, ApplyMap DEF Kept
      <3>4. CASE ApprovePlan(p) \/ \E s \in Stacks : StartPlan(p, s) \/ WritePlan(p, s) \/ ShowPlan(p, s)
        BY <3>1, <3>4, PlanningQuiet DEF Kept
      <3>5. TypeOK /\ Held(p)
        BY DEF Kept
      <3>6. \/ Quiet(p) /\ Agreements(p)
            \/ ApprovePlan(p) \/ \E s \in Stacks : StartPlan(p, s) \/ WritePlan(p, s) \/ ShowPlan(p, s)
            \/ \E s \in Stacks : StartApply(p, s)
            \/ (\E s \in Stacks : ApplySome(p, s) \/ ApplyDone(p, s) \/ ApplyFailed(p, s))
                 \/ (Kill(p) /\ Applying(p))
        BY <1>3, <3>5, Kinds, NobodyPurges
      <3>7. QED
        BY <3>1, <3>2, <3>3, <3>4, <3>6
    <2>7. QED
      BY <1>1, <2>4, <2>5, <2>6 DEF Kept
  <1>4. QED
    BY <1>2, <1>3 DEF Next

\* With a working directory for every process and nobody who purges, whatever
\* the processes do, in whatever order, and wherever they fail or are killed,
\* they change the stacks as Deployment says.
THEOREM DeployRefinesDeployment ==
  ASSUME Exclusive, "purge" \notin Verbs PROVE Spec => ImplementsDeployment
  <1>1. Kept /\ [Next]_vars => Kept' /\ [D!Next]_D!vars
    BY KeptNext
  <1>2. QED
    BY <1>1, KeptInit, MapInit, PTL DEF Spec, ImplementsDeployment, D!Spec
=============================================================================
