---------------------------- MODULE DeployProofs ----------------------------
(* Proofs about Deploy, for any number of processes, stacks and configs:     *)
(*   1. type correctness;                                                    *)
(*   2. the state locks keep the processes apart;                            *)
(*   3. `bbctl plan` leaves AWS alone, the other commands until an approval; *)
(*   4. what is carried out is what was approved;                            *)
(*   5. what exists is in a state object, and what exit status 0 means.      *)
EXTENDS Deploy, FiniteSetTheorems, TLAPS

-----------------------------------------------------------------------------
(* There is always a fresh version for a state object: the plans in        *)
(* existence, one per plan file and one per process, are too few.          *)

LEMMA SerialExists ==
  ASSUME TypeOK, NEW s \in Stacks
  PROVE  NewSerial(s) \in Serials /\ NewSerial(s) \notin Outstanding(s) \cup {serial[s]}
  <1> DEFINE D == {d \in Dirs : planFile[d][s] # NoPlan}
             P == {p \in Procs : work[p] # NoPlan}
             InFiles == {planFile[d][s].serial : d \in D}
             InProcs == {work[p].serial : p \in P}
             f == [d \in D |-> planFile[d][s].serial]
             g == [p \in P |-> work[p].serial]
             used == (InFiles \cup InProcs) \cup {serial[s]}
  <1>1. /\ IsFiniteSet(D) /\ Cardinality(D) <= Cardinality(Dirs)
        /\ IsFiniteSet(P) /\ Cardinality(P) <= Cardinality(Procs)
    BY FS_Subset, SerialsOK
  <1>2. f \in Surjection(D, InFiles) /\ g \in Surjection(P, InProcs)
    BY DEF Surjection
  <1>3. /\ IsFiniteSet(InFiles) /\ Cardinality(InFiles) <= Cardinality(D)
        /\ IsFiniteSet(InProcs) /\ Cardinality(InProcs) <= Cardinality(P)
    <2> HIDE DEF D, P, InFiles, InProcs, f, g
    <2>1. QED
      BY <1>1, <1>2, FS_Surjection
  <1>4. /\ IsFiniteSet(used)
        /\ Cardinality(used) <= Cardinality(InFiles) + Cardinality(InProcs) + 1
    <2> HIDE DEF InFiles, InProcs
    <2>1. /\ IsFiniteSet(InFiles \cup InProcs)
          /\ Cardinality(InFiles \cup InProcs)
               = Cardinality(InFiles) + Cardinality(InProcs)
                   - Cardinality(InFiles \cap InProcs)
      BY <1>3, FS_Union
    <2>2. IsFiniteSet(InFiles \cap InProcs)
      BY <1>3, FS_Intersection
    <2>3. /\ Cardinality(InFiles) \in Nat /\ Cardinality(InProcs) \in Nat
          /\ Cardinality(InFiles \cap InProcs) \in Nat
          /\ Cardinality(InFiles \cup InProcs) \in Nat
      BY <1>3, <2>1, <2>2, FS_CardinalityType
    <2>4. /\ IsFiniteSet(used)
          /\ \/ Cardinality(used) = Cardinality(InFiles \cup InProcs)
             \/ Cardinality(used) = Cardinality(InFiles \cup InProcs) + 1
      BY <2>1, FS_AddElement
    <2>5. QED
      BY <2>1, <2>3, <2>4
  <1>5. \E n \in Serials : n \notin used
    <2> HIDE DEF used, InFiles, InProcs, D, P
    <2> SUFFICES ASSUME Serials \subseteq used PROVE FALSE
      OBVIOUS
    <2>1. Cardinality(Serials) <= Cardinality(used)
      BY <1>4, FS_Subset
    <2>2. /\ Cardinality(Serials) \in Nat /\ Cardinality(used) \in Nat
          /\ Cardinality(Dirs) \in Nat /\ Cardinality(Procs) \in Nat
          /\ Cardinality(D) \in Nat /\ Cardinality(P) \in Nat
          /\ Cardinality(InFiles) \in Nat /\ Cardinality(InProcs) \in Nat
      BY <1>1, <1>3, <1>4, SerialsOK, FS_CardinalityType
    <2>3. QED
      BY <1>1, <1>3, <1>4, <2>1, <2>2, SerialsOK
  <1>6. NewSerial(s) = CHOOSE n \in Serials : n \notin used
    BY DEF NewSerial, Outstanding
  <1>7. used = Outstanding(s) \cup {serial[s]}
    BY DEF Outstanding
  <1>8. QED
    <2> HIDE DEF used
    <2>1. QED
      BY <1>5, <1>6, <1>7

-----------------------------------------------------------------------------
(* Type correctness *)

LEMMA TypeInit == Init => TypeOK
  <1> SUFFICES ASSUME Init PROVE TypeOK
    OBVIOUS
  <1>1. AwsOK
    <2>1. serial \in [Stacks -> Serials]
      BY DEF Init
    <2>2. QED
      BY <2>1 DEF Init, AwsOK, Infra
  <1>2. FilesOK
    BY DEF Init, FilesOK, Infra
  <1>3. pc \in [Procs -> Labels]
    BY DEF Init, Labels
  <1>4. LocalsOK
    BY DEF Init, LocalsOK, Ended, HasPlan
  <1>5. QED
    BY <1>1, <1>2, <1>3, <1>4 DEF Init, TypeOK

\* A step to a label that needs no plan, or that the plan is there for.
LEMMA GotoType ==
  ASSUME TypeOK, NEW p \in Procs, ~Ended(p), NEW l \in Labels, Goto(p, l), UNCHANGED cmd,
         work' \in [Procs -> PlanFiles \cup {NoPlan}],
         \A q \in Procs : q # p => work'[q] = work[q],
         l \in HasPlan => work'[p] \in PlanFiles
  PROVE  /\ pc' \in [Procs -> Labels]
         /\ cmd' \in [Procs -> Commands \cup {NoCmd}]
         /\ \A q \in Procs : ~Ended(q)' => cmd'[q] \in Commands
         /\ \A q \in Procs : pc'[q] \in HasPlan => work'[q] \in PlanFiles
  BY DEF TypeOK, LocalsOK, Goto, Ended

LEMMA FinishType ==
  ASSUME TypeOK, NEW p \in Procs, NEW r \in {"ok", "failed"}, Finish(p, r)
  PROVE  LocalsOK' /\ pc' \in [Procs -> Labels]
  <1>1. pc' \in [Procs -> Labels]
    BY DEF Finish, Goto, TypeOK, Labels
  <1>2. \A q \in Procs : ~Ended(q)' => cmd'[q] \in Commands
    BY DEF Finish, Goto, TypeOK, LocalsOK, Ended
  <1>3. \A q \in Procs : pc'[q] \in HasPlan => work'[q] \in PlanFiles
    BY DEF Finish, Goto, TypeOK, LocalsOK, HasPlan
  <1>4. QED
    BY <1>1, <1>2, <1>3 DEF Finish, TypeOK, LocalsOK

LEMMA StackDoneType ==
  ASSUME TypeOK, NEW p \in Procs, NEW s \in Stacks, ~Ended(p), StackDone(p, s)
  PROVE  LocalsOK' /\ pc' \in [Procs -> Labels]
  <1>1. work' \in [Procs -> PlanFiles \cup {NoPlan}]
    BY DEF StackDone, TypeOK, LocalsOK
  <1>2. todo' \in [Procs -> SUBSET Stacks]
    BY DEF StackDone, TypeOK, LocalsOK
  <1>3. \A q \in Procs : q # p => work'[q] = work[q]
    BY DEF StackDone, TypeOK, LocalsOK
  <1>4. Goto(p, "next") /\ UNCHANGED cmd /\ "next" \in Labels /\ "next" \notin HasPlan
    BY DEF StackDone, Labels, HasPlan
  <1>5. /\ pc' \in [Procs -> Labels]
        /\ cmd' \in [Procs -> Commands \cup {NoCmd}]
        /\ \A q \in Procs : ~Ended(q)' => cmd'[q] \in Commands
        /\ \A q \in Procs : pc'[q] \in HasPlan => work'[q] \in PlanFiles
    BY <1>1, <1>3, <1>4, GotoType
  <1>6. QED
    BY <1>1, <1>2, <1>5 DEF StackDone, TypeOK, LocalsOK

LEMMA SummaryType ==
  ASSUME NEW plan \in PlanFiles
  PROVE  Summary(plan) \in Summaries
  BY ConstantsOK DEF Summary, Summaries, PlanFiles

LEMMA GrantType ==
  ASSUME TypeOK, NEW p \in Procs, work[p] \in PlanFiles, Grant(p)
  PROVE  granted' \in [Procs -> SUBSET (Stacks \X Infra \X Infra)]
  BY DEF TypeOK, LocalsOK, Grant, Effect, PlanFiles

\* A step of a running process that changes its label only.
LEMMA JumpType ==
  ASSUME TypeOK, NEW p \in Procs, ~Ended(p), NEW l \in Labels, Goto(p, l),
         UNCHANGED locals, l \in HasPlan => work[p] \in PlanFiles
  PROVE  LocalsOK' /\ pc' \in [Procs -> Labels]
  <1>1. /\ work' \in [Procs -> PlanFiles \cup {NoPlan}]
        /\ \A q \in Procs : q # p => work'[q] = work[q]
        /\ UNCHANGED cmd
    BY DEF TypeOK, LocalsOK, locals
  <1>2. l \in HasPlan => work'[p] \in PlanFiles
    BY DEF locals
  <1>3. QED
    BY <1>1, <1>2, GotoType DEF TypeOK, LocalsOK, locals

LEMMA TypeNext == TypeOK /\ [Next]_vars => TypeOK'
  <1> SUFFICES ASSUME TypeOK, [Next]_vars
               PROVE  TypeOK'
    OBVIOUS
  <1>0. ASSUME UNCHANGED aws PROVE AwsOK'
    BY <1>0 DEF TypeOK, AwsOK, aws
  <1>f. ASSUME UNCHANGED files PROVE FilesOK'
    BY <1>f DEF TypeOK, FilesOK, files
  <1>1. CASE UNCHANGED vars
    BY <1>1, <1>0, <1>f DEF vars, locals, TypeOK, LocalsOK, Ended
  <1>2. CASE EditConfig
    BY <1>2, <1>0, <1>f DEF EditConfig, locals, TypeOK, LocalsOK, Ended
  <1>3. ASSUME NEW p \in Procs, Start(p) PROVE TypeOK'
    <2>1. AwsOK'
      BY <1>3, <1>0 DEF Start
    <2>2. FilesOK'
      BY <1>3, <1>f DEF Start
    <2>3. LocalsOK' /\ pc' \in [Procs -> Labels]
      <3>1. PICK v \in Verbs, sel \in (SUBSET StacksOf(config)) \ {{}} :
              /\ cmd'  = [cmd EXCEPT ![p] = [verb |-> v, cfg |-> config, sel |-> sel]]
              /\ todo' = [todo EXCEPT ![p] = sel]
              /\ Goto(p, IF v = "apply" THEN "secret" ELSE "prepare")
        BY <1>3 DEF Start
      <3>2. [verb |-> v, cfg |-> config, sel |-> sel] \in Commands
        BY ConstantsOK DEF Commands, TypeOK, StacksOf
      <3>3. /\ cmd' \in [Procs -> Commands \cup {NoCmd}]
            /\ todo' \in [Procs -> SUBSET Stacks]
        BY <3>1, <3>2 DEF TypeOK, LocalsOK, StacksOf
      <3>4. /\ pc' \in [Procs -> Labels]
            /\ pc'[p] \in {"secret", "prepare"}
            /\ \A q \in Procs : q # p => pc'[q] = pc[q] /\ cmd'[q] = cmd[q]
            /\ cmd'[p] \in Commands
        BY <3>1, <3>2 DEF TypeOK, LocalsOK, Goto, Labels
      <3>5. QED
        BY <1>3, <3>3, <3>4 DEF Start, TypeOK, LocalsOK, Ended, HasPlan
    <2>4. QED
      BY <1>3, <2>1, <2>2, <2>3 DEF Start, TypeOK
  <1>4. ASSUME NEW p \in Procs, Fail(p) PROVE TypeOK'
    <2>1. AwsOK'
      BY <1>4 DEF Fail, TypeOK, AwsOK
    <2>2. FilesOK'
      BY <1>4, <1>f DEF Fail
    <2>3. LocalsOK' /\ pc' \in [Procs -> Labels]
      BY <1>4, FinishType DEF Fail
    <2>4. QED
      BY <1>4, <2>1, <2>2, <2>3 DEF Fail, TypeOK
  <1>5. ASSUME NEW p \in Procs, CheckSecret(p) PROVE TypeOK'
    <2>1. AwsOK'
      BY <1>5, <1>0 DEF CheckSecret
    <2>2. FilesOK'
      BY <1>5, <1>f DEF CheckSecret
    <2>3. LocalsOK' /\ pc' \in [Procs -> Labels]
      BY <1>5, JumpType DEF CheckSecret, Labels, Ended, HasPlan
    <2>4. QED
      BY <1>5, <2>1, <2>2, <2>3 DEF CheckSecret, TypeOK
  <1>6. ASSUME NEW p \in Procs, CreateSecret(p) PROVE TypeOK'
    <2>1. AwsOK'
      BY <1>6 DEF CreateSecret, TypeOK, AwsOK, BucketFlags
    <2>2. FilesOK'
      BY <1>6, <1>f DEF CreateSecret
    <2>3. LocalsOK' /\ pc' \in [Procs -> Labels]
      BY <1>6, JumpType DEF CreateSecret, Labels, Ended, HasPlan
    <2>4. QED
      BY <1>6, <2>1, <2>2, <2>3 DEF CreateSecret, TypeOK
  <1>7. ASSUME NEW p \in Procs, Prepare(p) PROVE TypeOK'
    <2>1. AwsOK'
      BY <1>7, <1>0 DEF Prepare
    <2>2. FilesOK'
      BY <1>7, <1>f DEF Prepare
    <2>3. LocalsOK' /\ pc' \in [Procs -> Labels]
      <3>1. noState' \in [Procs -> BOOLEAN]
        BY <1>7 DEF Prepare, TypeOK, LocalsOK
      <3>2. QED
        BY <1>7, <3>1, GotoType DEF Prepare, TypeOK, LocalsOK, Labels, Ended, HasPlan
    <2>4. QED
      BY <1>7, <2>1, <2>2, <2>3 DEF Prepare, TypeOK
  <1>8. ASSUME NEW p \in Procs, Render(p) PROVE TypeOK'
    <2>1. AwsOK'
      BY <1>8, <1>0 DEF Render
    <2>2. FilesOK'
      <3>1. cmd[p] \in Commands
        BY <1>8 DEF Render, TypeOK, LocalsOK, Ended
      <3>2. \A t \in Stacks : Want[cmd[p].cfg][t] \in Infra
        BY <3>1, ConstantsOK DEF Commands, Infra
      <3>3. Dir(p) \in Dirs
        BY ConstantsOK DEF Dir
      <3>4. QED
        BY <1>8, <3>2, <3>3 DEF Render, TypeOK, FilesOK
    <2>3. LocalsOK' /\ pc' \in [Procs -> Labels]
      <3>1. \/ \E l \in {"network_applied", "next", "ask_purge", "preview"} :
                   Goto(p, l) /\ UNCHANGED locals
            \/ \E r \in {"ok", "failed"} : Finish(p, r)
        BY <1>8 DEF Render
      <3>2. QED
        BY <1>8, <3>1, JumpType, FinishType DEF Render, Labels, Ended, HasPlan
    <2>4. QED
      BY <1>8, <2>1, <2>2, <2>3 DEF Render, TypeOK
  <1>9. ASSUME NEW p \in Procs, WritePreview(p) PROVE TypeOK'
    <2>1. AwsOK'
      BY <1>9, <1>0 DEF WritePreview
    <2>2. FilesOK'
      <3>1. cmd[p] \in Commands
        BY <1>9 DEF WritePreview, TypeOK, LocalsOK, Ended
      <3>2. Want[cmd[p].cfg][Network] \in Infra
        BY <3>1, ConstantsOK DEF Commands, Infra, Network, Stacks
      <3>3. QED
        BY <1>9, <3>2 DEF WritePreview, TypeOK, FilesOK
    <2>3. LocalsOK' /\ pc' \in [Procs -> Labels]
      BY <1>9, JumpType DEF WritePreview, Labels, Ended, HasPlan
    <2>4. QED
      BY <1>9, <2>1, <2>2, <2>3 DEF WritePreview, TypeOK
  <1>10. ASSUME NEW p \in Procs, ShowPreview(p) PROVE TypeOK'
    <2>1. AwsOK'
      BY <1>10, <1>0 DEF ShowPreview
    <2>2. FilesOK'
      BY <1>10, <1>f DEF ShowPreview
    <2>3. LocalsOK' /\ pc' \in [Procs -> Labels]
      <3> DEFINE plan == [stack |-> Network, want |-> preview[Dir(p)], base |-> NoInfra,
                          serial |-> serial[Network]]
      <3>1. CASE Verb(p) = "plan"
        BY <1>10, <3>1, FinishType DEF ShowPreview
      <3>2. CASE Verb(p) # "plan"
        <4>1. plan \in PlanFiles
          BY ConstantsOK DEF PlanFiles, TypeOK, FilesOK, AwsOK, Dir, Network, Stacks, Infra
        <4>2. /\ work' = [work EXCEPT ![p] = plan]
              /\ Goto(p, "ask_first") /\ ~Ended(p)
              /\ UNCHANGED <<cmd, todo, noState, approved, granted>>
          BY <1>10, <3>2 DEF ShowPreview, Ended
        <4>3. /\ work' \in [Procs -> PlanFiles \cup {NoPlan}]
              /\ work'[p] \in PlanFiles
              /\ \A q \in Procs : q # p => work'[q] = work[q]
          <5> HIDE DEF plan
          <5>1. QED
            BY <4>1, <4>2 DEF TypeOK, LocalsOK
        <4>4. QED
          BY <4>2, <4>3, GotoType DEF TypeOK, LocalsOK, Labels
      <3>3. QED
        BY <3>1, <3>2
    <2>4. QED
      BY <1>10, <2>1, <2>2, <2>3 DEF ShowPreview, TypeOK
  <1>11. ASSUME NEW p \in Procs, ApproveFirst(p) PROVE TypeOK'
    <2>1. AwsOK'
      BY <1>11, <1>0 DEF ApproveFirst
    <2>2. FilesOK'
      BY <1>11, <1>f DEF ApproveFirst
    <2>3. LocalsOK' /\ pc' \in [Procs -> Labels]
      <3>1. work[p] \in PlanFiles
        BY <1>11 DEF ApproveFirst, TypeOK, LocalsOK, HasPlan
      <3>2. granted' \in [Procs -> SUBSET (Stacks \X Infra \X Infra)]
        BY <1>11, <3>1, GrantType DEF ApproveFirst
      <3>3. approved' \in [Procs -> SUBSET Summaries]
        BY <1>11, <3>1, SummaryType DEF ApproveFirst, TypeOK, LocalsOK
      <3>4. /\ work' \in [Procs -> PlanFiles \cup {NoPlan}]
            /\ \A q \in Procs : q # p => work'[q] = work[q]
        BY <1>11 DEF ApproveFirst, TypeOK, LocalsOK
      <3>5. QED
        BY <1>11, <3>2, <3>3, <3>4, GotoType
           DEF ApproveFirst, TypeOK, LocalsOK, Labels, Ended, HasPlan
    <2>4. QED
      BY <1>11, <2>1, <2>2, <2>3 DEF ApproveFirst, TypeOK
  <1>12. ASSUME NEW p \in Procs, HeadBucket(p) PROVE TypeOK'
    <2>1. AwsOK'
      BY <1>12, <1>0 DEF HeadBucket
    <2>2. FilesOK'
      BY <1>12, <1>f DEF HeadBucket
    <2>3. LocalsOK' /\ pc' \in [Procs -> Labels]
      <3>1. noState' \in [Procs -> BOOLEAN]
        BY <1>12 DEF HeadBucket, TypeOK, LocalsOK
      <3>2. QED
        BY <1>12, <3>1, GotoType DEF HeadBucket, TypeOK, LocalsOK, Labels, Ended, HasPlan
    <2>4. QED
      BY <1>12, <2>1, <2>2, <2>3 DEF HeadBucket, TypeOK
  <1>13. ASSUME NEW p \in Procs, CreateBucket(p) PROVE TypeOK'
    <2>1. AwsOK'
      BY <1>13 DEF CreateBucket, TypeOK, AwsOK, BucketFlags
    <2>2. FilesOK'
      BY <1>13, <1>f DEF CreateBucket
    <2>3. LocalsOK' /\ pc' \in [Procs -> Labels]
      BY <1>13, JumpType DEF CreateBucket, Labels, Ended, HasPlan
    <2>4. QED
      BY <1>13, <2>1, <2>2, <2>3 DEF CreateBucket, TypeOK
  <1>14. ASSUME NEW p \in Procs, PutVersioning(p) PROVE TypeOK'
    <2>1. AwsOK'
      BY <1>14 DEF PutVersioning, TypeOK, AwsOK, BucketFlags
    <2>2. FilesOK'
      BY <1>14, <1>f DEF PutVersioning
    <2>3. LocalsOK' /\ pc' \in [Procs -> Labels]
      BY <1>14, JumpType DEF PutVersioning, Labels, Ended, HasPlan
    <2>4. QED
      BY <1>14, <2>1, <2>2, <2>3 DEF PutVersioning, TypeOK
  <1>15. ASSUME NEW p \in Procs, BlockPublic(p) PROVE TypeOK'
    <2>1. AwsOK'
      BY <1>15 DEF BlockPublic, TypeOK, AwsOK, BucketFlags
    <2>2. FilesOK'
      BY <1>15, <1>f DEF BlockPublic
    <2>3. LocalsOK' /\ pc' \in [Procs -> Labels]
      <3>1. noState' \in [Procs -> BOOLEAN]
        BY <1>15 DEF BlockPublic, TypeOK, LocalsOK
      <3>2. QED
        BY <1>15, <3>1, GotoType DEF BlockPublic, TypeOK, LocalsOK, Labels, Ended, HasPlan
    <2>4. QED
      BY <1>15, <2>1, <2>2, <2>3 DEF BlockPublic, TypeOK
  <1>16. ASSUME NEW p \in Procs, NetworkApplied(p) PROVE TypeOK'
    <2>1. AwsOK'
      BY <1>16, <1>0 DEF NetworkApplied
    <2>2. FilesOK'
      BY <1>16, <1>f DEF NetworkApplied
    <2>3. LocalsOK' /\ pc' \in [Procs -> Labels]
      <3>1. todo' \in [Procs -> SUBSET Stacks]
        BY <1>16 DEF NetworkApplied, TypeOK, LocalsOK
      <3>2. QED
        BY <1>16, <3>1, GotoType DEF NetworkApplied, TypeOK, LocalsOK, Labels, Ended, HasPlan
    <2>4. QED
      BY <1>16, <2>1, <2>2, <2>3 DEF NetworkApplied, TypeOK
  <1>17. ASSUME NEW p \in Procs, AllDone(p) PROVE TypeOK'
    <2>1. AwsOK'
      BY <1>17, <1>0 DEF AllDone
    <2>2. FilesOK'
      BY <1>17, <1>f DEF AllDone
    <2>3. LocalsOK' /\ pc' \in [Procs -> Labels]
      BY <1>17, JumpType, FinishType DEF AllDone, Labels, Ended, HasPlan
    <2>4. QED
      BY <1>17, <2>1, <2>2, <2>3 DEF AllDone, TypeOK
  <1>18. ASSUME NEW p \in Procs, ApprovePlan(p) PROVE TypeOK'
    <2>1. AwsOK'
      BY <1>18, <1>0 DEF ApprovePlan
    <2>2. FilesOK'
      BY <1>18, <1>f DEF ApprovePlan
    <2>3. LocalsOK' /\ pc' \in [Procs -> Labels]
      <3>1. work[p] \in PlanFiles
        BY <1>18 DEF ApprovePlan, TypeOK, LocalsOK, HasPlan
      <3>2. granted' \in [Procs -> SUBSET (Stacks \X Infra \X Infra)]
        BY <1>18, <3>1, GrantType DEF ApprovePlan
      <3>3. QED
        BY <1>18, <3>1, <3>2, GotoType DEF ApprovePlan, TypeOK, LocalsOK, Labels, Ended, HasPlan
    <2>4. QED
      BY <1>18, <2>1, <2>2, <2>3 DEF ApprovePlan, TypeOK
  <1>19. ASSUME NEW p \in Procs, ApprovePurge(p) PROVE TypeOK'
    <2>1. AwsOK'
      BY <1>19 DEF ApprovePurge, TypeOK, AwsOK, BucketFlags
    <2>2. FilesOK'
      BY <1>19, <1>f DEF ApprovePurge
    <2>3. LocalsOK' /\ pc' \in [Procs -> Labels]
      BY <1>19, JumpType, FinishType DEF ApprovePurge, Labels, Ended, HasPlan
    <2>4. QED
      BY <1>19, <2>1, <2>2, <2>3 DEF ApprovePurge, TypeOK
  <1>20. ASSUME NEW p \in Procs, PurgeObjects(p) PROVE TypeOK'
    <2>1. AwsOK'
      <3>1. \A t \in Stacks : NewSerial(t) \in Serials
        BY SerialExists
      <3>2. QED
        BY <1>20, <3>1 DEF PurgeObjects, DeleteObjects, TypeOK, AwsOK
    <2>2. FilesOK'
      BY <1>20, <1>f DEF PurgeObjects
    <2>3. LocalsOK' /\ pc' \in [Procs -> Labels]
      BY <1>20, JumpType, FinishType DEF PurgeObjects, Labels, Ended, HasPlan
    <2>4. QED
      BY <1>20, <2>1, <2>2, <2>3 DEF PurgeObjects, TypeOK
  <1>21. ASSUME NEW p \in Procs, PurgeSomeObjects(p) PROVE TypeOK'
    <2>1. AwsOK'
      <3>1. \A t \in Stacks : NewSerial(t) \in Serials
        BY SerialExists
      <3>2. QED
        BY <1>21, <3>1 DEF PurgeSomeObjects, DeleteObjects, TypeOK, AwsOK
    <2>2. FilesOK'
      BY <1>21, <1>f DEF PurgeSomeObjects
    <2>3. LocalsOK' /\ pc' \in [Procs -> Labels]
      BY <1>21, FinishType DEF PurgeSomeObjects
    <2>4. QED
      BY <1>21, <2>1, <2>2, <2>3 DEF PurgeSomeObjects, TypeOK
  <1>22. ASSUME NEW p \in Procs, PurgeBucket(p) PROVE TypeOK'
    <2>1. AwsOK'
      BY <1>22 DEF PurgeBucket, TypeOK, AwsOK, BucketFlags
    <2>2. FilesOK'
      BY <1>22, <1>f DEF PurgeBucket
    <2>3. LocalsOK' /\ pc' \in [Procs -> Labels]
      BY <1>22, FinishType DEF PurgeBucket
    <2>4. QED
      BY <1>22, <2>1, <2>2, <2>3 DEF PurgeBucket, TypeOK
  <1>23. ASSUME NEW p \in Procs, NEW s \in Stacks, Next1(p, s) PROVE TypeOK'
    <2>1. AwsOK'
      BY <1>23, <1>0 DEF Next1
    <2>2. FilesOK'
      BY <1>23, <1>f DEF Next1
    <2>3. LocalsOK' /\ pc' \in [Procs -> Labels]
      BY <1>23, JumpType, StackDoneType DEF Next1, Labels, Ended, HasPlan
    <2>4. QED
      BY <1>23, <2>1, <2>2, <2>3 DEF Next1, TypeOK
  <1>24. ASSUME NEW p \in Procs, NEW s \in Stacks, StartPlan(p, s) PROVE TypeOK'
    <2>1. AwsOK'
      BY <1>24 DEF StartPlan, TakesLock, TypeOK, AwsOK
    <2>2. FilesOK'
      BY <1>24, <1>f DEF StartPlan
    <2>3. LocalsOK' /\ pc' \in [Procs -> Labels]
      <3> DEFINE plan == [stack |-> s, want |-> IF Destroying(p) THEN NoInfra ELSE rendered[Dir(p)][s],
                          base |-> Refreshed(s), serial |-> serial[s]]
      <3>1. plan \in PlanFiles
        BY ConstantsOK DEF PlanFiles, TypeOK, FilesOK, AwsOK, Dir, Infra, Refreshed
      <3>2. /\ work' = [work EXCEPT ![p] = plan]
            /\ Goto(p, "planning") /\ ~Ended(p)
            /\ UNCHANGED <<cmd, todo, noState, approved, granted>>
        BY <1>24 DEF StartPlan, Ended
      <3>3. /\ work' \in [Procs -> PlanFiles \cup {NoPlan}]
            /\ work'[p] \in PlanFiles
            /\ \A q \in Procs : q # p => work'[q] = work[q]
        <4> HIDE DEF plan
        <4>1. QED
          BY <3>1, <3>2 DEF TypeOK, LocalsOK
      <3>4. QED
        BY <3>2, <3>3, GotoType DEF TypeOK, LocalsOK, Labels
    <2>4. QED
      BY <1>24, <2>1, <2>2, <2>3 DEF StartPlan, TypeOK
  <1>25. ASSUME NEW p \in Procs, NEW s \in Stacks, WritePlan(p, s) PROVE TypeOK'
    <2>1. AwsOK'
      BY <1>25 DEF WritePlan, TypeOK, AwsOK
    <2>2. FilesOK'
      <3>1. work[p] \in PlanFiles
        BY <1>25 DEF WritePlan, TypeOK, LocalsOK, HasPlan
      <3>2. Dir(p) \in Dirs
        BY ConstantsOK DEF Dir
      <3>3. QED
        BY <1>25, <3>1, <3>2 DEF WritePlan, TypeOK, FilesOK
    <2>3. LocalsOK' /\ pc' \in [Procs -> Labels]
      BY <1>25, JumpType DEF WritePlan, Labels, Ended, HasPlan
    <2>4. QED
      BY <1>25, <2>1, <2>2, <2>3 DEF WritePlan, TypeOK
  <1>26. ASSUME NEW p \in Procs, NEW s \in Stacks, ShowPlan(p, s) PROVE TypeOK'
    <2>1. AwsOK'
      BY <1>26, <1>0 DEF ShowPlan
    <2>2. FilesOK'
      BY <1>26, <1>f DEF ShowPlan
    <2>3. LocalsOK' /\ pc' \in [Procs -> Labels]
      <3>1. CASE ~(Verb(p) = "plan" \/ Empty(Summary(planFile[Dir(p)][s])))
        <4>1. planFile[Dir(p)][s] \in PlanFiles
          BY <1>26, ConstantsOK DEF ShowPlan, Dir, TypeOK, FilesOK
        <4>2. /\ work' \in [Procs -> PlanFiles \cup {NoPlan}]
              /\ work'[p] \in PlanFiles
              /\ \A q \in Procs : q # p => work'[q] = work[q]
          BY <1>26, <3>1, <4>1 DEF ShowPlan, TypeOK, LocalsOK
        <4>3. QED
          BY <1>26, <3>1, <4>2, GotoType DEF ShowPlan, TypeOK, LocalsOK, Labels, Ended
      <3>2. CASE Verb(p) = "plan" \/ Empty(Summary(planFile[Dir(p)][s]))
        BY <1>26, <3>2, StackDoneType DEF ShowPlan, Ended
      <3>3. QED
        BY <3>1, <3>2
    <2>4. QED
      BY <1>26, <2>1, <2>2, <2>3 DEF ShowPlan, TypeOK
  <1>27. ASSUME NEW p \in Procs, NEW s \in Stacks, StartApply(p, s) PROVE TypeOK'
    <2>1. AwsOK'
      BY <1>27 DEF StartApply, TypeOK, AwsOK
    <2>2. FilesOK'
      BY <1>27, <1>f DEF StartApply
    <2>3. LocalsOK' /\ pc' \in [Procs -> Labels]
      <3>1. planFile[Dir(p)][s] \in PlanFiles
        BY <1>27, ConstantsOK DEF StartApply, Dir, TypeOK, FilesOK
      <3>2. /\ work' \in [Procs -> PlanFiles \cup {NoPlan}]
            /\ work'[p] \in PlanFiles
            /\ \A q \in Procs : q # p => work'[q] = work[q]
        BY <1>27, <3>1 DEF StartApply, TypeOK, LocalsOK
      <3>3. QED
        BY <1>27, <3>2, GotoType DEF StartApply, TypeOK, LocalsOK, Labels, Ended
    <2>4. QED
      BY <1>27, <2>1, <2>2, <2>3 DEF StartApply, TypeOK
  <1>28. ASSUME NEW p \in Procs, NEW s \in Stacks, ApplyRefused(p, s) PROVE TypeOK'
    <2>1. AwsOK'
      BY <1>28, <1>0 DEF ApplyRefused
    <2>2. FilesOK'
      BY <1>28, ConstantsOK DEF ApplyRefused, RemovePlanFile, Dir, TypeOK, FilesOK
    <2>3. LocalsOK' /\ pc' \in [Procs -> Labels]
      BY <1>28, FinishType DEF ApplyRefused
    <2>4. QED
      BY <1>28, <2>1, <2>2, <2>3 DEF ApplyRefused, TypeOK
  <1>29. ASSUME NEW p \in Procs, NEW s \in Stacks, ApplySome(p, s) PROVE TypeOK'
    <2>1. AwsOK'
      BY <1>29 DEF ApplySome, TypeOK, AwsOK, Infra
    <2>2. FilesOK'
      BY <1>29, <1>f DEF ApplySome
    <2>3. LocalsOK' /\ pc' \in [Procs -> Labels]
      BY <1>29 DEF ApplySome, locals, TypeOK, LocalsOK, Ended
    <2>4. QED
      BY <1>29, <2>1, <2>2, <2>3 DEF ApplySome, TypeOK
  <1>30. ASSUME NEW p \in Procs, NEW s \in Stacks, ApplyDone(p, s) PROVE TypeOK'
    <2>1. AwsOK'
      <3>1. NewSerial(s) \in Serials
        BY SerialExists
      <3>2. work[p] \in PlanFiles
        BY <1>30 DEF ApplyDone, TypeOK, LocalsOK, HasPlan
      <3>3. QED
        BY <1>30, <3>1, <3>2 DEF ApplyDone, SaveState, TypeOK, AwsOK, PlanFiles
    <2>2. FilesOK'
      BY <1>30, ConstantsOK DEF ApplyDone, RemovePlanFile, Dir, TypeOK, FilesOK
    <2>3. LocalsOK' /\ pc' \in [Procs -> Labels]
      BY <1>30, StackDoneType DEF ApplyDone, Ended
    <2>4. QED
      BY <1>30, <2>1, <2>2, <2>3 DEF ApplyDone, TypeOK
  <1>31. ASSUME NEW p \in Procs, NEW s \in Stacks, ApplyFailed(p, s) PROVE TypeOK'
    <2>1. AwsOK'
      <3>1. NewSerial(s) \in Serials
        BY SerialExists
      <3>2. work[p] \in PlanFiles
        BY <1>31 DEF ApplyFailed, TypeOK, LocalsOK, HasPlan
      <3>3. QED
        BY <1>31, <3>1, <3>2 DEF ApplyFailed, SaveState, TypeOK, AwsOK, PlanFiles
    <2>2. FilesOK'
      BY <1>31, ConstantsOK DEF ApplyFailed, RemovePlanFile, Dir, TypeOK, FilesOK
    <2>3. LocalsOK' /\ pc' \in [Procs -> Labels]
      BY <1>31, FinishType DEF ApplyFailed
    <2>4. QED
      BY <1>31, <2>1, <2>2, <2>3 DEF ApplyFailed, TypeOK
  <1>32. ASSUME NEW p \in Procs, Kill(p) PROVE TypeOK'
    <2>1. AwsOK'
      <3>1. \A t \in Stacks : NewSerial(t) \in Serials
        BY SerialExists
      <3>2. QED
        BY <1>32, <3>1 DEF Kill, TypeOK, AwsOK
    <2>2. FilesOK'
      BY <1>32, <1>f DEF Kill
    <2>3. LocalsOK' /\ pc' \in [Procs -> Labels]
      BY <1>32, FinishType DEF Kill
    <2>4. QED
      BY <1>32, <2>1, <2>2, <2>3 DEF Kill, TypeOK
  <1>33. QED
    BY <1>1, <1>2, <1>3, <1>4, <1>5, <1>6, <1>7, <1>8, <1>9, <1>10, <1>11, <1>12, <1>13, <1>14, <1>15, <1>16, <1>17, <1>18, <1>19, <1>20, <1>21, <1>22, <1>23, <1>24, <1>25, <1>26, <1>27, <1>28, <1>29, <1>30, <1>31, <1>32
       DEF Next, Step, Failure, StackStep

\* Every variable has its type, and a running process its command and plan.
THEOREM TypeCorrect == Spec => []TypeOK
  BY TypeInit, TypeNext, PTL DEF Spec

-----------------------------------------------------------------------------
(* The state locks keep the processes apart, as long as nobody purges: a     *)
(* purge deletes the lock objects together with the state.                   *)

PurgeLabels == {"ask_purge", "purge_objects", "purge_bucket"}

\* Who applies holds the lock of the stack it is at.
Held(p) ==
  /\ pc[p] = "applying" => \A s \in Stacks : At(p, s) => lock[s] = p
  /\ ~Ended(p) => Verb(p) \in Verbs
  /\ pc[p] \in PurgeLabels => Verb(p) = "purge"

\* A step of somebody else: it takes no lock from p.
Left(p) ==
  /\ pc'[p] = pc[p] /\ cmd'[p] = cmd[p] /\ todo'[p] = todo[p]
  /\ \A s \in Stacks : lock[s] = p => lock'[s] = p

OthersLeft(p) == \A q \in Procs \ {p} : Left(q)

LEMMA LeftHeld ==
  ASSUME NEW p \in Procs, Held(p), Left(p)
  PROVE  Held(p)'
  <1>1. Ended(p)' = Ended(p) /\ Verb(p)' = Verb(p)
    BY DEF Left, Ended, Verb
  <1>2. \A s \in Stacks : At(p, s)' = At(p, s)
    BY <1>1 DEF Left, At, Destroying
  <1>3. QED
    BY <1>1, <1>2 DEF Left, Held

LEMMA FinishHeld ==
  ASSUME TypeOK, NEW p \in Procs, NEW r \in {"ok", "failed"}, Finish(p, r)
  PROVE  Held(p)'
  <1>1. pc'[p] = r
    BY DEF Finish, Goto, TypeOK
  <1>2. QED
    BY <1>1 DEF Held, Ended, PurgeLabels

\* A step to a label at which nothing is applied.
LEMMA JumpHeld ==
  ASSUME TypeOK, NEW p \in Procs, ~Ended(p), Held(p), NEW l, Goto(p, l), UNCHANGED cmd,
         l # "applying", l \in PurgeLabels => Verb(p) = "purge"
  PROVE  Held(p)'
  <1>1. pc'[p] = l /\ Verb(p)' = Verb(p)
    BY DEF Goto, TypeOK, Verb
  <1>2. QED
    BY <1>1 DEF Held

-----------------------------------------------------------------------------
LEMMA HeldStep ==
  ASSUME "purge" \notin Verbs, TypeOK, NEW p \in Procs, Held(p),
         Start(p) \/ Step(p) \/ Failure(p)
  PROVE  Held(p)' /\ OthersLeft(p)
  <1>1. ASSUME Start(p) PROVE Held(p)' /\ OthersLeft(p)
    <2>1. Held(p)'
      <3>1. PICK v \in Verbs, sel \in (SUBSET StacksOf(config)) \ {{}} :
              /\ cmd'  = [cmd EXCEPT ![p] = [verb |-> v, cfg |-> config, sel |-> sel]]
              /\ Goto(p, IF v = "apply" THEN "secret" ELSE "prepare")
        BY <1>1 DEF Start
      <3>2. cmd'[p].verb = v /\ pc'[p] \in {"secret", "prepare"}
        BY <3>1 DEF TypeOK, LocalsOK, Goto
      <3>3. QED
        BY <3>2 DEF Held, Verb, PurgeLabels
    <2>2. OthersLeft(p)
      BY <1>1, NullsOK DEF Start, OthersLeft, Left, Goto, TypeOK, AwsOK, LocalsOK, aws, locals
    <2>3. QED
      BY <2>1, <2>2
  <1>2. ASSUME Fail(p) PROVE Held(p)' /\ OthersLeft(p)
    <2>1. Held(p)'
      BY <1>2, FinishHeld DEF Fail
    <2>2. OthersLeft(p)
      BY <1>2, NullsOK DEF Fail, OthersLeft, Left, Goto, TypeOK, AwsOK, LocalsOK, aws, locals, Finish
    <2>3. QED
      BY <2>1, <2>2
  <1>3. ASSUME CheckSecret(p) PROVE Held(p)' /\ OthersLeft(p)
    <2>1. Held(p)'
      BY <1>3, JumpHeld DEF CheckSecret, PurgeLabels, Ended, locals
    <2>2. OthersLeft(p)
      BY <1>3, NullsOK DEF CheckSecret, OthersLeft, Left, Goto, TypeOK, AwsOK, LocalsOK, aws, locals
    <2>3. QED
      BY <2>1, <2>2
  <1>4. ASSUME CreateSecret(p) PROVE Held(p)' /\ OthersLeft(p)
    <2>1. Held(p)'
      BY <1>4, JumpHeld DEF CreateSecret, PurgeLabels, Ended, locals
    <2>2. OthersLeft(p)
      BY <1>4, NullsOK DEF CreateSecret, OthersLeft, Left, Goto, TypeOK, AwsOK, LocalsOK, aws, locals
    <2>3. QED
      BY <2>1, <2>2
  <1>5. ASSUME Prepare(p) PROVE Held(p)' /\ OthersLeft(p)
    <2>1. Held(p)'
      BY <1>5, JumpHeld DEF Prepare, PurgeLabels, Ended, locals
    <2>2. OthersLeft(p)
      BY <1>5, NullsOK DEF Prepare, OthersLeft, Left, Goto, TypeOK, AwsOK, LocalsOK, aws, locals
    <2>3. QED
      BY <2>1, <2>2
  <1>6. ASSUME Render(p) PROVE Held(p)' /\ OthersLeft(p)
    <2>1. Held(p)'
      <3>1. \/ \E l \in {"network_applied", "next", "ask_purge", "preview"} :
                 Goto(p, l) /\ UNCHANGED locals /\ (l = "ask_purge" => Verb(p) = "purge")
            \/ \E r \in {"ok", "failed"} : Finish(p, r)
        BY <1>6 DEF Render
      <3>2. QED
        BY <1>6, <3>1, JumpHeld, FinishHeld DEF Render, PurgeLabels, Ended, locals
    <2>2. OthersLeft(p)
      BY <1>6, NullsOK DEF Render, OthersLeft, Left, Goto, TypeOK, AwsOK, LocalsOK, aws, locals, Finish
    <2>3. QED
      BY <2>1, <2>2
  <1>7. ASSUME WritePreview(p) PROVE Held(p)' /\ OthersLeft(p)
    <2>1. Held(p)'
      BY <1>7, JumpHeld DEF WritePreview, PurgeLabels, Ended, locals
    <2>2. OthersLeft(p)
      BY <1>7, NullsOK DEF WritePreview, OthersLeft, Left, Goto, TypeOK, AwsOK, LocalsOK, aws, locals
    <2>3. QED
      BY <2>1, <2>2
  <1>8. ASSUME ShowPreview(p) PROVE Held(p)' /\ OthersLeft(p)
    <2>1. Held(p)'
      BY <1>8, JumpHeld, FinishHeld DEF ShowPreview, PurgeLabels, Ended, locals
    <2>2. OthersLeft(p)
      BY <1>8, NullsOK DEF ShowPreview, OthersLeft, Left, Goto, TypeOK, AwsOK, LocalsOK, aws, locals, Finish
    <2>3. QED
      BY <2>1, <2>2
  <1>9. ASSUME ApproveFirst(p) PROVE Held(p)' /\ OthersLeft(p)
    <2>1. Held(p)'
      BY <1>9, JumpHeld DEF ApproveFirst, PurgeLabels, Ended, locals
    <2>2. OthersLeft(p)
      BY <1>9, NullsOK DEF ApproveFirst, OthersLeft, Left, Goto, TypeOK, AwsOK, LocalsOK, aws, locals, Grant
    <2>3. QED
      BY <2>1, <2>2
  <1>10. ASSUME HeadBucket(p) PROVE Held(p)' /\ OthersLeft(p)
    <2>1. Held(p)'
      BY <1>10, JumpHeld DEF HeadBucket, PurgeLabels, Ended, locals
    <2>2. OthersLeft(p)
      BY <1>10, NullsOK DEF HeadBucket, OthersLeft, Left, Goto, TypeOK, AwsOK, LocalsOK, aws, locals
    <2>3. QED
      BY <2>1, <2>2
  <1>11. ASSUME CreateBucket(p) PROVE Held(p)' /\ OthersLeft(p)
    <2>1. Held(p)'
      BY <1>11, JumpHeld DEF CreateBucket, PurgeLabels, Ended, locals
    <2>2. OthersLeft(p)
      BY <1>11, NullsOK DEF CreateBucket, OthersLeft, Left, Goto, TypeOK, AwsOK, LocalsOK, aws, locals
    <2>3. QED
      BY <2>1, <2>2
  <1>12. ASSUME PutVersioning(p) PROVE Held(p)' /\ OthersLeft(p)
    <2>1. Held(p)'
      BY <1>12, JumpHeld DEF PutVersioning, PurgeLabels, Ended, locals
    <2>2. OthersLeft(p)
      BY <1>12, NullsOK DEF PutVersioning, OthersLeft, Left, Goto, TypeOK, AwsOK, LocalsOK, aws, locals
    <2>3. QED
      BY <2>1, <2>2
  <1>13. ASSUME BlockPublic(p) PROVE Held(p)' /\ OthersLeft(p)
    <2>1. Held(p)'
      BY <1>13, JumpHeld DEF BlockPublic, PurgeLabels, Ended, locals
    <2>2. OthersLeft(p)
      BY <1>13, NullsOK DEF BlockPublic, OthersLeft, Left, Goto, TypeOK, AwsOK, LocalsOK, aws, locals
    <2>3. QED
      BY <2>1, <2>2
  <1>14. ASSUME NetworkApplied(p) PROVE Held(p)' /\ OthersLeft(p)
    <2>1. Held(p)'
      BY <1>14, JumpHeld DEF NetworkApplied, PurgeLabels, Ended, locals
    <2>2. OthersLeft(p)
      BY <1>14, NullsOK DEF NetworkApplied, OthersLeft, Left, Goto, TypeOK, AwsOK, LocalsOK, aws, locals
    <2>3. QED
      BY <2>1, <2>2
  <1>15. ASSUME AllDone(p) PROVE Held(p)' /\ OthersLeft(p)
    <2>1. Held(p)'
      BY <1>15, JumpHeld, FinishHeld DEF AllDone, PurgeLabels, Ended, locals
    <2>2. OthersLeft(p)
      BY <1>15, NullsOK DEF AllDone, OthersLeft, Left, Goto, TypeOK, AwsOK, LocalsOK, aws, locals, Finish
    <2>3. QED
      BY <2>1, <2>2
  <1>16. ASSUME ApprovePlan(p) PROVE Held(p)' /\ OthersLeft(p)
    <2>1. Held(p)'
      BY <1>16, JumpHeld DEF ApprovePlan, PurgeLabels, Ended, locals
    <2>2. OthersLeft(p)
      BY <1>16, NullsOK DEF ApprovePlan, OthersLeft, Left, Goto, TypeOK, AwsOK, LocalsOK, aws, locals, Grant
    <2>3. QED
      BY <2>1, <2>2
  <1>17. ASSUME ApprovePurge(p) PROVE Held(p)' /\ OthersLeft(p)
    BY <1>17 DEF ApprovePurge, Held, PurgeLabels, Ended
  <1>18. ASSUME PurgeObjects(p) PROVE Held(p)' /\ OthersLeft(p)
    BY <1>18 DEF PurgeObjects, Held, PurgeLabels, Ended
  <1>19. ASSUME PurgeSomeObjects(p) PROVE Held(p)' /\ OthersLeft(p)
    BY <1>19 DEF PurgeSomeObjects, Held, PurgeLabels, Ended
  <1>20. ASSUME PurgeBucket(p) PROVE Held(p)' /\ OthersLeft(p)
    BY <1>20 DEF PurgeBucket, Held, PurgeLabels, Ended
  <1>21. ASSUME Kill(p) PROVE Held(p)' /\ OthersLeft(p)
    <2>1. Held(p)'
      BY <1>21, FinishHeld DEF Kill
    <2>2. OthersLeft(p)
      BY <1>21, NullsOK DEF Kill, OthersLeft, Left, Goto, TypeOK, AwsOK, LocalsOK, aws, locals, Finish
    <2>3. QED
      BY <2>1, <2>2
  <1>22. ASSUME NEW s \in Stacks, Next1(p, s) PROVE Held(p)' /\ OthersLeft(p)
    <2>1. Held(p)'
      BY <1>22, JumpHeld DEF Next1, PurgeLabels, Ended, StackDone, locals
    <2>2. OthersLeft(p)
      BY <1>22, NullsOK DEF Next1, OthersLeft, Left, Goto, TypeOK, AwsOK, LocalsOK, aws, locals, StackDone
    <2>3. QED
      BY <2>1, <2>2
  <1>23. ASSUME NEW s \in Stacks, StartPlan(p, s) PROVE Held(p)' /\ OthersLeft(p)
    <2>1. Held(p)'
      BY <1>23, JumpHeld DEF StartPlan, PurgeLabels, Ended, locals
    <2>2. OthersLeft(p)
      BY <1>23, NullsOK DEF StartPlan, OthersLeft, Left, Goto, TypeOK, AwsOK, LocalsOK, aws, locals, TakesLock
    <2>3. QED
      BY <2>1, <2>2
  <1>24. ASSUME NEW s \in Stacks, WritePlan(p, s) PROVE Held(p)' /\ OthersLeft(p)
    <2>1. Held(p)'
      BY <1>24, JumpHeld DEF WritePlan, PurgeLabels, Ended, locals
    <2>2. OthersLeft(p)
      BY <1>24, NullsOK DEF WritePlan, OthersLeft, Left, Goto, TypeOK, AwsOK, LocalsOK, aws, locals
    <2>3. QED
      BY <2>1, <2>2
  <1>25. ASSUME NEW s \in Stacks, ShowPlan(p, s) PROVE Held(p)' /\ OthersLeft(p)
    <2>1. Held(p)'
      BY <1>25, JumpHeld DEF ShowPlan, PurgeLabels, Ended, StackDone, locals
    <2>2. OthersLeft(p)
      BY <1>25, NullsOK DEF ShowPlan, OthersLeft, Left, Goto, TypeOK, AwsOK, LocalsOK, aws, locals, StackDone
    <2>3. QED
      BY <2>1, <2>2
  <1>26. ASSUME NEW s \in Stacks, StartApply(p, s) PROVE Held(p)' /\ OthersLeft(p)
    <2>1. Held(p)'
      <3>1. /\ pc'[p] = "applying" /\ lock'[s] = p /\ At(p, s) /\ ~Ended(p)
            /\ UNCHANGED <<cmd, todo>>
        BY <1>26 DEF StartApply, Goto, TypeOK, AwsOK, Ended
      <3>2. \A t \in Stacks : At(p, t)' => t = s
        BY <3>1, ConstantsOK DEF At, Destroying, Verb, Stacks
      <3>3. QED
        BY <3>1, <3>2 DEF Held, Ended, Verb, PurgeLabels
    <2>2. OthersLeft(p)
      BY <1>26, NullsOK DEF StartApply, OthersLeft, Left, Goto, TypeOK, AwsOK, LocalsOK, aws, locals, Applicable
    <2>3. QED
      BY <2>1, <2>2
  <1>27. ASSUME NEW s \in Stacks, ApplyRefused(p, s) PROVE Held(p)' /\ OthersLeft(p)
    <2>1. Held(p)'
      BY <1>27, FinishHeld DEF ApplyRefused
    <2>2. OthersLeft(p)
      BY <1>27, NullsOK DEF ApplyRefused, OthersLeft, Left, Goto, TypeOK, AwsOK, LocalsOK, aws, locals, Finish
    <2>3. QED
      BY <2>1, <2>2
  <1>28. ASSUME NEW s \in Stacks, ApplySome(p, s) PROVE Held(p)' /\ OthersLeft(p)
    <2>1. Held(p)'
      <3>1. Left(p)
        BY <1>28 DEF ApplySome, Left, locals
      <3>2. QED
        BY <3>1, LeftHeld
    <2>2. OthersLeft(p)
      BY <1>28, NullsOK DEF ApplySome, OthersLeft, Left, Goto, TypeOK, AwsOK, LocalsOK, aws, locals
    <2>3. QED
      BY <2>1, <2>2
  <1>29. ASSUME NEW s \in Stacks, ApplyDone(p, s) PROVE Held(p)' /\ OthersLeft(p)
    <2>1. Held(p)'
      BY <1>29, JumpHeld DEF ApplyDone, PurgeLabels, Ended, StackDone, locals
    <2>2. OthersLeft(p)
      BY <1>29, NullsOK DEF ApplyDone, OthersLeft, Left, Goto, TypeOK, AwsOK, LocalsOK, aws, locals, StackDone, SaveState
    <2>3. QED
      BY <2>1, <2>2
  <1>30. ASSUME NEW s \in Stacks, ApplyFailed(p, s) PROVE Held(p)' /\ OthersLeft(p)
    <2>1. Held(p)'
      BY <1>30, FinishHeld DEF ApplyFailed
    <2>2. OthersLeft(p)
      BY <1>30, NullsOK DEF ApplyFailed, OthersLeft, Left, Goto, TypeOK, AwsOK, LocalsOK, aws, locals, Finish, SaveState
    <2>3. QED
      BY <2>1, <2>2
  <1>31. QED
    BY <1>1, <1>2, <1>3, <1>4, <1>5, <1>6, <1>7, <1>8, <1>9, <1>10, <1>11, <1>12, <1>13, <1>14, <1>15, <1>16, <1>17, <1>18, <1>19, <1>20, <1>21, <1>22, <1>23, <1>24, <1>25, <1>26, <1>27, <1>28, <1>29, <1>30
       DEF Step, Failure, StackStep

LEMMA HeldNext ==
  ASSUME "purge" \notin Verbs, TypeOK, \A p \in Procs : Held(p), [Next]_vars
  PROVE  (\A p \in Procs : Held(p))'
  <1>1. CASE UNCHANGED vars \/ EditConfig
    <2>1. \A p \in Procs : Left(p)
      BY <1>1 DEF EditConfig, Left, vars, locals, aws
    <2>2. QED
      BY <2>1, LeftHeld
  <1>2. ASSUME NEW p \in Procs, Start(p) \/ Step(p) \/ Failure(p)
        PROVE  (\A q \in Procs : Held(q))'
    <2>1. Held(p)' /\ OthersLeft(p)
      BY <1>2, HeldStep
    <2>2. QED
      BY <2>1, LeftHeld DEF OthersLeft
  <1>3. QED
    BY <1>1, <1>2 DEF Next

LEMMA HeldInit == Init => \A p \in Procs : Held(p)
  BY DEF Init, Held, Ended, PurgeLabels

\* As long as nobody runs destroy --purge, no two processes carry out plans of
\* the same stack at the same time, wherever they run and whoever is killed.
THEOREM OneWriterPerStack ==
  ASSUME "purge" \notin Verbs PROVE Spec => []OneWriter
  <1>1. (\A p \in Procs : Held(p)) => OneWriter
    BY DEF Held, OneWriter, Applying
  <1>2. TypeOK /\ (\A p \in Procs : Held(p)) /\ [Next]_vars => (\A p \in Procs : Held(p))'
    BY HeldNext
  <1>3. QED
    BY <1>1, <1>2, HeldInit, TypeCorrect, PTL DEF Spec

-----------------------------------------------------------------------------
(* `bbctl plan` leaves AWS alone and the other commands do until an          *)
(* approval, in whatever working directories.                                *)

PlanLabels == {"prepare", "render", "preview", "show_preview", "network_applied",
               "next", "plan", "planning", "show"}

BucketLabels == {"head_bucket", "create_bucket", "versioning", "block_public"}

\* Where a process is tells what its user has said about the stack it is at, and
\* which locks it holds.
Agreed(p) ==
  /\ pc[p] = "ask_first" => work[p].stack = Network
  /\ pc[p] \in BucketLabels => AgreedTo(p, Network)
  /\ approved[p] # {} => AgreedTo(p, Network) /\ ~Ended(p)
  /\ \A s \in Stacks : At(p, s) =>
       /\ pc[p] \in {"planning", "ask"} => work[p].stack = s
       /\ pc[p] \in {"apply", "applying"} => AgreedTo(p, s)
  /\ ~Ended(p) /\ Verb(p) = "plan" => pc[p] \in PlanLabels
  /\ \A s \in Stacks : lock[s] = p =>
       pc[p] \in {"planning", "applying"} /\ At(p, s) /\ Verb(p) # "plan"

\* The plan file of a stack is a plan of that stack, whoever wrote it.
Filed ==
  \A d \in Dirs, s \in Stacks : planFile[d][s] # NoPlan => planFile[d][s].stack = s

\* A step of somebody else: it may take a lock from p, never give it one.
Passive(p) ==
  /\ pc'[p] = pc[p] /\ cmd'[p] = cmd[p] /\ todo'[p] = todo[p]
  /\ approved'[p] = approved[p] /\ granted'[p] = granted[p] /\ work'[p] = work[p]
  /\ \A s \in Stacks : lock'[s] = p => lock[s] = p

OthersPassive(p) == \A q \in Procs \ {p} : Passive(q)

\* What p's own step may do: nothing in AWS if it is a plan; no resource and no
\* bucket without an approval of the stack they belong to.
Allowed(p) ==
  /\ ~Ended(p) /\ Verb(p) = "plan" => UNCHANGED aws
  /\ \A s \in Stacks : cloud'[s] # cloud[s] => Applying(p) /\ At(p, s)
  /\ ~(bucket' \subseteq bucket) => pc'[p] # pc[p] /\ AgreedTo(p, Network)

LEMMA PassiveAgreed ==
  ASSUME NEW p \in Procs, Agreed(p), Passive(p)
  PROVE  Agreed(p)'
  <1>1. Ended(p)' = Ended(p) /\ Verb(p)' = Verb(p)
    BY DEF Passive, Ended, Verb
  <1>2. \A s \in Stacks : At(p, s)' = At(p, s)
    BY <1>1 DEF Passive, At, Destroying
  <1>3. QED
    BY <1>1, <1>2 DEF Passive, Agreed, AgreedTo

LEMMA AtOnly ==
  ASSUME TypeOK, NEW p \in Procs, NEW s \in Stacks, NEW t \in Stacks, At(p, s), At(p, t)
  PROVE  s = t
  BY ConstantsOK DEF At, Stacks

\* The step of p that ends its command.
LEMMA FinishAgreed ==
  ASSUME TypeOK, NEW p \in Procs, NEW r \in {"ok", "failed"}, Finish(p, r),
         \A s \in Stacks : lock'[s] # p
  PROVE  Agreed(p)'
  <1>1. /\ pc'[p] = r /\ approved'[p] = {}
    BY DEF Finish, Goto, TypeOK, LocalsOK
  <1>2. QED
    BY <1>1 DEF Agreed, Ended, PlanLabels, BucketLabels

\* A step of p that holds no lock and is busy with no plan.
LEMMA JumpAgreed ==
  ASSUME TypeOK, NEW p \in Procs, ~Ended(p), Agreed(p), NEW l, Goto(p, l),
         UNCHANGED <<cmd, approved, granted>>,
         \A s \in Stacks : lock'[s] # p,
         Verb(p) = "plan" => l \in PlanLabels,
         l \in BucketLabels => AgreedTo(p, Network),
         l \notin {"idle", "ok", "failed", "ask_first", "planning", "ask", "apply", "applying"}
  PROVE  Agreed(p)'
  <1>1. pc'[p] = l /\ ~Ended(p)' /\ Verb(p)' = Verb(p)
    BY DEF Goto, TypeOK, Ended, Verb
  <1>2. AgreedTo(p, Network)' = AgreedTo(p, Network)
    BY DEF AgreedTo
  <1>3. QED
    BY <1>1, <1>2 DEF Agreed

\* A step of p that stays at its stack and at its command, with what was agreed.
LEMMA StayAgreed ==
  ASSUME TypeOK, NEW p \in Procs, ~Ended(p), Agreed(p), NEW s \in Stacks, At(p, s),
         NEW l \in {"planning", "ask", "apply", "applying"}, Goto(p, l),
         UNCHANGED <<cmd, todo, approved, granted>>,
         \A t \in Stacks : lock'[t] = p => t = s /\ l \in {"planning", "applying"} /\ Verb(p) # "plan",
         Verb(p) = "plan" => l = "planning",
         l \in {"planning", "ask"} => work'[p].stack = s,
         l \in {"apply", "applying"} => AgreedTo(p, s)
  PROVE  Agreed(p)'
  <1>1. pc'[p] = l /\ ~Ended(p)' /\ Verb(p)' = Verb(p)
    BY DEF Goto, TypeOK, Ended, Verb
  <1>2. \A t \in Stacks : At(p, t)' = At(p, t) /\ AgreedTo(p, t)' = AgreedTo(p, t)
    BY DEF At, Destroying, Verb, AgreedTo
  <1>3. AgreedTo(p, Network)' = AgreedTo(p, Network)
    BY DEF AgreedTo
  <1>4. \A t \in Stacks : At(p, t) => t = s
    BY AtOnly
  <1>5. QED
    BY <1>1, <1>2, <1>3, <1>4 DEF Agreed, PlanLabels, BucketLabels

\* While it is not planning or applying a process holds no lock.
LEMMA NoLock ==
  ASSUME NEW p \in Procs, Agreed(p), pc[p] \notin {"planning", "applying"}
  PROVE  \A s \in Stacks : lock[s] # p
  BY DEF Agreed

\* The only lock a process holds is that of the stack it is at.
LEMMA OneLock ==
  ASSUME TypeOK, NEW p \in Procs, Agreed(p), NEW s \in Stacks, At(p, s)
  PROVE  \A t \in Stacks : lock[t] = p => t = s
  BY AtOnly DEF Agreed

-----------------------------------------------------------------------------
LEMMA AgreedStep ==
  ASSUME TypeOK, Filed, NEW p \in Procs, Agreed(p), Start(p) \/ Step(p) \/ Failure(p)
  PROVE  Agreed(p)' /\ OthersPassive(p) /\ Allowed(p)
  <1>1. ASSUME Start(p) PROVE Agreed(p)' /\ OthersPassive(p) /\ Allowed(p)
    <2>1. Agreed(p)'
      <3>1. \A s \in Stacks : lock[s] # p
        BY <1>1, NoLock DEF Start, Ended
      <3>2. PICK v \in Verbs, sel \in (SUBSET StacksOf(config)) \ {{}} :
              /\ cmd'  = [cmd EXCEPT ![p] = [verb |-> v, cfg |-> config, sel |-> sel]]
              /\ Goto(p, IF v = "apply" THEN "secret" ELSE "prepare")
        BY <1>1 DEF Start
      <3>3. /\ cmd'[p].verb = v
            /\ pc'[p] = IF v = "apply" THEN "secret" ELSE "prepare"
        BY <3>2 DEF TypeOK, LocalsOK, Goto
      <3>4. approved'[p] = {}
        BY <1>1 DEF Start, Agreed
      <3>5. UNCHANGED lock
        BY <1>1 DEF Start, aws
      <3>6. QED
        BY <3>1, <3>3, <3>4, <3>5 DEF Agreed, Verb, Ended, PlanLabels, BucketLabels
    <2>2. OthersPassive(p)
      BY <1>1, NullsOK DEF Start, OthersPassive, Passive, Goto, TypeOK, AwsOK, LocalsOK, aws
    <2>3. Allowed(p)
      BY <1>1 DEF Start, Allowed, Agreed, Ended, PlanLabels, aws
    <2>4. QED
      BY <2>1, <2>2, <2>3
  <1>2. ASSUME Fail(p) PROVE Agreed(p)' /\ OthersPassive(p) /\ Allowed(p)
    <2>1. Agreed(p)'
      <3>1. \A s \in Stacks : lock'[s] # p
        BY <1>2, NullsOK DEF Fail
      <3>2. QED
        BY <1>2, <3>1, FinishAgreed DEF Fail
    <2>2. OthersPassive(p)
      BY <1>2, NullsOK DEF Fail, OthersPassive, Passive, Goto, TypeOK, AwsOK, LocalsOK, Finish
    <2>3. Allowed(p)
      <3>1. Verb(p) = "plan" => lock' = lock
        BY <1>2 DEF Fail, Agreed, TypeOK, AwsOK
      <3>2. QED
        BY <1>2, <3>1 DEF Fail, Allowed, aws
    <2>4. QED
      BY <2>1, <2>2, <2>3
  <1>3. ASSUME CheckSecret(p) PROVE Agreed(p)' /\ OthersPassive(p) /\ Allowed(p)
    <2>1. Agreed(p)'
      <3>1. \A s \in Stacks : lock[s] # p
        BY <1>3, NoLock DEF CheckSecret
      <3>2. QED
        BY <1>3, <3>1, JumpAgreed DEF BucketLabels, CheckSecret, Ended, PlanLabels, Agreed, locals, aws
    <2>2. OthersPassive(p)
      BY <1>3, NullsOK DEF CheckSecret, OthersPassive, Passive, Goto, TypeOK, AwsOK, LocalsOK, locals, aws
    <2>3. Allowed(p)
      BY <1>3 DEF CheckSecret, Allowed, Agreed, Ended, PlanLabels, aws
    <2>4. QED
      BY <2>1, <2>2, <2>3
  <1>4. ASSUME CreateSecret(p) PROVE Agreed(p)' /\ OthersPassive(p) /\ Allowed(p)
    <2>1. Agreed(p)'
      <3>1. \A s \in Stacks : lock[s] # p
        BY <1>4, NoLock DEF CreateSecret
      <3>2. QED
        BY <1>4, <3>1, JumpAgreed DEF BucketLabels, CreateSecret, Ended, PlanLabels, Agreed, locals
    <2>2. OthersPassive(p)
      BY <1>4, NullsOK DEF CreateSecret, OthersPassive, Passive, Goto, TypeOK, AwsOK, LocalsOK, locals
    <2>3. Allowed(p)
      BY <1>4 DEF CreateSecret, Allowed, Agreed, Ended, PlanLabels
    <2>4. QED
      BY <2>1, <2>2, <2>3
  <1>5. ASSUME Prepare(p) PROVE Agreed(p)' /\ OthersPassive(p) /\ Allowed(p)
    <2>1. Agreed(p)'
      <3>1. \A s \in Stacks : lock[s] # p
        BY <1>5, NoLock DEF Prepare
      <3>2. QED
        BY <1>5, <3>1, JumpAgreed DEF BucketLabels, Prepare, Ended, PlanLabels, Agreed, aws
    <2>2. OthersPassive(p)
      BY <1>5, NullsOK DEF Prepare, OthersPassive, Passive, Goto, TypeOK, AwsOK, LocalsOK, aws
    <2>3. Allowed(p)
      BY <1>5 DEF Prepare, Allowed, Agreed, Ended, PlanLabels, aws
    <2>4. QED
      BY <2>1, <2>2, <2>3
  <1>6. ASSUME Render(p) PROVE Agreed(p)' /\ OthersPassive(p) /\ Allowed(p)
    <2>1. Agreed(p)'
      <3>1. \A s \in Stacks : lock[s] # p
        BY <1>6, NoLock DEF Render
      <3>2. UNCHANGED lock
        BY <1>6 DEF Render, aws
      <3>3. \/ \E l \in {"network_applied", "next", "ask_purge", "preview"} :
                 /\ Goto(p, l) /\ UNCHANGED locals
                 /\ l = "ask_purge" => Verb(p) = "purge"
            \/ \E r \in {"ok", "failed"} : Finish(p, r)
        BY <1>6 DEF Render
      <3>4. CASE \E l \in {"network_applied", "next", "ask_purge", "preview"} :
                 /\ Goto(p, l) /\ UNCHANGED locals
                 /\ l = "ask_purge" => Verb(p) = "purge"
        BY <1>6, <3>1, <3>2, <3>4, JumpAgreed DEF BucketLabels, Render, Ended, PlanLabels, locals
      <3>5. CASE \E r \in {"ok", "failed"} : Finish(p, r)
        BY <3>1, <3>2, <3>5, FinishAgreed
      <3>6. QED
        BY <3>3, <3>4, <3>5
    <2>2. OthersPassive(p)
      BY <1>6, NullsOK DEF Render, OthersPassive, Passive, Goto, TypeOK, AwsOK, LocalsOK, locals, Finish, aws
    <2>3. Allowed(p)
      BY <1>6 DEF Render, Allowed, Agreed, Ended, PlanLabels, aws
    <2>4. QED
      BY <2>1, <2>2, <2>3
  <1>7. ASSUME WritePreview(p) PROVE Agreed(p)' /\ OthersPassive(p) /\ Allowed(p)
    <2>1. Agreed(p)'
      <3>1. \A s \in Stacks : lock[s] # p
        BY <1>7, NoLock DEF WritePreview
      <3>2. QED
        BY <1>7, <3>1, JumpAgreed DEF BucketLabels, WritePreview, Ended, PlanLabels, Agreed, locals, aws
    <2>2. OthersPassive(p)
      BY <1>7, NullsOK DEF WritePreview, OthersPassive, Passive, Goto, TypeOK, AwsOK, LocalsOK, locals, aws
    <2>3. Allowed(p)
      BY <1>7 DEF WritePreview, Allowed, Agreed, Ended, PlanLabels, aws
    <2>4. QED
      BY <2>1, <2>2, <2>3
  <1>8. ASSUME ShowPreview(p) PROVE Agreed(p)' /\ OthersPassive(p) /\ Allowed(p)
    <2>1. Agreed(p)'
      <3>1. \A s \in Stacks : lock[s] # p
        BY <1>8, NoLock DEF ShowPreview
      <3>2. UNCHANGED lock
        BY <1>8 DEF ShowPreview, aws
      <3>3. QED
        <4>1. CASE Verb(p) = "plan"
          BY <1>8, <3>1, <3>2, <4>1, FinishAgreed DEF ShowPreview
        <4>2. CASE Verb(p) # "plan"
          <5>1. /\ pc'[p] = "ask_first" /\ work'[p].stack = Network
                /\ UNCHANGED <<cmd, approved, granted>>
            BY <1>8, <4>2 DEF ShowPreview, Goto, TypeOK, LocalsOK
          <5>2. Verb(p)' # "plan" /\ ~Ended(p)' /\ ~Ended(p) /\ AgreedTo(p, Network)' = AgreedTo(p, Network)
            BY <1>8, <4>2, <5>1 DEF ShowPreview, Ended, Verb, AgreedTo
          <5>3. QED
            BY <3>1, <3>2, <5>1, <5>2 DEF Agreed, BucketLabels
        <4>3. QED
          BY <4>1, <4>2
    <2>2. OthersPassive(p)
      BY <1>8, NullsOK DEF ShowPreview, OthersPassive, Passive, Goto, TypeOK, AwsOK, LocalsOK, Finish, aws
    <2>3. Allowed(p)
      BY <1>8 DEF ShowPreview, Allowed, Agreed, Ended, PlanLabels, aws
    <2>4. QED
      BY <2>1, <2>2, <2>3
  <1>9. ASSUME ApproveFirst(p) PROVE Agreed(p)' /\ OthersPassive(p) /\ Allowed(p)
    <2>1. Agreed(p)'
      <3>1. \A s \in Stacks : lock[s] # p
        BY <1>9, NoLock DEF ApproveFirst
      <3>2. /\ pc[p] = "ask_first" /\ pc'[p] = "head_bucket" /\ Effect(work[p]) \in granted'[p]
            /\ UNCHANGED <<cmd, lock>>
        BY <1>9 DEF ApproveFirst, Grant, Goto, TypeOK, LocalsOK, aws
      <3>5. AgreedTo(p, Network)'
        BY <3>2 DEF Agreed, AgreedTo, Effect
      <3>3. Verb(p)' # "plan" /\ ~Ended(p)'
        BY <3>2 DEF Agreed, Ended, PlanLabels, Verb
      <3>4. QED
        BY <3>1, <3>2, <3>3, <3>5 DEF Agreed
    <2>2. OthersPassive(p)
      BY <1>9, NullsOK DEF ApproveFirst, OthersPassive, Passive, Goto, TypeOK, AwsOK, LocalsOK, Grant, aws
    <2>3. Allowed(p)
      BY <1>9 DEF ApproveFirst, Allowed, Agreed, Ended, PlanLabels, aws
    <2>4. QED
      BY <2>1, <2>2, <2>3
  <1>10. ASSUME HeadBucket(p) PROVE Agreed(p)' /\ OthersPassive(p) /\ Allowed(p)
    <2>1. Agreed(p)'
      <3>1. \A s \in Stacks : lock[s] # p
        BY <1>10, NoLock DEF HeadBucket
      <3>2. QED
        BY <1>10, <3>1, JumpAgreed DEF BucketLabels, HeadBucket, Ended, PlanLabels, Agreed, aws
    <2>2. OthersPassive(p)
      BY <1>10, NullsOK DEF HeadBucket, OthersPassive, Passive, Goto, TypeOK, AwsOK, LocalsOK, aws
    <2>3. Allowed(p)
      BY <1>10 DEF HeadBucket, Allowed, Agreed, Ended, PlanLabels, aws
    <2>4. QED
      BY <2>1, <2>2, <2>3
  <1>11. ASSUME CreateBucket(p) PROVE Agreed(p)' /\ OthersPassive(p) /\ Allowed(p)
    <2>1. Agreed(p)'
      <3>1. \A s \in Stacks : lock[s] # p
        BY <1>11, NoLock DEF CreateBucket
      <3>2. QED
        BY <1>11, <3>1, JumpAgreed DEF BucketLabels, CreateBucket, Ended, PlanLabels, Agreed, locals
    <2>2. OthersPassive(p)
      BY <1>11, NullsOK DEF CreateBucket, OthersPassive, Passive, Goto, TypeOK, AwsOK, LocalsOK, locals
    <2>3. Allowed(p)
      BY <1>11 DEF CreateBucket, Allowed, Agreed, BucketLabels, Ended, PlanLabels, Goto, TypeOK
    <2>4. QED
      BY <2>1, <2>2, <2>3
  <1>12. ASSUME PutVersioning(p) PROVE Agreed(p)' /\ OthersPassive(p) /\ Allowed(p)
    <2>1. Agreed(p)'
      <3>1. \A s \in Stacks : lock[s] # p
        BY <1>12, NoLock DEF PutVersioning
      <3>2. QED
        BY <1>12, <3>1, JumpAgreed DEF BucketLabels, PutVersioning, Ended, PlanLabels, Agreed, locals
    <2>2. OthersPassive(p)
      BY <1>12, NullsOK DEF PutVersioning, OthersPassive, Passive, Goto, TypeOK, AwsOK, LocalsOK, locals
    <2>3. Allowed(p)
      BY <1>12 DEF PutVersioning, Allowed, Agreed, BucketLabels, Ended, PlanLabels, Goto, TypeOK
    <2>4. QED
      BY <2>1, <2>2, <2>3
  <1>13. ASSUME BlockPublic(p) PROVE Agreed(p)' /\ OthersPassive(p) /\ Allowed(p)
    <2>1. Agreed(p)'
      <3>1. \A s \in Stacks : lock[s] # p
        BY <1>13, NoLock DEF BlockPublic
      <3>2. QED
        BY <1>13, <3>1, JumpAgreed DEF BucketLabels, BlockPublic, Ended, PlanLabels, Agreed
    <2>2. OthersPassive(p)
      BY <1>13, NullsOK DEF BlockPublic, OthersPassive, Passive, Goto, TypeOK, AwsOK, LocalsOK
    <2>3. Allowed(p)
      BY <1>13 DEF BlockPublic, Allowed, Agreed, BucketLabels, Ended, PlanLabels, Goto, TypeOK
    <2>4. QED
      BY <2>1, <2>2, <2>3
  <1>14. ASSUME NetworkApplied(p) PROVE Agreed(p)' /\ OthersPassive(p) /\ Allowed(p)
    <2>1. Agreed(p)'
      <3>1. \A s \in Stacks : lock[s] # p
        BY <1>14, NoLock DEF NetworkApplied
      <3>2. QED
        BY <1>14, <3>1, JumpAgreed DEF BucketLabels, NetworkApplied, Ended, PlanLabels, Agreed, aws
    <2>2. OthersPassive(p)
      BY <1>14, NullsOK DEF NetworkApplied, OthersPassive, Passive, Goto, TypeOK, AwsOK, LocalsOK, aws
    <2>3. Allowed(p)
      BY <1>14 DEF NetworkApplied, Allowed, Agreed, Ended, PlanLabels, aws
    <2>4. QED
      BY <2>1, <2>2, <2>3
  <1>15. ASSUME AllDone(p) PROVE Agreed(p)' /\ OthersPassive(p) /\ Allowed(p)
    <2>1. Agreed(p)'
      <3>1. \A s \in Stacks : lock[s] # p
        BY <1>15, NoLock DEF AllDone
      <3>2. UNCHANGED lock
        BY <1>15 DEF AllDone, aws
      <3>3. QED
        BY <1>15, <3>1, <3>2, JumpAgreed, FinishAgreed DEF BucketLabels, AllDone, Ended, locals
    <2>2. OthersPassive(p)
      BY <1>15, NullsOK DEF AllDone, OthersPassive, Passive, Goto, TypeOK, AwsOK, LocalsOK, Finish, locals, aws
    <2>3. Allowed(p)
      BY <1>15 DEF AllDone, Allowed, Agreed, Ended, PlanLabels, aws
    <2>4. QED
      BY <2>1, <2>2, <2>3
  <1>16. ASSUME ApprovePlan(p) PROVE Agreed(p)' /\ OthersPassive(p) /\ Allowed(p)
    <2>1. Agreed(p)'
      <3>1. \A s \in Stacks : lock[s] # p
        BY <1>16, NoLock DEF ApprovePlan
      <3>2. /\ pc[p] = "ask" /\ pc'[p] = "apply"
            /\ granted'[p] = granted[p] \cup {Effect(work[p])}
            /\ UNCHANGED <<cmd, todo, approved, lock>>
        BY <1>16 DEF ApprovePlan, Grant, Goto, TypeOK, LocalsOK, aws
      <3>3. Verb(p)' # "plan" /\ ~Ended(p)'
        BY <3>2 DEF Agreed, Ended, PlanLabels, Verb
      <3>4. \A s \in Stacks : At(p, s)' = At(p, s)
        BY <3>2 DEF At, Destroying, Verb
      <3>5. ASSUME NEW s \in Stacks, At(p, s) PROVE AgreedTo(p, s)'
        <4>1. work[p].stack = s
          BY <3>2, <3>5 DEF Agreed
        <4>2. Effect(work[p])[1] = s
          BY <4>1 DEF Effect
        <4>3. Effect(work[p]) \in granted'[p]
          BY <3>2
        <4>4. QED
          BY <4>2, <4>3, Zenon DEF AgreedTo
      <3>6. approved[p] # {} => AgreedTo(p, Network)'
        BY <3>2 DEF Agreed, AgreedTo
      <3>7. QED
        BY <3>1, <3>2, <3>3, <3>4, <3>5, <3>6 DEF Agreed, BucketLabels
    <2>2. OthersPassive(p)
      BY <1>16, NullsOK DEF ApprovePlan, OthersPassive, Passive, Goto, TypeOK, AwsOK, LocalsOK, Grant, aws
    <2>3. Allowed(p)
      BY <1>16 DEF ApprovePlan, Allowed, Agreed, Ended, PlanLabels, aws
    <2>4. QED
      BY <2>1, <2>2, <2>3
  <1>17. ASSUME ApprovePurge(p) PROVE Agreed(p)' /\ OthersPassive(p) /\ Allowed(p)
    <2>1. Agreed(p)'
      <3>1. \A s \in Stacks : lock[s] # p
        BY <1>17, NoLock DEF ApprovePurge
      <3>2. QED
        BY <1>17, <3>1, JumpAgreed, FinishAgreed DEF BucketLabels, ApprovePurge, Ended, locals, Agreed, PlanLabels
    <2>2. OthersPassive(p)
      BY <1>17, NullsOK DEF ApprovePurge, OthersPassive, Passive, Goto, TypeOK, AwsOK, LocalsOK, Finish, locals
    <2>3. Allowed(p)
      BY <1>17 DEF ApprovePurge, Allowed, Agreed, Ended, PlanLabels
    <2>4. QED
      BY <2>1, <2>2, <2>3
  <1>18. ASSUME PurgeObjects(p) PROVE Agreed(p)' /\ OthersPassive(p) /\ Allowed(p)
    <2>1. Agreed(p)'
      <3>1. \A s \in Stacks : lock[s] # p
        BY <1>18, NoLock DEF PurgeObjects
      <3>2. \A s \in Stacks : lock'[s] # p
        BY <1>18, NullsOK DEF PurgeObjects, DeleteObjects
      <3>3. QED
        BY <1>18, <3>2, JumpAgreed, FinishAgreed DEF BucketLabels, PurgeObjects, Ended, locals, Agreed, PlanLabels
    <2>2. OthersPassive(p)
      BY <1>18, NullsOK DEF PurgeObjects, OthersPassive, Passive, Goto, TypeOK, AwsOK, LocalsOK, Finish, DeleteObjects, locals
    <2>3. Allowed(p)
      BY <1>18 DEF PurgeObjects, Allowed, Agreed, Ended, PlanLabels
    <2>4. QED
      BY <2>1, <2>2, <2>3
  <1>19. ASSUME PurgeSomeObjects(p) PROVE Agreed(p)' /\ OthersPassive(p) /\ Allowed(p)
    <2>1. Agreed(p)'
      <3>1. \A s \in Stacks : lock[s] # p
        BY <1>19, NoLock DEF PurgeSomeObjects
      <3>2. \A s \in Stacks : lock'[s] # p
        BY <1>19, <3>1, NullsOK DEF PurgeSomeObjects, DeleteObjects
      <3>3. QED
        BY <1>19, <3>2, FinishAgreed DEF PurgeSomeObjects
    <2>2. OthersPassive(p)
      BY <1>19, NullsOK DEF PurgeSomeObjects, OthersPassive, Passive, Goto, TypeOK, AwsOK, LocalsOK, Finish, DeleteObjects
    <2>3. Allowed(p)
      BY <1>19 DEF PurgeSomeObjects, Allowed, Agreed, Ended, PlanLabels
    <2>4. QED
      BY <2>1, <2>2, <2>3
  <1>20. ASSUME PurgeBucket(p) PROVE Agreed(p)' /\ OthersPassive(p) /\ Allowed(p)
    <2>1. Agreed(p)'
      <3>1. \A s \in Stacks : lock[s] # p
        BY <1>20, NoLock DEF PurgeBucket
      <3>2. QED
        BY <1>20, <3>1, FinishAgreed DEF PurgeBucket
    <2>2. OthersPassive(p)
      BY <1>20, NullsOK DEF PurgeBucket, OthersPassive, Passive, Goto, TypeOK, AwsOK, LocalsOK, Finish
    <2>3. Allowed(p)
      BY <1>20 DEF PurgeBucket, Allowed, Agreed, Ended, PlanLabels
    <2>4. QED
      BY <2>1, <2>2, <2>3
  <1>21. ASSUME Kill(p) PROVE Agreed(p)' /\ OthersPassive(p) /\ Allowed(p)
    <2>1. Agreed(p)'
      <3>1. \A s \in Stacks : lock'[s] # p
        BY <1>21, NullsOK DEF Kill
      <3>2. QED
        BY <1>21, <3>1, FinishAgreed DEF Kill
    <2>2. OthersPassive(p)
      BY <1>21, NullsOK DEF Kill, OthersPassive, Passive, Goto, TypeOK, AwsOK, LocalsOK, Finish
    <2>3. Allowed(p)
      <3>1. Verb(p) = "plan" => UNCHANGED lock
        BY <1>21 DEF Kill, Agreed, TypeOK, AwsOK
      <3>2. Verb(p) = "plan" => UNCHANGED <<state, serial>>
        BY <1>21 DEF Kill, Agreed, PlanLabels
      <3>3. QED
        BY <1>21, <3>1, <3>2 DEF Kill, Allowed, aws
    <2>4. QED
      BY <2>1, <2>2, <2>3
  <1>22. ASSUME NEW s \in Stacks, Next1(p, s) PROVE Agreed(p)' /\ OthersPassive(p) /\ Allowed(p)
    <2>1. Agreed(p)'
      <3>1. \A t \in Stacks : lock[t] # p
        BY <1>22, NoLock DEF Next1
      <3>2. UNCHANGED lock
        BY <1>22 DEF Next1, aws
      <3>3. QED
        BY <1>22, <3>1, <3>2, JumpAgreed DEF BucketLabels, Next1, StackDone, Ended, PlanLabels, locals
    <2>2. OthersPassive(p)
      BY <1>22, NullsOK DEF Next1, OthersPassive, Passive, Goto, TypeOK, AwsOK, LocalsOK, StackDone, locals, aws
    <2>3. Allowed(p)
      BY <1>22 DEF Next1, Allowed, Agreed, Ended, PlanLabels, aws
    <2>4. QED
      BY <2>1, <2>2, <2>3
  <1>23. ASSUME NEW s \in Stacks, StartPlan(p, s) PROVE Agreed(p)' /\ OthersPassive(p) /\ Allowed(p)
    <2>1. Agreed(p)'
      <3>1. \A t \in Stacks : lock[t] # p
        BY <1>23, NoLock DEF StartPlan
      <3>2. /\ ~Ended(p) /\ At(p, s) /\ Goto(p, "planning")
            /\ UNCHANGED <<cmd, todo, approved, granted>>
            /\ work'[p].stack = s
            /\ \A t \in Stacks : lock'[t] = p => t = s /\ Verb(p) # "plan"
        BY <1>23, <3>1 DEF StartPlan, TakesLock, Ended, TypeOK, AwsOK, LocalsOK
      <3>3. QED
        BY <3>2, StayAgreed
    <2>2. OthersPassive(p)
      BY <1>23, NullsOK DEF StartPlan, OthersPassive, Passive, Goto, TypeOK, AwsOK, LocalsOK, TakesLock
    <2>3. Allowed(p)
      BY <1>23 DEF StartPlan, Allowed, Agreed, Ended, PlanLabels, TakesLock, aws
    <2>4. QED
      BY <2>1, <2>2, <2>3
  <1>24. ASSUME NEW s \in Stacks, WritePlan(p, s) PROVE Agreed(p)' /\ OthersPassive(p) /\ Allowed(p)
    <2>1. Agreed(p)'
      <3>1. \A t \in Stacks : lock'[t] # p
        BY <1>24, OneLock, NullsOK DEF WritePlan, TypeOK, AwsOK
      <3>2. QED
        BY <1>24, <3>1, JumpAgreed DEF BucketLabels, WritePlan, Ended, PlanLabels, locals
    <2>2. OthersPassive(p)
      BY <1>24, NullsOK DEF WritePlan, OthersPassive, Passive, Goto, TypeOK, AwsOK, LocalsOK, locals
    <2>3. Allowed(p)
      BY <1>24 DEF WritePlan, Allowed, Agreed, Ended, PlanLabels, aws
    <2>4. QED
      BY <2>1, <2>2, <2>3
  <1>25. ASSUME NEW s \in Stacks, ShowPlan(p, s) PROVE Agreed(p)' /\ OthersPassive(p) /\ Allowed(p)
    <2>1. Agreed(p)'
      <3>1. \A t \in Stacks : lock'[t] # p
        BY <1>25, NoLock DEF ShowPlan, aws
      <3>2. pc[p] = "show" /\ ~Ended(p) /\ At(p, s)
        BY <1>25 DEF ShowPlan, Ended
      <3>3. CASE StackDone(p, s)
        BY <3>1, <3>2, <3>3, JumpAgreed DEF StackDone, BucketLabels, PlanLabels
      <3>4. CASE ~StackDone(p, s)
        <4> DEFINE plan == planFile[Dir(p)][s]
        <4>1. /\ Verb(p) # "plan" /\ plan # NoPlan
              /\ work' = [work EXCEPT ![p] = plan]
              /\ Goto(p, IF PreApproved(p, s, plan) THEN "apply" ELSE "ask")
              /\ UNCHANGED <<cmd, todo, approved, granted>>
          BY <1>25, <3>4 DEF ShowPlan
        <4>2. plan.stack = s
          BY <4>1, ConstantsOK DEF Filed, Dir
        <4>3. work'[p].stack = s
          BY <4>1, <4>2 DEF TypeOK, LocalsOK
        <4>4. PreApproved(p, s, plan) => AgreedTo(p, s)
          BY DEF PreApproved, Agreed
        <4> HIDE DEF plan
        <4>5. CASE PreApproved(p, s, plan)
          BY <3>1, <3>2, <4>1, <4>4, <4>5, StayAgreed
        <4>6. CASE ~PreApproved(p, s, plan)
          BY <3>1, <3>2, <4>1, <4>3, <4>6, StayAgreed
        <4>7. QED
          BY <4>5, <4>6
      <3>5. QED
        BY <3>3, <3>4
    <2>2. OthersPassive(p)
      BY <1>25, NullsOK DEF ShowPlan, OthersPassive, Passive, Goto, TypeOK, AwsOK, LocalsOK, StackDone, aws
    <2>3. Allowed(p)
      BY <1>25 DEF ShowPlan, Allowed, Agreed, Ended, PlanLabels, aws
    <2>4. QED
      BY <2>1, <2>2, <2>3
  <1>26. ASSUME NEW s \in Stacks, StartApply(p, s) PROVE Agreed(p)' /\ OthersPassive(p) /\ Allowed(p)
    <2>1. Agreed(p)'
      <3>1. \A t \in Stacks : lock[t] # p
        BY <1>26, NoLock DEF StartApply
      <3>2. /\ pc[p] = "apply" /\ ~Ended(p) /\ At(p, s) /\ Goto(p, "applying")
            /\ UNCHANGED <<cmd, todo, approved, granted>>
            /\ \A t \in Stacks : lock'[t] = p => t = s
        BY <1>26, <3>1 DEF StartApply, Ended, TypeOK, AwsOK
      <3>3. Verb(p) # "plan" /\ AgreedTo(p, s)
        BY <3>2 DEF Agreed, PlanLabels
      <3>4. QED
        BY <3>2, <3>3, StayAgreed
    <2>2. OthersPassive(p)
      BY <1>26, NullsOK DEF StartApply, OthersPassive, Passive, Goto, TypeOK, AwsOK, LocalsOK
    <2>3. Allowed(p)
      BY <1>26 DEF StartApply, Allowed, Agreed, Ended, PlanLabels
    <2>4. QED
      BY <2>1, <2>2, <2>3
  <1>27. ASSUME NEW s \in Stacks, ApplyRefused(p, s) PROVE Agreed(p)' /\ OthersPassive(p) /\ Allowed(p)
    <2>1. Agreed(p)'
      <3>1. \A t \in Stacks : lock'[t] # p
        BY <1>27, NoLock DEF ApplyRefused, aws
      <3>2. QED
        BY <1>27, <3>1, FinishAgreed DEF ApplyRefused
    <2>2. OthersPassive(p)
      BY <1>27, NullsOK DEF ApplyRefused, OthersPassive, Passive, Goto, TypeOK, AwsOK, LocalsOK, Finish, aws
    <2>3. Allowed(p)
      BY <1>27 DEF ApplyRefused, Allowed, Agreed, Ended, PlanLabels, aws
    <2>4. QED
      BY <2>1, <2>2, <2>3
  <1>28. ASSUME NEW s \in Stacks, ApplySome(p, s) PROVE Agreed(p)' /\ OthersPassive(p) /\ Allowed(p)
    <2>1. Agreed(p)'
      <3>1. Passive(p)
        BY <1>28 DEF ApplySome, Passive, locals
      <3>2. QED
        BY <3>1, PassiveAgreed
    <2>2. OthersPassive(p)
      BY <1>28, NullsOK DEF ApplySome, OthersPassive, Passive, Goto, TypeOK, AwsOK, LocalsOK, locals
    <2>3. Allowed(p)
      BY <1>28 DEF ApplySome, Allowed, Agreed, Applying, Ended, PlanLabels, locals, TypeOK, AwsOK
    <2>4. QED
      BY <2>1, <2>2, <2>3
  <1>29. ASSUME NEW s \in Stacks, ApplyDone(p, s) PROVE Agreed(p)' /\ OthersPassive(p) /\ Allowed(p)
    <2>1. Agreed(p)'
      <3>1. \A t \in Stacks : lock'[t] # p
        BY <1>29, OneLock, NullsOK DEF ApplyDone, SaveState, TypeOK, AwsOK
      <3>2. QED
        BY <1>29, <3>1, JumpAgreed DEF BucketLabels, ApplyDone, StackDone, Ended, PlanLabels
    <2>2. OthersPassive(p)
      BY <1>29, NullsOK DEF ApplyDone, OthersPassive, Passive, Goto, TypeOK, AwsOK, LocalsOK, StackDone, SaveState
    <2>3. Allowed(p)
      BY <1>29 DEF ApplyDone, Allowed, Agreed, Applying, Ended, PlanLabels, StackDone, TypeOK, AwsOK
    <2>4. QED
      BY <2>1, <2>2, <2>3
  <1>30. ASSUME NEW s \in Stacks, ApplyFailed(p, s) PROVE Agreed(p)' /\ OthersPassive(p) /\ Allowed(p)
    <2>1. Agreed(p)'
      <3>1. \A t \in Stacks : lock'[t] # p
        BY <1>30, OneLock, NullsOK DEF ApplyFailed, SaveState, TypeOK, AwsOK
      <3>2. QED
        BY <1>30, <3>1, FinishAgreed DEF ApplyFailed
    <2>2. OthersPassive(p)
      BY <1>30, NullsOK DEF ApplyFailed, OthersPassive, Passive, Goto, TypeOK, AwsOK, LocalsOK, Finish, SaveState
    <2>3. Allowed(p)
      BY <1>30 DEF ApplyFailed, Allowed, Agreed, Ended, PlanLabels
    <2>4. QED
      BY <2>1, <2>2, <2>3
  <1>31. QED
    BY <1>1, <1>2, <1>3, <1>4, <1>5, <1>6, <1>7, <1>8, <1>9, <1>10, <1>11, <1>12, <1>13, <1>14, <1>15, <1>16, <1>17, <1>18, <1>19, <1>20, <1>21, <1>22, <1>23, <1>24, <1>25, <1>26, <1>27, <1>28, <1>29, <1>30
       DEF Step, Failure, StackStep

LEMMA FiledNext ==
  ASSUME TypeOK, Filed, \A p \in Procs : Agreed(p), [Next]_vars
  PROVE  Filed'
  <1>1. ASSUME NEW p \in Procs, NEW s \in Stacks, WritePlan(p, s) PROVE Filed'
    <2>1. work[p].stack = s
      BY <1>1 DEF WritePlan, Agreed
    <2>2. planFile' = [planFile EXCEPT ![Dir(p)][s] = work[p]]
      BY <1>1 DEF WritePlan
    <2>3. QED
      BY <2>1, <2>2, ConstantsOK DEF Filed, TypeOK, FilesOK, Dir
  <1>2. ASSUME NEW p \in Procs, NEW s \in Stacks, RemovePlanFile(p, s) PROVE Filed'
    BY <1>2, ConstantsOK DEF RemovePlanFile, Filed, TypeOK, FilesOK, Dir
  <1>3. CASE UNCHANGED planFile
    BY <1>3 DEF Filed
  <1>4. ASSUME NEW p \in Procs, NEW s \in Stacks, StackStep(p, s) PROVE Filed'
    BY <1>1, <1>2, <1>3, <1>4 DEF StackStep, Next1, StartPlan, ShowPlan, StartApply, ApplySome, ApplyDone, files
  <1>5. ASSUME NEW p \in Procs, Failure(p) PROVE Filed'
    BY <1>2, <1>3, <1>5 DEF Failure, Fail, Kill, PurgeSomeObjects, ApplyRefused, ApplyFailed, files
  <1>6. ASSUME NEW p \in Procs,
               \/ Start(p) \/ CheckSecret(p) \/ CreateSecret(p) \/ Prepare(p) \/ Render(p)
               \/ WritePreview(p) \/ ShowPreview(p) \/ ApproveFirst(p)
               \/ HeadBucket(p) \/ CreateBucket(p) \/ PutVersioning(p) \/ BlockPublic(p)
               \/ NetworkApplied(p) \/ AllDone(p) \/ ApprovePlan(p)
               \/ ApprovePurge(p) \/ PurgeObjects(p) \/ PurgeBucket(p)
        PROVE  Filed'
    BY <1>3, <1>6 DEF Start, CheckSecret, CreateSecret, Prepare, Render, WritePreview, ShowPreview,
       ApproveFirst, HeadBucket, CreateBucket, PutVersioning, BlockPublic, NetworkApplied, AllDone,
       ApprovePlan, ApprovePurge, PurgeObjects, PurgeBucket, files
  <1>7. CASE UNCHANGED vars \/ EditConfig
    BY <1>3, <1>7 DEF EditConfig, vars, files
  <1>8. QED
    BY <1>4, <1>5, <1>6, <1>7 DEF Next, Step

LEMMA AgreedNext ==
  ASSUME TypeOK, Filed, \A p \in Procs : Agreed(p), [Next]_vars
  PROVE  /\ (\A p \in Procs : Agreed(p))'
         /\ \/ UNCHANGED <<aws, pc>>
            \/ \E p \in Procs : OthersPassive(p) /\ Allowed(p)
  <1>1. CASE UNCHANGED vars \/ EditConfig
    <2>1. \A p \in Procs : Passive(p)
      BY <1>1 DEF EditConfig, Passive, vars, locals, aws
    <2>2. UNCHANGED <<aws, pc>>
      BY <1>1 DEF EditConfig, vars
    <2>3. QED
      BY <2>1, <2>2, PassiveAgreed
  <1>2. ASSUME NEW p \in Procs, Start(p) \/ Step(p) \/ Failure(p)
        PROVE  (\A q \in Procs : Agreed(q))' /\ OthersPassive(p) /\ Allowed(p)
    <2>1. Agreed(p)' /\ OthersPassive(p) /\ Allowed(p)
      BY <1>2, AgreedStep
    <2>2. QED
      BY <2>1, PassiveAgreed DEF OthersPassive
  <1>3. QED
    BY <1>1, <1>2 DEF Next

LEMMA AgreedInit == Init => Filed /\ \A p \in Procs : Agreed(p)
  BY NullsOK DEF Init, Filed, Agreed, BucketLabels, Ended

LEMMA AgreedAlways == Spec => [](TypeOK /\ Filed /\ \A p \in Procs : Agreed(p))
  <1>1. TypeOK /\ Filed /\ (\A p \in Procs : Agreed(p)) /\ [Next]_vars
          => Filed' /\ (\A p \in Procs : Agreed(p))'
    BY AgreedNext, FiledNext
  <1>2. QED
    BY <1>1, AgreedInit, TypeInit, TypeNext, PTL DEF Spec

\* Whoever changes a resource has his own user's yes about that very stack, and
\* whoever makes the state bucket grow has it about the network: with any number
\* of processes, in shared directories, with kills and purges.
THEOREM ApprovalComesFirst == Spec => NothingBeforeApproval
  <1>1. ASSUME TypeOK, Filed, \A p \in Procs : Agreed(p), [Next]_vars,
               NEW s \in Stacks, cloud'[s] # cloud[s]
        PROVE  /\ \E p \in Procs : Applying(p) /\ At(p, s)
               /\ \A p \in Procs : Applying(p) /\ At(p, s) => AgreedTo(p, s)
    <2>1. \E p \in Procs : Allowed(p)
      BY <1>1, AgreedNext DEF aws
    <2>2. \E p \in Procs : Applying(p) /\ At(p, s)
      BY <1>1, <2>1 DEF Allowed
    <2>3. \A p \in Procs : Applying(p) /\ At(p, s) => AgreedTo(p, s)
      BY <1>1 DEF Agreed, Applying
    <2>4. QED
      BY <2>2, <2>3
  <1>2. ASSUME TypeOK, Filed, \A p \in Procs : Agreed(p), [Next]_vars, ~(bucket' \subseteq bucket)
        PROVE  /\ \E p \in Procs : pc'[p] # pc[p]
               /\ \A p \in Procs : pc'[p] # pc[p] => AgreedTo(p, Network)
    <2>1. PICK p \in Procs : OthersPassive(p) /\ Allowed(p)
      BY <1>2, AgreedNext DEF aws
    <2>2. \A q \in Procs : pc'[q] # pc[q] => q = p
      BY <2>1 DEF OthersPassive, Passive
    <2>3. QED
      BY <1>2, <2>1, <2>2 DEF Allowed
  <1>3. TypeOK /\ Filed /\ (\A p \in Procs : Agreed(p)) /\ [Next]_vars =>
          [ /\ \A s \in Stacks : cloud'[s] # cloud[s] =>
                 /\ \E p \in Procs : Applying(p) /\ At(p, s)
                 /\ \A p \in Procs : Applying(p) /\ At(p, s) => AgreedTo(p, s)
            /\ ~(bucket' \subseteq bucket) =>
                 /\ \E p \in Procs : pc'[p] # pc[p]
                 /\ \A p \in Procs : pc'[p] # pc[p] => AgreedTo(p, Network) ]_<<cloud, bucket>>
    BY <1>1, <1>2
  <1>4. QED
    BY <1>3, AgreedAlways, PTL DEF Spec, NothingBeforeApproval

\* The steps of `bbctl plan` leave AWS as it is, lock objects included.
THEOREM PlanIsReadOnly == Spec => PlanTouchesNothing
  <1>1. ASSUME TypeOK, Filed, \A p \in Procs : Agreed(p), [Next]_vars
        PROVE  [\A p \in Procs :
                  ~Ended(p) /\ pc'[p] # pc[p] /\ Verb(p) = "plan" => UNCHANGED aws]_vars
    BY <1>1, AgreedNext DEF OthersPassive, Passive, Allowed
  <1>2. QED
    BY <1>1, AgreedAlways, PTL DEF Spec, PlanTouchesNothing

-----------------------------------------------------------------------------
(* AppliedAsApproved, when no two processes share a working directory.     *)

Exclusive == \A p, q \in Procs : WorkDir[p] = WorkDir[q] => p = q

\* What the plan of stack s in p's command is to make of it.
Wanted(p, s) == IF Destroying(p) THEN NoInfra ELSE Want[cmd[p].cfg][s]

\* The plan of the network on a first deploy.
FirstPlan(p) == [stack |-> Network, want |-> Want[cmd[p].cfg][Network], base |-> NoInfra]

AfterRender == {"preview", "show_preview", "ask_first", "head_bucket", "create_bucket",
                "versioning", "block_public", "network_applied", "next", "plan",
                "planning", "show", "ask", "apply", "applying"}

\* What ties the plan p is busy with to its command, its files and what its user
\* agreed to: the plan is made from what p rendered, the file holds what was
\* shown, and a first-deploy approval stands for the plan it was given for.
PlanTied(p) ==
  /\ ~Ended(p) => todo[p] \subseteq StacksOf(cmd[p].cfg)
  /\ pc[p] \in AfterRender =>
       \A s \in StacksOf(cmd[p].cfg) : rendered[Dir(p)][s] = Want[cmd[p].cfg][s]
  /\ pc[p] = "show_preview" => preview[Dir(p)] = Want[cmd[p].cfg][Network]
  /\ pc[p] = "ask_first" => Effect(work[p]) = Effect(FirstPlan(p))
  /\ approved[p] # {} => /\ ~Ended(p)
                         /\ approved[p] = {Summary(FirstPlan(p))}
                         /\ Effect(FirstPlan(p)) \in granted[p]
  /\ \A s \in Stacks : At(p, s) =>
       /\ pc[p] = "planning" => work[p].stack = s /\ work[p].want = Wanted(p, s)
       /\ pc[p] = "show" => /\ planFile[Dir(p)][s].stack = s
                            /\ planFile[Dir(p)][s].want = Wanted(p, s)
       /\ pc[p] \in {"ask", "apply"} => planFile[Dir(p)][s] = work[p]
  /\ pc[p] \in {"apply", "applying"} => Effect(work[p]) \in granted[p]


\* What p's invariant is about is left alone by the steps of others.
Same(p) ==
  /\ pc'[p] = pc[p] /\ cmd'[p] = cmd[p] /\ todo'[p] = todo[p]
  /\ approved'[p] = approved[p] /\ work'[p] = work[p] /\ granted'[p] = granted[p]
  /\ rendered'[Dir(p)] = rendered[Dir(p)] /\ preview'[Dir(p)] = preview[Dir(p)]
  /\ planFile'[Dir(p)] = planFile[Dir(p)]

OthersSame(p) == \A q \in Procs \ {p} : Same(q)

LEMMA SameTied ==
  ASSUME NEW p \in Procs, PlanTied(p), Same(p)
  PROVE  PlanTied(p)'
  <1>1. /\ Ended(p)' = Ended(p)
        /\ Destroying(p)' = Destroying(p)
        /\ FirstPlan(p)' = FirstPlan(p)
    BY DEF Same, Ended, Destroying, Verb, FirstPlan
  <1>2. \A s \in Stacks : At(p, s)' = At(p, s) /\ Wanted(p, s)' = Wanted(p, s)
    BY <1>1 DEF Same, At, Wanted, Destroying, Verb
  <1>3. QED
    BY <1>1, <1>2 DEF Same, PlanTied, Dir

LEMMA FinishTied ==
  ASSUME TypeOK, NEW p \in Procs, NEW r \in {"ok", "failed"}, Finish(p, r)
  PROVE  PlanTied(p)'
  <1>1. /\ pc'[p] = r /\ approved'[p] = {}
    BY DEF Finish, Goto, TypeOK, LocalsOK
  <1>2. QED
    BY <1>1 DEF PlanTied, Ended, AfterRender

\* A step to a label at which the process is busy with no plan.
LEMMA JumpTied ==
  ASSUME TypeOK, NEW p \in Procs, ~Ended(p), PlanTied(p), NEW l, Goto(p, l),
         UNCHANGED <<cmd, approved, granted, rendered>>, todo'[p] \subseteq todo[p],
         l \notin {"idle", "ok", "failed", "show_preview", "ask_first", "planning",
                   "show", "ask", "apply", "applying"},
         l \in AfterRender => pc[p] \in AfterRender
  PROVE  PlanTied(p)'
  <1>1. pc'[p] = l
    BY DEF Goto, TypeOK
  <1>2. ~Ended(p)'
    BY <1>1 DEF Ended
  <1>3. Effect(FirstPlan(p))' = Effect(FirstPlan(p)) /\ Summary(FirstPlan(p))' = Summary(FirstPlan(p))
    BY DEF FirstPlan, Effect, Summary
  <1>4. QED
    BY <1>1, <1>2, <1>3 DEF PlanTied, Dir, Wanted, Destroying, Verb

LEMMA StackDoneTied ==
  ASSUME TypeOK, NEW p \in Procs, NEW s \in Stacks, ~Ended(p), PlanTied(p),
         pc[p] \in AfterRender, UNCHANGED rendered, StackDone(p, s)
  PROVE  PlanTied(p)'
  <1>1. todo'[p] \subseteq todo[p]
    BY DEF StackDone, TypeOK, LocalsOK
  <1>2. QED
    BY <1>1, JumpTied DEF StackDone

\* A process is at one stack only.
LEMMA AtOne ==
  ASSUME TypeOK, NEW p \in Procs, NEW s \in Stacks, NEW t \in Stacks, At(p, s), At(p, t)
  PROVE  s = t
  BY ConstantsOK DEF At, Stacks

\* A plan of the network that shows what was approved on a first deploy, and
\* nothing else, is the plan that was approved.
LEMMA SameShownSamePlan ==
  ASSUME NEW plan \in PlanFiles, NEW p \in Procs, cmd[p] \in Commands,
         plan.stack = Network, plan.want = Wanted(p, Network),
         Summary(plan) = Summary(FirstPlan(p))
  PROVE  Effect(plan) = Effect(FirstPlan(p))
  <1> DEFINE want == Want[cmd[p].cfg][Network]
  <1>1. /\ want \in Infra /\ want # NoInfra
        /\ NoInfra \in Infra /\ plan.base \in Infra /\ plan.want \in Infra
    BY ConstantsOK DEF Commands, PlanFiles, Infra, Network, Stacks
  <1>2. Addresses[want] # {} /\ Addresses[NoInfra] = {}
    BY <1>1, ConstantsOK
  <1>3. /\ Summary(FirstPlan(p)).add = Addresses[want]
        /\ Summary(FirstPlan(p)).destroy = {}
    BY <1>2 DEF Summary, FirstPlan
  <1>4. /\ Addresses[plan.want] \ Addresses[plan.base] = Addresses[want]
        /\ Addresses[plan.base] \ Addresses[plan.want] = {}
    BY <1>3 DEF Summary
  <1>5. plan.want = want
    BY <1>2, <1>4 DEF Wanted
  <1>6. Addresses[plan.base] = {}
    BY <1>4, <1>5
  <1>7. plan.base = NoInfra
    BY <1>1, <1>6, ConstantsOK
  <1>8. QED
    BY <1>5, <1>7 DEF Effect, FirstPlan

-----------------------------------------------------------------------------
LEMMA TiedStep ==
  ASSUME Exclusive, TypeOK, NEW p \in Procs, PlanTied(p), Start(p) \/ Step(p) \/ Failure(p)
  PROVE  PlanTied(p)' /\ OthersSame(p)
  <1>0. \A q \in Procs \ {p} : Dir(q) # Dir(p)
    BY DEF Exclusive, Dir
  <1>1. ASSUME Start(p) PROVE PlanTied(p)' /\ OthersSame(p)
    <2>1. PlanTied(p)'
      <3>1. PICK v \in Verbs, sel \in (SUBSET StacksOf(config)) \ {{}} :
              /\ cmd'  = [cmd EXCEPT ![p] = [verb |-> v, cfg |-> config, sel |-> sel]]
              /\ todo' = [todo EXCEPT ![p] = sel]
              /\ Goto(p, IF v = "apply" THEN "secret" ELSE "prepare")
        BY <1>1 DEF Start
      <3>2. /\ cmd'[p].cfg = config /\ todo'[p] = sel
            /\ pc'[p] \in {"secret", "prepare"}
        BY <3>1 DEF TypeOK, LocalsOK, Goto
      <3>3. approved'[p] = {}
        BY <1>1 DEF Start, PlanTied
      <3>4. QED
        BY <3>2, <3>3 DEF PlanTied, AfterRender, StacksOf
    <2>2. OthersSame(p)
      BY <1>1, <1>0 DEF Start, OthersSame, Same, Goto, TypeOK, LocalsOK, FilesOK, files
    <2>3. QED
      BY <2>1, <2>2
  <1>2. ASSUME Fail(p) PROVE PlanTied(p)' /\ OthersSame(p)
    <2>1. PlanTied(p)'
      BY <1>2, FinishTied DEF Fail
    <2>2. OthersSame(p)
      BY <1>2, <1>0 DEF Fail, OthersSame, Same, Goto, TypeOK, LocalsOK, FilesOK, Finish, files
    <2>3. QED
      BY <2>1, <2>2
  <1>3. ASSUME CheckSecret(p) PROVE PlanTied(p)' /\ OthersSame(p)
    <2>1. PlanTied(p)'
      BY <1>3, JumpTied DEF CheckSecret, AfterRender, Ended, locals, files
    <2>2. OthersSame(p)
      BY <1>3, <1>0 DEF CheckSecret, OthersSame, Same, Goto, TypeOK, LocalsOK, FilesOK, locals, files
    <2>3. QED
      BY <2>1, <2>2
  <1>4. ASSUME CreateSecret(p) PROVE PlanTied(p)' /\ OthersSame(p)
    <2>1. PlanTied(p)'
      BY <1>4, JumpTied DEF CreateSecret, AfterRender, Ended, locals, files
    <2>2. OthersSame(p)
      BY <1>4, <1>0 DEF CreateSecret, OthersSame, Same, Goto, TypeOK, LocalsOK, FilesOK, locals, files
    <2>3. QED
      BY <2>1, <2>2
  <1>5. ASSUME Prepare(p) PROVE PlanTied(p)' /\ OthersSame(p)
    <2>1. PlanTied(p)'
      BY <1>5, JumpTied DEF Prepare, AfterRender, Ended, locals, files
    <2>2. OthersSame(p)
      BY <1>5, <1>0 DEF Prepare, OthersSame, Same, Goto, TypeOK, LocalsOK, FilesOK, files
    <2>3. QED
      BY <2>1, <2>2
  <1>6. ASSUME Render(p) PROVE PlanTied(p)' /\ OthersSame(p)
    <2>1. PlanTied(p)'
      <3>1. CASE UNCHANGED locals
        <4>1. PICK l \in {"network_applied", "next", "ask_purge", "preview"} : Goto(p, l)
          BY <1>6, <3>1 DEF Render, Finish, Goto, TypeOK, locals, LocalsOK
        <4>2. pc'[p] = l /\ ~Ended(p) /\ ~Ended(p)'
          BY <1>6, <4>1 DEF Goto, TypeOK, Render, Ended
        <4>3. \A s \in StacksOf(cmd[p].cfg) : rendered'[Dir(p)][s] = Want[cmd[p].cfg][s]
          BY <1>6, ConstantsOK DEF Render, StacksOf, TypeOK, FilesOK, Dir
        <4>4. /\ approved[p] # {} => /\ approved[p] = {Summary(FirstPlan(p))}
                                     /\ Effect(FirstPlan(p)) \in granted[p]
              /\ todo[p] \subseteq StacksOf(cmd[p].cfg)
          BY <4>2 DEF PlanTied
        <4>5. FirstPlan(p)' = FirstPlan(p) /\ UNCHANGED <<cmd, todo, approved, granted>>
          BY <3>1 DEF FirstPlan, locals
        <4>6. /\ Effect(FirstPlan(p))' = Effect(FirstPlan(p))
              /\ Summary(FirstPlan(p))' = Summary(FirstPlan(p))
          BY <4>5 DEF FirstPlan, Effect, Summary
        <4>7. QED
          BY <4>1, <4>2, <4>3, <4>4, <4>5, <4>6 DEF PlanTied, Dir
      <3>2. CASE \E r \in {"ok", "failed"} : Finish(p, r)
        BY <3>2, FinishTied
      <3>3. QED
        BY <1>6, <3>1, <3>2 DEF Render
    <2>2. OthersSame(p)
      BY <1>6, <1>0 DEF Render, OthersSame, Same, Goto, TypeOK, LocalsOK, FilesOK, locals, Finish
    <2>3. QED
      BY <2>1, <2>2
  <1>7. ASSUME WritePreview(p) PROVE PlanTied(p)' /\ OthersSame(p)
    <2>1. PlanTied(p)'
      <3>1. /\ pc[p] = "preview" /\ pc'[p] = "show_preview"
            /\ preview'[Dir(p)] = Want[cmd[p].cfg][Network]
            /\ UNCHANGED <<cmd, todo, approved, granted, rendered>>
        BY <1>7, ConstantsOK DEF WritePreview, Goto, TypeOK, FilesOK, Dir, locals
      <3>2. ~Ended(p) /\ ~Ended(p)' /\ FirstPlan(p)' = FirstPlan(p)
        BY <3>1 DEF Ended, FirstPlan
      <3>3. /\ Effect(FirstPlan(p))' = Effect(FirstPlan(p))
            /\ Summary(FirstPlan(p))' = Summary(FirstPlan(p))
        BY <3>1 DEF FirstPlan, Effect, Summary
      <3>4. QED
        BY <3>1, <3>2, <3>3 DEF PlanTied, Dir, AfterRender
    <2>2. OthersSame(p)
      BY <1>7, <1>0 DEF WritePreview, OthersSame, Same, Goto, TypeOK, LocalsOK, FilesOK, locals
    <2>3. QED
      BY <2>1, <2>2
  <1>8. ASSUME ShowPreview(p) PROVE PlanTied(p)' /\ OthersSame(p)
    <2>1. PlanTied(p)'
      <3>1. CASE Verb(p) = "plan"
        BY <1>8, <3>1, FinishTied DEF ShowPreview
      <3>2. CASE Verb(p) # "plan"
        <4>1. /\ pc[p] = "show_preview" /\ pc'[p] = "ask_first"
              /\ work'[p].stack = Network /\ work'[p].want = preview[Dir(p)]
              /\ work'[p].base = NoInfra
              /\ UNCHANGED <<cmd, todo, approved, granted, rendered>>
          BY <1>8, <3>2 DEF ShowPreview, Goto, TypeOK, LocalsOK, files
        <4>2. preview[Dir(p)] = Want[cmd[p].cfg][Network]
          BY <4>1 DEF PlanTied
        <4>3. ~Ended(p) /\ ~Ended(p)'
          BY <4>1 DEF Ended
        <4>4. /\ Effect(FirstPlan(p))' = Effect(FirstPlan(p))
              /\ Summary(FirstPlan(p))' = Summary(FirstPlan(p))
          BY <4>1 DEF FirstPlan, Effect, Summary
        <4>5. Effect(work[p])' = Effect(FirstPlan(p))'
          BY <4>1, <4>2 DEF Effect, FirstPlan
        <4>6. QED
          BY <4>1, <4>3, <4>4, <4>5 DEF PlanTied, Dir, AfterRender
      <3>3. QED
        BY <3>1, <3>2
    <2>2. OthersSame(p)
      BY <1>8, <1>0 DEF ShowPreview, OthersSame, Same, Goto, TypeOK, LocalsOK, FilesOK, Finish, files
    <2>3. QED
      BY <2>1, <2>2
  <1>9. ASSUME ApproveFirst(p) PROVE PlanTied(p)' /\ OthersSame(p)
    <2>1. PlanTied(p)'
      <3>1. /\ pc[p] = "ask_first" /\ pc'[p] = "head_bucket"
            /\ approved'[p] = {Summary(work[p])}
            /\ granted'[p] = granted[p] \cup {Effect(work[p])}
            /\ UNCHANGED <<cmd, todo, rendered>>
        BY <1>9 DEF ApproveFirst, Grant, Goto, TypeOK, LocalsOK, files
      <3>2. Effect(work[p]) = Effect(FirstPlan(p))
        BY <3>1 DEF PlanTied
      <3>3. Summary(work[p]) = Summary(FirstPlan(p))
        BY <3>2 DEF Effect, Summary
      <3>4. ~Ended(p) /\ ~Ended(p)'
        BY <3>1 DEF Ended
      <3>5. /\ Effect(FirstPlan(p))' = Effect(FirstPlan(p))
            /\ Summary(FirstPlan(p))' = Summary(FirstPlan(p))
        BY <3>1 DEF FirstPlan, Effect, Summary
      <3>6. QED
        BY <3>1, <3>2, <3>3, <3>4, <3>5 DEF PlanTied, Dir, AfterRender
    <2>2. OthersSame(p)
      BY <1>9, <1>0 DEF ApproveFirst, OthersSame, Same, Goto, TypeOK, LocalsOK, FilesOK, Grant, files
    <2>3. QED
      BY <2>1, <2>2
  <1>10. ASSUME HeadBucket(p) PROVE PlanTied(p)' /\ OthersSame(p)
    <2>1. PlanTied(p)'
      BY <1>10, JumpTied DEF HeadBucket, AfterRender, Ended, locals, files
    <2>2. OthersSame(p)
      BY <1>10, <1>0 DEF HeadBucket, OthersSame, Same, Goto, TypeOK, LocalsOK, FilesOK, files
    <2>3. QED
      BY <2>1, <2>2
  <1>11. ASSUME CreateBucket(p) PROVE PlanTied(p)' /\ OthersSame(p)
    <2>1. PlanTied(p)'
      BY <1>11, JumpTied DEF CreateBucket, AfterRender, Ended, locals, files
    <2>2. OthersSame(p)
      BY <1>11, <1>0 DEF CreateBucket, OthersSame, Same, Goto, TypeOK, LocalsOK, FilesOK, locals, files
    <2>3. QED
      BY <2>1, <2>2
  <1>12. ASSUME PutVersioning(p) PROVE PlanTied(p)' /\ OthersSame(p)
    <2>1. PlanTied(p)'
      BY <1>12, JumpTied DEF PutVersioning, AfterRender, Ended, locals, files
    <2>2. OthersSame(p)
      BY <1>12, <1>0 DEF PutVersioning, OthersSame, Same, Goto, TypeOK, LocalsOK, FilesOK, locals, files
    <2>3. QED
      BY <2>1, <2>2
  <1>13. ASSUME BlockPublic(p) PROVE PlanTied(p)' /\ OthersSame(p)
    <2>1. PlanTied(p)'
      BY <1>13, JumpTied DEF BlockPublic, AfterRender, Ended, locals, files
    <2>2. OthersSame(p)
      BY <1>13, <1>0 DEF BlockPublic, OthersSame, Same, Goto, TypeOK, LocalsOK, FilesOK, files
    <2>3. QED
      BY <2>1, <2>2
  <1>14. ASSUME NetworkApplied(p) PROVE PlanTied(p)' /\ OthersSame(p)
    <2>1. PlanTied(p)'
      <3>1. todo'[p] \subseteq todo[p]
        BY <1>14 DEF NetworkApplied, TypeOK, LocalsOK
      <3>2. QED
        BY <1>14, <3>1, JumpTied DEF NetworkApplied, AfterRender, Ended, files
    <2>2. OthersSame(p)
      BY <1>14, <1>0 DEF NetworkApplied, OthersSame, Same, Goto, TypeOK, LocalsOK, FilesOK, files
    <2>3. QED
      BY <2>1, <2>2
  <1>15. ASSUME AllDone(p) PROVE PlanTied(p)' /\ OthersSame(p)
    <2>1. PlanTied(p)'
      BY <1>15, JumpTied, FinishTied DEF AllDone, AfterRender, Ended, locals, files
    <2>2. OthersSame(p)
      BY <1>15, <1>0 DEF AllDone, OthersSame, Same, Goto, TypeOK, LocalsOK, FilesOK, Finish, locals, files
    <2>3. QED
      BY <2>1, <2>2
  <1>16. ASSUME ApprovePlan(p) PROVE PlanTied(p)' /\ OthersSame(p)
    <2>1. PlanTied(p)'
      <3>1. /\ pc[p] = "ask" /\ pc'[p] = "apply"
            /\ granted'[p] = granted[p] \cup {Effect(work[p])}
            /\ UNCHANGED <<cmd, todo, approved, work, rendered, preview, planFile>>
        BY <1>16 DEF ApprovePlan, Grant, Goto, TypeOK, LocalsOK, files
      <3>2. ~Ended(p) /\ ~Ended(p)' /\ \A s \in Stacks : At(p, s)' = At(p, s)
        BY <3>1 DEF Ended, At, Destroying, Verb
      <3>3. /\ Effect(FirstPlan(p))' = Effect(FirstPlan(p))
            /\ Summary(FirstPlan(p))' = Summary(FirstPlan(p))
            /\ Effect(work[p])' = Effect(work[p])
        BY <3>1 DEF FirstPlan, Effect, Summary
      <3>4. QED
        BY <3>1, <3>2, <3>3 DEF PlanTied, Dir, AfterRender
    <2>2. OthersSame(p)
      BY <1>16, <1>0 DEF ApprovePlan, OthersSame, Same, Goto, TypeOK, LocalsOK, FilesOK, Grant, files
    <2>3. QED
      BY <2>1, <2>2
  <1>17. ASSUME ApprovePurge(p) PROVE PlanTied(p)' /\ OthersSame(p)
    <2>1. PlanTied(p)'
      BY <1>17, JumpTied, FinishTied DEF ApprovePurge, AfterRender, Ended, locals, files
    <2>2. OthersSame(p)
      BY <1>17, <1>0 DEF ApprovePurge, OthersSame, Same, Goto, TypeOK, LocalsOK, FilesOK, Finish, locals, files
    <2>3. QED
      BY <2>1, <2>2
  <1>18. ASSUME PurgeObjects(p) PROVE PlanTied(p)' /\ OthersSame(p)
    <2>1. PlanTied(p)'
      BY <1>18, JumpTied, FinishTied DEF PurgeObjects, AfterRender, Ended, locals, files
    <2>2. OthersSame(p)
      BY <1>18, <1>0 DEF PurgeObjects, OthersSame, Same, Goto, TypeOK, LocalsOK, FilesOK, Finish, locals, files
    <2>3. QED
      BY <2>1, <2>2
  <1>19. ASSUME PurgeSomeObjects(p) PROVE PlanTied(p)' /\ OthersSame(p)
    <2>1. PlanTied(p)'
      BY <1>19, FinishTied DEF PurgeSomeObjects
    <2>2. OthersSame(p)
      BY <1>19, <1>0 DEF PurgeSomeObjects, OthersSame, Same, Goto, TypeOK, LocalsOK, FilesOK, Finish, files
    <2>3. QED
      BY <2>1, <2>2
  <1>20. ASSUME PurgeBucket(p) PROVE PlanTied(p)' /\ OthersSame(p)
    <2>1. PlanTied(p)'
      BY <1>20, FinishTied DEF PurgeBucket
    <2>2. OthersSame(p)
      BY <1>20, <1>0 DEF PurgeBucket, OthersSame, Same, Goto, TypeOK, LocalsOK, FilesOK, Finish, files
    <2>3. QED
      BY <2>1, <2>2
  <1>21. ASSUME Kill(p) PROVE PlanTied(p)' /\ OthersSame(p)
    <2>1. PlanTied(p)'
      BY <1>21, FinishTied DEF Kill
    <2>2. OthersSame(p)
      BY <1>21, <1>0 DEF Kill, OthersSame, Same, Goto, TypeOK, LocalsOK, FilesOK, Finish, files
    <2>3. QED
      BY <2>1, <2>2
  <1>22. ASSUME NEW s \in Stacks, Next1(p, s) PROVE PlanTied(p)' /\ OthersSame(p)
    <2>1. PlanTied(p)'
      BY <1>22, JumpTied, StackDoneTied DEF Next1, AfterRender, Ended, locals, files
    <2>2. OthersSame(p)
      BY <1>22, <1>0 DEF Next1, OthersSame, Same, Goto, TypeOK, LocalsOK, FilesOK, StackDone, locals, files
    <2>3. QED
      BY <2>1, <2>2
  <1>23. ASSUME NEW s \in Stacks, StartPlan(p, s) PROVE PlanTied(p)' /\ OthersSame(p)
    <2>1. PlanTied(p)'
      <3>1. /\ pc[p] = "plan" /\ pc'[p] = "planning" /\ At(p, s)
            /\ work'[p].stack = s
            /\ work'[p].want = IF Destroying(p) THEN NoInfra ELSE rendered[Dir(p)][s]
            /\ UNCHANGED <<cmd, todo, approved, granted, rendered>>
        BY <1>23 DEF StartPlan, Goto, TypeOK, LocalsOK, files
      <3>2. ~Ended(p) /\ ~Ended(p)' /\ s \in StacksOf(cmd[p].cfg)
        BY <3>1 DEF Ended, PlanTied, At
      <3>3. rendered[Dir(p)][s] = Want[cmd[p].cfg][s]
        BY <3>1, <3>2 DEF PlanTied, AfterRender
      <3>4. \A t \in Stacks : At(p, t)' => t = s /\ Wanted(p, t)' = work'[p].want
        <4> SUFFICES ASSUME NEW t \in Stacks, At(p, t)'
                     PROVE  t = s /\ Wanted(p, t)' = work'[p].want
          OBVIOUS
        <4>1. At(p, t)
          BY <3>1 DEF At, Destroying, Verb
        <4>2. t = s
          BY <3>1, <4>1, AtOne
        <4>3. QED
          BY <3>1, <3>3, <4>2 DEF Wanted, Destroying, Verb
      <3>5. /\ Effect(FirstPlan(p))' = Effect(FirstPlan(p))
            /\ Summary(FirstPlan(p))' = Summary(FirstPlan(p))
        BY <3>1 DEF FirstPlan, Effect, Summary
      <3>6. QED
        BY <3>1, <3>2, <3>4, <3>5 DEF PlanTied, Dir, AfterRender
    <2>2. OthersSame(p)
      BY <1>23, <1>0 DEF StartPlan, OthersSame, Same, Goto, TypeOK, LocalsOK, FilesOK, files
    <2>3. QED
      BY <2>1, <2>2
  <1>24. ASSUME NEW s \in Stacks, WritePlan(p, s) PROVE PlanTied(p)' /\ OthersSame(p)
    <2>1. PlanTied(p)'
      <3>1. /\ pc[p] = "planning" /\ pc'[p] = "show" /\ At(p, s)
            /\ planFile'[Dir(p)][s] = work[p]
            /\ UNCHANGED <<cmd, todo, approved, granted, rendered>>
        BY <1>24, ConstantsOK DEF WritePlan, Goto, TypeOK, FilesOK, Dir, locals
      <3>2. ~Ended(p) /\ ~Ended(p)'
        BY <3>1 DEF Ended
      <3>3. work[p].stack = s /\ work[p].want = Wanted(p, s)
        BY <3>1 DEF PlanTied
      <3>4. \A t \in Stacks : At(p, t)' => t = s
        <4> SUFFICES ASSUME NEW t \in Stacks, At(p, t)' PROVE t = s
          OBVIOUS
        <4>1. At(p, t)
          BY <3>1 DEF At, Destroying, Verb
        <4>2. QED
          BY <3>1, <4>1, AtOne
      <3>5. /\ Effect(FirstPlan(p))' = Effect(FirstPlan(p))
            /\ Summary(FirstPlan(p))' = Summary(FirstPlan(p))
            /\ Wanted(p, s)' = Wanted(p, s)
        BY <3>1 DEF FirstPlan, Effect, Summary, Wanted, Destroying, Verb
      <3>6. QED
        BY <3>1, <3>2, <3>3, <3>4, <3>5 DEF PlanTied, Dir, AfterRender
    <2>2. OthersSame(p)
      BY <1>24, <1>0 DEF WritePlan, OthersSame, Same, Goto, TypeOK, LocalsOK, FilesOK, locals
    <2>3. QED
      BY <2>1, <2>2
  <1>25. ASSUME NEW s \in Stacks, ShowPlan(p, s) PROVE PlanTied(p)' /\ OthersSame(p)
    <2>1. PlanTied(p)'
      <3> DEFINE plan == planFile[Dir(p)][s]
      <3>1. pc[p] = "show" /\ ~Ended(p) /\ UNCHANGED <<rendered, planFile>>
        BY <1>25 DEF ShowPlan, Ended, files
      <3>2. CASE Verb(p) = "plan" \/ Empty(Summary(plan))
        BY <1>25, <3>1, <3>2, StackDoneTied DEF ShowPlan, AfterRender
      <3>3. CASE ~(Verb(p) = "plan" \/ Empty(Summary(plan)))
        <4>1. /\ At(p, s) /\ work'[p] = plan
              /\ pc'[p] \in {"ask", "apply"}
              /\ pc'[p] = "apply" => s = Network /\ Summary(plan) \in approved[p]
              /\ UNCHANGED <<cmd, todo, approved, granted>>
          BY <1>25, <3>3 DEF ShowPlan, PreApproved, Goto, TypeOK, LocalsOK
        <4>2. plan \in PlanFiles
          BY <1>25, ConstantsOK DEF ShowPlan, Dir, TypeOK, FilesOK
        <4>3. plan.stack = s /\ plan.want = Wanted(p, s)
          BY <3>1, <4>1 DEF PlanTied
        <4>4. ASSUME pc'[p] = "apply" PROVE Effect(work[p])' \in granted'[p]
          <5>1. /\ s = Network /\ Summary(plan) = Summary(FirstPlan(p))
                /\ Effect(FirstPlan(p)) \in granted[p]
            BY <4>1, <4>4 DEF PlanTied
          <5>2. cmd[p] \in Commands
            BY <3>1 DEF TypeOK, LocalsOK
          <5>3. Effect(plan) = Effect(FirstPlan(p))
            <6> HIDE DEF plan
            <6>1. QED
              BY <4>2, <4>3, <5>1, <5>2, SameShownSamePlan
          <5>4. Effect(work[p])' = Effect(plan)
            BY <4>1 DEF Effect
          <5>5. QED
            BY <4>1, <5>1, <5>3, <5>4
        <4>5. \A t \in Stacks : At(p, t)' => t = s
          <5> SUFFICES ASSUME NEW t \in Stacks, At(p, t)' PROVE t = s
            OBVIOUS
          <5>1. At(p, t)
            BY <4>1 DEF At, Destroying, Verb
          <5>2. QED
            BY <4>1, <5>1, AtOne
        <4>6. /\ Effect(FirstPlan(p))' = Effect(FirstPlan(p))
              /\ Summary(FirstPlan(p))' = Summary(FirstPlan(p))
          BY <4>1 DEF FirstPlan, Effect, Summary
        <4>7. ~Ended(p)'
          BY <4>1 DEF Ended
        <4>8. QED
          BY <3>1, <4>1, <4>4, <4>5, <4>6, <4>7 DEF PlanTied, Dir, AfterRender
      <3>4. QED
        BY <3>2, <3>3
    <2>2. OthersSame(p)
      BY <1>25, <1>0 DEF ShowPlan, OthersSame, Same, Goto, TypeOK, LocalsOK, FilesOK, StackDone, files
    <2>3. QED
      BY <2>1, <2>2
  <1>26. ASSUME NEW s \in Stacks, StartApply(p, s) PROVE PlanTied(p)' /\ OthersSame(p)
    <2>1. PlanTied(p)'
      <3>1. /\ pc[p] = "apply" /\ pc'[p] = "applying" /\ At(p, s)
            /\ work'[p] = planFile[Dir(p)][s]
            /\ UNCHANGED <<cmd, todo, approved, granted, rendered, planFile>>
        BY <1>26 DEF StartApply, Goto, TypeOK, LocalsOK, files
      <3>2. work'[p] = work[p] /\ Effect(work[p]) \in granted[p]
        BY <3>1 DEF PlanTied
      <3>3. ~Ended(p) /\ ~Ended(p)'
        BY <3>1 DEF Ended
      <3>4. /\ Effect(FirstPlan(p))' = Effect(FirstPlan(p))
            /\ Summary(FirstPlan(p))' = Summary(FirstPlan(p))
            /\ Effect(work[p])' = Effect(work[p])
        BY <3>1, <3>2 DEF FirstPlan, Effect, Summary
      <3>5. QED
        BY <3>1, <3>2, <3>3, <3>4 DEF PlanTied, Dir, AfterRender
    <2>2. OthersSame(p)
      BY <1>26, <1>0 DEF StartApply, OthersSame, Same, Goto, TypeOK, LocalsOK, FilesOK, files
    <2>3. QED
      BY <2>1, <2>2
  <1>27. ASSUME NEW s \in Stacks, ApplyRefused(p, s) PROVE PlanTied(p)' /\ OthersSame(p)
    <2>1. PlanTied(p)'
      BY <1>27, FinishTied DEF ApplyRefused
    <2>2. OthersSame(p)
      BY <1>27, <1>0 DEF ApplyRefused, OthersSame, Same, Goto, TypeOK, LocalsOK, FilesOK, Finish, RemovePlanFile
    <2>3. QED
      BY <2>1, <2>2
  <1>28. ASSUME NEW s \in Stacks, ApplySome(p, s) PROVE PlanTied(p)' /\ OthersSame(p)
    <2>1. PlanTied(p)'
      <3>1. Same(p)
        BY <1>28 DEF ApplySome, Same, locals, files
      <3>2. QED
        BY <3>1, SameTied
    <2>2. OthersSame(p)
      BY <1>28, <1>0 DEF ApplySome, OthersSame, Same, Goto, TypeOK, LocalsOK, FilesOK, locals, files
    <2>3. QED
      BY <2>1, <2>2
  <1>29. ASSUME NEW s \in Stacks, ApplyDone(p, s) PROVE PlanTied(p)' /\ OthersSame(p)
    <2>1. PlanTied(p)'
      BY <1>29, StackDoneTied DEF ApplyDone, AfterRender, Ended
    <2>2. OthersSame(p)
      BY <1>29, <1>0 DEF ApplyDone, OthersSame, Same, Goto, TypeOK, LocalsOK, FilesOK, StackDone, RemovePlanFile
    <2>3. QED
      BY <2>1, <2>2
  <1>30. ASSUME NEW s \in Stacks, ApplyFailed(p, s) PROVE PlanTied(p)' /\ OthersSame(p)
    <2>1. PlanTied(p)'
      BY <1>30, FinishTied DEF ApplyFailed
    <2>2. OthersSame(p)
      BY <1>30, <1>0 DEF ApplyFailed, OthersSame, Same, Goto, TypeOK, LocalsOK, FilesOK, Finish, RemovePlanFile
    <2>3. QED
      BY <2>1, <2>2
  <1>31. QED
    BY <1>1, <1>2, <1>3, <1>4, <1>5, <1>6, <1>7, <1>8, <1>9, <1>10, <1>11, <1>12, <1>13, <1>14, <1>15, <1>16, <1>17, <1>18, <1>19, <1>20, <1>21, <1>22, <1>23, <1>24, <1>25, <1>26, <1>27, <1>28, <1>29, <1>30
       DEF Step, Failure, StackStep

LEMMA TiedNext ==
  ASSUME Exclusive, TypeOK, \A p \in Procs : PlanTied(p), [Next]_vars
  PROVE  (\A p \in Procs : PlanTied(p))'
  <1>1. CASE UNCHANGED vars \/ EditConfig
    <2>1. \A p \in Procs : Same(p)
      BY <1>1 DEF EditConfig, Same, vars, locals, files
    <2>2. QED
      BY <2>1, SameTied
  <1>2. ASSUME NEW p \in Procs, Start(p) \/ Step(p) \/ Failure(p)
        PROVE  (\A q \in Procs : PlanTied(q))'
    <2>1. PlanTied(p)' /\ OthersSame(p)
      BY <1>2, TiedStep
    <2>2. QED
      BY <2>1, SameTied DEF OthersSame
  <1>3. QED
    BY <1>1, <1>2 DEF Next

LEMMA TiedInit == Init => \A p \in Procs : PlanTied(p)
  BY DEF Init, PlanTied, Ended, AfterRender

\* When every process has a working directory of its own, whatever terraform
\* carries out was approved by the user of the command that carries it out.
THEOREM AppliedOnlyAsApproved ==
  ASSUME Exclusive PROVE Spec => []AppliedAsApproved
  <1>1. (\A p \in Procs : PlanTied(p)) => AppliedAsApproved
    BY DEF PlanTied, AppliedAsApproved, Applying
  <1>2. TypeOK /\ (\A p \in Procs : PlanTied(p)) /\ [Next]_vars
          => (\A p \in Procs : PlanTied(p))'
    BY TiedNext
  <1>3. QED
    BY <1>1, <1>2, TiedInit, TypeCorrect, PTL DEF Spec

-----------------------------------------------------------------------------
(* What the state objects and the exit statuses are worth: for any number    *)
(* of processes, as long as nobody purges, what exists is in a state object  *)
(* or behind a lock that was left over; for one process at a time, destroy   *)
(* --purge included, the order of a destroy and what exit status 0 means.    *)

\* What the state object says of a stack.
Saved(s) == IF state[s] = NoState THEN NoInfra ELSE state[s]

\* A stack that nobody is at is what its state object says, unless a lock that
\* is left over keeps everybody from it.
Settled(s) ==
  lock[s] # Leftover /\ (\A p \in Procs : ~(Applying(p) /\ At(p, s))) => cloud[s] = Saved(s)

\* A state object is in the bucket, and terraform needs the bucket.
Stored ==
  /\ \A s \in Stacks : state[s] # NoState => "exists" \in bucket
  /\ \A p \in Procs : Applying(p) => "exists" \in bucket

\* The labels at which a process has a plan of the stack it is at.
Away == {"planning", "show", "ask", "apply", "applying"}

\* A step of p that carries out nothing.
Quiet(p) ==
  /\ ~Applying(p) /\ pc'[p] # "applying"
  /\ UNCHANGED <<cloud, state, serial>> /\ bucket \subseteq bucket'
  /\ \A s \in Stacks : lock[s] = Leftover => lock'[s] = Leftover

\* ... and what it does to the agreements.
Agreements(p) ==
  \/ granted' = granted
  \/ granted' = [granted EXCEPT ![p] = {}]
  \/ Grant(p) /\ work[p] \in PlanFiles

\* A step of destroy --purge after the last stack.
Purges(p) ==
  ApprovePurge(p) \/ PurgeObjects(p) \/ PurgeSomeObjects(p) \/ PurgeBucket(p)

\* Nobody but p starts or stops to apply, or goes on to another stack.
OthersStay(p) ==
  \A q \in Procs \ {p} :
    Applying(q)' = Applying(q) /\ \A s \in Stacks : At(q, s)' = At(q, s)

(* What a step of p does.                                                    *)

LEMMA Kinds ==
  ASSUME TypeOK, NEW p \in Procs, Start(p) \/ Step(p) \/ Failure(p)
  PROVE  \/ Quiet(p) /\ Agreements(p) /\ pc'[p] \notin Away
         \/ ApprovePlan(p)
         \/ \E s \in Stacks : StartPlan(p, s) \/ WritePlan(p, s) \/ ShowPlan(p, s)
         \/ \E s \in Stacks : StartApply(p, s) \/ ApplySome(p, s) \/ ApplyDone(p, s) \/ ApplyFailed(p, s)
         \/ (Kill(p) /\ Applying(p))
         \/ Purges(p)
  <1>0. p # Leftover /\ Free # Leftover
    BY NullsOK
  <1>1. ASSUME Start(p) PROVE Quiet(p) /\ Agreements(p) /\ pc'[p] \notin Away
    BY <1>1 DEF Start, Ended, Goto, aws, Quiet, Agreements, Away, Applying, TypeOK, LocalsOK, AwsOK
  <1>2. ASSUME Fail(p) PROVE Quiet(p) /\ Agreements(p) /\ pc'[p] \notin Away
    BY <1>0, <1>2 DEF Fail, Finish, Goto, Quiet, Agreements, Away, Applying, TypeOK, LocalsOK, AwsOK
  <1>3. ASSUME CheckSecret(p) PROVE Quiet(p) /\ Agreements(p) /\ pc'[p] \notin Away
    BY <1>3 DEF CheckSecret, Goto, aws, locals, Quiet, Agreements, Away, Applying, TypeOK, LocalsOK, AwsOK
  <1>4. ASSUME CreateSecret(p) PROVE Quiet(p) /\ Agreements(p) /\ pc'[p] \notin Away
    BY <1>4 DEF CreateSecret, Goto, locals, Quiet, Agreements, Away, Applying, TypeOK, LocalsOK, AwsOK
  <1>5. ASSUME Prepare(p) PROVE Quiet(p) /\ Agreements(p) /\ pc'[p] \notin Away
    BY <1>5 DEF Prepare, Goto, aws, Quiet, Agreements, Away, Applying, TypeOK, LocalsOK, AwsOK
  <1>6. ASSUME Render(p) PROVE Quiet(p) /\ Agreements(p) /\ pc'[p] \notin Away
    BY <1>6 DEF Render, Finish, Goto, aws, locals, Quiet, Agreements, Away, Applying, TypeOK, LocalsOK, AwsOK
  <1>7. ASSUME WritePreview(p) PROVE Quiet(p) /\ Agreements(p) /\ pc'[p] \notin Away
    BY <1>7 DEF WritePreview, Goto, aws, locals, Quiet, Agreements, Away, Applying, TypeOK, LocalsOK, AwsOK
  <1>8. ASSUME ShowPreview(p) PROVE Quiet(p) /\ Agreements(p) /\ pc'[p] \notin Away
    BY <1>8 DEF ShowPreview, Finish, Goto, aws, Quiet, Agreements, Away, Applying, TypeOK, LocalsOK, AwsOK
  <1>9. ASSUME HeadBucket(p) PROVE Quiet(p) /\ Agreements(p) /\ pc'[p] \notin Away
    BY <1>9 DEF HeadBucket, Goto, aws, Quiet, Agreements, Away, Applying, TypeOK, LocalsOK, AwsOK
  <1>10. ASSUME CreateBucket(p) PROVE Quiet(p) /\ Agreements(p) /\ pc'[p] \notin Away
    BY <1>10 DEF CreateBucket, Goto, locals, Quiet, Agreements, Away, Applying, TypeOK, LocalsOK, AwsOK
  <1>11. ASSUME PutVersioning(p) PROVE Quiet(p) /\ Agreements(p) /\ pc'[p] \notin Away
    BY <1>11 DEF PutVersioning, Goto, locals, Quiet, Agreements, Away, Applying, TypeOK, LocalsOK, AwsOK
  <1>12. ASSUME BlockPublic(p) PROVE Quiet(p) /\ Agreements(p) /\ pc'[p] \notin Away
    BY <1>12 DEF BlockPublic, Goto, Quiet, Agreements, Away, Applying, TypeOK, LocalsOK, AwsOK
  <1>13. ASSUME NetworkApplied(p) PROVE Quiet(p) /\ Agreements(p) /\ pc'[p] \notin Away
    BY <1>13 DEF NetworkApplied, Goto, aws, Quiet, Agreements, Away, Applying, TypeOK, LocalsOK, AwsOK
  <1>14. ASSUME ApproveFirst(p) PROVE Quiet(p) /\ Agreements(p) /\ pc'[p] \notin Away
    BY <1>14 DEF ApproveFirst, Goto, aws, HasPlan, Quiet, Agreements, Away, Applying, TypeOK, LocalsOK, AwsOK
  <1>15. ASSUME AllDone(p) PROVE Quiet(p) /\ Agreements(p) /\ pc'[p] \notin Away
    BY <1>15 DEF AllDone, Finish, locals, Goto, aws, Quiet, Agreements, Away, Applying, TypeOK, LocalsOK, AwsOK
  <1>16. ASSUME Kill(p), ~Applying(p) PROVE Quiet(p) /\ Agreements(p) /\ pc'[p] \notin Away
    BY <1>0, <1>16 DEF Kill, Finish, Goto, Quiet, Agreements, Away, Applying, TypeOK, LocalsOK, AwsOK
  <1>17. ASSUME NEW s \in Stacks, Next1(p, s) PROVE Quiet(p) /\ Agreements(p) /\ pc'[p] \notin Away
    BY <1>17 DEF Next1, StackDone, Goto, aws, locals, Quiet, Agreements, Away, Applying, TypeOK, LocalsOK, AwsOK
  <1>18. ASSUME NEW s \in Stacks, ApplyRefused(p, s) PROVE Quiet(p) /\ Agreements(p) /\ pc'[p] \notin Away
    BY <1>18 DEF ApplyRefused, Finish, Goto, aws, Quiet, Agreements, Away, Applying, TypeOK, LocalsOK, AwsOK
  <1>19. QED
    BY <1>1, <1>2, <1>3, <1>4, <1>5, <1>6, <1>7, <1>8, <1>9, <1>10, <1>11, <1>12, <1>13, <1>14, <1>15, <1>16, <1>17, <1>18
       DEF Step, Failure, StackStep, Purges

\* Plans for p's stack are made, written, shown and approved; nothing of it is
\* in AWS yet.
LEMMA PlanningQuiet ==
  ASSUME TypeOK, NEW p \in Procs,
         ApprovePlan(p) \/ \E s \in Stacks : StartPlan(p, s) \/ WritePlan(p, s) \/ ShowPlan(p, s)
  PROVE  Quiet(p) /\ Agreements(p)
  <1>0. p # Leftover /\ Free # Leftover
    BY NullsOK
  <1>1. ASSUME ApprovePlan(p) PROVE Quiet(p) /\ Agreements(p)
    BY <1>1 DEF ApprovePlan, Goto, aws, HasPlan, Quiet, Agreements, Applying, TypeOK, LocalsOK, AwsOK
  <1>2. ASSUME NEW s \in Stacks, StartPlan(p, s) PROVE Quiet(p) /\ Agreements(p)
    BY <1>0, <1>2 DEF StartPlan, Goto, Quiet, Agreements, Applying, TypeOK, LocalsOK, AwsOK
  <1>3. ASSUME NEW s \in Stacks, WritePlan(p, s) PROVE Quiet(p) /\ Agreements(p)
    BY <1>0, <1>3 DEF WritePlan, Goto, locals, Quiet, Agreements, Applying, TypeOK, LocalsOK, AwsOK
  <1>4. ASSUME NEW s \in Stacks, ShowPlan(p, s) PROVE Quiet(p) /\ Agreements(p)
    BY <1>4 DEF ShowPlan, StackDone, Goto, aws, Quiet, Agreements, Applying, TypeOK, LocalsOK, AwsOK
  <1>5. QED
    BY <1>1, <1>2, <1>3, <1>4

LEMMA NobodyPurges ==
  ASSUME "purge" \notin Verbs, NEW p \in Procs, Held(p)
  PROVE  ~Purges(p)
  BY DEF Held, PurgeLabels, Purges, ApprovePurge, PurgeObjects, PurgeBucket,
         PurgeSomeObjects, Ended

LEMMA LeftStay ==
  ASSUME NEW p \in Procs, OthersLeft(p)
  PROVE  OthersStay(p)
  BY DEF OthersLeft, Left, OthersStay, Applying, At, Destroying, Verb

-----------------------------------------------------------------------------
(* The state of a stack is what the stack is.                                *)

LEMMA StoredStep ==
  ASSUME TypeOK, NEW p \in Procs, Stored, OthersStay(p),
         Start(p) \/ Step(p) \/ Failure(p), ~Purges(p)
  PROVE  Stored' /\ bucket \subseteq bucket'
  <1>1. ASSUME Quiet(p) PROVE Stored' /\ bucket \subseteq bucket'
    BY <1>1 DEF Quiet, Stored, OthersStay, Applying
  <1>2. ASSUME NEW s \in Stacks, StartApply(p, s) PROVE Stored' /\ bucket \subseteq bucket'
    BY <1>2 DEF StartApply, Stored, OthersStay
  <1>3. ASSUME NEW s \in Stacks, ApplySome(p, s) PROVE Stored' /\ bucket \subseteq bucket'
    BY <1>3 DEF ApplySome, Stored, OthersStay, Applying
  <1>4. CASE (\E s \in Stacks : ApplyDone(p, s) \/ ApplyFailed(p, s)) \/ (Kill(p) /\ Applying(p))
    <2>1. bucket' = bucket /\ "exists" \in bucket
      BY <1>4 DEF ApplyDone, ApplyFailed, Kill, Applying, Stored
    <2>2. QED
      BY <2>1 DEF Stored
  <1>5. QED
    BY <1>1, <1>2, <1>3, <1>4, Kinds, PlanningQuiet

LEMMA SettledStep ==
  ASSUME TypeOK, NEW p \in Procs, Stored, OthersStay(p), NEW s \in Stacks, Settled(s),
         Start(p) \/ Step(p) \/ Failure(p), ~Purges(p), Kill(p) => Held(p)
  PROVE  Settled(s)'
  <1>1. \A q \in Procs \ {p} : Applying(q)' = Applying(q) /\ At(q, s)' = At(q, s)
    BY DEF OthersStay
  <1>2. CASE Quiet(p)
    BY <1>1, <1>2 DEF Quiet, Settled, Saved, Applying
  <1>3. ASSUME NEW t \in Stacks, StartApply(p, t) PROVE Settled(s)'
    <2>1. /\ ~Applying(p) /\ Applying(p)' /\ At(p, t)' = At(p, t) /\ At(p, t)
          /\ UNCHANGED <<cloud, state>>
          /\ s # t => lock'[s] = lock[s]
      BY <1>3 DEF StartApply, Applying, Goto, TypeOK, AwsOK, At, Destroying, Verb
    <2>2. QED
      BY <1>1, <2>1 DEF Settled, Saved
  <1>4. ASSUME NEW t \in Stacks, ApplySome(p, t) PROVE Settled(s)'
    <2>1. /\ Applying(p) /\ Applying(p)' /\ At(p, t) /\ (\A r : At(p, r)' = At(p, r))
          /\ s # t => cloud'[s] = cloud[s]
          /\ UNCHANGED <<lock, state>>
      BY <1>4 DEF ApplySome, Applying, TypeOK, AwsOK, At, Destroying, Verb, locals
    <2>2. QED
      BY <1>1, <2>1 DEF Settled, Saved
  <1>5. ASSUME NEW t \in Stacks, ApplyDone(p, t) PROVE Settled(s)'
    <2>1. /\ Applying(p) /\ ~Applying(p)' /\ At(p, t) /\ work[p].want \in Infra
          /\ cloud' = [cloud EXCEPT ![t] = work[p].want]
          /\ state' = [state EXCEPT ![t] = work[p].want]
          /\ s # t => lock'[s] = lock[s]
      BY <1>5 DEF ApplyDone, SaveState, StackDone, Applying, Goto, TypeOK, LocalsOK, AwsOK, HasPlan, PlanFiles
    <2>2. CASE s = t
      BY <2>1, <2>2, NullsOK DEF Settled, Saved, TypeOK, AwsOK
    <2>3. CASE s # t
      <3>1. ~At(p, s)
        BY <2>1, <2>3, AtOne
      <3>2. QED
        BY <1>1, <2>1, <2>3, <3>1 DEF Settled, Saved, TypeOK, AwsOK
    <2>4. QED
      BY <2>2, <2>3
  <1>6. ASSUME NEW t \in Stacks, ApplyFailed(p, t) PROVE Settled(s)'
    <2>1. /\ Applying(p) /\ ~Applying(p)' /\ At(p, t) /\ cloud' = cloud
          /\ \/ state' = [state EXCEPT ![t] = cloud[t]]
             \/ state' = state /\ cloud[t] = NoInfra /\ state[t] = NoState
          /\ s # t => lock'[s] = lock[s]
      BY <1>6 DEF ApplyFailed, SaveState, Finish, Applying, Goto, TypeOK, AwsOK, Stored
    <2>2. CASE s = t
      BY <2>1, <2>2, NullsOK DEF Settled, Saved, TypeOK, AwsOK
    <2>3. CASE s # t
      <3>1. ~At(p, s)
        BY <2>1, <2>3, AtOne
      <3>2. QED
        BY <1>1, <2>1, <2>3, <3>1 DEF Settled, Saved, TypeOK, AwsOK
    <2>4. QED
      BY <2>2, <2>3
  <1>7. ASSUME Kill(p), Applying(p) PROVE Settled(s)'
    <2>1. /\ ~Applying(p)' /\ cloud' = cloud
          /\ ~At(p, s) => state'[s] = state[s]
          /\ lock' = [r \in Stacks |-> IF lock[r] = p THEN Leftover ELSE lock[r]]
      BY <1>7 DEF Kill, Finish, Applying, Goto, TypeOK, AwsOK
    <2>2. CASE At(p, s)
      BY <1>7, <2>1, <2>2 DEF Settled, Held, Applying
    <2>3. CASE ~At(p, s)
      BY <1>1, <2>1, <2>3, NullsOK DEF Settled, Saved
    <2>4. QED
      BY <2>2, <2>3
  <1>8. QED
    BY <1>2, <1>3, <1>4, <1>5, <1>6, <1>7, Kinds, PlanningQuiet

\* With nobody at a stack, terraform finds what the state says.
LEMMA FoundIsSaved ==
  ASSUME NEW s \in Stacks, Settled(s), lock[s] # Leftover,
         \A p \in Procs : ~(Applying(p) /\ At(p, s))
  PROVE  Refreshed(s) = Saved(s) /\ cloud[s] = Saved(s)
  <1>1. cloud[s] = Saved(s)
    BY DEF Settled
  <1>2. QED
    BY <1>1 DEF Refreshed, Saved

\* Nobody is at a stack whose lock is free.
LEMMA FreeUnattended ==
  ASSUME NEW s \in Stacks, lock[s] = Free, \A p \in Procs : Held(p)
  PROVE  lock[s] # Leftover /\ \A p \in Procs : ~(Applying(p) /\ At(p, s))
  BY NullsOK DEF Held, Applying

-----------------------------------------------------------------------------
(* Any number of processes, as long as nobody purges.                        *)

Recorded ==
  /\ TypeOK
  /\ \A p \in Procs : Held(p)
  /\ Stored
  /\ \A s \in Stacks : Settled(s)

LEMMA RecordedInit == Init => Recorded
  <1>1. Init => Stored /\ \A s \in Stacks : Settled(s)
    BY DEF Init, Stored, Applying, Settled, Saved
  <1>2. QED
    BY <1>1, TypeInit, HeldInit DEF Recorded

LEMMA RecordedNext ==
  ASSUME "purge" \notin Verbs, Recorded, [Next]_vars
  PROVE  Recorded'
  <1>1. TypeOK' /\ (\A p \in Procs : Held(p))'
    BY TypeNext, HeldNext DEF Recorded
  <1>2. CASE UNCHANGED vars \/ EditConfig
    <2>1. UNCHANGED <<cloud, state, lock, bucket, pc, cmd, todo>>
      BY <1>2 DEF EditConfig, vars, aws, locals
    <2>2. \A p \in Procs : Applying(p)' = Applying(p) /\ \A s \in Stacks : At(p, s)' = At(p, s)
      BY <2>1 DEF Applying, At, Destroying, Verb
    <2>3. QED
      BY <1>1, <2>1, <2>2 DEF Recorded, Stored, Settled, Saved
  <1>3. ASSUME NEW p \in Procs, Start(p) \/ Step(p) \/ Failure(p) PROVE Recorded'
    <2>1. OthersStay(p) /\ ~Purges(p)
      BY <1>3, HeldStep, LeftStay, NobodyPurges DEF Recorded
    <2>2. QED
      BY <1>1, <1>3, <2>1, StoredStep, SettledStep DEF Recorded
  <1>4. QED
    BY <1>2, <1>3 DEF Next

\* A stack with resources that no state object knows of is being applied, or
\* keeps the lock of a process that was killed.
TrackedOrLocked ==
  \A s \in Stacks : cloud[s] # NoInfra =>
    \/ "exists" \in bucket /\ state[s] # NoState
    \/ \E p \in Procs : Applying(p) /\ At(p, s)
    \/ lock[s] = Leftover

\* As long as nobody runs destroy --purge, whatever a killed process left
\* behind without a state object is behind a lock that was left over: no later
\* command takes the stack for one that was never applied without somebody
\* breaking the lock first.
THEOREM LostIsLocked ==
  ASSUME "purge" \notin Verbs PROVE Spec => []TrackedOrLocked
  <1>1. Recorded => TrackedOrLocked
    BY DEF Recorded, Settled, Saved, Stored, TrackedOrLocked
  <1>2. Recorded /\ [Next]_vars => Recorded'
    BY RecordedNext
  <1>3. QED
    BY <1>1, <1>2, RecordedInit, PTL DEF Spec

\* If no process is killed, no lock is left over.
LEMMA NoLeftover ==
  ASSUME ~Kills, TypeOK, \A s \in Stacks : lock[s] # Leftover, [Next]_vars
  PROVE  \A s \in Stacks : lock'[s] # Leftover
  <1>1. ASSUME UNCHANGED lock PROVE \A s \in Stacks : lock'[s] # Leftover
    BY <1>1
  <1>2. ASSUME NEW p \in Procs, Start(p) \/ Step(p) \/ Failure(p)
        PROVE  \A s \in Stacks : lock'[s] # Leftover
    <2>1. ASSUME Fail(p) \/ PurgeObjects(p) \/ PurgeSomeObjects(p)
          PROVE  \A s \in Stacks : lock'[s] # Leftover
      BY <2>1, NullsOK DEF Fail, PurgeObjects, PurgeSomeObjects, DeleteObjects
    <2>2. ASSUME NEW t \in Stacks,
                 \/ StartPlan(p, t) \/ WritePlan(p, t) \/ StartApply(p, t)
                 \/ ApplyDone(p, t) \/ ApplyFailed(p, t)
          PROVE  \A s \in Stacks : lock'[s] # Leftover
      BY <2>2, NullsOK DEF StartPlan, WritePlan, StartApply, ApplyDone, ApplyFailed,
                           SaveState, TypeOK, AwsOK
    <2>3. ~Kill(p)
      BY DEF Kill
    <2>4. ASSUME \/ Start(p) \/ CheckSecret(p) \/ Prepare(p) \/ Render(p)
                 \/ WritePreview(p) \/ ShowPreview(p) \/ ApproveFirst(p)
                 \/ HeadBucket(p) \/ NetworkApplied(p) \/ AllDone(p) \/ ApprovePlan(p)
                 \/ \E t \in Stacks : Next1(p, t) \/ ShowPlan(p, t) \/ ApplyRefused(p, t)
          PROVE  UNCHANGED lock
      <3>1. UNCHANGED aws
        BY <2>4 DEF Start, CheckSecret, Prepare, Render, WritePreview, ShowPreview,
                    ApproveFirst, HeadBucket, NetworkApplied, AllDone, ApprovePlan, Next1,
                    ShowPlan, ApplyRefused
      <3>2. QED
        BY <3>1 DEF aws
    <2>5. ASSUME \/ CreateSecret(p) \/ CreateBucket(p) \/ PutVersioning(p) \/ BlockPublic(p)
                 \/ ApprovePurge(p) \/ PurgeBucket(p) \/ \E t \in Stacks : ApplySome(p, t)
          PROVE  UNCHANGED lock
      BY <2>5 DEF CreateSecret, CreateBucket, PutVersioning, BlockPublic, ApprovePurge,
                  PurgeBucket, ApplySome
    <2>6. QED
      BY <1>1, <1>2, <2>1, <2>2, <2>3, <2>4, <2>5 DEF Step, StackStep, Failure
  <1>3. CASE UNCHANGED vars \/ EditConfig
    BY <1>1, <1>3 DEF EditConfig, vars, aws
  <1>4. QED
    BY <1>2, <1>3 DEF Next

\* As long as no process is killed and nobody purges, a later destroy finds
\* whatever exists: a stack with resources has a state object, or an apply of
\* it is under way.
THEOREM InfraTracked ==
  ASSUME ~Kills, "purge" \notin Verbs PROVE Spec => []InfraIsTracked
  <1> DEFINE Unlocked1 == \A s \in Stacks : lock[s] # Leftover
  <1>1. Init => Unlocked1
    BY NullsOK DEF Init
  <1>2. TypeOK /\ Unlocked1 /\ [Next]_vars => Unlocked1'
    BY NoLeftover
  <1>3. TrackedOrLocked /\ Unlocked1 => InfraIsTracked
    BY DEF TrackedOrLocked, InfraIsTracked
  <1> HIDE DEF Unlocked1
  <1>4. QED
    BY <1>1, <1>2, <1>3, TypeCorrect, LostIsLocked, PTL DEF Spec

-----------------------------------------------------------------------------
(* One process at a time, destroy --purge included, and nobody killed.       *)

Alone == \A p, q \in Procs : p = q

\* The stacks of a purge are those of the config as it is: it knows of no others.
NothingDropped ==
  "purge" \in Verbs => \A c, d \in Cfgs : StacksOf(c) = StacksOf(d)

Undropped ==
  "purge" \in Verbs =>
    \A s \in Stacks : cloud[s] # NoInfra => \A c \in Cfgs : s \in StacksOf(c)

\* What the command has been through is as it wants it.
Progress(p) ==
  ~Ended(p) =>
    /\ Verb(p) \in Verbs
    /\ todo[p] \subseteq cmd[p].sel /\ cmd[p].sel \subseteq StacksOf(cmd[p].cfg)
    /\ Verb(p) = "purge" => cmd[p].sel = StacksOf(cmd[p].cfg)
    /\ pc[p] = "network_applied" => Verb(p) = "plan"
    /\ Verb(p) # "plan" => \A s \in cmd[p].sel \ todo[p] : cloud[s] = Wanted(p, s)

\* A plan starts from what the stack is, and what is carried out is what the
\* command wants of the stack it is at.
Planning(p) ==
  /\ \A s \in Stacks : At(p, s) =>
       /\ pc[p] = "planning" => work[p].base = cloud[s]
       /\ pc[p] = "show" => planFile[Dir(p)][s].base = cloud[s]
  /\ pc[p] \in {"ask", "apply", "applying"} =>
       At(p, work[p].stack) /\ work[p].want = Wanted(p, work[p].stack)

\* The end of a purge: nothing is left in the cloud, then no secret, then no
\* state; without a bucket there is no state to begin with.
Purging(p) ==
  /\ pc[p] \in PurgeLabels => Verb(p) = "purge" /\ \A s \in Stacks : cloud[s] = NoInfra
  /\ pc[p] \in {"purge_objects", "purge_bucket"} => ~secret
  /\ pc[p] = "purge_bucket" => \A s \in Stacks : state[s] = NoState
  /\ pc[p] \in {"render", "ask_purge"} /\ noState[p] => "exists" \notin bucket
  /\ pc[p] \in Away \cup {"network_applied", "next", "plan"} => ~noState[p]

Orderly ==
  /\ TypeOK
  /\ Stored /\ Undropped
  /\ \A s \in Stacks : Settled(s) /\ lock[s] # Leftover
  /\ \A p \in Procs : PlanTied(p) /\ Progress(p) /\ Planning(p) /\ Purging(p)

LEMMA OrderlyInit == Init => Orderly
  <1> SUFFICES ASSUME Init PROVE Orderly
    OBVIOUS
  <1>1. Stored /\ Undropped /\ \A s \in Stacks : Settled(s) /\ lock[s] # Leftover
    BY NullsOK DEF Init, Stored, Applying, Undropped, Settled, Saved
  <1>2. \A p \in Procs : Progress(p) /\ Planning(p) /\ Purging(p)
    BY DEF Init, Progress, Planning, Purging, PurgeLabels, Away, Ended
  <1>3. QED
    BY <1>1, <1>2, TypeInit, TiedInit DEF Orderly

LEMMA SameCommand ==
  ASSUME NEW p \in Procs, UNCHANGED <<cmd, todo>>
  PROVE  /\ Verb(p)' = Verb(p) /\ Destroying(p)' = Destroying(p)
         /\ \A s : At(p, s)' = At(p, s) /\ Wanted(p, s)' = Wanted(p, s)
  BY DEF Verb, Destroying, At, Wanted

\* With one process that applies nothing, the state is what there is.
LEMMA AloneSaved ==
  ASSUME Alone, Orderly, NEW p \in Procs, ~Applying(p), NEW s \in Stacks
  PROVE  cloud[s] = Saved(s) /\ Refreshed(s) = cloud[s]
  <1>1. \A q \in Procs : ~(Applying(q) /\ At(q, s))
    BY DEF Alone
  <1>2. QED
    BY <1>1, FoundIsSaved DEF Orderly

\* A plan that shows nothing to do finds the stack as it is wanted.
LEMMA EmptyIsDone ==
  ASSUME NEW plan \in PlanFiles, Empty(Summary(plan))
  PROVE  plan.base = plan.want
  <1> DEFINE from == Addresses[plan.base]
             to   == Addresses[plan.want]
  <1>1. plan.base \in Infra /\ plan.want \in Infra
    BY DEF PlanFiles
  <1>2. to \ from = {} /\ from \ to = {}
    BY DEF Empty, Summary
  <1>3. plan.base # plan.want => to \cap from = {}
    BY DEF Empty, Summary
  <1>4. plan.base # plan.want => from = {} /\ to = {}
    BY <1>2, <1>3
  <1>5. QED
    BY <1>1, <1>4, ConstantsOK

-----------------------------------------------------------------------------
LEMMA StayProgress ==
  ASSUME NEW p \in Procs, ~Ended(p), Progress(p), UNCHANGED <<cmd, todo, cloud>>,
         pc'[p] = "network_applied" => Verb(p) = "plan"
  PROVE  Progress(p)'
  <1>1. Verb(p)' = Verb(p) /\ \A s : Wanted(p, s)' = Wanted(p, s)
    BY SameCommand
  <1>2. QED
    BY <1>1 DEF Progress

LEMMA FinishProgress ==
  ASSUME TypeOK, NEW p \in Procs, NEW r \in {"ok", "failed"}, Finish(p, r)
  PROVE  Progress(p)' /\ Planning(p)' /\ Purging(p)'
  <1>1. pc'[p] = r
    BY DEF Finish, Goto, TypeOK
  <1>2. QED
    BY <1>1 DEF Progress, Planning, Purging, Ended, Away, PurgeLabels

LEMMA StackDoneProgress ==
  ASSUME TypeOK, NEW p \in Procs, ~Ended(p), Progress(p), NEW s \in Stacks, StackDone(p, s),
         \A t \in Stacks \ {s} : cloud'[t] = cloud[t],
         Verb(p) # "plan" => cloud'[s] = Wanted(p, s)
  PROVE  Progress(p)'
  <1>1. pc'[p] = "next" /\ todo'[p] = todo[p] \ {s} /\ cmd' = cmd
    BY DEF StackDone, Goto, TypeOK, LocalsOK
  <1>2. Verb(p)' = Verb(p) /\ \A t : Wanted(p, t)' = Wanted(p, t)
    BY <1>1 DEF Verb, Wanted, Destroying
  <1>3. cmd[p].sel \subseteq Stacks
    BY DEF Progress, StacksOf
  <1>4. QED
    BY <1>1, <1>2, <1>3 DEF Progress

LEMMA ProgressStep ==
  ASSUME Alone, ~Kills, Orderly, NEW p \in Procs, Start(p) \/ Step(p) \/ Failure(p)
  PROVE  Progress(p)'
  <1> USE DEF Orderly
  <1>1. ASSUME Start(p) PROVE Progress(p)'
    <2>1. PICK v \in Verbs, sel \in (SUBSET StacksOf(config)) \ {{}} :
            /\ v = "purge" => sel = StacksOf(config)
            /\ cmd'  = [cmd EXCEPT ![p] = [verb |-> v, cfg |-> config, sel |-> sel]]
            /\ todo' = [todo EXCEPT ![p] = sel]
            /\ Goto(p, IF v = "apply" THEN "secret" ELSE "prepare")
      BY <1>1 DEF Start
    <2>2. /\ cmd'[p] = [verb |-> v, cfg |-> config, sel |-> sel] /\ todo'[p] = sel
          /\ pc'[p] \in {"secret", "prepare"}
      BY <2>1 DEF TypeOK, LocalsOK, Goto
    <2>3. QED
      BY <2>1, <2>2 DEF Progress, Verb
  <1>2. ASSUME \/ Fail(p) \/ PurgeSomeObjects(p) \/ PurgeBucket(p)
               \/ \E s \in Stacks : ApplyRefused(p, s) \/ ApplyFailed(p, s)
        PROVE  Progress(p)'
    BY <1>2, FinishProgress DEF Fail, PurgeSomeObjects, PurgeBucket, ApplyRefused, ApplyFailed
  <1>3. ASSUME NEW l, ~Ended(p), Goto(p, l), l # "network_applied", UNCHANGED <<cmd, todo, cloud>>
        PROVE  Progress(p)'
    <2>1. pc'[p] = l
      BY <1>3 DEF Goto, TypeOK
    <2>2. QED
      BY <1>3, <2>1, StayProgress
  <1>4. ASSUME CheckSecret(p) \/ CreateSecret(p) \/ Prepare(p) \/ WritePreview(p)
        PROVE  Progress(p)'
    BY <1>3, <1>4 DEF CheckSecret, CreateSecret, Prepare, WritePreview, Ended, aws, locals
  <1>5. ASSUME Render(p) PROVE Progress(p)'
    <2>1. ~Ended(p) /\ UNCHANGED cloud
      BY <1>5 DEF Render, Ended, aws
    <2>2. \/ \E l \in {"network_applied", "next", "ask_purge", "preview"} :
               Goto(p, l) /\ UNCHANGED locals /\ (l = "network_applied" => Verb(p) = "plan")
          \/ \E r \in {"ok", "failed"} : Finish(p, r)
      BY <1>5 DEF Render
    <2>3. ASSUME Goto(p, "network_applied"), UNCHANGED locals, Verb(p) = "plan"
          PROVE  Progress(p)'
      BY <2>1, <2>3, StayProgress DEF locals
    <2>4. QED
      BY <1>3, <2>1, <2>2, <2>3, FinishProgress DEF locals
  <1>6. ASSUME ShowPreview(p) \/ AllDone(p) \/ ApprovePurge(p) \/ PurgeObjects(p) PROVE Progress(p)'
    BY <1>3, <1>6, FinishProgress
       DEF ShowPreview, AllDone, ApprovePurge, PurgeObjects, Ended, aws, locals
  <1>7. ASSUME ApproveFirst(p) \/ HeadBucket(p) \/ CreateBucket(p) \/ PutVersioning(p)
                 \/ BlockPublic(p) \/ ApprovePlan(p)
        PROVE  Progress(p)'
    BY <1>3, <1>7 DEF ApproveFirst, HeadBucket, CreateBucket, PutVersioning, BlockPublic,
                      ApprovePlan, Ended, aws, locals
  <1>8. ASSUME NetworkApplied(p) PROVE Progress(p)'
    <2>1. /\ ~Ended(p) /\ Verb(p) = "plan" /\ pc'[p] = "next" /\ cmd' = cmd
          /\ todo'[p] \subseteq todo[p]
      BY <1>8 DEF NetworkApplied, Progress, Ended, Goto, TypeOK, LocalsOK
    <2>2. Verb(p)' = Verb(p)
      BY <2>1 DEF Verb
    <2>3. QED
      BY <2>1, <2>2 DEF Progress
  <1>9. ASSUME NEW s \in Stacks, Next1(p, s) PROVE Progress(p)'
    <2>1. ~Ended(p) /\ ~Applying(p) /\ UNCHANGED cloud
      BY <1>9 DEF Next1, Ended, Applying, aws
    <2>2. CASE Destroying(p) /\ state[s] = NoState
      <3>1. cloud[s] = NoInfra
        BY <2>1, <2>2, AloneSaved DEF Saved
      <3>2. StackDone(p, s) /\ Wanted(p, s) = NoInfra
        BY <1>9, <2>2 DEF Next1, Wanted
      <3>3. QED
        BY <2>1, <3>1, <3>2, StackDoneProgress
    <2>3. CASE ~(Destroying(p) /\ state[s] = NoState)
      BY <1>3, <1>9, <2>1, <2>3 DEF Next1, locals
    <2>4. QED
      BY <2>2, <2>3
  <1>10. ASSUME NEW s \in Stacks, StartPlan(p, s) \/ WritePlan(p, s) \/ StartApply(p, s)
         PROVE  Progress(p)'
    BY <1>3, <1>10 DEF StartPlan, WritePlan, StartApply, Ended, aws, locals
  <1>11. ASSUME NEW s \in Stacks, ShowPlan(p, s) PROVE Progress(p)'
    <2> DEFINE plan == planFile[Dir(p)][s]
    <2>1. ~Ended(p) /\ pc[p] = "show" /\ At(p, s) /\ plan # NoPlan /\ UNCHANGED cloud
      BY <1>11 DEF ShowPlan, Ended, aws
    <2>2. plan \in PlanFiles
      BY <2>1, ConstantsOK DEF TypeOK, FilesOK, Dir
    <2>3. plan.base = cloud[s] /\ plan.want = Wanted(p, s)
      BY <2>1 DEF Planning, PlanTied
    <2>4. CASE Verb(p) = "plan" \/ Empty(Summary(plan))
      <3>1. Verb(p) # "plan" => cloud[s] = Wanted(p, s)
        BY <2>2, <2>3, <2>4, EmptyIsDone
      <3>2. StackDone(p, s)
        BY <1>11, <2>4 DEF ShowPlan
      <3>3. QED
        BY <2>1, <3>1, <3>2, StackDoneProgress
    <2>5. CASE ~(Verb(p) = "plan" \/ Empty(Summary(plan)))
      BY <1>3, <1>11, <2>1, <2>5 DEF ShowPlan
    <2>6. QED
      BY <2>4, <2>5
  <1>12. ASSUME NEW s \in Stacks, ApplySome(p, s) PROVE Progress(p)'
    <2>1. /\ ~Ended(p) /\ s \in todo[p] /\ UNCHANGED <<pc, cmd, todo>>
          /\ \A t \in Stacks \ {s} : cloud'[t] = cloud[t]
      BY <1>12 DEF ApplySome, Ended, At, locals, TypeOK, AwsOK
    <2>2. Verb(p)' = Verb(p) /\ \A t : Wanted(p, t)' = Wanted(p, t)
      BY <2>1, SameCommand
    <2>3. cmd[p].sel \subseteq Stacks
      BY <2>1 DEF Progress, StacksOf
    <2>4. QED
      BY <2>1, <2>2, <2>3 DEF Progress
  <1>13. ASSUME NEW s \in Stacks, ApplyDone(p, s) PROVE Progress(p)'
    <2>1. ~Ended(p) /\ pc[p] = "applying" /\ At(p, s) /\ StackDone(p, s)
      BY <1>13 DEF ApplyDone, Ended
    <2>2. work[p].stack = s
      <3>1. work[p].stack \in Stacks /\ At(p, work[p].stack)
        BY <2>1 DEF Planning, TypeOK, LocalsOK, HasPlan, PlanFiles
      <3>2. QED
        BY <2>1, <3>1, AtOne
    <2>3. work[p].want = Wanted(p, s)
      BY <2>1, <2>2 DEF Planning
    <2>4. cloud'[s] = Wanted(p, s) /\ \A t \in Stacks \ {s} : cloud'[t] = cloud[t]
      BY <1>13, <2>3 DEF ApplyDone, TypeOK, AwsOK
    <2>5. QED
      BY <2>1, <2>4, StackDoneProgress
  <1>14. ~Kill(p)
    BY DEF Kill
  <1>15. QED
    BY <1>1, <1>2, <1>4, <1>5, <1>6, <1>7, <1>8, <1>9, <1>10, <1>11, <1>12, <1>13, <1>14
       DEF Step, Failure, StackStep

LEMMA PlanningStep ==
  ASSUME Alone, ~Kills, Orderly, NEW p \in Procs, Start(p) \/ Step(p) \/ Failure(p)
  PROVE  Planning(p)'
  <1> USE DEF Orderly
  <1>1. CASE pc'[p] \notin Away
    BY <1>1 DEF Planning, Away
  <1>2. CASE ApprovePlan(p)
    <2>1. pc[p] = "ask" /\ pc'[p] = "apply" /\ UNCHANGED <<cmd, todo, work>>
      BY <1>2 DEF ApprovePlan, Goto, TypeOK
    <2>2. QED
      BY <2>1, SameCommand DEF Planning
  <1>3. ASSUME NEW s \in Stacks, StartPlan(p, s) PROVE Planning(p)'
    <2>1. /\ pc[p] = "plan" /\ pc'[p] = "planning" /\ At(p, s) /\ work'[p].base = Refreshed(s)
          /\ UNCHANGED <<cmd, todo, cloud>>
      BY <1>3 DEF StartPlan, Goto, TypeOK, LocalsOK
    <2>2. Refreshed(s) = cloud[s]
      BY <2>1, AloneSaved DEF Applying
    <2>3. QED
      BY <2>1, <2>2, SameCommand, AtOne DEF Planning
  <1>4. ASSUME NEW s \in Stacks, WritePlan(p, s) PROVE Planning(p)'
    <2>1. /\ pc[p] = "planning" /\ pc'[p] = "show" /\ At(p, s)
          /\ planFile'[Dir(p)][s] = work[p] /\ Dir(p)' = Dir(p)
          /\ UNCHANGED <<cmd, todo, cloud>>
      BY <1>4, ConstantsOK DEF WritePlan, Goto, TypeOK, FilesOK, Dir, locals
    <2>2. QED
      BY <2>1, SameCommand, AtOne DEF Planning
  <1>5. ASSUME NEW s \in Stacks, ShowPlan(p, s), pc'[p] \in Away PROVE Planning(p)'
    <2>1. ~(Verb(p) = "plan" \/ Empty(Summary(planFile[Dir(p)][s])))
      BY <1>5 DEF ShowPlan, StackDone, Goto, TypeOK, Away
    <2>2. /\ pc[p] = "show" /\ pc'[p] \in {"ask", "apply"} /\ At(p, s)
          /\ work'[p] = planFile[Dir(p)][s] /\ UNCHANGED <<cmd, todo>>
      BY <1>5, <2>1 DEF ShowPlan, Goto, TypeOK, LocalsOK
    <2>3. work'[p].stack = s /\ work'[p].want = Wanted(p, s)
      BY <2>2 DEF PlanTied
    <2>4. QED
      BY <2>2, <2>3, SameCommand DEF Planning
  <1>6. ASSUME NEW s \in Stacks, StartApply(p, s) PROVE Planning(p)'
    <2>1. /\ pc[p] = "apply" /\ pc'[p] = "applying" /\ At(p, s)
          /\ work'[p] = planFile[Dir(p)][s] /\ UNCHANGED <<cmd, todo>>
      BY <1>6 DEF StartApply, Goto, TypeOK, LocalsOK
    <2>2. work'[p] = work[p]
      BY <2>1 DEF PlanTied
    <2>3. QED
      BY <2>1, <2>2, SameCommand DEF Planning
  <1>7. ASSUME NEW s \in Stacks, ApplySome(p, s) PROVE Planning(p)'
    <2>1. pc[p] = "applying" /\ UNCHANGED <<pc, cmd, todo, work>>
      BY <1>7 DEF ApplySome, locals
    <2>2. QED
      BY <2>1, SameCommand DEF Planning
  <1>8. ASSUME NEW s \in Stacks, ApplyDone(p, s) \/ ApplyFailed(p, s) PROVE pc'[p] \notin Away
    BY <1>8 DEF ApplyDone, ApplyFailed, StackDone, Finish, Goto, TypeOK, Away
  <1>9. Purges(p) => pc'[p] \notin Away
    BY DEF Purges, ApprovePurge, PurgeObjects, PurgeSomeObjects, PurgeBucket, Finish, Goto,
           TypeOK, Away
  <1>10. ~Kill(p)
    BY DEF Kill
  <1>11. QED
    BY <1>1, <1>2, <1>3, <1>4, <1>5, <1>6, <1>7, <1>8, <1>9, <1>10, Kinds

\* A step to another label of the loop over the stacks.
LEMMA LoopPurging ==
  ASSUME NEW p \in Procs, Purging(p), UNCHANGED noState,
         pc[p] \in Away \cup {"network_applied", "next", "plan"},
         pc'[p] \in Away \cup {"next", "plan"}
  PROVE  Purging(p)'
  BY DEF Purging, PurgeLabels, Away

LEMMA PurgingStep ==
  ASSUME Alone, ~Kills, Orderly, NEW p \in Procs, Start(p) \/ Step(p) \/ Failure(p)
  PROVE  Purging(p)'
  <1> USE DEF Orderly
  <1>0. ASSUME NEW l, Goto(p, l) PROVE pc'[p] = l
    BY <1>0 DEF Goto, TypeOK
  <1>1. CASE pc'[p] \notin PurgeLabels \cup Away \cup {"render", "network_applied", "next", "plan"}
    BY <1>1 DEF Purging, PurgeLabels
  <1>2. ASSUME \/ Start(p) \/ Fail(p) \/ CheckSecret(p) \/ CreateSecret(p) \/ WritePreview(p)
               \/ ShowPreview(p) \/ ApproveFirst(p) \/ CreateBucket(p) \/ PutVersioning(p)
               \/ PurgeSomeObjects(p) \/ PurgeBucket(p)
               \/ \E s \in Stacks : ApplyRefused(p, s) \/ ApplyFailed(p, s)
        PROVE  Purging(p)'
    BY <1>0, <1>1, <1>2
       DEF Start, Fail, CheckSecret, CreateSecret, WritePreview, ShowPreview, ApproveFirst,
           CreateBucket, PutVersioning, PurgeSomeObjects, PurgeBucket, ApplyRefused,
           ApplyFailed, Finish, PurgeLabels, Away
  <1>3. ASSUME Prepare(p) PROVE Purging(p)'
    <2>1. pc'[p] = "render" /\ (noState'[p] => "exists" \notin bucket) /\ bucket' = bucket
      BY <1>3 DEF Prepare, Goto, TypeOK, LocalsOK, aws
    <2>2. QED
      BY <2>1 DEF Purging, PurgeLabels, Away
  <1>4. ASSUME Render(p) PROVE Purging(p)'
    <2>1. /\ pc[p] = "render" /\ ~Applying(p) /\ UNCHANGED <<bucket, cloud>>
          /\ noState[p] => "exists" \notin bucket
      BY <1>4 DEF Render, Applying, Purging, aws
    <2>2. \/ (\E l \in {"network_applied", "next"} : Goto(p, l)) /\ ~noState[p] /\ UNCHANGED locals
          \/ Goto(p, "ask_purge") /\ noState[p] /\ Verb(p) = "purge" /\ UNCHANGED locals
          \/ Goto(p, "preview")
          \/ \E r \in {"ok", "failed"} : Finish(p, r)
      BY <1>4 DEF Render
    <2>3. CASE Goto(p, "ask_purge") /\ noState[p] /\ Verb(p) = "purge" /\ UNCHANGED locals
      <3>1. \A s \in Stacks : state[s] = NoState
        BY <2>1, <2>3 DEF Stored
      <3>2. \A s \in Stacks : cloud[s] = NoInfra
        BY <2>1, <3>1, AloneSaved DEF Saved
      <3>3. pc'[p] = "ask_purge" /\ Verb(p)' = Verb(p) /\ noState' = noState
        BY <1>0, <2>3 DEF locals, Verb
      <3>4. QED
        BY <2>1, <2>3, <3>2, <3>3 DEF Purging, Away
    <2>4. ASSUME NEW l \in {"network_applied", "next"}, Goto(p, l), ~noState[p], UNCHANGED locals
          PROVE  Purging(p)'
      <3>1. pc'[p] \in {"network_applied", "next"} /\ ~noState'[p]
        BY <1>0, <2>4 DEF locals
      <3>2. QED
        BY <3>1 DEF Purging, PurgeLabels
    <2>5. CASE Goto(p, "preview")
      BY <1>0, <1>1, <2>5 DEF PurgeLabels, Away
    <2>6. QED
      BY <2>2, <2>3, <2>4, <2>5, FinishProgress
  <1>5. ASSUME HeadBucket(p) \/ BlockPublic(p) PROVE Purging(p)'
    <2>1. \/ pc'[p] = "next" /\ ~noState'[p]
          \/ pc'[p] = "create_bucket"
      BY <1>0, <1>5 DEF HeadBucket, BlockPublic, TypeOK, LocalsOK
    <2>2. QED
      BY <1>1, <2>1 DEF Purging, PurgeLabels, Away
  <1>6. ASSUME AllDone(p) PROVE Purging(p)'
    <2>1. CASE Verb(p) = "purge"
      <3>1. /\ pc[p] = "next" /\ pc'[p] = "ask_purge" /\ todo[p] = {}
            /\ UNCHANGED <<cmd, noState, cloud, bucket>>
        BY <1>0, <1>6, <2>1 DEF AllDone, locals, aws
      <3>2. ~noState[p] /\ Verb(p)' = Verb(p)
        BY <3>1 DEF Purging, Verb
      <3>3. \A s \in StacksOf(cmd[p].cfg) : cloud[s] = NoInfra
        BY <2>1, <3>1 DEF Progress, Ended, Wanted, Destroying
      <3>4. "purge" \in Verbs /\ cmd[p].cfg \in Cfgs
        BY <2>1, <3>1 DEF Progress, Ended, TypeOK, LocalsOK, Commands
      <3>5. \A s \in Stacks : cloud[s] = NoInfra
        BY <3>3, <3>4 DEF Undropped
      <3>6. QED
        BY <2>1, <3>1, <3>2, <3>5 DEF Purging, Away
    <2>2. CASE Verb(p) # "purge"
      BY <1>6, <2>2, FinishProgress DEF AllDone
    <2>3. QED
      BY <2>1, <2>2
  <1>7. ASSUME \/ NetworkApplied(p) \/ ApprovePlan(p)
               \/ \E s \in Stacks : WritePlan(p, s) \/ ApplySome(p, s) \/ ApplyDone(p, s)
        PROVE  Purging(p)'
    <2>1. UNCHANGED noState
      BY <1>7 DEF NetworkApplied, ApprovePlan, WritePlan, ApplySome, ApplyDone, StackDone, locals
    <2>2. pc[p] \in Away \cup {"network_applied"} /\ pc'[p] \in Away \cup {"next"}
      BY <1>0, <1>7 DEF NetworkApplied, ApprovePlan, WritePlan, ApplySome, ApplyDone, StackDone,
                        Away, locals
    <2>3. QED
      BY <2>1, <2>2, LoopPurging
  <1>8. ASSUME NEW s \in Stacks, Next1(p, s) \/ StartPlan(p, s) \/ ShowPlan(p, s) \/ StartApply(p, s)
        PROVE  Purging(p)'
    <2>1. UNCHANGED noState
      BY <1>8 DEF Next1, StartPlan, ShowPlan, StartApply, StackDone, locals
    <2>2. pc[p] \in {"next", "plan", "show", "apply"}
          /\ pc'[p] \in Away \cup {"next", "plan"}
      BY <1>0, <1>8 DEF Next1, StartPlan, ShowPlan, StartApply, StackDone, Away
    <2>3. QED
      BY <2>1, <2>2, LoopPurging DEF Away
  <1>9. ASSUME ApprovePurge(p) PROVE Purging(p)'
    <2>1. CASE noState[p]
      BY <1>9, <2>1, FinishProgress DEF ApprovePurge
    <2>2. CASE ~noState[p]
      <3>1. /\ pc[p] = "ask_purge" /\ pc'[p] = "purge_objects" /\ secret' = FALSE
            /\ UNCHANGED <<cmd, cloud>>
        BY <1>0, <1>9, <2>2 DEF ApprovePurge, locals
      <3>2. Verb(p)' = Verb(p)
        BY <3>1 DEF Verb
      <3>3. QED
        BY <3>1, <3>2 DEF Purging, PurgeLabels, Away
    <2>3. QED
      BY <2>1, <2>2
  <1>10. ASSUME PurgeObjects(p) PROVE Purging(p)'
    <2>1. CASE "exists" \in bucket
      <3>1. /\ pc[p] = "purge_objects" /\ pc'[p] = "purge_bucket" /\ UNCHANGED <<cmd, secret, cloud>>
            /\ \A s \in Stacks : state'[s] = NoState
        BY <1>0, <1>10, <2>1 DEF PurgeObjects, DeleteObjects, locals
      <3>2. Verb(p)' = Verb(p)
        BY <3>1 DEF Verb
      <3>3. QED
        BY <3>1, <3>2 DEF Purging, PurgeLabels, Away
    <2>2. CASE "exists" \notin bucket
      BY <1>10, <2>2, FinishProgress DEF PurgeObjects
    <2>3. QED
      BY <2>1, <2>2
  <1>11. ~Kill(p)
    BY DEF Kill
  <1>12. QED
    BY <1>2, <1>3, <1>4, <1>5, <1>6, <1>7, <1>8, <1>9, <1>10, <1>11
       DEF Step, Failure, StackStep

\* What a purge does after the last stack: the stacks are gone already.
LEMMA PurgesStep ==
  ASSUME Alone, Orderly, NEW p \in Procs, Purges(p)
  PROVE  Stored' /\ (\A s \in Stacks : Settled(s))' /\ UNCHANGED cloud
  <1> USE DEF Orderly
  <1>1. pc[p] \in PurgeLabels /\ UNCHANGED cloud /\ ~Applying(p)
    BY DEF Purges, ApprovePurge, PurgeObjects, PurgeSomeObjects, PurgeBucket, PurgeLabels, Applying
  <1>2. ~Applying(p)'
    BY DEF Purges, ApprovePurge, PurgeObjects, PurgeSomeObjects, PurgeBucket, Finish, Goto,
           Applying, TypeOK, locals
  <1>3. \A s \in Stacks : cloud[s] = NoInfra /\ Saved(s) = NoInfra
    BY <1>1, AloneSaved DEF Purging
  <1>4. \A s \in Stacks : state'[s] \in {state[s], NoState}
    BY DEF Purges, ApprovePurge, PurgeObjects, PurgeSomeObjects, PurgeBucket, DeleteObjects
  <1>5. \A s \in Stacks : cloud'[s] = Saved(s)'
    BY <1>1, <1>3, <1>4 DEF Saved
  <1>6. \/ bucket' = bucket
        \/ \A s \in Stacks : state'[s] = NoState
    BY DEF Purges, ApprovePurge, PurgeObjects, PurgeSomeObjects, PurgeBucket
  <1>7. Stored'
    BY <1>2, <1>4, <1>6 DEF Stored, Alone
  <1>8. QED
    BY <1>1, <1>5, <1>7 DEF Settled

LEMMA UndroppedStep ==
  ASSUME Alone, ~Kills, NothingDropped, Orderly, NEW p \in Procs, Start(p) \/ Step(p) \/ Failure(p)
  PROVE  Undropped'
  <1> USE DEF Orderly
  <1>1. CASE UNCHANGED cloud
    BY <1>1 DEF Undropped
  <1>2. ASSUME NEW s \in Stacks, ApplySome(p, s) \/ ApplyDone(p, s) PROVE Undropped'
    <2>1. /\ ~Ended(p) /\ At(p, s) /\ cmd[p] \in Commands
          /\ \A t \in Stacks \ {s} : cloud'[t] = cloud[t]
      BY <1>2 DEF ApplySome, ApplyDone, Ended, TypeOK, AwsOK, LocalsOK
    <2>2. s \in StacksOf(cmd[p].cfg) /\ cmd[p].cfg \in Cfgs
      BY <2>1 DEF Progress, At, Commands
    <2>3. "purge" \in Verbs => \A c \in Cfgs : s \in StacksOf(c)
      BY <2>2 DEF NothingDropped
    <2>4. QED
      BY <2>1, <2>3 DEF Undropped
  <1>3. ASSUME NEW s \in Stacks, StartApply(p, s) \/ ApplyFailed(p, s) PROVE UNCHANGED cloud
    BY <1>3 DEF StartApply, ApplyFailed
  <1>4. Purges(p) => UNCHANGED cloud
    BY PurgesStep
  <1>5. Quiet(p) => UNCHANGED cloud
    BY DEF Quiet
  <1>6. ~Kill(p)
    BY DEF Kill
  <1>7. QED
    BY <1>1, <1>2, <1>3, <1>4, <1>5, <1>6, Kinds, PlanningQuiet

LEMMA OrderlyNext ==
  ASSUME Alone, ~Kills, NothingDropped, Orderly, [Next]_vars
  PROVE  Orderly'
  <1>1. TypeOK' /\ (\A p \in Procs : PlanTied(p))' /\ \A s \in Stacks : lock'[s] # Leftover
    <2>1. Exclusive
      BY DEF Alone, Exclusive
    <2>2. QED
      BY <2>1, TypeNext, TiedNext, NoLeftover DEF Orderly
  <1>2. CASE UNCHANGED vars \/ EditConfig
    <2>1. UNCHANGED <<aws, files, pc, locals>>
      BY <1>2 DEF EditConfig, vars
    <2>2. UNCHANGED <<bucket, secret, cloud, state, lock, planFile, cmd, todo, noState, work>>
      BY <2>1 DEF aws, files, locals
    <2>3. \A p \in Procs : /\ Verb(p)' = Verb(p) /\ Ended(p)' = Ended(p)
                           /\ Applying(p)' = Applying(p) /\ Dir(p)' = Dir(p)
                           /\ \A s : At(p, s)' = At(p, s) /\ Wanted(p, s)' = Wanted(p, s)
      BY <2>1, <2>2, SameCommand DEF Ended, Applying, Dir
    <2>4. Stored' /\ Undropped' /\ (\A s \in Stacks : Settled(s))'
      BY <2>2, <2>3 DEF Orderly, Stored, Undropped, Settled, Saved
    <2>5. ASSUME NEW p \in Procs PROVE Progress(p)' /\ Planning(p)' /\ Purging(p)'
      <3>1. pc'[p] = pc[p] /\ Progress(p) /\ Planning(p) /\ Purging(p)
        BY <2>1 DEF Orderly
      <3>2. Progress(p)'
        BY <2>2, <2>3, <3>1 DEF Progress
      <3>3. Planning(p)'
        BY <2>2, <2>3, <3>1 DEF Planning
      <3>4. Purging(p)'
        BY <2>2, <2>3, <3>1 DEF Purging
      <3>5. QED
        BY <3>2, <3>3, <3>4
    <2>6. QED
      BY <1>1, <2>4, <2>5 DEF Orderly
  <1>3. ASSUME NEW p \in Procs, Start(p) \/ Step(p) \/ Failure(p) PROVE Orderly'
    <2>1. (\A q \in Procs : Progress(q) /\ Planning(q) /\ Purging(q))'
      <3>1. Progress(p)' /\ Planning(p)' /\ Purging(p)'
        BY <1>3, ProgressStep, PlanningStep, PurgingStep
      <3>2. QED
        BY <3>1 DEF Alone
    <2>2. Undropped'
      BY <1>3, UndroppedStep
    <2>3. Stored' /\ (\A s \in Stacks : Settled(s))'
      <3>1. CASE Purges(p)
        BY <3>1, PurgesStep
      <3>2. CASE ~Purges(p)
        <4>1. OthersStay(p) /\ ~Kill(p)
          BY DEF Alone, OthersStay, Kill
        <4>2. QED
          BY <1>3, <3>2, <4>1, StoredStep, SettledStep DEF Orderly
      <3>3. QED
        BY <3>1, <3>2
    <2>4. QED
      BY <1>1, <2>1, <2>2, <2>3 DEF Orderly
  <1>4. QED
    BY <1>2, <1>3 DEF Next

LEMMA OrderlyAlways ==
  ASSUME Alone, ~Kills, NothingDropped PROVE Spec => []Orderly
  <1>1. Orderly /\ [Next]_vars => Orderly'
    BY OrderlyNext
  <1>2. QED
    BY <1>1, OrderlyInit, PTL DEF Spec

\* One process at a time, destroy --purge included: nothing that exists gets
\* out of reach of a later destroy, as long as no edit of the config drops a
\* stack and no process is killed.
THEOREM InfraTrackedAlone ==
  ASSUME Alone, ~Kills, NothingDropped PROVE Spec => []InfraIsTracked
  <1>1. Orderly => InfraIsTracked
    BY DEF Orderly, Settled, Saved, Stored, InfraIsTracked
  <1>2. QED
    BY <1>1, OrderlyAlways, PTL

\* A destroy of the whole deployment gets to the network only when every node
\* stack of the config is gone, whatever failed in the commands before.
THEOREM NetworkLast ==
  ASSUME Alone, ~Kills, NothingDropped PROVE Spec => []NetworkGoesLast
  <1>1. ASSUME Orderly, NEW p \in Procs, Applying(p), work[p].stack = Network, Destroying(p),
               NEW s \in cmd[p].sel \ {Network}
        PROVE  cloud[s] = NoInfra
    <2>1. /\ ~Ended(p) /\ Verb(p) # "plan" /\ At(p, Network)
          /\ Progress(p) /\ todo[p] \subseteq Stacks /\ cmd[p].sel \subseteq Stacks
      BY <1>1 DEF Orderly, Applying, Ended, Destroying, Planning, TypeOK, LocalsOK, Progress,
                  StacksOf
    <2>2. \A t \in todo[p] : t = Network
      BY <1>1, <2>1, ConstantsOK DEF At, Stacks, Network
    <2>3. s \notin todo[p]
      BY <2>2
    <2>4. cloud[s] = Wanted(p, s)
      BY <2>1, <2>3 DEF Progress
    <2>5. QED
      BY <1>1, <2>4 DEF Wanted
  <1>2. Orderly => NetworkGoesLast
    BY <1>1 DEF NetworkGoesLast
  <1>3. QED
    BY <1>2, OrderlyAlways, PTL

\* Which steps end a command with exit status 0.
LEMMA EndsOk ==
  ASSUME Alone, ~Kills, Orderly, NEW p \in Procs, [Next]_vars, pc[p] # "ok", pc'[p] = "ok"
  PROVE  \/ Verb(p) = "plan" /\ ~Ended(p)
         \/ AllDone(p) /\ Verb(p) # "purge"
         \/ ApprovePurge(p) /\ noState[p]
         \/ PurgeObjects(p) /\ "exists" \notin bucket
         \/ PurgeBucket(p)
  <1>1. ~EditConfig /\ ~UNCHANGED vars
    BY DEF EditConfig, vars
  <1>2. Start(p) \/ Step(p) \/ Failure(p)
    BY <1>1 DEF Next, Alone
  <1>3. ASSUME NEW l, Goto(p, l) PROVE l = "ok"
    BY <1>3 DEF Goto, Orderly, TypeOK
  <1>4. ~Start(p)
    BY <1>3 DEF Start
  <1>5. Failure(p) => FALSE
    BY <1>3 DEF Failure, Fail, Kill, PurgeSomeObjects, ApplyRefused, ApplyFailed, Finish
  <1>6. ~CheckSecret(p) /\ ~CreateSecret(p) /\ ~Prepare(p) /\ ~WritePreview(p) /\ ~ApproveFirst(p)
        /\ ~HeadBucket(p) /\ ~CreateBucket(p) /\ ~PutVersioning(p) /\ ~BlockPublic(p)
        /\ ~NetworkApplied(p) /\ ~ApprovePlan(p)
    BY <1>3 DEF CheckSecret, CreateSecret, Prepare, WritePreview, ApproveFirst, HeadBucket,
                CreateBucket, PutVersioning, BlockPublic, NetworkApplied, ApprovePlan
  <1>7. ~\E s \in Stacks : StackStep(p, s)
    <2>1. ASSUME NEW s \in Stacks, StackStep(p, s), ~ApplySome(p, s) PROVE FALSE
      BY <1>3, <2>1 DEF StackStep, Next1, StartPlan, WritePlan, ShowPlan, StartApply, ApplyDone, StackDone
    <2>2. ASSUME NEW s \in Stacks, ApplySome(p, s) PROVE FALSE
      BY <2>2 DEF ApplySome
    <2>3. QED
      BY <2>1, <2>2
  <1>8. Render(p) \/ ShowPreview(p) => Verb(p) = "plan" /\ ~Ended(p)
    BY <1>3 DEF Render, ShowPreview, Finish, Ended
  <1>9. AllDone(p) => Verb(p) # "purge"
    BY <1>3 DEF AllDone
  <1>10. ApprovePurge(p) => noState[p]
    BY <1>3 DEF ApprovePurge
  <1>11. PurgeObjects(p) => "exists" \notin bucket
    BY <1>3 DEF PurgeObjects
  <1>12. QED
    BY <1>2, <1>4, <1>5, <1>6, <1>7, <1>8, <1>9, <1>10, <1>11 DEF Step

\* Exit status 0 of an apply means that the selected stacks are what the config
\* it read asks for; of a destroy, that they are gone; of a purge, that the node
\* secret and the state are gone as well.
THEOREM SuccessIsDone ==
  ASSUME Alone, ~Kills, NothingDropped PROVE Spec => SuccessMeansDone
  <1> DEFINE Done(p) ==
        /\ Verb(p) = "apply" => \A s \in cmd[p].sel : cloud[s] = Want[cmd[p].cfg][s]
        /\ Destroying(p)     => \A s \in cmd[p].sel : cloud[s] = NoInfra
        /\ Verb(p) = "purge" => ~secret' /\ \A s \in Stacks : state[s] = NoState
  <1>1. ASSUME Orderly, [Next]_vars, NEW p \in Procs, pc[p] # "ok", pc'[p] = "ok"
        PROVE  Done(p)
    <2>1. CASE Verb(p) = "plan"
      BY <2>1 DEF Destroying
    <2>2. CASE AllDone(p) /\ Verb(p) # "purge"
      <3>1. ~Ended(p) /\ todo[p] = {} /\ Progress(p)
        BY <1>1, <2>2 DEF AllDone, Ended, Orderly
      <3>2. CASE Verb(p) = "apply"
        BY <3>1, <3>2 DEF Progress, Wanted, Destroying
      <3>3. CASE Verb(p) # "apply"
        BY <2>2, <3>1, <3>3 DEF Progress, Wanted, Destroying
      <3>4. QED
        BY <3>2, <3>3
    <2>3. ASSUME pc[p] \in PurgeLabels, ~secret', \A s \in Stacks : state[s] = NoState
          PROVE  Done(p)
      <3>1. Verb(p) = "purge" /\ \A s \in Stacks : cloud[s] = NoInfra
        BY <1>1, <2>3 DEF Orderly, Purging
      <3>2. cmd[p].sel \subseteq Stacks
        BY <1>1, <2>3 DEF Orderly, Progress, Ended, PurgeLabels, StacksOf
      <3>3. QED
        BY <2>3, <3>1, <3>2
    <2>4. CASE ApprovePurge(p) /\ noState[p]
      <3>1. "exists" \notin bucket
        BY <1>1, <2>4 DEF ApprovePurge, Orderly, Purging
      <3>2. \A s \in Stacks : state[s] = NoState
        BY <1>1, <3>1 DEF Orderly, Stored
      <3>3. QED
        BY <2>3, <2>4, <3>2 DEF ApprovePurge, PurgeLabels
    <2>5. CASE PurgeObjects(p) /\ "exists" \notin bucket
      <3>1. \A s \in Stacks : state[s] = NoState
        BY <1>1, <2>5 DEF Orderly, Stored
      <3>2. QED
        BY <1>1, <2>3, <2>5, <3>1 DEF PurgeObjects, PurgeLabels, Orderly, Purging
    <2>6. CASE PurgeBucket(p)
      BY <1>1, <2>3, <2>6 DEF PurgeBucket, PurgeLabels, Orderly, Purging
    <2> HIDE DEF Done
    <2>7. QED
      BY <1>1, <2>1, <2>2, <2>4, <2>5, <2>6, EndsOk
  <1>2. Orderly /\ [Next]_vars =>
          [\A p \in Procs : pc[p] # "ok" /\ pc'[p] = "ok" => Done(p)]_pc
    BY <1>1
  <1>3. QED
    BY <1>2, OrderlyAlways, PTL DEF Spec, SuccessMeansDone

\* "It runs only after every stack is destroyed" (purgeDeployment) holds as
\* long as no edit of the config drops a stack: a dropped stack is the only way
\* to the counterexample that DeployPurgeDropped finds.
THEOREM PurgedWhenGone ==
  ASSUME Alone, ~Kills, NothingDropped PROVE Spec => PurgedOnlyWhenGone
  <1>1. Orderly /\ [Next]_vars =>
          [\A p \in Procs : pc[p] = "ask_purge" /\ pc'[p] = "purge_objects"
             => \A s \in Stacks : cloud[s] = NoInfra]_vars
    BY DEF Orderly, Purging, PurgeLabels
  <1>2. QED
    BY <1>1, OrderlyAlways, PTL DEF Spec, PurgedOnlyWhenGone

=============================================================================
