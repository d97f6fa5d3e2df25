---------------------------- MODULE CreateProofs ----------------------------
(***************************************************************************)
(* Theorems about ConfigCreate: for VPCs, block sizes and foreign subnets  *)
(* of any number, what is carved fits and what is proposed is valid.       *)
(***************************************************************************)
EXTENDS ConfigCreate, SequenceTheorems, FiniteSetTheorems, TLAPS

\* The address is always a whole number of blocks into the VPC block that is
\* walked.  Without it, a candidate could stick out at the end.
Walk ==
  pc = "carve" /\ blk <= Len(vpc) /\ ~TooSmall =>
    \E k \in Nat : at = vpc[blk].at + k * Size

\* What the later steps of the command may rely on.
Settled ==
  /\ pc \in {"nat", "save"} => Len(got) = Wanted
  /\ pc = "save" => nat # NoNat

CreateInv == TypeOK /\ Walk /\ Settled /\ ProposalFits

-----------------------------------------------------------------------------
(* Numbers and sequences *)

\* The next block of one size still lies in what is a multiple of it.
LEMMA NextMultiple ==
  ASSUME NEW k \in Nat, NEW m \in Nat, NEW n \in Nat \ {0}, k * n < m * n
  PROVE  k * n + n <= m * n
  <1>1. CASE k >= m
    <2>1. PICK d \in Nat : k = m + d
      <3>1. k - m \in Nat /\ k = m + (k - m)
        BY <1>1
      <3>2. QED
        BY <3>1
    <2>2. (m + d) * n = m * n + d * n /\ d * n >= 0
      OBVIOUS
    <2>3. QED
      BY <2>1, <2>2
  <1>2. CASE k + 1 <= m
    <2>1. PICK d \in Nat : m = k + 1 + d
      <3>1. m - (k + 1) \in Nat /\ m = k + 1 + (m - (k + 1))
        BY <1>2
      <3>2. QED
        BY <3>1
    <2>2. (k + 1 + d) * n = k * n + n + d * n /\ d * n >= 0
      OBVIOUS
    <2>3. QED
      BY <2>1, <2>2
  <1>3. QED
    BY <1>1, <1>2

LEMMA SizeIsPositive == TypeOK => Size \in Nat \ {0}
  BY CreateConstants DEF TypeOK, Size

LEMMA BlocksOfVpc ==
  ASSUME TypeOK, NEW i \in 1..Len(vpc)
  PROVE  vpc[i].at \in Nat /\ vpc[i].size \in Nat \ {0}
  <1>1. vpc \in Seq(Block)
    BY CreateConstants DEF TypeOK
  <1>2. vpc[i] \in Block
    BY <1>1, ElementOfSeq
  <1>3. QED
    BY <1>2 DEF Block

LEMMA StartIsNat == TypeOK => \A b \in Nat \ {0} : Start(b) \in Nat
  BY BlocksOfVpc, CreateConstants DEF Start, TypeOK

\* A candidate below the end of the VPC block is inside it.
LEMMA CandidateInBlock ==
  ASSUME TypeOK, Walk, Looking, ~TooSmall, at < End(vpc[blk])
  PROVE  blk \in 1..Len(vpc) /\ vpc[blk].at <= at /\ at + Size <= End(vpc[blk])
  <1>1. blk \in 1..Len(vpc) /\ try \in 1..Len(Sizes) /\ Size \in Nat \ {0}
    BY SizeIsPositive DEF TypeOK, Looking
  <1>2. vpc[blk].at \in Nat /\ vpc[blk].size \in Nat
    BY <1>1, BlocksOfVpc
  <1>3. PICK k \in Nat : at = vpc[blk].at + k * Size
    BY <1>1 DEF Walk, Looking
  <1>4. PICK m \in 1..vpc[blk].size : vpc[blk].size = m * Size
    <2>1. vpc \in Vpcs /\ Sizes[try] = Size
      BY DEF TypeOK, Size
    <2>2. vpc[blk].size >= Sizes[try]
      BY <1>1, <1>2, <2>1 DEF TooSmall
    <2>3. QED
      BY <1>1, <2>1, <2>2, CreateConstants
  <1>5. k * Size < m * Size
    BY <1>1, <1>2, <1>3, <1>4 DEF End
  <1>6. k * Size + Size <= m * Size
    BY <1>1, <1>4, <1>5, NextMultiple
  <1>7. vpc[blk].at <= at /\ at + Size <= End(vpc[blk])
    <2>1. k * Size \in Nat
      BY <1>1
    <2>2. QED
      BY <1>1, <1>2, <1>3, <1>4, <1>6, <2>1 DEF End
  <1>8. QED
    BY <1>1, <1>7

LEMMA CandidateInside ==
  ASSUME TypeOK, Walk, Looking, ~TooSmall, at < End(vpc[blk])
  PROVE  Inside(at, Size)
  BY CandidateInBlock DEF Inside

-----------------------------------------------------------------------------
(* The invariant *)

LEMMA InitCreate == Init => CreateInv
  <1> SUFFICES ASSUME Init PROVE CreateInv
    OBVIOUS
  <1>1. TypeOK
    <2>1. Len(Sizes) \in Nat \ {0} /\ Len(vpc) \in Nat
      BY CreateConstants, EmptySeq, LenProperties DEF Init
    <2>2. QED
      BY <2>1, CreateConstants DEF Init, TypeOK, Running
  <1>2. QED
    BY <1>1 DEF Init, CreateInv, Walk, Settled, ProposalFits

\* Whatever others do to the account or the file, the command has what it has.
LEMMA OutsideStep ==
  ASSUME CreateInv, UNCHANGED <<vpc, pc, read, carving, nat>>,
         subnets' \subseteq Others, main' \in BOOLEAN, file' \in Configs \cup {NoFile}
  PROVE  CreateInv'
  <1>1. TypeOK'
    BY DEF CreateInv, TypeOK, read, carving
  <1>2. Walk' /\ Settled' /\ ProposalFits'
    BY DEF CreateInv, Walk, Settled, ProposalFits, read, carving, TooSmall, Size, Wanted, Inside,
           End, Overlap
  <1>3. QED
    BY <1>1, <1>2 DEF CreateInv

LEMMA OverStep ==
  ASSUME CreateInv, Over, UNCHANGED <<vpc, subnets, main>>, file' \in Configs \cup {NoFile}
  PROVE  CreateInv'
  <1>1. TypeOK'
    <2>1. Len(Sizes) \in Nat \ {0} /\ Len(vpc) \in Nat /\ MaxPools \in Nat
      BY CreateConstants, EmptySeq, LenProperties DEF CreateInv, TypeOK
    <2>2. /\ azs' = <<>> /\ pools' = 0 /\ pools' \in 0..MaxPools /\ pc' = "idle"
          /\ try' = 1 /\ try' \in 1..Len(Sizes) /\ blk' \in 1..(Len(vpc) + 1)
          /\ at' \in Nat /\ got' \in Seq(Nat)
      BY <2>1, EmptySeq DEF Over
    <2>3. seen' = {} /\ public' = {} /\ nat' = NoNat
      BY DEF Over
    <2>4. vpc' \in Vpcs /\ subnets' \subseteq Others /\ main' \in BOOLEAN
      BY DEF CreateInv, TypeOK
    <2>5. vpc' = vpc
      OBVIOUS
    <2>6. QED
      BY <2>2, <2>3, <2>4, <2>5 DEF TypeOK, Running
  <1>2. QED
    BY <1>1 DEF Over, CreateInv, Walk, Settled, ProposalFits

\* FreeCIDRs begins a VPC block with what it has so far, or with nothing.
LEMMA BeginBlock ==
  ASSUME CreateInv, pc' = "carve", UNCHANGED <<vpc, subnets, main, file, azs, pools, nat>>,
         pools # 0, azs \in AzLists,
         seen' \subseteq Others, public' \subseteq seen',
         try' \in 1..Len(Sizes), blk' \in 1..(Len(vpc) + 1), at' = Start(blk'),
         \/ got' = <<>>
         \/ pc = "carve" /\ UNCHANGED <<got, seen, try>>
  PROVE  CreateInv'
  <1> USE DEF CreateInv
  <1>1. TypeOK'
    <2>1. blk' \in Nat \ {0}
      BY DEF TypeOK
    <2>2. at' \in Nat
      BY <2>1, StartIsNat
    <2>3. got' \in Seq(Nat)
      BY EmptySeq DEF TypeOK
    <2>4. /\ vpc' \in Vpcs /\ subnets' \subseteq Others /\ main' \in BOOLEAN
          /\ file' \in Configs \cup {NoFile} /\ azs' \in AzLists
          /\ pools' \in 0..MaxPools /\ pools' # 0 /\ nat' \in Others \cup {NoNat}
          /\ blk' \in 1..(Len(vpc') + 1)
      BY DEF TypeOK
    <2>5. QED
      BY <2>2, <2>3, <2>4 DEF TypeOK, Running
  <1>2. Walk'
    <2> SUFFICES ASSUME blk' <= Len(vpc') PROVE \E k \in Nat : at' = vpc'[blk'].at + k * Size'
      BY DEF Walk
    <2>1. Size' \in Nat /\ vpc'[blk'].at \in Nat
      <3>1. Size' \in Nat \ {0}
        BY CreateConstants, ElementOfSeq DEF Size
      <3>2. blk' \in 1..Len(vpc)
        BY DEF TypeOK
      <3>3. QED
        BY <3>1, <3>2, BlocksOfVpc
    <2>2. at' = vpc'[blk'].at
      BY DEF Start
    <2>3. at' = vpc'[blk'].at + 0 * Size'
      BY <2>1, <2>2
    <2>4. QED
      BY <2>3
  <1>3. Settled'
    BY DEF Settled
  <1>4. ProposalFits'
    <2>1. CASE got' = <<>>
      BY <2>1 DEF ProposalFits
    <2>2. CASE pc = "carve" /\ UNCHANGED <<got, seen, try>>
      BY <2>2 DEF ProposalFits, Size, Inside, End, Overlap
    <2>3. QED
      BY <2>1, <2>2
  <1>5. QED
    BY <1>1, <1>2, <1>3, <1>4

\* An address is tried: the block is taken, or it is not free.
LEMMA TryStep ==
  ASSUME CreateInv, TryAddress
  PROVE  CreateInv'
  <1> USE DEF CreateInv
  <1>1. blk \in 1..Len(vpc) /\ Size \in Nat \ {0} /\ at \in Nat /\ pc = "carve"
    BY SizeIsPositive DEF TryAddress, Looking, TypeOK
  <1>2. TypeOK'
    <2>1. at' \in Nat
      BY <1>1 DEF TryAddress
    <2>2. got' \in Seq(Nat)
      BY <1>1, AppendProperties DEF TryAddress, TypeOK
    <2>3. QED
      BY <2>1, <2>2 DEF TryAddress, TypeOK, read
  <1>3. Walk'
    <2>1. Size' = Size /\ vpc[blk].at \in Nat
      BY <1>1, BlocksOfVpc DEF TryAddress, Size
    <2>2. PICK k \in Nat : at = vpc[blk].at + k * Size
      BY <1>1 DEF Walk, TryAddress
    <2>3. at' = vpc[blk].at + (k + 1) * Size
      <3>1. (k + 1) * Size = k * Size + Size /\ k * Size \in Nat
        BY <1>1
      <3>2. at' = vpc[blk].at + k * Size + Size
        BY <2>2 DEF TryAddress
      <3>3. QED
        BY <1>1, <2>1, <3>1, <3>2
    <2>4. QED
      BY <2>1, <2>3 DEF Walk, TryAddress
  <1>4. Settled'
    BY <1>1 DEF Settled, TryAddress
  <1>5. ProposalFits'
    <2>1. Size' = Size /\ seen' = seen /\ vpc' = vpc
      BY DEF TryAddress, Size, read
    <2>2. CASE Taken(at, Size)
      BY <1>1, <2>1, <2>2 DEF TryAddress, ProposalFits, Inside, End, Overlap
    <2>3. CASE ~Taken(at, Size)
      <3>1. got' = Append(got, at)
        BY <2>3 DEF TryAddress
      <3>2. /\ Len(got') = Len(got) + 1 /\ Len(got) \in Nat
            /\ \A i \in 1..Len(got) : got'[i] = got[i] /\ got[i] \in Nat
            /\ got'[Len(got) + 1] = at
        BY <1>1, <3>1, AppendProperties, LenProperties, ElementOfSeq DEF TypeOK
      <3>3. Inside(at, Size)
        BY CandidateInside DEF TryAddress
      <3>4. ASSUME NEW i \in 1..Len(got')
            PROVE  /\ Inside(got'[i], Size)
                   /\ \A s \in seen : ~Overlap(got'[i], Size, s.at, s.size)
        <4>1. CASE i \in 1..Len(got)
          BY <1>1, <2>1, <3>2, <4>1 DEF ProposalFits
        <4>2. CASE i = Len(got) + 1
          BY <2>3, <3>2, <3>3, <4>2 DEF Taken
        <4>3. QED
          BY <3>2, <4>1, <4>2
      <3>5. ASSUME NEW i \in 1..Len(got'), NEW j \in 1..Len(got'), i # j
            PROVE  ~Overlap(got'[i], Size, got'[j], Size)
        <4>1. CASE i \in 1..Len(got) /\ j \in 1..Len(got)
          BY <1>1, <3>2, <3>5, <4>1 DEF ProposalFits
        <4>2. CASE i = Len(got) + 1 /\ j \in 1..Len(got)
          BY <2>3, <3>2, <4>2 DEF Taken
        <4>3. CASE i \in 1..Len(got) /\ j = Len(got) + 1
          BY <1>1, <2>3, <3>2, <4>3 DEF Taken, Overlap
        <4>4. QED
          BY <3>2, <3>5, <4>1, <4>2, <4>3
      <3>6. \A a, n : Inside(a, n)' <=> Inside(a, n)
        BY <2>1 DEF Inside, End
      <3>7. QED
        BY <2>1, <3>4, <3>5, <3>6 DEF ProposalFits, Inside, End, Overlap
    <2>4. QED
      BY <2>2, <2>3
  <1>6. QED
    BY <1>2, <1>3, <1>4, <1>5

\* What the command writes is a config.
LEMMA ProposalIsConfig ==
  ASSUME CreateInv, pc = "save"
  PROVE  Proposal \in Configs /\ Valid(Proposal)
  <1>1. /\ azs \in Seq(STRING) /\ Len(azs) \in Nat \ {0}
        /\ \A j \in 1..Len(azs) : azs[j] \in STRING
    <2>1. azs \in Seq(STRING) /\ azs # <<>>
      BY CreateConstants DEF CreateInv, TypeOK, Running
    <2>2. QED
      BY <2>1, EmptySeq, ElementOfSeq
  <1>2. got \in Seq(Nat) /\ Len(got) = 2 * Len(azs) /\ Size \in Nat \ {0}
    BY SizeIsPositive DEF CreateInv, TypeOK, Settled, Wanted
  <1>3. \A i \in 1..Len(got) : got[i] \in Nat
    BY <1>2, ElementOfSeq
  <1>4. /\ SubSeq(got, 1, Len(azs)) \in Seq(Nat)
        /\ Len(SubSeq(got, 1, Len(azs))) = Len(azs)
    <2>1. \A i \in 1..Len(azs) : got[i] \in Nat
      BY <1>1, <1>2, <1>3
    <2>2. Len(azs) \in Int /\ 1 \in Int /\ 1 <= Len(azs)
      BY <1>1
    <2>3. QED
      BY <2>1, <2>2, SubSeqProperties
  <1>5. /\ SubSeq(got, Len(azs) + 1, Len(got)) \in Seq(Nat)
        /\ Len(SubSeq(got, Len(azs) + 1, Len(got))) = Len(azs)
    <2>1. \A i \in (Len(azs) + 1)..Len(got) : got[i] \in Nat
      BY <1>1, <1>2, <1>3
    <2>2. Len(azs) + 1 \in Int /\ Len(got) \in Int /\ Len(azs) + 1 <= Len(got)
      BY <1>1, <1>2
    <2>3. Len(SubSeq(got, Len(azs) + 1, Len(got))) = Len(got) - (Len(azs) + 1) + 1
      BY <2>1, <2>2, SubSeqProperties
    <2>4. QED
      BY <1>1, <1>2, <2>1, <2>2, <2>3, SubSeqProperties
  <1>6. pools \in Nat \ {0} /\ \A i \in 1..pools : ((i - 1) % Len(azs)) + 1 \in 1..Len(azs)
    <2>1. pools \in Nat \ {0}
      BY CreateConstants DEF CreateInv, TypeOK, Running
    <2>2. \A a \in Nat, n \in Nat \ {0} : a % n \in 0..(n - 1)
      OBVIOUS
    <2>3. QED
      BY <1>1, <2>1, <2>2
  <1>7. Proposal.pools \in Seq(STRING) /\ Len(Proposal.pools) = pools
    <2>1. [i \in 1..pools |-> azs[((i - 1) % Len(azs)) + 1]] \in [1..pools -> STRING]
      BY <1>1, <1>6
    <2>2. QED
      BY <1>6, <2>1 DEF Proposal
  <1>8. nat \in Others
    BY DEF CreateInv, TypeOK, Settled
  <1>9. Proposal \in Configs
    <2>1. azs \in AzLists
      BY DEF CreateInv, TypeOK, Running
    <2>2. QED
      BY <1>2, <1>4, <1>5, <1>7, <1>8, <2>1 DEF Proposal, Configs
  <1>10. Valid(Proposal)
    <2>1. azs # <<>> /\ nat # NoNat
      BY <1>1, EmptySeq, <1>8, CreateConstants
    <2>2. Proposal.pools # <<>>
      BY <1>6, <1>7, EmptySeq
    <2>3. ASSUME NEW i \in 1..Len(Proposal.pools)
          PROVE  \E j \in 1..Len(azs) : Proposal.pools[i] = azs[j]
      BY <1>6, <1>7, <2>3 DEF Proposal
    <2>4. /\ Proposal.azs = azs /\ Proposal.nat = nat
          /\ Proposal.mgmt = SubSeq(got, 1, Len(azs))
          /\ Proposal.storage = SubSeq(got, Len(azs) + 1, Len(got))
      BY DEF Proposal
    <2>5. QED
      BY <1>4, <1>5, <2>1, <2>2, <2>3, <2>4 DEF Valid
  <1>11. QED
    BY <1>9, <1>10

-----------------------------------------------------------------------------
(* The theorems *)

LEMMA NextCreate == CreateInv /\ [Next]_vars => CreateInv'
  <1> SUFFICES ASSUME CreateInv, [Next]_vars PROVE CreateInv'
    OBVIOUS
  <1> USE DEF CreateInv
  <1>1. ASSUME NEW force \in BOOLEAN, Create(force) PROVE CreateInv'
    BY <1>1 DEF Create, TypeOK, Running, Walk, Settled, ProposalFits, read, carving
  <1>2. CASE SizeWorkload
    BY <1>2, CreateConstants
      DEF SizeWorkload, TypeOK, Running, Walk, Settled, ProposalFits, carving
  <1>3. CASE SettleAzs
    BY <1>3 DEF SettleAzs, TypeOK, Running, Walk, Settled, ProposalFits, carving
  <1>4. CASE DescribeSubnets
    BY <1>4 DEF DescribeSubnets, TypeOK, Running, Walk, Settled, ProposalFits, carving
  <1>5. CASE DescribeRouteTables
    <2>1. 1 \in 1..Len(Sizes) /\ 1 \in 1..(Len(vpc) + 1)
      BY DEF TypeOK
    <2>2. pools # 0 /\ azs \in AzLists
      BY <1>5 DEF DescribeRouteTables, TypeOK, Running
    <2>3. QED
      BY <1>5, <2>1, <2>2, BeginBlock DEF DescribeRouteTables, TypeOK
  <1>6. CASE NextBlock
    <2>1. blk + 1 \in 1..(Len(vpc) + 1)
      BY <1>6 DEF NextBlock, Looking, TypeOK
    <2>2. pools # 0 /\ azs \in AzLists /\ pc = "carve"
      BY <1>6 DEF NextBlock, Looking, TypeOK, Running
    <2>3. QED
      BY <1>6, <2>1, <2>2, BeginBlock DEF NextBlock, TypeOK, read
  <1>7. CASE TryAddress
    BY <1>7, TryStep
  <1>8. CASE Shrink
    <2>1. try + 1 \in 1..Len(Sizes) /\ 1 \in 1..(Len(vpc) + 1)
      BY <1>8 DEF Shrink, TypeOK
    <2>2. pools # 0 /\ azs \in AzLists /\ pc = "carve"
      BY <1>8 DEF Shrink, Exhausted, TypeOK, Running
    <2>3. QED
      BY <1>8, <2>1, <2>2, BeginBlock DEF Shrink, TypeOK, read
  <1>9. CASE NoRoom
    BY <1>9, OverStep DEF NoRoom, TypeOK
  <1>10. CASE Carved
    <2>1. TypeOK' /\ Walk' /\ Settled'
      BY <1>10 DEF Carved, TypeOK, Running, Walk, Settled, Wanted, read, carving
    <2>2. ProposalFits'
      BY <1>10 DEF Carved, ProposalFits, Size, Inside, End, Overlap, read, carving
    <2>3. QED
      BY <2>1, <2>2
  <1>11. ASSUME NEW given \in BOOLEAN, ChooseNat(given) PROVE CreateInv'
    <2>1. nat' \in Others
      BY <1>11 DEF ChooseNat, NatChoices, InFirstAz, TypeOK
    <2>2. TypeOK' /\ Walk'
      BY <1>11, <2>1 DEF ChooseNat, TypeOK, Running, Walk, read, carving
    <2>3. Settled'
      BY <1>11, <2>1, CreateConstants DEF ChooseNat, Settled, Wanted, read, carving
    <2>4. ProposalFits'
      BY <1>11 DEF ChooseNat, ProposalFits, Size, Inside, End, Overlap, read, carving
    <2>5. QED
      BY <2>2, <2>3, <2>4
  <1>12. CASE NoPublicSubnet
    BY <1>12, OverStep DEF NoPublicSubnet, TypeOK
  <1>13. CASE Save
    <2>1. file' \in Configs \cup {NoFile}
      BY <1>13, ProposalIsConfig DEF Save, TypeOK
    <2>2. QED
      BY <1>13, <2>1, OverStep DEF Save
  <1>14. CASE Fail
    BY <1>14, OverStep DEF Fail, TypeOK
  <1>15. CASE Delete
    BY <1>15, OutsideStep DEF Delete, TypeOK
  <1>16. ASSUME NEW s \in Others, AddSubnet(s) \/ RemoveSubnet(s) PROVE CreateInv'
    <2>1. subnets' \subseteq Others
      BY <1>16 DEF AddSubnet, RemoveSubnet, TypeOK
    <2>2. QED
      BY <1>16, <2>1, OutsideStep DEF AddSubnet, RemoveSubnet, TypeOK
  <1>17. CASE ChangeMainTable
    BY <1>17, OutsideStep DEF ChangeMainTable, TypeOK
  <1>18. CASE UNCHANGED vars
    BY <1>18, OutsideStep DEF vars, TypeOK
  <1>19. QED
    BY <1>1, <1>2, <1>3, <1>4, <1>5, <1>6, <1>7, <1>8, <1>9, <1>10, <1>11, <1>12,
       <1>13, <1>14, <1>15, <1>16, <1>17, <1>18 DEF Next, Step

\* Every variable has its type, whatever the VPC looks like and whoever changes
\* it; in particular what is in the file is a whole config.
THEOREM CreateTypeCorrect == Spec => []TypeOK
  <1>1. CreateInv => TypeOK
    BY DEF CreateInv
  <1>2. QED
    BY <1>1, InitCreate, NextCreate, PTL DEF Spec

\* FreeCIDRs: what it has carved lies in the VPC, apart from each other and from
\* every subnet read, for any VPC, any block sizes and any number of subnets.
THEOREM CarvedFits == Spec => []ProposalFits
  <1>1. CreateInv => ProposalFits
    BY DEF CreateInv
  <1>2. QED
    BY <1>1, InitCreate, NextCreate, PTL DEF Spec

\* What config create proposes passes Validate, for any AZs and pools.
THEOREM ProposedIsValid == Spec => []ProposalIsValid
  <1>1. CreateInv => ProposalIsValid
    BY ProposalIsConfig DEF ProposalIsValid
  <1>2. QED
    BY <1>1, InitCreate, NextCreate, PTL DEF Spec

-----------------------------------------------------------------------------
(* The search: it finds all that is free of a size before it tries the next. *)

\* A whole number of blocks.
LEMMA WholeBlocks ==
  ASSUME NEW x \in Nat, NEW n \in Nat \ {0}
  PROVE  x % n = 0 <=> \E k \in Nat : x = k * n
  <1>1. ASSUME x % n = 0 PROVE x = (x \div n) * n /\ x \div n \in Nat
    BY <1>1
  <1>2. ASSUME NEW k \in Nat, x = k * n PROVE x % n = 0
    BY <1>2
  <1>3. QED
    BY <1>1, <1>2

\* The block of size n at a lies in block i of the VPC, as FreeCIDRs would walk it.
Aligned(a, n, i) == a >= vpc[i].at /\ a + n <= End(vpc[i]) /\ (a - vpc[i].at) % n = 0

\* FreeCIDRs has been at a.
Passed(a) == \E i \in 1..Len(vpc) : Aligned(a, Size, i) /\ (i < blk \/ (i = blk /\ a < at))

\* What is free, said with the walk's own words; and there is no end of it only
\* if there is none of the VPC.
LEMMA FreeMeans ==
  ASSUME TypeOK, NEW n \in Nat \ {0}
  PROVE  /\ \A a : a \in Free(n) <=>
              /\ a \in Nat /\ \E i \in 1..Len(vpc) : Aligned(a, n, i)
              /\ \A s \in seen : ~Overlap(a, n, s.at, s.size)
         /\ IsFiniteSet(Free(n))
  <1> DEFINE Addresses(i) == vpc[i].at..End(vpc[i])
             All == UNION {Addresses(i) : i \in 1..Len(vpc)}
  <1>0. Len(vpc) \in Nat
    BY CreateConstants, LenProperties DEF TypeOK
  <1>1. \A i \in 1..Len(vpc) : vpc[i].at \in Nat /\ vpc[i].size \in Nat /\ End(vpc[i]) \in Nat
    BY BlocksOfVpc DEF End
  <1>2. ASSUME NEW a, NEW i \in 1..Len(vpc), a \in Nat, Aligned(a, n, i) PROVE a \in Addresses(i)
    BY <1>1, <1>2 DEF Aligned
  <1>3. \A a \in All : a \in Nat
    BY <1>1
  <1>4. \A a : a \in Free(n) <=>
          /\ a \in All /\ \E i \in 1..Len(vpc) : Aligned(a, n, i)
          /\ \A s \in seen : ~Overlap(a, n, s.at, s.size)
    BY DEF Free, Aligned
  <1>5. IsFiniteSet(All)
    <2> DEFINE f == [i \in 1..Len(vpc) |-> Addresses(i)]
               Parts == {Addresses(i) : i \in 1..Len(vpc)}
    <2>1. IsFiniteSet(1..Len(vpc))
      BY <1>0, FS_Interval
    <2>2. f \in Surjection(1..Len(vpc), Parts)
      BY DEF Surjection
    <2>3. IsFiniteSet(Parts)
      BY <2>1, <2>2, FS_Surjection
    <2>4. \A T \in Parts : IsFiniteSet(T)
      <3>1. ASSUME NEW i \in 1..Len(vpc) PROVE IsFiniteSet(Addresses(i))
        <4>1. vpc[i].at \in Int /\ End(vpc[i]) \in Int
          BY <1>1
        <4>2. QED
          BY <4>1, FS_Interval
      <3>2. QED
        BY <3>1
    <2>5. QED
      BY <2>3, <2>4, FS_UNION
  <1>6. Free(n) \subseteq All
    BY <1>4
  <1>7. IsFiniteSet(Free(n))
    BY <1>5, <1>6, FS_Subset
  <1>8. QED
    BY <1>2, <1>3, <1>4, <1>7

\* What is carved is exactly what is free of all that FreeCIDRs has been at.
Exact ==
  pc = "carve" => \A a : (\E i \in 1..Len(got) : got[i] = a) <=> a \in Free(Size) /\ Passed(a)

\* The larger sizes have been tried in vain.
Tried == pc = "carve" => \A t \in 1..(try - 1) : ~RoomWith(t)

SearchInv == CreateInv /\ Exact /\ Tried

\* Blocks that lie in blocks which are apart are apart.
LEMMA ApartInside ==
  ASSUME NEW a \in Nat, NEW b \in Nat, NEW n \in Nat,
         NEW p \in Nat, NEW q \in Nat, NEW u \in Nat, NEW v \in Nat,
         p <= a, a + n <= p + q, u <= b, b + n <= u + v,
         u + v <= p \/ p + q <= u
  PROVE  ~Overlap(a, n, b, n)
  BY DEF Overlap

\* An address is tried and is free if no subnet is there: what is carved already
\* lies below it, or in another block of the VPC.
LEMMA OnlySubnetsBlock ==
  ASSUME SearchInv, Looking, ~TooSmall, at < End(vpc[blk])
  PROVE  Taken(at, Size) <=> \E s \in seen : Overlap(at, Size, s.at, s.size)
  <1> USE DEF SearchInv, CreateInv
  <1>1. /\ blk \in 1..Len(vpc) /\ vpc[blk].at <= at /\ at + Size <= End(vpc[blk])
        /\ vpc[blk].at \in Nat /\ vpc[blk].size \in Nat /\ Size \in Nat \ {0} /\ at \in Nat
    BY CandidateInBlock, BlocksOfVpc, SizeIsPositive DEF TypeOK
  <1>2. PICK k \in Nat : at = vpc[blk].at + k * Size
    BY <1>1 DEF Walk, Looking
  <1>3. ASSUME NEW j \in 1..Len(got) PROVE ~Overlap(at, Size, got[j], Size)
    <2>1. got[j] \in Free(Size) /\ Passed(got[j])
      BY DEF Exact, Looking
    <2>2. PICK i \in 1..Len(vpc) : Aligned(got[j], Size, i) /\ (i < blk \/ (i = blk /\ got[j] < at))
      BY <2>1 DEF Passed
    <2>3. vpc[i].at \in Nat /\ vpc[i].size \in Nat /\ got[j] \in Nat
      BY <1>1, <2>1, BlocksOfVpc, FreeMeans
    <2>4. CASE i < blk
      <3>1. vpc[i].at + vpc[i].size <= vpc[blk].at \/ vpc[blk].at + vpc[blk].size <= vpc[i].at
        <4>1. i # blk /\ vpc \in Vpcs
          BY <1>1, <2>4 DEF TypeOK
        <4>2. QED
          BY <1>1, <4>1, CreateConstants
      <3>2. vpc[i].at <= got[j] /\ got[j] + Size <= vpc[i].at + vpc[i].size
        BY <2>2 DEF Aligned, End
      <3>3. QED
        <4>1. vpc[blk].at <= at /\ at + Size <= vpc[blk].at + vpc[blk].size
          BY <1>1 DEF End
        <4>2. QED
          BY <1>1, <2>3, <3>1, <3>2, <4>1, ApartInside
    <2>5. CASE i = blk /\ got[j] < at
      <3>1. got[j] - vpc[blk].at \in Nat /\ (got[j] - vpc[blk].at) % Size = 0
        BY <1>1, <2>2, <2>3, <2>5 DEF Aligned
      <3>2. PICK m \in Nat : got[j] - vpc[blk].at = m * Size
        BY <1>1, <3>1, WholeBlocks
      <3>3. m * Size < k * Size
        BY <1>1, <1>2, <2>3, <2>5, <3>2
      <3>4. m * Size + Size <= k * Size
        BY <1>1, <3>3, NextMultiple
      <3>5. m * Size \in Nat /\ k * Size \in Nat
        BY <1>1
      <3>6. got[j] + Size <= at
        <4>1. PICK x \in Nat, y \in Nat : x = m * Size /\ y = k * Size
          BY <3>5
        <4>2. got[j] - vpc[blk].at = x /\ at = vpc[blk].at + y /\ x + Size <= y
          BY <1>2, <3>2, <3>4, <4>1
        <4>3. QED
          BY <1>1, <2>3, <4>2
      <3>7. QED
        BY <1>1, <2>3, <3>6 DEF Overlap
    <2>6. QED
      BY <2>2, <2>4, <2>5
  <1>4. QED
    BY <1>3 DEF Taken

\* Trying an address is being at it and no further.
LEMMA TryPasses ==
  ASSUME SearchInv, TryAddress, NEW a
  PROVE  Passed(a)' /\ a \in Nat <=> (Passed(a) /\ a \in Nat) \/ a = at
  <1> USE DEF SearchInv, CreateInv
  <1>1. /\ blk \in 1..Len(vpc) /\ vpc[blk].at <= at /\ at + Size <= End(vpc[blk])
        /\ vpc[blk].at \in Nat /\ Size \in Nat \ {0} /\ at \in Nat
    BY CandidateInBlock, BlocksOfVpc, SizeIsPositive DEF TypeOK, TryAddress
  <1>2. PICK k \in Nat : at = vpc[blk].at + k * Size
    BY <1>1 DEF Walk, TryAddress, Looking
  <1>3. vpc' = vpc /\ Size' = Size /\ blk' = blk /\ at' = at + Size /\ \A b, i : Aligned(b, Size, i)' <=> Aligned(b, Size, i)
    BY DEF TryAddress, Size, Aligned, End
  <1>4. Aligned(at, Size, blk)
    <2>1. (at - vpc[blk].at) \in Nat /\ at - vpc[blk].at = k * Size
      BY <1>1, <1>2
    <2>2. QED
      BY <1>1, <2>1, WholeBlocks DEF Aligned
  <1>5. ASSUME a \in Nat, Aligned(a, Size, blk), at <= a, a < at + Size PROVE a = at
    <2>1. a - vpc[blk].at \in Nat /\ (a - vpc[blk].at) % Size = 0
      BY <1>1, <1>5 DEF Aligned
    <2>2. PICK m \in Nat : a - vpc[blk].at = m * Size
      BY <1>1, <2>1, WholeBlocks
    <2>3. m * Size \in Nat /\ k * Size \in Nat
      BY <1>1
    <2>4. k * Size <= m * Size /\ m * Size < k * Size + Size
      BY <1>1, <1>2, <1>5, <2>2, <2>3
    <2>5. ~(k * Size < m * Size)
      <3>1. k * Size < m * Size => k * Size + Size <= m * Size
        BY <1>1, NextMultiple
      <3>2. QED
        BY <1>1, <2>3, <2>4, <3>1
    <2>6. QED
      BY <1>1, <1>2, <1>5, <2>2, <2>3, <2>4, <2>5
  <1>6. ASSUME a \in Nat, Passed(a)' PROVE Passed(a) \/ a = at
    <2>1. PICK i \in 1..Len(vpc) : Aligned(a, Size, i) /\ (i < blk \/ (i = blk /\ a < at + Size))
      BY <1>3, <1>6 DEF Passed
    <2>2. CASE i < blk
      BY <2>1, <2>2 DEF Passed
    <2>3. CASE i = blk /\ a < at
      BY <2>1, <2>3 DEF Passed
    <2>4. CASE i = blk /\ ~(a < at)
      BY <1>1, <1>5, <1>6, <2>1, <2>4
    <2>5. QED
      BY <2>1, <2>2, <2>3, <2>4
  <1>7. ASSUME a \in Nat, Passed(a) PROVE Passed(a)'
    <2>1. PICK i \in 1..Len(vpc) : Aligned(a, Size, i) /\ (i < blk \/ (i = blk /\ a < at))
      BY <1>7 DEF Passed
    <2>2. a < at => a < at + Size
      BY <1>1, <1>7
    <2>3. QED
      BY <1>3, <2>1, <2>2 DEF Passed
  <1>8. ASSUME a = at PROVE Passed(a)'
    BY <1>1, <1>3, <1>4, <1>8 DEF Passed
  <1>9. QED
    BY <1>1, <1>6, <1>7, <1>8

\* What is free depends on the VPC and on the subnets read, and on nothing else.
LEMMA SameRoom ==
  ASSUME UNCHANGED <<vpc, seen, azs>>
  PROVE  (\A n : Free(n)' = Free(n)) /\ (\A t : RoomWith(t)' = RoomWith(t))
  BY DEF Free, RoomWith, Wanted, End, Overlap

LEMMA TryKeepsExact ==
  ASSUME SearchInv, TryAddress
  PROVE  Exact'
  <1> USE DEF SearchInv, CreateInv
  <1>1. Looking /\ ~TooSmall /\ at < End(vpc[blk]) /\ Size' = Size /\ UNCHANGED <<vpc, seen, azs>> /\ pc = "carve"
    BY DEF TryAddress, Looking, Size, read
  <1>2. \A n : Free(n)' = Free(n)
    BY <1>1, SameRoom
  <1>3. Size \in Nat \ {0} /\ at \in Nat /\ got \in Seq(Nat)
    BY SizeIsPositive DEF TypeOK
  <1>4. \A a : a \in Free(Size) => a \in Nat
    BY <1>3, FreeMeans
  <1>5. \A a : a \in Free(Size) /\ Passed(a)' <=> a \in Free(Size) /\ (Passed(a) \/ a = at)
    BY <1>3, <1>4, TryPasses
  <1>6. at \in Free(Size) <=> ~Taken(at, Size)
    <2>1. Aligned(at, Size, blk) /\ blk \in 1..Len(vpc)
      <3>1. /\ blk \in 1..Len(vpc) /\ vpc[blk].at <= at /\ at + Size <= End(vpc[blk]) /\ vpc[blk].at \in Nat
        BY <1>1, CandidateInBlock, BlocksOfVpc
      <3>2. PICK k \in Nat : at = vpc[blk].at + k * Size
        BY <1>1, <3>1 DEF Walk, Looking
      <3>3. at - vpc[blk].at \in Nat /\ at - vpc[blk].at = k * Size
        BY <1>3, <3>1, <3>2
      <3>4. QED
        BY <1>3, <3>1, <3>3, WholeBlocks DEF Aligned
    <2>2. Taken(at, Size) <=> \E s \in seen : Overlap(at, Size, s.at, s.size)
      BY <1>1, OnlySubnetsBlock
    <2>3. QED
      BY <1>3, <2>1, <2>2, FreeMeans
  <1>7. \A a : (\E i \in 1..Len(got) : got[i] = a) <=> a \in Free(Size) /\ Passed(a)
    BY <1>1 DEF Exact
  <1>8. CASE Taken(at, Size)
    <2>1. got' = got
      BY <1>8 DEF TryAddress
    <2>2. QED
      BY <1>1, <1>2, <1>5, <1>6, <1>7, <1>8, <2>1 DEF Exact
  <1>9. CASE ~Taken(at, Size)
    <2>1. got' = Append(got, at)
      BY <1>9 DEF TryAddress
    <2>2. /\ Len(got') = Len(got) + 1 /\ Len(got) \in Nat
          /\ \A i \in 1..Len(got) : got'[i] = got[i]
          /\ got'[Len(got) + 1] = at
      BY <1>3, <2>1, AppendProperties, LenProperties
    <2>3. \A a : (\E i \in 1..Len(got') : got'[i] = a) <=> (\E i \in 1..Len(got) : got[i] = a) \/ a = at
      BY <2>2
    <2>4. QED
      BY <1>1, <1>2, <1>5, <1>6, <1>7, <1>9, <2>3 DEF Exact
  <1>10. QED
    BY <1>8, <1>9

\* At the end of a block, or if it is too small, nothing of it is left.
LEMMA NextBlockKeepsExact ==
  ASSUME SearchInv, NextBlock
  PROVE  Exact'
  <1> USE DEF SearchInv, CreateInv
  <1>1. /\ pc = "carve" /\ blk \in 1..Len(vpc) /\ (TooSmall \/ at >= End(vpc[blk]))
        /\ blk' = blk + 1 /\ at' = Start(blk + 1) /\ Size' = Size /\ UNCHANGED <<vpc, seen, azs, got>>
    BY DEF NextBlock, Looking, Size, read, TypeOK
  <1>2. \A n : Free(n)' = Free(n)
    BY <1>1, SameRoom
  <1>3. Size \in Nat \ {0} /\ at \in Nat
    BY SizeIsPositive DEF TypeOK
  <1>4. \A i \in 1..Len(vpc) : vpc[i].at \in Nat /\ vpc[i].size \in Nat
    BY BlocksOfVpc
  <1>5. ASSUME NEW a \in Nat PROVE Passed(a)' <=> Passed(a)
    <2>1. \A i \in 1..Len(vpc) : Aligned(a, Size, i)' <=> Aligned(a, Size, i)
      BY <1>1 DEF Aligned, End
    <2>2. ASSUME Aligned(a, Size, blk) PROVE a < at
      <3>1. vpc[blk].at <= a /\ a + Size <= vpc[blk].at + vpc[blk].size
        BY <2>2 DEF Aligned, End
      <3>2. vpc[blk].size >= Size
        BY <1>1, <1>3, <1>4, <3>1
      <3>3. at >= vpc[blk].at + vpc[blk].size
        BY <1>1, <1>3, <1>4, <3>2 DEF TooSmall, End
      <3>4. QED
        BY <1>1, <1>3, <1>4, <3>1, <3>3
    <2>3. ASSUME NEW i \in 1..Len(vpc), i = blk + 1, Aligned(a, Size, i) PROVE ~(a < at')
      BY <1>1, <1>4, <2>3 DEF Aligned, Start
    <2>4. \A i \in 1..Len(vpc) : i < blk + 1 <=> i < blk \/ i = blk
      BY <1>1
    <2>5. QED
      BY <1>1, <2>1, <2>2, <2>3, <2>4 DEF Passed
  <1>6. \A a : a \in Free(Size) => a \in Nat
    BY <1>3, FreeMeans
  <1>7. QED
    BY <1>1, <1>2, <1>5, <1>6 DEF Exact

\* A search from the start has been nowhere.
LEMMA StartIsExact ==
  ASSUME CreateInv, try' \in 1..Len(Sizes), UNCHANGED <<vpc, seen, azs>>,
         blk' = 1, at' = Start(1), got' = <<>>
  PROVE  Exact'
  <1>1. \A a \in Nat : ~Passed(a)'
    <2>1. ASSUME NEW a \in Nat, NEW i \in 1..Len(vpc), Aligned(a, Size, i)', i < 1 \/ (i = 1 /\ a < Start(1)) PROVE FALSE
      <3>1. i = 1 /\ a < vpc[1].at /\ a >= vpc[1].at
        BY <2>1 DEF Start, Aligned
      <3>2. vpc[1].at \in Nat
        BY <3>1, BlocksOfVpc DEF CreateInv
      <3>3. QED
        BY <3>1, <3>2
    <2>2. QED
      BY <2>1 DEF Passed
  <1>2. \A a : a \in Free(Size') => a \in Nat
    <2>1. Size' \in Nat \ {0}
      BY CreateConstants, ElementOfSeq DEF Size
    <2>2. QED
      BY <2>1, FreeMeans DEF CreateInv
  <1>3. Free(Size)' = Free(Size')
    BY DEF Free, End, Overlap
  <1>4. QED
    BY <1>1, <1>2, <1>3 DEF Exact

\* As many blocks are carved as there is room for, or fewer, and with the whole
\* VPC passed it is all there is.
LEMMA CarvedIsRoom ==
  ASSUME SearchInv, pc = "carve"
  PROVE  /\ Len(got) <= Cardinality(Free(Size))
         /\ blk > Len(vpc) => Cardinality(Free(Size)) <= Len(got)
         /\ Len(got) \in Nat /\ Cardinality(Free(Size)) \in Nat
  <1> USE DEF SearchInv, CreateInv
  <1>1. /\ Size \in Nat \ {0} /\ got \in Seq(Nat) /\ Len(got) \in Nat
        /\ \A i \in 1..Len(got) : got[i] \in Nat
    BY SizeIsPositive, LenProperties, ElementOfSeq DEF TypeOK
  <1>2. IsFiniteSet(Free(Size)) /\ Cardinality(Free(Size)) \in Nat
    BY <1>1, FreeMeans, FS_CardinalityType
  <1>3. IsFiniteSet(1..Len(got)) /\ Cardinality(1..Len(got)) = Len(got)
    BY <1>1, FS_Interval
  <1>4. \A a : (\E i \in 1..Len(got) : got[i] = a) <=> a \in Free(Size) /\ Passed(a)
    BY DEF Exact
  <1>5. got \in [1..Len(got) -> Free(Size)]
    <2>1. got = [i \in 1..Len(got) |-> got[i]]
      BY <1>1
    <2>2. \A i \in 1..Len(got) : got[i] \in Free(Size)
      BY <1>4
    <2>3. QED
      BY <2>1, <2>2
  <1>6. \A i, j \in 1..Len(got) : got[i] = got[j] => i = j
    <2>1. ASSUME NEW i \in 1..Len(got), NEW j \in 1..Len(got), i # j PROVE got[i] # got[j]
      <3>1. ~Overlap(got[i], Size, got[j], Size)
        BY <2>1 DEF ProposalFits
      <3>2. QED
        BY <1>1, <3>1 DEF Overlap
    <2>2. QED
      BY <2>1
  <1>7. Len(got) <= Cardinality(Free(Size))
    <2>1. got \in Injection(1..Len(got), Free(Size))
      BY <1>5, <1>6 DEF Injection, IsInjective
    <2>2. QED
      BY <1>2, <1>3, <2>1, FS_Injection
  <1>8. ASSUME blk > Len(vpc) PROVE Cardinality(Free(Size)) <= Len(got)
    <2>1. \A a \in Free(Size) : Passed(a)
      <3>1. blk \in Nat /\ Len(vpc) \in Nat
        BY CreateConstants, LenProperties DEF TypeOK
      <3>2. \A i \in 1..Len(vpc) : i < blk
        BY <1>8, <3>1
      <3>3. \A a \in Free(Size) : \E i \in 1..Len(vpc) : Aligned(a, Size, i)
        BY <1>1, FreeMeans
      <3>4. QED
        BY <3>2, <3>3 DEF Passed
    <2>2. got \in Surjection(1..Len(got), Free(Size))
      BY <1>4, <1>5, <2>1 DEF Surjection
    <2>3. QED
      BY <1>2, <1>3, <2>2, FS_Surjection
  <1>9. QED
    BY <1>1, <1>2, <1>7, <1>8

\* With what is wanted carved, there is room; with the VPC walked in vain, none.
LEMMA SearchDecides ==
  ASSUME SearchInv
  PROVE  (Carved => RoomWith(try)) /\ (Exhausted => ~RoomWith(try))
  <1> USE DEF SearchInv, CreateInv
  <1>1. pc = "carve" => Wanted \in Nat
    BY CreateConstants, LenProperties DEF TypeOK, Running, Wanted
  <1>2. Free(Sizes[try]) = Free(Size)
    BY DEF Size
  <1>3. ASSUME Carved PROVE RoomWith(try)
    BY <1>1, <1>2, <1>3, CarvedIsRoom DEF Carved, RoomWith
  <1>4. ASSUME Exhausted PROVE ~RoomWith(try)
    BY <1>1, <1>2, <1>4, CarvedIsRoom DEF Exhausted, RoomWith
  <1>5. QED
    BY <1>3, <1>4

LEMMA InitSearch == Init => SearchInv
  BY InitCreate DEF Init, SearchInv, Exact, Tried

LEMMA NextSearch == SearchInv /\ [Next]_vars => SearchInv'
  <1> SUFFICES ASSUME SearchInv, [Next]_vars PROVE Exact' /\ Tried'
    BY NextCreate DEF SearchInv
  <1> USE DEF SearchInv
  <1>1. TypeOK
    BY DEF CreateInv
  <1>2. ASSUME UNCHANGED <<vpc, read, carving, pc>> PROVE Exact' /\ Tried'
    <2>1. UNCHANGED <<vpc, seen, azs, try, blk, at, got, pc>> /\ Size' = Size
      BY <1>2 DEF read, carving, Size
    <2>2. Exact'
      <3>1. \A a : Passed(a)' <=> Passed(a)
        BY <2>1 DEF Passed, Aligned, End
      <3>2. QED
        BY <2>1, <3>1, SameRoom DEF Exact
    <2>3. Tried'
      BY <2>1, SameRoom DEF Tried
    <2>4. QED
      BY <2>2, <2>3
  <1>3. ASSUME pc' # "carve" PROVE Exact' /\ Tried'
    BY <1>3 DEF Exact, Tried
  <1>4. CASE DescribeRouteTables
    <2>1. /\ pc = "tables" /\ 1 \in 1..Len(Sizes) /\ try' = 1
          /\ UNCHANGED <<vpc, seen, azs>> /\ blk' = 1 /\ at' = Start(1) /\ got' = <<>>
      BY <1>1, <1>4 DEF DescribeRouteTables, TypeOK
    <2>2. Exact'
      BY <2>1, StartIsExact
    <2>3. Tried'
      BY <2>1 DEF Tried
    <2>4. QED
      BY <2>2, <2>3
  <1>5. CASE NextBlock
    <2>1. UNCHANGED <<vpc, seen, azs, try, pc>>
      BY <1>5 DEF NextBlock, read
    <2>2. QED
      BY <1>5, <2>1, NextBlockKeepsExact, SameRoom DEF Tried
  <1>6. CASE TryAddress
    <2>1. UNCHANGED <<vpc, seen, azs, try, pc>>
      BY <1>6 DEF TryAddress, read
    <2>2. QED
      BY <1>6, <2>1, TryKeepsExact, SameRoom DEF Tried
  <1>7. CASE Shrink
    <2>1. /\ try' = try + 1 /\ try' \in 1..Len(Sizes) /\ try \in Nat /\ pc = "carve"
          /\ UNCHANGED <<vpc, seen, azs>> /\ blk' = 1 /\ at' = Start(1) /\ got' = <<>>
      BY <1>1, <1>7 DEF Shrink, Exhausted, TypeOK, read
    <2>2. Exact'
      BY <2>1, StartIsExact
    <2>3. \A t \in 1..try : ~RoomWith(t)
      BY <1>7, <2>1, SearchDecides DEF Tried, Shrink
    <2>4. Tried'
      BY <2>1, <2>3, SameRoom DEF Tried
    <2>5. QED
      BY <2>2, <2>4
  <1>8. ASSUME NEW force \in BOOLEAN, Create(force) PROVE pc' # "carve"
    BY <1>8 DEF Create
  <1>9. ASSUME SizeWorkload \/ SettleAzs \/ DescribeSubnets \/ NoRoom \/ Carved
                 \/ NoPublicSubnet \/ Save \/ Fail
        PROVE  pc' # "carve"
    BY <1>9 DEF SizeWorkload, SettleAzs, DescribeSubnets, NoRoom, Carved, NoPublicSubnet, Save,
                Fail, Over
  <1>10. ASSUME NEW given \in BOOLEAN, ChooseNat(given) PROVE pc' # "carve"
    BY <1>10 DEF ChooseNat
  <1>11. ASSUME \/ Delete \/ ChangeMainTable \/ UNCHANGED vars
                \/ \E s \in Others : AddSubnet(s) \/ RemoveSubnet(s)
         PROVE  UNCHANGED <<vpc, read, carving, pc>>
    BY <1>11 DEF Delete, ChangeMainTable, AddSubnet, RemoveSubnet, vars
  <1>12. QED
    BY <1>2, <1>3, <1>4, <1>5, <1>6, <1>7, <1>8, <1>9, <1>10, <1>11 DEF Next, Step

\* "It tries /20 first and shrinks": FreeCIDRs settles on the largest size of
\* which the VPC has enough free blocks and gives up only if there is none,
\* whatever the VPC, the sizes, the AZs and the subnets.
THEOREM LargestIsFound == Spec => LargestThatFits
  <1> DEFINE Decided ==
        /\ Carved => RoomWith(try) /\ \A t \in 1..(try - 1) : ~RoomWith(t)
        /\ NoRoom => \A t \in 1..Len(Sizes) : ~RoomWith(t)
  <1>1. SearchInv /\ [Next]_vars => [Decided]_vars
    <2> SUFFICES ASSUME SearchInv PROVE Decided
      OBVIOUS
    <2>1. Carved => RoomWith(try) /\ \A t \in 1..(try - 1) : ~RoomWith(t)
      BY SearchDecides DEF SearchInv, Tried, Carved
    <2>2. ASSUME NoRoom PROVE \A t \in 1..Len(Sizes) : ~RoomWith(t)
      <3>1. pc = "carve" /\ Exhausted /\ try = Len(Sizes) /\ try \in Nat
        BY <2>2 DEF NoRoom, Exhausted, SearchInv, CreateInv, TypeOK
      <3>2. QED
        BY <3>1, SearchDecides DEF SearchInv, Tried
    <2>3. QED
      BY <2>1, <2>2
  <1>2. QED
    BY <1>1, InitSearch, NextSearch, PTL DEF Spec, LargestThatFits

=============================================================================
