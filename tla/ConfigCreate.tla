---------------------------- MODULE ConfigCreate ----------------------------
(***************************************************************************)
(* `bbctl config create`: a storage config is proposed from what the       *)
(* account's VPC looks like.  The command reads the subnets and the route  *)
(* tables, carves free blocks out of the VPC for two subnets per AZ, picks *)
(* a public subnet for the NAT gateway and writes the file.  It creates    *)
(* nothing in AWS; the VPC is changed by others at any time.               *)
(*                                                                         *)
(* Addresses are counted in the smallest blocks the command proposes       *)
(* (/24).  A subnet that is smaller takes the block it lies in.            *)
(***************************************************************************)
EXTENDS Integers, FiniteSets, Sequences

CONSTANTS
  Vpcs,      \* the VPCs there may be: sequences of blocks
  Sizes,     \* block sizes in the order they are tried: /20 to /24
  AzLists,   \* the AZs the user, or the command, may settle on
  MaxPools,  \* bound: pools the calculator may ask for
  Others,    \* subnets that others may create
  NoNat, NoFile

Block == [at : Nat, size : Nat \ {0}]

\* CIDR blocks are powers of two, so what is not too small for a block of one
\* of the sizes is a multiple of it; and blocks of a VPC lie apart.
ASSUME CreateConstants ==
  /\ Sizes \in Seq(Nat \ {0}) /\ Sizes # <<>>
  /\ \A v \in Vpcs : v \in Seq(Block)
  /\ \A v \in Vpcs : \A i \in 1..Len(v), t \in 1..Len(Sizes) :
       v[i].size >= Sizes[t] => \E k \in 1..v[i].size : v[i].size = k * Sizes[t]
  /\ \A v \in Vpcs : \A i, j \in 1..Len(v) :
       i # j => v[i].at + v[i].size <= v[j].at \/ v[j].at + v[j].size <= v[i].at
  /\ \A l \in AzLists : l \in Seq(STRING) /\ l # <<>>
  /\ MaxPools \in Nat \ {0}
  /\ \A s \in Others : s.at \in Nat /\ s.size \in Nat \ {0}
  /\ NoNat \notin Others

VARIABLES
  vpc,      \* the VPC's associated CIDR blocks
  subnets,  \* its subnets, in AWS
  main,     \* the main route table has a route to an internet gateway
  file,     \* NAME.bbctl.yaml
  pc,
  azs, pools,       \* what the command settled on
  seen, public,     \* the subnets it read; those it takes for public
  try, blk, at, got,  \* FreeCIDRs: which size, which block, where, what it has
  nat

carving == <<try, blk, at, got>>
read == <<azs, pools, seen, public>>
vars == <<vpc, subnets, main, file, pc, read, carving, nat>>

Running == {"size", "azs", "subnets", "tables", "carve", "nat", "save"}

Configs ==
  [azs : AzLists, mgmt : Seq(Nat), storage : Seq(Nat), size : Nat \ {0},
   nat : Others, pools : Seq(STRING)]

TypeOK ==
  /\ vpc \in Vpcs /\ subnets \subseteq Others /\ main \in BOOLEAN
  /\ file \in Configs \cup {NoFile}
  /\ pc \in Running \cup {"idle"}
  /\ azs \in AzLists \cup {<<>>} /\ pools \in 0..MaxPools
  /\ pc \in Running \ {"size"} => pools # 0
  /\ pc \in Running \ {"size", "azs"} => azs \in AzLists
  /\ seen \subseteq Others /\ public \subseteq seen
  /\ try \in 1..Len(Sizes) /\ blk \in 1..(Len(vpc) + 1)
  /\ at \in Nat /\ got \in Seq(Nat)
  /\ nat \in Others \cup {NoNat}

Init ==
  /\ vpc \in Vpcs /\ subnets = {} /\ main \in BOOLEAN
  /\ file = NoFile /\ pc = "idle"
  /\ azs = <<>> /\ pools = 0
  /\ seen = {} /\ public = {}
  /\ try = 1 /\ blk = 1 /\ at = 0 /\ got = <<>>
  /\ nat = NoNat

\* The command is over; what it had in memory is gone.
Over ==
  /\ pc' = "idle"
  /\ azs' = <<>> /\ pools' = 0
  /\ seen' = {} /\ public' = {}
  /\ try' = 1 /\ blk' = 1 /\ at' = 0 /\ got' = <<>>
  /\ nat' = NoNat

-----------------------------------------------------------------------------
(* Blocks *)

Overlap(a, n, b, m) == a < b + m /\ b < a + n

\* overlapsAny: the candidate against the subnets read and the blocks taken.
TakenWithNext(a, n) ==  \* mutant: the end of a block counts as part of it
  \/ \E s \in seen : Overlap(a, n + 1, s.at, s.size)
  \/ \E i \in 1..Len(got) : Overlap(a, n, got[i], n)
Taken(a, n) ==
  \/ \E s \in seen : Overlap(a, n, s.at, s.size)
  \/ \E i \in 1..Len(got) : Overlap(a, n, got[i], n)

Size == Sizes[try]
Wanted == 2 * Len(azs)
End(b) == b.at + b.size
Start(b) == IF b <= Len(vpc) THEN vpc[b].at ELSE 0

-----------------------------------------------------------------------------
(* config create *)

Create(force) ==
  /\ pc = "idle" /\ pc' = "size"
  /\ file = NoFile \/ force
  /\ UNCHANGED <<vpc, subnets, main, file, read, carving, nat>>

\* The calculator at backedblock.io says how many pools the workload takes.
SizeWorkload ==
  /\ pc = "size" /\ pc' = "azs"
  /\ pools' \in 1..MaxPools
  /\ UNCHANGED <<vpc, subnets, main, file, azs, seen, public, carving, nat>>

\* The AZs given, or the first ones that offer the instance types.
SettleAzs ==
  /\ pc = "azs" /\ pc' = "subnets"
  /\ azs' \in AzLists
  /\ UNCHANGED <<vpc, subnets, main, file, pools, seen, public, carving, nat>>

DescribeSubnets ==
  /\ pc = "subnets" /\ pc' = "tables"
  /\ seen' = subnets /\ public' = {}
  /\ UNCHANGED <<vpc, subnets, main, file, azs, pools, carving, nat>>

\* A subnet's own route table decides, and the main one if it has none.
IsPublic(s) == IF s \in subnets /\ s.table # "main" THEN s.table = "igw" ELSE main

DescribeRouteTables ==
  /\ pc = "tables" /\ pc' = "carve"
  /\ public' = {s \in seen : IsPublic(s)}
  /\ try' = 1 /\ blk' = 1 /\ at' = Start(1) /\ got' = <<>>
  /\ UNCHANGED <<vpc, subnets, main, file, azs, pools, seen, nat>>

-----------------------------------------------------------------------------
(* FreeCIDRs, one step of its loops at a time *)

Looking == pc = "carve" /\ blk <= Len(vpc) /\ Len(got) < Wanted
TooSmall == vpc[blk].size < Size

\* A block of the VPC that is too small, or at its end.
NextBlockTwice ==  \* mutant: the loop variable is incremented twice
  /\ Looking /\ (TooSmall \/ at >= End(vpc[blk]))
  /\ blk' = blk + 2 /\ at' = Start(blk + 2)
  /\ UNCHANGED <<vpc, subnets, main, file, pc, read, try, got, nat>>
NextBlock ==
  /\ Looking /\ (TooSmall \/ at >= End(vpc[blk]))
  /\ blk' = blk + 1 /\ at' = Start(blk + 1)
  /\ UNCHANGED <<vpc, subnets, main, file, pc, read, try, got, nat>>

TryAddressAgain ==  \* mutant: an address that is taken is not passed
  /\ Looking /\ ~TooSmall /\ at < End(vpc[blk])
  /\ IF Taken(at, Size) THEN UNCHANGED <<got, at>> ELSE got' = Append(got, at) /\ at' = at + Size
  /\ UNCHANGED <<vpc, subnets, main, file, pc, read, try, blk, nat>>
TryAddressByOne ==  \* mutant: the next smallest block, not the next of this size
  /\ Looking /\ ~TooSmall /\ at < End(vpc[blk])
  /\ got' = IF Taken(at, Size) THEN got ELSE Append(got, at)
  /\ at' = at + 1
  /\ UNCHANGED <<vpc, subnets, main, file, pc, read, try, blk, nat>>
TryAddress ==
  /\ Looking /\ ~TooSmall /\ at < End(vpc[blk])
  /\ got' = IF Taken(at, Size) THEN got ELSE Append(got, at)
  /\ at' = at + Size
  /\ UNCHANGED <<vpc, subnets, main, file, pc, read, try, blk, nat>>

Exhausted == pc = "carve" /\ blk > Len(vpc) /\ Len(got) < Wanted

\* Not enough of this size: from the start with the next smaller one.
Shrink ==
  /\ Exhausted /\ try < Len(Sizes)
  /\ try' = try + 1 /\ blk' = 1 /\ at' = Start(1) /\ got' = <<>>
  /\ UNCHANGED <<vpc, subnets, main, file, pc, read, nat>>

NoRoom ==
  /\ Exhausted /\ try = Len(Sizes)
  /\ Over
  /\ UNCHANGED <<vpc, subnets, main, file>>

Carved ==
  /\ pc = "carve" /\ Len(got) = Wanted
  /\ pc' = "nat"
  /\ UNCHANGED <<vpc, subnets, main, file, read, carving, nat>>

-----------------------------------------------------------------------------
(* The rest of the command *)

\* A public subnet, preferably in the first AZ.
InFirstAz == {s \in public : s.az = azs[1]}
NatChoices == IF InFirstAz # {} THEN InFirstAz ELSE public

\* --nat-subnet or an answer, which nobody checks, or the command's choice.
ChooseNat(given) ==
  /\ pc = "nat" /\ pc' = "save"
  /\ nat' \in IF given THEN Others ELSE NatChoices
  /\ UNCHANGED <<vpc, subnets, main, file, read, carving>>

NoPublicSubnet ==
  /\ pc = "nat" /\ NatChoices = {}
  /\ Over
  /\ UNCHANGED <<vpc, subnets, main, file>>

ProposalUneven ==  \* mutant: the storage blocks start one too late
  [azs |-> azs, size |-> Size, nat |-> nat,
   mgmt |-> SubSeq(got, 1, Len(azs)), storage |-> SubSeq(got, Len(azs) + 2, Len(got)),
   pools |-> [i \in 1..pools |-> azs[((i - 1) % Len(azs)) + 1]]]
Proposal ==
  [azs |-> azs, size |-> Size, nat |-> nat,
   mgmt |-> SubSeq(got, 1, Len(azs)), storage |-> SubSeq(got, Len(azs) + 1, Len(got)),
   pools |-> [i \in 1..pools |-> azs[((i - 1) % Len(azs)) + 1]]]

\* Validate, of what it checks the parts that are not constant here.
Valid(c) ==
  /\ c.azs # <<>> /\ Len(c.mgmt) = Len(c.azs) /\ Len(c.storage) = Len(c.azs)
  /\ c.nat # NoNat
  /\ c.pools # <<>>
  /\ \A i \in 1..Len(c.pools) : \E j \in 1..Len(c.azs) : c.pools[i] = c.azs[j]

Save ==
  /\ pc = "save" /\ Over
  /\ file' = IF Valid(Proposal) THEN Proposal ELSE file
  /\ UNCHANGED <<vpc, subnets, main>>

\* An error of AWS or of the calculator, or Ctrl-C at a question.
Fail ==
  /\ pc \in Running /\ Over
  /\ UNCHANGED <<vpc, subnets, main, file>>

Delete ==
  /\ file # NoFile /\ file' = NoFile
  /\ UNCHANGED <<vpc, subnets, main, pc, read, carving, nat>>

-----------------------------------------------------------------------------
(* Others change the VPC.  AWS keeps its subnets apart. *)

AddSubnet(s) ==
  /\ s \notin subnets
  /\ \A t \in subnets : ~Overlap(s.at, s.size, t.at, t.size)
  /\ subnets' = subnets \cup {s}
  /\ UNCHANGED <<vpc, main, file, pc, read, carving, nat>>

RemoveSubnet(s) ==
  /\ s \in subnets /\ subnets' = subnets \ {s}
  /\ UNCHANGED <<vpc, main, file, pc, read, carving, nat>>

ChangeMainTable ==
  /\ main' = ~main
  /\ UNCHANGED <<vpc, subnets, file, pc, read, carving, nat>>

Step ==
  \/ SizeWorkload \/ SettleAzs \/ DescribeSubnets \/ DescribeRouteTables
  \/ NextBlock \/ TryAddress \/ Shrink \/ NoRoom \/ Carved
  \/ \E given \in BOOLEAN : ChooseNat(given)
  \/ NoPublicSubnet \/ Save

Next ==
  \/ \E force \in BOOLEAN : Create(force)
  \/ Step \/ Fail \/ Delete
  \/ \E s \in Others : AddSubnet(s) \/ RemoveSubnet(s)
  \/ ChangeMainTable

Spec == Init /\ [][Next]_vars

\* Calls return or fail, and questions are answered or interrupted.
CreateSpec == Spec /\ WF_vars(Step)

-----------------------------------------------------------------------------
(* Properties *)

Inside(a, n) == \E i \in 1..Len(vpc) : vpc[i].at <= a /\ a + n <= End(vpc[i])

\* Everything FreeCIDRs has carved, at every moment and until the config is
\* saved, lies inside one block of the VPC, apart from each other and apart from
\* every subnet that was there when it looked.
ProposalFits ==
  pc \in {"carve", "nat", "save"} =>
    /\ \A i \in 1..Len(got) :
         /\ Inside(got[i], Size)
         /\ \A s \in seen : ~Overlap(got[i], Size, s.at, s.size)
    /\ \A i, j \in 1..Len(got) : i # j => ~Overlap(got[i], Size, got[j], Size)

\* The blocks of size n that are free, found by their definition and not by
\* walking.
Free(n) ==
  {a \in UNION {vpc[i].at..End(vpc[i]) : i \in 1..Len(vpc)} :
     /\ \E i \in 1..Len(vpc) : a >= vpc[i].at /\ a + n <= End(vpc[i]) /\ (a - vpc[i].at) % n = 0
     /\ \A s \in seen : ~Overlap(a, n, s.at, s.size)}

RoomWith(t) == Cardinality(Free(Sizes[t])) >= Wanted

\* "It tries /20 first and shrinks": the size carved is the largest of which the
\* VPC has enough, and it is refused only if it has not enough of any.
LargestThatFits ==
  [][/\ Carved => RoomWith(try) /\ \A t \in 1..(try - 1) : ~RoomWith(t)
     /\ NoRoom => \A t \in 1..Len(Sizes) : ~RoomWith(t)]_vars

\* What the command proposes passes its own validation, whatever it settled on:
\* "generated config is invalid" is never the command's own fault.
ProposalIsValid == pc = "save" => Valid(Proposal)

\* However full the VPC is, the search ends: with a proposal or a refusal.
CreateEnds == pc \in Running ~> pc = "idle"

=============================================================================
