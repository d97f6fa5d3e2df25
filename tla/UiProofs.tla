------------------------------- MODULE UiProofs -------------------------------
(* Theorems about Ui, for any number of pools, ports and queries. *)
EXTENDS Ui, TLAPS

\* A port is given to a forward that is opened, and once.
Given ==
  /\ \A f \in Fwds : port[f] # NoPort => phase # "look" /\ f \in Used /\ open[f] # "no"
  /\ \A f \in Fwds : open[f] \in {"dial", "select", "open"} => port[f] # NoPort

\* What is served goes through forwards that did open.
Serving == phase = "serve" => \A f \in Used : open[f] = "open"

\* A request is one for a pool that is shown, and only while there is a server.
Asking ==
  /\ asked # NoPool => phase = "serve" /\ asked \in shown
  /\ asked = NoPool => todo = 0 /\ from = {}
  /\ todo > 0 => HasProm(asked)

OwnData == ApartProms => from \subseteq {asked}

IInv == TypeOK /\ Given /\ Serving /\ Asking /\ OwnData

-----------------------------------------------------------------------------
LEMMA FwdsAre ==
  /\ Gateway \notin Pools /\ Mgmt \notin Pools /\ Gateway # Mgmt
  /\ NoPool \notin Pools /\ NoPort \notin Ports
  /\ Used \subseteq Fwds \/ ~(shown \subseteq Pools)
  BY UiConstants DEF UiConstants, Gateway, Mgmt, Pools, NoPool, NoPort, Used, Proms, Fwds

LEMMA InvInit == Init => IInv
  <1> SUFFICES ASSUME Init PROVE IInv
    OBVIOUS
  <1>1. left \in Seq(Pools)
    <2>1. CASE left = [p \in Pools |-> p]
      BY <2>1, UiConstants DEF UiConstants, Pools
    <2>2. CASE \E p \in Pools : left = <<p>>
      BY <2>2
    <2>3. QED
      BY <2>1, <2>2 DEF Init
  <1>2. TypeOK
    <2>1. todo \in 0 .. Q
      BY UiConstants DEF UiConstants, Init, NoRequest
    <2>2. \A q \in Ports : holder[q] \notin Fwds
      BY UiConstants DEF UiConstants, Init
    <2>3. QED
      BY <1>1, <2>1, <2>2 DEF Init, TypeOK, NoRequest
  <1>3. Given /\ Serving /\ Asking /\ OwnData
    BY UiConstants DEF UiConstants, Init, Given, Serving, Asking, OwnData, NoRequest
  <1>4. QED
    BY <1>2, <1>3 DEF IInv

\* The request under way, and what it is about, stay as they are.
LEMMA Aside ==
  ASSUME IInv, UNCHANGED <<setup, request>>, phase' = phase \/ asked = NoPool,
         \A f \in Fwds : port'[f] = port[f] \/ phase # "serve",
         phase' # "serve" \/ phase = "serve" \/ asked = NoPool
  PROVE  Asking' /\ OwnData'
  <1>1. Asking'
    BY DEF IInv, Asking, HasProm, setup, request
  <1>2. OwnData'
    <2>1. CASE asked = NoPool
      BY <2>1 DEF IInv, Asking, OwnData, request
    <2>2. CASE asked # NoPool
      <3>1. phase = "serve" /\ shown # {}
        BY <2>2 DEF IInv, Asking
      <3>2. Used' = Used /\ Proms' = Proms /\ Used \subseteq Fwds /\ Proms \subseteq Used
        BY <3>1, FwdsAre DEF Used, Proms, setup, IInv, TypeOK
      <3>3. ApartProms' => ApartProms
        BY <3>1, <3>2 DEF ApartProms
      <3>4. QED
        BY <3>3 DEF IInv, OwnData, request
    <2>3. QED
      BY <2>1, <2>2
  <1>3. QED
    BY <1>1, <1>2

LEMMA Looks ==
  ASSUME IInv, Look \/ LookMgmt
  PROVE  IInv'
  <1> USE DEF IInv
  <1>1. asked = NoPool /\ phase = "look" /\ UNCHANGED <<calm, fwd, holder, request>> /\ phase' # "serve"
    BY DEF Look, LookMgmt, Asking
  <1>2. TypeOK'
    <2>1. CASE Look
      <3>1. left' \in Seq(Pools) /\ Head(left) \in Pools
        BY <2>1 DEF Look, TypeOK
      <3>2. shown' \subseteq Pools
        BY <2>1, <3>1 DEF Look, TypeOK
      <3>3. QED
        BY <2>1, <3>1, <3>2 DEF Look, TypeOK, fwd, request
    <2>2. CASE LookMgmt
      BY <2>2, UiConstants DEF UiConstants, LookMgmt, TypeOK, fwd, request
    <2>3. QED
      BY <2>1, <2>2
  <1>3. Given'
    BY <1>1 DEF Given, fwd
  <1>4. Serving' /\ Asking' /\ OwnData'
    BY <1>1 DEF Serving, Asking, OwnData, request
  <1>5. QED
    BY <1>2, <1>3, <1>4

LEMMA Opens ==
  ASSUME IInv, NEW f \in Fwds, Forwarding(f)
  PROVE  IInv'
  <1> USE DEF IInv
  <1>1. phase = "open" /\ UNCHANGED <<phase, setup, calm, holder, request>>
    BY DEF Forwarding, PickPort, NoFreePort, Dial, Exit, Deadline, Again
  <1>2. asked = NoPool
    BY <1>1 DEF Asking
  <1>3. TypeOK'
    <2>1. CASE PickPort(f)
      <3>1. PICK q \in FreePorts : Put(port, f, q)
        BY <2>1 DEF PickPort
      <3>2. q \in Ports
        BY <3>1 DEF FreePorts
      <3>3. port[f] = NoPort
        BY <2>1 DEF PickPort, Given, TypeOK
      <3>4. \A r \in Ports : holder[r] # f
        BY <3>3, FwdsAre DEF TypeOK
      <3>5. \A r \in Ports : holder'[r] \in Fwds => port'[holder'[r]] = r
        BY <1>1, <3>1, <3>4 DEF TypeOK, Put
      <3>6. QED
        BY <1>1, <2>1, <3>1, <3>2, <3>5 DEF PickPort, TypeOK, Put, setup, request
    <2>2. CASE NoFreePort(f) \/ Dial(f) \/ Exit(f) \/ Deadline(f) \/ Again(f)
      BY <2>2, <1>1 DEF NoFreePort, Dial, Exit, Deadline, Again, TypeOK, Put, setup, request
    <2>3. QED
      BY <2>1, <2>2 DEF Forwarding
  <1>4. Given'
    <2>1. Used' = Used
      BY <1>1 DEF Used, Proms, setup
    <2>2. CASE PickPort(f)
      <3>1. PICK q \in FreePorts : Put(port, f, q)
        BY <2>2 DEF PickPort
      <3>2. q # NoPort
        BY <3>1, FwdsAre DEF FreePorts
      <3>3. QED
        BY <1>1, <2>1, <2>2, <3>1, <3>2 DEF PickPort, Put, Given, TypeOK
    <2>3. CASE NoFreePort(f) \/ Dial(f) \/ Exit(f) \/ Deadline(f) \/ Again(f)
      BY <1>1, <2>1, <2>3 DEF NoFreePort, Dial, Exit, Deadline, Again, Given, TypeOK, Put
    <2>4. QED
      BY <2>2, <2>3 DEF Forwarding
  <1>5. Serving'
    BY <1>1 DEF Serving
  <1>6. Asking' /\ OwnData'
    BY <1>1, <1>2, Aside
  <1>7. QED
    BY <1>3, <1>4, <1>5, <1>6

LEMMA OpenedStep ==
  ASSUME IInv, Opened
  PROVE  IInv'
  <1> USE DEF IInv
  <1>1. phase = "open" /\ asked = NoPool /\ UNCHANGED <<setup, calm, port, open, holder, request>>
    BY DEF Opened, Asking
  <1>2. TypeOK'
    BY <1>1 DEF Opened, TypeOK, setup, request
  <1>3. Used' = Used
    BY <1>1 DEF Used, Proms, setup
  <1>4. Given'
    BY <1>1, <1>3 DEF Opened, Given
  <1>5. Serving'
    BY <1>1, <1>3 DEF Opened, Serving
  <1>6. Asking' /\ OwnData'
    BY <1>1, Aside
  <1>7. QED
    BY <1>2, <1>4, <1>5, <1>6

\* Sessions, other programs and time.
LEMMA Around ==
  ASSUME IInv,
         \/ \E f \in Fwds : Listen(f) \/ Drop(f)
         \/ \E q \in Ports : Takes(q) \/ Leaves(q)
         \/ Clock \/ Calm
  PROVE  IInv'
  <1> USE DEF IInv
  <1>1. UNCHANGED <<phase, setup, port, open, request>>
    BY DEF Listen, Drop, Takes, Leaves, Clock, Calm, fwd
  <1>2. TypeOK'
    <2>1. ASSUME NEW f \in Fwds, Listen(f) PROVE TypeOK'
      <3>1. port[f] \in Ports /\ holder' = [holder EXCEPT ![port[f]] = f]
        BY <2>1 DEF Listen, TypeOK, Put
      <3>2. \A r \in Ports : holder'[r] \in Fwds => port[holder'[r]] = r
        BY <3>1 DEF TypeOK
      <3>3. QED
        BY <2>1, <3>1, <3>2 DEF Listen, TypeOK, setup, fwd, request
    <2>2. ASSUME NEW f \in Fwds, Drop(f) PROVE TypeOK'
      <3>1. \A r \in Ports : holder'[r] \in Fwds => port[holder'[r]] = r
        BY <2>2, UiConstants DEF UiConstants, Drop, TypeOK
      <3>2. QED
        BY <2>2, <3>1 DEF Drop, TypeOK, Put, setup, request
    <2>3. ASSUME NEW q \in Ports, Takes(q) \/ Leaves(q) PROVE TypeOK'
      <3>1. \A r \in Ports : holder'[r] \in Fwds => port[holder'[r]] = r
        BY <2>3, UiConstants DEF UiConstants, Takes, Leaves, TypeOK, Put
      <3>2. QED
        BY <2>3, <3>1 DEF Takes, Leaves, TypeOK, Put, setup, fwd, request
    <2>4. CASE Clock \/ Calm
      BY <2>4 DEF Clock, Calm, TypeOK, setup, fwd, request
    <2>5. QED
      BY <2>1, <2>2, <2>3, <2>4
  <1>3. Used' = Used
    BY <1>1 DEF Used, Proms, setup
  <1>4. Given' /\ Serving'
    BY <1>1, <1>3 DEF Given, Serving
  <1>5. Asking' /\ OwnData'
    BY <1>1, Aside
  <1>6. QED
    BY <1>2, <1>4, <1>5

LEMMA Ends ==
  ASSUME IInv, Answer \/ Interrupt
  PROVE  IInv'
  <1> USE DEF IInv
  <1>1. Forget /\ UNCHANGED <<setup, calm, fwd>> /\ phase' \in {phase, "ended"}
    BY DEF Answer, Interrupt
  <1>2. TypeOK'
    <2>1. \A r \in Ports : holder'[r] \in Fwds => port[holder'[r]] = r
      BY UiConstants DEF UiConstants, Answer, Interrupt, TypeOK
    <2>2. phase' \in {"look", "open", "serve", "failed", "ended"}
      BY <1>1 DEF TypeOK
    <2>3. holder' \in [Ports -> Fwds \cup {Free, Other}]
      <3>1. CASE Answer
        BY <3>1 DEF Answer, TypeOK
      <3>2. CASE Interrupt
        BY <3>2 DEF Interrupt
      <3>3. QED
        BY <3>1, <3>2
    <2>4. asked' \in Pools \cup {NoPool} /\ todo' \in 0 .. Q /\ from' \subseteq Pools /\ bad' \in BOOLEAN
      <3>1. 0 \in 0 .. Q
        BY UiConstants DEF UiConstants
      <3> HIDE DEF IInv
      <3>2. QED
        BY <1>1, <3>1 DEF Forget
    <2>5. TypeOK /\ UNCHANGED <<setup, calm, fwd>>
      BY <1>1
    <2> HIDE DEF IInv
    <2>6. QED
      BY <2>1, <2>2, <2>3, <2>4, <2>5 DEF TypeOK, setup, fwd
  <1>3. Used' = Used
    BY <1>1 DEF Used, Proms, setup
  <1>4. Given' /\ Serving'
    BY <1>1, <1>3 DEF Given, Serving, fwd
  <1>5. Asking' /\ OwnData'
    BY <1>1 DEF Asking, OwnData, Forget
  <1>6. QED
    BY <1>2, <1>4, <1>5

LEMMA RequestStep ==
  ASSUME IInv, Request
  PROVE  IInv'
  <1> USE DEF IInv
  <1>1. asked = NoPool /\ from = {} /\ phase = "serve" /\ asked' \in Pools /\ asked' \in shown
        /\ UNCHANGED <<phase, setup, calm, fwd, holder, from>>
    BY DEF Request, Asking, TypeOK
  <1>2. TypeOK'
    BY <1>1, UiConstants DEF UiConstants, Request, TypeOK, setup, fwd
  <1>3. Used' = Used
    BY <1>1 DEF Used, Proms, setup
  <1>4. Given' /\ Serving'
    BY <1>1, <1>3 DEF Given, Serving, fwd
  <1>5. Asking' /\ OwnData'
    BY <1>1, FwdsAre DEF Request, Asking, OwnData, HasProm, setup
  <1>6. QED
    BY <1>2, <1>4, <1>5

\* Whoever listens at a pool's port is the forward the pool's queries are for,
\* and what it has is the pool's.
LEMMA QueryStep ==
  ASSUME IInv, Query \/ QueryFails
  PROVE  IInv'
  <1> USE DEF IInv
  <1>1. phase = "serve" /\ todo > 0 /\ asked \in shown /\ asked \in Pools /\ HasProm(asked)
        /\ UNCHANGED <<phase, setup, calm, fwd, holder, asked>> /\ todo' = todo - 1
    BY FwdsAre DEF Query, QueryFails, Asking, TypeOK
  <1>2. Used' = Used /\ Proms' = Proms /\ Used \subseteq Fwds
    BY <1>1, FwdsAre DEF Used, Proms, setup, TypeOK
  <1>3. Given' /\ Serving'
    BY <1>1, <1>2 DEF Given, Serving, fwd
  <1>4. Asking'
    BY <1>1 DEF Asking, HasProm, setup, TypeOK, NoPool, Pools
  <1>5. (ApartProms' => ApartProms) /\ (ApartProms => ApartProms')
    BY <1>1, <1>2 DEF ApartProms, fwd
  <1> HIDE DEF IInv
  <1>6. todo' \in 0 .. Q
    BY <1>1, UiConstants DEF UiConstants, IInv, TypeOK
  <1>7. from' \subseteq Pools /\ bad' \in BOOLEAN => TypeOK'
    BY <1>1, <1>6 DEF IInv, TypeOK, setup, fwd
  <1> USE DEF IInv
  <1>8. CASE QueryFails
    <2>1. TypeOK'
      BY <1>8, <1>7 DEF QueryFails, TypeOK
    <2>2. OwnData'
      BY <1>1, <1>5, <1>8 DEF QueryFails, OwnData
    <2>3. QED
      BY <1>3, <1>4, <2>1, <2>2
  <1>9. CASE Query
    <2> DEFINE f == holder[port[PromOf(asked)]]
    <2>1. PromOf(asked) \in Used
      BY <1>1 DEF PromOf, HasProm, Used, Proms
    <2>2. port[PromOf(asked)] \in Ports
      BY <1>1, <1>2, <2>1 DEF Serving, Given, TypeOK
    <2>3. f \in Fwds \ {Gateway} /\ from' = from \cup Series(f, Label(asked))
      BY <1>9 DEF Query
    <2>4. port[f] = port[PromOf(asked)] /\ f \in Used
      BY <2>2, <2>3, FwdsAre DEF TypeOK, Given
    <2>5. Series(f, Label(asked)) \subseteq Pools
      BY <1>1, <2>3, FwdsAre DEF Series, Label, TypeOK, Fwds
    <2>6. TypeOK'
      BY <1>9, <1>7, <2>3, <2>5 DEF Query, TypeOK
    <2>7. ApartProms => f = PromOf(asked)
      BY <1>1, <2>1, <2>3, <2>4 DEF ApartProms, Used, PromOf, HasProm, Proms
    <2>8. f = PromOf(asked) => Series(f, Label(asked)) \subseteq {asked}
      BY <1>1, FwdsAre DEF Series, Label, PromOf
    <2>9. OwnData'
      BY <1>1, <1>5, <2>3, <2>7, <2>8 DEF OwnData
    <2>10. QED
      BY <1>3, <1>4, <2>6, <2>9
  <1>10. QED
    BY <1>8, <1>9

LEMMA InvNext == IInv /\ [Next]_vars => IInv'
  <1> SUFFICES ASSUME IInv, [Next]_vars PROVE IInv'
    OBVIOUS
  <1>1. CASE Look \/ LookMgmt
    BY <1>1, Looks
  <1>2. CASE Opened
    BY <1>2, OpenedStep
  <1>3. CASE \E f \in Fwds : Forwarding(f)
    BY <1>3, Opens
  <1>4. CASE \/ \E f \in Fwds : Listen(f) \/ Drop(f)
             \/ \E q \in Ports : Takes(q) \/ Leaves(q)
             \/ Clock \/ Calm
    BY <1>4, Around
  <1>5. CASE Answer \/ Interrupt
    BY <1>5, Ends
  <1>6. CASE Request
    BY <1>6, RequestStep
  <1>7. CASE Query \/ QueryFails
    BY <1>7, QueryStep
  <1>8. CASE UNCHANGED vars
    BY <1>8 DEF vars, setup, fwd, request, IInv, TypeOK, Given, Serving, Asking, OwnData, ApartProms, Used, Proms, HasProm
  <1>9. QED
    BY <1>1, <1>2, <1>3, <1>4, <1>5, <1>6, <1>7, <1>8 DEF Next

-----------------------------------------------------------------------------
\* Every variable has its type, and a forward's child listens at the port the
\* forward was given and at no other (forward, freePort).
THEOREM UiTypeCorrect == Spec => []TypeOK
  <1>1. IInv => TypeOK
    BY DEF IInv
  <1>2. QED
    BY InvInit, InvNext, <1>1, PTL DEF Spec

\* Whatever sessions end and start again, and whoever takes a port meanwhile,
\* a pool is shown its own data, for any number of pools, if no two pools'
\* Prometheus forwards were given one port (uiConfig, freePort, the label of Pool).
THEOREM PoolsShowOwnData == Spec => []PoolsOwnData
  <1>1. IInv => PoolsOwnData
    BY DEF IInv, OwnData, PoolsOwnData
  <1>2. QED
    BY InvInit, InvNext, <1>1, PTL DEF Spec
=============================================================================
