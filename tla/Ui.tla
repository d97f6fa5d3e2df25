--------------------------------- MODULE Ui ---------------------------------
(***************************************************************************)
(* `bbctl ui`: it looks for the nodes to read from, keeps one port forward *)
(* to each open, in a child `bbctl connect --forward` that is started again*)
(* whenever its session ends, and serves the pools' data from what answers *)
(* at the forwarded ports.                                                 *)
(*                                                                         *)
(* How the nodes of a stack are looked at is the business of Nodes; the    *)
(* login and the page are those of Dashboard.                              *)
(***************************************************************************)
EXTENDS Naturals, Sequences, Functions

CONSTANTS
  P,        \* the pools of the config, in its order
  Metrics,  \* those with enable_metrics
  HasMgmt,  \* there is a management plane with enable_metrics
  Ports,    \* the free local ports
  Q,        \* a view asks this many queries of a pool
  Free, Other  \* who listens at a port: nobody, another program

Pools == 1 .. P
NoPort == 0
NoPool == 0

\* The forwards: to the cluster API of the first pool, to the Prometheus of
\* mgmt, to that of each pool's first node that is online.
Gateway == P + 1
Mgmt == 0
Fwds == Pools \cup {Gateway, Mgmt}

ASSUME UiConstants ==
  /\ P \in Nat \ {0} /\ Metrics \subseteq Pools /\ HasMgmt \in BOOLEAN
  /\ Ports \subseteq Nat \ {0} /\ Q \in Nat \ {0}
  /\ {Free, Other} \cap Fwds = {} /\ Free # Other

VARIABLES
  phase,   \* of the command
  left,    \* the pools it has not looked at (--pool: only one is looked at)
  shown,   \* the pools that are shown
  mgmt,    \* mgmt has a node online
  calm,    \* from here on no session drops, no other program takes a port
           \* and nobody presses Ctrl-C
  port,    \* of each forward: its local port
  exited,  \* what the channel says of the first exit of its `bbctl connect`
  open,    \* how far forward() has got
  late,    \* its 60 seconds are over
  holder,  \* who listens at each port: another program, or a forward's child
  asked,   \* the pool of the request under way
  todo,    \* the queries that are still to be answered
  from,    \* the pools that the series received so far are of
  bad      \* a query has failed

setup == <<left, shown, mgmt>>
fwd == <<port, exited, open, late>>
request == <<asked, todo, from, bad>>
vars == <<phase, setup, calm, fwd, holder, request>>

Ended == phase \in {"failed", "ended"}

\* Those that are opened: mgmt's Prometheus has the series of all pools.
Proms == IF mgmt THEN {Mgmt} ELSE shown \cap Metrics
Used == IF shown = {} THEN {} ELSE {Gateway} \cup Proms

TypeOK ==
  /\ phase \in {"look", "open", "serve", "failed", "ended"}
  /\ left \in Seq(Pools) /\ shown \subseteq Pools
  /\ mgmt \in BOOLEAN /\ calm \in BOOLEAN
  /\ port \in [Fwds -> Ports \cup {NoPort}]
  /\ exited \in [Fwds -> {"no", "sent", "taken"}]
  /\ open \in [Fwds -> {"no", "dial", "select", "open", "failed"}]
  /\ holder \in [Ports -> Fwds \cup {Free, Other}]
  /\ \A q \in Ports : holder[q] \in Fwds => port[holder[q]] = q
  /\ late \in BOOLEAN
  /\ asked \in Pools \cup {NoPool} /\ todo \in 0 .. Q
  /\ from \subseteq Pools /\ bad \in BOOLEAN

NoRequest == asked = NoPool /\ todo = 0 /\ from = {} /\ bad = FALSE

Init ==
  /\ phase = "look"
  /\ left \in {[p \in Pools |-> p]} \cup {<<p>> : p \in Pools}
  /\ shown = {} /\ mgmt = FALSE /\ calm = FALSE
  /\ port = [f \in Fwds |-> NoPort]
  /\ exited = [f \in Fwds |-> "no"]
  /\ open = [f \in Fwds |-> "no"]
  /\ late = FALSE
  /\ holder = [q \in Ports |-> Free]
  /\ NoRequest

-----------------------------------------------------------------------------
(* uiConfig looks for a node of each pool; one without is left out.         *)

Look ==
  /\ phase = "look" /\ left # <<>>
  /\ left' = Tail(left)
  /\ shown' \in {shown, shown \cup {Head(left)}}
  /\ UNCHANGED <<phase, mgmt, calm, fwd, holder, request>>

\* The mgmt node, and then the forwards; without a pool to show there are none.
LookMgmt ==
  /\ phase = "look" /\ left = <<>>
  /\ mgmt' \in {FALSE, HasMgmt}
  /\ phase' = IF shown = {} THEN "failed" ELSE "open"
  /\ UNCHANGED <<left, shown, calm, fwd, holder, request>>

-----------------------------------------------------------------------------
(* forward(), and the child it keeps. *)

Put(v, f, x) == v' = [v EXCEPT ![f] = x]

\* freePort: nobody listens at the port at this moment, which says nothing of
\* the next one.  (Ports not given out yet are all the same: the first is taken.)
FreePorts ==
  LET free == {q \in Ports : holder[q] = Free}
      new == free \ Range(port)
  IN (free \cap Range(port)) \cup {q \in new : \A r \in new : q <= r}

\* Mutant of PickPort: a dial that fails takes another port, while the child
\* keeps the one it was given.
PickPortAgain(f) ==
  /\ phase = "open" /\ f \in Used /\ open[f] \in {"no", "select"}
  /\ \E q \in FreePorts : Put(port, f, q)
  /\ Put(open, f, "dial")
  /\ UNCHANGED <<phase, setup, calm, exited, late, holder, request>>

PickPort(f) ==
  /\ phase = "open" /\ f \in Used /\ open[f] = "no"
  /\ \E q \in FreePorts : Put(port, f, q)
  /\ Put(open, f, "dial")
  /\ UNCHANGED <<phase, setup, calm, exited, late, holder, request>>

NoFreePort(f) ==
  /\ phase = "open" /\ f \in Used /\ open[f] = "no"
  /\ Put(open, f, "failed")
  /\ UNCHANGED <<phase, setup, calm, port, exited, late, holder, request>>

Listens(f) == port[f] # NoPort /\ holder[port[f]] = f

\* Mutant of Listen: a forward that is open is not started again.
ListenWhileOpening(f) ==
  /\ ~Ended /\ port[f] # NoPort /\ holder[port[f]] = Free /\ open[f] # "open"
  /\ Put(holder, port[f], f)
  /\ UNCHANGED <<phase, setup, calm, fwd, request>>

\* The child, started or started again two seconds after its exit, has its
\* session and listens.
Listen(f) ==
  /\ ~Ended /\ port[f] # NoPort /\ holder[port[f]] = Free
  /\ Put(holder, port[f], f)
  /\ UNCHANGED <<phase, setup, calm, fwd, request>>

\* The session drops, or there is none.  forward() gets to know of the first
\* exit of the child, if it has not returned yet.
Drop(f) ==
  /\ ~Ended /\ ~calm /\ port[f] # NoPort
  /\ Listens(f) \/ (phase = "open" /\ exited[f] = "no")
  /\ holder' = [q \in Ports |-> IF holder[q] = f THEN Free ELSE holder[q]]
  /\ Put(exited, f, IF phase = "open" /\ exited[f] = "no" THEN "sent" ELSE exited[f])
  /\ UNCHANGED <<phase, setup, calm, port, open, late, request>>

\* The port is dialled: whoever listens there, the forward counts as open.
Dial(f) ==
  /\ phase = "open" /\ open[f] = "dial"
  /\ Put(open, f, IF holder[port[f]] # Free THEN "open" ELSE "select")
  /\ UNCHANGED <<phase, setup, calm, port, exited, late, holder, request>>

\* Otherwise: the child has exited, or the time is over, or it is dialled again.
Exit(f) ==
  /\ phase = "open" /\ open[f] = "select" /\ exited[f] = "sent"
  /\ Put(exited, f, "taken") /\ Put(open, f, "failed")
  /\ UNCHANGED <<phase, setup, calm, port, late, holder, request>>

Deadline(f) ==
  /\ phase = "open" /\ open[f] = "select" /\ late
  /\ Put(open, f, "failed")
  /\ UNCHANGED <<phase, setup, calm, port, exited, late, holder, request>>

\* Mutant of Again: the deadline is set anew for every dial.
AgainWithoutEnd(f) ==
  /\ phase = "open" /\ open[f] = "select" /\ exited[f] # "sent"
  /\ Put(open, f, "dial") /\ late' = FALSE
  /\ UNCHANGED <<phase, setup, calm, port, exited, holder, request>>

Again(f) ==
  /\ phase = "open" /\ open[f] = "select" /\ exited[f] # "sent" /\ ~late
  /\ Put(open, f, "dial")
  /\ UNCHANGED <<phase, setup, calm, port, exited, late, holder, request>>

\* All forwards are waited for; one that failed ends the command.
Opened ==
  /\ phase = "open" /\ \A f \in Used : open[f] \in {"open", "failed"}
  /\ phase' = IF \E f \in Used : open[f] = "failed" THEN "failed" ELSE "serve"
  /\ exited' = [f \in Fwds |-> "no"]  \* nobody reads it any more
  /\ late' = FALSE
  /\ UNCHANGED <<setup, calm, port, open, holder, request>>

-----------------------------------------------------------------------------
(* The server: all queries of a view are asked at once, of every pool of the *)
(* request; the pools do not touch each other, so this follows one of them.  *)

HasProm(p) == mgmt \/ p \in Metrics

\* The forward that the pool's queries go through.
PromOf(p) == IF mgmt THEN Mgmt ELSE p

\* Mutant of Label: mgmt's Prometheus is asked for every pool's series.
NoLabel(p) == NoPool
\* The pool that the query's label names, if it has one.
Label(p) == IF mgmt THEN p ELSE NoPool

\* What a forward's Prometheus has under a label: mgmt's has the series of all
\* pools, labelled; a pool's own has its series without a label.
Series(f, label) ==
  IF f = Mgmt THEN IF label = NoPool THEN shown ELSE {label}
  ELSE IF label = NoPool THEN {f} ELSE {}

\* The pool has metrics, or gets a warning instead of rows (errNoMetrics).
Request ==
  /\ phase = "serve" /\ asked = NoPool
  /\ asked' \in shown
  /\ todo' = IF HasProm(asked') THEN Q ELSE 0
  /\ bad' = ~HasProm(asked')
  /\ UNCHANGED <<phase, setup, calm, fwd, holder, from>>

\* Whoever listens at the port answers: a Prometheus with the series it has.
Query ==
  /\ phase = "serve" /\ todo > 0
  /\ LET f == holder[port[PromOf(asked)]]
     IN /\ f \in Fwds \ {Gateway}
        /\ from' = from \cup Series(f, Label(asked))
  /\ todo' = todo - 1
  /\ UNCHANGED <<phase, setup, calm, fwd, holder, asked, bad>>

\* No connection, an error, an answer that is no Prometheus', or none in time.
QueryFails ==
  /\ phase = "serve" /\ todo > 0
  /\ bad' = TRUE /\ todo' = todo - 1
  /\ UNCHANGED <<phase, setup, calm, fwd, holder, asked, from>>

\* The answer has rows of the pool if all its queries succeeded, else a warning.
Rows == asked # NoPool /\ todo = 0 /\ ~bad

Forget == asked' = NoPool /\ todo' = 0 /\ from' = {} /\ bad' = FALSE

Answer ==
  /\ phase = "serve" /\ asked # NoPool /\ todo = 0
  /\ Forget
  /\ UNCHANGED <<phase, setup, calm, fwd, holder>>

-----------------------------------------------------------------------------
(* What happens around it. *)

\* One other program, which is no Prometheus; what matters are the ports that
\* have been given out.
Takes(q) ==
  /\ ~Ended /\ ~calm /\ \A r \in Ports : holder[r] # Other
  /\ q \in Range(port) /\ holder[q] = Free
  /\ Put(holder, q, Other)
  /\ UNCHANGED <<phase, setup, calm, fwd, request>>

Leaves(q) ==
  /\ ~Ended /\ holder[q] = Other
  /\ Put(holder, q, Free)
  /\ UNCHANGED <<phase, setup, calm, fwd, request>>

\* The children are killed with the command.
Interrupt ==
  /\ ~Ended /\ ~calm
  /\ phase' = "ended"
  /\ holder' = [q \in Ports |-> IF holder[q] = Other THEN Other ELSE Free]
  /\ Forget
  /\ UNCHANGED <<setup, calm, fwd>>

Clock ==
  /\ phase = "open" /\ ~late /\ late' = TRUE
  /\ UNCHANGED <<phase, setup, calm, port, exited, open, holder, request>>

Calm ==
  /\ phase = "serve" /\ ~calm /\ calm' = TRUE
  /\ UNCHANGED <<phase, setup, fwd, holder, request>>

-----------------------------------------------------------------------------
Forwarding(f) ==
  PickPort(f) \/ NoFreePort(f) \/ Dial(f) \/ Exit(f) \/ Deadline(f) \/ Again(f)

Next ==
  \/ Look \/ LookMgmt \/ Opened \/ Clock
  \/ \E f \in Fwds : Listen(f) \/ Drop(f) \/ Forwarding(f)
  \/ Request \/ Query \/ QueryFails \/ Answer
  \/ \E q \in Ports : Takes(q) \/ Leaves(q)
  \/ Interrupt \/ Calm

\* The calls of the command return, the children run, and time passes.
Fairness ==
  /\ WF_vars(Look \/ LookMgmt \/ Opened) /\ WF_vars(Clock)
  /\ \A f \in Fwds : WF_vars(Listen(f)) /\ WF_vars(Forwarding(f))
  /\ WF_vars(Query \/ QueryFails \/ Answer)

Spec == Init /\ [][Next]_vars /\ Fairness

-----------------------------------------------------------------------------
(* Properties *)

\* No two forwards were given the same port ...
Distinct == \A f, g \in Used : f # g => port[f] # port[g]

\* ... and no other program has one.
OwnPorts ==
  /\ Distinct
  /\ \A f \in Used : port[f] \in Ports => holder[port[f]] # Other

\* No two pools' Prometheus forwards were given the same port.
ApartProms == \A f, g \in Proms : f # g => port[f] # port[g]

\* The rows shown under a pool are that pool's, whatever sessions end and
\* start again meanwhile and whoever else was given or took the port: another
\* program, the gateway's forward.  Two pools' own forwards given one port are
\* the exception; where mgmt's Prometheus is asked there is none, as the label
\* tells the pools apart (uiConfig, Label of Pool, freePort).
PoolsOwnData == ApartProms => (Rows => from \subseteq {asked})

\* The command does not hang before it serves, and no request hangs: each
\* ends by an answer or at a deadline (forward, each, plainClient).
NothingHangs ==
  /\ phase \in {"look", "open"} ~> phase \notin {"look", "open"}
  /\ asked # NoPool ~> asked = NoPool

\* Once sessions hold and the ports are the forwards' own, every forward is
\* open again, and stays so (forward).
ForwardsRecover ==
  (phase = "serve" /\ calm /\ OwnPorts) ~> [](\A f \in Used : Listens(f))
=============================================================================
