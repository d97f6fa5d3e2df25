------------------------------- MODULE Panels -------------------------------
(***************************************************************************)
(* The answers of the dashboard's server: a request names a view, pools    *)
(* and, for a chart, what is drawn in which time; the pools are asked all  *)
(* at once, and what they answer is put together.  A pool that fails costs *)
(* its own rows and lines only.                                            *)
(*                                                                         *)
(* How a pool's Prometheus is reached is the business of Ui, who may ask   *)
(* that of Dashboard.                                                      *)
(***************************************************************************)
EXTENDS Integers, Sequences, FiniteSets, FiniteSetsExt

CONSTANTS
  Pools,    \* the pools that are shown
  Metrics,  \* those with a Prometheus
  NoPool,   \* a name that no pool has
  NoIp,     \* a label that is no address
  Ips,      \* the nodes
  Items,    \* volumes, snapshots, devices, panels' lines: what there are several of
  Failed,   \* the answer of a pool that has no metrics, or one of whose queries failed
  Rich,     \* bound: the pools whose answers vary; the others answer with nothing
  MaxDisks, \* bound: the disks of a pool's caches
  Gaps,     \* bound: the times at which a series has no values
  Times,    \* bound: what the page gives as ?from= and ?to=
  Ranges,   \* bound: what it gives as ?range=
  Now, Scrape, Points,       \* the time; the finest step; how many points a chart has
  Shortest, Longest, Usual   \* the ranges that are allowed; the one taken otherwise

\* What is assumed of them.
PanelsConstants ==
  /\ Metrics \subseteq Pools /\ NoPool \notin Pools /\ NoIp \notin Ips
  /\ MaxDisks \in Nat /\ Gaps \subseteq SUBSET Int
  /\ Times \subseteq Nat /\ Ranges \subseteq Nat
  /\ {Now, Scrape, Points, Shortest, Longest, Usual} \subseteq Nat \ {0}
  /\ Shortest <= Usual /\ Usual <= Longest /\ Longest <= Now

VARIABLES
  pc,       \* "idle", "asking" the pools, "answered"
  request,  \* the request under way
  replies,  \* what the pools asked have answered so far
  answer    \* what the page gets

vars == <<pc, request, replies, answer>>

Tables == {"overview", "cache", "volumes", "snapshots"}
\* Charts of nodes and of volumes, each with the items picked; and the panels
\* and values of one host.
Charts == {"series", "volumeSeries"}
Hosts == {"hostSeries", "hostQuick"}

Windows == [from : Times, to : Times] \cup [range : Ranges]
Requests ==
  [view : Tables, pools : SUBSET (Pools \cup {NoPool})]
    \cup [view : Charts, pools : {{}} \cup {{p} : p \in Pools \cup {NoPool}},
          picked : SUBSET (Pools \X Items), window : Windows]
    \cup [view : Hosts, pools : {{p} : p \in Pools \cup {NoPool}}, ip : Ips \cup {NoIp}, window : Windows]

-----------------------------------------------------------------------------
(* The time a chart shows. *)

Asked(w) == "range" \notin DOMAIN w /\ w.to - w.from \in Shortest .. Longest
Span(w) == IF "range" \in DOMAIN w /\ w.range \in Shortest .. Longest THEN w.range ELSE Usual

\* ?from= and ?to=, as far as it has passed, or else the last ?range= seconds.
Start(w) == IF Asked(w) THEN w.from ELSE Now - Span(w)
End(w) == IF Asked(w) THEN Min({w.to, Now}) ELSE Now
\* A negative time, of a window to come, is divided towards zero.
Step(w) == Max({IF End(w) < Start(w) THEN 0 ELSE (End(w) - Start(w)) \div Points, Scrape})

Between(w) == {t \in Start(w) .. End(w) : (t - Start(w)) % Step(w) = 0}

\* Mutant of Grid: the end is not on it.
GridOpen(w) ==
  [i \in 1 .. (End(w) - Start(w) + Step(w) - 1) \div Step(w) |-> Start(w) + (i - 1) * Step(w)]
Grid(w) == [i \in 1 .. (End(w) - Start(w)) \div Step(w) + 1 |-> Start(w) + (i - 1) * Step(w)]

Spacing(grid) == IF Len(grid) > 1 THEN grid[2] - grid[1] ELSE 1

\* addLine: the values of a series on the grid; points that are not on it are
\* dropped.
Values(grid, points) ==
  [i \in DOMAIN grid |->
     \E t \in points : (t - grid[1]) % Spacing(grid) = 0 /\ (t - grid[1]) \div Spacing(grid) = i - 1]

-----------------------------------------------------------------------------
(* What a pool answers: samples, in any order, with the labels that matter. *)

\* A node as its cluster, as `up` and as node_exporter know it.
NodeReplies ==
  [members : SUBSET (Ips \cup {NoIp}), up : [Ips -> {"none", "up", "down"}], hosts : SUBSET (Ips \cup {NoIp})]

\* A disk of a node's cache: its sample says what the RAID is like, too.  And
\* the mounts that are down; those of a device belong to one node.
Disk == [ip : Ips, value : BOOLEAN, noFailed : BOOLEAN, stateOk : BOOLEAN]
CacheReplies ==
  [disks : UNION {[1 .. n -> Disk] : n \in 0 .. MaxDisks}, mounts : SUBSET (Items \X {"rw", "r"})]

\* Volumes with their "ready"; snapshots, and those that there are stats of.
VolumeReplies == UNION {[S -> BOOLEAN] : S \in SUBSET Items}
SnapshotReplies == [snapshots : SUBSET Items, stats : SUBSET Items]

\* The times at which each series has a value.
ChartReplies(w, drawn) == [drawn -> {Between(w) \ g : g \in Gaps}]

Drawn(r, p) == IF r.view \in Charts THEN {i \in Items : <<p, i>> \in r.picked} ELSE Items

Replies(r, p) ==
  CASE r.view = "overview" -> NodeReplies
    [] r.view = "cache" -> CacheReplies
    [] r.view = "volumes" -> VolumeReplies
    [] r.view = "snapshots" -> SnapshotReplies
    [] r.view = "hostQuick" -> SUBSET Items
    [] OTHER -> ChartReplies(r.window, Drawn(r, p))

\* A cluster without nodes, a Prometheus without series.
Quiet(r, p) ==
  CASE r.view = "overview" -> [members |-> {}, up |-> [i \in Ips |-> "none"], hosts |-> {}]
    [] r.view = "cache" -> [disks |-> <<>>, mounts |-> {}]
    [] r.view = "volumes" -> <<>>
    [] r.view = "snapshots" -> [snapshots |-> {}, stats |-> {}]
    [] r.view = "hostQuick" -> {}
    [] OTHER -> [i \in Drawn(r, p) |-> {}]

\* Prometheus refuses a range that ends before it starts.
Answers(r, p) ==
  IF p \notin Metrics \/ (r.view \in Charts \cup {"hostSeries"} /\ End(r.window) < Start(r.window)) THEN {}
  ELSE IF p \in Rich THEN Replies(r, p)
  ELSE {Quiet(r, p)}

-----------------------------------------------------------------------------
(* The rows and lines of one pool. *)

\* Mutant of Nodes: only what the cluster knows.
NodesOfCluster(a) == a.members \ {NoIp}
\* The cluster's nodes, and any that only `up` or node_exporter knows.
Nodes(a) == (a.members \cup {i \in Ips : a.up[i] # "none"} \cup a.hosts) \ {NoIp}

NodeRows(p, a) ==
  {[pool |-> p, ip |-> i, reports |-> i \in a.members, service |-> a.up[i], kernel |-> i \in a.hosts]
     : i \in Nodes(a)}

\* Mutant of AddDisk: the checks of the last disk decide.
AddDiskLast(raids, d) ==
  [i \in DOMAIN raids \cup {d.ip} |->
     IF i = d.ip THEN [noFailed |-> d.noFailed, stateOk |-> d.stateOk, ok |-> d.value /\ d.noFailed /\ d.stateOk]
     ELSE raids[i]]

\* The sample of a disk makes a RAID of its node, or adds to it.
AddDisk(raids, d) ==
  LET r == IF d.ip \in DOMAIN raids THEN raids[d.ip] ELSE [noFailed |-> TRUE, stateOk |-> TRUE, ok |-> TRUE]
      noFailed == r.noFailed /\ d.noFailed
      stateOk == r.stateOk /\ d.stateOk
      new == [noFailed |-> noFailed, stateOk |-> stateOk, ok |-> r.ok /\ d.value /\ noFailed /\ stateOk]
  IN [i \in DOMAIN raids \cup {d.ip} |-> IF i = d.ip THEN new ELSE raids[i]]

\* One disk after the other.
Raids(disks) ==
  LET raids[n \in 0 .. Len(disks)] == IF n = 0 THEN <<>> ELSE AddDisk(raids[n - 1], disks[n])
  IN raids[Len(disks)]

RaidRows(p, a) ==
  LET raids == Raids(a.disks)
  IN {[pool |-> p, ip |-> i, raid |-> raids[i]] : i \in DOMAIN raids}

MountRows(p, a) == {[pool |-> p, device |-> m[1], kind |-> m[2]] : m \in a.mounts}

VolumeRows(p, a) == {[pool |-> p, name |-> i, ready |-> a[i]] : i \in DOMAIN a}

\* A stat without a snapshot is not shown.
SnapshotRows(p, a) == {[pool |-> p, name |-> i, stats |-> i \in a.stats] : i \in a.snapshots}

\* The lines on the grid of the chart.
Lines(p, w, a) == {[pool |-> p, item |-> i, values |-> Values(Grid(w), a[i])] : i \in DOMAIN a}

Rows(r, p, a) ==
  CASE r.view = "overview" -> NodeRows(p, a)
    [] r.view = "cache" -> RaidRows(p, a) \cup MountRows(p, a)
    [] r.view = "volumes" -> VolumeRows(p, a)
    [] r.view = "snapshots" -> SnapshotRows(p, a)
    [] r.view = "hostQuick" -> {[pool |-> p, name |-> i] : i \in a}
    [] OTHER -> Lines(p, r.window, a)

\* The tiles above a table: what is down, or not ready.
Down(r, rows) ==
  CASE r.view = "cache" -> {[pool |-> x.pool, ip |-> x.ip] : x \in {x \in rows : "raid" \in DOMAIN x /\ ~x.raid.ok}}
                             \cup {[pool |-> x.pool, device |-> x.device] : x \in {x \in rows : "device" \in DOMAIN x}}
    [] r.view = "volumes" -> {[pool |-> x.pool, name |-> x.name] : x \in {x \in rows : ~x.ready}}
    [] OTHER -> {}

-----------------------------------------------------------------------------
NoRequest == [view |-> "none"]
NoAnswer == [status |-> 0]
BadRequest == [status |-> 400]
BadGateway == [status |-> 502]

Init == pc = "idle" /\ request = NoRequest /\ replies = <<>> /\ answer = NoAnswer

\* Of the pools that the request names: all of them if it names none.
Selected(r) == IF r.pools = {} THEN Pools ELSE r.pools

\* Those that something is drawn of.
Shown(r) ==
  IF r.view \in Charts THEN {p \in Selected(r) : \E i \in Items : <<p, i>> \in r.picked}
  ELSE Selected(r)

Refused(r) ==
  \/ NoPool \in r.pools
  \/ r.view \in Hosts /\ (r.ip = NoIp \/ ~(r.pools \subseteq Metrics))

Ask ==
  /\ pc = "idle"
  /\ \E r \in Requests :
       /\ request' = r
       /\ IF Refused(r)
          THEN pc' = "answered" /\ answer' = BadRequest
          ELSE pc' = "asking" /\ UNCHANGED answer
  /\ UNCHANGED replies

\* All queries of a pool have been answered, or one has failed.
Reply(p) ==
  /\ pc = "asking" /\ p \in Shown(request) \ DOMAIN replies
  /\ \E a \in Answers(request, p) \cup {Failed} :
       replies' = [q \in DOMAIN replies \cup {p} |-> IF q = p THEN a ELSE replies[q]]
  /\ UNCHANGED <<pc, request, answer>>

\* Mutant of Warned: a pool without metrics is passed over.
WarnedOfErrors == {p \in DOMAIN replies : p \in Metrics /\ replies[p] = Failed}
Warned == {p \in DOMAIN replies : replies[p] = Failed}

\* What the pools have answered is put together.
Put(a) ==
  /\ pc = "asking" /\ DOMAIN replies = Shown(request)
  /\ pc' = "answered" /\ answer' = a
  /\ UNCHANGED <<request, replies>>

AllRows == UNION {Rows(request, p, replies[p]) : p \in {p \in DOMAIN replies : replies[p] # Failed}}

AnswerTable ==
  /\ request.view \in Tables
  /\ Put([status |-> 200, warnings |-> Warned, rows |-> AllRows, down |-> Down(request, AllRows)])

AnswerChart ==
  /\ request.view \in Charts
  /\ Put([status |-> 200, warnings |-> Warned, rows |-> AllRows])

\* Of one host nothing is shown if a query failed.
AnswerHost ==
  /\ request.view \in Hosts
  /\ Put(IF Warned # {} THEN BadGateway ELSE [status |-> 200, warnings |-> {}, rows |-> AllRows])

Again ==
  /\ pc = "answered" /\ pc' = "idle"
  /\ request' = NoRequest /\ replies' = <<>> /\ answer' = NoAnswer

Next == Ask \/ (\E p \in Pools : Reply(p)) \/ AnswerTable \/ AnswerChart \/ AnswerHost \/ Again

Spec == Init /\ [][Next]_vars

-----------------------------------------------------------------------------
(* Properties *)

RowsOf(p) == {x \in answer.rows : x.pool = p}

\* Each node that anything knows has one row, and each RAID is broken if and
\* only if one of its disks says so, in whatever order they come.  A device
\* with two broken mounts is one that is down.
TableComplete(p, a) ==
  /\ request.view = "overview" =>
       \A i \in Ips :
         Cardinality({x \in RowsOf(p) : x.ip = i})
           = IF i \in a.members \cup a.hosts \/ a.up[i] # "none" THEN 1 ELSE 0
  /\ request.view = "cache" =>
       /\ \A i \in Ips :
            ([pool |-> p, ip |-> i] \in answer.down)
              <=> \E k \in DOMAIN a.disks :
                    a.disks[k].ip = i /\ ~(a.disks[k].value /\ a.disks[k].noFailed /\ a.disks[k].stateOk)
       /\ \A d \in Items : ([pool |-> p, device |-> d] \in answer.down) <=> \E m \in a.mounts : m[1] = d
  /\ request.view = "volumes" =>
       \A i \in DOMAIN a : ([pool |-> p, name |-> i] \in answer.down) <=> ~a[i]

\* Every value Prometheus has is drawn at its time, and no other, and no more
\* lines are than were asked for.
ChartComplete(p, a) ==
  LET w == request.window
  IN \A i \in Drawn(request, p) :
       \E x \in RowsOf(p) :
         /\ x.item = i
         /\ \A t \in a[i] : \E k \in DOMAIN x.values : x.values[k] /\ Grid(w)[k] = t
         /\ Cardinality({k \in DOMAIN x.values : x.values[k]}) = Cardinality(a[i])

\* Of every pool that was asked the page gets all that it answered, or else a
\* warning (each, overview, cache, volumes, snapshots, drawPanel, addLine).
AnswerIsComplete ==
  pc = "answered" /\ answer.status = 200 =>
    \A p \in Shown(request) :
      IF replies[p] = Failed
      THEN p \in answer.warnings /\ RowsOf(p) = {}
      ELSE /\ p \notin answer.warnings
           /\ request.view \in Tables => TableComplete(p, replies[p])
           /\ request.view \in Charts \cup {"hostSeries"} => ChartComplete(p, replies[p])
=============================================================================
