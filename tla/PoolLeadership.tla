----------------------------- MODULE PoolLeadership -----------------------------
(***************************************************************************)
(* Who coordinates a pool.                                                 *)
(*                                                                         *)
(* The replicas of a designated coordinator contend through Redis          *)
(* (election.py, run from PoolCoordinator.tick); the nodes of a pool-auto  *)
(* elect one through RabbitMQ (bully.py).  Both hold the lease             *)
(* pool:leader:<pool_id>, where a designated coordinator comes before an   *)
(* elected one.                                                            *)
(*                                                                         *)
(* The proof of work of an election is a step that takes any time.  Time   *)
(* is left to guards: the lease of a coordinator that renews it does not   *)
(* run out, and a node does not miss a leader whose heartbeats arrive,     *)
(* unless one of the MaxEvents pauses it.                                  *)
(***************************************************************************)
EXTENDS Naturals, Sequences, SequencesExt

CONSTANTS
  Node, None,
  Pools,        \* the pools to check: the rank of each of their nodes
  HasRedis,     \* pool-auto works without Redis too
  Restarts,     \* whether a node that is down comes back
  MaxEvents     \* bound on crashes, stops and pauses

Rank == {"designated", "elected"}

ASSUME LeadershipAssumption ==
  /\ Pools \subseteq [Node -> Rank] /\ None \notin Node
  /\ HasRedis \in BOOLEAN /\ Restarts \in BOOLEAN /\ MaxEvents \in Nat

VARIABLES
  rank,     \* lease_rank of each node, which never changes
  lease,    \* pool:leader:<pool_id>
  claim,    \* pool:election:<pool_id>:<epoch> of the epoch that runs
  inbox,    \* what each node has to read from the exchange pool.election
  node,     \* the process of each node
  events

vars == <<rank, lease, claim, inbox, node, events>>

Message == [type : {"claim", "heartbeat"}, from : Node]
Claim(n) == [type |-> "claim", from |-> n]
Heartbeat(n) == [type |-> "heartbeat", from |-> n]

\* up: new and down are processes to start, gone one that never will.
\* leads: is_leader of its PoolCoordinator, if it has one.  contest: the thread of
\* its election in Redis.  lease and saw: an access to the lease under way.
\* electing, solving, pending: _election_in_progress, the thread of _solve_pow and
\* _pending_claim.  heard: _last_heartbeat is recent.
Stopped(up) ==
  [up |-> up, leads |-> FALSE, standby |-> FALSE, contest |-> "none",
   access |-> "none", saw |-> None, state |-> "candidate", leader |-> None,
   electing |-> FALSE, solving |-> FALSE, pending |-> FALSE, heard |-> FALSE]

TypeOK ==
  /\ rank \in Pools /\ lease \in Node \cup {None} /\ claim \in Node \cup {None}
  /\ inbox \in [Node -> Seq(Message)] /\ events \in 0..MaxEvents
  /\ \A n \in Node :
       /\ node[n].up \in {"new", "up", "down", "gone"}
       /\ node[n].contest \in {"none", "begun", "pow", "won", "done", "lost"}
       /\ node[n].access \in {"none", "renew", "release"}
       /\ node[n].saw \in Node \cup {None} /\ node[n].leader \in Node \cup {None}
       /\ node[n].state = "coordinator" <=> node[n].leader = n
       /\ node[n].state = "coordinator" => node[n].leads
       /\ node[n].leads => node[n].up = "up" /\ ~node[n].standby
       /\ rank[n] = "elected" => node[n].contest = "none"

Init ==
  /\ rank \in Pools
  /\ lease = None /\ claim = None
  /\ inbox = [n \in Node |-> <<>>]
  /\ node = [n \in Node |-> Stopped("new")]
  /\ events = 0

Up(n) == node[n].up = "up"
Designated(n) == Up(n) /\ rank[n] = "designated"
Elected(n) == Up(n) /\ rank[n] = "elected"
OutranksOrTies(m, n) == rank[m] = "designated" \/ rank[n] = "elected"
Outranks(m, n) == rank[m] = "designated" /\ rank[n] = "elected"

Becomes(n, p) == node' = [node EXCEPT ![n] = p]
Happens == events < MaxEvents /\ events' = events + 1
redis == <<lease, claim>>

-----------------------------------------------------------------------------
\* The election of designated coordinators.

\* _maybe_start_election: a lease of the same rank or more makes it wait.
Held(n) == lease \notin {None, n} /\ ~Outranks(n, lease)

Contend(n) ==
  /\ Designated(n) /\ HasRedis /\ ~node[n].leads /\ node[n].contest = "none"
  /\ node[n].standby => ~Held(n)
  /\ Becomes(n, IF Held(n) THEN [node[n] EXCEPT !.standby = TRUE]
                ELSE [node[n] EXCEPT !.standby = FALSE, !.contest = "begun"])
  /\ UNCHANGED <<rank, redis, inbox, events>>

\* run_pool_election, first part
SeeClaim(n) ==
  /\ Up(n) /\ node[n].contest = "begun"
  /\ Becomes(n, [node[n] EXCEPT !.contest = IF claim = None THEN "pow" ELSE "lost"])
  /\ UNCHANGED <<rank, redis, inbox, events>>

\* The proof is solved within the epoch, and SET NX
Win(n) ==
  /\ Up(n) /\ node[n].contest = "pow"
  /\ claim' = IF claim = None THEN n ELSE claim
  /\ Becomes(n, [node[n] EXCEPT !.contest = IF claim = None THEN "won" ELSE "lost"])
  /\ UNCHANGED <<rank, lease, inbox, events>>

SetLease(n) ==
  /\ Up(n) /\ node[n].contest = "won"
  /\ lease' = n
  /\ Becomes(n, [node[n] EXCEPT !.contest = "done"])
  /\ UNCHANGED <<rank, claim, inbox, events>>

\* tick collects the result.
Collect(n) ==
  /\ Up(n) /\ node[n].contest \in {"done", "lost"}
  /\ Becomes(n, IF node[n].contest = "lost" THEN [node[n] EXCEPT !.contest = "none"]
                ELSE [node[n] EXCEPT !.contest = "none", !.standby = FALSE, !.leads = TRUE,
                                     !.state = "coordinator", !.leader = n])
  /\ UNCHANGED <<rank, redis, inbox, events>>

\* An election takes much less than an epoch, unless it is paused.  Who is still
\* at work on its proof in the next one gives up.
NextEpoch ==
  /\ IF \E n \in Node : node[n].contest \in {"pow", "won"} THEN Happens
     ELSE claim # None /\ UNCHANGED events
  /\ claim' = None
  /\ node' = [n \in Node |-> IF node[n].contest = "pow"
                             THEN [node[n] EXCEPT !.contest = "lost"] ELSE node[n]]
  /\ UNCHANGED <<rank, lease, inbox>>

-----------------------------------------------------------------------------
\* The lease, in the ticks of whoever leads: it is read and then written, at once
\* unless the process is paused in between.

Idle(n) == [node[n] EXCEPT !.access = "none", !.saw = None]

RetiresWithServer(n) == [Idle(n) EXCEPT !.leads = FALSE, !.standby = Designated(n), !.heard = Elected(n)]
\* on_lost_leadership: the bully stops its coordinator and waits for another.
Retires(n) ==
  [Idle(n) EXCEPT !.leads = FALSE, !.state = "candidate", !.leader = None,
                  !.standby = Designated(n), !.heard = Elected(n)]

\* renew_leadership, having read that m holds the lease
RenewWithoutRank(n, m) ==
  LET mine == m \in {None, n}
  IN  /\ lease' = IF mine THEN n ELSE lease
      /\ Becomes(n, IF mine THEN Idle(n) ELSE Retires(n))
      /\ UNCHANGED <<rank, claim, inbox, events>>
RenewHaving(n, m) ==
  LET mine == m \in {None, n} \/ Outranks(n, m)
  IN  /\ lease' = IF mine THEN n ELSE lease
      /\ Becomes(n, IF mine THEN Idle(n) ELSE Retires(n))
      /\ UNCHANGED <<rank, claim, inbox, events>>

Leads(n) == HasRedis /\ node[n].leads /\ node[n].access = "none"
Renew(n) == Leads(n) /\ RenewHaving(n, lease)

PauseInRenewal(n) ==
  /\ Leads(n)
  /\ Happens
  /\ Becomes(n, [node[n] EXCEPT !.access = "renew", !.saw = lease])
  /\ UNCHANGED <<rank, redis, inbox>>

RenewLate(n) == node[n].access = "renew" /\ RenewHaving(n, node[n].saw)

\* stop, and release_leadership
Stop(n) ==
  /\ Up(n) /\ node[n].access = "none"
  /\ Happens
  /\ Becomes(n, IF node[n].leads /\ HasRedis
                THEN [node[n] EXCEPT !.access = "release", !.saw = lease]
                ELSE Stopped(IF Restarts THEN "down" ELSE "gone"))
  /\ inbox' = [inbox EXCEPT ![n] = IF node[n].leads /\ HasRedis THEN @ ELSE <<>>]
  /\ UNCHANGED <<rank, redis>>

Release(n) ==
  /\ Up(n) /\ node[n].access = "release"
  /\ lease' = IF node[n].saw = n THEN None ELSE lease
  /\ Becomes(n, Stopped(IF Restarts THEN "down" ELSE "gone"))
  /\ inbox' = [inbox EXCEPT ![n] = <<>>]
  /\ UNCHANGED <<rank, claim, events>>

\* 10 s without a renewal.  A winner becomes the leader at once.
Renewed == lease # None /\ (node[lease].leads \/ node[lease].contest = "done")
LeaseExpires ==
  /\ lease # None
  /\ IF Renewed THEN Happens ELSE UNCHANGED events
  /\ lease' = None
  /\ UNCHANGED <<rank, claim, inbox, node>>

-----------------------------------------------------------------------------
\* The election of a pool-auto.

\* tick of a candidate.  A message takes much less than the second between ticks:
\* before the next one a node has read its own claim.
Elect(n) ==
  /\ Elected(n) /\ node[n].state = "candidate"
  /\ ~node[n].pending /\ ~node[n].heard /\ ~node[n].electing
  /\ inbox[n] = <<>>
  /\ Becomes(n, [node[n] EXCEPT !.electing = TRUE, !.solving = TRUE])
  /\ UNCHANGED <<rank, redis, inbox, events>>

\* _solve_pow, whatever has become of the node meanwhile
Solve(n) ==
  /\ Elected(n) /\ node[n].solving
  /\ Becomes(n, [node[n] EXCEPT !.solving = FALSE, !.pending = TRUE])
  /\ UNCHANGED <<rank, redis, inbox, events>>

Publish(n) ==
  /\ Elected(n) /\ node[n].state = "candidate" /\ node[n].pending
  /\ inbox' = [m \in Node |-> IF Elected(m) THEN inbox[m] \o <<Claim(n)>> ELSE inbox[m]]
  /\ Becomes(n, [node[n] EXCEPT !.pending = FALSE, !.electing = FALSE])
  /\ UNCHANGED <<rank, redis, events>>

\* tick of a coordinator.  A second heartbeat before the first is read says nothing.
Listens(m, n) == m # n /\ Elected(m) /\ ~Contains(inbox[m], Heartbeat(n))
Beat(n) ==
  /\ Elected(n) /\ node[n].state = "coordinator"
  /\ \E m \in Node : Listens(m, n)
  /\ inbox' = [m \in Node |-> IF Listens(m, n) THEN inbox[m] \o <<Heartbeat(n)>>
                              ELSE inbox[m]]
  /\ UNCHANGED <<rank, redis, node, events>>

FollowsAfterTimeout(n, m) == [node[n] EXCEPT !.pending = FALSE, !.heard = node[n].state = "candidate"]

\* _become_miner, for a candidate; any other node only takes note.
Follows(n, m) ==
  IF node[n].state = "candidate"
  THEN [node[n] EXCEPT !.state = "miner", !.leader = m, !.pending = FALSE, !.heard = FALSE]
  ELSE [node[n] EXCEPT !.pending = FALSE]

\* _handle_message
Receive(n) ==
  /\ Elected(n) /\ inbox[n] # <<>>
  /\ inbox' = [inbox EXCEPT ![n] = Tail(@)]
  /\ LET msg == Head(inbox[n]) IN Becomes(n,
       IF msg.type = "heartbeat" THEN Follows(n, msg.from)
       ELSE IF node[n].state # "candidate" THEN node[n]
       ELSE IF msg.from # n THEN Follows(n, msg.from)
       ELSE [node[n] EXCEPT !.state = "coordinator", !.leader = n, !.leads = TRUE, !.heard = FALSE])
  /\ UNCHANGED <<rank, redis, events>>

\* LEADER_TIMEOUT, twice of it for a miner: much longer than a message takes
Beating(n) ==
  \/ \E m \in Node \ {n} : Elected(m) /\ node[m].state = "coordinator"
  \/ \E m \in Node : inbox[m] # <<>>
TimesOut(n) ==
  /\ Elected(n) /\ (node[n].state = "miner" \/ node[n].heard)
  /\ IF Beating(n) THEN Happens ELSE UNCHANGED events
  /\ Becomes(n, [node[n] EXCEPT !.state = "candidate", !.leader = None, !.heard = FALSE])
  /\ UNCHANGED <<rank, redis, inbox>>

-----------------------------------------------------------------------------
\* It takes longer than what was left to read.
Boot(n) ==
  /\ node[n].up \in {"new", "down"}
  /\ \A m \in Node : inbox[m] = <<>>
  /\ Becomes(n, Stopped("up"))
  /\ UNCHANGED <<rank, redis, inbox, events>>

Crash(n) ==
  /\ Up(n)
  /\ Happens
  /\ Becomes(n, Stopped(IF Restarts THEN "down" ELSE "gone"))
  /\ inbox' = [inbox EXCEPT ![n] = <<>>]
  /\ UNCHANGED <<rank, redis>>

\* What goes on by itself
Works(n) ==
  \/ Contend(n) \/ SeeClaim(n) \/ Win(n) \/ SetLease(n) \/ Collect(n)
  \/ Renew(n) \/ RenewLate(n) \/ Release(n)
  \/ Elect(n) \/ Solve(n) \/ Publish(n)

Next ==
  \/ \E n \in Node :
       \/ Works(n) \/ PauseInRenewal(n) \/ Beat(n) \/ Receive(n)
       \/ TimesOut(n) \/ Boot(n) \/ Stop(n) \/ Crash(n)
  \/ LeaseExpires \/ NextEpoch

Fairness ==
  /\ \A n \in Node :
       /\ WF_vars(Works(n)) /\ WF_vars(Beat(n)) /\ WF_vars(Boot(n))
       /\ WF_vars(Receive(n)) /\ WF_vars(TimesOut(n))
  /\ WF_vars(LeaseExpires) /\ WF_vars(NextEpoch)

Spec == Init /\ [][Next]_vars /\ Fairness

-----------------------------------------------------------------------------
\* Properties.

\* In the end one node leads for good, and whoever else believes it does is an elected
\* one under a designated one, about to retire: the coordinators of a pool fall, hang
\* and come back, and the pool is never left with two, or with none, nor do two take
\* the lease from each other for ever (election.py, renew_leadership).
PoolIsLed ==
  \E n \in Node :
    <>[](/\ node[n].leads
         /\ \A m \in Node \ {n} :
              node[m].leads => rank[n] = "designated" /\ rank[m] = "elected")

\* A designated coordinator only gives way to another designated one (outranks).
GivesWayToDesignated ==
  [][\A n \in Node : (Designated(n) /\ node[n].leads /\ ~node'[n].leads /\ Up(n)') =>
       \E m \in {lease, node[n].saw} \ {None, n} : rank[m] = "designated"]_vars

\* In the end each node of a pool-auto coordinates it or mines for the one that does:
\* who retires joins the holder of the lease instead of winning again by itself
\* (_on_lease_lost).  With three nodes it is not so: a third may have followed the
\* one that retires.
MinersJoin ==
  (\A n \in Node : rank[n] = "elected") =>
    <>[](\A n \in Node : Up(n) =>
           \E m \in Node : node[n].leader = m /\ node[m].state = "coordinator")
=============================================================================
