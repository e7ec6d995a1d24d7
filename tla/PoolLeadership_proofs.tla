------------------------ MODULE PoolLeadership_proofs ------------------------
(***************************************************************************)
(* Who coordinates a pool, for any number of nodes and of pauses, crashes  *)
(* and stops: every node keeps to its role, and a designated coordinator   *)
(* only gives way to another designated one.                               *)
(***************************************************************************)
EXTENDS PoolLeadership, TLAPS

-----------------------------------------------------------------------------
(* The invariant *)

Process ==
  [up : {"new", "up", "down", "gone"}, leads : BOOLEAN, standby : BOOLEAN,
   contest : {"none", "begun", "pow", "won", "done", "lost"},
   access : {"none", "renew", "release"}, saw : Node \cup {None},
   state : {"candidate", "miner", "coordinator"}, leader : Node \cup {None},
   electing : BOOLEAN, solving : BOOLEAN, pending : BOOLEAN, heard : BOOLEAN]

\* The process of a node n of a rank.  The coordinator leads and nobody else does,
\* whichever the election; who leads contends no more and waits for nobody; only who
\* leads has an access to the lease under way; a designated one takes no part in the
\* bully and an elected one none in the contest.
RoleOK(n, p, r) ==
  /\ p \in Process
  /\ p.leads <=> p.state = "coordinator"
  /\ p.leads <=> p.leader = n
  /\ p.leads => p.up = "up" /\ ~p.standby /\ ~p.heard /\ p.contest = "none"
  /\ p.contest # "none" => p.up = "up" /\ ~p.standby
  /\ p.access # "none" => p.leads
  /\ r = "designated" => p.state # "miner" /\ ~p.heard
  /\ r = "elected" => p.contest = "none" /\ ~p.standby

\* A coordinator does not hear its own heartbeats.
MailOK(n, s) ==
  /\ s \in Seq(Message)
  /\ \A i \in DOMAIN s : s[i] # Heartbeat(n)

Keys ==
  /\ rank \in Pools
  /\ lease \in Node \cup {None} /\ claim \in Node \cup {None}
  /\ events \in 0..MaxEvents

Roles ==
  /\ DOMAIN node = Node
  /\ \A n \in Node : RoleOK(n, node[n], rank[n])

Mail ==
  /\ inbox \in [Node -> Seq(Message)]
  /\ \A n \in Node : MailOK(n, inbox[n])

LInv == Keys /\ Roles /\ Mail

-----------------------------------------------------------------------------
(* Messages *)

\* An empty queue has nothing to be read.
LEMMA NoMail == \A n \in Node : MailOK(n, <<>>)
BY DEF MailOK

\* Who reads a message still has none of its own heartbeats, and the message is not one.
LEMMA ReadMail ==
  ASSUME NEW n \in Node, NEW s, MailOK(n, s), s # <<>>
  PROVE  MailOK(n, Tail(s)) /\ Head(s) \in Message /\ Head(s) # Heartbeat(n)
<1>1. s \in Seq(Message) /\ Len(s) \in Nat /\ Len(s) > 0 BY DEF MailOK
<1>2. Head(s) = s[1] /\ 1 \in DOMAIN s BY <1>1
<1>3. ASSUME NEW i \in DOMAIN Tail(s) PROVE Tail(s)[i] # Heartbeat(n)
  <2>1. Tail(s)[i] = s[i + 1] /\ i + 1 \in DOMAIN s BY <1>1
  <2> QED BY <2>1 DEF MailOK
<1> QED BY <1>1, <1>2, <1>3 DEF MailOK

\* A message of somebody else, or a claim, may be sent to anybody.
LEMMA MoreMail ==
  ASSUME NEW n \in Node, NEW s, MailOK(n, s), NEW m \in Message, m # Heartbeat(n)
  PROVE  MailOK(n, s \o <<m>>)
<1>1. s \in Seq(Message) /\ <<m>> \in Seq(Message) /\ Len(s) \in Nat BY DEF MailOK
<1>2. s \o <<m>> \in Seq(Message) BY <1>1
<1>3. ASSUME NEW i \in DOMAIN (s \o <<m>>) PROVE (s \o <<m>>)[i] # Heartbeat(n)
  <2>1. i \in 1..(Len(s) + 1) BY <1>1
  <2>2. CASE i \in 1..Len(s)
    <3>1. (s \o <<m>>)[i] = s[i] /\ i \in DOMAIN s BY <1>1, <2>2
    <3> QED BY <3>1 DEF MailOK
  <2>3. CASE i = Len(s) + 1
    <3>1. (s \o <<m>>)[i] = m BY <1>1, <2>3
    <3> QED BY <3>1
  <2> QED BY <2>1, <2>2, <2>3, <1>1
<1> QED BY <1>2, <1>3 DEF MailOK

\* Nobody's queue changes, or the one of n is read or emptied.
LEMMA SameMail == ASSUME Mail, UNCHANGED inbox PROVE Mail'
BY DEF Mail

LEMMA OneMail ==
  ASSUME Mail, NEW n \in Node, NEW s, MailOK(n, s), inbox' = [inbox EXCEPT ![n] = s]
  PROVE  Mail'
<1>1. inbox' \in [Node -> Seq(Message)] BY DEF Mail, MailOK
<1>2. ASSUME NEW m \in Node PROVE MailOK(m, inbox'[m])
  <2>1. CASE m = n BY <2>1 DEF Mail
  <2>2. CASE m # n BY <2>2 DEF Mail
  <2> QED BY <2>1, <2>2
<1> QED BY <1>1, <1>2 DEF Mail

-----------------------------------------------------------------------------
(* Roles *)

\* The rank of a node never changes.
LEMMA Ranks == ASSUME Keys PROVE rank \in [Node -> Rank]
BY LeadershipAssumption DEF Keys

\* A process that does not run has no role.
LEMMA StoppedOK ==
  ASSUME NEW n \in Node, NEW r \in Rank, NEW up \in {"new", "up", "down", "gone"}
  PROVE  RoleOK(n, Stopped(up), r)
BY LeadershipAssumption DEF Stopped, RoleOK, Process

LEMMA SameRoles == ASSUME Roles, UNCHANGED <<rank, node>> PROVE Roles'
BY DEF Roles

\* What a step makes of one node is all that must be looked at.
LEMMA OneRole ==
  ASSUME Roles, NEW n \in Node, NEW p, RoleOK(n, p, rank[n]), Becomes(n, p), UNCHANGED rank
  PROVE  Roles'
<1>1. node' = [node EXCEPT ![n] = p] BY DEF Becomes
<1>2. DOMAIN node' = Node BY <1>1 DEF Roles
<1>3. ASSUME NEW m \in Node PROVE RoleOK(m, node'[m], rank[m])
  <2>1. CASE m = n BY <1>1, <2>1 DEF Roles
  <2>2. CASE m # n BY <1>1, <2>2 DEF Roles
  <2> QED BY <2>1, <2>2
<1> QED BY <1>2, <1>3 DEF Roles

\* A bounded event leaves its counter within the bound.
LEMMA Counted == ASSUME Keys, Happens PROVE events' \in 0..MaxEvents
<1>1. events \in Nat /\ events < MaxEvents /\ events' = events + 1 BY DEF Keys, Happens
<1> QED BY <1>1, LeadershipAssumption

\* A designated node that leads and stops leading, although it goes on, has seen
\* another designated node in the lease.
GivesWay ==
  \A n \in Node :
    Designated(n) /\ node[n].leads /\ ~node'[n].leads /\ Up(n)' =>
      \E m \in {lease, node[n].saw} \ {None, n} : rank[m] = "designated"

Step == LInv' /\ GivesWay

\* Nobody gives way in a step that takes the command of no node that goes on.
LEMMA NobodyGives ==
  ASSUME Roles, NEW n \in Node, NEW p, Becomes(n, p),
         p.leads \/ p.up # "up" \/ ~node[n].leads \/ rank[n] = "elected"
  PROVE  GivesWay
<1>1. node' = [node EXCEPT ![n] = p] BY DEF Becomes
<1>2. ASSUME NEW m \in Node, node[m].leads, ~node'[m].leads, node'[m].up = "up"
      PROVE  rank[m] # "designated"
  <2>1. m = n BY <1>1, <1>2 DEF Roles
  <2>2. node'[n] = p BY <1>1 DEF Roles
  <2> QED BY <1>2, <2>1, <2>2
<1> QED BY <1>2 DEF GivesWay, Designated, Up

\* A step of one process that writes no message: its new role, and the keys.
LEMMA OneStep ==
  ASSUME LInv, NEW n \in Node, NEW p, Becomes(n, p), RoleOK(n, p, rank[n]),
         p.leads \/ p.up # "up" \/ ~node[n].leads \/ rank[n] = "elected",
         UNCHANGED rank, Mail', lease' \in Node \cup {None}, claim' \in Node \cup {None},
         events' \in 0..MaxEvents
  PROVE  Step
<1>1. Roles' BY OneRole DEF LInv
<1>2. Keys' BY DEF LInv, Keys
<1>3. GivesWay BY NobodyGives DEF LInv
<1> QED BY <1>1, <1>2, <1>3 DEF Step, LInv

-----------------------------------------------------------------------------
(* The contest of the designated coordinators *)

\* The role of a process, and what its rank makes of it.
LEMMA Role ==
  ASSUME LInv, NEW n \in Node
  PROVE  RoleOK(n, node[n], rank[n]) /\ rank[n] \in Rank
BY Ranks DEF LInv, Roles

\* _maybe_start_election
LEMMA ContendOK == ASSUME LInv, NEW n \in Node, Contend(n) PROVE Step
<1> DEFINE q == node[n]
           p == IF Held(n) THEN [q EXCEPT !.standby = TRUE]
                ELSE [q EXCEPT !.standby = FALSE, !.contest = "begun"]
<1>1. RoleOK(n, q, rank[n]) /\ q.up = "up" /\ rank[n] = "designated" /\ ~q.leads /\ q.contest = "none"
  BY Role DEF Contend, Designated, Up
<1>2. RoleOK(n, p, rank[n]) BY <1>1 DEF RoleOK, Process
<1>3. Becomes(n, p) BY DEF Contend
<1>4. Mail' BY SameMail DEF LInv, Contend
<1> HIDE DEF p
<1> QED BY <1>1, <1>2, <1>3, <1>4, OneStep DEF Contend, LInv, Keys, redis

\* run_pool_election, until the claim
LEMMA SeeClaimOK == ASSUME LInv, NEW n \in Node, SeeClaim(n) PROVE Step
<1> DEFINE q == node[n]
           p == [q EXCEPT !.contest = IF claim = None THEN "pow" ELSE "lost"]
<1>1. RoleOK(n, q, rank[n]) /\ rank[n] \in Rank /\ q.contest = "begun"
  BY Role DEF SeeClaim
<1>2. RoleOK(n, p, rank[n]) /\ ~q.leads BY <1>1 DEF RoleOK, Process
<1>3. Becomes(n, p) BY DEF SeeClaim
<1>4. Mail' BY SameMail DEF LInv, SeeClaim
<1> HIDE DEF p
<1> QED BY <1>1, <1>2, <1>3, <1>4, OneStep DEF SeeClaim, LInv, Keys, redis

\* The claim of the epoch
LEMMA WinOK == ASSUME LInv, NEW n \in Node, Win(n) PROVE Step
<1> DEFINE q == node[n]
           p == [q EXCEPT !.contest = IF claim = None THEN "won" ELSE "lost"]
<1>1. RoleOK(n, q, rank[n]) /\ rank[n] \in Rank /\ q.contest = "pow"
  BY Role DEF Win
<1>2. RoleOK(n, p, rank[n]) /\ ~q.leads BY <1>1 DEF RoleOK, Process
<1>3. Becomes(n, p) BY DEF Win
<1>4. Mail' BY SameMail DEF LInv, Win
<1>5. claim' \in Node \cup {None} BY DEF Win, LInv, Keys
<1> HIDE DEF p
<1> QED BY <1>1, <1>2, <1>3, <1>4, <1>5, OneStep DEF Win, LInv, Keys

\* The lease of the winner
LEMMA SetLeaseOK == ASSUME LInv, NEW n \in Node, SetLease(n) PROVE Step
<1> DEFINE q == node[n]
           p == [q EXCEPT !.contest = "done"]
<1>1. RoleOK(n, q, rank[n]) /\ rank[n] \in Rank /\ q.contest = "won"
  BY Role DEF SetLease
<1>2. RoleOK(n, p, rank[n]) /\ ~q.leads BY <1>1 DEF RoleOK, Process
<1>3. Becomes(n, p) BY DEF SetLease
<1>4. Mail' BY SameMail DEF LInv, SetLease
<1> HIDE DEF p
<1> QED BY <1>1, <1>2, <1>3, <1>4, OneStep DEF SetLease, LInv, Keys

\* The result, collected by the tick
LEMMA CollectOK == ASSUME LInv, NEW n \in Node, Collect(n) PROVE Step
<1> DEFINE q == node[n]
           p == IF q.contest = "lost" THEN [q EXCEPT !.contest = "none"]
                ELSE [q EXCEPT !.contest = "none", !.standby = FALSE, !.leads = TRUE,
                               !.state = "coordinator", !.leader = n]
<1>1. RoleOK(n, q, rank[n]) /\ rank[n] \in Rank /\ q.contest \in {"done", "lost"} /\ q.up = "up"
  BY Role DEF Collect, Up
<1>2. rank[n] = "designated" /\ ~q.leads /\ ~q.heard BY <1>1 DEF RoleOK, Rank
<1>3. RoleOK(n, p, rank[n]) BY <1>1, <1>2 DEF RoleOK, Process
<1>4. Becomes(n, p) BY DEF Collect
<1>5. Mail' BY SameMail DEF LInv, Collect
<1> HIDE DEF p
<1> QED BY <1>2, <1>3, <1>4, <1>5, OneStep DEF Collect, LInv, Keys, redis

\* A new epoch, which makes those at work on their proof give up
LEMMA NextEpochOK == ASSUME LInv, NextEpoch PROVE Step
<1>1. ASSUME NEW n \in Node
      PROVE  RoleOK(n, node'[n], rank[n]) /\ node'[n].leads = node[n].leads
  <2> DEFINE q == node[n]
             p == [q EXCEPT !.contest = "lost"]
  <2>1. RoleOK(n, q, rank[n]) BY Role
  <2>2. node'[n] = IF q.contest = "pow" THEN p ELSE q BY DEF NextEpoch
  <2>3. CASE q.contest = "pow"
    <3>1. RoleOK(n, p, rank[n]) /\ p.leads = q.leads BY <2>1, <2>3 DEF RoleOK, Process
    <3> QED BY <3>1, <2>2, <2>3
  <2>4. CASE q.contest # "pow" BY <2>1, <2>2, <2>4
  <2> QED BY <2>3, <2>4
<1>2. DOMAIN node' = Node /\ UNCHANGED <<rank, lease, inbox>> /\ claim' = None
  BY DEF NextEpoch
<1>3. events' \in 0..MaxEvents BY Counted DEF NextEpoch, LInv, Keys
<1>4. Roles' /\ GivesWay BY <1>1, <1>2 DEF Roles, GivesWay
<1>5. Mail' BY <1>2, SameMail DEF LInv
<1> QED BY <1>2, <1>3, <1>4, <1>5 DEF Step, LInv, Keys

-----------------------------------------------------------------------------
(* The lease *)

\* Who finds the lease its own, or outranks its holder, goes on leading.  Who retires is
\* a candidate again: an elected one, or a designated one that found another one.
LEMMA RenewHavingOK ==
  ASSUME LInv, NEW n \in Node, NEW m \in Node \cup {None}, m \in {lease, node[n].saw},
         node[n].leads, RenewHaving(n, m)
  PROVE  Step
<1> DEFINE q == node[n]
           mine == m \in {None, n} \/ Outranks(n, m)
           p == IF mine THEN Idle(n) ELSE Retires(n)
<1>1. RoleOK(n, q, rank[n]) /\ rank[n] \in Rank /\ q.up = "up" /\ ~q.standby /\ q.contest = "none"
  BY Role DEF RoleOK
<1>2. RoleOK(n, Idle(n), rank[n]) /\ Idle(n).leads
  BY <1>1 DEF RoleOK, Process, Idle
<1>3. RoleOK(n, Retires(n), rank[n])
  <2>1. Designated(n) = (rank[n] = "designated") /\ Elected(n) = (rank[n] = "elected")
    BY <1>1 DEF Designated, Elected, Up
  <2>2. None \in Node \cup {None} /\ None # n BY LeadershipAssumption
  <2> QED BY <1>1, <2>1, <2>2 DEF RoleOK, Process, Idle, Retires, Rank
<1>4. RoleOK(n, p, rank[n]) /\ (p.leads \/ ~mine) BY <1>2, <1>3
<1>5. Becomes(n, p) BY DEF RenewHaving
<1>6. UNCHANGED <<rank, claim, inbox, events>> /\ lease' \in Node \cup {None}
  BY DEF RenewHaving, LInv, Keys
<1>7. Mail' BY <1>6, SameMail DEF LInv
<1> HIDE DEF p
<1>8. Keys' /\ Roles' BY <1>4, <1>5, <1>6, OneRole DEF LInv, Keys
<1>9. GivesWay
  <2>1. CASE mine BY <1>4, <1>5, <2>1, NobodyGives DEF LInv
  <2>2. CASE ~mine
    <3>1. m \in {lease, q.saw} \ {None, n} /\ m \in Node BY <2>2
    <3>2. rank[n] = "designated" => rank[m] = "designated"
      <4>1. rank[m] \in Rank BY <3>1, Ranks DEF LInv
      <4> QED BY <2>2, <4>1 DEF Outranks, Rank
    <3>3. ASSUME NEW k \in Node, k # n PROVE node'[k] = node[k]
      BY <1>5, <3>3 DEF Becomes
    <3> QED BY <3>1, <3>2, <3>3 DEF GivesWay, Designated
  <2> QED BY <2>1, <2>2
<1> QED BY <1>7, <1>8, <1>9 DEF Step, LInv

\* renew_leadership, at once or with a pause after the GET
LEMMA RenewOK == ASSUME LInv, NEW n \in Node, Renew(n) PROVE Step
<1>1. node[n].leads /\ lease \in Node \cup {None} /\ RenewHaving(n, lease)
  BY DEF Renew, Leads, LInv, Keys
<1> QED BY <1>1, RenewHavingOK

LEMMA RenewLateOK == ASSUME LInv, NEW n \in Node, RenewLate(n) PROVE Step
<1>1. node[n].access = "renew" /\ RenewHaving(n, node[n].saw) BY DEF RenewLate
<1>2. node[n].leads /\ node[n].saw \in Node \cup {None}
  BY <1>1, Role DEF RoleOK, Process
<1> QED BY <1>1, <1>2, RenewHavingOK

LEMMA PauseInRenewalOK == ASSUME LInv, NEW n \in Node, PauseInRenewal(n) PROVE Step
<1> DEFINE q == node[n]
           p == [q EXCEPT !.access = "renew", !.saw = lease]
<1>1. RoleOK(n, q, rank[n]) /\ q.leads /\ lease \in Node \cup {None}
  BY Role DEF PauseInRenewal, Leads, LInv, Keys
<1>2. RoleOK(n, p, rank[n]) /\ p.leads BY <1>1 DEF RoleOK, Process
<1>3. Becomes(n, p) BY DEF PauseInRenewal
<1>4. Mail' BY SameMail DEF LInv, PauseInRenewal
<1>5. events' \in 0..MaxEvents BY Counted DEF LInv, PauseInRenewal
<1> HIDE DEF p
<1> QED BY <1>2, <1>3, <1>4, <1>5, OneStep DEF PauseInRenewal, LInv, Keys, redis

\* The end of a process, orderly or not
LEMMA StopsOK ==
  ASSUME NEW n \in Node, LInv
  PROVE  LET p == Stopped(IF Restarts THEN "down" ELSE "gone")
         IN  RoleOK(n, p, rank[n]) /\ p.up # "up"
<1> DEFINE up == IF Restarts THEN "down" ELSE "gone"
<1>1. up \in {"new", "up", "down", "gone"} /\ Stopped(up).up # "up" BY DEF Stopped
<1>2. rank[n] \in Rank BY Role
<1> HIDE DEF up
<1>3. RoleOK(n, Stopped(up), rank[n]) BY <1>1, <1>2, StoppedOK
<1> QED BY <1>1, <1>3 DEF up

LEMMA StopOK == ASSUME LInv, NEW n \in Node, Stop(n) PROVE Step
<1> DEFINE q == node[n]
           p == IF q.leads /\ HasRedis THEN [q EXCEPT !.access = "release", !.saw = lease]
                ELSE Stopped(IF Restarts THEN "down" ELSE "gone")
<1>1. RoleOK(n, q, rank[n]) /\ lease \in Node \cup {None} BY Role DEF LInv, Keys
<1>2. RoleOK(n, p, rank[n]) /\ (p.leads \/ p.up # "up")
  <2>1. CASE q.leads /\ HasRedis BY <1>1, <2>1 DEF RoleOK, Process
  <2>2. CASE ~(q.leads /\ HasRedis) BY <2>2, StopsOK
  <2> QED BY <2>1, <2>2
<1>3. Becomes(n, p) BY DEF Stop
<1>4. Mail'
  <2>1. inbox' = [inbox EXCEPT ![n] = IF q.leads /\ HasRedis THEN inbox[n] ELSE <<>>]
    BY DEF Stop, LInv, Mail
  <2>2. MailOK(n, IF q.leads /\ HasRedis THEN inbox[n] ELSE <<>>)
    BY NoMail DEF LInv, Mail
  <2> QED BY <2>1, <2>2, OneMail DEF LInv
<1>5. events' \in 0..MaxEvents BY Counted DEF LInv, Stop
<1> HIDE DEF p
<1> QED BY <1>2, <1>3, <1>4, <1>5, OneStep DEF Stop, LInv, Keys, redis

LEMMA ReleaseOK == ASSUME LInv, NEW n \in Node, Release(n) PROVE Step
<1> DEFINE p == Stopped(IF Restarts THEN "down" ELSE "gone")
<1>1. RoleOK(n, p, rank[n]) /\ p.up # "up" BY StopsOK
<1>2. Becomes(n, p) BY DEF Release
<1>3. Mail' BY OneMail, NoMail DEF LInv, Release
<1>4. lease' \in Node \cup {None} BY DEF LInv, Keys, Release
<1> HIDE DEF p
<1> QED BY <1>1, <1>2, <1>3, <1>4, OneStep DEF Release, LInv, Keys

LEMMA CrashOK == ASSUME LInv, NEW n \in Node, Crash(n) PROVE Step
<1> DEFINE p == Stopped(IF Restarts THEN "down" ELSE "gone")
<1>1. RoleOK(n, p, rank[n]) /\ p.up # "up" BY StopsOK
<1>2. Becomes(n, p) BY DEF Crash
<1>3. Mail' BY OneMail, NoMail DEF LInv, Crash
<1>4. events' \in 0..MaxEvents BY Counted DEF LInv, Crash
<1> HIDE DEF p
<1> QED BY <1>1, <1>2, <1>3, <1>4, OneStep DEF Crash, LInv, Keys, redis

LEMMA BootOK == ASSUME LInv, NEW n \in Node, Boot(n) PROVE Step
<1> DEFINE p == Stopped("up")
<1>1. RoleOK(n, p, rank[n]) BY Role, StoppedOK
<1>2. Becomes(n, p) BY DEF Boot
<1>3. ~node[n].leads BY Role DEF Boot, RoleOK
<1>4. Mail' BY SameMail DEF LInv, Boot
<1> HIDE DEF p
<1> QED BY <1>1, <1>2, <1>3, <1>4, OneStep DEF Boot, LInv, Keys, redis

LEMMA LeaseExpiresOK == ASSUME LInv, LeaseExpires PROVE Step
<1>1. UNCHANGED <<rank, claim, inbox, node>> /\ lease' = None BY DEF LeaseExpires
<1>2. events' \in 0..MaxEvents BY Counted DEF LeaseExpires, LInv, Keys
<1>3. Mail' /\ Roles' /\ Keys' BY <1>1, <1>2, SameMail, SameRoles DEF LInv, Keys
<1>4. GivesWay BY <1>1 DEF GivesWay
<1> QED BY <1>3, <1>4 DEF Step, LInv

-----------------------------------------------------------------------------
(* The bully *)

\* A tick that starts an election, and the proof that is solved
LEMMA ElectOK == ASSUME LInv, NEW n \in Node, Elect(n) PROVE Step
<1> DEFINE q == node[n]
           p == [q EXCEPT !.electing = TRUE, !.solving = TRUE]
<1>1. RoleOK(n, q, rank[n]) /\ rank[n] = "elected" BY Role DEF Elect, Elected
<1>2. RoleOK(n, p, rank[n]) BY <1>1 DEF RoleOK, Process
<1>3. Becomes(n, p) BY DEF Elect
<1>4. Mail' BY SameMail DEF LInv, Elect
<1> HIDE DEF p
<1> QED BY <1>1, <1>2, <1>3, <1>4, OneStep DEF Elect, LInv, Keys, redis

LEMMA SolveOK == ASSUME LInv, NEW n \in Node, Solve(n) PROVE Step
<1> DEFINE q == node[n]
           p == [q EXCEPT !.solving = FALSE, !.pending = TRUE]
<1>1. RoleOK(n, q, rank[n]) /\ rank[n] = "elected" BY Role DEF Solve, Elected
<1>2. RoleOK(n, p, rank[n]) BY <1>1 DEF RoleOK, Process
<1>3. Becomes(n, p) BY DEF Solve
<1>4. Mail' BY SameMail DEF LInv, Solve
<1> HIDE DEF p
<1> QED BY <1>1, <1>2, <1>3, <1>4, OneStep DEF Solve, LInv, Keys, redis

\* A claim goes to everybody, its author included.
LEMMA PublishOK == ASSUME LInv, NEW n \in Node, Publish(n) PROVE Step
<1> DEFINE q == node[n]
           p == [q EXCEPT !.pending = FALSE, !.electing = FALSE]
<1>1. RoleOK(n, q, rank[n]) /\ rank[n] = "elected" BY Role DEF Publish, Elected
<1>2. RoleOK(n, p, rank[n]) BY <1>1 DEF RoleOK, Process
<1>3. Becomes(n, p) BY DEF Publish
<1>4. Mail'
  <2>1. ASSUME NEW m \in Node
        PROVE  MailOK(m, inbox[m] \o <<Claim(n)>>) /\ MailOK(m, inbox[m])
    <3>1. Claim(n) \in Message /\ Claim(n) # Heartbeat(m)
      BY DEF Claim, Heartbeat, Message
    <3> QED BY <3>1, MoreMail DEF LInv, Mail
  <2>2. \A m \in Node : MailOK(m, inbox'[m]) BY <2>1 DEF Publish
  <2>3. inbox' \in [Node -> Seq(Message)] BY <2>1 DEF Publish, MailOK
  <2> QED BY <2>2, <2>3 DEF Mail
<1> HIDE DEF p
<1> QED BY <1>1, <1>2, <1>3, <1>4, OneStep DEF Publish, LInv, Keys, redis

\* A heartbeat goes to everybody else.
LEMMA BeatOK == ASSUME LInv, NEW n \in Node, Beat(n) PROVE Step
<1>1. Mail'
  <2>1. ASSUME NEW m \in Node, m # n PROVE MailOK(m, inbox[m] \o <<Heartbeat(n)>>)
    <3>1. Heartbeat(n) \in Message /\ Heartbeat(n) # Heartbeat(m)
      BY <2>1 DEF Heartbeat, Message
    <3> QED BY <3>1, MoreMail DEF LInv, Mail
  <2>2. ASSUME NEW m \in Node PROVE MailOK(m, inbox[m]) BY DEF LInv, Mail
  <2>3. \A m \in Node : MailOK(m, inbox'[m]) BY <2>1, <2>2 DEF Beat, Listens
  <2>4. inbox' \in [Node -> Seq(Message)] BY <2>1, <2>2 DEF Beat, MailOK, Listens
  <2> QED BY <2>3, <2>4 DEF Mail
<1>2. UNCHANGED <<rank, redis, node, events>> BY DEF Beat
<1>3. Roles' /\ Keys' BY <1>2, SameRoles DEF LInv, Keys, redis
<1>4. GivesWay BY <1>2 DEF GivesWay
<1> QED BY <1>1, <1>3, <1>4 DEF Step, LInv

\* A candidate follows another node; anybody else stays what it is.
LEMMA FollowsOK ==
  ASSUME LInv, NEW n \in Node, NEW m \in Node, m # n, rank[n] = "elected"
  PROVE  RoleOK(n, Follows(n, m), rank[n])
<1> DEFINE q == node[n]
<1>1. RoleOK(n, q, rank[n]) BY Role
<1>2. CASE q.state = "candidate"
  <2>1. ~q.leads /\ q.access = "none" BY <1>1, <1>2 DEF RoleOK
  <2> QED BY <1>1, <1>2, <2>1 DEF RoleOK, Process, Follows
<1>3. CASE q.state # "candidate" BY <1>1, <1>3 DEF RoleOK, Process, Follows
<1> QED BY <1>2, <1>3

\* A claim that comes back to its author makes it coordinator; any other message makes
\* a candidate follow its author.
LEMMA ReceiveOK == ASSUME LInv, NEW n \in Node, Receive(n) PROVE Step
<1> DEFINE q == node[n]
           wins == [q EXCEPT !.state = "coordinator", !.leader = n, !.leads = TRUE,
                             !.heard = FALSE]
<1>1. PICK msg \in Message :
        /\ msg # Heartbeat(n)
        /\ Becomes(n, IF msg.type = "heartbeat" THEN Follows(n, msg.from)
                      ELSE IF q.state # "candidate" THEN q
                      ELSE IF msg.from # n THEN Follows(n, msg.from)
                      ELSE wins)
  BY ReadMail DEF Receive, LInv, Mail
<1> DEFINE p == IF msg.type = "heartbeat" THEN Follows(n, msg.from)
                ELSE IF q.state # "candidate" THEN q
                ELSE IF msg.from # n THEN Follows(n, msg.from)
                ELSE wins
<1>2. /\ RoleOK(n, q, rank[n]) /\ rank[n] = "elected" /\ q.up = "up"
      /\ msg.from \in Node /\ msg.type \in {"claim", "heartbeat"}
  BY <1>1, Role DEF Receive, Elected, Up, Message
<1>3. RoleOK(n, p, rank[n])
  <2>1. CASE msg.from # n /\ (msg.type = "heartbeat" \/ q.state = "candidate")
    BY <1>2, <2>1, FollowsOK
  <2>2. CASE msg.from = n /\ msg.type = "claim" /\ q.state = "candidate"
    <3>1. RoleOK(n, wins, rank[n]) BY <1>2, <2>2 DEF RoleOK, Process
    <3> QED BY <2>2, <3>1
  <2>3. CASE msg.type = "claim" /\ q.state # "candidate" BY <1>2, <2>3
  <2>4. ~(msg.from = n /\ msg.type = "heartbeat")
    BY <1>1 DEF Heartbeat, Message
  <2> QED BY <1>2, <2>1, <2>2, <2>3, <2>4
<1>4. Mail' BY OneMail, ReadMail DEF LInv, Mail, Receive
<1>5. Becomes(n, p) BY <1>1
<1> HIDE DEF p
<1> QED BY <1>2, <1>3, <1>4, <1>5, OneStep DEF Receive, LInv, Keys, redis

\* Only who does not lead waits for heartbeats.
LEMMA TimesOutOK == ASSUME LInv, NEW n \in Node, TimesOut(n) PROVE Step
<1> DEFINE q == node[n]
           p == [q EXCEPT !.state = "candidate", !.leader = None, !.heard = FALSE]
<1>1. RoleOK(n, q, rank[n]) /\ rank[n] = "elected" /\ (q.state = "miner" \/ q.heard)
  BY Role DEF TimesOut, Elected
<1>2. ~q.leads BY <1>1 DEF RoleOK
<1>3. RoleOK(n, p, rank[n]) BY <1>1, <1>2, LeadershipAssumption DEF RoleOK, Process
<1>4. Becomes(n, p) BY DEF TimesOut
<1>5. Mail' BY SameMail DEF LInv, TimesOut
<1>6. events' \in 0..MaxEvents BY Counted DEF LInv, Keys, TimesOut
<1> HIDE DEF p
<1> QED BY <1>2, <1>3, <1>4, <1>5, <1>6, OneStep DEF TimesOut, LInv, Keys, redis

-----------------------------------------------------------------------------
(* The theorems *)

\* At first nobody runs.
LEMMA InitOK == Init => LInv
<1> SUFFICES ASSUME Init PROVE LInv OBVIOUS
<1>1. Keys BY LeadershipAssumption DEF Init, Keys
<1>2. Mail BY NoMail DEF Init, Mail
<1>3. Roles
  <2>1. ASSUME NEW n \in Node PROVE RoleOK(n, Stopped("new"), rank[n])
    BY <1>1, Ranks, StoppedOK
  <2> QED BY <2>1 DEF Init, Roles
<1> QED BY <1>1, <1>2, <1>3 DEF LInv

\* Every step keeps the invariant and the command of the designated coordinators.
LEMMA Steps == LInv /\ [Next]_vars => Step
<1> SUFFICES ASSUME LInv, [Next]_vars PROVE Step OBVIOUS
<1>1. CASE UNCHANGED vars
  <2>1. Keys' /\ Roles' /\ Mail' BY <1>1, SameRoles, SameMail DEF LInv, Keys, vars
  <2>2. GivesWay BY <1>1 DEF vars, GivesWay
  <2> QED BY <2>1, <2>2 DEF Step, LInv
<1>2. CASE LeaseExpires BY <1>2, LeaseExpiresOK
<1>3. CASE NextEpoch BY <1>3, NextEpochOK
<1>4. ASSUME NEW n \in Node, Works(n) PROVE Step
  BY <1>4, ContendOK, SeeClaimOK, WinOK, SetLeaseOK, CollectOK, RenewOK, RenewLateOK,
     ReleaseOK, ElectOK, SolveOK, PublishOK
  DEF Works
<1>5. ASSUME NEW n \in Node,
             \/ PauseInRenewal(n) \/ Beat(n) \/ Receive(n)
             \/ TimesOut(n) \/ Boot(n) \/ Stop(n) \/ Crash(n)
      PROVE  Step
  BY <1>5, PauseInRenewalOK, BeatOK, ReceiveOK, TimesOutOK, BootOK, StopOK, CrashOK
<1> QED BY <1>1, <1>2, <1>3, <1>4, <1>5 DEF Next

LEMMA Invariant == Spec => []LInv
<1>1. LInv /\ [Next]_vars => LInv' BY Steps DEF Step
<1> QED BY InitOK, <1>1, PTL DEF Spec

\* Every variable keeps its type, and every node one role: the coordinator leads and
\* only it does, whichever the election it won; who leads waits for nobody; only
\* designated nodes contend through Redis (bully.py, PoolCoordinator.tick).
THEOREM TypeCorrect == Spec => []TypeOK
<1>1. LInv => TypeOK
  <2> SUFFICES ASSUME LInv PROVE TypeOK OBVIOUS
  <2>1. inbox \in [Node -> Seq(Message)] BY DEF LInv, Mail
  <2>2. ASSUME NEW n \in Node PROVE RoleOK(n, node[n], rank[n]) BY Role
  <2> QED BY <2>1, <2>2 DEF TypeOK, RoleOK, Process, LInv, Keys
<1> QED BY <1>1, Invariant, PTL

\* A designated coordinator that retires and goes on has read in the lease another
\* designated one, however many pauses separate that reading from what it does
\* (renew_leadership, outranks).
THEOREM DesignatedStays == Spec => GivesWayToDesignated
<1>1. LInv /\ [Next]_vars => [GivesWay]_vars BY Steps DEF Step
<1>2. Spec => [][GivesWay]_vars BY <1>1, Invariant, PTL DEF Spec
<1>3. [GivesWay]_vars =>
        [\A n \in Node : (Designated(n) /\ node[n].leads /\ ~node'[n].leads /\ Up(n)') =>
           \E m \in {lease, node[n].saw} \ {None, n} : rank[m] = "designated"]_vars
  BY DEF GivesWay
<1> QED BY <1>2, <1>3, PTL DEF GivesWayToDesignated
=============================================================================
