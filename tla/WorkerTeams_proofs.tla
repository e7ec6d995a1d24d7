------------------------- MODULE WorkerTeams_proofs --------------------------
(***************************************************************************)
(* The indices of the teams agree with each other and with the policies of *)
(* their coordinators, for any number of miners, teams, requests, crashes  *)
(* and lost commands, as long as no two requests are in progress at once:  *)
(* what a request checked still holds when it writes.                      *)
(***************************************************************************)
EXTENDS WorkerTeams, TLAPS

-----------------------------------------------------------------------------
(* The invariant of the types *)

Process ==
  [up : BOOLEAN, address : Address, mode : Modes \cup {"idle"},
   url : Url \cup {None}, running : BOOLEAN, reporting : BOOLEAN,
   waiting : SUBSET Orders, seen : Orders \cup {None},
   switch : Orders \cup {None}, reconciles : BOOLEAN, voting : Policies]

\* After n events: a process that is down does nothing and has nothing in hand,
\* one that runs has a mode, and its address changes only with an event.
ProcessOK(p, n) ==
  /\ p \in Process
  /\ p.running \/ p.reporting \/ p.waiting # {} \/ p.seen # None \/ p.switch # None
       => p.up
  /\ p.running => p.mode # "idle"
  /\ p.address <= n + 1

Kind == {"create", "join", "leave", "dissolve", "agenda"}
Request ==
  [step : {"idle", "write", "order", "policy", "look"}, kind : Kind \cup {None},
   by : Worker \cup {None}, team : Team \cup {None}, to : SUBSET Worker,
   order : Orders \cup {None}, agenda : Agendas]

\* A request in progress is about a miner and, unless it is to leave one, a team.
RequestOK(r) ==
  /\ r \in Request
  /\ r.step # "idle" => r.kind \in Kind /\ r.by \in Worker
  /\ r.step # "idle" /\ r.kind # "leave" => r.team \in Team
  /\ r.step \in {"write", "order"} => r.kind # "agenda" /\ r.order \in Orders
  /\ r.step = "look" => r.kind # "leave"

\* What the API keeps, and what the processes are.
StoreTypes ==
  /\ team \in [Team -> Teams \cup {None, Gone}]
  /\ teamOf \in [Worker -> Team \cup {None}]
  /\ founded \in [Worker -> Team \cup {None}]
  /\ desired \in [Worker -> Orders \cup {None}]
  /\ policy \in [Worker -> Policies \cup {None}]
  /\ request \in [Api -> Request] /\ \A a \in Api : RequestOK(request[a])
  /\ requests \in 0..MaxRequests
ProcessTypes ==
  /\ status \in [Worker -> Address \cup {None}]
  /\ queue \in [Worker -> Seq(Orders)]
  /\ proc \in [Worker -> Process] /\ \A w \in Worker : ProcessOK(proc[w], events)
  /\ events \in 0..MaxEvents
Types == StoreTypes /\ ProcessTypes

\* The types are those that the runs check.
LEMMA TypesSuffice == Types => TypeOK
BY TeamsAssumption
   DEF Types, StoreTypes, ProcessTypes, TypeOK, ProcessOK, Process, Request, Modes

-----------------------------------------------------------------------------
(* The types of the first state *)

\* A process that is down.
LEMMA DownOK ==
  ASSUME NEW address \in Address, NEW n \in Nat, address <= n + 1
  PROVE  ProcessOK(Down(address), n)
BY TeamsAssumption
   DEF ProcessOK, Process, Down, Policies, DefaultPolicy, Decisions, Agendas, Modes

\* No request is in progress in a place that is free.
LEMMA IdleOK == RequestOK(Idle)
BY DEF RequestOK, Request, Idle, Agendas

\* A process that works.
LEMMA WorkingOK ==
  ASSUME NEW m \in Modes, NEW n \in Nat
  PROVE  ProcessOK(Working(m), n)
<1>1. 1 \in Address /\ 1 <= n + 1 BY TeamsAssumption DEF Address
<1>2. ProcessOK(Down(1), n) BY <1>1, DownOK
<1>3. Working(m) \in Process
  BY <1>2 DEF ProcessOK, Process, Working
<1>4. /\ Working(m).up /\ Working(m).mode = m /\ Working(m).address = 1
  BY DEF Working, Down
<1> QED BY <1>1, <1>3, <1>4 DEF ProcessOK, Modes

\* Nothing has been started, or a team was just founded.
LEMMA InitTypes == Init => Types
<1> SUFFICES ASSUME Init PROVE Types OBVIOUS
<1>1. /\ request = [a \in Api |-> Idle] /\ queue = [w \in Worker |-> <<>>]
      /\ requests = 0 /\ events = 0
  BY DEF Init
<1>2. /\ request \in [Api -> Request] /\ \A a \in Api : RequestOK(request[a])
      /\ queue \in [Worker -> Seq(Orders)]
      /\ requests \in 0..MaxRequests /\ events \in 0..MaxEvents /\ events \in Nat
  <2>1. Idle \in Request BY IdleOK DEF RequestOK
  <2> QED BY <1>1, <2>1, IdleOK, TeamsAssumption
<1>3. 0 \in Address /\ 1 \in Address BY TeamsAssumption DEF Address
<1>4. CASE Fresh
  <2>1. proc = [w \in Worker |-> Down(1)] BY <1>4 DEF Fresh
  <2>2. ProcessOK(Down(1), events) BY <1>2, <1>3, DownOK
  <2>3. proc \in [Worker -> Process] /\ \A w \in Worker : ProcessOK(proc[w], events)
    BY <2>1, <2>2 DEF ProcessOK
  <2> QED BY <1>2, <1>4, <2>3 DEF Fresh, Types, StoreTypes, ProcessTypes
<1>5. CASE Underway
  <2>1. PICK c \in Worker, first \in Team :
          /\ team = [t \in Team |-> IF t = first THEN Founded(c, <<c, 1>>, "all") ELSE None]
          /\ teamOf = [w \in Worker |-> IF w = c THEN first ELSE None]
          /\ founded = teamOf
          /\ desired = [w \in Worker |-> IF w = c
                          THEN Order("pool-coordinator", None) ELSE None]
          /\ policy = [w \in Worker |-> IF w = c THEN DefaultPolicy ELSE None]
          /\ status = [w \in Worker |-> 1]
          /\ proc = [w \in Worker |-> Working(IF w = c THEN "pool-coordinator"
                                                       ELSE "standalone")]
    BY <1>5 DEF Underway
  <2>2. Founded(c, <<c, 1>>, "all") \in Teams
    BY <1>3 DEF Founded, Teams, Url, Agendas
  <2>3. /\ Order("pool-coordinator", None) \in Orders
        /\ DefaultPolicy \in Policies
    BY DEF Order, Orders, Modes, DefaultPolicy, Policies, Decisions, Agendas
  <2>4. \A m \in Modes : ProcessOK(Working(m), events) /\ Working(m) \in Process
    <3>1. \A m \in Modes : ProcessOK(Working(m), events) BY <1>2, WorkingOK
    <3> QED BY <3>1 DEF ProcessOK
  <2>5. proc \in [Worker -> Process] /\ \A w \in Worker : ProcessOK(proc[w], events)
    BY <2>1, <2>4 DEF Modes
  <2>6. StoreTypes BY <1>2, <2>1, <2>2, <2>3 DEF StoreTypes
  <2>7. ProcessTypes BY <1>2, <1>3, <2>1, <2>5 DEF ProcessTypes
  <2> QED BY <2>6, <2>7 DEF Types
<1> QED BY <1>4, <1>5 DEF Init

-----------------------------------------------------------------------------
(* The processes keep their types *)

\* A miner does something: to its process, and to what it reports or reads.
LEMMA ProcessStep ==
  ASSUME Types, NEW w \in Worker, NEW p, Becomes(w, p), ProcessOK(p, events'),
         events' \in 0..MaxEvents, events <= events',
         status' \in [Worker -> Address \cup {None}],
         queue' \in [Worker -> Seq(Orders)],
         UNCHANGED <<api, desired>>
  PROVE  Types'
<1>1. proc' = [proc EXCEPT ![w] = p] /\ proc \in [Worker -> Process] /\ p \in Process
  BY DEF Becomes, Types, ProcessTypes, ProcessOK
<1>2. /\ proc' \in [Worker -> Process]
      /\ \A v \in Worker : proc'[v] = IF v = w THEN p ELSE proc[v]
  BY <1>1
<1>3. ASSUME NEW v \in Worker PROVE ProcessOK(proc'[v], events')
  <2>1. CASE v = w BY <1>2, <2>1
  <2>2. CASE v # w
    <3>1. ProcessOK(proc[v], events) /\ events \in Nat /\ events' \in Nat
      BY TeamsAssumption DEF Types, ProcessTypes
    <3>2. proc[v].address \in Nat
      BY <3>1, TeamsAssumption DEF ProcessOK, Process, Address
    <3>3. proc[v].address <= events' + 1
      BY <3>1, <3>2 DEF ProcessOK
    <3>4. ProcessOK(proc[v], events') BY <3>1, <3>3 DEF ProcessOK
    <3> QED BY <1>2, <2>2, <3>4
  <2> QED BY <2>1, <2>2
<1>4. UNCHANGED <<team, teamOf, founded, desired, policy, request, requests>>
  BY DEF api, store
<1>5. StoreTypes' BY <1>4 DEF Types, StoreTypes
<1>6. ProcessTypes' BY <1>2, <1>3 DEF ProcessTypes
<1> QED BY <1>5, <1>6 DEF Types

\* What a miner has in hand.
InHand(w, p) ==
  /\ ProcessOK(p, events) /\ p \in Process /\ p = proc[w]
  /\ p.address \in Nat /\ p.address <= events + 1 /\ p.address \in Address
  /\ p.waiting \subseteq Orders /\ p.seen \in Orders \cup {None}
  /\ p.switch \in Orders \cup {None}
  /\ queue \in [Worker -> Seq(Orders)] /\ queue[w] \in Seq(Orders)
  /\ [queue EXCEPT ![w] = <<>>] \in [Worker -> Seq(Orders)]
  /\ status \in [Worker -> Address \cup {None}]
  /\ desired[w] \in Orders \cup {None} /\ policy[w] \in Policies \cup {None}
  /\ events \in 0..MaxEvents /\ events \in Nat /\ MaxEvents \in Nat
  /\ Happens => events' = events + 1 /\ events' \in 0..MaxEvents

\* It follows from the types.
LEMMA InHandOK ==
  ASSUME Types, NEW w \in Worker
  PROVE  InHand(w, proc[w])
<1>1. proc[w] \in Process /\ ProcessOK(proc[w], events)
  BY DEF Types, ProcessTypes
<1>2. events \in 0..MaxEvents /\ events \in Nat /\ MaxEvents \in Nat
  BY TeamsAssumption DEF Types, ProcessTypes
<1>3. [queue EXCEPT ![w] = <<>>] \in [Worker -> Seq(Orders)]
  <2>1. <<>> \in Seq(Orders) OBVIOUS
  <2> QED BY <2>1 DEF Types, ProcessTypes
<1>4. Happens => events' = events + 1 /\ events' \in 0..MaxEvents
  BY <1>2 DEF Happens
<1>5. /\ queue \in [Worker -> Seq(Orders)] /\ queue[w] \in Seq(Orders)
      /\ status \in [Worker -> Address \cup {None}]
      /\ desired[w] \in Orders \cup {None} /\ policy[w] \in Policies \cup {None}
  BY DEF Types, ProcessTypes, StoreTypes
<1>6. /\ proc[w].address \in Nat /\ proc[w].address <= events + 1
      /\ proc[w].address \in Address
      /\ proc[w].waiting \subseteq Orders /\ proc[w].seen \in Orders \cup {None}
      /\ proc[w].switch \in Orders \cup {None}
  BY <1>1, TeamsAssumption DEF ProcessOK, Process, Address
<1> QED BY <1>1, <1>2, <1>3, <1>4, <1>5, <1>6 DEF InHand

\* main
LEMMA BootStep ==
  ASSUME Types, NEW w \in Worker, Boot(w)
  PROVE  Types'
<1> DEFINE p == proc[w]
           order == IF desired[w] = None THEN Order("standalone", None) ELSE desired[w]
<1>1. InHand(w, p) BY InHandOK
<1>2. order \in Orders
  BY <1>1 DEF InHand, Order, Orders, Modes
<1> HIDE DEF order
<1>3. ASSUME NEW n \in Address, n <= events' + 1, events' \in Nat
      PROVE  ProcessOK([Down(n) EXCEPT !.up = TRUE, !.switch = order], events')
  <2>1. ProcessOK(Down(n), events') BY <1>3, DownOK
  <2> QED BY <1>2, <2>1 DEF ProcessOK, Process, Down
<1>4. UNCHANGED <<api, desired>> /\ queue' = queue /\ status' = status
  BY DEF Boot, orders
<1>5. CASE Becomes(w, [Down(p.address) EXCEPT !.up = TRUE, !.switch = order])
           /\ UNCHANGED events
  <2>1. ProcessOK([Down(p.address) EXCEPT !.up = TRUE, !.switch = order], events')
    BY <1>1, <1>3, <1>5 DEF InHand
  <2> QED BY <1>1, <1>4, <1>5, <2>1, ProcessStep DEF InHand
<1>6. CASE Happens
           /\ Becomes(w, [Down(p.address + 1) EXCEPT !.up = TRUE, !.switch = order])
  <2>1. p.address + 1 \in Address /\ p.address + 1 <= events' + 1 /\ events' \in Nat
        /\ events <= events' /\ events' \in 0..MaxEvents
    BY <1>1, <1>6 DEF InHand, Address
  <2>2. ProcessOK([Down(p.address + 1) EXCEPT !.up = TRUE, !.switch = order], events')
    BY <1>3, <2>1
  <2> QED BY <1>1, <1>4, <1>6, <2>1, <2>2, ProcessStep DEF InHand
<1> QED BY <1>5, <1>6 DEF Boot, order

\* switch_mode takes the lock.
LEMMA SwitchStep ==
  ASSUME Types, NEW w \in Worker, Switch(w)
  PROVE  Types'
<1> DEFINE p == proc[w]
           Taken(rest, order) == [rest EXCEPT !.switch = order, !.mode = "idle",
                                              !.running = FALSE]
<1>1. InHand(w, p) BY InHandOK
<1>2. ASSUME NEW order \in Orders, NEW rest, ProcessOK(rest, events), rest.up,
             TakeLock(w, order, rest)
      PROVE  Types'
  <2>1. ProcessOK(Taken(rest, order), events) BY <1>2 DEF ProcessOK, Process
  <2>2. /\ Becomes(w, Taken(rest, order)) /\ queue' = [queue EXCEPT ![w] = <<>>]
        /\ UNCHANGED <<api, desired>> /\ status' = status /\ events' = events
    BY <1>2 DEF TakeLock
  <2> HIDE DEF Taken
  <2> QED BY <1>1, <2>1, <2>2, ProcessStep DEF InHand
<1>3. CASE SwitchCommanded(w)
  <2>1. PICK order \in p.waiting : TakeLock(w, order, [p EXCEPT !.waiting = @ \ {order}])
    BY <1>3 DEF SwitchCommanded
  <2> DEFINE rest == [p EXCEPT !.waiting = @ \ {order}]
  <2>2. order \in Orders /\ p.up BY <1>1, <2>1 DEF InHand, ProcessOK
  <2>3. ProcessOK(rest, events) /\ rest.up
    BY <1>1, <2>2 DEF InHand, ProcessOK, Process
  <2> HIDE DEF rest
  <2>4. TakeLock(w, order, rest) BY <2>1 DEF rest
  <2> QED BY <1>2, <2>2, <2>3, <2>4
<1>4. CASE SwitchReconciled(w)
  <2> DEFINE rest == [p EXCEPT !.reconciles = TRUE]
             order == p.seen
  <2>1. order # None /\ TakeLock(w, order, rest)
    BY <1>4 DEF SwitchReconciled
  <2>2. order \in Orders /\ p.up BY <1>1, <2>1 DEF InHand, ProcessOK
  <2>3. ProcessOK(rest, events) /\ rest.up
    BY <1>1, <2>2 DEF InHand, ProcessOK, Process
  <2> HIDE DEF rest, order
  <2> QED BY <1>2, <2>1, <2>2, <2>3
<1> QED BY <1>3, <1>4 DEF Switch

\* _start_*, or its failure.
LEMMA StartStep ==
  ASSUME Types, NEW w \in Worker, Start(w) \/ StartFails(w)
  PROVE  Types'
<1> DEFINE p == proc[w]
           s == Switched(p)
           r == [s EXCEPT !.running = TRUE, !.reporting = TRUE, !.voting = DefaultPolicy]
<1>1. InHand(w, p) BY InHandOK
<1>2. p.switch # None /\ p.switch \in Orders /\ p.up
  BY <1>1 DEF Start, StartFails, InHand, ProcessOK
<1>3. p.switch.mode \in Modes /\ p.switch.url \in Url \cup {None} /\ "idle" \notin Modes
  BY <1>2 DEF Orders, Modes
<1>4. ProcessOK(s, events) /\ s.up /\ s.mode # "idle"
  <2>1. ProcessOK(p, events) BY <1>1 DEF InHand
  <2>2. s \in Process /\ s.up /\ s.mode # "idle" /\ s.address = p.address
    <3> DEFINE url == IF p.switch.mode = "pool-worker" THEN p.switch.url ELSE p.url
               seen == IF p.reconciles THEN None ELSE p.seen
               mode == p.switch.mode
    <3>1. p \in Process BY <2>1 DEF ProcessOK
    <3>2. mode \in Modes /\ url \in Url \cup {None} /\ seen \in Orders \cup {None}
      BY <1>3, <3>1 DEF Process
    <3>3. s = [p EXCEPT !.switch = None, !.mode = mode, !.url = url, !.seen = seen,
                        !.reconciles = FALSE]
      BY <3>1 DEF Switched, Process
    <3> HIDE DEF s, url, seen, mode
    <3>4. s.mode = mode /\ s.up = p.up /\ s.address = p.address BY <3>1, <3>3 DEF Process
    <3>5. s \in Process BY <3>1, <3>2, <3>3 DEF Process
    <3> QED BY <1>2, <1>3, <3>2, <3>4, <3>5
  <2> QED BY <2>1, <2>2 DEF ProcessOK
<1>5. UNCHANGED <<api, desired>> /\ queue' = queue /\ status' = status
  BY DEF Start, StartFails, orders
<1>6. CASE Start(w)
  <2>1. DefaultPolicy \in Policies BY DEF DefaultPolicy, Policies, Decisions, Agendas
  <2> HIDE DEF s
  <2>2. ProcessOK(r, events) BY <1>4, <2>1 DEF ProcessOK, Process
  <2>3. Becomes(w, r) /\ events' = events BY <1>6 DEF Start, s
  <2> HIDE DEF r
  <2> QED BY <1>1, <1>5, <2>2, <2>3, ProcessStep DEF InHand
<1>7. CASE StartFails(w)
  <2> HIDE DEF s
  <2>1. /\ events' = events + 1 /\ events' \in 0..MaxEvents /\ events <= events'
        /\ events' \in Nat
    BY <1>1, <1>7 DEF StartFails, InHand
  <2>2. ASSUME NEW q, ProcessOK(q, events) PROVE ProcessOK(q, events')
    <3>1. q.address \in Nat BY <2>2, TeamsAssumption DEF ProcessOK, Process, Address
    <3> QED BY <1>1, <2>1, <2>2, <3>1 DEF ProcessOK, InHand
  <2>3. Becomes(w, s) \/ Becomes(w, Down(p.address)) BY <1>7 DEF StartFails, s
  <2>4. ProcessOK(Down(p.address), events) BY <1>1, DownOK DEF InHand
  <2> QED BY <1>1, <1>4, <1>5, <2>1, <2>2, <2>3, <2>4, ProcessStep DEF InHand
<1> QED BY <1>6, <1>7

\* A miner without a policy has the default one.
LEMMA RecordedOK ==
  ASSUME NEW w \in Worker, policy[w] \in Policies \cup {None}
  PROVE  Recorded(w) \in Policies
BY DEF Recorded, DefaultPolicy, Policies, Decisions, Agendas

\* The commands, the recorded mode and policy are read, and the miner reports.
LEMMA ReadStep ==
  ASSUME Types, NEW w \in Worker,
         HandleCommand(w) \/ Reconcile(w) \/ SyncPolicy(w)
  PROVE  Types'
<1> DEFINE p == proc[w]
<1>1. InHand(w, p) BY InHandOK
<1>2. /\ UNCHANGED <<api, desired>> /\ status' = status /\ events' = events
      /\ HandleCommand(w) \/ queue' = queue
  BY DEF HandleCommand, Reconcile, SyncPolicy, orders
<1>3. CASE HandleCommand(w)
  <2> DEFINE order == Head(queue[w])
             rest == Tail(queue[w])
             r == [p EXCEPT !.waiting = @ \cup {order}]
  <2>1. order \in Orders /\ rest \in Seq(Orders) /\ p.running
    BY <1>1, <1>3 DEF HandleCommand, InHand
  <2>2. Becomes(w, r) /\ queue' = [queue EXCEPT ![w] = rest]
    BY <1>1, <1>3 DEF HandleCommand, InHand
  <2> HIDE DEF order, rest
  <2>3. ProcessOK(r, events) BY <1>1, <2>1 DEF InHand, ProcessOK, Process
  <2>4. queue' \in [Worker -> Seq(Orders)] BY <1>1, <2>1, <2>2 DEF InHand
  <2> HIDE DEF r
  <2> QED BY <1>1, <1>2, <2>2, <2>3, <2>4, ProcessStep DEF InHand
<1>4. CASE Reconcile(w)
  <2> DEFINE r == [p EXCEPT !.seen = desired[w]]
  <2>1. ProcessOK(r, events) BY <1>1, <1>4 DEF Reconcile, InHand, ProcessOK, Process
  <2>2. Becomes(w, r) /\ queue' = queue BY <1>4 DEF Reconcile, orders
  <2> HIDE DEF r
  <2> QED BY <1>1, <1>2, <2>1, <2>2, ProcessStep DEF InHand
<1>5. CASE SyncPolicy(w)
  <2> DEFINE v == Recorded(w)
             r == [p EXCEPT !.voting = v]
  <2>1. v \in Policies BY <1>1, RecordedOK DEF InHand
  <2>2. Becomes(w, r) /\ queue' = queue BY <1>5 DEF SyncPolicy, orders
  <2> HIDE DEF v
  <2>3. ProcessOK(r, events) BY <1>1, <2>1 DEF InHand, ProcessOK, Process
  <2> HIDE DEF r
  <2> QED BY <1>1, <1>2, <2>2, <2>3, ProcessStep DEF InHand
<1> QED BY <1>3, <1>4, <1>5

\* The process dies.
LEMMA CrashStep ==
  ASSUME Types, NEW w \in Worker, Crash(w)
  PROVE  Types'
<1> DEFINE p == proc[w]
           r == Down(p.address)
<1>1. InHand(w, p) BY InHandOK
<1>2. /\ UNCHANGED <<api, desired>> /\ status' = status /\ Becomes(w, r)
      /\ queue' = [queue EXCEPT ![w] = <<>>]
      /\ events' = events + 1 /\ events' \in 0..MaxEvents
  BY <1>1 DEF Crash, InHand
<1>3. ProcessOK(r, events') /\ events <= events'
  BY <1>1, <1>2, DownOK DEF InHand
<1> HIDE DEF r
<1> QED BY <1>1, <1>2, <1>3, ProcessStep DEF InHand

\* What a miner reports lasts a while.
LEMMA ReportStep ==
  ASSUME Types, NEW w \in Worker, Report(w) \/ StatusExpires(w)
  PROVE  Types'
<1>1. InHand(w, proc[w]) BY InHandOK
<1>2. /\ status' = [status EXCEPT ![w] = proc[w].address]
         \/ status' = [status EXCEPT ![w] = None]
      /\ UNCHANGED <<team, teamOf, founded, desired, policy, request, requests,
                     queue, proc, events>>
  BY DEF Report, StatusExpires, api, store, orders
<1>3. status' \in [Worker -> Address \cup {None}] BY <1>1, <1>2 DEF InHand
<1>4. StoreTypes' BY <1>2 DEF Types, StoreTypes
<1>5. ProcessTypes' BY <1>2, <1>3 DEF Types, ProcessTypes
<1> QED BY <1>4, <1>5 DEF Types

-----------------------------------------------------------------------------
(* The invariant of the indices *)

\* The two indices say the same at every step, not only when nobody is at work.
InTeam(w, t) == Exists(t) /\ w \in team[t].members \cup {team[t].coordinator}
Roster ==
  \A w \in Worker, t \in Team :
    /\ teamOf[w] = t <=> InTeam(w, t)
    /\ founded[w] = t <=> Coordinates(w, t)

\* What a request has checked still holds when it writes; what it has written
\* still does when it ends.
Pending(r) ==
  /\ r.step = "write" =>
       CASE r.kind = "create"   -> team[r.team] = None /\ founded[r.by] = None
                                     /\ teamOf[r.by] = None
         [] r.kind = "join"     -> Exists(r.team) /\ teamOf[r.by] = None
         [] r.kind = "leave"    -> r.team = teamOf[r.by] /\ ~Coordinates(r.by, r.team)
         [] r.kind = "dissolve" -> Coordinates(r.by, r.team)
  /\ r.step = "order" =>
       /\ r.kind = "create" => Coordinates(r.by, r.team) /\ team[r.team].agenda = r.agenda
       /\ r.kind = "dissolve" => founded[r.by] = None
  /\ r.step = "policy" =>
       r.kind = "agenda" /\ Coordinates(r.by, r.team) /\ team[r.team].agenda = r.agenda

\* A policy has the agenda of the team or one set by hand, unless the request that
\* changes either has not come to its end.
Pushes(r, w) ==
  /\ r.by = w
  /\ \/ r.step = "order" /\ r.kind \in {"create", "dissolve"}
     \/ r.step = "policy"
AgendaOK(w) ==
  \/ Recorded(w).byHand
  \/ Recorded(w).agenda = "some"
       <=> \E t \in Team : Coordinates(w, t) /\ team[t].agenda = "some"

RInv ==
  /\ Types /\ Roster
  /\ \A a \in Api : Pending(request[a])
  /\ \A w \in Worker : AgendaOK(w) \/ \E a \in Api : Pushes(request[a], w)

\* No two requests are in progress: the owners and members of teams take their turns.
OneAtATime == \A a, b \in Api : a # b => request[a] = Idle \/ request[b] = Idle

\* Then no other request is in progress in a step of one.
Alone(a) == \A b \in Api \ {a} : request[b] = Idle /\ request'[b] = Idle

\* The teams are as they were, but for their address.
SameTeam(t) ==
  /\ team'[t] = None <=> team[t] = None
  /\ Exists(t)' <=> Exists(t)
  /\ Exists(t) => /\ team'[t].coordinator = team[t].coordinator
                  /\ team'[t].members = team[t].members
                  /\ team'[t].agenda = team[t].agenda
SameTeams == \A t \in Team : SameTeam(t)

\* A team is a record, unless it does not exist.
LEMMA TeamOK ==
  ASSUME StoreTypes, NEW t \in Team
  PROVE  /\ team[t] \in Teams \cup {None, Gone} /\ t # None
         /\ Exists(t) <=> team[t] \in Teams
BY TeamsAssumption DEF StoreTypes, Exists

\* A team that is written is a record.
LEMMA TeamWritten ==
  ASSUME StoreTypes, NEW t \in Team, NEW x \in Teams, team' = [team EXCEPT ![t] = x]
  PROVE  /\ team' \in [Team -> Teams \cup {None, Gone}]
         /\ team'[t] = x /\ Exists(t)' /\ team'[t] # None
         /\ \A u \in Team \ {t} : team'[u] = team[u] /\ SameTeam(u)
BY TeamsAssumption DEF StoreTypes, Exists, SameTeam

\* An address is published, or guessed.
LEMMA UrlOK ==
  ASSUME Types, NEW w \in Worker
  PROVE  AddressOf(w) \in Url
BY TeamsAssumption DEF Types, ProcessTypes, AddressOf, Url, Address

\* _hydrate changes addresses only.
LEMMA HydratedOK ==
  ASSUME Types, NEW t \in Team, Hydrated(t)
  PROVE  /\ team' \in [Team -> Teams \cup {None, Gone}]
         /\ desired' \in [Worker -> Orders \cup {None}]
         /\ SameTeams
<1>1. CASE UNCHANGED <<team, desired>>
  BY <1>1 DEF Types, StoreTypes, SameTeams, SameTeam, Exists
<1>2. CASE Exists(t) /\ ~(UNCHANGED <<team, desired>>)
  <2> DEFINE c == team[t].coordinator
             url == AddressOf(c)
             x == [team[t] EXCEPT !.url = url]
  <2>1. team[t] \in Teams /\ c \in Worker /\ team \in [Team -> Teams \cup {None, Gone}]
    BY <1>2, TeamOK DEF Types, StoreTypes, Teams
  <2>2. url \in Url BY <2>1, UrlOK
  <2>3. /\ team' = [team EXCEPT ![t] = x]
        /\ desired' = [w \in Worker |->
             IF w \in team[t].members /\ desired[w] # None
                /\ desired[w].mode = "pool-worker"
             THEN Order("pool-worker", url) ELSE desired[w]]
    BY <1>2, <2>1 DEF Hydrated
  <2> HIDE DEF url
  <2>4. x \in Teams /\ x.coordinator = c /\ x.members = team[t].members
        /\ x.agenda = team[t].agenda
    BY <2>1, <2>2 DEF Teams
  <2> HIDE DEF x
  <2>5. /\ team' \in [Team -> Teams \cup {None, Gone}]
        /\ team'[t] = x /\ Exists(t)' /\ team'[t] # None
        /\ \A u \in Team \ {t} : team'[u] = team[u] /\ SameTeam(u)
    BY <2>3, <2>4, TeamWritten DEF Types
  <2>6. SameTeam(t) BY <1>2, <2>1, <2>4, <2>5, TeamsAssumption DEF SameTeam
  <2>7. Order("pool-worker", url) \in Orders BY <2>2 DEF Order, Orders, Modes
  <2>8. desired' \in [Worker -> Orders \cup {None}]
    BY <2>3, <2>7 DEF Types, StoreTypes
  <2> QED BY <2>5, <2>6, <2>8 DEF SameTeams
<1> QED BY <1>1, <1>2 DEF Hydrated

\* While the teams are the same, so is what depends on them.
LEMMA SameRoster ==
  ASSUME Roster, SameTeams, UNCHANGED <<teamOf, founded>>
  PROVE  Roster'
<1>1. ASSUME NEW w \in Worker, NEW t \in Team
      PROVE  (InTeam(w, t)' <=> InTeam(w, t)) /\ (Coordinates(w, t)' <=> Coordinates(w, t))
  BY DEF SameTeams, SameTeam, InTeam, Coordinates
<1> QED BY <1>1 DEF Roster

\* The same for the policies.
LEMMA SameAgenda ==
  ASSUME SameTeams, UNCHANGED policy, NEW w \in Worker, AgendaOK(w)
  PROVE  AgendaOK(w)'
<1>1. ASSUME NEW t \in Team
      PROVE  (Coordinates(w, t) /\ team[t].agenda = "some")'
               <=> Coordinates(w, t) /\ team[t].agenda = "some"
  BY DEF SameTeams, SameTeam, Coordinates
<1> QED BY <1>1 DEF AgendaOK, Recorded

\* A miner coordinates one team at most.
LEMMA OneTeam ==
  ASSUME Roster, NEW w \in Worker, NEW t \in Team, Coordinates(w, t)
  PROVE  \A u \in Team : Coordinates(w, u) <=> u = t
BY DEF Roster

\* When a request is alone, what it does next is all there is to see.
LEMMA ReplicaStep ==
  ASSUME RInv, NEW a \in Api, Alone(a), Types', Roster', Pending(request[a])',
         \A w \in Worker : AgendaOK(w)' \/ Pushes(request[a], w)'
  PROVE  RInv'
<1>1. ASSUME NEW b \in Api \ {a} PROVE Pending(request[b])'
  <2>1. request'[b] = Idle BY DEF Alone
  <2> QED BY <2>1 DEF Idle, Pending
<1> QED BY <1>1 DEF RInv

-----------------------------------------------------------------------------
(* The requests *)

\* What a place holds is typed when what is put in it is.
LEMMA RequestStep ==
  ASSUME StoreTypes, NEW a \in Api, NEW r, RequestOK(r),
         request' = [request EXCEPT ![a] = r]
  PROVE  /\ request' \in [Api -> Request] /\ \A b \in Api : RequestOK(request'[b])
         /\ request'[a] = r
BY DEF StoreTypes, RequestOK

\* The next step of a request, and its end.
LEMMA ThenOK ==
  ASSUME StoreTypes, NEW a \in Api, NEW step \in {"order", "look"},
         request[a].step # "idle", request[a].kind # "leave" \/ step # "look",
         step = "order" => request[a].step = "write", Then(a, step)
  PROVE  /\ request' \in [Api -> Request] /\ \A b \in Api : RequestOK(request'[b])
         /\ request'[a] = [request[a] EXCEPT !.step = step]
<1> DEFINE r == [request[a] EXCEPT !.step = step]
<1>1. RequestOK(r) BY DEF StoreTypes, RequestOK, Request
<1>2. request' = [request EXCEPT ![a] = r] BY DEF Then, StoreTypes
<1> HIDE DEF r
<1>3. request' \in [Api -> Request] /\ (\A b \in Api : RequestOK(request'[b]))
      /\ request'[a] = r
  BY <1>1, <1>2, RequestStep
<1> QED BY <1>3 DEF r

\* A request that has ended leaves nothing to do.
LEMMA DoneOK ==
  ASSUME StoreTypes, NEW a \in Api, Done(a)
  PROVE  /\ request' \in [Api -> Request] /\ \A b \in Api : RequestOK(request'[b])
         /\ request'[a] = Idle /\ Pending(request[a])'
         /\ \A w \in Worker : ~Pushes(request[a], w)'
<1>1. request' = [request EXCEPT ![a] = Idle] BY DEF Done
<1>2. request' \in [Api -> Request] /\ (\A b \in Api : RequestOK(request'[b]))
      /\ request'[a] = Idle
  BY <1>1, IdleOK, RequestStep
<1> QED BY <1>2 DEF Pending, Pushes, Idle

\* What a request checks leaves it something typed to do.
LEMMA TodoOK ==
  ASSUME StoreTypes, NEW a \in Api, NEW kind \in {"create", "join", "leave", "dissolve"},
         NEW by \in Worker, NEW t \in Team \cup {None}, kind # "leave" => t \in Team,
         NEW to \in SUBSET Worker, NEW order \in Orders, NEW agenda \in Agendas,
         Todo(a, kind, by, t, to, order, agenda)
  PROVE  /\ request' \in [Api -> Request] /\ \A b \in Api : RequestOK(request'[b])
         /\ request'[a].step = "write" /\ request'[a].kind = kind
         /\ request'[a].by = by /\ request'[a].team = t
         /\ \A w \in Worker : ~Pushes(request[a], w)'
<1> DEFINE r == [Idle EXCEPT !.step = "write", !.kind = kind, !.by = by, !.team = t,
                             !.to = to, !.order = order, !.agenda = agenda]
<1>1. RequestOK(r) /\ r.step = "write" /\ r.kind = kind /\ r.by = by /\ r.team = t
  BY IdleOK, TeamsAssumption DEF RequestOK, Request, Idle, Kind
<1>2. request' = [request EXCEPT ![a] = r] BY DEF Todo
<1> HIDE DEF r
<1>3. request' \in [Api -> Request] /\ (\A b \in Api : RequestOK(request'[b]))
      /\ request'[a] = r
  BY <1>1, <1>2, RequestStep
<1> QED BY <1>1, <1>3 DEF Pushes

\* A request that has not written, alone, has no policy on its way.
LEMMA FreeOK ==
  ASSUME RInv, NEW a \in Api, Alone(a), request[a].step \in {"idle", "write"}
  PROVE  \A w \in Worker : AgendaOK(w)
BY DEF RInv, Alone, Idle, Pushes

\* The number of requests.
LEMMA AsksOK ==
  ASSUME Types, NEW a \in Api, Asks(a)
  PROVE  requests' \in 0..MaxRequests /\ request[a].step = "idle"
BY TeamsAssumption DEF Types, StoreTypes, Asks, Idle

\* create_team
LEMMA AskCreateStep ==
  ASSUME RInv, NEW a \in Api, Alone(a), NEW w \in Worker, NEW t \in Team,
         NEW agenda \in Agendas, AskCreate(a, w, t, agenda)
  PROVE  RInv'
<1> DEFINE order == Order("pool-coordinator", None)
<1>1. Types /\ StoreTypes BY DEF RInv, Types
<1>2. requests' \in 0..MaxRequests /\ request[a].step = "idle"
  BY <1>1, AsksOK DEF AskCreate
<1>3. order \in Orders BY DEF Order, Orders, Modes
<1> HIDE DEF order
<1>4. /\ request' \in [Api -> Request] /\ \A b \in Api : RequestOK(request'[b])
      /\ request'[a].step = "write" /\ request'[a].kind = "create"
      /\ request'[a].by = w /\ request'[a].team = t
      /\ \A v \in Worker : ~Pushes(request[a], v)'
  <2>1. Todo(a, "create", w, t, {w}, order, agenda) BY DEF AskCreate, order
  <2> QED BY <1>1, <1>3, <2>1, TodoOK
<1>5. UNCHANGED <<team, teamOf, founded, desired, queue, policy, status, proc, events>>
  BY DEF AskCreate, store, orders
<1>6. Types' BY <1>1, <1>2, <1>4, <1>5 DEF Types, StoreTypes, ProcessTypes
<1>7. SameTeams BY <1>5 DEF SameTeams, SameTeam, Exists
<1>8. Roster' BY <1>5, <1>7, SameRoster DEF RInv
<1>9. Pending(request[a])' BY <1>4, <1>5 DEF Pending, AskCreate
<1>10. \A v \in Worker : AgendaOK(v)'
  BY <1>2, <1>5, <1>7, FreeOK, SameAgenda
<1> QED BY <1>6, <1>8, <1>9, <1>10, ReplicaStep

\* join_team
LEMMA AskJoinStep ==
  ASSUME RInv, NEW a \in Api, Alone(a), NEW w \in Worker, NEW t \in Team,
         AskJoin(a, w, t), teamOf[w] = None
  PROVE  RInv'
<1> DEFINE c == team[t].coordinator
           url == IF status[c] = None THEN team[t].url ELSE AddressOf(c)
           order == Order("pool-worker", url)
           x == [team[t] EXCEPT !.url = url]
<1>1. Types /\ StoreTypes BY DEF RInv, Types
<1>2. requests' \in 0..MaxRequests /\ request[a].step = "idle" /\ Exists(t)
  BY <1>1, AsksOK DEF AskJoin
<1>3. team[t] \in Teams /\ c \in Worker BY <1>1, <1>2, TeamOK DEF Teams
<1>4. url \in Url BY <1>1, <1>3, UrlOK DEF Teams
<1>5. team' = [team EXCEPT ![t] = x]
      /\ UNCHANGED <<teamOf, founded, desired, queue, policy, status, proc, events>>
  BY <1>1, <1>3 DEF AskJoin, orders, StoreTypes
<1>6. IF teamOf[w] # None THEN request' = request ELSE Todo(a, "join", w, t, {w}, order, "all")
  BY DEF AskJoin
<1> HIDE DEF url
<1>7. order \in Orders BY <1>4 DEF Order, Orders, Modes
<1>8. x \in Teams /\ x.coordinator = c /\ x.members = team[t].members
      /\ x.agenda = team[t].agenda
  BY <1>3, <1>4 DEF Teams
<1> HIDE DEF x, order
<1>9. /\ team' \in [Team -> Teams \cup {None, Gone}]
      /\ team'[t] = x /\ Exists(t)' /\ team'[t] # None
      /\ \A u \in Team \ {t} : team'[u] = team[u] /\ SameTeam(u)
  BY <1>1, <1>5, <1>8, TeamWritten
<1>10. SameTeams
  <2>1. SameTeam(t) BY <1>2, <1>3, <1>8, <1>9, TeamsAssumption DEF SameTeam
  <2> QED BY <2>1, <1>9 DEF SameTeams
<1>11. Roster' BY <1>5, <1>10, SameRoster DEF RInv
<1>12. \A v \in Worker : AgendaOK(v)'
  BY <1>2, <1>5, <1>10, FreeOK, SameAgenda
<1>13. /\ request' \in [Api -> Request] /\ \A b \in Api : RequestOK(request'[b])
      /\ request'[a].step = "write" /\ request'[a].kind = "join"
      /\ request'[a].by = w /\ request'[a].team = t
  <2>1. "all" \in Agendas BY DEF Agendas
  <2> QED BY <1>1, <1>6, <1>7, <2>1, TodoOK
<1>14. Types' BY <1>1, <1>2, <1>5, <1>9, <1>13 DEF Types, StoreTypes, ProcessTypes
<1>15. Pending(request[a])' BY <1>5, <1>9, <1>13 DEF Pending
<1> QED BY <1>11, <1>12, <1>14, <1>15, ReplicaStep

\* leave_team and switch_worker_mode
LEMMA AskLeaveStep ==
  ASSUME RInv, NEW a \in Api, Alone(a), NEW w \in Worker, AskLeave(a, w)
  PROVE  RInv'
<1> DEFINE order == Order("standalone", None)
           t == teamOf[w]
<1>1. Types /\ StoreTypes BY DEF RInv, Types
<1>2. requests' \in 0..MaxRequests /\ request[a].step = "idle"
  BY <1>1, AsksOK DEF AskLeave
<1>3. order \in Orders /\ t \in Team \cup {None}
  BY <1>1 DEF Order, Orders, Modes, StoreTypes
<1>4. Todo(a, "leave", w, t, {w}, order, "all") /\ "all" \in Agendas
  BY DEF AskLeave, Agendas
<1> HIDE DEF order, t
<1>5. /\ request' \in [Api -> Request] /\ \A b \in Api : RequestOK(request'[b])
      /\ request'[a].step = "write" /\ request'[a].kind = "leave"
      /\ request'[a].by = w /\ request'[a].team = t
  BY <1>1, <1>3, <1>4, TodoOK
<1>6. UNCHANGED <<team, teamOf, founded, desired, queue, policy, status, proc, events>>
  BY DEF AskLeave, store, orders
<1>7. Types' BY <1>1, <1>2, <1>5, <1>6 DEF Types, StoreTypes, ProcessTypes
<1>8. SameTeams BY <1>6 DEF SameTeams, SameTeam, Exists
<1>9. Roster' BY <1>6, <1>8, SameRoster DEF RInv
<1>10. Pending(request[a])'
  BY <1>5, <1>6 DEF Pending, AskLeave, t, Coordinates, Exists
<1>11. \A v \in Worker : AgendaOK(v)'
  BY <1>2, <1>6, <1>8, FreeOK, SameAgenda
<1> QED BY <1>7, <1>9, <1>10, <1>11, ReplicaStep

\* dissolve_team
LEMMA AskDissolveStep ==
  ASSUME RInv, NEW a \in Api, Alone(a), NEW t \in Team, AskDissolve(a, t)
  PROVE  RInv'
<1> DEFINE order == Order("standalone", None)
           c == team[t].coordinator
<1>1. Types /\ StoreTypes BY DEF RInv, Types
<1>2. requests' \in 0..MaxRequests /\ request[a].step = "idle" /\ Exists(t)
  BY <1>1, AsksOK DEF AskDissolve
<1>3. order \in Orders /\ c \in Worker
  BY <1>1, <1>2, TeamOK DEF Order, Orders, Modes, Teams
<1>4. Todo(a, "dissolve", c, t, {}, order, "all") /\ "all" \in Agendas
  BY DEF AskDissolve, Agendas
<1> HIDE DEF order, c
<1>5. /\ request' \in [Api -> Request] /\ \A b \in Api : RequestOK(request'[b])
      /\ request'[a].step = "write" /\ request'[a].kind = "dissolve"
      /\ request'[a].by = c /\ request'[a].team = t
  BY <1>1, <1>3, <1>4, TodoOK
<1>6. UNCHANGED <<team, teamOf, founded, desired, queue, policy, status, proc, events>>
  BY DEF AskDissolve, store, orders
<1>7. Types' BY <1>1, <1>2, <1>5, <1>6 DEF Types, StoreTypes, ProcessTypes
<1>8. SameTeams BY <1>6 DEF SameTeams, SameTeam, Exists
<1>9. Roster' BY <1>6, <1>8, SameRoster DEF RInv
<1>10. Pending(request[a])'
  BY <1>2, <1>5, <1>6 DEF Pending, c, Coordinates, Exists
<1>11. \A v \in Worker : AgendaOK(v)'
  BY <1>2, <1>6, <1>8, FreeOK, SameAgenda
<1> QED BY <1>7, <1>9, <1>10, <1>11, ReplicaStep

\* set_team_categories
LEMMA AskAgendaStep ==
  ASSUME RInv, NEW a \in Api, Alone(a), NEW t \in Team, NEW agenda \in Agendas,
         AskAgenda(a, t, agenda)
  PROVE  RInv'
<1> DEFINE c == team[t].coordinator
           x == [team[t] EXCEPT !.agenda = agenda]
           r == [Idle EXCEPT !.step = "policy", !.kind = "agenda",
                             !.by = c, !.team = t, !.agenda = agenda]
<1>1. Types /\ StoreTypes /\ Roster BY DEF RInv, Types
<1>2. requests' \in 0..MaxRequests /\ request[a].step = "idle" /\ Exists(t)
  BY <1>1, AsksOK DEF AskAgenda
<1>3. team[t] \in Teams /\ c \in Worker BY <1>1, <1>2, TeamOK DEF Teams
<1>4. team' = [team EXCEPT ![t] = x]
      /\ UNCHANGED <<teamOf, founded, desired, queue, policy, status, proc, events>>
      /\ request' = [request EXCEPT ![a] = r]
  BY <1>1, <1>3 DEF AskAgenda, orders, StoreTypes
<1>5. x \in Teams /\ x.coordinator = c /\ x.members = team[t].members
      /\ x.agenda = agenda
  BY <1>3 DEF Teams
<1>6. RequestOK(r) /\ r.step = "policy" /\ r.kind = "agenda" /\ r.by = c
      /\ r.team = t /\ r.agenda = agenda
  BY <1>3, IdleOK DEF RequestOK, Request, Idle, Kind
<1> HIDE DEF x, r
<1>7. /\ team' \in [Team -> Teams \cup {None, Gone}]
      /\ team'[t] = x /\ Exists(t)' /\ team'[t] # None
      /\ \A u \in Team \ {t} : team'[u] = team[u] /\ SameTeam(u)
  BY <1>1, <1>4, <1>5, TeamWritten
<1>8. /\ request' \in [Api -> Request] /\ \A b \in Api : RequestOK(request'[b])
      /\ request'[a] = r
  BY <1>1, <1>4, <1>6, RequestStep
<1>9. Types' BY <1>1, <1>2, <1>4, <1>7, <1>8 DEF Types, StoreTypes, ProcessTypes
<1>10. ASSUME NEW w \in Worker, NEW u \in Team
       PROVE  (InTeam(w, u)' <=> InTeam(w, u)) /\ (Coordinates(w, u)' <=> Coordinates(w, u))
  BY <1>2, <1>3, <1>5, <1>7 DEF SameTeam, InTeam, Coordinates
<1>11. Roster' BY <1>1, <1>4, <1>10 DEF Roster
<1>12. Pending(request[a])' BY <1>3, <1>5, <1>6, <1>7, <1>8 DEF Pending, Coordinates
<1>13. ASSUME NEW w \in Worker PROVE AgendaOK(w)' \/ Pushes(request[a], w)'
  <2>1. CASE w = c BY <2>1, <1>6, <1>8 DEF Pushes
  <2>2. CASE w # c
    <3>1. ASSUME NEW u \in Team
          PROVE  (Coordinates(w, u) /\ team[u].agenda = "some")'
                   <=> Coordinates(w, u) /\ team[u].agenda = "some"
      <4>1. CASE u = t BY <4>1, <2>2, <1>5, <1>7 DEF Coordinates
      <4>2. CASE u # t BY <4>2, <1>7 DEF SameTeam, Coordinates
      <4> QED BY <4>1, <4>2
    <3>2. AgendaOK(w) BY <1>2, FreeOK
    <3> QED BY <1>4, <3>1, <3>2 DEF AgendaOK, Recorded
  <2> QED BY <2>1, <2>2
<1> QED BY <1>9, <1>11, <1>12, <1>13, ReplicaStep

\* TeamsStore.create
LEMMA WriteCreateStep ==
  ASSUME RInv, NEW a \in Api, Alone(a), WriteCreate(a)
  PROVE  RInv'
<1>1. Types /\ StoreTypes /\ Roster BY DEF RInv, Types
<1>2. PICK w \in Worker, t \in Team :
        /\ request[a].step = "write" /\ request[a].kind = "create" /\ RequestOK(request[a])
        /\ request[a].by = w /\ request[a].team = t
  <2>1. /\ request[a].step = "write" /\ request[a].kind = "create" /\ RequestOK(request[a])
        /\ request[a].by \in Worker /\ request[a].team \in Team
    BY <1>1 DEF WriteCreate, At, StoreTypes, RequestOK
  <2> QED BY <2>1
<1> DEFINE agenda == request[a].agenda
           x == Founded(w, AddressOf(w), agenda)
<1>3. team[t] = None /\ founded[w] = None /\ teamOf[w] = None
  BY <1>2 DEF RInv, Pending
<1>4. /\ team' = [team EXCEPT ![t] = x] /\ teamOf' = [teamOf EXCEPT ![w] = t]
      /\ founded' = [founded EXCEPT ![w] = t] /\ Then(a, "order")
      /\ UNCHANGED <<desired, queue, policy, status, proc, requests, events>>
  BY <1>2 DEF WriteCreate, orders
<1>5. x \in Teams /\ x.coordinator = w /\ x.members = {} /\ x.agenda = agenda
  <2>1. agenda \in Agendas BY <1>2 DEF RequestOK, Request
  <2> QED BY <1>1, <2>1, UrlOK DEF Founded, Teams
<1> HIDE DEF x
<1>6. /\ team' \in [Team -> Teams \cup {None, Gone}]
      /\ team'[t] = x /\ Exists(t)' /\ team'[t] # None
      /\ \A u \in Team \ {t} : team'[u] = team[u] /\ SameTeam(u)
  BY <1>1, <1>2, <1>4, <1>5, TeamWritten
<1>7. /\ request' \in [Api -> Request] /\ \A b \in Api : RequestOK(request'[b])
      /\ request'[a] = [request[a] EXCEPT !.step = "order"]
  BY <1>1, <1>2, <1>4, ThenOK
<1>8. request'[a].step = "order" /\ request'[a].kind = "create"
      /\ request'[a].by = w /\ request'[a].team = t /\ request'[a].agenda = agenda
  BY <1>2, <1>7 DEF RequestOK, Request
<1>9. /\ teamOf' \in [Worker -> Team \cup {None}] /\ founded' \in [Worker -> Team \cup {None}]
      /\ teamOf'[w] = t /\ founded'[w] = t
      /\ \A v \in Worker \ {w} : teamOf'[v] = teamOf[v] /\ founded'[v] = founded[v]
  BY <1>1, <1>2, <1>4 DEF StoreTypes
<1>10. Types' BY <1>1, <1>4, <1>6, <1>7, <1>9 DEF Types, StoreTypes, ProcessTypes
<1>11. \A v \in Worker, u \in Team \ {t} :
         (InTeam(v, u)' <=> InTeam(v, u)) /\ (Coordinates(v, u)' <=> Coordinates(v, u))
  BY <1>6 DEF SameTeam, InTeam, Coordinates
<1>12. \A v \in Worker : ~InTeam(v, t) /\ ~Coordinates(v, t)
                         /\ (InTeam(v, t)' <=> v = w) /\ (Coordinates(v, t)' <=> v = w)
  <2>1. \A v \in Worker : ~InTeam(v, t) /\ ~Coordinates(v, t)
    BY <1>3 DEF InTeam, Coordinates, Exists
  <2>2. \A v \in Worker : (InTeam(v, t)' <=> v = w) /\ (Coordinates(v, t)' <=> v = w)
    BY <1>5, <1>6 DEF InTeam, Coordinates
  <2> QED BY <2>1, <2>2
<1>13. Roster'
  <2>1. ASSUME NEW v \in Worker, NEW u \in Team
        PROVE  /\ teamOf'[v] = u <=> InTeam(v, u)'
               /\ founded'[v] = u <=> Coordinates(v, u)'
    <3>1. CASE u = t
      <4>1. v # w => teamOf[v] # t /\ founded[v] # t BY <1>1, <1>2, <1>12 DEF Roster
      <4> QED BY <3>1, <4>1, <1>9, <1>12
    <3>2. CASE u # t
      <4>1. v = w => ~InTeam(v, u) /\ ~Coordinates(v, u)
        BY <1>1, <1>2, <1>3, TeamsAssumption DEF Roster
      <4>2. v # w => (teamOf'[v] = u <=> InTeam(v, u)) /\ (founded'[v] = u <=> Coordinates(v, u))
        BY <1>1, <1>9 DEF Roster
      <4> QED BY <3>2, <4>1, <4>2, <1>9, <1>11
    <3> QED BY <3>1, <3>2
  <2> QED BY <2>1 DEF Roster
<1>14. Pending(request[a])' BY <1>2, <1>5, <1>6, <1>8, <1>12 DEF Pending
<1>15. ASSUME NEW v \in Worker PROVE AgendaOK(v)' \/ Pushes(request[a], v)'
  <2>1. CASE v = w BY <2>1, <1>8 DEF Pushes
  <2>2. CASE v # w
    <3>1. AgendaOK(v) BY <1>2, FreeOK
    <3>2. \A u \in Team : (Coordinates(v, u) /\ team[u].agenda = "some")'
                            <=> Coordinates(v, u) /\ team[u].agenda = "some"
      BY <2>2, <1>6, <1>11, <1>12
    <3> QED BY <1>4, <3>1, <3>2 DEF AgendaOK, Recorded
  <2> QED BY <2>1, <2>2
<1> QED BY <1>10, <1>13, <1>14, <1>15, ReplicaStep

\* TeamsStore.add_member
LEMMA WriteJoinStep ==
  ASSUME RInv, NEW a \in Api, Alone(a), WriteJoin(a)
  PROVE  RInv'
<1>1. Types /\ StoreTypes /\ Roster BY DEF RInv, Types
<1>2. PICK w \in Worker, t \in Team :
        /\ request[a].step = "write" /\ request[a].kind = "join" /\ RequestOK(request[a])
        /\ request[a].by = w /\ request[a].team = t
  <2>1. /\ request[a].step = "write" /\ request[a].kind = "join" /\ RequestOK(request[a])
        /\ request[a].by \in Worker /\ request[a].team \in Team
    BY <1>1 DEF WriteJoin, At, StoreTypes, RequestOK
  <2> QED BY <2>1
<1> DEFINE x == [team[t] EXCEPT !.members = @ \cup {w}]
<1>3. Exists(t) /\ teamOf[w] = None /\ team[t] \in Teams
  <2>1. Exists(t) /\ teamOf[w] = None BY <1>2 DEF RInv, Pending
  <2> QED BY <1>1, <1>2, <2>1, TeamOK
<1>4. /\ team' = [team EXCEPT ![t] = x] /\ teamOf' = [teamOf EXCEPT ![w] = t]
      /\ Then(a, "order")
      /\ UNCHANGED <<founded, desired, queue, policy, status, proc, requests, events>>
  BY <1>1, <1>2, <1>3 DEF WriteJoin, orders, StoreTypes
<1>5. x \in Teams /\ x.coordinator = team[t].coordinator /\ x.agenda = team[t].agenda
      /\ x.members = team[t].members \cup {w}
  BY <1>2, <1>3 DEF Teams
<1> HIDE DEF x
<1>6. /\ team' \in [Team -> Teams \cup {None, Gone}]
      /\ team'[t] = x /\ Exists(t)' /\ team'[t] # None
      /\ \A u \in Team \ {t} : team'[u] = team[u] /\ SameTeam(u)
  BY <1>1, <1>2, <1>4, <1>5, TeamWritten
<1>7. /\ request' \in [Api -> Request] /\ \A b \in Api : RequestOK(request'[b])
      /\ request'[a] = [request[a] EXCEPT !.step = "order"]
  BY <1>1, <1>2, <1>4, ThenOK
<1>8. request'[a].step = "order" /\ request'[a].kind = "join"
  BY <1>2, <1>7 DEF RequestOK, Request
<1>9. /\ teamOf' \in [Worker -> Team \cup {None}] /\ teamOf'[w] = t
      /\ \A v \in Worker \ {w} : teamOf'[v] = teamOf[v]
  BY <1>1, <1>2, <1>4 DEF StoreTypes
<1>10. Types' BY <1>1, <1>4, <1>6, <1>7, <1>9 DEF Types, StoreTypes, ProcessTypes
<1>11. \A v \in Worker, u \in Team :
         /\ Coordinates(v, u)' <=> Coordinates(v, u)
         /\ Coordinates(v, u) => team'[u].agenda = team[u].agenda
         /\ u # t => (InTeam(v, u)' <=> InTeam(v, u))
  BY <1>3, <1>5, <1>6 DEF SameTeam, InTeam, Coordinates
<1>12. \A v \in Worker : InTeam(v, t)' <=> InTeam(v, t) \/ v = w
  BY <1>3, <1>5, <1>6 DEF InTeam
<1>13. Roster'
  <2>1. ASSUME NEW v \in Worker, NEW u \in Team
        PROVE  /\ teamOf'[v] = u <=> InTeam(v, u)'
               /\ founded'[v] = u <=> Coordinates(v, u)'
    <3>1. founded'[v] = u <=> Coordinates(v, u)' BY <1>1, <1>4, <1>11 DEF Roster
    <3>2. CASE v = w
      <4>1. ~InTeam(w, u) BY <1>1, <1>2, <1>3, TeamsAssumption DEF Roster
      <4> QED BY <3>1, <3>2, <4>1, <1>9, <1>11, <1>12
    <3>3. CASE v # w BY <3>1, <3>3, <1>1, <1>9, <1>11, <1>12 DEF Roster
    <3> QED BY <3>2, <3>3
  <2> QED BY <2>1 DEF Roster
<1>14. Pending(request[a])' BY <1>8 DEF Pending
<1>15. ASSUME NEW v \in Worker PROVE AgendaOK(v)'
  <2>1. AgendaOK(v) BY <1>2, FreeOK
  <2> QED BY <1>4, <1>11, <2>1 DEF AgendaOK, Recorded
<1> QED BY <1>10, <1>13, <1>14, <1>15, ReplicaStep

\* TeamsStore.remove_member
LEMMA WriteLeaveStep ==
  ASSUME RInv, NEW a \in Api, Alone(a), WriteLeave(a)
  PROVE  RInv'
<1>1. Types /\ StoreTypes /\ Roster BY DEF RInv, Types
<1>2. PICK w \in Worker, t \in Team \cup {None} :
        /\ request[a].step = "write" /\ request[a].kind = "leave" /\ RequestOK(request[a])
        /\ request[a].by = w /\ request[a].team = t
  <2>1. /\ request[a].step = "write" /\ request[a].kind = "leave" /\ RequestOK(request[a])
        /\ request[a].by \in Worker /\ request[a].team \in Team \cup {None}
    BY <1>1 DEF WriteLeave, At, StoreTypes, RequestOK, Request
  <2> QED BY <2>1
<1>3. t = teamOf[w] /\ ~Coordinates(w, t) BY <1>2 DEF RInv, Pending
<1>4. /\ team' = IF Exists(t) THEN [team EXCEPT ![t].members = @ \ {w}] ELSE team
      /\ teamOf' = IF t # None THEN [teamOf EXCEPT ![w] = None] ELSE teamOf
      /\ Then(a, "order")
      /\ UNCHANGED <<founded, desired, queue, policy, status, proc, requests, events>>
  BY <1>2 DEF WriteLeave, orders
<1>5. /\ request' \in [Api -> Request] /\ \A b \in Api : RequestOK(request'[b])
      /\ request'[a] = [request[a] EXCEPT !.step = "order"]
  BY <1>1, <1>2, <1>4, ThenOK
<1>6. request'[a].step = "order" /\ request'[a].kind = "leave"
  BY <1>2, <1>5 DEF RequestOK, Request
<1>7. Pending(request[a])' BY <1>6 DEF Pending
<1>8. \A v \in Worker : AgendaOK(v) BY <1>2, FreeOK
<1>9. CASE t = None
  <2>1. team' = team /\ teamOf' = teamOf BY <1>4, <1>9 DEF Exists
  <2>2. Types' BY <1>1, <1>4, <1>5, <2>1 DEF Types, StoreTypes, ProcessTypes
  <2>3. SameTeams BY <2>1 DEF SameTeams, SameTeam, Exists
  <2>4. Roster' BY <1>1, <1>4, <2>1, <2>3, SameRoster
  <2>5. \A v \in Worker : AgendaOK(v)' BY <1>4, <1>8, <2>3, SameAgenda
  <2> QED BY <1>7, <2>2, <2>4, <2>5, ReplicaStep
<1>10. CASE t \in Team
  <2> DEFINE x == [team[t] EXCEPT !.members = @ \ {w}]
  <2>1. InTeam(w, t) /\ Exists(t) /\ team[t] \in Teams
    <3>1. InTeam(w, t) /\ Exists(t) BY <1>1, <1>3, <1>10 DEF Roster, InTeam
    <3> QED BY <1>1, <1>10, <3>1, TeamOK
  <2>2. team' = [team EXCEPT ![t] = x] /\ teamOf' = [teamOf EXCEPT ![w] = None]
    BY <1>1, <1>4, <1>10, <2>1, TeamsAssumption DEF StoreTypes
  <2>3. x \in Teams /\ x.coordinator = team[t].coordinator /\ x.agenda = team[t].agenda
        /\ x.members = team[t].members \ {w}
    BY <2>1 DEF Teams
  <2> HIDE DEF x
  <2>4. /\ team' \in [Team -> Teams \cup {None, Gone}]
        /\ team'[t] = x /\ Exists(t)' /\ team'[t] # None
        /\ \A u \in Team \ {t} : team'[u] = team[u] /\ SameTeam(u)
    BY <1>1, <1>10, <2>2, <2>3, TeamWritten
  <2>5. /\ teamOf' \in [Worker -> Team \cup {None}] /\ teamOf'[w] = None
        /\ \A v \in Worker \ {w} : teamOf'[v] = teamOf[v]
    BY <1>1, <2>2 DEF StoreTypes
  <2>6. Types' BY <1>1, <1>4, <1>5, <2>4, <2>5 DEF Types, StoreTypes, ProcessTypes
  <2>7. \A v \in Worker, u \in Team :
          /\ Coordinates(v, u)' <=> Coordinates(v, u)
          /\ Coordinates(v, u) => team'[u].agenda = team[u].agenda
          /\ u # t => (InTeam(v, u)' <=> InTeam(v, u))
    BY <2>1, <2>3, <2>4 DEF SameTeam, InTeam, Coordinates
  <2>8. \A v \in Worker : InTeam(v, t)' <=> InTeam(v, t) /\ v # w
    <3>1. team[t].coordinator # w BY <1>3, <2>1 DEF Coordinates
    <3> QED BY <2>1, <2>3, <2>4, <3>1 DEF InTeam
  <2>9. Roster'
    <3>1. ASSUME NEW v \in Worker, NEW u \in Team
          PROVE  /\ teamOf'[v] = u <=> InTeam(v, u)'
                 /\ founded'[v] = u <=> Coordinates(v, u)'
      <4>1. founded'[v] = u <=> Coordinates(v, u)' BY <1>1, <1>4, <2>7 DEF Roster
      <4>2. CASE v = w
        <5>1. teamOf'[v] # u /\ (u # t => ~InTeam(w, u))
          BY <1>1, <1>3, <4>2, <2>5, TeamsAssumption DEF Roster
        <5> QED BY <4>1, <4>2, <5>1, <2>7, <2>8
      <4>3. CASE v # w BY <4>1, <4>3, <1>1, <2>5, <2>7, <2>8 DEF Roster
      <4> QED BY <4>2, <4>3
    <3> QED BY <3>1 DEF Roster
  <2>10. ASSUME NEW v \in Worker PROVE AgendaOK(v)'
    BY <1>4, <1>8, <2>7 DEF AgendaOK, Recorded
  <2> QED BY <1>7, <2>6, <2>9, <2>10, ReplicaStep
<1> QED BY <1>9, <1>10

\* TeamsStore.dissolve
LEMMA WriteDissolveStep ==
  ASSUME RInv, NEW a \in Api, Alone(a), WriteDissolve(a)
  PROVE  RInv'
<1>1. Types /\ StoreTypes /\ Roster BY DEF RInv, Types
<1>2. PICK w \in Worker, t \in Team :
        /\ request[a].step = "write" /\ request[a].kind = "dissolve"
        /\ RequestOK(request[a]) /\ request[a].by = w /\ request[a].team = t
  <2>1. /\ request[a].step = "write" /\ request[a].kind = "dissolve"
        /\ RequestOK(request[a])
        /\ request[a].by \in Worker /\ request[a].team \in Team
    BY <1>1 DEF WriteDissolve, At, StoreTypes, RequestOK
  <2> QED BY <2>1
<1>3. Exists(t) /\ Coordinates(w, t) /\ team[t].coordinator = w /\ team[t] \in Teams
  <2>1. Coordinates(w, t) BY <1>2 DEF RInv, Pending
  <2> QED BY <1>1, <2>1, TeamOK DEF Coordinates
<1> DEFINE r == [request[a] EXCEPT !.step = "order", !.to = Affected(t)]
<1>4. /\ team' = [team EXCEPT ![t] = Gone]
      /\ teamOf' = [v \in Worker |-> IF v \in Affected(t) THEN None ELSE teamOf[v]]
      /\ founded' = [founded EXCEPT ![w] = None]
      /\ request' = [request EXCEPT ![a] = r]
      /\ UNCHANGED <<desired, queue, policy, status, proc, requests, events>>
  BY <1>1, <1>2, <1>3 DEF WriteDissolve, orders, StoreTypes
<1>5. Affected(t) \in SUBSET Worker /\ \A v \in Worker : v \in Affected(t) <=> InTeam(v, t)
  BY <1>3 DEF Affected, InTeam, Teams
<1>6. RequestOK(r) /\ r.step = "order" /\ r.kind = "dissolve" /\ r.by = w
  BY <1>2, <1>5 DEF RequestOK, Request
<1> HIDE DEF r
<1>7. /\ request' \in [Api -> Request] /\ \A b \in Api : RequestOK(request'[b])
      /\ request'[a] = r
  BY <1>1, <1>4, <1>6, RequestStep
<1>8. /\ team' \in [Team -> Teams \cup {None, Gone}] /\ ~Exists(t)'
      /\ \A u \in Team \ {t} : team'[u] = team[u]
  BY <1>1, <1>4, TeamsAssumption DEF StoreTypes, Exists
<1>9. /\ teamOf' \in [Worker -> Team \cup {None}]
      /\ founded' \in [Worker -> Team \cup {None}] /\ founded'[w] = None
      /\ \A v \in Worker : teamOf'[v] = IF InTeam(v, t) THEN None ELSE teamOf[v]
      /\ \A v \in Worker \ {w} : founded'[v] = founded[v]
  BY <1>1, <1>4, <1>5 DEF StoreTypes
<1>10. Types' BY <1>1, <1>4, <1>7, <1>8, <1>9 DEF Types, StoreTypes, ProcessTypes
<1>11. \A v \in Worker, u \in Team \ {t} :
         /\ Coordinates(v, u)' <=> Coordinates(v, u)
         /\ InTeam(v, u)' <=> InTeam(v, u)
  BY <1>8 DEF InTeam, Coordinates, Exists
<1>12. \A v \in Worker : ~InTeam(v, t)' /\ ~Coordinates(v, t)'
  BY <1>8 DEF InTeam, Coordinates
<1>13. Roster'
  <2>1. ASSUME NEW v \in Worker, NEW u \in Team
        PROVE  /\ teamOf'[v] = u <=> InTeam(v, u)'
               /\ founded'[v] = u <=> Coordinates(v, u)'
    <3>1. None # u BY TeamsAssumption
    <3>2. CASE u = t
      <4>1. teamOf'[v] # t BY <1>1, <1>9, <3>1, <3>2 DEF Roster
      <4>2. founded'[v] # t
        BY <1>1, <1>3, <1>9, <3>1, <3>2 DEF Roster, Coordinates
      <4> QED BY <3>2, <4>1, <4>2, <1>12
    <3>3. CASE u # t
      <4>1. InTeam(v, t) => teamOf[v] # u BY <1>1, <3>3 DEF Roster
      <4>2. v = w => founded[v] # u BY <1>1, <1>3, <3>3 DEF Roster
      <4>3. teamOf'[v] = u <=> teamOf[v] = u BY <4>1, <1>9, <3>1
      <4>4. founded'[v] = u <=> founded[v] = u BY <4>2, <1>9, <3>1
      <4> QED BY <3>3, <4>3, <4>4, <1>1, <1>11 DEF Roster
    <3> QED BY <3>2, <3>3
  <2> QED BY <2>1 DEF Roster
<1>14. Pending(request[a])' BY <1>6, <1>7, <1>9 DEF Pending
<1>15. ASSUME NEW v \in Worker PROVE AgendaOK(v)' \/ Pushes(request[a], v)'
  <2>1. CASE v = w BY <2>1, <1>6, <1>7 DEF Pushes
  <2>2. CASE v # w
    <3>1. AgendaOK(v) BY <1>2, FreeOK
    <3>2. \A u \in Team : (Coordinates(v, u) /\ team[u].agenda = "some")'
                            <=> Coordinates(v, u) /\ team[u].agenda = "some"
      <4>1. ~Coordinates(v, t) BY <1>3, <2>2 DEF Coordinates
      <4> QED BY <4>1, <1>8, <1>11, <1>12
    <3> QED BY <1>4, <3>1, <3>2 DEF AgendaOK, Recorded
  <2> QED BY <2>1, <2>2
<1> QED BY <1>10, <1>13, <1>14, <1>15, ReplicaStep

\* dispatch_switch_mode
LEMMA DispatchStep ==
  ASSUME RInv, NEW a \in Api, Alone(a), NEW w \in Worker, Dispatch(a, w)
  PROVE  RInv'
<1> DEFINE r == [request[a] EXCEPT !.to = @ \ {w}]
           order == request[a].order
<1>1. Types /\ StoreTypes /\ Roster BY DEF RInv, Types
<1>2. request[a].step = "order" /\ RequestOK(request[a]) /\ order \in Orders
  BY <1>1 DEF Dispatch, StoreTypes, RequestOK
<1>3. /\ desired' = [desired EXCEPT ![w] = order]
      /\ queue' = [queue EXCEPT ![w] = IF Listens(w) THEN Append(@, order) ELSE @]
      /\ request' = [request EXCEPT ![a] = r]
      /\ UNCHANGED <<team, teamOf, founded, policy, status, proc, requests, events>>
  BY <1>1 DEF Dispatch, store, StoreTypes
<1>4. RequestOK(r) /\ r.step = "order" /\ r.kind = request[a].kind /\ r.by = request[a].by
      /\ r.team = request[a].team /\ r.agenda = request[a].agenda
  BY <1>2 DEF RequestOK, Request
<1> HIDE DEF r, order
<1>5. /\ request' \in [Api -> Request] /\ \A b \in Api : RequestOK(request'[b])
      /\ request'[a] = r
  BY <1>1, <1>3, <1>4, RequestStep
<1>6. desired' \in [Worker -> Orders \cup {None}] BY <1>1, <1>2, <1>3 DEF StoreTypes
<1>7. queue' \in [Worker -> Seq(Orders)]
  <2> DEFINE q == IF Listens(w) THEN Append(queue[w], order) ELSE queue[w]
  <2>1. queue \in [Worker -> Seq(Orders)] BY <1>1 DEF Types, ProcessTypes
  <2>2. q \in Seq(Orders) BY <2>1, <1>2
  <2>3. queue' = [queue EXCEPT ![w] = q] BY <1>3, <2>1
  <2> HIDE DEF q
  <2> QED BY <2>1, <2>2, <2>3
<1>8. Types' BY <1>1, <1>3, <1>5, <1>6, <1>7 DEF Types, StoreTypes, ProcessTypes
<1>9. SameTeams BY <1>3 DEF SameTeams, SameTeam, Exists
<1>10. Roster' BY <1>1, <1>3, <1>9, SameRoster
<1>11. Pending(request[a])'
  <2>1. Pending(request[a]) BY DEF RInv
  <2> QED BY <1>2, <1>3, <1>4, <1>5, <2>1 DEF Pending, Coordinates, Exists
<1>12. ASSUME NEW v \in Worker PROVE AgendaOK(v)' \/ Pushes(request[a], v)'
  <2>1. AgendaOK(v) \/ Pushes(request[a], v) BY DEF RInv, Alone, Idle, Pushes
  <2>2. CASE AgendaOK(v) BY <1>3, <1>9, <2>2, SameAgenda
  <2>3. CASE Pushes(request[a], v) BY <1>2, <1>4, <1>5, <2>3 DEF Pushes
  <2> QED BY <2>1, <2>2, <2>3
<1> QED BY <1>8, <1>10, <1>11, <1>12, ReplicaStep

\* push_voting_policy
LEMMA PushPolicyStep ==
  ASSUME RInv, NEW a \in Api, Alone(a), PushPolicy(a)
  PROVE  RInv'
<1>1. Types /\ StoreTypes /\ Roster /\ RequestOK(request[a])
  BY DEF RInv, Types, StoreTypes
<1>2. PICK w \in Worker, t \in Team, agenda \in Agendas :
        /\ request[a].by = w /\ request[a].team = t /\ request[a].agenda = agenda
        /\ Coordinates(w, t) /\ team[t].agenda = agenda
  <2>1. Pending(request[a]) /\ request[a].agenda \in Agendas
    BY <1>1 DEF RInv, RequestOK, Request
  <2>2. /\ request[a].by \in Worker /\ request[a].team \in Team
        /\ Coordinates(request[a].by, request[a].team)
        /\ team[request[a].team].agenda = request[a].agenda
    BY <1>1, <2>1 DEF PushPolicy, Ordered, At, Pending, RequestOK
  <2> QED BY <2>1, <2>2
<1> DEFINE p == [decision |-> Recorded(w).decision, agenda |-> agenda, byHand |-> FALSE]
<1>3. /\ policy' = [policy EXCEPT ![w] = p] /\ Then(a, "look")
      /\ UNCHANGED <<team, teamOf, founded, desired, queue, status, proc, requests, events>>
  BY <1>2 DEF PushPolicy, store, orders
<1>4. /\ policy' \in [Worker -> Policies \cup {None}]
      /\ policy'[w] \in Policies /\ policy'[w].agenda = agenda
      /\ \A v \in Worker \ {w} : policy'[v] = policy[v]
  <2>1. policy \in [Worker -> Policies \cup {None}] BY <1>1 DEF StoreTypes
  <2>2. Recorded(w) \in Policies BY <1>2, <2>1, RecordedOK
  <2>3. p \in Policies /\ p.agenda = agenda BY <1>2, <2>2 DEF Policies
  <2> HIDE DEF p
  <2> QED BY <1>3, <2>1, <2>3
<1>5. request[a].step \in {"order", "policy"} /\ request[a].kind \in {"create", "agenda"}
  BY DEF PushPolicy, Ordered, At
<1>6. /\ request' \in [Api -> Request] /\ \A b \in Api : RequestOK(request'[b])
      /\ request'[a] = [request[a] EXCEPT !.step = "look"]
  BY <1>1, <1>3, <1>5, ThenOK
<1>7. request'[a].step = "look" BY <1>1, <1>6 DEF RequestOK, Request
<1>8. Types' BY <1>1, <1>3, <1>4, <1>6 DEF Types, StoreTypes, ProcessTypes
<1>9. SameTeams BY <1>3 DEF SameTeams, SameTeam, Exists
<1>10. Roster' BY <1>1, <1>3, <1>9, SameRoster
<1>11. Pending(request[a])' BY <1>7 DEF Pending
<1>12. ASSUME NEW v \in Worker PROVE AgendaOK(v)'
  <2>1. \A u \in Team : (Coordinates(v, u) /\ team[u].agenda = "some")'
                          <=> Coordinates(v, u) /\ team[u].agenda = "some"
    BY <1>9 DEF SameTeams, SameTeam, Coordinates
  <2>2. CASE v = w
    <3>1. \A u \in Team : Coordinates(w, u) <=> u = t BY <1>1, <1>2, OneTeam
    <3>2. policy'[w] # None BY <1>4, TeamsAssumption
    <3>3. Recorded(v)'.agenda = agenda BY <1>4, <2>2, <3>2 DEF Recorded
    <3> QED BY <2>1, <2>2, <3>1, <3>3, <1>2 DEF AgendaOK
  <2>3. CASE v # w
    <3>1. AgendaOK(v) BY <1>2, <2>3 DEF RInv, Alone, Idle, Pushes
    <3>2. Recorded(v)' = Recorded(v) BY <1>4, <2>3 DEF Recorded
    <3> QED BY <2>1, <3>1, <3>2 DEF AgendaOK
  <2> QED BY <2>2, <2>3
<1> QED BY <1>8, <1>10, <1>11, <1>12, ReplicaStep

\* _hydrate at the end of a request, and the end of leave_team
LEMMA FinishMoveStep ==
  ASSUME RInv, NEW a \in Api, Alone(a), FinishShown(a) \/ FinishLeave(a)
  PROVE  RInv'
<1>1. Types /\ StoreTypes /\ Roster BY DEF RInv, Types
<1>2. /\ \A v \in Worker : ~Pushes(request[a], v)
      /\ Done(a)
      /\ UNCHANGED <<teamOf, founded, policy, queue, status, proc, requests, events>>
  BY DEF FinishShown, FinishLeave, Ordered, At, Pushes, store, orders
<1>3. /\ team' \in [Team -> Teams \cup {None, Gone}]
      /\ desired' \in [Worker -> Orders \cup {None}]
      /\ SameTeams
  <2>1. CASE FinishShown(a)
    <3>1. request[a].team \in Team
      BY <1>1, <2>1 DEF FinishShown, Ordered, At, StoreTypes, RequestOK
    <3>2. Hydrated(request[a].team) BY <2>1 DEF FinishShown
    <3> QED BY <1>1, <3>1, <3>2, HydratedOK
  <2>2. CASE FinishLeave(a)
    BY <1>1, <2>2 DEF FinishLeave, store, orders, StoreTypes, SameTeams, SameTeam, Exists
  <2> QED BY <2>1, <2>2
<1>4. /\ request' \in [Api -> Request] /\ \A b \in Api : RequestOK(request'[b])
      /\ Pending(request[a])'
  BY <1>1, <1>2, DoneOK
<1>5. Types' BY <1>1, <1>2, <1>3, <1>4 DEF Types, StoreTypes, ProcessTypes
<1>6. Roster' BY <1>1, <1>2, <1>3, SameRoster
<1>7. ASSUME NEW v \in Worker PROVE AgendaOK(v)'
  <2>1. AgendaOK(v) BY <1>2 DEF RInv, Alone, Idle, Pushes
  <2> QED BY <1>2, <1>3, <2>1, SameAgenda
<1> QED BY <1>4, <1>5, <1>6, <1>7, ReplicaStep

\* The end of dissolve_team: clear_voting_policy
LEMMA FinishDissolveStep ==
  ASSUME RInv, NEW a \in Api, Alone(a), FinishDissolve(a)
  PROVE  RInv'
<1>1. Types /\ StoreTypes /\ Roster BY DEF RInv, Types
<1>2. PICK w \in Worker : request[a].by = w /\ founded[w] = None
  <2>1. RequestOK(request[a]) /\ Pending(request[a]) /\ request[a].step = "order"
        /\ request[a].kind = "dissolve"
    BY <1>1 DEF RInv, StoreTypes, FinishDissolve, Ordered, At
  <2> QED BY <2>1 DEF Pending, RequestOK
<1>3. /\ policy' = [policy EXCEPT ![w] = None] /\ Done(a)
      /\ UNCHANGED <<team, teamOf, founded, desired, queue, status, proc, requests, events>>
  BY <1>2 DEF FinishDissolve, store, orders
<1>4. /\ policy' \in [Worker -> Policies \cup {None}] /\ policy'[w] = None
      /\ \A v \in Worker \ {w} : policy'[v] = policy[v]
  BY <1>1, <1>3 DEF StoreTypes
<1>5. /\ request' \in [Api -> Request] /\ \A b \in Api : RequestOK(request'[b])
      /\ Pending(request[a])'
  BY <1>1, <1>3, DoneOK
<1>6. Types' BY <1>1, <1>3, <1>4, <1>5 DEF Types, StoreTypes, ProcessTypes
<1>7. SameTeams BY <1>3 DEF SameTeams, SameTeam, Exists
<1>8. Roster' BY <1>1, <1>3, <1>7, SameRoster
<1>9. ASSUME NEW v \in Worker PROVE AgendaOK(v)'
  <2>1. \A u \in Team : (Coordinates(v, u) /\ team[u].agenda = "some")'
                          <=> Coordinates(v, u) /\ team[u].agenda = "some"
    BY <1>7 DEF SameTeams, SameTeam, Coordinates
  <2>2. CASE v = w
    <3>1. \A u \in Team : ~Coordinates(w, u) BY <1>1, <1>2, TeamsAssumption DEF Roster
    <3>2. Recorded(v)'.agenda = "all" BY <1>4, <2>2 DEF Recorded, DefaultPolicy
    <3> QED BY <2>1, <2>2, <3>1, <3>2 DEF AgendaOK
  <2>3. CASE v # w
    <3>1. AgendaOK(v) BY <1>2, <2>3 DEF RInv, Alone, Idle, Pushes
    <3>2. Recorded(v)' = Recorded(v) BY <1>4, <2>3 DEF Recorded
    <3> QED BY <2>1, <3>1, <3>2 DEF AgendaOK
  <2> QED BY <2>2, <2>3
<1> QED BY <1>5, <1>6, <1>8, <1>9, ReplicaStep

-----------------------------------------------------------------------------
(* What is done in one step, whatever requests are in progress *)

\* A step that leaves the teams, but for their addresses, and what the policies say of
\* the agenda disturbs no request.
LEMMA AsideStep ==
  ASSUME RInv, Types', SameTeams, UNCHANGED <<teamOf, founded, request>>,
         \A w \in Worker : AgendaOK(w) => AgendaOK(w)'
  PROVE  RInv'
<1>1. Roster' BY SameRoster DEF RInv
<1>2. ASSUME NEW a \in Api PROVE Pending(request[a])'
  <2>0. PICK r : r = request[a] OBVIOUS
  <2>1. RequestOK(r) /\ Pending(r) BY <2>0 DEF RInv, Types, StoreTypes
  <2>2. r.by \in Worker \/ r.step = "idle" BY <2>1 DEF RequestOK
  <2>3. r.team \in Team \cup {None} /\ (r.step # "idle" /\ r.kind # "leave" => r.team \in Team)
    BY <2>1 DEF RequestOK, Request
  <2>4. \A t \in Team : /\ Exists(t)' <=> Exists(t)
                        /\ team'[t] = None <=> team[t] = None
                        /\ Exists(t) => team'[t].agenda = team[t].agenda
                        /\ \A w \in Worker : Coordinates(w, t)' <=> Coordinates(w, t)
    BY DEF SameTeams, SameTeam, Coordinates
  <2>5. \A w \in Worker : ~Coordinates(w, None) /\ ~Coordinates(w, None)'
    BY DEF Coordinates, Exists
  <2>6. request'[a] = r BY <2>0
  <2>7. CASE r.step = "idle" BY <2>6, <2>7 DEF Pending
  <2>8. CASE r.step # "idle" /\ r.kind = "leave"
    BY <2>1, <2>2, <2>3, <2>4, <2>5, <2>6, <2>8 DEF Pending
  <2>9. CASE r.step # "idle" /\ r.kind # "leave"
    <3>1. r.team \in Team /\ r.by \in Worker BY <2>2, <2>3, <2>9
    <3>2. /\ Coordinates(r.by, r.team)' <=> Coordinates(r.by, r.team)
          /\ Coordinates(r.by, r.team) => Exists(r.team)
      BY <2>4, <3>1 DEF Coordinates
    <3>3. /\ Exists(r.team)' <=> Exists(r.team)
          /\ team'[r.team] = None <=> team[r.team] = None
          /\ Exists(r.team) => team'[r.team].agenda = team[r.team].agenda
      BY <2>4, <3>1
    <3>4. r.step = "write" => r.kind \in {"create", "join", "dissolve"}
      BY <2>1, <2>9 DEF RequestOK, Kind
    <3>5. CASE r.step = "write"
      BY <2>1, <2>6, <3>2, <3>3, <3>4, <3>5 DEF Pending
    <3>6. CASE r.step = "order"
      BY <2>1, <2>6, <3>2, <3>3, <3>6 DEF Pending
    <3>7. CASE r.step \notin {"write", "order"}
      BY <2>1, <2>6, <3>2, <3>3, <3>7 DEF Pending
    <3> QED BY <3>5, <3>6, <3>7
  <2> QED BY <2>7, <2>8, <2>9
<1>3. ASSUME NEW w \in Worker
      PROVE  AgendaOK(w)' \/ \E a \in Api : Pushes(request[a], w)'
  <2>1. AgendaOK(w) \/ \E a \in Api : Pushes(request[a], w) BY DEF RInv
  <2> QED BY <2>1 DEF Pushes
<1> QED BY <1>1, <1>2, <1>3 DEF RInv

\* set_pool_policy
LEMMA AskPolicyStep ==
  ASSUME RInv, NEW a \in Api, NEW w \in Worker,
         NEW decision \in Decisions, NEW agenda \in Agendas \cup {None},
         AskPolicy(a, w, decision, agenda)
  PROVE  RInv'
<1> DEFINE p == IF agenda = None THEN [Recorded(w) EXCEPT !.decision = decision]
                ELSE [decision |-> decision, agenda |-> agenda, byHand |-> TRUE]
<1>1. Types /\ StoreTypes BY DEF RInv, Types
<1>2. requests' \in 0..MaxRequests BY <1>1, AsksOK DEF AskPolicy
<1>3. UNCHANGED <<team, teamOf, founded, desired, queue, status, proc, request, events>>
      /\ policy' = [policy EXCEPT ![w] = p]
  BY DEF AskPolicy, store, orders
<1>4. /\ p \in Policies
      /\ p.byHand \/ (p.agenda = Recorded(w).agenda /\ p.byHand = Recorded(w).byHand)
  <2>1. Recorded(w) \in Policies BY <1>1, RecordedOK DEF StoreTypes
  <2> QED BY <2>1 DEF Policies
<1> HIDE DEF p
<1>5. /\ policy' \in [Worker -> Policies \cup {None}] /\ policy'[w] = p
      /\ \A v \in Worker \ {w} : policy'[v] = policy[v]
  BY <1>1, <1>3, <1>4 DEF StoreTypes
<1>6. Types' BY <1>1, <1>2, <1>3, <1>5 DEF Types, StoreTypes, ProcessTypes
<1>7. SameTeams BY <1>3 DEF SameTeams, SameTeam, Exists
<1>8. ASSUME NEW v \in Worker, AgendaOK(v) PROVE AgendaOK(v)'
  <2>1. \/ Recorded(v)'.byHand
        \/ /\ Recorded(v)'.agenda = Recorded(v).agenda
           /\ Recorded(v)'.byHand = Recorded(v).byHand
    <3>1. CASE v = w
      <4>1. Recorded(v)' = p BY <1>4, <1>5, <3>1, TeamsAssumption DEF Recorded
      <4> QED BY <1>4, <3>1, <4>1
    <3>2. CASE v # w
      <4>1. Recorded(v)' = Recorded(v) BY <1>5, <3>2 DEF Recorded
      <4> QED BY <4>1
    <3> QED BY <3>1, <3>2
  <2>2. \A u \in Team : (Coordinates(v, u) /\ team[u].agenda = "some")'
                          <=> Coordinates(v, u) /\ team[u].agenda = "some"
    BY <1>3 DEF Coordinates, Exists
  <2> QED BY <1>8, <2>1, <2>2 DEF AgendaOK
<1> QED BY <1>3, <1>6, <1>7, <1>8, AsideStep

\* join_team, refused to a miner that has a team
LEMMA RefuseJoinStep ==
  ASSUME RInv, NEW a \in Api, NEW w \in Worker, NEW t \in Team,
         AskJoin(a, w, t), teamOf[w] # None
  PROVE  RInv'
<1> DEFINE c == team[t].coordinator
           url == IF status[c] = None THEN team[t].url ELSE AddressOf(c)
           x == [team[t] EXCEPT !.url = url]
<1>1. Types /\ StoreTypes BY DEF RInv, Types
<1>2. requests' \in 0..MaxRequests /\ Exists(t) BY <1>1, AsksOK DEF AskJoin
<1>3. team[t] \in Teams /\ c \in Worker BY <1>1, <1>2, TeamOK DEF Teams
<1>4. url \in Url BY <1>1, <1>3, UrlOK DEF Teams
<1>5. team' = [team EXCEPT ![t] = x]
      /\ UNCHANGED <<teamOf, founded, desired, queue, policy, status, proc, request, events>>
  BY <1>1, <1>3 DEF AskJoin, orders, StoreTypes
<1> HIDE DEF url
<1>6. x \in Teams /\ x.coordinator = c /\ x.members = team[t].members
      /\ x.agenda = team[t].agenda
  BY <1>3, <1>4 DEF Teams
<1> HIDE DEF x
<1>7. /\ team' \in [Team -> Teams \cup {None, Gone}]
      /\ team'[t] = x /\ Exists(t)' /\ team'[t] # None
      /\ \A u \in Team \ {t} : team'[u] = team[u] /\ SameTeam(u)
  BY <1>1, <1>5, <1>6, TeamWritten
<1>8. SameTeams
  <2>1. SameTeam(t) BY <1>2, <1>3, <1>6, <1>7, TeamsAssumption DEF SameTeam
  <2> QED BY <2>1, <1>7 DEF SameTeams
<1>9. Types' BY <1>1, <1>2, <1>5, <1>7 DEF Types, StoreTypes, ProcessTypes
<1>10. \A v \in Worker : AgendaOK(v) => AgendaOK(v)' BY <1>5, <1>8, SameAgenda
<1> QED BY <1>5, <1>8, <1>9, <1>10, AsideStep

\* _hydrate, when somebody looks at a team
LEMMA HydrateStep ==
  ASSUME RInv, NEW a \in Api, NEW t \in Team, Hydrate(a, t)
  PROVE  RInv'
<1>1. Types /\ StoreTypes /\ Roster BY DEF RInv, Types
<1>2. /\ Hydrated(t)
      /\ UNCHANGED <<teamOf, founded, policy, queue, status, proc, request, requests, events>>
  BY DEF Hydrate
<1>3. /\ team' \in [Team -> Teams \cup {None, Gone}]
      /\ desired' \in [Worker -> Orders \cup {None}]
      /\ SameTeams
  BY <1>1, <1>2, HydratedOK
<1>4. Types' BY <1>1, <1>2, <1>3 DEF Types, StoreTypes, ProcessTypes
<1>5. \A v \in Worker : AgendaOK(v) => AgendaOK(v)' BY <1>2, <1>3, SameAgenda
<1> QED BY <1>2, <1>3, <1>4, <1>5, AsideStep

-----------------------------------------------------------------------------
(* Every step *)

\* Who has or takes a request in hand is alone, if no two are in progress.
LEMMA AloneOK ==
  ASSUME RInv, OneAtATime, OneAtATime', NEW a \in Api,
         \A b \in Api \ {a} : request'[b] = request[b],
         request[a] # Idle \/ request'[a] # Idle
  PROVE  Alone(a)
BY DEF OneAtATime, Alone

\* A request that is handled is in progress.
LEMMA HandlesAlone ==
  ASSUME RInv, OneAtATime, OneAtATime', NEW a \in Api, Handle(a)
  PROVE  Alone(a)
<1>1. request[a] # Idle
  BY DEF Handle, WriteCreate, WriteJoin, WriteLeave, WriteDissolve, Dispatch, PushPolicy,
         FinishShown, FinishLeave, FinishDissolve, Ordered, At, Idle
<1>2. request \in [Api -> Request] BY DEF RInv, Types, StoreTypes
<1>3. \/ \E step : Then(a, step)
      \/ Done(a)
      \/ \E to : request' = [request EXCEPT ![a].step = "order", ![a].to = to]
      \/ \E to : request' = [request EXCEPT ![a].to = to]
  <2>1. CASE WriteCreate(a) \/ WriteJoin(a) \/ WriteLeave(a) \/ PushPolicy(a)
    BY <2>1 DEF WriteCreate, WriteJoin, WriteLeave, PushPolicy
  <2>2. CASE WriteDissolve(a) BY <2>2 DEF WriteDissolve
  <2>3. ASSUME NEW w \in Worker, Dispatch(a, w)
        PROVE  \E to : request' = [request EXCEPT ![a].to = to]
    BY <2>3 DEF Dispatch
  <2>4. CASE FinishShown(a) \/ FinishLeave(a) \/ FinishDissolve(a)
    BY <2>4 DEF FinishShown, FinishLeave, FinishDissolve
  <2> QED BY <2>1, <2>2, <2>3, <2>4 DEF Handle
<1>4. \A b \in Api \ {a} : request'[b] = request[b]
  BY <1>2, <1>3 DEF Then, Done
<1> QED BY <1>1, <1>4, AloneOK

\* And so is one that is accepted.
LEMMA AsksAlone ==
  ASSUME RInv, OneAtATime, OneAtATime', NEW a \in Api,
         \/ \E w \in Worker : AskLeave(a, w)
         \/ \E w \in Worker, t \in Team, agenda \in Foundings : AskCreate(a, w, t, agenda)
         \/ \E w \in Worker, t \in Team : AskJoin(a, w, t) /\ teamOf[w] = None
         \/ \E t \in Team, agenda \in Agendas : AskAgenda(a, t, agenda)
         \/ \E t \in Team : AskDissolve(a, t)
  PROVE  Alone(a)
<1>1. ASSUME NEW kind, NEW by, NEW t, NEW to, NEW order, NEW agenda,
             Todo(a, kind, by, t, to, order, agenda)
      PROVE  Alone(a)
  <2> DEFINE r == [Idle EXCEPT !.step = "write", !.kind = kind, !.by = by, !.team = t,
                               !.to = to, !.order = order, !.agenda = agenda]
  <2>1. r # Idle BY DEF Idle
  <2>2. request' = [request EXCEPT ![a] = r] BY <1>1 DEF Todo
  <2> HIDE DEF r
  <2> QED BY <2>1, <2>2, AloneOK DEF RInv, Types, StoreTypes
<1>2. ASSUME NEW t \in Team, NEW agenda \in Agendas, AskAgenda(a, t, agenda)
      PROVE  Alone(a)
  <2> DEFINE r == [Idle EXCEPT !.step = "policy", !.kind = "agenda",
                     !.by = team[t].coordinator, !.team = t, !.agenda = agenda]
  <2>1. r # Idle BY DEF Idle
  <2>2. request' = [request EXCEPT ![a] = r] BY <1>2 DEF AskAgenda
  <2> HIDE DEF r
  <2> QED BY <2>1, <2>2, AloneOK DEF RInv, Types, StoreTypes
<1> QED BY <1>1, <1>2 DEF AskLeave, AskCreate, AskJoin, AskDissolve

\* What the API does.
LEMMA ApiStep ==
  ASSUME RInv, OneAtATime, OneAtATime', NEW a \in Api,
         \/ Handle(a)
         \/ \E w \in Worker : AskLeave(a, w)
         \/ \E w \in Worker, vote \in Votes, agenda \in Agendas \cup {None} :
              AskPolicy(a, w, vote, agenda)
         \/ \E w \in Worker, t \in Team, agenda \in Foundings : AskCreate(a, w, t, agenda)
         \/ \E w \in Worker, t \in Team : AskJoin(a, w, t)
         \/ \E t \in Team, agenda \in Agendas : AskAgenda(a, t, agenda)
         \/ \E t \in Team : AskDissolve(a, t) \/ Hydrate(a, t)
  PROVE  RInv'
<1>1. CASE Handle(a)
  <2>1. Alone(a) BY <1>1, HandlesAlone
  <2> QED BY <1>1, <2>1, WriteCreateStep, WriteJoinStep, WriteLeaveStep, WriteDissolveStep,
             DispatchStep, PushPolicyStep, FinishMoveStep, FinishDissolveStep DEF Handle
<1>2. ASSUME NEW w \in Worker, AskLeave(a, w) PROVE RInv'
  <2>1. Alone(a) BY <1>2, AsksAlone
  <2> QED BY <1>2, <2>1, AskLeaveStep
<1>3. ASSUME NEW w \in Worker, NEW t \in Team, NEW agenda \in Foundings,
             AskCreate(a, w, t, agenda)
      PROVE  RInv'
  <2>1. Alone(a) BY <1>3, AsksAlone
  <2>2. agenda \in Agendas BY TeamsAssumption
  <2> QED BY <1>3, <2>1, <2>2, AskCreateStep
<1>4. ASSUME NEW w \in Worker, NEW t \in Team, AskJoin(a, w, t) PROVE RInv'
  <2>1. teamOf[w] = None => Alone(a) BY <1>4, AsksAlone
  <2> QED BY <1>4, <2>1, AskJoinStep, RefuseJoinStep
<1>5. ASSUME NEW t \in Team, AskDissolve(a, t) PROVE RInv'
  <2>1. Alone(a) BY <1>5, AsksAlone
  <2> QED BY <1>5, <2>1, AskDissolveStep
<1>6. ASSUME NEW t \in Team, NEW agenda \in Agendas, AskAgenda(a, t, agenda) PROVE RInv'
  <2>1. Alone(a) BY <1>6, AsksAlone
  <2> QED BY <1>6, <2>1, AskAgendaStep
<1>7. ASSUME NEW w \in Worker, NEW vote \in Votes, NEW agenda \in Agendas \cup {None},
             AskPolicy(a, w, vote, agenda)
      PROVE  RInv'
  BY <1>7, AskPolicyStep, TeamsAssumption
<1>8. ASSUME NEW t \in Team, Hydrate(a, t) PROVE RInv' BY <1>8, HydrateStep
<1> QED BY <1>1, <1>2, <1>3, <1>4, <1>5, <1>6, <1>7, <1>8

\* What a miner does keeps the types.
LEMMA MinerTypes ==
  ASSUME Types, NEW w \in Worker,
         \/ Boot(w) \/ Switch(w) \/ Start(w) \/ StartFails(w) \/ HandleCommand(w)
         \/ Reconcile(w) \/ Report(w) \/ SyncPolicy(w) \/ Crash(w) \/ StatusExpires(w)
  PROVE  Types'
BY BootStep, SwitchStep, StartStep, ReadStep, CrashStep, ReportStep

\* Only what the API keeps matters to the indices.
LEMMA ElsewhereStep ==
  ASSUME RInv, Types', UNCHANGED <<team, teamOf, founded, policy, request>>
  PROVE  RInv'
<1>1. SameTeams BY DEF SameTeams, SameTeam, Exists
<1>2. \A w \in Worker : AgendaOK(w) => AgendaOK(w)' BY <1>1, SameAgenda
<1> QED BY <1>1, <1>2, AsideStep

\* And a miner changes none of it.
LEMMA MinerStep ==
  ASSUME RInv, NEW w \in Worker,
         \/ Boot(w) \/ Switch(w) \/ Start(w) \/ StartFails(w) \/ HandleCommand(w)
         \/ Reconcile(w) \/ Report(w) \/ SyncPolicy(w) \/ Crash(w) \/ StatusExpires(w)
  PROVE  RInv'
<1>1. Types' BY MinerTypes DEF RInv
<1>2. UNCHANGED <<team, teamOf, founded, policy, request>>
  BY DEF Boot, Switch, SwitchCommanded, SwitchReconciled, TakeLock, Start, StartFails,
         HandleCommand, Reconcile, Report, SyncPolicy, Crash, StatusExpires, api, store
<1> QED BY <1>1, <1>2, ElsewhereStep

\* Nothing has been founded, or one team has been.
LEMMA InitOK == Init => RInv
<1> SUFFICES ASSUME Init PROVE RInv OBVIOUS
<1>1. Types BY InitTypes
<1>2. \A a \in Api : Pending(request[a]) BY DEF Init, Idle, Pending
<1>3. CASE Fresh
  <2>1. \A t \in Team : ~Exists(t) BY <1>3 DEF Fresh, Exists
  <2>2. Roster BY <1>3, <2>1, TeamsAssumption DEF Fresh, Roster, InTeam, Coordinates
  <2>3. \A w \in Worker : AgendaOK(w) BY <1>3, <2>1 DEF Fresh, AgendaOK, Coordinates, Recorded, DefaultPolicy
  <2> QED BY <1>1, <1>2, <2>2, <2>3 DEF RInv
<1>4. CASE Underway
  <2>1. PICK c \in Worker, first \in Team :
          /\ team = [t \in Team |-> IF t = first THEN Founded(c, <<c, 1>>, "all") ELSE None]
          /\ teamOf = [w \in Worker |-> IF w = c THEN first ELSE None]
          /\ founded = teamOf
          /\ policy = [w \in Worker |-> IF w = c THEN DefaultPolicy ELSE None]
    BY <1>4 DEF Underway
  <2>2. team[first] = Founded(c, <<c, 1>>, "all") /\ Founded(c, <<c, 1>>, "all") \in Teams
    <3>1. team[first] = Founded(c, <<c, 1>>, "all") BY <2>1
    <3>2. 1 \in Address BY TeamsAssumption DEF Address
    <3> QED BY <3>1, <3>2 DEF Founded, Teams, Url, Agendas
  <2>3. Exists(first) /\ \A t \in Team : Exists(t) <=> t = first
    BY <2>1, <2>2, TeamsAssumption DEF Exists
  <2>4. \A w \in Worker, t \in Team :
          /\ InTeam(w, t) <=> w = c /\ t = first
          /\ Coordinates(w, t) <=> w = c /\ t = first
    BY <2>2, <2>3 DEF InTeam, Coordinates, Founded
  <2>5. Roster BY <2>1, <2>4, TeamsAssumption DEF Roster
  <2>6. ASSUME NEW w \in Worker PROVE AgendaOK(w)
    <3>1. team[first].agenda = "all" BY <2>2 DEF Founded
    <3>2. Recorded(w).agenda = "all" BY <2>1 DEF Recorded, DefaultPolicy
    <3> QED BY <2>4, <3>1, <3>2 DEF AgendaOK
  <2> QED BY <1>1, <1>2, <2>5, <2>6 DEF RInv
<1> QED BY <1>3, <1>4 DEF Init

\* As long as no two requests are in progress: the invariant.
LEMMA Invariant == Spec /\ []OneAtATime => []RInv
<1>1. RInv /\ OneAtATime /\ OneAtATime' /\ [Next]_vars => RInv'
  <2> SUFFICES ASSUME RInv, OneAtATime, OneAtATime', [Next]_vars PROVE RInv' OBVIOUS
  <2>1. CASE Next BY <2>1, ApiStep, MinerStep DEF Next
  <2>2. CASE UNCHANGED vars
    <3>1. Types' BY <2>2 DEF vars, RInv, Types, StoreTypes, ProcessTypes
    <3> QED BY <2>2, <3>1, ElsewhereStep DEF vars
  <2> QED BY <2>1, <2>2
<1> QED BY <1>1, InitOK, PTL DEF Spec

-----------------------------------------------------------------------------
(* The theorems *)

\* While no request is in progress, the team of a miner is the one that has it in
\* its roster, and who founded a team that exists is its coordinator, whatever
\* requests were served before and whichever of them came to nothing, provided that
\* no two were in progress at once (TeamsStore checks and then writes).
THEOREM RosterHolds == Spec /\ []OneAtATime => []RosterAgrees
<1>1. RInv => RosterAgrees BY DEF RInv, Roster, RosterAgrees, InTeam
<1> QED BY <1>1, Invariant, PTL

\* While no request is in progress, the policy of a miner has the agenda of the team
\* that it coordinates, or none, unless its owner has set another by hand since the
\* one of a team was written, provided that no two requests were in progress at once:
\* founding, changing the agenda and dissolving all write it, and a decision set by
\* hand, at any time, keeps it (set_pool_policy, push_voting_policy,
\* clear_voting_policy).
THEOREM PolicyFollows == Spec /\ []OneAtATime => []PolicyIsAgenda
<1>1. RInv => PolicyIsAgenda
  <2> SUFFICES ASSUME RInv, Quiet, NEW w \in Worker PROVE AgendaOK(w)
    BY DEF PolicyIsAgenda, AgendaOK
  <2>1. \A a \in Api : ~Pushes(request[a], w) BY DEF Quiet, Idle, Pushes
  <2> QED BY <2>1 DEF RInv
<1> QED BY <1>1, Invariant, PTL

-----------------------------------------------------------------------------
(* The types, whatever requests are in progress *)

\* What a step of a request may write.
Written ==
  /\ team' \in [Team -> Teams \cup {None, Gone}]
  /\ teamOf' \in [Worker -> Team \cup {None}]
  /\ founded' \in [Worker -> Team \cup {None}]
  /\ desired' \in [Worker -> Orders \cup {None}]
  /\ policy' \in [Worker -> Policies \cup {None}]
  /\ queue' \in [Worker -> Seq(Orders)]

\* The processes are as they were.
LEMMA ReplicaTypes ==
  ASSUME Types, Written, requests' \in 0..MaxRequests,
         request' \in [Api -> Request], \A b \in Api : RequestOK(request'[b]),
         UNCHANGED <<status, proc, events>>
  PROVE  Types'
BY DEF Types, StoreTypes, ProcessTypes, Written

\* What nobody writes is written.
LEMMA Unwritten ==
  ASSUME Types
  PROVE  /\ team' = team => team' \in [Team -> Teams \cup {None, Gone}]
         /\ teamOf' = teamOf => teamOf' \in [Worker -> Team \cup {None}]
         /\ founded' = founded => founded' \in [Worker -> Team \cup {None}]
         /\ desired' = desired => desired' \in [Worker -> Orders \cup {None}]
         /\ policy' = policy => policy' \in [Worker -> Policies \cup {None}]
         /\ queue' = queue => queue' \in [Worker -> Seq(Orders)]
         /\ requests' = requests => requests' \in 0..MaxRequests
BY DEF Types, StoreTypes, ProcessTypes

\* What a request asks for is well formed.
LEMMA AskTypes ==
  ASSUME Types, NEW a \in Api, NEW w \in Worker, NEW t \in Team, NEW agenda \in Agendas,
         AskCreate(a, w, t, agenda) \/ AskJoin(a, w, t) \/ AskDissolve(a, t)
  PROVE  Types'
<1>1. StoreTypes BY DEF Types
<1>2. requests' \in 0..MaxRequests BY AsksOK DEF AskCreate, AskJoin, AskDissolve
<1>3. /\ Order("pool-coordinator", None) \in Orders /\ Order("standalone", None) \in Orders
      /\ Exists(t) => team[t] \in Teams /\ team[t].coordinator \in Worker
      /\ "all" \in Agendas
  BY <1>1, TeamOK DEF Order, Orders, Modes, StoreTypes, Teams, Agendas
<1>4. /\ UNCHANGED <<teamOf, founded, desired, queue, policy, status, proc, events>>
      /\ AskJoin(a, w, t) \/ team' = team
  BY DEF AskCreate, AskJoin, AskDissolve, store, orders
<1>5. CASE AskCreate(a, w, t, agenda)
  <2>1. Todo(a, "create", w, t, {w}, Order("pool-coordinator", None), agenda)
    BY <1>5 DEF AskCreate
  <2>2. request' \in [Api -> Request] /\ \A b \in Api : RequestOK(request'[b])
    BY <1>1, <1>3, <2>1, TodoOK
  <2> QED BY <1>2, <1>4, <1>5, <2>2, Unwritten, ReplicaTypes DEF Written, AskCreate, store
<1>6. CASE AskDissolve(a, t)
  <2>1. Exists(t) /\ Todo(a, "dissolve", team[t].coordinator, t, {},
                          Order("standalone", None), "all")
    BY <1>6 DEF AskDissolve
  <2>2. request' \in [Api -> Request] /\ \A b \in Api : RequestOK(request'[b])
    BY <1>1, <1>3, <2>1, TodoOK
  <2> QED BY <1>2, <1>4, <1>6, <2>2, Unwritten, ReplicaTypes DEF Written, AskDissolve, store
<1>7. CASE AskJoin(a, w, t)
  <2> DEFINE c == team[t].coordinator
             url == IF status[c] = None THEN team[t].url ELSE AddressOf(c)
             order == Order("pool-worker", url)
             x == [team[t] EXCEPT !.url = url]
  <2>1. Exists(t) /\ team[t] \in Teams /\ c \in Worker
    BY <1>3, <1>7 DEF AskJoin
  <2>2. url \in Url BY <2>1, UrlOK DEF Teams
  <2>3. /\ team' = [team EXCEPT ![t] = x]
        /\ IF teamOf[w] # None THEN request' = request
           ELSE Todo(a, "join", w, t, {w}, order, "all")
    BY <1>1, <1>7 DEF AskJoin, StoreTypes
  <2> HIDE DEF url
  <2>4. order \in Orders /\ x \in Teams BY <2>1, <2>2 DEF Order, Orders, Modes, Teams
  <2> HIDE DEF order, x
  <2>5. team' \in [Team -> Teams \cup {None, Gone}] BY <1>1, <2>3, <2>4, TeamWritten
  <2>6. request' \in [Api -> Request] /\ \A b \in Api : RequestOK(request'[b])
    <3>1. CASE teamOf[w] # None BY <1>1, <2>3, <3>1 DEF StoreTypes
    <3>2. CASE teamOf[w] = None BY <1>1, <1>3, <2>3, <2>4, <3>2, TodoOK
    <3> QED BY <3>1, <3>2
  <2> QED BY <1>2, <1>4, <2>5, <2>6, Unwritten, ReplicaTypes DEF Written
<1> QED BY <1>5, <1>6, <1>6, <1>7

\* A miner that leaves is in a team or in none.
LEMMA AskLeaveTypes ==
  ASSUME Types, NEW a \in Api, NEW w \in Worker, AskLeave(a, w)
  PROVE  Types'
<1>1. /\ requests' \in 0..MaxRequests
      /\ UNCHANGED <<team, teamOf, founded, desired, queue, policy, status, proc, events>>
      /\ Todo(a, "leave", w, teamOf[w], {w}, Order("standalone", None), "all")
  BY AsksOK DEF AskLeave, store, orders
<1>2. Order("standalone", None) \in Orders /\ teamOf[w] \in Team \cup {None} /\ StoreTypes
      /\ "all" \in Agendas
  BY DEF Order, Orders, Modes, Types, StoreTypes, Agendas
<1>3. request' \in [Api -> Request] /\ \A b \in Api : RequestOK(request'[b])
  BY <1>1, <1>2, TodoOK
<1> QED BY <1>1, <1>3, Unwritten, ReplicaTypes DEF Written

\* So is what it writes at once.
LEMMA SettingTypes ==
  ASSUME Types, NEW a \in Api,
         \/ \E w \in Worker, vote \in Votes, agenda \in Agendas \cup {None} :
              AskPolicy(a, w, vote, agenda)
         \/ \E t \in Team, agenda \in Agendas : AskAgenda(a, t, agenda)
         \/ \E t \in Team : Hydrate(a, t)
  PROVE  Types'
<1>1. StoreTypes BY DEF Types
<1>2. ASSUME NEW w \in Worker, NEW vote \in Votes, NEW agenda \in Agendas \cup {None},
             AskPolicy(a, w, vote, agenda)
      PROVE  Types'
  <2> DEFINE p == IF agenda = None THEN [Recorded(w) EXCEPT !.decision = vote]
                  ELSE [decision |-> vote, agenda |-> agenda, byHand |-> TRUE]
  <2>1. Recorded(w) \in Policies /\ vote \in Decisions
    BY <1>1, RecordedOK, TeamsAssumption DEF StoreTypes
  <2>2. p \in Policies BY <2>1 DEF Policies
  <2>3. policy' = [policy EXCEPT ![w] = p] BY <1>2 DEF AskPolicy
  <2> HIDE DEF p
  <2>4. policy' \in [Worker -> Policies \cup {None}] BY <1>1, <2>2, <2>3 DEF StoreTypes
  <2>5. /\ requests' \in 0..MaxRequests /\ request' = request
        /\ UNCHANGED <<team, teamOf, founded, desired, queue, status, proc, events>>
    BY <1>2, AsksOK DEF AskPolicy, store, orders
  <2> QED BY <1>1, <2>4, <2>5, Unwritten, ReplicaTypes DEF Written, StoreTypes
<1>3. ASSUME NEW t \in Team, NEW agenda \in Agendas, AskAgenda(a, t, agenda)
      PROVE  Types'
  <2> DEFINE x == [team[t] EXCEPT !.agenda = agenda]
             r == [Idle EXCEPT !.step = "policy", !.kind = "agenda",
                     !.by = team[t].coordinator, !.team = t, !.agenda = agenda]
  <2>2. team[t] \in Teams /\ x \in Teams /\ team[t].coordinator \in Worker
    <3>1. team[t] \in Teams BY <1>1, <1>3, TeamOK DEF AskAgenda
    <3> QED BY <3>1 DEF Teams
  <2>3. RequestOK(r)
    BY <2>2, IdleOK, TeamsAssumption DEF RequestOK, Request, Idle, Kind
  <2>4. team' = [team EXCEPT ![t] = x] /\ request' = [request EXCEPT ![a] = r]
    BY <1>1, <1>3 DEF AskAgenda, StoreTypes
  <2> HIDE DEF x, r
  <2>5. team' \in [Team -> Teams \cup {None, Gone}] BY <1>1, <2>2, <2>4, TeamWritten
  <2>6. request' \in [Api -> Request] /\ \A b \in Api : RequestOK(request'[b])
    BY <1>1, <2>3, <2>4, RequestStep
  <2>7. /\ requests' \in 0..MaxRequests
        /\ UNCHANGED <<teamOf, founded, desired, queue, policy, status, proc, events>>
    BY <1>3, AsksOK DEF AskAgenda, orders
  <2> QED BY <2>5, <2>6, <2>7, Unwritten, ReplicaTypes DEF Written
<1>4. CASE \E t \in Team : Hydrate(a, t)
  <2>1. PICK t \in Team : Hydrate(a, t) BY <1>4
  <2>2. /\ Hydrated(t) /\ request' = request
        /\ UNCHANGED <<teamOf, founded, policy, queue, status, proc, requests, events>>
    BY <2>1 DEF Hydrate
  <2> QED BY <1>1, <2>2, HydratedOK, Unwritten, ReplicaTypes DEF Written, StoreTypes
<1> QED BY <1>2, <1>3, <1>4

\* And what TeamsStore writes, even over what another request wrote.
LEMMA WriteTypes ==
  ASSUME Types, NEW a \in Api,
         WriteCreate(a) \/ WriteJoin(a) \/ WriteLeave(a) \/ WriteDissolve(a)
  PROVE  Types'
<1>1. StoreTypes /\ RequestOK(request[a]) /\ request[a].step = "write"
  BY DEF Types, StoreTypes, WriteCreate, WriteJoin, WriteLeave, WriteDissolve, At
<1>2. PICK w \in Worker, t \in Team \cup {None} :
        /\ request[a].by = w /\ request[a].team = t
        /\ request[a].kind # "leave" => t \in Team
  BY <1>1 DEF RequestOK, Request
<1>3. /\ UNCHANGED <<desired, queue, policy, status, proc, requests, events>>
      /\ Then(a, "order") \/ WriteDissolve(a)
  BY DEF WriteCreate, WriteJoin, WriteLeave, WriteDissolve, orders
<1>4. Then(a, "order") =>
        request' \in [Api -> Request] /\ \A b \in Api : RequestOK(request'[b])
  BY <1>1, ThenOK
<1>5. /\ team \in [Team -> Teams \cup {None, Gone}]
      /\ teamOf \in [Worker -> Team \cup {None}]
      /\ founded \in [Worker -> Team \cup {None}]
      /\ Exists(t) => t \in Team /\ team[t] \in Teams
  <2>1. Exists(t) => t \in Team BY DEF Exists
  <2> QED BY <1>1, <2>1, TeamOK DEF StoreTypes
<1>6. CASE WriteCreate(a)
  <2>1. Founded(w, AddressOf(w), request[a].agenda) \in Teams
    BY <1>1, UrlOK DEF Founded, Teams, RequestOK, Request
  <2>2. /\ team' = [team EXCEPT ![t] = Founded(w, AddressOf(w), request[a].agenda)]
        /\ teamOf' = [teamOf EXCEPT ![w] = t] /\ founded' = [founded EXCEPT ![w] = t]
        /\ Then(a, "order") /\ t \in Team
    BY <1>2, <1>6 DEF WriteCreate, At
  <2>3. /\ team' \in [Team -> Teams \cup {None, Gone}]
        /\ teamOf' \in [Worker -> Team \cup {None}]
        /\ founded' \in [Worker -> Team \cup {None}]
    <3>1. team' \in [Team -> Teams \cup {None, Gone}] BY <1>5, <2>1, <2>2
    <3> QED BY <1>5, <2>2, <3>1
  <2> QED BY <1>3, <1>4, <2>2, <2>3, Unwritten, ReplicaTypes DEF Written
<1>7. CASE WriteJoin(a) \/ WriteLeave(a)
  <2> DEFINE in == [team[t] EXCEPT !.members = @ \cup {w}]
             out == [team[t] EXCEPT !.members = @ \ {w}]
  <2>1. Exists(t) => t \in Team /\ in \in Teams /\ out \in Teams BY <1>5 DEF Teams
  <2>2. /\ \/ team' = team
           \/ Exists(t) /\ team' = [team EXCEPT ![t] = in]
           \/ Exists(t) /\ team' = [team EXCEPT ![t] = out]
        /\ teamOf' = teamOf \/ teamOf' = [teamOf EXCEPT ![w] = t]
             \/ teamOf' = [teamOf EXCEPT ![w] = None]
        /\ Then(a, "order") /\ founded' = founded
    BY <1>2, <1>5, <1>7 DEF WriteJoin, WriteLeave, At
  <2> HIDE DEF in, out
  <2>3. team' \in [Team -> Teams \cup {None, Gone}] BY <1>5, <2>1, <2>2
  <2>4. teamOf' \in [Worker -> Team \cup {None}] BY <1>5, <2>2
  <2> QED BY <1>3, <1>4, <2>2, <2>3, <2>4, Unwritten, ReplicaTypes DEF Written
<1>8. CASE WriteDissolve(a) /\ ~Exists(t)
  <2>1. Done(a) /\ UNCHANGED <<team, teamOf, founded>>
    BY <1>2, <1>8 DEF WriteDissolve, store
  <2>2. request' \in [Api -> Request] /\ \A b \in Api : RequestOK(request'[b])
    BY <1>1, <2>1, DoneOK
  <2> QED BY <1>3, <2>1, <2>2, Unwritten, ReplicaTypes DEF Written
<1>9. CASE WriteDissolve(a) /\ Exists(t)
  <2> DEFINE r == [request[a] EXCEPT !.step = "order", !.to = Affected(t)]
  <2>1. /\ team' = [team EXCEPT ![t] = Gone]
        /\ teamOf' = [v \in Worker |-> IF v \in Affected(t) THEN None ELSE teamOf[v]]
        /\ founded' = [founded EXCEPT ![w] = None]
        /\ request' = [request EXCEPT ![a] = r]
    BY <1>1, <1>2, <1>9 DEF WriteDissolve, StoreTypes
  <2>2. RequestOK(r)
    <3>1. Affected(t) \in SUBSET Worker BY <1>5, <1>9 DEF Affected, Teams
    <3>2. request[a].kind # "agenda" /\ request[a].order \in Orders
      BY <1>1 DEF RequestOK
    <3> QED BY <1>1, <3>1, <3>2 DEF RequestOK, Request
  <2> HIDE DEF r
  <2>3. request' \in [Api -> Request] /\ \A b \in Api : RequestOK(request'[b])
    BY <1>1, <2>1, <2>2, RequestStep
  <2>4. /\ team' \in [Team -> Teams \cup {None, Gone}]
        /\ teamOf' \in [Worker -> Team \cup {None}]
        /\ founded' \in [Worker -> Team \cup {None}]
    BY <1>5, <2>1
  <2> QED BY <1>3, <2>3, <2>4, Unwritten, ReplicaTypes DEF Written
<1> QED BY <1>6, <1>7, <1>8, <1>9

\* An order, and the end of a request.
LEMMA EndTypes ==
  ASSUME Types, NEW a \in Api,
         \/ \E w \in Worker : Dispatch(a, w)
         \/ PushPolicy(a) \/ FinishShown(a) \/ FinishLeave(a) \/ FinishDissolve(a)
  PROVE  Types'
<1>1. StoreTypes /\ RequestOK(request[a]) BY DEF Types, StoreTypes
<1>2. CASE \E w \in Worker : Dispatch(a, w)
  <2>1. PICK w \in Worker : Dispatch(a, w) BY <1>2
  <2> DEFINE r == [request[a] EXCEPT !.to = @ \ {w}]
             order == request[a].order
             q == IF Listens(w) THEN Append(queue[w], order) ELSE queue[w]
  <2>2. request[a].step = "order" /\ order \in Orders
    BY <1>1, <2>1 DEF Dispatch, RequestOK
  <2>3. RequestOK(r) BY <1>1 DEF RequestOK, Request
  <2>4. queue \in [Worker -> Seq(Orders)] BY DEF Types, ProcessTypes
  <2>5. q \in Seq(Orders) BY <2>2, <2>4
  <2>6. /\ desired' = [desired EXCEPT ![w] = order] /\ queue' = [queue EXCEPT ![w] = q]
        /\ request' = [request EXCEPT ![a] = r]
        /\ UNCHANGED <<team, teamOf, founded, policy, status, proc, requests, events>>
    BY <1>1, <2>1, <2>4 DEF Dispatch, store, StoreTypes
  <2> HIDE DEF r, order, q
  <2>7. desired' \in [Worker -> Orders \cup {None}] /\ queue' \in [Worker -> Seq(Orders)]
    BY <1>1, <2>2, <2>4, <2>5, <2>6 DEF StoreTypes
  <2>8. request' \in [Api -> Request] /\ \A b \in Api : RequestOK(request'[b])
    BY <1>1, <2>3, <2>6, RequestStep
  <2> QED BY <2>6, <2>7, <2>8, Unwritten, ReplicaTypes DEF Written
<1>3. CASE PushPolicy(a)
  <2> DEFINE w == request[a].by
             p == [decision |-> Recorded(w).decision, agenda |-> request[a].agenda,
                   byHand |-> FALSE]
  <2>1. /\ policy' = [policy EXCEPT ![w] = p] /\ Then(a, "look")
        /\ UNCHANGED <<team, teamOf, founded, desired, queue, status, proc, requests, events>>
    BY <1>3 DEF PushPolicy, store, orders
  <2>2. /\ w \in Worker /\ request[a].agenda \in Agendas
        /\ request[a].step # "idle" /\ request[a].kind # "leave"
    BY <1>1, <1>3 DEF PushPolicy, Ordered, At, RequestOK, Request
  <2>3. request' \in [Api -> Request] /\ \A b \in Api : RequestOK(request'[b])
    BY <1>1, <2>1, <2>2, ThenOK
  <2>4. policy \in [Worker -> Policies \cup {None}] BY <1>1 DEF StoreTypes
  <2>5. Recorded(w) \in Policies BY <2>2, <2>4, RecordedOK
  <2>6. p \in Policies BY <2>2, <2>5 DEF Policies
  <2> HIDE DEF w, p
  <2>7. policy' \in [Worker -> Policies \cup {None}] BY <2>1, <2>4, <2>6
  <2> QED BY <2>1, <2>3, <2>7, Unwritten, ReplicaTypes DEF Written
<1>4. CASE FinishShown(a) \/ FinishLeave(a) \/ FinishDissolve(a)
  <2>1. /\ Done(a)
        /\ UNCHANGED <<teamOf, founded, queue, status, proc, requests, events>>
    BY <1>4 DEF FinishShown, FinishLeave, FinishDissolve, store, orders
  <2>2. request' \in [Api -> Request] /\ \A b \in Api : RequestOK(request'[b])
    BY <1>1, <2>1, DoneOK
  <2>3. policy' \in [Worker -> Policies \cup {None}]
    <3>1. policy \in [Worker -> Policies \cup {None}] BY <1>1 DEF StoreTypes
    <3>2. CASE FinishDissolve(a) BY <3>1, <3>2 DEF FinishDissolve
    <3>3. CASE FinishShown(a) \/ FinishLeave(a) BY <3>1, <3>3 DEF FinishShown, FinishLeave
    <3> QED BY <1>4, <3>2, <3>3
  <2>4. team' \in [Team -> Teams \cup {None, Gone}] /\ desired' \in [Worker -> Orders \cup {None}]
    <3>1. CASE FinishShown(a)
      <4>1. request[a].team \in Team
        BY <1>1, <3>1 DEF FinishShown, Ordered, At, RequestOK
      <4>2. Hydrated(request[a].team) BY <3>1 DEF FinishShown
      <4> QED BY <4>1, <4>2, HydratedOK
    <3>2. CASE FinishLeave(a) \/ FinishDissolve(a)
      BY <3>2, Unwritten DEF FinishLeave, FinishDissolve, store, orders
    <3> QED BY <1>4, <3>1, <3>2
  <2> QED BY <2>1, <2>2, <2>3, <2>4, Unwritten, ReplicaTypes DEF Written
<1> QED BY <1>2, <1>3, <1>4

\* Whatever the requests and the miners do, and in whatever order, what they keep is
\* of its type: no request points to nobody, no process that is down has a mode or a
\* switch in hand.
THEOREM TypeCorrect == Spec => []TypeOK
<1>1. Types /\ [Next]_vars => Types'
  <2> SUFFICES ASSUME Types, [Next]_vars PROVE Types' OBVIOUS
  <2>1. ASSUME NEW a \in Api,
               \/ Handle(a)
               \/ \E w \in Worker : AskLeave(a, w)
               \/ \E w \in Worker, vote \in Votes, agenda \in Agendas \cup {None} :
                    AskPolicy(a, w, vote, agenda)
               \/ \E w \in Worker, t \in Team, agenda \in Foundings : AskCreate(a, w, t, agenda)
               \/ \E w \in Worker, t \in Team : AskJoin(a, w, t)
               \/ \E t \in Team, agenda \in Agendas : AskAgenda(a, t, agenda)
               \/ \E t \in Team : AskDissolve(a, t) \/ Hydrate(a, t)
        PROVE  Types'
    <3>1. CASE Handle(a) BY <3>1, WriteTypes, EndTypes DEF Handle
    <3>2. CASE \E w \in Worker : AskLeave(a, w)
      BY <3>2, AskLeaveTypes
    <3>3. CASE \/ \E w \in Worker, t \in Team, agenda \in Foundings : AskCreate(a, w, t, agenda)
               \/ \E w \in Worker, t \in Team : AskJoin(a, w, t)
      BY <3>3, AskTypes, TeamsAssumption DEF Agendas
    <3>4. CASE \E t \in Team : AskDissolve(a, t)
      <4>1. PICK t \in Team : AskDissolve(a, t) BY <3>4
      <4>2. team[t].coordinator \in Worker BY <4>1, TeamOK DEF AskDissolve, Types, Teams
      <4>3. "all" \in Agendas BY DEF Agendas
      <4> QED BY <4>1, <4>2, <4>3, AskTypes
    <3>5. CASE \/ \E w \in Worker, vote \in Votes, agenda \in Agendas \cup {None} :
                    AskPolicy(a, w, vote, agenda)
               \/ \E t \in Team, agenda \in Agendas : AskAgenda(a, t, agenda)
               \/ \E t \in Team : Hydrate(a, t)
      BY <3>5, SettingTypes
    <3> QED BY <2>1, <3>1, <3>2, <3>3, <3>4, <3>5
  <2>2. CASE Next BY <2>1, <2>2, MinerTypes DEF Next
  <2>3. CASE UNCHANGED vars BY <2>3 DEF vars, Types, StoreTypes, ProcessTypes
  <2> QED BY <2>2, <2>3
<1> QED BY <1>1, InitTypes, TypesSuffice, PTL DEF Spec
=============================================================================
