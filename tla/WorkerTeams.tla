------------------------------ MODULE WorkerTeams ------------------------------
(***************************************************************************)
(* Teams of miners: what the API keeps in Redis about them, and the        *)
(* processes of the miners, which follow it (routers/teams.py,             *)
(* services/teams_store.py, services/worker_control.py, worker/main.py).   *)
(*                                                                         *)
(* Founding a team makes a miner its coordinator, joining it makes another *)
(* a worker of its pool.  The API records the mode each miner should have  *)
(* and also sends it as a command, which is lost if the miner is not       *)
(* listening.  A miner changes mode in a thread of its own, under a lock;  *)
(* every few seconds it compares its mode with the recorded one.           *)
(*                                                                         *)
(* The API has replicas, and a replica takes up another request while one  *)
(* awaits the answer of a miner: any number of them may be in progress.    *)
(* The checks of a request, its writes to the team, its orders to each     *)
(* miner and what it does after them are separate steps.                   *)
(***************************************************************************)
EXTENDS Naturals, Sequences, FiniteSets

CONSTANTS
  Api,            \* a place for each request that may be in progress at once
  Worker, None,
  Gone,           \* what is left of a team that was dissolved
  Team,           \* the teams that can be founded, each of them once
  Foundings,      \* the agendas with which a team is founded
  Votes,          \* the decisions that an owner takes by hand
  BrokerFails,    \* the broker may be out of reach when a miner changes mode
  MaxRequests,    \* bound on the requests of the citizens
  MaxEvents       \* bound on crashes, failed starts and changes of address

VARIABLES
  team,     \* team:<id> and its members: None, or "gone" once it is dissolved
  teamOf,   \* worker:team
  founded,  \* team:owner.  A citizen has one miner, which stands for it.
  desired,  \* worker:desired_mode
  policy,   \* pool:policy.  History: byHand, its owner has set the agenda since
            \* the one of the team was written.
  status,   \* worker:status: the address a miner publishes
  queue,    \* the commands in the queue of a miner, which goes with its connection
  proc,     \* the process of each miner
  request,  \* the requests in progress
  requests, events

vars == <<team, teamOf, founded, desired, policy, status, queue, proc, request,
          requests, events>>
store == <<team, teamOf, founded>>
orders == <<desired, queue>>

\* A miner is reached at an address that it only knows itself; 0 is the guess
\* "http://<id>:9001".
Address == 0..(MaxEvents + 1)
Url == Worker \X Address
Agendas == {"all", "some"}
Modes == {"standalone", "pool-worker", "pool-coordinator"}
Order(mode, url) == [mode |-> mode, url |-> url]
Orders == [mode : Modes, url : Url \cup {None}]
Teams == [coordinator : Worker, url : Url, agenda : Agendas, members : SUBSET Worker]
Decisions == {"accept", "reject"}
Policies == [decision : Decisions, agenda : Agendas, byHand : BOOLEAN]
DefaultPolicy == [decision |-> "accept", agenda |-> "all", byHand |-> FALSE]

ASSUME TeamsAssumption ==
  /\ Foundings \subseteq Agendas /\ Votes \subseteq Decisions
  /\ BrokerFails \in BOOLEAN /\ MaxRequests \in Nat /\ MaxEvents \in Nat
  /\ None \notin Worker \cup Team \cup Teams \cup Policies \cup Orders
  /\ None \notin Address /\ Gone # None /\ Gone \notin Teams

Down(address) ==
  [up |-> FALSE, address |-> address, mode |-> "idle", url |-> None, running |-> FALSE,
   reporting |-> FALSE, waiting |-> {}, seen |-> None, switch |-> None, reconciles |-> FALSE,
   voting |-> DefaultPolicy]
Idle == [step |-> "idle", kind |-> None, by |-> None, team |-> None, to |-> {},
         order |-> None, agenda |-> "all"]

TypeOK ==
  /\ \A t \in Team : team[t] \in Teams \cup {None, Gone}
  /\ teamOf \in [Worker -> Team \cup {None}] /\ founded \in [Worker -> Team \cup {None}]
  /\ \A w \in Worker :
       /\ desired[w] \in Orders \cup {None} /\ policy[w] \in Policies \cup {None}
       /\ status[w] \in Address \cup {None} /\ queue[w] \in Seq(Orders)
       /\ proc[w].mode \in Modes \cup {"idle"} /\ proc[w].waiting \subseteq Orders
       /\ {proc[w].seen, proc[w].switch} \subseteq Orders \cup {None}
       /\ proc[w].running => proc[w].up /\ proc[w].mode # "idle"
  /\ \A a \in Api : /\ request[a].step \in {"idle", "write", "order", "policy", "look"}
                    /\ request[a].to \subseteq Worker
  /\ requests \in 0..MaxRequests /\ events \in 0..MaxEvents

Exists(t) == t # None /\ team[t] \notin {None, Gone}
Happens == events < MaxEvents /\ events' = events + 1

\* coordinator_address
AddressOf(w) == <<w, IF status[w] = None THEN 0 ELSE status[w]>>

Founded(w, url, agenda) ==
  [coordinator |-> w, url |-> url, agenda |-> agenda, members |-> {}]
Working(mode) ==
  [Down(1) EXCEPT !.up = TRUE, !.mode = mode, !.running = TRUE, !.reporting = TRUE]

\* Nothing has been started yet.
Fresh ==
  /\ team = [t \in Team |-> None]
  /\ teamOf = [w \in Worker |-> None] /\ founded = [w \in Worker |-> None]
  /\ desired = [w \in Worker |-> None] /\ policy = [w \in Worker |-> None]
  /\ status = [w \in Worker |-> None]
  /\ proc = [w \in Worker |-> Down(1)]

\* All the miners work and one of them has just founded a team: what its request
\* ends in, to have one more left.
Underway ==
  \E c \in Worker, first \in Team :
    /\ team = [t \in Team |-> IF t = first THEN Founded(c, <<c, 1>>, "all") ELSE None]
    /\ teamOf = [w \in Worker |-> IF w = c THEN first ELSE None] /\ founded = teamOf
    /\ desired = [w \in Worker |-> IF w = c THEN Order("pool-coordinator", None) ELSE None]
    /\ policy = [w \in Worker |-> IF w = c THEN DefaultPolicy ELSE None]
    /\ status = [w \in Worker |-> 1]
    /\ proc = [w \in Worker |-> Working(IF w = c THEN "pool-coordinator" ELSE "standalone")]

Init ==
  /\ Fresh \/ Underway
  /\ queue = [w \in Worker |-> <<>>]
  /\ request = [a \in Api |-> Idle]
  /\ requests = 0 /\ events = 0

-----------------------------------------------------------------------------
\* Requests: what the handler checks, and what is left to do.

Asks(a) == request[a] = Idle /\ requests < MaxRequests /\ requests' = requests + 1

\* by: the miner it is about; to: whom the orders are for
Todo(a, kind, by, t, to, order, agenda) ==
  request' = [request EXCEPT ![a] =
    [Idle EXCEPT !.step = "write", !.kind = kind, !.by = by, !.team = t, !.to = to,
                 !.order = order, !.agenda = agenda]]
Then(a, step) == request' = [request EXCEPT ![a].step = step]
Done(a) == request' = [request EXCEPT ![a] = Idle]

\* create_team, with the address that the miner publishes
AskCreate(a, w, t, agenda) ==
  /\ Asks(a)
  /\ team[t] = None
  /\ founded[w] = None /\ teamOf[w] = None
  /\ Todo(a, "create", w, t, {w}, Order("pool-coordinator", None), agenda)
  /\ UNCHANGED <<store, orders, policy, status, proc, events>>

\* join_team: leaves the address it resolves in the team, refused or not
AskJoin(a, w, t) ==
  /\ Asks(a)
  /\ Exists(t)
  /\ LET c == team[t].coordinator
         url == IF status[c] = None THEN team[t].url ELSE AddressOf(c)
     IN  /\ team' = [team EXCEPT ![t].url = url]
         /\ IF teamOf[w] # None THEN UNCHANGED request
            ELSE Todo(a, "join", w, t, {w}, Order("pool-worker", url), "all")
  /\ UNCHANGED <<teamOf, founded, orders, policy, status, proc, events>>

\* leave_team and switch_worker_mode (detach_worker)
Coordinates(w, t) == Exists(t) /\ team[t].coordinator = w
AskLeave(a, w) ==
  /\ Asks(a)
  /\ ~Coordinates(w, teamOf[w])
  /\ Todo(a, "leave", w, teamOf[w], {w}, Order("standalone", None), "all")
  /\ UNCHANGED <<store, orders, policy, status, proc, events>>

\* dissolve_team
AskDissolve(a, t) ==
  /\ Asks(a)
  /\ Exists(t)
  /\ Todo(a, "dissolve", team[t].coordinator, t, {}, Order("standalone", None), "all")
  /\ UNCHANGED <<store, orders, policy, status, proc, events>>

\* set_team_categories
AskAgenda(a, t, agenda) ==
  /\ Asks(a)
  /\ Exists(t)
  /\ team' = [team EXCEPT ![t].agenda = agenda]
  /\ request' = [request EXCEPT ![a] = [Idle EXCEPT !.step = "policy", !.kind = "agenda",
                   !.by = team[t].coordinator, !.team = t, !.agenda = agenda]]
  /\ UNCHANGED <<teamOf, founded, orders, policy, status, proc, events>>

Recorded(w) == IF policy[w] = None THEN DefaultPolicy ELSE policy[w]

\* set_pool_policy: without categories, it keeps the ones that are written
AskPolicy(a, w, decision, agenda) ==
  /\ Asks(a)
  /\ policy' = [policy EXCEPT ![w] =
       IF agenda = None THEN [Recorded(w) EXCEPT !.decision = decision]
       ELSE [decision |-> decision, agenda |-> agenda, byHand |-> TRUE]]
  /\ UNCHANGED <<store, orders, status, proc, request, events>>

-----------------------------------------------------------------------------
\* The writes of TeamsStore, each of them one pipeline.

At(a, step, kind) == request[a].step = step /\ request[a].kind = kind

WriteCreate(a) ==
  /\ At(a, "write", "create")
  /\ LET w == request[a].by  t == request[a].team
     IN  /\ team' = [team EXCEPT ![t] = Founded(w, AddressOf(w), request[a].agenda)]
         /\ teamOf' = [teamOf EXCEPT ![w] = t]
         /\ founded' = [founded EXCEPT ![w] = t]
  /\ Then(a, "order")
  /\ UNCHANGED <<orders, policy, status, proc, requests, events>>

WriteJoin(a) ==
  /\ At(a, "write", "join")
  /\ LET w == request[a].by  t == request[a].team
     IN  /\ team' = IF Exists(t) THEN [team EXCEPT ![t].members = @ \cup {w}] ELSE team
         /\ teamOf' = [teamOf EXCEPT ![w] = t]
  /\ Then(a, "order")
  /\ UNCHANGED <<founded, orders, policy, status, proc, requests, events>>

WriteLeave(a) ==
  /\ At(a, "write", "leave")
  /\ LET w == request[a].by  t == request[a].team
     IN  /\ team' = IF Exists(t)
                    THEN [team EXCEPT ![t].members = @ \ {w}] ELSE team
         /\ teamOf' = IF t # None THEN [teamOf EXCEPT ![w] = None] ELSE teamOf
  /\ Then(a, "order")
  /\ UNCHANGED <<founded, orders, policy, status, proc, requests, events>>

AffectedMembers(t) == team[t].members
Affected(t) == {team[t].coordinator} \cup team[t].members

WriteDissolve(a) ==
  /\ At(a, "write", "dissolve")
  /\ LET t == request[a].team
     IN  IF ~Exists(t) THEN Done(a) /\ UNCHANGED store ELSE
         /\ team' = [team EXCEPT ![t] = Gone]
         /\ teamOf' = [w \in Worker |-> IF w \in Affected(t) THEN None ELSE teamOf[w]]
         /\ founded' = [founded EXCEPT ![request[a].by] = None]
         /\ request' = [request EXCEPT ![a].step = "order", ![a].to = Affected(t)]
  /\ UNCHANGED <<orders, policy, status, proc, requests, events>>

-----------------------------------------------------------------------------
\* dispatch_switch_mode: the mode is recorded and the command published; nobody
\* gets it without a queue.
Listens(w) == proc[w].running

DispatchCommandOnly(a, w) ==
  /\ request[a].step = "order" /\ w \in request[a].to
  /\ queue' = [queue EXCEPT ![w] = IF Listens(w) THEN Append(@, request[a].order) ELSE @]
  /\ request' = [request EXCEPT ![a].to = @ \ {w}]
  /\ UNCHANGED <<store, desired, policy, status, proc, requests, events>>
Dispatch(a, w) ==
  /\ request[a].step = "order" /\ w \in request[a].to
  /\ desired' = [desired EXCEPT ![w] = request[a].order]
  /\ queue' = [queue EXCEPT ![w] = IF Listens(w) THEN Append(@, request[a].order) ELSE @]
  /\ request' = [request EXCEPT ![a].to = @ \ {w}]
  /\ UNCHANGED <<store, policy, status, proc, requests, events>>

\* _hydrate, at the end of most requests and whenever somebody looks at a team
Refreshed(t) == status[team[t].coordinator] # None /\ AddressOf(team[t].coordinator) # team[t].url
Hydrated(t) ==
  IF ~Exists(t) \/ ~Refreshed(t) THEN UNCHANGED <<team, desired>>
  ELSE LET url == AddressOf(team[t].coordinator)
       IN  /\ team' = [team EXCEPT ![t].url = url]
           /\ desired' = [w \in Worker |->
                IF w \in team[t].members /\ desired[w] # None
                   /\ desired[w].mode = "pool-worker"
                THEN Order("pool-worker", url) ELSE desired[w]]

Hydrate(a, t) ==
  /\ request[a] = Idle /\ Exists(t) /\ Refreshed(t)
  /\ Hydrated(t)
  /\ UNCHANGED <<teamOf, founded, policy, queue, status, proc, request, requests, events>>

Ordered(a, kind) == At(a, "order", kind) /\ request[a].to = {}

\* push_voting_policy keeps the decision that is written.
PushPolicy(a) ==
  /\ Ordered(a, "create") \/ At(a, "policy", "agenda")
  /\ LET w == request[a].by
     IN  policy' = [policy EXCEPT ![w] =
           [decision |-> Recorded(w).decision, agenda |-> request[a].agenda,
            byHand |-> FALSE]]
  /\ Then(a, "look")
  /\ UNCHANGED <<store, orders, status, proc, requests, events>>

\* The team is shown, at the end of create_team, join_team and set_team_categories.
FinishShown(a) ==
  /\ request[a].step = "look" \/ Ordered(a, "join")
  /\ Hydrated(request[a].team)
  /\ Done(a)
  /\ UNCHANGED <<teamOf, founded, policy, queue, status, proc, requests, events>>

FinishLeave(a) ==
  /\ Ordered(a, "leave")
  /\ Done(a)
  /\ UNCHANGED <<store, orders, policy, status, proc, requests, events>>

\* clear_voting_policy
FinishDissolveOnly(a) ==
  /\ Ordered(a, "dissolve")
  /\ Done(a)
  /\ UNCHANGED <<store, orders, policy, status, proc, requests, events>>
FinishDissolve(a) ==
  /\ Ordered(a, "dissolve")
  /\ policy' = [policy EXCEPT ![request[a].by] = None]
  /\ Done(a)
  /\ UNCHANGED <<store, orders, status, proc, requests, events>>

-----------------------------------------------------------------------------
\* The process of a miner (WorkerManager).

api == <<store, policy, request, requests>>
Becomes(w, p) == proc' = [proc EXCEPT ![w] = p]

\* main: the recorded mode, or the one of the deployment.  The address may be
\* another one.
Boot(w) ==
  /\ ~proc[w].up
  /\ LET order == IF desired[w] = None THEN Order("standalone", None) ELSE desired[w]
     IN  \/ /\ Becomes(w, [Down(proc[w].address) EXCEPT !.up = TRUE, !.switch = order])
            /\ UNCHANGED events
         \/ /\ Happens
            /\ Becomes(w, [Down(proc[w].address + 1) EXCEPT !.up = TRUE, !.switch = order])
  /\ UNCHANGED <<api, orders, status>>

\* switch_mode, once it has the lock: _stop_current, which closes the connection
\* and with it the queue.
TakeLock(w, order, rest) ==
  /\ proc[w].switch = None
  /\ Becomes(w, [rest EXCEPT !.switch = order, !.mode = "idle", !.running = FALSE])
  /\ queue' = [queue EXCEPT ![w] = <<>>]
  /\ UNCHANGED <<api, desired, status, events>>

SwitchCommanded(w) ==
  \E order \in proc[w].waiting :
    TakeLock(w, order, [proc[w] EXCEPT !.waiting = @ \ {order}])

SwitchReconciled(w) ==
  proc[w].seen # None /\ TakeLock(w, proc[w].seen, [proc[w] EXCEPT !.reconciles = TRUE])

\* and _start_*: the mode is set first.  The thread that reconciles does the
\* switch itself.
SwitchedEarlier(p) ==
  [p EXCEPT !.switch = None, !.seen = IF p.reconciles THEN None ELSE @, !.reconciles = FALSE]
Switched(p) ==
  [p EXCEPT !.switch = None, !.mode = p.switch.mode,
            !.url = IF p.switch.mode = "pool-worker" THEN p.switch.url ELSE @,
            !.seen = IF p.reconciles THEN None ELSE @, !.reconciles = FALSE]

\* A new object, with the default policy
Start(w) ==
  /\ proc[w].switch # None
  /\ Becomes(w, [Switched(proc[w]) EXCEPT !.running = TRUE, !.reporting = TRUE,
                                         !.voting = DefaultPolicy])
  /\ UNCHANGED <<api, orders, status, events>>

\* The broker does not answer: at the start main dies, later the thread does.
StartFails(w) ==
  /\ proc[w].switch # None
  /\ ~proc[w].reporting \/ BrokerFails
  /\ Happens
  /\ Becomes(w, IF proc[w].reporting
                THEN Switched(proc[w])
                ELSE Down(proc[w].address))
  /\ UNCHANGED <<api, orders, status>>

\* _handle_command: a thread for each command
HandleCommand(w) ==
  /\ proc[w].running /\ queue[w] # <<>>
  /\ Becomes(w, [proc[w] EXCEPT !.waiting = @ \cup {Head(queue[w])}])
  /\ queue' = [queue EXCEPT ![w] = Tail(@)]
  /\ UNCHANGED <<api, desired, status, events>>

\* _reconcile_desired_mode: compares without the lock
Differs(p, order) == order.mode # p.mode \/ (order.mode = "pool-worker" /\ order.url # p.url)

Reconcile(w) ==
  /\ proc[w].reporting /\ proc[w].seen = None
  /\ desired[w] # None /\ Differs(proc[w], desired[w])
  /\ Becomes(w, [proc[w] EXCEPT !.seen = desired[w]])
  /\ UNCHANGED <<api, orders, status, events>>

\* _redis_report_loop
Report(w) ==
  /\ proc[w].reporting /\ proc[w].seen = None /\ status[w] # proc[w].address
  /\ status' = [status EXCEPT ![w] = proc[w].address]
  /\ UNCHANGED <<api, orders, proc, events>>

\* PoolCoordinator._sync_voting_policy, in each tick
SyncPolicy(w) ==
  /\ proc[w].running /\ proc[w].mode = "pool-coordinator"
  /\ proc[w].voting # Recorded(w)
  /\ Becomes(w, [proc[w] EXCEPT !.voting = Recorded(w)])
  /\ UNCHANGED <<api, orders, status, events>>

Crash(w) ==
  /\ proc[w].up
  /\ Happens
  /\ Becomes(w, Down(proc[w].address))
  /\ queue' = [queue EXCEPT ![w] = <<>>]
  /\ UNCHANGED <<api, desired, status>>

\* worker:status lasts 15 s.
StatusExpires(w) ==
  /\ ~proc[w].reporting /\ status[w] # None
  /\ status' = [status EXCEPT ![w] = None]
  /\ UNCHANGED <<api, orders, proc, events>>

-----------------------------------------------------------------------------
Handle(a) ==
  \/ WriteCreate(a) \/ WriteJoin(a) \/ WriteLeave(a) \/ WriteDissolve(a)
  \/ \E w \in Worker : Dispatch(a, w)
  \/ PushPolicy(a) \/ FinishShown(a) \/ FinishLeave(a) \/ FinishDissolve(a)

Switch(w) == SwitchCommanded(w) \/ SwitchReconciled(w)

Next ==
  \/ \E a \in Api :
       \/ Handle(a)
       \/ \E w \in Worker : AskLeave(a, w)
       \/ \E w \in Worker, vote \in Votes, agenda \in Agendas \cup {None} :
            AskPolicy(a, w, vote, agenda)
       \/ \E w \in Worker, t \in Team, agenda \in Foundings : AskCreate(a, w, t, agenda)
       \/ \E w \in Worker, t \in Team : AskJoin(a, w, t)
       \/ \E t \in Team, agenda \in Agendas : AskAgenda(a, t, agenda)
       \/ \E t \in Team : AskDissolve(a, t) \/ Hydrate(a, t)
  \/ \E w \in Worker :
       \/ Boot(w) \/ Switch(w) \/ Start(w) \/ StartFails(w) \/ HandleCommand(w)
       \/ Reconcile(w) \/ Report(w) \/ SyncPolicy(w) \/ Crash(w) \/ StatusExpires(w)

\* A request in progress is finished and a process goes on; Kubernetes starts it.
Fairness ==
  /\ \A a \in Api : WF_vars(Handle(a))
  /\ \A w \in Worker : /\ WF_vars(Boot(w)) /\ WF_vars(Start(w)) /\ WF_vars(Switch(w))
                       /\ WF_vars(Reconcile(w)) /\ WF_vars(SyncPolicy(w))
                       /\ WF_vars(HandleCommand(w))

Spec == Init /\ [][Next]_vars /\ Fairness

-----------------------------------------------------------------------------
\* Properties.

Quiet == \A a \in Api : request[a] = Idle

\* The two indices say the same: a miner is in the roster of the team that its
\* own entry names, and of no other, and only who founded a team that exists is
\* kept from founding another (TeamsStore).
RosterAgrees ==
  Quiet => /\ \A w \in Worker, t \in Team :
                teamOf[w] = t <=> Exists(t) /\ w \in team[t].members \cup {team[t].coordinator}
           /\ \A w \in Worker, t \in Team :
                founded[w] = t <=> Coordinates(w, t)

\* The policy of a coordinator has the agenda of its team, and a miner that
\* coordinates nothing keeps nobody's, until its owner sets another by hand: the
\* decisions set meanwhile keep it, the next agenda of a team replaces what was
\* set, and a team that is founded starts without what is left of the last one
\* (set_pool_policy, push_voting_policy, clear_voting_policy).
PolicyIsAgenda ==
  Quiet => \A w \in Worker :
    \/ Recorded(w).byHand
    \/ Recorded(w).agenda = "some"
         <=> \E t \in Team : Coordinates(w, t) /\ team[t].agenda = "some"

\* Once a team has the address that its coordinator reports, so have its members,
\* wherever they were told to look for it before (_hydrate).
MembersShareUrl ==
  Quiet => \A t \in Team :
    (Exists(t) /\ status[team[t].coordinator] # None /\ ~Refreshed(t)) =>
      \A w \in team[t].members : desired[w] = Order("pool-worker", team[t].url)

\* In the end each miner works in the mode of its place in a team, whatever
\* commands were lost, repeated or overtaken, wherever it crashed; and who
\* coordinates votes with the policy recorded (dispatch_switch_mode,
\* _reconcile_desired_mode, _sync_voting_policy).
Settled(w) ==
  /\ proc[w].running
  /\ IF teamOf[w] = None THEN proc[w].mode = "standalone"
     ELSE IF Coordinates(w, teamOf[w])
     THEN /\ proc[w].mode = "pool-coordinator"
          /\ proc[w].voting = Recorded(w)
     ELSE proc[w].mode = "pool-worker" /\ desired[w] = Order("pool-worker", proc[w].url)
MinersFollow == <>[](\A w \in Worker : Settled(w))
=============================================================================
