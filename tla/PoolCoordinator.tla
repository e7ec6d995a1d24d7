--------------------------- MODULE PoolCoordinator ---------------------------
(***************************************************************************)
(* A pool (worker_pkg/pool_coordinator): the coordinator divides the nonce *)
(* space of the open window in fragments and hands them out, over HTTP, to *)
(* its miners and to its own auto-miner; the first nonce found goes to the *)
(* NCT.                                                                    *)
(*                                                                         *)
(* Three threads share the coordinator: the one that consumes RabbitMQ and *)
(* runs the tick, the HTTP server (one request at a time) and the          *)
(* auto-miner.  A section under the lock is one step; what a handler does  *)
(* outside the lock, or in another section, is a step of its own.          *)
(* Which replica holds the lease of the pool is left open: this is one     *)
(* process, in command or standing by.                                     *)
(***************************************************************************)
EXTENDS Naturals, Sequences, FiniteSets

CONSTANTS
  Miner,        \* the pool-worker processes
  Ranges,       \* how many ranges a nonce space is divided in
  Golden,       \* the fragments that hold a valid nonce
  None,
  MaxWindows,   \* bound on the windows the NCT opens
  MaxIds,       \* bound on the registrations
  MaxRestarts,  \* bound on the restarts of the coordinator
  MaxLosses     \* bound on the requests that end without an answer

Window == 1..MaxWindows
Range == 1..Ranges
Id == 1..MaxIds
Fragment == [win : Window, range : Range]
Thread == {"http", "auto"}

ASSUME ConstantsAssumption ==
  /\ Golden \subseteq Fragment /\ None \notin Fragment
  /\ Ranges \in Nat /\ MaxWindows \in Nat /\ MaxIds \in Nat
  /\ MaxRestarts \in Nat /\ MaxLosses \in Nat

VARIABLES
  \* the NCT
  opened,     \* the last window opened
  open,       \* active_window in Redis, 0 when absent
  overdue,    \* windows whose deadline has passed
  feed,       \* the queue of challenges and closing notices
  \* the coordinator
  pending,    \* _pending_fragments: the order is left open
  assigned,   \* _assigned: the fragment each miner has in hand
  registered, \* the keys of _miners
  counter,    \* _miner_counter
  solved,     \* _solved
  closed,     \* _cerradas
  standby,
  handling,   \* what the message thread is in the middle of
  submit,     \* what each thread is in the middle of in submit_result
  auto,       \* the fragment the auto-miner is sweeping
  \* the miners
  mid,        \* miner_id, 0 when not registered
  task,       \* the fragment being swept
  \* history
  published,  \* [t][w]: nonces of w published by thread t of this process
  divided,    \* the open window, once this process has divided it
  swept,      \* its fragments swept to the end
  restarts, losses

nctVars   == <<opened, open, overdue, published>>
workVars  == <<pending, assigned>>
minerVars == <<registered, counter>>
closing   == <<solved, closed>>
clients   == <<mid, task>>
history   == <<divided, swept, restarts, losses>>
vars == <<nctVars, feed, workVars, minerVars, closing, standby, handling,
          submit, auto, clients, history>>

Message == [kind : {"challenge", "closed"}, win : Window]
Idle == [at |-> "idle", win |-> 0]

-----------------------------------------------------------------------------
Init ==
  /\ opened = 0 /\ open = 0 /\ overdue = {} /\ feed = <<>>
  /\ published = [t \in Thread |-> [w \in Window |-> 0]]
  /\ pending = {} /\ assigned = [i \in Id |-> None]
  /\ registered = {} /\ counter = 0
  /\ solved = {} /\ closed = {} /\ standby = FALSE
  /\ handling = Idle
  /\ submit = [t \in Thread |-> Idle]
  /\ auto = None
  /\ mid = [m \in Miner |-> 0] /\ task = [m \in Miner |-> None]
  /\ divided = 0 /\ swept = {} /\ restarts = 0 /\ losses = 0

-----------------------------------------------------------------------------
(* The NCT, as the pool sees it: one window at a time *)

OpenWindow ==
  /\ open = 0 /\ opened < MaxWindows
  /\ opened' = opened + 1
  /\ open' = opened + 1
  /\ feed' = Append(feed, [kind |-> "challenge", win |-> opened + 1])
  /\ UNCHANGED <<overdue, published, workVars, minerVars, closing, standby,
                 handling, submit, auto, clients, history>>

\* Somebody sealed it, or it expired.  The notice is best effort.
CloseWindow ==
  /\ open # 0
  /\ open' = 0
  /\ divided' = 0 /\ swept' = {}
  /\ \/ feed' = Append(feed, [kind |-> "closed", win |-> open])
     \/ UNCHANGED feed
  /\ UNCHANGED <<opened, overdue, published, workVars, minerVars, closing,
                 standby, handling, submit, auto, clients, restarts, losses>>

\* Only the deadline of the open window is followed.
DeadlinePasses ==
  /\ open # 0 /\ open \notin overdue
  /\ overdue' = overdue \cup {open}
  /\ UNCHANGED <<opened, open, published, feed, workVars, minerVars, closing,
                 standby, handling, submit, auto, clients, history>>

-----------------------------------------------------------------------------
(* The fragments *)

Assigned == {assigned[i] : i \in Id} \ {None}
Known == pending \cup Assigned

\* Bug: the fragments the miners have in hand are not forgotten.
DiscardPendingOnly(W) ==
  /\ pending' = {f \in pending : f.win \notin W}
  /\ UNCHANGED assigned
\* _discard_fragments: nothing of the windows W is handed out or given back.
Discard(W) ==
  /\ pending' = {f \in pending : f.win \notin W}
  /\ assigned' = [i \in Id |->
                   IF assigned[i] # None /\ assigned[i].win \in W
                   THEN None ELSE assigned[i]]

\* Bug: the last range of the space is left out.
ChunksButLast(w) == [win : {w}, range : 1..(Ranges - 1)]
\* fragment_range over the nonce space of the window.
Chunks(w) == [win : {w}, range : Range]

InTime(F) == {f \in F : f.win \notin overdue}

\* _tomar_fragmento: overdue fragments are dropped on the way to the next.
Take(f) == f \in InTime(pending) /\ pending' = InTime(pending) \ {f}
TakeNothing == InTime(pending) = {} /\ pending # {} /\ pending' = {}

-----------------------------------------------------------------------------
(* The message thread *)

\* Bug: the work on the previous window is kept.
OldWindows(w) == {}
\* The windows whose fragments a challenge for w makes useless.
OtherWindows(w) == {f.win : f \in Known} \ {w}

\* handle_challenge, up to the second section under the lock.  The policy of
\* the team may leave the window to others.
HandleChallenge ==
  /\ handling = Idle /\ feed # <<>> /\ Head(feed).kind = "challenge"
  /\ feed' = Tail(feed)
  /\ LET w == Head(feed).win IN
       \/ UNCHANGED <<workVars, handling>>
       \/ /\ w \notin solved \cup closed \cup overdue
          /\ Discard(OtherWindows(w))
          /\ handling' = [at |-> "divide", win |-> w]
  /\ UNCHANGED <<nctVars, minerVars, closing, standby, submit, auto, clients,
                 history>>

DivideWindow ==
  /\ handling.at = "divide"
  /\ pending' = pending \cup Chunks(handling.win)
  /\ divided' = IF handling.win = open THEN open ELSE divided
  /\ handling' = Idle
  /\ UNCHANGED <<nctVars, feed, assigned, minerVars, closing, standby, submit,
                 auto, clients, swept, restarts, losses>>

\* handle_window_closed: _cerradas first, then the fragments.
HandleWindowClosed ==
  /\ handling = Idle /\ feed # <<>> /\ Head(feed).kind = "closed"
  /\ feed' = Tail(feed)
  /\ closed' = closed \cup {Head(feed).win}
  /\ handling' = [at |-> "discard", win |-> Head(feed).win]
  /\ UNCHANGED <<nctVars, workVars, minerVars, solved, standby, submit, auto,
                 clients, history>>

DiscardClosed ==
  /\ handling.at = "discard"
  /\ Discard({handling.win})
  /\ handling' = Idle
  /\ UNCHANGED <<nctVars, feed, minerVars, closing, standby, submit, auto,
                 clients, history>>

\* Bug: the fragments of a dead miner are lost.
NothingToGiveBack(S) == {}
\* Bug: a miner without a fragment gives one back.
GiveBackBlindly(S) ==
  {f \in {assigned[i] : i \in S} :
     f = None \/ f.win \notin solved \cup closed}
\* The fragments of the purged miners S whose window is still to be won.
GiveBack(S) ==
  {f \in {assigned[i] : i \in S} \ {None} : f.win \notin solved \cup closed}

\* _purge_stale_miners, of those not seen for KEEPALIVE_TTL, which may be
\* alive: their heartbeats are late.
Purge(S) ==
  /\ handling = Idle
  /\ registered' = registered \ S
  /\ assigned' = [i \in Id |-> IF i \in S THEN None ELSE assigned[i]]
  /\ pending' = pending \cup GiveBack(S)
  /\ UNCHANGED <<nctVars, feed, counter, closing, standby, handling, submit,
                 auto, clients, history>>

\* tick, first part.
PurgeStaleMiners == \E S \in SUBSET registered : Purge(S)

\* _drop_inactive_windows: what is not the active window in Redis.
Inactive == {f.win : f \in Known} \ {open}

\* tick, second part, every few seconds.
Lead ==
  /\ handling = Idle
  /\ \/ \* another replica has the lease
        standby' = TRUE /\ UNCHANGED workVars
     \/ \* the lease is free: an election starts
        standby' = FALSE /\ UNCHANGED workVars
     \/ \* the election was won
        standby' = FALSE /\ Discard(Inactive)
  /\ UNCHANGED <<nctVars, feed, minerVars, closing, handling, submit, auto,
                 clients, history>>

-----------------------------------------------------------------------------
(* The HTTP server and the miners *)

HttpFree == submit["http"].at = "idle"

\* POST /register: register_miner.
Register(m) ==
  /\ HttpFree /\ mid[m] = 0 /\ counter < MaxIds
  /\ counter' = counter + 1
  /\ registered' = registered \cup {counter + 1}
  /\ mid' = [mid EXCEPT ![m] = counter + 1]
  /\ UNCHANGED <<nctVars, feed, workVars, closing, standby, handling, submit,
                 auto, task, history>>

\* POST /heartbeat, between fragments: a miner the coordinator does not know
\* registers again.  To the others it only says that they are alive.
Heartbeat(m) ==
  /\ HttpFree /\ task[m] = None
  /\ mid[m] \notin registered \cup {0}
  /\ mid' = [mid EXCEPT ![m] = 0]
  /\ UNCHANGED <<nctVars, feed, workVars, minerVars, closing, standby,
                 handling, submit, auto, task, history>>

\* GET /work/next: get_next_task.
RequestWork(m) ==
  /\ HttpFree /\ mid[m] \in registered /\ task[m] = None /\ ~standby
  /\ \/ /\ TakeNothing
        /\ UNCHANGED <<assigned, task, losses>>
     \/ \E f \in Fragment :
          /\ Take(f)
          /\ assigned' = [assigned EXCEPT ![mid[m]] = f]
          /\ \/ task' = [task EXCEPT ![m] = f] /\ UNCHANGED losses
             \/ \* the answer never arrives
                /\ losses < MaxLosses /\ losses' = losses + 1
                /\ UNCHANGED task
  /\ UNCHANGED <<nctVars, feed, minerVars, closing, standby, handling, submit,
                 auto, mid, divided, swept, restarts>>

\* The check of submit_result, outside the lock.
Over(w) == w \in solved \cup closed

\* Thread t enters submit_result with the nonce of fragment f.
SubmitResult(t, f) ==
  submit' = [submit EXCEPT ![t] =
    IF Over(f.win) THEN Idle ELSE [at |-> "mark", win |-> f.win]]

\* The miner finishes its fragment without a nonce, or with one that it posts.
\* It asks for nothing else until the answer: the server is busy with it.
FinishFragment(m) ==
  /\ task[m] # None
  /\ task' = [task EXCEPT ![m] = None]
  /\ swept' = swept \cup {f \in {task[m]} : f.win = open}
  /\ \/ task[m] \notin Golden /\ UNCHANGED <<submit, losses>>
     \/ /\ task[m] \in Golden /\ HttpFree
        /\ SubmitResult("http", task[m])
        /\ UNCHANGED losses
     \/ \* POST /work/result fails
        /\ task[m] \in Golden
        /\ losses < MaxLosses /\ losses' = losses + 1
        /\ UNCHANGED submit
  /\ UNCHANGED <<nctVars, feed, workVars, minerVars, closing, standby,
                 handling, auto, mid, divided, restarts>>

\* The miner dies and starts again.
MinerRestarts(m) ==
  /\ mid[m] # 0
  /\ mid' = [mid EXCEPT ![m] = 0]
  /\ task' = [task EXCEPT ![m] = None]
  /\ UNCHANGED <<nctVars, feed, workVars, minerVars, closing, standby,
                 handling, submit, auto, history>>

-----------------------------------------------------------------------------
(* The auto-miner *)

AutoTake ==
  /\ auto = None /\ submit["auto"].at = "idle" /\ ~standby
  /\ \/ TakeNothing /\ UNCHANGED auto
     \/ \E f \in Fragment : Take(f) /\ auto' = f
  /\ UNCHANGED <<nctVars, feed, assigned, minerVars, closing, standby,
                 handling, submit, clients, history>>

AutoFinish ==
  /\ auto # None
  /\ auto' = None
  /\ swept' = swept \cup {f \in {auto} : f.win = open}
  /\ \/ auto \notin Golden /\ UNCHANGED submit
     \/ auto \in Golden /\ SubmitResult("auto", auto)
  /\ UNCHANGED <<nctVars, feed, workVars, minerVars, closing, standby,
                 handling, clients, divided, restarts, losses>>

-----------------------------------------------------------------------------
(* submit_result after the check, in either thread *)

At(t, place) == submit[t].at = place
GoTo(t, place) == submit' = [submit EXCEPT ![t].at = place]

\* Bug: the window is not remembered as won.
ForgetWon(w) == UNCHANGED solved
\* _solved.add
Remember(w) == solved' = solved \cup {w}

MarkSolved(t) ==
  /\ At(t, "mark")
  /\ Remember(submit[t].win)
  /\ GoTo(t, "discard")
  /\ UNCHANGED <<nctVars, feed, workVars, minerVars, closed, standby,
                 handling, auto, clients, history>>

DiscardSolved(t) ==
  /\ At(t, "discard")
  /\ Discard({submit[t].win})
  /\ GoTo(t, "publish")
  /\ UNCHANGED <<nctVars, feed, minerVars, closing, standby, handling, auto,
                 clients, history>>

\* The message thread sends what the others leave to it, in order: nobody sees
\* the difference with sending it at once.
PublishNonce(t) ==
  /\ At(t, "publish")
  /\ published' = [published EXCEPT ![t][submit[t].win] = @ + 1]
  /\ submit' = [submit EXCEPT ![t] = Idle]
  /\ UNCHANGED <<opened, open, overdue, feed, workVars, minerVars, closing,
                 standby, handling, auto, clients, history>>

\* The coordinator restarts with nothing but a new, empty queue; the miners
\* keep the identity they had.
Restart ==
  /\ restarts < MaxRestarts
  /\ restarts' = restarts + 1
  /\ feed' = <<>> /\ pending' = {} /\ assigned' = [i \in Id |-> None]
  /\ registered' = {} /\ counter' = 0
  /\ solved' = {} /\ closed' = {} /\ standby' = FALSE /\ handling' = Idle
  /\ submit' = [t \in Thread |-> Idle] /\ auto' = None
  /\ divided' = 0
  /\ published' = [t \in Thread |-> [w \in Window |-> 0]]
  /\ UNCHANGED <<opened, open, overdue, clients, swept, losses>>

-----------------------------------------------------------------------------
MessageThread ==
  \/ HandleChallenge \/ DivideWindow \/ HandleWindowClosed \/ DiscardClosed
  \/ PurgeStaleMiners \/ Lead

Submitting(t) == MarkSolved(t) \/ DiscardSolved(t) \/ PublishNonce(t)

Next ==
  \/ OpenWindow \/ CloseWindow \/ DeadlinePasses
  \/ MessageThread \/ AutoTake \/ AutoFinish \/ Restart
  \/ \E t \in Thread : Submitting(t)
  \/ \E m \in Miner : \/ Register(m) \/ Heartbeat(m) \/ RequestWork(m)
                      \/ FinishFragment(m) \/ MinerRestarts(m)

Spec == Init /\ [][Next]_vars

\* The identities nobody reports for.
Unused == {i \in registered : \A m \in Miner : mid[m] # i}

\* The threads go on, a message is handled in the end, miners finish, and the
\* tick purges the identities nobody uses any more.  The auto-miner gets its
\* turn however often the miners are served first, and so does a miner that
\* waits for the server.
Fairness ==
  /\ WF_vars(DivideWindow \/ DiscardClosed)
  /\ WF_vars(HandleChallenge \/ HandleWindowClosed)
  /\ WF_vars(AutoTake) /\ WF_vars(AutoFinish)
  /\ \A t \in Thread : WF_vars(Submitting(t))
  /\ \A m \in Miner : SF_vars(FinishFragment(m))
  /\ SF_vars(Purge(Unused))

FairSpec == Spec /\ Fairness

-----------------------------------------------------------------------------
(* Properties *)

\* Every variable has its type.
TypeOK ==
  /\ opened \in 0..MaxWindows /\ open \in 0..opened
  /\ overdue \subseteq 1..opened /\ feed \in Seq(Message)
  /\ published \in [Thread -> [Window -> Nat]]
  /\ pending \subseteq Fragment /\ assigned \in [Id -> Fragment \cup {None}]
  /\ registered \subseteq 1..counter
  /\ counter \in 0..MaxIds
  /\ solved \subseteq Window /\ closed \subseteq Window
  /\ standby \in BOOLEAN
  /\ handling \in [at : {"idle", "divide", "discard"},
                   win : 0..MaxWindows]
  /\ submit \in [Thread -> [at : {"idle", "mark", "discard", "publish"},
                            win : 0..MaxWindows]]
  /\ auto \in Fragment \cup {None}
  /\ mid \in [Miner -> 0..MaxIds] /\ task \in [Miner -> Fragment \cup {None}]
  /\ divided \in {0, open} /\ swept \subseteq Fragment
  /\ restarts \in 0..MaxRestarts /\ losses \in 0..MaxLosses

\* Somebody has fragment f, or will give it to somebody.
Covered(f) ==
  \/ f \in Known \cup swept
  \/ f = auto
  \/ \E m \in Miner : task[m] = f

\* Nobody has to search window w any more.
Settled(w) == w \in solved \cup closed \cup overdue

\* The whole space of the open window is searched: the range of a miner that
\* falls is never forgotten, whatever the order of purges, heartbeats, closing
\* notices, nonces and changes of command.  After a restart, or an answer lost
\* on the way, it may be.
RangeCovered ==
  restarts = 0 /\ losses = 0 =>
    \A f \in Fragment :
      f.win = divided /\ ~Settled(f.win) => Covered(f)

\* Once a window is won or closed nothing of it is left to hand out, or to give
\* back when a miner falls.
NoWorkForClosedWindow ==
  \A f \in Known :
    /\ f.win \in closed => handling = [at |-> "discard", win |-> f.win]
    /\ f.win \in solved =>
         \E t \in Thread : submit[t] = [at |-> "discard", win |-> f.win]

\* The pool never divides its work between two windows.
OneWindowAtATime == \A f, g \in Known : f.win = g.win

\* However many miners report a nonce of the same window, each thread sends the
\* NCT one; only the two threads may cross.
OneNoncePerThread ==
  \A t \in Thread, w \in Window : published[t][w] <= 1

\* A pool in command that divides a window with a nonce in it sends the nonce,
\* unless the window is settled before: no miner that falls takes it along.
NonceIsSent ==
  \A w \in Window :
    (divided = w /\ \E f \in Golden : f.win = w)
      ~> \/ divided # w \/ w \in overdue \/ standby \/ losses > 0
         \/ \E t \in Thread : published[t][w] > 0
=============================================================================
