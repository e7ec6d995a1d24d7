--------------------------- MODULE NctCoordinator ---------------------------
(***************************************************************************)
(* The NCT (nct-coordinator/nct/coordinator.py): replicated processes that *)
(* move laws through the queue, the deliberation, the voting window and    *)
(* the chain.  All durable state is in Redis; a process keeps only its     *)
(* role, its copy of the open window and its copy of the deliberation.     *)
(*                                                                         *)
(* A process runs one handler at a time (one thread: messages, then the    *)
(* tick).  A handler is modelled by the commands it sends to Redis, in the *)
(* order of the code: starting it puts that sequence in todo[n], and each  *)
(* command is a step of its own, so another process, or a crash, may come  *)
(* between any two.  A command named after a method (maybe_open_window,    *)
(* check_deadline ...) reads the state when it is reached and is replaced  *)
(* by the commands that method sends.                                      *)
(***************************************************************************)
EXTENDS Integers, Sequences, FiniteSets

CONSTANTS
  Nct,          \* the NCT processes (NCT_ID)
  Primary,      \* those started with NCT_MODE=primary
  Law, Author,
  Proposals,    \* the proposals citizens may submit
  NoNct, NoLaw, NoMsg,
  Deliberates,  \* DELIBERATION_SECONDS > 0
  CooldownNew,  \* COOLDOWN_WINDOWS_NEW
  TornCrashes,  \* a crash may come between two commands of a handler
  MaxWindows,   \* bound on the windows opened
  MaxCrashes,   \* bound on the crashes
  MaxOverlaps,  \* bound on the leases that expire under a live leader
  MaxErrors     \* bound on the Redis errors inside a handler

Action == {"promulgacion", "derogacion"}
Status == {"none", "pending_queue", "in_deliberation", "in_window",
           "promulgated", "discarded", "repealed"}
Result == {"open", "success", "expired_pending", "expired_no_quorum"}
Proposal == [law : Law, action : Action, author : Author]

ASSUME ConstantsAssumption ==
  /\ Primary \subseteq Nct
  /\ Proposals \subseteq Proposal
  /\ NoNct \notin Nct /\ NoLaw \notin Law /\ NoMsg \notin Proposals
  /\ Deliberates \in BOOLEAN /\ TornCrashes \in BOOLEAN
  /\ CooldownNew \in Nat /\ MaxWindows \in Nat /\ MaxCrashes \in Nat
  /\ MaxOverlaps \in Nat /\ MaxErrors \in Nat

VARIABLES
  \* Redis
  lease,      \* nct:leader
  status,     \* law:<id>.status
  action,     \* law:<id>.action
  queue,      \* the laws in law_queue: which one is next, and so the order, is
              \* left open, and LREM removes every copy of a law
  cooldown,   \* cooldown:<author>, the window from which it may propose again
  counter,    \* window_counter
  window,     \* window:<id>
  pointer,    \* active_window, 0 when absent
  sealed,     \* the windows whose window_sealed:<id> key is set
  chain,      \* the chain and its blocks; a hash is the height it commits to
  delib,      \* nct:deliberation
  \* RabbitMQ
  inbox,      \* proposals not acknowledged yet
  challenged, \* windows whose challenge was published
  \* the processes
  up, leader,
  active,     \* _active: the window this process believes open, or 0
  held,       \* _deliberation
  todo,       \* the commands left of the handler in progress
  ctx,        \* what runs: a message handler or the tick
  hand,       \* the proposal being handled, not acknowledged yet
  tip,        \* the chain hash _seal has read
  \* the environment
  overdue,    \* windows whose deadline has passed
  ripe,       \* laws whose pause is over, or everyone has answered
  crashes, overlaps, errors

lawVars    == <<status, action, queue, cooldown>>
windowVars == <<counter, window, pointer, sealed, challenged>>
redisVars  == <<lease, lawVars, windowVars, chain, delib>>
memory     == <<leader, active, held>>
handlerVars == <<ctx, hand, tip>>
envVars    == <<inbox, up, overdue, ripe, crashes, overlaps, errors>>
vars == <<redisVars, memory, todo, handlerVars, envVars>>

Window == 1..MaxWindows
NoWindow == [law |-> NoLaw, action |-> "promulgacion", result |-> "open"]
WindowRecord == [law : Law \cup {NoLaw}, action : Action, result : Result]
Block == [prev : Nat, win : Window, law : Law, action : Action]

-----------------------------------------------------------------------------
(* Commands *)

StoreCommand ==
  {"save_law", "set_law_status", "set_law_action", "enqueue_law",
   "remove_from_queue", "set_cooldown", "save_window", "set_active_window",
   "clear_active_window", "set_window_result", "publish_challenge",
   "try_seal_window", "release_window_seal", "last_block_hash",
   "append_block", "save_deliberation", "hold", "clear_deliberation", "ack"}
MethodCommand ==
  {"maybe_open_window", "open_window", "check_deliberation", "check_deadline",
   "renew_leadership", "retomar_ventana", "recuperar_deliberacion",
   "requeue_if"}
Command == [do : StoreCommand \cup MethodCommand,
            law : Law \cup {NoLaw}, win : 0..MaxWindows,
            arg : Status \cup Action \cup Result]

Command4(name, l, w, a) == [do |-> name, law |-> l, win |-> w, arg |-> a]
Do(name)           == Command4(name, NoLaw, 0, "none")
OnLaw(name, l)     == Command4(name, l, 0, "none")
OnWindow(name, w)  == Command4(name, NoLaw, w, "none")
SetStatus(l, s)    == Command4("set_law_status", l, 0, s)
SetResult(w, r)    == Command4("set_window_result", NoLaw, w, r)
RequeueIf(l, s)    == Command4("requeue_if", l, 0, s)
SaveWindowCmd(w, l, a) == Command4("save_window", l, w, a)

Tick == <<Do("check_deliberation"), Do("check_deadline"),
          Do("maybe_open_window"), Do("renew_leadership")>>

\* Bug: the law is pending again, but not queued.
RequeueWithoutQueue(l) == <<SetStatus(l, "pending_queue")>>
\* A law goes back to the queue.
Requeue(l) == <<SetStatus(l, "pending_queue"), OnLaw("enqueue_law", l)>>

\* Bug: the window of the dead leader is not taken over.
TakeoverForgetsWindow ==
  <<Do("recuperar_deliberacion"), Do("check_deadline"),
    Do("maybe_open_window")>>
\* Bug: its deliberation is not recovered.
TakeoverForgetsDeliberation ==
  <<Do("retomar_ventana"), Do("check_deadline"), Do("maybe_open_window")>>
\* become_leader, after it has taken the role and subscribed.
Takeover == <<Do("retomar_ventana"), Do("recuperar_deliberacion"),
              Do("check_deadline"), Do("maybe_open_window")>>

Verdict(w) == IF window[w].action = "derogacion" THEN "repealed"
                                                 ELSE "promulgated"

\* Bug: the pointer is cleared before the result is recorded.
CloseSealedPointerFirst(w) ==
  <<Do("clear_active_window"), SetResult(w, "success"),
    SetStatus(window[w].law, Verdict(w))>>
\* Bug: a sealed derogation leaves the law promulgated.
CloseSealedAlwaysPromulgates(w) ==
  <<SetResult(w, "success"), SetStatus(window[w].law, "promulgated"),
    Do("clear_active_window")>>
\* _cerrar_ventana_sellada: what follows a block that is in the chain.
CloseSealed(w) ==
  <<SetResult(w, "success"), SetStatus(window[w].law, Verdict(w)),
    Do("clear_active_window")>>

\* Bug: the result of the window is written with the status of the law.
CloseExpiredMixesEnums(w) ==
  <<SetResult(w, "discarded"), SetStatus(window[w].law, "discarded"),
    Do("clear_active_window"), Do("maybe_open_window")>>
\* check_deadline with a quorum: the law had its chance and is discarded.
CloseExpired(w) ==
  <<SetResult(w, "expired_pending"), SetStatus(window[w].law, "discarded"),
    Do("clear_active_window"), Do("maybe_open_window")>>

\* _expirar_sin_quorum: nobody could mine it, so it is queued again.
CloseWithoutQuorum(w) ==
  <<SetResult(w, "expired_no_quorum")>> \o Requeue(window[w].law)
    \o <<Do("clear_active_window"), Do("maybe_open_window")>>

\* Bug: a block that was refused is taken for one that was appended.
CloseInterruptedAsSealed(w) == CloseSealed(w) \o <<Do("maybe_open_window")>>
\* _seal when append_block refuses the block.
CloseInterrupted(w) ==
  Requeue(window[w].law)
    \o <<Do("clear_active_window"), Do("maybe_open_window")>>

\* Bug: the status says what the block is about to say.
SealStatusFirst(w) ==
  CloseSealed(w) \o <<Do("last_block_hash"), OnWindow("append_block", w)>>
\* _seal, once the window is ours to seal.
Seal(w) == <<Do("last_block_hash"), OnWindow("append_block", w)>>

\* open_window, once the window is saved.
OpenWindow(w, l) ==
  <<SetStatus(l, "in_window"), OnLaw("remove_from_queue", l),
    OnWindow("set_active_window", w), OnWindow("publish_challenge", w)>>

StartDeliberation(l) ==
  <<OnLaw("save_deliberation", l), SetStatus(l, "in_deliberation"),
    OnLaw("remove_from_queue", l), OnLaw("hold", l)>>

\* _resolver_deliberacion for each outcome of the pause.
ResolveOpen(l)    == <<Do("clear_deliberation"), OnLaw("open_window", l)>>
ResolveDiscard(l) == <<Do("clear_deliberation"), SetStatus(l, "discarded"),
                       Do("maybe_open_window")>>
ResolveRequeue(l) == <<Do("clear_deliberation")>> \o Requeue(l)
                       \o <<Do("maybe_open_window")>>

EnqueuePromulgacion(l) ==
  <<OnLaw("save_law", l), OnLaw("enqueue_law", l), Do("set_cooldown"),
    Do("maybe_open_window"), Do("ack")>>

EnqueueDerogacion(l) ==
  <<OnLaw("set_law_action", l), OnLaw("enqueue_law", l), Do("set_cooldown"),
    Do("maybe_open_window"), Do("ack")>>

-----------------------------------------------------------------------------
Init ==
  /\ lease = NoNct
  /\ status = [l \in Law |-> "none"]
  /\ action = [l \in Law |-> "promulgacion"]
  /\ queue = {}
  /\ cooldown = [a \in Author |-> 0]
  /\ counter = 0
  /\ window = [w \in Window |-> NoWindow]
  /\ pointer = 0
  /\ sealed = {}
  /\ chain = <<>>
  /\ delib = NoLaw
  /\ inbox = Proposals
  /\ challenged = {}
  /\ up = [n \in Nct |-> FALSE]
  /\ leader = [n \in Nct |-> FALSE]
  /\ active = [n \in Nct |-> 0]
  /\ held = [n \in Nct |-> NoLaw]
  /\ todo = [n \in Nct |-> <<>>]
  /\ ctx = [n \in Nct |-> "tick"]
  /\ hand = [n \in Nct |-> NoMsg]
  /\ tip = [n \in Nct |-> 0]
  /\ overdue = {} /\ ripe = {}
  /\ crashes = 0 /\ overlaps = 0 /\ errors = 0

-----------------------------------------------------------------------------
(* Running a handler *)

Idle(n) == up[n] /\ todo[n] = <<>>

\* Start the handler whose commands are s.
Start(n, c, s) ==
  /\ todo' = [todo EXCEPT ![n] = s]
  /\ ctx' = [ctx EXCEPT ![n] = c]

\* The next command of n is the one called name.
At(n, name) == todo[n] # <<>> /\ Head(todo[n]).do = name
Cmd(n) == Head(todo[n])

\* The command is done, or is replaced by the commands s.
Done(n) == todo' = [todo EXCEPT ![n] = Tail(@)]
Expand(n, s) == todo' = [todo EXCEPT ![n] = s \o Tail(@)]

-----------------------------------------------------------------------------
(* The lease and the role *)

\* main(): a primary takes the lease if it is free and then leads without
\* become_leader; every other process starts as a follower.
Boot(n) ==
  /\ ~up[n]
  /\ up' = [up EXCEPT ![n] = TRUE]
  /\ \/ /\ n \in Primary /\ lease = NoNct
        /\ lease' = n
        /\ leader' = [leader EXCEPT ![n] = TRUE]
     \/ /\ n \notin Primary \/ lease # NoNct
        /\ UNCHANGED <<lease, leader>>
  /\ UNCHANGED <<lawVars, windowVars, chain, delib, active, held, todo,
                 handlerVars, inbox, overdue, ripe, crashes, overlaps, errors>>

\* The lease reaches its TTL.  A live leader renews it on every heartbeat, so
\* under one it expires only when that leader stalls: MaxOverlaps times.
LeaseExpires ==
  /\ lease # NoNct
  /\ IF up[lease] /\ leader[lease]
     THEN overlaps < MaxOverlaps /\ overlaps' = overlaps + 1
     ELSE UNCHANGED overlaps
  /\ lease' = NoNct
  /\ UNCHANGED <<lawVars, windowVars, chain, delib, memory, todo, handlerVars,
                 inbox, up, overdue, ripe, crashes, errors>>

\* monitor.tick after heartbeat_timeout: the lease is free or still in our
\* name; on_elected is become_leader.
BecomeLeader(n) ==
  /\ Idle(n) /\ ~leader[n]
  /\ lease \in {NoNct, n}
  /\ lease' = n
  /\ leader' = [leader EXCEPT ![n] = TRUE]
  /\ Start(n, "tick", Takeover)
  /\ UNCHANGED <<lawVars, windowVars, chain, delib, active, held, hand, tip,
                 envVars>>

\* The end of every tick: nothing until the heartbeat interval is over, then
\* renew the lease, or step down if it is not ours.
RenewLeadership(n) ==
  /\ At(n, "renew_leadership")
  /\ \/ UNCHANGED memory
     \/ /\ lease # n
        /\ leader' = [leader EXCEPT ![n] = FALSE]
        /\ active' = [active EXCEPT ![n] = 0]
        /\ held' = [held EXCEPT ![n] = NoLaw]
  /\ Done(n)
  /\ UNCHANGED <<redisVars, handlerVars, envVars>>

TickStarts(n) ==
  /\ Idle(n) /\ leader[n]
  /\ Start(n, "tick", Tick)
  /\ UNCHANGED <<redisVars, memory, hand, tip, envVars>>

\* The process dies; what was in hand goes back to RabbitMQ.
Crash(n) ==
  /\ up[n] /\ crashes < MaxCrashes
  /\ TornCrashes \/ todo[n] = <<>>
  /\ crashes' = crashes + 1
  /\ up' = [up EXCEPT ![n] = FALSE]
  /\ leader' = [leader EXCEPT ![n] = FALSE]
  /\ active' = [active EXCEPT ![n] = 0]
  /\ held' = [held EXCEPT ![n] = NoLaw]
  /\ todo' = [todo EXCEPT ![n] = <<>>]
  /\ hand' = [hand EXCEPT ![n] = NoMsg]
  /\ UNCHANGED <<redisVars, ctx, tip, inbox, overdue, ripe, overlaps, errors>>

\* A Redis command of a message handler raises: the rest of the handler is
\* skipped, the exception is logged, the message acknowledged, and the process
\* goes on with the memory it had.  (In the tick it would end the process.)
HandlerError(n) ==
  /\ todo[n] # <<>> /\ ctx[n] = "handler" /\ errors < MaxErrors
  /\ errors' = errors + 1
  /\ todo' = [todo EXCEPT ![n] = <<>>]
  /\ inbox' = inbox \ {hand[n]}
  /\ hand' = [hand EXCEPT ![n] = NoMsg]
  /\ UNCHANGED <<redisVars, memory, ctx, tip, up, overdue, ripe, crashes,
                 overlaps>>

-----------------------------------------------------------------------------
(* The message handlers, which only the leader consumes *)

HandleProposal(n) ==
  /\ Idle(n) /\ leader[n]
  /\ \E m \in inbox :
       /\ \A k \in Nct : hand[k] # m
       /\ \/ \* the author is in cooldown
             /\ counter < cooldown[m.author]
             /\ inbox' = inbox \ {m}
             /\ UNCHANGED <<todo, ctx, hand>>
          \/ /\ counter >= cooldown[m.author]
             /\ hand' = [hand EXCEPT ![n] = m]
             /\ UNCHANGED inbox
             /\ \/ /\ m.action = "promulgacion"
                   /\ Start(n, "handler", EnqueuePromulgacion(m.law))
                \/ /\ m.action = "derogacion"
                   /\ status[m.law] = "promulgated"
                   /\ Start(n, "handler", EnqueueDerogacion(m.law))
                \/ \* only a promulgated law can be repealed
                   /\ m.action = "derogacion"
                   /\ status[m.law] # "promulgated"
                   /\ Start(n, "handler",
                            <<Do("maybe_open_window"), Do("ack")>>)
  /\ UNCHANGED <<redisVars, memory, tip, up, overdue, ripe, crashes, overlaps,
                 errors>>

\* A valid nonce for the window this process believes open, in time.
HandleNonceResponse(n) ==
  /\ Idle(n) /\ leader[n]
  /\ active[n] \in challenged \ overdue
  /\ Start(n, "handler", <<OnWindow("try_seal_window", active[n])>>)
  /\ UNCHANGED <<redisVars, memory, hand, tip, envVars>>

-----------------------------------------------------------------------------
(* The methods that decide by what they read *)

\* Bug: the window that is open is not looked at.
BusyWithDeliberation(n) == held[n] # NoLaw
\* One activity at a time: a window or a deliberation.
Busy(n) == active[n] # 0 \/ held[n] # NoLaw

\* The bound on windows, with the ones that are about to be opened.
MayOpen ==
  counter + Cardinality({n \in Nct : \E i \in DOMAIN todo[n] :
                                       todo[n][i].do = "open_window"})
    < MaxWindows

MaybeOpenWindow(n) ==
  /\ At(n, "maybe_open_window")
  /\ \/ /\ leader[n] /\ ~Busy(n)
        /\ MayOpen
        \* select_next_law: one of the queued laws that have a quorum
        /\ \E l \in queue :
             Expand(n, IF Deliberates THEN StartDeliberation(l)
                       ELSE <<OnLaw("open_window", l)>>)
     \/ \* not leader, busy, an empty queue, or no quorum for any law
        Done(n)
  /\ UNCHANGED <<redisVars, memory, handlerVars, envVars>>

\* Bug: windows are numbered by the height of the chain.
OpenWindowAtHeight(n) ==
  /\ At(n, "open_window") /\ Len(chain) < MaxWindows
  /\ counter' = Len(chain) + 1
  /\ LET l == Cmd(n).law
     IN  Expand(n, <<SaveWindowCmd(counter', l, action[l])>>)
  /\ UNCHANGED <<lease, lawVars, window, pointer, sealed, challenged, chain,
                 delib, memory, handlerVars, envVars>>
\* INCR, for the law as it was read just before.
OpenWindowNumbered(n) ==
  /\ At(n, "open_window") /\ counter < MaxWindows
  /\ counter' = counter + 1
  /\ LET l == Cmd(n).law
     IN  Expand(n, <<SaveWindowCmd(counter + 1, l, action[l])>>)
  /\ UNCHANGED <<lease, lawVars, window, pointer, sealed, challenged, chain,
                 delib, memory, handlerVars, envVars>>

CheckDeliberation(n) ==
  /\ At(n, "check_deliberation")
  /\ LET l == held[n] IN
       \/ l \notin ripe /\ Done(n)
       \/ /\ l \in ripe
          /\ \/ MayOpen /\ Expand(n, ResolveOpen(l))
             \/ Expand(n, ResolveDiscard(l))
             \/ Expand(n, ResolveRequeue(l))
  /\ UNCHANGED <<redisVars, memory, handlerVars, envVars>>

CheckDeadline(n) ==
  /\ At(n, "check_deadline")
  /\ LET w == active[n] IN
       \/ w \notin overdue /\ Done(n)
       \/ /\ w \in overdue
          /\ Expand(n, CloseExpired(w)) \/ Expand(n, CloseWithoutQuorum(w))
  /\ UNCHANGED <<redisVars, memory, handlerVars, envVars>>

\* Bug: a result already recorded is not looked at.
NeverClosed(w) == FALSE
\* The window has its result.
Closed(w) == window[w].result # "open"

\* Bug: the last block is not looked at.
NoLastBlock(w) == FALSE
\* The tip of the chain is a block of window w.
LastBlockOf(w) == chain # <<>> /\ chain[Len(chain)].win = w

\* Bug: the seal of the dead leader is not looked at.
NoSealer(w) == FALSE
\* get_window_sealer: somebody holds the seal of the window.
HasSealer(w) == w \in sealed

\* _retomar_ventana_en_curso: close what was decided, complete a closing whose
\* block is the last of the chain, or take the window over.
RetomarVentana(n) ==
  /\ At(n, "retomar_ventana")
  /\ \/ pointer = 0 /\ Done(n) /\ UNCHANGED active
     \/ /\ pointer # 0 /\ Closed(pointer)
        /\ Expand(n, <<Do("clear_active_window")>>)
        /\ UNCHANGED active
     \/ /\ pointer # 0 /\ ~Closed(pointer)
        /\ LastBlockOf(pointer)
        /\ Expand(n, CloseSealed(pointer))
        /\ UNCHANGED active
     \/ /\ pointer # 0 /\ ~Closed(pointer)
        /\ ~LastBlockOf(pointer)
        /\ \/ /\ HasSealer(pointer)
              /\ Expand(n, <<OnWindow("release_window_seal", pointer)>>)
              /\ UNCHANGED active
           \/ /\ ~HasSealer(pointer)
              /\ active' = [active EXCEPT ![n] = pointer]
              /\ Done(n)
  /\ UNCHANGED <<redisVars, leader, held, handlerVars, envVars>>

\* _devolver_ley_de_ventana: the law goes back to the queue.
GiveBack(w) ==
  <<Do("clear_active_window"), RequeueIf(window[w].law, "in_window")>>

\* Its except branch: the law is given back, even when what failed came after
\* recording the result of a block in the chain, but not when the window could
\* not be read or giving it back failed too.
RetomarVentanaFails(n) ==
  /\ At(n, "retomar_ventana") /\ errors < MaxErrors
  /\ errors' = errors + 1
  /\ \/ Done(n)
     \/ Expand(n, <<Do("clear_active_window")>>)
     \/ pointer # 0 /\ Expand(n, GiveBack(pointer))
     \/ /\ pointer # 0 /\ ~Closed(pointer) /\ LastBlockOf(pointer)
        /\ Expand(n, <<SetResult(pointer, "success")>> \o GiveBack(pointer))
  /\ UNCHANGED <<redisVars, memory, handlerVars, inbox, up, overdue, ripe,
                 crashes, overlaps>>

\* The pause is lost; the law of the dead leader's deliberation goes back.
RecuperarDeliberacion(n) ==
  /\ At(n, "recuperar_deliberacion")
  /\ \/ delib = NoLaw /\ Done(n)
     \/ /\ delib # NoLaw
        /\ Expand(n, <<Do("clear_deliberation"),
                       RequeueIf(delib, "in_deliberation")>>)
  /\ UNCHANGED <<redisVars, memory, handlerVars, envVars>>

\* Its except branch: what was left to do for the deliberation is not done.
RecuperarDeliberacionFails(n) ==
  /\ At(n, "recuperar_deliberacion") /\ errors < MaxErrors
  /\ errors' = errors + 1
  /\ \/ Done(n)
     \/ Expand(n, <<Do("clear_deliberation")>>)
     \/ /\ delib # NoLaw /\ status[delib] = "in_deliberation"
        /\ Expand(n, <<Do("clear_deliberation"),
                       SetStatus(delib, "pending_queue")>>)
  /\ UNCHANGED <<redisVars, memory, handlerVars, inbox, up, overdue, ripe,
                 crashes, overlaps>>

RequeueIfStatus(n) ==
  /\ At(n, "requeue_if")
  /\ IF status[Cmd(n).law] = Cmd(n).arg
     THEN Expand(n, Requeue(Cmd(n).law)) ELSE Done(n)
  /\ UNCHANGED <<redisVars, memory, handlerVars, envVars>>

-----------------------------------------------------------------------------
(* The commands that change Redis, one round trip each *)

SaveLaw(n) ==
  /\ At(n, "save_law")
  /\ status' = [status EXCEPT ![Cmd(n).law] = "pending_queue"]
  /\ action' = [action EXCEPT ![Cmd(n).law] = "promulgacion"]
  /\ Done(n)
  /\ UNCHANGED <<lease, queue, cooldown, windowVars, chain, delib, memory,
                 handlerVars, envVars>>

SetLawStatus(n) ==
  /\ At(n, "set_law_status")
  /\ status' = [status EXCEPT ![Cmd(n).law] = Cmd(n).arg]
  /\ Done(n)
  /\ UNCHANGED <<lease, action, queue, cooldown, windowVars, chain, delib,
                 memory, handlerVars, envVars>>

SetLawAction(n) ==
  /\ At(n, "set_law_action")
  /\ action' = [action EXCEPT ![Cmd(n).law] = "derogacion"]
  /\ Done(n)
  /\ UNCHANGED <<lease, status, queue, cooldown, windowVars, chain, delib,
                 memory, handlerVars, envVars>>

EnqueueLaw(n) ==
  /\ At(n, "enqueue_law")
  /\ queue' = queue \cup {Cmd(n).law}
  /\ Done(n)
  /\ UNCHANGED <<lease, status, action, cooldown, windowVars, chain, delib,
                 memory, handlerVars, envVars>>

\* LREM 0: every copy of the law.
RemoveFromQueue(n) ==
  /\ At(n, "remove_from_queue")
  /\ queue' = queue \ {Cmd(n).law}
  /\ Done(n)
  /\ UNCHANGED <<lease, status, action, cooldown, windowVars, chain, delib,
                 memory, handlerVars, envVars>>

SetCooldown(n) ==
  /\ At(n, "set_cooldown")
  /\ cooldown' = [cooldown EXCEPT ![hand[n].author] = counter + CooldownNew]
  /\ Done(n)
  /\ UNCHANGED <<lease, status, action, queue, windowVars, chain, delib,
                 memory, handlerVars, envVars>>

SaveWindow(n) ==
  /\ At(n, "save_window")
  /\ window' = [window EXCEPT ![Cmd(n).win] =
                  [law |-> Cmd(n).law, action |-> Cmd(n).arg,
                   result |-> "open"]]
  /\ Expand(n, OpenWindow(Cmd(n).win, Cmd(n).law))
  /\ UNCHANGED <<lease, lawVars, counter, pointer, sealed, challenged, chain,
                 delib, memory, handlerVars, envVars>>

SetActiveWindow(n) ==
  /\ At(n, "set_active_window")
  /\ pointer' = Cmd(n).win
  /\ active' = [active EXCEPT ![n] = Cmd(n).win]
  /\ Done(n)
  /\ UNCHANGED <<lease, lawVars, counter, window, sealed, challenged, chain,
                 delib, leader, held, handlerVars, envVars>>

ClearActiveWindow(n) ==
  /\ At(n, "clear_active_window")
  /\ pointer' = 0
  /\ active' = [active EXCEPT ![n] = 0]
  /\ Done(n)
  /\ UNCHANGED <<lease, lawVars, counter, window, sealed, challenged, chain,
                 delib, leader, held, handlerVars, envVars>>

SetWindowResult(n) ==
  /\ At(n, "set_window_result")
  /\ window' = [window EXCEPT ![Cmd(n).win].result = Cmd(n).arg]
  /\ Done(n)
  /\ UNCHANGED <<lease, lawVars, counter, pointer, sealed, challenged, chain,
                 delib, memory, handlerVars, envVars>>

PublishChallenge(n) ==
  /\ At(n, "publish_challenge")
  /\ challenged' = challenged \cup {Cmd(n).win}
  /\ Done(n)
  /\ UNCHANGED <<lease, lawVars, counter, window, pointer, sealed, chain,
                 delib, memory, handlerVars, envVars>>

\* Bug: the window is sealed whatever the key says.
NeverSealed(w) == FALSE
\* The SETNX key of the window is there.
AlreadySealed(w) == w \in sealed

\* SETNX: the first valid nonce closes the window, the later ones are dropped.
TrySealWindow(n) ==
  /\ At(n, "try_seal_window")
  /\ LET w == Cmd(n).win IN
       \/ AlreadySealed(w) /\ Done(n) /\ UNCHANGED sealed
       \/ /\ ~AlreadySealed(w)
          /\ sealed' = sealed \cup {w}
          /\ Expand(n, Seal(w))
  /\ UNCHANGED <<lease, lawVars, counter, window, pointer, challenged, chain,
                 delib, memory, handlerVars, envVars>>

\* The answer is lost and the client sends it again (connect_redis): the second
\* answer says that the window is sealed already.
TrySealWindowTwice(n) ==
  /\ At(n, "try_seal_window") /\ errors < MaxErrors
  /\ errors' = errors + 1
  /\ sealed' = sealed \cup {Cmd(n).win}
  /\ Done(n)
  /\ UNCHANGED <<lease, lawVars, counter, window, pointer, challenged, chain,
                 delib, memory, handlerVars, inbox, up, overdue, ripe, crashes,
                 overlaps>>

\* Only in a takeover, which then takes the window over.
ReleaseWindowSeal(n) ==
  /\ At(n, "release_window_seal")
  /\ sealed' = sealed \ {Cmd(n).win}
  /\ active' = [active EXCEPT ![n] = Cmd(n).win]
  /\ Done(n)
  /\ UNCHANGED <<lease, lawVars, counter, window, pointer, challenged, chain,
                 delib, leader, held, handlerVars, envVars>>

LastBlockHash(n) ==
  /\ At(n, "last_block_hash")
  /\ tip' = [tip EXCEPT ![n] = Len(chain)]
  /\ Done(n)
  /\ UNCHANGED <<redisVars, memory, ctx, hand, envVars>>

\* Bug: the block is appended to whatever the tip is.
AnyTip(n) == TRUE
\* The comparison in the Lua script.
SameTip(n) == tip[n] = Len(chain)

BlockOf(n, w) == [prev |-> tip[n], win |-> w,
                  law |-> window[w].law, action |-> window[w].action]

\* The Lua compare-and-append on the tip, and what _seal does with the answer.
AppendBlock(n) ==
  /\ At(n, "append_block")
  /\ LET w == Cmd(n).win IN
       \/ /\ SameTip(n)
          /\ chain' = Append(chain, BlockOf(n, w))
          /\ Expand(n, CloseSealed(w) \o <<Do("maybe_open_window")>>)
       \/ /\ ~SameTip(n)
          /\ Expand(n, CloseInterrupted(w))
          /\ UNCHANGED chain
  /\ UNCHANGED <<lease, lawVars, windowVars, delib, memory, handlerVars,
                 envVars>>

\* The answer is lost and the client sends it again (connect_redis): the tip is
\* now the block it appended itself, and the second answer is a refusal.
AppendBlockTwice(n) ==
  /\ At(n, "append_block") /\ errors < MaxErrors
  /\ errors' = errors + 1
  /\ SameTip(n)
  /\ chain' = Append(chain, BlockOf(n, Cmd(n).win))
  /\ Expand(n, CloseInterrupted(Cmd(n).win))
  /\ UNCHANGED <<lease, lawVars, windowVars, delib, memory, handlerVars, inbox,
                 up, overdue, ripe, crashes, overlaps>>

SaveDeliberation(n) ==
  /\ At(n, "save_deliberation")
  /\ delib' = Cmd(n).law
  /\ ripe' = ripe \ {Cmd(n).law}
  /\ Done(n)
  /\ UNCHANGED <<lease, lawVars, windowVars, chain, memory, handlerVars, inbox,
                 up, overdue, crashes, overlaps, errors>>

HoldDeliberation(n) ==
  /\ At(n, "hold")
  /\ held' = [held EXCEPT ![n] = Cmd(n).law]
  /\ Done(n)
  /\ UNCHANGED <<redisVars, leader, active, handlerVars, envVars>>

ClearDeliberation(n) ==
  /\ At(n, "clear_deliberation")
  /\ delib' = NoLaw
  /\ held' = [held EXCEPT ![n] = NoLaw]
  /\ Done(n)
  /\ UNCHANGED <<lease, lawVars, windowVars, chain, leader, active,
                 handlerVars, envVars>>

\* basic_ack, once the handler has returned.
Acknowledge(n) ==
  /\ At(n, "ack")
  /\ inbox' = inbox \ {hand[n]}
  /\ hand' = [hand EXCEPT ![n] = NoMsg]
  /\ Done(n)
  /\ UNCHANGED <<redisVars, memory, ctx, tip, up, overdue, ripe, crashes,
                 overlaps, errors>>

-----------------------------------------------------------------------------
(* Time *)

DeadlinePasses(w) ==
  /\ window[w].law # NoLaw /\ w \notin overdue
  /\ overdue' = overdue \cup {w}
  /\ UNCHANGED <<redisVars, memory, todo, handlerVars, inbox, up, ripe,
                 crashes, overlaps, errors>>

\* The pause of l is over, or every convoked worker has answered.
PauseEnds(l) ==
  /\ \E n \in Nct : held[n] = l
  /\ l \notin ripe
  /\ ripe' = ripe \cup {l}
  /\ UNCHANGED <<redisVars, memory, todo, handlerVars, inbox, up, overdue,
                 crashes, overlaps, errors>>

-----------------------------------------------------------------------------
Step(n) ==
  \/ RenewLeadership(n) \/ MaybeOpenWindow(n) \/ OpenWindowNumbered(n)
  \/ CheckDeliberation(n) \/ CheckDeadline(n) \/ RetomarVentana(n)
  \/ RecuperarDeliberacion(n) \/ RequeueIfStatus(n)
  \/ SaveLaw(n) \/ SetLawStatus(n) \/ SetLawAction(n) \/ EnqueueLaw(n)
  \/ RemoveFromQueue(n) \/ SetCooldown(n) \/ SaveWindow(n)
  \/ SetActiveWindow(n) \/ ClearActiveWindow(n) \/ SetWindowResult(n)
  \/ PublishChallenge(n) \/ TrySealWindow(n) \/ ReleaseWindowSeal(n)
  \/ LastBlockHash(n) \/ AppendBlock(n) \/ SaveDeliberation(n)
  \/ HoldDeliberation(n) \/ ClearDeliberation(n) \/ Acknowledge(n)

Next ==
  \/ LeaseExpires
  \/ \E w \in Window : DeadlinePasses(w)
  \/ \E l \in Law : PauseEnds(l)
  \/ \E n \in Nct :
       \/ Boot(n) \/ BecomeLeader(n) \/ TickStarts(n) \/ Crash(n)
       \/ HandlerError(n)
       \/ RetomarVentanaFails(n) \/ RecuperarDeliberacionFails(n)
       \/ TrySealWindowTwice(n) \/ AppendBlockTwice(n)
       \/ HandleProposal(n) \/ HandleNonceResponse(n) \/ Step(n)

Spec == Init /\ [][Next]_vars

\* The consuming loop runs the tick between messages, every handler ends, a
\* dead process is restarted, a dead leader's lease expires, and time passes.
Fairness ==
  /\ \A n \in Nct : /\ WF_vars(Step(n)) /\ SF_vars(TickStarts(n))
                    /\ WF_vars(BecomeLeader(n)) /\ WF_vars(Boot(n))
  /\ WF_vars(LeaseExpires)
  /\ \A w \in Window : WF_vars(DeadlinePasses(w))
  /\ \A l \in Law : WF_vars(PauseEnds(l))

FairSpec == Spec /\ Fairness

-----------------------------------------------------------------------------
(* The public record *)

\* What the status of a law says of it to whoever reads it.
LawVerdict ==
  [l \in Law |-> IF status[l] \in {"promulgated", "repealed"}
                 THEN status[l] ELSE "pending"]

Ledger == INSTANCE LawLedger WITH verdict <- LawVerdict

-----------------------------------------------------------------------------
(* Properties *)

Blocks == {chain[i] : i \in DOMAIN chain}
SealedAs(l, a) == \E b \in Blocks : b.law = l /\ b.action = a
Quiescent == \A n \in Nct : todo[n] = <<>>

\* Every variable has its type.
TypeOK ==
  /\ lease \in Nct \cup {NoNct}
  /\ status \in [Law -> Status] /\ action \in [Law -> Action]
  /\ queue \subseteq Law /\ cooldown \in [Author -> Nat]
  /\ counter \in 0..MaxWindows /\ window \in [Window -> WindowRecord]
  /\ pointer \in 0..MaxWindows /\ sealed \subseteq Window
  /\ challenged \subseteq Window /\ chain \in Seq(Block)
  /\ delib \in Law \cup {NoLaw} /\ inbox \subseteq Proposals
  /\ up \in [Nct -> BOOLEAN] /\ leader \in [Nct -> BOOLEAN]
  /\ active \in [Nct -> 0..MaxWindows] /\ held \in [Nct -> Law \cup {NoLaw}]
  /\ todo \in [Nct -> Seq(Command)] /\ ctx \in [Nct -> {"handler", "tick"}]
  /\ hand \in [Nct -> Proposals \cup {NoMsg}] /\ tip \in [Nct -> Nat]
  /\ overdue \subseteq Window /\ ripe \subseteq Law
  /\ crashes \in Nat /\ overlaps \in Nat /\ errors \in Nat

\* The chain never forks: each block follows the one before it, however many
\* processes believe they lead (append_block is a compare-and-append).
ChainLinked == \A i \in DOMAIN chain : chain[i].prev = i - 1

\* A law is in force, or repealed, only if the block that says so is in the
\* chain: no crash, error or second leader puts the status ahead of the chain.
VerdictIsInChain ==
  \A l \in Law :
    /\ status[l] = "promulgated" => SealedAs(l, "promulgacion")
    /\ status[l] = "repealed" => SealedAs(l, "derogacion")

\* The status of a law is the verdict of the last block about it.
StatusIsLastVerdict ==
  \A i \in DOMAIN chain :
    (\A j \in DOMAIN chain : chain[j].law = chain[i].law => j <= i) =>
      CASE status[chain[i].law] = "promulgated" -> chain[i].action = "promulgacion"
        [] status[chain[i].law] = "repealed" -> chain[i].action = "derogacion"
        [] OTHER -> TRUE

\* A block says of its window what the window record says, and a window that
\* reports success has its block: two leaders never share a window number.
BlockMatchesWindow ==
  /\ \A b \in Blocks : /\ window[b.win].law = b.law
                       /\ window[b.win].action = b.action
  /\ \A w \in Window :
       window[w].result = "success" => \E b \in Blocks : b.win = w

\* A voting window produces at most one block.
OneBlockPerWindow ==
  \A i, j \in DOMAIN chain : chain[i].win = chain[j].win => i = j

\* Whatever the processes do to each other, the record they leave is that of a
\* ledger: windows are opened once and what they vote on is fixed, the chain only
\* grows, by blocks that say what their window says, and no law is declared in force
\* or repealed without its block.
KeepsLedger == Ledger!Spec

\* The verdict of a window is final, and it is the one the chain tells.
VerdictFinal ==
  [][\A w \in Window :
       /\ window[w].result # "open" => window'[w].result = window[w].result
       /\ (\E b \in Blocks : b.win = w)
            => window'[w].result \in {"open", "success"}]_vars

\* One activity at a time: no two processes, and no process with itself, hold
\* two different windows, or a window and a deliberation (AGENT.md 3.3).
OneActivity ==
  \A m, n \in Nct : /\ active[m] # 0 /\ active[n] # 0 => active[m] = active[n]
                    /\ active[m] # 0 => held[n] = NoLaw
                    /\ held[m] # NoLaw /\ held[n] # NoLaw => held[m] = held[n]

\* Between handlers, every law on its way to a verdict is where somebody will
\* find it: in the queue, in a proposal RabbitMQ will deliver again, in the
\* deliberation, or in the window that is active and open.
NoLawStranded ==
  Quiescent =>
    \A l \in Law :
      status[l] \in {"pending_queue", "in_deliberation", "in_window"} =>
        \/ l \in queue
        \/ \E m \in inbox : m.law = l
        \/ status[l] = "in_deliberation" /\ delib = l
        \/ /\ status[l] = "in_window" /\ pointer # 0
           /\ window[pointer].law = l /\ window[pointer].result = "open"

\* The first valid nonce closes its window: one that somebody sealed does not
\* expire, and its law is not discarded, as if nobody had mined it.
SealedNeverExpires ==
  \A w \in sealed :
    window[w].result \notin {"expired_pending", "expired_no_quorum"}

\* A window that expires was announced to the miners.
ExpiredWasChallenged ==
  \A w \in Window :
    window[w].result = "expired_pending" => w \in challenged

\* Every window opened gets its verdict and every deliberation ends, whoever
\* crashes on the way.
WindowCloses ==
  \A w \in Window : (pointer = w) ~> (window[w].result # "open")

\* A window whose block is in the chain ends with success, wherever the
\* process that appended it dies: a later leader completes its closing.
SealedWindowCompletes ==
  \A w \in Window :
    (\E b \in Blocks : b.win = w) ~> (window[w].result = "success")

DeliberationEnds == \A l \in Law : (delib = l) ~> (delib # l)
=============================================================================
