------------------------ MODULE PoolCoordinator_proofs ------------------------
(***************************************************************************)
(* What a pool keeps whatever its miners, its three threads, the closing   *)
(* notices and the lease do, for every number of miners, windows, ranges   *)
(* and restarts.                                                           *)
(*                                                                         *)
(* The argument: challenges come in the order of their windows, so the one *)
(* being handled is of a window nobody has worked on yet; between the two  *)
(* sections of handle_challenge nothing can be handed out, given back or   *)
(* won; and a fragment leaves the hands of the coordinator only swept, or  *)
(* when its window is over.                                                *)
(***************************************************************************)
EXTENDS PoolCoordinator, TLAPS

-----------------------------------------------------------------------------
(* The inductive invariant *)

Busy == {t \in Thread : submit[t].at # "idle"}
\* Somebody has a fragment of window w, or a nonce.
Started(w) ==
  \/ \E f \in Known : f.win = w
  \/ auto # None /\ auto.win = w
  \/ \E m \in Miner : task[m] # None /\ task[m].win = w
  \/ \E t \in Busy : submit[t].win = w

Challenges == {j \in 1..Len(feed) : feed[j].kind = "challenge"}
\* The challenges still in the queue are all of windows opened after w.
Before(w) == w <= opened /\ \A j \in Challenges : w < feed[j].win

FeedInOrder ==
  /\ \A j \in 1..Len(feed) : feed[j].win <= opened
  /\ \A j, k \in Challenges : j < k => feed[j].win < feed[k].win

InOrder ==
  /\ FeedInOrder
  /\ open \in {0, opened}
  /\ \A w \in Window : Started(w) => Before(w)
  /\ divided # 0 => Before(divided)

\* In the middle of handle_challenge the coordinator has nothing to hand out.
Dividing ==
  handling.at = "divide" =>
    /\ Known = {} /\ divided = 0
    /\ handling.win \in Window /\ Before(handling.win)
    /\ handling.win \notin solved \cup closed /\ ~Started(handling.win)

Discarding == handling.at = "discard" => handling.win \in closed

\* A nonce on its way out is the first its thread has of the window.
Reporting ==
  /\ auto # None => submit["auto"].at = "idle"
  /\ \A t \in Busy :
       /\ submit[t].win \in Window /\ published[t][submit[t].win] = 0
       /\ submit[t].at # "mark" => submit[t].win \in solved
  /\ \A t \in Thread, w \in Window : published[t][w] > 0 => w \in solved

\* Miners have different identities, and none of the coming ones has a fragment.
Identities ==
  restarts = 0 =>
    /\ \A m \in Miner : mid[m] <= counter
    /\ \A m, n \in Miner : m # n /\ mid[m] # 0 => mid[m] # mid[n]
    /\ \A i \in Id : assigned[i] # None => i <= counter

\* A miner with nothing to do has swept what the coordinator thinks it has.
HandOut(m) ==
  mid[m] # 0 /\ assigned[mid[m]] # None =>
    \/ assigned[mid[m]].win # divided \/ Settled(assigned[mid[m]].win)
    \/ assigned[mid[m]] \in {task[m]} \cup swept

\* What is neither swept nor settled is known to the coordinator, also while a
\* miner has it.
Kept ==
  restarts = 0 /\ losses = 0 =>
    /\ \A m \in Miner : HandOut(m)
    /\ \A f \in Fragment :
         f.win = divided /\ ~Settled(f.win) => f \in Known \cup swept \cup {auto}

IInv ==
  /\ TypeOK /\ InOrder /\ Dividing /\ Discarding /\ Reporting
  /\ Identities /\ Kept
  /\ NoWorkForClosedWindow /\ OneWindowAtATime /\ OneNoncePerThread

-----------------------------------------------------------------------------
(* Types *)

LEMMA ConstantTypes ==
  /\ Window \subseteq Nat \ {0} /\ Window \subseteq 0..MaxWindows
  /\ Id \subseteq Nat \ {0} /\ Id \subseteq 0..MaxIds
  /\ \A f \in Fragment : f.win \in Window /\ f # None
  /\ \A w \in Window : Chunks(w) \subseteq Fragment
BY ConstantsAssumption DEF Window, Id, Fragment, Chunks, Range

LEMMA KnownTypes ==
  ASSUME TypeOK
  PROVE  /\ Known \subseteq Fragment
         /\ \A S \in SUBSET Id : GiveBack(S) \subseteq Known
BY ConstantTypes DEF TypeOK, Known, Assigned, GiveBack

LEMMA DiscardTypes ==
  ASSUME TypeOK, NEW W, Discard(W)
  PROVE  /\ pending' \subseteq Fragment
         /\ assigned' \in [Id -> Fragment \cup {None}]
BY DEF TypeOK, Discard

LEMMA TailTypes ==
  ASSUME NEW S, NEW q \in Seq(S), q # <<>>
  PROVE  /\ Tail(q) \in Seq(S) /\ Head(q) \in S /\ Head(q) = q[1]
         /\ Len(q) \in Nat \ {0} /\ Len(Tail(q)) = Len(q) - 1
         /\ \A i \in 1..Len(Tail(q)) : Tail(q)[i] = q[i + 1]
OBVIOUS

LEMMA AppendTypes ==
  ASSUME NEW S, NEW q \in Seq(S), NEW e \in S
  PROVE  /\ Append(q, e) \in Seq(S) /\ Len(q) \in Nat
         /\ Len(Append(q, e)) = Len(q) + 1
         /\ Append(q, e)[Len(q) + 1] = e
         /\ \A i \in 1..Len(q) : Append(q, e)[i] = q[i]
OBVIOUS

SubmitStates == [at : {"idle", "mark", "discard", "publish"},
                 win : 0..MaxWindows]

LEMMA SubmitTypes ==
  ASSUME TypeOK, NEW t \in Thread, NEW f \in Fragment, SubmitResult(t, f)
  PROVE  submit' \in [Thread -> SubmitStates]
<1>. f.win \in 0..MaxWindows /\ 0 \in 0..MaxWindows
  BY ConstantsAssumption DEF Fragment, Window
<1>1. [at |-> "mark", win |-> f.win] \in SubmitStates /\ Idle \in SubmitStates
  BY DEF SubmitStates, Idle
<1>2. submit \in [Thread -> SubmitStates]
  BY DEF TypeOK, SubmitStates
<1> DEFINE e == IF Over(f.win) THEN Idle ELSE [at |-> "mark", win |-> f.win]
<1>3. submit' = [submit EXCEPT ![t] = e]
  BY DEF SubmitResult
<1>4. e \in SubmitStates
  BY <1>1
<1> QED BY <1>2, <1>3, <1>4

LEMMA TypeInitially == Init => TypeOK
<1> SUFFICES ASSUME Init PROVE TypeOK
  OBVIOUS
<1>1. /\ opened \in 0..MaxWindows /\ open \in 0..opened /\ counter \in 0..MaxIds
      /\ overdue \subseteq 1..opened /\ registered \subseteq 1..counter
      /\ divided \in {0, open}
      /\ restarts \in 0..MaxRestarts /\ losses \in 0..MaxLosses
  BY ConstantsAssumption DEF Init
<1>2. feed \in Seq(Message) /\ published \in [Thread -> [Window -> Nat]]
  BY DEF Init
<1>3. Idle \in [at : {"idle"}, win : 0..MaxWindows]
  BY ConstantsAssumption DEF Idle
<1>4. /\ handling \in [at : {"idle", "divide", "discard"}, win : 0..MaxWindows]
      /\ submit \in [Thread -> SubmitStates]
  BY <1>3 DEF Init, SubmitStates
<1>5. mid \in [Miner -> 0..MaxIds] /\ task \in [Miner -> Fragment \cup {None}]
  BY ConstantsAssumption DEF Init
<1> QED
  BY <1>1, <1>2, <1>4, <1>5 DEF Init, TypeOK, SubmitStates

\* Every action keeps the types.
LEMMA TypeStep ==
  ASSUME IInv, [Next]_vars
  PROVE  TypeOK'
<1> USE DEF IInv
<1>1. CASE OpenWindow
  <2>1. [kind |-> "challenge", win |-> opened + 1] \in Message
    BY <1>1, ConstantsAssumption DEF OpenWindow, TypeOK, Message, Window
  <2>2. feed' \in Seq(Message)
    BY <1>1, <2>1, AppendTypes DEF OpenWindow, TypeOK
  <2> QED BY <1>1, <2>2, ConstantsAssumption
          DEF OpenWindow, TypeOK, workVars, minerVars, closing, clients, history
<1>2. CASE CloseWindow
  <2>1. [kind |-> "closed", win |-> open] \in Message
    BY <1>2, ConstantsAssumption DEF CloseWindow, TypeOK, Message, Window
  <2>2. feed' \in Seq(Message)
    <3>1. feed \in Seq(Message) /\ Append(feed, [kind |-> "closed", win |-> open])
                                    \in Seq(Message)
      BY <2>1, AppendTypes DEF TypeOK
    <3> QED BY <1>2, <3>1 DEF CloseWindow
  <2>3. open' \in 0..opened' /\ divided' \in {0, open'} /\ swept' = {}
    BY <1>2 DEF CloseWindow, TypeOK
  <2> QED BY <1>2, <2>2, <2>3
          DEF CloseWindow, TypeOK, workVars, minerVars, closing, clients
<1>3. CASE DeadlinePasses
  BY <1>3 DEF DeadlinePasses, TypeOK, workVars, minerVars, closing, clients,
              history
<1>4. CASE HandleChallenge
  <2>1. feed' \in Seq(Message) /\ Head(feed) \in Message
    BY <1>4, TailTypes DEF HandleChallenge, TypeOK
  <2>2. Head(feed).win \in 0..MaxWindows
    BY <2>1, ConstantTypes DEF Message
  <2>3. /\ pending' \subseteq Fragment
        /\ assigned' \in [Id -> Fragment \cup {None}]
    BY <1>4, DiscardTypes DEF HandleChallenge, TypeOK, workVars
  <2>4. handling' \in [at : {"idle", "divide", "discard"}, win : 0..MaxWindows]
    BY <1>4, <2>2 DEF HandleChallenge, TypeOK, workVars
  <2> QED BY <1>4, <2>1, <2>3, <2>4
          DEF HandleChallenge, TypeOK, nctVars, minerVars, closing, clients,
              history
<1>5. CASE DivideWindow
  <2>1. pending' \subseteq Fragment
    BY <1>5, ConstantTypes DEF DivideWindow, TypeOK, Dividing
  <2>2. handling' \in [at : {"idle", "divide", "discard"}, win : 0..MaxWindows]
    BY <1>5, ConstantsAssumption DEF DivideWindow, Idle
  <2> QED BY <1>5, <2>1, <2>2
          DEF DivideWindow, TypeOK, nctVars, minerVars, closing, clients
<1>6. CASE HandleWindowClosed
  <2>1. feed' \in Seq(Message) /\ Head(feed) \in Message
    BY <1>6, TailTypes DEF HandleWindowClosed, TypeOK
  <2>2. Head(feed).win \in Window /\ Head(feed).win \in 0..MaxWindows
    BY <2>1, ConstantTypes DEF Message
  <2>3. handling' \in [at : {"idle", "divide", "discard"}, win : 0..MaxWindows]
    BY <1>6, <2>2 DEF HandleWindowClosed
  <2> QED BY <1>6, <2>1, <2>2, <2>3
          DEF HandleWindowClosed, TypeOK, nctVars, workVars, minerVars, clients,
              history
<1>7. CASE DiscardClosed
  <2>1. handling' \in [at : {"idle", "divide", "discard"}, win : 0..MaxWindows]
    BY <1>7, ConstantsAssumption DEF DiscardClosed, Idle
  <2> QED BY <1>7, <2>1, DiscardTypes
          DEF DiscardClosed, TypeOK, nctVars, minerVars, closing, clients,
              history
<1>8. CASE PurgeStaleMiners
  <2> PICK S \in SUBSET registered : Purge(S)
    BY <1>8 DEF PurgeStaleMiners
  <2>1. S \subseteq Id
    BY ConstantsAssumption DEF TypeOK, Id
  <2>2. pending' \subseteq Fragment
    BY <2>1, KnownTypes DEF Purge, TypeOK
  <2> QED BY <2>2 DEF Purge, TypeOK, nctVars, closing, clients, history
<1>9. CASE Lead
  <2>1. /\ pending' \subseteq Fragment
        /\ assigned' \in [Id -> Fragment \cup {None}]
        /\ standby' \in BOOLEAN
    BY <1>9, DiscardTypes DEF Lead, TypeOK, workVars
  <2> QED BY <1>9, <2>1
          DEF Lead, TypeOK, nctVars, minerVars, closing, clients, history
<1>10. ASSUME NEW m \in Miner, Register(m) PROVE TypeOK'
  <2>1. counter + 1 \in 0..MaxIds /\ counter + 1 \in 1..(counter + 1)
    BY <1>10, ConstantsAssumption DEF Register, TypeOK
  <2> QED BY <1>10, <2>1
          DEF Register, TypeOK, nctVars, workVars, closing, history
<1>11. ASSUME NEW m \in Miner, Heartbeat(m) PROVE TypeOK'
  BY <1>11, ConstantsAssumption
     DEF Heartbeat, TypeOK, nctVars, workVars, minerVars, closing, history
<1>12. ASSUME NEW m \in Miner, RequestWork(m) PROVE TypeOK'
  <2>1. losses' \in 0..MaxLosses
    BY <1>12, ConstantsAssumption DEF RequestWork, TypeOK
  <2> QED BY <1>12, <2>1
          DEF RequestWork, TypeOK, Take, TakeNothing, InTime, nctVars,
              minerVars, closing
<1>13. ASSUME NEW m \in Miner, FinishFragment(m) PROVE TypeOK'
  <2>1. losses' \in 0..MaxLosses
    BY <1>13, ConstantsAssumption DEF FinishFragment, TypeOK
  <2>2. task[m] \in Fragment /\ task[m].win \in 0..MaxWindows
    BY <1>13, ConstantTypes DEF FinishFragment, TypeOK
  <2>3. submit' \in [Thread -> SubmitStates]
    BY <1>13, <2>2, SubmitTypes DEF FinishFragment, TypeOK, SubmitStates, Thread
  <2> QED BY <1>13, <2>1, <2>2, <2>3
          DEF FinishFragment, TypeOK, SubmitStates, nctVars, workVars, minerVars, closing
<1>14. ASSUME NEW m \in Miner, MinerRestarts(m) PROVE TypeOK'
  BY <1>14, ConstantsAssumption
     DEF MinerRestarts, TypeOK, nctVars, workVars, minerVars, closing, history
<1>15. CASE AutoTake
  BY <1>15 DEF AutoTake, TypeOK, Take, TakeNothing, InTime, nctVars,
               minerVars, closing, clients, history
<1>16. CASE AutoFinish
  <2>2. auto \in Fragment /\ auto.win \in 0..MaxWindows
    BY <1>16, ConstantTypes DEF AutoFinish, TypeOK
  <2>3. submit' \in [Thread -> SubmitStates]
    BY <1>16, <2>2, SubmitTypes DEF AutoFinish, TypeOK, SubmitStates, Thread
  <2>4. swept' \subseteq Fragment /\ auto' = None
    BY <1>16, <2>2 DEF AutoFinish, TypeOK
  <2> QED BY <1>16, <2>3, <2>4
          DEF AutoFinish, TypeOK, SubmitStates, nctVars, workVars, minerVars, closing,
              clients
<1>17. ASSUME NEW t \in Thread, MarkSolved(t) PROVE TypeOK'
  <2>1. submit[t].win \in Window
    BY <1>17 DEF MarkSolved, Reporting, Busy, At
  <2>2. submit' \in [Thread -> SubmitStates]
    BY <1>17 DEF MarkSolved, GoTo, TypeOK, SubmitStates
  <2> QED BY <1>17, <2>1, <2>2
          DEF MarkSolved, Remember, TypeOK, SubmitStates, nctVars, workVars, minerVars,
              clients, history
<1>18. ASSUME NEW t \in Thread, DiscardSolved(t) PROVE TypeOK'
  <2>2. submit' \in [Thread -> SubmitStates]
    BY <1>18 DEF DiscardSolved, GoTo, TypeOK, SubmitStates
  <2> QED BY <1>18, <2>2, DiscardTypes
          DEF DiscardSolved, TypeOK, SubmitStates, nctVars, minerVars, closing, clients,
              history
<1>19. ASSUME NEW t \in Thread, PublishNonce(t) PROVE TypeOK'
  <2>1. published' \in [Thread -> [Window -> Nat]]
    BY <1>19 DEF PublishNonce, Reporting, Busy, At, TypeOK
  <2>2. submit' \in [Thread -> SubmitStates]
    BY <1>19, ConstantsAssumption DEF PublishNonce, TypeOK, Idle, SubmitStates
  <2> QED BY <1>19, <2>1, <2>2
          DEF PublishNonce, TypeOK, SubmitStates, workVars, minerVars, closing, clients,
              history
<1>20. CASE Restart
  <2>1. /\ restarts' \in 0..MaxRestarts /\ counter' \in 0..MaxIds
        /\ registered' \subseteq 1..counter' /\ divided' \in {0, open'}
    BY <1>20, ConstantsAssumption DEF Restart, TypeOK
  <2>2. Idle \in [at : {"idle"}, win : 0..MaxWindows]
    BY ConstantsAssumption DEF Idle
  <2>3. /\ handling' \in [at : {"idle", "divide", "discard"}, win : 0..MaxWindows]
        /\ submit' \in [Thread -> SubmitStates]
    BY <1>20, <2>2 DEF Restart, SubmitStates
  <2>4. feed' \in Seq(Message) /\ published' \in [Thread -> [Window -> Nat]]
    BY <1>20 DEF Restart
  <2> QED BY <1>20, <2>1, <2>3, <2>4 DEF Restart, TypeOK, SubmitStates, clients
<1>21. CASE UNCHANGED vars
  BY <1>21 DEF vars, TypeOK, nctVars, workVars, minerVars, closing, clients,
               history
<1> QED
  BY <1>1, <1>2, <1>3, <1>4, <1>5, <1>6, <1>7, <1>8, <1>9, <1>10, <1>11,
     <1>12, <1>13, <1>14, <1>15, <1>16, <1>17, <1>18, <1>19, <1>20, <1>21
     DEF Next, MessageThread, Submitting

-----------------------------------------------------------------------------
(* What steps leave alone *)

LEMMA DiscardKnown ==
  ASSUME TypeOK, NEW W, Discard(W)
  PROVE  Known' = {f \in Known : f.win \notin W}
<1>1. \A i \in Id : assigned'[i] = IF assigned[i] # None /\ assigned[i].win \in W
                                  THEN None ELSE assigned[i]
  BY DEF Discard
<1>2. pending' = {f \in pending : f.win \notin W}
  BY DEF Discard
<1>3. Assigned' = {f \in Assigned : f.win \notin W}
  BY <1>1 DEF Assigned
<1> QED
  BY <1>2, <1>3 DEF Known

\* A fragment given to a miner or to the auto-miner.
LEMMA TakeKnown ==
  ASSUME TypeOK, NEW f \in Fragment, Take(f)
  PROVE  f \in Known /\ pending' \subseteq pending
BY DEF Take, InTime, Known

\* What a thread is in the middle of in submit_result, before and after.
LEMMA SubmitEnters ==
  ASSUME TypeOK, NEW t \in Thread, NEW f, SubmitResult(t, f)
  PROVE  /\ \A u \in Thread \ {t} : submit'[u] = submit[u]
         /\ \/ Over(f.win) /\ submit'[t].at = "idle"
            \/ ~Over(f.win) /\ submit'[t].at = "mark"
               /\ submit'[t].win = f.win
BY DEF SubmitResult, TypeOK, Idle

LEMMA SubmitGoesOn ==
  ASSUME TypeOK, NEW t \in Thread, NEW place, GoTo(t, place)
  PROVE  /\ \A u \in Thread \ {t} : submit'[u] = submit[u]
         /\ submit'[t].at = place /\ submit'[t].win = submit[t].win
         /\ submit'[t] = [at |-> place, win |-> submit[t].win]
BY DEF GoTo, TypeOK

LEMMA SubmitEnds ==
  ASSUME TypeOK, NEW t \in Thread, submit' = [submit EXCEPT ![t] = Idle]
  PROVE  /\ \A u \in Thread \ {t} : submit'[u] = submit[u]
         /\ submit'[t].at = "idle"
BY DEF TypeOK, Idle

\* Only a challenge brings fragments.
LEMMA KnownStep ==
  ASSUME IInv, [Next]_vars, ~DivideWindow
  PROVE  Known' \subseteq Known
<1> USE DEF IInv
<1>1. CASE UNCHANGED workVars
  BY <1>1 DEF workVars, Known, Assigned
<1>2. ASSUME NEW W, Discard(W) PROVE Known' \subseteq Known
  BY <1>2, DiscardKnown
<1>3. ASSUME HandleChallenge \/ DiscardClosed \/ Lead
             \/ \E t \in Thread : DiscardSolved(t)
      PROVE  Known' \subseteq Known
  BY <1>1, <1>2, <1>3 DEF HandleChallenge, DiscardClosed, Lead, DiscardSolved
<1>4. CASE PurgeStaleMiners
  <2> PICK S \in SUBSET registered : Purge(S)
    BY <1>4 DEF PurgeStaleMiners
  <2>1. S \subseteq Id
    BY ConstantsAssumption DEF TypeOK, Id
  <2>2. Assigned' \subseteq Assigned
    BY DEF Purge, Assigned
  <2> QED BY <2>1, <2>2, KnownTypes DEF Purge, Known
<1>5. ASSUME NEW m \in Miner, RequestWork(m) PROVE Known' \subseteq Known
  <2>1. CASE TakeNothing /\ UNCHANGED assigned
    BY <2>1 DEF TakeNothing, Known, Assigned
  <2>2. ASSUME NEW f \in Fragment, Take(f),
               assigned' = [assigned EXCEPT ![mid[m]] = f]
        PROVE  Known' \subseteq Known
    <3>1. Assigned' \subseteq Assigned \cup {f}
      BY <2>2 DEF Assigned, TypeOK
    <3> QED BY <2>2, <3>1, TakeKnown DEF Known
  <2> QED BY <1>5, <2>1, <2>2 DEF RequestWork
<1>6. CASE AutoTake
  BY <1>6, TakeKnown DEF AutoTake, TakeNothing, Known, Assigned
<1>7. CASE Restart
  BY <1>7 DEF Restart, Known, Assigned
<1>8. ASSUME \/ OpenWindow \/ CloseWindow \/ DeadlinePasses
             \/ HandleWindowClosed \/ AutoFinish \/ UNCHANGED vars
             \/ \E t \in Thread : MarkSolved(t) \/ PublishNonce(t)
             \/ \E m \in Miner : \/ Register(m) \/ Heartbeat(m)
                                 \/ FinishFragment(m) \/ MinerRestarts(m)
      PROVE  UNCHANGED workVars
  BY <1>8 DEF OpenWindow, CloseWindow, DeadlinePasses, HandleWindowClosed,
              AutoFinish, MarkSolved, PublishNonce, Register, Heartbeat,
              FinishFragment, MinerRestarts, vars
<1> QED
  BY <1>1, <1>3, <1>4, <1>5, <1>6, <1>7, <1>8
     DEF Next, MessageThread, Submitting

\* Nor does anybody work on a window before its challenge.
LEMMA StartedStep ==
  ASSUME IInv, [Next]_vars, NEW w \in Window, Started(w)'
  PROVE  Started(w) \/ (DivideWindow /\ w = handling.win)
<1> USE DEF IInv
<1>1. CASE DivideWindow
  <2>1. Known' \subseteq Known \cup Chunks(handling.win)
    BY <1>1 DEF DivideWindow, Known, Assigned
  <2>2. \A f \in Chunks(handling.win) : f.win = handling.win
    BY DEF Chunks
  <2> QED BY <1>1, <2>1, <2>2 DEF DivideWindow, Started, Busy, clients
<1>2. CASE ~DivideWindow
  <2>1. Known' \subseteq Known
    BY <1>2, KnownStep
  <2>2. CASE UNCHANGED <<auto, task, submit>>
    BY <2>1, <2>2 DEF Started, Busy
  <2>3. ASSUME \/ OpenWindow \/ CloseWindow \/ DeadlinePasses
               \/ HandleChallenge \/ HandleWindowClosed \/ DiscardClosed
               \/ PurgeStaleMiners \/ Lead \/ UNCHANGED vars
               \/ \E m \in Miner : Register(m) \/ Heartbeat(m)
        PROVE  UNCHANGED <<auto, task, submit>>
    BY <2>3 DEF OpenWindow, CloseWindow, DeadlinePasses, HandleChallenge,
                HandleWindowClosed, DiscardClosed, PurgeStaleMiners, Purge,
                Lead, Register, Heartbeat, vars, clients
  <2>4. ASSUME NEW m \in Miner, RequestWork(m) PROVE Started(w)
    <3>1. UNCHANGED <<auto, submit>>
      BY <2>4 DEF RequestWork
    <3>2. UNCHANGED task
          \/ \E f \in Known : task' = [task EXCEPT ![m] = f]
      BY <2>4, TakeKnown DEF RequestWork
    <3> QED BY <2>1, <3>1, <3>2 DEF Started, Busy, TypeOK
  <2>5. ASSUME NEW m \in Miner, FinishFragment(m) PROVE Started(w)
    <3>1. UNCHANGED auto /\ task' = [task EXCEPT ![m] = None] /\ task[m] # None
      BY <2>5 DEF FinishFragment
    <3>2. \A t \in Busy' : \/ t \in Busy /\ submit'[t] = submit[t]
                         \/ submit'[t].win = task[m].win
      BY <2>5, SubmitEnters DEF FinishFragment, Busy, Thread
    <3> QED BY <2>1, <3>1, <3>2 DEF Started, TypeOK
  <2>6. ASSUME NEW m \in Miner, MinerRestarts(m) PROVE Started(w)
    BY <2>1, <2>6 DEF MinerRestarts, Started, Busy, TypeOK
  <2>7. CASE AutoTake
    <3>1. UNCHANGED <<task, submit>> /\ (UNCHANGED auto \/ auto' \in Known)
      BY <2>7, TakeKnown DEF AutoTake, clients
    <3> QED BY <2>1, <3>1 DEF Started, Busy
  <2>8. CASE AutoFinish
    <3>1. UNCHANGED task /\ auto' = None /\ auto # None
      BY <2>8 DEF AutoFinish, clients
    <3>2. \A t \in Busy' : \/ t \in Busy /\ submit'[t] = submit[t]
                         \/ submit'[t].win = auto.win
      BY <2>8, SubmitEnters DEF AutoFinish, Busy, Thread
    <3> QED BY <2>1, <3>1, <3>2 DEF Started
  <2>9. ASSUME NEW t \in Thread, Submitting(t) PROVE Started(w)
    <3>1. UNCHANGED <<auto, task>>
      BY <2>9 DEF Submitting, MarkSolved, DiscardSolved, PublishNonce, clients
    <3>2. \A u \in Busy' : u \in Busy /\ submit'[u].win = submit[u].win
      BY <2>9, SubmitGoesOn, SubmitEnds
         DEF Submitting, MarkSolved, DiscardSolved, PublishNonce, At, Busy
    <3> QED BY <2>1, <3>1, <3>2 DEF Started
  <2>10. CASE Restart
    BY <2>1, <2>10 DEF Restart, Started, Busy, Idle, clients
  <2> QED
    BY <1>2, <2>2, <2>3, <2>4, <2>5, <2>6, <2>7, <2>8, <2>9, <2>10
       DEF Next, MessageThread
<1> QED BY <1>1, <1>2

-----------------------------------------------------------------------------
(* The order of the windows *)

LEMMA FeedGrows ==
  ASSUME TypeOK, FeedInOrder, NEW e \in Message, feed' = Append(feed, e),
         opened' \in Nat, opened <= opened', e.win <= opened',
         e.kind = "challenge" => opened < e.win
  PROVE  FeedInOrder' /\ \A w \in Nat : Before(w) => Before(w)'
<1>1. /\ Len(feed) \in Nat /\ Len(feed') = Len(feed) + 1
      /\ feed'[Len(feed) + 1] = e
      /\ \A i \in 1..Len(feed) : feed'[i] = feed[i]
  BY AppendTypes DEF TypeOK
<1>2. \A i \in 1..Len(feed) : feed[i] \in Message
  BY DEF TypeOK
<1>3. e.win \in Nat /\ opened \in Nat /\ \A i \in 1..Len(feed) : feed[i].win \in Nat
  BY <1>2 DEF Message, Window, TypeOK
<1>4. \A j \in 1..Len(feed') : j \in 1..Len(feed) \/ j = Len(feed) + 1
  BY <1>1
<1>5. \A j \in Challenges' :
        \/ j \in Challenges
        \/ j = Len(feed) + 1 /\ e.kind = "challenge"
  BY <1>1, <1>4 DEF Challenges
<1>6. \A j \in 1..Len(feed') : feed'[j].win <= opened'
  BY <1>1, <1>3, <1>4 DEF FeedInOrder
<1>7. \A j, k \in Challenges' : j < k => feed'[j].win < feed'[k].win
  <2> SUFFICES ASSUME NEW j \in Challenges', NEW k \in Challenges', j < k
               PROVE  feed'[j].win < feed'[k].win
    OBVIOUS
  <2>1. j \in Challenges /\ j \in 1..Len(feed)
    BY <1>1, <1>5 DEF Challenges
  <2>2. CASE k \in Challenges
    BY <1>1, <2>1, <2>2 DEF FeedInOrder, Challenges
  <2>3. CASE k = Len(feed) + 1 /\ e.kind = "challenge"
    BY <1>1, <1>3, <2>1, <2>3 DEF FeedInOrder
  <2> QED BY <1>5, <2>2, <2>3
<1>8. ASSUME NEW w \in Nat, Before(w) PROVE Before(w)'
  BY <1>1, <1>3, <1>5, <1>8 DEF Before, Challenges
<1> QED
  BY <1>6, <1>7, <1>8 DEF FeedInOrder

LEMMA FeedShrinks ==
  ASSUME TypeOK, FeedInOrder, feed # <<>>, feed' = Tail(feed),
         opened' = opened, NEW h, h = Head(feed)
  PROVE  /\ FeedInOrder' /\ \A w \in Nat : Before(w) => Before(w)'
         /\ h \in Message /\ h.win <= opened
         /\ h.kind = "challenge" =>
              /\ Before(h.win)'
              /\ \A w \in Nat : Before(w) => w < h.win
<1>1. /\ Len(feed) \in Nat \ {0} /\ Len(feed') = Len(feed) - 1
      /\ h = feed[1] /\ h \in Message
      /\ \A i \in 1..Len(feed') : feed'[i] = feed[i + 1]
  BY TailTypes DEF TypeOK
<1>2. \A j \in Challenges' : j + 1 \in Challenges /\ feed'[j] = feed[j + 1]
  BY <1>1 DEF Challenges
<1>3. \A j \in 1..Len(feed') : feed'[j].win <= opened'
  BY <1>1 DEF FeedInOrder
<1>4. \A j, k \in Challenges' : j < k => feed'[j].win < feed'[k].win
  BY <1>2 DEF FeedInOrder, Challenges
<1>5. \A w \in Nat : Before(w) => Before(w)'
  BY <1>2 DEF Before
<1>6. h.win <= opened
  BY <1>1 DEF FeedInOrder
<1>7. ASSUME h.kind = "challenge"
      PROVE  /\ Before(h.win)'
             /\ \A w \in Nat : Before(w) => w < h.win
  <2>1. 1 \in Challenges
    BY <1>1, <1>7 DEF Challenges
  <2>2. \A j \in Challenges' : h.win < feed'[j].win
    BY <1>1, <1>2, <2>1 DEF FeedInOrder, Challenges
  <2>3. Before(h.win)'
    BY <1>1, <1>6, <2>2 DEF Before
  <2>4. \A w \in Nat : Before(w) => w < h.win
    BY <2>1 DEF Before
  <2> QED BY <1>1, <2>3, <2>4
<1> QED
  BY <1>1, <1>3, <1>4, <1>5, <1>6, <1>7 DEF FeedInOrder

\* Challenges go on in order, and a window older than all of them is still so.
LEMMA FeedStep ==
  ASSUME IInv, [Next]_vars
  PROVE  FeedInOrder' /\ \A w \in Nat : Before(w) => Before(w)'
<1> USE DEF IInv, InOrder
<1>1. opened \in Nat /\ open \in Nat /\ open <= opened
  BY ConstantsAssumption DEF TypeOK
<1>2. CASE UNCHANGED <<opened, feed>>
  BY <1>2 DEF FeedInOrder, Before, Challenges
<1>3. CASE OpenWindow
  <2>1. [kind |-> "challenge", win |-> opened + 1] \in Message
    BY <1>3, ConstantsAssumption DEF OpenWindow, TypeOK, Message, Window
  <2> QED BY <1>1, <1>3, <2>1, FeedGrows DEF OpenWindow
<1>4. CASE CloseWindow
  <2> DEFINE e == [kind |-> "closed", win |-> open]
  <2>1. e \in Message
    BY <1>4, ConstantsAssumption DEF CloseWindow, TypeOK, Message, Window
  <2>2. e.win <= opened /\ e.kind # "challenge"
    BY <1>1
  <2>3. UNCHANGED opened /\ (feed' = Append(feed, e) \/ UNCHANGED feed)
    BY <1>4 DEF CloseWindow
  <2> HIDE DEF e
  <2> QED BY <1>1, <1>2, <2>1, <2>2, <2>3, FeedGrows
<1>5. CASE HandleChallenge \/ HandleWindowClosed
  BY <1>5, FeedShrinks DEF HandleChallenge, HandleWindowClosed, nctVars
<1>6. CASE Restart
  <2>1. feed' = <<>> /\ UNCHANGED opened
    BY <1>6 DEF Restart
  <2>2. Challenges' = {} /\ Len(feed') = 0
    BY <2>1 DEF Challenges
  <2> QED BY <2>1, <2>2 DEF FeedInOrder, Before
<1>7. ASSUME \/ DeadlinePasses \/ DivideWindow \/ DiscardClosed
             \/ PurgeStaleMiners \/ Lead \/ AutoTake \/ AutoFinish
             \/ UNCHANGED vars \/ \E t \in Thread : Submitting(t)
             \/ \E m \in Miner : \/ Register(m) \/ Heartbeat(m) \/ RequestWork(m)
                                 \/ FinishFragment(m) \/ MinerRestarts(m)
      PROVE  UNCHANGED <<opened, feed>>
  BY <1>7 DEF DeadlinePasses, DivideWindow, DiscardClosed, PurgeStaleMiners,
              Purge, Lead, AutoTake, AutoFinish, vars, Submitting, MarkSolved,
              DiscardSolved, PublishNonce, Register, Heartbeat, RequestWork,
              FinishFragment, MinerRestarts, nctVars
<1> QED
  BY <1>2, <1>3, <1>4, <1>5, <1>6, <1>7 DEF Next, MessageThread

\* The open window, and the one that was divided, only change in four steps.
LEMMA OpenStep ==
  ASSUME [Next]_vars
  PROVE  \/ OpenWindow /\ open' = opened' /\ UNCHANGED divided
         \/ CloseWindow /\ open' = 0 /\ divided' = 0 /\ UNCHANGED opened
         \/ Restart /\ divided' = 0 /\ UNCHANGED <<opened, open>>
         \/ DivideWindow /\ divided' \in {divided, handling.win}
            /\ UNCHANGED <<opened, open>>
         \/ UNCHANGED <<opened, open, divided>>
<1>1. CASE OpenWindow
  BY <1>1 DEF OpenWindow, history
<1>2. CASE CloseWindow
  BY <1>2 DEF CloseWindow
<1>3. CASE Restart
  BY <1>3 DEF Restart
<1>4. CASE DivideWindow
  BY <1>4 DEF DivideWindow, nctVars
<1>5. ASSUME \/ DeadlinePasses \/ HandleChallenge \/ HandleWindowClosed
             \/ DiscardClosed \/ PurgeStaleMiners \/ Lead \/ AutoTake
             \/ AutoFinish \/ UNCHANGED vars \/ \E t \in Thread : Submitting(t)
             \/ \E m \in Miner : \/ Register(m) \/ Heartbeat(m) \/ RequestWork(m)
                                 \/ FinishFragment(m) \/ MinerRestarts(m)
      PROVE  UNCHANGED <<opened, open, divided>>
  BY <1>5 DEF DeadlinePasses, HandleChallenge, HandleWindowClosed,
              DiscardClosed, PurgeStaleMiners, Purge, Lead, AutoTake,
              AutoFinish, vars, Submitting, MarkSolved, DiscardSolved,
              PublishNonce, Register, Heartbeat, RequestWork, FinishFragment,
              MinerRestarts, nctVars, history
<1> QED
  BY <1>1, <1>2, <1>3, <1>4, <1>5 DEF Next, MessageThread

\* Windows are worked on in the order of their challenges.
LEMMA InOrderStep ==
  ASSUME IInv, [Next]_vars
  PROVE  InOrder'
<1> USE DEF IInv
<1>1. /\ opened \in Nat /\ open \in Nat /\ divided \in Nat
      /\ Window \subseteq Nat
  BY ConstantTypes, ConstantsAssumption DEF TypeOK
<1>2. FeedInOrder' /\ \A w \in Nat : Before(w) => Before(w)'
  BY FeedStep
<1>3. open' \in {0, opened'}
  BY OpenStep DEF InOrder
<1>4. DivideWindow => handling.win \in Window /\ Before(handling.win)
  BY DEF DivideWindow, Dividing
<1>5. \A w \in Window : Started(w)' => Before(w)'
  BY <1>1, <1>2, <1>4, StartedStep DEF InOrder
<1>6. divided' # 0 => \/ Before(divided) /\ divided' = divided
                      \/ DivideWindow /\ divided' = handling.win
  BY OpenStep DEF InOrder
<1>7. divided' # 0 => Before(divided)'
  <2> SUFFICES ASSUME NEW d \in Nat, divided' = d, d # 0 PROVE Before(d)'
    BY TypeStep, ConstantsAssumption, SMTT(30) DEF TypeOK
  <2> QED BY <1>1, <1>2, <1>4, <1>6
<1> QED BY <1>2, <1>3, <1>5, <1>7 DEF InOrder

-----------------------------------------------------------------------------
(* The message thread in the middle of a message *)

\* Nobody else touches what the message thread is in the middle of.
LEMMA HandlingStep ==
  ASSUME [Next]_vars
  PROVE  \/ HandleChallenge \/ HandleWindowClosed
         \/ (DivideWindow \/ DiscardClosed \/ Restart) /\ handling' = Idle
         \/ UNCHANGED <<handling, closed>>
<1>1. CASE DivideWindow \/ DiscardClosed \/ Restart
  BY <1>1 DEF DivideWindow, DiscardClosed, Restart
<1>2. ASSUME \/ OpenWindow \/ CloseWindow \/ DeadlinePasses \/ PurgeStaleMiners
             \/ Lead \/ AutoTake \/ AutoFinish \/ UNCHANGED vars
             \/ \E t \in Thread : Submitting(t)
             \/ \E m \in Miner : \/ Register(m) \/ Heartbeat(m) \/ RequestWork(m)
                                 \/ FinishFragment(m) \/ MinerRestarts(m)
      PROVE  UNCHANGED <<handling, closed>>
  BY <1>2 DEF OpenWindow, CloseWindow, DeadlinePasses, PurgeStaleMiners, Purge,
              Lead, AutoTake, AutoFinish, vars, Submitting, MarkSolved,
              DiscardSolved, PublishNonce, Register, Heartbeat, RequestWork,
              FinishFragment, MinerRestarts, closing
<1> QED
  BY <1>1, <1>2 DEF Next, MessageThread

\* A window is remembered as won when somebody has a nonce of it.
LEMMA SolvedStep ==
  ASSUME [Next]_vars
  PROVE  \/ UNCHANGED solved
         \/ Restart /\ solved' = {}
         \/ \E t \in Thread : MarkSolved(t) /\ solved' = solved \cup {submit[t].win}
<1>1. CASE Restart
  BY <1>1 DEF Restart
<1>2. ASSUME NEW t \in Thread, MarkSolved(t)
      PROVE  solved' = solved \cup {submit[t].win}
  BY <1>2 DEF MarkSolved, Remember
<1>3. ASSUME \/ OpenWindow \/ CloseWindow \/ DeadlinePasses \/ MessageThread
             \/ AutoTake \/ AutoFinish \/ UNCHANGED vars
             \/ \E t \in Thread : DiscardSolved(t) \/ PublishNonce(t)
             \/ \E m \in Miner : \/ Register(m) \/ Heartbeat(m) \/ RequestWork(m)
                                 \/ FinishFragment(m) \/ MinerRestarts(m)
      PROVE  UNCHANGED solved
  BY <1>3 DEF OpenWindow, CloseWindow, DeadlinePasses, MessageThread,
              HandleChallenge, DivideWindow, HandleWindowClosed,
              DiscardClosed, PurgeStaleMiners, Purge, Lead, AutoTake,
              AutoFinish, vars, DiscardSolved, PublishNonce, Register,
              Heartbeat, RequestWork, FinishFragment, MinerRestarts, closing
<1> QED
  BY <1>1, <1>2, <1>3 DEF Next, Submitting

\* The window of a challenge is new to everybody.
LEMMA ChallengeIsNew ==
  ASSUME IInv, HandleChallenge, handling'.at = "divide"
  PROVE  Dividing'
<1> USE DEF IInv
<1>0. PICK h : h = Head(feed)
  OBVIOUS
<1>1. /\ feed # <<>> /\ feed' = Tail(feed) /\ h.kind = "challenge"
      /\ UNCHANGED <<opened, open, divided, solved, closed, auto, task, submit>>
  BY <1>0 DEF HandleChallenge, nctVars, closing, clients, history
<1>2. /\ h.win \notin solved \cup closed \cup overdue
      /\ Discard(OtherWindows(h.win))
      /\ handling' = [at |-> "divide", win |-> h.win]
  BY <1>0 DEF HandleChallenge, Idle
<1>3. h \in Message /\ h.win \in Window
  <2>1. feed \in Seq(Message)
    BY DEF TypeOK
  <2>2. h \in Message
    BY <1>0, <1>1, <2>1, TailTypes
  <2> QED BY <2>2 DEF Message
<1>4. /\ h.win <= opened /\ Before(h.win)'
      /\ \A w \in Nat : Before(w) => w < h.win
  BY <1>0, <1>1, FeedShrinks DEF InOrder
<1>5. /\ opened \in Nat /\ open \in Nat /\ h.win \in Nat
      /\ Window \subseteq Nat
  <2>1. Window \subseteq Nat
    BY ConstantTypes
  <2>2. opened \in Nat /\ open \in Nat
    BY ConstantsAssumption DEF TypeOK
  <2> QED BY <1>3, <2>1, <2>2
<1>6. ~Started(h.win) /\ \A f \in Known : f.win \in Window /\ f.win # h.win
  <2>1. \A w \in Window : Started(w) => w < h.win
    BY <1>4, <1>5 DEF InOrder
  <2>2. ~Started(h.win)
    BY <1>3, <1>5, <2>1
  <2> QED BY <2>2, KnownTypes, ConstantTypes DEF Started
<1>7. Known' = {}
  <2>1. Known' = {f \in Known : f.win \notin OtherWindows(h.win)}
    BY <1>2, DiscardKnown
  <2> QED BY <1>6, <2>1 DEF OtherWindows
<1>8. divided = 0
  BY <1>4, <1>5 DEF InOrder, TypeOK
<1>9. ~Started(h.win)'
  BY <1>1, <1>6, <1>7 DEF Started, Busy
<1> QED
  BY <1>1, <1>2, <1>3, <1>4, <1>7, <1>8, <1>9 DEF Dividing

LEMMA DividingStep ==
  ASSUME IInv, [Next]_vars
  PROVE  Dividing'
<1> USE DEF IInv
<1> SUFFICES ASSUME handling'.at = "divide" PROVE Dividing'
  BY DEF Dividing
<1>1. CASE HandleChallenge
  BY <1>1, ChallengeIsNew
<1>2. CASE UNCHANGED <<handling, closed>> /\ ~DivideWindow /\ ~Restart
  <2>1. /\ handling.at = "divide" /\ Known = {} /\ divided = 0
        /\ handling.win \in Window /\ Before(handling.win)
        /\ handling.win \notin solved \cup closed /\ ~Started(handling.win)
    BY <1>2 DEF Dividing
  <2>2. Known' = {} /\ divided' = 0
    BY <1>2, <2>1, KnownStep, OpenStep
  <2>3. PICK w \in Window : w = handling.win
    BY <2>1
  <2>4. ~Started(w)' /\ Before(w)'
    BY <1>2, <2>1, <2>3, StartedStep, FeedStep, ConstantTypes
  <2>5. w \notin solved'
    <3>1. ASSUME NEW t \in Thread, MarkSolved(t) PROVE submit[t].win # w
      BY <2>1, <2>3, <3>1 DEF MarkSolved, At, Started, Busy
    <3> QED BY <1>2, <2>1, <2>3, <3>1, SolvedStep
  <2>6. handling'.win = w
    BY <1>2, <2>3
  <2> QED BY <1>2, <2>1, <2>2, <2>3, <2>4, <2>5, <2>6 DEF Dividing
<1>3. CASE HandleWindowClosed
  BY <1>3 DEF HandleWindowClosed
<1>4. ~DivideWindow /\ ~Restart
  BY DEF DivideWindow, Restart, Idle
<1> QED
  BY <1>1, <1>2, <1>3, <1>4, HandlingStep DEF Idle

LEMMA DiscardingStep ==
  ASSUME IInv, [Next]_vars
  PROVE  Discarding'
<1>1. CASE HandleChallenge
  BY <1>1 DEF HandleChallenge, Discarding, Idle
<1>2. CASE HandleWindowClosed
  BY <1>2 DEF HandleWindowClosed, Discarding
<1> QED
  BY <1>1, <1>2, HandlingStep DEF Idle, IInv, Discarding

-----------------------------------------------------------------------------
(* Nonces on their way out *)

\* A thread that enters submit_result has sent no nonce of the window yet.
LEMMA FirstNonce ==
  ASSUME IInv, NEW t \in Thread, NEW f \in Fragment, SubmitResult(t, f)
  PROVE  /\ \A u \in Thread \ {t} : submit'[u] = submit[u]
         /\ submit'[t].at # "idle" =>
              /\ submit'[t].at = "mark"
              /\ submit'[t].win = f.win /\ published[t][f.win] = 0
<1> USE DEF IInv
<1>1. f.win \in Window
  BY ConstantTypes
<1>2. published[t][f.win] \in Nat
  BY <1>1 DEF TypeOK
<1> QED
  BY <1>1, <1>2, SubmitEnters DEF Over, Reporting

LEMMA ReportingStep ==
  ASSUME IInv, [Next]_vars
  PROVE  Reporting' /\ OneNoncePerThread'
<1> USE DEF IInv
<1>1. CASE UNCHANGED <<auto, submit, published, solved>>
  BY <1>1 DEF Reporting, OneNoncePerThread, Busy
<1>2. CASE AutoTake
  <2>1. UNCHANGED <<submit, published, solved>> /\ submit["auto"].at = "idle"
    BY <1>2 DEF AutoTake, nctVars, closing
  <2> QED BY <2>1 DEF Reporting, OneNoncePerThread, Busy
<1>3. CASE AutoFinish
  <2>1. UNCHANGED <<published, solved>> /\ auto' = None
    BY <1>3 DEF AutoFinish, nctVars, closing
  <2>2. auto \in Fragment /\ "auto" \in Thread
    BY <1>3 DEF AutoFinish, TypeOK, Thread
  <2>3. UNCHANGED submit \/ SubmitResult("auto", auto)
    BY <1>3 DEF AutoFinish
  <2> QED BY <2>1, <2>2, <2>3, FirstNonce, ConstantTypes
          DEF Reporting, OneNoncePerThread, Busy
<1>4. ASSUME NEW m \in Miner, FinishFragment(m)
      PROVE  Reporting' /\ OneNoncePerThread'
  <2>1. UNCHANGED <<published, solved, auto>>
    BY <1>4 DEF FinishFragment, nctVars, closing
  <2>2. task[m] \in Fragment /\ "http" \in Thread
    BY <1>4 DEF FinishFragment, TypeOK, Thread
  <2>3. UNCHANGED submit \/ SubmitResult("http", task[m])
    BY <1>4 DEF FinishFragment
  <2>4. submit'["auto"] = submit["auto"]
    BY <2>2, <2>3, FirstNonce DEF Thread
  <2> QED BY <2>1, <2>2, <2>3, <2>4, FirstNonce, ConstantTypes
          DEF Reporting, OneNoncePerThread, Busy
<1>5. ASSUME NEW t \in Thread, MarkSolved(t) \/ DiscardSolved(t)
      PROVE  Reporting' /\ OneNoncePerThread'
  <2>1. /\ UNCHANGED <<published, auto>> /\ t \in Busy /\ solved \subseteq solved'
        /\ submit[t].win \in solved'
    BY <1>5 DEF MarkSolved, DiscardSolved, Remember, nctVars, closing, At, Busy,
                Reporting
  <2>2. /\ \A u \in Thread \ {t} : submit'[u] = submit[u]
        /\ submit'[t].win = submit[t].win
    BY <1>5, SubmitGoesOn DEF MarkSolved, DiscardSolved
  <2>3. auto' # None => submit'["auto"].at = "idle"
    BY <2>1, <2>2 DEF Reporting, Busy, Thread
  <2>4. \A u \in Busy' : u \in Busy /\ submit'[u].win = submit[u].win
    BY <2>1, <2>2 DEF Busy
  <2>5. \A u \in Busy' : submit'[u].win \in solved' \/ submit'[u].at = "mark"
    <3> SUFFICES ASSUME NEW u \in Busy'
                 PROVE  submit'[u].win \in solved' \/ submit'[u].at = "mark"
      OBVIOUS
    <3>1. CASE u = t
      BY <2>1, <2>2, <3>1
    <3>2. CASE u # t
      BY <2>1, <2>2, <2>4, <3>2 DEF Reporting, Busy
    <3> QED BY <3>1, <3>2
  <2> QED BY <2>1, <2>3, <2>4, <2>5 DEF Reporting, OneNoncePerThread
<1>6. ASSUME NEW t \in Thread, PublishNonce(t)
      PROVE  Reporting' /\ OneNoncePerThread'
  <2> DEFINE w == submit[t].win
  <2>1. /\ UNCHANGED <<solved, auto>> /\ t \in Busy
        /\ w \in Window /\ w \in solved /\ published[t][w] = 0
    BY <1>6 DEF PublishNonce, closing, At, Busy, Reporting
  <2>2. /\ \A u \in Thread \ {t} : submit'[u] = submit[u]
        /\ submit'[t].at = "idle"
    BY <1>6, SubmitEnds DEF PublishNonce
  <2>3. /\ published'[t][w] = 1
        /\ \A u \in Thread, v \in Window :
             u # t \/ v # w => published'[u][v] = published[u][v]
    BY <1>6, <2>1 DEF PublishNonce, TypeOK
  <2>4. \A u \in Busy' : u \in Busy /\ u # t /\ submit'[u] = submit[u]
    BY <2>2 DEF Busy
  <2>5. auto' # None => submit'["auto"].at = "idle"
    BY <2>1, <2>2 DEF Reporting, Busy, Thread
  <2> HIDE DEF w
  <2>6. \A u \in Thread, v \in Window :
          published'[u][v] <= 1 /\ (published'[u][v] > 0 => v \in solved')
    BY <2>1, <2>3 DEF Reporting, OneNoncePerThread
  <2>7. \A u \in Busy' :
          /\ submit'[u].win \in Window /\ published'[u][submit'[u].win] = 0
          /\ submit'[u].at # "mark" => submit'[u].win \in solved'
    BY <2>1, <2>3, <2>4 DEF Reporting, Busy
  <2> QED BY <2>5, <2>6, <2>7 DEF Reporting, OneNoncePerThread
<1>7. CASE Restart
  <2>1. auto' = None /\ Busy' = {} /\ \A t \in Thread, w \in Window : published'[t][w] = 0
    BY <1>7 DEF Restart, Busy, Idle
  <2> QED BY <2>1 DEF Reporting, OneNoncePerThread
<1>8. ASSUME \/ OpenWindow \/ CloseWindow \/ DeadlinePasses \/ MessageThread
             \/ UNCHANGED vars
             \/ \E m \in Miner : \/ Register(m) \/ Heartbeat(m) \/ RequestWork(m)
                                 \/ MinerRestarts(m)
      PROVE  UNCHANGED <<auto, submit, published, solved>>
  BY <1>8 DEF OpenWindow, CloseWindow, DeadlinePasses, MessageThread,
              HandleChallenge, DivideWindow, HandleWindowClosed,
              DiscardClosed, PurgeStaleMiners, Purge, Lead, vars, Register,
              Heartbeat, RequestWork, MinerRestarts, nctVars, closing
<1> QED
  BY <1>1, <1>2, <1>3, <1>4, <1>5, <1>6, <1>7, <1>8 DEF Next, Submitting

-----------------------------------------------------------------------------
(* The work of windows that are over *)

LEMMA NoWorkStep ==
  ASSUME IInv, [Next]_vars
  PROVE  NoWorkForClosedWindow'
<1> USE DEF IInv
<1>1. CASE DivideWindow
  <2>1. Known' \subseteq Chunks(handling.win) /\ UNCHANGED <<solved, closed>>
    BY <1>1 DEF DivideWindow, Dividing, Known, Assigned, closing
  <2>2. handling.win \notin solved \cup closed
    BY <1>1 DEF DivideWindow, Dividing
  <2> QED BY <2>1, <2>2 DEF NoWorkForClosedWindow, Chunks
<1>2. CASE Restart
  BY <1>2 DEF Restart, NoWorkForClosedWindow
<1>3. CASE ~DivideWindow /\ ~Restart
  <2> SUFFICES ASSUME NEW f \in Known'
               PROVE  /\ f.win \in closed' =>
                           handling' = [at |-> "discard", win |-> f.win]
                      /\ f.win \in solved' =>
                           \E t \in Thread :
                             submit'[t] = [at |-> "discard", win |-> f.win]
    BY DEF NoWorkForClosedWindow
  <2>1. f \in Known
    BY <1>3, KnownStep
  <2>2. ASSUME f.win \in closed' PROVE handling' = [at |-> "discard", win |-> f.win]
    <3>1. CASE HandleWindowClosed
      BY <2>1, <2>2, <3>1 DEF HandleWindowClosed, NoWorkForClosedWindow, Idle
    <3>2. CASE HandleChallenge
      BY <2>1, <2>2, <3>2 DEF HandleChallenge, NoWorkForClosedWindow, Idle, closing
    <3>3. CASE DiscardClosed
      <4>1. f.win \in closed /\ f.win # handling.win
        BY <2>2, <3>3, DiscardKnown DEF DiscardClosed, closing
      <4>2. handling = [at |-> "discard", win |-> f.win]
        BY <2>1, <4>1 DEF NoWorkForClosedWindow
      <4>3. handling.win = f.win
        BY <4>2
      <4> QED BY <4>1, <4>3
    <3>4. CASE UNCHANGED <<handling, closed>>
      BY <2>1, <2>2, <3>4 DEF NoWorkForClosedWindow
    <3> QED BY <1>3, <3>1, <3>2, <3>3, <3>4, HandlingStep
  <2>3. ASSUME f.win \in solved'
        PROVE  \E t \in Thread : submit'[t] = [at |-> "discard", win |-> f.win]
    <3>1. ASSUME NEW t \in Thread, MarkSolved(t), f.win = submit[t].win
          PROVE  submit'[t] = [at |-> "discard", win |-> f.win]
      BY <3>1, SubmitGoesOn DEF MarkSolved
    <3>2. CASE f.win \in solved
      <4>1. PICK t \in Thread : submit[t] = [at |-> "discard", win |-> f.win]
        BY <2>1, <3>2 DEF NoWorkForClosedWindow
      <4>. submit[t].at = "discard" /\ submit[t].win = f.win
        BY <4>1
      <4>2. submit'[t] = submit[t]
        <5>1. ASSUME NEW u \in Thread, DiscardSolved(u) PROVE submit'[t] = submit[t]
          <6>1. f.win # submit[u].win
            BY <5>1, DiscardKnown DEF DiscardSolved
          <6>2. u # t
            BY <6>1
          <6> QED BY <5>1, <6>2, SubmitGoesOn DEF DiscardSolved
        <5>2. ASSUME NEW u \in Thread, MarkSolved(u) \/ PublishNonce(u)
              PROVE  submit'[t] = submit[t]
          <6>1. u # t
            BY <5>2 DEF MarkSolved, PublishNonce, At
          <6>2. CASE MarkSolved(u)
            BY <6>1, <6>2, SubmitGoesOn DEF MarkSolved
          <6>3. CASE PublishNonce(u)
            BY <6>1, <6>3, SubmitEnds DEF PublishNonce
          <6> QED BY <5>2, <6>2, <6>3
        <5>3. ASSUME NEW m \in Miner, FinishFragment(m)
              PROVE  submit'[t] = submit[t]
          <6>1. task[m] \in Fragment /\ "http" \in Thread
            BY <5>3 DEF FinishFragment, TypeOK, Thread
          <6>2. \/ UNCHANGED submit
                \/ SubmitResult("http", task[m]) /\ submit["http"].at = "idle"
            BY <5>3 DEF FinishFragment, HttpFree
          <6> QED BY <4>1, <6>1, <6>2, SubmitEnters
        <5>4. CASE AutoFinish
          <6>1. auto \in Fragment /\ "auto" \in Thread /\ submit["auto"].at = "idle"
            BY <5>4 DEF AutoFinish, TypeOK, Thread, Reporting
          <6>2. UNCHANGED submit \/ SubmitResult("auto", auto)
            BY <5>4 DEF AutoFinish
          <6> QED BY <4>1, <6>1, <6>2, SubmitEnters
        <5>5. ASSUME \/ OpenWindow \/ CloseWindow \/ DeadlinePasses
                     \/ MessageThread \/ AutoTake \/ UNCHANGED vars
                     \/ \E m \in Miner : \/ Register(m) \/ Heartbeat(m)
                                         \/ RequestWork(m) \/ MinerRestarts(m)
              PROVE  UNCHANGED submit
          BY <5>5 DEF OpenWindow, CloseWindow, DeadlinePasses, MessageThread,
                      HandleChallenge, DivideWindow, HandleWindowClosed,
                      DiscardClosed, PurgeStaleMiners, Purge, Lead, AutoTake,
                      vars, Register, Heartbeat, RequestWork, MinerRestarts
        <5> QED BY <1>3, <5>1, <5>2, <5>3, <5>4, <5>5 DEF Next, Submitting
      <4> QED BY <4>1, <4>2
    <3> QED BY <1>3, <2>3, <3>1, <3>2, SolvedStep
  <2> QED BY <2>2, <2>3
<1> QED BY <1>1, <1>2, <1>3

LEMMA OneWindowStep ==
  ASSUME IInv, [Next]_vars
  PROVE  OneWindowAtATime'
<1> USE DEF IInv
<1>1. CASE DivideWindow
  <2>1. Known' \subseteq Chunks(handling.win)
    BY <1>1 DEF DivideWindow, Dividing, Known, Assigned
  <2> QED BY <2>1 DEF OneWindowAtATime, Chunks
<1>2. CASE ~DivideWindow
  BY <1>2, KnownStep DEF OneWindowAtATime
<1> QED BY <1>1, <1>2

-----------------------------------------------------------------------------
(* What the miners have in hand *)

\* Only a request for work puts a fragment in a hand.
LEMMA AssignedStep ==
  ASSUME IInv, [Next]_vars, NEW i \in Id
  PROVE  \/ assigned'[i] \in {assigned[i], None}
         \/ \E m \in Miner : RequestWork(m) /\ i = mid[m]
<1> USE DEF IInv
<1>1. ASSUME UNCHANGED workVars PROVE assigned'[i] \in {assigned[i], None}
  BY <1>1 DEF workVars
<1>2. ASSUME NEW W, Discard(W) PROVE assigned'[i] \in {assigned[i], None}
  BY <1>2 DEF Discard
<1>3. ASSUME \/ HandleChallenge \/ DiscardClosed \/ Lead
             \/ \E t \in Thread : DiscardSolved(t)
      PROVE  assigned'[i] \in {assigned[i], None}
  BY <1>1, <1>2, <1>3 DEF HandleChallenge, DiscardClosed, Lead, DiscardSolved
<1>4. ASSUME (\E S \in SUBSET registered : Purge(S)) \/ Restart
      PROVE  assigned'[i] \in {assigned[i], None}
  <2>1. ASSUME NEW S, Purge(S) PROVE assigned'[i] \in {assigned[i], None}
    BY <2>1 DEF Purge
  <2>2. ASSUME Restart PROVE assigned'[i] = None
    BY <2>2 DEF Restart
  <2> QED BY <1>4, <2>1, <2>2
<1>5. ASSUME NEW m \in Miner, RequestWork(m), i # mid[m]
      PROVE  assigned'[i] = assigned[i]
  BY <1>5 DEF RequestWork, TypeOK
<1>6. ASSUME \/ DivideWindow \/ AutoTake \/ OpenWindow \/ CloseWindow
             \/ DeadlinePasses \/ HandleWindowClosed \/ AutoFinish
             \/ UNCHANGED vars
             \/ \E t \in Thread : MarkSolved(t) \/ PublishNonce(t)
             \/ \E m \in Miner : \/ Register(m) \/ Heartbeat(m)
                                 \/ FinishFragment(m) \/ MinerRestarts(m)
      PROVE  UNCHANGED assigned
  BY <1>6 DEF DivideWindow, AutoTake, OpenWindow, CloseWindow, DeadlinePasses,
              HandleWindowClosed, AutoFinish, MarkSolved, PublishNonce,
              Register, Heartbeat, FinishFragment, MinerRestarts, workVars,
              vars
<1> QED
  BY <1>3, <1>4, <1>5, <1>6 DEF Next, MessageThread, Submitting,
                                PurgeStaleMiners

\* What a step does to the identities and the task of miner m.
LEMMA MinerStep ==
  ASSUME IInv, [Next]_vars, ~Restart, NEW m \in Miner
  PROVE  /\ \/ UNCHANGED counter /\ mid'[m] \in {mid[m], 0}
            \/ Register(m) /\ counter' = counter + 1 /\ mid'[m] = counter'
            \/ counter' = counter + 1 /\ mid'[m] = mid[m]
               /\ \E n \in Miner \ {m} : Register(n)
         /\ \/ task'[m] = task[m] \/ mid'[m] = 0
            \/ RequestWork(m) \/ FinishFragment(m)
<1> USE DEF IInv
<1>1. ASSUME NEW n \in Miner, Register(n)
      PROVE  /\ counter' = counter + 1 /\ mid' = [mid EXCEPT ![n] = counter + 1]
             /\ UNCHANGED task
  BY <1>1 DEF Register
<1>2. ASSUME NEW n \in Miner, Heartbeat(n)
      PROVE  UNCHANGED <<counter, task>> /\ mid' = [mid EXCEPT ![n] = 0]
  BY <1>2 DEF Heartbeat, minerVars
<1>3. ASSUME NEW n \in Miner, RequestWork(n) \/ FinishFragment(n)
      PROVE  /\ UNCHANGED <<counter, mid>>
             /\ \/ UNCHANGED task
                \/ \E f : task' = [task EXCEPT ![n] = f]
  BY <1>3 DEF RequestWork, FinishFragment, minerVars
<1>4. ASSUME NEW n \in Miner, MinerRestarts(n)
      PROVE  /\ UNCHANGED counter /\ mid' = [mid EXCEPT ![n] = 0]
             /\ task' = [task EXCEPT ![n] = None]
  BY <1>4 DEF MinerRestarts, minerVars
<1>5. ASSUME \/ OpenWindow \/ CloseWindow \/ DeadlinePasses \/ MessageThread
             \/ AutoTake \/ AutoFinish \/ UNCHANGED vars
             \/ \E t \in Thread : Submitting(t)
      PROVE  UNCHANGED <<counter, mid, task>>
  BY <1>5 DEF OpenWindow, CloseWindow, DeadlinePasses, MessageThread,
              HandleChallenge, DivideWindow, HandleWindowClosed,
              DiscardClosed, PurgeStaleMiners, Purge, Lead, AutoTake,
              AutoFinish, Submitting, MarkSolved, DiscardSolved, PublishNonce,
              vars, minerVars, clients
<1>6. mid \in [Miner -> 0..MaxIds] /\ task \in [Miner -> Fragment \cup {None}]
  BY DEF TypeOK
<1>7. ASSUME NEW n \in Miner, Register(n)
      PROVE  /\ task'[m] = task[m]
             /\ n = m => mid'[m] = counter'
             /\ n # m => mid'[m] = mid[m]
  BY <1>1, <1>6, <1>7
<1>8. ASSUME NEW n \in Miner, RequestWork(n) \/ FinishFragment(n)
      PROVE  mid'[m] = mid[m] /\ (n = m \/ task'[m] = task[m])
  BY <1>3, <1>6, <1>8
<1>9. ASSUME NEW n \in Miner, Heartbeat(n) \/ MinerRestarts(n)
      PROVE  mid'[m] \in {mid[m], 0} /\ (mid'[m] = 0 \/ task'[m] = task[m])
  BY <1>2, <1>4, <1>6, <1>9
<1>10. CASE \E n \in Miner : Register(n)
  BY <1>1, <1>7, <1>10
<1>11. CASE \E n \in Miner : RequestWork(n) \/ FinishFragment(n)
  BY <1>3, <1>8, <1>11
<1>12. CASE \E n \in Miner : Heartbeat(n) \/ MinerRestarts(n)
  BY <1>2, <1>4, <1>9, <1>12
<1> QED
  BY <1>5, <1>10, <1>11, <1>12 DEF Next

\* A restart is never forgotten, nor is a lost answer.
LEMMA HistoryStep ==
  ASSUME IInv, [Next]_vars
  PROVE  /\ restarts' = 0 => restarts = 0 /\ ~Restart
         /\ losses' = 0 => losses = 0
         /\ CloseWindow \/ swept \subseteq swept'
<1> USE DEF IInv
<1>1. restarts \in Nat /\ losses \in Nat
  BY ConstantsAssumption DEF TypeOK
<1>2. ASSUME Restart
      PROVE  restarts' # 0 /\ UNCHANGED <<losses, swept>>
  BY <1>1, <1>2 DEF Restart
<1>3. ASSUME NEW m \in Miner, RequestWork(m) \/ FinishFragment(m)
      PROVE  /\ UNCHANGED restarts /\ losses' \in {losses, losses + 1}
             /\ swept \subseteq swept'
  BY <1>3 DEF RequestWork, FinishFragment
<1>4. ASSUME CloseWindow PROVE UNCHANGED <<restarts, losses>>
  BY <1>4 DEF CloseWindow
<1>5. ASSUME \/ OpenWindow \/ DeadlinePasses \/ MessageThread
             \/ AutoTake \/ AutoFinish \/ UNCHANGED vars
             \/ \E t \in Thread : Submitting(t)
             \/ \E m \in Miner : Register(m) \/ Heartbeat(m) \/ MinerRestarts(m)
      PROVE  UNCHANGED <<restarts, losses>> /\ swept \subseteq swept'
  BY <1>5 DEF OpenWindow, DeadlinePasses, MessageThread,
              HandleChallenge, DivideWindow, HandleWindowClosed,
              DiscardClosed, PurgeStaleMiners, Purge, Lead, AutoTake,
              AutoFinish, Submitting, MarkSolved, DiscardSolved, PublishNonce,
              Register, Heartbeat, MinerRestarts, vars, history
<1>6. \/ Restart /\ restarts' # 0 /\ UNCHANGED <<losses, swept>>
      \/ CloseWindow /\ UNCHANGED <<restarts, losses>>
      \/ /\ UNCHANGED restarts /\ losses' \in {losses, losses + 1}
         /\ swept \subseteq swept'
  BY <1>2, <1>3, <1>4, <1>5 DEF Next
<1>7. losses + 1 # 0 /\ (Restart => restarts' # 0)
  BY <1>1, <1>2
<1> QED
  BY <1>6, <1>7

LEMMA IdentitiesStep ==
  ASSUME IInv, [Next]_vars
  PROVE  Identities'
<1> USE DEF IInv
<1> SUFFICES ASSUME restarts' = 0 PROVE Identities'
  BY DEF Identities
<1>1. restarts = 0 /\ ~Restart
  BY HistoryStep
<1>2. /\ \A m \in Miner : mid[m] <= counter
      /\ \A m, n \in Miner : m # n /\ mid[m] # 0 => mid[m] # mid[n]
      /\ \A i \in Id : assigned[i] # None => i <= counter
  BY <1>1 DEF Identities
<1>3. counter \in Nat /\ \A m \in Miner : mid[m] \in Nat
  BY DEF TypeOK
<1>4. \A n \in Miner : RequestWork(n) => mid[n] \in 1..counter /\ UNCHANGED counter
  BY DEF RequestWork, TypeOK, minerVars
<1>5. counter' \in {counter, counter + 1}
  <2>1. ASSUME NEW m \in Miner PROVE counter' \in {counter, counter + 1}
    BY <1>1, MinerStep
  <2>2. CASE Miner = {}
    <3>1. ASSUME \/ OpenWindow \/ CloseWindow \/ DeadlinePasses
                 \/ MessageThread \/ AutoTake \/ AutoFinish \/ UNCHANGED vars
                 \/ \E t \in Thread : Submitting(t)
          PROVE  UNCHANGED counter
      BY <3>1 DEF OpenWindow, CloseWindow, DeadlinePasses, MessageThread,
                  HandleChallenge, DivideWindow, HandleWindowClosed,
                  DiscardClosed, PurgeStaleMiners, Purge, Lead, AutoTake,
                  AutoFinish, Submitting, MarkSolved, DiscardSolved,
                  PublishNonce, vars, minerVars
    <3> QED BY <1>1, <2>2, <3>1 DEF Next
  <2> QED BY <2>1, <2>2
<1>6. ASSUME NEW m \in Miner PROVE mid'[m] <= counter'
  BY <1>1, <1>2, <1>3, MinerStep
<1>7. ASSUME NEW m \in Miner, NEW n \in Miner, m # n, mid'[m] # 0
      PROVE  mid'[m] # mid'[n]
  <2>1. ASSUME NEW k \in Miner PROVE mid[k] < counter + 1 /\ mid[k] <= counter
    BY <1>2, <1>3
  <2>2. \A j, k \in Miner : Register(j) /\ Register(k) => j = k
    <3>1. ASSUME NEW j \in Miner, NEW k \in Miner, Register(j), Register(k), j # k
          PROVE  FALSE
      BY <3>1, <1>3 DEF Register, TypeOK
    <3> QED BY <3>1
  <2> QED BY <1>1, <1>2, <1>3, <1>7, <2>1, <2>2, MinerStep
<1>8. ASSUME NEW i \in Id, assigned'[i] # None PROVE i <= counter'
  <2>1. i \in Nat
    BY ConstantTypes
  <2> QED BY <1>2, <1>3, <1>4, <1>5, <1>8, <2>1, AssignedStep
<1> QED
  BY <1>6, <1>7, <1>8 DEF Identities

LEMMA SettledStep ==
  ASSUME IInv, [Next]_vars, ~Restart, NEW w, Settled(w)
  PROVE  Settled(w)'
<1>1. solved \subseteq solved'
  BY SolvedStep
<1>2. closed \subseteq closed'
  BY HandlingStep
     DEF HandleChallenge, HandleWindowClosed, DivideWindow, DiscardClosed, closing
<1>3. overdue \subseteq overdue'
  BY DEF Next, MessageThread, OpenWindow, CloseWindow, DeadlinePasses,
         HandleChallenge, DivideWindow, HandleWindowClosed, DiscardClosed,
         PurgeStaleMiners, Purge, Lead, AutoTake, AutoFinish, Submitting,
         MarkSolved, DiscardSolved, PublishNonce, Register, Heartbeat,
         RequestWork, FinishFragment, MinerRestarts, vars, nctVars
<1> QED BY <1>1, <1>2, <1>3 DEF Settled

\* The fragments of the divided window that nobody has finished with stay with
\* the coordinator when it gives them, takes them back and discards others.
LEMMA KnownKept ==
  ASSUME IInv, [Next]_vars, ~Restart, ~CloseWindow,
         restarts = 0, losses = 0, divided' = divided,
         NEW f \in Known, f.win = divided, ~Settled(f.win)'
  PROVE  f \in Known' \cup swept \cup {auto'}
<1> USE DEF IInv
<1>1. f \in Fragment /\ f.win \in Window /\ f.win # 0 /\ f.win = open /\ f # None
  BY KnownTypes, ConstantTypes DEF TypeOK
<1>2. ~Settled(f.win)
  BY SettledStep
<1>3. ASSUME NEW W, Discard(W), f.win \notin W PROVE f \in Known'
  BY <1>3, DiscardKnown
<1>4. CASE UNCHANGED workVars
  BY <1>4 DEF workVars, Known, Assigned
<1>5. CASE HandleChallenge
  <2>1. CASE handling'.at = "divide"
    BY <1>1, <1>5, <2>1, ChallengeIsNew DEF Dividing
  <2>2. CASE handling'.at # "divide"
    BY <1>4, <1>5, <2>2 DEF HandleChallenge
  <2> QED BY <2>1, <2>2
<1>6. CASE DivideWindow
  BY <1>6 DEF DivideWindow, Known, Assigned
<1>7. CASE DiscardClosed
  <2>1. handling.win # f.win
    BY <1>2, <1>7 DEF DiscardClosed, Discarding, Settled
  <2> QED BY <1>3, <1>7, <2>1 DEF DiscardClosed
<1>8. CASE PurgeStaleMiners
  <2> PICK S \in SUBSET registered : Purge(S)
    BY <1>8 DEF PurgeStaleMiners
  <2>1. CASE f \in pending
    BY <2>1 DEF Purge, Known
  <2>2. ASSUME NEW i \in Id, f = assigned[i] PROVE f \in Known'
    <3>1. CASE i \in S
      <4>1. f \in GiveBack(S)
        BY <1>1, <1>2, <2>2, <3>1 DEF GiveBack, Settled
      <4> QED BY <4>1 DEF Purge, Known
    <3>2. CASE i \notin S
      <4>1. assigned'[i] = f
        BY <2>2, <3>2 DEF Purge
      <4> QED BY <1>1, <4>1 DEF Known, Assigned
    <3> QED BY <3>1, <3>2
  <2> QED BY <2>1, <2>2 DEF Known, Assigned
<1>9. CASE Lead
  <2>1. f.win \notin Inactive
    BY <1>1 DEF Inactive
  <2> QED BY <1>3, <1>4, <1>9, <2>1 DEF Lead
<1>10. ASSUME NEW m \in Miner, RequestWork(m)
       PROVE  f \in Known' \cup swept
  <2>1. f.win \notin overdue
    BY <1>2 DEF Settled
  <2>2. CASE TakeNothing /\ UNCHANGED assigned
    BY <2>1, <2>2 DEF TakeNothing, InTime, Known, Assigned
  <2>3. ASSUME NEW g \in Fragment, Take(g),
               assigned' = [assigned EXCEPT ![mid[m]] = g]
        PROVE  f \in Known' \cup swept
    <3>1. mid[m] \in Id /\ task[m] = None /\ mid[m] # 0
      BY <1>10, ConstantsAssumption, ConstantTypes DEF RequestWork, TypeOK, Id
    <3>2. assigned'[mid[m]] = g /\ \A i \in Id : i # mid[m] => assigned'[i] = assigned[i]
      BY <2>3, <3>1 DEF TypeOK
    <3>3. g \in Known' /\ (f \in pending => f = g \/ f \in pending')
      BY <2>1, <2>3, <3>1, <3>2, ConstantTypes DEF Take, InTime, Known, Assigned
    <3>4. ASSUME NEW i \in Id, f = assigned[i] PROVE f \in Known' \cup swept
      <4>1. CASE i = mid[m]
        BY <1>1, <1>2, <3>1, <3>4, <4>1 DEF Kept, HandOut
      <4>2. CASE i # mid[m]
        BY <1>1, <3>2, <3>4, <4>2 DEF Known, Assigned
      <4> QED BY <4>1, <4>2
    <3> QED BY <3>3, <3>4 DEF Known, Assigned
  <2> QED BY <1>10, <2>2, <2>3 DEF RequestWork
<1>11. CASE AutoTake
  <2>1. f.win \notin overdue /\ UNCHANGED assigned
    BY <1>2, <1>11 DEF Settled, AutoTake
  <2>2. CASE f \in pending
    BY <1>11, <2>1, <2>2 DEF AutoTake, Take, TakeNothing, InTime, Known
  <2>3. CASE f \in Assigned
    BY <2>1, <2>3 DEF Known, Assigned
  <2> QED BY <2>2, <2>3 DEF Known
<1>12. ASSUME NEW t \in Thread, DiscardSolved(t) PROVE f \in Known'
  <2>1. submit[t].win # f.win
    BY <1>2, <1>12 DEF DiscardSolved, At, Reporting, Busy, Settled
  <2> QED BY <1>3, <1>12, <2>1 DEF DiscardSolved
<1>13. ASSUME \/ OpenWindow \/ DeadlinePasses \/ HandleWindowClosed
              \/ AutoFinish \/ UNCHANGED vars
              \/ \E t \in Thread : MarkSolved(t) \/ PublishNonce(t)
              \/ \E m \in Miner : \/ Register(m) \/ Heartbeat(m)
                                  \/ FinishFragment(m) \/ MinerRestarts(m)
       PROVE  UNCHANGED workVars
  BY <1>13 DEF OpenWindow, DeadlinePasses, HandleWindowClosed, AutoFinish,
               MarkSolved, PublishNonce, Register, Heartbeat, FinishFragment,
               MinerRestarts, vars
<1> QED
  BY <1>4, <1>5, <1>6, <1>7, <1>8, <1>9, <1>10, <1>11, <1>12, <1>13
     DEF Next, MessageThread, Submitting

\* What the auto-miner has, it has swept when it lets it go.
LEMMA AutoKept ==
  ASSUME IInv, [Next]_vars, ~Restart, auto # None, auto.win = divided,
         divided # 0
  PROVE  auto \in swept' \cup {auto'}
<1>1. CASE AutoFinish
  BY <1>1 DEF IInv, TypeOK, AutoFinish
<1>2. ~AutoTake
  BY DEF AutoTake
<1>3. ASSUME \/ OpenWindow \/ CloseWindow \/ DeadlinePasses \/ MessageThread
             \/ UNCHANGED vars \/ \E t \in Thread : Submitting(t)
             \/ \E m \in Miner : \/ Register(m) \/ Heartbeat(m) \/ RequestWork(m)
                                 \/ FinishFragment(m) \/ MinerRestarts(m)
      PROVE  UNCHANGED auto
  BY <1>3 DEF OpenWindow, CloseWindow, DeadlinePasses, MessageThread,
              HandleChallenge, DivideWindow, HandleWindowClosed,
              DiscardClosed, PurgeStaleMiners, Purge, Lead, Submitting,
              MarkSolved, DiscardSolved, PublishNonce, Register, Heartbeat,
              RequestWork, FinishFragment, MinerRestarts, vars
<1> QED BY <1>1, <1>2, <1>3 DEF Next

LEMMA HandOutStep ==
  ASSUME IInv, [Next]_vars, restarts' = 0, losses' = 0, NEW m \in Miner
  PROVE  HandOut(m)'
<1> USE DEF IInv
<1>1. restarts = 0 /\ losses = 0 /\ ~Restart
  BY HistoryStep
<1>2. HandOut(m)
  BY <1>1 DEF Kept
<1> SUFFICES ASSUME NEW i \in Id, NEW f, mid'[m] = i, assigned'[i] = f, f # None,
                    f.win = divided', ~Settled(f.win)'
             PROVE  f \in {task'[m]} \cup swept'
  <2>1. mid'[m] \in 0..MaxIds
    BY TypeStep DEF TypeOK
  <2>2. mid'[m] # 0 => mid'[m] \in Id
    BY <2>1, ConstantsAssumption DEF Id
  <2> QED BY <2>2 DEF HandOut, Settled
<1>3. f = assigned'[i] /\ f # None
  OBVIOUS
<1>4. f \in Fragment /\ f.win \in Window /\ f.win # 0 /\ f.win = divided'
  <2>1. f \in Fragment
    BY <1>3, TypeStep DEF TypeOK
  <2> QED BY <1>3, <2>1, ConstantTypes
<1>5. ~Settled(f.win)' /\ ~Settled(f.win) /\ ~CloseWindow
  BY <1>1, <1>3, <1>4, SettledStep DEF CloseWindow
<1>6. i # 0 /\ i \in Nat
  BY ConstantTypes
<1>7. ASSUME NEW n \in Miner, RequestWork(n), i = mid[n]
      PROVE  n = m
  <2>1. mid'[m] = mid[m]
    BY <1>7 DEF RequestWork
  <2> QED BY <1>1, <1>6, <1>7, <2>1 DEF Identities
<1>8. CASE RequestWork(m) /\ i = mid[m] /\ f # assigned[i]
  BY <1>1, <1>3, <1>8 DEF RequestWork, TypeOK
<1>9. CASE f = assigned[i]
  <2>1. ~DivideWindow
    BY <1>3, <1>9 DEF DivideWindow, Dividing, Known, Assigned
  <2>2. divided' = divided /\ f.win = open
    BY <1>1, <1>4, <1>5, <2>1, OpenStep DEF TypeOK
  <2>3. ~Register(m)
    <3>1. ASSUME Register(m) PROVE i = counter + 1
      BY <3>1 DEF Register, TypeOK
    <3>2. i <= counter /\ counter \in Nat
      BY <1>1, <1>3, <1>9 DEF Identities, TypeOK
    <3> QED BY <3>1, <3>2
  <2>4. mid[m] = i
    BY <1>1, <1>6, <2>3, MinerStep
  <2>5. f = task[m] \/ f \in swept
    BY <1>2, <1>3, <1>4, <1>5, <1>6, <1>9, <2>2, <2>4 DEF HandOut
  <2>6. swept \subseteq swept'
    BY <1>5, HistoryStep
  <2>7. CASE FinishFragment(m)
    BY <1>3, <1>4, <2>2, <2>5, <2>6, <2>7 DEF FinishFragment
  <2>8. CASE RequestWork(m)
    <3>1. task[m] = None /\ f # None
      BY <1>3, <2>8 DEF RequestWork
    <3> QED BY <1>3, <2>5, <2>6, <3>1
  <2>9. CASE task'[m] = task[m]
    BY <1>3, <2>5, <2>6, <2>9
  <2> QED BY <1>1, <1>6, <2>7, <2>8, <2>9, MinerStep
<1> QED
  BY <1>3, <1>7, <1>8, <1>9, AssignedStep

LEMMA KeptStep ==
  ASSUME IInv, [Next]_vars
  PROVE  Kept'
<1> USE DEF IInv
<1> SUFFICES ASSUME restarts' = 0, losses' = 0,
                    NEW f \in Fragment, f.win = divided', ~Settled(f.win)'
             PROVE  f \in Known' \cup swept' \cup {auto'}
  BY HandOutStep DEF Kept
<1>1. restarts = 0 /\ losses = 0 /\ ~Restart
  BY HistoryStep
<1>2. f.win # 0 /\ ~CloseWindow
  BY ConstantTypes DEF CloseWindow
<1>3. swept \subseteq swept'
  BY <1>2, HistoryStep
<1>4. CASE divided' = divided
  <2>1. f \in Known \cup swept \cup {auto}
    BY <1>1, <1>4, SettledStep DEF Kept
  <2>2. CASE f \in Known
    BY <1>1, <1>2, <1>3, <1>4, <2>2, KnownKept
  <2>3. CASE f = auto
    BY <1>1, <1>2, <1>4, <2>3, AutoKept, ConstantTypes
  <2> QED BY <1>3, <2>1, <2>2, <2>3
<1>5. CASE DivideWindow /\ divided' = handling.win
  <2>1. f \in Chunks(handling.win)
    BY <1>5 DEF Fragment, Chunks
  <2> QED BY <1>5, <2>1 DEF DivideWindow, Known
<1> QED
  BY <1>1, <1>2, <1>4, <1>5, OpenStep

-----------------------------------------------------------------------------
(* The theorems *)

LEMMA Initially == Init => IInv
<1> SUFFICES ASSUME Init PROVE IInv
  OBVIOUS
<1>1. TypeOK
  BY TypeInitially
<1>2. /\ Known = {} /\ Busy = {} /\ auto = None /\ divided = 0 /\ Len(feed) = 0
      /\ Challenges = {} /\ \A m \in Miner : mid[m] = 0 /\ task[m] = None
  BY DEF Init, Known, Assigned, Busy, Idle, Challenges
<1>3. InOrder
  BY <1>2 DEF Init, InOrder, FeedInOrder, Started
<1>4. Dividing /\ Discarding
  BY DEF Init, Dividing, Discarding, Idle
<1>5. Reporting /\ OneNoncePerThread
  BY <1>2 DEF Init, Reporting, OneNoncePerThread
<1>6. Identities
  BY DEF Init, Identities
<1>7. Kept
  BY <1>2, ConstantTypes DEF Kept, HandOut
<1>8. NoWorkForClosedWindow /\ OneWindowAtATime
  BY <1>2 DEF NoWorkForClosedWindow, OneWindowAtATime
<1> QED
  BY <1>1, <1>3, <1>4, <1>5, <1>6, <1>7, <1>8 DEF IInv

\* Whatever step the pool takes, the inductive invariant goes on holding.
THEOREM Inductive == Spec => []IInv
<1>1. IInv /\ [Next]_vars => IInv'
  BY TypeStep, InOrderStep, DividingStep, DiscardingStep, ReportingStep,
     IdentitiesStep, KeptStep, NoWorkStep, OneWindowStep DEF IInv
<1> QED
  BY Initially, <1>1, PTL DEF Spec

\* Every variable has its type, also with more registrations, windows and
\* restarts than a run can have.
THEOREM TypeCorrect == Spec => []TypeOK
<1>1. IInv => TypeOK
  BY DEF IInv
<1> QED
  BY Inductive, <1>1, PTL

\* No range of the divided window is lost when miners fall, come back late or
\* are purged alive, and the closing notices, the nonces and the lease cross
\* with them: what _purge_stale_miners and _assigned are for.
THEOREM RangesAreCovered == Spec => []RangeCovered
<1>1. IInv => RangeCovered
  BY DEF IInv, Kept, RangeCovered, Covered
<1> QED
  BY Inductive, <1>1, PTL

\* Nothing of a window that was won or closed can be handed out or given back,
\* once _discard_fragments has run.
THEOREM ClosedWindowsAreForgotten == Spec => []NoWorkForClosedWindow
<1>1. IInv => NoWorkForClosedWindow
  BY DEF IInv
<1> QED
  BY Inductive, <1>1, PTL

\* The pool works on one window at a time, although handle_challenge discards
\* the others in one section under the lock and divides in another.
THEOREM WindowsAreNotMixed == Spec => []OneWindowAtATime
<1>1. IInv => OneWindowAtATime
  BY DEF IInv
<1> QED
  BY Inductive, <1>1, PTL

\* Each of the threads that run submit_result sends one nonce of a window,
\* although none of them looks at _solved under the lock.
THEOREM NoncesAreSentOnce == Spec => []OneNoncePerThread
<1>1. IInv => OneNoncePerThread
  BY DEF IInv
<1> QED
  BY Inductive, <1>1, PTL
=============================================================================
