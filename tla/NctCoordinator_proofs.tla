----------------------- MODULE NctCoordinator_proofs -----------------------
(***************************************************************************)
(* What NctCoordinator keeps whatever crashes, Redis errors and second     *)
(* leaders do, for every number of processes, laws and windows.            *)
(*                                                                         *)
(* The inductive invariant says of every command a process has still to    *)
(* send that it is justified: a command about a window names one that was  *)
(* saved, a status that says "in force" has its block, and so on.  Windows *)
(* and blocks are never removed, so a justified command stays justified.   *)
(***************************************************************************)
EXTENDS NctCoordinator, TLAPS

-----------------------------------------------------------------------------
(* The inductive invariant *)

Saved(w) == w \in Window /\ window[w].law \in Law

\* The commands that name a law, and those that name a window.
LawCommand ==
  {"save_law", "set_law_status", "set_law_action", "enqueue_law",
   "remove_from_queue", "open_window", "requeue_if", "save_window",
   "save_deliberation", "hold"}
WindowCommand ==
  {"set_active_window", "publish_challenge", "try_seal_window",
   "release_window_seal", "append_block", "set_window_result"}

Justified(c) ==
  /\ c.do \in LawCommand => c.law \in Law
  /\ c.do \in WindowCommand => Saved(c.win)
  /\ c.do \in {"set_law_status", "requeue_if"} => c.arg \in Status
  /\ c.do = "set_window_result" => c.arg \in Result \ {"open"}
  /\ c.do = "save_window" => c.arg \in Action
  /\ c.do = "set_law_status" =>
       /\ c.arg = "promulgated" => SealedAs(c.law, "promulgacion")
       /\ c.arg = "repealed" => SealedAs(c.law, "derogacion")
  /\ c.do = "set_window_result" /\ c.arg = "success" =>
       \E b \in Blocks : b.win = c.win

JustifiedCommand == {c \in Command : Justified(c)}
\* A window is saved by the first command of what is left to do, or not at all.
LaterCommand == {c \in JustifiedCommand : c.do # "save_window"}

TodoOK ==
  \A n \in Nct : /\ todo[n] \in Seq(JustifiedCommand)
                 /\ todo[n] # <<>> => Tail(todo[n]) \in Seq(LaterCommand)

\* A process about to save a window is the only one to have its number.
Numbering ==
  /\ \A w \in Window : Saved(w) => w <= counter
  /\ \A n \in Nct : At(n, "save_window") =>
       Cmd(n).win \in Window /\ Cmd(n).win <= counter /\ ~Saved(Cmd(n).win)
  /\ \A m, n \in Nct :
       m # n /\ At(m, "save_window") /\ At(n, "save_window") =>
         Cmd(m).win # Cmd(n).win

PointersSaved ==
  /\ pointer # 0 => Saved(pointer)
  /\ \A n \in Nct : active[n] # 0 => Saved(active[n])

BlocksSaved == \A b \in Blocks : Saved(b.win)

IInv ==
  /\ TypeOK /\ TodoOK /\ Numbering /\ PointersSaved /\ BlocksSaved
  /\ ChainLinked /\ VerdictIsInChain /\ BlockMatchesWindow

-----------------------------------------------------------------------------
(* Commands and scripts *)

\* The commands that name nothing are always justified.
LEMMA DoLater ==
  ASSUME NEW name \in (StoreCommand \cup MethodCommand)
                        \ (LawCommand \cup WindowCommand)
  PROVE  Do(name) \in LaterCommand
BY ConstantsAssumption
   DEF Do, Command4, Command, LaterCommand, JustifiedCommand, Justified,
       StoreCommand, MethodCommand, LawCommand, WindowCommand, Status

\* A command that names a law, and sets no status, only needs the law.
LEMMA OnLawLater ==
  ASSUME NEW name \in LawCommand \ {"save_window", "requeue_if",
                                    "set_law_status"},
         NEW l \in Law
  PROVE  OnLaw(name, l) \in LaterCommand
BY ConstantsAssumption
   DEF OnLaw, Command4, Command, LaterCommand, JustifiedCommand, Justified,
       StoreCommand, MethodCommand, LawCommand, WindowCommand, Status

\* A command that names a window, and sets no result, only needs it saved.
LEMMA OnWindowLater ==
  ASSUME NEW name \in WindowCommand \ {"set_window_result"},
         NEW w, Saved(w)
  PROVE  OnWindow(name, w) \in LaterCommand
BY ConstantsAssumption
   DEF OnWindow, Command4, Command, LaterCommand, JustifiedCommand, Justified,
       StoreCommand, MethodCommand, LawCommand, WindowCommand, Status, Saved,
       Window

\* A status needs a block only when it is a verdict.
LEMMA SetStatusLater ==
  ASSUME NEW l \in Law, NEW s \in Status,
         s = "promulgated" => SealedAs(l, "promulgacion"),
         s = "repealed" => SealedAs(l, "derogacion")
  PROVE  SetStatus(l, s) \in LaterCommand
BY ConstantsAssumption
   DEF SetStatus, Command4, Command, LaterCommand, JustifiedCommand,
       Justified, StoreCommand, MethodCommand, LawCommand, WindowCommand

\* A result needs a block only when it is success.
LEMMA SetResultLater ==
  ASSUME NEW w, Saved(w), NEW r \in Result \ {"open"},
         r = "success" => \E b \in Blocks : b.win = w
  PROVE  SetResult(w, r) \in LaterCommand
BY ConstantsAssumption
   DEF SetResult, Command4, Command, LaterCommand, JustifiedCommand,
       Justified, StoreCommand, MethodCommand, LawCommand, WindowCommand,
       Saved, Window

\* requeue_if only needs the law and the status it compares with.
LEMMA RequeueIfLater ==
  ASSUME NEW l \in Law, NEW s \in Status
  PROVE  RequeueIf(l, s) \in LaterCommand
BY ConstantsAssumption
   DEF RequeueIf, Command4, Command, LaterCommand, JustifiedCommand,
       Justified, StoreCommand, MethodCommand, LawCommand, WindowCommand

\* The scripts that name nothing or a law.
LEMMA LawScripts ==
  /\ Tick \in Seq(LaterCommand)
  /\ Takeover \in Seq(LaterCommand)
  /\ <<Do("clear_active_window")>> \in Seq(LaterCommand)
  /\ <<Do("clear_deliberation")>> \in Seq(LaterCommand)
  /\ <<Do("maybe_open_window"), Do("ack")>> \in Seq(LaterCommand)
  /\ \A l \in Law :
       /\ Requeue(l) \in Seq(LaterCommand)
       /\ StartDeliberation(l) \in Seq(LaterCommand)
       /\ ResolveOpen(l) \in Seq(LaterCommand)
       /\ ResolveDiscard(l) \in Seq(LaterCommand)
       /\ ResolveRequeue(l) \in Seq(LaterCommand)
       /\ EnqueuePromulgacion(l) \in Seq(LaterCommand)
       /\ EnqueueDerogacion(l) \in Seq(LaterCommand)
       /\ <<OnLaw("open_window", l)>> \in Seq(LaterCommand)
       /\ \A s \in Status :
            /\ <<Do("clear_active_window"), RequeueIf(l, s)>>
                 \in Seq(LaterCommand)
            /\ <<Do("clear_deliberation"), RequeueIf(l, s)>>
                 \in Seq(LaterCommand)
<1>1. \A name \in {"check_deliberation", "check_deadline",
                   "maybe_open_window", "renew_leadership", "set_cooldown",
                   "retomar_ventana", "recuperar_deliberacion", "ack",
                   "clear_active_window", "clear_deliberation"} :
        Do(name) \in LaterCommand
  BY DoLater DEF StoreCommand, MethodCommand, LawCommand, WindowCommand
<1>2. \A name \in {"save_law", "set_law_action", "enqueue_law", "open_window",
                   "remove_from_queue", "save_deliberation", "hold"},
         l \in Law : OnLaw(name, l) \in LaterCommand
  BY OnLawLater DEF LawCommand
<1>3. \A l \in Law : /\ SetStatus(l, "pending_queue") \in LaterCommand
                     /\ SetStatus(l, "in_deliberation") \in LaterCommand
                     /\ SetStatus(l, "discarded") \in LaterCommand
  BY SetStatusLater DEF Status
<1>4. \A l \in Law : Requeue(l) \in Seq(LaterCommand)
  BY <1>2, <1>3 DEF Requeue
<1>5. \A l \in Law : ResolveRequeue(l) \in Seq(LaterCommand)
  <2> SUFFICES ASSUME NEW l \in Law
               PROVE  ResolveRequeue(l) \in Seq(LaterCommand)
    OBVIOUS
  <2>1. /\ <<Do("clear_deliberation")>> \in Seq(LaterCommand)
        /\ <<Do("maybe_open_window")>> \in Seq(LaterCommand)
    BY <1>1
  <2> QED BY <2>1, <1>4 DEF ResolveRequeue
<1>6. Tick \in Seq(LaterCommand) /\ Takeover \in Seq(LaterCommand)
  BY <1>1 DEF Tick, Takeover
<1>7. \A l \in Law : /\ StartDeliberation(l) \in Seq(LaterCommand)
                     /\ ResolveOpen(l) \in Seq(LaterCommand)
                     /\ ResolveDiscard(l) \in Seq(LaterCommand)
  BY <1>1, <1>2, <1>3 DEF StartDeliberation, ResolveOpen, ResolveDiscard
<1>8. \A l \in Law : /\ EnqueuePromulgacion(l) \in Seq(LaterCommand)
                     /\ EnqueueDerogacion(l) \in Seq(LaterCommand)
  BY <1>1, <1>2 DEF EnqueuePromulgacion, EnqueueDerogacion
<1>9. \A l \in Law, s \in Status : RequeueIf(l, s) \in LaterCommand
  BY RequeueIfLater
<1> QED BY <1>1, <1>2, <1>4, <1>5, <1>6, <1>7, <1>8, <1>9

\* The scripts that name a window that was saved.
LEMMA WindowScripts ==
  ASSUME NEW w, Saved(w)
  PROVE  /\ CloseExpired(w) \in Seq(LaterCommand)
         /\ CloseWithoutQuorum(w) \in Seq(LaterCommand)
         /\ CloseInterrupted(w) \in Seq(LaterCommand)
         /\ OpenWindow(w, window[w].law) \in Seq(LaterCommand)
         /\ Seal(w) \in Seq(LaterCommand)
         /\ <<OnWindow("try_seal_window", w)>> \in Seq(LaterCommand)
         /\ <<OnWindow("release_window_seal", w)>> \in Seq(LaterCommand)
<1> DEFINE l == window[w].law
<1>1. l \in Law BY DEF Saved
<1>2. /\ Do("clear_active_window") \in LaterCommand
      /\ Do("maybe_open_window") \in LaterCommand
      /\ Do("last_block_hash") \in LaterCommand
  BY DoLater DEF StoreCommand, MethodCommand, LawCommand, WindowCommand
<1>3. /\ SetResult(w, "expired_pending") \in LaterCommand
      /\ SetResult(w, "expired_no_quorum") \in LaterCommand
  BY SetResultLater DEF Result
<1>4. /\ SetStatus(l, "discarded") \in LaterCommand
      /\ SetStatus(l, "in_window") \in LaterCommand
      /\ OnLaw("remove_from_queue", l) \in LaterCommand
  BY <1>1, SetStatusLater, OnLawLater DEF Status, LawCommand
<1>5. /\ OnWindow("set_active_window", w) \in LaterCommand
      /\ OnWindow("publish_challenge", w) \in LaterCommand
      /\ OnWindow("append_block", w) \in LaterCommand
      /\ OnWindow("try_seal_window", w) \in LaterCommand
      /\ OnWindow("release_window_seal", w) \in LaterCommand
  BY OnWindowLater DEF WindowCommand
<1>6. Requeue(l) \in Seq(LaterCommand) BY <1>1, LawScripts
<1>7. /\ <<Do("clear_active_window"), Do("maybe_open_window")>>
           \in Seq(LaterCommand)
      /\ <<SetResult(w, "expired_no_quorum")>> \in Seq(LaterCommand)
  BY <1>2, <1>3
<1>8. CloseExpired(w) \in Seq(LaterCommand)
  BY <1>2, <1>3, <1>4 DEF CloseExpired
<1>9. /\ CloseWithoutQuorum(w) \in Seq(LaterCommand)
      /\ CloseInterrupted(w) \in Seq(LaterCommand)
  BY <1>6, <1>7 DEF CloseWithoutQuorum, CloseInterrupted
<1>10. OpenWindow(w, l) \in Seq(LaterCommand)
  BY <1>4, <1>5 DEF OpenWindow
<1>11. Seal(w) \in Seq(LaterCommand)
  BY <1>2, <1>5 DEF Seal
<1> QED BY <1>5, <1>8, <1>9, <1>10, <1>11

\* What follows a block that is in the chain.
LEMMA SealedScript ==
  ASSUME NEW w, Saved(w), window[w].action \in Action,
         \E b \in Blocks : b.win = w /\ b.law = window[w].law
                                     /\ b.action = window[w].action
  PROVE  CloseSealed(w) \in Seq(LaterCommand)
<1>1. SetResult(w, "success") \in LaterCommand
  BY SetResultLater DEF Result
<1>2. window[w].law \in Law BY DEF Saved
<1>3. SealedAs(window[w].law, window[w].action)
  BY DEF SealedAs
<1>4. SetStatus(window[w].law, Verdict(w)) \in LaterCommand
  BY <1>2, <1>3, SetStatusLater DEF Verdict, Status, Action
<1>5. Do("clear_active_window") \in LaterCommand
  BY DoLater DEF StoreCommand, MethodCommand, LawCommand, WindowCommand
<1> QED BY <1>1, <1>4, <1>5 DEF CloseSealed

-----------------------------------------------------------------------------
(* What a step may do to the commands left *)

\* Process n is left with commands that save no window.
TodoLater(n) == \E t \in Seq(LaterCommand) : todo' = [todo EXCEPT ![n] = t]
OneTodoLater == (\E n \in Nct : TodoLater(n)) \/ UNCHANGED todo

\* The head of what is left is justified, and the rest saves no window.
LEMMA HeadJustified ==
  ASSUME TodoOK, NEW n \in Nct, NEW name, At(n, name)
  PROVE  /\ Cmd(n) \in Command /\ Justified(Cmd(n)) /\ Cmd(n).do = name
         /\ todo[n] # <<>> /\ Tail(todo[n]) \in Seq(LaterCommand)
<1>1. todo[n] \in Seq(JustifiedCommand) /\ todo[n] # <<>>
      /\ Tail(todo[n]) \in Seq(LaterCommand)
  BY DEF TodoOK, At
<1>2. Head(todo[n]) \in JustifiedCommand BY <1>1
<1> QED BY <1>1, <1>2 DEF At, Cmd, JustifiedCommand

\* Nothing left to do: after a crash, or an error in a handler.
LEMMA EmptyLater == <<>> \in Seq(LaterCommand)
OBVIOUS

\* What is left after a command saves no window.
LEMMA DoneLater ==
  ASSUME TodoOK, NEW n \in Nct, NEW name, At(n, name), Done(n)
  PROVE  TodoLater(n)
BY HeadJustified DEF Done, TodoLater

\* Nor does what is left after a command replaced by a script that saves none.
LEMMA ExpandLater ==
  ASSUME TodoOK, NEW n \in Nct, NEW name, At(n, name),
         NEW s \in Seq(LaterCommand), Expand(n, s)
  PROVE  TodoLater(n)
<1>1. s \o Tail(todo[n]) \in Seq(LaterCommand) BY HeadJustified
<1> QED BY <1>1 DEF Expand, TodoLater

\* A handler that starts saves no window first.
LEMMA StartLater ==
  ASSUME NEW n, NEW c, NEW s \in Seq(LaterCommand), Start(n, c, s)
  PROVE  TodoLater(n)
BY DEF Start, TodoLater

\* Later commands are commands.
LEMMA TodoTyped ==
  ASSUME TypeOK, OneTodoLater
  PROVE  todo' \in [Nct -> Seq(Command)]
<1>1. LaterCommand \subseteq Command BY DEF LaterCommand, JustifiedCommand
<1>2. Seq(LaterCommand) \subseteq Seq(Command) BY <1>1
<1> QED BY <1>2 DEF OneTodoLater, TodoLater, TypeOK

\* A justified command stays justified while windows stay saved and blocks
\* stay in the chain.
LEMMA CommandsGrow ==
  ASSUME \A w : Saved(w) => Saved(w)', Blocks \subseteq Blocks'
  PROVE  /\ JustifiedCommand \subseteq JustifiedCommand'
         /\ LaterCommand \subseteq LaterCommand'
<1>1. \A l, a : SealedAs(l, a) => SealedAs(l, a)' BY DEF SealedAs
<1>2. \A c : Justified(c) => Justified(c)' BY <1>1 DEF Justified
<1> QED BY <1>2 DEF JustifiedCommand, LaterCommand

\* TodoOK and Numbering survive a step that leaves one process with later
\* commands, saves no window and takes no number back.
LEMMA TodoStep ==
  ASSUME TypeOK, TodoOK, Numbering,
         NEW n \in Nct,
         NEW t, t \in Seq(LaterCommand'), todo' = [todo EXCEPT ![n] = t],
         \A w : Saved(w) <=> Saved(w)', Blocks \subseteq Blocks',
         UNCHANGED counter
  PROVE  TodoOK' /\ Numbering'
<1>1. /\ JustifiedCommand \subseteq JustifiedCommand'
      /\ LaterCommand \subseteq LaterCommand'
  BY CommandsGrow
<1>2. /\ Seq(JustifiedCommand) \subseteq Seq(JustifiedCommand')
      /\ Seq(LaterCommand) \subseteq Seq(LaterCommand')
  BY <1>1
<1>3. LaterCommand' \subseteq JustifiedCommand' BY DEF LaterCommand
<1>4. todo'[n] = t /\ \A m \in Nct : m # n => todo'[m] = todo[m]
  BY DEF TypeOK
<1>5. t \in Seq(JustifiedCommand')
  <2>1. Seq(LaterCommand') \subseteq Seq(JustifiedCommand') BY <1>3
  <2> QED BY <2>1
<1>6. t # <<>> => Tail(t) \in Seq(LaterCommand') /\ Head(t) \in LaterCommand'
  OBVIOUS
<1>7. TodoOK'
  BY <1>2, <1>4, <1>5, <1>6 DEF TodoOK
<1>8. ~At(n, "save_window")'
  BY <1>4, <1>6 DEF At, LaterCommand
<1>9. \A m \in Nct : At(m, "save_window")' =>
        m # n /\ At(m, "save_window") /\ Cmd(m)' = Cmd(m)
  BY <1>4, <1>8 DEF At, Cmd
<1>10. Numbering'
  BY <1>9 DEF Numbering
<1> QED BY <1>7, <1>10

\* TodoOK and Numbering only depend on the commands, windows and blocks.
LEMMA TodoSame ==
  ASSUME TodoOK, Numbering, UNCHANGED <<todo, window, chain, counter>>
  PROVE  TodoOK' /\ Numbering'
<1>1. \A w : Saved(w) <=> Saved(w)' BY DEF Saved
<1>2. Blocks = Blocks' BY DEF Blocks
<1>3. JustifiedCommand = JustifiedCommand' /\ LaterCommand = LaterCommand'
  <2>1. \A l, a : SealedAs(l, a) <=> SealedAs(l, a)' BY <1>2 DEF SealedAs
  <2>2. \A c : Justified(c) <=> Justified(c)'
    BY <1>1, <1>2, <2>1 DEF Justified
  <2> QED BY <2>2 DEF JustifiedCommand, LaterCommand
<1>4. TodoOK' BY <1>3 DEF TodoOK
<1>5. Numbering' BY <1>1 DEF Numbering, At, Cmd
<1> QED BY <1>4, <1>5

\* Most steps leave the windows and the chain alone: what they still have to
\* show is the types, the pointers and the verdicts.
LEMMA QuietStep ==
  ASSUME IInv, OneTodoLater,
         UNCHANGED <<window, chain, counter>>,
         TypeOK', PointersSaved', VerdictIsInChain'
  PROVE  IInv'
<1>1. \A w : Saved(w) <=> Saved(w)' BY DEF Saved
<1>2. Blocks = Blocks' BY DEF Blocks
<1>3. TodoOK' /\ Numbering'
  <2>1. CASE UNCHANGED todo BY <2>1, TodoSame DEF IInv
  <2>2. ASSUME NEW n \in Nct, TodoLater(n)
        PROVE  TodoOK' /\ Numbering'
    <3>1. PICK t \in Seq(LaterCommand) : todo' = [todo EXCEPT ![n] = t]
      BY <2>2 DEF TodoLater
    <3>2. LaterCommand \subseteq LaterCommand'
      BY <1>1, <1>2, CommandsGrow
    <3>3. t \in Seq(LaterCommand')
      <4>1. Seq(LaterCommand) \subseteq Seq(LaterCommand') BY <3>2
      <4> QED BY <4>1
    <3> QED BY <1>1, <1>2, <2>2, <3>1, <3>3, TodoStep DEF IInv
  <2> QED BY <2>1, <2>2 DEF OneTodoLater
<1>4. BlocksSaved' BY <1>1, <1>2 DEF IInv, BlocksSaved
<1>5. ChainLinked' BY DEF IInv, ChainLinked
<1>6. BlockMatchesWindow' BY <1>2 DEF IInv, BlockMatchesWindow
<1> QED BY <1>3, <1>4, <1>5, <1>6 DEF IInv

\* And most of those leave the pointers and the statuses alone too.
LEMMA CalmStep ==
  ASSUME IInv, OneTodoLater,
         UNCHANGED <<window, chain, counter, pointer, active, status>>,
         TypeOK'
  PROVE  IInv'
<1>1. PointersSaved' BY DEF IInv, PointersSaved, Saved
<1>2. VerdictIsInChain' BY DEF IInv, VerdictIsInChain, SealedAs, Blocks
<1> QED BY <1>1, <1>2, QuietStep

-----------------------------------------------------------------------------
(* The steps of the role and of the environment *)

\* Time, the TTL of the lease and a boot leave the commands alone.
LEMMA EnvironmentStep ==
  ASSUME IInv,
         \/ LeaseExpires
         \/ \E w \in Window : DeadlinePasses(w)
         \/ \E l \in Law : PauseEnds(l)
         \/ \E n \in Nct : Boot(n)
  PROVE  IInv'
<1> USE DEF redisVars, lawVars, windowVars, memory, handlerVars
<1>1. CASE LeaseExpires
  <2>1. OneTodoLater BY <1>1 DEF LeaseExpires, OneTodoLater
  <2>2. TypeOK' BY <1>1, <2>1, TodoTyped, SMTT(30) DEF LeaseExpires, IInv, TypeOK
  <2> QED BY <1>1, <2>1, <2>2, CalmStep DEF LeaseExpires
<1>2. ASSUME NEW w \in Window, DeadlinePasses(w) PROVE IInv'
  <2>1. OneTodoLater BY <1>2 DEF DeadlinePasses, OneTodoLater
  <2>2. TypeOK' BY <1>2, <2>1, TodoTyped DEF DeadlinePasses, IInv, TypeOK
  <2> QED BY <1>2, <2>1, <2>2, CalmStep DEF DeadlinePasses
<1>3. ASSUME NEW l \in Law, PauseEnds(l) PROVE IInv'
  <2>1. OneTodoLater BY <1>3 DEF PauseEnds, OneTodoLater
  <2>2. TypeOK' BY <1>3, <2>1, TodoTyped DEF PauseEnds, IInv, TypeOK
  <2> QED BY <1>3, <2>1, <2>2, CalmStep DEF PauseEnds
<1>4. ASSUME NEW n \in Nct, Boot(n) PROVE IInv'
  <2>1. OneTodoLater BY <1>4 DEF Boot, OneTodoLater
  <2>2. TypeOK' BY <1>4, <2>1, TodoTyped DEF Boot, IInv, TypeOK
  <2> QED BY <1>4, <2>1, <2>2, CalmStep DEF Boot
<1> QED BY <1>1, <1>2, <1>3, <1>4

\* Taking the role, stepping down and dying keep the invariant: what is lost
\* is memory, never a window or a block.
LEMMA RoleStep ==
  ASSUME IInv, NEW n \in Nct,
         \/ BecomeLeader(n) \/ TickStarts(n) \/ RenewLeadership(n)
         \/ Crash(n) \/ HandlerError(n)
  PROVE  IInv'
<1> USE DEF redisVars, lawVars, windowVars, memory, handlerVars, envVars
<1>0. IInv => TypeOK /\ TodoOK /\ PointersSaved BY DEF IInv
<1>zero. 0 \in 0..MaxWindows BY ConstantsAssumption
<1>1. CASE BecomeLeader(n)
  <2>1. OneTodoLater
    BY <1>1, LawScripts, StartLater DEF BecomeLeader, OneTodoLater
  <2>2. TypeOK'
    BY <1>0, <1>1, <2>1, TodoTyped DEF BecomeLeader, Start, TypeOK
  <2> QED BY <1>1, <2>1, <2>2, CalmStep DEF BecomeLeader
<1>2. CASE TickStarts(n)
  <2>1. OneTodoLater
    BY <1>2, LawScripts, StartLater DEF TickStarts, OneTodoLater
  <2>2. TypeOK' BY <1>0, <1>2, <2>1, TodoTyped DEF TickStarts, Start, TypeOK
  <2> QED BY <1>2, <2>1, <2>2, CalmStep DEF TickStarts
<1>3. CASE RenewLeadership(n)
  <2>1. OneTodoLater
    BY <1>0, <1>3, DoneLater DEF RenewLeadership, OneTodoLater
  <2>2. TypeOK'
    <3>1. leader' \in [Nct -> BOOLEAN]
      BY <1>0, <1>3 DEF RenewLeadership, TypeOK
    <3>2. active' \in [Nct -> 0..MaxWindows]
      <4>1. CASE UNCHANGED memory BY <1>0, <4>1 DEF TypeOK
      <4>2. CASE active' = [active EXCEPT ![n] = 0]
        BY <1>0, <1>zero, <4>2 DEF TypeOK
      <4> QED BY <1>3, <4>1, <4>2 DEF RenewLeadership
    <3>3. held' \in [Nct -> Law \cup {NoLaw}]
      BY <1>0, <1>3 DEF RenewLeadership, TypeOK
    <3> QED BY <1>0, <1>3, <2>1, <3>1, <3>2, <3>3, TodoTyped DEF RenewLeadership, TypeOK
  <2>3. PointersSaved'
    BY <1>0, <1>3 DEF RenewLeadership, PointersSaved, Saved, TypeOK
  <2>4. VerdictIsInChain'
    BY <1>3 DEF RenewLeadership, IInv, VerdictIsInChain, SealedAs, Blocks
  <2> QED BY <1>3, <2>1, <2>2, <2>3, <2>4, QuietStep DEF RenewLeadership
<1>4. CASE Crash(n)
  <2>1. OneTodoLater
    BY <1>4, EmptyLater DEF Crash, OneTodoLater, TodoLater
  <2>2. TypeOK'
    <3>1. /\ leader' \in [Nct -> BOOLEAN] /\ active' \in [Nct -> 0..MaxWindows]
          /\ held' \in [Nct -> Law \cup {NoLaw}]
      BY <1>0, <1>4, ConstantsAssumption, SMTT(30) DEF Crash, TypeOK
    <3>2. /\ up' \in [Nct -> BOOLEAN]
          /\ hand' \in [Nct -> Proposals \cup {NoMsg}]
      BY <1>0, <1>4 DEF Crash, TypeOK
    <3>3. todo' \in [Nct -> Seq(Command)] BY <1>0, <2>1, TodoTyped
    <3>4. crashes' \in Nat BY <1>0, <1>4 DEF Crash, TypeOK
    <3>5. UNCHANGED <<redisVars, ctx, tip, inbox, overdue, ripe, overlaps,
                      errors>>
      BY <1>4 DEF Crash
    <3> QED BY <1>0, <3>1, <3>2, <3>3, <3>4, <3>5 DEF TypeOK
  <2>3. PointersSaved'
    BY <1>0, <1>4 DEF Crash, PointersSaved, Saved, TypeOK
  <2>4. VerdictIsInChain'
    BY <1>4 DEF Crash, IInv, VerdictIsInChain, SealedAs, Blocks
  <2> QED BY <1>4, <2>1, <2>2, <2>3, <2>4, QuietStep DEF Crash
<1>5. CASE HandlerError(n)
  <2>1. OneTodoLater
    BY <1>5, EmptyLater DEF HandlerError, OneTodoLater, TodoLater
  <2>2. TypeOK'
    <3>1. /\ inbox' \subseteq Proposals /\ errors' \in Nat
          /\ hand' \in [Nct -> Proposals \cup {NoMsg}]
      BY <1>0, <1>5 DEF HandlerError, TypeOK
    <3> QED BY <1>0, <1>5, <2>1, <3>1, TodoTyped DEF HandlerError, TypeOK
  <2> QED BY <1>5, <2>1, <2>2, CalmStep DEF HandlerError
<1> QED BY <1>1, <1>2, <1>3, <1>4, <1>5

-----------------------------------------------------------------------------
(* The message handlers and the methods that decide by what they read *)

\* The handlers start with commands about a known law or a saved window.
LEMMA HandlerStep ==
  ASSUME IInv, NEW n \in Nct, HandleProposal(n) \/ HandleNonceResponse(n)
  PROVE  IInv'
<1> USE DEF redisVars, lawVars, windowVars, memory, handlerVars, envVars
<1>0. TypeOK /\ PointersSaved BY DEF IInv
<1>1. CASE HandleProposal(n)
  <2>1. PICK m \in inbox :
          \/ inbox' = inbox \ {m} /\ UNCHANGED <<todo, ctx, hand>>
          \/ /\ hand' = [hand EXCEPT ![n] = m] /\ UNCHANGED inbox
             /\ \/ Start(n, "handler", EnqueuePromulgacion(m.law))
                \/ Start(n, "handler", EnqueueDerogacion(m.law))
                \/ Start(n, "handler", <<Do("maybe_open_window"), Do("ack")>>)
    BY <1>1 DEF HandleProposal
  <2>2. m \in Proposals /\ m.law \in Law
    BY <1>0, ConstantsAssumption DEF TypeOK, Proposal
  <2>3. /\ EnqueuePromulgacion(m.law) \in Seq(LaterCommand)
        /\ EnqueueDerogacion(m.law) \in Seq(LaterCommand)
        /\ <<Do("maybe_open_window"), Do("ack")>> \in Seq(LaterCommand)
    BY <2>2, LawScripts
  <2>4. OneTodoLater BY <2>1, <2>3, StartLater DEF OneTodoLater
  <2>5. TypeOK'
    <3>1. todo' \in [Nct -> Seq(Command)] BY <1>0, <2>4, TodoTyped
    <3>2. ctx' \in [Nct -> {"handler", "tick"}]
      BY <1>0, <2>1 DEF TypeOK, Start
    <3>3. /\ hand' \in [Nct -> Proposals \cup {NoMsg}]
          /\ inbox' \subseteq Proposals
      BY <1>0, <2>1, <2>2 DEF TypeOK
    <3>4. UNCHANGED <<redisVars, memory, tip, up, overdue, ripe, crashes,
                      overlaps, errors>>
      BY <1>1 DEF HandleProposal
    <3> QED BY <1>0, <3>1, <3>2, <3>3, <3>4 DEF TypeOK
  <2> QED BY <1>1, <2>4, <2>5, CalmStep DEF HandleProposal
<1>2. CASE HandleNonceResponse(n)
  <2>1. Saved(active[n])
    BY <1>0, <1>2 DEF HandleNonceResponse, PointersSaved, TypeOK, Window
  <2>2. OneTodoLater
    BY <1>2, <2>1, WindowScripts, StartLater
       DEF HandleNonceResponse, OneTodoLater
  <2>3. TypeOK'
    <3>1. todo' \in [Nct -> Seq(Command)] BY <1>0, <2>2, TodoTyped
    <3>2. ctx' \in [Nct -> {"handler", "tick"}]
      BY <1>0, <1>2 DEF TypeOK, HandleNonceResponse, Start
    <3>3. UNCHANGED <<redisVars, memory, hand, tip, envVars>>
      BY <1>2 DEF HandleNonceResponse
    <3> QED BY <1>0, <3>1, <3>2, <3>3 DEF TypeOK
  <2> QED BY <1>2, <2>2, <2>3, CalmStep DEF HandleNonceResponse
<1> QED BY <1>1, <1>2

\* The methods that only replace themselves by what they decide to do.
Decides(n) ==
  \/ MaybeOpenWindow(n) \/ CheckDeliberation(n) \/ CheckDeadline(n)
  \/ RetomarVentanaFails(n) \/ RecuperarDeliberacion(n)
  \/ RecuperarDeliberacionFails(n) \/ RequeueIfStatus(n)

\* What these methods decide to do saves no window.
LEMMA DecisionLater ==
  ASSUME IInv, NEW n \in Nct, Decides(n)
  PROVE  OneTodoLater
<1>0. TypeOK /\ TodoOK /\ PointersSaved BY DEF IInv
<1> SUFFICES TodoLater(n) BY DEF OneTodoLater
<1>1. CASE MaybeOpenWindow(n)
  <2>1. At(n, "maybe_open_window") BY <1>1 DEF MaybeOpenWindow
  <2>2. CASE Done(n) BY <1>0, <2>1, <2>2, DoneLater
  <2>3. ASSUME NEW l \in queue,
               Expand(n, IF Deliberates THEN StartDeliberation(l)
                         ELSE <<OnLaw("open_window", l)>>)
        PROVE  TodoLater(n)
    <3>1. l \in Law BY <1>0 DEF TypeOK
    <3>2. (IF Deliberates THEN StartDeliberation(l)
           ELSE <<OnLaw("open_window", l)>>) \in Seq(LaterCommand)
      BY <3>1, LawScripts
    <3> QED BY <1>0, <2>1, <2>3, <3>2, ExpandLater
  <2> QED BY <1>1, <2>2, <2>3 DEF MaybeOpenWindow
<1>2. CASE CheckDeliberation(n)
  <2> DEFINE l == held[n]
  <2>1. At(n, "check_deliberation") BY <1>2 DEF CheckDeliberation
  <2>2. CASE Done(n) BY <1>0, <2>1, <2>2, DoneLater
  <2>3. CASE /\ l \in ripe
             /\ \/ Expand(n, ResolveOpen(l)) \/ Expand(n, ResolveDiscard(l))
                \/ Expand(n, ResolveRequeue(l))
    <3>1. l \in Law BY <1>0, <2>3 DEF TypeOK
    <3>2. /\ ResolveOpen(l) \in Seq(LaterCommand)
          /\ ResolveDiscard(l) \in Seq(LaterCommand)
          /\ ResolveRequeue(l) \in Seq(LaterCommand)
      BY <3>1, LawScripts
    <3> QED BY <1>0, <2>1, <2>3, <3>2, ExpandLater
  <2> QED BY <1>2, <2>2, <2>3 DEF CheckDeliberation
<1>3. CASE CheckDeadline(n)
  <2> DEFINE w == active[n]
  <2>1. At(n, "check_deadline") BY <1>3 DEF CheckDeadline
  <2>2. CASE Done(n) BY <1>0, <2>1, <2>2, DoneLater
  <2>3. CASE /\ w \in overdue
             /\ Expand(n, CloseExpired(w)) \/ Expand(n, CloseWithoutQuorum(w))
    <3>1. Saved(w) BY <1>0, <2>3 DEF TypeOK, PointersSaved, Window
    <3>2. /\ CloseExpired(w) \in Seq(LaterCommand)
          /\ CloseWithoutQuorum(w) \in Seq(LaterCommand)
      BY <3>1, WindowScripts
    <3> QED BY <1>0, <2>1, <2>3, <3>2, ExpandLater
  <2> QED BY <1>3, <2>2, <2>3 DEF CheckDeadline
<1>4. CASE RetomarVentanaFails(n)
  <2>1. At(n, "retomar_ventana") BY <1>4 DEF RetomarVentanaFails
  <2>2. CASE Done(n) BY <1>0, <2>1, <2>2, DoneLater
  <2>3. CASE Expand(n, <<Do("clear_active_window")>>)
    BY <1>0, <2>1, <2>3, LawScripts, ExpandLater
  <2>4. ASSUME pointer # 0 PROVE GiveBack(pointer) \in Seq(LaterCommand)
    <3>1. window[pointer].law \in Law
      BY <1>0, <2>4 DEF PointersSaved, Saved
    <3> QED BY <3>1, LawScripts DEF GiveBack, Status
  <2>5. CASE pointer # 0 /\ Expand(n, GiveBack(pointer))
    BY <1>0, <2>1, <2>4, <2>5, ExpandLater
  <2>6. CASE /\ pointer # 0 /\ LastBlockOf(pointer)
             /\ Expand(n, <<SetResult(pointer, "success")>>
                             \o GiveBack(pointer))
    <3>1. Saved(pointer) BY <1>0, <2>6 DEF PointersSaved
    <3>2. \E b \in Blocks : b.win = pointer
      BY <1>0, <2>6 DEF LastBlockOf, Blocks, TypeOK
    <3>3. SetResult(pointer, "success") \in LaterCommand
      BY <3>1, <3>2, SetResultLater DEF Result
    <3>4. <<SetResult(pointer, "success")>> \in Seq(LaterCommand) BY <3>3
    <3>5. <<SetResult(pointer, "success")>> \o GiveBack(pointer)
            \in Seq(LaterCommand)
      BY <2>4, <2>6, <3>4
    <3> QED BY <1>0, <2>1, <2>6, <3>5, ExpandLater
  <2> QED BY <1>4, <2>2, <2>3, <2>5, <2>6 DEF RetomarVentanaFails
<1>5. CASE RecuperarDeliberacion(n)
  <2>1. At(n, "recuperar_deliberacion") BY <1>5 DEF RecuperarDeliberacion
  <2>2. CASE Done(n) BY <1>0, <2>1, <2>2, DoneLater
  <2>3. CASE /\ delib # NoLaw
             /\ Expand(n, <<Do("clear_deliberation"),
                            RequeueIf(delib, "in_deliberation")>>)
    <3>1. delib \in Law BY <1>0, <2>3 DEF TypeOK
    <3>2. <<Do("clear_deliberation"), RequeueIf(delib, "in_deliberation")>>
            \in Seq(LaterCommand)
      BY <3>1, LawScripts DEF Status
    <3> QED BY <1>0, <2>1, <2>3, <3>2, ExpandLater
  <2> QED BY <1>5, <2>2, <2>3 DEF RecuperarDeliberacion
<1>6. CASE RecuperarDeliberacionFails(n)
  <2>1. At(n, "recuperar_deliberacion") BY <1>6 DEF RecuperarDeliberacionFails
  <2>2. CASE Done(n) BY <1>0, <2>1, <2>2, DoneLater
  <2>3. CASE Expand(n, <<Do("clear_deliberation")>>)
    BY <1>0, <2>1, <2>3, LawScripts, ExpandLater
  <2>4. CASE /\ delib # NoLaw
             /\ Expand(n, <<Do("clear_deliberation"),
                            SetStatus(delib, "pending_queue")>>)
    <3>1. delib \in Law BY <1>0, <2>4 DEF TypeOK
    <3>2. SetStatus(delib, "pending_queue") \in LaterCommand
      BY <3>1, SetStatusLater DEF Status
    <3>3. Do("clear_deliberation") \in LaterCommand
      BY DoLater DEF StoreCommand, MethodCommand, LawCommand, WindowCommand
    <3>4. <<Do("clear_deliberation"), SetStatus(delib, "pending_queue")>>
            \in Seq(LaterCommand)
      BY <3>2, <3>3
    <3> QED BY <1>0, <2>1, <2>4, <3>4, ExpandLater
  <2> QED BY <1>6, <2>2, <2>3, <2>4 DEF RecuperarDeliberacionFails
<1>7. CASE RequeueIfStatus(n)
  <2>1. At(n, "requeue_if") BY <1>7 DEF RequeueIfStatus
  <2>2. CASE Done(n) BY <1>0, <2>1, <2>2, DoneLater
  <2>3. CASE Expand(n, Requeue(Cmd(n).law))
    <3>1. Cmd(n).law \in Law
      BY <1>0, <2>1, HeadJustified DEF Justified, LawCommand
    <3>2. Requeue(Cmd(n).law) \in Seq(LaterCommand) BY <3>1, LawScripts
    <3> QED BY <1>0, <2>1, <2>3, <3>2, ExpandLater
  <2> QED BY <1>7, <2>2, <2>3 DEF RequeueIfStatus
<1> QED BY <1>1, <1>2, <1>3, <1>4, <1>5, <1>6, <1>7 DEF Decides

\* They change nothing else, but the bound on errors.
LEMMA DecisionStep ==
  ASSUME IInv, NEW n \in Nct, Decides(n)
  PROVE  IInv'
<1>1. OneTodoLater BY DecisionLater
<1>2. /\ UNCHANGED <<redisVars, memory, handlerVars, inbox, up, overdue, ripe,
                     crashes, overlaps>>
      /\ errors' \in {errors, errors + 1}
  BY DEF Decides, MaybeOpenWindow, CheckDeliberation, CheckDeadline,
         RetomarVentanaFails, RecuperarDeliberacion,
         RecuperarDeliberacionFails, RequeueIfStatus, envVars
<1>3. TypeOK'
  <2>1. todo' \in [Nct -> Seq(Command)] BY <1>1, TodoTyped DEF IInv
  <2>2. errors' \in Nat BY <1>2 DEF IInv, TypeOK
  <2> QED BY <1>2, <2>1, <2>2
          DEF IInv, TypeOK, redisVars, lawVars, windowVars, memory, handlerVars
<1> QED BY <1>1, <1>2, <1>3, CalmStep
        DEF redisVars, lawVars, windowVars, memory

-----------------------------------------------------------------------------
(* The takeover of a window *)

\* A takeover only closes as sealed the window whose block it has read.
LEMMA RetomarVentanaStep ==
  ASSUME IInv, NEW n \in Nct, RetomarVentana(n)
  PROVE  IInv'
<1> USE DEF redisVars, lawVars, windowVars, memory, handlerVars, envVars
<1>0. /\ TypeOK /\ TodoOK /\ PointersSaved /\ VerdictIsInChain
      /\ BlockMatchesWindow
  BY DEF IInv
<1>1. At(n, "retomar_ventana") BY DEF RetomarVentana
<1>2. OneTodoLater
  <2> SUFFICES TodoLater(n) BY DEF OneTodoLater
  <2>1. CASE Done(n) BY <1>0, <1>1, <2>1, DoneLater
  <2>2. CASE Expand(n, <<Do("clear_active_window")>>)
    BY <1>0, <1>1, <2>2, LawScripts, ExpandLater
  <2>3. CASE pointer # 0 /\ LastBlockOf(pointer)
             /\ Expand(n, CloseSealed(pointer))
    <3>1. Saved(pointer) /\ window[pointer].action \in Action
      BY <1>0, <2>3 DEF PointersSaved, Saved, TypeOK, WindowRecord
    <3>2. Len(chain) \in DOMAIN chain
      BY <1>0, <2>3 DEF LastBlockOf, TypeOK
    <3>3. chain[Len(chain)] \in Blocks /\ chain[Len(chain)].win = pointer
      BY <2>3, <3>2 DEF LastBlockOf, Blocks
    <3>4. \E b \in Blocks : b.win = pointer /\ b.law = window[pointer].law
                                           /\ b.action = window[pointer].action
      BY <1>0, <3>3 DEF BlockMatchesWindow
    <3>5. CloseSealed(pointer) \in Seq(LaterCommand)
      BY <3>1, <3>4, SealedScript
    <3> QED BY <1>0, <1>1, <2>3, <3>5, ExpandLater
  <2>4. CASE pointer # 0
             /\ Expand(n, <<OnWindow("release_window_seal", pointer)>>)
    <3>1. Saved(pointer) BY <1>0, <2>4 DEF PointersSaved
    <3>2. <<OnWindow("release_window_seal", pointer)>> \in Seq(LaterCommand)
      BY <3>1, WindowScripts
    <3> QED BY <1>0, <1>1, <2>4, <3>2, ExpandLater
  <2> QED BY <2>1, <2>2, <2>3, <2>4 DEF RetomarVentana
<1>3. /\ active' = active \/ (/\ pointer # 0
                              /\ active' = [active EXCEPT ![n] = pointer])
      /\ UNCHANGED <<redisVars, leader, held, handlerVars, envVars>>
  BY DEF RetomarVentana
<1>4. TypeOK'
  <2>1. todo' \in [Nct -> Seq(Command)] BY <1>0, <1>2, TodoTyped
  <2>2. active' \in [Nct -> 0..MaxWindows] BY <1>0, <1>3 DEF TypeOK
  <2> QED BY <1>0, <1>3, <2>1, <2>2 DEF TypeOK
<1>5. PointersSaved'
  BY <1>0, <1>3 DEF PointersSaved, Saved, TypeOK
<1>6. VerdictIsInChain'
  BY <1>0, <1>3 DEF VerdictIsInChain, SealedAs, Blocks
<1> QED BY <1>2, <1>3, <1>4, <1>5, <1>6, QuietStep

-----------------------------------------------------------------------------
(* The commands *)

\* Those that touch neither windows, chain, pointers nor statuses.
CalmCommand(n) ==
  \/ SetLawAction(n) \/ EnqueueLaw(n) \/ RemoveFromQueue(n) \/ SetCooldown(n)
  \/ PublishChallenge(n) \/ TrySealWindow(n) \/ TrySealWindowTwice(n)
  \/ LastBlockHash(n)
  \/ SaveDeliberation(n) \/ HoldDeliberation(n) \/ ClearDeliberation(n)
  \/ Acknowledge(n)

\* They keep the invariant because their arguments are justified.
LEMMA CalmCommandStep ==
  ASSUME IInv, NEW n \in Nct, CalmCommand(n)
  PROVE  IInv'
<1> USE DEF redisVars, lawVars, windowVars, memory, handlerVars, envVars
<1>0. TypeOK /\ TodoOK BY DEF IInv
<1>h. ASSUME NEW name, At(n, name), Done(n)
      PROVE  OneTodoLater /\ todo' \in [Nct -> Seq(Command)]
  BY <1>0, <1>h, DoneLater, TodoTyped DEF OneTodoLater
<1>l. ASSUME NEW name \in LawCommand, At(n, name) PROVE Cmd(n).law \in Law
  BY <1>0, <1>l, HeadJustified DEF Justified
<1>w. ASSUME NEW name \in WindowCommand, At(n, name) PROVE Saved(Cmd(n).win)
  BY <1>0, <1>w, HeadJustified DEF Justified
<1>1. CASE SetLawAction(n)
  <2>1. OneTodoLater /\ todo' \in [Nct -> Seq(Command)]
    BY <1>1, <1>h DEF SetLawAction
  <2>2. action' \in [Law -> Action]
    BY <1>0, <1>1 DEF SetLawAction, TypeOK, Action
  <2>3. TypeOK' BY <1>0, <1>1, <2>1, <2>2 DEF SetLawAction, TypeOK
  <2> QED BY <1>1, <2>1, <2>3, CalmStep DEF SetLawAction
<1>2. CASE EnqueueLaw(n)
  <2>1. OneTodoLater /\ todo' \in [Nct -> Seq(Command)]
    BY <1>2, <1>h DEF EnqueueLaw
  <2>2. queue' \subseteq Law
    BY <1>0, <1>2, <1>l DEF EnqueueLaw, TypeOK, LawCommand
  <2>3. TypeOK' BY <1>0, <1>2, <2>1, <2>2 DEF EnqueueLaw, TypeOK
  <2> QED BY <1>2, <2>1, <2>3, CalmStep DEF EnqueueLaw
<1>3. CASE RemoveFromQueue(n)
  <2>1. OneTodoLater /\ todo' \in [Nct -> Seq(Command)]
    BY <1>3, <1>h DEF RemoveFromQueue
  <2>2. queue' \subseteq Law BY <1>0, <1>3 DEF RemoveFromQueue, TypeOK
  <2>3. TypeOK' BY <1>0, <1>3, <2>1, <2>2 DEF RemoveFromQueue, TypeOK
  <2> QED BY <1>3, <2>1, <2>3, CalmStep DEF RemoveFromQueue
<1>4. CASE SetCooldown(n)
  <2>1. OneTodoLater /\ todo' \in [Nct -> Seq(Command)]
    BY <1>4, <1>h DEF SetCooldown
  <2>2. counter + CooldownNew \in Nat BY <1>0, ConstantsAssumption DEF TypeOK
  <2>3. cooldown' \in [Author -> Nat]
    BY <1>0, <1>4, <2>2 DEF SetCooldown, TypeOK
  <2>4. TypeOK' BY <1>0, <1>4, <2>1, <2>3 DEF SetCooldown, TypeOK
  <2> QED BY <1>4, <2>1, <2>4, CalmStep DEF SetCooldown
<1>5. CASE PublishChallenge(n)
  <2>1. OneTodoLater /\ todo' \in [Nct -> Seq(Command)]
    BY <1>5, <1>h DEF PublishChallenge
  <2>2. challenged' \subseteq Window
    BY <1>0, <1>5, <1>w DEF PublishChallenge, TypeOK, WindowCommand, Saved
  <2>3. TypeOK' BY <1>0, <1>5, <2>1, <2>2 DEF PublishChallenge, TypeOK
  <2> QED BY <1>5, <2>1, <2>3, CalmStep DEF PublishChallenge
<1>6. CASE TrySealWindow(n)
  <2>1. At(n, "try_seal_window") BY <1>6 DEF TrySealWindow
  <2>2. Saved(Cmd(n).win) BY <2>1, <1>w DEF WindowCommand
  <2>3. OneTodoLater
    <3>1. Seal(Cmd(n).win) \in Seq(LaterCommand) BY <2>2, WindowScripts
    <3>2. CASE Done(n) BY <2>1, <3>2, <1>h
    <3>3. CASE Expand(n, Seal(Cmd(n).win))
      BY <1>0, <2>1, <3>1, <3>3, ExpandLater DEF OneTodoLater
    <3> QED BY <1>6, <3>2, <3>3 DEF TrySealWindow
  <2>4. todo' \in [Nct -> Seq(Command)] BY <1>0, <2>3, TodoTyped
  <2>5. sealed' \subseteq Window
    BY <1>0, <1>6, <2>2 DEF TrySealWindow, TypeOK, Saved
  <2>6. TypeOK' BY <1>0, <1>6, <2>4, <2>5 DEF TrySealWindow, TypeOK
  <2> QED BY <1>6, <2>3, <2>6, CalmStep DEF TrySealWindow
<1>7. CASE LastBlockHash(n)
  <2>1. OneTodoLater /\ todo' \in [Nct -> Seq(Command)]
    BY <1>7, <1>h DEF LastBlockHash
  <2>2. tip' \in [Nct -> Nat] BY <1>0, <1>7 DEF LastBlockHash, TypeOK
  <2>3. TypeOK' BY <1>0, <1>7, <2>1, <2>2 DEF LastBlockHash, TypeOK
  <2> QED BY <1>7, <2>1, <2>3, CalmStep DEF LastBlockHash
<1>8. CASE SaveDeliberation(n)
  <2>1. OneTodoLater /\ todo' \in [Nct -> Seq(Command)]
    BY <1>8, <1>h DEF SaveDeliberation
  <2>2. delib' \in Law \cup {NoLaw} /\ ripe' \subseteq Law
    BY <1>0, <1>8, <1>l DEF SaveDeliberation, TypeOK, LawCommand
  <2>3. TypeOK' BY <1>0, <1>8, <2>1, <2>2 DEF SaveDeliberation, TypeOK
  <2> QED BY <1>8, <2>1, <2>3, CalmStep DEF SaveDeliberation
<1>9. CASE HoldDeliberation(n)
  <2>1. OneTodoLater /\ todo' \in [Nct -> Seq(Command)]
    BY <1>9, <1>h DEF HoldDeliberation
  <2>2. Cmd(n).law \in Law
    BY <1>9, <1>l DEF HoldDeliberation, LawCommand
  <2>3. held' \in [Nct -> Law \cup {NoLaw}]
    BY <1>0, <1>9, <2>2 DEF HoldDeliberation, TypeOK
  <2>4. TypeOK' BY <1>0, <1>9, <2>1, <2>3 DEF HoldDeliberation, TypeOK
  <2> QED BY <1>9, <2>1, <2>4, CalmStep DEF HoldDeliberation
<1>10. CASE ClearDeliberation(n)
  <2>1. OneTodoLater /\ todo' \in [Nct -> Seq(Command)]
    BY <1>10, <1>h DEF ClearDeliberation
  <2>2. /\ held' \in [Nct -> Law \cup {NoLaw}]
        /\ delib' \in Law \cup {NoLaw}
    BY <1>0, <1>10 DEF ClearDeliberation, TypeOK
  <2>3. TypeOK' BY <1>0, <1>10, <2>1, <2>2 DEF ClearDeliberation, TypeOK
  <2> QED BY <1>10, <2>1, <2>3, CalmStep DEF ClearDeliberation
<1>11. CASE Acknowledge(n)
  <2>1. OneTodoLater /\ todo' \in [Nct -> Seq(Command)]
    BY <1>11, <1>h DEF Acknowledge
  <2>2. /\ inbox' \subseteq Proposals
        /\ hand' \in [Nct -> Proposals \cup {NoMsg}]
    BY <1>0, <1>11 DEF Acknowledge, TypeOK
  <2>3. TypeOK' BY <1>0, <1>11, <2>1, <2>2 DEF Acknowledge, TypeOK
  <2> QED BY <1>11, <2>1, <2>3, CalmStep DEF Acknowledge
<1>12. CASE TrySealWindowTwice(n)
  <2>1. OneTodoLater /\ todo' \in [Nct -> Seq(Command)]
    BY <1>12, <1>h DEF TrySealWindowTwice
  <2>2. sealed' \subseteq Window
    BY <1>0, <1>12, <1>w DEF TrySealWindowTwice, TypeOK, WindowCommand, Saved
  <2>3. errors' \in Nat BY <1>0, <1>12 DEF TrySealWindowTwice, TypeOK
  <2>4. TypeOK'
    BY <1>0, <1>12, <2>1, <2>2, <2>3 DEF TrySealWindowTwice, TypeOK
  <2> QED BY <1>12, <2>1, <2>4, CalmStep DEF TrySealWindowTwice
<1> QED BY <1>1, <1>2, <1>3, <1>4, <1>5, <1>6, <1>7, <1>8, <1>9, <1>10, <1>11,
           <1>12 DEF CalmCommand

\* The commands that move the pointer to the active window.
PointerCommand(n) ==
  SetActiveWindow(n) \/ ClearActiveWindow(n) \/ ReleaseWindowSeal(n)

\* They point to windows that were saved.
LEMMA PointerCommandStep ==
  ASSUME IInv, NEW n \in Nct, PointerCommand(n)
  PROVE  IInv'
<1> USE DEF redisVars, lawVars, windowVars, memory, handlerVars, envVars
<1>0. TypeOK /\ TodoOK /\ PointersSaved /\ VerdictIsInChain BY DEF IInv
<1>1. PICK name \in {"set_active_window", "clear_active_window",
                     "release_window_seal"} : At(n, name) /\ Done(n)
  BY DEF PointerCommand, SetActiveWindow, ClearActiveWindow, ReleaseWindowSeal
<1>2. OneTodoLater /\ todo' \in [Nct -> Seq(Command)]
  BY <1>0, <1>1, DoneLater, TodoTyped DEF OneTodoLater
<1>3. PICK w \in 0..MaxWindows :
        /\ w # 0 => Saved(w)
        /\ active' = [active EXCEPT ![n] = w] /\ pointer' \in {pointer, w}
        /\ sealed' \subseteq sealed
  <2>1. CASE SetActiveWindow(n) \/ ReleaseWindowSeal(n)
    <3>1. PICK name2 \in WindowCommand : At(n, name2)
      BY <2>1 DEF SetActiveWindow, ReleaseWindowSeal, WindowCommand
    <3>2. Saved(Cmd(n).win) BY <1>0, <3>1, HeadJustified DEF Justified
    <3>3. Cmd(n).win \in 0..MaxWindows BY <3>2 DEF Saved, Window
    <3> QED BY <2>1, <3>2, <3>3 DEF SetActiveWindow, ReleaseWindowSeal
  <2>2. CASE ClearActiveWindow(n)
    <3>1. 0 \in 0..MaxWindows BY ConstantsAssumption
    <3> QED BY <2>2, <3>1 DEF ClearActiveWindow
  <2> QED BY <2>1, <2>2 DEF PointerCommand
<1>4. UNCHANGED <<lease, lawVars, counter, window, challenged, chain, delib,
                  leader, held, handlerVars, envVars>>
  BY DEF PointerCommand, SetActiveWindow, ClearActiveWindow, ReleaseWindowSeal
<1>5. /\ pointer' \in 0..MaxWindows /\ active' \in [Nct -> 0..MaxWindows]
      /\ sealed' \subseteq Window
  BY <1>0, <1>3 DEF TypeOK
<1>6. TypeOK' BY <1>0, <1>2, <1>4, <1>5 DEF TypeOK
<1>7. PointersSaved'
  BY <1>0, <1>3, <1>4 DEF PointersSaved, Saved, TypeOK
<1>8. VerdictIsInChain' BY <1>0, <1>4 DEF VerdictIsInChain, SealedAs, Blocks
<1> QED BY <1>2, <1>4, <1>6, <1>7, <1>8, QuietStep

\* A status that says "in force" or "repealed" has its block.
LEMMA StatusStep ==
  ASSUME IInv, NEW n \in Nct, SaveLaw(n) \/ SetLawStatus(n)
  PROVE  IInv'
<1> USE DEF redisVars, lawVars, windowVars, memory, handlerVars, envVars
<1>0. TypeOK /\ TodoOK /\ PointersSaved /\ VerdictIsInChain BY DEF IInv
<1>1. PICK name \in {"save_law", "set_law_status"} : At(n, name) /\ Done(n)
  BY DEF SaveLaw, SetLawStatus
<1>2. OneTodoLater /\ todo' \in [Nct -> Seq(Command)]
  BY <1>0, <1>1, DoneLater, TodoTyped DEF OneTodoLater
<1>3. Justified(Cmd(n)) /\ Cmd(n).do = name BY <1>0, <1>1, HeadJustified
<1>4. PICK l \in Law, s \in Status :
        /\ s = "promulgated" => SealedAs(l, "promulgacion")
        /\ s = "repealed" => SealedAs(l, "derogacion")
        /\ status' = [status EXCEPT ![l] = s]
        /\ action' \in {action, [action EXCEPT ![l] = "promulgacion"]}
  <2>1. CASE SaveLaw(n)
    <3>1. Cmd(n).law \in Law
      BY <1>0, <2>1, HeadJustified DEF SaveLaw, Justified, LawCommand
    <3> QED BY <2>1, <3>1 DEF SaveLaw, Status
  <2>2. CASE SetLawStatus(n)
    <3>1. Justified(Cmd(n)) /\ Cmd(n).do = "set_law_status"
      BY <1>0, <2>2, HeadJustified DEF SetLawStatus
    <3> QED BY <2>2, <3>1 DEF SetLawStatus, Justified, LawCommand
  <2> QED BY <2>1, <2>2
<1>5. UNCHANGED <<lease, queue, cooldown, windowVars, chain, delib, memory,
                  handlerVars, envVars>>
  BY DEF SaveLaw, SetLawStatus
<1>6. status' \in [Law -> Status] /\ action' \in [Law -> Action]
  BY <1>0, <1>4 DEF TypeOK, Action
<1>7. TypeOK' BY <1>0, <1>2, <1>5, <1>6 DEF TypeOK
<1>8. PointersSaved' BY <1>0, <1>5 DEF PointersSaved, Saved
<1>9. VerdictIsInChain'
  <2>1. \A k, a : SealedAs(k, a) => SealedAs(k, a)'
    BY <1>5 DEF SealedAs, Blocks
  <2>2. \A k \in Law : status'[k] = IF k = l THEN s ELSE status[k]
    BY <1>0, <1>4 DEF TypeOK
  <2> QED BY <1>0, <1>4, <2>1, <2>2 DEF VerdictIsInChain
<1> QED BY <1>2, <1>5, <1>7, <1>8, <1>9, QuietStep

-----------------------------------------------------------------------------
(* The commands that change the windows and the chain *)

\* The scripts of a saved window, as one formula that can be primed.
WindowScriptsHold ==
  \A w : Saved(w) => /\ OpenWindow(w, window[w].law) \in Seq(LaterCommand)
                     /\ CloseInterrupted(w) \in Seq(LaterCommand)
\* The same for the script of a sealed window.
SealedScriptHolds ==
  \A w : /\ Saved(w) /\ window[w].action \in Action
         /\ \E b \in Blocks : b.win = w /\ b.law = window[w].law
                                        /\ b.action = window[w].action
         => CloseSealed(w) \in Seq(LaterCommand)

\* Both hold in every state.
LEMMA ScriptsHold == WindowScriptsHold /\ SealedScriptHolds
BY WindowScripts, SealedScript DEF WindowScriptsHold, SealedScriptHolds

\* So they hold after any step.
LEMMA ScriptsHoldNext == WindowScriptsHold' /\ SealedScriptHolds'
BY ScriptsHold, PTL

\* A process that takes a number is the only one to have it.
LEMMA OpenWindowNumberedStep ==
  ASSUME IInv, NEW n \in Nct, OpenWindowNumbered(n)
  PROVE  IInv'
<1> USE DEF redisVars, lawVars, windowVars, memory, handlerVars, envVars
<1>0. TypeOK /\ TodoOK /\ Numbering BY DEF IInv
<1>1. At(n, "open_window") /\ counter < MaxWindows
  BY DEF OpenWindowNumbered
<1>2. PICK c : /\ c = SaveWindowCmd(counter + 1, Cmd(n).law,
                                    action[Cmd(n).law])
               /\ todo' = [todo EXCEPT ![n] = <<c>> \o Tail(@)]
  BY DEF OpenWindowNumbered, Expand
<1>3. Cmd(n).law \in Law
  BY <1>0, <1>1, HeadJustified DEF Justified, LawCommand
<1>4. Tail(todo[n]) \in Seq(LaterCommand) BY <1>0, <1>1, HeadJustified
<1>5. counter + 1 \in Window /\ counter \in Nat
  BY <1>0, <1>1, ConstantsAssumption DEF TypeOK, Window
<1>6. /\ c \in JustifiedCommand /\ c.do = "save_window"
      /\ c.win = counter + 1
  <2>1. action[Cmd(n).law] \in Action BY <1>0, <1>3 DEF TypeOK
  <2> QED BY <1>2, <1>3, <1>5, <2>1
          DEF SaveWindowCmd, Command4, JustifiedCommand, Justified, Command,
              StoreCommand, MethodCommand, LawCommand, WindowCommand, Window
<1>7. UNCHANGED <<window, chain, pointer, active, status>>
      /\ counter' = counter + 1
  BY DEF OpenWindowNumbered
<1>8. \A w : Saved(w) <=> Saved(w)' BY <1>7 DEF Saved
<1>9. Blocks = Blocks' BY <1>7 DEF Blocks
<1>10. /\ todo'[n] = <<c>> \o Tail(todo[n])
       /\ \A m \in Nct : m # n => todo'[m] = todo[m]
  BY <1>0, <1>2 DEF TypeOK
<1>11. /\ LaterCommand \subseteq JustifiedCommand
       /\ JustifiedCommand \subseteq Command
  BY DEF LaterCommand, JustifiedCommand
<1>12. /\ todo'[n] \in Seq(JustifiedCommand) /\ todo'[n] # <<>>
       /\ Head(todo'[n]) = c /\ Tail(todo'[n]) = Tail(todo[n])
  <2>1. Tail(todo[n]) \in Seq(JustifiedCommand)
    <3>1. Seq(LaterCommand) \subseteq Seq(JustifiedCommand) BY <1>11
    <3> QED BY <1>4, <3>1
  <2>2. <<c>> \in Seq(JustifiedCommand) BY <1>6
  <2> QED BY <1>10, <2>1, <2>2
<1>13. TypeOK'
  <2>1. todo'[n] \in Seq(Command)
    <3>1. Seq(JustifiedCommand) \subseteq Seq(Command) BY <1>11
    <3> QED BY <1>12, <3>1
  <2>2. todo' \in [Nct -> Seq(Command)] BY <1>0, <1>2, <1>10, <2>1 DEF TypeOK
  <2>3. counter' \in 0..MaxWindows BY <1>5, <1>7 DEF Window
  <2> QED BY <1>0, <2>2, <2>3 DEF OpenWindowNumbered, TypeOK
<1>14. TodoOK'
  <2>1. /\ JustifiedCommand \subseteq JustifiedCommand'
        /\ LaterCommand \subseteq LaterCommand'
    BY <1>8, <1>9, CommandsGrow
  <2>2. /\ Seq(JustifiedCommand) \subseteq Seq(JustifiedCommand')
        /\ Seq(LaterCommand) \subseteq Seq(LaterCommand')
    BY <2>1
  <2> QED BY <1>0, <1>4, <1>10, <1>12, <2>2 DEF TodoOK
<1>15. Numbering'
  <2>1. At(n, "save_window")' /\ Cmd(n)' = c BY <1>6, <1>12 DEF At, Cmd
  <2>2. \A m \in Nct : m # n =>
          /\ At(m, "save_window")' => At(m, "save_window")
          /\ Cmd(m)' = Cmd(m)
    BY <1>10 DEF At, Cmd
  <2>3. \A w \in Window : Saved(w)' => w <= counter'
    BY <1>0, <1>5, <1>7, <1>8 DEF Numbering, Window
  <2>4. \A m \in Nct : At(m, "save_window")' =>
          Cmd(m)'.win \in Window /\ Cmd(m)'.win <= counter' /\ ~Saved(Cmd(m)'.win)
    <3>1. ~Saved(counter + 1) BY <1>0, <1>5 DEF Numbering
    <3> QED BY <1>0, <1>5, <1>6, <1>7, <2>1, <2>2, <3>1 DEF Numbering, Window
  <2>5. \A m \in Nct : m # n /\ At(m, "save_window")' => Cmd(m)'.win <= counter
    BY <1>0, <2>2 DEF Numbering
  <2>6. \A m, k \in Nct :
          m # k /\ At(m, "save_window")' /\ At(k, "save_window")' =>
            Cmd(m)'.win # Cmd(k)'.win
    BY <1>0, <1>5, <1>6, <2>1, <2>2, <2>5 DEF Numbering
  <2> QED BY <1>8, <2>3, <2>4, <2>6 DEF Numbering
<1>16. PointersSaved' /\ BlocksSaved' /\ ChainLinked' /\ VerdictIsInChain'
       /\ BlockMatchesWindow'
  BY <1>7, <1>8, <1>9
     DEF IInv, PointersSaved, BlocksSaved, ChainLinked, VerdictIsInChain,
         BlockMatchesWindow, SealedAs
<1> QED BY <1>13, <1>14, <1>15, <1>16 DEF IInv

\* A window is saved once: before that, no block, pointer or command names it.
LEMMA SaveWindowStep ==
  ASSUME IInv, NEW n \in Nct, SaveWindow(n)
  PROVE  IInv'
<1> USE DEF redisVars, lawVars, windowVars, memory, handlerVars, envVars
<1>0. TypeOK /\ TodoOK /\ Numbering BY DEF IInv
<1>1. At(n, "save_window") BY DEF SaveWindow
<1>2. PICK c : c = Cmd(n) OBVIOUS
<1>3. /\ c.law \in Law /\ c.arg \in Action /\ c.win \in Window
      /\ c.win <= counter /\ ~Saved(c.win)
  BY <1>0, <1>1, <1>2, HeadJustified
     DEF Numbering, Justified, LawCommand
<1>4. window' = [window EXCEPT ![c.win] = [law |-> c.law, action |-> c.arg,
                                           result |-> "open"]]
  BY <1>2 DEF SaveWindow
<1>5. todo' = [todo EXCEPT ![n] = OpenWindow(c.win, c.law) \o Tail(@)]
  BY <1>2 DEF SaveWindow, Expand
<1>6. UNCHANGED <<chain, counter, pointer, active, status>>
  BY DEF SaveWindow
<1>7. Blocks = Blocks' BY <1>6 DEF Blocks
<1>8. /\ window'[c.win].law = c.law /\ window'[c.win].result = "open"
      /\ \A w \in Window : w # c.win => window'[w] = window[w]
  BY <1>0, <1>3, <1>4 DEF TypeOK
<1>9. Saved(c.win)' /\ \A w : Saved(w)' <=> (Saved(w) \/ w = c.win)
  BY <1>3, <1>8 DEF Saved
<1>10. OpenWindow(c.win, c.law) \in Seq(LaterCommand')
  <2>1. OpenWindow(c.win, window'[c.win].law) \in Seq(LaterCommand')
    BY <1>9, ScriptsHoldNext DEF WindowScriptsHold, OpenWindow
  <2> QED BY <1>8, <2>1
<1>11. /\ JustifiedCommand \subseteq JustifiedCommand'
       /\ LaterCommand \subseteq LaterCommand'
  BY <1>7, <1>9, CommandsGrow
<1>12. /\ Seq(JustifiedCommand) \subseteq Seq(JustifiedCommand')
       /\ Seq(LaterCommand) \subseteq Seq(LaterCommand')
       /\ Seq(LaterCommand') \subseteq Seq(JustifiedCommand')
  <2>1. LaterCommand' \subseteq JustifiedCommand' BY DEF LaterCommand
  <2> QED BY <1>11, <2>1
<1>13. PICK t \in Seq(LaterCommand') : todo' = [todo EXCEPT ![n] = t]
  <2>1. Tail(todo[n]) \in Seq(LaterCommand')
    BY <1>0, <1>1, <1>12, HeadJustified
  <2>2. OpenWindow(c.win, c.law) \o Tail(todo[n]) \in Seq(LaterCommand')
    BY <1>10, <2>1
  <2> QED BY <1>5, <2>2
<1>14. todo'[n] = t /\ \A m \in Nct : m # n => todo'[m] = todo[m]
  BY <1>0, <1>13 DEF TypeOK
<1>15. TypeOK'
  <2>1. t \in Seq(Command)
    <3>1. LaterCommand' \subseteq Command
      BY DEF LaterCommand, JustifiedCommand, Command
    <3>2. Seq(LaterCommand') \subseteq Seq(Command) BY <3>1
    <3> QED BY <3>2
  <2>2. todo' \in [Nct -> Seq(Command)] BY <1>0, <1>13, <2>1 DEF TypeOK
  <2>3. window' \in [Window -> WindowRecord]
    BY <1>0, <1>3, <1>4 DEF TypeOK, WindowRecord, Result
  <2> QED BY <1>0, <2>2, <2>3 DEF SaveWindow, TypeOK
<1>16. t # <<>> => Head(t) \in LaterCommand' /\ Tail(t) \in Seq(LaterCommand')
  OBVIOUS
<1>17. TodoOK'
  BY <1>0, <1>12, <1>14, <1>16 DEF TodoOK
<1>18. Numbering'
  <2>1. ~At(n, "save_window")' BY <1>14, <1>16 DEF At, LaterCommand
  <2>2. \A m \in Nct : At(m, "save_window")' =>
          /\ m # n /\ At(m, "save_window") /\ Cmd(m)' = Cmd(m)
    BY <1>14, <2>1 DEF At, Cmd
  <2>3. \A m \in Nct : At(m, "save_window")' => Cmd(m).win # c.win
    BY <1>0, <1>1, <1>2, <2>2 DEF Numbering
  <2> QED BY <1>0, <1>3, <1>6, <1>9, <2>2, <2>3 DEF Numbering
<1>19. PointersSaved' /\ BlocksSaved'
  BY <1>6, <1>7, <1>9 DEF IInv, PointersSaved, BlocksSaved
<1>20. ChainLinked' /\ VerdictIsInChain'
  BY <1>6, <1>7 DEF IInv, ChainLinked, VerdictIsInChain, SealedAs
<1>21. BlockMatchesWindow'
  <2>1. \A b \in Blocks : b.win # c.win /\ b.win \in Window
    BY <1>3 DEF IInv, BlocksSaved, Saved
  <2> QED BY <1>7, <1>8, <2>1 DEF IInv, BlockMatchesWindow
<1> QED BY <1>15, <1>17, <1>18, <1>19, <1>20, <1>21 DEF IInv

\* A result keeps the law of its window, and success has its block.
LEMMA SetWindowResultStep ==
  ASSUME IInv, NEW n \in Nct, SetWindowResult(n)
  PROVE  IInv'
<1> USE DEF redisVars, lawVars, windowVars, memory, handlerVars, envVars
<1>0. TypeOK /\ TodoOK /\ Numbering BY DEF IInv
<1>1. At(n, "set_window_result") BY DEF SetWindowResult
<1>2. PICK c : c = Cmd(n) OBVIOUS
<1>3. /\ Saved(c.win) /\ c.arg \in Result /\ c.win \in Window
      /\ c.arg = "success" => \E b \in Blocks : b.win = c.win
  BY <1>0, <1>1, <1>2, HeadJustified DEF Justified, WindowCommand, Saved
<1>4. window' = [window EXCEPT ![c.win].result = c.arg]
  BY <1>2 DEF SetWindowResult
<1>5. \A w \in Window :
        /\ window'[w].law = window[w].law
        /\ window'[w].action = window[w].action
        /\ window'[w].result = IF w = c.win THEN c.arg ELSE window[w].result
  BY <1>0, <1>3, <1>4, SMTT(30) DEF TypeOK, WindowRecord
<1>6. UNCHANGED <<chain, counter, pointer, active, status>>
  BY DEF SetWindowResult
<1>7. Blocks = Blocks' BY <1>6 DEF Blocks
<1>8. \A w : Saved(w) <=> Saved(w)' BY <1>5 DEF Saved
<1>9. Tail(todo[n]) \in Seq(LaterCommand')
  <2>1. LaterCommand \subseteq LaterCommand' BY <1>7, <1>8, CommandsGrow
  <2>2. Seq(LaterCommand) \subseteq Seq(LaterCommand') BY <2>1
  <2> QED BY <1>0, <1>1, <2>2, HeadJustified
<1>10. TodoOK' /\ Numbering'
  <2>1. todo' = [todo EXCEPT ![n] = Tail(todo[n])]
    BY DEF SetWindowResult, Done
  <2> QED BY <1>0, <1>6, <1>7, <1>8, <1>9, <2>1, TodoStep
<1>11. TypeOK'
  <2>1. todo' \in [Nct -> Seq(Command)]
    BY <1>0, <1>1, DoneLater, TodoTyped DEF SetWindowResult, OneTodoLater
  <2>2. window' \in [Window -> WindowRecord]
    <3>1. window \in [Window -> WindowRecord] BY <1>0 DEF TypeOK
    <3>2. window[c.win] \in WindowRecord BY <1>3, <3>1
    <3>3. [window[c.win] EXCEPT !.result = c.arg] \in WindowRecord
      BY <1>3, <3>2 DEF WindowRecord
    <3>4. PICK rec : rec = [window[c.win] EXCEPT !.result = c.arg] OBVIOUS
    <3>5. window' = [window EXCEPT ![c.win] = rec] BY <1>4, <3>4
    <3> QED BY <1>3, <3>1, <3>3, <3>4, <3>5
  <2> QED BY <1>0, <2>1, <2>2 DEF SetWindowResult, TypeOK
<1>12. PointersSaved' /\ BlocksSaved'
  BY <1>6, <1>7, <1>8 DEF IInv, PointersSaved, BlocksSaved
<1>13. ChainLinked' /\ VerdictIsInChain'
  BY <1>6, <1>7 DEF IInv, ChainLinked, VerdictIsInChain, SealedAs
<1>14. BlockMatchesWindow'
  <2>1. \A b \in Blocks : b.win \in Window BY DEF IInv, BlocksSaved, Saved
  <2> QED BY <1>3, <1>5, <1>7, <2>1 DEF IInv, BlockMatchesWindow
<1> QED BY <1>10, <1>11, <1>12, <1>13, <1>14 DEF IInv

\* A block follows the tip that was read, and says what its window says.
LEMMA AppendBlockStep ==
  ASSUME IInv, NEW n \in Nct, AppendBlock(n) \/ AppendBlockTwice(n)
  PROVE  IInv'
<1> USE DEF redisVars, lawVars, windowVars, memory, handlerVars, envVars
<1>0. TypeOK /\ TodoOK /\ Numbering BY DEF IInv
<1>1. At(n, "append_block") BY DEF AppendBlock, AppendBlockTwice
<1>2. PICK w : w = Cmd(n).win OBVIOUS
<1>3. Saved(w) /\ w \in Window /\ window[w] \in WindowRecord
  BY <1>0, <1>1, <1>2, HeadJustified
     DEF Justified, WindowCommand, Saved, TypeOK
<1>4. window[w].law \in Law /\ window[w].action \in Action
  BY <1>3 DEF Saved, WindowRecord
<1>5. UNCHANGED <<window, counter, pointer, active, status, tip>>
  BY DEF AppendBlock, AppendBlockTwice
<1>6. \A v : Saved(v) <=> Saved(v)' BY <1>5 DEF Saved
<1>7. PICK s : Expand(n, s) /\
        \/ /\ SameTip(n) /\ chain' = Append(chain, BlockOf(n, w))
           /\ s \in {CloseSealed(w) \o <<Do("maybe_open_window")>>,
                     CloseInterrupted(w)}
        \/ chain' = chain /\ s = CloseInterrupted(w)
  BY <1>2 DEF AppendBlock, AppendBlockTwice
<1>8. /\ chain' \in Seq(Block) /\ Len(chain) \in Nat
      /\ Len(chain') \in Nat
      /\ DOMAIN chain = 1..Len(chain) /\ DOMAIN chain' = 1..Len(chain')
      /\ Len(chain) <= Len(chain')
      /\ \A i \in DOMAIN chain : chain'[i] = chain[i]
      /\ \A i \in DOMAIN chain' : i \notin DOMAIN chain =>
           /\ i = Len(chain) + 1 /\ SameTip(n)
           /\ chain'[i].prev = tip[n] /\ chain'[i].win = w
           /\ chain'[i].law = window[w].law
           /\ chain'[i].action = window[w].action
  <2>1. chain \in Seq(Block) /\ tip[n] \in Nat BY <1>0 DEF TypeOK
  <2>2. CASE chain' = chain BY <2>1, <2>2
  <2>3. CASE SameTip(n) /\ chain' = Append(chain, BlockOf(n, w))
    <3>1. PICK b : b = BlockOf(n, w) OBVIOUS
    <3>2. b \in Block BY <1>3, <1>4, <2>1, <3>1 DEF Block, BlockOf, Window
    <3>3. chain' = Append(chain, b) BY <2>3, <3>1
    <3>4. /\ chain' \in Seq(Block) /\ Len(chain') = Len(chain) + 1
          /\ chain'[Len(chain) + 1] = b
          /\ \A i \in 1..Len(chain) : chain'[i] = chain[i]
      BY <2>1, <3>2, <3>3
    <3> QED BY <2>1, <2>3, <3>1, <3>4 DEF BlockOf
  <2> QED BY <1>7, <2>2, <2>3
<1>9. \A b \in Blocks' : \/ b \in Blocks
                         \/ /\ b.win = w /\ b.law = window[w].law
                            /\ b.action = window[w].action
  BY <1>8 DEF Blocks
<1>10. Blocks \subseteq Blocks'
  BY <1>8 DEF Blocks
<1>11. s \in Seq(LaterCommand')
  <2>1. CASE s = CloseInterrupted(w)
    <3>1. CloseInterrupted(w)' \in Seq(LaterCommand')
      BY <1>3, <1>6, ScriptsHoldNext DEF WindowScriptsHold
    <3>2. CloseInterrupted(w)' = CloseInterrupted(w)
      BY <1>5 DEF CloseInterrupted
    <3> QED BY <2>1, <3>1, <3>2
  <2>2. CASE /\ chain' = Append(chain, BlockOf(n, w))
             /\ s = CloseSealed(w) \o <<Do("maybe_open_window")>>
    <3>1. Len(chain) + 1 \in DOMAIN chain' /\ Len(chain) + 1 \notin DOMAIN chain
      BY <1>0, <1>8, <2>2 DEF TypeOK
    <3>2. \E b \in Blocks' : b.win = w /\ b.law = window'[w].law
                                       /\ b.action = window'[w].action
      BY <1>5, <1>8, <3>1 DEF Blocks
    <3>3. CloseSealed(w)' \in Seq(LaterCommand')
      BY <1>3, <1>4, <1>5, <1>6, <3>2, ScriptsHoldNext DEF SealedScriptHolds
    <3>4. CloseSealed(w)' = CloseSealed(w) BY <1>5 DEF CloseSealed, Verdict
    <3>5. Do("maybe_open_window") \in LaterCommand'
      <4>1. LaterCommand \subseteq LaterCommand' BY <1>6, <1>10, CommandsGrow
      <4> QED BY <4>1, DoLater
              DEF StoreCommand, MethodCommand, LawCommand, WindowCommand
    <3>6. <<Do("maybe_open_window")>> \in Seq(LaterCommand') BY <3>5
    <3> QED BY <2>2, <3>3, <3>4, <3>6
  <2> QED BY <1>7, <2>1, <2>2
<1>12. PICK t \in Seq(LaterCommand') : todo' = [todo EXCEPT ![n] = t]
  <2>1. Tail(todo[n]) \in Seq(LaterCommand')
    <3>1. LaterCommand \subseteq LaterCommand' BY <1>6, <1>10, CommandsGrow
    <3>2. Seq(LaterCommand) \subseteq Seq(LaterCommand') BY <3>1
    <3> QED BY <1>0, <1>1, <3>2, HeadJustified
  <2>2. s \o Tail(todo[n]) \in Seq(LaterCommand') BY <1>11, <2>1
  <2> QED BY <1>7, <2>2 DEF Expand
<1>13. TodoOK' /\ Numbering'
  BY <1>0, <1>5, <1>6, <1>10, <1>12, TodoStep
<1>14. TypeOK'
  <2>1. t \in Seq(Command)
    <3>1. LaterCommand' \subseteq Command
      BY DEF LaterCommand, JustifiedCommand, Command
    <3>2. Seq(LaterCommand') \subseteq Seq(Command) BY <3>1
    <3> QED BY <3>2
  <2>2. todo' \in [Nct -> Seq(Command)] BY <1>0, <1>12, <2>1 DEF TypeOK
  <2>3. /\ UNCHANGED <<lease, lawVars, windowVars, delib, memory, handlerVars,
                       inbox, up, overdue, ripe, crashes, overlaps>>
        /\ errors' \in {errors, errors + 1}
    BY DEF AppendBlock, AppendBlockTwice
  <2>4. errors' \in Nat BY <1>0, <2>3 DEF TypeOK
  <2> QED BY <1>0, <1>8, <2>2, <2>3, <2>4 DEF TypeOK
<1>15. PointersSaved' BY <1>5, <1>6 DEF IInv, PointersSaved
<1>16. BlocksSaved' BY <1>3, <1>6, <1>9 DEF IInv, BlocksSaved
<1>17. ChainLinked'
  <2>1. \A i \in DOMAIN chain' : i \notin DOMAIN chain =>
          chain'[i].prev = i - 1
    BY <1>0, <1>8 DEF SameTip, TypeOK
  <2> QED BY <1>8, <2>1 DEF IInv, ChainLinked
<1>18. VerdictIsInChain'
  <2>1. \A l, a : SealedAs(l, a) => SealedAs(l, a)' BY <1>10 DEF SealedAs
  <2> QED BY <1>5, <2>1 DEF IInv, VerdictIsInChain
<1>19. BlockMatchesWindow'
  BY <1>5, <1>9, <1>10 DEF IInv, BlockMatchesWindow
<1> QED BY <1>13, <1>14, <1>15, <1>16, <1>17, <1>18, <1>19 DEF IInv

-----------------------------------------------------------------------------
(* The theorems *)

\* Nothing is saved, and no command is left, in the initial state.
LEMMA InitIInv == Init => IInv
<1> SUFFICES ASSUME Init PROVE IInv OBVIOUS
<1> USE ConstantsAssumption DEF Init
<1>1. TypeOK
  <2>1. /\ status \in [Law -> Status] /\ action \in [Law -> Action]
        /\ window \in [Window -> WindowRecord]
        /\ cooldown \in [Author -> Nat]
    BY DEF Status, Action, NoWindow, WindowRecord, Result
  <2>2. /\ counter \in 0..MaxWindows /\ pointer \in 0..MaxWindows
        /\ active \in [Nct -> 0..MaxWindows]
    OBVIOUS
  <2>3. todo \in [Nct -> Seq(Command)]
    <3>1. <<>> \in Seq(Command) OBVIOUS
    <3> QED BY <3>1
  <2>4. chain \in Seq(Block) OBVIOUS
  <2> QED BY <2>1, <2>2, <2>3, <2>4 DEF TypeOK
<1>2. \A w : ~Saved(w) BY DEF Saved, NoWindow
<1>3. \A n \in Nct : todo[n] = <<>> /\ active[n] = 0 OBVIOUS
<1>4. TodoOK
  <2>1. <<>> \in Seq(JustifiedCommand) OBVIOUS
  <2> QED BY <1>3, <2>1 DEF TodoOK
<1>5. Numbering BY <1>2, <1>3 DEF Numbering, At
<1>6. PointersSaved BY <1>3 DEF PointersSaved
<1>7. Blocks = {} /\ DOMAIN chain = {} BY DEF Blocks
<1>8. BlocksSaved /\ ChainLinked BY <1>7 DEF BlocksSaved, ChainLinked
<1>9. VerdictIsInChain BY DEF VerdictIsInChain
<1>10. BlockMatchesWindow BY <1>7 DEF BlockMatchesWindow, NoWindow
<1> QED BY <1>1, <1>4, <1>5, <1>6, <1>8, <1>9, <1>10 DEF IInv

\* Every step of the system keeps the inductive invariant.
LEMMA NextIInv == IInv /\ [Next]_vars => IInv'
<1> SUFFICES ASSUME IInv, [Next]_vars PROVE IInv' OBVIOUS
<1>1. CASE UNCHANGED vars
  <2>1. OneTodoLater BY <1>1 DEF vars, OneTodoLater
  <2>2. TypeOK'
    BY <1>1 DEF IInv, TypeOK, vars, redisVars, lawVars, windowVars, memory,
                handlerVars, envVars
  <2> QED BY <1>1, <2>1, <2>2, CalmStep
          DEF vars, redisVars, lawVars, windowVars, memory
<1>2. CASE \/ LeaseExpires
           \/ \E w \in Window : DeadlinePasses(w)
           \/ \E l \in Law : PauseEnds(l)
           \/ \E n \in Nct : Boot(n)
  BY <1>2, EnvironmentStep
<1>3. ASSUME NEW n \in Nct,
             \/ BecomeLeader(n) \/ TickStarts(n) \/ Crash(n)
             \/ HandlerError(n) \/ RetomarVentanaFails(n)
             \/ RecuperarDeliberacionFails(n) \/ HandleProposal(n)
             \/ HandleNonceResponse(n) \/ TrySealWindowTwice(n)
             \/ AppendBlockTwice(n)
      PROVE  IInv'
  BY <1>3, RoleStep, HandlerStep, DecisionStep, CalmCommandStep,
     AppendBlockStep DEF Decides, CalmCommand
<1>4. ASSUME NEW n \in Nct, Step(n) PROVE IInv'
  <2>1. CASE RenewLeadership(n) BY <2>1, RoleStep
  <2>2. CASE Decides(n) BY <2>2, DecisionStep
  <2>3. CASE RetomarVentana(n) BY <2>3, RetomarVentanaStep
  <2>4. CASE CalmCommand(n) BY <2>4, CalmCommandStep
  <2>5. CASE PointerCommand(n) BY <2>5, PointerCommandStep
  <2>6. CASE SaveLaw(n) \/ SetLawStatus(n) BY <2>6, StatusStep
  <2>7. CASE OpenWindowNumbered(n) BY <2>7, OpenWindowNumberedStep
  <2>8. CASE SaveWindow(n) BY <2>8, SaveWindowStep
  <2>9. CASE SetWindowResult(n) BY <2>9, SetWindowResultStep
  <2>10. CASE AppendBlock(n) BY <2>10, AppendBlockStep
  <2> QED BY <1>4, <2>1, <2>2, <2>3, <2>4, <2>5, <2>6, <2>7, <2>8, <2>9,
             <2>10 DEF Step, Decides, CalmCommand, PointerCommand
<1> QED BY <1>1, <1>2, <1>3, <1>4 DEF Next

\* The inductive invariant holds in every reachable state.
THEOREM Inductive == Spec => []IInv
BY InitIInv, NextIInv, PTL DEF Spec

\* Every variable keeps its type: in particular no command that closes a window
\* carries the status of a law, nor one about a law the result of a window.
THEOREM TypeCorrect == Spec => []TypeOK
<1>1. IInv => TypeOK BY DEF IInv
<1> QED BY <1>1, Inductive, PTL

\* append_block never forks the chain, whoever leads.
THEOREM ChainNeverForks == Spec => []ChainLinked
<1>1. IInv => ChainLinked BY DEF IInv
<1> QED BY <1>1, Inductive, PTL

\* No law is in force, or repealed, without the block that says so: not after
\* a crash between two commands of _seal, nor a Redis error inside it, nor
\* with two leaders closing the same window.
THEOREM VerdictsAreInTheChain == Spec => []VerdictIsInChain
<1>1. IInv => VerdictIsInChain BY DEF IInv
<1> QED BY <1>1, Inductive, PTL

\* A block agrees with the record of its window, because INCR gives a number
\* to one process only and that process saves it once.
THEOREM BlocksMatchWindows == Spec => []BlockMatchesWindow
<1>1. IInv => BlockMatchesWindow BY DEF IInv
<1> QED BY <1>1, Inductive, PTL
-----------------------------------------------------------------------------
(* The public record *)

\* What leaves the windows, the chain and the statuses alone leaves the record
\* alone.
LEMMA RecordSame ==
  ASSUME UNCHANGED <<window, chain, status>>
  PROVE  UNCHANGED Ledger!ledger
BY DEF Ledger!ledger, LawVerdict

\* Most steps are none of the record's business.
LEMMA QuietRecord ==
  ASSUME NEW n \in Nct,
         \/ Boot(n) \/ BecomeLeader(n) \/ TickStarts(n) \/ Crash(n)
         \/ HandlerError(n) \/ HandleProposal(n) \/ HandleNonceResponse(n)
         \/ RenewLeadership(n) \/ OpenWindowNumbered(n) \/ RetomarVentana(n)
         \/ Decides(n) \/ CalmCommand(n) \/ PointerCommand(n)
  PROVE  UNCHANGED Ledger!ledger
<1> USE DEF redisVars, lawVars, windowVars, memory, handlerVars, envVars
<1>1. CASE \/ Boot(n) \/ BecomeLeader(n) \/ TickStarts(n) \/ Crash(n)
           \/ HandlerError(n) \/ RenewLeadership(n)
  BY <1>1, RecordSame DEF Boot, BecomeLeader, TickStarts, Crash, HandlerError,
                          RenewLeadership
<1>2. CASE \/ HandleProposal(n) \/ HandleNonceResponse(n)
           \/ OpenWindowNumbered(n) \/ RetomarVentana(n)
  BY <1>2, RecordSame DEF HandleProposal, HandleNonceResponse,
                          OpenWindowNumbered, RetomarVentana
<1>3. CASE Decides(n)
  BY <1>3, RecordSame
     DEF Decides, MaybeOpenWindow, CheckDeliberation, CheckDeadline,
         RetomarVentanaFails, RecuperarDeliberacion,
         RecuperarDeliberacionFails, RequeueIfStatus
<1>4. CASE CalmCommand(n)
  BY <1>4, RecordSame
     DEF CalmCommand, SetLawAction, EnqueueLaw, RemoveFromQueue, SetCooldown,
         PublishChallenge, TrySealWindow, TrySealWindowTwice, LastBlockHash,
         SaveDeliberation, HoldDeliberation, ClearDeliberation, Acknowledge
<1>5. CASE PointerCommand(n)
  BY <1>5, RecordSame DEF PointerCommand, SetActiveWindow, ClearActiveWindow,
                          ReleaseWindowSeal
<1> QED BY <1>1, <1>2, <1>3, <1>4, <1>5

\* save_window opens a window of the ledger: its number was nobody's.
LEMMA SaveWindowOpens ==
  ASSUME IInv, NEW n \in Nct, SaveWindow(n)
  PROVE  Ledger!Next
<1> USE DEF lawVars
<1>0. TypeOK /\ TodoOK /\ Numbering BY DEF IInv
<1>1. At(n, "save_window") BY DEF SaveWindow
<1>2. PICK c : c = Cmd(n) OBVIOUS
<1>3. /\ c.win \in Window /\ ~Saved(c.win)
      /\ c.law \in Law /\ c.arg \in Ledger!Kind
  BY <1>0, <1>1, <1>2, HeadJustified
     DEF Numbering, Justified, LawCommand, Action, Ledger!Kind
<1>4. window[c.win].law = NoLaw
  BY <1>0, <1>3 DEF TypeOK, WindowRecord, Saved
<1>5. /\ window' = [window EXCEPT ![c.win] =
                      [law |-> c.law, action |-> c.arg, result |-> "open"]]
      /\ UNCHANGED <<chain, LawVerdict>>
  BY <1>2 DEF SaveWindow, LawVerdict
<1>6. Ledger!OpenWindow(c.win, c.law, c.arg)
  BY <1>4, <1>5 DEF Ledger!OpenWindow
<1> QED BY <1>3, <1>6 DEF Ledger!Next, Window

\* append_block appends the block of a window of the ledger, or nothing.
LEMMA AppendBlockAppends ==
  ASSUME IInv, NEW n \in Nct, AppendBlock(n) \/ AppendBlockTwice(n)
  PROVE  Ledger!Next \/ UNCHANGED Ledger!ledger
<1> USE DEF lawVars, windowVars
<1>0. TypeOK /\ TodoOK BY DEF IInv
<1>1. At(n, "append_block") BY DEF AppendBlock, AppendBlockTwice
<1>2. PICK w : w = Cmd(n).win OBVIOUS
<1>3. Saved(w) BY <1>0, <1>1, <1>2, HeadJustified DEF Justified, WindowCommand
<1>4. w \in 1..MaxWindows /\ window[w].law # NoLaw
  BY <1>3, ConstantsAssumption DEF Saved, Window
<1>5. UNCHANGED <<window, status>> BY DEF AppendBlock, AppendBlockTwice
<1>6. CASE UNCHANGED chain BY <1>5, <1>6, RecordSame
<1>7. CASE SameTip(n) /\ chain' = Append(chain, BlockOf(n, w))
  <2>1. BlockOf(n, w) = [prev |-> Len(chain), win |-> w,
                         law |-> window[w].law, action |-> window[w].action]
    BY <1>7 DEF SameTip, BlockOf
  <2>2. UNCHANGED <<window, LawVerdict>> BY <1>5 DEF LawVerdict
  <2>3. Ledger!AppendBlock(w)
    BY <1>4, <1>7, <2>1, <2>2 DEF Ledger!AppendBlock
  <2> QED BY <1>4, <2>3 DEF Ledger!Next
<1> QED BY <1>2, <1>6, <1>7 DEF AppendBlock, AppendBlockTwice

\* set_window_result closes a window, with success only after its block.
LEMMA SetWindowResultCloses ==
  ASSUME IInv, NEW n \in Nct, SetWindowResult(n)
  PROVE  Ledger!Next
<1> USE DEF lawVars
<1>0. TypeOK /\ TodoOK BY DEF IInv
<1>1. At(n, "set_window_result") BY DEF SetWindowResult
<1>2. PICK c : c = Cmd(n) OBVIOUS
<1>3. /\ Saved(c.win) /\ c.arg \in Ledger!Outcome
      /\ c.arg = "success" => Ledger!HasBlock(c.win)
  <2>1. Justified(c) /\ c.do = "set_window_result"
    BY <1>0, <1>1, <1>2, HeadJustified
  <2> QED BY <2>1 DEF Justified, WindowCommand, Result, Ledger!Outcome,
                      Ledger!HasBlock, Blocks
<1>4. c.win \in 1..MaxWindows /\ window[c.win].law # NoLaw
  BY <1>3, ConstantsAssumption DEF Saved, Window
<1>5. /\ window' = [window EXCEPT ![c.win].result = c.arg]
      /\ UNCHANGED <<chain, LawVerdict>>
  BY <1>2 DEF SetWindowResult, LawVerdict
<1>6. Ledger!CloseWindow(c.win, c.arg)
  BY <1>3, <1>4, <1>5 DEF Ledger!CloseWindow
<1> QED BY <1>3, <1>4, <1>6 DEF Ledger!Next

\* A status that is written judges its law as the chain does.
LEMMA StatusJudges ==
  ASSUME IInv, NEW n \in Nct, SaveLaw(n) \/ SetLawStatus(n)
  PROVE  Ledger!Next
<1> USE DEF windowVars
<1>0. TypeOK /\ TodoOK BY DEF IInv
<1>1. PICK l \in Law, s \in Status :
        /\ s = "promulgated" => SealedAs(l, "promulgacion")
        /\ s = "repealed" => SealedAs(l, "derogacion")
        /\ status' = [status EXCEPT ![l] = s]
  <2>1. CASE SaveLaw(n)
    <3>1. Cmd(n).law \in Law
      BY <1>0, <2>1, HeadJustified DEF SaveLaw, Justified, LawCommand
    <3> QED BY <2>1, <3>1 DEF SaveLaw, Status
  <2>2. CASE SetLawStatus(n)
    <3>1. Justified(Cmd(n)) /\ Cmd(n).do = "set_law_status"
      BY <1>0, <2>2, HeadJustified DEF SetLawStatus
    <3> QED BY <2>2, <3>1 DEF SetLawStatus, Justified, LawCommand
  <2> QED BY <2>1, <2>2
<1>2. PICK v : v = IF s \in {"promulgated", "repealed"} THEN s ELSE "pending"
  OBVIOUS
<1>3. /\ v \in {"pending", "promulgated", "repealed"}
      /\ v = "promulgated" => Ledger!Voted(l, "promulgacion")
      /\ v = "repealed" => Ledger!Voted(l, "derogacion")
  BY <1>1, <1>2 DEF SealedAs, Blocks, Ledger!Voted
<1>4. LawVerdict' = [LawVerdict EXCEPT ![l] = v]
  <2>1. \A k \in Law : status'[k] = IF k = l THEN s ELSE status[k]
    BY <1>0, <1>1 DEF TypeOK
  <2> QED BY <1>1, <1>2, <2>1 DEF LawVerdict
<1>5. UNCHANGED <<window, chain>> BY DEF SaveLaw, SetLawStatus
<1>6. Ledger!Judge(l, v) BY <1>3, <1>4, <1>5 DEF Ledger!Judge
<1> QED BY <1>1, <1>3, <1>6 DEF Ledger!Next

\* The initial state is an empty ledger.
LEMMA LedgerInit == Init => Ledger!Init
BY DEF Init, Ledger!Init, Window, NoWindow, Ledger!Empty, LawVerdict

\* Every step of the system is a step of the ledger, or none.
LEMMA LedgerNext == IInv /\ [Next]_vars => [Ledger!Next]_(Ledger!ledger)
<1> SUFFICES ASSUME IInv, [Next]_vars
             PROVE  Ledger!Next \/ UNCHANGED Ledger!ledger
  OBVIOUS
<1>1. CASE UNCHANGED vars
  BY <1>1, RecordSame DEF vars, redisVars, lawVars, windowVars
<1>2. CASE \/ LeaseExpires
           \/ \E w \in Window : DeadlinePasses(w)
           \/ \E l \in Law : PauseEnds(l)
  BY <1>2, RecordSame DEF LeaseExpires, DeadlinePasses, PauseEnds, redisVars,
                          lawVars, windowVars
<1>3. ASSUME NEW n \in Nct,
             \/ Boot(n) \/ BecomeLeader(n) \/ TickStarts(n) \/ Crash(n)
             \/ HandlerError(n) \/ RetomarVentanaFails(n)
             \/ RecuperarDeliberacionFails(n) \/ HandleProposal(n)
             \/ HandleNonceResponse(n) \/ TrySealWindowTwice(n)
             \/ AppendBlockTwice(n)
      PROVE  Ledger!Next \/ UNCHANGED Ledger!ledger
  BY <1>3, QuietRecord, AppendBlockAppends DEF Decides, CalmCommand
<1>4. ASSUME NEW n \in Nct, Step(n)
      PROVE  Ledger!Next \/ UNCHANGED Ledger!ledger
  <2>1. CASE \/ RenewLeadership(n) \/ OpenWindowNumbered(n)
             \/ RetomarVentana(n) \/ Decides(n) \/ CalmCommand(n)
             \/ PointerCommand(n)
    BY <2>1, QuietRecord
  <2>2. CASE SaveLaw(n) \/ SetLawStatus(n) BY <2>2, StatusJudges
  <2>3. CASE SaveWindow(n) BY <2>3, SaveWindowOpens
  <2>4. CASE SetWindowResult(n) BY <2>4, SetWindowResultCloses
  <2>5. CASE AppendBlock(n) BY <2>5, AppendBlockAppends
  <2> QED BY <1>4, <2>1, <2>2, <2>3, <2>4, <2>5
          DEF Step, Decides, CalmCommand, PointerCommand
<1> QED BY <1>1, <1>2, <1>3, <1>4 DEF Next

\* The replicated coordinators, with their crashes, errors and second leaders,
\* implement the ledger.
THEOREM Refinement == Spec => KeepsLedger
BY Inductive, LedgerInit, LedgerNext, PTL DEF Spec, KeepsLedger, Ledger!Spec
=============================================================================
