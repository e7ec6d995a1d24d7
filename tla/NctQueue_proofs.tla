--------------------------- MODULE NctQueue_proofs ---------------------------
(***************************************************************************)
(* No law of NctCoordinator is left behind, as long as one process leads   *)
(* at a time, no Redis command fails, a crash comes between two handlers   *)
(* and every leader takes over with become_leader.                         *)
(*                                                                         *)
(* The invariant says of every command that takes a law away from where it *)
(* is (from the queue, the deliberation or the window) that another one,   *)
(* after it in the same handler, puts the law somewhere else; and that     *)
(* whoever leads knows the window and the deliberation that Redis speaks   *)
(* of, or is about to, so that it neither opens a second window nor starts *)
(* a second deliberation over them.                                        *)
(***************************************************************************)
EXTENDS NctLeader_proofs

-----------------------------------------------------------------------------
(* The invariant *)

OnItsWay == {"pending_queue", "in_deliberation", "in_window"}

\* Somebody will find the law.
Placed(l) ==
  \/ l \in queue
  \/ status[l] = "in_deliberation" /\ delib = l
  \/ /\ status[l] = "in_window" /\ pointer # 0
     /\ window[pointer].law = l /\ Undecided(pointer)

\* The command puts the law in the queue, or ends its way.
Settles(c, l) ==
  /\ c.law = l
  /\ \/ c.do = "enqueue_law"
     \/ c.do = "set_law_status" /\ c.arg \notin OnItsWay

\* A command that will place the law, or end its way.
Places(c, l) ==
  \/ Settles(c, l)
  \/ c.do \in {"open_window", "save_window"} /\ c.law = l
  \/ c.do = "set_active_window" /\ window[c.win].law = l
  \/ c.do = "requeue_if" /\ c.law = l /\ c.arg = status[l]

WillPlace(n, l) == \E c \in Left(n) : Places(c, l)

\* Commands that are left to n.
Will(n, name, l) == \E d \in Left(n) : d.do = name /\ d.law = l
Opens(n, l) ==
  \E d \in Left(n) : d.do = "set_active_window" /\ window[d.win].law = l
Sets(n, l, s) ==
  \E d \in Left(n) : d.do = "set_law_status" /\ d.law = l /\ d.arg = s

\* The status of l is s, or is about to be.
Becomes(n, l, s) ==
  Sets(n, l, s) \/ (status[l] = s /\ ~Has(n, "set_law_status"))

\* What a command needs of the state and of the others, so that no law is left
\* behind.
Complete(n, c) ==
  /\ c.do = "save_law" => Will(n, "enqueue_law", c.law)
  /\ c.do = "set_law_status" =>
       /\ c.arg = "pending_queue" => Will(n, "enqueue_law", c.law)
       /\ c.arg = "in_deliberation" => Will(n, "hold", c.law)
       /\ c.arg = "in_window" => Opens(n, c.law)
  /\ c.do = "remove_from_queue" => Will(n, "hold", c.law) \/ Opens(n, c.law)
  /\ c.do = "save_deliberation" =>
       delib = NoLaw /\ held[n] = NoLaw /\ Will(n, "hold", c.law)
  /\ c.do = "hold" =>
       /\ delib = c.law \/ Will(n, "save_deliberation", c.law)
       /\ Becomes(n, c.law, "in_deliberation")
  /\ c.do \in {"open_window", "save_window", "set_active_window"} =>
       pointer = 0
  /\ c.do = "set_active_window" => Becomes(n, window[c.win].law, "in_window")
  /\ c.do = "append_block" =>
       tip[n] = Len(chain) \/ Has(n, "last_block_hash")
  /\ c.do = "set_window_result" =>
       \E d \in Left(n) : Settles(d, window[c.win].law)
  /\ c.do = "clear_active_window" /\ pointer # 0 /\ Undecided(pointer) =>
       \E d \in Left(n) : d.do = "set_window_result" /\ d.win = pointer
  /\ c.do = "clear_deliberation" /\ delib # NoLaw =>
       \E d \in Left(n) :
         \/ Settles(d, delib)
         \/ d.do = "open_window" /\ d.law = delib
         \/ d.do = "requeue_if" /\ d.law = delib /\ d.arg = "in_deliberation"

\* Who leads knows the window and the deliberation Redis speaks of, or is
\* about to.
Knows(n) ==
  /\ held[n] # NoLaw => delib = held[n]
  /\ leader[n] /\ pointer # 0 =>
       \/ active[n] = pointer \/ Has(n, "retomar_ventana")
       \/ Has(n, "clear_active_window") \/ Has(n, "release_window_seal")
  /\ leader[n] /\ delib # NoLaw =>
       \/ held[n] = delib \/ Has(n, "recuperar_deliberacion")
       \/ Has(n, "clear_deliberation") \/ Has(n, "hold")

AllPlaced ==
  \A l \in Law : status[l] \in OnItsWay =>
    Placed(l) \/ \E n \in Nct : WillPlace(n, l)

QInv ==
  /\ \A n \in Nct : Knows(n) /\ \A c \in Left(n) : Complete(n, c)
  /\ AllPlaced

-----------------------------------------------------------------------------
(* What is left of a handler *)

\* A command that is left to a process is justified.
LEMMA LeftJustified ==
  ASSUME TodoOK, NEW n \in Nct, NEW c \in Left(n)
  PROVE  c \in Command /\ Justified(c)
<1>1. todo[n] \in Seq(JustifiedCommand) BY DEF TodoOK
<1>2. PICK i \in DOMAIN todo[n] : c = todo[n][i] BY DEF Left, CommandsOf
<1>3. c \in JustifiedCommand BY <1>1, <1>2
<1> QED BY <1>3 DEF JustifiedCommand

\* A command is left until its turn comes, and what is left is new or was
\* there.
LEMMA LeftStays ==
  ASSUME NEW n, NEW name, NEW new, Goes(n, name, new)
  PROVE  /\ Cmd(n) \in Left(n) /\ Cmd(n).do = name
         /\ \A d \in Left(n) : d = Cmd(n) \/ d \in Rest(n)
         /\ \A d \in Left(n) : d.do # name => d \in Rest(n)
         /\ \A d \in Rest(n) : d \in Left(n) /\ d \in Left(n)'
         /\ \A d \in new : d \in Left(n)'
         /\ \A d \in Left(n)' : d \in new \/ d \in Rest(n)
         /\ \A d \in Rest(n) : d.do \notin Opening /\ MayFollow(d.do, name)
BY DEF Goes, MayFollow

\* A window that was saved keeps its law.
KeepsLaws == \A w : Saved(w) => window'[w].law = window[w].law

\* A command that would place a law still would, unless the law moved.
LEMMA PlacesStays ==
  ASSUME IInv, NEW n \in Nct, NEW d \in Left(n), NEW l, Places(d, l),
         KeepsLaws, status'[l] = status[l]
  PROVE  Places(d, l)'
<1>1. d.do = "set_active_window" => Saved(d.win)
  BY LeftJustified DEF IInv, Justified, WindowCommand
<1> QED BY <1>1 DEF Places, Settles, KeepsLaws

\* What the first command changes, as far as the others depend on it.
Leaves(n, name, new) ==
  /\ KeepsLaws
  /\ name \in {"set_window_result", "set_law_status", "enqueue_law"} =>
       /\ UNCHANGED pointer
       /\ pointer # 0 /\ Undecided(pointer)' =>
            /\ Undecided(pointer)
            /\ ~(name = "set_window_result" /\ Cmd(n).win = pointer)
  /\ name \in {"set_law_status", "remove_from_queue", "clear_deliberation"} =>
       UNCHANGED pointer
  /\ name \in {"set_law_status", "remove_from_queue"} => UNCHANGED delib
  /\ name = "save_deliberation" => delib' = Cmd(n).law
  /\ name \in {"save_deliberation", "remove_from_queue"} => UNCHANGED status
  /\ name = "set_law_status" => status'[Cmd(n).law] = Cmd(n).arg
  /\ name \in {"save_deliberation", "set_law_status", "remove_from_queue"} =>
       new = {}
  /\ name = "last_block_hash" => tip'[n] = Len(chain')

\* A status that is about to be set is set, or still about to be.
LEMMA BecomesStays ==
  ASSUME NEW n, NEW name, NEW new, Goes(n, name, new), Leaves(n, name, new),
         name \in {"save_deliberation", "set_law_status", "remove_from_queue"},
         NEW l, NEW s, Becomes(n, l, s)
  PROVE  Becomes(n, l, s)'
<1>1. new = {} BY DEF Leaves
<1>2. \A d \in Left(n)' : d \in Rest(n) BY <1>1, LeftStays
<1>3. CASE name = "set_law_status"
  <2>1. \A d \in Rest(n) : d.do # "set_law_status"
    BY <1>3, LeftStays DEF MayFollow
  <2>2. ~Has(n, "set_law_status")' BY <1>2, <2>1 DEF Has
  <2>3. Has(n, "set_law_status") BY <1>3, LeftStays DEF Has
  <2>4. Cmd(n).law = l /\ Cmd(n).arg = s
    BY <2>1, <2>3, LeftStays DEF Becomes, Sets
  <2> QED BY <1>3, <2>2, <2>4 DEF Becomes, Leaves
<1>4. CASE name \in {"save_deliberation", "remove_from_queue"}
  <2>1. UNCHANGED status BY <1>4 DEF Leaves
  <2>2. Sets(n, l, s) => Sets(n, l, s)' BY <1>4, LeftStays DEF Sets
  <2>3. ~Has(n, "set_law_status") => ~Has(n, "set_law_status")'
    BY <1>2, LeftStays DEF Has
  <2> QED BY <2>1, <2>2, <2>3 DEF Becomes
<1> QED BY <1>3, <1>4

\* What is left of a handler stays complete.
LEMMA RestComplete ==
  ASSUME IInv, QInv, NEW n \in Nct, NEW name, NEW new, Goes(n, name, new),
         Leaves(n, name, new), NEW c \in Rest(n)
  PROVE  Complete(n, c)'
<1>1. /\ Complete(n, c) /\ Complete(n, Cmd(n)) /\ c \in Left(n)
      /\ c.do \notin Opening /\ MayFollow(c.do, name)
      /\ Cmd(n).do = name
  BY LeftStays DEF QInv
<1>2. \A x, l : x # name /\ Will(n, x, l) => Will(n, x, l)'
  BY LeftStays DEF Will
<1>3. \A l : name # "set_active_window" /\ Opens(n, l) => Opens(n, l)'
  <2> SUFFICES ASSUME NEW l, name # "set_active_window", Opens(n, l)
               PROVE  Opens(n, l)'
    OBVIOUS
  <2>1. PICK d \in Left(n) : d.do = "set_active_window"
                             /\ window[d.win].law = l
    BY DEF Opens
  <2>2. Saved(d.win)
    BY <2>1, LeftJustified DEF IInv, Justified, WindowCommand
  <2>3. window'[d.win].law = l BY <2>1, <2>2 DEF Leaves, KeepsLaws
  <2>4. d \in Left(n)' BY <2>1, LeftStays
  <2> QED BY <2>1, <2>3, <2>4 DEF Opens
<1>4. c.do \notin {"save_law", "save_deliberation", "save_window",
                   "set_window_result", "clear_deliberation"}
  BY <1>1 DEF Opening
<1>5. CASE c.do = "set_law_status"
  <2>1. name \notin {"enqueue_law", "hold", "set_active_window"}
    BY <1>1, <1>5 DEF MayFollow
  <2> QED BY <1>1, <1>2, <1>3, <1>5, <2>1 DEF Complete
<1>6. CASE c.do = "remove_from_queue"
  <2>1. name \notin {"hold", "set_active_window"}
    BY <1>1, <1>6 DEF MayFollow
  <2> QED BY <1>1, <1>2, <1>3, <1>6, <2>1 DEF Complete
<1>7. CASE c.do = "hold"
  <2>1. name \in {"save_deliberation", "set_law_status", "remove_from_queue"}
    BY <1>1, <1>7 DEF MayFollow
  <2>2. Becomes(n, c.law, "in_deliberation")'
    BY <1>1, <1>7, <2>1, BecomesStays DEF Complete
  <2>3. delib' = c.law
    <3>1. \A d \in Rest(n) : d.do # "save_deliberation"
      BY LeftStays DEF Opening
    <3>2. CASE name = "save_deliberation"
      <4>1. c.law \in Law
        BY <1>1, <1>7, LeftJustified DEF IInv, Justified, LawCommand
      <4>2. delib = NoLaw /\ NoLaw # c.law
        BY <1>1, <3>2, <4>1, ConstantsAssumption DEF Complete
      <4>3. Will(n, "save_deliberation", c.law)
        BY <1>1, <1>7, <4>2 DEF Complete
      <4>4. Cmd(n).law = c.law BY <3>1, <4>3, LeftStays DEF Will
      <4> QED BY <3>2, <4>4 DEF Leaves
    <3>3. CASE name # "save_deliberation"
      <4>1. ~Will(n, "save_deliberation", c.law)
        BY <3>1, <3>3, LeftStays DEF Will
      <4> QED BY <1>1, <1>7, <2>1, <3>3, <4>1 DEF Complete, Leaves
    <3> QED BY <3>2, <3>3
  <2> QED BY <1>7, <2>2, <2>3 DEF Complete
<1>8. CASE c.do = "open_window"
  <2>1. UNCHANGED pointer BY <1>1, <1>8 DEF MayFollow, Leaves
  <2> QED BY <1>1, <1>8, <2>1 DEF Complete
<1>9. CASE c.do = "set_active_window"
  <2>1. name \in {"set_law_status", "remove_from_queue"}
    BY <1>1, <1>9 DEF MayFollow
  <2>2. UNCHANGED pointer BY <2>1 DEF Leaves
  <2>3. Saved(c.win)
    BY <1>1, <1>9, LeftJustified DEF IInv, Justified, WindowCommand
  <2>4. window'[c.win].law = window[c.win].law
    BY <2>3 DEF Leaves, KeepsLaws
  <2>5. PICK l : l = window[c.win].law OBVIOUS
  <2>6. Becomes(n, l, "in_window") BY <1>1, <1>9, <2>5 DEF Complete
  <2>7. Becomes(n, l, "in_window")' BY <2>1, <2>6, BecomesStays
  <2>8. Becomes(n, window[c.win].law, "in_window")'
    BY <2>4, <2>5, <2>7 DEF Becomes, Sets
  <2> QED BY <1>1, <1>9, <2>2, <2>8 DEF Complete
<1>10. CASE c.do = "append_block"
  <2>1. name = "last_block_hash" BY <1>1, <1>10 DEF MayFollow
  <2> QED BY <1>10, <2>1 DEF Complete, Leaves
<1>11. CASE c.do = "clear_active_window"
  <2>1. name \in {"set_window_result", "set_law_status", "enqueue_law"}
    BY <1>1, <1>11 DEF MayFollow
  <2>2. ~(pointer' # 0 /\ Undecided(pointer)')
    <3> SUFFICES ASSUME pointer' # 0, Undecided(pointer)' PROVE FALSE OBVIOUS
    <3>1. /\ pointer # 0 /\ Undecided(pointer)
          /\ ~(name = "set_window_result" /\ Cmd(n).win = pointer)
      BY <2>1 DEF Leaves
    <3>2. PICK d \in Left(n) : d.do = "set_window_result" /\ d.win = pointer
      BY <1>1, <1>11, <3>1 DEF Complete
    <3>3. d = Cmd(n) BY <3>2, LeftStays DEF Opening
    <3> QED BY <1>1, <3>1, <3>2, <3>3
  <2>3. ~(pointer # 0 /\ Undecided(pointer))' BY <2>2
  <2> QED BY <1>11, <2>3 DEF Complete
<1>12. CASE c.do \notin {"set_law_status", "remove_from_queue", "hold",
                         "open_window", "set_active_window", "append_block",
                         "clear_active_window"}
  BY <1>4, <1>12 DEF Complete
<1> QED BY <1>5, <1>6, <1>7, <1>8, <1>9, <1>10, <1>11, <1>12

-----------------------------------------------------------------------------
(* A step of the process that leads *)

\* The first command keeps track of where every law is.
Tracks(n) ==
  \A l \in Law :
    /\ status'[l] \in OnItsWay
    /\ status'[l] # status[l] \/ Placed(l) \/ Places(Cmd(n), l)
    => Placed(l)' \/ WillPlace(n, l)'

\* A step that leaves complete commands and keeps track of the laws.
LEMMA QMove ==
  ASSUME IInv, LInv, QInv, NEW n \in Nct, NEW name, NEW new,
         Goes(n, name, new), Leaves(n, name, new), UNCHANGED leader,
         \A m \in Nct : m # n => held'[m] = held[m],
         \A c \in new : Complete(n, c)',
         Knows(n)', Tracks(n)
  PROVE  QInv'
<1>1. TypeOK /\ Alone /\ leader[n] BY AtLeads DEF IInv, LInv, Goes
<1>2. \A m \in Nct : m # n =>
        /\ ~leader'[m] /\ held'[m] = NoLaw /\ todo'[m] = <<>>
        /\ Left(m) = {}
  BY <1>1, OthersRest DEF Goes
<1>3. \A c \in Left(n)' : Complete(n, c)' BY RestComplete, LeftStays
<1>4. ASSUME NEW m \in Nct, m # n
      PROVE  Knows(m)' /\ \A c \in Left(m)' : Complete(m, c)'
  <2>1. Left(m)' = {} BY <1>2, <1>4 DEF Left, CommandsOf
  <2> QED BY <1>2, <1>4, <2>1 DEF Knows
<1>5. AllPlaced'
  <2> SUFFICES ASSUME NEW l \in Law, status'[l] \in OnItsWay
               PROVE  Placed(l)' \/ WillPlace(n, l)'
    BY DEF AllPlaced
  <2>1. CASE status'[l] # status[l] \/ Placed(l) \/ Places(Cmd(n), l)
    BY <2>1 DEF Tracks
  <2>2. CASE status'[l] = status[l] /\ ~Placed(l) /\ ~Places(Cmd(n), l)
    <3>1. PICK m \in Nct : WillPlace(m, l)
      BY <2>2 DEF QInv, AllPlaced
    <3>2. m = n BY <1>2, <3>1 DEF WillPlace
    <3>3. PICK d \in Left(n) : Places(d, l) BY <3>1, <3>2 DEF WillPlace
    <3>4. d \in Left(n)' BY <2>2, <3>3, LeftStays
    <3>5. Places(d, l)' BY <2>2, <3>3, PlacesStays DEF Leaves
    <3> QED BY <3>4, <3>5 DEF WillPlace
  <2> QED BY <2>1, <2>2
<1> QED BY <1>3, <1>4, <1>5 DEF QInv

\* A law that is where it was and would be found there.
LEMMA PlacedStays ==
  ASSUME UNCHANGED <<queue, status, delib, pointer, window>>, NEW l, Placed(l)
  PROVE  Placed(l)'
BY DEF Placed, Undecided

\* What these commands do is done when another one comes.
LEMMA HasStays ==
  ASSUME NEW n, NEW name, NEW new, Goes(n, name, new), NEW x, x # name
  PROVE  Has(n, x) => Has(n, x)'
BY LeftStays DEF Has

\* What a leader knows it still knows.
LEMMA KnowsStays ==
  ASSUME QInv, NEW n \in Nct, NEW name, NEW new, Goes(n, name, new),
         name \notin {"retomar_ventana", "clear_active_window",
                      "release_window_seal", "recuperar_deliberacion",
                      "clear_deliberation", "hold"},
         UNCHANGED <<leader, active, held, delib, pointer>>
  PROVE  Knows(n)'
<1>1. /\ Has(n, "retomar_ventana") => Has(n, "retomar_ventana")'
      /\ Has(n, "clear_active_window") => Has(n, "clear_active_window")'
      /\ Has(n, "release_window_seal") => Has(n, "release_window_seal")'
      /\ Has(n, "recuperar_deliberacion") =>
           Has(n, "recuperar_deliberacion")'
      /\ Has(n, "clear_deliberation") => Has(n, "clear_deliberation")'
      /\ Has(n, "hold") => Has(n, "hold")'
  BY HasStays
<1>2. Knows(n) BY DEF QInv
<1> QED BY <1>1, <1>2 DEF Knows

\* A step that changes nothing the invariant speaks of but what is left.
LEMMA QQuiet ==
  ASSUME IInv, LInv, QInv, NEW n \in Nct, NEW name, NEW new,
         Goes(n, name, new), name \notin {"set_law_status", "retomar_ventana",
                                          "save_deliberation", "hold",
                                          "clear_active_window",
                                          "release_window_seal",
                                          "recuperar_deliberacion",
                                          "clear_deliberation"},
         name = "remove_from_queue" => new = {},
         name = "last_block_hash" => tip'[n] = Len(chain'),
         name # "set_window_result",
         UNCHANGED <<leader, active, held, queue, status, delib, pointer,
                     window>>,
         \A c \in new : Complete(n, c)',
         \A l \in Law : Places(Cmd(n), l) => WillPlace(n, l)'
  PROVE  QInv'
<1>1. Leaves(n, name, new) BY DEF Leaves, KeepsLaws, Undecided
<1>2. Tracks(n) BY PlacedStays DEF Tracks
<1>3. Knows(n)' BY KnowsStays
<1> QED BY <1>1, <1>2, <1>3, QMove

-----------------------------------------------------------------------------
(* The commands *)

\* The commands that are about neither a law nor a window that is open.
AsideCommand(n) ==
  \/ SetLawAction(n) \/ SetCooldown(n) \/ PublishChallenge(n)
  \/ LastBlockHash(n) \/ Acknowledge(n)

\* A command that is beside the way of the laws keeps the invariant.
LEMMA AsideQueues ==
  ASSUME IInv, LInv, QInv, NEW n \in Nct, AsideCommand(n)
  PROVE  QInv'
<1>1. PICK name :
        /\ At(n, name)
        /\ name \in {"set_law_action", "set_cooldown", "publish_challenge",
                     "last_block_hash", "ack"}
        /\ name = "last_block_hash" => LastBlockHash(n)
  BY DEF AsideCommand, SetLawAction, SetCooldown, PublishChallenge,
         LastBlockHash, Acknowledge
<1>2. Done(n) /\ UNCHANGED <<leader, active, held, queue, status, delib,
                             pointer, window, chain>>
  BY DEF AsideCommand, SetLawAction, SetCooldown, PublishChallenge,
         LastBlockHash, Acknowledge, redisVars, lawVars, windowVars, memory
<1>3. Goes(n, name, {})
  <2>1. TypeOK BY DEF IInv
  <2>2. InOrder(todo[n]) BY <1>1, AtLeads
  <2> QED BY <1>1, <1>2, <2>1, <2>2, DoneGoes
<1>4. name = "last_block_hash" => tip'[n] = Len(chain')
  BY <1>1, <1>2 DEF LastBlockHash, IInv, TypeOK
<1>5. \A l \in Law : ~Places(Cmd(n), l)
  BY <1>1, <1>3, LeftStays DEF Places, Settles
<1> QED BY <1>1, <1>2, <1>3, <1>4, <1>5, QQuiet

\* The leader has the lease, so it keeps the role.
LEMMA RenewQueues ==
  ASSUME IInv, LInv, QInv, NEW n \in Nct, RenewLeadership(n)
  PROVE  QInv'
<1>1. leader[n] /\ InOrder(todo[n]) BY AtLeads DEF RenewLeadership
<1>2. lease = n BY <1>1 DEF LInv, Alone
<1>3. UNCHANGED <<leader, active, held, queue, status, delib, pointer,
                  window, chain>>
  BY <1>2 DEF RenewLeadership, redisVars, lawVars, windowVars, memory
<1>4. TypeOK /\ At(n, "renew_leadership") /\ Done(n)
  BY DEF IInv, RenewLeadership
<1>5. Goes(n, "renew_leadership", {}) BY <1>1, <1>4, DoneGoes
<1>6. \A l \in Law : ~Places(Cmd(n), l)
  BY <1>5, LeftStays DEF Places, Settles
<1> QED BY <1>3, <1>5, <1>6, QQuiet

\* The law is in the queue.
LEMMA EnqueueQueues ==
  ASSUME IInv, LInv, QInv, NEW n \in Nct, EnqueueLaw(n)
  PROVE  QInv'
<1>1. InOrder(todo[n]) BY AtLeads DEF EnqueueLaw
<1>2. UNCHANGED <<leader, active, held, status, delib, pointer, window,
                  chain>>
  BY DEF EnqueueLaw, windowVars, memory
<1>3. TypeOK /\ At(n, "enqueue_law") /\ Done(n) BY DEF IInv, EnqueueLaw
<1>4. Goes(n, "enqueue_law", {}) BY <1>1, <1>3, DoneGoes
<1>5. Leaves(n, "enqueue_law", {}) BY <1>2 DEF Leaves, KeepsLaws, Undecided
<1>6. queue' = queue \cup {Cmd(n).law} BY DEF EnqueueLaw
<1>7. Tracks(n)
  <2>1. \A l \in Law : Places(Cmd(n), l) => l = Cmd(n).law
    BY <1>4, LeftStays DEF Places, Settles
  <2>2. \A l \in Law : Placed(l) => Placed(l)'
    BY <1>2, <1>6 DEF Placed, Undecided
  <2> QED BY <1>2, <1>6, <2>1, <2>2 DEF Tracks, Placed
<1>8. Knows(n)' BY <1>2, <1>4, KnowsStays
<1> QED BY <1>2, <1>4, <1>5, <1>7, <1>8, QMove

\* A law leaves the queue for the deliberation, or for the window that is about
\* to be the active one.
LEMMA RemoveQueues ==
  ASSUME IInv, LInv, QInv, NEW n \in Nct, RemoveFromQueue(n)
  PROVE  QInv'
<1>1. InOrder(todo[n]) BY AtLeads DEF RemoveFromQueue
<1>2. UNCHANGED <<leader, active, held, status, delib, pointer, window,
                  chain>>
  BY DEF RemoveFromQueue, windowVars, memory
<1>3. TypeOK /\ At(n, "remove_from_queue") /\ Done(n)
  BY DEF IInv, RemoveFromQueue
<1>4. Goes(n, "remove_from_queue", {}) BY <1>1, <1>3, DoneGoes
<1>5. Leaves(n, "remove_from_queue", {})
  BY <1>2 DEF Leaves, KeepsLaws, Undecided
<1>6. PICK l : l = Cmd(n).law OBVIOUS
<1>7. queue' = queue \ {l} BY <1>6 DEF RemoveFromQueue
<1>8. \A d \in Left(n) : d.do \notin {"save_deliberation", "set_law_status"}
  BY <1>4, LeftStays DEF Opening, MayFollow
<1>9. Placed(l)' \/ WillPlace(n, l)' \/ status[l] \notin OnItsWay
  <2>1. Complete(n, Cmd(n)) /\ Cmd(n).do = "remove_from_queue"
    BY <1>4, LeftStays DEF QInv
  <2>2. CASE Will(n, "hold", l)
    <3>1. PICK d \in Left(n) : d.do = "hold" /\ d.law = l BY <2>2 DEF Will
    <3>2. /\ delib = l \/ Will(n, "save_deliberation", l)
          /\ Becomes(n, l, "in_deliberation")
      BY <3>1 DEF QInv, Complete
    <3>3. delib = l /\ status[l] = "in_deliberation"
      BY <1>8, <3>2 DEF Will, Becomes, Sets
    <3> QED BY <1>2, <3>3 DEF Placed
  <2>3. CASE Opens(n, l)
    <3>1. PICK d \in Left(n) :
            d.do = "set_active_window" /\ window[d.win].law = l
      BY <2>3 DEF Opens
    <3>2. d \in Left(n)' BY <1>4, <3>1, LeftStays
    <3>3. Places(d, l)' BY <1>2, <3>1 DEF Places
    <3> QED BY <3>2, <3>3 DEF WillPlace
  <2> QED BY <1>6, <2>1, <2>2, <2>3 DEF Complete
<1>10. Tracks(n)
  <2>1. \A k \in Law : ~Places(Cmd(n), k)
    BY <1>4, LeftStays DEF Places, Settles
  <2>2. \A k \in Law : k # l /\ Placed(k) => Placed(k)'
    BY <1>2, <1>7 DEF Placed, Undecided
  <2> QED BY <1>2, <1>9, <2>1, <2>2 DEF Tracks
<1>11. Knows(n)' BY <1>2, <1>4, KnowsStays
<1> QED BY <1>2, <1>4, <1>5, <1>10, <1>11, QMove

\* The window that is saved is about to become the active one.
LEMMA SaveWindowQueues ==
  ASSUME IInv, LInv, QInv, NEW n \in Nct, SaveWindow(n)
  PROVE  QInv'
<1>1. InOrder(todo[n]) BY AtLeads DEF SaveWindow
<1>2. UNCHANGED <<leader, active, held, queue, status, delib, pointer, chain>>
  BY DEF SaveWindow, lawVars, memory
<1>3. PICK l, w : l = Cmd(n).law /\ w = Cmd(n).win OBVIOUS
<1>4. PICK a, b, c, d :
        /\ a = SetStatus(l, "in_window") /\ b = OnLaw("remove_from_queue", l)
        /\ c = OnWindow("set_active_window", w)
        /\ d = OnWindow("publish_challenge", w)
  OBVIOUS
<1>5. /\ a.do = "set_law_status" /\ a.law = l /\ a.arg = "in_window"
      /\ b.do = "remove_from_queue" /\ b.law = l
      /\ c.do = "set_active_window" /\ c.win = w
      /\ d.do = "publish_challenge"
  BY <1>4 DEF OnLaw, OnWindow, SetStatus, Command4
<1>6. /\ l \in Law /\ w \in Window /\ ~Saved(w)
      /\ Goes(n, "save_window", {a, b, c, d})
  BY <1>1, <1>3, <1>4, SaveWindowGoes
<1>7. /\ window'[w].law = l
      /\ \A v \in Window : v # w => window'[v] = window[v]
  BY <1>3, <1>6 DEF SaveWindow, IInv, TypeOK
<1>8. \A v : Saved(v) => window'[v] = window[v]
  BY <1>6, <1>7 DEF Saved
<1>9. Leaves(n, "save_window", {a, b, c, d})
  BY <1>2, <1>8 DEF Leaves, KeepsLaws
<1>10. pointer = 0
  <2>1. Complete(n, Cmd(n)) /\ Cmd(n).do = "save_window"
    BY <1>6, LeftStays DEF QInv
  <2> QED BY <2>1 DEF Complete
<1>11. /\ a \in Left(n)' /\ b \in Left(n)' /\ c \in Left(n)'
  BY <1>6, LeftStays
<1>12. Opens(n, l)' BY <1>5, <1>7, <1>11 DEF Opens
<1>13. Sets(n, l, "in_window")' BY <1>5, <1>11 DEF Sets
<1>14. Complete(n, a)' BY <1>5, <1>12 DEF Complete
<1>15. Complete(n, b)' BY <1>5, <1>12 DEF Complete
<1>16. Complete(n, c)'
  <2>1. Becomes(n, window[c.win].law, "in_window")'
    BY <1>5, <1>7, <1>13 DEF Becomes, Sets
  <2> QED BY <1>2, <1>5, <1>10, <2>1 DEF Complete
<1>17. Complete(n, d)' BY <1>5 DEF Complete
<1>18. Tracks(n)
  <2>1. \A k \in Law : Placed(k) => Placed(k)' BY <1>2, <1>10 DEF Placed
  <2>2. \A k \in Law : Places(Cmd(n), k) => k = l
    BY <1>3, <1>6, LeftStays DEF Places, Settles
  <2>3. Places(c, l)' BY <1>5, <1>7 DEF Places
  <2>4. WillPlace(n, l)' BY <1>11, <2>3 DEF WillPlace
  <2> QED BY <1>2, <2>1, <2>2, <2>4 DEF Tracks
<1>19. Knows(n)' BY <1>2, <1>6, KnowsStays
<1> QED BY <1>2, <1>6, <1>9, <1>14, <1>15, <1>16, <1>17, <1>18, <1>19, QMove

\* The window becomes the active one, where there was none.
LEMMA SetActiveQueues ==
  ASSUME IInv, LInv, EInv, QInv, NEW n \in Nct, SetActiveWindow(n)
  PROVE  QInv'
<1>1. InOrder(todo[n]) BY AtLeads DEF SetActiveWindow
<1>2. UNCHANGED <<leader, held, queue, status, delib, window, chain>>
  BY DEF SetActiveWindow, lawVars, memory
<1>3. TypeOK /\ TodoOK /\ At(n, "set_active_window") /\ Done(n)
  BY DEF IInv, SetActiveWindow
<1>4. Goes(n, "set_active_window", {}) BY <1>1, <1>3, DoneGoes
<1>5. PICK w : w = Cmd(n).win OBVIOUS
<1>6. Saved(w)
  BY <1>3, <1>5, HeadJustified
     DEF JustifiedCommand, Justified, WindowCommand, At, Cmd
<1>7. w # 0 BY <1>6 DEF Saved, Window
<1>8. pointer' = w /\ active'[n] = w
  BY <1>3, <1>5 DEF SetActiveWindow, TypeOK
<1>9. Leaves(n, "set_active_window", {}) BY <1>2 DEF Leaves, KeepsLaws
<1>10. /\ Complete(n, Cmd(n)) /\ Undone(n, Cmd(n))
       /\ Cmd(n).do = "set_active_window"
  BY <1>4, LeftStays DEF QInv, EInv
<1>11. pointer = 0 /\ Undecided(w) BY <1>5, <1>10 DEF Complete, Undone
<1>12. status[window[w].law] = "in_window"
  <2>1. \A d \in Left(n) : d.do # "set_law_status"
    BY <1>4, LeftStays DEF MayFollow
  <2> QED BY <1>5, <1>10, <2>1 DEF Complete, Becomes, Sets
<1>13. Tracks(n)
  <2>1. \A l \in Law : Placed(l) => Placed(l)'
    BY <1>2, <1>11 DEF Placed
  <2>2. \A l \in Law : Places(Cmd(n), l) => window[w].law = l
    BY <1>5, <1>10 DEF Places, Settles
  <2>3. \A l \in Law : window[w].law = l => Placed(l)'
    BY <1>2, <1>7, <1>8, <1>11, <1>12 DEF Placed, Undecided
  <2> QED BY <1>2, <2>1, <2>2, <2>3 DEF Tracks
<1>14. Knows(n)'
  <2>1. /\ Has(n, "recuperar_deliberacion") =>
             Has(n, "recuperar_deliberacion")'
        /\ Has(n, "clear_deliberation") => Has(n, "clear_deliberation")'
        /\ Has(n, "hold") => Has(n, "hold")'
    BY <1>4, HasStays
  <2> QED BY <1>2, <1>8, <2>1 DEF QInv, Knows
<1> QED BY <1>2, <1>4, <1>9, <1>13, <1>14, QMove

\* The window that is no longer the active one has its result.
LEMMA ClearActiveQueues ==
  ASSUME IInv, LInv, QInv, NEW n \in Nct, ClearActiveWindow(n)
  PROVE  QInv'
<1>1. InOrder(todo[n]) BY AtLeads DEF ClearActiveWindow
<1>2. UNCHANGED <<leader, held, queue, status, delib, window, chain>>
  BY DEF ClearActiveWindow, lawVars, memory
<1>3. TypeOK /\ At(n, "clear_active_window") /\ Done(n)
  BY DEF IInv, ClearActiveWindow
<1>4. Goes(n, "clear_active_window", {}) BY <1>1, <1>3, DoneGoes
<1>5. pointer' = 0 BY DEF ClearActiveWindow
<1>6. Leaves(n, "clear_active_window", {}) BY <1>2 DEF Leaves, KeepsLaws
<1>7. /\ Complete(n, Cmd(n)) /\ Cmd(n).do = "clear_active_window"
      /\ \A d \in Left(n) : d.do # "set_window_result"
  BY <1>4, LeftStays DEF QInv, Opening
<1>8. ~(pointer # 0 /\ Undecided(pointer)) BY <1>7 DEF Complete
<1>9. Tracks(n)
  <2>1. \A l \in Law : Placed(l) => Placed(l)'
    BY <1>2, <1>8 DEF Placed
  <2>2. \A l \in Law : ~Places(Cmd(n), l) BY <1>7 DEF Places, Settles
  <2> QED BY <1>2, <2>1, <2>2 DEF Tracks
<1>10. Knows(n)'
  <2>1. /\ Has(n, "recuperar_deliberacion") =>
             Has(n, "recuperar_deliberacion")'
        /\ Has(n, "clear_deliberation") => Has(n, "clear_deliberation")'
        /\ Has(n, "hold") => Has(n, "hold")'
    BY <1>4, HasStays
  <2> QED BY <1>2, <1>5, <2>1 DEF QInv, Knows
<1> QED BY <1>2, <1>4, <1>6, <1>9, <1>10, QMove

\* The law of a window that gets its result gets its own, or is queued.
LEMMA SetResultQueues ==
  ASSUME IInv, LInv, QInv, NEW n \in Nct, SetWindowResult(n)
  PROVE  QInv'
<1>1. InOrder(todo[n]) BY AtLeads DEF SetWindowResult
<1>2. UNCHANGED <<leader, active, held, queue, status, delib, pointer, chain>>
  BY DEF SetWindowResult, lawVars, memory
<1>3. TypeOK /\ TodoOK /\ At(n, "set_window_result") /\ Done(n)
  BY DEF IInv, SetWindowResult
<1>4. Goes(n, "set_window_result", {}) BY <1>1, <1>3, DoneGoes
<1>5. PICK w, r : w = Cmd(n).win /\ r = Cmd(n).arg OBVIOUS
<1>6. Saved(w) /\ r \in Result \ {"open"}
  BY <1>3, <1>5, HeadJustified
     DEF JustifiedCommand, Justified, WindowCommand, At, Cmd
<1>7. /\ window'[w].result = r /\ window'[w].law = window[w].law
      /\ \A v \in Window : v # w => window'[v] = window[v]
  BY <1>3, <1>5, <1>6 DEF SetWindowResult, TypeOK, WindowRecord, Saved
<1>8. KeepsLaws BY <1>6, <1>7 DEF KeepsLaws, Saved
<1>9. pointer # 0 => pointer \in Window
  BY DEF IInv, PointersSaved, Saved
<1>10. ~Undecided(w)' BY <1>6, <1>7 DEF Undecided
<1>11. pointer # 0 /\ pointer # w => window'[pointer] = window[pointer]
  BY <1>7, <1>9
<1>12. Leaves(n, "set_window_result", {})
  <2>1. pointer # 0 /\ Undecided(pointer)' =>
          Undecided(pointer) /\ w # pointer
    BY <1>2, <1>10, <1>11 DEF Undecided
  <2> QED BY <1>2, <1>5, <1>8, <2>1 DEF Leaves
<1>13. WillPlace(n, window[w].law)'
  <2>1. Complete(n, Cmd(n)) /\ Cmd(n).do = "set_window_result"
    BY <1>4, LeftStays DEF QInv
  <2>2. PICK d \in Left(n) : Settles(d, window[w].law)
    BY <1>5, <2>1 DEF Complete
  <2>3. d \in Left(n)' BY <1>4, <2>2, LeftStays DEF Settles
  <2>4. Places(d, window[w].law)' BY <1>7, <2>2 DEF Places, Settles
  <2> QED BY <1>7, <2>3, <2>4 DEF WillPlace
<1>14. Tracks(n)
  <2>1. \A l \in Law : ~Places(Cmd(n), l)
    BY <1>4, LeftStays DEF Places, Settles
  <2>2. ASSUME NEW l \in Law, Placed(l)
        PROVE  Placed(l)' \/ WillPlace(n, l)'
    <3>1. CASE l \in queue \/ (status[l] = "in_deliberation" /\ delib = l)
      BY <1>2, <3>1 DEF Placed
    <3>2. CASE /\ status[l] = "in_window" /\ pointer # 0
               /\ window[pointer].law = l /\ Undecided(pointer)
      <4>1. CASE pointer = w BY <1>7, <1>13, <3>2, <4>1
      <4>2. CASE pointer # w
        BY <1>2, <1>11, <3>2, <4>2 DEF Placed, Undecided
      <4> QED BY <4>1, <4>2
    <3> QED BY <2>2, <3>1, <3>2 DEF Placed
  <2> QED BY <1>2, <2>1, <2>2 DEF Tracks
<1>15. Knows(n)' BY <1>2, <1>4, KnowsStays
<1> QED BY <1>2, <1>4, <1>12, <1>14, <1>15, QMove

\* A law that is saved is queued next.
LEMMA SaveLawQueues ==
  ASSUME IInv, LInv, QInv, NEW n \in Nct, SaveLaw(n)
  PROVE  QInv'
<1>1. InOrder(todo[n]) BY AtLeads DEF SaveLaw
<1>2. UNCHANGED <<leader, active, held, queue, delib, pointer, window, chain>>
  BY DEF SaveLaw, windowVars, memory
<1>3. TypeOK /\ At(n, "save_law") /\ Done(n) BY DEF IInv, SaveLaw
<1>4. Goes(n, "save_law", {}) BY <1>1, <1>3, DoneGoes
<1>5. Leaves(n, "save_law", {}) BY <1>2 DEF Leaves, KeepsLaws
<1>6. PICK l : l = Cmd(n).law OBVIOUS
<1>7. \A k \in Law : k # l => status'[k] = status[k]
  BY <1>3, <1>6 DEF SaveLaw, TypeOK
<1>8. WillPlace(n, l)'
  <2>1. Complete(n, Cmd(n)) /\ Cmd(n).do = "save_law"
    BY <1>4, LeftStays DEF QInv
  <2>2. PICK d \in Left(n) : d.do = "enqueue_law" /\ d.law = l
    BY <1>6, <2>1 DEF Complete, Will
  <2>3. d \in Left(n)' BY <1>4, <2>2, LeftStays
  <2> QED BY <2>2, <2>3 DEF WillPlace, Places, Settles
<1>9. Tracks(n)
  <2>1. \A k \in Law : ~Places(Cmd(n), k)
    BY <1>4, LeftStays DEF Places, Settles
  <2>2. \A k \in Law : k # l /\ Placed(k) => Placed(k)'
    BY <1>2, <1>7 DEF Placed, Undecided
  <2> QED BY <1>7, <1>8, <2>1, <2>2 DEF Tracks
<1>10. Knows(n)' BY <1>2, <1>4, KnowsStays
<1> QED BY <1>2, <1>4, <1>5, <1>9, <1>10, QMove

\* A law that changes its status is, or is about to be, where the new one says.
LEMMA SetStatusQueues ==
  ASSUME IInv, LInv, QInv, NEW n \in Nct, SetLawStatus(n)
  PROVE  QInv'
<1>1. InOrder(todo[n]) BY AtLeads DEF SetLawStatus
<1>2. UNCHANGED <<leader, active, held, queue, delib, pointer, window, chain>>
  BY DEF SetLawStatus, windowVars, memory
<1>3. TypeOK /\ TodoOK /\ At(n, "set_law_status") /\ Done(n)
  BY DEF IInv, SetLawStatus
<1>4. Goes(n, "set_law_status", {}) BY <1>1, <1>3, DoneGoes
<1>5. PICK l, s : l = Cmd(n).law /\ s = Cmd(n).arg OBVIOUS
<1>6. l \in Law
  BY <1>3, <1>5, HeadJustified
     DEF JustifiedCommand, Justified, LawCommand, At, Cmd
<1>7. status'[l] = s /\ \A k \in Law : k # l => status'[k] = status[k]
  BY <1>3, <1>5, <1>6 DEF SetLawStatus, TypeOK
<1>8. Leaves(n, "set_law_status", {})
  BY <1>2, <1>5, <1>7 DEF Leaves, KeepsLaws, Undecided
<1>9. Complete(n, Cmd(n)) /\ Cmd(n).do = "set_law_status"
  BY <1>4, LeftStays DEF QInv
<1>10. ASSUME s \in OnItsWay
       PROVE  Placed(l)' \/ WillPlace(n, l)'
  <2>1. CASE s = "pending_queue"
    <3>1. PICK d \in Left(n) : d.do = "enqueue_law" /\ d.law = l
      BY <1>5, <1>9, <2>1 DEF Complete, Will
    <3>2. d \in Left(n)' BY <1>4, <3>1, LeftStays
    <3> QED BY <3>1, <3>2 DEF WillPlace, Places, Settles
  <2>2. CASE s = "in_deliberation"
    <3>1. PICK d \in Left(n) : d.do = "hold" /\ d.law = l
      BY <1>5, <1>9, <2>2 DEF Complete, Will
    <3>2. delib = l \/ Will(n, "save_deliberation", l)
      BY <3>1 DEF QInv, Complete
    <3>3. ~Will(n, "save_deliberation", l)
      BY <1>4, LeftStays DEF Will, Opening
    <3> QED BY <1>2, <1>7, <2>2, <3>2, <3>3 DEF Placed
  <2>3. CASE s = "in_window"
    <3>1. PICK d \in Left(n) :
            d.do = "set_active_window" /\ window[d.win].law = l
      BY <1>5, <1>9, <2>3 DEF Complete, Opens
    <3>2. d \in Left(n)' BY <1>4, <3>1, LeftStays
    <3> QED BY <1>2, <3>1, <3>2 DEF WillPlace, Places
  <2> QED BY <1>10, <2>1, <2>2, <2>3 DEF OnItsWay
<1>11. Tracks(n)
  <2>1. \A k \in Law : Places(Cmd(n), k) => k = l
    BY <1>5, <1>9 DEF Places, Settles
  <2>2. \A k \in Law : k # l /\ Placed(k) => Placed(k)'
    BY <1>2, <1>7 DEF Placed, Undecided
  <2> QED BY <1>7, <1>10, <2>1, <2>2 DEF Tracks
<1>12. Knows(n)' BY <1>2, <1>4, KnowsStays
<1> QED BY <1>2, <1>4, <1>8, <1>11, <1>12, QMove

\* A deliberation is saved where there was none.
LEMMA SaveDeliberationQueues ==
  ASSUME IInv, LInv, QInv, NEW n \in Nct, SaveDeliberation(n)
  PROVE  QInv'
<1>1. InOrder(todo[n]) BY AtLeads DEF SaveDeliberation
<1>2. UNCHANGED <<leader, active, held, queue, status, pointer, window, chain>>
  BY DEF SaveDeliberation, lawVars, windowVars, memory
<1>3. TypeOK /\ At(n, "save_deliberation") /\ Done(n)
  BY DEF IInv, SaveDeliberation
<1>4. Goes(n, "save_deliberation", {}) BY <1>1, <1>3, DoneGoes
<1>5. delib' = Cmd(n).law BY DEF SaveDeliberation
<1>6. Leaves(n, "save_deliberation", {}) BY <1>2, <1>5 DEF Leaves, KeepsLaws
<1>7. Complete(n, Cmd(n)) /\ Cmd(n).do = "save_deliberation"
  BY <1>4, LeftStays DEF QInv
<1>8. delib = NoLaw /\ held[n] = NoLaw /\ Will(n, "hold", Cmd(n).law)
  BY <1>7 DEF Complete
<1>9. Tracks(n)
  <2>1. \A l \in Law : Placed(l) => Placed(l)'
    BY <1>2, <1>8, ConstantsAssumption DEF Placed, Undecided
  <2>2. \A l \in Law : ~Places(Cmd(n), l) BY <1>7 DEF Places, Settles
  <2> QED BY <1>2, <2>1, <2>2 DEF Tracks
<1>10. Knows(n)'
  <2>1. Has(n, "hold") BY <1>8 DEF Will, Has
  <2>2. /\ Has(n, "retomar_ventana") => Has(n, "retomar_ventana")'
        /\ Has(n, "clear_active_window") => Has(n, "clear_active_window")'
        /\ Has(n, "release_window_seal") => Has(n, "release_window_seal")'
        /\ Has(n, "hold") => Has(n, "hold")'
    BY <1>4, HasStays
  <2> QED BY <1>2, <1>8, <2>1, <2>2 DEF QInv, Knows
<1> QED BY <1>2, <1>4, <1>6, <1>9, <1>10, QMove

\* The leader holds the deliberation it has saved.
LEMMA HoldQueues ==
  ASSUME IInv, LInv, QInv, NEW n \in Nct, HoldDeliberation(n)
  PROVE  QInv'
<1>1. InOrder(todo[n]) BY AtLeads DEF HoldDeliberation
<1>2. UNCHANGED <<leader, active, queue, status, delib, pointer, window,
                  chain>>
  BY DEF HoldDeliberation, redisVars, lawVars, windowVars
<1>3. TypeOK /\ At(n, "hold") /\ Done(n) BY DEF IInv, HoldDeliberation
<1>4. Goes(n, "hold", {}) BY <1>1, <1>3, DoneGoes
<1>5. /\ held'[n] = Cmd(n).law
      /\ \A m \in Nct : m # n => held'[m] = held[m]
  BY <1>3 DEF HoldDeliberation, TypeOK
<1>6. Leaves(n, "hold", {}) BY <1>2 DEF Leaves, KeepsLaws
<1>7. Complete(n, Cmd(n)) /\ Cmd(n).do = "hold"
  BY <1>4, LeftStays DEF QInv
<1>8. delib = Cmd(n).law
  <2>1. ~Will(n, "save_deliberation", Cmd(n).law)
    BY <1>4, LeftStays DEF Will, Opening
  <2> QED BY <1>7, <2>1 DEF Complete
<1>9. Tracks(n)
  <2>1. \A l \in Law : ~Places(Cmd(n), l) BY <1>7 DEF Places, Settles
  <2> QED BY <1>2, <2>1, PlacedStays DEF Tracks
<1>10. Knows(n)'
  <2>1. /\ Has(n, "retomar_ventana") => Has(n, "retomar_ventana")'
        /\ Has(n, "clear_active_window") => Has(n, "clear_active_window")'
        /\ Has(n, "release_window_seal") => Has(n, "release_window_seal")'
    BY <1>4, HasStays
  <2> QED BY <1>2, <1>5, <1>8, <2>1 DEF QInv, Knows
<1> QED BY <1>2, <1>4, <1>5, <1>6, <1>9, <1>10, QMove

\* The law of a deliberation that ends goes on to its window or to the queue, or
\* gets its verdict.
LEMMA ClearDeliberationQueues ==
  ASSUME IInv, LInv, QInv, NEW n \in Nct, ClearDeliberation(n)
  PROVE  QInv'
<1>1. InOrder(todo[n]) BY AtLeads DEF ClearDeliberation
<1>2. UNCHANGED <<leader, active, queue, status, pointer, window, chain>>
  BY DEF ClearDeliberation, lawVars, windowVars
<1>3. TypeOK /\ At(n, "clear_deliberation") /\ Done(n)
  BY DEF IInv, ClearDeliberation
<1>4. Goes(n, "clear_deliberation", {}) BY <1>1, <1>3, DoneGoes
<1>5. /\ delib' = NoLaw /\ held'[n] = NoLaw
      /\ \A m \in Nct : m # n => held'[m] = held[m]
  BY <1>3 DEF ClearDeliberation, TypeOK
<1>6. Leaves(n, "clear_deliberation", {}) BY <1>2 DEF Leaves, KeepsLaws
<1>7. Complete(n, Cmd(n)) /\ Cmd(n).do = "clear_deliberation"
  BY <1>4, LeftStays DEF QInv
<1>8. ASSUME NEW l \in Law, status[l] = "in_deliberation", delib = l
      PROVE  WillPlace(n, l)'
  <2>1. delib # NoLaw BY <1>8, ConstantsAssumption
  <2>2. PICK d \in Left(n) :
          \/ Settles(d, l)
          \/ d.do = "open_window" /\ d.law = l
          \/ d.do = "requeue_if" /\ d.law = l /\ d.arg = "in_deliberation"
    BY <1>7, <1>8, <2>1 DEF Complete
  <2>3. d \in Left(n)' BY <1>4, <2>2, LeftStays DEF Settles
  <2>4. Places(d, l)' BY <1>2, <1>8, <2>2 DEF Places, Settles
  <2> QED BY <2>3, <2>4 DEF WillPlace
<1>9. Tracks(n)
  <2>1. \A l \in Law : ~Places(Cmd(n), l) BY <1>7 DEF Places, Settles
  <2>2. \A l \in Law : Placed(l) => Placed(l)' \/ WillPlace(n, l)'
    BY <1>2, <1>8 DEF Placed, Undecided
  <2> QED BY <1>2, <2>1, <2>2 DEF Tracks
<1>10. Knows(n)'
  <2>1. /\ Has(n, "retomar_ventana") => Has(n, "retomar_ventana")'
        /\ Has(n, "clear_active_window") => Has(n, "clear_active_window")'
        /\ Has(n, "release_window_seal") => Has(n, "release_window_seal")'
    BY <1>4, HasStays
  <2> QED BY <1>2, <1>5, <2>1 DEF QInv, Knows
<1> QED BY <1>2, <1>4, <1>5, <1>6, <1>9, <1>10, QMove

\* The leader takes the window over.
LEMMA ReleaseQueues ==
  ASSUME IInv, LInv, QInv, NEW n \in Nct, ReleaseWindowSeal(n)
  PROVE  QInv'
<1>1. InOrder(todo[n]) BY AtLeads DEF ReleaseWindowSeal
<1>2. UNCHANGED <<leader, held, queue, status, delib, pointer, window, chain>>
  BY DEF ReleaseWindowSeal, lawVars
<1>3. TypeOK /\ At(n, "release_window_seal") /\ Done(n)
  BY DEF IInv, ReleaseWindowSeal
<1>4. Goes(n, "release_window_seal", {}) BY <1>1, <1>3, DoneGoes
<1>5. active'[n] = Cmd(n).win BY <1>3 DEF ReleaseWindowSeal, TypeOK
<1>6. Cmd(n).win = pointer /\ Cmd(n).do = "release_window_seal"
  BY <1>4, LeftStays DEF LInv, Timely
<1>7. Leaves(n, "release_window_seal", {}) BY <1>2 DEF Leaves, KeepsLaws
<1>8. Tracks(n)
  <2>1. \A l \in Law : ~Places(Cmd(n), l) BY <1>6 DEF Places, Settles
  <2> QED BY <1>2, <2>1, PlacedStays DEF Tracks
<1>9. Knows(n)'
  <2>1. /\ Has(n, "recuperar_deliberacion") =>
             Has(n, "recuperar_deliberacion")'
        /\ Has(n, "clear_deliberation") => Has(n, "clear_deliberation")'
        /\ Has(n, "hold") => Has(n, "hold")'
    BY <1>4, HasStays
  <2> QED BY <1>2, <1>5, <1>6, <2>1 DEF QInv, Knows
<1> QED BY <1>2, <1>4, <1>7, <1>8, <1>9, QMove

-----------------------------------------------------------------------------
(* The methods *)

\* A command that asks nothing of the others.
Easy(c) ==
  c.do \notin {"save_law", "set_law_status", "remove_from_queue",
               "save_deliberation", "hold", "open_window", "save_window",
               "set_active_window", "append_block", "set_window_result",
               "clear_active_window", "clear_deliberation"}

\* An easy command needs nothing of the state.
LEMMA EasyComplete ==
  ASSUME NEW n, NEW c, Easy(c)
  PROVE  Complete(n, c)'
BY DEF Easy, Complete

\* Between two commands that open something, Redis speaks of no more than the
\* leader knows.
LEMMA NothingElse ==
  ASSUME LInv, QInv, NEW n \in Nct, leader[n], NEW name, NEW new,
         Goes(n, name, new),
         name \in {"maybe_open_window", "check_deliberation"}
  PROVE  /\ pointer # 0 => active[n] = pointer
         /\ delib # NoLaw => held[n] = delib
         /\ held[n] # NoLaw => delib = held[n]
<1>1. /\ ~Has(n, "retomar_ventana") /\ ~Has(n, "clear_active_window")
      /\ ~Has(n, "release_window_seal") /\ ~Has(n, "recuperar_deliberacion")
      /\ ~Has(n, "clear_deliberation") /\ ~Has(n, "hold")
  BY LeftStays DEF Has, Opening, MayFollow
<1> QED BY <1>1 DEF QInv, Knows

\* A law that leaves the queue is on its way to the deliberation, or to its
\* window.
LEMMA MaybeOpenQueues ==
  ASSUME IInv, LInv, QInv, NEW n \in Nct, MaybeOpenWindow(n)
  PROVE  QInv'
<1>1. InOrder(todo[n]) BY AtLeads DEF MaybeOpenWindow
<1>2. UNCHANGED <<leader, active, held, queue, status, delib, pointer,
                  window, chain>>
  BY DEF MaybeOpenWindow, redisVars, lawVars, windowVars, memory
<1>3. ASSUME NEW new, Goes(n, "maybe_open_window", new),
             \A c \in new : Complete(n, c)'
      PROVE  QInv'
  <2>1. \A l \in Law : ~Places(Cmd(n), l)
    BY <1>3, LeftStays DEF Places, Settles
  <2> QED BY <1>2, <1>3, <2>1, QQuiet
<1>4. CASE Goes(n, "maybe_open_window", {}) BY <1>3, <1>4
<1>5. ASSUME NEW l, leader[n], active[n] = 0, held[n] = NoLaw,
             Goes(n, "maybe_open_window", {OnLaw("open_window", l)})
      PROVE  QInv'
  <2>1. PICK a : a = OnLaw("open_window", l) OBVIOUS
  <2>2. a.do = "open_window" BY <2>1 DEF OnLaw, Command4
  <2>3. pointer = 0 BY <1>5, NothingElse
  <2>4. Complete(n, a)' BY <1>2, <2>2, <2>3 DEF Complete
  <2> QED BY <1>3, <1>5, <2>1, <2>4
<1>6. ASSUME NEW l, leader[n], active[n] = 0, held[n] = NoLaw,
             Goes(n, "maybe_open_window",
                  {OnLaw("save_deliberation", l),
                   SetStatus(l, "in_deliberation"),
                   OnLaw("remove_from_queue", l), OnLaw("hold", l)})
      PROVE  QInv'
  <2>1. PICK a, b, c, d :
          /\ a = OnLaw("save_deliberation", l)
          /\ b = SetStatus(l, "in_deliberation")
          /\ c = OnLaw("remove_from_queue", l) /\ d = OnLaw("hold", l)
    OBVIOUS
  <2>2. /\ a.do = "save_deliberation" /\ a.law = l
        /\ b.do = "set_law_status" /\ b.law = l /\ b.arg = "in_deliberation"
        /\ c.do = "remove_from_queue" /\ c.law = l
        /\ d.do = "hold" /\ d.law = l
    BY <2>1 DEF OnLaw, SetStatus, Command4
  <2>3. Goes(n, "maybe_open_window", {a, b, c, d}) BY <1>6, <2>1
  <2>4. a \in Left(n)' /\ b \in Left(n)' /\ d \in Left(n)'
    BY <2>3, LeftStays
  <2>5. delib = NoLaw BY <1>6, NothingElse
  <2>6. Will(n, "hold", l)' BY <2>2, <2>4 DEF Will
  <2>7. Complete(n, a)' BY <1>2, <1>6, <2>2, <2>5, <2>6 DEF Complete
  <2>8. Complete(n, b)' BY <2>2, <2>6 DEF Complete
  <2>9. Complete(n, c)' BY <2>2, <2>6 DEF Complete
  <2>10. Complete(n, d)'
    <3>1. Will(n, "save_deliberation", l)' BY <2>2, <2>4 DEF Will
    <3>2. Becomes(n, l, "in_deliberation")'
      BY <2>2, <2>4 DEF Becomes, Sets
    <3> QED BY <2>2, <3>1, <3>2 DEF Complete
  <2> QED BY <1>3, <2>3, <2>7, <2>8, <2>9, <2>10
<1> QED BY <1>1, <1>4, <1>5, <1>6, MaybeOpenGoes

\* The law of a deliberation that is over is not left behind.
LEMMA CheckDeliberationQueues ==
  ASSUME IInv, LInv, QInv, NEW n \in Nct, CheckDeliberation(n)
  PROVE  QInv'
<1>1. leader[n] /\ InOrder(todo[n]) BY AtLeads DEF CheckDeliberation
<1>2. UNCHANGED <<leader, active, held, queue, status, delib, pointer,
                  window, chain>>
  BY DEF CheckDeliberation, redisVars, lawVars, windowVars, memory
<1>3. ASSUME NEW new, Goes(n, "check_deliberation", new),
             \A c \in new : Complete(n, c)'
      PROVE  QInv'
  <2>1. \A l \in Law : ~Places(Cmd(n), l)
    BY <1>3, LeftStays DEF Places, Settles
  <2> QED BY <1>2, <1>3, <2>1, QQuiet
<1>4. CASE Goes(n, "check_deliberation", {}) BY <1>3, <1>4
<1>5. ASSUME NEW l \in Law, held[n] = l,
             NEW new, Goes(n, "check_deliberation", new)
      PROVE  delib = l /\ pointer = 0
  <2>1. l # NoLaw BY ConstantsAssumption
  <2>2. active[n] = 0 BY <1>5, <2>1 DEF LInv, Memory
  <2> QED BY <1>1, <1>5, <2>1, <2>2, NothingElse
<1>6. ASSUME NEW l \in Law, held[n] = l,
             Goes(n, "check_deliberation",
                  {Do("clear_deliberation"), OnLaw("open_window", l)})
      PROVE  QInv'
  <2>1. PICK a, b :
          a = Do("clear_deliberation") /\ b = OnLaw("open_window", l)
    OBVIOUS
  <2>2. a.do = "clear_deliberation" /\ b.do = "open_window" /\ b.law = l
    BY <2>1 DEF Do, OnLaw, Command4
  <2>3. Goes(n, "check_deliberation", {a, b}) BY <1>6, <2>1
  <2>4. delib = l /\ pointer = 0 BY <1>5, <1>6, <2>3
  <2>5. b \in Left(n)' BY <2>3, LeftStays
  <2>6. Complete(n, a)' BY <1>2, <2>2, <2>4, <2>5 DEF Complete
  <2>7. Complete(n, b)' BY <1>2, <2>2, <2>4 DEF Complete
  <2> QED BY <1>3, <2>3, <2>6, <2>7
<1>7. ASSUME NEW l \in Law, held[n] = l,
             Goes(n, "check_deliberation",
                  {Do("clear_deliberation"), SetStatus(l, "discarded"),
                   Do("maybe_open_window")})
      PROVE  QInv'
  <2>1. PICK a, b, c :
          /\ a = Do("clear_deliberation") /\ b = SetStatus(l, "discarded")
          /\ c = Do("maybe_open_window")
    OBVIOUS
  <2>2. /\ a.do = "clear_deliberation" /\ c.do = "maybe_open_window"
        /\ b.do = "set_law_status" /\ b.law = l /\ b.arg = "discarded"
    BY <2>1 DEF Do, SetStatus, Command4
  <2>3. Goes(n, "check_deliberation", {a, b, c}) BY <1>7, <2>1
  <2>4. delib = l BY <1>5, <1>7, <2>3
  <2>5. b \in Left(n)' BY <2>3, LeftStays
  <2>6. Settles(b, l) BY <2>2 DEF Settles, OnItsWay
  <2>7. Complete(n, a)' BY <1>2, <2>2, <2>4, <2>5, <2>6 DEF Complete, Settles
  <2>8. Complete(n, b)' BY <2>2 DEF Complete
  <2>9. Complete(n, c)' BY <2>2, EasyComplete DEF Easy
  <2> QED BY <1>3, <2>3, <2>7, <2>8, <2>9
<1>8. ASSUME NEW l \in Law, held[n] = l,
             Goes(n, "check_deliberation",
                  {Do("clear_deliberation"), SetStatus(l, "pending_queue"),
                   OnLaw("enqueue_law", l), Do("maybe_open_window")})
      PROVE  QInv'
  <2>1. PICK a, b, c, d :
          /\ a = Do("clear_deliberation") /\ b = SetStatus(l, "pending_queue")
          /\ c = OnLaw("enqueue_law", l) /\ d = Do("maybe_open_window")
    OBVIOUS
  <2>2. /\ a.do = "clear_deliberation" /\ d.do = "maybe_open_window"
        /\ b.do = "set_law_status" /\ b.law = l /\ b.arg = "pending_queue"
        /\ c.do = "enqueue_law" /\ c.law = l
    BY <2>1 DEF Do, OnLaw, SetStatus, Command4
  <2>3. Goes(n, "check_deliberation", {a, b, c, d}) BY <1>8, <2>1
  <2>4. delib = l BY <1>5, <1>8, <2>3
  <2>5. c \in Left(n)' BY <2>3, LeftStays
  <2>6. Settles(c, l) BY <2>2 DEF Settles
  <2>7. Complete(n, a)' BY <1>2, <2>2, <2>4, <2>5, <2>6 DEF Complete, Settles
  <2>8. Complete(n, b)'
    <3>1. Will(n, "enqueue_law", l)' BY <2>2, <2>5 DEF Will
    <3> QED BY <2>2, <3>1 DEF Complete
  <2>9. Complete(n, c)' /\ Complete(n, d)' BY <2>2, EasyComplete DEF Easy
  <2> QED BY <1>3, <2>3, <2>7, <2>8, <2>9
<1> QED BY <1>1, <1>4, <1>6, <1>7, <1>8, CheckDeliberationGoes

\* The law of a window whose time is over is discarded or queued.
LEMMA CheckDeadlineQueues ==
  ASSUME IInv, LInv, QInv, NEW n \in Nct, CheckDeadline(n)
  PROVE  QInv'
<1>1. InOrder(todo[n]) BY AtLeads DEF CheckDeadline
<1>2. UNCHANGED <<leader, active, held, queue, status, delib, pointer,
                  window, chain>>
  BY DEF CheckDeadline, redisVars, lawVars, windowVars, memory
<1>3. ASSUME NEW new, Goes(n, "check_deadline", new),
             \A c \in new : Complete(n, c)'
      PROVE  QInv'
  <2>1. \A l \in Law : ~Places(Cmd(n), l)
    BY <1>3, LeftStays DEF Places, Settles
  <2> QED BY <1>2, <1>3, <2>1, QQuiet
<1>4. CASE Goes(n, "check_deadline", {}) BY <1>3, <1>4
<1>5. ASSUME NEW w \in Window, active[n] = w
      PROVE  pointer = w
  <2>1. w # 0 BY DEF Window
  <2> QED BY <1>5, <2>1 DEF LInv, Memory
<1>6. ASSUME NEW w \in Window, active[n] = w, NEW l, l = window[w].law,
             Goes(n, "check_deadline",
                  {SetResult(w, "expired_pending"), SetStatus(l, "discarded"),
                   Do("clear_active_window"), Do("maybe_open_window")})
      PROVE  QInv'
  <2>1. PICK a, b, c, d :
          /\ a = SetResult(w, "expired_pending")
          /\ b = SetStatus(l, "discarded")
          /\ c = Do("clear_active_window") /\ d = Do("maybe_open_window")
    OBVIOUS
  <2>2. /\ a.do = "set_window_result" /\ a.win = w
        /\ b.do = "set_law_status" /\ b.law = l /\ b.arg = "discarded"
        /\ c.do = "clear_active_window" /\ d.do = "maybe_open_window"
    BY <2>1 DEF Do, SetResult, SetStatus, Command4
  <2>3. Goes(n, "check_deadline", {a, b, c, d}) BY <1>6, <2>1
  <2>4. a \in Left(n)' /\ b \in Left(n)' BY <2>3, LeftStays
  <2>5. Settles(b, l) BY <2>2 DEF Settles, OnItsWay
  <2>6. Complete(n, a)'
    BY <1>2, <1>6, <2>2, <2>4, <2>5 DEF Complete, Settles
  <2>7. Complete(n, b)' BY <2>2 DEF Complete
  <2>8. Complete(n, c)' BY <1>2, <1>5, <1>6, <2>2, <2>4 DEF Complete
  <2>9. Complete(n, d)' BY <2>2, EasyComplete DEF Easy
  <2> QED BY <1>3, <2>3, <2>6, <2>7, <2>8, <2>9
<1>7. ASSUME NEW w \in Window, active[n] = w, NEW l, l = window[w].law,
             Goes(n, "check_deadline",
                  {SetResult(w, "expired_no_quorum"),
                   SetStatus(l, "pending_queue"), OnLaw("enqueue_law", l),
                   Do("clear_active_window"), Do("maybe_open_window")})
      PROVE  QInv'
  <2>1. PICK a, b, c, d, e :
          /\ a = SetResult(w, "expired_no_quorum")
          /\ b = SetStatus(l, "pending_queue") /\ e = OnLaw("enqueue_law", l)
          /\ c = Do("clear_active_window") /\ d = Do("maybe_open_window")
    OBVIOUS
  <2>2. /\ a.do = "set_window_result" /\ a.win = w
        /\ b.do = "set_law_status" /\ b.law = l /\ b.arg = "pending_queue"
        /\ c.do = "clear_active_window" /\ d.do = "maybe_open_window"
        /\ e.do = "enqueue_law" /\ e.law = l
    BY <2>1 DEF Do, OnLaw, SetResult, SetStatus, Command4
  <2>3. Goes(n, "check_deadline", {a, b, e, c, d}) BY <1>7, <2>1
  <2>4. a \in Left(n)' /\ e \in Left(n)' BY <2>3, LeftStays
  <2>5. Settles(e, l) BY <2>2 DEF Settles
  <2>6. Complete(n, a)'
    BY <1>2, <1>7, <2>2, <2>4, <2>5 DEF Complete, Settles
  <2>7. Complete(n, b)'
    <3>1. Will(n, "enqueue_law", l)' BY <2>2, <2>4 DEF Will
    <3> QED BY <2>2, <3>1 DEF Complete
  <2>8. Complete(n, c)' BY <1>2, <1>5, <1>7, <2>2, <2>4 DEF Complete
  <2>9. Complete(n, d)' /\ Complete(n, e)' BY <2>2, EasyComplete DEF Easy
  <2> QED BY <1>3, <2>3, <2>6, <2>7, <2>8, <2>9
<1> QED BY <1>1, <1>4, <1>6, <1>7, CheckDeadlineGoes

\* A takeover knows the window once it has looked at it, or is about to.
LEMMA RetomarVentanaQueues ==
  ASSUME IInv, LInv, QInv, NEW n \in Nct, RetomarVentana(n)
  PROVE  QInv'
<1>1. InOrder(todo[n]) BY AtLeads DEF RetomarVentana
<1>2. UNCHANGED <<leader, held, queue, status, delib, pointer, window, chain>>
  BY DEF RetomarVentana, redisVars, lawVars, windowVars
<1>3. ASSUME NEW new, Goes(n, "retomar_ventana", new),
             \A c \in new : Complete(n, c)',
             \/ pointer = 0 \/ active'[n] = pointer
             \/ \E c \in new :
                  c.do \in {"clear_active_window", "release_window_seal"}
      PROVE  QInv'
  <2>1. Leaves(n, "retomar_ventana", new) BY <1>2 DEF Leaves, KeepsLaws
  <2>2. \A l \in Law : ~Places(Cmd(n), l)
    BY <1>3, LeftStays DEF Places, Settles
  <2>3. Tracks(n) BY <1>2, <2>2, PlacedStays DEF Tracks
  <2>4. pointer' = 0 \/ active'[n] = pointer'
          \/ Has(n, "clear_active_window")' \/ Has(n, "release_window_seal")'
    <3>1. \A c \in new : c \in Left(n)' BY <1>3, LeftStays
    <3> QED BY <1>2, <1>3, <3>1 DEF Has
  <2>5. /\ Has(n, "recuperar_deliberacion") =>
             Has(n, "recuperar_deliberacion")'
        /\ Has(n, "clear_deliberation") => Has(n, "clear_deliberation")'
        /\ Has(n, "hold") => Has(n, "hold")'
    BY <1>3, HasStays
  <2>6. Knows(n)' BY <1>2, <2>4, <2>5 DEF QInv, Knows
  <2> QED BY <1>2, <1>3, <2>1, <2>3, <2>6, QMove
<1>4. CASE pointer = 0 /\ Goes(n, "retomar_ventana", {}) BY <1>3, <1>4
<1>5. CASE /\ Saved(pointer) /\ Closed(pointer)
           /\ Goes(n, "retomar_ventana", {Do("clear_active_window")})
  <2>1. PICK a : a = Do("clear_active_window") OBVIOUS
  <2>2. a.do = "clear_active_window" BY <2>1 DEF Do, Command4
  <2>3. ~Undecided(pointer)' BY <1>2, <1>5 DEF Closed, Undecided
  <2>4. Complete(n, a)' BY <2>2, <2>3 DEF Complete
  <2> QED BY <1>3, <1>5, <2>1, <2>2, <2>4
<1>6. ASSUME NEW l, l = window[pointer].law,
             Goes(n, "retomar_ventana",
                  {SetResult(pointer, "success"),
                   SetStatus(l, Verdict(pointer)),
                   Do("clear_active_window")})
      PROVE  QInv'
  <2>1. PICK a, b, c :
          /\ a = SetResult(pointer, "success")
          /\ b = SetStatus(l, Verdict(pointer))
          /\ c = Do("clear_active_window")
    OBVIOUS
  <2>2. /\ a.do = "set_window_result" /\ a.win = pointer
        /\ b.do = "set_law_status" /\ b.law = l /\ b.arg = Verdict(pointer)
        /\ c.do = "clear_active_window"
    BY <2>1 DEF Do, SetResult, SetStatus, Command4
  <2>3. b.arg \in {"promulgated", "repealed"} BY <2>2 DEF Verdict
  <2>4. Goes(n, "retomar_ventana", {a, b, c}) BY <1>6, <2>1
  <2>5. a \in Left(n)' /\ b \in Left(n)' BY <2>4, LeftStays
  <2>6. Settles(b, l) BY <2>2, <2>3 DEF Settles, OnItsWay
  <2>7. Complete(n, a)'
    BY <1>2, <1>6, <2>2, <2>5, <2>6 DEF Complete, Settles
  <2>8. Complete(n, b)' BY <2>2, <2>3 DEF Complete
  <2>9. Complete(n, c)' BY <1>2, <2>2, <2>5 DEF Complete
  <2> QED BY <1>3, <2>2, <2>4, <2>7, <2>8, <2>9
<1>7. CASE Goes(n, "retomar_ventana",
                {OnWindow("release_window_seal", pointer)})
  <2>1. PICK a : a = OnWindow("release_window_seal", pointer) OBVIOUS
  <2>2. a.do = "release_window_seal" BY <2>1 DEF OnWindow, Command4
  <2>3. Complete(n, a)' BY <2>2, EasyComplete DEF Easy
  <2> QED BY <1>3, <1>7, <2>1, <2>2, <2>3
<1>8. CASE /\ active' = [active EXCEPT ![n] = pointer]
           /\ Goes(n, "retomar_ventana", {})
  <2>1. active'[n] = pointer BY <1>8 DEF IInv, TypeOK
  <2> QED BY <1>3, <1>8, <2>1
<1> QED BY <1>1, <1>4, <1>5, <1>6, <1>7, <1>8, RetomarVentanaGoes

\* The law of a deliberation that is recovered goes back to the queue.
LEMMA RecuperarQueues ==
  ASSUME IInv, LInv, QInv, NEW n \in Nct, RecuperarDeliberacion(n)
  PROVE  QInv'
<1>1. InOrder(todo[n]) BY AtLeads DEF RecuperarDeliberacion
<1>2. UNCHANGED <<leader, active, held, queue, status, delib, pointer,
                  window, chain>>
  BY DEF RecuperarDeliberacion, redisVars, lawVars, windowVars, memory
<1>3. ASSUME NEW new, Goes(n, "recuperar_deliberacion", new),
             \A c \in new : Complete(n, c)',
             \/ delib = NoLaw
             \/ \E c \in new : c.do = "clear_deliberation"
      PROVE  QInv'
  <2>1. Leaves(n, "recuperar_deliberacion", new)
    BY <1>2 DEF Leaves, KeepsLaws
  <2>2. \A l \in Law : ~Places(Cmd(n), l)
    BY <1>3, LeftStays DEF Places, Settles
  <2>3. Tracks(n) BY <1>2, <2>2, PlacedStays DEF Tracks
  <2>4. delib' = NoLaw \/ Has(n, "clear_deliberation")'
    <3>1. \A c \in new : c \in Left(n)' BY <1>3, LeftStays
    <3> QED BY <1>2, <1>3, <3>1 DEF Has
  <2>5. /\ Has(n, "retomar_ventana") => Has(n, "retomar_ventana")'
        /\ Has(n, "clear_active_window") => Has(n, "clear_active_window")'
        /\ Has(n, "release_window_seal") => Has(n, "release_window_seal")'
    BY <1>3, HasStays
  <2>6. Knows(n)' BY <1>2, <2>4, <2>5 DEF QInv, Knows
  <2> QED BY <1>2, <1>3, <2>1, <2>3, <2>6, QMove
<1>4. CASE delib = NoLaw /\ Goes(n, "recuperar_deliberacion", {})
  BY <1>3, <1>4
<1>5. CASE Goes(n, "recuperar_deliberacion",
                {Do("clear_deliberation"),
                 RequeueIf(delib, "in_deliberation")})
  <2>1. PICK a, b : /\ a = Do("clear_deliberation")
                    /\ b = RequeueIf(delib, "in_deliberation")
    OBVIOUS
  <2>2. /\ a.do = "clear_deliberation"
        /\ b.do = "requeue_if" /\ b.law = delib /\ b.arg = "in_deliberation"
    BY <2>1 DEF Do, RequeueIf, Command4
  <2>3. Goes(n, "recuperar_deliberacion", {a, b}) BY <1>5, <2>1
  <2>4. b \in Left(n)' BY <2>3, LeftStays
  <2>5. Complete(n, a)' BY <1>2, <2>2, <2>4 DEF Complete
  <2>6. Complete(n, b)' BY <2>2, EasyComplete DEF Easy
  <2> QED BY <1>3, <2>2, <2>3, <2>5, <2>6
<1> QED BY <1>1, <1>4, <1>5, RecuperarDeliberacionGoes

\* A law is given back if its status is still the one that was left behind.
LEMMA RequeueIfQueues ==
  ASSUME IInv, LInv, QInv, NEW n \in Nct, RequeueIfStatus(n)
  PROVE  QInv'
<1>1. InOrder(todo[n]) BY AtLeads DEF RequeueIfStatus
<1>2. UNCHANGED <<leader, active, held, queue, status, delib, pointer,
                  window, chain>>
  BY DEF RequeueIfStatus, redisVars, lawVars, windowVars, memory
<1>3. PICK l : l = Cmd(n).law OBVIOUS
<1>4. CASE status[l] # Cmd(n).arg /\ Goes(n, "requeue_if", {})
  <2>1. \A k \in Law : ~Places(Cmd(n), k)
    BY <1>3, <1>4, LeftStays DEF Places, Settles
  <2> QED BY <1>2, <1>4, <2>1, QQuiet
<1>5. CASE Goes(n, "requeue_if",
                {SetStatus(l, "pending_queue"), OnLaw("enqueue_law", l)})
  <2>1. PICK a, b :
          a = SetStatus(l, "pending_queue") /\ b = OnLaw("enqueue_law", l)
    OBVIOUS
  <2>2. /\ a.do = "set_law_status" /\ a.law = l /\ a.arg = "pending_queue"
        /\ b.do = "enqueue_law" /\ b.law = l
    BY <2>1 DEF OnLaw, SetStatus, Command4
  <2>3. Goes(n, "requeue_if", {a, b}) BY <1>5, <2>1
  <2>4. b \in Left(n)' BY <2>3, LeftStays
  <2>5. Will(n, "enqueue_law", l)' BY <2>2, <2>4 DEF Will
  <2>6. Complete(n, a)' BY <2>2, <2>5 DEF Complete
  <2>7. Complete(n, b)' BY <2>2, EasyComplete DEF Easy
  <2>8. \A k \in Law : Places(Cmd(n), k) => k = l
    BY <1>3, <2>3, LeftStays DEF Places, Settles
  <2>9. WillPlace(n, l)' BY <2>2, <2>4 DEF WillPlace, Places, Settles
  <2> QED BY <1>2, <2>3, <2>6, <2>7, <2>8, <2>9, QQuiet
<1> QED BY <1>1, <1>3, <1>4, <1>5, RequeueIfGoes

\* A law whose window gets its number will have it saved.
LEMMA OpenWindowQueues ==
  ASSUME IInv, LInv, QInv, NEW n \in Nct, OpenWindowNumbered(n)
  PROVE  QInv'
<1>1. InOrder(todo[n]) BY AtLeads DEF OpenWindowNumbered
<1>2. UNCHANGED <<leader, active, held, queue, status, delib, pointer,
                  window, chain>>
  BY DEF OpenWindowNumbered, lawVars, memory
<1>3. PICK l : l = Cmd(n).law OBVIOUS
<1>4. PICK a : a = SaveWindowCmd(counter + 1, l, action[l]) OBVIOUS
<1>5. a.do = "save_window" /\ a.law = l BY <1>4 DEF SaveWindowCmd, Command4
<1>6. Goes(n, "open_window", {a}) BY <1>1, <1>3, <1>4, OpenWindowGoes
<1>7. a \in Left(n)' BY <1>6, LeftStays
<1>8. pointer = 0
  <2>1. Complete(n, Cmd(n)) /\ Cmd(n).do = "open_window"
    BY <1>6, LeftStays DEF QInv
  <2> QED BY <2>1 DEF Complete
<1>9. Complete(n, a)' BY <1>2, <1>5, <1>8 DEF Complete
<1>10. \A k \in Law : Places(Cmd(n), k) => k = l
  BY <1>3, <1>6, LeftStays DEF Places, Settles
<1>11. WillPlace(n, l)' BY <1>5, <1>7 DEF WillPlace, Places
<1> QED BY <1>2, <1>6, <1>9, <1>10, <1>11, QQuiet

\* A window that is sealed gets its block from the tip that is read next.
LEMMA TrySealQueues ==
  ASSUME IInv, LInv, QInv, NEW n \in Nct, TrySealWindow(n)
  PROVE  QInv'
<1>1. InOrder(todo[n]) BY AtLeads DEF TrySealWindow
<1>2. UNCHANGED <<leader, active, held, queue, status, delib, pointer,
                  window, chain>>
  BY DEF TrySealWindow, lawVars, memory
<1>3. ASSUME NEW new, Goes(n, "try_seal_window", new),
             \A c \in new : Complete(n, c)'
      PROVE  QInv'
  <2>1. \A l \in Law : ~Places(Cmd(n), l)
    BY <1>3, LeftStays DEF Places, Settles
  <2> QED BY <1>2, <1>3, <2>1, QQuiet
<1>4. CASE Goes(n, "try_seal_window", {}) BY <1>3, <1>4
<1>5. ASSUME NEW w,
             Goes(n, "try_seal_window",
                  {Do("last_block_hash"), OnWindow("append_block", w)})
      PROVE  QInv'
  <2>1. PICK a, b :
          a = Do("last_block_hash") /\ b = OnWindow("append_block", w)
    OBVIOUS
  <2>2. a.do = "last_block_hash" /\ b.do = "append_block"
    BY <2>1 DEF Do, OnWindow, Command4
  <2>3. Goes(n, "try_seal_window", {a, b}) BY <1>5, <2>1
  <2>4. a \in Left(n)' BY <2>3, LeftStays
  <2>5. Has(n, "last_block_hash")' BY <2>2, <2>4 DEF Has
  <2>6. Complete(n, b)' BY <2>2, <2>5 DEF Complete
  <2>7. Complete(n, a)' BY <2>2, EasyComplete DEF Easy
  <2> QED BY <1>3, <2>3, <2>6, <2>7
<1> QED BY <1>1, <1>4, <1>5, TrySealGoes

\* The tip is the one that was read, so the block is not refused.
LEMMA AppendQueues ==
  ASSUME IInv, LInv, QInv, NEW n \in Nct, AppendBlock(n)
  PROVE  QInv'
<1>1. InOrder(todo[n]) BY AtLeads DEF AppendBlock
<1>2. UNCHANGED <<leader, active, held, queue, status, delib, pointer, window>>
  BY DEF AppendBlock, lawVars, windowVars, memory
<1>3. PICK w, l : w = Cmd(n).win /\ l = window[Cmd(n).win].law OBVIOUS
<1>4. ASSUME NEW new, Goes(n, "append_block", new)
      PROVE  SameTip(n) /\ w = pointer
  <2>1. /\ Complete(n, Cmd(n)) /\ Timely(n, Cmd(n))
        /\ Cmd(n).do = "append_block"
    BY <1>4, LeftStays DEF QInv, LInv
  <2>2. ~Has(n, "last_block_hash") BY <1>4, LeftStays DEF Has, Opening
  <2> QED BY <1>3, <2>1, <2>2 DEF Complete, SameTip, Timely
<1>5. CASE Goes(n, "append_block",
                {SetResult(w, "success"), SetStatus(l, Verdict(w)),
                 Do("clear_active_window"), Do("maybe_open_window")})
  <2>1. PICK a, b, c, d :
          /\ a = SetResult(w, "success") /\ b = SetStatus(l, Verdict(w))
          /\ c = Do("clear_active_window") /\ d = Do("maybe_open_window")
    OBVIOUS
  <2>2. /\ a.do = "set_window_result" /\ a.win = w
        /\ b.do = "set_law_status" /\ b.law = l /\ b.arg = Verdict(w)
        /\ c.do = "clear_active_window" /\ d.do = "maybe_open_window"
    BY <2>1 DEF Do, SetResult, SetStatus, Command4
  <2>3. b.arg \in {"promulgated", "repealed"} BY <2>2 DEF Verdict
  <2>4. Goes(n, "append_block", {a, b, c, d}) BY <1>5, <2>1
  <2>5. a \in Left(n)' /\ b \in Left(n)' BY <2>4, LeftStays
  <2>6. Settles(b, l) BY <2>2, <2>3 DEF Settles, OnItsWay
  <2>7. Complete(n, a)'
    BY <1>2, <1>3, <2>2, <2>5, <2>6 DEF Complete, Settles
  <2>8. Complete(n, b)' BY <2>2, <2>3 DEF Complete
  <2>9. Complete(n, c)' BY <1>2, <1>4, <2>2, <2>4, <2>5 DEF Complete
  <2>10. Complete(n, d)' BY <2>2, EasyComplete DEF Easy
  <2>11. \A k \in Law : ~Places(Cmd(n), k)
    BY <2>4, LeftStays DEF Places, Settles
  <2> QED BY <1>2, <2>4, <2>7, <2>8, <2>9, <2>10, <2>11, QQuiet
<1>6. ASSUME NEW new, Goes(n, "append_block", new),
             ~SameTip(n) \/ AppendBlockTwice(n)
      PROVE  AppendBlockTwice(n)
  BY <1>4, <1>6
<1>7. ~AppendBlockTwice(n)
  <2>1. UNCHANGED errors BY DEF AppendBlock, envVars
  <2> QED BY <2>1 DEF AppendBlockTwice, IInv, TypeOK
<1> QED BY <1>1, <1>3, <1>5, <1>6, <1>7, AppendGoes

-----------------------------------------------------------------------------
(* The handlers and the environment *)

\* A handler that starts where none runs.
LEMMA QStart ==
  ASSUME TypeOK, QInv, NEW n \in Nct, NEW s, \A m \in Nct : todo[m] = <<>>,
         todo' = [todo EXCEPT ![n] = s],
         UNCHANGED <<active, held, queue, status, delib, pointer, window>>,
         \A m \in Nct : m # n => leader'[m] = leader[m],
         \A c \in CommandsOf(s) : Complete(n, c)', Knows(n)'
  PROVE  QInv'
<1>1. \A m \in Nct : todo'[m] = IF m = n THEN s ELSE <<>> BY DEF TypeOK
<1>2. \A m \in Nct : Left(m) = {} BY DEF Left, CommandsOf
<1>3. \A m \in Nct : Left(m)' = IF m = n THEN CommandsOf(s) ELSE {}
  BY <1>1 DEF Left, CommandsOf
<1>4. ASSUME NEW m \in Nct, m # n
      PROVE  Knows(m)'
  <2>1. Left(m)' = Left(m) BY <1>2, <1>3, <1>4
  <2>2. \A x : Has(m, x)' <=> Has(m, x) BY <2>1 DEF Has
  <2> QED BY <1>4, <2>2 DEF QInv, Knows
<1>5. AllPlaced'
  <2>1. \A l \in Law : status[l] \in OnItsWay => Placed(l)
    BY <1>2 DEF QInv, AllPlaced, WillPlace
  <2> QED BY <2>1, PlacedStays DEF AllPlaced
<1> QED BY <1>3, <1>4, <1>5 DEF QInv

\* A leader that does nothing knows the window and the deliberation.
LEMMA IdleKnows ==
  ASSUME QInv, NEW n \in Nct, leader[n], todo[n] = <<>>,
         UNCHANGED <<active, held, delib, pointer>>
  PROVE  Knows(n)'
<1>1. \A x : ~Has(n, x) BY DEF Has, Left, CommandsOf
<1> QED BY <1>1 DEF QInv, Knows

\* The handlers of messages and the tick.
LEMMA HandlersQueue ==
  ASSUME IInv, LInv, QInv, NEW n \in Nct,
         TickStarts(n) \/ HandleProposal(n) \/ HandleNonceResponse(n)
  PROVE  QInv'
<1>1. leader[n] /\ todo[n] = <<>>
  BY DEF TickStarts, HandleProposal, HandleNonceResponse, Idle
<1>2. UNCHANGED <<leader, active, held, queue, status, delib, pointer, window,
                  tip, chain>>
  BY DEF TickStarts, HandleProposal, HandleNonceResponse, redisVars, lawVars,
         windowVars, memory
<1>3. TypeOK /\ \A m \in Nct : todo[m] = <<>>
  BY <1>1, OthersRest DEF IInv, LInv
<1>4. Knows(n)' BY <1>1, <1>2, IdleKnows
<1>5. ASSUME NEW s, todo' = [todo EXCEPT ![n] = s],
             \A c \in CommandsOf(s) : Complete(n, c)'
      PROVE  QInv'
  BY <1>2, <1>3, <1>4, <1>5, QStart
<1>6. ASSUME NEW s, todo' = [todo EXCEPT ![n] = s],
             \A c \in CommandsOf(s) : Easy(c)
      PROVE  QInv'
  BY <1>5, <1>6, EasyComplete
<1>7. CASE TickStarts(n)
  <2>1. \A c \in CommandsOf(Tick) : Easy(c)
    BY TickScript DEF Easy, Do, Command4
  <2> QED BY <1>6, <1>7, <2>1 DEF TickStarts, Start
<1>8. CASE HandleNonceResponse(n)
  <2>1. PICK a : a = OnWindow("try_seal_window", active[n]) OBVIOUS
  <2>2. Easy(a) BY <2>1 DEF Easy, OnWindow, Command4
  <2>3. CommandsOf(<<a>>) = {a} BY DEF CommandsOf
  <2>4. todo' = [todo EXCEPT ![n] = <<a>>]
    BY <1>8, <2>1 DEF HandleNonceResponse, Start
  <2> QED BY <1>6, <2>2, <2>3, <2>4
<1>9. ASSUME NEW l \in Law, todo' = [todo EXCEPT ![n] = EnqueuePromulgacion(l)]
      PROVE  QInv'
  <2>1. PICK a, b : a = OnLaw("save_law", l) /\ b = OnLaw("enqueue_law", l)
    OBVIOUS
  <2>2. /\ a.do = "save_law" /\ a.law = l
        /\ b.do = "enqueue_law" /\ b.law = l
    BY <2>1 DEF OnLaw, Command4
  <2>3. CommandsOf(EnqueuePromulgacion(l)) =
          {a, b, Do("set_cooldown"), Do("maybe_open_window"), Do("ack")}
    BY <2>1, PromulgacionScript
  <2>4. todo'[n] = EnqueuePromulgacion(l) BY <1>3, <1>9 DEF TypeOK
  <2>5. b \in Left(n)' BY <2>3, <2>4 DEF Left
  <2>6. Will(n, "enqueue_law", l)' BY <2>2, <2>5 DEF Will
  <2>7. Complete(n, a)' BY <2>2, <2>6 DEF Complete
  <2>8. /\ Easy(b) /\ Easy(Do("set_cooldown")) /\ Easy(Do("ack"))
        /\ Easy(Do("maybe_open_window"))
    BY <2>2 DEF Easy, Do, Command4
  <2> QED BY <1>5, <1>9, <2>3, <2>7, <2>8, EasyComplete
<1>10. ASSUME NEW l \in Law, todo' = [todo EXCEPT ![n] = EnqueueDerogacion(l)]
       PROVE  QInv'
  <2>1. \A c \in CommandsOf(EnqueueDerogacion(l)) : Easy(c)
    BY DerogacionScript DEF Easy, Do, OnLaw, Command4
  <2> QED BY <1>6, <1>10, <2>1
<1>11. CASE todo' = [todo EXCEPT ![n] = <<Do("maybe_open_window"), Do("ack")>>]
  <2>1. \A c \in CommandsOf(<<Do("maybe_open_window"), Do("ack")>>) : Easy(c)
    BY RefusalScript DEF Easy, Do, Command4
  <2> QED BY <1>6, <1>11, <2>1
<1>12. CASE UNCHANGED todo
  <2>1. todo' = [todo EXCEPT ![n] = <<>>] BY <1>3, <1>12 DEF TypeOK
  <2>2. CommandsOf(<<>>) = {} BY DEF CommandsOf
  <2> QED BY <1>5, <2>1, <2>2
<1>13. CASE HandleProposal(n)
  <2>1. \A m \in inbox : m.law \in Law
    BY <1>3, ConstantsAssumption DEF TypeOK, Proposal
  <2> QED BY <1>9, <1>10, <1>11, <1>12, <1>13, <2>1 DEF HandleProposal, Start
<1> QED BY <1>7, <1>8, <1>13

\* A leader that takes over is about to look at the window and at the
\* deliberation.
LEMMA BecomeLeaderQueues ==
  ASSUME IInv, LInv, QInv, NEW n \in Nct, BecomeLeader(n)
  PROVE  QInv'
<1>1. ~leader[n] /\ todo[n] = <<>> /\ lease \in {NoNct, n}
  BY DEF BecomeLeader, Idle
<1>2. UNCHANGED <<active, held, queue, status, delib, pointer, window>>
  BY DEF BecomeLeader, lawVars, windowVars
<1>3. /\ todo' = [todo EXCEPT ![n] = Takeover]
      /\ leader' = [leader EXCEPT ![n] = TRUE]
  BY DEF BecomeLeader, Start
<1>4. TypeOK BY DEF IInv
<1>5. \A m \in Nct : todo[m] = <<>>
  <2> SUFFICES ASSUME NEW m \in Nct, todo[m] # <<>> PROVE FALSE OBVIOUS
  <2>1. leader[m] /\ lease = m BY DEF LInv, Alone
  <2> QED BY <1>1, <2>1, ConstantsAssumption
<1>6. \A m \in Nct : m # n => leader'[m] = leader[m] BY <1>3, <1>4 DEF TypeOK
<1>7. PICK a, b :
        a = Do("retomar_ventana") /\ b = Do("recuperar_deliberacion")
  OBVIOUS
<1>8. a.do = "retomar_ventana" /\ b.do = "recuperar_deliberacion"
  BY <1>7 DEF Do, Command4
<1>9. Left(n)' = {a, b, Do("check_deadline"), Do("maybe_open_window")}
  BY <1>3, <1>4, <1>7, TakeoverScript DEF TypeOK, Left
<1>10. Has(n, "retomar_ventana")' /\ Has(n, "recuperar_deliberacion")'
  BY <1>8, <1>9 DEF Has
<1>11. held'[n] = NoLaw BY <1>1, <1>2 DEF LInv, Alone
<1>12. Knows(n)' BY <1>10, <1>11 DEF Knows
<1>13. \A c \in CommandsOf(Takeover) : Easy(c)
  BY TakeoverScript DEF Easy, Do, Command4
<1>14. \A c \in CommandsOf(Takeover) : Complete(n, c)'
  BY <1>13, EasyComplete
<1> QED BY <1>2, <1>3, <1>4, <1>5, <1>6, <1>12, <1>14, QStart

\* What happens to a process that runs no handler, or to time.
LEMMA QUndisturbed ==
  ASSUME QInv,
         UNCHANGED <<queue, status, delib, pointer, window, tip, chain>>,
         \A m \in Nct : todo'[m] = todo[m],
         \A m \in Nct :
           \/ /\ leader'[m] = leader[m] /\ active'[m] = active[m]
              /\ held'[m] = held[m]
           \/ todo[m] = <<>> /\ ~leader'[m] /\ held'[m] = NoLaw
  PROVE  QInv'
<1>1. ASSUME NEW m \in Nct
      PROVE  Knows(m)' /\ \A c \in Left(m)' : Complete(m, c)'
  <2>1. Left(m)' = Left(m) BY DEF Left
  <2>2. /\ \A x : Has(m, x)' <=> Has(m, x)
        /\ \A x, l : Will(m, x, l)' <=> Will(m, x, l)
        /\ \A l : Opens(m, l)' <=> Opens(m, l)
        /\ \A l, s : Sets(m, l, s)' <=> Sets(m, l, s)
    BY <2>1 DEF Has, Will, Opens, Sets
  <2>3. \A l, s : Becomes(m, l, s)' <=> Becomes(m, l, s)
    BY <2>2 DEF Becomes
  <2>4. CASE /\ leader'[m] = leader[m] /\ active'[m] = active[m]
             /\ held'[m] = held[m]
    <3>1. Knows(m)' BY <2>2, <2>4 DEF QInv, Knows
    <3>2. \A c \in Left(m) : Complete(m, c) BY DEF QInv
    <3>3. ASSUME NEW c \in Left(m)
          PROVE  Complete(m, c)'
      BY <2>1, <2>2, <2>3, <2>4, <3>2, <3>3 DEF Complete, Undecided
    <3> QED BY <2>1, <3>1, <3>3
  <2>5. CASE todo[m] = <<>> /\ ~leader'[m] /\ held'[m] = NoLaw
    <3>1. Left(m)' = {} BY <2>1, <2>5 DEF Left, CommandsOf
    <3> QED BY <2>5, <3>1 DEF Knows
  <2> QED BY <2>4, <2>5
<1>2. AllPlaced'
  <2>1. \A m \in Nct, l \in Law : WillPlace(m, l) => WillPlace(m, l)'
    BY DEF WillPlace, Places, Left
  <2> QED BY <2>1, PlacedStays DEF QInv, AllPlaced
<1> QED BY <1>1, <1>2 DEF QInv

\* Every leader takes over with become_leader, and a crash comes between two
\* handlers.
LEMMA OthersQueue ==
  ASSUME Primary = {}, ~TornCrashes, IInv, QInv,
         \/ LeaseExpires \/ UNCHANGED vars
         \/ \E w \in Window : DeadlinePasses(w)
         \/ \E l \in Law : PauseEnds(l)
         \/ \E n \in Nct : Boot(n) \/ Crash(n)
  PROVE  QInv'
<1> USE DEF redisVars, lawVars, windowVars, memory, handlerVars, vars
<1>1. CASE \/ LeaseExpires \/ UNCHANGED vars
           \/ \E w \in Window : DeadlinePasses(w)
           \/ \E l \in Law : PauseEnds(l)
  <2>1. UNCHANGED <<queue, status, delib, pointer, window, tip, chain, todo,
                    leader, active, held>>
    BY <1>1 DEF LeaseExpires, DeadlinePasses, PauseEnds
  <2> QED BY <2>1, QUndisturbed
<1>2. ASSUME NEW n \in Nct, Boot(n)
      PROVE  QInv'
  <2>1. UNCHANGED <<queue, status, delib, pointer, window, tip, chain, todo,
                    leader, active, held>>
    BY <1>2 DEF Boot
  <2> QED BY <2>1, QUndisturbed
<1>3. ASSUME NEW n \in Nct, Crash(n)
      PROVE  QInv'
  <2>1. todo[n] = <<>> /\ todo' = [todo EXCEPT ![n] = <<>>]
    BY <1>3 DEF Crash
  <2>2. UNCHANGED <<queue, status, delib, pointer, window, tip, chain>>
    BY <1>3 DEF Crash
  <2>3. \A m \in Nct : todo'[m] = todo[m] BY <2>1 DEF IInv, TypeOK
  <2>4. \A m \in Nct :
          \/ /\ leader'[m] = leader[m] /\ active'[m] = active[m]
             /\ held'[m] = held[m]
          \/ todo[m] = <<>> /\ ~leader'[m] /\ held'[m] = NoLaw
    <3>1. /\ leader' = [leader EXCEPT ![n] = FALSE]
          /\ active' = [active EXCEPT ![n] = 0]
          /\ held' = [held EXCEPT ![n] = NoLaw]
      BY <1>3 DEF Crash
    <3>2. /\ leader \in [Nct -> BOOLEAN] /\ active \in [Nct -> 0..MaxWindows]
          /\ held \in [Nct -> Law \cup {NoLaw}]
      BY DEF IInv, TypeOK
    <3>3. ~leader'[n] /\ held'[n] = NoLaw BY <3>1, <3>2
    <3>4. \A m \in Nct : m # n => /\ leader'[m] = leader[m]
                                 /\ active'[m] = active[m]
                                 /\ held'[m] = held[m]
      BY <3>1, <3>2
    <3> QED BY <2>1, <3>3, <3>4
  <2> QED BY <2>2, <2>3, <2>4, QUndisturbed
<1> QED BY <1>1, <1>2, <1>3

-----------------------------------------------------------------------------
\* No law is on its way before the first step.
LEMMA InitQInv == Init => QInv
<1> SUFFICES ASSUME Init PROVE QInv OBVIOUS
<1>1. \A n \in Nct : Left(n) = {} BY DEF Init, Left, CommandsOf
<1>2. \A n \in Nct : Knows(n) BY DEF Init, Knows
<1>3. AllPlaced BY DEF Init, AllPlaced, OnItsWay
<1> QED BY <1>1, <1>2, <1>3 DEF QInv

\* Every step keeps it.
LEMMA NextQInv ==
  ASSUME Primary = {}, ~TornCrashes
  PROVE  IInv /\ LInv /\ EInv /\ QInv /\ NoErrors' /\ [Next]_vars => QInv'
<1> SUFFICES ASSUME IInv, LInv, EInv, QInv, NoErrors', [Next]_vars PROVE QInv'
  OBVIOUS
<1>1. ASSUME NEW n \in Nct, Step(n)
      PROVE  QInv'
  <2>1. CASE AsideCommand(n) BY <2>1, AsideQueues
  <2>2. CASE RenewLeadership(n) BY <2>2, RenewQueues
  <2>3. CASE EnqueueLaw(n) BY <2>3, EnqueueQueues
  <2>4. CASE RemoveFromQueue(n) BY <2>4, RemoveQueues
  <2>5. CASE SaveWindow(n) BY <2>5, SaveWindowQueues
  <2>6. CASE SetActiveWindow(n) BY <2>6, SetActiveQueues
  <2>7. CASE ClearActiveWindow(n) BY <2>7, ClearActiveQueues
  <2>8. CASE SetWindowResult(n) BY <2>8, SetResultQueues
  <2>9. CASE SaveLaw(n) BY <2>9, SaveLawQueues
  <2>10. CASE SetLawStatus(n) BY <2>10, SetStatusQueues
  <2>11. CASE SaveDeliberation(n) BY <2>11, SaveDeliberationQueues
  <2>12. CASE HoldDeliberation(n) BY <2>12, HoldQueues
  <2>13. CASE ClearDeliberation(n) BY <2>13, ClearDeliberationQueues
  <2>14. CASE ReleaseWindowSeal(n) BY <2>14, ReleaseQueues
  <2>15. CASE MaybeOpenWindow(n) BY <2>15, MaybeOpenQueues
  <2>16. CASE CheckDeliberation(n) BY <2>16, CheckDeliberationQueues
  <2>17. CASE CheckDeadline(n) BY <2>17, CheckDeadlineQueues
  <2>18. CASE RetomarVentana(n) BY <2>18, RetomarVentanaQueues
  <2>19. CASE RecuperarDeliberacion(n) BY <2>19, RecuperarQueues
  <2>20. CASE RequeueIfStatus(n) BY <2>20, RequeueIfQueues
  <2>21. CASE OpenWindowNumbered(n) BY <2>21, OpenWindowQueues
  <2>22. CASE TrySealWindow(n) BY <2>22, TrySealQueues
  <2>23. CASE AppendBlock(n) BY <2>23, AppendQueues
  <2> QED
    BY <1>1, <2>1, <2>2, <2>3, <2>4, <2>5, <2>6, <2>7, <2>8, <2>9, <2>10,
       <2>11, <2>12, <2>13, <2>14, <2>15, <2>16, <2>17, <2>18, <2>19, <2>20,
       <2>21, <2>22, <2>23 DEF Step, AsideCommand
<1>2. CASE \/ LeaseExpires \/ UNCHANGED vars
           \/ \E w \in Window : DeadlinePasses(w)
           \/ \E l \in Law : PauseEnds(l)
           \/ \E n \in Nct : Boot(n) \/ Crash(n)
  BY <1>2, OthersQueue
<1>3. ASSUME NEW n \in Nct,
             TickStarts(n) \/ HandleProposal(n) \/ HandleNonceResponse(n)
      PROVE  QInv'
  BY <1>3, HandlersQueue
<1>4. ASSUME NEW n \in Nct, BecomeLeader(n)
      PROVE  QInv'
  BY <1>4, BecomeLeaderQueues
<1>5. ASSUME NEW n \in Nct,
             \/ HandlerError(n) \/ RetomarVentanaFails(n)
             \/ RecuperarDeliberacionFails(n) \/ TrySealWindowTwice(n)
             \/ AppendBlockTwice(n)
      PROVE  FALSE
  BY <1>5, ErrorsAreCounted DEF IInv
<1> QED BY <1>1, <1>2, <1>3, <1>4, <1>5 DEF Next

\* The invariant of the laws on their way.
THEOREM QueueInductive ==
  ASSUME Primary = {}, ~TornCrashes
  PROVE  Spec /\ [](OneLeader /\ NoErrors) => []QInv
<1>1. IInv /\ LInv /\ EInv /\ QInv /\ NoErrors' /\ [Next]_vars => QInv'
  BY NextQInv
<1> QED BY <1>1, InitQInv, Inductive, LeaderInductive, ErrorFreeInductive,
        PTL DEF Spec

\* Between handlers no law on its way to a verdict is left behind, however
\* many processes there are and however many of them crash: it is in the
\* queue, in the deliberation, or in the window that is active and open.  The
\* code keeps this promise only while one process leads at a time, no Redis
\* command fails, a process dies between two handlers and every leader takes
\* over what the one before left: the model has runs that break it otherwise.
THEOREM NoLawIsStranded ==
  ASSUME Primary = {}, ~TornCrashes
  PROVE  Spec /\ [](OneLeader /\ NoErrors) => []NoLawStranded
<1>1. QInv => NoLawStranded
  <2> SUFFICES ASSUME QInv, Quiescent, NEW l \in Law, status[l] \in OnItsWay
               PROVE  Placed(l)
    BY DEF NoLawStranded, OnItsWay, Placed, Undecided
  <2>1. \A n \in Nct : Left(n) = {} BY DEF Quiescent, Left, CommandsOf
  <2> QED BY <2>1 DEF QInv, AllPlaced, WillPlace
<1> QED BY <1>1, QueueInductive, PTL
=============================================================================
