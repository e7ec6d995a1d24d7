-------------------------- MODULE NctLeader_proofs --------------------------
(***************************************************************************)
(* What NctCoordinator keeps as long as one process leads at a time, that  *)
(* is, while no lease expires under a live leader (overlaps = 0), whatever *)
(* crashes and Redis errors do.                                            *)
(*                                                                         *)
(* With one leader the commands of a handler run undisturbed, so the       *)
(* invariant may speak of the order they come in: a command that is left   *)
(* to do says what is true now, or what a command before it will make      *)
(* true.                                                                   *)
(***************************************************************************)
EXTENDS NctCoordinator_proofs

OneLeader == overlaps = 0
NoErrors == errors = 0

-----------------------------------------------------------------------------
(* The commands left of a handler and their order *)

CommandsOf(t) == {t[i] : i \in DOMAIN t}
Left(n) == CommandsOf(todo[n])
Has(n, name) == \E c \in Left(n) : c.do = name

\* These commands start a handler, or what a method is replaced by.
Opening ==
  {"check_deliberation", "retomar_ventana", "try_seal_window",
   "release_window_seal", "save_window", "save_law", "set_law_action",
   "save_deliberation", "last_block_hash", "clear_deliberation",
   "set_window_result"}

\* The command called c may be left after one called h.
MayFollow(c, h) ==
  /\ c \notin Opening
  /\ c = "open_window" => h = "clear_deliberation"
  /\ c = "append_block" => h = "last_block_hash"
  /\ c = "set_law_status" =>
       h \in {"set_window_result", "clear_deliberation", "save_deliberation"}
  /\ c = "remove_from_queue" => h \in {"save_deliberation", "set_law_status"}
  /\ c = "hold" =>
       h \in {"save_deliberation", "set_law_status", "remove_from_queue"}
  /\ c = "set_active_window" => h \in {"set_law_status", "remove_from_queue"}
  /\ c = "publish_challenge" =>
       h \in {"set_law_status", "remove_from_queue", "set_active_window"}
  /\ c = "enqueue_law" =>
       h \in {"save_law", "set_law_action", "set_law_status",
              "set_window_result", "clear_deliberation"}
  /\ c = "set_cooldown" => h \in {"save_law", "set_law_action", "enqueue_law"}
  /\ c = "clear_active_window" =>
       h \in {"set_window_result", "set_law_status", "enqueue_law"}
  /\ c = "requeue_if" =>
       h \in {"clear_deliberation", "clear_active_window",
              "set_window_result"}
  /\ c = "recuperar_deliberacion" =>
       h \in {"retomar_ventana", "clear_active_window", "set_window_result",
              "set_law_status", "release_window_seal", "requeue_if",
              "enqueue_law"}

InOrder(t) ==
  \A i, j \in DOMAIN t : i < j => MayFollow(t[j].do, t[i].do)

-----------------------------------------------------------------------------
(* Sequences of commands *)

\* The commands of what is left are the first one and those of the tail.
LEMMA TailCommands ==
  ASSUME NEW t \in Seq(Command), t # <<>>
  PROVE  /\ CommandsOf(t) = {Head(t)} \cup CommandsOf(Tail(t))
         /\ CommandsOf(t) \subseteq Command
<1>1. \A i \in DOMAIN t : t[i] \in Command OBVIOUS
<1>2. t[1] = Head(t) /\ 1 \in DOMAIN t OBVIOUS
<1>3. \A i \in DOMAIN Tail(t) : Tail(t)[i] = t[i + 1] /\ i + 1 \in DOMAIN t
  OBVIOUS
<1>4. \A i \in DOMAIN t : i # 1 => i - 1 \in DOMAIN Tail(t)
                                     /\ Tail(t)[i - 1] = t[i]
  OBVIOUS
<1>5. CommandsOf(t) \subseteq {Head(t)} \cup CommandsOf(Tail(t))
  <2> SUFFICES ASSUME NEW i \in DOMAIN t, i # 1
               PROVE  t[i] \in CommandsOf(Tail(t))
    BY <1>2 DEF CommandsOf
  <2> QED BY <1>4 DEF CommandsOf
<1>6. CommandsOf(Tail(t)) \subseteq CommandsOf(t) BY <1>3 DEF CommandsOf
<1>7. Head(t) \in CommandsOf(t) BY <1>2 DEF CommandsOf
<1>8. CommandsOf(t) \subseteq Command BY <1>1 DEF CommandsOf
<1> QED BY <1>5, <1>6, <1>7, <1>8

\* Putting sequences together puts their commands together.
LEMMA ConcatCommands ==
  ASSUME NEW s \in Seq(Command), NEW t \in Seq(Command)
  PROVE  CommandsOf(s \o t) = CommandsOf(s) \cup CommandsOf(t)
<1>1. \A i \in DOMAIN (s \o t) :
        IF i <= Len(s) THEN i \in DOMAIN s /\ (s \o t)[i] = s[i]
                       ELSE i - Len(s) \in DOMAIN t
                            /\ (s \o t)[i] = t[i - Len(s)]
  OBVIOUS
<1>2. \A i \in DOMAIN s : i \in DOMAIN (s \o t) /\ (s \o t)[i] = s[i]
  OBVIOUS
<1>3. \A i \in DOMAIN t : i + Len(s) \in DOMAIN (s \o t)
                          /\ (s \o t)[i + Len(s)] = t[i]
  OBVIOUS
<1>4. CommandsOf(s \o t) \subseteq CommandsOf(s) \cup CommandsOf(t)
  BY <1>1 DEF CommandsOf
<1>5. CommandsOf(s) \cup CommandsOf(t) \subseteq CommandsOf(s \o t)
  BY <1>2, <1>3 DEF CommandsOf
<1> QED BY <1>4, <1>5

\* What follows the first command is in order, and may follow it.
LEMMA TailOrder ==
  ASSUME NEW t \in Seq(Command), t # <<>>, InOrder(t)
  PROVE  /\ InOrder(Tail(t))
         /\ \A c \in CommandsOf(Tail(t)) : MayFollow(c.do, Head(t).do)
<1>1. t[1] = Head(t) /\ 1 \in DOMAIN t OBVIOUS
<1>2. \A i \in DOMAIN Tail(t) :
        Tail(t)[i] = t[i + 1] /\ i + 1 \in DOMAIN t /\ 1 < i + 1 /\ i \in Nat
  OBVIOUS
<1>3. InOrder(Tail(t))
  <2> SUFFICES ASSUME NEW i \in DOMAIN Tail(t), NEW j \in DOMAIN Tail(t), i < j
               PROVE  MayFollow(Tail(t)[j].do, Tail(t)[i].do)
    BY DEF InOrder
  <2>1. i + 1 < j + 1 BY <1>2
  <2> QED BY <1>2, <2>1 DEF InOrder
<1>4. \A i \in DOMAIN Tail(t) : MayFollow(Tail(t)[i].do, Head(t).do)
  BY <1>1, <1>2 DEF InOrder
<1> QED BY <1>3, <1>4 DEF CommandsOf

\* Two sequences in order, where each command of the second may follow each of
\* the first.
LEMMA ConcatOrder ==
  ASSUME NEW s \in Seq(Command), NEW t \in Seq(Command), InOrder(s), InOrder(t),
         \A c \in CommandsOf(s), d \in CommandsOf(t) : MayFollow(d.do, c.do)
  PROVE  InOrder(s \o t)
<1> SUFFICES ASSUME NEW i \in DOMAIN (s \o t), NEW j \in DOMAIN (s \o t), i < j
             PROVE  MayFollow((s \o t)[j].do, (s \o t)[i].do)
  BY DEF InOrder
<1>1. i \in Nat /\ j \in Nat /\ Len(s) \in Nat OBVIOUS
<1>2. \A k \in DOMAIN (s \o t) :
        IF k <= Len(s) THEN k \in DOMAIN s /\ (s \o t)[k] = s[k]
                       ELSE k - Len(s) \in DOMAIN t
                            /\ (s \o t)[k] = t[k - Len(s)]
  OBVIOUS
<1>3. CASE j <= Len(s)
  <2>1. i <= Len(s) BY <1>1, <1>3
  <2> QED BY <1>2, <1>3, <2>1 DEF InOrder
<1>4. CASE i > Len(s)
  <2>1. j > Len(s) /\ i - Len(s) < j - Len(s) BY <1>1, <1>4
  <2>2. ~(i <= Len(s)) /\ ~(j <= Len(s)) BY <1>1, <1>4, <2>1
  <2> QED BY <1>2, <2>1, <2>2 DEF InOrder
<1>5. CASE i <= Len(s) /\ ~(j <= Len(s))
  <2>1. i \in DOMAIN s /\ (s \o t)[i] = s[i] BY <1>2, <1>5
  <2>2. j - Len(s) \in DOMAIN t /\ (s \o t)[j] = t[j - Len(s)]
    BY <1>2, <1>5
  <2>3. s[i] \in CommandsOf(s) BY <2>1 DEF CommandsOf
  <2>4. t[j - Len(s)] \in CommandsOf(t) BY <2>2 DEF CommandsOf
  <2> QED BY <2>1, <2>2, <2>3, <2>4
<1> QED BY <1>1, <1>3, <1>4, <1>5

-----------------------------------------------------------------------------
(* How a step changes what is left *)

Rest(n) == CommandsOf(Tail(todo[n]))

\* The first command is done, and the commands new come before the others.
Goes(n, name, new) ==
  /\ At(n, name) /\ Cmd(n).do = name
  /\ Left(n) = {Cmd(n)} \cup Rest(n) /\ Left(n) \subseteq Command
  /\ \A c \in Rest(n) : MayFollow(c.do, name)
  /\ Left(n)' = new \cup Rest(n)
  /\ InOrder(todo[n])'
  /\ \A m \in Nct : m # n => todo'[m] = todo[m]

\* The script s may take the place of the command called name.
Replaces(s, name) ==
  /\ s \in Seq(Command) /\ InOrder(s)
  /\ \A x : MayFollow(x, name) => \A c \in CommandsOf(s) : MayFollow(x, c.do)

\* A command that is done.
LEMMA DoneGoes ==
  ASSUME TypeOK, NEW n \in Nct, InOrder(todo[n]), NEW name, At(n, name), Done(n)
  PROVE  Goes(n, name, {})
<1>1. todo[n] \in Seq(Command) /\ todo[n] # <<>> BY DEF TypeOK, At
<1>2. todo'[n] = Tail(todo[n]) /\ \A m \in Nct : m # n => todo'[m] = todo[m]
  BY DEF Done, TypeOK
<1>3. Left(n) = {Cmd(n)} \cup Rest(n) /\ Left(n) \subseteq Command
  BY <1>1, TailCommands DEF Left, Rest, Cmd
<1>4. InOrder(Tail(todo[n])) /\ \A c \in Rest(n) : MayFollow(c.do, Cmd(n).do)
  BY <1>1, TailOrder DEF Rest, Cmd
<1>5. Left(n)' = Rest(n) BY <1>2 DEF Left, Rest
<1>6. InOrder(todo[n])' BY <1>2, <1>4 DEF InOrder
<1> QED BY <1>2, <1>3, <1>4, <1>5, <1>6 DEF Goes, At, Cmd

\* A command that is replaced by a script.
LEMMA ExpandGoes ==
  ASSUME TypeOK, NEW n \in Nct, InOrder(todo[n]), NEW name, At(n, name),
         NEW s, Replaces(s, name), Expand(n, s)
  PROVE  Goes(n, name, CommandsOf(s))
<1>1. todo[n] \in Seq(Command) /\ todo[n] # <<>> BY DEF TypeOK, At
<1>2. /\ todo'[n] = s \o Tail(todo[n])
      /\ \A m \in Nct : m # n => todo'[m] = todo[m]
  BY DEF Expand, TypeOK
<1>3. Left(n) = {Cmd(n)} \cup Rest(n) /\ Left(n) \subseteq Command
  BY <1>1, TailCommands DEF Left, Rest, Cmd
<1>4. InOrder(Tail(todo[n])) /\ \A c \in Rest(n) : MayFollow(c.do, name)
  BY <1>1, TailOrder DEF Rest, Cmd, At
<1>5. s \in Seq(Command) /\ Tail(todo[n]) \in Seq(Command)
  BY <1>1 DEF Replaces
<1>6. CommandsOf(s \o Tail(todo[n])) = CommandsOf(s) \cup Rest(n)
  <2>1. PICK t : t = Tail(todo[n]) OBVIOUS
  <2>2. CommandsOf(s \o t) = CommandsOf(s) \cup CommandsOf(t)
    BY <1>5, <2>1, ConcatCommands
  <2> QED BY <2>1, <2>2 DEF Rest
<1>7. Left(n)' = CommandsOf(s) \cup Rest(n) BY <1>2, <1>6 DEF Left, CommandsOf
<1>8. InOrder(s \o Tail(todo[n]))
  BY <1>4, <1>5, ConcatOrder DEF Replaces, Rest
<1>9. InOrder(todo[n])' BY <1>2, <1>8 DEF InOrder
<1> QED BY <1>2, <1>3, <1>4, <1>7, <1>9 DEF Goes, At, Cmd

-----------------------------------------------------------------------------
(* The scripts *)

\* The constructors build commands.
LEMMA CommandTypes ==
  /\ \A name \in StoreCommand \cup MethodCommand : Do(name) \in Command
  /\ \A name \in StoreCommand \cup MethodCommand, l \in Law :
       OnLaw(name, l) \in Command
  /\ \A name \in StoreCommand \cup MethodCommand, w \in Window :
       OnWindow(name, w) \in Command
  /\ \A l \in Law, st \in Status : SetStatus(l, st) \in Command
  /\ \A l \in Law, st \in Status : RequeueIf(l, st) \in Command
  /\ \A w \in Window, r \in Result : SetResult(w, r) \in Command
  /\ \A w \in Window, l \in Law, a \in Action :
       SaveWindowCmd(w, l, a) \in Command
<1>1. 0 \in 0..MaxWindows /\ Window \subseteq 0..MaxWindows
  BY ConstantsAssumption DEF Window
<1>2. "none" \in Status BY DEF Status
<1> QED
  BY <1>1, <1>2
     DEF Do, OnLaw, OnWindow, SetStatus, SetResult, RequeueIf, SaveWindowCmd,
         Command4, Command, StoreCommand, MethodCommand

\* What may follow a method that leaves all to others may follow anything.
LEMMA AnyTime ==
  ASSUME NEW x, NEW h,
         NEW name \in {"maybe_open_window", "check_deliberation",
                       "check_deadline", "open_window", "save_window",
                       "recuperar_deliberacion", "try_seal_window",
                       "append_block"},
         MayFollow(x, name)
  PROVE  MayFollow(x, h)
BY DEF MayFollow

\* In a takeover the deliberation is recovered after the window.
LEMMA InTakeover ==
  ASSUME NEW x,
         NEW h \in {"clear_active_window", "set_window_result",
                    "set_law_status", "release_window_seal", "requeue_if",
                    "enqueue_law"},
         MayFollow(x, "retomar_ventana") \/ MayFollow(x, "requeue_if")
  PROVE  MayFollow(x, h)
BY DEF MayFollow

\* Scripts of one to five commands.
LEMMA Script1 ==
  ASSUME NEW name, NEW a \in Command,
         \A x : MayFollow(x, name) => MayFollow(x, a.do)
  PROVE  Replaces(<<a>>, name) /\ CommandsOf(<<a>>) = {a}
BY DEF Replaces, CommandsOf, InOrder

\* The same of two commands.
LEMMA Script2 ==
  ASSUME NEW name, NEW a \in Command, NEW b \in Command,
         \A x : MayFollow(x, name) => MayFollow(x, a.do) /\ MayFollow(x, b.do),
         MayFollow(b.do, a.do)
  PROVE  Replaces(<<a, b>>, name) /\ CommandsOf(<<a, b>>) = {a, b}
<1>1. CommandsOf(<<a, b>>) = {a, b} BY DEF CommandsOf
<1>2. InOrder(<<a, b>>) BY DEF InOrder
<1> QED BY <1>1, <1>2 DEF Replaces

\* The same of three commands.
LEMMA Script3 ==
  ASSUME NEW name, NEW a \in Command, NEW b \in Command, NEW c \in Command,
         \A x : MayFollow(x, name) =>
           MayFollow(x, a.do) /\ MayFollow(x, b.do) /\ MayFollow(x, c.do),
         MayFollow(b.do, a.do), MayFollow(c.do, a.do), MayFollow(c.do, b.do)
  PROVE  Replaces(<<a, b, c>>, name) /\ CommandsOf(<<a, b, c>>) = {a, b, c}
<1>1. CommandsOf(<<a, b, c>>) = {a, b, c} BY DEF CommandsOf
<1>2. InOrder(<<a, b, c>>) BY DEF InOrder
<1> QED BY <1>1, <1>2 DEF Replaces

\* The same of four commands.
LEMMA Script4 ==
  ASSUME NEW name, NEW a \in Command, NEW b \in Command, NEW c \in Command,
         NEW d \in Command,
         \A x : MayFollow(x, name) =>
           /\ MayFollow(x, a.do) /\ MayFollow(x, b.do)
           /\ MayFollow(x, c.do) /\ MayFollow(x, d.do),
         MayFollow(b.do, a.do), MayFollow(c.do, a.do), MayFollow(d.do, a.do),
         MayFollow(c.do, b.do), MayFollow(d.do, b.do), MayFollow(d.do, c.do)
  PROVE  /\ Replaces(<<a, b, c, d>>, name)
         /\ CommandsOf(<<a, b, c, d>>) = {a, b, c, d}
<1>1. CommandsOf(<<a, b, c, d>>) = {a, b, c, d} BY DEF CommandsOf
<1>2. InOrder(<<a, b, c, d>>) BY DEF InOrder
<1> QED BY <1>1, <1>2 DEF Replaces

\* The same of five commands.
LEMMA Script5 ==
  ASSUME NEW name, NEW a \in Command, NEW b \in Command, NEW c \in Command,
         NEW d \in Command, NEW e \in Command,
         \A x : MayFollow(x, name) =>
           /\ MayFollow(x, a.do) /\ MayFollow(x, b.do) /\ MayFollow(x, c.do)
           /\ MayFollow(x, d.do) /\ MayFollow(x, e.do),
         MayFollow(b.do, a.do), MayFollow(c.do, a.do), MayFollow(d.do, a.do),
         MayFollow(e.do, a.do), MayFollow(c.do, b.do), MayFollow(d.do, b.do),
         MayFollow(e.do, b.do), MayFollow(d.do, c.do), MayFollow(e.do, c.do),
         MayFollow(e.do, d.do)
  PROVE  /\ Replaces(<<a, b, c, d, e>>, name)
         /\ CommandsOf(<<a, b, c, d, e>>) = {a, b, c, d, e}
<1>1. CommandsOf(<<a, b, c, d, e>>) = {a, b, c, d, e} BY DEF CommandsOf
<1>2. InOrder(<<a, b, c, d, e>>) BY DEF InOrder
<1> QED BY <1>1, <1>2 DEF Replaces

\* Scripts put together.
LEMMA SameSeq ==
  ASSUME NEW S, NEW s \in Seq(S), NEW t \in Seq(S), Len(s) = Len(t),
         \A i \in 1..Len(s) : s[i] = t[i]
  PROVE  s = t
OBVIOUS

\* One command and two more, as one sequence.
LEMMA Joined12 ==
  ASSUME NEW a \in Command, NEW b \in Command, NEW c \in Command
  PROVE  <<a>> \o <<b, c>> = <<a, b, c>>
<1>1. /\ <<a>> \in Seq(Command) /\ <<b, c>> \in Seq(Command)
      /\ <<a, b, c>> \in Seq(Command)
  OBVIOUS
<1>2. PICK t : t = <<a>> \o <<b, c>> OBVIOUS
<1>3. t \in Seq(Command) /\ Len(t) = 3 BY <1>1, <1>2
<1>4. t[1] = a BY <1>1, <1>2
<1>5. t[2] = b /\ t[3] = c BY <1>1, <1>2
<1>6. \A i \in 1..3 : t[i] = <<a, b, c>>[i] BY <1>3, <1>4, <1>5
<1> QED BY <1>1, <1>2, <1>3, <1>6, SameSeq

\* Two commands and two more, as one sequence.
LEMMA Joined22 ==
  ASSUME NEW a \in Command, NEW b \in Command, NEW c \in Command,
         NEW d \in Command
  PROVE  <<a, b>> \o <<c, d>> = <<a, b, c, d>>
<1>1. /\ <<a, b>> \in Seq(Command) /\ <<c, d>> \in Seq(Command)
      /\ <<a, b, c, d>> \in Seq(Command)
  OBVIOUS
<1>2. PICK t : t = <<a, b>> \o <<c, d>> OBVIOUS
<1>3. t \in Seq(Command) /\ Len(t) = 4 BY <1>1, <1>2
<1>4. t[1] = a /\ t[2] = b BY <1>1, <1>2
<1>5. t[3] = c /\ t[4] = d BY <1>1, <1>2
<1>6. \A i \in 1..4 : t[i] = <<a, b, c, d>>[i] BY <1>3, <1>4, <1>5
<1> QED BY <1>1, <1>2, <1>3, <1>6, SameSeq

\* Three commands and one more, as one sequence.
LEMMA Joined31 ==
  ASSUME NEW a \in Command, NEW b \in Command, NEW c \in Command,
         NEW d \in Command
  PROVE  <<a, b, c>> \o <<d>> = <<a, b, c, d>>
<1>1. /\ <<a, b, c>> \in Seq(Command) /\ <<d>> \in Seq(Command)
      /\ <<a, b, c, d>> \in Seq(Command)
  OBVIOUS
<1>2. PICK t : t = <<a, b, c>> \o <<d>> OBVIOUS
<1>3. t \in Seq(Command) /\ Len(t) = 4 BY <1>1, <1>2
<1>4. t[1] = a /\ t[2] = b /\ t[3] = c BY <1>1, <1>2
<1>5. t[4] = d BY <1>1, <1>2
<1>6. \A i \in 1..4 : t[i] = <<a, b, c, d>>[i] BY <1>3, <1>4, <1>5
<1> QED BY <1>1, <1>2, <1>3, <1>6, SameSeq

\* Three commands and two more, as one sequence.
LEMMA Joined32 ==
  ASSUME NEW a \in Command, NEW b \in Command, NEW c \in Command,
         NEW d \in Command, NEW e \in Command
  PROVE  <<a, b, c>> \o <<d, e>> = <<a, b, c, d, e>>
<1>1. /\ <<a, b, c>> \in Seq(Command) /\ <<d, e>> \in Seq(Command)
      /\ <<a, b, c, d, e>> \in Seq(Command)
  OBVIOUS
<1>2. PICK t : t = <<a, b, c>> \o <<d, e>> OBVIOUS
<1>3. t \in Seq(Command) /\ Len(t) = 5 BY <1>1, <1>2
<1>4. t[1] = a /\ t[2] = b /\ t[3] = c BY <1>1, <1>2
<1>5. t[4] = d /\ t[5] = e BY <1>1, <1>2
<1>6. \A i \in 1..5 : t[i] = <<a, b, c, d, e>>[i] BY <1>3, <1>4, <1>5
<1> QED BY <1>1, <1>2, <1>3, <1>6, SameSeq

\* What starts a deliberation.
LEMMA StartScript ==
  ASSUME NEW l \in Law
  PROVE  /\ Replaces(StartDeliberation(l), "maybe_open_window")
         /\ CommandsOf(StartDeliberation(l)) =
              {OnLaw("save_deliberation", l),
               SetStatus(l, "in_deliberation"),
               OnLaw("remove_from_queue", l),
               OnLaw("hold", l)}
<1>1. PICK a, b, c, d :
        /\ a = OnLaw("save_deliberation", l)
        /\ b = SetStatus(l, "in_deliberation")
        /\ c = OnLaw("remove_from_queue", l)
        /\ d = OnLaw("hold", l)
  OBVIOUS
<1>2. /\ a.do = "save_deliberation" /\ b.do = "set_law_status"
      /\ c.do = "remove_from_queue" /\ d.do = "hold"
  BY <1>1 DEF OnLaw, SetStatus, Command4
<1>3. a \in Command /\ b \in Command /\ c \in Command /\ d \in Command
  BY <1>1, CommandTypes
     DEF MethodCommand, Status, StoreCommand
<1>4. /\ MayFollow(b.do, a.do) /\ MayFollow(c.do, a.do)
      /\ MayFollow(d.do, a.do) /\ MayFollow(c.do, b.do)
      /\ MayFollow(d.do, b.do) /\ MayFollow(d.do, c.do)
  BY <1>2 DEF MayFollow, Opening
<1>5. \A x : MayFollow(x, "maybe_open_window") =>
        /\ MayFollow(x, a.do) /\ MayFollow(x, b.do)
        /\ MayFollow(x, c.do) /\ MayFollow(x, d.do)
  BY AnyTime
<1>6. /\ Replaces(<<a, b, c, d>>, "maybe_open_window")
      /\ CommandsOf(<<a, b, c, d>>) = {a, b, c, d}
  BY <1>3, <1>4, <1>5, Script4
<1> QED BY <1>1, <1>6 DEF StartDeliberation

\* What opens a window without deliberation.
LEMMA OpenScript ==
  ASSUME NEW l \in Law
  PROVE  /\ Replaces(<<OnLaw("open_window", l)>>, "maybe_open_window")
         /\ CommandsOf(<<OnLaw("open_window", l)>>) =
              {OnLaw("open_window", l)}
<1>1. PICK a :
        /\ a = OnLaw("open_window", l)
  OBVIOUS
<1>2. /\ a.do = "open_window"
  BY <1>1 DEF OnLaw, Command4
<1>3. a \in Command
  BY <1>1, CommandTypes
     DEF MethodCommand, StoreCommand
<1> QED BY <1>1, <1>3, AnyTime, Script1

\* What ends a deliberation with a quorum.
LEMMA ResolveOpenScript ==
  ASSUME NEW l \in Law
  PROVE  /\ Replaces(ResolveOpen(l), "check_deliberation")
         /\ CommandsOf(ResolveOpen(l)) =
              {Do("clear_deliberation"),
               OnLaw("open_window", l)}
<1>1. PICK a, b :
        /\ a = Do("clear_deliberation")
        /\ b = OnLaw("open_window", l)
  OBVIOUS
<1>2. /\ a.do = "clear_deliberation" /\ b.do = "open_window"
  BY <1>1 DEF Do, OnLaw, Command4
<1>3. a \in Command /\ b \in Command
  BY <1>1, CommandTypes
     DEF MethodCommand, StoreCommand
<1>4. /\ MayFollow(b.do, a.do)
  BY <1>2 DEF MayFollow, Opening
<1> QED BY <1>1, <1>3, <1>4, AnyTime, Script2
     DEF ResolveOpen

\* What ends a deliberation that discards the law.
LEMMA ResolveDiscardScript ==
  ASSUME NEW l \in Law
  PROVE  /\ Replaces(ResolveDiscard(l), "check_deliberation")
         /\ CommandsOf(ResolveDiscard(l)) =
              {Do("clear_deliberation"),
               SetStatus(l, "discarded"),
               Do("maybe_open_window")}
<1>1. PICK a, b, c :
        /\ a = Do("clear_deliberation")
        /\ b = SetStatus(l, "discarded")
        /\ c = Do("maybe_open_window")
  OBVIOUS
<1>2. /\ a.do = "clear_deliberation" /\ b.do = "set_law_status"
      /\ c.do = "maybe_open_window"
  BY <1>1 DEF Do, SetStatus, Command4
<1>3. a \in Command /\ b \in Command /\ c \in Command
  BY <1>1, CommandTypes
     DEF MethodCommand, Status, StoreCommand
<1>4. /\ MayFollow(b.do, a.do) /\ MayFollow(c.do, a.do)
      /\ MayFollow(c.do, b.do)
  BY <1>2 DEF MayFollow, Opening
<1>5. \A x : MayFollow(x, "check_deliberation") =>
        /\ MayFollow(x, a.do) /\ MayFollow(x, b.do) /\ MayFollow(x, c.do)
  BY AnyTime
<1>6. /\ Replaces(<<a, b, c>>, "check_deliberation")
      /\ CommandsOf(<<a, b, c>>) = {a, b, c}
  BY <1>3, <1>4, <1>5, Script3
<1> QED BY <1>1, <1>6 DEF ResolveDiscard

\* What ends a deliberation that nobody took part in.
LEMMA ResolveRequeueScript ==
  ASSUME NEW l \in Law
  PROVE  /\ Replaces(ResolveRequeue(l), "check_deliberation")
         /\ CommandsOf(ResolveRequeue(l)) =
              {Do("clear_deliberation"),
               SetStatus(l, "pending_queue"),
               OnLaw("enqueue_law", l),
               Do("maybe_open_window")}
<1>1. PICK a, b, c, d :
        /\ a = Do("clear_deliberation")
        /\ b = SetStatus(l, "pending_queue")
        /\ c = OnLaw("enqueue_law", l)
        /\ d = Do("maybe_open_window")
  OBVIOUS
<1>2. /\ a.do = "clear_deliberation" /\ b.do = "set_law_status"
      /\ c.do = "enqueue_law" /\ d.do = "maybe_open_window"
  BY <1>1 DEF Do, OnLaw, SetStatus, Command4
<1>3. a \in Command /\ b \in Command /\ c \in Command /\ d \in Command
  BY <1>1, CommandTypes
     DEF MethodCommand, Status, StoreCommand
<1>4. /\ MayFollow(b.do, a.do) /\ MayFollow(c.do, a.do)
      /\ MayFollow(d.do, a.do) /\ MayFollow(c.do, b.do)
      /\ MayFollow(d.do, b.do) /\ MayFollow(d.do, c.do)
  BY <1>2 DEF MayFollow, Opening
<1>5. Requeue(l) = <<b, c>> BY <1>1 DEF Requeue
<1>6. <<a>> \o <<b, c>> = <<a, b, c>> BY <1>3, Joined12
<1>7. <<a, b, c>> \o <<d>> = <<a, b, c, d>> BY <1>3, Joined31
<1>8. ResolveRequeue(l) = <<a, b, c, d>> BY <1>1, <1>5, <1>6, <1>7
     DEF ResolveRequeue
<1>9. \A x : MayFollow(x, "check_deliberation") =>
        /\ MayFollow(x, a.do) /\ MayFollow(x, b.do)
        /\ MayFollow(x, c.do) /\ MayFollow(x, d.do)
  BY AnyTime
<1>10. /\ Replaces(<<a, b, c, d>>, "check_deliberation")
      /\ CommandsOf(<<a, b, c, d>>) = {a, b, c, d}
  BY <1>3, <1>4, <1>9, Script4
<1> QED BY <1>1, <1>8, <1>10

\* What closes a window nobody mined.
LEMMA CloseExpiredScript ==
  ASSUME NEW w, Saved(w)
  PROVE  /\ Replaces(CloseExpired(w), "check_deadline")
         /\ CommandsOf(CloseExpired(w)) =
              {SetResult(w, "expired_pending"),
               SetStatus(window[w].law, "discarded"),
               Do("clear_active_window"),
               Do("maybe_open_window")}
<1>1. PICK a, b, c, d :
        /\ a = SetResult(w, "expired_pending")
        /\ b = SetStatus(window[w].law, "discarded")
        /\ c = Do("clear_active_window")
        /\ d = Do("maybe_open_window")
  OBVIOUS
<1>2. /\ a.do = "set_window_result" /\ b.do = "set_law_status"
      /\ c.do = "clear_active_window" /\ d.do = "maybe_open_window"
  BY <1>1 DEF Do, SetResult, SetStatus, Command4
<1>3. w \in Window /\ window[w].law \in Law BY DEF Saved
<1>4. a \in Command /\ b \in Command /\ c \in Command /\ d \in Command
  BY <1>1, CommandTypes, <1>3
     DEF MethodCommand, Result, Status, StoreCommand
<1>5. /\ MayFollow(b.do, a.do) /\ MayFollow(c.do, a.do)
      /\ MayFollow(d.do, a.do) /\ MayFollow(c.do, b.do)
      /\ MayFollow(d.do, b.do) /\ MayFollow(d.do, c.do)
  BY <1>2 DEF MayFollow, Opening
<1>6. \A x : MayFollow(x, "check_deadline") =>
        /\ MayFollow(x, a.do) /\ MayFollow(x, b.do)
        /\ MayFollow(x, c.do) /\ MayFollow(x, d.do)
  BY AnyTime
<1>7. /\ Replaces(<<a, b, c, d>>, "check_deadline")
      /\ CommandsOf(<<a, b, c, d>>) = {a, b, c, d}
  BY <1>4, <1>5, <1>6, Script4
<1> QED BY <1>1, <1>7 DEF CloseExpired

\* What closes a window nobody could mine.
LEMMA CloseWithoutQuorumScript ==
  ASSUME NEW w, Saved(w)
  PROVE  /\ Replaces(CloseWithoutQuorum(w), "check_deadline")
         /\ CommandsOf(CloseWithoutQuorum(w)) =
              {SetResult(w, "expired_no_quorum"),
               SetStatus(window[w].law, "pending_queue"),
               OnLaw("enqueue_law", window[w].law),
               Do("clear_active_window"),
               Do("maybe_open_window")}
<1>1. PICK a, b, c, d, e :
        /\ a = SetResult(w, "expired_no_quorum")
        /\ b = SetStatus(window[w].law, "pending_queue")
        /\ c = OnLaw("enqueue_law", window[w].law)
        /\ d = Do("clear_active_window")
        /\ e = Do("maybe_open_window")
  OBVIOUS
<1>2. /\ a.do = "set_window_result" /\ b.do = "set_law_status"
      /\ c.do = "enqueue_law" /\ d.do = "clear_active_window"
      /\ e.do = "maybe_open_window"
  BY <1>1 DEF Do, OnLaw, SetResult, SetStatus, Command4
<1>3. w \in Window /\ window[w].law \in Law BY DEF Saved
<1>4. a \in Command /\ b \in Command /\ c \in Command /\ d \in Command
      /\ e \in Command
  BY <1>1, CommandTypes, <1>3
     DEF MethodCommand, Result, Status, StoreCommand
<1>5. /\ MayFollow(b.do, a.do) /\ MayFollow(c.do, a.do)
      /\ MayFollow(d.do, a.do) /\ MayFollow(e.do, a.do)
      /\ MayFollow(c.do, b.do) /\ MayFollow(d.do, b.do)
      /\ MayFollow(e.do, b.do) /\ MayFollow(d.do, c.do)
      /\ MayFollow(e.do, c.do) /\ MayFollow(e.do, d.do)
  BY <1>2 DEF MayFollow, Opening
<1>6. \A x : MayFollow(x, "check_deadline") =>
        /\ MayFollow(x, a.do) /\ MayFollow(x, b.do) /\ MayFollow(x, c.do)
        /\ MayFollow(x, d.do) /\ MayFollow(x, e.do)
  BY AnyTime
<1>7. Requeue(window[w].law) = <<b, c>> BY <1>1 DEF Requeue
<1>8. <<a>> \o <<b, c>> = <<a, b, c>> BY <1>4, Joined12
<1>9. <<a, b, c>> \o <<d, e>> = <<a, b, c, d, e>> BY <1>4, Joined32
<1>10. CloseWithoutQuorum(w) = <<a, b, c, d, e>> BY <1>1, <1>7, <1>8, <1>9
     DEF CloseWithoutQuorum
<1>11. /\ Replaces(<<a, b, c, d, e>>, "check_deadline")
       /\ CommandsOf(<<a, b, c, d, e>>) = {a, b, c, d, e}
  BY <1>4, <1>5, <1>6, Script5
<1> QED BY <1>1, <1>10, <1>11

\* What a takeover does with a window that was decided.
LEMMA ForgetScript ==
  /\ Replaces(<<Do("clear_active_window")>>, "retomar_ventana")
  /\ CommandsOf(<<Do("clear_active_window")>>) =
       {Do("clear_active_window")}
<1>1. PICK a :
        /\ a = Do("clear_active_window")
  OBVIOUS
<1>2. /\ a.do = "clear_active_window"
  BY <1>1 DEF Do, Command4
<1>3. a \in Command
  BY <1>1, CommandTypes
     DEF MethodCommand, StoreCommand
<1>4. \A x : MayFollow(x, "retomar_ventana") =>
        /\ MayFollow(x, a.do)
  BY <1>2, InTakeover
<1> QED BY <1>1, <1>3, <1>4, Script1

\* What a takeover does with a window whose block is in the chain.
LEMMA CompleteScript ==
  ASSUME NEW w, Saved(w)
  PROVE  /\ Replaces(CloseSealed(w), "retomar_ventana")
         /\ CommandsOf(CloseSealed(w)) =
              {SetResult(w, "success"),
               SetStatus(window[w].law, Verdict(w)),
               Do("clear_active_window")}
<1>1. PICK a, b, c :
        /\ a = SetResult(w, "success")
        /\ b = SetStatus(window[w].law, Verdict(w))
        /\ c = Do("clear_active_window")
  OBVIOUS
<1>2. /\ a.do = "set_window_result" /\ b.do = "set_law_status"
      /\ c.do = "clear_active_window"
  BY <1>1 DEF Do, SetResult, SetStatus, Command4
<1>3. w \in Window /\ window[w].law \in Law BY DEF Saved
<1>4. a \in Command /\ b \in Command /\ c \in Command
  BY <1>1, CommandTypes, <1>3
     DEF MethodCommand, Result, Status, StoreCommand, Verdict
<1>5. /\ MayFollow(b.do, a.do) /\ MayFollow(c.do, a.do)
      /\ MayFollow(c.do, b.do)
  BY <1>2 DEF MayFollow, Opening
<1>6. \A x : MayFollow(x, "retomar_ventana") =>
        /\ MayFollow(x, a.do) /\ MayFollow(x, b.do) /\ MayFollow(x, c.do)
  BY <1>2, InTakeover
<1> QED BY <1>1, <1>4, <1>5, <1>6, Script3
     DEF CloseSealed

\* What a takeover does with a window that was being sealed.
LEMMA ReleaseScript ==
  ASSUME NEW w, Saved(w)
  PROVE  /\ Replaces(<<OnWindow("release_window_seal", w)>>, "retomar_ventana")
         /\ CommandsOf(<<OnWindow("release_window_seal", w)>>) =
              {OnWindow("release_window_seal", w)}
<1>1. PICK a :
        /\ a = OnWindow("release_window_seal", w)
  OBVIOUS
<1>2. /\ a.do = "release_window_seal"
  BY <1>1 DEF OnWindow, Command4
<1>3. w \in Window /\ window[w].law \in Law BY DEF Saved
<1>4. a \in Command
  BY <1>1, CommandTypes, <1>3
     DEF MethodCommand, StoreCommand
<1>5. \A x : MayFollow(x, "retomar_ventana") =>
        /\ MayFollow(x, a.do)
  BY <1>2, InTakeover
<1> QED BY <1>1, <1>4, <1>5, Script1

\* What it does when it fails.
LEMMA GiveBackScript ==
  ASSUME NEW w, Saved(w)
  PROVE  /\ Replaces(GiveBack(w), "retomar_ventana")
         /\ CommandsOf(GiveBack(w)) =
              {Do("clear_active_window"),
               RequeueIf(window[w].law, "in_window")}
<1>1. PICK a, b :
        /\ a = Do("clear_active_window")
        /\ b = RequeueIf(window[w].law, "in_window")
  OBVIOUS
<1>2. /\ a.do = "clear_active_window" /\ b.do = "requeue_if"
  BY <1>1 DEF Do, RequeueIf, Command4
<1>3. w \in Window /\ window[w].law \in Law BY DEF Saved
<1>4. a \in Command /\ b \in Command
  BY <1>1, CommandTypes, <1>3
     DEF MethodCommand, Status, StoreCommand
<1>5. /\ MayFollow(b.do, a.do)
  BY <1>2 DEF MayFollow, Opening
<1>6. \A x : MayFollow(x, "retomar_ventana") =>
        /\ MayFollow(x, a.do) /\ MayFollow(x, b.do)
  BY <1>2, InTakeover
<1> QED BY <1>1, <1>4, <1>5, <1>6, Script2
     DEF GiveBack

\* What it does when it fails after recording the result.
LEMMA HalfCompleteScript ==
  ASSUME NEW w, Saved(w)
  PROVE  /\ Replaces(<<SetResult(w, "success")>> \o GiveBack(w),
                     "retomar_ventana")
         /\ CommandsOf((<<SetResult(w, "success")>> \o GiveBack(w))) =
              {SetResult(w, "success"),
               Do("clear_active_window"),
               RequeueIf(window[w].law, "in_window")}
<1>1. PICK a, b, c :
        /\ a = SetResult(w, "success")
        /\ b = Do("clear_active_window")
        /\ c = RequeueIf(window[w].law, "in_window")
  OBVIOUS
<1>2. /\ a.do = "set_window_result" /\ b.do = "clear_active_window"
      /\ c.do = "requeue_if"
  BY <1>1 DEF Do, RequeueIf, SetResult, Command4
<1>3. w \in Window /\ window[w].law \in Law BY DEF Saved
<1>4. a \in Command /\ b \in Command /\ c \in Command
  BY <1>1, CommandTypes, <1>3
     DEF MethodCommand, Result, Status, StoreCommand
<1>5. /\ MayFollow(b.do, a.do) /\ MayFollow(c.do, a.do)
      /\ MayFollow(c.do, b.do)
  BY <1>2 DEF MayFollow, Opening
<1>6. \A x : MayFollow(x, "retomar_ventana") =>
        /\ MayFollow(x, a.do) /\ MayFollow(x, b.do) /\ MayFollow(x, c.do)
  BY <1>2, InTakeover
<1>7. (<<SetResult(w, "success")>> \o GiveBack(w)) = <<a, b, c>>
  BY <1>1, <1>4, Joined12 DEF GiveBack
<1>8. /\ Replaces(<<a, b, c>>, "retomar_ventana")
      /\ CommandsOf(<<a, b, c>>) = {a, b, c}
  BY <1>4, <1>5, <1>6, Script3
<1> QED BY <1>1, <1>7, <1>8

\* What recovers a deliberation.
LEMMA RecoverScript ==
  ASSUME NEW l \in Law
  PROVE  /\ Replaces(<<Do("clear_deliberation"), RequeueIf(l, "in_deliberation")>>,
                     "recuperar_deliberacion")
         /\ CommandsOf(<<Do("clear_deliberation"), RequeueIf(l, "in_deliberation")>>) =
              {Do("clear_deliberation"),
               RequeueIf(l, "in_deliberation")}
<1>1. PICK a, b :
        /\ a = Do("clear_deliberation")
        /\ b = RequeueIf(l, "in_deliberation")
  OBVIOUS
<1>2. /\ a.do = "clear_deliberation" /\ b.do = "requeue_if"
  BY <1>1 DEF Do, RequeueIf, Command4
<1>3. a \in Command /\ b \in Command
  BY <1>1, CommandTypes
     DEF MethodCommand, Status, StoreCommand
<1>4. /\ MayFollow(b.do, a.do)
  BY <1>2 DEF MayFollow, Opening
<1> QED BY <1>1, <1>3, <1>4, AnyTime, Script2

\* What fails to recover one.
LEMMA ForgetDeliberationScript ==
  /\ Replaces(<<Do("clear_deliberation")>>, "recuperar_deliberacion")
  /\ CommandsOf(<<Do("clear_deliberation")>>) =
       {Do("clear_deliberation")}
<1>1. PICK a :
        /\ a = Do("clear_deliberation")
  OBVIOUS
<1>2. /\ a.do = "clear_deliberation"
  BY <1>1 DEF Do, Command4
<1>3. a \in Command
  BY <1>1, CommandTypes
     DEF MethodCommand, StoreCommand
<1> QED BY <1>1, <1>3, AnyTime, Script1

\* What fails to recover one after the status was set.
LEMMA HalfRecoverScript ==
  ASSUME NEW l \in Law
  PROVE  /\ Replaces(<<Do("clear_deliberation"), SetStatus(l, "pending_queue")>>,
                     "recuperar_deliberacion")
         /\ CommandsOf(<<Do("clear_deliberation"), SetStatus(l, "pending_queue")>>) =
              {Do("clear_deliberation"),
               SetStatus(l, "pending_queue")}
<1>1. PICK a, b :
        /\ a = Do("clear_deliberation")
        /\ b = SetStatus(l, "pending_queue")
  OBVIOUS
<1>2. /\ a.do = "clear_deliberation" /\ b.do = "set_law_status"
  BY <1>1 DEF Do, SetStatus, Command4
<1>3. a \in Command /\ b \in Command
  BY <1>1, CommandTypes
     DEF MethodCommand, Status, StoreCommand
<1>4. /\ MayFollow(b.do, a.do)
  BY <1>2 DEF MayFollow, Opening
<1> QED BY <1>1, <1>3, <1>4, AnyTime, Script2

\* What gives a law back.
LEMMA RequeueScript ==
  ASSUME NEW l \in Law
  PROVE  /\ Replaces(Requeue(l), "requeue_if")
         /\ CommandsOf(Requeue(l)) =
              {SetStatus(l, "pending_queue"),
               OnLaw("enqueue_law", l)}
<1>1. PICK a, b :
        /\ a = SetStatus(l, "pending_queue")
        /\ b = OnLaw("enqueue_law", l)
  OBVIOUS
<1>2. /\ a.do = "set_law_status" /\ b.do = "enqueue_law"
  BY <1>1 DEF OnLaw, SetStatus, Command4
<1>3. a \in Command /\ b \in Command
  BY <1>1, CommandTypes
     DEF MethodCommand, Status, StoreCommand
<1>4. /\ MayFollow(b.do, a.do)
  BY <1>2 DEF MayFollow, Opening
<1>5. \A x : MayFollow(x, "requeue_if") =>
        /\ MayFollow(x, a.do) /\ MayFollow(x, b.do)
  BY <1>2, InTakeover
<1>6. Requeue(l) = <<a, b>>
  BY <1>1 DEF Requeue
<1>7. Replaces(<<a, b>>, "requeue_if") /\ CommandsOf(<<a, b>>) = {a, b}
  BY <1>3, <1>4, <1>5, Script2
<1> QED BY <1>1, <1>6, <1>7

\* What a numbered window is saved by.
LEMMA SaveScript ==
  ASSUME NEW w \in Window, NEW l \in Law, NEW a \in Action
  PROVE  /\ Replaces(<<SaveWindowCmd(w, l, a)>>, "open_window")
         /\ CommandsOf(<<SaveWindowCmd(w, l, a)>>) =
              {SaveWindowCmd(w, l, a)}
<1>1. PICK c :
        /\ c = SaveWindowCmd(w, l, a)
  OBVIOUS
<1>2. /\ c.do = "save_window"
  BY <1>1 DEF SaveWindowCmd, Command4
<1>3. c \in Command
  BY <1>1, CommandTypes
     DEF MethodCommand, StoreCommand
<1> QED BY <1>1, <1>3, AnyTime, Script1

\* What follows a window that is saved.
LEMMA OpenWindowScript ==
  ASSUME NEW w \in Window, NEW l \in Law
  PROVE  /\ Replaces(OpenWindow(w, l), "save_window")
         /\ CommandsOf(OpenWindow(w, l)) =
              {SetStatus(l, "in_window"),
               OnLaw("remove_from_queue", l),
               OnWindow("set_active_window", w),
               OnWindow("publish_challenge", w)}
<1>1. PICK a, b, c, d :
        /\ a = SetStatus(l, "in_window")
        /\ b = OnLaw("remove_from_queue", l)
        /\ c = OnWindow("set_active_window", w)
        /\ d = OnWindow("publish_challenge", w)
  OBVIOUS
<1>2. /\ a.do = "set_law_status" /\ b.do = "remove_from_queue"
      /\ c.do = "set_active_window" /\ d.do = "publish_challenge"
  BY <1>1 DEF OnLaw, OnWindow, SetStatus, Command4
<1>3. a \in Command /\ b \in Command /\ c \in Command /\ d \in Command
  BY <1>1, CommandTypes
     DEF MethodCommand, Status, StoreCommand
<1>4. /\ MayFollow(b.do, a.do) /\ MayFollow(c.do, a.do)
      /\ MayFollow(d.do, a.do) /\ MayFollow(c.do, b.do)
      /\ MayFollow(d.do, b.do) /\ MayFollow(d.do, c.do)
  BY <1>2 DEF MayFollow, Opening
<1>5. \A x : MayFollow(x, "save_window") =>
        /\ MayFollow(x, a.do) /\ MayFollow(x, b.do)
        /\ MayFollow(x, c.do) /\ MayFollow(x, d.do)
  BY AnyTime
<1>6. /\ Replaces(<<a, b, c, d>>, "save_window")
      /\ CommandsOf(<<a, b, c, d>>) = {a, b, c, d}
  BY <1>3, <1>4, <1>5, Script4
<1> QED BY <1>1, <1>6 DEF OpenWindow

\* What follows a seal.
LEMMA SealScript ==
  ASSUME NEW w, Saved(w)
  PROVE  /\ Replaces(Seal(w), "try_seal_window")
         /\ CommandsOf(Seal(w)) =
              {Do("last_block_hash"),
               OnWindow("append_block", w)}
<1>1. PICK a, b :
        /\ a = Do("last_block_hash")
        /\ b = OnWindow("append_block", w)
  OBVIOUS
<1>2. /\ a.do = "last_block_hash" /\ b.do = "append_block"
  BY <1>1 DEF Do, OnWindow, Command4
<1>3. w \in Window /\ window[w].law \in Law BY DEF Saved
<1>4. a \in Command /\ b \in Command
  BY <1>1, CommandTypes, <1>3
     DEF MethodCommand, StoreCommand
<1>5. /\ MayFollow(b.do, a.do)
  BY <1>2 DEF MayFollow, Opening
<1> QED BY <1>1, <1>4, <1>5, AnyTime, Script2
     DEF Seal

\* What follows a block that was appended.
LEMMA CloseSealedScript ==
  ASSUME NEW w, Saved(w)
  PROVE  /\ Replaces(CloseSealed(w) \o <<Do("maybe_open_window")>>,
                     "append_block")
         /\ CommandsOf((CloseSealed(w) \o <<Do("maybe_open_window")>>)) =
              {SetResult(w, "success"),
               SetStatus(window[w].law, Verdict(w)),
               Do("clear_active_window"),
               Do("maybe_open_window")}
<1>1. PICK a, b, c, d :
        /\ a = SetResult(w, "success")
        /\ b = SetStatus(window[w].law, Verdict(w))
        /\ c = Do("clear_active_window")
        /\ d = Do("maybe_open_window")
  OBVIOUS
<1>2. /\ a.do = "set_window_result" /\ b.do = "set_law_status"
      /\ c.do = "clear_active_window" /\ d.do = "maybe_open_window"
  BY <1>1 DEF Do, SetResult, SetStatus, Command4
<1>3. w \in Window /\ window[w].law \in Law BY DEF Saved
<1>4. a \in Command /\ b \in Command /\ c \in Command /\ d \in Command
  BY <1>1, CommandTypes, <1>3
     DEF MethodCommand, Result, Status, StoreCommand, Verdict
<1>5. /\ MayFollow(b.do, a.do) /\ MayFollow(c.do, a.do)
      /\ MayFollow(d.do, a.do) /\ MayFollow(c.do, b.do)
      /\ MayFollow(d.do, b.do) /\ MayFollow(d.do, c.do)
  BY <1>2 DEF MayFollow, Opening
<1>6. (CloseSealed(w) \o <<Do("maybe_open_window")>>) = <<a, b, c, d>>
  BY <1>1, <1>4, Joined31 DEF CloseSealed
<1>7. \A x : MayFollow(x, "append_block") =>
        /\ MayFollow(x, a.do) /\ MayFollow(x, b.do)
        /\ MayFollow(x, c.do) /\ MayFollow(x, d.do)
  BY AnyTime
<1>8. /\ Replaces(<<a, b, c, d>>, "append_block")
      /\ CommandsOf(<<a, b, c, d>>) = {a, b, c, d}
  BY <1>4, <1>5, <1>7, Script4
<1> QED BY <1>1, <1>6, <1>8

\* What follows a block that was refused.
LEMMA CloseInterruptedScript ==
  ASSUME NEW w, Saved(w)
  PROVE  /\ Replaces(CloseInterrupted(w), "append_block")
         /\ CommandsOf(CloseInterrupted(w)) =
              {SetStatus(window[w].law, "pending_queue"),
               OnLaw("enqueue_law", window[w].law),
               Do("clear_active_window"),
               Do("maybe_open_window")}
<1>1. PICK a, b, c, d :
        /\ a = SetStatus(window[w].law, "pending_queue")
        /\ b = OnLaw("enqueue_law", window[w].law)
        /\ c = Do("clear_active_window")
        /\ d = Do("maybe_open_window")
  OBVIOUS
<1>2. /\ a.do = "set_law_status" /\ b.do = "enqueue_law"
      /\ c.do = "clear_active_window" /\ d.do = "maybe_open_window"
  BY <1>1 DEF Do, OnLaw, SetStatus, Command4
<1>3. w \in Window /\ window[w].law \in Law BY DEF Saved
<1>4. a \in Command /\ b \in Command /\ c \in Command /\ d \in Command
  BY <1>1, CommandTypes, <1>3
     DEF MethodCommand, Status, StoreCommand
<1>5. /\ MayFollow(b.do, a.do) /\ MayFollow(c.do, a.do)
      /\ MayFollow(d.do, a.do) /\ MayFollow(c.do, b.do)
      /\ MayFollow(d.do, b.do) /\ MayFollow(d.do, c.do)
  BY <1>2 DEF MayFollow, Opening
<1>6. CloseInterrupted(w) = <<a, b, c, d>>
  BY <1>1, <1>4, Joined22 DEF CloseInterrupted, Requeue
<1>7. \A x : MayFollow(x, "append_block") =>
        /\ MayFollow(x, a.do) /\ MayFollow(x, b.do)
        /\ MayFollow(x, c.do) /\ MayFollow(x, d.do)
  BY AnyTime
<1>8. /\ Replaces(<<a, b, c, d>>, "append_block")
      /\ CommandsOf(<<a, b, c, d>>) = {a, b, c, d}
  BY <1>4, <1>5, <1>7, Script4
<1> QED BY <1>1, <1>6, <1>8

\* The tick.
LEMMA TickScript ==
  /\ InOrder(Tick) /\ Tick \in Seq(Command)
  /\ CommandsOf(Tick) =
       {Do("check_deliberation"),
        Do("check_deadline"),
        Do("maybe_open_window"),
        Do("renew_leadership")}
<1>1. PICK a, b, c, d :
        /\ a = Do("check_deliberation")
        /\ b = Do("check_deadline")
        /\ c = Do("maybe_open_window")
        /\ d = Do("renew_leadership")
  OBVIOUS
<1>2. /\ a.do = "check_deliberation" /\ b.do = "check_deadline"
      /\ c.do = "maybe_open_window" /\ d.do = "renew_leadership"
  BY <1>1 DEF Do, Command4
<1>3. a \in Command /\ b \in Command /\ c \in Command /\ d \in Command
  BY <1>1, CommandTypes
     DEF MethodCommand, StoreCommand
<1>4. /\ MayFollow(b.do, a.do) /\ MayFollow(c.do, a.do)
      /\ MayFollow(d.do, a.do) /\ MayFollow(c.do, b.do)
      /\ MayFollow(d.do, b.do) /\ MayFollow(d.do, c.do)
  BY <1>2 DEF MayFollow, Opening
<1>5. \A x : MayFollow(x, "maybe_open_window") =>
        /\ MayFollow(x, a.do) /\ MayFollow(x, b.do)
        /\ MayFollow(x, c.do) /\ MayFollow(x, d.do)
  BY AnyTime
<1>6. /\ Replaces(<<a, b, c, d>>, "maybe_open_window")
      /\ CommandsOf(<<a, b, c, d>>) = {a, b, c, d}
  BY <1>3, <1>4, <1>5, Script4
<1> QED BY <1>1, <1>6 DEF Replaces, Tick

\* The takeover.
LEMMA TakeoverScript ==
  /\ InOrder(Takeover) /\ Takeover \in Seq(Command)
  /\ CommandsOf(Takeover) =
       {Do("retomar_ventana"),
        Do("recuperar_deliberacion"),
        Do("check_deadline"),
        Do("maybe_open_window")}
<1>1. PICK a, b, c, d :
        /\ a = Do("retomar_ventana")
        /\ b = Do("recuperar_deliberacion")
        /\ c = Do("check_deadline")
        /\ d = Do("maybe_open_window")
  OBVIOUS
<1>2. /\ a.do = "retomar_ventana" /\ b.do = "recuperar_deliberacion"
      /\ c.do = "check_deadline" /\ d.do = "maybe_open_window"
  BY <1>1 DEF Do, Command4
<1>3. a \in Command /\ b \in Command /\ c \in Command /\ d \in Command
  BY <1>1, CommandTypes
     DEF MethodCommand, StoreCommand
<1>4. /\ MayFollow(b.do, a.do) /\ MayFollow(c.do, a.do)
      /\ MayFollow(d.do, a.do) /\ MayFollow(c.do, b.do)
      /\ MayFollow(d.do, b.do) /\ MayFollow(d.do, c.do)
  BY <1>2 DEF MayFollow, Opening
<1>5. \A x : MayFollow(x, "maybe_open_window") =>
        /\ MayFollow(x, a.do) /\ MayFollow(x, b.do)
        /\ MayFollow(x, c.do) /\ MayFollow(x, d.do)
  BY AnyTime
<1>6. /\ Replaces(<<a, b, c, d>>, "maybe_open_window")
      /\ CommandsOf(<<a, b, c, d>>) = {a, b, c, d}
  BY <1>3, <1>4, <1>5, Script4
<1> QED BY <1>1, <1>6 DEF Replaces, Takeover

\* The handler of a proposal to promulgate.
LEMMA PromulgacionScript ==
  ASSUME NEW l \in Law
  PROVE  /\ InOrder(EnqueuePromulgacion(l))
         /\ EnqueuePromulgacion(l) \in Seq(Command)
         /\ CommandsOf(EnqueuePromulgacion(l)) =
              {OnLaw("save_law", l),
               OnLaw("enqueue_law", l),
               Do("set_cooldown"),
               Do("maybe_open_window"),
               Do("ack")}
<1>1. PICK a, b, c, d, e :
        /\ a = OnLaw("save_law", l)
        /\ b = OnLaw("enqueue_law", l)
        /\ c = Do("set_cooldown")
        /\ d = Do("maybe_open_window")
        /\ e = Do("ack")
  OBVIOUS
<1>2. /\ a.do = "save_law" /\ b.do = "enqueue_law" /\ c.do = "set_cooldown"
      /\ d.do = "maybe_open_window" /\ e.do = "ack"
  BY <1>1 DEF Do, OnLaw, Command4
<1>3. a \in Command /\ b \in Command /\ c \in Command /\ d \in Command
      /\ e \in Command
  BY <1>1, CommandTypes
     DEF MethodCommand, StoreCommand
<1>4. /\ MayFollow(b.do, a.do) /\ MayFollow(c.do, a.do)
      /\ MayFollow(d.do, a.do) /\ MayFollow(e.do, a.do)
      /\ MayFollow(c.do, b.do) /\ MayFollow(d.do, b.do)
      /\ MayFollow(e.do, b.do) /\ MayFollow(d.do, c.do)
      /\ MayFollow(e.do, c.do) /\ MayFollow(e.do, d.do)
  BY <1>2 DEF MayFollow, Opening
<1>5. \A x : MayFollow(x, "maybe_open_window") =>
        /\ MayFollow(x, a.do) /\ MayFollow(x, b.do) /\ MayFollow(x, c.do)
        /\ MayFollow(x, d.do) /\ MayFollow(x, e.do)
  BY AnyTime
<1>6. /\ Replaces(<<a, b, c, d, e>>, "maybe_open_window")
      /\ CommandsOf(<<a, b, c, d, e>>) = {a, b, c, d, e}
  BY <1>3, <1>4, <1>5, Script5
<1> QED BY <1>1, <1>6 DEF Replaces, EnqueuePromulgacion

\* The handler of a proposal to repeal.
LEMMA DerogacionScript ==
  ASSUME NEW l \in Law
  PROVE  /\ InOrder(EnqueueDerogacion(l))
         /\ EnqueueDerogacion(l) \in Seq(Command)
         /\ CommandsOf(EnqueueDerogacion(l)) =
              {OnLaw("set_law_action", l),
               OnLaw("enqueue_law", l),
               Do("set_cooldown"),
               Do("maybe_open_window"),
               Do("ack")}
<1>1. PICK a, b, c, d, e :
        /\ a = OnLaw("set_law_action", l)
        /\ b = OnLaw("enqueue_law", l)
        /\ c = Do("set_cooldown")
        /\ d = Do("maybe_open_window")
        /\ e = Do("ack")
  OBVIOUS
<1>2. /\ a.do = "set_law_action" /\ b.do = "enqueue_law" /\ c.do = "set_cooldown"
      /\ d.do = "maybe_open_window" /\ e.do = "ack"
  BY <1>1 DEF Do, OnLaw, Command4
<1>3. a \in Command /\ b \in Command /\ c \in Command /\ d \in Command
      /\ e \in Command
  BY <1>1, CommandTypes
     DEF MethodCommand, StoreCommand
<1>4. /\ MayFollow(b.do, a.do) /\ MayFollow(c.do, a.do)
      /\ MayFollow(d.do, a.do) /\ MayFollow(e.do, a.do)
      /\ MayFollow(c.do, b.do) /\ MayFollow(d.do, b.do)
      /\ MayFollow(e.do, b.do) /\ MayFollow(d.do, c.do)
      /\ MayFollow(e.do, c.do) /\ MayFollow(e.do, d.do)
  BY <1>2 DEF MayFollow, Opening
<1>5. \A x : MayFollow(x, "maybe_open_window") =>
        /\ MayFollow(x, a.do) /\ MayFollow(x, b.do) /\ MayFollow(x, c.do)
        /\ MayFollow(x, d.do) /\ MayFollow(x, e.do)
  BY AnyTime
<1>6. /\ Replaces(<<a, b, c, d, e>>, "maybe_open_window")
      /\ CommandsOf(<<a, b, c, d, e>>) = {a, b, c, d, e}
  BY <1>3, <1>4, <1>5, Script5
<1> QED BY <1>1, <1>6 DEF Replaces, EnqueueDerogacion

\* The handler of a proposal to repeal a law that is not in force.
LEMMA RefusalScript ==
  /\ InOrder(<<Do("maybe_open_window"), Do("ack")>>)
  /\ <<Do("maybe_open_window"), Do("ack")>> \in Seq(Command)
  /\ CommandsOf(<<Do("maybe_open_window"), Do("ack")>>) =
       {Do("maybe_open_window"),
        Do("ack")}
<1>1. PICK a, b :
        /\ a = Do("maybe_open_window")
        /\ b = Do("ack")
  OBVIOUS
<1>2. /\ a.do = "maybe_open_window" /\ b.do = "ack"
  BY <1>1 DEF Do, Command4
<1>3. a \in Command /\ b \in Command
  BY <1>1, CommandTypes
     DEF MethodCommand, StoreCommand
<1>4. /\ MayFollow(b.do, a.do)
  BY <1>2 DEF MayFollow, Opening
<1>5. Replaces(<<a, b>>, "maybe_open_window") /\ CommandsOf(<<a, b>>) = {a, b}
  BY <1>3, <1>4, AnyTime, Script2
<1> QED BY <1>1, <1>5 DEF Replaces

\* The handler of a nonce.
LEMMA NonceScript ==
  ASSUME NEW w, Saved(w)
  PROVE  /\ InOrder(<<OnWindow("try_seal_window", w)>>)
         /\ <<OnWindow("try_seal_window", w)>> \in Seq(Command)
         /\ CommandsOf(<<OnWindow("try_seal_window", w)>>) =
              {OnWindow("try_seal_window", w)}
<1>1. PICK a :
        /\ a = OnWindow("try_seal_window", w)
  OBVIOUS
<1>2. /\ a.do = "try_seal_window"
  BY <1>1 DEF OnWindow, Command4
<1>3. w \in Window /\ window[w].law \in Law BY DEF Saved
<1>4. a \in Command
  BY <1>1, CommandTypes, <1>3
     DEF MethodCommand, StoreCommand
<1>5. Replaces(<<a>>, "maybe_open_window") /\ CommandsOf(<<a>>) = {a}
  BY <1>4, AnyTime, Script1
<1> QED BY <1>1, <1>5 DEF Replaces

-----------------------------------------------------------------------------
(* One leader *)

\* Who leads has the lease, and who does not lead does and remembers nothing.
Alone ==
  \A n \in Nct :
    /\ leader[n] => up[n] /\ lease = n
    /\ todo[n] # <<>> => leader[n]
    /\ ~leader[n] => active[n] = 0 /\ held[n] = NoLaw

HasBlock(w) == \E b \in Blocks : b.win = w
Final == {"promulgated", "repealed"}
LastBlock == chain[Len(chain)]

\* What a command left to n says of the state it is in.
Timely(n, c) ==
  /\ c.do = "hold" => active[n] = 0
  /\ c.do \in {"retomar_ventana", "release_window_seal", "open_window",
               "save_window", "set_active_window"} =>
       held[n] = NoLaw \/ Has(n, "clear_deliberation")
  /\ c.do = "try_seal_window" => c.win = pointer
  /\ c.do = "release_window_seal" => c.win = pointer /\ ~HasBlock(c.win)
  /\ c.do = "append_block" =>
       c.win = pointer /\ c.win \in sealed /\ ~HasBlock(c.win)
  /\ c.do = "set_active_window" =>
       /\ ~HasBlock(c.win)
       /\ \A d \in Left(n) : d.do = "set_law_status" =>
            d = SetStatus(window[c.win].law, "in_window")
       /\ Has(n, "set_law_status") \/ status[window[c.win].law] \notin Final
  /\ c.do = "set_law_status" /\ c.arg \in Final =>
       /\ chain # <<>> /\ LastBlock.win = pointer /\ LastBlock.law = c.law
       /\ c.arg = IF LastBlock.action = "derogacion" THEN "repealed"
                                                    ELSE "promulgated"

\* The window a process believes open is the one Redis says is active.
Memory ==
  \A n \in Nct : active[n] # 0 => held[n] = NoLaw /\ pointer = active[n]

\* The window that is active has no block, and its law no verdict, or its
\* block is the last of the chain.
Record ==
  /\ \A w \in Window : HasBlock(w) => w \in sealed
  /\ pointer # 0 /\ HasBlock(pointer) => LastBlockOf(pointer)
  /\ pointer # 0 /\ ~HasBlock(pointer) =>
       status[window[pointer].law] \notin Final

LInv ==
  /\ Alone
  /\ \A n \in Nct : InOrder(todo[n]) /\ \A c \in Left(n) : Timely(n, c)
  /\ Memory /\ Record
  /\ OneBlockPerWindow /\ StatusIsLastVerdict

-----------------------------------------------------------------------------
(* One leader, and no Redis errors *)

Closing(n) == Has(n, "clear_active_window") \/ Has(n, "append_block")
Undecided(w) == window[w].result = "open"

\* What a command about a window says of its seal and its result.
Undone(n, c) ==
  /\ c.do \in {"release_window_seal", "append_block", "set_active_window",
               "set_window_result"} => Undecided(c.win)
  /\ c.do = "set_active_window" => c.win \notin sealed
  /\ c.do = "try_seal_window" => c.win = active[n]
  /\ c.do = "set_window_result" =>
       /\ c.arg # "success" => c.win \notin sealed
       /\ Has(n, "clear_active_window")

\* A window that a process believes open is open, unless it is closing it.
StillOpen(n) ==
  active[n] # 0 /\ ~Closing(n) =>
    active[n] \notin sealed /\ Undecided(active[n])

\* What is not saved yet has neither a seal nor a result.
SavedFirst ==
  /\ \A w \in sealed : Saved(w)
  /\ \A w \in Window : ~Saved(w) => Undecided(w)

EInv ==
  /\ \A n \in Nct : StillOpen(n) /\ \A c \in Left(n) : Undone(n, c)
  /\ SavedFirst /\ SealedNeverExpires

-----------------------------------------------------------------------------
(* How each method changes what is left *)

\* What maybe_open_window decides.
LEMMA MaybeOpenGoes ==
  ASSUME IInv, NEW n \in Nct, InOrder(todo[n]), MaybeOpenWindow(n)
  PROVE  \/ Goes(n, "maybe_open_window", {})
         \/ /\ leader[n] /\ active[n] = 0 /\ held[n] = NoLaw
            /\ \E l \in queue :
                 \/ Goes(n, "maybe_open_window", {OnLaw("open_window", l)})
                 \/ Goes(n, "maybe_open_window",
                         {OnLaw("save_deliberation", l),
                          SetStatus(l, "in_deliberation"),
                          OnLaw("remove_from_queue", l), OnLaw("hold", l)})
<1>1. TypeOK /\ At(n, "maybe_open_window") BY DEF IInv, MaybeOpenWindow
<1>2. CASE Done(n) BY <1>1, <1>2, DoneGoes
<1>3. ASSUME leader[n], ~Busy(n), NEW l \in queue,
             Expand(n, IF Deliberates THEN StartDeliberation(l)
                       ELSE <<OnLaw("open_window", l)>>)
      PROVE  \/ Goes(n, "maybe_open_window", {OnLaw("open_window", l)})
             \/ Goes(n, "maybe_open_window", CommandsOf(StartDeliberation(l)))
  <2>1. l \in Law BY <1>1 DEF TypeOK
  <2>2. CASE Deliberates
    BY <1>1, <1>3, <2>1, <2>2, StartScript, ExpandGoes
  <2>3. CASE ~Deliberates
    <3>1. Expand(n, <<OnLaw("open_window", l)>>) BY <1>3, <2>3
    <3>2. /\ Replaces(<<OnLaw("open_window", l)>>, "maybe_open_window")
          /\ CommandsOf(<<OnLaw("open_window", l)>>)
               = {OnLaw("open_window", l)}
      BY <2>1, OpenScript
    <3>3. Goes(n, "maybe_open_window",
               CommandsOf(<<OnLaw("open_window", l)>>))
      BY <1>1, <3>1, <3>2, ExpandGoes
    <3> QED BY <3>2, <3>3
  <2> QED BY <2>2, <2>3
<1>4. \A l \in queue :
        CommandsOf(StartDeliberation(l)) =
          {OnLaw("save_deliberation", l), SetStatus(l, "in_deliberation"),
           OnLaw("remove_from_queue", l), OnLaw("hold", l)}
  BY <1>1, StartScript DEF TypeOK
<1>5. CASE /\ leader[n] /\ ~Busy(n)
           /\ \E l \in queue :
                Expand(n, IF Deliberates THEN StartDeliberation(l)
                          ELSE <<OnLaw("open_window", l)>>)
  <2>1. PICK l \in queue :
          Expand(n, IF Deliberates THEN StartDeliberation(l)
                    ELSE <<OnLaw("open_window", l)>>)
    BY <1>5
  <2>2. \/ Goes(n, "maybe_open_window", {OnLaw("open_window", l)})
        \/ Goes(n, "maybe_open_window", CommandsOf(StartDeliberation(l)))
    BY <1>3, <1>5, <2>1
  <2>3. CommandsOf(StartDeliberation(l)) =
          {OnLaw("save_deliberation", l), SetStatus(l, "in_deliberation"),
           OnLaw("remove_from_queue", l), OnLaw("hold", l)}
    BY <1>4
  <2>4. leader[n] /\ active[n] = 0 /\ held[n] = NoLaw BY <1>5 DEF Busy
  <2> QED BY <2>2, <2>3, <2>4
<1> QED BY <1>2, <1>5 DEF MaybeOpenWindow

\* What check_deliberation decides.
LEMMA CheckDeliberationGoes ==
  ASSUME IInv, NEW n \in Nct, InOrder(todo[n]), CheckDeliberation(n)
  PROVE  \/ Goes(n, "check_deliberation", {})
         \/ \E l \in Law :
              /\ held[n] = l
              /\ \/ Goes(n, "check_deliberation",
                         {Do("clear_deliberation"), OnLaw("open_window", l)})
                 \/ Goes(n, "check_deliberation",
                         {Do("clear_deliberation"), SetStatus(l, "discarded"),
                          Do("maybe_open_window")})
                 \/ Goes(n, "check_deliberation",
                         {Do("clear_deliberation"),
                          SetStatus(l, "pending_queue"),
                          OnLaw("enqueue_law", l), Do("maybe_open_window")})
<1>1. TypeOK /\ At(n, "check_deliberation") BY DEF IInv, CheckDeliberation
<1>2. PICK l : l = held[n] OBVIOUS
<1>3. CASE Done(n) BY <1>1, <1>3, DoneGoes
<1>4. CASE /\ l \in ripe
           /\ \/ Expand(n, ResolveOpen(l)) \/ Expand(n, ResolveDiscard(l))
              \/ Expand(n, ResolveRequeue(l))
  <2>1. l \in Law BY <1>1, <1>4 DEF TypeOK
  <2>2. CASE Expand(n, ResolveOpen(l))
    <3>1. Goes(n, "check_deliberation", CommandsOf(ResolveOpen(l)))
      BY <1>1, <2>1, <2>2, ResolveOpenScript, ExpandGoes
    <3> QED BY <1>2, <2>1, <3>1, ResolveOpenScript
  <2>3. CASE Expand(n, ResolveDiscard(l))
    <3>1. Goes(n, "check_deliberation", CommandsOf(ResolveDiscard(l)))
      BY <1>1, <2>1, <2>3, ResolveDiscardScript, ExpandGoes
    <3> QED BY <1>2, <2>1, <3>1, ResolveDiscardScript
  <2>4. CASE Expand(n, ResolveRequeue(l))
    <3>1. Goes(n, "check_deliberation", CommandsOf(ResolveRequeue(l)))
      BY <1>1, <2>1, <2>4, ResolveRequeueScript, ExpandGoes
    <3> QED BY <1>2, <2>1, <3>1, ResolveRequeueScript
  <2> QED BY <1>4, <2>2, <2>3, <2>4
<1> QED BY <1>2, <1>3, <1>4 DEF CheckDeliberation

\* What check_deadline decides.
LEMMA CheckDeadlineGoes ==
  ASSUME IInv, NEW n \in Nct, InOrder(todo[n]), CheckDeadline(n)
  PROVE  \/ Goes(n, "check_deadline", {})
         \/ \E w \in Window :
              /\ active[n] = w /\ Saved(w) /\ w \in overdue
              /\ \/ Goes(n, "check_deadline",
                         {SetResult(w, "expired_pending"),
                          SetStatus(window[w].law, "discarded"),
                          Do("clear_active_window"), Do("maybe_open_window")})
                 \/ Goes(n, "check_deadline",
                         {SetResult(w, "expired_no_quorum"),
                          SetStatus(window[w].law, "pending_queue"),
                          OnLaw("enqueue_law", window[w].law),
                          Do("clear_active_window"), Do("maybe_open_window")})
<1>1. TypeOK /\ PointersSaved /\ At(n, "check_deadline")
  BY DEF IInv, CheckDeadline
<1>2. PICK w : w = active[n] OBVIOUS
<1>3. CASE Done(n) BY <1>1, <1>3, DoneGoes
<1>4. CASE /\ w \in overdue
           /\ Expand(n, CloseExpired(w)) \/ Expand(n, CloseWithoutQuorum(w))
  <2>1. w \in Window /\ Saved(w)
    BY <1>1, <1>2, <1>4 DEF TypeOK, PointersSaved, Window
  <2>2. CASE Expand(n, CloseExpired(w))
    <3>1. Goes(n, "check_deadline", CommandsOf(CloseExpired(w)))
      BY <1>1, <2>1, <2>2, CloseExpiredScript, ExpandGoes
    <3> QED BY <1>2, <1>4, <2>1, <3>1, CloseExpiredScript
  <2>3. CASE Expand(n, CloseWithoutQuorum(w))
    <3>1. Goes(n, "check_deadline", CommandsOf(CloseWithoutQuorum(w)))
      BY <1>1, <2>1, <2>3, CloseWithoutQuorumScript, ExpandGoes
    <3> QED BY <1>2, <1>4, <2>1, <3>1, CloseWithoutQuorumScript
  <2> QED BY <1>4, <2>2, <2>3
<1> QED BY <1>2, <1>3, <1>4 DEF CheckDeadline

\* What a takeover decides about the window of the leader before.
LEMMA RetomarVentanaGoes ==
  ASSUME IInv, NEW n \in Nct, InOrder(todo[n]), RetomarVentana(n)
  PROVE  \/ /\ pointer = 0 /\ UNCHANGED active
            /\ Goes(n, "retomar_ventana", {})
         \/ /\ Saved(pointer) /\ Closed(pointer) /\ UNCHANGED active
            /\ Goes(n, "retomar_ventana", {Do("clear_active_window")})
         \/ /\ Saved(pointer) /\ ~Closed(pointer) /\ LastBlockOf(pointer)
            /\ UNCHANGED active
            /\ Goes(n, "retomar_ventana",
                    {SetResult(pointer, "success"),
                     SetStatus(window[pointer].law, Verdict(pointer)),
                     Do("clear_active_window")})
         \/ /\ Saved(pointer) /\ ~Closed(pointer) /\ ~LastBlockOf(pointer)
            /\ UNCHANGED active
            /\ Goes(n, "retomar_ventana",
                    {OnWindow("release_window_seal", pointer)})
         \/ /\ Saved(pointer) /\ ~Closed(pointer) /\ ~LastBlockOf(pointer)
            /\ pointer \notin sealed
            /\ active' = [active EXCEPT ![n] = pointer]
            /\ Goes(n, "retomar_ventana", {})
<1>1. TypeOK /\ PointersSaved /\ At(n, "retomar_ventana")
  BY DEF IInv, RetomarVentana
<1>2. pointer # 0 => Saved(pointer) BY <1>1 DEF PointersSaved
<1>3. CASE pointer = 0 /\ Done(n) /\ UNCHANGED active
  BY <1>1, <1>3, DoneGoes
<1>4. CASE /\ pointer # 0 /\ Closed(pointer) /\ UNCHANGED active
           /\ Expand(n, <<Do("clear_active_window")>>)
  <2>1. Goes(n, "retomar_ventana", CommandsOf(<<Do("clear_active_window")>>))
    BY <1>1, <1>4, ForgetScript, ExpandGoes
  <2> QED BY <1>2, <1>4, <2>1, ForgetScript
<1>5. CASE /\ pointer # 0 /\ ~Closed(pointer) /\ LastBlockOf(pointer)
           /\ UNCHANGED active /\ Expand(n, CloseSealed(pointer))
  <2>1. Goes(n, "retomar_ventana", CommandsOf(CloseSealed(pointer)))
    BY <1>1, <1>2, <1>5, CompleteScript, ExpandGoes
  <2> QED BY <1>2, <1>5, <2>1, CompleteScript
<1>6. CASE /\ pointer # 0 /\ ~Closed(pointer) /\ ~LastBlockOf(pointer)
           /\ UNCHANGED active
           /\ Expand(n, <<OnWindow("release_window_seal", pointer)>>)
  <2>1. Goes(n, "retomar_ventana",
             CommandsOf(<<OnWindow("release_window_seal", pointer)>>))
    BY <1>1, <1>2, <1>6, ReleaseScript, ExpandGoes
  <2> QED BY <1>2, <1>6, <2>1, ReleaseScript
<1>7. CASE /\ pointer # 0 /\ ~Closed(pointer) /\ ~LastBlockOf(pointer)
           /\ ~HasSealer(pointer) /\ Done(n)
           /\ active' = [active EXCEPT ![n] = pointer]
  BY <1>1, <1>2, <1>7, DoneGoes DEF HasSealer
<1> QED BY <1>3, <1>4, <1>5, <1>6, <1>7 DEF RetomarVentana

\* What is left of that when it fails.
LEMMA RetomarVentanaFailsGoes ==
  ASSUME IInv, NEW n \in Nct, InOrder(todo[n]), RetomarVentanaFails(n)
  PROVE  \/ Goes(n, "retomar_ventana", {})
         \/ Goes(n, "retomar_ventana", {Do("clear_active_window")})
         \/ /\ Saved(pointer)
            /\ Goes(n, "retomar_ventana",
                    {Do("clear_active_window"),
                     RequeueIf(window[pointer].law, "in_window")})
         \/ /\ Saved(pointer)
            /\ Goes(n, "retomar_ventana",
                    {SetResult(pointer, "success"), Do("clear_active_window"),
                     RequeueIf(window[pointer].law, "in_window")})
<1>1. TypeOK /\ PointersSaved /\ At(n, "retomar_ventana")
  BY DEF IInv, RetomarVentanaFails
<1>2. pointer # 0 => Saved(pointer) BY <1>1 DEF PointersSaved
<1>3. CASE Done(n) BY <1>1, <1>3, DoneGoes
<1>4. CASE Expand(n, <<Do("clear_active_window")>>)
  <2>1. Goes(n, "retomar_ventana", CommandsOf(<<Do("clear_active_window")>>))
    BY <1>1, <1>4, ForgetScript, ExpandGoes
  <2> QED BY <2>1, ForgetScript
<1>5. CASE pointer # 0 /\ Expand(n, GiveBack(pointer))
  <2>1. Goes(n, "retomar_ventana", CommandsOf(GiveBack(pointer)))
    BY <1>1, <1>2, <1>5, GiveBackScript, ExpandGoes
  <2> QED BY <1>2, <1>5, <2>1, GiveBackScript
<1>6. CASE /\ pointer # 0
           /\ Expand(n, <<SetResult(pointer, "success")>> \o GiveBack(pointer))
  <2>1. Goes(n, "retomar_ventana",
             CommandsOf(<<SetResult(pointer, "success")>> \o GiveBack(pointer)))
    BY <1>1, <1>2, <1>6, HalfCompleteScript, ExpandGoes
  <2> QED BY <1>2, <1>6, <2>1, HalfCompleteScript
<1> QED BY <1>3, <1>4, <1>5, <1>6 DEF RetomarVentanaFails

\* What a takeover does with a deliberation, failing or not.
LEMMA RecuperarDeliberacionGoes ==
  ASSUME IInv, NEW n \in Nct, InOrder(todo[n]),
         RecuperarDeliberacion(n) \/ RecuperarDeliberacionFails(n)
  PROVE  \/ /\ RecuperarDeliberacion(n) => delib = NoLaw
            /\ Goes(n, "recuperar_deliberacion", {})
         \/ /\ delib \in Law
            /\ Goes(n, "recuperar_deliberacion",
                    {Do("clear_deliberation"),
                     RequeueIf(delib, "in_deliberation")})
         \/ /\ ~RecuperarDeliberacion(n)
            /\ Goes(n, "recuperar_deliberacion", {Do("clear_deliberation")})
         \/ /\ ~RecuperarDeliberacion(n) /\ delib \in Law
            /\ Goes(n, "recuperar_deliberacion",
                    {Do("clear_deliberation"),
                     SetStatus(delib, "pending_queue")})
<1>1. TypeOK /\ At(n, "recuperar_deliberacion")
  BY DEF IInv, RecuperarDeliberacion, RecuperarDeliberacionFails
<1>2. delib # NoLaw => delib \in Law BY <1>1 DEF TypeOK
<1>3. CASE Done(n)
  <2>1. Goes(n, "recuperar_deliberacion", {}) BY <1>1, <1>3, DoneGoes
  <2>2. CASE delib = NoLaw BY <2>1, <2>2
  <2>3. CASE delib # NoLaw /\ RecuperarDeliberacion(n)
    <3>1. Expand(n, <<Do("clear_deliberation"),
                      RequeueIf(delib, "in_deliberation")>>)
      BY <2>3 DEF RecuperarDeliberacion
    <3>2. Goes(n, "recuperar_deliberacion",
               CommandsOf(<<Do("clear_deliberation"),
                            RequeueIf(delib, "in_deliberation")>>))
      BY <1>1, <1>2, <2>3, <3>1, RecoverScript, ExpandGoes
    <3> QED BY <1>2, <2>3, <3>2, RecoverScript
  <2> QED BY <2>1, <2>2, <2>3
<1>4. CASE /\ delib # NoLaw
           /\ Expand(n, <<Do("clear_deliberation"),
                          RequeueIf(delib, "in_deliberation")>>)
  <2>1. Goes(n, "recuperar_deliberacion",
             CommandsOf(<<Do("clear_deliberation"),
                          RequeueIf(delib, "in_deliberation")>>))
    BY <1>1, <1>2, <1>4, RecoverScript, ExpandGoes
  <2> QED BY <1>2, <1>4, <2>1, RecoverScript
<1>5. CASE /\ ~RecuperarDeliberacion(n)
           /\ Expand(n, <<Do("clear_deliberation")>>)
  <2>1. Goes(n, "recuperar_deliberacion",
             CommandsOf(<<Do("clear_deliberation")>>))
    BY <1>1, <1>5, ForgetDeliberationScript, ExpandGoes
  <2> QED BY <1>5, <2>1, ForgetDeliberationScript
<1>6. CASE /\ ~RecuperarDeliberacion(n) /\ delib # NoLaw
           /\ Expand(n, <<Do("clear_deliberation"),
                          SetStatus(delib, "pending_queue")>>)
  <2>1. Goes(n, "recuperar_deliberacion",
             CommandsOf(<<Do("clear_deliberation"),
                          SetStatus(delib, "pending_queue")>>))
    BY <1>1, <1>2, <1>6, HalfRecoverScript, ExpandGoes
  <2> QED BY <1>2, <1>6, <2>1, HalfRecoverScript
<1>7. CASE RecuperarDeliberacion(n)
  BY <1>3, <1>4, <1>7 DEF RecuperarDeliberacion
<1>8. CASE ~RecuperarDeliberacion(n)
  BY <1>3, <1>5, <1>6, <1>8 DEF RecuperarDeliberacionFails
<1> QED BY <1>7, <1>8

\* What requeue_if decides.
LEMMA RequeueIfGoes ==
  ASSUME IInv, NEW n \in Nct, InOrder(todo[n]), RequeueIfStatus(n)
  PROVE  /\ Cmd(n).law \in Law
         /\ \/ /\ status[Cmd(n).law] # Cmd(n).arg
               /\ Goes(n, "requeue_if", {})
            \/ /\ status[Cmd(n).law] = Cmd(n).arg
               /\ Goes(n, "requeue_if",
                       {SetStatus(Cmd(n).law, "pending_queue"),
                        OnLaw("enqueue_law", Cmd(n).law)})
<1>1. TypeOK /\ TodoOK /\ At(n, "requeue_if") BY DEF IInv, RequeueIfStatus
<1>2. PICK l : l = Cmd(n).law OBVIOUS
<1>3. l \in Law
  BY <1>1, <1>2, HeadJustified
     DEF At, Cmd, JustifiedCommand, Justified, LawCommand
<1>4. CASE status[l] = Cmd(n).arg
  <2>1. Expand(n, Requeue(l)) BY <1>2, <1>4 DEF RequeueIfStatus
  <2>2. Goes(n, "requeue_if", CommandsOf(Requeue(l)))
    BY <1>1, <1>3, <2>1, RequeueScript, ExpandGoes
  <2> QED BY <1>2, <1>3, <1>4, <2>2, RequeueScript
<1>5. CASE status[l] # Cmd(n).arg
  <2>1. Done(n) BY <1>2, <1>5 DEF RequeueIfStatus
  <2> QED BY <1>1, <1>2, <1>3, <1>5, <2>1, DoneGoes
<1> QED BY <1>4, <1>5

\* A window gets its number.
LEMMA OpenWindowGoes ==
  ASSUME IInv, NEW n \in Nct, InOrder(todo[n]), OpenWindowNumbered(n)
  PROVE  /\ Cmd(n).law \in Law /\ counter + 1 \in Window
         /\ Goes(n, "open_window",
                 {SaveWindowCmd(counter + 1, Cmd(n).law,
                                action[Cmd(n).law])})
<1>1. TypeOK /\ TodoOK /\ At(n, "open_window") BY DEF IInv, OpenWindowNumbered
<1>2. PICK l : l = Cmd(n).law OBVIOUS
<1>3. l \in Law
  BY <1>1, <1>2, HeadJustified
     DEF At, Cmd, JustifiedCommand, Justified, LawCommand
<1>4. counter + 1 \in Window /\ action[l] \in Action
  BY <1>1, <1>3, ConstantsAssumption DEF TypeOK, Window, OpenWindowNumbered
<1>5. Expand(n, <<SaveWindowCmd(counter + 1, l, action[l])>>)
  BY <1>2 DEF OpenWindowNumbered
<1>6. Goes(n, "open_window",
           CommandsOf(<<SaveWindowCmd(counter + 1, l, action[l])>>))
  BY <1>1, <1>3, <1>4, <1>5, SaveScript, ExpandGoes
<1> QED BY <1>2, <1>3, <1>4, <1>6, SaveScript

\* A window is saved.
LEMMA SaveWindowGoes ==
  ASSUME IInv, NEW n \in Nct, InOrder(todo[n]), SaveWindow(n)
  PROVE  /\ Cmd(n).law \in Law /\ Cmd(n).win \in Window
         /\ ~Saved(Cmd(n).win)
         /\ Goes(n, "save_window",
                 {SetStatus(Cmd(n).law, "in_window"),
                  OnLaw("remove_from_queue", Cmd(n).law),
                  OnWindow("set_active_window", Cmd(n).win),
                  OnWindow("publish_challenge", Cmd(n).win)})
<1>1. TypeOK /\ TodoOK /\ Numbering /\ At(n, "save_window")
  BY DEF IInv, SaveWindow
<1>2. PICK l, w : l = Cmd(n).law /\ w = Cmd(n).win OBVIOUS
<1>3. l \in Law
  BY <1>1, <1>2, HeadJustified
     DEF At, Cmd, JustifiedCommand, Justified, LawCommand
<1>4. w \in Window /\ ~Saved(w) BY <1>1, <1>2 DEF Numbering
<1>5. Expand(n, OpenWindow(w, l)) BY <1>2 DEF SaveWindow
<1>6. Goes(n, "save_window", CommandsOf(OpenWindow(w, l)))
  BY <1>1, <1>3, <1>4, <1>5, OpenWindowScript, ExpandGoes
<1> QED BY <1>2, <1>3, <1>4, <1>6, OpenWindowScript

\* A window is sealed, or was already.
LEMMA TrySealGoes ==
  ASSUME IInv, NEW n \in Nct, InOrder(todo[n]),
         TrySealWindow(n) \/ TrySealWindowTwice(n)
  PROVE  /\ Saved(Cmd(n).win)
         /\ \/ /\ Goes(n, "try_seal_window", {})
               /\ \/ UNCHANGED sealed
                  \/ /\ TrySealWindowTwice(n)
                     /\ sealed' = sealed \cup {Cmd(n).win}
            \/ /\ Cmd(n).win \notin sealed
               /\ sealed' = sealed \cup {Cmd(n).win}
               /\ Goes(n, "try_seal_window",
                       {Do("last_block_hash"),
                        OnWindow("append_block", Cmd(n).win)})
<1>1. TypeOK /\ TodoOK /\ At(n, "try_seal_window")
  BY DEF IInv, TrySealWindow, TrySealWindowTwice
<1>2. PICK w : w = Cmd(n).win OBVIOUS
<1>3. Saved(w)
  BY <1>1, <1>2, HeadJustified
     DEF At, Cmd, JustifiedCommand, Justified, WindowCommand
<1>4. CASE Done(n) /\ (UNCHANGED sealed \/ TrySealWindowTwice(n))
  <2>1. Goes(n, "try_seal_window", {}) BY <1>1, <1>4, DoneGoes
  <2>2. TrySealWindowTwice(n) => sealed' = sealed \cup {w}
    BY <1>2 DEF TrySealWindowTwice
  <2> QED BY <1>2, <1>3, <1>4, <2>1, <2>2
<1>5. CASE w \notin sealed /\ sealed' = sealed \cup {w} /\ Expand(n, Seal(w))
  <2>1. Goes(n, "try_seal_window", CommandsOf(Seal(w)))
    BY <1>1, <1>3, <1>5, SealScript, ExpandGoes
  <2> QED BY <1>2, <1>3, <1>5, <2>1, SealScript
<1> QED BY <1>2, <1>4, <1>5
        DEF TrySealWindow, TrySealWindowTwice, AlreadySealed

\* A block is appended, or refused, or both.
LEMMA AppendGoes ==
  ASSUME IInv, NEW n \in Nct, InOrder(todo[n]),
         AppendBlock(n) \/ AppendBlockTwice(n)
  PROVE  /\ Saved(Cmd(n).win)
         /\ \/ /\ chain' = Append(chain, BlockOf(n, Cmd(n).win))
               /\ Goes(n, "append_block",
                       {SetResult(Cmd(n).win, "success"),
                        SetStatus(window[Cmd(n).win].law, Verdict(Cmd(n).win)),
                        Do("clear_active_window"), Do("maybe_open_window")})
            \/ /\ \/ UNCHANGED chain /\ ~SameTip(n)
                  \/ /\ AppendBlockTwice(n)
                     /\ chain' = Append(chain, BlockOf(n, Cmd(n).win))
               /\ Goes(n, "append_block",
                       {SetStatus(window[Cmd(n).win].law, "pending_queue"),
                        OnLaw("enqueue_law", window[Cmd(n).win].law),
                        Do("clear_active_window"), Do("maybe_open_window")})
<1>1. TypeOK /\ TodoOK /\ At(n, "append_block")
  BY DEF IInv, AppendBlock, AppendBlockTwice
<1>2. PICK w : w = Cmd(n).win OBVIOUS
<1>3. Saved(w)
  BY <1>1, <1>2, HeadJustified
     DEF At, Cmd, JustifiedCommand, Justified, WindowCommand
<1>4. CASE /\ chain' = Append(chain, BlockOf(n, w))
           /\ Expand(n, CloseSealed(w) \o <<Do("maybe_open_window")>>)
  <2>1. Goes(n, "append_block",
             CommandsOf(CloseSealed(w) \o <<Do("maybe_open_window")>>))
    BY <1>1, <1>3, <1>4, CloseSealedScript, ExpandGoes
  <2> QED BY <1>2, <1>3, <1>4, <2>1, CloseSealedScript
<1>5. CASE Expand(n, CloseInterrupted(w))
           /\ \/ UNCHANGED chain /\ ~SameTip(n)
              \/ /\ AppendBlockTwice(n)
                 /\ chain' = Append(chain, BlockOf(n, w))
  <2>1. Goes(n, "append_block", CommandsOf(CloseInterrupted(w)))
    BY <1>1, <1>3, <1>5, CloseInterruptedScript, ExpandGoes
  <2> QED BY <1>2, <1>3, <1>5, <2>1, CloseInterruptedScript
<1> QED BY <1>2, <1>4, <1>5 DEF AppendBlock, AppendBlockTwice

-----------------------------------------------------------------------------
(* The invariant of one leader is kept *)

\* What is left of a handler does not start with what opens one.
LEMMA RestOpensNothing ==
  ASSUME NEW n, NEW name, NEW new, Goes(n, name, new)
  PROVE  /\ \A c \in Rest(n) : c.do \notin Opening /\ MayFollow(c.do, name)
         /\ name # "clear_deliberation" => ~Has(n, "clear_deliberation")
         /\ Cmd(n) \in Left(n) /\ Cmd(n).do = name
<1>1. \A c \in Rest(n) : c.do \notin Opening BY DEF Goes, MayFollow
<1>2. \A c \in Rest(n) : c.do # "clear_deliberation" BY <1>1 DEF Opening
<1> QED BY <1>1, <1>2 DEF Goes, Has

\* The others wait.
LEMMA OthersRest ==
  ASSUME TypeOK, Alone, NEW n \in Nct, leader[n], NEW m \in Nct, m # n
  PROVE  /\ ~leader[m] /\ todo[m] = <<>> /\ Left(m) = {}
         /\ active[m] = 0 /\ held[m] = NoLaw /\ lease = n /\ up[n]
<1>1. lease = n /\ up[n] BY DEF Alone
<1>2. ~leader[m] BY <1>1 DEF Alone
<1>3. todo[m] = <<>> BY <1>2 DEF Alone
<1> QED BY <1>1, <1>2, <1>3 DEF Alone, Left, CommandsOf

\* Who has a command left leads.
LEMMA AtLeads ==
  ASSUME LInv, NEW n \in Nct, NEW name, At(n, name)
  PROVE  leader[n] /\ InOrder(todo[n])
BY DEF LInv, Alone, At

\* A command that says nothing of the state.
Plain(c) ==
  /\ c.do \notin {"hold", "retomar_ventana", "release_window_seal",
                  "open_window", "save_window", "set_active_window",
                  "try_seal_window", "append_block"}
  /\ c.do = "set_law_status" => c.arg \notin Final

\* It is timely whatever the state.
LEMMA PlainTimely ==
  ASSUME NEW n, NEW c, Plain(c)
  PROVE  Timely(n, c)'
BY DEF Plain, Timely

\* What is left of a handler stays timely.
LEMMA RestTimely ==
  ASSUME LInv, NEW n \in Nct, NEW name, NEW new, Goes(n, name, new),
         NEW c \in Rest(n),
         name \in {"save_deliberation", "set_law_status", "remove_from_queue"}
           => active'[n] = active[n],
         \/ held'[n] = NoLaw
         \/ held'[n] = held[n] /\ name # "clear_deliberation"
         \/ name = "hold",
         name = "last_block_hash" => UNCHANGED <<pointer, sealed, chain>>,
         name \in {"set_law_status", "remove_from_queue"} =>
           new = {} /\ UNCHANGED <<chain, window>>,
         name = "remove_from_queue" => UNCHANGED status,
         name = "set_law_status" => status'[Cmd(n).law] = Cmd(n).arg,
         name \in {"set_window_result", "clear_deliberation",
                   "save_deliberation"} => UNCHANGED <<chain, pointer>>
  PROVE  Timely(n, c)'
<1>1. Timely(n, c) /\ MayFollow(c.do, name) /\ c.do \notin Opening
  BY RestOpensNothing DEF Goes, LInv
<1>2. c.do = "hold" => active'[n] = 0
  <2> HAVE c.do = "hold"
  <2>1. name \in {"save_deliberation", "set_law_status", "remove_from_queue"}
    BY <1>1 DEF MayFollow
  <2> QED BY <1>1, <2>1 DEF Timely
<1>3. c.do \in {"retomar_ventana", "release_window_seal", "open_window",
                "save_window", "set_active_window"} =>
        held'[n] = NoLaw \/ Has(n, "clear_deliberation")'
  <2> HAVE c.do \in {"retomar_ventana", "release_window_seal", "open_window",
                     "save_window", "set_active_window"}
  <2>1. name # "hold" BY <1>1 DEF MayFollow, Opening
  <2>2. CASE held'[n] = held[n] /\ name # "clear_deliberation"
    <3>1. ~Has(n, "clear_deliberation") BY <2>2, RestOpensNothing
    <3> QED BY <1>1, <2>2, <3>1 DEF Timely
  <2> QED BY <2>1, <2>2
<1>4. c.do \notin {"try_seal_window", "release_window_seal"}
  BY <1>1 DEF Opening
<1>5. c.do = "append_block" =>
        c.win = pointer' /\ c.win \in sealed' /\ ~HasBlock(c.win)'
  <2> HAVE c.do = "append_block"
  <2>1. name = "last_block_hash" BY <1>1 DEF MayFollow
  <2> QED BY <1>1, <2>1 DEF Timely, HasBlock, Blocks
<1>6. c.do = "set_active_window" =>
        /\ ~HasBlock(c.win)'
        /\ \A d \in Left(n)' : d.do = "set_law_status" =>
             d = SetStatus(window'[c.win].law, "in_window")
        /\ \/ Has(n, "set_law_status")'
           \/ status'[window'[c.win].law] \notin Final
  <2> HAVE c.do = "set_active_window"
  <2>1. name \in {"set_law_status", "remove_from_queue"}
    BY <1>1 DEF MayFollow
  <2>2. ~HasBlock(c.win)' BY <1>1, <2>1 DEF Timely, HasBlock, Blocks
  <2>3. Left(n)' = Rest(n) /\ Left(n) = {Cmd(n)} \cup Rest(n)
        /\ Cmd(n).do = name
    BY <2>1 DEF Goes
  <2>4. \A d \in Left(n)' : d.do = "set_law_status" =>
          d = SetStatus(window'[c.win].law, "in_window")
    BY <1>1, <2>1, <2>3 DEF Timely
  <2>5. CASE name = "remove_from_queue"
    <3>1. UNCHANGED <<status, window>> BY <2>5
    <3>2. Has(n, "set_law_status") => Has(n, "set_law_status")'
      BY <2>3, <2>5 DEF Has
    <3>3. \/ Has(n, "set_law_status")
          \/ status[window[c.win].law] \notin Final
      BY <1>1 DEF Timely
    <3> QED BY <2>2, <2>4, <3>1, <3>2, <3>3
  <2>6. CASE name = "set_law_status"
    <3>1. Cmd(n) = SetStatus(window[c.win].law, "in_window")
      BY <1>1, <2>3, <2>6 DEF Timely
    <3>2. Cmd(n).law = window[c.win].law /\ Cmd(n).arg = "in_window"
      BY <3>1 DEF SetStatus, Command4
    <3>3. status'[window'[c.win].law] = "in_window" BY <2>1, <2>6, <3>2
    <3> QED BY <2>2, <2>4, <3>3 DEF Final
  <2> QED BY <2>1, <2>2, <2>4, <2>5, <2>6
<1>7. c.do = "set_law_status" /\ c.arg \in Final =>
        /\ chain' # <<>> /\ LastBlock'.win = pointer'
        /\ LastBlock'.law = c.law
        /\ c.arg = IF LastBlock'.action = "derogacion" THEN "repealed"
                                                      ELSE "promulgated"
  <2> HAVE c.do = "set_law_status" /\ c.arg \in Final
  <2>1. name \in {"set_window_result", "clear_deliberation",
                  "save_deliberation"}
    BY <1>1 DEF MayFollow
  <2> QED BY <1>1, <2>1 DEF Timely, LastBlock
<1> QED BY <1>2, <1>3, <1>4, <1>5, <1>6, <1>7 DEF Timely

\* A step of the process that leads keeps the invariant.
LEMMA Move ==
  ASSUME IInv, LInv, NEW n \in Nct, NEW name, NEW new, Goes(n, name, new),
         UNCHANGED <<lease, leader, up>>,
         \A m \in Nct : m # n => active'[m] = active[m] /\ held'[m] = held[m],
         \A c \in new \cup Rest(n) : Timely(n, c)',
         active'[n] # 0 => held'[n] = NoLaw /\ pointer' = active'[n],
         Record', OneBlockPerWindow', StatusIsLastVerdict'
  PROVE  LInv'
<1>1. TypeOK /\ Alone BY DEF IInv, LInv
<1>2. leader[n] BY AtLeads DEF Goes
<1>3. \A m \in Nct : m # n =>
        /\ ~leader[m] /\ todo[m] = <<>> /\ active[m] = 0 /\ held[m] = NoLaw
        /\ todo'[m] = <<>> /\ active'[m] = 0 /\ held'[m] = NoLaw
  BY <1>1, <1>2, OthersRest DEF Goes
<1>4. Alone'
  <2> SUFFICES ASSUME NEW m \in Nct
               PROVE  /\ leader'[m] => up'[m] /\ lease' = m
                      /\ todo'[m] # <<>> => leader'[m]
                      /\ ~leader'[m] => active'[m] = 0 /\ held'[m] = NoLaw
    BY DEF Alone
  <2>1. CASE m = n BY <1>1, <1>2, <2>1 DEF Alone
  <2>2. CASE m # n BY <1>1, <1>3, <2>2 DEF Alone
  <2> QED BY <2>1, <2>2
<1>5. ASSUME NEW m \in Nct
      PROVE  InOrder(todo[m])' /\ \A c \in Left(m)' : Timely(m, c)'
  <2>1. CASE m = n BY <2>1 DEF Goes
  <2>2. CASE m # n
    <3>1. todo'[m] = <<>> BY <1>3, <2>2
    <3> QED BY <3>1 DEF InOrder, Left, CommandsOf
  <2> QED BY <2>1, <2>2
<1>6. Memory'
  <2> SUFFICES ASSUME NEW m \in Nct, active'[m] # 0
               PROVE  held'[m] = NoLaw /\ pointer' = active'[m]
    BY DEF Memory
  <2>1. m = n BY <1>3
  <2> QED BY <2>1
<1> QED BY <1>4, <1>5, <1>6 DEF LInv

\* A step that changes nothing of what the invariant is about but what is left.
LEMMA QuietMove ==
  ASSUME IInv, LInv, NEW n \in Nct, NEW name, NEW new, Goes(n, name, new),
         name \notin {"set_law_status", "clear_deliberation"},
         name = "remove_from_queue" => new = {},
         UNCHANGED <<lease, leader, up, active, held, pointer, sealed, chain,
                     status, window>>,
         \A c \in new : Timely(n, c)'
  PROVE  LInv'
<1>1. \A c \in Rest(n) : Timely(n, c)'
  <2> TAKE c \in Rest(n)
  <2>1. UNCHANGED <<pointer, sealed, chain>> OBVIOUS
  <2>2. held'[n] = held[n] /\ active'[n] = active[n] OBVIOUS
  <2> QED BY <2>1, <2>2, RestTimely
<1>2. Record' BY DEF LInv, Record, HasBlock, Blocks, LastBlockOf
<1>3. OneBlockPerWindow' BY DEF LInv, OneBlockPerWindow
<1>4. StatusIsLastVerdict' BY DEF LInv, StatusIsLastVerdict
<1>5. active'[n] # 0 => held'[n] = NoLaw /\ pointer' = active'[n]
  BY DEF LInv, Memory
<1> QED BY <1>1, <1>2, <1>3, <1>4, <1>5, Move

\* What the record of the windows and the chain keeps when they do not change.
LEMMA RecordKept ==
  ASSUME LInv, UNCHANGED <<pointer, sealed, chain, status, window>>
  PROVE  Record' /\ OneBlockPerWindow' /\ StatusIsLastVerdict'
<1>1. Record' BY DEF LInv, Record, HasBlock, Blocks, LastBlockOf
<1>2. OneBlockPerWindow' BY DEF LInv, OneBlockPerWindow
<1>3. StatusIsLastVerdict' BY DEF LInv, StatusIsLastVerdict
<1> QED BY <1>1, <1>2, <1>3

\* The commands about the queue, the cooldowns, the challenges and the pauses.
QuietCommand(n) ==
  \/ SetLawAction(n) \/ EnqueueLaw(n) \/ RemoveFromQueue(n) \/ SetCooldown(n)
  \/ PublishChallenge(n) \/ LastBlockHash(n) \/ SaveDeliberation(n)
  \/ Acknowledge(n)

\* A quiet command keeps the invariant: it writes nothing the invariant is
\* about.
LEMMA QuietCommandKeeps ==
  ASSUME IInv, LInv, NEW n \in Nct, QuietCommand(n)
  PROVE  LInv'
<1>1. PICK name : /\ At(n, name)
                  /\ name \notin {"set_law_status", "clear_deliberation"}
  BY DEF QuietCommand, SetLawAction, EnqueueLaw, RemoveFromQueue, SetCooldown,
         PublishChallenge, LastBlockHash, SaveDeliberation, Acknowledge
<1>2. Done(n)
  BY DEF QuietCommand, SetLawAction, EnqueueLaw, RemoveFromQueue, SetCooldown,
         PublishChallenge, LastBlockHash, SaveDeliberation, Acknowledge
<1>3. UNCHANGED <<lease, leader, up, active, held, pointer, sealed, chain,
                  status, window>>
  BY DEF QuietCommand, SetLawAction, EnqueueLaw, RemoveFromQueue, SetCooldown,
         PublishChallenge, LastBlockHash, SaveDeliberation, Acknowledge,
         redisVars, lawVars, windowVars, memory, handlerVars, envVars
<1>4. Goes(n, name, {})
  <2>1. TypeOK BY DEF IInv
  <2>2. InOrder(todo[n]) BY <1>1, AtLeads
  <2> QED BY <1>1, <1>2, <2>1, <2>2, DoneGoes
<1> QED BY <1>1, <1>3, <1>4, QuietMove

\* maybe_open_window starts an activity only where there is none.
LEMMA MaybeOpenKeeps ==
  ASSUME IInv, LInv, NEW n \in Nct, MaybeOpenWindow(n)
  PROVE  LInv'
<1>1. InOrder(todo[n]) BY AtLeads DEF MaybeOpenWindow
<1>2. UNCHANGED <<lease, leader, up, active, held, pointer, sealed, chain,
                  status, window>>
  BY DEF MaybeOpenWindow, redisVars, lawVars, windowVars, memory, envVars
<1>3. CASE Goes(n, "maybe_open_window", {})
  BY <1>2, <1>3, QuietMove
<1>4. ASSUME active[n] = 0, held[n] = NoLaw, NEW l,
             Goes(n, "maybe_open_window", {OnLaw("open_window", l)})
      PROVE  LInv'
  <2>1. PICK c : c = OnLaw("open_window", l) OBVIOUS
  <2>2. c.do = "open_window" BY <2>1 DEF OnLaw, Command4
  <2>3. Timely(n, c)' BY <1>2, <1>4, <2>2 DEF Timely
  <2> QED BY <1>2, <1>4, <2>1, <2>3, QuietMove
<1>5. ASSUME active[n] = 0, held[n] = NoLaw, NEW l,
             Goes(n, "maybe_open_window",
                  {OnLaw("save_deliberation", l),
                   SetStatus(l, "in_deliberation"),
                   OnLaw("remove_from_queue", l), OnLaw("hold", l)})
      PROVE  LInv'
  <2>1. PICK a, b, c, d :
          /\ a = OnLaw("save_deliberation", l)
          /\ b = SetStatus(l, "in_deliberation")
          /\ c = OnLaw("remove_from_queue", l) /\ d = OnLaw("hold", l)
    OBVIOUS
  <2>2. /\ a.do = "save_deliberation" /\ b.do = "set_law_status"
        /\ b.arg = "in_deliberation" /\ c.do = "remove_from_queue"
        /\ d.do = "hold"
    BY <2>1 DEF OnLaw, SetStatus, Command4
  <2>3. Timely(n, d)' BY <1>2, <1>5, <2>2 DEF Timely
  <2>4. Plain(a) /\ Plain(b) /\ Plain(c) BY <2>2 DEF Plain, Final
  <2>5. Timely(n, a)' /\ Timely(n, b)' /\ Timely(n, c)'
    BY <2>4, PlainTimely
  <2> QED BY <1>2, <1>5, <2>1, <2>3, <2>5, QuietMove
<1> QED BY <1>1, <1>3, <1>4, <1>5, MaybeOpenGoes

\* The window of a law whose deliberation ends is opened once that is cleared.
LEMMA CheckDeliberationKeeps ==
  ASSUME IInv, LInv, NEW n \in Nct, CheckDeliberation(n)
  PROVE  LInv'
<1>1. InOrder(todo[n]) BY AtLeads DEF CheckDeliberation
<1>2. UNCHANGED <<lease, leader, up, active, held, pointer, sealed, chain,
                  status, window>>
  BY DEF CheckDeliberation, redisVars, lawVars, windowVars, memory, envVars
<1>3. CASE Goes(n, "check_deliberation", {})
  BY <1>2, <1>3, QuietMove
<1>4. ASSUME NEW l,
             Goes(n, "check_deliberation",
                  {Do("clear_deliberation"), OnLaw("open_window", l)})
      PROVE  LInv'
  <2>1. PICK a, b : a = Do("clear_deliberation") /\ b = OnLaw("open_window", l)
    OBVIOUS
  <2>2. a.do = "clear_deliberation" /\ b.do = "open_window"
    BY <2>1 DEF Do, OnLaw, Command4
  <2>3. Has(n, "clear_deliberation")' BY <1>4, <2>1, <2>2 DEF Goes, Has
  <2>4. Timely(n, b)' BY <2>2, <2>3 DEF Timely
  <2>5. Timely(n, a)' BY <2>2, PlainTimely DEF Plain
  <2> QED BY <1>2, <1>4, <2>1, <2>4, <2>5, QuietMove
<1>5. ASSUME NEW l,
             Goes(n, "check_deliberation",
                  {Do("clear_deliberation"), SetStatus(l, "discarded"),
                   Do("maybe_open_window")})
      PROVE  LInv'
  <2>1. PICK a, b, c :
          /\ a = Do("clear_deliberation") /\ b = SetStatus(l, "discarded")
          /\ c = Do("maybe_open_window")
    OBVIOUS
  <2>2. /\ a.do = "clear_deliberation" /\ b.do = "set_law_status"
        /\ b.arg = "discarded" /\ c.do = "maybe_open_window"
    BY <2>1 DEF Do, SetStatus, Command4
  <2>3. Plain(a) /\ Plain(b) /\ Plain(c) BY <2>2 DEF Plain, Final
  <2> QED BY <1>2, <1>5, <2>1, <2>3, PlainTimely, QuietMove
<1>6. ASSUME NEW l,
             Goes(n, "check_deliberation",
                  {Do("clear_deliberation"), SetStatus(l, "pending_queue"),
                   OnLaw("enqueue_law", l), Do("maybe_open_window")})
      PROVE  LInv'
  <2>1. PICK a, b, c, d :
          /\ a = Do("clear_deliberation") /\ b = SetStatus(l, "pending_queue")
          /\ c = OnLaw("enqueue_law", l) /\ d = Do("maybe_open_window")
    OBVIOUS
  <2>2. /\ a.do = "clear_deliberation" /\ b.do = "set_law_status"
        /\ b.arg = "pending_queue" /\ c.do = "enqueue_law"
        /\ d.do = "maybe_open_window"
    BY <2>1 DEF Do, OnLaw, SetStatus, Command4
  <2>3. Plain(a) /\ Plain(b) /\ Plain(c) /\ Plain(d)
    BY <2>2 DEF Plain, Final
  <2> QED BY <1>2, <1>6, <2>1, <2>3, PlainTimely, QuietMove
<1> QED BY <1>1, <1>3, <1>4, <1>5, <1>6, CheckDeliberationGoes

\* A window that expires.
LEMMA CheckDeadlineKeeps ==
  ASSUME IInv, LInv, NEW n \in Nct, CheckDeadline(n)
  PROVE  LInv'
<1>1. InOrder(todo[n]) BY AtLeads DEF CheckDeadline
<1>2. UNCHANGED <<lease, leader, up, active, held, pointer, sealed, chain,
                  status, window>>
  BY DEF CheckDeadline, redisVars, lawVars, windowVars, memory, envVars
<1>3. CASE Goes(n, "check_deadline", {})
  BY <1>2, <1>3, QuietMove
<1>4. ASSUME NEW w, NEW l,
             Goes(n, "check_deadline",
                  {SetResult(w, "expired_pending"), SetStatus(l, "discarded"),
                   Do("clear_active_window"), Do("maybe_open_window")})
      PROVE  LInv'
  <2>1. PICK a, b, c, d :
          /\ a = SetResult(w, "expired_pending")
          /\ b = SetStatus(l, "discarded")
          /\ c = Do("clear_active_window") /\ d = Do("maybe_open_window")
    OBVIOUS
  <2>2. /\ a.do = "set_window_result" /\ b.do = "set_law_status"
        /\ b.arg = "discarded" /\ c.do = "clear_active_window"
        /\ d.do = "maybe_open_window"
    BY <2>1 DEF Do, SetResult, SetStatus, Command4
  <2>3. Plain(a) /\ Plain(b) /\ Plain(c) /\ Plain(d)
    BY <2>2 DEF Plain, Final
  <2> QED BY <1>2, <1>4, <2>1, <2>3, PlainTimely, QuietMove
<1>5. ASSUME NEW w, NEW l,
             Goes(n, "check_deadline",
                  {SetResult(w, "expired_no_quorum"),
                   SetStatus(l, "pending_queue"), OnLaw("enqueue_law", l),
                   Do("clear_active_window"), Do("maybe_open_window")})
      PROVE  LInv'
  <2>1. PICK a, b, c, d, e :
          /\ a = SetResult(w, "expired_no_quorum")
          /\ b = SetStatus(l, "pending_queue") /\ c = OnLaw("enqueue_law", l)
          /\ d = Do("clear_active_window") /\ e = Do("maybe_open_window")
    OBVIOUS
  <2>2. /\ a.do = "set_window_result" /\ b.do = "set_law_status"
        /\ b.arg = "pending_queue" /\ c.do = "enqueue_law"
        /\ d.do = "clear_active_window" /\ e.do = "maybe_open_window"
    BY <2>1 DEF Do, OnLaw, SetResult, SetStatus, Command4
  <2>3. Plain(a) /\ Plain(b) /\ Plain(c) /\ Plain(d) /\ Plain(e)
    BY <2>2 DEF Plain, Final
  <2> QED BY <1>2, <1>5, <2>1, <2>3, PlainTimely, QuietMove
<1> QED BY <1>1, <1>3, <1>4, <1>5, CheckDeadlineGoes

\* A law that is given back, and what a takeover does with a deliberation.
LEMMA RequeueIfKeeps ==
  ASSUME IInv, LInv, NEW n \in Nct, RequeueIfStatus(n)
  PROVE  LInv'
<1>1. InOrder(todo[n]) BY AtLeads DEF RequeueIfStatus
<1>2. UNCHANGED <<lease, leader, up, active, held, pointer, sealed, chain,
                  status, window>>
  BY DEF RequeueIfStatus, redisVars, lawVars, windowVars, memory, envVars
<1>3. CASE Goes(n, "requeue_if", {})
  BY <1>2, <1>3, QuietMove
<1>4. ASSUME NEW l,
             Goes(n, "requeue_if",
                  {SetStatus(l, "pending_queue"), OnLaw("enqueue_law", l)})
      PROVE  LInv'
  <2>1. PICK a, b :
          a = SetStatus(l, "pending_queue") /\ b = OnLaw("enqueue_law", l)
    OBVIOUS
  <2>2. /\ a.do = "set_law_status" /\ a.arg = "pending_queue"
        /\ b.do = "enqueue_law"
    BY <2>1 DEF OnLaw, SetStatus, Command4
  <2>3. Plain(a) /\ Plain(b) BY <2>2 DEF Plain, Final
  <2> QED BY <1>2, <1>4, <2>1, <2>3, PlainTimely, QuietMove
<1> QED BY <1>1, <1>3, <1>4, RequeueIfGoes

\* Recovering the deliberation keeps the invariant, and so does its failure.
LEMMA RecuperarDeliberacionKeeps ==
  ASSUME IInv, LInv, NEW n \in Nct,
         RecuperarDeliberacion(n) \/ RecuperarDeliberacionFails(n)
  PROVE  LInv'
<1>1. InOrder(todo[n])
  BY AtLeads DEF RecuperarDeliberacion, RecuperarDeliberacionFails
<1>2. UNCHANGED <<lease, leader, up, active, held, pointer, sealed, chain,
                  status, window>>
  BY DEF RecuperarDeliberacion, RecuperarDeliberacionFails, redisVars,
         lawVars, windowVars, memory, envVars
<1>3. PICK a : a = Do("clear_deliberation") OBVIOUS
<1>4. Plain(a) BY <1>3 DEF Plain, Do, Command4
<1>5. CASE \/ Goes(n, "recuperar_deliberacion", {})
           \/ Goes(n, "recuperar_deliberacion", {a})
  BY <1>2, <1>4, <1>5, PlainTimely, QuietMove
<1>6. ASSUME NEW b, Goes(n, "recuperar_deliberacion", {a, b}),
             \/ b = RequeueIf(delib, "in_deliberation")
             \/ b = SetStatus(delib, "pending_queue")
      PROVE  LInv'
  <2>1. Plain(b)
    BY <1>6 DEF Plain, Final, RequeueIf, SetStatus, Command4
  <2> QED BY <1>2, <1>4, <1>6, <2>1, PlainTimely, QuietMove
<1> QED BY <1>1, <1>3, <1>5, <1>6, RecuperarDeliberacionGoes

\* A window gets its number.
LEMMA OpenWindowKeeps ==
  ASSUME IInv, LInv, NEW n \in Nct, OpenWindowNumbered(n)
  PROVE  LInv'
<1>1. InOrder(todo[n]) BY AtLeads DEF OpenWindowNumbered
<1>2. UNCHANGED <<lease, leader, up, active, held, pointer, sealed, chain,
                  status, window>>
  BY DEF OpenWindowNumbered, lawVars, memory, envVars
<1>3. PICK c : /\ c = SaveWindowCmd(counter + 1, Cmd(n).law,
                                    action[Cmd(n).law])
               /\ c.do = "save_window"
  <2>1. SaveWindowCmd(counter + 1, Cmd(n).law, action[Cmd(n).law]).do
          = "save_window"
    BY DEF SaveWindowCmd, Command4
  <2> QED BY <2>1
<1>4. Goes(n, "open_window", {c}) BY <1>1, <1>3, OpenWindowGoes
<1>5. held[n] = NoLaw
  <2>1. ~Has(n, "clear_deliberation") /\ Cmd(n) \in Left(n)
        /\ Cmd(n).do = "open_window"
    BY <1>4, RestOpensNothing
  <2> QED BY <2>1 DEF LInv, Timely
<1>6. Timely(n, c)' BY <1>2, <1>3, <1>5 DEF Timely
<1> QED BY <1>2, <1>4, <1>6, QuietMove

\* A window is saved: no block speaks of it yet, and its law is given its
\* status before it is the active one.
LEMMA SaveWindowKeeps ==
  ASSUME IInv, LInv, NEW n \in Nct, SaveWindow(n)
  PROVE  LInv'
<1>1. InOrder(todo[n]) BY AtLeads DEF SaveWindow
<1>2. UNCHANGED <<lease, leader, up, active, held, pointer, sealed, chain,
                  status>>
  BY DEF SaveWindow, lawVars, memory, envVars
<1>3. PICK l, w : l = Cmd(n).law /\ w = Cmd(n).win OBVIOUS
<1>4. /\ l \in Law /\ w \in Window /\ ~Saved(w)
      /\ Goes(n, "save_window",
              {SetStatus(l, "in_window"), OnLaw("remove_from_queue", l),
               OnWindow("set_active_window", w),
               OnWindow("publish_challenge", w)})
  BY <1>1, <1>3, SaveWindowGoes
<1>5. PICK a, b, c, d :
        /\ a = SetStatus(l, "in_window") /\ b = OnLaw("remove_from_queue", l)
        /\ c = OnWindow("set_active_window", w)
        /\ d = OnWindow("publish_challenge", w)
  OBVIOUS
<1>6. /\ a.do = "set_law_status" /\ a.arg = "in_window"
      /\ b.do = "remove_from_queue"
      /\ c.do = "set_active_window" /\ c.win = w
      /\ d.do = "publish_challenge"
  BY <1>5 DEF OnLaw, OnWindow, SetStatus, Command4
<1>7. Goes(n, "save_window", {a, b, c, d}) BY <1>4, <1>5
<1>8. /\ window'[w].law = l
      /\ \A v \in Window : v # w => window'[v] = window[v]
  BY <1>3, <1>4 DEF SaveWindow, IInv, TypeOK
<1>9. ~HasBlock(w) BY <1>4 DEF IInv, BlocksSaved, HasBlock
<1>10. Timely(n, c)'
  <2>1. held'[n] = NoLaw
    <3>1. ~Has(n, "clear_deliberation") /\ Cmd(n) \in Left(n)
          /\ Cmd(n).do = "save_window"
      BY <1>7, RestOpensNothing
    <3> QED BY <1>2, <3>1 DEF LInv, Timely
  <2>2. ~HasBlock(w)' BY <1>2, <1>9 DEF HasBlock, Blocks
  <2>3. \A x \in Rest(n) : x.do # "set_law_status"
    BY <1>7, RestOpensNothing DEF MayFollow
  <2>4. Left(n)' = {a, b, c, d} \cup Rest(n) BY <1>7 DEF Goes
  <2>5. \A x \in Left(n)' : x.do = "set_law_status" => x = a
    BY <1>6, <2>3, <2>4
  <2>6. Has(n, "set_law_status")' BY <1>6, <2>4 DEF Has
  <2> QED BY <1>5, <1>6, <1>8, <2>1, <2>2, <2>5, <2>6 DEF Timely
<1>11. Plain(a) /\ Plain(b) /\ Plain(d) BY <1>6 DEF Plain, Final
<1>12. \A x \in Rest(n) : Timely(n, x)'
  <2> TAKE x \in Rest(n)
  <2>1. held'[n] = held[n] BY <1>2
  <2> QED BY <1>7, <2>1, RestTimely
<1>13. Record'
  <2>1. pointer # 0 => pointer # w /\ pointer \in Window
    BY <1>4 DEF IInv, PointersSaved, Saved
  <2>2. pointer # 0 => window'[pointer] = window[pointer] BY <1>8, <2>1
  <2> QED BY <1>2, <2>2 DEF LInv, Record, HasBlock, Blocks, LastBlockOf
<1>14. OneBlockPerWindow' /\ StatusIsLastVerdict'
  BY <1>2 DEF LInv, OneBlockPerWindow, StatusIsLastVerdict
<1>15. active'[n] # 0 => held'[n] = NoLaw /\ pointer' = active'[n]
  BY <1>2 DEF LInv, Memory
<1>16. \A x \in {a, b, c, d} \cup Rest(n) : Timely(n, x)'
  BY <1>10, <1>11, <1>12, PlainTimely
<1> QED BY <1>2, <1>7, <1>13, <1>14, <1>15, <1>16, Move

\* The window of a handler becomes the active one.
LEMMA SetActiveWindowKeeps ==
  ASSUME IInv, LInv, NEW n \in Nct, SetActiveWindow(n)
  PROVE  LInv'
<1>1. InOrder(todo[n]) /\ leader[n] BY AtLeads DEF SetActiveWindow
<1>2. UNCHANGED <<lease, leader, up, held, sealed, chain, status, window>>
  BY DEF SetActiveWindow, lawVars, envVars
<1>3. PICK w : w = Cmd(n).win OBVIOUS
<1>4. TypeOK /\ TodoOK /\ At(n, "set_active_window") /\ Done(n)
  BY DEF IInv, SetActiveWindow
<1>5. Goes(n, "set_active_window", {}) BY <1>1, <1>4, DoneGoes
<1>6. Saved(w)
  BY <1>3, <1>4, HeadJustified
     DEF JustifiedCommand, Justified, WindowCommand, At, Cmd
<1>7. w \in Window /\ w # 0 BY <1>6 DEF Saved, Window
<1>8. /\ pointer' = w /\ active'[n] = w
      /\ \A m \in Nct : m # n => active'[m] = active[m]
  BY <1>3, <1>4 DEF SetActiveWindow, TypeOK
<1>9. Timely(n, Cmd(n)) /\ Cmd(n).do = "set_active_window"
      /\ ~Has(n, "clear_deliberation")
  BY <1>5, RestOpensNothing DEF LInv
<1>10. held[n] = NoLaw BY <1>9 DEF Timely
<1>11. ~Has(n, "set_law_status")
  <2>1. \A x \in Rest(n) : x.do # "set_law_status"
    BY <1>5, RestOpensNothing DEF MayFollow
  <2> QED BY <1>5, <1>9, <2>1 DEF Goes, Has
<1>12. ~HasBlock(w) /\ status[window[w].law] \notin Final
  BY <1>3, <1>9, <1>11 DEF Timely
<1>13. \A x \in Rest(n) : Timely(n, x)'
  <2> TAKE x \in Rest(n)
  <2>1. held'[n] = NoLaw BY <1>2, <1>10
  <2> QED BY <1>5, <2>1, RestTimely
<1>14. Record'
  BY <1>2, <1>8, <1>12 DEF LInv, Record, HasBlock, Blocks, LastBlockOf
<1>15. OneBlockPerWindow' /\ StatusIsLastVerdict'
  BY <1>2 DEF LInv, OneBlockPerWindow, StatusIsLastVerdict
<1> QED BY <1>2, <1>5, <1>8, <1>10, <1>13, <1>14, <1>15, Move

\* There is no active window any more.
LEMMA ClearActiveWindowKeeps ==
  ASSUME IInv, LInv, NEW n \in Nct, ClearActiveWindow(n)
  PROVE  LInv'
<1>1. InOrder(todo[n]) BY AtLeads DEF ClearActiveWindow
<1>2. UNCHANGED <<lease, leader, up, held, sealed, chain, status, window>>
  BY DEF ClearActiveWindow, lawVars, envVars
<1>3. TypeOK /\ At(n, "clear_active_window") /\ Done(n)
  BY DEF IInv, ClearActiveWindow
<1>4. Goes(n, "clear_active_window", {}) BY <1>1, <1>3, DoneGoes
<1>5. /\ pointer' = 0 /\ active'[n] = 0
      /\ \A m \in Nct : m # n => active'[m] = active[m]
  BY <1>3 DEF ClearActiveWindow, TypeOK
<1>6. \A x \in Rest(n) : Timely(n, x)'
  <2> TAKE x \in Rest(n)
  <2>1. held'[n] = held[n] BY <1>2
  <2> QED BY <1>4, <2>1, RestTimely
<1>7. Record' BY <1>2, <1>5 DEF LInv, Record, HasBlock, Blocks
<1>8. OneBlockPerWindow' /\ StatusIsLastVerdict'
  BY <1>2 DEF LInv, OneBlockPerWindow, StatusIsLastVerdict
<1> QED BY <1>2, <1>4, <1>5, <1>6, <1>7, <1>8, Move

\* A window gets its result.
LEMMA SetWindowResultKeeps ==
  ASSUME IInv, LInv, NEW n \in Nct, SetWindowResult(n)
  PROVE  LInv'
<1>1. InOrder(todo[n]) BY AtLeads DEF SetWindowResult
<1>2. UNCHANGED <<lease, leader, up, active, held, pointer, sealed, chain,
                  status>>
  BY DEF SetWindowResult, lawVars, memory, envVars
<1>3. TypeOK /\ At(n, "set_window_result") /\ Done(n)
  BY DEF IInv, SetWindowResult
<1>4. Goes(n, "set_window_result", {}) BY <1>1, <1>3, DoneGoes
<1>5. \A w \in Window : window'[w].law = window[w].law
  BY <1>3 DEF SetWindowResult, TypeOK, WindowRecord
<1>6. \A x \in Rest(n) : Timely(n, x)'
  <2> TAKE x \in Rest(n)
  <2>1. held'[n] = held[n] BY <1>2
  <2>2. UNCHANGED <<chain, pointer>> BY <1>2
  <2> QED BY <1>4, <2>1, <2>2, RestTimely
<1>7. Record'
  <2>1. pointer # 0 => window'[pointer].law = window[pointer].law
    BY <1>5 DEF IInv, PointersSaved, Saved
  <2> QED BY <1>2, <2>1 DEF LInv, Record, HasBlock, Blocks, LastBlockOf
<1>8. OneBlockPerWindow' /\ StatusIsLastVerdict'
  BY <1>2 DEF LInv, OneBlockPerWindow, StatusIsLastVerdict
<1>9. active'[n] # 0 => held'[n] = NoLaw /\ pointer' = active'[n]
  BY <1>2 DEF LInv, Memory
<1> QED BY <1>2, <1>4, <1>6, <1>7, <1>8, <1>9, Move

\* A window is sealed before it has its block.
LEMMA TrySealKeeps ==
  ASSUME IInv, LInv, NEW n \in Nct, TrySealWindow(n) \/ TrySealWindowTwice(n)
  PROVE  LInv'
<1>1. InOrder(todo[n]) BY AtLeads DEF TrySealWindow, TrySealWindowTwice
<1>2. UNCHANGED <<lease, leader, up, active, held, pointer, chain, status,
                  window>>
  BY DEF TrySealWindow, TrySealWindowTwice, lawVars, memory, envVars
<1>3. PICK w : w = Cmd(n).win OBVIOUS
<1>4. CASE UNCHANGED sealed /\ Goes(n, "try_seal_window", {})
  BY <1>2, <1>4, QuietMove
<1>5. ASSUME sealed' = sealed \cup {w}, NEW new,
             Goes(n, "try_seal_window", new), \A x \in new : Timely(n, x)'
      PROVE  LInv'
  <2>1. \A x \in Rest(n) : Timely(n, x)'
    <3> TAKE x \in Rest(n)
    <3>1. held'[n] = held[n] BY <1>2
    <3> QED BY <1>5, <3>1, RestTimely
  <2>2. Record'
    BY <1>2, <1>5 DEF LInv, Record, HasBlock, Blocks, LastBlockOf
  <2>3. OneBlockPerWindow' /\ StatusIsLastVerdict'
    BY <1>2 DEF LInv, OneBlockPerWindow, StatusIsLastVerdict
  <2>4. active'[n] # 0 => held'[n] = NoLaw /\ pointer' = active'[n]
    BY <1>2 DEF LInv, Memory
  <2> QED BY <1>2, <1>5, <2>1, <2>2, <2>3, <2>4, Move
<1>6. CASE /\ w \notin sealed /\ sealed' = sealed \cup {w}
           /\ Goes(n, "try_seal_window",
                   {Do("last_block_hash"), OnWindow("append_block", w)})
  <2>1. PICK a, b :
          a = Do("last_block_hash") /\ b = OnWindow("append_block", w)
    OBVIOUS
  <2>2. a.do = "last_block_hash" /\ b.do = "append_block" /\ b.win = w
    BY <2>1 DEF Do, OnWindow, Command4
  <2>3. Timely(n, Cmd(n)) /\ Cmd(n).do = "try_seal_window"
    BY <1>6, RestOpensNothing DEF LInv
  <2>4. w = pointer BY <1>3, <2>3 DEF Timely
  <2>5. ~HasBlock(w)
    BY <1>6 DEF LInv, Record, HasBlock, IInv, BlocksSaved, Saved
  <2>6. ~HasBlock(w)' BY <1>2, <2>5 DEF HasBlock, Blocks
  <2>7. Timely(n, b)' BY <1>2, <1>6, <2>2, <2>4, <2>6 DEF Timely
  <2>8. Timely(n, a)' BY <2>2, PlainTimely DEF Plain
  <2> QED BY <1>5, <1>6, <2>1, <2>7, <2>8
<1>7. CASE sealed' = sealed \cup {w} /\ Goes(n, "try_seal_window", {})
  BY <1>5, <1>7
<1> QED BY <1>1, <1>3, <1>4, <1>6, <1>7, TrySealGoes

\* A takeover releases a window that has no block.
LEMMA ReleaseWindowSealKeeps ==
  ASSUME IInv, LInv, NEW n \in Nct, ReleaseWindowSeal(n)
  PROVE  LInv'
<1>1. InOrder(todo[n]) BY AtLeads DEF ReleaseWindowSeal
<1>2. UNCHANGED <<lease, leader, up, held, pointer, chain, status, window>>
  BY DEF ReleaseWindowSeal, lawVars, envVars
<1>3. PICK w : w = Cmd(n).win OBVIOUS
<1>4. TypeOK /\ At(n, "release_window_seal") /\ Done(n)
  BY DEF IInv, ReleaseWindowSeal
<1>5. Goes(n, "release_window_seal", {}) BY <1>1, <1>4, DoneGoes
<1>6. /\ sealed' = sealed \ {w} /\ active'[n] = w
      /\ \A m \in Nct : m # n => active'[m] = active[m]
  BY <1>3, <1>4 DEF ReleaseWindowSeal, TypeOK
<1>7. Timely(n, Cmd(n)) /\ Cmd(n).do = "release_window_seal"
      /\ ~Has(n, "clear_deliberation")
  BY <1>5, RestOpensNothing DEF LInv
<1>8. held[n] = NoLaw /\ w = pointer /\ ~HasBlock(w)
  BY <1>3, <1>7 DEF Timely
<1>9. \A x \in Rest(n) : Timely(n, x)'
  <2> TAKE x \in Rest(n)
  <2>1. held'[n] = NoLaw BY <1>2, <1>8
  <2> QED BY <1>5, <2>1, RestTimely
<1>10. Record'
  BY <1>2, <1>6, <1>8 DEF LInv, Record, HasBlock, Blocks, LastBlockOf
<1>11. OneBlockPerWindow' /\ StatusIsLastVerdict'
  BY <1>2 DEF LInv, OneBlockPerWindow, StatusIsLastVerdict
<1> QED BY <1>2, <1>5, <1>6, <1>8, <1>9, <1>10, <1>11, Move

\* The status of a law agrees with a block about it.
Agrees(st, b) ==
  /\ st = "promulgated" => b.action = "promulgacion"
  /\ st = "repealed" => b.action = "derogacion"

LastVerdicts ==
  \A i \in DOMAIN chain :
    (\A j \in DOMAIN chain : chain[j].law = chain[i].law => j <= i) =>
      Agrees(status[chain[i].law], chain[i])

\* StatusIsLastVerdict, in these words.
LEMMA VerdictsAgree ==
  /\ StatusIsLastVerdict <=> LastVerdicts
  /\ StatusIsLastVerdict' <=> LastVerdicts'
BY DEF StatusIsLastVerdict, LastVerdicts, Agrees

\* A block is appended to the chain of a window that had none.
LEMMA AppendedBlock ==
  ASSUME IInv, LInv, NEW n \in Nct, NEW w, Saved(w), w = pointer, w \in sealed,
         ~HasBlock(w), chain' = Append(chain, BlockOf(n, w)),
         UNCHANGED <<pointer, sealed, status, window>>
  PROVE  /\ Record' /\ OneBlockPerWindow' /\ StatusIsLastVerdict'
         /\ chain' # <<>> /\ LastBlock' = BlockOf(n, w) /\ HasBlock(w)'
<1>1. chain \in Seq(Block) BY DEF IInv, TypeOK
<1>2. PICK k : k = Len(chain) OBVIOUS
<1>3. PICK b : b = BlockOf(n, w) OBVIOUS
<1>4. b.win = w /\ b.law = window[w].law BY <1>3 DEF BlockOf
<1>5. b \in Block
  BY <1>3, <1>4 DEF BlockOf, Block, Saved, IInv, TypeOK, WindowRecord
<1>6. /\ k \in Nat /\ DOMAIN chain = 1..k /\ DOMAIN chain' = 1..(k + 1)
      /\ chain'[k + 1] = b /\ Len(chain') = k + 1 /\ chain' # <<>>
      /\ \A i \in 1..k : chain'[i] = chain[i]
  BY <1>1, <1>2, <1>3, <1>5
<1>7. LastBlock' = b BY <1>6 DEF LastBlock
<1>8. \A v : HasBlock(v)' <=> HasBlock(v) \/ v = w
  <2>1. Blocks' = Blocks \cup {b}
    <3>1. \A i \in 1..(k + 1) : i \in 1..k \/ i = k + 1 BY <1>6
    <3>2. \A i \in 1..k : i \in 1..(k + 1) BY <1>6
    <3>3. k + 1 \in 1..(k + 1) BY <1>6
    <3> QED BY <1>6, <3>1, <3>2, <3>3 DEF Blocks
  <2> QED BY <1>4, <2>1 DEF HasBlock
<1>9. Record'
  <2>1. \A v \in Window : HasBlock(v)' => v \in sealed'
    BY <1>8 DEF LInv, Record
  <2>2. LastBlockOf(pointer)' BY <1>4, <1>6 DEF LastBlockOf
  <2> QED BY <1>8, <2>1, <2>2 DEF Record
<1>10. OneBlockPerWindow'
  <2>1. \A i \in 1..k : chain[i].win # w
    BY <1>6 DEF HasBlock, Blocks
  <2> SUFFICES ASSUME NEW i \in 1..(k + 1), NEW j \in 1..(k + 1),
                      chain'[i].win = chain'[j].win
               PROVE  i = j
    BY <1>6 DEF OneBlockPerWindow
  <2>2. CASE i \in 1..k /\ j \in 1..k
    <3>1. chain[i].win = chain[j].win BY <1>6, <2>2
    <3> QED BY <1>6, <2>2, <3>1 DEF LInv, OneBlockPerWindow
  <2>3. CASE i \in 1..k /\ j = k + 1 BY <1>4, <1>6, <2>1, <2>3
  <2>4. CASE i = k + 1 /\ j \in 1..k BY <1>4, <1>6, <2>1, <2>4
  <2> QED BY <1>6, <2>2, <2>3, <2>4
<1>11. status[window[w].law] \notin Final
  BY DEF LInv, Record, Saved, Window
<1>12. StatusIsLastVerdict'
  <2> SUFFICES ASSUME NEW i \in 1..(k + 1),
                      \A j \in 1..(k + 1) :
                        chain'[j].law = chain'[i].law => j <= i
               PROVE  Agrees(status[chain'[i].law], chain'[i])
    BY <1>6, VerdictsAgree DEF LastVerdicts
  <2>1. CASE i = k + 1
    <3>1. status[chain'[i].law] \notin Final BY <1>4, <1>6, <1>11, <2>1
    <3> QED BY <3>1 DEF Final, Agrees
  <2>2. CASE i \in 1..k
    <3>1. \A j \in 1..k : chain[j].law = chain[i].law => j <= i
      <4> TAKE j \in 1..k
      <4>1. j \in 1..(k + 1) BY <1>6
      <4> QED BY <1>6, <2>2, <4>1
    <3>2. Agrees(status[chain[i].law], chain[i])
      BY <1>6, <2>2, <3>1, VerdictsAgree DEF LInv, LastVerdicts
    <3>3. chain'[i] = chain[i] BY <1>6, <2>2
    <3> QED BY <3>2, <3>3
  <2> QED BY <1>6, <2>1, <2>2
<1> QED BY <1>3, <1>6, <1>7, <1>8, <1>9, <1>10, <1>12

\* The block that is appended is the first of the window that is active, and the
\* last of the chain.
LEMMA AppendKeeps ==
  ASSUME IInv, LInv, NEW n \in Nct, AppendBlock(n) \/ AppendBlockTwice(n)
  PROVE  LInv'
<1>1. InOrder(todo[n]) /\ At(n, "append_block")
  BY AtLeads DEF AppendBlock, AppendBlockTwice
<1>2. UNCHANGED <<lease, leader, up, active, held, pointer, sealed, status,
                  window>>
  BY DEF AppendBlock, AppendBlockTwice, lawVars, windowVars, memory, envVars
<1>3. PICK w : w = Cmd(n).win OBVIOUS
<1>4. Saved(w) BY <1>1, <1>3, AppendGoes
<1>5. PICK l : l = window[w].law OBVIOUS
<1>6. ASSUME NEW new, Goes(n, "append_block", new)
      PROVE  /\ w = pointer /\ w \in sealed /\ ~HasBlock(w)
             /\ \A x \in Rest(n) : Timely(n, x)'
  <2>1. Timely(n, Cmd(n)) /\ Cmd(n).do = "append_block"
    BY <1>6, RestOpensNothing DEF LInv
  <2>2. \A x \in Rest(n) : Timely(n, x)'
    <3> TAKE x \in Rest(n)
    <3>1. held'[n] = held[n] BY <1>2
    <3> QED BY <1>6, <3>1, RestTimely
  <2> QED BY <1>3, <2>1, <2>2 DEF Timely
<1>7. active'[n] # 0 => held'[n] = NoLaw /\ pointer' = active'[n]
  BY <1>2 DEF LInv, Memory
<1>8. \A m \in Nct : m # n => active'[m] = active[m] /\ held'[m] = held[m]
  BY <1>2
<1>9. CASE /\ chain' = Append(chain, BlockOf(n, w))
           /\ Goes(n, "append_block",
                   {SetResult(w, "success"), SetStatus(l, Verdict(w)),
                    Do("clear_active_window"), Do("maybe_open_window")})
  <2>1. PICK a, b, c, d :
          /\ a = SetResult(w, "success") /\ b = SetStatus(l, Verdict(w))
          /\ c = Do("clear_active_window") /\ d = Do("maybe_open_window")
    OBVIOUS
  <2>2. /\ a.do = "set_window_result" /\ b.do = "set_law_status"
        /\ b.law = l /\ b.arg = Verdict(w)
        /\ c.do = "clear_active_window" /\ d.do = "maybe_open_window"
    BY <2>1 DEF Do, SetResult, SetStatus, Command4
  <2>3. /\ Record' /\ OneBlockPerWindow' /\ StatusIsLastVerdict'
        /\ chain' # <<>> /\ LastBlock' = BlockOf(n, w)
    BY <1>2, <1>4, <1>6, <1>9, AppendedBlock
  <2>4. /\ LastBlock'.win = pointer' /\ LastBlock'.law = l
        /\ LastBlock'.action = window[w].action
    BY <1>2, <1>5, <1>6, <1>9, <2>3 DEF BlockOf
  <2>5. Timely(n, b)' BY <2>2, <2>3, <2>4 DEF Timely, Verdict
  <2>6. Plain(a) /\ Plain(c) /\ Plain(d) BY <2>2 DEF Plain
  <2>7. Goes(n, "append_block", {a, b, c, d}) BY <1>9, <2>1
  <2>8. \A x \in {a, b, c, d} \cup Rest(n) : Timely(n, x)'
    BY <1>6, <2>5, <2>6, <2>7, PlainTimely
  <2> QED BY <1>2, <1>7, <1>8, <2>3, <2>7, <2>8, Move
<1>10. CASE /\ UNCHANGED chain \/ chain' = Append(chain, BlockOf(n, w))
            /\ Goes(n, "append_block",
                    {SetStatus(l, "pending_queue"), OnLaw("enqueue_law", l),
                     Do("clear_active_window"), Do("maybe_open_window")})
  <2>1. PICK a, b, c, d :
          /\ a = SetStatus(l, "pending_queue") /\ b = OnLaw("enqueue_law", l)
          /\ c = Do("clear_active_window") /\ d = Do("maybe_open_window")
    OBVIOUS
  <2>2. /\ a.do = "set_law_status" /\ a.arg = "pending_queue"
        /\ b.do = "enqueue_law"
        /\ c.do = "clear_active_window" /\ d.do = "maybe_open_window"
    BY <2>1 DEF Do, OnLaw, SetStatus, Command4
  <2>3. Record' /\ OneBlockPerWindow' /\ StatusIsLastVerdict'
    <3>1. CASE UNCHANGED chain BY <1>2, <3>1, RecordKept
    <3>2. CASE chain' = Append(chain, BlockOf(n, w))
      BY <1>2, <1>4, <1>6, <1>10, <3>2, AppendedBlock
    <3> QED BY <1>10, <3>1, <3>2
  <2>4. Plain(a) /\ Plain(b) /\ Plain(c) /\ Plain(d)
    BY <2>2 DEF Plain, Final
  <2>5. Goes(n, "append_block", {a, b, c, d}) BY <1>10, <2>1
  <2>6. \A x \in {a, b, c, d} \cup Rest(n) : Timely(n, x)'
    BY <1>6, <2>4, <2>5, PlainTimely
  <2> QED BY <1>2, <1>7, <1>8, <2>3, <2>5, <2>6, Move
<1> QED BY <1>1, <1>3, <1>5, <1>9, <1>10, AppendGoes

\* The status of a law: a verdict is that of the last block, which is about
\* this law.
LEMMA SetLawStatusKeeps ==
  ASSUME IInv, LInv, NEW n \in Nct, SetLawStatus(n)
  PROVE  LInv'
<1>1. InOrder(todo[n]) BY AtLeads DEF SetLawStatus
<1>2. UNCHANGED <<lease, leader, up, active, held, pointer, sealed, chain,
                  window>>
  BY DEF SetLawStatus, windowVars, memory, envVars
<1>3. PICK l, s : l = Cmd(n).law /\ s = Cmd(n).arg OBVIOUS
<1>4. TypeOK /\ TodoOK /\ At(n, "set_law_status") /\ Done(n)
  BY DEF IInv, SetLawStatus
<1>5. Goes(n, "set_law_status", {}) BY <1>1, <1>4, DoneGoes
<1>6. l \in Law
  BY <1>3, <1>4, HeadJustified
     DEF JustifiedCommand, Justified, LawCommand, At, Cmd
<1>7. /\ status' = [status EXCEPT ![l] = s]
      /\ status \in [Law -> Status] /\ chain \in Seq(Block)
  BY <1>3, <1>4 DEF SetLawStatus, TypeOK
<1>8. status'[l] = s /\ \A k : k # l => status'[k] = status[k]
  BY <1>6, <1>7
<1>9. Timely(n, Cmd(n)) /\ Cmd(n).do = "set_law_status"
  BY <1>5, RestOpensNothing DEF LInv
<1>10. s \in Final =>
         /\ chain # <<>> /\ LastBlock.win = pointer /\ LastBlock.law = l
         /\ s = IF LastBlock.action = "derogacion" THEN "repealed"
                                                  ELSE "promulgated"
  BY <1>3, <1>9 DEF Timely
<1>11. \A x \in Rest(n) : Timely(n, x)'
  <2> TAKE x \in Rest(n)
  <2>1. held'[n] = held[n] /\ active'[n] = active[n] BY <1>2
  <2>2. UNCHANGED <<chain, window>> BY <1>2
  <2>3. status'[Cmd(n).law] = Cmd(n).arg BY <1>3, <1>8
  <2> QED BY <1>5, <2>1, <2>2, <2>3, RestTimely
<1>12. PICK k : k = Len(chain) OBVIOUS
<1>13. /\ DOMAIN chain = 1..k /\ k \in Nat /\ (chain # <<>> => k \in 1..k)
       /\ LastBlock = chain[k]
  BY <1>7, <1>12 DEF LastBlock
<1>14. Record'
  <2>1. s \in Final => HasBlock(pointer)
    BY <1>10, <1>13 DEF HasBlock, Blocks
  <2>2. pointer # 0 /\ ~HasBlock(pointer) =>
          status'[window[pointer].law] \notin Final
    BY <1>8, <2>1 DEF LInv, Record
  <2>3. \A w : HasBlock(w)' <=> HasBlock(w) BY <1>2 DEF HasBlock, Blocks
  <2>4. LastBlockOf(pointer)' <=> LastBlockOf(pointer)
    BY <1>2 DEF LastBlockOf
  <2> QED BY <1>2, <2>2, <2>3, <2>4 DEF LInv, Record
<1>15. StatusIsLastVerdict'
  <2> SUFFICES ASSUME NEW i \in 1..k,
                      \A j \in 1..k : chain[j].law = chain[i].law => j <= i
               PROVE  Agrees(status'[chain[i].law], chain[i])
    BY <1>2, <1>13, VerdictsAgree DEF LastVerdicts
  <2>1. CASE chain[i].law # l
    <3>1. Agrees(status[chain[i].law], chain[i])
      BY <1>13, VerdictsAgree DEF LInv, LastVerdicts
    <3> QED BY <1>8, <2>1, <3>1
  <2>2. CASE chain[i].law = l /\ s \in Final
    <3>1. k \in 1..k /\ chain[k].law = chain[i].law
      BY <1>10, <1>13, <2>2
    <3>2. i = k BY <1>13, <3>1
    <3>3. chain[i].action \in Action
      <4>1. chain[i] \in Block BY <1>7, <1>13
      <4> QED BY <4>1 DEF Block
    <3> QED BY <1>8, <1>10, <1>13, <2>2, <3>2, <3>3 DEF Action, Agrees
  <2>3. CASE chain[i].law = l /\ s \notin Final
    <3>1. status'[chain[i].law] \notin Final BY <1>8, <2>3
    <3> QED BY <3>1 DEF Final, Agrees
  <2> QED BY <2>1, <2>2, <2>3
<1>16. OneBlockPerWindow' BY <1>2 DEF LInv, OneBlockPerWindow
<1>17. active'[n] # 0 => held'[n] = NoLaw /\ pointer' = active'[n]
  BY <1>2 DEF LInv, Memory
<1> QED BY <1>2, <1>5, <1>11, <1>14, <1>15, <1>16, <1>17, Move

\* A law is saved as pending.
LEMMA SaveLawKeeps ==
  ASSUME IInv, LInv, NEW n \in Nct, SaveLaw(n)
  PROVE  LInv'
<1>1. InOrder(todo[n]) BY AtLeads DEF SaveLaw
<1>2. UNCHANGED <<lease, leader, up, active, held, pointer, sealed, chain,
                  window>>
  BY DEF SaveLaw, windowVars, memory, envVars
<1>3. PICK l : l = Cmd(n).law OBVIOUS
<1>4. TypeOK /\ TodoOK /\ At(n, "save_law") /\ Done(n)
  BY DEF IInv, SaveLaw
<1>5. Goes(n, "save_law", {}) BY <1>1, <1>4, DoneGoes
<1>6. l \in Law
  BY <1>3, <1>4, HeadJustified
     DEF JustifiedCommand, Justified, LawCommand, At, Cmd
<1>7. status'[l] = "pending_queue" /\ \A k : k # l => status'[k] = status[k]
  BY <1>3, <1>4, <1>6 DEF SaveLaw, TypeOK
<1>8. \A x \in Rest(n) : Timely(n, x)'
  <2> TAKE x \in Rest(n)
  <2>1. held'[n] = held[n] BY <1>2
  <2> QED BY <1>5, <2>1, RestTimely
<1>9. \A k \in Law : status'[k] \in Final => status'[k] = status[k]
  BY <1>7 DEF Final
<1>10. Record'
  <2>1. pointer # 0 => window[pointer].law \in Law
    BY DEF IInv, PointersSaved, Saved
  <2>2. \A w : HasBlock(w)' <=> HasBlock(w) BY <1>2 DEF HasBlock, Blocks
  <2>3. LastBlockOf(pointer)' <=> LastBlockOf(pointer)
    BY <1>2 DEF LastBlockOf
  <2>4. pointer # 0 /\ ~HasBlock(pointer) =>
          status'[window[pointer].law] \notin Final
    BY <1>9, <2>1 DEF LInv, Record
  <2> QED BY <1>2, <2>2, <2>3, <2>4 DEF LInv, Record
<1>11. StatusIsLastVerdict'
  <2> SUFFICES ASSUME NEW i \in DOMAIN chain,
                      \A j \in DOMAIN chain :
                        chain[j].law = chain[i].law => j <= i
               PROVE  Agrees(status'[chain[i].law], chain[i])
    BY <1>2, VerdictsAgree DEF LastVerdicts
  <2>1. Agrees(status[chain[i].law], chain[i])
    BY VerdictsAgree DEF LInv, LastVerdicts
  <2>2. CASE chain[i].law = l BY <1>7, <2>2 DEF Agrees
  <2>3. CASE chain[i].law # l
    <3>1. status'[chain[i].law] = status[chain[i].law] BY <1>7, <2>3
    <3> QED BY <2>1, <3>1
  <2> QED BY <2>2, <2>3
<1>12. OneBlockPerWindow' BY <1>2 DEF LInv, OneBlockPerWindow
<1>13. active'[n] # 0 => held'[n] = NoLaw /\ pointer' = active'[n]
  BY <1>2 DEF LInv, Memory
<1> QED BY <1>2, <1>5, <1>8, <1>10, <1>11, <1>12, <1>13, Move

\* A deliberation is held by a process that has no window.
LEMMA HoldKeeps ==
  ASSUME IInv, LInv, NEW n \in Nct, HoldDeliberation(n)
  PROVE  LInv'
<1>1. InOrder(todo[n]) BY AtLeads DEF HoldDeliberation
<1>2. UNCHANGED <<lease, leader, up, active, pointer, sealed, chain, status,
                  window>>
  BY DEF HoldDeliberation, redisVars, lawVars, windowVars, envVars
<1>3. TypeOK /\ At(n, "hold") /\ Done(n) BY DEF IInv, HoldDeliberation
<1>4. Goes(n, "hold", {}) BY <1>1, <1>3, DoneGoes
<1>5. \A m \in Nct : m # n => held'[m] = held[m]
  BY DEF HoldDeliberation, IInv, TypeOK
<1>6. \A x \in Rest(n) : Timely(n, x)'
  <2> TAKE x \in Rest(n)
  <2> QED BY <1>4, RestTimely
<1>7. active'[n] = 0
  <2>1. Timely(n, Cmd(n)) /\ Cmd(n).do = "hold"
    BY <1>4, RestOpensNothing DEF LInv
  <2> QED BY <1>2, <2>1 DEF Timely
<1>8. Record' /\ OneBlockPerWindow' /\ StatusIsLastVerdict'
  BY <1>2, RecordKept
<1> QED BY <1>2, <1>4, <1>5, <1>6, <1>7, <1>8, Move

\* A deliberation ends.
LEMMA ClearDeliberationKeeps ==
  ASSUME IInv, LInv, NEW n \in Nct, ClearDeliberation(n)
  PROVE  LInv'
<1>1. InOrder(todo[n]) BY AtLeads DEF ClearDeliberation
<1>2. UNCHANGED <<lease, leader, up, active, pointer, sealed, chain, status,
                  window>>
  BY DEF ClearDeliberation, lawVars, windowVars, envVars
<1>3. TypeOK /\ At(n, "clear_deliberation") /\ Done(n)
  BY DEF IInv, ClearDeliberation
<1>4. Goes(n, "clear_deliberation", {}) BY <1>1, <1>3, DoneGoes
<1>5. held'[n] = NoLaw /\ \A m \in Nct : m # n => held'[m] = held[m]
  BY DEF ClearDeliberation, IInv, TypeOK
<1>6. \A x \in Rest(n) : Timely(n, x)'
  <2> TAKE x \in Rest(n)
  <2>1. UNCHANGED <<chain, pointer>> BY <1>2
  <2> QED BY <1>4, <1>5, <2>1, RestTimely
<1>7. active'[n] # 0 => pointer' = active'[n] BY <1>2 DEF LInv, Memory
<1>8. Record' /\ OneBlockPerWindow' /\ StatusIsLastVerdict'
  BY <1>2, RecordKept
<1> QED BY <1>2, <1>4, <1>5, <1>6, <1>7, <1>8, Move

\* Who leads has the lease, so it does not step down.
LEMMA RenewKeeps ==
  ASSUME IInv, LInv, NEW n \in Nct, RenewLeadership(n)
  PROVE  LInv' /\ UNCHANGED memory
<1>1. InOrder(todo[n]) /\ leader[n] BY AtLeads DEF RenewLeadership
<1>2. lease = n BY <1>1 DEF LInv, Alone
<1>3. UNCHANGED <<lease, leader, up, active, held, pointer, sealed, chain,
                  status, window>> /\ UNCHANGED memory
  BY <1>2 DEF RenewLeadership, redisVars, lawVars, windowVars, memory, envVars
<1>4. TypeOK /\ At(n, "renew_leadership") /\ Done(n)
  BY DEF IInv, RenewLeadership
<1>5. Goes(n, "renew_leadership", {}) BY <1>1, <1>4, DoneGoes
<1> QED BY <1>3, <1>5, QuietMove

\* A takeover looks at the window before it holds anything, and completes the
\* closing of one only if its block is the last.
LEMMA RetomarVentanaKeeps ==
  ASSUME IInv, LInv, NEW n \in Nct, RetomarVentana(n)
  PROVE  LInv'
<1>1. InOrder(todo[n]) /\ At(n, "retomar_ventana")
  BY AtLeads DEF RetomarVentana
<1>2. UNCHANGED <<lease, leader, up, held, pointer, sealed, chain, status,
                  window>>
  BY DEF RetomarVentana, redisVars, lawVars, windowVars, envVars
<1>3. ASSUME NEW new, Goes(n, "retomar_ventana", new)
      PROVE  held[n] = NoLaw
  <2>1. Timely(n, Cmd(n)) /\ Cmd(n).do = "retomar_ventana"
        /\ ~Has(n, "clear_deliberation")
    BY <1>3, RestOpensNothing DEF LInv
  <2> QED BY <2>1 DEF Timely
<1>4. CASE UNCHANGED active /\ Goes(n, "retomar_ventana", {})
  BY <1>2, <1>4, QuietMove
<1>5. CASE /\ UNCHANGED active
           /\ Goes(n, "retomar_ventana", {Do("clear_active_window")})
  <2>1. PICK a : a = Do("clear_active_window") OBVIOUS
  <2>2. Plain(a) BY <2>1 DEF Plain, Do, Command4
  <2> QED BY <1>2, <1>5, <2>1, <2>2, PlainTimely, QuietMove
<1>6. CASE /\ Saved(pointer) /\ LastBlockOf(pointer)
           /\ UNCHANGED active
           /\ Goes(n, "retomar_ventana",
                   {SetResult(pointer, "success"),
                    SetStatus(window[pointer].law, Verdict(pointer)),
                    Do("clear_active_window")})
  <2>1. PICK a, b, c :
          /\ a = SetResult(pointer, "success")
          /\ b = SetStatus(window[pointer].law, Verdict(pointer))
          /\ c = Do("clear_active_window")
    OBVIOUS
  <2>2. /\ a.do = "set_window_result" /\ b.do = "set_law_status"
        /\ b.law = window[pointer].law /\ b.arg = Verdict(pointer)
        /\ c.do = "clear_active_window"
    BY <2>1 DEF Do, SetResult, SetStatus, Command4
  <2>3. chain # <<>> /\ LastBlock.win = pointer /\ LastBlock \in Blocks
    <3>1. chain \in Seq(Block) BY DEF IInv, TypeOK
    <3>2. chain # <<>> => Len(chain) \in DOMAIN chain BY <3>1
    <3> QED BY <1>6, <3>2 DEF LastBlockOf, LastBlock, Blocks
  <2>4. /\ LastBlock.law = window[pointer].law
        /\ LastBlock.action = window[pointer].action
    BY <2>3 DEF IInv, BlockMatchesWindow
  <2>5. Timely(n, b)
    BY <2>2, <2>3, <2>4 DEF Timely, Verdict
  <2>6. Timely(n, b)'
    BY <1>2, <2>2, <2>5 DEF Timely, LastBlock
  <2>7. Plain(a) /\ Plain(c) BY <2>2 DEF Plain
  <2> QED BY <1>2, <1>6, <2>1, <2>6, <2>7, PlainTimely, QuietMove
<1>7. CASE /\ Saved(pointer) /\ ~LastBlockOf(pointer)
           /\ UNCHANGED active
           /\ Goes(n, "retomar_ventana",
                   {OnWindow("release_window_seal", pointer)})
  <2>1. PICK a : a = OnWindow("release_window_seal", pointer) OBVIOUS
  <2>2. a.do = "release_window_seal" /\ a.win = pointer
    BY <2>1 DEF OnWindow, Command4
  <2>3. held'[n] = NoLaw BY <1>2, <1>3, <1>7
  <2>4. pointer # 0 BY <1>7 DEF Saved, Window
  <2>5. ~HasBlock(pointer) BY <1>7, <2>4 DEF LInv, Record
  <2>6. ~HasBlock(pointer)' BY <1>2, <2>5 DEF HasBlock, Blocks
  <2>7. Timely(n, a)' BY <1>2, <2>2, <2>3, <2>6 DEF Timely
  <2> QED BY <1>2, <1>7, <2>1, <2>7, QuietMove
<1>8. CASE /\ active' = [active EXCEPT ![n] = pointer]
           /\ Goes(n, "retomar_ventana", {})
  <2>1. active'[n] = pointer /\ \A m \in Nct : m # n => active'[m] = active[m]
    BY <1>8 DEF IInv, TypeOK
  <2>2. held'[n] = NoLaw BY <1>2, <1>3, <1>8
  <2>3. \A x \in Rest(n) : Timely(n, x)'
    <3> TAKE x \in Rest(n)
    <3> QED BY <1>8, <2>2, RestTimely
  <2>4. Record' /\ OneBlockPerWindow' /\ StatusIsLastVerdict'
    BY <1>2, RecordKept
  <2> QED BY <1>2, <1>8, <2>1, <2>2, <2>3, <2>4, Move
<1> QED BY <1>1, <1>4, <1>5, <1>6, <1>7, <1>8, RetomarVentanaGoes

\* The same when it fails.
LEMMA RetomarVentanaFailsKeeps ==
  ASSUME IInv, LInv, NEW n \in Nct, RetomarVentanaFails(n)
  PROVE  LInv'
<1>1. InOrder(todo[n]) BY AtLeads DEF RetomarVentanaFails
<1>2. UNCHANGED <<lease, leader, up, active, held, pointer, sealed, chain,
                  status, window>>
  BY DEF RetomarVentanaFails, redisVars, lawVars, windowVars, memory
<1>3. PICK a, b, c :
        /\ a = SetResult(pointer, "success") /\ b = Do("clear_active_window")
        /\ c = RequeueIf(window[pointer].law, "in_window")
  OBVIOUS
<1>4. /\ a.do = "set_window_result" /\ b.do = "clear_active_window"
      /\ c.do = "requeue_if"
  BY <1>3 DEF Do, SetResult, RequeueIf, Command4
<1>5. Plain(a) /\ Plain(b) /\ Plain(c) BY <1>4 DEF Plain
<1>6. CASE Goes(n, "retomar_ventana", {}) BY <1>2, <1>6, QuietMove
<1>7. CASE Goes(n, "retomar_ventana", {b})
  BY <1>2, <1>5, <1>7, PlainTimely, QuietMove
<1>8. CASE Goes(n, "retomar_ventana", {b, c})
  BY <1>2, <1>5, <1>8, PlainTimely, QuietMove
<1>9. CASE Goes(n, "retomar_ventana", {a, b, c})
  BY <1>2, <1>5, <1>9, PlainTimely, QuietMove
<1> QED BY <1>1, <1>3, <1>6, <1>7, <1>8, <1>9, RetomarVentanaFailsGoes

\* What changes neither the record nor what a process that goes on knows.
LEMMA Undisturbed ==
  ASSUME LInv, Alone',
         UNCHANGED <<pointer, sealed, chain, status, window>>,
         \A m \in Nct :
           \/ todo'[m] = <<>>
           \/ /\ todo'[m] = todo[m]
              /\ active'[m] = active[m] /\ held'[m] = held[m],
         \A m \in Nct :
           active'[m] = 0 \/ (active'[m] = active[m] /\ held'[m] = held[m])
  PROVE  LInv'
<1>1. Record' /\ OneBlockPerWindow' /\ StatusIsLastVerdict' BY RecordKept
<1>2. Memory' BY DEF LInv, Memory
<1>3. ASSUME NEW m \in Nct
      PROVE  InOrder(todo[m])' /\ \A c \in Left(m)' : Timely(m, c)'
  <2>1. CASE todo'[m] = <<>>
    BY <2>1 DEF InOrder, Left, CommandsOf
  <2>2. CASE /\ todo'[m] = todo[m]
             /\ active'[m] = active[m] /\ held'[m] = held[m]
    <3>1. Left(m)' = Left(m) /\ InOrder(todo[m])'
      BY <2>2 DEF Left, InOrder, LInv
    <3>2. \A c \in Left(m) : Timely(m, c)'
      <4> TAKE c \in Left(m)
      <4>1. Timely(m, c) BY DEF LInv
      <4>2. \A name : Has(m, name)' <=> Has(m, name) BY <3>1 DEF Has
      <4>3. \A w : HasBlock(w)' <=> HasBlock(w) BY DEF HasBlock, Blocks
      <4>4. LastBlock' = LastBlock BY DEF LastBlock
      <4> QED BY <2>2, <3>1, <4>1, <4>2, <4>3, <4>4 DEF Timely
    <3> QED BY <3>1, <3>2
  <2> QED BY <2>1, <2>2
<1> QED BY <1>1, <1>2, <1>3 DEF LInv

\* A handler starts where nothing was left.
LEMMA Starts ==
  ASSUME IInv, LInv, NEW n \in Nct, NEW s, InOrder(s),
         todo' = [todo EXCEPT ![n] = s],
         \A m \in Nct : m # n => ~leader[m], Alone',
         UNCHANGED <<pointer, sealed, chain, status, window, active, held>>,
         \A c \in CommandsOf(s) : Timely(n, c)'
  PROVE  LInv'
<1>1. Record' /\ OneBlockPerWindow' /\ StatusIsLastVerdict' BY RecordKept
<1>2. Memory' BY DEF LInv, Memory
<1>3. ASSUME NEW m \in Nct
      PROVE  InOrder(todo[m])' /\ \A c \in Left(m)' : Timely(m, c)'
  <2>1. CASE m = n
    <3>1. todo'[m] = s BY <2>1 DEF IInv, TypeOK
    <3> QED BY <2>1, <3>1 DEF Left, InOrder
  <2>2. CASE m # n
    <3>1. todo'[m] = <<>> BY <2>2 DEF IInv, TypeOK, LInv, Alone
    <3> QED BY <3>1 DEF InOrder, Left, CommandsOf
  <2> QED BY <2>1, <2>2
<1> QED BY <1>1, <1>2, <1>3 DEF LInv

\* The role and the lease, with one leader.
LEMMA RolesKeep ==
  ASSUME IInv, LInv, NEW n \in Nct, Boot(n) \/ Crash(n)
  PROVE  LInv'
<1>1. TypeOK /\ Alone BY DEF IInv, LInv
<1>2. CASE Boot(n)
  <2>1. UNCHANGED <<pointer, sealed, chain, status, window, todo, active, held>>
    BY <1>2 DEF Boot, lawVars, windowVars
  <2>2. ~leader[n] /\ todo[n] = <<>> /\ active[n] = 0 /\ held[n] = NoLaw
    BY <1>1, <1>2 DEF Alone, Boot
  <2>3. Alone'
    <3>1. CASE lease = NoNct /\ lease' = n
               /\ leader' = [leader EXCEPT ![n] = TRUE]
      <4>1. \A m \in Nct : ~leader[m]
        BY <1>1, <3>1, ConstantsAssumption DEF Alone
      <4>2. \A m \in Nct : leader'[m] => m = n /\ up'[m]
        BY <1>1, <1>2, <3>1, <4>1 DEF Boot, TypeOK
      <4> QED BY <1>1, <2>1, <2>2, <3>1, <4>1, <4>2 DEF Alone
    <3>2. CASE UNCHANGED <<lease, leader>>
      <4>1. \A m \in Nct : up[m] => up'[m] BY <1>1, <1>2 DEF Boot, TypeOK
      <4> QED BY <1>1, <2>1, <3>2, <4>1 DEF Alone
    <3> QED BY <1>2, <3>1, <3>2 DEF Boot
  <2> QED BY <2>1, <2>3, Undisturbed
<1>3. CASE Crash(n)
  <2>1. UNCHANGED <<pointer, sealed, chain, status, window, lease>>
    BY <1>3 DEF Crash, redisVars, lawVars, windowVars
  <2>2. /\ ~leader'[n] /\ todo'[n] = <<>> /\ active'[n] = 0
        /\ held'[n] = NoLaw
        /\ \A m \in Nct : m # n =>
             /\ leader'[m] = leader[m] /\ todo'[m] = todo[m]
             /\ active'[m] = active[m] /\ held'[m] = held[m]
             /\ up'[m] = up[m]
    BY <1>1, <1>3 DEF Crash, TypeOK
  <2>3. Alone'
    <3> SUFFICES ASSUME NEW m \in Nct
                 PROVE  /\ leader'[m] => up'[m] /\ lease' = m
                        /\ todo'[m] # <<>> => leader'[m]
                        /\ ~leader'[m] => active'[m] = 0 /\ held'[m] = NoLaw
      BY DEF Alone
    <3>1. CASE m = n BY <2>2, <3>1
    <3>2. CASE m # n BY <1>1, <2>1, <2>2, <3>2 DEF Alone
    <3> QED BY <3>1, <3>2
  <2>4. \A m \in Nct :
          \/ todo'[m] = <<>>
          \/ /\ todo'[m] = todo[m]
             /\ active'[m] = active[m] /\ held'[m] = held[m]
    BY <2>2
  <2>5. \A m \in Nct :
          active'[m] = 0 \/ (active'[m] = active[m] /\ held'[m] = held[m])
    BY <2>2
  <2> QED BY <2>1, <2>3, <2>4, <2>5, Undisturbed
<1> QED BY <1>2, <1>3

\* The lease expires only when its holder is not a live leader.
LEMMA LeaseExpiresKeeps ==
  ASSUME IInv, LInv, LeaseExpires, OneLeader'
  PROVE  LInv'
<1>1. TypeOK /\ Alone BY DEF IInv, LInv
<1>2. UNCHANGED <<pointer, sealed, chain, status, window, todo, up, leader,
                  active, held>>
  BY DEF LeaseExpires, lawVars, windowVars, memory
<1>3. ~(up[lease] /\ leader[lease])
  BY <1>1 DEF LeaseExpires, OneLeader, TypeOK
<1>4. \A m \in Nct : ~leader[m] BY <1>1, <1>3 DEF Alone
<1>5. Alone' BY <1>1, <1>2, <1>4 DEF Alone
<1> QED BY <1>2, <1>5, Undisturbed

\* A handler that fails leaves the rest of it undone.
LEMMA HandlerErrorKeeps ==
  ASSUME IInv, LInv, NEW n \in Nct, HandlerError(n)
  PROVE  LInv'
<1>1. TypeOK /\ Alone BY DEF IInv, LInv
<1>2. UNCHANGED <<pointer, sealed, chain, status, window, lease, up, leader,
                  active, held>>
  BY DEF HandlerError, redisVars, lawVars, windowVars, memory
<1>3. \A m \in Nct : todo'[m] = IF m = n THEN <<>> ELSE todo[m]
  BY <1>1 DEF HandlerError, TypeOK
<1>4. Alone' BY <1>1, <1>2, <1>3 DEF Alone
<1> QED BY <1>2, <1>3, <1>4, Undisturbed

\* Time.
LEMMA TimeKeeps ==
  ASSUME IInv, LInv,
         \/ \E w \in Window : DeadlinePasses(w)
         \/ \E l \in Law : PauseEnds(l)
         \/ UNCHANGED vars
  PROVE  LInv' /\ UNCHANGED memory
<1>1. UNCHANGED <<pointer, sealed, chain, status, window, lease, up, leader,
                  active, held, todo>> /\ UNCHANGED memory
  BY DEF DeadlinePasses, PauseEnds, vars, redisVars, lawVars, windowVars,
         memory, envVars
<1>2. Alone' BY <1>1 DEF LInv, Alone
<1> QED BY <1>1, <1>2, Undisturbed

\* A process that takes the role starts with a takeover, and remembers nothing.
LEMMA BecomeLeaderKeeps ==
  ASSUME IInv, LInv, NEW n \in Nct, BecomeLeader(n)
  PROVE  LInv'
<1>1. TypeOK /\ Alone BY DEF IInv, LInv
<1>2. UNCHANGED <<pointer, sealed, chain, status, window, up, active, held>>
  BY DEF BecomeLeader, lawVars, windowVars, envVars
<1>3. \A m \in Nct : ~leader[m]
  BY <1>1, ConstantsAssumption DEF Alone, BecomeLeader
<1>4. todo' = [todo EXCEPT ![n] = Takeover] BY DEF BecomeLeader, Start
<1>5. \A m \in Nct : todo'[m] # <<>> => m = n
  BY <1>1, <1>3, <1>4 DEF Alone, TypeOK
<1>6. \A m \in Nct : leader'[m] <=> m = n
  BY <1>1, <1>3 DEF BecomeLeader, TypeOK
<1>7. up'[n] /\ lease' = n BY <1>2 DEF BecomeLeader, Idle
<1>8. Alone' BY <1>1, <1>2, <1>3, <1>5, <1>6, <1>7 DEF Alone
<1>9. held'[n] = NoLaw BY <1>1, <1>2, <1>3 DEF Alone
<1>10. ASSUME NEW c \in CommandsOf(Takeover)
       PROVE  Timely(n, c)'
  <2>1. c \in {Do("retomar_ventana"), Do("recuperar_deliberacion"),
               Do("check_deadline"), Do("maybe_open_window")}
    BY <1>10, TakeoverScript
  <2>2. CASE c = Do("retomar_ventana")
    <3>1. c.do = "retomar_ventana" BY <2>2 DEF Do, Command4
    <3> QED BY <1>9, <3>1 DEF Timely
  <2>3. CASE c # Do("retomar_ventana")
    <3>1. Plain(c) BY <2>1, <2>3 DEF Plain, Do, Command4
    <3> QED BY <3>1, PlainTimely
  <2> QED BY <2>2, <2>3
<1> QED BY <1>2, <1>3, <1>4, <1>8, <1>10, Starts, TakeoverScript

\* The handlers of who leads.
LEMMA HandlersKeep ==
  ASSUME IInv, LInv, NEW n \in Nct,
         TickStarts(n) \/ HandleProposal(n) \/ HandleNonceResponse(n)
  PROVE  LInv' /\ UNCHANGED memory
<1>1. TypeOK /\ Alone BY DEF IInv, LInv
<1>2. UNCHANGED <<pointer, sealed, chain, status, window, lease, up, leader,
                  active, held>> /\ UNCHANGED memory
  BY DEF TickStarts, HandleProposal, HandleNonceResponse, redisVars, lawVars,
         windowVars, memory, envVars
<1>3. leader[n]
  BY DEF TickStarts, HandleProposal, HandleNonceResponse
<1>4. \A m \in Nct : m # n => ~leader[m] BY <1>1, <1>3, OthersRest
<1>5. ASSUME NEW s, todo' = [todo EXCEPT ![n] = s], InOrder(s),
             \A c \in CommandsOf(s) : Timely(n, c)'
      PROVE  LInv'
  <2>1. \A m \in Nct : m # n => todo'[m] = todo[m] BY <1>1, <1>5 DEF TypeOK
  <2>2. Alone' BY <1>1, <1>2, <1>3, <2>1 DEF Alone
  <2> QED BY <1>2, <1>4, <1>5, <2>2, Starts
<1>6. CASE TickStarts(n)
  <2>1. \A c \in CommandsOf(Tick) : Plain(c)
    BY TickScript DEF Plain, Do, Command4
  <2>2. todo' = [todo EXCEPT ![n] = Tick] BY <1>6 DEF TickStarts, Start
  <2> QED BY <1>2, <1>5, <2>1, <2>2, TickScript, PlainTimely
<1>7. CASE HandleNonceResponse(n)
  <2>1. PICK w : w = active[n] OBVIOUS
  <2>2. w \in Window /\ w # 0
    BY <1>1, <1>7, <2>1 DEF HandleNonceResponse, TypeOK, Window
  <2>3. Saved(w) BY <2>1, <2>2 DEF IInv, PointersSaved
  <2>4. w = pointer BY <2>1, <2>2 DEF LInv, Memory
  <2>5. PICK a : a = OnWindow("try_seal_window", w) OBVIOUS
  <2>6. a.do = "try_seal_window" /\ a.win = w
    BY <2>5 DEF OnWindow, Command4
  <2>7. Timely(n, a)' BY <1>2, <2>4, <2>6 DEF Timely
  <2>8. todo' = [todo EXCEPT ![n] = <<a>>]
    BY <1>7, <2>1, <2>5 DEF HandleNonceResponse, Start
  <2>9. InOrder(<<a>>) /\ CommandsOf(<<a>>) = {a}
    BY <2>3, <2>5, NonceScript
  <2> QED BY <1>2, <1>5, <2>7, <2>8, <2>9
<1>8. CASE HandleProposal(n) /\ UNCHANGED todo
  <2>1. Alone' BY <1>1, <1>2, <1>8 DEF Alone
  <2> QED BY <1>2, <1>8, <2>1, Undisturbed
<1>9. CASE \E l \in Law : todo' = [todo EXCEPT ![n] = EnqueuePromulgacion(l)]
  <2>1. PICK l \in Law : todo' = [todo EXCEPT ![n] = EnqueuePromulgacion(l)]
    BY <1>9
  <2>2. \A c \in CommandsOf(EnqueuePromulgacion(l)) : Plain(c)
    BY PromulgacionScript DEF Plain, Do, OnLaw, Command4
  <2> QED BY <1>2, <1>5, <2>1, <2>2, PromulgacionScript, PlainTimely
<1>10. CASE \E l \in Law : todo' = [todo EXCEPT ![n] = EnqueueDerogacion(l)]
  <2>1. PICK l \in Law : todo' = [todo EXCEPT ![n] = EnqueueDerogacion(l)]
    BY <1>10
  <2>2. \A c \in CommandsOf(EnqueueDerogacion(l)) : Plain(c)
    BY DerogacionScript DEF Plain, Do, OnLaw, Command4
  <2> QED BY <1>2, <1>5, <2>1, <2>2, DerogacionScript, PlainTimely
<1>11. CASE todo' = [todo EXCEPT ![n] = <<Do("maybe_open_window"), Do("ack")>>]
  <2>1. \A c \in CommandsOf(<<Do("maybe_open_window"), Do("ack")>>) : Plain(c)
    BY RefusalScript DEF Plain, Do, Command4
  <2> QED BY <1>2, <1>5, <1>11, <2>1, RefusalScript, PlainTimely
<1>12. CASE HandleProposal(n)
  <2>1. \A m \in inbox : m.law \in Law
    BY <1>1, ConstantsAssumption DEF TypeOK, Proposal
  <2> QED BY <1>8, <1>9, <1>10, <1>11, <1>12, <2>1 DEF HandleProposal, Start
<1> QED BY <1>6, <1>7, <1>12

-----------------------------------------------------------------------------
\* Nothing happens before the first step.
LEMMA InitLInv == Init => LInv
<1> SUFFICES ASSUME Init PROVE LInv OBVIOUS
<1>1. Alone BY DEF Init, Alone
<1>2. \A n \in Nct : Left(n) = {} /\ InOrder(todo[n])
  BY DEF Init, Left, CommandsOf, InOrder
<1>3. Memory BY DEF Init, Memory
<1>4. Record BY DEF Init, Record, HasBlock, Blocks
<1>5. OneBlockPerWindow BY DEF Init, OneBlockPerWindow
<1>6. StatusIsLastVerdict BY DEF Init, StatusIsLastVerdict
<1> QED BY <1>1, <1>2, <1>3, <1>4, <1>5, <1>6 DEF LInv

\* Every step keeps it while no lease expires under a live leader.
LEMMA NextLInv == IInv /\ LInv /\ OneLeader' /\ [Next]_vars => LInv'
<1> SUFFICES ASSUME IInv, LInv, OneLeader', [Next]_vars PROVE LInv' OBVIOUS
<1>1. ASSUME NEW n \in Nct, Step(n)
      PROVE  LInv'
  <2>1. CASE QuietCommand(n) BY <2>1, QuietCommandKeeps
  <2>2. CASE MaybeOpenWindow(n) BY <2>2, MaybeOpenKeeps
  <2>3. CASE CheckDeliberation(n) BY <2>3, CheckDeliberationKeeps
  <2>4. CASE CheckDeadline(n) BY <2>4, CheckDeadlineKeeps
  <2>5. CASE RequeueIfStatus(n) BY <2>5, RequeueIfKeeps
  <2>6. CASE RecuperarDeliberacion(n) BY <2>6, RecuperarDeliberacionKeeps
  <2>7. CASE OpenWindowNumbered(n) BY <2>7, OpenWindowKeeps
  <2>8. CASE SaveWindow(n) BY <2>8, SaveWindowKeeps
  <2>9. CASE SetActiveWindow(n) BY <2>9, SetActiveWindowKeeps
  <2>10. CASE ClearActiveWindow(n) BY <2>10, ClearActiveWindowKeeps
  <2>11. CASE SetWindowResult(n) BY <2>11, SetWindowResultKeeps
  <2>12. CASE TrySealWindow(n) BY <2>12, TrySealKeeps
  <2>13. CASE ReleaseWindowSeal(n) BY <2>13, ReleaseWindowSealKeeps
  <2>14. CASE AppendBlock(n) BY <2>14, AppendKeeps
  <2>15. CASE SetLawStatus(n) BY <2>15, SetLawStatusKeeps
  <2>16. CASE SaveLaw(n) BY <2>16, SaveLawKeeps
  <2>17. CASE HoldDeliberation(n) BY <2>17, HoldKeeps
  <2>18. CASE ClearDeliberation(n) BY <2>18, ClearDeliberationKeeps
  <2>19. CASE RenewLeadership(n) BY <2>19, RenewKeeps
  <2>20. CASE RetomarVentana(n) BY <2>20, RetomarVentanaKeeps
  <2> QED
    BY <1>1, <2>1, <2>2, <2>3, <2>4, <2>5, <2>6, <2>7, <2>8, <2>9, <2>10,
       <2>11, <2>12, <2>13, <2>14, <2>15, <2>16, <2>17, <2>18, <2>19, <2>20
       DEF Step, QuietCommand
<1>2. CASE LeaseExpires BY <1>2, LeaseExpiresKeeps
<1>3. CASE \/ \E w \in Window : DeadlinePasses(w)
           \/ \E l \in Law : PauseEnds(l)
           \/ UNCHANGED vars
  BY <1>3, TimeKeeps
<1>4. ASSUME NEW n \in Nct, Boot(n) \/ Crash(n)
      PROVE  LInv'
  BY <1>4, RolesKeep
<1>5. ASSUME NEW n \in Nct,
             TickStarts(n) \/ HandleProposal(n) \/ HandleNonceResponse(n)
      PROVE  LInv'
  BY <1>5, HandlersKeep
<1>6. ASSUME NEW n \in Nct, BecomeLeader(n)
      PROVE  LInv'
  BY <1>6, BecomeLeaderKeeps
<1>7. ASSUME NEW n \in Nct, HandlerError(n)
      PROVE  LInv'
  BY <1>7, HandlerErrorKeeps
<1>8. ASSUME NEW n \in Nct,
             \/ RetomarVentanaFails(n) \/ RecuperarDeliberacionFails(n)
             \/ TrySealWindowTwice(n) \/ AppendBlockTwice(n)
      PROVE  LInv'
  BY <1>8, RetomarVentanaFailsKeeps, RecuperarDeliberacionKeeps, TrySealKeeps,
     AppendKeeps
<1> QED BY <1>1, <1>2, <1>3, <1>4, <1>5, <1>6, <1>7, <1>8 DEF Next

\* The invariant of one leader.
THEOREM LeaderInductive == Spec /\ []OneLeader => []LInv
BY InitLInv, NextLInv, Inductive, PTL DEF Spec

\* While one process leads at a time there is one activity at a time, whatever
\* crashes and Redis errors do: no process, and no two processes, believe in
\* two windows, or in a window and a deliberation.
THEOREM OneActivityAtATime == Spec /\ []OneLeader => []OneActivity
<1>1. IInv /\ LInv => OneActivity
  <2> SUFFICES ASSUME IInv, LInv, NEW m \in Nct, NEW n \in Nct
               PROVE  /\ active[m] # 0 /\ active[n] # 0
                           => active[m] = active[n]
                      /\ active[m] # 0 => held[n] = NoLaw
                      /\ held[m] # NoLaw /\ held[n] # NoLaw
                           => held[m] = held[n]
    BY DEF OneActivity
  <2>1. m # n => ~leader[m] \/ ~leader[n] BY DEF LInv, Alone
  <2> QED BY <2>1 DEF LInv, Alone, Memory
<1> QED BY <1>1, Inductive, LeaderInductive, PTL

\* A voting window has at most one block: a leader appends one only to the
\* window that is active and has none, and a takeover releases the seal of a
\* window only if the last block is not its own.
THEOREM OneBlockEach == Spec /\ []OneLeader => []OneBlockPerWindow
<1>1. LInv => OneBlockPerWindow BY DEF LInv
<1> QED BY <1>1, LeaderInductive, PTL

\* The status of a law is that of the last block about it: between a block and
\* the status it gives no other block comes.
THEOREM StatusIsTheLastVerdict == Spec /\ []OneLeader => []StatusIsLastVerdict
<1>1. LInv => StatusIsLastVerdict BY DEF LInv
<1> QED BY <1>1, LeaderInductive, PTL

-----------------------------------------------------------------------------
(* The invariant of one leader without Redis errors is kept *)

\* A command that says nothing of a seal or a result.
Harmless(c) ==
  c.do \notin {"release_window_seal", "append_block", "set_active_window",
               "set_window_result", "try_seal_window"}

\* A harmless command says nothing that could fail.
LEMMA HarmlessUndone ==
  ASSUME NEW n, NEW c, Harmless(c)
  PROVE  Undone(n, c)'
BY DEF Harmless, Undone

\* A step of the process that leads keeps the invariant.
LEMMA SealMove ==
  ASSUME IInv, LInv, EInv, NEW n \in Nct, NEW name, NEW new,
         Goes(n, name, new),
         name \in {"set_law_status", "remove_from_queue", "last_block_hash"}
           => UNCHANGED <<window, sealed>>,
         \A m \in Nct : m # n => active'[m] = active[m],
         \A c \in new : Undone(n, c)',
         StillOpen(n)', SavedFirst', SealedNeverExpires'
  PROVE  EInv'
<1>1. TypeOK /\ Alone /\ leader[n] BY AtLeads DEF IInv, LInv, Goes
<1>2. ASSUME NEW c \in Rest(n)
      PROVE  Undone(n, c)'
  <2>1. Undone(n, c) /\ MayFollow(c.do, name) /\ c.do \notin Opening
    BY RestOpensNothing DEF Goes, EInv
  <2>2. CASE c.do = "append_block"
    <3>1. name = "last_block_hash" BY <2>1, <2>2 DEF MayFollow
    <3> QED BY <2>1, <2>2, <3>1 DEF Undone, Undecided
  <2>3. CASE c.do = "set_active_window"
    <3>1. name \in {"set_law_status", "remove_from_queue"}
      BY <2>1, <2>3 DEF MayFollow
    <3> QED BY <2>1, <2>3, <3>1 DEF Undone, Undecided
  <2>4. CASE c.do \notin {"append_block", "set_active_window"}
    <3>1. Harmless(c) BY <2>1, <2>4 DEF Harmless, Opening
    <3> QED BY <3>1, HarmlessUndone
  <2> QED BY <2>2, <2>3, <2>4
<1>3. ASSUME NEW m \in Nct, m # n
      PROVE  StillOpen(m)' /\ \A c \in Left(m)' : Undone(m, c)'
  <2>1. todo'[m] = <<>> /\ active'[m] = 0
    BY <1>1, <1>3, OthersRest DEF Goes
  <2> QED BY <2>1 DEF StillOpen, Left, CommandsOf
<1>4. \A c \in Left(n)' : Undone(n, c)' BY <1>2 DEF Goes
<1> QED BY <1>3, <1>4 DEF EInv

\* Closing goes on until it is done.
LEMMA ClosingGoesOn ==
  ASSUME NEW n, NEW name, NEW new, Goes(n, name, new), Closing(n),
         name \notin {"clear_active_window", "append_block"}
  PROVE  Closing(n)'
BY RestOpensNothing DEF Goes, Closing, Has

\* At the start of a handler, or of one of these methods, nothing is closing.
LEMMA NotClosing ==
  ASSUME NEW n, NEW name, NEW new, Goes(n, name, new),
         name \in {"check_deadline", "try_seal_window"}
  PROVE  ~Closing(n)
<1>1. \A c \in Rest(n) : MayFollow(c.do, name) BY RestOpensNothing
<1>2. \A c \in Rest(n) : c.do \notin {"clear_active_window", "append_block"}
  BY <1>1 DEF MayFollow
<1> QED BY <1>2 DEF Goes, Closing, Has

\* What the windows keep when they do not change.
LEMMA WindowsKept ==
  ASSUME EInv, UNCHANGED <<window, sealed>>
  PROVE  SavedFirst' /\ SealedNeverExpires'
BY DEF EInv, SavedFirst, Saved, Undecided, SealedNeverExpires

\* A step that leaves windows and seals alone.
LEMMA SealQuiet ==
  ASSUME IInv, LInv, EInv, NEW n \in Nct, NEW name, NEW new,
         Goes(n, name, new), name \notin {"clear_active_window", "append_block"},
         UNCHANGED <<window, sealed, active>>,
         \A c \in new : Undone(n, c)'
  PROVE  EInv'
<1>1. SavedFirst' /\ SealedNeverExpires' BY WindowsKept
<1>2. StillOpen(n)' BY ClosingGoesOn DEF EInv, StillOpen, Undecided
<1> QED BY <1>1, <1>2, SealMove

\* The commands that are about neither a seal nor a result.
HarmlessCommand(n) ==
  \/ SetLawAction(n) \/ EnqueueLaw(n) \/ RemoveFromQueue(n) \/ SetCooldown(n)
  \/ PublishChallenge(n) \/ LastBlockHash(n) \/ SaveDeliberation(n)
  \/ Acknowledge(n) \/ SaveLaw(n) \/ SetLawStatus(n) \/ HoldDeliberation(n)
  \/ ClearDeliberation(n)

\* A harmless command keeps the invariant.
LEMMA HarmlessCommandSeals ==
  ASSUME IInv, LInv, EInv, NEW n \in Nct, HarmlessCommand(n)
  PROVE  EInv' /\ UNCHANGED window
<1>1. PICK name : /\ At(n, name)
                  /\ name \notin {"clear_active_window", "append_block"}
  BY DEF HarmlessCommand, SetLawAction, EnqueueLaw, RemoveFromQueue,
         SetCooldown, PublishChallenge, LastBlockHash, SaveDeliberation,
         Acknowledge, SaveLaw, SetLawStatus, HoldDeliberation,
         ClearDeliberation
<1>2. Done(n)
  BY DEF HarmlessCommand, SetLawAction, EnqueueLaw, RemoveFromQueue,
         SetCooldown, PublishChallenge, LastBlockHash, SaveDeliberation,
         Acknowledge, SaveLaw, SetLawStatus, HoldDeliberation,
         ClearDeliberation
<1>3. UNCHANGED <<window, sealed, active>>
  BY DEF HarmlessCommand, SetLawAction, EnqueueLaw, RemoveFromQueue,
         SetCooldown, PublishChallenge, LastBlockHash, SaveDeliberation,
         Acknowledge, SaveLaw, SetLawStatus, HoldDeliberation,
         ClearDeliberation, redisVars, windowVars, memory
<1>4. Goes(n, name, {})
  <2>1. TypeOK BY DEF IInv
  <2>2. InOrder(todo[n]) BY <1>1, AtLeads
  <2> QED BY <1>1, <1>2, <2>1, <2>2, DoneGoes
<1> QED BY <1>1, <1>3, <1>4, SealQuiet

\* The methods that close no window.
HarmlessMethod(n) ==
  \/ MaybeOpenWindow(n) \/ CheckDeliberation(n) \/ RequeueIfStatus(n)
  \/ RecuperarDeliberacion(n) \/ OpenWindowNumbered(n)

\* Such a method keeps the invariant.
LEMMA HarmlessMethodSeals ==
  ASSUME IInv, LInv, EInv, NEW n \in Nct, HarmlessMethod(n)
  PROVE  EInv' /\ UNCHANGED window
<1>1. InOrder(todo[n])
  BY AtLeads DEF HarmlessMethod, MaybeOpenWindow, CheckDeliberation,
     RequeueIfStatus, RecuperarDeliberacion, OpenWindowNumbered
<1>2. UNCHANGED <<window, sealed, active>>
  BY DEF HarmlessMethod, MaybeOpenWindow, CheckDeliberation, RequeueIfStatus,
     RecuperarDeliberacion, OpenWindowNumbered, redisVars, windowVars, memory
<1>3. ASSUME NEW name, NEW new, Goes(n, name, new),
             name \notin {"clear_active_window", "append_block"},
             \A c \in new : Harmless(c)
      PROVE  EInv' /\ UNCHANGED window
  BY <1>2, <1>3, HarmlessUndone, SealQuiet
<1>4. /\ Harmless(Do("maybe_open_window"))
      /\ Harmless(Do("clear_deliberation"))
  BY DEF Harmless, Do, Command4
<1>5. \A l : /\ Harmless(OnLaw("open_window", l))
             /\ Harmless(OnLaw("save_deliberation", l))
             /\ Harmless(OnLaw("remove_from_queue", l))
             /\ Harmless(OnLaw("hold", l)) /\ Harmless(OnLaw("enqueue_law", l))
  BY DEF Harmless, OnLaw, Command4
<1>6. \A l : /\ \A s : Harmless(SetStatus(l, s)) /\ Harmless(RequeueIf(l, s))
             /\ \A w, a : Harmless(SaveWindowCmd(w, l, a))
  BY DEF Harmless, SetStatus, RequeueIf, SaveWindowCmd, Command4
<1>7. CASE MaybeOpenWindow(n)
  <2>1. CASE Goes(n, "maybe_open_window", {}) BY <1>3, <2>1
  <2>2. ASSUME NEW l,
               \/ Goes(n, "maybe_open_window", {OnLaw("open_window", l)})
               \/ Goes(n, "maybe_open_window",
                       {OnLaw("save_deliberation", l),
                        SetStatus(l, "in_deliberation"),
                        OnLaw("remove_from_queue", l), OnLaw("hold", l)})
        PROVE  EInv' /\ UNCHANGED window
    BY <1>3, <1>5, <1>6, <2>2
  <2> QED BY <1>1, <1>2, <1>7, <2>1, <2>2, MaybeOpenGoes
<1>8. CASE CheckDeliberation(n)
  <2>1. CASE Goes(n, "check_deliberation", {}) BY <1>3, <2>1
  <2>2. ASSUME NEW l,
               \/ Goes(n, "check_deliberation",
                       {Do("clear_deliberation"), OnLaw("open_window", l)})
               \/ Goes(n, "check_deliberation",
                       {Do("clear_deliberation"), SetStatus(l, "discarded"),
                        Do("maybe_open_window")})
               \/ Goes(n, "check_deliberation",
                       {Do("clear_deliberation"),
                        SetStatus(l, "pending_queue"),
                        OnLaw("enqueue_law", l), Do("maybe_open_window")})
        PROVE  EInv' /\ UNCHANGED window
    BY <1>3, <1>4, <1>5, <1>6, <2>2
  <2> QED BY <1>1, <1>2, <1>8, <2>1, <2>2, CheckDeliberationGoes
<1>9. CASE RequeueIfStatus(n)
  <2>1. CASE Goes(n, "requeue_if", {}) BY <1>3, <2>1
  <2>2. ASSUME NEW l,
               Goes(n, "requeue_if",
                    {SetStatus(l, "pending_queue"), OnLaw("enqueue_law", l)})
        PROVE  EInv' /\ UNCHANGED window
    BY <1>3, <1>5, <1>6, <2>2
  <2> QED BY <1>1, <1>2, <1>9, <2>1, <2>2, RequeueIfGoes
<1>10. CASE RecuperarDeliberacion(n)
  <2>1. CASE Goes(n, "recuperar_deliberacion", {}) BY <1>3, <2>1
  <2>2. CASE Goes(n, "recuperar_deliberacion",
                  {Do("clear_deliberation"),
                   RequeueIf(delib, "in_deliberation")})
    BY <1>3, <1>4, <1>6, <2>2
  <2> QED BY <1>1, <1>2, <1>10, <2>1, <2>2, RecuperarDeliberacionGoes
<1>11. CASE OpenWindowNumbered(n)
  <2>1. Goes(n, "open_window",
             {SaveWindowCmd(counter + 1, Cmd(n).law, action[Cmd(n).law])})
    BY <1>1, <1>11, OpenWindowGoes
  <2>2. Harmless(SaveWindowCmd(counter + 1, Cmd(n).law, action[Cmd(n).law]))
    BY <1>6
  <2> QED BY <1>2, <1>3, <2>1, <2>2
<1> QED BY <1>7, <1>8, <1>9, <1>10, <1>11 DEF HarmlessMethod

\* A window that expires is one nobody sealed.
LEMMA CheckDeadlineSeals ==
  ASSUME IInv, LInv, EInv, NEW n \in Nct, CheckDeadline(n)
  PROVE  EInv'
<1>1. InOrder(todo[n]) BY AtLeads DEF CheckDeadline
<1>2. UNCHANGED <<window, sealed, active>>
  BY DEF CheckDeadline, redisVars, windowVars, memory
<1>3. CASE Goes(n, "check_deadline", {})
  BY <1>2, <1>3, SealQuiet
<1>4. ASSUME NEW w \in Window, active[n] = w, NEW r, NEW new,
             Goes(n, "check_deadline", new),
             \A c \in new : c = SetResult(w, r) \/ Harmless(c),
             Do("clear_active_window") \in new
      PROVE  EInv'
  <2>1. w \notin sealed /\ Undecided(w)
    <3>1. ~Closing(n) BY <1>4, NotClosing
    <3>2. w # 0 BY <1>4 DEF Window
    <3> QED BY <1>4, <3>1, <3>2 DEF EInv, StillOpen
  <2>2. Has(n, "clear_active_window")'
    <3>1. Do("clear_active_window").do = "clear_active_window"
      BY DEF Do, Command4
    <3> QED BY <1>4, <3>1 DEF Goes, Has
  <2>3. ASSUME NEW c \in new
        PROVE  Undone(n, c)'
    <3>1. CASE c = SetResult(w, r)
      <4>1. c.do = "set_window_result" /\ c.win = w
        BY <3>1 DEF SetResult, Command4
      <4> QED BY <1>2, <2>1, <2>2, <4>1 DEF Undone, Undecided
    <3>2. CASE Harmless(c) BY <3>2, HarmlessUndone
    <3> QED BY <1>4, <3>1, <3>2
  <2> QED BY <1>2, <1>4, <2>3, SealQuiet
<1>5. /\ Harmless(Do("clear_active_window"))
      /\ Harmless(Do("maybe_open_window"))
      /\ \A l, s : Harmless(SetStatus(l, s))
      /\ \A l : Harmless(OnLaw("enqueue_law", l))
  BY DEF Harmless, Do, SetStatus, OnLaw, Command4
<1>6. ASSUME NEW w \in Window, active[n] = w, NEW l,
             Goes(n, "check_deadline",
                  {SetResult(w, "expired_pending"), SetStatus(l, "discarded"),
                   Do("clear_active_window"), Do("maybe_open_window")})
      PROVE  EInv'
  BY <1>4, <1>5, <1>6
<1>7. ASSUME NEW w \in Window, active[n] = w, NEW l,
             Goes(n, "check_deadline",
                  {SetResult(w, "expired_no_quorum"),
                   SetStatus(l, "pending_queue"), OnLaw("enqueue_law", l),
                   Do("clear_active_window"), Do("maybe_open_window")})
      PROVE  EInv'
  BY <1>4, <1>5, <1>7
<1> QED BY <1>1, <1>3, <1>6, <1>7, CheckDeadlineGoes

\* A takeover closes, or takes over, only a window without a result.
LEMMA RetomarVentanaSeals ==
  ASSUME IInv, LInv, EInv, NEW n \in Nct, RetomarVentana(n)
  PROVE  EInv'
<1>1. InOrder(todo[n]) BY AtLeads DEF RetomarVentana
<1>2. UNCHANGED <<window, sealed, pointer>>
  BY DEF RetomarVentana, redisVars, windowVars
<1>3. CASE UNCHANGED active /\ Goes(n, "retomar_ventana", {})
  BY <1>2, <1>3, SealQuiet
<1>4. CASE /\ UNCHANGED active
           /\ Goes(n, "retomar_ventana", {Do("clear_active_window")})
  <2>1. Harmless(Do("clear_active_window")) BY DEF Harmless, Do, Command4
  <2> QED BY <1>2, <1>4, <2>1, HarmlessUndone, SealQuiet
<1>5. CASE /\ ~Closed(pointer) /\ UNCHANGED active
           /\ Goes(n, "retomar_ventana",
                   {SetResult(pointer, "success"),
                    SetStatus(window[pointer].law, Verdict(pointer)),
                    Do("clear_active_window")})
  <2>1. PICK a, b, c :
          /\ a = SetResult(pointer, "success")
          /\ b = SetStatus(window[pointer].law, Verdict(pointer))
          /\ c = Do("clear_active_window")
    OBVIOUS
  <2>2. /\ a.do = "set_window_result" /\ a.win = pointer /\ a.arg = "success"
        /\ b.do = "set_law_status" /\ c.do = "clear_active_window"
    BY <2>1 DEF Do, SetResult, SetStatus, Command4
  <2>3. Has(n, "clear_active_window")' BY <1>5, <2>1, <2>2 DEF Goes, Has
  <2>4. Undone(n, a)'
    BY <1>2, <1>5, <2>2, <2>3 DEF Undone, Undecided, Closed
  <2>5. Harmless(b) /\ Harmless(c) BY <2>2 DEF Harmless
  <2> QED BY <1>2, <1>5, <2>1, <2>4, <2>5, HarmlessUndone, SealQuiet
<1>6. CASE /\ ~Closed(pointer) /\ UNCHANGED active
           /\ Goes(n, "retomar_ventana",
                   {OnWindow("release_window_seal", pointer)})
  <2>1. PICK a : a = OnWindow("release_window_seal", pointer) OBVIOUS
  <2>2. a.do = "release_window_seal" /\ a.win = pointer
    BY <2>1 DEF OnWindow, Command4
  <2>3. Undone(n, a)' BY <1>2, <1>6, <2>2 DEF Undone, Undecided, Closed
  <2> QED BY <1>2, <1>6, <2>1, <2>3, SealQuiet
<1>7. CASE /\ ~Closed(pointer) /\ pointer \notin sealed
           /\ active' = [active EXCEPT ![n] = pointer]
           /\ Goes(n, "retomar_ventana", {})
  <2>1. active'[n] = pointer /\ \A m \in Nct : m # n => active'[m] = active[m]
    BY <1>7 DEF IInv, TypeOK
  <2>2. StillOpen(n)' BY <1>2, <1>7, <2>1 DEF StillOpen, Undecided, Closed
  <2>3. SavedFirst' /\ SealedNeverExpires' BY <1>2, WindowsKept
  <2> QED BY <1>2, <1>7, <2>1, <2>2, <2>3, SealMove
<1> QED BY <1>1, <1>3, <1>4, <1>5, <1>6, <1>7, RetomarVentanaGoes

\* A window is saved without a seal and without a result.
LEMMA SaveWindowSeals ==
  ASSUME IInv, LInv, EInv, NEW n \in Nct, SaveWindow(n)
  PROVE  EInv'
<1>1. InOrder(todo[n]) BY AtLeads DEF SaveWindow
<1>2. UNCHANGED <<sealed, active>> BY DEF SaveWindow, memory
<1>3. PICK l, w : l = Cmd(n).law /\ w = Cmd(n).win OBVIOUS
<1>4. /\ l \in Law /\ w \in Window /\ ~Saved(w)
      /\ Goes(n, "save_window",
              {SetStatus(l, "in_window"), OnLaw("remove_from_queue", l),
               OnWindow("set_active_window", w),
               OnWindow("publish_challenge", w)})
  BY <1>1, <1>3, SaveWindowGoes
<1>5. /\ window'[w].law = l /\ window'[w].result = "open"
      /\ \A v \in Window : v # w => window'[v] = window[v]
  BY <1>3, <1>4 DEF SaveWindow, IInv, TypeOK
<1>6. w \notin sealed BY <1>4 DEF EInv, SavedFirst
<1>7. PICK a, b, c, d :
        /\ a = SetStatus(l, "in_window") /\ b = OnLaw("remove_from_queue", l)
        /\ c = OnWindow("set_active_window", w)
        /\ d = OnWindow("publish_challenge", w)
  OBVIOUS
<1>8. /\ a.do = "set_law_status" /\ b.do = "remove_from_queue"
      /\ c.do = "set_active_window" /\ c.win = w
      /\ d.do = "publish_challenge"
  BY <1>7 DEF OnLaw, OnWindow, SetStatus, Command4
<1>9. Undone(n, c)' BY <1>2, <1>5, <1>6, <1>8 DEF Undone, Undecided
<1>10. Harmless(a) /\ Harmless(b) /\ Harmless(d) BY <1>8 DEF Harmless
<1>11. Goes(n, "save_window", {a, b, c, d}) BY <1>4, <1>7
<1>12. StillOpen(n)'
  <2>1. active[n] # 0 => active[n] \in Window /\ active[n] # w
    BY <1>4 DEF IInv, PointersSaved, Saved
  <2>2. Closing(n) => Closing(n)' BY <1>11, ClosingGoesOn
  <2> QED BY <1>2, <1>5, <2>1, <2>2 DEF EInv, StillOpen, Undecided
<1>13. SavedFirst'
  <2>1. \A v \in Window : Saved(v)' <=> Saved(v) \/ v = w
    BY <1>4, <1>5 DEF Saved
  <2>2. \A v \in Window : ~Saved(v)' => Undecided(v)'
    BY <1>5, <2>1 DEF EInv, SavedFirst, Undecided
  <2>3. \A v \in sealed : Saved(v) /\ v \in Window
    BY DEF EInv, SavedFirst, Saved
  <2> QED BY <1>2, <2>1, <2>2, <2>3 DEF SavedFirst
<1>14. SealedNeverExpires'
  <2>1. \A v \in sealed : v \in Window /\ v # w
    BY <1>6 DEF EInv, SavedFirst, Saved
  <2> QED BY <1>2, <1>5, <2>1 DEF EInv, SealedNeverExpires
<1>15. \A x \in {a, b, c, d} : Undone(n, x)'
  BY <1>9, <1>10, HarmlessUndone
<1> QED BY <1>2, <1>11, <1>12, <1>13, <1>14, <1>15, SealMove

\* The result of a window that had none, and that is sealed only if the result
\* is success.
LEMMA SetWindowResultSeals ==
  ASSUME IInv, LInv, EInv, NEW n \in Nct, SetWindowResult(n)
  PROVE  /\ EInv'
         /\ Undecided(Cmd(n).win) /\ Cmd(n).win \in Window
         /\ Cmd(n).win \in sealed => Cmd(n).arg = "success"
<1>1. InOrder(todo[n]) BY AtLeads DEF SetWindowResult
<1>2. UNCHANGED <<sealed, active>> BY DEF SetWindowResult, memory
<1>3. TypeOK /\ TodoOK /\ At(n, "set_window_result") /\ Done(n)
  BY DEF IInv, SetWindowResult
<1>4. Goes(n, "set_window_result", {}) BY <1>1, <1>3, DoneGoes
<1>5. PICK w, r : w = Cmd(n).win /\ r = Cmd(n).arg OBVIOUS
<1>6. Saved(w)
  BY <1>3, <1>5, HeadJustified
     DEF JustifiedCommand, Justified, WindowCommand, At, Cmd
<1>7. Undone(n, Cmd(n)) /\ Cmd(n).do = "set_window_result"
  BY <1>4, RestOpensNothing DEF EInv
<1>8. /\ Undecided(w) /\ (r # "success" => w \notin sealed)
      /\ Has(n, "clear_active_window")
  BY <1>5, <1>7 DEF Undone
<1>9. /\ window'[w].result = r
      /\ \A v \in Window : /\ window'[v].law = window[v].law
                           /\ v # w => window'[v] = window[v]
  BY <1>3, <1>5, <1>6 DEF SetWindowResult, TypeOK, WindowRecord, Saved
<1>10. StillOpen(n)'
  <2>1. Closing(n)' BY <1>4, <1>8, ClosingGoesOn DEF Closing
  <2> QED BY <2>1 DEF StillOpen
<1>11. SavedFirst'
  <2>1. \A v \in Window : Saved(v)' <=> Saved(v) BY <1>9 DEF Saved
  <2>2. \A v \in Window : ~Saved(v)' => Undecided(v)'
    BY <1>6, <1>9, <2>1 DEF EInv, SavedFirst, Undecided
  <2>3. \A v \in sealed : Saved(v) /\ v \in Window
    BY DEF EInv, SavedFirst, Saved
  <2> QED BY <1>2, <2>1, <2>2, <2>3 DEF SavedFirst
<1>12. SealedNeverExpires'
  <2>1. \A v \in sealed : v \in Window BY DEF EInv, SavedFirst, Saved
  <2> QED BY <1>2, <1>8, <1>9, <2>1 DEF EInv, SealedNeverExpires
<1> QED BY <1>2, <1>4, <1>5, <1>6, <1>8, <1>10, <1>11, <1>12, SealMove
        DEF Saved

\* The window that becomes the active one is open; that which was is no one's.
LEMMA PointerSeals ==
  ASSUME IInv, LInv, EInv, NEW n \in Nct,
         SetActiveWindow(n) \/ ClearActiveWindow(n)
  PROVE  EInv'
<1>1. InOrder(todo[n]) BY AtLeads DEF SetActiveWindow, ClearActiveWindow
<1>2. UNCHANGED <<window, sealed>> BY DEF SetActiveWindow, ClearActiveWindow
<1>3. TypeOK BY DEF IInv
<1>4. SavedFirst' /\ SealedNeverExpires' BY <1>2, WindowsKept
<1>5. \A m \in Nct : m # n => active'[m] = active[m]
  BY <1>3 DEF SetActiveWindow, ClearActiveWindow, TypeOK
<1>6. CASE SetActiveWindow(n)
  <2>1. Goes(n, "set_active_window", {})
    BY <1>1, <1>3, <1>6, DoneGoes DEF SetActiveWindow
  <2>2. Undone(n, Cmd(n)) /\ Cmd(n).do = "set_active_window"
    BY <2>1, RestOpensNothing DEF EInv
  <2>3. Undecided(Cmd(n).win) /\ Cmd(n).win \notin sealed
    BY <2>2 DEF Undone
  <2>4. active'[n] = Cmd(n).win BY <1>3, <1>6 DEF SetActiveWindow, TypeOK
  <2>5. StillOpen(n)' BY <1>2, <2>3, <2>4 DEF StillOpen, Undecided
  <2> QED BY <1>2, <1>4, <1>5, <2>1, <2>5, SealMove
<1>7. CASE ClearActiveWindow(n)
  <2>1. Goes(n, "clear_active_window", {})
    BY <1>1, <1>3, <1>7, DoneGoes DEF ClearActiveWindow
  <2>2. active'[n] = 0 BY <1>3, <1>7 DEF ClearActiveWindow, TypeOK
  <2>3. StillOpen(n)' BY <2>2 DEF StillOpen
  <2> QED BY <1>2, <1>4, <1>5, <2>1, <2>3, SealMove
<1> QED BY <1>6, <1>7

\* A window that is sealed has no result, and its closing begins.
LEMMA TrySealSeals ==
  ASSUME IInv, LInv, EInv, NEW n \in Nct, TrySealWindow(n)
  PROVE  EInv'
<1>1. InOrder(todo[n]) BY AtLeads DEF TrySealWindow
<1>2. UNCHANGED <<window, active>> BY DEF TrySealWindow, memory
<1>3. PICK w : w = Cmd(n).win OBVIOUS
<1>4. Saved(w) BY <1>1, <1>3, TrySealGoes
<1>5. CASE UNCHANGED sealed /\ Goes(n, "try_seal_window", {})
  BY <1>2, <1>5, SealQuiet
<1>6. ASSUME sealed' = sealed \cup {w}, NEW new,
             Goes(n, "try_seal_window", new)
      PROVE  Undecided(w) /\ SavedFirst' /\ SealedNeverExpires'
  <2>1. Undone(n, Cmd(n)) /\ Cmd(n).do = "try_seal_window"
    BY <1>6, RestOpensNothing DEF EInv
  <2>2. w = active[n] /\ w # 0
    BY <1>3, <1>4, <2>1 DEF Undone, Saved, Window
  <2>3. ~Closing(n) BY <1>6, NotClosing
  <2>4. Undecided(w) BY <2>2, <2>3 DEF EInv, StillOpen
  <2>5. SavedFirst'
    BY <1>2, <1>4, <1>6 DEF EInv, SavedFirst, Saved, Undecided
  <2>6. SealedNeverExpires'
    BY <1>2, <1>6, <2>4 DEF EInv, SealedNeverExpires, Undecided
  <2> QED BY <2>4, <2>5, <2>6
<1>7. CASE /\ sealed' = sealed \cup {w}
           /\ Goes(n, "try_seal_window",
                   {Do("last_block_hash"), OnWindow("append_block", w)})
  <2>1. PICK a, b :
          a = Do("last_block_hash") /\ b = OnWindow("append_block", w)
    OBVIOUS
  <2>2. a.do = "last_block_hash" /\ b.do = "append_block" /\ b.win = w
    BY <2>1 DEF Do, OnWindow, Command4
  <2>3. Undecided(w) /\ SavedFirst' /\ SealedNeverExpires' BY <1>6, <1>7
  <2>4. Undone(n, b)' BY <1>2, <2>2, <2>3 DEF Undone, Undecided
  <2>5. Undone(n, a)' BY <2>2, HarmlessUndone DEF Harmless
  <2>6. Closing(n)' BY <1>7, <2>1, <2>2 DEF Goes, Closing, Has
  <2>7. StillOpen(n)' BY <2>6 DEF StillOpen
  <2> QED BY <1>2, <1>7, <2>1, <2>3, <2>4, <2>5, <2>7, SealMove
<1>8. ~TrySealWindowTwice(n) \/ UNCHANGED errors
  BY DEF TrySealWindow, envVars
<1>9. CASE TrySealWindowTwice(n)
  <2>1. FALSE
    BY <1>8, <1>9 DEF TrySealWindowTwice, IInv, TypeOK
  <2> QED BY <2>1
<1> QED BY <1>1, <1>3, <1>5, <1>7, <1>9, TrySealGoes

\* A window that is released has no result.
LEMMA ReleaseSeals ==
  ASSUME IInv, LInv, EInv, NEW n \in Nct, ReleaseWindowSeal(n)
  PROVE  EInv'
<1>1. InOrder(todo[n]) BY AtLeads DEF ReleaseWindowSeal
<1>2. UNCHANGED window BY DEF ReleaseWindowSeal
<1>3. PICK w : w = Cmd(n).win OBVIOUS
<1>4. TypeOK /\ At(n, "release_window_seal") /\ Done(n)
  BY DEF IInv, ReleaseWindowSeal
<1>5. Goes(n, "release_window_seal", {}) BY <1>1, <1>4, DoneGoes
<1>6. /\ sealed' = sealed \ {w} /\ active'[n] = w
      /\ \A m \in Nct : m # n => active'[m] = active[m]
  BY <1>3, <1>4 DEF ReleaseWindowSeal, TypeOK
<1>7. Undone(n, Cmd(n)) /\ Cmd(n).do = "release_window_seal"
  BY <1>5, RestOpensNothing DEF EInv
<1>8. Undecided(w) BY <1>3, <1>7 DEF Undone
<1>9. StillOpen(n)' BY <1>2, <1>6, <1>8 DEF StillOpen, Undecided
<1>10. SavedFirst' /\ SealedNeverExpires'
  BY <1>2, <1>6
     DEF EInv, SavedFirst, Saved, Undecided, SealedNeverExpires
<1> QED BY <1>5, <1>6, <1>9, <1>10, SealMove

\* A window is closed, or given up, after its block was appended or refused.
LEMMA AppendSeals ==
  ASSUME IInv, LInv, EInv, NEW n \in Nct, AppendBlock(n)
  PROVE  EInv'
<1>1. InOrder(todo[n]) BY AtLeads DEF AppendBlock
<1>2. UNCHANGED <<window, sealed, active>>
  BY DEF AppendBlock, windowVars, memory
<1>3. PICK w, l : w = Cmd(n).win /\ l = window[Cmd(n).win].law OBVIOUS
<1>4. SavedFirst' /\ SealedNeverExpires' BY <1>2, WindowsKept
<1>5. ASSUME NEW new, Goes(n, "append_block", new),
             Do("clear_active_window") \in new, \A c \in new : Undone(n, c)'
      PROVE  EInv'
  <2>1. Do("clear_active_window").do = "clear_active_window"
    BY DEF Do, Command4
  <2>2. Closing(n)' BY <1>5, <2>1 DEF Goes, Closing, Has
  <2>3. StillOpen(n)' BY <2>2 DEF StillOpen
  <2> QED BY <1>2, <1>4, <1>5, <2>3, SealMove
<1>6. CASE Goes(n, "append_block",
                {SetResult(w, "success"), SetStatus(l, Verdict(w)),
                 Do("clear_active_window"), Do("maybe_open_window")})
  <2>1. PICK a, b, c, d :
          /\ a = SetResult(w, "success") /\ b = SetStatus(l, Verdict(w))
          /\ c = Do("clear_active_window") /\ d = Do("maybe_open_window")
    OBVIOUS
  <2>2. /\ a.do = "set_window_result" /\ a.win = w /\ a.arg = "success"
        /\ b.do = "set_law_status" /\ c.do = "clear_active_window"
        /\ d.do = "maybe_open_window"
    BY <2>1 DEF Do, SetResult, SetStatus, Command4
  <2>3. Undone(n, Cmd(n)) /\ Cmd(n).do = "append_block"
    BY <1>6, RestOpensNothing DEF EInv
  <2>4. Undecided(w) BY <1>3, <2>3 DEF Undone
  <2>5. Has(n, "clear_active_window")' BY <1>6, <2>1, <2>2 DEF Goes, Has
  <2>6. Undone(n, a)' BY <1>2, <2>2, <2>4, <2>5 DEF Undone, Undecided
  <2>7. Harmless(b) /\ Harmless(c) /\ Harmless(d) BY <2>2 DEF Harmless
  <2> QED BY <1>5, <1>6, <2>1, <2>6, <2>7, HarmlessUndone
<1>7. CASE Goes(n, "append_block",
                {SetStatus(l, "pending_queue"), OnLaw("enqueue_law", l),
                 Do("clear_active_window"), Do("maybe_open_window")})
  <2>1. PICK a, b, c, d :
          /\ a = SetStatus(l, "pending_queue") /\ b = OnLaw("enqueue_law", l)
          /\ c = Do("clear_active_window") /\ d = Do("maybe_open_window")
    OBVIOUS
  <2>2. /\ a.do = "set_law_status" /\ b.do = "enqueue_law"
        /\ c.do = "clear_active_window" /\ d.do = "maybe_open_window"
    BY <2>1 DEF Do, OnLaw, SetStatus, Command4
  <2>3. Harmless(a) /\ Harmless(b) /\ Harmless(c) /\ Harmless(d)
    BY <2>2 DEF Harmless
  <2> QED BY <1>5, <1>7, <2>1, <2>3, HarmlessUndone
<1> QED BY <1>1, <1>3, <1>6, <1>7, AppendGoes

\* What changes neither windows nor seals, and leaves each process what it had
\* or nothing.
LEMMA SealsUndisturbed ==
  ASSUME EInv, UNCHANGED <<window, sealed>>,
         \A m \in Nct : \/ /\ todo'[m] = todo[m] /\ active'[m] = active[m]
                        \/ /\ todo'[m] = <<>> /\ active'[m] = 0
  PROVE  EInv'
<1>1. SavedFirst' /\ SealedNeverExpires' BY WindowsKept
<1>2. ASSUME NEW m \in Nct
      PROVE  StillOpen(m)' /\ \A c \in Left(m)' : Undone(m, c)'
  <2>1. CASE todo'[m] = todo[m] /\ active'[m] = active[m]
    <3>1. Left(m)' = Left(m) BY <2>1 DEF Left
    <3>2. \A name : Has(m, name)' <=> Has(m, name) BY <3>1 DEF Has
    <3>3. StillOpen(m) /\ \A c \in Left(m) : Undone(m, c) BY DEF EInv
    <3> QED BY <2>1, <3>1, <3>2, <3>3
            DEF StillOpen, Closing, Undone, Undecided
  <2>2. CASE todo'[m] = <<>> /\ active'[m] = 0
    BY <2>2 DEF StillOpen, Left, CommandsOf
  <2> QED BY <2>1, <2>2
<1> QED BY <1>1, <1>2 DEF EInv

\* A handler that starts knows nothing of the window but that it is open.
LEMMA StartSeals ==
  ASSUME IInv, LInv, EInv, NEW n \in Nct, NEW s, todo[n] = <<>>,
         todo' = [todo EXCEPT ![n] = s], UNCHANGED <<window, sealed, active>>,
         \A c \in CommandsOf(s) : Undone(n, c)'
  PROVE  EInv'
<1>1. SavedFirst' /\ SealedNeverExpires' BY WindowsKept
<1>2. \A m \in Nct : todo'[m] = IF m = n THEN s ELSE todo[m]
  BY DEF IInv, TypeOK
<1>3. ASSUME NEW m \in Nct, m # n
      PROVE  StillOpen(m)' /\ \A c \in Left(m)' : Undone(m, c)'
  <2>1. Left(m)' = Left(m) BY <1>2, <1>3 DEF Left
  <2>2. \A name : Has(m, name)' <=> Has(m, name) BY <2>1 DEF Has
  <2>3. StillOpen(m) /\ \A c \in Left(m) : Undone(m, c) BY DEF EInv
  <2> QED BY <2>1, <2>2, <2>3 DEF StillOpen, Closing, Undone, Undecided
<1>4. StillOpen(n)'
  <2>1. ~Closing(n) BY DEF Closing, Has, Left, CommandsOf
  <2> QED BY <2>1 DEF EInv, StillOpen, Undecided
<1>5. \A c \in Left(n)' : Undone(n, c)' BY <1>2 DEF Left
<1> QED BY <1>1, <1>3, <1>4, <1>5 DEF EInv

\* What starts a handler keeps the invariant.
LEMMA HandlersSeal ==
  ASSUME IInv, LInv, EInv, NEW n \in Nct,
         \/ BecomeLeader(n) \/ TickStarts(n) \/ HandleProposal(n)
         \/ HandleNonceResponse(n)
  PROVE  EInv'
<1>1. UNCHANGED <<window, sealed, active>> /\ todo[n] = <<>>
  BY DEF BecomeLeader, TickStarts, HandleProposal, HandleNonceResponse, Idle,
         redisVars, windowVars, memory
<1>2. ASSUME NEW s, todo' = [todo EXCEPT ![n] = s],
             \A c \in CommandsOf(s) : Harmless(c)
      PROVE  EInv'
  BY <1>1, <1>2, HarmlessUndone, StartSeals
<1>3. CASE BecomeLeader(n)
  <2>1. \A c \in CommandsOf(Takeover) : Harmless(c)
    BY TakeoverScript DEF Harmless, Do, Command4
  <2> QED BY <1>2, <1>3, <2>1 DEF BecomeLeader, Start
<1>4. CASE TickStarts(n)
  <2>1. \A c \in CommandsOf(Tick) : Harmless(c)
    BY TickScript DEF Harmless, Do, Command4
  <2> QED BY <1>2, <1>4, <2>1 DEF TickStarts, Start
<1>5. CASE HandleNonceResponse(n)
  <2>1. PICK w : w = active[n] OBVIOUS
  <2>2. PICK a : a = OnWindow("try_seal_window", w) OBVIOUS
  <2>3. a.do = "try_seal_window" /\ a.win = w
    BY <2>2 DEF OnWindow, Command4
  <2>4. Undone(n, a)' BY <1>1, <2>1, <2>3 DEF Undone
  <2>5. todo' = [todo EXCEPT ![n] = <<a>>]
    BY <1>5, <2>1, <2>2 DEF HandleNonceResponse, Start
  <2>6. CommandsOf(<<a>>) = {a} BY DEF CommandsOf
  <2> QED BY <1>1, <2>4, <2>5, <2>6, StartSeals
<1>6. CASE HandleProposal(n)
  <2>1. \A l \in Law : /\ \A c \in CommandsOf(EnqueuePromulgacion(l)) : Harmless(c)
                       /\ \A c \in CommandsOf(EnqueueDerogacion(l)) : Harmless(c)
    BY PromulgacionScript, DerogacionScript DEF Harmless, Do, OnLaw, Command4
  <2>2. \A c \in CommandsOf(<<Do("maybe_open_window"), Do("ack")>>) :
          Harmless(c)
    BY RefusalScript DEF Harmless, Do, Command4
  <2>3. CASE UNCHANGED todo BY <1>1, <2>3, SealsUndisturbed
  <2>4. CASE \E l \in Law : todo' = [todo EXCEPT ![n] = EnqueuePromulgacion(l)]
    BY <1>2, <2>1, <2>4
  <2>5. CASE \E l \in Law : todo' = [todo EXCEPT ![n] = EnqueueDerogacion(l)]
    BY <1>2, <2>1, <2>5
  <2>6. CASE todo' = [todo EXCEPT ![n] = <<Do("maybe_open_window"), Do("ack")>>]
    BY <1>2, <2>2, <2>6
  <2>7. \A m \in inbox : m.law \in Law
    BY ConstantsAssumption DEF IInv, TypeOK, Proposal
  <2> QED BY <1>6, <2>3, <2>4, <2>5, <2>6, <2>7 DEF HandleProposal, Start
<1> QED BY <1>3, <1>4, <1>5, <1>6

\* What is not a command of a handler keeps the invariant.
LEMMA OthersSeal ==
  ASSUME IInv, LInv, EInv,
         \/ LeaseExpires \/ UNCHANGED vars
         \/ \E w \in Window : DeadlinePasses(w)
         \/ \E l \in Law : PauseEnds(l)
         \/ \E n \in Nct : Boot(n) \/ Crash(n) \/ RenewLeadership(n)
  PROVE  EInv'
<1> USE DEF redisVars, lawVars, windowVars, memory, envVars, vars
<1>1. CASE \/ LeaseExpires \/ UNCHANGED vars
           \/ \E w \in Window : DeadlinePasses(w)
           \/ \E l \in Law : PauseEnds(l)
           \/ \E n \in Nct : Boot(n)
  <2>1. UNCHANGED <<window, sealed, todo, active>>
    BY <1>1 DEF LeaseExpires, DeadlinePasses, PauseEnds, Boot
  <2> QED BY <2>1, SealsUndisturbed
<1>2. ASSUME NEW n \in Nct, Crash(n)
      PROVE  EInv'
  <2>1. UNCHANGED <<window, sealed>> BY <1>2 DEF Crash
  <2>2. \A m \in Nct : \/ todo'[m] = todo[m] /\ active'[m] = active[m]
                       \/ todo'[m] = <<>> /\ active'[m] = 0
    BY <1>2 DEF Crash, IInv, TypeOK
  <2> QED BY <2>1, <2>2, SealsUndisturbed
<1>3. ASSUME NEW n \in Nct, RenewLeadership(n)
      PROVE  EInv'
  <2>1. InOrder(todo[n]) BY <1>3, AtLeads DEF RenewLeadership
  <2>2. TypeOK /\ At(n, "renew_leadership") /\ Done(n)
    BY <1>3 DEF IInv, RenewLeadership
  <2>3. Goes(n, "renew_leadership", {}) BY <2>1, <2>2, DoneGoes
  <2>4. UNCHANGED <<window, sealed>> BY <1>3 DEF RenewLeadership
  <2>5. UNCHANGED active BY <1>3, RenewKeeps
  <2> QED BY <2>3, <2>4, <2>5, SealQuiet
<1> QED BY <1>1, <1>2, <1>3

-----------------------------------------------------------------------------
\* No window is sealed or saved before the first step.
LEMMA InitEInv == Init => EInv
<1> SUFFICES ASSUME Init PROVE EInv OBVIOUS
<1>1. \A n \in Nct : Left(n) = {} /\ StillOpen(n)
  BY DEF Init, Left, CommandsOf, StillOpen
<1>2. SavedFirst
  BY DEF Init, SavedFirst, Undecided, NoWindow
<1>3. SealedNeverExpires BY DEF Init, SealedNeverExpires
<1> QED BY <1>1, <1>2, <1>3 DEF EInv

\* A Redis error is counted.
LEMMA ErrorsAreCounted ==
  ASSUME TypeOK, NoErrors', NEW n \in Nct,
         \/ HandlerError(n) \/ RetomarVentanaFails(n)
         \/ RecuperarDeliberacionFails(n) \/ TrySealWindowTwice(n)
         \/ AppendBlockTwice(n)
  PROVE  FALSE
<1>1. errors' = errors + 1
  BY DEF HandlerError, RetomarVentanaFails, RecuperarDeliberacionFails,
         TrySealWindowTwice, AppendBlockTwice
<1> QED BY <1>1 DEF TypeOK, NoErrors

\* Every step keeps it while no lease expires under a live leader and no Redis
\* command fails.
LEMMA NextEInv == IInv /\ LInv /\ EInv /\ NoErrors' /\ [Next]_vars => EInv'
<1> SUFFICES ASSUME IInv, LInv, EInv, NoErrors', [Next]_vars PROVE EInv'
  OBVIOUS
<1>1. ASSUME NEW n \in Nct, Step(n)
      PROVE  EInv'
  <2>1. CASE HarmlessCommand(n) BY <2>1, HarmlessCommandSeals
  <2>2. CASE HarmlessMethod(n) BY <2>2, HarmlessMethodSeals
  <2>3. CASE CheckDeadline(n) BY <2>3, CheckDeadlineSeals
  <2>4. CASE RetomarVentana(n) BY <2>4, RetomarVentanaSeals
  <2>5. CASE SaveWindow(n) BY <2>5, SaveWindowSeals
  <2>6. CASE SetWindowResult(n) BY <2>6, SetWindowResultSeals
  <2>7. CASE SetActiveWindow(n) \/ ClearActiveWindow(n) BY <2>7, PointerSeals
  <2>8. CASE TrySealWindow(n) BY <2>8, TrySealSeals
  <2>9. CASE ReleaseWindowSeal(n) BY <2>9, ReleaseSeals
  <2>10. CASE AppendBlock(n) BY <2>10, AppendSeals
  <2>11. CASE RenewLeadership(n) BY <2>11, OthersSeal
  <2> QED
    BY <1>1, <2>1, <2>2, <2>3, <2>4, <2>5, <2>6, <2>7, <2>8, <2>9, <2>10,
       <2>11 DEF Step, HarmlessCommand, HarmlessMethod
<1>2. CASE \/ LeaseExpires \/ UNCHANGED vars
           \/ \E w \in Window : DeadlinePasses(w)
           \/ \E l \in Law : PauseEnds(l)
  BY <1>2, OthersSeal
<1>3. ASSUME NEW n \in Nct, Boot(n) \/ Crash(n)
      PROVE  EInv'
  BY <1>3, OthersSeal
<1>4. ASSUME NEW n \in Nct,
             \/ BecomeLeader(n) \/ TickStarts(n) \/ HandleProposal(n)
             \/ HandleNonceResponse(n)
      PROVE  EInv'
  BY <1>4, HandlersSeal
<1>5. ASSUME NEW n \in Nct,
             \/ HandlerError(n) \/ RetomarVentanaFails(n)
             \/ RecuperarDeliberacionFails(n) \/ TrySealWindowTwice(n)
             \/ AppendBlockTwice(n)
      PROVE  FALSE
  BY <1>5, ErrorsAreCounted DEF IInv
<1> QED BY <1>1, <1>2, <1>3, <1>4, <1>5 DEF Next

\* The invariant of one leader without Redis errors.
THEOREM ErrorFreeInductive == Spec /\ [](OneLeader /\ NoErrors) => []EInv
BY InitEInv, NextEInv, Inductive, LeaderInductive, PTL DEF Spec

\* While one process leads at a time and no Redis command fails, the first
\* valid nonce closes its window: one that is sealed never gets the result of
\* a window that nobody mined, whoever crashes between the seal, the block and
\* the result.
THEOREM SealedWindowsNeverExpire ==
  Spec /\ [](OneLeader /\ NoErrors) => []SealedNeverExpires
<1>1. EInv => SealedNeverExpires BY DEF EInv
<1> QED BY <1>1, ErrorFreeInductive, PTL

-----------------------------------------------------------------------------
(* The verdict of a window *)

\* The commands that write the record of a window are these two.
LEMMA WindowWriters ==
  ASSUME [Next]_vars
  PROVE  \/ UNCHANGED window
         \/ \E n \in Nct : SaveWindow(n) \/ SetWindowResult(n)
<1> USE DEF redisVars, windowVars, vars
<1>1. ASSUME NEW n \in Nct,
             \/ RenewLeadership(n) \/ MaybeOpenWindow(n)
             \/ OpenWindowNumbered(n) \/ CheckDeliberation(n)
             \/ CheckDeadline(n) \/ RetomarVentana(n)
             \/ RecuperarDeliberacion(n) \/ RequeueIfStatus(n)
      PROVE  UNCHANGED window
  BY <1>1 DEF RenewLeadership, MaybeOpenWindow, OpenWindowNumbered,
     CheckDeliberation, CheckDeadline, RetomarVentana, RecuperarDeliberacion,
     RequeueIfStatus
<1>2. ASSUME NEW n \in Nct,
             \/ SaveLaw(n) \/ SetLawStatus(n) \/ SetLawAction(n)
             \/ EnqueueLaw(n) \/ RemoveFromQueue(n) \/ SetCooldown(n)
             \/ SetActiveWindow(n) \/ ClearActiveWindow(n)
      PROVE  UNCHANGED window
  BY <1>2 DEF SaveLaw, SetLawStatus, SetLawAction, EnqueueLaw,
     RemoveFromQueue, SetCooldown, SetActiveWindow, ClearActiveWindow
<1>3. ASSUME NEW n \in Nct,
             \/ PublishChallenge(n) \/ TrySealWindow(n)
             \/ ReleaseWindowSeal(n) \/ LastBlockHash(n) \/ AppendBlock(n)
             \/ SaveDeliberation(n) \/ HoldDeliberation(n)
             \/ ClearDeliberation(n) \/ Acknowledge(n)
      PROVE  UNCHANGED window
  BY <1>3 DEF PublishChallenge, TrySealWindow, ReleaseWindowSeal,
     LastBlockHash, AppendBlock, SaveDeliberation, HoldDeliberation,
     ClearDeliberation, Acknowledge
<1>4. ASSUME NEW n \in Nct,
             \/ Boot(n) \/ BecomeLeader(n) \/ TickStarts(n) \/ Crash(n)
             \/ HandlerError(n) \/ RetomarVentanaFails(n)
             \/ RecuperarDeliberacionFails(n) \/ TrySealWindowTwice(n)
             \/ AppendBlockTwice(n)
      PROVE  UNCHANGED window
  BY <1>4 DEF Boot, BecomeLeader, TickStarts, Crash, HandlerError,
     RetomarVentanaFails, RecuperarDeliberacionFails, TrySealWindowTwice,
     AppendBlockTwice
<1>5. ASSUME NEW n \in Nct, HandleProposal(n) \/ HandleNonceResponse(n)
      PROVE  UNCHANGED window
  BY <1>5 DEF HandleProposal, HandleNonceResponse
<1>6. CASE \/ LeaseExpires \/ UNCHANGED vars
           \/ \E w \in Window : DeadlinePasses(w)
           \/ \E l \in Law : PauseEnds(l)
  BY <1>6 DEF LeaseExpires, DeadlinePasses, PauseEnds
<1>7. ASSUME NEW n \in Nct, Step(n)
      PROVE  UNCHANGED window \/ SaveWindow(n) \/ SetWindowResult(n)
  BY <1>1, <1>2, <1>3, <1>7 DEF Step
<1> QED BY <1>4, <1>5, <1>6, <1>7 DEF Next

\* A window that is not sealed has no block, and one that is sealed did not
\* expire.
LEMMA BlockOrExpiry ==
  ASSUME IInv, LInv, EInv, NEW w \in Window, HasBlock(w)
  PROVE  window[w].result \in {"open", "success"}
<1>1. window[w].result \in Result BY DEF IInv, TypeOK, WindowRecord
<1>2. w \in sealed BY DEF LInv, Record
<1> QED BY <1>1, <1>2 DEF EInv, SealedNeverExpires, Result

\* A step writes no second result, and no result but success to a window that has
\* a block.
LEMMA VerdictStep ==
  ASSUME IInv, LInv, EInv, [Next]_vars, NEW w \in Window
  PROVE  /\ window[w].result # "open" =>
              window'[w].result = window[w].result
         /\ HasBlock(w) => window'[w].result \in {"open", "success"}
<1>1. CASE window'[w] = window[w] BY <1>1, BlockOrExpiry
<1>2. ASSUME NEW n \in Nct, SaveWindow(n), window'[w] # window[w]
      PROVE  window[w].result = "open" /\ ~HasBlock(w)
  <2>1. InOrder(todo[n]) BY <1>2, AtLeads DEF SaveWindow
  <2>2. ~Saved(Cmd(n).win) BY <1>2, <2>1, SaveWindowGoes
  <2>3. w = Cmd(n).win BY <1>2 DEF SaveWindow, IInv, TypeOK
  <2>4. ~HasBlock(w) BY <2>2, <2>3 DEF IInv, BlocksSaved, HasBlock
  <2> QED BY <2>2, <2>3, <2>4 DEF EInv, SavedFirst, Undecided
<1>3. ASSUME NEW n \in Nct, SetWindowResult(n), window'[w] # window[w]
      PROVE  /\ window[w].result = "open"
             /\ HasBlock(w) => window'[w].result = "success"
  <2>1. /\ Undecided(Cmd(n).win)
        /\ Cmd(n).win \in sealed => Cmd(n).arg = "success"
    BY <1>3, SetWindowResultSeals
  <2>2. /\ window[w] \in WindowRecord
        /\ window' = [window EXCEPT ![Cmd(n).win].result = Cmd(n).arg]
        /\ window \in [Window -> WindowRecord]
    BY <1>3 DEF SetWindowResult, IInv, TypeOK
  <2>3. w = Cmd(n).win BY <1>3, <2>2
  <2>4. window'[w].result = Cmd(n).arg BY <2>2, <2>3 DEF WindowRecord
  <2>5. HasBlock(w) => w \in sealed BY DEF LInv, Record
  <2> QED BY <2>1, <2>3, <2>4, <2>5 DEF Undecided
<1>4. CASE UNCHANGED window BY <1>1, <1>4
<1> QED BY <1>1, <1>2, <1>3, <1>4, WindowWriters

\* The verdict of a window is final while one process leads at a time and no
\* Redis command fails: no later leader writes a second result, and a window
\* whose block is in the chain gets no other result than success.
THEOREM VerdictIsFinal == Spec /\ [](OneLeader /\ NoErrors) => VerdictFinal
<1>1. IInv /\ LInv /\ EInv /\ [Next]_vars =>
        [\A w \in Window :
           /\ window[w].result # "open" =>
                window'[w].result = window[w].result
           /\ (\E b \in Blocks : b.win = w)
                => window'[w].result \in {"open", "success"}]_vars
  BY VerdictStep DEF HasBlock
<1> QED BY <1>1, Inductive, LeaderInductive, ErrorFreeInductive, PTL
        DEF Spec, VerdictFinal
=============================================================================
