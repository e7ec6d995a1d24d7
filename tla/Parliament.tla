----------------------------- MODULE Parliament ------------------------------
(***************************************************************************)
(* What the leading NCT decides (nct/coordinator.py): which law has the    *)
(* turn, whether the network can mine it, the announcement that freezes    *)
(* its difficulty, the pause in which the convoked units answer through    *)
(* the API, the outcome, and the window.  The leader may change: what it   *)
(* had only in memory is lost.                                             *)
(*                                                                         *)
(* NctCoordinator has the commands of each handler, its crashes and the    *)
(* chain; here a handler is one step and a window ends with its verdict.   *)
(***************************************************************************)
EXTENDS VotingRules, SequencesExt

CONSTANTS
  MaxSilent,      \* MAX_SILENT_DELIBERATIONS
  Modes,          \* DELIBERATION_SECONDS > 0 (TRUE) or not
  NConfig,        \* N_ZEROS
  Histories,      \* the turns taken before the first state, newest first
  Populations,    \* what the network may look like
  MaxEvents       \* bound on the changes of the network and of leader, the
                  \* failed reads and the decisions sent to the API

ASSUME ParliamentAssumption ==
  /\ MaxSilent \in Nat \ {0} /\ Modes \subseteq BOOLEAN /\ NConfig \in NMin..NMax
  /\ Populations \subseteq Population
  /\ Histories \subseteq Seq(Author)
  /\ MaxEvents \in Nat

Nothing == [kind |-> "none"]
Unreadable == [kind |-> "unreadable"]
Given == [Worker -> Answer \cup {None}]
NoAnswers == [u \in Worker |-> None]

VARIABLES
  nct,       \* the state of the parliament, in Redis and in the leader
  network,   \* the miners as they are
  cached,    \* _poblacion_cache, or Nothing
  requests,  \* decisions the API has validated and not yet written
  events     \* how many there have been

vars == <<nct, network, cached, requests, events>>

Status == {"absent", "pending_queue", "in_deliberation", "in_window",
           "promulgated", "repealed", "discarded"}
Deliberation == [law : Law, units : SUBSET Worker,
                 default : [Worker -> Answer \cup {None}],
                 n : Nat, measured : BOOLEAN, over : BOOLEAN, blind : BOOLEAN]
Window == [law : Law, n : Nat, measured : BOOLEAN, miners : SUBSET Worker]

\* queue: law_queue.  last: nct:last_author, and _last_author.
\* recent: nct:window_authors.  ratchet: nct:difficulty:<area>, None for the
\* global one.  answers: deliberation:decisions:<law>.
\* silent: silent_deliberations.  texts: discarded_text_hashes.
\* deliberates, known: deliberation_seconds > 0 and n_zeros, of the leader.
\* History: measures, the last DecayWindows measures of each scope; passed,
\* the turns that younger laws have taken over a law that could be opened;
\* measured, the difficulty is not the one that is kept when measuring fails;
\* blind, the announcement did not see the population of the quorum, or none.
Nct == [deliberates : BOOLEAN, known : NMin..NMax,
        status : [Law -> Status], queue : Seq(Law),
        last : Author \cup {None}, remembered : Author \cup {None},
        recent : Seq(Author),
        ratchet : [Area \cup {None} -> Ratchet],
        deliberation : Deliberation \cup {Nothing},
        answers : [Law -> Given], silent : [Law -> 0..MaxSilent],
        texts : SUBSET Law, window : Window \cup {Nothing},
        measures : [Area \cup {None} -> Seq(Nat)], passed : [Law -> Nat]]
Request == [law : Law, unit : Worker, answer : Answer]

TypeOK ==
  /\ nct \in Nct /\ network \in Populations
  /\ cached \in Populations \cup {Nothing}
  /\ requests \subseteq Request
  /\ events \in 0..MaxEvents

-----------------------------------------------------------------------------
\* The handlers, as functions of the state s of the parliament and of the views
\* v of the population that they get, which may be unreadable.

\* _hay_quorum: a population that cannot be read stops nothing.
CanOpen(s, v, l) == v = Unreadable \/ HasQuorum(v, l, s.deliberates)

Enqueue(s, l) == [s EXCEPT !.queue = Append(@, l)]
\* LREM removes every occurrence: a law is in the queue once at most.
Position(queue, l) == CHOOSE i \in DOMAIN queue : queue[i] = l
Dequeue(s, l) ==
  [s EXCEPT !.queue = IF l \in Range(@) THEN RemoveAt(@, Position(@, l)) ELSE @]

Latest(seq, n) == IF Len(seq) > n THEN SubSeq(seq, 1, n) ELSE seq

\* _consumir_turno
ConsumeTurnForgetful(s, l) == [s EXCEPT !.last = Holder[l], !.remembered = Holder[l]]
ConsumeTurn(s, l) ==
  [s EXCEPT !.last = Holder[l], !.remembered = Holder[l],
            !.recent = Latest(<<Holder[l]>> \o @, Sample)]

\* The laws of the queue that can be opened, each with the view of its own.
Minable(s, look) ==
  {s.queue[i] : i \in {j \in DOMAIN s.queue : CanOpen(s, look[j], s.queue[j])}}

\* History: the minable laws ahead of l in the queue have been passed over.
Pass(s, minable, l) ==
  LET ahead == {s.queue[i] : i \in 1..(Position(s.queue, l) - 1)}
  IN  [s EXCEPT !.passed = [k \in Law |->
         IF k \in ahead \cap minable THEN @[k] + 1 ELSE 0]]

\* _n_con_trinquete
Measure(s, scope, power) ==
  LET measured == DifficultyFor(power)
  IN  [s EXCEPT !.ratchet[scope] = Update(@, measured),
                !.measures[scope] = Latest(<<measured>> \o @, DecayWindows)]

\* open_window.  Frozen, it takes the difficulty and the miners of the
\* deliberation; otherwise it measures the network and everybody mines.
OpenFrozenRemeasured(s, l, n, measured, miners) ==
  LET power == Max({0} \cup {Power[w] : w \in miners})
  IN  Dequeue([s EXCEPT !.status[l] = "in_window",
                        !.window = [law |-> l, n |-> DifficultyFor(power),
                                    measured |-> measured, miners |-> miners]], l)
OpenFrozen(s, l, n, measured, miners) ==
  Dequeue([s EXCEPT !.status[l] = "in_window",
                    !.window = [law |-> l, n |-> n, measured |-> measured,
                                miners |-> miners]], l)

\* _n_zeros_para_esta_ventana, which reads Redis itself: without a measure, the
\* last one stays.
MeasureNetwork(s, measured) ==
  IF ~measured THEN s
  ELSE LET t == Measure(s, None, EffectiveHashrate(network))
       IN  [t EXCEPT !.known = t.ratchet[None].n]

OpenMeasured(s, l, measured) ==
  ConsumeTurn(OpenFrozen(s, l, NZerosForAction(s.known, ActionOf[l]), measured, Worker), l)

\* start_deliberation reads the population again: the units of l are none, if it
\* cannot.
Units(v, l) == IF v = Unreadable THEN {} ELSE Convoked(v, l)

\* _n_para_convocados: without a measure, n_zeros.
MeasureConvoked(s, l, power, measured) ==
  IF measured THEN Measure(s, AreaOf[l], power) ELSE s

\* quorum: the view with which l was found minable
Announce(s, quorum, v, l, units, measured) ==
  LET against(u) == u \in units \cap Coordinator /\ Prevetoed(v.policy[u], l)
      n == IF measured THEN s.ratchet[AreaOf[l]].n ELSE s.known
      announced ==
        [s EXCEPT
           !.answers[l] = [u \in Worker |-> IF against(u) THEN "reject" ELSE None],
           !.deliberation = [law |-> l, units |-> units,
                             default |-> [u \in Worker |-> IF u \in units
                                                           THEN v.default[u] ELSE None],
                             n |-> NZerosForAction(n, ActionOf[l]), measured |-> measured,
                             over |-> FALSE, blind |-> v = Unreadable \/ v # quorum],
           !.status[l] = "in_deliberation"]
  IN  ConsumeTurn(Dequeue(announced, l), l)

\* The deliberation ends: nct:deliberation and the answers are deleted.
EndDeliberation(s, l) ==
  [s EXCEPT !.deliberation = Nothing, !.answers[l] = NoAnswers]

\* Silences are forgiven, up to a point.
EnoughOffByOne(silences) == silences > MaxSilent
Enough(silences) == silences >= MaxSilent

\* _resolver_deliberacion
ResolveDeliberation(s) ==
  LET d == s.deliberation
      l == d.law
      outcome == Resolve(d.units, s.answers[l], d.default)
      silences == s.silent[l] + 1
      t == EndDeliberation(s, l)
      discarded == [t EXCEPT !.status[l] = "discarded"]
  IN  CASE outcome = "open" ->
             OpenFrozen([t EXCEPT !.silent[l] = 0], l, d.n, d.measured,
                        Accepters(d.units, s.answers[l], d.default))
        [] outcome = "discard" -> [discarded EXCEPT !.texts = @ \cup {l}]
        [] outcome = "requeue" /\ Enough(silences) ->
             [discarded EXCEPT !.silent[l] = silences]
        [] outcome = "requeue" /\ ~Enough(silences) ->
             Enqueue([t EXCEPT !.silent[l] = silences,
                               !.status[l] = "pending_queue"], l)

\* _cerrar_ventana_sellada
CloseSealed(s) ==
  [s EXCEPT !.window = Nothing,
            !.status[s.window.law] =
               IF ActionOf[s.window.law] = "promulgacion" THEN "promulgated"
                                                          ELSE "repealed"]

\* check_deadline: expiring without quorum is not losing
CloseExpired(s, v) ==
  LET l == s.window.law
      closed == [s EXCEPT !.window = Nothing]
  IN  IF CanOpen(s, v, l)
      THEN [closed EXCEPT !.status[l] = "discarded", !.texts = @ \cup {l}]
      ELSE Enqueue([closed EXCEPT !.status[l] = "pending_queue"], l)

\* _recuperar_deliberacion_huerfana
RecoverDeliberationForgets(s) ==
  IF s.deliberation = Nothing THEN s ELSE EndDeliberation(s, s.deliberation.law)
RecoverDeliberation(s) ==
  LET l == s.deliberation.law
  IN  IF s.deliberation = Nothing THEN s
      ELSE Enqueue([EndDeliberation(s, l) EXCEPT !.status[l] = "pending_queue"], l)

-----------------------------------------------------------------------------
Init ==
  /\ \E history \in Histories, mode \in Modes :
       nct = [deliberates |-> mode, known |-> NConfig,
              status |-> [l \in Law |-> IF ActionOf[l] = "promulgacion"
                                        THEN "absent" ELSE "promulgated"],
              queue |-> <<>>, recent |-> history,
              last |-> IF history = <<>> THEN None ELSE Head(history),
              remembered |-> IF history = <<>> THEN None ELSE Head(history),
              ratchet |-> [a \in Area \cup {None} |-> NoRatchet],
              deliberation |-> Nothing, window |-> Nothing,
              answers |-> [l \in Law |-> NoAnswers],
              silent |-> [l \in Law |-> 0], texts |-> {},
              measures |-> [a \in Area \cup {None} |-> <<>>],
              passed |-> [l \in Law |-> 0]]
  /\ network \in Populations /\ cached = Nothing
  /\ requests = {} /\ events = 0

\* Bounded: what need not happen.
Happens == events < MaxEvents /\ events' = events + 1

\* _poblacion: what n reads in a row find.  It is the cache until that is some
\* seconds old, then Redis, which may fail; so what one read found the next one
\* may not, nor what is there now.
Views == {network, cached, Unreadable} \ {Nothing}
Looks(n) ==
  {look \in [1..n -> Views] :
     \A i, j \in 1..n :
       i < j /\ look[j] \notin {network, Unreadable} => look[i] = look[j]}

\* A read of Redis that works fills the cache.  A new leader has none.
Refreshed(cache, look) == IF network \in Range(look) THEN network ELSE cache

Reads(look, measured) ==
  /\ cached' = Refreshed(cached, look)
  /\ IF measured /\ Unreadable \notin Range(look) THEN UNCHANGED events ELSE Happens

\* maybe_open_window, in which every handler ends: the next law, if any, is
\* announced, or its window is opened, unless there is one already.  There is a
\* look for each law of the queue, and one more.
Busy(t) == t.window # Nothing \/ t.deliberation # Nothing
Needed(t) == IF Busy(t) THEN 0 ELSE Len(t.queue) + 1

MaybeOpenWindow(t, look, measured) ==
  IF Busy(t) THEN measured /\ nct' = t
  ELSE \E minable \in {Minable(t, look)} :
       \E l \in {SelectNextLaw(t.queue, t.remembered, t.recent, minable)} :
         IF l = None THEN measured /\ nct' = t
         ELSE \E passed \in {Pass(t, minable, l)}, v \in {look[Len(t.queue) + 1]} :
              \/ /\ t.deliberates
                 /\ \E units \in {Units(v, l)} :
                    \E power \in {IF units = {} THEN 0 ELSE Biggest(v, units)} :
                    \E m \in {MeasureConvoked(passed, l, power, measured)} :
                      nct' = Announce(m, look[Position(t.queue, l)], v, l, units, measured)
              \/ /\ ~t.deliberates
                 /\ \E m \in {MeasureNetwork(passed, measured)} :
                      nct' = OpenMeasured(m, l, measured)

\* A handler that has left t
EndsIn(s) ==
  \E t \in {s} : \E look \in Looks(Needed(t)), measured \in BOOLEAN :
    Reads(look, measured) /\ MaybeOpenWindow(t, look, measured)

\* handle_proposal of an acceptable proposal; a repeal keeps the status of the
\* promulgated law until it is announced.
HandleProposal(l) ==
  /\ \A i \in DOMAIN nct.queue : nct.queue[i] # l
  /\ nct.status[l] = IF ActionOf[l] = "promulgacion" THEN "absent" ELSE "promulgated"
  /\ LET s == IF ActionOf[l] = "promulgacion"
              THEN [nct EXCEPT !.status[l] = "pending_queue"] ELSE nct
     IN  EndsIn(Enqueue(s, l))
  /\ UNCHANGED <<network, requests>>

\* check_deliberation, once the pause is over or everybody has answered
DeliberationIsOver ==
  /\ nct.deliberation # Nothing
  /\ \/ nct.deliberation.over
     \/ AllAnswered(nct.deliberation.units, nct.answers[nct.deliberation.law])
CheckDeliberation ==
  /\ DeliberationIsOver
  /\ EndsIn(ResolveDeliberation(nct))
  /\ UNCHANGED <<network, requests>>

\* The tick of an idle leader: the network may have changed.
OpenNext ==
  /\ ~Busy(nct)
  /\ EndsIn(nct)
  /\ UNCHANGED <<network, requests>>

\* The window of the NctCoordinator module ends: a miner found the nonce, or
\* the deadline passed.
WindowSealed ==
  /\ nct.window # Nothing /\ nct.window.miners \cap {UnitOf(w) : w \in network.live} # {}
  /\ EndsIn(CloseSealed(nct))
  /\ UNCHANGED <<network, requests>>

\* The first look is for the law of the window.
WindowExpires ==
  /\ nct.window # Nothing
  /\ \E v \in Views : \E t \in {CloseExpired(nct, v)} :
     \E look \in Looks(Needed(t) + 1), measured \in BOOLEAN :
       look[1] = v /\ Reads(look, measured) /\ MaybeOpenWindow(t, Tail(look), measured)
  /\ UNCHANGED <<network, requests>>

\* become_leader of another replica: the author of the last turn is read
\* again, the window is taken as it is and the deliberation goes back.
Failover ==
  /\ Happens
  /\ LET t == RecoverDeliberation([nct EXCEPT !.remembered = nct.last, !.known = NConfig])
     IN  \E look \in [1..Needed(t) -> {network, Unreadable}], measured \in BOOLEAN :
           MaybeOpenWindow(t, look, measured) /\ cached' = Refreshed(Nothing, look)
  /\ UNCHANGED <<network, requests>>

PauseEnds ==
  /\ nct.deliberation # Nothing /\ ~nct.deliberation.over
  /\ nct' = [nct EXCEPT !.deliberation.over = TRUE]
  /\ UNCHANGED <<network, cached, requests, events>>

\* decide: the API reads the deliberation and validates the answer ...
ValidateDecision(unit, answer) ==
  /\ Happens
  /\ nct.deliberation # Nothing /\ ~nct.deliberation.over
  /\ unit \in nct.deliberation.units
  /\ requests' = requests \cup {[law |-> nct.deliberation.law,
                                 unit |-> unit, answer |-> answer]}
  /\ UNCHANGED <<nct, network, cached>>

\* ... and writes it, which may be after the deliberation was resolved.
WriteDecision(r) ==
  /\ r \in requests
  /\ requests' = requests \ {r}
  /\ nct' = [nct EXCEPT !.answers[r.law][r.unit] = r.answer]
  /\ UNCHANGED <<network, cached, events>>

\* Miners come and go, and change their policy.
NetworkChanges ==
  /\ Happens
  /\ network' \in Populations \ {network}
  /\ UNCHANGED <<nct, cached, requests>>

Next ==
  \/ \E l \in Law : HandleProposal(l)
  \/ CheckDeliberation \/ OpenNext \/ WindowSealed \/ WindowExpires
  \/ Failover \/ PauseEnds \/ NetworkChanges
  \/ \E u \in Worker, a \in Answer : ValidateDecision(u, a)
  \/ \E r \in Request : WriteDecision(r)

\* The tick runs every second and the clock advances: pauses and deadlines
\* pass, and the cache expires and Redis answers before the tick has gone on
\* without them for ever.
Updated(s) ==
  \E t \in {s} : \E look \in [1..Needed(t) -> {network}] :
    Reads(look, TRUE) /\ MaybeOpenWindow(t, look, TRUE)
Tick ==
  /\ \/ DeliberationIsOver /\ Updated(ResolveDeliberation(nct))
     \/ nct.window # Nothing /\ Updated(CloseExpired(nct, network))
     \/ ~Busy(nct) /\ Updated(nct)
  /\ UNCHANGED <<network, requests>>

Spec == Init /\ [][Next]_vars /\ WF_vars(Tick) /\ WF_vars(PauseEnds)

-----------------------------------------------------------------------------
\* Properties.

Queued(l) == \E i \in DOMAIN nct.queue : nct.queue[i] = l

\* Round robin and quota delay a law, they do not starve it: while it can be
\* opened, younger laws take at most as many turns as it takes to push the
\* turns of its author out of the sample (select_next_law).
NobodyStarves ==
  \A l \in Law :
    Queued(l) => nct.passed[l] <= IF Sample > QuotaLimit + 1
                                  THEN Sample - QuotaLimit ELSE 1

\* The difficulty of an area never falls by more than one zero, and only when
\* the last DecayWindows measures were all lower; changes of leader between
\* the measures change nothing (DifficultyRatchet, _n_con_trinquete).
DifficultyFallsSlowly ==
  [][\A a \in Area \cup {None} :
       nct'.ratchet[a].n < nct.ratchet[a].n =>
         /\ nct'.ratchet[a].n = nct.ratchet[a].n - 1
         /\ Len(nct'.measures[a]) = DecayWindows
         /\ \A i \in 1..DecayWindows : nct'.measures[a][i] < nct.ratchet[a].n]_vars

\* A law is announced to nobody only when the miners went away, or Redis failed,
\* between the count of its quorum and its announcement, two reads of the same
\* handler (maybe_open_window, start_deliberation): on one and the same view,
\* what the quorum counts (eligible_workers) and who is convoked (convocados)
\* agree.
AnnouncedToSomebody ==
  nct.deliberation # Nothing /\ MinWorkers > 0 /\ ByArea =>
    nct.deliberation.units # {} \/ nct.deliberation.blind

\* Leaving the network, or saying no, after the announcement does not make a
\* law cheaper: its window, and the pause before it, are at least as hard as
\* the biggest unit that was convoked deserves (start_deliberation), unless
\* Redis failed when that was measured.
PullingOutDoesNotCheapen ==
  nct.deliberates =>
    /\ nct.deliberation # Nothing /\ nct.deliberation.measured =>
         LET l == nct.deliberation.law
         IN  nct.deliberation.n >= NZerosForAction(nct.measures[AreaOf[l]][1], ActionOf[l])
    /\ nct.window # Nothing /\ nct.window.measured =>
         LET l == nct.window.law
         IN  nct.window.n >= NZerosForAction(nct.measures[AreaOf[l]][1], ActionOf[l])

\* Every law is promulgated, repealed or discarded in the end; only those that
\* the network cannot mine wait, and they wait in the queue.  A pause that
\* nobody answers is repeated MaxSilent times at most, and a takeover puts the
\* law back (check_deliberation, become_leader).
EveryLawDecided ==
  <>[](\A l \in Law :
         Queued(l) \/ nct.status[l] \in {"pending_queue", "in_deliberation", "in_window"}
           => Queued(l) /\ ~HasQuorum(network, l, nct.deliberates))
=============================================================================
