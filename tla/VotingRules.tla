----------------------------- MODULE VotingRules -----------------------------
(***************************************************************************)
(* The rules of the parliament, as the NCT computes them: whose turn it is *)
(* (common/queue.py), who would mine a window or is convoked to decide on  *)
(* a law (availability.py, deliberation.py), how hard the window is        *)
(* (difficulty.py), and what the answers of a pause amount to              *)
(* (deliberation.py).                                                      *)
(*                                                                         *)
(* A population is what the NCT reads of Redis: the miners that reported   *)
(* lately and the policy and default answer of every team and standalone.  *)
(* A team is named by its coordinator, as in the list of participants.     *)
(***************************************************************************)
EXTENDS Naturals, Sequences, FiniteSetsExt

CONSTANTS
  Law, Author, Area,
  AreaOf,        \* [Law -> Area]: its category
  ActionOf,      \* [Law -> Action]
  Holder,        \* [Law -> Author]: who pays for its turn
  Worker,
  Coordinator,   \* the workers that coordinate a team
  TeamOf,        \* [Worker -> Coordinator or None]: the roster of the teams
  Anonymous,     \* workers outside every team that are not standalone
  Power,         \* [Worker -> Nat]: attempts in the target time
  None,
  Base, NMin, NMax,     \* 16, 3 and 9 in the code
  DecayWindows,         \* DIFFICULTY_DECAY_WINDOWS
  Sample, QuotaLimit,   \* TURN_QUOTA_WINDOWS, and the turns its share allows
  MinWorkers, ByArea    \* MIN_WORKERS_FOR_WINDOW, QUORUM_BY_CATEGORY

Action == {"promulgacion", "derogacion"}
Answer == {"accept", "reject"}

ASSUME RulesAssumption ==
  /\ AreaOf \in [Law -> Area] /\ ActionOf \in [Law -> Action]
  /\ Holder \in [Law -> Author] /\ None \notin Author \cup Law
  /\ Coordinator \subseteq Worker /\ None \notin Worker
  /\ TeamOf \in [Worker -> Coordinator \cup {None}]
  /\ \A c \in Coordinator : TeamOf[c] = c
  /\ Anonymous \subseteq {w \in Worker : TeamOf[w] = None}
  /\ Power \in [Worker -> Nat]
  /\ Base \in Nat /\ NMin \in Nat \ {0} /\ NMax \in Nat /\ NMin <= NMax
  /\ DecayWindows \in Nat \ {0} /\ Sample \in Nat /\ QuotaLimit \in Nat
  /\ MinWorkers \in Nat /\ ByArea \in BOOLEAN

-----------------------------------------------------------------------------
\* Turns.

\* The authors that took more than their share of the last Sample windows;
\* nobody while the sample is incomplete.
OverQuota(recent) ==
  IF Len(recent) < Sample THEN {}
  ELSE {a \in Author :
          Cardinality({i \in 1..Sample : recent[i] = a}) > QuotaLimit}

\* The law of the queue that comes first among those in laws.
Positions(queue, laws) == {i \in DOMAIN queue : queue[i] \in laws}
First(queue, laws) == queue[Min(Positions(queue, laws))]

\* The law whose turn it is among those of minable; None when there are none.
SelectNextLaw(queue, last, recent, minable) ==
  LET openable == {queue[i] : i \in DOMAIN queue} \cap minable
      alternate == {l \in openable : Holder[l] # last}
      fair == {l \in alternate : Holder[l] \notin OverQuota(recent)}
  IN  CASE openable = {}    -> None
        [] fair # {}        -> First(queue, fair)
        [] fair = {} /\ openable # {} /\ last # None /\ alternate # {}
                            -> First(queue, alternate)
        [] OTHER            -> First(queue, openable)

-----------------------------------------------------------------------------
\* Who takes part.

\* A policy: the agenda (empty covers every area), the actions never mined,
\* and what decision = reject refuses: nothing, one action, one law or all.
Policy == [agenda : SUBSET Area, refuses : SUBSET Action,
           veto : {None, "all"} \cup Action \cup Law]

Population == [live : SUBSET Worker, policy : [Worker -> Policy],
               default : [Worker -> Answer \cup {None}]]

Covers(agenda, area) == agenda = {} \/ area \in agenda

PolicyAccepts(p, l) ==
  /\ Covers(p.agenda, AreaOf[l])
  /\ ActionOf[l] \notin p.refuses
  /\ p.veto \notin {"all", ActionOf[l], l}

Prevetoed(p, l) == p.veto = l

\* A veto against this very law does not exclude: it is an answer.
PolicyConvokes(p, l) ==
  PolicyAccepts(IF Prevetoed(p, l) THEN [p EXCEPT !.veto = None] ELSE p, l)

\* The unit that decides for a worker: its team, or itself when standalone.
UnitOf(w) == IF TeamOf[w] # None THEN TeamOf[w] ELSE w
Members(pop, u) == {w \in pop.live : UnitOf(w) = u}

\* The live workers that would mine the window of l (eligible_workers).
EligibleWorkers(pop, l, convocation) ==
  {w \in pop.live :
     LET p == pop.policy[UnitOf(w)]
     IN  IF convocation THEN w \notin Anonymous /\ PolicyConvokes(p, l)
                        ELSE PolicyAccepts(p, l)}

\* assess: are there enough of them?
HasQuorum(pop, l, convocation) ==
  \/ MinWorkers = 0
  \/ MinWorkers <= Cardinality(IF ByArea
                               THEN EligibleWorkers(pop, l, convocation)
                               ELSE pop.live)

\* The units that are called to decide on l: teams with somebody alive, and
\* standalone workers, that their own policy does not leave out.
ConvokedWithoutVetoers(pop, l) ==
  {u \in Coordinator : Members(pop, u) # {} /\ PolicyAccepts(pop.policy[u], l)}
    \cup {w \in pop.live : TeamOf[w] = None /\ w \notin Anonymous
                            /\ PolicyAccepts(pop.policy[w], l)}
Convoked(pop, l) ==
  {c \in Coordinator : Members(pop, c) # {} /\ PolicyConvokes(pop.policy[c], l)}
    \cup
  {w \in pop.live : /\ TeamOf[w] = None /\ w \notin Anonymous
                    /\ PolicyConvokes(pop.policy[w], l)}

-----------------------------------------------------------------------------
\* Difficulty.

\* A team adds up its live members; a standalone searches on its own.
Hashrate(pop, u) == MapThenSumSet(LAMBDA w : Power[w], Members(pop, u))

Biggest(pop, units) == Max({0} \cup {Hashrate(pop, u) : u \in units})

\* The fastest independent searcher of the whole network.
EffectiveHashrate(pop) == Biggest(pop, {UnitOf(w) : w \in pop.live})

DifficultyFor(power) ==
  IF power = 0 THEN NMin
  ELSE Max({NMin} \cup {n \in NMin..NMax : Base^n <= power})

NZerosForAction(n, action) == IF action = "derogacion" THEN n + 1 ELSE n

\* DifficultyRatchet: n is 0 before the first measure of its scope.
Ratchet == [n : 0..NMax, low : 0..DecayWindows]
NoRatchet == [n |-> 0, low |-> 0]

UpdateAtOnce(r, measured) == [n |-> measured, low |-> 0]
Update(r, measured) ==
  CASE r.n = 0 -> [r EXCEPT !.n = measured]
    [] r.n # 0 /\ measured > r.n -> [n |-> measured, low |-> 0]
    [] r.n # 0 /\ measured = r.n -> [r EXCEPT !.low = 0]
    [] r.n # 0 /\ measured < r.n ->
         IF r.low + 1 >= DecayWindows THEN [n |-> r.n - 1, low |-> 0]
                                      ELSE [r EXCEPT !.low = @ + 1]

-----------------------------------------------------------------------------
\* The outcome of a pause, from the answers given and the default ones.

EffectiveDecision(given, default) == IF given \in Answer THEN given ELSE default

Accepters(units, given, default) ==
  {u \in units : EffectiveDecision(given[u], default[u]) = "accept"}
Rejecters(units, given, default) ==
  {u \in units : EffectiveDecision(given[u], default[u]) = "reject"}

Resolve(units, given, default) ==
  CASE Accepters(units, given, default) # {} -> "open"
    [] Accepters(units, given, default) = {}
         /\ Rejecters(units, given, default) # {} -> "discard"
    [] OTHER -> "requeue"

\* Default answers do not count here, and nobody convoked is not everybody.
AllAnswered(units, given) ==
  units # {} /\ \A u \in units : given[u] \in Answer
=============================================================================
