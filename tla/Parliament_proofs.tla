-------------------------- MODULE Parliament_proofs ---------------------------
(***************************************************************************)
(* The rules of the parliament, for any number of laws, authors, areas and *)
(* workers: the queue starves nobody, the difficulty falls slowly and does *)
(* not fall for who pulls out, and a law is announced to somebody unless   *)
(* what was read for it changed on the way.                                *)
(*                                                                         *)
(* A handler is a function of the state of the parliament, so the          *)
(* invariant is a predicate of that state, and there is one lemma for each *)
(* function.                                                               *)
(***************************************************************************)
EXTENDS Parliament, TLAPS, WellFoundedInduction, FiniteSetTheorems

-----------------------------------------------------------------------------
(* Least and greatest numbers *)

\* A set of naturals has a least element: the initial segments of its elements
\* are finite sets, which strict inclusion orders well.
LEMMA Least ==
  ASSUME NEW S, S \subseteq Nat, S # {}
  PROVE  \E x \in S : \A y \in S : x <= y
<1> DEFINE T == {0..x : x \in S}
<1>1. IsWellFoundedOn(StrictSubsetOrdering(Nat), FiniteSubsetsOf(Nat))
  BY FS_StrictSubsetOrderingWellFounded
<1>2. T \subseteq FiniteSubsetsOf(Nat) /\ T # {}
  <2>1. ASSUME NEW x \in S PROVE 0..x \in SUBSET Nat /\ IsFiniteSet(0..x)
    BY FS_Interval
  <2> QED BY <2>1 DEF FiniteSubsetsOf
<1>3. PICK t \in T : \A u \in T : ~(<<u, t>> \in StrictSubsetOrdering(Nat))
  <2> HIDE DEF T
  <2> QED BY <1>1, <1>2, WFMin
<1>4. PICK x \in S : t = 0..x OBVIOUS
<1>5. ASSUME NEW y \in S, y < x PROVE FALSE
  <2>1. 0..y \in T /\ 0..y \in SUBSET Nat /\ 0..x \in SUBSET Nat OBVIOUS
  <2>2. 0..y \subseteq 0..x /\ 0..y # 0..x
    <3>1. x \in 0..x /\ x \notin 0..y BY <1>5
    <3> QED BY <3>1, <1>5
  <2>3. <<0..y, 0..x>> \in StrictSubsetOrdering(Nat)
    BY <2>1, <2>2 DEF StrictSubsetOrdering
  <2> QED BY <2>1, <2>3, <1>3, <1>4
<1> QED BY <1>5

\* Min is that element.
LEMMA MinOf ==
  ASSUME NEW S, S \subseteq Nat, S # {}
  PROVE  Min(S) \in S /\ \A y \in S : Min(S) <= y
BY Least DEF Min

\* A bounded set of naturals has a greatest element, which is Max.
LEMMA MaxOf ==
  ASSUME NEW S, NEW n \in Nat, S \subseteq 0..n, S # {}
  PROVE  Max(S) \in S /\ \A y \in S : Max(S) >= y
<1> DEFINE T == {n - x : x \in S}
<1>1. T \subseteq Nat /\ T # {}
  <2>1. ASSUME NEW x \in S PROVE x \in 0..n /\ n - x \in Nat OBVIOUS
  <2> QED BY <2>1
<1>2. PICK t \in T : \A y \in T : t <= y BY <1>1, Least
<1>3. \E x \in S : \A y \in S : x >= y BY <1>2
<1> QED BY <1>3 DEF Max

-----------------------------------------------------------------------------
(* The rules *)

\* Whatever the power, the difficulty is within its bounds.
LEMMA DifficultyBounds ==
  ASSUME NEW power
  PROVE  DifficultyFor(power) \in NMin..NMax
<1> DEFINE S == {NMin} \cup {n \in NMin..NMax : Base^n <= power}
<1>1. S \subseteq 0..NMax /\ S # {} /\ S \subseteq NMin..NMax /\ NMax \in Nat
  BY RulesAssumption
<1>2. Max(S) \in S
  <2> HIDE DEF S
  <2> QED BY <1>1, MaxOf
<1> QED BY <1>1, <1>2, RulesAssumption DEF DifficultyFor

\* The ratchet is never below the measure, and falls by one zero at most.
LEMMA UpdateRatchet ==
  ASSUME NEW r \in Ratchet, NEW m \in NMin..NMax,
         r.n = 0 \/ r.n >= NMin, r.low < DecayWindows
  PROVE  LET u == Update(r, m)
         IN  /\ u \in Ratchet
             /\ u.n \in NMin..NMax /\ u.n >= m /\ u.low < DecayWindows
             /\ u.low = 0 \/ (m < r.n /\ u = [n |-> r.n, low |-> r.low + 1])
                          \/ (r.n = 0 /\ u.low = r.low)
             /\ u.n < r.n => /\ u.n = r.n - 1 /\ m < r.n
                             /\ r.low + 1 = DecayWindows
BY RulesAssumption DEF Ratchet, Update

\* The first law of the queue among some of those in it.
LEMMA FirstOf ==
  ASSUME NEW queue \in Seq(Law), NEW laws, Positions(queue, laws) # {}
  PROVE  \E i \in DOMAIN queue :
           /\ First(queue, laws) = queue[i] /\ queue[i] \in laws
           /\ \A j \in DOMAIN queue : j < i => queue[j] \notin laws
<1>1. Positions(queue, laws) \subseteq Nat BY DEF Positions
<1>2. Min(Positions(queue, laws)) \in Positions(queue, laws)
      /\ \A y \in Positions(queue, laws) : Min(Positions(queue, laws)) <= y
  BY <1>1, MinOf
<1>3. \A j \in DOMAIN queue : queue[j] \in laws => j \in Positions(queue, laws)
  BY DEF Positions
<1>4. ASSUME NEW j \in DOMAIN queue, j < Min(Positions(queue, laws)), queue[j] \in laws
      PROVE  FALSE
  BY <1>1, <1>2, <1>3, <1>4
<1> QED BY <1>1, <1>2, <1>4 DEF First, Positions

Once(queue) == \A i, j \in DOMAIN queue : queue[i] = queue[j] => i = j

\* Position finds the only place of a law in the queue.
LEMMA PositionOf ==
  ASSUME NEW queue \in Seq(Law), Once(queue), NEW i \in DOMAIN queue
  PROVE  Position(queue, queue[i]) = i
BY DEF Position, Once

\* The law that has the turn can be mined, and those that are ahead of it and
\* can be mined too are another author's, who took the last turn or is over its
\* quota.
Chosen(queue, last, recent, minable, l) ==
  /\ l \in Law /\ l \in Range(queue) /\ l \in minable
  /\ Position(queue, l) \in DOMAIN queue /\ queue[Position(queue, l)] = l
  /\ \A i \in 1..(Position(queue, l) - 1) :
       queue[i] \in minable =>
         /\ Holder[queue[i]] # Holder[l]
         /\ Holder[queue[i]] = last \/ Holder[queue[i]] \in OverQuota(recent)

\* That is what select_next_law returns, when it returns a law.
LEMMA SelectedLaw ==
  ASSUME NEW queue \in Seq(Law), Once(queue), NEW last, NEW recent, NEW minable,
         NEW l, l = SelectNextLaw(queue, last, recent, minable), l # None
  PROVE  Chosen(queue, last, recent, minable, l)
<1> USE DEF Chosen
<1> DEFINE openable == {queue[i] : i \in DOMAIN queue} \cap minable
           alternate == {k \in openable : Holder[k] # last}
           fair == {k \in alternate : Holder[k] \notin OverQuota(recent)}
<1>1. \/ fair # {} /\ l = First(queue, fair)
      \/ fair = {} /\ alternate # {} /\ l = First(queue, alternate)
      \/ fair = {} /\ openable # {} /\ l = First(queue, openable)
  BY DEF SelectNextLaw
<1>2. ASSUME NEW laws, laws \subseteq openable, laws # {}, l = First(queue, laws)
      PROVE  \E at \in DOMAIN queue :
               /\ l = queue[at] /\ l \in laws /\ at = Position(queue, l)
               /\ \A j \in DOMAIN queue : j < at => queue[j] \notin laws
  <2>1. Positions(queue, laws) # {} BY <1>2 DEF Positions
  <2>2. PICK at \in DOMAIN queue :
          /\ First(queue, laws) = queue[at] /\ queue[at] \in laws
          /\ \A j \in DOMAIN queue : j < at => queue[j] \notin laws
    BY <2>1, FirstOf
  <2> QED BY <1>2, <2>2, PositionOf
<1>3. ASSUME NEW at \in DOMAIN queue, l = queue[at], NEW i \in 1..(at - 1)
      PROVE  /\ i \in DOMAIN queue /\ i < at
             /\ queue[i] \in minable => queue[i] \in openable
  OBVIOUS
<1>4. CASE fair # {} /\ l = First(queue, fair)
  <2>1. fair \subseteq openable OBVIOUS
  <2>2. PICK at \in DOMAIN queue :
          /\ l = queue[at] /\ l \in fair /\ at = Position(queue, l)
          /\ \A j \in DOMAIN queue : j < at => queue[j] \notin fair
    <3> HIDE DEF fair, openable
    <3> QED BY <1>2, <1>4, <2>1
  <2> QED BY <1>3, <2>2 DEF Range
<1>5. CASE fair = {} /\ alternate # {} /\ l = First(queue, alternate)
  <2>1. alternate \subseteq openable OBVIOUS
  <2>2. PICK at \in DOMAIN queue :
          /\ l = queue[at] /\ l \in alternate /\ at = Position(queue, l)
          /\ \A j \in DOMAIN queue : j < at => queue[j] \notin alternate
    <3> HIDE DEF alternate, openable
    <3> QED BY <1>2, <1>5, <2>1
  <2> QED BY <1>3, <2>2 DEF Range
<1>6. CASE fair = {} /\ openable # {} /\ l = First(queue, openable)
  <2>1. PICK at \in DOMAIN queue :
          /\ l = queue[at] /\ l \in openable /\ at = Position(queue, l)
          /\ \A j \in DOMAIN queue : j < at => queue[j] \notin openable
    <3> HIDE DEF openable
    <3> QED BY <1>2, <1>6
  <2> QED BY <1>3, <2>1 DEF Range
<1> QED BY <1>1, <1>4, <1>5, <1>6

\* Taking a law out of the queue leaves the others, each of them once.
LEMMA RemoveLaw ==
  ASSUME NEW queue \in Seq(Law), Once(queue), NEW l \in Range(queue)
  PROVE  LET q == RemoveAt(queue, Position(queue, l))
         IN  /\ q \in Seq(Law) /\ Once(q)
             /\ Range(q) = Range(queue) \ {l}
<1>1. PICK at \in DOMAIN queue : queue[at] = l BY DEF Range
<1>2. at = Position(queue, l) BY <1>1, PositionOf
<1> DEFINE a == SubSeq(queue, 1, at - 1)
           b == SubSeq(queue, at + 1, Len(queue))
<1>3. a \in Seq(Law) /\ Len(a) = at - 1 /\ \A i \in 1..(at - 1) : a[i] = queue[i]
  OBVIOUS
<1>4. b \in Seq(Law) /\ Len(b) = Len(queue) - at
      /\ \A i \in 1..(Len(queue) - at) : b[i] = queue[at + i]
  OBVIOUS
<1> DEFINE q == a \o b
<1>5. /\ q \in Seq(Law) /\ DOMAIN q = 1..(Len(queue) - 1)
      /\ \A i \in 1..(Len(queue) - 1) :
           q[i] = IF i < at THEN queue[i] ELSE queue[i + 1]
  <2> HIDE DEF a, b
  <2> QED BY <1>3, <1>4
<1>6. RemoveAt(queue, Position(queue, l)) = q BY <1>2 DEF RemoveAt
<1> HIDE DEF q
<1>7. Len(queue) \in Nat /\ DOMAIN queue = 1..Len(queue) OBVIOUS
<1>8. Once(q)
  <2>1. ASSUME NEW i \in DOMAIN q, NEW j \in DOMAIN q, q[i] = q[j] PROVE i = j
    <3> DEFINE place(k) == IF k < at THEN k ELSE k + 1
    <3>1. ASSUME NEW k \in DOMAIN q
          PROVE  q[k] = queue[place(k)] /\ place(k) \in DOMAIN queue
      BY <1>5, <1>7
    <3>2. place(i) = place(j)
      <4> HIDE DEF place
      <4> QED BY <2>1, <3>1 DEF Once
    <3>3. i \in Nat /\ j \in Nat /\ at \in Nat BY <1>5, <1>7
    <3> QED BY <3>2, <3>3
  <2> QED BY <2>1 DEF Once
<1>9. Range(q) = Range(queue) \ {l}
  <2>1. ASSUME NEW i \in DOMAIN q PROVE q[i] \in Range(queue) \ {l}
    <3>1. CASE i < at
      BY <3>1, <1>1, <1>5, <1>7 DEF Range, Once
    <3>2. CASE i >= at
      <4>1. i + 1 \in DOMAIN queue /\ q[i] = queue[i + 1] /\ i + 1 # at
        BY <3>2, <1>5, <1>7
      <4> QED BY <4>1, <1>1 DEF Range, Once
    <3> QED BY <3>1, <3>2, <1>5, <1>7
  <2>2. ASSUME NEW i \in DOMAIN queue, queue[i] # l PROVE queue[i] \in Range(q)
    <3>1. CASE i < at
      <4>1. i \in DOMAIN q /\ q[i] = queue[i] BY <3>1, <1>5, <1>7
      <4> QED BY <4>1 DEF Range
    <3>2. CASE i > at
      <4>1. i - 1 \in DOMAIN q /\ q[i - 1] = queue[i] BY <3>2, <1>5, <1>7
      <4> QED BY <4>1 DEF Range
    <3> QED BY <3>1, <3>2, <2>2, <1>1
  <2> QED BY <2>1, <2>2 DEF Range
<1> QED BY <1>5, <1>6, <1>8, <1>9

-----------------------------------------------------------------------------
(* The invariant of the state of the parliament *)

View == Populations \cup {Unreadable}

\* A law in the queue is there once and waits: a repeal keeps the status of the
\* promulgated law until it is announced.
Waits(s, l) ==
  \/ s.status[l] = "pending_queue"
  \/ ActionOf[l] = "derogacion" /\ s.status[l] = "promulgated"
QueueOK(s) == Once(s.queue) /\ \A l \in Range(s.queue) : Waits(s, l)

\* One activity at a time, and the status of its law says which.
StageOK(s) ==
  /\ s.deliberation = Nothing \/ s.window = Nothing
  /\ s.deliberation # Nothing => s.status[s.deliberation.law] = "in_deliberation"
  /\ s.window # Nothing => s.status[s.window.law] = "in_window"

\* A law that was discarded for its silences is not asked again.
SilentOK(s) == \A l \in Law : s.silent[l] = MaxSilent => s.status[l] = "discarded"

\* A law that was passed over is of an author that took none of the turns since.
Patience == IF Sample > QuotaLimit + 1 THEN Sample - QuotaLimit ELSE 1
PassedOK(s, l) ==
  /\ s.passed[l] <= Patience
  /\ s.passed[l] > 0 => Holder[l] # s.last
  /\ \A i \in 1..s.passed[l] : i <= Len(s.recent) => s.recent[i] # Holder[l]
TurnsOK(s) == s.remembered = s.last /\ \A l \in Law : PassedOK(s, l)

\* The ratchet of a scope has counted measures that were all lower than it is.
ScopeOK(r, measured) ==
  /\ r.n = 0 \/ r.n >= NMin
  /\ r.n = 0 => r.low = 0
  /\ r.low < DecayWindows /\ r.low <= Len(measured)
  /\ \A i \in 1..r.low : measured[i] < r.n
RatchetOK(s) == \A a \in Area \cup {None} : ScopeOK(s.ratchet[a], s.measures[a])

\* What the announcement froze is at least what was measured for it.
Fair(s, n, l) == n >= NZerosForAction(s.measures[AreaOf[l]][1], ActionOf[l])
PriceOK(s) ==
  s.deliberates =>
    /\ s.deliberation # Nothing /\ s.deliberation.measured =>
         Fair(s, s.deliberation.n, s.deliberation.law)
    /\ s.window # Nothing /\ s.window.measured => Fair(s, s.window.n, s.window.law)

AnnouncedOK(s) ==
  s.deliberation # Nothing /\ MinWorkers > 0 /\ ByArea =>
    s.deliberation.units # {} \/ s.deliberation.blind

AffairsOK(s) ==
  /\ s \in Nct /\ QueueOK(s) /\ StageOK(s) /\ SilentOK(s)
  /\ RatchetOK(s) /\ PriceOK(s) /\ AnnouncedOK(s)
StateOK(s) == AffairsOK(s) /\ TurnsOK(s)

PInv == TypeOK /\ StateOK(nct)

-----------------------------------------------------------------------------
(* Turns *)

\* What is left of a sequence is a sequence, not longer, that begins the same.
LEMMA LatestOf ==
  ASSUME NEW S, NEW seq \in Seq(S), NEW n \in Nat
  PROVE  /\ Latest(seq, n) \in Seq(S)
         /\ Len(Latest(seq, n)) = IF Len(seq) > n THEN n ELSE Len(seq)
         /\ \A i \in 1..Len(Latest(seq, n)) : Latest(seq, n)[i] = seq[i]
BY DEF Latest

\* The same for the sequence with one more in front.
InFront(q, x, seq, S, n) ==
  /\ q \in Seq(S)
  /\ Len(q) = IF Len(seq) + 1 > n THEN n ELSE Len(seq) + 1
  /\ \A i \in 1..Len(q) : q[i] = IF i = 1 THEN x ELSE seq[i - 1]

\* A measure, or a turn, is put in front of those that are remembered.
LEMMA LatestWith ==
  ASSUME NEW S, NEW seq \in Seq(S), NEW n \in Nat, NEW x \in S
  PROVE  InFront(Latest(<<x>> \o seq, n), x, seq, S, n)
<1> DEFINE t == <<x>> \o seq
<1>1. t \in Seq(S) /\ Len(t) = Len(seq) + 1
      /\ \A i \in 1..Len(t) : t[i] = IF i = 1 THEN x ELSE seq[i - 1]
  OBVIOUS
<1>2. /\ Latest(t, n) \in Seq(S)
      /\ Len(Latest(t, n)) = IF Len(t) > n THEN n ELSE Len(t)
      /\ \A i \in 1..Len(Latest(t, n)) : Latest(t, n)[i] = t[i]
  <2> HIDE DEF t
  <2> QED BY <1>1, LatestOf
<1> QED BY <1>1, <1>2 DEF InFront

\* An author over its quota who took none of the last p turns has more than its
\* share of the ones before, so p is small.
LEMMA QuotaBounds ==
  ASSUME NEW recent \in Seq(Author), NEW a \in Author, a \in OverQuota(recent),
         NEW p \in Nat \ {0}, p <= Patience,
         \A i \in 1..p : i <= Len(recent) => recent[i] # a
  PROVE  p + 1 <= Patience
<1> DEFINE S == {i \in 1..Sample : recent[i] = a}
<1>1. Len(recent) >= Sample /\ Cardinality(S) > QuotaLimit
  BY RulesAssumption DEF OverQuota
<1>2. S \subseteq (p + 1)..Sample
  <2>1. ASSUME NEW i \in S PROVE i \in (p + 1)..Sample
    BY <1>1, RulesAssumption
  <2> QED BY <2>1
<1>3. /\ IsFiniteSet((p + 1)..Sample)
      /\ Cardinality((p + 1)..Sample) = IF p + 1 > Sample THEN 0 ELSE Sample - p
  BY FS_Interval, RulesAssumption
<1>4. Cardinality(S) <= Cardinality((p + 1)..Sample) /\ Cardinality(S) \in Nat
  <2> HIDE DEF S
  <2> QED BY <1>2, <1>3, FS_Subset, FS_CardinalityType
<1> HIDE DEF S
<1> QED BY <1>1, <1>3, <1>4, RulesAssumption DEF Patience

\* Who takes the turn leaves the others no more passed over than they may be.
LEMMA TurnTaken ==
  ASSUME NEW s \in Nct, Once(s.queue), TurnsOK(s), NEW minable, NEW l, l # None,
         l = SelectNextLaw(s.queue, s.remembered, s.recent, minable),
         NEW t, t.passed = Pass(s, minable, l).passed,
         t.last = Holder[l], t.remembered = Holder[l],
         t.recent = Latest(<<Holder[l]>> \o s.recent, Sample)
  PROVE  TurnsOK(t)
<1> DEFINE at == Position(s.queue, l)
           ahead == {s.queue[i] : i \in 1..(at - 1)}
<1>1. s.queue \in Seq(Law) /\ s.recent \in Seq(Author) /\ s.passed \in [Law -> Nat]
  BY DEF Nct
<1>2. /\ l \in Law /\ at \in DOMAIN s.queue
      /\ \A i \in 1..(at - 1) :
           s.queue[i] \in minable =>
             /\ Holder[s.queue[i]] # Holder[l]
             /\ Holder[s.queue[i]] = s.last \/ Holder[s.queue[i]] \in OverQuota(s.recent)
  <2>1. l = SelectNextLaw(s.queue, s.remembered, s.recent, minable)
        /\ s.remembered = s.last
    BY DEF TurnsOK
  <2> DEFINE queue == s.queue
             last == s.remembered
             recent == s.recent
  <2>2. queue \in Seq(Law) /\ Once(queue) /\ l # None
        /\ l = SelectNextLaw(queue, last, recent, minable)
    BY <1>1, <2>1
  <2> HIDE DEF queue, last, recent
  <2>3. Chosen(queue, last, recent, minable, l) BY <2>2, SelectedLaw
  <2> QED BY <2>1, <2>3 DEF Chosen, queue, last, recent
<1>3. Holder[l] \in Author /\ Sample \in Nat /\ Patience \in Nat \ {0}
  BY <1>2, RulesAssumption DEF Patience
<1>4. /\ t.recent \in Seq(Author)
      /\ \A i \in 1..Len(t.recent) :
           /\ i # 1 => i - 1 \in 1..Len(s.recent)
           /\ t.recent[i] = IF i = 1 THEN Holder[l] ELSE s.recent[i - 1]
  <2> DEFINE recent == s.recent
             x == Holder[l]
             q == Latest(<<x>> \o recent, Sample)
  <2>1. recent \in Seq(Author) /\ x \in Author /\ t.recent = q BY <1>1, <1>3
  <2>2. Len(recent) \in Nat BY <2>1
  <2> HIDE DEF recent, x
  <2>3. InFront(q, x, recent, Author, Sample)
    BY <2>1, <1>3, LatestWith
  <2> HIDE DEF q
  <2> USE DEF InFront
  <2>4. ASSUME NEW i \in 1..Len(q), i # 1 PROVE i - 1 \in 1..Len(recent)
    BY <2>2, <2>3, <2>4, <1>3
  <2> QED BY <2>1, <2>3, <2>4 DEF recent, x
<1>5. ASSUME NEW k \in Law PROVE PassedOK(t, k)
  <2>1. t.passed[k] = IF k \in ahead \cap minable THEN s.passed[k] + 1 ELSE 0
    BY <1>1 DEF Pass, Nct
  <2>2. CASE t.passed[k] = 0
    <3>1. \A i \in 1..t.passed[k] : FALSE BY <2>2
    <3> QED BY <2>2, <3>1, <1>3 DEF PassedOK
  <2>3. CASE k \in ahead \cap minable
    <3>1. /\ t.passed[k] = s.passed[k] + 1 /\ s.passed[k] \in Nat
          /\ Holder[k] # Holder[l]
          /\ Holder[k] = s.last \/ Holder[k] \in OverQuota(s.recent)
      <4>1. PICK i \in 1..(at - 1) : k = s.queue[i] BY <2>3
      <4>2. s.queue[i] \in minable BY <4>1, <2>3
      <4> QED BY <4>1, <4>2, <2>1, <2>3, <1>1, <1>2
    <3>2. PassedOK(s, k) BY DEF TurnsOK
    <3>3. t.passed[k] <= Patience
      <4>1. CASE s.passed[k] = 0 BY <4>1, <3>1, <1>3
      <4>2. CASE s.passed[k] # 0
        <5>1. Holder[k] \in OverQuota(s.recent) BY <4>2, <3>1, <3>2 DEF PassedOK
        <5>2. s.passed[k] + 1 <= Patience
          BY <5>1, <4>2, <3>1, <3>2, <1>1, QuotaBounds, RulesAssumption DEF PassedOK
        <5> QED BY <5>2, <3>1
      <4> QED BY <4>1, <4>2
    <3>4. \A i \in 1..t.passed[k] : i <= Len(t.recent) => t.recent[i] # Holder[k]
      <4>1. ASSUME NEW i \in 1..t.passed[k], i <= Len(t.recent)
            PROVE  t.recent[i] # Holder[k]
        <5>1. i \in 1..Len(t.recent) BY <4>1, <1>4, <3>1
        <5>2. CASE i = 1 BY <5>1, <5>2, <3>1, <1>4
        <5>3. CASE i # 1
          <6>1. i - 1 \in 1..s.passed[k] /\ i - 1 <= Len(s.recent)
            <7>1. i - 1 \in 1..Len(s.recent) BY <5>1, <5>3, <1>4
            <7>2. i \in 1..(s.passed[k] + 1) BY <3>1
            <7> QED BY <7>1, <7>2, <5>3, <3>1, <1>1
          <6>2. t.recent[i] = s.recent[i - 1] BY <5>1, <5>3, <1>4
          <6> QED BY <6>1, <6>2, <3>2 DEF PassedOK
        <5> QED BY <5>2, <5>3
      <4> QED BY <4>1
    <3> QED BY <3>1, <3>3, <3>4 DEF PassedOK
  <2> QED BY <2>1, <2>2, <2>3
<1> QED BY <1>5 DEF TurnsOK

-----------------------------------------------------------------------------
(* What the handlers do to the state *)

\* A deliberation and a window are something.
LEMMA SomeThing ==
  /\ \A d \in Deliberation : d # Nothing
  /\ \A w \in Window : w # Nothing
<1>1. ASSUME NEW d \in Deliberation PROVE d # Nothing
  BY DEF Deliberation, Nothing
<1>2. ASSUME NEW w \in Window PROVE w # Nothing
  BY DEF Window, Nothing
<1> QED BY <1>1, <1>2

\* Taking a law out of the queue changes the queue only.
Without(s, t, l) ==
  /\ t \in Nct /\ Once(t.queue) /\ Range(t.queue) = Range(s.queue) \ {l}
  /\ t = [s EXCEPT !.queue = t.queue]

\* That is what LREM does.
LEMMA DequeueOf ==
  ASSUME NEW s \in Nct, Once(s.queue), NEW l \in Law
  PROVE  Without(s, Dequeue(s, l), l)
<1> DEFINE queue == s.queue
           q == IF l \in Range(queue) THEN RemoveAt(queue, Position(queue, l)) ELSE queue
<1>1. queue \in Seq(Law) /\ Once(queue) BY DEF Nct
<1>2. q \in Seq(Law) /\ Once(q) /\ Range(q) = Range(queue) \ {l}
  <2>1. CASE l \in Range(queue)
    <3> HIDE DEF queue
    <3> QED BY <1>1, <2>1, RemoveLaw
  <2>2. CASE l \notin Range(queue) BY <1>1, <2>2
  <2> QED BY <2>1, <2>2
<1>3. Dequeue(s, l) = [s EXCEPT !.queue = q] BY DEF Dequeue
<1> HIDE DEF q
<1>4. [s EXCEPT !.queue = q] \in Nct /\ [s EXCEPT !.queue = q].queue = q
  BY <1>2 DEF Nct
<1> QED BY <1>2, <1>3, <1>4 DEF Without

\* What the turns and the measures are is not changed.
Keeps(s, t) ==
  /\ t.deliberates = s.deliberates /\ t.ratchet = s.ratchet /\ t.measures = s.measures
  /\ t.last = s.last /\ t.remembered = s.remembered /\ t.recent = s.recent
  /\ t.passed = s.passed

\* The law that leaves the queue takes nothing else with it.
LEMMA WithoutSame ==
  ASSUME NEW s \in Nct, NEW t, NEW l, Without(s, t, l)
  PROVE  /\ Keeps(s, t) /\ t.deliberation = s.deliberation /\ t.window = s.window
         /\ t.status = s.status /\ t.silent = s.silent
<1>1. PICK q : t = [s EXCEPT !.queue = q] BY DEF Without
<1>2. /\ t.deliberates = s.deliberates /\ t.ratchet = s.ratchet /\ t.measures = s.measures
      /\ t.last = s.last /\ t.remembered = s.remembered /\ t.recent = s.recent
      /\ t.passed = s.passed /\ t.deliberation = s.deliberation /\ t.window = s.window
      /\ t.status = s.status /\ t.silent = s.silent
  BY <1>1 DEF Nct
<1> QED BY <1>2 DEF Keeps

\* Then the rest is to be seen.
LEMMA KeepsOK ==
  ASSUME NEW s, StateOK(s), NEW t \in Nct, Keeps(s, t),
         QueueOK(t), StageOK(t), SilentOK(t), PriceOK(t), AnnouncedOK(t)
  PROVE  StateOK(t)
<1>1. RatchetOK(t) BY DEF StateOK, AffairsOK, RatchetOK, Keeps
<1>2. TurnsOK(t) BY DEF StateOK, TurnsOK, PassedOK, Keeps
<1> QED BY <1>1, <1>2 DEF StateOK, AffairsOK

Idle(s) == s.deliberation = Nothing /\ s.window = Nothing

\* The end of the deliberation.
LEMMA EndedOK ==
  ASSUME NEW s, StateOK(s), s.deliberation # Nothing
  PROVE  LET l == s.deliberation.law
             t == EndDeliberation(s, l)
         IN  /\ StateOK(t) /\ Keeps(s, t) /\ Idle(t)
             /\ l \in Law /\ t.status = s.status /\ t.queue = s.queue /\ t.silent = s.silent
<1> DEFINE l == s.deliberation.law
           t == EndDeliberation(s, l)
<1>1. s \in Nct /\ l \in Law BY DEF StateOK, AffairsOK, Nct, Deliberation
<1>2. NoAnswers \in Given BY DEF NoAnswers, Given
<1>3. /\ t \in Nct /\ Keeps(s, t) /\ t.deliberation = Nothing /\ t.window = s.window
      /\ t.status = s.status /\ t.queue = s.queue /\ t.silent = s.silent
  BY <1>1, <1>2 DEF EndDeliberation, Nct, Keeps
<1>4. Idle(t) BY <1>3 DEF StateOK, AffairsOK, StageOK, Idle
<1> HIDE DEF t
<1>5. QueueOK(t) /\ SilentOK(t) BY <1>3 DEF StateOK, AffairsOK, QueueOK, SilentOK, Waits
<1>6. StageOK(t) /\ PriceOK(t) /\ AnnouncedOK(t)
  BY <1>4 DEF StageOK, PriceOK, AnnouncedOK, Idle
<1>7. StateOK(t) BY <1>3, <1>5, <1>6, KeepsOK
<1> QED BY <1>1, <1>3, <1>4, <1>7 DEF t

\* The end of the window.
LEMMA ClosedOK ==
  ASSUME NEW s, StateOK(s), s.window # Nothing
  PROVE  LET t == [s EXCEPT !.window = Nothing]
         IN  /\ StateOK(t) /\ Keeps(s, t) /\ Idle(t)
             /\ s.window.law \in Law /\ s.status[s.window.law] = "in_window"
             /\ t.status = s.status /\ t.queue = s.queue
<1> DEFINE t == [s EXCEPT !.window = Nothing]
<1>1. s \in Nct /\ s.window.law \in Law BY DEF StateOK, AffairsOK, Nct, Window
<1>2. /\ t \in Nct /\ Keeps(s, t) /\ t.window = Nothing /\ t.deliberation = s.deliberation
      /\ t.status = s.status /\ t.queue = s.queue /\ t.silent = s.silent
  BY <1>1 DEF Nct, Keeps
<1>3. Idle(t) /\ s.status[s.window.law] = "in_window"
  BY <1>2 DEF StateOK, AffairsOK, StageOK, Idle
<1> HIDE DEF t
<1>4. QueueOK(t) /\ SilentOK(t) BY <1>2 DEF StateOK, AffairsOK, QueueOK, SilentOK, Waits
<1>5. StageOK(t) /\ PriceOK(t) /\ AnnouncedOK(t)
  BY <1>3 DEF StageOK, PriceOK, AnnouncedOK, Idle
<1>6. StateOK(t) BY <1>2, <1>4, <1>5, KeepsOK
<1> QED BY <1>1, <1>2, <1>3, <1>6 DEF t

\* What is decided on a law that neither waits in the queue nor is in a
\* deliberation or a window.
LEMMA DecidedOK ==
  ASSUME NEW s, StateOK(s), Idle(s), NEW l \in Law, NEW t \in Nct, Keeps(s, t), Idle(t),
         \/ l \notin Range(s.queue)
         \/ t.status[l] = "pending_queue"
         \/ ActionOf[l] = "derogacion" /\ t.status[l] = "promulgated",
         t.queue = s.queue,
         \A k \in Law \ {l} : t.status[k] = s.status[k] /\ t.silent[k] = s.silent[k],
         t.silent[l] = MaxSilent => t.status[l] = "discarded"
  PROVE  StateOK(t)
<1>1. s.queue \in Seq(Law) /\ Range(s.queue) \subseteq Law
  BY DEF StateOK, AffairsOK, Nct, Range
<1>2. QueueOK(t)
  <2>1. ASSUME NEW k \in Range(s.queue) PROVE Waits(t, k)
    BY <1>1, <2>1 DEF StateOK, AffairsOK, QueueOK, Waits
  <2> QED BY <2>1 DEF StateOK, AffairsOK, QueueOK
<1>3. SilentOK(t) BY DEF StateOK, AffairsOK, SilentOK
<1>4. StageOK(t) /\ PriceOK(t) /\ AnnouncedOK(t)
  BY DEF StageOK, PriceOK, AnnouncedOK, Idle
<1> QED BY <1>2, <1>3, <1>4, KeepsOK

\* A law enters the queue at its end.
LEMMA EnqueueOK ==
  ASSUME NEW s, StateOK(s), NEW l \in Law, l \notin Range(s.queue), Waits(s, l)
  PROVE  LET t == Enqueue(s, l)
         IN  /\ StateOK(t) /\ Keeps(s, t)
             /\ t.deliberation = s.deliberation /\ t.window = s.window
<1> DEFINE t == Enqueue(s, l)
<1>1. s \in Nct /\ s.queue \in Seq(Law) BY DEF StateOK, AffairsOK, Nct
<1>2. /\ t \in Nct /\ Keeps(s, t) /\ t.window = s.window /\ t.deliberation = s.deliberation
      /\ t.status = s.status /\ t.silent = s.silent /\ t.queue = Append(s.queue, l)
  <2> DEFINE q == Append(s.queue, l)
  <2>1. q \in Seq(Law) BY <1>1
  <2>2. t = [s EXCEPT !.queue = q] BY DEF Enqueue
  <2> HIDE DEF q, t
  <2>3. /\ t \in Nct /\ Keeps(s, t) /\ t.window = s.window /\ t.deliberation = s.deliberation
        /\ t.status = s.status /\ t.silent = s.silent /\ t.queue = q
    BY <1>1, <2>1, <2>2 DEF Nct, Keeps
  <2> QED BY <2>3 DEF q
<1> HIDE DEF t
<1>3. /\ Len(t.queue) = Len(s.queue) + 1 /\ t.queue \in Seq(Law) /\ Len(s.queue) \in Nat
      /\ \A i \in 1..Len(s.queue) : t.queue[i] = s.queue[i]
      /\ t.queue[Len(s.queue) + 1] = l
  BY <1>1, <1>2
<1>4. \A i \in 1..Len(s.queue) : s.queue[i] # l /\ s.queue[i] \in Range(s.queue)
  BY <1>1 DEF Range
<1>5. Once(t.queue)
  <2>1. \A i, j \in 1..Len(s.queue) : s.queue[i] = s.queue[j] => i = j
    BY <1>1 DEF StateOK, AffairsOK, QueueOK, Once
  <2>2. ASSUME NEW i \in 1..(Len(s.queue) + 1), NEW j \in 1..(Len(s.queue) + 1),
               t.queue[i] = t.queue[j]
        PROVE  i = j
    <3>1. CASE i \in 1..Len(s.queue) /\ j \in 1..Len(s.queue)
      BY <3>1, <2>1, <2>2, <1>3
    <3>2. CASE i = Len(s.queue) + 1 /\ j \in 1..Len(s.queue)
      BY <3>2, <2>2, <1>3, <1>4
    <3>3. CASE j = Len(s.queue) + 1 /\ i \in 1..Len(s.queue)
      BY <3>3, <2>2, <1>3, <1>4
    <3> QED BY <3>1, <3>2, <3>3, <1>3
  <2>3. DOMAIN t.queue = 1..(Len(s.queue) + 1) BY <1>3
  <2> QED BY <2>2, <2>3 DEF Once
<1>6. Range(t.queue) \subseteq Range(s.queue) \cup {l}
  <2>1. ASSUME NEW i \in 1..Len(t.queue) PROVE t.queue[i] \in Range(s.queue) \cup {l}
    <3>1. i \in 1..Len(s.queue) \/ i = Len(s.queue) + 1 BY <1>3
    <3>2. CASE i \in 1..Len(s.queue) BY <3>2, <1>3, <1>4
    <3>3. CASE i = Len(s.queue) + 1 BY <3>3, <1>3
    <3> QED BY <3>1, <3>2, <3>3
  <2> QED BY <2>1, <1>3 DEF Range
<1>7. QueueOK(t)
  BY <1>2, <1>5, <1>6 DEF StateOK, AffairsOK, QueueOK, Waits
<1>8. SilentOK(t) /\ StageOK(t) /\ AnnouncedOK(t)
  BY <1>2 DEF StateOK, AffairsOK, SilentOK, StageOK, AnnouncedOK
<1>9. PriceOK(t) BY <1>2 DEF StateOK, AffairsOK, PriceOK, Fair, Keeps
<1>10. StateOK(t) BY <1>2, <1>7, <1>8, <1>9, KeepsOK
<1> QED BY <1>2, <1>10 DEF t

\* The window of a law is opened: its law leaves the queue.
LEMMA OpenOK ==
  ASSUME NEW s, AffairsOK(s), Idle(s), NEW l \in Law, s.status[l] # "discarded",
         NEW n \in Nat, NEW measured \in BOOLEAN, NEW miners \in SUBSET Worker,
         s.deliberates /\ measured => Fair(s, n, l)
  PROVE  LET t == OpenFrozen(s, l, n, measured, miners)
         IN  AffairsOK(t) /\ Keeps(s, t)
<1> DEFINE w == [law |-> l, n |-> n, measured |-> measured, miners |-> miners]
           u == [s EXCEPT !.status[l] = "in_window", !.window = w]
           t == OpenFrozen(s, l, n, measured, miners)
<1>1. s \in Nct /\ s.queue \in Seq(Law) BY DEF AffairsOK, Nct
<1>2. w \in Window /\ w # Nothing BY SomeThing DEF Window
<1>3. /\ u \in Nct /\ Keeps(s, u) /\ u.queue = s.queue /\ u.window = w
      /\ u.deliberation = Nothing /\ u.silent = s.silent /\ u.status[l] = "in_window"
      /\ \A k \in Law \ {l} : u.status[k] = s.status[k]
  BY <1>1, <1>2 DEF Nct, Status, Keeps, Idle
<1>4. w.law = l /\ w.n = n /\ w.measured = measured OBVIOUS
<1> HIDE DEF w, u
<1>5. Without(u, t, l)
  <2>1. Once(u.queue) BY <1>3 DEF AffairsOK, QueueOK
  <2> QED BY <1>3, <2>1, DequeueOf DEF OpenFrozen, u, w
<1>6. /\ t \in Nct /\ Keeps(s, t) /\ t.window = w
      /\ t.deliberation = Nothing /\ t.silent = s.silent /\ t.status[l] = "in_window"
      /\ \A k \in Law \ {l} : t.status[k] = s.status[k]
      /\ Once(t.queue) /\ Range(t.queue) = Range(s.queue) \ {l}
  <2>1. t \in Nct /\ Once(t.queue) /\ Range(t.queue) = Range(s.queue) \ {l}
    BY <1>3, <1>5 DEF Without
  <2>2. Keeps(u, t) BY <1>3, <1>5, WithoutSame
  <2>3. Keeps(s, t) BY <1>3, <2>2 DEF Keeps
  <2> QED BY <1>3, <1>5, <2>1, <2>3, WithoutSame
<1> HIDE DEF t
<1>7. QueueOK(t)
  <2>1. Range(s.queue) \subseteq Law BY <1>1 DEF Range
  <2> QED BY <1>6, <2>1 DEF AffairsOK, QueueOK, Waits
<1>8. SilentOK(t) BY <1>6 DEF AffairsOK, SilentOK
<1>9. StageOK(t) /\ AnnouncedOK(t) BY <1>2, <1>4, <1>6 DEF StageOK, AnnouncedOK
<1>10. PriceOK(t) BY <1>4, <1>6 DEF PriceOK, Fair, Keeps
<1>11. RatchetOK(t) BY <1>6 DEF AffairsOK, RatchetOK, Keeps
<1> QED BY <1>6, <1>7, <1>8, <1>9, <1>10, <1>11 DEF AffairsOK, t

\* The outcome of a deliberation keeps the state right.
LEMMA ResolveOK ==
  ASSUME NEW s, StateOK(s), s.deliberation # Nothing
  PROVE  StateOK(ResolveDeliberation(s)) /\ Keeps(s, ResolveDeliberation(s))
<1> DEFINE d == s.deliberation
           l == d.law
           silences == s.silent[l] + 1
           t == EndDeliberation(s, l)
           given == s.answers[l]
<1>1. /\ s \in Nct /\ d \in Deliberation /\ l \in Law /\ s.status[l] = "in_deliberation"
      /\ d.n \in Nat /\ d.measured \in BOOLEAN /\ d.units \in SUBSET Worker
  BY DEF StateOK, AffairsOK, StageOK, Nct, Deliberation
<1>2. /\ StateOK(t) /\ Keeps(s, t) /\ Idle(t)
      /\ t.status = s.status /\ t.queue = s.queue /\ t.silent = s.silent
  BY EndedOK
<1>3. /\ l \notin Range(t.queue) /\ t \in Nct /\ s.silent[l] # MaxSilent
      /\ s.silent[l] \in 0..MaxSilent /\ MaxSilent \in Nat \ {0}
  BY <1>1, <1>2, ParliamentAssumption
     DEF StateOK, AffairsOK, QueueOK, Waits, SilentOK, Nct
<1>4. s.deliberates /\ d.measured => Fair(s, d.n, l)
  BY DEF StateOK, AffairsOK, PriceOK
<1> DEFINE r == ResolveDeliberation(s)
           outcome == Resolve(d.units, given, d.default)
           discarded == [t EXCEPT !.status[l] = "discarded"]
           opened == [t EXCEPT !.silent[l] = 0]
           asked == [t EXCEPT !.silent[l] = silences, !.status[l] = "pending_queue"]
<1>5. \/ r = OpenFrozen(opened, l, d.n, d.measured, Accepters(d.units, given, d.default))
      \/ r = [discarded EXCEPT !.texts = @ \cup {l}]
      \/ r = [discarded EXCEPT !.silent[l] = silences] /\ silences >= MaxSilent
      \/ r = Enqueue(asked, l) /\ ~(silences >= MaxSilent)
  BY DEF ResolveDeliberation, Resolve, Enough
<1> HIDE DEF t, d, l, r
<1>6. CASE r = OpenFrozen(opened, l, d.n, d.measured, Accepters(d.units, given, d.default))
  <2>1. /\ opened \in Nct /\ Keeps(t, opened) /\ Idle(opened) /\ opened.queue = t.queue
        /\ opened.silent[l] = 0 /\ opened.status = t.status
        /\ \A k \in Law \ {l} : opened.silent[k] = t.silent[k]
    <3> DEFINE silent == [t.silent EXCEPT ![l] = 0]
    <3>1. t.silent \in [Law -> 0..MaxSilent] /\ 0 \in 0..MaxSilent BY <1>3 DEF Nct
    <3>2. /\ silent \in [Law -> 0..MaxSilent] /\ silent[l] = 0
          /\ \A k \in Law \ {l} : silent[k] = t.silent[k]
      BY <1>1, <3>1
    <3>3. opened = [t EXCEPT !.silent = silent] BY <1>3 DEF Nct
    <3> HIDE DEF silent, opened
    <3> QED BY <1>2, <1>3, <3>2, <3>3 DEF Nct, Keeps, Idle
  <2> DEFINE miners == Accepters(d.units, given, d.default)
  <2>2. miners \in SUBSET Worker BY <1>1 DEF Accepters
  <2> HIDE DEF opened, miners
  <2>3. StateOK(opened) BY <2>1, <1>1, <1>2, <1>3, DecidedOK
  <2>4. opened.deliberates /\ d.measured => Fair(opened, d.n, l)
    BY <1>2, <1>4, <2>1 DEF Keeps, Fair
  <2>5. opened.status[l] # "discarded" BY <2>1, <1>1, <1>2
  <2>6. AffairsOK(OpenFrozen(opened, l, d.n, d.measured, miners))
        /\ Keeps(opened, OpenFrozen(opened, l, d.n, d.measured, miners))
    <3> DEFINE n == d.n
               measured == d.measured
    <3>1. n \in Nat /\ measured \in BOOLEAN BY <1>1
    <3>2. opened.deliberates /\ measured => Fair(opened, n, l) BY <2>4
    <3> HIDE DEF n, measured
    <3>3. AffairsOK(OpenFrozen(opened, l, n, measured, miners))
          /\ Keeps(opened, OpenFrozen(opened, l, n, measured, miners))
      BY <2>1, <2>2, <2>3, <2>5, <3>1, <3>2, <1>1, OpenOK DEF StateOK
    <3> QED BY <3>3 DEF n, measured
  <2>7. AffairsOK(r) /\ Keeps(opened, r) BY <2>6, <1>6 DEF miners
  <2>8. Keeps(s, r) BY <2>7, <2>1, <1>2 DEF Keeps
  <2>9. TurnsOK(r) BY <2>8 DEF StateOK, TurnsOK, PassedOK, Keeps
  <2> QED BY <2>7, <2>8, <2>9 DEF StateOK, r
<1>7. CASE r = [discarded EXCEPT !.texts = @ \cup {l}]
  <2>1. /\ r \in Nct /\ Keeps(t, r) /\ Idle(r) /\ r.queue = t.queue
        /\ r.status[l] = "discarded" /\ r.silent = t.silent
        /\ \A k \in Law \ {l} : r.status[k] = t.status[k]
    BY <1>1, <1>2, <1>3, <1>7 DEF Nct, Status, Keeps, Idle
  <2>2. StateOK(r) BY <2>1, <1>1, <1>2, <1>3, DecidedOK
  <2> QED BY <2>1, <2>2, <1>2 DEF Keeps, r
<1>8. CASE r = [discarded EXCEPT !.silent[l] = silences] /\ silences >= MaxSilent
  <2>1. silences \in 0..MaxSilent BY <1>3
  <2> HIDE DEF silences
  <2>2. /\ r \in Nct /\ Keeps(t, r) /\ Idle(r) /\ r.queue = t.queue
        /\ r.status[l] = "discarded"
        /\ \A k \in Law \ {l} : r.status[k] = t.status[k] /\ r.silent[k] = t.silent[k]
    <3> DEFINE status == [t.status EXCEPT ![l] = "discarded"]
               silent == [t.silent EXCEPT ![l] = silences]
    <3>1. /\ status \in [Law -> Status] /\ status[l] = "discarded"
          /\ \A k \in Law \ {l} : status[k] = t.status[k]
      BY <1>1, <1>3 DEF Nct, Status
    <3>2. /\ silent \in [Law -> 0..MaxSilent]
          /\ \A k \in Law \ {l} : silent[k] = t.silent[k]
      BY <1>1, <1>3, <2>1 DEF Nct
    <3>3. r = [t EXCEPT !.status = status, !.silent = silent] BY <1>3, <1>8 DEF Nct
    <3> HIDE DEF status, silent
    <3>4. r \in Nct /\ r.status = status /\ r.silent = silent
      BY <1>3, <3>1, <3>2, <3>3 DEF Nct
    <3>5. Keeps(t, r) /\ Idle(r) /\ r.queue = t.queue
      BY <1>2, <1>3, <3>3 DEF Nct, Keeps, Idle
    <3> QED BY <3>1, <3>2, <3>4, <3>5
  <2>3. StateOK(r) BY <2>2, <1>1, <1>2, <1>3, DecidedOK
  <2> QED BY <2>2, <2>3, <1>2 DEF Keeps, r
<1>9. CASE r = Enqueue(asked, l) /\ ~(silences >= MaxSilent)
  <2>1. silences \in 0..MaxSilent /\ silences # MaxSilent BY <1>3, <1>9
  <2> HIDE DEF silences
  <2>2. /\ asked \in Nct /\ Keeps(t, asked) /\ Idle(asked) /\ asked.queue = t.queue
        /\ asked.status[l] = "pending_queue" /\ asked.silent[l] = silences
        /\ \A k \in Law \ {l} : asked.status[k] = t.status[k] /\ asked.silent[k] = t.silent[k]
    BY <1>1, <1>2, <1>3, <2>1 DEF Nct, Status, Keeps, Idle
  <2> HIDE DEF asked
  <2>3. StateOK(asked) BY <2>1, <2>2, <1>1, <1>2, <1>3, DecidedOK
  <2>4. l \notin Range(asked.queue) /\ Waits(asked, l) BY <2>2, <1>3 DEF Waits
  <2>5. StateOK(r) /\ Keeps(asked, r) BY <2>3, <2>4, <1>1, <1>9, EnqueueOK
  <2> QED BY <2>2, <2>5, <1>2 DEF Keeps, r
<1> QED BY <1>5, <1>6, <1>7, <1>8, <1>9 DEF r

\* A sealed block ends its window.
LEMMA SealedOK ==
  ASSUME NEW s, StateOK(s), s.window # Nothing
  PROVE  StateOK(CloseSealed(s)) /\ Keeps(s, CloseSealed(s))
<1> DEFINE l == s.window.law
           t == [s EXCEPT !.window = Nothing]
           r == CloseSealed(s)
<1>1. /\ StateOK(t) /\ Keeps(s, t) /\ Idle(t) /\ l \in Law /\ s.status[l] = "in_window"
      /\ t.status = s.status /\ t.queue = s.queue
  BY ClosedOK
<1>2. r = [t EXCEPT !.status[l] = IF ActionOf[l] = "promulgacion" THEN "promulgated"
                                                                 ELSE "repealed"]
  <2>1. s \in Nct BY DEF StateOK, AffairsOK
  <2> QED BY <2>1, <1>1 DEF CloseSealed, Nct
<1> HIDE DEF t, l, r
<1>3. l \notin Range(t.queue) /\ t \in Nct /\ t.silent[l] # MaxSilent
  BY <1>1 DEF StateOK, AffairsOK, QueueOK, Waits, SilentOK
<1>4. /\ r \in Nct /\ Keeps(t, r) /\ Idle(r) /\ r.queue = t.queue /\ r.silent = t.silent
      /\ \A k \in Law \ {l} : r.status[k] = t.status[k]
  BY <1>1, <1>2, <1>3 DEF Nct, Status, Keeps, Idle
<1>5. StateOK(r) BY <1>1, <1>3, <1>4, DecidedOK
<1> QED BY <1>1, <1>4, <1>5 DEF Keeps, r

\* So does the deadline.
LEMMA ExpiredOK ==
  ASSUME NEW s, StateOK(s), s.window # Nothing, NEW v
  PROVE  StateOK(CloseExpired(s, v)) /\ Keeps(s, CloseExpired(s, v))
<1> DEFINE l == s.window.law
           t == [s EXCEPT !.window = Nothing]
           r == CloseExpired(s, v)
           back == [t EXCEPT !.status[l] = "pending_queue"]
<1>1. /\ StateOK(t) /\ Keeps(s, t) /\ Idle(t) /\ l \in Law /\ s.status[l] = "in_window"
      /\ t.status = s.status /\ t.queue = s.queue
  BY ClosedOK
<1>2. \/ r = [t EXCEPT !.status[l] = "discarded", !.texts = @ \cup {l}]
      \/ r = Enqueue(back, l)
  BY DEF CloseExpired
<1> HIDE DEF t, l, r
<1>3. l \notin Range(t.queue) /\ t \in Nct /\ t.silent[l] # MaxSilent
  BY <1>1 DEF StateOK, AffairsOK, QueueOK, Waits, SilentOK
<1>4. CASE r = [t EXCEPT !.status[l] = "discarded", !.texts = @ \cup {l}]
  <2>1. /\ r \in Nct /\ Keeps(t, r) /\ Idle(r) /\ r.queue = t.queue /\ r.silent = t.silent
        /\ \A k \in Law \ {l} : r.status[k] = t.status[k]
    BY <1>1, <1>3, <1>4 DEF Nct, Status, Keeps, Idle
  <2>2. StateOK(r) BY <2>1, <1>1, <1>3, DecidedOK
  <2> QED BY <1>1, <2>1, <2>2 DEF Keeps, r
<1>5. CASE r = Enqueue(back, l)
  <2>1. /\ back \in Nct /\ Keeps(t, back) /\ Idle(back) /\ back.queue = t.queue
        /\ back.silent = t.silent /\ back.status[l] = "pending_queue"
        /\ \A k \in Law \ {l} : back.status[k] = t.status[k]
    BY <1>1, <1>3 DEF Nct, Status, Keeps, Idle
  <2> HIDE DEF back
  <2>2. StateOK(back) BY <2>1, <1>1, <1>3, DecidedOK
  <2>3. l \notin Range(back.queue) /\ Waits(back, l) BY <2>1, <1>3 DEF Waits
  <2>4. StateOK(r) /\ Keeps(back, r) BY <2>2, <2>3, <1>1, <1>5, EnqueueOK
  <2> QED BY <1>1, <2>1, <2>4 DEF Keeps, r
<1> QED BY <1>2, <1>4, <1>5 DEF r

\* A takeover puts the law of the deliberation back.
LEMMA RecoverOK ==
  ASSUME NEW s, StateOK(s)
  PROVE  StateOK(RecoverDeliberation(s)) /\ Keeps(s, RecoverDeliberation(s))
<1>1. CASE s.deliberation = Nothing BY <1>1 DEF RecoverDeliberation, Keeps
<1>2. CASE s.deliberation # Nothing
  <2> DEFINE l == s.deliberation.law
             t == EndDeliberation(s, l)
             back == [t EXCEPT !.status[l] = "pending_queue"]
             r == RecoverDeliberation(s)
  <2>1. /\ StateOK(t) /\ Keeps(s, t) /\ Idle(t) /\ l \in Law
        /\ t.status = s.status /\ t.queue = s.queue /\ t.silent = s.silent
    BY <1>2, EndedOK
  <2>2. s.status[l] = "in_deliberation" BY <1>2 DEF StateOK, AffairsOK, StageOK
  <2>3. r = Enqueue(back, l) BY <1>2 DEF RecoverDeliberation
  <2> HIDE DEF t, l, r
  <2>4. l \notin Range(t.queue) /\ t \in Nct /\ t.silent[l] # MaxSilent
    BY <2>1, <2>2 DEF StateOK, AffairsOK, QueueOK, Waits, SilentOK
  <2>5. /\ back \in Nct /\ Keeps(t, back) /\ Idle(back) /\ back.queue = t.queue
        /\ back.silent = t.silent /\ back.status[l] = "pending_queue"
        /\ \A k \in Law \ {l} : back.status[k] = t.status[k]
    BY <2>1, <2>4 DEF Nct, Status, Keeps, Idle
  <2> HIDE DEF back
  <2>6. StateOK(back) BY <2>1, <2>4, <2>5, DecidedOK
  <2>7. l \notin Range(back.queue) /\ Waits(back, l) BY <2>4, <2>5 DEF Waits
  <2>8. StateOK(r) /\ Keeps(back, r) BY <2>1, <2>3, <2>6, <2>7, EnqueueOK
  <2> QED BY <2>1, <2>5, <2>8 DEF Keeps, r
<1> QED BY <1>1, <1>2

-----------------------------------------------------------------------------
(* Difficulty *)

\* The difficulty of no scope falls by more than one zero, nor before enough
\* measures below it.
Slow(s, t) ==
  \A a \in Area \cup {None} :
    t.ratchet[a].n < s.ratchet[a].n =>
      /\ t.ratchet[a].n = s.ratchet[a].n - 1
      /\ Len(t.measures[a]) = DecayWindows
      /\ \A i \in 1..DecayWindows : t.measures[a][i] < s.ratchet[a].n

\* One measure: the ratchet r of the measures ms becomes u, of ns.
Measured(r, ms, u, ns) ==
  /\ u \in Ratchet /\ ns \in Seq(Nat) /\ ScopeOK(u, ns)
  /\ u.n \in NMin..NMax /\ u.n >= ns[1] /\ ns[1] \in Nat
  /\ u.n < r.n => /\ u.n = r.n - 1 /\ Len(ns) = DecayWindows
                  /\ \A i \in 1..DecayWindows : ns[i] < r.n

\* The ratchet counts right.
LEMMA MeasuredOK ==
  ASSUME NEW r \in Ratchet, NEW ms \in Seq(Nat), ScopeOK(r, ms), NEW m \in NMin..NMax
  PROVE  Measured(r, ms, Update(r, m), Latest(<<m>> \o ms, DecayWindows))
<1> DEFINE u == Update(r, m)
           ns == Latest(<<m>> \o ms, DecayWindows)
<1>1. /\ r.n \in Nat /\ r.low \in Nat /\ m \in Nat /\ DecayWindows \in Nat \ {0}
      /\ NMin \in Nat \ {0} /\ Len(ms) \in Nat /\ \A i \in 1..Len(ms) : ms[i] \in Nat
  BY RulesAssumption DEF Ratchet
<1>2. /\ u \in Ratchet /\ u.n \in NMin..NMax /\ u.n >= m /\ u.low < DecayWindows
      /\ u.low = 0 \/ (m < r.n /\ u = [n |-> r.n, low |-> r.low + 1])
                   \/ (r.n = 0 /\ u.low = r.low)
      /\ u.n < r.n => /\ u.n = r.n - 1 /\ m < r.n /\ r.low + 1 = DecayWindows
  BY UpdateRatchet DEF ScopeOK
<1>3. InFront(ns, m, ms, Nat, DecayWindows) BY <1>1, LatestWith
<1> HIDE DEF u, ns
<1>4. /\ ns \in Seq(Nat) /\ Len(ns) \in Nat /\ Len(ns) >= 1 /\ ns[1] = m
      /\ Len(ns) = IF Len(ms) + 1 > DecayWindows THEN DecayWindows ELSE Len(ms) + 1
      /\ \A i \in 1..Len(ns) : i = 1 \/ (i - 1 \in 1..Len(ms) /\ ns[i] = ms[i - 1])
  <2>1. /\ ns \in Seq(Nat)
        /\ Len(ns) = IF Len(ms) + 1 > DecayWindows THEN DecayWindows ELSE Len(ms) + 1
        /\ \A i \in 1..Len(ns) : ns[i] = IF i = 1 THEN m ELSE ms[i - 1]
    BY <1>3 DEF InFront
  <2>2. Len(ns) \in Nat /\ Len(ns) >= 1 /\ Len(ns) <= Len(ms) + 1 BY <1>1, <2>1
  <2>3. ns[1] = m BY <2>1, <2>2
  <2>4. ASSUME NEW i \in 1..Len(ns), i # 1 PROVE i - 1 \in 1..Len(ms) /\ ns[i] = ms[i - 1]
    <3>1. ns[i] = ms[i - 1] BY <2>1, <2>4
    <3>2. i \in Nat /\ i >= 2 /\ i <= Len(ns) BY <2>2, <2>4
    <3>3. i - 1 \in 1..Len(ms) BY <1>1, <2>2, <3>2
    <3> QED BY <3>1, <3>3
  <2> QED BY <2>1, <2>2, <2>3, <2>4
<1>5. r.low < DecayWindows /\ r.low <= Len(ms) /\ \A i \in 1..r.low : ms[i] < r.n
  BY DEF ScopeOK
<1>6. ScopeOK(u, ns)
  <2>1. CASE u.low = 0 BY <2>1, <1>1, <1>2, <1>4 DEF ScopeOK
  <2>2. CASE m < r.n /\ u = [n |-> r.n, low |-> r.low + 1]
    <3>1. u.n = r.n /\ u.low = r.low + 1 BY <2>2
    <3>2. u.low <= Len(ns) BY <3>1, <1>1, <1>2, <1>4, <1>5
    <3>3. ASSUME NEW i \in 1..u.low PROVE ns[i] < u.n
      <4>1. i \in 1..Len(ns)
        <5>1. u.low \in Nat /\ Len(ns) \in Nat BY <3>1, <1>1, <1>4
        <5> QED BY <3>2, <5>1
      <4>2. CASE i = 1 BY <4>2, <2>2, <3>1, <1>4
      <4>3. CASE i # 1
        <5>1. i - 1 \in 1..r.low BY <4>3, <3>1, <1>1
        <5> QED BY <4>1, <4>3, <5>1, <3>1, <1>4, <1>5
      <4> QED BY <4>2, <4>3
    <3> QED BY <3>1, <3>2, <3>3, <1>1, <1>2 DEF ScopeOK
  <2>3. CASE r.n = 0 /\ u.low = r.low
    <3>1. u.low = 0 BY <2>3 DEF ScopeOK
    <3> QED BY <2>1, <3>1
  <2> QED BY <1>2, <2>1, <2>2, <2>3
<1>7. ASSUME u.n < r.n
      PROVE  Len(ns) = DecayWindows /\ \A i \in 1..DecayWindows : ns[i] < r.n
  <2>1. r.low = DecayWindows - 1 /\ m < r.n BY <1>7, <1>1, <1>2
  <2>2. Len(ns) = DecayWindows BY <2>1, <1>1, <1>4, <1>5
  <2>3. ASSUME NEW i \in 1..DecayWindows PROVE ns[i] < r.n
    <3>1. CASE i = 1 BY <3>1, <2>1, <1>4
    <3>2. CASE i # 1
      <4>1. i - 1 \in 1..r.low BY <3>2, <2>1, <1>1
      <4> QED BY <3>2, <4>1, <2>2, <1>4, <1>5
    <3> QED BY <3>1, <3>2
  <2> QED BY <2>2, <2>3
<1> QED BY <1>1, <1>2, <1>4, <1>6, <1>7 DEF Measured, u, ns

\* A measure of the scope a, and nothing else, makes t of s.
MeasureOf(s, t, a) ==
  /\ AffairsOK(t) /\ Idle(t) /\ Slow(s, t)
  /\ t.ratchet[a].n \in NMin..NMax /\ t.ratchet[a].n >= t.measures[a][1]
  /\ t.measures[a][1] \in Nat
  /\ t = [s EXCEPT !.ratchet = t.ratchet, !.measures = t.measures]

\* A measure changes one scope; nothing is announced meanwhile.
LEMMA MeasureOK ==
  ASSUME NEW s, AffairsOK(s), Idle(s), NEW a \in Area \cup {None}, NEW power
  PROVE  MeasureOf(s, Measure(s, a, power), a)
<1> DEFINE t == Measure(s, a, power)
           m == DifficultyFor(power)
           u == Update(s.ratchet[a], m)
           ns == Latest(<<m>> \o s.measures[a], DecayWindows)
           ratchet == [s.ratchet EXCEPT ![a] = u]
           measures == [s.measures EXCEPT ![a] = ns]
<1>1. /\ s \in Nct /\ s.ratchet \in [Area \cup {None} -> Ratchet]
      /\ s.measures \in [Area \cup {None} -> Seq(Nat)]
      /\ \A b \in Area \cup {None} : ScopeOK(s.ratchet[b], s.measures[b])
  BY DEF AffairsOK, Nct, RatchetOK
<1>2. Measured(s.ratchet[a], s.measures[a], u, ns)
  <2> DEFINE r == s.ratchet[a]
             ms == s.measures[a]
  <2>1. r \in Ratchet /\ ms \in Seq(Nat) /\ ScopeOK(r, ms) BY <1>1
  <2>2. m \in NMin..NMax BY DifficultyBounds
  <2> HIDE DEF r, ms, m
  <2>3. Measured(r, ms, Update(r, m), Latest(<<m>> \o ms, DecayWindows))
    BY <2>1, <2>2, MeasuredOK
  <2> QED BY <2>3 DEF r, ms
<1>3. t = [s EXCEPT !.ratchet = ratchet, !.measures = measures]
  BY <1>1 DEF Measure, Nct
<1> HIDE DEF u, ns, t
<1>4. /\ ratchet \in [Area \cup {None} -> Ratchet] /\ ratchet[a] = u
      /\ measures \in [Area \cup {None} -> Seq(Nat)] /\ measures[a] = ns
      /\ \A b \in Area \cup {None} :
           b # a => ratchet[b] = s.ratchet[b] /\ measures[b] = s.measures[b]
  BY <1>1, <1>2 DEF Measured
<1> HIDE DEF ratchet, measures
<1>5. t \in Nct /\ t.ratchet = ratchet /\ t.measures = measures /\ Idle(t)
      /\ t.queue = s.queue /\ t.status = s.status /\ t.silent = s.silent
  BY <1>1, <1>3, <1>4 DEF Nct, Idle
<1>6. RatchetOK(t) BY <1>1, <1>2, <1>4, <1>5 DEF RatchetOK, Measured
<1>7. QueueOK(t) /\ SilentOK(t) BY <1>5 DEF AffairsOK, QueueOK, SilentOK, Waits
<1>8. StageOK(t) /\ PriceOK(t) /\ AnnouncedOK(t)
  BY <1>5 DEF StageOK, PriceOK, AnnouncedOK, Idle
<1>9. Slow(s, t)
  <2>1. ASSUME NEW b \in Area \cup {None}, t.ratchet[b].n < s.ratchet[b].n
        PROVE  b = a
    <3>1. CASE b # a
      <4>1. t.ratchet[b] = s.ratchet[b] /\ s.ratchet[b].n \in Nat
        BY <3>1, <1>1, <1>4, <1>5 DEF Ratchet
      <4> QED BY <4>1, <2>1
    <3> QED BY <3>1
  <2> QED BY <2>1, <1>2, <1>4, <1>5 DEF Slow, Measured
<1>10. AffairsOK(t) BY <1>5, <1>6, <1>7, <1>8 DEF AffairsOK
<1> QED BY <1>2, <1>3, <1>4, <1>5, <1>9, <1>10 DEF Measured, MeasureOf, t

-----------------------------------------------------------------------------
(* Announcements and windows *)

\* The turn is taken after s: the rest of t is as it was.
TurnOf(s, t, l) ==
  /\ t.deliberates = s.deliberates /\ t.passed = s.passed
  /\ t.ratchet = s.ratchet /\ t.measures = s.measures
  /\ t.last = Holder[l] /\ t.remembered = Holder[l]
  /\ t.recent = Latest(<<Holder[l]>> \o s.recent, Sample)

\* Taking the turn disturbs nothing else.
LEMMA ConsumeOK ==
  ASSUME NEW s, AffairsOK(s), NEW l \in Law
  PROVE  LET t == ConsumeTurn(s, l) IN AffairsOK(t) /\ TurnOf(s, t, l)
<1> DEFINE t == ConsumeTurn(s, l)
           x == Holder[l]
           recent == Latest(<<x>> \o s.recent, Sample)
<1>1. s \in Nct /\ s.recent \in Seq(Author) /\ x \in Author /\ Sample \in Nat
  BY RulesAssumption DEF AffairsOK, Nct
<1>2. recent \in Seq(Author)
  <2> DEFINE seq == s.recent
  <2> HIDE DEF x, seq
  <2>1. seq \in Seq(Author) BY <1>1 DEF seq
  <2>2. InFront(Latest(<<x>> \o seq, Sample), x, seq, Author, Sample)
    BY <1>1, <2>1, LatestWith
  <2> QED BY <2>2 DEF InFront, seq
<1>3. t = [s EXCEPT !.last = x, !.remembered = x, !.recent = recent]
  BY DEF ConsumeTurn
<1> HIDE DEF recent
<1>4. /\ t \in Nct /\ t.queue = s.queue /\ t.status = s.status /\ t.silent = s.silent
      /\ t.deliberation = s.deliberation /\ t.window = s.window
      /\ t.ratchet = s.ratchet /\ t.measures = s.measures /\ t.passed = s.passed
      /\ t.deliberates = s.deliberates
      /\ t.last = x /\ t.remembered = x /\ t.recent = recent
  <2> HIDE DEF t, x
  <2> QED BY <1>1, <1>2, <1>3 DEF Nct
<1>5. TurnOf(s, t, l) BY <1>4 DEF TurnOf, recent
<1> HIDE DEF t
<1>6. QueueOK(t) /\ SilentOK(t) BY <1>4 DEF AffairsOK, QueueOK, SilentOK, Waits
<1>7. StageOK(t) /\ AnnouncedOK(t) BY <1>4 DEF AffairsOK, StageOK, AnnouncedOK
<1>8. PriceOK(t) BY <1>4 DEF AffairsOK, PriceOK, Fair
<1>9. RatchetOK(t) BY <1>4 DEF AffairsOK, RatchetOK
<1> QED BY <1>4, <1>5, <1>6, <1>7, <1>8, <1>9 DEF AffairsOK, t

\* Who is counted is called: a worker of the quorum decides for itself, or its
\* team does.
LEMMA QuorumConvoked ==
  ASSUME NEW v \in Populations, NEW l \in Law, HasQuorum(v, l, TRUE),
         MinWorkers > 0, ByArea
  PROVE  Convoked(v, l) # {}
<1>1. EligibleWorkers(v, l, TRUE) # {}
  <2> DEFINE E == EligibleWorkers(v, l, TRUE)
  <2>1. (IF ByArea THEN E ELSE v.live) = E OBVIOUS
  <2>2. MinWorkers = 0 \/ MinWorkers <= Cardinality(E)
    <3>1. MinWorkers = 0 \/ MinWorkers <= Cardinality(IF ByArea THEN E ELSE v.live)
      BY Zenon DEF HasQuorum
    <3> HIDE DEF E
    <3> QED BY <2>1, <3>1, Zenon
  <2> HIDE DEF E
  <2>3. ASSUME E = {} PROVE FALSE
    <3>1. Cardinality(E) = 0 BY <2>3, FS_EmptySet, Zenon
    <3> QED BY <3>1, <2>2, RulesAssumption
  <2> QED BY <2>3 DEF E
<1>2. PICK w \in v.live : w \notin Anonymous /\ PolicyConvokes(v.policy[UnitOf(w)], l)
  BY <1>1 DEF EligibleWorkers
<1>3. w \in Worker /\ TeamOf[w] \in Coordinator \cup {None}
  BY RulesAssumption, ParliamentAssumption DEF Population
<1>4. CASE TeamOf[w] # None
  <2>1. TeamOf[w] \in Coordinator /\ UnitOf(w) = TeamOf[w] BY <1>3, <1>4 DEF UnitOf
  <2>2. w \in Members(v, TeamOf[w]) BY <2>1 DEF Members
  <2> QED BY <1>2, <2>1, <2>2 DEF Convoked
<1>5. CASE TeamOf[w] = None
  BY <1>2, <1>5 DEF Convoked, UnitOf
<1> QED BY <1>4, <1>5

\* Who is convoked works.
LEMMA ConvokedWork ==
  ASSUME NEW v \in Populations, NEW l \in Law
  PROVE  Convoked(v, l) \in SUBSET Worker
BY RulesAssumption, ParliamentAssumption DEF Convoked, Population

\* The law that is announced leaves the queue, its difficulty is the one just
\* measured and somebody is called.
LEMMA AnnounceOK ==
  ASSUME NEW s, AffairsOK(s), Idle(s), NEW l \in Law, s.status[l] # "discarded",
         NEW quorum, NEW v \in View, NEW units \in SUBSET Worker,
         v = Unreadable => units = {}, NEW measured \in BOOLEAN,
         measured => /\ s.measures[AreaOf[l]][1] <= s.ratchet[AreaOf[l]].n
                     /\ s.measures[AreaOf[l]][1] \in Nat,
         MinWorkers > 0 /\ ByArea => units # {} \/ v = Unreadable \/ v # quorum
  PROVE  LET t == Announce(s, quorum, v, l, units, measured)
         IN  AffairsOK(t) /\ TurnOf(s, t, l)
<1> DEFINE against(u) == u \in units \cap Coordinator /\ Prevetoed(v.policy[u], l)
           first == [u \in Worker |-> IF against(u) THEN "reject" ELSE None]
           default == [u \in Worker |-> IF u \in units THEN v.default[u] ELSE None]
           base == IF measured THEN s.ratchet[AreaOf[l]].n ELSE s.known
           n == NZerosForAction(base, ActionOf[l])
           blind == v = Unreadable \/ v # quorum
           d == [law |-> l, units |-> units, default |-> default,
                 n |-> n, measured |-> measured, over |-> FALSE, blind |-> blind]
           u == [s EXCEPT !.answers[l] = first, !.deliberation = d,
                          !.status[l] = "in_deliberation"]
           r == Dequeue(u, l)
<1>1. /\ s \in Nct /\ s.queue \in Seq(Law) /\ base \in Nat
      /\ measured => base = s.ratchet[AreaOf[l]].n
  <2>1. s \in Nct BY DEF AffairsOK
  <2>2. AreaOf[l] \in Area \cup {None} BY RulesAssumption
  <2>3. s.ratchet[AreaOf[l]] \in Ratchet BY <2>1, <2>2 DEF Nct
  <2>4. s.ratchet[AreaOf[l]].n \in Nat BY <2>3, RulesAssumption DEF Ratchet
  <2>5. s.known \in Nat BY <2>1, RulesAssumption DEF Nct
  <2> QED BY <2>1, <2>4, <2>5 DEF Nct
<1>2. first \in Given
  <2> HIDE DEF against
  <2> QED BY DEF Given, Answer
<1> HIDE DEF base
<1>3. d \in Deliberation /\ d # Nothing /\ d.law = l /\ d.n = n /\ d.units = units
      /\ d.measured = measured /\ d.blind = blind
  <2>1. default \in [Worker -> Answer \cup {None}]
    BY ParliamentAssumption DEF View, Population
  <2>2. n \in Nat BY <1>1 DEF NZerosForAction
  <2>3. blind \in BOOLEAN OBVIOUS
  <2> HIDE DEF n, default, blind
  <2>4. d \in Deliberation BY <2>1, <2>2, <2>3 DEF Deliberation
  <2> QED BY <2>4, SomeThing
<1>4. measured => n >= NZerosForAction(s.measures[AreaOf[l]][1], ActionOf[l])
  BY <1>1 DEF NZerosForAction
<1> HIDE DEF d, first, n
<1>5. /\ u \in Nct /\ u.queue = s.queue /\ u.silent = s.silent /\ u.deliberation = d
      /\ u.window = Nothing /\ Keeps(s, u) /\ u.status[l] = "in_deliberation"
      /\ \A k \in Law \ {l} : u.status[k] = s.status[k]
  BY <1>1, <1>2, <1>3 DEF Nct, Status, Keeps, Idle
<1> HIDE DEF u
<1>6. Without(u, r, l)
  <2>1. Once(u.queue) BY <1>5 DEF AffairsOK, QueueOK
  <2> QED BY <1>5, <2>1, DequeueOf
<1>7. /\ r \in Nct /\ Keeps(s, r) /\ r.deliberation = d
      /\ r.window = Nothing /\ r.silent = s.silent /\ r.status[l] = "in_deliberation"
      /\ \A k \in Law \ {l} : r.status[k] = s.status[k]
      /\ Once(r.queue) /\ Range(r.queue) = Range(s.queue) \ {l}
  <2>1. r \in Nct /\ Once(r.queue) /\ Range(r.queue) = Range(s.queue) \ {l}
    BY <1>5, <1>6 DEF Without
  <2>2. Keeps(u, r) BY <1>5, <1>6, WithoutSame
  <2>3. Keeps(s, r) BY <1>5, <2>2 DEF Keeps
  <2> QED BY <1>5, <1>6, <2>1, <2>3, WithoutSame
<1> HIDE DEF r
<1>8. QueueOK(r)
  <2>1. Range(s.queue) \subseteq Law BY <1>1 DEF Range
  <2> QED BY <1>7, <2>1 DEF AffairsOK, QueueOK, Waits
<1>9. SilentOK(r) BY <1>7 DEF AffairsOK, SilentOK
<1>10. StageOK(r) BY <1>3, <1>7 DEF StageOK
<1>11. AnnouncedOK(r) BY <1>3, <1>7 DEF AnnouncedOK
<1>12. PriceOK(r) BY <1>3, <1>4, <1>7 DEF PriceOK, Fair, Keeps
<1>13. RatchetOK(r) BY <1>7 DEF AffairsOK, RatchetOK, Keeps
<1>14. AffairsOK(r)
  BY <1>7, <1>8, <1>9, <1>10, <1>11, <1>12, <1>13 DEF AffairsOK
<1>15. Announce(s, quorum, v, l, units, measured) = ConsumeTurn(r, l)
  BY DEF Announce, r, u, d, first, n, base
<1>16. AffairsOK(ConsumeTurn(r, l)) /\ TurnOf(r, ConsumeTurn(r, l), l) BY <1>14, ConsumeOK
<1>17. TurnOf(s, ConsumeTurn(r, l), l) BY <1>7, <1>16 DEF TurnOf, Keeps
<1> QED BY <1>15, <1>16, <1>17

\* The law whose turn it is can be opened, as its own look says, and waits in the
\* queue.
LEMMA TurnOfLaw ==
  ASSUME NEW s, StateOK(s), NEW look, NEW l, l # None,
         l = SelectNextLaw(s.queue, s.remembered, s.recent, Minable(s, look))
  PROVE  /\ l \in Law /\ CanOpen(s, look[Position(s.queue, l)], l)
         /\ s.status[l] # "discarded"
         /\ Pass(s, Minable(s, look), l).passed \in [Law -> Nat]
<1> DEFINE minable == Minable(s, look)
           queue == s.queue
           last == s.remembered
           recent == s.recent
<1>1. queue \in Seq(Law) /\ Once(queue) /\ l = SelectNextLaw(queue, last, recent, minable)
  BY DEF StateOK, AffairsOK, QueueOK, Nct
<1>2. Chosen(queue, last, recent, minable, l)
  <2> HIDE DEF queue, last, recent, minable
  <2> QED BY <1>1, SelectedLaw
<1>3. l \in Law /\ l \in Range(s.queue) /\ l \in minable BY <1>2 DEF Chosen
<1>4. s.status[l] # "discarded"
  BY <1>3 DEF StateOK, AffairsOK, QueueOK, Waits
<1>5. Pass(s, minable, l).passed \in [Law -> Nat]
  <2>1. s \in Nct /\ s.passed \in [Law -> Nat] BY DEF StateOK, AffairsOK, Nct
  <2> HIDE DEF minable
  <2> QED BY <2>1 DEF Pass, Nct
<1>6. CanOpen(s, look[Position(s.queue, l)], l)
  <2>1. PICK j \in DOMAIN queue : l = queue[j] /\ CanOpen(s, look[j], queue[j])
    BY <1>3 DEF Minable
  <2>2. Position(queue, queue[j]) = j
    <3> HIDE DEF queue
    <3> QED BY <1>1, PositionOf
  <2> QED BY <2>1, <2>2
<1> QED BY <1>3, <1>4, <1>5, <1>6

\* Counting who is passed over disturbs nothing else.
LEMMA PassOK ==
  ASSUME NEW s, AffairsOK(s), Idle(s), NEW p, NEW passed \in [Law -> Nat],
         p = [s EXCEPT !.passed = passed]
  PROVE  /\ AffairsOK(p) /\ Idle(p) /\ p.passed = passed
         /\ p.queue = s.queue /\ p.status = s.status /\ p.recent = s.recent
         /\ p.ratchet = s.ratchet /\ p.measures = s.measures
         /\ p.deliberates = s.deliberates
<1>1. /\ p \in Nct /\ p.passed = passed /\ Idle(p)
      /\ p.queue = s.queue /\ p.status = s.status /\ p.recent = s.recent
      /\ p.ratchet = s.ratchet /\ p.measures = s.measures
      /\ p.deliberates = s.deliberates /\ p.silent = s.silent
  BY DEF AffairsOK, Nct, Idle
<1>2. QueueOK(p) /\ SilentOK(p) BY <1>1 DEF AffairsOK, QueueOK, SilentOK, Waits
<1>3. StageOK(p) /\ PriceOK(p) /\ AnnouncedOK(p)
  BY <1>1 DEF StageOK, PriceOK, AnnouncedOK, Idle
<1>4. RatchetOK(p) BY <1>1 DEF AffairsOK, RatchetOK
<1> QED BY <1>1, <1>2, <1>3, <1>4 DEF AffairsOK

\* What was measured before the turn was taken is still slow after it.
LEMMA StillSlow ==
  ASSUME NEW s, NEW m, NEW t, Slow(s, m),
         t.ratchet = m.ratchet, t.measures = m.measures
  PROVE  Slow(s, t)
BY DEF Slow

\* The measure that a window opened at once takes.
NetworkMeasured(s, t) ==
  /\ AffairsOK(t) /\ Idle(t) /\ Slow(s, t) /\ t.passed = s.passed
  /\ t.recent = s.recent /\ t.status = s.status /\ t.deliberates = s.deliberates

\* A state in which nothing has changed is slow.
LEMMA SlowAtRest ==
  ASSUME NEW s \in Nct
  PROVE  Slow(s, s)
<1>1. \A a \in Area \cup {None} : s.ratchet[a].n \in Nat
  BY RulesAssumption DEF Nct, Ratchet
<1> QED BY <1>1 DEF Slow

\* The network is measured, if it can be.
LEMMA MeasureNetworkOK ==
  ASSUME NEW s, AffairsOK(s), Idle(s), NEW measured
  PROVE  NetworkMeasured(s, MeasureNetwork(s, measured))
<1> DEFINE power == EffectiveHashrate(network)
           t == Measure(s, None, power)
           n == t.ratchet[None].n
           g == [t EXCEPT !.known = n]
<1>1. CASE ~measured
  BY <1>1, SlowAtRest DEF MeasureNetwork, NetworkMeasured, AffairsOK
<1>2. CASE measured
  <2>1. MeasureOf(s, t, None)
    <3> HIDE DEF power
    <3> QED BY MeasureOK
  <2>2. MeasureNetwork(s, measured) = g BY <1>2 DEF MeasureNetwork
  <2> HIDE DEF t
  <2>3. /\ AffairsOK(t) /\ Idle(t) /\ Slow(s, t) /\ t \in Nct /\ n \in NMin..NMax
        /\ t = [s EXCEPT !.ratchet = t.ratchet, !.measures = t.measures] /\ s \in Nct
    BY <2>1 DEF MeasureOf, AffairsOK
  <2> HIDE DEF n
  <2>4. /\ g \in Nct /\ Idle(g) /\ g.passed = s.passed /\ g.queue = t.queue
        /\ g.recent = s.recent /\ g.status = s.status /\ g.deliberates = s.deliberates
        /\ g.ratchet = t.ratchet /\ g.measures = t.measures /\ g.silent = t.silent
        /\ t.status = s.status
    BY <2>3 DEF Nct, Idle
  <2> HIDE DEF g
  <2>5. QueueOK(g) /\ SilentOK(g) BY <2>3, <2>4 DEF AffairsOK, QueueOK, SilentOK, Waits
  <2>6. StageOK(g) /\ PriceOK(g) /\ AnnouncedOK(g)
    BY <2>4 DEF StageOK, PriceOK, AnnouncedOK, Idle
  <2>7. RatchetOK(g) BY <2>3, <2>4 DEF AffairsOK, RatchetOK
  <2>8. Slow(s, g) BY <2>3, <2>4, StillSlow
  <2> QED BY <2>2, <2>4, <2>5, <2>6, <2>7, <2>8 DEF NetworkMeasured, AffairsOK
<1> QED BY <1>1, <1>2

\* The units that are convoked are measured, if they can be.
LEMMA MeasureConvokedOK ==
  ASSUME NEW s, AffairsOK(s), Idle(s), NEW l \in Law, NEW power, NEW measured
  PROVE  LET m == MeasureConvoked(s, l, power, measured)
             a == AreaOf[l]
         IN  /\ AffairsOK(m) /\ Idle(m) /\ Slow(s, m)
             /\ measured => m.ratchet[a].n >= m.measures[a][1] /\ m.measures[a][1] \in Nat
             /\ m.passed = s.passed /\ m.recent = s.recent /\ m.status = s.status
             /\ m.deliberates = s.deliberates
<1> DEFINE a == AreaOf[l]
           m == Measure(s, a, power)
<1>1. a \in Area \cup {None} BY RulesAssumption
<1>2. MeasureOf(s, m, a)
  <2> HIDE DEF a
  <2> QED BY <1>1, MeasureOK
<1> HIDE DEF m
<1>3. /\ m.passed = s.passed /\ m.recent = s.recent /\ m.status = s.status
      /\ m.deliberates = s.deliberates
  BY <1>2 DEF MeasureOf, AffairsOK, Nct
<1>4. CASE measured
  BY <1>2, <1>3, <1>4 DEF MeasureConvoked, MeasureOf, m
<1>5. CASE ~measured
  BY <1>5, SlowAtRest DEF MeasureConvoked, AffairsOK
<1> QED BY <1>4, <1>5

\* maybe_open_window keeps the state right, and the difficulty falls slowly.
LEMMA MaybeOpenOK ==
  ASSUME NEW s, StateOK(s), NEW look, \A i \in 1..Needed(s) : look[i] \in View,
         NEW measured \in BOOLEAN, MaybeOpenWindow(s, look, measured)
  PROVE  StateOK(nct') /\ Slow(s, nct')
<1> DEFINE minable == Minable(s, look)
           l == SelectNextLaw(s.queue, s.remembered, s.recent, minable)
           p == Pass(s, minable, l)
           passed == p.passed
           v == look[Len(s.queue) + 1]
           quorum == look[Position(s.queue, l)]
           units == Units(v, l)
           power == IF units = {} THEN 0 ELSE Biggest(v, units)
           m == MeasureConvoked(p, l, power, measured)
           g == MeasureNetwork(p, measured)
<1>1. \/ nct' = s
      \/ /\ Idle(s) /\ l # None
         /\ \/ s.deliberates /\ nct' = Announce(m, quorum, v, l, units, measured)
            \/ ~s.deliberates /\ nct' = OpenMeasured(g, l, measured)
  BY DEF MaybeOpenWindow, Busy, Idle
<1>2. s \in Nct /\ AffairsOK(s) /\ TurnsOK(s) /\ Once(s.queue)
  BY DEF StateOK, AffairsOK, QueueOK
<1>3. CASE nct' = s
  BY <1>2, <1>3, SlowAtRest
<1>4. ASSUME Idle(s), l # None
      PROVE  /\ l \in Law /\ CanOpen(s, quorum, l) /\ s.status[l] # "discarded"
             /\ v \in View
             /\ AffairsOK(p) /\ Idle(p) /\ p.queue = s.queue /\ p.status = s.status
             /\ p.recent = s.recent /\ p.ratchet = s.ratchet
             /\ p.measures = s.measures /\ p.deliberates = s.deliberates
  <2>1. /\ l \in Law /\ CanOpen(s, quorum, l) /\ s.status[l] # "discarded"
        /\ passed \in [Law -> Nat]
    BY <1>4, TurnOfLaw
  <2>2. p = [s EXCEPT !.passed = passed]
    <3> HIDE DEF l, minable
    <3> QED BY <1>2 DEF Pass, Nct
  <2>3. v \in View
    <3>1. Len(s.queue) \in Nat BY <1>2 DEF Nct
    <3>2. Needed(s) = Len(s.queue) + 1 BY <1>4 DEF Needed, Busy, Idle
    <3>3. Len(s.queue) + 1 \in 1..Needed(s) BY <3>1, <3>2
    <3> QED BY <3>3
  <2> HIDE DEF l, p, passed, v, quorum
  <2>4. /\ AffairsOK(p) /\ Idle(p) /\ p.queue = s.queue /\ p.status = s.status
        /\ p.recent = s.recent /\ p.ratchet = s.ratchet
        /\ p.measures = s.measures /\ p.deliberates = s.deliberates
    BY <1>2, <1>4, <2>1, <2>2, PassOK
  <2> QED BY <2>1, <2>3, <2>4
<1>5. ASSUME Idle(s), l # None, NEW x, AffairsOK(x), x.passed = passed,
             x.recent = s.recent, Slow(s, x), AffairsOK(nct'), TurnOf(x, nct', l)
      PROVE  StateOK(nct') /\ Slow(s, nct')
  <2>1. TurnsOK(nct')
    <3>1. /\ nct'.passed = Pass(s, minable, l).passed
          /\ nct'.last = Holder[l] /\ nct'.remembered = Holder[l]
          /\ nct'.recent = Latest(<<Holder[l]>> \o s.recent, Sample)
      BY <1>5, Zenon DEF TurnOf
    <3> QED BY <1>2, <1>5, <3>1, TurnTaken
  <2>2. Slow(s, nct') BY <1>5, StillSlow DEF TurnOf
  <2> QED BY <1>5, <2>1, <2>2 DEF StateOK
<1>6. CASE /\ Idle(s) /\ l # None /\ s.deliberates
           /\ nct' = Announce(m, quorum, v, l, units, measured)
  <2> HIDE DEF minable, l, p, passed, v, quorum
  <2>1. /\ units \in SUBSET Worker /\ (v = Unreadable => units = {})
        /\ MinWorkers > 0 /\ ByArea => units # {} \/ v = Unreadable \/ v # quorum
    <3>1. CASE v = Unreadable BY <3>1 DEF Units
    <3>2. CASE v # Unreadable
      <4>1. v \in Populations /\ units = Convoked(v, l) BY <3>2, <1>4, <1>6 DEF View, Units
      <4>2. ASSUME v = quorum PROVE HasQuorum(v, l, TRUE)
        <5>1. s.deliberates = TRUE BY <1>2, <1>6 DEF Nct
        <5> QED BY <1>4, <1>6, <3>2, <4>2, <5>1 DEF CanOpen
      <4> HIDE DEF units
      <4> QED BY <4>1, <4>2, <3>2, <1>4, <1>6, QuorumConvoked, ConvokedWork
    <3> QED BY <3>1, <3>2
  <2> HIDE DEF units, power
  <2>2. /\ AffairsOK(m) /\ Idle(m) /\ Slow(p, m)
        /\ measured => /\ m.ratchet[AreaOf[l]].n >= m.measures[AreaOf[l]][1]
                       /\ m.measures[AreaOf[l]][1] \in Nat
        /\ m.passed = p.passed /\ m.recent = p.recent /\ m.status = p.status
        /\ m.deliberates = p.deliberates
    BY <1>4, <1>6, MeasureConvokedOK
  <2> HIDE DEF m
  <2>3. /\ m.passed = passed /\ m.recent = s.recent /\ m.status[l] # "discarded"
        /\ v \in View /\ l \in Law
    BY <2>2, <1>4, <1>6 DEF passed
  <2>4. measured => /\ m.measures[AreaOf[l]][1] <= m.ratchet[AreaOf[l]].n
                    /\ m.measures[AreaOf[l]][1] \in Nat
    <3> DEFINE x == m.ratchet[AreaOf[l]].n
    <3>1. AreaOf[l] \in Area \cup {None} BY <2>3, RulesAssumption
    <3>2. x \in Nat BY <2>2, <3>1, RulesAssumption DEF AffairsOK, Nct, Ratchet
    <3> QED BY <2>2, <3>2
  <2>5. AffairsOK(nct') /\ TurnOf(m, nct', l)
    BY <1>6, <2>1, <2>2, <2>3, <2>4, AnnounceOK
  <2>6. Slow(s, m) BY <2>2, <1>4, <1>6 DEF Slow
  <2> QED BY <1>5, <1>6, <2>2, <2>3, <2>5, <2>6
<1>7. CASE Idle(s) /\ l # None /\ ~s.deliberates /\ nct' = OpenMeasured(g, l, measured)
  <2> HIDE DEF minable, l, p, passed, v, quorum
  <2>1. NetworkMeasured(p, g) BY <1>4, <1>7, MeasureNetworkOK
  <2> HIDE DEF g
  <2> DEFINE n == NZerosForAction(g.known, ActionOf[l])
             o == OpenFrozen(g, l, n, measured, Worker)
  <2>2. /\ AffairsOK(g) /\ Idle(g) /\ Slow(p, g) /\ g.passed = passed
        /\ g.recent = s.recent /\ g.status[l] # "discarded" /\ ~g.deliberates
    BY <2>1, <1>4, <1>7 DEF NetworkMeasured, passed
  <2>3. n \in Nat BY <2>2, RulesAssumption DEF AffairsOK, Nct, NZerosForAction
  <2>4. nct' = ConsumeTurn(o, l) BY <1>7 DEF OpenMeasured
  <2>5. AffairsOK(o) /\ Keeps(g, o)
    <3> HIDE DEF n
    <3>1. Worker \in SUBSET Worker OBVIOUS
    <3> QED BY <1>4, <1>7, <2>2, <2>3, <3>1, OpenOK
  <2> HIDE DEF o
  <2>6. AffairsOK(nct') /\ TurnOf(o, nct', l) BY <1>4, <1>7, <2>4, <2>5, ConsumeOK
  <2>7. TurnOf(g, nct', l) BY <2>5, <2>6 DEF TurnOf, Keeps
  <2>8. Slow(s, g) BY <2>2, <1>4, <1>7 DEF Slow
  <2> QED BY <1>5, <1>7, <2>2, <2>6, <2>7, <2>8
<1> HIDE DEF l, p, units, m, g, v, quorum
<1> QED BY <1>1, <1>3, <1>6, <1>7

-----------------------------------------------------------------------------
(* The steps *)

\* What the reads of a handler find is a population or nothing at all.
LEMMA LooksOK ==
  ASSUME TypeOK, NEW n, NEW look \in [1..n -> Views]
  PROVE  /\ \A i \in 1..n : look[i] \in View
         /\ \A cache \in Populations \cup {Nothing} :
              Refreshed(cache, look) \in Populations \cup {Nothing}
<1>1. Views \subseteq View BY DEF TypeOK, Views, View
<1> QED BY <1>1 DEF TypeOK, Refreshed

\* The cache and the count of what has happened stay within their bounds.
LEMMA ReadsOK ==
  ASSUME TypeOK, NEW n, NEW look \in [1..n -> Views], NEW measured, Reads(look, measured)
  PROVE  cached' \in Populations \cup {Nothing} /\ events' \in 0..MaxEvents
<1>1. cached' \in Populations \cup {Nothing} BY LooksOK DEF TypeOK, Reads
<1>2. events' \in 0..MaxEvents BY ParliamentAssumption DEF TypeOK, Reads, Happens
<1> QED BY <1>1, <1>2

\* What a handler does before it looks for the next law keeps the state right
\* and measures nothing; then the whole handler is right.
LEMMA HandlerOK ==
  ASSUME NEW s, NEW t, StateOK(t), Keeps(s, t),
         NEW look, \A i \in 1..Needed(t) : look[i] \in View,
         NEW measured \in BOOLEAN, MaybeOpenWindow(t, look, measured)
  PROVE  StateOK(nct') /\ Slow(s, nct')
<1>1. StateOK(nct') /\ Slow(t, nct') BY MaybeOpenOK
<1>2. s.ratchet = t.ratchet BY DEF Keeps
<1> QED BY <1>1, <1>2 DEF Slow

\* So is one that only reads for that.
LEMMA EndsInOK ==
  ASSUME TypeOK, NEW s, NEW t, StateOK(t), Keeps(s, t), EndsIn(t)
  PROVE  /\ StateOK(nct') /\ Slow(s, nct')
         /\ cached' \in Populations \cup {Nothing} /\ events' \in 0..MaxEvents
<1>1. PICK look \in Looks(Needed(t)), measured \in BOOLEAN :
        Reads(look, measured) /\ MaybeOpenWindow(t, look, measured)
  BY DEF EndsIn
<1>2. look \in [1..Needed(t) -> Views] BY DEF Looks
<1>3. \A i \in 1..Needed(t) : look[i] \in View BY <1>2, LooksOK
<1>4. StateOK(nct') /\ Slow(s, nct') BY <1>1, <1>3, HandlerOK
<1>5. cached' \in Populations \cup {Nothing} /\ events' \in 0..MaxEvents
  BY <1>1, <1>2, ReadsOK
<1> QED BY <1>4, <1>5

\* A law that is proposed waits.
LEMMA ProposedOK ==
  ASSUME NEW s, StateOK(s), NEW l \in Law, s.status[l] = "absent"
  PROVE  LET t == [s EXCEPT !.status[l] = "pending_queue"]
         IN  StateOK(t) /\ Keeps(s, t) /\ t.queue = s.queue /\ t.status[l] = "pending_queue"
<1> DEFINE t == [s EXCEPT !.status[l] = "pending_queue"]
<1>1. s \in Nct BY DEF StateOK, AffairsOK
<1>2. /\ t \in Nct /\ Keeps(s, t) /\ t.status[l] = "pending_queue" /\ t.queue = s.queue
      /\ t.silent = s.silent /\ t.deliberation = s.deliberation /\ t.window = s.window
      /\ \A k \in Law \ {l} : t.status[k] = s.status[k]
  BY <1>1 DEF Nct, Status, Keeps
<1> HIDE DEF t
<1>3. QueueOK(t)
  <2>1. Range(s.queue) \subseteq Law BY <1>1 DEF Nct, Range
  <2> QED BY <1>2, <2>1 DEF StateOK, AffairsOK, QueueOK, Waits
<1>4. SilentOK(t) BY <1>2 DEF StateOK, AffairsOK, SilentOK
<1>5. StageOK(t) /\ AnnouncedOK(t)
  <2>1. /\ s.deliberation # Nothing => s.deliberation.law \in Law \ {l}
        /\ s.window # Nothing => s.window.law \in Law \ {l}
    BY <1>1 DEF StateOK, AffairsOK, StageOK, Nct, Deliberation, Window
  <2> QED BY <1>2, <2>1 DEF StateOK, AffairsOK, StageOK, AnnouncedOK
<1>6. PriceOK(t) BY <1>2 DEF StateOK, AffairsOK, PriceOK, Fair, Keeps
<1>7. StateOK(t) BY <1>2, <1>3, <1>4, <1>5, <1>6, KeepsOK
<1> QED BY <1>2, <1>7 DEF t

\* What the leader remembers and the answers in Redis decide nothing yet.
LEMMA AsideOK ==
  ASSUME NEW s, StateOK(s), NEW t \in Nct, Keeps(s, t),
         t.queue = s.queue, t.status = s.status, t.silent = s.silent, t.window = s.window,
         \/ t.deliberation = s.deliberation
         \/ /\ s.deliberation # Nothing /\ t.deliberation # Nothing
            /\ t.deliberation.law = s.deliberation.law
            /\ t.deliberation.n = s.deliberation.n
            /\ t.deliberation.measured = s.deliberation.measured
            /\ t.deliberation.units = s.deliberation.units
            /\ t.deliberation.blind = s.deliberation.blind
  PROVE  StateOK(t)
<1>1. QueueOK(t) /\ SilentOK(t)
  BY DEF StateOK, AffairsOK, QueueOK, SilentOK, Waits
<1>2. StageOK(t) /\ AnnouncedOK(t) BY DEF StateOK, AffairsOK, StageOK, AnnouncedOK
<1>3. PriceOK(t) BY DEF StateOK, AffairsOK, PriceOK, Fair, Keeps
<1> QED BY <1>1, <1>2, <1>3, KeepsOK

\* The first state, whatever turns were taken before it.
LEMMA InitOK == Init => PInv
<1> SUFFICES ASSUME Init PROVE PInv OBVIOUS
<1>1. PICK history \in Histories, mode \in Modes :
        nct = [deliberates |-> mode, known |-> NConfig,
               status |-> [l \in Law |-> IF ActionOf[l] = "promulgacion"
                                         THEN "absent" ELSE "promulgated"],
               queue |-> <<>>, recent |-> history,
               last |-> IF history = <<>> THEN None ELSE Head(history),
               remembered |-> IF history = <<>> THEN None ELSE Head(history),
               ratchet |-> [a \in Area \cup {None} |-> NoRatchet],
               deliberation |-> Nothing, window |-> Nothing,
               answers |-> [l \in Law |-> NoAnswers],
               silent |-> [l \in Law |-> 0], texts |-> {},
               measures |-> [a \in Area \cup {None} |-> <<>>],
               passed |-> [l \in Law |-> 0]]
  BY DEF Init
<1> DEFINE last == IF history = <<>> THEN None ELSE Head(history)
<1>2. history \in Seq(Author) /\ mode \in BOOLEAN /\ last \in Author \cup {None}
  BY ParliamentAssumption
<1>3. /\ NoRatchet \in Ratchet /\ NoAnswers \in Given /\ NConfig \in NMin..NMax
      /\ 0 \in 0..MaxSilent /\ MaxSilent # 0
      /\ DecayWindows \in Nat \ {0} /\ Patience \in Nat /\ 0 <= Patience
  BY RulesAssumption, ParliamentAssumption
     DEF NoRatchet, Ratchet, NoAnswers, Given, Patience
<1>4. nct \in Nct
  <2> DEFINE status == [l \in Law |-> IF ActionOf[l] = "promulgacion"
                                      THEN "absent" ELSE "promulgated"]
             ratchet == [a \in Area \cup {None} |-> NoRatchet]
             answers == [l \in Law |-> NoAnswers]
             silent == [l \in Law |-> 0]
             measures == [a \in Area \cup {None} |-> <<>>]
             passed == [l \in Law |-> 0]
             queue == <<>>
             texts == {}
  <2>1. /\ status \in [Law -> Status] /\ ratchet \in [Area \cup {None} -> Ratchet]
        /\ answers \in [Law -> Given] /\ silent \in [Law -> 0..MaxSilent]
        /\ measures \in [Area \cup {None} -> Seq(Nat)] /\ passed \in [Law -> Nat]
        /\ queue \in Seq(Law) /\ texts \in SUBSET Law
    BY <1>3 DEF Status
  <2>2. nct = [deliberates |-> mode, known |-> NConfig, status |-> status,
               queue |-> queue, recent |-> history, last |-> last, remembered |-> last,
               ratchet |-> ratchet, deliberation |-> Nothing, window |-> Nothing,
               answers |-> answers, silent |-> silent, texts |-> texts,
               measures |-> measures, passed |-> passed]
    BY <1>1
  <2> HIDE DEF last, status, ratchet, answers, silent, measures, passed, queue, texts
  <2> QED BY <1>2, <1>3, <2>1, <2>2 DEF Nct
<1>5. /\ nct.queue = <<>> /\ nct.deliberation = Nothing /\ nct.window = Nothing
      /\ nct.silent = [l \in Law |-> 0] /\ nct.passed = [l \in Law |-> 0]
      /\ nct.ratchet = [a \in Area \cup {None} |-> NoRatchet]
      /\ nct.measures = [a \in Area \cup {None} |-> <<>>]
      /\ nct.remembered = nct.last
  BY <1>1
<1>6. QueueOK(nct) /\ StageOK(nct) /\ PriceOK(nct) /\ AnnouncedOK(nct)
  BY <1>5 DEF QueueOK, Once, Range, StageOK, PriceOK, AnnouncedOK
<1>7. SilentOK(nct) BY <1>3, <1>5 DEF SilentOK
<1>8. RatchetOK(nct)
  <2>1. NoRatchet.n = 0 /\ NoRatchet.low = 0 /\ Len(<<>>) = 0 BY DEF NoRatchet
  <2>2. \A i \in 1..0 : FALSE OBVIOUS
  <2>3. ScopeOK(NoRatchet, <<>>) BY <2>1, <2>2, <1>3 DEF ScopeOK
  <2> QED BY <1>5, <2>3 DEF RatchetOK
<1>9. TurnsOK(nct)
  <2>1. \A i \in 1..0 : FALSE OBVIOUS
  <2>2. ASSUME NEW l \in Law PROVE PassedOK(nct, l)
    <3>1. nct.passed[l] = 0 BY <1>5
    <3> QED BY <3>1, <2>1, <1>3 DEF PassedOK
  <2> QED BY <2>2, <1>5 DEF TurnsOK
<1>10. TypeOK
  BY <1>4, ParliamentAssumption DEF Init, TypeOK
<1> QED BY <1>4, <1>6, <1>7, <1>8, <1>9, <1>10 DEF PInv, StateOK, AffairsOK

\* Every handler that ends in maybe_open_window.
Right == TypeOK' /\ StateOK(nct') /\ Slow(nct, nct')

\* handle_proposal
LEMMA HandleProposalStep ==
  ASSUME PInv, NEW l \in Law, HandleProposal(l)
  PROVE  Right
<1>1. StateOK(nct) /\ TypeOK /\ nct \in Nct BY DEF PInv, StateOK, AffairsOK
<1> DEFINE s == IF ActionOf[l] = "promulgacion"
                THEN [nct EXCEPT !.status[l] = "pending_queue"] ELSE nct
<1>3. l \notin Range(nct.queue) BY DEF HandleProposal, Range
<1>4. nct.status[l] = IF ActionOf[l] = "promulgacion" THEN "absent" ELSE "promulgated"
  BY DEF HandleProposal
<1>5. StateOK(s) /\ Keeps(nct, s) /\ s.queue = nct.queue /\ Waits(s, l)
  <2>1. CASE ActionOf[l] = "promulgacion" BY <2>1, <1>1, <1>4, ProposedOK DEF Waits
  <2>2. CASE ActionOf[l] # "promulgacion"
    <3>1. ActionOf[l] = "derogacion" BY <2>2, RulesAssumption DEF Action
    <3> QED BY <2>2, <3>1, <1>1, <1>4 DEF Waits, Keeps
  <2> QED BY <2>1, <2>2
<1> DEFINE t == Enqueue(s, l)
<1>6. EndsIn(t) BY DEF HandleProposal
<1> HIDE DEF s
<1>7. StateOK(t) /\ Keeps(s, t) BY <1>3, <1>5, EnqueueOK
<1> HIDE DEF t
<1>8. Keeps(nct, t) BY <1>5, <1>7 DEF Keeps
<1>9. cached' \in Populations \cup {Nothing} /\ events' \in 0..MaxEvents
      /\ StateOK(nct') /\ Slow(nct, nct')
  BY <1>1, <1>6, <1>7, <1>8, EndsInOK
<1>10. network' \in Populations /\ requests' \subseteq Request
  BY <1>1 DEF HandleProposal, TypeOK
<1> QED BY <1>9, <1>10 DEF Right, TypeOK, StateOK, AffairsOK

\* check_deliberation
LEMMA CheckDeliberationStep ==
  ASSUME PInv, CheckDeliberation
  PROVE  Right
<1>1. StateOK(nct) /\ TypeOK BY DEF PInv
<1>2. EndsIn(ResolveDeliberation(nct)) BY DEF CheckDeliberation
<1>3. nct.deliberation # Nothing BY DEF CheckDeliberation, DeliberationIsOver
<1> DEFINE t == ResolveDeliberation(nct)
<1>4. StateOK(t) /\ Keeps(nct, t) BY <1>1, <1>3, ResolveOK
<1> HIDE DEF t
<1>5. cached' \in Populations \cup {Nothing} /\ events' \in 0..MaxEvents
      /\ StateOK(nct') /\ Slow(nct, nct')
  BY <1>1, <1>2, <1>4, EndsInOK DEF t
<1>6. network' \in Populations /\ requests' \subseteq Request
  BY <1>1 DEF CheckDeliberation, TypeOK
<1> QED BY <1>5, <1>6 DEF Right, TypeOK, StateOK, AffairsOK

\* The tick of an idle leader.
LEMMA OpenNextStep ==
  ASSUME PInv, OpenNext
  PROVE  Right
<1>1. StateOK(nct) /\ TypeOK /\ Keeps(nct, nct) BY DEF PInv, Keeps
<1>2. cached' \in Populations \cup {Nothing} /\ events' \in 0..MaxEvents
      /\ StateOK(nct') /\ Slow(nct, nct')
  BY <1>1, EndsInOK DEF OpenNext
<1>3. network' \in Populations /\ requests' \subseteq Request
  BY <1>1 DEF OpenNext, TypeOK
<1> QED BY <1>2, <1>3 DEF Right, TypeOK, StateOK, AffairsOK

\* _cerrar_ventana_sellada
LEMMA WindowSealedStep ==
  ASSUME PInv, WindowSealed
  PROVE  Right
<1>1. StateOK(nct) /\ TypeOK BY DEF PInv
<1>2. EndsIn(CloseSealed(nct)) BY DEF WindowSealed
<1>3. nct.window # Nothing BY DEF WindowSealed
<1> DEFINE t == CloseSealed(nct)
<1>4. StateOK(t) /\ Keeps(nct, t) BY <1>1, <1>3, SealedOK
<1> HIDE DEF t
<1>5. cached' \in Populations \cup {Nothing} /\ events' \in 0..MaxEvents
      /\ StateOK(nct') /\ Slow(nct, nct')
  BY <1>1, <1>2, <1>4, EndsInOK DEF t
<1>6. network' \in Populations /\ requests' \subseteq Request
  BY <1>1 DEF WindowSealed, TypeOK
<1> QED BY <1>5, <1>6 DEF Right, TypeOK, StateOK, AffairsOK

\* check_deadline
LEMMA WindowExpiresStep ==
  ASSUME PInv, WindowExpires
  PROVE  Right
<1>1. StateOK(nct) /\ TypeOK BY DEF PInv
<1>2. PICK v \in Views : \E t \in {CloseExpired(nct, v)} :
        \E look \in Looks(Needed(t) + 1), measured \in BOOLEAN :
          look[1] = v /\ Reads(look, measured) /\ MaybeOpenWindow(t, Tail(look), measured)
  BY DEF WindowExpires
<1> DEFINE t == CloseExpired(nct, v)
<1>3. PICK look \in Looks(Needed(t) + 1), measured \in BOOLEAN :
        Reads(look, measured) /\ MaybeOpenWindow(t, Tail(look), measured)
  BY <1>2
<1>4. nct.window # Nothing BY DEF WindowExpires
<1>5. StateOK(t) /\ Keeps(nct, t) BY <1>1, <1>4, ExpiredOK
<1> HIDE DEF t
<1>6. Needed(t) \in Nat BY <1>5 DEF Needed, StateOK, AffairsOK, Nct
<1>7. look \in [1..(Needed(t) + 1) -> Views] BY DEF Looks
<1>8. \A i \in 1..Needed(t) : Tail(look)[i] \in View
  <2>1. \A i \in 1..(Needed(t) + 1) : look[i] \in View BY <1>1, <1>7, LooksOK
  <2>2. look \in Seq(View) /\ Len(look) = Needed(t) + 1 BY <1>6, <1>7, <2>1
  <2>3. \A i \in 1..Needed(t) : Tail(look)[i] = look[i + 1] /\ i + 1 \in 1..(Needed(t) + 1)
    BY <1>6, <2>2
  <2> QED BY <2>1, <2>3
<1>9. StateOK(nct') /\ Slow(nct, nct') BY <1>3, <1>5, <1>8, HandlerOK
<1>10. cached' \in Populations \cup {Nothing} /\ events' \in 0..MaxEvents
  BY <1>1, <1>3, <1>7, ReadsOK
<1>11. network' \in Populations /\ requests' \subseteq Request
  BY <1>1 DEF WindowExpires, TypeOK
<1> QED BY <1>9, <1>10, <1>11 DEF Right, TypeOK, StateOK, AffairsOK

\* become_leader
LEMMA FailoverStep ==
  ASSUME PInv, Failover
  PROVE  Right
<1> DEFINE s == [nct EXCEPT !.remembered = nct.last, !.known = NConfig]
           t == RecoverDeliberation(s)
<1>1. StateOK(nct) /\ TypeOK /\ nct \in Nct /\ nct.remembered = nct.last
  BY DEF PInv, StateOK, AffairsOK, TurnsOK
<1>2. /\ s \in Nct /\ Keeps(nct, s) /\ s.queue = nct.queue /\ s.status = nct.status
      /\ s.silent = nct.silent /\ s.window = nct.window /\ s.deliberation = nct.deliberation
  BY <1>1, ParliamentAssumption DEF Nct, Keeps
<1>3. PICK look \in [1..Needed(t) -> {network, Unreadable}], measured \in BOOLEAN :
        MaybeOpenWindow(t, look, measured) /\ cached' = Refreshed(Nothing, look)
  BY DEF Failover
<1> HIDE DEF s
<1>4. StateOK(s) BY <1>1, <1>2, AsideOK
<1>5. StateOK(t) /\ Keeps(s, t) BY <1>4, RecoverOK
<1> HIDE DEF t
<1>6. Keeps(nct, t) BY <1>2, <1>5 DEF Keeps
<1>7. /\ \A i \in 1..Needed(t) : look[i] \in View
      /\ network' \in Populations /\ cached' \in Populations \cup {Nothing}
      /\ requests' \subseteq Request /\ events' \in 0..MaxEvents
  <2>1. network \in View /\ Unreadable \in View BY <1>1 DEF TypeOK, View
  <2> QED BY <1>1, <1>3, <2>1, ParliamentAssumption
          DEF Failover, Happens, TypeOK, Refreshed
<1>8. StateOK(nct') /\ Slow(nct, nct') BY <1>3, <1>5, <1>6, <1>7, HandlerOK
<1> QED BY <1>7, <1>8 DEF Right, TypeOK, StateOK, AffairsOK

\* The steps that decide nothing.
LEMMA OtherSteps ==
  ASSUME PInv,
         \/ PauseEnds \/ NetworkChanges \/ UNCHANGED vars
         \/ \E u \in Worker, a \in Answer : ValidateDecision(u, a)
         \/ \E r \in Request : WriteDecision(r)
  PROVE  Right
<1>1. StateOK(nct) /\ TypeOK /\ nct \in Nct BY DEF PInv, StateOK, AffairsOK
<1>2. CASE PauseEnds
  <2> DEFINE d == [nct.deliberation EXCEPT !.over = TRUE]
  <2>1. nct.deliberation \in Deliberation BY <1>1, <1>2 DEF PauseEnds, Nct
  <2>2. /\ d \in Deliberation /\ d # Nothing /\ d.law = nct.deliberation.law
        /\ d.n = nct.deliberation.n /\ d.units = nct.deliberation.units
        /\ d.measured = nct.deliberation.measured
        /\ d.blind = nct.deliberation.blind
    <3>1. /\ d \in Deliberation /\ d.law = nct.deliberation.law
          /\ d.n = nct.deliberation.n /\ d.units = nct.deliberation.units
          /\ d.measured = nct.deliberation.measured
          /\ d.blind = nct.deliberation.blind
      BY <2>1 DEF Deliberation
    <3> QED BY <3>1, SomeThing
  <2>3. nct' = [nct EXCEPT !.deliberation = d] BY <1>1, <1>2 DEF PauseEnds, Nct
  <2>4. nct.deliberation # Nothing BY <1>2 DEF PauseEnds
  <2> HIDE DEF d
  <2>5. /\ nct' \in Nct /\ Keeps(nct, nct') /\ nct'.deliberation = d
        /\ nct'.queue = nct.queue /\ nct'.status = nct.status
        /\ nct'.silent = nct.silent /\ nct'.window = nct.window
    BY <1>1, <2>2, <2>3 DEF Nct, Keeps
  <2>6. StateOK(nct') BY <1>1, <2>2, <2>4, <2>5, AsideOK
  <2>7. Slow(nct, nct') BY <1>1, <2>5, SlowAtRest, StillSlow DEF Keeps
  <2>8. TypeOK' BY <1>1, <1>2, <2>5 DEF TypeOK, PauseEnds
  <2> QED BY <2>6, <2>7, <2>8 DEF Right
<1>3. ASSUME NEW r \in Request, WriteDecision(r) PROVE Right
  <2>1. /\ nct' \in Nct /\ Keeps(nct, nct') /\ nct'.deliberation = nct.deliberation
        /\ nct'.queue = nct.queue /\ nct'.status = nct.status
        /\ nct'.silent = nct.silent /\ nct'.window = nct.window
    <3> DEFINE given == [nct.answers[r.law] EXCEPT ![r.unit] = r.answer]
               answers == [nct.answers EXCEPT ![r.law] = given]
    <3>1. nct' = [nct EXCEPT !.answers = answers]
      BY <1>1, <1>3 DEF WriteDecision, Nct
    <3>2. r.law \in Law /\ r.unit \in Worker /\ r.answer \in Answer BY DEF Request
    <3>3. given \in Given BY <1>1, <3>2 DEF Nct, Given
    <3> HIDE DEF given
    <3>4. answers \in [Law -> Given] BY <1>1, <3>2, <3>3 DEF Nct
    <3> HIDE DEF answers
    <3> QED BY <1>1, <3>1, <3>4 DEF Nct, Keeps
  <2>2. StateOK(nct') BY <1>1, <2>1, AsideOK
  <2>3. Slow(nct, nct') BY <1>1, <2>1, SlowAtRest, StillSlow DEF Keeps
  <2>4. TypeOK' BY <1>1, <1>3, <2>1 DEF TypeOK, WriteDecision
  <2> QED BY <2>2, <2>3, <2>4 DEF Right
<1>4. ASSUME NEW u \in Worker, NEW a \in Answer, ValidateDecision(u, a) PROVE Right
  <2>1. nct' = nct BY <1>4 DEF ValidateDecision
  <2>2. nct.deliberation.law \in Law
    BY <1>1, <1>4 DEF ValidateDecision, Nct, Deliberation
  <2>3. TypeOK'
    BY <1>1, <1>4, <2>2, ParliamentAssumption DEF TypeOK, ValidateDecision, Happens, Request
  <2> QED BY <1>1, <2>1, <2>3, SlowAtRest DEF Right
<1>5. CASE NetworkChanges
  <2>1. nct' = nct BY <1>5 DEF NetworkChanges
  <2>2. TypeOK' BY <1>1, <1>5, ParliamentAssumption DEF TypeOK, NetworkChanges, Happens
  <2> QED BY <1>1, <2>1, <2>2, SlowAtRest DEF Right
<1>6. CASE UNCHANGED vars
  <2>1. nct' = nct BY <1>6 DEF vars
  <2>2. TypeOK' BY <1>1, <1>6 DEF TypeOK, vars
  <2> QED BY <1>1, <2>1, <2>2, SlowAtRest DEF Right
<1> QED BY <1>2, <1>3, <1>4, <1>5, <1>6

\* Every step is one of these.
LEMMA Steps == PInv /\ [Next]_vars => PInv' /\ Slow(nct, nct')
<1> SUFFICES ASSUME PInv, [Next]_vars PROVE Right BY DEF Right, PInv
<1> QED BY HandleProposalStep, CheckDeliberationStep, OpenNextStep, WindowSealedStep,
           WindowExpiresStep, FailoverStep, OtherSteps DEF Next

-----------------------------------------------------------------------------
(* The theorems *)

\* The inductive invariant.
LEMMA Invariant == Spec => []PInv
BY InitOK, Steps, PTL DEF Spec

\* The state of the parliament, in Redis and in the leader, is well formed.
THEOREM TypeCorrect == Spec => []TypeOK
<1>1. PInv => TypeOK BY DEF PInv
<1> QED BY <1>1, Invariant, PTL

\* For any number of laws and authors, any sample and any share: while a law can
\* be opened, no more younger laws take a turn before it than it takes to push
\* the turns of its author out of the sample.
THEOREM QueueIsFair == Spec => []NobodyStarves
<1>1. PInv => NobodyStarves
  BY RulesAssumption
     DEF PInv, StateOK, TurnsOK, PassedOK, NobodyStarves, Queued, Patience
<1> QED BY <1>1, Invariant, PTL

\* A law that is announced with a quorum by category has somebody to answer, unless the
\* announcement could not read the population, or saw another one than the quorum: the
\* handler reads it twice.
THEOREM SomebodyIsCalled == Spec => []AnnouncedToSomebody
<1>1. PInv => AnnouncedToSomebody
  BY DEF PInv, StateOK, AffairsOK, AnnouncedOK, AnnouncedToSomebody
<1> QED BY <1>1, Invariant, PTL

\* What the announcement measured binds the window, whoever leaves or refuses.
THEOREM PriceIsFrozen == Spec => []PullingOutDoesNotCheapen
<1>1. PInv => PullingOutDoesNotCheapen
  BY DEF PInv, StateOK, AffairsOK, PriceOK, Fair, PullingOutDoesNotCheapen
<1> QED BY <1>1, Invariant, PTL

\* The difficulty of a scope falls one zero at a time, after DecayWindows lower
\* measures in a row, over any changes of leader.
THEOREM RatchetHolds == Spec => DifficultyFallsSlowly
<1>1. Slow(nct, nct')
      => \A a \in Area \cup {None} :
           nct'.ratchet[a].n < nct.ratchet[a].n =>
             /\ nct'.ratchet[a].n = nct.ratchet[a].n - 1
             /\ Len(nct'.measures[a]) = DecayWindows
             /\ \A i \in 1..DecayWindows : nct'.measures[a][i] < nct.ratchet[a].n
  BY DEF Slow
<1>2. PInv /\ [Next]_vars
      => [\A a \in Area \cup {None} :
            nct'.ratchet[a].n < nct.ratchet[a].n =>
              /\ nct'.ratchet[a].n = nct.ratchet[a].n - 1
              /\ Len(nct'.measures[a]) = DecayWindows
              /\ \A i \in 1..DecayWindows : nct'.measures[a][i] < nct.ratchet[a].n]_vars
  BY Steps, <1>1
<1> QED BY <1>2, Invariant, PTL DEF Spec, DifficultyFallsSlowly
=============================================================================
