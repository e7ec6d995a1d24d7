------------------------ MODULE NodeEnrollment_proofs -------------------------
(***************************************************************************)
(* The tokens of a miner, for any number of pods, requests at once and     *)
(* failures: its Secret stays unless it is registered again, a token that  *)
(* is valid is in it, and two tokens are enough for two pods while nothing *)
(* unusual happens.                                                        *)
(***************************************************************************)
EXTENDS NodeEnrollment, TLAPS, FiniteSetTheorems, Functions

-----------------------------------------------------------------------------
(* A new token *)

\* A function takes at most as many values as its domain has elements.
LEMMA ImageBound ==
  ASSUME NEW S, IsFiniteSet(S), NEW f, DOMAIN f = S
  PROVE  IsFiniteSet({f[x] : x \in S}) /\ Cardinality({f[x] : x \in S}) <= Cardinality(S)
<1> DEFINE T == {f[x] : x \in S}
           g == [x \in S |-> f[x]]
<1>1. g \in Surjection(S, T) BY DEF Surjection
<1> HIDE DEF g, T
<1>2. IsFiniteSet(T) /\ Cardinality(T) <= Cardinality(S) BY <1>1, FS_Surjection
<1> QED BY <1>2 DEF T

\* Two sets have no more elements together than one and the other.
LEMMA UnionBound ==
  ASSUME NEW S, IsFiniteSet(S), NEW T, IsFiniteSet(T),
         NEW m \in Nat, NEW n \in Nat, Cardinality(S) <= m, Cardinality(T) <= n
  PROVE  IsFiniteSet(S \cup T) /\ Cardinality(S \cup T) <= m + n
<1>1. /\ Cardinality(S) \in Nat /\ Cardinality(T) \in Nat
      /\ IsFiniteSet(S \cap T) /\ Cardinality(S \cap T) \in Nat
  <2>1. S \cap T \in SUBSET S OBVIOUS
  <2>2. IsFiniteSet(S \cap T) BY <2>1, FS_Subset
  <2> QED BY <2>2, FS_CardinalityType
<1>2. /\ IsFiniteSet(S \cup T)
      /\ Cardinality(S \cup T) = Cardinality(S) + Cardinality(T) - Cardinality(S \cap T)
  BY FS_Union
<1> QED BY <1>1, <1>2

\* There are fewer tokens in use than tokens, so a new one is nobody's.
LEMMA NewTokenOK ==
  NewToken \in Token /\ NewToken \notin InUse
<1> DEFINE A == {slot[s] : s \in Slot}
           B == {secret[s] : s \in IF secret = None THEN {} ELSE Slot}
           Main == {pod[p].files["main"] : p \in Pod}
           Replica == {pod[p].files["replica"] : p \in Pod}
           D == {request[a].token : a \in Api}
           n == Cardinality(Pod)
           m == Cardinality(Api)
<1>1. n \in Nat /\ m \in Nat /\ IsFiniteSet(Pod) /\ IsFiniteSet(Api)
  BY EnrollmentAssumption, FS_CardinalityType
<1>2. /\ IsFiniteSet(Slot) /\ Cardinality(Slot) = 2
      /\ IsFiniteSet({}) /\ Cardinality({}) = 0
  <2>1. IsFiniteSet({"main"}) /\ Cardinality({"main"}) = 1 BY FS_Singleton
  <2>2. IsFiniteSet({"main"} \cup {"replica"})
        /\ Cardinality({"main"} \cup {"replica"}) = 2
    BY <2>1, FS_AddElement
  <2>3. Slot = {"main"} \cup {"replica"} BY DEF Slot
  <2> QED BY <2>2, <2>3, FS_EmptySet
<1>3. IsFiniteSet(A) /\ Cardinality(A) <= 2
  <2> DEFINE f == [s \in Slot |-> slot[s]]
  <2>1. IsFiniteSet({f[s] : s \in Slot})
        /\ Cardinality({f[s] : s \in Slot}) <= Cardinality(Slot)
    <3>1. DOMAIN f = Slot OBVIOUS
    <3> HIDE DEF f
    <3> QED BY <1>2, <3>1, ImageBound
  <2>2. A = {f[s] : s \in Slot} OBVIOUS
  <2> QED BY <1>2, <2>1, <2>2
<1>4. IsFiniteSet(B) /\ Cardinality(B) <= 2
  <2> DEFINE f == [s \in Slot |-> secret[s]]
  <2>1. IsFiniteSet({f[s] : s \in Slot})
        /\ Cardinality({f[s] : s \in Slot}) <= Cardinality(Slot)
    <3>1. DOMAIN f = Slot OBVIOUS
    <3> HIDE DEF f
    <3> QED BY <1>2, <3>1, ImageBound
  <2>2. secret # None => B = {f[s] : s \in Slot} OBVIOUS
  <2>3. secret = None => B = {} OBVIOUS
  <2> QED BY <1>2, <2>1, <2>2, <2>3
<1>5. IsFiniteSet(Main) /\ Cardinality(Main) <= n
  <2> DEFINE f == [p \in Pod |-> pod[p].files["main"]]
  <2>1. IsFiniteSet({f[p] : p \in Pod}) /\ Cardinality({f[p] : p \in Pod}) <= n
    BY <1>1, ImageBound
  <2> QED BY <2>1
<1>6. IsFiniteSet(Replica) /\ Cardinality(Replica) <= n
  <2> DEFINE f == [p \in Pod |-> pod[p].files["replica"]]
  <2>1. IsFiniteSet({f[p] : p \in Pod}) /\ Cardinality({f[p] : p \in Pod}) <= n
    BY <1>1, ImageBound
  <2> QED BY <2>1
<1>7. IsFiniteSet(D) /\ Cardinality(D) <= m
  <2> DEFINE f == [a \in Api |-> request[a].token]
  <2>1. IsFiniteSet({f[a] : a \in Api}) /\ Cardinality({f[a] : a \in Api}) <= m
    BY <1>1, ImageBound
  <2> QED BY <2>1
<1>8. InUse \subseteq ((A \cup B) \cup (Main \cup Replica)) \cup D
  BY DEF InUse, Alive, Slot
<1> DEFINE U == ((A \cup B) \cup (Main \cup Replica)) \cup D
<1>9. IsFiniteSet(U) /\ Cardinality(U) <= 4 + 2 * n + m
  <2> HIDE DEF A, B, Main, Replica, D, n, m
  <2>1. IsFiniteSet(A \cup B) /\ Cardinality(A \cup B) <= 2 + 2
    BY <1>3, <1>4, UnionBound
  <2>2. IsFiniteSet(Main \cup Replica) /\ Cardinality(Main \cup Replica) <= n + n
    BY <1>1, <1>5, <1>6, UnionBound
  <2>3. 2 + 2 \in Nat /\ n + n \in Nat /\ (2 + 2) + (n + n) \in Nat BY <1>1
  <2>4. IsFiniteSet((A \cup B) \cup (Main \cup Replica))
        /\ Cardinality((A \cup B) \cup (Main \cup Replica)) <= (2 + 2) + (n + n)
    BY <2>1, <2>2, <2>3, UnionBound
  <2>5. IsFiniteSet(U) /\ Cardinality(U) <= ((2 + 2) + (n + n)) + m
    BY <1>1, <1>7, <2>3, <2>4, UnionBound
  <2> QED BY <1>1, <2>5
<1>10. \E t \in Token : t \notin InUse
  <2> SUFFICES ASSUME Token \subseteq U PROVE FALSE BY <1>8
  <2> HIDE DEF U
  <2>1. IsFiniteSet(Token) /\ Cardinality(Token) <= Cardinality(U) BY <1>9, FS_Subset
  <2>2. Cardinality(Token) \in Nat /\ Cardinality(U) \in Nat
    BY <1>9, <2>1, FS_CardinalityType
  <2>3. Cardinality(Token) > 4 + m + 2 * n BY <2>1, EnrollmentAssumption
  <2> HIDE DEF m, n
  <2> QED BY <1>1, <1>9, <2>1, <2>2, <2>3
<1> QED BY <1>10 DEF NewToken

-----------------------------------------------------------------------------
(* The invariant *)

Requested == [step : Steps, token : Token \cup {None}, pod : Pod \cup {None},
              replicas : 0..2]

Spends == {"spend_main", "spend_replica"}
Asking == Spends \cup {"bind", "refuse", "reissue", "patch_main"}
Owners == {"create_secret", "create_deployment", "remove", "remove_secret",
           "patch_replica", "scale"}
Undelivered == {"create_secret", "patch_replica", "patch_main"}

Asks(x) == x # Dead /\ x # NoPod /\ x.state = "asking" /\ x.left # <<>>

\* What a request is about: a pod that waits for its answer, unless it died, or the
\* owner; a token that is on its way to the Secret.
RequestOK(r, pods) ==
  /\ r.step = "idle" => r = Idle
  /\ r.step \in Asking => r.pod \in Pod /\ (pods[r.pod] = Dead \/ Asks(pods[r.pod]))
  /\ r.step \in Owners => r.pod = None
  /\ r.step \in Undelivered => r.token \in Token
  /\ r.step = "patch_replica" => r.replicas = 2
  /\ r.step = "scale" => r.replicas \in 1..2

\* Two requests are not of the same pod, nor of the owner; a token on its way is of one
\* request, and nobody spends it.
Apart(r, q, pods) ==
  /\ r.step \in Asking /\ q.step \in Asking /\ r.pod = q.pod => pods[r.pod] = Dead
  /\ ~(r.step \in Owners /\ q.step \in Owners)
  /\ r.step \in Undelivered /\ q.step \in Undelivered \cup Spends => r.token # q.token
  /\ r.step \in Spends /\ q.step \in Undelivered => r.token # q.token

Requests ==
  /\ \A a \in Api : RequestOK(request[a], pod)
  /\ \A a, b \in Api : a # b => Apart(request[a], request[b], pod)

\* A token that nobody was given yet is nowhere, and the two slots differ.
Unseen(t) ==
  /\ secret # None => \A s \in Slot : secret[s] # t
  /\ \A p \in Alive, s \in Slot : pod[p].files[s] # t
Fresh ==
  /\ slot["main"] # None => slot["main"] # slot["replica"]
  /\ \A a \in Api : request[a].step \in Undelivered => Unseen(request[a].token)

\* A Deployment has its Secret, unless its miner was registered again: that request is
\* still at work, or has deleted it.
Again == "again" \in disturbed
Placed ==
  /\ registered /\ deployment # 0 /\ ~Again => secret # None
  /\ Again => /\ deployment # 0 /\ registered
              /\ secret = None \/ \E a \in Api : \/ At(a, "create_secret")
                                               \/ At(a, "create_deployment")
  /\ ~registered /\ deployment # 0 => \E a \in Api : At(a, "remove")
  /\ \A a \in Api :
       /\ At(a, "create_secret") => registered /\ (deployment = 0 \/ Again)
       /\ At(a, "create_deployment") =>
            registered /\ (deployment = 0 \/ Again) /\ secret # None
       /\ At(a, "remove") => ~registered
       /\ At(a, "remove_secret") => deployment = 0
       /\ At(a, "patch_replica") \/ At(a, "scale") => deployment # 0

\* Where it was not registered again, it is being created or has its Secret.
Deployed ==
  /\ deployment # 0 => secret # None
  /\ ~registered /\ deployment # 0 => \E a \in Api : At(a, "remove")
  /\ \A a \in Api :
       /\ At(a, "create_secret") => registered /\ deployment = 0
       /\ At(a, "create_deployment") => registered /\ deployment = 0 /\ secret # None
       /\ At(a, "remove_secret") => deployment = 0
       /\ At(a, "patch_replica") \/ At(a, "scale") => deployment # 0

\* While the miner has been neither removed nor registered again, nothing runs before its
\* Deployment, and a token that is valid is in the Secret or on its way.
Delivers(r, s) ==
  IF s = "main" THEN r.step \in {"create_secret", "patch_main"}
  ELSE r.step = "patch_replica"
Untaken ==
  deployment = 0 => /\ \A p \in Pod : pod[p] = NoPod
                    /\ slot["replica"] = None
                    /\ secret # None => \E a \in Api : At(a, "create_deployment")
Carried(r) ==
  /\ r.step \notin {"remove", "remove_secret"}
  /\ \A s \in Slot : Delivers(r, s) => slot[s] = r.token
  /\ r.step = "create_deployment" => slot["main"] = r.token /\ slot["main"] # None
Found(s) ==
  slot[s] # None =>
    (secret # None /\ secret[s] = slot[s]) \/ \E a \in Api : Delivers(request[a], s)
Kept == Untaken /\ (\A a \in Api : Carried(request[a])) /\ \A s \in Slot : Found(s)

\* While nothing unusual has happened there is a token for each pod that is not
\* bound yet or has not started, and the first one is spent before the second one is
\* tried.
Binding(p) == \E a \in Api : At(a, "bind") /\ request[a].pod = p
Served == {p \in Alive : p \in nodes \/ Binding(p)}
Valid == (IF slot["main"] = None THEN 0 ELSE 1) + (IF slot["replica"] = None THEN 0 ELSE 1)
Finds(x) ==
  /\ x.files["main"] = slot["main"]
  /\ x.state = "trying" /\ x.left # <<>> => Head(x.left) = "main"
Enough ==
  /\ Cardinality(Alive) <= deployment
  /\ deployment <= Valid + Cardinality(Served)
  /\ deployment # 0 => slot["main"] # None \/ Served # {}
Quiet(r) ==
  /\ r.step \notin {"reissue", "patch_main"}
  /\ r.step = "refuse" => slot["main"] = None /\ r.pod \notin nodes
  /\ r.step \in Spends => r.pod \notin nodes
  /\ r.step \in {"bind", "spend_replica"} => slot["main"] = None
  /\ r.step = "scale" => /\ r.replicas = 2 /\ 2 <= Valid + Cardinality(Served)
                         /\ slot["replica"] \in {None, r.token}
Pods ==
  \A p \in Pod : /\ pod[p] # Dead
                 /\ p \in Alive /\ pod[p].state = "bound" => p \in nodes
                 /\ p \in Alive /\ slot["main"] # None => Finds(pod[p])
Calm ==
  /\ Enough /\ Pods /\ \A a \in Api : Quiet(request[a])
  /\ slot["main"] # None => nodes = {}

EInv == TypeOK /\ Requests /\ Fresh
DInv == EInv /\ Placed
Undisturbed == disturbed \cap {"removed", "again", "crossed"} = {}
KInv == DInv /\ (Undisturbed => Kept) /\ (disturbed = {} => Calm)

-----------------------------------------------------------------------------
(* Turns: how a request goes on, and what becomes of the others *)

Process == Running \cup {NoPod, Dead}

\* A pod that waits for an answer does so until it has it, or dies.
StillAsks(p) ==
  /\ pod[p] = Dead => pod'[p] = Dead
  /\ Asks(pod[p]) => Asks(pod'[p]) \/ pod'[p] = Dead

\* The request of one place, and only that.
Turned(a, r) == request'[a] = r /\ \A b \in Api \ {a} : request'[b] = request[b]

\* A request turns to something that is well formed and apart from the others.
LEMMA Turn ==
  ASSUME TypeOK, Requests, NEW a \in Api, NEW r \in Requested,
         request' = [request EXCEPT ![a] = r], RequestOK(r, pod'),
         \A b \in Api \ {a} : Apart(r, request[b], pod'),
         \A b \in Api \ {a} : request[b].step \in Asking => StillAsks(request[b].pod)
  PROVE  request' \in [Api -> Requested] /\ Turned(a, r) /\ Requests'
<1>1. request \in [Api -> Requested] BY DEF TypeOK, Requested
<1>2. request' \in [Api -> Requested] /\ Turned(a, r) BY <1>1 DEF Turned
<1>3. ASSUME NEW b \in Api PROVE RequestOK(request'[b], pod')
  <2>1. CASE b = a BY <1>2, <2>1 DEF Turned
  <2>2. CASE b # a
    <3>1. RequestOK(request[b], pod) BY DEF Requests
    <3>2. RequestOK(request[b], pod') BY <2>2, <3>1 DEF RequestOK, StillAsks
    <3> QED BY <1>2, <2>2, <3>2 DEF Turned
  <2> QED BY <2>1, <2>2
<1>4. ASSUME NEW b \in Api, NEW c \in Api, b # c
      PROVE  Apart(request'[b], request'[c], pod')
  <2>1. ASSUME NEW d \in Api \ {a} PROVE Apart(request'[d], request'[a], pod')
    <3>1. Apart(r, request[d], pod') BY <2>1
    <3>2. Apart(request[d], r, pod') BY <3>1 DEF Apart
    <3> QED BY <1>2, <3>2 DEF Turned
  <2>2. CASE b = a BY <1>2, <1>4, <2>2 DEF Turned
  <2>3. CASE c = a BY <1>4, <2>1, <2>3
  <2>4. CASE b # a /\ c # a
    <3>1. Apart(request[b], request[c], pod) BY <1>4 DEF Requests
    <3>2. Apart(request[b], request[c], pod') BY <2>4, <3>1 DEF Apart, StillAsks
    <3> QED BY <1>2, <2>4, <3>2 DEF Turned
  <2> QED BY <2>2, <2>3, <2>4
<1> QED BY <1>2, <1>3, <1>4 DEF Requests

\* Nobody turns to anything.
LEMMA NoTurn ==
  ASSUME Requests, request' = request, \A p \in Pod : StillAsks(p)
  PROVE  Requests'
<1>1. ASSUME NEW a \in Api PROVE RequestOK(request'[a], pod')
  <2>1. RequestOK(request[a], pod) BY DEF Requests
  <2>2. RequestOK(request[a], pod') BY <2>1 DEF RequestOK, StillAsks
  <2> QED BY <2>2
<1>2. ASSUME NEW a \in Api, NEW b \in Api, a # b
      PROVE  Apart(request'[a], request'[b], pod')
  <2>1. Apart(request[a], request[b], pod) /\ RequestOK(request[a], pod)
    BY <1>2 DEF Requests
  <2>2. Apart(request[a], request[b], pod')
    BY <2>1 DEF Apart, StillAsks, RequestOK
  <2> QED BY <2>2
<1> QED BY <1>1, <1>2 DEF Requests

\* The owner asks for something, or what it asked for goes on.
Owned(r) ==
  /\ r.step \in Owners \cup {"idle"} /\ r.pod = None /\ (r.step = "idle" => r = Idle)
  /\ r.step \in Undelivered => r.token \in Token /\ r.token \notin InUse
  /\ r.step = "patch_replica" => r.replicas = 2
  /\ r.step = "scale" => r.replicas \in 1..2
OnlyOwner(a) ==
  /\ request[a].step \in Owners \cup {"idle"} /\ request[a].pod = None
  /\ \A b \in Api \ {a} : request[b].step \notin Owners

\* Only one request is the owner's.
LEMMA OwnerOK ==
  ASSUME TypeOK, Requests, NEW a \in Api, OwnerAsks(a) \/ request[a].step \in Owners
  PROVE  OnlyOwner(a)
<1>1. CASE OwnerAsks(a)
  <2>1. request[a] = Idle /\ ~OwnerWaits BY <1>1 DEF OwnerAsks
  <2>2. ASSUME NEW b \in Api, request[b].step \in Owners PROVE FALSE
    <3>1. request[b].pod = None /\ request[b] # Idle
      BY <2>2 DEF Requests, RequestOK, Owners, Idle
    <3> QED BY <2>1, <3>1 DEF OwnerWaits
  <2> QED BY <2>1, <2>2 DEF OnlyOwner, Idle
<1>2. CASE request[a].step \in Owners
  <2>1. ASSUME NEW b \in Api \ {a} PROVE request[b].step \notin Owners
    BY <1>2, <2>1 DEF Requests, Apart
  <2> QED BY <1>2, <2>1 DEF OnlyOwner, Requests, RequestOK
<1> QED BY <1>1, <1>2

\* Its turn.
LEMMA OwnerTurn ==
  ASSUME TypeOK, Requests, NEW a \in Api, OnlyOwner(a), NEW r \in Requested, Owned(r),
         request' = [request EXCEPT ![a] = r],
         \A p \in Pod : pod'[p] = pod[p] \/ pod'[p] = Dead
  PROVE  request' \in [Api -> Requested] /\ Turned(a, r) /\ Requests'
<1>1. RequestOK(r, pod')
  BY DEF Owned, RequestOK, Asking, Spends, Owners, Undelivered
<1>2. ASSUME NEW b \in Api \ {a} PROVE Apart(r, request[b], pod')
  <2>1. request[b].token \in InUse BY DEF InUse
  <2> QED BY <2>1 DEF Apart, Owned, OnlyOwner, Asking, Spends, Owners, Undelivered
<1>3. ASSUME NEW b \in Api \ {a}, request[b].step \in Asking
      PROVE  StillAsks(request[b].pod)
  <2>1. request[b].pod \in Pod BY <1>3 DEF Requests, RequestOK
  <2> QED BY <2>1 DEF StillAsks
<1> QED BY <1>1, <1>2, <1>3, Turn

\* A pod gets its answer.
LEMMA AnswerTurn ==
  ASSUME TypeOK, Requests, NEW a \in Api, request[a].step \in Asking, Done(a),
         \A q \in Pod \ {request[a].pod} : pod'[q] = pod[q],
         pod[request[a].pod] = Dead => pod' = pod
  PROVE  request' \in [Api -> Requested] /\ Turned(a, Idle) /\ Requests'
<1>1. Idle \in Requested /\ RequestOK(Idle, pod')
  BY DEF Idle, Requested, RequestOK, Asking, Spends, Owners, Undelivered, Steps
<1>2. request' = [request EXCEPT ![a] = Idle] BY DEF Done
<1>3. ASSUME NEW b \in Api \ {a} PROVE Apart(Idle, request[b], pod')
  BY DEF Apart, Idle, Asking, Spends, Owners, Undelivered
<1>4. ASSUME NEW b \in Api \ {a}, request[b].step \in Asking
      PROVE  StillAsks(request[b].pod)
  <2>1. Apart(request[a], request[b], pod) /\ request[b].pod \in Pod
    BY <1>4 DEF Requests, RequestOK
  <2>2. CASE request[b].pod = request[a].pod
    <3>1. pod[request[a].pod] = Dead BY <1>4, <2>1, <2>2 DEF Apart
    <3> QED BY <3>1 DEF StillAsks
  <2>3. CASE request[b].pod # request[a].pod
    BY <2>1, <2>3 DEF StillAsks
  <2> QED BY <2>2, <2>3
<1> HIDE DEF Done
<1> QED BY <1>1, <1>2, <1>3, <1>4, Turn

-----------------------------------------------------------------------------
(* Pods *)

\* A pod that runs is a record.
LEMMA AliveOK ==
  ASSUME TypeOK, NEW p \in Alive
  PROVE  p \in Pod /\ pod[p] \in Running /\ pod[p] # NoPod /\ pod[p] # Dead
BY DEF TypeOK, Alive

\* And nothing that does not run is one.
LEMMA RunningOK ==
  NoPod # Dead /\ \A x \in Running : x # NoPod /\ x # Dead
<1>1. \A x \in Running : x.state \notin {"none", "dead"} BY DEF Running
<1> QED BY <1>1 DEF NoPod, Dead

\* The first slot with a file comes first.
LEMMA FilesOK ==
  ASSUME NEW files \in File
  PROVE  /\ FilesOf(files) \in Seq(Slot)
         /\ files["main"] # None => FilesOf(files) # <<>> /\ Head(FilesOf(files)) = "main"
<1>1. <<>> \in Seq(Slot) /\ <<"main">> \in Seq(Slot) /\ <<"replica">> \in Seq(Slot)
  BY DEF Slot
<1>2. \A m, r \in Seq(Slot) : m \o r \in Seq(Slot) OBVIOUS
<1>3. CASE files["main"] = None BY <1>1, <1>2, <1>3 DEF FilesOf
<1>4. CASE files["main"] # None
  <2>1. \A r \in Seq(Slot) : <<"main">> \o r # <<>> /\ Head(<<"main">> \o r) = "main"
    <3> SUFFICES ASSUME NEW r \in Seq(Slot)
                 PROVE  <<"main">> \o r # <<>> /\ Head(<<"main">> \o r) = "main"
      OBVIOUS
    <3>1. Len(<<"main">> \o r) = 1 + Len(r) /\ (<<"main">> \o r)[1] = "main"
      BY <1>1
    <3>2. Len(r) \in Nat OBVIOUS
    <3> QED BY <3>1, <3>2, <1>1
  <2> QED BY <1>1, <1>2, <1>4, <2>1 DEF FilesOf
<1> QED BY <1>3, <1>4

\* A pod changes.
LEMMA PodSet ==
  ASSUME TypeOK, NEW p \in Pod, NEW x \in Process, pod' = [pod EXCEPT ![p] = x]
  PROVE  /\ pod' \in [Pod -> Process] /\ pod'[p] = x
         /\ \A q \in Pod \ {p} : pod'[q] = pod[q]
BY DEF TypeOK, Process

\* It gets its answer, and is asked no more.
LEMMA AnsweredOK ==
  ASSUME TypeOK, Requests, NEW a \in Api, request[a].step \in Asking, NEW ok \in BOOLEAN,
         Answered(request[a].pod, ok)
  PROVE  LET p == request[a].pod
         IN  /\ pod' \in [Pod -> Process] /\ p \in Pod /\ Alive' = Alive
             /\ pod[p] = Dead => pod' = pod
             /\ \A q \in Pod \ {p} : pod'[q] = pod[q]
             /\ p \in Alive => /\ pod'[p].files = pod[p].files
                               /\ pod'[p].state = IF ok THEN "bound" ELSE "trying"
<1> DEFINE p == request[a].pod
           x == [pod[p] EXCEPT !.state = IF ok THEN "bound" ELSE "trying",
                               !.left = IF ok THEN <<>> ELSE Tail(pod[p].left)]
<1>1. p \in Pod /\ (pod[p] = Dead \/ Asks(pod[p])) BY DEF Requests, RequestOK
<1>2. CASE p \notin Alive
  <2>1. pod' = pod BY <1>2 DEF Answered
  <2> QED BY <1>1, <1>2, <2>1 DEF TypeOK, Process, Alive
<1>3. CASE p \in Alive
  <2>1. pod[p] \in Running /\ pod[p] # Dead BY <1>3, AliveOK
  <2>2. pod[p].left # <<>> /\ pod[p].left \in Seq(Slot) /\ <<>> \in Seq(Slot)
        /\ Tail(pod[p].left) \in Seq(Slot)
    BY <1>1, <2>1 DEF Asks, Running
  <2>3. x \in Running /\ x.files = pod[p].files
        /\ x.state = IF ok THEN "bound" ELSE "trying"
    BY <2>1, <2>2 DEF Running
  <2>4. pod' = [pod EXCEPT ![p] = x] BY <1>1, <1>3 DEF Answered, TypeOK
  <2> HIDE DEF x
  <2>5. /\ pod' \in [Pod -> Process] /\ pod'[p] = x
        /\ \A q \in Pod \ {p} : pod'[q] = pod[q]
    BY <1>1, <2>3, <2>4, PodSet DEF Process
  <2>6. Alive' = Alive
    BY <1>3, <2>3, <2>5, RunningOK DEF Alive
  <2> QED BY <1>1, <1>3, <2>1, <2>3, <2>5, <2>6
<1> QED BY <1>2, <1>3

-----------------------------------------------------------------------------
(* Tokens that nobody has seen *)

\* None is issued.
LEMMA FreshKept ==
  ASSUME Fresh, \A s \in Slot : slot'[s] = slot[s] \/ slot'[s] = None,
         secret' = secret \/ secret' = None,
         \A p \in Alive' : \/ p \in Alive /\ pod'[p].files = pod[p].files
                           \/ secret # None /\ pod'[p].files = secret,
         \A b \in Api : request'[b].step \in Undelivered =>
           request[b].step \in Undelivered /\ request'[b].token = request[b].token
  PROVE  Fresh'
<1>1. "main" \in Slot /\ "replica" \in Slot BY DEF Slot
<1>2. (slot["main"] # None => slot["main"] # slot["replica"])' BY <1>1 DEF Fresh
<1>3. ASSUME NEW b \in Api, request'[b].step \in Undelivered
      PROVE  Unseen(request[b].token)'
  <2>1. Unseen(request[b].token) /\ request'[b].token = request[b].token
    BY <1>3 DEF Fresh
  <2> QED BY <2>1 DEF Unseen
<1> QED BY <1>2, <1>3 DEF Fresh

\* One is issued.
LEMMA FreshIssued ==
  ASSUME TypeOK, Fresh, NEW t \in Token, t \notin InUse, NEW s \in Slot,
         slot' = [slot EXCEPT ![s] = t], secret' = secret, pod' = pod,
         \A b \in Api : request'[b].step \in Undelivered =>
           request'[b] = request[b] \/ request'[b].token = t
  PROVE  Fresh'
<1>1. t # None /\ slot \in File BY EnrollmentAssumption DEF TypeOK
<1>2. slot'["main"] # None => slot'["main"] # slot'["replica"]
  <2>1. t # slot["main"] /\ t # slot["replica"] BY DEF InUse, Slot
  <2> QED BY <1>1, <2>1 DEF Fresh, File, Slot
<1>3. Alive' = Alive BY DEF Alive
<1>4. Unseen(t) BY DEF Unseen, InUse
<1>5. ASSUME NEW b \in Api, request'[b].step \in Undelivered
      PROVE  Unseen(request[b].token)'
  <2>1. Unseen(request'[b].token) BY <1>4, <1>5 DEF Fresh
  <2> QED BY <1>3, <2>1 DEF Unseen
<1> QED BY <1>2, <1>5 DEF Fresh

\* One is put in the Secret.
LEMMA FreshDelivered ==
  ASSUME TypeOK, Requests, Fresh, NEW a \in Api, request[a].step \in Undelivered,
         \A s \in Slot : slot'[s] = slot[s] \/ slot'[s] = None,
         \A s \in Slot : \/ secret'[s] \in {request[a].token, None}
                         \/ secret # None /\ secret'[s] = secret[s],
         Alive' = Alive, \A p \in Alive : pod'[p].files = pod[p].files,
         request'[a].step \notin Undelivered,
         \A b \in Api \ {a} : request'[b] = request[b]
  PROVE  Fresh'
<1>1. "main" \in Slot /\ "replica" \in Slot BY DEF Slot
<1>2. (slot["main"] # None => slot["main"] # slot["replica"])' BY <1>1 DEF Fresh
<1>3. ASSUME NEW b \in Api, request'[b].step \in Undelivered
      PROVE  Unseen(request[b].token)'
  <2>1. b # a /\ request'[b] = request[b] /\ request[b].step \in Undelivered BY <1>3
  <2>2. Unseen(request[b].token) BY <2>1 DEF Fresh
  <2>3. request[b].token # request[a].token
    BY <2>1 DEF Requests, Apart
  <2>4. request[b].token # None
    BY <2>1, EnrollmentAssumption DEF Requests, RequestOK
  <2> QED BY <2>1, <2>2, <2>3, <2>4 DEF Unseen
<1> QED BY <1>2, <1>3 DEF Fresh

-----------------------------------------------------------------------------
(* The requests of the owner keep the types and the tokens apart *)

\* What a request becomes.
LEMMA ServeOK ==
  ASSUME TypeOK, NEW a \in Api, NEW step \in Steps, NEW t \in Token \cup {None},
         NEW p \in Pod \cup {None}, NEW n \in 0..2, Serve(a, step, t, p, n)
  PROVE  \E r \in Requested :
           /\ request' = [request EXCEPT ![a] = r]
           /\ r.step = step /\ r.token = t /\ r.pod = p /\ r.replicas = n
<1> DEFINE r == [step |-> step, token |-> t, pod |-> p, replicas |-> n]
<1>1. r \in Requested /\ r.step = step /\ r.token = t /\ r.pod = p /\ r.replicas = n
  BY DEF Requested
<1>2. request' = [request EXCEPT ![a] = r] BY DEF Serve
<1> HIDE DEF r
<1> QED BY <1>1, <1>2

\* When it goes on, only its step is another.
LEMMA GoOnOK ==
  ASSUME TypeOK, NEW a \in Api, NEW step \in Steps, GoOn(a, step)
  PROVE  \E r \in Requested :
           /\ request' = [request EXCEPT ![a] = r]
           /\ r.step = step /\ r.token = request[a].token /\ r.pod = request[a].pod
           /\ r.replicas = request[a].replicas
<1> DEFINE r == [request[a] EXCEPT !.step = step]
<1>1. request \in [Api -> Requested] BY DEF TypeOK, Requested
<1>2. r \in Requested /\ r.step = step /\ r.token = request[a].token
      /\ r.pod = request[a].pod /\ r.replicas = request[a].replicas
  BY <1>1 DEF Requested
<1>3. request' = [request EXCEPT ![a] = r] BY <1>1 DEF GoOn
<1> HIDE DEF r
<1> QED BY <1>2, <1>3

\* When it is done, nothing is left of it.
LEMMA IdleOK == Idle \in Requested /\ Owned(Idle) /\ Idle.step = "idle" /\ Idle.pod = None
BY DEF Idle, Requested, Steps, Owned, Owners, Undelivered

\* Calls to Kubernetes, and what happens.
LEMMA BoundsOK ==
  ASSUME TypeOK
  PROVE  /\ Happens => events' \in 0..MaxEvents
         /\ Raises => /\ events' \in 0..MaxEvents
                      /\ disturbed' \subseteq Disturbances
                      /\ disturbed \subseteq disturbed' /\ disturbed' # {}
         /\ \A calls \in BOOLEAN : Works(calls) =>
              events' \in 0..MaxEvents /\ disturbed' = disturbed
                /\ disturbed' \subseteq Disturbances
<1>1. events \in 0..MaxEvents /\ disturbed \subseteq Disturbances
  BY DEF TypeOK
<1>2. Happens => events' \in 0..MaxEvents BY <1>1, EnrollmentAssumption DEF Happens
<1>3. Raises => /\ disturbed' \subseteq Disturbances
                /\ disturbed \subseteq disturbed' /\ disturbed' # {}
  BY <1>1 DEF Raises, Disturbances
<1>4. Raises => Happens BY DEF Raises
<1>5. \A calls \in BOOLEAN : Works(calls) => events' = events /\ disturbed' = disturbed
  BY DEF Works
<1> QED BY <1>1, <1>2, <1>3, <1>4, <1>5

\* The owner asks, within the bound.
LEMMA AsksOK ==
  ASSUME TypeOK, NEW a \in Api, OwnerAsks(a)
  PROVE  requests' \in 0..MaxRequests
BY EnrollmentAssumption DEF TypeOK, OwnerAsks

\* The types, variable by variable.
LEMMA Typed ==
  ASSUME registered' \in BOOLEAN, nodes' \subseteq Pod, slot' \in File,
         secret' \in File \cup {None}, deployment' \in 0..2, pod' \in [Pod -> Process],
         request' \in [Api -> Requested], requests' \in 0..MaxRequests,
         events' \in 0..MaxEvents, disturbed' \subseteq Disturbances
  PROVE  TypeOK'
BY DEF TypeOK, Process, Requested

\* What a step leaves alone keeps its type.
LEMMA Untouched ==
  ASSUME TypeOK
  PROVE  /\ registered' = registered => registered' \in BOOLEAN
         /\ nodes' = nodes => nodes' \subseteq Pod
         /\ slot' = slot => slot' \in File
         /\ secret' = secret => secret' \in File \cup {None}
         /\ deployment' = deployment => deployment' \in 0..2
         /\ pod' = pod => pod' \in [Pod -> Process] /\ Alive' = Alive
         /\ request' = request => request' \in [Api -> Requested]
         /\ requests' = requests => requests' \in 0..MaxRequests
         /\ events' = events => events' \in 0..MaxEvents
         /\ disturbed' = disturbed => disturbed' \subseteq Disturbances
BY DEF TypeOK, Process, Requested, Alive

\* A slot takes a token, or none.
LEMMA SlotSet ==
  ASSUME TypeOK, NEW s \in Slot, NEW t \in Token \cup {None}, slot' = [slot EXCEPT ![s] = t]
  PROVE  slot' \in File /\ slot'[s] = t /\ \A u \in Slot \ {s} : slot'[u] = slot[u]
BY DEF TypeOK, File

\* persist_worker_registration
LEMMA RegisterStep ==
  ASSUME EInv, NEW a \in Api, Register(a)
  PROVE  EInv'
<1>1. TypeOK /\ Requests /\ Fresh BY DEF EInv
<1>2. PICK t \in Token : t = NewToken /\ t \notin InUse BY NewTokenOK
<1>3. /\ OwnerAsks(a) /\ registered' = TRUE /\ nodes' = {}
      /\ slot' = [slot EXCEPT !["main"] = t] /\ Serve(a, "create_secret", t, None, 0)
      /\ UNCHANGED <<secret, deployment, pod, events>> /\ disturbed' \subseteq Disturbances
  BY <1>1, <1>2 DEF Register, kubernetes, TypeOK, Disturbances
<1>4. PICK r \in Requested :
        /\ request' = [request EXCEPT ![a] = r]
        /\ r.step = "create_secret" /\ r.token = t /\ r.pod = None
  BY <1>1, <1>3, ServeOK DEF Steps
<1>5. OnlyOwner(a) BY <1>1, <1>3, OwnerOK
<1>6. Owned(r) BY <1>2, <1>4 DEF Owned, Owners
<1>7. request' \in [Api -> Requested] /\ Turned(a, r) /\ Requests'
  BY <1>1, <1>3, <1>4, <1>5, <1>6, OwnerTurn
<1>8. slot' \in File BY <1>1, <1>3, SlotSet DEF Slot
<1>9. TypeOK' BY <1>1, <1>3, <1>7, <1>8, AsksOK, Typed, Untouched
<1>10. Fresh'
  <2>1. \A b \in Api : request'[b] = request[b] \/ request'[b].token = t
    BY <1>4, <1>7 DEF Turned
  <2> QED BY <1>1, <1>2, <1>3, <2>1, FreshIssued DEF Slot
<1> QED BY <1>7, <1>9, <1>10 DEF EInv

\* scale_k8s_coordinator
LEMMA ScaleCoordinatorStep ==
  ASSUME EInv, NEW a \in Api, NEW n \in 1..2, ScaleCoordinator(a, n)
  PROVE  EInv'
<1>1. TypeOK /\ Requests /\ Fresh BY DEF EInv
<1>2. /\ OwnerAsks(a) /\ disturbed' = disturbed \cup {d \in {"dissolved"} : n = 1}
      /\ UNCHANGED <<registered, nodes, secret, deployment, pod, events>>
  BY DEF ScaleCoordinator, kubernetes
<1>3. OnlyOwner(a) /\ n \in 0..2 BY <1>1, <1>2, OwnerOK
<1>4. disturbed' \subseteq Disturbances BY <1>1, <1>2 DEF TypeOK, Disturbances
<1>5. CASE n = 2
  <2>1. PICK t \in Token : t = NewToken /\ t \notin InUse BY NewTokenOK
  <2>2. slot' = [slot EXCEPT !["replica"] = t] /\ Serve(a, "patch_replica", t, None, 2)
    BY <1>5, <2>1 DEF ScaleCoordinator
  <2>3. PICK r \in Requested :
          /\ request' = [request EXCEPT ![a] = r]
          /\ r.step = "patch_replica" /\ r.token = t /\ r.pod = None /\ r.replicas = 2
    BY <1>1, <2>2, ServeOK DEF Steps
  <2>4. Owned(r) BY <2>1, <2>3 DEF Owned, Owners
  <2>5. request' \in [Api -> Requested] /\ Turned(a, r) /\ Requests'
    BY <1>1, <1>2, <1>3, <2>3, <2>4, OwnerTurn
  <2>6. slot' \in File BY <1>1, <2>2, SlotSet DEF Slot
  <2>7. TypeOK' BY <1>1, <1>2, <1>4, <2>5, <2>6, AsksOK, Typed, Untouched
  <2>8. Fresh'
    <3>1. \A b \in Api : request'[b] = request[b] \/ request'[b].token = t
      BY <2>3, <2>5 DEF Turned
    <3> QED BY <1>1, <1>2, <2>1, <2>2, <3>1, FreshIssued DEF Slot
  <2> QED BY <2>5, <2>7, <2>8 DEF EInv
<1>6. CASE n = 1
  <2>1. slot' = slot /\ Serve(a, "scale", None, None, n)
    BY <1>6 DEF ScaleCoordinator
  <2>2. PICK r \in Requested :
          /\ request' = [request EXCEPT ![a] = r]
          /\ r.step = "scale" /\ r.token = None /\ r.pod = None /\ r.replicas = n
    BY <1>1, <1>3, <2>1, ServeOK DEF Steps
  <2>3. Owned(r) BY <2>2 DEF Owned, Owners, Undelivered
  <2>4. request' \in [Api -> Requested] /\ Turned(a, r) /\ Requests'
    BY <1>1, <1>2, <1>3, <2>2, <2>3, OwnerTurn
  <2>5. TypeOK' BY <1>1, <1>2, <1>4, <2>1, <2>4, AsksOK, Typed, Untouched
  <2>6. Fresh'
    <3>1. \A b \in Api : request'[b].step \in Undelivered => request'[b] = request[b]
      BY <2>2, <2>4 DEF Turned, Undelivered
    <3>2. Alive' = Alive BY <1>2 DEF Alive
    <3> QED BY <1>1, <1>2, <2>1, <3>1, <3>2, FreshKept
  <2> QED BY <2>4, <2>5, <2>6 DEF EInv
<1> QED BY <1>5, <1>6

\* unregister_worker
LEMMA UnregisterStep ==
  ASSUME EInv, NEW a \in Api, Unregister(a)
  PROVE  EInv'
<1>1. TypeOK /\ Requests /\ Fresh BY DEF EInv
<1>2. /\ OwnerAsks(a) /\ registered' = FALSE /\ nodes' = {}
      /\ slot' = [s \in Slot |-> None] /\ Serve(a, "remove", None, None, 0)
      /\ disturbed' = (disturbed \ {"again"}) \cup {"removed"}
      /\ UNCHANGED <<secret, deployment, pod, events>>
  BY DEF Unregister, kubernetes
<1>3. PICK r \in Requested :
        request' = [request EXCEPT ![a] = r] /\ r.step = "remove" /\ r.pod = None
  BY <1>1, <1>2, ServeOK DEF Steps
<1>4. OnlyOwner(a) /\ Owned(r)
  BY <1>1, <1>2, <1>3, OwnerOK DEF Owned, Owners, Undelivered
<1>5. request' \in [Api -> Requested] /\ Turned(a, r) /\ Requests'
  BY <1>1, <1>2, <1>3, <1>4, OwnerTurn
<1>6. slot' \in File /\ disturbed' \subseteq Disturbances
  BY <1>1, <1>2 DEF File, TypeOK, Disturbances
<1>7. TypeOK' BY <1>1, <1>2, <1>5, <1>6, AsksOK, Typed, Untouched
<1>8. Fresh'
  <2>1. \A b \in Api : request'[b].step \in Undelivered => request'[b] = request[b]
    BY <1>3, <1>5 DEF Turned, Undelivered
  <2>2. Alive' = Alive BY <1>2 DEF Alive
  <2> QED BY <1>1, <1>2, <2>1, <2>2, FreshKept
<1> QED BY <1>5, <1>7, <1>8 DEF EInv

\* _spawn_k8s_worker fails.
LEMMA SpawnFailsOK ==
  ASSUME TypeOK, Requests, Fresh, NEW a \in Api, request[a].step \in Owners,
         SpawnFails(a), pod' = pod
  PROVE  /\ request' \in [Api -> Requested] /\ Turned(a, Idle) /\ Requests'
         /\ slot' \in File /\ slot'["main"] = None /\ slot'["replica"] = slot["replica"]
         /\ secret' \in File \cup {None} /\ Fresh'
<1>1. /\ secret' = None /\ slot' = [slot EXCEPT !["main"] = None]
      /\ request' = [request EXCEPT ![a] = Idle]
  BY DEF SpawnFails, Done
<1>2. request' \in [Api -> Requested] /\ Turned(a, Idle) /\ Requests'
  BY <1>1, OwnerOK, IdleOK, OwnerTurn
<1>3. slot' \in File /\ slot'["main"] = None /\ \A s \in Slot \ {"main"} : slot'[s] = slot[s]
  BY <1>1, SlotSet DEF Slot
<1>4. \A b \in Api : request'[b].step \in Undelivered => request'[b] = request[b]
  BY <1>2, IdleOK DEF Turned, Undelivered
<1>5. Alive' = Alive BY DEF Alive
<1>6. Fresh' BY <1>1, <1>3, <1>4, <1>5, FreshKept
<1> QED BY <1>1, <1>2, <1>3, <1>6 DEF Slot

\* create_namespaced_secret
LEMMA CreateSecretStep ==
  ASSUME EInv, NEW a \in Api, CreateSecret(a)
  PROVE  EInv'
<1>1. TypeOK /\ Requests /\ Fresh BY DEF EInv
<1>2. request[a].step = "create_secret" /\ pod' = pod /\ requests' = requests
  BY DEF CreateSecret, At
<1>3. request[a].step \in Owners BY <1>2 DEF Owners
<1>4. Alive' = Alive BY <1>2 DEF Alive
<1>5. CASE SpawnFails(a) /\ ((Works(secret # None)) \/ Raises)
  <2>1. UNCHANGED <<registered, nodes, deployment>> BY <1>5 DEF SpawnFails
  <2>2. events' \in 0..MaxEvents /\ disturbed' \subseteq Disturbances
    BY <1>1, <1>5, BoundsOK
  <2>3. TypeOK' BY <1>1, <1>2, <1>3, <1>5, <2>1, <2>2, SpawnFailsOK, Typed, Untouched
  <2> QED BY <1>1, <1>2, <1>3, <1>5, <2>3, SpawnFailsOK DEF EInv
<1>6. CASE /\ Works(secret = None) /\ GoOn(a, "create_deployment")
           /\ secret' = [s \in Slot |-> IF s = "main" THEN request[a].token ELSE None]
           /\ UNCHANGED <<redis, deployment>>
  <2>1. PICK r \in Requested :
          /\ request' = [request EXCEPT ![a] = r]
          /\ r.step = "create_deployment" /\ r.pod = request[a].pod
    BY <1>1, <1>6, GoOnOK DEF Steps
  <2>2. OnlyOwner(a) BY <1>1, <1>3, OwnerOK
  <2>3. Owned(r) BY <2>1, <2>2 DEF Owned, OnlyOwner, Owners, Undelivered
  <2>4. request' \in [Api -> Requested] /\ Turned(a, r) /\ Requests'
    BY <1>1, <1>2, <2>1, <2>2, <2>3, OwnerTurn
  <2>5. request[a].token \in Token \cup {None} BY <1>1 DEF TypeOK
  <2>6. secret' \in File BY <1>6, <2>5 DEF File
  <2>7. events' = events /\ disturbed' = disturbed BY <1>6 DEF Works
  <2>8. TypeOK' BY <1>1, <1>2, <1>6, <2>4, <2>6, <2>7, Typed, Untouched DEF redis
  <2>9. Fresh'
    <3>1. request[a].step \in Undelivered /\ r.step \notin Undelivered
      BY <1>2, <2>1 DEF Undelivered
    <3>2. \A s \in Slot : secret'[s] \in {request[a].token, None} BY <1>6
    <3> QED BY <1>1, <1>2, <1>4, <1>6, <2>4, <3>1, <3>2, FreshDelivered DEF Turned, redis
  <2> QED BY <2>4, <2>8, <2>9 DEF EInv
<1> QED BY <1>5, <1>6 DEF CreateSecret

\* create_namespaced_deployment
LEMMA CreateDeploymentStep ==
  ASSUME EInv, NEW a \in Api, CreateDeployment(a)
  PROVE  EInv'
<1>1. TypeOK /\ Requests /\ Fresh BY DEF EInv
<1>2. request[a].step = "create_deployment" /\ pod' = pod /\ requests' = requests
  BY DEF CreateDeployment, At
<1>3. request[a].step \in Owners BY <1>2 DEF Owners
<1>4. Alive' = Alive BY <1>2 DEF Alive
<1>5. CASE SpawnFails(a) /\ ((Works(deployment # 0)) \/ Raises)
  <2>1. UNCHANGED <<registered, nodes, deployment>> BY <1>5 DEF SpawnFails
  <2>2. events' \in 0..MaxEvents /\ disturbed' \subseteq Disturbances
    BY <1>1, <1>5, BoundsOK
  <2>3. TypeOK' BY <1>1, <1>2, <1>3, <1>5, <2>1, <2>2, SpawnFailsOK, Typed, Untouched
  <2> QED BY <1>1, <1>2, <1>3, <1>5, <2>3, SpawnFailsOK DEF EInv
<1>6. CASE /\ Works(deployment = 0) /\ deployment' = 1 /\ Done(a)
           /\ UNCHANGED <<redis, secret>>
  <2>1. request' = [request EXCEPT ![a] = Idle] BY <1>6 DEF Done
  <2>2. request' \in [Api -> Requested] /\ Turned(a, Idle) /\ Requests'
    BY <1>1, <1>2, <1>3, <2>1, OwnerOK, IdleOK, OwnerTurn
  <2>3. events' = events /\ disturbed' = disturbed BY <1>6 DEF Works
  <2>4. deployment' \in 0..2 BY <1>6
  <2>5. TypeOK' BY <1>1, <1>2, <1>6, <2>2, <2>3, <2>4, Typed, Untouched DEF redis
  <2>6. \A b \in Api : request'[b].step \in Undelivered => request'[b] = request[b]
    BY <2>2, IdleOK DEF Turned, Undelivered
  <2>7. Fresh' BY <1>1, <1>2, <1>4, <1>6, <2>6, FreshKept DEF redis
  <2> QED BY <2>2, <2>5, <2>7 DEF EInv
<1> QED BY <1>5, <1>6 DEF CreateDeployment

\* delete_namespaced_deployment
LEMMA RemoveStep ==
  ASSUME EInv, NEW a \in Api, Remove(a)
  PROVE  EInv'
<1>1. TypeOK /\ Requests /\ Fresh BY DEF EInv
<1>2. /\ request[a].step = "remove" /\ deployment' = 0 /\ GoOn(a, "remove_secret")
      /\ pod' = [p \in Pod |-> IF p \in Alive THEN Dead ELSE pod[p]]
      /\ UNCHANGED <<registered, nodes, slot, secret, requests, events, disturbed>>
  BY DEF Remove, At, redis, bounds
<1>3. OnlyOwner(a) BY <1>1, <1>2, OwnerOK DEF Owners
<1>4. PICK r \in Requested :
        request' = [request EXCEPT ![a] = r] /\ r.step = "remove_secret" /\ r.pod = None
  BY <1>1, <1>2, <1>3, GoOnOK DEF Steps, OnlyOwner
<1>5. Owned(r) BY <1>4 DEF Owned, Owners, Undelivered
<1>6. request' \in [Api -> Requested] /\ Turned(a, r) /\ Requests'
  BY <1>1, <1>2, <1>3, <1>4, <1>5, OwnerTurn
<1>7. pod' \in [Pod -> Process] BY <1>1, <1>2 DEF TypeOK, Process
<1>8. TypeOK' BY <1>1, <1>2, <1>6, <1>7, Typed, Untouched
<1>9. Fresh'
  <2>1. \A b \in Api : request'[b].step \in Undelivered => request'[b] = request[b]
    BY <1>4, <1>6 DEF Turned, Undelivered
  <2>2. Alive' = {} BY <1>2 DEF Alive
  <2> QED BY <1>1, <1>2, <2>1, <2>2, FreshKept
<1> QED BY <1>6, <1>8, <1>9 DEF EInv

\* delete_namespaced_secret
LEMMA RemoveSecretStep ==
  ASSUME EInv, NEW a \in Api, RemoveSecret(a)
  PROVE  EInv'
<1>1. TypeOK /\ Requests /\ Fresh BY DEF EInv
<1>2. /\ request[a].step = "remove_secret" /\ secret' = None
      /\ request' = [request EXCEPT ![a] = Idle]
      /\ UNCHANGED <<registered, nodes, slot, deployment, pod, requests, events, disturbed>>
  BY DEF RemoveSecret, Done, At, redis, bounds
<1>3. request' \in [Api -> Requested] /\ Turned(a, Idle) /\ Requests'
  BY <1>1, <1>2, OwnerOK, IdleOK, OwnerTurn DEF Owners
<1>4. TypeOK' BY <1>1, <1>2, <1>3, Typed, Untouched
<1>5. \A b \in Api : request'[b].step \in Undelivered => request'[b] = request[b]
  BY <1>3, IdleOK DEF Turned, Undelivered
<1>6. Alive' = Alive BY <1>2 DEF Alive
<1>7. Fresh' BY <1>1, <1>2, <1>5, <1>6, FreshKept
<1> QED BY <1>3, <1>4, <1>7 DEF EInv

\* patch_namespaced_secret, of the second slot
LEMMA PatchReplicaStep ==
  ASSUME EInv, NEW a \in Api, PatchReplica(a)
  PROVE  EInv'
<1>1. TypeOK /\ Requests /\ Fresh BY DEF EInv
<1>2. /\ request[a].step = "patch_replica" /\ GoOn(a, "scale")
      /\ UNCHANGED <<registered, nodes, deployment, pod, requests>>
  BY DEF PatchReplica, At
<1>3. OnlyOwner(a) BY <1>1, <1>2, OwnerOK DEF Owners
<1>4. request[a].token \in Token /\ request[a].replicas = 2
  BY <1>1, <1>2 DEF Requests, RequestOK, Undelivered
<1>5. PICK r \in Requested :
        /\ request' = [request EXCEPT ![a] = r]
        /\ r.step = "scale" /\ r.pod = None /\ r.replicas = 2
  BY <1>1, <1>2, <1>3, <1>4, GoOnOK DEF Steps, OnlyOwner
<1>6. Owned(r) BY <1>5 DEF Owned, Owners, Undelivered
<1>7. request' \in [Api -> Requested] /\ Turned(a, r) /\ Requests'
  BY <1>1, <1>2, <1>3, <1>5, <1>6, OwnerTurn
<1>8. Alive' = Alive BY <1>2 DEF Alive
<1>9. request[a].step \in Undelivered /\ r.step \notin Undelivered
  BY <1>2, <1>5 DEF Undelivered
<1>10. CASE /\ Works(secret # None) /\ slot' = slot
            /\ secret' = [secret EXCEPT !["replica"] = request[a].token]
  <2>1. secret # None /\ events' = events /\ disturbed' = disturbed BY <1>10 DEF Works
  <2>2. secret \in File BY <1>1, <2>1 DEF TypeOK
  <2>3. secret' \in File BY <1>4, <1>10, <2>2 DEF File, Slot
  <2>4. TypeOK' BY <1>1, <1>2, <1>7, <1>10, <2>1, <2>3, Typed, Untouched
  <2>5. \A s \in Slot : \/ secret'[s] \in {request[a].token, None}
                        \/ secret # None /\ secret'[s] = secret[s]
    <3>1. secret'["replica"] = request[a].token BY <1>10, <2>2 DEF File, Slot
    <3>2. \A s \in Slot \ {"replica"} : secret'[s] = secret[s] BY <1>10, <2>2 DEF File
    <3>3. ASSUME NEW s \in Slot
          PROVE  \/ secret'[s] \in {request[a].token, None}
                 \/ secret # None /\ secret'[s] = secret[s]
      <4>1. CASE s = "replica" BY <3>1, <4>1
      <4>2. CASE s # "replica" BY <2>1, <3>2, <4>2
      <4> QED BY <4>1, <4>2
    <3> QED BY <3>3
  <2>6. Fresh'
    BY <1>1, <1>2, <1>7, <1>8, <1>9, <1>10, <2>5, FreshDelivered DEF Turned
  <2> QED BY <1>7, <2>4, <2>6 DEF EInv
<1>11. CASE /\ Works(secret = None) \/ Raises
            /\ slot' = [slot EXCEPT !["replica"] = None] /\ secret' = secret
  <2>1. events' \in 0..MaxEvents /\ disturbed' \subseteq Disturbances
    BY <1>1, <1>11, BoundsOK
  <2>2. slot' \in File /\ slot'["replica"] = None
        /\ \A s \in Slot \ {"replica"} : slot'[s] = slot[s]
    BY <1>1, <1>11, SlotSet DEF Slot
  <2>3. TypeOK' BY <1>1, <1>2, <1>7, <1>11, <2>1, <2>2, Typed, Untouched
  <2>4. \A b \in Api : request'[b].step \in Undelivered => request'[b] = request[b]
    BY <1>7, <1>9 DEF Turned
  <2>5. Fresh' BY <1>1, <1>2, <1>8, <1>11, <2>2, <2>4, FreshKept
  <2> QED BY <1>7, <2>3, <2>5 DEF EInv
<1> QED BY <1>10, <1>11 DEF PatchReplica

\* patch_namespaced_deployment_scale
LEMMA ScaleStep ==
  ASSUME EInv, NEW a \in Api, Scale(a)
  PROVE  EInv'
<1>1. TypeOK /\ Requests /\ Fresh BY DEF EInv
<1>2. /\ request[a].step = "scale" /\ request' = [request EXCEPT ![a] = Idle]
      /\ UNCHANGED <<registered, nodes, slot, secret, pod, requests>>
  BY DEF Scale, Done, At, redis
<1>3. request' \in [Api -> Requested] /\ Turned(a, Idle) /\ Requests'
  BY <1>1, <1>2, OwnerOK, IdleOK, OwnerTurn DEF Owners
<1>4. /\ deployment' \in 0..2 /\ events' \in 0..MaxEvents
      /\ disturbed' \subseteq Disturbances
  <2>1. Works(TRUE) \/ Raises BY DEF Scale
  <2>2. deployment' = deployment \/ deployment' = 0 \/ deployment' = request[a].replicas
    BY DEF Scale
  <2>3. request[a].replicas \in 0..2 /\ deployment \in 0..2 BY <1>1 DEF TypeOK
  <2>4. deployment' \in 0..2 BY <2>2, <2>3
  <2> QED BY <1>1, <2>1, <2>4, BoundsOK
<1>5. TypeOK' BY <1>1, <1>2, <1>3, <1>4, Typed, Untouched
<1>6. \A b \in Api : request'[b].step \in Undelivered => request'[b] = request[b]
  BY <1>3, IdleOK DEF Turned, Undelivered
<1>7. Alive' = Alive BY <1>2 DEF Alive
<1>8. Fresh' BY <1>1, <1>2, <1>6, <1>7, FreshKept
<1> QED BY <1>3, <1>5, <1>8 DEF EInv

-----------------------------------------------------------------------------
(* So do the pods *)

\* A pod changes while the API does nothing: it reads its files again, reads the
\* Secret, or dies; if it waits for an answer it goes on waiting.
LEMMA PodStep ==
  ASSUME EInv, NEW p \in Pod, NEW x \in Process, pod' = [pod EXCEPT ![p] = x],
         UNCHANGED <<registered, nodes, slot, secret, deployment, request, requests>>,
         events' \in 0..MaxEvents, disturbed' \subseteq Disturbances,
         pod[p] = Dead => x = Dead, Asks(pod[p]) => Asks(x) \/ x = Dead,
         x \in Running => \/ p \in Alive /\ x.files = pod[p].files
                          \/ secret # None /\ x.files = secret
  PROVE  EInv'
<1>1. TypeOK /\ Requests /\ Fresh BY DEF EInv
<1>2. /\ pod' \in [Pod -> Process] /\ pod'[p] = x
      /\ \A q \in Pod \ {p} : pod'[q] = pod[q]
  BY <1>1, PodSet
<1>3. TypeOK' BY <1>1, <1>2, Typed, Untouched
<1>4. Requests'
  <2>1. ASSUME NEW q \in Pod PROVE StillAsks(q)
    <3>1. CASE q = p BY <1>2, <3>1 DEF StillAsks
    <3>2. CASE q # p BY <1>2, <3>2 DEF StillAsks
    <3> QED BY <3>1, <3>2
  <2> QED BY <1>1, <2>1, NoTurn
<1>5. Fresh'
  <2>1. ASSUME NEW q \in Alive'
        PROVE  \/ q \in Alive /\ pod'[q].files = pod[q].files
               \/ secret # None /\ pod'[q].files = secret
    <3>1. q \in Pod /\ pod'[q] # NoPod /\ pod'[q] # Dead BY DEF Alive
    <3>2. CASE q = p
      <4>1. x \in Running BY <1>2, <3>1, <3>2 DEF Process
      <4> QED BY <1>2, <3>2, <4>1
    <3>3. CASE q # p BY <1>2, <3>1, <3>3 DEF Alive
    <3> QED BY <3>2, <3>3
  <2> QED BY <1>1, <2>1, FreshKept
<1> QED BY <1>3, <1>4, <1>5 DEF EInv

\* A pod starts.
LEMMA PodStartsStep ==
  ASSUME EInv, NEW p \in Pod, PodStarts(p)
  PROVE  EInv'
<1>1. TypeOK BY DEF EInv
<1> DEFINE x == [state |-> "trying", files |-> secret, left |-> FilesOf(secret)]
<1>2. /\ pod[p] = NoPod /\ secret # None /\ pod' = [pod EXCEPT ![p] = x]
      /\ UNCHANGED <<registered, nodes, slot, secret, deployment, request, requests,
                     events, disturbed>>
  BY DEF PodStarts, redis, kubernetes, bounds
<1>3. secret \in File BY <1>1, <1>2 DEF TypeOK
<1>4. FilesOf(secret) \in Seq(Slot) BY <1>3, FilesOK
<1>5. x \in Running BY <1>3, <1>4 DEF Running
<1>6. x.files = secret OBVIOUS
<1>7. NoPod # Dead /\ ~Asks(NoPod) BY RunningOK DEF Asks
<1> HIDE DEF x
<1>8. events' \in 0..MaxEvents /\ disturbed' \subseteq Disturbances
  BY <1>1, <1>2, Untouched
<1> QED BY <1>2, <1>5, <1>6, <1>7, <1>8, PodStep DEF Process

\* The Deployment stops a pod, or it dies.
LEMMA PodEndsStep ==
  ASSUME EInv, NEW p \in Pod, PodStops(p) \/ PodDies(p)
  PROVE  EInv'
<1>1. TypeOK BY DEF EInv
<1>2. /\ pod' = [pod EXCEPT ![p] = Dead]
      /\ UNCHANGED <<registered, nodes, slot, secret, deployment, request, requests>>
  BY DEF PodStops, PodDies, redis, kubernetes, bounds
<1>3. UNCHANGED <<events, disturbed>> \/ Raises BY DEF PodStops, PodDies, bounds
<1>4. events' \in 0..MaxEvents /\ disturbed' \subseteq Disturbances
  BY <1>1, <1>3, BoundsOK, Untouched
<1>5. Dead \in Process /\ Dead \notin Running BY RunningOK DEF Process
<1> QED BY <1>2, <1>4, <1>5, PodStep

\* A pod starts a round over, or gives it up.
LEMMA RoundStep ==
  ASSUME EInv, NEW p \in Pod, ContainerRestarts(p) \/ Retry(p) \/ RoundEnds(p)
  PROVE  EInv'
<1>1. TypeOK BY DEF EInv
<1>2. /\ p \in Alive /\ pod[p].state # "asking"
      /\ UNCHANGED <<registered, nodes, slot, secret, deployment, request, requests,
                     disturbed>>
      /\ UNCHANGED events \/ Happens
      /\ NewRound(p) \/ GivesUp(p)
  BY DEF ContainerRestarts, Retry, RoundEnds, redis, kubernetes, bounds
<1>3. pod[p] \in Running /\ pod[p] # Dead /\ ~Asks(pod[p])
  BY <1>1, <1>2, AliveOK DEF Asks
<1>4. events' \in 0..MaxEvents /\ disturbed' \subseteq Disturbances
  BY <1>1, <1>2, BoundsOK, Untouched
<1>5. \E x \in Running : pod' = [pod EXCEPT ![p] = x] /\ x.files = pod[p].files
  <2>1. pod[p].files \in File BY <1>3 DEF Running
  <2>2. FilesOf(pod[p].files) \in Seq(Slot) /\ <<>> \in Seq(Slot) BY <2>1, FilesOK
  <2>3. CASE NewRound(p)
    <3> DEFINE x == [pod[p] EXCEPT !.state = "trying", !.left = FilesOf(pod[p].files)]
    <3>1. x \in Running /\ x.files = pod[p].files BY <1>3, <2>2 DEF Running
    <3>2. pod' = [pod EXCEPT ![p] = x] BY <1>1, <2>3 DEF NewRound, TypeOK
    <3> HIDE DEF x
    <3> QED BY <3>1, <3>2
  <2>4. CASE GivesUp(p)
    <3> DEFINE x == [pod[p] EXCEPT !.state = "waiting", !.left = <<>>]
    <3>1. x \in Running /\ x.files = pod[p].files BY <1>3, <2>2 DEF Running
    <3>2. pod' = [pod EXCEPT ![p] = x] BY <1>1, <2>4 DEF GivesUp, TypeOK
    <3> HIDE DEF x
    <3> QED BY <3>1, <3>2
  <2> QED BY <1>2, <2>3, <2>4
<1> QED BY <1>2, <1>3, <1>4, <1>5, PodStep DEF Process

\* Its files are those of the Secret.
LEMMA RefreshStep ==
  ASSUME EInv, NEW p \in Pod, FilesRefresh(p)
  PROVE  EInv'
<1>1. TypeOK BY DEF EInv
<1>2. /\ p \in Alive /\ secret # None /\ pod' = [pod EXCEPT ![p].files = secret]
      /\ UNCHANGED <<registered, nodes, slot, secret, deployment, request, requests,
                     events, disturbed>>
  BY DEF FilesRefresh, redis, kubernetes, bounds
<1>3. pod[p] \in Running /\ pod[p] # Dead /\ secret \in File
  BY <1>1, <1>2, AliveOK DEF TypeOK
<1> DEFINE x == [pod[p] EXCEPT !.files = secret]
<1>4. x \in Running /\ x.files = secret /\ x.state = pod[p].state /\ x.left = pod[p].left
  BY <1>3 DEF Running
<1>5. pod' = [pod EXCEPT ![p] = x] BY <1>1, <1>2 DEF TypeOK
<1>6. Asks(pod[p]) => Asks(x) BY <1>4, RunningOK DEF Asks
<1> HIDE DEF x
<1>7. events' \in 0..MaxEvents /\ disturbed' \subseteq Disturbances
  BY <1>1, <1>2, Untouched
<1> QED BY <1>2, <1>3, <1>4, <1>5, <1>6, <1>7, PodStep DEF Process

-----------------------------------------------------------------------------
(* And the pods that ask for a key *)

\* A pod asks, with a token it has, and nothing else changes.
LEMMA AskedStep ==
  ASSUME EInv, NEW a \in Api, NEW p \in Pod, request[a] = Idle, p \in Alive,
         pod[p].state = "trying", pod[p].left # <<>>,
         pod' = [pod EXCEPT ![p].state = "asking"],
         NEW step \in Spends \cup {"refuse"}, NEW t \in Token \cup {None},
         Serve(a, step, t, p, 0),
         step \in Spends => \E s \in Slot : t = pod[p].files[s],
         UNCHANGED <<registered, nodes, slot, secret, deployment, requests, events,
                     disturbed>>
  PROVE  EInv'
<1>1. TypeOK /\ Requests /\ Fresh BY DEF EInv
<1>2. pod[p] \in Running /\ pod[p] # Dead /\ pod[p] # NoPod BY <1>1, AliveOK
<1> DEFINE x == [pod[p] EXCEPT !.state = "asking"]
<1>3. /\ x \in Running /\ x.files = pod[p].files
      /\ x.state = "asking" /\ x.left = pod[p].left
  BY <1>2 DEF Running
<1>4. pod' = [pod EXCEPT ![p] = x] BY <1>1 DEF TypeOK
<1>5. Asks(x) BY <1>3, RunningOK DEF Asks
<1>6. ~Asks(pod[p]) BY DEF Asks
<1> HIDE DEF x
<1>7. /\ pod' \in [Pod -> Process] /\ pod'[p] = x
      /\ \A q \in Pod \ {p} : pod'[q] = pod[q]
  BY <1>1, <1>3, <1>4, PodSet DEF Process
<1>8. PICK r \in Requested :
        /\ request' = [request EXCEPT ![a] = r]
        /\ r.step = step /\ r.token = t /\ r.pod = p /\ r.replicas = 0
  BY <1>1, ServeOK DEF Steps, Spends
<1>9. request' \in [Api -> Requested] /\ Turned(a, r) /\ Requests'
  <2>1. RequestOK(r, pod')
    BY <1>5, <1>7, <1>8 DEF RequestOK, Asking, Spends, Owners, Undelivered
  <2>2. ASSUME NEW b \in Api \ {a}, request[b].step \in Asking
        PROVE  request[b].pod # p /\ StillAsks(request[b].pod)
    <3>1. request[b].pod \in Pod
          /\ (pod[request[b].pod] = Dead \/ Asks(pod[request[b].pod]))
      BY <1>1, <2>2 DEF Requests, RequestOK
    <3>2. request[b].pod # p BY <1>2, <1>6, <3>1
    <3> QED BY <1>7, <3>1, <3>2 DEF StillAsks
  <2>3. ASSUME NEW b \in Api \ {a} PROVE Apart(r, request[b], pod')
    <3>1. step \in Spends /\ request[b].step \in Undelivered => t # request[b].token
      BY <1>1 DEF Fresh, Unseen
    <3> QED BY <1>8, <2>2, <3>1 DEF Apart, Asking, Spends, Owners, Undelivered
  <2> QED BY <1>1, <1>8, <2>1, <2>2, <2>3, Turn
<1>10. TypeOK' BY <1>1, <1>7, <1>9, Typed, Untouched
<1>11. Fresh'
  <2>1. \A b \in Api : request'[b].step \in Undelivered => request'[b] = request[b]
    BY <1>8, <1>9 DEF Turned, Undelivered, Spends
  <2>2. ASSUME NEW q \in Alive' PROVE q \in Alive /\ pod'[q].files = pod[q].files
    BY <1>3, <1>7, <2>2 DEF Alive
  <2> QED BY <1>1, <2>1, <2>2, FreshKept
<1> QED BY <1>9, <1>10, <1>11 DEF EInv

\* A pod is answered at once.
LEMMA AtOnceStep ==
  ASSUME EInv, NEW p \in Alive, pod[p].state # "asking",
         NEW x \in Running, pod' = [pod EXCEPT ![p] = x], x.files = pod[p].files,
         UNCHANGED <<registered, nodes, slot, secret, deployment, request, requests,
                     events, disturbed>>
  PROVE  EInv'
<1>1. TypeOK /\ p \in Pod /\ pod[p] # Dead BY AliveOK DEF EInv
<1>2. events' \in 0..MaxEvents /\ disturbed' \subseteq Disturbances
  BY <1>1, Untouched
<1>3. ~Asks(pod[p]) BY DEF Asks
<1> QED BY <1>1, <1>2, <1>3, PodStep DEF Process

\* enroll_node, up to the token
LEMMA EnrollStep ==
  ASSUME EInv, NEW a \in Api, NEW p \in Pod, Enroll(a, p)
  PROVE  EInv'
<1>1. TypeOK BY DEF EInv
<1>2. /\ request[a] = Idle /\ p \in Alive /\ pod[p].state = "trying" /\ pod[p].left # <<>>
      /\ UNCHANGED <<secret, deployment, requests, events, disturbed>>
  BY DEF Enroll, kubernetes, bounds
<1>3. pod[p] \in Running BY <1>1, <1>2, AliveOK
<1> DEFINE t == pod[p].files[Head(pod[p].left)]
<1>4. CASE GivesUp(p) /\ UNCHANGED <<redis, request>>
  <2> DEFINE x == [pod[p] EXCEPT !.state = "waiting", !.left = <<>>]
  <2>1. <<>> \in Seq(Slot) OBVIOUS
  <2>2. x \in Running /\ x.files = pod[p].files BY <1>3, <2>1 DEF Running
  <2>3. pod' = [pod EXCEPT ![p] = x] BY <1>1, <1>4 DEF GivesUp, TypeOK
  <2> HIDE DEF x
  <2> QED BY <1>2, <1>4, <2>2, <2>3, AtOnceStep DEF redis
<1>5. CASE Answered(p, TRUE) /\ UNCHANGED <<redis, request>>
  <2> DEFINE x == [pod[p] EXCEPT !.state = "bound", !.left = <<>>]
  <2>1. <<>> \in Seq(Slot) OBVIOUS
  <2>2. x \in Running /\ x.files = pod[p].files BY <1>3, <2>1 DEF Running
  <2>3. pod' = [pod EXCEPT ![p] = x] BY <1>1, <1>2, <1>5 DEF Answered, TypeOK
  <2> HIDE DEF x
  <2> QED BY <1>2, <1>5, <2>2, <2>3, AtOnceStep DEF redis
<1>6. CASE /\ \E s \in Holding(t) : Serve(a, Spending[s], t, p, 0)
           /\ pod' = [pod EXCEPT ![p].state = "asking"] /\ UNCHANGED redis
  <2>1. PICK s \in Slot : Serve(a, Spending[s], t, p, 0) BY <1>6 DEF Holding
  <2>2. Head(pod[p].left) \in Slot /\ pod[p].files \in File BY <1>2, <1>3 DEF Running
  <2>3. t \in Token \cup {None} /\ \E u \in Slot : t = pod[p].files[u]
    BY <2>2 DEF File
  <2>4. Spending[s] \in Spends BY DEF Spending, Spends, Slot
  <2> QED BY <1>2, <1>6, <2>1, <2>3, <2>4, AskedStep DEF redis
<1>7. CASE /\ pod' = [pod EXCEPT ![p].state = "asking"]
           /\ Serve(a, "refuse", None, p, 0) /\ UNCHANGED redis
  <2>1. "refuse" \notin Spends BY DEF Spends
  <2> QED BY <1>2, <1>7, <2>1, AskedStep DEF redis
<1> QED BY <1>4, <1>5, <1>6, <1>7 DEF Enroll

\* A pod is answered in the end.
LEMMA AnswerStep ==
  ASSUME EInv, NEW a \in Api, request[a].step \in Asking, NEW ok \in BOOLEAN,
         Answered(request[a].pod, ok), Done(a), nodes' \subseteq Pod,
         UNCHANGED <<registered, deployment, requests>>,
         events' \in 0..MaxEvents, disturbed' \subseteq Disturbances,
         slot' \in File, \A s \in Slot : slot'[s] = slot[s] \/ slot'[s] = None,
         secret' = secret
  PROVE  EInv'
<1>1. TypeOK /\ Requests /\ Fresh BY DEF EInv
<1> DEFINE p == request[a].pod
<1>2. /\ pod' \in [Pod -> Process] /\ p \in Pod /\ Alive' = Alive
      /\ pod[p] = Dead => pod' = pod
      /\ \A q \in Pod \ {p} : pod'[q] = pod[q]
      /\ p \in Alive => pod'[p].files = pod[p].files
  BY <1>1, AnsweredOK
<1>3. request' \in [Api -> Requested] /\ Turned(a, Idle) /\ Requests'
  BY <1>1, <1>2, AnswerTurn
<1>4. TypeOK' BY <1>1, <1>2, <1>3, Typed, Untouched
<1>5. Fresh'
  <2>1. \A b \in Api : request'[b].step \in Undelivered => request'[b] = request[b]
    BY <1>3, IdleOK DEF Turned, Undelivered
  <2>2. \A q \in Alive' : q \in Alive /\ pod'[q].files = pod[q].files
    BY <1>2 DEF Alive
  <2> QED BY <1>1, <2>1, <2>2, FreshKept
<1> QED BY <1>3, <1>4, <1>5 DEF EInv

\* What a pod asked for goes on.
LEMMA AskingTurn ==
  ASSUME TypeOK, Requests, NEW a \in Api, request[a].step \in Asking,
         NEW r \in Requested, request' = [request EXCEPT ![a] = r],
         r.step \in {"bind", "reissue", "patch_main"}, r.pod = request[a].pod,
         r.step = "patch_main" => r.token \in Token /\ r.token \notin InUse,
         pod' = pod
  PROVE  request' \in [Api -> Requested] /\ Turned(a, r) /\ Requests'
<1>1. RequestOK(r, pod')
  BY DEF Requests, RequestOK, Asking, Spends, Owners, Undelivered
<1>2. ASSUME NEW b \in Api \ {a} PROVE Apart(r, request[b], pod')
  <2>1. request[b].token \in InUse BY DEF InUse
  <2>2. Apart(request[a], request[b], pod) BY DEF Requests
  <2> QED BY <2>1, <2>2 DEF Apart, Asking, Spends, Owners, Undelivered
<1>3. ASSUME NEW b \in Api \ {a} PROVE StillAsks(request[b].pod)
  BY DEF StillAsks
<1> QED BY <1>1, <1>2, <1>3, Turn

\* _consume_enrollment_token: the token is deleted.
LEMMA SpendStep ==
  ASSUME EInv, NEW a \in Api, NEW s \in Slot, Spend(a, s)
  PROVE  EInv'
<1>1. TypeOK /\ Requests /\ Fresh BY DEF EInv
<1>2. /\ request[a].step \in Spends /\ slot' = [slot EXCEPT ![s] = None]
      /\ Serve(a, "bind", None, request[a].pod, 0)
      /\ UNCHANGED <<registered, nodes, secret, deployment, pod, requests, events>>
      /\ disturbed' \subseteq Disturbances
  BY <1>1 DEF Spend, At, Spending, Spends, Slot, kubernetes, TypeOK, Disturbances
<1>3. request[a].step \in Asking /\ request[a].pod \in Pod
  BY <1>1, <1>2 DEF Asking, Requests, RequestOK
<1>4. PICK r \in Requested :
        /\ request' = [request EXCEPT ![a] = r]
        /\ r.step = "bind" /\ r.pod = request[a].pod
  BY <1>1, <1>2, <1>3, ServeOK DEF Steps
<1>5. request' \in [Api -> Requested] /\ Turned(a, r) /\ Requests'
  BY <1>1, <1>2, <1>3, <1>4, AskingTurn
<1>6. slot' \in File /\ \A u \in Slot : slot'[u] = slot[u] \/ slot'[u] = None
  BY <1>1, <1>2, SlotSet
<1>7. TypeOK' BY <1>1, <1>2, <1>5, <1>6, Typed, Untouched
<1>8. \A b \in Api : request'[b].step \in Undelivered => request'[b] = request[b]
  BY <1>4, <1>5 DEF Turned, Undelivered
<1>9. Alive' = Alive BY <1>2 DEF Alive
<1>10. Fresh' BY <1>1, <1>2, <1>6, <1>8, <1>9, FreshKept
<1> QED BY <1>5, <1>7, <1>10 DEF EInv

\* enroll_node: the key is bound.
LEMMA BindStep ==
  ASSUME EInv, NEW a \in Api, Bind(a)
  PROVE  EInv'
<1>1. TypeOK /\ Requests BY DEF EInv
<1>2. /\ request[a].step = "bind" /\ nodes' = nodes \cup {request[a].pod}
      /\ Answered(request[a].pod, TRUE) /\ Done(a)
      /\ UNCHANGED <<registered, slot, secret, deployment, requests, events, disturbed>>
  BY DEF Bind, At, kubernetes, bounds
<1>3. request[a].step \in Asking BY <1>2 DEF Asking
<1>4. nodes' \subseteq Pod BY <1>1, <1>2, <1>3 DEF TypeOK, Requests, RequestOK
<1> QED BY <1>1, <1>2, <1>3, <1>4, AnswerStep, Untouched

\* reissue_enrollment_token, its first half
LEMMA RefuseStep ==
  ASSUME EInv, NEW a \in Api, Refuse(a)
  PROVE  EInv'
<1>1. TypeOK /\ Requests /\ Fresh BY DEF EInv
<1>2. /\ request[a].step = "refuse"
      /\ UNCHANGED <<registered, nodes, slot, secret, deployment, requests, events, disturbed>>
  BY DEF Refuse, At, redis, kubernetes, bounds
<1>3. request[a].step \in Asking BY <1>2 DEF Asking
<1>4. CASE GoOn(a, "reissue") /\ UNCHANGED pod
  <2>1. PICK r \in Requested :
          /\ request' = [request EXCEPT ![a] = r]
          /\ r.step = "reissue" /\ r.pod = request[a].pod
    BY <1>1, <1>4, GoOnOK DEF Steps
  <2>2. request' \in [Api -> Requested] /\ Turned(a, r) /\ Requests'
    BY <1>1, <1>3, <1>4, <2>1, AskingTurn
  <2>3. TypeOK' BY <1>1, <1>2, <1>4, <2>2, Typed, Untouched
  <2>4. \A b \in Api : request'[b].step \in Undelivered => request'[b] = request[b]
    BY <2>1, <2>2 DEF Turned, Undelivered
  <2>5. Alive' = Alive BY <1>4 DEF Alive
  <2>6. Fresh' BY <1>1, <1>2, <1>4, <2>4, <2>5, FreshKept
  <2> QED BY <2>2, <2>3, <2>6 DEF EInv
<1>5. CASE Answered(request[a].pod, FALSE) /\ Done(a)
  BY <1>1, <1>2, <1>3, <1>5, AnswerStep, Untouched
<1> QED BY <1>4, <1>5 DEF Refuse

\* and its second half
LEMMA ReissueStep ==
  ASSUME EInv, NEW a \in Api, Reissue(a)
  PROVE  EInv'
<1>1. TypeOK /\ Requests /\ Fresh BY DEF EInv
<1>2. /\ request[a].step = "reissue"
      /\ UNCHANGED <<registered, nodes, secret, deployment, requests, events, disturbed>>
  BY DEF Reissue, At, kubernetes, bounds
<1>3. request[a].step \in Asking /\ request[a].pod \in Pod
  BY <1>1, <1>2 DEF Asking, Requests, RequestOK
<1>4. CASE /\ slot' = [slot EXCEPT !["main"] = NewToken]
           /\ Serve(a, "patch_main", NewToken, request[a].pod, 0) /\ UNCHANGED pod
  <2>1. PICK t \in Token : t = NewToken /\ t \notin InUse BY NewTokenOK
  <2>2. Serve(a, "patch_main", t, request[a].pod, 0) /\ slot' = [slot EXCEPT !["main"] = t]
    BY <1>4, <2>1
  <2>3. PICK r \in Requested :
          /\ request' = [request EXCEPT ![a] = r]
          /\ r.step = "patch_main" /\ r.token = t /\ r.pod = request[a].pod
    BY <1>1, <1>3, <2>2, ServeOK DEF Steps
  <2>4. request' \in [Api -> Requested] /\ Turned(a, r) /\ Requests'
    BY <1>1, <1>3, <1>4, <2>1, <2>3, AskingTurn
  <2>5. slot' \in File BY <1>1, <2>2, SlotSet DEF Slot
  <2>6. TypeOK' BY <1>1, <1>2, <1>4, <2>4, <2>5, Typed, Untouched
  <2>7. \A b \in Api : request'[b] = request[b] \/ request'[b].token = t
    BY <2>3, <2>4 DEF Turned
  <2>8. Fresh' BY <1>1, <1>2, <1>4, <2>1, <2>2, <2>7, FreshIssued DEF Slot
  <2> QED BY <2>4, <2>6, <2>8 DEF EInv
<1>5. CASE Answered(request[a].pod, FALSE) /\ Done(a) /\ UNCHANGED slot
  BY <1>1, <1>2, <1>3, <1>5, AnswerStep, Untouched
<1> QED BY <1>4, <1>5 DEF Reissue

\* patch_namespaced_secret, of the first slot
LEMMA PatchMainStep ==
  ASSUME EInv, NEW a \in Api, PatchMain(a)
  PROVE  EInv'
<1>1. TypeOK /\ Requests /\ Fresh BY DEF EInv
<1>2. /\ request[a].step = "patch_main" /\ Answered(request[a].pod, FALSE) /\ Done(a)
      /\ UNCHANGED <<registered, nodes, deployment, requests>>
  BY DEF PatchMain, At
<1>3. request[a].step \in Asking /\ request[a].step \in Undelivered
      /\ request[a].token \in Token
  BY <1>1, <1>2 DEF Asking, Undelivered, Requests, RequestOK
<1>4. CASE /\ Works(secret # None) /\ slot' = slot
           /\ secret' = [secret EXCEPT !["main"] = request[a].token]
  <2> DEFINE p == request[a].pod
  <2>1. /\ pod' \in [Pod -> Process] /\ p \in Pod /\ Alive' = Alive
        /\ pod[p] = Dead => pod' = pod
        /\ \A q \in Pod \ {p} : pod'[q] = pod[q]
        /\ p \in Alive => pod'[p].files = pod[p].files
    BY <1>1, <1>2, <1>3, AnsweredOK
  <2>2. request' \in [Api -> Requested] /\ Turned(a, Idle) /\ Requests'
    BY <1>1, <1>2, <1>3, <2>1, AnswerTurn
  <2>3. secret # None /\ events' = events /\ disturbed' = disturbed BY <1>4 DEF Works
  <2>4. secret \in File BY <1>1, <2>3 DEF TypeOK
  <2>5. secret' \in File BY <1>3, <1>4, <2>4 DEF File, Slot
  <2>6. TypeOK' BY <1>1, <1>2, <1>4, <2>1, <2>2, <2>3, <2>5, Typed, Untouched
  <2>7. \A s \in Slot : \/ secret'[s] \in {request[a].token, None}
                        \/ secret # None /\ secret'[s] = secret[s]
    <3>1. secret'["main"] = request[a].token BY <1>4, <2>4 DEF File, Slot
    <3>2. \A s \in Slot \ {"main"} : secret'[s] = secret[s] BY <1>4, <2>4 DEF File
    <3>3. ASSUME NEW s \in Slot
          PROVE  \/ secret'[s] \in {request[a].token, None}
                 \/ secret # None /\ secret'[s] = secret[s]
      <4>1. CASE s = "main" BY <3>1, <4>1
      <4>2. CASE s # "main" BY <2>3, <3>2, <4>2
      <4> QED BY <4>1, <4>2
    <3> QED BY <3>3
  <2>8. \A q \in Alive : pod'[q].files = pod[q].files BY <2>1 DEF Alive
  <2>9. Fresh'
    BY <1>1, <1>2, <1>3, <1>4, <2>1, <2>2, <2>7, <2>8, IdleOK, FreshDelivered
    DEF Turned, Undelivered
  <2> QED BY <2>2, <2>6, <2>9 DEF EInv
<1>5. CASE /\ Works(secret = None) \/ Raises
           /\ slot' = [slot EXCEPT !["main"] = None] /\ secret' = secret
  <2>1. events' \in 0..MaxEvents /\ disturbed' \subseteq Disturbances
    BY <1>1, <1>5, BoundsOK
  <2>2. slot' \in File /\ slot'["main"] = None
        /\ \A s \in Slot \ {"main"} : slot'[s] = slot[s]
    BY <1>1, <1>5, SlotSet DEF Slot
  <2> QED BY <1>1, <1>2, <1>3, <1>5, <2>1, <2>2, AnswerStep, Untouched
<1> QED BY <1>4, <1>5 DEF PatchMain

\* ENROLL_TOKEN_TTL
LEMMA ExpiresStep ==
  ASSUME EInv, NEW s \in Slot, TokenExpires(s) \/ TokenExpiresEarly(s)
  PROVE  EInv'
<1>1. TypeOK /\ Requests /\ Fresh BY DEF EInv
<1>2. /\ slot' = [slot EXCEPT ![s] = None]
      /\ UNCHANGED <<registered, nodes, secret, deployment, pod, request, requests>>
  BY DEF TokenExpires, TokenExpiresEarly, kubernetes, bounds
<1>3. UNCHANGED <<events, disturbed>> \/ Raises
  BY DEF TokenExpires, TokenExpiresEarly, bounds
<1>4. events' \in 0..MaxEvents /\ disturbed' \subseteq Disturbances
  BY <1>1, <1>3, BoundsOK, Untouched
<1>5. slot' \in File /\ slot'[s] = None /\ \A u \in Slot \ {s} : slot'[u] = slot[u]
  BY <1>1, <1>2, SlotSet
<1>6. TypeOK' BY <1>1, <1>2, <1>4, <1>5, Typed, Untouched
<1>7. Requests' BY <1>1, <1>2, NoTurn DEF StillAsks
<1>8. Alive' = Alive BY <1>2 DEF Alive
<1>9. Fresh' BY <1>1, <1>2, <1>5, <1>8, FreshKept
<1> QED BY <1>6, <1>7, <1>9 DEF EInv

-----------------------------------------------------------------------------
(* Types *)

\* Nothing has happened yet.
LEMMA InitOK == Init => EInv
<1> SUFFICES ASSUME Init PROVE EInv OBVIOUS
<1>1. None \notin Token /\ MaxRequests \in Nat /\ MaxEvents \in Nat
  BY EnrollmentAssumption
<1>2. request \in [Api -> Requested] BY DEF Init, Idle, Requested, Steps
<1>3. pod \in [Pod -> Process] BY DEF Init, Process
<1>4. slot \in File /\ nodes \subseteq Pod /\ registered \in BOOLEAN
      /\ disturbed \subseteq Disturbances
      /\ secret \in File \cup {None}
  BY DEF Init, File
<1>5. deployment \in 0..2 /\ requests \in 0..MaxRequests /\ events \in 0..MaxEvents
  BY <1>1 DEF Init
<1>6. TypeOK BY <1>2, <1>3, <1>4, <1>5 DEF TypeOK, Process, Requested
<1>7. \A a \in Api : request[a] = Idle BY DEF Init
<1>8. Requests
  BY <1>7 DEF Requests, RequestOK, Apart, Idle, Asking, Spends, Owners, Undelivered
<1>9. Fresh BY <1>7 DEF Init, Fresh, Idle, Undelivered, Slot
<1> QED BY <1>6, <1>8, <1>9 DEF EInv

\* The types, the requests and the new tokens hold after every step.
LEMMA EStep == EInv /\ [Next]_vars => EInv'
<1> SUFFICES ASSUME EInv, [Next]_vars PROVE EInv' OBVIOUS
<1>1. CASE \E a \in Api : \/ Register(a) \/ Unregister(a) \/ Handle(a)
                          \/ \E n \in 1..2 : ScaleCoordinator(a, n)
                          \/ \E p \in Pod : Enroll(a, p)
  BY <1>1, RegisterStep, UnregisterStep, ScaleCoordinatorStep, EnrollStep,
     CreateSecretStep, CreateDeploymentStep, RemoveStep, RemoveSecretStep,
     PatchReplicaStep, ScaleStep, SpendStep, BindStep, RefuseStep, ReissueStep, PatchMainStep
  DEF Handle
<1>2. CASE \E p \in Pod : \/ PodStarts(p) \/ PodStops(p) \/ PodDies(p)
                          \/ ContainerRestarts(p) \/ FilesRefresh(p)
                          \/ RoundEnds(p) \/ Retry(p)
  BY <1>2, PodStartsStep, PodEndsStep, RoundStep, RefreshStep
<1>3. CASE \E s \in Slot : TokenExpires(s) \/ TokenExpiresEarly(s)
  BY <1>3, ExpiresStep
<1>4. CASE UNCHANGED vars
  <2>1. UNCHANGED <<registered, nodes, slot, secret, deployment, pod, request, requests,
                    events, disturbed>>
    BY <1>4 DEF vars
  <2>2. TypeOK /\ Requests /\ Fresh BY DEF EInv
  <2>3. TypeOK' BY <2>1, <2>2, Typed, Untouched
  <2>4. Requests' BY <2>1, <2>2, NoTurn DEF StillAsks
  <2>5. Alive' = Alive BY <2>1 DEF Alive
  <2>6. Fresh' BY <2>1, <2>2, <2>5, FreshKept
  <2> QED BY <2>3, <2>4, <2>6 DEF EInv
<1> QED BY <1>1, <1>2, <1>3, <1>4 DEF Next

\* Every variable has its type, whatever fails and whoever asks at once.
THEOREM TypeCorrect == Spec => []TypeOK
<1>1. Init => EInv BY InitOK
<1>2. EInv /\ [Next]_vars => EInv' BY EStep
<1>3. EInv => TypeOK BY DEF EInv
<1> QED BY <1>1, <1>2, <1>3, PTL DEF Spec

-----------------------------------------------------------------------------
(* A Deployment has its Secret *)

\* A request turns, and the others do not.
LEMMA TurnedOK ==
  ASSUME TypeOK, NEW a \in Api, NEW r \in Requested, request' = [request EXCEPT ![a] = r]
  PROVE  Turned(a, r)
BY DEF TypeOK, Requested, Turned

\* Failures are not registrations.
LEMMA AgainKept ==
  /\ Raises => (Again' <=> Again)
  /\ \A calls \in BOOLEAN : Works(calls) => (Again' <=> Again)
  /\ disturbed' = disturbed => (Again' <=> Again)
BY DEF Raises, Works, Again

\* Who is not serving the owner does not disturb the Deployment.
LEMMA Aside ==
  ASSUME Placed, UNCHANGED <<registered, deployment>>, Again' <=> Again,
         secret' = None <=> secret = None,
         \A b \in Api : \/ request'[b].step = request[b].step
                        \/ request[b].step \notin Owners /\ request'[b].step \notin Owners
  PROVE  Placed'
<1>1. \A b \in Api, step \in Owners : request'[b].step = step <=> request[b].step = step
  OBVIOUS
<1>2. \A b \in Api, step \in Owners : At(b, step)' <=> At(b, step) BY <1>1 DEF At
<1>3. {"create_secret", "create_deployment", "remove", "remove_secret", "patch_replica",
       "scale"} \subseteq Owners
  BY DEF Owners
<1>4. (\E b \in Api : At(b, "create_secret") \/ At(b, "create_deployment"))'
        <=> \E b \in Api : At(b, "create_secret") \/ At(b, "create_deployment")
  BY <1>2, <1>3
<1> QED BY <1>2, <1>3, <1>4 DEF Placed

\* Who serves the owner is alone, and answers for the Deployment.
LEMMA OwnerPlaced ==
  ASSUME NEW a \in Api, OnlyOwner(a), NEW r, Turned(a, r),
         registered' /\ deployment' # 0 /\ ~Again' => secret' # None,
         Again' => deployment' # 0 /\ registered',
         Again' => secret' = None \/ r.step \in {"create_secret", "create_deployment"},
         ~registered' /\ deployment' # 0 => r.step = "remove",
         r.step = "create_secret" => registered' /\ (deployment' = 0 \/ Again'),
         r.step = "create_deployment" =>
           registered' /\ (deployment' = 0 \/ Again') /\ secret' # None,
         r.step = "remove" => ~registered',
         r.step = "remove_secret" => deployment' = 0,
         r.step \in {"patch_replica", "scale"} => deployment' # 0
  PROVE  Placed'
<1>1. \A b \in Api \ {a}, step \in Owners : ~At(b, step)'
  BY DEF OnlyOwner, Turned, At
<1>2. \A step \in Owners : At(a, step)' <=> r.step = step BY DEF Turned, At
<1>3. {"create_secret", "create_deployment", "remove", "remove_secret", "patch_replica",
       "scale"} \subseteq Owners
  BY DEF Owners
<1>4. ~registered' /\ deployment' # 0 => At(a, "remove")' BY <1>2, <1>3
<1>5. Again' => \/ secret' = None
                \/ (\E b \in Api : At(b, "create_secret") \/ At(b, "create_deployment"))'
  BY <1>2, <1>3
<1>6. ASSUME NEW b \in Api
      PROVE  (/\ At(b, "create_secret") => registered /\ (deployment = 0 \/ Again)
              /\ At(b, "create_deployment") =>
                   registered /\ (deployment = 0 \/ Again) /\ secret # None
              /\ At(b, "remove") => ~registered
              /\ At(b, "remove_secret") => deployment = 0
              /\ At(b, "patch_replica") \/ At(b, "scale") => deployment # 0)'
  <2>1. CASE b = a BY <1>2, <1>3, <2>1
  <2>2. CASE b # a BY <1>1, <1>3, <2>2
  <2> QED BY <2>1, <2>2
<1> QED BY <1>4, <1>5, <1>6 DEF Placed

\* A miner that is deployed is registered, unless the owner is removing it.
LEMMA PlacedRegistered ==
  ASSUME Placed, NEW a \in Api, OnlyOwner(a), request[a].step # "remove"
  PROVE  ~registered => deployment = 0
BY DEF Placed, OnlyOwner, At, Owners

\* And one that was registered again has lost its Secret, unless that is still at work.
LEMMA PlacedAgain ==
  ASSUME Placed, NEW a \in Api, OnlyOwner(a), Again,
         request[a].step \notin {"create_secret", "create_deployment"}
  PROVE  secret = None
BY DEF Placed, OnlyOwner, At, Owners

\* The owner asks, be it again.
LEMMA AskPlaced ==
  ASSUME DInv, NEW a \in Api,
         \/ Register(a) \/ Unregister(a) \/ \E n \in 1..2 : ScaleCoordinator(a, n)
  PROVE  Placed'
<1>1. TypeOK /\ Requests /\ Placed BY DEF DInv, EInv
<1>2. OwnerAsks(a) BY DEF Register, Unregister, ScaleCoordinator
<1>3. OnlyOwner(a) /\ request[a].step = "idle" BY <1>1, <1>2, OwnerOK, IdleOK DEF OwnerAsks
<1>4. /\ registered /\ deployment # 0 /\ ~Again => secret # None
      /\ Again => deployment # 0 /\ registered
  BY <1>1 DEF Placed
<1>5. /\ Again => secret = None
      /\ ~registered => deployment = 0
  BY <1>1, <1>3, PlacedAgain, PlacedRegistered
<1>6. CASE Register(a)
  <2>1. PICK t \in Token : t = NewToken BY NewTokenOK
  <2>2. /\ registered' = TRUE /\ Serve(a, "create_secret", t, None, 0)
        /\ UNCHANGED <<secret, deployment>>
        /\ disturbed' = disturbed \cup {d \in {"again"} : deployment # 0}
    BY <1>6, <2>1 DEF Register, kubernetes
  <2>3. Again' <=> deployment # 0 BY <1>4, <2>2 DEF Again
  <2>4. PICK r \in Requested :
          request' = [request EXCEPT ![a] = r] /\ r.step = "create_secret"
    BY <1>1, <2>2, ServeOK DEF Steps
  <2>5. Turned(a, r) BY <1>1, <2>4, TurnedOK
  <2> QED BY <1>3, <2>2, <2>3, <2>4, <2>5, OwnerPlaced
<1>7. CASE Unregister(a)
  <2>1. /\ registered' = FALSE /\ Serve(a, "remove", None, None, 0)
        /\ UNCHANGED <<secret, deployment>> /\ ~Again'
    BY <1>7 DEF Unregister, kubernetes, Again
  <2>2. PICK r \in Requested :
          request' = [request EXCEPT ![a] = r] /\ r.step = "remove"
    BY <1>1, <2>1, ServeOK DEF Steps
  <2>3. Turned(a, r) BY <1>1, <2>2, TurnedOK
  <2> QED BY <1>3, <2>1, <2>2, <2>3, OwnerPlaced
<1>8. CASE \E n \in 1..2 : ScaleCoordinator(a, n)
  <2>1. PICK n \in 1..2 : ScaleCoordinator(a, n) BY <1>8
  <2>2. PICK t \in Token : t = NewToken BY NewTokenOK
  <2>3. /\ registered /\ deployment # 0 /\ UNCHANGED <<registered, secret, deployment>>
        /\ Serve(a, "patch_replica", t, None, n) \/ Serve(a, "scale", None, None, n)
        /\ Again' <=> Again
    BY <2>1, <2>2 DEF ScaleCoordinator, kubernetes, Again
  <2>4. n \in 0..2 OBVIOUS
  <2>5. PICK r \in Requested :
          request' = [request EXCEPT ![a] = r] /\ r.step \in {"patch_replica", "scale"}
    BY <1>1, <2>3, <2>4, ServeOK DEF Steps
  <2>6. Turned(a, r) BY <1>1, <2>5, TurnedOK
  <2> QED BY <1>3, <1>4, <1>5, <2>3, <2>5, <2>6, OwnerPlaced
<1> QED BY <1>6, <1>7, <1>8

\* The request of the owner goes on.
LEMMA GoesOnPlaced ==
  ASSUME DInv, NEW a \in Api,
         \/ CreateSecret(a) \/ CreateDeployment(a) \/ Remove(a) \/ RemoveSecret(a)
         \/ PatchReplica(a) \/ Scale(a)
  PROVE  Placed'
<1>1. TypeOK /\ Requests /\ Placed BY DEF DInv, EInv
<1>2. /\ registered /\ deployment # 0 /\ ~Again => secret # None
      /\ Again => deployment # 0 /\ registered
      /\ At(a, "create_secret") => registered /\ (deployment = 0 \/ Again)
      /\ At(a, "create_deployment") =>
           registered /\ (deployment = 0 \/ Again) /\ secret # None
      /\ At(a, "remove") => ~registered
      /\ At(a, "remove_secret") => deployment = 0
      /\ At(a, "patch_replica") \/ At(a, "scale") => deployment # 0
  BY <1>1 DEF Placed
<1>3. request[a].step \in Owners
  BY DEF CreateSecret, CreateDeployment, Remove, RemoveSecret, PatchReplica, Scale, At,
         Owners
<1>4. OnlyOwner(a) BY <1>1, <1>3, OwnerOK
<1>5. request[a].step # "remove" => (~registered => deployment = 0)
  BY <1>1, <1>4, PlacedRegistered
<1>6. ASSUME Done(a) PROVE Turned(a, Idle)
  BY <1>1, <1>6, IdleOK, TurnedOK DEF Done
<1>7. ASSUME NEW step \in Steps, GoOn(a, step)
      PROVE  \E r \in Requested : Turned(a, r) /\ r.step = step
  <2>1. PICK r \in Requested : request' = [request EXCEPT ![a] = r] /\ r.step = step
    BY <1>1, <1>7, GoOnOK
  <2> QED BY <1>1, <2>1, TurnedOK
<1>8. Again' <=> Again
  BY AgainKept DEF CreateSecret, CreateDeployment, Remove, RemoveSecret, PatchReplica, Scale,
                   bounds
<1>9. ASSUME SpawnFails(a), registered, deployment = 0 \/ Again PROVE Placed'
  <2>1. Turned(a, Idle) /\ UNCHANGED <<registered, deployment>> /\ secret' = None
    BY <1>6, <1>9 DEF SpawnFails
  <2> QED BY <1>2, <1>4, <1>8, <1>9, <2>1, IdleOK, OwnerPlaced
<1>10. CASE CreateSecret(a)
  <2>1. registered /\ (deployment = 0 \/ Again) BY <1>2, <1>10 DEF CreateSecret
  <2>2. CASE SpawnFails(a) BY <1>9, <2>1, <2>2
  <2>3. CASE /\ GoOn(a, "create_deployment") /\ UNCHANGED <<redis, deployment>>
             /\ secret' = [s \in Slot |-> IF s = "main" THEN request[a].token ELSE None]
    <3>1. secret' # None
      <4>1. request[a].token \in Token \cup {None} BY <1>1 DEF TypeOK
      <4>2. secret' \in File BY <2>3, <4>1 DEF File
      <4> QED BY <4>2, EnrollmentAssumption
    <3>2. PICK r \in Requested : Turned(a, r) /\ r.step = "create_deployment"
      BY <1>7, <2>3 DEF Steps
    <3>3. UNCHANGED <<registered, deployment>> BY <2>3 DEF redis
    <3> QED BY <1>2, <1>4, <1>8, <2>1, <3>1, <3>2, <3>3, OwnerPlaced
  <2> QED BY <1>10, <2>2, <2>3 DEF CreateSecret
<1>11. CASE CreateDeployment(a)
  <2>1. registered /\ (deployment = 0 \/ Again) /\ secret # None
    BY <1>2, <1>11 DEF CreateDeployment
  <2>2. CASE SpawnFails(a) BY <1>9, <2>1, <2>2
  <2>3. CASE Works(deployment = 0) /\ Done(a) /\ UNCHANGED <<redis, secret>>
    <3>1. Turned(a, Idle) /\ UNCHANGED <<registered, secret>> BY <1>6, <2>3 DEF redis
    <3>2. ~Again BY <1>2, <2>3 DEF Works
    <3> QED BY <1>4, <1>8, <2>1, <3>1, <3>2, IdleOK, OwnerPlaced
  <2> QED BY <1>11, <2>2, <2>3 DEF CreateDeployment
<1>12. CASE Remove(a)
  <2>1. deployment' = 0 /\ GoOn(a, "remove_secret") /\ ~registered /\ registered' = registered
    BY <1>2, <1>12 DEF Remove, redis
  <2>2. PICK r \in Requested : Turned(a, r) /\ r.step = "remove_secret"
    BY <1>7, <2>1 DEF Steps
  <2> QED BY <1>2, <1>4, <1>8, <2>1, <2>2, OwnerPlaced
<1>13. CASE RemoveSecret(a)
  <2>1. deployment = 0 /\ UNCHANGED <<registered, deployment>> /\ Done(a)
    BY <1>2, <1>13 DEF RemoveSecret, redis
  <2> QED BY <1>2, <1>4, <1>6, <1>8, <2>1, IdleOK, OwnerPlaced
<1>14. CASE PatchReplica(a) \/ Scale(a)
  <2>1. /\ deployment # 0 /\ registered' = registered
        /\ request[a].step \in {"patch_replica", "scale"}
    BY <1>2, <1>14 DEF PatchReplica, Scale, At, redis
  <2>2. registered /\ (Again => secret = None)
    BY <1>1, <1>4, <1>5, <2>1, PlacedAgain
  <2>3. deployment' # 0
    <3>1. CASE PatchReplica(a) BY <2>1, <3>1 DEF PatchReplica
    <3>2. CASE Scale(a)
      <4>1. request[a].replicas \in 1..2
        BY <1>1, <3>2 DEF Scale, At, Requests, RequestOK
      <4>2. deployment' = deployment \/ deployment' = request[a].replicas
        BY <2>1, <3>2 DEF Scale
      <4> QED BY <2>1, <4>1, <4>2
    <3> QED BY <1>14, <3>1, <3>2
  <2>4. PICK r \in Requested : Turned(a, r) /\ r.step \in {"scale", "idle"}
    <3>1. GoOn(a, "scale") \/ Done(a) BY <1>14 DEF PatchReplica, Scale
    <3> QED BY <1>6, <1>7, <3>1, IdleOK DEF Steps
  <2>5. secret' = None <=> secret = None
    <3>1. CASE secret' = secret BY <3>1
    <3>2. CASE secret # None /\ secret' = [secret EXCEPT !["replica"] = request[a].token]
      <4>1. secret \in File /\ request[a].token \in Token \cup {None}
        BY <1>1, <3>2 DEF TypeOK
      <4>2. secret' \in File BY <3>2, <4>1 DEF File
      <4> QED BY <3>2, <4>2, EnrollmentAssumption
    <3> QED BY <1>14, <3>1, <3>2 DEF PatchReplica, Scale, Works
  <2> QED BY <1>2, <1>4, <1>8, <2>1, <2>2, <2>3, <2>4, <2>5, OwnerPlaced
<1> QED BY <1>10, <1>11, <1>12, <1>13, <1>14

\* A pod is served, or the API does nothing.
LEMMA AnswersPlaced ==
  ASSUME DInv, NEW a \in Api,
         \/ Bind(a) \/ Refuse(a) \/ Reissue(a) \/ PatchMain(a)
         \/ \E p \in Pod : Enroll(a, p)
         \/ \E s \in Slot : Spend(a, s)
  PROVE  Placed'
<1>1. TypeOK /\ Requests /\ Placed BY DEF DInv, EInv
<1>2. UNCHANGED <<registered, deployment>> /\ (Again' <=> Again)
  <2>1. \A s \in Slot : Spend(a, s) => (Again' <=> Again) BY DEF Spend, Again
  <2> QED BY <2>1, AgainKept DEF Bind, Refuse, Reissue, PatchMain, Enroll, Spend, redis,
                                kubernetes, bounds
<1>3. request[a].step \in Asking \cup {"idle"}
  <2>1. \A s \in Slot : Spend(a, s) => request[a].step \in Asking
    BY DEF Spend, Spending, Spends, Slot, At, Asking
  <2>2. \A p \in Pod : Enroll(a, p) => request[a] = Idle BY DEF Enroll
  <2>3. Bind(a) \/ Refuse(a) \/ Reissue(a) \/ PatchMain(a) => request[a].step \in Asking
    BY DEF Bind, Refuse, Reissue, PatchMain, At, Asking
  <2> QED BY <2>1, <2>2, <2>3, IdleOK
<1>4. request' = request \/ \E r \in Requested : Turned(a, r) /\ r.step \notin Owners
  <2>1. ASSUME Done(a) PROVE Turned(a, Idle) /\ Idle \in Requested /\ Idle.step \notin Owners
    BY <1>1, <2>1, IdleOK, TurnedOK DEF Done, Owners
  <2>2. ASSUME GoOn(a, "reissue")
        PROVE  \E r \in Requested : Turned(a, r) /\ r.step \notin Owners
    <3>1. PICK r \in Requested : request' = [request EXCEPT ![a] = r] /\ r.step = "reissue"
      BY <1>1, <2>2, GoOnOK DEF Steps
    <3> QED BY <1>1, <3>1, TurnedOK DEF Owners
  <2>3. ASSUME NEW step \in Spends \cup {"bind", "refuse", "patch_main"},
               NEW t \in Token \cup {None}, NEW p \in Pod, Serve(a, step, t, p, 0)
        PROVE  \E r \in Requested : Turned(a, r) /\ r.step \notin Owners
    <3>1. PICK r \in Requested : request' = [request EXCEPT ![a] = r] /\ r.step = step
      BY <1>1, <2>3, ServeOK DEF Steps, Spends
    <3> QED BY <1>1, <3>1, TurnedOK DEF Owners, Spends
  <2>4. CASE Bind(a) \/ PatchMain(a) BY <2>1, <2>4 DEF Bind, PatchMain
  <2>5. CASE Refuse(a) BY <2>1, <2>2, <2>5 DEF Refuse
  <2>6. CASE Reissue(a)
    <3>1. PICK t \in Token : t = NewToken BY NewTokenOK
    <3>2. Serve(a, "patch_main", t, request[a].pod, 0) \/ Done(a)
      BY <2>6, <3>1 DEF Reissue
    <3>3. request[a].pod \in Pod BY <1>1, <2>6 DEF Reissue, At, Requests, RequestOK, Asking
    <3> QED BY <2>1, <2>3, <3>2, <3>3
  <2>7. CASE \E p \in Pod : Enroll(a, p)
    <3>1. PICK p \in Pod : Enroll(a, p) BY <2>7
    <3> DEFINE t == pod[p].files[Head(pod[p].left)]
    <3>2. CASE request' = request BY <3>2
    <3>3. CASE Serve(a, "refuse", None, p, 0) BY <2>3, <3>3
    <3>4. CASE \E s \in Slot : Serve(a, Spending[s], t, p, 0)
      <4>1. pod[p] \in Running /\ pod[p].left # <<>>
        BY <1>1, <3>1, AliveOK DEF Enroll
      <4>2. Head(pod[p].left) \in Slot /\ pod[p].files \in File BY <4>1 DEF Running
      <4>3. t \in Token \cup {None} BY <4>2 DEF File
      <4>4. \A s \in Slot : Spending[s] \in Spends BY DEF Spending, Spends, Slot
      <4> HIDE DEF t
      <4> QED BY <2>3, <3>4, <4>3, <4>4
    <3> QED BY <3>1, <3>2, <3>3, <3>4 DEF Enroll, Holding
  <2>8. CASE \E s \in Slot : Spend(a, s)
    <3>1. Serve(a, "bind", None, request[a].pod, 0) BY <2>8 DEF Spend
    <3>2. request[a].step \in Asking
      BY <2>8 DEF Spend, Spending, Spends, Slot, At, Asking
    <3>3. request[a].pod \in Pod BY <1>1, <3>2 DEF Requests, RequestOK
    <3> QED BY <2>3, <3>1, <3>3
  <2> QED BY <2>4, <2>5, <2>6, <2>7, <2>8
<1>5. \A b \in Api : \/ request'[b].step = request[b].step
                     \/ request[b].step \notin Owners /\ request'[b].step \notin Owners
  <2>1. request[a].step \notin Owners BY <1>3 DEF Asking, Spends, Owners
  <2> QED BY <1>4, <2>1 DEF Turned
<1>6. secret' = None <=> secret = None
  <2>1. CASE secret' = secret BY <2>1
  <2>2. CASE secret # None /\ secret' = [secret EXCEPT !["main"] = request[a].token]
    <3>1. secret \in File /\ request[a].token \in Token \cup {None}
      BY <1>1, <2>2 DEF TypeOK
    <3>2. secret' \in File BY <2>2, <3>1 DEF File
    <3> QED BY <2>2, <3>2, EnrollmentAssumption
  <2>3. secret' = secret \/ PatchMain(a)
    BY DEF Bind, Refuse, Reissue, Enroll, Spend, kubernetes
  <2> QED BY <2>1, <2>2, <2>3 DEF PatchMain, Works
<1> QED BY <1>1, <1>2, <1>5, <1>6, Aside

\* What the pods do on their own, and time.
PodActs(p) ==
  \/ PodStarts(p) \/ PodStops(p) \/ PodDies(p) \/ ContainerRestarts(p)
  \/ FilesRefresh(p) \/ RoundEnds(p) \/ Retry(p)
LEMMA RestPlaced ==
  ASSUME DInv,
         \/ \E p \in Pod : PodActs(p)
         \/ \E s \in Slot : TokenExpires(s) \/ TokenExpiresEarly(s)
         \/ UNCHANGED vars
  PROVE  Placed'
<1>1. UNCHANGED <<registered, secret, deployment, request>> /\ (Again' <=> Again)
  BY AgainKept
  DEF PodActs, PodStarts, PodStops, PodDies, ContainerRestarts, FilesRefresh, RoundEnds,
      Retry, TokenExpires, TokenExpiresEarly, vars, redis, kubernetes, bounds
<1>2. Placed BY DEF DInv
<1> QED BY <1>1, <1>2, Aside

\* A Deployment has its Secret after every step.
LEMMA DStep ==
  ASSUME DInv, [Next]_vars
  PROVE  DInv'
<1>1. EInv' BY EStep DEF DInv
<1>2. CASE \E a \in Api : \/ Register(a) \/ Unregister(a)
                          \/ \E n \in 1..2 : ScaleCoordinator(a, n)
  BY <1>1, <1>2, AskPlaced DEF DInv
<1>3. CASE \E a \in Api : \/ CreateSecret(a) \/ CreateDeployment(a) \/ Remove(a)
                          \/ RemoveSecret(a) \/ PatchReplica(a) \/ Scale(a)
  BY <1>1, <1>3, GoesOnPlaced DEF DInv
<1>4. CASE \E a \in Api : \/ Bind(a) \/ Refuse(a) \/ Reissue(a) \/ PatchMain(a)
                          \/ \E p \in Pod : Enroll(a, p)
                          \/ \E s \in Slot : Spend(a, s)
  BY <1>1, <1>4, AnswersPlaced DEF DInv
<1>5. CASE \/ \E p \in Pod : PodActs(p)
           \/ \E s \in Slot : TokenExpires(s) \/ TokenExpiresEarly(s)
           \/ UNCHANGED vars
  BY <1>1, <1>5, RestPlaced DEF DInv
<1> QED BY <1>2, <1>3, <1>4, <1>5 DEF Next, Handle, PodActs

\* Nothing is deployed in the beginning.
LEMMA InitPlaced == Init => DInv
<1> SUFFICES ASSUME Init PROVE DInv OBVIOUS
<1>1. EInv BY InitOK
<1>2. deployment = 0 /\ disturbed = {} /\ \A a \in Api : request[a].step = "idle"
  BY DEF Init, Idle
<1> QED BY <1>1, <1>2 DEF DInv, Placed, Again, At

\* A deployed miner has its Secret, whatever fails and whoever is served meanwhile: only
\* registering it again takes it away, and that always does; a removal leaves no Deployment.
THEOREM SecretStays == Spec => []DeploymentHasSecret
<1>1. Init => DInv BY InitPlaced
<1>2. DInv /\ [Next]_vars => DInv' BY DStep
<1>3. DInv => DeploymentHasSecret
  <2> SUFFICES ASSUME DInv, deployment # 0, ~OwnerWaits
               PROVE  secret = None <=> Again
    BY DEF DeploymentHasSecret, Again
  <2>1. Requests /\ Placed BY DEF DInv, EInv
  <2>2. ASSUME NEW a \in Api,
               At(a, "create_secret") \/ At(a, "create_deployment") \/ At(a, "remove")
        PROVE  FALSE
    <3>1. request[a].pod = None /\ request[a] # Idle
      BY <2>1, <2>2, IdleOK DEF At, Requests, RequestOK, Owners
    <3> QED BY <3>1 DEF OwnerWaits
  <2> QED BY <2>1, <2>2 DEF Placed
<1> QED BY <1>1, <1>2, <1>3, PTL DEF Spec

\* A miner that was neither removed nor registered again is being created or has its
\* Secret.
LEMMA Intact ==
  ASSUME DInv, Kept, Undisturbed
  PROVE  Deployed
<1>1. Placed /\ ~Again BY DEF DInv, Undisturbed, Again
<1>2. \A a \in Api : ~At(a, "remove") BY DEF Kept, Carried, At
<1> QED BY <1>1, <1>2 DEF Placed, Deployed

-----------------------------------------------------------------------------
(* A token that is valid is in the Secret, or on its way *)

\* Before the Deployment there is no pod, nor one that asks.
LEMMA Nobody ==
  ASSUME DInv, Deployed, Kept, deployment = 0
  PROVE  Alive = {} /\ \A b \in Api : request[b].step \notin Asking
<1>1. \A p \in Pod : pod[p] = NoPod BY DEF Kept, Untaken
<1>2. Alive = {} BY <1>1 DEF Alive
<1>3. ASSUME NEW b \in Api, request[b].step \in Asking PROVE FALSE
  <2>1. request[b].pod \in Pod
        /\ (pod[request[b].pod] = Dead \/ Asks(pod[request[b].pod]))
    BY <1>3 DEF DInv, EInv, Requests, RequestOK
  <2> QED BY <1>1, <2>1, RunningOK DEF Asks
<1> QED BY <1>2, <1>3

\* One request at most is putting a token in the first slot.
LEMMA OnlyMain ==
  ASSUME DInv, Deployed, Kept, NEW a \in Api, Delivers(request[a], "main"), NEW b \in Api \ {a}
  PROVE  ~Delivers(request[b], "main") /\ request[b].step # "create_deployment"
<1>1. Requests /\ Deployed /\ TypeOK BY DEF DInv, EInv
<1>2. CASE request[a].step = "create_secret"
  <2>1. deployment = 0 BY <1>1, <1>2 DEF Deployed, At
  <2>2. request[b].step \notin Asking BY <2>1, Nobody
  <2>3. OnlyOwner(a) BY <1>1, <1>2, OwnerOK DEF Owners
  <2> QED BY <2>2, <2>3 DEF Delivers, OnlyOwner, Owners, Asking
<1>3. CASE request[a].step = "patch_main"
  <2>1. deployment # 0 BY <1>3, Nobody DEF Asking
  <2>2. ~At(b, "create_secret") /\ ~At(b, "create_deployment") BY <1>1, <2>1 DEF Deployed
  <2>3. ASSUME request[b].step = "patch_main" PROVE FALSE
    <3>1. request[a].token # request[b].token
      BY <1>1, <1>3, <2>3 DEF Requests, Apart, Undelivered
    <3>2. slot["main"] = request[a].token /\ slot["main"] = request[b].token
      BY <1>3, <2>3 DEF Kept, Carried, Delivers, Slot
    <3> QED BY <3>1, <3>2
  <2> QED BY <2>2, <2>3 DEF Delivers, At
<1> QED BY <1>2, <1>3 DEF Delivers

\* A token stays where it is when a request turns that was not putting it there.
LEMMA FoundKept ==
  ASSUME NEW s \in Slot, Found(s), NEW a \in Api, NEW r, Turned(a, r),
         ~Delivers(request[a], s), slot'[s] \in {slot[s], None},
         secret # None => secret' # None /\ secret'[s] = secret[s]
  PROVE  Found(s)'
<1> SUFFICES ASSUME slot'[s] # None
             PROVE  \/ secret' # None /\ secret'[s] = slot'[s]
                    \/ \E b \in Api : Delivers(request'[b], s)
  BY DEF Found, Delivers
<1>1. slot'[s] = slot[s] OBVIOUS
<1>2. CASE secret # None /\ secret[s] = slot[s] BY <1>1, <1>2
<1>3. CASE \E b \in Api : Delivers(request[b], s)
  <2>1. PICK b \in Api : Delivers(request[b], s) BY <1>3
  <2>2. b # a BY <2>1
  <2> QED BY <2>1, <2>2 DEF Turned
<1> QED BY <1>1, <1>2, <1>3 DEF Found

\* A request turns and keeps what the others carry.
LEMMA KeptTurn ==
  ASSUME Kept, NEW a \in Api, NEW r, Turned(a, r), Untaken', Carried(r)',
         \A b \in Api \ {a} :
           /\ \A s \in Slot : Delivers(request[b], s) => slot'[s] = slot[s]
           /\ request[b].step = "create_deployment" => slot'["main"] = slot["main"],
         Found("main")', Found("replica")'
  PROVE  Kept'
<1>1. ASSUME NEW b \in Api PROVE Carried(request[b])'
  <2>1. CASE b = a
    <3>1. request'[b] = r BY <2>1 DEF Turned
    <3> QED BY <3>1 DEF Carried, Delivers
  <2>2. CASE b # a
    <3>1. Carried(request[b]) /\ request'[b] = request[b] BY <2>2 DEF Kept, Turned
    <3> QED BY <2>2, <3>1 DEF Carried, Delivers
  <2> QED BY <2>1, <2>2
<1> QED BY <1>1 DEF Kept, Slot

\* persist_worker_registration
LEMMA RegisterKept ==
  ASSUME DInv, Deployed, Kept, Undisturbed', NEW a \in Api, Register(a)
  PROVE  Kept'
<1>1. TypeOK /\ Requests /\ Deployed BY DEF DInv, EInv
<1>2. deployment = 0 BY DEF Register, Undisturbed
<1>3. OwnerAsks(a) /\ request[a].step = "idle" BY IdleOK DEF Register, OwnerAsks
<1>4. OnlyOwner(a) BY <1>1, <1>3, OwnerOK
<1>5. \A b \in Api : request[b].step \notin Asking BY <1>2, Nobody
<1>6. PICK t \in Token : t = NewToken BY NewTokenOK
<1>7. /\ slot' = [slot EXCEPT !["main"] = t] /\ Serve(a, "create_secret", t, None, 0)
      /\ UNCHANGED <<secret, deployment, pod>>
  BY <1>6 DEF Register, kubernetes
<1>8. PICK r \in Requested :
        request' = [request EXCEPT ![a] = r] /\ r.step = "create_secret" /\ r.token = t
  BY <1>1, <1>7, ServeOK DEF Steps
<1>9. Turned(a, r) BY <1>1, <1>8, TurnedOK
<1>10. slot'["main"] = t /\ slot'["replica"] = slot["replica"]
  BY <1>1, <1>7, SlotSet DEF Slot
<1>11. \A b \in Api \ {a} : request[b].step \notin Owners \cup Asking
  BY <1>4, <1>5 DEF OnlyOwner
<1>12. secret = None /\ slot["replica"] = None /\ \A p \in Pod : pod[p] = NoPod
  <2>1. \A b \in Api : ~At(b, "create_deployment")
    BY <1>3, <1>11 DEF At, Owners
  <2> QED BY <1>2, <2>1 DEF Kept, Untaken
<1>13. Untaken' BY <1>7, <1>10, <1>12 DEF Untaken
<1>14. Carried(r)' BY <1>8, <1>10 DEF Carried, Delivers, Slot
<1>15. Found("main")'
  <2>1. Delivers(request'[a], "main") BY <1>8, <1>9 DEF Turned, Delivers
  <2> QED BY <2>1 DEF Found, Delivers
<1>16. Found("replica")' BY <1>10, <1>12 DEF Found
<1>17. \A b \in Api \ {a} : /\ \A s \in Slot : ~Delivers(request[b], s)
                            /\ request[b].step # "create_deployment"
  BY <1>11 DEF Delivers, Owners, Asking
<1> QED BY <1>9, <1>13, <1>14, <1>15, <1>16, <1>17, KeptTurn

\* scale_k8s_coordinator
LEMMA ScaleCoordinatorKept ==
  ASSUME DInv, Deployed, Kept, NEW a \in Api, NEW n \in 1..2, ScaleCoordinator(a, n)
  PROVE  Kept'
<1>1. TypeOK /\ Requests /\ Deployed BY DEF DInv, EInv
<1>2. OwnerAsks(a) /\ request[a].step = "idle" BY IdleOK DEF ScaleCoordinator, OwnerAsks
<1>3. OnlyOwner(a) BY <1>1, <1>2, OwnerOK
<1>4. deployment # 0 /\ UNCHANGED <<secret, deployment, pod>>
  BY DEF ScaleCoordinator, kubernetes
<1>5. Untaken' BY <1>4 DEF Untaken
<1>6. \A b \in Api \ {a} :
        ~Delivers(request[b], "replica") /\ request[b].step # "create_deployment"
  BY <1>3 DEF OnlyOwner, Delivers, Owners
<1>7. Found("main") /\ Found("replica") BY DEF Kept, Slot
<1>8. \A s \in Slot : ~Delivers(request[a], s) BY <1>2 DEF Delivers
<1>9. "main" \in Slot /\ "replica" \in Slot /\ \A s \in Slot : s = "main" \/ s = "replica"
  BY DEF Slot
<1>10. CASE n = 2
  <2>1. PICK t \in Token : t = NewToken BY NewTokenOK
  <2>2. slot' = [slot EXCEPT !["replica"] = t] /\ Serve(a, "patch_replica", t, None, 2)
    BY <1>10, <2>1 DEF ScaleCoordinator
  <2>3. PICK r \in Requested :
          request' = [request EXCEPT ![a] = r] /\ r.step = "patch_replica" /\ r.token = t
    BY <1>1, <2>2, ServeOK DEF Steps
  <2>4. Turned(a, r) BY <1>1, <2>3, TurnedOK
  <2>5. slot'["replica"] = t /\ slot'["main"] = slot["main"]
    BY <1>1, <2>2, SlotSet DEF Slot
  <2>6. Carried(r)' BY <2>3, <2>5, <1>9 DEF Carried, Delivers
  <2>7. Found("replica")'
    <3>1. Delivers(request'[a], "replica") BY <2>3, <2>4 DEF Turned, Delivers
    <3> QED BY <3>1 DEF Found, Delivers
  <2>8. Found("main")' BY <1>4, <1>7, <1>8, <1>9, <2>4, <2>5, FoundKept
  <2> QED BY <1>5, <1>6, <1>9, <2>4, <2>5, <2>6, <2>7, <2>8, KeptTurn
<1>11. CASE n = 1
  <2>1. slot' = slot /\ Serve(a, "scale", None, None, n) BY <1>11 DEF ScaleCoordinator
  <2>2. n \in 0..2 OBVIOUS
  <2>3. PICK r \in Requested : request' = [request EXCEPT ![a] = r] /\ r.step = "scale"
    BY <1>1, <2>1, <2>2, ServeOK DEF Steps
  <2>4. Turned(a, r) BY <1>1, <2>3, TurnedOK
  <2>5. Carried(r)' BY <2>3 DEF Carried, Delivers
  <2>6. Found("main")' /\ Found("replica")'
    BY <1>4, <1>7, <1>8, <1>9, <2>1, <2>4, FoundKept
  <2> QED BY <1>5, <2>1, <2>4, <2>5, <2>6, KeptTurn
<1> QED BY <1>10, <1>11

\* When a miner is being created nobody else has anything to do with its tokens.
LEMMA Creating ==
  ASSUME DInv, Deployed, Kept, NEW a \in Api,
         request[a].step \in {"create_secret", "create_deployment"}
  PROVE  /\ OnlyOwner(a) /\ deployment = 0 /\ slot["replica"] = None
         /\ \A p \in Pod : pod[p] = NoPod
         /\ \A b \in Api \ {a} : /\ \A s \in Slot : ~Delivers(request[b], s)
                                 /\ request[b].step # "create_deployment"
<1>1. TypeOK /\ Requests /\ Deployed BY DEF DInv, EInv
<1>2. OnlyOwner(a) BY <1>1, OwnerOK DEF Owners
<1>3. deployment = 0 BY <1>1 DEF Deployed, At
<1>4. \A b \in Api : request[b].step \notin Asking BY <1>3, Nobody
<1>5. slot["replica"] = None /\ \A p \in Pod : pod[p] = NoPod BY <1>3 DEF Kept, Untaken
<1> QED BY <1>2, <1>3, <1>4, <1>5 DEF OnlyOwner, Delivers, Owners, Asking

\* _spawn_k8s_worker fails.
LEMMA SpawnFailsKept ==
  ASSUME DInv, Deployed, Kept, NEW a \in Api, SpawnFails(a), pod' = pod,
         request[a].step \in {"create_secret", "create_deployment"}
  PROVE  Kept'
<1>1. TypeOK /\ Requests /\ Fresh BY DEF DInv, EInv
<1>2. /\ Turned(a, Idle) /\ slot'["main"] = None /\ slot'["replica"] = slot["replica"]
      /\ secret' = None /\ deployment' = deployment
  BY <1>1, SpawnFailsOK DEF Owners, SpawnFails
<1>3. slot["replica"] = None BY Creating
<1>4. Untaken'
  <2>1. \A p \in Pod : pod[p] = NoPod BY Creating
  <2> QED BY <1>2, <1>3, <2>1 DEF Untaken
<1>5. Found("main")' /\ Found("replica")' BY <1>2, <1>3 DEF Found
<1>6. Carried(Idle)' BY IdleOK DEF Carried, Delivers
<1> QED BY <1>2, <1>4, <1>5, <1>6, Creating, KeptTurn

\* create_namespaced_secret
LEMMA CreateSecretKept ==
  ASSUME DInv, Deployed, Kept, NEW a \in Api, CreateSecret(a)
  PROVE  Kept'
<1>1. TypeOK /\ Requests BY DEF DInv, EInv
<1>2. request[a].step = "create_secret" /\ pod' = pod BY DEF CreateSecret, At
<1>3. CASE SpawnFails(a) BY <1>2, <1>3, SpawnFailsKept
<1>4. CASE /\ GoOn(a, "create_deployment") /\ UNCHANGED <<redis, deployment>>
           /\ secret' = [s \in Slot |-> IF s = "main" THEN request[a].token ELSE None]
  <2>1. PICK r \in Requested :
          /\ request' = [request EXCEPT ![a] = r]
          /\ r.step = "create_deployment" /\ r.token = request[a].token
    BY <1>1, <1>4, GoOnOK DEF Steps
  <2>2. Turned(a, r) BY <1>1, <2>1, TurnedOK
  <2>3. slot["main"] = request[a].token /\ request[a].token \in Token
    BY <1>1, <1>2
    DEF Kept, Carried, Delivers, Slot, Requests, RequestOK, Undelivered
  <2>4. slot' = slot /\ deployment' = deployment BY <1>4 DEF redis
  <2>5. slot["replica"] = None /\ \A p \in Pod : pod[p] = NoPod BY <1>2, Creating
  <2>6. slot["main"] # None BY <2>3, EnrollmentAssumption
  <2>7. secret' # None /\ secret'["main"] = request[a].token
    <3>1. secret' \in File BY <1>4, <2>3 DEF File
    <3> QED BY <1>4, <3>1, EnrollmentAssumption DEF Slot
  <2>8. Untaken'
    <3>1. At(a, "create_deployment")' BY <2>1, <2>2 DEF Turned, At
    <3> QED BY <1>2, <2>4, <2>5, <3>1 DEF Untaken
  <2>9. Carried(r)' BY <2>1, <2>3, <2>4, <2>6 DEF Carried, Delivers
  <2>10. Found("main")' /\ Found("replica")' BY <2>3, <2>4, <2>5, <2>7 DEF Found
  <2> QED BY <1>2, <2>2, <2>4, <2>8, <2>9, <2>10, Creating, KeptTurn
<1> QED BY <1>3, <1>4 DEF CreateSecret

\* create_namespaced_deployment
LEMMA CreateDeploymentKept ==
  ASSUME DInv, Deployed, Kept, NEW a \in Api, CreateDeployment(a)
  PROVE  Kept'
<1>1. TypeOK BY DEF DInv, EInv
<1>2. request[a].step = "create_deployment" /\ pod' = pod BY DEF CreateDeployment, At
<1>3. CASE SpawnFails(a) BY <1>2, <1>3, SpawnFailsKept
<1>4. CASE deployment' = 1 /\ Done(a) /\ UNCHANGED <<redis, secret>>
  <2>1. Turned(a, Idle) BY <1>1, <1>4, IdleOK, TurnedOK DEF Done
  <2>2. UNCHANGED <<slot, secret>> BY <1>4 DEF redis
  <2>3. \A s \in Slot : ~Delivers(request[a], s) BY <1>2 DEF Delivers
  <2>4. Found("main") /\ Found("replica") BY DEF Kept, Slot
  <2>5. Found("main")' /\ Found("replica")'
    BY <2>1, <2>2, <2>3, <2>4, FoundKept DEF Slot
  <2>6. Carried(Idle)' BY IdleOK DEF Carried, Delivers
  <2>7. Untaken' BY <1>4 DEF Untaken
  <2> QED BY <1>2, <2>1, <2>2, <2>5, <2>6, <2>7, KeptTurn
<1> QED BY <1>3, <1>4 DEF CreateDeployment

\* patch_namespaced_secret, of the second slot
LEMMA PatchReplicaKept ==
  ASSUME DInv, Deployed, Kept, NEW a \in Api, PatchReplica(a)
  PROVE  Kept'
<1>1. TypeOK /\ Requests /\ Deployed BY DEF DInv, EInv
<1>2. request[a].step = "patch_replica" /\ GoOn(a, "scale") /\ deployment' = deployment
  BY DEF PatchReplica, At
<1>3. deployment # 0 /\ secret # None BY <1>1, <1>2 DEF Deployed, At
<1>4. OnlyOwner(a) BY <1>1, <1>2, OwnerOK DEF Owners
<1>5. slot["replica"] = request[a].token
  BY <1>2 DEF Kept, Carried, Delivers, Slot
<1>6. PICK r \in Requested : request' = [request EXCEPT ![a] = r] /\ r.step = "scale"
  BY <1>1, <1>2, GoOnOK DEF Steps
<1>7. Turned(a, r) BY <1>1, <1>6, TurnedOK
<1>8. \A b \in Api \ {a} :
        ~Delivers(request[b], "replica") /\ request[b].step # "create_deployment"
  BY <1>4 DEF OnlyOwner, Delivers, Owners
<1>9. Found("main") BY DEF Kept, Slot
<1>10. Carried(r)' BY <1>6 DEF Carried, Delivers
<1>11. Untaken' BY <1>2, <1>3 DEF Untaken
<1>12. ~Delivers(request[a], "main") BY <1>2 DEF Delivers
<1>13. "main" \in Slot /\ "replica" \in Slot /\ \A s \in Slot : s = "main" \/ s = "replica"
  BY DEF Slot
<1>14. slot'["main"] = slot["main"] /\ Found("main")' /\ Found("replica")'
  <2>1. CASE slot' = slot /\ secret' = [secret EXCEPT !["replica"] = request[a].token]
    <3>1. secret \in File /\ request[a].token \in Token \cup {None}
      BY <1>1, <1>3 DEF TypeOK
    <3>2. secret' \in File BY <2>1, <3>1 DEF File
    <3>3. secret'["replica"] = request[a].token /\ secret'["main"] = secret["main"]
      BY <2>1, <3>1 DEF File, Slot
    <3>4. secret' # None BY <3>2, EnrollmentAssumption
    <3>5. Found("replica")' BY <1>5, <2>1, <3>3, <3>4 DEF Found
    <3>6. Found("main")' BY <1>7, <1>9, <1>12, <1>13, <2>1, <3>3, <3>4, FoundKept
    <3> QED BY <2>1, <3>5, <3>6
  <2>2. CASE slot' = [slot EXCEPT !["replica"] = None] /\ secret' = secret
    <3>1. slot'["replica"] = None /\ slot'["main"] = slot["main"]
      BY <1>1, <1>13, <2>2, SlotSet
    <3>2. Found("replica")' BY <3>1 DEF Found
    <3>3. Found("main")' BY <1>7, <1>9, <1>12, <1>13, <2>2, <3>1, FoundKept
    <3> QED BY <3>1, <3>2, <3>3
  <2> QED BY <2>1, <2>2 DEF PatchReplica
<1> QED BY <1>7, <1>8, <1>10, <1>11, <1>13, <1>14, KeptTurn

\* patch_namespaced_deployment_scale
LEMMA ScaleKept ==
  ASSUME DInv, Deployed, Kept, NEW a \in Api, Scale(a)
  PROVE  Kept'
<1>1. TypeOK /\ Requests /\ Deployed BY DEF DInv, EInv
<1>2. request[a].step = "scale" /\ Done(a) /\ UNCHANGED <<slot, secret>>
  BY DEF Scale, At, redis
<1>3. deployment # 0 /\ request[a].replicas \in 1..2
  BY <1>1, <1>2 DEF Deployed, At, Requests, RequestOK
<1>4. deployment' # 0
  <2>1. deployment' = deployment \/ deployment' = request[a].replicas BY <1>3 DEF Scale
  <2> QED BY <1>3, <2>1
<1>5. Turned(a, Idle) BY <1>1, <1>2, IdleOK, TurnedOK DEF Done
<1>6. \A s \in Slot : ~Delivers(request[a], s) BY <1>2 DEF Delivers
<1>7. Found("main") /\ Found("replica") BY DEF Kept, Slot
<1>8. Found("main")' /\ Found("replica")'
  BY <1>2, <1>5, <1>6, <1>7, FoundKept DEF Slot
<1>9. Carried(Idle)' BY IdleOK DEF Carried, Delivers
<1>10. Untaken' BY <1>4 DEF Untaken
<1> QED BY <1>2, <1>5, <1>8, <1>9, <1>10, KeptTurn

\* A pod that runs is of a Deployment, and so is one that asks.
LEMMA Somebody ==
  ASSUME DInv, Deployed, Kept
  PROVE  /\ Alive # {} => deployment # 0
         /\ \A b \in Api : request[b].step \in Asking => deployment # 0
BY Nobody

\* Neither slot, nor the Secret, nor the Deployment changes.
LEMMA QuietTurn ==
  ASSUME TypeOK, Kept, deployment # 0, UNCHANGED <<slot, secret, deployment>>,
         NEW a \in Api, \A s \in Slot : ~Delivers(request[a], s),
         NEW r \in Requested, request' = [request EXCEPT ![a] = r],
         r.step \in Spends \cup {"idle", "refuse", "reissue"}
  PROVE  Kept'
<1>1. Turned(a, r) BY TurnedOK
<1>2. Found("main") /\ Found("replica") BY DEF Kept, Slot
<1>3. Found("main")' /\ Found("replica")' BY <1>1, <1>2, FoundKept DEF Slot
<1>4. Carried(r)' BY DEF Carried, Delivers, Spends
<1>5. Untaken' BY DEF Untaken
<1> QED BY <1>1, <1>3, <1>4, <1>5, KeptTurn

\* No request, and nothing that the tokens depend on.
LEMMA NoTurnKept ==
  ASSUME Kept, deployment # 0, UNCHANGED <<slot, secret, deployment, request>>
  PROVE  Kept'
<1>1. Untaken' BY DEF Untaken
<1>2. \A a \in Api : Carried(request[a])' BY DEF Kept, Carried, Delivers
<1>3. \A s \in Slot : Found(s)' BY DEF Kept, Found, Delivers
<1> QED BY <1>1, <1>2, <1>3 DEF Kept

\* enroll_node, up to the GET of the token
LEMMA EnrollKept ==
  ASSUME DInv, Deployed, Kept, NEW a \in Api, NEW p \in Pod, Enroll(a, p)
  PROVE  Kept'
<1>1. TypeOK /\ Requests BY DEF DInv, EInv
<1>2. /\ request[a] = Idle /\ p \in Alive /\ pod[p].left # <<>>
      /\ UNCHANGED <<slot, secret, deployment>>
  BY DEF Enroll, redis, kubernetes
<1>3. deployment # 0 BY <1>2, Somebody
<1>4. \A s \in Slot : ~Delivers(request[a], s) BY <1>2, IdleOK DEF Delivers
<1> DEFINE t == pod[p].files[Head(pod[p].left)]
<1>5. t \in Token \cup {None}
  <2>1. pod[p] \in Running BY <1>1, <1>2, AliveOK
  <2>2. Head(pod[p].left) \in Slot /\ pod[p].files \in File BY <1>2, <2>1 DEF Running
  <2> QED BY <2>2 DEF File
<1>6. \A s \in Slot : Spending[s] \in Spends BY DEF Spending, Spends, Slot
<1>7. \/ request' = request \/ Serve(a, "refuse", None, p, 0)
      \/ \E s \in Slot : Serve(a, Spending[s], t, p, 0)
  BY DEF Enroll, Holding
<1> HIDE DEF t
<1>8. ASSUME NEW step \in Spends \cup {"refuse"}, NEW u \in Token \cup {None},
             Serve(a, step, u, p, 0)
      PROVE  Kept'
  <2>1. PICK r \in Requested : request' = [request EXCEPT ![a] = r] /\ r.step = step
    BY <1>1, <1>8, ServeOK DEF Steps, Spends
  <2> QED BY <1>1, <1>2, <1>3, <1>4, <1>8, <2>1, QuietTurn
<1>9. CASE request' = request BY <1>2, <1>3, <1>9, NoTurnKept
<1> QED BY <1>5, <1>6, <1>7, <1>8, <1>9

\* _consume_enrollment_token: a token that is deleted is nobody's who puts it in the
\* Secret, unless it took the place of the one that was read.
LEMMA SpendKept ==
  ASSUME DInv, Deployed, Kept, Undisturbed', NEW a \in Api, NEW s \in Slot, Spend(a, s)
  PROVE  Kept'
<1>1. TypeOK /\ Requests BY DEF DInv, EInv
<1>2. /\ request[a].step \in Spends /\ slot' = [slot EXCEPT ![s] = None]
      /\ Serve(a, "bind", None, request[a].pod, 0) /\ UNCHANGED <<secret, deployment>>
  BY DEF Spend, At, Spending, Spends, Slot, kubernetes
<1>3. deployment # 0 BY <1>2, Somebody DEF Asking
<1>4. \A u \in Slot : ~Delivers(request[a], u) BY <1>2 DEF Delivers, Spends
<1>5. request[a].pod \in Pod BY <1>1, <1>2 DEF Requests, RequestOK, Asking
<1>6. PICK r \in Requested : request' = [request EXCEPT ![a] = r] /\ r.step = "bind"
  BY <1>1, <1>2, <1>5, ServeOK DEF Steps
<1>7. Turned(a, r) BY <1>1, <1>6, TurnedOK
<1>8. slot'[s] = None /\ \A u \in Slot \ {s} : slot'[u] = slot[u] BY <1>1, <1>2, SlotSet
<1>9. slot[s] \in {None, request[a].token} BY DEF Undisturbed, Spend
<1>10. ASSUME NEW b \in Api \ {a}, NEW u \in Slot, Delivers(request[b], u)
       PROVE  slot'[u] = slot[u]
  <2>1. request[b].step \in Undelivered BY <1>10 DEF Delivers, Undelivered
  <2>2. request[b].token \in Token BY <1>1, <2>1 DEF Requests, RequestOK
  <2>3. request[a].token # request[b].token BY <1>1, <1>2, <2>1 DEF Requests, Apart
  <2>4. slot[u] = request[b].token BY <1>10 DEF Kept, Carried
  <2>5. u # s BY <1>9, <2>2, <2>3, <2>4, EnrollmentAssumption
  <2> QED BY <1>8, <2>5
<1>11. \A b \in Api : request[b].step # "create_deployment" BY <1>3 DEF Deployed, At
<1>12. \A u \in Slot : slot'[u] \in {slot[u], None} BY <1>8
<1>13. Found("main") /\ Found("replica") BY DEF Kept, Slot
<1>14. Found("main")' /\ Found("replica")'
  BY <1>2, <1>4, <1>7, <1>12, <1>13, FoundKept DEF Slot
<1>15. Carried(r)' BY <1>6 DEF Carried, Delivers
<1>16. Untaken' BY <1>2, <1>3 DEF Untaken
<1> QED BY <1>7, <1>10, <1>11, <1>14, <1>15, <1>16, KeptTurn

\* The key is bound, or the pod refused.
LEMMA AnswerKept ==
  ASSUME DInv, Deployed, Kept, NEW a \in Api, Bind(a) \/ Refuse(a)
  PROVE  Kept'
<1>1. TypeOK BY DEF DInv, EInv
<1>2. /\ request[a].step \in {"bind", "refuse"} /\ UNCHANGED <<slot, secret, deployment>>
      /\ Done(a) \/ GoOn(a, "reissue")
  BY DEF Bind, Refuse, At, redis, kubernetes
<1>3. deployment # 0 BY <1>2, Somebody DEF Asking
<1>4. \A s \in Slot : ~Delivers(request[a], s) BY <1>2 DEF Delivers
<1>5. \E r \in Requested : /\ request' = [request EXCEPT ![a] = r]
                           /\ r.step \in {"idle", "reissue"}
  BY <1>1, <1>2, IdleOK, GoOnOK DEF Done, Steps
<1> QED BY <1>1, <1>2, <1>3, <1>4, <1>5, QuietTurn

\* reissue_enrollment_token
LEMMA ReissueKept ==
  ASSUME DInv, Deployed, Kept, NEW a \in Api, Reissue(a)
  PROVE  Kept'
<1>1. TypeOK /\ Requests /\ Deployed BY DEF DInv, EInv
<1>2. request[a].step = "reissue" /\ UNCHANGED <<secret, deployment>>
  BY DEF Reissue, At, kubernetes
<1>3. deployment # 0 BY <1>2, Somebody DEF Asking
<1>4. \A s \in Slot : ~Delivers(request[a], s) BY <1>2 DEF Delivers
<1>5. CASE Done(a) /\ UNCHANGED slot
  BY <1>1, <1>2, <1>3, <1>4, <1>5, IdleOK, QuietTurn DEF Done
<1>6. CASE /\ slot["main"] = None /\ slot' = [slot EXCEPT !["main"] = NewToken]
           /\ Serve(a, "patch_main", NewToken, request[a].pod, 0)
  <2>1. PICK t \in Token : t = NewToken BY NewTokenOK
  <2>2. slot' = [slot EXCEPT !["main"] = t] /\ Serve(a, "patch_main", t, request[a].pod, 0)
    BY <1>6, <2>1
  <2>3. request[a].pod \in Pod BY <1>1, <1>2 DEF Requests, RequestOK, Asking
  <2>4. PICK r \in Requested :
          request' = [request EXCEPT ![a] = r] /\ r.step = "patch_main" /\ r.token = t
    BY <1>1, <2>2, <2>3, ServeOK DEF Steps
  <2>5. Turned(a, r) BY <1>1, <2>4, TurnedOK
  <2>6. slot'["main"] = t /\ slot'["replica"] = slot["replica"]
    BY <1>1, <2>2, SlotSet DEF Slot
  <2>7. ASSUME NEW b \in Api, Delivers(request[b], "main") PROVE FALSE
    <3>1. slot["main"] = request[b].token BY <2>7 DEF Kept, Carried, Slot
    <3>2. request[b].token \in Token
      BY <1>1, <2>7 DEF Delivers, Requests, RequestOK, Undelivered
    <3> QED BY <1>6, <3>1, <3>2, EnrollmentAssumption
  <2>8. \A b \in Api : request[b].step # "create_deployment"
    BY <1>1, <1>3 DEF Deployed, At
  <2>9. Found("replica") /\ "replica" \in Slot /\ \A s \in Slot : s = "main" \/ s = "replica"
    BY DEF Kept, Slot
  <2>10. Found("replica")' BY <1>2, <1>4, <2>5, <2>6, <2>9, FoundKept
  <2>11. Found("main")'
    <3>1. Delivers(request'[a], "main") BY <2>4, <2>5 DEF Turned, Delivers
    <3> QED BY <3>1 DEF Found, Delivers
  <2>12. Carried(r)' BY <2>4, <2>6, <2>9 DEF Carried, Delivers
  <2>13. Untaken' BY <1>2, <1>3 DEF Untaken
  <2>14. ASSUME NEW b \in Api \ {a}, NEW s \in Slot, Delivers(request[b], s)
         PROVE  slot'[s] = slot[s]
    BY <2>6, <2>7, <2>9, <2>14
  <2> QED BY <2>5, <2>8, <2>10, <2>11, <2>12, <2>13, <2>14, KeptTurn
<1> QED BY <1>5, <1>6 DEF Reissue

\* patch_namespaced_secret, of the first slot
LEMMA PatchMainKept ==
  ASSUME DInv, Deployed, Kept, NEW a \in Api, PatchMain(a)
  PROVE  Kept'
<1>1. TypeOK /\ Requests /\ Deployed BY DEF DInv, EInv
<1>2. request[a].step = "patch_main" /\ Done(a) /\ deployment' = deployment
  BY DEF PatchMain, At
<1>3. deployment # 0 /\ secret # None
  BY <1>1, <1>2, Somebody DEF Asking, Deployed
<1>4. Delivers(request[a], "main") /\ slot["main"] = request[a].token
  BY <1>2 DEF Delivers, Kept, Carried, Slot
<1>5. Turned(a, Idle) BY <1>1, <1>2, IdleOK, TurnedOK DEF Done
<1>6. \A b \in Api \ {a} :
        ~Delivers(request[b], "main") /\ request[b].step # "create_deployment"
  BY <1>4, OnlyMain
<1>7. Found("replica") BY DEF Kept, Slot
<1>8. Carried(Idle)' BY IdleOK DEF Carried, Delivers
<1>9. Untaken' BY <1>2, <1>3 DEF Untaken
<1>10. ~Delivers(request[a], "replica") BY <1>2 DEF Delivers
<1>11. "main" \in Slot /\ "replica" \in Slot /\ \A s \in Slot : s = "main" \/ s = "replica"
  BY DEF Slot
<1>12. slot'["replica"] = slot["replica"] /\ Found("main")' /\ Found("replica")'
  <2>1. CASE slot' = slot /\ secret' = [secret EXCEPT !["main"] = request[a].token]
    <3>1. secret \in File /\ request[a].token \in Token \cup {None}
      BY <1>1, <1>3 DEF TypeOK
    <3>2. secret' \in File BY <2>1, <3>1 DEF File
    <3>3. secret'["main"] = request[a].token /\ secret'["replica"] = secret["replica"]
      BY <2>1, <3>1 DEF File, Slot
    <3>4. secret' # None BY <3>2, EnrollmentAssumption
    <3>5. Found("main")' BY <1>4, <2>1, <3>3, <3>4 DEF Found
    <3>6. Found("replica")' BY <1>5, <1>7, <1>10, <1>11, <2>1, <3>3, <3>4, FoundKept
    <3> QED BY <2>1, <3>5, <3>6
  <2>2. CASE slot' = [slot EXCEPT !["main"] = None] /\ secret' = secret
    <3>1. slot'["main"] = None /\ slot'["replica"] = slot["replica"]
      BY <1>1, <1>11, <2>2, SlotSet
    <3>2. Found("main")' BY <3>1 DEF Found
    <3>3. Found("replica")' BY <1>5, <1>7, <1>10, <1>11, <2>2, <3>1, FoundKept
    <3> QED BY <3>1, <3>2, <3>3
  <2> QED BY <2>1, <2>2 DEF PatchMain
<1> QED BY <1>5, <1>6, <1>8, <1>9, <1>11, <1>12, KeptTurn

\* A pod starts, stops, dies, tries again or reads the Secret.
LEMMA PodKept ==
  ASSUME DInv, Deployed, Kept, NEW p \in Pod, PodActs(p)
  PROVE  Kept'
<1>1. UNCHANGED <<slot, secret, deployment, request>>
  BY DEF PodActs, PodStarts, PodStops, PodDies, ContainerRestarts, FilesRefresh, RoundEnds,
         Retry, redis, kubernetes
<1>2. p \in Alive \/ PodStarts(p)
  BY DEF PodActs, PodStops, PodDies, ContainerRestarts, FilesRefresh, RoundEnds, Retry
<1>3. PodStarts(p) => deployment # 0
  <2> SUFFICES ASSUME Cardinality(Alive) < 0 PROVE FALSE BY DEF PodStarts
  <2>1. IsFiniteSet(Alive) BY EnrollmentAssumption, FS_Subset DEF Alive
  <2>2. Cardinality(Alive) \in Nat BY <2>1, FS_CardinalityType
  <2> QED BY <2>2
<1> QED BY <1>1, <1>2, <1>3, Somebody, NoTurnKept

\* ENROLL_TOKEN_TTL: what is on its way is not too old.
LEMMA ExpiresKept ==
  ASSUME DInv, Deployed, Kept, NEW s \in Slot, TokenExpires(s) \/ TokenExpiresEarly(s)
  PROVE  Kept'
<1>1. TypeOK BY DEF DInv, EInv
<1>2. /\ slot' = [slot EXCEPT ![s] = None]
      /\ UNCHANGED <<secret, deployment, pod, request>>
      /\ \A a \in Api : request[a].token # slot[s]
  BY DEF TokenExpires, TokenExpiresEarly, kubernetes, Awaited
<1>3. slot'[s] = None /\ \A u \in Slot \ {s} : slot'[u] = slot[u] BY <1>1, <1>2, SlotSet
<1>4. Untaken'
  <2>1. slot["replica"] = None => slot'["replica"] = None BY <1>3 DEF Slot
  <2> QED BY <1>2, <2>1 DEF Kept, Untaken, At
<1>5. ASSUME NEW a \in Api PROVE Carried(request[a])'
  <2>1. Carried(request[a]) BY DEF Kept
  <2>2. ASSUME NEW u \in Slot, Delivers(request[a], u) PROVE slot'[u] = request[a].token
    BY <1>2, <1>3, <2>1, <2>2 DEF Carried
  <2>3. request[a].step = "create_deployment" => slot'["main"] = slot["main"]
    BY <1>2, <1>3, <2>1 DEF Carried, Slot
  <2> QED BY <1>2, <2>1, <2>2, <2>3 DEF Carried, Delivers
<1>6. ASSUME NEW u \in Slot PROVE Found(u)'
  <2>1. Found(u) BY DEF Kept
  <2>2. slot'[u] # None => slot'[u] = slot[u] BY <1>3
  <2> QED BY <1>2, <2>1, <2>2 DEF Found, Delivers
<1> QED BY <1>4, <1>5, <1>6 DEF Kept

\* What has happened is not forgotten: a removal takes the place of what came before.
LEMMA Grows ==
  ASSUME [Next]_vars
  PROVE  /\ Undisturbed' => Undisturbed
         /\ disturbed' = {} => disturbed = {}
<1>1. /\ Raises => disturbed \subseteq disturbed'
      /\ \A calls \in BOOLEAN : Works(calls) => disturbed \subseteq disturbed'
  BY DEF Raises, Works
<1>2. disturbed \subseteq disturbed' \/ "removed" \in disturbed'
  <2>1. CASE \E a \in Api : \/ CreateSecret(a) \/ CreateDeployment(a) \/ PatchReplica(a)
                            \/ Scale(a) \/ PatchMain(a)
    BY <1>1, <2>1 DEF CreateSecret, CreateDeployment, PatchReplica, Scale, PatchMain
  <2>2. CASE \E a \in Api : \/ Register(a) \/ Unregister(a) \/ Remove(a) \/ RemoveSecret(a)
                            \/ Bind(a) \/ Refuse(a) \/ Reissue(a)
                            \/ \E n \in 1..2 : ScaleCoordinator(a, n)
                            \/ \E p \in Pod : Enroll(a, p)
                            \/ \E s \in Slot : Spend(a, s)
    BY <2>2 DEF Register, Unregister, Remove, RemoveSecret, Bind, Refuse, Reissue,
                ScaleCoordinator, Enroll, Spend, bounds
  <2>3. CASE \E p \in Pod : PodActs(p)
    BY <1>1, <2>3 DEF PodActs, PodStarts, PodStops, PodDies, ContainerRestarts,
                      FilesRefresh, RoundEnds, Retry, bounds
  <2>4. CASE \E s \in Slot : TokenExpires(s) \/ TokenExpiresEarly(s)
    BY <1>1, <2>4 DEF TokenExpires, TokenExpiresEarly, bounds
  <2>5. CASE UNCHANGED vars BY <2>5 DEF vars
  <2> QED BY <2>1, <2>2, <2>3, <2>4, <2>5 DEF Next, Handle, PodActs
<1> QED BY <1>2 DEF Undisturbed

\* A removal is remembered, so none is at work while none has happened.
LEMMA KeptStep ==
  ASSUME DInv, Deployed, Kept, [Next]_vars, Undisturbed'
  PROVE  Kept'
<1>1. CASE \E a \in Api : Register(a) \/ \E n \in 1..2 : ScaleCoordinator(a, n)
  BY <1>1, RegisterKept, ScaleCoordinatorKept
<1>2. CASE \E a \in Api : Unregister(a) \/ Remove(a) \/ RemoveSecret(a)
  BY <1>2 DEF Unregister, Remove, RemoveSecret, Kept, Carried, At, Undisturbed
<1>3. CASE \E a \in Api : \/ CreateSecret(a) \/ CreateDeployment(a) \/ PatchReplica(a)
                          \/ Scale(a)
  BY <1>3, CreateSecretKept, CreateDeploymentKept, PatchReplicaKept, ScaleKept
<1>4. CASE \E a \in Api : \/ Bind(a) \/ Refuse(a) \/ Reissue(a) \/ PatchMain(a)
                          \/ \E p \in Pod : Enroll(a, p)
                          \/ \E s \in Slot : Spend(a, s)
  BY <1>4, AnswerKept, ReissueKept, PatchMainKept, EnrollKept, SpendKept
<1>5. CASE \/ \E p \in Pod : PodActs(p)
           \/ \E s \in Slot : TokenExpires(s) \/ TokenExpiresEarly(s)
  BY <1>5, PodKept, ExpiresKept
<1>6. CASE UNCHANGED vars
  <2>1. UNCHANGED <<slot, secret, deployment, pod, request>> BY <1>6 DEF vars
  <2>2. Untaken' BY <2>1 DEF Kept, Untaken, At
  <2>3. \A a \in Api : Carried(request[a])' BY <2>1 DEF Kept, Carried, Delivers
  <2>4. \A s \in Slot : Found(s)' BY <2>1 DEF Kept, Found, Delivers
  <2> QED BY <2>2, <2>3, <2>4 DEF Kept
<1> QED BY <1>1, <1>2, <1>3, <1>4, <1>5, <1>6 DEF Next, Handle, PodActs

\* Nothing has a token in the beginning.
LEMMA InitKept == Init => Kept
<1> SUFFICES ASSUME Init PROVE Kept OBVIOUS
<1>1. \A a \in Api : request[a].step = "idle" BY DEF Init, Idle
<1>2. Untaken BY DEF Init, Untaken, Slot
<1>3. \A a \in Api : Carried(request[a]) BY <1>1 DEF Carried, Delivers
<1>4. \A s \in Slot : Found(s) BY DEF Init, Found
<1> QED BY <1>2, <1>3, <1>4 DEF Kept

SInv == DInv /\ (Undisturbed => Kept)

\* When no request is in progress a token that is valid is in the Secret, whatever
\* failed and however many pods were refused at once: unless the miner was removed or
\* registered again, or a token was deleted in place of another.
THEOREM ValidStays == Spec => []ValidIsInSecret
<1>1. Init => SInv BY InitPlaced, InitKept DEF SInv
<1>2. SInv /\ [Next]_vars => SInv'
  <2> SUFFICES ASSUME SInv, [Next]_vars PROVE SInv' OBVIOUS
  <2>1. DInv' BY DStep DEF SInv
  <2>2. ASSUME Undisturbed' PROVE Kept'
    <3>1. DInv /\ Kept /\ Undisturbed BY <2>2, Grows DEF SInv
    <3>2. Deployed BY <3>1, Intact
    <3> QED BY <2>2, <3>1, <3>2, KeptStep
  <2> QED BY <2>1, <2>2 DEF SInv
<1>3. SInv => ValidIsInSecret
  <2> SUFFICES ASSUME SInv, \A a \in Api : request[a] = Idle, Undisturbed,
                      NEW s \in Slot, slot[s] # None
               PROVE  secret # None /\ secret[s] = slot[s]
    BY DEF ValidIsInSecret, Undisturbed
  <2>1. Found(s) BY DEF SInv, Kept
  <2>2. \A a \in Api : ~Delivers(request[a], s) BY IdleOK DEF Delivers
  <2> QED BY <2>1, <2>2 DEF Found
<1> QED BY <1>1, <1>2, <1>3, PTL DEF Spec

-----------------------------------------------------------------------------
(* Two tokens are enough for two pods *)

\* Sizes.
LEMMA Sizes ==
  /\ IsFiniteSet(Alive) /\ Served \subseteq Alive /\ IsFiniteSet(Served)
  /\ Cardinality(Alive) \in Nat /\ Cardinality(Served) \in Nat
  /\ Cardinality(Served) <= Cardinality(Alive)
  /\ Valid \in 0..2
<1>1. Alive \subseteq Pod /\ Served \subseteq Alive BY DEF Alive, Served
<1>2. IsFiniteSet(Alive) BY <1>1, EnrollmentAssumption, FS_Subset
<1>3. IsFiniteSet(Served) /\ Cardinality(Served) <= Cardinality(Alive)
  BY <1>1, <1>2, FS_Subset
<1>4. Valid \in 0..2 BY DEF Valid
<1> QED BY <1>1, <1>2, <1>3, <1>4, FS_CardinalityType

\* The same after a step.
LEMMA NextSizes ==
  /\ IsFiniteSet(Alive') /\ Served' \subseteq Alive' /\ IsFiniteSet(Served')
  /\ Cardinality(Alive') \in Nat /\ Cardinality(Served') \in Nat
  /\ Valid' \in 0..2
<1>1. Alive' \subseteq Pod /\ Served' \subseteq Alive' BY DEF Alive, Served
<1>2. IsFiniteSet(Alive') BY <1>1, EnrollmentAssumption, FS_Subset
<1>3. IsFiniteSet(Served') BY <1>1, <1>2, FS_Subset
<1>4. Valid' \in 0..2 BY DEF Valid
<1> QED BY <1>1, <1>2, <1>3, <1>4, FS_CardinalityType

\* Whoever is served stays so, unless his request was the one that turned.
LEMMA ServedKept ==
  ASSUME NEW a \in Api, NEW r, Turned(a, r), request[a].step # "bind",
         Alive \subseteq Alive', nodes \subseteq nodes'
  PROVE  Served \subseteq Served' /\ Cardinality(Served) <= Cardinality(Served')
<1>1. Served \subseteq Served'
  <2> SUFFICES ASSUME NEW p \in Served PROVE p \in Served' OBVIOUS
  <2>1. CASE p \in nodes BY <2>1 DEF Served
  <2>2. CASE Binding(p)
    <3>1. PICK b \in Api : At(b, "bind") /\ request[b].pod = p BY <2>2 DEF Binding
    <3>2. request'[b] = request[b] BY <3>1 DEF Turned, At
    <3>3. Binding(p)' BY <3>1, <3>2 DEF Binding, At
    <3> QED BY <3>3 DEF Served
  <2> QED BY <2>1, <2>2 DEF Served
<1> QED BY <1>1, NextSizes, FS_Subset

\* The same when no request turns.
LEMMA ServedStays ==
  ASSUME request' = request, Alive \subseteq Alive', nodes \subseteq nodes'
  PROVE  Served \subseteq Served' /\ Cardinality(Served) <= Cardinality(Served')
<1>1. Served \subseteq Served' BY DEF Served, Binding, At
<1> QED BY <1>1, NextSizes, FS_Subset

\* There are still enough tokens when there are no more pods, and no fewer tokens or
\* served pods.
LEMMA EnoughKept ==
  ASSUME Enough, TypeOK, Alive' = Alive, deployment' = deployment,
         Valid + Cardinality(Served) <= Valid' + Cardinality(Served'),
         slot'["main"] # None \/ Served' # {} \/ (slot["main"] = None /\ Served = {})
  PROVE  Enough'
<1>1. deployment \in Nat BY DEF TypeOK
<1>2. deployment' <= Valid' + Cardinality(Served')
  BY <1>1, Sizes, NextSizes DEF Enough
<1> QED BY <1>2 DEF Enough

\* A request turns, and the others remain quiet.
LEMMA CalmTurn ==
  ASSUME Calm, NEW a \in Api, NEW r, Turned(a, r), Enough', Pods', Quiet(r)',
         slot'["main"] # None => slot["main"] # None /\ nodes' = nodes,
         \A b \in Api \ {a} : request[b].step \in Spends \cup {"refuse"} =>
                               request[b].pod \notin nodes',
         \/ \A b \in Api \ {a} : request[b].step # "scale"
         \/ /\ Valid + Cardinality(Served) <= Valid' + Cardinality(Served')
            /\ slot'["replica"] \in {slot["replica"], None}
  PROVE  Calm'
<1>1. ASSUME NEW b \in Api PROVE Quiet(request[b])'
  <2>1. CASE b = a
    <3>1. request'[b] = r BY <2>1 DEF Turned
    <3> QED BY <3>1 DEF Quiet
  <2>2. CASE b # a
    <3>1. Quiet(request[b]) /\ request'[b] = request[b] BY <2>2 DEF Calm, Turned
    <3>2. request[b].step = "scale" => 2 <= Valid' + Cardinality(Served')
                                       /\ slot'["replica"] \in {None, request[b].token}
      BY <2>2, <3>1, Sizes, NextSizes DEF Quiet
    <3> QED BY <2>2, <3>1, <3>2 DEF Quiet
  <2> QED BY <2>1, <2>2
<1>2. slot'["main"] # None => nodes' = {} BY DEF Calm
<1> QED BY <1>1, <1>2 DEF Calm

\* No request turns, and neither pods nor tokens are lost.
LEMMA CalmStays ==
  ASSUME DInv, Calm, UNCHANGED <<slot, nodes, deployment, request>>, Alive \subseteq Alive',
         Cardinality(Alive') <= deployment, Pods'
  PROVE  Calm'
<1>1. Served \subseteq Served' /\ Cardinality(Served) <= Cardinality(Served')
  BY ServedStays
<1>2. Valid' = Valid BY DEF Valid
<1>3. deployment \in Nat BY DEF DInv, EInv, TypeOK
<1>4. deployment' <= Valid' + Cardinality(Served')
  BY <1>1, <1>2, <1>3, Sizes, NextSizes DEF Calm, Enough
<1>5. Enough' BY <1>1, <1>4 DEF Calm, Enough
<1>6. ASSUME NEW b \in Api PROVE Quiet(request[b])'
  <2>1. Quiet(request[b]) BY DEF Calm
  <2>2. request[b].step = "scale" => 2 <= Valid' + Cardinality(Served')
    BY <1>1, <1>2, <2>1, Sizes, NextSizes DEF Quiet
  <2> QED BY <2>1, <2>2 DEF Quiet
<1> QED BY <1>5, <1>6 DEF Calm

\* Before the Deployment all is calm.
LEMMA CalmBefore ==
  ASSUME DInv', Deployed', Kept', deployment' = 0, slot'["main"] # None => nodes' = {}
  PROVE  Calm'
<1>1. TypeOK' /\ Requests' /\ Deployed' BY DEF DInv, EInv
<1>2. \A p \in Pod : pod'[p] = NoPod BY DEF Kept, Untaken
<1>3. Alive' = {} /\ Served' = {} BY <1>2 DEF Alive, Served
<1>4. Enough'
  <2>1. Cardinality({}) = 0 BY FS_EmptySet
  <2> QED BY <1>3, <2>1, NextSizes DEF Enough
<1>5. Pods' BY <1>2, <1>3, RunningOK DEF Pods
<1>6. ASSUME NEW b \in Api PROVE Quiet(request[b])'
  <2>1. request'[b].step \notin Asking
    <3>1. request'[b].step \in Asking =>
            request'[b].pod \in Pod
              /\ (pod'[request'[b].pod] = Dead \/ Asks(pod'[request'[b].pod]))
      BY <1>1 DEF Requests, RequestOK
    <3> QED BY <1>2, <3>1, RunningOK DEF Asks
  <2>2. request'[b].step # "scale" BY <1>1 DEF Deployed, At
  <2> QED BY <2>1, <2>2 DEF Quiet, Asking, Spends
<1> QED BY <1>4, <1>5, <1>6 DEF Calm

\* The token of the first slot is in the Secret before it is spent.
LEMMA MainInSecret ==
  ASSUME DInv, Deployed, Kept, Calm, deployment # 0, slot["main"] # None
  PROVE  secret # None /\ secret["main"] = slot["main"]
<1>1. Deployed /\ Found("main") BY DEF DInv, Kept, Slot
<1>2. ASSUME NEW b \in Api PROVE ~Delivers(request[b], "main")
  <2>1. request[b].step # "create_secret" BY <1>1 DEF Deployed, At
  <2>2. request[b].step # "patch_main" BY DEF Calm, Quiet
  <2> QED BY <2>1, <2>2 DEF Delivers
<1> QED BY <1>1, <1>2 DEF Found

\* The first token is spent before anybody is bound, or about to be.
LEMMA NobodyServed ==
  ASSUME Calm, slot["main"] # None
  PROVE  Served = {}
<1>1. nodes = {} /\ \A b \in Api : request[b].step # "bind" BY DEF Calm, Quiet
<1> QED BY <1>1 DEF Served, Binding, At

\* The miner is created.
LEMMA CreateCalm ==
  ASSUME DInv, Deployed, Kept, Calm, DInv', Deployed', Kept', disturbed' = {},
         NEW a \in Api, Register(a) \/ CreateSecret(a) \/ CreateDeployment(a)
  PROVE  Calm'
<1>1. TypeOK /\ Requests /\ Fresh /\ Deployed BY DEF DInv, EInv
<1>2. CASE Register(a)
  <2>1. deployment' = 0 BY <1>2 DEF Register, kubernetes
  <2>2. nodes' = {} BY <1>2 DEF Register
  <2> QED BY <2>1, <2>2, CalmBefore
<1>3. ASSUME SpawnFails(a), request[a].step \in {"create_secret", "create_deployment"},
             pod' = pod
      PROVE  Calm'
  <2>1. deployment' = 0 BY <1>3, Creating DEF SpawnFails
  <2>2. slot'["main"] = None BY <1>1, <1>3, SpawnFailsOK DEF Owners
  <2> QED BY <2>1, <2>2, CalmBefore
<1>4. CASE CreateSecret(a)
  <2>1. request[a].step = "create_secret" /\ pod' = pod BY <1>4 DEF CreateSecret, At
  <2>2. CASE UNCHANGED <<redis, deployment>>
    <3>1. deployment' = 0 BY <2>1, <2>2, Creating
    <3> QED BY <2>2, <3>1, CalmBefore DEF redis, Calm
  <2> QED BY <1>3, <1>4, <2>1, <2>2 DEF CreateSecret
<1>5. CASE CreateDeployment(a)
  <2>1. request[a].step = "create_deployment" /\ pod' = pod
    BY <1>5 DEF CreateDeployment, At
  <2>2. CASE deployment' = 1 /\ Done(a) /\ UNCHANGED redis
    <3>1. deployment = 0 /\ OnlyOwner(a) BY <2>1, Creating
    <3>2. slot["main"] # None BY <2>1 DEF Kept, Carried
    <3>3. Turned(a, Idle) BY <1>1, <2>2, IdleOK, TurnedOK DEF Done
    <3>4. Alive' = {} /\ Alive = {} BY <2>1, <3>1, Nobody DEF Alive
    <3>5. UNCHANGED <<slot, nodes>> BY <2>2 DEF redis
    <3>6. Enough'
      <4>1. Cardinality({}) = 0 BY FS_EmptySet
      <4>2. Valid' \in 1..2 BY <3>2, <3>5 DEF Valid
      <4> QED BY <2>2, <3>2, <3>4, <3>5, <4>1, <4>2, NextSizes DEF Enough
    <3>7. Pods' BY <2>1, <3>4 DEF Calm, Pods
    <3>8. Quiet(Idle)' BY IdleOK DEF Quiet, Spends
    <3>9. \A b \in Api \ {a} : request[b].step # "scale" BY <3>1 DEF OnlyOwner, Owners
    <3>10. \A b \in Api : request[b].step \notin Spends \cup {"refuse"}
      BY <3>1, Nobody DEF Asking
    <3> QED BY <3>3, <3>5, <3>6, <3>7, <3>8, <3>9, <3>10, CalmTurn
  <2> QED BY <1>3, <1>5, <2>1, <2>2 DEF CreateDeployment
<1> QED BY <1>2, <1>4, <1>5

\* A team is founded.
LEMMA ScaleCalm ==
  ASSUME DInv, Deployed, Kept, Calm, disturbed' = {}, NEW a \in Api,
         \/ \E n \in 1..2 : ScaleCoordinator(a, n)
         \/ PatchReplica(a) \/ Scale(a)
  PROVE  Calm'
<1>1. TypeOK /\ Requests /\ Deployed BY DEF DInv, EInv
<1>2. /\ UNCHANGED <<registered, nodes, pod>>
      /\ request[a].step \in Owners \/ OwnerAsks(a)
  BY DEF ScaleCoordinator, PatchReplica, Scale, redis, kubernetes, At, Owners
<1>3. OnlyOwner(a) BY <1>1, <1>2, OwnerOK
<1>4. \A b \in Api \ {a} : request[b].step # "scale" BY <1>3 DEF OnlyOwner, Owners
<1>5. Alive' = Alive BY <1>2 DEF Alive
<1>6. request[a].step # "bind" BY <1>3 DEF OnlyOwner, Owners
<1>7. ASSUME slot'["main"] = slot["main"] PROVE Pods'
  BY <1>2, <1>5, <1>7 DEF Calm, Pods, Finds
<1>8. \A b \in Api : request[b].step \in Spends \cup {"refuse"} =>
                       request[b].pod \notin nodes'
  BY <1>2 DEF Calm, Quiet
<1>9. "main" \in Slot /\ "replica" \in Slot BY DEF Slot
<1>10. CASE \E n \in 1..2 : ScaleCoordinator(a, n)
  <2>1. ScaleCoordinator(a, 2) BY <1>10 DEF ScaleCoordinator
  <2>2. PICK t \in Token : t = NewToken BY NewTokenOK
  <2>3. /\ slot' = [slot EXCEPT !["replica"] = t] /\ Serve(a, "patch_replica", t, None, 2)
        /\ deployment' = deployment
    BY <2>1, <2>2 DEF ScaleCoordinator, kubernetes
  <2>4. PICK r \in Requested :
          request' = [request EXCEPT ![a] = r] /\ r.step = "patch_replica"
    BY <1>1, <2>3, ServeOK DEF Steps
  <2>5. Turned(a, r) BY <1>1, <2>4, TurnedOK
  <2>6. slot'["replica"] = t /\ slot'["main"] = slot["main"]
    BY <1>1, <1>9, <2>3, SlotSet
  <2>7. Valid <= Valid' BY <2>6, EnrollmentAssumption DEF Valid
  <2>8. Served \subseteq Served' /\ Cardinality(Served) <= Cardinality(Served')
    BY <1>2, <1>5, <1>6, <2>5, ServedKept
  <2>9. Enough'
    <3>1. Valid + Cardinality(Served) <= Valid' + Cardinality(Served')
      BY <2>7, <2>8, Sizes, NextSizes
    <3> QED BY <1>1, <1>5, <2>3, <2>6, <2>8, <3>1, EnoughKept DEF Calm
  <2>10. Quiet(r)' BY <2>4 DEF Quiet, Spends
  <2> QED BY <1>2, <1>4, <1>7, <1>8, <2>5, <2>6, <2>9, <2>10, CalmTurn
<1>11. CASE PatchReplica(a)
  <2>1. request[a].step = "patch_replica" /\ GoOn(a, "scale") /\ deployment' = deployment
    BY <1>11 DEF PatchReplica, At
  <2>2. deployment # 0 /\ secret # None BY <1>1, <2>1 DEF Deployed, At
  <2>3. ~Raises BY <1>1, BoundsOK
  <2>4. UNCHANGED slot BY <1>11, <2>2, <2>3 DEF PatchReplica, Works
  <2>5. /\ slot["replica"] = request[a].token /\ request[a].token \in Token
        /\ request[a].replicas = 2
    BY <1>1, <1>9, <2>1 DEF Kept, Carried, Delivers, Requests, RequestOK, Undelivered
  <2>6. PICK r \in Requested :
          /\ request' = [request EXCEPT ![a] = r] /\ r.step = "scale"
          /\ r.token = request[a].token /\ r.replicas = 2
    BY <1>1, <2>1, <2>5, GoOnOK DEF Steps
  <2>7. Turned(a, r) BY <1>1, <2>6, TurnedOK
  <2>8. Served \subseteq Served' /\ Cardinality(Served) <= Cardinality(Served')
    BY <1>2, <1>5, <1>6, <2>7, ServedKept
  <2>9. Valid' = Valid BY <2>4 DEF Valid
  <2>10. Enough'
    <3>1. Valid + Cardinality(Served) <= Valid' + Cardinality(Served')
      BY <2>8, <2>9, Sizes, NextSizes
    <3> QED BY <1>1, <1>5, <2>1, <2>4, <2>8, <3>1, EnoughKept DEF Calm
  <2>11. 2 <= Valid' + Cardinality(Served')
    <3>1. slot["replica"] # None BY <2>5, EnrollmentAssumption
    <3>2. CASE slot["main"] # None
      <4>1. Valid = 2 BY <3>1, <3>2 DEF Valid
      <4> QED BY <2>9, <4>1, NextSizes
    <3>3. CASE slot["main"] = None
      <4>1. Valid = 1 BY <3>1, <3>3 DEF Valid
      <4>2. Served # {} BY <2>2, <3>3 DEF Calm, Enough
      <4>3. Cardinality(Served) # 0 BY <4>2, Sizes, FS_EmptySet
      <4> QED BY <2>8, <2>9, <4>1, <4>3, Sizes, NextSizes
    <3> QED BY <3>2, <3>3
  <2>12. Quiet(r)' BY <2>4, <2>5, <2>6, <2>11 DEF Quiet, Spends
  <2> QED BY <1>2, <1>4, <1>7, <1>8, <2>4, <2>7, <2>10, <2>12, CalmTurn
<1>12. CASE Scale(a)
  <2>1. request[a].step = "scale" /\ Done(a) /\ UNCHANGED slot
    BY <1>12 DEF Scale, At, redis
  <2>2. request[a].replicas = 2 /\ 2 <= Valid + Cardinality(Served)
    BY <2>1 DEF Calm, Quiet
  <2>3. deployment # 0 /\ deployment \in 0..2 BY <1>1, <2>1 DEF Deployed, At, TypeOK
  <2>4. ~Raises BY <1>1, BoundsOK
  <2>5. deployment' = 2 BY <1>12, <2>2, <2>3, <2>4 DEF Scale
  <2>6. Turned(a, Idle) BY <1>1, <2>1, IdleOK, TurnedOK DEF Done
  <2>7. Served \subseteq Served' /\ Cardinality(Served) <= Cardinality(Served')
    BY <1>2, <1>5, <1>6, <2>6, IdleOK, ServedKept
  <2>8. Valid' = Valid BY <2>1 DEF Valid
  <2>9. Enough'
    <3>1. Cardinality(Alive') <= 2
      <4>1. Cardinality(Alive) <= deployment BY DEF Calm, Enough
      <4> QED BY <1>5, <2>3, <4>1, Sizes
    <3>2. 2 <= Valid' + Cardinality(Served') BY <2>2, <2>7, <2>8, Sizes, NextSizes
    <3>3. slot'["main"] # None \/ Served' # {}
      BY <2>1, <2>3, <2>7 DEF Calm, Enough
    <3> QED BY <2>5, <3>1, <3>2, <3>3 DEF Enough
  <2>10. Quiet(Idle)' BY IdleOK DEF Quiet, Spends
  <2> QED BY <1>2, <1>4, <1>7, <1>8, <2>1, <2>6, <2>9, <2>10, CalmTurn
<1> QED BY <1>10, <1>11, <1>12

\* Two requests that wait for an answer are of different pods, as none is dead.
LEMMA Different ==
  ASSUME DInv, Calm, NEW a \in Api, NEW b \in Api \ {a},
         request[a].step \in Asking, request[b].step \in Asking
  PROVE  /\ request[a].pod # request[b].pod
         /\ request[a].pod \in Alive /\ Asks(pod[request[a].pod])
<1>1. Requests BY DEF DInv, EInv
<1>2. request[a].pod \in Pod /\ pod[request[a].pod] # Dead
  BY <1>1 DEF Requests, RequestOK, Calm, Pods
<1>3. Asks(pod[request[a].pod]) BY <1>1, <1>2 DEF Requests, RequestOK
<1> QED BY <1>1, <1>2, <1>3 DEF Requests, Apart, Asks, Alive

\* A pod that asks runs.
LEMMA AskerRuns ==
  ASSUME DInv, Calm, NEW a \in Api, request[a].step \in Asking
  PROVE  request[a].pod \in Alive /\ Asks(pod[request[a].pod])
<1>1. Requests BY DEF DInv, EInv
<1>2. request[a].pod \in Pod /\ pod[request[a].pod] # Dead
  BY <1>1 DEF Requests, RequestOK, Calm, Pods
<1>3. Asks(pod[request[a].pod]) BY <1>1, <1>2 DEF Requests, RequestOK
<1> QED BY <1>2, <1>3 DEF Asks, Alive

\* A pod is not refused while a token is left for it, so none is issued again.
LEMMA NotReissued ==
  ASSUME DInv, Calm, NEW a \in Api, request[a].step = "refuse"
  PROVE  ~MayReissue
<1> SUFFICES ASSUME slot["replica"] = None, deployment # 0 PROVE FALSE BY DEF MayReissue
<1> DEFINE q == request[a].pod
<1>1. slot["main"] = None /\ q \notin nodes BY DEF Calm, Quiet
<1>2. Valid = 0 BY <1>1 DEF Valid
<1>3. q \in Alive BY AskerRuns DEF Asking
<1>4. q \notin Served
  <2>1. ASSUME NEW b \in Api, At(b, "bind"), request[b].pod = q PROVE FALSE
    <3>1. b # a BY <2>1 DEF At
    <3> QED BY <2>1, <3>1, Different DEF At, Asking
  <2> QED BY <1>1, <2>1 DEF Served, Binding
<1>5. IsFiniteSet(Alive \ {q}) /\ Cardinality(Alive \ {q}) = Cardinality(Alive) - 1
  BY <1>3, Sizes, FS_RemoveElement
<1>6. Served \subseteq Alive \ {q} BY <1>4, Sizes
<1>7. Cardinality(Served) <= Cardinality(Alive \ {q}) BY <1>5, <1>6, FS_Subset
<1>8. deployment <= Valid + Cardinality(Served) /\ Cardinality(Alive) <= deployment
  BY DEF Calm, Enough
<1>9. deployment \in Nat BY DEF DInv, EInv, TypeOK
<1> HIDE DEF q
<1> QED BY <1>2, <1>5, <1>7, <1>8, <1>9, Sizes

\* A pod finds a token, or is refused, or was bound already.
LEMMA EnrollCalm ==
  ASSUME DInv, Deployed, Kept, Calm, NEW a \in Api, NEW p \in Pod, Enroll(a, p)
  PROVE  Calm'
<1>1. TypeOK /\ Requests /\ Fresh /\ Deployed BY DEF DInv, EInv
<1>2. /\ request[a] = Idle /\ p \in Alive /\ pod[p].state = "trying" /\ pod[p].left # <<>>
      /\ UNCHANGED <<nodes, secret, deployment>>
  BY DEF Enroll, kubernetes, redis
<1>3. /\ pod[p] \in Running /\ <<>> \in Seq(Slot)
      /\ slot["main"] # None => Finds(pod[p])
  BY <1>1, <1>2, AliveOK DEF Calm, Pods
<1>4. request[a].step # "bind" BY <1>2, IdleOK
<1> DEFINE t == pod[p].files[Head(pod[p].left)]
<1>5. \A b \in Api : request[b].step \in Spends \cup {"refuse"} =>
                       request[b].pod \notin nodes'
  BY <1>2 DEF Calm, Quiet
<1>6. ASSUME NEW x \in Running, x.state \in {"waiting", "bound", "asking"},
             x.files = pod[p].files, pod' = [pod EXCEPT ![p] = x],
             slot'["main"] # None => slot'["main"] = slot["main"],
             x.state = "bound" => p \in nodes
      PROVE  Alive' = Alive /\ Pods'
  <2>1. pod'[p] = x /\ \A q \in Pod \ {p} : pod'[q] = pod[q]
    BY <1>1, <1>6, PodSet DEF Process
  <2>2. Alive' = Alive BY <1>2, <2>1, RunningOK DEF Alive
  <2>3. slot'["main"] # None => Finds(x)' BY <1>3, <1>6 DEF Finds
  <2>4. x # Dead BY RunningOK
  <2> QED BY <1>2, <1>6, <2>1, <2>2, <2>3, <2>4 DEF Calm, Pods, Finds
<1>7. CASE GivesUp(p) /\ UNCHANGED <<redis, request>>
  <2> DEFINE x == [pod[p] EXCEPT !.state = "waiting", !.left = <<>>]
  <2>1. x \in Running /\ x.files = pod[p].files /\ x.state = "waiting"
    BY <1>3 DEF Running
  <2>2. pod' = [pod EXCEPT ![p] = x] BY <1>1, <1>7 DEF GivesUp, TypeOK
  <2>3. UNCHANGED <<slot, request>> BY <1>7 DEF redis
  <2> HIDE DEF x
  <2>4. Alive' = Alive /\ Pods' BY <1>6, <2>1, <2>2, <2>3
  <2>5. Cardinality(Alive') <= deployment BY <2>4 DEF Calm, Enough
  <2> QED BY <1>2, <2>3, <2>4, <2>5, CalmStays
<1>8. CASE AlreadyBound(p) /\ Answered(p, TRUE) /\ UNCHANGED <<redis, request>>
  <2> DEFINE x == [pod[p] EXCEPT !.state = "bound", !.left = <<>>]
  <2>1. x \in Running /\ x.files = pod[p].files /\ x.state = "bound"
    BY <1>3 DEF Running
  <2>2. pod' = [pod EXCEPT ![p] = x] BY <1>1, <1>2, <1>8 DEF Answered, TypeOK
  <2>3. UNCHANGED <<slot, request>> /\ p \in nodes BY <1>8 DEF redis, AlreadyBound
  <2> HIDE DEF x
  <2>4. Alive' = Alive /\ Pods' BY <1>6, <2>1, <2>2, <2>3
  <2>5. Cardinality(Alive') <= deployment BY <2>4 DEF Calm, Enough
  <2> QED BY <1>2, <2>3, <2>4, <2>5, CalmStays
<1>9. ASSUME pod' = [pod EXCEPT ![p].state = "asking"],
             slot'["main"] # None => slot'["main"] = slot["main"]
      PROVE  Alive' = Alive /\ Pods'
  <2> DEFINE x == [pod[p] EXCEPT !.state = "asking"]
  <2>1. x \in Running /\ x.files = pod[p].files /\ x.state = "asking"
    BY <1>3 DEF Running
  <2>2. pod' = [pod EXCEPT ![p] = x] BY <1>1, <1>9 DEF TypeOK
  <2> HIDE DEF x
  <2> QED BY <1>6, <1>9, <2>1, <2>2
<1>10. ASSUME ~AlreadyBound(p), pod' = [pod EXCEPT ![p].state = "asking"], UNCHANGED redis,
              NEW step \in Spends \cup {"refuse"}, NEW u \in Token \cup {None},
              Serve(a, step, u, p, 0), step # "spend_main" => slot["main"] = None
       PROVE  Calm'
  <2>1. UNCHANGED slot /\ p \notin nodes BY <1>10 DEF redis, AlreadyBound
  <2>2. Alive' = Alive /\ Pods' BY <1>9, <1>10, <2>1
  <2>3. PICK r \in Requested :
          request' = [request EXCEPT ![a] = r] /\ r.step = step /\ r.pod = p
    BY <1>1, <1>10, ServeOK DEF Steps, Spends
  <2>4. Turned(a, r) BY <1>1, <2>3, TurnedOK
  <2>5. Served \subseteq Served' /\ Cardinality(Served) <= Cardinality(Served')
    BY <1>2, <1>4, <2>2, <2>4, ServedKept
  <2>6. Valid' = Valid BY <2>1 DEF Valid
  <2>7. Valid + Cardinality(Served) <= Valid' + Cardinality(Served')
    BY <2>5, <2>6, Sizes, NextSizes
  <2>8. Enough' BY <1>1, <1>2, <2>1, <2>2, <2>5, <2>7, EnoughKept DEF Calm
  <2>9. Quiet(r)' BY <1>2, <1>10, <2>1, <2>3 DEF Quiet, Spends
  <2> QED BY <1>2, <1>5, <2>1, <2>2, <2>4, <2>7, <2>8, <2>9, CalmTurn
<1>11. slot["main"] # None => t = slot["main"] /\ t # slot["replica"]
  BY <1>1, <1>2, <1>3 DEF Finds, Fresh
<1>12. t \in Token \cup {None}
  <2>1. Head(pod[p].left) \in Slot /\ pod[p].files \in File BY <1>2, <1>3 DEF Running
  <2> QED BY <2>1 DEF File
<1>13. CASE /\ ~AlreadyBound(p) /\ Holding(t) = {}
            /\ pod' = [pod EXCEPT ![p].state = "asking"]
            /\ Serve(a, "refuse", None, p, 0) /\ UNCHANGED redis
  <2>1. slot["main"] = None BY <1>11, <1>13 DEF Holding, Slot
  <2> HIDE DEF t
  <2> QED BY <1>10, <1>13, <2>1
<1>14. CASE /\ ~AlreadyBound(p) /\ \E s \in Holding(t) : Serve(a, Spending[s], t, p, 0)
            /\ pod' = [pod EXCEPT ![p].state = "asking"] /\ UNCHANGED redis
  <2> HIDE DEF t
  <2>1. PICK s \in Slot : slot[s] = t /\ Serve(a, Spending[s], t, p, 0)
    BY <1>14 DEF Holding
  <2>2. Spending[s] \in Spends BY DEF Spending, Spends, Slot
  <2>3. Spending[s] # "spend_main" => slot["main"] = None
    BY <1>11, <2>1 DEF Spending, Slot
  <2> QED BY <1>10, <1>12, <1>14, <2>1, <2>2, <2>3
<1> QED BY <1>7, <1>8, <1>13, <1>14 DEF Enroll

\* The token is spent, for a pod that had none.
LEMMA SpendCalm ==
  ASSUME DInv, Deployed, Kept, Calm, NEW a \in Api, NEW s \in Slot, Spend(a, s)
  PROVE  Calm'
<1>0. PICK q : q = request[a].pod OBVIOUS
<1>1. TypeOK /\ Requests BY DEF DInv, EInv
<1>2. /\ request[a].step = Spending[s] /\ slot' = [slot EXCEPT ![s] = None]
      /\ Serve(a, "bind", None, q, 0) /\ UNCHANGED <<nodes, deployment, pod>>
  BY <1>0 DEF Spend, At, kubernetes
<1>3. request[a].step \in Spends /\ request[a].step \in Asking
  BY <1>2 DEF Spending, Spends, Asking, Slot
<1>4. q \in Alive /\ q \in Pod /\ q \notin nodes
  BY <1>0, <1>3, AskerRuns DEF Calm, Quiet, Alive
<1>5. PICK r \in Requested :
        request' = [request EXCEPT ![a] = r] /\ r.step = "bind" /\ r.pod = q
  BY <1>1, <1>2, <1>4, ServeOK DEF Steps
<1>6. Turned(a, r) BY <1>1, <1>5, TurnedOK
<1>7. slot'[s] = None /\ \A u \in Slot \ {s} : slot'[u] = slot[u] BY <1>1, <1>2, SlotSet
<1>8. s = "replica" => slot["main"] = None BY <1>2 DEF Spending, Slot, Calm, Quiet, Spends
<1>9. slot'["main"] = None /\ slot'["replica"] \in {slot["replica"], None}
  BY <1>7, <1>8 DEF Slot
<1>10. Valid <= Valid' + 1 BY <1>7, <1>8 DEF Valid, Slot
<1>11. Alive' = Alive BY <1>2 DEF Alive
<1>12. Pods' BY <1>2, <1>9, <1>11 DEF Calm, Pods
<1>13. Served \subseteq Served'
  BY <1>2, <1>3, <1>6, <1>11, ServedKept DEF Spends
<1>14. q \in Served'
  <2>1. At(a, "bind")' /\ request'[a].pod = q BY <1>5, <1>6 DEF Turned, At
  <2>2. Binding(q)' BY <2>1 DEF Binding
  <2> QED BY <1>4, <1>11, <2>2 DEF Served
<1>15. q \notin Served
  <2>1. ASSUME NEW b \in Api, At(b, "bind"), request[b].pod = q PROVE FALSE
    <3>1. b # a BY <1>3, <2>1 DEF At, Spends
    <3> QED BY <1>0, <1>3, <2>1, <3>1, Different DEF At, Asking
  <2> QED BY <1>4, <2>1 DEF Served, Binding
<1>16. Cardinality(Served) + 1 <= Cardinality(Served')
  <2>1. /\ IsFiniteSet(Served \cup {q})
        /\ Cardinality(Served \cup {q}) = Cardinality(Served) + 1
    BY <1>15, Sizes, FS_AddElement
  <2>2. Served \cup {q} \subseteq Served' BY <1>13, <1>14
  <2> QED BY <2>1, <2>2, NextSizes, FS_Subset
<1>17. Valid + Cardinality(Served) <= Valid' + Cardinality(Served')
  <2>1. /\ Valid \in 0..2 /\ Cardinality(Served) \in Nat
        /\ Valid' \in 0..2 /\ Cardinality(Served') \in Nat
    BY Sizes, NextSizes
  <2>2. \A v, w \in 0..2, m, n \in Nat : v <= w + 1 /\ m + 1 <= n => v + m <= w + n
    OBVIOUS
  <2> QED BY <1>10, <1>16, <2>1, <2>2
<1>18. Served' # {} BY <1>14
<1>19. Enough' BY <1>1, <1>2, <1>11, <1>17, <1>18, EnoughKept DEF Calm
<1>20. Quiet(r)' BY <1>5, <1>9 DEF Quiet, Spends
<1>21. \A b \in Api : request[b].step \in Spends \cup {"refuse"} =>
                        request[b].pod \notin nodes'
  BY <1>2 DEF Calm, Quiet
<1> QED BY <1>6, <1>9, <1>12, <1>17, <1>19, <1>20, <1>21, CalmTurn

\* A pod is told its answer.
LEMMA AnswerCalm ==
  ASSUME DInv, Calm, NEW a \in Api, request[a].step \in {"bind", "refuse"},
         NEW ok \in BOOLEAN, Answered(request[a].pod, ok), Done(a),
         UNCHANGED <<slot, deployment>>,
         nodes' = IF ok THEN nodes \cup {request[a].pod} ELSE nodes,
         ok <=> request[a].step = "bind"
  PROVE  Calm'
<1> DEFINE q == request[a].pod
<1>1. TypeOK /\ Requests BY DEF DInv, EInv
<1>2. /\ q \in Pod /\ Alive' = Alive /\ q \in Alive
      /\ \A p \in Pod \ {q} : pod'[p] = pod[p]
      /\ pod'[q].state = IF ok THEN "bound" ELSE "trying"
  BY <1>1, AnsweredOK, AskerRuns DEF Asking
<1>3. Turned(a, Idle) BY <1>1, IdleOK, TurnedOK DEF Done
<1>4. slot["main"] = None BY DEF Calm, Quiet
<1>5. Pods'
  <2>1. q \in Alive' BY <1>2
  <2>2. pod'[q] # Dead BY <2>1 DEF Alive
  <2>3. pod'[q].state = "bound" => q \in nodes' BY <1>2
  <2>4. nodes \subseteq nodes' OBVIOUS
  <2> QED BY <1>2, <1>4, <2>2, <2>3, <2>4 DEF Calm, Pods
<1>6. Served \subseteq Served' /\ Cardinality(Served) <= Cardinality(Served')
  <2>1. Served \subseteq Served'
    <3> SUFFICES ASSUME NEW p \in Served PROVE p \in Served' OBVIOUS
    <3>1. p \in Alive' BY <1>2 DEF Served
    <3>2. CASE p \in nodes BY <3>1, <3>2 DEF Served
    <3>3. CASE Binding(p)
      <4>1. PICK b \in Api : At(b, "bind") /\ request[b].pod = p BY <3>3 DEF Binding
      <4>2. CASE b = a BY <3>1, <4>1, <4>2 DEF Served, At
      <4>3. CASE b # a
        <5>1. request'[b] = request[b] BY <1>3, <4>3 DEF Turned
        <5>2. Binding(p)' BY <4>1, <5>1 DEF Binding, At
        <5> QED BY <3>1, <5>2 DEF Served
      <4> QED BY <4>2, <4>3
    <3> QED BY <3>2, <3>3 DEF Served
  <2> QED BY <2>1, NextSizes, FS_Subset
<1>7. Valid' = Valid BY DEF Valid
<1>8. Valid + Cardinality(Served) <= Valid' + Cardinality(Served')
  BY <1>6, <1>7, Sizes, NextSizes
<1>9. Enough'
  <2>1. Served' # {} \/ Served = {} BY <1>6
  <2> QED BY <1>1, <1>2, <1>4, <1>8, <2>1, EnoughKept DEF Calm
<1>10. Quiet(Idle)' BY IdleOK DEF Quiet, Spends
<1>11. ASSUME NEW b \in Api \ {a}, request[b].step \in Spends \cup {"refuse"}
       PROVE  request[b].pod \notin nodes'
  <2>1. request[b].pod \notin nodes BY <1>11 DEF Calm, Quiet
  <2>2. request[b].pod # q BY <1>11, Different DEF Asking
  <2> QED BY <2>1, <2>2
<1> QED BY <1>3, <1>4, <1>5, <1>8, <1>9, <1>10, <1>11, CalmTurn

\* The key is bound, or the pod refused; no token is issued again.
LEMMA AnswersCalm ==
  ASSUME DInv, Calm, NEW a \in Api,
         Bind(a) \/ Refuse(a) \/ Reissue(a) \/ PatchMain(a)
  PROVE  Calm'
<1>1. CASE Bind(a)
  <2>1. /\ request[a].step = "bind" /\ Answered(request[a].pod, TRUE) /\ Done(a)
        /\ UNCHANGED <<slot, deployment>> /\ nodes' = nodes \cup {request[a].pod}
    BY <1>1 DEF Bind, At, kubernetes
  <2> QED BY <2>1, AnswerCalm
<1>2. CASE Refuse(a)
  <2>1. request[a].step = "refuse" /\ UNCHANGED <<slot, deployment, nodes>>
    BY <1>2 DEF Refuse, At, redis, kubernetes
  <2>2. Answered(request[a].pod, FALSE) /\ Done(a) BY <1>2, <2>1, NotReissued DEF Refuse
  <2> QED BY <2>1, <2>2, AnswerCalm
<1>3. CASE Reissue(a) \/ PatchMain(a)
  BY <1>3 DEF Reissue, PatchMain, At, Calm, Quiet
<1> QED BY <1>1, <1>2, <1>3

\* A pod changes, without becoming bound, and finds the first token while it is valid.
LEMMA PodCalm ==
  ASSUME DInv, Calm, NEW p \in Pod, NEW x \in Running, pod' = [pod EXCEPT ![p] = x],
         x.state = "bound" => p \in Alive /\ pod[p].state = "bound",
         slot["main"] # None => Finds(x),
         UNCHANGED <<slot, nodes, deployment, request>>,
         p \in Alive \/ Cardinality(Alive) < deployment
  PROVE  Calm'
<1>1. TypeOK BY DEF DInv, EInv
<1>2. pod'[p] = x /\ \A q \in Pod \ {p} : pod'[q] = pod[q]
  BY <1>1, PodSet DEF Process
<1>3. x # Dead /\ x # NoPod BY RunningOK
<1>4. Alive' = Alive \cup {p} BY <1>2, <1>3 DEF Alive
<1>5. Cardinality(Alive') <= deployment
  <2>1. deployment \in Nat /\ Cardinality(Alive) <= deployment
    BY <1>1 DEF TypeOK, Calm, Enough
  <2>2. CASE p \in Alive
    <3>1. Alive' = Alive BY <1>4, <2>2
    <3> QED BY <2>1, <3>1
  <2>3. CASE p \notin Alive
    <3>1. Cardinality(Alive') = Cardinality(Alive) + 1
      BY <1>4, <2>3, Sizes, FS_AddElement
    <3> QED BY <2>1, <2>3, <3>1, Sizes
  <2> QED BY <2>2, <2>3
<1>6. Pods'
  <2>1. slot'["main"] # None => Finds(x)' BY DEF Finds
  <2>2. x.state = "bound" => p \in nodes' BY DEF Calm, Pods
  <2> QED BY <1>2, <1>3, <1>4, <2>1, <2>2 DEF Calm, Pods, Finds
<1> QED BY <1>4, <1>5, <1>6, CalmStays

\* A pod starts, tries again or reads the Secret; none stops, and none dies.
LEMMA PodsCalm ==
  ASSUME DInv, Deployed, Kept, Calm, disturbed' = {}, NEW p \in Pod, PodActs(p)
  PROVE  Calm'
<1>1. TypeOK BY DEF DInv, EInv
<1>2. UNCHANGED <<slot, nodes, deployment, request>>
  BY DEF PodActs, PodStarts, PodStops, PodDies, ContainerRestarts, FilesRefresh, RoundEnds,
         Retry, redis, kubernetes
<1>3. deployment # 0 => (slot["main"] # None => secret # None /\ secret["main"] = slot["main"])
  BY MainInSecret
<1>4. CASE PodStarts(p)
  <2>1. /\ Cardinality(Alive) < deployment /\ secret # None
        /\ pod' = [pod EXCEPT ![p] = [state |-> "trying", files |-> secret,
                                      left |-> FilesOf(secret)]]
    BY <1>4 DEF PodStarts
  <2>2. secret \in File /\ deployment \in Nat BY <1>1, <2>1 DEF TypeOK
  <2>3. deployment # 0 BY <2>1, <2>2, Sizes
  <2> DEFINE x == [state |-> "trying", files |-> secret, left |-> FilesOf(secret)]
  <2>4. FilesOf(secret) \in Seq(Slot) BY <2>2, FilesOK
  <2>5. x \in Running BY <2>2, <2>4 DEF Running
  <2>6. ASSUME slot["main"] # None PROVE Finds(x)
    <3>1. secret["main"] = slot["main"] BY <1>3, <2>3, <2>6
    <3>2. Head(FilesOf(secret)) = "main" BY <2>2, <2>6, <3>1, FilesOK
    <3> QED BY <3>1, <3>2 DEF Finds
  <2>7. x.state # "bound" OBVIOUS
  <2>8. pod' = [pod EXCEPT ![p] = x] BY <2>1
  <2> HIDE DEF x
  <2> QED BY <1>2, <2>1, <2>5, <2>6, <2>7, <2>8, PodCalm
<1>5. ~PodStops(p) /\ ~PodDies(p)
  <2>1. Cardinality(Alive) <= deployment /\ deployment \in Nat
    BY <1>1 DEF Calm, Enough, TypeOK
  <2>2. ~PodStops(p) BY <2>1, Sizes DEF PodStops
  <2> QED BY <1>1, <2>2, BoundsOK DEF PodDies
<1>6. CASE ContainerRestarts(p) \/ FilesRefresh(p) \/ RoundEnds(p) \/ Retry(p)
  <2>1. p \in Alive /\ (NewRound(p) \/ GivesUp(p) \/ FilesRefresh(p))
    BY <1>6 DEF ContainerRestarts, FilesRefresh, RoundEnds, Retry
  <2>2. deployment # 0 BY <2>1, Somebody
  <2>3. pod[p] \in Running BY <1>1, <2>1, AliveOK
  <2>4. slot["main"] # None => Finds(pod[p]) BY <2>1 DEF Calm, Pods
  <2>5. pod[p].files \in File /\ <<>> \in Seq(Slot) BY <2>3 DEF Running
  <2>6. CASE NewRound(p)
    <3> DEFINE x == [pod[p] EXCEPT !.state = "trying", !.left = FilesOf(pod[p].files)]
    <3>1. FilesOf(pod[p].files) \in Seq(Slot) BY <2>5, FilesOK
    <3>2. /\ x \in Running /\ x.state = "trying" /\ x.files = pod[p].files
          /\ x.left = FilesOf(pod[p].files)
      BY <2>3, <3>1 DEF Running
    <3>3. pod' = [pod EXCEPT ![p] = x] BY <1>1, <2>6 DEF NewRound, TypeOK
    <3> HIDE DEF x
    <3>4. slot["main"] # None => Finds(x) BY <2>4, <2>5, <3>2, FilesOK DEF Finds
    <3> QED BY <1>2, <2>1, <3>2, <3>3, <3>4, PodCalm
  <2>7. CASE GivesUp(p)
    <3> DEFINE x == [pod[p] EXCEPT !.state = "waiting", !.left = <<>>]
    <3>1. x \in Running /\ x.state = "waiting" /\ x.files = pod[p].files
      BY <2>3, <2>5 DEF Running
    <3>2. pod' = [pod EXCEPT ![p] = x] BY <1>1, <2>7 DEF GivesUp, TypeOK
    <3> HIDE DEF x
    <3>3. slot["main"] # None => Finds(x) BY <2>4, <3>1 DEF Finds
    <3> QED BY <1>2, <2>1, <3>1, <3>2, <3>3, PodCalm
  <2>8. CASE FilesRefresh(p)
    <3>1. secret # None /\ pod' = [pod EXCEPT ![p].files = secret]
      BY <2>8 DEF FilesRefresh
    <3>2. secret \in File BY <1>1, <3>1 DEF TypeOK
    <3> DEFINE x == [pod[p] EXCEPT !.files = secret]
    <3>3. /\ x \in Running /\ x.state = pod[p].state /\ x.files = secret
          /\ x.left = pod[p].left
      BY <2>3, <3>2 DEF Running
    <3>4. pod' = [pod EXCEPT ![p] = x] BY <1>1, <3>1 DEF TypeOK
    <3> HIDE DEF x
    <3>5. slot["main"] # None => Finds(x) BY <1>3, <2>2, <2>4, <3>3 DEF Finds
    <3> QED BY <1>2, <2>1, <3>3, <3>4, <3>5, PodCalm
  <2> QED BY <2>1, <2>6, <2>7, <2>8
<1> QED BY <1>4, <1>5, <1>6 DEF PodActs

\* ENROLL_TOKEN_TTL: a token that nobody waits for is one too many.
LEMMA ExpiresCalm ==
  ASSUME DInv, Deployed, Kept, Calm, disturbed' = {}, NEW s \in Slot,
         TokenExpires(s) \/ TokenExpiresEarly(s)
  PROVE  Calm'
<1>1. TypeOK BY DEF DInv, EInv
<1>2. ~Raises BY <1>1, BoundsOK
<1>3. /\ slot[s] # None /\ ~Awaited(slot[s]) /\ slot' = [slot EXCEPT ![s] = None]
      /\ UNCHANGED <<nodes, deployment, pod, request>>
  BY <1>2 DEF TokenExpires, TokenExpiresEarly, kubernetes
<1>4. \A b \in Api : request[b].token # slot[s] BY <1>3 DEF Awaited
<1>5. secret # None /\ secret[s] = slot[s]
  <2>1. Found(s) BY DEF Kept
  <2>2. \A b \in Api : ~Delivers(request[b], s) BY <1>4 DEF Kept, Carried
  <2> QED BY <1>3, <2>1, <2>2 DEF Found
<1>6. deployment # 0
  <2> SUFFICES ASSUME deployment = 0 PROVE FALSE OBVIOUS
  <2>1. slot["replica"] = None /\ \E b \in Api : At(b, "create_deployment")
    BY <1>5 DEF Kept, Untaken
  <2>2. s = "main" BY <1>3, <2>1 DEF Slot
  <2> QED BY <1>4, <2>1, <2>2 DEF Kept, Carried, At
<1>7. Unbound = {} /\ ~(Cardinality(Alive) < deployment) BY <1>3, <1>5 DEF Awaited
<1>8. deployment <= Cardinality(Alive) BY <1>1, <1>7, Sizes DEF TypeOK
<1>9. Alive \subseteq nodes /\ Served = Alive
  <2>1. \A p \in Alive : pod[p].state = "bound" BY <1>7 DEF Unbound
  <2>2. Alive \subseteq nodes BY <2>1 DEF Calm, Pods, Alive
  <2> QED BY <2>2 DEF Served
<1>10. slot["main"] = None
  <2> SUFFICES ASSUME slot["main"] # None PROVE FALSE OBVIOUS
  <2>1. Alive = {} BY <1>9 DEF Calm
  <2>2. Cardinality(Alive) = 0 BY <2>1, FS_EmptySet
  <2> QED BY <1>1, <1>6, <1>8, <2>2 DEF TypeOK
<1>11. s = "replica" /\ slot'["main"] = slot["main"]
  BY <1>1, <1>3, <1>10, SlotSet DEF Slot
<1>12. Alive' = Alive /\ Served' = Served
  BY <1>3 DEF Alive, Served, Binding, At
<1>13. Enough'
  <2>1. deployment' <= Valid' + Cardinality(Served')
    BY <1>1, <1>3, <1>8, <1>9, <1>12, Sizes, NextSizes DEF TypeOK
  <2>2. Served' # {} BY <1>6, <1>10, <1>12 DEF Calm, Enough
  <2> QED BY <1>3, <1>12, <2>1, <2>2 DEF Calm, Enough
<1>14. Pods' BY <1>3, <1>10, <1>11, <1>12 DEF Calm, Pods
<1>15. ASSUME NEW b \in Api PROVE Quiet(request[b])'
  <2>1. Quiet(request[b]) /\ request[b].token # slot["replica"]
    BY <1>4, <1>11 DEF Calm
  <2>2. request[b].step # "scale" BY <1>3, <1>11, <2>1 DEF Quiet
  <2> QED BY <1>3, <1>11, <2>1, <2>2 DEF Quiet
<1> QED BY <1>10, <1>11, <1>13, <1>14, <1>15 DEF Calm

\* All is calm after every step that is not a failure, a removal, the end of a team or
\* another registration.
LEMMA CalmStep ==
  ASSUME DInv, Deployed, Kept, Calm, DInv', Deployed', Kept', [Next]_vars,
         disturbed' = {}
  PROVE  Calm'
<1>1. CASE \E a \in Api : Register(a) \/ CreateSecret(a) \/ CreateDeployment(a)
  BY <1>1, CreateCalm
<1>2. CASE \E a \in Api : Unregister(a) \/ Remove(a) \/ RemoveSecret(a)
  BY <1>2 DEF Unregister, Remove, RemoveSecret, Kept, Carried, At
<1>3. CASE \E a \in Api : \/ PatchReplica(a) \/ Scale(a)
                          \/ \E n \in 1..2 : ScaleCoordinator(a, n)
  BY <1>3, ScaleCalm
<1>4. CASE \E a \in Api : \/ Bind(a) \/ Refuse(a) \/ Reissue(a) \/ PatchMain(a)
                          \/ \E p \in Pod : Enroll(a, p)
                          \/ \E s \in Slot : Spend(a, s)
  BY <1>4, AnswersCalm, EnrollCalm, SpendCalm
<1>5. CASE \/ \E p \in Pod : PodActs(p)
           \/ \E s \in Slot : TokenExpires(s) \/ TokenExpiresEarly(s)
  BY <1>5, PodsCalm, ExpiresCalm
<1>6. CASE UNCHANGED vars
  <2>1. UNCHANGED <<slot, nodes, deployment, request, pod>> BY <1>6 DEF vars
  <2>2. Alive' = Alive BY <2>1 DEF Alive
  <2>3. Pods' /\ Cardinality(Alive') <= deployment
    BY <2>1, <2>2 DEF Calm, Pods, Finds, Enough
  <2> QED BY <2>1, <2>2, <2>3, CalmStays
<1> QED BY <1>1, <1>2, <1>3, <1>4, <1>5, <1>6 DEF Next, Handle, PodActs

\* As long as nothing unusual happens no token is issued again, for any number of pods,
\* refusals at once and processes that restart.
THEOREM TwoAreEnough == Spec => []NoNeedlessReissue
<1>1. Init => KInv
  <2> SUFFICES ASSUME Init PROVE KInv OBVIOUS
  <2>1. DInv /\ Kept BY InitPlaced, InitKept
  <2>2. /\ Alive = {} /\ deployment = 0 /\ \A a \in Api : request[a].step = "idle"
        /\ slot["main"] = None
    BY DEF Init, Alive, Idle, Slot
  <2>3. Enough
    <3>1. Cardinality({}) = 0 BY FS_EmptySet
    <3> QED BY <2>2, <3>1, Sizes DEF Enough
  <2>4. Pods BY <2>2, RunningOK DEF Pods, Init
  <2>5. \A a \in Api : Quiet(request[a]) BY <2>2 DEF Quiet, Spends
  <2> QED BY <2>1, <2>2, <2>3, <2>4, <2>5 DEF KInv, Calm
<1>2. KInv /\ [Next]_vars => KInv'
  <2> SUFFICES ASSUME KInv, [Next]_vars PROVE KInv' OBVIOUS
  <2>1. DInv' BY DStep DEF KInv
  <2>2. ASSUME Undisturbed' PROVE Deployed /\ Kept'
    <3>1. DInv /\ Kept /\ Undisturbed BY <2>2, Grows DEF KInv
    <3>2. Deployed BY <3>1, Intact
    <3> QED BY <2>2, <3>1, <3>2, KeptStep
  <2>3. DInv' /\ Kept' /\ Undisturbed' => Deployed' BY Intact, PTL
  <2>4. ASSUME disturbed' = {} PROVE Calm'
    <3>1. disturbed = {} /\ Undisturbed /\ Undisturbed'
      BY <2>4, Grows DEF Undisturbed
    <3>2. DInv /\ Kept /\ Calm BY <3>1 DEF KInv
    <3> QED BY <2>1, <2>2, <2>3, <2>4, <3>1, <3>2, CalmStep
  <2> QED BY <2>1, <2>2, <2>4 DEF KInv
<1>3. KInv => NoNeedlessReissue BY DEF KInv, Calm, Quiet, NoNeedlessReissue, At
<1> QED BY <1>1, <1>2, <1>3, PTL DEF Spec
=============================================================================
