---------------------------- MODULE NodeEnrollment -----------------------------
(***************************************************************************)
(* How the pods of a registered miner come to be known as its owner's      *)
(* (voxchain_api/routers/workers.py, worker_pkg/identity.py).              *)
(*                                                                         *)
(* Registering a miner leaves a single-use token in Redis and in a Secret, *)
(* and starts a Deployment.  A pod makes a key of its own and presents the *)
(* tokens it finds in the Secret mounted as files; one that the API        *)
(* accepts binds its key to the owner.  A miner that coordinates a team    *)
(* has a second pod and a second token.  A pod that replaces another finds *)
(* its tokens spent: its refusal makes the API put a new one in the        *)
(* Secret, and it tries again.                                             *)
(*                                                                         *)
(* The API serves several requests at once, in one replica or several.  A  *)
(* request is modelled by its calls to Redis and Kubernetes: what lies     *)
(* between two Kubernetes calls is one step.                               *)
(***************************************************************************)
EXTENDS Naturals, Sequences, FiniteSets

CONSTANTS
  Api,            \* places for requests in progress at once, in any replica
  Pod,            \* the pods of the miner, one after the other; also their keys
  None,
  Token,          \* token values, taken again when nobody has them any more
  MaxRequests,    \* bound on the requests of the owner
  MaxEvents       \* bound on the restarts, deaths, expiries and failed calls

Slot == {"main", "replica"}   \* ENROLL_KEY, ENROLL_REPLICA_KEY

VARIABLES
  registered,  \* worker:owner, in Redis
  nodes,       \* worker:node_pubkeys (and node:owner): the keys bound to it
  slot,        \* the tokens that are valid: worker:enroll[:replica]
  secret,      \* the tokens in the Secret, None when there is no Secret
  deployment,  \* the replicas of its Deployment, 0 when there is none
  pod,         \* what each pod is doing
  request,     \* the requests the API is serving
  requests, events,
  disturbed    \* history: what has happened besides registering and founding;
               \* "again": this Deployment's miner was registered once more;
               \* "crossed": a token was deleted in place of another

vars == <<registered, nodes, slot, secret, deployment, pod, request, requests,
          events, disturbed>>
redis == <<registered, nodes, slot>>
kubernetes == <<secret, deployment>>
bounds == <<requests, events, disturbed>>

Idle == [step |-> "idle", token |-> None, pod |-> None, replicas |-> 0]
NoPod == [state |-> "none"]
Dead == [state |-> "dead"]
File == [Slot -> Token \cup {None}]

\* There is always a token that nobody has.
ASSUME EnrollmentAssumption ==
  /\ IsFiniteSet(Api) /\ IsFiniteSet(Pod) /\ None \notin Pod \cup Token \cup File
  /\ IsFiniteSet(Token) => Cardinality(Token) > 4 + Cardinality(Api) + 2 * Cardinality(Pod)
  /\ MaxRequests \in Nat /\ MaxEvents \in Nat

\* files: the Secret as mounted.  left: the slots still to be tried in a round.
Running == [state : {"trying", "asking", "waiting", "bound"}, files : File,
            left : Seq(Slot)]
Spending == [main |-> "spend_main", replica |-> "spend_replica"]
Steps == {"idle", "create_secret", "create_deployment", "remove",
          "remove_secret", "patch_replica", "scale", "spend_main", "spend_replica",
          "bind", "refuse", "reissue", "patch_main"}
Disturbances == {"failure", "dissolved", "removed", "again", "crossed"}

TypeOK ==
  /\ registered \in BOOLEAN /\ nodes \subseteq Pod /\ slot \in File
  /\ secret \in File \cup {None} /\ deployment \in 0..2
  /\ pod \in [Pod -> Running \cup {NoPod, Dead}]
  /\ request \in [Api -> [step : Steps, token : Token \cup {None}, pod : Pod \cup {None},
                          replicas : 0..2]]
  /\ requests \in 0..MaxRequests /\ events \in 0..MaxEvents
  /\ disturbed \subseteq Disturbances

-----------------------------------------------------------------------------
Alive == {p \in Pod : pod[p] \notin {NoPod, Dead}}
Unbound == {p \in Alive : pod[p].state # "bound"}

\* A value nobody has: tokens are random, so a new one is never an old one.
InUse ==
  {slot[s] : s \in Slot}
    \cup {secret[s] : s \in IF secret = None THEN {} ELSE Slot}
    \cup {pod[p].files[s] : p \in Alive, s \in Slot}
    \cup {request[a].token : a \in Api}
NewToken == CHOOSE t \in Token : t \notin InUse

\* Bounded: what need not happen.
Happens == events < MaxEvents /\ events' = events + 1

At(a, step) == request[a].step = step
Serve(a, step, t, p, n) ==
  request' = [request EXCEPT ![a] = [step |-> step, token |-> t, pod |-> p, replicas |-> n]]
GoOn(a, step) == request' = [request EXCEPT ![a].step = step]
Done(a) == request' = [request EXCEPT ![a] = Idle]

\* A call to Kubernetes works or, when something happens, raises.
Works(calls) == calls /\ UNCHANGED <<events, disturbed>>
Raises == Happens /\ disturbed' = disturbed \cup {"failure"}

Init ==
  /\ registered = FALSE /\ nodes = {} /\ slot = [s \in Slot |-> None]
  /\ secret = None /\ deployment = 0
  /\ pod = [p \in Pod |-> NoPod] /\ request = [a \in Api |-> Idle]
  /\ requests = 0 /\ events = 0 /\ disturbed = {}

-----------------------------------------------------------------------------
\* The owner, who waits for the answer of a request before the next one.
OwnerWaits == \E a \in Api : request[a] # Idle /\ request[a].pod = None
OwnerAsks(a) ==
  /\ request[a] = Idle
  /\ ~OwnerWaits
  /\ requests < MaxRequests /\ requests' = requests + 1

\* persist_worker_registration: checks, registered_workers, worker:owner,
\* _clear_node_binding and _issue_enrollment_token, also for a miner that is
\* deployed already
Register(a) ==
  /\ OwnerAsks(a)
  /\ registered' = TRUE /\ nodes' = {}
  /\ slot' = [slot EXCEPT !["main"] = NewToken]
  /\ Serve(a, "create_secret", NewToken, None, 0)
  /\ disturbed' = disturbed \cup {d \in {"again"} : deployment # 0}
  /\ UNCHANGED <<kubernetes, pod, events>>

\* _spawn_k8s_worker.  Any failure, also that the object exists already,
\* deletes the Secret, whoever made it; the caller deletes the token.
SpawnFails(a) ==
  /\ secret' = None
  /\ slot' = [slot EXCEPT !["main"] = None]
  /\ Done(a)
  /\ UNCHANGED <<registered, nodes, deployment>>

CreateSecret(a) ==
  /\ At(a, "create_secret")
  /\ \/ /\ Works(secret = None)
        /\ secret' = [s \in Slot |-> IF s = "main" THEN request[a].token ELSE None]
        /\ GoOn(a, "create_deployment")
        /\ UNCHANGED <<redis, deployment>>
     \/ Works(secret # None) /\ SpawnFails(a)
     \/ Raises /\ SpawnFails(a)
  /\ UNCHANGED <<pod, requests>>

CreateDeployment(a) ==
  /\ At(a, "create_deployment")
  /\ \/ /\ Works(deployment = 0)
        /\ deployment' = 1 /\ Done(a) /\ UNCHANGED <<redis, secret>>
     \/ Works(deployment # 0) /\ SpawnFails(a)
     \/ Raises /\ SpawnFails(a)
  /\ UNCHANGED <<pod, requests>>

\* unregister_worker: the metadata, then _delete_k8s_worker, whose failures are
\* only logged (and are not modelled: the objects would stay).
UnregisterForgets(a) ==
  /\ OwnerAsks(a)
  /\ registered
  /\ registered' = FALSE /\ nodes' = {} /\ slot' = [s \in Slot |-> None]
  /\ Serve(a, "remove_secret", None, None, 0)
  /\ disturbed' = (disturbed \ {"again"}) \cup {"removed"}
  /\ UNCHANGED <<kubernetes, pod, events>>
Unregister(a) ==
  /\ OwnerAsks(a)
  /\ registered
  /\ registered' = FALSE /\ nodes' = {} /\ slot' = [s \in Slot |-> None]
  /\ Serve(a, "remove", None, None, 0)
  /\ disturbed' = (disturbed \ {"again"}) \cup {"removed"}
  /\ UNCHANGED <<kubernetes, pod, events>>

Remove(a) ==
  /\ At(a, "remove")
  /\ deployment' = 0
  /\ pod' = [p \in Pod |-> IF p \in Alive THEN Dead ELSE pod[p]]
  /\ GoOn(a, "remove_secret")
  /\ UNCHANGED <<redis, secret, bounds>>

RemoveSecret(a) ==
  /\ At(a, "remove_secret")
  /\ secret' = None
  /\ Done(a)
  /\ UNCHANGED <<redis, deployment, pod, bounds>>

\* scale_k8s_coordinator, when a team is founded (2) and dissolved (1)
ScaleBesides(a, n) ==
  /\ OwnerAsks(a)
  /\ registered /\ deployment # 0
  /\ IF n = 2
     THEN /\ slot' = [slot EXCEPT !["replica"] = NewToken]
          /\ Serve(a, "patch_replica", NewToken, None, n + 1)
     ELSE /\ UNCHANGED slot
          /\ Serve(a, "scale", None, None, n)
  /\ disturbed' = disturbed \cup {d \in {"dissolved"} : n = 1}
  /\ UNCHANGED <<registered, nodes, kubernetes, pod, events>>
ScaleCoordinator(a, n) ==
  /\ OwnerAsks(a)
  /\ registered /\ deployment # 0
  /\ IF n = 2
     THEN /\ slot' = [slot EXCEPT !["replica"] = NewToken]
          /\ Serve(a, "patch_replica", NewToken, None, n)
     ELSE /\ UNCHANGED slot
          /\ Serve(a, "scale", None, None, n)
  /\ disturbed' = disturbed \cup {d \in {"dissolved"} : n = 1}
  /\ UNCHANGED <<registered, nodes, kubernetes, pod, events>>

PatchReplica(a) ==
  /\ At(a, "patch_replica")
  /\ \/ /\ Works(secret # None)
        /\ secret' = [secret EXCEPT !["replica"] = request[a].token]
        /\ UNCHANGED slot
     \/ /\ Works(secret = None) \/ Raises
        /\ slot' = [slot EXCEPT !["replica"] = None]
        /\ UNCHANGED secret
  /\ GoOn(a, "scale")
  /\ UNCHANGED <<registered, nodes, deployment, pod, requests>>

Scale(a) ==
  /\ At(a, "scale")
  /\ \/ /\ Works(TRUE)
        /\ deployment' = IF deployment = 0 THEN 0 ELSE request[a].replicas
     \/ Raises /\ UNCHANGED deployment
  /\ Done(a)
  /\ UNCHANGED <<redis, secret, pod, requests>>

-----------------------------------------------------------------------------
\* The pods.

FilesOf(files) ==
  (IF files["main"] # None THEN <<"main">> ELSE <<>>)
    \o (IF files["replica"] # None THEN <<"replica">> ELSE <<>>)

\* enroll: the tokens are read again for each round.
NewRound(p) ==
  pod' = [pod EXCEPT ![p].state = "trying", ![p].left = FilesOf(pod[p].files)]

\* The Deployment keeps as many pods as it says; a pod needs its Secret to
\* start.  The key is new (_load_or_create): it lives as long as the pod.
PodStarts(p) ==
  /\ pod[p] = NoPod
  /\ Cardinality(Alive) < deployment /\ secret # None
  /\ pod' = [pod EXCEPT ![p] = [state |-> "trying", files |-> secret,
                                left |-> FilesOf(secret)]]
  /\ UNCHANGED <<redis, kubernetes, request, bounds>>

PodStops(p) ==
  /\ p \in Alive /\ Cardinality(Alive) > deployment
  /\ pod' = [pod EXCEPT ![p] = Dead]
  /\ UNCHANGED <<redis, kubernetes, request, bounds>>

PodDies(p) ==
  /\ p \in Alive
  /\ Raises
  /\ pod' = [pod EXCEPT ![p] = Dead]
  /\ UNCHANGED <<redis, kubernetes, request, requests>>

\* The process starts again in the same pod, with the same key.
ContainerRestarts(p) ==
  /\ p \in Alive /\ pod[p].state # "asking"
  /\ Happens
  /\ NewRound(p)
  /\ UNCHANGED <<redis, kubernetes, request, requests, disturbed>>

\* Kubernetes updates the files of a mounted Secret.
FilesFixed(p) == FALSE
FilesRefresh(p) ==
  /\ p \in Alive /\ secret # None /\ pod[p].files # secret
  /\ pod' = [pod EXCEPT ![p].files = secret]
  /\ UNCHANGED <<redis, kubernetes, request, bounds>>

Answered(p, ok) ==
  pod' = IF p \notin Alive THEN pod
         ELSE [pod EXCEPT ![p].state = IF ok THEN "bound" ELSE "trying",
                          ![p].left = IF ok THEN <<>> ELSE Tail(@)]
GivesUp(p) == pod' = [pod EXCEPT ![p].state = "waiting", ![p].left = <<>>]

\* enroll: the next token.  enroll_node: the checks, up to the GET of the token.
Holding(t) == {s \in Slot : slot[s] = t}

AlreadyBoundNever(p) == FALSE
AlreadyBound(p) == p \in nodes

Enroll(a, p) ==
  /\ request[a] = Idle
  /\ p \in Alive /\ pod[p].state = "trying" /\ pod[p].left # <<>>
  /\ LET t == pod[p].files[Head(pod[p].left)]
     IN  \/ /\ ~registered                         \* 404: no other token will do
            /\ GivesUp(p)
            /\ UNCHANGED <<redis, request>>
         \/ /\ registered /\ AlreadyBound(p)
            /\ Answered(p, TRUE)
            /\ UNCHANGED <<redis, request>>
         \/ /\ registered /\ ~AlreadyBound(p)
            /\ \E s \in Holding(t) : Serve(a, Spending[s], t, p, 0)
            /\ pod' = [pod EXCEPT ![p].state = "asking"]
            /\ UNCHANGED redis
         \/ /\ registered /\ ~AlreadyBound(p) /\ Holding(t) = {}
            /\ pod' = [pod EXCEPT ![p].state = "asking"]
            /\ Serve(a, "refuse", None, p, 0)
            /\ UNCHANGED redis
  /\ UNCHANGED <<kubernetes, bounds>>

\* The round is over; enroll_until_bound waits for the next one.
RoundEnds(p) ==
  /\ p \in Alive /\ pod[p].state = "trying" /\ pod[p].left = <<>>
  /\ GivesUp(p)
  /\ UNCHANGED <<redis, kubernetes, request, bounds>>

Retry(p) ==
  /\ p \in Alive /\ pod[p].state = "waiting"
  /\ NewRound(p)
  /\ UNCHANGED <<redis, kubernetes, request, bounds>>

\* _consume_enrollment_token: the key is deleted, with whatever it holds by now.
Spend(a, s) ==
  /\ At(a, Spending[s])
  /\ slot' = [slot EXCEPT ![s] = None]
  /\ Serve(a, "bind", None, request[a].pod, 0)
  /\ disturbed' = disturbed \cup
                    {d \in {"crossed"} : slot[s] \notin {None, request[a].token}}
  /\ UNCHANGED <<registered, nodes, kubernetes, pod, requests, events>>

Bind(a) ==
  /\ At(a, "bind")
  /\ nodes' = nodes \cup {request[a].pod}
  /\ Answered(request[a].pod, TRUE)
  /\ Done(a)
  /\ UNCHANGED <<registered, slot, kubernetes, bounds>>

\* reissue_enrollment_token: not if there is a valid token in either slot.  The
\* Deployment is read between the two.
MayReissue == slot["replica"] = None /\ deployment # 0

Refuse(a) ==
  /\ At(a, "refuse")
  /\ \/ /\ MayReissue
        /\ GoOn(a, "reissue")
        /\ UNCHANGED pod
     \/ /\ ~MayReissue
        /\ Answered(request[a].pod, FALSE) /\ Done(a)
  /\ UNCHANGED <<redis, kubernetes, bounds>>

Reissue(a) ==
  /\ At(a, "reissue")
  /\ \/ /\ slot["main"] = None
        /\ slot' = [slot EXCEPT !["main"] = NewToken]
        /\ Serve(a, "patch_main", NewToken, request[a].pod, 0)
        /\ UNCHANGED pod
     \/ /\ slot["main"] # None
        /\ Answered(request[a].pod, FALSE) /\ Done(a)
        /\ UNCHANGED slot
  /\ UNCHANGED <<registered, nodes, kubernetes, bounds>>

PatchMainKeepsToken(a) ==
  /\ At(a, "patch_main")
  /\ \/ /\ Works(secret # None)
        /\ secret' = [secret EXCEPT !["main"] = request[a].token]
        /\ UNCHANGED slot
     \/ /\ Works(secret = None) \/ Raises
        /\ UNCHANGED <<slot, secret>>
  /\ Answered(request[a].pod, FALSE)
  /\ Done(a)
  /\ UNCHANGED <<registered, nodes, deployment, requests>>
PatchMain(a) ==
  /\ At(a, "patch_main")
  /\ \/ /\ Works(secret # None)
        /\ secret' = [secret EXCEPT !["main"] = request[a].token]
        /\ UNCHANGED slot
     \/ /\ Works(secret = None) \/ Raises
        /\ slot' = [slot EXCEPT !["main"] = None]
        /\ UNCHANGED secret
  /\ Answered(request[a].pod, FALSE)
  /\ Done(a)
  /\ UNCHANGED <<registered, nodes, deployment, requests>>

-----------------------------------------------------------------------------
\* A token lasts ENROLL_TOKEN_TTL (900 s): longer than the refresh of a Secret
\* and the longest wait of a pod together, so who has it in its files, or is
\* about to, tries it before it expires, unless it came late.
Awaited(t) ==
  \/ \E a \in Api : request[a].token = t
  \/ /\ Unbound # {} \/ Cardinality(Alive) < deployment
     /\ secret # None /\ \E s \in Slot : secret[s] = t
  \/ \E p \in Unbound, s \in Slot : pod[p].files[s] = t

TokenExpires(s) ==
  /\ slot[s] # None /\ ~Awaited(slot[s])
  /\ slot' = [slot EXCEPT ![s] = None]
  /\ UNCHANGED <<registered, nodes, kubernetes, pod, request, bounds>>

TokenExpiresEarly(s) ==
  /\ slot[s] # None /\ Awaited(slot[s])
  /\ \A a \in Api : request[a].token # slot[s]
  /\ Raises
  /\ slot' = [slot EXCEPT ![s] = None]
  /\ UNCHANGED <<registered, nodes, kubernetes, pod, request, requests>>

Handle(a) ==
  \/ CreateSecret(a) \/ CreateDeployment(a) \/ Remove(a) \/ RemoveSecret(a)
  \/ PatchReplica(a) \/ Scale(a) \/ Bind(a) \/ Refuse(a) \/ Reissue(a)
  \/ PatchMain(a) \/ \E s \in Slot : Spend(a, s)

Next ==
  \/ \E a \in Api : \/ Register(a) \/ Unregister(a) \/ Handle(a)
                    \/ \E n \in 1..2 : ScaleCoordinator(a, n)
                    \/ \E p \in Pod : Enroll(a, p)
  \/ \E p \in Pod : \/ PodStarts(p) \/ PodStops(p) \/ PodDies(p)
                    \/ ContainerRestarts(p) \/ FilesRefresh(p)
                    \/ RoundEnds(p) \/ Retry(p)
  \/ \E s \in Slot : TokenExpires(s) \/ TokenExpiresEarly(s)

\* A request in progress is finished; a pod keeps trying and is served; files
\* are refreshed and tokens expire.
Fairness ==
  /\ \A a \in Api : WF_vars(Handle(a))
  /\ \A p \in Pod : /\ SF_vars(\E a \in Api : Enroll(a, p))
                    /\ WF_vars(RoundEnds(p)) /\ WF_vars(Retry(p))
                    /\ WF_vars(FilesRefresh(p))
  /\ \A s \in Slot : WF_vars(TokenExpires(s))

Spec == Init /\ [][Next]_vars /\ Fairness

-----------------------------------------------------------------------------
\* Properties.

\* A deployed miner has its Secret, without which a pod cannot start and the API
\* has nowhere to leave a token, whatever fails and whoever is served meanwhile.
\* Registering it again takes the Secret away, and nothing gives it back while
\* the Deployment lasts; removing it leaves no Deployment without a Secret behind
\* (_spawn_k8s_worker, _delete_k8s_worker).
DeploymentHasSecret ==
  deployment # 0 /\ ~OwnerWaits =>
    (secret = None <=> "again" \in disturbed)

\* As long as nothing unusual happens two tokens are enough for two pods: none
\* has to be issued again, however often a process restarts, because whoever
\* is bound spends none (enroll_node, reissue_enrollment_token).
NoNeedlessReissue ==
  disturbed = {} => \A a \in Api : ~At(a, "patch_main")

\* When no request is in progress a token that is valid is in the Secret, where
\* the pods can find it, whatever failed and whoever asked at once
\* (reissue_enrollment_token, scale_k8s_coordinator).  A refusal still at work
\* when the miner is removed and registered anew may put its own in; a miner
\* registered twice has no Secret; and of two refusals whose tokens take each
\* other's place the one that was deleted may be the last in the Secret.
ValidIsInSecret ==
  (\A a \in Api : request[a] = Idle) /\ disturbed \cap {"removed", "again", "crossed"} = {} =>
    \A s \in Slot : slot[s] # None => secret # None /\ secret[s] = slot[s]

\* Every pod that goes on running is bound to the owner of its miner in the
\* end, whatever it finds in its files (enroll_until_bound), unless the miner is
\* removed, or registered again over its Deployment.
PodsGetBound ==
  \A p \in Pod :
    p \in Alive ~> (p \in nodes \/ p \notin Alive \/ ~registered \/ "again" \in disturbed)
=============================================================================
