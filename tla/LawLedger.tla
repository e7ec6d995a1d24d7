------------------------------ MODULE LawLedger ------------------------------
(***************************************************************************)
(* What the network promises to whoever reads its record: the windows laws *)
(* were put to the vote in, the chain, and the verdict on each law.  It    *)
(* knows nothing of processes, leases, queues or handlers.                 *)
(***************************************************************************)
EXTENDS Naturals, Sequences

CONSTANTS Law, NoLaw, MaxWindows

VARIABLES
  window,   \* window:<id>
  chain,
  verdict   \* what the status of each law says of it

ledger == <<window, chain, verdict>>

Kind == {"promulgacion", "derogacion"}
Empty == [law |-> NoLaw, action |-> "promulgacion", result |-> "open"]
Outcome == {"success", "expired_pending", "expired_no_quorum"}

Init ==
  /\ window = [w \in 1..MaxWindows |-> Empty]
  /\ chain = <<>>
  /\ verdict = [l \in Law |-> "pending"]

HasBlock(w) == \E i \in DOMAIN chain : chain[i].win = w
Voted(l, a) == \E i \in DOMAIN chain : chain[i].law = l /\ chain[i].action = a

\* A law is put to the vote in a window of its own, and what is voted there does
\* not change any more.
OpenWindow(w, l, a) ==
  /\ window[w].law = NoLaw
  /\ window' = [window EXCEPT ![w] = [law |-> l, action |-> a, result |-> "open"]]
  /\ UNCHANGED <<chain, verdict>>

\* Somebody found a nonce: a block follows the last one.
AppendBlock(w) ==
  /\ window[w].law # NoLaw
  /\ chain' = Append(chain, [prev |-> Len(chain), win |-> w,
                             law |-> window[w].law, action |-> window[w].action])
  /\ UNCHANGED <<window, verdict>>

CloseWindow(w, r) ==
  /\ window[w].law # NoLaw
  /\ r = "success" => HasBlock(w)
  /\ window' = [window EXCEPT ![w].result = r]
  /\ UNCHANGED <<chain, verdict>>

\* Only the chain decides; a law that is voted again is pending meanwhile.
Judge(l, v) ==
  /\ v = "promulgated" => Voted(l, "promulgacion")
  /\ v = "repealed" => Voted(l, "derogacion")
  /\ verdict' = [verdict EXCEPT ![l] = v]
  /\ UNCHANGED <<window, chain>>

Next ==
  \/ \E w \in 1..MaxWindows :
       \/ \E l \in Law, a \in Kind : OpenWindow(w, l, a)
       \/ AppendBlock(w)
       \/ \E r \in Outcome : CloseWindow(w, r)
  \/ \E l \in Law, v \in {"pending", "promulgated", "repealed"} : Judge(l, v)

Spec == Init /\ [][Next]_ledger
=============================================================================
