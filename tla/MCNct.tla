------------------------------- MODULE MCNct -------------------------------
(* NctCoordinator on small instances. *)
EXTENDS NctCoordinator, TLC

CONSTANTS l1, l2, ana, beto, caro

Promulgar(l, a) == [law |-> l, action |-> "promulgacion", author |-> a]
Derogar(l, a)   == [law |-> l, action |-> "derogacion", author |-> a]

\* Two laws by two authors.
TwoLaws == {Promulgar(l1, ana), Promulgar(l2, beto)}
\* One law, and two citizens who want it repealed.
OneLawRepealed == {Promulgar(l1, ana), Derogar(l1, beto), Derogar(l1, caro)}
\* One law.
OneLaw == {Promulgar(l1, ana)}
\* One law and one citizen who wants it repealed.
OneLawOneRepeal == {Promulgar(l1, ana), Derogar(l1, beto)}

Symmetry == Permutations(Nct)
=============================================================================
