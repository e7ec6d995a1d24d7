---------------------------- MODULE MCParliament -----------------------------
(* A parliament of three authors, a team of two, a standalone and the values *)
(* of the constants of the Parliament module for TLC.                        *)
EXTENDS Parliament

Laws == {"a", "b", "c"}
Workers == {"t", "m", "s"}
Teams == {"t"}
Areas == {"x", "y"}
AreasOfLaws == [l \in Laws |-> IF l = "c" THEN "y" ELSE "x"]
ActionsOfLaws == [l \in Laws |-> IF l = "c" THEN "derogacion" ELSE "promulgacion"]
HoldersOfLaws == [l \in Laws |-> CASE l = "a" -> "A" [] l = "b" -> "B" [] OTHER -> "C"]
Roster == [w \in Workers |-> IF w = "s" THEN None ELSE "t"]
Powers == [w \in Workers |-> IF w = "s" THEN 2 ELSE 4]
OneAuthor == {<<"A", "A", "A">>}

Open == [agenda |-> {}, refuses |-> {}, veto |-> None]
Silent == [w \in Workers |-> None]

\* The team accepts by default but vetoes one law; the standalone mines one
\* area and waits for its owner to decide.
Everybody == [live |-> Workers,
              policy |-> [w \in Workers |->
                IF w = "s" THEN [Open EXCEPT !.agenda = {"y"}]
                           ELSE [Open EXCEPT !.veto = "b"]],
              default |-> [Silent EXCEPT !["t"] = "accept"]]
\* The team has gone; the standalone mines every area, and repeals nothing.
Alone == [live |-> {"s"},
          policy |-> [w \in Workers |-> [Open EXCEPT !.refuses = {"derogacion"}]],
          default |-> Silent]
Networks == {Everybody, Alone}
=============================================================================
