----------------------------- MODULE MCGateway ------------------------------
(* Model values for checking Gateway. *)
EXTENDS Gateway, TLC

CONSTANTS x, y, w1, w2, m1, r1, origin

TwoNames == {x, y}
OneName == {x}
OneWriter == {w1}
TwoWriters == {w1, w2}
OneMover == {m1}
OneReader == {r1}
Nobody == {}
WriteAndMove == {w1, m1}
TwoWritesAndMove == {w1, w2, m1}

\* Names are interchangeable, and so are the writers of a run.
Symmetry == Permutations(Names) \cup Permutations(Writers)

\* A transfer of one name is a part of what one of both names does.
BothMoved == \A m \in Movers : move'[m].names \in {{}, Names}
=============================================================================
