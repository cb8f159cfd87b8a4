------------------------------ MODULE MCSignIn ------------------------------
(* Model values for checking SignIn. *)
EXTENDS SignIn, TLC

CONSTANTS i1, i2, g1, c1, c2

TwoSignIns == {i1, i2}
OneAccount == {g1}
TwoRequests == {c1, c2}

\* Sign-ins are interchangeable, and so are requests.
Symmetry == Permutations(SignIns) \cup Permutations(Requests)
=============================================================================
