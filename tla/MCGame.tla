-------------------------------- MODULE MCGame --------------------------------
(* Model values and symmetry for the model checking of Game. *)
EXTENDS Game, TLC

CONSTANTS u1, u2, u3, u4, q1, q2, q3, q4, r1, r2

ThreeUsers == {u1, u2, u3}
FourUsers == {u1, u2, u3, u4}
ThreeQuestions == {q1, q2, q3}
FourQuestions == {q1, q2, q3, q4}
TwoResponses == {r1, r2}
OneResponse == {r1}

(* Users, questions and responses are only ever compared for equality. *)
Symmetry ==
    Permutations(Users) \cup Permutations(Questions) \cup Permutations(Responses)
===============================================================================
