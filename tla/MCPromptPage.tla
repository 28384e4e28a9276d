------------------------------ MODULE MCPromptPage ------------------------------
(* Model values and initial states for the model checking of PromptPage. *)
EXTENDS PromptPage

CONSTANTS u1, u2, u3, q1, q2, q3, r1

ThreeUsers == {u1, u2, u3}
ThreeQuestions == {q1, q2, q3}
OneResponse == {r1}
OneTab == {1}
TwoTabs == {1, 2}

(* Three questions, or one twice, which a player has for both prompts.  Other  *)
(* deals differ by a permutation of users and questions, or in which players  *)
(* have equal questions; the page and the bot compare none of them.           *)
DealtInit ==
    \E draw \in {<<q1, q2, q3>>, <<q1, q1, q2>>} : PageInit(<<u1, u2, u3>>, draw)

PageSpec == DealtInit /\ [][PageNext]_allVars
FairPageSpec == PageSpec /\ Fairness
=================================================================================
