--------------------------------- MODULE MCBot ---------------------------------
(* Model values and symmetry for the model checking of Bot. *)
EXTENDS Bot, TLC

CONSTANTS u1, u2, u3, u4, q1, q2, q3, q4, r1, w1, w2

ThreeUsers == {u1, u2, u3}
FourUsers == {u1, u2, u3, u4}
OneQuestion == {q1}
ThreeQuestions == {q1, q2, q3}
FourQuestions == {q1, q2, q3, q4}
OneResponse == {r1}
OneWorker == {w1}
TwoWorkers == {w1, w2}
AllKinds == {"new", "join", "begin", "post", "vote", "end", "status"}

Symmetry ==
    Permutations(Users) \cup Permutations(Questions) \cup Permutations(Workers)

WorkerSymmetry == Permutations(Workers)

LobbyKinds == {"new", "join", "begin", "end"}
PostKinds == {"post"}
VoteKinds == {"vote"}
RoundKinds == {"vote", "status"}
EndingKinds == {"vote", "end"}

-------------------------------------------------------------------------------
(* States of a game that one worker has brought there alone. *)
(* The game has begun.  The order and the draw are fixed, the others differ  *)
(* from them by a permutation of users and questions only (so that these     *)
(* states have no symmetry left but WorkerSymmetry).  The prompts in `open'  *)
(* have no response yet.                                                     *)
Begun(order, draw, state, question, open, votes) ==
    LET dealt == Deal(order, draw, 0) IN
    /\ db = [game |-> <<[state |-> state, question |-> question]>>,
             game_user |-> {<<1, order[i]>> : i \in DOMAIN order},
             answer |-> [t \in DOMAIN dealt |->
                           [game |-> 1, user |-> dealt[t].user,
                            question |-> dealt[t].question,
                            response |-> IF t \in open THEN NoResponse ELSE r1]],
             vote |-> votes]
    /\ worker = [w \in Workers |-> Idle]

BegunByThree(state, question, open) ==
    Begun(<<u1, u2, u3>>, <<q1, q2, q3>>, state, question, open, {})

(* All but two prompts have been answered. *)
AnsweringInit ==
    /\ \E open \in SUBSET (1 .. 2 * MinPlayers) :
          Cardinality(open) = 2 /\ BegunByThree("gather_answers", NoQuestion, open)
    /\ chat = {}
    /\ failures = 0

(* The first question has just been put to the vote. *)
VotingInit ==
    /\ BegunByThree("gather_votes", q1, {})
    /\ chat = {Buttons(1, q1)}
    /\ failures = 0

(* The same, but the buttons could not be sent. *)
PairLostInit ==
    /\ BegunByThree("gather_votes", q1, {})
    /\ chat = {}
    /\ failures = 1

(* Both voters of the first round chose its first answer, and so did those of *)
(* the second.                                                               *)
EarlierVotes ==
    {[user |-> u3, token |-> 1], [user |-> u4, token |-> 1],
     [user |-> u1, token |-> 3], [user |-> u4, token |-> 3]}

(* A game of four, each round with two voters: the first two rounds are over, *)
(* the third question has just been put to the vote.                          *)
RoundsInit ==
    LET first == {v \in EarlierVotes : v.token = 1}
    IN  /\ Begun(<<u1, u2, u3, u4>>, <<q1, q2, q3, q4>>, "gather_votes", q3, {},
                 EarlierVotes)
        /\ chat = {Buttons(1, q1), Results(1, q1, first), Buttons(1, q2),
                   Results(1, q2, EarlierVotes \ first), Buttons(1, q3)}
        /\ failures = 0

AnsweringSpec == AnsweringInit /\ [][Next]_vars
VotingSpec == VotingInit /\ [][Next]_vars
RoundsSpec == (RoundsInit \/ PairLostInit) /\ [][Next]_vars /\ Fairness
================================================================================
