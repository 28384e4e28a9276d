------------------------------ MODULE GameRules ------------------------------
(***************************************************************************)
(* The pure functions of src/game/mod.rs: who still has to answer or vote,  *)
(* which pair of answers comes next, and when a round or the game is over.  *)
(*                                                                         *)
(* `answers' is a function from tokens to records [user, question,          *)
(* response].  A token is a natural number, the id of its row, so that the  *)
(* order of the numbers is the order of the Vec the code iterates over      *)
(* (begin_game pushes in this order, answer::Dao::find has ORDER BY a.id).  *)
(* `votes' is a set of records [user, token]: the code only ever searches   *)
(* its Vec or maps it into a set.  A pair is the two answers of `current',   *)
(* each an option to vote for.                                              *)
(***************************************************************************)
EXTENDS Integers, FiniteSets, FiniteSetsExt

CONSTANT NoResponse     \* response: None

Answered(answers, t) == answers[t].response # NoResponse

(* Mutant: `any' for `all'. *)
SomeAnswersAreIn(answers) == \E t \in DOMAIN answers : Answered(answers, t)

AllAnswersAreIn(answers) == \A t \in DOMAIN answers : Answered(answers, t)

(* The prompts user u has not answered yet. *)
Unanswered(u, answers) ==
    {t \in DOMAIN answers : answers[t].user = u /\ ~Answered(answers, t)}

(* Mutant: the token's own prompt, answered or not. *)
OwnAnswerTarget(t, answers) == t

(* The prompt that a response sent with token t fills: its own, or the first *)
(* unanswered one of the same user.  None with no unanswered prompt left.    *)
AnswerTarget(t, answers) ==
    IF ~Answered(answers, t) THEN t ELSE Min(Unanswered(answers[t].user, answers))

(* Mutant: the link is good for one answer only. *)
CanAnswerOnce(t, answers) == t \in DOMAIN answers /\ ~Answered(answers, t)

CanAnswer(t, answers) ==
    t \in DOMAIN answers /\ Unanswered(answers[t].user, answers) # {}

Authors(answers) == {answers[t].user : t \in DOMAIN answers}

AskedQuestions(answers) == {answers[t].question : t \in DOMAIN answers}

VotedQuestions(answers, votes) == {answers[v.token].question : v \in votes}

(* Mutant: the votes are not looked at. *)
AnyAnswer(answers, votes) == DOMAIN answers

(* next(): the first answer whose question has no vote, and the first other *)
(* answer to the same question.  The code panics where there is none.       *)
Unvoted(answers, votes) ==
    {t \in DOMAIN answers : answers[t].question \notin VotedQuestions(answers, votes)}

Others(t, answers) ==
    {s \in DOMAIN answers : s # t /\ answers[s].question = answers[t].question}

NextAnswer(answers, votes) == Min(Unvoted(answers, votes))

(* Mutant: the first answer stands in for the missing other one. *)
NextNeverPanics(answers, votes) == FALSE

(* One of the three expect() of next() fails. *)
NextPanics(answers, votes) ==
    \/ Unvoted(answers, votes) = {}
    \/ Others(NextAnswer(answers, votes), answers) = {}

(* The two answers put to the vote, without their responses. *)
Option(t, answers) ==
    [token |-> t, user |-> answers[t].user, question |-> answers[t].question]

(* Any two answers to question q, in any order. *)
Pairs(q, answers) ==
    {<<Option(p[1], answers), Option(p[2], answers)>> :
        p \in {r \in (DOMAIN answers) \X (DOMAIN answers) :
                  /\ r[1] # r[2]
                  /\ answers[r[1]].question = q
                  /\ answers[r[2]].question = q}}

Tokens(pair) == {pair[1].token, pair[2].token}

PairAuthors(pair) == {pair[1].user, pair[2].user}

VotersOn(pair, votes) == {v.user : v \in {w \in votes : w.token \in Tokens(pair)}}

RemainingVotes(pair, answers, votes) ==
    (Authors(answers) \ VotersOn(pair, votes)) \ PairAuthors(pair)

(* Mutant: off by one, the last voter is not waited for. *)
AlmostAllVotesAreIn(pair, answers, votes) ==
    Cardinality(RemainingVotes(pair, answers, votes)) =< 1

CurrentVotesAreIn(pair, answers, votes) == RemainingVotes(pair, answers, votes) = {}

(* Mutant: off by one, the game goes on after the last question. *)
MoreThanAllVotesAreIn(answers, votes) ==
    Cardinality(VotedQuestions(answers, votes)) > Cardinality(AskedQuestions(answers))

(* Every question has some vote: the code compares the sizes of the two sets, *)
(* of which the first is included in the second.                              *)
AllVotesAreIn(answers, votes) ==
    Cardinality(VotedQuestions(answers, votes)) = Cardinality(AskedQuestions(answers))

(* Mutants: only the author of the chosen answer is refused; a user may vote *)
(* for each of the two answers; anybody may vote.                           *)
VoteAcceptedForOther(u, t, pair, answers, votes) ==
    /\ t \in Tokens(pair)
    /\ u \notin VotersOn(pair, votes)
    /\ u \in Authors(answers) \ {answers[t].user}

VoteAcceptedForEach(u, t, pair, answers, votes) ==
    /\ t \in Tokens(pair)
    /\ [user |-> u, token |-> t] \notin votes
    /\ u \in Authors(answers) \ PairAuthors(pair)

VoteAcceptedFromAnybody(u, t, pair, answers, votes) ==
    /\ t \in Tokens(pair)
    /\ u \notin VotersOn(pair, votes)
    /\ u \notin PairAuthors(pair)

(* State::vote accepts the vote of u for t: the four checks that would return *)
(* VoteError::Current, OnlyOnce, NotInGame and OwnQuestion all pass.          *)
VoteAccepted(u, t, pair, answers, votes) ==
    /\ t \in Tokens(pair)
    /\ u \notin VotersOn(pair, votes)
    /\ u \in Authors(answers)
    /\ u \notin PairAuthors(pair)

(* Mutant: no wrap-around, the last user gets the last question twice. *)
DealtSlotNoWrap(order, draw, k) ==
    LET n == Cardinality(DOMAIN order)
        i == (k + 1) \div 2
    IN  [ user     |-> IF k % 2 = 1 \/ i = n THEN order[i] ELSE order[i + 1],
          question |-> draw[i],
          response |-> NoResponse ]

(* begin_game: question number i of the draw goes to the i-th user and to the *)
(* one after, the first user after the last; the rows are numbered after      *)
(* `last'.                                                                    *)
DealtSlot(order, draw, k) ==
    LET n == Cardinality(DOMAIN order)
        i == (k + 1) \div 2
    IN  [ user     |-> IF k % 2 = 1 THEN order[i]
                       ELSE IF i = n THEN order[1] ELSE order[i + 1],
          question |-> draw[i],
          response |-> NoResponse ]

Deal(order, draw, last) ==
    [t \in last + 1 .. last + 2 * Cardinality(DOMAIN draw) |->
        DealtSlot(order, draw, t - last)]
==============================================================================
