--------------------------------- MODULE Game ---------------------------------
(***************************************************************************)
(* The game of one chat group when its requests are handled one at a time:  *)
(* every action is one whole handler of src/controller/mod.rs, from loading *)
(* the running game (game_dao.find_running) to saving it (game_dao.save).   *)
(* What concurrent workers make of it is in Bot.tla.                        *)
(*                                                                         *)
(* The database keeps only the question put to the vote, not the pair of    *)
(* answers: the pair is read back with a SELECT that has no ORDER BY and    *)
(* takes the first two rows, so that it is any two answers to the question. *)
(***************************************************************************)
EXTENDS GameRules, Functions

CONSTANTS
    Users,          \* Telegram users of the group
    Questions,      \* the questions find_random can draw
    Responses,      \* what a player can type
    NoQuestion,     \* current_question_id IS NULL
    Repeats,        \* TRUE: as coded, the draw is with replacement;
                    \* FALSE: only the draws without a repeated question
    MaxTokens       \* bound on the prompts dealt over all the games

ASSUME ConstantsAssumption ==
    /\ NoResponse \notin Responses
    /\ NoQuestion \notin Questions
    /\ Repeats \in BOOLEAN
    /\ MaxTokens \in Nat

MinPlayers == 3

VARIABLES
    phase,      \* the variant of State; "end" also when there is no game
    users,      \* game_user
    answers,    \* the answer rows of the game
    current,    \* current_question_id
    votes,      \* the votes of the game
    issued      \* number of answer rows ever inserted

vars == <<phase, users, answers, current, votes, issued>>

NoAnswers == [t \in {} |-> NoResponse]

Init ==
    /\ phase = "end"
    /\ users = {}
    /\ answers = NoAnswers
    /\ current = NoQuestion
    /\ votes = {}
    /\ issued = 0

-------------------------------------------------------------------------------
(* Mutant: the votes of the last game are not reset. *)
NewGameKeepsVotes(u) ==
    /\ phase = "end"
    /\ phase' = "gather_users"
    /\ users' = {u}
    /\ answers' = NoAnswers
    /\ current' = NoQuestion
    /\ UNCHANGED <<votes, issued>>

(* /new: the game and its host are inserted unless a game is running. *)
NewGame(u) ==
    /\ phase = "end"
    /\ phase' = "gather_users"
    /\ users' = {u}
    /\ answers' = NoAnswers
    /\ current' = NoQuestion
    /\ votes' = {}
    /\ UNCHANGED issued

(* The "Join the game" button. *)
JoinGame(u) ==
    /\ phase = "gather_users"
    /\ u \notin users
    /\ users' = users \cup {u}
    /\ UNCHANGED <<phase, answers, current, votes, issued>>

(* The users come back from game_user in any order (`order'); the questions *)
(* are as many as the users.                                                *)
Orders == Bijection(1 .. Cardinality(users), users)

Draws ==
    {d \in [1 .. Cardinality(users) -> Questions] : Repeats \/ IsInjective(d)}

(* /begin *)
BeginGame ==
    /\ phase = "gather_users"
    /\ Cardinality(users) >= MinPlayers
    /\ issued + 2 * Cardinality(users) <= MaxTokens
    /\ \E order \in Orders, draw \in Draws : answers' = Deal(order, draw, issued)
    /\ phase' = "gather_answers"
    /\ issued' = issued + 2 * Cardinality(users)
    /\ UNCHANGED <<users, current, votes>>

(* POST /prompt with token t and response r. *)
Filled(t, r) == [answers EXCEPT ![AnswerTarget(t, answers)].response = r]

AnswerPrompt(t, r) ==
    /\ phase = "gather_answers"
    /\ CanAnswer(t, answers)
    /\ answers' = Filled(t, r)
    /\ IF AllAnswersAreIn(answers')
       THEN /\ phase' = "gather_votes"
            /\ current' = answers'[NextAnswer(answers', {})].question
       ELSE UNCHANGED <<phase, current>>
    /\ UNCHANGED <<users, votes, issued>>

(* A vote button: user u votes for the answer with token t. *)
Vote(u, t) ==
    /\ phase = "gather_votes"
    /\ \E pair \in Pairs(current, answers) :
        /\ VoteAccepted(u, t, pair, answers, votes)
        /\ votes' = votes \cup {[user |-> u, token |-> t]}
        /\ IF AllVotesAreIn(answers, votes')
           THEN phase' = "end" /\ UNCHANGED current
           ELSE /\ UNCHANGED phase
                /\ IF CurrentVotesAreIn(pair, answers, votes')
                   THEN current' = answers[NextAnswer(answers, votes')].question
                   ELSE UNCHANGED current
    /\ UNCHANGED <<users, answers, issued>>

(* /end: the game ends in any state, its votes are dropped from the State. *)
EndGame ==
    /\ phase # "end"
    /\ phase' = "end"
    /\ votes' = {}
    /\ UNCHANGED <<users, answers, current, issued>>

Next ==
    \/ \E u \in Users : NewGame(u)
    \/ \E u \in Users : JoinGame(u)
    \/ BeginGame
    \/ \E t \in 1 .. issued, r \in Responses : AnswerPrompt(t, r)
    \/ \E u \in Users, t \in 1 .. issued : Vote(u, t)
    \/ EndGame

Spec == Init /\ [][Next]_vars

-------------------------------------------------------------------------------
Prompt == [user : Users, question : Questions, response : Responses \cup {NoResponse}]

(* Type invariant: the tables hold rows of the types of ddl.sql, and every  *)
(* reference (a vote's answer, an answer's player) points to a row.         *)
TypeOK ==
    /\ phase \in {"gather_users", "gather_answers", "gather_votes", "end"}
    /\ users \in SUBSET Users
    /\ issued \in Nat
    /\ DOMAIN answers \subseteq 1 .. issued
    /\ answers \in [DOMAIN answers -> Prompt]
    /\ current \in Questions \cup {NoQuestion}
    /\ votes \in SUBSET [user : Users, token : DOMAIN answers]

Playing == phase \in {"gather_answers", "gather_votes"}

(* Every question of the game was drawn once: it has exactly two prompts. *)
DistinctDraw ==
    \A t \in DOMAIN answers : Cardinality(Others(t, answers)) = 1

(* While a game waits for votes it can get one: some player may vote on a    *)
(* pair of answers to the current question.  A game where everybody had      *)
(* voted or was an author would hang: nothing but /end leaves it, since only *)
(* an accepted vote moves State::vote on.                                    *)
AlwaysAVoter ==
    phase = "gather_votes" =>
        \E pair \in Pairs(current, answers) : RemainingVotes(pair, answers, votes) # {}

(* The deal of begin_game, wrap-around included: each player gets two        *)
(* prompts, and no two of them are to the same question unless the draw      *)
(* repeated it.                                                              *)
FairDeal ==
    Playing =>
        \A u \in users :
            LET mine == {t \in DOMAIN answers : answers[t].user = u}
            IN  /\ Cardinality(mine) = 2
                /\ DistinctDraw => Cardinality({answers[t].question : t \in mine}) = 2

(* A vote is only ever put on a fully answered question, so that the results *)
(* message finds both responses (round_results_message unwraps them).        *)
VotesSeeResponses ==
    phase = "gather_votes" \/ votes # {} =>
        \A t \in DOMAIN answers : Answered(answers, t)

(* "You cannot vote for your own question": nobody votes on a question they  *)
(* were prompted with, whichever of its answers it is.                       *)
NoVoteOnOwnQuestion ==
    \A v \in votes, t \in DOMAIN answers :
        answers[t].question = answers[v.token].question => answers[t].user # v.user

(* "You can only vote once per question". *)
OneVotePerQuestion ==
    \A v, w \in votes :
        v.user = w.user /\ answers[v.token].question = answers[w.token].question
            => v = w

Players(q) == {answers[t].user : t \in {s \in DOMAIN answers : answers[s].question = q}}

VotedOn(q) == {v.user : v \in {w \in votes : answers[w.token].question = q}}

(* A round is closed only when everybody who can vote on its question has:   *)
(* a question that has votes and is no longer current has them all.          *)
ClosedRoundsComplete ==
    phase = "gather_votes" =>
        \A q \in VotedQuestions(answers, votes) \ {current} :
            VotedOn(q) = users \ Players(q)

(* A game that was played to its end put every question to a vote, and no    *)
(* player was still to vote on the last one (status would list those as      *)
(* people who "still need to vote").                                         *)
EndedMeansAllVoted ==
    phase = "end" /\ votes # {} =>
        \A q \in AskedQuestions(answers) : VotedOn(q) = users \ Players(q)

(* What a player has answered is never replaced or lost while the game is    *)
(* played, also when the same link is posted again: the second post goes to  *)
(* the player's other prompt or is refused.                                  *)
AnswersKept ==
    [][Playing => \A t \in DOMAIN answers :
          Answered(answers, t) => t \in DOMAIN answers' /\ answers'[t] = answers[t]]_vars
===============================================================================
