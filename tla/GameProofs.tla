------------------------------ MODULE GameProofs ------------------------------
(***************************************************************************)
(* Theorems about Game for any number of users, questions, responses and   *)
(* prompts, whether or not the draw repeats a question.  The deal is fair in *)
(* every game; the last section is about what the votes promise, which holds *)
(* of the games whose draw repeats no question (DistinctDraw), whether or    *)
(* not other games do.                                                      *)
(***************************************************************************)
EXTENDS Game, GameRulesProofs

-------------------------------------------------------------------------------
(* The players.                                                             *)

(* Three or more players cannot be the two authors of a pair. *)
LEMMA SomebodyElse ==
    ASSUME NEW S, Cardinality(S) >= MinPlayers, NEW x, NEW y
    PROVE  S \ {x, y} # {}
<1> SUFFICES ASSUME S \subseteq {x, y} PROVE FALSE
    OBVIOUS
<1>1. IsFiniteSet({x}) /\ Cardinality({x}) = 1
    BY FS_Singleton
<1>2. IsFiniteSet({x} \cup {y}) /\ Cardinality({x} \cup {y}) =< 2
    BY <1>1, FS_AddElement
<1>3. {x} \cup {y} = {x, y}
    OBVIOUS
<1>4. IsFiniteSet(S) /\ Cardinality(S) =< Cardinality({x, y})
    BY <1>2, <1>3, FS_Subset
<1>5. Cardinality(S) \in Nat /\ Cardinality({x, y}) \in Nat
    BY <1>2, <1>3, <1>4, FS_CardinalityType
<1> QED
    BY <1>2, <1>3, <1>4, <1>5 DEF MinPlayers

-------------------------------------------------------------------------------
(* The pair put to the vote next.                                           *)

(* As long as the votes have not touched every question there is a next      *)
(* answer, its question has no vote and it has a pair with voters left.      *)
LEMMA NextAnswerHasVoters ==
    ASSUME NEW f, DOMAIN f \subseteq Nat,
           NEW ballots, \A v \in ballots : v.token \in DOMAIN f,
           Cardinality(Authors(f)) >= MinPlayers,
           \A t \in DOMAIN f : Others(t, f) # {},
           Unvoted(f, ballots) # {}
    PROVE  LET a == NextAnswer(f, ballots)
           IN  /\ a \in DOMAIN f
               /\ \E pair \in Pairs(f[a].question, f) : RemainingVotes(pair, f, ballots) # {}
<1> DEFINE a == NextAnswer(f, ballots)
<1>1. a \in Unvoted(f, ballots)
    <2>1. Unvoted(f, ballots) \subseteq Nat
        BY DEF Unvoted
    <2> QED
        BY <2>1, MinOfNaturals DEF NextAnswer
<1>2. a \in DOMAIN f /\ f[a].question \notin VotedQuestions(f, ballots)
    BY <1>1 DEF Unvoted
<1> HIDE DEF a
<1>3. PICK b \in Others(a, f) : TRUE
    BY <1>2
<1>4. b \in DOMAIN f /\ f[b].question = f[a].question
    BY <1>3 DEF Others
<1> DEFINE pair == <<Option(a, f), Option(b, f)>>
<1>5. pair \in Pairs(f[a].question, f)
    BY <1>2, <1>3, <1>4, TwoMakeAPair DEF Others
<1>6. Tokens(pair) = {a, b} /\ PairAuthors(pair) = {f[a].user, f[b].user}
    <2>1. pair[1] = Option(a, f) /\ pair[2] = Option(b, f)
        OBVIOUS
    <2>2. Option(a, f).token = a /\ Option(b, f).token = b
        BY DEF Option
    <2>3. Option(a, f).user = f[a].user /\ Option(b, f).user = f[b].user
        BY DEF Option
    <2> QED
        BY <2>1, <2>2, <2>3 DEF Tokens, PairAuthors
<1> HIDE DEF pair
<1>7. VotersOn(pair, ballots) = {}
    BY <1>2, <1>4, <1>6 DEF VotersOn, VotedQuestions
<1>8. RemainingVotes(pair, f, ballots) # {}
    <2>1. Authors(f) \ {f[a].user, f[b].user} # {}
        BY SomebodyElse
    <2> QED
        BY <1>6, <1>7, <2>1 DEF RemainingVotes
<1> QED
    BY <1>2, <1>5, <1>8 DEF a

-------------------------------------------------------------------------------
(* What a game that has begun looks like, which the type invariant and      *)
(* AlwaysAVoter need from every earlier step: enough players, every player  *)
(* prompted, every prompt with a counterpart, votes only once voting.       *)
Begun ==
    /\ Cardinality(users) >= MinPlayers
    /\ Authors(answers) = users
    /\ \A t \in DOMAIN answers : Others(t, answers) # {}

IInv ==
    /\ TypeOK
    /\ IsFiniteSet(users)
    /\ Playing => Begun
    /\ phase \in {"gather_users", "gather_answers"} => votes = {}
    /\ VotesSeeResponses
    /\ AlwaysAVoter

LEMMA InitIInv == Init => IInv
<1> SUFFICES ASSUME Init PROVE IInv
    OBVIOUS
<1>1. IsFiniteSet(users)
    BY FS_EmptySet DEF Init
<1>2. TypeOK
    BY DEF Init, TypeOK, NoAnswers, Prompt
<1> QED
    BY <1>1, <1>2 DEF Init, IInv, Playing, VotesSeeResponses, AlwaysAVoter

(* One step of any handler preserves it. *)
LEMMA NextIInv == IInv /\ [Next]_vars => IInv'
<1> SUFFICES ASSUME IInv, [Next]_vars PROVE IInv'
    OBVIOUS
<1> USE DEF IInv
<1>0. DOMAIN answers \subseteq Nat /\ \A v \in votes : v.token \in DOMAIN answers
    BY DEF TypeOK
<1>1. ASSUME NEW u \in Users, NewGame(u) PROVE IInv'
    <2>1. TypeOK'
        BY <1>1 DEF NewGame, TypeOK, NoAnswers, Prompt
    <2>2. IsFiniteSet(users')
        BY <1>1, FS_Singleton DEF NewGame
    <2> QED
        BY <1>1, <2>1, <2>2 DEF NewGame, Playing, VotesSeeResponses, AlwaysAVoter
<1>2. ASSUME NEW u \in Users, JoinGame(u) PROVE IInv'
    <2>1. TypeOK'
        BY <1>2 DEF JoinGame, TypeOK
    <2>2. IsFiniteSet(users')
        BY <1>2, FS_AddElement DEF JoinGame
    <2> QED
        BY <1>2, <2>1, <2>2 DEF JoinGame, Playing, VotesSeeResponses, AlwaysAVoter
<1>3. ASSUME BeginGame PROVE IInv'
    <2> DEFINE n == Cardinality(users)
    <2>1. n \in Nat /\ n >= 1
        BY <1>3, FS_CardinalityType DEF BeginGame, MinPlayers
    <2>2. PICK order \in Orders, draw \in Draws : answers' = Deal(order, draw, issued)
        BY <1>3 DEF BeginGame
    <2>3. order \in Bijection(1 .. n, users) /\ draw \in [1 .. n -> Questions]
        BY DEF Orders, Draws
    <2>4. issued \in Nat /\ issued' = issued + 2 * n
        BY <1>3 DEF BeginGame, TypeOK
    <2> HIDE DEF n
    <2>5. SoundDeal(answers', n, users, Questions, issued)
        <3>1. issued \in Nat
            BY <2>4
        <3> QED
            BY <2>1, <2>2, <2>3, <3>1, DealIsSound
    <2>6. TypeOK'
        <3>1. DOMAIN answers' \subseteq 1 .. issued'
            BY <2>1, <2>4, <2>5 DEF SoundDeal
        <3>2. answers' \in [DOMAIN answers' -> Prompt]
            BY <2>5 DEF SoundDeal, TypeOK, Prompt
        <3>3. votes' = {} /\ issued' \in Nat
            BY <1>3, <2>1, <2>4 DEF BeginGame
        <3> QED
            BY <1>3, <3>1, <3>2, <3>3 DEF BeginGame, TypeOK
    <2>7. Begun'
        BY <1>3, <2>5 DEF SoundDeal, BeginGame, Begun
    <2> QED
        BY <1>3, <2>6, <2>7 DEF BeginGame, VotesSeeResponses, AlwaysAVoter
<1>4. ASSUME NEW t \in 1 .. issued, NEW r \in Responses, AnswerPrompt(t, r) PROVE IInv'
    <2> DEFINE a == AnswerTarget(t, answers)
    <2>1. a \in DOMAIN answers
        BY <1>0, <1>4, AnswerTargetIsUnanswered DEF AnswerPrompt, Unanswered
    <2>2. /\ DOMAIN answers' = DOMAIN answers
          /\ \A s \in DOMAIN answers : /\ answers'[s].user = answers[s].user
                                       /\ answers'[s].question = answers[s].question
          /\ answers' \in [DOMAIN answers' -> Prompt]
        BY <1>4, <2>1 DEF AnswerPrompt, Filled, TypeOK, Prompt
    <2>3. Authors(answers') = Authors(answers) /\ \A s \in DOMAIN answers' : Others(s, answers') # {}
        BY <1>4, <2>2 DEF AnswerPrompt, Authors, Others, Begun, Playing
    <2>4. Begun'
        BY <1>4, <2>3 DEF AnswerPrompt, Begun, Playing
    <2>5. votes' = {}
        BY <1>4 DEF AnswerPrompt
    <2>6. CASE AllAnswersAreIn(answers')
        <3> DEFINE b == NextAnswer(answers', {})
        <3>1. phase' = "gather_votes" /\ current' = answers'[b].question
            BY <1>4, <2>6 DEF AnswerPrompt
        <3>2. Unvoted(answers', {}) # {}
            BY <2>1, <2>2 DEF Unvoted, VotedQuestions
        <3>3. /\ b \in DOMAIN answers'
              /\ \E pair \in Pairs(answers'[b].question, answers') : RemainingVotes(pair, answers', {}) # {}
            BY <1>0, <2>2, <2>4, <3>2, NextAnswerHasVoters DEF Begun
        <3> HIDE DEF b
        <3>4. TypeOK'
            BY <1>4, <2>2, <2>5, <3>1, <3>3 DEF AnswerPrompt, TypeOK, Prompt
        <3>5. AlwaysAVoter'
            BY <2>5, <3>1, <3>3 DEF AlwaysAVoter
        <3> QED
            BY <1>4, <2>4, <2>5, <2>6, <3>1, <3>4, <3>5 DEF AnswerPrompt, AllAnswersAreIn, VotesSeeResponses
    <2>7. CASE ~AllAnswersAreIn(answers')
        <3>1. phase' = "gather_answers" /\ current' = current
            BY <1>4, <2>7 DEF AnswerPrompt
        <3>2. TypeOK'
            BY <1>4, <2>2, <2>5, <3>1 DEF AnswerPrompt, TypeOK
        <3> QED
            BY <1>4, <2>4, <2>5, <3>1, <3>2 DEF AnswerPrompt, VotesSeeResponses, AlwaysAVoter
    <2> QED
        BY <2>6, <2>7
<1>5. ASSUME NEW u \in Users, NEW t \in 1 .. issued, Vote(u, t) PROVE IInv'
    <2>1. PICK pair \in Pairs(current, answers) :
            /\ VoteAccepted(u, t, pair, answers, votes)
            /\ votes' = votes \cup {[user |-> u, token |-> t]}
            /\ IF AllVotesAreIn(answers, votes')
               THEN phase' = "end" /\ UNCHANGED current
               ELSE /\ UNCHANGED phase
                    /\ IF CurrentVotesAreIn(pair, answers, votes')
                       THEN current' = answers[NextAnswer(answers, votes')].question
                       ELSE UNCHANGED current
        BY <1>5 DEF Vote
    <2>2. phase = "gather_votes" /\ UNCHANGED <<users, answers, issued>>
        BY <1>5 DEF Vote
    <2>3. t \in DOMAIN answers
        BY <2>1 DEF VoteAccepted, Tokens, Pairs, Option
    <2>4. votes' \in SUBSET [user : Users, token : DOMAIN answers]
        BY <2>1, <2>3 DEF TypeOK
    <2>5. Begun /\ Begun'
        BY <2>2 DEF Playing, Begun
    <2>6. VotesSeeResponses'
        BY <2>2 DEF VotesSeeResponses
    <2>7. CASE AllVotesAreIn(answers, votes')
        <3>1. phase' = "end" /\ current' = current
            BY <2>1, <2>7
        <3>2. TypeOK'
            BY <2>2, <2>4, <3>1 DEF TypeOK
        <3> QED
            BY <2>2, <2>6, <3>1, <3>2 DEF AlwaysAVoter, Playing
    <2>8. CASE ~AllVotesAreIn(answers, votes') /\ CurrentVotesAreIn(pair, answers, votes')
        <3> DEFINE b == NextAnswer(answers, votes')
        <3>1. phase' = "gather_votes" /\ current' = answers[b].question
            BY <2>1, <2>2, <2>8
        <3>2. \A v \in votes' : v.token \in DOMAIN answers
            BY <2>4
        <3>3. Unvoted(answers, votes') # {}
            BY <2>8, <3>2, NotAllInMeansUnvoted
        <3>4. /\ b \in DOMAIN answers
              /\ \E p \in Pairs(answers[b].question, answers) : RemainingVotes(p, answers, votes') # {}
            BY <1>0, <2>5, <3>2, <3>3, NextAnswerHasVoters DEF Begun
        <3> HIDE DEF b
        <3>5. TypeOK'
            BY <2>2, <2>4, <3>1, <3>4 DEF TypeOK, Prompt
        <3>6. AlwaysAVoter'
            BY <2>2, <3>1, <3>4 DEF AlwaysAVoter
        <3> QED
            BY <2>2, <2>5, <2>6, <3>1, <3>5, <3>6
    <2>9. CASE ~AllVotesAreIn(answers, votes') /\ ~CurrentVotesAreIn(pair, answers, votes')
        <3>1. phase' = "gather_votes" /\ current' = current
            BY <2>1, <2>2, <2>9
        <3>2. TypeOK'
            BY <2>2, <2>4, <3>1 DEF TypeOK
        <3>3. AlwaysAVoter'
            BY <2>2, <2>9, <3>1 DEF AlwaysAVoter, CurrentVotesAreIn
        <3> QED
            BY <2>2, <2>5, <2>6, <3>1, <3>2, <3>3
    <2> QED
        BY <2>7, <2>8, <2>9
<1>6. ASSUME EndGame PROVE IInv'
    <2>1. TypeOK'
        BY <1>6 DEF EndGame, TypeOK
    <2> QED
        BY <1>6, <2>1 DEF EndGame, Playing, VotesSeeResponses, AlwaysAVoter
<1>7. ASSUME UNCHANGED vars PROVE IInv'
    BY <1>7 DEF vars, TypeOK, Prompt, Playing, Begun, VotesSeeResponses, AlwaysAVoter
<1> QED
    BY <1>1, <1>2, <1>3, <1>4, <1>5, <1>6, <1>7 DEF Next

LEMMA SpecIInv == Spec => []IInv
BY InitIInv, NextIInv, PTL DEF Spec

-------------------------------------------------------------------------------
(* The tables hold what their types say in every reachable state: for any    *)
(* number of users, questions and games.                                     *)
THEOREM TypeCorrect == Spec => []TypeOK
<1>1. IInv => TypeOK
    BY DEF IInv
<1> QED
    BY SpecIInv, <1>1, PTL

(* State::vote never leaves a game that waits for a vote nobody can cast.    *)
THEOREM GameNeverHangs == Spec => []AlwaysAVoter
<1>1. IInv => AlwaysAVoter
    BY DEF IInv
<1> QED
    BY SpecIInv, <1>1, PTL

(* The voting opens with the last answer: until then a prompt is open.        *)
PromptIsOpen == phase = "gather_answers" => ~AllAnswersAreIn(answers)

LEMMA NextPromptIsOpen == IInv /\ PromptIsOpen /\ [Next]_vars => PromptIsOpen'
<1> SUFFICES ASSUME IInv, PromptIsOpen, [Next]_vars PROVE PromptIsOpen'
    OBVIOUS
<1>1. CASE BeginGame
    <2>1. PICK order \in Orders, draw \in Draws : answers' = Deal(order, draw, issued)
        BY <1>1 DEF BeginGame
    <2> DEFINE n == Cardinality(users)
    <2>2. n \in Nat /\ n >= 1 /\ issued \in Nat
        BY <1>1, FS_CardinalityType DEF BeginGame, MinPlayers, IInv, TypeOK
    <2>3. order \in Bijection(1 .. n, users) /\ draw \in [1 .. n -> Questions]
        BY DEF Orders, Draws
    <2> HIDE DEF n
    <2>4. SoundDeal(answers', n, users, Questions, issued)
        BY <2>1, <2>2, <2>3, DealIsSound
    <2>5. issued + 1 \in DOMAIN answers'
        BY <2>2, <2>4 DEF SoundDeal
    <2>6. answers'[issued + 1].response = NoResponse
        BY <2>4, <2>5 DEF SoundDeal
    <2> QED
        BY <2>5, <2>6 DEF PromptIsOpen, AllAnswersAreIn, Answered
<1>2. ASSUME NEW t \in 1 .. issued, NEW r \in Responses, AnswerPrompt(t, r) PROVE PromptIsOpen'
    BY <1>2 DEF AnswerPrompt, PromptIsOpen, AllAnswersAreIn, Answered
<1>3. ASSUME NEW u \in Users, NewGame(u) \/ JoinGame(u) PROVE PromptIsOpen'
    BY <1>3 DEF NewGame, JoinGame, PromptIsOpen
<1>4. ASSUME NEW u \in Users, NEW t \in 1 .. issued, Vote(u, t) PROVE PromptIsOpen'
    BY <1>4 DEF Vote, PromptIsOpen
<1>5. CASE EndGame
    BY <1>5 DEF EndGame, PromptIsOpen
<1>6. CASE UNCHANGED vars
    BY <1>6 DEF vars, PromptIsOpen, AllAnswersAreIn, Answered
<1> QED
    BY <1>1, <1>2, <1>3, <1>4, <1>5, <1>6 DEF Next

LEMMA SpecPromptIsOpen == Spec => []PromptIsOpen
<1>1. Init => PromptIsOpen
    BY DEF Init, PromptIsOpen
<1> QED
    BY SpecIInv, NextPromptIsOpen, <1>1, PTL DEF Spec

(* No pair is put to the vote before every prompt has its response.          *)
THEOREM VotesAreOnResponses == Spec => []VotesSeeResponses
<1>1. IInv => VotesSeeResponses
    BY DEF IInv
<1> QED
    BY SpecIInv, <1>1, PTL

(* No handler changes or loses an answer of the game being played.           *)
KeepsAnswers ==
    Playing => \A t \in DOMAIN answers :
        Answered(answers, t) => t \in DOMAIN answers' /\ answers'[t] = answers[t]

LEMMA NextKeepsAnswers == IInv /\ [Next]_vars => [KeepsAnswers]_vars
<1> SUFFICES ASSUME IInv, Next PROVE KeepsAnswers
    BY DEF vars
<1>1. CASE \E u \in Users : NewGame(u) \/ JoinGame(u)
    BY <1>1 DEF NewGame, JoinGame, KeepsAnswers, Playing
<1>2. CASE BeginGame
    BY <1>2 DEF BeginGame, KeepsAnswers, Playing
<1>3. ASSUME NEW t \in 1 .. issued, NEW r \in Responses, AnswerPrompt(t, r) PROVE KeepsAnswers
    <2>1. AnswerTarget(t, answers) \in Unanswered(answers[t].user, answers)
        BY <1>3, AnswerTargetIsUnanswered DEF AnswerPrompt, IInv, TypeOK
    <2>2. ~Answered(answers, AnswerTarget(t, answers))
        BY <2>1 DEF Unanswered
    <2> QED
        BY <1>3, <2>2 DEF AnswerPrompt, Filled, KeepsAnswers, Answered
<1>4. CASE (\E u \in Users, t \in 1 .. issued : Vote(u, t)) \/ EndGame
    BY <1>4 DEF Vote, EndGame, KeepsAnswers
<1> QED
    BY <1>1, <1>2, <1>3, <1>4 DEF Next

THEOREM AnswersAreKept == Spec => AnswersKept
<1>1. IInv /\ [Next]_vars => [KeepsAnswers]_vars
    BY NextKeepsAnswers
<1>2. Spec => [][KeepsAnswers]_vars
    BY SpecIInv, <1>1, PTL DEF Spec
<1> QED
    BY <1>2 DEF AnswersKept, KeepsAnswers

-------------------------------------------------------------------------------
(* The inductive invariant.  Who has voted is a player, and the rounds are as *)
(* they should be in every game whose draw repeats no question.               *)

VotersPlay == phase = "gather_votes" => \A v \in votes : v.user \in users

FairVotes == NoVoteOnOwnQuestion /\ OneVotePerQuestion /\ ClosedRoundsComplete

VInv ==
    /\ IInv
    /\ FairDeal
    /\ VotersPlay
    /\ DistinctDraw => FairVotes
    /\ ~Repeats => DistinctDraw

LEMMA InitVInv == Init => VInv
<1> SUFFICES ASSUME Init PROVE VInv
    OBVIOUS
<1>1. IInv
    BY InitIInv
<1>2. phase = "end" /\ votes = {} /\ DOMAIN answers = {}
    BY DEF Init, NoAnswers
<1>3. FairDeal /\ VotersPlay /\ DistinctDraw
    BY <1>2 DEF FairDeal, Playing, VotersPlay, DistinctDraw
<1>4. FairVotes
    BY <1>2 DEF FairVotes, NoVoteOnOwnQuestion, OneVotePerQuestion, ClosedRoundsComplete
<1> QED
    BY <1>1, <1>3, <1>4 DEF VInv

(* Without votes there is nothing to violate. *)
LEMMA NoVotesNoHarm == ASSUME votes = {} PROVE FairVotes /\ VotersPlay
<1>1. VotedQuestions(answers, votes) = {}
    BY DEF VotedQuestions
<1> QED
    BY <1>1 DEF FairVotes, NoVoteOnOwnQuestion, OneVotePerQuestion, ClosedRoundsComplete, VotersPlay

LEMMA BeginVInv == VInv /\ BeginGame => FairDeal' /\ (~Repeats => DistinctDraw')
<1> SUFFICES ASSUME VInv, BeginGame PROVE FairDeal' /\ (~Repeats => DistinctDraw')
    OBVIOUS
<1> DEFINE n == Cardinality(users)
<1>1. n \in Nat /\ n >= 3 /\ n >= 1
    BY FS_CardinalityType DEF BeginGame, VInv, IInv, MinPlayers
<1>2. PICK order \in Orders, draw \in Draws : answers' = Deal(order, draw, issued)
    BY DEF BeginGame
<1>3. /\ order \in Bijection(1 .. n, users) /\ draw \in [1 .. n -> Questions]
      /\ Repeats \/ IsInjective(draw)
    BY DEF Orders, Draws
<1>4. issued \in Nat
    BY DEF VInv, IInv, TypeOK
<1> HIDE DEF n
<1>5. Rows(answers', n, order, draw, issued)
    BY <1>1, <1>2, <1>3, <1>4, DealFillsRows
<1>6. FairDeal'
    <2>1. ASSUME NEW u \in users PROVE FairTo(u, answers')
        BY <1>1, <1>3, <1>4, <1>5, <2>1, DealIsFair
    <2>2. users' = users
        BY DEF BeginGame
    <2> QED
        BY <2>1, <2>2 DEF FairDeal, FairTo, DistinctDraw
<1>7. ASSUME ~Repeats PROVE DistinctDraw'
    BY <1>1, <1>3, <1>4, <1>5, <1>7, InjectiveDrawIsDistinct DEF DistinctDraw
<1> QED
    BY <1>6, <1>7

(* Answers fill the prompts; who they are for and what they ask stays. *)
LEMMA SameDeal ==
    ASSUME NEW f, NEW g, DOMAIN g = DOMAIN f,
           \A t \in DOMAIN f : g[t].user = f[t].user /\ g[t].question = f[t].question
    PROVE  /\ \A t \in DOMAIN f : Others(t, g) = Others(t, f)
           /\ \A u : FairTo(u, f) => FairTo(u, g)
<1>1. ASSUME NEW t \in DOMAIN f PROVE Others(t, g) = Others(t, f)
    BY <1>1 DEF Others
<1>2. ASSUME NEW u, FairTo(u, f) PROVE FairTo(u, g)
    <2> DEFINE mine == {t \in DOMAIN f : f[t].user = u}
    <2>1. {t \in DOMAIN g : g[t].user = u} = mine
        OBVIOUS
    <2>2. {g[t].question : t \in mine} = {f[t].question : t \in mine}
        OBVIOUS
    <2>3. (\A t \in DOMAIN g : Cardinality(Others(t, g)) = 1)
              <=> \A t \in DOMAIN f : Cardinality(Others(t, f)) = 1
        BY <1>1
    <2> HIDE DEF mine
    <2>4. /\ Cardinality(mine) = 2
          /\ (\A t \in DOMAIN f : Cardinality(Others(t, f)) = 1)
                => Cardinality({f[t].question : t \in mine}) = 2
        BY <1>2 DEF FairTo, mine
    <2> QED
        BY <2>1, <2>2, <2>3, <2>4 DEF FairTo
<1> QED
    BY <1>1, <1>2

LEMMA AnswerKeepsDeal ==
    ASSUME IInv, NEW t \in 1 .. issued, NEW r \in Responses, AnswerPrompt(t, r)
    PROVE  /\ DOMAIN answers' = DOMAIN answers
           /\ \A s \in DOMAIN answers : /\ answers'[s].user = answers[s].user
                                        /\ answers'[s].question = answers[s].question
<1> DEFINE a == AnswerTarget(t, answers)
<1>1. a \in DOMAIN answers
    BY AnswerTargetIsUnanswered DEF AnswerPrompt, Unanswered, IInv, TypeOK
<1> HIDE DEF a
<1>2. answers' = [answers EXCEPT ![a].response = r]
    BY DEF AnswerPrompt, Filled, a
<1> QED
    BY <1>1, <1>2 DEF IInv, TypeOK, Prompt

LEMMA AnswerVInv ==
    ASSUME VInv, NEW t \in 1 .. issued, NEW r \in Responses, AnswerPrompt(t, r)
    PROVE  VInv'
<1>1. IInv'
    <2>1. Next
        BY DEF Next
    <2> QED
        BY <2>1, NextIInv DEF VInv
<1>2. /\ phase = "gather_answers" /\ votes' = {} /\ users' = users
    BY DEF AnswerPrompt, VInv, IInv
<1>3. /\ DOMAIN answers' = DOMAIN answers
      /\ \A s \in DOMAIN answers : /\ answers'[s].user = answers[s].user
                                   /\ answers'[s].question = answers[s].question
    BY AnswerKeepsDeal DEF VInv
<1>4. FairVotes' /\ VotersPlay'
    BY <1>2, NoVotesNoHarm DEF FairVotes, NoVoteOnOwnQuestion, OneVotePerQuestion,
        ClosedRoundsComplete, VotersPlay, VotedQuestions
<1>5. /\ \A s \in DOMAIN answers : Others(s, answers') = Others(s, answers)
      /\ \A u : FairTo(u, answers) => FairTo(u, answers')
    BY <1>3, SameDeal
<1>6. DistinctDraw' <=> DistinctDraw
    BY <1>3, <1>5 DEF DistinctDraw
<1>7. FairDeal'
    <2>1. \A u \in users : FairTo(u, answers)
        BY <1>2 DEF VInv, FairDeal, Playing, FairTo, DistinctDraw
    <2> QED
        BY <1>2, <1>5, <2>1 DEF FairDeal, FairTo, DistinctDraw
<1> QED
    BY <1>1, <1>4, <1>6, <1>7 DEF VInv

(* A vote is put on the question that is current, by a player of the game who *)
(* neither was prompted with it nor has voted on it; the round is closed when *)
(* that leaves nobody.                                                        *)
LEMMA VoteIsFair ==
    ASSUME VInv, DistinctDraw, NEW u \in Users, NEW t \in 1 .. issued, Vote(u, t)
    PROVE  /\ t \in DOMAIN answers /\ answers[t].question = current
           /\ votes' = votes \cup {[user |-> u, token |-> t]}
           /\ u \in users /\ u \notin Players(current) /\ u \notin VotedOn(current)
           /\ \/ phase' = "end" /\ current' = current
              \/ phase' = phase /\ current' = current
              \/ /\ phase' = phase
                 /\ users \subseteq Players(current)
                        \cup {v.user : v \in {w \in votes' : answers[w.token].question = current}}
<1>1. PICK pair \in Pairs(current, answers) :
        /\ VoteAccepted(u, t, pair, answers, votes)
        /\ votes' = votes \cup {[user |-> u, token |-> t]}
        /\ IF AllVotesAreIn(answers, votes')
           THEN phase' = "end" /\ UNCHANGED current
           ELSE /\ UNCHANGED phase
                /\ IF CurrentVotesAreIn(pair, answers, votes')
                   THEN current' = answers[NextAnswer(answers, votes')].question
                   ELSE UNCHANGED current
    BY DEF Vote
<1>2. Authors(answers) = users /\ IsFiniteSet(DOMAIN answers) /\ \A s : IsFiniteSet(Others(s, answers))
    BY RowsFinite DEF VInv, IInv, Begun, Playing, Vote, TypeOK
<1>3. \A v \in votes : v.token \in DOMAIN answers
    BY DEF VInv, IInv, TypeOK
<1>4. /\ Tokens(pair) = {s \in DOMAIN answers : answers[s].question = current}
      /\ PairAuthors(pair) = Players(current)
      /\ VotersOn(pair, votes) = VotedOn(current)
    BY <1>2, <1>3, PairIsWholeQuestion DEF DistinctDraw, Players, VotedOn
<1>5. t \in DOMAIN answers /\ answers[t].question = current
    BY <1>1, <1>4 DEF VoteAccepted
<1>6. u \in users /\ u \notin Players(current) /\ u \notin VotedOn(current)
    BY <1>1, <1>2, <1>4 DEF VoteAccepted
<1>7. \A v \in votes' : v.token \in DOMAIN answers
    BY <1>1, <1>3, <1>5
<1>8. VotersOn(pair, votes') = {v.user : v \in {w \in votes' : answers[w.token].question = current}}
    BY <1>2, <1>7, PairIsWholeQuestion DEF DistinctDraw
<1>9. ASSUME CurrentVotesAreIn(pair, answers, votes')
      PROVE  users \subseteq Players(current)
                 \cup {v.user : v \in {w \in votes' : answers[w.token].question = current}}
    BY <1>2, <1>4, <1>8, <1>9 DEF CurrentVotesAreIn, RemainingVotes
<1> QED
    BY <1>1, <1>5, <1>6, <1>9

LEMMA VoteFairVotes ==
    ASSUME VInv, DistinctDraw, NEW u \in Users, NEW t \in 1 .. issued, Vote(u, t)
    PROVE  FairVotes'
<1> DEFINE ballot == [user |-> u, token |-> t]
           voted(q) == {v.user : v \in {w \in votes' : answers[w.token].question = q}}
<1>1. /\ t \in DOMAIN answers /\ answers[t].question = current
      /\ votes' = votes \cup {ballot} /\ ballot.user = u /\ ballot.token = t
      /\ u \in users /\ u \notin Players(current) /\ u \notin VotedOn(current)
      /\ phase = "gather_votes" /\ UNCHANGED <<users, answers>>
    BY VoteIsFair DEF Vote
<1>2. \/ phase' = "end" /\ current' = current
      \/ phase' = phase /\ current' = current
      \/ phase' = phase /\ users \subseteq Players(current) \cup voted(current)
    BY VoteIsFair
<1> HIDE DEF ballot
<1>3. NoVoteOnOwnQuestion /\ OneVotePerQuestion /\ ClosedRoundsComplete
      /\ \A v \in votes : v.user \in users /\ v.token \in DOMAIN answers
    BY <1>1 DEF VInv, FairVotes, VotersPlay, IInv, TypeOK
<1>4. NoVoteOnOwnQuestion'
    BY <1>1, <1>3 DEF NoVoteOnOwnQuestion, Players
<1>5. OneVotePerQuestion'
    <2>1. \A v \in votes : answers[v.token].question = current => v.user # u
        BY <1>1 DEF VotedOn
    <2> QED
        BY <1>1, <1>3, <2>1 DEF OneVotePerQuestion
<1>6. ClosedRoundsComplete'
    <2> SUFFICES ASSUME phase' = "gather_votes",
                        NEW q \in VotedQuestions(answers, votes') \ {current'}
                 PROVE  voted(q) = users \ Players(q)
        BY <1>1 DEF ClosedRoundsComplete, VotedOn, Players
    <2>1. voted(q) \subseteq users \ Players(q)
        BY <1>1, <1>3, <1>4 DEF NoVoteOnOwnQuestion, Players
    <2>2. CASE q = current
        <3>1. users \subseteq Players(current) \cup voted(current)
            BY <1>2, <2>2
        <3> QED
            BY <2>1, <2>2, <3>1
    <2>3. CASE q # current
        <3>1. q \in VotedQuestions(answers, votes) \ {current}
            BY <1>1, <2>3 DEF VotedQuestions
        <3>2. VotedOn(q) = users \ Players(q)
            BY <1>1, <1>3, <3>1 DEF ClosedRoundsComplete
        <3>3. {w \in votes' : answers[w.token].question = q} = {w \in votes : answers[w.token].question = q}
            BY <1>1, <2>3
        <3> QED
            BY <3>2, <3>3 DEF VotedOn
    <2> QED
        BY <2>2, <2>3
<1> QED
    BY <1>4, <1>5, <1>6 DEF FairVotes

LEMMA NextVInv == VInv /\ [Next]_vars => VInv'
<1> SUFFICES ASSUME VInv, [Next]_vars PROVE VInv'
    OBVIOUS
<1>0. IInv'
    BY NextIInv DEF VInv
<1>1. ASSUME NEW u \in Users, NewGame(u) PROVE VInv'
    <2>1. phase' = "gather_users" /\ votes' = {} /\ DOMAIN answers' = {}
        BY <1>1 DEF NewGame, NoAnswers
    <2>2. VotedQuestions(answers', votes') = {}
        BY <2>1 DEF VotedQuestions
    <2> QED
        BY <1>0, <2>1, <2>2 DEF VInv, FairVotes, NoVoteOnOwnQuestion, OneVotePerQuestion,
            ClosedRoundsComplete, VotersPlay, FairDeal, Playing, DistinctDraw
<1>2. ASSUME NEW u \in Users, JoinGame(u) PROVE VInv'
    <2>1. phase' = "gather_users" /\ UNCHANGED <<answers, votes>> /\ votes = {}
        BY <1>2 DEF JoinGame, VInv, IInv
    <2> QED
        BY <1>0, <2>1 DEF VInv, FairVotes, NoVoteOnOwnQuestion, OneVotePerQuestion,
            ClosedRoundsComplete, VotersPlay, FairDeal, Playing, DistinctDraw
<1>3. ASSUME BeginGame PROVE VInv'
    <2>1. FairDeal' /\ (~Repeats => DistinctDraw')
        BY <1>3, BeginVInv
    <2>2. phase' = "gather_answers" /\ votes' = {}
        BY <1>3 DEF BeginGame, VInv, IInv
    <2> QED
        BY <1>0, <2>1, <2>2 DEF VInv, FairVotes, NoVoteOnOwnQuestion, OneVotePerQuestion,
            ClosedRoundsComplete, VotersPlay
<1>4. ASSUME NEW t \in 1 .. issued, NEW r \in Responses, AnswerPrompt(t, r) PROVE VInv'
    BY <1>4, AnswerVInv
<1>5. ASSUME NEW u \in Users, NEW t \in 1 .. issued, Vote(u, t) PROVE VInv'
    <2>1. phase = "gather_votes" /\ UNCHANGED <<users, answers>>
        BY <1>5 DEF Vote
    <2>2. FairDeal' /\ (DistinctDraw' <=> DistinctDraw)
        BY <2>1 DEF VInv, FairDeal, Playing, DistinctDraw
    <2>3. VotersPlay'
        <3>1. PICK pair \in Pairs(current, answers) :
                  /\ u \in Authors(answers)
                  /\ votes' = votes \cup {[user |-> u, token |-> t]}
            BY <1>5 DEF Vote, VoteAccepted
        <3>2. u \in users
            BY <2>1, <3>1 DEF VInv, IInv, Playing, Begun
        <3> QED
            BY <2>1, <3>1, <3>2 DEF VInv, VotersPlay
    <2>4. DistinctDraw => FairVotes'
        BY <1>5, VoteFairVotes
    <2> QED
        BY <1>0, <2>2, <2>3, <2>4 DEF VInv
<1>6. ASSUME EndGame PROVE VInv'
    <2>1. phase' = "end" /\ votes' = {} /\ answers' = answers
        BY <1>6 DEF EndGame
    <2> QED
        BY <1>0, <2>1 DEF VInv, FairVotes, NoVoteOnOwnQuestion, OneVotePerQuestion,
            ClosedRoundsComplete, VotersPlay, FairDeal, Playing, DistinctDraw
<1>7. ASSUME UNCHANGED vars PROVE VInv'
    <2>1. UNCHANGED <<phase, users, answers, current, votes>>
        BY <1>7 DEF vars
    <2>2. /\ NoVoteOnOwnQuestion' <=> NoVoteOnOwnQuestion
          /\ OneVotePerQuestion' <=> OneVotePerQuestion
          /\ DistinctDraw' <=> DistinctDraw
        BY <2>1 DEF NoVoteOnOwnQuestion, OneVotePerQuestion, DistinctDraw
    <2>3. ClosedRoundsComplete' <=> ClosedRoundsComplete
        BY <2>1 DEF ClosedRoundsComplete, VotedOn, Players
    <2>4. FairDeal' <=> FairDeal
        BY <2>1 DEF FairDeal, Playing, DistinctDraw
    <2>5. VotersPlay' <=> VotersPlay
        BY <2>1 DEF VotersPlay
    <2> QED
        BY <1>0, <2>2, <2>3, <2>4, <2>5 DEF VInv, FairVotes
<1> QED
    BY <1>1, <1>2, <1>3, <1>4, <1>5, <1>6, <1>7 DEF Next

LEMMA SpecVInv == Spec => []VInv
BY InitVInv, NextVInv, PTL DEF Spec

-------------------------------------------------------------------------------
(* begin_game deals each player two prompts, and two different questions      *)
(* unless the draw repeats one, however many players there are.               *)
THEOREM DealsAreFair == Spec => []FairDeal
<1>1. VInv => FairDeal
    BY DEF VInv
<1> QED
    BY SpecVInv, <1>1, PTL

(* Nobody votes on a question they were prompted with, in any game whose draw *)
(* repeats no question.                                                       *)
THEOREM NoOwnVotes == Spec => [](DistinctDraw => NoVoteOnOwnQuestion)
<1>1. VInv => (DistinctDraw => NoVoteOnOwnQuestion)
    BY DEF VInv, FairVotes
<1> QED
    BY SpecVInv, <1>1, PTL

(* Nobody votes twice on a question, in any such game. *)
THEOREM OneVoteEach == Spec => [](DistinctDraw => OneVotePerQuestion)
<1>1. VInv => (DistinctDraw => OneVotePerQuestion)
    BY DEF VInv, FairVotes
<1> QED
    BY SpecVInv, <1>1, PTL

(* State::vote goes on to the next question only when everybody who may vote  *)
(* on this one has, in any such game.                                         *)
THEOREM RoundsAreComplete == Spec => [](DistinctDraw => ClosedRoundsComplete)
<1>1. VInv => (DistinctDraw => ClosedRoundsComplete)
    BY DEF VInv, FairVotes
<1> QED
    BY SpecVInv, <1>1, PTL

(* Were the draw made without replacement, every game would be such a game.   *)
THEOREM DistinctDrawsSuffice ==
    ASSUME ~Repeats
    PROVE  Spec => [](NoVoteOnOwnQuestion /\ OneVotePerQuestion /\ ClosedRoundsComplete)
<1>1. VInv => NoVoteOnOwnQuestion /\ OneVotePerQuestion /\ ClosedRoundsComplete
    BY DEF VInv, FairVotes
<1> QED
    BY SpecVInv, <1>1, PTL
===============================================================================
