----------------------------- MODULE BotVoteProofs -----------------------------
(***************************************************************************)
(* Theorems about the voting of Bot, for any number of failures: the first   *)
(* ones for any number of workers that race, the last ones for one worker.   *)
(* The games have been dealt without a repeated question and answered, and   *)
(* nobody starts another game.                                               *)
(***************************************************************************)
EXTENDS BotProofs

-------------------------------------------------------------------------------
(* The games that are voted on.                                             *)

(* v is a vote of a player on a question that the player was not given.      *)
FairBallot(d, v) ==
    LET g == d.answer[v.token].game
        q == d.answer[v.token].question
    IN  /\ v.user \in UsersOf(d, g)
        /\ \A t \in TokensOf(d, g) : d.answer[t].question = q => d.answer[t].user # v.user

(* Every question was given to two players, and both have answered it. *)
Dealt(d) ==
    /\ \A t \in DOMAIN d.answer :
          /\ d.answer[t].response # NoResponse
          /\ <<d.answer[t].game, d.answer[t].user>> \in d.game_user
    /\ \A g : \A t \in TokensOf(d, g) : Cardinality(Others(t, AnswersOf(d, g))) = 1

Fair(d) ==
    /\ Dealt(d)
    /\ \A g \in GameIds(d) : d.game[g].state \in {"gather_votes", "end"}
    /\ \A v \in d.vote : FairBallot(d, v)

(* The workers wait, with any games, votes and messages so far. *)
FairVoting ==
    /\ TablesOK(db)
    /\ Fair(db)
    /\ worker = [w \in Workers |-> Idle]
    /\ failures \in 0 .. MaxFailures

FairVotingSpec == FairVoting /\ [][Next]_vars

NoNewGames == "new" \notin Kinds

(* Such a deal is what a lobby without races leaves: the rows of one game that *)
(* begin_game dealt to its players from a draw without repetition, once all   *)
(* of them are answered.                                                      *)
LEMMA AnsweredDealIsDealt ==
    ASSUME NEW d, NEW g, NEW n \in Nat, n >= 1,
           NEW order \in Bijection(1 .. n, UsersOf(d, g)),
           NEW draw \in [1 .. n -> Questions], IsInjective(draw),
           DOMAIN d.answer = DOMAIN Deal(order, draw, 0),
           \A t \in DOMAIN d.answer :
              /\ d.answer[t].game = g
              /\ d.answer[t].user = Deal(order, draw, 0)[t].user
              /\ d.answer[t].question = Deal(order, draw, 0)[t].question
              /\ d.answer[t].response # NoResponse
    PROVE  Dealt(d)
<1> DEFINE dealt == Deal(order, draw, 0)
<1>1. Rows(dealt, n, order, draw, 0) /\ SoundDeal(dealt, n, UsersOf(d, g), Questions, 0)
    BY DealFillsRows, DealIsSound
<1>2. \A t \in DOMAIN dealt : Cardinality(Others(t, dealt)) = 1
    BY <1>1, InjectiveDrawIsDistinct
<1>3. \A t \in DOMAIN dealt : dealt[t].user \in UsersOf(d, g)
    BY <1>1 DEF SoundDeal
<1> HIDE DEF dealt
<1>4. /\ DOMAIN d.answer = DOMAIN dealt
      /\ \A t \in DOMAIN dealt :
            /\ d.answer[t].game = g /\ d.answer[t].user = dealt[t].user
            /\ d.answer[t].question = dealt[t].question /\ d.answer[t].response # NoResponse
    BY DEF dealt
<1>5. \A t \in DOMAIN d.answer : <<d.answer[t].game, d.answer[t].user>> \in d.game_user
    BY <1>3, <1>4 DEF UsersOf
<1>6. ASSUME NEW h, NEW t \in TokensOf(d, h) PROVE Cardinality(Others(t, AnswersOf(d, h))) = 1
    <2>1. h = g /\ TokensOf(d, g) = DOMAIN dealt /\ t \in DOMAIN dealt
        BY <1>4, <1>6 DEF TokensOf
    <2>2. Others(t, AnswersOf(d, g)) = Others(t, dealt)
        BY <1>4, <2>1 DEF Others, AnswersOf
    <2> QED
        BY <1>2, <2>1, <2>2
<1> QED
    BY <1>4, <1>5, <1>6 DEF Dealt

-------------------------------------------------------------------------------
(* The inductive invariant.                                                 *)

VoteStatement(d, s) ==
    \/ IsMessage(s)
    \/ s.op = "set_state" /\ s.state = "end"
    \/ s.op = "set_voting"
    \/ s.op = "insert_vote" /\ FairBallot(d, s.vote)

(* No copy is ever stale but in its votes: the answers do not change. *)
VoterOK(d, x) ==
    /\ x.pc \in {"idle", "vote", "votes", "pair", "over", "status", "run"}
    /\ x.pc \in {"votes", "pair"} => x.answers = AnswersOf(d, x.game)
    /\ x.pc \in {"pair", "over"} => \A v \in x.votes : v.token \in TokensOf(d, x.game)
    /\ x.pc = "over" => x.token \in TokensOf(d, x.game)
    /\ x.pc = "run" => \A i \in DOMAIN x.todo : VoteStatement(d, x.todo[i])

VInv ==
    /\ Fair(db)
    /\ \A w \in Workers : VoterOK(db, worker[w])

-------------------------------------------------------------------------------
(* What a vote may do to the tables.                                        *)

SameDeal(d, e) == e.answer = d.answer /\ e.game_user = d.game_user

LEMMA DealStays ==
    ASSUME NEW d, NEW e, SameDeal(d, e)
    PROVE  /\ \A v : FairBallot(d, v) <=> FairBallot(e, v)
           /\ Dealt(d) <=> Dealt(e)
           /\ \A x : VoterOK(d, x) <=> VoterOK(e, x)
<1>1. /\ \A g : TokensOf(e, g) = TokensOf(d, g) /\ UsersOf(e, g) = UsersOf(d, g)
      /\ e.answer = d.answer /\ e.game_user = d.game_user
    BY DEF SameDeal, TokensOf, UsersOf
<1>2. \A g : AnswersOf(e, g) = AnswersOf(d, g)
    BY <1>1 DEF AnswersOf
<1>3. \A v : FairBallot(d, v) <=> FairBallot(e, v)
    BY <1>1 DEF FairBallot
<1>4. Dealt(d) <=> Dealt(e)
    BY <1>1, <1>2 DEF Dealt
<1>5. \A s : VoteStatement(d, s) <=> VoteStatement(e, s)
    BY <1>3 DEF VoteStatement
<1>6. \A x : VoterOK(d, x) <=> VoterOK(e, x)
    BY <1>1, <1>2, <1>5 DEF VoterOK
<1> QED
    BY <1>3, <1>4, <1>6

LEMMA VoteStatementEffect ==
    ASSUME NEW d, TablesOK(d), Fair(d), NEW s \in Statements(d), VoteStatement(d, s)
    PROVE  SameDeal(d, Apply(d, s)) /\ Fair(Apply(d, s))
<1> DEFINE e == Apply(d, s)
<1>1. \/ \E g \in GameIds(d) : s = SetState(g, "end")
      \/ \E g \in GameIds(d), q \in Questions : s = SetVoting(g, q)
      \/ \E v : s = InsertVote(v) /\ FairBallot(d, v)
      \/ \E g, q : s = Buttons(g, q)
      \/ \E g, q, vs : s = Results(g, q, vs)
      \/ \E g, vs : s = Scores(g, vs)
    <2>1. \/ \E g, u : s = InsertUser(g, u)
          \/ \E g \in GameIds(d) : \E st : s = SetState(g, st)
          \/ \E p \in Votable(d) : s = SetVoting(p[1], p[2])
          \/ \E row : s = InsertAnswer(row)
          \/ \E rows : s = UpdateAnswers(rows)
          \/ \E v : s = InsertVote(v)
          \/ \E g, q : s = Buttons(g, q)
          \/ \E g, q, vs : s = Results(g, q, vs)
          \/ \E g, vs : s = Scores(g, vs)
        BY CrowdedIsGame DEF Statements
    <2>2. \A p \in Votable(d) : p[1] \in GameIds(d) /\ p[2] \in Questions
        BY DEF Votable, Crowded
    <2>3. ~\E g, u : s = InsertUser(g, u)
        BY DEF VoteStatement, InsertUser, IsMessage
    <2>4. ~(\E row : s = InsertAnswer(row)) /\ ~(\E rows : s = UpdateAnswers(rows))
        BY DEF VoteStatement, InsertAnswer, UpdateAnswers, IsMessage
    <2>5. \A g, st : s = SetState(g, st) => st = "end"
        BY DEF VoteStatement, SetState, IsMessage
    <2>6. \A v : s = InsertVote(v) => FairBallot(d, v)
        BY DEF VoteStatement, InsertVote, IsMessage
    <2> QED
        BY <2>1, <2>2, <2>3, <2>4, <2>5, <2>6
<1>2. d.game \in Seq(GameRow)
    BY DEF TablesOK
<1>3. ASSUME NEW g \in GameIds(d), s = SetState(g, "end") PROVE SameDeal(d, e) /\ Fair(e)
    <2> DEFINE row == [d.game[g] EXCEPT !.state = "end"]
    <2>1. e = [game |-> [d.game EXCEPT ![g] = row],
               game_user |-> d.game_user, answer |-> d.answer, vote |-> d.vote]
        BY <1>3, Applied
    <2>2. row.state = "end"
        <3>1. d.game[g] \in GameRow
            BY <1>2 DEF GameIds
        <3> QED
            BY <3>1 DEF GameRow
    <2> HIDE DEF row, e
    <2>3. /\ SameDeal(d, e) /\ e.vote = d.vote
          /\ \A h \in GameIds(e) : h \in GameIds(d) /\ e.game[h] = IF h = g THEN row ELSE d.game[h]
        BY <2>1, <1>2 DEF SameDeal, GameIds
    <2> QED
        BY <2>2, <2>3, DealStays DEF Fair
<1>4. ASSUME NEW g \in GameIds(d), NEW q \in Questions, s = SetVoting(g, q)
      PROVE  SameDeal(d, e) /\ Fair(e)
    <2> DEFINE row == [state |-> "gather_votes", question |-> q]
    <2>1. e = [game |-> [d.game EXCEPT ![g] = row],
               game_user |-> d.game_user, answer |-> d.answer, vote |-> d.vote]
        BY <1>4, Applied
    <2>2. row.state = "gather_votes"
        OBVIOUS
    <2> HIDE DEF row, e
    <2>3. /\ SameDeal(d, e) /\ e.vote = d.vote
          /\ \A h \in GameIds(e) : h \in GameIds(d) /\ e.game[h] = IF h = g THEN row ELSE d.game[h]
        BY <2>1, <1>2 DEF SameDeal, GameIds
    <2> QED
        BY <2>2, <2>3, DealStays DEF Fair
<1>5. ASSUME NEW v, s = InsertVote(v), FairBallot(d, v) PROVE SameDeal(d, e) /\ Fair(e)
    <2>1. SameDeal(d, e) /\ e.vote = d.vote \cup {v} /\ e.game = d.game
        BY <1>5, Applied DEF SameDeal
    <2> QED
        BY <1>5, <2>1, DealStays DEF Fair, GameIds
<1>6. ASSUME \/ \E g, q : s = Buttons(g, q)
             \/ \E g, q, vs : s = Results(g, q, vs)
             \/ \E g, vs : s = Scores(g, vs)
      PROVE  SameDeal(d, e) /\ Fair(e)
    <2>1. e = d
        BY <1>6, Applied
    <2> QED
        BY <2>1 DEF SameDeal
<1> HIDE DEF e
<1>7. SameDeal(d, e) /\ Fair(e)
    BY <1>1, <1>3, <1>4, <1>5, <1>6
<1> QED
    BY <1>7 DEF e

-------------------------------------------------------------------------------
(* The handlers that read.                                                  *)

LEMMA VoterGoOn ==
    ASSUME IInv, VInv, NEW w \in Workers, NEW x, GoOn(w, x), VoterOK(db', x),
           SameDeal(db, db'), Fair(db')
    PROVE  VInv'
<1>1. worker'[w] = x /\ \A v \in Workers \ {w} : worker'[v] = worker[v]
    BY DEF GoOn, IInv
<1>2. \A v \in Workers \ {w} : VoterOK(db', worker[v])
    BY DealStays DEF VInv
<1> QED
    BY <1>1, <1>2 DEF VInv

LEMMA VoterReads ==
    ASSUME IInv, VInv, NEW w \in Workers, NEW x, GoOn(w, x), VoterOK(db, x), db' = db
    PROVE  VInv'
BY VoterGoOn DEF VInv, SameDeal

LEMMA IdleVoter == \A d : VoterOK(d, Idle)
BY DEF VoterOK, Idle

LEMMA RunVoter ==
    ASSUME NEW d, NEW todo, \A i \in DOMAIN todo : VoteStatement(d, todo[i])
    PROVE  VoterOK(d, Run(todo))
BY DEF VoterOK, Run

(* With every game at the vote, all that is not about votes is refused. *)
LEMMA ReceiveVInv ==
    ASSUME NoNewGames, IInv, VInv, NEW w \in Workers, Receive(w)
    PROVE  VInv'
<1>1. \A g \in Running(db) : db.game[g].state = "gather_votes"
    BY DEF Running, VInv, Fair
<1>2. ~\E u \in Users : FindNew(w, u)
    BY DEF FindNew, NoNewGames
<1>3. ~\E u \in Users : FindJoin(w, u)
    BY <1>1 DEF FindJoin, Find
<1>4. ~FindBegin(w)
    BY <1>1 DEF FindBegin, Find
<1>5. ~\E t \in DOMAIN db.answer, r \in Responses : FindPost(w, t, r)
    BY <1>1 DEF FindPost, Find
<1>6. ASSUME NEW u \in Users, NEW t \in DOMAIN db.answer, FindVote(w, u, t) PROVE VInv'
    <2> DEFINE x(g) == [pc |-> "vote", game |-> g, user |-> u, token |-> t]
    <2>1. PICK g : GoOn(w, x(g)) /\ db' = db
        BY <1>6 DEF FindVote, Find
    <2>2. VoterOK(db, x(g))
        BY DEF VoterOK
    <2> QED
        BY <2>1, <2>2, VoterReads
<1>7. CASE FindEnd(w)
    <2>1. PICK g : GoOn(w, Run(<<SetState(g, "end")>>)) /\ db' = db
        BY <1>7 DEF FindEnd, Find
    <2> DEFINE s == SetState(g, "end")
    <2>2. VoteStatement(db, s)
        BY DEF VoteStatement, SetState
    <2> HIDE DEF s
    <2>3. DOMAIN <<s>> = {1} /\ <<s>>[1] = s
        OBVIOUS
    <2>4. VoterOK(db, Run(<<s>>))
        BY <2>2, <2>3, RunVoter
    <2> QED
        BY <2>1, <2>4, VoterReads DEF s
<1>8. CASE FindStatus(w)
    <2> DEFINE x(g) == [pc |-> "status", game |-> g]
    <2>1. PICK g : GoOn(w, x(g)) /\ db' = db
        BY <1>8 DEF FindStatus, Find
    <2>2. VoterOK(db, x(g))
        BY DEF VoterOK
    <2> QED
        BY <2>1, <2>2, VoterReads
<1> QED
    BY <1>2, <1>3, <1>4, <1>5, <1>6, <1>7, <1>8 DEF Receive

LEMMA VoteReadsVInv ==
    ASSUME IInv, VInv, NEW w \in Workers, VoteAnswers(w) \/ VoteVotes(w)
    PROVE  VInv'
<1> DEFINE x == worker[w]
           y == [pc |-> "votes", game |-> x.game, user |-> x.user, token |-> x.token,
                 answers |-> AnswersOf(db, x.game)]
           z == [pc |-> "pair", game |-> x.game, user |-> x.user, token |-> x.token,
                 answers |-> x.answers, votes |-> VotesOf(db, x.game)]
<1>1. CASE VoteAnswers(w)
    <2>1. VoterOK(db, y)
        BY DEF VoterOK
    <2>2. GoOn(w, y) /\ db' = db
        BY <1>1 DEF VoteAnswers
    <2> HIDE DEF y
    <2> QED
        BY <2>1, <2>2, VoterReads
<1>2. CASE VoteVotes(w)
    <2>1. x.answers = AnswersOf(db, x.game)
        BY <1>2 DEF VoteVotes, VInv, VoterOK
    <2>2. VoterOK(db, z)
        BY <2>1 DEF VoterOK, VotesOf
    <2>3. GoOn(w, z) /\ db' = db
        BY <1>2 DEF VoteVotes
    <2> HIDE DEF z
    <2> QED
        BY <2>2, <2>3, VoterReads
<1> QED
    BY <1>1, <1>2

-------------------------------------------------------------------------------
(* The handlers that count.                                                 *)

LEMMA DealtAnswers ==
    ASSUME NEW d, TablesOK(d), Dealt(d), NEW g
    PROVE  LET f == AnswersOf(d, g)
           IN  /\ DOMAIN f = TokensOf(d, g) /\ DOMAIN f \subseteq DOMAIN d.answer
               /\ \A t \in DOMAIN f : /\ f[t].user = d.answer[t].user
                                      /\ f[t].question = d.answer[t].question
                                      /\ Answered(f, t)
               /\ \A t : IsFiniteSet(Others(t, f))
               /\ \A t \in DOMAIN f : Cardinality(Others(t, f)) = 1 /\ Others(t, f) # {}
<1> DEFINE f == AnswersOf(d, g)
<1>1. /\ DOMAIN f = TokensOf(d, g) /\ DOMAIN f \subseteq DOMAIN d.answer
      /\ \A t \in DOMAIN f : /\ f[t].user = d.answer[t].user
                             /\ f[t].question = d.answer[t].question
                             /\ f[t].response = d.answer[t].response
    BY DEF AnswersOf, TokensOf
<1>2. \A t \in DOMAIN f : Answered(f, t)
    BY <1>1 DEF Answered, Dealt
<1>3. \A t \in DOMAIN f : Cardinality(Others(t, f)) = 1
    BY <1>1 DEF Dealt
<1>4. DOMAIN f \subseteq 1 .. Len(d.answer) /\ Len(d.answer) \in Nat
    BY <1>1 DEF TablesOK
<1> HIDE DEF f
<1>5. \A t : IsFiniteSet(Others(t, f))
    BY <1>4, RowsFinite
<1>6. \A t \in DOMAIN f : Others(t, f) # {}
    BY <1>3, FS_EmptySet
<1> QED
    BY <1>1, <1>2, <1>3, <1>5, <1>6 DEF f

(* Accepting a vote takes a player who has no part in the pair, which is all   *)
(* there is of its question.                                                  *)
LEMMA AcceptedIsFair ==
    ASSUME NEW d, TablesOK(d), Dealt(d), NEW g, NEW pair \in PairsOf(d, g),
           NEW u, NEW t, NEW vs, VoteAccepted(u, t, pair, AnswersOf(d, g), vs),
           u \in Users
    PROVE  FairBallot(d, [user |-> u, token |-> t]) /\ t \in TokensOf(d, g)
<1> DEFINE f == AnswersOf(d, g)
           q == d.game[g].question
<1>1. /\ DOMAIN f = TokensOf(d, g)
      /\ \A s \in DOMAIN f : f[s].user = d.answer[s].user /\ f[s].question = d.answer[s].question
      /\ \A s : IsFiniteSet(Others(s, f))
      /\ \A s \in DOMAIN f : Cardinality(Others(s, f)) = 1
    BY DealtAnswers
<1>2. pair \in Pairs(q, f)
    BY DEF PairsOf
<1>3. u \in Authors(f) /\ u \notin PairAuthors(pair) /\ t \in Tokens(pair)
    BY DEF VoteAccepted
<1> HIDE DEF f, q
<1>4. /\ Tokens(pair) = {s \in DOMAIN f : f[s].question = q}
      /\ PairAuthors(pair) = {f[s].user : s \in {r \in DOMAIN f : f[r].question = q}}
    <2> DEFINE none == {}
    <2>1. \A v \in none : v.token \in DOMAIN f
        OBVIOUS
    <2> HIDE DEF none
    <2>2. /\ \A s : IsFiniteSet(Others(s, f))
          /\ \A s \in DOMAIN f : Cardinality(Others(s, f)) = 1
        BY <1>1
    <2>3. Tokens(pair) = {s \in DOMAIN f : f[s].question = q}
        BY <1>2, <2>1, <2>2, PairIsWholeQuestion
    <2>4. PairAuthors(pair) = {f[s].user : s \in {r \in DOMAIN f : f[r].question = q}}
        BY <1>2, <2>1, <2>2, PairIsWholeQuestion
    <2> QED
        BY <2>3, <2>4
<1>5. t \in TokensOf(d, g) /\ d.answer[t].question = q /\ d.answer[t].game = g
    BY <1>1, <1>3, <1>4 DEF TokensOf
<1>6. \A s \in TokensOf(d, g) : d.answer[s].question = q => d.answer[s].user # u
    BY <1>1, <1>3, <1>4
<1>7. u \in UsersOf(d, g)
    <2>1. PICK s \in DOMAIN f : f[s].user = u
        BY <1>3 DEF Authors
    <2>2. s \in DOMAIN d.answer /\ d.answer[s].game = g /\ d.answer[s].user = u
        BY <1>1, <2>1 DEF TokensOf
    <2> QED
        BY <2>2 DEF Dealt, UsersOf
<1> QED
    BY <1>5, <1>6, <1>7 DEF FairBallot

(* The counterpart of every answer is there, and answered. *)
LEMMA ResultsFound ==
    ASSUME NEW d, TablesOK(d), Dealt(d), NEW g, NEW t \in TokensOf(d, g)
    PROVE  ~ResultsPanic(t, AnswersOf(d, g))
<1> DEFINE f == AnswersOf(d, g)
<1>1. DOMAIN f = TokensOf(d, g) /\ \A s \in DOMAIN f : Answered(f, s)
    BY DealtAnswers
<1>2. DOMAIN f \subseteq Nat
    BY <1>1 DEF TokensOf, TablesOK
<1>3. Others(t, f) \subseteq DOMAIN f
    BY DEF Others
<1>4. Others(t, f) # {} => Min(Others(t, f)) \in Others(t, f)
    <2>1. Others(t, f) \subseteq Nat
        BY <1>2, <1>3
    <2> QED
        BY <2>1, MinOfNaturals
<1> HIDE DEF f
<1>5. ~ResultsPanic(t, f)
    BY <1>1, <1>3, <1>4 DEF ResultsPanic
<1> QED
    BY <1>5 DEF f

LEMMA NextIsFound ==
    ASSUME NEW d, TablesOK(d), Dealt(d), NEW g, NEW vs, \A v \in vs : v.token \in TokensOf(d, g),
           ~AllVotesAreIn(AnswersOf(d, g), vs)
    PROVE  ~NextPanics(AnswersOf(d, g), vs)
<1> DEFINE f == AnswersOf(d, g)
<1>1. DOMAIN f = TokensOf(d, g) /\ \A s \in DOMAIN f : Others(s, f) # {}
    BY DealtAnswers
<1>2. DOMAIN f \subseteq Nat
    BY <1>1 DEF TokensOf, TablesOK
<1> HIDE DEF f
<1>3. Unvoted(f, vs) # {}
    BY <1>1, NotAllInMeansUnvoted DEF f
<1>4. NextAnswer(f, vs) \in DOMAIN f
    <2>1. Unvoted(f, vs) \subseteq DOMAIN f
        BY DEF Unvoted
    <2> QED
        BY <1>2, <1>3, <2>1, MinOfNaturals DEF NextAnswer
<1>5. ~NextPanics(f, vs)
    BY <1>1, <1>3, <1>4 DEF NextPanics
<1> QED
    BY <1>5 DEF f

(* A vote that is accepted is counted without a panic. *)
LEMMA CountingIsSafe ==
    ASSUME IInv, VInv, NEW w \in Workers, worker[w].pc = "pair",
           NEW pair \in PairsOf(db, worker[w].game),
           VoteAccepted(worker[w].user, worker[w].token, pair, worker[w].answers, worker[w].votes),
           VoteCounted(w, worker[w], pair,
                       worker[w].votes \cup {[user |-> worker[w].user, token |-> worker[w].token]})
    PROVE  /\ FairBallot(db, [user |-> worker[w].user, token |-> worker[w].token])
           /\ worker[w].token \in TokensOf(db, worker[w].game)
           /\ ~GoOn(w, Dead)
<1> DEFINE x == worker[w]
           g == x.game
           ballot == [user |-> x.user, token |-> x.token]
           votes == x.votes \cup {ballot}
<1>1. /\ TablesOK(db) /\ Dealt(db) /\ x.answers = AnswersOf(db, g) /\ x.user \in Users
      /\ \A v \in x.votes : v.token \in TokensOf(db, g)
    BY DEF IInv, VInv, Fair, VoterOK, WorkerOK
<1>2. FairBallot(db, ballot) /\ x.token \in TokensOf(db, g)
    BY <1>1, AcceptedIsFair
<1>3. \A v \in votes : v.token \in TokensOf(db, g)
    BY <1>1, <1>2
<1> HIDE DEF votes
<1> DEFINE over == AllVotesAreIn(x.answers, votes)
           closed == CurrentVotesAreIn(pair, x.answers, votes)
           first == IF closed THEN NextAnswer(x.answers, votes) ELSE pair[1].token
           question == IF closed THEN x.answers[first].question ELSE pair[1].question
           panics == \/ \E v \in votes : v.token \notin DOMAIN x.answers
                     \/ ~over /\ closed /\ NextPanics(x.answers, votes)
                     \/ ~over /\ first # x.token /\ ResultsPanic(x.token, x.answers)
           news == IF first = x.token THEN <<>>
                   ELSE RoundResults(g, x.token, x.answers, votes) \o <<Buttons(g, question)>>
           save == SaveVote(g, question, ballot)
           end == [pc |-> "over", game |-> g, token |-> x.token, votes |-> votes]
           go == Run(AnnounceThenSave(news, save))
<1>4. GoOn(w, IF panics THEN Dead ELSE IF over THEN end ELSE go)
    BY DEF VoteCounted, votes
<1>5. ~panics
    <2>1. DOMAIN x.answers = TokensOf(db, g)
        BY <1>1, DealtAnswers
    <2>2. ~over => ~NextPanics(x.answers, votes)
        BY <1>1, <1>3, NextIsFound
    <2>3. ~ResultsPanic(x.token, x.answers)
        BY <1>1, <1>2, ResultsFound
    <2> HIDE DEF first, closed, over
    <2> QED
        BY <1>3, <2>1, <2>2, <2>3
<1>6. end.pc = "over" /\ go.pc = "run" /\ Dead.pc = "dead"
    BY DEF Run, Dead
<1> HIDE DEF panics, over, end, go
<1>7. \E y : GoOn(w, y) /\ y.pc \in {"over", "run"}
    BY <1>4, <1>5, <1>6
<1>8. ~GoOn(w, Dead)
    BY <1>6, <1>7 DEF GoOn, IInv
<1> QED
    BY <1>2, <1>8

LEMMA VotePairVInv ==
    ASSUME IInv, VInv, NEW w \in Workers, VotePair(w)
    PROVE  VInv'
<1> DEFINE x == worker[w]
           g == x.game
           ballot == [user |-> x.user, token |-> x.token]
           end == [pc |-> "over", game |-> g, token |-> x.token,
                   votes |-> x.votes \cup {ballot}]
<1>1. /\ db' = db /\ x.pc = "pair"
      /\ \A v \in x.votes : v.token \in TokensOf(db, g)
    BY DEF VotePair, VInv, VoterOK
<1>2. CASE GoOn(w, Idle)
    BY <1>1, <1>2, IdleVoter, VoterReads
<1>3. CASE ~GoOn(w, Idle)
    <2>1. PICK pair \in PairsOf(db, g) :
              /\ VoteAccepted(x.user, x.token, pair, x.answers, x.votes)
              /\ VoteCounted(w, x, pair, x.votes \cup {ballot})
        BY <1>3 DEF VotePair
    <2>2. /\ FairBallot(db, ballot) /\ x.token \in TokensOf(db, g) /\ ~GoOn(w, Dead)
        BY <1>1, <2>1, CountingIsSafe
    <2>3. VoterOK(db, end)
        BY <1>1, <2>2 DEF VoterOK
    <2>4. ASSUME NEW q \in Questions, NEW news \in Seq(Statements(db)),
                 \A i \in DOMAIN news : IsMessage(news[i]),
                 GoOn(w, Run(news \o <<SetVoting(g, q), InsertVote(ballot)>>))
          PROVE  VInv'
        <3> DEFINE s == SetVoting(g, q)
                   v == InsertVote(ballot)
                   T == Statements(db)
                   todo == news \o <<s, v>>
        <3>1. VoteStatement(db, s) /\ VoteStatement(db, v)
            BY <2>2 DEF VoteStatement, SetVoting, InsertVote
        <3>2. \A i \in DOMAIN news : VoteStatement(db, news[i])
            BY <2>4 DEF VoteStatement
        <3>3. news \in Seq(T)
            OBVIOUS
        <3> HIDE DEF s, v, T
        <3>4. \A i \in DOMAIN todo : (i \in DOMAIN news /\ todo[i] = news[i]) \/ todo[i] \in {s, v}
            BY <3>3
        <3> HIDE DEF todo
        <3>5. VoterOK(db, Run(todo))
            BY <3>1, <3>2, <3>4, RunVoter
        <3> QED
            BY <1>1, <2>4, <3>5, VoterReads DEF todo, s, v
    <2> HIDE DEF end
    <2>5. CASE GoOn(w, end)
        BY <1>1, <2>3, <2>5, VoterReads
    <2> QED
        BY <1>3, <2>2, <2>4, <2>5, VoteOutcome DEF end
<1> QED
    BY <1>2, <1>3

LEMMA GameOverVInv ==
    ASSUME IInv, VInv, NEW w \in Workers, GameOver(w)
    PROVE  VInv'
<1> DEFINE x == worker[w]
           g == x.game
           results == RoundResults(g, x.token, AnswersOf(db, g), x.votes)
           a == Scores(g, x.votes)
           b == SetState(g, "end")
           S == Statements(db)
<1>1. /\ TablesOK(db) /\ Dealt(db) /\ g \in GameIds(db) /\ x.votes \in SUBSET Ballot(db)
      /\ x.token \in TokensOf(db, g) /\ db' = db
    BY CrowdedIsGame DEF GameOver, IInv, WorkerOK, VInv, Fair, VoterOK
<1>2. GoOn(w, Run(results \o <<a, b>>))
    BY <1>1, ResultsFound DEF GameOver
<1>3. results \in Seq(S) /\ \A i \in DOMAIN results : VoteStatement(db, results[i])
    BY <1>1, CopiesOK, RoundResultsOK DEF VoteStatement
<1>4. VoteStatement(db, a) /\ VoteStatement(db, b)
    BY DEF VoteStatement, Scores, SetState, IsMessage
<1> DEFINE todo == results \o <<a, b>>
<1> HIDE DEF results, a, b, S
<1>5. \A i \in DOMAIN todo : (i \in DOMAIN results /\ todo[i] = results[i]) \/ todo[i] \in {a, b}
    BY <1>3
<1> HIDE DEF todo
<1>6. VoterOK(db, Run(todo))
    BY <1>3, <1>4, <1>5, RunVoter
<1> QED
    BY <1>1, <1>2, <1>6, VoterReads DEF todo

LEMMA StatusVInv ==
    ASSUME IInv, VInv, NEW w \in Workers, Status(w)
    PROVE  VInv'
<1> DEFINE g == worker[w].game
           m == Buttons(g, db.game[g].question)
<1>1. db' = db /\ (GoOn(w, Idle) \/ GoOn(w, Run(<<m>>)))
    BY DEF Status
<1>2. VoteStatement(db, m)
    BY DEF VoteStatement, Buttons, IsMessage
<1> HIDE DEF m
<1>3. DOMAIN <<m>> = {1} /\ <<m>>[1] = m
    OBVIOUS
<1>4. VoterOK(db, Run(<<m>>))
    BY <1>2, <1>3, RunVoter
<1> QED
    BY <1>1, <1>4, IdleVoter, VoterReads

LEMMA ExecuteVInv ==
    ASSUME IInv, VInv, NEW w \in Workers, Execute(w)
    PROVE  VInv'
<1> DEFINE todo == worker[w].todo
           x == IF Left(todo) = <<>> THEN Idle ELSE Run(Left(todo))
           T == Statements(db)
<1>1. /\ TablesOK(db) /\ Fair(db) /\ todo \in Seq(T) /\ todo # <<>>
      /\ \A i \in DOMAIN todo : VoteStatement(db, todo[i])
      /\ db' = Apply(db, Head(todo)) /\ GoOn(w, x)
    BY DEF Execute, IInv, WorkerOK, VInv, VoterOK
<1> HIDE DEF todo
<1>2. Head(todo) \in T /\ VoteStatement(db, Head(todo))
    <2> HIDE DEF T
    <2>1. Head(todo) = todo[1] /\ 1 \in DOMAIN todo /\ Head(todo) \in T
        BY <1>1
    <2> QED
        BY <1>1, <2>1
<1>3. SameDeal(db, db') /\ Fair(db')
    BY <1>1, <1>2, VoteStatementEffect
<1>4. Left(todo) = Tail(todo)
    BY <1>2 DEF Left, VoteStatement, IsMessage
<1>5. \A i \in DOMAIN Tail(todo) : VoteStatement(db, Tail(todo)[i])
    <2> HIDE DEF T
    <2>1. \A i \in DOMAIN Tail(todo) : i + 1 \in DOMAIN todo /\ Tail(todo)[i] = todo[i + 1]
        BY <1>1
    <2> QED
        BY <1>1, <2>1
<1>6. VoterOK(db, x)
    BY <1>4, <1>5, IdleVoter, RunVoter
<1>7. VoterOK(db', x)
    BY <1>3, <1>6, DealStays
<1> HIDE DEF x
<1> QED
    BY <1>1, <1>3, <1>7, VoterGoOn

LEMMA FailVInv ==
    ASSUME IInv, VInv, NEW w \in Workers, Fail(w)
    PROVE  VInv'
<1>1. GoOn(w, Idle) /\ db' = db
    BY DEF Fail, StatementFails, MessageFails
<1> QED
    BY <1>1, IdleVoter, VoterReads

LEMMA NextVInv == ASSUME NoNewGames PROVE IInv /\ VInv /\ [Next]_vars => VInv'
<1> SUFFICES ASSUME IInv, VInv, [Next]_vars PROVE VInv'
    OBVIOUS
<1>1. CASE UNCHANGED vars
    BY <1>1, DealStays DEF vars, VInv, SameDeal
<1>2. ASSUME NEW w \in Workers, Step(w) PROVE VInv'
    <2>1. worker[w].pc \in {"idle", "vote", "votes", "pair", "over", "status", "run"}
        BY DEF VInv, VoterOK
    <2>2. ~(CreateGame(w) \/ Join(w) \/ BeginUsers(w) \/ BeginDraw(w) \/ Post(w))
        BY <2>1 DEF CreateGame, Join, BeginUsers, BeginDraw, Post
    <2> QED
        BY <1>2, <2>2, VoteReadsVInv, VotePairVInv, GameOverVInv, StatusVInv, ExecuteVInv DEF Step
<1>3. ASSUME NEW w \in Workers, Receive(w) \/ Fail(w) PROVE VInv'
    BY <1>3, ReceiveVInv, FailVInv
<1> QED
    BY <1>1, <1>2, <1>3 DEF Next, Wait

LEMMA SpecVInv == ASSUME NoNewGames PROVE FairVotingSpec => [](IInv /\ VInv)
<1>1. FairVoting => IInv /\ VInv
    <2> SUFFICES ASSUME FairVoting PROVE IInv /\ VInv
        OBVIOUS
    <2>1. worker = [w \in Workers |-> worker[w]] /\ \A w \in Workers : worker[w] = Idle
        BY DEF FairVoting
    <2> QED
        BY <2>1, IdleOK, IdleVoter DEF FairVoting, IInv, VInv
<1>2. (IInv /\ VInv) /\ [Next]_vars => (IInv /\ VInv)'
    BY NextIInv, NextVInv
<1> QED
    BY <1>1, <1>2, PTL DEF FairVotingSpec

-------------------------------------------------------------------------------
(* What holds however the votes race.                                        *)

(* A vote that is stored is a player's, on a question of two others, though   *)
(* the answers, the votes and the pair were read one after the other.         *)
THEOREM VotesAreFair == ASSUME NoNewGames PROVE FairVotingSpec => []OnlyOthersVote
<1>1. VInv => OnlyOthersVote
    BY DEF VInv, Fair, FairBallot, OnlyOthersVote
<1> QED
    BY <1>1, SpecVInv, PTL

(* Composing the next pair, the results of a round or the scores never        *)
(* panics: no worker is lost to a vote.                                       *)
THEOREM VotersNeverPanic == ASSUME NoNewGames PROVE FairVotingSpec => []NobodyPanics
<1>1. VInv => NobodyPanics
    BY DEF VInv, VoterOK, NobodyPanics
<1> QED
    BY <1>1, SpecVInv, PTL

-------------------------------------------------------------------------------
(* Rounds are shown before they are saved.  Whoever votes has seen a button;  *)
(* what a vote is going to save was shown before or is to be shown before;    *)
(* and it stores its vote only with its game's question on show.              *)

OnShowIn(d, c, g) == Buttons(g, d.game[g].question) \in c

ShownFirst(d, c, todo) ==
    \A i \in DOMAIN todo :
        /\ todo[i].op = "set_voting" =>
              \/ Buttons(todo[i].game, todo[i].question) \in c
              \/ \E j \in DOMAIN todo :
                    j < i /\ todo[j] = Buttons(todo[i].game, todo[i].question)
        /\ todo[i].op = "insert_vote" =>
              /\ todo[i].vote.token \in DOMAIN d.answer
              /\ \/ OnShowIn(d, c, d.answer[todo[i].vote.token].game)
                 \/ \E j \in DOMAIN todo :
                       /\ j < i /\ todo[j].op = "set_voting"
                       /\ todo[j].game = d.answer[todo[i].vote.token].game

ShowerOK(d, c, x) ==
    /\ x.pc \in {"vote", "votes", "pair"} =>
          Buttons(d.answer[x.token].game, d.answer[x.token].question) \in c
    /\ x.pc = "run" => ShownFirst(d, c, x.todo)

RoundShown(d, c) ==
    \A g \in GameIds(d) :
        d.game[g].state = "gather_votes" /\ VotesOf(d, g) # {} => OnShowIn(d, c, g)

RInv ==
    /\ RoundShown(db, chat)
    /\ \A w \in Workers : ShowerOK(db, chat, worker[w])

StaysOnShow(d, c, e, c2) ==
    /\ SameDeal(d, e)
    /\ c \subseteq c2
    /\ \A g \in GameIds(d) : OnShowIn(d, c, g) => OnShowIn(e, c2, g)

LEMMA ShowerStaysOK ==
    ASSUME NEW d, TablesOK(d), NEW c, NEW e, NEW c2, StaysOnShow(d, c, e, c2),
           NEW x, ShowerOK(d, c, x)
    PROVE  ShowerOK(e, c2, x)
<1>1. \A t \in DOMAIN d.answer : d.answer[t].game \in GameIds(d)
    <2>1. \A t \in DOMAIN d.answer : d.answer[t] \in Row(d)
        BY DEF TablesOK
    <2> QED
        BY <2>1 DEF Row
<1>2. e.answer = d.answer /\ c \subseteq c2
    BY DEF StaysOnShow, SameDeal
<1>3. x.pc = "run" => ShownFirst(e, c2, x.todo)
    <2> SUFFICES ASSUME ShownFirst(d, c, x.todo) PROVE ShownFirst(e, c2, x.todo)
        BY DEF ShowerOK
    <2>1. \A i \in DOMAIN x.todo : x.todo[i].op = "set_voting" =>
              \/ Buttons(x.todo[i].game, x.todo[i].question) \in c2
              \/ \E j \in DOMAIN x.todo :
                    j < i /\ x.todo[j] = Buttons(x.todo[i].game, x.todo[i].question)
        BY <1>2 DEF ShownFirst
    <2>2. \A i \in DOMAIN x.todo : x.todo[i].op = "insert_vote" =>
              /\ x.todo[i].vote.token \in DOMAIN d.answer
              /\ \/ OnShowIn(e, c2, d.answer[x.todo[i].vote.token].game)
                 \/ \E j \in DOMAIN x.todo :
                       /\ j < i /\ x.todo[j].op = "set_voting"
                       /\ x.todo[j].game = d.answer[x.todo[i].vote.token].game
        BY <1>1 DEF ShownFirst, StaysOnShow
    <2> QED
        BY <1>2, <2>1, <2>2 DEF ShownFirst
<1> QED
    BY <1>2, <1>3 DEF ShowerOK

(* What the statements of a vote do to what is on show. *)
LEMMA ShowEffect ==
    ASSUME NEW d, TablesOK(d), Fair(d), NEW s \in Statements(d), VoteStatement(d, s),
           NEW c, RoundShown(d, c), NEW e, e = Apply(d, s),
           NEW c2, c2 = IF IsMessage(s) THEN c \cup {s} ELSE c,
           s.op = "set_voting" => Buttons(s.game, s.question) \in c,
           s.op = "insert_vote" => /\ s.vote.token \in DOMAIN d.answer
                                   /\ OnShowIn(d, c, d.answer[s.vote.token].game)
    PROVE  /\ RoundShown(e, c2)
           /\ StaysOnShow(d, c, e, c2)
           /\ s.op = "set_voting" => OnShowIn(e, c2, s.game)
<1>1. SameDeal(d, e) /\ c \subseteq c2 /\ \A g : TokensOf(e, g) = TokensOf(d, g)
    BY VoteStatementEffect DEF SameDeal, TokensOf
<1>2. d.game \in Seq(GameRow)
    BY DEF TablesOK
<1>3. CASE s.op = "set_voting"
    <2>1. PICK g, q : s = SetVoting(g, q) /\ g \in GameIds(d)
        <3>1. \A p \in Votable(d) : p[1] \in GameIds(d)
            BY DEF Votable, Crowded
        <3> QED
            BY <1>3, <3>1 DEF Statements, InsertUser, SetState, InsertAnswer, UpdateAnswers,
                InsertVote, Buttons, Results, Scores
    <2> DEFINE row == [state |-> "gather_votes", question |-> q]
    <2>2. e = [game |-> [d.game EXCEPT ![g] = row],
               game_user |-> d.game_user, answer |-> d.answer, vote |-> d.vote]
        BY <2>1, Applied
    <2>3. row.question = q /\ s.game = g /\ s.question = q
        BY <2>1 DEF SetVoting
    <2> HIDE DEF row
    <2>4. /\ e.vote = d.vote /\ GameIds(e) = GameIds(d)
          /\ \A h \in GameIds(d) : e.game[h] = IF h = g THEN row ELSE d.game[h]
        BY <1>2, <2>2 DEF GameIds
    <2>5. \A h : VotesOf(e, h) = VotesOf(d, h)
        BY <1>1, <2>4 DEF VotesOf
    <2>6. OnShowIn(e, c2, g)
        BY <1>1, <1>3, <2>1, <2>3, <2>4 DEF OnShowIn
    <2>7. \A h \in GameIds(d) : OnShowIn(d, c, h) => OnShowIn(e, c2, h)
        BY <1>1, <2>4, <2>6 DEF OnShowIn
    <2>8. RoundShown(e, c2)
        BY <2>4, <2>5, <2>6, <2>7 DEF RoundShown
    <2> QED
        BY <1>1, <2>3, <2>6, <2>7, <2>8 DEF StaysOnShow
<1>4. CASE s.op = "set_state"
    <2>1. PICK g : s = SetState(g, "end") /\ g \in GameIds(d)
        BY <1>4, CrowdedIsGame DEF Statements, VoteStatement, InsertUser, SetState, SetVoting,
            InsertAnswer, UpdateAnswers, InsertVote, Buttons, Results, Scores, IsMessage
    <2> DEFINE row == [d.game[g] EXCEPT !.state = "end"]
    <2>2. e = [game |-> [d.game EXCEPT ![g] = row],
               game_user |-> d.game_user, answer |-> d.answer, vote |-> d.vote]
        BY <2>1, Applied
    <2>3. row.question = d.game[g].question /\ row.state = "end"
        <3>1. d.game[g] \in GameRow
            BY <1>2, <2>1 DEF GameIds
        <3> QED
            BY <3>1 DEF GameRow
    <2> HIDE DEF row
    <2>4. /\ e.vote = d.vote /\ GameIds(e) = GameIds(d)
          /\ \A h \in GameIds(d) : e.game[h] = IF h = g THEN row ELSE d.game[h]
        BY <1>2, <2>2 DEF GameIds
    <2>5. \A h : VotesOf(e, h) = VotesOf(d, h)
        BY <1>1, <2>4 DEF VotesOf
    <2>6. \A h \in GameIds(d) : e.game[h].question = d.game[h].question
        BY <2>3, <2>4
    <2>7. \A h \in GameIds(d) : OnShowIn(d, c, h) => OnShowIn(e, c2, h)
        BY <1>1, <2>6 DEF OnShowIn
    <2>8. RoundShown(e, c2)
        BY <2>3, <2>4, <2>5, <2>7 DEF RoundShown
    <2> QED
        BY <1>1, <1>4, <2>7, <2>8 DEF StaysOnShow
<1>5. CASE s.op = "insert_vote"
    <2>1. PICK v : s = InsertVote(v)
        BY <1>5 DEF Statements, InsertUser, SetState, SetVoting,
            InsertAnswer, UpdateAnswers, Buttons, Results, Scores
    <2>2. e.vote = d.vote \cup {v} /\ e.game = d.game
        BY <2>1, Applied
    <2> DEFINE g == d.answer[v.token].game
    <2>3. s.vote = v /\ OnShowIn(d, c, g)
        BY <1>5, <2>1 DEF InsertVote
    <2>4. \A h \in GameIds(d) : OnShowIn(d, c, h) => OnShowIn(e, c2, h)
        BY <1>1, <2>2 DEF OnShowIn
    <2>5. \A h : h # g => VotesOf(e, h) = VotesOf(d, h)
        BY <1>1, <2>2 DEF VotesOf, TokensOf
    <2> HIDE DEF g
    <2>6. RoundShown(e, c2)
        <3> SUFFICES ASSUME NEW h \in GameIds(d), e.game[h].state = "gather_votes",
                            VotesOf(e, h) # {}
                     PROVE  OnShowIn(d, c, h)
            BY <2>2, <2>4 DEF RoundShown, GameIds
        <3> QED
            BY <2>2, <2>3, <2>5 DEF RoundShown
    <2> QED
        BY <1>1, <1>5, <2>4, <2>6 DEF StaysOnShow
<1>6. CASE IsMessage(s)
    <2>1. e = d /\ s.op # "set_voting"
        BY <1>6 DEF Apply, IsMessage
    <2> QED
        BY <1>1, <2>1 DEF RoundShown, StaysOnShow, OnShowIn
<1> QED
    BY <1>3, <1>4, <1>5, <1>6 DEF VoteStatement

LEMMA ShowerGoesOn ==
    ASSUME IInv, VInv, RInv, NEW w \in Workers, NEW x, GoOn(w, x), ShowerOK(db, chat, x),
           db' = db, chat' = chat
    PROVE  RInv'
<1>1. worker'[w] = x /\ \A v \in Workers \ {w} : worker'[v] = worker[v]
    BY DEF GoOn, IInv
<1> QED
    BY <1>1 DEF RInv

LEMMA IdleShower == \A d, c : ShowerOK(d, c, Idle)
BY DEF ShowerOK, Idle

LEMMA RunShower ==
    ASSUME NEW d, NEW c, NEW todo, ShownFirst(d, c, todo)
    PROVE  ShowerOK(d, c, Run(todo))
BY DEF ShowerOK, Run

LEMMA NothingToShow ==
    ASSUME NEW d, NEW c, NEW todo,
           \A i \in DOMAIN todo : todo[i].op \notin {"set_voting", "insert_vote"}
    PROVE  ShownFirst(d, c, todo)
BY DEF ShownFirst

LEMMA ReceiveRInv ==
    ASSUME NoNewGames, IInv, VInv, RInv, NEW w \in Workers, Receive(w)
    PROVE  RInv'
<1>1. \A g \in Running(db) : db.game[g].state = "gather_votes"
    BY DEF Running, VInv, Fair
<1>2. ~\E u \in Users : FindNew(w, u)
    BY DEF FindNew, NoNewGames
<1>3. ~\E u \in Users : FindJoin(w, u)
    BY <1>1 DEF FindJoin, Find
<1>4. ~FindBegin(w)
    BY <1>1 DEF FindBegin, Find
<1>5. ~\E t \in DOMAIN db.answer, r \in Responses : FindPost(w, t, r)
    BY <1>1 DEF FindPost, Find
<1>6. ASSUME NEW u \in Users, NEW t \in DOMAIN db.answer, FindVote(w, u, t) PROVE RInv'
    <2> DEFINE x(g) == [pc |-> "vote", game |-> g, user |-> u, token |-> t]
    <2>1. PICK g : /\ GoOn(w, x(g)) /\ db' = db /\ chat' = chat
                   /\ Buttons(db.answer[t].game, db.answer[t].question) \in chat
        BY <1>6 DEF FindVote, Find
    <2>2. ShowerOK(db, chat, x(g))
        BY <2>1 DEF ShowerOK
    <2> QED
        BY <2>1, <2>2, ShowerGoesOn
<1>7. CASE FindEnd(w)
    <2>1. PICK g : GoOn(w, Run(<<SetState(g, "end")>>)) /\ db' = db /\ chat' = chat
        BY <1>7 DEF FindEnd, Find
    <2> DEFINE s == SetState(g, "end")
    <2>2. s.op = "set_state"
        BY DEF SetState
    <2> HIDE DEF s
    <2>3. DOMAIN <<s>> = {1} /\ <<s>>[1] = s
        OBVIOUS
    <2>4. ShowerOK(db, chat, Run(<<s>>))
        BY <2>2, <2>3, NothingToShow, RunShower
    <2> QED
        BY <2>1, <2>4, ShowerGoesOn DEF s
<1>8. CASE FindStatus(w)
    <2> DEFINE x(g) == [pc |-> "status", game |-> g]
    <2>1. PICK g : GoOn(w, x(g)) /\ db' = db /\ chat' = chat
        BY <1>8 DEF FindStatus, Find
    <2>2. ShowerOK(db, chat, x(g))
        BY DEF ShowerOK
    <2> QED
        BY <2>1, <2>2, ShowerGoesOn
<1> QED
    BY <1>2, <1>3, <1>4, <1>5, <1>6, <1>7, <1>8 DEF Receive

LEMMA VoteReadsRInv ==
    ASSUME IInv, VInv, RInv, NEW w \in Workers, VoteAnswers(w) \/ VoteVotes(w)
    PROVE  RInv'
<1> DEFINE x == worker[w]
           y == [pc |-> "votes", game |-> x.game, user |-> x.user, token |-> x.token,
                 answers |-> AnswersOf(db, x.game)]
           z == [pc |-> "pair", game |-> x.game, user |-> x.user, token |-> x.token,
                 answers |-> x.answers, votes |-> VotesOf(db, x.game)]
<1>1. Buttons(db.answer[x.token].game, db.answer[x.token].question) \in chat
    BY DEF VoteAnswers, VoteVotes, RInv, ShowerOK
<1>2. ShowerOK(db, chat, y) /\ ShowerOK(db, chat, z)
    BY <1>1 DEF ShowerOK
<1>3. (GoOn(w, y) \/ GoOn(w, z)) /\ db' = db /\ chat' = chat
    BY DEF VoteAnswers, VoteVotes
<1> HIDE DEF y, z
<1> QED
    BY <1>2, <1>3, ShowerGoesOn

(* The question a vote is going to save is the one it is about, of which the  *)
(* buttons were pressed, or it is announced by the same vote.                 *)
LEMMA VotePairRInv ==
    ASSUME IInv, VInv, RInv, NEW w \in Workers, VotePair(w)
    PROVE  RInv'
<1> DEFINE x == worker[w]
           g == x.game
           ballot == [user |-> x.user, token |-> x.token]
           end == [pc |-> "over", game |-> g, token |-> x.token,
                   votes |-> x.votes \cup {ballot}]
<1>1. /\ db' = db /\ chat' = chat /\ x.pc = "pair"
      /\ Buttons(db.answer[x.token].game, db.answer[x.token].question) \in chat
    BY DEF VotePair, RInv, ShowerOK
<1>2. CASE GoOn(w, Idle)
    BY <1>1, <1>2, IdleShower, ShowerGoesOn
<1>3. CASE ~GoOn(w, Idle)
    <2>1. PICK pair \in PairsOf(db, x.game) :
              /\ VoteAccepted(x.user, x.token, pair, x.answers, x.votes)
              /\ VoteCounted(w, x, pair, x.votes \cup {ballot})
        BY <1>3 DEF VotePair
    <2>2. x.token \in TokensOf(db, g) /\ ~GoOn(w, Dead)
        BY <1>1, <2>1, CountingIsSafe
    <2>3. x.token \in DOMAIN db.answer /\ db.answer[x.token].game = g
        BY <2>2 DEF TokensOf
    <2>4. ShowerOK(db, chat, end)
        BY DEF ShowerOK
    <2>5. ASSUME NEW q \in Questions, NEW news \in Seq(Statements(db)),
                 \A i \in DOMAIN news : IsMessage(news[i]),
                 \/ \E i \in DOMAIN news : news[i] = Buttons(g, q)
                 \/ q = db.answer[x.token].question,
                 GoOn(w, Run(news \o <<SetVoting(g, q), InsertVote(ballot)>>))
          PROVE  RInv'
        <3> DEFINE s == SetVoting(g, q)
                   v == InsertVote(ballot)
                   T == Statements(db)
                   n == Len(news)
                   todo == news \o <<s, v>>
        <3>1. /\ s.op = "set_voting" /\ s.game = g /\ s.question = q
              /\ v.op = "insert_vote" /\ v.vote.token = x.token
            BY DEF SetVoting, InsertVote
        <3>2. \A i \in DOMAIN news : news[i].op \notin {"set_voting", "insert_vote"}
            BY <2>5 DEF IsMessage
        <3>3. news \in Seq(T)
            OBVIOUS
        <3>4. Buttons(g, q) \in chat \/ \E i \in DOMAIN news : news[i] = Buttons(g, q)
            BY <1>1, <2>3, <2>5
        <3> HIDE DEF s, v, T
        <3>5. /\ n \in Nat /\ DOMAIN news = 1 .. n /\ DOMAIN todo = 1 .. (n + 2)
              /\ \A i \in DOMAIN news : todo[i] = news[i]
              /\ todo[n + 1] = s /\ todo[n + 2] = v
            BY <3>3
        <3> HIDE DEF todo, n
        <3>6. \A i \in DOMAIN todo : i \in DOMAIN news \/ i = n + 1 \/ i = n + 2
            BY <3>5
        <3>7. ASSUME NEW i \in DOMAIN todo, todo[i].op = "set_voting"
              PROVE  /\ todo[i].game = g /\ todo[i].question = q
                     /\ \/ Buttons(g, q) \in chat
                        \/ \E j \in DOMAIN todo : j < i /\ todo[j] = Buttons(g, q)
            <4>1. i = n + 1
                BY <3>1, <3>2, <3>5, <3>6, <3>7
            <4>2. \A j \in DOMAIN news : j \in DOMAIN todo /\ j < i /\ todo[j] = news[j]
                BY <3>5, <4>1
            <4> QED
                BY <3>1, <3>4, <3>5, <4>1, <4>2
        <3>8. ASSUME NEW i \in DOMAIN todo, todo[i].op = "insert_vote"
              PROVE  /\ todo[i].vote.token = x.token
                     /\ \E j \in DOMAIN todo : j < i /\ todo[j].op = "set_voting" /\ todo[j].game = g
            <4>1. i = n + 2
                BY <3>1, <3>2, <3>5, <3>6, <3>8
            <4>2. n + 1 \in DOMAIN todo /\ n + 1 < i
                BY <3>5, <4>1
            <4> QED
                BY <3>1, <3>5, <4>1, <4>2
        <3>9. ShownFirst(db, chat, todo)
            BY <2>3, <3>7, <3>8 DEF ShownFirst
        <3> QED
            BY <1>1, <2>5, <3>9, RunShower, ShowerGoesOn DEF todo, s, v
    <2> HIDE DEF end
    <2>6. CASE GoOn(w, end)
        BY <1>1, <2>4, <2>6, ShowerGoesOn
    <2> QED
        BY <1>3, <2>2, <2>5, <2>6, VoteOutcome DEF end
<1> QED
    BY <1>2, <1>3

LEMMA GameOverRInv ==
    ASSUME IInv, VInv, RInv, NEW w \in Workers, GameOver(w)
    PROVE  RInv'
<1> DEFINE x == worker[w]
           g == x.game
           results == RoundResults(g, x.token, AnswersOf(db, g), x.votes)
           a == Scores(g, x.votes)
           b == SetState(g, "end")
           S == Statements(db)
<1>1. /\ TablesOK(db) /\ Dealt(db) /\ g \in GameIds(db) /\ x.votes \in SUBSET Ballot(db)
      /\ x.token \in TokensOf(db, g) /\ db' = db /\ chat' = chat
    BY CrowdedIsGame DEF GameOver, IInv, WorkerOK, VInv, Fair, VoterOK
<1>2. GoOn(w, Run(results \o <<a, b>>))
    BY <1>1, ResultsFound DEF GameOver
<1>3. results \in Seq(S) /\ \A i \in DOMAIN results : results[i].op \notin {"set_voting", "insert_vote"}
    BY <1>1, CopiesOK, RoundResultsOK DEF IsMessage
<1>4. a.op = "scores" /\ b.op = "set_state"
    BY DEF Scores, SetState
<1> DEFINE todo == results \o <<a, b>>
<1> HIDE DEF results, a, b, S
<1>5. \A i \in DOMAIN todo : (i \in DOMAIN results /\ todo[i] = results[i]) \/ todo[i] \in {a, b}
    BY <1>3
<1> HIDE DEF todo
<1>6. ShowerOK(db, chat, Run(todo))
    BY <1>3, <1>4, <1>5, NothingToShow, RunShower
<1> QED
    BY <1>1, <1>2, <1>6, ShowerGoesOn DEF todo

LEMMA StatusRInv ==
    ASSUME IInv, VInv, RInv, NEW w \in Workers, Status(w)
    PROVE  RInv'
<1> DEFINE g == worker[w].game
           m == Buttons(g, db.game[g].question)
<1>1. db' = db /\ chat' = chat /\ (GoOn(w, Idle) \/ GoOn(w, Run(<<m>>)))
    BY DEF Status
<1>2. m.op = "buttons"
    BY DEF Buttons
<1> HIDE DEF m
<1>3. DOMAIN <<m>> = {1} /\ <<m>>[1] = m
    OBVIOUS
<1>4. ShowerOK(db, chat, Run(<<m>>))
    BY <1>2, <1>3, NothingToShow, RunShower
<1> QED
    BY <1>1, <1>4, IdleShower, ShowerGoesOn

(* What is left to do rests on what has been done: a message is in the group, *)
(* or a question that was shown is saved.                                     *)
LEMMA RestIsShownFirst ==
    ASSUME NEW d, NEW c, NEW T, NEW todo \in Seq(T), todo # <<>>, ShownFirst(d, c, todo),
           IsMessage(Head(todo)) => Head(todo) \in c,
           Head(todo).op = "set_voting" => OnShowIn(d, c, Head(todo).game)
    PROVE  ShownFirst(d, c, Tail(todo))
<1> DEFINE rest == Tail(todo)
<1>1. /\ Head(todo) = todo[1]
      /\ \A i \in DOMAIN rest : i + 1 \in DOMAIN todo /\ i \in Nat /\ rest[i] = todo[i + 1]
      /\ \A j \in DOMAIN todo : j # 1 => j - 1 \in DOMAIN rest /\ rest[j - 1] = todo[j]
      /\ DOMAIN todo \subseteq Nat
    OBVIOUS
<1> HIDE DEF rest
<1>2. ASSUME NEW i \in DOMAIN rest, rest[i].op = "set_voting"
      PROVE  \/ Buttons(rest[i].game, rest[i].question) \in c
             \/ \E j \in DOMAIN rest : j < i /\ rest[j] = Buttons(rest[i].game, rest[i].question)
    <2> DEFINE m == Buttons(rest[i].game, rest[i].question)
    <2>1. IsMessage(m)
        BY DEF IsMessage, Buttons
    <2>2. m \in c \/ \E j \in DOMAIN todo : j < i + 1 /\ todo[j] = m
        BY <1>1, <1>2 DEF ShownFirst
    <2> HIDE DEF m
    <2>3. ASSUME NEW j \in DOMAIN todo, j < i + 1, todo[j] = m
          PROVE  m \in c \/ \E k \in DOMAIN rest : k < i /\ rest[k] = m
        <3>1. CASE j = 1
            BY <1>1, <2>1, <2>3, <3>1
        <3>2. CASE j # 1
            <4>1. j - 1 \in DOMAIN rest /\ rest[j - 1] = m /\ j - 1 < i
                BY <1>1, <2>3, <3>2
            <4> QED
                BY <4>1
        <3> QED
            BY <3>1, <3>2
    <2> QED
        BY <2>2, <2>3 DEF m
<1>3. ASSUME NEW i \in DOMAIN rest, rest[i].op = "insert_vote"
      PROVE  /\ rest[i].vote.token \in DOMAIN d.answer
             /\ \/ OnShowIn(d, c, d.answer[rest[i].vote.token].game)
                \/ \E j \in DOMAIN rest :
                      /\ j < i /\ rest[j].op = "set_voting"
                      /\ rest[j].game = d.answer[rest[i].vote.token].game
    <2> DEFINE g == d.answer[rest[i].vote.token].game
    <2>1. /\ rest[i].vote.token \in DOMAIN d.answer
          /\ \/ OnShowIn(d, c, g)
             \/ \E j \in DOMAIN todo : j < i + 1 /\ todo[j].op = "set_voting" /\ todo[j].game = g
        BY <1>1, <1>3 DEF ShownFirst
    <2> HIDE DEF g
    <2>2. ASSUME NEW j \in DOMAIN todo, j < i + 1, todo[j].op = "set_voting", todo[j].game = g
          PROVE  \/ OnShowIn(d, c, g)
                 \/ \E k \in DOMAIN rest : k < i /\ rest[k].op = "set_voting" /\ rest[k].game = g
        <3>1. CASE j = 1
            BY <1>1, <2>2, <3>1
        <3>2. CASE j # 1
            <4>1. j - 1 \in DOMAIN rest /\ rest[j - 1] = todo[j] /\ j - 1 < i
                BY <1>1, <2>2, <3>2
            <4> QED
                BY <2>2, <4>1
        <3> QED
            BY <3>1, <3>2
    <2> QED
        BY <2>1, <2>2 DEF g
<1> QED
    BY <1>2, <1>3 DEF ShownFirst, rest

LEMMA ExecuteRInv ==
    ASSUME IInv, VInv, RInv, NEW w \in Workers, Execute(w)
    PROVE  RInv'
<1> DEFINE todo == worker[w].todo
           s == Head(todo)
           x == IF Left(todo) = <<>> THEN Idle ELSE Run(Left(todo))
           T == Statements(db)
<1>1. /\ TablesOK(db) /\ Fair(db) /\ todo \in Seq(T) /\ todo # <<>>
      /\ \A i \in DOMAIN todo : VoteStatement(db, todo[i])
      /\ db' = Apply(db, s) /\ chat' = IF IsMessage(s) THEN chat \cup {s} ELSE chat
      /\ GoOn(w, x) /\ ShowerOK(db, chat, Run(todo)) /\ ShownFirst(db, chat, todo)
      /\ RoundShown(db, chat)
    BY RunShower DEF Execute, IInv, WorkerOK, VInv, VoterOK, RInv, ShowerOK
<1>2. /\ 1 \in DOMAIN todo /\ s = todo[1] /\ s \in T /\ DOMAIN todo \subseteq Nat \ {0}
    <2> HIDE DEF todo, T
    <2> QED
        BY <1>1
<1> HIDE DEF todo, s
<1>3. VoteStatement(db, s)
    BY <1>1, <1>2
<1>4. \A j \in DOMAIN todo : ~(j < 1)
    BY <1>2
<1>5. s.op = "set_voting" => Buttons(s.game, s.question) \in chat
    BY <1>1, <1>2, <1>4 DEF ShownFirst
<1>6. s.op = "insert_vote" => /\ s.vote.token \in DOMAIN db.answer
                              /\ OnShowIn(db, chat, db.answer[s.vote.token].game)
    BY <1>1, <1>2, <1>4 DEF ShownFirst
<1>7. /\ RoundShown(db', chat') /\ StaysOnShow(db, chat, db', chat')
      /\ s.op = "set_voting" => OnShowIn(db', chat', s.game)
    BY <1>1, <1>2, <1>3, <1>5, <1>6, ShowEffect
<1>8. ShownFirst(db', chat', todo)
    <2>1. ShowerOK(db', chat', Run(todo))
        BY <1>1, <1>7, ShowerStaysOK
    <2> QED
        BY <2>1 DEF ShowerOK, Run
<1>9. ShownFirst(db', chat', Tail(todo))
    BY <1>1, <1>7, <1>8, RestIsShownFirst DEF s
<1>10. ShowerOK(db', chat', x)
    <2>1. Left(todo) = Tail(todo)
        BY <1>3 DEF Left, VoteStatement, IsMessage, s
    <2> QED
        BY <1>9, <2>1, IdleShower, RunShower
<1> HIDE DEF x
<1>11. worker'[w] = x /\ \A v \in Workers \ {w} : worker'[v] = worker[v]
    BY <1>1 DEF GoOn, IInv
<1>12. \A v \in Workers \ {w} : ShowerOK(db', chat', worker[v])
    BY <1>1, <1>7, ShowerStaysOK DEF RInv
<1> QED
    BY <1>7, <1>10, <1>11, <1>12 DEF RInv

LEMMA FailRInv ==
    ASSUME IInv, VInv, RInv, NEW w \in Workers, Fail(w)
    PROVE  RInv'
<1>1. GoOn(w, Idle) /\ db' = db /\ chat \subseteq chat'
    BY DEF Fail, StatementFails, MessageFails
<1>2. StaysOnShow(db, chat, db', chat') /\ RoundShown(db', chat') /\ TablesOK(db)
    BY <1>1 DEF StaysOnShow, SameDeal, OnShowIn, RoundShown, RInv, IInv
<1>3. worker'[w] = Idle /\ \A v \in Workers \ {w} : worker'[v] = worker[v]
    BY <1>1 DEF GoOn, IInv
<1>4. \A v \in Workers \ {w} : ShowerOK(db', chat', worker[v])
    BY <1>2, ShowerStaysOK DEF RInv
<1> QED
    BY <1>2, <1>3, <1>4, IdleShower DEF RInv

LEMMA NextRInv == ASSUME NoNewGames PROVE IInv /\ VInv /\ RInv /\ [Next]_vars => RInv'
<1> SUFFICES ASSUME IInv, VInv, RInv, [Next]_vars PROVE RInv'
    OBVIOUS
<1>1. CASE UNCHANGED vars
    BY <1>1 DEF vars, RInv
<1>2. ASSUME NEW w \in Workers, Step(w) PROVE RInv'
    <2>1. worker[w].pc \in {"idle", "vote", "votes", "pair", "over", "status", "run"}
        BY DEF VInv, VoterOK
    <2>2. ~(CreateGame(w) \/ Join(w) \/ BeginUsers(w) \/ BeginDraw(w) \/ Post(w))
        BY <2>1 DEF CreateGame, Join, BeginUsers, BeginDraw, Post
    <2> QED
        BY <1>2, <2>2, VoteReadsRInv, VotePairRInv, GameOverRInv, StatusRInv, ExecuteRInv DEF Step
<1>3. ASSUME NEW w \in Workers, Receive(w) \/ Fail(w) PROVE RInv'
    BY <1>3, ReceiveRInv, FailRInv
<1> QED
    BY <1>1, <1>2, <1>3 DEF Next, Wait

(* The group has seen the buttons of the rounds so far. *)
ShownVotingSpec == FairVoting /\ RoundOnShow /\ [][Next]_vars

(* Once there are votes, the buttons of the question the game waits for were  *)
(* sent, however the votes race, whatever fails, and also if /end comes in    *)
(* between and a vote saves its game again.                                   *)
THEOREM RoundsAreShown == ASSUME NoNewGames PROVE ShownVotingSpec => []RoundOnShow
<1>1. RoundShown(db, chat) <=> RoundOnShow
    BY DEF RoundShown, RoundOnShow, Voting, OnShow, OnShowIn
<1>2. FairVoting /\ RoundOnShow => RInv
    <2>1. FairVoting => \A w \in Workers : worker[w] = Idle
        BY DEF FairVoting
    <2> QED
        BY <1>1, <2>1, IdleShower DEF RInv
<1>3. IInv /\ VInv /\ RInv /\ [Next]_vars => RInv'
    BY NextRInv
<1>4. RInv => RoundOnShow
    BY <1>1 DEF RInv
<1>5. FairVotingSpec => [](IInv /\ VInv)
    BY SpecVInv
<1> QED
    BY <1>2, <1>3, <1>4, <1>5, PTL DEF FairVotingSpec, ShownVotingSpec

-------------------------------------------------------------------------------
(* One worker.  A vote is counted on copies that are not stale, its results   *)
(* are sent before the question is saved, and the question before the vote.   *)

(* The votes that are stored on question q of game g. *)
StoredOn(d, g, q) == {v \in VotesOf(d, g) : d.answer[v.token].question = q}

(* Once the vote v is stored too, some results in c count all votes on q. *)
ReportedWith(d, c, g, q, v) ==
    \E m \in c :
        /\ m.op = "results" /\ m.game = g /\ m.question = q
        /\ StoredOn(d, g, q) \cup {v} \subseteq m.votes

Reported(d, c) ==
    \A g \in GameIds(d) : d.game[g].state = "gather_votes" =>
        \A v \in VotesOf(d, g) :
            LET q == d.answer[v.token].question
            IN  q # d.game[g].question => ReportedWith(d, c, g, q, v)

Once(d) ==
    \A v, w \in d.vote :
        /\ v.user = w.user
        /\ d.answer[v.token].game = d.answer[w.token].game
        /\ d.answer[v.token].question = d.answer[w.token].question
        => v = w

(* The scores m count every vote that is stored, and votes on every question. *)
TrueScores(d, m) ==
    /\ VotesOf(d, m.game) \subseteq m.votes
    /\ VotedQuestions(AnswersOf(d, m.game), m.votes) = AskedQuestions(AnswersOf(d, m.game))

(* Every vote that is accepted now ends the game, and is not stored. *)
LastRound(d, g) ==
    AskedQuestions(AnswersOf(d, g)) \subseteq
        VotedQuestions(AnswersOf(d, g), VotesOf(d, g)) \cup {d.game[g].question}

ScoresOf(c, g) == {m \in c : m.op = "scores" /\ m.game = g}

(* Scores were sent in the last round only, and stay true until it ends. *)
Scored(d, c) ==
    \A g \in GameIds(d) :
        /\ d.game[g].state = "gather_votes" =>
              \A m \in ScoresOf(c, g) : TrueScores(d, m) /\ LastRound(d, g)
        /\ d.game[g].state = "end" /\ ScoresOf(c, g) # {} =>
              \E m \in ScoresOf(c, g) : TrueScores(d, m)

(* The messages sent, and those of todo. *)
Heard(c, todo) == c \cup {todo[i] : i \in {j \in DOMAIN todo : IsMessage(todo[j])}}

(* A vote about to be stored is the voter's first on its question, of a game  *)
(* without scores; the question is the one on show, or was reported.          *)
NewVote(d, h, v) ==
    LET g == d.answer[v.token].game
        q == d.answer[v.token].question
    IN  /\ d.game[g].state = "gather_votes"
        /\ \A w \in StoredOn(d, g, q) : w.user # v.user
        /\ ScoresOf(h, g) = {}
        /\ q = d.game[g].question \/ ReportedWith(d, h, g, q, v)

(* The question about to be saved is the one on show, or that one was         *)
(* reported together with the vote that follows.                              *)
NewRound(d, h, g, q, v) ==
    /\ d.answer[v.token].game = g
    /\ d.answer[v.token].question = d.game[g].question
    /\ q = d.game[g].question \/ ReportedWith(d, h, g, d.game[g].question, v)

PlanOK(d, c, todo) ==
    \A i \in DOMAIN todo :
        /\ todo[i].op = "set_state" => i = Len(todo)
        /\ todo[i].op = "scores" =>
              /\ d.game[todo[i].game].state = "gather_votes"
              /\ TrueScores(d, todo[i]) /\ LastRound(d, todo[i].game)
        /\ todo[i].op = "insert_vote" =>
              i = Len(todo) /\ NewVote(d, Heard(c, todo), todo[i].vote)
        /\ todo[i].op = "set_voting" =>
              /\ i + 1 = Len(todo) /\ todo[i + 1].op = "insert_vote"
              /\ NewRound(d, Heard(c, todo), todo[i].game, todo[i].question, todo[i + 1].vote)

CounterOK(d, c, x) ==
    /\ x.pc \in {"vote", "votes", "pair", "over"} => d.game[x.game].state = "gather_votes"
    /\ x.pc = "pair" => x.votes = VotesOf(d, x.game)
    /\ x.pc = "over" => TrueScores(d, Scores(x.game, x.votes)) /\ LastRound(d, x.game)
    /\ x.pc = "run" => PlanOK(d, c, x.todo)

CInv ==
    /\ Once(db) /\ Reported(db, chat) /\ Scored(db, chat)
    /\ \A w \in Workers : CounterOK(db, chat, worker[w])

LEMMA CounterGoesOn ==
    ASSUME SingleWorker, IInv, NEW w \in Workers, NEW x, GoOn(w, x), CounterOK(db', chat', x),
           Once(db'), Reported(db', chat'), Scored(db', chat')
    PROVE  CInv'
<1>1. worker'[w] = x /\ \A v \in Workers : v = w
    BY DEF GoOn, IInv, SingleWorker
<1> QED
    BY <1>1 DEF CInv

LEMMA CounterReads ==
    ASSUME SingleWorker, IInv, CInv, NEW w \in Workers, NEW x, GoOn(w, x),
           CounterOK(db, chat, x), db' = db, chat' = chat
    PROVE  CInv'
BY CounterGoesOn DEF CInv

LEMMA IdleCounter == \A d, c : CounterOK(d, c, Idle)
BY DEF CounterOK, Idle

LEMMA RunCounter ==
    ASSUME NEW d, NEW c, NEW todo, PlanOK(d, c, todo)
    PROVE  CounterOK(d, c, Run(todo))
BY DEF CounterOK, Run

LEMMA OneStepPlan ==
    ASSUME NEW d, NEW c, NEW s, s.op \in {"set_state", "buttons"}
    PROVE  CounterOK(d, c, Run(<<s>>))
<1>1. DOMAIN <<s>> = {1} /\ <<s>>[1] = s /\ Len(<<s>>) = 1
    OBVIOUS
<1>2. PlanOK(d, c, <<s>>)
    BY <1>1 DEF PlanOK
<1> QED
    BY <1>2, RunCounter

LEMMA ReceiveCInv ==
    ASSUME SingleWorker, NoNewGames, IInv, VInv, CInv, NEW w \in Workers, Receive(w)
    PROVE  CInv'
<1>1. \A g \in Running(db) : db.game[g].state = "gather_votes"
    BY DEF Running, VInv, Fair
<1>2. ~\E u \in Users : FindNew(w, u)
    BY DEF FindNew, NoNewGames
<1>3. ~\E u \in Users : FindJoin(w, u)
    BY <1>1 DEF FindJoin, Find
<1>4. ~FindBegin(w)
    BY <1>1 DEF FindBegin, Find
<1>5. ~\E t \in DOMAIN db.answer, r \in Responses : FindPost(w, t, r)
    BY <1>1 DEF FindPost, Find
<1>6. ASSUME NEW u \in Users, NEW t \in DOMAIN db.answer, FindVote(w, u, t) PROVE CInv'
    <2> DEFINE x(g) == [pc |-> "vote", game |-> g, user |-> u, token |-> t]
    <2>1. PICK g : /\ GoOn(w, x(g)) /\ db' = db /\ chat' = chat
                   /\ db.game[g].state = "gather_votes"
        BY <1>6 DEF FindVote, Find
    <2>2. CounterOK(db, chat, x(g))
        BY <2>1 DEF CounterOK
    <2> QED
        BY <2>1, <2>2, CounterReads
<1>7. CASE FindEnd(w)
    <2>1. PICK g : GoOn(w, Run(<<SetState(g, "end")>>)) /\ db' = db /\ chat' = chat
        BY <1>7 DEF FindEnd, Find
    <2>2. SetState(g, "end").op = "set_state"
        BY DEF SetState
    <2> QED
        BY <2>1, <2>2, OneStepPlan, CounterReads
<1>8. CASE FindStatus(w)
    <2> DEFINE x(g) == [pc |-> "status", game |-> g]
    <2>1. PICK g : GoOn(w, x(g)) /\ db' = db /\ chat' = chat
        BY <1>8 DEF FindStatus, Find
    <2>2. CounterOK(db, chat, x(g))
        BY DEF CounterOK
    <2> QED
        BY <2>1, <2>2, CounterReads
<1> QED
    BY <1>2, <1>3, <1>4, <1>5, <1>6, <1>7, <1>8 DEF Receive

LEMMA StatusCInv ==
    ASSUME SingleWorker, IInv, CInv, NEW w \in Workers, Status(w)
    PROVE  CInv'
<1> DEFINE g == worker[w].game
           m == Buttons(g, db.game[g].question)
<1>1. db' = db /\ chat' = chat /\ (GoOn(w, Idle) \/ GoOn(w, Run(<<m>>)))
    BY DEF Status
<1>2. m.op = "buttons"
    BY DEF Buttons
<1> HIDE DEF m
<1> QED
    BY <1>1, <1>2, IdleCounter, OneStepPlan, CounterReads

(* The votes are read, with nobody to store another one meanwhile. *)
LEMMA VoteReadsCInv ==
    ASSUME SingleWorker, IInv, CInv, NEW w \in Workers, VoteAnswers(w) \/ VoteVotes(w)
    PROVE  CInv'
<1> DEFINE x == worker[w]
           y == [pc |-> "votes", game |-> x.game, user |-> x.user, token |-> x.token,
                 answers |-> AnswersOf(db, x.game)]
           z == [pc |-> "pair", game |-> x.game, user |-> x.user, token |-> x.token,
                 answers |-> x.answers, votes |-> VotesOf(db, x.game)]
<1>1. db.game[x.game].state = "gather_votes"
    BY DEF VoteAnswers, VoteVotes, CInv, CounterOK
<1>2. CounterOK(db, chat, y) /\ CounterOK(db, chat, z)
    BY <1>1 DEF CounterOK
<1>3. (GoOn(w, y) \/ GoOn(w, z)) /\ db' = db /\ chat' = chat
    BY DEF VoteAnswers, VoteVotes
<1> HIDE DEF y, z
<1> QED
    BY <1>2, <1>3, CounterReads

-------------------------------------------------------------------------------
(* The vote is counted.                                                     *)

(* The pair put to the vote is all there is of the current question. *)
LEMMA PairOnShow ==
    ASSUME NEW d, TablesOK(d), Dealt(d), NEW g, NEW pair \in PairsOf(d, g)
    PROVE  LET q == d.game[g].question
           IN  /\ Tokens(pair) = {t \in TokensOf(d, g) : d.answer[t].question = q}
               /\ pair[1].question = q
               /\ VotersOn(pair, VotesOf(d, g)) = {v.user : v \in StoredOn(d, g, q)}
<1> DEFINE f == AnswersOf(d, g)
           q == d.game[g].question
           vs == VotesOf(d, g)
<1>1. /\ DOMAIN f = TokensOf(d, g)
      /\ \A s \in DOMAIN f : f[s].question = d.answer[s].question
      /\ \A s : IsFiniteSet(Others(s, f))
      /\ \A s \in DOMAIN f : Cardinality(Others(s, f)) = 1
    BY DealtAnswers
<1>2. pair \in Pairs(q, f)
    BY DEF PairsOf
<1>3. \A v \in vs : v.token \in DOMAIN f
    BY <1>1 DEF VotesOf
<1>4. StoredOn(d, g, q) = {v \in vs : d.answer[v.token].question = q}
    BY DEF StoredOn
<1>5. pair[1].question = q
    <2> HIDE DEF f, q
    <2>1. PICK p \in (DOMAIN f) \X (DOMAIN f) :
              f[p[1]].question = q /\ pair = <<Option(p[1], f), Option(p[2], f)>>
        BY <1>2 DEF Pairs
    <2> QED
        BY <2>1 DEF Option
<1> HIDE DEF f, q, vs
<1>6. /\ Tokens(pair) = {t \in DOMAIN f : f[t].question = q}
      /\ VotersOn(pair, vs) = {v.user : v \in {w \in vs : f[w.token].question = q}}
    <2>1. /\ \A s : IsFiniteSet(Others(s, f))
          /\ \A s \in DOMAIN f : Cardinality(Others(s, f)) = 1
        BY <1>1
    <2>2. Tokens(pair) = {t \in DOMAIN f : f[t].question = q}
        BY <1>2, <1>3, <2>1, PairIsWholeQuestion
    <2>3. VotersOn(pair, vs) = {v.user : v \in {w \in vs : f[w.token].question = q}}
        BY <1>2, <1>3, <2>1, PairIsWholeQuestion
    <2> QED
        BY <2>2, <2>3
<1>7. Tokens(pair) = {t \in TokensOf(d, g) : d.answer[t].question = q}
    BY <1>1, <1>6
<1>8. {w \in vs : f[w.token].question = q} = StoredOn(d, g, q)
    BY <1>1, <1>3, <1>4
<1> QED
    BY <1>5, <1>6, <1>7, <1>8 DEF q, vs

(* The questions with votes, in terms of the rows. *)
LEMMA VotedInRows ==
    ASSUME NEW d, NEW g, NEW vs, \A v \in vs : v.token \in TokensOf(d, g)
    PROVE  /\ VotedQuestions(AnswersOf(d, g), vs) = {d.answer[v.token].question : v \in vs}
           /\ AskedQuestions(AnswersOf(d, g)) = {d.answer[t].question : t \in TokensOf(d, g)}
<1> DEFINE f == AnswersOf(d, g)
<1>1. DOMAIN f = TokensOf(d, g) /\ \A t \in DOMAIN f : f[t].question = d.answer[t].question
    BY DEF AnswersOf
<1> HIDE DEF f
<1>2. VotedQuestions(f, vs) = {d.answer[v.token].question : v \in vs}
    BY <1>1 DEF VotedQuestions
<1>3. AskedQuestions(f) = {d.answer[t].question : t \in TokensOf(d, g)}
    BY <1>1 DEF AskedQuestions
<1> QED
    BY <1>2, <1>3 DEF f

(* A vote on the current question ends the game in the last round, and only   *)
(* there; the scores then count all votes.                                    *)
LEMMA LastVote ==
    ASSUME NEW d, TablesOK(d), NEW g, NEW b, b.token \in TokensOf(d, g),
           d.answer[b.token].question = d.game[g].question
    PROVE  LET votes == VotesOf(d, g) \cup {b}
           IN  /\ AllVotesAreIn(AnswersOf(d, g), votes) <=> LastRound(d, g)
               /\ LastRound(d, g) => TrueScores(d, Scores(g, votes))
<1> DEFINE f == AnswersOf(d, g)
           votes == VotesOf(d, g) \cup {b}
           asked == {d.answer[t].question : t \in TokensOf(d, g)}
           voted == {d.answer[v.token].question : v \in votes}
           before == {d.answer[v.token].question : v \in VotesOf(d, g)}
<1>1. \A v \in VotesOf(d, g) : v.token \in TokensOf(d, g)
    BY DEF VotesOf
<1>2. \A v \in votes : v.token \in TokensOf(d, g)
    BY <1>1
<1>3. IsFiniteSet(DOMAIN f) /\ DOMAIN f = TokensOf(d, g)
    <2>1. DOMAIN f = TokensOf(d, g)
        BY DEF AnswersOf
    <2>2. TokensOf(d, g) \subseteq 1 .. Len(d.answer) /\ Len(d.answer) \in Nat
        BY DEF TablesOK, TokensOf
    <2> HIDE DEF f
    <2> QED
        BY <2>1, <2>2, RowsFinite
<1>4. VotedQuestions(f, votes) = voted /\ AskedQuestions(f) = asked
    BY <1>2, VotedInRows
<1>5. VotedQuestions(f, VotesOf(d, g)) = before
    BY <1>1, VotedInRows
<1>6. voted = before \cup {d.game[g].question} /\ voted \subseteq asked
    BY <1>2
<1>7. LastRound(d, g) <=> asked \subseteq voted
    BY <1>4, <1>5, <1>6 DEF LastRound
<1> HIDE DEF f, votes, asked, voted, before
<1>8. AllVotesAreIn(f, votes) <=> voted = asked
    BY <1>2, <1>3, <1>4, AllInMeansAllVoted
<1>9. LastRound(d, g) => TrueScores(d, Scores(g, votes))
    <2>1. Scores(g, votes).game = g /\ Scores(g, votes).votes = votes
        BY DEF Scores
    <2>2. VotesOf(d, g) \subseteq votes
        BY DEF votes
    <2> QED
        BY <1>4, <1>6, <1>7, <2>1, <2>2 DEF TrueScores, f
<1> QED
    BY <1>6, <1>7, <1>8, <1>9 DEF f, votes

(* Those of vs that are on question q. *)
VotesAmong(d, vs, q) == {v \in vs : d.answer[v.token].question = q}

(* The results of a round count all votes on its question. *)
LEMMA WholeRound ==
    ASSUME NEW d, TablesOK(d), Dealt(d), NEW g, NEW t \in TokensOf(d, g),
           NEW vs, \A v \in vs : v.token \in TokensOf(d, g)
    PROVE  RoundResults(g, t, AnswersOf(d, g), vs) =
               <<Results(g, d.answer[t].question, VotesAmong(d, vs, d.answer[t].question))>>
<1> DEFINE f == AnswersOf(d, g)
           shown == {t, Min(Others(t, f))}
           q == d.answer[t].question
<1>1. /\ DOMAIN f = TokensOf(d, g)
      /\ \A s \in DOMAIN f : f[s].question = d.answer[s].question
      /\ IsFiniteSet(Others(t, f)) /\ Cardinality(Others(t, f)) = 1 /\ Others(t, f) # {}
    BY DealtAnswers
<1>2. DOMAIN f \subseteq Nat
    BY <1>1 DEF TokensOf, TablesOK
<1> HIDE DEF f
<1>3. Min(Others(t, f)) \in Others(t, f)
    <2>1. Others(t, f) \subseteq Nat
        BY <1>2 DEF Others
    <2> QED
        BY <1>1, <2>1, MinOfNaturals
<1>4. \A s \in Others(t, f) : s = Min(Others(t, f))
    BY <1>1, <1>3, OneOther
<1>5. \A s \in DOMAIN f : s \in shown <=> f[s].question = f[t].question
    BY <1>1, <1>3, <1>4 DEF Others
<1>6. {v \in vs : v.token \in shown} = VotesAmong(d, vs, q)
    BY <1>1, <1>5 DEF VotesAmong
<1>7. RoundResults(g, t, f, vs) = <<Results(g, f[t].question, {v \in vs : v.token \in shown})>>
    BY <1>1 DEF RoundResults
<1>8. f[t].question = q
    BY <1>1
<1> HIDE DEF shown, q
<1> QED
    BY <1>6, <1>7, <1>8 DEF f, q

Told(c, news) == c \cup {news[i] : i \in DOMAIN news}

LEMMA VotePlan ==
    ASSUME NEW d, NEW c, NEW T, NEW news \in Seq(T),
           \A i \in DOMAIN news : news[i].op \in {"buttons", "results"},
           NEW g, NEW q, NEW b, NewVote(d, Told(c, news), b), NewRound(d, Told(c, news), g, q, b)
    PROVE  PlanOK(d, c, news \o <<SetVoting(g, q), InsertVote(b)>>)
<1> DEFINE s == SetVoting(g, q)
           v == InsertVote(b)
           todo == news \o <<s, v>>
           n == Len(news)
<1>1. /\ s.op = "set_voting" /\ s.game = g /\ s.question = q
      /\ v.op = "insert_vote" /\ v.vote = b
    BY DEF SetVoting, InsertVote
<1> HIDE DEF s, v
<1>2. /\ n \in Nat /\ DOMAIN news = 1 .. n /\ DOMAIN todo = 1 .. (n + 2) /\ Len(todo) = n + 2
      /\ \A i \in DOMAIN news : todo[i] = news[i]
      /\ todo[n + 1] = s /\ todo[n + 2] = v
    OBVIOUS
<1> HIDE DEF todo, n
<1>3. \A i \in DOMAIN todo : i \in DOMAIN news \/ i = n + 1 \/ i = n + 2
    BY <1>2
<1>4. {todo[i] : i \in {j \in DOMAIN todo : IsMessage(todo[j])}} = {news[i] : i \in DOMAIN news}
    <2>1. ~IsMessage(s) /\ ~IsMessage(v) /\ \A i \in DOMAIN news : IsMessage(news[i])
        BY <1>1 DEF IsMessage
    <2>2. DOMAIN news = {j \in DOMAIN todo : IsMessage(todo[j])}
        BY <1>2, <1>3, <2>1
    <2> QED
        BY <1>2, <2>2
<1>5. Heard(c, todo) = Told(c, news)
    BY <1>4 DEF Heard, Told
<1>6. ASSUME NEW i \in DOMAIN todo, todo[i].op \in {"set_state", "scores"} PROVE FALSE
    BY <1>1, <1>2, <1>3, <1>6
<1>7. ASSUME NEW i \in DOMAIN todo, todo[i].op = "insert_vote"
      PROVE  i = Len(todo) /\ todo[i].vote = b
    BY <1>1, <1>2, <1>3, <1>7
<1>8. ASSUME NEW i \in DOMAIN todo, todo[i].op = "set_voting"
      PROVE  i + 1 = Len(todo) /\ todo[i] = s /\ todo[i + 1] = v
    <2>1. i = n + 1
        BY <1>1, <1>2, <1>3, <1>8
    <2>2. i + 1 = n + 2
        BY <1>2, <2>1
    <2> QED
        BY <1>2, <2>1, <2>2
<1>9. PlanOK(d, c, todo)
    BY <1>1, <1>5, <1>6, <1>7, <1>8 DEF PlanOK
<1> QED
    BY <1>9 DEF todo, s, v

(* A vote that is accepted is not the voter's second on its question; it ends *)
(* the game, or closes its round with results that count it, or is stored     *)
(* with its round going on.                                                  *)
LEMMA VotePairCInv ==
    ASSUME SingleWorker, IInv, VInv, CInv, NEW w \in Workers, VotePair(w)
    PROVE  CInv'
<1> DEFINE x == worker[w]
           g == x.game
           b == [user |-> x.user, token |-> x.token]
           vs == VotesOf(db, g)
           f == AnswersOf(db, g)
           votes == vs \cup {b}
           q == db.game[g].question
<1>1. /\ db' = db /\ chat' = chat /\ x.pc = "pair" /\ TablesOK(db) /\ Dealt(db)
      /\ x.answers = f /\ x.votes = vs /\ db.game[g].state = "gather_votes"
      /\ Scored(db, chat) /\ g \in GameIds(db)
    BY CrowdedIsGame DEF VotePair, IInv, WorkerOK, VInv, Fair, VoterOK, CInv, CounterOK
<1>2. CASE GoOn(w, Idle)
    BY <1>1, <1>2, IdleCounter, CounterReads
<1>3. CASE ~GoOn(w, Idle)
    <2>1. PICK pair \in PairsOf(db, g) :
              /\ VoteAccepted(x.user, x.token, pair, f, vs)
              /\ VoteCounted(w, x, pair, votes)
        BY <1>1, <1>3 DEF VotePair
    <2>2. x.token \in TokensOf(db, g) /\ ~GoOn(w, Dead)
        BY <1>1, <2>1, CountingIsSafe
    <2>3. /\ Tokens(pair) = {t \in TokensOf(db, g) : db.answer[t].question = q}
          /\ pair[1].question = q
          /\ VotersOn(pair, vs) = {v.user : v \in StoredOn(db, g, q)}
        BY <1>1, PairOnShow
    <2>4. /\ db.answer[x.token].question = q /\ db.answer[x.token].game = g
          /\ \A v \in StoredOn(db, g, q) : v.user # x.user
        BY <2>1, <2>2, <2>3 DEF VoteAccepted, TokensOf
    <2>5. \A v \in votes : v.token \in TokensOf(db, g)
        BY <2>2 DEF VotesOf
    <2>6. b.token = x.token /\ b.user = x.user
        OBVIOUS
    <2> HIDE DEF b, votes
    <2>7. /\ AllVotesAreIn(f, votes) <=> LastRound(db, g)
          /\ LastRound(db, g) => TrueScores(db, Scores(g, votes))
        BY <1>1, <2>2, <2>4, <2>6, LastVote DEF votes
    <2> DEFINE over == AllVotesAreIn(f, votes)
               closed == CurrentVotesAreIn(pair, f, votes)
               first == IF closed THEN NextAnswer(f, votes) ELSE pair[1].token
               question == IF closed THEN f[first].question ELSE pair[1].question
               panics == \/ \E v \in votes : v.token \notin DOMAIN f
                         \/ ~over /\ closed /\ NextPanics(f, votes)
                         \/ ~over /\ first # x.token /\ ResultsPanic(x.token, f)
               results == RoundResults(g, x.token, f, votes)
               news == IF first = x.token THEN <<>> ELSE results \o <<Buttons(g, question)>>
               end == [pc |-> "over", game |-> g, token |-> x.token, votes |-> votes]
    <2>8. GoOn(w, IF panics THEN Dead ELSE IF over THEN end
                  ELSE Run(news \o <<SetVoting(g, question), InsertVote(b)>>))
        BY <1>1, <2>1 DEF VoteCounted, AnnounceThenSave, SaveVote, b, votes
    <2>9. ~panics
        BY <2>2, <2>8
    <2>10. CASE over
        <3>1. GoOn(w, end)
            BY <2>8, <2>9, <2>10
        <3>2. LastRound(db, g) /\ TrueScores(db, Scores(g, votes))
            BY <2>7, <2>10
        <3>3. CounterOK(db, chat, end)
            BY <1>1, <3>2 DEF CounterOK
        <3> HIDE DEF end
        <3> QED
            BY <1>1, <3>1, <3>3, CounterReads
    <2>11. CASE ~over
        <3> DEFINE r == Results(g, q, VotesAmong(db, votes, q))
                   m == Buttons(g, question)
        <3>1. GoOn(w, Run(news \o <<SetVoting(g, question), InsertVote(b)>>))
            BY <2>8, <2>9, <2>11
        <3>2. results = <<r>>
            BY <1>1, <2>2, <2>4, <2>5, WholeRound
        <3>3. /\ r.op = "results" /\ r.game = g /\ r.question = q
              /\ r.votes = VotesAmong(db, votes, q) /\ m.op = "buttons"
            BY DEF Results, Buttons
        <3>4. StoredOn(db, g, q) \cup {b} \subseteq r.votes
            BY <2>4, <2>6, <3>3 DEF StoredOn, votes, VotesAmong
        <3>5. closed => first # x.token
            <4> SUFFICES ASSUME closed PROVE NextAnswer(f, votes) # x.token
                OBVIOUS
            <4>1. NextAnswer(f, votes) \in Unvoted(f, votes)
                <5>1. Unvoted(f, votes) # {}
                    BY <2>9, <2>11 DEF NextPanics
                <5>2. Unvoted(f, votes) \subseteq Nat
                    BY <1>1 DEF Unvoted, AnswersOf, TokensOf, TablesOK
                <5> QED
                    BY <5>1, <5>2, MinOfNaturals DEF NextAnswer
            <4>2. f[x.token].question \in VotedQuestions(f, votes)
                BY <2>6 DEF VotedQuestions, votes
            <4> QED
                BY <4>1, <4>2 DEF Unvoted
        <3>6. ~closed => question = q
            BY <2>3
        <3> HIDE DEF r, question, first, closed, over, panics, results, end
        <3>7. news = <<>> \/ news = <<r>> \o <<m>>
            BY <3>2
        <3>8. closed => news = <<r>> \o <<m>>
            BY <3>2, <3>5
        <3> HIDE DEF news, m
        <3>9. news \in Seq({r, m}) /\ (closed => 1 \in DOMAIN news /\ news[1] = r)
            <4> DEFINE two == <<r>> \o <<m>>
            <4>1. two \in Seq({r, m}) /\ 1 \in DOMAIN two /\ two[1] = r
                OBVIOUS
            <4>2. <<>> \in Seq({r, m})
                OBVIOUS
            <4> HIDE DEF two
            <4> QED
                BY <3>7, <3>8, <4>1, <4>2 DEF two
        <3>10. \A i \in DOMAIN news : news[i] \in {r, m}
            BY <3>9
        <3>11. \A i \in DOMAIN news : news[i].op \in {"buttons", "results"}
            BY <3>3, <3>10
        <3>12. closed => r \in Told(chat, news)
            <4> SUFFICES ASSUME closed PROVE r \in Told(chat, news)
                OBVIOUS
            <4>1. 1 \in DOMAIN news /\ news[1] = r
                BY <3>9
            <4> QED
                BY <4>1 DEF Told
        <3>13. ScoresOf(Told(chat, news), g) = {}
            <4>1. ScoresOf(chat, g) = {}
                BY <1>1, <2>7, <2>11 DEF Scored, over
            <4> QED
                BY <3>11, <4>1 DEF ScoresOf, Told
        <3>14. NewVote(db, Told(chat, news), b)
            BY <1>1, <2>4, <2>6, <3>13 DEF NewVote
        <3>15. closed => ReportedWith(db, Told(chat, news), g, q, b)
            BY <3>3, <3>4, <3>12 DEF ReportedWith
        <3>16. NewRound(db, Told(chat, news), g, question, b)
            BY <2>4, <2>6, <3>6, <3>15 DEF NewRound
        <3> DEFINE todo == news \o <<SetVoting(g, question), InsertVote(b)>>
        <3>17. PlanOK(db, chat, todo)
            BY <3>9, <3>11, <3>14, <3>16, VotePlan
        <3> HIDE DEF todo
        <3> QED
            BY <1>1, <3>1, <3>17, RunCounter, CounterReads DEF todo
    <2> QED
        BY <2>10, <2>11
<1> QED
    BY <1>2, <1>3

(* The scores are true when the last vote has been counted, and nothing is    *)
(* stored before they are sent.                                              *)
LEMMA GameOverCInv ==
    ASSUME SingleWorker, IInv, VInv, CInv, NEW w \in Workers, GameOver(w)
    PROVE  CInv'
<1> DEFINE x == worker[w]
           g == x.game
           q == db.answer[x.token].question
           r == Results(g, q, VotesAmong(db, x.votes, q))
           a == Scores(g, x.votes)
           s == SetState(g, "end")
<1>1. /\ TablesOK(db) /\ Dealt(db) /\ \A v \in x.votes : v.token \in TokensOf(db, g)
      /\ x.token \in TokensOf(db, g) /\ db' = db /\ chat' = chat
      /\ db.game[g].state = "gather_votes" /\ TrueScores(db, a) /\ LastRound(db, g)
    BY DEF GameOver, IInv, VInv, Fair, VoterOK, CInv, CounterOK
<1>2. GoOn(w, Run(RoundResults(g, x.token, AnswersOf(db, g), x.votes) \o <<a, s>>))
    BY <1>1, ResultsFound DEF GameOver
<1>3. RoundResults(g, x.token, AnswersOf(db, g), x.votes) = <<r>>
    BY <1>1, WholeRound
<1>4. r.op = "results" /\ a.op = "scores" /\ a.game = g /\ s.op = "set_state"
    BY DEF Results, Scores, SetState
<1> DEFINE todo == <<r>> \o <<a, s>>
<1> HIDE DEF r, a, s
<1>5. Len(todo) = 3 /\ DOMAIN todo = 1 .. 3 /\ todo[1] = r /\ todo[2] = a /\ todo[3] = s
    OBVIOUS
<1>6. GoOn(w, Run(todo))
    BY <1>2, <1>3
<1> HIDE DEF todo
<1>7. \A i \in DOMAIN todo : todo[i] = r \/ todo[i] = a \/ (i = 3 /\ todo[i] = s)
    BY <1>5
<1>8. PlanOK(db, chat, todo)
    BY <1>1, <1>4, <1>5, <1>7 DEF PlanOK
<1> QED
    BY <1>1, <1>6, <1>8, RunCounter, CounterReads

-------------------------------------------------------------------------------
(* The vote is stored.                                                      *)

SameVotes(d, e) == e.answer = d.answer /\ e.vote = d.vote

LEMMA VotesStay ==
    ASSUME NEW d, NEW e, SameVotes(d, e)
    PROVE  /\ \A g : VotesOf(e, g) = VotesOf(d, g) /\ AnswersOf(e, g) = AnswersOf(d, g)
           /\ \A g, q : StoredOn(e, g, q) = StoredOn(d, g, q)
           /\ \A c, g, q, v : ReportedWith(d, c, g, q, v) <=> ReportedWith(e, c, g, q, v)
           /\ \A m : TrueScores(d, m) <=> TrueScores(e, m)
           /\ Once(d) => Once(e)
<1>1. e.answer = d.answer /\ e.vote = d.vote /\ \A g : TokensOf(e, g) = TokensOf(d, g)
    BY DEF SameVotes, TokensOf
<1>2. \A g : VotesOf(e, g) = VotesOf(d, g)
    BY <1>1 DEF VotesOf
<1>3. \A g : AnswersOf(e, g) = AnswersOf(d, g)
    BY <1>1 DEF AnswersOf
<1>4. \A g, q : StoredOn(e, g, q) = StoredOn(d, g, q)
    BY <1>1, <1>2 DEF StoredOn
<1>5. \A c, g, q, v : ReportedWith(d, c, g, q, v) <=> ReportedWith(e, c, g, q, v)
    BY <1>4 DEF ReportedWith
<1>6. \A m : TrueScores(d, m) <=> TrueScores(e, m)
    BY <1>2, <1>3 DEF TrueScores
<1>7. Once(d) => Once(e)
    BY <1>1 DEF Once
<1> QED
    BY <1>2, <1>3, <1>4, <1>5, <1>6, <1>7

(* A message adds to what was reported; scores were composed in the last round. *)
LEMMA MessageEffect ==
    ASSUME NEW d, NEW c, NEW s, Reported(d, c), Scored(d, c),
           s.op = "scores" => /\ d.game[s.game].state = "gather_votes"
                              /\ TrueScores(d, s) /\ LastRound(d, s.game)
    PROVE  Reported(d, c \cup {s}) /\ Scored(d, c \cup {s})
<1>1. \A g, q, v : ReportedWith(d, c, g, q, v) => ReportedWith(d, c \cup {s}, g, q, v)
    BY DEF ReportedWith
<1>2. Reported(d, c \cup {s})
    BY <1>1 DEF Reported
<1>3. ASSUME NEW g \in GameIds(d), d.game[g].state = "gather_votes",
             NEW m \in ScoresOf(c \cup {s}, g)
      PROVE  TrueScores(d, m) /\ LastRound(d, g)
    <2>1. m \in ScoresOf(c, g) \/ (m = s /\ s.op = "scores" /\ s.game = g)
        BY DEF ScoresOf
    <2> QED
        BY <1>3, <2>1 DEF Scored
<1>4. ASSUME NEW g \in GameIds(d), d.game[g].state = "end", ScoresOf(c \cup {s}, g) # {}
      PROVE  \E m \in ScoresOf(c \cup {s}, g) : TrueScores(d, m)
    <2>1. ScoresOf(c \cup {s}, g) = ScoresOf(c, g)
        BY <1>4 DEF ScoresOf
    <2> QED
        BY <1>4, <2>1 DEF Scored
<1>5. Scored(d, c \cup {s})
    BY <1>3, <1>4 DEF Scored
<1> QED
    BY <1>2, <1>5

(* What was about to be heard is about to be heard or has been. *)
LEMMA MessagePlan ==
    ASSUME NEW d, NEW c, NEW T, NEW todo \in Seq(T), todo # <<>>, PlanOK(d, c, todo),
           IsMessage(Head(todo))
    PROVE  PlanOK(d, c \cup {Head(todo)}, Tail(todo))
<1> DEFINE rest == Tail(todo)
           s == Head(todo)
<1>1. /\ s = todo[1] /\ 1 \in DOMAIN todo /\ Len(todo) = Len(rest) + 1 /\ Len(rest) \in Nat
      /\ \A i \in DOMAIN rest : i + 1 \in DOMAIN todo /\ i \in Nat /\ rest[i] = todo[i + 1]
      /\ \A j \in DOMAIN todo : j # 1 => j - 1 \in DOMAIN rest /\ rest[j - 1] = todo[j]
      /\ DOMAIN todo = 1 .. Len(todo) /\ DOMAIN rest = 1 .. Len(rest)
    OBVIOUS
<1> HIDE DEF rest, s
<1>2. Heard(c \cup {s}, rest) = Heard(c, todo)
    <2>1. ASSUME NEW m \in Heard(c, todo) PROVE m \in Heard(c \cup {s}, rest)
        <3>1. CASE m \in c
            BY <3>1 DEF Heard
        <3>2. ASSUME NEW j \in DOMAIN todo, IsMessage(todo[j]), m = todo[j]
              PROVE  m \in Heard(c \cup {s}, rest)
            <4>1. m = s \/ (j - 1 \in DOMAIN rest /\ rest[j - 1] = m /\ IsMessage(rest[j - 1]))
                BY <1>1, <3>2
            <4> QED
                BY <4>1 DEF Heard
        <3> QED
            BY <3>1, <3>2 DEF Heard
    <2>2. ASSUME NEW m \in Heard(c \cup {s}, rest) PROVE m \in Heard(c, todo)
        <3>1. CASE m \in c
            BY <3>1 DEF Heard
        <3>2. CASE m = s
            <4>1. IsMessage(todo[1]) /\ m = todo[1]
                BY <1>1, <3>2 DEF s
            <4> QED
                BY <1>1, <4>1 DEF Heard
        <3>3. ASSUME NEW i \in DOMAIN rest, IsMessage(rest[i]), m = rest[i]
              PROVE  m \in Heard(c, todo)
            <4>1. i + 1 \in DOMAIN todo /\ m = todo[i + 1] /\ IsMessage(todo[i + 1])
                BY <1>1, <3>3
            <4> QED
                BY <4>1 DEF Heard
        <3> QED
            BY <3>1, <3>2, <3>3 DEF Heard
    <2> QED
        BY <2>1, <2>2
<1>3. ASSUME NEW i \in DOMAIN rest
      PROVE  /\ rest[i].op = "set_state" => i = Len(rest)
             /\ rest[i].op = "scores" =>
                   /\ d.game[rest[i].game].state = "gather_votes"
                   /\ TrueScores(d, rest[i]) /\ LastRound(d, rest[i].game)
             /\ rest[i].op = "insert_vote" =>
                   i = Len(rest) /\ NewVote(d, Heard(c, todo), rest[i].vote)
             /\ rest[i].op = "set_voting" =>
                   /\ i + 1 = Len(rest) /\ rest[i + 1].op = "insert_vote"
                   /\ NewRound(d, Heard(c, todo), rest[i].game, rest[i].question,
                               rest[i + 1].vote)
    <2>1. i + 1 \in DOMAIN todo /\ rest[i] = todo[i + 1] /\ i \in Nat
        BY <1>1
    <2>2. i + 1 = Len(todo) => i = Len(rest)
        BY <1>1, <2>1
    <2>3. (i + 1) + 1 = Len(todo) => /\ i + 1 = Len(rest) /\ rest[i + 1] = todo[(i + 1) + 1]
        BY <1>1, <2>1
    <2> QED
        BY <2>1, <2>2, <2>3 DEF PlanOK
<1>4. PlanOK(d, c \cup {s}, rest)
    BY <1>2, <1>3 DEF PlanOK
<1> QED
    BY <1>4 DEF s, rest

(* When the saving begins the messages have been sent. *)
LEMMA SavesComeLast ==
    ASSUME NEW d, NEW c, NEW T, NEW todo \in Seq(T), todo # <<>>, PlanOK(d, c, todo)
    PROVE  LET s == Head(todo)
               v == Head(Tail(todo))
           IN  /\ s.op = "set_state" => Tail(todo) = <<>>
               /\ s.op = "insert_vote" => Tail(todo) = <<>> /\ NewVote(d, c, s.vote)
               /\ s.op = "set_voting" =>
                     /\ Tail(todo) = <<v>> /\ v.op = "insert_vote"
                     /\ NewVote(d, c, v.vote) /\ NewRound(d, c, s.game, s.question, v.vote)
<1> DEFINE s == Head(todo)
           v == Head(Tail(todo))
           n == Len(todo)
<1>1. /\ s = todo[1] /\ 1 \in DOMAIN todo /\ DOMAIN todo = 1 .. n /\ n \in Nat
      /\ n = 1 => Tail(todo) = <<>>
      /\ n = 2 => Tail(todo) = <<v>> /\ v = todo[2]
    <2> DEFINE rest == Tail(todo)
    <2>1. /\ s = todo[1] /\ 1 \in DOMAIN todo /\ DOMAIN todo = 1 .. n /\ n \in Nat
          /\ rest \in Seq(T) /\ Len(rest) = n - 1
          /\ n = 2 => rest[1] = todo[2]
        OBVIOUS
    <2> HIDE DEF rest, n
    <2>2. Len(rest) = 0 => rest = <<>>
        BY <2>1
    <2>3. Len(rest) = 1 => rest = <<Head(rest)>> /\ Head(rest) = rest[1]
        BY <2>1
    <2> QED
        BY <2>1, <2>2, <2>3 DEF rest
<1> HIDE DEF s, v, n
<1>2. CASE s.op = "set_state"
    BY <1>1, <1>2 DEF PlanOK, n
<1>3. CASE s.op = "insert_vote"
    <2>1. 1 = n /\ NewVote(d, Heard(c, todo), s.vote)
        BY <1>1, <1>3 DEF PlanOK, n
    <2>2. \A j \in DOMAIN todo : ~IsMessage(todo[j])
        BY <1>1, <1>3, <2>1 DEF IsMessage
    <2>3. Heard(c, todo) = c
        BY <2>2 DEF Heard
    <2> QED
        BY <1>1, <1>3, <2>1, <2>3
<1>4. CASE s.op = "set_voting"
    <2>1. /\ n = 2 /\ v.op = "insert_vote"
          /\ NewRound(d, Heard(c, todo), s.game, s.question, v.vote)
        <3>1. 1 + 1 = n /\ todo[1 + 1].op = "insert_vote"
              /\ NewRound(d, Heard(c, todo), s.game, s.question, todo[1 + 1].vote)
            BY <1>1, <1>4 DEF PlanOK, n
        <3> QED
            BY <1>1, <3>1
    <2>2. NewVote(d, Heard(c, todo), v.vote)
        <3>1. 2 \in DOMAIN todo /\ v = todo[2]
            BY <1>1, <2>1
        <3> QED
            BY <2>1, <3>1 DEF PlanOK
    <2>3. \A j \in DOMAIN todo : ~IsMessage(todo[j])
        <3>1. \A j \in DOMAIN todo : j = 1 \/ j = 2
            BY <1>1, <2>1
        <3> QED
            BY <1>1, <1>4, <2>1, <3>1 DEF IsMessage
    <2>4. Heard(c, todo) = c
        BY <2>3 DEF Heard
    <2> QED
        BY <1>1, <1>4, <2>1, <2>2, <2>4
<1> QED
    BY <1>2, <1>3, <1>4 DEF s, v

(* A vote is stored: it is the voter's first, and it is on the question on    *)
(* show, or counted in results that were sent.                               *)
LEMMA VoteStored ==
    ASSUME NEW d, TablesOK(d), NEW v, v.token \in DOMAIN d.answer, NEW c, NewVote(d, c, v),
           Once(d), Reported(d, c), Scored(d, c), NEW e, e = Apply(d, InsertVote(v))
    PROVE  Once(e) /\ Reported(e, c) /\ Scored(e, c)
<1> DEFINE g == d.answer[v.token].game
           q == d.answer[v.token].question
<1>1. e.game = d.game /\ e.answer = d.answer /\ e.vote = d.vote \cup {v}
    BY Applied
<1>2. \A h : TokensOf(e, h) = TokensOf(d, h) /\ AnswersOf(e, h) = AnswersOf(d, h)
    BY <1>1 DEF TokensOf, AnswersOf
<1>3. /\ v.token \in TokensOf(d, g)
      /\ \A h : v.token \in TokensOf(d, h) => h = g
    BY DEF TokensOf
<1>4. \A w \in d.vote : w.token \in DOMAIN d.answer
    BY DEF TablesOK, Ballot
<1>5. /\ d.game[g].state = "gather_votes"
      /\ \A w \in StoredOn(d, g, q) : w.user # v.user
      /\ ScoresOf(c, g) = {}
      /\ q = d.game[g].question \/ ReportedWith(d, c, g, q, v)
    BY DEF NewVote
<1>6. \A h : h # g => VotesOf(e, h) = VotesOf(d, h)
    BY <1>1, <1>2, <1>3 DEF VotesOf
<1>7. VotesOf(e, g) = VotesOf(d, g) \cup {v}
    BY <1>1, <1>2, <1>3 DEF VotesOf
<1>8. \A w \in d.vote : d.answer[w.token].game = g /\ d.answer[w.token].question = q
                        => w \in StoredOn(d, g, q)
    BY <1>4 DEF StoredOn, VotesOf, TokensOf
<1>9. Once(e)
    <2> HIDE DEF g, q
    <2>1. \A w \in d.vote : d.answer[w.token].game = g /\ d.answer[w.token].question = q
                            => w.user # v.user
        BY <1>5, <1>8
    <2> SUFFICES ASSUME NEW x \in e.vote, NEW y \in e.vote, x.user = y.user,
                        d.answer[x.token].game = d.answer[y.token].game,
                        d.answer[x.token].question = d.answer[y.token].question
                 PROVE  x = y
        BY <1>1 DEF Once
    <2>2. CASE x = v /\ y # v
        <3>1. y \in d.vote
            BY <1>1, <2>2
        <3> QED
            BY <2>1, <2>2, <3>1 DEF g, q
    <2>3. CASE y = v /\ x # v
        <3>1. x \in d.vote
            BY <1>1, <2>3
        <3> QED
            BY <2>1, <2>3, <3>1 DEF g, q
    <2>4. CASE x # v /\ y # v
        <3>1. x \in d.vote /\ y \in d.vote
            BY <1>1, <2>4
        <3> QED
            BY <3>1 DEF Once
    <2> QED
        BY <2>2, <2>3, <2>4
<1>10. \A h : h # g => \A p : StoredOn(e, h, p) = StoredOn(d, h, p)
    BY <1>1, <1>6 DEF StoredOn
<1>11. \A p : p # q => StoredOn(e, g, p) = StoredOn(d, g, p)
    BY <1>1, <1>7 DEF StoredOn
<1>12. StoredOn(e, g, q) = StoredOn(d, g, q) \cup {v}
    BY <1>1, <1>7 DEF StoredOn
<1> HIDE DEF g, q
<1>13. Reported(e, c)
    <2> SUFFICES ASSUME NEW h \in GameIds(d), d.game[h].state = "gather_votes",
                        NEW w \in VotesOf(e, h), d.answer[w.token].question # d.game[h].question
                 PROVE  ReportedWith(e, c, h, d.answer[w.token].question, w)
        BY <1>1 DEF Reported, GameIds
    <2> DEFINE p == d.answer[w.token].question
    <2>1. CASE h = g /\ p = q
        <3>1. ReportedWith(d, c, g, q, v)
            BY <1>5, <2>1
        <3>2. w \in StoredOn(e, g, q)
            BY <1>1, <2>1 DEF StoredOn
        <3> QED
            BY <1>12, <2>1, <3>1, <3>2 DEF ReportedWith
    <2>2. CASE h # g
        <3>1. w \in VotesOf(d, h)
            BY <1>6, <2>2
        <3>2. ReportedWith(d, c, h, p, w)
            BY <3>1 DEF Reported
        <3> QED
            BY <1>10, <2>2, <3>2 DEF ReportedWith
    <2>3. CASE h = g /\ p # q
        <3>1. w \in VotesOf(d, g)
            BY <1>7, <2>3 DEF q
        <3>2. ReportedWith(d, c, g, p, w)
            BY <2>3, <3>1 DEF Reported
        <3> QED
            BY <1>11, <2>3, <3>2 DEF ReportedWith
    <2> QED
        BY <2>1, <2>2, <2>3
<1>14. Scored(e, c)
    <2> SUFFICES ASSUME NEW h \in GameIds(d), h # g
                 PROVE  /\ \A m \in ScoresOf(c, h) : TrueScores(d, m) <=> TrueScores(e, m)
                        /\ LastRound(d, h) <=> LastRound(e, h)
        BY <1>1, <1>5 DEF Scored, GameIds
    <2>1. \A m \in ScoresOf(c, h) : m.game = h
        BY DEF ScoresOf
    <2>2. \A m \in ScoresOf(c, h) : TrueScores(d, m) <=> TrueScores(e, m)
        BY <1>2, <1>6, <2>1 DEF TrueScores
    <2>3. LastRound(d, h) <=> LastRound(e, h)
        BY <1>1, <1>2, <1>6 DEF LastRound
    <2> QED
        BY <2>2, <2>3
<1> QED
    BY <1>9, <1>13, <1>14

(* The question of a round is saved: the round before was reported with the   *)
(* vote that closed it.                                                       *)
LEMMA RoundSaved ==
    ASSUME NEW d, TablesOK(d), NEW g \in GameIds(d), NEW q, NEW c, NEW b,
           NewVote(d, c, b), NewRound(d, c, g, q, b),
           Once(d), Reported(d, c), Scored(d, c), NEW e, e = Apply(d, SetVoting(g, q))
    PROVE  Once(e) /\ Reported(e, c) /\ Scored(e, c) /\ NewVote(e, c, b)
<1> DEFINE row == [state |-> "gather_votes", question |-> q]
           old == d.game[g].question
<1>1. /\ d.answer[b.token].game = g /\ d.answer[b.token].question = old
      /\ q = old \/ ReportedWith(d, c, g, old, b)
      /\ d.game[g].state = "gather_votes"
      /\ \A w \in StoredOn(d, g, old) : w.user # b.user
      /\ ScoresOf(c, g) = {}
    BY DEF NewVote, NewRound
<1>2. e = [game |-> [d.game EXCEPT ![g] = row],
           game_user |-> d.game_user, answer |-> d.answer, vote |-> d.vote]
    BY Applied
<1>3. row.state = "gather_votes" /\ row.question = q
    OBVIOUS
<1> HIDE DEF row, old
<1>4. /\ SameVotes(d, e) /\ GameIds(e) = GameIds(d)
      /\ \A h \in GameIds(d) : e.game[h] = IF h = g THEN row ELSE d.game[h]
    <2>1. d.game \in Seq(GameRow)
        BY DEF TablesOK
    <2> QED
        BY <1>2, <2>1 DEF SameVotes, GameIds
<1>5. /\ \A h : VotesOf(e, h) = VotesOf(d, h) /\ AnswersOf(e, h) = AnswersOf(d, h)
      /\ \A h, p : StoredOn(e, h, p) = StoredOn(d, h, p)
      /\ \A h, p, v : ReportedWith(d, c, h, p, v) <=> ReportedWith(e, c, h, p, v)
      /\ \A m : TrueScores(d, m) <=> TrueScores(e, m)
      /\ Once(e) /\ e.answer = d.answer
    BY <1>4, VotesStay DEF SameVotes
<1>6. Reported(e, c)
    <2> SUFFICES ASSUME NEW h \in GameIds(d), e.game[h].state = "gather_votes",
                        NEW w \in VotesOf(d, h), d.answer[w.token].question # e.game[h].question
                 PROVE  ReportedWith(d, c, h, d.answer[w.token].question, w)
        BY <1>4, <1>5 DEF Reported
    <2>1. CASE h # g \/ d.answer[w.token].question # old
        <3>1. d.game[h].state = "gather_votes" /\ d.answer[w.token].question # d.game[h].question
            BY <1>1, <1>4, <2>1 DEF old
        <3> QED
            BY <3>1 DEF Reported
    <2>2. CASE h = g /\ d.answer[w.token].question = old
        <3>1. ReportedWith(d, c, g, old, b)
            BY <1>1, <1>3, <1>4, <2>2
        <3>2. w \in StoredOn(d, g, old)
            BY <2>2 DEF StoredOn
        <3> QED
            BY <2>2, <3>1, <3>2 DEF ReportedWith
    <2> QED
        BY <2>1, <2>2
<1>7. Scored(e, c)
    <2>1. \A h \in GameIds(d) : h # g => (LastRound(d, h) <=> LastRound(e, h))
        BY <1>4, <1>5 DEF LastRound
    <2>2. \A h \in GameIds(d) : h # g => e.game[h] = d.game[h]
        BY <1>4
    <2> QED
        BY <1>1, <1>4, <1>5, <2>1, <2>2 DEF Scored
<1>8. NewVote(e, c, b)
    BY <1>1, <1>3, <1>4, <1>5 DEF NewVote
<1> QED
    BY <1>5, <1>6, <1>7, <1>8

LEMMA GameEnded ==
    ASSUME NEW d, TablesOK(d), Fair(d), NEW g \in GameIds(d), NEW c,
           Once(d), Reported(d, c), Scored(d, c), NEW e, e = Apply(d, SetState(g, "end"))
    PROVE  Once(e) /\ Reported(e, c) /\ Scored(e, c)
<1> DEFINE row == [d.game[g] EXCEPT !.state = "end"]
<1>1. e = [game |-> [d.game EXCEPT ![g] = row],
           game_user |-> d.game_user, answer |-> d.answer, vote |-> d.vote]
    BY Applied
<1>2. d.game \in Seq(GameRow)
    BY DEF TablesOK
<1>3. row.state = "end"
    <2>1. d.game[g] \in GameRow
        BY <1>2 DEF GameIds
    <2> QED
        BY <2>1 DEF GameRow
<1> HIDE DEF row
<1>4. /\ SameVotes(d, e) /\ GameIds(e) = GameIds(d)
      /\ \A h \in GameIds(d) : e.game[h] = IF h = g THEN row ELSE d.game[h]
    BY <1>1, <1>2 DEF SameVotes, GameIds
<1>5. /\ \A h : VotesOf(e, h) = VotesOf(d, h) /\ AnswersOf(e, h) = AnswersOf(d, h)
      /\ \A h, p, v : ReportedWith(d, c, h, p, v) <=> ReportedWith(e, c, h, p, v)
      /\ \A m : TrueScores(d, m) <=> TrueScores(e, m)
      /\ Once(e) /\ e.answer = d.answer
    BY <1>4, VotesStay DEF SameVotes
<1>6. Reported(e, c)
    BY <1>3, <1>4, <1>5 DEF Reported
<1>7. \A h \in GameIds(d) : h # g => (LastRound(d, h) <=> LastRound(e, h)) /\ e.game[h] = d.game[h]
    BY <1>4, <1>5 DEF LastRound
<1>8. ScoresOf(c, g) # {} => \E m \in ScoresOf(c, g) : TrueScores(d, m)
    <2>1. d.game[g].state \in {"gather_votes", "end"}
        BY DEF Fair
    <2> QED
        BY <2>1 DEF Scored
<1>9. Scored(e, c)
    BY <1>3, <1>4, <1>5, <1>7, <1>8 DEF Scored
<1> QED
    BY <1>5, <1>6, <1>9

LEMMA ExecuteCInv ==
    ASSUME SingleWorker, IInv, VInv, CInv, NEW w \in Workers, Execute(w)
    PROVE  CInv'
<1> DEFINE todo == worker[w].todo
           s == Head(todo)
           v == Head(Tail(todo))
           x == IF Left(todo) = <<>> THEN Idle ELSE Run(Left(todo))
           T == Statements(db)
<1>1. /\ TablesOK(db) /\ Fair(db) /\ todo \in Seq(T) /\ todo # <<>>
      /\ \A i \in DOMAIN todo : VoteStatement(db, todo[i])
      /\ db' = Apply(db, s) /\ chat' = IF IsMessage(s) THEN chat \cup {s} ELSE chat
      /\ GoOn(w, x) /\ PlanOK(db, chat, todo)
      /\ Once(db) /\ Reported(db, chat) /\ Scored(db, chat)
    BY DEF Execute, IInv, WorkerOK, VInv, VoterOK, CInv, CounterOK
<1>2. s \in T /\ 1 \in DOMAIN todo /\ s = todo[1]
    <2> HIDE DEF todo, T
    <2> QED
        BY <1>1
<1> HIDE DEF todo, s, v
<1>3. VoteStatement(db, s)
    BY <1>1, <1>2
<1>4. /\ s.op = "set_state" => Tail(todo) = <<>>
      /\ s.op = "insert_vote" => Tail(todo) = <<>> /\ NewVote(db, chat, s.vote)
      /\ s.op = "set_voting" =>
            /\ Tail(todo) = <<v>> /\ v.op = "insert_vote"
            /\ NewVote(db, chat, v.vote) /\ NewRound(db, chat, s.game, s.question, v.vote)
    <2> HIDE DEF T
    <2> QED
        BY <1>1, SavesComeLast DEF s, v
<1>5. x = IF Tail(todo) = <<>> THEN Idle ELSE Run(Tail(todo))
    <2>1. Left(todo) = Tail(todo)
        BY <1>3 DEF Left, VoteStatement, IsMessage, s
    <2> QED
        BY <2>1
<1> HIDE DEF x
<1>6. CASE IsMessage(s)
    <2>1. chat' = chat \cup {s} /\ db' = db
        BY <1>1, <1>6 DEF Apply, IsMessage
    <2>2. s.op = "scores" => /\ db.game[s.game].state = "gather_votes"
                             /\ TrueScores(db, s) /\ LastRound(db, s.game)
        BY <1>1, <1>2 DEF PlanOK
    <2>3. Reported(db', chat') /\ Scored(db', chat') /\ Once(db')
        <3>1. Reported(db, chat \cup {s}) /\ Scored(db, chat \cup {s})
            BY <1>1, <2>2, MessageEffect
        <3> QED
            BY <1>1, <2>1, <3>1
    <2>4. PlanOK(db', chat', Tail(todo))
        <3> HIDE DEF T
        <3>1. PlanOK(db, chat \cup {s}, Tail(todo))
            BY <1>1, <1>6, MessagePlan DEF s
        <3> QED
            BY <2>1, <3>1
    <2>5. CounterOK(db', chat', x)
        BY <1>5, <2>4, IdleCounter, RunCounter
    <2> QED
        BY <1>1, <2>3, <2>5, CounterGoesOn
<1>7. CASE s.op = "set_state"
    <2>1. PICK g \in GameIds(db) : s = SetState(g, "end")
        BY <1>2, <1>3, <1>7, CrowdedIsGame DEF Statements, VoteStatement, InsertUser, SetState,
            SetVoting, InsertAnswer, UpdateAnswers, InsertVote, Buttons, Results, Scores, IsMessage
    <2>2. chat' = chat /\ x = Idle
        BY <1>1, <1>4, <1>5, <1>7 DEF IsMessage
    <2>3. Reported(db', chat') /\ Scored(db', chat') /\ Once(db')
        BY <1>1, <2>1, <2>2, GameEnded
    <2> QED
        BY <1>1, <2>2, <2>3, IdleCounter, CounterGoesOn
<1>8. CASE s.op = "insert_vote"
    <2>1. PICK b \in Ballot(db) : s = InsertVote(b)
        BY <1>2, <1>8 DEF Statements, InsertUser, SetState,
            SetVoting, InsertAnswer, UpdateAnswers, InsertVote, Buttons, Results, Scores
    <2>2. chat' = chat /\ x = Idle
        BY <1>1, <1>4, <1>5, <1>8 DEF IsMessage
    <2>3. s.vote = b /\ b.token \in DOMAIN db.answer
        BY <2>1 DEF InsertVote, Ballot
    <2>4. Reported(db', chat') /\ Scored(db', chat') /\ Once(db')
        BY <1>1, <1>4, <1>8, <2>1, <2>2, <2>3, VoteStored
    <2> QED
        BY <1>1, <2>2, <2>4, IdleCounter, CounterGoesOn
<1>9. CASE s.op = "set_voting"
    <2>1. PICK p \in Votable(db) : s = SetVoting(p[1], p[2])
        BY <1>2, <1>9 DEF Statements, InsertUser, SetState,
            SetVoting, InsertAnswer, UpdateAnswers, InsertVote, Buttons, Results, Scores
    <2> DEFINE g == p[1]
               q == p[2]
    <2>2. g \in GameIds(db) /\ s = SetVoting(g, q) /\ s.game = g /\ s.question = q
        BY <2>1, CrowdedIsGame DEF Votable, SetVoting
    <2> HIDE DEF g, q
    <2>3. chat' = chat /\ x = Run(<<v>>)
        <3>1. <<v>> # <<>>
            OBVIOUS
        <3> QED
            BY <1>1, <1>4, <1>5, <1>9, <3>1 DEF IsMessage
    <2>4. NewVote(db, chat, v.vote) /\ NewRound(db, chat, g, q, v.vote)
        BY <1>4, <1>9, <2>2
    <2>5. /\ Reported(db', chat') /\ Scored(db', chat') /\ Once(db')
          /\ NewVote(db', chat', v.vote)
        <3> DEFINE b == v.vote
        <3> HIDE DEF b
        <3>1. NewVote(db, chat, b) /\ NewRound(db, chat, g, q, b)
            BY <2>4 DEF b
        <3> QED
            BY <1>1, <2>2, <2>3, <3>1, RoundSaved DEF b
    <2>6. PlanOK(db', chat', <<v>>)
        <3>1. DOMAIN <<v>> = {1} /\ <<v>>[1] = v /\ Len(<<v>>) = 1 /\ v.op = "insert_vote"
            BY <1>4, <1>9
        <3>2. Heard(chat', <<v>>) = chat'
            BY <3>1 DEF Heard, IsMessage
        <3> QED
            BY <2>5, <3>1, <3>2 DEF PlanOK
    <2>7. CounterOK(db', chat', x)
        BY <2>3, <2>6, RunCounter
    <2> QED
        BY <1>1, <2>5, <2>7, CounterGoesOn
<1> QED
    BY <1>3, <1>6, <1>7, <1>8, <1>9 DEF VoteStatement

(* What a failure leaves out it leaves out from the end: nothing is stored    *)
(* that was not announced.                                                    *)
LEMMA FailCInv ==
    ASSUME SingleWorker, IInv, VInv, CInv, NEW w \in Workers, Fail(w)
    PROVE  CInv'
<1> DEFINE todo == worker[w].todo
           s == Head(todo)
           T == Statements(db)
<1>1. /\ GoOn(w, Idle) /\ db' = db /\ chat' \in {chat, chat \cup {s}}
      /\ todo \in Seq(T) /\ todo # <<>> /\ PlanOK(db, chat, todo)
      /\ Once(db) /\ Reported(db, chat) /\ Scored(db, chat)
    BY DEF Fail, StatementFails, MessageFails, IInv, WorkerOK, CInv, CounterOK
<1>2. 1 \in DOMAIN todo /\ s = todo[1]
    <2> HIDE DEF todo, T
    <2> QED
        BY <1>1
<1> HIDE DEF todo, s
<1>3. s.op = "scores" => /\ db.game[s.game].state = "gather_votes"
                         /\ TrueScores(db, s) /\ LastRound(db, s.game)
    BY <1>1, <1>2 DEF PlanOK
<1>4. Reported(db', chat') /\ Scored(db', chat') /\ Once(db')
    BY <1>1, <1>3, MessageEffect
<1> QED
    BY <1>1, <1>4, IdleCounter, CounterGoesOn

LEMMA NextCInv ==
    ASSUME SingleWorker, NoNewGames
    PROVE  IInv /\ VInv /\ CInv /\ [Next]_vars => CInv'
<1> SUFFICES ASSUME IInv, VInv, CInv, [Next]_vars PROVE CInv'
    OBVIOUS
<1>1. CASE UNCHANGED vars
    BY <1>1 DEF vars, CInv
<1>2. ASSUME NEW w \in Workers, Step(w) PROVE CInv'
    <2>1. worker[w].pc \in {"idle", "vote", "votes", "pair", "over", "status", "run"}
        BY DEF VInv, VoterOK
    <2>2. ~(CreateGame(w) \/ Join(w) \/ BeginUsers(w) \/ BeginDraw(w) \/ Post(w))
        BY <2>1 DEF CreateGame, Join, BeginUsers, BeginDraw, Post
    <2> QED
        BY <1>2, <2>2, VoteReadsCInv, VotePairCInv, GameOverCInv, StatusCInv, ExecuteCInv DEF Step
<1>3. ASSUME NEW w \in Workers, Receive(w) \/ Fail(w) PROVE CInv'
    BY <1>3, ReceiveCInv, FailCInv
<1> QED
    BY <1>1, <1>2, <1>3 DEF Next, Wait

(* The votes so far are in order, and no game at the vote has scores yet. *)
OrderlyVoting ==
    /\ FairVoting
    /\ OneVotePerQuestion /\ ClosedRoundsAnnounced /\ ScoresAreTrue
    /\ \A g \in Voting : \A m \in chat : ~(m.op = "scores" /\ m.game = g)

OrderlyVotingSpec == OrderlyVoting /\ [][Next]_vars

(* So is a voting that has just been opened. *)
LEMMA OpenVotingIsOrderly ==
    ASSUME FairVoting, db.vote = {}, \A m \in chat : m.op # "scores"
    PROVE  OrderlyVoting
<1>1. OneVotePerQuestion
    BY DEF OneVotePerQuestion
<1>2. \A g : VotesOf(db, g) = {}
    BY DEF VotesOf
<1>3. ClosedRoundsAnnounced
    <2>1. \A g : VotedQuestions(AnswersOf(db, g), VotesOf(db, g)) = {}
        BY <1>2 DEF VotedQuestions
    <2> QED
        BY <2>1 DEF ClosedRoundsAnnounced
<1>4. ScoresAreTrue
    BY DEF ScoresAreTrue
<1> QED
    BY <1>1, <1>3, <1>4 DEF OrderlyVoting

(* Some results that were sent count all votes on question q of game g. *)
Announced(g, q) ==
    \E m \in chat :
        /\ m.op = "results" /\ m.game = g /\ m.question = q
        /\ {v \in VotesOf(db, g) : AnswersOf(db, g)[v.token].question = q} \subseteq m.votes

LEMMA ReportedIsAnnounced == Reported(db, chat) <=> ClosedRoundsAnnounced
<1>1. ClosedRoundsAnnounced <=>
          \A g \in Voting :
              \A q \in VotedQuestions(AnswersOf(db, g), VotesOf(db, g)) \ {db.game[g].question} :
                  Announced(g, q)
    BY DEF ClosedRoundsAnnounced, Announced
<1>2. \A g : \A v \in VotesOf(db, g) :
          /\ v.token \in TokensOf(db, g)
          /\ AnswersOf(db, g)[v.token].question = db.answer[v.token].question
    BY DEF VotesOf, AnswersOf
<1>3. \A g : VotedQuestions(AnswersOf(db, g), VotesOf(db, g))
             = {db.answer[v.token].question : v \in VotesOf(db, g)}
    BY <1>2, VotedInRows
<1>4. ASSUME NEW g, NEW v \in VotesOf(db, g)
      PROVE  ReportedWith(db, chat, g, db.answer[v.token].question, v)
             <=> Announced(g, db.answer[v.token].question)
    <2> DEFINE q == db.answer[v.token].question
    <2>1. StoredOn(db, g, q) \cup {v}
          = {u \in VotesOf(db, g) : AnswersOf(db, g)[u.token].question = q}
        BY <1>2 DEF StoredOn
    <2> HIDE DEF q
    <2>2. ReportedWith(db, chat, g, q, v) <=> Announced(g, q)
        BY <2>1 DEF ReportedWith, Announced
    <2> QED
        BY <2>2 DEF q
<1>5. Reported(db, chat) <=>
          \A g \in Voting : \A v \in VotesOf(db, g) :
              db.answer[v.token].question # db.game[g].question
              => Announced(g, db.answer[v.token].question)
    BY <1>4 DEF Reported, Voting
<1> QED
    BY <1>1, <1>3, <1>5

LEMMA CInvImplies == IInv /\ VInv /\ CInv => OneVotePerQuestion /\ ClosedRoundsAnnounced /\ ScoresAreTrue
<1> SUFFICES ASSUME IInv, VInv, CInv
             PROVE  OneVotePerQuestion /\ ClosedRoundsAnnounced /\ ScoresAreTrue
    OBVIOUS
<1>1. OneVotePerQuestion
    BY DEF CInv, Once, OneVotePerQuestion
<1>2. ClosedRoundsAnnounced
    BY ReportedIsAnnounced DEF CInv
<1>3. ScoresAreTrue
    <2>1. \A g : ScoresOf(chat, g) = {m \in chat : m.op = "scores" /\ m.game = g}
        BY DEF ScoresOf
    <2>2. \A g : \A m \in ScoresOf(chat, g) : m.game = g
        BY DEF ScoresOf
    <2> QED
        BY <2>1, <2>2 DEF CInv, Scored, TrueScores, ScoresAreTrue
<1> QED
    BY <1>1, <1>2, <1>3

LEMMA SpecCInv ==
    ASSUME SingleWorker, NoNewGames
    PROVE  OrderlyVotingSpec => [](IInv /\ VInv /\ CInv)
<1>1. OrderlyVoting => CInv
    <2> SUFFICES ASSUME OrderlyVoting PROVE CInv
        OBVIOUS
    <2>1. \A w \in Workers : CounterOK(db, chat, worker[w])
        BY IdleCounter DEF OrderlyVoting, FairVoting
    <2>2. Once(db)
        BY DEF OrderlyVoting, Once, OneVotePerQuestion
    <2>3. Reported(db, chat)
        BY ReportedIsAnnounced DEF OrderlyVoting
    <2>4. Scored(db, chat)
        <3>1. \A g : ScoresOf(chat, g) = {m \in chat : m.op = "scores" /\ m.game = g}
            BY DEF ScoresOf
        <3>2. \A g : \A m \in ScoresOf(chat, g) : m.game = g
            BY DEF ScoresOf
        <3> QED
            BY <3>1, <3>2 DEF Scored, TrueScores, OrderlyVoting, ScoresAreTrue, Voting
    <2> QED
        BY <2>1, <2>2, <2>3, <2>4 DEF CInv
<1>2. IInv /\ VInv /\ CInv /\ [Next]_vars => CInv'
    BY NextCInv
<1>3. FairVotingSpec => [](IInv /\ VInv)
    BY SpecVInv
<1>4. OrderlyVoting => FairVoting
    BY DEF OrderlyVoting
<1> QED
    BY <1>1, <1>2, <1>3, <1>4, PTL DEF FairVotingSpec, OrderlyVotingSpec

(* One worker, whatever fails: nobody has two votes on one question, also     *)
(* after voting again for a vote that was lost.                               *)
THEOREM NobodyVotesTwice ==
    ASSUME SingleWorker, NoNewGames
    PROVE  OrderlyVotingSpec => []OneVotePerQuestion
BY SpecCInv, CInvImplies, PTL

(* No round is closed unannounced: before its question is replaced, results   *)
(* have been sent that count all its votes, the one that closes it included,  *)
(* which is stored, or lost, only after that.                                 *)
THEOREM RoundsAreAnnounced ==
    ASSUME SingleWorker, NoNewGames
    PROVE  OrderlyVotingSpec => []ClosedRoundsAnnounced
BY SpecCInv, CInvImplies, PTL

(* Final scores may be sent again and again, but those of a game that has     *)
(* ended count every vote that is stored, and one on every question.          *)
THEOREM ScoresCountAllVotes ==
    ASSUME SingleWorker, NoNewGames
    PROVE  OrderlyVotingSpec => []ScoresAreTrue
BY SpecCInv, CInvImplies, PTL
===============================================================================
