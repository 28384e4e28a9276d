------------------------------- MODULE BotProofs -------------------------------
(***************************************************************************)
(* Theorems about Bot, for any number of workers, users, games, prompts and *)
(* failing statements or messages.                                          *)
(***************************************************************************)
EXTENDS Bot, GameRulesProofs, SequenceTheorems

SingleWorker == \A v, w \in Workers : v = w

-------------------------------------------------------------------------------
(* The inductive invariant: what a handler has read, and what it is going to *)
(* execute, still makes sense in the tables, whatever the others did to them. *)

GameRow == [state : States, question : Questions \cup {NoQuestion}]

Prompt == [user : Users, question : Questions, response : Responses \cup {NoResponse}]

Row(d) ==
    [game : GameIds(d), user : Users, question : Questions,
     response : Responses \cup {NoResponse}]

Ballot(d) == [user : Users, token : DOMAIN d.answer]

(* There are two answers of game g to question q: find_running finds a pair. *)
HasPair(d, g, q) ==
    \E a, b \in DOMAIN d.answer :
        /\ a # b
        /\ d.answer[a].game = g /\ d.answer[a].question = q
        /\ d.answer[b].game = g /\ d.answer[b].question = q

(* The games that may begin. *)
Crowded(d) == {g \in GameIds(d) : Cardinality(UsersOf(d, g)) >= MinPlayers}

TablesOK(d) ==
    /\ d = [game |-> d.game, game_user |-> d.game_user, answer |-> d.answer, vote |-> d.vote]
    /\ d.game \in Seq(GameRow)
    /\ d.game_user \subseteq GameIds(d) \X Users
    /\ d.answer \in Seq(Row(d))
    /\ d.vote \subseteq Ballot(d)
    /\ \A g \in GameIds(d) :
          d.game[g].state \in {"gather_answers", "gather_votes"} => g \in Crowded(d)
    /\ \A g \in GameIds(d) :
          d.game[g].state = "gather_votes" => HasPair(d, g, d.game[g].question)

(* Rows are never deleted, and of an answer only the response is updated. *)
Grows(d, e) ==
    /\ GameIds(d) \subseteq GameIds(e)
    /\ Crowded(d) \subseteq Crowded(e)
    /\ DOMAIN d.answer \subseteq DOMAIN e.answer
    /\ \A t \in DOMAIN d.answer :
          /\ e.answer[t].game = d.answer[t].game
          /\ e.answer[t].user = d.answer[t].user
          /\ e.answer[t].question = d.answer[t].question

(* What the UPDATEs of one handler write. *)
Updates(d) ==
    UNION {[T -> Responses \cup {NoResponse}] : T \in (SUBSET DOMAIN d.answer) \ {{}}}

(* What may be put to the vote. *)
Votable(d) == {p \in Crowded(d) \X Questions : HasPair(d, p[1], p[2])}

Statements(d) ==
    {InsertUser(g, u) : g \in GameIds(d), u \in Users}
        \cup {SetState(g, s) : g \in GameIds(d), s \in {"gather_users", "end"}}
        \cup {SetState(g, "gather_answers") : g \in Crowded(d)}
        \cup {SetVoting(p[1], p[2]) : p \in Votable(d)}
        \cup {InsertAnswer(row) : row \in Row(d)}
        \cup {UpdateAnswers(rows) : rows \in Updates(d)}
        \cup {InsertVote(v) : v \in Ballot(d)}
        \cup {Buttons(g, q) : g \in GameIds(d), q \in Questions}
        \cup {Results(g, q, vs) : g \in GameIds(d), q \in Questions, vs \in SUBSET Ballot(d)}
        \cup {Scores(g, vs) : g \in GameIds(d), vs \in SUBSET Ballot(d)}

(* The answers of game g, of which responses may have come in since. *)
CopyOK(d, g, f) ==
    /\ DOMAIN f \subseteq DOMAIN d.answer
    /\ f \in [DOMAIN f -> Prompt]
    /\ \A t \in DOMAIN f : /\ d.answer[t].game = g
                           /\ d.answer[t].user = f[t].user
                           /\ d.answer[t].question = f[t].question

Counters == {"idle", "dead", "create", "join", "begin", "draw", "post",
             "vote", "votes", "pair", "over", "status", "run"}

WorkerOK(d, x) ==
    /\ x.pc \in Counters
    /\ x.pc \in {"create", "join", "vote", "votes", "pair"} => x.user \in Users
    /\ x.pc \in {"join", "begin", "draw", "status"} => x.game \in GameIds(d)
    /\ x.pc \in {"post", "vote", "votes", "pair", "over"} => x.game \in Crowded(d)
    /\ x.pc = "draw" => \E S \in SUBSET Users : x.order \in Bijection(1 .. Cardinality(S), S)
    /\ x.pc = "post" => x.response \in Responses
    /\ x.pc \in {"vote", "votes", "pair", "over"} => x.token \in DOMAIN d.answer
    /\ x.pc \in {"votes", "pair"} => CopyOK(d, x.game, x.answers)
    /\ x.pc \in {"pair", "over"} => x.votes \subseteq Ballot(d)
    /\ x.pc = "run" => x.todo \in Seq(Statements(d)) /\ x.todo # <<>>

IInv ==
    /\ TablesOK(db)
    /\ worker = [w \in Workers |-> worker[w]]
    /\ \A w \in Workers : WorkerOK(db, worker[w])
    /\ failures \in 0 .. MaxFailures

-------------------------------------------------------------------------------
(* The tables.                                                              *)

LEMMA CrowdGrows ==
    ASSUME NEW d, NEW e, GameIds(d) \subseteq GameIds(e), d.game_user \subseteq e.game_user
    PROVE  Crowded(d) \subseteq Crowded(e)
<1> SUFFICES ASSUME NEW g \in Crowded(d) PROVE g \in Crowded(e)
    OBVIOUS
<1>1. IsFiniteSet(UsersOf(e, g)) /\ UsersOf(d, g) \subseteq UsersOf(e, g)
    BY BotAssumption, FS_Subset DEF UsersOf
<1>2. /\ Cardinality(UsersOf(d, g)) =< Cardinality(UsersOf(e, g))
      /\ Cardinality(UsersOf(d, g)) \in Nat /\ Cardinality(UsersOf(e, g)) \in Nat
    BY <1>1, FS_Subset, FS_CardinalityType
<1>3. Cardinality(UsersOf(d, g)) >= MinPlayers /\ g \in GameIds(d)
    BY DEF Crowded
<1> QED
    BY <1>2, <1>3 DEF Crowded, MinPlayers

LEMMA PairsStay ==
    ASSUME NEW d, NEW e, Grows(d, e), NEW g, NEW q, HasPair(d, g, q)
    PROVE  HasPair(e, g, q)
BY DEF Grows, HasPair

LEMMA StatementsGrow ==
    ASSUME NEW d, NEW e, Grows(d, e)
    PROVE  Statements(d) \subseteq Statements(e) /\ Ballot(d) \subseteq Ballot(e)
<1>1. /\ GameIds(d) \subseteq GameIds(e) /\ Crowded(d) \subseteq Crowded(e)
      /\ DOMAIN d.answer \subseteq DOMAIN e.answer
    BY DEF Grows
<1>2. Row(d) \subseteq Row(e) /\ Ballot(d) \subseteq Ballot(e)
    BY <1>1 DEF Row, Ballot
<1>3. Updates(d) \subseteq Updates(e)
    BY <1>1 DEF Updates
<1>4. Votable(d) \subseteq Votable(e)
    BY <1>1, PairsStay DEF Votable
<1> QED
    BY <1>1, <1>2, <1>3, <1>4 DEF Statements

LEMMA WorkerStaysOK ==
    ASSUME NEW d, NEW e, Grows(d, e), NEW x, WorkerOK(d, x)
    PROVE  WorkerOK(e, x)
<1>1. Statements(d) \subseteq Statements(e) /\ Ballot(d) \subseteq Ballot(e)
    BY StatementsGrow
<1>2. x.pc = "run" => x.todo \in Seq(Statements(e)) /\ x.todo # <<>>
    BY <1>1 DEF WorkerOK
<1>3. x.pc \in {"votes", "pair"} => CopyOK(e, x.game, x.answers)
    BY DEF WorkerOK, CopyOK, Grows
<1>4. x.pc \in {"pair", "over"} => x.votes \subseteq Ballot(e)
    BY <1>1 DEF WorkerOK
<1> QED
    BY <1>2, <1>3, <1>4 DEF WorkerOK, Grows

(* What a statement does to the tables, one table at a time. *)
LEMMA Applied ==
    ASSUME NEW d, TablesOK(d)
    PROVE  /\ \A g, u : Apply(d, InsertUser(g, u)) =
                 [game |-> d.game, game_user |-> d.game_user \cup {<<g, u>>},
                  answer |-> d.answer, vote |-> d.vote]
           /\ \A g, s : Apply(d, SetState(g, s)) =
                 [game |-> [d.game EXCEPT ![g] = [d.game[g] EXCEPT !.state = s]],
                  game_user |-> d.game_user, answer |-> d.answer, vote |-> d.vote]
           /\ \A g, q : Apply(d, SetVoting(g, q)) =
                 [game |-> [d.game EXCEPT ![g] = [state |-> "gather_votes", question |-> q]],
                  game_user |-> d.game_user, answer |-> d.answer, vote |-> d.vote]
           /\ \A row : Apply(d, InsertAnswer(row)) =
                 [game |-> d.game, game_user |-> d.game_user,
                  answer |-> Append(d.answer, row), vote |-> d.vote]
           /\ \A rows : Apply(d, UpdateAnswers(rows)) =
                 [game |-> d.game, game_user |-> d.game_user,
                  answer |-> [d.answer EXCEPT ![Min(DOMAIN rows)] =
                                 [d.answer[Min(DOMAIN rows)] EXCEPT
                                     !.response = rows[Min(DOMAIN rows)]]],
                  vote |-> d.vote]
           /\ \A v : Apply(d, InsertVote(v)) =
                 [game |-> d.game, game_user |-> d.game_user, answer |-> d.answer,
                  vote |-> d.vote \cup {v}]
           /\ \A g, q : Apply(d, Buttons(g, q)) = d
           /\ \A g, q, vs : Apply(d, Results(g, q, vs)) = d
           /\ \A g, vs : Apply(d, Scores(g, vs)) = d
           /\ Apply(d, InsertGame) =
                 [game |-> Append(d.game, [state |-> "gather_users", question |-> NoQuestion]),
                  game_user |-> d.game_user, answer |-> d.answer, vote |-> d.vote]
<1>1. d = [game |-> d.game, game_user |-> d.game_user, answer |-> d.answer, vote |-> d.vote]
    BY DEF TablesOK
<1>2. \A g, u : Apply(d, InsertUser(g, u)) =
                 [game |-> d.game, game_user |-> d.game_user \cup {<<g, u>>},
                  answer |-> d.answer, vote |-> d.vote]
    BY <1>1 DEF Apply, InsertUser, IsMessage
<1>3. \A g, s : Apply(d, SetState(g, s)) =
                 [game |-> [d.game EXCEPT ![g] = [d.game[g] EXCEPT !.state = s]],
                  game_user |-> d.game_user, answer |-> d.answer, vote |-> d.vote]
    BY <1>1 DEF Apply, SetState, IsMessage
<1>4. \A g, q : Apply(d, SetVoting(g, q)) =
                 [game |-> [d.game EXCEPT ![g] = [state |-> "gather_votes", question |-> q]],
                  game_user |-> d.game_user, answer |-> d.answer, vote |-> d.vote]
    BY <1>1 DEF Apply, SetVoting, IsMessage
<1>5. \A row : Apply(d, InsertAnswer(row)) =
                 [game |-> d.game, game_user |-> d.game_user,
                  answer |-> Append(d.answer, row), vote |-> d.vote]
    BY <1>1 DEF Apply, InsertAnswer, IsMessage
<1>6. \A rows : Apply(d, UpdateAnswers(rows)) =
                 [game |-> d.game, game_user |-> d.game_user,
                  answer |-> [d.answer EXCEPT ![Min(DOMAIN rows)] =
                                 [d.answer[Min(DOMAIN rows)] EXCEPT
                                     !.response = rows[Min(DOMAIN rows)]]],
                  vote |-> d.vote]
    BY <1>1 DEF Apply, UpdateAnswers, IsMessage
<1>7. \A v : Apply(d, InsertVote(v)) =
                 [game |-> d.game, game_user |-> d.game_user, answer |-> d.answer,
                  vote |-> d.vote \cup {v}]
    BY <1>1 DEF Apply, InsertVote, IsMessage
<1>8. /\ \A g, q : Apply(d, Buttons(g, q)) = d
      /\ \A g, q, vs : Apply(d, Results(g, q, vs)) = d
      /\ \A g, vs : Apply(d, Scores(g, vs)) = d
    BY DEF Apply, Buttons, Results, Scores, IsMessage
<1>9. Apply(d, InsertGame) =
                 [game |-> Append(d.game, [state |-> "gather_users", question |-> NoQuestion]),
                  game_user |-> d.game_user, answer |-> d.answer, vote |-> d.vote]
    BY <1>1 DEF Apply, InsertGame, IsMessage
<1> QED
    BY <1>2, <1>3, <1>4, <1>5, <1>6, <1>7, <1>8, <1>9

(* A table of games that keeps its ids, with all its players. *)
LEMMA SameGames ==
    ASSUME NEW d, NEW e, TablesOK(d),
           e = [game |-> e.game, game_user |-> d.game_user, answer |-> d.answer, vote |-> d.vote],
           e.game \in Seq(GameRow), GameIds(e) = GameIds(d),
           \A g \in GameIds(e) :
               /\ e.game[g].state \in {"gather_answers", "gather_votes"} => g \in Crowded(d)
               /\ e.game[g].state = "gather_votes" => HasPair(d, g, e.game[g].question)
    PROVE  TablesOK(e) /\ Grows(d, e)
<1>1. /\ e.game_user = d.game_user /\ e.answer = d.answer /\ e.vote = d.vote
    OBVIOUS
<1>2. Crowded(d) \subseteq Crowded(e)
    BY <1>1, CrowdGrows
<1>3. Row(e) = Row(d) /\ Ballot(e) = Ballot(d)
    BY <1>1 DEF Row, Ballot
<1>4. Grows(d, e)
    BY <1>1, <1>2 DEF Grows
<1> QED
    BY <1>1, <1>2, <1>3, <1>4, PairsStay DEF TablesOK

LEMMA InsertUserOK ==
    ASSUME NEW d, TablesOK(d), NEW g \in GameIds(d), NEW u \in Users,
           NEW e, e = Apply(d, InsertUser(g, u))
    PROVE  TablesOK(e) /\ Grows(d, e)
<1>1. e = [game |-> d.game, game_user |-> d.game_user \cup {<<g, u>>},
           answer |-> d.answer, vote |-> d.vote]
    BY Applied
<1>2. /\ e.game = d.game /\ e.game_user = d.game_user \cup {<<g, u>>}
      /\ e.answer = d.answer /\ e.vote = d.vote
    BY <1>1
<1>3. GameIds(e) = GameIds(d)
    BY <1>2 DEF GameIds
<1>4. Crowded(d) \subseteq Crowded(e)
    BY <1>2, <1>3, CrowdGrows
<1>5. Row(e) = Row(d) /\ Ballot(e) = Ballot(d)
    BY <1>2, <1>3 DEF Row, Ballot
<1>6. e.game_user \subseteq GameIds(e) \X Users
    BY <1>2, <1>3 DEF TablesOK
<1>7. Grows(d, e)
    BY <1>2, <1>3, <1>4 DEF Grows
<1> QED
    BY <1>1, <1>2, <1>3, <1>4, <1>5, <1>6, <1>7, PairsStay DEF TablesOK

LEMMA SetStateOK ==
    ASSUME NEW d, TablesOK(d), NEW g \in GameIds(d), NEW s \in States \ {"gather_votes"},
           s = "gather_answers" => g \in Crowded(d),
           NEW e, e = Apply(d, SetState(g, s))
    PROVE  TablesOK(e) /\ Grows(d, e)
<1> DEFINE row == [d.game[g] EXCEPT !.state = s]
<1>1. e = [game |-> [d.game EXCEPT ![g] = row],
           game_user |-> d.game_user, answer |-> d.answer, vote |-> d.vote]
    BY Applied
<1>2. d.game \in Seq(GameRow)
    BY DEF TablesOK
<1>3. row \in GameRow /\ row.state = s
    <2>1. d.game[g] \in GameRow
        BY <1>2 DEF GameIds
    <2> QED
        BY <2>1 DEF GameRow
<1> HIDE DEF row
<1>4. e.game = [d.game EXCEPT ![g] = row]
    BY <1>1
<1>5. e.game \in Seq(GameRow) /\ GameIds(e) = GameIds(d)
    BY <1>2, <1>3, <1>4 DEF GameIds
<1>6. \A h \in GameIds(e) :
          /\ e.game[h].state \in {"gather_answers", "gather_votes"} => h \in Crowded(d)
          /\ e.game[h].state = "gather_votes" => HasPair(d, h, e.game[h].question)
    BY <1>2, <1>3, <1>4, <1>5 DEF TablesOK, GameIds
<1> QED
    BY <1>1, <1>4, <1>5, <1>6, SameGames

LEMMA SetVotingOK ==
    ASSUME NEW d, TablesOK(d), NEW g \in Crowded(d), NEW q \in Questions, HasPair(d, g, q),
           NEW e, e = Apply(d, SetVoting(g, q))
    PROVE  TablesOK(e) /\ Grows(d, e)
<1> DEFINE row == [state |-> "gather_votes", question |-> q]
<1>1. e = [game |-> [d.game EXCEPT ![g] = row],
           game_user |-> d.game_user, answer |-> d.answer, vote |-> d.vote]
    BY Applied
<1>2. d.game \in Seq(GameRow) /\ g \in GameIds(d)
    BY DEF TablesOK, Crowded
<1>3. row \in GameRow /\ row.question = q
    BY DEF GameRow, States
<1> HIDE DEF row
<1>4. e.game = [d.game EXCEPT ![g] = row]
    BY <1>1
<1>5. e.game \in Seq(GameRow) /\ GameIds(e) = GameIds(d)
    BY <1>2, <1>3, <1>4 DEF GameIds
<1>6. \A h \in GameIds(e) :
          /\ e.game[h].state \in {"gather_answers", "gather_votes"} => h \in Crowded(d)
          /\ e.game[h].state = "gather_votes" => HasPair(d, h, e.game[h].question)
    BY <1>2, <1>3, <1>4, <1>5 DEF TablesOK, GameIds
<1> QED
    BY <1>1, <1>4, <1>5, <1>6, SameGames

LEMMA InsertAnswerOK ==
    ASSUME NEW d, TablesOK(d), NEW row \in Row(d),
           NEW e, e = Apply(d, InsertAnswer(row))
    PROVE  TablesOK(e) /\ Grows(d, e)
<1>1. e = [game |-> d.game, game_user |-> d.game_user,
           answer |-> Append(d.answer, row), vote |-> d.vote]
    BY Applied
<1>2. /\ e.game = d.game /\ e.game_user = d.game_user
      /\ e.answer = Append(d.answer, row) /\ e.vote = d.vote
    BY <1>1
<1>3. d.answer \in Seq(Row(d))
    BY DEF TablesOK
<1>4. GameIds(e) = GameIds(d) /\ Row(e) = Row(d) /\ Crowded(e) = Crowded(d)
    BY <1>2 DEF GameIds, Row, Crowded, UsersOf
<1>5. /\ e.answer \in Seq(Row(e)) /\ DOMAIN d.answer \subseteq DOMAIN e.answer
      /\ \A t \in DOMAIN d.answer : e.answer[t] = d.answer[t]
    BY <1>2, <1>3, <1>4
<1>6. Ballot(d) \subseteq Ballot(e)
    BY <1>5 DEF Ballot
<1>7. Grows(d, e)
    BY <1>4, <1>5 DEF Grows
<1> QED
    BY <1>1, <1>2, <1>4, <1>5, <1>6, <1>7, PairsStay DEF TablesOK

(* The first row that is left is one of the rows that were read. *)
LEMMA FirstRow ==
    ASSUME NEW d, TablesOK(d), NEW rows \in Updates(d)
    PROVE  /\ DOMAIN rows \subseteq DOMAIN d.answer
           /\ Min(DOMAIN rows) \in DOMAIN rows
           /\ \A t \in DOMAIN rows : rows[t] \in Responses \cup {NoResponse}
<1>1. /\ DOMAIN rows \subseteq DOMAIN d.answer /\ DOMAIN rows # {}
      /\ \A t \in DOMAIN rows : rows[t] \in Responses \cup {NoResponse}
    BY DEF Updates
<1>2. DOMAIN d.answer \subseteq Nat
    BY DEF TablesOK
<1> QED
    BY <1>1, <1>2, MinOfNaturals

LEMMA UpdateAnswersOK ==
    ASSUME NEW d, TablesOK(d), NEW rows \in Updates(d),
           NEW e, e = Apply(d, UpdateAnswers(rows))
    PROVE  TablesOK(e) /\ Grows(d, e)
<1> DEFINE t == Min(DOMAIN rows)
           row == [d.answer[t] EXCEPT !.response = rows[t]]
<1>1. e = [game |-> d.game, game_user |-> d.game_user,
           answer |-> [d.answer EXCEPT ![t] = row], vote |-> d.vote]
    BY Applied
<1>2. d.answer \in Seq(Row(d))
    BY DEF TablesOK
<1>3. t \in DOMAIN d.answer /\ rows[t] \in Responses \cup {NoResponse}
    BY FirstRow
<1>4. /\ row \in Row(d) /\ row.game = d.answer[t].game
      /\ row.user = d.answer[t].user /\ row.question = d.answer[t].question
    <2>1. d.answer[t] \in Row(d)
        BY <1>2, <1>3
    <2> QED
        BY <1>3, <2>1 DEF Row
<1> HIDE DEF t, row
<1>5. /\ e.game = d.game /\ e.game_user = d.game_user
      /\ e.answer = [d.answer EXCEPT ![t] = row] /\ e.vote = d.vote
    BY <1>1
<1>6. GameIds(e) = GameIds(d) /\ Row(e) = Row(d) /\ Crowded(e) = Crowded(d)
    BY <1>5 DEF GameIds, Row, Crowded, UsersOf
<1>7. /\ e.answer \in Seq(Row(d)) /\ DOMAIN e.answer = DOMAIN d.answer
      /\ \A s \in DOMAIN d.answer : e.answer[s] = IF s = t THEN row ELSE d.answer[s]
    BY <1>2, <1>3, <1>4, <1>5
<1>8. Ballot(e) = Ballot(d)
    BY <1>7 DEF Ballot
<1>9. Grows(d, e)
    BY <1>4, <1>6, <1>7 DEF Grows
<1> QED
    BY <1>1, <1>5, <1>6, <1>7, <1>8, <1>9, PairsStay DEF TablesOK

LEMMA InsertVoteOK ==
    ASSUME NEW d, TablesOK(d), NEW v \in Ballot(d),
           NEW e, e = Apply(d, InsertVote(v))
    PROVE  TablesOK(e) /\ Grows(d, e)
<1>1. e = [game |-> d.game, game_user |-> d.game_user, answer |-> d.answer,
           vote |-> d.vote \cup {v}]
    BY Applied
<1>2. /\ e.game = d.game /\ e.game_user = d.game_user
      /\ e.answer = d.answer /\ e.vote = d.vote \cup {v}
    BY <1>1
<1>3. /\ GameIds(e) = GameIds(d) /\ Row(e) = Row(d) /\ Crowded(e) = Crowded(d)
      /\ Ballot(e) = Ballot(d)
    BY <1>2 DEF GameIds, Row, Crowded, UsersOf, Ballot
<1>4. Grows(d, e)
    BY <1>2, <1>3 DEF Grows
<1> QED
    BY <1>1, <1>2, <1>3, <1>4, PairsStay DEF TablesOK

LEMMA InsertGameOK ==
    ASSUME NEW d, TablesOK(d), NEW e, e = Apply(d, InsertGame)
    PROVE  TablesOK(e) /\ Grows(d, e) /\ Len(d.game) + 1 \in GameIds(e)
<1> DEFINE row == [state |-> "gather_users", question |-> NoQuestion]
<1>1. e = [game |-> Append(d.game, row), game_user |-> d.game_user,
           answer |-> d.answer, vote |-> d.vote]
    BY Applied
<1>2. d.game \in Seq(GameRow)
    BY DEF TablesOK
<1>3. row \in GameRow /\ row.state = "gather_users"
    BY DEF GameRow, States
<1> HIDE DEF row
<1>4. /\ e.game = Append(d.game, row) /\ e.game_user = d.game_user
      /\ e.answer = d.answer /\ e.vote = d.vote
    BY <1>1
<1>5. /\ e.game \in Seq(GameRow) /\ GameIds(e) = GameIds(d) \cup {Len(d.game) + 1}
      /\ \A g \in GameIds(d) : e.game[g] = d.game[g]
      /\ e.game[Len(d.game) + 1] = row
    BY <1>2, <1>3, <1>4 DEF GameIds
<1>6. Crowded(d) \subseteq Crowded(e)
    BY <1>4, <1>5, CrowdGrows
<1>7. Ballot(e) = Ballot(d) /\ Row(d) \subseteq Row(e)
    BY <1>4, <1>5 DEF Ballot, Row
<1>8. e.answer \in Seq(Row(e))
    BY <1>4, <1>7 DEF TablesOK
<1>9. Grows(d, e)
    BY <1>4, <1>5, <1>6 DEF Grows
<1>10. \A g \in GameIds(e) :
          /\ e.game[g].state \in {"gather_answers", "gather_votes"} => g \in Crowded(e)
          /\ e.game[g].state = "gather_votes" => HasPair(e, g, e.game[g].question)
    BY <1>3, <1>5, <1>6, <1>9, PairsStay DEF TablesOK
<1>11. e.game_user \subseteq GameIds(e) \X Users
    BY <1>4, <1>5 DEF TablesOK
<1> QED
    BY <1>1, <1>4, <1>5, <1>7, <1>8, <1>9, <1>10, <1>11 DEF TablesOK

(* Every statement and message of a handler. *)
LEMMA ApplyOK ==
    ASSUME NEW d, TablesOK(d), NEW s \in Statements(d)
    PROVE  TablesOK(Apply(d, s)) /\ Grows(d, Apply(d, s))
<1>1. \/ \E g \in GameIds(d), u \in Users : s = InsertUser(g, u)
      \/ \E g \in GameIds(d), st \in {"gather_users", "end"} : s = SetState(g, st)
      \/ \E g \in Crowded(d) : s = SetState(g, "gather_answers")
      \/ \E p \in Votable(d) : s = SetVoting(p[1], p[2])
      \/ \E row \in Row(d) : s = InsertAnswer(row)
      \/ \E rows \in Updates(d) : s = UpdateAnswers(rows)
      \/ \E v \in Ballot(d) : s = InsertVote(v)
      \/ \E g, q : s = Buttons(g, q)
      \/ \E g, q, vs : s = Results(g, q, vs)
      \/ \E g, vs : s = Scores(g, vs)
    BY DEF Statements
<1> DEFINE OK(e) == TablesOK(e) /\ Grows(d, e)
<1>2. ASSUME NEW g \in GameIds(d), NEW u \in Users, s = InsertUser(g, u)
      PROVE  OK(Apply(d, s))
    BY <1>2, InsertUserOK
<1>3. ASSUME NEW g \in GameIds(d), NEW st \in {"gather_users", "end"}, s = SetState(g, st)
      PROVE  OK(Apply(d, s))
    BY <1>3, SetStateOK DEF States
<1>4. ASSUME NEW g \in Crowded(d), s = SetState(g, "gather_answers")
      PROVE  OK(Apply(d, s))
    BY <1>4, SetStateOK DEF States, Crowded
<1>5. ASSUME NEW p \in Votable(d), s = SetVoting(p[1], p[2])
      PROVE  OK(Apply(d, s))
    BY <1>5, SetVotingOK DEF Votable
<1>6. ASSUME NEW row \in Row(d), s = InsertAnswer(row)
      PROVE  OK(Apply(d, s))
    BY <1>6, InsertAnswerOK
<1>7. ASSUME NEW rows \in Updates(d), s = UpdateAnswers(rows)
      PROVE  OK(Apply(d, s))
    BY <1>7, UpdateAnswersOK
<1>8. ASSUME NEW v \in Ballot(d), s = InsertVote(v)
      PROVE  OK(Apply(d, s))
    BY <1>8, InsertVoteOK
<1>9. ASSUME \/ \E g, q : s = Buttons(g, q)
             \/ \E g, q, vs : s = Results(g, q, vs)
             \/ \E g, vs : s = Scores(g, vs)
      PROVE  OK(Apply(d, s))
    <2>1. Apply(d, s) = d
        BY <1>9, Applied
    <2> QED
        BY <2>1 DEF Grows
<1> HIDE DEF OK
<1>10. OK(Apply(d, s))
    BY <1>1, <1>2, <1>3, <1>4, <1>5, <1>6, <1>7, <1>8, <1>9
<1> QED
    BY <1>10 DEF OK

-------------------------------------------------------------------------------
(* The workers.                                                             *)

LEMMA GoOnIInv ==
    ASSUME IInv, NEW w \in Workers, NEW x, GoOn(w, x),
           TablesOK(db'), Grows(db, db'), WorkerOK(db', x), failures' \in 0 .. MaxFailures
    PROVE  IInv'
<1>1. /\ worker' = [v \in Workers |-> worker'[v]]
      /\ worker'[w] = x
      /\ \A v \in Workers \ {w} : worker'[v] = worker[v]
    BY DEF GoOn, IInv
<1>2. \A v \in Workers \ {w} : WorkerOK(db', worker[v])
    BY WorkerStaysOK DEF IInv
<1> QED
    BY <1>1, <1>2 DEF IInv

(* A step that only reads. *)
LEMMA ReadIInv ==
    ASSUME IInv, NEW w \in Workers, NEW x, GoOn(w, x), WorkerOK(db, x),
           UNCHANGED <<db, chat, failures>>
    PROVE  IInv'
BY GoOnIInv DEF IInv, Grows

LEMMA IdleOK == \A d : WorkerOK(d, Idle) /\ WorkerOK(d, Dead)
BY DEF WorkerOK, Idle, Dead, Counters

LEMMA RunOK ==
    ASSUME NEW d, NEW todo \in Seq(Statements(d)), todo # <<>>
    PROVE  WorkerOK(d, Run(todo))
<1>1. Run(todo).pc = "run" /\ Run(todo).todo = todo
    BY DEF Run
<1> QED
    BY <1>1 DEF WorkerOK, Counters

LEMMA RunFewOK ==
    ASSUME NEW d, NEW a \in Statements(d), NEW b \in Statements(d), NEW c \in Statements(d)
    PROVE  /\ WorkerOK(d, Run(<<a>>))
           /\ WorkerOK(d, Run(<<a, b>>))
           /\ WorkerOK(d, Run(<<a, b, c>>))
<1> DEFINE S == Statements(d)
<1>1. a \in S /\ b \in S /\ c \in S
    OBVIOUS
<1> HIDE DEF S
<1>2. /\ <<a>> \in Seq(S) /\ <<a, b>> \in Seq(S) /\ <<a, b, c>> \in Seq(S)
      /\ <<a>> # <<>> /\ <<a, b>> # <<>> /\ <<a, b, c>> # <<>>
    BY <1>1
<1> QED
    BY <1>2, RunOK DEF S

(* The statements, one by one. *)
LEMMA Stated ==
    ASSUME NEW d
    PROVE  /\ \A g \in GameIds(d), u \in Users : InsertUser(g, u) \in Statements(d)
           /\ \A g \in GameIds(d), s \in {"gather_users", "end"} : SetState(g, s) \in Statements(d)
           /\ \A g \in Crowded(d) : SetState(g, "gather_answers") \in Statements(d)
           /\ \A g \in Crowded(d), q \in Questions :
                 HasPair(d, g, q) => SetVoting(g, q) \in Statements(d)
           /\ \A row \in Row(d) : InsertAnswer(row) \in Statements(d)
           /\ \A rows \in Updates(d) : UpdateAnswers(rows) \in Statements(d)
           /\ \A v \in Ballot(d) : InsertVote(v) \in Statements(d)
           /\ \A g \in GameIds(d), q \in Questions : Buttons(g, q) \in Statements(d)
           /\ \A g \in GameIds(d), q \in Questions, vs \in SUBSET Ballot(d) :
                 Results(g, q, vs) \in Statements(d)
           /\ \A g \in GameIds(d), vs \in SUBSET Ballot(d) : Scores(g, vs) \in Statements(d)
<1>1. \A g \in Crowded(d), q \in Questions :
          HasPair(d, g, q) => SetVoting(g, q) \in Statements(d)
    <2> SUFFICES ASSUME NEW g \in Crowded(d), NEW q \in Questions, HasPair(d, g, q)
                 PROVE  SetVoting(g, q) \in Statements(d)
        OBVIOUS
    <2>1. <<g, q>> \in Votable(d) /\ <<g, q>>[1] = g /\ <<g, q>>[2] = q
        BY DEF Votable
    <2>2. \E p \in Votable(d) : SetVoting(g, q) = SetVoting(p[1], p[2])
        BY <2>1
    <2> QED
        BY <2>2 DEF Statements
<1> QED
    BY <1>1 DEF Statements

(* A worker with a request has found a game that is there, and one with       *)
(* enough players if it has begun.                                            *)
LEMMA FoundGame ==
    ASSUME IInv, NEW w, NEW kind, NEW g, NEW states, Find(w, kind, g, states)
    PROVE  /\ g \in GameIds(db)
           /\ states \subseteq {"gather_answers", "gather_votes"} => g \in Crowded(db)
           /\ UNCHANGED <<db, chat, failures>>
BY DEF Find, Running, IInv, TablesOK

LEMMA ReceiveIInv == ASSUME IInv, NEW w \in Workers, Receive(w) PROVE IInv'
<1>1. ASSUME NEW u \in Users, FindNew(w, u) PROVE IInv'
    <2>1. WorkerOK(db, [pc |-> "create", user |-> u])
        BY DEF WorkerOK, Counters
    <2> QED
        BY <1>1, <2>1, ReadIInv DEF FindNew
<1>2. ASSUME NEW u \in Users, FindJoin(w, u) PROVE IInv'
    <2>1. PICK g : /\ Find(w, "join", g, {"gather_users"})
                   /\ GoOn(w, [pc |-> "join", game |-> g, user |-> u])
        BY <1>2 DEF FindJoin
    <2>2. g \in GameIds(db) /\ UNCHANGED <<db, chat, failures>>
        BY <2>1, FoundGame
    <2>3. WorkerOK(db, [pc |-> "join", game |-> g, user |-> u])
        BY <2>2 DEF WorkerOK, Counters
    <2> QED
        BY <2>1, <2>2, <2>3, ReadIInv
<1>3. CASE FindBegin(w)
    <2>1. PICK g : /\ Find(w, "begin", g, {"gather_users"})
                   /\ GoOn(w, [pc |-> "begin", game |-> g])
        BY <1>3 DEF FindBegin
    <2>2. g \in GameIds(db) /\ UNCHANGED <<db, chat, failures>>
        BY <2>1, FoundGame
    <2>3. WorkerOK(db, [pc |-> "begin", game |-> g])
        BY <2>2 DEF WorkerOK, Counters
    <2> QED
        BY <2>1, <2>2, <2>3, ReadIInv
<1>4. ASSUME NEW t \in DOMAIN db.answer, NEW r \in Responses, FindPost(w, t, r) PROVE IInv'
    <2> DEFINE x(g) == [pc |-> "post", game |-> g, token |-> t, response |-> r]
    <2>1. PICK g : Find(w, "post", g, {"gather_answers"}) /\ GoOn(w, x(g))
        BY <1>4 DEF FindPost
    <2>2. g \in Crowded(db) /\ UNCHANGED <<db, chat, failures>>
        BY <2>1, FoundGame
    <2>3. WorkerOK(db, x(g))
        BY <2>2 DEF WorkerOK, Counters
    <2> QED
        BY <2>1, <2>2, <2>3, ReadIInv
<1>5. ASSUME NEW u \in Users, NEW t \in DOMAIN db.answer, FindVote(w, u, t) PROVE IInv'
    <2> DEFINE x(g) == [pc |-> "vote", game |-> g, user |-> u, token |-> t]
    <2>1. PICK g : Find(w, "vote", g, {"gather_votes"}) /\ GoOn(w, x(g))
        BY <1>5 DEF FindVote
    <2>2. g \in Crowded(db) /\ UNCHANGED <<db, chat, failures>>
        BY <2>1, FoundGame
    <2>3. WorkerOK(db, x(g))
        BY <2>2 DEF WorkerOK, Counters
    <2> QED
        BY <2>1, <2>2, <2>3, ReadIInv
<1>6. CASE FindEnd(w)
    <2>1. PICK g : /\ Find(w, "end", g, {"gather_users", "gather_answers", "gather_votes"})
                   /\ GoOn(w, Run(<<SetState(g, "end")>>))
        BY <1>6 DEF FindEnd
    <2>2. g \in GameIds(db) /\ UNCHANGED <<db, chat, failures>>
        BY <2>1, FoundGame
    <2>3. SetState(g, "end") \in Statements(db)
        BY <2>2, Stated
    <2> HIDE DEF SetState
    <2>4. WorkerOK(db, Run(<<SetState(g, "end")>>))
        BY <2>3, RunFewOK
    <2> QED
        BY <2>1, <2>2, <2>4, ReadIInv
<1>7. CASE FindStatus(w)
    <2>1. PICK g : /\ Find(w, "status", g, {"gather_votes"})
                   /\ GoOn(w, [pc |-> "status", game |-> g])
        BY <1>7 DEF FindStatus
    <2>2. g \in GameIds(db) /\ UNCHANGED <<db, chat, failures>>
        BY <2>1, FoundGame
    <2>3. WorkerOK(db, [pc |-> "status", game |-> g])
        BY <2>2 DEF WorkerOK, Counters
    <2> QED
        BY <2>1, <2>2, <2>3, ReadIInv
<1> QED
    BY <1>1, <1>2, <1>3, <1>4, <1>5, <1>6, <1>7 DEF Receive

(* What is left after a statement can still be executed. *)
LEMMA LeftOK ==
    ASSUME NEW d, TablesOK(d), NEW todo \in Seq(Statements(d)), todo # <<>>
    PROVE  /\ Head(todo) \in Statements(d)
           /\ Left(todo) \in Seq(Statements(d))
<1>1. Head(todo) \in Statements(d) /\ Tail(todo) \in Seq(Statements(d))
    OBVIOUS
<1> DEFINE rows == Head(todo).rows
           others == DOMAIN rows \ {Min(DOMAIN rows)}
<1>2. CASE Head(todo).op = "update_answers" /\ others # {}
    <2>1. rows \in Updates(d)
        <3> DEFINE s == Head(todo)
        <3>1. \/ \E g, u : s = InsertUser(g, u)
              \/ \E g, st : s = SetState(g, st)
              \/ \E g, q : s = SetVoting(g, q)
              \/ \E row : s = InsertAnswer(row)
              \/ \E f \in Updates(d) : s = UpdateAnswers(f)
              \/ \E v : s = InsertVote(v)
              \/ \E g, q : s = Buttons(g, q)
              \/ \E g, q, vs : s = Results(g, q, vs)
              \/ \E g, vs : s = Scores(g, vs)
            BY <1>1 DEF Statements
        <3> HIDE DEF s
        <3>2. s.op = "update_answers"
            BY <1>2 DEF s
        <3>3. \E f \in Updates(d) : s = UpdateAnswers(f)
            BY <3>1, <3>2 DEF InsertUser, SetState, SetVoting, InsertAnswer, InsertVote,
                Buttons, Results, Scores
        <3> QED
            BY <3>3 DEF UpdateAnswers, s
    <2>2. /\ DOMAIN rows \subseteq DOMAIN d.answer
          /\ \A t \in DOMAIN rows : rows[t] \in Responses \cup {NoResponse}
        BY <2>1, FirstRow
    <2> HIDE DEF rows
    <2>3. Restrict(rows, others) \in [others -> Responses \cup {NoResponse}]
        BY <2>2 DEF Restrict
    <2>4. Restrict(rows, others) \in Updates(d)
        BY <1>2, <2>2, <2>3 DEF Updates
    <2>5. UpdateAnswers(Restrict(rows, others)) \in Statements(d)
        BY <2>4, Stated
    <2>6. Left(todo) = <<UpdateAnswers(Restrict(rows, others))>> \o Tail(todo)
        BY <1>2 DEF Left, rows
    <2> HIDE DEF others
    <2> QED
        BY <1>1, <2>5, <2>6
<1>3. CASE ~(Head(todo).op = "update_answers" /\ others # {})
    BY <1>1, <1>3 DEF Left
<1> QED
    BY <1>1, <1>2, <1>3

LEMMA ExecuteIInv == ASSUME IInv, NEW w \in Workers, Execute(w) PROVE IInv'
<1> DEFINE todo == worker[w].todo
           x == IF Left(todo) = <<>> THEN Idle ELSE Run(Left(todo))
<1>1. /\ TablesOK(db) /\ todo \in Seq(Statements(db)) /\ todo # <<>>
      /\ db' = Apply(db, Head(todo)) /\ GoOn(w, x) /\ failures' = failures
    BY DEF Execute, IInv, WorkerOK
<1> HIDE DEF todo
<1>2. Head(todo) \in Statements(db) /\ Left(todo) \in Seq(Statements(db))
    BY <1>1, LeftOK
<1>3. TablesOK(db') /\ Grows(db, db')
    BY <1>1, <1>2, ApplyOK
<1>4. Left(todo) \in Seq(Statements(db'))
    <2>1. Statements(db) \subseteq Statements(db')
        BY <1>3, StatementsGrow
    <2> QED
        BY <1>2, <2>1
<1>5. WorkerOK(db', x)
    BY <1>4, IdleOK, RunOK
<1> HIDE DEF x
<1> QED
    BY <1>1, <1>3, <1>5, GoOnIInv DEF IInv

LEMMA FailIInv == ASSUME IInv, NEW w \in Workers, Fail(w) PROVE IInv'
<1>1. GoOn(w, Idle) /\ db' = db /\ failures' \in 0 .. MaxFailures
    BY BotAssumption DEF Fail, StatementFails, MessageFails, IInv
<1>2. TablesOK(db') /\ Grows(db, db')
    BY <1>1 DEF IInv, Grows
<1> QED
    BY <1>1, <1>2, IdleOK, GoOnIInv

-------------------------------------------------------------------------------
(* The handlers.                                                            *)

LEMMA CrowdedIsGame == \A d : Crowded(d) \subseteq GameIds(d)
BY DEF Crowded

LEMMA CreateGameIInv == ASSUME IInv, NEW w \in Workers, CreateGame(w) PROVE IInv'
<1> DEFINE g == Len(db.game) + 1
           s == InsertUser(g, worker[w].user)
<1>1. /\ TablesOK(db) /\ worker[w].user \in Users
      /\ db' = Apply(db, InsertGame) /\ GoOn(w, Run(<<s>>)) /\ failures' = failures
    BY DEF CreateGame, IInv, WorkerOK
<1>2. TablesOK(db') /\ Grows(db, db') /\ g \in GameIds(db')
    BY <1>1, InsertGameOK
<1>3. s \in Statements(db')
    BY <1>1, <1>2, Stated
<1> HIDE DEF s, g
<1>4. WorkerOK(db', Run(<<s>>))
    BY <1>3, RunFewOK
<1> QED
    BY <1>1, <1>2, <1>4, GoOnIInv DEF IInv

LEMMA JoinIInv == ASSUME IInv, NEW w \in Workers, Join(w) PROVE IInv'
<1> DEFINE x == worker[w]
           a == SetState(x.game, "gather_users")
           b == InsertUser(x.game, x.user)
<1>1. /\ x.game \in GameIds(db) /\ x.user \in Users
      /\ GoOn(w, Idle) \/ GoOn(w, Run(<<a, b>>))
      /\ UNCHANGED <<db, chat, failures>>
    BY DEF Join, IInv, WorkerOK
<1>2. a \in Statements(db) /\ b \in Statements(db)
    BY <1>1, Stated
<1> HIDE DEF a, b
<1>3. WorkerOK(db, Run(<<a, b>>))
    BY <1>2, RunFewOK
<1> QED
    BY <1>1, <1>3, IdleOK, ReadIInv

LEMMA BeginUsersIInv == ASSUME IInv, NEW w \in Workers, BeginUsers(w) PROVE IInv'
<1> DEFINE x == worker[w]
           players == UsersOf(db, x.game)
           y(order) == [pc |-> "draw", game |-> x.game, order |-> order]
<1>1. x.game \in GameIds(db) /\ players \in SUBSET Users /\ UNCHANGED <<db, chat, failures>>
    BY DEF BeginUsers, IInv, WorkerOK, UsersOf
<1>2. PICK order \in Bijection(1 .. Cardinality(players), players) : GoOn(w, y(order))
    BY DEF BeginUsers
<1> HIDE DEF players
<1>3. WorkerOK(db, y(order))
    BY <1>1, <1>2 DEF WorkerOK, Counters
<1> QED
    BY <1>1, <1>2, <1>3, ReadIInv

(* The INSERTs of a deal. *)
LEMMA DealRowsOK ==
    ASSUME NEW d, NEW g \in GameIds(d), NEW S \in SUBSET Users, NEW n, n = Cardinality(S), n >= 1,
           NEW order \in Bijection(1 .. n, S), NEW draw \in [1 .. n -> Questions]
    PROVE  /\ DealRows(g, order, draw) \in Seq(Statements(d))
           /\ \A k \in DOMAIN DealRows(g, order, draw) :
                 DealRows(g, order, draw)[k].op = "insert_answer"
<1> DEFINE dealt == Deal(order, draw, 0)
           row(k) == [game |-> g, user |-> dealt[k].user,
                      question |-> dealt[k].question, response |-> NoResponse]
<1>1. n \in Nat
    BY BotAssumption, FS_Subset, FS_CardinalityType
<1>2. SoundDeal(dealt, n, S, Questions, 0)
    BY <1>1, DealIsSound
<1>3. /\ DOMAIN dealt = 1 .. 2 * n
      /\ dealt \in [DOMAIN dealt -> [user : S, question : Questions, response : {NoResponse}]]
    BY <1>1, <1>2 DEF SoundDeal
<1>4. DealRows(g, order, draw) = [k \in DOMAIN dealt |-> InsertAnswer(row(k))]
    BY DEF DealRows
<1> HIDE DEF dealt
<1>5. \A k \in DOMAIN dealt : row(k) \in Row(d)
    BY <1>3 DEF Row
<1> HIDE DEF row
<1>6. \A k \in DOMAIN dealt : InsertAnswer(row(k)) \in Statements(d)
    BY <1>5, Stated
<1> DEFINE stmt(k) == InsertAnswer(row(k))
<1> HIDE DEF stmt
<1>7. DealRows(g, order, draw) = [k \in 1 .. 2 * n |-> stmt(k)]
    BY <1>3, <1>4 DEF stmt
<1>8. \A k \in 1 .. 2 * n : stmt(k) \in Statements(d)
    BY <1>3, <1>6 DEF stmt
<1>9. 2 * n \in Nat
    BY <1>1
<1>10. \A k : stmt(k).op = "insert_answer"
    BY DEF stmt, InsertAnswer
<1> QED
    BY <1>7, <1>8, <1>9, <1>10

(* How /begin ends: the deal is the change of state and then only INSERTs.   *)
LEMMA BeginDrawDeals ==
    ASSUME IInv, NEW w \in Workers, BeginDraw(w)
    PROVE  \/ GoOn(w, Idle) \/ GoOn(w, Dead)
           \/ \E rows \in Seq(Statements(db)) :
                 /\ \A k \in DOMAIN rows : rows[k].op = "insert_answer"
                 /\ SetState(worker[w].game, "gather_answers") \in Statements(db)
                 /\ GoOn(w, Run(<<SetState(worker[w].game, "gather_answers")>> \o rows))
<1> DEFINE x == worker[w]
           g == x.game
           order == x.order
           count == Cardinality(UsersOf(db, g))
<1>1. /\ g \in GameIds(db)
      /\ \E S \in SUBSET Users : order \in Bijection(1 .. Cardinality(S), S)
    BY DEF BeginDraw, IInv, WorkerOK
<1> SUFFICES ASSUME ~GoOn(w, Idle), ~GoOn(w, Dead)
             PROVE  \E rows \in Seq(Statements(db)) :
                       /\ \A k \in DOMAIN rows : rows[k].op = "insert_answer"
                       /\ SetState(g, "gather_answers") \in Statements(db)
                       /\ GoOn(w, Run(<<SetState(g, "gather_answers")>> \o rows))
    OBVIOUS
<1>2. PICK draw \in [1 .. count -> Questions] :
          /\ Len(order) >= MinPlayers /\ Len(order) = count
          /\ GoOn(w, Run(<<SetState(g, "gather_answers")>> \o DealRows(g, order, draw)))
    BY DEF BeginDraw, Draws
<1>3. PICK S \in SUBSET Users : order \in Bijection(1 .. Cardinality(S), S)
    BY <1>1
<1>4. Cardinality(S) \in Nat
    BY BotAssumption, FS_Subset, FS_CardinalityType
<1>5. Len(order) = Cardinality(S)
    <2>1. order \in [1 .. Cardinality(S) -> S]
        BY <1>3 DEF Bijection, Injection
    <2> QED
        BY <1>4, <2>1
<1>6. count = Cardinality(S) /\ Cardinality(S) >= 1 /\ count >= MinPlayers
    BY <1>2, <1>4, <1>5 DEF MinPlayers
<1>7. g \in Crowded(db)
    BY <1>1, <1>6 DEF Crowded
<1>8. SetState(g, "gather_answers") \in Statements(db)
    BY <1>7, Stated
<1>9. /\ DealRows(g, order, draw) \in Seq(Statements(db))
      /\ \A k \in DOMAIN DealRows(g, order, draw) :
            DealRows(g, order, draw)[k].op = "insert_answer"
    BY <1>1, <1>2, <1>3, <1>6, DealRowsOK
<1> QED
    BY <1>2, <1>8, <1>9

LEMMA BeginDrawIInv == ASSUME IInv, NEW w \in Workers, BeginDraw(w) PROVE IInv'
<1> DEFINE s == SetState(worker[w].game, "gather_answers")
           T == Statements(db)
<1>1. UNCHANGED <<db, chat, failures>>
    BY DEF BeginDraw
<1>2. CASE GoOn(w, Idle) \/ GoOn(w, Dead)
    BY <1>1, <1>2, IdleOK, ReadIInv
<1>3. ASSUME NEW rows \in Seq(T), s \in T, GoOn(w, Run(<<s>> \o rows)) PROVE IInv'
    <2> HIDE DEF s, T
    <2>1. <<s>> \o rows \in Seq(T) /\ <<s>> \o rows # <<>>
        BY <1>3
    <2>2. WorkerOK(db, Run(<<s>> \o rows))
        BY <2>1, RunOK DEF T
    <2> QED
        BY <1>1, <1>3, <2>2, ReadIInv
<1> QED
    BY <1>2, <1>3, BeginDrawDeals

-------------------------------------------------------------------------------
(* What a handler has read.                                                 *)

LEMMA CopiesOK ==
    ASSUME NEW d, TablesOK(d), NEW g
    PROVE  CopyOK(d, g, AnswersOf(d, g)) /\ VotesOf(d, g) \subseteq Ballot(d)
<1>1. \A t \in DOMAIN d.answer : d.answer[t] \in Row(d)
    BY DEF TablesOK
<1>2. TokensOf(d, g) \subseteq DOMAIN d.answer
    BY DEF TokensOf
<1>3. \A t \in TokensOf(d, g) :
          [user |-> d.answer[t].user, question |-> d.answer[t].question,
           response |-> d.answer[t].response] \in Prompt
    BY <1>1, <1>2 DEF Row, Prompt
<1>4. DOMAIN AnswersOf(d, g) = TokensOf(d, g) /\ AnswersOf(d, g) \in [TokensOf(d, g) -> Prompt]
    BY <1>3 DEF AnswersOf
<1>5. \A t \in TokensOf(d, g) : /\ d.answer[t].game = g
                                /\ d.answer[t].user = AnswersOf(d, g)[t].user
                                /\ d.answer[t].question = AnswersOf(d, g)[t].question
    BY DEF AnswersOf, TokensOf
<1>6. CopyOK(d, g, AnswersOf(d, g))
    BY <1>2, <1>4, <1>5 DEF CopyOK
<1> QED
    BY <1>2, <1>6 DEF VotesOf, TablesOK

LEMMA SaveAllOK ==
    ASSUME NEW d, NEW g, NEW f, CopyOK(d, g, f), DOMAIN f # {}
    PROVE  SaveAll(f) \in Statements(d)
<1> DEFINE rows == [t \in DOMAIN f |-> f[t].response]
<1>1. rows \in [DOMAIN f -> Responses \cup {NoResponse}]
    BY DEF CopyOK, Prompt
<1>2. rows \in Updates(d)
    BY <1>1 DEF Updates, CopyOK
<1> QED
    BY <1>2, Stated DEF SaveAll

LEMMA SameQuestion ==
    ASSUME NEW d, NEW g, NEW f, CopyOK(d, g, f), NEW a \in DOMAIN f, NEW b \in DOMAIN f,
           a # b, f[a].question = f[b].question
    PROVE  f[a].question \in Questions /\ HasPair(d, g, f[a].question)
BY DEF CopyOK, Prompt, HasPair

LEMMA NextAnswerIsRead ==
    ASSUME NEW d, TablesOK(d), NEW g, NEW f, CopyOK(d, g, f), NEW vs, ~NextPanics(f, vs)
    PROVE  LET q == f[NextAnswer(f, vs)].question
           IN  /\ q \in Questions /\ HasPair(d, g, q)
               /\ q = d.answer[NextAnswer(f, vs)].question
<1> DEFINE a == NextAnswer(f, vs)
<1>1. Unvoted(f, vs) # {} /\ Unvoted(f, vs) \subseteq DOMAIN f
    BY DEF NextPanics, Unvoted
<1>2. DOMAIN f \subseteq Nat
    BY DEF CopyOK, TablesOK
<1>3. a \in DOMAIN f
    BY <1>1, <1>2, MinOfNaturals DEF NextAnswer
<1>4. PICK b \in Others(a, f) : TRUE
    BY DEF NextPanics
<1> HIDE DEF a
<1>5. b \in DOMAIN f /\ a # b /\ f[b].question = f[a].question
    BY <1>4 DEF Others
<1>6. /\ f[a].question \in Questions /\ HasPair(d, g, f[a].question)
      /\ f[a].question = d.answer[a].question
    BY <1>3, <1>5, SameQuestion DEF CopyOK
<1> QED
    BY <1>6 DEF a

LEMMA PairOfCurrent ==
    ASSUME NEW d, TablesOK(d), NEW g, NEW pair \in PairsOf(d, g)
    PROVE  LET q == d.game[g].question
           IN  /\ q \in Questions /\ HasPair(d, g, q)
               /\ pair[1].question = q /\ d.answer[pair[1].token].question = q
<1> DEFINE read == AnswersOf(d, g)
           q == d.game[g].question
<1>1. CopyOK(d, g, read)
    BY CopiesOK
<1>2. PICK p \in (DOMAIN read) \X (DOMAIN read) :
          /\ p[1] # p[2] /\ read[p[1]].question = q /\ read[p[2]].question = q
          /\ pair = <<Option(p[1], read), Option(p[2], read)>>
    BY DEF PairsOf, Pairs
<1> HIDE DEF read
<1>3. pair[1] = Option(p[1], read) /\ p[1] \in DOMAIN read /\ p[2] \in DOMAIN read
    BY <1>2
<1>4. pair[1].question = q /\ d.answer[pair[1].token].question = q
    BY <1>1, <1>2, <1>3 DEF Option, CopyOK
<1>5. q \in Questions /\ HasPair(d, g, q)
    BY <1>1, <1>2, <1>3, SameQuestion
<1> QED
    BY <1>4, <1>5

LEMMA RoundResultsOK ==
    ASSUME NEW d, NEW g \in GameIds(d), NEW f, CopyOK(d, g, f), NEW t,
           NEW vs \in SUBSET Ballot(d)
    PROVE  /\ RoundResults(g, t, f, vs) \in Seq(Statements(d))
           /\ \A i \in DOMAIN RoundResults(g, t, f, vs) : IsMessage(RoundResults(g, t, f, vs)[i])
<1>1. CASE Others(t, f) = {}
    BY <1>1 DEF RoundResults
<1>2. CASE Others(t, f) # {}
    <2> DEFINE shown == {t, Min(Others(t, f))}
               s == Results(g, f[t].question, {v \in vs : v.token \in shown})
    <2>1. f[t].question \in Questions
        BY <1>2 DEF Others, CopyOK, Prompt
    <2>2. {v \in vs : v.token \in shown} \in SUBSET Ballot(d)
        OBVIOUS
    <2> HIDE DEF shown
    <2>3. s \in Statements(d)
        BY <2>1, <2>2, Stated
    <2>4. RoundResults(g, t, f, vs) = <<s>>
        BY <1>2 DEF RoundResults, shown
    <2>5. IsMessage(s)
        BY DEF IsMessage, Results
    <2> HIDE DEF s
    <2> QED
        BY <2>3, <2>4, <2>5
<1> QED
    BY <1>1, <1>2

LEMMA PostIInv == ASSUME IInv, NEW w \in Workers, Post(w) PROVE IInv'
<1> DEFINE x == worker[w]
           g == x.game
           read == AnswersOf(db, g)
           target == AnswerTarget(x.token, read)
           filled == [read EXCEPT ![target].response = x.response]
           q == filled[NextAnswer(filled, {})].question
<1>1. /\ TablesOK(db) /\ g \in Crowded(db) /\ x.response \in Responses
      /\ UNCHANGED <<db, chat, failures>>
    BY DEF Post, IInv, WorkerOK
<1>2. CASE GoOn(w, Idle) \/ GoOn(w, Dead)
    BY <1>1, <1>2, IdleOK, ReadIInv
<1>3. CASE /\ CanAnswer(x.token, read)
           /\ \/ GoOn(w, Run(<<SetState(g, "gather_answers"), SaveAll(filled)>>))
              \/ /\ ~NextPanics(filled, {})
                 /\ GoOn(w, Run(<<SetVoting(g, q), SaveAll(filled), Buttons(g, q)>>))
    <2>1. CopyOK(db, g, read)
        BY <1>1, CopiesOK
    <2>2. target \in DOMAIN read
        <3>1. DOMAIN read \subseteq Nat
            BY <1>1, <2>1 DEF CopyOK, TablesOK
        <3>2. target \in Unanswered(read[x.token].user, read)
            BY <1>3, <3>1, AnswerTargetIsUnanswered
        <3> QED
            BY <3>2 DEF Unanswered
    <2> HIDE DEF read, target
    <2>3. CopyOK(db, g, filled) /\ DOMAIN filled # {}
        <3>1. read[target] \in Prompt
            BY <2>1, <2>2 DEF CopyOK
        <3>2. [read[target] EXCEPT !.response = x.response] \in Prompt
            BY <1>1, <3>1 DEF Prompt
        <3> QED
            BY <2>1, <2>2, <3>2 DEF CopyOK
    <2> HIDE DEF filled
    <2>4. SaveAll(filled) \in Statements(db) /\ SetState(g, "gather_answers") \in Statements(db)
        BY <1>1, <2>3, SaveAllOK, Stated
    <2>5. CASE GoOn(w, Run(<<SetState(g, "gather_answers"), SaveAll(filled)>>))
        <3>1. WorkerOK(db, Run(<<SetState(g, "gather_answers"), SaveAll(filled)>>))
            BY <2>4, RunFewOK
        <3> QED
            BY <1>1, <2>5, <3>1, ReadIInv
    <2>6. CASE /\ ~NextPanics(filled, {})
               /\ GoOn(w, Run(<<SetVoting(g, q), SaveAll(filled), Buttons(g, q)>>))
        <3>1. q \in Questions /\ HasPair(db, g, q)
            BY <1>1, <2>3, <2>6, NextAnswerIsRead
        <3> HIDE DEF q
        <3>2. SetVoting(g, q) \in Statements(db) /\ Buttons(g, q) \in Statements(db)
            BY <1>1, <3>1, CrowdedIsGame, Stated
        <3>3. WorkerOK(db, Run(<<SetVoting(g, q), SaveAll(filled), Buttons(g, q)>>))
            BY <2>4, <3>2, RunFewOK
        <3> QED
            BY <1>1, <2>6, <3>3, ReadIInv
    <2> QED
        BY <1>3, <2>5, <2>6 DEF read, target, filled
<1> QED
    BY <1>2, <1>3 DEF Post

LEMMA VoteReadsIInv ==
    ASSUME IInv, NEW w \in Workers, VoteAnswers(w) \/ VoteVotes(w)
    PROVE  IInv'
<1> DEFINE x == worker[w]
           y == [pc |-> "votes", game |-> x.game, user |-> x.user, token |-> x.token,
                 answers |-> AnswersOf(db, x.game)]
           z == [pc |-> "pair", game |-> x.game, user |-> x.user, token |-> x.token,
                 answers |-> x.answers, votes |-> VotesOf(db, x.game)]
<1>1. /\ x.user \in Users /\ x.game \in Crowded(db) /\ x.token \in DOMAIN db.answer
      /\ UNCHANGED <<db, chat, failures>>
    BY DEF VoteAnswers, VoteVotes, IInv, WorkerOK
<1>2. CopyOK(db, x.game, AnswersOf(db, x.game)) /\ VotesOf(db, x.game) \subseteq Ballot(db)
    BY CopiesOK DEF IInv
<1>3. CASE VoteAnswers(w)
    <2>1. WorkerOK(db, y)
        BY <1>1, <1>2 DEF WorkerOK, Counters
    <2>2. GoOn(w, y)
        BY <1>3 DEF VoteAnswers
    <2> HIDE DEF y
    <2> QED
        BY <1>1, <2>1, <2>2, ReadIInv
<1>4. CASE VoteVotes(w)
    <2>1. CopyOK(db, x.game, x.answers)
        BY <1>4 DEF VoteVotes, IInv, WorkerOK
    <2>2. WorkerOK(db, z)
        BY <1>1, <1>2, <2>1 DEF WorkerOK, Counters
    <2>3. GoOn(w, z)
        BY <1>4 DEF VoteVotes
    <2> HIDE DEF z
    <2> QED
        BY <1>1, <2>2, <2>3, ReadIInv
<1> QED
    BY <1>3, <1>4

(* How a vote ends: it is refused, somebody panics, the game is over, or      *)
(* messages are sent and the question and the vote are saved.                 *)
LEMMA VoteOutcome ==
    ASSUME IInv, NEW w \in Workers, VotePair(w)
    PROVE  LET x == worker[w]
               b == [user |-> x.user, token |-> x.token]
               vs == x.votes \cup {b}
           IN  \/ GoOn(w, Idle) \/ GoOn(w, Dead)
               \/ GoOn(w, [pc |-> "over", game |-> x.game, token |-> x.token, votes |-> vs])
               \/ \E q \in Questions, news \in Seq(Statements(db)) :
                     /\ HasPair(db, x.game, q)
                     /\ \A i \in DOMAIN news : IsMessage(news[i])
                     /\ \/ \E i \in DOMAIN news : news[i] = Buttons(x.game, q)
                        \/ q = db.answer[x.token].question
                     /\ GoOn(w, Run(news \o <<SetVoting(x.game, q), InsertVote(b)>>))
<1> DEFINE x == worker[w]
           g == x.game
           ballot == [user |-> x.user, token |-> x.token]
           votes == x.votes \cup {ballot}
<1>1. /\ TablesOK(db) /\ g \in Crowded(db) /\ x.user \in Users /\ x.token \in DOMAIN db.answer
      /\ CopyOK(db, x.game, x.answers) /\ x.votes \subseteq Ballot(db)
    BY DEF VotePair, IInv, WorkerOK
<1>2. PICK pair \in PairsOf(db, g) :
          VoteCounted(w, x, pair, votes) \/ GoOn(w, Idle)
    BY DEF VotePair
<1>3. votes \in SUBSET Ballot(db)
    BY <1>1 DEF Ballot
<1>4. /\ pair[1].question \in Questions /\ HasPair(db, g, pair[1].question)
      /\ pair[1].question = db.answer[pair[1].token].question
    BY <1>1, <1>2, PairOfCurrent
<1> SUFFICES ASSUME VoteCounted(w, x, pair, votes)
             PROVE  \/ GoOn(w, Dead)
                    \/ GoOn(w, [pc |-> "over", game |-> g, token |-> x.token, votes |-> votes])
                    \/ \E q \in Questions, news \in Seq(Statements(db)) :
                          /\ HasPair(db, g, q)
                          /\ \A i \in DOMAIN news : IsMessage(news[i])
                          /\ \/ \E i \in DOMAIN news : news[i] = Buttons(g, q)
                             \/ q = db.answer[x.token].question
                          /\ GoOn(w, Run(news \o <<SetVoting(g, q), InsertVote(ballot)>>))
    BY <1>2
<1> DEFINE over == AllVotesAreIn(x.answers, votes)
           closed == CurrentVotesAreIn(pair, x.answers, votes)
           first == IF closed THEN NextAnswer(x.answers, votes) ELSE pair[1].token
           question == IF closed THEN x.answers[first].question ELSE pair[1].question
           panics == \/ \E v \in votes : v.token \notin DOMAIN x.answers
                     \/ ~over /\ closed /\ NextPanics(x.answers, votes)
                     \/ ~over /\ first # x.token /\ ResultsPanic(x.token, x.answers)
           results == RoundResults(g, x.token, x.answers, votes)
           news == IF first = x.token THEN <<>> ELSE results \o <<Buttons(g, question)>>
           end == [pc |-> "over", game |-> g, token |-> x.token, votes |-> votes]
<1>5. GoOn(w, IF panics THEN Dead ELSE IF over THEN end
              ELSE Run(news \o <<SetVoting(g, question), InsertVote(ballot)>>))
    BY DEF VoteCounted, AnnounceThenSave, SaveVote
<1>6. ~panics /\ ~over => /\ question \in Questions /\ HasPair(db, g, question)
                          /\ first = x.token => question = db.answer[x.token].question
    <2> SUFFICES ASSUME ~panics, ~over
                 PROVE  /\ question \in Questions /\ HasPair(db, g, question)
                        /\ first = x.token => question = db.answer[x.token].question
        OBVIOUS
    <2>1. CASE closed
        <3>1. /\ first = NextAnswer(x.answers, votes) /\ question = x.answers[first].question
              /\ ~NextPanics(x.answers, votes)
            BY <2>1
        <3> HIDE DEF first, question, votes
        <3> QED
            BY <1>1, <3>1, NextAnswerIsRead
    <2>2. CASE ~closed
        <3>1. first = pair[1].token /\ question = pair[1].question
            BY <2>2
        <3> HIDE DEF first, question
        <3> QED
            BY <1>4, <3>1
    <2> QED
        BY <2>1, <2>2
<1>7. results \in Seq(Statements(db)) /\ \A i \in DOMAIN results : IsMessage(results[i])
    BY <1>1, <1>3, RoundResultsOK, CrowdedIsGame
<1> HIDE DEF results, question, first, closed, ballot, votes
<1>8. ASSUME ~panics, ~over
      PROVE  /\ news \in Seq(Statements(db)) /\ \A i \in DOMAIN news : IsMessage(news[i])
             /\ \/ \E i \in DOMAIN news : news[i] = Buttons(g, question)
                \/ question = db.answer[x.token].question
    <2> DEFINE S == Statements(db)
               m == Buttons(g, question)
    <2>1. m \in S /\ IsMessage(m)
        BY <1>1, <1>6, <1>8, CrowdedIsGame, Stated DEF IsMessage, Buttons
    <2>2. results \in Seq(S) /\ news = IF first = x.token THEN <<>> ELSE results \o <<m>>
        BY <1>7
    <2> HIDE DEF m, S, news
    <2>3. CASE first = x.token
        BY <1>6, <1>8, <2>2, <2>3 DEF S
    <2>4. CASE first # x.token
        <3>1. news = results \o <<m>>
            BY <2>2, <2>4
        <3>2. news \in Seq(S)
            BY <2>1, <2>2, <3>1
        <3>3. ASSUME NEW i \in DOMAIN news
              PROVE  news[i] = m \/ (i \in DOMAIN results /\ news[i] = results[i])
            <4>1. Len(<<m>>) = 1 /\ <<m>> \in Seq(S) /\ <<m>>[1] = m
                BY <2>1
            <4>2. i \in 1 .. Len(results) + 1
                BY <2>2, <3>1, <3>3, <4>1
            <4>3. CASE i \in 1 .. Len(results)
                BY <2>2, <3>1, <4>1, <4>3
            <4>4. CASE i = Len(results) + 1
                BY <2>2, <3>1, <4>1, <4>4
            <4> QED
                BY <2>2, <4>2, <4>3, <4>4
        <3>4. Len(results) + 1 \in DOMAIN news /\ news[Len(results) + 1] = m
            <4>1. Len(<<m>>) = 1 /\ <<m>> \in Seq(S) /\ <<m>>[1] = m
                BY <2>1
            <4> QED
                BY <2>2, <3>1, <4>1
        <3> QED
            BY <1>7, <2>1, <3>2, <3>3, <3>4 DEF S, m
    <2> QED
        BY <2>3, <2>4 DEF S
<1> HIDE DEF panics, over, news, end
<1> QED
    BY <1>5, <1>6, <1>8 DEF end

LEMMA VotePairIInv == ASSUME IInv, NEW w \in Workers, VotePair(w) PROVE IInv'
<1> DEFINE x == worker[w]
           g == x.game
           ballot == [user |-> x.user, token |-> x.token]
           votes == x.votes \cup {ballot}
           end == [pc |-> "over", game |-> g, token |-> x.token, votes |-> votes]
<1>1. /\ g \in Crowded(db) /\ x.user \in Users /\ x.token \in DOMAIN db.answer
      /\ x.votes \subseteq Ballot(db) /\ UNCHANGED <<db, chat, failures>>
    BY DEF VotePair, IInv, WorkerOK
<1>2. ballot \in Ballot(db) /\ votes \in SUBSET Ballot(db)
    BY <1>1 DEF Ballot
<1>3. WorkerOK(db, end)
    BY <1>1, <1>2 DEF WorkerOK, Counters
<1>4. ASSUME NEW q \in Questions, NEW news \in Seq(Statements(db)), HasPair(db, g, q),
             GoOn(w, Run(news \o <<SetVoting(g, q), InsertVote(ballot)>>))
      PROVE  IInv'
    <2> DEFINE S == Statements(db)
               s == SetVoting(g, q)
               v == InsertVote(ballot)
    <2>1. s \in S /\ v \in S /\ news \in Seq(S)
        BY <1>1, <1>2, <1>4, Stated
    <2> HIDE DEF S, s, v
    <2>2. news \o <<s, v>> \in Seq(S) /\ news \o <<s, v>> # <<>>
        BY <2>1
    <2>3. WorkerOK(db, Run(news \o <<s, v>>))
        BY <2>2, RunOK DEF S
    <2> QED
        BY <1>1, <1>4, <2>3, ReadIInv DEF s, v
<1> HIDE DEF end
<1>5. CASE GoOn(w, Idle) \/ GoOn(w, Dead) \/ GoOn(w, end)
    BY <1>1, <1>3, <1>5, IdleOK, ReadIInv
<1> QED
    BY <1>4, <1>5, VoteOutcome DEF end

LEMMA GameOverIInv == ASSUME IInv, NEW w \in Workers, GameOver(w) PROVE IInv'
<1> DEFINE x == worker[w]
           g == x.game
           results == RoundResults(g, x.token, AnswersOf(db, g), x.votes)
           a == Scores(g, x.votes)
           b == SetState(g, "end")
           S == Statements(db)
<1>1. /\ TablesOK(db) /\ g \in GameIds(db) /\ x.votes \in SUBSET Ballot(db)
      /\ UNCHANGED <<db, chat, failures>>
      /\ GoOn(w, Dead) \/ GoOn(w, Run(results \o <<a, b>>))
    BY CrowdedIsGame DEF GameOver, IInv, WorkerOK
<1>2. results \in Seq(S) /\ a \in S /\ b \in S
    BY <1>1, CopiesOK, RoundResultsOK, Stated
<1> HIDE DEF results, a, b, S
<1>3. results \o <<a, b>> \in Seq(S) /\ results \o <<a, b>> # <<>>
    BY <1>2
<1>4. WorkerOK(db, Run(results \o <<a, b>>))
    BY <1>3, RunOK DEF S
<1> QED
    BY <1>1, <1>4, IdleOK, ReadIInv

LEMMA StatusIInv == ASSUME IInv, NEW w \in Workers, Status(w) PROVE IInv'
<1> DEFINE g == worker[w].game
           q == db.game[g].question
<1>1. /\ TablesOK(db) /\ g \in GameIds(db) /\ UNCHANGED <<db, chat, failures>>
      /\ GoOn(w, Idle) \/ (PairsOf(db, g) # {} /\ GoOn(w, Run(<<Buttons(g, q)>>)))
    BY DEF Status, IInv, WorkerOK
<1>2. CASE GoOn(w, Idle)
    BY <1>1, <1>2, IdleOK, ReadIInv
<1>3. CASE PairsOf(db, g) # {} /\ GoOn(w, Run(<<Buttons(g, q)>>))
    <2>1. q \in Questions
        BY <1>1, <1>3, PairOfCurrent
    <2> HIDE DEF q
    <2>2. Buttons(g, q) \in Statements(db)
        BY <1>1, <2>1, Stated
    <2>3. WorkerOK(db, Run(<<Buttons(g, q)>>))
        BY <2>2, RunFewOK
    <2> QED
        BY <1>1, <1>3, <2>3, ReadIInv
<1> QED
    BY <1>1, <1>2, <1>3

-------------------------------------------------------------------------------
(* Every step keeps the invariant.                                          *)

LEMMA InitIInv == Init => IInv
<1> SUFFICES ASSUME Init PROVE IInv
    OBVIOUS
<1>1. /\ db = [game |-> <<>>, game_user |-> {}, answer |-> <<>>, vote |-> {}]
      /\ worker = [w \in Workers |-> Idle] /\ failures = 0
    BY DEF Init, EmptyDb
<1>2. /\ db.game = <<>> /\ db.game_user = {} /\ db.answer = <<>> /\ db.vote = {}
      /\ GameIds(db) = {}
    BY <1>1 DEF GameIds
<1>3. TablesOK(db)
    BY <1>1, <1>2 DEF TablesOK
<1>4. worker = [w \in Workers |-> worker[w]] /\ \A w \in Workers : worker[w] = Idle
    BY <1>1
<1> QED
    BY <1>1, <1>3, <1>4, IdleOK, BotAssumption DEF IInv

LEMMA NextIInv == IInv /\ [Next]_vars => IInv'
<1> SUFFICES ASSUME IInv, [Next]_vars PROVE IInv'
    OBVIOUS
<1>1. CASE UNCHANGED vars
    BY <1>1 DEF vars, IInv
<1>2. ASSUME NEW w \in Workers, Step(w) PROVE IInv'
    BY <1>2, CreateGameIInv, JoinIInv, BeginUsersIInv, BeginDrawIInv, PostIInv, VoteReadsIInv,
        VotePairIInv, GameOverIInv, StatusIInv, ExecuteIInv DEF Step
<1>3. ASSUME NEW w \in Workers, Receive(w) \/ Fail(w) PROVE IInv'
    BY <1>3, ReceiveIInv, FailIInv
<1> QED
    BY <1>1, <1>2, <1>3 DEF Next, Wait

LEMMA SpecIInv == Spec => []IInv
BY InitIInv, NextIInv, PTL DEF Spec

-------------------------------------------------------------------------------
(* What holds of every number of workers and failures.                      *)

(* Whatever requests overlap, and whichever statements fail, the rows have    *)
(* the types of ddl.sql and refer to rows that are there.                     *)
THEOREM TypeCorrect == Spec => []TypeOK
<1>1. IInv => TypeOK
    BY DEF IInv, TablesOK, WorkerOK, TypeOK, AnswerRow, Row, GameRow, Ballot, Counters
<1> QED
    BY <1>1, SpecIInv, PTL

(* However joins, begins and ends overlap, no game is under way with fewer    *)
(* than three players.                                                        *)
THEOREM NoGameTooSmall == Spec => []EnoughPlayers
<1>1. IInv => EnoughPlayers
    BY DEF IInv, TablesOK, EnoughPlayers, Playing, Crowded, MinPlayers
<1> QED
    BY <1>1, SpecIInv, PTL

(* The pair of the question put to the vote can always be read: find_running  *)
(* never fails for want of two answers, so that /end works.                   *)
THEOREM ThereIsAPair == Spec => []PairIsThere
<1>1. IInv => PairIsThere
    <2> SUFFICES ASSUME IInv, NEW g \in Voting PROVE PairsOf(db, g) # {}
        BY DEF PairIsThere
    <2> DEFINE read == AnswersOf(db, g)
               q == db.game[g].question
    <2>1. HasPair(db, g, q)
        BY DEF IInv, TablesOK, Voting
    <2>2. PICK a, b \in DOMAIN db.answer :
              /\ a # b
              /\ db.answer[a].game = g /\ db.answer[a].question = q
              /\ db.answer[b].game = g /\ db.answer[b].question = q
        BY <2>1 DEF HasPair
    <2>3. DOMAIN read = TokensOf(db, g) /\ \A t \in DOMAIN read : read[t].question = db.answer[t].question
        BY DEF AnswersOf
    <2>4. a \in DOMAIN read /\ b \in DOMAIN read /\ read[a].question = q /\ read[b].question = q
        BY <2>2, <2>3 DEF TokensOf
    <2> HIDE DEF read, q
    <2>5. Pairs(q, read) # {}
        BY <2>2, <2>4, TwoMakeAPair
    <2> QED
        BY <2>5 DEF PairsOf, read, q
<1> QED
    BY <1>1, SpecIInv, PTL

-------------------------------------------------------------------------------
(* The deals, when nothing fails.  Every prompt of a deal is either a row of *)
(* answer already, or one of the INSERTs some worker is still to execute, and *)
(* to begin a game adds two of them per player at once, whoever else deals to *)
(* it.                                                                        *)

NoFailures == MaxFailures = 0

(* The statement of x with k others after it is an INSERT of a prompt; what a *)
(* worker executes leaves those of the others where they are.                 *)
Inserts(x, k) ==
    /\ x.pc = "run" /\ k \in Nat /\ k < Len(x.todo)
    /\ x.todo[Len(x.todo) - k].op = "insert_answer"

RowOf(x, k) == x.todo[Len(x.todo) - k].row

Stored(d, g, u) == {t \in DOMAIN d.answer : d.answer[t].game = g /\ d.answer[t].user = u}

Pending(wk, g, u) ==
    {p \in Workers \X Nat : /\ Inserts(wk[p[1]], p[2])
                            /\ RowOf(wk[p[1]], p[2]).game = g
                            /\ RowOf(wk[p[1]], p[2]).user = u}

(* Two prompts a deal. *)
EvenPrompts(d, wk, g, u) ==
    /\ IsFiniteSet(Stored(d, g, u)) /\ IsFiniteSet(Pending(wk, g, u))
    /\ \E n \in Nat : Cardinality(Stored(d, g, u)) + Cardinality(Pending(wk, g, u)) = 2 * n

Prompted(d, wk, g, q, u) ==
    \/ \E t \in DOMAIN d.answer :
          d.answer[t].game = g /\ d.answer[t].question = q /\ d.answer[t].user = u
    \/ \E v \in Workers, k \in Nat :
          /\ Inserts(wk[v], k)
          /\ RowOf(wk[v], k).game = g /\ RowOf(wk[v], k).question = q /\ RowOf(wk[v], k).user = u

DealsOK(d, wk) ==
    /\ \A g, u : EvenPrompts(d, wk, g, u)
    /\ \A g, q, u : Prompted(d, wk, g, q, u) => \E o : o # u /\ Prompted(d, wk, g, q, o)

EInv == IInv /\ DealsOK(db, worker)

SamePrompts(d, e) ==
    /\ DOMAIN e.answer = DOMAIN d.answer
    /\ \A t \in DOMAIN d.answer :
          /\ e.answer[t].game = d.answer[t].game
          /\ e.answer[t].user = d.answer[t].user
          /\ e.answer[t].question = d.answer[t].question

(* A step that neither stores nor plans a prompt. *)
LEMMA SameDeals ==
    ASSUME NEW d, NEW e, NEW wk, NEW wl, DealsOK(d, wk), SamePrompts(d, e),
           \A v \in Workers, k \in Nat :
               /\ Inserts(wl[v], k) <=> Inserts(wk[v], k)
               /\ Inserts(wk[v], k) => RowOf(wl[v], k) = RowOf(wk[v], k)
    PROVE  DealsOK(e, wl)
<1>1. \A g, u : Stored(e, g, u) = Stored(d, g, u)
    BY DEF Stored, SamePrompts
<1>2. \A g, u : Pending(wl, g, u) = Pending(wk, g, u)
    <2> SUFFICES ASSUME NEW g, NEW u, NEW p \in Workers \X Nat
                 PROVE  p \in Pending(wl, g, u) <=> p \in Pending(wk, g, u)
        BY DEF Pending
    <2>1. p[1] \in Workers /\ p[2] \in Nat
        OBVIOUS
    <2> QED
        BY <2>1 DEF Pending
<1>3. \A g, q, u : Prompted(e, wl, g, q, u) <=> Prompted(d, wk, g, q, u)
    BY DEF Prompted, SamePrompts
<1> QED
    BY <1>1, <1>2, <1>3 DEF DealsOK, EvenPrompts

(* Most handlers have none before or after a step. *)
LEMMA NoInserts ==
    ASSUME NEW x, x.pc = "run" => \A i \in DOMAIN x.todo : x.todo[i].op # "insert_answer",
           x.pc = "run" => \E S : x.todo \in Seq(S)
    PROVE  \A k \in Nat : ~Inserts(x, k)
<1> SUFFICES ASSUME NEW k \in Nat, Inserts(x, k) PROVE FALSE
    OBVIOUS
<1>1. x.pc = "run" /\ k < Len(x.todo) /\ x.todo[Len(x.todo) - k].op = "insert_answer"
    BY DEF Inserts
<1>2. Len(x.todo) - k \in DOMAIN x.todo
    BY <1>1
<1> QED
    BY <1>1, <1>2

LEMMA QuietDeals ==
    ASSUME EInv, NEW w \in Workers, NEW y, GoOn(w, y), SamePrompts(db, db'),
           worker[w].pc # "run", \A k \in Nat : ~Inserts(y, k)
    PROVE  DealsOK(db', worker')
<1>1. worker'[w] = y /\ \A v \in Workers \ {w} : worker'[v] = worker[v]
    BY DEF GoOn, EInv, IInv
<1>2. \A k \in Nat : ~Inserts(worker[w], k)
    BY DEF Inserts
<1>3. \A v \in Workers, k \in Nat :
          /\ Inserts(worker'[v], k) <=> Inserts(worker[v], k)
          /\ Inserts(worker[v], k) => RowOf(worker'[v], k) = RowOf(worker[v], k)
    BY <1>1, <1>2
<1> QED
    BY <1>3, SameDeals DEF EInv

(* What is left of a list has the INSERTs of the list but for its head.       *)
LEMMA LeftInserts ==
    ASSUME NEW T, NEW todo \in Seq(T), todo # <<>>, NEW x, x.pc = "run", x.todo = todo,
           NEW y, y = IF Left(todo) = <<>> THEN Idle ELSE Run(Left(todo))
    PROVE  \A k \in Nat :
              /\ Inserts(y, k) <=> Inserts(x, k) /\ k # Len(todo) - 1
              /\ Inserts(y, k) => RowOf(y, k) = RowOf(x, k)
<1> DEFINE rows == Head(todo).rows
           others == DOMAIN rows \ {Min(DOMAIN rows)}
           s == UpdateAnswers(Restrict(rows, others))
           left == Left(todo)
<1>1. x.pc = "run" /\ x.todo = todo
    BY DEF Run
<1>2. \A k \in Nat : /\ Inserts(y, k) <=> k < Len(left) /\ left[Len(left) - k].op = "insert_answer"
                     /\ Inserts(y, k) => RowOf(y, k) = left[Len(left) - k].row
    <2>1. CASE left = <<>>
        <3>1. Len(left) = 0 /\ y.pc = "idle"
            BY <2>1 DEF Idle
        <3> HIDE DEF left
        <3> QED
            BY <3>1 DEF Inserts
    <2>2. CASE left # <<>>
        <3>1. y.pc = "run" /\ y.todo = left
            BY <2>2 DEF Run
        <3> HIDE DEF left
        <3> QED
            BY <3>1 DEF Inserts, RowOf
    <2> QED
        BY <2>1, <2>2
<1>3. \A k \in Nat : /\ Inserts(x, k) <=> k < Len(todo) /\ todo[Len(todo) - k].op = "insert_answer"
                     /\ Inserts(x, k) => RowOf(x, k) = todo[Len(todo) - k].row
    BY <1>1 DEF Inserts, RowOf
<1>4. CASE Head(todo).op = "update_answers" /\ others # {}
    <2>1. left = <<s>> \o Tail(todo) /\ s.op = "update_answers"
        BY <1>4 DEF Left, UpdateAnswers
    <2> HIDE DEF s, left
    <2>2. Len(left) = Len(todo) /\ left[1] = s /\ \A i \in 2 .. Len(todo) : left[i] = todo[i]
        BY <2>1
    <2>3. todo[1].op = "update_answers"
        BY <1>4
    <2>4. \A k \in Nat : k < Len(todo) /\ k # Len(todo) - 1 => Len(todo) - k \in 2 .. Len(todo)
        OBVIOUS
    <2>5. \A k \in Nat : k = Len(todo) - 1 => Len(todo) - k = 1
        OBVIOUS
    <2> HIDE DEF rows, others
    <2>6. s.op # "insert_answer" /\ todo[1].op # "insert_answer"
        BY <2>1, <2>3
    <2> SUFFICES ASSUME NEW k \in Nat
                 PROVE  /\ Inserts(y, k) <=> Inserts(x, k) /\ k # Len(todo) - 1
                        /\ Inserts(y, k) => RowOf(y, k) = RowOf(x, k)
        OBVIOUS
    <2>7. CASE k = Len(todo) - 1
        <3>1. ~Inserts(y, k)
            BY <1>2, <2>2, <2>5, <2>6, <2>7
        <3> QED
            BY <2>7, <3>1
    <2>8. CASE k < Len(todo) /\ k # Len(todo) - 1
        <3>1. left[Len(left) - k] = todo[Len(todo) - k] /\ k < Len(left)
            BY <2>2, <2>4, <2>8
        <3> QED
            BY <1>2, <1>3, <2>8, <3>1
    <2>9. CASE ~(k < Len(todo))
        BY <1>2, <1>3, <2>2, <2>9
    <2> QED
        BY <2>7, <2>8, <2>9
<1>5. CASE ~(Head(todo).op = "update_answers" /\ others # {})
    <2>1. left = Tail(todo)
        BY <1>5 DEF Left
    <2> HIDE DEF left
    <2>2. Len(left) = Len(todo) - 1 /\ \A i \in 1 .. Len(todo) - 1 : left[i] = todo[i + 1]
        BY <2>1
    <2>3. \A k \in Nat : k < Len(left) <=> k < Len(todo) /\ k # Len(todo) - 1
        BY <2>2
    <2>4. \A k \in Nat : k < Len(left) => left[Len(left) - k] = todo[Len(todo) - k]
        BY <2>2
    <2> QED
        BY <1>2, <1>3, <2>3, <2>4
<1> QED
    BY <1>4, <1>5

(* Only the INSERT of w with l others after it is executed. *)
Executed(wk, wl, w, l) ==
    \A v \in Workers, k \in Nat :
        /\ Inserts(wl[v], k) <=> Inserts(wk[v], k) /\ <<v, k>> # <<w, l>>
        /\ Inserts(wl[v], k) => RowOf(wl[v], k) = RowOf(wk[v], k)

(* A prompt that is stored was a pending one.                                 *)
LEMMA StoredDeals ==
    ASSUME NEW d, NEW e, NEW wk, NEW wl, DealsOK(d, wk), NEW row, d.answer \in Seq(Row(d)),
           e.answer = Append(d.answer, row), NEW w \in Workers, NEW l \in Nat,
           Inserts(wk[w], l), RowOf(wk[w], l) = row, Executed(wk, wl, w, l)
    PROVE  DealsOK(e, wl)
<1> DEFINE n == Len(d.answer) + 1
<1>1. /\ DOMAIN e.answer = DOMAIN d.answer \cup {n} /\ n \notin DOMAIN d.answer
      /\ e.answer[n] = row /\ \A t \in DOMAIN d.answer : e.answer[t] = d.answer[t]
    <2>1. Len(e.answer) = n /\ Len(d.answer) \in Nat /\ DOMAIN d.answer = 1 .. Len(d.answer)
        OBVIOUS
    <2>2. DOMAIN e.answer = 1 .. n
        BY <2>1
    <2> QED
        BY <2>1, <2>2
<1> HIDE DEF n
<1>2. \A v \in Workers, k \in Nat :
          /\ Inserts(wl[v], k) <=> Inserts(wk[v], k) /\ <<v, k>> # <<w, l>>
          /\ Inserts(wl[v], k) => RowOf(wl[v], k) = RowOf(wk[v], k)
    BY DEF Executed
<1>3. ASSUME NEW g, NEW u PROVE EvenPrompts(e, wl, g, u)
    <2> DEFINE A == Stored(d, g, u)
               P == Pending(wk, g, u)
               AA == Stored(e, g, u)
               PP == Pending(wl, g, u)
    <2>1. IsFiniteSet(A) /\ IsFiniteSet(P) /\ \E m \in Nat : Cardinality(A) + Cardinality(P) = 2 * m
        BY DEF DealsOK, EvenPrompts
    <2>2. CASE row.game = g /\ row.user = u
        <3>1. AA = A \cup {n} /\ n \notin A
            BY <1>1, <2>2 DEF Stored
        <3>2. <<w, l>> \in P
            BY <2>2 DEF Pending
        <3>3. PP = P \ {<<w, l>>}
            <4> SUFFICES ASSUME NEW p \in Workers \X Nat
                         PROVE  p \in PP <=> p \in P /\ p # <<w, l>>
                BY DEF Pending
            <4>1. p[1] \in Workers /\ p[2] \in Nat /\ p = <<p[1], p[2]>>
                OBVIOUS
            <4> QED
                BY <1>2, <4>1 DEF Pending
        <3> HIDE DEF A, P, AA, PP
        <3>4. IsFiniteSet(AA) /\ Cardinality(AA) = Cardinality(A) + 1
            BY <2>1, <3>1, FS_AddElement
        <3>5. IsFiniteSet(PP) /\ Cardinality(PP) = Cardinality(P) - 1
            BY <2>1, <3>2, <3>3, FS_RemoveElement
        <3>6. Cardinality(A) \in Nat /\ Cardinality(P) \in Nat
            BY <2>1, FS_CardinalityType
        <3>7. Cardinality(AA) + Cardinality(PP) = Cardinality(A) + Cardinality(P)
            BY <3>4, <3>5, <3>6
        <3>8. \E m \in Nat : Cardinality(AA) + Cardinality(PP) = 2 * m
            BY <2>1, <3>7
        <3> QED
            BY <3>4, <3>5, <3>8 DEF EvenPrompts, AA, PP
    <2>3. CASE ~(row.game = g /\ row.user = u)
        <3>1. AA = A
            BY <1>1, <2>3 DEF Stored
        <3>2. PP = P
            <4> SUFFICES ASSUME NEW p \in Workers \X Nat PROVE p \in PP <=> p \in P
                BY DEF Pending
            <4>1. p[1] \in Workers /\ p[2] \in Nat /\ p = <<p[1], p[2]>>
                OBVIOUS
            <4>2. <<w, l>>[1] = w /\ <<w, l>>[2] = l
                OBVIOUS
            <4> QED
                BY <1>2, <2>3, <4>1, <4>2 DEF Pending
        <3> QED
            BY <2>1, <3>1, <3>2 DEF EvenPrompts
    <2> QED
        BY <2>2, <2>3
<1>4. \A g, q, u : Prompted(d, wk, g, q, u) => Prompted(e, wl, g, q, u)
    <2> SUFFICES ASSUME NEW g, NEW q, NEW u, Prompted(d, wk, g, q, u)
                 PROVE  Prompted(e, wl, g, q, u)
        OBVIOUS
    <2>1. CASE \E t \in DOMAIN d.answer :
                  d.answer[t].game = g /\ d.answer[t].question = q /\ d.answer[t].user = u
        BY <1>1, <2>1 DEF Prompted
    <2>2. ASSUME NEW v \in Workers, NEW k \in Nat, Inserts(wk[v], k),
                 RowOf(wk[v], k).game = g, RowOf(wk[v], k).question = q, RowOf(wk[v], k).user = u
          PROVE  Prompted(e, wl, g, q, u)
        <3>1. CASE <<v, k>> = <<w, l>>
            <4>1. v = w /\ k = l
                BY <3>1
            <4>2. n \in DOMAIN e.answer /\ e.answer[n].game = g /\ e.answer[n].question = q
                  /\ e.answer[n].user = u
                BY <1>1, <2>2, <4>1
            <4> QED
                BY <4>2 DEF Prompted
        <3>2. CASE <<v, k>> # <<w, l>>
            BY <1>2, <2>2, <3>2 DEF Prompted
        <3> QED
            BY <3>1, <3>2
    <2> QED
        BY <2>1, <2>2 DEF Prompted
<1>5. \A g, q, u : Prompted(e, wl, g, q, u) => Prompted(d, wk, g, q, u)
    <2> SUFFICES ASSUME NEW g, NEW q, NEW u, Prompted(e, wl, g, q, u)
                 PROVE  Prompted(d, wk, g, q, u)
        OBVIOUS
    <2>1. ASSUME NEW t \in DOMAIN e.answer, e.answer[t].game = g, e.answer[t].question = q,
                 e.answer[t].user = u
          PROVE  Prompted(d, wk, g, q, u)
        BY <1>1, <2>1 DEF Prompted
    <2>2. ASSUME NEW v \in Workers, NEW k \in Nat, Inserts(wl[v], k),
                 RowOf(wl[v], k).game = g, RowOf(wl[v], k).question = q, RowOf(wl[v], k).user = u
          PROVE  Prompted(d, wk, g, q, u)
        BY <1>2, <2>2 DEF Prompted
    <2> QED
        BY <2>1, <2>2 DEF Prompted
<1> QED
    BY <1>3, <1>4, <1>5 DEF DealsOK

(* x is going to execute the INSERTs of the rows f dealt to game g. *)
Plans(x, g, f, n) ==
    \A k \in Nat :
        /\ Inserts(x, k) <=> k < 2 * n
        /\ k < 2 * n =>
              RowOf(x, k) = [game |-> g, user |-> f[2 * n - k].user,
                             question |-> f[2 * n - k].question, response |-> NoResponse]

(* A deal adds two prompts for each of its players, with those of others      *)
(* next to them.                                                              *)
LEMMA NewDeals ==
    ASSUME NEW d, NEW wk, NEW wl, DealsOK(d, wk), NEW w \in Workers, NEW g,
           NEW n \in Nat, n >= 3, NEW S, NEW Q, NEW order \in Bijection(1 .. n, S),
           NEW draw \in [1 .. n -> Q], NEW f, f = Deal(order, draw, 0),
           \A k \in Nat : ~Inserts(wk[w], k), Plans(wl[w], g, f, n),
           \A v \in Workers \ {w} : wl[v] = wk[v]
    PROVE  DealsOK(d, wl)
<1> DEFINE mine(u) == {t \in DOMAIN f : f[t].user = u}
<1>1. Rows(f, n, order, draw, 0) /\ SoundDeal(f, n, S, Q, 0)
    <2>1. n >= 1 /\ 0 \in Nat
        OBVIOUS
    <2>2. Rows(Deal(order, draw, 0), n, order, draw, 0)
        BY <2>1, DealFillsRows
    <2>3. SoundDeal(Deal(order, draw, 0), n, S, Q, 0)
        BY <2>1, DealIsSound
    <2> QED
        BY <2>2, <2>3
<1>2. DOMAIN f = 1 .. 2 * n /\ \A t \in DOMAIN f : f[t].user \in S
    BY <1>1 DEF SoundDeal
<1>3. \A u \in S : Cardinality(mine(u)) = 2
    <2> SUFFICES ASSUME NEW u \in S PROVE Cardinality(mine(u)) = 2
        OBVIOUS
    <2>1. Rows(f, n, order, draw, 0)
        BY <1>1
    <2>2. FairTo(u, f)
        BY <2>1, DealIsFair
    <2> QED
        BY <2>2 DEF FairTo
<1>4. \A t \in DOMAIN f : \E s \in Others(t, f) : f[s].user # f[t].user
    BY <1>1, DealPairsPlayers
<1>5. \A k \in Nat : k < 2 * n =>
          /\ 2 * n - k \in DOMAIN f
          /\ RowOf(wl[w], k).game = g /\ RowOf(wl[w], k).user = f[2 * n - k].user
          /\ RowOf(wl[w], k).question = f[2 * n - k].question
    <2> SUFFICES ASSUME NEW k \in Nat, k < 2 * n
                 PROVE  /\ 2 * n - k \in DOMAIN f
                        /\ RowOf(wl[w], k).game = g /\ RowOf(wl[w], k).user = f[2 * n - k].user
                        /\ RowOf(wl[w], k).question = f[2 * n - k].question
        OBVIOUS
    <2>1. RowOf(wl[w], k) = [game |-> g, user |-> f[2 * n - k].user,
                             question |-> f[2 * n - k].question, response |-> NoResponse]
        BY DEF Plans
    <2>2. 2 * n - k \in DOMAIN f
        BY <1>2
    <2> QED
        BY <2>1, <2>2
<1>6. \A k \in Nat : Inserts(wl[w], k) <=> k < 2 * n
    BY DEF Plans
<1>7. \A t \in DOMAIN f :
          /\ 2 * n - t \in Nat /\ 2 * n - t < 2 * n
          /\ RowOf(wl[w], 2 * n - t).game = g /\ RowOf(wl[w], 2 * n - t).user = f[t].user
          /\ RowOf(wl[w], 2 * n - t).question = f[t].question
    <2> SUFFICES ASSUME NEW t \in DOMAIN f
                 PROVE  /\ 2 * n - t \in Nat /\ 2 * n - t < 2 * n
                        /\ RowOf(wl[w], 2 * n - t).game = g
                        /\ RowOf(wl[w], 2 * n - t).user = f[t].user
                        /\ RowOf(wl[w], 2 * n - t).question = f[t].question
        OBVIOUS
    <2> DEFINE k == 2 * n - t
    <2>1. k \in Nat /\ k < 2 * n /\ 2 * n - k = t
        BY <1>2
    <2> HIDE DEF k
    <2>2. RowOf(wl[w], k).game = g /\ RowOf(wl[w], k).user = f[t].user
          /\ RowOf(wl[w], k).question = f[t].question
        BY <1>5, <2>1
    <2> QED
        BY <2>1, <2>2 DEF k
<1>8. ASSUME NEW h, NEW u PROVE EvenPrompts(d, wl, h, u)
    <2> DEFINE A == Stored(d, h, u)
               P == Pending(wk, h, u)
               PP == Pending(wl, h, u)
    <2>1. IsFiniteSet(A) /\ IsFiniteSet(P) /\ \E m \in Nat : Cardinality(A) + Cardinality(P) = 2 * m
        BY DEF DealsOK, EvenPrompts
    <2>2. \A p \in P : p[1] # w
        BY DEF Pending
    <2>3. CASE h = g /\ u \in S
        <3>1. mine(u) \subseteq DOMAIN f /\ IsFiniteSet(mine(u))
            <4>1. IsFiniteSet(1 .. 2 * n)
                BY FS_Interval
            <4> QED
                BY <1>2, <4>1, FS_Subset
        <3>2. PICK a, b : a # b /\ mine(u) = {a, b}
            BY <1>3, <2>3, <3>1, TwoAreAPair
        <3>3. a \in DOMAIN f /\ b \in DOMAIN f
            BY <3>1, <3>2
        <3> DEFINE x == <<w, 2 * n - a>>
                   y == <<w, 2 * n - b>>
        <3>4. x # y /\ x[1] = w /\ y[1] = w
            <4>1. 2 * n - a # 2 * n - b
                BY <1>2, <3>2, <3>3
            <4> QED
                BY <4>1
        <3>5. PP = (P \cup {x}) \cup {y}
            <4>1. ASSUME NEW p \in Workers \X Nat, p \in PP PROVE p \in P \/ p = x \/ p = y
                <5>1. p[1] \in Workers /\ p[2] \in Nat /\ p = <<p[1], p[2]>>
                    OBVIOUS
                <5>2. CASE p[1] = w
                    <6>1. Inserts(wl[w], p[2]) /\ RowOf(wl[w], p[2]).user = u
                        BY <4>1, <5>2 DEF Pending
                    <6>2. p[2] < 2 * n
                        BY <1>6, <5>1, <6>1
                    <6>3. 2 * n - p[2] \in mine(u)
                        BY <1>5, <5>1, <6>1, <6>2
                    <6>4. 2 * n - p[2] = a \/ 2 * n - p[2] = b
                        BY <3>2, <6>3
                    <6>5. p[2] = 2 * n - a \/ p[2] = 2 * n - b
                        BY <5>1, <6>4
                    <6> QED
                        BY <5>1, <5>2, <6>5
                <5>3. CASE p[1] # w
                    BY <4>1, <5>1, <5>3 DEF Pending
                <5> QED
                    BY <5>2, <5>3
            <4>2. ASSUME NEW t \in mine(u) PROVE <<w, 2 * n - t>> \in PP
                <5>1. t \in DOMAIN f /\ f[t].user = u
                    BY <4>2
                <5> DEFINE k == 2 * n - t
                <5>2. /\ k \in Nat /\ k < 2 * n
                      /\ RowOf(wl[w], k).game = g /\ RowOf(wl[w], k).user = u
                    BY <1>7, <5>1
                <5> HIDE DEF k
                <5>3. Inserts(wl[w], k)
                    BY <1>6, <5>2
                <5> QED
                    BY <2>3, <5>2, <5>3 DEF Pending, k
            <4>3. ASSUME NEW p \in P PROVE p \in PP
                BY <2>2, <4>3 DEF Pending
            <4>4. x \in PP /\ y \in PP
                BY <3>2, <4>2
            <4>5. PP \subseteq Workers \X Nat
                BY DEF Pending
            <4> HIDE DEF P, PP, x, y
            <4> QED
                BY <4>1, <4>3, <4>4, <4>5
        <3>6. x \notin P /\ y \notin P \cup {x}
            BY <2>2, <3>4
        <3> HIDE DEF A, P, PP, x, y
        <3>7. IsFiniteSet(PP) /\ Cardinality(PP) = Cardinality(P) + 2
            <4>1. IsFiniteSet(P \cup {x}) /\ Cardinality(P \cup {x}) = Cardinality(P) + 1
                BY <2>1, <3>6, FS_AddElement
            <4>2. IsFiniteSet(PP) /\ Cardinality(PP) = Cardinality(P \cup {x}) + 1
                BY <3>5, <3>6, <4>1, FS_AddElement
            <4>3. Cardinality(P) \in Nat
                BY <2>1, FS_CardinalityType
            <4> QED
                BY <4>1, <4>2, <4>3
        <3>8. \E m \in Nat : Cardinality(A) + Cardinality(PP) = 2 * m
            <4>1. Cardinality(A) \in Nat /\ Cardinality(P) \in Nat
                BY <2>1, FS_CardinalityType
            <4>2. PICK m \in Nat : Cardinality(A) + Cardinality(P) = 2 * m
                BY <2>1
            <4>3. \A i, j \in Nat : i + j = 2 * m => i + (j + 2) = 2 * (m + 1)
                OBVIOUS
            <4>4. Cardinality(A) + (Cardinality(P) + 2) = 2 * (m + 1)
                BY <4>1, <4>2, <4>3
            <4>5. m + 1 \in Nat
                OBVIOUS
            <4> QED
                BY <3>7, <4>4, <4>5
        <3> QED
            BY <2>1, <3>7, <3>8 DEF EvenPrompts, A, PP
    <2>4. CASE ~(h = g /\ u \in S)
        <3>1. PP = P
            <4>1. ASSUME NEW p \in PP PROVE p \in P
                <5>1. p[1] \in Workers /\ p[2] \in Nat
                    BY <4>1 DEF Pending
                <5>2. p[1] # w
                    <6> SUFFICES ASSUME p[1] = w PROVE FALSE
                        OBVIOUS
                    <6>1. /\ Inserts(wl[w], p[2])
                          /\ RowOf(wl[w], p[2]).game = h /\ RowOf(wl[w], p[2]).user = u
                        BY <4>1 DEF Pending
                    <6>2. p[2] < 2 * n
                        BY <1>6, <5>1, <6>1
                    <6> QED
                        BY <1>2, <1>5, <2>4, <5>1, <6>1, <6>2
                <5> QED
                    BY <4>1, <5>1, <5>2 DEF Pending
            <4>2. ASSUME NEW p \in P PROVE p \in PP
                BY <2>2, <4>2 DEF Pending
            <4> QED
                BY <4>1, <4>2
        <3> QED
            BY <2>1, <3>1 DEF EvenPrompts
    <2> QED
        BY <2>3, <2>4
<1>9. \A h, q, u : Prompted(d, wk, h, q, u) => Prompted(d, wl, h, q, u)
    BY DEF Prompted
<1>10. ASSUME NEW h, NEW q, NEW u, Prompted(d, wl, h, q, u)
      PROVE  \E o : o # u /\ Prompted(d, wl, h, q, o)
    <2>1. CASE Prompted(d, wk, h, q, u)
        BY <1>9, <2>1 DEF DealsOK
    <2>2. ASSUME NEW k \in Nat, Inserts(wl[w], k), RowOf(wl[w], k).game = h,
                 RowOf(wl[w], k).question = q, RowOf(wl[w], k).user = u
          PROVE  \E o : o # u /\ Prompted(d, wl, h, q, o)
        <3> DEFINE t == 2 * n - k
        <3>1. t \in DOMAIN f /\ f[t].user = u /\ f[t].question = q /\ h = g
            BY <1>5, <1>6, <2>2
        <3>2. PICK s \in Others(t, f) : f[s].user # u
            BY <1>4, <3>1
        <3>3. s \in DOMAIN f /\ f[s].question = q
            BY <3>1, <3>2 DEF Others
        <3> DEFINE l == 2 * n - s
        <3>4. /\ l \in Nat /\ l < 2 * n /\ RowOf(wl[w], l).game = h
              /\ RowOf(wl[w], l).question = q /\ RowOf(wl[w], l).user = f[s].user
            BY <1>7, <3>1, <3>3
        <3> HIDE DEF l, t
        <3>5. Inserts(wl[w], l)
            BY <1>6, <3>4
        <3>6. Prompted(d, wl, h, q, f[s].user)
            BY <3>4, <3>5 DEF Prompted
        <3> QED
            BY <3>2, <3>6
    <2>3. ASSUME NEW v \in Workers \ {w}, NEW k \in Nat, Inserts(wl[v], k),
                 RowOf(wl[v], k).game = h, RowOf(wl[v], k).question = q, RowOf(wl[v], k).user = u
          PROVE  Prompted(d, wk, h, q, u)
        BY <2>3 DEF Prompted
    <2>4. CASE \E t \in DOMAIN d.answer :
                  d.answer[t].game = h /\ d.answer[t].question = q /\ d.answer[t].user = u
        BY <2>1, <2>4 DEF Prompted
    <2> QED
        BY <1>10, <2>1, <2>2, <2>3, <2>4 DEF Prompted
<1> QED
    BY <1>8, <1>10 DEF DealsOK

LEMMA QuietFew ==
    ASSUME NEW a, NEW b, NEW c,
           a.op # "insert_answer", b.op # "insert_answer", c.op # "insert_answer"
    PROVE  /\ \A k \in Nat : ~Inserts(Run(<<a>>), k)
           /\ \A k \in Nat : ~Inserts(Run(<<a, b>>), k)
           /\ \A k \in Nat : ~Inserts(Run(<<a, b, c>>), k)
<1> DEFINE S == {a, b, c}
<1>1. a \in S /\ b \in S /\ c \in S /\ \A s \in S : s.op # "insert_answer"
    OBVIOUS
<1> HIDE DEF S
<1>2. <<a>> \in Seq(S) /\ <<a, b>> \in Seq(S) /\ <<a, b, c>> \in Seq(S)
    BY <1>1
<1>3. ASSUME NEW todo \in Seq(S) PROVE \A k \in Nat : ~Inserts(Run(todo), k)
    <2>1. Run(todo).todo = todo
        BY DEF Run
    <2>2. \A i \in DOMAIN todo : todo[i].op # "insert_answer"
        BY <1>1
    <2> HIDE DEF Inserts
    <2> QED
        BY <2>1, <2>2, NoInserts
<1> QED
    BY <1>2, <1>3

(* Nor has one whose statements come after messages. *)
LEMMA QuietNews ==
    ASSUME NEW T, NEW news \in Seq(T), \A i \in DOMAIN news : IsMessage(news[i]),
           NEW a, NEW b, a.op # "insert_answer", b.op # "insert_answer"
    PROVE  \A k \in Nat : ~Inserts(Run(news \o <<a, b>>), k)
<1> DEFINE S == T \cup {a, b}
           todo == news \o <<a, b>>
<1>1. news \in Seq(S) /\ <<a, b>> \in Seq(S) /\ Len(<<a, b>>) = 2 /\ <<a, b>>[1] = a /\ <<a, b>>[2] = b
    OBVIOUS
<1> DEFINE few == <<a, b>>
<1>2. few \in Seq(S) /\ Len(few) = 2 /\ few[1] = a /\ few[2] = b
    BY <1>1
<1> HIDE DEF few, S
<1>3. news \o few \in Seq(S)
    BY <1>1, <1>2
<1>4. \A i \in DOMAIN (news \o few) : (news \o few)[i].op # "insert_answer"
    <2> SUFFICES ASSUME NEW i \in DOMAIN (news \o few)
                 PROVE  (news \o few)[i].op # "insert_answer"
        OBVIOUS
    <2>1. i \in 1 .. Len(news) + 2
        BY <1>1, <1>2
    <2>2. CASE i \in 1 .. Len(news)
        <3>1. (news \o few)[i] = news[i] /\ IsMessage(news[i])
            BY <1>1, <1>2, <2>2
        <3> QED
            BY <3>1 DEF IsMessage
    <2>3. CASE i = Len(news) + 1
        <3>1. (news \o few)[i] = few[1]
            BY <1>1, <1>2, <2>3
        <3> QED
            BY <1>2, <3>1
    <2>4. CASE i = Len(news) + 2
        <3>1. (news \o few)[i] = few[2]
            BY <1>1, <1>2, <2>4
        <3> QED
            BY <1>2, <3>1
    <2> QED
        BY <1>1, <2>1, <2>2, <2>3, <2>4
<1>5. Run(news \o few).todo = news \o few
    BY DEF Run
<1> HIDE DEF todo
<1>6. \A k \in Nat : ~Inserts(Run(news \o few), k)
    BY <1>3, <1>4, <1>5, NoInserts
<1> QED
    BY <1>6 DEF few

LEMMA PlainStatements ==
    /\ \A g, u : InsertUser(g, u).op # "insert_answer"
    /\ \A g, s : SetState(g, s).op # "insert_answer"
    /\ \A g, q : SetVoting(g, q).op # "insert_answer"
    /\ \A rows : UpdateAnswers(rows).op # "insert_answer"
    /\ \A v : InsertVote(v).op # "insert_answer"
    /\ \A g, q : Buttons(g, q).op # "insert_answer"
    /\ \A g, q, vs : Results(g, q, vs).op # "insert_answer"
    /\ \A g, vs : Scores(g, vs).op # "insert_answer"
BY DEF InsertUser, SetState, SetVoting, UpdateAnswers, InsertVote, Buttons, Results, Scores

(* A statement that is no INSERT of a prompt keeps those there are. *)
LEMMA OthersKeepRows ==
    ASSUME NEW d, TablesOK(d), NEW s \in Statements(d), s.op # "insert_answer"
    PROVE  SamePrompts(d, Apply(d, s))
<1>1. \/ \E g, u : s = InsertUser(g, u)
      \/ \E g, st : s = SetState(g, st)
      \/ \E g, q : s = SetVoting(g, q)
      \/ \E rows \in Updates(d) : s = UpdateAnswers(rows)
      \/ \E v : s = InsertVote(v)
      \/ \E g, q : s = Buttons(g, q)
      \/ \E g, q, vs : s = Results(g, q, vs)
      \/ \E g, vs : s = Scores(g, vs)
    BY DEF Statements, InsertAnswer
<1>2. ASSUME \A rows \in Updates(d) : s # UpdateAnswers(rows)
      PROVE  Apply(d, s).answer = d.answer
    BY <1>1, <1>2, Applied
<1>3. ASSUME NEW rows \in Updates(d), s = UpdateAnswers(rows)
      PROVE  SamePrompts(d, Apply(d, s))
    <2> DEFINE t == Min(DOMAIN rows)
               e == Apply(d, s)
    <2>1. e.answer = [d.answer EXCEPT ![t] = [d.answer[t] EXCEPT !.response = rows[t]]]
        BY <1>3, Applied
    <2>2. t \in DOMAIN d.answer /\ d.answer[t] \in Row(d)
        BY FirstRow DEF TablesOK
    <2> DEFINE row == [d.answer[t] EXCEPT !.response = rows[t]]
    <2>3. row.game = d.answer[t].game /\ row.user = d.answer[t].user
          /\ row.question = d.answer[t].question
        BY <2>2 DEF Row
    <2> HIDE DEF t, row, e
    <2>4. /\ DOMAIN e.answer = DOMAIN d.answer
          /\ \A r \in DOMAIN d.answer : e.answer[r] = IF r = t THEN row ELSE d.answer[r]
        BY <2>1 DEF row
    <2> QED
        BY <2>3, <2>4 DEF SamePrompts, e
<1> QED
    BY <1>2, <1>3 DEF SamePrompts

LEMMA ExecuteDeals == ASSUME EInv, NEW w \in Workers, Execute(w) PROVE DealsOK(db', worker')
<1> DEFINE todo == worker[w].todo
           s == Head(todo)
           l == Len(todo) - 1
           y == IF Left(todo) = <<>> THEN Idle ELSE Run(Left(todo))
<1>1. /\ TablesOK(db) /\ todo \in Seq(Statements(db)) /\ todo # <<>> /\ worker[w].pc = "run"
      /\ db' = Apply(db, s) /\ GoOn(w, y) /\ DealsOK(db, worker)
    BY DEF Execute, EInv, IInv, WorkerOK
<1>2. worker'[w] = y /\ \A v \in Workers \ {w} : worker'[v] = worker[v]
    BY <1>1 DEF GoOn, EInv, IInv
<1>3. \A k \in Nat : /\ Inserts(y, k) <=> Inserts(worker[w], k) /\ k # l
                     /\ Inserts(y, k) => RowOf(y, k) = RowOf(worker[w], k)
    <2> HIDE DEF todo, y
    <2>1. todo = worker[w].todo
        BY DEF todo
    <2> QED
        BY <1>1, <2>1, LeftInserts DEF y
<1>4. /\ l \in Nat /\ s \in Statements(db) /\ Len(todo) - l = 1 /\ todo[1] = s /\ l < Len(todo)
    BY <1>1
<1>5. Inserts(worker[w], l) <=> s.op = "insert_answer"
    <2> HIDE DEF todo, s, l
    <2> QED
        BY <1>1, <1>4 DEF Inserts, todo
<1>6. RowOf(worker[w], l) = s.row
    <2> HIDE DEF s, l
    <2> QED
        BY <1>4 DEF RowOf
<1> HIDE DEF todo, y, s, l
<1>7. \A v \in Workers, k \in Nat :
          /\ Inserts(worker'[v], k) <=> Inserts(worker[v], k) /\ <<v, k>> # <<w, l>>
          /\ Inserts(worker'[v], k) => RowOf(worker'[v], k) = RowOf(worker[v], k)
    BY <1>2, <1>3
<1>8. CASE s.op = "insert_answer"
    <2>1. PICK row \in Row(db) : s = InsertAnswer(row)
        BY <1>4, <1>8, PlainStatements DEF Statements
    <2>2. s.row = row
        BY <2>1 DEF InsertAnswer
    <2>3. db.answer \in Seq(Row(db)) /\ db'.answer = Append(db.answer, row)
        BY <1>1, <2>1, Applied DEF TablesOK
    <2>4. Inserts(worker[w], l) /\ RowOf(worker[w], l) = row
        BY <1>5, <1>6, <1>8, <2>2
    <2>5. l \in Nat /\ DealsOK(db, worker)
        BY <1>1, <1>4
    <2>6. Executed(worker, worker', w, l)
        BY <1>7 DEF Executed
    <2> QED
        BY <2>3, <2>4, <2>5, <2>6, StoredDeals
<1>9. CASE s.op # "insert_answer"
    <2>1. SamePrompts(db, db')
        BY <1>1, <1>4, <1>9, OthersKeepRows
    <2>2. ~Inserts(worker[w], l)
        BY <1>5, <1>9
    <2>3. \A v \in Workers, k \in Nat :
              /\ Inserts(worker'[v], k) <=> Inserts(worker[v], k)
              /\ Inserts(worker[v], k) => RowOf(worker'[v], k) = RowOf(worker[v], k)
        BY <1>7, <2>2
    <2> QED
        BY <1>1, <2>1, <2>3, SameDeals
<1> QED
    BY <1>8, <1>9

(* How /begin ends when it deals. *)
LEMMA BeginDrawPlans ==
    ASSUME IInv, NEW w \in Workers, BeginDraw(w)
    PROVE  \/ GoOn(w, Idle) \/ GoOn(w, Dead)
           \/ \E n \in Nat, S \in SUBSET Users : n >= 3 /\
              \E order \in Bijection(1 .. n, S), draw \in [1 .. n -> Questions] :
                 GoOn(w, Run(<<SetState(worker[w].game, "gather_answers")>>
                             \o DealRows(worker[w].game, order, draw)))
<1> DEFINE x == worker[w]
           g == x.game
           order == x.order
           count == Cardinality(UsersOf(db, g))
<1>1. \E S \in SUBSET Users : order \in Bijection(1 .. Cardinality(S), S)
    BY DEF BeginDraw, IInv, WorkerOK
<1> SUFFICES ASSUME ~GoOn(w, Idle), ~GoOn(w, Dead)
             PROVE  \E n \in Nat, S \in SUBSET Users : n >= 3 /\
                    \E o \in Bijection(1 .. n, S), draw \in [1 .. n -> Questions] :
                       GoOn(w, Run(<<SetState(g, "gather_answers")>> \o DealRows(g, o, draw)))
    OBVIOUS
<1>2. PICK draw \in [1 .. count -> Questions] :
          /\ Len(order) >= MinPlayers /\ Len(order) = count
          /\ GoOn(w, Run(<<SetState(g, "gather_answers")>> \o DealRows(g, order, draw)))
    BY DEF BeginDraw, Draws
<1>3. PICK S \in SUBSET Users : order \in Bijection(1 .. Cardinality(S), S)
    BY <1>1
<1>4. Cardinality(S) \in Nat
    BY BotAssumption, FS_Subset, FS_CardinalityType
<1>5. Len(order) = Cardinality(S)
    <2>1. order \in [1 .. Cardinality(S) -> S]
        BY <1>3 DEF Bijection, Injection
    <2> QED
        BY <1>4, <2>1
<1> HIDE DEF order, count
<1>6. count \in Nat /\ count >= 3 /\ order \in Bijection(1 .. count, S)
    BY <1>2, <1>3, <1>4, <1>5 DEF MinPlayers
<1> QED
    BY <1>2, <1>6

LEMMA DealPlans ==
    ASSUME NEW n \in Nat, n >= 3, NEW S, NEW order \in Bijection(1 .. n, S), NEW Q,
           NEW draw \in [1 .. n -> Q], NEW g, NEW h,
           NEW y, y = Run(<<SetState(h, "gather_answers")>> \o DealRows(g, order, draw))
    PROVE  Plans(y, g, Deal(order, draw, 0), n)
<1> DEFINE f == Deal(order, draw, 0)
           rows == DealRows(g, order, draw)
           s == SetState(h, "gather_answers")
           row(k) == [game |-> g, user |-> f[k].user, question |-> f[k].question,
                      response |-> NoResponse]
           stmt(k) == InsertAnswer(row(k))
           m == 2 * n
           todo == <<s>> \o rows
<1>1. DOMAIN f = 1 .. m
    <2> HIDE DEF f
    <2>1. Rows(f, n, order, draw, 0)
        BY DealFillsRows DEF f
    <2> QED
        BY <2>1 DEF Rows
<1>2. rows = [k \in 1 .. m |-> stmt(k)]
    BY <1>1 DEF DealRows
<1>3. /\ y.pc = "run" /\ y.todo = todo /\ s.op # "insert_answer"
      /\ \A k : stmt(k).op = "insert_answer" /\ stmt(k).row = row(k)
    BY PlainStatements DEF Run, InsertAnswer
<1>4. m \in Nat
    OBVIOUS
<1> DEFINE T == {s} \cup {stmt(k) : k \in 1 .. m}
<1>5. s \in T /\ \A k \in 1 .. m : stmt(k) \in T
    OBVIOUS
<1> HIDE DEF f, s, row, stmt, T, rows, m
<1>6. rows \in Seq(T) /\ Len(rows) = m /\ \A i \in 1 .. m : rows[i] = stmt(i)
    BY <1>2, <1>4, <1>5
<1>7. /\ Len(todo) = m + 1 /\ todo[1] = s
      /\ \A i \in 1 .. m : todo[i + 1] = stmt(i)
    <2>1. <<s>> \in Seq(T) /\ Len(<<s>>) = 1 /\ <<s>>[1] = s
        BY <1>5
    <2> QED
        BY <1>4, <1>6, <2>1
<1> HIDE DEF todo
<1>8. ASSUME NEW k \in Nat
      PROVE  (Inserts(y, k) <=> k < m) /\ (k < m => RowOf(y, k) = row(m - k))
    <2>1. CASE k < m
        <3>1. m - k \in 1 .. m /\ Len(todo) - k = (m - k) + 1
            BY <1>4, <1>7, <2>1
        <3>2. todo[Len(todo) - k] = stmt(m - k) /\ k < Len(todo)
            BY <1>4, <1>7, <2>1, <3>1
        <3> QED
            BY <1>3, <2>1, <3>2 DEF Inserts, RowOf
    <2>2. CASE k = m
        <3>1. Len(todo) - k = 1
            BY <1>4, <1>7, <2>2
        <3>2. ~Inserts(y, k)
            BY <1>3, <1>7, <3>1 DEF Inserts
        <3> QED
            BY <1>4, <2>2, <3>2
    <2>3. CASE k > m
        BY <1>3, <1>4, <1>7, <2>3 DEF Inserts
    <2> QED
        BY <1>4, <2>1, <2>2, <2>3
<1> QED
    BY <1>8 DEF row, m, f, Plans

LEMMA BeginDrawKeepsDeals ==
    ASSUME EInv, NEW w \in Workers, BeginDraw(w)
    PROVE  DealsOK(db', worker')
<1>1. IInv /\ worker[w].pc # "run" /\ SamePrompts(db, db') /\ db' = db
    BY DEF EInv, BeginDraw, SamePrompts
<1>2. CASE GoOn(w, Idle) \/ GoOn(w, Dead)
    <2>1. (\A k \in Nat : ~Inserts(Idle, k)) /\ (\A k \in Nat : ~Inserts(Dead, k))
        BY DEF Inserts, Idle, Dead
    <2> QED
        BY <1>1, <1>2, <2>1, QuietDeals
<1>3. ASSUME NEW n \in Nat, NEW S \in SUBSET Users, n >= 3, NEW order \in Bijection(1 .. n, S),
             NEW draw \in [1 .. n -> Questions],
             GoOn(w, Run(<<SetState(worker[w].game, "gather_answers")>>
                         \o DealRows(worker[w].game, order, draw)))
      PROVE  DealsOK(db', worker')
    <2> DEFINE g == worker[w].game
               y == Run(<<SetState(g, "gather_answers")>> \o DealRows(g, order, draw))
               wl == worker'
    <2>1. wl[w] = y /\ \A v \in Workers \ {w} : wl[v] = worker[v]
        BY <1>3 DEF GoOn, EInv, IInv
    <2>2. Plans(y, g, Deal(order, draw, 0), n)
        BY <1>3, DealPlans
    <2>3. \A k \in Nat : ~Inserts(worker[w], k)
        BY <1>1 DEF Inserts
    <2>4. DealsOK(db, worker)
        BY DEF EInv
    <2> HIDE DEF g, y
    <2>5. Plans(wl[w], g, Deal(order, draw, 0), n)
        BY <2>1, <2>2
    <2> HIDE DEF wl
    <2>6. DealsOK(db, wl)
        BY <1>3, <2>1, <2>3, <2>4, <2>5, NewDeals
    <2> QED
        BY <1>1, <2>6 DEF wl
<1> QED
    BY <1>1, <1>2, <1>3, BeginDrawPlans

(* No other handler stores or plans a prompt. *)
LEMMA ReadDeals ==
    ASSUME EInv, NEW w \in Workers, NEW y, GoOn(w, y), worker[w].pc # "run",
           UNCHANGED <<db, chat, failures>>, \A k \in Nat : ~Inserts(y, k)
    PROVE  DealsOK(db', worker')
<1>1. SamePrompts(db, db')
    BY DEF SamePrompts
<1> QED
    BY <1>1, QuietDeals

LEMMA IdleDeals ==
    ASSUME NEW x, x.pc # "run"
    PROVE  \A k \in Nat : ~Inserts(x, k)
BY DEF Inserts

LEMMA ReceiveDeals == ASSUME EInv, NEW w \in Workers, Receive(w) PROVE DealsOK(db', worker')
<1>1. worker[w].pc # "run"
    BY DEF Receive, FindNew, FindJoin, FindBegin, FindPost, FindVote, FindEnd, FindStatus, Find
<1>2. UNCHANGED <<db, chat, failures>>
    BY DEF Receive, FindNew, FindJoin, FindBegin, FindPost, FindVote, FindEnd, FindStatus, Find
<1> DEFINE Plain(y) == y.pc # "run" \/ \E g : y = Run(<<SetState(g, "end")>>)
<1>3. \E y : GoOn(w, y) /\ Plain(y)
    <2>1. ASSUME NEW u, FindNew(w, u) PROVE \E y : GoOn(w, y) /\ Plain(y)
        <3>1. GoOn(w, [pc |-> "create", user |-> u])
            BY <2>1 DEF FindNew
        <3> QED
            BY <3>1
    <2>2. ASSUME NEW u, FindJoin(w, u) PROVE \E y : GoOn(w, y) /\ Plain(y)
        <3>1. PICK g : GoOn(w, [pc |-> "join", game |-> g, user |-> u])
            BY <2>2 DEF FindJoin
        <3> QED
            BY <3>1
    <2>3. CASE FindBegin(w)
        <3>1. PICK g : GoOn(w, [pc |-> "begin", game |-> g])
            BY <2>3 DEF FindBegin
        <3> QED
            BY <3>1
    <2>4. ASSUME NEW t, NEW r, FindPost(w, t, r) PROVE \E y : GoOn(w, y) /\ Plain(y)
        <3>1. PICK g : GoOn(w, [pc |-> "post", game |-> g, token |-> t, response |-> r])
            BY <2>4 DEF FindPost
        <3> QED
            BY <3>1
    <2>5. ASSUME NEW u, NEW t, FindVote(w, u, t) PROVE \E y : GoOn(w, y) /\ Plain(y)
        <3>1. PICK g : GoOn(w, [pc |-> "vote", game |-> g, user |-> u, token |-> t])
            BY <2>5 DEF FindVote
        <3> QED
            BY <3>1
    <2>6. CASE FindEnd(w)
        BY <2>6 DEF FindEnd
    <2>7. CASE FindStatus(w)
        <3>1. PICK g : GoOn(w, [pc |-> "status", game |-> g])
            BY <2>7 DEF FindStatus
        <3> QED
            BY <3>1
    <2> HIDE DEF Plain
    <2> QED
        BY <2>1, <2>2, <2>3, <2>4, <2>5, <2>6, <2>7 DEF Receive
<1>4. PICK y : GoOn(w, y) /\ Plain(y)
    BY <1>3
<1>5. \A k \in Nat : ~Inserts(y, k)
    <2>1. CASE y.pc # "run"
        BY <2>1, IdleDeals
    <2>2. ASSUME NEW g, y = Run(<<SetState(g, "end")>>) PROVE \A k \in Nat : ~Inserts(y, k)
        <3>1. SetState(g, "end").op # "insert_answer"
            BY PlainStatements
        <3> QED
            BY <2>2, <3>1, QuietFew
    <2> QED
        BY <1>4, <2>1, <2>2
<1> QED
    BY <1>1, <1>2, <1>4, <1>5, ReadDeals

LEMMA CreateGameDeals == ASSUME EInv, NEW w \in Workers, CreateGame(w) PROVE DealsOK(db', worker')
<1> DEFINE s == InsertUser(Len(db.game) + 1, worker[w].user)
<1>1. /\ worker[w].pc # "run" /\ TablesOK(db)
      /\ db' = Apply(db, InsertGame) /\ GoOn(w, Run(<<s>>))
    BY DEF CreateGame, EInv, IInv
<1>2. SamePrompts(db, db')
    <2>1. db'.answer = db.answer
        BY <1>1, Applied
    <2> QED
        BY <2>1 DEF SamePrompts
<1>3. s.op # "insert_answer"
    BY PlainStatements
<1> HIDE DEF s
<1>4. \A k \in Nat : ~Inserts(Run(<<s>>), k)
    BY <1>3, QuietFew
<1> QED
    BY <1>1, <1>2, <1>4, QuietDeals

(* The handlers whose statements, if any, do not come after messages. *)
LEMMA ReadersDeals ==
    ASSUME EInv, NEW w \in Workers,
           Join(w) \/ BeginUsers(w) \/ Post(w) \/ VoteAnswers(w) \/ VoteVotes(w) \/ Status(w)
    PROVE  DealsOK(db', worker')
<1>1. worker[w].pc # "run" /\ UNCHANGED <<db, chat, failures>>
    BY DEF Join, BeginUsers, Post, VoteAnswers, VoteVotes, Status
<1> DEFINE Plain(y) ==
        \/ y.pc # "run"
        \/ \E g, s, u : y = Run(<<SetState(g, s), InsertUser(g, u)>>)
        \/ \E g, s, rows : y = Run(<<SetState(g, s), UpdateAnswers(rows)>>)
        \/ \E g, q, rows : y = Run(<<SetVoting(g, q), UpdateAnswers(rows), Buttons(g, q)>>)
        \/ \E g, q : y = Run(<<Buttons(g, q)>>)
<1>2. Idle.pc # "run" /\ Dead.pc # "run"
    BY DEF Idle, Dead
<1>3. \E y : GoOn(w, y) /\ Plain(y)
    <2>1. CASE Join(w)
        BY <1>2, <2>1 DEF Join
    <2>2. CASE BeginUsers(w)
        <3>1. PICK order : GoOn(w, [pc |-> "draw", game |-> worker[w].game, order |-> order])
            BY <2>2 DEF BeginUsers
        <3> QED
            BY <3>1
    <2>3. CASE Post(w)
        BY <1>2, <2>3 DEF Post, SaveAll
    <2>4. CASE VoteAnswers(w)
        BY <2>4 DEF VoteAnswers
    <2>5. CASE VoteVotes(w)
        BY <2>5 DEF VoteVotes
    <2>6. CASE Status(w)
        BY <1>2, <2>6 DEF Status
    <2> QED
        BY <2>1, <2>2, <2>3, <2>4, <2>5, <2>6
<1>4. ASSUME NEW y, Plain(y) PROVE \A k \in Nat : ~Inserts(y, k)
    <2>1. CASE y.pc # "run"
        BY <2>1, IdleDeals
    <2>2. ASSUME NEW g, NEW s, NEW u, y = Run(<<SetState(g, s), InsertUser(g, u)>>)
          PROVE  \A k \in Nat : ~Inserts(y, k)
        <3>1. SetState(g, s).op # "insert_answer" /\ InsertUser(g, u).op # "insert_answer"
            BY PlainStatements
        <3> QED
            BY <2>2, <3>1, QuietFew
    <2>3. ASSUME NEW g, NEW s, NEW rows, y = Run(<<SetState(g, s), UpdateAnswers(rows)>>)
          PROVE  \A k \in Nat : ~Inserts(y, k)
        <3>1. SetState(g, s).op # "insert_answer" /\ UpdateAnswers(rows).op # "insert_answer"
            BY PlainStatements
        <3> QED
            BY <2>3, <3>1, QuietFew
    <2>4. ASSUME NEW g, NEW q, NEW rows,
                 y = Run(<<SetVoting(g, q), UpdateAnswers(rows), Buttons(g, q)>>)
          PROVE  \A k \in Nat : ~Inserts(y, k)
        <3>1. /\ SetVoting(g, q).op # "insert_answer" /\ UpdateAnswers(rows).op # "insert_answer"
              /\ Buttons(g, q).op # "insert_answer"
            BY PlainStatements
        <3> QED
            BY <2>4, <3>1, QuietFew
    <2>5. ASSUME NEW g, NEW q, y = Run(<<Buttons(g, q)>>)
          PROVE  \A k \in Nat : ~Inserts(y, k)
        <3>1. Buttons(g, q).op # "insert_answer"
            BY PlainStatements
        <3> QED
            BY <2>5, <3>1, QuietFew
    <2> QED
        BY <1>4, <2>1, <2>2, <2>3, <2>4, <2>5
<1> HIDE DEF Plain
<1> QED
    BY <1>1, <1>3, <1>4, ReadDeals

LEMMA VotePairDeals == ASSUME EInv, NEW w \in Workers, VotePair(w) PROVE DealsOK(db', worker')
<1> DEFINE x == worker[w]
           b == [user |-> x.user, token |-> x.token]
           end == [pc |-> "over", game |-> x.game, token |-> x.token, votes |-> x.votes \cup {b}]
<1>1. IInv /\ worker[w].pc # "run" /\ UNCHANGED <<db, chat, failures>>
    BY DEF VotePair, EInv
<1>2. Idle.pc # "run" /\ Dead.pc # "run" /\ end.pc # "run"
    BY DEF Idle, Dead
<1>3. ASSUME NEW q \in Questions, NEW news \in Seq(Statements(db)),
             \A i \in DOMAIN news : IsMessage(news[i]),
             GoOn(w, Run(news \o <<SetVoting(x.game, q), InsertVote(b)>>))
      PROVE  DealsOK(db', worker')
    <2>1. SetVoting(x.game, q).op # "insert_answer" /\ InsertVote(b).op # "insert_answer"
        BY PlainStatements
    <2>2. \A k \in Nat : ~Inserts(Run(news \o <<SetVoting(x.game, q), InsertVote(b)>>), k)
        BY <1>3, <2>1, QuietNews
    <2> QED
        BY <1>1, <1>3, <2>2, ReadDeals
<1> HIDE DEF end
<1>4. CASE GoOn(w, Idle) \/ GoOn(w, Dead) \/ GoOn(w, end)
    BY <1>1, <1>2, <1>4, IdleDeals, ReadDeals
<1> QED
    BY <1>1, <1>3, <1>4, VoteOutcome DEF end

LEMMA GameOverDeals == ASSUME EInv, NEW w \in Workers, GameOver(w) PROVE DealsOK(db', worker')
<1> DEFINE x == worker[w]
           results == RoundResults(x.game, x.token, AnswersOf(db, x.game), x.votes)
           a == Scores(x.game, x.votes)
           b == SetState(x.game, "end")
<1>1. /\ TablesOK(db) /\ x.game \in GameIds(db) /\ x.votes \in SUBSET Ballot(db)
      /\ worker[w].pc # "run" /\ UNCHANGED <<db, chat, failures>>
      /\ GoOn(w, Dead) \/ GoOn(w, Run(results \o <<a, b>>))
    BY CrowdedIsGame DEF GameOver, EInv, IInv, WorkerOK
<1>2. results \in Seq(Statements(db)) /\ \A i \in DOMAIN results : IsMessage(results[i])
    BY <1>1, CopiesOK, RoundResultsOK
<1>3. a.op # "insert_answer" /\ b.op # "insert_answer" /\ Dead.pc # "run"
    BY PlainStatements DEF Dead
<1> HIDE DEF results, a, b
<1>4. \A k \in Nat : ~Inserts(Run(results \o <<a, b>>), k)
    BY <1>2, <1>3, QuietNews
<1> QED
    BY <1>1, <1>3, <1>4, IdleDeals, ReadDeals

LEMMA InitEInv == Init => EInv
<1> SUFFICES ASSUME Init PROVE EInv
    OBVIOUS
<1>1. IInv
    BY InitIInv
<1>2. DOMAIN db.answer = {} /\ \A w \in Workers : worker[w].pc # "run"
    BY DEF Init, EmptyDb, Idle
<1>3. \A w \in Workers, k \in Nat : ~Inserts(worker[w], k)
    BY <1>2, IdleDeals
<1>4. \A g, u : Stored(db, g, u) = {} /\ Pending(worker, g, u) = {}
    BY <1>2, <1>3 DEF Stored, Pending
<1>5. IsFiniteSet({}) /\ Cardinality({}) = 0
    BY FS_EmptySet
<1>6. \A g, u : EvenPrompts(db, worker, g, u)
    <2>1. 0 + 0 = 2 * 0 /\ 0 \in Nat
        OBVIOUS
    <2> QED
        BY <1>4, <1>5, <2>1 DEF EvenPrompts
<1>7. \A g, q, u : ~Prompted(db, worker, g, q, u)
    BY <1>2, <1>3 DEF Prompted
<1> QED
    BY <1>1, <1>6, <1>7 DEF EInv, DealsOK

LEMMA NextEInv == ASSUME NoFailures PROVE EInv /\ [Next]_vars => EInv'
<1> SUFFICES ASSUME EInv, [Next]_vars PROVE EInv'
    OBVIOUS
<1>1. IInv'
    BY NextIInv DEF EInv
<1>2. CASE UNCHANGED vars
    BY <1>1, <1>2 DEF EInv, vars
<1>3. ASSUME NEW w \in Workers PROVE ~Fail(w)
    BY DEF Fail, StatementFails, MessageFails, NoFailures, EInv, IInv
<1>4. ASSUME NEW w \in Workers, Receive(w) PROVE DealsOK(db', worker')
    BY <1>4, ReceiveDeals
<1>5. ASSUME NEW w \in Workers, Step(w) PROVE DealsOK(db', worker')
    BY <1>5, CreateGameDeals, ReadersDeals, BeginDrawKeepsDeals, VotePairDeals, GameOverDeals,
        ExecuteDeals DEF Step
<1> QED
    BY <1>1, <1>2, <1>3, <1>4, <1>5 DEF EInv, Next, Wait

(* As long as no statement fails, every deal that is over gave every player   *)
(* in it two prompts, each with one of another player to the same question:   *)
(* whoever joins, begins or ends the game at the same time, and how often it  *)
(* is dealt.                                                                  *)
THEOREM DealsArePaired == ASSUME NoFailures PROVE Spec => []PromptsArePaired
<1>1. EInv => PromptsArePaired
    <2> SUFFICES ASSUME EInv, AllDone, NEW g \in GameIds(db)
                 PROVE  LET answers == AnswersOf(db, g) IN
                        /\ \A u \in Authors(answers) :
                              Cardinality({t \in DOMAIN answers : answers[t].user = u}) % 2 = 0
                        /\ \A t \in DOMAIN answers :
                              \E s \in Others(t, answers) : answers[s].user # answers[t].user
        BY DEF PromptsArePaired
    <2> DEFINE f == AnswersOf(db, g)
    <2>1. \A w \in Workers, k \in Nat : ~Inserts(worker[w], k)
        BY IdleDeals DEF AllDone
    <2>2. /\ DOMAIN f = TokensOf(db, g)
          /\ \A t \in DOMAIN f : /\ f[t].user = db.answer[t].user
                                 /\ f[t].question = db.answer[t].question
        BY DEF AnswersOf
    <2>3. \A t : t \in DOMAIN f <=> t \in DOMAIN db.answer /\ db.answer[t].game = g
        BY <2>2 DEF TokensOf
    <2> HIDE DEF f
    <2>4. ASSUME NEW u PROVE Cardinality({t \in DOMAIN f : f[t].user = u}) % 2 = 0
        <3>1. {t \in DOMAIN f : f[t].user = u} = Stored(db, g, u)
            BY <2>2, <2>3 DEF Stored
        <3>2. Pending(worker, g, u) = {}
            BY <2>1 DEF Pending
        <3>3. EvenPrompts(db, worker, g, u)
            BY DEF EInv, DealsOK
        <3>4. PICK n \in Nat :
                  Cardinality(Stored(db, g, u)) + Cardinality(Pending(worker, g, u)) = 2 * n
            BY <3>3 DEF EvenPrompts
        <3>5. Cardinality(Pending(worker, g, u)) = 0 /\ Cardinality(Stored(db, g, u)) \in Nat
            BY <3>2, <3>3, FS_EmptySet, FS_CardinalityType DEF EvenPrompts
        <3>6. Cardinality(Stored(db, g, u)) = 2 * n
            BY <3>4, <3>5
        <3>7. (2 * n) % 2 = 0
            OBVIOUS
        <3> QED
            BY <3>1, <3>6, <3>7
    <2>5. ASSUME NEW t \in DOMAIN f PROVE \E s \in Others(t, f) : f[s].user # f[t].user
        <3> DEFINE q == f[t].question
        <3>1. Prompted(db, worker, g, q, f[t].user)
            BY <2>2, <2>3 DEF Prompted
        <3>2. PICK o : o # f[t].user /\ Prompted(db, worker, g, q, o)
            BY <3>1 DEF EInv, DealsOK
        <3>3. PICK s \in DOMAIN db.answer :
                  db.answer[s].game = g /\ db.answer[s].question = q /\ db.answer[s].user = o
            BY <2>1, <3>2 DEF Prompted
        <3>4. s \in DOMAIN f /\ f[s].question = f[t].question /\ f[s].user = o
            BY <2>2, <2>3, <3>3
        <3> QED
            BY <3>2, <3>4 DEF Others
    <2> QED
        BY <2>4, <2>5 DEF f
<1>2. EInv /\ [Next]_vars => EInv'
    BY NextEInv
<1> QED
    BY <1>1, <1>2, InitEInv, PTL DEF Spec
===============================================================================
