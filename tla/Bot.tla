---------------------------------- MODULE Bot ----------------------------------
(***************************************************************************)
(* The bot as it runs: the workers of the thread pool handle requests of    *)
(* one chat group at the same time, each over its own connection to one     *)
(* PostgreSQL database.  There is no lock and no transaction: every SELECT  *)
(* and every INSERT or UPDATE is a step of its own, and a handler works     *)
(* from the copy its SELECTs left it.                                       *)
(*                                                                         *)
(* A handler is: one action that receives the request and finds the running *)
(* game (Dao::find_running), one action per further SELECT whose rows it    *)
(* uses, of which the last one also computes, in memory, the statements to  *)
(* execute (`todo'), and then one action per statement (Execute).           *)
(* The messages of a round (its buttons, its results, the final scores) are *)
(* in `todo' at their place among the statements; `chat' records those that *)
(* were sent, and only the pressing of a vote button depends on it.  Where  *)
(* a statement or a message fails, the handler stops (Fail); where          *)
(* composing a message panics, the worker dies (`dead').  Statements that   *)
(* cannot change anything (an INSERT of a row known to be there with ON     *)
(* CONFLICT DO NOTHING, the *_started time stamps, users that are saved     *)
(* again) and the other messages, which are a handler's last step or all it *)
(* does, are no steps.                                                      *)
(***************************************************************************)
EXTENDS GameRules, Functions, Sequences

CONSTANTS
    Users,          \* Telegram users of the group
    Questions,      \* the questions find_random can draw
    Responses,      \* what a player can type
    NoQuestion,     \* current_question_id IS NULL
    Workers,        \* threads of the pool
    Kinds,          \* the kinds of requests that arrive
    Repeats,        \* FALSE: only draws without a repeated question
    MaxGames,       \* bound on the rows of game
    MaxAnswers,     \* bound on the rows of answer
    MaxFailures     \* bound on failing statements and messages

ASSUME BotAssumption ==
    /\ NoResponse \notin Responses
    /\ NoQuestion \notin Questions
    /\ Kinds \subseteq {"new", "join", "begin", "post", "vote", "end", "status"}
    /\ Repeats \in BOOLEAN
    /\ {MaxGames, MaxAnswers, MaxFailures} \subseteq Nat
    /\ IsFiniteSet(Users)

(* Mutant: off by one. *)
TwoPlayers == 2

MinPlayers == 3

VARIABLES
    db,         \* the tables: game, game_user, answer, vote
    worker,     \* what each worker is doing
    chat,       \* the messages of the rounds that were sent
    failures    \* how often a statement or a message has failed

vars == <<db, worker, chat, failures>>

-------------------------------------------------------------------------------
(* The tables.  game and answer are sequences: the position is the id (and,  *)
(* for an answer, stands for its token, which nobody learns before the row   *)
(* is there).  game_user and vote are sets: their keys are unique.           *)
EmptyDb == [game |-> <<>>, game_user |-> {}, answer |-> <<>>, vote |-> {}]

GameIds(d) == DOMAIN d.game

Running(d) == {g \in GameIds(d) : d.game[g].state # "end"}

UsersOf(d, g) == {u \in Users : <<g, u>> \in d.game_user}

TokensOf(d, g) == {t \in DOMAIN d.answer : d.answer[t].game = g}

(* Mutant: the responses are not read. *)
PromptsOf(d, g) ==
    [t \in TokensOf(d, g) |->
        [user |-> d.answer[t].user, question |-> d.answer[t].question,
         response |-> NoResponse]]

(* answer::Dao::find *)
AnswersOf(d, g) ==
    [t \in TokensOf(d, g) |->
        [user |-> d.answer[t].user, question |-> d.answer[t].question,
         response |-> d.answer[t].response]]

(* vote::Dao::find *)
VotesOf(d, g) == {v \in d.vote : v.token \in TokensOf(d, g)}

(* The two rows gather_votes takes for the current question, in any order. *)
PairsOf(d, g) == Pairs(d.game[g].question, AnswersOf(d, g))

(* The statements, and what each does to the tables.  UpdateAnswers is one    *)
(* UPDATE per row, a step each (see Left): `rows' maps the tokens of the rows *)
(* that are not written yet to their responses.                               *)
InsertGame == [op |-> "insert_game"]
InsertUser(g, u) == [op |-> "insert_user", game |-> g, user |-> u]
SetState(g, s) == [op |-> "set_state", game |-> g, state |-> s]
SetVoting(g, q) == [op |-> "set_voting", game |-> g, question |-> q]
InsertAnswer(row) == [op |-> "insert_answer", row |-> row]
UpdateAnswers(rows) == [op |-> "update_answers", rows |-> rows]
InsertVote(v) == [op |-> "insert_vote", vote |-> v]

(* The messages, by what the properties tell apart: whose buttons are shown, *)
(* and which votes a result or the final scores count.                      *)
Buttons(g, q) == [op |-> "buttons", game |-> g, question |-> q]
Results(g, q, vs) == [op |-> "results", game |-> g, question |-> q, votes |-> vs]
Scores(g, vs) == [op |-> "scores", game |-> g, votes |-> vs]

IsMessage(s) == s.op \in {"buttons", "results", "scores"}

Apply(d, s) ==
    CASE s.op = "insert_game" ->
            [d EXCEPT !.game = Append(@, [state |-> "gather_users", question |-> NoQuestion])]
      [] s.op = "insert_user" -> [d EXCEPT !.game_user = @ \cup {<<s.game, s.user>>}]
      [] s.op = "set_state" -> [d EXCEPT !.game[s.game].state = s.state]
      [] s.op = "set_voting" ->
            [d EXCEPT !.game[s.game] = [state |-> "gather_votes", question |-> s.question]]
      [] s.op = "insert_answer" -> [d EXCEPT !.answer = Append(@, s.row)]
      [] s.op = "update_answers" ->
            LET t == Min(DOMAIN s.rows) IN [d EXCEPT !.answer[t].response = s.rows[t]]
      [] s.op = "insert_vote" -> [d EXCEPT !.vote = @ \cup {s.vote}]
      [] IsMessage(s) -> d

-------------------------------------------------------------------------------
(* The workers.                                                             *)
Idle == [pc |-> "idle"]
Dead == [pc |-> "dead"]

Init ==
    /\ db = EmptyDb
    /\ worker = [w \in Workers |-> Idle]
    /\ chat = {}
    /\ failures = 0

(* Worker w goes on with x: a later SELECT, statements to execute, Idle, Dead. *)
GoOn(w, x) == worker' = [worker EXCEPT ![w] = x]

Run(todo) == [pc |-> "run", todo |-> todo]

(* w receives a request and finds a running game, any if there are several, *)
(* from whose state the handler does not return at once.                    *)
Find(w, kind, g, states) ==
    /\ kind \in Kinds
    /\ worker[w].pc = "idle"
    /\ g \in Running(db)
    /\ db.game[g].state \in states
    /\ UNCHANGED <<db, chat, failures>>

(* Mutant: a running game is not looked for. *)
FindNewAlways(w, u) ==
    /\ "new" \in Kinds
    /\ worker[w].pc = "idle"
    /\ Len(db.game) + Cardinality({v \in Workers : worker[v].pc = "create"}) < MaxGames
    /\ GoOn(w, [pc |-> "create", user |-> u])
    /\ UNCHANGED <<db, chat, failures>>

(* /new *)
FindNew(w, u) ==
    /\ "new" \in Kinds
    /\ worker[w].pc = "idle"
    /\ Running(db) = {}
    /\ Len(db.game) + Cardinality({v \in Workers : worker[v].pc = "create"}) < MaxGames
    /\ GoOn(w, [pc |-> "create", user |-> u])
    /\ UNCHANGED <<db, chat, failures>>

(* Mutant: the host joins the game before. *)
CreateGameOffByOne(w) ==
    /\ worker[w].pc = "create"
    /\ db' = Apply(db, InsertGame)
    /\ GoOn(w, Run(<<InsertUser(Len(db.game), worker[w].user)>>))
    /\ UNCHANGED <<chat, failures>>

(* persist_new: INSERT INTO game ... RETURNING id, which the next statement *)
(* needs.                                                                   *)
CreateGame(w) ==
    /\ worker[w].pc = "create"
    /\ db' = Apply(db, InsertGame)
    /\ GoOn(w, Run(<<InsertUser(Len(db.game) + 1, worker[w].user)>>))
    /\ UNCHANGED <<chat, failures>>

(* Mutant: joining is not refused once the game has begun. *)
FindJoinAnytime(w, u) ==
    \E g \in Running(db) :
        /\ Find(w, "join", g, {"gather_users", "gather_answers"})
        /\ GoOn(w, [pc |-> "join", game |-> g, user |-> u])

(* The Join button: the users are read, the new one is added. *)
FindJoin(w, u) ==
    \E g \in Running(db) :
        /\ Find(w, "join", g, {"gather_users"})
        /\ GoOn(w, [pc |-> "join", game |-> g, user |-> u])

Join(w) ==
    LET x == worker[w] IN
    /\ x.pc = "join"
    /\ IF x.user \in UsersOf(db, x.game)
       THEN GoOn(w, Idle)
       ELSE GoOn(w, Run(<<SetState(x.game, "gather_users"), InsertUser(x.game, x.user)>>))
    /\ UNCHANGED <<db, chat, failures>>

(* /begin: the users are read, in any order, then they are counted again and *)
(* as many questions drawn.  A user who joined in between has no place in    *)
(* the order that was read, and users.get(i).unwrap() panics.                *)
FindBegin(w) ==
    \E g \in Running(db) :
        /\ Find(w, "begin", g, {"gather_users"})
        /\ Len(db.answer) + 2 * Cardinality(UsersOf(db, g)) =< MaxAnswers
        /\ GoOn(w, [pc |-> "begin", game |-> g])

BeginUsers(w) ==
    LET x == worker[w]
        players == UsersOf(db, x.game)
    IN  /\ x.pc = "begin"
        /\ \E order \in Bijection(1 .. Cardinality(players), players) :
               GoOn(w, [pc |-> "draw", game |-> x.game, order |-> order])
        /\ UNCHANGED <<db, chat, failures>>

Draws(n) == {d \in [1 .. n -> Questions] : Repeats \/ IsInjective(d)}

DealRows(g, order, draw) ==
    LET dealt == Deal(order, draw, 0)
    IN  [k \in DOMAIN dealt |->
            InsertAnswer([game |-> g, user |-> dealt[k].user,
                          question |-> dealt[k].question, response |-> NoResponse])]

BeginDraw(w) ==
    LET x == worker[w]
        count == Cardinality(UsersOf(db, x.game))
    IN  /\ x.pc = "draw"
        /\ \/ Len(x.order) < MinPlayers /\ GoOn(w, Idle)
           \/ Len(x.order) >= MinPlayers /\ Len(x.order) < count /\ GoOn(w, Dead)
           \/ /\ Len(x.order) >= MinPlayers /\ Len(x.order) = count
              /\ \E draw \in Draws(count) :
                    GoOn(w, Run(<<SetState(x.game, "gather_answers")>>
                                \o DealRows(x.game, x.order, draw)))
        /\ UNCHANGED <<db, chat, failures>>

(* POST /app with a token and a response: the answers are read, one is       *)
(* filled, and all of them are written back.  The last one also opens the    *)
(* voting, which is saved before the answers are and shown after both.       *)
FindPost(w, t, r) ==
    \E g \in Running(db) :
        /\ Find(w, "post", g, {"gather_answers"})
        /\ GoOn(w, [pc |-> "post", game |-> g, token |-> t, response |-> r])

(* Mutant: off by one, the last answer is not written. *)
SaveAllButLast(answers) ==
    UpdateAnswers([t \in DOMAIN answers \ {Max(DOMAIN answers)} |-> answers[t].response])

SaveAll(answers) == UpdateAnswers([t \in DOMAIN answers |-> answers[t].response])

Post(w) ==
    LET x == worker[w]
        read == AnswersOf(db, x.game)
        filled == [read EXCEPT ![AnswerTarget(x.token, read)].response = x.response]
        a == NextAnswer(filled, {})
    IN  /\ x.pc = "post"
        /\ \/ ~CanAnswer(x.token, read) /\ GoOn(w, Idle)
           \/ /\ CanAnswer(x.token, read)
              /\ ~AllAnswersAreIn(filled)
              /\ GoOn(w, Run(<<SetState(x.game, "gather_answers"), SaveAll(filled)>>))
           \/ /\ CanAnswer(x.token, read)
              /\ AllAnswersAreIn(filled)
              /\ IF NextPanics(filled, {})
                 THEN GoOn(w, Dead)
                 ELSE GoOn(w, Run(<<SetVoting(x.game, filled[a].question),
                                    SaveAll(filled),
                                    Buttons(x.game, filled[a].question)>>))
        /\ UNCHANGED <<db, chat, failures>>

(* A vote button, of any message that was sent: the answers, the votes and    *)
(* the pair are read one after the other.  The error find_running returns    *)
(* when there is no pair to read is left out: PairIsThere is that it does     *)
(* not happen.                                                               *)
FindVote(w, u, t) ==
    \E g \in Running(db) :
        /\ Buttons(db.answer[t].game, db.answer[t].question) \in chat
        /\ Find(w, "vote", g, {"gather_votes"})
        /\ GoOn(w, [pc |-> "vote", game |-> g, user |-> u, token |-> t])

VoteAnswers(w) ==
    LET x == worker[w] IN
    /\ x.pc = "vote"
    /\ GoOn(w, [pc |-> "votes", game |-> x.game, user |-> x.user, token |-> x.token,
                answers |-> AnswersOf(db, x.game)])
    /\ UNCHANGED <<db, chat, failures>>

VoteVotes(w) ==
    LET x == worker[w] IN
    /\ x.pc = "votes"
    /\ GoOn(w, [pc |-> "pair", game |-> x.game, user |-> x.user, token |-> x.token,
                answers |-> x.answers, votes |-> VotesOf(db, x.game)])
    /\ UNCHANGED <<db, chat, failures>>

(* The round results are composed from the answers that were read: the       *)
(* chosen one and the first other one.  A missing response panics.           *)
ResultsPanic(t, answers) ==
    /\ Others(t, answers) # {}
    /\ \E s \in {t, Min(Others(t, answers))} : ~Answered(answers, s)

(* None are sent of a question with one prompt. *)
RoundResults(g, t, answers, votes) ==
    IF Others(t, answers) = {} THEN <<>>
    ELSE LET shown == {t, Min(Others(t, answers))}
         IN  <<Results(g, answers[t].question, {v \in votes : v.token \in shown})>>

(* Mutant: the vote is stored before the question is. *)
SaveVoteFirst(g, question, vote) == <<InsertVote(vote), SetVoting(g, question)>>

SaveVote(g, question, vote) == <<SetVoting(g, question), InsertVote(vote)>>

(* Mutant: the game is saved before it is announced. *)
SaveThenAnnounce(news, save) == save \o news

(* The messages go out before anything is saved. *)
AnnounceThenSave(news, save) == news \o save

(* The outcome of a vote that was accepted for `pair'; x.answers and votes   *)
(* are what the handler has in memory.  The results and the pair to vote on  *)
(* next go out when that pair does not start with the chosen answer.         *)
VoteCounted(w, x, pair, votes) ==
    LET over == AllVotesAreIn(x.answers, votes)
        closed == CurrentVotesAreIn(pair, x.answers, votes)
        first == IF closed THEN NextAnswer(x.answers, votes) ELSE pair[1].token
        question == IF closed THEN x.answers[first].question ELSE pair[1].question
        panics == \/ \E v \in votes : v.token \notin DOMAIN x.answers
                  \/ ~over /\ closed /\ NextPanics(x.answers, votes)
                  \/ ~over /\ first # x.token /\ ResultsPanic(x.token, x.answers)
        news == IF first = x.token THEN <<>>
                ELSE RoundResults(x.game, x.token, x.answers, votes)
                     \o <<Buttons(x.game, question)>>
        save == SaveVote(x.game, question, [user |-> x.user, token |-> x.token])
    IN  GoOn(w, IF panics THEN Dead
                ELSE IF over
                THEN [pc |-> "over", game |-> x.game, token |-> x.token, votes |-> votes]
                ELSE Run(AnnounceThenSave(news, save)))

VotePair(w) ==
    LET x == worker[w] IN
    /\ x.pc = "pair"
    /\ \E pair \in PairsOf(db, x.game) :
        IF VoteAccepted(x.user, x.token, pair, x.answers, x.votes)
        THEN VoteCounted(w, x, pair, x.votes \cup {[user |-> x.user, token |-> x.token]})
        ELSE GoOn(w, Idle)
    /\ UNCHANGED <<db, chat, failures>>

(* Mutant: the votes that are stored are counted, not the one at hand. *)
GameOverStored(w) ==
    LET x == worker[w]
        answers == AnswersOf(db, x.game)
    IN  /\ x.pc = "over"
        /\ GoOn(w, IF ResultsPanic(x.token, answers) THEN Dead
                   ELSE Run(RoundResults(x.game, x.token, answers, x.votes)
                            \o <<Scores(x.game, VotesOf(db, x.game)), SetState(x.game, "end")>>))
        /\ UNCHANGED <<db, chat, failures>>

(* The game is over: the answers are read again for the results, the scores  *)
(* are sent and the game is ended.  No vote is stored.                       *)
GameOver(w) ==
    LET x == worker[w]
        answers == AnswersOf(db, x.game)
    IN  /\ x.pc = "over"
        /\ GoOn(w, IF ResultsPanic(x.token, answers) THEN Dead
                   ELSE Run(RoundResults(x.game, x.token, answers, x.votes)
                            \o <<Scores(x.game, x.votes), SetState(x.game, "end")>>))
        /\ UNCHANGED <<db, chat, failures>>

(* /end *)
FindEnd(w) ==
    \E g \in Running(db) :
        /\ Find(w, "end", g, {"gather_users", "gather_answers", "gather_votes"})
        /\ GoOn(w, Run(<<SetState(g, "end")>>))

(* /status: while a game waits for votes the pair is read, and its buttons    *)
(* are sent again.  What is sent in the other states is not in `chat'.        *)
FindStatus(w) ==
    \E g \in Running(db) :
        /\ Find(w, "status", g, {"gather_votes"})
        /\ GoOn(w, [pc |-> "status", game |-> g])

Status(w) ==
    LET g == worker[w].game IN
    /\ worker[w].pc = "status"
    /\ GoOn(w, IF PairsOf(db, g) = {} THEN Idle
               ELSE Run(<<Buttons(g, db.game[g].question)>>))
    /\ UNCHANGED <<db, chat, failures>>

(* What is left to do after the next statement: the rows after the first one, *)
(* in the order of their ids, before anything else.                           *)
Left(todo) ==
    LET rows == Head(todo).rows
        others == DOMAIN rows \ {Min(DOMAIN rows)}
    IN  IF Head(todo).op = "update_answers" /\ others # {}
        THEN <<UpdateAnswers(Restrict(rows, others))>> \o Tail(todo)
        ELSE Tail(todo)

(* The next statement or message of w. *)
Execute(w) ==
    LET todo == worker[w].todo IN
    /\ worker[w].pc = "run"
    /\ db' = Apply(db, Head(todo))
    /\ chat' = IF IsMessage(Head(todo)) THEN chat \cup {Head(todo)} ELSE chat
    /\ GoOn(w, IF Left(todo) = <<>> THEN Idle ELSE Run(Left(todo)))
    /\ UNCHANGED failures

(* A statement fails: the handler returns the error, the worker is free again *)
(* and the rest of its statements are not executed.  (If the statement was    *)
(* executed and only its answer is lost, that is a failure of the next one.)  *)
StatementFails(w) ==
    /\ worker[w].pc = "run"
    /\ ~IsMessage(Head(worker[w].todo))
    /\ failures < MaxFailures
    /\ failures' = failures + 1
    /\ GoOn(w, Idle)
    /\ UNCHANGED <<db, chat>>

(* So does a message: Telegram is not reached, or its answer is lost, is no   *)
(* 200 or cannot be parsed, whether or not the group has received it.         *)
MessageFails(w) ==
    LET todo == worker[w].todo IN
    /\ worker[w].pc = "run"
    /\ IsMessage(Head(todo))
    /\ failures < MaxFailures
    /\ failures' = failures + 1
    /\ chat' \in {chat, chat \cup {Head(todo)}}
    /\ GoOn(w, Idle)
    /\ UNCHANGED db

Fail(w) == StatementFails(w) \/ MessageFails(w)

Receive(w) ==
    \/ \E u \in Users : FindNew(w, u)
    \/ \E u \in Users : FindJoin(w, u)
    \/ FindBegin(w)
    \/ \E t \in DOMAIN db.answer, r \in Responses : FindPost(w, t, r)
    \/ \E u \in Users, t \in DOMAIN db.answer : FindVote(w, u, t)
    \/ FindEnd(w)
    \/ FindStatus(w)

Step(w) ==
    \/ CreateGame(w)
    \/ Join(w)
    \/ BeginUsers(w)
    \/ BeginDraw(w)
    \/ Post(w)
    \/ VoteAnswers(w)
    \/ VoteVotes(w)
    \/ VotePair(w)
    \/ GameOver(w)
    \/ Status(w)
    \/ Execute(w)

AllDone == \A w \in Workers : worker[w].pc \in {"idle", "dead"}

(* Nobody sends a request: the bot waits.  A step that changes nothing, it   *)
(* keeps the deadlock check to workers that have a request and cannot go on. *)
Wait ==
    /\ AllDone
    /\ UNCHANGED vars

Next == Wait \/ \E w \in Workers : Receive(w) \/ Step(w) \/ Fail(w)

Spec == Init /\ [][Next]_vars

Voting == {g \in GameIds(db) : db.game[g].state = "gather_votes"}

OnShow(g) == Buttons(g, db.game[g].question) \in chat

(* Some player who is still to vote on the pair on show presses one of its   *)
(* buttons.                                                                  *)
VoteOnShow ==
    \E w \in Workers, u \in Users, t \in DOMAIN db.answer :
        /\ FindVote(w, u, t)
        /\ \E g \in Voting : OnShow(g) /\ \E pair \in PairsOf(db, g) :
              /\ t \in Tokens(pair)
              /\ u \in RemainingVotes(pair, AnswersOf(db, g), VotesOf(db, g))

(* With no buttons to press, somebody asks for the status. *)
AskStatus == (\E g \in Voting : ~OnShow(g)) /\ \E w \in Workers : FindStatus(w)

(* Workers run; as long as somebody is to vote, somebody presses a button in  *)
(* the end, also again, or asks for one: that takes an idle worker.           *)
Fairness ==
    /\ \A w \in Workers : WF_vars(Step(w))
    /\ SF_vars(VoteOnShow)
    /\ SF_vars(AskStatus)

-------------------------------------------------------------------------------
States == {"gather_users", "gather_answers", "gather_votes", "end"}

AnswerRow ==
    [game : GameIds(db), user : Users, question : Questions,
     response : Responses \cup {NoResponse}]

(* Type invariant: the rows have the types of ddl.sql and refer to rows that *)
(* are there.                                                                *)
TypeOK ==
    /\ db.game \in Seq([state : States, question : Questions \cup {NoQuestion}])
    /\ db.game_user \subseteq GameIds(db) \X Users
    /\ db.answer \in Seq(AnswerRow)
    /\ db.vote \subseteq [user : Users, token : DOMAIN db.answer]
    /\ \A w \in Workers : worker[w].pc \in
          {"idle", "dead", "create", "join", "begin", "draw", "post",
           "vote", "votes", "pair", "over", "status", "run"}
    /\ failures \in 0 .. MaxFailures

Playing == {g \in GameIds(db) : db.game[g].state \in {"gather_answers", "gather_votes"}}

(* "Cannot start a new game, game already exists": a group has one game at a *)
(* time, since every handler takes whichever running game it finds first.    *)
OneRunningGame == Cardinality(Running(db)) =< 1

(* "You need at least 3 players to start the game". *)
EnoughPlayers == \A g \in Playing : Cardinality(UsersOf(db, g)) >= 3

(* Only players vote, and none of them on a question they were prompted      *)
(* with, whatever the order in which the answers, the votes and the pair     *)
(* were read.                                                                *)
OnlyOthersVote ==
    \A v \in db.vote :
        LET g == db.answer[v.token].game
            q == db.answer[v.token].question
        IN  /\ v.user \in UsersOf(db, g)
            /\ \A t \in TokensOf(db, g) :
                  db.answer[t].question = q => db.answer[t].user # v.user

(* "You can only vote once per question": no user has votes on two answers   *)
(* to one question of a game.                                                *)
OneVotePerQuestion ==
    \A v, w \in db.vote :
        /\ v.user = w.user
        /\ db.answer[v.token].game = db.answer[w.token].game
        /\ db.answer[v.token].question = db.answer[w.token].question
        => v = w

(* However joins and begins meet, also when a game is dealt twice: each deal  *)
(* that is over gave every player in it two prompts, and every prompt has one *)
(* of another player to the same question.                                    *)
PromptsArePaired ==
    AllDone =>
        \A g \in GameIds(db) : LET answers == AnswersOf(db, g) IN
            /\ \A u \in Authors(answers) :
                  Cardinality({t \in DOMAIN answers : answers[t].user = u}) % 2 = 0
            /\ \A t \in DOMAIN answers :
                  \E s \in Others(t, answers) : answers[s].user # answers[t].user

(* The pair of the current question can be read: Dao::find_running fails for *)
(* every request, /end included, when it finds fewer than two rows.          *)
PairIsThere == \A g \in Voting : PairsOf(db, g) # {}

(* With all workers done, a game under way waits for something that can      *)
(* happen: a prompt nobody has answered, or a vote somebody may still cast.  *)
(* Otherwise every answer or vote is refused and only /end is left.          *)
NeverHangs ==
    AllDone =>
        \A g \in Playing :
            LET answers == AnswersOf(db, g) IN
            IF g \in Voting
            THEN \E pair \in PairsOf(db, g) : RemainingVotes(pair, answers, VotesOf(db, g)) # {}
            ELSE ~AllAnswersAreIn(answers)

(* No handler panics: the pool never replaces a worker that did. *)
NobodyPanics == \A w \in Workers : worker[w].pc # "dead"

(* A round that is over was announced: of a question that has votes and is no *)
(* longer on show, results were sent that count them all.  The handlers send  *)
(* first and save after, so that a failure repeats results rather than        *)
(* leaving them out.                                                          *)
ClosedRoundsAnnounced ==
    \A g \in Voting :
        LET answers == AnswersOf(db, g)
            votes == VotesOf(db, g)
        IN  \A q \in VotedQuestions(answers, votes) \ {db.game[g].question} :
                \E m \in chat :
                    /\ m.op = "results" /\ m.game = g /\ m.question = q
                    /\ {v \in votes : answers[v.token].question = q} \subseteq m.votes

(* Once the voting is under way the buttons of the question the game waits    *)
(* for were sent before it waits for it.  Only the first pair, which is sent  *)
(* after it is saved, may be missing.                                        *)
RoundOnShow == \A g \in Voting : VotesOf(db, g) # {} => OnShow(g)

(* A game that ended with scores ended with true ones: they count every vote  *)
(* that is stored, and votes on every question, though the last vote is only  *)
(* ever counted in memory and failures make players vote again.               *)
ScoresAreTrue ==
    \A g \in GameIds(db) :
        LET announced == {m \in chat : m.op = "scores" /\ m.game = g}
            answers == AnswersOf(db, g)
        IN  db.game[g].state = "end" /\ announced # {} =>
                \E m \in announced :
                    /\ VotesOf(db, g) \subseteq m.votes
                    /\ VotedQuestions(answers, m.votes) = AskedQuestions(answers)

(* A response that was stored stays as it is. *)
ResponsesKept ==
    [][\A t \in DOMAIN db.answer :
          db.answer[t].response # NoResponse =>
              db'.answer[t].response = db.answer[t].response]_vars

(* A failure is made up for by voting again, buttons that were not sent by    *)
(* /status: with players who do, the votes come to their end.                 *)
VotingEnds == Voting # {} ~> Voting = {}

Stage(s) ==
    CASE s = "gather_users" -> 1 [] s = "gather_answers" -> 2
      [] s = "gather_votes" -> 3 [] s = "end" -> 4

(* A game only moves forward: once begun nobody joins it, and once ended it   *)
(* stays ended.                                                               *)
OnlyForward ==
    [][\A g \in GameIds(db) : Stage(db.game[g].state) =< Stage(db'.game[g].state)]_vars
================================================================================
