---------------------------- MODULE BotSerialProofs ----------------------------
(***************************************************************************)
(* Theorems about Bot with a thread pool of one worker, whatever fails: one  *)
(* handler is over before the next one reads, but it may stop after any of   *)
(* its statements.  (With two workers TLC finds all of this violated.)       *)
(***************************************************************************)
EXTENDS BotProofs

-------------------------------------------------------------------------------
(* The inductive invariant.  What the worker will execute agrees with the    *)
(* tables: it moves a game forward, and writes back what is stored.          *)

MovesGame(s) == s.op \in {"set_state", "set_voting"}
Writes(s) == s.op = "update_answers"

Fits(d, s) ==
    /\ s.op = "set_state" => Stage(d.game[s.game].state) =< Stage(s.state)
    /\ s.op = "set_voting" => Stage(d.game[s.game].state) =< Stage("gather_votes")
    /\ Writes(s) => \A t \in DOMAIN s.rows :
          d.answer[t].response # NoResponse => s.rows[t] = d.answer[t].response

(* Two statements of which the first may spoil the second. *)
Clash(s, t) == (MovesGame(s) /\ MovesGame(t)) \/ (Writes(s) /\ Writes(t))

TodoFits(d, todo) ==
    /\ \A i \in DOMAIN todo : Fits(d, todo[i])
    /\ \A i, j \in DOMAIN todo : i # j => ~Clash(todo[i], todo[j])

(* The state in which a handler found its game is still the game's state. *)
WorkerFits(d, x) ==
    /\ x.pc = "create" => Running(d) = {}
    /\ x.pc \in {"join", "begin", "draw"} => d.game[x.game].state = "gather_users"
    /\ x.pc = "post" => d.game[x.game].state = "gather_answers"
    /\ x.pc \in {"vote", "votes", "pair", "over"} => d.game[x.game].state = "gather_votes"
    /\ x.pc = "run" => TodoFits(d, x.todo)

OneRunning(d) == \A g, h \in Running(d) : g = h

SInv ==
    /\ OneRunning(db)
    /\ \A w \in Workers : WorkerFits(db, worker[w])

-------------------------------------------------------------------------------
(* What a statement that fits does to the tables.                           *)

LEMMA Stages ==
    /\ \A s \in States : Stage(s) \in 1 .. 4 /\ (Stage(s) = 4 <=> s = "end")
    /\ Stage("gather_users") = 1 /\ Stage("gather_answers") = 2
    /\ Stage("gather_votes") = 3 /\ Stage("end") = 4
BY DEF States, Stage

LEMMA StateOfGame == ASSUME NEW d, TablesOK(d), NEW g \in GameIds(d) PROVE d.game[g].state \in States
<1>1. d.game[g] \in GameRow
    BY DEF TablesOK, GameIds
<1> QED
    BY <1>1 DEF GameRow

(* All that the properties below ask of a change of the tables. *)
MovesOn(d, e) ==
    /\ GameIds(e) = GameIds(d)
    /\ \A g \in GameIds(d) : Stage(d.game[g].state) =< Stage(e.game[g].state)
    /\ \A t \in DOMAIN d.answer :
          d.answer[t].response # NoResponse => e.answer[t].response = d.answer[t].response

SameState(d, e) == \A g \in GameIds(d) : e.game[g].state = d.game[g].state

SameRows(d, e, T) == \A t \in T : e.answer[t] = d.answer[t]

Effect(d, s, e) ==
    /\ MovesOn(d, e)
    /\ ~MovesGame(s) => SameState(d, e)
    /\ ~Writes(s) => SameRows(d, e, DOMAIN d.answer)
    /\ Writes(s) => SameRows(d, e, DOMAIN d.answer \ {Min(DOMAIN s.rows)})

LEMMA QuietEffect ==
    ASSUME NEW d, TablesOK(d), NEW s, NEW e, e.game = d.game,
           \A t \in DOMAIN d.answer : e.answer[t] = d.answer[t], ~Writes(s)
    PROVE  Effect(d, s, e)
<1>1. \A g \in GameIds(d) : Stage(d.game[g].state) =< Stage(e.game[g].state)
    BY Stages, StateOfGame
<1> QED
    BY <1>1 DEF Effect, MovesOn, SameState, SameRows, GameIds

LEMMA MoveEffect ==
    ASSUME NEW d, TablesOK(d), NEW s, NEW e, NEW g \in GameIds(d), NEW row,
           e.game = [d.game EXCEPT ![g] = row], e.answer = d.answer,
           row.state \in States, Stage(d.game[g].state) =< Stage(row.state),
           MovesGame(s)
    PROVE  Effect(d, s, e)
<1>1. ~Writes(s)
    BY DEF MovesGame, Writes
<1>2. /\ GameIds(e) = GameIds(d)
      /\ \A h \in GameIds(d) : e.game[h] = IF h = g THEN row ELSE d.game[h]
    <2>1. d.game \in Seq(GameRow)
        BY DEF TablesOK
    <2> QED
        BY <2>1 DEF GameIds
<1>3. \A h \in GameIds(d) : Stage(d.game[h].state) =< Stage(e.game[h].state)
    BY <1>2, Stages, StateOfGame
<1> QED
    BY <1>1, <1>2, <1>3 DEF Effect, MovesOn, SameRows

LEMMA WriteEffect ==
    ASSUME NEW d, TablesOK(d), NEW rows \in Updates(d), Fits(d, UpdateAnswers(rows)),
           NEW e, e = Apply(d, UpdateAnswers(rows))
    PROVE  Effect(d, UpdateAnswers(rows), e)
<1> DEFINE m == Min(DOMAIN rows)
           row == [d.answer[m] EXCEPT !.response = rows[m]]
           s == UpdateAnswers(rows)
<1>1. e = [game |-> d.game, game_user |-> d.game_user,
           answer |-> [d.answer EXCEPT ![m] = row], vote |-> d.vote]
    BY Applied
<1>2. m \in DOMAIN rows /\ m \in DOMAIN d.answer
    BY FirstRow
<1>3. d.answer[m] \in Row(d) /\ row.response = rows[m]
    <2>1. d.answer[m] \in Row(d)
        BY <1>2 DEF TablesOK
    <2> QED
        BY <2>1 DEF Row
<1>4. s.op = "update_answers" /\ s.rows = rows
    BY DEF UpdateAnswers
<1>5. d.answer[m].response # NoResponse => rows[m] = d.answer[m].response
    BY <1>2, <1>4 DEF Fits, Writes
<1> HIDE DEF m, row, s
<1>6. /\ e.game = d.game
      /\ \A t \in DOMAIN d.answer : e.answer[t] = IF t = m THEN row ELSE d.answer[t]
    <2>1. e.answer = [d.answer EXCEPT ![m] = row] /\ e.game = d.game
        BY <1>1
    <2>2. d.answer \in Seq(Row(d))
        BY DEF TablesOK
    <2> QED
        BY <2>1, <2>2
<1>7. \A g \in GameIds(d) : Stage(d.game[g].state) =< Stage(e.game[g].state)
    BY <1>6, Stages, StateOfGame
<1>8. \A t \in DOMAIN d.answer :
          d.answer[t].response # NoResponse => e.answer[t].response = d.answer[t].response
    BY <1>3, <1>5, <1>6
<1>9. MovesOn(d, e) /\ SameState(d, e) /\ SameRows(d, e, DOMAIN d.answer \ {m})
    BY <1>6, <1>7, <1>8 DEF MovesOn, SameState, SameRows, GameIds
<1> QED
    BY <1>4, <1>9 DEF Effect, MovesGame, Writes, m, s

LEMMA StatementEffect ==
    ASSUME NEW d, TablesOK(d), NEW s \in Statements(d), Fits(d, s)
    PROVE  Effect(d, s, Apply(d, s))
<1> DEFINE e == Apply(d, s)
<1>1. \/ \E g \in GameIds(d), u \in Users : s = InsertUser(g, u)
      \/ \E g \in GameIds(d), st \in States : s = SetState(g, st)
      \/ \E p \in Votable(d) : s = SetVoting(p[1], p[2])
      \/ \E row \in Row(d) : s = InsertAnswer(row)
      \/ \E rows \in Updates(d) : s = UpdateAnswers(rows)
      \/ \E v \in Ballot(d) : s = InsertVote(v)
      \/ \E g, q : s = Buttons(g, q)
      \/ \E g, q, vs : s = Results(g, q, vs)
      \/ \E g, vs : s = Scores(g, vs)
    BY CrowdedIsGame DEF Statements, States
<1>2. ASSUME NEW g, NEW u, s = InsertUser(g, u) PROVE Effect(d, s, e)
    <2>1. e.game = d.game /\ e.answer = d.answer
        BY <1>2, Applied
    <2>2. ~Writes(s)
        BY <1>2 DEF Writes, InsertUser
    <2> QED
        BY <2>1, <2>2, QuietEffect
<1>3. ASSUME NEW g \in GameIds(d), NEW st \in States, s = SetState(g, st)
      PROVE  Effect(d, s, e)
    <2> DEFINE row == [d.game[g] EXCEPT !.state = st]
    <2>1. e = [game |-> [d.game EXCEPT ![g] = row],
               game_user |-> d.game_user, answer |-> d.answer, vote |-> d.vote]
        BY <1>3, Applied
    <2>2. row.state = st
        <3>1. d.game[g] \in GameRow
            BY DEF TablesOK, GameIds
        <3> QED
            BY <3>1 DEF GameRow
    <2>3. MovesGame(s) /\ Stage(d.game[g].state) =< Stage(st)
        BY <1>3 DEF SetState, Fits, MovesGame
    <2> HIDE DEF row, e
    <2>4. e.game = [d.game EXCEPT ![g] = row] /\ e.answer = d.answer
        BY <2>1
    <2> QED
        BY <2>2, <2>3, <2>4, MoveEffect
<1>4. ASSUME NEW p \in Votable(d), s = SetVoting(p[1], p[2])
      PROVE  Effect(d, s, e)
    <2> DEFINE g == p[1]
               row == [state |-> "gather_votes", question |-> p[2]]
    <2>1. e.game = [d.game EXCEPT ![g] = row] /\ e.answer = d.answer
        BY <1>4, Applied
    <2>2. g \in GameIds(d)
        BY DEF Votable, Crowded
    <2>3. row.state = "gather_votes" /\ row.state \in States
        BY DEF States
    <2>4. MovesGame(s) /\ Stage(d.game[g].state) =< Stage("gather_votes")
        BY <1>4 DEF SetVoting, Fits, MovesGame
    <2> HIDE DEF row, g
    <2> QED
        BY <2>1, <2>2, <2>3, <2>4, MoveEffect
<1>5. ASSUME NEW row \in Row(d), s = InsertAnswer(row) PROVE Effect(d, s, e)
    <2>1. e.game = d.game /\ e.answer = Append(d.answer, row)
        BY <1>5, Applied
    <2>2. d.answer \in Seq(Row(d))
        BY DEF TablesOK
    <2>3. \A t \in DOMAIN d.answer : e.answer[t] = d.answer[t]
        BY <2>1, <2>2
    <2>4. ~Writes(s)
        BY <1>5 DEF Writes, InsertAnswer
    <2> QED
        BY <2>1, <2>3, <2>4, QuietEffect
<1>6. ASSUME NEW rows \in Updates(d), s = UpdateAnswers(rows) PROVE Effect(d, s, e)
    BY <1>6, WriteEffect
<1>7. ASSUME NEW v, s = InsertVote(v) PROVE Effect(d, s, e)
    <2>1. e.game = d.game /\ e.answer = d.answer
        BY <1>7, Applied
    <2>2. ~Writes(s)
        BY <1>7 DEF Writes, InsertVote
    <2> QED
        BY <2>1, <2>2, QuietEffect
<1>8. ASSUME \/ \E g, q : s = Buttons(g, q)
             \/ \E g, q, vs : s = Results(g, q, vs)
             \/ \E g, vs : s = Scores(g, vs)
      PROVE  Effect(d, s, e)
    <2>1. e = d
        BY <1>8, Applied
    <2>2. ~Writes(s)
        BY <1>8 DEF Writes, Buttons, Results, Scores
    <2> QED
        BY <2>1, <2>2, QuietEffect
<1> HIDE DEF e
<1>9. Effect(d, s, e)
    BY <1>1, <1>2, <1>3, <1>4, <1>5, <1>6, <1>7, <1>8
<1> QED
    BY <1>9 DEF e

LEMMA WrittenRows ==
    ASSUME NEW d, TablesOK(d), NEW s \in Statements(d), Writes(s)
    PROVE  DOMAIN s.rows \subseteq DOMAIN d.answer
<1>1. \/ \E g, u : s = InsertUser(g, u)
      \/ \E g, st : s = SetState(g, st)
      \/ \E g, q : s = SetVoting(g, q)
      \/ \E row : s = InsertAnswer(row)
      \/ \E f \in Updates(d) : s = UpdateAnswers(f)
      \/ \E v : s = InsertVote(v)
      \/ \E g, q : s = Buttons(g, q)
      \/ \E g, q, vs : s = Results(g, q, vs)
      \/ \E g, vs : s = Scores(g, vs)
    BY DEF Statements
<1>2. PICK f \in Updates(d) : s = UpdateAnswers(f)
    BY <1>1 DEF Writes, InsertUser, SetState, SetVoting, InsertAnswer, InsertVote,
        Buttons, Results, Scores
<1>3. s.rows = f
    BY <1>2 DEF UpdateAnswers
<1> QED
    BY <1>3, FirstRow

-------------------------------------------------------------------------------
(* What the worker has still to execute goes on fitting.                     *)

LEMMA StillFits ==
    ASSUME NEW d, TablesOK(d), NEW s, NEW e, Effect(d, s, e),
           NEW t \in Statements(d), Fits(d, t), ~Clash(s, t)
    PROVE  Fits(e, t)
<1>1. CASE MovesGame(t)
    <2>1. \E g \in GameIds(d) : t.game = g
        <3>1. \/ \E g \in GameIds(d), u \in Users : t = InsertUser(g, u)
              \/ \E g \in GameIds(d), st \in States : t = SetState(g, st)
              \/ \E p \in Votable(d) : t = SetVoting(p[1], p[2])
              \/ \E row \in Row(d) : t = InsertAnswer(row)
              \/ \E rows \in Updates(d) : t = UpdateAnswers(rows)
              \/ \E v \in Ballot(d) : t = InsertVote(v)
              \/ \E g, q : t = Buttons(g, q)
              \/ \E g, q, vs : t = Results(g, q, vs)
              \/ \E g, vs : t = Scores(g, vs)
            BY CrowdedIsGame DEF Statements, States
        <3>2. \/ \E g \in GameIds(d), st \in States : t = SetState(g, st)
              \/ \E p \in Votable(d) : t = SetVoting(p[1], p[2])
            BY <1>1, <3>1 DEF MovesGame, InsertUser, InsertAnswer, UpdateAnswers, InsertVote,
                Buttons, Results, Scores
        <3>3. \A p \in Votable(d) : p[1] \in GameIds(d)
            BY DEF Votable, Crowded
        <3> QED
            BY <3>2, <3>3 DEF SetState, SetVoting
    <2>2. SameState(d, e) /\ ~Writes(t)
        BY <1>1 DEF Effect, Clash, MovesGame, Writes
    <2> QED
        BY <2>1, <2>2 DEF Fits, SameState
<1>2. CASE Writes(t)
    <2>1. DOMAIN t.rows \subseteq DOMAIN d.answer
        BY <1>2, WrittenRows
    <2>2. SameRows(d, e, DOMAIN d.answer)
        BY <1>2 DEF Effect, Clash
    <2>3. ~MovesGame(t)
        BY <1>2 DEF MovesGame, Writes
    <2> QED
        BY <1>2, <2>1, <2>2, <2>3 DEF Fits, SameRows, MovesGame
<1> QED
    BY <1>1, <1>2 DEF Fits, MovesGame

(* The rows that are left after the first one still agree. *)
LEMMA RestFits ==
    ASSUME NEW d, NEW s, NEW e, Effect(d, s, e), Writes(s), Fits(d, s),
           DOMAIN s.rows \subseteq DOMAIN d.answer
    PROVE  Fits(e, UpdateAnswers(Restrict(s.rows, DOMAIN s.rows \ {Min(DOMAIN s.rows)})))
<1> DEFINE others == DOMAIN s.rows \ {Min(DOMAIN s.rows)}
           rest == Restrict(s.rows, others)
           t == UpdateAnswers(rest)
<1>1. DOMAIN rest = others /\ \A k \in others : rest[k] = s.rows[k]
    BY DEF Restrict
<1>2. \A k \in others : e.answer[k] = d.answer[k]
    BY DEF Effect, SameRows
<1>3. \A k \in others : d.answer[k].response # NoResponse => s.rows[k] = d.answer[k].response
    BY DEF Fits
<1>4. t.op = "update_answers" /\ t.rows = rest
    BY DEF UpdateAnswers
<1> HIDE DEF t, rest, others
<1>5. Fits(e, t)
    BY <1>1, <1>2, <1>3, <1>4 DEF Fits, Writes
<1> QED
    BY <1>5 DEF t, rest, others

LEMMA LeftFits ==
    ASSUME NEW d, TablesOK(d), NEW todo \in Seq(Statements(d)), todo # <<>>,
           TodoFits(d, todo), NEW e, Effect(d, Head(todo), e)
    PROVE  TodoFits(e, Left(todo))
<1> DEFINE s == Head(todo)
           rest == Tail(todo)
           others == DOMAIN s.rows \ {Min(DOMAIN s.rows)}
           more == UpdateAnswers(Restrict(s.rows, others))
           S == Statements(d)
<1>1. /\ s = todo[1] /\ 1 \in DOMAIN todo /\ s \in S
      /\ rest \in Seq(S)
      /\ \A i \in DOMAIN rest : i + 1 \in DOMAIN todo /\ i + 1 # 1 /\ rest[i] = todo[i + 1]
    OBVIOUS
<1>2. \A i \in DOMAIN rest : Fits(d, rest[i]) /\ ~Clash(s, rest[i]) /\ rest[i] \in S
    BY <1>1 DEF TodoFits
<1>3. \A i \in DOMAIN rest : Fits(e, rest[i])
    BY <1>2, StillFits
<1>4. \A i, j \in DOMAIN rest : i # j => ~Clash(rest[i], rest[j])
    <2> SUFFICES ASSUME NEW i \in DOMAIN rest, NEW j \in DOMAIN rest, i # j
                 PROVE  ~Clash(rest[i], rest[j])
        OBVIOUS
    <2>1. i + 1 # j + 1
        BY <1>1
    <2> QED
        BY <1>1, <2>1 DEF TodoFits
<1>5. CASE Writes(s) /\ others # {}
    <2>1. Left(todo) = <<more>> \o rest
        BY <1>5 DEF Left, Writes
    <2>2. Fits(e, more)
        <3>1. DOMAIN s.rows \subseteq DOMAIN d.answer
            BY <1>1, <1>5, WrittenRows
        <3>2. Fits(d, s)
            BY <1>1 DEF TodoFits
        <3> QED
            BY <1>5, <3>1, <3>2, RestFits
    <2>3. \A i \in DOMAIN rest : ~Clash(more, rest[i]) /\ ~Clash(rest[i], more)
        <3>1. Writes(more) /\ ~MovesGame(more)
            BY DEF Writes, MovesGame, UpdateAnswers
        <3> QED
            BY <1>2, <1>5, <3>1 DEF Clash
    <2> HIDE DEF more, rest, s, others, S
    <2> DEFINE left == <<more>> \o rest
    <2>4. /\ left[1] = more
          /\ \A i \in DOMAIN left : i = 1 \/ (i - 1 \in DOMAIN rest /\ left[i] = rest[i - 1])
        BY <1>1
    <2> HIDE DEF left
    <2>5. \A i \in DOMAIN left : Fits(e, left[i])
        BY <1>3, <2>2, <2>4
    <2>6. \A i, j \in DOMAIN left : i # j => ~Clash(left[i], left[j])
        <3> SUFFICES ASSUME NEW i \in DOMAIN left, NEW j \in DOMAIN left, i # j
                     PROVE  ~Clash(left[i], left[j])
            OBVIOUS
        <3>1. CASE i = 1
            BY <2>3, <2>4, <3>1
        <3>2. CASE j = 1
            BY <2>3, <2>4, <3>2
        <3>3. CASE i # 1 /\ j # 1
            <4>1. i - 1 \in DOMAIN rest /\ j - 1 \in DOMAIN rest
                BY <2>4, <3>3
            <4>2. i - 1 # j - 1
                BY <1>1, <4>1 DEF left
            <4> QED
                BY <1>4, <2>4, <3>3, <4>1, <4>2
        <3> QED
            BY <3>1, <3>2, <3>3
    <2> QED
        BY <2>1, <2>5, <2>6 DEF TodoFits, left
<1>6. CASE ~(Writes(s) /\ others # {})
    <2>1. Left(todo) = rest
        BY <1>6 DEF Left, Writes
    <2> HIDE DEF rest
    <2> QED
        BY <1>3, <1>4, <2>1 DEF TodoFits
<1> QED
    BY <1>5, <1>6

-------------------------------------------------------------------------------
(* What the handlers leave to execute fits when they leave it.               *)

Quiet(s) == ~MovesGame(s) /\ ~Writes(s)

LEMMA QuietFits ==
    ASSUME NEW d, NEW s, Quiet(s)
    PROVE  Fits(d, s) /\ \A t : ~Clash(s, t) /\ ~Clash(t, s)
BY DEF Quiet, Fits, Clash, MovesGame

LEMMA QuietOnes ==
    /\ \A s : IsMessage(s) => Quiet(s)
    /\ \A s : s.op = "insert_answer" => Quiet(s)
    /\ \A g, u : Quiet(InsertUser(g, u))
    /\ \A v : Quiet(InsertVote(v))
    /\ \A g, q : Quiet(Buttons(g, q))
    /\ \A g, vs : Quiet(Scores(g, vs))
BY DEF Quiet, MovesGame, Writes, IsMessage, InsertUser, InsertVote, Buttons, Scores

LEMMA FewFit ==
    ASSUME NEW d, NEW a, NEW b, NEW c, Fits(d, a), Fits(d, b), Fits(d, c),
           ~Clash(a, b), ~Clash(b, a), ~Clash(a, c), ~Clash(c, a), ~Clash(b, c), ~Clash(c, b)
    PROVE  /\ TodoFits(d, <<a>>)
           /\ TodoFits(d, <<a, b>>)
           /\ TodoFits(d, <<a, b, c>>)
<1>1. /\ DOMAIN <<a>> = {1} /\ <<a>>[1] = a
      /\ DOMAIN <<a, b>> = {1, 2} /\ <<a, b>>[1] = a /\ <<a, b>>[2] = b
      /\ DOMAIN <<a, b, c>> = {1, 2, 3}
      /\ <<a, b, c>>[1] = a /\ <<a, b, c>>[2] = b /\ <<a, b, c>>[3] = c
    OBVIOUS
<1> QED
    BY <1>1 DEF TodoFits

LEMMA QuietFirst ==
    ASSUME NEW d, NEW S, NEW p \in Seq(S), NEW m \in Seq(S),
           \A i \in DOMAIN p : Quiet(p[i]), TodoFits(d, m)
    PROVE  TodoFits(d, p \o m)
<1> DEFINE todo == p \o m
<1>1. \A i \in DOMAIN todo : \/ i \in DOMAIN p /\ todo[i] = p[i]
                             \/ /\ i - Len(p) \in DOMAIN m /\ todo[i] = m[i - Len(p)]
    OBVIOUS
<1>2. Len(p) \in Nat /\ DOMAIN todo \subseteq Nat
    OBVIOUS
<1> HIDE DEF todo
<1>3. \A i \in DOMAIN todo : Fits(d, todo[i])
    BY <1>1, QuietFits DEF TodoFits
<1>4. \A i, j \in DOMAIN todo : i # j => ~Clash(todo[i], todo[j])
    <2> SUFFICES ASSUME NEW i \in DOMAIN todo, NEW j \in DOMAIN todo, i # j
                 PROVE  ~Clash(todo[i], todo[j])
        OBVIOUS
    <2>1. CASE Quiet(todo[i]) \/ Quiet(todo[j])
        BY <2>1, QuietFits
    <2>2. CASE /\ i - Len(p) \in DOMAIN m /\ todo[i] = m[i - Len(p)]
               /\ j - Len(p) \in DOMAIN m /\ todo[j] = m[j - Len(p)]
        <3>1. i - Len(p) # j - Len(p)
            BY <1>2
        <3> QED
            BY <2>2, <3>1 DEF TodoFits
    <2> QED
        BY <1>1, <2>1, <2>2
<1> QED
    BY <1>3, <1>4 DEF TodoFits, todo

LEMMA QuietLast ==
    ASSUME NEW d, NEW S, NEW a \in S, Fits(d, a), NEW p \in Seq(S),
           \A i \in DOMAIN p : Quiet(p[i])
    PROVE  TodoFits(d, <<a>> \o p)
<1> DEFINE todo == <<a>> \o p
<1>1. \A i \in DOMAIN todo : \/ i = 1 /\ todo[i] = a
                             \/ i - 1 \in DOMAIN p /\ todo[i] = p[i - 1]
    OBVIOUS
<1> HIDE DEF todo
<1>2. \A i \in DOMAIN todo : (i = 1 /\ todo[i] = a) \/ Quiet(todo[i])
    BY <1>1
<1> QED
    BY <1>2, QuietFits DEF TodoFits, todo

-------------------------------------------------------------------------------
(* The steps.                                                               *)

LEMMA SerialGoOn ==
    ASSUME SingleWorker, IInv, SInv, NEW w \in Workers, NEW x, GoOn(w, x),
           OneRunning(db'), WorkerFits(db', x)
    PROVE  SInv'
<1>1. worker'[w] = x
    BY DEF GoOn, IInv
<1>2. \A v \in Workers : v = w
    BY DEF SingleWorker
<1> QED
    BY <1>1, <1>2 DEF SInv

LEMMA SerialRead ==
    ASSUME SingleWorker, IInv, SInv, NEW w \in Workers, NEW x, GoOn(w, x),
           UNCHANGED <<db, chat, failures>>, WorkerFits(db, x)
    PROVE  SInv'
BY SerialGoOn DEF SInv

LEMMA IdleFits == \A d : WorkerFits(d, Idle) /\ WorkerFits(d, Dead)
BY DEF WorkerFits, Idle, Dead

LEMMA RunFits ==
    ASSUME NEW d, NEW todo, TodoFits(d, todo)
    PROVE  WorkerFits(d, Run(todo))
BY DEF WorkerFits, Run

LEMMA ReceiveSInv ==
    ASSUME SingleWorker, IInv, SInv, NEW w \in Workers, Receive(w)
    PROVE  SInv'
<1>1. ASSUME NEW u \in Users, FindNew(w, u) PROVE SInv'
    <2>1. WorkerFits(db, [pc |-> "create", user |-> u])
        BY <1>1 DEF FindNew, WorkerFits
    <2> QED
        BY <1>1, <2>1, SerialRead DEF FindNew
<1>2. ASSUME NEW u \in Users, FindJoin(w, u) PROVE SInv'
    <2> DEFINE x(g) == [pc |-> "join", game |-> g, user |-> u]
    <2>1. PICK g : Find(w, "join", g, {"gather_users"}) /\ GoOn(w, x(g))
        BY <1>2 DEF FindJoin
    <2>2. db.game[g].state = "gather_users" /\ UNCHANGED <<db, chat, failures>>
        BY <2>1 DEF Find
    <2>3. WorkerFits(db, x(g))
        BY <2>2 DEF WorkerFits
    <2> QED
        BY <2>1, <2>2, <2>3, SerialRead
<1>3. CASE FindBegin(w)
    <2> DEFINE x(g) == [pc |-> "begin", game |-> g]
    <2>1. PICK g : Find(w, "begin", g, {"gather_users"}) /\ GoOn(w, x(g))
        BY <1>3 DEF FindBegin
    <2>2. db.game[g].state = "gather_users" /\ UNCHANGED <<db, chat, failures>>
        BY <2>1 DEF Find
    <2>3. WorkerFits(db, x(g))
        BY <2>2 DEF WorkerFits
    <2> QED
        BY <2>1, <2>2, <2>3, SerialRead
<1>4. ASSUME NEW t \in DOMAIN db.answer, NEW r \in Responses, FindPost(w, t, r) PROVE SInv'
    <2> DEFINE x(g) == [pc |-> "post", game |-> g, token |-> t, response |-> r]
    <2>1. PICK g : Find(w, "post", g, {"gather_answers"}) /\ GoOn(w, x(g))
        BY <1>4 DEF FindPost
    <2>2. db.game[g].state = "gather_answers" /\ UNCHANGED <<db, chat, failures>>
        BY <2>1 DEF Find
    <2>3. WorkerFits(db, x(g))
        BY <2>2 DEF WorkerFits
    <2> QED
        BY <2>1, <2>2, <2>3, SerialRead
<1>5. ASSUME NEW u \in Users, NEW t \in DOMAIN db.answer, FindVote(w, u, t) PROVE SInv'
    <2> DEFINE x(g) == [pc |-> "vote", game |-> g, user |-> u, token |-> t]
    <2>1. PICK g : Find(w, "vote", g, {"gather_votes"}) /\ GoOn(w, x(g))
        BY <1>5 DEF FindVote
    <2>2. db.game[g].state = "gather_votes" /\ UNCHANGED <<db, chat, failures>>
        BY <2>1 DEF Find
    <2>3. WorkerFits(db, x(g))
        BY <2>2 DEF WorkerFits
    <2> QED
        BY <2>1, <2>2, <2>3, SerialRead
<1>6. CASE FindEnd(w)
    <2>1. PICK g : /\ Find(w, "end", g, {"gather_users", "gather_answers", "gather_votes"})
                   /\ GoOn(w, Run(<<SetState(g, "end")>>))
        BY <1>6 DEF FindEnd
    <2>2. g \in GameIds(db) /\ UNCHANGED <<db, chat, failures>>
        BY <2>1, FoundGame
    <2> DEFINE s == SetState(g, "end")
    <2>3. Fits(db, s)
        <3>1. Stage(db.game[g].state) =< Stage("end")
            BY <2>2, StateOfGame, Stages DEF IInv
        <3> QED
            BY <3>1 DEF Fits, Writes, SetState
    <2> HIDE DEF s
    <2>4. TodoFits(db, <<s>>)
        <3>1. DOMAIN <<s>> = {1} /\ <<s>>[1] = s
            OBVIOUS
        <3> QED
            BY <2>3, <3>1 DEF TodoFits
    <2> QED
        BY <2>1, <2>2, <2>4, RunFits, SerialRead DEF s
<1>7. CASE FindStatus(w)
    <2> DEFINE x(g) == [pc |-> "status", game |-> g]
    <2>1. PICK g : Find(w, "status", g, {"gather_votes"}) /\ GoOn(w, x(g))
        BY <1>7 DEF FindStatus
    <2>2. UNCHANGED <<db, chat, failures>>
        BY <2>1 DEF Find
    <2>3. WorkerFits(db, x(g))
        BY DEF WorkerFits
    <2> QED
        BY <2>1, <2>2, <2>3, SerialRead
<1> QED
    BY <1>1, <1>2, <1>3, <1>4, <1>5, <1>6, <1>7 DEF Receive

LEMMA CreateGameSInv ==
    ASSUME SingleWorker, IInv, SInv, NEW w \in Workers, CreateGame(w)
    PROVE  SInv'
<1> DEFINE g == Len(db.game) + 1
           s == InsertUser(g, worker[w].user)
           row == [state |-> "gather_users", question |-> NoQuestion]
<1>1. /\ TablesOK(db) /\ Running(db) = {}
      /\ db' = Apply(db, InsertGame) /\ GoOn(w, Run(<<s>>))
    BY DEF CreateGame, IInv, SInv, WorkerFits
<1>2. db' = [game |-> Append(db.game, row), game_user |-> db.game_user,
             answer |-> db.answer, vote |-> db.vote]
    BY <1>1, Applied
<1> HIDE DEF row
<1>3. db'.game = Append(db.game, row) /\ db.game \in Seq(GameRow)
    BY <1>1, <1>2 DEF TablesOK
<1>4. \A h \in GameIds(db') : h = g \/ (h \in GameIds(db) /\ db'.game[h] = db.game[h])
    BY <1>3 DEF GameIds
<1>5. \A h \in Running(db') : h = g
    BY <1>1, <1>4 DEF Running
<1>6. TodoFits(db', <<s>>)
    BY QuietOnes, QuietFits, FewFit
<1> HIDE DEF s, g
<1> QED
    BY <1>1, <1>5, <1>6, RunFits, SerialGoOn DEF OneRunning

LEMMA JoinSInv ==
    ASSUME SingleWorker, IInv, SInv, NEW w \in Workers, Join(w)
    PROVE  SInv'
<1> DEFINE x == worker[w]
           a == SetState(x.game, "gather_users")
           b == InsertUser(x.game, x.user)
<1>1. /\ db.game[x.game].state = "gather_users"
      /\ GoOn(w, Idle) \/ GoOn(w, Run(<<a, b>>))
      /\ UNCHANGED <<db, chat, failures>>
    BY DEF Join, SInv, WorkerFits
<1>2. Fits(db, a)
    BY <1>1, Stages DEF Fits, SetState, Writes
<1>3. Quiet(b)
    BY QuietOnes
<1> HIDE DEF a, b
<1>4. TodoFits(db, <<a, b>>)
    BY <1>2, <1>3, QuietFits, FewFit
<1> QED
    BY <1>1, <1>4, IdleFits, RunFits, SerialRead

LEMMA BeginSInv ==
    ASSUME SingleWorker, IInv, SInv, NEW w \in Workers, BeginUsers(w) \/ BeginDraw(w)
    PROVE  SInv'
<1> DEFINE x == worker[w]
           y(order) == [pc |-> "draw", game |-> x.game, order |-> order]
           s == SetState(x.game, "gather_answers")
           T == Statements(db)
<1>1. db.game[x.game].state = "gather_users" /\ UNCHANGED <<db, chat, failures>>
    BY DEF BeginUsers, BeginDraw, SInv, WorkerFits
<1>2. CASE BeginUsers(w)
    <2>1. PICK order : GoOn(w, y(order))
        BY <1>2 DEF BeginUsers
    <2>2. WorkerFits(db, y(order))
        BY <1>1 DEF WorkerFits
    <2> QED
        BY <1>1, <2>1, <2>2, SerialRead
<1>3. CASE BeginDraw(w)
    <2>1. CASE GoOn(w, Idle) \/ GoOn(w, Dead)
        BY <1>1, <2>1, IdleFits, SerialRead
    <2>2. ASSUME NEW rows \in Seq(T), \A k \in DOMAIN rows : rows[k].op = "insert_answer",
                 s \in T, GoOn(w, Run(<<s>> \o rows))
          PROVE  SInv'
        <3>1. Fits(db, s)
            BY <1>1, Stages DEF Fits, SetState, Writes
        <3>2. \A k \in DOMAIN rows : Quiet(rows[k])
            BY <2>2, QuietOnes
        <3> HIDE DEF s, T
        <3>3. TodoFits(db, <<s>> \o rows)
            BY <2>2, <3>1, <3>2, QuietLast
        <3> QED
            BY <1>1, <2>2, <3>3, RunFits, SerialRead
    <2> QED
        BY <1>3, <2>1, <2>2, BeginDrawDeals
<1> QED
    BY <1>2, <1>3

(* A handler writes back what it has read, but for the prompt it fills.       *)
LEMMA SaveAllFits ==
    ASSUME NEW d, TablesOK(d), NEW g, NEW t, CanAnswer(t, AnswersOf(d, g)), NEW r
    PROVE  LET read == AnswersOf(d, g)
           IN  Fits(d, SaveAll([read EXCEPT ![AnswerTarget(t, read)].response = r]))
<1> DEFINE read == AnswersOf(d, g)
           target == AnswerTarget(t, read)
           filled == [read EXCEPT ![target].response = r]
           rows == [k \in DOMAIN filled |-> filled[k].response]
           s == SaveAll(filled)
<1>1. DOMAIN read \subseteq Nat /\ \A k \in DOMAIN read : read[k].response = d.answer[k].response
    BY DEF AnswersOf, TokensOf, TablesOK
<1>2. target \in Unanswered(read[t].user, read)
    BY <1>1, AnswerTargetIsUnanswered
<1>3. target \in DOMAIN read /\ d.answer[target].response = NoResponse
    BY <1>1, <1>2 DEF Unanswered, Answered
<1>4. s.op = "update_answers" /\ s.rows = rows
    BY DEF SaveAll, UpdateAnswers
<1> HIDE DEF read, target, s
<1>5. \A k \in DOMAIN rows : k # target => rows[k] = read[k].response
    OBVIOUS
<1>6. \A k \in DOMAIN rows : k \in DOMAIN read
    OBVIOUS
<1> HIDE DEF rows
<1>7. Fits(d, s)
    BY <1>1, <1>3, <1>4, <1>5, <1>6 DEF Fits
<1> QED
    BY <1>7 DEF read, target, s

LEMMA PostSInv ==
    ASSUME SingleWorker, IInv, SInv, NEW w \in Workers, Post(w)
    PROVE  SInv'
<1> DEFINE x == worker[w]
           g == x.game
           read == AnswersOf(db, g)
           filled == [read EXCEPT ![AnswerTarget(x.token, read)].response = x.response]
           q == filled[NextAnswer(filled, {})].question
           a == SetState(g, "gather_answers")
           v == SetVoting(g, q)
           u == SaveAll(filled)
           m == Buttons(g, q)
<1>1. /\ TablesOK(db) /\ db.game[g].state = "gather_answers"
      /\ UNCHANGED <<db, chat, failures>>
    BY DEF Post, IInv, SInv, WorkerFits
<1>2. \/ GoOn(w, Idle) \/ GoOn(w, Dead)
      \/ CanAnswer(x.token, read) /\ (GoOn(w, Run(<<a, u>>)) \/ GoOn(w, Run(<<v, u, m>>)))
    BY DEF Post
<1>3. CASE GoOn(w, Idle) \/ GoOn(w, Dead)
    BY <1>1, <1>3, IdleFits, SerialRead
<1>4. CASE CanAnswer(x.token, read) /\ (GoOn(w, Run(<<a, u>>)) \/ GoOn(w, Run(<<v, u, m>>)))
    <2>1. Fits(db, u)
        BY <1>1, <1>4, SaveAllFits
    <2>2. Writes(u) /\ ~MovesGame(u)
        BY DEF SaveAll, UpdateAnswers, Writes, MovesGame
    <2>3. Fits(db, a) /\ ~Writes(a)
        BY <1>1, Stages DEF Fits, SetState, Writes
    <2>4. Fits(db, v) /\ ~Writes(v)
        BY <1>1, Stages DEF Fits, SetVoting, Writes
    <2>5. Quiet(m)
        BY QuietOnes
    <2> HIDE DEF a, v, u, m
    <2>6. ~Clash(a, u) /\ ~Clash(u, a) /\ ~Clash(v, u) /\ ~Clash(u, v)
        BY <2>2, <2>3, <2>4 DEF Clash
    <2>7. TodoFits(db, <<a, u>>) /\ TodoFits(db, <<v, u, m>>)
        BY <2>1, <2>3, <2>4, <2>5, <2>6, QuietFits, FewFit
    <2> QED
        BY <1>1, <1>4, <2>7, RunFits, SerialRead
<1> QED
    BY <1>2, <1>3, <1>4

LEMMA VoteReadsSInv ==
    ASSUME SingleWorker, IInv, SInv, NEW w \in Workers, VoteAnswers(w) \/ VoteVotes(w)
    PROVE  SInv'
<1> DEFINE x == worker[w]
           y == [pc |-> "votes", game |-> x.game, user |-> x.user, token |-> x.token,
                 answers |-> AnswersOf(db, x.game)]
           z == [pc |-> "pair", game |-> x.game, user |-> x.user, token |-> x.token,
                 answers |-> x.answers, votes |-> VotesOf(db, x.game)]
<1>1. db.game[x.game].state = "gather_votes" /\ UNCHANGED <<db, chat, failures>>
    BY DEF VoteAnswers, VoteVotes, SInv, WorkerFits
<1>2. WorkerFits(db, y) /\ WorkerFits(db, z)
    BY <1>1 DEF WorkerFits
<1>3. GoOn(w, y) \/ GoOn(w, z)
    BY DEF VoteAnswers, VoteVotes
<1> HIDE DEF y, z
<1> QED
    BY <1>1, <1>2, <1>3, SerialRead

LEMMA VotePairSInv ==
    ASSUME SingleWorker, IInv, SInv, NEW w \in Workers, VotePair(w)
    PROVE  SInv'
<1> DEFINE x == worker[w]
           g == x.game
           ballot == [user |-> x.user, token |-> x.token]
           end == [pc |-> "over", game |-> g, token |-> x.token,
                   votes |-> x.votes \cup {ballot}]
<1>1. /\ g \in Crowded(db) /\ ballot \in Ballot(db)
      /\ db.game[g].state = "gather_votes" /\ UNCHANGED <<db, chat, failures>>
    BY DEF VotePair, IInv, WorkerOK, SInv, WorkerFits, Ballot
<1>2. WorkerFits(db, end)
    BY <1>1 DEF WorkerFits
<1>3. ASSUME NEW q \in Questions, NEW news \in Seq(Statements(db)), HasPair(db, g, q),
             \A i \in DOMAIN news : IsMessage(news[i]),
             GoOn(w, Run(news \o <<SetVoting(g, q), InsertVote(ballot)>>))
      PROVE  SInv'
    <2> DEFINE S == Statements(db)
               s == SetVoting(g, q)
               v == InsertVote(ballot)
    <2>1. s \in S /\ v \in S /\ news \in Seq(S)
        BY <1>1, <1>3, Stated
    <2>2. Fits(db, s)
        BY <1>1, Stages DEF Fits, SetVoting, Writes
    <2>3. Quiet(v) /\ \A i \in DOMAIN news : Quiet(news[i])
        BY <1>3, QuietOnes
    <2> HIDE DEF S, s, v
    <2>4. TodoFits(db, <<s, v>>)
        BY <2>2, <2>3, QuietFits, FewFit
    <2>5. <<s, v>> \in Seq(S)
        BY <2>1
    <2>6. TodoFits(db, news \o <<s, v>>)
        BY <2>1, <2>3, <2>4, <2>5, QuietFirst
    <2> QED
        BY <1>1, <1>3, <2>6, RunFits, SerialRead DEF s, v
<1> HIDE DEF end
<1>4. CASE GoOn(w, Idle) \/ GoOn(w, Dead) \/ GoOn(w, end)
    BY <1>1, <1>2, <1>4, IdleFits, SerialRead
<1> QED
    BY <1>3, <1>4, VoteOutcome DEF end

LEMMA GameOverSInv ==
    ASSUME SingleWorker, IInv, SInv, NEW w \in Workers, GameOver(w)
    PROVE  SInv'
<1> DEFINE x == worker[w]
           g == x.game
           results == RoundResults(g, x.token, AnswersOf(db, g), x.votes)
           a == Scores(g, x.votes)
           b == SetState(g, "end")
           S == Statements(db)
<1>1. /\ TablesOK(db) /\ g \in GameIds(db) /\ x.votes \in SUBSET Ballot(db)
      /\ UNCHANGED <<db, chat, failures>>
      /\ GoOn(w, Dead) \/ GoOn(w, Run(results \o <<a, b>>))
    BY CrowdedIsGame DEF GameOver, IInv, WorkerOK
<1>2. /\ results \in Seq(S) /\ \A i \in DOMAIN results : IsMessage(results[i])
      /\ a \in S /\ b \in S
    BY <1>1, CopiesOK, RoundResultsOK, Stated
<1>3. Fits(db, b)
    <2>1. Stage(db.game[g].state) =< Stage("end")
        BY <1>1, StateOfGame, Stages
    <2> QED
        BY <2>1 DEF Fits, Writes, SetState
<1>4. Quiet(a) /\ \A i \in DOMAIN results : Quiet(results[i])
    BY <1>2, QuietOnes
<1> HIDE DEF results, a, b, S
<1>5. TodoFits(db, <<a, b>>)
    BY <1>3, <1>4, QuietFits, FewFit
<1>6. <<a, b>> \in Seq(S)
    BY <1>2
<1>7. TodoFits(db, results \o <<a, b>>)
    BY <1>2, <1>4, <1>5, <1>6, QuietFirst
<1> QED
    BY <1>1, <1>7, IdleFits, RunFits, SerialRead

LEMMA StatusSInv ==
    ASSUME SingleWorker, IInv, SInv, NEW w \in Workers, Status(w)
    PROVE  SInv'
<1> DEFINE g == worker[w].game
           m == Buttons(g, db.game[g].question)
<1>1. UNCHANGED <<db, chat, failures>> /\ (GoOn(w, Idle) \/ GoOn(w, Run(<<m>>)))
    BY DEF Status
<1>2. Quiet(m)
    BY QuietOnes
<1> HIDE DEF m
<1>3. TodoFits(db, <<m>>)
    BY <1>2, QuietFits, FewFit
<1> QED
    BY <1>1, <1>3, IdleFits, RunFits, SerialRead

(* What the next statement does to the tables. *)
LEMMA ExecuteEffect ==
    ASSUME IInv, SInv, NEW w \in Workers, Execute(w)
    PROVE  /\ worker[w].todo \in Seq(Statements(db)) /\ worker[w].todo # <<>>
           /\ TodoFits(db, worker[w].todo)
           /\ Effect(db, Head(worker[w].todo), db')
<1> DEFINE todo == worker[w].todo
<1>1. /\ TablesOK(db) /\ todo \in Seq(Statements(db)) /\ todo # <<>>
      /\ TodoFits(db, todo) /\ db' = Apply(db, Head(todo))
    BY DEF Execute, IInv, WorkerOK, SInv, WorkerFits
<1> HIDE DEF todo
<1>2. Head(todo) \in Statements(db) /\ Head(todo) = todo[1] /\ 1 \in DOMAIN todo
    BY <1>1
<1>3. Fits(db, Head(todo))
    BY <1>1, <1>2 DEF TodoFits
<1>4. Effect(db, Head(todo), db')
    BY <1>1, <1>2, <1>3, StatementEffect
<1> QED
    BY <1>1, <1>4 DEF todo

LEMMA ExecuteSInv ==
    ASSUME SingleWorker, IInv, SInv, NEW w \in Workers, Execute(w)
    PROVE  SInv'
<1> DEFINE todo == worker[w].todo
           x == IF Left(todo) = <<>> THEN Idle ELSE Run(Left(todo))
<1>1. /\ TablesOK(db) /\ todo \in Seq(Statements(db)) /\ todo # <<>> /\ TodoFits(db, todo)
      /\ Effect(db, Head(todo), db') /\ GoOn(w, x)
    BY ExecuteEffect DEF Execute, IInv
<1> HIDE DEF todo
<1>2. TodoFits(db', Left(todo))
    BY <1>1, LeftFits
<1>3. WorkerFits(db', x)
    BY <1>2, IdleFits, RunFits
<1>4. Running(db') \subseteq Running(db)
    <2> SUFFICES ASSUME NEW g \in GameIds(db), db'.game[g].state # "end"
                 PROVE  db.game[g].state # "end"
        BY <1>1 DEF Running, Effect, MovesOn
    <2>1. TablesOK(db')
        BY ExecuteIInv DEF IInv
    <2>2. db'.game[g].state \in States /\ db.game[g].state \in States
        BY <1>1, <2>1, StateOfGame DEF Effect, MovesOn
    <2>3. Stage(db.game[g].state) =< Stage(db'.game[g].state)
        BY <1>1 DEF Effect, MovesOn
    <2> QED
        BY <2>2, <2>3, Stages
<1>5. OneRunning(db')
    BY <1>4 DEF SInv, OneRunning
<1> HIDE DEF x
<1> QED
    BY <1>1, <1>3, <1>5, SerialGoOn

LEMMA FailSInv ==
    ASSUME SingleWorker, IInv, SInv, NEW w \in Workers, Fail(w)
    PROVE  SInv'
<1>1. GoOn(w, Idle) /\ db' = db
    BY DEF Fail, StatementFails, MessageFails
<1> QED
    BY <1>1, IdleFits, SerialGoOn DEF SInv

LEMMA InitSInv == Init => SInv
<1> SUFFICES ASSUME Init PROVE SInv
    OBVIOUS
<1>1. db.game = <<>> /\ \A w \in Workers : worker[w] = Idle
    BY DEF Init, EmptyDb
<1>2. Running(db) = {}
    BY <1>1 DEF Running, GameIds
<1> QED
    BY <1>1, <1>2, IdleFits DEF SInv, OneRunning

LEMMA NextSInv == ASSUME SingleWorker PROVE IInv /\ SInv /\ [Next]_vars => SInv'
<1> SUFFICES ASSUME IInv, SInv, [Next]_vars PROVE SInv'
    OBVIOUS
<1>1. CASE UNCHANGED vars
    BY <1>1 DEF vars, SInv, OneRunning, Running, GameIds, WorkerFits, TodoFits, Fits
<1>2. ASSUME NEW w \in Workers, Step(w) PROVE SInv'
    BY <1>2, CreateGameSInv, JoinSInv, BeginSInv, PostSInv, VoteReadsSInv, VotePairSInv,
        GameOverSInv, StatusSInv, ExecuteSInv DEF Step
<1>3. ASSUME NEW w \in Workers, Receive(w) \/ Fail(w) PROVE SInv'
    BY <1>3, ReceiveSInv, FailSInv
<1> QED
    BY <1>1, <1>2, <1>3 DEF Next, Wait

LEMMA SpecSInv == ASSUME SingleWorker PROVE Spec => [](IInv /\ SInv)
<1>1. Init => IInv /\ SInv
    BY InitIInv, InitSInv
<1>2. (IInv /\ SInv) /\ [Next]_vars => (IInv /\ SInv)'
    BY NextIInv, NextSInv
<1> QED
    BY <1>1, <1>2, PTL DEF Spec

-------------------------------------------------------------------------------
(* What holds of one worker, whatever fails and in whatever order requests    *)
(* arrive.                                                                    *)

(* /new refuses while a game is running: the group never has two, of which    *)
(* every handler would take whichever it finds first.                         *)
THEOREM OneGameAtATime == ASSUME SingleWorker PROVE Spec => []OneRunningGame
<1>1. SInv => OneRunningGame
    <2> SUFFICES ASSUME SInv PROVE Cardinality(Running(db)) =< 1
        BY DEF OneRunningGame
    <2>1. CASE Running(db) = {}
        BY <2>1, FS_EmptySet
    <2>2. CASE Running(db) # {}
        <3>1. PICK g \in Running(db) : TRUE
            BY <2>2
        <3>2. Running(db) = {g}
            BY <3>1 DEF SInv, OneRunning
        <3>3. Cardinality({g}) = 1
            BY FS_Singleton
        <3> QED
            BY <3>2, <3>3
    <2> QED
        BY <2>1, <2>2
<1> QED
    BY <1>1, SpecSInv, PTL

(* The tables only move on. *)
LEMMA StepMovesOn ==
    ASSUME SingleWorker, IInv, SInv, [Next]_vars
    PROVE  /\ \A g \in GameIds(db) : Stage(db.game[g].state) =< Stage(db'.game[g].state)
           /\ \A t \in DOMAIN db.answer :
                 db.answer[t].response # NoResponse =>
                     db'.answer[t].response = db.answer[t].response
<1>1. CASE db' = db
    <2>1. \A g \in GameIds(db) : Stage(db.game[g].state) =< Stage(db.game[g].state)
        BY Stages, StateOfGame DEF IInv
    <2> QED
        BY <1>1, <2>1
<1>2. ASSUME NEW w \in Workers, CreateGame(w)
      PROVE  /\ \A g \in GameIds(db) : Stage(db.game[g].state) =< Stage(db'.game[g].state)
             /\ db'.answer = db.answer
    <2> DEFINE row == [state |-> "gather_users", question |-> NoQuestion]
    <2>1. TablesOK(db) /\ db' = Apply(db, InsertGame)
        BY <1>2 DEF CreateGame, IInv
    <2>2. db' = [game |-> Append(db.game, row), game_user |-> db.game_user,
                 answer |-> db.answer, vote |-> db.vote]
        BY <2>1, Applied
    <2> HIDE DEF row
    <2>3. db'.game = Append(db.game, row) /\ db'.answer = db.answer /\ db.game \in Seq(GameRow)
        BY <2>1, <2>2 DEF TablesOK
    <2>4. \A g \in GameIds(db) : db'.game[g] = db.game[g]
        BY <2>3 DEF GameIds
    <2>5. \A g \in GameIds(db) : Stage(db.game[g].state) =< Stage(db.game[g].state)
        BY <2>1, Stages, StateOfGame
    <2> QED
        BY <2>3, <2>4, <2>5
<1>3. ASSUME NEW w \in Workers, Execute(w) PROVE MovesOn(db, db')
    BY <1>3, ExecuteEffect DEF Effect
<1>4. \/ db' = db
      \/ \E w \in Workers : CreateGame(w) \/ Execute(w)
    BY DEF Next, vars, Wait, Receive, FindNew, FindJoin, FindBegin, FindPost, FindVote, FindEnd,
        FindStatus, Find, Step, Join, BeginUsers, BeginDraw, Post, VoteAnswers, VoteVotes,
        VotePair, GameOver, Status, Fail, StatementFails, MessageFails
<1> QED
    BY <1>1, <1>2, <1>3, <1>4 DEF MovesOn

(* No handler moves a game back: nobody joins a game that has begun, no vote  *)
(* and no answer brings back a game that was ended.                           *)
THEOREM GamesMoveForward == ASSUME SingleWorker PROVE Spec => OnlyForward
<1> DEFINE Forward == \A g \in GameIds(db) : Stage(db.game[g].state) =< Stage(db'.game[g].state)
<1>1. (IInv /\ SInv) /\ [Next]_vars => [Forward]_vars
    BY StepMovesOn
<1>2. Spec => [][Forward]_vars
    BY <1>1, SpecSInv, PTL DEF Spec
<1> QED
    BY <1>2 DEF OnlyForward

(* No handler overwrites a response, though each writes back every answer it  *)
(* has read.                                                                  *)
THEOREM ResponsesAreKept == ASSUME SingleWorker PROVE Spec => ResponsesKept
<1> DEFINE Kept == \A t \in DOMAIN db.answer :
                       db.answer[t].response # NoResponse =>
                           db'.answer[t].response = db.answer[t].response
<1>1. (IInv /\ SInv) /\ [Next]_vars => [Kept]_vars
    BY StepMovesOn
<1>2. Spec => [][Kept]_vars
    BY <1>1, SpecSInv, PTL DEF Spec
<1> QED
    BY <1>2 DEF ResponsesKept
===============================================================================
