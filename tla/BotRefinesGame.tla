---------------------------- MODULE BotRefinesGame ----------------------------
(***************************************************************************)
(* With one worker and no failing statement the bot implements Game: the    *)
(* statements of a handler, executed one by one, add up to one atomic       *)
(* action.                                                                  *)
(*                                                                         *)
(* The step of Game happens where the handler computes its statements; the  *)
(* abstract state is the database as it will be once they are executed.     *)
(***************************************************************************)
EXTENDS Bot

Busy == {w \in Workers : worker[w].pc = "run"}

(* What the busy worker, if there is one, has still to do. *)
Rest == IF Busy = {} THEN <<>> ELSE worker[CHOOSE w \in Busy : TRUE].todo

(* A statement and, of the UPDATEs of UpdateAnswers, all that are left. *)
ApplyAll(d, s) ==
    IF s.op # "update_answers" THEN Apply(d, s)
    ELSE [d EXCEPT !.answer =
             [t \in DOMAIN d.answer |->
                 [d.answer[t] EXCEPT !.response = IF t \in DOMAIN s.rows THEN s.rows[t] ELSE @]]]

(* The tables after all of todo. *)
After(d, todo) ==
    LET after[i \in 0 .. Len(todo)] ==
            IF i = 0 THEN d ELSE ApplyAll(after[i - 1], todo[i])
    IN  after[Len(todo)]

Settled == After(db, Rest)

(* The last game of the group; 0 before the first one. *)
LastGame == Len(db.game)

phaseOf == IF LastGame = 0 THEN "end" ELSE Settled.game[LastGame].state
currentOf == IF LastGame = 0 THEN NoQuestion ELSE Settled.game[LastGame].question

(* The votes the final scores of game g count, sent or still to be sent. *)
ScoredVotes(g) ==
    LET said == chat \cup {Rest[i] : i \in DOMAIN Rest}
    IN  UNION {m.votes : m \in {s \in said : s.op = "scores" /\ s.game = g}}

(* The votes of a game that is over are those it was announced with: the last *)
(* one is never stored (persist_end), and /end announces none.                *)
votesOf ==
    IF LastGame = 0 THEN {}
    ELSE IF phaseOf = "end" THEN ScoredVotes(LastGame)
    ELSE VotesOf(Settled, LastGame)

Abstract == INSTANCE Game WITH
    phase <- phaseOf,
    users <- UsersOf(Settled, LastGame),
    answers <- AnswersOf(Settled, LastGame),
    current <- currentOf,
    votes <- votesOf,
    issued <- Len(Settled.answer),
    MaxTokens <- MaxAnswers

(* Every behaviour of the bot with one worker is one of Game. *)
ImplementsGame == Abstract!Spec
===============================================================================
