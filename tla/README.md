# A TLA+ model of the Quiplash Telegram bot

The bot (Rust) plays Quiplash in Telegram groups: `/new` opens a game, users press *Join*, `/begin` deals every
question to two players, the players type responses on a web page, then the group votes, question by question,
for one of two responses, and the scores are sent. This directory holds the specification of that program, the
TLC runs that check it and proofs of its main safety properties. Paths below are relative to the repository.

## The system

| component | state | operations | modelled in |
|---|---|---|---|
| rules, `src/game/mod.rs` | `State` (`GatherUsers`, `GatherAnswers`, `GatherVotes`, `End`), in memory for one request | `begin_game`, `join_game`, `answer_prompt`, `vote`, `end`; the pure `next`, `remaining_votes`, `all_votes_are_in`, ... | `GameRules`, `Game` |
| controller, `src/controller/mod.rs` | none | one handler per request: load the running game, change it, save it, send messages | `Game` (atomic), `Bot` (in steps); `launch_game`, `get_prompt`, `PromptPage` |
| persistence, `src/persistence/`, `postgres/ddl.sql` | tables `game`, `game_user`, `answer`, `vote`, `question`, `user` | `find_running`, `save`, `save_all`, `find_random`, `find_token`, ... | `Bot`, `PromptPage` |
| thread pool, `src/threadpool/mod.rs`, `src/main.rs` | four threads, each with a database connection; one channel of connections | `handle`, the loop of a worker, `Drop` | `ThreadPool`, and what it promises, `Service`; what the workers do to the tables, `Bot` |
| Telegram client, `src/chat/` | none | one method per message | `Bot` (the messages of a round: what they tell, when they are sent, that they fail) |
| prompt page, `nginx/js/` | the token of its URL, the question on show | GET a question, POST a response, again | `PromptPage` |
| router and handler, `src/router.rs`, `src/handler.rs` | none | dispatch a request, turn an error into an answer | `Receive` of `Bot`, `PromptPage`; parsing is not modelled |
| HTTP, `src/http/` | none across requests | read and write messages | its failures, in `ThreadPool` (server) and `Bot` (client) |
| config, deployment | none | | not modelled |

How they meet: a webhook or page request is a TCP connection that the pool hands to a free worker. The worker
parses it, calls one handler of the controller, and the handler runs a sequence of SQL statements, each its own
transaction, and HTTP calls to Telegram. Workers share nothing but the database. An error of a webhook handler is
logged and answered with 200 (`src/router.rs:42-62`); a panic ends the worker's thread and nobody replaces it.

What is hard, and where the properties aim:

* *interleaving*: `find_running` ... `save` is a read-modify-write without a lock, by up to four workers;
* *stale copies*: `save` writes back everything that was read, also `NULL` responses and the current question;
* *partial failure*: `save` is several statements, after an error the rest is not executed; a vote is announced
  before it is saved, the first pair after, and either may fail in between;
* *unreliable delivery*: requests of the page, messages to Telegram, or only their answers get lost, and the page looks
  at no status of a POST;
* *the draw*: `find_random` draws with replacement, so that "the pair of a question" may be any two of four answers;
* *boundaries*: the wrap-around of the deal, the last voter of a round, the last round;
* *progress*: only an accepted request moves a game on, so a game in which every request is refused hangs.

What makes each component correct: the rules deal fairly, ask for votes on responses only, let nobody vote on
their own question or twice, close a round when it is complete and never wait for what cannot come; the handlers
add up to these rules when they run alone; the tables keep one running game, paired prompts and stored responses
when they do not, or when they fail; what is announced agrees with what is stored; the page stores what it shows and
says "done" when it is so; the pool hands every connection to one worker as long as one is left, and ends
without losing one. `PROJECT.json` lists every hazard at its line with the properties about it.

## Modules

**`GameRules`** - the pure functions of `src/game/mod.rs` as operators over `answers` (a function from tokens, the
row ids in the order of the `Vec`, to user, question, response) and `votes` (a set). Both state machines use them.

**`Game`** - one group when its requests are handled one at a time. Each action is a whole handler:

| action | code |
|---|---|
| `NewGame` | `Controller::new_game`, `persist_new` |
| `JoinGame` | `Controller::join_game`, `State::join_game`, `persist_gather_users` |
| `BeginGame` | `Controller::begin_game`, `find_random` (`Draws`), `State::begin_game` (`Deal`), `persist_gather_answers` |
| `AnswerPrompt` | `Controller::post_prompt`, `State::answer_prompt`, `save`, `save_all` |
| `Vote` | `Controller::vote`, `State::vote`, `persist_gather_votes` or `persist_end` |
| `EndGame` | `Controller::end` |

Requests that are refused change nothing and are not actions (the page, which goes on after a refusal, has them:
`PostRefused`). It is the abstract specification: what the bot
promises when nothing is concurrent and nothing fails. The order of players (`Orders`) and the pair put to the
vote (`Pairs`) are any, since the SELECTs behind them have no `ORDER BY`.

**`Bot`** - the workers and the tables. `db` holds the four tables, `worker[w]` what the thread has in its hands:
nothing (`Idle`), copies of rows read so far (`create`, `join`, `begin`, `draw`, `post`, `vote`, `votes`, `pair`,
`over`, `status`), what is still to execute (`run`), or `Dead` after a panic. A handler is `Find*` (the SELECT of
`find_running`), one action per further SELECT that matters, the last of which computes the statements, and one
`Execute` per statement. `StatementFails` and `MessageFails` drop the rest. Statements that cannot change a row are no
steps. The model is of one group; groups share no row but users.

The messages of a round are items of the same list, at their place among the statements: the pair with its buttons
(`Buttons`), the results with the votes they count (`Results`), the final scores (`Scores`). `chat` is the set of those
sent. A vote button can be pressed once it was sent (`FindVote`); apart from that no handler depends on `chat`: it is what the group has read, to be
compared with what is stored. `RoundResults` composes the results, `AnnounceThenSave` puts them before
the save, `SaveVote` is the save. `/status` (`FindStatus`, `Status`) sends the buttons of the round again. The lobby's
messages and the answers to callbacks are left out.

**`BotRefinesGame`** - `Bot` implements `Game`: the step of `Game` is taken where a handler computes its statements,
and the abstract state is the database as it will be when they are executed (`Settled`). The votes of a game that is
over are those its scores were announced with (`ScoredVotes`), since the last one is never stored.

**`PromptPage`** - the web page as a client of a game whose prompts are being answered; it EXTENDS `Game` and adds
`page[u][k]`, what tab `k` of user `u` is doing. The page asks, the bot answers, and anything of the others may happen in
between:

| action | code |
|---|---|
| `Launch` | the button: `Controller::launch_game`, `find_token` (any token of the player: `LIMIT 1`) |
| `Fetch`, `FetchLost` | `App.init`, `Controller::get_prompt`, `find_with_token` (the player's first unanswered prompt) |
| `Submit` | `Prompt.handleSubmit` up to the `fetch`; the button stays disabled |
| `PostStored`, `PostRefused`, `PostLost` | `Router::handle_post_prompt` and `Game!AnswerPrompt`, its errors (`src/handler.rs`), or neither; then the page fetches again, or is stuck when its `await` has thrown |
| `Close`, `GameEnds` | the player closes the window; `/end` |

**`ThreadPool`** - the channel and the threads; a connection is a number. `worker[w]` is the place of a thread in its
loop: `starting`, `waiting` for the lock, `receiving` (holds the lock, in `recv()`), `busy`, `stopped`, or `dead` after a
panic. `Accept` is an iteration of `main` with `ThreadPool::handle`; `Start`, `Lock`, `ReceiveJob`, `ReceiveTerminate`,
`Answer` and `Panic` are the loop of `Worker::new`; `SendTerminate` and `Join` are the two loops of `Drop`. The receiver
goes with the last thread, and the connections left in the channel with it (`Leave`). `main` never gives the pool up
(`listener.incoming()` does not end), so `Drop` is modelled as what the pool promises to any owner who lives on after it.

**`Service`** - what the pool promises to those who connect: every connection is answered or closed, once, and none waits
for ever. `ThreadPool` implements it (`ServesEverybody`), with the number of connections read as the set of them.

**`GameRulesProofs`, `GameProofs`, `PromptPageProofs`, `ThreadPoolProofs`, `BotProofs`, `BotSerialProofs`, `BotVoteProofs`,
`BotRefinesGameProofs`** - the theorems about these modules, proved with TLAPS.

**`MCGame`, `MCPromptPage`, `MCBot`, `MCBotRefinesGame`, `MCThreadPool`** - model values, symmetry and, for `Bot` and
`PromptPage`, initial states within a game.

The definitions marked `Mutant` in the modules are wrong variants of a neighbour, with which the property named in
`PROJECT.json` must fail; no behaviour of a specification uses them.

## Runs

| run | bounds | shows |
|---|---|---|
| `serial` | 4 users, 4 questions, 2 responses, no repeated draw | `TypeOK`, `AlwaysAVoter`, `FairDeal`, `VotesSeeResponses`, `NoVoteOnOwnQuestion`, `OneVotePerQuestion`, `ClosedRoundsComplete`, `AnswersKept` |
| `pages` | 3 users, one tab each, 2 losses, a draw without and one with a repeated question | `PageTypeOK`, `DoneIsTrue`, `NothingTypedInVain`, `StoredAsShownByFirstToken`, `AllPromptsAnswered` |
| `refinement` | 1 worker, 3 users, 3 questions, every draw, 2 games, all kinds of requests | `ImplementsGame`, `NeverHangs` |
| `lobby` | 2 workers, 4 users, 1 game, `/new`, join, `/begin`, `/end` | `TypeOK`, `EnoughPlayers`, `PromptsArePaired` |
| `voting` | 2 workers, 3 players and an outsider, votes only, from the opening of the voting | `OnlyOthersVote`, `NobodyPanics` |
| `failures` | 1 worker, 3 of 4 users play, 2 games, all kinds of requests, 2 failures anywhere | `OneRunningGame`, `PairIsThere`, `ResponsesKept`, `OnlyForward` |
| `rounds` | 1 worker, votes and `/status`, 2 failures; 4 players with two rounds closed, or 3 players whose first buttons were not sent | `ClosedRoundsAnnounced`, `RoundOnShow`, `OneVotePerQuestion`, `ScoresAreTrue`, `VotingEnds` |
| `pool` | 4 workers, 3 connections, any worker may panic | `TypeOK`, `HandledOnce`, `DropAnswersAll`, `ChannelOutlivesWorkers`, `ServesEverybody`, `DropReturns` |
| `ended` | as `serial`, 1 response | violates `EndedMeansAllVoted` |
| `answers_hang` | 2 workers, posts only, two prompts still open | violates `NeverHangs` |
| `resurrected` | 2 workers, votes and `/end` | violates `OnlyForward` |
| `shown` | as `pages`, no losses | violates `StoredAsShown` |

Bounds. Three players is the smallest game; with four a round has two voters, which is where "all voters" and
"some voter" differ, and a join can come too late. One deal of 3 or 4 players is 6 or 8 prompts (`MaxTokens`,
`MaxAnswers`); two `/begin` that both pass the bound before either inserts deal twice, and that is checked in
`lobby`. With `MaxGames = 2` the second game meets the rows of the first. Two workers show every race of two
handlers, which all the known ones are; `lobby` needs one question only, as its properties are about players, and
`FairDeal` checks the questions. `voting`, `answers_hang` and `resurrected` start
inside a game because the states before are those of `refinement`; players and questions are there fixed up to
renaming. Two failures suffice for a failure while the trace of another is still in the tables. `rounds` needs four players, of
whom two vote in a round, so that a round is announced while it is open; two closed rounds make one that can be
announced wrongly next to one that was all right, and leave one change of round and the end of the game to go
through. Its second start, after a failure, has the only pair that is sent after it was saved. In `pages` the questions
and players are fixed up to renaming (no step compares two questions but through the deal); one player with both prompts
to one question is the draw in which shown and stored could be confused without notice. Two losses allow one in each
half of a POST and its reload, or one for each of two prompts. `Wait` lets an idle
bot wait, so that the deadlock check finds a worker that holds a request and cannot go on. The four workers are those of `main`; three connections are
one for a worker that panics, one for a worker that is busy, and one left in the channel meanwhile. The pool ends, so `pool` does not ask for the absence of deadlock: that nothing
gets stuck before the end is `DropReturns` and `ServesEverybody`; likewise `pages`, where
every page may be closed after `/end`, and `AllPromptsAnswered`.

Fairness. The code never acts by itself (no timer is implemented), so progress can only come from the players; nobody
is assumed to start, join, begin or end a game.

`PromptPage` assumes that requests end, one way or the other (weak fairness of `Fetch`/`FetchLost` and of the three
outcomes of a POST), that a player opens the page while it is closed and leaves it when it is stuck (weak), and
that a player who is asked again and again types something in the end (strong fairness of `Submit`: the page may be
closed in between, so that the question is on show now and then only). The losses are bounded, since with a request
lost every time nothing can be promised.

`Bot` assumes in `rounds` that workers go on with what they have begun (weak fairness of `Step`), and that some player
who is still to vote presses a button that is on show, or somebody asks for the status when none is (strong fairness
of `VoteOnShow` and `AskStatus`: both need an idle worker, and requests of others may take it again and again). A vote
that failed has to be pressed again: that is the retry the code leaves to its users.

`ThreadPool` assumes that threads run (`Start`, `SendTerminate`, `Join`), that a free lock is taken by some thread that
waits for it (which one is not said: a Rust `Mutex` is not fair), that `recv()` returns when the channel is not empty, and that
`handle_connection` ends. The last is an assumption about the database, Telegram and the client of the connection: the code
sets no time limit on them, and a worker that waits for one of them is lost to the pool. `Service` asks for weak fairness of `Served` for every
connection, which follows from these.

## What the violations show

`ended`: `all_votes_are_in` asks for one vote on each question, so the last round is over after its first vote.
`answers_hang`, `resurrected`: a handler decides on, and writes back, what it read. `shown`: `find_token` has a `LIMIT 1`
without an `ORDER BY`; the page that was opened with a player's second token shows the first question, and the response is
stored under the second.

The same models, with other constants or initial states, show further consequences that are not kept as runs of their
own:

* `NoVoteOnOwnQuestion`, `OneVotePerQuestion` and `ClosedRoundsComplete` fail in `serial` with `Repeats = TRUE`, and
  `OnlyOthersVote` in the setting of `voting` after such a draw: `find_random` draws with replacement
  (`src/persistence/question.rs:35`), a question may have four prompts, and only the two players on show are refused.
* `OneVotePerQuestion` fails in the setting of `voting`: both buttons of one user on two workers; `already_voted`
  (`src/game/mod.rs:252`) is decided on the votes that were read, and the table is unique only in `(user_id, answer_id)`.
* `StoredAsShownByFirstToken` fails with two tabs: each shows the first question, the second post fills the other prompt.
  So does `NothingTypedInVain`: the other tab has filled the last one.
* `NothingTypedInVain` fails for a page left open from an earlier game: `find_with_token` (`src/persistence/question.rs:62`)
  goes from the token to the user and on to the running game's question, which the old token cannot answer; the POST is refused
  and the page, which looks at no status, asks the same question again.
* In `rounds`, results of a round that is still open are sent: a vote whose answer is not the first of the pair that was
  read announces them (`src/controller/mod.rs:361`). Final scores may be sent twice, and with different votes, when
  `persist_end` fails; and a vote that closed a round, and was announced, is not counted in the end when its INSERT
  fails after the next question was saved (`src/persistence/game.rs:180-198`).
* While votes are gathered `/status` announces those who still need to *answer their prompts* (`src/controller/mod.rs:113`
  calls `remaining_answers_message`); `remaining_voters_message` is never called.

* `ResponsesKept` fails in the setting of `answers_hang`: `save_all` (`src/persistence/answer.rs:77`) writes all the
  answers a post read, the unanswered ones as `NULL`, over the response another post has stored in between.
* `OneRunningGame` fails with two workers and `Kinds = {"new"}`: two `/new` both find no running game.
* With two workers and a lobby of three, a fourth user whose join overlaps `/begin` is in a game without a prompt: the
  user is in `game_user`, has no prompt and is refused as a voter.
* `NobodyPanics` fails in the same setting: `find_random` counts one user more than `find_running` read, and
  `users.get(i).unwrap()` (`src/game/mod.rs:168`) panics.
* `NobodyPanics` fails with one worker and one failure among the INSERTs of a deal: the question left with one prompt
  makes `next` panic (`src/game/mod.rs:372`) when all prompts there are answered.
* `NeverHangs` fails with two workers and votes only: two last votes each miss the other, or one saves the question
  of a round the other has closed.
* After one failure between `save` and `save_all` of the last post (`src/controller/mod.rs:278-287`) the voting is
  open while a response is missing in the table.

## Proofs

Every theorem holds for all values of the constants, under the named assumption of its module about them (the null
values are not data, the bounds are natural numbers; of `Bot` also that the users are finitely many). Where a theorem
needs more it says so.

| module | theorem | property | for |
|---|---|---|---|
| `GameProofs` | `TypeCorrect`, `GameNeverHangs`, `VotesAreOnResponses`, `AnswersAreKept` | `TypeOK`, `AlwaysAVoter`, `VotesSeeResponses`, `AnswersKept` | every draw |
| | `DealsAreFair` | `FairDeal` | every draw |
| | `NoOwnVotes`, `OneVoteEach`, `RoundsAreComplete` | `NoVoteOnOwnQuestion`, `OneVotePerQuestion`, `ClosedRoundsComplete` | every game whose draw repeats no question (`DistinctDraw`) |
| | `DistinctDrawsSuffice` | the same three | a bot that draws without replacement (`~Repeats`) |
| `PromptPageProofs` | `PagesAreTyped`, `DoneSaysTheTruth` | `PageTypeOK`, `DoneIsTrue` | every deal to three players or more, any tabs and losses |
| | `NothingIsTypedInVain`, `FirstTokenStoresAsShown` | `NothingTypedInVain`, `StoredAsShownByFirstToken` | one tab per player (`SingleTab`) |
| | `PagesPlayTheGame` | the pages' steps are steps of `Game` | as the first |
| `ThreadPoolProofs` | `TypeCorrect`, `NobodyServedTwice`, `DropIsGraceful`, `RecvNeverFails` | `TypeOK`, `HandledOnce`, `DropAnswersAll`, `ChannelOutlivesWorkers` | any threads, connections and panics |
| | `PoolImplementsService` | initial states and steps of `Service`, the safety half of `ServesEverybody` | as above |
| `BotProofs` | `TypeCorrect`, `NoGameTooSmall`, `ThereIsAPair` | `TypeOK`, `EnoughPlayers`, `PairIsThere` | any number of workers, any failures, any requests |
| | `DealsArePaired` | `PromptsArePaired` | any number of workers, any requests, no failures (`NoFailures`) |
| `BotSerialProofs` | `OneGameAtATime`, `GamesMoveForward`, `ResponsesAreKept` | `OneRunningGame`, `OnlyForward`, `ResponsesKept` | one worker (`SingleWorker`), any failures, any requests |
| `BotVoteProofs` | `VotesAreFair`, `VotersNeverPanic`, `RoundsAreShown` | `OnlyOthersVote`, `NobodyPanics`, `RoundOnShow` | any number of workers, any failures, from dealt and answered games (`FairVoting`) without `/new` (`NoNewGames`) |
| | `NobodyVotesTwice`, `RoundsAreAnnounced`, `ScoresCountAllVotes` | `OneVotePerQuestion`, `ClosedRoundsAnnounced`, `ScoresAreTrue` | one worker, any failures, from such games in the middle of an orderly voting (`OrderlyVoting`), without `/new` |
| `BotRefinesGameProofs` | `BotImplementsGame` | `ImplementsGame` | one worker, no failures, any requests |
| | `GamesNeverHang` | `NeverHangs` | one worker, no failures, any requests |

The hypotheses are where the code needs them. With a repeated question, a second tab or a second worker TLC finds the
properties they are assumed for violated, also `OneVotePerQuestion`, `ClosedRoundsAnnounced` and `ScoresAreTrue` from the
states of `rounds`, and `NeverHangs`, and with one failure `PromptsArePaired`.
`NobodyPanics` fails where `/begin` meets a join or fails half-way. A handler that fails leaves half of its statements
behind, which `PromptsArePaired`, `NeverHangs` and `Game` (its actions are whole handlers) do not allow; the other theorems
about `Bot` do not mind. `NoNewGames` and `FairVoting` set the scene of the votes; `RoundOnShow`, and the properties in
`OrderlyVoting`, are about what was said and stored before, so the voting starts in a state that has them:
`OpenVotingIsOrderly` proves that one that has just opened does, and those `rounds` starts from are others.

`GameRulesProofs` holds the lemmas about the pure functions that the others cite: `DealIsSound`, `DealFillsRows`,
`DealIsFair` and `DealPairsPlayers` say what `Deal` gives for any number of players, draw and order, `MinOfNaturals` that a
first row exists and is a row (well-foundedness of `<`), `PairIsWholeQuestion` that a pair is all there is of a question
whose rows have one other each, `NotAllInMeansUnvoted` and `AllInMeansAllVoted` that counting two sets (`all_votes_are_in`)
compares them.

**`Game`.** `AlwaysAVoter` is not inductive: that the question chosen next has two answers, and a player who wrote
neither and has not voted on it, follows from how the prompts were dealt and from the choice of a question without votes.
`IInv` therefore adds to the type invariant that the users are finitely many, that a game in play was dealt soundly
(`Begun`: at least three authors, every prompt has another one to the same question), that there are no votes before the
voting, and the two safety properties. For the votes `VInv` adds that voters are players (`VotersPlay`), that the deal is
fair, and the three properties together, since each needs the others: a round that closes is complete because a
vote was counted on the question it was cast for, which holds because the pair is the whole question. `PromptIsOpen` says that the
voting opens no later than with the last response (no earlier either: `VotesSeeResponses`).

**`PromptPage`.** The pages change the game by `AnswerPrompt` and `/end` only (`PageStepIsGameStep`), so `IInv` of `Game` goes
on to hold. `PInv` adds that a page keeps a token of its player (`TokensAreOwn`); for one tab `AsksFirstOpen` says that
the question on show is that of the player's first open prompt, which only the page itself can fill. The initial states
are all deals to all users, those of the run among them.

**`ThreadPool`.** `IInv` says where every accepted connection is (`Placed`), that the Terminates come last and nothing is
in the channel twice (`Channel`), what a stopped or dead worker says about the channel (`Shutdown`), and, by counting, that
there is a Terminate for each worker left (`TerminateForEach`): this is why `recv()` does not fail, and why a worker that
panicked does not keep the others from stopping. `PoolImplementsService` maps each action to a step or a stutter.

**`Bot`, the tables** (`BotProofs`). What makes `EnoughPlayers` and `PairIsThere` hold whatever races is that nothing is
deleted: a worker's copy may be stale, but the players, and the two rows of a question, that it has seen are still there.
`IInv` says so of the tables (`TablesOK`) and of everything a worker holds (`WorkerOK`): the game it works on has three
players if it is to be begun, and each statement it is going to execute is one of `Statements`, where a question is saved only
with a pair in the tables. There is one lemma per statement (`SetVotingOK`, ...; together `ApplyOK`), and the others say that a handler leaves only such
statements. `UpdateAnswers` holds the rows of `save_all` that are not written yet, one UPDATE a step (`Left`).

`PromptsArePaired` is about the tables between handlers, and a deal is an INSERT a step, among those of others. `EInv`
therefore counts each prompt from the moment it is planned: it is a row, or an INSERT some worker has still to execute
(`Pending`). Rows and INSERTs of a player add up to an even number, since a deal plans two at once and executing one moves
it from here to there; and every prompt, stored or planned, has one of another player to its question. An INSERT is named
by how many statements follow it, so that executing those before it does not rename it.

**`Bot`, one worker** (`BotSerialProofs`). `SInv` says that the state in which a handler found its game is the state it
still has, and that the statements left fit the tables and do not spoil one another (`TodoFits`); a failure drops a tail of
them, which keeps this.

**`Bot`, the voting** (`BotVoteProofs`). First, any number of workers. With all answers there, the copies of answers that racing workers hold are not
stale (`VoterOK`), only those of votes are; `AcceptedIsFair` and `CountingIsSafe` do not depend on them. For the messages,
`RInv` adds that every worker that is going to save a question has shown it before or will, earlier in its list (`ShownFirst`),
and stores its vote only with its game's question on show. `FairVoting` is a state in which every question has two
authors, both in the game, and all responses are there: `AnsweredDealIsDealt` proves it of what `begin_game` deals to the
players of a lobby from a draw without repetition, once it is answered.

Then, one worker. The copy of the votes is not stale, so a vote that is accepted is the voter's first on the question, and
the results show all votes stored on it and this one. What could still go wrong is the order: the results are sent, the
question is replaced, the vote stored, and any of the three may be the last. `CInv` says that whoever is going to replace
a question has the results of the old one behind it or earlier in its list, with the vote it stores after it (`NewRound`,
`NewVote`); that scores were sent in the last round only (`LastRound`), where every vote that is accepted ends the game and
none is stored, so the scores stay true (`Scored`) however often a failed `persist_end` makes players vote again.

**`Bot` as `Game`** (`BotRefinesGameProofs`). `Settled` is the tables after all statements that are left. `After` is a
recursive function, and what it computes for a list cannot be proved by induction; but there is one course of the tables
through a list (`Course`), because two would differ first somewhere (`CourseIsUnique`), and there is one, because the shortest
list without it would have one for all but its last statement (`CourseExists`). From this `AfterFirst` follows, then what the statements of each handler add up to: all INSERTs of
a deal (`AfterInserts`), all UPDATEs of `save_all` (`AllUpdated`), messages nothing (`AfterMessages`). There is one lemma per
handler (`CreateRefines`, ..., `GameOverRefines`), one that executing a statement changes nothing in the tables as they will be
(`ExecuteRefines`), and `RInv` is what they need: the copies of the worker are the rows (`UpToDate`), only the last game is
running, it has no prompts while it gathers users, and only games that have ended have scores (`Tidy`). The theorems about `Game`
then hold of the bot; `GamesNeverHang` carries `AlwaysAVoter` and `PromptIsOpen` over, through a second instance (`Proved`) of
`Game` with its proofs.

Only model-checked: the liveness properties, which are out of the prover's reach (`AllPromptsAnswered`, `VotingEnds`,
`DropReturns`, the fairness half of `ServesEverybody`). Every invariant and every action property of the passing runs has a
theorem. The `violation` runs have nothing to prove.

## Not modelled

The wording and layout of messages, HTTP and JSON; names of users; time stamps and warnings (columns the code never
reads); parsing of updates and query strings; configuration and deployment. `/start` and `/top` read and change nothing.
The messages of the lobby: when the join button or the launch button is lost, `/status` sends it again. A crash of the whole
process is a failure of every worker's remaining statements: `Fail` covers each of them, the lost database connection,
which no worker ever opens again, is not modelled. How a request is read from its socket (one `read`,
`src/http/server/mod.rs:137`) is in `ThreadPool` by its outcome only: `Panic`; so is the slice past the end of an answer
of Telegram that was cut short (`src/http/client/mod.rs:136`), which in `Bot` is no step. `find_running` fails if
the current question has fewer than two prompts; `PairIsThere` says that it has them, so that failure is no step of `Bot`.
The page is modelled from the deal to the vote, with tokens of that deal. `find_random` takes its ids from
`Uniform::from(1..question_count - 1)`, which panics with two questions or fewer and never draws the last two: the models
have a set of questions and no numbers in it.

## Plan

1. done: `GameRules`, `Game`, `Bot` with its messages, `BotRefinesGame`, `PromptPage`, `ThreadPool` and `Service`.
2. done: the proofs above.
3. Left: nothing of what a run checks but liveness. Outside of these modules: the numbers `find_random` draws, and the
   properties a second worker would keep if `save` looked at what it overwrites, which it does not.
