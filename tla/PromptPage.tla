------------------------------- MODULE PromptPage -------------------------------
(***************************************************************************)
(* The web page on which the players of a game answer their prompts         *)
(* (nginx/js/), as a client of the bot, from the deal of a game to the vote.  *)
(*                                                                         *)
(* The button under the "Enter your prompts" message opens the page with    *)
(* the token of one of the player's prompts (find_token).  The page fetches *)
(* a question with that token (find_with_token), shows it, posts what the   *)
(* player types with the same token, whatever the status of the answer is,  *)
(* and fetches again.  A request handled by the bot is one step, as in      *)
(* Game; that the page asks and the bot answers are two, with anything of   *)
(* the others in between.                                                   *)
(***************************************************************************)
EXTENDS Game

CONSTANTS
    Tabs,       \* the tabs in which a player may have the page open
    MaxLost     \* bound on requests or answers lost, or answered in vain

ASSUME PageAssumption == MaxLost \in Nat

VARIABLES
    page,       \* per user and tab, what the page is doing
    lost        \* how often a request has been lost so far

pageVars == <<page, lost>>
allVars == <<vars, pageVars>>

Closed == [at |-> "closed"]

(* The page shows an empty window or a button that stays disabled: an await  *)
(* of fetch() or json() has thrown.                                          *)
Stuck == [at |-> "stuck"]

(* "You have answered all your prompts!" *)
Done == [at |-> "done"]

Loading(t) == [at |-> "loading", token |-> t]
Asking(t, q) == [at |-> "asking", token |-> t, question |-> q]
Posting(t, q, r) == [at |-> "posting", token |-> t, question |-> q, response |-> r]

(* Page k of user u goes on with x. *)
Show(u, k, x) == page' = [page EXCEPT ![u][k] = x]

Prompts(u) == {t \in DOMAIN answers : answers[t].user = u}

-------------------------------------------------------------------------------
(* launch_game: find_token returns some token of the player (LIMIT 1 without *)
(* an ORDER BY) as long as the game runs.                                    *)
Launch(u, k) ==
    /\ page[u][k] = Closed
    /\ Playing
    /\ \E t \in Prompts(u) : Show(u, k, Loading(t))
    /\ UNCHANGED <<vars, lost>>

Close(u, k) ==
    /\ page[u][k].at \in {"asking", "done", "stuck"}
    /\ Show(u, k, Closed)
    /\ UNCHANGED <<vars, lost>>

(* Mutants: the prompt of the token only; without `response IS NULL'; no      *)
(* error when there is no prompt, so that the page shows "undefined".        *)
FetchOwn(u, k) ==
    LET t == page[u][k].token IN
    /\ page[u][k].at = "loading"
    /\ IF phase = "gather_answers" /\ ~Answered(answers, t)
       THEN Show(u, k, Asking(t, answers[t].question))
       ELSE Show(u, k, Done)
    /\ UNCHANGED <<vars, lost>>

FetchFirst(u, k) ==
    /\ page[u][k].at = "loading"
    /\ IF phase = "gather_answers"
       THEN Show(u, k, Asking(page[u][k].token, answers[Min(Prompts(u))].question))
       ELSE Show(u, k, Done)
    /\ UNCHANGED <<vars, lost>>

FetchUndefined(u, k) ==
    LET open == Unanswered(u, answers) IN
    /\ page[u][k].at = "loading"
    /\ Show(u, k, Asking(page[u][k].token,
                         IF phase = "gather_answers" /\ open # {}
                         THEN answers[Min(open)].question ELSE NoQuestion))
    /\ UNCHANGED <<vars, lost>>

(* GET /app: the first unanswered prompt of the token's player, while the    *)
(* answers are gathered; ALREADY_ANSWERED otherwise.                         *)
Fetch(u, k) ==
    LET open == Unanswered(u, answers) IN
    /\ page[u][k].at = "loading"
    /\ IF phase = "gather_answers" /\ open # {}
       THEN Show(u, k, Asking(page[u][k].token, answers[Min(open)].question))
       ELSE Show(u, k, Done)
    /\ UNCHANGED <<vars, lost>>

(* The GET or its answer is lost, or it fails inside: an empty 200 is no JSON. *)
FetchLost(u, k) ==
    /\ page[u][k].at = "loading"
    /\ lost < MaxLost
    /\ lost' = lost + 1
    /\ Show(u, k, Stuck)
    /\ UNCHANGED vars

(* The player types r; the button is disabled until the next question. *)
Submit(u, k, r) ==
    /\ page[u][k].at = "asking"
    /\ Show(u, k, Posting(page[u][k].token, page[u][k].question, r))
    /\ UNCHANGED <<vars, lost>>

(* POST /app stores the response; its answer comes, or is lost. *)
PostStored(u, k) ==
    /\ page[u][k].at = "posting"
    /\ AnswerPrompt(page[u][k].token, page[u][k].response)
    /\ \/ /\ Show(u, k, Loading(page[u][k].token))
          /\ UNCHANGED lost
       \/ /\ lost < MaxLost
          /\ lost' = lost + 1
          /\ Show(u, k, Stuck)

(* POST /app is refused, as AlreadyAnswered, NoneWithToken, InvalidTransition *)
(* or for want of a running game; the page does not look at the status.      *)
PostRefused(u, k) ==
    /\ page[u][k].at = "posting"
    /\ ~(phase = "gather_answers" /\ CanAnswer(page[u][k].token, answers))
    /\ Show(u, k, Loading(page[u][k].token))
    /\ UNCHANGED <<vars, lost>>

(* The POST is lost on its way, or nginx answers 502 for it. *)
PostLost(u, k) ==
    /\ page[u][k].at = "posting"
    /\ lost < MaxLost
    /\ lost' = lost + 1
    /\ \E x \in {Stuck, Loading(page[u][k].token)} : Show(u, k, x)
    /\ UNCHANGED vars

GameEnds ==
    /\ EndGame
    /\ UNCHANGED pageVars

PageStep(u, k) ==
    \/ Launch(u, k) \/ Close(u, k)
    \/ Fetch(u, k) \/ FetchLost(u, k)
    \/ \E r \in Responses : Submit(u, k, r)
    \/ PostStored(u, k) \/ PostRefused(u, k) \/ PostLost(u, k)

PageNext ==
    \/ \E u \in Users, k \in Tabs : PageStep(u, k)
    \/ GameEnds

(* A game has been dealt to all users, nobody has opened the page yet. *)
PageInit(order, draw) ==
    /\ phase = "gather_answers"
    /\ users = Users
    /\ answers = Deal(order, draw, 0)
    /\ current = NoQuestion
    /\ votes = {}
    /\ issued = 2 * Cardinality(Users)
    /\ page = [u \in Users |-> [k \in Tabs |-> Closed]]
    /\ lost = 0

(* Requests are answered, a page that is stuck is left and the page opened   *)
(* again; who is asked again and again, reloads or not, answers in the end.  *)
(* Nobody has to end the game.                                               *)
Fairness ==
    /\ \A u \in Users :
        /\ SF_allVars(\E k \in Tabs, r \in Responses : Submit(u, k, r))
        /\ \A k \in Tabs :
            /\ WF_allVars(Launch(u, k))
            /\ WF_allVars(page[u][k] = Stuck /\ Close(u, k))
            /\ WF_allVars(Fetch(u, k) \/ FetchLost(u, k))
            /\ WF_allVars(PostStored(u, k) \/ PostRefused(u, k) \/ PostLost(u, k))

-------------------------------------------------------------------------------
PageState ==
    LET token == 1 .. issued IN
    {Closed, Stuck, Done}
        \cup {Loading(t) : t \in token}
        \cup {Asking(t, q) : t \in token, q \in Questions}
        \cup {Posting(t, q, r) : t \in token, q \in Questions, r \in Responses}

(* Type invariant. *)
PageTypeOK ==
    /\ page \in [Users -> [Tabs -> PageState]]
    /\ lost \in 0 .. MaxLost

StoredNow(t) == answers'[t].response # answers[t].response

(* A response is stored with the question that the player was looking at     *)
(* while typing it: <label>${question}<input> of prompt.js.                  *)
StoredAsShown ==
    [][\A t \in DOMAIN answers : StoredNow(t) =>
          \E k \in Tabs :
              LET p == page[answers[t].user][k] IN
              p.at = "posting" /\ p.question = answers[t].question
                  /\ p # page'[answers[t].user][k]]_allVars

(* So it is with a page that was opened with the token of the player's first  *)
(* prompt: then the prompt that is shown (the first unanswered one) and the   *)
(* prompt that is filled (the token's own, then the first unanswered one) are *)
(* the same.                                                                  *)
StoredAsShownByFirstToken ==
    [][\A t \in DOMAIN answers : StoredNow(t) =>
          \E k \in Tabs :
              LET p == page[answers[t].user][k] IN
              /\ p.at = "posting" /\ p # page'[answers[t].user][k]
              /\ p.token = Min(Prompts(answers[t].user)) =>
                    p.question = answers[t].question]_allVars

(* "You have answered all your prompts!" is only said when it is so, as long  *)
(* as it matters.                                                             *)
DoneIsTrue ==
    \A u \in Users, k \in Tabs :
        page[u][k] = Done /\ phase = "gather_answers" => Unanswered(u, answers) = {}

(* What a player has typed is not refused: however often the page was         *)
(* reloaded, with whichever token, and whatever was lost before, a page that  *)
(* posts while the answers are gathered finds a prompt to fill.  The page     *)
(* would drop the response without a word.                                    *)
NothingTypedInVain ==
    \A u \in Users, k \in Tabs :
        page[u][k].at = "posting" /\ phase = "gather_answers" =>
            CanAnswer(page[u][k].token, answers)

(* One link is enough, whichever it is: players who answer on the page, and   *)
(* open it again when it is stuck, get all prompts answered, though requests  *)
(* are lost.                                                                  *)
AllPromptsAnswered == phase = "gather_answers" ~> phase # "gather_answers"
=================================================================================
