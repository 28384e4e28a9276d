--------------------------- MODULE PromptPageProofs ---------------------------
(***************************************************************************)
(* Theorems about PromptPage, for every deal of begin_game to any number of *)
(* players, any number of tabs and of lost requests; those about what is    *)
(* typed hold for players with one tab.                                     *)
(***************************************************************************)
EXTENDS PromptPage, GameProofs

(* Any deal to enough players; the runs take the deals of MCPromptPage. *)
AnyDeal ==
    /\ IsFiniteSet(Users)
    /\ Cardinality(Users) >= MinPlayers
    /\ \E order \in Bijection(1 .. Cardinality(Users), Users),
          draw \in [1 .. Cardinality(Users) -> Questions] : PageInit(order, draw)

AnySpec == AnyDeal /\ [][PageNext]_allVars

SingleTab == \A k, l \in Tabs : k = l

-------------------------------------------------------------------------------
(* The inductive invariant.                                                 *)

(* A page is opened with a token of its player, and keeps it. *)
TokensAreOwn ==
    \A u \in Users, k \in Tabs :
        page[u][k].at \in {"loading", "asking", "posting"} => page[u][k].token \in Prompts(u)

PInv == IInv /\ phase # "gather_users" /\ PageTypeOK /\ TokensAreOwn /\ DoneIsTrue

(* What a page with the only tab shows is the player's first open prompt,     *)
(* until the game moves on.                                                   *)
AsksFirstOpen ==
    \A u \in Users, k \in Tabs :
        page[u][k].at \in {"asking", "posting"} /\ phase = "gather_answers" =>
            /\ Unanswered(u, answers) # {}
            /\ page[u][k].question = answers[Min(Unanswered(u, answers))].question

-------------------------------------------------------------------------------
(* The pages.                                                               *)

Shaped(p) ==
    /\ p.at \in {"closed", "stuck", "done", "loading", "asking", "posting"}
    /\ p.at = "done" <=> p = Done
    /\ p.at \in {"loading", "asking", "posting"} => p.token \in 1 .. issued
    /\ p.at \in {"asking", "posting"} => p.question \in Questions
    /\ p.at = "posting" => p.response \in Responses

LEMMA PageShape == ASSUME NEW p \in PageState PROVE Shaped(p)
<1>1. \/ p \in {Closed, Stuck, Done}
      \/ \E t \in 1 .. issued : p = Loading(t)
      \/ \E t \in 1 .. issued, q \in Questions : p = Asking(t, q)
      \/ \E t \in 1 .. issued, q \in Questions, r \in Responses : p = Posting(t, q, r)
    BY DEF PageState
<1>2. CASE p \in {Closed, Stuck, Done}
    <2>1. p.at \in {"closed", "stuck", "done"} /\ (p.at = "done" <=> p = Done)
        BY <1>2 DEF Closed, Stuck, Done
    <2> QED
        BY <2>1 DEF Shaped
<1>3. ASSUME NEW t \in 1 .. issued, p = Loading(t) PROVE Shaped(p)
    <2>1. p.at = "loading" /\ p.token = t /\ Done.at = "done"
        BY <1>3 DEF Loading, Done
    <2> QED
        BY <2>1 DEF Shaped
<1>4. ASSUME NEW t \in 1 .. issued, NEW q \in Questions, p = Asking(t, q) PROVE Shaped(p)
    <2>1. p.at = "asking" /\ p.token = t /\ p.question = q /\ Done.at = "done"
        BY <1>4 DEF Asking, Done
    <2> QED
        BY <2>1 DEF Shaped
<1>5. ASSUME NEW t \in 1 .. issued, NEW q \in Questions, NEW r \in Responses, p = Posting(t, q, r)
      PROVE  Shaped(p)
    <2>1. p.at = "posting" /\ p.token = t /\ p.question = q /\ p.response = r /\ Done.at = "done"
        BY <1>5 DEF Posting, Done
    <2> QED
        BY <2>1 DEF Shaped
<1> QED
    BY <1>1, <1>2, <1>3, <1>4, <1>5

LEMMA ShowOne ==
    ASSUME PageTypeOK, NEW u \in Users, NEW k \in Tabs, NEW x \in PageState, Show(u, k, x)
    PROVE  /\ page' \in [Users -> [Tabs -> PageState]]
           /\ page'[u][k] = x
           /\ \A v \in Users, l \in Tabs : v # u \/ l # k => page'[v][l] = page[v][l]
BY DEF PageTypeOK, Show

LEMMA InitPInv == AnyDeal => PInv /\ AsksFirstOpen
<1> SUFFICES ASSUME AnyDeal PROVE PInv /\ AsksFirstOpen
    OBVIOUS
<1> DEFINE n == Cardinality(Users)
<1>1. n \in Nat /\ n >= 1 /\ n >= MinPlayers
    BY FS_CardinalityType DEF AnyDeal, MinPlayers
<1>2. PICK order \in Bijection(1 .. n, Users), draw \in [1 .. n -> Questions] : PageInit(order, draw)
    BY DEF AnyDeal
<1>3. /\ phase = "gather_answers" /\ users = Users /\ answers = Deal(order, draw, 0)
      /\ current = NoQuestion /\ votes = {} /\ issued = 2 * n /\ lost = 0
      /\ page = [u \in Users |-> [k \in Tabs |-> Closed]]
    BY <1>2 DEF PageInit
<1>4. IsFiniteSet(users) /\ Cardinality(users) >= MinPlayers
    BY <1>3 DEF AnyDeal
<1> HIDE DEF n
<1>5. SoundDeal(answers, n, Users, Questions, 0)
    BY <1>1, <1>3, DealIsSound
<1>6. TypeOK
    BY <1>1, <1>3, <1>5 DEF SoundDeal, TypeOK, Prompt
<1>7. Begun
    BY <1>3, <1>4, <1>5 DEF SoundDeal, Begun
<1>8. IInv
    BY <1>3, <1>4, <1>6, <1>7 DEF IInv, VotesSeeResponses, AlwaysAVoter
<1>9. PageTypeOK
    BY <1>3, PageAssumption DEF PageTypeOK, PageState
<1>10. \A u \in Users, k \in Tabs : page[u][k] = Closed
    BY <1>3
<1>11. Closed.at = "closed" /\ Closed # Done
    BY DEF Closed, Done
<1> QED
    BY <1>3, <1>8, <1>9, <1>10, <1>11 DEF PInv, TokensAreOwn, DoneIsTrue, AsksFirstOpen

-------------------------------------------------------------------------------
(* A response that is stored.                                               *)

(* It is one open prompt less for the player it came from, and the same for   *)
(* everybody else.                                                            *)
LEMMA FillsOne ==
    ASSUME IInv, NEW t \in 1 .. issued, NEW r \in Responses, AnswerPrompt(t, r)
    PROVE  LET a == AnswerTarget(t, answers) IN
           /\ a \in Unanswered(answers[t].user, answers)
           /\ DOMAIN answers' = DOMAIN answers
           /\ \A s \in DOMAIN answers :
                 /\ answers'[s].user = answers[s].user
                 /\ answers'[s].question = answers[s].question
                 /\ s # a => answers'[s] = answers[s]
           /\ \A u : Unanswered(u, answers') = Unanswered(u, answers) \ {a}
<1> DEFINE a == AnswerTarget(t, answers)
<1>1. a \in Unanswered(answers[t].user, answers)
    BY AnswerTargetIsUnanswered DEF AnswerPrompt, IInv, TypeOK
<1>2. answers' = [answers EXCEPT ![a].response = r]
    BY DEF AnswerPrompt, Filled
<1> HIDE DEF a
<1>3. a \in DOMAIN answers
    BY <1>1 DEF Unanswered
<1>4. /\ DOMAIN answers' = DOMAIN answers
      /\ \A s \in DOMAIN answers :
            /\ answers'[s].user = answers[s].user
            /\ answers'[s].question = answers[s].question
            /\ s # a => answers'[s] = answers[s]
      /\ answers'[a].response = r
    BY <1>2, <1>3 DEF IInv, TypeOK, Prompt
<1>5. \A u : Unanswered(u, answers') = Unanswered(u, answers) \ {a}
    BY <1>3, <1>4, ConstantsAssumption DEF Unanswered, Answered
<1> QED
    BY <1>1, <1>4, <1>5 DEF a

(* The first prompt of a player, when it is open, is the first open one. *)
LEMMA FirstPromptFirst ==
    ASSUME IInv, NEW u, NEW t, t = Min(Prompts(u)), Unanswered(u, answers) # {}
    PROVE  AnswerTarget(t, answers) = Min(Unanswered(u, answers))
<1>1. /\ Prompts(u) \subseteq Nat /\ Prompts(u) # {}
      /\ Unanswered(u, answers) \subseteq Prompts(u)
    BY DEF Prompts, Unanswered, IInv, TypeOK
<1>2. t \in Prompts(u) /\ \A s \in Prompts(u) : t =< s
    BY <1>1, MinOfNaturals
<1>3. answers[t].user = u /\ t \in DOMAIN answers
    BY <1>2 DEF Prompts
<1>4. CASE ~Answered(answers, t)
    <2> DEFINE m == Min(Unanswered(u, answers))
    <2>1. t \in Unanswered(u, answers)
        BY <1>3, <1>4 DEF Unanswered
    <2>2. m \in Unanswered(u, answers) /\ \A s \in Unanswered(u, answers) : m =< s
        BY <1>1, MinOfNaturals
    <2>3. m =< t /\ t =< m /\ m \in Nat /\ t \in Nat
        BY <1>1, <1>2, <2>1, <2>2
    <2>4. m = t
        BY <2>3
    <2> QED
        BY <1>4, <2>4 DEF AnswerTarget
<1>5. CASE Answered(answers, t)
    BY <1>3, <1>5 DEF AnswerTarget
<1> QED
    BY <1>4, <1>5

-------------------------------------------------------------------------------
(* Every step keeps the invariant.                                          *)

(* For the bot every step of a page is a request of Game, or none. *)
LEMMA PageStepIsGameStep == PInv /\ [PageNext]_allVars => [Next]_vars
<1> SUFFICES ASSUME PInv, [PageNext]_allVars PROVE [Next]_vars
    OBVIOUS
<1>1. ASSUME NEW u \in Users, NEW k \in Tabs, PostStored(u, k) PROVE Next
    <2>1. page[u][k] \in PageState /\ page[u][k].at = "posting"
        BY <1>1 DEF PostStored, PInv, PageTypeOK
    <2>2. page[u][k].token \in 1 .. issued /\ page[u][k].response \in Responses
        BY <2>1, PageShape DEF Shaped
    <2> QED
        BY <1>1, <2>2 DEF PostStored, Next
<1>2. ASSUME NEW u \in Users, NEW k \in Tabs, PageStep(u, k), ~PostStored(u, k)
      PROVE  UNCHANGED vars
    BY <1>2 DEF PageStep, Launch, Close, Fetch, FetchLost, Submit, PostRefused, PostLost
<1>3. CASE GameEnds
    BY <1>3 DEF GameEnds, Next
<1>4. CASE UNCHANGED allVars
    BY <1>4 DEF allVars
<1> QED
    BY <1>1, <1>2, <1>3, <1>4 DEF PageNext

LEMMA OwnToken ==
    ASSUME PInv, NEW u \in Users, NEW k \in Tabs,
           page[u][k].at \in {"loading", "asking", "posting"}
    PROVE  /\ page[u][k].token \in 1 .. issued /\ page[u][k].token \in Prompts(u)
           /\ page[u][k].token \in DOMAIN answers /\ answers[page[u][k].token].user = u
           /\ page[u][k].at # "loading" => page[u][k].question \in Questions
           /\ page[u][k].at = "posting" => page[u][k].response \in Responses
<1>1. page[u][k] \in PageState
    BY DEF PInv, PageTypeOK
<1>2. page[u][k].token \in Prompts(u)
    BY DEF PInv, TokensAreOwn
<1> QED
    BY <1>1, <1>2, PageShape DEF Shaped, Prompts

(* What a page may show next: with a token of its player, and as done only if *)
(* no prompt is open. *)
Fits(u, x) ==
    /\ x \in PageState
    /\ x.at \in {"loading", "asking", "posting"} => x.token \in Prompts(u)
    /\ x.at = "done" /\ phase = "gather_answers" => Unanswered(u, answers) = {}

LEMMA ShowKeeps ==
    ASSUME PInv, NEW u \in Users, NEW k \in Tabs, NEW x, Fits(u, x), Show(u, k, x),
           lost' \in 0 .. MaxLost, issued' = issued,
           phase' = "gather_answers" => phase = "gather_answers",
           \A v : Prompts(v)' = Prompts(v) /\ Unanswered(v, answers') \subseteq Unanswered(v, answers)
    PROVE  PageTypeOK' /\ TokensAreOwn' /\ DoneIsTrue'
<1>1. /\ page' \in [Users -> [Tabs -> PageState]]
      /\ page'[u][k] = x
      /\ \A v \in Users, l \in Tabs : v # u \/ l # k => page'[v][l] = page[v][l]
    BY ShowOne DEF Fits, PInv
<1>2. PageState' = PageState
    BY DEF PageState
<1>3. PageTypeOK'
    BY <1>1, <1>2 DEF PageTypeOK
<1>4. TokensAreOwn'
    BY <1>1 DEF TokensAreOwn, PInv, Fits
<1>5. DoneIsTrue'
    <2> SUFFICES ASSUME NEW v \in Users, NEW l \in Tabs,
                        page'[v][l] = Done, phase' = "gather_answers"
                 PROVE  Unanswered(v, answers') = {}
        BY DEF DoneIsTrue
    <2>1. CASE v = u /\ l = k
        BY <1>1, <2>1 DEF Fits, Done
    <2>2. CASE v # u \/ l # k
        BY <1>1, <2>2 DEF PInv, DoneIsTrue
    <2> QED
        BY <2>1, <2>2
<1> QED
    BY <1>3, <1>4, <1>5

(* A step of a page that stores nothing, to what it may show. *)
LEMMA QuietStep ==
    ASSUME PInv, NEW u \in Users, NEW k \in Tabs, PageStep(u, k), ~PostStored(u, k)
    PROVE  /\ UNCHANGED vars /\ lost' \in 0 .. MaxLost
           /\ \E x : /\ Fits(u, x) /\ Show(u, k, x)
                     /\ x.at \in {"asking", "posting"} /\ phase = "gather_answers" =>
                            \/ /\ page[u][k].at \in {"asking", "posting"}
                               /\ x.question = page[u][k].question
                            \/ /\ Unanswered(u, answers) # {}
                               /\ x.question = answers[Min(Unanswered(u, answers))].question
<1> DEFINE p == page[u][k]
           Goal(x) == /\ Fits(u, x) /\ Show(u, k, x)
                      /\ x.at \in {"asking", "posting"} /\ phase = "gather_answers" =>
                             \/ /\ p.at \in {"asking", "posting"}
                                /\ x.question = p.question
                             \/ /\ Unanswered(u, answers) # {}
                                /\ x.question = answers[Min(Unanswered(u, answers))].question
<1>1. UNCHANGED vars /\ lost' \in 0 .. MaxLost
    BY PageAssumption DEF PageStep, Launch, Close, Fetch, FetchLost, Submit, PostRefused,
        PostLost, PInv, PageTypeOK
<1>2. {Closed, Stuck, Done} \subseteq PageState
      /\ Closed.at = "closed" /\ Stuck.at = "stuck" /\ Done.at = "done"
    BY DEF PageState, Closed, Stuck, Done
<1>3. \A t \in 1 .. issued :
          Loading(t) \in PageState /\ Loading(t).at = "loading" /\ Loading(t).token = t
    BY DEF PageState, Loading
<1>4. Prompts(u) \subseteq 1 .. issued /\ Unanswered(u, answers) \subseteq Prompts(u)
    BY DEF PInv, IInv, TypeOK, Prompts, Unanswered
<1>5. CASE Launch(u, k)
    <2>1. PICK t \in Prompts(u) : Show(u, k, Loading(t))
        BY <1>5 DEF Launch
    <2>2. Goal(Loading(t))
        BY <1>3, <1>4, <2>1 DEF Fits
    <2> QED
        BY <1>1, <2>2
<1>6. CASE Close(u, k)
    <2>1. Goal(Closed)
        BY <1>2, <1>6 DEF Close, Fits
    <2> QED
        BY <1>1, <2>1
<1>7. CASE Fetch(u, k)
    <2> DEFINE m == Min(Unanswered(u, answers))
               q == answers[m].question
    <2>1. p.token \in 1 .. issued /\ p.token \in Prompts(u)
        BY <1>7, OwnToken DEF Fetch
    <2>2. CASE phase = "gather_answers" /\ Unanswered(u, answers) # {}
        <3>1. m \in Unanswered(u, answers)
            <4>1. Unanswered(u, answers) \subseteq Nat
                BY <1>4
            <4> QED
                BY <2>2, <4>1, MinOfNaturals
        <3>2. q \in Questions
            BY <3>1 DEF Unanswered, PInv, IInv, TypeOK, Prompt
        <3>3. Show(u, k, Asking(p.token, q))
            BY <1>7, <2>2 DEF Fetch
        <3> HIDE DEF q
        <3>4. /\ Asking(p.token, q) \in PageState /\ Asking(p.token, q).at = "asking"
              /\ Asking(p.token, q).token = p.token /\ Asking(p.token, q).question = q
            BY <2>1, <3>2 DEF PageState, Asking
        <3>5. Fits(u, Asking(p.token, q))
            BY <2>1, <3>4 DEF Fits
        <3>6. Goal(Asking(p.token, q))
            BY <2>2, <3>3, <3>4, <3>5 DEF q
        <3> QED
            BY <1>1, <3>6
    <2>3. CASE ~(phase = "gather_answers" /\ Unanswered(u, answers) # {})
        <3>1. Show(u, k, Done)
            BY <1>7, <2>3 DEF Fetch
        <3>2. Goal(Done)
            BY <1>2, <2>3, <3>1 DEF Fits
        <3> QED
            BY <1>1, <3>2
    <2> QED
        BY <2>2, <2>3
<1>8. CASE FetchLost(u, k)
    <2>1. Goal(Stuck)
        BY <1>2, <1>8 DEF FetchLost, Fits
    <2> QED
        BY <1>1, <2>1
<1>9. ASSUME NEW r \in Responses, Submit(u, k, r)
      PROVE  \E x : Goal(x)
    <2> DEFINE x == Posting(p.token, p.question, r)
    <2>1. p.at = "asking" /\ Show(u, k, x)
        BY <1>9 DEF Submit
    <2>2. p.token \in 1 .. issued /\ p.token \in Prompts(u) /\ p.question \in Questions
        BY <2>1, OwnToken
    <2>3. x \in PageState /\ x.at = "posting" /\ x.token = p.token /\ x.question = p.question
        BY <2>2 DEF PageState, Posting
    <2> HIDE DEF x
    <2>4. Goal(x)
        BY <2>1, <2>2, <2>3 DEF Fits
    <2> QED
        BY <2>4
<1>10. CASE PostRefused(u, k) \/ PostLost(u, k)
    <2>1. p.token \in 1 .. issued /\ p.token \in Prompts(u)
        BY <1>10, OwnToken DEF PostRefused, PostLost
    <2>2. Show(u, k, Stuck) \/ Show(u, k, Loading(p.token))
        BY <1>10 DEF PostRefused, PostLost
    <2>3. Fits(u, Stuck) /\ Fits(u, Loading(p.token))
        BY <1>2, <1>3, <2>1 DEF Fits
    <2>4. Goal(Stuck) \/ Goal(Loading(p.token))
        BY <1>2, <1>3, <2>1, <2>2, <2>3
    <2> QED
        BY <1>1, <2>4
<1> QED
    BY <1>1, <1>5, <1>6, <1>7, <1>8, <1>9, <1>10 DEF PageStep

(* The step that stores a response fills an open prompt of the page's player, *)
(* and leaves the prompts of everybody else alone.                            *)
LEMMA StoringStep ==
    ASSUME PInv, NEW u \in Users, NEW k \in Tabs, PostStored(u, k)
    PROVE  LET a == AnswerTarget(page[u][k].token, answers) IN
           /\ page[u][k].at = "posting" /\ page[u][k].token \in Prompts(u)
           /\ phase = "gather_answers"
           /\ lost' \in 0 .. MaxLost /\ issued' = issued
           /\ a \in Unanswered(u, answers)
           /\ \A v : Prompts(v)' = Prompts(v)
           /\ \A v : Unanswered(v, answers') = Unanswered(v, answers) \ {a}
           /\ \A s \in DOMAIN answers : /\ answers'[s].question = answers[s].question
                                        /\ s # a => answers'[s] = answers[s]
           /\ \E x : /\ Fits(u, x) /\ Show(u, k, x)
                     /\ x.at \notin {"asking", "posting"}
<1> DEFINE p == page[u][k]
           a == AnswerTarget(p.token, answers)
<1>1. p.at = "posting" /\ AnswerPrompt(p.token, p.response)
    BY DEF PostStored
<1>2. /\ p.token \in 1 .. issued /\ p.token \in Prompts(u)
      /\ answers[p.token].user = u /\ p.response \in Responses
    BY <1>1, OwnToken
<1>3. phase = "gather_answers" /\ issued' = issued
    BY <1>1 DEF AnswerPrompt
<1>4. lost' \in 0 .. MaxLost
    BY PageAssumption DEF PostStored, PInv, PageTypeOK
<1>5. /\ a \in Unanswered(u, answers)
      /\ DOMAIN answers' = DOMAIN answers
      /\ \A s \in DOMAIN answers :
            /\ answers'[s].user = answers[s].user
            /\ answers'[s].question = answers[s].question
            /\ s # a => answers'[s] = answers[s]
      /\ \A v : Unanswered(v, answers') = Unanswered(v, answers) \ {a}
    BY <1>1, <1>2, FillsOne DEF PInv
<1>6. \A v : Prompts(v)' = Prompts(v)
    BY <1>5 DEF Prompts
<1>7. \E x : Fits(u, x) /\ Show(u, k, x) /\ x.at \notin {"asking", "posting"}
    <2>1. Stuck \in PageState /\ Stuck.at = "stuck"
        BY DEF PageState, Stuck
    <2>2. Loading(p.token) \in PageState /\ Loading(p.token).at = "loading"
          /\ Loading(p.token).token = p.token
        BY <1>2 DEF PageState, Loading
    <2>3. Show(u, k, Stuck) \/ Show(u, k, Loading(p.token))
        BY DEF PostStored
    <2>4. Fits(u, Stuck) /\ Fits(u, Loading(p.token))
        BY <1>2, <2>1, <2>2 DEF Fits
    <2> QED
        BY <2>1, <2>2, <2>3, <2>4
<1> QED
    BY <1>1, <1>2, <1>3, <1>4, <1>5, <1>6, <1>7

LEMMA NextPInv == PInv /\ [PageNext]_allVars => PInv'
<1> SUFFICES ASSUME PInv, [PageNext]_allVars PROVE PInv'
    OBVIOUS
<1>1. IInv'
    BY PageStepIsGameStep, NextIInv DEF PInv
<1>2. ASSUME NEW u \in Users, NEW k \in Tabs, PageStep(u, k) PROVE PInv'
    <2>1. CASE PostStored(u, k)
        <3>1. /\ PageTypeOK' /\ TokensAreOwn' /\ DoneIsTrue'
            BY <2>1, StoringStep, ShowKeeps
        <3>2. phase' # "gather_users"
            BY <2>1 DEF PostStored, AnswerPrompt
        <3> QED
            BY <1>1, <3>1, <3>2 DEF PInv
    <2>2. CASE ~PostStored(u, k)
        <3>1. UNCHANGED vars /\ lost' \in 0 .. MaxLost
            BY <1>2, <2>2, QuietStep
        <3>2. PICK x : Fits(u, x) /\ Show(u, k, x)
            BY <1>2, <2>2, QuietStep
        <3>3. issued' = issued /\ phase' = phase /\ answers' = answers
            BY <3>1 DEF vars
        <3>4. \A v : Prompts(v)' = Prompts(v)
            BY <3>3 DEF Prompts
        <3>5. \A v : Unanswered(v, answers') \subseteq Unanswered(v, answers)
            BY <3>3
        <3>6. PageTypeOK' /\ TokensAreOwn' /\ DoneIsTrue'
            BY <3>1, <3>2, <3>3, <3>4, <3>5, ShowKeeps
        <3> QED
            BY <1>1, <3>3, <3>6 DEF PInv
    <2> QED
        BY <2>1, <2>2
<1>3. CASE GameEnds \/ UNCHANGED allVars
    <2>1. /\ UNCHANGED <<page, lost, answers, issued>>
          /\ phase' = "end" \/ phase' = phase
        BY <1>3 DEF GameEnds, EndGame, pageVars, allVars, vars
    <2>2. PageState' = PageState /\ \A v : Prompts(v)' = Prompts(v)
        BY <2>1 DEF PageState, Prompts
    <2>3. PageTypeOK' /\ TokensAreOwn' /\ DoneIsTrue'
        BY <2>1, <2>2 DEF PInv, PageTypeOK, TokensAreOwn, DoneIsTrue
    <2> QED
        BY <1>1, <2>1, <2>3 DEF PInv
<1> QED
    BY <1>2, <1>3 DEF PageNext

LEMMA SpecPInv == AnySpec => []PInv
<1>1. AnyDeal => PInv
    BY InitPInv
<1> QED
    BY <1>1, NextPInv, PTL DEF AnySpec

(* With one tab per player nobody else fills the prompt that a page shows. *)
LEMMA ShowAsks ==
    ASSUME PInv, PageTypeOK', AsksFirstOpen, SingleTab,
           NEW u \in Users, NEW k \in Tabs, NEW x, Fits(u, x), Show(u, k, x),
           x.at \in {"asking", "posting"} /\ phase' = "gather_answers" =>
               /\ Unanswered(u, answers') # {}
               /\ x.question = answers'[Min(Unanswered(u, answers'))].question,
           phase' = "gather_answers" => phase = "gather_answers",
           \A v \in Users \ {u} : Unanswered(v, answers') = Unanswered(v, answers),
           \A s \in DOMAIN answers : answers'[s].question = answers[s].question
    PROVE  AsksFirstOpen'
<1>1. /\ page'[u][k] = x
      /\ \A v \in Users, l \in Tabs : v # u \/ l # k => page'[v][l] = page[v][l]
    BY ShowOne DEF Fits, PInv
<1> SUFFICES ASSUME NEW v \in Users, NEW l \in Tabs,
                    page'[v][l].at \in {"asking", "posting"}, phase' = "gather_answers"
             PROVE  /\ Unanswered(v, answers') # {}
                    /\ page'[v][l].question = answers'[Min(Unanswered(v, answers'))].question
    BY DEF AsksFirstOpen
<1>2. l = k
    BY DEF SingleTab
<1>3. CASE v = u
    BY <1>1, <1>2, <1>3
<1>4. CASE v # u
    <2> DEFINE m == Min(Unanswered(v, answers))
    <2>1. page'[v][l] = page[v][l] /\ phase = "gather_answers"
        BY <1>1, <1>4
    <2>2. Unanswered(v, answers) # {} /\ page[v][l].question = answers[m].question
        BY <2>1 DEF AsksFirstOpen
    <2>3. m \in DOMAIN answers
        <3>1. Unanswered(v, answers) \subseteq DOMAIN answers /\ DOMAIN answers \subseteq Nat
            BY DEF Unanswered, PInv, IInv, TypeOK
        <3> QED
            BY <2>2, <3>1, MinOfNaturals
    <2> HIDE DEF m
    <2>4. answers'[m].question = answers[m].question
        BY <2>3
    <2>5. Unanswered(v, answers') = Unanswered(v, answers)
        BY <1>4
    <2> QED
        BY <2>1, <2>2, <2>4, <2>5 DEF m
<1> QED
    BY <1>3, <1>4

LEMMA NextAsks ==
    ASSUME PInv, AsksFirstOpen, SingleTab, [PageNext]_allVars
    PROVE  AsksFirstOpen'
<1>1. PageTypeOK'
    BY NextPInv DEF PInv
<1>2. ASSUME NEW u \in Users, NEW k \in Tabs, PageStep(u, k) PROVE AsksFirstOpen'
    <2>1. CASE PostStored(u, k)
        <3>1. PICK x : Fits(u, x) /\ Show(u, k, x) /\ x.at \notin {"asking", "posting"}
            BY <2>1, StoringStep
        <3> DEFINE a == AnswerTarget(page[u][k].token, answers)
        <3>2. /\ phase = "gather_answers" /\ a \in Unanswered(u, answers)
              /\ \A v : Unanswered(v, answers') = Unanswered(v, answers) \ {a}
              /\ \A s \in DOMAIN answers : answers'[s].question = answers[s].question
            BY <2>1, StoringStep
        <3> HIDE DEF a
        <3>3. \A v \in Users \ {u} : a \notin Unanswered(v, answers)
            BY <3>2 DEF Unanswered
        <3>4. \A v \in Users \ {u} : Unanswered(v, answers') = Unanswered(v, answers)
            BY <3>2, <3>3
        <3> QED
            BY <1>1, <3>1, <3>2, <3>4, ShowAsks
    <2>2. CASE ~PostStored(u, k)
        <3>1. UNCHANGED <<phase, answers>>
            BY <1>2, <2>2, QuietStep DEF vars
        <3>2. PICK x : /\ Fits(u, x) /\ Show(u, k, x)
                       /\ x.at \in {"asking", "posting"} /\ phase = "gather_answers" =>
                              \/ /\ page[u][k].at \in {"asking", "posting"}
                                 /\ x.question = page[u][k].question
                              \/ /\ Unanswered(u, answers) # {}
                                 /\ x.question = answers[Min(Unanswered(u, answers))].question
            BY <1>2, <2>2, QuietStep
        <3>3. x.at \in {"asking", "posting"} /\ phase' = "gather_answers" =>
                  /\ Unanswered(u, answers') # {}
                  /\ x.question = answers'[Min(Unanswered(u, answers'))].question
            BY <3>1, <3>2 DEF AsksFirstOpen
        <3> QED
            BY <1>1, <3>1, <3>2, <3>3, ShowAsks
    <2> QED
        BY <2>1, <2>2
<1>3. CASE GameEnds
    BY <1>3 DEF GameEnds, EndGame, AsksFirstOpen
<1>4. CASE UNCHANGED allVars
    BY <1>4 DEF allVars, vars, pageVars, AsksFirstOpen
<1> QED
    BY <1>2, <1>3, <1>4 DEF PageNext

LEMMA SpecAsks == ASSUME SingleTab PROVE AnySpec => [](PInv /\ AsksFirstOpen)
<1>1. AnyDeal => PInv /\ AsksFirstOpen
    BY InitPInv
<1>2. PInv /\ AsksFirstOpen /\ [PageNext]_allVars => (PInv /\ AsksFirstOpen)'
    BY NextPInv, NextAsks
<1> QED
    BY <1>1, <1>2, PTL DEF AnySpec

-------------------------------------------------------------------------------
(* What is said to a player is true.                                        *)

(* Pages are in one of the states of main.js and prompt.js, with a token that *)
(* the bot has issued and a question that exists: no page ever shows          *)
(* "undefined".                                                               *)
THEOREM PagesAreTyped == AnySpec => []PageTypeOK
<1>1. PInv => PageTypeOK
    BY DEF PInv
<1> QED
    BY <1>1, SpecPInv, PTL

(* "You have answered all your prompts!" is true until the game moves on,     *)
(* whatever was lost, and in however many tabs the player answers.            *)
THEOREM DoneSaysTheTruth == AnySpec => []DoneIsTrue
<1>1. PInv => DoneIsTrue
    BY DEF PInv
<1> QED
    BY <1>1, SpecPInv, PTL

(* With one tab a response that is posted while the answers are gathered      *)
(* finds a prompt to fill, whichever token the page was opened with.          *)
THEOREM NothingIsTypedInVain == ASSUME SingleTab PROVE AnySpec => []NothingTypedInVain
<1>1. PInv /\ AsksFirstOpen => NothingTypedInVain
    <2> SUFFICES ASSUME PInv, AsksFirstOpen, NEW u \in Users, NEW k \in Tabs,
                        page[u][k].at = "posting", phase = "gather_answers"
                 PROVE  CanAnswer(page[u][k].token, answers)
        BY DEF NothingTypedInVain
    <2>1. page[u][k].token \in DOMAIN answers /\ answers[page[u][k].token].user = u
        BY OwnToken
    <2>2. Unanswered(u, answers) # {}
        BY DEF AsksFirstOpen
    <2> QED
        BY <2>1, <2>2 DEF CanAnswer
<1> QED
    BY <1>1, SpecAsks, PTL

-------------------------------------------------------------------------------
(* What is stored is what was shown.                                        *)

(* StoredAsShownByFirstToken of one step. *)
StoresAsShown ==
    \A t \in DOMAIN answers : StoredNow(t) =>
        \E k \in Tabs :
            LET p == page[answers[t].user][k] IN
            /\ p.at = "posting" /\ p # page'[answers[t].user][k]
            /\ p.token = Min(Prompts(answers[t].user)) => p.question = answers[t].question

LEMMA StepStoresAsShown ==
    ASSUME PInv, AsksFirstOpen, PageNext
    PROVE  StoresAsShown
<1> SUFFICES ASSUME NEW s \in DOMAIN answers, StoredNow(s)
             PROVE  \E k \in Tabs :
                        LET p == page[answers[s].user][k] IN
                        /\ p.at = "posting" /\ p # page'[answers[s].user][k]
                        /\ p.token = Min(Prompts(answers[s].user)) =>
                              p.question = answers[s].question
    BY DEF StoresAsShown
<1>1. answers' # answers
    BY DEF StoredNow
<1>2. PICK u \in Users, k \in Tabs : PostStored(u, k)
    BY <1>1, QuietStep DEF PageNext, GameEnds, EndGame, vars
<1> DEFINE p == page[u][k]
           a == AnswerTarget(p.token, answers)
<1>3. /\ p.at = "posting" /\ phase = "gather_answers" /\ a \in Unanswered(u, answers)
      /\ \A t \in DOMAIN answers : t # a => answers'[t] = answers[t]
    BY <1>2, StoringStep
<1>4. s = a
    BY <1>3 DEF StoredNow
<1>5. answers[s].user = u
    BY <1>3, <1>4 DEF Unanswered
<1>6. p # page'[u][k]
    <2>1. PICK x : Fits(u, x) /\ Show(u, k, x) /\ x.at \notin {"asking", "posting"}
        BY <1>2, StoringStep
    <2>2. page'[u][k] = x
        BY <2>1, ShowOne DEF Fits, PInv
    <2> QED
        BY <1>3, <2>1, <2>2
<1>7. p.token = Min(Prompts(u)) => p.question = answers[s].question
    <2> SUFFICES ASSUME p.token = Min(Prompts(u)) PROVE p.question = answers[s].question
        OBVIOUS
    <2>1. p.question = answers[Min(Unanswered(u, answers))].question
        BY <1>3 DEF AsksFirstOpen
    <2>2. a = Min(Unanswered(u, answers))
        BY <1>3, FirstPromptFirst DEF PInv
    <2> QED
        BY <1>4, <2>1, <2>2
<1> QED
    BY <1>3, <1>5, <1>6, <1>7

(* A player with one tab, opened with the token of the first prompt, never    *)
(* has a response stored with another question than the one that the page     *)
(* showed when it was typed.                                                  *)
THEOREM FirstTokenStoresAsShown == ASSUME SingleTab PROVE AnySpec => StoredAsShownByFirstToken
<1>1. PInv /\ AsksFirstOpen /\ [PageNext]_allVars => [StoresAsShown]_allVars
    BY StepStoresAsShown
<1>2. AnySpec => [][StoresAsShown]_allVars
    BY <1>1, SpecAsks, PTL DEF AnySpec
<1> QED
    BY <1>2 DEF StoredAsShownByFirstToken, StoresAsShown

(* Whatever the pages do, lose or post twice, the game only sees steps that   *)
(* Game allows: what is proved of Game holds behind the pages.                *)
THEOREM PagesPlayTheGame == AnySpec => [][Next]_vars
BY SpecPInv, PageStepIsGameStep, PTL DEF AnySpec
===============================================================================
